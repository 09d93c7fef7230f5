\* One lane of one or two slots, a first body that may hang, a close() that
\* may throw, and three restarts; signals arrive only once start() has answered.
CONSTANTS
  main = main
  t1 = t1
  t2 = t2
  t3 = t3
  Tasks = {t1, t2}
  Hung = {t1}
  Lanes = {main}
  LaneOf <- MCOneLane
  ConcurrencyInputs = {1, 2}
  MaxResets = 3
  SignalsWhileStarting = FALSE
SPECIFICATION GatewayFairSpec
INVARIANTS
  ServingAcceptsWork
  DrainedMeansDone
PROPERTIES
  Spec
  ResetBetweenServers
  QueuedSurvivesRestart
CHECK_DEADLOCK FALSE
