\* A restart signal may arrive while start() is pending.
CONSTANTS
  main = main
  t1 = t1
  t2 = t2
  t3 = t3
  Tasks = {t1, t2, t3}
  Hung = {t1}
  Lanes = {main}
  LaneOf <- MCOneLane
  ConcurrencyInputs = {1}
  MaxResets = 1
  SignalsWhileStarting = TRUE
SPECIFICATION GatewaySpec
INVARIANT ServingAcceptsWork
CHECK_DEADLOCK FALSE
