\* Three calls compete for one lane, one call uses another.
CONSTANTS
  main = main
  cron = cron
  t1 = t1
  t2 = t2
  t3 = t3
  t4 = t4
  Lanes = {main, cron}
  Tasks = {t1, t2, t3, t4}
  LaneOf <- MCLaneOf
  ConcurrencyInputs = {0, 2}
  MaxResets = 1

SPECIFICATION FairSpec

INVARIANTS
  QueuedExactlyOnce
  SlotsMatchRunning
  NoStrandedWork

PROPERTIES
  NoOvertaking
  QueuedIsServed
