\* Two targets, one runner that replaces another.
CONSTANTS
  Targets = {t1, t2}
  Delays = {0}
  CoalesceTicks = 1
  RetryTicks = 2
  MaxRunners = 2
  MaxBatches = 2
SPECIFICATION FairSpec
INVARIANTS
  UncalledIsHeld
  SerialBatches
PROPERTIES
  RetryCooldown
  WakesAreCalled
