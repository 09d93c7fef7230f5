\* A message overflows the queue while a followup run is in flight.
CONSTANTS
  m1 = m1
  m2 = m2
  m3 = m3
  Messages = {m1, m2, m3}
  Route <- MCRoute
  Regimes <- CollectSummarize
  MaxQueues = 1
  ArrivalPhases = {"idle", "debounce", "running"}
  OverflowPhases = {"idle", "debounce", "running"}
  ClearPhases = {}
SPECIFICATION Spec
INVARIANTS
  NothingLost
