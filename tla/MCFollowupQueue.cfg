\* Three regimes: messages beyond the cap are refused while modes change, with
\* each message sent once or one of two sent twice; or overflow is summarized,
\* and the cap changes.  Arrivals at any time, overflow while no followup run
\* is in flight.
CONSTANTS
  m1 = m1
  m2 = m2
  m3 = m3
  Messages = {m1, m2, m3}
  Route <- MCRoute
  Regimes <- MCRegimes
  MaxQueues = 2
  ArrivalPhases = {"idle", "debounce", "checked", "running"}
  OverflowPhases = {"idle", "debounce", "checked"}
  ClearPhases = {"idle"}
SPECIFICATION FairSpec
INVARIANTS
  NothingLost
  AnsweredOnce
  CollectKeepsRouting
  DroppedAreKept
PROPERTIES
  QueuedIsAnswered
  SummaryIsDelivered
