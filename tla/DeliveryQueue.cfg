\* Crashes at any point; live sends, recoveries and restarts in place overlap.
CONSTANTS
  NumDeliveries = 2
  MaxRetries = 2
  MaxCrashes = 1
  BestEffort = {2}
  WithOnError = {2}
  Recoveries = {r1, r2}
  Overlapping = {1}
SPECIFICATION FairSpec
INVARIANTS
  NothingLost
  SendsAreBounded
PROPERTIES
  AckedIsNotReplayed
  EntriesSettle
