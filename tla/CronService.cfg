SPECIFICATION Spec
CONSTANTS
  AtJobs = {a}
  EveryJobs = {}
  CronJobs = {c}
  At = 1
  Outcomes = {"ok", "error"}
  MaxAttempts = 1
  Backoff = 1
  Concurrency = 1
  MaxImmediate = 1
  Overlap = FALSE
  MaxTime = 2
  MaxServices = 2
  MaxEdits = 1
  MaxManual = 1
INVARIANT OneRunAtATime
PROPERTY DueIsNotSkipped JobsSettle
CHECK_DEADLOCK FALSE
