\* Two runs of one session and a cron job around a run, one restart.
CONSTANTS
  sess = sess
  cronSess = cronSess
  Main = Main
  Cron = Cron
  Subagent = Subagent
  Nested = Nested
  NoTask = NoTask
  r1 = r1
  r1g = r1g
  r2 = r2
  r2g = r2g
  job = job
  jobRun = jobRun
  jobRunG = jobRunG
  Tasks = {r1, r1g, r2, r2g, job, jobRun, jobRunG}
  Child <- MCChild
  Lanes = {sess, cronSess, Main, Cron, Nested}
  LaneOf <- MCLaneOf
  ConcurrencyInputs = {2}
  MaxResets = 1
SPECIFICATION RunFairSpec
INVARIANTS
  OneRunPerSession
PROPERTIES
  EverythingEnds
CHECK_DEADLOCK FALSE
