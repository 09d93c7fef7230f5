SPECIFICATION Spec
CONSTANTS
  p1 = p1
  p2 = p2
  c1 = c1
  c2 = c2
  c3 = c3
  Procs <- MCProcs
  Callers <- MCCallers
  ProcOf <- MCProcOf
  NoFile = NoFile
  Hazards = {"overlap", "no_starttime", "long_hold", "sweep", "release_again"}
  MaxHazards = 1
  MaxCrashes = 1
  MaxDepth = 2
INVARIANT EntryIsBacked
PROPERTY  IsReentrantLock OrphanIsReclaimed
CHECK_DEADLOCK FALSE
