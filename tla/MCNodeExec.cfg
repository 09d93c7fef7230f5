\* One command, called twice, on a node that connects three times.
SPECIFICATION FairSpec
CONSTANTS
  n1 = n1
  c1 = c1
  c2 = c2
  c3 = c3
  i1 = i1
  i2 = i2
  r1 = r1
  NoConn = NoConn
  Nodes = {n1}
  Conns = {c1, c2, c3}
  NodeOf <- MCNodeOf
  Calls = {i1, i2}
  Target <- MCTarget
  Approvals = {r1}
  ApprovalOf <- MCApprovalOf
  Fallbacks = {"deny", "allowlist", "full"}
INVARIANTS
  DecisionsAreHonoured
  PendingHasSession
  ConnectedIsFound
PROPERTIES
  CallsAreAnswered
CHECK_DEADLOCK FALSE
