\* Redis may fail; one number in two roles, two nodes.
CONSTANTS
  u1 = u1
  c1 = c1
  c2 = c2
  None = None
  Node = {n1, n2}
  Visitor = {u1}
  Agent = {u1}
  Conn <- MCConn
  Of <- MCOf
  TTL = 2
  Faults = TRUE
SPECIFICATION Spec
SYMMETRY Symmetry
CONSTRAINTS NoAgents Followed OneStays NotReset Together Few
INVARIANTS TypeOK Reached NotMisdelivered
CHECK_DEADLOCK FALSE
