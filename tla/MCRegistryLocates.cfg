\* A user that connects to a second node before the first one has noticed that
\* it left.
CONSTANTS
  u1 = u1
  c1 = c1
  c2 = c2
  c3 = c3
  n1 = n1
  n2 = n2
  None = None
  Node = {n1, n2}
  Visitor = {u1}
  Agent = {}
  Conn <- Two
  Of <- OfTwo
  TTL = 3
  Faults = FALSE
SPECIFICATION RFairSpec
PROPERTY LocatesUser
CHECK_DEADLOCK FALSE
