\* Redis does not fail; one number in two roles, two nodes.
CONSTANTS
  u1 = u1
  c1 = c1
  c2 = c2
  c3 = c3
  n1 = n1
  n2 = n2
  None = None
  Node = {n1, n2}
  Visitor = {u1}
  Agent = {u1}
  Conn <- MCConn
  Of <- MCOf
  TTL = 2
  Faults = FALSE
SPECIFICATION MCFairSpec
INVARIANTS RTypeOK 
PROPERTIES RegistrationKept MemberKept StaleEnds MemberLeaves
CHECK_DEADLOCK FALSE
