\* Two nodes before a database with one writer at a time (SQLite) whose reads
\* do not fail.
CONSTANTS
  c1 = c1
  c2 = c2
  c3 = c3
  n1 = n1
  n2 = n2
  None = None
  Visitor = {v1}
  Agent = {a1, a2}
  Session = {s1, s2}
  Node = {n1, n2}
  Call = {c1, c2}
  NodeOf <- MCNodeOfTwo
  Serializable = TRUE
  ReadFaults = FALSE
  MaxUnread = 1
SPECIFICATION Spec
SYMMETRY Symmetry
INVARIANTS TypeOK OneOpenSession UnreadHasAgent
PROPERTY Implements
