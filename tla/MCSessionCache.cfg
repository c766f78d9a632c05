\* The weakest database: reads do not lock and may fail.  Two goroutines share
\* a cache, a third has another.  No property here speaks of the unread messages.
CONSTANTS
  c1 = c1
  c2 = c2
  c3 = c3
  n1 = n1
  n2 = n2
  None = None
  Visitor = {v1, v2}
  Agent = {a1, a2}
  Session = {s1}
  Node = {n1, n2}
  Call = {c1, c2, c3}
  NodeOf <- MCNodeOf
  Serializable = FALSE
  ReadFaults = TRUE
  MaxUnread = 0
SPECIFICATION Spec
SYMMETRY Symmetry
INVARIANTS OneWinner CacheCoherent PushTarget PeerIsParty
PROPERTY Implements
