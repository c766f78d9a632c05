\* Two persons, three connections, one session.
CONSTANTS
  p1 = p1
  p2 = p2
  c1 = c1
  c2 = c2
  c3 = c3
  None = None
  Unique = FALSE
  Person = {p1, p2}
  Id = {i1, i2}
  Agent = {a1}
  Session = {s1}
  Conn <- MCConn
  Of <- MCOf
SPECIFICATION Spec
SYMMETRY Symmetry
INVARIANTS TypeOK OnePersonPerId RatingIsOne
