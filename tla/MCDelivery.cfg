\* Two visitors and two agents that share their numbers, one session, two messages.
CONSTANTS
  u1 = u1
  u2 = u2
  x1 = x1
  x2 = x2
  x3 = x3
  y1 = y1
  y2 = y2
  None = None
  Unique = FALSE
  Number = {u1, u2}
  Session = {s1}
  Conn = {x1, x2, x3, y1, y2}
  Of <- MCOf
  PageSize = 1
  Faults = TRUE
  MaxLen = 2
SPECIFICATION Spec
SYMMETRY Symmetry
CONSTRAINT Followed
INVARIANTS TypeOK NothingLost OnlyParties
CHECK_DEADLOCK FALSE
