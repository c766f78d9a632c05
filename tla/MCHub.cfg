\* Everything may overlap, fail and stop.
CONSTANTS
  u1 = u1
  u2 = u2
  t1 = t1
  t2 = t2
  None = None
  Conn = {c1, c2}
  Visitor <- MCVisitor
  Agent <- MCAgent
  Tenant = {t1, t2}
  TenantOf <- MCTenantOf
  Send = {g1}
  CloseOverlaps = TRUE
  Stops = TRUE
  WriteFaults = TRUE
SPECIFICATION Spec
SYMMETRY Symmetry
INVARIANTS TypeOK IndexExact Recipient
PROPERTY Implements
