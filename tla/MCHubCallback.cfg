\* An agent that reconnects before the callback of its last disconnect has run.
CONSTANTS
  u1 = u1
  u2 = u2
  t1 = t1
  t2 = t2
  None = None
  Conn = {c1, c2}
  Visitor <- MCVisitor
  Agent <- OneAgent
  Tenant = {t1}
  TenantOf <- MCTenantOfOne
  Send = {}
  CloseOverlaps = FALSE
  Stops = FALSE
  WriteFaults = FALSE
SPECIFICATION Spec
INVARIANT StatusKept
CHECK_DEADLOCK FALSE
