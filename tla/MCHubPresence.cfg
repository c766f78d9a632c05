\* HandleClose after HandleMessage, and a process that goes on.  It may stop doing
\* anything: the ids are used up, and no client has to do something.
CONSTANTS
  u1 = u1
  u2 = u2
  t1 = t1
  t2 = t2
  None = None
  Conn = {c1, c2, c3}
  Visitor <- MCVisitor
  Agent <- OneAgent
  Tenant = {t1}
  TenantOf <- MCTenantOfOne
  Send = {}
  CloseOverlaps = FALSE
  Stops = FALSE
  WriteFaults = FALSE
SPECIFICATION FairSpec
INVARIANTS LimiterOwned NoPhantom
PROPERTY GoneGoesOffline
CHECK_DEADLOCK FALSE
