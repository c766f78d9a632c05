\* A visitor and an agent write to one session; what each has reported read is
\* remembered.
CONSTANTS
  None = None
  Session = {s1}
  Call = {c1}
  Sender = {"visitor", "agent"}
  Tracked = {"visitor", "agent"}
  MaxId = 2
SPECIFICATION Spec
INVARIANT OfflineKept
