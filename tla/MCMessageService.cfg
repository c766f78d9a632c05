\* Three concurrent sends of at most three rows, of one sender to two sessions or of
\* two senders to one.
CONSTANTS
  None = None
  Session = {s1, s2}
  Call = {c1, c2, c3}
  Sender = {"visitor", "agent"}
  Tracked = {}
  MaxId = 3
SPECIFICATION Spec
SYMMETRY Symmetry
CONSTRAINT Apart
INVARIANTS TypeOK SeqContiguous IdFollowsSeq ReadIsPrefix LastIsNewest PageExact
PROPERTY Implements
