------------------------------ MODULE MCFanout ------------------------------
(* Instances of Fanout for TLC. *)
EXTENDS Fanout, FiniteSets, TLC

CONSTANTS u1, c1, c2

\* A visitor and an agent have the same number.
MCConn == {c1, c2}
MCOf   == (c1 :> <<"visitor", u1>>) @@ (c2 :> <<"agent", u1>>)

\* No message depends on the set of online agents.
NoAgents == agents = {}

\* A message that has come to its end is not followed any further: what it has
\* reached stays, and the next message starts as the first did.
Followed == mail.pc = "idle" => mail.kind = "none"

\* One of the nodes goes on, the other is followed until Shutdown has reset its maps
\* or it has gone.  Nobody connects before both have started, and two kinds of
\* goroutines wait at a time.
OneStays == \E n \in Node : node[n] \in {"new", "up"}
NotReset == \A n \in Node : node[n] # "stopped"
Together == fresh = Conn \/ \A n \in Node : node[n] # "new"
Few      == Cardinality({j \in Job : jobs[j] > 0}) <= 2

Symmetry == Permutations(Node)
=============================================================================
