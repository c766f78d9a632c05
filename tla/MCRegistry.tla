----------------------------- MODULE MCRegistry -----------------------------
(* Instances of Registry for TLC. *)
EXTENDS Registry, FiniteSets, TLC

CONSTANTS u1, c1, c2, c3, n1, n2

\* A visitor and an agent, on two connections, have the same number.
MCConn == {c1, c2, c3}
MCOf   == (c1 :> <<"visitor", u1>>) @@ (c2 :> <<"agent", u1>>)
            @@ (c3 :> <<"agent", u1>>)

\* The agent comes first to n1, then to either node.
Placed == (c2 \in fresh => c3 \in fresh) /\ at[c2] # n2

\* n1 goes on, n2 may shut down or die, and nobody connects before both have started.
Staying1 == node[n1] \in {"new", "up"}
Together == fresh = Conn \/ \A n \in Node : node[n] # "new"

\* Three kinds of goroutines wait at a time.
Few == Cardinality({j \in Job : jobs[j] > 0}) <= 3

\* No action of RFairness leads out of the limits.
Limits     == Placed /\ Staying1 /\ Together /\ Few
MCSpec     == RInit /\ [][RNext /\ Limits']_rvars
MCFairSpec == MCSpec /\ RFairness

\* The visitor on two connections.
Two   == {c1, c3}
OfTwo == [c \in Two |-> <<"visitor", u1>>]
=============================================================================
