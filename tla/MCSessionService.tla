-------------------------- MODULE MCSessionService --------------------------
(* Instances of SessionService for TLC. *)
EXTENDS SessionService, TLC

CONSTANTS c1, c2, c3, n1, n2

\* Two goroutines on one node, which share a cache, and one on another.
MCNodeOf == (c1 :> n1) @@ (c2 :> n1) @@ (c3 :> n2)
\* One goroutine on each of two nodes.
MCNodeOfTwo == (c1 :> n1) @@ (c2 :> n2)

Symmetry == Permutations(Visitor) \cup Permutations(Agent) \cup Permutations(Session)
=============================================================================
