----------------------------- MODULE MCVisitors -----------------------------
(* Instances of Visitors for TLC. *)
EXTENDS Visitors, TLC

CONSTANTS p1, p2, c1, c2, c3

\* One person has two connections.
MCConn == {c1, c2, c3}
MCOf   == (c1 :> p1) @@ (c2 :> p1) @@ (c3 :> p2)

Symmetry == Permutations(Id) \cup Permutations({c1, c2})
=============================================================================
