------------------------------- MODULE MCHub -------------------------------
(* Instances of Hub for TLC. *)
EXTENDS Hub, TLC

CONSTANTS u1, u2, t1, t2

\* The visitor and the first agent have the same id in different tables.
MCVisitor == {u1}
MCAgent   == {u1, u2}
MCTenantOf ==
  (<<"visitor", u1>> :> t1) @@ (<<"agent", u1>> :> t1) @@ (<<"agent", u2>> :> t2)

OneAgent == {u1}
MCTenantOfOne == (<<"visitor", u1>> :> t1) @@ (<<"agent", u1>> :> t1)

Symmetry == Permutations(Conn)
=============================================================================
