----------------------------- MODULE Directory -----------------------------
(***************************************************************************)
(* What the connection table of a process promises to those who send       *)
(* through it, however many goroutines authenticate, close and shut down:   *)
(*   - a connection is entered once in its life, under one user, and under  *)
(*     the tenant the user belongs to, in one step;                         *)
(*   - it goes from both places in one step, and never comes back;          *)
(*   - a connection that went before it was entered is not entered.         *)
(* Hub is the detailed specification that implements this one.  Registry    *)
(* and Fanout, for which a connection is unused, bound or gone, and an      *)
(* index a set of bound connections, rely on it.                            *)
(***************************************************************************)
CONSTANTS
  Conn, Key, Tenant,
  TenantOf   \* TenantOf[k] is the tenant of the user k

VARIABLES
  waiting,   \* the connections that may still be entered
  users,     \* pairs of a connection and the user it is found under
  tenants    \* pairs of a connection and the tenant it is found under

vars == <<waiting, users, tenants>>

Init ==
  /\ waiting = Conn
  /\ users   = {}
  /\ tenants = {}

\* The user k has authenticated on c.
Enter(c, k) ==
  /\ c \in waiting
  /\ waiting' = waiting \ {c}
  /\ users'   = users \cup {<<c, k>>}
  /\ tenants' = tenants \cup {<<c, TenantOf[k]>>}

\* These connections are closed, or all are when the process ends.
Forget(gone) ==
  /\ waiting' = waiting \ gone
  /\ users'   = {e \in users : e[1] \notin gone}
  /\ tenants' = {e \in tenants : e[1] \notin gone}

Next ==
  \/ \E c \in Conn, k \in Key : Enter(c, k)
  \/ \E gone \in SUBSET Conn : Forget(gone)

Spec == Init /\ [][Next]_vars
=============================================================================
