-------------------------- MODULE SessionLifecycle --------------------------
(***************************************************************************)
(* What the session service promises about the rows of ccsim_sessions,     *)
(* whatever handlers run concurrently and on whichever node:               *)
(*   - a visitor has at most one session that is not closed, if Unique;    *)
(*   - a session goes pending -> active -> closed, or pending -> closed,   *)
(*     and never back;                                                     *)
(*   - the agent is written once, on the way from pending to active.       *)
(* SessionService is the detailed specification that implements this one.  *)
(***************************************************************************)
CONSTANTS
  Visitor, Agent, Session, None,
  Unique   \* whether the search for an open session and the insert of a new one
           \* are one step: transactions exclude each other and no read fails

VARIABLES status, visitor, agent

vars == <<status, visitor, agent>>

Status == {"none", "pending", "active", "closed"}

\* The sessions FindByVisitorID can return for v: its rows that are not closed.
Open(v) == {s \in Session : status[s] \in {"pending", "active"} /\ visitor[s] = v}

Init ==
  /\ status  = [s \in Session |-> "none"]
  /\ visitor = [s \in Session |-> None]
  /\ agent   = [s \in Session |-> None]

\* A visitor gets a new session, when it has no open one if the service can tell.
Create(s, v) ==
  /\ status[s] = "none"
  /\ Unique => Open(v) = {}
  /\ status'  = [status  EXCEPT ![s] = "pending"]
  /\ visitor' = [visitor EXCEPT ![s] = v]
  /\ UNCHANGED agent

\* An agent takes a session that still waits.
Assign(s, a) ==
  /\ status[s] = "pending"
  /\ status' = [status EXCEPT ![s] = "active"]
  /\ agent'  = [agent  EXCEPT ![s] = a]
  /\ UNCHANGED visitor

\* Either party closes a session, accepted or not.
Close(s) ==
  /\ status[s] \in {"pending", "active"}
  /\ status' = [status EXCEPT ![s] = "closed"]
  /\ UNCHANGED <<visitor, agent>>

Next ==
  \E s \in Session :
    \/ \E v \in Visitor : Create(s, v)
    \/ \E a \in Agent : Assign(s, a)
    \/ Close(s)

Spec == Init /\ [][Next]_vars
=============================================================================
