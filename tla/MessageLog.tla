----------------------------- MODULE MessageLog -----------------------------
(***************************************************************************)
(* What the message service promises about a session: its messages form a  *)
(* log that only grows at its end, and the messages that are read are the  *)
(* first ones of it, up to a cursor that never goes back.  MessageService   *)
(* is the detailed specification that implements this one.                 *)
(***************************************************************************)
EXTENDS Naturals, Sequences

CONSTANTS Session, Sender

VARIABLES log, cursor

vars == <<log, cursor>>

Init ==
  /\ log    = [s \in Session |-> <<>>]
  /\ cursor = [s \in Session |-> 0]

Send(s, from) ==
  /\ log' = [log EXCEPT ![s] = Append(@, from)]
  /\ UNCHANGED cursor

\* Any user may say that it has read up to any message.
Read(s, k) ==
  /\ k \in cursor[s] .. Len(log[s])
  /\ cursor' = [cursor EXCEPT ![s] = k]
  /\ UNCHANGED log

Next ==
  \E s \in Session :
    \/ \E from \in Sender : Send(s, from)
    \/ \E k \in cursor[s] .. Len(log[s]) : Read(s, k)

Spec == Init /\ [][Next]_vars
=============================================================================
