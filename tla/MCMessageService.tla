-------------------------- MODULE MCMessageService --------------------------
(* Instances of MessageService for TLC. *)
EXTENDS MessageService, TLC

Symmetry == Permutations(Session) \cup Permutations(Call)

\* What is sent, and what is about to be.
Sent == {m \in messages \cup {call[c] : c \in Call} : m.sid # None}

\* Two sessions, or two senders in one of them: a session's log does not depend on who
\* sends in another.
OneSession == Cardinality(created \cup {m.sid : m \in Sent}) <= 1
OneSender  == {m.from : m \in Sent} \subseteq {"visitor"}
Apart      == OneSession \/ OneSender
=============================================================================
