----------------------------- MODULE MCDelivery -----------------------------
(* Instances of Delivery for TLC. *)
EXTENDS Delivery, TLC

CONSTANTS u1, u2, x1, x2, x3, y1, y2

\* Visitors one, on two connections, and two; agents one and two.
MCOf == (x1 :> <<"visitor", u1>>) @@ (x2 :> <<"visitor", u1>>) @@ (x3 :> <<"visitor", u2>>)
          @@ (y1 :> <<"agent", u1>>) @@ (y2 :> <<"agent", u2>>)

Symmetry == Permutations({x1, x2})

\* The session is of visitor one; the numbers could change places.
Owner == \A s \in Session : visitor[s] \in {None, u1}

\* A state in which no session is open and no message can be saved is not left.
SomethingLeft == \E s \in Session : status[s] # "closed" \/ Len(log[s]) < MaxLen

\* A visitor on two connections and the agent of the same number; one connection
\* closes.  That already gives writes that fail and a visitor who goes on over a
\* second socket.
OneCloses == Cardinality({c \in Conn : link[c] = "closed"}) <= 1
Sockets   == link[x3] = "new" /\ link[y2] = "new" /\ OneCloses

\* All four users on a connection each, and nobody leaves.
Strangers ==
  /\ \E c \in {x1, x2} : link[c] = "new"
  /\ \A c \in Conn : link[c] # "closed"

\* An offline push that fails is not followed.
AllServed == \A c \in Conn : link[c] = "open" /\ task[c].pc = "idle" => c \in served

\* States outside are checked and not left.
Followed == Owner /\ AllServed /\ SomethingLeft /\ (Sockets \/ Strangers)
=============================================================================
