------------------------------- MODULE Fanout -------------------------------
(***************************************************************************)
(* What one node sends to users of other nodes: SendToUser, which asks the  *)
(* registry when it finds no local connection, and the broadcasts to a      *)
(* tenant, through the channels of ws/distributor.go, while Registry goes   *)
(* on.  Redis keeps nothing of what it publishes: who does not listen, or   *)
(* loses its subscription before the message is handled, does not get it.   *)
(*                                                                         *)
(* One message is followed from its sender to its last receiver; messages   *)
(* share no state.  Local sends and their races are in Hub.  Connection ids  *)
(* are distinct over all nodes: the library builds them from the node id.   *)
(***************************************************************************)
EXTENDS Registry

\* None also stands for no connection, where a broadcast excepts none.
ASSUME ExceptAssumption == None \notin Conn

VARIABLES
  listening,  \* the nodes whose subscription is up.  There are two, one for each
              \* kind of message, and a message uses one of them
  mail        \* the message followed, and what it has done so far

vars == <<rvars, listening, mail>>

-----------------------------------------------------------------------------
\* kind: "none", "push" or "cast".  pc: where the sender is, or "wire".  to: the
\* nodes the message is on its way to.  got counts what was written to each
\* connection; want is whom the message has to reach: connections the registry,
\* or the channel, leads to, as long as they stay and nothing fails.  The code
\* has neither.
NoMail == [kind |-> "none", pc |-> "idle", from |-> None, to |-> {}, key |-> None,
           except |-> None, want |-> {}, got |-> [c \in Conn |-> 0]]

Written(m, conns) ==
  [m EXCEPT !.got = [c \in Conn |-> m.got[c] + IF c \in conns THEN 1 ELSE 0]]

At(n) == {c \in Conn : at[c] = n}

\* The message has passed n, or n has lost it.
Past(m, n) ==
  LET left == m.to \ {n} IN
  [m EXCEPT !.to = left, !.pc = IF left = {} THEN "idle" ELSE "wire"]

\* n hears no more of it, so its connections cannot be reached.
Lost(m, n) == [Past(m, n) EXCEPT !.want = @ \ At(n)]

Done(m) == [m EXCEPT !.pc = "idle"]

\* The connections that will be found if the registry does not change.
Located(k) ==
  {c \in Conn : Of[c] = k /\ at[c] = registry[k[2]] /\ at[c] \in listening}

Init ==
  /\ RInit
  /\ listening = {}
  /\ mail = NoMail

-----------------------------------------------------------------------------
(* Subscriptions (StartSubscribers and what it starts) *)

Subscribe(n) ==
  /\ Running(n)
  /\ n \notin listening
  /\ listening' = listening \cup {n}
  /\ UNCHANGED <<rvars, mail>>

\* The channel closes, with what was on it.
Unsubscribe(n) ==
  /\ n \in listening
  /\ listening' = listening \ {n}
  /\ mail' = IF mail.pc = "wire"
             THEN IF n \in mail.to THEN Lost(mail, n) ELSE mail
             ELSE IF mail.kind = "push" /\ n # mail.from
             THEN [mail EXCEPT !.want = @ \ At(n)] ELSE mail
  /\ UNCHANGED rvars

-----------------------------------------------------------------------------
(* SendToUser *)

\* A local write may fail; with none that succeeds the registry is asked.
SendToUser(n, k) ==
  /\ Running(n)
  /\ mail.pc = "idle"
  /\ LET m == [NoMail EXCEPT !.kind = "push", !.from = n, !.key = k] IN
     \/ /\ Bound(n, k) # {}
        /\ mail' = Written([m EXCEPT !.want = Bound(n, k)], Bound(n, k))
     \/ /\ Bound(n, k) = {}
        /\ mail' = [m EXCEPT !.pc = "lookup", !.want = Located(k)]
     \/ /\ Bound(n, k) # {} /\ Faults
        /\ mail' = [m EXCEPT !.pc = "lookup"]
  /\ UNCHANGED <<rvars, listening>>

\* Mutant: no key is taken for a node.
AnyTarget(target) == TRUE

Found(target) == target # None

\* ErrConnectionNotFound when there is no key.
GetUserNode ==
  /\ mail.pc = "lookup"
  /\ LET target == registry[mail.key[2]] IN
     \/ Found(target) /\ mail' = [mail EXCEPT !.pc = "publish", !.to = {target}]
     \/ (~Found(target) \/ Faults) /\ mail' = [Done(mail) EXCEPT !.want = {}]
  /\ UNCHANGED <<rvars, listening>>

\* To itself a node publishes nothing, and reports success.
PublishToNode ==
  /\ mail.kind = "push" /\ mail.pc = "publish"
  /\ \/ /\ mail.from \notin mail.to
        /\ mail.to \subseteq listening
        /\ mail' = [mail EXCEPT !.pc = "wire"]
     \/ /\ mail.from \in mail.to \/ ~(mail.to \subseteq listening)
        /\ mail' = [Done(mail) EXCEPT !.to = {}]
     \/ /\ Faults
        /\ mail' = [Done(mail) EXCEPT !.to = {}, !.want = {}]
  /\ UNCHANGED <<rvars, listening>>

\* Mutant: whoever has the number, as in the registry.
ByNumber(n, k) == {c \in Conn : at[c] = n /\ Of[c][2] = k[2]}

Addressees(n, k) == Bound(n, k)

HandleRemoteNodeMessage(n) ==
  /\ mail.kind = "push" /\ mail.pc = "wire"
  /\ n \in mail.to /\ n \in listening
  /\ mail' = Past(Written(mail, Addressees(n, mail.key)), n)
  /\ UNCHANGED <<rvars, listening>>

-----------------------------------------------------------------------------
(* BroadcastToTenant, and BroadcastToTenantExcept with the caller's connection *)

Broadcast(n, x) ==
  /\ Running(n)
  /\ mail.pc = "idle"
  /\ x \in At(n) \cup {None}
  /\ LET m == [NoMail EXCEPT !.kind = "cast", !.pc = "publish", !.from = n, !.except = x,
                             !.want = At(n) \ {x}] IN
     mail' = Written(m, At(n) \ {x})
  /\ UNCHANGED <<rvars, listening>>

\* Every node that listens gets it, the sender too.
PublishToTenant ==
  /\ mail.kind = "cast" /\ mail.pc = "publish"
  /\ \/ /\ listening # {}
        /\ mail' = [mail EXCEPT !.pc = "wire", !.to = listening,
                      !.want = @ \cup UNION {At(n) : n \in listening \ {mail.from}}]
     \/ (Faults \/ listening = {}) /\ mail' = Done(mail)
  /\ UNCHANGED <<rvars, listening>>

\* Mutant: the test of the sender is the wrong way round.
OwnOnly(n) == n = mail.from

Remote(n) == n # mail.from

HandleRemoteTenantMessage(n) ==
  /\ mail.kind = "cast" /\ mail.pc = "wire"
  /\ n \in mail.to /\ n \in listening
  /\ mail' = Past(IF Remote(n) THEN Written(mail, At(n) \ {mail.except}) ELSE mail, n)
  /\ UNCHANGED <<rvars, listening>>

-----------------------------------------------------------------------------
\* A step of Registry.  A node that is gone hears nothing and sends nothing; a
\* connection that leaves, or whose user is registered anew, is no longer wanted.
RegistryStep ==
  /\ RNext
  /\ listening' = {n \in listening : node'[n] # "gone"}
  /\ LET dead == {n \in Node : node'[n] = "gone"}
         stay == {c \in mail.want :
                   /\ at'[c] = at[c]
                   /\ mail.pc \in {"lookup", "publish"} /\ mail.kind = "push"
                        => registry'[Of[c][2]] = registry[Of[c][2]]}
         over == \/ mail.pc = "wire" /\ mail.to \subseteq dead
                 \/ mail.pc \in {"lookup", "publish"} /\ mail.from \in dead
     IN mail' = [mail EXCEPT
          !.want = IF over /\ mail.kind = "push" THEN {} ELSE stay,
          !.to = IF mail.pc = "wire" THEN @ \ dead ELSE @,
          !.pc = IF over THEN "idle" ELSE @]

Next ==
  \/ RegistryStep
  \/ \E n \in Node :
       \/ Subscribe(n) \/ Unsubscribe(n)
       \/ \E k \in Key : SendToUser(n, k)
       \/ \E x \in Conn \cup {None} : Broadcast(n, x)
       \/ HandleRemoteNodeMessage(n) \/ HandleRemoteTenantMessage(n)
  \/ GetUserNode \/ PublishToNode \/ PublishToTenant

Spec == Init /\ [][Next]_vars

-----------------------------------------------------------------------------
(* Properties *)

TypeOK ==
  /\ RTypeOK
  /\ listening \subseteq Node
  /\ mail.kind \in {"none", "push", "cast"}
  /\ mail.pc \in {"idle", "lookup", "publish", "wire"}
  /\ mail.from \in Node \cup {None}
  /\ mail.to \subseteq Node
  /\ mail.key \in Key \cup {None}
  /\ mail.except \in Conn \cup {None}
  /\ mail.want \subseteq Conn
  /\ mail.got \in [Conn -> Nat]

\* Whoever the registry or the channel leads to has the message when it has come
\* to its end: nobody is missed who stays connected and registered while every
\* call succeeds and the subscriptions hold (SendToUser, BroadcastToTenant).
Reached ==
  mail.pc = "idle" => \A c \in mail.want : mail.got[c] > 0

\* No connection gets a message twice, a push goes to the user in its role alone,
\* although visitors and agents share the registry's keys, and a broadcast not to
\* the connection it excepts.
NotMisdelivered ==
  \A c \in Conn : mail.got[c] > 0 =>
    /\ mail.got[c] = 1
    /\ mail.kind = "push" => Of[c] = mail.key
    /\ c # mail.except
=============================================================================
