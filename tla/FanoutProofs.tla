---------------------------- MODULE FanoutProofs ----------------------------
(***************************************************************************)
(* Proofs about Fanout, for every set of nodes, users and connections, and  *)
(* whatever Redis loses.                                                   *)
(***************************************************************************)
EXTENDS Fanout, RegistryProofs

(* The inductive invariant *)

Mail ==
  [kind : {"none", "push", "cast"}, pc : {"idle", "lookup", "publish", "wire"},
   from : Node \cup {None}, to : SUBSET Node, key : Key \cup {None},
   except : Conn \cup {None}, want : SUBSET Conn, got : [Conn -> Nat]]

\* A connection is bound once.
FreshOK == fresh \subseteq Conn /\ \A c \in fresh : at[c] = None

\* Where a message can go that is not written to any connection twice.
OnceOK ==
  /\ \A c \in Conn : mail.got[c] > 0 =>
       /\ mail.got[c] = 1
       /\ mail.kind = "push" => Of[c] = mail.key
       /\ c # mail.except
       /\ c \notin fresh
  /\ mail.pc = "lookup" => mail.kind = "push" /\ mail.key \in Key
  \* A push goes to one node, and is written once it is there.
  /\ mail.kind = "push" =>
       /\ mail.except = None
       /\ \A n, k \in mail.to : n = k
       /\ mail.pc # "idle" => \A c \in Conn : mail.got[c] = 0
  \* A broadcast has been written on its own node, and where it is gone from.
  /\ mail.kind = "cast" =>
       \A c \in Conn : mail.got[c] > 0 /\ at[c] # None =>
         /\ mail.pc = "publish" => at[c] = mail.from
         /\ mail.pc = "wire" => at[c] \notin mail.to \ {mail.from}

FInv == StateOK /\ FreshOK /\ listening \subseteq Node /\ mail \in Mail /\ OnceOK

-----------------------------------------------------------------------------
LEMMA InitFInv == Init => FInv
<1> SUFFICES ASSUME Init PROVE FInv
  OBVIOUS
<1>1. StateOK /\ FreshOK
  BY InitStateOK DEF Init, RInit, FreshOK
<1>2. mail \in Mail /\ OnceOK
  BY DEF Init, NoMail, Mail, OnceOK
<1> QED
  BY <1>1, <1>2 DEF Init, FInv

\* A connection stays where it is, goes, or is bound for the first time.
LEMMA RegistryMoves ==
  ASSUME StateOK, FreshOK, RNext
  PROVE  /\ FreshOK' /\ fresh' \subseteq fresh
         /\ \A c \in Conn : c \notin fresh => at'[c] \in {at[c], None}
<1> USE DEF StateOK, RTypeOK
<1>1. ASSUME NEW n \in Node, NEW c \in Conn, BindUser(n, c)
      PROVE  /\ FreshOK' /\ fresh' \subseteq fresh
             /\ \A d \in Conn : d \notin fresh => at'[d] \in {at[d], None}
  BY <1>1 DEF BindUser, FreshOK
<1>2. ASSUME NEW n \in Node,
             ShutdownReset(n) \/ Exit(n) \/ \E c \in Conn : RemoveConn(n, c)
      PROVE  /\ FreshOK' /\ fresh' \subseteq fresh
             /\ \A d \in Conn : d \notin fresh => at'[d] \in {at[d], None}
  <2>1. CASE ShutdownReset(n)
    BY <2>1 DEF ShutdownReset, FreshOK
  <2>2. CASE Exit(n)
    BY <2>2 DEF Exit, FreshOK
  <2>3. ASSUME NEW c \in Conn, RemoveConn(n, c)
        PROVE  /\ FreshOK' /\ fresh' \subseteq fresh
               /\ \A d \in Conn : d \notin fresh => at'[d] \in {at[d], None}
    BY <2>3 DEF RemoveConn, FreshOK
  <2> QED
    BY <1>2, <2>1, <2>2, <2>3
<1>3. CASE UNCHANGED <<fresh, at>>
  BY <1>3 DEF FreshOK
<1> QED
  BY <1>1, <1>2, <1>3
  DEF RNext, RunJob, Start, Shutdown, ShutdownUnregister, RefreshUserTTL, RegisterUser,
      UnregisterUser, LeaveAgent, RegisterAgent, UnregisterAgent, Tick, hubs

LEMMA RegistryKeeps ==
  ASSUME FInv, RegistryStep
  PROVE  FInv'
<1> USE DEF FInv
<1>1. StateOK'
  BY StepStateOK DEF RegistryStep
<1>2. /\ FreshOK' /\ fresh' \subseteq fresh
      /\ \A c \in Conn : c \notin fresh => at'[c] \in {at[c], None}
  BY RegistryMoves DEF RegistryStep
<1>3. listening' \subseteq Node
  BY DEF RegistryStep
<1>4. /\ mail' \in Mail
      /\ mail'.kind = mail.kind /\ mail'.from = mail.from /\ mail'.key = mail.key
      /\ mail'.except = mail.except /\ mail'.got = mail.got
      /\ mail'.to \subseteq mail.to /\ mail'.pc \in {mail.pc, "idle"}
  BY DEF RegistryStep, Mail
<1>5. OnceOK'
  BY <1>2, <1>4 DEF OnceOK
<1> QED
  BY <1>1, <1>2, <1>3, <1>4, <1>5 DEF Mail

-----------------------------------------------------------------------------
(* The steps of the message *)

\* No step of Fanout itself changes the registry.
LEMMA StillOK ==
  ASSUME FInv, UNCHANGED rvars
  PROVE  StateOK' /\ FreshOK'
<1> QED
  BY DEF FInv, StateOK, RTypeOK, Running, FreshOK, rvars, hubs, stops, redis

\* What it takes to write a message to some connections.
LEMMA WrittenOnce ==
  ASSUME NEW m \in Mail, NEW conns \in SUBSET Conn
  PROVE  /\ Written(m, conns) \in Mail
         /\ \A c \in Conn : Written(m, conns).got[c] =
              m.got[c] + (IF c \in conns THEN 1 ELSE 0)
         /\ Written(m, conns).kind = m.kind /\ Written(m, conns).pc = m.pc
         /\ Written(m, conns).from = m.from /\ Written(m, conns).to = m.to
         /\ Written(m, conns).key = m.key /\ Written(m, conns).except = m.except
<1> QED
  BY DEF Written, Mail

\* The message goes on to fewer nodes.
LEMMA PastFewer ==
  ASSUME NEW m \in Mail, NEW n \in Node
  PROVE  /\ Past(m, n) \in Mail
         /\ Past(m, n).kind = m.kind /\ Past(m, n).from = m.from
         /\ Past(m, n).key = m.key /\ Past(m, n).except = m.except
         /\ Past(m, n).got = m.got /\ Past(m, n).to = m.to \ {n}
         /\ Past(m, n).pc = IF m.to \ {n} = {} THEN "idle" ELSE "wire"
<1> QED
  BY DEF Past, Mail

LEMMA SubscribeKeeps ==
  ASSUME FInv, NEW n \in Node, Subscribe(n) \/ Unsubscribe(n)
  PROVE  FInv'
<1> USE DEF FInv
<1>1. StateOK' /\ FreshOK' /\ UNCHANGED <<fresh, at>>
  BY StillOK DEF Subscribe, Unsubscribe, rvars, hubs
<1>2. listening' \subseteq Node
  BY DEF Subscribe, Unsubscribe
<1>3. /\ mail' \in Mail
      /\ mail'.kind = mail.kind /\ mail'.from = mail.from /\ mail'.key = mail.key
      /\ mail'.except = mail.except /\ mail'.got = mail.got
      /\ mail'.to \subseteq mail.to /\ mail'.pc \in {mail.pc, "idle"}
  <2>1. CASE mail' = mail
    BY <2>1
  <2>2. CASE mail.pc = "wire" /\ mail' = Lost(mail, n)
    BY <2>2, PastFewer DEF Lost, Mail
  <2>3. CASE mail' = [mail EXCEPT !.want = @ \ At(n)]
    BY <2>3 DEF Mail
  <2> QED
    BY <2>1, <2>2, <2>3 DEF Subscribe, Unsubscribe
<1>4. OnceOK'
  BY <1>1, <1>3 DEF OnceOK
<1> QED
  BY <1>1, <1>2, <1>3, <1>4 DEF Mail

LEMMA SendToUserKeeps ==
  ASSUME FInv, NEW n \in Node, NEW k \in Key, SendToUser(n, k)
  PROVE  FInv'
<1> USE ExceptAssumption, NoneAssumption DEF FInv
<1>1. StateOK' /\ FreshOK' /\ UNCHANGED <<fresh, at, listening>>
  BY StillOK DEF SendToUser, rvars, hubs
<1>2. Bound(n, k) \subseteq Conn /\ \A c \in Bound(n, k) : Of[c] = k /\ c \notin fresh
  BY DEF Bound, FreshOK
<1>m. PICK m \in Mail : m = [NoMail EXCEPT !.kind = "push", !.from = n, !.key = k]
  BY DEF NoMail, Mail
<1>3. /\ m.kind = "push" /\ m.pc = "idle" /\ m.to = {} /\ m.key = k /\ m.except = None
      /\ m.from = n /\ \A c \in Conn : m.got[c] = 0
  BY <1>m DEF NoMail
<1>4. CASE mail' = Written([m EXCEPT !.want = Bound(n, k)], Bound(n, k))
  <2>1. PICK w \in Mail : w = [m EXCEPT !.want = Bound(n, k)]
    BY <1>2 DEF Mail
  <2>2. /\ w.kind = "push" /\ w.to = {} /\ w.key = k /\ w.except = None /\ w.pc = "idle"
        /\ \A c \in Conn : w.got[c] = 0
    BY <1>3, <2>1 DEF Mail
  <2>3. mail' = Written(w, Bound(n, k))
    BY <1>4, <2>1
  <2>4. OnceOK'
    BY <1>1, <1>2, <2>2, <2>3, WrittenOnce DEF OnceOK
  <2> QED
    BY <1>1, <1>2, <2>3, <2>4, WrittenOnce DEF Mail
<1>5. ASSUME NEW want \in SUBSET Conn,
             mail' = [m EXCEPT !.pc = "lookup", !.want = want]
      PROVE  FInv'
  <2>1. /\ mail' \in Mail /\ mail'.kind = "push" /\ mail'.to = {} /\ mail'.key = k
        /\ mail'.pc = "lookup" /\ mail'.got = m.got /\ mail'.except = None
    BY <1>3, <1>5 DEF Mail
  <2>2. OnceOK'
    BY <1>3, <2>1 DEF OnceOK
  <2> QED
    BY <1>1, <2>1, <2>2 DEF Mail
<1>6. \/ mail' = Written([m EXCEPT !.want = Bound(n, k)], Bound(n, k))
      \/ mail' = [m EXCEPT !.pc = "lookup", !.want = Located(k)]
      \/ mail' = [m EXCEPT !.pc = "lookup"]
  BY <1>m DEF SendToUser
<1>7. Located(k) \subseteq Conn
  BY DEF Located
<1>8. CASE mail' = [m EXCEPT !.pc = "lookup"]
  <2>1. /\ mail' \in Mail /\ mail'.kind = "push" /\ mail'.to = {} /\ mail'.key = k
        /\ mail'.pc = "lookup" /\ mail'.got = m.got /\ mail'.except = None
    BY <1>3, <1>8 DEF Mail
  <2>2. OnceOK'
    BY <1>3, <2>1 DEF OnceOK
  <2> QED
    BY <1>1, <2>1, <2>2 DEF Mail
<1> QED
  BY <1>4, <1>5, <1>6, <1>7, <1>8

\* Lookup and publishing: no message is written.
LEMMA PublishKeeps ==
  ASSUME FInv, GetUserNode \/ PublishToNode \/ PublishToTenant
  PROVE  FInv'
<1> USE DEF FInv
<1>1. StateOK' /\ FreshOK' /\ UNCHANGED <<fresh, at, listening>>
  BY StillOK DEF GetUserNode, PublishToNode, PublishToTenant, rvars, hubs
<1>2. CASE GetUserNode
  <2>1. mail.kind = "push" /\ registry[mail.key[2]] \in Node \cup {None}
    BY <1>2 DEF GetUserNode, OnceOK, Key, Number, StateOK, RTypeOK
  <2>2. CASE /\ Found(registry[mail.key[2]])
             /\ mail' = [mail EXCEPT !.pc = "publish", !.to = {registry[mail.key[2]]}]
    <3>1. /\ mail' \in Mail /\ mail'.kind = "push" /\ mail'.pc = "publish"
          /\ mail'.got = mail.got /\ mail'.except = mail.except
          /\ mail'.to = {registry[mail.key[2]]}
      BY <2>1, <2>2 DEF Found, Mail
    <3>2. OnceOK'
      BY <1>2, <2>1, <3>1 DEF OnceOK, GetUserNode
    <3> QED
      BY <1>1, <3>1, <3>2 DEF Mail
  <2>3. CASE mail' = [Done(mail) EXCEPT !.want = {}]
    <3>1. /\ mail' \in Mail /\ mail'.kind = "push" /\ mail'.pc = "idle"
          /\ mail'.got = mail.got /\ mail'.except = mail.except /\ mail'.to = mail.to
          /\ mail'.key = mail.key
      BY <2>1, <2>3 DEF Done, Mail
    <3>2. OnceOK'
      BY <1>2, <2>1, <3>1 DEF OnceOK, GetUserNode
    <3> QED
      BY <1>1, <3>1, <3>2 DEF Mail
  <2> QED
    BY <1>2, <2>2, <2>3 DEF GetUserNode
<1>3. CASE PublishToNode
  <2>1. /\ mail' \in Mail /\ mail.kind = "push" /\ mail'.kind = "push"
        /\ mail'.got = mail.got /\ mail'.to \subseteq mail.to
        /\ mail'.except = mail.except /\ mail'.key = mail.key
        /\ mail'.pc \in {"wire", "idle"} /\ mail.pc = "publish"
    BY <1>3 DEF PublishToNode, Done, Mail
  <2>2. OnceOK'
    BY <2>1 DEF OnceOK
  <2> QED
    BY <1>1, <2>1, <2>2 DEF Mail
<1>4. CASE PublishToTenant
  <2>1. UNION {At(n) : n \in listening \ {mail.from}} \subseteq Conn
    BY DEF At
  <2> DEFINE Sent ==
        /\ mail' \in Mail /\ mail.kind = "cast" /\ mail'.kind = "cast"
        /\ mail'.got = mail.got /\ mail'.except = mail.except /\ mail'.from = mail.from
        /\ mail'.pc \in {"wire", "idle"} /\ mail.pc = "publish"
  <2>2. Sent
    <3>1. mail.kind = "cast" /\ mail.pc = "publish"
      BY <1>4 DEF PublishToTenant
    <3>2. CASE mail' = Done(mail)
      BY <3>1, <3>2 DEF Done, Mail
    <3>3. ASSUME NEW more \in SUBSET Conn,
                 mail' = [mail EXCEPT !.pc = "wire", !.to = listening, !.want = @ \cup more]
          PROVE  Sent
      BY <3>1, <3>3 DEF Mail
    <3> QED
      BY <1>4, <2>1, <3>1, <3>2, <3>3 DEF PublishToTenant
  <2>3. OnceOK'
    BY <1>1, <2>2 DEF OnceOK
  <2> QED
    BY <1>1, <2>2, <2>3 DEF Mail
<1> QED
  BY <1>2, <1>3, <1>4

\* A broadcast starts with the connections of its own node.
LEMMA BroadcastKeeps ==
  ASSUME FInv, NEW n \in Node, NEW x \in Conn \cup {None}, Broadcast(n, x)
  PROVE  FInv'
<1> USE ExceptAssumption, NoneAssumption DEF FInv
<1>1. StateOK' /\ FreshOK' /\ UNCHANGED <<fresh, at, listening>>
  BY StillOK DEF Broadcast, rvars, hubs
<1>m. PICK m \in Mail :
        m = [NoMail EXCEPT !.kind = "cast", !.pc = "publish", !.from = n, !.except = x,
                           !.want = At(n) \ {x}]
  BY DEF NoMail, Mail, At
<1>2. /\ m.kind = "cast" /\ m.pc = "publish" /\ m.from = n /\ m.except = x
      /\ \A c \in Conn : m.got[c] = 0
  BY <1>m DEF NoMail
<1>3. mail' = Written(m, At(n) \ {x}) /\ At(n) \ {x} \in SUBSET Conn
  BY <1>m DEF Broadcast, At
<1>4. \A c \in At(n) \ {x} : at[c] = n /\ c # x /\ c \notin fresh
  BY DEF At, FreshOK
<1>5. OnceOK'
  BY <1>1, <1>2, <1>3, <1>4, WrittenOnce DEF OnceOK
<1> QED
  BY <1>1, <1>3, <1>5, WrittenOnce DEF Mail

\* A node that gets a message writes it to its own connections, for the first time.
LEMMA HandleKeeps ==
  ASSUME FInv, NEW n \in Node,
         HandleRemoteNodeMessage(n) \/ HandleRemoteTenantMessage(n)
  PROVE  FInv'
<1> USE ExceptAssumption, NoneAssumption DEF FInv
<1>1. StateOK' /\ FreshOK' /\ UNCHANGED <<fresh, at, listening>>
  BY StillOK DEF HandleRemoteNodeMessage, HandleRemoteTenantMessage, rvars, hubs
<1>2. CASE HandleRemoteNodeMessage(n)
  <2> DEFINE conns == Bound(n, mail.key)
             w == Written(mail, conns)
  <2>1. conns \in SUBSET Conn /\ \A c \in conns : Of[c] = mail.key /\ c \notin fresh
    BY DEF Bound, FreshOK
  <2>2. mail.kind = "push" /\ n \in mail.to /\ mail' = Past(w, n)
        /\ mail.pc = "wire"
    BY <1>2 DEF HandleRemoteNodeMessage, Addressees
  <2>3. mail.to \ {n} = {} /\ \A c \in Conn : mail.got[c] = 0
    BY <2>2 DEF OnceOK, Mail
  <2>4. /\ mail' \in Mail /\ mail'.kind = "push" /\ mail'.key = mail.key /\ mail'.to = {}
        /\ mail'.except = mail.except /\ mail'.pc = "idle"
        /\ \A c \in Conn : mail'.got[c] = IF c \in conns THEN 1 ELSE 0
    BY <2>1, <2>2, <2>3, WrittenOnce, PastFewer
  <2>5. mail.except = None /\ \A c \in Conn : c # None
    BY <2>2 DEF OnceOK
  <2>6. OnceOK'
    <3>1. \A c \in Conn : mail'.got[c] > 0 => c \in conns /\ mail'.got[c] = 1
      BY <2>4
    <3> QED
      BY <1>1, <2>1, <2>4, <2>5, <3>1 DEF OnceOK
  <2> QED
    BY <1>1, <2>4, <2>6 DEF Mail
<1>3. CASE HandleRemoteTenantMessage(n)
  <2>1. mail.kind = "cast" /\ mail.pc = "wire" /\ n \in mail.to
    BY <1>3 DEF HandleRemoteTenantMessage
  <2>2. CASE n = mail.from
    <3>1. mail' = Past(mail, n)
      BY <1>3, <2>2 DEF HandleRemoteTenantMessage, Remote
    <3>2. /\ mail' \in Mail /\ mail'.kind = "cast" /\ mail'.got = mail.got
          /\ mail'.except = mail.except /\ mail'.from = mail.from
          /\ mail'.to = mail.to \ {n} /\ mail'.pc \in {"idle", "wire"}
      BY <2>1, <3>1, PastFewer
    <3>3. OnceOK'
      BY <1>1, <2>1, <3>2 DEF OnceOK
    <3> QED
      BY <1>1, <3>2, <3>3 DEF Mail
  <2>3. CASE n # mail.from
    <3> DEFINE conns == At(n) \ {mail.except}
               w == Written(mail, conns)
    <3>1. /\ conns \in SUBSET Conn
          /\ \A c \in conns : at[c] = n /\ c # mail.except /\ c \notin fresh
      BY NoneAssumption DEF At, FreshOK
    <3>2. \A c \in conns : mail.got[c] = 0
      BY <2>1, <2>3, <3>1 DEF OnceOK, Mail
    <3>3. mail' = Past(w, n)
      BY <1>3, <2>3 DEF HandleRemoteTenantMessage, Remote
    <3>4. /\ mail' \in Mail /\ mail'.kind = "cast" /\ mail'.from = mail.from
          /\ mail'.except = mail.except /\ mail'.to = mail.to \ {n}
          /\ mail'.pc \in {"idle", "wire"}
          /\ \A c \in Conn : mail'.got[c] = mail.got[c] + (IF c \in conns THEN 1 ELSE 0)
      BY <2>1, <3>1, <3>3, WrittenOnce, PastFewer
    <3>5. \A c \in Conn : mail'.got[c] > 0 =>
            \/ c \in conns /\ mail'.got[c] = 1
            \/ c \notin conns /\ mail.got[c] > 0 /\ mail'.got[c] = mail.got[c]
      BY <3>2, <3>4 DEF Mail
    <3>6. OnceOK'
      BY <1>1, <2>1, <3>1, <3>4, <3>5 DEF OnceOK
    <3> QED
      BY <1>1, <3>4, <3>6 DEF Mail
  <2> QED
    BY <2>2, <2>3
<1> QED
  BY <1>2, <1>3

-----------------------------------------------------------------------------
LEMMA StepFInv == FInv /\ [Next]_vars => FInv'
<1> SUFFICES ASSUME FInv, [Next]_vars PROVE FInv'
  OBVIOUS
<1>1. CASE UNCHANGED vars
  <2>1. StateOK' /\ FreshOK' /\ UNCHANGED <<fresh, at, listening, mail>>
    BY <1>1, StillOK DEF vars, rvars, hubs
  <2> QED
    BY <2>1 DEF FInv, OnceOK, Mail
<1>2. CASE Next
  BY <1>2, RegistryKeeps, SubscribeKeeps, SendToUserKeeps, BroadcastKeeps, HandleKeeps,
     PublishKeeps
  DEF Next
<1> QED
  BY <1>1, <1>2

\* Every state that Fanout reaches satisfies the invariant.
THEOREM FanoutInductive == Spec => []FInv
<1> QED
  BY InitFInv, StepFInv, PTL DEF Spec

\* Every state of the message, and of the registry below it, is well typed.
THEOREM FanoutTypes == Spec => []TypeOK
<1>1. FInv => TypeOK
  BY DEF FInv, StateOK, TypeOK, Mail
<1> QED
  BY <1>1, FanoutInductive, PTL

\* No connection gets a message twice or another's, nor the one that a broadcast
\* excepts (HandleRemoteNodeMessage, HandleRemoteTenantMessage).
THEOREM RightReceivers == Spec => []NotMisdelivered
<1>1. FInv => NotMisdelivered
  BY DEF FInv, OnceOK, NotMisdelivered, Mail
<1> QED
  BY <1>1, FanoutInductive, PTL

\* Sending does not disturb the registry: what is shown of Registry holds here too.
THEOREM RegistryGoesOn == Spec => RSpec
<1>1. Init => RInit
  BY DEF Init
<1>2. [Next]_vars => [RNext]_rvars
  <2> SUFFICES ASSUME [Next]_vars PROVE [RNext]_rvars
    OBVIOUS
  <2>1. CASE RegistryStep
    BY <2>1 DEF RegistryStep
  <2>2. CASE UNCHANGED rvars
    BY <2>2
  <2> QED
    BY <2>1, <2>2
    DEF Next, vars, Subscribe, Unsubscribe, SendToUser, Broadcast, GetUserNode,
        PublishToNode, PublishToTenant, HandleRemoteNodeMessage, HandleRemoteTenantMessage
<1> QED
  BY <1>1, <1>2, PTL DEF Spec, RSpec
-----------------------------------------------------------------------------
(* Whom a message has yet to reach *)

\* Whom a broadcast excepts was bound on its sender, and is nowhere else.
ExceptOK ==
  mail.kind = "cast" /\ mail.except # None =>
    mail.except \notin fresh /\ at[mail.except] \in {mail.from, None}

\* What leads the message to c: the key it will look up, or the node it is
\* published to, is that of c; that node listens, and will write it to c.
OnItsWay(c) ==
  /\ at[c] \in listening \ {mail.from}
  /\ c # mail.except
  /\ \/ mail.kind = "push" /\ Of[c] = mail.key
     \/ mail.kind = "cast" /\ mail.pc = "wire"
  /\ \/ mail.pc = "lookup" /\ at[c] = registry[mail.key[2]]
     \/ mail.pc \in {"publish", "wire"} /\ at[c] \in mail.to

ReachOK ==
  /\ mail.pc # "idle" => mail.kind \in {"push", "cast"}
  /\ \A c \in mail.want : mail.got[c] > 0 \/ OnItsWay(c)

\* The steps that write nothing and do not move the message.
LEMMA StillOnItsWay ==
  ASSUME FInv, ExceptOK, ReachOK, FInv',
         /\ mail'.kind = mail.kind /\ mail'.from = mail.from /\ mail'.key = mail.key
         /\ mail'.except = mail.except /\ mail'.got = mail.got
         /\ mail'.pc \in {mail.pc, "idle"} /\ mail'.want \subseteq mail.want,
         \A c \in Conn : c \notin fresh => at'[c] \in {at[c], None} /\ c \notin fresh',
         \A c \in mail'.want : OnItsWay(c) => OnItsWay(c)'
  PROVE  ExceptOK' /\ ReachOK'
<1>1. ExceptOK'
  BY DEF ExceptOK, FInv, Mail
<1>2. ReachOK'
  BY DEF ReachOK
<1> QED
  BY <1>1, <1>2

LEMMA RegistryReaches ==
  ASSUME FInv, ExceptOK, ReachOK, RegistryStep
  PROVE  ExceptOK' /\ ReachOK'
<1> DEFINE dead == {n \in Node : node'[n] = "gone"}
           over == \/ mail.pc = "wire" /\ mail.to \subseteq dead
                   \/ mail.pc \in {"lookup", "publish"} /\ mail.from \in dead
<1>1. FInv'
  BY RegistryKeeps
<1>2. \A c \in Conn : c \notin fresh => at'[c] \in {at[c], None} /\ c \notin fresh'
  BY RegistryMoves DEF RegistryStep, FInv
<1>3. /\ mail'.kind = mail.kind /\ mail'.from = mail.from /\ mail'.key = mail.key
      /\ mail'.except = mail.except /\ mail'.got = mail.got
      /\ mail'.pc = IF over THEN "idle" ELSE mail.pc
      /\ mail'.to = IF mail.pc = "wire" THEN mail.to \ dead ELSE mail.to
      /\ over /\ mail.kind = "push" => mail'.want = {}
      /\ \A c \in mail'.want :
           /\ c \in mail.want /\ at'[c] = at[c]
           /\ mail.pc \in {"lookup", "publish"} /\ mail.kind = "push"
                => registry'[Of[c][2]] = registry[Of[c][2]]
  BY DEF RegistryStep, FInv, Mail
<1>4. listening' = listening \ dead
  BY DEF RegistryStep, FInv
<1>5. ASSUME NEW c \in mail'.want, OnItsWay(c)
      PROVE  OnItsWay(c)'
  <2>1. at'[c] = at[c] /\ at[c] \in listening \ {mail.from}
    BY <1>3, <1>5 DEF OnItsWay
  <2>2. at[c] \notin dead
    <3>1. c \in Conn /\ at[c] \in Node
      BY <1>3, <2>1 DEF FInv, Mail
    <3>2. node'[at'[c]] # "gone"
      BY <1>1, <2>1, <3>1, NoneAssumption DEF FInv, StateOK, Running
    <3> QED
      BY <2>1, <3>2
  <2>3. ~over
    BY <1>3, <1>5, <2>2 DEF OnItsWay
  <2> QED
    BY <1>3, <1>4, <1>5, <2>1, <2>2, <2>3 DEF OnItsWay
<1> QED
  BY <1>1, <1>2, <1>3, <1>5, StillOnItsWay

\* A node that stops listening is left out of what is wanted, if the message has
\* to come to it.
LEMMA SubscribeReaches ==
  ASSUME FInv, ExceptOK, ReachOK, NEW n \in Node, Subscribe(n) \/ Unsubscribe(n)
  PROVE  ExceptOK' /\ ReachOK'
<1>1. FInv' /\ UNCHANGED <<fresh, at, registry>>
  BY SubscribeKeeps DEF Subscribe, Unsubscribe, rvars, hubs, redis
<1>2. CASE Subscribe(n)
  <2>1. mail' = mail /\ listening \subseteq listening'
    BY <1>2 DEF Subscribe
  <2> QED
    BY <1>1, <2>1 DEF ExceptOK, ReachOK, OnItsWay
<1>3. CASE Unsubscribe(n)
  <2>0. listening' = listening \ {n}
    BY <1>3 DEF Unsubscribe
  <2>1. CASE mail.pc = "wire" /\ n \in mail.to
    <3>1. mail' = [Past(mail, n) EXCEPT !.want = @ \ At(n)]
      BY <1>3, <2>1 DEF Unsubscribe, Lost
    <3>2. /\ mail'.kind = mail.kind /\ mail'.from = mail.from /\ mail'.key = mail.key
          /\ mail'.except = mail.except /\ mail'.got = mail.got
          /\ mail'.to = mail.to \ {n} /\ mail'.want = mail.want \ At(n)
          /\ mail'.pc = IF mail.to \ {n} = {} THEN "idle" ELSE "wire"
      BY <3>1 DEF Past, FInv, Mail
    <3>3. ASSUME NEW c \in mail'.want, OnItsWay(c)
          PROVE  OnItsWay(c)'
      <4>1. at[c] # n /\ at[c] \in mail.to
        BY <2>1, <3>2, <3>3 DEF At, OnItsWay, FInv, Mail
      <4> QED
        BY <1>1, <2>0, <2>1, <3>2, <3>3, <4>1 DEF OnItsWay
    <3> QED
      BY <1>1, <2>1, <3>2, <3>3, StillOnItsWay
  <2>2. CASE ~(mail.pc = "wire" /\ n \in mail.to)
    <3>1. \/ mail' = mail
          \/ mail' = [mail EXCEPT !.want = @ \ At(n)]
      BY <1>3, <2>2 DEF Unsubscribe
    <3>2. /\ mail'.kind = mail.kind /\ mail'.from = mail.from /\ mail'.key = mail.key
          /\ mail'.except = mail.except /\ mail'.got = mail.got
          /\ mail'.to = mail.to /\ mail'.want \subseteq mail.want /\ mail'.pc = mail.pc
          /\ mail.kind = "push" /\ n # mail.from /\ mail.pc # "wire"
               => mail'.want = mail.want \ At(n)
      BY <1>3, <3>1 DEF Unsubscribe, FInv, Mail
    <3>3. ASSUME NEW c \in mail'.want, OnItsWay(c)
          PROVE  OnItsWay(c)'
      <4>1. at[c] # n
        BY <2>2, <3>2, <3>3 DEF OnItsWay, At, FInv, Mail
      <4> QED
        BY <1>1, <2>0, <3>2, <3>3, <4>1 DEF OnItsWay
    <3> QED
      BY <1>1, <3>2, <3>3, StillOnItsWay
  <2> QED
    BY <2>1, <2>2
<1> QED
  BY <1>2, <1>3
\* SendToUser reaches the connections of its own node, or goes to look for others.
LEMMA SendToUserReaches ==
  ASSUME FInv, ExceptOK, ReachOK, NEW n \in Node, NEW k \in Key, SendToUser(n, k)
  PROVE  ExceptOK' /\ ReachOK'
<1> USE ExceptAssumption, NoneAssumption
<1>1. FInv' /\ UNCHANGED <<fresh, at, registry, listening>>
  BY SendToUserKeeps DEF SendToUser, rvars, hubs, redis
<1>m. PICK m \in Mail : m = [NoMail EXCEPT !.kind = "push", !.from = n, !.key = k]
  BY DEF NoMail, Mail
<1>2. /\ m.kind = "push" /\ m.key = k /\ m.except = None /\ m.from = n /\ m.want = {}
      /\ m.pc = "idle" /\ \A c \in Conn : m.got[c] = 0
  BY <1>m DEF NoMail
<1>3. CASE Bound(n, k) # {} /\ mail' = Written([m EXCEPT !.want = Bound(n, k)], Bound(n, k))
  <2>1. PICK w \in Mail : w = [m EXCEPT !.want = Bound(n, k)]
    BY DEF Mail, Bound
  <2>2. mail' = Written(w, Bound(n, k)) /\ w.want = Bound(n, k) /\ w.pc = "idle"
        /\ w.kind = "push" /\ \A c \in Conn : w.got[c] = 0
    BY <1>2, <1>3, <2>1 DEF Mail
  <2>3. /\ mail'.want = Bound(n, k) /\ mail'.pc = "idle" /\ mail'.kind = "push"
        /\ \A c \in Bound(n, k) : mail'.got[c] = 1
    <3>1. Bound(n, k) \in SUBSET Conn /\ Written(w, Bound(n, k)).want = w.want
      BY DEF Bound, Written, Mail
    <3> QED
      BY <2>2, <3>1, WrittenOnce
  <2> QED
    BY <2>3 DEF ExceptOK, ReachOK
<1>4. CASE Bound(n, k) = {} /\ mail' = [m EXCEPT !.pc = "lookup", !.want = Located(k)]
  <2>1. /\ mail'.kind = "push" /\ mail'.key = k /\ mail'.except = None /\ mail'.from = n
        /\ mail'.pc = "lookup" /\ mail'.want = Located(k)
    BY <1>2, <1>4 DEF Mail
  <2>2. \A c \in Located(k) : /\ c \in Conn /\ Of[c] = k
                               /\ at[c] = registry[k[2]] /\ at[c] \in listening
    BY DEF Located
  <2>3. \A c \in Located(k) : at[c] # n
    BY <1>4, <2>2 DEF Bound
  <2>4. \A c \in mail'.want : OnItsWay(c)'
    BY <1>1, <2>1, <2>2, <2>3 DEF OnItsWay
  <2> QED
    BY <2>1, <2>4 DEF ExceptOK, ReachOK
<1>5. CASE mail' = [m EXCEPT !.pc = "lookup"]
  <2>1. mail'.kind = "push" /\ mail'.want = {}
    BY <1>2, <1>5 DEF Mail
  <2> QED
    BY <2>1 DEF ExceptOK, ReachOK
<1> QED
  BY <1>m, <1>3, <1>4, <1>5 DEF SendToUser

\* The key and the channel lead to the node of whoever is wanted.
LEMMA PublishReaches ==
  ASSUME FInv, ExceptOK, ReachOK, GetUserNode \/ PublishToNode
  PROVE  ExceptOK' /\ ReachOK'
<1>1. FInv' /\ UNCHANGED <<fresh, at, registry, listening>>
  BY PublishKeeps DEF GetUserNode, PublishToNode, rvars, hubs, redis
<1>2. CASE GetUserNode
  <2>1. mail.kind = "push" /\ mail.pc = "lookup"
    BY <1>2 DEF GetUserNode, FInv, OnceOK
  <2>2. CASE mail' = [mail EXCEPT !.pc = "publish", !.to = {registry[mail.key[2]]}]
    <3>1. /\ mail'.kind = "push" /\ mail'.key = mail.key /\ mail'.except = mail.except
          /\ mail'.from = mail.from /\ mail'.pc = "publish" /\ mail'.want = mail.want
          /\ mail'.got = mail.got /\ mail'.to = {registry[mail.key[2]]}
      BY <2>1, <2>2 DEF FInv, Mail
    <3>2. \A c \in mail.want : OnItsWay(c) => OnItsWay(c)'
      BY <1>1, <2>1, <3>1 DEF OnItsWay
    <3> QED
      BY <3>1, <3>2 DEF ExceptOK, ReachOK
  <2>3. CASE mail' = [Done(mail) EXCEPT !.want = {}]
    <3>1. mail'.kind = "push" /\ mail'.want = {}
      BY <2>1, <2>3 DEF Done, FInv, Mail
    <3> QED
      BY <2>1, <3>1 DEF ExceptOK, ReachOK
  <2> QED
    BY <1>2, <2>2, <2>3 DEF GetUserNode
<1>3. CASE PublishToNode
  <2>1. mail.kind = "push" /\ mail.pc = "publish"
    BY <1>3 DEF PublishToNode
  <2>2. CASE mail' = [mail EXCEPT !.pc = "wire"]
    <3>1. /\ mail'.kind = "push" /\ mail'.key = mail.key /\ mail'.except = mail.except
          /\ mail'.from = mail.from /\ mail'.pc = "wire" /\ mail'.want = mail.want
          /\ mail'.got = mail.got /\ mail'.to = mail.to
      BY <2>1, <2>2 DEF FInv, Mail
    <3>2. \A c \in mail.want : OnItsWay(c) => OnItsWay(c)'
      BY <1>1, <2>1, <3>1 DEF OnItsWay
    <3> QED
      BY <3>1, <3>2 DEF ExceptOK, ReachOK
  <2>3. CASE /\ mail.from \in mail.to \/ ~(mail.to \subseteq listening)
             /\ mail' = [Done(mail) EXCEPT !.to = {}]
    <3>1. mail'.kind = "push" /\ mail'.want = mail.want /\ mail'.got = mail.got
      BY <2>1, <2>3 DEF Done, FInv, Mail
    <3>2. \A c \in mail.want : ~OnItsWay(c)
      BY <2>1, <2>3 DEF OnItsWay, FInv, OnceOK
    <3> QED
      BY <3>1, <3>2 DEF ExceptOK, ReachOK, Done
  <2>4. CASE mail' = [Done(mail) EXCEPT !.to = {}, !.want = {}]
    <3>1. mail'.kind = "push" /\ mail'.want = {}
      BY <2>1, <2>4 DEF Done, FInv, Mail
    <3> QED
      BY <3>1 DEF ExceptOK, ReachOK
  <2> QED
    BY <1>3, <2>2, <2>3, <2>4 DEF PublishToNode
<1> QED
  BY <1>2, <1>3
\* A broadcast reaches its own node, and then those that listen.
LEMMA CastReaches ==
  ASSUME FInv, ExceptOK, ReachOK,
         \/ \E n \in Node : \E x \in Conn \cup {None} : Broadcast(n, x)
         \/ PublishToTenant
  PROVE  ExceptOK' /\ ReachOK'
<1> USE ExceptAssumption, NoneAssumption
<1>1. ASSUME NEW n \in Node, NEW x \in Conn \cup {None}, Broadcast(n, x)
      PROVE  ExceptOK' /\ ReachOK'
  <2>1. UNCHANGED <<fresh, at>>
    BY <1>1 DEF Broadcast, rvars, hubs
  <2>m. PICK m \in Mail :
          m = [NoMail EXCEPT !.kind = "cast", !.pc = "publish", !.from = n, !.except = x,
                             !.want = At(n) \ {x}]
    BY DEF NoMail, Mail, At
  <2>2. /\ m.kind = "cast" /\ m.from = n /\ m.except = x /\ m.want = At(n) \ {x}
        /\ \A c \in Conn : m.got[c] = 0
    BY <2>m DEF NoMail
  <2>3. mail' = Written(m, At(n) \ {x}) /\ At(n) \ {x} \in SUBSET Conn
    BY <1>1, <2>m DEF Broadcast, At
  <2>4. mail'.want = At(n) \ {x}
    BY <2>2, <2>3 DEF Written, Mail
  <2>5. \A c \in At(n) \ {x} : mail'.got[c] = 1
    BY <2>2, <2>3, WrittenOnce
  <2>6. mail'.kind = "cast" /\ mail'.from = n /\ mail'.except = x
    BY <2>2, <2>3, WrittenOnce
  <2>7. x # None => at[x] = n /\ x \notin fresh
    BY <1>1 DEF Broadcast, At, FInv, FreshOK
  <2>8. ExceptOK'
    BY <2>1, <2>6, <2>7 DEF ExceptOK
  <2> QED
    BY <2>4, <2>5, <2>6, <2>8 DEF ReachOK
<1>2. CASE PublishToTenant
  <2> DEFINE more == UNION {At(n) : n \in listening \ {mail.from}}
  <2>1. UNCHANGED <<fresh, at, registry, listening>> /\ mail.kind = "cast" /\ mail.pc = "publish"
    BY <1>2 DEF PublishToTenant, rvars, hubs, redis
  <2>2. \A c \in mail.want : mail.got[c] > 0
    BY <2>1 DEF ReachOK, OnItsWay
  <2>3. CASE mail' = [mail EXCEPT !.pc = "wire", !.to = listening, !.want = @ \cup more]
    <3>1. more \subseteq Conn /\ \A c \in more : at[c] \in listening \ {mail.from}
      BY DEF At
    <3> HIDE DEF more
    <3>2. /\ mail'.kind = "cast" /\ mail'.from = mail.from /\ mail'.except = mail.except
          /\ mail'.pc = "wire" /\ mail'.to = listening /\ mail'.got = mail.got
          /\ mail'.want = mail.want \cup more
      BY <2>1, <2>3, <3>1 DEF FInv, Mail
    <3>3. \A c \in more : c # mail.except
      BY <2>1, <3>1 DEF ExceptOK, FInv
    <3>4. \A c \in more : OnItsWay(c)'
      BY <2>1, <3>1, <3>2, <3>3 DEF OnItsWay
    <3>5. ExceptOK'
      BY <2>1, <3>2 DEF ExceptOK
    <3> QED
      BY <2>2, <3>2, <3>4, <3>5 DEF ReachOK
  <2>4. CASE mail' = Done(mail)
    <3>1. /\ mail'.kind = "cast" /\ mail'.from = mail.from /\ mail'.except = mail.except
          /\ mail'.got = mail.got /\ mail'.want = mail.want
      BY <2>1, <2>4 DEF Done, FInv, Mail
    <3> QED
      BY <2>1, <2>2, <3>1 DEF ExceptOK, ReachOK
  <2> QED
    BY <1>2, <2>3, <2>4 DEF PublishToTenant
<1> QED
  BY <1>1, <1>2

\* A node that the message comes to writes it to whoever is wanted there.
LEMMA HandleReaches ==
  ASSUME FInv, ExceptOK, ReachOK, NEW n \in Node,
         HandleRemoteNodeMessage(n) \/ HandleRemoteTenantMessage(n)
  PROVE  ExceptOK' /\ ReachOK'
<1>1. UNCHANGED <<fresh, at, registry, listening>> /\ mail \in Mail
  BY DEF HandleRemoteNodeMessage, HandleRemoteTenantMessage, rvars, hubs, redis, FInv
<1> DEFINE here(conns) ==
      /\ mail'.kind = mail.kind /\ mail'.from = mail.from /\ mail'.key = mail.key
      /\ mail'.except = mail.except /\ mail'.want = mail.want
      /\ mail'.to = mail.to \ {n}
      /\ mail'.pc = IF mail.to \ {n} = {} THEN "idle" ELSE "wire"
      /\ \A c \in Conn : mail'.got[c] = mail.got[c] + (IF c \in conns THEN 1 ELSE 0)
<1>2. ASSUME NEW conns \in SUBSET Conn, mail' = Past(Written(mail, conns), n)
      PROVE  here(conns)
  <2>1. Written(mail, conns).want = mail.want
    BY <1>1 DEF Written, Mail
  <2>2. PICK w \in Mail : w = Written(mail, conns)
    BY <1>1, WrittenOnce
  <2>3. Past(w, n).want = w.want
    BY DEF Past, Mail
  <2> QED
    BY <1>1, <1>2, <2>1, <2>2, <2>3, WrittenOnce, PastFewer
<1>3. ASSUME NEW conns \in SUBSET Conn, here(conns), mail.pc = "wire",
             \A c \in mail.want : OnItsWay(c) /\ at[c] = n => c \in conns
      PROVE  ExceptOK' /\ ReachOK'
  <2>1. ExceptOK'
    BY <1>1, <1>3 DEF ExceptOK
  <2>2. ASSUME NEW c \in mail.want
        PROVE  mail'.got[c] > 0 \/ OnItsWay(c)'
    <3>1. c \in Conn /\ mail.got[c] \in Nat
      BY <1>1 DEF Mail
    <3>2. CASE mail.got[c] > 0 \/ c \in conns
      BY <1>3, <3>1, <3>2
    <3>3. CASE OnItsWay(c) /\ at[c] # n
      <4>1. at[c] \in mail.to \ {n} /\ mail'.pc = "wire"
        BY <1>3, <3>3 DEF OnItsWay
      <4> QED
        BY <1>1, <1>3, <3>3, <4>1 DEF OnItsWay
    <3> QED
      BY <1>3, <3>2, <3>3 DEF ReachOK
  <2> QED
    BY <1>3, <2>1, <2>2 DEF ReachOK
<1>4. CASE HandleRemoteNodeMessage(n)
  <2>1. /\ mail.kind = "push" /\ mail.pc = "wire" /\ n \in mail.to
        /\ mail' = Past(Written(mail, Bound(n, mail.key)), n)
        /\ Bound(n, mail.key) \in SUBSET Conn
    BY <1>4 DEF HandleRemoteNodeMessage, Addressees, Bound
  <2>2. \A c \in mail.want : OnItsWay(c) /\ at[c] = n => c \in Bound(n, mail.key)
    BY <1>1, <2>1 DEF OnItsWay, Bound, Mail
  <2> QED
    BY <1>2, <1>3, <2>1, <2>2
<1>5. CASE HandleRemoteTenantMessage(n)
  <2>1. mail.kind = "cast" /\ mail.pc = "wire"
    BY <1>5 DEF HandleRemoteTenantMessage
  <2>2. CASE Remote(n)
    <3>1. mail' = Past(Written(mail, At(n) \ {mail.except}), n) /\ At(n) \in SUBSET Conn
      BY <1>5, <2>2 DEF HandleRemoteTenantMessage, At
    <3>2. \A c \in mail.want : OnItsWay(c) /\ at[c] = n => c \in At(n) \ {mail.except}
      BY <1>1 DEF OnItsWay, At, Mail
    <3> QED
      BY <1>2, <1>3, <2>1, <3>1, <3>2
  <2>3. CASE ~Remote(n)
    <3>1. mail' = Past(mail, n)
      BY <1>5, <2>3 DEF HandleRemoteTenantMessage
    <3>2. mail'.want = mail.want /\ \A c \in Conn : mail'.got[c] = mail.got[c] + 0
      BY <1>1, <3>1 DEF Past, Mail
    <3>3. here({})
      BY <1>1, <3>1, <3>2, PastFewer
    <3>4. \A c \in mail.want : OnItsWay(c) /\ at[c] = n => c \in {}
      BY <2>3 DEF OnItsWay, Remote
    <3> HIDE DEF here
    <3> QED
      BY <1>3, <2>1, <3>3, <3>4
  <2> QED
    BY <2>2, <2>3
<1> QED
  BY <1>4, <1>5

LEMMA StepReaches == FInv /\ ExceptOK /\ ReachOK /\ [Next]_vars => ExceptOK' /\ ReachOK'
<1> SUFFICES ASSUME FInv, ExceptOK, ReachOK, [Next]_vars PROVE ExceptOK' /\ ReachOK'
  OBVIOUS
<1>1. CASE UNCHANGED vars
  BY <1>1 DEF vars, rvars, hubs, redis, ExceptOK, ReachOK, OnItsWay
<1>2. CASE Next
  BY <1>2, RegistryReaches, SubscribeReaches, SendToUserReaches, PublishReaches,
     CastReaches, HandleReaches
  DEF Next
<1> QED
  BY <1>1, <1>2

\* A message that has come to its end has reached whomever the registry or the
\* channel leads to, who stayed and listened while no call failed, whatever else
\* went on in the cluster (SendToUser, BroadcastToTenant).
THEOREM AllReached == Spec => []Reached
<1>1. Init => FInv /\ ExceptOK /\ ReachOK
  BY InitFInv DEF Init, NoMail, ExceptOK, ReachOK
<1>2. FInv /\ ExceptOK /\ ReachOK /\ [Next]_vars => FInv' /\ ExceptOK' /\ ReachOK'
  BY StepFInv, StepReaches
<1>3. ReachOK => Reached
  BY DEF ReachOK, Reached, OnItsWay
<1> QED
  BY <1>1, <1>2, <1>3, PTL DEF Spec
=============================================================================
