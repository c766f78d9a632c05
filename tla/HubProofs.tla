----------------------------- MODULE HubProofs -----------------------------
(***************************************************************************)
(* Proofs about Hub, for every set of connections, users and tenants.       *)
(***************************************************************************)
EXTENDS Hub, TLAPS

(* The inductive invariant *)

\* How far a connection has come, and what it therefore knows of its user.
StageOK ==
  \A c \in Conn :
    /\ user[c] # None => KeyOf(c) \in Key /\ tenant[c] \in Tenant
    /\ handler[c] = "auth" =>
         user[c] = None /\ role[c] \in Role /\ tenant[c] \in Tenant
    /\ handler[c] = "bind" => user[c] # None
    /\ handler[c] \in {"online", "offline"} => user[c] # None /\ role[c] = "agent"
    /\ socket[c] = "new" =>
         user[c] = None /\ handler[c] = "idle" /\ c \notin connections

\* Only what was authenticated is ever sent to.
SendOK ==
  \A g \in Send : \A c \in send[g].left : user[c] # None

IInv == TypeOK /\ StageOK /\ SendOK /\ IndexExact /\ Recipient

-----------------------------------------------------------------------------
LEMMA InitIInv == Init => IInv
<1> SUFFICES ASSUME Init PROVE IInv
  OBVIOUS
<1>1. TypeOK
  BY DEF Init, Empty, TypeOK, Quiet, Running
<1>2. StageOK /\ SendOK /\ IndexExact /\ Recipient
  BY DEF Init, Empty, StageOK, SendOK, IndexExact, Recipient, Quiet, Bound
<1> QED
  BY <1>1, <1>2 DEF IInv

\* removeConn forgets c and nothing else.
LEMMA RemoveKeeps ==
  ASSUME IInv, NEW c \in Conn, RemoveConn(c), UNCHANGED <<handler, attrs>>
  PROVE  /\ connections' \subseteq Conn /\ userConns' \in [Key -> SUBSET Conn]
         /\ tenantConns' \in [Tenant -> SUBSET Conn]
         /\ leaving' \in [Agent -> Nat] /\ acked' \subseteq Agent
         /\ connections' \subseteq connections
         /\ IndexExact'
<1>0. TypeOK /\ IndexExact /\ StageOK
  BY DEF IInv
<1>1. /\ connections' \subseteq connections /\ connections' \subseteq Conn
      /\ userConns' \in [Key -> SUBSET Conn]
      /\ tenantConns' \in [Tenant -> SUBSET Conn]
      /\ acked' \subseteq Agent
  BY <1>0 DEF RemoveConn, TypeOK, Bound
<1>2. leaving' \in [Agent -> Nat]
  <2>1. \A a \in Agent : leaving[a] + (IF LastOf(a, c) THEN 1 ELSE 0) \in Nat
    BY <1>0 DEF TypeOK
  <2> QED
    BY <2>1 DEF RemoveConn
<1>3. IndexExact'
  <2> SUFFICES ASSUME NEW d \in Conn
               PROVE  LET authenticated == d \in connections' /\ user'[d] # None
                                             /\ handler'[d] # "bind" IN
                      /\ \A k \in Key : d \in userConns'[k] <=>
                           authenticated /\ k = <<role'[d], user'[d]>>
                      /\ \A t \in Tenant : d \in tenantConns'[t] <=>
                           authenticated /\ t = tenant'[d]
    BY DEF IndexExact, Bound, KeyOf
  <2>1. /\ \A k \in Key : userConns'[k] =
             IF k = <<role[c], user[c]>> THEN userConns[k] \ {c} ELSE userConns[k]
        /\ \A t \in Tenant : tenantConns'[t] =
             IF t = tenant[c] THEN tenantConns[t] \ {c} ELSE tenantConns[t]
        /\ connections' = connections \ {c}
    BY DEF RemoveConn, Bound, KeyOf
  <2>2. /\ \A k \in Key : d \in userConns[k] <=>
             /\ d \in connections /\ user[d] # None /\ handler[d] # "bind"
             /\ k = <<role[d], user[d]>>
        /\ \A t \in Tenant : d \in tenantConns[t] <=>
             /\ d \in connections /\ user[d] # None /\ handler[d] # "bind"
             /\ t = tenant[d]
    BY <1>0 DEF IndexExact, Bound, KeyOf
  <2>3. handler' = handler /\ role' = role /\ user' = user /\ tenant' = tenant
    BY DEF attrs
  <2>4. CASE d = c
    BY <2>1, <2>2, <2>3, <2>4
  <2>5. CASE d # c
    BY <2>1, <2>2, <2>3, <2>5
  <2> QED
    BY <2>4, <2>5
<1> QED
  BY <1>1, <1>2, <1>3

\* What is sent goes on as long as no connection that has a user changes it.
LEMMA SendKeeps ==
  ASSUME IInv, send' \in [Send -> [to : Key \cup Tenant \cup {None},
                                   left : SUBSET Conn]],
         \A g \in Send : send'[g].left \subseteq send[g].left
                         /\ (send'[g].left # {} => send'[g].to = send[g].to),
         \A c \in Conn : user[c] # None =>
           user'[c] = user[c] /\ role'[c] = role[c] /\ tenant'[c] = tenant[c]
  PROVE  SendOK' /\ Recipient'
<1> SUFFICES ASSUME NEW g \in Send, NEW c \in send'[g].left
             PROVE  user'[c] # None /\ send'[g].to \in {KeyOf(c)', tenant'[c]}
  BY DEF SendOK, Recipient
<1>1. c \in send[g].left /\ send'[g].to = send[g].to
  OBVIOUS
<1>2. c \in Conn
  BY <1>1 DEF IInv, TypeOK
<1>3. user[c] # None /\ send[g].to \in {KeyOf(c), tenant[c]}
  BY <1>1 DEF IInv, SendOK, Recipient
<1> QED
  BY <1>1, <1>2, <1>3 DEF KeyOf

\* An action that leaves the sending goroutines, the attributes and the indexes
\* alone.
LEMMA SendStays ==
  ASSUME IInv, UNCHANGED <<send, attrs>>
  PROVE  SendOK' /\ Recipient'
<1>1. send' \in [Send -> [to : Key \cup Tenant \cup {None}, left : SUBSET Conn]]
  BY DEF IInv, TypeOK
<1> QED
  BY <1>1, SendKeeps DEF attrs

LEMMA NextIInv == IInv /\ [Next]_vars => IInv'
<1> SUFFICES ASSUME IInv, [Next]_vars PROVE IInv'
  OBVIOUS
<1> USE NoneAssumption DEF attrs, indexes, status
<1>0. TypeOK /\ StageOK /\ SendOK /\ IndexExact /\ Recipient
  BY DEF IInv
<1>1. ASSUME NEW c \in Conn, HandleOpen(c)
      PROVE  IInv'
  <2>1. TypeOK'
    BY <1>0, <1>1 DEF HandleOpen, TypeOK
  <2>2. StageOK'
    BY <1>0, <1>1 DEF HandleOpen, StageOK, TypeOK, KeyOf
  <2>3. IndexExact'
    BY <1>0, <1>1 DEF HandleOpen, StageOK, IndexExact, KeyOf, Bound
  <2> QED
    BY <1>1, <2>1, <2>2, <2>3, SendStays DEF HandleOpen, IInv
<1>2. ASSUME NEW c \in Conn, HandleClose(c)
      PROVE  IInv'
  <2>1. CASE c \in connections
    <3>1. RemoveConn(c) /\ socket' = [socket EXCEPT ![c] = "closing"]
      BY <1>2, <2>1 DEF HandleClose
    <3>2. TypeOK' /\ IndexExact' /\ connections' \subseteq connections
      BY <1>0, <1>2, <3>1, RemoveKeeps DEF HandleClose, TypeOK, RemoveConn
    <3>3. StageOK'
      BY <1>0, <1>2, <3>1, <3>2 DEF HandleClose, StageOK, TypeOK, KeyOf
    <3> QED
      BY <1>2, <3>2, <3>3, SendStays DEF HandleClose, IInv
  <2>2. CASE c \notin connections
    <3>1. UNCHANGED <<indexes, status>> /\ socket' = [socket EXCEPT ![c] = "closed"]
      BY <1>2, <2>2 DEF HandleClose
    <3>2. TypeOK' /\ StageOK' /\ IndexExact'
      BY <1>0, <1>2, <3>1
      DEF HandleClose, TypeOK, StageOK, IndexExact, KeyOf, Bound
    <3> QED
      BY <1>2, <3>2, SendStays DEF HandleClose, IInv
  <2> QED
    BY <2>1, <2>2
<1>3. ASSUME NEW c \in Conn, RemoveLimiter(c)
      PROVE  IInv'
  <2>1. TypeOK' /\ StageOK' /\ IndexExact'
    BY <1>0, <1>3 DEF RemoveLimiter, TypeOK, StageOK, IndexExact, KeyOf, Bound
  <2> QED
    BY <1>3, <2>1, SendStays DEF RemoveLimiter, IInv
<1>4. ASSUME NEW a \in Agent, MarkOffline(a)
      PROVE  IInv'
  <2>1. TypeOK'
    BY <1>0, <1>4 DEF MarkOffline, TypeOK
  <2>2. StageOK' /\ IndexExact'
    BY <1>0, <1>4 DEF MarkOffline, StageOK, IndexExact, KeyOf, Bound
  <2> QED
    BY <1>4, <2>1, <2>2, SendStays DEF MarkOffline, IInv
<1>5. ASSUME NEW c \in Conn, HandleMessage(c)
      PROVE  IInv'
  <2>1. TypeOK' /\ StageOK' /\ IndexExact'
    BY <1>0, <1>5 DEF HandleMessage, TypeOK, StageOK, IndexExact, KeyOf, Bound
  <2> QED
    BY <1>5, <2>1, SendStays DEF HandleMessage, IInv
<1>6. ASSUME NEW c \in Conn, RouteOther(c)
      PROVE  IInv'
  <2>1. TypeOK' /\ StageOK' /\ IndexExact'
    BY <1>0, <1>6
    DEF RouteOther, Route, TypeOK, StageOK, IndexExact, KeyOf, Bound
  <2> QED
    BY <1>6, <2>1, SendStays DEF RouteOther, Route, IInv
<1>7. ASSUME NEW c \in Conn, NEW r \in Role, NEW t \in Tenant, RouteAuth(c, r, t)
      PROVE  IInv'
  <2>1. user[c] = None /\ handler[c] = "route"
    BY <1>7 DEF RouteAuth, MayAuthenticate, Route
  <2>2. TypeOK'
    BY <1>0, <1>7 DEF RouteAuth, Route, TypeOK
  <2>3. StageOK'
    BY <1>0, <1>7, <2>1 DEF RouteAuth, Route, TypeOK, StageOK, KeyOf
  <2>4. IndexExact'
    BY <1>0, <1>7, <2>1 DEF RouteAuth, Route, TypeOK, IndexExact, KeyOf, Bound
  <2>5. SendOK' /\ Recipient'
    BY <1>0, <1>7, <2>1, SendKeeps DEF RouteAuth, Route, TypeOK
  <2> QED
    BY <2>2, <2>3, <2>4, <2>5 DEF IInv
<1>8. ASSUME NEW c \in Conn, NEW pc \in {"online", "offline"}, RouteStatus(c, pc)
      PROVE  IInv'
  <2>1. TypeOK' /\ StageOK' /\ IndexExact'
    BY <1>0, <1>8
    DEF RouteStatus, Route, TypeOK, StageOK, IndexExact, KeyOf, Bound
  <2> QED
    BY <1>8, <2>1, SendStays DEF RouteStatus, Route, IInv
<1>9. ASSUME NEW c \in Conn, NEW u \in Visitor \cup Agent, Authenticate(c, u)
      PROVE  IInv'
  <2>1. user[c] = None /\ handler[c] = "auth"
    BY <1>0, <1>9 DEF Authenticate, StageOK
  <2>2. TypeOK'
    BY <1>0, <1>9 DEF Authenticate, TypeOK
  <2>3. StageOK'
    BY <1>0, <1>9, <2>1 DEF Authenticate, InTenant, TypeOK, StageOK, KeyOf
  <2>4. IndexExact'
    BY <1>0, <1>9, <2>1 DEF Authenticate, TypeOK, IndexExact, KeyOf, Bound
  <2>5. SendOK' /\ Recipient'
    BY <1>0, <1>9, <2>1, SendKeeps DEF Authenticate, TypeOK
  <2> QED
    BY <2>2, <2>3, <2>4, <2>5 DEF IInv
<1>10. ASSUME NEW c \in Conn, AuthFails(c)
       PROVE  IInv'
  <2>1. TypeOK'
    BY <1>0, <1>10 DEF AuthFails, TypeOK
  <2>2. StageOK' /\ IndexExact'
    BY <1>0, <1>10 DEF AuthFails, TypeOK, StageOK, IndexExact, KeyOf, Bound
  <2> QED
    BY <1>10, <2>1, <2>2, SendStays DEF AuthFails, IInv
<1>11. ASSUME NEW c \in Conn, BindUser(c)
       PROVE  IInv'
  <2>1. user[c] # None /\ KeyOf(c) \in Key /\ tenant[c] \in Tenant /\ handler[c] = "bind"
    BY <1>0, <1>11 DEF BindUser, StageOK
  <2>2. TypeOK'
    BY <1>0, <1>11, <2>1 DEF BindUser, TypeOK
  <2>3. StageOK'
    BY <1>0, <1>11 DEF BindUser, TypeOK, StageOK, KeyOf
  <2>4. IndexExact'
    <3>1. CASE c \in connections
      <4>1. /\ \A k \in Key : userConns'[k] =
                 IF k = KeyOf(c) THEN userConns[k] \cup {c} ELSE userConns[k]
            /\ \A t \in Tenant : tenantConns'[t] =
                 IF t = tenant[c] THEN tenantConns[t] \cup {c} ELSE tenantConns[t]
        BY <1>0, <1>11, <2>1, <3>1 DEF BindUser, Bindable, TypeOK
      <4>2. /\ handler'[c] = "idle" /\ \A d \in Conn \ {c} : handler'[d] = handler[d]
            /\ role' = role /\ user' = user /\ tenant' = tenant
            /\ connections' = connections
        BY <1>0, <1>11 DEF BindUser, TypeOK
      <4> SUFFICES ASSUME NEW d \in Conn
                   PROVE  LET authenticated == d \in connections /\ user[d] # None
                                                 /\ handler'[d] # "bind" IN
                          /\ \A k \in Key : d \in userConns'[k] <=>
                               authenticated /\ k = KeyOf(d)
                          /\ \A t \in Tenant : d \in tenantConns'[t] <=>
                               authenticated /\ t = tenant[d]
        BY <4>2 DEF IndexExact, Bound, KeyOf
      <4>3. CASE d = c
        <5>1. /\ \A k \in Key : c \notin userConns[k]
              /\ \A t \in Tenant : c \notin tenantConns[t]
          BY <1>0, <2>1 DEF IndexExact, Bound
        <5> QED
          BY <2>1, <3>1, <4>1, <4>2, <4>3, <5>1
      <4>4. CASE d # c
        <5>1. /\ \A k \in Key : d \in userConns[k] <=>
                   /\ d \in connections /\ user[d] # None /\ handler[d] # "bind"
                   /\ k = KeyOf(d)
              /\ \A t \in Tenant : d \in tenantConns[t] <=>
                   /\ d \in connections /\ user[d] # None /\ handler[d] # "bind"
                   /\ t = tenant[d]
          BY <1>0 DEF IndexExact, Bound
        <5>2. handler'[d] = handler[d]
          BY <4>2, <4>4
        <5>3. /\ \A k \in Key : d \in userConns'[k] <=> d \in userConns[k]
              /\ \A t \in Tenant : d \in tenantConns'[t] <=> d \in tenantConns[t]
          BY <4>1, <4>4
        <5> QED
          BY <5>1, <5>2, <5>3
      <4> QED
        BY <4>3, <4>4
    <3>2. CASE c \notin connections
      BY <1>0, <1>11, <2>1, <3>2
      DEF BindUser, Bindable, TypeOK, IndexExact, KeyOf, Bound
    <3> QED
      BY <3>1, <3>2
  <2> QED
    BY <1>11, <2>2, <2>3, <2>4, SendStays DEF BindUser, IInv
<1>12. ASSUME NEW c \in Conn, SetOnline(c)
       PROVE  IInv'
  <2>1. user[c] \in Agent
    BY <1>0, <1>12 DEF SetOnline, StageOK, KeyOf, Key
  <2>2. TypeOK'
    BY <1>0, <1>12, <2>1 DEF SetOnline, TypeOK
  <2>3. StageOK' /\ IndexExact'
    BY <1>0, <1>12 DEF SetOnline, TypeOK, StageOK, IndexExact, KeyOf, Bound
  <2> QED
    BY <1>12, <2>2, <2>3, SendStays DEF SetOnline, IInv
<1>13. ASSUME NEW g \in Send, NEW k \in Key, SendToUser(g, k)
       PROVE  IInv'
  <2>1. send' = [send EXCEPT ![g] = [to |-> k, left |-> userConns[k]]]
    BY <1>13 DEF SendToUser, Bound
  <2>2. TypeOK'
    BY <1>0, <1>13, <2>1 DEF SendToUser, TypeOK
  <2>3. StageOK' /\ IndexExact'
    BY <1>0, <1>13 DEF SendToUser, StageOK, IndexExact, KeyOf, Bound
  <2>4. \A c \in userConns[k] : user[c] # None /\ k = KeyOf(c)
    BY <1>0 DEF IndexExact, Bound, TypeOK
  <2>5. SendOK' /\ Recipient'
    BY <1>0, <1>13, <2>1, <2>4 DEF SendToUser, TypeOK, SendOK, Recipient, KeyOf
  <2> QED
    BY <2>2, <2>3, <2>5 DEF IInv
<1>14. ASSUME NEW g \in Send, NEW c \in Conn, BroadcastToTenantExcept(g, c)
       PROVE  IInv'
  <2>0. tenant[c] \in Tenant
    BY <1>0, <1>14 DEF BroadcastToTenantExcept, StageOK
  <2>1. send' = [send EXCEPT ![g] = [to |-> tenant[c],
                                     left |-> tenantConns[tenant[c]] \ {c}]]
    BY <1>14 DEF BroadcastToTenantExcept
  <2>2. TypeOK'
    BY <1>0, <1>14, <2>0, <2>1 DEF BroadcastToTenantExcept, TypeOK
  <2>3. StageOK' /\ IndexExact'
    BY <1>0, <1>14 DEF BroadcastToTenantExcept, StageOK, IndexExact, KeyOf, Bound
  <2>4. \A d \in tenantConns[tenant[c]] : user[d] # None /\ tenant[c] = tenant[d]
    BY <1>0, <2>0 DEF IndexExact, TypeOK
  <2>5. SendOK' /\ Recipient'
    BY <1>0, <1>14, <2>0, <2>1, <2>4
    DEF BroadcastToTenantExcept, TypeOK, SendOK, Recipient, KeyOf
  <2> QED
    BY <2>2, <2>3, <2>5 DEF IInv
<1>15. ASSUME NEW g \in Send, NEW c \in Conn, Deliver(g, c)
       PROVE  IInv'
  <2>1. /\ send' \in [Send -> [to : Key \cup Tenant \cup {None},
                               left : SUBSET Conn]]
        /\ \A h \in Send :
             /\ send'[h].left \subseteq send[h].left
             /\ send'[h].left # {} => send'[h].to = send[h].to
    <3> DEFINE left == send[g].left \ {c}
               rest == IF left = {} THEN Quiet ELSE [to |-> send[g].to, left |-> left]
    <3>1. send' = [send EXCEPT ![g] = rest]
      BY <1>15 DEF Deliver
    <3>2. send[g] \in [to : Key \cup Tenant \cup {None}, left : SUBSET Conn]
      BY <1>0 DEF TypeOK
    <3>3. /\ rest \in [to : Key \cup Tenant \cup {None}, left : SUBSET Conn]
          /\ rest.left \subseteq send[g].left
          /\ rest.left # {} => rest.to = send[g].to
      BY <3>2 DEF Quiet
    <3> HIDE DEF rest
    <3> QED
      BY <1>0, <3>1, <3>3 DEF TypeOK
  <2>2. TypeOK' /\ StageOK' /\ IndexExact'
    BY <1>0, <1>15, <2>1 DEF Deliver, TypeOK, StageOK, IndexExact, KeyOf, Bound
  <2>3. SendOK' /\ Recipient'
    BY <1>15, <2>1, SendKeeps DEF Deliver
  <2> QED
    BY <2>2, <2>3 DEF IInv
<1>16. ASSUME Shutdown
       PROVE  IInv'
  <2>1. TypeOK' /\ StageOK' /\ IndexExact'
    BY <1>0, <1>16 DEF Shutdown, TypeOK, StageOK, IndexExact, KeyOf, Bound
  <2> QED
    BY <1>16, <2>1, SendStays DEF Shutdown, IInv
<1>17. ASSUME NEW c \in Conn, ShutdownClose(c)
       PROVE  IInv'
  <2>0. shutdown' \in [on : BOOLEAN, left : SUBSET Conn]
    BY <1>0, <1>17 DEF ShutdownClose, TypeOK
  <2>1. CASE c \in connections
    <3>1. RemoveConn(c)
      BY <1>17, <2>1 DEF ShutdownClose
    <3>2. TypeOK' /\ IndexExact' /\ connections' \subseteq connections
      BY <1>0, <1>17, <2>0, <3>1, RemoveKeeps DEF ShutdownClose, TypeOK, RemoveConn
    <3>3. StageOK'
      BY <1>0, <1>17, <3>2 DEF ShutdownClose, StageOK, KeyOf
    <3> QED
      BY <1>17, <3>2, <3>3, SendStays DEF ShutdownClose, IInv
  <2>2. CASE c \notin connections
    <3>1. TypeOK' /\ StageOK' /\ IndexExact'
      BY <1>0, <1>17, <2>0, <2>2
      DEF ShutdownClose, TypeOK, StageOK, IndexExact, KeyOf, Bound
    <3> QED
      BY <1>17, <3>1, SendStays DEF ShutdownClose, IInv
  <2> QED
    BY <2>1, <2>2
<1>18. ASSUME ShutdownReset
       PROVE  IInv'
  <2>1. TypeOK' /\ StageOK'
    BY <1>0, <1>18 DEF ShutdownReset, Running, TypeOK, StageOK, KeyOf
  <2>2. IndexExact'
    BY <1>18 DEF ShutdownReset, IndexExact, Bound
  <2> QED
    BY <1>18, <2>1, <2>2, SendStays DEF ShutdownReset, IInv
<1>19. ASSUME Exit
       PROVE  IInv'
  <2>1. TypeOK' /\ StageOK'
    BY <1>0, <1>19 DEF Exit, TypeOK, StageOK, KeyOf, Quiet, Running
  <2>2. IndexExact' /\ SendOK' /\ Recipient'
    BY <1>19 DEF Exit, IndexExact, Bound, SendOK, Recipient, Quiet
  <2> QED
    BY <2>1, <2>2 DEF IInv
<1>20. CASE UNCHANGED vars
  <2>1. TypeOK' /\ StageOK' /\ IndexExact'
    BY <1>0, <1>20 DEF vars, TypeOK, StageOK, IndexExact, KeyOf, Bound
  <2> QED
    BY <1>20, <2>1, SendStays DEF vars, IInv
<1> QED
  BY <1>1, <1>2, <1>3, <1>4, <1>5, <1>6, <1>7, <1>8, <1>9, <1>10, <1>11, <1>12,
     <1>13, <1>14, <1>15, <1>16, <1>17, <1>18, <1>19, <1>20
  DEF Next, Handle

\* The invariant holds of every reachable state.
THEOREM Inductive == Spec => []IInv
BY InitIInv, NextIInv, PTL DEF Spec

\* Every variable keeps its type (the maps and attributes of Hub and Conn).
THEOREM TypeCorrect == Spec => []TypeOK
<1>1. IInv => TypeOK
  BY DEF IInv
<1> QED
  BY <1>1, Inductive, PTL

\* BindUser, removeConn and Shutdown keep the indexes exact, however they fall
\* between the steps of a handler.
THEOREM ExactIndexes == Spec => []IndexExact
<1>1. IInv => IndexExact
  BY DEF IInv
<1> QED
  BY <1>1, Inductive, PTL

\* SendToUser and BroadcastToTenantExcept reach nobody else, although they use
\* the ids after they have given the lock back.
THEOREM RightRecipient == Spec => []Recipient
<1>1. IInv => Recipient
  BY DEF IInv
<1> QED
  BY <1>1, Inductive, PTL

-----------------------------------------------------------------------------
(* The indexes implement the directory. *)

\* The tenant that was authenticated for is the tenant of the user.
TenantOK == \A c \in Conn : user[c] # None => tenant[c] = TenantOf[KeyOf(c)]

LEMMA InitTenantOK == Init => TenantOK
BY DEF Init, TenantOK

LEMMA NextTenantOK == IInv /\ TenantOK /\ [Next]_vars => TenantOK'
<1> SUFFICES ASSUME IInv, TenantOK, [Next]_vars PROVE TenantOK'
  OBVIOUS
<1>0. TypeOK
  BY DEF IInv
<1>1. CASE UNCHANGED attrs
  BY <1>1 DEF attrs, TenantOK, KeyOf
<1>2. ASSUME NEW c \in Conn, NEW r \in Role, NEW t \in Tenant, RouteAuth(c, r, t)
      PROVE  TenantOK'
  BY <1>0, <1>2 DEF RouteAuth, MayAuthenticate, TypeOK, TenantOK, KeyOf
<1>3. ASSUME NEW c \in Conn, NEW u \in Visitor \cup Agent, Authenticate(c, u)
      PROVE  TenantOK'
  BY <1>0, <1>3 DEF Authenticate, InTenant, TypeOK, TenantOK, KeyOf
<1> QED
  BY <1>1, <1>2, <1>3
  DEF vars, Next, Handle, HandleOpen, HandleClose, RemoveLimiter, HandleMessage,
      RouteOther, RouteStatus, AuthFails, BindUser, SetOnline, ShutdownClose,
      MarkOffline, SendToUser, BroadcastToTenantExcept, Deliver, Shutdown,
      ShutdownReset, Exit

\* Whether c may still be entered: its user is not known yet, or is about to be
\* entered, and it has not been removed.
Early(c) == user[c] = None \/ handler[c] = "bind"
Known(c) == socket[c] = "new" \/ c \in connections

LEMMA DirectoryStays ==
  ASSUME UNCHANGED <<userConns, tenantConns>>,
         \A c \in Conn : Early(c) /\ Known(c) <=> Early(c)' /\ Known(c)'
  PROVE  UNCHANGED Index!vars
<1>1. Waiting' = Waiting
  BY DEF Waiting, Early, Known
<1>2. Entries(userConns, Key)' = Entries(userConns, Key)
  BY DEF Entries
<1>3. Entries(tenantConns, Tenant)' = Entries(tenantConns, Tenant)
  BY DEF Entries
<1> QED
  BY <1>1, <1>2, <1>3 DEF Index!vars

LEMMA DirectoryForgets ==
  ASSUME NEW gone \in SUBSET Conn,
         \A k \in Key : userConns'[k] = userConns[k] \ gone,
         \A t \in Tenant : tenantConns'[t] = tenantConns[t] \ gone,
         \A c \in Conn : (Early(c) /\ Known(c))' <=> Early(c) /\ Known(c) /\ c \notin gone
  PROVE  Index!Next
<1>1. Waiting' = Waiting \ gone
  BY DEF Waiting, Early, Known
<1>2. Entries(userConns, Key)' = {e \in Entries(userConns, Key) : e[1] \notin gone}
  BY DEF Entries
<1>3. Entries(tenantConns, Tenant)' =
        {e \in Entries(tenantConns, Tenant) : e[1] \notin gone}
  BY DEF Entries
<1> QED
  BY <1>1, <1>2, <1>3 DEF Index!Next, Index!Forget

LEMMA DirectoryEnters ==
  ASSUME NEW c \in Conn, NEW k \in Key, TenantOf[k] \in Tenant,
         Early(c) /\ Known(c),
         \A j \in Key : userConns'[j] =
           IF j = k THEN userConns[j] \cup {c} ELSE userConns[j],
         \A t \in Tenant : tenantConns'[t] =
           IF t = TenantOf[k] THEN tenantConns[t] \cup {c} ELSE tenantConns[t],
         \A d \in Conn : (Early(d) /\ Known(d))' <=> Early(d) /\ Known(d) /\ d # c
  PROVE  Index!Next
<1>1. c \in Waiting /\ Waiting' = Waiting \ {c}
  BY DEF Waiting, Early, Known
<1>2. Entries(userConns, Key)' = Entries(userConns, Key) \cup {<<c, k>>}
  <2>1. ASSUME NEW d \in Conn, NEW j \in Key
        PROVE  d \in userConns'[j] <=> d \in userConns[j] \/ <<d, j>> = <<c, k>>
    OBVIOUS
  <2> QED
    BY <2>1 DEF Entries
<1>3. Entries(tenantConns, Tenant)' = Entries(tenantConns, Tenant) \cup {<<c, TenantOf[k]>>}
  <2>1. ASSUME NEW d \in Conn, NEW j \in Tenant
        PROVE  d \in tenantConns'[j] <=> d \in tenantConns[j] \/ <<d, j>> = <<c, TenantOf[k]>>
    OBVIOUS
  <2> QED
    BY <2>1 DEF Entries
<1> QED
  BY <1>1, <1>2, <1>3 DEF Index!Next, Index!Enter

\* removeConn takes c from both indexes.
LEMMA RemoveForgets ==
  ASSUME IInv, NEW c \in Conn, RemoveConn(c), UNCHANGED <<handler, attrs>>,
         \A d \in Conn : socket'[d] = "new" <=> socket[d] = "new",
         socket[c] # "new"
  PROVE  Index!Next
<1>1. TypeOK /\ IndexExact
  BY DEF IInv
<1>2. \A k \in Key : userConns'[k] = userConns[k] \ {c}
  BY <1>1 DEF RemoveConn, IndexExact, Bound
<1>3. \A t \in Tenant : tenantConns'[t] = tenantConns[t] \ {c}
  BY <1>1 DEF RemoveConn, IndexExact
<1>4. \A d \in Conn : (Early(d) /\ Known(d))' <=> Early(d) /\ Known(d) /\ d \notin {c}
  BY DEF RemoveConn, Early, Known, attrs
<1> QED
  BY <1>2, <1>3, <1>4, DirectoryForgets

LEMMA StepDirectory ==
  ASSUME IInv, TenantOK, [Next]_vars
  PROVE  [Index!Next]_(Index!vars)
<1> USE NoneAssumption DEF indexes, status, attrs
<1>0. TypeOK /\ StageOK /\ IndexExact
  BY DEF IInv
<1>1. ASSUME NEW c \in Conn, HandleOpen(c) \/ RemoveLimiter(c) \/ HandleMessage(c)
      PROVE  UNCHANGED Index!vars
  <2>1. \A d \in Conn : Early(d) /\ Known(d) <=> Early(d)' /\ Known(d)'
    BY <1>0, <1>1 DEF HandleOpen, RemoveLimiter, HandleMessage, Early, Known, TypeOK, StageOK
  <2> QED
    BY <1>1, <2>1, DirectoryStays DEF HandleOpen, RemoveLimiter, HandleMessage
<1>2. ASSUME NEW c \in Conn, HandleClose(c)
      PROVE  [Index!Next]_(Index!vars)
  <2>1. CASE c \in connections
    BY <1>0, <1>2, <2>1, RemoveForgets DEF HandleClose, TypeOK
  <2>2. CASE c \notin connections
    <3>1. \A d \in Conn : Early(d) /\ Known(d) <=> Early(d)' /\ Known(d)'
      BY <1>0, <1>2, <2>2 DEF HandleClose, Early, Known, TypeOK
    <3> QED
      BY <1>2, <2>2, <3>1, DirectoryStays DEF HandleClose
  <2> QED
    BY <2>1, <2>2
<1>3. ASSUME NEW c \in Conn, NEW pc, Route(c, pc), pc # "bind",
             UNCHANGED user
      PROVE  UNCHANGED Index!vars
  <2>1. \A d \in Conn : Early(d) /\ Known(d) <=> Early(d)' /\ Known(d)'
    BY <1>0, <1>3 DEF Route, Early, Known, TypeOK
  <2> QED
    BY <1>3, <2>1, DirectoryStays DEF Route
<1>4. ASSUME NEW c \in Conn, RouteOther(c)
      PROVE  UNCHANGED Index!vars
  BY <1>3, <1>4 DEF RouteOther
<1>5. ASSUME NEW c \in Conn, NEW r \in Role, NEW t \in Tenant, RouteAuth(c, r, t)
      PROVE  UNCHANGED Index!vars
  BY <1>3, <1>5 DEF RouteAuth
<1>6. ASSUME NEW c \in Conn, NEW pc \in {"online", "offline"}, RouteStatus(c, pc)
      PROVE  UNCHANGED Index!vars
  BY <1>3, <1>6 DEF RouteStatus
<1>7. ASSUME NEW c \in Conn,
             \/ \E u \in Visitor \cup Agent : Authenticate(c, u)
             \/ AuthFails(c) \/ SetOnline(c)
      PROVE  UNCHANGED Index!vars
  <2>1. \A d \in Conn : Early(d) /\ Known(d) <=> Early(d)' /\ Known(d)'
    BY <1>0, <1>7
    DEF Authenticate, AuthFails, SetOnline, Early, Known, TypeOK, StageOK
  <2> QED
    BY <1>7, <2>1, DirectoryStays DEF Authenticate, AuthFails, SetOnline
<1>8. ASSUME NEW c \in Conn, BindUser(c)
      PROVE  [Index!Next]_(Index!vars)
  <2>1. /\ user[c] # None /\ KeyOf(c) \in Key /\ handler[c] = "bind"
        /\ tenant[c] = TenantOf[KeyOf(c)] /\ tenant[c] \in Tenant
        /\ socket[c] # "new"
    BY <1>0, <1>8 DEF BindUser, StageOK, TenantOK
  <2>2. /\ handler'[c] = "idle" /\ \A d \in Conn \ {c} : handler'[d] = handler[d]
        /\ UNCHANGED <<socket, user, connections>>
    BY <1>0, <1>8 DEF BindUser, TypeOK
  <2>3. CASE c \in connections
    <3>1. /\ \A j \in Key : userConns'[j] =
               IF j = KeyOf(c) THEN userConns[j] \cup {c} ELSE userConns[j]
          /\ \A t \in Tenant : tenantConns'[t] =
               IF t = tenant[c] THEN tenantConns[t] \cup {c} ELSE tenantConns[t]
      BY <1>0, <1>8, <2>3 DEF BindUser, Bindable, TypeOK
    <3>2. Early(c) /\ Known(c)
      BY <2>1, <2>3 DEF Early, Known
    <3>3. \A d \in Conn : (Early(d) /\ Known(d))' <=> Early(d) /\ Known(d) /\ d # c
      BY <2>1, <2>2 DEF Early, Known
    <3> QED
      BY <2>1, <3>1, <3>2, <3>3, DirectoryEnters
  <2>4. CASE c \notin connections
    <3>1. \A d \in Conn : Early(d) /\ Known(d) <=> Early(d)' /\ Known(d)'
      BY <2>1, <2>2, <2>4 DEF Early, Known
    <3> QED
      BY <1>8, <2>4, <3>1, DirectoryStays DEF BindUser, Bindable
  <2> QED
    BY <2>3, <2>4
<1>9. ASSUME NEW c \in Conn, ShutdownClose(c)
      PROVE  [Index!Next]_(Index!vars)
  <2>1. CASE c \in connections
    BY <1>0, <1>9, <2>1, RemoveForgets DEF ShutdownClose, StageOK
  <2>2. CASE c \notin connections
    BY <1>9, <2>2, DirectoryStays DEF ShutdownClose, Early, Known
  <2> QED
    BY <2>1, <2>2
<1>10. CASE ShutdownReset
  <2>1. /\ \A k \in Key : userConns'[k] = userConns[k] \ connections
        /\ \A t \in Tenant : tenantConns'[t] = tenantConns[t] \ connections
    BY <1>0, <1>10 DEF ShutdownReset, TypeOK, IndexExact, Bound
  <2>2. \A d \in Conn : (Early(d) /\ Known(d))' <=> Early(d) /\ Known(d) /\ d \notin connections
    BY <1>0, <1>10 DEF ShutdownReset, StageOK, Early, Known
  <2> QED
    BY <1>0, <2>1, <2>2, DirectoryForgets DEF TypeOK
<1>11. CASE Exit
  <2> DEFINE gone == {c \in Conn : socket[c] # "new"}
  <2>1. /\ \A k \in Key : userConns'[k] = userConns[k] \ gone
        /\ \A t \in Tenant : tenantConns'[t] = tenantConns[t] \ gone
    BY <1>0, <1>11 DEF Exit, TypeOK, StageOK, IndexExact, Bound
  <2>2. \A d \in Conn : (Early(d) /\ Known(d))' <=> Early(d) /\ Known(d) /\ d \notin gone
    BY <1>0, <1>11 DEF Exit, StageOK, Early, Known
  <2> HIDE DEF gone
  <2>3. gone \in SUBSET Conn
    BY DEF gone
  <2> QED
    BY <2>1, <2>2, <2>3, DirectoryForgets
<1>12. CASE UNCHANGED <<socket, handler, attrs, indexes>>
  BY <1>12, DirectoryStays DEF Early, Known
<1>13. ASSUME NEW g \in Send,
              \/ \E k \in Key : SendToUser(g, k)
              \/ \E c \in Conn : BroadcastToTenantExcept(g, c) \/ Deliver(g, c)
       PROVE  UNCHANGED <<socket, handler, attrs, indexes>>
  BY <1>13 DEF SendToUser, BroadcastToTenantExcept, Deliver
<1> QED
  BY <1>1, <1>2, <1>4, <1>5, <1>6, <1>7, <1>8, <1>9, <1>10, <1>11, <1>12, <1>13
  DEF Next, Handle, vars, MarkOffline, Shutdown

\* Whatever overlaps, fails or stops, what the hub tells a sender is the
\* directory: BindUser enters a connection in both indexes, once and under the
\* tenant of its user, and removeConn and Shutdown take it from both for good.
THEOREM ImplementsDirectory == Spec => Implements
<1>1. Init => Index!Init
  BY DEF Init, Empty, Waiting, Entries, Index!Init
<1>2. IInv /\ TenantOK /\ [Next]_vars => [Index!Next]_(Index!vars)
  BY StepDirectory
<1> QED
  BY <1>1, <1>2, Inductive, InitTenantOK, NextTenantOK, PTL
  DEF Spec, Implements, Index!Spec

-----------------------------------------------------------------------------
(* A process that goes on, with a library that closes a connection after its
   handler has returned *)

\* A handler that runs has its socket, and every socket is known.
LimiterInv ==
  /\ shutdown = Running
  /\ \A c \in Conn : handler[c] # "idle" => socket[c] = "open"
  /\ \A c \in Conn : socket[c] = "open" => c \in connections
  /\ LimiterOwned

\* Without Stops none of the actions of a process that ends can happen.
LEMMA NothingStops ==
  ASSUME ~Stops, shutdown = Running
  PROVE  ~Shutdown /\ ~Exit /\ ~ShutdownReset /\ \A c \in Conn : ~ShutdownClose(c)
  BY DEF Running, Shutdown, Exit, ShutdownReset, ShutdownClose

LEMMA NextLimiterInv ==
  ASSUME ~CloseOverlaps, ~Stops, TypeOK, LimiterInv, [Next]_vars
  PROVE  LimiterInv'
<1> USE DEF attrs, indexes, status, TypeOK, LimiterInv, LimiterOwned
<1>1. ASSUME NEW c \in Conn,
             HandleOpen(c) \/ HandleClose(c) \/ RemoveLimiter(c)
      PROVE  LimiterInv'
  <2>1. CASE HandleOpen(c)
    BY <2>1 DEF HandleOpen
  <2>2. CASE HandleClose(c)
    BY <2>2 DEF HandleClose, RemoveConn
  <2>3. CASE RemoveLimiter(c)
    BY <2>3 DEF RemoveLimiter
  <2> QED
    BY <1>1, <2>1, <2>2, <2>3
<1>2. ASSUME NEW c \in Conn, HandleMessage(c)
      PROVE  LimiterInv'
  BY <1>2 DEF HandleMessage
<1>3. ASSUME NEW c \in Conn, NEW pc, Route(c, pc)
      PROVE  LimiterInv'
  BY <1>3 DEF Route
<1>4. ASSUME NEW c \in Conn,
             \/ \E u \in Visitor \cup Agent : Authenticate(c, u)
             \/ AuthFails(c) \/ BindUser(c) \/ SetOnline(c)
      PROVE  LimiterInv'
  <2>1. /\ handler[c] # "idle"
        /\ UNCHANGED <<socket, limiters, connections, shutdown>>
        /\ \A d \in Conn \ {c} : handler'[d] = handler[d]
    BY <1>4 DEF Authenticate, AuthFails, BindUser, SetOnline
  <2> QED
    BY <2>1
<1>5. ~Shutdown /\ ~Exit /\ ~ShutdownReset /\ \A c \in Conn : ~ShutdownClose(c)
  BY NothingStops
<1>6. ASSUME NEW g \in Send, NEW c \in Conn,
             BroadcastToTenantExcept(g, c) \/ Deliver(g, c)
      PROVE  LimiterInv'
  BY <1>6 DEF BroadcastToTenantExcept, Deliver
<1>7. ASSUME NEW g \in Send, NEW k \in Key, SendToUser(g, k)
      PROVE  LimiterInv'
  BY <1>7 DEF SendToUser
<1>8. ASSUME NEW a \in Agent, MarkOffline(a)
      PROVE  LimiterInv'
  BY <1>8 DEF MarkOffline
<1>9. CASE UNCHANGED vars
  BY <1>9 DEF vars
<1> QED
  BY <1>1, <1>2, <1>3, <1>4, <1>5, <1>6, <1>7, <1>8, <1>9
  DEF Next, Handle, RouteOther, RouteAuth, RouteStatus

\* HandleClose leaves no limiter behind, if it comes after the handlers.
THEOREM OwnedLimiters ==
  ASSUME ~CloseOverlaps, ~Stops
  PROVE  Spec => []LimiterOwned
<1>1. Init => LimiterInv
  BY DEF Init, Empty, LimiterInv, LimiterOwned
<1>2. TypeOK /\ LimiterInv /\ [Next]_vars => LimiterInv'
  BY NextLimiterInv
<1>3. LimiterInv => LimiterOwned
  BY DEF LimiterInv
<1> QED
  BY <1>1, <1>2, <1>3, TypeCorrect, PTL DEF Spec

-----------------------------------------------------------------------------
(* ... and with writes that do not fail *)

\* A handler that runs has its connection, and nothing is being shut down.
PresenceInv ==
  /\ \A c \in Conn : handler[c] # "idle" => c \in connections
  /\ shutdown = Running
  /\ NoPhantom

\* Nothing that NoPhantom speaks about has changed for the worse.
LEMMA PresenceKeeps ==
  ASSUME TypeOK, NoPhantom, online' \subseteq online,
         \A a \in Agent : Bound(<<"agent", a>>) \subseteq Bound(<<"agent", a>>)',
         leaving' = leaving
  PROVE  NoPhantom'
<1> SUFFICES ASSUME NEW a \in online' PROVE Connected(a)' \/ leaving'[a] > 0
  BY DEF NoPhantom
<1>1. a \in Agent /\ (Connected(a) \/ leaving[a] > 0)
  BY DEF NoPhantom, TypeOK
<1> QED
  BY <1>1 DEF Connected

LEMMA NextPresenceInv ==
  ASSUME ~CloseOverlaps, ~Stops, ~WriteFaults, IInv, PresenceInv, [Next]_vars
  PROVE  PresenceInv'
<1> USE DEF attrs, indexes, status, PresenceInv
<1>0. TypeOK /\ StageOK /\ IndexExact
  BY DEF IInv
<1>1. ASSUME NEW c \in Conn, HandleOpen(c)
      PROVE  PresenceInv'
  BY <1>0, <1>1, PresenceKeeps DEF HandleOpen, Bound
<1>2. ASSUME NEW c \in Conn, HandleClose(c)
      PROVE  PresenceInv'
  <2>1. CASE c \in connections
    <3>1. RemoveConn(c) /\ handler[c] = "idle" /\ UNCHANGED <<handler, shutdown>>
      BY <1>2, <2>1 DEF HandleClose
    <3>2. NoPhantom'
      <4> SUFFICES ASSUME NEW a \in online'
                   PROVE  userConns'[<<"agent", a>>] # {} \/ leaving'[a] > 0
        BY DEF NoPhantom, Connected, Bound
      <4>1. a \in online /\ a \in Agent /\ <<"agent", a>> \in Key
        BY <1>0, <3>1 DEF RemoveConn, TypeOK, Key
      <4>2. leaving[a] \in Nat
        BY <1>0, <4>1 DEF TypeOK
      <4>3. leaving'[a] = leaving[a] + IF LastOf(a, c) THEN 1 ELSE 0
        BY <3>1, <4>1 DEF RemoveConn
      <4>4. CASE leaving[a] > 0
        BY <4>2, <4>3, <4>4
      <4>5. CASE LastOf(a, c)
        BY <4>2, <4>3, <4>5
      <4>6. CASE ~(leaving[a] > 0) /\ ~LastOf(a, c)
        <5>1. userConns[<<"agent", a>>] # {}
          BY <4>1, <4>6 DEF NoPhantom, Connected, Bound
        <5>2. userConns'[<<"agent", a>>] =
                IF <<"agent", a>> = KeyOf(c) THEN userConns[<<"agent", a>>] \ {c}
                ELSE userConns[<<"agent", a>>]
          BY <3>1, <4>1 DEF RemoveConn, Bound
        <5> QED
          BY <4>6, <5>1, <5>2 DEF LastOf, Bound
      <4> QED
        BY <4>4, <4>5, <4>6
    <3> QED
      BY <3>1, <3>2 DEF RemoveConn
  <2>2. CASE c \notin connections
    BY <1>0, <1>2, <2>2, PresenceKeeps DEF HandleClose, Bound
  <2> QED
    BY <2>1, <2>2
<1>3. ASSUME NEW c \in Conn, RemoveLimiter(c) \/ HandleMessage(c)
      PROVE  PresenceInv'
  BY <1>0, <1>3, PresenceKeeps DEF RemoveLimiter, HandleMessage, Bound, TypeOK
<1>4. ASSUME NEW c \in Conn, NEW pc, Route(c, pc)
      PROVE  PresenceInv'
  BY <1>0, <1>4, PresenceKeeps DEF Route, Bound, TypeOK
<1>5. ASSUME NEW c \in Conn, NEW u, Authenticate(c, u)
      PROVE  PresenceInv'
  BY <1>0, <1>5, PresenceKeeps DEF Authenticate, Bound, TypeOK
<1>6. ASSUME NEW c \in Conn, AuthFails(c)
      PROVE  PresenceInv'
  BY <1>0, <1>6, PresenceKeeps DEF AuthFails, Bound, TypeOK
<1>7. ASSUME NEW c \in Conn, BindUser(c)
      PROVE  PresenceInv'
  <2>1. \A k \in Key : userConns[k] \subseteq userConns'[k]
    BY <1>0, <1>7 DEF BindUser, TypeOK
  <2>2. \A a \in Agent : <<"agent", a>> \in Key
    BY DEF Key
  <2>3. NoPhantom'
    BY <1>0, <1>7, <2>1, <2>2, PresenceKeeps DEF BindUser, Bound
  <2> QED
    BY <1>0, <1>7, <2>3 DEF BindUser, TypeOK
<1>8. ASSUME NEW c \in Conn, SetOnline(c)
      PROVE  PresenceInv'
  <2>1. /\ user[c] # None /\ role[c] = "agent" /\ c \in connections
        /\ handler[c] # "bind" /\ KeyOf(c) \in Key
    BY <1>0, <1>8 DEF SetOnline, StageOK
  <2>2. c \in userConns[KeyOf(c)]
    BY <1>0, <2>1 DEF IndexExact, Bound
  <2>3. KeyOf(c) = <<"agent", user[c]>>
    BY <2>1 DEF KeyOf
  <2>4. Connected(user[c])
    BY <2>2, <2>3 DEF Connected, Bound
  <2>5. online' \subseteq online \cup {user[c]}
    BY <1>8 DEF SetOnline
  <2>6. NoPhantom'
    BY <1>8, <2>4, <2>5 DEF SetOnline, NoPhantom, Connected, Bound
  <2> QED
    BY <1>0, <1>8, <2>6 DEF SetOnline, TypeOK
<1>9. ASSUME NEW a \in Agent, MarkOffline(a)
      PROVE  PresenceInv'
  <2>1. online' = online \ {a} /\ leaving' = [leaving EXCEPT ![a] = @ - 1]
        /\ UNCHANGED <<userConns, handler, connections, shutdown>>
    BY <1>9 DEF MarkOffline
  <2>2. \A b \in online' : leaving'[b] = leaving[b]
    BY <1>0, <2>1 DEF TypeOK
  <2> QED
    BY <2>1, <2>2 DEF NoPhantom, Connected, Bound
<1>10. ASSUME NEW g \in Send, NEW c \in Conn,
              BroadcastToTenantExcept(g, c) \/ Deliver(g, c)
       PROVE  PresenceInv'
  BY <1>0, <1>10, PresenceKeeps DEF BroadcastToTenantExcept, Deliver, Bound
<1>11. ASSUME NEW g \in Send, NEW k \in Key, SendToUser(g, k)
       PROVE  PresenceInv'
  BY <1>0, <1>11, PresenceKeeps DEF SendToUser, Bound
<1>12. CASE UNCHANGED vars
  BY <1>0, <1>12, PresenceKeeps DEF vars, Bound
<1>13. ~Shutdown /\ ~Exit /\ ~ShutdownReset /\ \A c \in Conn : ~ShutdownClose(c)
  BY NothingStops
<1> QED
  BY <1>1, <1>2, <1>3, <1>4, <1>5, <1>6, <1>7, <1>8, <1>9, <1>10, <1>11, <1>12, <1>13
  DEF Next, Handle, RouteOther, RouteAuth, RouteStatus

\* The table shows no agent online that has been gone for longer than its
\* callback takes (removeConn and onAgentOffline of standalone mode).
THEOREM NoPhantomAgents ==
  ASSUME ~CloseOverlaps, ~Stops, ~WriteFaults
  PROVE  Spec => []NoPhantom
<1>1. Init => PresenceInv
  BY DEF Init, Empty, PresenceInv, NoPhantom
<1>2. IInv /\ PresenceInv /\ [Next]_vars => PresenceInv'
  BY NextPresenceInv
<1>3. PresenceInv => NoPhantom
  BY DEF PresenceInv
<1> QED
  BY <1>1, <1>2, <1>3, Inductive, PTL DEF Spec
=============================================================================
