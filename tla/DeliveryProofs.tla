--------------------------- MODULE DeliveryProofs ---------------------------
(***************************************************************************)
(* Proofs about Delivery, for every set of users, sessions and connections, *)
(* any size of batches and any bound on the logs.                          *)
(***************************************************************************)
EXTENDS Delivery, TLAPS

(* The inductive invariant *)

\* A session that is not there has nobody, one that waits has no agent.
SessionsOK ==
  \A s \in Session :
    /\ status[s] = "none" => visitor[s] = None
    /\ status[s] \in {"none", "pending"} => agent[s] = None

\* A message of d in s goes to the other side; that of a namesake may go to the
\* visitor with the number of the agent.
Addressed(d, s, to) ==
  /\ to \in User
  /\ \/ to = OtherSide(d, s)
     \/ Namesake(d, s) /\ to = <<"visitor", agent[s]>>

\* What a handler holds of a message is for a party of its session, or addressed.
TaskOK(c, t) ==
  /\ t.pc = "page" => \A m \in t.page : Party(m[1], Of[c])
  /\ t.pc \in {"save", "ack", "push", "deliver", "system"} => t.sid \in Session
  /\ t.pc \in {"save", "ack", "push", "deliver"} /\ t.to # None => Addressed(c, t.sid, t.to)
  /\ t.pc = "deliver" => \A d \in t.ids : Of[d] = t.to

TasksOK == \A c \in Conn : TaskOK(c, task[c])

IInv == TypeOK /\ SessionsOK /\ TasksOK

\* Whoever is a party stays one.
Kept ==
  \A s \in Session :
    /\ visitor[s] # None => visitor'[s] = visitor[s]
    /\ agent[s] # None => agent'[s] = agent[s]

-----------------------------------------------------------------------------
LEMMA InitIInv == Init => IInv
<1> SUFFICES ASSUME Init PROVE IInv
  OBVIOUS
<1> USE ConnAssumption, UserAssumption DEF IInv
<1>1. TypeOK
  BY DEF Init, TypeOK, S!Init, M!Init, S!Status, Idle, Tasks
<1>2. SessionsOK /\ TasksOK
  BY DEF Init, S!Init, SessionsOK, TasksOK, TaskOK, Idle
<1> QED
  BY <1>1, <1>2

-----------------------------------------------------------------------------
(* What the services may do *)

\* The three columns, after any step.
SessionTypes ==
  /\ status  \in [Session -> S!Status]
  /\ visitor \in [Session -> Number \cup {None}]
  /\ agent   \in [Session -> Number \cup {None}]

LEMMA SessionsKeep ==
  ASSUME IInv, NEW s \in Session,
         \/ UNCHANGED sessions
         \/ \E v \in Number : S!Create(s, v)
         \/ \E a \in Number : S!Assign(s, a)
         \/ S!Close(s)
  PROVE  SessionTypes' /\ SessionsOK' /\ Kept
<1> USE UserAssumption DEF IInv, TypeOK, SessionTypes, S!Status
<1>1. CASE UNCHANGED sessions
  BY <1>1 DEF sessions, SessionsOK, Kept
<1>2. ASSUME NEW v \in Number, S!Create(s, v)
      PROVE  SessionTypes' /\ SessionsOK' /\ Kept
  BY <1>2 DEF S!Create, SessionsOK, Kept
<1>3. ASSUME NEW a \in Number, S!Assign(s, a)
      PROVE  SessionTypes' /\ SessionsOK' /\ Kept
  BY <1>3 DEF S!Assign, SessionsOK, Kept
<1>4. CASE S!Close(s)
  BY <1>4 DEF S!Close, SessionsOK, Kept
<1> QED
  BY <1>1, <1>2, <1>3, <1>4

\* A party and an address stay what they are.
LEMMA KeptUsers ==
  ASSUME Kept, NEW s \in Session, NEW u \in User
  PROVE  /\ Party(s, u) => Party(s, u)'
         /\ \A d \in Conn : Namesake(d, s) => Namesake(d, s)'
         /\ \A d \in Conn : Addressed(d, s, u) => Addressed(d, s, u)'
<1> USE ConnAssumption, UserAssumption DEF User
<1>1. Party(s, u) => Party(s, u)'
  BY DEF Party, VisitorOf, AgentOf, Kept
<1>2. ASSUME NEW d \in Conn, Namesake(d, s)
      PROVE  Namesake(d, s)' /\ agent'[s] = agent[s]
  BY <1>2 DEF Namesake, Kept
<1>3. ASSUME NEW d \in Conn, u = OtherSide(d, s)
      PROVE  u = OtherSide(d, s)'
  BY <1>3 DEF OtherSide, VisitorOf, AgentOf, Kept, Role
<1> QED
  BY <1>1, <1>2, <1>3 DEF Addressed

\* A log grows, or its cursor moves.
LogTypes == log \in [Session -> Seq(Message)] /\ cursor \in [Session -> Nat]

LEMMA MessagesKeep ==
  ASSUME IInv, NEW s \in Session,
         \/ UNCHANGED messages
         \/ \E m \in Message : M!Send(s, m)
         \/ \E k \in Nat : M!Read(s, k)
  PROVE  LogTypes'
<1> USE DEF IInv, TypeOK, LogTypes
<1>1. CASE UNCHANGED messages
  BY <1>1 DEF messages
<1>2. ASSUME NEW m \in Message, M!Send(s, m)
      PROVE  LogTypes'
  BY <1>2 DEF M!Send
<1>3. ASSUME NEW k \in Nat, M!Read(s, k)
      PROVE  LogTypes'
  BY <1>3 DEF M!Read
<1> QED
  BY <1>1, <1>2, <1>3

\* A handler goes on, with what is for a party.
LEMMA TasksKeep ==
  ASSUME IInv, Kept, NEW c \in Conn, NEW t \in Tasks,
         task' = [task EXCEPT ![c] = t], TaskOK(c, t)'
  PROVE  task' \in [Conn -> Tasks] /\ TasksOK'
<1> USE ConnAssumption, UserAssumption DEF IInv, TypeOK
<1>1. task' \in [Conn -> Tasks]
  OBVIOUS
<1>2. ASSUME NEW d \in Conn, d # c
      PROVE  TaskOK(d, task[d])'
  <2>1. task'[d] = task[d] /\ task[d] \in Tasks /\ Of[d] \in User
    BY <1>2
  <2>2. TaskOK(d, task[d])
    BY DEF TasksOK
  <2>3. \A m \in task[d].page : m[1] \in Session
    BY <2>1 DEF Tasks
  <2>4. task[d].to \in User \cup {None}
    BY <2>1 DEF Tasks
  <2>5. \A m \in task[d].page : Party(m[1], Of[d]) => Party(m[1], Of[d])'
    BY <2>1, <2>3, KeptUsers
  <2>6. ASSUME NEW s \in Session, NEW u, Addressed(d, s, u)
        PROVE  Addressed(d, s, u)'
    BY <2>6, KeptUsers DEF Addressed
  <2> QED
    BY <2>1, <2>2, <2>5, <2>6 DEF TaskOK
<1>3. task'[c] = t
  OBVIOUS
<1> QED
  BY <1>1, <1>2, <1>3 DEF TasksOK, TaskOK

-----------------------------------------------------------------------------
(* The steps of a connection that write nothing to a connection *)

LinkTypes == link \in [Conn -> {"new", "open", "closed"}] /\ served \subseteq Conn

\* What all of them have in common.
LEMMA QuietKeeps ==
  ASSUME IInv, NEW s \in Session,
         \/ UNCHANGED sessions
         \/ \E v \in Number : S!Create(s, v)
         \/ \E a \in Number : S!Assign(s, a)
         \/ S!Close(s),
         \/ UNCHANGED messages
         \/ \E m \in Message : M!Send(s, m)
         \/ \E k \in Nat : M!Read(s, k),
         NEW c \in Conn, NEW t \in Tasks,
         task' = [task EXCEPT ![c] = t], TaskOK(c, t)',
         LinkTypes', UNCHANGED got
  PROVE  IInv'
<1>1. SessionTypes' /\ SessionsOK' /\ Kept
  BY SessionsKeep
<1>2. LogTypes'
  BY MessagesKeep
<1>3. task' \in [Conn -> Tasks] /\ TasksOK'
  BY <1>1, TasksKeep
<1>4. got' \in [Conn -> SUBSET (Session \X Nat)]
  BY DEF IInv, TypeOK
<1> QED
  BY <1>1, <1>2, <1>3, <1>4
  DEF IInv, TypeOK, SessionTypes, LogTypes, LinkTypes

\* Nobody's part in a session changes.
LEMMA AsTheyWere ==
  ASSUME UNCHANGED sessions
  PROVE  /\ \A s, u : Party(s, u)' <=> Party(s, u)
         /\ \A d, s, to : Addressed(d, s, to)' <=> Addressed(d, s, to)
<1> QED
  BY DEF Party, VisitorOf, AgentOf, Addressed, OtherSide, Namesake, Role, sessions

\* The same for a step that leaves the services alone.
LEMMA LocalKeeps ==
  ASSUME IInv, UNCHANGED <<sessions, messages, got>>,
         NEW c \in Conn, NEW t \in Tasks,
         task' = [task EXCEPT ![c] = t], TaskOK(c, t), LinkTypes'
  PROVE  IInv'
<1> USE DEF IInv, TypeOK
<1>1. TaskOK(c, t)'
  BY AsTheyWere DEF TaskOK
<1>2. task' \in [Conn -> Tasks] /\ TasksOK'
  BY <1>1, TasksKeep DEF Kept, sessions
<1>3. SessionsOK'
  BY DEF SessionsOK, sessions
<1> QED
  BY <1>2, <1>3 DEF sessions, messages, LinkTypes

\* What a handler holds when it has ended.
LEMMA IdleOK == Idle \in Tasks /\ \A c \in Conn : TaskOK(c, Idle)
<1> QED
  BY DEF Idle, Tasks, TaskOK

\* The offline push asks for what is in the user's sessions.
LEMMA UnreadOfParty ==
  ASSUME IInv, NEW u \in User
  PROVE  Unread(u) \subseteq Session \X Nat /\ \A m \in Unread(u) : Party(m[1], u)
<1> QED
  BY MaxLenAssumption DEF Unread, Party

\* The steps before a message is sent, and the offline push up to its batches.
LEMMA BeginKeeps ==
  ASSUME IInv, NEW c \in Conn,
         BindUser(c) \/ Close(c) \/ SendFails(c) \/ QueryOffline(c)
  PROVE  IInv'
<1> USE ConnAssumption DEF LinkTypes
<1>0. TypeOK /\ task[c] \in Tasks /\ TaskOK(c, task[c]) /\ Of[c] \in User
  BY DEF IInv, TypeOK, TasksOK
<1>1. CASE BindUser(c)
  <2> DEFINE t == [task[c] EXCEPT !.pc = "query"]
  <2>1. t \in Tasks /\ TaskOK(c, t)
    BY <1>0 DEF Tasks, TaskOK
  <2>2. task' = [task EXCEPT ![c] = t] /\ LinkTypes'
    BY <1>0, <1>1 DEF BindUser, Goto, TypeOK
  <2> QED
    BY <1>1, <2>1, <2>2, LocalKeeps DEF BindUser
<1>2. CASE Close(c)
  <2>1. task' = [task EXCEPT ![c] = task[c]] /\ LinkTypes'
    BY <1>0, <1>2 DEF Close, TypeOK
  <2> QED
    BY <1>0, <1>2, <2>1, LocalKeeps DEF Close
<1>3. CASE SendFails(c)
  BY <1>0, <1>3, LocalKeeps, IdleOK DEF SendFails, Finish, TypeOK
<1>4. CASE QueryOffline(c)
  <2>1. LinkTypes'
    BY <1>0, <1>4 DEF QueryOffline, TypeOK
  <2>2. CASE Finish(c)
    BY <1>4, <2>1, <2>2, LocalKeeps, IdleOK DEF QueryOffline, Finish
  <2>3. CASE task' = [task EXCEPT ![c].pc = "page", ![c].page = Unread(Of[c])]
    <3> DEFINE t == [task[c] EXCEPT !.pc = "page", !.page = Unread(Of[c])]
    <3>1. t \in Tasks /\ TaskOK(c, t)
      BY <1>0, UnreadOfParty DEF Tasks, TaskOK
    <3>2. task' = [task EXCEPT ![c] = t]
      BY <1>0, <2>3 DEF TypeOK
    <3> QED
      BY <1>4, <2>1, <3>1, <3>2, LocalKeeps DEF QueryOffline
  <2> QED
    BY <1>4, <2>2, <2>3 DEF QueryOffline
<1> QED
  BY <1>1, <1>2, <1>3, <1>4

-----------------------------------------------------------------------------
(* The requests of a connection *)

\* What chat holds when it has found whom to push to.
LEMMA SaveKeeps ==
  ASSUME IInv, NEW c \in Conn, NEW s \in Session, NEW to,
         \/ UNCHANGED sessions
         \/ \E v \in Number : S!Create(s, v),
         to = None \/ Addressed(c, s, to)',
         Save(c, s, to), UNCHANGED <<messages, link, got, served>>
  PROVE  IInv'
<1>1. TypeOK /\ task[c] \in Tasks
  BY DEF IInv, TypeOK
<1>t. PICK t \in Tasks : t = [task[c] EXCEPT !.pc = "save", !.sid = s, !.to = to]
  BY <1>1 DEF Tasks, Addressed
<1>2. TaskOK(c, t)'
  BY <1>1, <1>t DEF Tasks, TaskOK
<1>3. task' = [task EXCEPT ![c] = t] /\ LinkTypes'
  BY <1>1, <1>t DEF Save, TypeOK, LinkTypes
<1> QED
  BY <1>2, <1>3, QuietKeeps

\* The handler announces an accept or a close.
LEMMA AnnounceKeeps ==
  ASSUME IInv, NEW c \in Conn, NEW s \in Session,
         \/ UNCHANGED sessions
         \/ \E a \in Number : S!Assign(s, a)
         \/ S!Close(s),
         Ready(c), Announce(c, s), UNCHANGED <<messages, link, got, served>>
  PROVE  IInv'
<1>1. TypeOK /\ task[c] \in Tasks /\ task[c].pc = "idle" /\ LinkTypes'
  BY DEF IInv, TypeOK, Ready, LinkTypes
<1>2. CASE task' = [task EXCEPT ![c].pc = "system", ![c].sid = s]
  <2>t. PICK t \in Tasks : t = [task[c] EXCEPT !.pc = "system", !.sid = s]
    BY <1>1 DEF Tasks
  <2>1. TaskOK(c, t)'
    BY <1>1, <2>t DEF Tasks, TaskOK
  <2>2. task' = [task EXCEPT ![c] = t]
    BY <1>1, <1>2, <2>t DEF TypeOK
  <2> QED
    BY <1>1, <2>1, <2>2, QuietKeeps
<1>3. CASE UNCHANGED task
  <2>t. PICK t \in Tasks : t = task[c]
    BY <1>1
  <2>1. task' = [task EXCEPT ![c] = t] /\ TaskOK(c, t)'
    BY <1>1, <1>3, <2>t DEF TypeOK, TaskOK
  <2> QED
    BY <1>1, <2>1, QuietKeeps
<1> QED
  BY <1>2, <1>3 DEF Announce

LEMMA RequestKeeps ==
  ASSUME IInv, NEW c \in Conn, NEW s \in Session, Request(c, s)
  PROVE  IInv'
<1> USE ConnAssumption, UserAssumption
<1>0. TypeOK /\ SessionsOK /\ task[c] \in Tasks /\ LinkTypes
  BY DEF IInv, TypeOK, LinkTypes
<1>u. Of[c] = <<Role(c), Self(c)>> /\ Self(c) \in Number
  BY DEF User, Role, Self
<1>1. CASE CreateOrGetSession(c, s)
  <2>1. UNCHANGED sessions \/ \E v \in Number : S!Create(s, v)
    BY <1>u, <1>1 DEF CreateOrGetSession
  <2>2. agent'[s] = agent[s] /\ Role(c) = "visitor"
    BY <1>1 DEF CreateOrGetSession, S!Create, sessions
  <2>3. CASE agent[s] = None
    BY <1>1, <2>1, <2>3, SaveKeeps DEF CreateOrGetSession
  <2>4. CASE agent[s] # None
    <3>1. PICK u \in User : u = AgentOf(s) /\ u = AgentOf(s)'
      BY <1>0, <2>2, <2>4 DEF TypeOK, AgentOf, User
    <3>2. Addressed(c, s, u)'
      BY <2>2, <3>1 DEF Addressed, OtherSide, Role
    <3> QED
      BY <1>1, <2>1, <2>4, <3>1, <3>2, SaveKeeps DEF CreateOrGetSession
  <2> QED
    BY <2>3, <2>4
<1>2. CASE GetPeerIDs(c, s)
  <2>1. CASE Save(c, s, None)
    BY <1>2, <2>1, SaveKeeps DEF GetPeerIDs
  <2>2. CASE visitor[s] # None /\ Save(c, s, <<"visitor", PeerOf(s, Self(c))>>)
    <3>1. PICK u \in User : u = <<"visitor", PeerOf(s, Self(c))>>
      BY <1>0, <2>2 DEF TypeOK, PeerOf, User
    <3>2. Role(c) = "agent" /\ UNCHANGED sessions
      BY <1>2 DEF GetPeerIDs
    <3>3. u = OtherSide(c, s) \/ (Namesake(c, s) /\ u = <<"visitor", agent[s]>>)
      BY <1>u, <3>1, <3>2 DEF PeerOf, OtherSide, VisitorOf, Namesake
    <3>4. Addressed(c, s, u)'
      BY <3>2, <3>3, AsTheyWere DEF Addressed
    <3>5. Save(c, s, u)
      BY <2>2, <3>1
    <3> QED
      BY <1>2, <3>2, <3>4, <3>5, SaveKeeps DEF GetPeerIDs
  <2> QED
    BY <1>2, <2>1, <2>2 DEF GetPeerIDs
<1>3. CASE AcceptSession(c, s)
  BY <1>u, <1>3, AnnounceKeeps DEF AcceptSession
<1>4. CASE CloseSession(c, s)
  BY <1>4, AnnounceKeeps DEF CloseSession
<1>5. ASSUME NEW k \in 1..MaxLen, MarkAsRead(c, s, k)
      PROVE  IInv'
  <2>1. k \in Nat /\ M!Read(s, k) /\ task[c].pc = "idle"
    BY <1>5, MaxLenAssumption DEF MarkAsRead, Ready
  <2>t. PICK t \in Tasks : t = task[c]
    BY <1>0
  <2>2. task' = [task EXCEPT ![c] = t] /\ TaskOK(c, t)' /\ LinkTypes'
    BY <1>0, <1>5, <2>1, <2>t DEF MarkAsRead, TypeOK, TaskOK, LinkTypes
  <2> QED
    BY <1>0, <1>5, <2>1, <2>2, QuietKeeps DEF MarkAsRead
<1> QED
  BY <1>1, <1>2, <1>3, <1>4, <1>5 DEF Request

-----------------------------------------------------------------------------
(* Sending *)

LEMMA SendKeeps ==
  ASSUME IInv, NEW c \in Conn,
         SendMessage(c) \/ SendACK(c) \/ SendToUser(c) \/ SendSystemMessage(c)
  PROVE  IInv'
<1> USE ConnAssumption, UserAssumption
<1>0. /\ TypeOK /\ task[c] \in Tasks /\ TaskOK(c, task[c]) /\ LinkTypes
      /\ TaskOK(c, Idle)' /\ Idle \in Tasks
  BY IdleOK DEF IInv, TypeOK, TasksOK, LinkTypes, TaskOK, Idle
<1>1. CASE SendMessage(c)
  <2> DEFINE s == task[c].sid
             m == [by |-> c, to |-> task[c].to]
  <2>1. s \in Session /\ m \in Message /\ LinkTypes' /\ UNCHANGED <<sessions, got>>
    BY <1>0, <1>1 DEF SendMessage, TaskOK, Message, Tasks, LinkTypes
  <2>2. CASE M!Send(s, m) /\ task' = [task EXCEPT ![c].pc = "ack", ![c].num = Len(log[s]) + 1]
    <3>1. Len(log[s]) + 1 \in Nat
      BY <1>0, <2>1 DEF TypeOK
    <3>4. [task[c] EXCEPT !.pc = "ack", !.num = Len(log[s]) + 1] \in Tasks
      BY <1>0, <3>1 DEF Tasks
    <3>t. PICK t \in Tasks : t = [task[c] EXCEPT !.pc = "ack", !.num = Len(log[s]) + 1]
      BY <3>4
    <3>2. TaskOK(c, t)'
      BY <1>0, <1>1, <2>1, <3>t, AsTheyWere DEF SendMessage, Tasks, TaskOK
    <3>3. task' = [task EXCEPT ![c] = t]
      BY <1>0, <2>2, <3>t DEF TypeOK
    <3> QED
      BY <2>1, <2>2, <3>2, <3>3, QuietKeeps
  <2>3. CASE Finish(c) /\ UNCHANGED messages
    BY <1>0, <2>1, <2>3, QuietKeeps DEF Finish
  <2> QED
    BY <1>1, <2>2, <2>3 DEF SendMessage
<1>2. CASE SendACK(c)
  <2>1. LinkTypes' /\ UNCHANGED <<sessions, messages, got>>
    BY <1>0, <1>2 DEF SendACK, LinkTypes
  <2>2. CASE Goto(c, "push")
    <3> DEFINE t == [task[c] EXCEPT !.pc = "push"]
    <3>1. t \in Tasks /\ TaskOK(c, t)
      BY <1>0, <1>2 DEF SendACK, Tasks, TaskOK
    <3>2. task' = [task EXCEPT ![c] = t]
      BY <1>0, <2>2 DEF Goto, TypeOK
    <3> QED
      BY <2>1, <3>1, <3>2, LocalKeeps
  <2>3. CASE Finish(c)
    BY <2>1, <2>3, IdleOK, LocalKeeps DEF Finish
  <2> QED
    BY <1>2, <2>2, <2>3 DEF SendACK
<1>3. CASE SendToUser(c)
  <2> DEFINE ids == Bound(task[c].to)
             t == [task[c] EXCEPT !.pc = "deliver", !.ids = ids]
  <2>1. LinkTypes' /\ UNCHANGED <<sessions, messages, got>>
    BY <1>0, <1>3 DEF SendToUser, LinkTypes
  <2>2. CASE task' = [task EXCEPT ![c].pc = "deliver", ![c].ids = ids]
    <3>1. t \in Tasks /\ TaskOK(c, t)
      BY <1>0, <1>3 DEF SendToUser, Bound, Tasks, TaskOK
    <3>2. task' = [task EXCEPT ![c] = t]
      BY <1>0, <2>2 DEF TypeOK
    <3> QED
      BY <2>1, <3>1, <3>2, LocalKeeps
  <2>3. CASE Finish(c)
    BY <2>1, <2>3, IdleOK, LocalKeeps DEF Finish
  <2> QED
    BY <1>3, <2>2, <2>3 DEF SendToUser
<1>4. CASE SendSystemMessage(c)
  <2>1. task[c].sid \in Session /\ [by |-> None, to |-> None] \in Message
    BY <1>0, <1>4 DEF SendSystemMessage, TaskOK, Message
  <2>2. LinkTypes' /\ UNCHANGED <<sessions, got>> /\ task' = [task EXCEPT ![c] = Idle]
    BY <1>0, <1>4 DEF SendSystemMessage, LinkTypes, Finish
  <2>3. \/ M!Send(task[c].sid, [by |-> None, to |-> None])
        \/ UNCHANGED messages
    BY <1>4 DEF SendSystemMessage
  <2> QED
    BY <1>0, <2>1, <2>2, <2>3, QuietKeeps
<1> QED
  BY <1>1, <1>2, <1>3, <1>4

-----------------------------------------------------------------------------
(* The steps that write to a connection *)

LEMMA PushPageKeeps ==
  ASSUME IInv, NEW c \in Conn, PushPage(c)
  PROVE  IInv'
<1> USE ConnAssumption
<1>0. /\ TypeOK /\ task[c] \in Tasks /\ TaskOK(c, task[c]) /\ task[c].pc = "page"
      /\ UNCHANGED <<sessions, messages, link>>
  BY DEF IInv, TypeOK, TasksOK, PushPage
<1>1. PICK batch \in SUBSET task[c].page :
        /\ got' = [got EXCEPT ![c] = @ \cup batch]
        /\ \/ Finish(c) /\ served' = served \cup {c}
           \/ /\ task' = [task EXCEPT ![c].page = @ \ batch]
              /\ UNCHANGED served
  BY DEF PushPage
<1>2. batch \subseteq Session \X Nat
  BY <1>0 DEF Tasks
<1>3. got' \in [Conn -> SUBSET (Session \X Nat)]
  BY <1>0, <1>1, <1>2 DEF TypeOK
<1>4. task' \in [Conn -> Tasks] /\ TasksOK'
  <2>1. Kept
    BY <1>0 DEF Kept, sessions
  <2>2. CASE Finish(c)
    BY <2>1, <2>2, IdleOK, TasksKeep DEF Finish, TaskOK, Idle
  <2>3. CASE task' = [task EXCEPT ![c].page = @ \ batch]
    <3>t. PICK t \in Tasks : t = [task[c] EXCEPT !.page = @ \ batch]
      BY <1>0 DEF Tasks
    <3>1. TaskOK(c, t)'
      BY <1>0, <3>t, AsTheyWere DEF TaskOK
    <3>2. task' = [task EXCEPT ![c] = t]
      BY <1>0, <2>3, <3>t DEF TypeOK
    <3> QED
      BY <2>1, <3>1, <3>2, TasksKeep
  <2> QED
    BY <1>1, <2>2, <2>3
<1> QED
  BY <1>0, <1>1, <1>3, <1>4 DEF IInv, TypeOK, SessionsOK, sessions, messages

LEMMA DeliverKeeps ==
  ASSUME IInv, NEW c \in Conn, NEW d \in Conn, Deliver(c, d)
  PROVE  IInv'
<1> USE ConnAssumption, UserAssumption
<1>0. /\ TypeOK /\ task[c] \in Tasks /\ TaskOK(c, task[c]) /\ task[c].pc = "deliver"
      /\ d \in task[c].ids
      /\ UNCHANGED <<sessions, messages, link, served>>
  BY DEF IInv, TypeOK, TasksOK, Deliver
<1>1. task[c].sid \in Session /\ task[c].num \in Nat
  BY <1>0 DEF TaskOK, Tasks
<1>2. got' \in [Conn -> SUBSET (Session \X Nat)]
  <2>1. CASE got' = [got EXCEPT ![d] = @ \cup {<<task[c].sid, task[c].num>>}]
    BY <1>0, <1>1, <2>1 DEF TypeOK
  <2>2. CASE UNCHANGED got
    BY <1>0, <2>2 DEF TypeOK
  <2> QED
    BY <2>1, <2>2 DEF Deliver
<1>3. task' \in [Conn -> Tasks] /\ TasksOK'
  <2>1. Kept
    BY <1>0 DEF Kept, sessions
  <2>2. CASE Finish(c)
    BY <2>1, <2>2, IdleOK, TasksKeep DEF Finish, TaskOK, Idle
  <2>3. CASE task' = [task EXCEPT ![c].ids = @ \ {d}]
    <3>t. PICK t \in Tasks : t = [task[c] EXCEPT !.ids = @ \ {d}]
      BY <1>0 DEF Tasks
    <3>1. TaskOK(c, t)'
      BY <1>0, <3>t, AsTheyWere DEF TaskOK
    <3>2. task' = [task EXCEPT ![c] = t]
      BY <1>0, <2>3, <3>t DEF TypeOK
    <3> QED
      BY <2>1, <3>1, <3>2, TasksKeep
  <2> QED
    BY <2>2, <2>3 DEF Deliver
<1> QED
  BY <1>0, <1>2, <1>3 DEF IInv, TypeOK, SessionsOK, sessions, messages

-----------------------------------------------------------------------------
LEMMA StepIInv == IInv /\ [Next]_vars => IInv'
<1> SUFFICES ASSUME IInv, [Next]_vars PROVE IInv'
  OBVIOUS
<1>1. CASE UNCHANGED vars
  <2>1. TypeOK' /\ SessionsOK'
    BY <1>1 DEF IInv, TypeOK, SessionsOK, vars, sessions, messages
  <2>2. TasksOK'
    BY <1>1, AsTheyWere DEF IInv, TasksOK, TaskOK, vars
  <2> QED
    BY <2>1, <2>2 DEF IInv
<1> QED
  BY <1>1, BeginKeeps, RequestKeeps, SendKeeps, PushPageKeeps, DeliverKeeps
  DEF Next, Continue

\* Every state that Delivery reaches satisfies the invariant.
THEOREM Inductive == Spec => []IInv
<1> QED
  BY InitIInv, StepIInv, PTL DEF Spec

\* Every state of the handlers is well typed.
THEOREM TypeCorrect == Spec => []TypeOK
<1> QED
  BY Inductive, PTL DEF IInv

-----------------------------------------------------------------------------
(* The second inductive invariant, for NothingLost *)

\* A connection that is not bound yet has done nothing; the offline push is over
\* only once.
LinksOK ==
  \A c \in Conn :
    /\ link[c] = "new" => task[c].pc = "idle" /\ c \notin served
    /\ task[c].pc \in {"query", "page"} => c \notin served

\* A message is addressed, or for nobody.
LogOK ==
  \A s \in Session :
    /\ Len(log[s]) <= MaxLen
    /\ \A i \in 1..Len(log[s]) : log[s][i].to # None =>
         /\ Addressed(log[s][i].by, s, log[s][i].to)
         /\ log[s][i].by \in Conn
         /\ link[log[s][i].by] # "new"

\* What a handler is about to push is in the log as it saved it.
SavedOK ==
  \A c \in Conn : task[c].pc \in {"ack", "push", "deliver"} =>
    /\ task[c].num \in 1..Len(log[task[c].sid])
    /\ log[task[c].sid][task[c].num] = [by |-> c, to |-> task[c].to]

\* Written to c, under way to it, or still in its offline push.
Covered(c, s, i) ==
  \/ <<s, i>> \in got[c]
  \/ UnderWay(c, s, i)
  \/ task[c].pc = "page" /\ <<s, i>> \in task[c].page

\* From its query for offline messages on, a connection misses nothing.
CoveredOK ==
  \A c \in Conn : link[c] = "open" /\ (c \in served \/ task[c].pc = "page") =>
    \A s \in Session : \A i \in cursor[s] + 1 .. Len(log[s]) :
      Due(c, s, i) /\ status[s] # "closed" => Covered(c, s, i)

LInv == LinksOK /\ LogOK /\ SavedOK /\ CoveredOK

-----------------------------------------------------------------------------
LEMMA InitLInv == Init => LInv
<1> SUFFICES ASSUME Init PROVE LInv
  OBVIOUS
<1>1. LinksOK /\ SavedOK /\ CoveredOK
  BY DEF Init, LinksOK, SavedOK, CoveredOK, Idle
<1>2. \A s \in Session : log[s] = <<>> /\ Len(log[s]) = 0
  BY DEF Init, M!Init
<1>3. LogOK
  BY <1>2, MaxLenAssumption DEF LogOK
<1> QED
  BY <1>1, <1>3 DEF LInv

\* Parties stay, whatever the step.
LEMMA StepKept == IInv /\ Next => Kept
<1> SUFFICES ASSUME IInv, Next PROVE Kept
  OBVIOUS
<1>1. CASE UNCHANGED sessions
  BY <1>1 DEF Kept, sessions
<1>2. ASSUME NEW c \in Conn, NEW s \in Session,
             CreateOrGetSession(c, s) \/ AcceptSession(c, s) \/ CloseSession(c, s)
      PROVE  Kept
  <2>1. \/ UNCHANGED sessions
        \/ \E v \in Number : S!Create(s, v)
        \/ \E a \in Number : S!Assign(s, a)
        \/ S!Close(s)
    BY <1>2, ConnAssumption DEF CreateOrGetSession, AcceptSession, CloseSession, User, Self
  <2> QED
    BY <2>1, SessionsKeep
<1> QED
  BY <1>1, <1>2
  DEF Next, Continue, Request, BindUser, Close, SendFails, QueryOffline, PushPage,
      GetPeerIDs, SendMessage, SendACK, SendToUser, SendSystemMessage, Deliver,
      MarkAsRead

\* What was in the logs stays where it is.
LogGrows ==
  \A s \in Session :
    /\ Len(log[s]) \in Nat /\ Len(log'[s]) \in Nat /\ Len(log[s]) <= Len(log'[s])
    /\ \A i \in 1..Len(log[s]) : log'[s][i] = log[s][i]

LEMMA SendGrows ==
  ASSUME IInv, NEW s \in Session, NEW m \in Message, M!Send(s, m)
  PROVE  /\ LogGrows
         /\ Len(log'[s]) = Len(log[s]) + 1 /\ log'[s][Len(log[s]) + 1] = m
         /\ \A r \in Session \ {s} : log'[r] = log[r]
<1>1. log \in [Session -> Seq(Message)] /\ log' = [log EXCEPT ![s] = Append(log[s], m)]
  BY DEF IInv, TypeOK, M!Send
<1>2. /\ Len(Append(log[s], m)) = Len(log[s]) + 1
      /\ \A i \in 1..Len(log[s]) : Append(log[s], m)[i] = log[s][i]
      /\ Append(log[s], m)[Len(log[s]) + 1] = m
  BY <1>1
<1>3. \A r \in Session : Len(log[r]) \in Nat
  BY <1>1
<1> QED
  BY <1>1, <1>2, <1>3 DEF LogGrows

\* What the first three parts need of a step of a.
LEMMA SideKeeps ==
  ASSUME IInv, LinksOK, LogOK, SavedOK, Kept, LogGrows, NEW a \in Conn, NEW t \in Tasks,
         task' = [task EXCEPT ![a] = t],
         \A d \in Conn \ {a} : link'[d] = link[d],
         link'[a] # "new",
         served' \subseteq served \cup {a},
         t.pc \in {"query", "page"} => a \notin served',
         t.pc \in {"ack", "push", "deliver"} =>
           /\ t.sid \in Session
           /\ t.num \in 1..Len(log'[t.sid])
           /\ log'[t.sid][t.num] = [by |-> a, to |-> t.to],
         \A s \in Session :
           /\ Len(log'[s]) <= MaxLen
           /\ \A i \in Len(log[s]) + 1 .. Len(log'[s]) : log'[s][i].to # None =>
                log'[s][i].by = a /\ Addressed(a, s, log[s][i].to)'
  PROVE  LinksOK' /\ LogOK' /\ SavedOK'
<1> USE DEF IInv, TypeOK
<1>1. task'[a] = t /\ \A d \in Conn \ {a} : task'[d] = task[d]
  OBVIOUS
<1>2. LinksOK'
  BY <1>1 DEF LinksOK
<1>3. SavedOK'
  <2> SUFFICES ASSUME NEW d \in Conn, task'[d].pc \in {"ack", "push", "deliver"}
               PROVE  /\ task'[d].num \in 1..Len(log'[task'[d].sid])
                      /\ log'[task'[d].sid][task'[d].num] = [by |-> d, to |-> task'[d].to]
    BY DEF SavedOK
  <2>1. CASE d = a
    BY <1>1, <2>1
  <2>2. CASE d # a
    <3>1. task'[d] = task[d] /\ task[d].sid \in Session
      BY <1>1, <2>2 DEF TasksOK, TaskOK
    <3>2. /\ task[d].num \in 1..Len(log[task[d].sid])
          /\ log[task[d].sid][task[d].num] = [by |-> d, to |-> task[d].to]
      BY <3>1 DEF SavedOK
    <3> QED
      BY <3>1, <3>2 DEF LogGrows
  <2> QED
    BY <2>1, <2>2
<1>4. LogOK'
  <2> SUFFICES ASSUME NEW s \in Session, NEW i \in 1..Len(log'[s]), log'[s][i].to # None
               PROVE  /\ Addressed(log[s][i].by, s, log[s][i].to)'
                      /\ log'[s][i].by \in Conn /\ link'[log'[s][i].by] # "new"
    BY DEF LogOK
  <2>1. CASE i \in 1..Len(log[s])
    <3>1. log'[s][i] = log[s][i] /\ log[s][i] \in Message
      BY <2>1 DEF LogGrows
    <3>2. /\ Addressed(log[s][i].by, s, log[s][i].to) /\ log[s][i].to \in User
          /\ log[s][i].by \in Conn /\ link[log[s][i].by] # "new"
      BY <2>1, <3>1 DEF LogOK, Message
    <3>3. Addressed(log[s][i].by, s, log[s][i].to)'
      <4> DEFINE by == log[s][i].by
                 to == log[s][i].to
      <4>1. Addressed(by, s, to) /\ to \in User /\ by \in Conn
        BY <3>2
      <4>2. log'[s][i].by = by /\ log'[s][i].to = to
        BY <3>1
      <4> HIDE DEF by, to
      <4>3. PICK d \in Conn, u \in User : d = by /\ u = to /\ Addressed(d, s, u)
        BY <4>1
      <4>4. Addressed(d, s, u)'
        BY <4>3, KeptUsers
      <4> QED
        BY <4>2, <4>3, <4>4 DEF by, to
    <3> QED
      BY <3>1, <3>2, <3>3
  <2>2. CASE i \notin 1..Len(log[s])
    BY <2>2 DEF LogGrows
  <2> QED
    BY <2>1, <2>2
<1> QED
  BY <1>2, <1>3, <1>4

\* The same when the logs stay as they are.
LEMMA QuietSide ==
  ASSUME IInv, LInv, Kept, log' = log, NEW a \in Conn, NEW t \in Tasks,
         task' = [task EXCEPT ![a] = t],
         \A d \in Conn \ {a} : link'[d] = link[d],
         link'[a] # "new",
         served' \subseteq served \cup {a},
         t.pc \in {"query", "page"} => a \notin served',
         t.pc \in {"ack", "push", "deliver"} =>
           /\ task[a].pc \in {"ack", "push", "deliver"}
           /\ t.sid = task[a].sid /\ t.num = task[a].num /\ t.to = task[a].to
  PROVE  LinksOK' /\ LogOK' /\ SavedOK'
<1>1. LogGrows
  BY DEF IInv, TypeOK, LogGrows
<1>2. \A s \in Session :
        /\ Len(log'[s]) <= MaxLen
        /\ \A i \in Len(log[s]) + 1 .. Len(log'[s]) : FALSE
  BY <1>1 DEF LInv, LogOK, LogGrows
<1>3. t.pc \in {"ack", "push", "deliver"} =>
        /\ t.sid \in Session
        /\ t.num \in 1..Len(log'[t.sid])
        /\ log'[t.sid][t.num] = [by |-> a, to |-> t.to]
  BY DEF LInv, SavedOK, IInv, TasksOK, TaskOK
<1> QED
  BY <1>1, <1>2, <1>3, SideKeeps DEF LInv

-----------------------------------------------------------------------------
(* What is covered stays so *)

\* d has the message s, i and will offer it to c.
Carries(d, c, s, i) ==
  /\ task[d].sid = s /\ task[d].num = i
  /\ \/ task[d].pc \in {"ack", "push"}
     \/ task[d].pc = "deliver" /\ c \in task[d].ids

\* Only the handler of a has to answer for what a's step does.
LEMMA CoverFrame ==
  ASSUME NEW a \in Conn, NEW c \in Conn, NEW s \in Session, NEW i \in Nat,
         \A d \in Conn \ {a} : task'[d] = task[d],
         got[c] \subseteq got'[c],
         Covered(c, s, i),
         Carries(a, c, s, i) => Covered(c, s, i)',
         c = a /\ task[a].pc = "page" /\ <<s, i>> \in task[a].page => Covered(c, s, i)'
  PROVE  Covered(c, s, i)'
<1>1. CASE <<s, i>> \in got[c]
  BY <1>1 DEF Covered
<1>2. CASE UnderWay(c, s, i)
  <2>1. PICK d \in Conn : Carries(d, c, s, i)
    BY <1>2 DEF UnderWay, Carries
  <2>2. CASE d # a
    BY <2>1, <2>2 DEF Carries, Covered, UnderWay
  <2> QED
    BY <2>1, <2>2
<1>3. CASE task[c].pc = "page" /\ <<s, i>> \in task[c].page
  BY <1>3 DEF Covered
<1> QED
  BY <1>1, <1>2, <1>3 DEF Covered

\* A message that is due goes to where it is meant, and was due before.
LEMMA DueMeans ==
  ASSUME IInv, LogOK, NEW c \in Conn, NEW s \in Session, NEW i \in 1..Len(log[s]),
         Due(c, s, i)
  PROVE  /\ log[s][i].to = Of[c] /\ log[s][i].by \in Conn
         /\ link[log[s][i].by] # "new" /\ Party(s, Of[c])
<1> QED
  BY DEF Due, LogOK, Addressed, OtherSide, Party

LEMMA DueBefore ==
  ASSUME IInv, LogOK, Kept, NEW c \in Conn, NEW s \in Session, NEW i \in 1..Len(log[s]),
         log'[s][i] = log[s][i],
         \A d \in Conn : link'[d] = "open" => link[d] \in {"new", "open"},
         Due(c, s, i)'
  PROVE  Due(c, s, i)
<1>1. PICK m \in Message : m = log[s][i]
  BY DEF IInv, TypeOK
<1>2. /\ m.to # None /\ Of[c] = OtherSide(m.by, s)'
      /\ ~Namesake(m.by, s)' /\ link'[m.by] = "open"
  BY <1>1 DEF Due
<1>3. m.by \in Conn /\ Addressed(m.by, s, m.to) /\ link[m.by] # "new" /\ m.to \in User
  BY <1>1, <1>2 DEF LogOK, Addressed
<1>4. ~Namesake(m.by, s) /\ link[m.by] = "open"
  BY <1>2, <1>3, KeptUsers
<1>5. Addressed(m.by, s, m.to)'
  BY <1>3, KeptUsers
<1>6. m.to = OtherSide(m.by, s) /\ m.to = OtherSide(m.by, s)'
  BY <1>2, <1>3, <1>4, <1>5 DEF Addressed
<1> QED
  BY <1>1, <1>2, <1>4, <1>6 DEF Due

\* What the last part needs of a step of a, which writes no new message for
\* anybody.
LEMMA CoverKeeps ==
  ASSUME IInv, LInv, Kept, NEW a \in Conn, UNCHANGED log,
         \A s \in Session : cursor'[s] \in Nat /\ cursor[s] <= cursor'[s],
         \A s \in Session : status[s] = "closed" => status'[s] = "closed",
         \A d \in Conn \ {a} : task'[d] = task[d] /\ link'[d] = link[d],
         link'[a] = "open" => link[a] \in {"new", "open"},
         \A c \in Conn : got[c] \subseteq got'[c],
         \* a is not yet to be told, or was already, or everything is covered now.
         link'[a] = "open" /\ (a \in served' \/ task'[a].pc = "page") =>
           \/ link[a] = "open" /\ (a \in served \/ task[a].pc = "page")
           \/ \A s \in Session : \A i \in cursor[s] + 1 .. Len(log[s]) :
                Due(a, s, i) /\ status[s] # "closed" => Covered(a, s, i)',
         served' \subseteq served \cup {a},
         \* a's handler passes on what it has.
         \A c \in Conn, s \in Session, i \in Nat :
           link'[c] = "open" /\ link'[a] = "open" /\ task[a].to = Of[c] /\ Carries(a, c, s, i)
             => Covered(c, s, i)',
         \A s \in Session, i \in Nat :
           link'[a] = "open" /\ task[a].pc = "page" /\ <<s, i>> \in task[a].page
             => Covered(a, s, i)'
  PROVE  CoveredOK'
<1> SUFFICES ASSUME NEW c \in Conn, link'[c] = "open", c \in served' \/ task'[c].pc = "page",
                    NEW s \in Session, NEW i \in cursor'[s] + 1 .. Len(log'[s]),
                    Due(c, s, i)', status'[s] # "closed"
             PROVE  Covered(c, s, i)'
  BY DEF CoveredOK
<1>1. /\ cursor[s] \in Nat /\ Len(log[s]) \in Nat /\ i \in Nat
      /\ i \in cursor[s] + 1 .. Len(log[s]) /\ i \in 1..Len(log[s])
      /\ Of[c] \in User /\ Of[c] # None
  BY ConnAssumption, UserAssumption DEF IInv, TypeOK
<1>2. status[s] # "closed" /\ \A d \in Conn : link'[d] = "open" => link[d] \in {"new", "open"}
  OBVIOUS
<1>d. Due(c, s, i)
  BY <1>1, <1>2, DueBefore DEF LInv
<1>3. log[s][i].to = Of[c] /\ link'[log[s][i].by] = "open"
  BY <1>1, <1>d, DueMeans DEF LInv, Due
<1>4. SUFFICES ASSUME link[c] = "open", c \in served \/ task[c].pc = "page"
               PROVE  Covered(c, s, i)'
  BY <1>1, <1>2, <1>d
<1>5. Covered(c, s, i)
  BY <1>1, <1>2, <1>4, <1>d DEF LInv, CoveredOK
<1>6. ASSUME Carries(a, c, s, i)
      PROVE  Covered(c, s, i)'
  <2>1. log[s][i] = [by |-> a, to |-> task[a].to]
    BY <1>6 DEF Carries, LInv, SavedOK
  <2> QED
    BY <1>1, <1>3, <1>6, <2>1
<1> QED
  BY <1>1, <1>5, <1>6, CoverFrame

-----------------------------------------------------------------------------
(* The steps *)

LEMMA BeginCovers ==
  ASSUME IInv, LInv, Kept, NEW c \in Conn,
         BindUser(c) \/ Close(c) \/ SendFails(c)
  PROVE  LInv'
<1> USE DEF IInv, TypeOK
<1>0. task[c] \in Tasks /\ log' = log
  BY DEF BindUser, Close, SendFails, messages
<1>1. CASE BindUser(c)
  <2>0. task[c].pc = "idle" /\ c \notin served
    BY <1>1 DEF BindUser, LInv, LinksOK
  <2>t. PICK t \in Tasks : t = [task[c] EXCEPT !.pc = "query"]
    BY <1>0 DEF Tasks
  <2>1. task' = [task EXCEPT ![c] = t]
    BY <1>0, <1>1, <2>t DEF BindUser, Goto
  <2>2. /\ link'[c] = "open" /\ task'[c] = t /\ t.pc = "query" /\ served' = served
        /\ \A d \in Conn \ {c} : link'[d] = link[d] /\ task'[d] = task[d]
        /\ UNCHANGED <<status, cursor, got>>
    BY <1>0, <1>1, <2>1, <2>t DEF BindUser, sessions, messages, Tasks
  <2>3. LinksOK' /\ LogOK' /\ SavedOK'
    BY <1>0, <2>0, <2>1, <2>2, QuietSide
  <2>4. CoveredOK'
    <3>1. \A d \in Conn, r \in Session, i \in Nat : ~Carries(c, d, r, i)
      BY <2>0 DEF Carries
    <3>2. \A r \in Session : cursor'[r] \in Nat /\ cursor[r] <= cursor'[r]
      BY <2>2
    <3>3. ~(c \in served' \/ task'[c].pc = "page")
      BY <2>0, <2>2
    <3>4. link[c] = "new"
      BY <1>1 DEF BindUser
    <3> QED
      BY <1>0, <2>0, <2>2, <3>1, <3>2, <3>3, <3>4, CoverKeeps
  <2> QED
    BY <2>3, <2>4 DEF LInv
<1>2. CASE Close(c)
  <2>1. task' = [task EXCEPT ![c] = task[c]]
    BY <1>0, <1>2 DEF Close
  <2>t. PICK t \in Tasks : t = task[c]
    BY <1>0
  <2>2. LinksOK' /\ LogOK' /\ SavedOK'
    BY <1>0, <1>2, <2>1, <2>t, QuietSide DEF Close, LInv, LinksOK
  <2>3. CoveredOK'
    BY <1>0, <1>2, CoverKeeps DEF Close, sessions, messages
  <2> QED
    BY <2>2, <2>3 DEF LInv
<1>3. CASE SendFails(c)
  <2>1. task' = [task EXCEPT ![c] = Idle]
    BY <1>3 DEF SendFails, Finish
  <2>2. LinksOK' /\ LogOK' /\ SavedOK'
    BY <1>0, <1>3, <2>1, QuietSide, IdleOK DEF SendFails, Idle
  <2>3. CoveredOK'
    <3>1. /\ \A d \in Conn \ {c} : task'[d] = task[d] /\ link'[d] = link[d]
          /\ link'[c] = "closed" /\ served' = served /\ got' = got
          /\ \A s \in Session : cursor'[s] \in Nat /\ cursor[s] <= cursor'[s]
          /\ status' = status
      BY <1>0, <1>3, <2>1 DEF SendFails, sessions, messages
    <3> QED
      BY <1>0, <3>1, CoverKeeps
  <2> QED
    BY <2>2, <2>3 DEF LInv
<1> QED
  BY <1>1, <1>2, <1>3

\* A request finds its connection idle, so its handler carries nothing yet.
LEMMA RequestCovers ==
  ASSUME IInv, IInv', LInv, Kept, NEW c \in Conn, NEW s \in Session, Request(c, s)
  PROVE  LInv'
<1> USE DEF IInv, TypeOK
<1>1. /\ task[c] \in Tasks /\ task[c].pc = "idle" /\ link[c] = "open"
      /\ log' = log /\ UNCHANGED <<link, got, served>>
  BY DEF Request, CreateOrGetSession, GetPeerIDs, AcceptSession, CloseSession,
         MarkAsRead, Ready, messages, M!Read
<1>2. /\ \A d \in Conn \ {c} : task'[d] = task[d]
      /\ task'[c] \in Tasks /\ task'[c].pc \in {"idle", "save", "system"}
      /\ task' = [task EXCEPT ![c] = task'[c]]
  <2>1. ASSUME NEW to, Save(c, s, to)
        PROVE  /\ \A d \in Conn \ {c} : task'[d] = task[d]
               /\ task'[c].pc = "save"
    BY <1>1, <2>1 DEF Save, Tasks
  <2>2. ASSUME Announce(c, s)
        PROVE  /\ \A d \in Conn \ {c} : task'[d] = task[d]
               /\ task'[c].pc \in {"idle", "system"}
    BY <1>1, <2>2 DEF Announce, Tasks
  <2>3. /\ \A d \in Conn \ {c} : task'[d] = task[d]
        /\ task'[c].pc \in {"idle", "save", "system"}
    BY <1>1, <2>1, <2>2
    DEF Request, CreateOrGetSession, GetPeerIDs, AcceptSession, CloseSession, MarkAsRead
  <2>4. task' \in [Conn -> Tasks]
    OBVIOUS
  <2> QED
    BY <2>3, <2>4
<1>3. \A r \in Session : cursor'[r] \in Nat /\ cursor[r] <= cursor'[r]
  <2>1. CASE UNCHANGED messages
    BY <2>1 DEF messages
  <2>2. ASSUME NEW k \in 1..MaxLen, M!Read(s, k)
        PROVE  \A r \in Session : cursor'[r] \in Nat /\ cursor[r] <= cursor'[r]
    BY <2>2, MaxLenAssumption DEF M!Read
  <2> QED
    BY <2>1, <2>2
    DEF Request, CreateOrGetSession, GetPeerIDs, AcceptSession, CloseSession, MarkAsRead
<1>4. \A r \in Session : status[r] = "closed" => status'[r] = "closed"
  BY DEF Request, CreateOrGetSession, GetPeerIDs, AcceptSession, CloseSession,
         MarkAsRead, S!Create, S!Assign, S!Close, sessions
<1>t. PICK t \in Tasks : t = task'[c]
  BY <1>2
<1>5. LinksOK' /\ LogOK' /\ SavedOK'
  BY <1>1, <1>2, <1>t, QuietSide
<1>6. CoveredOK'
  BY <1>1, <1>2, <1>3, <1>4, CoverKeeps DEF Carries
<1> QED
  BY <1>5, <1>6 DEF LInv

\* The offline push: what is due when it begins is in what it has asked for.
LEMMA OfflineCovers ==
  ASSUME IInv, LInv, Kept, NEW c \in Conn, QueryOffline(c) \/ PushPage(c)
  PROVE  LInv'
<1> USE ConnAssumption, UserAssumption DEF IInv, TypeOK
<1>0. /\ task[c] \in Tasks /\ link[c] = "open" /\ c \notin served
      /\ task[c].pc \in {"query", "page"}
      /\ UNCHANGED <<sessions, messages, link>>
      /\ log' = log /\ link' = link
  BY DEF QueryOffline, PushPage, LInv, LinksOK, messages
<1>1. /\ \A s \in Session : cursor'[s] \in Nat /\ cursor[s] <= cursor'[s]
      /\ \A s \in Session : status[s] = "closed" => status'[s] = "closed"
      /\ \A d \in Conn, s \in Session, i \in Nat : ~Carries(c, d, s, i)
  BY <1>0 DEF sessions, messages, Carries
<1>2. ASSUME NEW s \in Session, NEW i \in cursor[s] + 1 .. Len(log[s]),
             Due(c, s, i), status[s] # "closed"
      PROVE  <<s, i>> \in Unread(Of[c])
  <2>1. cursor[s] \in Nat /\ Len(log[s]) \in Nat /\ Len(log[s]) <= MaxLen
    BY DEF LInv, LogOK
  <2>2. i \in 1..Len(log[s]) /\ i \in 1..MaxLen
    BY <2>1, MaxLenAssumption
  <2>3. Party(s, Of[c])
    BY <1>2, <2>2, DueMeans DEF LInv
  <2> QED
    BY <1>2, <2>2, <2>3 DEF Unread, Party
<1>3. CASE QueryOffline(c)
  <2>0. UNCHANGED got
    BY <1>3 DEF QueryOffline
  <2>1. CASE task' = [task EXCEPT ![c].pc = "page", ![c].page = Unread(Of[c])]
             /\ UNCHANGED served
    <3>t. PICK t \in Tasks : t = [task[c] EXCEPT !.pc = "page", !.page = Unread(Of[c])]
      BY <1>0, UnreadOfParty DEF Tasks
    <3>1. /\ task' = [task EXCEPT ![c] = t] /\ task'[c] = t
          /\ t.pc = "page" /\ t.page = Unread(Of[c])
          /\ \A d \in Conn \ {c} : task'[d] = task[d]
      BY <1>0, <2>1, <3>t DEF Tasks
    <3>2. LinksOK' /\ LogOK' /\ SavedOK'
      BY <1>0, <2>1, <3>1, QuietSide
    <3>3. \A s \in Session : \A i \in cursor[s] + 1 .. Len(log[s]) :
            Due(c, s, i) /\ status[s] # "closed" => Covered(c, s, i)'
      BY <1>2, <3>1 DEF Covered
    <3>4. CoveredOK'
      BY <1>0, <1>1, <1>3, <2>0, <2>1, <3>1, <3>3, CoverKeeps DEF QueryOffline
    <3> QED
      BY <3>2, <3>4 DEF LInv
  <2>2. CASE Finish(c) /\ served' \subseteq served \cup {c}
             /\ (c \in served' => Unread(Of[c]) = {})
    <3>1. /\ task' = [task EXCEPT ![c] = Idle] /\ task'[c].pc = "idle"
          /\ \A d \in Conn \ {c} : task'[d] = task[d]
      BY <2>2 DEF Finish, Idle
    <3>2. LinksOK' /\ LogOK' /\ SavedOK'
      BY <1>0, <2>2, <3>1, QuietSide, IdleOK DEF Idle
    <3>3. c \in served' => \A s \in Session : \A i \in cursor[s] + 1 .. Len(log[s]) :
            Due(c, s, i) /\ status[s] # "closed" => Covered(c, s, i)'
      BY <1>2, <2>2
    <3>4. CoveredOK'
      BY <1>0, <1>1, <1>3, <2>0, <2>2, <3>1, <3>3, CoverKeeps DEF QueryOffline
    <3> QED
      BY <3>2, <3>4 DEF LInv
  <2> QED
    BY <1>0, <1>3, <2>1, <2>2 DEF QueryOffline
<1>4. CASE PushPage(c)
  <2>1. PICK batch \in SUBSET task[c].page :
          /\ got' = [got EXCEPT ![c] = @ \cup batch]
          /\ \/ batch = task[c].page /\ Finish(c) /\ served' = served \cup {c}
             \/ /\ task' = [task EXCEPT ![c].page = @ \ batch]
                /\ UNCHANGED served
    BY <1>4 DEF PushPage
  <2>2. got'[c] = got[c] \cup batch /\ \A d \in Conn : got[d] \subseteq got'[d]
    BY <2>1
  <2>3. task[c].pc = "page"
    BY <1>4 DEF PushPage
  <2>4. CASE batch = task[c].page /\ Finish(c) /\ served' = served \cup {c}
    <3>1. /\ task' = [task EXCEPT ![c] = Idle]
          /\ \A d \in Conn \ {c} : task'[d] = task[d]
      BY <2>4 DEF Finish
    <3>2. LinksOK' /\ LogOK' /\ SavedOK'
      BY <1>0, <2>4, <3>1, QuietSide, IdleOK DEF Idle
    <3>3. \A s \in Session, i \in Nat : <<s, i>> \in task[c].page => Covered(c, s, i)'
      BY <2>2, <2>4 DEF Covered
    <3>4. CoveredOK'
      BY <1>0, <1>1, <2>2, <2>3, <2>4, <3>1, <3>3, CoverKeeps
    <3> QED
      BY <3>2, <3>4 DEF LInv
  <2>5. CASE task' = [task EXCEPT ![c].page = @ \ batch] /\ UNCHANGED served
    <3>t. PICK t \in Tasks : t = [task[c] EXCEPT !.page = @ \ batch]
      BY <1>0 DEF Tasks
    <3>1. /\ task' = [task EXCEPT ![c] = t] /\ task'[c] = t
          /\ t.pc = "page" /\ t.page = task[c].page \ batch
          /\ \A d \in Conn \ {c} : task'[d] = task[d]
      BY <1>0, <2>3, <2>5, <3>t DEF Tasks
    <3>2. LinksOK' /\ LogOK' /\ SavedOK'
      BY <1>0, <2>5, <3>1, QuietSide
    <3>3. \A s \in Session, i \in Nat : <<s, i>> \in task[c].page => Covered(c, s, i)'
      BY <2>2, <3>1 DEF Covered
    <3>4. CoveredOK'
      BY <1>0, <1>1, <2>2, <2>3, <2>5, <3>1, <3>3, CoverKeeps
    <3> QED
      BY <3>2, <3>4 DEF LInv
  <2> QED
    BY <2>1, <2>4, <2>5
<1> QED
  BY <1>3, <1>4

\* The handler that has a message hands it on.
LEMMA PassCovers ==
  ASSUME IInv, LInv, Kept, NEW c \in Conn,
         SendACK(c) \/ SendToUser(c) \/ \E d \in Conn : Deliver(c, d)
  PROVE  LInv'
<1> USE ConnAssumption, UserAssumption DEF IInv, TypeOK
<1>0. /\ task[c] \in Tasks /\ link[c] # "new" /\ task[c].pc \in {"ack", "push", "deliver"}
      /\ UNCHANGED <<sessions, messages, link, served>>
      /\ log' = log /\ link' = link
  BY DEF SendACK, SendToUser, Deliver, LInv, LinksOK, messages
<1>1. /\ \A s \in Session : cursor'[s] \in Nat /\ cursor[s] <= cursor'[s]
      /\ \A s \in Session : status[s] = "closed" => status'[s] = "closed"
      /\ \A e \in Conn : Of[e] \in User /\ Of[e] # None
  BY <1>0 DEF sessions, messages
\* It is enough that whoever is to have the message still will, or has it.
<1>2. ASSUME NEW t \in Tasks, task' = [task EXCEPT ![c] = t],
             t.pc \in {"idle", "push", "deliver"},
             t.pc # "idle" => t.sid = task[c].sid /\ t.num = task[c].num /\ t.to = task[c].to,
             \A e \in Conn : got[e] \subseteq got'[e],
             \A e \in Conn :
               link[e] = "open" /\ Of[e] = task[c].to /\ (task[c].pc = "deliver" => e \in task[c].ids)
                 => \/ <<task[c].sid, task[c].num>> \in got'[e]
                    \/ t.pc = "push"
                    \/ t.pc = "deliver" /\ e \in t.ids
      PROVE  LInv'
  <2>1. task'[c] = t /\ \A d \in Conn \ {c} : task'[d] = task[d]
    BY <1>2
  <2>2. LinksOK' /\ LogOK' /\ SavedOK'
    BY <1>0, <1>2, QuietSide
  <2>3. ASSUME NEW e \in Conn, NEW s \in Session, NEW i \in Nat,
               link'[e] = "open", task[c].to = Of[e], Carries(c, e, s, i)
        PROVE  Covered(e, s, i)'
    <3>1. task[c].sid = s /\ task[c].num = i /\ (task[c].pc = "deliver" => e \in task[c].ids)
      BY <2>3 DEF Carries
    <3>2. CASE <<s, i>> \in got'[e]
      BY <3>2 DEF Covered
    <3>3. CASE t.pc = "push" \/ (t.pc = "deliver" /\ e \in t.ids)
      BY <1>2, <2>1, <3>1, <3>3 DEF Covered, UnderWay
    <3>4. link[e] = "open" /\ Of[e] = task[c].to
      BY <1>0, <2>3
    <3>5. \/ <<task[c].sid, task[c].num>> \in got'[e]
          \/ t.pc = "push"
          \/ t.pc = "deliver" /\ e \in t.ids
      BY <1>2, <3>1, <3>4
    <3>6. <<task[c].sid, task[c].num>> = <<s, i>>
      BY <3>1
    <3>7. <<s, i>> \in got'[e] \/ t.pc = "push" \/ (t.pc = "deliver" /\ e \in t.ids)
      BY <3>5, <3>6
    <3> QED
      BY <3>2, <3>3, <3>7 DEF Covered
  <2>4. CoveredOK'
    BY <1>0, <1>1, <1>2, <2>1, <2>3, CoverKeeps
  <2> QED
    BY <2>2, <2>4 DEF LInv
<1>3. CASE SendACK(c)
  <2>1. CASE task[c].to # None /\ Goto(c, "push")
    <3>t. PICK t \in Tasks : t = [task[c] EXCEPT !.pc = "push"]
      BY <1>0 DEF Tasks
    <3>1. task' = [task EXCEPT ![c] = t] /\ t.pc = "push"
          /\ t.sid = task[c].sid /\ t.num = task[c].num /\ t.to = task[c].to
      BY <1>0, <2>1, <3>t DEF Goto, Tasks
    <3> QED
      BY <1>2, <1>3, <3>1 DEF SendACK
  <2>2. CASE task[c].to = None /\ Finish(c)
    BY <1>1, <1>2, <1>3, <2>2, IdleOK DEF SendACK, Finish, Idle
  <2> QED
    BY <1>3, <2>1, <2>2 DEF SendACK
<1>4. CASE SendToUser(c)
  <2>0. task[c].pc = "push" /\ got' = got
    BY <1>4 DEF SendToUser
  <2>1. CASE task' = [task EXCEPT ![c].pc = "deliver", ![c].ids = Bound(task[c].to)]
    <3>t. PICK t \in Tasks : t = [task[c] EXCEPT !.pc = "deliver", !.ids = Bound(task[c].to)]
      BY <1>0 DEF Tasks, Bound
    <3>1. task' = [task EXCEPT ![c] = t] /\ t.pc = "deliver" /\ t.ids = Bound(task[c].to)
          /\ t.sid = task[c].sid /\ t.num = task[c].num /\ t.to = task[c].to
      BY <1>0, <2>1, <3>t DEF Tasks
    <3>2. \A e \in Conn : link[e] = "open" /\ Of[e] = task[c].to => e \in t.ids
      BY <3>1 DEF Bound
    <3> QED
      BY <1>2, <2>0, <3>1, <3>2
  <2>2. CASE Bound(task[c].to) = {} /\ Finish(c)
    BY <1>2, <2>0, <2>2, IdleOK DEF Bound, Finish, Idle
  <2> QED
    BY <1>4, <2>1, <2>2 DEF SendToUser
<1>5. ASSUME NEW d \in Conn, Deliver(c, d)
      PROVE  LInv'
  <2>0. task[c].pc = "deliver" /\ d \in task[c].ids
    BY <1>5 DEF Deliver
  <2>1. /\ \A e \in Conn : got[e] \subseteq got'[e]
        /\ link[d] = "open" => <<task[c].sid, task[c].num>> \in got'[d]
    <3>1. CASE got' = [got EXCEPT ![d] = @ \cup {<<task[c].sid, task[c].num>>}]
      <4>1. got'[d] = got[d] \cup {<<task[c].sid, task[c].num>>}
            /\ \A e \in Conn \ {d} : got'[e] = got[e]
        BY <3>1
      <4> QED
        BY <4>1
    <3>2. CASE link[d] # "open" /\ UNCHANGED got
      BY <3>2
    <3> QED
      BY <1>5, <3>1, <3>2 DEF Deliver
  <2>2. CASE task[c].ids = {d} /\ Finish(c)
    BY <1>2, <2>0, <2>1, <2>2, IdleOK DEF Finish, Idle
  <2>3. CASE task' = [task EXCEPT ![c].ids = @ \ {d}]
    <3>t. PICK t \in Tasks : t = [task[c] EXCEPT !.ids = @ \ {d}]
      BY <1>0 DEF Tasks
    <3>1. task' = [task EXCEPT ![c] = t] /\ t.pc = "deliver" /\ t.ids = task[c].ids \ {d}
          /\ t.sid = task[c].sid /\ t.num = task[c].num /\ t.to = task[c].to
      BY <1>0, <2>0, <2>3, <3>t DEF Tasks
    <3> QED
      BY <1>2, <2>0, <2>1, <3>1
  <2> QED
    BY <1>5, <2>2, <2>3 DEF Deliver
<1> QED
  BY <1>3, <1>4, <1>5

\* A message is saved: for nobody, or its handler goes on with it.
LEMMA SaveCovers ==
  ASSUME IInv, IInv', LInv, Kept, NEW c \in Conn, NEW s \in Session, NEW m \in Message,
         M!Send(s, m), Len(log[s]) < MaxLen,
         task[c].pc \in {"save", "system"},
         UNCHANGED <<sessions, link, got, served>>,
         NEW t \in Tasks, task' = [task EXCEPT ![c] = t],
         \/ t.pc = "idle" /\ m.to = None
         \/ /\ t.pc = "ack" /\ t.sid = s /\ t.num = Len(log[s]) + 1
            /\ m = [by |-> c, to |-> t.to]
  PROVE  LInv'
<1> USE ConnAssumption, UserAssumption, MaxLenAssumption
<1>1. /\ LogGrows
      /\ Len(log'[s]) = Len(log[s]) + 1 /\ log'[s][Len(log[s]) + 1] = m
      /\ \A r \in Session \ {s} : log'[r] = log[r]
  BY SendGrows
<1>2. /\ task'[c] = t /\ \A d \in Conn \ {c} : task'[d] = task[d]
      /\ link[c] # "new" /\ link' = link /\ served' = served /\ got' = got
      /\ cursor' = cursor /\ \A r \in Session : cursor[r] \in Nat
  BY DEF IInv, TypeOK, LInv, LinksOK, M!Send
<1>3. m.to # None => t.pc = "ack" /\ m.by = c /\ t.to = m.to
  OBVIOUS
<1>4. ASSUME NEW r \in Session, NEW i \in 1..Len(log'[r]), i \notin 1..Len(log[r])
      PROVE  r = s /\ i = Len(log[s]) + 1 /\ log'[r][i] = m
  BY <1>1, <1>4 DEF LogGrows
<1>5. LinksOK' /\ LogOK' /\ SavedOK'
  <2>1. t.pc = "ack" => /\ t.sid \in Session
                        /\ t.num \in 1..Len(log'[t.sid])
                        /\ log'[t.sid][t.num] = [by |-> c, to |-> t.to]
    BY <1>1 DEF LogGrows
  <2>2. \A r \in Session : Len(log'[r]) <= MaxLen
    <3> SUFFICES ASSUME NEW r \in Session PROVE Len(log'[r]) <= MaxLen
      OBVIOUS
    <3>1. CASE r = s
      BY <1>1, <3>1 DEF LogGrows
    <3>2. CASE r # s
      BY <1>1, <3>2 DEF LInv, LogOK
    <3> QED
      BY <3>1, <3>2
  <2>3. ASSUME NEW r \in Session, NEW i \in Len(log[r]) + 1 .. Len(log'[r]),
               log'[r][i].to # None
        PROVE  log'[r][i].by = c /\ Addressed(c, r, log[r][i].to)'
    <3>1. r = s /\ log'[r][i] = m
      BY <1>1, <1>4 DEF LogGrows
    <3>2. t.pc = "ack" /\ m.by = c /\ t.to = m.to /\ t.sid = s /\ m.to # None
      BY <1>3, <2>3, <3>1
    <3>3. Addressed(c, s, t.to)'
      BY <1>2, <3>2 DEF IInv, TasksOK, TaskOK
    <3> QED
      BY <3>1, <3>2, <3>3 DEF Addressed
  <2> QED
    BY <1>1, <1>2, <2>1, <2>2, <2>3, SideKeeps DEF LInv
<1>6. CoveredOK'
  <2> SUFFICES ASSUME NEW e \in Conn, link'[e] = "open", e \in served' \/ task'[e].pc = "page",
                      NEW r \in Session, NEW i \in cursor'[r] + 1 .. Len(log'[r]),
                      Due(e, r, i)', status'[r] # "closed"
               PROVE  Covered(e, r, i)'
    BY DEF CoveredOK
  <2>1. i \in Nat /\ i \in 1..Len(log'[r]) /\ i > cursor[r] /\ Of[e] \in User
    BY <1>1, <1>2 DEF LogGrows
  <2>2. CASE i \in 1..Len(log[r])
    <3>1. log'[r][i] = log[r][i] /\ i \in cursor[r] + 1 .. Len(log[r])
      BY <1>1, <1>2, <2>1, <2>2 DEF LogGrows
    <3>2. Due(e, r, i) /\ status[r] # "closed" /\ (e \in served \/ task[e].pc = "page")
      BY <1>2, <3>1 DEF Due, OtherSide, VisitorOf, AgentOf, Namesake, sessions
    <3>3. Covered(e, r, i)
      BY <1>2, <3>1, <3>2 DEF LInv, CoveredOK
    <3>4. ~Carries(c, e, r, i)
      BY DEF Carries
    <3> QED
      BY <1>2, <2>1, <3>3, <3>4, CoverFrame
  <2>3. CASE i \notin 1..Len(log[r])
    <3>1. r = s /\ i = Len(log[s]) + 1 /\ log'[r][i] = m
      BY <1>4, <2>1, <2>3
    <3>2. m.to # None
      BY <3>1 DEF Due
    <3>3. t.pc = "ack" /\ t.sid = r /\ t.num = i
      BY <3>1, <3>2
    <3> QED
      BY <1>2, <3>3 DEF Covered, UnderWay
  <2> QED
    BY <2>2, <2>3
<1> QED
  BY <1>5, <1>6 DEF LInv

LEMMA SendCovers ==
  ASSUME IInv, IInv', LInv, Kept, NEW c \in Conn, SendMessage(c) \/ SendSystemMessage(c)
  PROVE  LInv'
<1>0. /\ task[c] \in Tasks /\ task[c].pc \in {"save", "system"} /\ task[c].sid \in Session
      /\ UNCHANGED <<sessions, link, got, served>> /\ TaskOK(c, task[c])
      /\ log \in [Session -> Seq(Message)]
  BY DEF IInv, TypeOK, TasksOK, TaskOK, SendMessage, SendSystemMessage
<1>s. PICK s \in Session : s = task[c].sid
  BY <1>0
<1>1. CASE UNCHANGED messages /\ Finish(c)
  <2>1. task' = [task EXCEPT ![c] = Idle] /\ task'[c] = Idle
        /\ \A d \in Conn \ {c} : task'[d] = task[d]
    BY <1>1 DEF Finish, IInv, TypeOK
  <2>2. /\ log' = log /\ link' = link /\ link[c] # "new" /\ served' = served
        /\ got' = got /\ status' = status
        /\ \A r \in Session : cursor'[r] \in Nat /\ cursor[r] <= cursor'[r]
    BY <1>0, <1>1 DEF messages, sessions, LInv, LinksOK, IInv, TypeOK
  <2>3. LinksOK' /\ LogOK' /\ SavedOK'
    BY <2>1, <2>2, QuietSide, IdleOK DEF Idle
  <2>4. \A d \in Conn, r \in Session, i \in Nat : ~Carries(c, d, r, i)
    BY <1>0 DEF Carries
  <2>5. \A d \in Conn : link[d] \in {"new", "open", "closed"}
    BY DEF IInv, TypeOK
  <2>6. CoveredOK'
    <3>1. task'[c].pc = "idle" /\ task[c].pc # "page"
      BY <1>0, <2>1 DEF Idle
    <3> QED
      BY <2>1, <2>2, <2>4, <2>5, <3>1, CoverKeeps
  <2> QED
    BY <2>3, <2>6 DEF LInv
<1>2. CASE /\ SendMessage(c) /\ Len(log[s]) < MaxLen
           /\ M!Send(s, [by |-> c, to |-> task[c].to])
           /\ task' = [task EXCEPT ![c].pc = "ack", ![c].num = Len(log[s]) + 1]
  <2>1. Len(log[s]) + 1 \in Nat /\ [by |-> c, to |-> task[c].to] \in Message
    BY <1>0 DEF Message, Tasks
  <2>2. [task[c] EXCEPT !.pc = "ack", !.num = Len(log[s]) + 1] \in Tasks
    BY <1>0, <2>1 DEF Tasks
  <2>t. PICK t \in Tasks : t = [task[c] EXCEPT !.pc = "ack", !.num = Len(log[s]) + 1]
    BY <2>2
  <2>3. task' = [task EXCEPT ![c] = t]
    BY <1>0, <1>2, <2>t DEF IInv, TypeOK
  <2>4. t.pc = "ack" /\ t.sid = s /\ t.num = Len(log[s]) + 1 /\ t.to = task[c].to
    BY <1>0, <1>s, <2>t DEF Tasks
  <2>m. PICK m \in Message : m = [by |-> c, to |-> task[c].to]
    BY <2>1
  <2>5. M!Send(s, m) /\ m = [by |-> c, to |-> t.to]
    BY <1>2, <2>4, <2>m
  <2>6. /\ t.pc = "ack" /\ t.sid = s /\ t.num = Len(log[s]) + 1
        /\ m = [by |-> c, to |-> t.to]
    BY <2>4, <2>5
  <2>7. Len(log[s]) < MaxLen /\ M!Send(s, m)
    BY <1>2, <2>5
  <2> QED
    BY <1>0, <2>3, <2>6, <2>7, SaveCovers
<1>3. CASE /\ SendSystemMessage(c) /\ Len(log[s]) < MaxLen
           /\ M!Send(s, [by |-> None, to |-> None])
  <2>1. task' = [task EXCEPT ![c] = Idle] /\ Idle.pc = "idle" /\ Idle \in Tasks
    BY <1>3, IdleOK DEF SendSystemMessage, Finish, Idle
  <2>2. [by |-> None, to |-> None] \in Message
    BY DEF Message
  <2> QED
    BY <1>0, <1>3, <2>1, <2>2, SaveCovers
<1> QED
  BY <1>s, <1>1, <1>2, <1>3 DEF SendMessage, SendSystemMessage

LEMMA StepLInv == IInv /\ IInv' /\ LInv /\ [Next]_vars => LInv'
<1> SUFFICES ASSUME IInv, IInv', LInv, [Next]_vars PROVE LInv'
  OBVIOUS
<1>1. CASE UNCHANGED vars
  <2>1. LinksOK' /\ LogOK' /\ SavedOK'
    BY <1>1, AsTheyWere DEF LInv, LinksOK, LogOK, SavedOK, vars, messages
  <2>2. \A c \in Conn, s \in Session, i \in Nat : Due(c, s, i)' <=> Due(c, s, i)
    BY <1>1 DEF Due, OtherSide, VisitorOf, AgentOf, Namesake, Role, vars, sessions, messages
  <2>3. CoveredOK'
    BY <1>1, <2>2 DEF LInv, CoveredOK, Covered, UnderWay, IInv, TypeOK, vars, sessions, messages
  <2> QED
    BY <2>1, <2>3 DEF LInv
<1>2. CASE Next
  BY <1>2, StepKept, BeginCovers, RequestCovers, OfflineCovers, PassCovers, SendCovers
  DEF Next, Continue
<1> QED
  BY <1>1, <1>2

\* No message falls between the offline push of a connection and the push of what
\* is sent meanwhile, unless a namesake sends it (BindUser, sendOfflinePush,
\* SendMessage, SendToUser).
THEOREM Nothing == Spec => []NothingLost
<1>1. IInv /\ LInv => NothingLost
  BY DEF LInv, LinksOK, CoveredOK, Covered, NothingLost, IInv, TypeOK
<1> QED
  BY <1>1, InitLInv, StepLInv, Inductive, PTL DEF Spec

-----------------------------------------------------------------------------
(* Who gets to see what *)

\* What was written is a party's, or is a message that went astray.
GotOK ==
  \A c \in Conn : \A m \in got[c] :
    \/ Party(m[1], Of[c])
    \/ m[2] \in 1..Len(log[m[1]]) /\ Astray(c, m[1], m[2])

\* The logs only grow.
LEMMA StepGrows == IInv /\ Next => LogGrows
<1> SUFFICES ASSUME IInv, Next PROVE LogGrows
  OBVIOUS
<1>1. CASE UNCHANGED log
  BY <1>1 DEF IInv, TypeOK, LogGrows
<1>2. ASSUME NEW c \in Conn, SendMessage(c) \/ SendSystemMessage(c)
      PROVE  LogGrows
  <2>1. PICK t \in Tasks : t = task[c] /\ (t.pc \in {"save", "system"} => t.sid \in Session)
    BY DEF IInv, TypeOK, TasksOK, TaskOK
  <2>2. /\ [by |-> c, to |-> t.to] \in Message /\ [by |-> None, to |-> None] \in Message
    BY <2>1 DEF Message, Tasks
  <2>3. t.sid \in Session
    BY <1>2, <2>1 DEF SendMessage, SendSystemMessage
  <2>4. \/ \E m \in Message : M!Send(t.sid, m)
        \/ UNCHANGED log
    BY <1>2, <2>1, <2>2 DEF SendMessage, SendSystemMessage, messages
  <2> QED
    BY <1>1, <2>3, <2>4, SendGrows
<1> QED
  BY <1>1, <1>2
  DEF Next, Continue, Request, BindUser, Close, SendFails, QueryOffline, PushPage,
      CreateOrGetSession, GetPeerIDs, SendACK, SendToUser, Deliver, Announce,
      AcceptSession, CloseSession, MarkAsRead, messages, M!Read

\* What has been written stays as it was.
LEMMA GotStays ==
  ASSUME IInv, Kept, LogGrows, NEW c \in Conn, NEW m \in got[c],
         \/ Party(m[1], Of[c])
         \/ m[2] \in 1..Len(log[m[1]]) /\ Astray(c, m[1], m[2])
  PROVE  \/ Party(m[1], Of[c])'
         \/ m[2] \in 1..Len(log'[m[1]]) /\ Astray(c, m[1], m[2])'
<1>1. m[1] \in Session /\ Of[c] \in User
  BY ConnAssumption DEF IInv, TypeOK
<1>2. CASE Party(m[1], Of[c])
  BY <1>1, <1>2, KeptUsers
<1>3. CASE m[2] \in 1..Len(log[m[1]]) /\ Astray(c, m[1], m[2])
  <2>1. /\ log'[m[1]][m[2]] = log[m[1]][m[2]] /\ m[2] \in 1..Len(log'[m[1]])
    BY <1>1, <1>3 DEF LogGrows
  <2>2. PICK d \in Conn : /\ log[m[1]][m[2]].by = d /\ Namesake(d, m[1])
                          /\ Of[c] = <<"visitor", agent[m[1]]>>
    BY <1>3 DEF Astray
  <2>3. Namesake(d, m[1])' /\ agent'[m[1]] = agent[m[1]]
    BY <1>1, <2>2, KeptUsers DEF Kept, Namesake
  <2> QED
    BY <2>1, <2>2, <2>3 DEF Astray
<1> QED
  BY <1>2, <1>3

\* A step that writes nothing.
LEMMA GotKeeps ==
  ASSUME IInv, Kept, LogGrows, GotOK, UNCHANGED got
  PROVE  GotOK'
<1> SUFFICES ASSUME NEW c \in Conn, NEW m \in got[c]
             PROVE  \/ Party(m[1], Of[c])'
                    \/ m[2] \in 1..Len(log'[m[1]]) /\ Astray(c, m[1], m[2])'
  BY DEF GotOK
<1> QED
  BY GotStays DEF GotOK

\* A batch of the offline push is a party's.
LEMMA PushPageGot ==
  ASSUME IInv, Kept, LogGrows, GotOK, NEW c \in Conn, PushPage(c)
  PROVE  GotOK'
<1>1. PICK batch \in SUBSET task[c].page : got' = [got EXCEPT ![c] = @ \cup batch]
  BY DEF PushPage
<1>2. \A m \in batch : Party(m[1], Of[c])
  BY <1>1 DEF IInv, TasksOK, TaskOK, PushPage
<1>3. \A d \in Conn : got'[d] \subseteq IF d = c THEN got[d] \cup batch ELSE got[d]
  BY <1>1 DEF IInv, TypeOK
<1> SUFFICES ASSUME NEW d \in Conn, NEW m \in got'[d]
             PROVE  \/ Party(m[1], Of[d])'
                    \/ m[2] \in 1..Len(log'[m[1]]) /\ Astray(d, m[1], m[2])'
  BY DEF GotOK
<1>4. CASE m \in got[d]
  BY <1>4, GotStays DEF GotOK
<1>5. CASE m \notin got[d]
  BY <1>2, <1>3, <1>5, AsTheyWere DEF PushPage
<1> QED
  BY <1>4, <1>5

\* A message is written to whom it is addressed.
LEMMA DeliverGot ==
  ASSUME IInv, SavedOK, Kept, LogGrows, GotOK, NEW c \in Conn, NEW d \in Conn, Deliver(c, d)
  PROVE  GotOK'
<1> USE ConnAssumption, UserAssumption
<1>1. /\ task[c].sid \in Session /\ Of[d] = task[c].to /\ Of[d] \in User
      /\ task[c].num \in 1..Len(log[task[c].sid])
      /\ log[task[c].sid][task[c].num] = [by |-> c, to |-> task[c].to]
  BY DEF Deliver, IInv, TasksOK, TaskOK, SavedOK
<1>s. PICK s \in Session, i \in Nat :
        /\ s = task[c].sid /\ i = task[c].num
        /\ i \in 1..Len(log[s]) /\ log[s][i].by = c
  BY <1>1 DEF IInv, TypeOK, Tasks
<1>2. Addressed(c, s, Of[d])
  <2>1. TaskOK(c, task[c]) /\ task[c].pc = "deliver" /\ task[c].to # None
    BY <1>1 DEF IInv, TasksOK, Deliver
  <2> QED
    BY <1>1, <1>s, <2>1 DEF TaskOK
<1>3. Party(s, Of[d]) \/ Astray(d, s, i)
  BY <1>2, <1>s DEF Addressed, OtherSide, Party, Astray
<1>4. \A e \in Conn : got'[e] \subseteq IF e = d THEN got[e] \cup {<<s, i>>} ELSE got[e]
  BY <1>s DEF Deliver, IInv, TypeOK
<1> SUFFICES ASSUME NEW e \in Conn, NEW m \in got'[e]
             PROVE  \/ Party(m[1], Of[e])'
                    \/ m[2] \in 1..Len(log'[m[1]]) /\ Astray(e, m[1], m[2])'
  BY DEF GotOK
<1>5. CASE m \in got[e]
  BY <1>5, GotStays DEF GotOK
<1>6. CASE m \notin got[e]
  <2>1. e = d /\ m = <<s, i>> /\ m[1] = s /\ m[2] = i
    BY <1>4, <1>6
  <2>2. UNCHANGED sessions /\ UNCHANGED log
    BY DEF Deliver, messages
  <2>3. Party(s, Of[d])' \/ Astray(d, s, i)'
    BY <1>3, <2>2, AsTheyWere DEF Astray, Namesake, sessions
  <2> QED
    BY <1>s, <2>1, <2>2, <2>3
<1> QED
  BY <1>5, <1>6

\* What is written to a connection belongs to a session of its user; what a
\* namesake of the visitor writes goes to one visitor besides, and to nobody else
\* (handleVisitorMessage, handleAgentMessage, sendOfflinePush).
THEOREM PartiesOnly == Spec => []OnlyParties
<1>1. Init => GotOK
  BY DEF Init, GotOK
<1>2. IInv /\ LInv /\ GotOK /\ [Next]_vars => GotOK'
  <2> SUFFICES ASSUME IInv, LInv, GotOK, [Next]_vars PROVE GotOK'
    OBVIOUS
  <2>1. CASE UNCHANGED vars
    <3>1. Kept /\ LogGrows
      BY <2>1 DEF Kept, LogGrows, IInv, TypeOK, vars, sessions, messages
    <3> QED
      BY <2>1, <3>1, GotKeeps DEF vars
  <2>2. CASE Next
    <3>1. Kept /\ LogGrows
      BY <2>2, StepKept, StepGrows
    <3>2. \/ UNCHANGED got
          \/ \E c \in Conn : PushPage(c)
          \/ \E c, d \in Conn : Deliver(c, d)
      BY <2>2
      DEF Next, Continue, Request, BindUser, Close, SendFails, QueryOffline, SendMessage,
          SendSystemMessage, CreateOrGetSession, GetPeerIDs, SendACK, SendToUser,
          AcceptSession, CloseSession, MarkAsRead
    <3> QED
      BY <3>1, <3>2, GotKeeps, PushPageGot, DeliverGot DEF LInv
  <2> QED
    BY <2>1, <2>2
<1>3. GotOK => OnlyParties
  BY DEF GotOK, OnlyParties
<1> QED
  BY <1>1, <1>2, <1>3, InitLInv, StepLInv, Inductive, PTL DEF Spec
=============================================================================
