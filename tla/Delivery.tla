------------------------------ MODULE Delivery ------------------------------
(***************************************************************************)
(* The handlers of one process (handler/auth.go, chat.go, session.go,      *)
(* agent.go) over the session service, the message service and the hub:    *)
(* who gets to see which message.  The services are their abstract          *)
(* specifications SessionLifecycle and MessageLog, which SessionService and *)
(* MessageService implement; the hub is what Hub shows of its index.       *)
(*                                                                         *)
(* One connection handles its messages one after the other; connections run *)
(* side by side, and an agent may name any session id.  The socket of a    *)
(* connection closes at any moment, which its handler learns from an error *)
(* of a later write.  The other notices (session_created, session_assigned, *)
(* typing, read), nicknames, contents and the unread counter are left out.  *)
(*                                                                         *)
(* Visitors and agents are rows of two tables that count from one, so that  *)
(* a number says who is meant only together with the role.                 *)
(***************************************************************************)
EXTENDS Naturals, Sequences, FiniteSets

CONSTANTS
  Number,          \* the numbers of visitors, and of agents
  Session,         \* session ids
  Conn,            \* connections, each used once
  Of,              \* Of[c]: the user that authenticates on c, role and number
  None,            \* no user
  Unique,          \* whether a visitor has one open session (SessionLifecycle)
  PageSize,        \* offlinePageSize
  Faults,          \* whether a query or an insert may fail
  MaxLen           \* bound on the messages of a session

User == {"visitor", "agent"} \X Number

ASSUME UserAssumption == None \notin Number /\ None \notin User
ASSUME ConnAssumption == Of \in [Conn -> User]
ASSUME PageAssumption == PageSize \in Nat \ {0}
ASSUME FaultAssumption == Faults \in BOOLEAN
ASSUME MaxLenAssumption == MaxLen \in Nat

VARIABLES
  status, visitor, agent,  \* the rows of ccsim_sessions
  log, cursor,             \* the messages of a session, and how many are read
  link,    \* link[c]: "new", "open" and bound, "closed"
  task,    \* task[c]: where the handler of c is, and its local variables
  got,     \* got[c]: the messages written to c, as pairs of session and number
  served   \* the connections whose offline push is over.  The code has no such
           \* state: it says whom NothingLost is about

sessions == <<status, visitor, agent>>
messages == <<log, cursor>>
vars     == <<sessions, messages, link, task, got, served>>

-----------------------------------------------------------------------------
\* A message has the connection that sent it, None for the system, and the
\* user its handler pushes it to, None when there is no such user.
Message == [by : Conn \cup {None}, to : User \cup {None}]

S == INSTANCE SessionLifecycle WITH Visitor <- Number, Agent <- Number
M == INSTANCE MessageLog WITH Sender <- Message

Role(c) == Of[c][1]
Self(c) == Of[c][2]

\* The parties of a session; nobody has the number None.
VisitorOf(s) == <<"visitor", visitor[s]>>
AgentOf(s)   == <<"agent", agent[s]>>
Party(s, u)  == u \in {VisitorOf(s), AgentOf(s)}

Idle == [pc |-> "idle", sid |-> None, to |-> None, num |-> 0, page |-> {}, ids |-> {}]

Finish(c) == task' = [task EXCEPT ![c] = Idle]

Goto(c, pc) == task' = [task EXCEPT ![c].pc = pc]

\* Mutant: a connection is bound when its offline push is over.
BoundLate(u) == {c \in served : Of[c] = u /\ link[c] = "open"}

\* The connections of a user in the hub's index that a frame can be written to.
Bound(u) == {c \in Conn : Of[c] = u /\ link[c] = "open"}

\* Mutant: the query looks for the number in both columns.
UnreadOfNumber(u) ==
  {m \in Session \X (1..MaxLen) :
    /\ u[2] \in {visitor[m[1]], agent[m[1]]}
    /\ status[m[1]] # "closed"
    /\ m[2] \in cursor[m[1]] + 1 .. Len(log[m[1]])}

\* FindUnreadForVisitor and FindUnreadForAgent, each by a column of its own: own
\* and system messages too, of sessions that are not closed.
Unread(u) ==
  {m \in Session \X (1..MaxLen) :
    /\ Party(m[1], u)
    /\ status[m[1]] # "closed"
    /\ m[2] \in cursor[m[1]] + 1 .. Len(log[m[1]])}

Init ==
  /\ S!Init
  /\ M!Init
  /\ link   = [c \in Conn |-> "new"]
  /\ task   = [c \in Conn |-> Idle]
  /\ got    = [c \in Conn |-> {}]
  /\ served = {}

-----------------------------------------------------------------------------
(* Connections *)

\* Authentication succeeds: BindUser, and what is left of the handler.
BindUser(c) ==
  /\ link[c] = "new"
  /\ link' = [link EXCEPT ![c] = "open"]
  /\ Goto(c, "query")
  /\ UNCHANGED <<sessions, messages, got, served>>

Close(c) ==
  /\ link[c] = "open"
  /\ link' = [link EXCEPT ![c] = "closed"]
  /\ UNCHANGED <<sessions, messages, task, got, served>>

\* sendJSON fails, in sendOfflinePush and before a message is pushed: the
\* handler returns.
SendFails(c) ==
  /\ link[c] = "closed"
  /\ task[c].pc \in {"query", "page", "ack"}
  /\ Finish(c)
  /\ UNCHANGED <<sessions, messages, link, got, served>>

-----------------------------------------------------------------------------
(* sendOfflinePush, after auth_ok *)

QueryOffline(c) ==
  /\ task[c].pc = "query"
  /\ link[c] = "open"
  /\ \/ /\ Unread(Of[c]) # {}
        /\ task' = [task EXCEPT ![c].pc = "page", ![c].page = Unread(Of[c])]
        /\ UNCHANGED served
     \/ /\ Unread(Of[c]) = {}
        /\ Finish(c)
        /\ served' = served \cup {c}
     \/ /\ Faults
        /\ Finish(c)
        /\ UNCHANGED served
  /\ UNCHANGED <<sessions, messages, link, got>>

\* The next batch.  Messages of the same time come in any order.
PushPage(c) ==
  /\ task[c].pc = "page"
  /\ link[c] = "open"
  /\ \E batch \in SUBSET task[c].page :
       /\ \/ Cardinality(batch) = PageSize
          \/ batch = task[c].page /\ Cardinality(batch) < PageSize
       /\ got' = [got EXCEPT ![c] = @ \cup batch]
       /\ \/ /\ batch = task[c].page
             /\ Finish(c)
             /\ served' = served \cup {c}
          \/ /\ batch # task[c].page
             /\ task' = [task EXCEPT ![c].page = @ \ batch]
             /\ UNCHANGED served
  /\ UNCHANGED <<sessions, messages, link>>

-----------------------------------------------------------------------------
(* chat: find whom to push to, save, acknowledge, push *)

Ready(c) == link[c] = "open" /\ task[c].pc = "idle"

\* Mutant: the session and the peer are passed in the wrong order.
SaveSwapped(c, s, to) ==
  task' = [task EXCEPT ![c].pc = "save", ![c].sid = to, ![c].to = s]

Save(c, s, to) ==
  task' = [task EXCEPT ![c].pc = "save", ![c].sid = s, ![c].to = to]

\* The agent is the one in the copy of the session, whatever happens next.
CreateOrGetSession(c, s) ==
  /\ Ready(c)
  /\ Role(c) = "visitor"
  /\ \/ s \in S!Open(Self(c)) /\ UNCHANGED sessions
     \/ S!Create(s, Self(c))
  /\ Save(c, s, IF agent[s] = None THEN None ELSE AgentOf(s))
  /\ UNCHANGED <<messages, link, got, served>>

\* The other side of a number.  The cache that stands before the row says the same
\* (CacheCoherent of SessionService): without an agent it is passed over.
PeerOf(s, self) ==
  IF self = visitor[s] /\ agent[s] # None THEN agent[s] ELSE visitor[s]

\* The session is not looked at: closed, another agent's, or none.  Whatever
\* number comes back is taken for a visitor's; on an error of the lookup, or
\* without a row, there is nobody to push to.
GetPeerIDs(c, s) ==
  /\ Ready(c)
  /\ Role(c) = "agent"
  /\ \/ visitor[s] # None /\ Save(c, s, <<"visitor", PeerOf(s, Self(c))>>)
     \/ (visitor[s] = None \/ Faults) /\ Save(c, s, None)
  /\ UNCHANGED <<sessions, messages, link, got, served>>

SendMessage(c) ==
  /\ task[c].pc = "save"
  /\ LET s == task[c].sid IN
     \/ /\ Len(log[s]) < MaxLen
        /\ M!Send(s, [by |-> c, to |-> task[c].to])
        /\ task' = [task EXCEPT ![c].pc = "ack", ![c].num = Len(log[s]) + 1]
     \/ /\ Faults \/ Len(log[s]) = MaxLen
        /\ Finish(c)
        /\ UNCHANGED messages
  /\ UNCHANGED <<sessions, link, got, served>>

SendACK(c) ==
  /\ task[c].pc = "ack"
  /\ link[c] = "open"
  /\ \/ task[c].to # None /\ Goto(c, "push")
     \/ task[c].to = None /\ Finish(c)
  /\ UNCHANGED <<sessions, messages, link, got, served>>

\* SendToUser copies the ids of the user's connections.
SendToUser(c) ==
  /\ task[c].pc = "push"
  /\ LET ids == Bound(task[c].to) IN
     \/ /\ ids # {}
        /\ task' = [task EXCEPT ![c].pc = "deliver", ![c].ids = ids]
     \/ ids = {} /\ Finish(c)
  /\ UNCHANGED <<sessions, messages, link, got, served>>

\* An error of one connection does not keep the others from it.
Deliver(c, d) ==
  /\ task[c].pc = "deliver"
  /\ d \in task[c].ids
  /\ \/ /\ link[d] = "open"
        /\ got' = [got EXCEPT ![d] = @ \cup {<<task[c].sid, task[c].num>>}]
     \/ link[d] # "open" /\ UNCHANGED got
  /\ \/ task[c].ids = {d} /\ Finish(c)
     \/ task[c].ids # {d} /\ task' = [task EXCEPT ![c].ids = @ \ {d}]
  /\ UNCHANGED <<sessions, messages, link, served>>

-----------------------------------------------------------------------------
(* session_accept, session_close and read *)

\* The service reads the row again; on an error the handler ends.
Announce(c, s) ==
  \/ task' = [task EXCEPT ![c].pc = "system", ![c].sid = s]
  \/ Faults /\ UNCHANGED task

AcceptSession(c, s) ==
  /\ Ready(c)
  /\ Role(c) = "agent"
  /\ S!Assign(s, Self(c))
  /\ Announce(c, s)
  /\ UNCHANGED <<messages, link, got, served>>

\* By id alone, closed again when it is.
CloseSession(c, s) ==
  /\ Ready(c)
  /\ \/ S!Close(s)
     \/ status[s] = "closed" /\ UNCHANGED sessions
  /\ Announce(c, s)
  /\ UNCHANGED <<messages, link, got, served>>

\* Saved, pushed to nobody; its error is ignored.
SendSystemMessage(c) ==
  /\ task[c].pc = "system"
  /\ Finish(c)
  /\ LET s == task[c].sid IN
     \/ /\ Len(log[s]) < MaxLen
        /\ M!Send(s, [by |-> None, to |-> None])
     \/ /\ Faults \/ Len(log[s]) = MaxLen
        /\ UNCHANGED messages
  /\ UNCHANGED <<sessions, link, got, served>>

\* Everything up to a message, whoever sent it and whoever reads.
MarkAsRead(c, s, k) ==
  /\ Ready(c)
  /\ M!Read(s, k)
  /\ UNCHANGED <<sessions, link, task, got, served>>

-----------------------------------------------------------------------------
\* The next step of a handler that has begun.
Continue(c) ==
  \/ SendFails(c) \/ QueryOffline(c) \/ PushPage(c)
  \/ SendMessage(c) \/ SendACK(c) \/ SendToUser(c) \/ SendSystemMessage(c)
  \/ \E d \in Conn : Deliver(c, d)

Request(c, s) ==
  \/ CreateOrGetSession(c, s) \/ GetPeerIDs(c, s)
  \/ AcceptSession(c, s) \/ CloseSession(c, s)
  \/ \E k \in 1..MaxLen : MarkAsRead(c, s, k)

Next ==
  \E c \in Conn :
    \/ BindUser(c) \/ Close(c) \/ Continue(c)
    \/ \E s \in Session : Request(c, s)

Spec == Init /\ [][Next]_vars

-----------------------------------------------------------------------------
(* Properties *)

Tasks ==
  [pc : {"idle", "query", "page", "save", "ack", "push", "deliver", "system"},
   sid : Session \cup {None}, to : User \cup {None}, num : Nat,
   page : SUBSET (Session \X Nat), ids : SUBSET Conn]

TypeOK ==
  /\ status  \in [Session -> S!Status]
  /\ visitor \in [Session -> Number \cup {None}]
  /\ agent   \in [Session -> Number \cup {None}]
  /\ log     \in [Session -> Seq(Message)]
  /\ cursor  \in [Session -> Nat]
  /\ link    \in [Conn -> {"new", "open", "closed"}]
  /\ task    \in [Conn -> Tasks]
  /\ got     \in [Conn -> SUBSET (Session \X Nat)]
  /\ served  \subseteq Conn

\* Whom a message of the user of d in s is meant for.
OtherSide(d, s) == IF Role(d) = "visitor" THEN AgentOf(s) ELSE VisitorOf(s)

\* d is of an agent who is not the session's and has its visitor's number.
Namesake(d, s) ==
  /\ Of[d] = <<"agent", visitor[s]>>
  /\ agent[s] \notin {None, visitor[s]}

\* The message is meant for the user of c, there was somebody to push it to, and
\* its sender is still there: a handler whose acknowledgement fails does not
\* push.  GetPeerIDs answers a namesake with the wrong side.
Due(c, s, i) ==
  LET m == log[s][i] IN
  /\ m.to # None
  /\ Of[c] = OtherSide(m.by, s)
  /\ ~Namesake(m.by, s)
  /\ link[m.by] = "open"

\* Still going to be offered to c.
UnderWay(c, s, i) ==
  \E d \in Conn :
    /\ task[d].sid = s /\ task[d].num = i
    /\ \/ task[d].pc \in {"ack", "push"}
       \/ task[d].pc = "deliver" /\ c \in task[d].ids

\* No message falls between the offline push and the push of a message sent
\* meanwhile: an unread message of an open session, meant for the user of a
\* connection whose offline push is over, has been written to that connection or is
\* under way to it (BindUser before sendOfflinePush; SendMessage before SendToUser).
NothingLost ==
  \A c \in served : link[c] = "open" =>
    \A s \in Session : \A i \in cursor[s] + 1 .. Len(log[s]) :
      Due(c, s, i) /\ status[s] # "closed" =>
        <<s, i>> \in got[c] \/ UnderWay(c, s, i)

\* A message of a namesake goes to the visitor with the number of the agent.
Astray(c, s, i) ==
  \E d \in Conn :
    log[s][i].by = d /\ Namesake(d, s) /\ Of[c] = <<"visitor", agent[s]>>

\* What is written to a connection belongs to a session its user is a party of,
\* although the peer is read long before it is used; only what a namesake writes
\* goes astray, and to one visitor (handleVisitorMessage, handleAgentMessage,
\* sendOfflinePush).
OnlyParties ==
  \A c \in Conn : \A m \in got[c] :
    Party(m[1], Of[c]) \/ Astray(c, m[1], m[2])
=============================================================================
