--------------------------- MODULE SessionService ---------------------------
(***************************************************************************)
(* service/session.go over repo/session.go: the rows of ccsim_sessions,    *)
(* shared by every node through the database, and the peerCache each node  *)
(* keeps of them.  A call is one handler goroutine inside a service method; *)
(* its steps are the database statements and the peerMu critical sections, *)
(* which is where the goroutines of all nodes interleave.                  *)
(*                                                                         *)
(* Left out: nicknames, timestamps, the close reason and the last message  *)
(* (MessageService has that one).  Statements that fail without an effect  *)
(* on their own are a call that returns with an error.                     *)
(***************************************************************************)
EXTENDS Naturals

CONSTANTS
  Visitor, Agent,  \* user ids; the two tables number their rows independently
  Session,         \* session ids the database may allocate
  Node,            \* server processes
  Call,            \* handler goroutines
  NodeOf,          \* NodeOf[c] is the node c runs on
  None,            \* the id 0, for no user, no agent and no session
  Serializable,    \* TRUE: SQLite's one writer; FALSE: MySQL's and
                   \* PostgreSQL's default isolation, where reads do not lock
  ReadFaults,      \* whether a SELECT may fail
  MaxUnread        \* bound on unread_count

ASSUME NoneAssumption == None \notin Visitor \cup Agent \cup Session
ASSUME NodeAssumption == NodeOf \in [Call -> Node]
ASSUME FlagAssumption == Serializable \in BOOLEAN /\ ReadFaults \in BOOLEAN
ASSUME UnreadAssumption == MaxUnread \in Nat

VARIABLES
  status,     \* status[s], "none" while the row is not committed
  visitor,    \* visitor[s] is visitor_id
  agent,      \* agent[s] is agent_id
  unread,     \* unread[s] is unread_count
  peerCache,  \* peerCache[n][s] = <<visitorID, agentID>>
  call        \* call[c] is the program counter and the locals of a goroutine

rows == <<status, visitor, agent, unread>>
vars == <<status, visitor, agent, unread, peerCache, call>>

-----------------------------------------------------------------------------
User   == Visitor \cup Agent
Status == {"none", "pending", "active", "closed"}
Role   == {"visitor", "agent"}
Peer   == (Visitor \cup {None}) \X (Agent \cup {None})

\* No entry: like an entry of zeros, GetPeerIDs takes no answer from it.
NoPeer == <<None, None>>

\* A transaction that has inserted its row and not yet ended.
Writing == {"insertCache", "commit"}
\* About to put call[c].peer into the cache of the node.
Caching == {"insertCache", "gotCache", "acceptCache", "loadCache"}
\* Inside AcceptSession after AssignAgent updated the row.
Winning == {"reset", "reload", "acceptCache", "accepted"}

PC == {"idle", "insert", "insertBlind", "commit", "got", "conflict", "evict",
       "load", "answered"} \cup Caching \cup Winning

Calls == [pc : PC, role : Role, user : User \cup {None},
          sid : Session \cup {None}, peer : Peer]

Idle == [pc |-> "idle", role |-> "visitor", user |-> None, sid |-> None,
         peer |-> NoPeer]

\* Mutant: the two ids change places.
RowSwapped(s) == <<agent[s], visitor[s]>>

\* The row of s as FindByID and FindByVisitorID copy it.
Row(s) == <<visitor[s], agent[s]>>

\* Mutant: the session is looked up without its visitor.
OpenOfAnyone(v) == {s \in Session : status[s] \in {"pending", "active"}}

\* FindByVisitorID: the sessions of v that are not closed.
Open(v) == {s \in Session : status[s] \in {"pending", "active"} /\ visitor[s] = v}

Writers == {c \in Call : call[c].pc \in Writing}

Goto(c, pc) == call' = [call EXCEPT ![c].pc = pc]
Finish(c)   == call' = [call EXCEPT ![c] = Idle]

Init ==
  /\ status    = [s \in Session |-> "none"]
  /\ visitor   = [s \in Session |-> None]
  /\ agent     = [s \in Session |-> None]
  /\ unread    = [s \in Session |-> 0]
  /\ peerCache = [n \in Node |-> [s \in Session |-> NoPeer]]
  /\ call      = [c \in Call |-> Idle]

-----------------------------------------------------------------------------
(* CreateOrGetSession *)

FindFound(c, v) ==
  /\ call[c].pc = "idle"
  /\ \E s \in Open(v) :
       call' = [call EXCEPT ![c] = [pc |-> "gotCache", role |-> "visitor",
                                    user |-> v, sid |-> s, peer |-> Row(s)]]
  /\ UNCHANGED <<rows, peerCache>>

FindNone(c, v) ==
  /\ call[c].pc = "idle"
  /\ Open(v) = {}
  /\ call' = [call EXCEPT ![c] = [Idle EXCEPT !.pc = "insert", !.user = v]]
  /\ UNCHANGED <<rows, peerCache>>

\* err == nil fails for every error, not only for "record not found".
FindFails(c, v) ==
  /\ ReadFaults
  /\ call[c].pc = "idle"
  /\ call' = [call EXCEPT ![c] = [Idle EXCEPT !.pc = "insertBlind", !.user = v]]
  /\ UNCHANGED <<rows, peerCache>>

\* Mutant: the lookup runs before the transaction begins.
WriteOnOldRead(c) == Serializable => \A d \in Writers : d = c

\* SQLite has one writer at a time, and refuses to write on a read that a
\* commit has overtaken.  A read that failed has nothing to be overtaken.
WriteAllowed(c) ==
  Serializable => /\ Writers = {}
                  /\ call[c].pc = "insert" => Open(call[c].user) = {}

\* The row gets an id and stays invisible; a rolled back id may come again.
Insert(c, s) ==
  /\ call[c].pc \in {"insert", "insertBlind"}
  /\ status[s] = "none"
  /\ \A d \in Writers : call[d].sid # s
  /\ WriteAllowed(c)
  /\ call' = [call EXCEPT ![c].pc = "insertCache", ![c].sid = s,
                          ![c].peer = <<call[c].user, None>>]
  /\ UNCHANGED <<rows, peerCache>>

AfterCaching ==
  {<<"insertCache", "commit">>, <<"gotCache", "got">>,
   <<"acceptCache", "accepted">>, <<"loadCache", "answered">>}

\* cachePeer, which CreateOrGetSession calls before the transaction commits.
CachePeer(c) ==
  /\ peerCache' = [peerCache EXCEPT ![NodeOf[c]][call[c].sid] = call[c].peer]
  /\ \E pc \in PC : <<call[c].pc, pc>> \in AfterCaching /\ Goto(c, pc)
  /\ UNCHANGED rows

Commit(c) ==
  /\ call[c].pc = "commit"
  /\ status'  = [status  EXCEPT ![call[c].sid] = "pending"]
  /\ visitor' = [visitor EXCEPT ![call[c].sid] = call[c].user]
  /\ Goto(c, "got")
  /\ UNCHANGED <<agent, unread, peerCache>>

\* The insert or the commit fails; what is in the cache stays there.
Rollback(c) ==
  /\ call[c].pc \in {"insert", "insertBlind", "commit"}
  /\ Finish(c)
  /\ UNCHANGED <<rows, peerCache>>

\* Mutant: messages that wait for an agent are counted as well.
IncrementAlways(c) ==
  /\ call[c].pc = "got"
  /\ unread[call[c].sid] < MaxUnread
  /\ unread' = [unread EXCEPT ![call[c].sid] = @ + 1]
  /\ Finish(c)
  /\ UNCHANGED <<status, visitor, agent, peerCache>>

\* The handler has saved the message: it counts it for the agent of the copy
\* it got, and pushes it to that agent.
IncrementUnread(c) ==
  /\ call[c].pc = "got"
  /\ call[c].peer[2] # None
  /\ unread[call[c].sid] < MaxUnread
  /\ unread' = [unread EXCEPT ![call[c].sid] = @ + 1]
  /\ Finish(c)
  /\ UNCHANGED <<status, visitor, agent, peerCache>>

-----------------------------------------------------------------------------
(* AcceptSession *)

\* Mutants: the UPDATE asks only that the row exists, or that it is open.
AssignableExisting(s) == status[s] # "none"
AssignableOpen(s)     == status[s] \in {"pending", "active"}

Assignable(s) == status[s] = "pending"

AssignAgent(c, a, s) ==
  /\ call[c].pc = "idle"
  /\ Assignable(s)
  /\ status' = [status EXCEPT ![s] = "active"]
  /\ agent'  = [agent  EXCEPT ![s] = a]
  /\ call'   = [call   EXCEPT ![c] = [pc |-> "reset", role |-> "agent",
                                      user |-> a, sid |-> s, peer |-> NoPeer]]
  /\ UNCHANGED <<visitor, unread, peerCache>>

\* Mutant: RowsAffected is not looked at.
AssignUnnoticed(c, a, s) ==
  /\ call[c].pc = "idle"
  /\ ~Assignable(s)
  /\ call' = [call EXCEPT ![c] = [pc |-> "reset", role |-> "agent",
                                  user |-> a, sid |-> s, peer |-> NoPeer]]
  /\ UNCHANGED <<rows, peerCache>>

\* The conditional update matched no row.
AssignConflict(c, a, s) ==
  /\ call[c].pc = "idle"
  /\ ~Assignable(s)
  /\ call' = [call EXCEPT ![c] = [pc |-> "conflict", role |-> "agent",
                                  user |-> a, sid |-> s, peer |-> NoPeer]]
  /\ UNCHANGED <<rows, peerCache>>

\* An error of ResetUnread is logged and the call goes on.
ResetUnread(c) ==
  /\ call[c].pc = "reset"
  /\ \/ unread' = [unread EXCEPT ![call[c].sid] = 0]
     \/ UNCHANGED unread
  /\ Goto(c, "reload")
  /\ UNCHANGED <<status, visitor, agent, peerCache>>

\* The agent goes into the cache from the argument, the visitor from the row.
Reload(c) ==
  /\ call[c].pc = "reload"
  /\ call' = [call EXCEPT ![c].pc = "acceptCache",
                ![c].peer = <<visitor[call[c].sid], call[c].user>>]
  /\ UNCHANGED <<rows, peerCache>>

\* The agent gets an error for a session the row says is its own.
ReloadFails(c) ==
  /\ ReadFaults
  /\ call[c].pc = "reload"
  /\ Finish(c)
  /\ UNCHANGED <<rows, peerCache>>

-----------------------------------------------------------------------------
(* CloseSession *)

\* An UPDATE by id alone: any user closes any session, open or closed, and a
\* session that does not exist is not noticed before the last step.
CloseRow(c, s) ==
  /\ call[c].pc = "idle"
  /\ status' = [status EXCEPT ![s] = IF @ = "none" THEN @ ELSE "closed"]
  /\ call'   = [call EXCEPT ![c] = [Idle EXCEPT !.pc = "evict", !.sid = s]]
  /\ UNCHANGED <<visitor, agent, unread, peerCache>>

\* The reload after the delete reads columns that no longer change.
Evict(c) ==
  /\ call[c].pc = "evict"
  /\ peerCache' = [peerCache EXCEPT ![NodeOf[c]][call[c].sid] = NoPeer]
  /\ Finish(c)
  /\ UNCHANGED rows

-----------------------------------------------------------------------------
(* GetPeerIDs *)

\* The caller recognises itself in a pair.
Hit(self, p) ==
  \/ self = p[1] /\ p[2] # None
  \/ self = p[2] /\ p[1] # None

\* Mutant: no test for a session that has no agent.
PeerOrZero(self, p) == IF self = p[1] THEN <<p[2], "agent">> ELSE <<p[1], "visitor">>

\* The user and the role GetPeerIDs returns for a pair it recognised, or for
\* any pair it has just read from the database.
PeerOf(self, p) ==
  IF self = p[1] /\ p[2] # None THEN <<p[2], "agent">> ELSE <<p[1], "visitor">>

Asks(c, role, u, s) ==
  /\ call[c].pc = "idle"
  /\ u \in IF role = "visitor" THEN Visitor ELSE Agent

PeerCached(c, role, u, s) ==
  /\ Asks(c, role, u, s)
  /\ Hit(u, peerCache[NodeOf[c]][s])
  /\ call' = [call EXCEPT ![c] = [pc |-> "answered", role |-> role, user |-> u,
                                  sid |-> s, peer |-> peerCache[NodeOf[c]][s]]]
  /\ UNCHANGED <<rows, peerCache>>

PeerMiss(c, role, u, s) ==
  /\ Asks(c, role, u, s)
  /\ ~Hit(u, peerCache[NodeOf[c]][s])
  /\ call' = [call EXCEPT ![c] = [pc |-> "load", role |-> role, user |-> u,
                                  sid |-> s, peer |-> NoPeer]]
  /\ UNCHANGED <<rows, peerCache>>

PeerLoad(c) ==
  /\ call[c].pc = "load"
  /\ status[call[c].sid] # "none"
  /\ call' = [call EXCEPT ![c].pc = "loadCache", ![c].peer = Row(call[c].sid)]
  /\ UNCHANGED <<rows, peerCache>>

PeerLoadFails(c) ==
  /\ call[c].pc = "load"
  /\ ReadFaults \/ status[call[c].sid] = "none"
  /\ Finish(c)
  /\ UNCHANGED <<rows, peerCache>>

-----------------------------------------------------------------------------
\* The handler is done with what the service returned.
Return(c) ==
  /\ call[c].pc \in {"got", "accepted", "conflict", "answered"}
  /\ Finish(c)
  /\ UNCHANGED <<rows, peerCache>>

\* A node stops and starts again: its goroutines and its cache are gone, its
\* open transactions roll back.
Crash(n) ==
  /\ call' = [c \in Call |-> IF NodeOf[c] = n THEN Idle ELSE call[c]]
  /\ peerCache' = [peerCache EXCEPT ![n] = [s \in Session |-> NoPeer]]
  /\ UNCHANGED rows

Step(c) ==
  \/ CachePeer(c)   \/ Commit(c)      \/ Rollback(c) \/ IncrementUnread(c)
  \/ ResetUnread(c) \/ Reload(c)      \/ ReloadFails(c)
  \/ Evict(c)       \/ PeerLoad(c)    \/ PeerLoadFails(c)
  \/ Return(c)
  \/ \E s \in Session : Insert(c, s)

Start(c) ==
  \/ \E v \in Visitor : FindFound(c, v) \/ FindNone(c, v) \/ FindFails(c, v)
  \/ \E s \in Session :
       \/ \E a \in Agent : AssignAgent(c, a, s) \/ AssignConflict(c, a, s)
       \/ CloseRow(c, s)
       \/ \E role \in Role, u \in User :
            PeerCached(c, role, u, s) \/ PeerMiss(c, role, u, s)

Next ==
  \/ \E c \in Call : Start(c) \/ Step(c)
  \/ \E n \in Node : Crash(n)

Spec == Init /\ [][Next]_vars

-----------------------------------------------------------------------------
(* Properties *)

TypeOK ==
  /\ status    \in [Session -> Status]
  /\ visitor   \in [Session -> Visitor \cup {None}]
  /\ agent     \in [Session -> Agent \cup {None}]
  /\ unread    \in [Session -> 0..MaxUnread]
  /\ peerCache \in [Node -> [Session -> Peer]]
  /\ call      \in [Call -> Calls]

\* A visitor has at most one session that is not closed, however many
\* connections and nodes its first messages arrive on (the transaction of
\* CreateOrGetSession).
OneOpenSession ==
  \A v \in Visitor : \A s, t \in Open(v) : s = t

\* Until an AcceptSession returns, its agent is the one in the row, and no
\* other call is accepting the same session (the status condition of
\* AssignAgent).
OneWinner ==
  \A c \in Call : call[c].pc \in Winning =>
    /\ agent[call[c].sid] = call[c].user
    /\ \A d \in Call :
         call[d].pc \in Winning /\ call[d].sid = call[c].sid => d = c

\* A cached pair that answers for anybody, one with an agent, is the pair in
\* the row, although the cache of one node hears nothing of another node's
\* accepts and closes and is filled outside the transactions.
CacheCoherent ==
  \A n \in Node, s \in Session :
    peerCache[n][s][2] # None => peerCache[n][s] = Row(s)

\* The agent a visitor's message is counted for and pushed to, taken from a
\* copy of the row that may be old, is the agent of that visitor's session.
PushTarget ==
  \A c \in Call : call[c].pc = "got" =>
    /\ visitor[call[c].sid] = call[c].user
    /\ call[c].peer[2] # None => call[c].peer[2] = agent[call[c].sid]

\* Unread messages are counted only for a session that has an agent to read
\* them: ResetUnread, which runs after AssignAgent, has nothing to clear but
\* what arrived in between.
UnreadHasAgent ==
  \A s \in Session : unread[s] > 0 => agent[s] # None

\* Whoever asks and however old the cache, GetPeerIDs answers with a party
\* of the session and with that party's own role.
PeerIsParty ==
  \A c \in Call : call[c].pc = "answered" =>
    PeerOf(call[c].user, call[c].peer)
      \in {<<visitor[call[c].sid], "visitor">>, <<agent[call[c].sid], "agent">>}
         \ {<<None, "agent">>}

\* What the row says never goes back: the abstract life of a session.  That a
\* visitor has one that is open is part of it where transactions exclude each
\* other and the search does not fail.
Lifecycle == INSTANCE SessionLifecycle WITH Unique <- Serializable /\ ~ReadFaults
Implements == Lifecycle!Spec
=============================================================================
