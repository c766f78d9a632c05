------------------------ MODULE SessionServiceProofs ------------------------
(***************************************************************************)
(* Proofs about SessionService, for every set of users, sessions, nodes    *)
(* and goroutines.                                                         *)
(***************************************************************************)
EXTENDS SessionService, TLAPS

(* The inductive invariant *)

\* The columns of a row by its status.
RowsOK ==
  \A s \in Session :
    /\ status[s] = "none"    => visitor[s] = None /\ agent[s] = None
    /\ status[s] # "none"    => visitor[s] \in Visitor
    /\ status[s] = "pending" => agent[s] = None

\* A goroutine that is about to insert, or has inserted, for a visitor.
WritersOK ==
  \A c \in Call :
    /\ call[c].pc \in {"insert", "insertBlind"} \cup Writing => call[c].user \in Visitor
    /\ call[c].pc \in Writing =>
         /\ call[c].sid \in Session
         /\ status[call[c].sid] = "none"
         /\ call[c].peer = <<call[c].user, None>>
         /\ \A d \in Call :
              call[d].pc \in Writing /\ call[d].sid = call[c].sid => d = c

\* A copy of a row is the row, or the row before it had an agent.
CopiesOK ==
  \A c \in Call :
    /\ call[c].pc \in {"gotCache", "got", "acceptCache", "accepted", "loadCache",
                       "answered"} =>
         /\ call[c].sid \in Session
         /\ status[call[c].sid] # "none"
         /\ call[c].peer[1] = visitor[call[c].sid]
         /\ call[c].peer[2] \in {None, agent[call[c].sid]}
    /\ call[c].pc \in {"gotCache", "got"} => call[c].user = visitor[call[c].sid]

\* A goroutine in AcceptSession has a session and an agent of its own.
WinnersOK ==
  \A c \in Call : call[c].pc \in Winning =>
    /\ call[c].sid \in Session
    /\ call[c].user \in Agent
    /\ status[call[c].sid] \in {"active", "closed"}

\* What the other program counters know.
LocalsOK ==
  \A c \in Call :
    /\ call[c].pc \in {"evict", "load", "conflict"} => call[c].sid \in Session
    /\ call[c].pc \in {"load", "answered", "loadCache"} => call[c].user \in User

IInv ==
  /\ TypeOK /\ RowsOK /\ WritersOK /\ CopiesOK /\ WinnersOK /\ LocalsOK
  /\ OneWinner /\ CacheCoherent

-----------------------------------------------------------------------------
LEMMA InitIInv == Init => IInv
<1> SUFFICES ASSUME Init PROVE IInv
  OBVIOUS
<1> QED
  BY NodeAssumption, UnreadAssumption
  DEF Init, IInv, TypeOK, RowsOK, WritersOK, CopiesOK, WinnersOK, LocalsOK,
      OneWinner, CacheCoherent, Idle, NoPeer, Row, Calls, PC, Role, Status,
      Peer, User, Writing, Caching, Winning


\* Most steps only move one goroutine: what the shared state says of itself
\* stays, and the types need only the new locals.
LEMMA LocalStep ==
  ASSUME IInv, UNCHANGED <<rows, peerCache>>, call' \in [Call -> Calls]
  PROVE  TypeOK' /\ RowsOK' /\ CacheCoherent'
  BY DEF IInv, TypeOK, RowsOK, CacheCoherent, Row, rows

LEMMA GotoType ==
  ASSUME TypeOK, NEW c \in Call, NEW pc \in PC, Goto(c, pc)
  PROVE  call' \in [Call -> Calls]
<1>1. call[c] \in Calls
  BY DEF TypeOK
<1>2. [call[c] EXCEPT !.pc = pc] \in Calls
  BY <1>1 DEF Calls
<1> QED
  BY <1>2 DEF Goto, TypeOK

LEMMA NextIInv == IInv /\ [Next]_vars => IInv'
<1> SUFFICES ASSUME IInv, [Next]_vars PROVE IInv'
  OBVIOUS
<1> USE NoneAssumption, NodeAssumption, UnreadAssumption
    DEF IInv, rows, Calls, PC, Role, Status, Peer, User,
        Writing, Caching, Winning, Row, NoPeer, Idle, Goto, Finish
<1>1. ASSUME NEW c \in Call, NEW v \in Visitor, FindFound(c, v)
      PROVE  IInv'
  <2>1. call' \in [Call -> Calls]
    BY <1>1 DEF FindFound, Open, TypeOK
  <2>2. WritersOK' /\ LocalsOK'
    BY <1>1 DEF FindFound, Open, TypeOK, WritersOK, LocalsOK
  <2>3. CopiesOK'
    BY <1>1 DEF FindFound, Open, TypeOK, CopiesOK, RowsOK
  <2>4. WinnersOK' /\ OneWinner'
    BY <1>1 DEF FindFound, Open, TypeOK, WinnersOK, OneWinner
  <2> QED
    BY <1>1, LocalStep, <2>1, <2>2, <2>3, <2>4 DEF FindFound, Open
<1>2. ASSUME NEW c \in Call, NEW v \in Visitor, FindNone(c, v)
      PROVE  IInv'
  <2>1. call' \in [Call -> Calls]
    BY <1>2 DEF FindNone, TypeOK
  <2>2. WritersOK' /\ LocalsOK'
    BY <1>2 DEF FindNone, TypeOK, WritersOK, LocalsOK
  <2>3. CopiesOK'
    BY <1>2 DEF FindNone, TypeOK, CopiesOK
  <2>4. WinnersOK' /\ OneWinner'
    BY <1>2 DEF FindNone, TypeOK, WinnersOK, OneWinner
  <2> QED
    BY <1>2, LocalStep, <2>1, <2>2, <2>3, <2>4 DEF FindNone
<1>3. ASSUME NEW c \in Call, NEW v \in Visitor, FindFails(c, v)
      PROVE  IInv'
  <2>1. call' \in [Call -> Calls]
    BY <1>3 DEF FindFails, TypeOK
  <2>2. WritersOK' /\ LocalsOK'
    BY <1>3 DEF FindFails, TypeOK, WritersOK, LocalsOK
  <2>3. CopiesOK'
    BY <1>3 DEF FindFails, TypeOK, CopiesOK
  <2>4. WinnersOK' /\ OneWinner'
    BY <1>3 DEF FindFails, TypeOK, WinnersOK, OneWinner
  <2> QED
    BY <1>3, LocalStep, <2>1, <2>2, <2>3, <2>4 DEF FindFails
<1>4. ASSUME NEW c \in Call, NEW s \in Session, Insert(c, s)
      PROVE  IInv'
  <2>1. call' \in [Call -> Calls]
    <3>1. call[c] \in Calls /\ <<call[c].user, None>> \in Peer
      BY <1>4 DEF Insert, TypeOK, WritersOK
    <3>2. [call[c] EXCEPT !.pc = "insertCache", !.sid = s,
                          !.peer = <<call[c].user, None>>] \in Calls
      BY <3>1
    <3> QED
      BY <1>4, <3>2 DEF Insert, TypeOK
  <2>2. WritersOK' /\ LocalsOK'
    BY <1>4 DEF Insert, Writers, TypeOK, WritersOK, LocalsOK
  <2>3. CopiesOK'
    BY <1>4 DEF Insert, Writers, TypeOK, CopiesOK
  <2>4. WinnersOK' /\ OneWinner'
    BY <1>4 DEF Insert, Writers, TypeOK, WinnersOK, OneWinner
  <2> QED
    BY <1>4, LocalStep, <2>1, <2>2, <2>3, <2>4 DEF Insert, Writers
<1>5. ASSUME NEW c \in Call, CachePeer(c)
      PROVE  IInv'
  <2>1. call[c].sid \in Session /\ call[c].pc \in Caching
    BY <1>5 DEF CachePeer, AfterCaching, WritersOK, CopiesOK
  <2>2. TypeOK'
    <3>1. peerCache' \in [Node -> [Session -> Peer]]
      <4>1. NodeOf[c] \in Node /\ call[c].peer \in Peer
        BY DEF TypeOK
      <4> HIDE DEF Peer
      <4> QED
        BY <1>5, <2>1, <4>1 DEF CachePeer, TypeOK
    <3>2. call' \in [Call -> Calls]
      BY <1>5, GotoType DEF CachePeer
    <3> QED
      BY <1>5, <3>1, <3>2 DEF CachePeer, TypeOK
  <2>3. RowsOK'
    BY <1>5, <2>1 DEF CachePeer, AfterCaching, TypeOK, RowsOK
  <2>4. WritersOK'
    BY <1>5, <2>1 DEF CachePeer, AfterCaching, TypeOK, WritersOK, CopiesOK
  <2>5. LocalsOK'
    BY <1>5, <2>1 DEF CachePeer, AfterCaching, TypeOK, LocalsOK, CopiesOK
  <2>6. CopiesOK'
    BY <1>5, <2>1 DEF CachePeer, AfterCaching, TypeOK, CopiesOK, WritersOK
  <2>7. WinnersOK'
    BY <1>5, <2>1 DEF CachePeer, AfterCaching, TypeOK, WinnersOK
  <2>8. OneWinner'
    BY <1>5, <2>1 DEF CachePeer, AfterCaching, TypeOK, OneWinner
  <2>9. CacheCoherent'
    BY <1>5, <2>1 DEF CachePeer, AfterCaching, TypeOK, CacheCoherent, CopiesOK, WritersOK
  <2> QED
    BY <2>1, <2>2, <2>3, <2>4, <2>5, <2>6, <2>7, <2>8, <2>9
<1>6. ASSUME NEW c \in Call, Commit(c)
      PROVE  IInv'
  <2>1. call[c].sid \in Session /\ call[c].user \in Visitor
    BY <1>6 DEF Commit, WritersOK
  <2>2. TypeOK'
    <3>1. status' \in [Session -> Status] /\ visitor' \in [Session -> Visitor \cup {None}]
      BY <1>6, <2>1 DEF Commit, TypeOK
    <3>2. call' \in [Call -> Calls]
      BY <1>6, GotoType DEF Commit
    <3> QED
      BY <1>6, <3>1, <3>2 DEF Commit, TypeOK
  <2>3. RowsOK'
    BY <1>6, <2>1 DEF Commit, TypeOK, RowsOK, WritersOK
  <2>4. WritersOK'
    BY <1>6, <2>1 DEF Commit, TypeOK, WritersOK
  <2>5. LocalsOK'
    BY <1>6, <2>1 DEF Commit, TypeOK, LocalsOK
  <2>6. CopiesOK'
    BY <1>6, <2>1 DEF Commit, TypeOK, CopiesOK, WritersOK, RowsOK
  <2>7. WinnersOK'
    BY <1>6, <2>1 DEF Commit, TypeOK, WinnersOK, WritersOK, RowsOK
  <2>8. OneWinner'
    BY <1>6, <2>1 DEF Commit, TypeOK, OneWinner, WritersOK, RowsOK
  <2>9. CacheCoherent'
    BY <1>6, <2>1 DEF Commit, TypeOK, CacheCoherent, RowsOK, WritersOK
  <2> QED
    BY <2>1, <2>2, <2>3, <2>4, <2>5, <2>6, <2>7, <2>8, <2>9
<1>7. ASSUME NEW c \in Call, Rollback(c)
      PROVE  IInv'
  <2>1. call' \in [Call -> Calls]
    BY <1>7 DEF Rollback, TypeOK
  <2>2. WritersOK' /\ LocalsOK'
    BY <1>7 DEF Rollback, TypeOK, WritersOK, LocalsOK
  <2>3. CopiesOK'
    BY <1>7 DEF Rollback, TypeOK, CopiesOK
  <2>4. WinnersOK' /\ OneWinner'
    BY <1>7 DEF Rollback, TypeOK, WinnersOK, OneWinner
  <2> QED
    BY <1>7, LocalStep, <2>1, <2>2, <2>3, <2>4 DEF Rollback
<1>8. ASSUME NEW c \in Call, IncrementUnread(c)
      PROVE  IInv'
  <2>1. call[c].sid \in Session
    BY <1>8 DEF IncrementUnread, CopiesOK
  <2>2. TypeOK'
    BY <1>8, <2>1 DEF IncrementUnread, TypeOK
  <2>3. RowsOK'
    BY <1>8, <2>1 DEF IncrementUnread, TypeOK, RowsOK
  <2>4. WritersOK'
    BY <1>8, <2>1 DEF IncrementUnread, TypeOK, WritersOK
  <2>5. LocalsOK'
    BY <1>8, <2>1 DEF IncrementUnread, TypeOK, LocalsOK
  <2>6. CopiesOK'
    BY <1>8, <2>1 DEF IncrementUnread, TypeOK, CopiesOK
  <2>7. WinnersOK'
    BY <1>8, <2>1 DEF IncrementUnread, TypeOK, WinnersOK
  <2>8. OneWinner'
    BY <1>8, <2>1 DEF IncrementUnread, TypeOK, OneWinner
  <2>9. CacheCoherent'
    BY <1>8, <2>1 DEF IncrementUnread, TypeOK, CacheCoherent
  <2> QED
    BY <2>1, <2>2, <2>3, <2>4, <2>5, <2>6, <2>7, <2>8, <2>9
<1>9. ASSUME NEW c \in Call, NEW a \in Agent, NEW s \in Session, AssignAgent(c, a, s)
      PROVE  IInv'
  <2>1. TypeOK'
    BY <1>9 DEF AssignAgent, Assignable, TypeOK
  <2>2. RowsOK'
    BY <1>9 DEF AssignAgent, Assignable, TypeOK, RowsOK
  <2>3. WritersOK'
    BY <1>9 DEF AssignAgent, Assignable, TypeOK, WritersOK
  <2>4. LocalsOK'
    BY <1>9 DEF AssignAgent, Assignable, TypeOK, LocalsOK
  <2>5. CopiesOK'
    BY <1>9 DEF AssignAgent, Assignable, TypeOK, CopiesOK, RowsOK
  <2>6. WinnersOK'
    BY <1>9 DEF AssignAgent, Assignable, TypeOK, WinnersOK, WinnersOK
  <2>7. OneWinner'
    <3>1. \A d \in Call : call[d].pc \in Winning => call[d].sid # s /\ d # c
      BY <1>9 DEF AssignAgent, Assignable, WinnersOK
    <3>2. agent'[s] = a /\ \A t \in Session \ {s} : agent'[t] = agent[t]
      BY <1>9 DEF AssignAgent, TypeOK
    <3>3. call'[c].pc = "reset" /\ call'[c].sid = s /\ call'[c].user = a
      BY <1>9 DEF AssignAgent, TypeOK
    <3>4. \A d \in Call \ {c} : call'[d] = call[d]
      BY <1>9 DEF AssignAgent, TypeOK
    <3> QED
      BY <3>1, <3>2, <3>3, <3>4 DEF OneWinner, WinnersOK
  <2>8. CacheCoherent'
    BY <1>9 DEF AssignAgent, Assignable, TypeOK, CacheCoherent, RowsOK
  <2> QED
    BY <2>1, <2>2, <2>3, <2>4, <2>5, <2>6, <2>7, <2>8
<1>10. ASSUME NEW c \in Call, NEW a \in Agent, NEW s \in Session, AssignConflict(c, a, s)
      PROVE  IInv'
  <2>1. call' \in [Call -> Calls]
    BY <1>10 DEF AssignConflict, TypeOK
  <2>2. WritersOK' /\ LocalsOK'
    BY <1>10 DEF AssignConflict, TypeOK, WritersOK, LocalsOK
  <2>3. CopiesOK'
    BY <1>10 DEF AssignConflict, TypeOK, CopiesOK
  <2>4. WinnersOK' /\ OneWinner'
    BY <1>10 DEF AssignConflict, TypeOK, WinnersOK, OneWinner
  <2> QED
    BY <1>10, LocalStep, <2>1, <2>2, <2>3, <2>4 DEF AssignConflict
<1>11. ASSUME NEW c \in Call, ResetUnread(c)
      PROVE  IInv'
  <2>1. call[c].sid \in Session
    BY <1>11 DEF ResetUnread, WinnersOK
  <2>2. TypeOK'
    <3>1. 0 \in 0..MaxUnread
      OBVIOUS
    <3>2. unread' \in [Session -> 0..MaxUnread]
      BY <1>11, <2>1, <3>1 DEF ResetUnread, TypeOK
    <3> QED
      BY <1>11, <3>2, GotoType DEF ResetUnread, TypeOK
  <2>3. RowsOK'
    BY <1>11, <2>1 DEF ResetUnread, TypeOK, RowsOK
  <2>4. WritersOK'
    BY <1>11, <2>1 DEF ResetUnread, TypeOK, WritersOK
  <2>5. LocalsOK'
    BY <1>11, <2>1 DEF ResetUnread, TypeOK, LocalsOK
  <2>6. CopiesOK'
    BY <1>11, <2>1 DEF ResetUnread, TypeOK, CopiesOK
  <2>7. WinnersOK'
    BY <1>11, <2>1 DEF ResetUnread, TypeOK, WinnersOK
  <2>8. OneWinner'
    BY <1>11, <2>1 DEF ResetUnread, TypeOK, OneWinner
  <2>9. CacheCoherent'
    BY <1>11, <2>1 DEF ResetUnread, TypeOK, CacheCoherent
  <2> QED
    BY <2>1, <2>2, <2>3, <2>4, <2>5, <2>6, <2>7, <2>8, <2>9
<1>12. ASSUME NEW c \in Call, Reload(c)
      PROVE  IInv'
  <2>1. call[c].sid \in Session /\ call[c].user \in Agent
    BY <1>12 DEF Reload, WinnersOK
  <2>2. call' \in [Call -> Calls]
    <3>1. call[c] \in Calls /\ <<visitor[call[c].sid], call[c].user>> \in Peer
      BY <2>1 DEF TypeOK
    <3>2. [call[c] EXCEPT !.pc = "acceptCache",
                          !.peer = <<visitor[call[c].sid], call[c].user>>] \in Calls
      BY <3>1
    <3> QED
      BY <1>12, <3>2 DEF Reload, TypeOK
  <2>3. WritersOK' /\ LocalsOK'
    BY <1>12, <2>1 DEF Reload, TypeOK, WritersOK, LocalsOK
  <2>4. CopiesOK'
    BY <1>12, <2>1 DEF Reload, TypeOK, CopiesOK, WinnersOK, OneWinner, RowsOK
  <2>5. WinnersOK' /\ OneWinner'
    BY <1>12, <2>1 DEF Reload, TypeOK, WinnersOK, OneWinner
  <2> QED
    BY <1>12, LocalStep, <2>1, <2>2, <2>3, <2>4, <2>5 DEF Reload
<1>13. ASSUME NEW c \in Call, ReloadFails(c)
      PROVE  IInv'
  <2>1. call' \in [Call -> Calls]
    BY <1>13 DEF ReloadFails, TypeOK
  <2>2. WritersOK' /\ LocalsOK'
    BY <1>13 DEF ReloadFails, TypeOK, WritersOK, LocalsOK
  <2>3. CopiesOK'
    BY <1>13 DEF ReloadFails, TypeOK, CopiesOK
  <2>4. WinnersOK' /\ OneWinner'
    BY <1>13 DEF ReloadFails, TypeOK, WinnersOK, OneWinner
  <2> QED
    BY <1>13, LocalStep, <2>1, <2>2, <2>3, <2>4 DEF ReloadFails
<1>14. ASSUME NEW c \in Call, NEW s \in Session, CloseRow(c, s)
      PROVE  IInv'
  <2>1. TypeOK'
    BY <1>14 DEF CloseRow, TypeOK
  <2>2. RowsOK'
    BY <1>14 DEF CloseRow, TypeOK, RowsOK
  <2>3. WritersOK'
    BY <1>14 DEF CloseRow, TypeOK, WritersOK
  <2>4. LocalsOK'
    BY <1>14 DEF CloseRow, TypeOK, LocalsOK
  <2>5. CopiesOK'
    BY <1>14 DEF CloseRow, TypeOK, CopiesOK
  <2>6. WinnersOK'
    BY <1>14 DEF CloseRow, TypeOK, WinnersOK
  <2>7. OneWinner'
    BY <1>14 DEF CloseRow, TypeOK, OneWinner
  <2>8. CacheCoherent'
    BY <1>14 DEF CloseRow, TypeOK, CacheCoherent
  <2> QED
    BY <2>1, <2>2, <2>3, <2>4, <2>5, <2>6, <2>7, <2>8
<1>15. ASSUME NEW c \in Call, Evict(c)
      PROVE  IInv'
  <2>1. call[c].sid \in Session
    BY <1>15 DEF Evict, LocalsOK
  <2>2. TypeOK'
    BY <1>15, <2>1 DEF Evict, TypeOK
  <2>3. RowsOK'
    BY <1>15, <2>1 DEF Evict, TypeOK, RowsOK
  <2>4. WritersOK'
    BY <1>15, <2>1 DEF Evict, TypeOK, WritersOK
  <2>5. LocalsOK'
    BY <1>15, <2>1 DEF Evict, TypeOK, LocalsOK
  <2>6. CopiesOK'
    BY <1>15, <2>1 DEF Evict, TypeOK, CopiesOK
  <2>7. WinnersOK'
    BY <1>15, <2>1 DEF Evict, TypeOK, WinnersOK
  <2>8. OneWinner'
    BY <1>15, <2>1 DEF Evict, TypeOK, OneWinner
  <2>9. CacheCoherent'
    BY <1>15, <2>1 DEF Evict, TypeOK, CacheCoherent
  <2> QED
    BY <2>1, <2>2, <2>3, <2>4, <2>5, <2>6, <2>7, <2>8, <2>9
<1>16. ASSUME NEW c \in Call, NEW role \in Role, NEW u \in User, NEW s \in Session,
              PeerCached(c, role, u, s)
      PROVE  IInv'
  <2>1. call' \in [Call -> Calls]
    BY <1>16 DEF PeerCached, Asks, Hit, TypeOK
  <2>2. WritersOK' /\ LocalsOK'
    BY <1>16 DEF PeerCached, Asks, Hit, TypeOK, WritersOK, LocalsOK
  <2>3. CopiesOK'
    BY <1>16 DEF PeerCached, Asks, Hit, TypeOK, CopiesOK, CacheCoherent, RowsOK
  <2>4. WinnersOK' /\ OneWinner'
    BY <1>16 DEF PeerCached, Asks, Hit, TypeOK, WinnersOK, OneWinner
  <2> QED
    BY <1>16, LocalStep, <2>1, <2>2, <2>3, <2>4 DEF PeerCached, Asks, Hit
<1>17. ASSUME NEW c \in Call, NEW role \in Role, NEW u \in User, NEW s \in Session,
              PeerMiss(c, role, u, s)
      PROVE  IInv'
  <2>1. call' \in [Call -> Calls]
    BY <1>17 DEF PeerMiss, Asks, TypeOK
  <2>2. WritersOK' /\ LocalsOK'
    BY <1>17 DEF PeerMiss, Asks, TypeOK, WritersOK, LocalsOK
  <2>3. CopiesOK'
    BY <1>17 DEF PeerMiss, Asks, TypeOK, CopiesOK
  <2>4. WinnersOK' /\ OneWinner'
    BY <1>17 DEF PeerMiss, Asks, TypeOK, WinnersOK, OneWinner
  <2> QED
    BY <1>17, LocalStep, <2>1, <2>2, <2>3, <2>4 DEF PeerMiss, Asks
<1>18. ASSUME NEW c \in Call, PeerLoad(c)
      PROVE  IInv'
  <2>1. call[c].sid \in Session
    BY <1>18 DEF PeerLoad, LocalsOK
  <2>2. call' \in [Call -> Calls]
    <3>1. call[c] \in Calls /\ Row(call[c].sid) \in Peer
      BY <2>1 DEF TypeOK
    <3>2. [call[c] EXCEPT !.pc = "loadCache", !.peer = Row(call[c].sid)] \in Calls
      BY <3>1
    <3> QED
      BY <1>18, <3>2 DEF PeerLoad, TypeOK
  <2>3. WritersOK' /\ LocalsOK'
    BY <1>18, <2>1 DEF PeerLoad, TypeOK, WritersOK, LocalsOK
  <2>4. CopiesOK'
    BY <1>18, <2>1 DEF PeerLoad, TypeOK, CopiesOK
  <2>5. WinnersOK' /\ OneWinner'
    BY <1>18, <2>1 DEF PeerLoad, TypeOK, WinnersOK, OneWinner
  <2> QED
    BY <1>18, LocalStep, <2>1, <2>2, <2>3, <2>4, <2>5 DEF PeerLoad
<1>19. ASSUME NEW c \in Call, PeerLoadFails(c)
      PROVE  IInv'
  <2>1. call' \in [Call -> Calls]
    BY <1>19 DEF PeerLoadFails, TypeOK
  <2>2. WritersOK' /\ LocalsOK'
    BY <1>19 DEF PeerLoadFails, TypeOK, WritersOK, LocalsOK
  <2>3. CopiesOK'
    BY <1>19 DEF PeerLoadFails, TypeOK, CopiesOK
  <2>4. WinnersOK' /\ OneWinner'
    BY <1>19 DEF PeerLoadFails, TypeOK, WinnersOK, OneWinner
  <2> QED
    BY <1>19, LocalStep, <2>1, <2>2, <2>3, <2>4 DEF PeerLoadFails
<1>20. ASSUME NEW c \in Call, Return(c)
      PROVE  IInv'
  <2>1. call' \in [Call -> Calls]
    BY <1>20 DEF Return, TypeOK
  <2>2. WritersOK' /\ LocalsOK'
    BY <1>20 DEF Return, TypeOK, WritersOK, LocalsOK
  <2>3. CopiesOK'
    BY <1>20 DEF Return, TypeOK, CopiesOK
  <2>4. WinnersOK' /\ OneWinner'
    BY <1>20 DEF Return, TypeOK, WinnersOK, OneWinner
  <2> QED
    BY <1>20, LocalStep, <2>1, <2>2, <2>3, <2>4 DEF Return
<1>21. ASSUME NEW n \in Node, Crash(n)
      PROVE  IInv'
  <2>1. TypeOK'
    BY <1>21 DEF Crash, TypeOK
  <2>2. RowsOK' /\ WritersOK' /\ LocalsOK'
    BY <1>21 DEF Crash, TypeOK, RowsOK, WritersOK, LocalsOK
  <2>3. CopiesOK' /\ WinnersOK' /\ OneWinner'
    BY <1>21 DEF Crash, TypeOK, CopiesOK, WinnersOK, OneWinner
  <2>4. CacheCoherent'
    BY <1>21 DEF Crash, TypeOK, CacheCoherent
  <2> QED
    BY <2>1, <2>2, <2>3, <2>4
<1>22. CASE UNCHANGED vars
  <2>1. TypeOK' /\ RowsOK' /\ CacheCoherent'
    BY <1>22, LocalStep DEF vars, TypeOK
  <2>2. WritersOK' /\ LocalsOK' /\ CopiesOK' /\ WinnersOK' /\ OneWinner'
    BY <1>22 DEF vars, WritersOK, LocalsOK, CopiesOK, WinnersOK, OneWinner
  <2> QED
    BY <2>1, <2>2
<1>23. CASE Next
  <2>1. ASSUME NEW c \in Call, Start(c)
        PROVE  IInv'
    BY <2>1, <1>1, <1>2, <1>3, <1>9, <1>10, <1>14, <1>16, <1>17 DEF Start
  <2>2. ASSUME NEW c \in Call, Step(c)
        PROVE  IInv'
    BY <2>2, <1>4, <1>5, <1>6, <1>7, <1>8, <1>11, <1>12, <1>13, <1>15, <1>18,
       <1>19, <1>20
    DEF Step
  <2> QED
    BY <1>23, <1>21, <2>1, <2>2 DEF Next
<1> QED
  BY <1>22, <1>23
\* The inductive invariant is one.
THEOREM Inductive == Spec => []IInv
<1>1. Init => IInv
  BY InitIInv
<1>2. IInv /\ [Next]_vars => IInv'
  BY NextIInv
<1> QED
  BY <1>1, <1>2, PTL DEF Spec

\* Every variable keeps its type.
THEOREM TypeCorrect == Spec => []TypeOK
<1>1. IInv => TypeOK
  BY DEF IInv
<1> QED
  BY <1>1, Inductive, PTL

\* AcceptSession has one winner per session, with any number of nodes and
\* under any isolation: the conditional update of AssignAgent is enough.
THEOREM AcceptOnce == Spec => []OneWinner
<1>1. IInv => OneWinner
  BY DEF IInv
<1> QED
  BY <1>1, Inductive, PTL

\* No cache, on whatever node and however old, answers with a pair that is
\* not the one in the row.
THEOREM CacheSound == Spec => []CacheCoherent
<1>1. IInv => CacheCoherent
  BY DEF IInv
<1> QED
  BY <1>1, Inductive, PTL

\* A visitor's message is counted for, and pushed to, the agent of the
\* visitor's own session.
THEOREM PushSound == Spec => []PushTarget
<1>1. IInv => PushTarget
  BY DEF IInv, CopiesOK, PushTarget
<1> QED
  BY <1>1, Inductive, PTL

\* GetPeerIDs answers with a party of the session.
THEOREM PeerSound == Spec => []PeerIsParty
<1>1. IInv => PeerIsParty
  <2> SUFFICES ASSUME IInv, NEW c \in Call, call[c].pc = "answered"
               PROVE  PeerOf(call[c].user, call[c].peer)
                        \in {<<visitor[call[c].sid], "visitor">>,
                             <<agent[call[c].sid], "agent">>} \ {<<None, "agent">>}
    BY DEF PeerIsParty
  <2>1. /\ call[c].peer[1] = visitor[call[c].sid]
        /\ call[c].peer[2] \in {None, agent[call[c].sid]}
    BY DEF IInv, CopiesOK
  <2>2. CASE call[c].user = call[c].peer[1] /\ call[c].peer[2] # None
    BY <2>1, <2>2 DEF PeerOf
  <2>3. CASE ~(call[c].user = call[c].peer[1] /\ call[c].peer[2] # None)
    BY <2>1, <2>3 DEF PeerOf
  <2> QED
    BY <2>2, <2>3
<1> QED
  BY <1>1, Inductive, PTL

\* Nothing is counted as unread before there is an agent to read it.
THEOREM UnreadSound == Spec => []UnreadHasAgent
<1>1. Init => UnreadHasAgent
  BY DEF Init, UnreadHasAgent
<1>2. IInv /\ UnreadHasAgent /\ [Next]_vars => UnreadHasAgent'
  <2> SUFFICES ASSUME IInv, UnreadHasAgent, [Next]_vars, NEW s \in Session,
                      unread'[s] > 0
               PROVE  agent'[s] # None
    BY DEF UnreadHasAgent
  <2> USE DEF rows
  <2>1. /\ agent[s] # None => agent'[s] # None
        /\ \/ unread'[s] <= unread[s]
           \/ \E c \in Call : IncrementUnread(c)
    <3> USE DEF IInv, TypeOK
    <3>1. ASSUME NEW c \in Call, NEW a \in Agent, NEW t \in Session, AssignAgent(c, a, t)
          PROVE  UNCHANGED unread /\ (agent[s] # None => agent'[s] # None)
      BY <3>1, NoneAssumption DEF AssignAgent
    <3>2. ASSUME NEW c \in Call, Start(c)
          PROVE  UNCHANGED unread /\ (agent[s] # None => agent'[s] # None)
      BY <3>1, <3>2 DEF Start, FindFound, FindNone, FindFails, AssignConflict,
         CloseRow, PeerCached, PeerMiss
    <3>3. ASSUME NEW c \in Call, Step(c), ~IncrementUnread(c)
          PROVE  UNCHANGED agent /\ unread'[s] <= unread[s]
      <4>1. CASE ResetUnread(c)
        BY <4>1 DEF ResetUnread
      <4>2. ASSUME ~ResetUnread(c)
            PROVE  UNCHANGED <<agent, unread>>
        BY <3>3, <4>2 DEF Step, Insert, CachePeer, Commit, Rollback, Reload,
           ReloadFails, Evict, PeerLoad, PeerLoadFails, Return
      <4>3. unread[s] <= unread[s]
        BY UnreadAssumption
      <4> QED
        BY <4>1, <4>2, <4>3
    <3>4. ASSUME NEW c \in Call, IncrementUnread(c)
          PROVE  UNCHANGED agent
      BY <3>4 DEF IncrementUnread
    <3>5. ASSUME NEW n \in Node, Crash(n)
          PROVE  UNCHANGED <<agent, unread>>
      BY <3>5 DEF Crash
    <3> QED
      BY <3>2, <3>3, <3>4, <3>5 DEF Next, vars
  <2>2. CASE unread[s] > 0
    BY <2>1, <2>2 DEF UnreadHasAgent
  <2>3. CASE ~(unread[s] > 0)
    <3>1. PICK c \in Call : IncrementUnread(c)
      <4>1. unread[s] \in Nat /\ unread'[s] \in Nat
        BY NextIInv, UnreadAssumption DEF IInv, TypeOK
      <4> QED
        BY <2>1, <2>3, <4>1
    <3>2. IncrementUnread(c) /\ call[c].sid = s
      BY <2>3, <3>1 DEF IncrementUnread, IInv, TypeOK
    <3> QED
      BY <3>2 DEF IncrementUnread, IInv, CopiesOK
  <2> QED
    BY <2>2, <2>3
<1> QED
  BY <1>1, <1>2, Inductive, PTL DEF Spec

-----------------------------------------------------------------------------
(***************************************************************************)
(* One open session per visitor, on a database with one writer at a time   *)
(* whose reads do not fail.  The strengthening: at most one goroutine is   *)
(* between its insert and its commit, and its visitor still has no open    *)
(* session then.                                                           *)
(***************************************************************************)
SInv ==
  /\ IInv
  /\ OneOpenSession
  /\ \A c, d \in Writers : c = d
  /\ \A c \in Writers : Open(call[c].user) = {}
  /\ \A c \in Call : call[c].pc # "insertBlind"

\* A step that neither inserts nor commits keeps it.
Quiet ==
  /\ Writers' \subseteq Writers
  /\ \A c \in Writers' : call'[c].user = call[c].user
  /\ \A v : Open(v)' \subseteq Open(v)
  /\ \A c \in Call : call'[c].pc # "insertBlind"

LEMMA QuietSInv ==
  ASSUME SInv, IInv', Quiet
  PROVE  SInv'
<1>1. OneOpenSession'
  BY DEF SInv, Quiet, OneOpenSession
<1>2. \A c, d \in Writers' : c = d
  BY DEF SInv, Quiet
<1>3. (\A c \in Writers : Open(call[c].user) = {})'
  <2> SUFFICES ASSUME NEW c \in Writers' PROVE Open(call[c].user)' = {}
    OBVIOUS
  <2>1. Open(call[c].user) = {} /\ call'[c].user = call[c].user
    BY DEF SInv, Quiet
  <2>2. Open(call[c].user)' \subseteq Open(call[c].user)
    BY <2>1 DEF Quiet, Open
  <2> QED
    BY <2>1, <2>2
<1> QED
  BY <1>1, <1>2, <1>3 DEF SInv, Quiet

LEMMA NextSInv ==
  ASSUME Serializable, ~ReadFaults, SInv, [Next]_vars
  PROVE  SInv'
<1>1. IInv'
  BY NextIInv DEF SInv
<1> SUFFICES ASSUME Next PROVE SInv'
  <2> SUFFICES ASSUME UNCHANGED vars PROVE SInv'
    OBVIOUS
  <2>1. Quiet
    BY DEF vars, Quiet, Writers, Open, SInv
  <2> QED
    BY <2>1, <1>1, QuietSInv
<1>2. TypeOK /\ WritersOK
  BY DEF SInv, IInv
<1>3. ASSUME NEW c \in Call, NEW s \in Session, Insert(c, s)
      PROVE  SInv'
  <2>1. Writers = {} /\ Open(call[c].user) = {}
    BY <1>3 DEF Insert, WriteAllowed, SInv
  <2>2. /\ Writers' = {c}
        /\ call'[c].user = call[c].user
        /\ \A d \in Call : call'[d].pc # "insertBlind"
    BY <1>2, <1>3, <2>1 DEF Insert, Writers, Writing, TypeOK, Calls, SInv
  <2>3. \A v : Open(v)' = Open(v)
    BY <1>3 DEF Insert, Open, rows
  <2>4. OneOpenSession'
    BY <2>3 DEF SInv, OneOpenSession
  <2> QED
    BY <1>1, <2>1, <2>2, <2>3, <2>4 DEF SInv
<1>4. ASSUME NEW c \in Call, Commit(c)
      PROVE  SInv'
  <2> DEFINE s == call[c].sid
             v == call[c].user
  <2>1. c \in Writers /\ s \in Session /\ status[s] = "none" /\ Open(v) = {}
    BY <1>2, <1>4 DEF Commit, Writers, Writing, WritersOK, SInv
  <2>2. /\ Writers' = {}
        /\ \A d \in Call : call'[d].pc # "insertBlind"
    BY <1>2, <1>4, <2>1 DEF Commit, Goto, Writers, Writing, TypeOK, Calls, SInv
  <2>3. \A t \in Session \ {s} : status'[t] = status[t] /\ visitor'[t] = visitor[t]
    BY <1>4 DEF Commit, TypeOK
  <2>4. visitor'[s] = v
    BY <1>2, <1>4, <2>1 DEF Commit, TypeOK
  <2>5. OneOpenSession'
    <3> SUFFICES ASSUME NEW w \in Visitor, NEW t \in Session, NEW u \in Session,
                        status'[t] \in {"pending", "active"}, visitor'[t] = w,
                        status'[u] \in {"pending", "active"}, visitor'[u] = w
                 PROVE  t = u
      BY DEF OneOpenSession, Open
    <3>1. CASE w = v
      BY <2>1, <2>3, <3>1 DEF Open
    <3>2. CASE w # v
      <4>1. t \in Open(w) /\ u \in Open(w)
        BY <2>3, <2>4, <3>2 DEF Open
      <4> QED
        BY <4>1 DEF SInv, OneOpenSession
    <3> QED
      BY <3>1, <3>2
  <2> QED
    BY <1>1, <2>2, <2>5 DEF SInv
<1> QED
  <2>1. CASE \E c \in Call, s \in Session : Insert(c, s)
    BY <2>1, <1>3
  <2>2. CASE \E c \in Call : Commit(c)
    BY <2>2, <1>4
  <2>3. CASE ~\E c \in Call : Commit(c) \/ \E s \in Session : Insert(c, s)
    <3>1. ASSUME NEW c \in Call, Start(c)
          PROVE  Quiet
      <4>1. /\ \A d \in Call \ {c} : call'[d] = call[d]
            /\ call'[c].pc \notin Writing \cup {"insertBlind"}
        <5> USE <1>2 DEF Idle, TypeOK, Writing
        <5>1. CASE \E v \in Visitor : FindFound(c, v) \/ FindNone(c, v) \/ FindFails(c, v)
          <6>1. ~\E v \in Visitor : FindFails(c, v)
            BY DEF FindFails
          <6>2. CASE \E v \in Visitor : FindFound(c, v)
            BY <6>2 DEF FindFound
          <6>3. CASE \E v \in Visitor : FindNone(c, v)
            BY <6>3 DEF FindNone
          <6> QED
            BY <5>1, <6>1, <6>2, <6>3
        <5>2. CASE \E s \in Session, a \in Agent :
                     AssignAgent(c, a, s) \/ AssignConflict(c, a, s)
          BY <5>2 DEF AssignAgent, AssignConflict
        <5>3. CASE \E s \in Session : CloseRow(c, s)
          BY <5>3 DEF CloseRow
        <5>4. CASE \E s \in Session, role \in Role, u \in User :
                     PeerCached(c, role, u, s) \/ PeerMiss(c, role, u, s)
          BY <5>4 DEF PeerCached, PeerMiss
        <5> QED
          BY <3>1, <5>1, <5>2, <5>3, <5>4 DEF Start
      <4>2. \A v : Open(v)' \subseteq Open(v)
        BY <1>2, <3>1 DEF Start, FindFound, FindNone, FindFails, AssignAgent,
           AssignConflict, Assignable, CloseRow, PeerCached, PeerMiss, Open,
           rows, TypeOK
      <4> QED
        BY <4>1, <4>2 DEF Quiet, Writers, SInv
    <3>2. ASSUME NEW c \in Call, Step(c)
          PROVE  Quiet
      <4>1. /\ \A d \in Call \ {c} : call'[d] = call[d]
            /\ call'[c].pc # "insertBlind"
            /\ call'[c].pc \in Writing =>
                 call[c].pc \in Writing /\ call'[c].user = call[c].user
        <5> USE <1>2 DEF Goto, Finish, Idle, TypeOK, Calls, Writing
        <5>1. CASE CachePeer(c)
          BY <5>1 DEF CachePeer, AfterCaching
        <5>2. CASE ~CachePeer(c)
          BY <2>3, <3>2, <5>2 DEF Step, Rollback, IncrementUnread, ResetUnread, Reload,
             ReloadFails, Evict, PeerLoad, PeerLoadFails, Return
        <5> QED
          BY <5>1, <5>2
      <4>2. UNCHANGED <<status, visitor>>
        BY <2>3, <3>2 DEF Step, CachePeer, Rollback, IncrementUnread, ResetUnread,
           Reload, ReloadFails, Evict, PeerLoad, PeerLoadFails, Return, rows
      <4> QED
        BY <4>1, <4>2 DEF Quiet, Writers, Open, SInv
    <3>3. ASSUME NEW n \in Node, Crash(n)
          PROVE  Quiet
      BY <3>3 DEF Crash, Idle, rows, Quiet, Writers, Writing, Open, SInv
    <3> QED
      BY <3>1, <3>2, <3>3, <1>1, QuietSInv DEF Next
  <2> QED
    BY <2>1, <2>2, <2>3

\* On SQLite a visitor has one open session at most.
THEOREM OpenOnce ==
  ASSUME Serializable, ~ReadFaults
  PROVE  Spec => []OneOpenSession
<1>1. Init => SInv
  BY InitIInv DEF Init, SInv, OneOpenSession, Open, Writers, Writing, Idle
<1>2. SInv /\ [Next]_vars => SInv'
  BY NextSInv
<1>3. SInv => OneOpenSession
  BY DEF SInv
<1> QED
  BY <1>1, <1>2, <1>3, PTL DEF Spec
-----------------------------------------------------------------------------
\* What every state satisfies, and what it satisfies besides when transactions
\* exclude each other and every read answers.
CInv ==
  /\ IInv
  /\ Serializable /\ ~ReadFaults => SInv

LEMMA InitCInv == Init => CInv
  BY InitIInv DEF CInv, Init, SInv, OneOpenSession, Open, Writers, Writing, Idle

LEMMA NextCInv == CInv /\ [Next]_vars => CInv'
  BY NextIInv, NextSInv DEF CInv

\* On every database, whatever fails, the service implements the abstract life of
\* a session: every step is one of SessionLifecycle's, or leaves status, visitor
\* and agent.  The clause on one open session is part of it on SQLite.
THEOREM Refinement == Spec => Implements
<1>1. Init => Lifecycle!Init
  BY DEF Init, Lifecycle!Init
<1>2. CInv /\ [Next]_vars => [Lifecycle!Next]_(Lifecycle!vars)
  <2> SUFFICES ASSUME CInv, Next, ~UNCHANGED <<status, visitor, agent>>
               PROVE  Lifecycle!Next
    BY DEF vars, Lifecycle!vars
  <2>1. TypeOK /\ RowsOK /\ WritersOK
    BY DEF CInv, IInv
  <2>2. ASSUME NEW c \in Call, Commit(c)
        PROVE  Lifecycle!Next
    <3>1. /\ c \in Writers /\ call[c].sid \in Session /\ call[c].user \in Visitor
          /\ status[call[c].sid] = "none"
      BY <2>1, <2>2 DEF Commit, Writers, Writing, WritersOK
    <3>2. Serializable /\ ~ReadFaults => Lifecycle!Open(call[c].user) = {}
      BY <3>1 DEF CInv, SInv, Open, Lifecycle!Open
    <3>3. Lifecycle!Create(call[c].sid, call[c].user)
      BY <2>2, <3>1, <3>2 DEF Commit, Lifecycle!Create
    <3> QED
      BY <3>1, <3>3 DEF Lifecycle!Next
  <2>3. ASSUME NEW c \in Call, NEW a \in Agent, NEW s \in Session, AssignAgent(c, a, s)
        PROVE  Lifecycle!Next
    <3>1. Lifecycle!Assign(s, a)
      BY <2>3 DEF AssignAgent, Assignable, Lifecycle!Assign
    <3> QED
      BY <3>1 DEF Lifecycle!Next
  <2>4. ASSUME NEW c \in Call, NEW s \in Session, CloseRow(c, s)
        PROVE  Lifecycle!Next
    <3>1. status[s] \in {"pending", "active"}
      BY <2>1, <2>4 DEF CloseRow, TypeOK, Status
    <3>2. Lifecycle!Close(s)
      BY <2>4, <3>1 DEF CloseRow, Lifecycle!Close
    <3> QED
      BY <3>2 DEF Lifecycle!Next
  <2>5. CASE \E n \in Node : Crash(n)
    BY <2>5 DEF Crash, rows
  <2>6. ASSUME NEW c \in Call, Start(c)
        PROVE  Lifecycle!Next
    BY <2>3, <2>4, <2>6 DEF Start, FindFound, FindNone, FindFails, AssignConflict,
       PeerCached, PeerMiss, rows
  <2>7. ASSUME NEW c \in Call, Step(c)
        PROVE  Lifecycle!Next
    BY <2>2, <2>7 DEF Step, CachePeer, Rollback, IncrementUnread, ResetUnread,
       Reload, ReloadFails, Evict, PeerLoad, PeerLoadFails, Return, Insert, rows
  <2> QED
    BY <2>5, <2>6, <2>7 DEF Next
<1> QED
  BY <1>1, <1>2, InitCInv, NextCInv, PTL DEF Spec, Implements, Lifecycle!Spec
=============================================================================
