--------------------------- MODULE MessageService ---------------------------
(***************************************************************************)
(* service/message.go over repo/message.go: the rows of ccsim_messages and  *)
(* the last_msg_id of their sessions.  A call is one SendMessage, of a      *)
(* visitor, an agent or the system, in its own transaction; the calls of    *)
(* all nodes interleave at their statements.                               *)
(*                                                                         *)
(* The database reads committed rows without locks, as MySQL and PostgreSQL *)
(* do; SQLite, whose writers exclude each other, allows fewer behaviours.   *)
(* Nothing refers from a message to its session: messages are sent to any    *)
(* session id, whose row may be inserted later or never.  Contents and times *)
(* are left out.                                                           *)
(***************************************************************************)
EXTENDS Naturals, FiniteSetsExt

CONSTANTS
  Session,       \* session ids
  Call,          \* handler goroutines
  Sender,        \* who sends: some of "visitor", "agent" and "system"
  Tracked,       \* the readers whose reports reported remembers
  None,          \* no session, no sender
  MaxId          \* bound on the ids the database allocates

ASSUME NoneAssumption == None \notin Session
ASSUME TrackedAssumption == Tracked \subseteq {"visitor", "agent"}
ASSUME MaxIdAssumption == MaxId \in Nat

VARIABLES
  messages,  \* the committed rows
  readIds,   \* the ids of the rows with is_read = 1
  created,   \* the sessions whose row is committed
  last,      \* last[s] is last_msg_id, 0 while there is none
  nextId,    \* the id the next insert takes; a rollback does not give it back
  call,      \* call[c] is the program counter and the row of a goroutine
  reported   \* reported[s][r]: the last message r has reported read.  The code
             \* has no such state; it is what OfflineKept speaks about

vars == <<messages, readIds, created, last, nextId, call, reported>>

-----------------------------------------------------------------------------
Reader == {"visitor", "agent"}

\* touched is no column: it says whether the UPDATE of the session, in the
\* transaction of the message, met a row and did not fail.
Message == [id : 1..MaxId, sid : Session, seq : Nat \ {0}, from : Sender,
            touched : BOOLEAN]

Idle == [pc |-> "idle", sid |-> None, seq |-> 0, from |-> None, id |-> 0,
         touched |-> FALSE]

Calls == [pc : {"idle", "create", "update", "commit"}, sid : Session \cup {None},
          seq : Nat, from : Sender \cup {None}, id : 0..MaxId,
          touched : BOOLEAN]

Rows(s)   == {m \in messages : m.sid = s}
Seqs(s)   == {m.seq : m \in Rows(s)}
MaxSeq(s) == Max({0} \cup Seqs(s))

\* Has inserted its row and not yet ended its transaction.
Inserted == {c \in Call : call[c].pc \in {"update", "commit"}}

Finish(c) == call' = [call EXCEPT ![c] = Idle]

Init ==
  /\ messages = {}
  /\ readIds  = {}
  /\ created  = {}
  /\ last     = [s \in Session |-> 0]
  /\ nextId   = 1
  /\ call     = [c \in Call |-> Idle]
  /\ reported = [s \in Session |-> [r \in Tracked |-> 0]]

-----------------------------------------------------------------------------
\* A visitor's transaction commits the row of a new session (SessionService).
CreateSession(s) ==
  /\ s \notin created
  /\ created' = created \cup {s}
  /\ UNCHANGED <<messages, readIds, last, nextId, call, reported>>

-----------------------------------------------------------------------------
(* SendMessage *)

\* Mutant: the number of the newest message.
LastSeq(s) == MaxSeq(s)

NextSeq(s) == MaxSeq(s) + 1

GetNextSeqNum(c, s, from) ==
  /\ call[c].pc = "idle"
  /\ call' = [call EXCEPT ![c] = [pc |-> "create", sid |-> s, seq |-> NextSeq(s),
                                  from |-> from, id |-> 0, touched |-> FALSE]]
  /\ UNCHANGED <<messages, readIds, created, last, nextId, reported>>

\* Mutants: no unique index; an index that sees only committed rows.
KeyUnchecked(s, seq)  == seq \in Nat
KeyFreeOfRows(s, seq) == seq \notin Seqs(s)

\* The unique index uk_session_seq, among the committed rows and, because an
\* insert waits for a transaction that holds the same key, among the others.
KeyFree(s, seq) ==
  /\ seq \notin Seqs(s)
  /\ \A d \in Inserted : ~(call[d].sid = s /\ call[d].seq = seq)

Create(c) ==
  /\ call[c].pc = "create"
  /\ KeyFree(call[c].sid, call[c].seq)
  /\ nextId <= MaxId
  /\ call' = [call EXCEPT ![c].pc = "update", ![c].id = nextId]
  /\ nextId' = nextId + 1
  /\ UNCHANGED <<messages, readIds, created, last, reported>>

\* Whether the UPDATE by id changes a row: without one it changes none, which is
\* no error, and an error is only logged.
Changes(s) == IF s \in created THEN BOOLEAN ELSE {FALSE}

\* Mutant: the session is touched outside the transaction.
TouchAtOnce(c) ==
  /\ call[c].pc = "update"
  /\ \E done \in Changes(call[c].sid) :
       /\ last' = [last EXCEPT ![call[c].sid] = IF done THEN call[c].id ELSE @]
       /\ call' = [call EXCEPT ![c].pc = "commit", ![c].touched = done]
  /\ UNCHANGED <<messages, readIds, created, nextId, reported>>

\* In the transaction: visible when it commits.
UpdateLastMessage(c) ==
  /\ call[c].pc = "update"
  /\ \E done \in Changes(call[c].sid) :
       call' = [call EXCEPT ![c].pc = "commit", ![c].touched = done]
  /\ UNCHANGED <<messages, readIds, created, last, nextId, reported>>

\* Mutant: the number is the id, which is unique as well.
RowById(c) == [id |-> call[c].id, sid |-> call[c].sid, seq |-> call[c].id,
               from |-> call[c].from, touched |-> call[c].touched]

RowOf(c) == [id |-> call[c].id, sid |-> call[c].sid, seq |-> call[c].seq,
             from |-> call[c].from, touched |-> call[c].touched]

Commit(c) ==
  /\ call[c].pc = "commit"
  /\ messages' = messages \cup {RowOf(c)}
  /\ last' = [last EXCEPT ![call[c].sid] = IF call[c].touched THEN call[c].id ELSE @]
  /\ Finish(c)
  /\ UNCHANGED <<readIds, created, nextId, reported>>

\* The insert violates the index, or any statement fails, or the node stops:
\* the message is not sent.
Rollback(c) ==
  /\ call[c].pc # "idle"
  /\ Finish(c)
  /\ UNCHANGED <<messages, readIds, created, last, nextId, reported>>

-----------------------------------------------------------------------------
(* MarkAsRead *)

\* Mutant: the one message is marked, and not those before it.
ReadOne(s, id) == {m.id : m \in {n \in Rows(s) : n.id = id}}

\* One UPDATE.  The reader chooses the message id and is not looked at.
ReadUpTo(s, id) == {m.id : m \in {n \in Rows(s) : n.id <= id}}

\* Mutant: what is marked read replaces what was.
MarkOnly(s, r, id) ==
  /\ readIds'  = (readIds \ {m.id : m \in Rows(s)}) \cup ReadUpTo(s, id)
  /\ reported' = [reported EXCEPT ![s][r] = IF id > @ THEN id ELSE @]
  /\ UNCHANGED <<messages, created, last, nextId, call>>

MarkAsRead(s, r, id) ==
  /\ readIds'  = readIds \cup ReadUpTo(s, id)
  /\ reported' = [reported EXCEPT ![s][r] = IF id > @ THEN id ELSE @]
  /\ UNCHANGED <<messages, created, last, nextId, call>>

Step(c) ==
  \/ \E s \in Session, from \in Sender : GetNextSeqNum(c, s, from)
  \/ Create(c) \/ UpdateLastMessage(c) \/ Commit(c) \/ Rollback(c)

Next ==
  \/ \E s \in Session : CreateSession(s)
  \/ \E c \in Call : Step(c)
  \/ \E s \in Session, r \in Reader, id \in 1..MaxId : MarkAsRead(s, r, id)

Spec == Init /\ [][Next]_vars

-----------------------------------------------------------------------------
(* The queries *)

\* Mutant: the boundary belongs to both pages.
UpTo(s, before) == {m \in Rows(s) : before > 0 => m.seq <= before}

Below(s, before) == {m \in Rows(s) : before > 0 => m.seq < before}

\* FindBySessionID: the limit highest sequence numbers below before, or of all
\* when before is 0.
HistoryPage(s, before, limit) ==
  {m \in Below(s, before) :
     Cardinality({n \in Below(s, before) : n.seq > m.seq}) < limit}

\* FindUnreadForVisitor and FindUnreadForAgent, for one session they join.
Unread(s) == {m \in Rows(s) : m.id \notin readIds}

-----------------------------------------------------------------------------
(* Properties *)

TypeOK ==
  /\ messages \subseteq Message
  /\ readIds \subseteq 1..MaxId
  /\ created \subseteq Session
  /\ last \in [Session -> 0..MaxId]
  /\ nextId \in 1..MaxId + 1
  /\ call \in [Call -> Calls]
  /\ reported \in [Session -> [Tracked -> 0..MaxId]]

\* The sequence numbers of a session are 1, 2, ... without a gap and without a
\* duplicate, although they are taken from a read that does not lock and sends
\* fail half way (GetNextSeqNum and the index).
SeqContiguous ==
  \A s \in Session :
    /\ Seqs(s) = 1..MaxSeq(s)
    /\ \A m, n \in Rows(s) : m.seq = n.seq => m = n

\* Ids, which MarkAsRead compares, and sequence numbers, which the client sees
\* and history pages go by, put the messages of a session in the same order.
IdFollowsSeq ==
  \A s \in Session : \A m, n \in Rows(s) : m.id < n.id <=> m.seq < n.seq

\* So marking by id reads a prefix of the session, whatever commits around it.
ReadIsPrefix ==
  \A s \in Session : \A m, n \in Rows(s) :
    m.id \in readIds /\ n.seq < m.seq => n.id \in readIds

\* last_msg_id is the newest committed message among those whose UPDATE met the
\* session's row and did not fail (UpdateLastMessage): sends that overlap, roll back
\* or miss the row never put an older one back, nor one that is not there.
LastIsNewest ==
  \A s \in Session :
    last[s] = Max({0} \cup {m.id : m \in {n \in Rows(s) : n.touched}})

\* The numbers of one page: the limit last ones below before.
PageIs(s, before, limit) ==
  LET top == IF before = 0 THEN MaxSeq(s) ELSE before - 1 IN
  {m.seq : m \in HistoryPage(s, before, limit)} = {i \in 1..top : i + limit > top}

\* A client that asks for the page before its oldest message misses none and
\* sees none twice.
PageExact ==
  \A s \in Session, limit \in 1..2 : \A before \in 0..MaxSeq(s) + 1 :
    PageIs(s, before, limit)

\* The log a session is, and how far it is read.
Log ==
  [s \in Session |->
     [i \in 1..MaxSeq(s) |-> (CHOOSE m \in Rows(s) : m.seq = i).from]]
Cursor ==
  [s \in Session |-> Max({0} \cup {m.seq : m \in {n \in Rows(s) : n.id \in readIds}})]

Abstract == INSTANCE MessageLog WITH log <- Log, cursor <- Cursor
Implements == Abstract!Spec

(* What the README says, and the code does not do *)

\* Both sides have reported nothing, or a message of another.
HonestReports(s) ==
  \A r \in Tracked :
    reported[s][r] \in {0} \cup {m.id : m \in {n \in Rows(s) : n.from # r}}

\* README.md:13: offline messages are pushed on reconnecting.  A message the
\* other side sent, later than anything the user has reported read, is among
\* those the offline queries return.
OfflineKept ==
  \A s \in Session : HonestReports(s) =>
    \A r \in Tracked : \A m \in Rows(s) :
      m.from # r /\ m.id > reported[s][r] => m \in Unread(s)
=============================================================================
