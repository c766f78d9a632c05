------------------------ MODULE MessageServiceProofs ------------------------
(***************************************************************************)
(* Proofs about MessageService, for every set of sessions and goroutines.  *)
(***************************************************************************)
EXTENDS MessageService, FiniteSetTheorems, SequenceTheorems, TLAPS

(* The inductive invariant *)

\* The numbers in use are the first n, whichever n.
NumbersOK ==
  \A s \in Session :
    /\ \E n \in Nat : Seqs(s) = 1..n
    /\ \A m, n \in Rows(s) : m.seq = n.seq => m = n

\* A goroutine holds a number that was free, or the next one.
CallsOK ==
  \A c \in Call : call[c].pc # "idle" =>
    /\ call[c].sid \in Session /\ call[c].from \in Sender
    /\ call[c].seq \in 1..MaxSeq(call[c].sid) + 1

\* A row that is not committed has the next number of its session, alone, and
\* a newer id than every committed row of it.
InsertedOK ==
  \A c \in Inserted :
    /\ call[c].seq = MaxSeq(call[c].sid) + 1
    /\ call[c].id \in 1..nextId - 1
    /\ \A m \in messages : m.id # call[c].id
    /\ \A m \in Rows(call[c].sid) : m.id < call[c].id
    /\ \A d \in Inserted :
         call[d].id = call[c].id \/ call[d].sid = call[c].sid => d = c

\* Ids are unique and come from the counter.
IdsOK ==
  /\ \A m \in messages : m.id < nextId
  /\ \A m, n \in messages : m.id = n.id => m = n
  /\ readIds \subseteq {m.id : m \in messages}

IInv ==
  /\ TypeOK /\ NumbersOK /\ CallsOK /\ InsertedOK /\ IdsOK
  /\ IdFollowsSeq /\ ReadIsPrefix

-----------------------------------------------------------------------------
\* The maximum of COALESCE(MAX(seq_num), 0), where the numbers are 1..n.
LEMMA MaxOfPrefix ==
  ASSUME NEW n \in Nat
  PROVE  Max({0} \cup 1..n) = n
<1>1. n \in {0} \cup 1..n /\ \A y \in {0} \cup 1..n : n >= y
  OBVIOUS
<1>2. \A x \in {0} \cup 1..n : (\A y \in {0} \cup 1..n : x >= y) => x = n
  BY <1>1
<1> QED
  BY <1>1, <1>2 DEF Max

LEMMA MaxSeqOf ==
  ASSUME NumbersOK, NEW s \in Session
  PROVE  MaxSeq(s) \in Nat /\ Seqs(s) = 1..MaxSeq(s)
<1>1. PICK n \in Nat : Seqs(s) = 1..n
  BY DEF NumbersOK
<1> QED
  BY <1>1, MaxOfPrefix DEF MaxSeq

LEMMA InitIInv == Init => IInv
<1> SUFFICES ASSUME Init PROVE IInv
  OBVIOUS
<1>1. TypeOK
  BY MaxIdAssumption DEF Init, TypeOK, Calls, Idle
<1>2. NumbersOK
  BY DEF Init, NumbersOK, Seqs, Rows
<1>3. CallsOK /\ InsertedOK /\ IdsOK /\ IdFollowsSeq /\ ReadIsPrefix
  BY DEF Init, CallsOK, InsertedOK, Inserted, IdsOK, IdFollowsSeq, ReadIsPrefix,
     Rows, Idle
<1> QED
  BY <1>1, <1>2, <1>3 DEF IInv

\* What the invariant says of the rows holds as long as they stay.
LEMMA RowsStay ==
  ASSUME IInv, UNCHANGED <<messages, readIds>>, nextId <= nextId', nextId' \in Nat
  PROVE  /\ NumbersOK' /\ IdsOK' /\ IdFollowsSeq' /\ ReadIsPrefix'
         /\ \A s : MaxSeq(s)' = MaxSeq(s) /\ Rows(s)' = Rows(s)
<1> USE DEF Rows, Seqs, MaxSeq
<1>1. NumbersOK'
  BY DEF IInv, NumbersOK
<1>2. IdsOK'
  BY DEF IInv, IdsOK, TypeOK, Message
<1>3. IdFollowsSeq' /\ ReadIsPrefix'
  BY DEF IInv, IdFollowsSeq, ReadIsPrefix
<1> QED
  BY <1>1, <1>2, <1>3

\* A goroutine that starts, ends or goes on without a row being written.
LEMMA LocalStep ==
  ASSUME IInv, UNCHANGED <<messages, readIds, nextId>>, TypeOK', CallsOK',
         Inserted' \subseteq Inserted,
         \A c \in Inserted' : /\ call'[c].id = call[c].id
                              /\ call'[c].sid = call[c].sid
                              /\ call'[c].seq = call[c].seq
  PROVE  IInv'
<1>1. nextId <= nextId' /\ nextId' \in Nat
  BY MaxIdAssumption DEF IInv, TypeOK
<1>2. \A c : /\ MaxSeq(call[c].sid)' = MaxSeq(call'[c].sid)
              /\ Rows(call[c].sid)' = Rows(call'[c].sid)
  BY DEF MaxSeq, Seqs, Rows
<1>3. InsertedOK'
  BY <1>2 DEF IInv, InsertedOK
<1> QED
  BY <1>1, <1>3, RowsStay DEF IInv

\* A commit adds the next row to the session of the call, and to no other.
CommitsTo(c, s, r) ==
  /\ s = call[c].sid /\ r = RowOf(c)
  /\ r.sid = s /\ r.seq = MaxSeq(s) + 1 /\ r.id = call[c].id /\ r.from \in Sender
  /\ messages' = messages \cup {r}
  /\ Rows(s)' = Rows(s) \cup {r} /\ MaxSeq(s)' = MaxSeq(s) + 1
  /\ \A t : t # s => Rows(t)' = Rows(t) /\ MaxSeq(t)' = MaxSeq(t)

LEMMA CommitAppends ==
  ASSUME IInv, NEW c \in Call, Commit(c)
  PROVE  \E s \in Session, r \in {RowOf(c)} : CommitsTo(c, s, r)
<1>0. CallsOK /\ InsertedOK /\ NumbersOK
  BY DEF IInv
<1>1. PICK s \in Session, r \in {RowOf(c)} : s = call[c].sid /\ r = RowOf(c)
  BY <1>0 DEF Commit, CallsOK
<1>2. /\ call[c].seq = MaxSeq(s) + 1 /\ call[c].from \in Sender
      /\ MaxSeq(s) \in Nat /\ Seqs(s) = 1..MaxSeq(s)
  BY <1>0, <1>1, MaxSeqOf DEF Commit, CallsOK, InsertedOK, Inserted
<1>3. /\ r.sid = s /\ r.seq = MaxSeq(s) + 1 /\ r.id = call[c].id /\ r.from \in Sender
      /\ messages' = messages \cup {r}
  BY <1>1, <1>2 DEF Commit, RowOf
<1>4. /\ \A t : t # s => Rows(t)' = Rows(t)
      /\ Rows(s)' = Rows(s) \cup {r}
  BY <1>3 DEF Rows
<1>5. \A t : t # s => MaxSeq(t)' = MaxSeq(t)
  BY <1>4 DEF MaxSeq, Seqs
<1>6. MaxSeq(s)' = MaxSeq(s) + 1
  <2>1. Seqs(s)' = Seqs(s) \cup {MaxSeq(s) + 1}
    BY <1>3, <1>4 DEF Seqs
  <2>2. Seqs(s)' = 1..MaxSeq(s) + 1
    BY <1>2, <2>1
  <2>3. MaxSeq(s)' = Max({0} \cup 1..MaxSeq(s) + 1)
    BY <2>2 DEF MaxSeq
  <2> QED
    BY <1>2, <2>3, MaxOfPrefix
<1> QED
  BY <1>1, <1>3, <1>4, <1>5, <1>6 DEF CommitsTo

LEMMA NextIInv == IInv /\ [Next]_vars => IInv'
<1> SUFFICES ASSUME IInv, [Next]_vars PROVE IInv'
  OBVIOUS
<1> USE MaxIdAssumption DEF Calls, Idle, Finish
<1>0. TypeOK /\ NumbersOK /\ CallsOK /\ InsertedOK /\ IdsOK
  BY DEF IInv
<1>1. ASSUME NEW c \in Call, NEW s \in Session, NEW from \in Sender,
             GetNextSeqNum(c, s, from)
      PROVE  IInv'
  <2>1. NextSeq(s) \in 1..MaxSeq(s) + 1
    BY <1>0, MaxSeqOf DEF NextSeq
  <2>2. NextSeq(s) \in Nat
    BY <1>0, MaxSeqOf DEF NextSeq
  <2>3. TypeOK'
    BY <1>0, <1>1, <2>2 DEF GetNextSeqNum, TypeOK
  <2>4. CallsOK'
    BY <1>0, <1>1, <2>1 DEF GetNextSeqNum, CallsOK, TypeOK, MaxSeq, Seqs, Rows
  <2>5. Inserted' \subseteq Inserted /\ \A d \in Inserted' : call'[d] = call[d]
    BY <1>0, <1>1 DEF GetNextSeqNum, Inserted, TypeOK
  <2> QED
    BY <1>1, <2>3, <2>4, <2>5, LocalStep DEF GetNextSeqNum
<1>2. ASSUME NEW c \in Call, Create(c)
      PROVE  IInv'
  <2> DEFINE s == call[c].sid
             q == call[c].seq
  <2>1. s \in Session /\ q \in 1..MaxSeq(s) + 1
    BY <1>0, <1>2 DEF Create, CallsOK
  <2>2. MaxSeq(s) \in Nat /\ Seqs(s) = 1..MaxSeq(s)
    BY <1>0, <2>1, MaxSeqOf
  <2>3. q = MaxSeq(s) + 1
    BY <1>2, <2>1, <2>2 DEF Create, KeyFree
  <2>4. \A d \in Inserted : call[d].sid # s
    BY <1>0, <1>2, <2>3 DEF Create, KeyFree, InsertedOK
  <2>5. nextId \in 1..MaxId /\ nextId' = nextId + 1
    BY <1>0, <1>2 DEF Create, TypeOK
  <2>6. /\ call'[c].pc = "update" /\ call'[c].sid = s /\ call'[c].seq = q
        /\ call'[c].id = nextId /\ call'[c].from = call[c].from
        /\ \A d \in Call \ {c} : call'[d] = call[d]
        /\ Inserted' = Inserted \cup {c}
    BY <1>0, <1>2 DEF Create, TypeOK, Inserted
  <2>7. TypeOK'
    <3>1. [call[c] EXCEPT !.pc = "update", !.id = nextId] \in Calls
      <4>1. call[c] \in Calls /\ nextId \in 0..MaxId
        BY <1>0, <2>5 DEF TypeOK
      <4> QED
        BY <4>1
    <3> QED
      BY <1>0, <1>2, <2>5, <3>1 DEF Create, TypeOK
  <2>8. /\ NumbersOK' /\ IdsOK' /\ IdFollowsSeq' /\ ReadIsPrefix'
        /\ \A t : MaxSeq(t)' = MaxSeq(t) /\ Rows(t)' = Rows(t)
    BY <1>2, <2>5, RowsStay DEF Create
  <2>9. CallsOK'
    BY <1>0, <1>2, <2>6, <2>8 DEF CallsOK, Create
  <2>10. InsertedOK'
    <3> SUFFICES ASSUME NEW d \in Inserted'
                 PROVE  /\ call'[d].seq = MaxSeq(call'[d].sid) + 1
                        /\ call'[d].id \in 1..nextId' - 1
                        /\ \A m \in messages : m.id # call'[d].id
                        /\ \A m \in Rows(call'[d].sid) : m.id < call'[d].id
                        /\ \A e \in Inserted' :
                             call'[e].id = call'[d].id \/ call'[e].sid = call'[d].sid
                               => e = d
      BY <1>2, <2>8 DEF InsertedOK, Create
    <3>1. CASE d = c
      <4>1. \A m \in messages : m.id < nextId /\ m.id # nextId
        BY <1>0, <2>5 DEF IdsOK, TypeOK, Message
      <4>2. \A e \in Inserted : call[e].id # nextId
        BY <1>0, <2>5 DEF InsertedOK
      <4> QED
        BY <2>3, <2>4, <2>5, <2>6, <3>1, <4>1, <4>2 DEF Rows, Inserted
    <3>2. CASE d # c
      <4>1. d \in Inserted /\ call'[d] = call[d]
        BY <2>6, <3>2 DEF Inserted
      <4>2. call[d].id \in 1..nextId - 1
        BY <1>0, <4>1 DEF InsertedOK
      <4>3. call[d].id # nextId /\ call[d].id \in 1..nextId' - 1
        BY <2>5, <4>2
      <4> QED
        BY <1>0, <2>4, <2>6, <4>1, <4>3 DEF InsertedOK, Inserted
    <3> QED
      BY <3>1, <3>2
  <2> QED
    BY <2>7, <2>8, <2>9, <2>10 DEF IInv
<1>3. ASSUME NEW c \in Call, UpdateLastMessage(c)
      PROVE  IInv'
  <2>1. /\ call'[c].pc = "commit" /\ call'[c].sid = call[c].sid
        /\ call'[c].seq = call[c].seq /\ call'[c].id = call[c].id
        /\ call'[c].from = call[c].from /\ call'[c].touched \in BOOLEAN
        /\ \A d \in Call \ {c} : call'[d] = call[d]
    BY <1>0, <1>3 DEF UpdateLastMessage, Changes, TypeOK
  <2>2. TypeOK'
    <3>1. PICK done \in BOOLEAN :
            call' = [call EXCEPT ![c] = [call[c] EXCEPT !.pc = "commit", !.touched = done]]
      BY <1>3 DEF UpdateLastMessage, Changes
    <3>2. [call[c] EXCEPT !.pc = "commit", !.touched = done] \in Calls
      BY <1>0 DEF TypeOK
    <3> QED
      BY <1>0, <1>3, <3>1, <3>2 DEF UpdateLastMessage, TypeOK
  <2>3. CallsOK'
    <3>1. \A d \in Call : /\ call'[d].sid = call[d].sid /\ call'[d].from = call[d].from
                          /\ call'[d].seq = call[d].seq
                          /\ call'[d].pc # "idle" => call[d].pc # "idle"
      BY <1>3, <2>1 DEF UpdateLastMessage
    <3>2. \A t : MaxSeq(t)' = MaxSeq(t)
      BY <1>3 DEF UpdateLastMessage, MaxSeq, Seqs, Rows
    <3> QED
      BY <1>0, <3>1, <3>2 DEF CallsOK
  <2>4. /\ Inserted' \subseteq Inserted
        /\ \A d \in Inserted' : /\ call'[d].id = call[d].id
                               /\ call'[d].sid = call[d].sid
                               /\ call'[d].seq = call[d].seq
    BY <1>3, <2>1 DEF UpdateLastMessage, Inserted
  <2> QED
    BY <1>3, <2>2, <2>3, <2>4, LocalStep DEF UpdateLastMessage
<1>4. ASSUME NEW c \in Call, Commit(c)
      PROVE  IInv'
  <2>0. PICK s \in Session, r \in {RowOf(c)} : CommitsTo(c, s, r)
    BY <1>4, CommitAppends
  <2>1. /\ c \in Inserted /\ call[c].from \in Sender
        /\ call[c].seq = MaxSeq(s) + 1
        /\ call[c].id \in 1..nextId - 1
        /\ \A m \in messages : m.id # call[c].id
        /\ \A m \in Rows(s) : m.id < call[c].id
        /\ \A d \in Inserted : call[d].id = call[c].id \/ call[d].sid = s => d = c
    BY <1>0, <1>4, <2>0 DEF Commit, CommitsTo, CallsOK, InsertedOK, Inserted
  <2>2. MaxSeq(s) \in Nat /\ Seqs(s) = 1..MaxSeq(s)
    BY <1>0, <2>1, MaxSeqOf
  <2>3. /\ r.sid = s /\ r.seq = MaxSeq(s) + 1 /\ r.id = call[c].id
        /\ messages' = messages \cup {r}
    BY <2>0 DEF CommitsTo
  <2>4. /\ \A t : t # s => Rows(t)' = Rows(t) /\ Seqs(t)' = Seqs(t)
        /\ Rows(s)' = Rows(s) \cup {r} /\ Seqs(s)' = Seqs(s) \cup {MaxSeq(s) + 1}
    <3>1. /\ \A t : t # s => Rows(t)' = Rows(t)
          /\ Rows(s)' = Rows(s) \cup {r}
      BY <2>0 DEF CommitsTo
    <3> QED
      BY <2>3, <3>1 DEF Seqs
  <2>5. Seqs(s)' = 1..MaxSeq(s) + 1
    BY <2>2, <2>4
  <2>6. /\ \A t : t # s => MaxSeq(t)' = MaxSeq(t)
        /\ MaxSeq(s)' = MaxSeq(s) + 1
    BY <2>0 DEF CommitsTo
  <2>7. /\ Inserted' = Inserted \ {c}
        /\ \A d \in Call \ {c} : call'[d] = call[d]
        /\ call'[c] = Idle
        /\ UNCHANGED <<readIds, nextId>>
    BY <1>0, <1>4 DEF Commit, Inserted, TypeOK
  <2>8. TypeOK'
    <3>1. r \in Message
      <4>1. call[c] \in Calls /\ nextId \in 1..MaxId + 1
        BY <1>0 DEF TypeOK
      <4> QED
        BY <2>0, <2>1, <2>2, <4>1 DEF CommitsTo, RowOf, Message
    <3>2. call[c].touched => call[c].id \in 0..MaxId
      BY <1>0 DEF TypeOK
    <3>3. last' \in [Session -> 0..MaxId]
      BY <1>0, <1>4, <2>0, <3>2 DEF CommitsTo, Commit, TypeOK
    <3>4. call' \in [Call -> Calls]
      BY <1>0, <1>4 DEF Commit, TypeOK
    <3> QED
      BY <1>0, <1>4, <2>3, <3>1, <3>3, <3>4 DEF Commit, TypeOK
  <2>9. NumbersOK'
    BY <1>0, <2>2, <2>3, <2>4, <2>5 DEF NumbersOK, Seqs
  <2>10. CallsOK'
    <3>1. \A t \in Session : MaxSeq(t) \in Nat /\ MaxSeq(t)' \in {MaxSeq(t), MaxSeq(t) + 1}
      BY <1>0, <2>6, MaxSeqOf
    <3> QED
      BY <1>0, <2>7, <3>1 DEF CallsOK
  <2>11. InsertedOK'
    <3> SUFFICES ASSUME NEW d \in Inserted', NEW t, t = call'[d].sid
                 PROVE  /\ call'[d].seq = MaxSeq(t)' + 1
                        /\ call'[d].id \in 1..nextId' - 1
                        /\ \A m \in messages' : m.id # call'[d].id
                        /\ \A m \in Rows(t)' : m.id < call'[d].id
                        /\ \A e \in Inserted' :
                             call'[e].id = call'[d].id \/ call'[e].sid = t => e = d
      BY DEF InsertedOK
    <3>1. d \in Inserted /\ d # c /\ call'[d] = call[d] /\ t # s
            /\ call[d].id # call[c].id
      BY <2>1, <2>7 DEF Inserted
    <3>2. MaxSeq(t)' = MaxSeq(t) /\ Rows(t)' = Rows(t)
      BY <2>4, <2>6, <3>1
    <3>3. /\ call[d].seq = MaxSeq(t) + 1 /\ call[d].id \in 1..nextId - 1
          /\ \A m \in messages : m.id # call[d].id
          /\ \A m \in Rows(t) : m.id < call[d].id
          /\ \A e \in Inserted : call[e].id = call[d].id \/ call[e].sid = t => e = d
      BY <1>0, <3>1 DEF InsertedOK
    <3>4. \A e \in Inserted' : e \in Inserted /\ call'[e] = call[e]
      BY <2>7 DEF Inserted
    <3> QED
      BY <2>3, <2>7, <3>1, <3>2, <3>3, <3>4
  <2>12. IdsOK'
    BY <1>0, <2>1, <2>3, <2>7 DEF IdsOK, TypeOK
  <2>13. \A m \in Rows(s) : m.id < r.id /\ m.seq < r.seq /\ m.id \in Nat /\ m.seq \in Nat
    <3>1. \A m \in Rows(s) : m.seq \in 1..MaxSeq(s)
      BY <2>2 DEF Seqs
    <3> QED
      BY <1>0, <2>1, <2>2, <2>3, <3>1 DEF Rows, TypeOK, Message
  <2>14. IdFollowsSeq'
    <3> SUFFICES ASSUME NEW t \in Session, NEW m \in Rows(t)', NEW n \in Rows(t)'
                 PROVE  m.id < n.id <=> m.seq < n.seq
      BY DEF IdFollowsSeq
    <3>1. CASE m \in Rows(t) /\ n \in Rows(t)
      BY <3>1 DEF IInv, IdFollowsSeq
    <3>2. CASE m \notin Rows(t) \/ n \notin Rows(t)
      <4>1. t = s /\ m \in Rows(s) \cup {r} /\ n \in Rows(s) \cup {r}
        BY <2>4, <3>2
      <4>2. r.id \in Nat /\ r.seq \in Nat
        BY <1>0, <2>1, <2>2, <2>3 DEF TypeOK
      <4> QED
        BY <2>13, <3>2, <4>1, <4>2
    <3> QED
      BY <3>1, <3>2
  <2>15. ReadIsPrefix'
    <3> SUFFICES ASSUME NEW t \in Session, NEW m \in Rows(t)', NEW n \in Rows(t)',
                        m.id \in readIds, n.seq < m.seq
                 PROVE  n.id \in readIds
      BY <2>7 DEF ReadIsPrefix
    <3>1. m # r
      BY <1>0, <2>1, <2>3 DEF IdsOK
    <3>2. n # r
      <4> SUFFICES ASSUME n = r PROVE FALSE
        OBVIOUS
      <4>1. t = s /\ m \in Rows(s)
        BY <2>3, <2>4, <3>1 DEF Rows
      <4> QED
        BY <2>2, <2>3, <2>13, <4>1
    <3>3. m \in Rows(t) /\ n \in Rows(t)
      BY <2>4, <3>1, <3>2
    <3> QED
      BY <3>3 DEF IInv, ReadIsPrefix
  <2> QED
    BY <2>8, <2>9, <2>10, <2>11, <2>12, <2>14, <2>15 DEF IInv
<1>5. ASSUME NEW c \in Call, Rollback(c)
      PROVE  IInv'
  <2>1. TypeOK'
    BY <1>0, <1>5 DEF Rollback, TypeOK
  <2>2. CallsOK'
    BY <1>0, <1>5 DEF Rollback, CallsOK, TypeOK, MaxSeq, Seqs, Rows
  <2>3. Inserted' \subseteq Inserted /\ \A d \in Inserted' : call'[d] = call[d]
    BY <1>0, <1>5 DEF Rollback, Inserted, TypeOK
  <2> QED
    BY <1>5, <2>1, <2>2, <2>3, LocalStep DEF Rollback
<1>6. ASSUME NEW s \in Session, NEW r \in Reader, NEW id \in 1..MaxId,
             MarkAsRead(s, r, id)
      PROVE  IInv'
  <2>1. TypeOK'
    <3>1. ReadUpTo(s, id) \subseteq 1..MaxId
      BY <1>0 DEF ReadUpTo, Rows, TypeOK, Message
    <3>2. reported' \in [Session -> [Tracked -> 0..MaxId]]
      <4>1. CASE r \in Tracked
        BY <1>0, <1>6, <4>1 DEF MarkAsRead, TypeOK
      <4>2. CASE r \notin Tracked
        BY <1>0, <1>6, <4>2 DEF MarkAsRead, TypeOK
      <4> QED
        BY <4>1, <4>2
    <3> QED
      BY <1>0, <1>6, <3>1, <3>2 DEF MarkAsRead, TypeOK
  <2>2. UNCHANGED <<messages, nextId, call>>
    BY <1>6 DEF MarkAsRead
  <2>3. NumbersOK' /\ CallsOK' /\ IdFollowsSeq'
    BY <1>0, <2>2 DEF NumbersOK, CallsOK, IdFollowsSeq, IInv, MaxSeq, Seqs, Rows
  <2>4. \A t : MaxSeq(t)' = MaxSeq(t) /\ Rows(t)' = Rows(t)
    BY <2>2 DEF MaxSeq, Seqs, Rows
  <2>5. InsertedOK' /\ Inserted' = Inserted
    BY <1>0, <2>2, <2>4 DEF InsertedOK, Inserted
  <2>6. IdsOK'
    BY <1>0, <1>6, <2>2 DEF IdsOK, MarkAsRead, ReadUpTo, Rows
  <2>7. ReadIsPrefix'
    <3> SUFFICES ASSUME NEW t \in Session, NEW m \in Rows(t), NEW n \in Rows(t),
                        m.id \in readIds', n.seq < m.seq
                 PROVE  n.id \in readIds'
      BY <2>2, <2>4 DEF ReadIsPrefix
    <3>1. CASE m.id \in readIds
      BY <1>6, <3>1 DEF MarkAsRead, IInv, ReadIsPrefix
    <3>2. CASE m.id \notin readIds
      <4>1. m \in Rows(s) /\ m.id <= id
        BY <1>0, <1>6, <3>2 DEF MarkAsRead, ReadUpTo, IdsOK, Rows
      <4>2. n \in Rows(s) /\ n.id < m.id
        BY <4>1 DEF IInv, IdFollowsSeq, Rows
      <4>3. n.id <= id
        BY <1>0, <4>1, <4>2 DEF TypeOK, Message, Rows
      <4> QED
        BY <1>6, <4>2, <4>3 DEF MarkAsRead, ReadUpTo
    <3> QED
      BY <3>1, <3>2
  <2> QED
    BY <2>1, <2>3, <2>5, <2>6, <2>7 DEF IInv
<1>7. ASSUME NEW s \in Session, CreateSession(s)
      PROVE  IInv'
  <2>1. TypeOK' /\ CallsOK'
    BY <1>0, <1>7 DEF CreateSession, TypeOK, CallsOK, MaxSeq, Seqs, Rows
  <2>2. Inserted' = Inserted
    BY <1>7 DEF CreateSession, Inserted
  <2> QED
    BY <1>7, <2>1, <2>2, LocalStep DEF CreateSession
<1>8. CASE UNCHANGED vars
  <2>1. TypeOK' /\ CallsOK'
    BY <1>0, <1>8 DEF vars, TypeOK, CallsOK, MaxSeq, Seqs, Rows
  <2>2. Inserted' = Inserted
    BY <1>8 DEF vars, Inserted
  <2> QED
    BY <1>8, <2>1, <2>2, LocalStep DEF vars
<1> QED
  BY <1>1, <1>2, <1>3, <1>4, <1>5, <1>6, <1>7, <1>8 DEF Next, Step

\* The inductive invariant is one.
THEOREM Inductive == Spec => []IInv
<1> QED
  BY InitIInv, NextIInv, PTL DEF Spec

\* Every variable keeps its type.
THEOREM TypeCorrect == Spec => []TypeOK
<1>1. IInv => TypeOK
  BY DEF IInv
<1> QED
  BY <1>1, Inductive, PTL

\* The numbers of a session have no gap and no duplicate, whoever sends,
\* whatever rolls back and on however many nodes: the unique index makes up
\* for the read that does not lock.
THEOREM Contiguous == Spec => []SeqContiguous
<1>1. IInv => SeqContiguous
  BY MaxSeqOf DEF IInv, NumbersOK, SeqContiguous
<1> QED
  BY <1>1, Inductive, PTL

\* Ids and sequence numbers order a session alike.
THEOREM OrderedAlike == Spec => []IdFollowsSeq
<1>1. IInv => IdFollowsSeq
  BY DEF IInv
<1> QED
  BY <1>1, Inductive, PTL

\* The messages that are read are the first ones of their session.
THEOREM PrefixRead == Spec => []ReadIsPrefix
<1>1. IInv => ReadIsPrefix
  BY DEF IInv
<1> QED
  BY <1>1, Inductive, PTL
-----------------------------------------------------------------------------
(* The newest message *)

LEMMA MaxIs ==
  ASSUME NEW set \in SUBSET Nat, NEW n \in set, \A y \in set : n >= y
  PROVE  Max(set) = n
<1>1. \A x \in set : (\A y \in set : x >= y) => x = n
  OBVIOUS
<1> QED
  BY <1>1 DEF Max

\* The messages whose transaction changed the session's row.
Ids(s) == {0} \cup {m.id : m \in {n \in Rows(s) : n.touched}}

\* last_msg_id is the id of one of them, and of no older one than any.
NewestOK ==
  \A s \in Session : last[s] \in Ids(s) /\ \A i \in Ids(s) : last[s] >= i

LEMMA InitNewest == Init => NewestOK
<1> QED
  BY DEF Init, NewestOK, Ids, Rows

\* A commit is newer than all of its session, and sets the row it has touched.
LEMMA CommitNewest ==
  ASSUME IInv, NewestOK, NEW c \in Call, Commit(c)
  PROVE  NewestOK'
<1>0. TypeOK /\ InsertedOK
  BY DEF IInv
<1>1. PICK s \in Session, r \in {RowOf(c)} : CommitsTo(c, s, r)
  BY CommitAppends
<1>2. s = call[c].sid /\ r.id = call[c].id /\ r.touched = call[c].touched
  BY <1>1 DEF CommitsTo, RowOf
<1>3. c \in Inserted
  BY DEF Commit, Inserted
<1>4. /\ r.id \in Nat
      /\ \A m \in Rows(s) : m.id < r.id /\ m.id \in Nat
  BY <1>0, <1>2, <1>3 DEF InsertedOK, Rows, Message, TypeOK
<1>5. /\ last'[s] = IF r.touched THEN r.id ELSE last[s]
      /\ \A t \in Session : t # s => last'[t] = last[t]
  BY <1>0, <1>2 DEF Commit, TypeOK
<1>6. /\ Rows(s)' = Rows(s) \cup {r}
      /\ \A t \in Session : t # s => Rows(t)' = Rows(t)
  BY <1>1 DEF CommitsTo
<1>7. \A i \in Ids(s) : i \in Nat /\ r.id >= i
  BY <1>4 DEF Ids
<1>8. Ids(s)' = IF r.touched THEN Ids(s) \cup {r.id} ELSE Ids(s)
  <2>1. CASE r.touched
    <3>1. {n \in Rows(s)' : n.touched} = {n \in Rows(s) : n.touched} \cup {r}
      BY <1>6, <2>1
    <3>2. Ids(s)' = Ids(s) \cup {r.id}
      BY <3>1 DEF Ids
    <3> QED
      BY <2>1, <3>2
  <2>2. CASE ~r.touched
    <3>1. {n \in Rows(s)' : n.touched} = {n \in Rows(s) : n.touched}
      BY <1>6, <2>2
    <3>2. Ids(s)' = Ids(s)
      BY <3>1 DEF Ids
    <3> QED
      BY <2>2, <3>2
  <2> QED
    BY <2>1, <2>2
<1>9. \A t \in Session : t # s => Ids(t)' = Ids(t)
  BY <1>6 DEF Ids
<1>10. last'[s] \in Ids(s)' /\ \A i \in Ids(s)' : last'[s] >= i
  <2>1. CASE r.touched
    BY <1>4, <1>5, <1>7, <1>8, <2>1
  <2>2. CASE ~r.touched
    BY <1>5, <1>8, <2>2 DEF NewestOK
  <2> QED
    BY <2>1, <2>2
<1> QED
  BY <1>5, <1>9, <1>10 DEF NewestOK

LEMMA NextNewest ==
  ASSUME IInv, NewestOK, [Next]_vars
  PROVE  NewestOK'
<1>1. ASSUME UNCHANGED <<messages, last>>
      PROVE  NewestOK'
  BY <1>1 DEF NewestOK, Ids, Rows
<1>2. ASSUME NEW c \in Call, Commit(c)
      PROVE  NewestOK'
  BY <1>2, CommitNewest
<1>3. ASSUME NEW c \in Call, Step(c), ~Commit(c)
      PROVE  NewestOK'
  BY <1>1, <1>3 DEF Step, GetNextSeqNum, Create, UpdateLastMessage, Rollback
<1>4. CASE \E s \in Session : CreateSession(s)
  BY <1>1, <1>4 DEF CreateSession
<1>5. CASE UNCHANGED vars \/ \E s \in Session, r \in Reader, id \in 1..MaxId : MarkAsRead(s, r, id)
  BY <1>1, <1>5 DEF vars, MarkAsRead
<1> QED
  BY <1>2, <1>3, <1>4, <1>5 DEF Next

\* last_msg_id is the newest of the messages whose UPDATE met the session's row
\* and did not fail, whichever node commits, and whoever rolls back: an older one
\* never takes its place (SendMessage).
THEOREM Newest == Spec => []LastIsNewest
<1>1. Init => IInv /\ NewestOK
  BY InitIInv, InitNewest
<1>2. IInv /\ NewestOK /\ [Next]_vars => IInv' /\ NewestOK'
  BY NextIInv, NextNewest
<1>3. IInv /\ NewestOK => LastIsNewest
  <2> SUFFICES ASSUME IInv, NewestOK, NEW s \in Session
               PROVE  last[s] = Max(Ids(s))
    BY DEF LastIsNewest, Ids
  <2>1. Ids(s) \subseteq Nat
    BY DEF Ids, Rows, IInv, TypeOK, Message
  <2> QED
    BY <2>1, MaxIs DEF NewestOK
<1> QED
  BY <1>1, <1>2, <1>3, PTL DEF Spec
-----------------------------------------------------------------------------
(* The pages of the history *)

\* The row with number i, of some rows.
At(rows, i) == CHOOSE m \in rows : m.seq = i

LEMMA AtUnique ==
  ASSUME NEW rows, NEW m \in rows, NEW i, m.seq = i,
         \A n \in rows : n.seq = i => n = m
  PROVE  At(rows, i) = m
<1> QED
  BY DEF At

\* There is one, and only one, for each number of a session.
LEMMA RowAt ==
  ASSUME IInv, NEW s \in Session
  PROVE  /\ \A i \in 1..MaxSeq(s) : At(Rows(s), i) \in Rows(s) /\ At(Rows(s), i).seq = i
         /\ \A m \in Rows(s) : m.seq \in 1..MaxSeq(s) /\ At(Rows(s), m.seq) = m
<1>1. Seqs(s) = 1..MaxSeq(s)
  BY MaxSeqOf DEF IInv
<1>2. \A i \in 1..MaxSeq(s) : \E m \in Rows(s) : m.seq = i
  BY <1>1 DEF Seqs
<1>3. \A m \in Rows(s) : m.seq \in 1..MaxSeq(s)
  BY <1>1 DEF Seqs
<1>4. \A m, n \in Rows(s) : m.seq = n.seq => m = n
  BY DEF IInv, NumbersOK
<1> QED
  BY <1>2, <1>3, <1>4, AtUnique

\* What the page query counts: the messages of a range of numbers.
LEMMA RangeCount ==
  ASSUME IInv, NEW s \in Session, NEW a \in 1..MaxSeq(s), NEW b \in a..MaxSeq(s)
  PROVE  Cardinality({m \in Rows(s) : m.seq \in a + 1 .. b}) = b - a
<1> DEFINE nums == a + 1 .. b
           rows == {m \in Rows(s) : m.seq \in nums}
           f    == [i \in nums |-> At(Rows(s), i)]
<1>1. MaxSeq(s) \in Nat
  BY MaxSeqOf DEF IInv
<1>2. \A i \in nums : At(Rows(s), i) \in rows /\ At(Rows(s), i).seq = i
  BY <1>1, RowAt
<1>3. \A m \in rows : At(Rows(s), m.seq) = m
  BY RowAt
<1> HIDE DEF nums, rows
<1>4. f \in Bijection(nums, rows)
  <2>1. f \in [nums -> rows]
    BY <1>2
  <2>2. \A i, j \in nums : f[i] = f[j] => i = j
    BY <1>2
  <2>3. \A m \in rows : m.seq \in nums /\ f[m.seq] = m
    BY <1>3 DEF rows
  <2> QED
    BY <2>1, <2>2, <2>3 DEF Bijection, Injection, Surjection, IsInjective
<1>5. IsFiniteSet(nums) /\ Cardinality(nums) = b - a
  BY <1>1, FS_Interval DEF nums
<1>6. Cardinality(rows) = Cardinality(nums)
  BY <1>4, <1>5, FS_Bijection DEF ExistsBijection
<1> QED
  BY <1>5, <1>6 DEF rows, nums

\* A page is what it should be, however many messages it is asked for.
LEMMA PageHolds ==
  ASSUME IInv, NEW s \in Session, NEW limit \in Nat, NEW before \in 0..MaxSeq(s) + 1
  PROVE  PageIs(s, before, limit)
<1> DEFINE top == IF before = 0 THEN MaxSeq(s) ELSE before - 1
           page == HistoryPage(s, before, limit)
<1>1. MaxSeq(s) \in Nat /\ top \in 0..MaxSeq(s)
  BY MaxSeqOf DEF IInv
<1>2. \A m : m \in Below(s, before) <=> m \in Rows(s) /\ m.seq \in 1..top
  BY <1>1, RowAt DEF Below
<1>3. \A m \in Below(s, before) :
        Cardinality({n \in Below(s, before) : n.seq > m.seq}) = top - m.seq
  <2> SUFFICES ASSUME NEW m \in Below(s, before)
               PROVE  Cardinality({n \in Below(s, before) : n.seq > m.seq}) = top - m.seq
    OBVIOUS
  <2>1. m.seq \in 1..MaxSeq(s) /\ top \in m.seq..MaxSeq(s)
    BY <1>1, <1>2
  <2>2. {n \in Below(s, before) : n.seq > m.seq} = {n \in Rows(s) : n.seq \in m.seq + 1 .. top}
    BY <1>1, <1>2, <2>1
  <2> QED
    BY <2>1, <2>2, RangeCount
<1>4. \A m : m \in page <=> m \in Rows(s) /\ m.seq \in 1..top /\ m.seq + limit > top
  BY <1>1, <1>2, <1>3 DEF HistoryPage
<1>5. \A i \in 1..top : At(Rows(s), i) \in Rows(s) /\ At(Rows(s), i).seq = i
  BY <1>1, RowAt
<1> HIDE DEF top, page
<1>6. {m.seq : m \in page} = {i \in 1..top : i + limit > top}
  BY <1>4, <1>5
<1> QED
  BY <1>6 DEF PageIs, top, page

\* A page of the history has the newest messages below the one it is asked for,
\* without a hole and no more of them than the limit (FindBySessionID).
THEOREM ExactPages == Spec => []PageExact
<1>1. IInv => PageExact
  BY PageHolds DEF PageExact
<1> QED
  BY <1>1, Inductive, PTL

\* And so with any limit a client asks for.
THEOREM AnyPage ==
  Spec => [](\A s \in Session, limit \in Nat :
               \A before \in 0..MaxSeq(s) + 1 : PageIs(s, before, limit))
<1>1. IInv => \A s \in Session, limit \in Nat :
               \A before \in 0..MaxSeq(s) + 1 : PageIs(s, before, limit)
  BY PageHolds
<1> QED
  BY <1>1, Inductive, PTL
-----------------------------------------------------------------------------
(* The log of a session *)

\* A set of numbers that is bounded has its maximum: the intervals between its
\* elements and the bound are finite sets, and one of them is the smallest.
LEMMA BoundedMax ==
  ASSUME NEW n \in Nat, NEW set \in SUBSET (0..n), set # {}
  PROVE  Max(set) \in set /\ \A y \in set : Max(set) >= y
<1> DEFINE tails == {y..n : y \in set}
<1>1. tails \subseteq FiniteSubsetsOf(Nat) /\ tails # {}
  <2>1. ASSUME NEW y \in set
        PROVE  y..n \in FiniteSubsetsOf(Nat)
    BY FS_Interval DEF FiniteSubsetsOf
  <2> QED
    BY <2>1
<1>2. PICK x \in tails : \A t \in tails : <<t, x>> \notin StrictSubsetOrdering(Nat)
  <2> HIDE DEF tails
  <2> QED
    BY <1>1, FS_StrictSubsetOrderingWellFounded, WFMin
<1>3. PICK m \in set : x = m..n
  OBVIOUS
<1>4. ASSUME NEW y \in set, y > m
      PROVE  FALSE
  <2>1. y..n \in tails /\ y..n \subseteq Nat /\ m..n \subseteq Nat
    OBVIOUS
  <2>2. y..n \subseteq m..n /\ m \in m..n /\ m \notin y..n
    BY <1>4
  <2> QED
    BY <1>2, <1>3, <2>1, <2>2 DEF StrictSubsetOrdering
<1>5. \A y \in set : m >= y
  BY <1>4
<1> QED
  BY <1>5 DEF Max

\* The log a session stands for is a sequence, of the senders of its rows.
LEMMA LogIs ==
  ASSUME IInv, NEW s \in Session
  PROVE  /\ MaxSeq(s) \in Nat
         /\ Log[s] \in Seq(Sender) /\ Len(Log[s]) = MaxSeq(s)
         /\ \A i \in 1..MaxSeq(s) : Log[s][i] = At(Rows(s), i).from
<1> DEFINE n == MaxSeq(s)
<1>1. n \in Nat
  BY MaxSeqOf DEF IInv
<1>2. Log[s] = [i \in 1..n |-> At(Rows(s), i).from]
  BY DEF Log, At
<1>3. \A i \in 1..n : At(Rows(s), i).from \in Sender
  BY RowAt DEF IInv, TypeOK, Message, Rows
<1> HIDE DEF n
<1>4. Log[s] \in [1..n -> Sender]
  BY <1>2, <1>3
<1> QED
  BY <1>1, <1>2, <1>4 DEF n

\* The cursor is the number of the messages that are read.
LEMMA CursorIs ==
  ASSUME IInv, NEW s \in Session
  PROVE  /\ Cursor[s] \in 0..MaxSeq(s)
         /\ \A m \in Rows(s) : m.id \in readIds <=> m.seq <= Cursor[s]
<1> DEFINE set == {0} \cup {m.seq : m \in {n \in Rows(s) : n.id \in readIds}}
<1>1. MaxSeq(s) \in Nat /\ \A m \in Rows(s) : m.seq \in 1..MaxSeq(s)
  BY MaxSeqOf, RowAt DEF IInv
<1>2. set \subseteq 0..MaxSeq(s) /\ 0 \in set
  BY <1>1
<1>3. \A y : y \in set <=> y = 0 \/ \E m \in Rows(s) : m.id \in readIds /\ m.seq = y
  OBVIOUS
<1>4. Cursor[s] = Max(set)
  BY DEF Cursor
<1> HIDE DEF set
<1>5. Cursor[s] \in set /\ \A y \in set : Cursor[s] >= y
  BY <1>1, <1>2, <1>4, BoundedMax
<1>6. Cursor[s] \in 0..MaxSeq(s)
  BY <1>2, <1>5
<1>7. \A m \in Rows(s) : m.id \in readIds => m.seq <= Cursor[s]
  BY <1>1, <1>3, <1>5, <1>6
<1>8. ASSUME NEW m \in Rows(s), m.seq <= Cursor[s]
      PROVE  m.id \in readIds
  <2>1. m.seq \in Nat /\ m.seq > 0 /\ Cursor[s] \in Nat
    BY <1>1, <1>6
  <2>2. PICK n \in Rows(s) : n.id \in readIds /\ n.seq = Cursor[s]
    BY <1>3, <1>5, <1>8, <2>1
  <2>3. m.seq = n.seq => m = n
    BY DEF IInv, NumbersOK
  <2>4. n = m \/ m.seq < n.seq
    BY <1>8, <2>1, <2>2, <2>3
  <2> QED
    BY <2>2, <2>4 DEF IInv, ReadIsPrefix
<1> QED
  BY <1>6, <1>7, <1>8
-----------------------------------------------------------------------------
(* MessageService implements MessageLog *)

LEMMA InitLog == Init => Abstract!Init
<1> SUFFICES ASSUME Init, NEW s \in Session
             PROVE  Log[s] = <<>> /\ Cursor[s] = 0
  BY DEF Abstract!Init, Log, Cursor
<1>1. Rows(s) = {}
  BY DEF Init, Rows
<1>2. {0} \cup {m.seq : m \in {n \in Rows(s) : n.id \in readIds}} = {0} \cup 1..0
  BY <1>1
<1>3. MaxSeq(s) = 0
  BY <1>1, <1>2, MaxOfPrefix DEF MaxSeq, Seqs
<1>4. Cursor[s] = 0
  BY <1>2, MaxOfPrefix DEF Cursor
<1>5. Log[s] = <<>>
  BY <1>3, InitIInv, LogIs, EmptySeq
<1> QED
  BY <1>4, <1>5

\* What reads the rows alone stays as they stay.
LEMMA LogStays ==
  ASSUME UNCHANGED <<messages, readIds>>
  PROVE  Log' = Log /\ Cursor' = Cursor
<1> QED
  BY DEF Log, Cursor, MaxSeq, Seqs, Rows

\* A commit appends to the log of one session, and moves no cursor.
LEMMA CommitSends ==
  ASSUME IInv, NEW c \in Call, Commit(c)
  PROVE  \E s \in Session, from \in Sender : Abstract!Send(s, from)
<1>1. PICK s \in Session, r \in {RowOf(c)} : CommitsTo(c, s, r)
  BY CommitAppends
<1> DEFINE n == MaxSeq(s)
<1>2. /\ n \in Nat
      /\ \A i \in 1..n : At(Rows(s), i) \in Rows(s) /\ At(Rows(s), i).seq = i
      /\ \A m \in Rows(s) : m.seq \in 1..n /\ At(Rows(s), m.seq) = m
      /\ Log[s] \in Seq(Sender) /\ Len(Log[s]) = n
      /\ \A i \in 1..n : Log[s][i] = At(Rows(s), i).from
  BY RowAt, LogIs
<1>3. /\ Rows(s)' = Rows(s) \cup {r} /\ MaxSeq(s)' = n + 1
      /\ r.seq = n + 1 /\ r.id = call[c].id /\ r.from \in Sender
      /\ \A t : t # s => Rows(t)' = Rows(t) /\ MaxSeq(t)' = MaxSeq(t)
  BY <1>1 DEF CommitsTo
<1> HIDE DEF n
<1>4. \A i \in 1..n : At(Rows(s)', i) = At(Rows(s), i)
  <2> SUFFICES ASSUME NEW i \in 1..n
               PROVE  At(Rows(s)', i) = At(Rows(s), i)
    OBVIOUS
  <2>1. At(Rows(s), i) \in Rows(s)' /\ At(Rows(s), i).seq = i
    BY <1>2, <1>3
  <2>2. \A m \in Rows(s)' : m.seq = i => m = At(Rows(s), i)
    BY <1>2, <1>3
  <2> QED
    BY <2>1, <2>2, AtUnique
<1>5. At(Rows(s)', n + 1) = r
  <2>1. \A m \in Rows(s)' : m.seq = n + 1 => m = r
    BY <1>2, <1>3
  <2> QED
    BY <1>3, <2>1, AtUnique
<1>6. Log'[s] = Append(Log[s], r.from)
  <2>1. Log'[s] = [i \in 1..n + 1 |-> At(Rows(s)', i).from]
    BY <1>3 DEF Log, At
  <2>2. \A i \in 1..n : Log'[s][i] = Log[s][i] /\ Log[s][i] \in Sender
    BY <1>2, <1>4, <2>1, ElementOfSeq
  <2>3. Log'[s][n + 1] = r.from
    BY <1>2, <1>5, <2>1
  <2>4. Log'[s] \in Seq(Sender) /\ Len(Log'[s]) = n + 1
    <3>1. \A i \in 1..n + 1 : Log'[s][i] \in Sender
      BY <1>2, <1>3, <2>2, <2>3
    <3>2. Log'[s] \in [1..n + 1 -> Sender]
      BY <2>1, <3>1
    <3> QED
      BY <1>2, <2>1, <3>2
  <2>5. \A i \in 1..n + 1 : Log'[s][i] = Append(Log[s], r.from)[i]
    BY <1>2, <1>3, <2>2, <2>3, AppendProperties
  <2> QED
    BY <1>2, <1>3, <2>4, <2>5, AppendProperties, SeqEqual
<1>7. \A t \in Session : t # s => Log'[t] = Log[t]
  <2> SUFFICES ASSUME NEW t \in Session, t # s
               PROVE  Log'[t] = Log[t]
    OBVIOUS
  <2>1. /\ Log'[t] = [i \in 1..MaxSeq(t)' |-> At(Rows(t)', i).from]
        /\ Log[t] = [i \in 1..MaxSeq(t) |-> At(Rows(t), i).from]
    BY DEF Log, At
  <2>2. Rows(t)' = Rows(t) /\ MaxSeq(t)' = MaxSeq(t)
    BY <1>3
  <2> QED
    BY <2>1, <2>2
<1>8. Cursor' = Cursor
  <2>1. readIds' = readIds /\ r.id \notin readIds
    BY <1>1, <1>3 DEF Commit, IInv, IdsOK, InsertedOK, Inserted
  <2>2. \A t \in Session : {m \in Rows(t)' : m.id \in readIds} = {m \in Rows(t) : m.id \in readIds}
    BY <1>3, <2>1
  <2> QED
    BY <2>1, <2>2 DEF Cursor
<1>9. Log' = [Log EXCEPT ![s] = Append(@, r.from)]
  BY <1>6, <1>7 DEF Log
<1> QED
  BY <1>3, <1>8, <1>9 DEF Abstract!Send
\* A read report moves the cursor of one session, if any, and forwards.
LEMMA MarkReads ==
  ASSUME IInv, NEW s \in Session, NEW r \in Reader, NEW id \in 1..MaxId,
         MarkAsRead(s, r, id)
  PROVE  \E k \in Cursor[s] .. Len(Log[s]) : Abstract!Read(s, k)
<1> DEFINE read(ids) == {0} \cup {m.seq : m \in {n \in Rows(s) : n.id \in ids}}
           now   == read(readIds)
           after == read(readIds')
<1>1. Log' = Log /\ \A t : Rows(t)' = Rows(t)
  BY DEF MarkAsRead, Log, MaxSeq, Seqs, Rows
<1>2. MaxSeq(s) \in Nat /\ Len(Log[s]) = MaxSeq(s)
  BY LogIs
<1>3. \A m \in Rows(s) : m.seq \in 0..MaxSeq(s)
  BY <1>2, RowAt
<1>4. 0 \in now /\ now \subseteq after /\ after \subseteq 0..MaxSeq(s)
  BY <1>2, <1>3 DEF MarkAsRead
<1>5. Cursor[s] = Max(now) /\ Cursor'[s] = Max(after)
  BY <1>1 DEF Cursor
<1> HIDE DEF now, after
<1>6. /\ Max(now) \in now
      /\ Max(after) \in after /\ \A y \in after : Max(after) >= y
  BY <1>2, <1>4, BoundedMax
<1>7. Cursor'[s] \in Cursor[s] .. Len(Log[s])
  <2>1. Max(now) \in 0..MaxSeq(s) /\ Max(after) \in 0..MaxSeq(s)
    BY <1>4, <1>6
  <2>2. Max(after) >= Max(now)
    BY <1>4, <1>6
  <2> QED
    BY <1>2, <1>5, <2>1, <2>2
<1>8. \A t \in Session : t # s => Cursor'[t] = Cursor[t]
  <2> SUFFICES ASSUME NEW t \in Session, t # s
               PROVE  Cursor'[t] = Cursor[t]
    OBVIOUS
  <2>1. ASSUME NEW m \in Rows(t)
        PROVE  m.id \in readIds' <=> m.id \in readIds
    BY DEF MarkAsRead, ReadUpTo, Rows, IInv, IdsOK
  <2>2. {m \in Rows(t)' : m.id \in readIds'} = {m \in Rows(t) : m.id \in readIds}
    BY <1>1, <2>1
  <2> QED
    BY <2>2 DEF Cursor
<1>9. Cursor' = [Cursor EXCEPT ![s] = Cursor'[s]]
  BY <1>8 DEF Cursor
<1> QED
  BY <1>1, <1>7, <1>9 DEF Abstract!Read

\* The service implements the log: whatever runs concurrently, rolls back or is
\* reported read, each step appends one message to the end of one session, or
\* moves the cursor of one forwards, or changes nothing a user can see.
THEOREM ImplementsLog == Spec => Implements
<1>1. ASSUME IInv, [Next]_vars
      PROVE  [Abstract!Next]_(Abstract!vars)
  <2>1. ASSUME UNCHANGED <<messages, readIds>>
        PROVE  UNCHANGED Abstract!vars
    BY <2>1, LogStays DEF Abstract!vars
  <2>2. ASSUME NEW c \in Call, Commit(c)
        PROVE  Abstract!Next
    BY <1>1, <2>2, CommitSends DEF Abstract!Next
  <2>3. ASSUME NEW s \in Session, NEW r \in Reader, NEW id \in 1..MaxId,
               MarkAsRead(s, r, id)
        PROVE  Abstract!Next
    BY <1>1, <2>3, MarkReads DEF Abstract!Next
  <2>4. CASE UNCHANGED vars
    BY <2>1, <2>4 DEF vars
  <2>5. ASSUME NEW c \in Call, Step(c), ~Commit(c)
        PROVE  UNCHANGED Abstract!vars
    BY <2>1, <2>5 DEF Step, GetNextSeqNum, Create, UpdateLastMessage, Rollback
  <2>6. ASSUME NEW s \in Session, CreateSession(s)
        PROVE  UNCHANGED Abstract!vars
    BY <2>1, <2>6 DEF CreateSession
  <2> QED
    BY <1>1, <2>2, <2>3, <2>4, <2>5, <2>6 DEF Next, Step
<1> QED
  BY <1>1, InitLog, InitIInv, NextIInv, PTL DEF Spec, Implements, Abstract!Spec
=============================================================================
