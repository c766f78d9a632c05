--------------------------- MODULE VisitorsProofs ---------------------------
(***************************************************************************)
(* Proofs about Visitors, for every set of persons, connections, sessions   *)
(* and agents.                                                             *)
(***************************************************************************)
EXTENDS Visitors, TLAPS

(* The inductive invariant *)

\* A person has one row, with nobody else's data; an id not in use has no row.
RowsOK ==
  /\ \A i, j \in Id : row[i].ext # None /\ row[i].ext = row[j].ext => i = j
  /\ \A i \in Id : {row[i].nick, row[i].phone} \subseteq {None, row[i].ext}

\* A connection with a user has its own person's.
UsersOK ==
  \A c \in Conn :
    /\ user[c] # None => row[user[c]].ext = Of[c]
    /\ nick[c] \in {None, Of[c]}

\* What a handler holds between two calls.
TasksOK ==
  \A c \in Conn :
    /\ task[c].pc = "create" => user[c] = None
    /\ task[c].pc = "save" =>
         /\ user[c] # None
         /\ task[c].row.ext = Of[c]
         /\ {task[c].row.nick, task[c].row.phone} \subseteq {None, Of[c]}
    /\ task[c].pc = "rate" =>
         /\ user[c] # None
         /\ task[c].sid \in Session
         /\ task[c].agent \in {None, agent[task[c].sid]}

\* A rating was given by a connection whose user does not change any more.
GivenOK ==
  \A s \in Session : rating[s] # NoRating =>
    /\ rating[s].score \in Conn
    /\ user[rating[s].score] # None
    /\ rating[s].by = user[rating[s].score]
    /\ rating[s].agent \in {None, agent[s]}

\* A session has no agent before it is accepted.
SessionsOK ==
  \A s \in Session : status[s] \in {"none", "pending"} => agent[s] = None

IInv == TypeOK /\ RowsOK /\ UsersOK /\ TasksOK /\ GivenOK /\ SessionsOK

-----------------------------------------------------------------------------
LEMMA InitIInv == Init => IInv
<1> SUFFICES ASSUME Init PROVE IInv
  OBVIOUS
<1> USE OfAssumption, NoneAssumption
<1>1. TypeOK
  BY DEF Init, TypeOK, S!Init, S!Status, Idle, NoRow, NoRating, Row, Task
<1>2. RowsOK /\ UsersOK /\ TasksOK /\ GivenOK /\ SessionsOK
  BY DEF Init, RowsOK, UsersOK, TasksOK, GivenOK, SessionsOK, S!Init, Idle, NoRow
<1> QED
  BY <1>1, <1>2 DEF IInv

\* A connection that gets its user, with a row that is its person's.
LEMMA KnownKeeps ==
  ASSUME IInv, NEW c \in Conn, NEW i \in Id, NEW n \in {None, Of[c]},
         user[c] = None, Known(c, i, n), RowsOK', row' \in [Id -> Row],
         \A j \in Id : row[j].ext # None => row'[j].ext = row[j].ext,
         row'[i].ext = Of[c], UNCHANGED <<rating, sessions>>
  PROVE  IInv'
<1> USE OfAssumption, NoneAssumption DEF IInv
<1>1. TypeOK'
  BY DEF Known, Goto, TypeOK, Idle, NoRow, Row, Task, sessions
<1>2. /\ user' \in [Conn -> Id \cup {None}] /\ user'[c] = i
      /\ \A d \in Conn : d # c => user'[d] = user[d] /\ task'[d] = task[d]
      /\ \A d \in Conn : user[d] # None => user'[d] = user[d]
      /\ task'[c] = Idle
  BY DEF Known, Goto, TypeOK
<1>3. UsersOK'
  <2> SUFFICES ASSUME NEW d \in Conn
               PROVE  /\ user'[d] # None => row'[user'[d]].ext = Of[d]
                      /\ nick'[d] \in {None, Of[d]}
    BY DEF UsersOK
  <2>1. CASE d = c
    BY <2>1, <1>2 DEF Known, TypeOK
  <2>2. CASE d # c
    <3>1. user'[d] = user[d] /\ nick'[d] = nick[d]
      BY <2>2, <1>2 DEF Known, TypeOK
    <3>2. user[d] # None => user[d] \in Id /\ row[user[d]].ext = Of[d] /\ Of[d] # None
      BY DEF UsersOK, TypeOK
    <3> QED
      BY <3>1, <3>2 DEF UsersOK
  <2> QED
    BY <2>1, <2>2
<1>4. TasksOK'
  BY <1>2 DEF TasksOK, Idle, sessions
<1>5. GivenOK'
  BY <1>2 DEF GivenOK, sessions
<1>6. SessionsOK'
  BY DEF SessionsOK, sessions
<1> QED
  BY <1>1, <1>3, <1>4, <1>5, <1>6

LEMMA FindKeeps ==
  ASSUME IInv, NEW c \in Conn, FindByExternalID(c) PROVE IInv'
<1> USE OfAssumption, NoneAssumption DEF IInv
<1>1. CASE \E i \in Rows(Of[c]) : Known(c, i, row[i].nick)
  <2>1. PICK i \in Rows(Of[c]) : Known(c, i, row[i].nick)
    BY <1>1
  <2>2. i \in Id /\ row[i].ext = Of[c] /\ row[i].nick \in {None, Of[c]}
    BY <2>1 DEF Rows, RowsOK
  <2>3. user[c] = None /\ row' = row /\ UNCHANGED <<rating, sessions>>
    BY DEF FindByExternalID
  <2>4. RowsOK' /\ row' \in [Id -> Row]
    BY <2>3 DEF RowsOK, TypeOK
  <2> QED
    BY <2>1, <2>2, <2>3, <2>4, KnownKeeps
<1>2. CASE Goto(c, [Idle EXCEPT !.pc = "create"]) /\ UNCHANGED <<user, nick>>
  <2>1. user[c] = None /\ UNCHANGED <<row, rating, sessions, user, nick>>
    BY <1>2 DEF FindByExternalID
  <2>2. /\ task'[c] = [Idle EXCEPT !.pc = "create"]
        /\ \A d \in Conn : d # c => task'[d] = task[d]
    BY <1>2 DEF Goto, TypeOK
  <2>3. TypeOK'
    BY <1>2, <2>1 DEF Goto, TypeOK, Task, Row, Idle, NoRow, sessions
  <2>4. TasksOK'
    BY <2>1, <2>2 DEF TasksOK, Idle, sessions
  <2> QED
    BY <2>1, <2>3, <2>4 DEF RowsOK, UsersOK, GivenOK, SessionsOK, sessions
<1> QED
  BY <1>1, <1>2 DEF FindByExternalID

LEMMA CreateKeeps ==
  ASSUME IInv, NEW c \in Conn, Create(c) PROVE IInv'
<1> USE OfAssumption, NoneAssumption DEF IInv
<1>1. user[c] = None /\ UNCHANGED <<rating, sessions>>
  BY DEF Create, TasksOK
<1>2. ASSUME KeyFree(Of[c]), NEW i \in Id, NEW n \in Given(c), NEW p \in Given(c),
             row[i] = NoRow,
             row' = [row EXCEPT ![i] = [ext |-> Of[c], nick |-> n, phone |-> p]],
             Known(c, i, n)
      PROVE  IInv'
  <2>1. /\ row'[i] = [ext |-> Of[c], nick |-> n, phone |-> p]
        /\ \A j \in Id : j # i => row'[j] = row[j]
        /\ n \in {None, Of[c]} /\ p \in {None, Of[c]} /\ row[i].ext = None
    BY <1>2 DEF TypeOK, Given, NoRow
  <2>2. row' \in [Id -> Row]
    BY <1>2, <2>1 DEF TypeOK, Row
  <2>3. RowsOK'
    BY <1>2, <2>1 DEF RowsOK, KeyFree, Rows
  <2> QED
    BY <1>1, <1>2, <2>1, <2>2, <2>3, KnownKeeps
<1>3. CASE Goto(c, Idle) /\ UNCHANGED <<row, user, nick>>
  <2>1. task'[c] = Idle /\ \A d \in Conn : d # c => task'[d] = task[d]
    BY <1>3 DEF Goto, TypeOK
  <2>2. TypeOK'
    BY <1>1, <1>3 DEF Goto, TypeOK, Task, Row, Idle, NoRow, sessions
  <2>3. TasksOK'
    BY <1>1, <1>3, <2>1 DEF TasksOK, Idle, sessions
  <2> QED
    BY <1>1, <1>3, <2>2, <2>3 DEF RowsOK, UsersOK, GivenOK, SessionsOK, sessions
<1> QED
  BY <1>2, <1>3 DEF Create

LEMMA ReadKeeps ==
  ASSUME IInv, NEW c \in Conn, ReadVisitor(c) PROVE IInv'
<1> USE OfAssumption, NoneAssumption DEF IInv
<1>1. user[c] # None /\ user[c] \in Id /\ UNCHANGED <<row, rating, sessions, user, nick>>
  BY DEF ReadVisitor, Ready, TypeOK
<1>2. PICK n \in Given(c), p \in Given(c) :
        Goto(c, [Idle EXCEPT !.pc = "save",
                   !.row = [row[user[c]] EXCEPT !.nick  = IF n = None THEN @ ELSE n,
                                                !.phone = IF p = None THEN @ ELSE p],
                   !.named = n # None])
  BY DEF ReadVisitor
<1> DEFINE new == [row[user[c]] EXCEPT !.nick  = IF n = None THEN @ ELSE n,
                                       !.phone = IF p = None THEN @ ELSE p]
<1>3. row[user[c]] \in Row /\ row[user[c]].ext = Of[c]
  BY <1>1 DEF TypeOK, UsersOK
<1>4. /\ new \in Row /\ new.ext = Of[c]
      /\ {new.nick, new.phone} \subseteq {None, Of[c]}
  BY <1>1, <1>2, <1>3 DEF Row, Given, RowsOK
<1>5. /\ task'[c] = [Idle EXCEPT !.pc = "save", !.row = new, !.named = n # None]
      /\ \A d \in Conn : d # c => task'[d] = task[d]
      /\ task' = [task EXCEPT ![c] = task'[c]]
  BY <1>2 DEF Goto, TypeOK
<1> HIDE DEF new
<1>6. task'[c] \in Task
  BY <1>4, <1>5 DEF Idle, Task
<1>7. TypeOK'
  BY <1>1, <1>5, <1>6 DEF TypeOK, sessions
<1>8. TasksOK'
  <2>1. task'[c].pc = "save" /\ task'[c].row = new
    BY <1>5 DEF Idle
  <2>2. UNCHANGED <<agent, user>>
    BY <1>1 DEF sessions
  <2>3. ASSUME NEW d \in Conn, d # c
        PROVE  task'[d] = task[d]
    BY <1>5, <2>3
  <2> QED
    BY <1>1, <1>4, <2>1, <2>2, <2>3 DEF TasksOK
<1> QED
  BY <1>1, <1>7, <1>8 DEF RowsOK, UsersOK, GivenOK, SessionsOK, sessions

LEMMA SaveKeeps ==
  ASSUME IInv, NEW c \in Conn, SaveVisitor(c) PROVE IInv'
<1> USE OfAssumption, NoneAssumption DEF IInv
<1>1. /\ task[c].pc = "save" /\ Goto(c, Idle)
      /\ UNCHANGED <<rating, sessions, user>>
      /\ user[c] # None /\ user[c] \in Id
  BY DEF SaveVisitor, TasksOK, TypeOK
<1>2. /\ task'[c] = Idle /\ \A d \in Conn : d # c => task'[d] = task[d]
      /\ task' \in [Conn -> Task]
  BY <1>1 DEF Goto, TypeOK, Idle, NoRow, Row, Task
<1>3. /\ task[c].row \in Row /\ task[c].row.ext = Of[c] /\ row[user[c]].ext = Of[c]
      /\ {task[c].row.nick, task[c].row.phone} \subseteq {None, Of[c]}
  BY <1>1 DEF TasksOK, UsersOK, TypeOK, Task
<1>4. /\ row' \in [Id -> Row] /\ nick' \in [Conn -> Person \cup {None}]
      /\ \A i \in Id : row'[i].ext = row[i].ext
      /\ \A d \in Conn : nick'[d] \in {nick[d], Of[d]}
      /\ RowsOK'
  <2>1. CASE UNCHANGED <<row, nick>>
    BY <2>1 DEF RowsOK, TypeOK
  <2>2. CASE /\ row' = [row EXCEPT ![user[c]] = task[c].row]
             /\ nick' = IF task[c].named THEN [nick EXCEPT ![c] = Of[c]] ELSE nick
    <3>1. /\ row' \in [Id -> Row] /\ nick' \in [Conn -> Person \cup {None}]
          /\ \A i \in Id : row'[i] = IF i = user[c] THEN task[c].row ELSE row[i]
          /\ \A d \in Conn : nick'[d] \in {nick[d], Of[d]}
      BY <1>1, <1>3, <2>2 DEF TypeOK
    <3>2. \A i \in Id : row'[i].ext = row[i].ext
      BY <1>3, <3>1
    <3>3. \A i \in Id : {row'[i].nick, row'[i].phone} \subseteq {None, row'[i].ext}
      BY <1>3, <3>1 DEF RowsOK
    <3> QED
      BY <3>1, <3>2, <3>3 DEF RowsOK
  <2> QED
    BY <2>1, <2>2 DEF SaveVisitor
<1>5. TypeOK'
  BY <1>1, <1>2, <1>4 DEF TypeOK, sessions
<1>6. UsersOK'
  BY <1>1, <1>4 DEF UsersOK, TypeOK
<1>7. TasksOK'
  BY <1>1, <1>2 DEF TasksOK, Idle, sessions
<1> QED
  BY <1>1, <1>4, <1>5, <1>6, <1>7 DEF GivenOK, SessionsOK, sessions

LEMMA GetSessionKeeps ==
  ASSUME IInv, NEW c \in Conn, NEW s \in Session, GetSession(c, s) PROVE IInv'
<1> USE OfAssumption, NoneAssumption DEF IInv
<1>1. user[c] # None /\ UNCHANGED <<row, rating, sessions, user, nick>>
  BY DEF GetSession, Ready
<1>2. /\ task'[c] = [Idle EXCEPT !.pc = "rate", !.sid = s, !.agent = agent[s]]
      /\ \A d \in Conn : d # c => task'[d] = task[d]
      /\ task' = [task EXCEPT ![c] = task'[c]]
  BY DEF GetSession, Goto, TypeOK
<1>3. /\ task'[c].pc = "rate" /\ task'[c].row = NoRow /\ task'[c].named = FALSE
      /\ task'[c].sid = s /\ task'[c].agent = agent[s]
      /\ DOMAIN task'[c] = DOMAIN Idle
  BY <1>2 DEF Idle
<1>4. task'[c] \in Task
  <2>1. agent[s] \in Agent \cup {None}
    BY DEF TypeOK
  <2>2. NoRow \in Row
    BY DEF NoRow, Row
  <2>3. task'[c] = [pc |-> "rate", row |-> NoRow, named |-> FALSE, sid |-> s,
                    agent |-> agent[s]]
    BY <1>2 DEF Idle
  <2> QED
    BY <2>1, <2>2, <2>3 DEF Task
<1>5. TypeOK'
  BY <1>1, <1>2, <1>4 DEF TypeOK, sessions
<1>6. TasksOK'
  <2>1. agent' = agent /\ user' = user
    BY <1>1 DEF sessions
  <2> SUFFICES ASSUME NEW d \in Conn
               PROVE  /\ task'[d].pc = "create" => user[d] = None
                      /\ task'[d].pc = "save" =>
                           /\ user[d] # None
                           /\ task'[d].row.ext = Of[d]
                           /\ {task'[d].row.nick, task'[d].row.phone} \subseteq {None, Of[d]}
                      /\ task'[d].pc = "rate" =>
                           /\ user[d] # None
                           /\ task'[d].sid \in Session
                           /\ task'[d].agent \in {None, agent[task'[d].sid]}
    BY <2>1 DEF TasksOK
  <2>2. CASE d = c
    BY <2>2, <1>1, <1>3
  <2>3. CASE d # c
    BY <2>3, <1>2 DEF TasksOK
  <2> QED
    BY <2>2, <2>3
<1> QED
  BY <1>1, <1>5, <1>6 DEF RowsOK, UsersOK, GivenOK, SessionsOK, sessions

LEMMA SubmitKeeps ==
  ASSUME IInv, NEW c \in Conn, SubmitRating(c) PROVE IInv'
<1> USE OfAssumption, NoneAssumption DEF IInv
<1> DEFINE new == [by |-> user[c], agent |-> task[c].agent, score |-> c]
<1>1. /\ task[c].pc = "rate" /\ Goto(c, Idle)
      /\ UNCHANGED <<row, sessions, user, nick>>
      /\ user[c] # None /\ user[c] \in Id /\ task[c].sid \in Session
      /\ task[c].agent \in {None, agent[task[c].sid]}
  BY DEF SubmitRating, TasksOK, TypeOK
<1>2. /\ task'[c] = Idle /\ \A d \in Conn : d # c => task'[d] = task[d]
      /\ task' \in [Conn -> Task]
  BY <1>1 DEF Goto, TypeOK, Idle, NoRow, Row, Task
<1>3. Upsert(rating[task[c].sid], new) = new
  BY <1>1 DEF Upsert, TypeOK
<1>4. \A s \in Session : rating'[s] = rating[s] \/ (s = task[c].sid /\ rating'[s] = new)
  BY <1>1, <1>3 DEF SubmitRating, TypeOK
<1>5. rating' \in [Session ->
        [by : Id \cup {None}, agent : Agent \cup {None}, score : Conn \cup {None}]]
  <2>1. new \in [by : Id \cup {None}, agent : Agent \cup {None}, score : Conn \cup {None}]
    BY <1>1 DEF TypeOK, Task
  <2>2. rating' = rating \/ rating' = [rating EXCEPT ![task[c].sid] = new]
    BY <1>1, <1>3 DEF SubmitRating
  <2> QED
    BY <1>1, <2>1, <2>2 DEF TypeOK
<1>6. TypeOK'
  BY <1>1, <1>2, <1>5 DEF TypeOK, sessions
<1>7. GivenOK'
  BY <1>1, <1>4 DEF GivenOK, sessions
<1>8. TasksOK'
  BY <1>1, <1>2 DEF TasksOK, Idle, sessions
<1> QED
  BY <1>1, <1>6, <1>7, <1>8 DEF RowsOK, UsersOK, SessionsOK, sessions

LEMMA SessionKeeps ==
  ASSUME IInv, SessionStep PROVE IInv'
<1> USE OfAssumption, NoneAssumption DEF IInv
<1>1. /\ UNCHANGED <<row, rating, user, nick, task>>
      /\ status' \in [Session -> S!Status]
      /\ visitor' \in [Session -> Id \cup {None}]
      /\ agent' \in [Session -> Agent \cup {None}]
      /\ \A s \in Session : agent[s] # None => agent'[s] = agent[s]
      /\ SessionsOK'
  BY DEF SessionStep, S!Create, S!Assign, S!Close, S!Status, TypeOK, SessionsOK
<1>2. TypeOK'
  BY <1>1 DEF TypeOK
<1>3. TasksOK' /\ GivenOK'
  BY <1>1 DEF TasksOK, GivenOK
<1> QED
  BY <1>1, <1>2, <1>3 DEF RowsOK, UsersOK

LEMMA StepIInv == IInv /\ [Next]_vars => IInv'
<1> SUFFICES ASSUME IInv, [Next]_vars PROVE IInv'
  OBVIOUS
<1>1. CASE UNCHANGED vars
  BY <1>1 DEF IInv, TypeOK, RowsOK, UsersOK, TasksOK, GivenOK, SessionsOK, vars, sessions
<1> QED
  BY <1>1, FindKeeps, CreateKeeps, ReadKeeps, SaveKeeps, GetSessionKeeps, SubmitKeeps,
     SessionKeeps DEF Next

\* Every state that Visitors reaches satisfies the inductive invariant.
THEOREM Inductive == Spec => []IInv
<1> QED
  BY InitIInv, StepIInv, PTL DEF Spec

-----------------------------------------------------------------------------
\* Every state of the visitor service and the ratings is well typed.
THEOREM TypeCorrect == Spec => []TypeOK
<1>1. IInv => TypeOK
  BY DEF IInv
<1> QED
  BY <1>1, Inductive, PTL

\* A visitor id is one person's, whoever connects and updates at the same time
\* (Authenticate beside the unique index, UpdateVisitor).
THEOREM OnePerson == Spec => []OnePersonPerId
<1>1. IInv => OnePersonPerId
  <2> SUFFICES ASSUME IInv PROVE OnePersonPerId
    OBVIOUS
  <2>1. \A c, d \in Conn :
          user[c] # None /\ user[d] # None => (user[c] = user[d] <=> Of[c] = Of[d])
    BY OfAssumption, NoneAssumption DEF IInv, UsersOK, RowsOK, TypeOK
  <2> QED
    BY <2>1 DEF IInv, UsersOK, RowsOK, OnePersonPerId
<1> QED
  BY <1>1, Inductive, PTL

\* A rating is one submission's and names the agent of the session or none
\* (handleSatisfactionRate).
THEOREM OneRating == Spec => []RatingIsOne
<1>1. IInv => RatingIsOne
  BY DEF IInv, GivenOK, RatingIsOne
<1> QED
  BY <1>1, Inductive, PTL
=============================================================================
