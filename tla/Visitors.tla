------------------------------ MODULE Visitors ------------------------------
(***************************************************************************)
(* The rows of ccsim_visitors and ccsim_satisfaction_ratings: Authenticate  *)
(* and UpdateVisitor (service/visitor.go), handleVisitorAuth (handler/       *)
(* auth.go) and handler/extra.go, on any number of connections at once.     *)
(* Each call of the repository is one statement, with no transaction around  *)
(* two of them.  The sessions change beside as SessionLifecycle allows.     *)
(*                                                                         *)
(* One tenant.  Nickname and phone stand for the fields that a visitor may   *)
(* set; a value is known by the person who sent it, None when it is empty.  *)
(* The notices that follow an update are broadcasts, which Fanout is about. *)
(***************************************************************************)
EXTENDS FiniteSets

CONSTANTS
  Person,          \* external ids
  Id,              \* the ids of the visitors
  Agent, Session,
  Conn,            \* connections of visitors
  Of,              \* Of[c]: the external id that authenticates on c
  Unique,          \* whether a visitor has one open session (SessionLifecycle)
  None

ASSUME OfAssumption == Of \in [Conn -> Person]
ASSUME NoneAssumption == None \notin Person \cup Id \cup Agent \cup Session

VARIABLES
  row,       \* row[i], of ccsim_visitors
  rating,    \* rating[s], of ccsim_satisfaction_ratings
  status, visitor, agent,  \* the rows of ccsim_sessions
  user, nick,  \* the attributes of a connection
  task         \* task[c]: where the handler of c is, and its local variables

sessions == <<status, visitor, agent>>
vars     == <<row, rating, sessions, user, nick, task>>

S == INSTANCE SessionLifecycle WITH Visitor <- Id

-----------------------------------------------------------------------------
NoRow    == [ext |-> None, nick |-> None, phone |-> None]
NoRating == [by |-> None, agent |-> None, score |-> None]
Idle     == [pc |-> "idle", row |-> NoRow, named |-> FALSE, sid |-> None, agent |-> None]

Goto(c, t) == task' = [task EXCEPT ![c] = t]

\* What a visitor leaves out of a message is None.
Given(c) == {None, Of[c]}

Init ==
  /\ row    = [i \in Id |-> NoRow]
  /\ rating = [s \in Session |-> NoRating]
  /\ S!Init
  /\ user   = [c \in Conn |-> None]
  /\ nick   = [c \in Conn |-> None]
  /\ task   = [c \in Conn |-> Idle]

-----------------------------------------------------------------------------
(* auth *)

Ready(c) == task[c].pc = "idle" /\ user[c] # None

Rows(e) == {i \in Id : row[i].ext = e}

\* Mutant: the attributes are swapped.
KnownSwapped(c, i, nickname) ==
  /\ user' = [user EXCEPT ![c] = nickname]
  /\ nick' = [nick EXCEPT ![c] = i]
  /\ Goto(c, Idle)

\* handleVisitorAuth, once it has the row.
Known(c, i, nickname) ==
  /\ user' = [user EXCEPT ![c] = i]
  /\ nick' = [nick EXCEPT ![c] = nickname]
  /\ Goto(c, Idle)

\* Any error counts as not found.
FindByExternalID(c) ==
  /\ task[c].pc = "idle" /\ user[c] = None
  /\ \/ \E i \in Rows(Of[c]) : Known(c, i, row[i].nick)
     \/ Goto(c, [Idle EXCEPT !.pc = "create"]) /\ UNCHANGED <<user, nick>>
  /\ UNCHANGED <<row, rating, sessions>>

\* Mutant: no unique index.
KeyUnchecked(e) == TRUE

\* The unique index uk_tenant_external.
KeyFree(e) == Rows(e) = {}

\* The database numbers the rows.  On an error the connection may try again.
Create(c) ==
  /\ task[c].pc = "create"
  /\ \/ /\ KeyFree(Of[c])
        /\ \E i \in Id, n \in Given(c), p \in Given(c) :
             /\ row[i] = NoRow
             /\ row' = [row EXCEPT ![i] = [ext |-> Of[c], nick |-> n, phone |-> p]]
             /\ Known(c, i, n)
     \/ Goto(c, Idle) /\ UNCHANGED <<row, user, nick>>
  /\ UNCHANGED <<rating, sessions>>

-----------------------------------------------------------------------------
(* visitor_update *)

\* The fields that are not empty go into a copy of the row.
ReadVisitor(c) ==
  /\ Ready(c)
  /\ \E n \in Given(c), p \in Given(c) :
       LET old == row[user[c]]
           new == [old EXCEPT !.nick  = IF n = None THEN @ ELSE n,
                              !.phone = IF p = None THEN @ ELSE p]
       IN Goto(c, [Idle EXCEPT !.pc = "save", !.row = new, !.named = n # None])
  /\ UNCHANGED <<row, rating, sessions, user, nick>>

\* Every column of the row is written, as it was read or set.
SaveVisitor(c) ==
  /\ task[c].pc = "save"
  /\ \/ /\ row' = [row EXCEPT ![user[c]] = task[c].row]
        /\ nick' = IF task[c].named THEN [nick EXCEPT ![c] = Of[c]] ELSE nick
     \/ UNCHANGED <<row, nick>>
  /\ Goto(c, Idle)
  /\ UNCHANGED <<rating, sessions, user>>

-----------------------------------------------------------------------------
(* satisfaction_rate *)

\* Any session there is, whoever's and whatever its status.
GetSession(c, s) ==
  /\ Ready(c)
  /\ status[s] # "none"
  /\ Goto(c, [Idle EXCEPT !.pc = "rate", !.sid = s, !.agent = agent[s]])
  /\ UNCHANGED <<row, rating, sessions, user, nick>>

\* Mutant: the conflicting row keeps its visitor.
UpsertScore(old, new) == IF old = NoRating THEN new ELSE [new EXCEPT !.by = old.by]

\* ON CONFLICT (session_id) these columns are assigned.
Upsert(old, new) ==
  [old EXCEPT !.by = new.by, !.agent = new.agent, !.score = new.score]

\* The connection stands for the score it gives.
SubmitRating(c) ==
  /\ task[c].pc = "rate"
  /\ LET new == [by |-> user[c], agent |-> task[c].agent, score |-> c] IN
     \/ rating' = [rating EXCEPT ![task[c].sid] = Upsert(@, new)]
     \/ UNCHANGED rating
  /\ Goto(c, Idle)
  /\ UNCHANGED <<row, sessions, user, nick>>

-----------------------------------------------------------------------------
\* Sessions of visitors that exist.
SessionStep ==
  /\ \E s \in Session :
       \/ \E i \in Id : row[i] # NoRow /\ S!Create(s, i)
       \/ \E a \in Agent : S!Assign(s, a)
       \/ S!Close(s)
  /\ UNCHANGED <<row, rating, user, nick, task>>

Next ==
  \/ \E c \in Conn :
       \/ FindByExternalID(c) \/ Create(c) \/ ReadVisitor(c) \/ SaveVisitor(c)
       \/ SubmitRating(c) \/ \E s \in Session : GetSession(c, s)
  \/ SessionStep

Spec == Init /\ [][Next]_vars

-----------------------------------------------------------------------------
(* Properties *)

Row == [ext : Person \cup {None}, nick : Person \cup {None}, phone : Person \cup {None}]

Task ==
  [pc : {"idle", "create", "save", "rate"}, row : Row, named : BOOLEAN,
   sid : Session \cup {None}, agent : Agent \cup {None}]

TypeOK ==
  /\ row \in [Id -> Row]
  /\ rating \in [Session ->
       [by : Id \cup {None}, agent : Agent \cup {None}, score : Conn \cup {None}]]
  /\ status  \in [Session -> S!Status]
  /\ visitor \in [Session -> Id \cup {None}]
  /\ agent   \in [Session -> Agent \cup {None}]
  /\ user \in [Conn -> Id \cup {None}]
  /\ nick \in [Conn -> Person \cup {None}]
  /\ task \in [Conn -> Task]

\* Two connections have the same visitor id just when they are the same
\* person's, although both may have found no row (Authenticate); and no visitor
\* has data another sent, although rows are written whole (UpdateVisitor).
OnePersonPerId ==
  /\ \A c, d \in Conn :
       user[c] # None /\ user[d] # None => (user[c] = user[d] <=> Of[c] = Of[d])
  /\ \A i \in Id : {row[i].nick, row[i].phone} \subseteq {None, row[i].ext}
  /\ \A c \in Conn : nick[c] \in {None, Of[c]}

\* A rating is one submission's, whoever submitted at the same time, and it names
\* the session's agent, or none when an accept came between (handleSatisfactionRate).
RatingIsOne ==
  \A s \in Session : rating[s] # NoRating =>
    /\ rating[s].by = user[rating[s].score]
    /\ rating[s].agent \in {None, agent[s]}
=============================================================================
