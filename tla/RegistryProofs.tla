--------------------------- MODULE RegistryProofs ---------------------------
(***************************************************************************)
(* Proofs about Registry, for every set of nodes, users and connections and *)
(* every TTL.                                                              *)
(***************************************************************************)
EXTENDS Registry, TLAPS

(* The inductive invariants *)

\* A connection is bound on a node that runs, and not before it is used; the set
\* of agents that is not empty has time left.
StateOK ==
  /\ RTypeOK
  /\ \A c \in Conn : at[c] # None => Running(at[c]) /\ c \notin fresh
  /\ agents # {} => agentsTtl > 0

\* The key of a user that is connected to the node it names, whose goroutines are
\* done, outlives the period: the node still refreshes it, or has.
InTime ==
  \A n \in Node, u \in Number :
    registry[u] = n /\ Has(n, u) /\ ~Pending(n, u)
      => ttl[u] > 0 /\ (n \in due \/ ttl[u] > 1)

-----------------------------------------------------------------------------
LEMMA JobTypes ==
  ASSUME NEW n \in Node, NEW u \in Number
  PROVE  <<"register", n, u>> \in Job /\ <<"unregister", n, u>> \in Job
         /\ <<"leave", n, u>> \in Job
BY DEF Job

\* Starting goroutines takes none away.
LEMMA GoodbyesAdd ==
  ASSUME RTypeOK, NEW n \in Node, NEW gone, jobs' = Goodbyes(n, gone)
  PROVE  jobs' \in [Job -> Nat] /\ \A j \in Job : jobs'[j] >= jobs[j]
<1>1. \A j \in Job : jobs[j] \in Nat
  BY DEF RTypeOK
<1> DEFINE left  == KeysLeft(n, gone)
           begun == {<<"unregister", n, k[2]>> : k \in left}
                      \cup {<<"leave", n, k[2]>> : k \in left \cap ({"agent"} \X Agent)}
<1>2. jobs' = [j \in Job |-> jobs[j] + IF j \in begun THEN 1 ELSE 0]
  BY DEF Goodbyes
<1> HIDE DEF begun
<1> QED
  BY <1>1, <1>2

\* A goroutine that runs is one less, and takes no other away.
LEMMA RanOne ==
  ASSUME RTypeOK, NEW j \in Job, Ran(j)
  PROVE  /\ jobs' \in [Job -> Nat] /\ jobs[j] > 0
         /\ \A i \in Job : i # j => jobs'[i] = jobs[i]
BY DEF Ran, RTypeOK

\* A goroutine that is started is one more.
LEMMA StartedOne ==
  ASSUME RTypeOK, NEW j \in Job, jobs' = Started(j, 1)
  PROVE  /\ jobs' \in [Job -> Nat] /\ jobs'[j] > 0
         /\ \A i \in Job : i # j => jobs'[i] = jobs[i]
BY DEF Started, RTypeOK

-----------------------------------------------------------------------------
LEMMA InitStateOK == RInit => StateOK
<1> USE NoneAssumption, TTLAssumption
<1> QED
  BY DEF RInit, StateOK, RTypeOK

\* BindUser, removeConn, Shutdown, start and end of a process.
HubStep(n) ==
  \/ Start(n) \/ Shutdown(n) \/ ShutdownReset(n) \/ Exit(n)
  \/ \E c \in Conn : BindUser(n, c) \/ RemoveConn(n, c)

LEMMA HubKeeps ==
  ASSUME StateOK, NEW n \in Node, HubStep(n)
  PROVE  StateOK'
<1> USE NoneAssumption, TTLAssumption DEF StateOK, Running
<1> DEFINE Placed ==
      /\ node' \in [Node -> {"new", "up", "stopping", "stopped", "gone"}]
      /\ at' \in [Conn -> Node \cup {None}]
      /\ \A c \in Conn : at'[c] # None =>
           node'[at'[c]] \in {"up", "stopping", "stopped"} /\ c \notin fresh'
<1>1. CASE Start(n)
  BY <1>1 DEF Start, RTypeOK, redis, stops
<1>2. CASE Shutdown(n)
  <2>1. seen' \in [Node -> SUBSET Number]
    BY <1>2 DEF Shutdown, Seen, RTypeOK
  <2>2. Placed
    BY <1>2 DEF Shutdown, RTypeOK
  <2> QED
    BY <1>2, <2>1, <2>2 DEF Shutdown, RTypeOK, redis
<1>3. CASE ShutdownReset(n)
  <2>1. lost' \subseteq Member
    BY <1>3 DEF ShutdownReset, Member, RTypeOK
  <2>2. Placed
    BY <1>3 DEF ShutdownReset, RTypeOK
  <2> QED
    BY <1>3, <2>1, <2>2 DEF ShutdownReset, RTypeOK, redis
<1>4. CASE Exit(n)
  <2>1. jobs' \in [Job -> Nat] /\ seen' \in [Node -> SUBSET Number]
    BY <1>4 DEF Exit, RTypeOK
  <2>2. Placed
    BY <1>4 DEF Exit, RTypeOK
  <2> QED
    BY <1>4, <2>1, <2>2 DEF Exit, RTypeOK, redis
<1>5. ASSUME NEW c \in Conn, BindUser(n, c)
      PROVE  StateOK'
  <2>1. Of[c][2] \in Number
    BY OfAssumption DEF Key, Number
  <2>2. jobs' \in [Job -> Nat]
    BY <1>5, <2>1, JobTypes, StartedOne DEF BindUser
  <2>3. Placed
    BY <1>5 DEF BindUser, RTypeOK
  <2> QED
    BY <1>5, <2>2, <2>3 DEF BindUser, RTypeOK, redis, stops
<1>6. ASSUME NEW c \in Conn, RemoveConn(n, c)
      PROVE  StateOK'
  <2>1. jobs' \in [Job -> Nat]
    BY <1>6, GoodbyesAdd DEF RemoveConn
  <2>2. Placed
    BY <1>6 DEF RemoveConn, RTypeOK
  <2> QED
    BY <1>6, <2>1, <2>2 DEF RemoveConn, RTypeOK, redis
<1> QED
  BY <1>1, <1>2, <1>3, <1>4, <1>5, <1>6 DEF HubStep

\* What goroutines and the ticker do to the keys.
LEMMA KeyStep ==
  ASSUME StateOK, NEW n \in Node,
         \/ RefreshUserTTL(n)
         \/ \E u \in Number :
              RegisterUser(n, u) \/ UnregisterUser(n, u) \/ ShutdownUnregister(n, u)
  PROVE  StateOK'
<1> USE NoneAssumption, TTLAssumption DEF StateOK, Running
<1>1. CASE RefreshUserTTL(n)
  BY <1>1 DEF RefreshUserTTL, RTypeOK, hubs, stops
<1>2. ASSUME NEW u \in Number, RegisterUser(n, u)
      PROVE  StateOK'
  <2>1. jobs' \in [Job -> Nat]
    BY <1>2, JobTypes, RanOne DEF RegisterUser
  <2>2. registry' \in [Number -> Node \cup {None}] /\ ttl' \in [Number -> 0..TTL]
    BY <1>2 DEF RegisterUser, RTypeOK
  <2> QED
    BY <1>2, <2>1, <2>2 DEF RegisterUser, RTypeOK, hubs, stops
<1>3. ASSUME NEW u \in Number, Deleted(n, u)
      PROVE  registry' \in [Number -> Node \cup {None}] /\ ttl' \in [Number -> 0..TTL]
  BY <1>3 DEF Deleted, RTypeOK
<1>4. ASSUME NEW u \in Number, UnregisterUser(n, u)
      PROVE  StateOK'
  <2>1. jobs' \in [Job -> Nat]
    BY <1>4, JobTypes, RanOne DEF UnregisterUser
  <2> QED
    BY <1>3, <1>4, <2>1 DEF UnregisterUser, RTypeOK, hubs, stops
<1>5. ASSUME NEW u \in Number, ShutdownUnregister(n, u)
      PROVE  StateOK'
  <2>1. seen' \in [Node -> SUBSET Number]
    BY <1>5 DEF ShutdownUnregister, RTypeOK
  <2> QED
    BY <1>3, <1>5, <2>1 DEF ShutdownUnregister, RTypeOK
<1> QED
  BY <1>1, <1>2, <1>4, <1>5

\* What is done to the set of agents.
LEMMA AgentStep ==
  ASSUME StateOK, NEW n \in Node, NEW a \in Agent,
         RegisterAgent(n, a) \/ UnregisterAgent(n, a) \/ LeaveAgent(n, a)
  PROVE  StateOK'
<1> USE NoneAssumption, TTLAssumption DEF StateOK, Running
<1>1. Own(n, a) \subseteq Member
  BY DEF Own, Member
<1>2. agents' \subseteq Member /\ agentsTtl' \in 0..TTL /\ (agents' # {} => agentsTtl' > 0)
  <2>1. CASE RegisterAgent(n, a)
    BY <1>1, <2>1 DEF RegisterAgent, Keep, RTypeOK
  <2>2. CASE UnregisterAgent(n, a)
    BY <2>2 DEF UnregisterAgent, Keep, RTypeOK
  <2>3. CASE LeaveAgent(n, a)
    BY <2>3 DEF LeaveAgent, Keep, RTypeOK
  <2> QED
    BY <2>1, <2>2, <2>3
<1>3. jobs' \in [Job -> Nat]
  <2>1. <<"leave", n, a>> \in Job
    BY DEF Job, Number
  <2> QED
    BY <2>1, RanOne DEF RegisterAgent, UnregisterAgent, LeaveAgent, RTypeOK
<1> QED
  BY <1>2, <1>3 DEF RegisterAgent, UnregisterAgent, LeaveAgent, RTypeOK, hubs, stops

LEMMA TickStep ==
  ASSUME StateOK, Tick PROVE StateOK'
<1> USE NoneAssumption, TTLAssumption DEF StateOK, Running
<1>1. registry' \in [Number -> Node \cup {None}] /\ ttl' \in [Number -> 0..TTL]
  BY DEF Tick, RTypeOK
<1>2. agents' \subseteq Member /\ agentsTtl' \in 0..TTL /\ (agents' # {} => agentsTtl' > 0)
  BY DEF Tick, RTypeOK
<1> QED
  BY <1>1, <1>2 DEF Tick, RTypeOK, hubs, stops

LEMMA StepStateOK == StateOK /\ [RNext]_rvars => StateOK'
<1> SUFFICES ASSUME StateOK, [RNext]_rvars PROVE StateOK'
  OBVIOUS
<1>1. CASE UNCHANGED rvars
  BY <1>1 DEF StateOK, RTypeOK, Running, rvars, hubs, stops, redis
<1> QED
  BY <1>1, HubKeeps, KeyStep, AgentStep, TickStep DEF RNext, RunJob, HubStep

\* Every state that Registry reaches satisfies the first invariant.
THEOREM InductiveState == RSpec => []StateOK
<1> QED
  BY InitStateOK, StepStateOK, PTL DEF RSpec

-----------------------------------------------------------------------------
LEMMA InitInTime == RInit => InTime
<1> QED
  BY NoneAssumption DEF RInit, InTime

\* The steps that leave the keys alone, and start goroutines rather than end them.
LEMMA HubInTime ==
  ASSUME StateOK, InTime, NEW n \in Node, HubStep(n)
  PROVE  InTime'
<1> USE NoneAssumption
<1>1. SUFFICES ASSUME NEW m \in Node, NEW u \in Number,
                      registry'[u] = m, Has(m, u)', ~Pending(m, u)'
               PROVE  ttl'[u] > 0 /\ (m \in due' \/ ttl'[u] > 1)
  BY DEF InTime
<1>2. registry' = registry /\ ttl' = ttl
  BY DEF HubStep, Start, Shutdown, ShutdownReset, Exit, BindUser, RemoveConn, redis
<1>3. seen \in [Node -> SUBSET Number] /\ jobs \in [Job -> Nat] /\ at \in [Conn -> Node \cup {None}]
  BY DEF StateOK, RTypeOK
<1>4. <<"register", m, u>> \in Job /\ <<"unregister", m, u>> \in Job
  BY JobTypes
<1>5. jobs' \in [Job -> Nat]
  BY HubKeeps DEF StateOK, RTypeOK
<1>6. /\ jobs'[<<"register", m, u>>] = 0 /\ jobs'[<<"unregister", m, u>>] = 0
      /\ u \notin seen'[m]
  BY <1>1, <1>4, <1>5 DEF Pending
<1>7. PICK d \in Conn : at'[d] = m /\ Of[d][2] = u
  BY <1>1 DEF Has
<1>8. at[d] = m /\ ~Pending(m, u) /\ (m \in due => m \in due')
  <2>1. CASE Start(n)
    BY <2>1, <1>6, <1>7 DEF Start, Pending, stops
  <2>2. CASE Shutdown(n)
    <3>1. m # n
      BY <2>2, <1>3, <1>6, <1>7 DEF Shutdown, Seen, Has
    <3> QED
      BY <2>2, <3>1, <1>3, <1>6, <1>7 DEF Shutdown, Pending
  <2>3. CASE ShutdownReset(n)
    BY <2>3, <1>3, <1>6, <1>7 DEF ShutdownReset, Pending
  <2>4. CASE Exit(n)
    <3>1. m # n
      BY <2>4, <1>3, <1>7 DEF Exit
    <3>2. /\ jobs'[<<"register", m, u>>] = jobs[<<"register", m, u>>]
          /\ jobs'[<<"unregister", m, u>>] = jobs[<<"unregister", m, u>>]
          /\ seen'[m] = seen[m]
      BY <2>4, <3>1, <1>3, <1>4 DEF Exit
    <3> QED
      BY <2>4, <3>1, <3>2, <1>3, <1>6, <1>7 DEF Exit, Pending
  <2>5. ASSUME NEW c \in Conn, BindUser(n, c)
        PROVE  at[d] = m /\ ~Pending(m, u) /\ (m \in due => m \in due')
    <3>1. Of[c][2] \in Number
      BY OfAssumption DEF Key, Number
    <3>2. <<"register", n, Of[c][2]>> \in Job
      BY <3>1, JobTypes
    <3>3. jobs'[<<"register", n, Of[c][2]>>] > 0
          /\ \A i \in Job : i # <<"register", n, Of[c][2]>> => jobs'[i] = jobs[i]
      BY <2>5, <3>2, StartedOne DEF BindUser, StateOK
    <3>4. <<"register", m, u>> # <<"register", n, Of[c][2]>>
      BY <3>3, <1>6
    <3>5. d # c
      BY <2>5, <3>4, <1>3, <1>7 DEF BindUser
    <3> QED
      BY <2>5, <3>3, <3>4, <3>5, <1>3, <1>4, <1>6, <1>7 DEF BindUser, Pending, stops
  <2>6. ASSUME NEW c \in Conn, RemoveConn(n, c)
        PROVE  at[d] = m /\ ~Pending(m, u) /\ (m \in due => m \in due')
    <3>1. \A j \in Job : jobs'[j] >= jobs[j]
      BY <2>6, GoodbyesAdd DEF RemoveConn, StateOK
    <3> QED
      BY <2>6, <3>1, <1>3, <1>4, <1>6, <1>7 DEF RemoveConn, Pending
  <2> QED
    BY <2>1, <2>2, <2>3, <2>4, <2>5, <2>6 DEF HubStep
<1>9. Has(m, u)
  BY <1>7, <1>8 DEF Has
<1> QED
  BY <1>1, <1>2, <1>8, <1>9 DEF InTime

LEMMA RefreshInTime ==
  ASSUME ~Faults, StateOK, InTime, NEW n \in Node, RefreshUserTTL(n)
  PROVE  InTime'
<1>1. SUFFICES ASSUME NEW m \in Node, NEW u \in Number,
                      registry'[u] = m, Has(m, u)', ~Pending(m, u)'
               PROVE  ttl'[u] > 0 /\ (m \in due' \/ ttl'[u] > 1)
  BY DEF InTime
<1>2. /\ ttl' = [v \in Number |->
           IF v \in Seen(n) /\ registry[v] # None THEN TTL ELSE ttl[v]]
      /\ due' = due \ {n} /\ registry' = registry /\ jobs' = jobs /\ at' = at
      /\ seen' = seen
  BY DEF RefreshUserTTL, hubs, stops
<1>3. registry[u] = m /\ Has(m, u) /\ ~Pending(m, u) /\ registry[u] # None
  BY <1>1, <1>2, NoneAssumption DEF Has, Pending
<1>4. ttl[u] > 0 /\ (m \in due \/ ttl[u] > 1)
  BY <1>3 DEF InTime
<1>5. CASE m = n
  BY <1>2, <1>3, <1>5, TTLAssumption DEF Seen
<1>6. CASE m # n
  BY <1>2, <1>4, <1>6, TTLAssumption
<1> QED
  BY <1>5, <1>6

LEMMA JobInTime ==
  ASSUME ~Faults, StateOK, InTime, NEW n \in Node,
         RunJob(n) \/ \E u \in Number : ShutdownUnregister(n, u)
  PROVE  InTime'
<1> USE NoneAssumption
<1>1. SUFFICES ASSUME NEW m \in Node, NEW u \in Number,
                      registry'[u] = m, Has(m, u)', ~Pending(m, u)'
               PROVE  ttl'[u] > 0 /\ (m \in due' \/ ttl'[u] > 1)
  BY DEF InTime
<1>2. jobs \in [Job -> Nat] /\ RTypeOK
  BY DEF StateOK, RTypeOK
<1>3. <<"register", m, u>> \in Job /\ <<"unregister", m, u>> \in Job
  BY JobTypes
<1>d. ASSUME NEW v \in Number, Deleted(n, v)
      PROVE  registry'[u] = registry[u] /\ ttl'[u] = ttl[u] /\ ~(v = u /\ n = m)
  <2>1. ~(v = u /\ Owns(n, v))
    BY <1>1, <1>2, <1>d DEF Deleted, RTypeOK
  <2>2. registry'[u] = registry[u] /\ ttl'[u] = ttl[u]
    BY <1>2, <1>d, <2>1 DEF Deleted, RTypeOK
  <2> QED
    BY <1>1, <2>1, <2>2 DEF Owns
<1>4. ASSUME NEW v \in Number, RegisterUser(n, v)
      PROVE  ttl'[u] > 0 /\ (m \in due' \/ ttl'[u] > 1)
  <2>1. /\ due' = due /\ at' = at /\ seen' = seen
        /\ \A i \in Job : i # <<"register", n, v>> => jobs'[i] = jobs[i]
    BY <1>2, <1>4, JobTypes, RanOne DEF RegisterUser, hubs, stops
  <2>2. CASE v = u /\ MayRegister(n, v)
    BY <1>2, <1>4, <2>2, TTLAssumption DEF RegisterUser, RTypeOK
  <2>3. CASE ~(v = u /\ MayRegister(n, v))
    <3>1. registry'[u] = registry[u] /\ ttl'[u] = ttl[u]
      BY <1>2, <1>4, <2>3 DEF RegisterUser, RTypeOK
    <3>2. ~(v = u /\ n = m)
      BY <1>1, <2>3, <3>1 DEF MayRegister
    <3>3. <<"register", n, v>> # <<"register", m, u>>
      BY <3>2
    <3>4. ~Pending(m, u)
      BY <1>1, <1>3, <2>1, <3>3 DEF Pending
    <3> QED
      BY <1>1, <2>1, <3>1, <3>4 DEF InTime, Has
  <2> QED
    BY <2>2, <2>3
<1>5. ASSUME NEW v \in Number, UnregisterUser(n, v)
      PROVE  ttl'[u] > 0 /\ (m \in due' \/ ttl'[u] > 1)
  <2>1. /\ due' = due /\ at' = at /\ seen' = seen
        /\ \A i \in Job : i # <<"unregister", n, v>> => jobs'[i] = jobs[i]
    BY <1>2, <1>5, JobTypes, RanOne DEF UnregisterUser, hubs, stops
  <2>2. registry'[u] = registry[u] /\ ttl'[u] = ttl[u] /\ ~(v = u /\ n = m)
    BY <1>1, <1>5, <1>d DEF UnregisterUser
  <2>3. registry'[u] = registry[u] /\ ttl'[u] = ttl[u]
    BY <2>2
  <2>4. <<"unregister", n, v>> # <<"unregister", m, u>>
    BY <2>2
  <2>5. ~Pending(m, u)
    BY <1>1, <1>3, <2>1, <2>4 DEF Pending
  <2> QED
    BY <1>1, <2>1, <2>3, <2>5 DEF InTime, Has
<1>6. ASSUME NEW a \in Agent, LeaveAgent(n, a)
      PROVE  ttl'[u] > 0 /\ (m \in due' \/ ttl'[u] > 1)
  <2>1. <<"leave", n, a>> \in Job
    BY DEF Job, Number
  <2>2. /\ due' = due /\ at' = at /\ registry' = registry /\ ttl' = ttl /\ seen' = seen
        /\ \A i \in Job : i # <<"leave", n, a>> => jobs'[i] = jobs[i]
    BY <1>2, <1>6, <2>1, RanOne DEF LeaveAgent, hubs, stops
  <2>3. ~Pending(m, u)
    BY <1>1, <1>3, <2>2 DEF Pending
  <2> QED
    BY <1>1, <2>2, <2>3 DEF InTime, Has
<1>7. ASSUME NEW v \in Number, ShutdownUnregister(n, v)
      PROVE  ttl'[u] > 0 /\ (m \in due' \/ ttl'[u] > 1)
  <2>1. registry'[u] = registry[u] /\ ttl'[u] = ttl[u] /\ ~(v = u /\ n = m)
    BY <1>7, <1>d DEF ShutdownUnregister
  <2>2. /\ due' = due /\ at' = at /\ jobs' = jobs
        /\ seen' = [seen EXCEPT ![n] = @ \ {v}] /\ seen \in [Node -> SUBSET Number]
    BY <1>2, <1>7 DEF ShutdownUnregister, RTypeOK
  <2>3. ~Pending(m, u)
    BY <1>1, <2>1, <2>2 DEF Pending
  <2> QED
    BY <1>1, <2>1, <2>2, <2>3 DEF InTime, Has
<1> QED
  BY <1>4, <1>5, <1>6, <1>7 DEF RunJob

LEMMA AgentInTime ==
  ASSUME InTime, NEW n \in Node, NEW a \in Agent,
         RegisterAgent(n, a) \/ UnregisterAgent(n, a)
  PROVE  InTime'
BY DEF RegisterAgent, UnregisterAgent, InTime, Has, Pending, hubs, stops

\* A node with connections runs, so its ticker fires in the new period.
LEMMA TickInTime ==
  ASSUME StateOK, InTime, Tick PROVE InTime'
<1>1. SUFFICES ASSUME NEW m \in Node, NEW u \in Number,
                      registry'[u] = m, Has(m, u)', ~Pending(m, u)'
               PROVE  ttl'[u] > 0 /\ (m \in due' \/ ttl'[u] > 1)
  BY DEF InTime
<1>2. ttl[u] \in Nat
  BY DEF StateOK, RTypeOK
<1>3. registry[u] = m
  BY <1>1, NoneAssumption DEF Tick
<1>4. Has(m, u) /\ ~Pending(m, u)
  BY <1>1 DEF Tick, Has, Pending, hubs, stops
<1>5. ttl[u] > 1
  BY <1>3, <1>4 DEF InTime, Tick
<1>6. Running(m)
  BY <1>4, NoneAssumption DEF Has, StateOK
<1> QED
  BY <1>2, <1>5, <1>6 DEF Tick

LEMMA StepInTime ==
  ASSUME ~Faults PROVE StateOK /\ InTime /\ [RNext]_rvars => InTime'
<1> SUFFICES ASSUME StateOK, InTime, [RNext]_rvars PROVE InTime'
  OBVIOUS
<1>1. CASE UNCHANGED rvars
  BY <1>1 DEF InTime, Has, Pending, rvars, hubs, stops, redis
<1> QED
  BY <1>1, HubInTime, RefreshInTime, JobInTime, AgentInTime, TickInTime DEF RNext, HubStep

\* While Redis does not fail the keys of connected users are refreshed in time.
THEOREM InductiveTime ==
  ASSUME ~Faults PROVE RSpec => []InTime
<1> QED
  BY InitInTime, StepInTime, InductiveState, PTL DEF RSpec

-----------------------------------------------------------------------------
\* Every state of the registry is well typed.
THEOREM TypeCorrect == RSpec => []RTypeOK
<1>1. StateOK => RTypeOK
  BY DEF StateOK
<1> QED
  BY <1>1, InductiveState, PTL

\* While Redis does not fail a user that stays connected to the node it is
\* registered for stays registered (RegisterUser, UnregisterUser, RefreshUserTTL).
THEOREM KeptRegistration ==
  ASSUME ~Faults PROVE RSpec => RegistrationKept
<1>1. ASSUME StateOK, InTime, [RNext]_rvars, NEW n \in Node, NEW u \in Number,
             registry[u] = n, Has(n, u), Has(n, u)', ~Pending(n, u)
      PROVE  registry'[u] = n
  <2> USE NoneAssumption
  <2>1. /\ jobs \in [Job -> Nat] /\ registry \in [Number -> Node \cup {None}]
        /\ ttl \in [Number -> 0..TTL]
    BY <1>1 DEF StateOK, RTypeOK
  <2>2. jobs[<<"unregister", n, u>>] = 0 /\ u \notin seen[n]
    <3>1. <<"register", n, u>> \in Job /\ <<"unregister", n, u>> \in Job
      BY JobTypes
    <3>2. jobs[<<"register", n, u>>] \in Nat /\ jobs[<<"unregister", n, u>>] \in Nat
      BY <2>1, <3>1
    <3> QED
      BY <1>1, <3>2 DEF Pending
  <2>3. ASSUME NEW m \in Node, NEW v \in Number, RegisterUser(m, v)
        PROVE  registry'[u] = n
    BY <1>1, <2>1, <2>3 DEF RegisterUser, MayRegister
  <2>4. ASSUME NEW m \in Node, NEW v \in Number, UnregisterUser(m, v)
        PROVE  registry'[u] = n
    BY <1>1, <2>1, <2>2, <2>4 DEF UnregisterUser, Deleted, Owns, Ran
  <2>7. ASSUME NEW m \in Node, NEW v \in Number, ShutdownUnregister(m, v)
        PROVE  registry'[u] = n
    BY <1>1, <2>1, <2>2, <2>7 DEF ShutdownUnregister, Deleted, Owns
  <2>5. CASE Tick
    BY <1>1, <2>1, <2>5 DEF Tick, InTime
  <2>6. CASE registry' = registry
    BY <1>1, <2>6
  <2> QED
    BY <1>1, <2>3, <2>4, <2>5, <2>6, <2>7
    DEF RNext, RunJob, Start, Shutdown, ShutdownReset, Exit, BindUser, RemoveConn, RefreshUserTTL,
        LeaveAgent, RegisterAgent, UnregisterAgent, rvars, redis
<1>2. StateOK /\ InTime /\ [RNext]_rvars =>
        [\A n \in Node, u \in Number :
           registry[u] = n /\ Has(n, u) /\ Has(n, u)' /\ ~Pending(n, u)
             => registry'[u] = n]_rvars
  BY <1>1
<1> QED
  BY <1>2, InductiveState, InductiveTime, PTL DEF RSpec, RegistrationKept

-----------------------------------------------------------------------------
(* Whoever is in the set of agents is connected, or is about to be taken out. *)
LEMMA InitMemberOwed == RInit => MemberOwed
BY DEF RInit, MemberOwed

\* A goroutine that removes an agent is started with the last of its connections.
LEMMA LastLeaves ==
  ASSUME StateOK, NEW n \in Node, NEW a \in Agent, NEW gone,
         jobs' = Goodbyes(n, gone), Bound(n, <<"agent", a>>) # {},
         Bound(n, <<"agent", a>>) \subseteq gone
  PROVE  jobs'[<<"leave", n, a>>] > 0
<1>1. <<"leave", n, a>> \in Job /\ jobs[<<"leave", n, a>>] \in Nat
  BY DEF Job, Number, StateOK, RTypeOK
<1>2. <<"agent", a>> \in KeysLeft(n, gone) \cap ({"agent"} \X Agent)
  BY DEF KeysLeft, Key
<1> DEFINE left  == KeysLeft(n, gone)
           begun == {<<"unregister", n, k[2]>> : k \in left}
                      \cup {<<"leave", n, k[2]>> : k \in left \cap ({"agent"} \X Agent)}
<1>3. <<"leave", n, a>> \in begun
  BY <1>2
<1>4. jobs' = [j \in Job |-> jobs[j] + IF j \in begun THEN 1 ELSE 0]
  BY DEF Goodbyes
<1> HIDE DEF begun
<1> QED
  BY <1>1, <1>3, <1>4

\* BindUser, removeConn, Shutdown, start and end of a process.
LEMMA HubMemberOwed ==
  ASSUME StateOK, MemberOwed, NEW n \in Node, HubStep(n)
  PROVE  MemberOwed'
<1> USE NoneAssumption
<1>1. SUFFICES ASSUME NEW m \in Node, NEW a \in Agent,
                      <<m, a>> \in agents', node'[m] # "gone",
                      Bound(m, <<"agent", a>>)' = {}, <<m, a>> \notin lost'
               PROVE  jobs'[<<"leave", m, a>>] > 0
  BY DEF MemberOwed, Connected
<1>2. <<m, a>> \in agents
  BY <1>1 DEF HubStep, Start, Shutdown, ShutdownReset, Exit, BindUser, RemoveConn, redis
<1>3. /\ node \in [Node -> {"new", "up", "stopping", "stopped", "gone"}]
      /\ at \in [Conn -> Node \cup {None}]
      /\ <<"leave", m, a>> \in Job /\ jobs[<<"leave", m, a>>] \in Nat
  BY DEF StateOK, RTypeOK, Job, Number
<1>4. node[m] # "gone"
  BY <1>1, <1>3
  DEF HubStep, Start, Shutdown, ShutdownReset, AllClosed, Exit, BindUser, RemoveConn
<1>n. <<m, a>> \notin lost
  <2>1. <<m, a>> \in lost /\ m # n => <<m, a>> \in lost'
    BY DEF HubStep, Start, Shutdown, ShutdownReset, Exit, BindUser, RemoveConn, stops
  <2>2. ~Exit(n) => lost \subseteq lost'
    BY DEF HubStep, Start, Shutdown, ShutdownReset, BindUser, RemoveConn, stops
  <2>3. Exit(n) => m # n
    BY <1>1, <1>3 DEF Exit
  <2> QED
    BY <1>1, <2>1, <2>2, <2>3
<1>5. Bound(m, <<"agent", a>>) # {} \/ jobs[<<"leave", m, a>>] > 0
  BY <1>2, <1>4, <1>n DEF MemberOwed, Connected
<1>6. CASE Start(n)
  BY <1>1, <1>5, <1>6 DEF Start, Bound
<1>7. CASE Exit(n)
  <2>1. m # n
    BY <1>1, <1>3, <1>7 DEF Exit
  <2> QED
    BY <1>1, <1>3, <1>5, <1>7, <2>1 DEF Exit, Bound
<1>8. ASSUME NEW c \in Conn, BindUser(n, c)
      PROVE  jobs'[<<"leave", m, a>>] > 0
  <2>1. jobs'[<<"leave", m, a>>] = jobs[<<"leave", m, a>>]
    BY <1>3, <1>8 DEF BindUser, Started, StateOK, RTypeOK
  <2>2. Bound(m, <<"agent", a>>) = {}
    BY <1>1, <1>3, <1>8 DEF BindUser, Bound, StateOK
  <2> QED
    BY <1>5, <2>1, <2>2
<1>9. ASSUME NEW gone, jobs' = Goodbyes(n, gone),
             \A d \in Conn : at[d] # at'[d] => at[d] = n /\ d \in gone
      PROVE  jobs'[<<"leave", m, a>>] > 0
  <2>1. jobs'[<<"leave", m, a>>] >= jobs[<<"leave", m, a>>] /\ jobs' \in [Job -> Nat]
    BY <1>3, <1>9, GoodbyesAdd DEF StateOK
  <2>2. CASE jobs[<<"leave", m, a>>] > 0
    BY <1>3, <2>1, <2>2
  <2>3. CASE Bound(m, <<"agent", a>>) # {}
    <3>1. m = n /\ Bound(m, <<"agent", a>>) \subseteq gone
      BY <1>1, <1>9, <2>3 DEF Bound
    <3> QED
      BY <1>9, <2>3, <3>1, LastLeaves
  <2> QED
    BY <1>5, <2>2, <2>3
<1>10. ASSUME NEW c \in Conn, RemoveConn(n, c)
       PROVE  jobs'[<<"leave", m, a>>] > 0
  <2>1. \A d \in Conn : at[d] # at'[d] => at[d] = n /\ d \in {c}
    BY <1>3, <1>10 DEF RemoveConn
  <2> QED
    BY <1>9, <1>10, <2>1 DEF RemoveConn
<1>11. CASE Shutdown(n)
  BY <1>1, <1>5, <1>11 DEF Shutdown, Bound
<1>12. CASE ShutdownReset(n)
  <2>1. Bound(m, <<"agent", a>>) = {}
    BY <1>1, <1>3, <1>12 DEF ShutdownReset, Bound
  <2> QED
    BY <1>5, <1>12, <2>1 DEF ShutdownReset
<1> QED
  BY <1>6, <1>7, <1>8, <1>10, <1>11, <1>12 DEF HubStep

\* What is done to the set, and the goroutines that run.
LEMMA SetMemberOwed ==
  ASSUME ~Faults, StateOK, MemberOwed, NEW n \in Node,
         \/ RunJob(n) \/ \E u \in Number : ShutdownUnregister(n, u)
         \/ \E a \in Agent : RegisterAgent(n, a) \/ UnregisterAgent(n, a)
  PROVE  MemberOwed'
<1>1. ASSUME NEW a \in Agent, RegisterAgent(n, a)
      PROVE  MemberOwed'
  BY <1>1 DEF RegisterAgent, Keep, Own, MemberOwed, Connected, Bound, hubs, stops
<1>2. ASSUME NEW a \in Agent, UnregisterAgent(n, a)
      PROVE  MemberOwed'
  BY <1>2 DEF UnregisterAgent, Keep, MemberOwed, Connected, Bound, hubs, stops
<1>3. ASSUME NEW a \in Agent, LeaveAgent(n, a)
      PROVE  MemberOwed'
  <2>1. <<"leave", n, a>> \in Job
    BY DEF Job, Number
  <2>2. \A i \in Job : i # <<"leave", n, a>> => jobs'[i] = jobs[i]
    BY <1>3, <2>1, RanOne DEF LeaveAgent, StateOK
  <2>3. agents' = agents \ {<<n, a>>} /\ at' = at /\ node' = node /\ lost' = lost
    BY <1>3 DEF LeaveAgent, Keep, Own, hubs, stops
  <2>4. \A m \in Node, b \in Agent : <<"leave", m, b>> \in Job
    BY DEF Job, Number
  <2> QED
    BY <2>2, <2>3, <2>4 DEF MemberOwed, Connected, Bound
<1>4. ASSUME NEW u \in Number, RegisterUser(n, u) \/ UnregisterUser(n, u)
      PROVE  MemberOwed'
  <2>1. agents' = agents /\ at' = at /\ node' = node /\ lost' = lost
    BY <1>4 DEF RegisterUser, UnregisterUser, hubs, stops
  <2>2. \A m \in Node, b \in Agent :
           /\ <<"leave", m, b>> \in Job
           /\ jobs'[<<"leave", m, b>>] = jobs[<<"leave", m, b>>]
    <3>1. /\ \A v \in Number : <<"register", n, v>> \in Job /\ <<"unregister", n, v>> \in Job
          /\ \A m \in Node, b \in Agent : <<"leave", m, b>> \in Job
      BY DEF Job, Number
    <3>2. CASE RegisterUser(n, u)
      BY <3>1, <3>2, RanOne DEF RegisterUser, StateOK
    <3>3. CASE UnregisterUser(n, u)
      BY <3>1, <3>3, RanOne DEF UnregisterUser, StateOK
    <3> QED
      BY <1>4, <3>1, <3>2, <3>3
  <2> QED
    BY <2>1, <2>2 DEF MemberOwed, Connected, Bound
<1>5. ASSUME NEW u \in Number, ShutdownUnregister(n, u)
      PROVE  MemberOwed'
  BY <1>5 DEF ShutdownUnregister, MemberOwed, Connected, Bound
<1> QED
  BY <1>1, <1>2, <1>3, <1>4, <1>5 DEF RunJob

LEMMA StepMemberOwed ==
  ASSUME ~Faults PROVE StateOK /\ MemberOwed /\ [RNext]_rvars => MemberOwed'
<1> SUFFICES ASSUME StateOK, MemberOwed, [RNext]_rvars PROVE MemberOwed'
  OBVIOUS
<1>1. CASE UNCHANGED rvars
  BY <1>1 DEF MemberOwed, Connected, Bound, rvars, hubs, stops, redis
<1>2. CASE Tick
  BY <1>2 DEF Tick, MemberOwed, Connected, Bound, hubs, stops
<1>3. ASSUME NEW n \in Node, RefreshUserTTL(n)
      PROVE  MemberOwed'
  BY <1>3 DEF RefreshUserTTL, MemberOwed, Connected, Bound, hubs, stops
<1> QED
  BY <1>1, <1>2, <1>3, HubMemberOwed, SetMemberOwed DEF RNext, HubStep

\* While Redis does not fail nobody stays in the set of agents unless the agent is
\* connected, a goroutine will take it out, or its node has gone or was connected to
\* when Shutdown replaced the maps.
THEOREM OwedMember ==
  ASSUME ~Faults PROVE RSpec => []MemberOwed
<1> QED
  BY InitMemberOwed, StepMemberOwed, InductiveState, PTL DEF RSpec

-----------------------------------------------------------------------------
\* Only its own node takes an agent out of the set, or all are out when the set
\* expires (unregisterAgentScript).
THEOREM KeptMember == RSpec => MemberKept
<1>1. ASSUME StateOK, [RNext]_rvars, NEW n \in Node, NEW a \in Agent,
             <<n, a>> \in agents, jobs[<<"leave", n, a>>] = 0, <<n, a>> \notin agents'
      PROVE  (agents' = {} /\ agentsTtl = 1) \/ UnregisterAgent(n, a)
  <2>1. agentsTtl \in Nat /\ agentsTtl > 0
    BY <1>1, TTLAssumption DEF StateOK, RTypeOK
  <2>2. ASSUME NEW m \in Node, NEW b \in Agent, RegisterAgent(m, b)
        PROVE  FALSE
    BY <1>1, <2>2 DEF RegisterAgent, Keep
  <2>3. ASSUME NEW m \in Node, NEW b \in Agent, UnregisterAgent(m, b)
        PROVE  UnregisterAgent(n, a)
    <3>1. <<n, a>> \in {<<m, b>>}
      BY <1>1, <2>3 DEF UnregisterAgent, Keep, Own
    <3> QED
      BY <2>3, <3>1
  <2>4. ASSUME NEW m \in Node, NEW b \in Agent, LeaveAgent(m, b)
        PROVE  FALSE
    <3>1. <<n, a>> \in {<<m, b>>}
      BY <1>1, <2>4 DEF LeaveAgent, Keep, Own
    <3>2. n = m /\ a = b
      BY <3>1
    <3> QED
      BY <1>1, <2>4, <3>2 DEF LeaveAgent, Ran
  <2>5. CASE Tick
    BY <1>1, <2>1, <2>5 DEF Tick
  <2>6. CASE agents' = agents
    BY <1>1, <2>6
  <2> QED
    BY <1>1, <2>2, <2>3, <2>4, <2>5, <2>6
    DEF RNext, RunJob, Start, Shutdown, ShutdownReset, Exit, BindUser, RemoveConn, RefreshUserTTL,
        RegisterUser, UnregisterUser, ShutdownUnregister, rvars, redis
<1>2. StateOK /\ [RNext]_rvars =>
        [\A n \in Node, a \in Agent :
           <<n, a>> \in agents /\ jobs[<<"leave", n, a>>] = 0 /\ <<n, a>> \notin agents'
             => (agents' = {} /\ agentsTtl = 1) \/ UnregisterAgent(n, a)]_rvars
  BY <1>1
<1> QED
  BY <1>2, InductiveState, PTL DEF RSpec, MemberKept
=============================================================================
