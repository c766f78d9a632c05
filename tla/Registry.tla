------------------------------ MODULE Registry ------------------------------
(***************************************************************************)
(* Cluster mode: what the nodes write to Redis (ws/distributor.go) when     *)
(* their hubs (ws/hub.go) bind and remove connections, and how it gets old. *)
(* A key per user number says which node has the user; a set per tenant     *)
(* holds the agents that are online, as pairs of node and agent.            *)
(*                                                                         *)
(* Scripts and commands are atomic in Redis.  BindUser and removeConn start *)
(* goroutines for them, which run in any order and die with their process.  *)
(* A process that starts again has a new id, so a node here starts once.    *)
(* Time goes in periods of the cleanup ticker, of 30 seconds: each running  *)
(* node refreshes once in each.  The hub's index is taken from Hub: here a  *)
(* connection is bound or not, and an agent's requests do not overlap its   *)
(* own close.  Connections bind and come online beside Shutdown, which the  *)
(* HTTP server outlives (serv/server.go).                                   *)
(* One tenant; the agent's id alone, with the tenant "", which the offline  *)
(* callback gives to UnregisterAgent, names no set in use.                  *)
(***************************************************************************)
EXTENDS Naturals

CONSTANTS
  Node,            \* node ids
  Visitor, Agent,  \* user numbers; a visitor and an agent may have the same
  Conn,            \* connections, each used once
  Of,              \* Of[c]: the role and number that authenticate on c
  None,            \* no node
  TTL,             \* RegistryTTL, in periods of the ticker
  Faults           \* whether a call to Redis may fail

Number == Visitor \cup Agent
Key    == ({"visitor"} \X Visitor) \cup ({"agent"} \X Agent)
Member == Node \X Agent
Job    == {"register", "unregister", "leave"} \X Node \X Number

ASSUME NoneAssumption == None \notin Node
ASSUME OfAssumption == Of \in [Conn -> Key]
ASSUME FaultAssumption == Faults \in BOOLEAN

\* The default is 90 seconds; the code does not check what is configured.
ASSUME TTLAssumption == TTL \in Nat /\ TTL >= 2

VARIABLES
  node,       \* node[n]: "new", "up", "stopping" in Shutdown, "stopped" after it,
              \* and "gone"
  fresh, at,  \* the connections not yet used; at[c]: the node c is bound on
  closing,    \* the connections that Shutdown has yet to close
  seen,       \* seen[n]: the numbers it has yet to unregister
  lost,       \* the agents that were connected when their node forgot everybody
  jobs,       \* jobs[j]: goroutines that have not run
  due,        \* the nodes that have yet to refresh in this period
  registry, ttl,     \* registry[u], the node a key holds, and its time left
  agents, agentsTtl  \* the set of online agents, and its time left

stops == <<closing, seen, lost>>
hubs  == <<node, fresh, at, stops>>
redis == <<registry, ttl, agents, agentsTtl>>
rvars == <<hubs, jobs, due, redis>>

-----------------------------------------------------------------------------
Bound(n, k) == {c \in Conn : at[c] = n /\ Of[c] = k}

\* n has a connection of this number, in either role.
Has(n, u) == \E c \in Conn : at[c] = n /\ Of[c][2] = u

\* Mutant: whoever is registered is refreshed.
Everybody(n) == Number

\* The numbers in n's index of users.
Seen(n) == {u \in Number : Has(n, u)}

Running(n) == node[n] \in {"up", "stopping", "stopped"}

\* Some of the goroutines of j more, or one less.
Started(j, count) == [jobs EXCEPT ![j] = @ + count]
Ran(j)            == jobs[j] > 0 /\ jobs' = [jobs EXCEPT ![j] = @ - 1]

RInit ==
  /\ node  = [n \in Node |-> "new"]
  /\ fresh = Conn
  /\ at    = [c \in Conn |-> None]
  /\ closing = {}
  /\ seen  = [n \in Node |-> {}]
  /\ lost  = {}
  /\ jobs  = [j \in Job |-> 0]
  /\ due   = {}
  /\ registry  = [u \in Number |-> None]
  /\ ttl       = [u \in Number |-> 0]
  /\ agents    = {}
  /\ agentsTtl = 0

-----------------------------------------------------------------------------
(* Nodes and connections *)

Start(n) ==
  /\ node[n] = "new"
  /\ node' = [node EXCEPT ![n] = "up"]
  /\ UNCHANGED <<fresh, at, stops, jobs, due, redis>>

BindUser(n, c) ==
  /\ Running(n)
  /\ c \in fresh
  /\ fresh' = fresh \ {c}
  /\ at' = [at EXCEPT ![c] = n]
  /\ jobs' = Started(<<"register", n, Of[c][2]>>, 1)
  /\ UNCHANGED <<node, stops, due, redis>>

\* Mutant: the connections of a number are counted, in whichever role.
NumbersLeft(n, gone) ==
  {k \in Key : Bound(n, k) # {} /\ {c \in Conn : at[c] = n /\ Of[c][2] = k[2]} \subseteq gone}

\* The keys that have connections on n, and no others when these go.
KeysLeft(n, gone) == {k \in Key : Bound(n, k) # {} /\ Bound(n, k) \subseteq gone}

\* The goroutines removeConn starts when these connections go from n.
Goodbyes(n, gone) ==
  LET left  == KeysLeft(n, gone)
      begun == {<<"unregister", n, k[2]>> : k \in left}
                 \cup {<<"leave", n, k[2]>> : k \in left \cap ({"agent"} \X Agent)}
  IN [j \in Job |-> jobs[j] + IF j \in begun THEN 1 ELSE 0]

\* The client leaves, or Shutdown closes what was open when it began.
RemoveConn(n, c) ==
  /\ at[c] = n
  /\ at' = [at EXCEPT ![c] = None]
  /\ closing' = closing \ {c}
  /\ jobs' = Goodbyes(n, {c})
  /\ UNCHANGED <<node, fresh, seen, lost, due, redis>>

\* What is bound now is closed, and then unregistered; what binds from now on is
\* left alone.
Shutdown(n) ==
  /\ node[n] = "up"
  /\ node' = [node EXCEPT ![n] = "stopping"]
  /\ closing' = closing \cup {c \in Conn : at[c] = n}
  /\ seen' = [seen EXCEPT ![n] = Seen(n)]
  /\ UNCHANGED <<fresh, at, lost, jobs, due, redis>>

AllClosed(n) == node[n] = "stopping" /\ \A c \in closing : at[c] # n

\* The maps are replaced, and no goroutine is started.  Whoever has connected in
\* the meantime is forgotten: the socket stays open, and its close removes nothing.
ShutdownReset(n) ==
  /\ AllClosed(n)
  /\ seen[n] = {}
  /\ node' = [node EXCEPT ![n] = "stopped"]
  /\ at' = [c \in Conn |-> IF at[c] = n THEN None ELSE at[c]]
  /\ lost' = lost \cup ({n} \X {a \in Agent : Bound(n, <<"agent", a>>) # {}})
  /\ UNCHANGED <<fresh, closing, seen, jobs, due, redis>>

\* The process ends, after Shutdown or without, and its goroutines with it.
Exit(n) ==
  /\ Running(n)
  /\ node' = [node EXCEPT ![n] = "gone"]
  /\ at' = [c \in Conn |-> IF at[c] = n THEN None ELSE at[c]]
  /\ closing' = {c \in closing : at[c] # n}
  /\ seen' = [seen EXCEPT ![n] = {}]
  /\ lost' = {m \in lost : m[1] # n}
  /\ jobs' = [j \in Job |-> IF j[2] = n THEN 0 ELSE jobs[j]]
  /\ due' = due \ {n}
  /\ UNCHANGED <<fresh, redis>>

-----------------------------------------------------------------------------
(* The key of a user.  A goroutine whose call fails logs the error. *)

\* Mutant: the key is overwritten.
Take(n, u) == TRUE

MayRegister(n, u) == registry[u] \in {None, n}

RegisterUser(n, u) ==
  /\ Ran(<<"register", n, u>>)
  /\ \/ /\ MayRegister(n, u)
        /\ registry' = [registry EXCEPT ![u] = n]
        /\ ttl' = [ttl EXCEPT ![u] = TTL]
     \/ (~MayRegister(n, u) \/ Faults) /\ UNCHANGED <<registry, ttl>>
  /\ UNCHANGED <<hubs, due, agents, agentsTtl>>

Owns(n, u) == registry[u] = n

\* The script of UnregisterUser.
Deleted(n, u) ==
  \/ /\ Owns(n, u)
     /\ registry' = [registry EXCEPT ![u] = None]
     /\ ttl' = [ttl EXCEPT ![u] = 0]
  \/ (~Owns(n, u) \/ Faults) /\ UNCHANGED <<registry, ttl>>

UnregisterUser(n, u) ==
  /\ Ran(<<"unregister", n, u>>)
  /\ Deleted(n, u)
  /\ UNCHANGED <<hubs, due, agents, agentsTtl>>

\* Shutdown waits for it, and goes on when it fails.
ShutdownUnregister(n, u) ==
  /\ AllClosed(n)
  /\ u \in seen[n]
  /\ seen' = [seen EXCEPT ![n] = @ \ {u}]
  /\ Deleted(n, u)
  /\ UNCHANGED <<node, fresh, at, closing, lost, jobs, due, agents, agentsTtl>>

\* EXPIRE of a key that is there, whatever node it names.
RefreshUserTTL(n) ==
  /\ n \in due
  /\ due' = due \ {n}
  /\ \/ ttl' = [u \in Number |->
         IF u \in Seen(n) /\ registry[u] # None THEN TTL ELSE ttl[u]]
     \/ Faults /\ UNCHANGED ttl
  /\ UNCHANGED <<hubs, jobs, registry, agents, agentsTtl>>

-----------------------------------------------------------------------------
(* The set of online agents, which is not there when it is empty *)

Keep(members, left) ==
  /\ agents' = members
  /\ agentsTtl' = IF members = {} THEN 0 ELSE left

\* Mutants: every node's member of the agent; number and node swapped.
MembersOf(n, a) == Node \X {a}
Swapped(n, a)   == {<<a, n>>}

Own(n, a) == {<<n, a>>}

\* The agent is connected, or was at the reset: HandleMessage lets nothing more of it
\* through then, but a handler that has begun goes on.
Connected(n, a) == Bound(n, <<"agent", a>>) # {} \/ <<n, a>> \in lost

\* SetOnline of agent_online, acknowledged.
RegisterAgent(n, a) ==
  /\ Connected(n, a)
  /\ Keep(agents \cup Own(n, a), TTL)
  /\ UNCHANGED <<hubs, jobs, due, registry, ttl>>

\* SetOnline of agent_offline.
UnregisterAgent(n, a) ==
  /\ Connected(n, a)
  /\ Keep(agents \ Own(n, a), agentsTtl)
  /\ UNCHANGED <<hubs, jobs, due, registry, ttl>>

\* Mutant: the agents are counted and none is removed.
CountOnly(n, a) == Ran(<<"leave", n, a>>) /\ UNCHANGED <<hubs, due, redis>>

\* The goroutine of removeConn.  When it counts no more agents it calls the
\* offline callback, which changes nothing.
LeaveAgent(n, a) ==
  /\ Ran(<<"leave", n, a>>)
  /\ \/ Keep(agents \ Own(n, a), agentsTtl)
     \/ Faults /\ UNCHANGED <<agents, agentsTtl>>
  /\ UNCHANGED <<hubs, due, registry, ttl>>

-----------------------------------------------------------------------------
(* Time *)

\* A period ends: every node's ticker has fired in it.
Tick ==
  /\ due = {}
  /\ due' = {n \in Node : Running(n)}
  /\ ttl' = [u \in Number |-> IF ttl[u] = 0 THEN 0 ELSE ttl[u] - 1]
  /\ registry' = [u \in Number |-> IF ttl[u] <= 1 THEN None ELSE registry[u]]
  /\ agentsTtl' = IF agentsTtl = 0 THEN 0 ELSE agentsTtl - 1
  /\ agents' = IF agentsTtl <= 1 THEN {} ELSE agents
  /\ UNCHANGED <<hubs, jobs>>

-----------------------------------------------------------------------------
RunJob(n) ==
  \/ \E u \in Number : RegisterUser(n, u) \/ UnregisterUser(n, u)
  \/ \E a \in Agent : LeaveAgent(n, a)

RNext ==
  \/ \E n \in Node :
       \/ Start(n) \/ Shutdown(n) \/ ShutdownReset(n) \/ Exit(n)
       \/ RefreshUserTTL(n) \/ RunJob(n)
       \/ \E u \in Number : ShutdownUnregister(n, u)
       \/ \E c \in Conn : BindUser(n, c) \/ RemoveConn(n, c)
       \/ \E a \in Agent : RegisterAgent(n, a) \/ UnregisterAgent(n, a)
  \/ Tick

RSpec == RInit /\ [][RNext]_rvars

\* Goroutines run, tickers fire and time passes.  Nobody has to connect or to
\* leave, and no node has to stay.
RFairness ==
  /\ \A n \in Node : WF_rvars(RunJob(n)) /\ WF_rvars(RefreshUserTTL(n))
  /\ WF_rvars(Tick)

RFairSpec == RSpec /\ RFairness

-----------------------------------------------------------------------------
(* Properties *)

RTypeOK ==
  /\ node \in [Node -> {"new", "up", "stopping", "stopped", "gone"}]
  /\ fresh \subseteq Conn
  /\ at \in [Conn -> Node \cup {None}]
  /\ closing \subseteq Conn
  /\ seen \in [Node -> SUBSET Number]
  /\ lost \subseteq Member
  /\ jobs \in [Job -> Nat]
  /\ due \subseteq Node
  /\ registry \in [Number -> Node \cup {None}]
  /\ ttl \in [Number -> 0..TTL]
  /\ agents \subseteq Member
  /\ agentsTtl \in 0..TTL

Pending(n, u) ==
  \/ jobs[<<"register", n, u>>] + jobs[<<"unregister", n, u>>] > 0
  \/ u \in seen[n]

\* A user that stays connected to the node it is registered for keeps its
\* registration, once the goroutines of that node and its Shutdown are done with
\* it: no other node takes or deletes it (the scripts C2 and C3), and it is
\* refreshed before it expires, on a node that shuts down as well.
RegistrationKept ==
  [][\A n \in Node, u \in Number :
       registry[u] = n /\ Has(n, u) /\ Has(n, u)' /\ ~Pending(n, u)
         => registry'[u] = n]_rvars

\* An agent is taken out of the set by its own node alone (C1), or all agents
\* are when the set expires.
MemberKept ==
  [][\A n \in Node, a \in Agent :
       <<n, a>> \in agents /\ jobs[<<"leave", n, a>>] = 0 /\ <<n, a>> \notin agents'
         => (agents' = {} /\ agentsTtl = 1) \/ UnregisterAgent(n, a)]_rvars

\* An agent in the set has a connection on its node, or that node has gone, or a
\* goroutine that takes it out is to run, or the node has forgotten its connection
\* at the end of Shutdown: whatever the order in which its last connection goes
\* and the visitor with its number leaves, and while its node shuts down, only
\* the reset of the maps leaves somebody in the set for a restart to take out.
MemberOwed ==
  \A n \in Node, a \in Agent :
    <<n, a>> \in agents /\ node[n] # "gone"
      => Connected(n, a) \/ jobs[<<"leave", n, a>>] > 0

\* The number of a user that is connected nowhere, on dead nodes neither, is not
\* registered for ever.
StaleEnds ==
  \A u \in Number :
    ~(\E n \in Node : Has(n, u)) ~> (registry[u] = None \/ \E n \in Node : Has(n, u))

\* An agent that has left a node that goes on does not stay in the set, unless it
\* was connected when the maps were reset.
MemberLeaves ==
  \A n \in Node, a \in Agent :
    ~Connected(n, a)
      ~> (<<n, a>> \notin agents \/ Connected(n, a) \/ node[n] = "gone")

(* What a comment says, and the code does not do *)

\* A node that does not shut down has a connection of this number.
Staying(u) == \E n \in Node : node[n] = "up" /\ Has(n, u)

\* ws/distributor.go:170: GetUserNode gets the node where the user is.  A user that
\* stays connected is at some time registered for a node it is connected to.
LocatesUser ==
  \A u \in Number :
    Staying(u) ~> ((registry[u] # None /\ Has(registry[u], u)) \/ ~Staying(u))
=============================================================================
