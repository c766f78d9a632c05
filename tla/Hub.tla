-------------------------------- MODULE Hub --------------------------------
(***************************************************************************)
(* ws/hub.go of one process, with the connections of ws/conn.go, the gate   *)
(* and the rate limiters of handler/router.go, authentication              *)
(* (handler/auth.go) and, in standalone mode, the is_online column the      *)
(* offline callback of app/app.go writes.                                  *)
(*                                                                         *)
(* The WebSocket library runs HandleMessage of one connection serially and  *)
(* gives every connection a fresh id.  Its source is not here: whether      *)
(* HandleClose may overtake a running HandleMessage is the constant         *)
(* CloseOverlaps.  Frames, heartbeats, nicknames, answers and the rooms of  *)
(* the library, which BroadcastToTenant pushes to, are left out.            *)
(***************************************************************************)
EXTENDS Naturals

CONSTANTS
  Conn,            \* connection ids, each used once
  Visitor, Agent,  \* user ids; the two tables number their rows independently
  Tenant,
  TenantOf,        \* TenantOf[<<role, id>>] is the tenant of a user
  Send,            \* goroutines that send through the hub
  None,            \* no user, no role, no tenant
  CloseOverlaps,   \* whether HandleClose may run beside HandleMessage
  Stops,           \* whether the process may be shut down or crash
  WriteFaults      \* whether UpdateOnlineStatus may fail

Role == {"visitor", "agent"}
Key  == ({"visitor"} \X Visitor) \cup ({"agent"} \X Agent)

ASSUME NoneAssumption == None \notin Visitor \cup Agent \cup Tenant \cup Role
ASSUME TenantAssumption == TenantOf \in [Key -> Tenant]
ASSUME FlagAssumption ==
  CloseOverlaps \in BOOLEAN /\ Stops \in BOOLEAN /\ WriteFaults \in BOOLEAN

VARIABLES
  socket,       \* socket[c]: "new", "open", "closing" in HandleClose, "closed"
  handler,      \* handler[c]: where HandleMessage is
  role, user, tenant,  \* what the handlers have set on a connection
  connections,  \* the ids in Hub.connections
  userConns,    \* userConns[k], empty when the map has no entry
  tenantConns,  \* tenantConns[t], likewise
  limiters,     \* the ids in Router.limiters
  leaving,      \* leaving[a]: onAgentOffline goroutines that have not run
  online,       \* the agents whose row says is_online = 1
  acked,        \* the agents whose last status message said online and was
                \* acknowledged, since they were last without a connection.
                \* The code has no such state; StatusKept speaks about it
  shutdown,     \* whether Shutdown runs, and the connections it has to close
  send          \* send[g]: a goroutine in SendToUser or a tenant broadcast

attrs   == <<role, user, tenant>>
indexes == <<connections, userConns, tenantConns>>
status  == <<leaving, online, acked>>
vars    == <<socket, handler, attrs, indexes, limiters, status, shutdown, send>>

-----------------------------------------------------------------------------
KeyOf(c) == <<role[c], user[c]>>

Bound(k)     == userConns[k]
Connected(a) == Bound(<<"agent", a>>) # {}

Quiet == [to |-> None, left |-> {}]

Running == [on |-> FALSE, left |-> {}]

Empty ==
  /\ connections = {}
  /\ userConns   = [k \in Key |-> {}]
  /\ tenantConns = [t \in Tenant |-> {}]

Init ==
  /\ socket   = [c \in Conn |-> "new"]
  /\ handler  = [c \in Conn |-> "idle"]
  /\ role     = [c \in Conn |-> None]
  /\ user     = [c \in Conn |-> None]
  /\ tenant   = [c \in Conn |-> None]
  /\ Empty
  /\ limiters = {}
  /\ leaving  = [a \in Agent |-> 0]
  /\ online   = {}
  /\ acked    = {}
  /\ shutdown = Running
  /\ send     = [g \in Send |-> Quiet]

-----------------------------------------------------------------------------
(* Connections *)

HandleOpen(c) ==
  /\ socket[c] = "new"
  /\ socket' = [socket EXCEPT ![c] = "open"]
  /\ connections' = connections \cup {c}
  /\ UNCHANGED <<handler, attrs, userConns, tenantConns, limiters, status,
                 shutdown, send>>

\* Mutant: the set is looked at before the id is deleted from it.
LastBefore(a, c) == KeyOf(c) = <<"agent", a>> /\ Bound(<<"agent", a>>) = {}

\* The key under which removeConn looks c up has no more connections.
LastOf(a, c) == KeyOf(c) = <<"agent", a>> /\ Bound(<<"agent", a>>) = {c}

\* removeConn, under the lock.
RemoveConn(c) ==
  /\ connections' = connections \ {c}
  /\ userConns' = [k \in Key |-> IF k = KeyOf(c) THEN Bound(k) \ {c} ELSE Bound(k)]
  /\ tenantConns' = [t \in Tenant |->
       IF t = tenant[c] THEN tenantConns[t] \ {c} ELSE tenantConns[t]]
  /\ leaving' = [a \in Agent |-> leaving[a] + IF LastOf(a, c) THEN 1 ELSE 0]
  /\ acked' = {a \in acked : ~LastOf(a, c)}
  /\ UNCHANGED online

HandleClose(c) ==
  /\ socket[c] = "open"
  /\ CloseOverlaps \/ handler[c] = "idle"
  /\ \/ /\ c \in connections
        /\ RemoveConn(c)
        /\ socket' = [socket EXCEPT ![c] = "closing"]
     \/ /\ c \notin connections
        /\ socket' = [socket EXCEPT ![c] = "closed"]
        /\ UNCHANGED <<indexes, status>>
  /\ UNCHANGED <<handler, attrs, limiters, shutdown, send>>

\* Mutant: HandleClose forgets the limiter.
KeepLimiter(c) ==
  /\ socket[c] = "closing"
  /\ socket' = [socket EXCEPT ![c] = "closed"]
  /\ UNCHANGED <<handler, attrs, indexes, limiters, status, shutdown, send>>

RemoveLimiter(c) ==
  /\ socket[c] = "closing"
  /\ socket' = [socket EXCEPT ![c] = "closed"]
  /\ limiters' = limiters \ {c}
  /\ UNCHANGED <<handler, attrs, indexes, status, shutdown, send>>

\* Mutant: the callback runs although no goroutine was started for it.
MarkOfflineAgain(a) ==
  /\ leaving' = [leaving EXCEPT ![a] = @ - 1]
  /\ online' = online \ {a}
  /\ UNCHANGED <<socket, handler, attrs, indexes, limiters, acked, shutdown, send>>

\* Mutant: the callback fails to write and nobody tries again.
SkipOffline(a) ==
  /\ leaving[a] > 0
  /\ leaving' = [leaving EXCEPT ![a] = @ - 1]
  /\ UNCHANGED <<socket, handler, attrs, indexes, limiters, online, acked,
                 shutdown, send>>

\* The goroutine of onAgentOffline: is_online = 0, whatever happened since.
MarkOffline(a) ==
  /\ leaving[a] > 0
  /\ leaving' = [leaving EXCEPT ![a] = @ - 1]
  /\ \/ online' = online \ {a}
     \/ WriteFaults /\ UNCHANGED online
  /\ UNCHANGED <<socket, handler, attrs, indexes, limiters, acked, shutdown, send>>

-----------------------------------------------------------------------------
(* HandleMessage *)

\* A message on a connection the hub does not know is dropped.
HandleMessage(c) ==
  /\ socket[c] = "open"
  /\ handler[c] = "idle"
  /\ c \in connections
  /\ handler' = [handler EXCEPT ![c] = "route"]
  /\ UNCHANGED <<socket, attrs, indexes, limiters, status, shutdown, send>>

\* getLimiter, the first thing Route does.
Route(c, pc) ==
  /\ handler[c] = "route"
  /\ limiters' = limiters \cup {c}
  /\ handler' = [handler EXCEPT ![c] = pc]
  /\ UNCHANGED <<socket, indexes, status, shutdown, send>>

\* Over the rate, not authenticated, not allowed to the role, or a message
\* that concerns another module.
RouteOther(c) == Route(c, "idle") /\ UNCHANGED attrs

\* Mutant: auth is let through for a connection that is authenticated.
MayAuthenticateAgain(c) == handler[c] = "route"

\* roleAllowedTypes has no auth: a connection authenticates once.
MayAuthenticate(c) == user[c] = None

RouteAuth(c, r, t) ==
  /\ MayAuthenticate(c)
  /\ Route(c, "auth")
  /\ role'   = [role   EXCEPT ![c] = r]
  /\ tenant' = [tenant EXCEPT ![c] = t]
  /\ UNCHANGED user

\* authRequiredTypes and roleAllowedTypes.
RouteStatus(c, pc) ==
  /\ user[c] # None
  /\ role[c] = "agent"
  /\ Route(c, pc)
  /\ UNCHANGED attrs

\* Mutant: the user is looked for in every tenant.
InAnyTenant(c, u) == <<role[c], u>> \in Key

InTenant(c, u) == <<role[c], u>> \in Key /\ TenantOf[<<role[c], u>>] = tenant[c]

\* The service finds the user in the tenant the message names.
Authenticate(c, u) ==
  /\ handler[c] = "auth"
  /\ InTenant(c, u)
  /\ user' = [user EXCEPT ![c] = u]
  /\ handler' = [handler EXCEPT ![c] = "bind"]
  /\ UNCHANGED <<socket, role, tenant, indexes, limiters, status, shutdown, send>>

\* The role and the tenant stay set.
AuthFails(c) ==
  /\ handler[c] = "auth"
  /\ handler' = [handler EXCEPT ![c] = "idle"]
  /\ UNCHANGED <<socket, attrs, indexes, limiters, status, shutdown, send>>

\* Mutant: BindUser does not look whether the connection is still there.
BindableUnchecked(c) == user[c] # None

\* BindUser, under the lock, does nothing for a connection that was removed.
Bindable(c) == c \in connections

BindUser(c) ==
  /\ handler[c] = "bind"
  /\ handler' = [handler EXCEPT ![c] = "idle"]
  /\ \/ /\ Bindable(c)
        /\ userConns'   = [userConns   EXCEPT ![KeyOf(c)] = @ \cup {c}]
        /\ tenantConns' = [tenantConns EXCEPT ![tenant[c]] = @ \cup {c}]
     \/ /\ ~Bindable(c)
        /\ UNCHANGED <<userConns, tenantConns>>
  /\ UNCHANGED <<socket, attrs, connections, limiters, status, shutdown, send>>

\* SetOnline of agent_online and agent_offline.
SetOnline(c) ==
  /\ handler[c] \in {"online", "offline"}
  /\ \/ /\ handler[c] = "online"
        /\ online' = online \cup {user[c]}
        /\ acked'  = acked \cup {user[c]}
     \/ /\ handler[c] = "offline"
        /\ online' = online \ {user[c]}
        /\ acked'  = acked \ {user[c]}
     \/ WriteFaults /\ UNCHANGED <<online, acked>>
  /\ handler' = [handler EXCEPT ![c] = "idle"]
  /\ UNCHANGED <<socket, attrs, indexes, limiters, leaving, shutdown, send>>

-----------------------------------------------------------------------------
(* Sending: the ids are copied under the lock and used after it. *)

SendToUser(g, k) ==
  /\ send[g] = Quiet
  /\ Bound(k) # {}
  /\ send' = [send EXCEPT ![g] = [to |-> k, left |-> Bound(k)]]
  /\ UNCHANGED <<socket, handler, attrs, indexes, limiters, status, shutdown>>

\* The caller, an agent in session_accept, excludes its own connection.
BroadcastToTenantExcept(g, c) ==
  /\ send[g] = Quiet
  /\ user[c] # None /\ role[c] = "agent"
  /\ tenantConns[tenant[c]] \ {c} # {}
  /\ send' = [send EXCEPT ![g] = [to |-> tenant[c],
                                  left |-> tenantConns[tenant[c]] \ {c}]]
  /\ UNCHANGED <<socket, handler, attrs, indexes, limiters, status, shutdown>>

Deliver(g, c) ==
  /\ c \in send[g].left
  /\ LET left == send[g].left \ {c} IN
     send' = [send EXCEPT ![g] =
       IF left = {} THEN Quiet ELSE [to |-> send[g].to, left |-> left]]
  /\ UNCHANGED <<socket, handler, attrs, indexes, limiters, status, shutdown>>

-----------------------------------------------------------------------------
(* Shutdown, which comes before the HTTP server stops, and the end *)

Shutdown ==
  /\ Stops
  /\ ~shutdown.on
  /\ shutdown' = [on |-> TRUE, left |-> connections]
  /\ UNCHANGED <<socket, handler, attrs, indexes, limiters, status, send>>

\* Conn.Close: its onClose removes the connection and leaves the limiter;
\* HandleClose of the library follows.
ShutdownClose(c) ==
  /\ c \in shutdown.left
  /\ shutdown' = [shutdown EXCEPT !.left = @ \ {c}]
  /\ \/ c \in connections /\ RemoveConn(c)
     \/ c \notin connections /\ UNCHANGED <<indexes, status>>
  /\ UNCHANGED <<socket, handler, attrs, limiters, send>>

\* The maps are replaced, with the connections that opened in the meantime.
ShutdownReset ==
  /\ shutdown.on /\ shutdown.left = {}
  /\ shutdown' = Running
  /\ connections' = {}
  /\ userConns'   = [k \in Key |-> {}]
  /\ tenantConns' = [t \in Tenant |-> {}]
  /\ acked' = {}
  /\ UNCHANGED <<socket, handler, attrs, limiters, leaving, online, send>>

\* The process ends, after Shutdown or without, and another one starts: only
\* the database is left.
Exit ==
  /\ Stops
  /\ socket'  = [c \in Conn |-> IF socket[c] = "new" THEN "new" ELSE "closed"]
  /\ handler' = [c \in Conn |-> "idle"]
  /\ connections' = {}
  /\ userConns'   = [k \in Key |-> {}]
  /\ tenantConns' = [t \in Tenant |-> {}]
  /\ limiters' = {}
  /\ leaving'  = [a \in Agent |-> 0]
  /\ acked'    = {}
  /\ shutdown' = Running
  /\ send'     = [g \in Send |-> Quiet]
  /\ UNCHANGED <<attrs, online>>

-----------------------------------------------------------------------------
Handle(c) ==
  \/ RouteOther(c)
  \/ \E r \in Role, t \in Tenant : RouteAuth(c, r, t)
  \/ \E pc \in {"online", "offline"} : RouteStatus(c, pc)
  \/ \E u \in Visitor \cup Agent : Authenticate(c, u)
  \/ AuthFails(c) \/ BindUser(c) \/ SetOnline(c)

Next ==
  \/ \E c \in Conn :
       \/ HandleOpen(c) \/ HandleClose(c) \/ RemoveLimiter(c)
       \/ HandleMessage(c) \/ Handle(c) \/ ShutdownClose(c)
  \/ \E a \in Agent : MarkOffline(a)
  \/ \E g \in Send :
       \/ \E k \in Key : SendToUser(g, k)
       \/ \E c \in Conn : BroadcastToTenantExcept(g, c) \/ Deliver(g, c)
  \/ Shutdown \/ ShutdownReset \/ Exit

Spec == Init /\ [][Next]_vars

\* The goroutine of the callback, once started, runs.  Nobody has to connect, to
\* send, to leave or to get an answer.
Fairness ==
  \A a \in Agent : WF_vars(MarkOffline(a))

FairSpec == Spec /\ Fairness

-----------------------------------------------------------------------------
(* Properties *)

TypeOK ==
  /\ socket  \in [Conn -> {"new", "open", "closing", "closed"}]
  /\ handler \in [Conn -> {"idle", "route", "auth", "bind", "online", "offline"}]
  /\ role    \in [Conn -> Role \cup {None}]
  /\ user    \in [Conn -> Visitor \cup Agent \cup {None}]
  /\ tenant  \in [Conn -> Tenant \cup {None}]
  /\ connections \subseteq Conn
  /\ userConns   \in [Key -> SUBSET Conn]
  /\ tenantConns \in [Tenant -> SUBSET Conn]
  /\ limiters \subseteq Conn
  /\ leaving \in [Agent -> Nat]
  /\ online \subseteq Agent
  /\ acked  \subseteq Agent
  /\ shutdown \in [on : BOOLEAN, left : SUBSET Conn]
  /\ send \in [Send -> [to : Key \cup Tenant \cup {None}, left : SUBSET Conn]]

\* The indexes hold exactly the connections whose authentication is over, each
\* under its own user and its own tenant, whenever removeConn or Shutdown fall
\* between the steps of a handler: nothing is left behind in an index, and no
\* connected user is missing from one.
IndexExact ==
  \A c \in Conn :
    LET authenticated == c \in connections /\ user[c] # None /\ handler[c] # "bind" IN
    /\ \A k \in Key : c \in Bound(k) <=> authenticated /\ k = KeyOf(c)
    /\ \A t \in Tenant : c \in tenantConns[t] <=> authenticated /\ t = tenant[c]

\* A push goes to connections of the user it is for, a broadcast to
\* connections of its tenant, although the ids are old when they are used.
Recipient ==
  \A g \in Send : \A c \in send[g].left :
    send[g].to \in {KeyOf(c), tenant[c]}

\* What is left of the hub for those who send through it.
Entries(index, keys) == {e \in Conn \X keys : e[1] \in index[e[2]]}

Waiting ==
  {c \in Conn : /\ user[c] = None \/ handler[c] = "bind"
                /\ socket[c] = "new" \/ c \in connections}

Index == INSTANCE Directory
  WITH waiting <- Waiting,
       users   <- Entries(userConns, Key),
       tenants <- Entries(tenantConns, Tenant)

\* BindUser, removeConn, Shutdown and the end of the process together implement
\* the directory: both indexes change in one step, a connection is entered once,
\* under one user and that user's tenant, and a connection that was removed while
\* its authentication was under way is not entered.
Implements == Index!Spec

\* No limiter outlives its connection (HandleClose).
LimiterOwned ==
  limiters \subseteq {c \in Conn : socket[c] \in {"open", "closing"}}

\* An agent the table says is online has a connection, or its offline callback
\* is still to run.
NoPhantom ==
  \A a \in online : Connected(a) \/ leaving[a] > 0

\* An agent that has lost its last connection ends up offline, unless it comes
\* back.
GoneGoesOffline ==
  \A a \in Agent : ~Connected(a) ~> (a \notin online \/ Connected(a))

(* What a comment says, and the code does not do *)

\* model/agent.go:29: is_online = 0 means offline.  An agent whose agent_online
\* was acknowledged, and who has stayed connected, is not recorded offline.
StatusKept ==
  \A a \in acked : Connected(a) => a \in online
=============================================================================
