# A TLA+ verification of ccsim-svr

ccsim-svr is a customer-service chat server in Go: visitors and agents connect
over WebSocket, a visitor's first message opens a session, an agent accepts it,
both exchange messages, and either closes it. It runs as one process with SQLite,
or as several processes that share MySQL or PostgreSQL and talk over Redis. The
repository has no tests; what it promises stands in comments, error texts and
`README.md`.

This directory holds TLA+ modules that model the parts where goroutines, nodes and
statements interleave, TLC configurations that check them on small instances, and
theorems that TLAPS proves for every instance. `PROJECT.json` maps every
definition to the lines it models.

## Inventory

| component | state | operations | hard behaviour | what makes it correct |
|---|---|---|---|---|
| session service (`service/session.go`, `repo/session.go`) | rows of `ccsim_sessions`; `peerCache` of each node | `CreateOrGetSession`, `AcceptSession`, `CloseSession`, `IncrementUnread`, `GetPeerIDs` | goroutines of all nodes interleave between statements; a cache per node that hears nothing of other nodes; transactions that roll back after the cache is filled | one open session per visitor, one agent wins, the cache never names a wrong party, nothing reopens |
| message service (`service/message.go`, `repo/message.go`) | rows of `ccsim_messages`, `last_msg_id` | `SendMessage`, `MarkAsRead`, history page, offline queries | `SELECT MAX` followed by an insert; rollback in between; read reports that arrive late | contiguous numbers, ids and numbers ordered alike, reading is a prefix, pages neither overlap nor leave gaps |
| hub (`ws/hub.go`, `ws/conn.go`) | `connections`, `userConns`, `tenantConns`, attributes on a connection | open, close, message, bind, send, broadcast, shutdown | closes beside running handlers; ids used after the lock; callbacks in goroutines | the indexes are exact, nothing is sent to a wrong recipient |
| router (`handler/router.go`) | `limiters` | gate by authentication and role, rate limit | the limiter's life follows the connection's | no leak, a connection authenticates once |
| authentication (`handler/auth.go`) | attributes of a connection | find the user, bind, push offline messages | bind and query in two steps | bound before it is told, no message lost |
| presence (`service/agent.go`, `app/app.go`) | `is_online`, or a Redis set per tenant | `agent_online`, `agent_offline`, `onAgentOffline` | late callback, restart, TTL | who is gone is offline, who is acknowledged online stays online |
| chat, session and agent handlers | none between messages | find the peer, save, acknowledge, push; accept, close, report as read | copies of rows held over several calls; failures between them | a message reaches the parties of its session, nobody else, and none is lost between push and offline push |
| Redis distributor (`ws/distributor.go`, `serv/cluster.go`) | registry `user -> node` with a TTL, sets of agents, subscriptions | register, unregister, refresh, publish, subscribe | asynchronous calls reorder, nodes die, published messages are lost | a registration that settled is kept, a dead node is forgotten, nothing is delivered twice or to a wrong user |
| visitors, ratings (`service/visitor.go`, `handler/extra.go`) | one row each | find or create, update, rate | find and create, read and save in two steps | one visitor per external id, nobody's data in another's row, a rating is one submission's |
| heartbeat, protocol, validation, HTTP, configuration, migration | none that matters here | pure I/O and wiring | | |

Interaction: `Hub.HandleMessage` calls `Router.Route`, which calls a handler, which
calls services and then the hub again to push. Services share only the database and,
inside a node, `peerCache`. Nodes share the database and Redis. The hub calls back
into `AgentService` when the last connection of an agent goes.

The hazards of this code, with the properties that watch them, are listed in
`PROJECT.json`; one without a property says why.

## Modules

| module | what it is |
|---|---|
| `SessionLifecycle` | abstract: `pending -> active -> closed`, agent written once, and, if `Unique`, one open session per visitor |
| `SessionService` | the session service, statement by statement; implements `SessionLifecycle` |
| `SessionServiceProofs` | its theorems |
| `MessageLog` | abstract: a log per session that grows at its end, and a read cursor that never goes back |
| `MessageService` | the message service, statement by statement; implements `MessageLog` |
| `MessageServiceProofs` | its theorems |
| `Directory` | abstract: what the connection table promises a sender: a connection is entered once, under its user and that user's tenant, and goes for good |
| `Hub` | connections, indexes, limiters, authentication and presence of one process; implements `Directory` |
| `HubProofs` | its theorems |
| `Delivery` | the handlers of one process over both abstract services and the index of the hub: who gets to see which message |
| `DeliveryProofs` | its theorems |
| `Registry` | what several nodes do to the Redis keys: users with their node, sets of online agents, time |
| `RegistryProofs` | its theorems |
| `Fanout` | messages between nodes, over `Registry` |
| `FanoutProofs` | its theorems |
| `Visitors` | visitor rows and ratings, over `SessionLifecycle` |
| `VisitorsProofs` | its theorems |
| `MC...` | instances for TLC |

`SessionService` and `MessageService` implement `SessionLifecycle` and `MessageLog`;
`Delivery` and `Visitors` are built on these two (INSTANCE), so that what they assume
about the services is what the services are shown to do. `Unique` says whether looking for
an open session and inserting a new one are one step, which `SessionService` shows for one
writer and reads that succeed; `Delivery` and `Visitors` take it as `FALSE` and so hold on
every database. `Registry` and `Fanout` rely on what `Directory` says of the hub. `Fanout`
extends `Registry`, and each of its steps that is not its own is one of `Registry`.

A definition whose comment begins with "Mutant" is a wrong version of the next one.
No specification uses it: it is there so that a property can be seen to fail
when the code has that bug.

### SessionService

`status`, `visitor`, `agent` and `unread` are the columns of a row (the functions
are over session ids; a row that is not committed has status `"none"`).
`peerCache[n]` is the map of node `n`. `call[c]` is a goroutine inside a service
call: `pc` is the statement it is about to execute, `sid`, `user`, `role`, `peer`
are its locals.

| code | actions |
|---|---|
| `CreateOrGetSession` | `FindFound`, `FindNone`, `FindFails`; `Insert`; `CachePeer`; `Commit` or `Rollback`; then `IncrementUnread` or `Return` in the chat handler |
| `AcceptSession` | `AssignAgent` or `AssignConflict`; `ResetUnread`; `Reload` or `ReloadFails`; `CachePeer`; `Return` |
| `CloseSession` | `CloseRow`; `Evict` |
| `GetPeerIDs` | `PeerCached`, or `PeerMiss`, `PeerLoad`, `CachePeer`; `Return` |
| a process that stops and starts | `Crash` |

The database is a parameter. `Serializable` stands for SQLite: one writer at a
time, and a transaction that has read may not write once another has committed what
it read. Without it, reads do not lock and see committed rows, which is what the
default isolation of MySQL and PostgreSQL lets the code see here. `ReadFaults`
lets a `SELECT` fail for another reason than a missing row. When several sessions
of a visitor are open, the code takes the newest; the model takes any of them.

An error of `ResetUnread` is possible always: the code logs it and goes on. Other
failing statements are calls that end with an error and change nothing.

### MessageService

`messages` is the set of committed rows, `readIds` those with `is_read = 1`,
`created` the sessions whose row is there, `last[s]` is `last_msg_id`, `nextId` the
auto-increment, which a rollback does not give back. A `call` is one `SendMessage`: `GetNextSeqNum`, `Create`,
`UpdateLastMessage`, `Commit`, with `Rollback` possible before each. `KeyFree` is the
unique index `uk_session_seq`, which also sees rows that are inserted and not
committed: the other insert waits for them. `MarkAsRead` is one statement.
A session's row may be inserted at any time or never (`CreateSession`), and messages are sent
to its id all the same: `Changes` says whether the UPDATE of `last_msg_id` changes a row.
It does not when there is none, which is no error, nor when it fails, which is only logged.
`touched`, kept with a message and not in the code, remembers which of both it was.
`reported` is not in the code: it remembers what each side has reported read, which
`OfflineKept` needs in order to say when the code forgets a message; with
`Tracked = {}` it has one value.

Nothing in the code ties a message to the state of its session (`SendMessage` does
not read it), so the two services are separate modules, and `Delivery` puts them
side by side.

### Hub

One process. `socket` and `handler` say where a connection and its running
`HandleMessage` are; `role`, `user`, `tenant` are its attributes; `connections`,
`userConns`, `tenantConns`, `limiters` are the maps of the code; `leaving[a]` counts
`onAgentOffline` goroutines that were started and have not run; `online` is the
`is_online` column; `send[g]` is a goroutine between copying ids under the lock and
using them; `shutdown` is what `Shutdown` still has to close. `acked` is not in the
code: the agents whose last status message said online and was acknowledged, since
they were last without a connection, for `StatusKept`.

Every critical section of `Hub.mu` is one action, every step between two of them
another. For `Directory` the two indexes are read as sets of pairs (`Entries`), and
`Waiting` are the connections that have been neither entered nor removed.
A handler is `HandleMessage` (the lookup), `Route...` (limiter and gate),
then for `auth` `Authenticate` or `AuthFails` and `BindUser`, and for the status
messages `SetOnline`. `removeConn` is the operator `RemoveConn`, used by
`HandleClose` and by `ShutdownClose`, the way the code shares it.

The WebSocket library is not in the repository. That it runs `HandleMessage` of one
connection serially is assumed; whether `HandleClose` may run beside a handler is
the constant `CloseOverlaps`, and what depends on it says so. `Stops` allows
`Shutdown` and the end of the process, after which only the database is left.

### Delivery

`status`, `visitor`, `agent` are the sessions, `log` and `cursor` the messages of each
and how many are read; they change only by the actions of the two abstract
specifications. `link[c]` is a connection as `Hub` shows it to a sender (`"open"`: bound
and writable), `task[c]` the handler that runs on it with its locals, `got[c]` what was
written to it. `served`, not in the code, is the set of connections whose
offline push is over.

| code | actions |
|---|---|
| `handleVisitorAuth`, `handleAgentAuth` and `sendOfflinePush` | `BindUser`; `QueryOffline`; `PushPage` for each batch; `SendFails` when the socket is gone |
| `handleVisitorMessage` | `CreateOrGetSession`; `SendMessage`; `SendACK`; `SendToUser` (the copy of the ids); `Deliver` for each id |
| `handleAgentMessage` | `GetPeerIDs`; then the same |
| `handleAccept`, `handleClose` | `AcceptSession` or `CloseSession`; `SendSystemMessage` |
| `handleRead` | `MarkAsRead` |
| a socket that closes | `Close` |

Any step of a handler that asks the database may fail when `Faults` holds.

Visitors and agents are rows of two tables, each with its own auto-increment, so that a user
here is a role and a number and the same number may be in both. `PeerOf` works on numbers, as
the service does, and `handleAgentMessage` drops the role that comes back with one and pushes
to a visitor. An agent that has the number of the session's visitor, and is not its agent
(`Namesake`), is answered with the number of the session's agent: its message goes
to whichever visitor has that number (`Astray`), and not to the session's. `NothingLost` and
`OnlyParties` name this one case.

### Registry and Fanout

`Registry` is several processes over one Redis. `node[n]` is a process: `"new"`, `"up"`,
`"stopping"` inside `Shutdown`, `"stopped"` after it, `"gone"`. `at[c]` is where a connection
is bound. `Shutdown` copies the connections (`closing`) and the numbers of the users (`seen[n]`),
closes the ones (each by `RemoveConn`), unregisters the others one after the other
(`ShutdownUnregister`) and then empties the maps (`ShutdownReset`). The HTTP server is stopped
only after it, so connections bind, agents come online and the ticker fires all the while.
`lost` are the agents whose connection was in the maps when they were emptied: no goroutine is
started for them, and of their messages only a handler that has begun still acts.
`jobs` counts the goroutines that were started and have not called Redis yet: two for
one user may run in either order, which is why it is a bag and not a queue.
`registry[u]` and `ttl[u]` are the key `ccsim:registry:user:<id>` and what is left of it, `agents` and
`agentsTtl` the set of online agents; time is counted in periods of the refresh
ticker, and `due` are the nodes whose ticker has not fired in this period.

| code | actions |
|---|---|
| `BindUser`, and the goroutine it starts | `BindUser`, `RegisterUser` |
| `removeConn`, and its goroutines | `RemoveConn`, `UnregisterUser`, `LeaveAgent` |
| `Hub.Shutdown` | `Shutdown`; `RemoveConn` of each copied connection; `ShutdownUnregister` of each copied number; `ShutdownReset` |
| end of the process, start | `Exit`, `Start` |
| the refresh ticker | `RefreshUserTTL` |
| `SetOnline` in cluster mode | `RegisterAgent`, `UnregisterAgent` |
| expiry in Redis | `Tick` |

The three scripts (`registerUserScript`, `unregisterUserScript`, `unregisterAgentScript`)
are one step each, since Redis runs a script alone. With `Faults` a call may fail; the
code logs it.

`Fanout` follows one message: `SendToUser` (local ids, or the registry:
`GetUserNode`, `PublishToNode`, `HandleRemoteNodeMessage`) or `Broadcast`
(`PublishToTenant`, `HandleRemoteTenantMessage`), while connections, nodes, goroutines
and subscriptions (`Subscribe`, `Unsubscribe`) go on. Redis keeps nothing of what it
publishes: a node that does not listen does not get it. `want`, not in the code, is whom the
message has to reach, and shrinks when a connection leaves, its registration
changes, a subscription is lost or a call fails.

### Visitors

`row` and `rating` are the two tables, `user` and `nick` the attributes of a connection,
`task[c]` its handler. `Authenticate` is `FindByExternalID` and `Create`, `UpdateVisitor`
is `ReadVisitor` and `SaveVisitor`, which writes every column of the copy, `SubmitRating`
comes after `GetSession`. `KeyFree` is the index `uk_tenant_external`. Every
statement may fail. The sessions beside take any step of `SessionLifecycle`.

## Runs

Passing runs:

| run | instance | distinct states | properties |
|---|---|---|---|
| `session_lifecycle` | 1 visitor, 2 agents, 2 sessions, 2 calls on 2 nodes; one writer, reads succeed | 763,640 | `TypeOK`, `OneOpenSession`, `UnreadHasAgent`, implements `SessionLifecycle` |
| `session_cache` | 2 visitors, 2 agents, 1 session, 3 calls on 2 nodes; reads do not lock and may fail | 700,601 | `OneWinner`, `CacheCoherent`, `PushTarget`, `PeerIsParty`, implements `SessionLifecycle` without `Unique` |
| `message_log` | 3 calls, 3 message ids; 2 sessions that are there or not and 1 sender, or 1 session and 2 senders | 97,304 | `TypeOK`, `SeqContiguous`, `IdFollowsSeq`, `ReadIsPrefix`, `LastIsNewest`, `PageExact`, implements `MessageLog` |
| `hub_indexes` | 2 connections, a visitor and 2 agents in 2 tenants, 1 sender; closes overlap handlers, writes fail, the process stops | 326,857 | `TypeOK`, `IndexExact`, `Recipient`, implements `Directory` |
| `hub_presence` | 3 connections, a visitor and an agent of one tenant; handlers end before their connection closes, writes succeed, the process goes on; fair callbacks | 49,912 | `LimiterOwned`, `NoPhantom`, `GoneGoesOffline` |
| `delivery` | 1 session, 2 messages, batches of 1, queries and inserts fail; a visitor on 2 connections and an agent of the same number, and a socket that closes; or 2 visitors and 2 agents that share their numbers | 307,393 | `TypeOK`, `NothingLost`, `OnlyParties` |
| `cluster_registry` | 2 nodes, one number that is a visitor on one connection and an agent on two, TTL of 2 periods; calls succeed, a node shuts down or dies; fair goroutines and time | 138,301 | `RTypeOK`, `RegistrationKept`, `MemberKept`, `MemberOwed`, `StaleEnds`, `MemberLeaves` |
| `cluster_fanout` | 2 nodes, one number in both roles, 2 connections, TTL of 2 periods; calls fail, subscriptions come and go, a node shuts down or dies | 441,466 | `TypeOK`, `Reached`, `NotMisdelivered` |
| `visitors` | 2 persons, 3 connections, 2 ids, 1 agent, 1 session | 423,416 | `TypeOK`, `OnePersonPerId`, `RatingIsOne` |

What they show, beyond the names:

- `OneWinner` rests on the status condition of one UPDATE, not on the transaction or
  the cache. `CacheCoherent` holds although a node never hears of another's accepts
  and closes, because an agent is written into a row at most once: an entry with an
  agent is final, and one without answers for nobody.
  `PushTarget` is the same argument for the copy of the row a chat handler holds.
- `SeqContiguous` and `IdFollowsSeq` hold because the index makes the second
  of two transactions that took one number fail; the number is not
  protected by the transaction. `MarkAsRead` compares ids and the client
  sees numbers: `ReadIsPrefix` holds only because they agree.
- `IndexExact` is what `removeConn` and `BindUser` have to keep together under
  `Hub.mu`; the test in `BindUser` whether the connection still exists is needed
  as soon as a connection can close while it authenticates, and in `Recipient` the
  gate that lets a connection authenticate only once is. That `Hub` implements `Directory`
  adds what no single state shows: both indexes change in one step, a connection that was
  removed is never entered, and a broadcast to a tenant goes to users of that tenant,
  although the tenant is set on the connection before the service has found the user.
- `LastIsNewest` is what is left of an update that may not happen: sends that overlap or
  roll back never put an older id back than one that was written, and never one that is not
  there. In the run the update may fail, and the row may be missing.
- `NothingLost` rests on two orders: a connection is bound before its unread messages
  are asked for, and a message is saved before the ids to push to are copied. It speaks
  of messages whose sender stays connected: when the acknowledgement cannot be
  written the handler returns before the push, and a receiver that is connected sees
  the message only when it asks for the history or connects again.
- `OnlyParties` holds although the peer is read before the save and used after it,
  because a party of a session, once there, never changes; and for numbers that
  visitors and agents share, because the offline queries look at one column each and the index
  of the hub goes by role and number. The one gap is the answer to a namesake, above.
- `RegistrationKept` is about scripts that look at the owner: without that look
  another node's goroutine could take or delete a key. It exempts a user with
  pending goroutines, or that Shutdown has yet to unregister, for then the code does
  unregister a user that has come back.
- `MemberOwed` is what `MemberLeaves` rests on: the last connection of an agent on a node is
  recognised, although a visitor may have its number, and starts the goroutine that takes
  the agent out. While a node shuts down there is one exception, and the property
  is exact about it: agents that connected after the copy and are forgotten at the reset stay in the set,
  until it expires.
- `StaleEnds` needs every part of the refresh: whoever is connected to a node is refreshed there,
  whichever node the key names, and nobody else is.
- `Reached` and `NotMisdelivered` hold while anything else goes on. A node
  gets its own broadcast back and drops it; the registry has no roles, and the
  receiving node looks at the role.
- `OnePersonPerId` holds through the unique index alone; the loser of a race between two
  first connections gets an error and has to try again. A lost update of two
  `UpdateVisitor` calls is possible and stays within one visitor's own data.

Runs that end in a violation of what the repository says:

| run | claim | what happens |
|---|---|---|
| `message_offline` | `README.md:13`: offline messages are pushed on reconnecting | one side's read report marks the other side's unread messages |
| `hub_callback` | `model/agent.go:29`: `is_online` is the status | a late callback overwrites an acknowledged `agent_online` |
| `cluster_locates` | `ws/distributor.go:170`: the node where the user is | a user on two nodes is registered for the first only; when it leaves that one it is registered nowhere, and when that one dies the other keeps refreshing the dead node's key: however long it stays, what other nodes send it is not found |

What depends on the library: when `HandleClose` may run beside a handler,
`LimiterOwned` and `NoPhantom` fail (a limiter is created, or the status written, after
the close was handled), so both are checked and proved with `CloseOverlaps = FALSE`.

Noticed on the way, and not given a run:

- `service/session.go:34` says the transaction prevents concurrent duplicate creation;
  on MySQL and PostgreSQL, at their default isolation, two first messages can open
  two sessions. `OneOpenSession` is checked and proved for one writer at a time, which is
  SQLite; with `Serializable = FALSE` TLC finds the two sessions.
- `handler/chat.go:136` drops the role of the peer: an agent whose number is that of another
  agent's visitor has its message pushed to the visitor with that other agent's number, while
  `service/session.go:197` and `handler/chat.go:135` speak of the other side (`Astray` in `Delivery`).
- `service/message.go:27` says that a message and the session's last message are written
  atomically; an update that fails is logged, one that meets no row is no error, and the message is
  committed (`Changes` in `MessageService`).
- `repo/message.go:73` says the transaction prevents duplicate numbers; both may take the
  same number, and the index makes one of them fail.
- `service/session.go:197` calls what `GetPeerIDs` returns the other party; without an agent
  it is the caller, and so it is when both parties have the same number.
- `model/agent.go:29`: when the process ends, `is_online` stays as it is and nothing resets it.
- `handler/session.go:93` broadcasts `session_assigned` "to the other agents"; visitors of
  the tenant get it too.
- The set of online agents has a TTL that only `agent_online` renews
  (`ws/distributor.go:180`): an agent online for longer is no longer counted.
- `README.md:14` says visitors rate after the end; no code asks whether the session ended
  or is theirs.
- `service/session.go:44` takes every error of the lookup for a missing row (`ReadFaults` in
  the model, excluded from the theorems about `OneOpenSession`); `service/visitor.go:25` does
  the same, and there the index makes it harmless.
- `repo/session.go:75` reports "accepted by another agent" for a session that is closed,
  missing, or already the caller's.
- `ws/hub.go:105` says the offline callback is for standalone mode only, and `ws/hub.go:241`
  calls it in cluster mode, where it changes nothing.
- `README.md:11` promises assignment to the agent with the fewest sessions, and no code assigns.

### Bounds

- `MaxUnread` (1): `UnreadHasAgent` asks whether the counter is positive. It is 0 in
  `session_cache`, whose properties do not speak of it.
- Three calls are the smallest number in which two share a cache and a third works
  on another node; two suffice for the races over one row or one visitor. Two
  sessions let a visitor have two.
- `MaxId` (3) bounds the auto-increment: sends beyond it are not
  explored. Three ids let a rolled back one fall between two that are committed. The constraint
  `Apart` follows either two sessions or two senders, since who sends matters to the log of the
  one session alone. The theorems hold for any value.
- A connection id is used once, so three connections give an agent two at a time
  and one after them. Two agents and a visitor with an agent's number in two tenants
  are what `IndexExact` and `Recipient` have to keep apart.
- `Delivery`: two connections of a visitor and one of an agent are needed for a push that
  races an offline push, an agent's message to a visitor with two sockets, and an
  acceptance in between; a connection is used once, so "reconnecting" is a second one.
  `PageSize` 1 (50 in the code) and `MaxLen` 2 give an offline push of two batches. The
  constraint `Followed` puts two instances into one run. In `Sockets` a visitor has two
  connections, and one connection closes, which is enough for writes that fail. In `Strangers` two
  visitors and two agents, the smallest number with a visitor and an agent outside the session and a
  namesake of each party, are on a connection each and nobody leaves. An offline push that fails
  (`AllServed`) is not followed. `Owner` says whose session it is, for the numbers could change places. It stops where
  every session is closed and its log full; states beyond it are checked but
  not explored further. The theorems know no such constraint.
- `Registry`: two nodes and three connections let an agent be on two nodes, or twice on
  one, and share its number with a visitor. `Limits` are conjuncts of the next-state relation, not
  a constraint, because liveness is checked: one of the nodes goes on, the other shuts down or dies; the
  agent comes first to the former and then to either; nobody connects before both
  have started; three kinds of goroutines wait at a time. No action that has to happen leads out of them, so that fairness is not affected.
  `TTL` is 2 periods (3 by
  default): the smallest for which a node that refreshes once per period keeps
  its keys. A node does not come back under its id, which is made anew at every
  start. That the configured TTL is at least two refresh periods is assumed; the code does
  not test it.
- `Fanout`: one message, since two share no state. The constraint `NoAgents` cuts states with
  online agents, which no message depends on; `Followed` stops where the message has come to its
  end; `OneStays` and `Together` keep one node up and let nobody connect before both have
  started; `NotReset` stops where the other has emptied its maps, and `Few` lets two
  kinds of goroutines wait at a time. Connection ids are assumed distinct over all
  nodes; the library builds them from 16 bits of the node's id (`app/app.go:101`).
- `Visitors`: two connections of one person race at the index; the third is another
  person's, who updates and rates beside them.
- Symmetry is declared where only invariants and a safety specification are checked.

Runs with `CHECK_DEADLOCK FALSE` may stop: when every connection id is used up, no
client has to do anything. The others never stop, since a call ends and
another may start.

### Fairness

`GoneGoesOffline` needs weak fairness of `MarkOffline` alone: a goroutine that was
started runs. `StaleEnds` and `MemberLeaves` need `RFairness`: the goroutines of a node
run, its ticker fires, time passes. No client has to send, close or come back, no node has
to stay or to stop, and Redis answers (`Faults` is `FALSE` there; what was lost then is only
left to the TTL). The services and handlers are checked for safety alone: every call may fail for good at every
statement, which the code allows.

## Theorems

TLAPS proves, for all values of the constants that satisfy the ASSUMEs of the modules:

| module | theorems |
|---|---|
| `SessionServiceProofs` | `TypeCorrect`, `AcceptOnce`, `CacheSound`, `PushSound`, `PeerSound`, `UnreadSound`, `Refinement` (implements `SessionLifecycle`); from `Serializable` and no `ReadFaults`: `OpenOnce` |
| `MessageServiceProofs` | `TypeCorrect`, `Contiguous`, `OrderedAlike`, `PrefixRead`, `ExactPages`, `AnyPage`, `Newest`, `ImplementsLog` (implements `MessageLog`) |
| `HubProofs` | `TypeCorrect`, `ExactIndexes`, `RightRecipient`, `ImplementsDirectory`; from no `CloseOverlaps` and no `Stops`: `OwnedLimiters`; and also no `WriteFaults`: `NoPhantomAgents` |
| `RegistryProofs` | `TypeCorrect`, `KeptMember`; from no `Faults`: `KeptRegistration`, `OwedMember` |
| `DeliveryProofs` | `TypeCorrect`, `PartiesOnly`, `Nothing` |
| `FanoutProofs` | `FanoutTypes`, `RightReceivers`, `AllReached`; and `RegistryGoesOn`: every behaviour of `Fanout` is one of `Registry` |
| `VisitorsProofs` | `TypeCorrect`, `OnePerson`, `OneRating` |

What stands after "from" is assumed by the configuration that checks the property, too, and the
property is false without it. Each module proves an inductive invariant (theorem `Inductive`, in `RegistryProofs`
`InductiveState` and `InductiveTime`, in `FanoutProofs` `FanoutInductive`) and derives
the others from it.

- Session service. `RowsOK`: a row that is not committed has no visitor and no agent,
  a pending one no agent. `WritersOK`: an insert that is not committed holds an id of
  its own and a pair without an agent. `CopiesOK`: a pair that any other goroutine
  holds is the row, or the row before it had an agent. `WinnersOK` and `LocalsOK` say
  what a program counter knows. `CacheCoherent` alone is not inductive: what `CachePeer`
  writes has to come from one of these pairs, and the pair of a transaction that may
  roll back is harmless only because it has no agent. For `OpenOnce` the proof adds that
  at most one transaction writes, and that what it has read is still so (`SInv`).
  `Refinement` assumes nothing: `CInv` is `IInv`, with `SInv` where `Unique` holds, and under
  it every step is one of the abstract life or changes none of its variables.
- Message service. `NumbersOK`: the committed numbers of a session are 1 to n.
  `InsertedOK`: a row that is inserted and not committed has the next number, alone,
  and a larger id than every committed row of its session. `IdsOK`: ids are unique and
  below the counter. The commit then extends both orders at the same end, and marking by
  id marks a prefix. `NewestOK`, for `Newest`: `last_msg_id` is a committed and touched row's, or 0, and no
  touched row is newer. `ExactPages` and `AnyPage` follow from
  the numbers being 1 to n: a page is an interval of numbers, and its size is counted by a bijection.
  `ImplementsLog` reads the committed rows in the order of their numbers as the log, and the
  largest number that is read as the cursor; the only steps that show are the commit, which
  appends, and `MarkAsRead`, which moves the cursor. A largest number exists because it is one of
  finitely many (`BoundedMax`).
- Hub. `StageOK`: how far a handler has come says what is set on its connection.
  `SendOK`: only connections with a user are ever sent to. With `IndexExact` this gives
  `Recipient`, because a connection with a user never changes its attributes. `NoPhantom`
  needs that a handler runs only on a connection the hub knows, so that `SetOnline`
  writes for an agent that is in the index. `TenantOK`, for `Directory`: the tenant of a
  connection that has a user is the user's. Every step then enters one connection, forgets those
  that close, or leaves the pairs and `Waiting` as they are.
- Registry. `StateOK`: types, a bound connection has been used and is on a node that runs, a set that is not
  there has no TTL. `InTime`: the key of a user that is connected to the node it names, with no
  goroutine pending, has time left, and more than one period once the node's
  ticker has fired. `RegistrationKept` alone is not inductive because a key may expire:
  it needs `InTime`, which needs a refresh that succeeds and a TTL of two periods.
  `MemberOwed` is inductive once `StateOK` says that a bound connection is not bound again;
  the reset of the maps keeps it by what it adds to `lost`.
- Delivery, in two layers. The first: a party stays a party (`Kept`), and what a handler holds
  between reading the peer and writing is for a party, or was sent by a namesake and is for the visitor with the number of the
  session's agent (`TasksOK`); this gives `OnlyParties`.
  The second: a message in the log is for a party or nobody (`LogOK`), a handler that has
  saved one holds exactly that one (`SavedOK`), and whatever is due to a connection that has
  begun its offline push is written to it, in the rest of that push, or with a handler that
  will find the connection (`CoveredOK`). The query makes `CoveredOK` true, since all that
  is due is unread and in a session of the user's; each later step hands the message on
  or writes it.
- Fanout. `OnceOK`: a push is on its way to one node and not written yet, a broadcast is
  written where it has been and not where it still goes, and a connection that has it is
  not bound a second time (`FreshOK`). `ReachOK`, for `Reached`: whoever is wanted has the message,
  or the message is on its way to it (`OnItsWay`): the key that is looked up names its node, or
  the message is published to that node, which listens. `ExceptOK`: whom a broadcast excepts is bound
  nowhere else.
- Visitors. `RowsOK`: external ids are unique among the rows, and a row has data of its
  own person only. `UsersOK`: the id of a connection is a row of its person. `TasksOK`: so is
  the copy that a handler is about to write; without it `SaveVisitor` could put anything
  into a row. `GivenOK` and `SessionsOK`: a rating was given by the user its connection
  still has, for an agent that, once there, does not change.

## Only model-checked, or not modelled

Model-checked and not proved: `GoneGoesOffline`, `StaleEnds` and `MemberLeaves`. They are
liveness under fairness, which is beyond the prover; the safety they rest on is proved
(`NoPhantom`, `RegistrationKept`, `MemberOwed`).

Not modelled, and why (see also `components` in `PROJECT.json`):

- heartbeats, the health check, configuration, routes and request context: they read, answer
  or wire, and keep no state that another part uses;
- the messages of the protocol and their validation: stateless; the models take what passes it;
- migration, seed data and tenants: run once before the server listens;
- the lists of sessions, searches, counts and statistics: they only read;
- methods that no handler calls;
- the token bucket of the rate limiter and the table of roles per message type: the
  limiter drops messages, which every model allows by not sending them; the table is a
  constant.

Contents, nicknames, times, the layout of messages and logging are left out everywhere
but for the nickname and phone in `Visitors`.

## Plan

1. The presence that both modes promise, as an abstract specification for `Hub` and `Registry`
   to implement.
2. The token bucket and the table of roles, should the router grow rules that depend on
   the state of a session.
