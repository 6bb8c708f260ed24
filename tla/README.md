# Verification of the long connection service

TLA+ models, TLC runs and TLAPS proofs for `long_connection_service`, the WebSocket
gateway of roc-foundation-service. Paths below are relative to
`src/long_connection_service/src/` unless they start with `idl/`.

## 1. Inventory

| Component | State | Operations | Talks to |
|---|---|---|---|
| Hub (`frontier/hub.go`) | `connections`, `userConnections`, counters, channels `Register`/`Unregister`, `stopChan`, RWMutex `mu` | `Run` (register, unregister), `checkHeartbeat`, `Stop`, `GetConnection`, `SendToConnection`, `Broadcast`, `HandleMessage` | connections (channels, `Close`), presence (Redis) |
| Connection (`frontier/connection.go`) | channel `Send`, `closed` under `sendMu`, `closeOnce`, `lastActive`, metadata | `ReadPump`, `WritePump`, `SendMessage`, `Close`, `IsAlive` | Hub, socket |
| WebSocket handler (`frontier/handler_ws.go`, `message.go`, `convert.go`) | none of its own | `ServeHTTP`, `HandleAuth`, `HandleMessage`, `checkServiceRegistered` | Hub, Redis, backend RPC |
| Presence and route store (`gateway/lifecycle/presence.go`, `route/`) | Redis: one key per connection (the fact, with TTL), one set per user (a repairable index, twice the TTL) | `Register`, `Refresh`, `Unregister`, `Get`, `ListByUser`, `Cleanup`, `CleanupStale` | Redis |
| Push router (`push/`) | a `routeSummary` per call | `RouteUser`, `RouteConnection`, `Broadcast` | route store, local Hub, other gateways (RPC) |
| Backbon RPC (`backbon/`) | none of its own | `PushData`, `PushToConnection`, `CheckUserOnline`, service registry calls | router, route store, registry |
| Service registry (`backbon/storage/service_registry.go`) | Redis: one set of methods per service, TTL 7 days | `RegisterService`, `UnregisterService`, `GetService` | Redis |
| Server, context, configuration (`frontier/server.go`, `servicecontext/`, `start/`, `config/`) | configuration, advertised address, phase of the process, remote client cache | load, start, signal, stop, `GetRemoteClient` | all |

What makes the code hard, and where it bites (the full list, with lines and the
properties that watch over each, is `hazards` in `PROJECT.json`):

* **Goroutines.** Each connection has a handler, two pumps, one goroutine per incoming
  frame that refreshes Redis and one that handles the message; each gateway has
  `Hub.Run`, the heartbeat, `Stop` and one goroutine per RPC. `Close` may be called by
  four of them at once, `SendMessage` by any number.
* **Rendezvous.** `Register` and `Unregister` are unbuffered: `Close` cannot return before
  `Hub.Run` is ready, and after `Hub.Run` has returned it never does.
* **Locks.** `mu` is held across the Redis call of a registration but not of an
  unregistration; `sendMu` separates senders from the closing of `Send`.
* **Partial writes.** Fact and index are two keys. Calls fail, or time out after they were
  executed; `Refresh` reads and writes in two calls; TTLs lapse; gateways die.
* **Remote work.** A push trusts a route read earlier, on this gateway or on another one,
  whose answer may be late or lost.

* **One goroutine per message.** Answers overtake one another, two `HandleAuth` write the
  metadata of one connection field by field, and each check of the registry is three reads
  between which other replicas register and unregister.
* **Shutdown.** The Hub stops before the HTTP server does, so connections arrive while it
  stops, and Redis is closed while the last removal may be on its way.

What must hold: membership (one join, one leave, no zombie, no unseen client), mailbox (no
panic, FIFO, no waiting), presence (a live connection is routable; a gone one is
forgotten), push (truthful results, no double delivery, no live route destroyed), registry
(a method registered throughout a check is callable, a set keeps its TTL), dispatch (one
answer per message, its own; a refused authentication sets no device field), shutdown (it
ends, and takes the routes along), configuration (times that fit, an address that answers).

## 2. Modules

| Module | Models | Correspondence |
|---|---|---|
| `HubMembership` | abstract: what the Hub promises | `status` = absent/online/gone; `Join`, `Leave` change both maps and both counters at once |
| `HubLifecycle` | handler, pumps, `Close`, `Hub.Run`, heartbeat, `Stop` | program counters `handler`, `reader`, `writer`, `closing` (body of `closeOnce`), `hubPhase`, `sweepPc`; `connections`, `userConnections`, `active`, `total` are the Go fields. A send on an unbuffered channel is one joint action (`HubAcceptRegister`, `HubAcceptUnregister`). `ReadLocked`, and the phase `publish` for the write lock, stand for `mu` |
| `HubLifecycle_proofs` | proofs about it | |
| `Mailbox` | abstract: a closable bounded FIFO mailbox | `Accept`, `Deliver`, `Shut` |
| `SendQueue` | `SendMessage`, `Close`, `WritePump` of one connection | `RLock`, `CheckClosed`, `TrySend` are the three stages of `SendMessage`; `once` the stages of `Close`; `panic` records a send on, or a close of, a closed channel |
| `SendQueue_proofs` | proofs about it | |
| `Presence` | Redis routes of one gateway | each Redis call is one action with outcome ok, failed, or lost (executed, but the caller sees an error); `hubPc`, `refresh`, `pushPc` are the goroutines inside presence calls: pushes, `CheckUserOnline` (mode `count`) and `CleanupStale` (mode `sweep`); the Hub's maps appear as `HubMembership` |
| `Presence_proofs` | proofs about it | |
| `PushRouter` | pushes across gateways | `pc`, `todo`, `at`, `summary` are the loop of `RouteUser`; `rpc` is the `PushToConnection` goroutine of the owner, which lives on when the caller times out; `Reachable` is the set of gateways whose advertised address their RPC server answers |
| `PushRouter_proofs` | proofs about it | |
| `Delivery` | abstract: what a push promises its caller | `answer` and `count` are the `PushResult`, `got` who has the message; a success counts connections that took it, a quiet answer means that nobody has it or will get it |
| `PushDelivery_proofs` | the proof that `PushRouter` implements it | |
| `ServiceRegistry` | the set of one backend service | `methods` and `leased` are the Redis key and whether it has a TTL; `op` a `RegisterService` or `UnregisterService` between its Redis calls; `look` a check or a `GetService` between its reads (`exists`, `member`, `star`) |
| `ServiceRegistry_proofs` | lemmas about its actions | |
| `Dispatch` | the messages of one connection, on top of `ServiceRegistry` and `Mailbox` | `phase` is the handshake; `pc` the goroutine of each message; `keyAt` the field `HandleAuth` is at; `metadata` says whose message wrote a field; the replies go into `Box`, an instance of `Mailbox` |
| `Dispatch_proofs` | proofs about both | |
| `Settings` | configuration | `Load`, `Validate`, `LocalAddress`, `RouteTTL` are functions of records, as in the code |
| `Gateway` | the process: `HubLifecycle` and `Settings` together | `main` is `start.Start`; `listening`, `redisOpen` the server and the client; `routed` the facts in Redis, the keys of the connections; `refresh` how far the refreshes of a connection may be, `revived` the routes they have written back |
| `Gateway_proofs` | proofs about it | |

`HubLifecycle` implements `HubMembership` (checked and proved), `SendQueue` implements `Mailbox`,
`PushRouter` implements `Delivery` (each checked and proved). `Presence` and `PushRouter` are
built on the abstract statuses, `Dispatch` on the abstract mailbox, so what they show carries over
to the detailed Hub and queue. `Gateway` contains the detailed Hub, whose invariants are proved to
hold in it.

Some decisions of the abstraction:

* Connection ids are fresh uuids: a connection object joins at most once. The token binder never
  returns an empty user, so the branches for an empty user id are not modelled.
* `client` in `HubLifecycle` is what the clocks see: silent (heartbeat timeout passed) or lost (no
  frame will come). For a lost client the read deadline makes `ReadMessage` fail.
* In `Presence` one refresh goroutine per connection at a time, spawned while the Hub holds the
  connection: refreshes write the same values, and the race that matters is of a refresh with the
  Hub and with pushes. In the code a frame that is read between the Hub's removal and the closing
  of the socket spawns one more; it finds the fact, or not, as an earlier one would. `AddIndex` is
  SAdd and the Expire that follows it, whose error the code only logs.
* `CleanupStale` has no caller at this commit; `Presence` has it (mode `sweep`) because the store
  offers it.
* `RouteConnection` for an id outside the Hub is started in `Presence` for gone connections only:
  the id of a connection becomes known with its welcome message.
* In `PushRouter` a route is fact and index together, and `ListByUser` one step. `Presence` looks
  at the keys and at the reads of `ListByUser` one at a time; what it shows (`LiveIsRoutable`,
  `LiveNeverStale`) is what makes the coarser step right. `Join` writes the route in the same step
  because `mu` is held, and no lookup succeeds in between.
* `IsLocal` compares gateways, the code address strings: no two gateways advertise the same
  address. On machines without an address of their own all would advertise localhost.
* `ServiceRegistry` models one service: names of different services are different keys. A Redis
  set that loses its last member is no key, and SADD on a missing key makes one without a TTL.
  `held` and `seen` remember, per lookup, which names were there all along and whether one was
  there at all; they are read by properties only.
* In `Dispatch` a frame is its type, its method, the user it names and the metadata fields it
  carries. A token is its prefix and what follows. A backend returns the request id it was given
  or none (the code hands on any: `convert.go:43`), and only replies fill the mailbox. Two
  goroutines of `HandleAuth` interleave between any two fields, since every `SetMetadata` takes
  the lock on its own.
* Durations in `Settings` are whole seconds, as in the file. What comes from the environment is
  what `Load` returns when `ETCD_ENDPOINTS` is set: nothing is given a default there.
* In `Gateway` Redis answers until it is closed: its faults and the TTLs are the matter of
  `Presence`. A route is the fact alone, which decides whether a push finds the connection.
* Refreshes in `Gateway` are goroutines nobody waits for. A client sends any number of frames, so
  any number of them may be under way, and one that has read the fact may write it back at any
  later moment until Redis is closed. `refresh[c]` therefore only grows: it says how far *some*
  refresh may have got. What it writes when the route is not there is remembered in `revived`.
* A signal may come before the HTTP server listens, since `start.Start` waits a second and no
  longer. What `Server.Stop` does when `Start` has not even made the `http.Server` by then is not
  modelled.
* `interfaces` is what `net.InterfaceAddrs` returned, nothing for an error. The address that
  `start/start.go` computes for the RPC registry comes from a library and is not modelled.
* After `built`, the settings are not read again and are reset, which merges states that behave
  the same (`Forget`).
* Operators introduced by `Mutant:` are never used by a specification. Each is a plausible bug in
  one definition; replacing the definition by it must break the property named in `mutants` of
  `PROJECT.json`, which shows that the property has teeth.

## 3. Runs

`CHECK_DEADLOCK FALSE` stands in every configuration but one because the modelled programs
stop: all connections closed and the Hub exited, every sender done, every call answered. In
`dispatch` writers and queries come back for ever and deadlock is checked.

| Run | Instance | Shows |
|---|---|---|
| `hub_lifecycle` | 2 connections of one user, heartbeat and `Stop`; 455,000 states | `UnregisterFindsEntry`, `NoZombieEntry`, `PumpsAreRegistered`; refinement of `HubMembership` |
| `hub_stop` | a gateway from `Load` to its exit, 2 connections, heartbeat, refreshes and `Stop`, 7 durations, 3 hosts and ports, 2 interfaces, fairness; 221,000 states, about 140 s | `ShutdownEnds`, `StopSnapshotIsClosed`, `AtMostOneLeftover`, `TtlCoversSilence`, `FileAdvertisesListener` |
| `hub_cleanup` | 1 connection, heartbeat and `Stop`, fairness | `BeatSnapshotIsClosed`, `IdleIsEvicted`, `LostClientIsCleaned` |
| `hub_shutdown_leak` | the same | **violation** of `DisconnectedIsCleaned` (finding 1) |
| `send_queue` | 2 senders of 3 messages, buffer of 2, fairness; 37,000 states | `NoPanic`; refinement of `Mailbox`; `SendReturns`, `AcceptedIsWritten`, `CloseCompletes` |
| `presence` | 2 devices of a user, 1 push, query or sweep at a time, 1 fault; 632,000 states | `LiveIsRoutable`, `LiveNeverStale`, `OfflineMeansAway` |
| `presence_live` | 1 connection, 1 push, 2 faults, fairness; 7,700 states | `IndexHeals`, `GoneIsForgotten` |
| `presence_refresh` | 2 devices, no fault | **violation** of `RefreshCreatesNoRoute` (finding 2) |
| `push_router` | 1 caller, 3 connections: of its own gateway, of one that answers, of one that does not; 1 fault, fairness; 91,000 states | `NeverOverstated`, `AtMostOnce`, `QuietMeansAway`, `ReachesInTouch`, `CleanupSparesLive`, `CallEnds`; refinement of `Delivery` |
| `push_remote` | the addresses of the code, no fault | **violation** of `FaultFreeReachesAll` (finding 3) |
| `push_broadcast` | no fault | **violation** of `BroadcastReachesAll` (finding 4) |
| `dispatch` | 1 connection, 2 messages out of 8 kinds, 2 writers, 1 query, buffer of 1, 1 fault, fairness; 189,000 states, about 90 s | `UnleasedIsPending`, `AnswersAreCurrent`, `RefusedAuthLeavesDevice`, `OneAnswer`, `EveryMessageAnswered` |

Why the bounds are enough. Two connections of the same user are the least that tell the last
connection of a user from the others, let one register while another is swept, and let `Stop` wait
for one Close while a second is under way. A buffer of two with six sends fills, drains and is
closed in every order. `MaxFaults` bounds what may go wrong *together* in Redis or in the RPCs:
one fault next to every interleaving, two where one connection keeps the state space small. In
`push_router` the three gateways let one call mix success, stale and failure, let the loop go on
after a gateway nobody answers for, and let the handler of a timed-out call outlive it. `MaxSends`
bounds the calls of a sender. In `presence` a second push would only add states: what two of them
do to one another shows in `PushRouter`, where owner and caller both clean up.

`dispatch` takes the behaviours of `Spec` that satisfy `MCSpec`, two instances in one run.
Before the handshake, and after a refused one, both writers and the query interleave freely and
a fault may happen: this is where the registry's own properties are exercised. While the
connection is open, one writer works without a fault and the checks of the two messages are the lookups
(`NarrowWhenOpen`). Two messages are the least that can overtake one another or mix their
metadata; a buffer of one is full after the first answer. The theorems of section 5 are about
`Spec`, without this bound.

`hub_stop` takes the behaviours of `GSpec` that satisfy `MCSpec`. One connection does all that a
connection can do; the client of the other one gets in and only listens, so that only Stop closes
it; and the heartbeat sweeps only where no frame has been refreshed
(`BeatOrRefresh`). This still has what the properties need: two connections of the snapshot whose
routes are both left, one by the Hub and one by a refresh, and a Close of the heartbeat or of a
pump that Stop has to wait for. In `hub_stop` the durations lie on both sides of every threshold of
the code (0, the minimum of 60, negative ones), and hosts and ports include the empty ones, and the
machine has every subset of a dialable and a loopback interface.

Fairness. Goroutines that can run do run (weak fairness of each of their steps), reads end by
the read deadline and writes by `writeWait`. `HubAdd`, `HubRemove` and `LockSendMu` get strong
fairness: a pending `Lock` of Go's `RWMutex` keeps later readers out, so readers that come and
go cannot starve it. Clients owe nothing: they need not talk, leave, or answer. Nobody need
call `Stop`, `Close`, `SendMessage` or a push, and a write to a lost peer need not fail. In `Presence`
the key of a gone connection that nobody refreshes lapses in the end; refreshes of a live one
that lapse are faults. In `PushRouter` a call without an answer times out (`WithRPCTimeout`).
In `Dispatch` the goroutine of a message that was read goes on, its Redis reads and its backend
call return or time out (10 s); clients need not send, writers need not finish, and the write
pump need not write: `EveryMessageAnswered` allows for a full mailbox. `Gateway` takes the
fairness of the Hub goroutine by goroutine (`HubMoves`, `HubLocks`, `StopMoves`), which is the same
since each has one thing to do at a time or, in a select, leaves it with any step. It adds that
`start.Start` goes on after the signal; nobody need send it. Of the heartbeat it needs only
that it gives `mu` back.

`LiveIsRoutable` and `LiveNeverStale` speak of connections not *harmed*: no presence call of
theirs failed and no TTL of theirs lapsed while they were online. The code accepts the rest: a
live connection whose fact is lost stays unroutable until it reconnects.

## 4. Findings

1. `hub_shutdown_leak`: `frontier/README.md:383` says the server cleans up disconnected
   connections by itself. One that registers between `Stop`'s snapshot and the end of
   `Hub.Run` stays in the maps; its `Close` blocks for ever on `Unregister`.
2. `presence_refresh`: `gateway/lifecycle/presence.go:44` says a refresh never re-creates a
   missing route. `Refresh` reads, then writes unconditionally; an unregistration in between
   is undone. `GoneIsForgotten` shows that the TTL ends the effect.
3. `push_remote`: routes carry the WebSocket address, remote pushes dial it as RPC address, and
   the RPC server listens on 8956: without any fault a push misses the connections of other
   gateways. `push_router` has a gateway that answers all the same (a port mapping in front of
   it), so that the protocol behind it can be examined at all, and one that does not.
4. `push_broadcast`: `idl/backbon_service.proto:41` says to all connections; the code
   reaches those of one gateway.

## 5. Proofs

`tlapm` checks every proof below; they hold for any number of connections, users, senders and any
capacity, under the named assumptions in the modules. They are what the code or Go itself gives:
the connections are a finite set (`ConnsAssumption`), each with one user and one gateway
(`UserOfAssumption`, `HomeAssumption`, `ReachableAssumption`), a buffer holds something
(`CapacityAssumption`), placeholders are no values (`NamesAssumption`, `UsersAssumption`,
`NoIdAssumption`), inputs have their types (`ListsAssumption`, `FramesAssumption`,
`HandshakesAssumption`, `DurationsAssumption`), requests are not queries (`LookersAssumption`), no
interface has the wildcard for an address (`InterfacesAssumption`), bounds are numbers
(`MaxSendsAssumption`, `MaxFaultsAssumption`, `FaultsAssumption`), and which goroutines sweep
(`SweepersAssumption`: heartbeat and Stop at most; `StopAssumption`: a process has its Stop, while
the heartbeat may be there or not).

*Hub* (`TypeCorrect`, `UnregisterAlwaysFinds`, `NoZombies`, `PumpsRegistered`,
`HubImplementsMembership`). The invariants of the runs are not inductive: "the Hub finds the
connection it is asked to remove" depends on the history that led there. `HubInv` adds it: a
connection whose handler has not got past Register is unknown to everyone
(`UnknownIsUntouched`), pumps exist only after the handler (`PumpsFollowHandler`), what
`Hub.Run` works on in each phase (`HubWork`), a known connection is in the maps until its
Close has reached the Hub (`KnownIsHeld`), a sweeper is in the `Close` of a connection of its
own snapshot (`SweepWork`), and index and counter are functions of the set of
connections (`ViewsInv`, with lemmas on grouping and counting). The refinement maps
`HubAdd` to `Join`, `HubRemove` to `Leave`, and every other step to a stutter.

Three results say what follows for an observer. `NobodyReturns`: a connection out of the maps stays out.
`CountersAreTrue`: the figures of `/stats` and the index agree with the maps, and `total` is the
number of connections that ever joined (each step adds at most one to that set, and then to
`total`). `PumpsAlwaysLiveTogether`: no connection goes on with one pump only.

*Mailbox* (`QueueTypeCorrect`, `NeverPanics`, `QueueImplementsMailbox`, `SendersKeepTheirOrder`).
`QueueInv` says what the lock protects (`LockInv`): a writer excludes all senders, `closed` and
the closed channel follow the one body of `Close`, a sender past the check sees an open mailbox.
With what the pump holds (`HandInv`) and three lemmas on concatenation, the send of `TrySend` maps
to `Accept`, `PumpWrites` to `Deliver`, `SetClosed` to `Shut`. FIFO alone does not order what one
goroutine sends: `OrderInv` adds that in what was accepted (written, held and queued, in a row)
the numbers of each sender rise, and that a call under way has a number above all of them.

*Push router* (`RouterTypeCorrect`, `SendsAtMostOnce`, `ReportsAtMostAccepted`,
`CleansOnlyGone`). `RouterInv` has three parts per call. `OnceInv`: what is still to serve is
untouched, the connection at hand is not among it, and a handler that still runs has sent
nothing. `StaleInv`: who is looked for has joined, and who was found missing is gone, which
no later step undoes. `CountInv`: the successes are at most as many as the connections that
accepted and are neither to serve nor pending. Each step of a call either counts nothing and
takes nothing from that set (`Quiet`), or counts the pending connection, which enters the set
(`Credits`); every other call stands still (`Same`).

Two more theorems stand on `RouterInv`. `QuietIsTrue` adds `KeptInv`: whoever was live and
routable when the call began, and still is, is in its Hub; and until the call has counted a success
or a failure, each of them is still in hand (to serve, or pending). `FaultFreePushReachesInTouch`
adds `CleanInv`: as long as there was no fault, an error answer means the connection is gone, no
reply is lost, and each of them whose gateway answers or is the caller's own has accepted or is in
hand. It says how far a push of the code gets without a fault, whatever the addresses are.
`BroadcastReachesItsGateway` does the same for finding 4.

*Contract of a push* (`RouterImplementsDelivery`). A handler may outlive the call that started it,
so a connection may get the message after its caller has been answered. `EchoInv` says that
then the answer was not a quiet one: who has the message or may still get it is the connection the
call waits for, or the call has counted a success or a failure. With `RouterInv` and `KeptInv`
(`PushInv`), every action is a `HubsMove`, `Begin`, `Hand` or `Reply` of `Delivery`, or a stutter.

*Presence* (`PresenceTypeCorrect`, `LiveConnectionsRoutable`, `LiveConnectionsNotStale`,
`OfflineOnlyWhenAway`, `ForgottenForever`, `RoutesHaveWriters`). None is inductive alone;
`PresenceInv` joins them with what they rest on. Nobody knows an id the Hub has not registered
(`AbsentIsUnknown`); the Hub works on whom it has just joined or dropped, and a rollback is under
way only for the harmed (`HubWork`); until the fact is written nobody can come across the
connection (`FactComesFirst`), since the index comes second; then fact and index stay
(`RouteIsKept`), who is held for stale is not live (`StaleIsAway`), and a query still has to look
at, or has found, what was there at its begin (`SettledIsFound`). `RoutesHaveWriters` is what
remains of the promise that finding 2 refutes: a fact is written by the registration of a live
connection, or by a refresh that read it before. Hence `ForgottenForever`: once a gone connection
has no key and no refresh past its read, it never has one again. This is the safety half of
`GoneIsForgotten`; that the state comes is left to TLC.

*Registry and dispatch* (`DispatchTypeCorrect`, `RegistryKeepsItsTTL`, `AnswersCurrent`,
`RefusedAuthStopsInTime`, `OneAnswerEach`, `OnlyCheckedAreCalled`, `DispatchUsesMailbox`).
`ServiceRegistry_proofs` proves, action by action, that
types are kept and that a set without a TTL has a writer before its EXPIRE; an answer is
the last of three reads, and the history variables say what the first two can have seen.
`AuthInv` bounds where the goroutine of a foreign message stands: at `user_id` or before, where
no device field is; `NextField` never skips it (`ForeignStops`). `ReplyInv` counts: a message that
still has a goroutine has no answer in the mailbox, and the id it is about to send is its
own or none. `CheckInv` follows the check of a request: at the check and at the call the frame
is a request with a method, and at the call its own lookup has let it through, which other lookups and
the writers of the registry do not change. `DispatchUsesMailbox` shows that `Dispatch` changes
the mailbox by its interface only, so that the queue of `SendQueue` may stand in for it.

*Gateway* (`GatewayTypeCorrect`, `StopClosesAllItFound`, `HubRemovesAllStopFound`,
`OneLeftoverAtMost`, `TtlAlwaysCovers`, `AdvertisesItsListener`). The theorems are about `GSpec`, with
a heartbeat or without and any number of refreshes, not about the narrower behaviours of the run.
A step of the process is one of `HubLifecycle` or leaves the Hub alone, so `HubInv` holds in it.
`ExitInv` then follows Stop's snapshot: each connection of it is still to be closed, or its Close is
done, which it is only when the Hub has received it; and a route that no refresh has written back
belongs to a connection not yet handed over, or to the one Hub.Run is removing. When Stop has
returned only that one is left, and every connection of the snapshot is closed
(`StopClosesAllItFound`). With `StopComesFirst` (the Hub ends only after Stop has closed `stopChan`)
whatever is left in the maps then came after the snapshot (`HubRemovesAllStopFound`): this bounds
finding 1. How many routes refreshes write back is not bounded by anything in the code.
`SettingsInv` follows the configuration through its three phases; `LocalAddressDialable` is the choice
of the interface, the rest arithmetic and cases.

Model-checked only: all liveness properties (`ShutdownEnds`, `SendReturns`,
`IndexHeals`, `CallEnds`, `EveryMessageAnswered` and the others): fairness and ENABLED are out of
the prover's reach. Every invariant and every action property of the passing runs is proved.

## 6. Plan

The modules were planned in the order of what depends on what, the most important first:

1. `HubMembership`, `HubLifecycle`, its proofs: done.
2. `Mailbox`, `SendQueue`, its proofs: done.
3. `Presence`, `PushRouter`, the proofs of `PushRouter`: done.
4. `ServiceRegistry`, `Dispatch`, their proofs: done.
5. `Settings`, `Gateway`, their proofs: done. The proofs of `Presence`: done.
6. `Delivery` and the proof that `PushRouter` implements it: done.
7. Left: `PushRouter` on a store of separate fact and index for one connection, as a check of the
   coarser step; `PushData`'s loop over users, which may name a user twice; a second service in the
   registry.

Not modelled, and why:

* `Hub.SendToUser`: no caller. The message counters change nothing else.
* `MaxConnections`, `SendBufferSize` and `MaxMessageSize`: no code reads them.
* The cache of `GetRemoteClient`: a `sync.Map` in which `LoadOrStore` lets one of several equal
  clients win.
* The loop of `PushData`: one `RouteUser` after the other, with nothing between them, and a
  count of the results.
* The content of messages, their conversion between JSON and RPC, log output, the health and
  statistics pages: pure functions of what the models have, or reads of counters.
* The generated RPC code (`kitex_gen/`), the etcd resolver and tracing: libraries.
