# GoOne in TLA+

GoOne is a Go framework for distributed game servers: processes that exchange
packets over a message bus, a client gateway, and an application lifecycle that
starts, drains and stops each process. This directory models the parts of it whose
correctness depends on the order in which goroutines, packets, signals and timeouts
meet, checks them with TLC on small instances, and proves with TLAPS, for every instance, all
the invariants that the runs check, the refinement of `Executor`, and the safety half of
what else they show.

Contents: [the system](#1-the-system), [the models](#2-the-models),
[the runs](#3-the-runs), [disagreements with the documentation](#4-where-the-code-and-its-documentation-disagree),
[the proofs](#5-the-proofs), [what is left out](#6-not-modelled), [the plan](#7-plan).

To check a run: `tlc -config trans_safety.cfg MCTransactionMgr.tla`. To check the
proofs: `tlapm TransactionMgrProofs.tla`, and the same for the other `...Proofs` modules.

## 1. The system

    clients                                      other servers
      | TCP / WS / KCP                                 ^ |
      v                                                | v
    transports --> SessionHub, Admission --> router <--> bus driver
      ^               |                        ^ |
      |               v                        | v  ProcessSSPacket, on bus goroutines
      |         SessionTracker              TransactionMgr
      +-- downstream, kick, broadcast --------  | shards, one goroutine each
                                                v
                                          one goroutine per transaction --> handler
                                          (ssrpc dispatcher, game logic, role cache, DB)
    runtime.App: Start ... Ready ... Quiesce, Drain, Stop of all of these

| Component | State it keeps | Operations | What makes it correct |
|---|---|---|---|
| TransactionMgr (`lib/service/transaction`) | per shard: two channels, `transMap`, `keyInProcess`, `pendingPackets`, next id; global: active count, round robin, closing | `ProcessSSPacket`, the shard loop, calls and their responses, `Close` | one transaction at a time per serial key, FIFO per key, never more than `MaxTrans`, every request answered, responses routed to their transaction, Close drains |
| SessionHub and transports (`lib/net`, `src/connsvr`) | uid/connection/address maps, kick marks, connection tables, write channels | OnConn, packets, bind and rebind, kick, send, broadcast, OnClose, Quiesce/Stop | a late close never unbinds its successor, a replaced or kicked connection goes away, nothing is left after Stop |
| AdmissionController | reserved slots, rate limiters, in-flight counters | acquire and release, off/shadow/enforce | never over the limit, never leaking a slot |
| SessionTracker | two atomic counters, a condition | inc, dec (clamped), wait for zero | counts what exists, so that Drain ends when and only when the sessions have |
| App lifecycle (`lib/service/runtime`) | state, transition lock, signal channels, components | Run, Allocate, signals, reload, runtime errors | Ready only between Start and Drain, no way back, reverse Stop, every stop request heard |
| bussvc components | order of registration | Start/Quiesce/Drain/Stop adapters | router quiesced before transactions drain, bus closed after |
| Router (`lib/service/router`) | the bus, the callback, shutting down | start, send by rule, receive, BeginShutdown, Close | a failed start leaves nothing behind, no message meets a callback that is gone |
| Service discovery (`svrinstmgr`, `contrib/registry/zookeeper`) | instance table, hash rings, one watch, a snapshot and an event on their way | register, watch, refresh, close | the table follows the registry, no goroutine after Close |
| Bus drivers (`lib/service/bus`) | connection, channel, reconnect loop | connect, send, receive, reconnect, close | one connection, recovers after any loss, Close ends and leaves nothing open |
| ssrpc | immutable method table, middleware, uid lock, in-flight counters | dispatch, client calls, admission | a method has one handler, errors become codes, slots are given back |
| Async (`lib/service/async`), scheduler | lock-free queue, wake-up channel, states | push, drain, stop; trigger, skip, stop | nothing accepted is lost, no wake-up is missed |
| Role manager (`mainsvr`) | roles in memory with dirty masks and pending messages, their hashes in Redis | load, create, handlers, sync, incremental and full save, expiry, logout, final flush | what is not marked is saved, the client follows, expired roles go |
| Room center (`roomcentersvr`) | per zone and stage a table of rooms, a dirty mark, a snapshot in Redis | QuickStart, rollback, reports, tick, save, final flush | no room overfilled, seats counted once, nothing unmarked lost |
| Timer wheel (`lib/util/timer`) | layers of slots, pointers, two channels | add, remove, tick with cascades | a timer runs in the tick after its expiration |

What is hard here, and what the models are for:

* **Concurrency**: bus goroutines, shards, transactions and `Close`; reader, writer, bus
  and shutdown goroutines around one hub; a startup supervisor, a waiter, a signal
  dispatcher and `Run`; producers and the worker of a lock-free queue; a watch, its
  resolver and its reader.
* **Gaps between an atomic part and what belongs to it**: the closing check and the
  channel send, the hub's lock and the session count, the signal and its cancel.
* **Failure and loss**: lost, late and stale responses, full channels that time out,
  deadlines that pass while a request waits, components and observers that fail; saves that
  stop half way, messages to clients that are lost, connections that break while they are
  set up; crashes and restarts over what Redis holds.
* **Ordering**: per-key FIFO through a channel and a queue, a late OnClose after a rebind,
  an observer that decides before a drain and returns after it.

`PROJECT.json` lists the components and, under `hazards`, each such place with the
properties that cover it, or why none does.

## 2. The models

`Executor` is the abstract specification that `TransactionMgr` implements; `RoomCenter`,
`Role` and `Gateway` take from it that the handlers of one key run one at a time, where
their code does (the room center does not). The other modules are the parts a server is
built of, each with the environment it meets: RabbitMQ, ZooKeeper, Redis, the clients.

All modules follow one convention: a step is what one goroutine does between two points
where another one can observe or disturb it - a channel operation, an atomic counter, a
lock that is let go. Data that no property tells apart (bodies, commands, zones,
timestamps, error texts) is left out.

Next to a definition some modules hold a **faulty variant** with a longer name, marked
`mutant` in a comment: the form that definition would have after a plausible mistake in the
code. No action uses them; `PROJECT.json` pairs each with the property that must fail when
the variant takes its definition's place, which shows that the property depends on that
line.

### TransactionMgr

| Model | Code |
|---|---|
| `Submit`, `Enqueue`, `EnqueueTimeout` | `ProcessSSPacket` for a request: closing check and `selectShard`; the channel send; the drop after three seconds |
| `ResponseArrives`, `ResponseLost` | `ProcessSSPacket` for a response; `ResponseLost` is also the bus losing it |
| `TakePacket` ... `StopShard` | one round of `transactionShard.run` (and `drainOne`, which only polls the same channels) |
| `StartTransaction`, `QueueRequest`, `RejectRequest` | `processSSPacket` for a request; guards in the code's order (deadline, key in process, handler, slot) |
| `DispatchResponse`, `DropResponse` | `processSSPacket` for a response |
| `FinishTransaction` | `processTransactionRet`; the pending request it takes goes to `inHand`, where the actions above handle it |
| `Call`, `CallFails`, `WaitRsp`, `WaitTimeout`, `HandlerReturns` | a transaction's goroutine |
| `CloseBegins`, `CloseSignals`, `CloseEnds`, `CloseTimesOut` | `Close`, which may be called again after a timeout |

`transMap` is one function over ids; each transaction names its shard, and the shard's own
map is the part that it owns (`Owns`). `FinishTransaction` lets the slot go before the next
request of the key competes for one, as the code does: another shard may take it in
between. `arrived` is a history variable: the order in which requests of a key entered
their channel. `status` is one too: where a request is, or how it was answered.

### Executor

What a server may rely on when it hands its requests to the manager: requests of one key
form a line, are served one at a time in the order of the line, and at most `Capacity` are
served at once. `ImplementsExecutor` maps `status` to the Executor's `state` (`StateOf`) and
`arrived` to its `line`; which channel, queue or hand a waiting request is in is invisible,
so most steps of the manager are stutters.

### Gateway

Three transports share one hub. `Transport[c]` says whose table a connection is in;
`Writable(t, c)` is false for another transport's server, which is what cross-transport
sends, kicks and broadcasts meet. OnConn is three steps (`Accept`, `MarkAdmitted`,
`IncConnection`), OnClose six (`TakeLease`, `DecConnection`, `ReleaseConnection`,
`RemoveConn`, `DecSession`, `DestroyConn`), binding two (`BindClient` under the lock, then
`IncSession` or `KickReplaced`). A packet may be handled after its socket was shut
(`ClientPacket` asks for the lease, not for an open socket): the reader goes through what it
has read before it notices. `Slow` is the set of connections whose write channel may be
full for the three seconds that `sendToWriteChan` waits. A connection marks its place in
OnConn, its handler and OnClose with `pc`; its socket is `link`.

`gatewayComponent` is `Quiesce`, `QuiesceListener` (per transport), `WaitSessions` or
`DrainExpires`, `StopTransport` (per transport).

### Lifecycle

`runPc` is the position of `Run`. A transition to Ready or Allocated holds the lock while
observers run and commits afterwards (`EnterReady`/`ReadyObserved`,
`AllocateLocks`/`AllocateObserved`); a transition to a shutdown state commits first
(`Shutdown`/`Observed`). The signal path is `Signal` (into `raw`, capacity one), `Dispatch`
(the first one to `termCh`, later ones close `secondCh`), then either `SuperviseStartup`,
in two steps (receive, then `signalCancel`), or `AwaitRunReason`.

### RoomCenter

One zone. `rooms` is stage -> room -> number of players; `dirty` the stages with `isChange`
set; `snapshot` what Redis holds. A step is one critical section of the manager's lock. The class
comment (`texas_room/base.go:19-28`) asks the lock alone to be enough, so the serial key of
the zone is not relied upon and requests of several tickets overlap.

| Model | Code |
|---|---|
| `QuickStartPick`, `QuickStartCreate`, `QuickStartRegister` | the two phases of `QuickStart`; between the last two the lock is free and the room's base is on its way to gamesvr |
| `QuickStartRollback`, `RollbackLost` | the one-way message of `OnMainQuickStart`, executed or lost |
| `UpdateRoomInfo`, `DelRoomInfo` | gamesvr's reports, early or late; the number is stored as it comes, also above `MaxPlayer` (`base.go:93`; `base_test.go:77` reports 10 for 9 seats) |
| `CheckAndCreateRooms`, `CreateRoomOf` | the tick under the lock, and the rooms that it then creates outside it |
| `GetTexasObj` | creation of a stage's table with `restoreStageLocked`, also when Redis cannot be read |
| `SaveBegins`, `WriteSnapshot`, `WriteFails`, `MarkSaved`, `SaveEnds` | `SaveRoomDataToDB` and `FlushAllRoomsToDB`, which hold the read lock throughout |
| `Drained`, `DrainTimesOut`, `Stop`, `Crash`, `Restart` | the process; the TransactionMgr drains before `room_flush` |
| `Ask`, `Answered`, `AskTimesOut`, `Joined`, `JoinFails` | the loop of `OnMainQuickStart` in mainsvr, three tries |

A ticket is a player and a try. `reports` is a history variable, what gamesvr has reported:
`NoOverfill` allows a room more players than it has seats only if gamesvr itself has named as
many (`Attested`). The numbers it may report are the constant `Reported`, any set of natural
numbers. `foreign` marks rooms whose number was set by a report or a
snapshot: it then says what gamesvr said, not what the tickets hold. A grant of a room that
was listed and is full (`base.go:180-188` returns OK without a seat) needs such a report.
Room ids are taken to be unique. The persistence task and the final flush never write at
the same time in the model; both are readers and would write the same tables.

### Role

One uid. A *cell* is what one mutation changes: an entry of a section that can be patched
(inventory, mall, icons), or the whole of another section. `mask` is `persistDirtyMask`,
`full` and `patch` the two sync masks, `upserts` and `deletes` the id sets behind the patch.

| Model | Code |
|---|---|
| `FindRole`, `LoadRole`, `CreateRole` | `obtainRole`, `loadRoleHash`, `NewRole` with its first save |
| `ChangeEntry`, `ChangeSection`, `DailyRefresh`, `NewTimes`, `GmSetRole` | what handlers change and the marks they leave (`MarkInventoryDirty`, `TouchBasicInfo`, ...) |
| `FlushClientSync` | `prepareSyncPayload`, the message, `clearSyncedState`; with or without patches, sent or not |
| `Persist`, `PersistLater` | `MaybeFlushPersist`, with its debounce, and `saveRoleHash`: one HSET per section, which may stop at an error |
| `HeartbeatLapses`, `PostLogout`, `LogoutOfTick`, `LogoutTooLate`, `LogoutOfClient` | `removeExpiredRoles`, its message to the own server, `Logout` |
| `Drained`, `FlushAllToDB`, `Stop`, `Crash`, `Restart` | the process |

Handlers of the uid run alone (`pc` is one handler's place): that is `Executor`'s promise,
which the proof `KeySerial` and the run `trans_drain` support. `unmarked` is a history
variable: sections that were changed with no mark. The code has three such changes, all kept as they
are: the times of login and heartbeat; `GmSetRole`, whose forced save with a mask that is
not empty writes the marked sections only; and the starter items of a new role whose first
save fails. If that first save loses the `register` section, the next `loadRole` panics
(`role_mgr.go:99`), which the guard of `LoadRole` stands for.

### AsyncWorker

Two producers and the worker on the lock-free queue, at the grain of its atomic operations:
`LoadStatus`, `LoadCount`, `SwapTail`, `LinkNode`, `AddCount`, `Notify` are the six steps of
`PushE`; `TakeToken`, `TakeExit`, `Pop` and `RunTask` those of `run`. The capacity check and
the push are apart, so the capacity may be exceeded, and `count` may be -1 for a moment, as in
the code. `Drain` only waits until the count is zero and changes nothing. A worker is started once:
`Start` (`async.go:110`) would also take a worker that is stopped or about to stop, but `component.go:39`
is its one caller outside the tests and calls it before any `Stop`.

### TimeWheel

`Schedule`, `RemoveByKey` and `Advance` are the three cases of `run`'s select. A tick
advances every pointer that moves, runs the slots it passed, and takes the timers of the
higher layers down (`CascadeDown`). A removal that finds
nothing leaves a mark (`cancelled`) that drops the next timer of its key, as in the code. `AddTimer`
reads `elapsed` from the caller's goroutine without synchronisation (`timewheel.go:205`); the
model gives it the value of that moment.

### Discovery

From a change under the ZooKeeper node to the instance table: the one-shot `watch`, the
resolver (`Check`, `Arm`, `List`, `Get`, `Store`, `Notify`, `WatchFires`), the watcher's channel
of one (`event`), `runWatch` and `refreshServices`, and `Close` (`CloseBegins` under `closeMu`,
`CloseEnds` after the join). The names come from one request and each server's data from
another, so a server may go in between; either request may also fail for no reason that the
model knows (`ReadFails`). In both cases resolve broadcasts nothing and waits for the watch that
it has armed (`"stale"`): the table stays behind until the next change, as in
`register.go:205-217`.

### Routing

`GetSvrInsBySvrType` over the table that Discovery keeps: `RefreshServices` replaces the
sorted list of a server type and its ring, under the write lock; the rules are random, modulo,
consistent hash (with the binary search of `search`) and master. The CRC32 values are
constants. `Ring` and `Ascending` are sets of sorted sequences: `sort.Slice` is not stable, so points with one hash may come in either order after
each refresh; that is the one way in which a key can move between two instances that both stay
(`Collide`), and without that clause the run finds it.

### Bus

The RabbitMQ driver under its Router. `cur` is the connection in the driver's fields,
`held` one that only the goroutine knows (an old one that it closes, a new one that it is
setting up), `open` and `consuming` what exists at RabbitMQ's end. `Run` is `run`,
`consume` and `reconnect`; `life` is the Router, from `InitAndRunWithBusCtor` to the end of
`Close`. A connection and its channel break separately.

### Inflight

`TryAcquireInflight` and `ReleaseInflight` around a handler: two counters, taken and given
back one after the other, each compare-and-swap loop one step. `mode` is enforce or shadow.
Under shadow a call that is over a limit runs without a slot (`"unslotted"`) and releases one
all the same: `InflightCounted` is for enforce, and `CountsStayCorrect`, what the comments say of every
mode, is refuted (section 4).

### MC modules

`MCTransactionMgr`, `MCGateway`, `MCLifecycle` and `MCRoomCenter` only define values for
constants. `MCServices` puts the seven parts that share no state - `Role`, `AsyncWorker`,
`TimeWheel`, `Discovery`, `Bus`, `Inflight`, `Routing` - beside each other: a behaviour chooses one
of them in its first state and leaves the others as they are. Nothing is
lost by that: as the parts have no variable in common, a property of one holds in their
product if and only if it holds in the part by itself.

## 3. The runs

| Run | Instance | Result | Shows |
|---|---|---|---|
| `trans_safety` | 4 requests, 2 shards, `MaxTrans` 2, 1 pending per key, up to 2 calls, Close | 1.5 M states | `TypeOK`, `OneTransactionPerKey`, `SlotsMatchTransactions`, `ResponseFindsTransaction`, `ClosedMeansDrained`, `ExecutedAtMostOnce` |
| `trans_drain` | 4 requests of one key, 1 shard, 2 pending, fairness | 24 k states | `QueuedIsAnswered`, `CloseDrains`, `ImplementsExecutor` |
| `trans_close` | 3 requests of one key, one with a deadline | refuted | `CloseDrains` fails (section 4) |
| `gateway` | 3 WS connections, 1 uid, 2 slots, enforce, symmetry | 2.1 M states | `TypeOK`, `BindingsAreLive`, `LostUidIsLeaving`, `SessionsNotUndercounted`, `LeasesCounted` |
| `gateway_live` | 2 WS connections, one slow, fairness | 84 k states | `ReplacedIsClosed`, `KickCloses`, `StopReleasesAll` |
| `gateway_sessions` | 2 TCP, 1 WS, 2 uids, no admission | refuted | `SessionsExact` fails |
| `gateway_downstream` | the same, with downstream packets | refuted | `DownstreamSparesHealthy` fails |
| `lifecycle` | 2 components, 1 Allocate, 2 signals, 1 reload, fairness | 93 k states | `TypeOK`, `ReadyMeansStarted`, `StopInReverse`, `ReturnedMeansEnded`, `NeverBack`, `InterruptedStartFails`, `StopRequestEndsRun` |
| `lifecycle_sigterm` | the same without Allocate | refuted | `SignalEndsRun` fails |
| `rooms` | 1 stage, 2 rooms of 1 seat, 1 player with 2 tries, 1 report of up to 2 players, 1 restart, 1 room that expires | 3.5 M states | `NoOverfill`, `SeatsAreHeld`, `CleanIsSaved`, `DrainedIsSaved` |
| `services` | the seven parts, each by itself, fairness | 132 k states | `ServicesTypeOK`; role: `SavedUnlessDirty`, `SyncedUnlessPending`, `FlushedIsSaved`, `ExpiredIsDropped`; others: `AcceptedIsRun`, `FiresOnTime`, `DiscoveryLive`, `BusSound`, `BusLive`, `InflightCounted`, `KeysStay` |
| `services_shadow` | the same instance | refuted | `CountsStayCorrect` fails |

**Bounds.** In `trans_safety`, `r1` and `r2` share a key, once through RouterID and once
through Uid, `r3` has a key on the other shard and `r4` has none and a deadline. Two slots
for four requests make the shards compete, one pending place makes the queue overflow, two
calls of one transaction let a late response meet the next call. In `trans_drain` four
requests on one key are one running, two waiting and one over the limit; the channel holds
three. `IdSpace` is above what the requests can use up, so it never stops a transaction.
Three connections on one uid in `gateway` are the least in which a replaced connection's late close meets
both its successor and the successor's successor; two slots for three connections reach the
limit. Two components show order; two signals show the escalation. `MaxSignals`,
`MaxReloads`, `MaxCalls` and `IdSpace` are the bounds in guards; on the bus side one of
sending, kicking and broadcasting is under way at a time (`BusIdle`).

In `rooms` a player whose call times out has two requests under way at once, which is all
the overlap two requests of different players would add, since nothing but the ticket
tells requests apart; one seat per room makes a second grant an overfill; two room ids let a
full room lead to a new one; `Reported` has a number above, at and below the one seat. `MaxReports` and `MaxRestarts` bound the environment; larger
values repeat what one report or one restart has made possible. In `services`: the role has one section that can be patched and one that
cannot, two values for each cell, and no bound on time or on the number of requests; two
tasks against a capacity of one, so that the check and the push can disagree; a wheel of
three layers with two slots, delays up to beyond its capacity of eight, and three full turns
(`MaxElapsed`); one other server with three changes, so that a change can fall
into each of the two reads and one more behind it; two connections, three breaks; four calls,
two of them of a method with a limit of one, under a global limit of two; three instances with
two points each, of which two collide, and nine keys that fall between, on and after all points.

**Symmetry.** `gateway` checks only invariants and its connections are interchangeable (same
transport, same logins), so connections are permuted. No liveness run uses symmetry.

**Deadlock** is not checked: each of these systems may come to rest (all requests answered,
the server stopped, `Run` returned).

**Conditions on what is checked.** `trans_drain` leaves out deadlines, unknown commands and
slots that run out, the three reasons for which a request taken from `pendingPackets` may be
rejected; `trans_close` shows that the same property fails with one of them. `ImplementsExecutor` is under the same condition.
`BindingsAreLive` and `LostUidIsLeaving` are for clients that stay with one uid: a
connection that moves to a second one leaves the first bound, in the model as in the code.
`LostUidIsLeaving` is moreover for uids that stay on one transport and writers that keep up:
a transport that replaces another's connection does not know it and cannot close it.
`ReplacedIsClosed` and `KickCloses` are for connections outside `Slow` and, as `gateway_live`
has one transport, within a transport. `StopRequestEndsRun` asks that the supervisor has
exited before the signal is in `termCh`; the other case is `lifecycle_sigterm`. `SeatsAreHeld` speaks of rooms that no report and no snapshot has
touched. `SavedUnlessDirty` leaves out `unmarked` sections, `SyncedUnlessPending` clients
that have not logged in since the role was loaded: after a reload `BusId` is 0 and nothing is
sent. `AcceptedIsRun` promises nothing to a push that is half done when `Stop` begins, nor to
tasks behind it: until its node is linked the worker's last drain ends before them.
`DiscoveryLive` excepts the state in which resolve waits after a failed read with its watch armed
(`ReadMissed`): the code does not repeat the read, so there the table is stale until the next
change. `InflightCounted` is for enforce. `NoOverfill` lets a room have as many players as gamesvr
has reported of it.

**Fairness.** A goroutine that can go on does: weak fairness of each shard, of an admitted
packet's send or timeout, of each transaction's `WaitTimeout \/ HandlerReturns` (a timer
fires; handlers are assumed to return), of a connection's OnConn, handler and writer steps, of `Run`,
the supervisor, the waiter and the dispatcher. The Go scheduler gives that. For components
it means that Start, Quiesce, Drain and Stop return, as their contexts ask of them
(docs/STYLE.md, 11.1). Strong fairness is assumed
of a connection's OnClose: the reader of a socket that is shut may handle packets first, but comes to
the end of what it had read, which is finite. Nothing is assumed of the environment: no request has to come, no
response to arrive, no client to leave, nobody to call Close or send a signal. A shard's
`select` is not assumed to be fair between its two channels. In `services`: a handler that has
begun ends; the tick posts logouts, and such a message is not dropped every time; a goroutine that has
begun to push goes on, and tasks end; `ChildrenW`, which `resolve` repeats until it succeeds, succeeds in
the end while the connection is open, but of the two reads after it, which are tried once, nothing is
assumed; the driver's select does not overlook its closed channel or its stop for
ever, and RabbitMQ takes the server back in the end. Nothing is assumed of servers coming
and going, of breaks, or of anybody calling Stop or Close.

## 4. Where the code and its documentation disagree

Each is a run with the outcome `violation`; `PROJECT.json` quotes the sentence and the line.

* **Stranded requests** (`trans_close`). `processTransactionRet` removes the key from
  `keyInProcess`, takes one request and calls `processSSPacket`. If that rejects it - its deadline
  has passed while it waited, or no slot is free - the rest of the queue has nothing in
  process to wait for. It stays until another request of the key completes, and `canStop` is
  false until then: Close ends with a timeout.
* **Phantom session** (`gateway_sessions`). `BindClient` unlocks, then counts. A rebind by
  another connection and that one's OnClose fit in between; the decrement is clamped at
  zero and the late increment stays. Drain waits for a session that does not exist.
* **Downstream closes a healthy connection** (`gateway_downstream`). `SendByUid` of TCP
  looks the client up in the shared hub, cannot write to a WS or KCP connection and closes it.
* **Counts under shadow** (`services_shadow`). A call that finds its method full is let in under shadow
  without a slot, and its `ReleaseInflight` counts down all the same. It gives back the slot of
  another call, which is then in its handler while the counters read zero; the comments say that the
  counts stay correct under shadow so that they can be compared with those of enforce.
* **Lost SIGTERM** (`lifecycle_sigterm`). The supervisor has received the signal but not yet
  cancelled when `Run` passes its cause check. `Run` becomes Ready and nothing stops it: the
  next signal only counts as an escalation.

One more is in the model and is seen by reading one call: `QuickStart` calls
`createRoomFn(GameId, CoinType, Stage)` (`texas_room/base.go:167`), whose parameters are
`(gameId, stage, coinType)`. The new room has the wrong stage, is listed in the table of the stage that
was asked for, and gamesvr's later reports about it go to another table, or to another zone.
`QuickStartCreate` does what the code does, and the properties of the rooms hold in spite of it.

## 5. The proofs

`TransactionMgrProofs` proves, from `RequestsAssumption` (finite set of requests, header
fields are natural numbers) and `ConfigAssumption` (what `normalizeConfig` guarantees):

| Theorem | Statement |
|---|---|
| `TypeCorrect` | `Spec => []TypeOK` |
| `KeySerial` | `Spec => []OneTransactionPerKey` |
| `SlotsCorrect` | `Spec => []SlotsMatchTransactions` |
| `AtMostOnce` | `Spec => ExecutedAtMostOnce` (an action property) |
| `ResponseRouting` | `Spec => []ResponseFindsTransaction` |
| `Invariance` | `Spec => []IInv` |

**The inductive invariant.** None of these is inductive alone. `OneTransactionPerKey` is
broken from a state in which the channels of two shards hold requests of one key, so
`ChanInv`, `HandInv`, `PendInv` and `TargetInv` say that a request is in one place, on the
shard that `selectShard` gives its key, and `TransInv` that a live transaction's key is in
its shard's `keyInProcess`. A finishing transaction then takes only its own key out,
for which `OneTransactionPerKey` itself is needed. `OwnRequest` and the uniqueness clauses
keep a request from being started twice. `ResponseFindsTransaction` and the freshness of
ids need `IdInv`: `ResponseShard(id)` is the shard that handed the id out, because ids of a
shard advance by `ShardCount`; that is the arithmetic lemma `ModAddDivisor`. Counting slots needs
`RetInv`: an id in `chanTransRet` is that of a live, returned transaction, and is there once,
so that each release meets one acquisition.

**Layout.** Effects first: what each action does to `transMap` (`TransMapSteps`,
`TransactionStepEffect`, `StartEffect`, `FinishEffect`, `DispatchEffect`). Then one
preservation lemma per part (`NextTypeOK`, `NextIdInv`, `NextRetInv`, `NextPlaceInv`,
`NextSlotInv`); `PlaceInv`, the part about where requests are, has one lemma per action, and
frame lemmas for what an action leaves alone. `AtMostOnce` follows from `IInv` by what each
step may do to a settled status (`NextSettles`).

### RoomCenter

`RoomCenterProofs` proves, from `RoomCenterAssumption` (ids and sizes are natural numbers, the
players are finitely many):

| Theorem | Statement |
|---|---|
| `TypeCorrect` | `Spec => []TypeOK` |
| `SeatsSuffice` | `Spec => []NoOverfill` |
| `CleanTablesSaved` | `Spec => []CleanIsSaved` |
| `FlushSavesAll` | `Spec => []DrainedIsSaved` |
| `SeatsCounted` | `Spec => []SeatsAreHeld` |

`NoOverfill` needs the same of the snapshots in Redis, as a restart brings them back, so its
invariant (`OverInvariance`) speaks of both. Reports may carry any number; what they have said
they have said for good (`ReportsGrow`), and no step of a ticket leads above it (`AttestedLess`,
`SeatStep`). `CleanIsSaved` and `DrainedIsSaved` are proved together
(`StoreInvariance`): while a saver is at work no table changes because writers wait for
the lock, so the stage it has just written equals its table until `MarkSaved`; what
a flush has taken from its list was saved or is in `failed`; and once the process has
drained without a timeout no handler, tick or report is left to change anything.

`SeatsAreHeld` says that the number of a room that nobody else has set is the number of
tickets that hold a seat in it. A grant and a rollback each move one ticket and one seat, so
counting (`CountInv`) is the easy part; it needs to be known that nothing else moves a seat. A
room may be granted to the ticket that creates it before the room is in the table:
`FreshInv` says that this room belongs to one ticket, and that it is either listed by a
report (and then `foreign`) or absent with no holder, so that `QuickStartRegister` counts its
first seat once. A new room must not take an id that a table, a snapshot or a seated ticket
still knows (`KnownInv`): a restart would bring the old number back.

### Role

`RoleProofs` proves, from `RoleAssumption`, for any cells, sections and values:

| Theorem | Statement |
|---|---|
| `RoleInvariance` | `FairSpec => []IInv` |
| `DirtyMaskSuffices` | `FairSpec => []SavedUnlessDirty` |
| `ClientFollows` | `FairSpec => []SyncedUnlessPending` |
| `FlushSavesRole` | `FairSpec => []FlushedIsSaved` |

`IInv` adds to the three properties the types, that no handler runs outside the phase in
which the manager accepts (`PhaseInv`), and that an id is marked as changed or as deleted by
whether it exists (`SortedIds`): without that, a patch with a stale delete would remove from the client
an entry that had come back, which is what the mutant `MarkIdsBoth` does.

### Lifecycle

`LifecycleProofs` proves, from `LifecycleAssumption`, for any number of components and of
callers of `Allocate`:

| Theorem | Statement |
|---|---|
| `TypeCorrect` | `Spec => []TypeOK` |
| `ReadyStarted` | `Spec => []ReadyMeansStarted` |
| `StopsInReverse` | `Spec => []StopInReverse` |
| `ReturnEnded` | `Spec => []ReturnedMeansEnded` |
| `NoWayBack` | `Spec => NeverBack` |

The invariant says what each position of `Run` implies. While `Run` walks over the components,
those up to `next` are in one state and those after it in another: `StartupPart` (and the
rollback of a failed start), `ServePart`, and `StopPart` for the three passes of the shutdown.
`MutexPart` says who holds `transitionMu` and that the state does not leave Ready while an
observer of `Allocate` runs, which is the whole of `NoWayBack`: without the lock the commit after the
observers would bring Allocated back over Draining.

### Gateway

`GatewayProofs` proves, from `GatewayAssumption`, for any set of connections, uids and
transports:

| Theorem | Statement |
|---|---|
| `TypeCorrect` | `Spec => []TypeOK` |
| `PlacesHold` | `Spec => []PlaceInv` |
| `LeasesAreCounted` | `Spec => []LeasesCounted` |
| `SessionsSuffice` | `Spec => []SessionsNotUndercounted` |
| `BindingsLive` | `ASSUME OneUidEach PROVE Spec => []BindingsAreLive` |
| `LostLeaves` | `ASSUME OneUidEach, OneTransportEach PROVE Spec => []LostUidIsLeaving` |

`PlaceInv` ties the position of a reader (`pc`) to its socket, its entry in the connection table,
its lease and its bindings. The two counting theorems follow step by step: a step moves at
most one connection into or out of the counted positions (`CountInv`; for connections, from
`IncConnection` to `DecConnection`, for slots, from `Accept` to `ReleaseConnection`), and the clamp of
`DecSession` can only leave the count too high. The last two hold for fewer
clients than the code admits, and the assumptions say which: `OneUidEach` because `BindClient` does not unbind a connection's
former uid, `OneTransportEach` because `UpdateClientByUid` closes only what its own
transport knows (`hazards`, `tcp_impl.go:209`).

### Executor, and Close of the transaction manager

`ExecutorProofs` extends the invariant of `TransactionMgrProofs`:

| Theorem | Statement |
|---|---|
| `CloseLeavesNothing` | `Spec => []ClosedMeansDrained` |
| `ImplementsUntilStranded` | `Spec /\ []NeverStranded => Exec!Spec` |
| `StrandedByRejection` | `NeverStranded` ends only in a step that rejects a request which a finishing transaction has taken from its key's queue |
| `OrderlyIsNeverStranded` | `ASSUME Orderly PROVE Spec => []NeverStranded` |
| `ImplementsTheExecutor` | `ASSUME Orderly PROVE Spec => ImplementsExecutor` |

`IInv` says of each place which requests may be in it; for Close the converse is needed
(`WhereInv`): a request whose status is in hand, pending or started is in some hand, queue
or transaction. With `DownInv`, that nothing is left in a shard that has returned, nothing
is left anywhere once all have.

The refinement needs to know where the requests of a key stand. `Order` says it for one shard and key:
those in the channel entered it in the order of `arrived`; those in `pendingPackets` are in that order and
before those in the channel; the request in hand is between the two while a
transaction of its key runs, and before both when none does. Then a request
that starts is the first of its line that waits (`StartsFirst`), and as no other of its key
runs and a slot is free, the step is one of the Executor (`StepImplements`). The other steps change no
`StateOf`, or append to the line as the Executor does.

`Order` is lost when a request taken from the queue is rejected and others of its key stay behind: later
ones overtake them. That is the finding of `trans_close`, and the theorems say how far it
goes: until then the refinement holds, whatever the configuration, and nothing but such a
rejection ends it. `Orderly` rules it out: requests with a key have a handler and no
deadline, and there is one shard (which gives back the slot it then needs) or as many slots
as requests. With two shards and fewer slots the other shard may take the slot between the
two halves of `FinishTransaction`, so the condition is not stronger than the code asks for.

### Timing wheel

`TimeWheelProofs` proves `NoTimerIsLate` (`Spec => [](TypeOK /\ FiresOnTime)`) from `Sizes`, for any
number of slots, layers and timers. The invariant `OnTimeInv` says that there is an odometer: `E[i]` is the number
of moves of layer i's pointer since the start, and the pointer is its last digit in base
`SlotNum` (`Clock`); and that a timer in a slot of layer i has `InTime`: a move `q` that is to come
brings the pointer to the slot, at tick `q * PerSlot[i]`, which is not after the timer is due; in the
lowest layer the slot is that of the due tick itself. `Schedule` puts a timer where this holds, wherever the
pointers are (`PlaceInTime`); a tick moves the odometer (`NextClock`); a timer that the pointer of a
higher layer meets is not overdue yet and falls into a lower layer, where it is in time again, possibly
at once (`FallInTime`, `CascadeInTime`). `PerSlot` is a recursive function over the layers; the prover
unfolds it once it is known that a function with that equation exists, which `PerSlotDef` shows
by a least counterexample (`Least`), and its value in each layer likewise.

### The parts of a server

`ServicesProofs` is about `MCServices`. Each part is proved by itself; `PartsStep` says that a step of a
server is for each part one of its own or none, and the theorems about `ServicesSpec` follow.

| Theorem | Statement |
|---|---|
| `BusIsSound`, `BusStaysSound` | the bus by itself; `ServicesSpec => []BusSound` |
| `SlotsAreCounted`, `SlotsStayCounted` | the in-flight limit by itself; `ServicesSpec => []InflightCounted` |
| `TimersFireOnTime` | `ServicesSpec => []FiresOnTime` |
| `KeysStayPut` | `ServicesSpec => KeysStay` (an action property) |
| `WorkerIsSafe` | the async worker by itself: `NoWakeUpLost` and `StopRunsAccepted` |
| `NoChangeIsMissed` | discovery by itself: `TableFollows` |
| `ServicesTypes` | `ServicesSpec => []ServicesTypeOK` |

* *Bus*, from `NoConn \notin Conns` and `MaxBreaks \in Nat`: what is open is what the goroutine or the
  driver's fields hold, and both hold something only while the one hands it to the other; Close
  takes the connection and the callback away when the goroutine has ended and will not store another.
* *In-flight limit*, from `Limits` (finitely many calls, any limits): each step moves one call into
  or out of the places that count (`CountMoves`), and under enforce no call is in a handler
  without a slot (`SlotInv`), so no decrement is lost at zero.
* *Timing wheel*: the theorem of `TimeWheelProofs` is about that module's own definitions;
  `SamePlaces` to `SameNext` say that they are those of the instance in `MCServices`.
* *Routing*, from `RouteSizes` (finitely many instances, none of them 0, at least one virtual
  node, hashes that are natural numbers). `SearchParts`: the binary search returns the point that
  parts the ring into hashes before the key's and the others. For that a function that halves
  exists (`Halves`), and whatever halves finds the parting point (`HalvingParts`, again by a least
  counterexample). So a key gets the first point of the ring that is not before
  it, or the first of all (`FindsFirst`). If both the old and the new instance of a key are
  in the table before and after the refresh, each of the two points is in both rings, and
  being first in both they have one hash (`FirstStays`): the instances collide.
* *Async worker*, for any tasks and any capacity: a task is in the queue from the swap of its push on and once
  (`QueueInv`), what the head has passed was run (`RanInv`), and `WakeInv`: a worker that
  sleeps at an empty channel with something in the queue has a push between its swap and its
  notification. That is the safety half of `AcceptedIsRun`: with the fairness of the pushes nothing
  is left. `ExitInv`: when no push was half done as Stop began there is none until the
  end, so the worker's last drain finds everything.
* *Discovery*, from `Self \in Servers` and `MaxChanges \in Nat`: while the watch is armed, what
  resolve has read, unless the read failed, is what is registered (`WatchInv`), and what it has stored is in the table or
  on its way there (`ToldInv`). The value that is on its way matters, not whether the table is
  behind: a refresh may bring an old snapshot in while the newer one, equal to the
  old table, has been stored already.
* *Role*: `ServicesSpec` implies the specification of `RoleProofs`, whose theorems then hold of it.

**Only model-checked**: the liveness properties (`QueuedIsAnswered`, `CloseDrains`, `ReplacedIsClosed`,
`KickCloses`, `StopReleasesAll`, `InterruptedStartFails`, `StopRequestEndsRun`, `ExpiredIsDropped`,
`AcceptedIsRun`, `DiscoveryLive`, `BusLive`): liveness under fairness and `ENABLED` are outside
what the installed provers do. Every invariant and every action property of the passing runs, and
the refinement, is a theorem, under the conditions that the tables name.

## 6. Not modelled

* In the transaction manager: wrap-around of `nextTransID` (ids stay below `IdSpace`), the slice
  race on `m.shards` in `Close`, durations (a three-second wait is a choice between its two
  outcomes), a manager restarted after Close, the gauges.
* In the gateway: the gnet backend, zones, logout packets to the router, write timeouts. In
  the lifecycle: the tracker and the admin endpoints.
* In the room center: `RoomListPage` and its sort (they only read), replies that share a
  pointer with the table (a data race on a number that is only shown), zones that move to
  another instance, gamesvr. That expired rooms go in the end is not stated: the tick does it in one step.
* In the role manager: what items, mall and icons compute (a handler's new value is a
  choice), the requests that are only forwarded to game servers, `removeExpiredRoles` without
  a logout sender, a drain that times out while handlers still run.
* In discovery: session expiry
  (the own ephemeral node is not registered again), a second `InitAndRun` after Close
  (`closed` is never reset), the retry branch of `runWatch`, which the ZooKeeper client never takes.
* In the bus: `Send` and its framing, backoff times, the runtime-error channel (the driver's comment expects
  somebody to drain on it, but nobody subscribes), the contexts of `ctxFromStop`, which live
  until the stop; `SendMsg` reads `busImpl` and the callback twice without a lock, as
  `onRecvBusMsg` does. The drivers of NATS, Kafka, NSQ and RocketMQ leave reconnecting to
  their client libraries, and no server registers them.
* In async: `Drain`, which looks at the count only; a worker started again during or after its Stop. Of the utilities: LRU cache, id generator,
  buffer pool, locks. Scheduler: one compare-and-swap per task.
* infosvr's cache of brief infos (a load may overwrite a newer value, see `hazards`), mysqlsvr,
  web_svr: handlers over databases.
* Databases, registry and configuration clients, HTTP helpers, loggers, generated code, game data,
  build and configuration tools: I/O, data and text, with no protocol between actors. They are most of
  the repository's lines.

## 7. Plan

Done: `TransactionMgr`, `Executor`, `Gateway`, `Lifecycle`, `RoomCenter`, `Role`,
`AsyncWorker`, `TimeWheel`, `Discovery`, `Routing`, `Bus`, `Inflight`; proofs of all their
invariants and action properties, of the refinement of `Executor`, and of the safety halves of what is
live in the async worker and in discovery.

1. Proofs of more safety halves: what `BusLive` says when Close has returned; the invariants behind
   `ReplacedIsClosed` and `QueuedIsAnswered`.
2. `Process`: `Lifecycle` composed with the order of the bussvc components and two
   managers that call each other.
3. Two role managers under the modulo rule while their number changes, once the code says
   what it promises then.

The bounds for the next modules are of the size used above: two or three actors of each
kind, one more request than there is room for, and each failure at least once.
