# A verification project for WarheadCore

WarheadCore is a World of Warcraft 3.3.5 server (a fork of AzerothCore).  Most of
its source is game content and game rules.  What is hard to get right, and what
this project is about, is the part that many threads share: the world thread that
runs ticks, the map workers it uses inside a tick, the asynchronous and
synchronous database connections, and the protocols (auctions, sessions, trade)
whose steps different threads or players interleave.

Paths below are relative to `src/src/`.

## 1. Inventory

| Component | State | Operations | Talks to | What is hard | What makes it correct |
|---|---|---|---|---|---|
| `common/Threading/PCQueue.h` | `_queue`, `_queueLock`, `_condition`, `_shutdown` | `Push`, `WaitAndPop` (two overloads), `NotifyAll`, `Cancel`, `Size` | every worker pool | which sleeper a notification reaches; cancelling one consumer of a shared condition variable | nothing is lost, duplicated or left with sleepers only |
| Database pool, asynchronous half (`server/database/Database/DatabaseWorkerPool.cpp`, `DatabaseAsyncQueueWorker.cpp`) | queue of `AsyncOperation`, connections, one thread per connection, checker thread, `_cleanupMutex` | `Enqueue`, `CheckAsyncQueue`, `OpenDynamicAsyncConnect`, `CleanupConnections`, `Close`, destructors | PCQueue; world thread through `Update` | connections with threads come and go while operations are queued | every operation executed once; no thread outlives its connection; destruction ends |
| Database pool, synchronous half (same file, `MySQLConnection.h`) | container of connections, their `_mutex`, `_cleanupMutex`, `_openSyncConnectMutex` | `GetFreeConnection` and its callers, `OpenDynamicSyncConnect`, `CleanupConnections`, `KeepAlive`, `EscapeString`, the command `.db add dynamic connects` | all threads | a connection chosen by one thread and erased by another; spinning with a mutex held | a connection has one user and is not destroyed in use |
| Transactions (`Transaction.cpp`, `MySQLConnection.cpp`) | session, open transaction, `_deadlockLock` | `ExecuteTransaction`, the retry loops of `TransactionTask`, `TransactionWithResultTask`, `DirectCommitTransaction`, `HandleMySQLError` | MySQL server (external) | deadlock and retry, statement errors, a connection lost half-way | all or nothing; told truthfully; ends |
| Query and transaction callbacks (`common/Utilities/AsyncCallbackProcessor.h`, `QueryCallback.cpp`) | list of pending callbacks | `AddCallback`, `ProcessReadyCallbacks` | futures set by workers | callbacks that add callbacks, chains, a future abandoned | each callback once, after its query |
| Map updates (`server/game/Maps/MapUpdater.cpp`, `MapMgr.cpp`, `MapInstanced.cpp`) | `pending_requests`, request queue, tick timers, live maps | `MapMgr::Update`, `ScheduleUpdate`, `WaitThreads`, `FinishUpdate`, `Stop`, `MapInstanced::Update` | PCQueue, `Map::Update` | a worker schedules further work while the barrier is awaited | barrier; one update per map and tick; no time lost; the tick ends |
| Auction house (`server/game/Auction/`) | auctions and items under shared locks, task queue with five threads | sell, bid, buy-out, cancel, expire, list | transactions, mail, player money | a queued bid overtaken by expiry or cancellation; raw pointers used after the lock | gold and items conserved; each auction ends once |
| Login queue and sessions (`server/game/World/World.cpp`) | sessions, waiting list, player limit, grace period | `AddSession`, `RemoveSession`, `UpdateSessions` | sockets | reconnect against kick; positions in the queue | the limit holds; the queue is first come first served |
| Sockets (`server/shared/Network/Socket.h`, `NetworkThread.h`, `game/Server/WorldSocket.cpp`, `common/Threading/MPSCQueue.h`) | packet queue, write queue, `closed`, `closing`, new and listed sockets, pointer to the session | `SendPacket`, `Update`, `HandleQueue`, `AsyncRead`, `CloseSocket`, `DelayedCloseSocket` | map workers, world thread, asio | a lock-free queue; close with writes pending; a session deleted by another thread | bytes arrive whole and in order; what is queued before a delayed close is sent; no deleted packet or session is used |
| Trade (`server/game/Handlers/TradeHandler.cpp`) | two `TradeData`, accept flags | set item, set gold, accept, cancel | inventories | an offer changed after the other side accepted | both get what they saw |
| Instance saves, battlegrounds, dungeon finder | resets, queues, groups | timers and matching | world tick | wall-clock resets; fairness of matching | later candidates |
| Guilds, mail, groups, calendar, player save | records mirrored in the database | many | transactions | partial writes | clients of transactions |
| Combat, spells, AI, movement, scripts | game objects | content | maps | numeric rules | not a model checker's subject |
| Collision, cryptography, logging, configuration, tools | - | - | - | geometry, big numbers, pure I/O | not modelled |

`PROJECT.json` lists the same components with their status, and under `hazards`
the places where this code can go wrong in a way tests hardly reach, each with the
properties that would notice.

## 2. Plan

Written so far, in this order:

1. `PCQueue` - used with INSTANCE by the next two, so that both see the same
   notifications;
2. `AsyncWorkerPool`, `MCAsyncWorkerPool`, `AsyncWorkerPool_proofs`;
3. `MapUpdater`, `MCMapUpdater`, `MapUpdater_proofs`;
4. `SqlTransaction`, `MCSqlTransaction`;
5. `SyncConnections`, `MCSyncConnections`, `SyncConnections_proofs`;
6. `AtomicTransactions`, the abstract specification of a transaction (it takes effect
   in one step or not at all, and is then reported), which `SqlTransaction` implements,
   and `SqlTransaction_proofs`, which proves that;
7. `AuctionHouse`, `MCAuctionHouse`: the auctions' threads, the world's thread and a
   database that is behind, on top of what 2 and 6 promise; `AuctionHouse_proofs`, on top of
   `DataLemmas`, the lemmas on sums, flattened sequences and greatest members that it and
   `WorldSocket_proofs` share;
8. `LoginQueue`, `MCLoginQueue`, `LoginQueue_proofs`: sessions, the player limit and its queue;
9. `MPSCQueue`, used with INSTANCE by `WorldSocket`, `MCWorldSocket`, `WorldSocket_proofs`: a
   socket from its acceptance to its removal, the threads that send through it, and the pointer
   to the session.

Next: `Callbacks`, `AsyncCallbackProcessor` with chained `QueryCallback`s over the abstract
pool.  It has one thread and hands each callback on once; the other candidate, the trade, has
single-threaded handlers whose two sides never interleave.  Both are worth less than what is
written.

None of the modules proved about uses a RECURSIVE operator.  `AuctionHouse` applies
transactions, sequences of any length, with a fold, and `WorldSocket` flattens queues of packets:
both are proved about all the same, with a first-order induction (see section 5).

## 3. The modules and the code

### PCQueue

One operator per critical section of `_queueLock`.  `WaitAndPop` is split where it
gives the lock up: `Blocks` enters `_condition.wait` (the thread becomes a member of
`waiting`), `Takes` and `ReturnsNothing` are the two ways out of the loop.  Leaving
`waiting` is being notified or waking spuriously; the thread then tests the loop
condition again, so a notified thread can find the queue empty.  `NotifyOne` removes
*any* waiting thread: the standard promises no order.  The custom-cancel overload's
flag is the parameter `cancelled`.

### AsyncWorkerPool

| Code | Model |
|---|---|
| `Enqueue` | `Enqueue` |
| `AsyncDBQueueWorker::ExecuteAsyncQueue` | `Sleep`, `PopOperation`, `PopNothing`, then `ExitLoop` or `Proceed`, `FinishQuery` |
| `~AsyncDBQueueWorker` | `RaiseCancel`, `NotifyWorkers`, `JoinWorker` |
| `CleanupConnections`, `Close`, `~DatabaseWorkerPool` | the same names, `FinishErase`, `DestroyPool` |
| `AddTasks`' third task and `CheckAsyncQueue` | `RequestCheck`, `ReadQueueSize`, `LockCleanup`, `OpenDynamicAsyncConnect`, `OpenNothing`, `UnlockCleanup` |
| the command `.db add dynamic connects` | `AddDynamicConnects` |

Operations are names.  What an operation does is abstracted to the moment its
`ExecuteQuery` returns.  `_lastUseTime` is abstracted: `CanRemoveConnection` may be
true of any dynamic connection, because the time is only written after a successful
statement, so a connection in the middle of a long statement may look idle.  Close
and the checker thread share a vector without a lock, a data race: the appended
connection is kept or lost (`orphans`).  `fate`, `issued`, `executed` and `grown`
are history variables.

### MapUpdater

| Code | Model |
|---|---|
| `MapMgr::Update` | `BeginTick`, `ScheduleLfg`, `ScheduleMap`, `BeginWait`, `WaitForMaps`, `EndTick` |
| `MapUpdater::ScheduleUpdate` / `FinishUpdate` / `WaitThreads` | `Schedule`, `CountDown`, `WaitThreads` |
| `MapUpdater::InitializeThread` | `Sleep`, `PopRequest`, `PopNothing`, `ExitThread`, `BeginUpdate`, `FinishUpdate` |
| `MapInstanced::Update` on a worker | `ScheduleInstance`, `SkipInstance`, `DestroyInstance` for each instance |
| `MapMgr::UnloadAll`, `MapUpdater::Stop` | `UnloadAll`, `StopWait`, `StopCancel`, `StopJoin` |

`Map::Update` itself is one step.  `s_diff`, which the code passes unchanged, and the
diff of the LFG request are abstracted.  A base map is in exactly one of the
code's three categories.  `owed` is history: the time that passed and has not been
handed to the map in a full update.  The configuration without worker threads
(`MapUpdate.Threads` of zero) is sequential and left out.  Maps created by the world
thread are instances; base maps that are created lazily are taken to exist.

### SqlTransaction

| Code | Model |
|---|---|
| `MySQLConnection::ExecuteTransaction` | `TryExecute`, `BeginTransaction`, `ExecuteStatement`, `DeadlockStatement`, `FailStatement`, `UnreachableStatement`, `CommitTransaction`, `RollbackTransaction` |
| `Execute` / `HandleMySQLError` when the connection breaks | `Reconnect`, `ReconnectRefused`, `ReconnectAborts` |
| `TransactionTask`, `TransactionWithResultTask` | `Succeed`, `FailTask`, `WaitForLock`, `LockDeadlock`, `ClockPasses`, `RetryLoop`, `TimeUp` |
| `DirectCommitTransaction` | `RetryDirect`, `FinishDirect` |

The MySQL server is external and modelled by what these functions see of it: one
open transaction per session, effects durable at COMMIT, gone with ROLLBACK, with a
deadlock or with the session; outside a transaction a statement is durable at once.
`disturbed` collects the tasks that ran on a connection which broke or had been
reopened.  A direct task takes any free thread, which stands for the synchronous
connection it obtained.

### AtomicTransactions

What a caller believes of a task: `Start`, `TakeEffect` (all its effects in one step),
`Report` (true only after the effects, false only without them) and `LoseTrack`, after
which nothing is promised.  `SqlTransaction` instantiates it as `Promised`: `report` is
`result`, `effect` is what `durable` holds of the task (`EffectOf`, which can also be
"part": the abstract specification has no such state), and both are "unknown" for
a disturbed task.  `ImplementsAtomic` is `Promised!Spec`.

### AuctionHouse

| Code | Model |
|---|---|
| `SellItemTask::Execute` | `SellItem` (the checks), `ReadAuctionId`, then `ListWhole` or `ListSplit` with `WriteAuctionId`, `AddAuctionItem`, `AddAuction` |
| `PlaceBidTask::Execute` | `PlaceBid` (the lookup), `FinishBid` with `BidOn` and `Outbid` |
| `HandleAuctionRemoveItem` | `CancelAuction` (the lookup), `FinishCancel` with `RemoveItem` and `Refund` |
| `AuctionHouseObject::Update` | `Expire`, `Update` with `EndOf` |
| the `SendAuction...Mail` functions | the same names: each is the statements it appends |
| `HandleMailTakeMoney`, `HandleMailTakeItem` | `TakeMoney`, `TakeItem` |
| `LoadAuctionItems`, `LoadAuctions`, the highest auction id | `Load`, `Reload` |
| asynchronous execution of the transactions | `ExecuteTransaction` |

`mem` and `db` are two images of the same tables, and a transaction is a sequence of
assignments to rows.  Most handlers change the memory exactly as their transaction
changes the database (`Change`); where they do not (a listing puts the auction into memory
later, a split makes several transactions) the model has them apart.  The transactions wait
in `pending` and are carried out whole and in order: that is what `Atomic` and
`InOrderUntilGrown` say of the layer below, for connections that do not break and a pool that
has not grown.  A restart loses `pending` and the threads' work.  `till` is the other side of
payments to and from the house, so that money can be summed up.  A use of a freed auction and
the failed assertion of `AddAuctionItem` end the process, which is a restart.

### LoginQueue

| Code | Model |
|---|---|
| `World::AddSession` (network threads) | `AddSession`; `SocketCloses` is the socket |
| `AddSession_` | `RefuseSession`, `AddFirstSession`, `ReplaceSession`; their common end is `List` |
| `AddQueuedPlayer`, `RemoveQueuedPlayer` | inside `List`; `RemoveQueuedPlayer` with `AcceptFirst` and `NoteDisconnect` |
| `UpdateSessions` | `StartUpdates`, then for each session `GoOffline` or `UpdateSession`; `StartOffline`, `UpdateOffline`, `EndUpdate` |
| what `WorldSession::Update` does to the queue's state | `Update` with `HandlePlayerLogin`, `ReturnToCharacter`, `ProcessQueryCallbacks`, `LogoutPlayer` |
| `HasRecentlyDisconnected` | the same name; `ToleranceEnds` is the interval |
| reload of `PlayerLimit`, `KickAll` at shutdown | `SetPlayerAmountLimit`, `KickAll` |

The functions of the world's thread are operators from a world to a world, so that a
handler that calls several of them is one step, as in the code, which runs them
without giving anything up; between two sessions of a loop the network threads may act.
A `WorldSession` object is a name with an account; a deleted one can be a new session
later, as an address can.  Idle time-outs look like a closed socket.  What the player
of an offline session needs is a nondeterministic choice.

### MPSCQueue

`MPSCQueueIntrusive` with one operator per access to memory that threads share.  `Enqueue` is
`ExchangeHead`, which puts the node behind all others, and `StoreLink`, which makes it findable;
between them `linking` holds what the thread has in hand.  `Dequeue` is `SkipDummy`,
`FindNoSuccessor`, `CompareHead`, `EnqueueDummy` and `LinkDummy`, with `ReturnElement` and
`ReturnNothing` as its two ways out; `dequeue` says how far it is.  The accesses are taken to be
in the order of the program, which the release and acquire orders of the code give for the
links and the exchange.

### WorldSocket

| Code | Model |
|---|---|
| `WorldSocket::SendPacket` | `SendPacket`, the test of `IsOpen`, inside the caller's step; then `Enqueue`, `EndEnqueue` |
| `Socket::CloseSocket`, `WorldSocket::OnClose` | `CloseSocket` inside the caller's step, `Shutdown`, `OnClose` |
| `OnSocketOpen`, `WorldSocket::Start`, `NetworkThread::AddSocket` | `StartQuery`, or `StartBanned` and `StartMark`, or (no address check) `StartRead` and `StartChallenge`; `AddSocket` |
| `NetworkThread::Update`, `AddNewSockets` | `StartUpdate`, `AddNewSockets` |
| `WorldSocket::Update` | `Dequeue` with `Pack`, `BaseUpdate`, `HandleQueueLoop`, then a callback |
| `HandleQueue`, `AsyncProcessQueue`, `WriteHandlerWrapper` | `NothingQueued`, `DropBuffer`, `WouldBlock`, `WritePart`, `WriteAll`; `WriteReady` and `HandleQueueOnce` |
| `CheckIpCallback`, `HandleAuthSessionCallback` | `AddressAllowed`, `Refuse` with `DelayedCloseSocket`, `AcceptAccount` |
| `ReadHandlerInternal`, `ReadHandler`, `ReadDataHandler`, `HandlePing` | `ReadFails`, `ReadAuthSession`, `ReadPacket`, `LockSession`, `UnlockSession`, `AsyncRead` |
| `WorldSession::SendPacket`, `KickPlayer`, its deletion by the world | `Send`, `KickPlayer`, `EndSession` |

A byte is a packet and a position in it.  The kernel takes as many bytes as it has room for; the
peer reads, or breaks the connection.  Packets are deleted as soon as they are dequeued (`freed`);
`issued` and `wire` are history.  The mutex `_worldSessionLock` is `net = "using"`: while the
network thread uses the session, `OnClose` waits.  The session's users send between the barriers of
the world's tick, and `EndSession` comes after one.

### SyncConnections

| Code | Model |
|---|---|
| `Query`, `DirectExecute`, `DirectCommitTransaction` | `Call`, then `GetFreeConnection`, `Run`, `Unlock` |
| `GetFreeConnection` | `LockCleanup`, `Scan` (first loop), `OpenDynamicSyncConnect`, `Spin` (second loop); `Take` and `Pass` are the two outcomes of `LockIfReady` |
| `CleanupConnections` | `CleanupConnections` chooses what `remove_if` finds, `DestroyConnection` frees one, `FinishErase` releases the guard |
| `CanRemoveConnection` | `Age`: a second has passed since the last successful statement |
| `KeepAlive` | `KeepAlive`, `FinishPing`; its asynchronous half is an `Enqueue` of AsyncWorkerPool |
| `.db add dynamic connects` | `AddDynamicConnects` |

The world thread is one of the callers and does its own tasks between its calls.  A
statement is one step of any length: `Age` can happen while it runs.  After undefined
behaviour (`undefined`) the model stops: a caller that uses a destroyed connection, or one
that iterates while the command appends.  `_openSyncConnectMutex` has no variable: it
is held while a caller spins and inside steps.  The index of the second loop is an
`uint8` whose wrap at 256 changes the order in which connections are tried, not which.
`stray` names the callers whose connection has been destroyed.

Definitions commented "Fault variant" are plausible wrong versions of a neighbouring
definition.  No specification uses them; they document which mistake each property
is able to notice (`mutants` in `PROJECT.json`).

## 4. The runs

Run any of them with `tlc -workers 2 -config X.cfg M`.

**async_pool** (`MCAsyncWorkerPool.cfg`; about 375 000 states).  One static and one
dynamic connection, three operations, a queue limit of two (the code's minimum is ten),
at most one outstanding check.  Two workers and three operations are enough for a
notification to be consumed by a worker that is being cancelled while another one
sleeps and a third operation arrives; a limit of two lets the queue exceed it.
- `NoStrandedOperation`, `QueueDrains`: sleeping workers are never left alone with work.
- `QueryOnLiveConnection`, `CleanupExcludesOpening`, `DestructorReturns`: connections
  come and go without a thread left on a freed one, two writers of the container, or
  a join that never ends.
- `InOrderUntilGrown`: with one connection operations take effect in the order of issue.

**map_updater** (`MCMapUpdater.cfg`; about 250 000 states).  Two workers, a continent, a
dungeon map with two instances, ticks of one or two units, a cycle of four.  The
interval is longer than three of the shortest ticks and shorter than three of the longest, so the cycle both
restarts within its third tick and waits for its timer.
- `Barrier`, `OneUpdatePerMap`, `RequestsTargetLiveMaps`: a tick is a
  barrier, also for the requests a worker adds while the world thread waits.
- `TimeIsConserved`, `BoundedStaleness`: every category gets all the time that passed,
  and never waits longer than a cycle and the jitter of the ticks.
- `TickEnds`, `StopReturns`: ticks and shutdown end.

**sql_transaction** (`MCSqlTransaction.cfg`; about 458 000 states).  Two threads; a
transaction of a raw and a prepared statement, one of a single statement, a direct
one and an empty one; the direct retry loop is bounded by two (five in the code), one
connection may break.  Two statements are needed for a partial effect, two
asynchronous tasks for the contention on `_deadlockLock`.
- `Atomic`: of a task whose connection did not break, all or nothing is durable.
- `EveryTaskReported`: one asynchronous thread retries at a time, and nobody waits for it
  for ever.
- `ImplementsAtomic`: every behaviour is one of `AtomicTransactions`.  Beyond the
  invariants it says when effects may appear: never before a task starts or after it
  was reported, and all in one step.

**sync_connections** (`MCSyncConnections.cfg`; about 40 000 states).  The world thread and
two others, names for two dynamic connections, a limit of two (32 in the code).  Three
callers and two connections make somebody spin while the world thread waits for
`_cleanupMutex` or is the spinner itself; with two names one can be destroyed and the other opened
while the first is still being used.
- `LockedByItsUser`: a connection is locked exactly by the thread that uses it.
- `FrontIsStatic`: `EscapeString`, which takes no lock, finds the connection of `Open` at
  the front.
- `SpinEnds`: the endless loop of `GetFreeConnection` ends, although everybody else who
  needs `_cleanupMutex` waits for it.

**auction_house** (`MCAuctionHouse.cfg`; about 1 069 000 states).  A seller with a stack of
two and the money for one deposit, a bidder who can raise and buy out, one who can bid
once; two auctions one after the other (the second sells what the first brought back, or the
clone), one restart at any moment.  Operations begin when the last one is over and its
transactions carried out (`Overlap` FALSE, `MaxPending` 0), but each operation still leaves
several transactions behind, and the restart falls between any two.  The first is a real
restriction, and the code does not enforce it: with `Overlap` TRUE a deposit is checked on an
auction thread, the world's thread takes a cut from the same purse, and `ModifyMoney` then
takes what is left, so that `MoneyConserved` fails.  It separates the rules of the auction
house, which the run checks, from the missing locks, which are listed as hazards
and shown by **item_not_there**.  The second only bounds the queue.
- `MoneyConserved`: bids are refunded once and with what was paid, in memory and in
  every state of the database a restart could find.
- `OnePlace`: an item is in one inventory, parcel or auction, in both images.
- `NothingUnsaved`: what is queued leads the database to exactly the memory.
- `ShortOnlyInSplit`: what a restart can lose is the clone of a split sale, whose stacks are
  reduced in transactions before the one that saves it.
- `PaysOnlyForGoods`: nobody is charged for an auction he does not win.

**login_queue** (`MCLoginQueue.cfg`; about 2 150 000 states, two to three minutes).  One
account that connects again while it is connected, and two, alike, that connect once at a
time; limits of none, one and two, the tolerance on, no staff (staff would only skip the queue, by the
same disjunct as an account within the tolerance).  Three accounts and a limit of one give a
queue of two; two sessions of one account give every way of being replaced.  The symmetry
exchanges the two like accounts, and the two sessions of the other: nothing in the module orders them.
- `QueueIsListed`: sessions, offline sessions and the queue hold no pointer to a deleted
  session; the assertion in `RemoveQueuedPlayer` cannot fail.
- `PlacesAreUsed`: no step but a reload of the limit leaves a place unused that was not, although
  `RemoveQueuedPlayer` lets in at most one session a call.
- `InTurn`: the queue is left from its front, and nobody passes it but those the code exempts.

**world_socket** (`MCWorldSocket.cfg`; about 375 000 states, one to two minutes).  Two map
workers; one sends a packet of one byte, the other one of three, larger than the buffer of two;
the challenge has one byte, the refusal three, the answer to a ping two, the kernel takes two
bytes nobody has read.  That gives every way of packing (fits, starts a new buffer, goes out
alone), writes in parts, and two producers with a third node, the network thread's dummy or answer,
in the lock-free queue at once.  One ping is answered and each packet sent once, so the queue ends and
the socket may stop: deadlock is not checked.
- `NoFreedNode`: no thread follows or stores a link of a packet that was deleted.
- `WireIsPrefix`: the client gets whole packets in the order in which they entered the queue.
- `SessionLives`: no deleted session is used, although the world deletes it on a flag that is set
  before the socket's pointer is cleared.
- `ClosedIsFlushed`, `ClosingEnds`: a marked socket writes what it was given, the answer it was
  marked after included, and is then removed.
- `EverythingGoesOut`: no packet waits for ever for a write nobody starts.

The five violation runs check one statement each that the repository makes and the
code does not keep:

- **close_is_alone**: the comment in `Close` says there can be no concurrent access
  to the connections; the pool's own checker thread is still alive and may be opening one.
- **nothing_leaked**: `Execute` promises execution; a worker that popped an operation
  and then sees `_cancel` leaves the loop with it.  Needs no shutdown, only the cleanup of an
  idle dynamic connection.
- **always_atomic**: `BeginTransaction` promises rollback of what is not committed;
  after a reconnect the failed statement and those behind it run in autocommit mode.
- **call_finishes**: a direct statement blocks its caller "until finished"; when it takes
  longer than `DYNAMIC_CONNECTION_TIMEOUT` on a dynamic connection, the cleanup destroys the
  connection, locked mutex and all, under it.
- **item_not_there**: `AddAuctionItem` asserts that the item is new; two threads selling the same
  item both passed the check before it.

Properties that `tlapm` proves for every value of the constants and that add nothing on an
instance have no run: `NoDuplicates`, `PendingIsExact`, `NoNullRequest`, `Truthful`, `NotTwice`,
`NoLeftoverTransaction` and `OneRetrier` (section 5).  Two divergences met while modelling have
none either.  A bid below the start bid is told to be refused, but the code, which calls the case
cheating, goes on and accepts it.  A socket marked by `DelayedCloseSocket` in `Start`, because
its address is known to be banned, is no longer open when `AddNewSockets` finds it, and is dropped
there with its answer unsent; `ClosedIsFlushed` therefore speaks of sockets that are closed, not of
those that are dropped (the hazard at `NetworkThread.h:106`).

### Fairness

Weak fairness of each thread's steps, nothing else except for sockets.  The operating system
schedules threads that can run; `ExecuteQuery` and `Map::Update` return; every network
wait has an answer or an error.  Nothing forces a caller to enqueue, the
scheduler to clean up, a tick to begin or the pool to close.  Spurious wake-ups have no
fairness, so that no liveness property rests on them.  `_deadlockLock` is an unfair
mutex; weak fairness of taking it is enough because a task takes it at most once and its
holder's time is limited (`ClockPasses`).  In the pool a worker's fairness covers
whatever it does next, since it has one enabled step at a time.  In `SyncConnections`
a thread inside a call runs, but `_cleanupMutex` is not fair and new callers may
overtake for ever, so only the end of the spin is promised, not the end of every call.
In `WorldSocket` every thread goes on inside a function it is in.  The timer and a write that is
ready have strong fairness: both are enabled only between handlers, and io_context serves what is
ready first in, first out, so neither is passed over for ever.  The peer reads what the kernel holds as
long as it does not break the connection.  Nothing makes a session send, a player be kicked, a
packet arrive or a query answer.
`AuctionHouse` and `LoginQueue` state no fairness and no liveness: an operation of the auction
house is a straight line with no waiting, and that a queued player gets in is not
something the code brings about, since accounts within the tolerance and staff may take every
place that becomes free while the server is above its limit.

## 5. The proofs

`tlapm` on `MapUpdater_proofs.tla`, `AsyncWorkerPool_proofs.tla`, `SyncConnections_proofs.tla`,
`SqlTransaction_proofs.tla`, `LoginQueue_proofs.tla`, `WorldSocket_proofs.tla`,
`AuctionHouse_proofs.tla` and `DataLemmas.tla`; the theorems hold
for every value of the constants that satisfies the module's `ConstantsAssumption`
(for the map updater: finitely many workers; no bound on maps, instances, diffs; for the
pool: any set of operations, finitely many static connections, any dynamic ones).  The queue is instantiated, so
its operators are expanded where a step uses them.

**MapUpdater_proofs.**  `IInv` is inductive: `TypeOK`, `PendingIsExact`,
`WorkersAreSound` and `MainIsSound`.  The counter alone is not inductive: that it does
not go below zero needs to know that a worker which finishes holds a request, and
that holders are finitely many; the barrier needs to know what the world thread has
done before it sees zero, and that nobody but an updating worker schedules afterwards.
From it follow `TypeCorrect`, `CounterIsExact`, `BarrierHolds` and `NeverNull`.
`SInv` adds what makes the schedule sound: `OneUpdatePerMap`,
`RequestsTargetLiveMaps`, `InstancesWait` (while a
`MapInstanced` has not run, none of its instances is requested), `VisitsAreSound` (a
running one has only live, unrequested instances ahead of it) and `TickIsSound` (a map not
yet scheduled has no request, nor have its instances).
From it follow `EachMapOnce` and `NoDanglingRequest`.

**Time, in MapUpdater_proofs.**  On top of `SInv`, `CInv` follows a diff from the timer to the map.
`Unbegun` are the requests no worker has begun, queued or popped; a map is `Served` when this tick
has scheduled it and its request is begun.  `TimeIsAccounted` says that what a map is owed is
its timer less what it has been given this tick, and that an unbegun request for a base map carries
the diff of its category.  Both halves are needed: the timers are only set back after the barrier, so
in between a map has had its time and its timer still says otherwise.  `NoTimeLost` follows at the
end of the tick, where everything is served.  `StalenessIsBounded` has an invariant of its own,
`TimersAreBounded`: a timer that was restarted in this cycle lies behind the full cycle's by the
ticks since, one that was not has what the last cycle left it plus the ticks begun.  Its assumption
is that `Diff` has a smallest and a largest member, which the bound speaks of.

**AsyncWorkerPool_proofs.**  `IInv` adds to `TypeOK`: `StaticWorkersServe` (static
connections serve until Close, so there is always a worker to wake), `CancelledSleeper`
(a cancelled worker sleeps only until the notification its destructor is about to
send), `SleepersLoop`, `MainIsSound` (what the main thread's program counter says of
`doomed`, `victim` and the mutex), `HeldIsSound` and the two goals that need each
other, `NoStrandedOperation` and `QueryOnLiveConnection`.  `NoStrandedOperation` is the
interesting one: a worker can swallow a notification and exit; the proof shows that this
only happens to a victim whose destructor wakes everybody afterwards.
`OneContainerWriter` follows from `MainIsSound`; `NeverDuplicated` is inductive relative to
`IInv` and proved on top of it.

**Order, in AsyncWorkerPool_proofs.**  For one static connection s and a pool that has not grown,
`OInv(s)`: while the worker of s is in its loop, `issued` is `executed`, the operation in its
hand and the queue one behind the other, position by position (`Lined`); afterwards only the
prefix is left (`Ordered`).  What cancelling s or destroying the pool loses is at the end of
that line, which is why `OrderIsKept` survives a shutdown in the middle of a statement.
`OnlyStaticWork` says that nobody else takes from the queue.

**SyncConnections_proofs.**  `IInv` adds to the three goals `TypeOK`, `LockedByItsUser` and
`FrontIsStatic`: `MutexIsHeld` (who is inside a critical section of `_cleanupMutex` holds
it), `ScanIsInside` (a scan never leaves the container), `PointersAreSound` (exactly the
threads between `LockIfReady` and `Unlock` have a connection), `UsersAreInside` (a connection
in use stays in the container until it is destroyed; a newly opened one therefore has no
user, also when it gets the address of a destroyed one) and `DoomedAreDynamic`.  The
lemmas `RemoveAtProperties`, `Appended` and `Removed` say what opening and
destroying do to the container.

**SqlTransaction_proofs.**  `IInv` has two layers.  `ThreadIsSound` holds whatever happens to
connections: a thread with a task has no other thread's, what it buffers belongs to its task, a
session without open transaction buffers nothing, and where a thread is outside a transaction none
is open.  `ProgressIsExact` speaks of tasks that were not disturbed: the buffer holds exactly
the statements before `next`, nothing is durable before COMMIT, and after it what
`code` says.  `TaskIsSound` carries that over to tasks nobody runs any more.  Neither `Atomic` nor
`Truthful` is inductive without them: that a retry starts from nothing depends on the rollback of
the attempt before, and a report on the point at which the thread was.  Each action changes
the state of one thread w and of its task u only; `Frame(w, u)` says so, `Framed` proves
once that then everything about the others is kept, and the lemma of each action proves the rest
for w and u, together with `Follows(u)`: what the step looks like to somebody who sees u
only.  `Simulation` turns Frame and Follows into a step of `AtomicTransactions` or a stutter,
which gives `Implementation`, the refinement, for every number of threads, tasks and statements.

**LoginQueue_proofs.**  The functions of the world's thread make worlds out of worlds, so the
invariant is a predicate of a world: `Good(w)` is its type, `Owned` (a session is in the place of its
account, and not in both maps), `Orderly` (who waits is listed, waits once, has `inQueue` set and
nothing going on) and `OthersCalm` (nothing goes on in a session the world does not have).
`QueueIsListed` is not inductive without the last two: a callback clears `m_inQueue`, so a waiting
session must have none outstanding, neither when it is queued nor afterwards.  Each function has
a lemma that says what it keeps; inside `AddSession_`, where the old session is still in the map but
no longer in the queue, the world is not `Good` but `Ready(w, s)` to list s.  `IncomingIsNew` speaks of
the network threads' list, `TodoIsThere` of what is left of the two loops.  `PlacesCounted` and
`QueueCounted` turn positions and maps into the cardinalities of `QueueIsListed`.

The two action properties follow from `IInv` and what each function does to the maps and to the queue.
`Fills(w, v)` says that from w to v nobody waits, or no place is free, or no more than were while
somebody waited.  `RemoveQueuedPlayer` counts with the session that is about to go, so its lemma is
about `FillsWithout`, which leaves one place for it; the lemmas of `AddSession_` and `UpdateSessions`
add the session that comes or take away the one that goes (`ListCounts`, `UnlistCounts`), and
`NoPlaceLeftFree` is `PlacesAreUsed`.  `Thins(w, x, o)` says what it does to the others in the queue:
they keep their order, who is missing had nobody but o before him, and then at most the limit is
active without o.  `LeaveTurn` and `ListTurn` draw from it the three parts of `InTurn`, which is
`FirstComeFirstServed`; `ActiveIsCounted` makes `GetActiveSessionCount` the number of sessions that
are listed and do not wait.

**WorldSocket_proofs.**  For any senders, packets, sizes and capacities.  `FlagInv` is about who
may close and use the session: `StartIsSound` (the network thread sees the socket when the acceptor
is done with it), `LoginIsSound` (a socket is marked only when its login has failed, so never with a
session) and `SessionIsSound`: who finds the socket closed knows that the pointer is cleared or
that some thread is about to clear it, and once the session is deleted that thread can only be the network
thread itself, which is not where the session is used.  The last part is why the deletion is safe: it
waits for a barrier behind which no other thread is inside `CloseSocket`.  `QueueInv` is about the
lock-free queue.  `IsQueue(nodes, pos)` says that the nodes from tail to head have ascending positions,
that links and what threads have still to link lead from a position to the next, that no two threads have
the same node to link to, and that the nodes are the dummy or what was enqueued and not yet freed;
`QueueIsSound` asks for some nodes and positions.  Positions, not reachability, carry the proof: a
node that is skipped is below all others, so nothing leads to it, and a tail that is the head is the only
node, so the dummy can be enqueued.  `SendersAreSound` says that every packet enters once, which the
login's order ensures for the challenge and the refusal.  `ExchangeKeepsQueue`, `StoreKeepsQueue` and
`AdvanceKeepsQueue` are the three changes of the queue.  From these follow `NoDeletedNodeIsUsed`,
`UsedSessionLives` and, with `BytesTypeOK` for the buffers, `TypeCorrect`.

The bytes come on top.  `StreamIsSound` says that what the deleted packets are made of is on the wire
or in the buffers, in that order, unless writing has failed; that the packet dequeued next is the
first not deleted (`NextIsFirst`) comes from the positions of `QueueIsSound`.
`ClientReceivesPrefix` follows.  `ClosedIsFlushed` needs three more: `ReadsAreSound` and
`AnswersAreSound` (while a login waits no read is pending, so a socket that is marked for closing has nobody
else to close it, and a client that answered has the challenge), `BuffersAreSound` (no empty
buffer is queued) and `RefusalIsSound` (the refusal, the last packet, finds the buffers empty).
Then a socket whose buffers are empty after the refusal has everything on the wire, which is
`DelayedCloseFlushes`.

**DataLemmas.**  What the modules' data is made of.  `LeastNumber` and `Induction` are the
induction over the naturals in a first-order form: a set that contains 0 and, with n, n + 1
contains every natural number.  The provers cannot instantiate an operator, but they can pick a
set, so a fold of the community modules can be reasoned about: it is a CHOOSE of a function that
satisfies an equation; the lemmas `...Grow`, `...Exist` and `...Unique` show that there is exactly one,
and from then on the equation is enough.  So are proved `FlattenEmpty`, `FlattenAppend`, `FlattenHead`, and
of `SumFunction` that it does not depend on the order (`SumsCommute`), and what it becomes when a value is
added, removed or changed.

**AuctionHouse_proofs.**  For any players, items, purses, offers, prices, queue bounds and
restarts, under `~Overlap`, the setting of the passing run; without it `ItemNotThere` is false
(run item_not_there).  `ApplyAppend`, `ApplyConcat` and `ApplyParts` say that a
transaction may be split anywhere.  `IInv` has two halves.  `Stage(t, saved)` speaks of the one thread
that may be busy: `saved` is what the database becomes when everything queued is carried out, and is the
memory, except between the commit of a sale and `AddAuction`, when it is the memory with the new
auction.  `Saves(db, pending, saved, nextId)` speaks of the queue: there is a history of
images, one before and after each transaction (`Chain`), each of which is `Right`: sound
(`Placed`: an item that exists is in one place; an auction's id is below the next one to be used) and with
all the money of the start.  A restart may cut the queue anywhere, so every
image of the history must be fit to be loaded, not just the two ends; that makes the invariant
inductive.  `Short` says which images lack units and that the clone is still to come.  Money is counted
per transaction: a `Gift` adds d to the money of any image and leaves purses alone, a
`Payment` does so for images with the purses of memory, since `Pay` writes what it read there;
`Lead` is what an auction holds.  `EndAuction`, `RaiseBid`, `OpenParcel`, `MergeParcel`, `LeaveInventory`,
`CreateClone` and `ReduceOne` are the changes the operations are made of, `ReduceAll` and `EndAll` the
inductions over the stacks of a split sale and the auctions of one update.  From `IInv` follow
`TypeCorrect`, `ItemsHaveOnePlace`, `MemoryIsSaved`, `MoneyIsConserved`, `OnlySplitsAreShort` and
`AssertionHolds`.

`OnlyBuyersPay`, the action property, follows each player through each transaction instead of the sum:
`Held` is what he has in an auction, a `Bill` adds to each player's wealth what an account c says, in
images with the purses of memory, a `Grant` in any image.  A higher bid takes from the bidder what he
then holds (`OutbidIsBill`); the end of an auction takes from everybody what he holds in it (`EndWealth`),
so who is not made up for it by the letters must be the one the item goes to (`PaidEndSpares`).  Items of
different auctions differ, so over all auctions of one update nobody's parcel is taken again
(`EndAllSpares`).  `Fair` is the property for one step, with one lemma per action.

The strengthenings were checked with TLC on the instances above, except those that quantify over
positions, sequences of bytes or histories (`QueueIsSound`, `StreamIsSound`, `Saves`).

**Only model-checked:** all liveness (`QueueDrains`, `DestructorReturns`, `TickEnds`,
`StopReturns`, `EveryTaskReported`, `SpinEnds`, `ClosingEnds`, `EverythingGoesOut`), which is beyond
the prover together with fairness.

## 6. Limits

- Exceptions out of `ExecuteQuery` and allocation failures are not modelled.
- Only server answers that the code distinguishes are: success, `ER_LOCK_DEADLOCK`,
  another error, a lost connection.  An error answer to COMMIT itself, which the code
  ignores, appears only as a broken connection.
- In `SyncConnections` Close, the registration of prepared statements and the asynchronous
  container, which `CleanupConnections` cleans under the same guard, are left out; the latter
  holds `_cleanupMutex` for as long as the join of a worker takes (`DestructorReturns`).
- In `AuctionHouse` players are online and in reach, items of one kind; searching, notifications,
  cash on delivery, returned and deleted letters and offline players are left out.  The properties of
  its passing run hold for operations that do not overlap; what happens when they do is the
  subject of `item_not_there` and of the hazards listed at `GetAuction` and `GenerateAuctionID`.
- In `LoginQueue` the positions sent to clients, kicks of single sessions by commands and the
  world's own shutdown countdown are left out.  Two things met while modelling have no
  property, since no text says what they should be: `m_playerLoading` stays set after a refused
  login and makes the account's next connection be refused until the old session is gone;
  and the configuration says the limit excludes staff, who skip the queue but are
  counted by `AddSession_` when the next player comes.
- In `WorldSocket` clients keep to the protocol: packets that are too large, unexpected or too many are
  left out, and so are encryption, the IOCP variant, the choice of a network thread, its stop, and
  senders outside the world's barriers (the auction threads, which use a player's session at
  any time; `WorldSession`'s own pointer to the socket is reset without a lock).
- The callbacks and trade have no module; the plan says why.
- Not modelled: most of the source is content (spells, scripts, AI, item and quest rules) whose
  correctness is numeric tables and single-threaded rules; geometry (collision, navigation),
  cryptography, logging, configuration, the database updater and the extraction tools have no
  protocol state.  They are listed in `PROJECT.json` as not modelled, each with its reason.
