-------------------------- MODULE AsyncWorkerPool --------------------------
(***************************************************************************)
(* The asynchronous half of DatabaseWorkerPool: one queue of AsyncOperation *)
(* objects, one AsyncDBQueueWorker thread per asynchronous connection, the *)
(* main thread, which removes idle dynamic connections and finally closes  *)
(* the pool, and the AsyncDBQueueChecker thread, which opens dynamic       *)
(* connections when the queue grows.                                       *)
(*                                                                         *)
(* A connection and its worker thread share a name.  Time is abstracted: a *)
(* dynamic connection may have been unused for DYNAMIC_CONNECTION_TIMEOUT  *)
(* whenever CleanupConnections looks at it, because _lastUseTime is only   *)
(* written after a successful statement and a statement may take longer.   *)
(***************************************************************************)
EXTENDS Naturals, Sequences, SequencesExt, FiniteSets

CONSTANTS
    Operation,           \* the AsyncOperations ever enqueued (pings included)
    Static,              \* the connections Open() creates
    Dynamic,             \* names for the connections opened later
    MaxAsyncQueueSize,   \* _maxAsyncQueueSize
    MaxAsyncConnections, \* MAX_ASYNC_CONNECTIONS
    None

Connection == Static \cup Dynamic

ASSUME ConstantsAssumption ==
    /\ Static # {} /\ IsFiniteSet(Static)
    /\ Static \cap Dynamic = {}
    /\ None \notin Connection \cup Operation
    /\ MaxAsyncQueueSize \in Nat \ {0}
    /\ MaxAsyncConnections \in Nat

VARIABLES
    queue, waiting, shutdown, \* _queue, a ProducerConsumerQueue
    pool,         \* the connections in _connections[IDX_ASYNC]
    orphans,      \* connections that a racing Close dropped from the container
    worker,       \* program counter of each worker thread
    held,         \* the operation WaitAndPop gave the worker
    cancel,       \* AsyncDBQueueWorker::_cancel
    main,         \* program counter of the main thread
    doomed,       \* connections the main thread has still to destroy
    victim,       \* the connection whose destructor is running
    closing,      \* Close has been called
    cleanupMutex, \* holder of _cleanupMutex
    checks,       \* CheckAsyncQueueTasks queued for the checker thread
    checker,      \* program counter of the checker thread
    toOpen,       \* iterations left of the loop in CheckAsyncQueue
    fate,         \* history: what became of each operation
    issued,       \* history: operations in the order of Enqueue
    executed,     \* history: operations in the order ExecuteQuery returned
    grown         \* history: a dynamic connection has been opened

workerVars == <<worker, held, cancel>>
mainVars == <<main, doomed, victim, closing>>
checkerVars == <<checks, checker, toOpen>>
history == <<fate, issued, executed, grown>>
vars == <<queue, waiting, shutdown, pool, orphans, workerVars, mainVars,
          cleanupMutex, checkerVars, history>>

Q == INSTANCE PCQueue

WorkerState == {"none", "loop", "returned", "exec", "exited"}
Fate == {"new", "queued", "taken", "executed", "leaked", "deleted"}

TypeOK ==
    /\ queue \in Seq(Operation)
    /\ waiting \subseteq Connection
    /\ shutdown \in BOOLEAN
    /\ pool \subseteq Connection
    /\ orphans \subseteq Connection
    /\ worker \in [Connection -> WorkerState]
    /\ held \in [Connection -> Operation \cup {None}]
    /\ cancel \in [Connection -> BOOLEAN]
    /\ main \in {"running", "cancel", "notify", "join", "closed", "destroyed"}
    /\ doomed \subseteq Connection
    /\ victim \in Connection \cup {None}
    /\ closing \in BOOLEAN
    /\ cleanupMutex \in {"free", "main", "checker"}
    /\ checks \in Nat
    /\ checker \in {"idle", "sized", "opening"}
    /\ toOpen \in Nat
    /\ fate \in [Operation -> Fate]
    /\ issued \in Seq(Operation)
    /\ executed \in Seq(Operation)
    /\ grown \in BOOLEAN

(* The pool after Open(): the static workers are about to call WaitAndPop. *)
Init ==
    /\ Q!InitPCQueue
    /\ pool = Static /\ orphans = {}
    /\ worker = [c \in Connection |-> IF c \in Static THEN "loop" ELSE "none"]
    /\ held = [c \in Connection |-> None]
    /\ cancel = [c \in Connection |-> FALSE]
    /\ main = "running" /\ doomed = {} /\ victim = None /\ closing = FALSE
    /\ cleanupMutex = "free"
    /\ checks = 0 /\ checker = "idle" /\ toOpen = 0
    /\ fate = [op \in Operation |-> "new"]
    /\ issued = <<>> /\ executed = <<>> /\ grown = FALSE

-----------------------------------------------------------------------------
(* Callers.  Close is only called after the other threads have exited, so  *)
(* nothing is enqueued from then on.                                       *)

Enqueue(op) ==
    /\ ~closing
    /\ fate[op] = "new"
    /\ Q!Push(op)
    /\ fate' = [fate EXCEPT ![op] = "queued"]
    /\ issued' = Append(issued, op)
    /\ UNCHANGED <<pool, orphans, workerVars, mainVars, cleanupMutex,
                   checkerVars, executed, grown>>

-----------------------------------------------------------------------------
(* AsyncDBQueueWorker::ExecuteAsyncQueue of connection c. *)

AtWaitAndPop(c) == worker[c] = "loop" /\ c \notin waiting

Sleep(c) ==
    /\ AtWaitAndPop(c)
    /\ Q!Blocks(c, cancel[c])
    /\ UNCHANGED <<pool, orphans, workerVars, mainVars, cleanupMutex,
                   checkerVars, history>>

Wakeup(c) ==
    /\ Q!SpuriousWakeup(c)
    /\ UNCHANGED <<pool, orphans, workerVars, mainVars, cleanupMutex,
                   checkerVars, history>>

PopOperation(c) ==
    /\ AtWaitAndPop(c)
    /\ Q!Takes(cancel[c])
    /\ worker' = [worker EXCEPT ![c] = "returned"]
    /\ held' = [held EXCEPT ![c] = Head(queue)]
    /\ fate' = [fate EXCEPT ![Head(queue)] = "taken"]
    /\ UNCHANGED <<pool, orphans, cancel, mainVars, cleanupMutex, checkerVars,
                   issued, executed, grown>>

PopNothing(c) ==
    /\ AtWaitAndPop(c)
    /\ Q!ReturnsNothing(cancel[c])
    /\ worker' = [worker EXCEPT ![c] = "returned"]
    /\ UNCHANGED <<pool, orphans, held, cancel, mainVars, cleanupMutex,
                   checkerVars, history>>

(* if (_cancel) break: an operation popped before the flag was raised is   *)
(* neither executed nor deleted.                                           *)
ExitLoop(c) ==
    /\ worker[c] = "returned" /\ cancel[c]
    /\ worker' = [worker EXCEPT ![c] = "exited"]
    /\ held' = [held EXCEPT ![c] = None]
    /\ fate' = [op \in Operation |-> IF op = held[c] THEN "leaked" ELSE fate[op]]
    /\ UNCHANGED <<queue, waiting, shutdown, pool, orphans, cancel, mainVars,
                   cleanupMutex, checkerVars, issued, executed, grown>>

(* if (!operation) continue, else SetConnection and ExecuteQuery begin. *)
Proceed(c) ==
    /\ worker[c] = "returned" /\ ~cancel[c]
    /\ worker' = [worker EXCEPT ![c] = IF held[c] = None THEN "loop" ELSE "exec"]
    /\ UNCHANGED <<queue, waiting, shutdown, pool, orphans, held, cancel,
                   mainVars, cleanupMutex, checkerVars, history>>

(* ExecuteQuery returns and the operation is deleted. *)
FinishQuery(c) ==
    /\ worker[c] = "exec"
    /\ worker' = [worker EXCEPT ![c] = "loop"]
    /\ held' = [held EXCEPT ![c] = None]
    /\ fate' = [fate EXCEPT ![held[c]] = "executed"]
    /\ executed' = Append(executed, held[c])
    /\ UNCHANGED <<queue, waiting, shutdown, pool, orphans, cancel, mainVars,
                   cleanupMutex, checkerVars, issued, grown>>

-----------------------------------------------------------------------------
(* The main thread. *)

(* CleanupConnections holds _cleanupMutex until erase has destroyed the    *)
(* dynamic connections for which CanRemoveConnection is true.              *)
CleanupConnections ==
    /\ main = "running" /\ cleanupMutex = "free"
    /\ \E R \in (SUBSET (pool \cap Dynamic)) \ {{}} : doomed' = R
    /\ main' = "cancel"
    /\ cleanupMutex' = "main"
    /\ UNCHANGED <<queue, waiting, shutdown, pool, orphans, workerVars, victim,
                   closing, checkerVars, history>>

(* Close clears the container without taking any mutex. *)
Close ==
    /\ main = "running"
    /\ doomed' = pool
    /\ main' = "cancel"
    /\ closing' = TRUE
    /\ UNCHANGED <<queue, waiting, shutdown, pool, orphans, workerVars, victim,
                   cleanupMutex, checkerVars, history>>

(* ~AsyncDBQueueWorker: _cancel = true, then NotifyAll, then join. *)
RaiseCancel(c) ==
    /\ main = "cancel" /\ c \in doomed
    /\ cancel' = [cancel EXCEPT ![c] = TRUE]
    /\ victim' = c
    /\ main' = "notify"
    /\ UNCHANGED <<queue, waiting, shutdown, pool, orphans, worker, held,
                   doomed, closing, cleanupMutex, checkerVars, history>>

(* Fault variant: the flag is raised and nobody is told. *)
NotifyWorkersSilently ==
    /\ main = "notify"
    /\ main' = "join"
    /\ UNCHANGED <<queue, waiting, shutdown, pool, orphans, workerVars, doomed,
                   victim, closing, cleanupMutex, checkerVars, history>>

(* Fault variant: only one sleeping worker is told. *)
NotifyOneWorker ==
    /\ main = "notify"
    /\ Q!NotifyOne /\ UNCHANGED <<queue, shutdown>>
    /\ main' = "join"
    /\ UNCHANGED <<pool, orphans, workerVars, doomed, victim, closing,
                   cleanupMutex, checkerVars, history>>

NotifyWorkers ==
    /\ main = "notify"
    /\ Q!NotifyAll
    /\ main' = "join"
    /\ UNCHANGED <<pool, orphans, workerVars, doomed, victim, closing,
                   cleanupMutex, checkerVars, history>>

Destroyed(c) ==
    /\ pool' = pool \ {c}
    /\ doomed' = doomed \ {c}
    /\ victim' = None
    /\ main' = "cancel"
    /\ UNCHANGED <<queue, waiting, shutdown, orphans, closing, cleanupMutex,
                   checkerVars, history>>

(* Fault variant: the destructor does not wait for the thread. *)
DetachWorker ==
    /\ main = "join"
    /\ UNCHANGED workerVars
    /\ Destroyed(victim)

JoinWorker ==
    /\ main = "join" /\ worker[victim] = "exited"
    /\ worker' = [worker EXCEPT ![victim] = "none"]
    /\ cancel' = [cancel EXCEPT ![victim] = FALSE]
    /\ UNCHANGED held
    /\ Destroyed(victim)

(* erase or clear returns. *)
FinishErase ==
    /\ main = "cancel" /\ doomed = {}
    /\ IF closing THEN main' = "closed" /\ UNCHANGED cleanupMutex
                  ELSE main' = "running" /\ cleanupMutex' = "free"
    /\ UNCHANGED <<queue, waiting, shutdown, pool, orphans, workerVars, doomed,
                   victim, closing, checkerVars, history>>

(* ~DatabaseWorkerPool: both queues are cancelled, which deletes what is   *)
(* still queued.                                                           *)
DestroyPool ==
    /\ main = "closed"
    /\ main' = "destroyed"
    /\ Q!Cancel
    /\ checks' = 0
    /\ fate' = [op \in Operation |-> IF fate[op] = "queued" THEN "deleted" ELSE fate[op]]
    /\ UNCHANGED <<pool, orphans, workerVars, doomed, victim, closing, cleanupMutex,
                   checker, toOpen, issued, executed, grown>>

-----------------------------------------------------------------------------
(* Dynamic connections: the scheduler's third task, the checker thread it  *)
(* feeds, and an administrator's command.                                  *)

(* Bound: at most one CheckAsyncQueueTask is outstanding. *)
RequestCheck ==
    /\ main = "running" /\ checks = 0
    /\ checks' = checks + 1
    /\ UNCHANGED <<queue, waiting, shutdown, pool, orphans, workerVars, mainVars,
                   cleanupMutex, checker, toOpen, history>>

(* CheckAsyncQueue reads the size before it takes _cleanupMutex. *)
ReadQueueSize ==
    /\ checker = "idle" /\ checks > 0
    /\ checks' = checks - 1
    /\ IF Len(queue) < MaxAsyncQueueSize
         THEN UNCHANGED <<checker, toOpen>>
         ELSE /\ checker' = "sized"
              /\ toOpen' = (Len(queue) + MaxAsyncQueueSize - 1) \div MaxAsyncQueueSize
    /\ UNCHANGED <<queue, waiting, shutdown, pool, orphans, workerVars, mainVars,
                   cleanupMutex, history>>

(* Fault variant: the connections are opened without _cleanupMutex. *)
OpenUnlocked ==
    /\ checker = "sized"
    /\ checker' = "opening"
    /\ UNCHANGED <<queue, waiting, shutdown, pool, orphans, workerVars, mainVars,
                   cleanupMutex, checks, toOpen, history>>

LockCleanup ==
    /\ checker = "sized" /\ cleanupMutex = "free"
    /\ checker' = "opening"
    /\ cleanupMutex' = "checker"
    /\ UNCHANGED <<queue, waiting, shutdown, pool, orphans, workerVars, mainVars,
                   checks, toOpen, history>>

(* Fault variant: the loop does not test its bound. *)
OpenNothingUnbounded ==
    /\ checker = "opening"
    /\ toOpen' = toOpen - 1
    /\ UNCHANGED <<queue, waiting, shutdown, pool, orphans, workerVars, mainVars,
                   cleanupMutex, checks, checker, history>>

(* OpenDynamicAsyncConnect: the limit is reached or the server refuses. *)
OpenNothing ==
    /\ checker = "opening" /\ toOpen > 0
    /\ toOpen' = toOpen - 1
    /\ UNCHANGED <<queue, waiting, shutdown, pool, orphans, workerVars, mainVars,
                   cleanupMutex, checks, checker, history>>

(* OpenConnection prepares the statements and starts the worker; the       *)
(* connection is appended to the container.                                *)
OpenConnection(c) ==
    /\ Cardinality(pool) < MaxAsyncConnections
    /\ worker[c] = "none"
    /\ worker' = [worker EXCEPT ![c] = "loop"]
    /\ grown' = TRUE
    /\ UNCHANGED <<queue, waiting, shutdown, held, cancel, mainVars, cleanupMutex,
                   checks, checker, fate, issued, executed>>

(* Against a Close that clears the same vector without a lock, the         *)
(* appended element may be kept or overwritten.                            *)
OpenDynamicAsyncConnect(c) ==
    /\ checker = "opening" /\ toOpen > 0
    /\ toOpen' = toOpen - 1
    /\ \/ pool' = pool \cup {c} /\ UNCHANGED orphans
       \/ closing /\ orphans' = orphans \cup {c} /\ UNCHANGED pool
    /\ OpenConnection(c)

(* The command ".db add dynamic connects", run by the world thread.        *)
AddDynamicConnects(c) ==
    /\ main = "running"
    /\ pool' = pool \cup {c}
    /\ OpenConnection(c)
    /\ UNCHANGED <<orphans, toOpen>>

UnlockCleanup ==
    /\ checker = "opening" /\ toOpen = 0
    /\ checker' = "idle"
    /\ cleanupMutex' = "free"
    /\ UNCHANGED <<queue, waiting, shutdown, pool, orphans, workerVars, mainVars,
                   checks, toOpen, history>>

-----------------------------------------------------------------------------
WorkerStep(c) ==
    \/ Sleep(c) \/ PopOperation(c) \/ PopNothing(c)
    \/ ExitLoop(c) \/ Proceed(c) \/ FinishQuery(c)

DestructorStep ==
    \/ \E c \in Connection : RaiseCancel(c)
    \/ NotifyWorkers \/ JoinWorker \/ FinishErase

CheckerStep ==
    \/ ReadQueueSize \/ LockCleanup \/ OpenNothing \/ UnlockCleanup
    \/ \E c \in Dynamic : OpenDynamicAsyncConnect(c)

(* The process has ended; nothing happens any more. *)
Terminated == main = "destroyed" /\ UNCHANGED vars

Next ==
    \/ \E op \in Operation : Enqueue(op)
    \/ \E c \in Connection : WorkerStep(c) \/ Wakeup(c)
    \/ CleanupConnections \/ Close \/ DestructorStep \/ DestroyPool
    \/ RequestCheck \/ CheckerStep
    \/ \E c \in Dynamic : AddDynamicConnects(c)
    \/ Terminated

(* Every thread that can run does run and ExecuteQuery returns.  Nothing   *)
(* forces a caller to enqueue, the scheduler to act or the pool to close.  *)
Fairness ==
    /\ \A c \in Connection : WF_vars(WorkerStep(c))
    /\ WF_vars(DestructorStep)
    /\ WF_vars(CheckerStep)

Spec == Init /\ [][Next]_vars /\ Fairness

-----------------------------------------------------------------------------
(* Safety. *)

(* An operation is in the queue exactly while its fate says so, never in   *)
(* it twice, and never in the hands of two workers: no statement is run    *)
(* twice and none disappears between Push and WaitAndPop.                  *)
NoDuplicates ==
    /\ IsInjective(queue)
    /\ \A op \in Operation : fate[op] = "queued" <=> op \in ToSet(queue)
    /\ \A c, d \in Connection : held[c] = held[d] /\ held[c] # None => c = d
    /\ \A op \in Operation : fate[op] = "taken" <=> \E c \in Connection : held[c] = op

(* While the pool is in use a queued operation is never left with sleeping *)
(* workers only: somebody who will look at the queue again and is not      *)
(* about to exit is awake, or a destructor is on its way to wake everyone. *)
(* Push wakes one worker; this is what makes the worker that consumes the  *)
(* notification although it is being cancelled harmless.                   *)
NoStrandedOperation ==
    queue # <<>> /\ ~closing =>
        \/ main = "notify"
        \/ \E c \in Connection :
              worker[c] \in {"loop", "returned", "exec"} /\ c \notin waiting /\ ~cancel[c]

(* A query runs only on a connection that still exists: the connection is  *)
(* freed after its worker has been joined.                                 *)
QueryOnLiveConnection ==
    \A c \in Connection : worker[c] # "none" => c \in pool \cup orphans

(* Until the first dynamic connection is opened there is one worker, and   *)
(* operations take effect in the order they were enqueued.                 *)
InOrderUntilGrown ==
    ~grown /\ Cardinality(Static) = 1 => IsPrefix(executed, issued)

(* The main thread rearranges the connection container while the checker   *)
(* appends to it. *)
ContainerRace == main \in {"cancel", "notify", "join"} /\ checker = "opening"

(* CleanupConnections and CheckAsyncQueue exclude each other. *)
CleanupExcludesOpening == ContainerRace => closing

(* What Close's comment promises: "there can be no concurrent access at    *)
(* this point".                                                            *)
CloseIsAlone == ~ContainerRace

(* What Execute and AsyncQuery promise: an enqueued operation "will be     *)
(* executed" and its future gets its value "as soon as the query is        *)
(* executed".  As long as the pool is open, no operation may vanish.       *)
NothingLeaked == ~closing => \A op \in Operation : fate[op] # "leaked"

-----------------------------------------------------------------------------
(* Liveness. *)

(* While the pool stays open every enqueued operation reaches a worker,    *)
(* whatever connections come and go.                                       *)
QueueDrains ==
    \A op \in Operation : fate[op] = "queued" ~> (fate[op] # "queued" \/ closing)

(* Destroying a connection ends: the worker sees the flag and is joined,   *)
(* so CleanupConnections never blocks the world thread for ever.           *)
DestructorReturns == (main = "join") ~> (main \in {"cancel", "closed", "destroyed"})
=============================================================================
