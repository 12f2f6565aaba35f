--------------------------- MODULE SqlTransaction ---------------------------
(***************************************************************************)
(* How a Transaction is executed: TransactionTask and                      *)
(* TransactionWithResultTask on the asynchronous workers (Transaction.cpp), *)
(* DatabaseWorkerPool::DirectCommitTransaction on a synchronous connection, *)
(* and under both MySQLConnection::ExecuteTransaction, Execute and         *)
(* HandleMySQLError.                                                       *)
(*                                                                         *)
(* The MySQL server is external.  It is modelled by what these functions   *)
(* see of it: a session has at most one open transaction, whose effects    *)
(* become durable at COMMIT and vanish with ROLLBACK, with a lock          *)
(* deadlock, or with the session; outside of a transaction a statement is  *)
(* durable at once.  A request may be lost before or after it took effect. *)
(***************************************************************************)
EXTENDS Naturals, Sequences

CONSTANTS
    Worker,     \* threads that execute transactions, each on its connection
    Task,       \* the transactions
    Queries,    \* Transaction::_queries: kinds of statement, per task
    Direct,     \* the tasks run by DirectCommitTransaction
    LoopBreaker,\* loopBreaker of DirectCommitTransaction
    MaxLosses,  \* bound on how often a connection breaks
    None

ASSUME ConstantsAssumption ==
    /\ Queries \in [Task -> Seq({"raw", "prepared"})]
    /\ Direct \subseteq Task
    /\ LoopBreaker \in Nat \ {0}
    /\ MaxLosses \in Nat
    /\ None \notin Worker \cup Task

VARIABLES
    task,     \* the transaction a thread executes
    pc,       \* what the thread does next
    next,     \* index of the statement it is at
    code,     \* what ExecuteTransaction is going to return
    retrying, \* the thread is in one of the two retry loops
    left,     \* iterations left of DirectCommitTransaction's loop
    expired,  \* DEADLOCK_MAX_RETRY_TIME_MS has passed since the loop began
    lock,     \* holder of TransactionTask::_deadlockLock
    handle,   \* _mysqlHandle: live with its statements, reopened, or null
    open,     \* the session has an open transaction
    buffer,   \* effects of the open transaction
    durable,  \* effects that are durable
    twice,    \* history: tasks one of whose statements took effect twice
    disturbed,\* history: tasks that met a broken or reopened connection
    losses,   \* number of broken connections
    aborted,  \* ABORT ended the process
    result    \* what became of each task

control == <<task, pc, next, code, retrying, left, expired, lock, result>>
server == <<open, buffer, durable, twice>>
link == <<handle, losses, aborted, disturbed>>
vars == <<control, server, link>>

Indexes(t) == 1..Len(Queries[t])
Effects(t) == {<<t, i>> : i \in Indexes(t)}
Effect == UNION {Effects(t) : t \in Task}

Result == {"new", "running", "true", "false", "void"}

TypeOK ==
    /\ task \in [Worker -> Task \cup {None}]
    /\ pc \in [Worker -> {"idle", "begin", "stmt", "commit", "rollback",
                          "tried", "lock"}]
    /\ next \in [Worker -> Nat]
    /\ code \in [Worker -> {"ok", "deadlock", "error"}]
    /\ retrying \in [Worker -> BOOLEAN]
    /\ left \in [Worker -> 0..LoopBreaker]
    /\ expired \in [Worker -> BOOLEAN]
    /\ lock \in Worker \cup {None}
    /\ handle \in [Worker -> {"live", "reopened", "null"}]
    /\ open \in [Worker -> BOOLEAN]
    /\ buffer \in [Worker -> SUBSET Effect]
    /\ durable \subseteq Effect
    /\ twice \subseteq Task
    /\ disturbed \subseteq Task
    /\ losses \in 0..MaxLosses
    /\ aborted \in BOOLEAN
    /\ result \in [Task -> Result]

Init ==
    /\ task = [w \in Worker |-> None]
    /\ pc = [w \in Worker |-> "idle"]
    /\ next = [w \in Worker |-> 1]
    /\ code = [w \in Worker |-> "ok"]
    /\ retrying = [w \in Worker |-> FALSE]
    /\ left = [w \in Worker |-> 0]
    /\ expired = [w \in Worker |-> FALSE]
    /\ lock = None
    /\ handle = [w \in Worker |-> "live"]
    /\ open = [w \in Worker |-> FALSE]
    /\ buffer = [w \in Worker |-> {}]
    /\ durable = {} /\ twice = {} /\ disturbed = {}
    /\ losses = 0 /\ aborted = FALSE
    /\ result = [t \in Task |-> "new"]

-----------------------------------------------------------------------------
(* The server's side of a request of thread w.                             *)

(* effects S become durable; a statement run again is counted.             *)
Store(S) ==
    /\ durable' = durable \cup S
    /\ twice' = twice \cup {e[1] : e \in S \cap durable}

CloseSession(w) ==
    /\ open' = [open EXCEPT ![w] = FALSE]
    /\ buffer' = [buffer EXCEPT ![w] = {}]

(* START TRANSACTION commits what the session had open. *)
ServerBegin(w) ==
    /\ Store(buffer[w])
    /\ open' = [open EXCEPT ![w] = TRUE]
    /\ buffer' = [buffer EXCEPT ![w] = {}]

ServerCommit(w) == Store(buffer[w]) /\ CloseSession(w)

ServerRollback(w) == CloseSession(w) /\ UNCHANGED <<durable, twice>>

ServerStatement(w, e) ==
    IF open[w]
      THEN /\ buffer' = [buffer EXCEPT ![w] = @ \cup {e}]
           /\ twice' = IF e \in buffer[w] THEN twice \cup {e[1]} ELSE twice
           /\ UNCHANGED <<open, durable>>
      ELSE Store({e}) /\ UNCHANGED <<open, buffer>>

-----------------------------------------------------------------------------
(* MySQLConnection::ExecuteTransaction. *)

Kind(w) == Queries[task[w]][next[w]]
Statement(w) == <<task[w], next[w]>>

(* A statement reaches the server if there is a handle and, for a prepared *)
(* statement, if it was prepared on this handle: the statements in         *)
(* _stmtList are not prepared again after a reconnect.                     *)
Reaches(w) ==
    handle[w] = "live" \/ (handle[w] = "reopened" /\ Kind(w) = "raw")

GoTo(w, label) == pc' = [pc EXCEPT ![w] = label]

(* Fault variant: the statements run in autocommit mode. *)
BeginNothing(w) ==
    /\ pc[w] = "begin"
    /\ next' = [next EXCEPT ![w] = 1]
    /\ GoTo(w, "stmt")
    /\ UNCHANGED <<server, task, code, retrying, left, expired, lock, result, link>>

(* BeginTransaction; the result of Execute is not looked at. *)
BeginTransaction(w) ==
    /\ pc[w] = "begin"
    /\ IF handle[w] = "null" THEN UNCHANGED server ELSE ServerBegin(w)
    /\ next' = [next EXCEPT ![w] = 1]
    /\ GoTo(w, "stmt")
    /\ UNCHANGED <<task, code, retrying, left, expired, lock, result, link>>

ExecuteStatement(w) ==
    /\ pc[w] = "stmt" /\ Reaches(w)
    /\ ServerStatement(w, Statement(w))
    /\ next' = [next EXCEPT ![w] = @ + 1]
    /\ GoTo(w, IF next[w] = Len(Queries[task[w]]) THEN "commit" ELSE "stmt")
    /\ UNCHANGED <<task, code, retrying, left, expired, lock, result, link>>

(* Execute returned false: GetLastError is read before the rollback. *)
Fail(w, c) ==
    /\ code' = [code EXCEPT ![w] = c]
    /\ GoTo(w, "rollback")
    /\ UNCHANGED <<task, next, retrying, left, expired, lock, result>>

(* ER_LOCK_DEADLOCK: InnoDB has rolled the whole transaction back. *)
DeadlockStatement(w) ==
    /\ pc[w] = "stmt" /\ Reaches(w)
    /\ ServerRollback(w)
    /\ Fail(w, "deadlock")
    /\ UNCHANGED link

(* ER_DUP_ENTRY and the like fail the statement only. *)
FailStatement(w) ==
    /\ pc[w] = "stmt" /\ Reaches(w)
    /\ Fail(w, "error")
    /\ UNCHANGED <<server, link>>

(* Without a handle, or with a statement of a closed one, Execute fails    *)
(* and mysql_errno of the handle is zero.                                  *)
UnreachableStatement(w) ==
    /\ pc[w] = "stmt" /\ ~Reaches(w)
    /\ Fail(w, "ok")
    /\ UNCHANGED <<server, link>>

(* CommitTransaction, then return 0 whatever Execute returned. *)
CommitTransaction(w) ==
    /\ pc[w] = "commit"
    /\ IF handle[w] = "null" THEN UNCHANGED server ELSE ServerCommit(w)
    /\ code' = [code EXCEPT ![w] = "ok"]
    /\ GoTo(w, "tried")
    /\ UNCHANGED <<task, next, retrying, left, expired, lock, result, link>>

(* Fault variant: a failed transaction is left open. *)
ReturnWithoutRollback(w) ==
    /\ pc[w] = "rollback"
    /\ GoTo(w, "tried")
    /\ UNCHANGED <<server, task, next, code, retrying, left, expired, lock, result, link>>

RollbackTransaction(w) ==
    /\ pc[w] = "rollback"
    /\ IF handle[w] = "null" THEN UNCHANGED server ELSE ServerRollback(w)
    /\ GoTo(w, "tried")
    /\ UNCHANGED <<task, next, code, retrying, left, expired, lock, result, link>>

-----------------------------------------------------------------------------
(* The connection breaks during a request: CR_SERVER_GONE_ERROR or         *)
(* CR_SERVER_LOST.                                                         *)

Requesting(w) ==
    \/ pc[w] \in {"begin", "commit", "rollback"} /\ handle[w] # "null"
    \/ pc[w] = "stmt" /\ Reaches(w)

(* The session dies with its transaction; COMMIT, or a statement outside a *)
(* transaction, may have been carried out before.                          *)
LostRequest(w) ==
    /\ CloseSession(w)
    /\ \/ UNCHANGED <<durable, twice>>
       \/ pc[w] = "commit" /\ Store(buffer[w])
       \/ pc[w] = "stmt" /\ ~open[w] /\ Store({Statement(w)})

Break(w) ==
    /\ Requesting(w)
    /\ losses < MaxLosses
    /\ LostRequest(w)
    /\ losses' = losses + 1
    /\ disturbed' = disturbed \cup {task[w]}

(* HandleMySQLError reopens the connection within its attempts and returns *)
(* true: Execute calls itself, so the thread stays where it is.            *)
Reconnect(w) ==
    /\ Break(w)
    /\ handle' = [handle EXCEPT ![w] = "reopened"]
    /\ UNCHANGED <<control, aborted>>

(* Open fails with an error HandleMySQLError does not retry: it returns    *)
(* false, the handle stays null, and Execute fails.                        *)
ReconnectRefused(w) ==
    /\ Break(w)
    /\ handle' = [handle EXCEPT ![w] = "null"]
    /\ UNCHANGED <<control, aborted>>

(* All attempts fail: the process is ended. *)
ReconnectAborts(w) ==
    /\ Break(w)
    /\ aborted' = TRUE
    /\ UNCHANGED <<control, handle>>

-----------------------------------------------------------------------------
(* The callers of ExecuteTransaction. *)

(* ExecuteTransaction returns -1 for an empty transaction. *)
TryExecute(w, t) ==
    IF Queries[t] = <<>>
      THEN GoTo(w, "tried") /\ code' = [code EXCEPT ![w] = "error"]
      ELSE GoTo(w, "begin") /\ UNCHANGED code

Start(w, t) ==
    /\ pc[w] = "idle" /\ result[t] = "new"
    /\ task' = [task EXCEPT ![w] = t]
    /\ result' = [result EXCEPT ![t] = "running"]
    /\ TryExecute(w, t)
    /\ disturbed' = IF handle[w] = "live" THEN disturbed ELSE disturbed \cup {t}
    /\ UNCHANGED <<next, retrying, left, expired, lock, server, handle, losses, aborted>>

(* The task is over: the thread gives back what it holds, its locals die. *)
Report(w, r) ==
    /\ result' = [result EXCEPT ![task[w]] = r]
    /\ task' = [task EXCEPT ![w] = None]
    /\ GoTo(w, "idle")
    /\ retrying' = [retrying EXCEPT ![w] = FALSE]
    /\ lock' = IF lock = w THEN None ELSE lock
    /\ left' = [left EXCEPT ![w] = 0]
    /\ expired' = [expired EXCEPT ![w] = FALSE]
    /\ next' = [next EXCEPT ![w] = 1]
    /\ code' = [code EXCEPT ![w] = "ok"]
    /\ UNCHANGED <<server, link>>

Tried(w, isDirect) ==
    pc[w] = "tried" /\ (task[w] \in Direct) = isDirect

(* TransactionWithResultTask::ExecuteQuery; TransactionTask::ExecuteQuery  *)
(* differs in having no promise to set.                                    *)
Succeed(w) ==
    /\ Tried(w, FALSE) /\ code[w] = "ok"
    /\ Report(w, "true")

FailTask(w) ==
    /\ Tried(w, FALSE) /\ code[w] = "error" /\ ~retrying[w]
    /\ Report(w, "false")

WaitForLock(w) ==
    /\ Tried(w, FALSE) /\ code[w] = "deadlock" /\ ~retrying[w]
    /\ GoTo(w, "lock")
    /\ UNCHANGED <<task, next, code, retrying, left, expired, lock, result, server, link>>

(* The first iteration of the loop is always made. *)
Locked(w) ==
    /\ retrying' = [retrying EXCEPT ![w] = TRUE]
    /\ lock' = w
    /\ GoTo(w, "begin")
    /\ UNCHANGED <<task, next, code, left, expired, result, server, link>>

LockDeadlock(w) == pc[w] = "lock" /\ lock = None /\ Locked(w)

(* GetMSTimeDiffToNow exceeds the limit from some moment on. *)
ClockPasses(w) ==
    /\ retrying[w] /\ task[w] \notin Direct /\ ~expired[w]
    /\ expired' = [expired EXCEPT ![w] = TRUE]
    /\ UNCHANGED <<task, pc, next, code, retrying, left, lock, result, server, link>>

(* In the loop every failure is retried until the time is up. *)
RetryLoop(w) ==
    /\ Tried(w, FALSE) /\ code[w] # "ok" /\ retrying[w] /\ ~expired[w]
    /\ GoTo(w, "begin")
    /\ UNCHANGED <<task, next, code, retrying, left, expired, lock, result, server, link>>

(* Fault variant: giving up forgets to leave the critical section. *)
TimeUpKeepLock(w) ==
    /\ Tried(w, FALSE) /\ code[w] # "ok" /\ retrying[w] /\ expired[w]
    /\ result' = [result EXCEPT ![task[w]] = "false"]
    /\ task' = [task EXCEPT ![w] = None]
    /\ GoTo(w, "idle")
    /\ retrying' = [retrying EXCEPT ![w] = FALSE]
    /\ UNCHANGED <<next, code, left, expired, lock, server, link>>

(* The loop ends: the failure is reported. *)
TimeUp(w) ==
    /\ Tried(w, FALSE) /\ code[w] # "ok" /\ retrying[w] /\ expired[w]
    /\ Report(w, "false")

(* Fault variant: the loop breaker is not tested. *)
RetryDirectForever(w) ==
    /\ Tried(w, TRUE)
    /\ \/ code[w] = "deadlock" /\ ~retrying[w] /\ left' = [left EXCEPT ![w] = LoopBreaker - 1]
       \/ code[w] # "ok" /\ retrying[w] /\ left' = [left EXCEPT ![w] = @ - 1]
    /\ retrying' = [retrying EXCEPT ![w] = TRUE]
    /\ GoTo(w, "begin")
    /\ UNCHANGED <<task, next, code, expired, lock, result, server, link>>

(* DirectCommitTransaction has no promise and reports to nobody. *)
RetryDirect(w) ==
    /\ Tried(w, TRUE)
    /\ \/ code[w] = "deadlock" /\ ~retrying[w] /\ left' = [left EXCEPT ![w] = LoopBreaker - 1]
       \/ code[w] # "ok" /\ retrying[w] /\ left[w] > 0 /\ left' = [left EXCEPT ![w] = @ - 1]
    /\ retrying' = [retrying EXCEPT ![w] = TRUE]
    /\ GoTo(w, "begin")
    /\ UNCHANGED <<task, next, code, expired, lock, result, server, link>>

FinishDirect(w) ==
    /\ Tried(w, TRUE)
    /\ \/ code[w] = "ok"
       \/ code[w] = "error" /\ ~retrying[w]
       \/ retrying[w] /\ left[w] = 0
    /\ Report(w, "void")

-----------------------------------------------------------------------------
ThreadStep(w) ==
    \/ BeginTransaction(w) \/ ExecuteStatement(w) \/ DeadlockStatement(w)
    \/ FailStatement(w) \/ UnreachableStatement(w)
    \/ CommitTransaction(w) \/ RollbackTransaction(w)
    \/ Succeed(w) \/ FailTask(w) \/ WaitForLock(w) \/ LockDeadlock(w)
    \/ RetryLoop(w) \/ TimeUp(w) \/ RetryDirect(w) \/ FinishDirect(w)

LinkStep(w) == Reconnect(w) \/ ReconnectRefused(w) \/ ReconnectAborts(w)

Step ==
    /\ ~aborted
    /\ \E w \in Worker :
          \/ ThreadStep(w) \/ LinkStep(w) \/ ClockPasses(w)
          \/ \E t \in Task : Start(w, t)

Terminated ==
    /\ aborted \/ \A t \in Task : result[t] \in {"true", "false", "void"}
    /\ UNCHANGED vars

Next == Step \/ Terminated

(* Threads run, the server answers and the clock does not stand still.     *)
(* _deadlockLock is an unfair mutex: weak fairness of LockDeadlock is all  *)
(* there is, and it is enough because each task takes the lock only once.  *)
Fairness ==
    \A w \in Worker :
        /\ WF_vars(~aborted /\ ThreadStep(w))
        /\ WF_vars(~aborted /\ ClockPasses(w))

Spec == Init /\ [][Next]_vars /\ Fairness

-----------------------------------------------------------------------------
(* Safety. *)

(* What the database shows of a task. *)
EffectOf(t) ==
    IF t \in disturbed THEN "unknown"
    ELSE IF Effects(t) \cap durable = {} THEN "none"
    ELSE IF Effects(t) \subseteq durable THEN "all" ELSE "part"

Promised ==
    INSTANCE AtomicTransactions WITH
        report <- [t \in Task |-> IF t \in disturbed THEN "unknown" ELSE result[t]],
        effect <- [t \in Task |-> EffectOf(t)]

(* Executing transactions with statements, retries, two kinds of caller    *)
(* and a server on the other side of a breakable connection implements the *)
(* atomic transactions a caller has in mind: effects appear only while the *)
(* task runs and all at once, none appears after it was reported, and the  *)
(* report is the truth.                                                    *)
ImplementsAtomic == Promised!Spec

(* A task whose connection never broke is durable as a whole or not at     *)
(* all, through any number of deadlocks, statement errors and retries.     *)
Atomic ==
    \A t \in Task \ disturbed :
        durable \cap Effects(t) \in {{}, Effects(t)}

(* What such a task reports is what happened. *)
Truthful ==
    \A t \in Task \ disturbed :
        /\ result[t] = "true" => Effects(t) \subseteq durable
        /\ result[t] = "false" => Effects(t) \cap durable = {}

(* A transaction retried after a deadlock starts from nothing: no          *)
(* statement takes effect twice.                                           *)
NotTwice == twice \subseteq disturbed

(* A connection is handed back without an open transaction, in which the   *)
(* next operation would disappear: this holds whatever breaks.             *)
NoLeftoverTransaction ==
    \A w \in Worker : pc[w] = "idle" => ~open[w] /\ buffer[w] = {}

(* Of the asynchronous threads only one retries a deadlocked transaction.  *)
OneRetrier ==
    \A v, w \in Worker :
        /\ retrying[v] /\ task[v] \notin Direct
        /\ retrying[w] /\ task[w] \notin Direct
        => v = w

(* What BeginTransaction promises of every transaction: it "will           *)
(* automatically rollback if not commited", so that no part of it is ever  *)
(* durable without the rest once it is over.                               *)
AlwaysAtomic ==
    \A t \in Task :
        result[t] \in {"true", "false", "void"} =>
            durable \cap Effects(t) \in {{}, Effects(t)}

-----------------------------------------------------------------------------
(* Liveness. *)

(* A transaction that was started is reported or the process has ended; in *)
(* particular no thread waits for _deadlockLock for ever.                  *)
EveryTaskReported ==
    \A t \in Task : result[t] = "running" ~> (result[t] # "running" \/ aborted)
=============================================================================
