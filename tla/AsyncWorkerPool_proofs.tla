----------------------- MODULE AsyncWorkerPool_proofs -----------------------
(***************************************************************************)
(* Proofs about AsyncWorkerPool, for any sets of operations and            *)
(* connections and any limits: its threads and results first, then the     *)
(* order in which operations take effect.                                  *)
(***************************************************************************)
EXTENDS AsyncWorkerPool, FiniteSetTheorems, SequenceTheorems, TLAPS

(* While the pool is in use the static workers are alive and not           *)
(* cancelled: only dynamic connections are ever chosen for destruction.    *)
StaticWorkersServe ==
    ~closing =>
        /\ \A c \in Static :
              worker[c] \in {"loop", "returned", "exec"} /\ ~cancel[c]
        /\ doomed \subseteq Dynamic
        /\ victim \in Dynamic \cup {None}

(* Only a worker inside WaitAndPop sleeps. *)
SleepersLoop == \A c \in waiting : worker[c] = "loop"

(* A cancelled worker is asleep only until its destructor has notified it. *)
CancelledSleeper ==
    \A c \in waiting : cancel[c] => main = "notify"

(* How the program counter of the main thread, the victim, the mutex and   *)
(* the shutdown of the queue go together.                                  *)
MainIsSound ==
    /\ main \in {"notify", "join"} => victim \in Connection
    /\ main \in {"closed", "destroyed"} => closing
    /\ main = "running" => ~closing
    /\ shutdown => closing
    /\ main = "running" => cleanupMutex # "main"
    /\ main \in {"cancel", "notify", "join"} /\ ~closing => cleanupMutex = "main"
    /\ checker = "opening" => cleanupMutex = "checker"

(* Only a worker between WaitAndPop and the end of ExecuteQuery holds an   *)
(* operation.                                                              *)
HeldIsSound ==
    /\ \A c \in Connection : worker[c] \in {"none", "loop", "exited"} => held[c] = None
    /\ \A c \in Connection : worker[c] = "exec" => held[c] # None

IInv ==
    /\ TypeOK
    /\ StaticWorkersServe
    /\ CancelledSleeper
    /\ MainIsSound
    /\ HeldIsSound
    /\ SleepersLoop
    /\ NoStrandedOperation
    /\ QueryOnLiveConnection

-----------------------------------------------------------------------------
(* Before the first operation the invariant holds. *)
LEMMA InitIInv == Init => IInv
<1> SUFFICES ASSUME Init PROVE IInv
  OBVIOUS
<1> USE DEF Init, Q!InitPCQueue
<1>1. TypeOK
  <2>1. /\ queue \in Seq(Operation) /\ issued \in Seq(Operation)
        /\ executed \in Seq(Operation)
    BY EmptySeq
  <2>2. /\ worker \in [Connection -> WorkerState]
        /\ held \in [Connection -> Operation \cup {None}]
        /\ cancel \in [Connection -> BOOLEAN]
        /\ fate \in [Operation -> Fate]
    BY DEF WorkerState, Fate
  <2>3. pool \subseteq Connection
    BY DEF Connection
  <2>4. QED
    BY <2>1, <2>2, <2>3 DEF TypeOK
<1>2. StaticWorkersServe
  BY DEF StaticWorkersServe, Connection
<1>3. CancelledSleeper /\ MainIsSound /\ HeldIsSound /\ SleepersLoop /\ NoStrandedOperation
  BY DEF CancelledSleeper, MainIsSound, HeldIsSound, SleepersLoop, NoStrandedOperation
<1>4. QueryOnLiveConnection
  BY DEF QueryOnLiveConnection
<1>5. QED
  BY <1>1, <1>2, <1>3, <1>4 DEF IInv

(* While the pool is in use, the static workers make NoStrandedOperation   *)
(* true as soon as one of them is awake.                                   *)
LEMMA AwakeStatic ==
    ASSUME StaticWorkersServe, NEW c \in Static, c \notin waiting
    PROVE  NoStrandedOperation
BY DEF StaticWorkersServe, NoStrandedOperation, Connection

(* Steps of the callers keep the invariant. *)
LEMMA CallerKeepsIInv ==
    ASSUME IInv,
           \E op \in Operation : Enqueue(op)
    PROVE  IInv'
<1> USE DEF IInv, workerVars, mainVars, checkerVars, history
<1>1. ASSUME NEW op \in Operation, Enqueue(op) PROVE IInv'
  <2>1. TypeOK'
    BY <1>1, AppendProperties
       DEF TypeOK, WorkerState, Fate, Connection, Enqueue, Q!Push, Q!NotifyOne
  <2>2. StaticWorkersServe'
    BY <1>1 DEF StaticWorkersServe, Enqueue, Q!Push, Q!NotifyOne
  <2>3. CancelledSleeper'
    BY <1>1 DEF CancelledSleeper, Enqueue, Q!Push, Q!NotifyOne
  <2>4. MainIsSound'
    BY <1>1 DEF MainIsSound, Enqueue, Q!Push, Q!NotifyOne
  <2>5. NoStrandedOperation'
    <3>1. ~closing /\ Static # {}
      BY <1>1, ConstantsAssumption DEF Enqueue
    <3>2. PICK c \in Static : TRUE
      BY <3>1
    <3>3. UNCHANGED <<worker, cancel, main, closing>>
      BY <1>1 DEF Enqueue
    <3>4. CASE waiting' = {}
      BY <3>1, <3>2, <3>3, <3>4 DEF StaticWorkersServe, NoStrandedOperation, Connection
    <3>5. CASE \E t \in waiting : waiting' = waiting \ {t}
      \* t: main = notify, or uncancelled and hence asleep in its loop
      <4>1. PICK t \in waiting : waiting' = waiting \ {t}
        BY <3>5
      <4>2. worker[t] = "loop" /\ t \in Connection
        BY DEF SleepersLoop, TypeOK
      <4>3. main = "notify" \/ ~cancel[t]
        BY DEF CancelledSleeper
      <4>4. QED
        BY <3>3, <4>1, <4>2, <4>3 DEF NoStrandedOperation
    <3>6. QED
      BY <1>1, <3>4, <3>5 DEF Enqueue, Q!Push, Q!NotifyOne
  <2>6. QueryOnLiveConnection'
    BY <1>1 DEF QueryOnLiveConnection, Enqueue, Q!Push, Q!NotifyOne
  <2>7. HeldIsSound'
    BY <1>1 DEF HeldIsSound, Enqueue, Q!Push, Q!NotifyOne
  <2>8. SleepersLoop'
    BY <1>1 DEF SleepersLoop, Enqueue, Q!Push, Q!NotifyOne
  <2>9. QED
    BY <2>1, <2>2, <2>3, <2>4, <2>5, <2>6, <2>7, <2>8
<1>2. QED
  BY <1>1

(* Steps of a worker keep the invariant. *)
LEMMA WorkerKeepsIInv ==
    ASSUME IInv,
           \/ \E c \in Connection : Sleep(c)
           \/ \E c \in Connection : Wakeup(c)
           \/ \E c \in Connection : PopOperation(c)
           \/ \E c \in Connection : PopNothing(c)
           \/ \E c \in Connection : ExitLoop(c)
           \/ \E c \in Connection : Proceed(c)
           \/ \E c \in Connection : FinishQuery(c)
    PROVE  IInv'
<1> USE DEF IInv, workerVars, mainVars, checkerVars, history
<1>1. ASSUME NEW c \in Connection, Sleep(c) PROVE IInv'
  <2>1. TypeOK'
    BY <1>1 DEF TypeOK, Sleep, AtWaitAndPop, Q!Blocks
  <2>2. StaticWorkersServe'
    BY <1>1 DEF StaticWorkersServe, Sleep, AtWaitAndPop, Q!Blocks
  <2>3. CancelledSleeper'
    BY <1>1 DEF CancelledSleeper, Sleep, AtWaitAndPop, Q!Blocks
  <2>4. MainIsSound'
    BY <1>1 DEF MainIsSound, Sleep, AtWaitAndPop, Q!Blocks
  <2>5. NoStrandedOperation'
    BY <1>1 DEF NoStrandedOperation, Sleep, AtWaitAndPop, Q!Blocks
  <2>6. QueryOnLiveConnection'
    BY <1>1 DEF QueryOnLiveConnection, Sleep, AtWaitAndPop, Q!Blocks
  <2>7. HeldIsSound'
    BY <1>1 DEF HeldIsSound, Sleep, AtWaitAndPop, Q!Blocks
  <2>8. SleepersLoop'
    BY <1>1 DEF SleepersLoop, Sleep, AtWaitAndPop, Q!Blocks
  <2>9. QED
    BY <2>1, <2>2, <2>3, <2>4, <2>5, <2>6, <2>7, <2>8
<1>2. ASSUME NEW c \in Connection, Wakeup(c) PROVE IInv'
  <2>1. TypeOK'
    BY <1>2 DEF TypeOK, Wakeup, Q!SpuriousWakeup
  <2>2. StaticWorkersServe'
    BY <1>2 DEF StaticWorkersServe, Wakeup, Q!SpuriousWakeup
  <2>3. CancelledSleeper'
    BY <1>2 DEF CancelledSleeper, Wakeup, Q!SpuriousWakeup
  <2>4. MainIsSound'
    BY <1>2 DEF MainIsSound, Wakeup, Q!SpuriousWakeup
  <2>5. NoStrandedOperation'
    BY <1>2 DEF NoStrandedOperation, Wakeup, Q!SpuriousWakeup
  <2>6. QueryOnLiveConnection'
    BY <1>2 DEF QueryOnLiveConnection, Wakeup, Q!SpuriousWakeup
  <2>7. HeldIsSound'
    BY <1>2 DEF HeldIsSound, Wakeup, Q!SpuriousWakeup
  <2>8. SleepersLoop'
    BY <1>2 DEF SleepersLoop, Wakeup, Q!SpuriousWakeup
  <2>9. QED
    BY <2>1, <2>2, <2>3, <2>4, <2>5, <2>6, <2>7, <2>8
<1>3. ASSUME NEW c \in Connection, PopOperation(c) PROVE IInv'
  <2>1. TypeOK'
    BY <1>3, HeadTailProperties
       DEF TypeOK, WorkerState, Fate, Connection, PopOperation, AtWaitAndPop, Q!Takes
  <2>2. StaticWorkersServe'
    BY <1>3 DEF StaticWorkersServe, PopOperation, AtWaitAndPop, Q!Takes
  <2>3. CancelledSleeper'
    BY <1>3 DEF CancelledSleeper, PopOperation, AtWaitAndPop, Q!Takes
  <2>4. MainIsSound'
    BY <1>3 DEF MainIsSound, PopOperation, AtWaitAndPop, Q!Takes
  <2>5. NoStrandedOperation'
    BY <1>3 DEF NoStrandedOperation, PopOperation, AtWaitAndPop, Q!Takes
  <2>6. QueryOnLiveConnection'
    BY <1>3 DEF QueryOnLiveConnection, PopOperation, AtWaitAndPop, Q!Takes
  <2>7. HeldIsSound'
    BY <1>3 DEF HeldIsSound, TypeOK, PopOperation, AtWaitAndPop, Q!Takes
  <2>8. SleepersLoop'
    BY <1>3 DEF SleepersLoop, PopOperation, AtWaitAndPop, Q!Takes
  <2>9. QED
    BY <2>1, <2>2, <2>3, <2>4, <2>5, <2>6, <2>7, <2>8
<1>4. ASSUME NEW c \in Connection, PopNothing(c) PROVE IInv'
  <2>1. TypeOK'
    BY <1>4
       DEF TypeOK, WorkerState, Fate, Connection, PopNothing, AtWaitAndPop,
           Q!ReturnsNothing, Q!pcqVars
  <2>2. StaticWorkersServe'
    BY <1>4 DEF StaticWorkersServe, PopNothing, AtWaitAndPop, Q!ReturnsNothing, Q!pcqVars
  <2>3. CancelledSleeper'
    BY <1>4 DEF CancelledSleeper, PopNothing, AtWaitAndPop, Q!ReturnsNothing, Q!pcqVars
  <2>4. MainIsSound'
    BY <1>4 DEF MainIsSound, PopNothing, AtWaitAndPop, Q!ReturnsNothing, Q!pcqVars
  <2>5. NoStrandedOperation'
    BY <1>4 DEF NoStrandedOperation, PopNothing, AtWaitAndPop, Q!ReturnsNothing, Q!pcqVars
  <2>6. QueryOnLiveConnection'
    BY <1>4 DEF QueryOnLiveConnection, PopNothing, AtWaitAndPop, Q!ReturnsNothing, Q!pcqVars
  <2>7. HeldIsSound'
    BY <1>4 DEF HeldIsSound, PopNothing, AtWaitAndPop, Q!ReturnsNothing, Q!pcqVars
  <2>8. SleepersLoop'
    BY <1>4 DEF SleepersLoop, PopNothing, AtWaitAndPop, Q!ReturnsNothing, Q!pcqVars
  <2>9. QED
    BY <2>1, <2>2, <2>3, <2>4, <2>5, <2>6, <2>7, <2>8
<1>5. ASSUME NEW c \in Connection, ExitLoop(c) PROVE IInv'
  <2>1. TypeOK'
    BY <1>5 DEF TypeOK, WorkerState, Fate, Connection, ExitLoop
  <2>2. StaticWorkersServe'
    BY <1>5 DEF StaticWorkersServe, ExitLoop
  <2>3. CancelledSleeper'
    BY <1>5 DEF CancelledSleeper, ExitLoop
  <2>4. MainIsSound'
    BY <1>5 DEF MainIsSound, ExitLoop
  <2>5. NoStrandedOperation'
    BY <1>5 DEF NoStrandedOperation, ExitLoop
  <2>6. QueryOnLiveConnection'
    BY <1>5 DEF QueryOnLiveConnection, ExitLoop
  <2>7. HeldIsSound'
    BY <1>5 DEF HeldIsSound, TypeOK, ExitLoop
  <2>8. SleepersLoop'
    BY <1>5 DEF SleepersLoop, ExitLoop
  <2>9. QED
    BY <2>1, <2>2, <2>3, <2>4, <2>5, <2>6, <2>7, <2>8
<1>6. ASSUME NEW c \in Connection, Proceed(c) PROVE IInv'
  <2>1. TypeOK'
    BY <1>6 DEF TypeOK, WorkerState, Fate, Connection, Proceed
  <2>2. StaticWorkersServe'
    BY <1>6 DEF StaticWorkersServe, Proceed
  <2>3. CancelledSleeper'
    BY <1>6 DEF CancelledSleeper, Proceed
  <2>4. MainIsSound'
    BY <1>6 DEF MainIsSound, Proceed
  <2>5. NoStrandedOperation'
    BY <1>6 DEF NoStrandedOperation, Proceed
  <2>6. QueryOnLiveConnection'
    BY <1>6 DEF QueryOnLiveConnection, Proceed
  <2>7. HeldIsSound'
    BY <1>6 DEF HeldIsSound, Proceed
  <2>8. SleepersLoop'
    BY <1>6 DEF SleepersLoop, Proceed
  <2>9. QED
    BY <2>1, <2>2, <2>3, <2>4, <2>5, <2>6, <2>7, <2>8
<1>7. ASSUME NEW c \in Connection, FinishQuery(c) PROVE IInv'
  <2>1. TypeOK'
    <3>1. held[c] \in Operation
      BY <1>7 DEF TypeOK, HeldIsSound, FinishQuery
    <3>2. executed' \in Seq(Operation)
      BY <1>7, <3>1, AppendProperties DEF TypeOK, FinishQuery
    <3>3. QED
      BY <1>7, <3>2 DEF TypeOK, WorkerState, Fate, FinishQuery
  <2>2. StaticWorkersServe'
    BY <1>7 DEF StaticWorkersServe, FinishQuery
  <2>3. CancelledSleeper'
    BY <1>7 DEF CancelledSleeper, FinishQuery
  <2>4. MainIsSound'
    BY <1>7 DEF MainIsSound, FinishQuery
  <2>5. NoStrandedOperation'
    BY <1>7 DEF NoStrandedOperation, FinishQuery
  <2>6. QueryOnLiveConnection'
    BY <1>7 DEF QueryOnLiveConnection, FinishQuery
  <2>7. HeldIsSound'
    BY <1>7 DEF HeldIsSound, TypeOK, FinishQuery
  <2>8. SleepersLoop'
    BY <1>7 DEF SleepersLoop, FinishQuery
  <2>9. QED
    BY <2>1, <2>2, <2>3, <2>4, <2>5, <2>6, <2>7, <2>8
<1>8. QED
  BY <1>1, <1>2, <1>3, <1>4, <1>5, <1>6, <1>7

(* Steps of the main thread keep the invariant. *)
LEMMA MainKeepsIInv ==
    ASSUME IInv,
           \/ CleanupConnections
           \/ Close
           \/ \E c \in Connection : RaiseCancel(c)
           \/ NotifyWorkers
           \/ JoinWorker
           \/ FinishErase
           \/ DestroyPool
    PROVE  IInv'
<1> USE DEF IInv, workerVars, mainVars, checkerVars, history
<1>1. CASE CleanupConnections
  <2>1. TypeOK'
    BY <1>1 DEF TypeOK, CleanupConnections
  <2>2. StaticWorkersServe'
    BY <1>1 DEF StaticWorkersServe, CleanupConnections
  <2>3. CancelledSleeper'
    BY <1>1 DEF CancelledSleeper, CleanupConnections
  <2>4. MainIsSound'
    BY <1>1 DEF MainIsSound, CleanupConnections
  <2>5. NoStrandedOperation'
    BY <1>1 DEF NoStrandedOperation, CleanupConnections
  <2>6. QueryOnLiveConnection'
    BY <1>1 DEF QueryOnLiveConnection, CleanupConnections
  <2>7. HeldIsSound'
    BY <1>1 DEF HeldIsSound, CleanupConnections
  <2>8. SleepersLoop'
    BY <1>1 DEF SleepersLoop, CleanupConnections
  <2>9. QED
    BY <2>1, <2>2, <2>3, <2>4, <2>5, <2>6, <2>7, <2>8
<1>2. CASE Close
  <2>1. TypeOK'
    BY <1>2 DEF TypeOK, Close
  <2>2. StaticWorkersServe'
    BY <1>2 DEF StaticWorkersServe, Close
  <2>3. CancelledSleeper'
    BY <1>2 DEF CancelledSleeper, Close
  <2>4. MainIsSound'
    BY <1>2 DEF MainIsSound, Close
  <2>5. NoStrandedOperation'
    BY <1>2 DEF NoStrandedOperation, Close
  <2>6. QueryOnLiveConnection'
    BY <1>2 DEF QueryOnLiveConnection, Close
  <2>7. HeldIsSound'
    BY <1>2 DEF HeldIsSound, Close
  <2>8. SleepersLoop'
    BY <1>2 DEF SleepersLoop, Close
  <2>9. QED
    BY <2>1, <2>2, <2>3, <2>4, <2>5, <2>6, <2>7, <2>8
<1>3. ASSUME NEW c \in Connection, RaiseCancel(c) PROVE IInv'
  <2>1. TypeOK'
    BY <1>3 DEF TypeOK, RaiseCancel
  <2>2. StaticWorkersServe'
    BY <1>3, ConstantsAssumption
       DEF StaticWorkersServe, TypeOK, MainIsSound, Connection, RaiseCancel
  <2>3. CancelledSleeper'
    BY <1>3 DEF CancelledSleeper, RaiseCancel
  <2>4. MainIsSound'
    BY <1>3 DEF MainIsSound, RaiseCancel
  <2>5. NoStrandedOperation'
    BY <1>3 DEF NoStrandedOperation, RaiseCancel
  <2>6. QueryOnLiveConnection'
    BY <1>3 DEF QueryOnLiveConnection, RaiseCancel
  <2>7. HeldIsSound'
    BY <1>3 DEF HeldIsSound, RaiseCancel
  <2>8. SleepersLoop'
    BY <1>3 DEF SleepersLoop, RaiseCancel
  <2>9. QED
    BY <2>1, <2>2, <2>3, <2>4, <2>5, <2>6, <2>7, <2>8
<1>4. CASE NotifyWorkers
  <2>1. TypeOK'
    BY <1>4 DEF TypeOK, NotifyWorkers, Q!NotifyAll
  <2>2. StaticWorkersServe'
    BY <1>4 DEF StaticWorkersServe, NotifyWorkers, Q!NotifyAll
  <2>3. CancelledSleeper'
    BY <1>4 DEF CancelledSleeper, NotifyWorkers, Q!NotifyAll
  <2>4. MainIsSound'
    BY <1>4 DEF MainIsSound, NotifyWorkers, Q!NotifyAll
  <2>5. NoStrandedOperation'
    BY <1>4, ConstantsAssumption
       DEF NoStrandedOperation, TypeOK, Connection, StaticWorkersServe, MainIsSound,
           CancelledSleeper, NotifyWorkers, Q!NotifyAll
  <2>6. QueryOnLiveConnection'
    BY <1>4 DEF QueryOnLiveConnection, NotifyWorkers, Q!NotifyAll
  <2>7. HeldIsSound'
    BY <1>4 DEF HeldIsSound, NotifyWorkers, Q!NotifyAll
  <2>8. SleepersLoop'
    BY <1>4 DEF SleepersLoop, NotifyWorkers, Q!NotifyAll
  <2>9. QED
    BY <2>1, <2>2, <2>3, <2>4, <2>5, <2>6, <2>7, <2>8
<1>5. CASE JoinWorker
  <2>1. TypeOK'
    BY <1>5 DEF TypeOK, WorkerState, Fate, Connection, JoinWorker, Destroyed
  <2>2. StaticWorkersServe'
    BY <1>5 DEF StaticWorkersServe, JoinWorker, Destroyed
  <2>3. CancelledSleeper'
    BY <1>5 DEF CancelledSleeper, JoinWorker, Destroyed
  <2>4. MainIsSound'
    BY <1>5 DEF MainIsSound, JoinWorker, Destroyed
  <2>5. NoStrandedOperation'
    BY <1>5 DEF NoStrandedOperation, JoinWorker, Destroyed
  <2>6. QueryOnLiveConnection'
    BY <1>5 DEF QueryOnLiveConnection, TypeOK, JoinWorker, Destroyed
  <2>7. HeldIsSound'
    BY <1>5 DEF HeldIsSound, JoinWorker, Destroyed
  <2>8. SleepersLoop'
    BY <1>5 DEF SleepersLoop, JoinWorker, Destroyed
  <2>9. QED
    BY <2>1, <2>2, <2>3, <2>4, <2>5, <2>6, <2>7, <2>8
<1>6. CASE FinishErase
  <2>1. TypeOK'
    BY <1>6 DEF TypeOK, FinishErase
  <2>2. StaticWorkersServe'
    BY <1>6 DEF StaticWorkersServe, FinishErase
  <2>3. CancelledSleeper'
    BY <1>6 DEF CancelledSleeper, FinishErase
  <2>4. MainIsSound'
    BY <1>6 DEF MainIsSound, FinishErase
  <2>5. NoStrandedOperation'
    BY <1>6 DEF NoStrandedOperation, FinishErase
  <2>6. QueryOnLiveConnection'
    BY <1>6 DEF QueryOnLiveConnection, FinishErase
  <2>7. HeldIsSound'
    BY <1>6 DEF HeldIsSound, FinishErase
  <2>8. SleepersLoop'
    BY <1>6 DEF SleepersLoop, FinishErase
  <2>9. QED
    BY <2>1, <2>2, <2>3, <2>4, <2>5, <2>6, <2>7, <2>8
<1>7. CASE DestroyPool
  <2>1. TypeOK'
    BY <1>7, EmptySeq DEF TypeOK, WorkerState, Fate, Connection, DestroyPool, Q!Cancel
  <2>2. StaticWorkersServe'
    BY <1>7 DEF StaticWorkersServe, DestroyPool, Q!Cancel
  <2>3. CancelledSleeper'
    BY <1>7 DEF CancelledSleeper, DestroyPool, Q!Cancel
  <2>4. MainIsSound'
    BY <1>7 DEF MainIsSound, DestroyPool, Q!Cancel
  <2>5. NoStrandedOperation'
    BY <1>7 DEF NoStrandedOperation, DestroyPool, Q!Cancel
  <2>6. QueryOnLiveConnection'
    BY <1>7 DEF QueryOnLiveConnection, DestroyPool, Q!Cancel
  <2>7. HeldIsSound'
    BY <1>7 DEF HeldIsSound, DestroyPool, Q!Cancel
  <2>8. SleepersLoop'
    BY <1>7 DEF SleepersLoop, DestroyPool, Q!Cancel
  <2>9. QED
    BY <2>1, <2>2, <2>3, <2>4, <2>5, <2>6, <2>7, <2>8
<1>8. QED
  BY <1>1, <1>2, <1>3, <1>4, <1>5, <1>6, <1>7

(* Steps of the checker thread and its timer, and the command, keep the    *)
(* invariant.                                                              *)
LEMMA CheckerKeepsIInv ==
    ASSUME IInv,
           \/ RequestCheck
           \/ ReadQueueSize
           \/ LockCleanup
           \/ OpenNothing
           \/ \E c \in Dynamic : OpenDynamicAsyncConnect(c) \/ AddDynamicConnects(c)
           \/ UnlockCleanup
    PROVE  IInv'
<1> USE DEF IInv, workerVars, mainVars, checkerVars, history
<1>1. CASE RequestCheck
  <2>1. TypeOK'
    BY <1>1 DEF TypeOK, RequestCheck
  <2>2. StaticWorkersServe'
    BY <1>1 DEF StaticWorkersServe, RequestCheck
  <2>3. CancelledSleeper'
    BY <1>1 DEF CancelledSleeper, RequestCheck
  <2>4. MainIsSound'
    BY <1>1 DEF MainIsSound, RequestCheck
  <2>5. NoStrandedOperation'
    BY <1>1 DEF NoStrandedOperation, RequestCheck
  <2>6. QueryOnLiveConnection'
    BY <1>1 DEF QueryOnLiveConnection, RequestCheck
  <2>7. HeldIsSound'
    BY <1>1 DEF HeldIsSound, RequestCheck
  <2>8. SleepersLoop'
    BY <1>1 DEF SleepersLoop, RequestCheck
  <2>9. QED
    BY <2>1, <2>2, <2>3, <2>4, <2>5, <2>6, <2>7, <2>8
<1>2. CASE ReadQueueSize
  <2>1. TypeOK'
    <3>1. /\ Len(queue) \in Nat /\ MaxAsyncQueueSize \in Nat /\ MaxAsyncQueueSize > 0
      BY LenProperties, ConstantsAssumption DEF TypeOK
    <3>2. \A k, n \in Nat : n > 0 => (k + n - 1) \div n \in Nat
      OBVIOUS
    <3>3. checks' \in Nat /\ checker' \in {"idle", "sized", "opening"}
      BY <1>2 DEF TypeOK, ReadQueueSize
    <3>4. toOpen' \in Nat
      BY <1>2, <3>1, <3>2 DEF TypeOK, ReadQueueSize
    <3>5. QED
      BY <1>2, <3>3, <3>4 DEF TypeOK, ReadQueueSize
  <2>2. StaticWorkersServe'
    BY <1>2 DEF StaticWorkersServe, ReadQueueSize
  <2>3. CancelledSleeper'
    BY <1>2 DEF CancelledSleeper, ReadQueueSize
  <2>4. MainIsSound'
    BY <1>2 DEF MainIsSound, ReadQueueSize
  <2>5. NoStrandedOperation'
    BY <1>2 DEF NoStrandedOperation, ReadQueueSize
  <2>6. QueryOnLiveConnection'
    BY <1>2 DEF QueryOnLiveConnection, ReadQueueSize
  <2>7. HeldIsSound'
    BY <1>2 DEF HeldIsSound, ReadQueueSize
  <2>8. SleepersLoop'
    BY <1>2 DEF SleepersLoop, ReadQueueSize
  <2>9. QED
    BY <2>1, <2>2, <2>3, <2>4, <2>5, <2>6, <2>7, <2>8
<1>3. CASE LockCleanup
  <2>1. TypeOK'
    BY <1>3 DEF TypeOK, LockCleanup
  <2>2. StaticWorkersServe'
    BY <1>3 DEF StaticWorkersServe, LockCleanup
  <2>3. CancelledSleeper'
    BY <1>3 DEF CancelledSleeper, LockCleanup
  <2>4. MainIsSound'
    BY <1>3 DEF MainIsSound, LockCleanup
  <2>5. NoStrandedOperation'
    BY <1>3 DEF NoStrandedOperation, LockCleanup
  <2>6. QueryOnLiveConnection'
    BY <1>3 DEF QueryOnLiveConnection, LockCleanup
  <2>7. HeldIsSound'
    BY <1>3 DEF HeldIsSound, LockCleanup
  <2>8. SleepersLoop'
    BY <1>3 DEF SleepersLoop, LockCleanup
  <2>9. QED
    BY <2>1, <2>2, <2>3, <2>4, <2>5, <2>6, <2>7, <2>8
<1>4. CASE OpenNothing
  <2>1. TypeOK'
    BY <1>4 DEF TypeOK, OpenNothing
  <2>2. StaticWorkersServe'
    BY <1>4 DEF StaticWorkersServe, OpenNothing
  <2>3. CancelledSleeper'
    BY <1>4 DEF CancelledSleeper, OpenNothing
  <2>4. MainIsSound'
    BY <1>4 DEF MainIsSound, OpenNothing
  <2>5. NoStrandedOperation'
    BY <1>4 DEF NoStrandedOperation, OpenNothing
  <2>6. QueryOnLiveConnection'
    BY <1>4 DEF QueryOnLiveConnection, OpenNothing
  <2>7. HeldIsSound'
    BY <1>4 DEF HeldIsSound, OpenNothing
  <2>8. SleepersLoop'
    BY <1>4 DEF SleepersLoop, OpenNothing
  <2>9. QED
    BY <2>1, <2>2, <2>3, <2>4, <2>5, <2>6, <2>7, <2>8
<1>5. ASSUME NEW c \in Dynamic, OpenDynamicAsyncConnect(c) \/ AddDynamicConnects(c)
      PROVE  IInv'
  <2>1. /\ worker[c] = "none"
        /\ worker' = [worker EXCEPT ![c] = "loop"]
        /\ grown' = TRUE
        /\ UNCHANGED <<queue, waiting, shutdown, held, cancel, main, doomed, victim, closing,
                       cleanupMutex, checks, checker, fate, issued, executed>>
    BY <1>5 DEF OpenDynamicAsyncConnect, AddDynamicConnects, OpenConnection
  <2>2. /\ pool \subseteq pool' /\ orphans \subseteq orphans'
        /\ pool' \cup orphans' = (pool \cup orphans) \cup {c}
    BY <1>5 DEF OpenDynamicAsyncConnect, AddDynamicConnects
  <2>3. toOpen' \in Nat
    BY <1>5 DEF OpenDynamicAsyncConnect, AddDynamicConnects, TypeOK
  <2>4. c \in Connection /\ c \notin Static
    BY ConstantsAssumption DEF Connection
  <2>5. TypeOK'
    BY <2>1, <2>2, <2>3, <2>4 DEF TypeOK, WorkerState
  <2>6. StaticWorkersServe' /\ MainIsSound'
    BY <2>1, <2>4 DEF TypeOK, StaticWorkersServe, MainIsSound, Connection
  <2>7. CancelledSleeper' /\ SleepersLoop'
    BY <2>1, <2>4 DEF TypeOK, CancelledSleeper, SleepersLoop
  <2>8. NoStrandedOperation'
    BY <2>1, <2>4 DEF TypeOK, NoStrandedOperation
  <2>9. QueryOnLiveConnection'
    BY <2>1, <2>2, <2>4 DEF TypeOK, QueryOnLiveConnection
  <2>10. HeldIsSound'
    BY <2>1, <2>4 DEF TypeOK, HeldIsSound
  <2>11. QED
    BY <2>5, <2>6, <2>7, <2>8, <2>9, <2>10
<1>6. CASE UnlockCleanup
  <2>1. TypeOK'
    BY <1>6 DEF TypeOK, UnlockCleanup
  <2>2. StaticWorkersServe'
    BY <1>6 DEF StaticWorkersServe, UnlockCleanup
  <2>3. CancelledSleeper'
    BY <1>6 DEF CancelledSleeper, UnlockCleanup
  <2>4. MainIsSound'
    BY <1>6 DEF MainIsSound, UnlockCleanup
  <2>5. NoStrandedOperation'
    BY <1>6 DEF NoStrandedOperation, UnlockCleanup
  <2>6. QueryOnLiveConnection'
    BY <1>6 DEF QueryOnLiveConnection, UnlockCleanup
  <2>7. HeldIsSound'
    BY <1>6 DEF HeldIsSound, UnlockCleanup
  <2>8. SleepersLoop'
    BY <1>6 DEF SleepersLoop, UnlockCleanup
  <2>9. QED
    BY <2>1, <2>2, <2>3, <2>4, <2>5, <2>6, <2>7, <2>8
<1>7. QED
  BY <1>1, <1>2, <1>3, <1>4, <1>5, <1>6

(* The invariant is inductive. *)
LEMMA IInvIsInductive == IInv /\ [Next]_vars => IInv'
<1> SUFFICES ASSUME IInv, [Next]_vars PROVE IInv'
  OBVIOUS
<1>1. CASE \E op \in Operation : Enqueue(op)
  BY <1>1, CallerKeepsIInv
<1>2. CASE \E c \in Connection : WorkerStep(c) \/ Wakeup(c)
  BY <1>2, WorkerKeepsIInv DEF WorkerStep
<1>3. CASE CleanupConnections \/ Close \/ DestructorStep \/ DestroyPool
  BY <1>3, MainKeepsIInv DEF DestructorStep
<1>4. CASE RequestCheck \/ CheckerStep \/ \E c \in Dynamic : AddDynamicConnects(c)
  BY <1>4, CheckerKeepsIInv DEF CheckerStep
<1>5. CASE UNCHANGED vars
  BY <1>5 DEF IInv, vars, workerVars, mainVars, checkerVars, history, TypeOK,
             StaticWorkersServe, CancelledSleeper, MainIsSound, NoStrandedOperation,
             QueryOnLiveConnection, HeldIsSound, SleepersLoop
<1>6. QED
  BY <1>1, <1>2, <1>3, <1>4, <1>5 DEF Next, Terminated

(* The inductive invariant holds in every reachable state. *)
THEOREM Invariance == Spec => []IInv
<1>1. QED
  BY InitIInv, IInvIsInductive, PTL DEF Spec

(* Every variable keeps its type. *)
THEOREM TypeCorrect == Spec => []TypeOK
<1>1. IInv => TypeOK
  BY DEF IInv
<1>2. QED
  BY <1>1, Invariance, PTL

(* No queued operation is left to sleeping workers, even when the worker   *)
(* that Push notified is the one that is being destroyed.                  *)
THEOREM NeverStranded == Spec => []NoStrandedOperation
<1>1. IInv => NoStrandedOperation
  BY DEF IInv
<1>2. QED
  BY <1>1, Invariance, PTL

(* A worker thread never outlives its connection. *)
THEOREM LiveConnections == Spec => []QueryOnLiveConnection
<1>1. IInv => QueryOnLiveConnection
  BY DEF IInv
<1>2. QED
  BY <1>1, Invariance, PTL

(* Until Close, the connection container has one writer at a time. *)
THEOREM OneContainerWriter == Spec => []CleanupExcludesOpening
<1>1. IInv => CleanupExcludesOpening
  BY DEF IInv, MainIsSound, CleanupExcludesOpening, ContainerRace
<1>2. QED
  BY <1>1, Invariance, PTL

-----------------------------------------------------------------------------
(* No operation is duplicated or disappears between Push and ExecuteQuery. *)

(* The steps that move an operation are Enqueue, PopOperation, ExitLoop,   *)
(* FinishQuery and DestroyPool; all others leave its place and fate alone. *)
LEMMA OtherStepsMoveNothing ==
    ASSUME [Next]_vars,
           ~ \E op \in Operation : Enqueue(op),
           ~ \E c \in Connection : PopOperation(c) \/ ExitLoop(c) \/ FinishQuery(c),
           ~ DestroyPool
    PROVE  UNCHANGED <<queue, held, fate>>
<1> USE DEF workerVars, mainVars, checkerVars, history
<1>1. CASE \E c \in Connection : WorkerStep(c) \/ Wakeup(c)
  BY <1>1 DEF WorkerStep, Sleep, Q!Blocks, Wakeup, Q!SpuriousWakeup, PopNothing,
             Q!ReturnsNothing, Q!pcqVars, Proceed
<1>2. CASE CleanupConnections \/ Close \/ DestructorStep
  BY <1>2 DEF CleanupConnections, Close, DestructorStep, RaiseCancel, NotifyWorkers,
             Q!NotifyAll, JoinWorker, Destroyed, FinishErase
<1>3. CASE RequestCheck \/ CheckerStep \/ \E c \in Dynamic : AddDynamicConnects(c)
  BY <1>3 DEF RequestCheck, CheckerStep, ReadQueueSize, LockCleanup, OpenNothing,
             UnlockCleanup, OpenDynamicAsyncConnect, AddDynamicConnects, OpenConnection
<1>4. CASE UNCHANGED vars
  BY <1>4 DEF vars
<1>5. QED
  BY <1>1, <1>2, <1>3, <1>4 DEF Next, Terminated

(* NoDuplicates, spelled out on the positions of the queue. *)
LEMMA NoDuplicatesUnfolded ==
    NoDuplicates <=>
        /\ \A k, n \in DOMAIN queue : queue[k] = queue[n] => k = n
        /\ \A op \in Operation :
              fate[op] = "queued" <=> \E n \in DOMAIN queue : queue[n] = op
        /\ \A c, d \in Connection : held[c] = held[d] /\ held[c] # None => c = d
        /\ \A op \in Operation : fate[op] = "taken" <=> \E c \in Connection : held[c] = op
BY DEF NoDuplicates, IsInjective, ToSet

(* Every step keeps an operation in at most one place, the one its fate    *)
(* names.                                                                  *)
LEMMA NoDuplicatesInductive == IInv /\ IInv' /\ NoDuplicates /\ [Next]_vars => NoDuplicates'
<1> SUFFICES ASSUME IInv, IInv', NoDuplicates, [Next]_vars PROVE NoDuplicates'
  OBVIOUS
<1> USE DEF workerVars, mainVars, checkerVars, history
<1> None \notin Operation
  BY ConstantsAssumption
<1> TypeOK /\ TypeOK' /\ HeldIsSound
  BY DEF IInv
<1>0. /\ queue \in Seq(Operation) /\ Len(queue) \in Nat /\ DOMAIN queue = 1..Len(queue)
      /\ DOMAIN queue' = 1..Len(queue')
  BY LenProperties DEF TypeOK
<1>1. ASSUME NEW op \in Operation, Enqueue(op) PROVE NoDuplicates'
  <2>1. /\ queue' = Append(queue, op)
        /\ fate' = [fate EXCEPT ![op] = "queued"]
        /\ fate[op] = "new"
        /\ held' = held
    BY <1>1 DEF Enqueue, Q!Push
  <2>2. /\ Len(queue') = Len(queue) + 1
        /\ \A n \in 1..Len(queue) : queue'[n] = queue[n]
        /\ queue'[Len(queue) + 1] = op
    BY <1>0, <2>1, AppendProperties
  <2>3. /\ \A n \in DOMAIN queue : queue[n] # op
        /\ \A c \in Connection : held[c] # op
    BY <2>1, NoDuplicatesUnfolded
  <2>4. \A k, n \in DOMAIN queue' : queue'[k] = queue'[n] => k = n
    BY <1>0, <2>2, <2>3, NoDuplicatesUnfolded
  <2>5. ASSUME NEW o \in Operation
        PROVE  fate'[o] = "queued" <=> \E n \in DOMAIN queue' : queue'[n] = o
    <3>1. (\E n \in DOMAIN queue' : queue'[n] = o)
            <=> (o = op \/ \E n \in DOMAIN queue : queue[n] = o)
      BY <1>0, <2>2
    <3>2. QED
      BY <2>1, <3>1, NoDuplicatesUnfolded DEF TypeOK
  <2>6. \A o \in Operation : fate'[o] = "taken" <=> \E c \in Connection : held[c] = o
    BY <2>1, <2>3, NoDuplicatesUnfolded DEF TypeOK
  <2>7. QED
    BY <2>1, <2>4, <2>5, <2>6, NoDuplicatesUnfolded DEF NoDuplicates, IsInjective, ToSet
<1>2. ASSUME NEW c \in Connection, PopOperation(c) PROVE NoDuplicates'
  <2>1. /\ queue # <<>> /\ queue' = Tail(queue)
        /\ held' = [held EXCEPT ![c] = Head(queue)]
        /\ fate' = [fate EXCEPT ![Head(queue)] = "taken"]
        /\ held[c] = None
    BY <1>2 DEF PopOperation, Q!Takes, AtWaitAndPop, HeldIsSound
  <2>2. /\ Len(queue) > 0 /\ Len(queue') = Len(queue) - 1
        /\ \A n \in 1..Len(queue') : queue'[n] = queue[n + 1]
        /\ Head(queue) = queue[1] /\ Head(queue) \in Operation
    BY <1>0, <2>1, HeadTailProperties, EmptySeq
  <2>3. PICK op \in Operation : op = queue[1]
    BY <2>2
  <2>4. /\ \A n \in DOMAIN queue' : queue'[n] # op
        /\ fate[op] = "queued"
        /\ \A d \in Connection : held[d] # op
    BY <1>0, <2>2, <2>3, NoDuplicatesUnfolded
  <2>5. \A k, n \in DOMAIN queue' : queue'[k] = queue'[n] => k = n
    BY <1>0, <2>2, NoDuplicatesUnfolded
  <2>6. ASSUME NEW o \in Operation
        PROVE  fate'[o] = "queued" <=> \E n \in DOMAIN queue' : queue'[n] = o
    <3>1. CASE o = op
      BY <2>1, <2>2, <2>3, <2>4, <3>1 DEF TypeOK
    <3>2. CASE o # op
      <4>1. (\E n \in DOMAIN queue' : queue'[n] = o) => (\E n \in DOMAIN queue : queue[n] = o)
        BY <1>0, <2>2
      <4>2. ASSUME NEW n \in DOMAIN queue, queue[n] = o
            PROVE  \E k \in DOMAIN queue' : queue'[k] = o
        <5>1. n # 1 /\ n - 1 \in DOMAIN queue'
          BY <1>0, <2>2, <2>3, <3>2, <4>2
        <5>2. queue'[n - 1] = o
          BY <1>0, <2>2, <4>2, <5>1
        <5>3. QED
          BY <5>1, <5>2
      <4>3. fate'[o] = fate[o]
        BY <2>1, <2>2, <2>3, <3>2 DEF TypeOK
      <4>4. QED
        BY <4>1, <4>2, <4>3, NoDuplicatesUnfolded
    <3>3. QED
      BY <3>1, <3>2
  <2>7. \A d, e \in Connection : held'[d] = held'[e] /\ held'[d] # None => d = e
    BY <2>1, <2>2, <2>3, <2>4, NoDuplicatesUnfolded DEF TypeOK
  <2>8. \A o \in Operation : fate'[o] = "taken" <=> \E d \in Connection : held'[d] = o
    BY <2>1, <2>2, <2>3, <2>4, NoDuplicatesUnfolded DEF TypeOK
  <2>9. QED
    BY <2>5, <2>6, <2>7, <2>8 DEF NoDuplicates, IsInjective, ToSet
<1>3. ASSUME NEW c \in Connection, ExitLoop(c) PROVE NoDuplicates'
  <2>1. /\ queue' = queue
        /\ held' = [held EXCEPT ![c] = None]
        /\ fate' = [op \in Operation |-> IF op = held[c] THEN "leaked" ELSE fate[op]]
    BY <1>3 DEF ExitLoop
  <2>2. \A op \in Operation : fate'[op] = "queued" <=> fate[op] = "queued"
    BY <2>1, NoDuplicatesUnfolded
  <2>3. \A op \in Operation : fate'[op] = "taken" <=> \E d \in Connection : held'[d] = op
    BY <2>1, NoDuplicatesUnfolded DEF TypeOK
  <2>4. \A d, e \in Connection : held'[d] = held'[e] /\ held'[d] # None => d = e
    BY <2>1, NoDuplicatesUnfolded DEF TypeOK
  <2>5. QED
    BY <2>1, <2>2, <2>3, <2>4, NoDuplicatesUnfolded DEF NoDuplicates, IsInjective, ToSet
<1>4. ASSUME NEW c \in Connection, FinishQuery(c) PROVE NoDuplicates'
  <2>1. /\ queue' = queue
        /\ held' = [held EXCEPT ![c] = None]
        /\ fate' = [fate EXCEPT ![held[c]] = "executed"]
        /\ held[c] \in Operation
    BY <1>4 DEF FinishQuery, HeldIsSound, TypeOK
  <2>2. fate[held[c]] = "taken"
    BY <2>1, NoDuplicatesUnfolded
  <2>3. \A op \in Operation : fate'[op] = "queued" <=> fate[op] = "queued"
    BY <2>1, <2>2 DEF TypeOK
  <2>4. \A op \in Operation : fate'[op] = "taken" <=> \E d \in Connection : held'[d] = op
    BY <2>1, NoDuplicatesUnfolded DEF TypeOK
  <2>5. \A d, e \in Connection : held'[d] = held'[e] /\ held'[d] # None => d = e
    BY <2>1, NoDuplicatesUnfolded DEF TypeOK
  <2>6. QED
    BY <2>1, <2>3, <2>4, <2>5, NoDuplicatesUnfolded DEF NoDuplicates, IsInjective, ToSet
<1>5. CASE DestroyPool
  <2>1. /\ queue' = <<>> /\ held' = held
        /\ fate' = [op \in Operation |-> IF fate[op] = "queued" THEN "deleted" ELSE fate[op]]
    BY <1>5 DEF DestroyPool, Q!Cancel
  <2>2. \A op \in Operation :
           fate'[op] # "queued" /\ (fate'[op] = "taken" <=> fate[op] = "taken")
    BY <2>1
  <2>3. QED
    BY <2>1, <2>2, NoDuplicatesUnfolded DEF NoDuplicates, IsInjective, ToSet
<1>6. CASE UNCHANGED <<queue, held, fate>>
  BY <1>6 DEF NoDuplicates, IsInjective, ToSet
<1>7. QED
  BY <1>1, <1>2, <1>3, <1>4, <1>5, <1>6, OtherStepsMoveNothing

(* Every operation is in exactly the place its fate names: once in the     *)
(* queue, or in the hands of one worker, or in neither.                    *)
THEOREM NeverDuplicated == Spec => []NoDuplicates
<1>1. Init => NoDuplicates
  BY ConstantsAssumption DEF Init, Q!InitPCQueue, NoDuplicates, IsInjective, ToSet
<1>2. QED
  BY <1>1, Invariance, NoDuplicatesInductive, PTL DEF Spec

-----------------------------------------------------------------------------
(* The order: with one connection operations take effect in the order in   *)
(* which they were issued.                                                 *)

(* Until the pool grows only static connections have a worker. *)
OnlyStaticWork == ~grown => \A c \in Dynamic : worker[c] = "none"

(* How many operations the worker of s holds. *)
InHand(s) == IF held[s] = None THEN 0 ELSE 1

(* While s can execute, issued is executed, the operation in hand and the  *)
(* queue, one behind the other; after Close something may be missing at    *)
(* the end.                                                                *)
Lined(s) ==
    /\ Len(executed) + InHand(s) + Len(queue) <= Len(issued)
    /\ ~closing => Len(executed) + InHand(s) + Len(queue) = Len(issued)
    /\ held[s] # None => issued[Len(executed) + 1] = held[s]
    /\ \A i \in 1..Len(queue) : issued[Len(executed) + InHand(s) + i] = queue[i]

Ordered ==
    /\ Len(executed) <= Len(issued)
    /\ \A i \in 1..Len(executed) : issued[i] = executed[i]

(* The case of one static connection s. *)
OInv(s) ==
    ~grown =>
        /\ Ordered
        /\ worker[s] \in {"loop", "returned", "exec"} => Lined(s)

-----------------------------------------------------------------------------
(* At the beginning nothing has been issued. *)
LEMMA InitOrder ==
    ASSUME Init, NEW s \in Static
    PROVE  OnlyStaticWork /\ OInv(s)
BY EmptySeq, ConstantsAssumption
   DEF Init, Q!InitPCQueue, OnlyStaticWork, OInv, Ordered, Lined, InHand, Connection

(* Only opening a connection gives a dynamic one a worker. *)
LEMMA OnlyStaticWorkKept ==
    ASSUME IInv, OnlyStaticWork, [Next]_vars
    PROVE  OnlyStaticWork'
<1> USE DEF OnlyStaticWork, workerVars, mainVars, checkerVars, history
<1>1. CASE \E op \in Operation : Enqueue(op)
  BY <1>1 DEF Enqueue
<1>2. CASE \E c \in Connection : WorkerStep(c) \/ Wakeup(c)
  <2>1. PICK c \in Connection : WorkerStep(c) \/ Wakeup(c)
    BY <1>2
  <2>2. CASE worker' = worker
    BY <2>1, <2>2 DEF WorkerStep, Sleep, Wakeup, PopOperation, PopNothing, ExitLoop,
       Proceed, FinishQuery
  <2>3. CASE worker[c] # "none" /\ \E p : worker' = [worker EXCEPT ![c] = p]
    <3>1. PICK p : worker' = [worker EXCEPT ![c] = p]
      BY <2>3
    <3>2. grown' = grown
      BY <2>1 DEF WorkerStep, Sleep, Wakeup, PopOperation, PopNothing, ExitLoop,
         Proceed, FinishQuery
    <3>3. ASSUME ~grown, NEW d \in Dynamic PROVE worker'[d] = "none"
      <4>1. worker[d] = "none" /\ d # c /\ d \in Connection
        BY <2>3, <3>3 DEF Connection
      <4>2. worker'[d] = worker[d]
        BY <3>1, <4>1 DEF IInv, TypeOK
      <4>3. QED
        BY <4>1, <4>2
    <3>4. QED
      BY <3>2, <3>3
  <2>4. QED
    BY <2>1, <2>2, <2>3 DEF WorkerStep, Sleep, Wakeup, PopOperation, PopNothing,
       ExitLoop, Proceed, FinishQuery, AtWaitAndPop
<1>3. CASE CleanupConnections \/ Close \/ DestructorStep \/ DestroyPool
  BY <1>3 DEF CleanupConnections, Close, DestructorStep, DestroyPool, RaiseCancel,
     NotifyWorkers, JoinWorker, Destroyed, FinishErase, IInv, TypeOK, Connection
<1>4. CASE RequestCheck \/ CheckerStep \/ \E c \in Dynamic : AddDynamicConnects(c)
  BY <1>4 DEF RequestCheck, CheckerStep, ReadQueueSize, LockCleanup, OpenNothing,
     UnlockCleanup, OpenDynamicAsyncConnect, AddDynamicConnects, OpenConnection
<1>5. CASE UNCHANGED vars
  BY <1>5 DEF vars
<1>6. QED
  BY <1>1, <1>2, <1>3, <1>4, <1>5 DEF Next, Terminated

(* Enqueue appends to the end of both. *)
LEMMA EnqueueKeepsOrder ==
    ASSUME IInv, NEW s \in Static, OInv(s), NEW op \in Operation, Enqueue(op)
    PROVE  OInv(s)'
<1> SUFFICES ASSUME ~grown PROVE OInv(s)'
  BY DEF OInv, Enqueue
<1>1. /\ queue' = Append(queue, op) /\ issued' = Append(issued, op)
      /\ UNCHANGED <<executed, held, worker, grown, closing>>
      /\ ~closing
  BY DEF Enqueue, Q!Push, workerVars, mainVars
<1>2. queue \in Seq(Operation) /\ issued \in Seq(Operation) /\ executed \in Seq(Operation)
  BY DEF IInv, TypeOK
<1>3. /\ Len(queue) \in Nat /\ Len(issued) \in Nat /\ Len(executed) \in Nat
      /\ Len(queue') = Len(queue) + 1 /\ Len(issued') = Len(issued) + 1
      /\ \A i \in 1..Len(queue) : queue'[i] = queue[i]
      /\ queue'[Len(queue) + 1] = op
      /\ \A i \in 1..Len(issued) : issued'[i] = issued[i]
      /\ issued'[Len(issued) + 1] = op
  BY <1>1, <1>2, AppendProperties, LenProperties
<1>4. Ordered'
  BY <1>1, <1>3 DEF OInv, Ordered
<1>5. ASSUME worker[s] \in {"loop", "returned", "exec"} PROVE Lined(s)'
  <2>1. Lined(s)
    BY <1>5 DEF OInv
  <2> DEFINE n == Len(executed) + InHand(s)
  <2>2. InHand(s)' = InHand(s) /\ InHand(s) \in {0, 1} /\ n \in Nat
    BY <1>1, <1>3 DEF InHand
  <2>3. n + Len(queue) = Len(issued)
    BY <2>1, <1>1 DEF Lined
  <2>4. ASSUME NEW i \in 1..Len(queue') PROVE issued'[n + i] = queue'[i]
    <3>1. CASE i = Len(queue) + 1
      BY <3>1, <1>3, <2>2, <2>3
    <3>2. CASE i \in 1..Len(queue)
      <4>1. issued[n + i] = queue[i]
        BY <2>1, <3>2 DEF Lined
      <4>2. n + i \in 1..Len(issued)
        BY <3>2, <2>2, <2>3, <1>3
      <4>3. QED
        BY <3>2, <4>1, <4>2, <1>3
    <3>3. QED
      BY <3>1, <3>2, <1>3
  <2>5. held[s] # None => issued'[Len(executed) + 1] = held[s]
    <3>1. SUFFICES ASSUME held[s] # None PROVE issued'[Len(executed) + 1] = held[s]
      OBVIOUS
    <3>2. Len(executed) + 1 \in 1..Len(issued)
      BY <3>1, <2>3, <1>3 DEF InHand
    <3>3. QED
      BY <3>1, <3>2, <1>3, <2>1 DEF Lined
  <2>6. Len(executed') + InHand(s)' + Len(queue') = Len(issued')
    BY <1>1, <1>3, <2>2, <2>3
  <2>7. \A i \in 1..Len(queue') : issued'[Len(executed') + InHand(s)' + i] = queue'[i]
    BY <1>1, <2>2, <2>4
  <2>8. held'[s] # None => issued'[Len(executed') + 1] = held'[s]
    BY <1>1, <2>5
  <2>9. Len(executed') + InHand(s)' + Len(queue') <= Len(issued')
    BY <2>6, <1>3, <1>1, <2>2
  <2>10. QED
    BY <2>6, <2>7, <2>8, <2>9, <1>1 DEF Lined
<1>6. QED
  BY <1>1, <1>4, <1>5 DEF OInv

(* The front of the queue goes into the hand of s. *)
LEMMA PopKeepsOrder ==
    ASSUME IInv, NEW s \in Static, OInv(s), PopOperation(s)
    PROVE  OInv(s)'
<1> SUFFICES ASSUME ~grown PROVE OInv(s)'
  BY DEF OInv, PopOperation
<1>1. /\ queue # <<>> /\ queue' = Tail(queue)
      /\ held' = [held EXCEPT ![s] = Head(queue)]
      /\ worker[s] = "loop"
      /\ UNCHANGED <<executed, issued, grown, closing>>
  BY DEF PopOperation, AtWaitAndPop, Q!Takes, mainVars
<1>2. queue \in Seq(Operation) /\ issued \in Seq(Operation) /\ executed \in Seq(Operation)
  BY DEF IInv, TypeOK
<1>3. /\ Len(queue) \in Nat \ {0} /\ Len(issued) \in Nat /\ Len(executed) \in Nat
      /\ Len(queue') = Len(queue) - 1
      /\ \A i \in 1..Len(queue') : queue'[i] = queue[i + 1]
      /\ Head(queue) = queue[1] /\ Head(queue) \in Operation
  BY <1>1, <1>2, HeadTailProperties, LenProperties, EmptySeq
<1>4. held[s] = None /\ held'[s] = queue[1] /\ held'[s] # None
  BY <1>1, <1>3, ConstantsAssumption DEF IInv, HeldIsSound, TypeOK, Connection
<1>5. InHand(s) = 0 /\ InHand(s)' = 1
  BY <1>4 DEF InHand
<1>6. Ordered /\ Lined(s)
  BY <1>1 DEF OInv
<1>7. issued[Len(executed) + 1] = queue[1]
  <2>1. 1 \in 1..Len(queue)
    BY <1>3
  <2>2. issued[Len(executed) + 0 + 1] = queue[1]
    BY <1>5, <1>6, <2>1 DEF Lined
  <2>3. QED
    BY <2>2, <1>3
<1>8. ASSUME NEW i \in 1..Len(queue')
      PROVE  issued[Len(executed) + 1 + i] = queue'[i]
  <2>1. i + 1 \in 1..Len(queue)
    BY <1>3
  <2>2. issued[Len(executed) + 0 + (i + 1)] = queue[i + 1]
    BY <1>5, <1>6, <2>1 DEF Lined
  <2>3. Len(executed) + 0 + (i + 1) = Len(executed) + 1 + i
    BY <1>3
  <2>4. QED
    BY <2>2, <2>3, <1>3
<1>9. Lined(s)'
  BY <1>1, <1>3, <1>4, <1>5, <1>6, <1>7, <1>8 DEF Lined
<1>10. QED
  BY <1>1, <1>6, <1>9 DEF OInv, Ordered

(* What s has executed is what was issued next. *)
LEMMA FinishKeepsOrder ==
    ASSUME IInv, NEW s \in Static, OInv(s), FinishQuery(s)
    PROVE  OInv(s)'
<1> SUFFICES ASSUME ~grown PROVE OInv(s)'
  BY DEF OInv, FinishQuery
<1>1. /\ worker[s] = "exec"
      /\ held' = [held EXCEPT ![s] = None]
      /\ executed' = Append(executed, held[s])
      /\ UNCHANGED <<queue, issued, grown, closing>>
  BY DEF FinishQuery, mainVars
<1>2. /\ queue \in Seq(Operation) /\ issued \in Seq(Operation)
      /\ executed \in Seq(Operation)
      /\ s \in Connection
  BY DEF IInv, TypeOK, Connection
<1>3. held[s] # None /\ held[s] \in Operation /\ held'[s] = None
  BY <1>1, <1>2 DEF IInv, HeldIsSound, TypeOK
<1>4. /\ Len(queue) \in Nat /\ Len(issued) \in Nat /\ Len(executed) \in Nat
      /\ Len(executed') = Len(executed) + 1
      /\ \A i \in 1..Len(executed) : executed'[i] = executed[i]
      /\ executed'[Len(executed) + 1] = held[s]
  BY <1>1, <1>2, <1>3, AppendProperties, LenProperties
<1>5. InHand(s) = 1 /\ InHand(s)' = 0
  BY <1>3 DEF InHand
<1>6. Ordered /\ Lined(s)
  BY <1>1 DEF OInv
<1>7. Ordered'
  <2>1. Len(executed') <= Len(issued)
    BY <1>4, <1>5, <1>6 DEF Lined
  <2>2. ASSUME NEW i \in 1..Len(executed') PROVE issued[i] = executed'[i]
    <3>1. CASE i \in 1..Len(executed)
      BY <3>1, <1>4, <1>6 DEF Ordered
    <3>2. CASE i = Len(executed) + 1
      BY <3>2, <1>3, <1>4, <1>6 DEF Lined
    <3>3. QED
      BY <3>1, <3>2, <1>4
  <2>3. QED
    BY <1>1, <2>1, <2>2 DEF Ordered
<1>8. Lined(s)'
  <2>1. ASSUME NEW i \in 1..Len(queue)
        PROVE  issued[Len(executed') + 0 + i] = queue[i]
    <3>1. issued[Len(executed) + 1 + i] = queue[i]
      BY <1>5, <1>6 DEF Lined
    <3>2. QED
      BY <3>1, <1>4
  <2>2. QED
    BY <1>1, <1>3, <1>4, <1>5, <1>6, <2>1 DEF Lined
<1>9. QED
  BY <1>1, <1>7, <1>8 DEF OInv

(* A worker that leaves its loop executes nothing any more; after Close    *)
(* what it leaves behind, and what DestroyPool deletes, is missing at the  *)
(* end.                                                                    *)
LEMMA LossKeepsOrder ==
    ASSUME IInv, NEW s \in Static, OInv(s), ExitLoop(s) \/ DestroyPool
    PROVE  OInv(s)'
<1>1. CASE ExitLoop(s)
  <2>1. worker'[s] = "exited" /\ UNCHANGED <<executed, issued, grown>>
    BY <1>1 DEF ExitLoop, IInv, TypeOK, Connection
  <2>2. QED
    BY <2>1 DEF OInv, Ordered
<1>2. CASE DestroyPool
  <2>1. /\ queue' = <<>> /\ closing /\ closing'
        /\ UNCHANGED <<executed, issued, grown, held, worker>>
    BY <1>2 DEF DestroyPool, Q!Cancel, workerVars, IInv, MainIsSound
  <2>2. Len(queue) \in Nat /\ Len(executed) \in Nat /\ Len(issued) \in Nat
    BY LenProperties DEF IInv, TypeOK
  <2>3. Lined(s) => Lined(s)'
    BY <2>1, <2>2 DEF Lined, InHand
  <2>4. QED
    BY <2>1, <2>3 DEF OInv, Ordered
<1>3. QED
  BY <1>1, <1>2

(* The other steps move no operation. *)
LEMMA OthersKeepOrder ==
    ASSUME IInv, NEW s \in Static, OInv(s), [Next]_vars,
           ~ \E op \in Operation : Enqueue(op),
           ~ \E c \in Connection : PopOperation(c) \/ ExitLoop(c) \/ FinishQuery(c),
           ~ DestroyPool
    PROVE  OInv(s)'
<1> USE DEF workerVars, mainVars, checkerVars, history
<1>1. UNCHANGED <<queue, held>>
  BY OtherStepsMoveNothing
<1>2. /\ UNCHANGED <<executed, issued>>
      /\ closing => closing'
      /\ grown => grown'
  <2>1. CASE \E c \in Connection : WorkerStep(c) \/ Wakeup(c)
    BY <2>1 DEF WorkerStep, Sleep, Wakeup, PopNothing, Proceed
  <2>2. CASE CleanupConnections \/ Close \/ DestructorStep
    BY <2>2 DEF CleanupConnections, Close, DestructorStep, RaiseCancel, NotifyWorkers,
       JoinWorker, Destroyed, FinishErase
  <2>3. CASE RequestCheck \/ CheckerStep \/ \E c \in Dynamic : AddDynamicConnects(c)
    BY <2>3 DEF RequestCheck, CheckerStep, ReadQueueSize, LockCleanup, OpenNothing,
       UnlockCleanup, OpenDynamicAsyncConnect, AddDynamicConnects, OpenConnection
  <2>4. CASE UNCHANGED vars
    BY <2>4 DEF vars
  <2>5. QED
    BY <2>1, <2>2, <2>3, <2>4 DEF Next, Terminated
<1>3. ASSUME ~grown', worker'[s] \in {"loop", "returned", "exec"}
      PROVE  worker[s] \in {"loop", "returned", "exec"}
  <2> USE DEF IInv, TypeOK
  <2>1. s \in Connection
    BY DEF Connection
  <2>2. CASE \E c \in Connection : WorkerStep(c) \/ Wakeup(c)
    BY <1>3, <2>1, <2>2
       DEF WorkerStep, Sleep, Wakeup, PopNothing, Proceed, AtWaitAndPop
  <2>3. CASE CleanupConnections \/ Close \/ DestructorStep
    BY <1>3, <2>1, <2>3 DEF CleanupConnections, Close, DestructorStep, RaiseCancel,
       NotifyWorkers, JoinWorker, Destroyed, FinishErase
  <2>4. CASE RequestCheck \/ CheckerStep \/ \E c \in Dynamic : AddDynamicConnects(c)
    BY <1>3, <2>4 DEF RequestCheck, CheckerStep, ReadQueueSize, LockCleanup,
       OpenNothing, UnlockCleanup, OpenDynamicAsyncConnect, AddDynamicConnects,
       OpenConnection
  <2>5. CASE UNCHANGED vars
    BY <1>3, <2>5 DEF vars
  <2>6. QED
    BY <2>2, <2>3, <2>4, <2>5 DEF Next, Terminated
<1>4. Lined(s) => Lined(s)'
  BY <1>1, <1>2 DEF Lined, InHand
<1>5. QED
  BY <1>2, <1>3, <1>4 DEF OInv, Ordered

(* Before the pool grows no worker but that of s takes or finishes         *)
(* anything.                                                               *)
LEMMA OrderKept ==
    ASSUME IInv, OnlyStaticWork, NEW s, Static = {s}, OInv(s), [Next]_vars
    PROVE  OInv(s)'
<1>1. CASE \E op \in Operation : Enqueue(op)
  BY <1>1, EnqueueKeepsOrder
<1>2. CASE \E c \in Connection : PopOperation(c) \/ ExitLoop(c) \/ FinishQuery(c)
  <2>1. PICK c \in Connection : PopOperation(c) \/ ExitLoop(c) \/ FinishQuery(c)
    BY <1>2
  <2>2. CASE c = s
    BY <2>1, <2>2, PopKeepsOrder, FinishKeepsOrder, LossKeepsOrder
  <2>3. CASE c # s
    <3>1. worker[c] # "none" /\ c \in Dynamic /\ grown' = grown
      BY <2>1, <2>3 DEF PopOperation, ExitLoop, FinishQuery, AtWaitAndPop, Connection
    <3>2. QED
      BY <3>1 DEF OnlyStaticWork, OInv
  <2>4. QED
    BY <2>2, <2>3
<1>3. CASE DestroyPool
  BY <1>3, LossKeepsOrder
<1>4. QED
  BY <1>1, <1>2, <1>3, OthersKeepOrder

-----------------------------------------------------------------------------
(* The invariant for whichever static connection there is. *)
OrderInv == OnlyStaticWork /\ \A s : Static = {s} => OInv(s)

LEMMA OrderInvIsInductive == IInv /\ OrderInv /\ [Next]_vars => OrderInv'
BY OrderKept, OnlyStaticWorkKept DEF OrderInv

LEMMA OrderInvSuffices == IInv /\ OrderInv => InOrderUntilGrown
<1> SUFFICES ASSUME IInv, OrderInv, ~grown, Cardinality(Static) = 1
             PROVE  IsPrefix(executed, issued)
  BY DEF InOrderUntilGrown
<1>1. PICK s : Static = {s}
  BY FS_Singleton, ConstantsAssumption
<1>2. Ordered
  BY <1>1 DEF OrderInv, OInv
<1>3. /\ executed \in Seq(Operation) /\ issued \in Seq(Operation)
      /\ Len(executed) \in Nat /\ Len(issued) \in Nat
  BY LenProperties DEF IInv, TypeOK
<1>4. SubSeq(executed, 1, Len(executed)) = SubSeq(issued, 1, Len(executed))
  <2>1. \A i \in 1..Len(executed) : executed[i] \in Operation /\ issued[i] \in Operation
    BY <1>2, <1>3, ElementOfSeq DEF Ordered
  <2> DEFINE e == SubSeq(executed, 1, Len(executed))
             t == SubSeq(issued, 1, Len(executed))
  <2>2. /\ e \in Seq(Operation) /\ Len(e) = Len(executed)
        /\ \A i \in 1..Len(executed) : e[i] = executed[i]
    BY <1>3, <2>1, SubSeqProperties
  <2>3. /\ t \in Seq(Operation) /\ Len(t) = Len(executed)
        /\ \A i \in 1..Len(executed) : t[i] = issued[i]
    BY <1>3, <2>1, SubSeqProperties
  <2> HIDE DEF e, t
  <2>4. e = t
    BY <1>2, <2>2, <2>3, SeqEqual DEF Ordered
  <2>5. QED
    BY <2>4 DEF e, t
<1>5. QED
  BY <1>2, <1>4 DEF Ordered, IsPrefix

(* As long as the pool has one connection and never had another, what has  *)
(* been executed is a prefix of what was issued, also while the pool is    *)
(* closed and what is queued is thrown away.                               *)
THEOREM OrderIsKept == Spec => []InOrderUntilGrown
<1>1. Init => OrderInv
  BY InitOrder, ConstantsAssumption DEF OrderInv
<1>2. Spec => []OrderInv
  BY <1>1, OrderInvIsInductive, Invariance, PTL DEF Spec
<1>3. QED
  BY <1>2, OrderInvSuffices, Invariance, PTL
=============================================================================
