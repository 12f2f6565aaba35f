------------------------- MODULE MapUpdater_proofs -------------------------
(***************************************************************************)
(* Proofs about MapUpdater, for any number of worker threads, maps and     *)
(* instances, any diffs and any interval: its threads and requests first,  *)
(* then its timers.                                                        *)
(***************************************************************************)
EXTENDS MapUpdater, FiniteSetTheorems, SequenceTheorems, TLAPS

(* A thread in its loop holds nothing, a thread that updates holds its     *)
(* request, and a thread holds the null request only if Stop cancelled the *)
(* queue, in which case it is going to exit.                               *)
WorkersAreSound ==
    \A w \in Thread :
        /\ worker[w] = "loop" => request[w] = None
        /\ worker[w] = "updating" => request[w] # None
        /\ worker[w] = "returned" /\ request[w] = None => cancelled
        /\ worker[w] # "crashed"

(* The world thread is past the barrier, or not yet in it, only with a     *)
(* counter of zero, and the queue is cancelled under a raised token only.  *)
MainIsSound ==
    /\ main \notin {"maps", "wait"} => pending = 0
    /\ shutdown => cancelled
    /\ main \in {"stopping", "drained", "join", "stopped"} => cancelled

IInv == TypeOK /\ PendingIsExact /\ WorkersAreSound /\ MainIsSound

-----------------------------------------------------------------------------
(* Counting. *)

HoldersOf(f) == {w \in Thread : f[w] # None}

(* The holders of requests are finitely many, and none exactly if their     *)
(* number is zero.                                                         *)
LEMMA HoldersFinite ==
    ASSUME NEW f
    PROVE  /\ IsFiniteSet(HoldersOf(f))
           /\ Cardinality(HoldersOf(f)) \in Nat
           /\ Cardinality(HoldersOf(f)) = 0 <=> HoldersOf(f) = {}
<1>1. IsFiniteSet(HoldersOf(f))
  BY ConstantsAssumption, FS_Subset DEF HoldersOf
<1>2. QED
  BY <1>1, FS_CardinalityType, FS_EmptySet

(* A thread that takes a request adds one to the number of holders. *)
LEMMA TakeCounts ==
    ASSUME NEW S, NEW f \in [Thread -> S], NEW w \in Thread, NEW r,
           f[w] = None, r # None
    PROVE  Cardinality(HoldersOf([f EXCEPT ![w] = r])) = Cardinality(HoldersOf(f)) + 1
<1>1. HoldersOf([f EXCEPT ![w] = r]) = HoldersOf(f) \cup {w}
  BY DEF HoldersOf
<1>2. w \notin HoldersOf(f)
  BY DEF HoldersOf
<1>3. QED
  BY <1>1, <1>2, HoldersFinite, FS_AddElement

(* A thread that gives its request up takes one off. *)
LEMMA DropCounts ==
    ASSUME NEW S, NEW f \in [Thread -> S], NEW w \in Thread, f[w] # None
    PROVE  /\ Cardinality(HoldersOf([f EXCEPT ![w] = None])) = Cardinality(HoldersOf(f)) - 1
           /\ Cardinality(HoldersOf(f)) > 0
<1>1. HoldersOf([f EXCEPT ![w] = None]) = HoldersOf(f) \ {w}
  BY DEF HoldersOf
<1>2. w \in HoldersOf(f)
  BY DEF HoldersOf
<1>3. Cardinality(HoldersOf(f) \ {w}) = Cardinality(HoldersOf(f)) - 1
  BY <1>2, HoldersFinite, FS_RemoveElement
<1>4. HoldersOf(f) # {}
  BY <1>2
<1>5. Cardinality(HoldersOf(f)) > 0
  <2>1. Cardinality(HoldersOf(f)) \in Nat /\ Cardinality(HoldersOf(f)) # 0
    BY <1>4, HoldersFinite
  <2>2. \A n \in Nat : n # 0 => n > 0
    OBVIOUS
  <2>3. QED
    BY <2>1, <2>2
<1>6. QED
  BY <1>1, <1>3, <1>5

(* An exact counter of zero means that there is no request anywhere. *)
LEMMA ZeroMeansQuiet ==
    ASSUME TypeOK, PendingIsExact, pending = 0
    PROVE  queue = <<>> /\ \A w \in Thread : request[w] = None
<1>1. Holders = HoldersOf(request)
  BY DEF Holders, HoldersOf
<1>2. Len(queue) = 0 /\ Cardinality(HoldersOf(request)) = 0
  BY <1>1, HoldersFinite, LenProperties DEF TypeOK, PendingIsExact
<1>3. queue = <<>>
  BY <1>2, EmptySeq DEF TypeOK
<1>4. HoldersOf(request) = {}
  BY <1>2, HoldersFinite
<1>5. QED
  BY <1>3, <1>4 DEF HoldersOf

-----------------------------------------------------------------------------
(* The queue. *)

(* Schedule queues one request more and keeps the types. *)
LEMMA PushTypes ==
    ASSUME TypeOK, NEW t \in Target, NEW d \in Nat, Schedule(t, d)
    PROVE  /\ queue' \in Seq(Request)
           /\ waiting' \subseteq Thread
           /\ shutdown' = shutdown
           /\ pending' = pending + 1
           /\ Len(queue') = Len(queue) + 1
<1>1. [target |-> t, diff |-> d] \in Request
  BY DEF Request
<1>2. waiting' \subseteq Thread
  BY DEF TypeOK, Schedule, Q!Push, Q!NotifyOne
<1>3. QED
  BY <1>1, <1>2, AppendProperties DEF TypeOK, Schedule, Q!Push

(* The counter and the queue move together. *)
LEMMA PushCounts ==
    ASSUME TypeOK, PendingIsExact, NEW t \in Target, NEW d \in Nat, Schedule(t, d),
           UNCHANGED request
    PROVE  PendingIsExact'
<1>1. Holders' = Holders /\ Holders = HoldersOf(request)
  BY DEF Holders, HoldersOf
<1>2. /\ Cardinality(Holders) \in Nat
      /\ Len(queue) \in Nat
  BY <1>1, HoldersFinite, LenProperties DEF TypeOK
<1>3. pending' = pending + 1 /\ Len(queue') = Len(queue) + 1
  BY PushTypes
<1>4. QED
  BY <1>1, <1>2, <1>3 DEF PendingIsExact

-----------------------------------------------------------------------------
(* The invariant is inductive. *)

(* The invariant holds before the first tick. *)
LEMMA InitIInv == Init => IInv
<1> SUFFICES ASSUME Init PROVE IInv
  OBVIOUS
<1> USE DEF Init, Q!InitPCQueue
<1>1. TypeOK
  <2>1. queue \in Seq(Request)
    BY EmptySeq
  <2>2. timer \in [0..3 -> Nat] /\ owed \in [BaseMap -> Int]
    OBVIOUS
  <2>3. /\ worker \in [Thread -> {"loop", "returned", "updating", "exited", "crashed"}]
        /\ request \in [Thread -> Request \cup {None}]
        /\ toVisit \in [Thread -> SUBSET Instance]
    OBVIOUS
  <2>4. QED
    BY <2>1, <2>2, <2>3 DEF TypeOK
<1>2. PendingIsExact
  <2>1. HoldersOf(request) = {}
    BY DEF HoldersOf
  <2>2. Holders = HoldersOf(request)
    BY DEF Holders, HoldersOf
  <2>3. Cardinality(Holders) = 0
    BY <2>1, <2>2, HoldersFinite
  <2>4. QED
    BY <2>3 DEF PendingIsExact
<1>3. WorkersAreSound /\ MainIsSound
  BY DEF WorkersAreSound, MainIsSound
<1>4. QED
  BY <1>1, <1>2, <1>3 DEF IInv

(* Steps of the world thread leave the requests held by workers alone. *)
LEMMA SameHolders ==
    ASSUME UNCHANGED request
    PROVE  Holders' = Holders
BY DEF Holders

(* Steps of the world thread keep the invariant. *)
LEMMA MainStepKeepsIInv ==
    ASSUME IInv,
           \/ \E d \in Diff : BeginTick(d)
           \/ \E i \in Instance : CreateInstance(i)
           \/ UnloadAll
           \/ MainStep
    PROVE  IInv'
<1> USE DEF IInv, mainVars, queueVars, workerVars
<1>1. ASSUME NEW d \in Diff, BeginTick(d) PROVE IInv'
  <2>1. TypeOK'
    <3>1. d \in Nat
      BY ConstantsAssumption
    <3>2. timer' \in [0..3 -> Nat] /\ owed' \in [BaseMap -> Int]
      <4>1. timer \in [0..3 -> Nat] /\ owed \in [BaseMap -> Int]
        BY DEF TypeOK
      <4>2. timer' = [k \in 0..3 |-> timer[k] + d] /\ owed' = [m \in BaseMap |-> owed[m] + d]
        BY <1>1 DEF BeginTick
      <4>3. timer' \in [0..3 -> Nat]
        BY <3>1, <4>1, <4>2
      <4>4. owed' \in [BaseMap -> Int]
        BY <3>1, <4>1, <4>2
      <4> QED
        BY <4>3, <4>4
    <3>3. QED
      BY <1>1, <3>2 DEF TypeOK, BeginTick
  <2>2. PendingIsExact'
    BY <1>1, SameHolders DEF PendingIsExact, BeginTick
  <2>3. WorkersAreSound' /\ MainIsSound'
    BY <1>1 DEF WorkersAreSound, MainIsSound, BeginTick
  <2>4. QED
    BY <2>1, <2>2, <2>3
<1>2. ASSUME NEW i \in Instance, CreateInstance(i) PROVE IInv'
  <2>1. TypeOK'
    BY <1>2 DEF TypeOK, CreateInstance
  <2>2. PendingIsExact'
    BY <1>2, SameHolders DEF PendingIsExact, CreateInstance
  <2>3. WorkersAreSound' /\ MainIsSound'
    BY <1>2 DEF WorkersAreSound, MainIsSound, CreateInstance
  <2>4. QED
    BY <2>1, <2>2, <2>3
<1>3. CASE UnloadAll
  <2>1. TypeOK'
    BY <1>3 DEF TypeOK, UnloadAll
  <2>2. PendingIsExact'
    BY <1>3, SameHolders DEF PendingIsExact, UnloadAll
  <2>3. WorkersAreSound' /\ MainIsSound'
    BY <1>3 DEF WorkersAreSound, MainIsSound, UnloadAll
  <2>4. QED
    BY <2>1, <2>2, <2>3
<1>4. CASE ScheduleLfg
  <2>1. /\ Schedule(Lfg, 0)
        /\ Lfg \in Target
    BY <1>4 DEF ScheduleLfg, Target
  <2>2. TypeOK'
    BY <1>4, <2>1, PushTypes DEF TypeOK, ScheduleLfg
  <2>3. PendingIsExact'
    BY <1>4, <2>1, PushCounts DEF ScheduleLfg
  <2>4. WorkersAreSound' /\ MainIsSound'
    BY <1>4, <2>1, PushTypes DEF WorkersAreSound, MainIsSound, ScheduleLfg
  <2>5. QED
    BY <2>2, <2>3, <2>4
<1>5. ASSUME NEW m \in BaseMap, ScheduleMap(m) PROVE IInv'
  <2>1. /\ Schedule(m, FullDiff(m))
        /\ m \in Target
        /\ FullDiff(m) \in Nat
    BY <1>5, ConstantsAssumption DEF ScheduleMap, Target, FullDiff, TypeOK
  <2>2. TypeOK'
    BY <1>5, <2>1, PushTypes DEF TypeOK, ScheduleMap
  <2>3. PendingIsExact'
    BY <1>5, <2>1, PushCounts DEF ScheduleMap
  <2>4. WorkersAreSound' /\ MainIsSound'
    BY <1>5, <2>1, PushTypes DEF WorkersAreSound, MainIsSound, ScheduleMap
  <2>5. QED
    BY <2>2, <2>3, <2>4
<1>6. CASE BeginWait
  <2>1. TypeOK'
    BY <1>6 DEF TypeOK, BeginWait
  <2>2. PendingIsExact'
    BY <1>6, SameHolders DEF PendingIsExact, BeginWait
  <2>3. WorkersAreSound' /\ MainIsSound'
    BY <1>6 DEF WorkersAreSound, MainIsSound, BeginWait
  <2>4. QED
    BY <2>1, <2>2, <2>3
<1>7. CASE WaitForMaps
  <2>1. TypeOK'
    BY <1>7 DEF TypeOK, WaitForMaps, WaitThreads
  <2>2. PendingIsExact'
    BY <1>7, SameHolders DEF PendingIsExact, WaitForMaps
  <2>3. WorkersAreSound' /\ MainIsSound'
    BY <1>7 DEF WorkersAreSound, MainIsSound, WaitForMaps, WaitThreads
  <2>4. QED
    BY <2>1, <2>2, <2>3
<1>8. CASE EndTick
  <2>1. TypeOK'
    BY <1>8 DEF TypeOK, EndTick
  <2>2. PendingIsExact'
    BY <1>8, SameHolders DEF PendingIsExact, EndTick
  <2>3. WorkersAreSound' /\ MainIsSound'
    BY <1>8 DEF WorkersAreSound, MainIsSound, EndTick
  <2>4. QED
    BY <2>1, <2>2, <2>3
<1>9. CASE StopWait
  <2>1. TypeOK'
    BY <1>9 DEF TypeOK, StopWait, WaitThreads
  <2>2. PendingIsExact'
    BY <1>9, SameHolders DEF PendingIsExact, StopWait
  <2>3. WorkersAreSound' /\ MainIsSound'
    BY <1>9 DEF WorkersAreSound, MainIsSound, StopWait, WaitThreads
  <2>4. QED
    BY <2>1, <2>2, <2>3
<1>10. CASE StopCancel
  <2>1. pending = 0
    BY <1>10 DEF MainIsSound, StopCancel
  <2>2. TypeOK'
    BY <1>10 DEF TypeOK, StopCancel, Q!Cancel
  <2>3. queue = <<>>
    BY <2>1, ZeroMeansQuiet
  <2>4. PendingIsExact'
    BY <1>10, <2>3, SameHolders DEF PendingIsExact, StopCancel, Q!Cancel
  <2>5. WorkersAreSound' /\ MainIsSound'
    BY <1>10 DEF WorkersAreSound, MainIsSound, StopCancel, Q!Cancel
  <2>6. QED
    BY <2>2, <2>4, <2>5
<1>11. CASE StopJoin
  <2>1. TypeOK'
    BY <1>11 DEF TypeOK, StopJoin
  <2>2. PendingIsExact'
    BY <1>11, SameHolders DEF PendingIsExact, StopJoin
  <2>3. WorkersAreSound' /\ MainIsSound'
    BY <1>11 DEF WorkersAreSound, MainIsSound, StopJoin
  <2>4. QED
    BY <2>1, <2>2, <2>3
<1>12. QED
  BY <1>1, <1>2, <1>3, <1>4, <1>5, <1>6, <1>7, <1>8, <1>9, <1>10, <1>11 DEF MainStep

(* Steps of a worker keep the invariant. *)
LEMMA WorkerStepKeepsIInv ==
    ASSUME IInv, NEW w \in Thread, WorkerStep(w) \/ Wakeup(w)
    PROVE  IInv'
<1> USE DEF IInv, mainVars, queueVars, workerVars
<1>1. CASE Sleep(w)
  <2>1. TypeOK'
    BY <1>1 DEF TypeOK, Sleep, Q!Blocks
  <2>2. PendingIsExact'
    BY <1>1, SameHolders DEF PendingIsExact, Sleep, Q!Blocks
  <2>3. WorkersAreSound' /\ MainIsSound'
    BY <1>1 DEF WorkersAreSound, MainIsSound, Sleep, Q!Blocks
  <2>4. QED
    BY <2>1, <2>2, <2>3
<1>2. CASE Wakeup(w)
  <2>1. TypeOK'
    BY <1>2 DEF TypeOK, Wakeup, Q!SpuriousWakeup
  <2>2. PendingIsExact'
    BY <1>2, SameHolders DEF PendingIsExact, Wakeup, Q!SpuriousWakeup
  <2>3. WorkersAreSound' /\ MainIsSound'
    BY <1>2 DEF WorkersAreSound, MainIsSound, Wakeup, Q!SpuriousWakeup
  <2>4. QED
    BY <2>1, <2>2, <2>3
<1>3. CASE PopRequest(w)
  <2>1. /\ queue # <<>> /\ queue' = Tail(queue)
        /\ request' = [request EXCEPT ![w] = Head(queue)]
        /\ worker' = [worker EXCEPT ![w] = "returned"]
        /\ request[w] = None
    BY <1>3 DEF PopRequest, Q!Takes, AtWaitAndPop, WorkersAreSound
  <2>2. /\ Head(queue) \in Request
        /\ Head(queue) # None
        /\ Tail(queue) \in Seq(Request)
        /\ Len(Tail(queue)) = Len(queue) - 1
        /\ Len(queue) \in Nat
    BY <2>1, HeadTailProperties, LenProperties, ConstantsAssumption DEF TypeOK
  <2>3. TypeOK'
    BY <1>3, <2>1, <2>2 DEF TypeOK, PopRequest, Q!Takes
  <2>4. Cardinality(HoldersOf(request')) = Cardinality(HoldersOf(request)) + 1
    BY <2>1, <2>2, TakeCounts DEF TypeOK
  <2>5. PendingIsExact'
    <3>1. Cardinality(HoldersOf(request)) \in Nat
      BY HoldersFinite
    <3>2. pending' = pending /\ pending = Len(queue) + Cardinality(HoldersOf(request))
      BY <1>3 DEF PopRequest, PendingIsExact, Holders, HoldersOf
    <3>3. pending' = Len(queue') + Cardinality(HoldersOf(request'))
      BY <2>1, <2>2, <2>4, <3>1, <3>2
    <3>4. QED
      BY <3>3 DEF PendingIsExact, Holders, HoldersOf
  <2>6. WorkersAreSound' /\ MainIsSound'
    BY <1>3, <2>1, <2>2 DEF WorkersAreSound, MainIsSound, PopRequest, Q!Takes, TypeOK
  <2>7. QED
    BY <2>3, <2>5, <2>6
<1>4. CASE PopNothing(w)
  <2>1. TypeOK'
    BY <1>4 DEF TypeOK, PopNothing, Q!ReturnsNothing, Q!pcqVars
  <2>2. PendingIsExact'
    BY <1>4, SameHolders DEF PendingIsExact, PopNothing, Q!ReturnsNothing, Q!pcqVars
  <2>3. WorkersAreSound' /\ MainIsSound'
    BY <1>4 DEF WorkersAreSound, MainIsSound, PopNothing, Q!ReturnsNothing, Q!pcqVars, TypeOK
  <2>4. QED
    BY <2>1, <2>2, <2>3
<1>5. CASE ExitThread(w)
  <2>1. TypeOK'
    BY <1>5 DEF TypeOK, ExitThread
  <2>2. PendingIsExact'
    BY <1>5, SameHolders DEF PendingIsExact, ExitThread
  <2>3. WorkersAreSound' /\ MainIsSound'
    BY <1>5 DEF WorkersAreSound, MainIsSound, ExitThread, TypeOK
  <2>4. QED
    BY <2>1, <2>2, <2>3
<1>6. CASE BeginUpdate(w)
  <2>1. request[w] # None
    BY <1>6 DEF BeginUpdate, WorkersAreSound
  <2>2. PICK r \in Request : r = request[w]
    BY <2>1 DEF TypeOK
  <2>3. TypeOK'
    <3>1. r.target \in Target /\ r.diff \in Nat
      BY DEF Request
    <3>2. /\ owed' = [b \in BaseMap |-> IF b = r.target THEN owed[b] - r.diff ELSE owed[b]]
          /\ worker' = [worker EXCEPT ![w] = "updating"]
          /\ toVisit' = [toVisit EXCEPT ![w] = InstancesOf(r.target)]
          /\ UNCHANGED <<queueVars, pending, asleep, cancelled, mainVars, maps, request>>
      BY <1>6, <2>1, <2>2 DEF BeginUpdate
    <3>3. owed' \in [BaseMap -> Int]
      BY <3>1, <3>2 DEF TypeOK
    <3>4. InstancesOf(r.target) \subseteq Instance
      BY DEF InstancesOf
    <3>5. QED
      BY <3>2, <3>3, <3>4 DEF TypeOK
  <2>4. PendingIsExact'
    BY <1>6, SameHolders DEF PendingIsExact, BeginUpdate
  <2>5. WorkersAreSound' /\ MainIsSound'
    BY <1>6, <2>1 DEF WorkersAreSound, MainIsSound, BeginUpdate, TypeOK
  <2>6. QED
    BY <2>3, <2>4, <2>5
<1>7. ASSUME NEW i \in Instance, ScheduleInstance(w, i) PROVE IInv'
  <2>1. request[w] \in Request /\ main \in {"maps", "wait"}
    <3>1. worker[w] = "updating"
      BY <1>7 DEF ScheduleInstance, Visited
    <3>2. request[w] # None /\ request[w] \in Request
      BY <3>1 DEF WorkersAreSound, TypeOK
    <3>3. pending # 0
      BY <3>2, ZeroMeansQuiet
    <3>4. QED
      BY <3>2, <3>3 DEF MainIsSound
  <2>2. i \in Target /\ request[w].diff \in Nat /\ Schedule(i, request[w].diff)
    BY <1>7, <2>1 DEF ScheduleInstance, Target, Request
  <2>3. TypeOK'
    BY <1>7, <2>2, PushTypes DEF TypeOK, ScheduleInstance, Visited
  <2>4. PendingIsExact'
    BY <1>7, <2>2, PushCounts DEF ScheduleInstance, Visited
  <2>5. WorkersAreSound' /\ MainIsSound'
    BY <1>7, <2>1, <2>2, PushTypes DEF WorkersAreSound, MainIsSound, ScheduleInstance, Visited
  <2>6. QED
    BY <2>3, <2>4, <2>5
<1>8. ASSUME NEW i \in Instance, SkipInstance(w, i) \/ DestroyInstance(w, i) PROVE IInv'
  <2>1. TypeOK'
    BY <1>8 DEF TypeOK, SkipInstance, DestroyInstance, Visited
  <2>2. PendingIsExact'
    BY <1>8, SameHolders DEF PendingIsExact, SkipInstance, DestroyInstance, Visited
  <2>3. WorkersAreSound' /\ MainIsSound'
    BY <1>8 DEF WorkersAreSound, MainIsSound, SkipInstance, DestroyInstance, Visited
  <2>4. QED
    BY <2>1, <2>2, <2>3
<1>9. CASE FinishUpdate(w)
  <2>1. /\ request' = [request EXCEPT ![w] = None]
        /\ pending' = pending - 1
        /\ queue' = queue
        /\ request[w] # None
    BY <1>9 DEF FinishUpdate, CountDown, WorkersAreSound
  <2>2. /\ Cardinality(HoldersOf(request')) = Cardinality(HoldersOf(request)) - 1
        /\ Cardinality(HoldersOf(request)) > 0
    BY <2>1, DropCounts DEF TypeOK
  <2>3. /\ pending = Len(queue) + Cardinality(HoldersOf(request))
        /\ Len(queue) \in Nat
        /\ Cardinality(HoldersOf(request)) \in Nat
    BY HoldersFinite, LenProperties DEF PendingIsExact, Holders, HoldersOf, TypeOK
  <2>4. pending' \in Nat /\ pending # 0
    BY <2>1, <2>2, <2>3
  <2>5. TypeOK'
    BY <1>9, <2>1, <2>4 DEF TypeOK, FinishUpdate, CountDown
  <2>6. PendingIsExact'
    <3>1. pending' = Len(queue') + Cardinality(HoldersOf(request'))
      BY <2>1, <2>2, <2>3
    <3>2. QED
      BY <3>1 DEF PendingIsExact, Holders, HoldersOf
  <2>7. WorkersAreSound' /\ MainIsSound'
    BY <1>9, <2>4 DEF WorkersAreSound, MainIsSound, FinishUpdate, CountDown, TypeOK
  <2>8. QED
    BY <2>5, <2>6, <2>7
<1>10. QED
  BY <1>1, <1>2, <1>3, <1>4, <1>5, <1>6, <1>7, <1>8, <1>9 DEF WorkerStep

(* The invariant is inductive. *)
LEMMA IInvIsInductive == IInv /\ [Next]_vars => IInv'
<1> SUFFICES ASSUME IInv, [Next]_vars PROVE IInv'
  OBVIOUS
<1>1. CASE \E w \in Thread : WorkerStep(w) \/ Wakeup(w)
  BY <1>1, WorkerStepKeepsIInv
<1>2. CASE UNCHANGED vars
  BY <1>2 DEF vars, mainVars, queueVars, workerVars, IInv, TypeOK, PendingIsExact,
             Holders, WorkersAreSound, MainIsSound
<1>3. QED
  BY <1>1, <1>2, MainStepKeepsIInv DEF Next, Terminated

(* The inductive invariant holds in every reachable state. *)
THEOREM Invariance == Spec => []IInv
<1>1. QED
  BY InitIInv, IInvIsInductive, PTL DEF Spec

(* Every variable keeps its type; in particular the counter of requests    *)
(* never goes below zero.                                                  *)
THEOREM TypeCorrect == Spec => []TypeOK
<1>1. IInv => TypeOK
  BY DEF IInv
<1>2. QED
  BY <1>1, Invariance, PTL

(* The counter is the number of requests that are queued or being worked   *)
(* on, whatever the workers schedule themselves.                           *)
THEOREM CounterIsExact == Spec => []PendingIsExact
<1>1. IInv => PendingIsExact
  BY DEF IInv
<1>2. QED
  BY <1>1, Invariance, PTL

(* Outside the part of a tick that updates maps no worker holds a map.     *)
THEOREM BarrierHolds == Spec => []Barrier
<1>1. IInv => Barrier
  <2>1. SUFFICES ASSUME IInv, main \notin {"lfg", "maps", "wait"}
                 PROVE  queue = <<>> /\ \A w \in Thread : request[w] = None
    BY DEF Barrier
  <2>2. pending = 0
    BY <2>1 DEF IInv, MainIsSound
  <2>3. QED
    BY <2>1, <2>2, ZeroMeansQuiet DEF IInv
<1>2. QED
  BY <1>1, Invariance, PTL

(* No worker dereferences a null request, however Stop interleaves with    *)
(* the workers.                                                            *)
THEOREM NeverNull == Spec => []NoNullRequest
<1>1. IInv => NoNullRequest
  BY DEF IInv, WorkersAreSound, NoNullRequest
<1>2. QED
  BY <1>1, Invariance, PTL

-----------------------------------------------------------------------------
(* Who may schedule what: the strengthening behind OneUpdatePerMap and     *)
(* RequestsTargetLiveMaps.                                                 *)

(* A request for target t is queued or held. *)
Requested(t) ==
    \/ \E n \in DOMAIN queue : queue[n].target = t
    \/ \E w \in Thread : request[w] # None /\ request[w].target = t

(* The family of a base map: the map itself and its instances. *)
NoneOfFamilyRequested(m) ==
    ~Requested(m) /\ \A i \in Instance : Owner[i] = m => ~Requested(i)

(* Until MapInstanced::Update of m runs, no instance of m is requested. *)
InstancesWait ==
    /\ \A n \in DOMAIN queue : \A i \in Instance :
          Owner[i] = queue[n].target => ~Requested(i)
    /\ \A w \in Thread : \A i \in Instance :
          worker[w] # "updating" /\ request[w] # None /\ Owner[i] = request[w].target
              => ~Requested(i)

(* A running MapInstanced::Update has only live, unscheduled instances of  *)
(* its own map ahead of it.                                                *)
VisitsAreSound ==
    \A w \in Thread : \A i \in toVisit[w] :
        /\ worker[w] = "updating"
        /\ request[w].target = Owner[i]
        /\ i \in maps
        /\ ~Requested(i)

(* What is left to schedule has not been scheduled, and base maps live     *)
(* until UnloadAll.                                                        *)
TickIsSound ==
    /\ main # "maps" => toSchedule = {}
    /\ \A m \in toSchedule : NoneOfFamilyRequested(m)
    /\ main \notin {"stopping", "drained", "join", "stopped"} => BaseMap \subseteq maps

SInv ==
    /\ OneUpdatePerMap
    /\ RequestsTargetLiveMaps
    /\ InstancesWait
    /\ VisitsAreSound
    /\ TickIsSound

(* OneUpdatePerMap, spelled out. *)
LEMMA OneUpdateUnfolded ==
    ASSUME TypeOK
    PROVE  OneUpdatePerMap <=>
             /\ \A k, n \in DOMAIN queue : queue[k].target = queue[n].target => k = n
             /\ \A w \in Thread : \A n \in DOMAIN queue :
                   request[w] # None => request[w].target # queue[n].target
             /\ \A v, w \in Thread :
                   request[v] # None /\ request[w] # None /\ request[v].target = request[w].target
                      => v = w
BY DEF OneUpdatePerMap, IsInjective, ToSet, Holders

(* What is requested depends on the queue and the workers' requests only. *)
LEMMA SameRequests ==
    ASSUME UNCHANGED <<queue, request>>
    PROVE  /\ \A t : Requested(t)' <=> Requested(t)
           /\ OneUpdatePerMap' <=> OneUpdatePerMap
BY DEF Requested, OneUpdatePerMap, Holders, IsInjective, ToSet

(* Scheduling a target that is not requested. *)
LEMMA ScheduleAdds ==
    ASSUME TypeOK, TypeOK', NEW t \in Target, NEW d \in Nat, Schedule(t, d),
           UNCHANGED request, ~Requested(t), OneUpdatePerMap
    PROVE  /\ \A x : Requested(x)' <=> (Requested(x) \/ x = t)
           /\ OneUpdatePerMap'
           /\ \A n \in DOMAIN queue' :
                 \/ queue'[n].target = t
                 \/ \E k \in DOMAIN queue : queue'[n] = queue[k]
<1> DEFINE r == [target |-> t, diff |-> d]
<1>1. r \in Request
  BY DEF Request
<1>2. queue' = Append(queue, r)
  BY DEF Schedule, Q!Push
<1>3. /\ queue \in Seq(Request) /\ Len(queue) \in Nat
      /\ DOMAIN queue = 1..Len(queue)
      /\ DOMAIN queue' = 1..(Len(queue) + 1)
      /\ \A n \in 1..Len(queue) : queue'[n] = queue[n]
      /\ queue'[Len(queue) + 1] = r
  BY <1>1, <1>2, AppendProperties, LenProperties DEF TypeOK
<1>4. r.target = t
  OBVIOUS
<1> HIDE DEF r
<1>5. \A x : Requested(x)' <=> (Requested(x) \/ x = t)
  BY <1>3, <1>4 DEF Requested
<1>6. \A n \in DOMAIN queue' :
         \/ queue'[n].target = t
         \/ \E k \in DOMAIN queue : queue'[n] = queue[k]
  BY <1>3, <1>4
<1>7. OneUpdatePerMap'
  <2>1. \A n \in DOMAIN queue : queue[n].target # t
    BY DEF Requested
  <2>2. \A k, n \in DOMAIN queue' : queue'[k].target = queue'[n].target => k = n
    BY <1>3, <1>4, <2>1, OneUpdateUnfolded
  <2>3. \A w \in Thread : \A n \in DOMAIN queue' :
           request[w] # None => request[w].target # queue'[n].target
    BY <1>3, <1>4, OneUpdateUnfolded DEF Requested
  <2>4. QED
    BY <2>2, <2>3, OneUpdateUnfolded DEF OneUpdatePerMap, IsInjective, ToSet, Holders
<1>8. QED
  BY <1>5, <1>6, <1>7

(* Popping moves a request from the queue to a worker. *)
LEMMA PopMoves ==
    ASSUME TypeOK, WorkersAreSound, OneUpdatePerMap, NEW w \in Thread, PopRequest(w)
    PROVE  /\ \A x : Requested(x)' <=> Requested(x)
           /\ OneUpdatePerMap'
           /\ \A n \in DOMAIN queue' : \E k \in DOMAIN queue : queue'[n] = queue[k]
           /\ \E k \in DOMAIN queue : request'[w] = queue[k]
           /\ \A v \in Thread \ {w} : request'[v] = request[v]
<1>1. /\ queue # <<>> /\ queue' = Tail(queue)
      /\ request' = [request EXCEPT ![w] = Head(queue)]
      /\ request[w] = None
  BY DEF PopRequest, Q!Takes, AtWaitAndPop, WorkersAreSound
<1>2. /\ queue \in Seq(Request) /\ Len(queue) \in Nat \ {0}
      /\ DOMAIN queue = 1..Len(queue)
      /\ DOMAIN queue' = 1..(Len(queue) - 1)
      /\ \A n \in 1..(Len(queue) - 1) : queue'[n] = queue[n + 1]
      /\ Head(queue) = queue[1]
      /\ queue[1] \in Request
  BY <1>1, HeadTailProperties, LenProperties, EmptySeq DEF TypeOK
<1>3. queue[1] # None
  BY <1>2, ConstantsAssumption
<1>4. request' = [v \in Thread |-> IF v = w THEN queue[1] ELSE request[v]]
  BY <1>1, <1>2 DEF TypeOK
<1>5. \A n \in 1..Len(queue) : n = 1 \/ (n - 1 \in DOMAIN queue' /\ queue'[n - 1] = queue[n])
  BY <1>2
<1>6. \A x : Requested(x)' <=> Requested(x)
  <2>1. ASSUME NEW x, Requested(x) PROVE Requested(x)'
    <3>1. CASE \E n \in DOMAIN queue : queue[n].target = x
      <4>1. PICK n \in 1..Len(queue) : queue[n].target = x
        BY <3>1, <1>2
      <4>2. CASE n = 1
        BY <4>1, <4>2, <1>3, <1>4 DEF Requested
      <4>3. CASE n # 1
        BY <4>1, <4>3, <1>5 DEF Requested
      <4>4. QED
        BY <4>2, <4>3
    <3>2. CASE \E v \in Thread : request[v] # None /\ request[v].target = x
      BY <3>2, <1>1, <1>4 DEF Requested
    <3>3. QED
      BY <2>1, <3>1, <3>2 DEF Requested
  <2>2. ASSUME NEW x, Requested(x)' PROVE Requested(x)
    BY <1>1, <1>2, <1>4, <2>2 DEF Requested
  <2>3. QED
    BY <2>1, <2>2
<1>7. OneUpdatePerMap'
  <2>1. \A k, n \in DOMAIN queue' : queue'[k].target = queue'[n].target => k = n
    BY <1>2, OneUpdateUnfolded
  <2>2. \A v \in Thread : \A n \in DOMAIN queue' :
           request'[v] # None => request'[v].target # queue'[n].target
    BY <1>2, <1>4, OneUpdateUnfolded
  <2>3. \A u, v \in Thread :
           request'[u] # None /\ request'[v] # None /\ request'[u].target = request'[v].target
              => u = v
    BY <1>2, <1>4, OneUpdateUnfolded
  <2>4. QED
    BY <2>1, <2>2, <2>3 DEF OneUpdatePerMap, IsInjective, ToSet, Holders
<1>8. QED
  BY <1>2, <1>4, <1>6, <1>7

-----------------------------------------------------------------------------
(* Nothing is requested before the first tick. *)
LEMMA InitSInv == Init => SInv
BY DEF Init, Q!InitPCQueue, SInv, OneUpdatePerMap, IsInjective, ToSet, Holders,
       RequestsTargetLiveMaps, InstancesWait, VisitsAreSound, TickIsSound,
       NoneOfFamilyRequested, Requested

(* Nothing is requested while the counter is zero. *)
LEMMA NothingRequested ==
    ASSUME IInv, pending = 0
    PROVE  /\ \A x : ~Requested(x)
           /\ \A w \in Thread : toVisit[w] # {} => worker[w] # "updating"
<1>1. queue = <<>> /\ \A w \in Thread : request[w] = None
  BY ZeroMeansQuiet DEF IInv
<1>2. \A w \in Thread : worker[w] # "updating"
  BY <1>1 DEF IInv, WorkersAreSound
<1>3. QED
  BY <1>1, <1>2 DEF Requested

(* Steps that change neither requests, visits, nor what is left to do. *)
LEMMA StutterKeepsSInv ==
    ASSUME SInv,
           UNCHANGED <<queue, request, toVisit, maps, toSchedule>>,
           \A w \in Thread : worker[w] = "updating" <=> worker'[w] = "updating",
           main' # "maps" => toSchedule = {},
           main \in {"stopping", "drained", "join", "stopped"}
             => main' \in {"stopping", "drained", "join", "stopped"}
    PROVE  SInv'
<1>1. \A t : Requested(t)' <=> Requested(t)
  BY SameRequests
<1>2. OneUpdatePerMap'
  BY SameRequests DEF SInv
<1>3. RequestsTargetLiveMaps'
  BY DEF SInv, RequestsTargetLiveMaps, Holders
<1>4. InstancesWait'
  BY <1>1 DEF SInv, InstancesWait
<1>5. VisitsAreSound'
  BY <1>1 DEF SInv, VisitsAreSound
<1>6. TickIsSound'
  BY <1>1 DEF SInv, TickIsSound, NoneOfFamilyRequested
<1>7. QED
  BY <1>2, <1>3, <1>4, <1>5, <1>6 DEF SInv

(* Steps of the world thread keep the scheduling discipline. *)
LEMMA MainStepKeepsSInv ==
    ASSUME IInv, IInv', SInv,
           \/ \E d \in Diff : BeginTick(d)
           \/ \E i \in Instance : CreateInstance(i)
           \/ UnloadAll
           \/ MainStep
    PROVE  SInv'
<1> USE DEF mainVars, queueVars, workerVars
<1>1. ASSUME NEW d \in Diff, BeginTick(d) PROVE SInv'
  BY <1>1, StutterKeepsSInv DEF BeginTick, SInv, TickIsSound
<1>2. ASSUME NEW i \in Instance, CreateInstance(i) PROVE SInv'
  <2>1. pending = 0 /\ main = "idle"
    BY <1>2 DEF IInv, MainIsSound, CreateInstance
  <2>2. \A x : Requested(x)' <=> Requested(x)
    BY <1>2, SameRequests DEF CreateInstance
  <2>3. OneUpdatePerMap'
    BY <1>2, SameRequests DEF CreateInstance, SInv
  <2>4. RequestsTargetLiveMaps'
    BY <1>2 DEF CreateInstance, SInv, RequestsTargetLiveMaps, Holders
  <2>5. InstancesWait' /\ VisitsAreSound' /\ TickIsSound'
    BY <1>2, <2>2 DEF CreateInstance, SInv, InstancesWait, VisitsAreSound, TickIsSound,
                      NoneOfFamilyRequested
  <2>6. QED
    BY <2>3, <2>4, <2>5 DEF SInv
<1>3. CASE UnloadAll
  <2>1. pending = 0 /\ main = "idle"
    BY <1>3 DEF IInv, MainIsSound, UnloadAll
  <2>2. queue = <<>> /\ \A w \in Thread : request[w] = None
    BY <2>1, ZeroMeansQuiet DEF IInv
  <2>3. queue' = <<>> /\ request' = request /\ toVisit' = toVisit /\ worker' = worker
        /\ toSchedule' = toSchedule /\ main' = "stopping"
    BY <1>3, <2>2 DEF UnloadAll
  <2>4. OneUpdatePerMap'
    BY <2>3, <2>2, SameRequests DEF SInv
  <2>5. RequestsTargetLiveMaps'
    BY <2>2, <2>3 DEF RequestsTargetLiveMaps, Holders
  <2>6. \A x : ~Requested(x)'
    BY <2>2, <2>3 DEF Requested
  <2>7. \A w \in Thread : toVisit[w] = {}
    BY <2>1, NothingRequested DEF SInv, VisitsAreSound
  <2>8. InstancesWait' /\ VisitsAreSound' /\ TickIsSound'
    BY <2>1, <2>3, <2>6, <2>7 DEF InstancesWait, VisitsAreSound, TickIsSound, SInv,
                                  NoneOfFamilyRequested
  <2>9. QED
    BY <2>4, <2>5, <2>8 DEF SInv
<1>4. CASE ScheduleLfg
  <2>1. pending = 0 /\ main = "lfg"
    BY <1>4 DEF IInv, MainIsSound, ScheduleLfg
  <2>2. /\ \A x : ~Requested(x)
        /\ \A w \in Thread : toVisit[w] # {} => worker[w] # "updating"
    BY <2>1, NothingRequested
  <2>3. /\ Schedule(Lfg, 0) /\ Lfg \in Target
        /\ UNCHANGED <<request, toVisit, maps, worker>>
        /\ main' = "maps" /\ toSchedule' = BaseMap
    BY <1>4 DEF ScheduleLfg, Target
  <2>4. /\ \A x : Requested(x)' <=> x = Lfg
        /\ OneUpdatePerMap'
        /\ \A n \in DOMAIN queue' : queue'[n].target = Lfg
    <3>1. /\ \A x : Requested(x)' <=> (Requested(x) \/ x = Lfg)
          /\ OneUpdatePerMap'
          /\ \A n \in DOMAIN queue' :
                queue'[n].target = Lfg \/ \E k \in DOMAIN queue : queue'[n] = queue[k]
      BY <2>2, <2>3, ScheduleAdds DEF IInv, SInv
    <3>2. QED
      BY <2>2, <3>1 DEF Requested
  <2>5. RequestsTargetLiveMaps'
    BY <2>2, <2>3, <2>4 DEF RequestsTargetLiveMaps, Holders, Requested
  <2>6. /\ Lfg \notin BaseMap /\ Lfg \notin Instance
        /\ Owner \in [Instance -> BaseMap]
    BY ConstantsAssumption
  <2>7. InstancesWait'
    BY <2>4, <2>6 DEF InstancesWait
  <2>8. VisitsAreSound'
    BY <2>2, <2>3 DEF SInv, VisitsAreSound
  <2>9. TickIsSound'
    BY <2>1, <2>3, <2>4, <2>6 DEF SInv, TickIsSound, NoneOfFamilyRequested
  <2>10. QED
    BY <2>4, <2>5, <2>7, <2>8, <2>9 DEF SInv
<1>5. ASSUME NEW m \in BaseMap, ScheduleMap(m) PROVE SInv'
  <2>1. /\ m \in toSchedule /\ main = "maps"
        /\ Schedule(m, FullDiff(m)) /\ m \in Target /\ FullDiff(m) \in Nat
        /\ UNCHANGED <<request, toVisit, maps, worker, main>>
        /\ toSchedule' = toSchedule \ {m}
    BY <1>5, ConstantsAssumption DEF ScheduleMap, Target, FullDiff, IInv, TypeOK
  <2>2. NoneOfFamilyRequested(m) /\ m \in maps
    BY <2>1 DEF SInv, TickIsSound
  <2>3. /\ \A x : Requested(x)' <=> (Requested(x) \/ x = m)
        /\ OneUpdatePerMap'
        /\ \A n \in DOMAIN queue' :
              queue'[n].target = m \/ \E k \in DOMAIN queue : queue'[n] = queue[k]
    BY <2>1, <2>2, ScheduleAdds DEF IInv, SInv, NoneOfFamilyRequested
  <2>4. RequestsTargetLiveMaps'
    BY <2>1, <2>2, <2>3 DEF RequestsTargetLiveMaps, Holders, SInv
  <2>5. m \notin Instance /\ Owner \in [Instance -> BaseMap]
    BY ConstantsAssumption
  <2>6. \A i \in Instance : Requested(i)' <=> Requested(i)
    BY <2>3, <2>5
  <2>7. InstancesWait'
    <3>1. ASSUME NEW n \in DOMAIN queue', NEW i \in Instance, Owner[i] = queue'[n].target
          PROVE  ~Requested(i)
      BY <2>2, <2>3, <3>1 DEF NoneOfFamilyRequested, SInv, InstancesWait
    <3>2. QED
      BY <2>1, <2>6, <3>1 DEF SInv, InstancesWait
  <2>8. VisitsAreSound'
    <3>1. \A w \in Thread : toVisit[w] \subseteq Instance
      BY DEF IInv, TypeOK
    <3>2. QED
      BY <2>1, <2>6, <3>1 DEF SInv, VisitsAreSound
  <2>9. TickIsSound'
    BY <2>1, <2>3, <2>6 DEF SInv, TickIsSound, NoneOfFamilyRequested
  <2>10. QED
    BY <2>3, <2>4, <2>7, <2>8, <2>9 DEF SInv
<1>6. CASE BeginWait
  BY <1>6, StutterKeepsSInv DEF BeginWait, SInv, TickIsSound
<1>7. CASE WaitForMaps
  BY <1>7, StutterKeepsSInv DEF WaitForMaps, WaitThreads, SInv, TickIsSound
<1>8. CASE EndTick
  BY <1>8, StutterKeepsSInv DEF EndTick, SInv, TickIsSound
<1>9. CASE StopWait
  BY <1>9, StutterKeepsSInv DEF StopWait, WaitThreads, SInv, TickIsSound
<1>10. CASE StopCancel
  <2>1. pending = 0 /\ main = "drained"
    BY <1>10 DEF IInv, MainIsSound, StopCancel
  <2>2. queue = <<>>
    BY <2>1, ZeroMeansQuiet DEF IInv
  <2>3. QED
    BY <1>10, <2>2, StutterKeepsSInv DEF StopCancel, Q!Cancel, SInv, TickIsSound
<1>11. CASE StopJoin
  BY <1>11, StutterKeepsSInv DEF StopJoin, SInv, TickIsSound
<1>12. QED
  BY <1>1, <1>2, <1>3, <1>4, <1>5, <1>6, <1>7, <1>8, <1>9, <1>10, <1>11 DEF MainStep

(* Steps of a worker keep the scheduling discipline. *)
LEMMA WorkerStepKeepsSInv ==
    ASSUME IInv, IInv', SInv, NEW w \in Thread, WorkerStep(w) \/ Wakeup(w)
    PROVE  SInv'
<1> USE DEF mainVars, queueVars, workerVars
<1> /\ Owner \in [Instance -> BaseMap]
    /\ BaseMap \cap Instance = {}
    /\ \A v \in Thread : toVisit[v] \subseteq Instance
  BY ConstantsAssumption DEF IInv, TypeOK
<1>1. CASE Sleep(w)
  BY <1>1, StutterKeepsSInv DEF Sleep, Q!Blocks, SInv, TickIsSound
<1>2. CASE Wakeup(w)
  BY <1>2, StutterKeepsSInv DEF Wakeup, Q!SpuriousWakeup, SInv, TickIsSound
<1>3. CASE PopRequest(w)
  <2>1. /\ \A x : Requested(x)' <=> Requested(x)
        /\ OneUpdatePerMap'
        /\ \A n \in DOMAIN queue' : \E k \in DOMAIN queue : queue'[n] = queue[k]
        /\ \E k \in DOMAIN queue : request'[w] = queue[k]
        /\ \A v \in Thread \ {w} : request'[v] = request[v]
    BY <1>3, PopMoves DEF IInv, SInv
  <2>2. /\ worker[w] = "loop" /\ worker'[w] = "returned"
        /\ \A v \in Thread \ {w} : worker'[v] = worker[v]
        /\ UNCHANGED <<maps, toVisit, main, toSchedule>>
    BY <1>3 DEF PopRequest, AtWaitAndPop, IInv, TypeOK
  <2>3. RequestsTargetLiveMaps'
    BY <2>1, <2>2 DEF SInv, RequestsTargetLiveMaps, Holders
  <2>4. InstancesWait'
    BY <2>1, <2>2 DEF SInv, InstancesWait
  <2>5. VisitsAreSound'
    BY <2>1, <2>2 DEF SInv, VisitsAreSound
  <2>6. TickIsSound'
    BY <2>1, <2>2 DEF SInv, TickIsSound, NoneOfFamilyRequested
  <2>7. QED
    BY <2>1, <2>3, <2>4, <2>5, <2>6 DEF SInv
<1>4. CASE PopNothing(w)
  BY <1>4, StutterKeepsSInv DEF PopNothing, AtWaitAndPop, Q!ReturnsNothing, Q!pcqVars, SInv,
                                TickIsSound, IInv, TypeOK
<1>5. CASE ExitThread(w)
  BY <1>5, StutterKeepsSInv DEF ExitThread, SInv, TickIsSound, IInv, TypeOK
<1>6. CASE BeginUpdate(w)
  <2>1. request[w] # None
    BY <1>6 DEF BeginUpdate, IInv, WorkersAreSound
  <2>2. /\ worker[w] = "returned"
        /\ worker' = [worker EXCEPT ![w] = "updating"]
        /\ toVisit' = [toVisit EXCEPT ![w] = InstancesOf(request[w].target)]
        /\ UNCHANGED <<queue, request, maps, main, toSchedule>>
    BY <1>6, <2>1 DEF BeginUpdate
  <2>3. \A x : Requested(x)' <=> Requested(x)
    BY <2>2, SameRequests
  <2>4. OneUpdatePerMap'
    BY <2>2, SameRequests DEF SInv
  <2>5. RequestsTargetLiveMaps'
    BY <2>2 DEF SInv, RequestsTargetLiveMaps, Holders
  <2>6. InstancesWait'
    BY <2>2, <2>3 DEF SInv, InstancesWait, IInv, TypeOK
  <2>7. VisitsAreSound'
    <3>1. ASSUME NEW v \in Thread, NEW i \in toVisit'[v]
          PROVE  /\ worker'[v] = "updating" /\ request[v].target = Owner[i]
                 /\ i \in maps /\ ~Requested(i)
      <4>1. CASE v = w
        <5>1. i \in Instance /\ i \in maps /\ Owner[i] = request[w].target
          BY <2>2, <3>1, <4>1 DEF InstancesOf, IInv, TypeOK
        <5>2. ~Requested(i)
          BY <2>1, <2>2, <5>1 DEF SInv, InstancesWait
        <5>3. QED
          BY <2>2, <4>1, <5>1, <5>2 DEF IInv, TypeOK
      <4>2. CASE v # w
        BY <2>2, <3>1, <4>2 DEF SInv, VisitsAreSound, IInv, TypeOK
      <4>3. QED
        BY <4>1, <4>2
    <3>2. QED
      BY <2>2, <2>3, <3>1 DEF VisitsAreSound
  <2>8. TickIsSound'
    BY <2>2, <2>3 DEF SInv, TickIsSound, NoneOfFamilyRequested
  <2>9. QED
    BY <2>4, <2>5, <2>6, <2>7, <2>8 DEF SInv
<1>7. ASSUME NEW i \in Instance, ScheduleInstance(w, i) PROVE SInv'
  <2>1. /\ worker[w] = "updating" /\ i \in toVisit[w]
        /\ toVisit' = [toVisit EXCEPT ![w] = @ \ {i}]
        /\ Schedule(i, request[w].diff)
        /\ UNCHANGED <<worker, request, maps, main, toSchedule>>
    BY <1>7 DEF ScheduleInstance, Visited
  <2>2. /\ request[w] # None /\ request[w].diff \in Nat /\ i \in Target
        /\ request[w].target = Owner[i] /\ i \in maps /\ ~Requested(i)
    BY <2>1 DEF IInv, WorkersAreSound, TypeOK, Request, Target, SInv, VisitsAreSound
  <2>3. /\ \A x : Requested(x)' <=> (Requested(x) \/ x = i)
        /\ OneUpdatePerMap'
        /\ \A n \in DOMAIN queue' :
              queue'[n].target = i \/ \E k \in DOMAIN queue : queue'[n] = queue[k]
    BY <2>1, <2>2, ScheduleAdds DEF IInv, SInv
  <2>4. RequestsTargetLiveMaps'
    BY <2>1, <2>2, <2>3 DEF RequestsTargetLiveMaps, Holders, SInv
  <2>5. /\ Owner[i] \in BaseMap /\ \A j \in Instance : Owner[j] # i
        /\ \A m \in BaseMap : m # i
    OBVIOUS
  <2>6. /\ \A n \in DOMAIN queue : queue[n].target # Owner[i]
        /\ \A v \in Thread \ {w} : request[v] # None => request[v].target # Owner[i]
    BY <2>2, OneUpdateUnfolded DEF IInv, SInv
  <2>7. InstancesWait'
    <3>1. ASSUME NEW n \in DOMAIN queue', NEW j \in Instance, Owner[j] = queue'[n].target
          PROVE  ~Requested(j)'
      BY <2>3, <2>5, <2>6, <3>1 DEF SInv, InstancesWait
    <3>2. ASSUME NEW v \in Thread, NEW j \in Instance, worker[v] # "updating",
                 request[v] # None, Owner[j] = request[v].target
          PROVE  ~Requested(j)'
      BY <2>1, <2>3, <2>6, <3>2 DEF SInv, InstancesWait
    <3>3. QED
      BY <2>1, <3>1, <3>2 DEF InstancesWait
  <2>8. VisitsAreSound'
    <3>1. ASSUME NEW v \in Thread, NEW j \in toVisit'[v]
          PROVE  /\ j \in toVisit[v] /\ j # i
      <4>1. j \in toVisit[v]
        BY <2>1, <3>1 DEF IInv, TypeOK
      <4>2. CASE v = w
        BY <2>1, <3>1, <4>2, <4>1 DEF IInv, TypeOK
      <4>3. CASE v # w
        <5>1. request[v].target = Owner[j] /\ worker[v] = "updating"
          BY <4>1 DEF SInv, VisitsAreSound
        <5>2. request[v] # None
          BY <5>1 DEF IInv, WorkersAreSound
        <5>3. QED
          BY <2>6, <4>1, <4>3, <5>1, <5>2
      <4>4. QED
        BY <4>1, <4>2, <4>3
    <3>2. QED
      BY <2>1, <2>3, <3>1 DEF SInv, VisitsAreSound
  <2>9. TickIsSound'
    <3>1. ASSUME NEW m \in toSchedule PROVE m # Owner[i] /\ m # i
      <4>1. Requested(Owner[i]) /\ m \in BaseMap
        BY <2>2 DEF Requested, IInv, TypeOK
      <4>2. QED
        BY <2>5, <4>1 DEF SInv, TickIsSound, NoneOfFamilyRequested
    <3>2. QED
      BY <2>1, <2>3, <3>1 DEF SInv, TickIsSound, NoneOfFamilyRequested
  <2>10. QED
    BY <2>3, <2>4, <2>7, <2>8, <2>9 DEF SInv
<1>8. ASSUME NEW i \in Instance, SkipInstance(w, i) \/ DestroyInstance(w, i) PROVE SInv'
  <2>1. /\ worker[w] = "updating" /\ i \in toVisit[w]
        /\ toVisit' = [toVisit EXCEPT ![w] = @ \ {i}]
        /\ UNCHANGED <<worker, request, queue, main, toSchedule>>
        /\ maps' = maps \/ maps' = maps \ {i}
    BY <1>8 DEF SkipInstance, DestroyInstance, Visited
  <2>2. request[w] # None /\ request[w].target = Owner[i] /\ ~Requested(i)
    BY <2>1 DEF IInv, WorkersAreSound, SInv, VisitsAreSound
  <2>3. \A x : Requested(x)' <=> Requested(x)
    BY <2>1, SameRequests
  <2>4. OneUpdatePerMap'
    BY <2>1, SameRequests DEF SInv
  <2>5. RequestsTargetLiveMaps'
    BY <2>1, <2>2 DEF SInv, RequestsTargetLiveMaps, Holders, Requested
  <2>6. InstancesWait'
    BY <2>1, <2>3 DEF SInv, InstancesWait
  <2>7. VisitsAreSound'
    <3>1. ASSUME NEW v \in Thread, NEW j \in toVisit'[v]
          PROVE  /\ j \in toVisit[v] /\ j # i
      <4>1. j \in toVisit[v]
        BY <2>1, <3>1 DEF IInv, TypeOK
      <4>2. CASE v = w
        BY <2>1, <3>1, <4>2, <4>1 DEF IInv, TypeOK
      <4>3. CASE v # w
        <5>1. request[v].target = Owner[j] /\ request[v] # None
          BY <4>1 DEF SInv, VisitsAreSound, IInv, WorkersAreSound
        <5>2. request[v].target # request[w].target
          BY <2>2, <4>3, <5>1, OneUpdateUnfolded DEF IInv, SInv
        <5>3. QED
          BY <2>2, <4>1, <5>1, <5>2
      <4>4. QED
        BY <4>1, <4>2, <4>3
    <3>2. QED
      BY <2>1, <2>3, <3>1 DEF SInv, VisitsAreSound
  <2>8. TickIsSound'
    BY <2>1, <2>3 DEF SInv, TickIsSound, NoneOfFamilyRequested
  <2>9. QED
    BY <2>4, <2>5, <2>6, <2>7, <2>8 DEF SInv
<1>9. CASE FinishUpdate(w)
  <2>1. /\ worker[w] = "updating" /\ toVisit[w] = {}
        /\ worker' = [worker EXCEPT ![w] = "loop"]
        /\ request' = [request EXCEPT ![w] = None]
        /\ UNCHANGED <<queue, maps, main, toSchedule, toVisit>>
    BY <1>9 DEF FinishUpdate
  <2>2. /\ request'[w] = None /\ worker'[w] = "loop"
        /\ \A v \in Thread \ {w} : request'[v] = request[v] /\ worker'[v] = worker[v]
    BY <2>1 DEF IInv, TypeOK
  <2>3. \A x : Requested(x)' => Requested(x)
    BY <2>1, <2>2 DEF Requested
  <2>4. OneUpdatePerMap'
    BY <2>1, <2>2 DEF SInv, OneUpdatePerMap, IsInjective, ToSet, Holders
  <2>5. RequestsTargetLiveMaps'
    BY <2>1, <2>2 DEF SInv, RequestsTargetLiveMaps, Holders
  <2>6. InstancesWait'
    BY <2>1, <2>2, <2>3 DEF SInv, InstancesWait
  <2>7. VisitsAreSound'
    BY <2>1, <2>2, <2>3 DEF SInv, VisitsAreSound
  <2>8. TickIsSound'
    BY <2>1, <2>3 DEF SInv, TickIsSound, NoneOfFamilyRequested
  <2>9. QED
    BY <2>4, <2>5, <2>6, <2>7, <2>8 DEF SInv
<1>10. QED
  BY <1>1, <1>2, <1>3, <1>4, <1>5, <1>6, <1>7, <1>8, <1>9 DEF WorkerStep

(* The scheduling discipline is inductive, relative to IInv. *)
LEMMA SInvIsInductive == IInv /\ IInv' /\ SInv /\ [Next]_vars => SInv'
<1> SUFFICES ASSUME IInv, IInv', SInv, [Next]_vars PROVE SInv'
  OBVIOUS
<1>1. CASE \E w \in Thread : WorkerStep(w) \/ Wakeup(w)
  BY <1>1, WorkerStepKeepsSInv
<1>2. CASE UNCHANGED vars
  BY <1>2, StutterKeepsSInv DEF vars, mainVars, queueVars, workerVars, SInv, TickIsSound
<1>3. QED
  BY <1>1, <1>2, MainStepKeepsSInv DEF Next, Terminated

(* The scheduling discipline holds in every reachable state. *)
THEOREM ScheduleIsSound == Spec => []SInv
<1>1. QED
  BY Invariance, InitSInv, SInvIsInductive, PTL DEF Spec

(* No map is updated twice in a tick or by two threads at once, although   *)
(* the world thread and the workers schedule independently.                *)
THEOREM EachMapOnce == Spec => []OneUpdatePerMap
<1>1. SInv => OneUpdatePerMap
  BY DEF SInv
<1>2. QED
  BY <1>1, ScheduleIsSound, PTL

(* A request never refers to a map that has been destroyed. *)
THEOREM NoDanglingRequest == Spec => []RequestsTargetLiveMaps
<1>1. SInv => RequestsTargetLiveMaps
  BY DEF SInv
<1>2. QED
  BY <1>1, ScheduleIsSound, PTL

-----------------------------------------------------------------------------
(* The timers: what is given to the maps is what has passed, and it is     *)
(* given often enough.                                                     *)

Ticking == main \in {"idle", "lfg", "maps", "wait", "delayed"}

(* Requests that no worker has begun to carry out. *)
Unbegun ==
    {queue[n] : n \in DOMAIN queue}
      \cup {request[w] : w \in {v \in Thread : worker[v] = "returned" /\ request[v] # None}}

(* The worker of this tick's request for m has been given its diff. *)
Served(m) ==
    /\ main \in {"maps", "wait", "delayed"} /\ m \notin toSchedule
    /\ \A r \in Unbegun : r.target # m

TimeIsAccounted ==
    /\ \A m \in BaseMap :
          owed[m] = timer[Category[m]] - (IF Served(m) THEN FullDiff(m) ELSE 0)
    /\ \A r \in Unbegun : r.target \in BaseMap => r.diff = FullDiff(r.target)

CInv ==
    /\ cancelled => ~Ticking
    /\ Ticking => TimeIsAccounted

-----------------------------------------------------------------------------
(* What the steps do to the requests nobody has begun. *)
LEMMA ScheduleUnbegun ==
    ASSUME TypeOK, NEW t \in Target, NEW d \in Nat, Schedule(t, d), UNCHANGED <<worker, request>>
    PROVE  Unbegun' = Unbegun \cup {[target |-> t, diff |-> d]}
<1> DEFINE r == [target |-> t, diff |-> d]
<1>1. r \in Request
  BY DEF Request
<1>2. queue' = Append(queue, r)
  BY DEF Schedule, Q!Push
<1> HIDE DEF r
<1>3. /\ DOMAIN queue = 1..Len(queue) /\ Len(queue) \in Nat
      /\ DOMAIN queue' = 1..(Len(queue) + 1)
      /\ \A n \in 1..Len(queue) : queue'[n] = queue[n]
      /\ queue'[Len(queue) + 1] = r
  BY <1>1, <1>2, AppendProperties, LenProperties DEF TypeOK
<1>4. {queue'[n] : n \in DOMAIN queue'} = {queue[n] : n \in DOMAIN queue} \cup {r}
  BY <1>3
<1>5. Unbegun' = Unbegun \cup {r}
  BY <1>4 DEF Unbegun
<1>6. QED
  BY <1>5 DEF r

LEMMA PopUnbegun ==
    ASSUME TypeOK, WorkersAreSound, NEW w \in Thread, PopRequest(w)
    PROVE  Unbegun' = Unbegun
<1>1. /\ queue # <<>> /\ queue' = Tail(queue)
      /\ request' = [request EXCEPT ![w] = Head(queue)]
      /\ worker' = [worker EXCEPT ![w] = "returned"]
      /\ worker[w] = "loop"
  BY DEF PopRequest, Q!Takes, AtWaitAndPop
<1>2. /\ queue \in Seq(Request) /\ Len(queue) \in Nat \ {0}
      /\ DOMAIN queue = 1..Len(queue)
      /\ DOMAIN queue' = 1..(Len(queue) - 1)
      /\ \A n \in 1..(Len(queue) - 1) : queue'[n] = queue[n + 1]
      /\ Head(queue) = queue[1]
      /\ queue[1] \in Request
  BY <1>1, HeadTailProperties, LenProperties, EmptySeq DEF TypeOK
<1>3. queue[1] # None
  BY <1>2, ConstantsAssumption
<1>4. {queue[n] : n \in DOMAIN queue} = {queue'[n] : n \in DOMAIN queue'} \cup {queue[1]}
  <2>1. \A n \in 1..Len(queue) : n = 1 \/ (n - 1 \in DOMAIN queue' /\ queue'[n - 1] = queue[n])
    BY <1>2
  <2>2. \A n \in DOMAIN queue' : n + 1 \in DOMAIN queue /\ queue'[n] = queue[n + 1]
    BY <1>2
  <2>3. 1 \in DOMAIN queue
    BY <1>2
  <2>4. QED
    BY <1>2, <2>1, <2>2, <2>3
<1>5. {request'[v] : v \in {u \in Thread : worker'[u] = "returned" /\ request'[u] # None}}
        = {request[v] : v \in {u \in Thread : worker[u] = "returned" /\ request[u] # None}}
            \cup {queue[1]}
  BY <1>1, <1>2, <1>3 DEF TypeOK
<1>6. QED
  BY <1>4, <1>5 DEF Unbegun

LEMMA BeginUnbegun ==
    ASSUME TypeOK, OneUpdatePerMap, NEW w \in Thread, BeginUpdate(w), request[w] # None
    PROVE  Unbegun' = Unbegun \ {request[w]} /\ request[w] \in Unbegun
           /\ \A r \in Unbegun' : r.target # request[w].target
<1>1. /\ worker[w] = "returned" /\ worker' = [worker EXCEPT ![w] = "updating"]
      /\ UNCHANGED <<queue, request>>
  BY DEF BeginUpdate, queueVars
<1>2. /\ \A n \in DOMAIN queue : queue[n].target # request[w].target
      /\ \A v \in Thread \ {w} :
            request[v] # None => request[v].target # request[w].target
  BY OneUpdateUnfolded
<1>3. QED
  BY <1>1, <1>2 DEF Unbegun, TypeOK

(* Steps that leave the timers alone and begin nothing. *)
LEMMA AccountKept ==
    ASSUME CInv, UNCHANGED <<timer, step, owed>>, Ticking' => Ticking,
           cancelled' => ~Ticking',
           Ticking' => \A m \in BaseMap : Served(m)' <=> Served(m),
           \A r \in Unbegun' :
              r \in Unbegun \/ r.target \notin BaseMap \/ r.diff = FullDiff(r.target)
    PROVE  CInv'
<1>1. \A m : FullDiff(m)' = FullDiff(m)
  BY DEF FullDiff
<1>2. Ticking' => TimeIsAccounted'
  BY <1>1 DEF CInv, TimeIsAccounted
<1>3. QED
  BY <1>2 DEF CInv

LEMMA InitCInv == Init => CInv
<1>1. SUFFICES ASSUME Init PROVE CInv
  OBVIOUS
<1>2. Unbegun = {}
  BY <1>1 DEF Init, Q!InitPCQueue, Unbegun
<1>3. \A m \in BaseMap : Category[m] \in 0..3
  BY ConstantsAssumption
<1>4. \A m \in BaseMap : owed[m] = timer[Category[m]] - 0 /\ ~Served(m)
  BY <1>1, <1>3 DEF Init, Served
<1>5. QED
  BY <1>1, <1>2, <1>4 DEF Init, CInv, TimeIsAccounted

(* Outside of the tick's middle nothing is queued or held. *)
LEMMA NothingUnbegun ==
    ASSUME IInv, pending = 0
    PROVE  Unbegun = {}
BY ZeroMeansQuiet DEF IInv, Unbegun

LEMMA MainStepKeepsCInv ==
    ASSUME IInv, IInv', SInv, CInv,
           \/ \E d \in Diff : BeginTick(d)
           \/ \E i \in Instance : CreateInstance(i)
           \/ UnloadAll
           \/ MainStep
    PROVE  CInv'
<1> USE DEF mainVars, queueVars, workerVars
<1>1. ASSUME NEW d \in Diff, BeginTick(d) PROVE CInv'
  <2>1. Unbegun' = {} /\ d \in Nat
    <3>1. pending = 0
      BY <1>1 DEF BeginTick, IInv, MainIsSound
    <3>2. QED
      BY <1>1, <3>1, NothingUnbegun, ConstantsAssumption DEF BeginTick, Unbegun
  <2>2. /\ main = "idle" /\ main' = "lfg" /\ ~cancelled /\ cancelled' = cancelled
        /\ timer' = [k \in 0..3 |-> timer[k] + d]
        /\ owed' = [m \in BaseMap |-> owed[m] + d]
    BY <1>1 DEF BeginTick, CInv, Ticking
  <2>3. ASSUME NEW m \in BaseMap
        PROVE  owed'[m] = timer'[Category[m]] /\ ~Served(m)'
    <3>1. Category[m] \in 0..3
      BY ConstantsAssumption
    <3>2. owed[m] = timer[Category[m]] - 0
      BY <2>2 DEF CInv, Ticking, TimeIsAccounted, Served
    <3>3. timer[Category[m]] \in Nat /\ timer'[Category[m]] = timer[Category[m]] + d
      BY <2>2, <3>1 DEF IInv, TypeOK
    <3>4. owed'[m] = owed[m] + d
      BY <2>2
    <3>5. QED
      BY <2>1, <2>2, <3>2, <3>3, <3>4 DEF Served
  <2>4. \A m \in BaseMap : timer'[Category[m]] - 0 = timer'[Category[m]]
    <3>1. timer' \in [0..3 -> Nat]
      BY DEF IInv, TypeOK
    <3>2. QED
      BY <3>1, ConstantsAssumption
  <2>5. QED
    BY <2>1, <2>2, <2>3, <2>4 DEF CInv, TimeIsAccounted
<1>2. ASSUME NEW i \in Instance, CreateInstance(i) PROVE CInv'
  <2>1. UNCHANGED <<timer, step, owed, main, toSchedule, cancelled, queue, request, worker>>
    BY <1>2 DEF CreateInstance
  <2>2. QED
    BY <2>1, AccountKept DEF Ticking, Served, Unbegun, CInv
<1>3. CASE UnloadAll
  BY <1>3 DEF UnloadAll, CInv, Ticking
<1>4. CASE ScheduleLfg
  <2>1. /\ main = "lfg" /\ main' = "maps" /\ toSchedule' = BaseMap
        /\ UNCHANGED <<timer, step, owed, cancelled>>
    BY <1>4 DEF ScheduleLfg
  <2>2. Unbegun' = Unbegun \cup {[target |-> Lfg, diff |-> 0]}
    <3>1. Lfg \in Target /\ 0 \in Nat
      BY DEF Target
    <3>2. QED
      BY <1>4, <3>1, ScheduleUnbegun DEF IInv, ScheduleLfg
  <2>3. Lfg \notin BaseMap
    BY ConstantsAssumption
  <2>4. \A m \in BaseMap : ~Served(m) /\ ~Served(m)'
    BY <2>1 DEF Served
  <2>5. QED
    BY <2>1, <2>2, <2>3, <2>4, AccountKept DEF Ticking, CInv
<1>5. ASSUME NEW m \in BaseMap, ScheduleMap(m) PROVE CInv'
  <2>1. /\ main = "maps" /\ main' = "maps" /\ m \in toSchedule /\ toSchedule' = toSchedule \ {m}
        /\ UNCHANGED <<timer, step, owed, cancelled>>
    BY <1>5 DEF ScheduleMap
  <2>2. Unbegun' = Unbegun \cup {[target |-> m, diff |-> FullDiff(m)]}
    <3>1. m \in Target
      BY DEF Target
    <3>2. FullDiff(m) \in Nat
      BY DEF FullDiff, IInv, TypeOK
    <3>3. QED
      BY <1>5, <3>1, <3>2, ScheduleUnbegun DEF IInv, ScheduleMap
  <2>3. ASSUME NEW x \in BaseMap PROVE Served(x)' <=> Served(x)
    <3> DEFINE r == [target |-> m, diff |-> FullDiff(m)]
    <3>1. Unbegun' = Unbegun \cup {r} /\ r.target = m
      BY <2>2
    <3> HIDE DEF r
    <3>2. CASE x = m
      BY <2>1, <3>1, <3>2 DEF Served
    <3>3. CASE x # m
      BY <2>1, <3>1, <3>3 DEF Served
    <3>4. QED
      BY <3>2, <3>3
  <2>4. QED
    BY <2>1, <2>2, <2>3, AccountKept DEF Ticking, CInv
<1>6. CASE BeginWait \/ WaitForMaps
  <2>1. /\ main \in {"maps", "wait"} /\ main' \in {"maps", "wait", "delayed"}
        /\ UNCHANGED <<timer, step, owed, toSchedule, cancelled, queue, request, worker>>
    BY <1>6 DEF BeginWait, WaitForMaps, WaitThreads
  <2>2. Unbegun' = Unbegun
    BY <2>1 DEF Unbegun
  <2>3. QED
    BY <2>1, <2>2, AccountKept DEF Ticking, Served, CInv
<1>7. CASE EndTick
  <2>1. /\ main = "delayed" /\ main' = "idle" /\ ~cancelled /\ cancelled' = cancelled
        /\ toSchedule = {}
        /\ UNCHANGED <<queue, request, worker, owed>>
    BY <1>7 DEF EndTick, CInv, Ticking, SInv, TickIsSound
  <2>2. Unbegun = {} /\ Unbegun' = {}
    <3>1. pending = 0
      BY <2>1 DEF IInv, MainIsSound
    <3>2. QED
      BY <2>1, <3>1, NothingUnbegun DEF Unbegun
  <2>3. \A k \in 0..2 : timer'[k] = IF k = step THEN 0 ELSE timer[k]
    <3>1. step \in 0..3
      BY DEF IInv, TypeOK
    <3>2. QED
      BY <1>7, <3>1 DEF EndTick
  <2>4. ASSUME NEW m \in BaseMap
        PROVE  owed'[m] = timer'[Category[m]] - 0 /\ ~Served(m)'
    <3>1. Category[m] \in 0..2 /\ Category[m] \in 0..3
      BY ConstantsAssumption
    <3>2. owed[m] = timer[Category[m]] - FullDiff(m)
      BY <2>1, <2>2 DEF CInv, Ticking, TimeIsAccounted, Served
    <3>3. timer[Category[m]] \in Nat /\ step \in 0..3
      BY <3>1 DEF IInv, TypeOK
    <3>4. QED
      BY <2>1, <2>3, <3>1, <3>2, <3>3 DEF FullDiff, Served
  <2>5. QED
    BY <2>1, <2>2, <2>4 DEF CInv, TimeIsAccounted
<1>8. CASE StopWait \/ StopCancel \/ StopJoin
  BY <1>8 DEF StopWait, StopCancel, StopJoin, WaitThreads, CInv, Ticking
<1>9. QED
  BY <1>1, <1>2, <1>3, <1>4, <1>5, <1>6, <1>7, <1>8 DEF MainStep

LEMMA WorkerStepKeepsCInv ==
    ASSUME IInv, IInv', SInv, CInv, NEW w \in Thread, WorkerStep(w) \/ Wakeup(w)
    PROVE  CInv'
<1> USE DEF mainVars, queueVars, workerVars
<1>1. CASE Sleep(w) \/ Wakeup(w)
  <2>1. UNCHANGED <<timer, step, owed, main, toSchedule, cancelled, queue, request, worker>>
    BY <1>1 DEF Sleep, Wakeup, Q!Blocks, Q!SpuriousWakeup
  <2>2. QED
    BY <2>1, AccountKept DEF Ticking, Served, Unbegun, CInv
<1>2. CASE PopRequest(w)
  <2>1. UNCHANGED <<timer, step, owed, main, toSchedule, cancelled>>
    BY <1>2 DEF PopRequest
  <2>2. Unbegun' = Unbegun
    BY <1>2, PopUnbegun DEF IInv
  <2>3. QED
    BY <2>1, <2>2, AccountKept DEF Ticking, Served, CInv
<1>3. CASE PopNothing(w)
  <2>1. shutdown /\ UNCHANGED <<main, cancelled>>
    BY <1>3 DEF PopNothing, Q!ReturnsNothing
  <2>2. QED
    BY <2>1 DEF IInv, MainIsSound, CInv, Ticking
<1>4. CASE ExitThread(w)
  BY <1>4 DEF ExitThread, CInv, Ticking
<1>5. CASE BeginUpdate(w)
  <2>1. /\ worker[w] = "returned" /\ ~cancelled
        /\ UNCHANGED <<timer, step, main, toSchedule, cancelled, queue, request>>
    BY <1>5 DEF BeginUpdate
  <2>2. request[w] # None
    BY <2>1 DEF IInv, WorkersAreSound
  <2>3. PICK r \in Request : r = request[w]
    BY <2>2 DEF IInv, TypeOK
  <2>4. /\ Unbegun' = Unbegun \ {r} /\ r \in Unbegun
        /\ \A x \in Unbegun' : x.target # r.target
    BY <1>5, <2>2, <2>3, BeginUnbegun DEF IInv, SInv
  <2>5. owed' = [b \in BaseMap |-> IF b = r.target THEN owed[b] - r.diff ELSE owed[b]]
    BY <1>5, <2>2, <2>3 DEF BeginUpdate
  <2>6. main \in {"maps", "wait"} \/ ~Ticking
    <3>1. pending # 0
      BY <2>2, ZeroMeansQuiet DEF IInv
    <3>2. QED
      BY <3>1 DEF IInv, MainIsSound
  <2>7. \A m : FullDiff(m)' = FullDiff(m)
    BY <2>1 DEF FullDiff
  <2>8. ASSUME Ticking, NEW m \in BaseMap
        PROVE  owed'[m] = timer'[Category[m]] - (IF Served(m)' THEN FullDiff(m)' ELSE 0)
    <3>1. CASE m = r.target
      <4>1. m \notin toSchedule
        BY <2>2, <2>3, <3>1 DEF SInv, TickIsSound, NoneOfFamilyRequested, Requested
      <4>2. ~Served(m) /\ Served(m)'
        BY <2>1, <2>4, <2>6, <2>8, <3>1, <4>1 DEF Served
      <4>3. r.diff = FullDiff(m) /\ owed[m] = timer[Category[m]] - 0
        BY <2>4, <2>8, <3>1, <4>2 DEF CInv, TimeIsAccounted
      <4>4. timer[Category[m]] \in Nat /\ FullDiff(m) \in Nat
        BY <2>3, <4>3, ConstantsAssumption DEF IInv, TypeOK, Request
      <4>5. QED
        BY <2>1, <2>5, <2>7, <3>1, <4>2, <4>3, <4>4
    <3>2. CASE m # r.target
      <4>1. Served(m)' <=> Served(m)
        BY <2>1, <2>4, <3>2 DEF Served
      <4>2. QED
        BY <2>1, <2>5, <2>7, <2>8, <3>2, <4>1 DEF CInv, TimeIsAccounted
    <3>3. QED
      BY <3>1, <3>2
  <2>9. \A x \in Unbegun' : Ticking /\ x.target \in BaseMap => x.diff = FullDiff(x.target)'
    BY <2>4, <2>7 DEF CInv, TimeIsAccounted
  <2>10. QED
    BY <2>1, <2>8, <2>9 DEF CInv, TimeIsAccounted, Ticking
<1>6. CASE FinishUpdate(w)
  <2>1. UNCHANGED <<timer, step, owed, main, toSchedule, cancelled>>
    BY <1>6 DEF FinishUpdate
  <2>2. Unbegun' = Unbegun
    BY <1>6 DEF FinishUpdate, Unbegun, IInv, TypeOK
  <2>3. QED
    BY <2>1, <2>2, AccountKept DEF Ticking, Served, CInv
<1>7. ASSUME NEW i \in Instance, ScheduleInstance(w, i) PROVE CInv'
  <2>1. UNCHANGED <<timer, step, owed, main, toSchedule, cancelled>>
    BY <1>7 DEF ScheduleInstance, Visited
  <2>2. Unbegun' = Unbegun \cup {[target |-> i, diff |-> request[w].diff]}
    <3>1. worker[w] = "updating"
      BY <1>7 DEF ScheduleInstance, Visited
    <3>2. request[w].diff \in Nat
      BY <3>1 DEF IInv, TypeOK, WorkersAreSound, Request
    <3>3. i \in Target
      BY DEF Target
    <3>4. QED
      BY <1>7, <3>2, <3>3, ScheduleUnbegun DEF IInv, ScheduleInstance, Visited
  <2>3. i \notin BaseMap
    BY ConstantsAssumption
  <2>4. \A m \in BaseMap : Served(m)' <=> Served(m)
    BY <2>1, <2>2, <2>3 DEF Served
  <2>5. QED
    BY <2>1, <2>2, <2>3, <2>4, AccountKept DEF Ticking, CInv
<1>8. ASSUME NEW i \in Instance, SkipInstance(w, i) \/ DestroyInstance(w, i) PROVE CInv'
  <2>1. UNCHANGED <<timer, step, owed, main, toSchedule, cancelled, queue, request, worker>>
    BY <1>8 DEF SkipInstance, DestroyInstance, Visited
  <2>2. QED
    BY <2>1, AccountKept DEF Ticking, Served, Unbegun, CInv
<1>9. QED
  BY <1>1, <1>2, <1>3, <1>4, <1>5, <1>6, <1>7, <1>8 DEF WorkerStep

LEMMA CInvIsInductive == IInv /\ IInv' /\ SInv /\ CInv /\ [Next]_vars => CInv'
<1> SUFFICES ASSUME IInv, IInv', SInv, CInv, [Next]_vars PROVE CInv'
  OBVIOUS
<1>1. CASE \E w \in Thread : WorkerStep(w) \/ Wakeup(w)
  BY <1>1, WorkerStepKeepsCInv
<1>2. CASE UNCHANGED vars
  <2>1. UNCHANGED <<timer, step, owed, main, toSchedule, cancelled, queue, request, worker>>
    BY <1>2 DEF vars, mainVars, queueVars, workerVars
  <2>2. QED
    BY <2>1, AccountKept DEF Ticking, Served, Unbegun, CInv
<1>3. QED
  BY <1>1, <1>2, MainStepKeepsCInv DEF Next, Terminated

(* Over a cycle of MapMgr::Update no time is lost and none is given twice: *)
(* between ticks a map is owed exactly what the timer of its category has. *)
THEOREM NoTimeLost == Spec => []TimeIsConserved
<1>1. IInv /\ CInv => TimeIsConserved
  <2>1. SUFFICES ASSUME IInv, CInv, main = "idle", NEW m \in BaseMap
                 PROVE  owed[m] = timer[Category[m]]
    BY DEF TimeIsConserved
  <2>2. owed[m] = timer[Category[m]] - 0
    BY <2>1 DEF CInv, Ticking, TimeIsAccounted, Served
  <2>3. timer[Category[m]] \in Nat
    BY <2>1, ConstantsAssumption DEF IInv, TypeOK
  <2>4. QED
    BY <2>2, <2>3
<1>2. QED
  BY <1>1, Invariance, ScheduleIsSound, InitCInv, CInvIsInductive, PTL DEF Spec

-----------------------------------------------------------------------------
(* How long a category waits, for ticks between lo and hi and a cycle of   *)
(* at most c.                                                              *)

Times(n, x) == IF n = 0 THEN 0 ELSE IF n = 1 THEN x ELSE IF n = 2 THEN x + x ELSE x + x + x

InTick == main \in {"lfg", "maps", "wait", "delayed"}

(* Ticks begun in this cycle, while it has steps left. *)
Begun == IF InTick THEN step + 1 ELSE step

(* A timer that was restarted in this cycle has missed the ticks up to     *)
(* then; one that was not has what the cycle before left it.               *)
TimersAreBounded(lo, hi, c) ==
    /\ \A k \in 0..2 :
          IF k < step THEN timer[k] + Times(k + 1, lo) <= timer[3]
                      ELSE timer[k] + Times(k + 1, lo) <= c + Times(Begun, hi)
    /\ step < 3 => Times(Begun, lo) <= timer[3] /\ timer[3] <= Times(Begun, hi)
    /\ step = 3 => timer[3] <= c /\ (~InTick => timer[3] < Interval)

LEMMA InitBounded ==
    ASSUME NEW lo \in Nat, NEW hi \in Nat, lo <= hi, NEW c \in Int, 3 * hi <= c, Init
    PROVE  TimersAreBounded(lo, hi, c)
<1>1. /\ step = 0 /\ ~InTick /\ Begun = 0
      /\ timer[0] = 0 /\ timer[1] = 0 /\ timer[2] = 0 /\ timer[3] = 0
  BY DEF Init, InTick, Begun
<1>2. \A k \in 0..2 : Times(k + 1, lo) <= c
  BY DEF Times
<1>3. QED
  BY <1>1, <1>2 DEF TimersAreBounded, Times

LEMMA BeginTickBounded ==
    ASSUME NEW lo \in Nat, NEW hi \in Nat, NEW c \in Int, Interval + hi - 1 <= c,
           TypeOK, TimersAreBounded(lo, hi, c),
           NEW d \in Nat, lo <= d, d <= hi, BeginTick(d)
    PROVE  TimersAreBounded(lo, hi, c)'
<1>1. /\ ~InTick /\ InTick' /\ step' = step /\ step \in 0..3
      /\ timer' = [k \in 0..3 |-> timer[k] + d]
      /\ Begun = step /\ Begun' = step + 1
  BY DEF BeginTick, InTick, Begun, TypeOK
<1>2. /\ timer'[0] = timer[0] + d /\ timer'[1] = timer[1] + d
      /\ timer'[2] = timer[2] + d /\ timer'[3] = timer[3] + d
  BY <1>1
<1>3. timer[0] \in Nat /\ timer[1] \in Nat /\ timer[2] \in Nat /\ timer[3] \in Nat
  BY DEF TypeOK
<1>4. \A n \in 0..2, x \in Nat : Times(n + 1, x) = Times(n, x) + x
  BY DEF Times
<1>5. \A n \in 0..3, x \in Nat : Times(n, x) \in Nat
  BY DEF Times
<1>6. ASSUME NEW k \in 0..2
      PROVE  IF k < step THEN timer'[k] + Times(k + 1, lo) <= timer'[3]
             ELSE timer'[k] + Times(k + 1, lo) <= c + Times(step + 1, hi)
  <2>1. /\ timer'[k] = timer[k] + d /\ timer[k] \in Nat
        /\ Times(k + 1, lo) \in Nat
    <3>1. k \in 0..3 /\ k + 1 \in 0..3
      OBVIOUS
    <3>2. timer'[k] = timer[k] + d
      BY <1>1, <3>1
    <3>3. timer[k] \in Nat
      BY <3>1 DEF TypeOK
    <3>4. QED
      BY <1>5, <3>1, <3>2, <3>3
  <2>2. CASE k < step
    BY <1>2, <1>3, <2>1, <2>2 DEF TimersAreBounded
  <2>3. CASE ~(k < step)
    <3>1. step \in 0..2 /\ Times(step, hi) \in Nat
      BY <1>1, <1>5, <2>3
    <3>2. timer[k] + Times(k + 1, lo) <= c + Times(step, hi)
      BY <1>1, <2>3 DEF TimersAreBounded
    <3>3. Times(step + 1, hi) = Times(step, hi) + hi
      BY <1>4, <3>1
    <3>4. QED
      BY <2>1, <2>3, <3>1, <3>2, <3>3
  <2>4. QED
    BY <2>2, <2>3
<1>7. step < 3 => Times(step + 1, lo) <= timer'[3] /\ timer'[3] <= Times(step + 1, hi)
  <2>1. SUFFICES ASSUME step < 3
                 PROVE  Times(step + 1, lo) <= timer'[3] /\ timer'[3] <= Times(step + 1, hi)
    OBVIOUS
  <2>2. step \in 0..2 /\ Times(step, lo) \in Nat /\ Times(step, hi) \in Nat
    BY <1>1, <1>5, <2>1
  <2>3. Times(step, lo) <= timer[3] /\ timer[3] <= Times(step, hi)
    BY <1>1, <2>1 DEF TimersAreBounded
  <2>4. Times(step + 1, lo) = Times(step, lo) + lo /\ Times(step + 1, hi) = Times(step, hi) + hi
    BY <1>4, <2>2
  <2>5. QED
    BY <1>2, <1>3, <2>2, <2>3, <2>4
<1>8. step = 3 => timer'[3] <= c
  BY <1>1, <1>2, <1>3, ConstantsAssumption DEF TimersAreBounded
<1>9. QED
  BY <1>1, <1>6, <1>7, <1>8 DEF TimersAreBounded

LEMMA EndTickBounded ==
    ASSUME NEW lo \in Nat, NEW hi \in Nat, lo <= hi, NEW c \in Int,
           3 * hi <= c, Interval + hi - 1 <= c,
           TypeOK, TimersAreBounded(lo, hi, c), EndTick
    PROVE  TimersAreBounded(lo, hi, c)'
<1> DEFINE next == IF step < 3 THEN step + 1 ELSE 3
           wrap == next = 3 /\ timer[3] >= Interval
<1>1. /\ InTick /\ ~InTick' /\ step \in 0..3
      /\ step' = (IF wrap THEN 0 ELSE next)
      /\ Begun = step + 1 /\ Begun' = step'
  BY DEF EndTick, InTick, Begun, TypeOK
<1>2. /\ timer'[0] = IF step = 0 THEN 0 ELSE timer[0]
      /\ timer'[1] = IF step = 1 THEN 0 ELSE timer[1]
      /\ timer'[2] = IF step = 2 THEN 0 ELSE timer[2]
      /\ timer'[3] = IF wrap THEN 0 ELSE timer[3]
  BY <1>1 DEF EndTick
<1>3. timer[0] \in Nat /\ timer[1] \in Nat /\ timer[2] \in Nat /\ timer[3] \in Nat
  BY DEF TypeOK
<1>4. /\ Times(0, lo) = 0 /\ Times(1, lo) = lo /\ Times(2, lo) = lo + lo /\ Times(3, lo) = lo + lo + lo
      /\ Times(0, hi) = 0 /\ Times(1, hi) = hi /\ Times(2, hi) = hi + hi /\ Times(3, hi) = hi + hi + hi
  BY DEF Times
<1>5. /\ step > 0 => timer[0] + lo <= timer[3]
      /\ step > 1 => timer[1] + lo + lo <= timer[3]
      /\ step > 2 => timer[2] + lo + lo + lo <= timer[3]
      /\ step <= 1 => timer[1] + lo + lo <= c + Times(step + 1, hi)
      /\ step <= 2 => timer[2] + lo + lo + lo <= c + Times(step + 1, hi)
  <2>1. /\ IF 0 < step THEN timer[0] + Times(1, lo) <= timer[3]
           ELSE timer[0] + Times(1, lo) <= c + Times(Begun, hi)
        /\ IF 1 < step THEN timer[1] + Times(2, lo) <= timer[3]
           ELSE timer[1] + Times(2, lo) <= c + Times(Begun, hi)
        /\ IF 2 < step THEN timer[2] + Times(3, lo) <= timer[3]
           ELSE timer[2] + Times(3, lo) <= c + Times(Begun, hi)
    <3>1. 0 + 1 = 1 /\ 1 + 1 = 2 /\ 2 + 1 = 3 /\ 0 \in 0..2 /\ 1 \in 0..2 /\ 2 \in 0..2
      OBVIOUS
    <3>2. QED
      BY <3>1 DEF TimersAreBounded
  <2>2. QED
    BY <1>1, <1>3, <1>4, <2>1
<1>6. /\ step < 3 => Times(step + 1, lo) <= timer[3] /\ timer[3] <= Times(step + 1, hi)
      /\ step = 3 => timer[3] <= c
  BY <1>1 DEF TimersAreBounded
<1>7. SUFFICES
         /\ IF 0 < step' THEN timer'[0] + lo <= timer'[3] ELSE timer'[0] + lo <= c + Times(step', hi)
         /\ IF 1 < step' THEN timer'[1] + lo + lo <= timer'[3]
            ELSE timer'[1] + lo + lo <= c + Times(step', hi)
         /\ IF 2 < step' THEN timer'[2] + lo + lo + lo <= timer'[3]
            ELSE timer'[2] + lo + lo + lo <= c + Times(step', hi)
         /\ step' < 3 => Times(step', lo) <= timer'[3] /\ timer'[3] <= Times(step', hi)
         /\ step' = 3 => timer'[3] <= c /\ timer'[3] < Interval
  <2>1. \A k \in 0..2 : k = 0 \/ k = 1 \/ k = 2
    OBVIOUS
  <2>2. /\ timer'[0] \in Nat /\ timer'[1] \in Nat /\ timer'[2] \in Nat
    BY <1>1, <1>2, <1>3
  <2>3. /\ timer'[0] + Times(1, lo) = timer'[0] + lo
        /\ timer'[1] + Times(2, lo) = timer'[1] + lo + lo
        /\ timer'[2] + Times(3, lo) = timer'[2] + lo + lo + lo
    BY <1>4, <2>2
  <2>4. 0 + 1 = 1 /\ 1 + 1 = 2 /\ 2 + 1 = 3
    OBVIOUS
  <2>5. QED
    BY <1>1, <2>1, <2>3, <2>4 DEF TimersAreBounded
<1>8. CASE step = 0
  BY <1>1, <1>2, <1>3, <1>4, <1>5, <1>6, <1>8
<1>9. CASE step = 1
  BY <1>1, <1>2, <1>3, <1>4, <1>5, <1>6, <1>9
<1>10. CASE step = 2 /\ ~wrap
  BY <1>1, <1>2, <1>3, <1>4, <1>5, <1>6, <1>10, ConstantsAssumption
<1>11. CASE step = 2 /\ wrap
  BY <1>1, <1>2, <1>3, <1>4, <1>5, <1>6, <1>11
<1>12. CASE step = 3 /\ ~wrap
  BY <1>1, <1>2, <1>3, <1>4, <1>5, <1>6, <1>12, ConstantsAssumption
<1>13. CASE step = 3 /\ wrap
  BY <1>1, <1>2, <1>3, <1>4, <1>5, <1>6, <1>13
<1>14. QED
  BY <1>1, <1>8, <1>9, <1>10, <1>11, <1>12, <1>13

LEMMA NextBounded ==
    ASSUME NEW lo \in Nat, NEW hi \in Nat, lo <= hi, NEW c \in Int,
           3 * hi <= c, Interval + hi - 1 <= c,
           \A d \in Diff : lo <= d /\ d <= hi,
           TypeOK, TimersAreBounded(lo, hi, c), [Next]_vars
    PROVE  TimersAreBounded(lo, hi, c)'
<1> USE DEF mainVars, queueVars, workerVars
<1>1. ASSUME UNCHANGED <<timer, step>>, InTick' <=> InTick
      PROVE  TimersAreBounded(lo, hi, c)'
  BY <1>1 DEF TimersAreBounded, Begun
<1>2. CASE \E d \in Diff : BeginTick(d)
  BY <1>2, BeginTickBounded, ConstantsAssumption
<1>3. CASE EndTick
  BY <1>3, EndTickBounded
<1>4. CASE ScheduleLfg \/ BeginWait \/ \E m \in BaseMap : ScheduleMap(m)
  BY <1>1, <1>4 DEF ScheduleLfg, BeginWait, ScheduleMap, InTick
<1>5. CASE WaitForMaps
  BY <1>1, <1>5 DEF WaitForMaps, WaitThreads, InTick
<1>6. CASE UnloadAll \/ StopWait \/ StopCancel \/ StopJoin
  BY <1>1, <1>6 DEF UnloadAll, StopWait, StopCancel, StopJoin, WaitThreads, InTick
<1>7. CASE \E i \in Instance : CreateInstance(i)
  BY <1>1, <1>7 DEF CreateInstance, InTick
<1>8. ASSUME NEW w \in Thread, WorkerStep(w) \/ Wakeup(w)
      PROVE  TimersAreBounded(lo, hi, c)'
  BY <1>1, <1>8
  DEF WorkerStep, Wakeup, Sleep, PopRequest, PopNothing, ExitThread, BeginUpdate, FinishUpdate,
      ScheduleInstance, SkipInstance, DestroyInstance, Visited, InTick
<1>9. CASE UNCHANGED vars
  BY <1>1, <1>9 DEF vars, InTick
<1>10. QED
  BY <1>2, <1>3, <1>4, <1>5, <1>6, <1>7, <1>8, <1>9 DEF Next, MainStep, Terminated

(* If the diffs of a tick have a smallest and a largest value, no category *)
(* of maps waits longer for its full update than a cycle, and the jitter   *)
(* of the ticks it missed in it.                                           *)
THEOREM StalenessIsBounded ==
    ASSUME NEW lo \in Diff, NEW hi \in Diff, \A d \in Diff : lo <= d /\ d <= hi
    PROVE  Spec => []BoundedStaleness
<1> DEFINE c == Max({3 * hi, Interval + hi - 1})
<1>1. lo \in Nat /\ hi \in Nat /\ lo <= hi /\ Interval \in Nat
  BY ConstantsAssumption
<1>2. Max(Diff) = hi /\ Min(Diff) = lo
  <2>1. \A d \in Diff : d \in Nat
    BY ConstantsAssumption
  <2>2. \A x \in Diff : (\A y \in Diff : x >= y) <=> x = hi
    BY <2>1
  <2>3. \A x \in Diff : (\A y \in Diff : x <= y) <=> x = lo
    BY <2>1
  <2>4. (CHOOSE x \in Diff : \A y \in Diff : x >= y) = hi
    BY <2>2
  <2>5. (CHOOSE x \in Diff : \A y \in Diff : x <= y) = lo
    BY <2>3
  <2>6. QED
    BY <2>4, <2>5 DEF Max, Min
<1>3. c \in Int /\ 3 * hi <= c /\ Interval + hi - 1 <= c
  <2>1. 3 * hi \in Int /\ Interval + hi - 1 \in Int
    BY <1>1
  <2>2. \E x \in {3 * hi, Interval + hi - 1} : \A y \in {3 * hi, Interval + hi - 1} : x >= y
    BY <2>1
  <2>3. QED
    BY <2>1, <2>2 DEF Max
<1> HIDE DEF c
<1>4. TypeOK /\ TimersAreBounded(lo, hi, c) => BoundedStaleness
  <2>1. SUFFICES ASSUME TypeOK, TimersAreBounded(lo, hi, c), NEW k \in 0..2
                 PROVE  timer[k] <= c + (k + 1) * (hi - lo)
    BY <1>2 DEF BoundedStaleness, c
  <2>2. timer[k] \in Nat /\ timer[3] \in Nat /\ step \in 0..3
    BY <2>1 DEF TypeOK
  <2>3. /\ (k + 1) * (hi - lo) = Times(k + 1, hi) - Times(k + 1, lo)
        /\ Times(k + 1, hi) >= Times(k + 1, lo) /\ Times(k + 1, lo) >= 0
        /\ Times(k + 1, lo) \in Nat /\ Times(k + 1, hi) \in Nat
    <3>1. CASE k = 0
      BY <1>1, <3>1 DEF Times
    <3>2. CASE k = 1
      BY <1>1, <3>2 DEF Times
    <3>3. CASE k = 2
      BY <1>1, <3>3 DEF Times
    <3>4. QED
      BY <3>1, <3>2, <3>3
  <2>4. CASE k < step
    <3>1. timer[k] + Times(k + 1, lo) <= timer[3]
      BY <2>1, <2>4 DEF TimersAreBounded
    <3>2. timer[3] <= c
      <4>1. CASE step = 3
        BY <2>1, <4>1 DEF TimersAreBounded
      <4>2. CASE step < 3
        <5>1. timer[3] <= Times(Begun, hi) /\ Begun \in 0..3
          BY <2>1, <2>2, <4>2 DEF TimersAreBounded, Begun
        <5>2. Times(Begun, hi) <= 3 * hi /\ Times(Begun, hi) \in Nat
          BY <1>1, <5>1 DEF Times
        <5>3. QED
          BY <1>1, <1>3, <2>2, <5>1, <5>2
      <4>3. QED
        BY <2>2, <4>1, <4>2
    <3>3. QED
      BY <1>3, <2>2, <2>3, <3>1, <3>2
  <2>5. CASE ~(k < step)
    <3>1. timer[k] + Times(k + 1, lo) <= c + Times(Begun, hi)
      BY <2>1, <2>5 DEF TimersAreBounded
    <3>2. Begun \in 0..(k + 1)
      BY <2>2, <2>5 DEF Begun
    <3>3. Times(Begun, hi) <= Times(k + 1, hi) /\ Times(Begun, hi) \in Nat
      BY <1>1, <3>2 DEF Times
    <3>4. QED
      BY <1>3, <2>2, <2>3, <3>1, <3>3
  <2>6. QED
    BY <2>4, <2>5
<1>5. Init => TimersAreBounded(lo, hi, c)
  BY <1>1, <1>3, InitBounded
<1>6. TypeOK /\ TimersAreBounded(lo, hi, c) /\ [Next]_vars => TimersAreBounded(lo, hi, c)'
  BY <1>1, <1>3, NextBounded
<1>7. QED
  BY <1>4, <1>5, <1>6, TypeCorrect, PTL DEF Spec
=============================================================================
