----------------------------- MODULE MapUpdater -----------------------------
(***************************************************************************)
(* One world tick over the maps: MapMgr::Update on the world thread, the   *)
(* MapUpdater with its worker threads, and MapInstanced::Update, which     *)
(* runs on a worker and schedules the instances of its map in turn.        *)
(*                                                                         *)
(* pending_requests is the barrier between a tick and the next one: the    *)
(* world thread may touch maps (DelayedUpdate, player handlers, creation   *)
(* of instances) only while it is zero.                                    *)
(***************************************************************************)
EXTENDS Integers, Sequences, SequencesExt, FiniteSets, FiniteSetsExt

CONSTANTS
    Thread,    \* _workerThreads
    BaseMap,   \* the keys of MapMgr::_maps
    Category,  \* 0 continents, 1 battlegrounds and arenas, 2 dungeons
    Instance,  \* names for instanced maps
    Owner,     \* the MapInstanced an instance belongs to
    Lfg,       \* target of an LFGUpdateRequest
    Diff,      \* the diffs a world tick may have
    Interval,  \* MapUpdateInterval, of _timer[3]
    None

Target == BaseMap \cup Instance \cup {Lfg}
Request == [target : Target, diff : Nat]

ASSUME ConstantsAssumption ==
    /\ IsFiniteSet(Thread) /\ Thread # {}
    /\ Category \in [BaseMap -> 0..2]
    /\ Owner \in [Instance -> BaseMap]
    /\ BaseMap \cap Instance = {}
    /\ Lfg \notin BaseMap \cup Instance
    /\ Diff \subseteq Nat
    /\ Interval \in Nat
    /\ None \notin Request

VARIABLES
    queue, waiting, shutdown, \* _queue
    pending,    \* pending_requests
    asleep,     \* the world thread is blocked in _condition.wait
    cancelled,  \* _cancelationToken
    main,       \* program counter of the world thread
    toSchedule, \* base maps the loop in MapMgr::Update has still to schedule
    timer,      \* _timer[0..3]
    step,       \* mapUpdateStep
    maps,       \* the live maps: _maps and the _instancedMaps of each
    worker,     \* program counter of each worker
    request,    \* the request a worker holds
    toVisit,    \* instances the running MapInstanced::Update has still to visit
    owed        \* history: time that passed and was not yet given to a base map

queueVars == <<queue, waiting, shutdown>>
mainVars == <<main, toSchedule, timer, step>>
workerVars == <<worker, request, toVisit>>
vars == <<queueVars, pending, asleep, cancelled, mainVars, maps, workerVars, owed>>

Q == INSTANCE PCQueue

TypeOK ==
    /\ queue \in Seq(Request)
    /\ waiting \subseteq Thread
    /\ shutdown \in BOOLEAN
    /\ pending \in Nat
    /\ asleep \in BOOLEAN
    /\ cancelled \in BOOLEAN
    /\ main \in {"idle", "lfg", "maps", "wait", "delayed",
                 "stopping", "drained", "join", "stopped"}
    /\ toSchedule \subseteq BaseMap
    /\ timer \in [0..3 -> Nat]
    /\ step \in 0..3
    /\ maps \subseteq BaseMap \cup Instance
    /\ worker \in [Thread -> {"loop", "returned", "updating", "exited", "crashed"}]
    /\ request \in [Thread -> Request \cup {None}]
    /\ toVisit \in [Thread -> SUBSET Instance]
    /\ owed \in [BaseMap -> Int]

Init ==
    /\ Q!InitPCQueue
    /\ pending = 0 /\ asleep = FALSE /\ cancelled = FALSE
    /\ main = "idle" /\ toSchedule = {}
    /\ timer = [k \in 0..3 |-> 0] /\ step = 0
    /\ maps = BaseMap
    /\ worker = [w \in Thread |-> "loop"]
    /\ request = [w \in Thread |-> None]
    /\ toVisit = [w \in Thread |-> {}]
    /\ owed = [m \in BaseMap |-> 0]

-----------------------------------------------------------------------------
(* MapUpdater, each member one critical section of _lock.                  *)

(* Fault variant: the request is pushed and not counted. *)
SchedulePushOnly(target, diff) ==
    /\ UNCHANGED pending
    /\ Q!Push([target |-> target, diff |-> diff])

(* ScheduleUpdate and ScheduleLfgUpdate. *)
Schedule(target, diff) ==
    /\ pending' = pending + 1
    /\ Q!Push([target |-> target, diff |-> diff])

(* WaitThreads: one test of its loop; the world thread goes on to next. *)
WaitThreads(next) ==
    /\ ~asleep
    /\ IF pending = 0 THEN main' = next /\ UNCHANGED asleep
                      ELSE asleep' = TRUE /\ UNCHANGED main

(* Fault variant: the first worker that finishes clears the counter. *)
CountDownToZero ==
    /\ pending' = 0
    /\ asleep' = FALSE

(* Fault variant: the waiting world thread is not notified. *)
CountDownSilently ==
    /\ pending' = pending - 1
    /\ UNCHANGED asleep

(* FinishUpdate. *)
CountDown ==
    /\ pending' = pending - 1
    /\ asleep' = FALSE

-----------------------------------------------------------------------------
(* MapMgr::Update. *)

BeginTick(d) ==
    /\ main = "idle"
    /\ timer' = [k \in 0..3 |-> timer[k] + d]
    /\ owed' = [m \in BaseMap |-> owed[m] + d]
    /\ main' = "lfg"
    /\ UNCHANGED <<queueVars, pending, asleep, cancelled, toSchedule, step, maps,
                   workerVars>>

ScheduleLfg ==
    /\ main = "lfg"
    /\ Schedule(Lfg, 0)
    /\ main' = "maps"
    /\ toSchedule' = BaseMap
    /\ UNCHANGED <<asleep, cancelled, timer, step, maps, workerVars, owed>>

(* full ? _timer[mapUpdateStep].GetCurrent() : 0 *)
FullDiff(m) == IF step < 3 /\ Category[m] = step THEN timer[step] ELSE 0

ScheduleMap(m) ==
    /\ main = "maps" /\ m \in toSchedule
    /\ Schedule(m, FullDiff(m))
    /\ toSchedule' = toSchedule \ {m}
    /\ UNCHANGED <<asleep, cancelled, main, timer, step, maps, workerVars, owed>>

BeginWait ==
    /\ main = "maps" /\ toSchedule = {}
    /\ main' = "wait"
    /\ UNCHANGED <<queueVars, pending, asleep, cancelled, toSchedule, timer, step,
                   maps, workerVars, owed>>

(* Fault variant: the maps of the tick are not waited for. *)
DoNotWait ==
    /\ main = "wait"
    /\ main' = "delayed"
    /\ UNCHANGED <<queueVars, pending, asleep, cancelled, toSchedule, timer, step,
                   maps, workerVars, owed>>

WaitForMaps ==
    /\ main = "wait"
    /\ WaitThreads("delayed")
    /\ UNCHANGED <<queueVars, pending, cancelled, toSchedule, timer, step, maps,
                   workerVars, owed>>

(* Fault variant: the timers are cleared at the end of the cycle only. *)
EndTickKeepTimer ==
    /\ main = "delayed"
    /\ LET next == IF step < 3 THEN step + 1 ELSE 3
           wrap == next = 3 /\ timer[3] >= Interval
       IN  /\ timer' = IF wrap THEN [k \in 0..3 |-> 0] ELSE timer
           /\ step' = IF wrap THEN 0 ELSE next
    /\ main' = "idle"
    /\ UNCHANGED <<queueVars, pending, asleep, cancelled, toSchedule, maps,
                   workerVars, owed>>

(* Fault variant: the last step waits for a timer of its own. *)
EndTickNoWrap ==
    /\ main = "delayed"
    /\ timer' = [k \in 0..3 |-> IF k = step /\ k < 3 THEN 0 ELSE timer[k]]
    /\ step' = IF step < 3 THEN step + 1 ELSE 3
    /\ main' = "idle"
    /\ UNCHANGED <<queueVars, pending, asleep, cancelled, toSchedule, maps,
                   workerVars, owed>>

(* The DelayedUpdates of the step's maps, then the step's timer restarts   *)
(* and the cycle advances; after the third step it starts over once        *)
(* _timer[3] has passed, possibly in this same tick.                       *)
EndTick ==
    /\ main = "delayed"
    /\ LET next == IF step < 3 THEN step + 1 ELSE 3
           wrap == next = 3 /\ timer[3] >= Interval
           restarted == (IF step < 3 THEN {step} ELSE {}) \cup (IF wrap THEN {3} ELSE {})
       IN  /\ timer' = [k \in 0..3 |-> IF k \in restarted THEN 0 ELSE timer[k]]
           /\ step' = IF wrap THEN 0 ELSE next
    /\ main' = "idle"
    /\ UNCHANGED <<queueVars, pending, asleep, cancelled, toSchedule, maps,
                   workerVars, owed>>

(* Between ticks a player handler on the world thread creates an instance. *)
CreateInstance(i) ==
    /\ main = "idle" /\ i \notin maps
    /\ maps' = maps \cup {i}
    /\ UNCHANGED <<queueVars, pending, asleep, cancelled, mainVars, workerVars, owed>>

-----------------------------------------------------------------------------
(* MapMgr::UnloadAll and MapUpdater::Stop. *)

UnloadAll ==
    /\ main = "idle"
    /\ maps' = {}
    /\ cancelled' = TRUE
    /\ main' = "stopping"
    /\ UNCHANGED <<queueVars, pending, asleep, toSchedule, timer, step, workerVars,
                   owed>>

StopWait ==
    /\ main = "stopping"
    /\ WaitThreads("drained")
    /\ UNCHANGED <<queueVars, pending, cancelled, toSchedule, timer, step, maps,
                   workerVars, owed>>

(* Fault variant: the queue is never cancelled. *)
StopWithoutCancel ==
    /\ main = "drained"
    /\ main' = "join"
    /\ UNCHANGED <<queueVars, pending, asleep, cancelled, toSchedule, timer, step,
                   maps, workerVars, owed>>

StopCancel ==
    /\ main = "drained"
    /\ Q!Cancel
    /\ main' = "join"
    /\ UNCHANGED <<pending, asleep, cancelled, toSchedule, timer, step, maps,
                   workerVars, owed>>

StopJoin ==
    /\ main = "join"
    /\ \A w \in Thread : worker[w] = "exited"
    /\ main' = "stopped"
    /\ UNCHANGED <<queueVars, pending, asleep, cancelled, toSchedule, timer, step,
                   maps, workerVars, owed>>

-----------------------------------------------------------------------------
(* MapUpdater::InitializeThread of worker w. *)

AtWaitAndPop(w) == worker[w] = "loop" /\ w \notin waiting

Sleep(w) ==
    /\ AtWaitAndPop(w)
    /\ Q!Blocks(w, FALSE)
    /\ UNCHANGED <<pending, asleep, cancelled, mainVars, maps, workerVars, owed>>

Wakeup(w) ==
    /\ Q!SpuriousWakeup(w)
    /\ UNCHANGED <<pending, asleep, cancelled, mainVars, maps, workerVars, owed>>

PopRequest(w) ==
    /\ AtWaitAndPop(w)
    /\ Q!Takes(FALSE)
    /\ worker' = [worker EXCEPT ![w] = "returned"]
    /\ request' = [request EXCEPT ![w] = Head(queue)]
    /\ UNCHANGED <<pending, asleep, cancelled, mainVars, maps, toVisit, owed>>

PopNothing(w) ==
    /\ AtWaitAndPop(w)
    /\ Q!ReturnsNothing(FALSE)
    /\ worker' = [worker EXCEPT ![w] = "returned"]
    /\ UNCHANGED <<pending, asleep, cancelled, mainVars, maps, request, toVisit, owed>>

ExitThread(w) ==
    /\ worker[w] = "returned" /\ cancelled
    /\ worker' = [worker EXCEPT ![w] = "exited"]
    /\ UNCHANGED <<queueVars, pending, asleep, cancelled, mainVars, maps, request,
                   toVisit, owed>>

InstancesOf(m) == {i \in maps \cap Instance : Owner[i] = m}

(* request->UpdateMap(): a null request is dereferenced. *)
BeginUpdate(w) ==
    /\ worker[w] = "returned" /\ ~cancelled
    /\ IF request[w] = None
         THEN /\ worker' = [worker EXCEPT ![w] = "crashed"]
              /\ UNCHANGED <<toVisit, owed>>
         ELSE LET m == request[w].target
              IN  /\ worker' = [worker EXCEPT ![w] = "updating"]
                  /\ toVisit' = [toVisit EXCEPT ![w] = InstancesOf(m)]
                  /\ owed' = [b \in BaseMap |->
                                IF b = m THEN owed[b] - request[w].diff ELSE owed[b]]
    /\ UNCHANGED <<queueVars, pending, asleep, cancelled, mainVars, maps, request>>

Visited(w, i) ==
    /\ worker[w] = "updating" /\ i \in toVisit[w]
    /\ toVisit' = [toVisit EXCEPT ![w] = @ \ {i}]
    /\ UNCHANGED <<asleep, cancelled, mainVars, worker, request, owed>>

ScheduleInstance(w, i) ==
    /\ Visited(w, i)
    /\ Schedule(i, request[w].diff)
    /\ UNCHANGED maps

(* CanUnload, but players could not be moved out: neither updated nor erased. *)
SkipInstance(w, i) ==
    /\ Visited(w, i)
    /\ UNCHANGED <<queueVars, pending, maps>>

(* Fault variant: the instance is scheduled and then unloaded. *)
DestroyScheduledInstance(w, i) ==
    /\ Visited(w, i)
    /\ maps' = maps \ {i}
    /\ Schedule(i, request[w].diff)

(* CanUnload and DestroyInstance succeeds: nobody else can have this map,  *)
(* so that erasing it at the end of the loop or here is the same.          *)
DestroyInstance(w, i) ==
    /\ Visited(w, i)
    /\ maps' = maps \ {i}
    /\ UNCHANGED <<queueVars, pending>>

FinishUpdate(w) ==
    /\ worker[w] = "updating" /\ toVisit[w] = {}
    /\ CountDown
    /\ worker' = [worker EXCEPT ![w] = "loop"]
    /\ request' = [request EXCEPT ![w] = None]
    /\ UNCHANGED <<queueVars, cancelled, mainVars, maps, toVisit, owed>>

-----------------------------------------------------------------------------
WorkerStep(w) ==
    \/ Sleep(w) \/ PopRequest(w) \/ PopNothing(w)
    \/ ExitThread(w) \/ BeginUpdate(w) \/ FinishUpdate(w)
    \/ \E i \in Instance :
          ScheduleInstance(w, i) \/ SkipInstance(w, i) \/ DestroyInstance(w, i)

(* The steps inside Update and Stop; starting either is up to the caller. *)
MainStep ==
    \/ ScheduleLfg \/ (\E m \in BaseMap : ScheduleMap(m))
    \/ BeginWait \/ WaitForMaps \/ EndTick
    \/ StopWait \/ StopCancel \/ StopJoin

Terminated == main = "stopped" /\ UNCHANGED vars

Next ==
    \/ \E d \in Diff : BeginTick(d)
    \/ \E i \in Instance : CreateInstance(i)
    \/ UnloadAll
    \/ MainStep
    \/ \E w \in Thread : WorkerStep(w) \/ Wakeup(w)
    \/ Terminated

(* Threads run, and Map::Update returns. *)
Fairness == WF_vars(MainStep) /\ \A w \in Thread : WF_vars(WorkerStep(w))

Spec == Init /\ [][Next]_vars /\ Fairness

-----------------------------------------------------------------------------
(* Safety. *)

Holders == {w \in Thread : request[w] # None}

(* The counter is what it has to be for a barrier: the requests queued and *)
(* the requests in the hands of a worker, those the workers scheduled for  *)
(* instances included.                                                     *)
PendingIsExact == pending = Len(queue) + Cardinality(Holders)

(* Outside the part of the tick that updates maps no worker touches one:   *)
(* DelayedUpdate, the player handlers between ticks, the creation of       *)
(* instances and UnloadAll run alone.                                      *)
Barrier ==
    main \notin {"lfg", "maps", "wait"} =>
        queue = <<>> /\ \A w \in Thread : request[w] = None

(* No map is updated by two threads at once or twice in a tick, whether it *)
(* was scheduled by the world thread or by the worker of its MapInstanced. *)
OneUpdatePerMap ==
    LET targets == [n \in DOMAIN queue |-> queue[n].target]
    IN  /\ IsInjective(targets)
        /\ \A w \in Holders : request[w].target \notin ToSet(targets)
        /\ \A v, w \in Holders : request[v].target = request[w].target => v = w

(* A request, which holds a reference, never outlives its map. *)
RequestsTargetLiveMaps ==
    /\ \A n \in DOMAIN queue : queue[n].target \in maps \cup {Lfg}
    /\ \A w \in Holders : request[w].target \in maps \cup {Lfg}

(* Between ticks the time a map has not been given is exactly what its     *)
(* category's timer holds: over a cycle no time is lost or given twice.    *)
TimeIsConserved ==
    main = "idle" => \A m \in BaseMap : owed[m] = timer[Category[m]]

(* A category never waits longer for its full update than the longer of    *)
(* three ticks and the interval, plus what the ticks may differ by.        *)
BoundedStaleness ==
    LET D == Max(Diff)
        cycle == Max({3 * D, Interval + D - 1})
    IN  \A k \in 0..2 : timer[k] <= cycle + (k + 1) * (D - Min(Diff))

(* No worker dereferences the null request WaitAndPop leaves behind when   *)
(* the queue is cancelled.                                                 *)
NoNullRequest == \A w \in Thread : worker[w] # "crashed"

-----------------------------------------------------------------------------
(* Liveness. *)

(* A world tick ends: the world thread is woken when the last map is done. *)
TickEnds == (main = "lfg") ~> (main = "idle")

(* Stop returns: every worker leaves its loop and is joined. *)
StopReturns == (main = "stopping") ~> (main = "stopped")
=============================================================================
