------------------------------ MODULE PCQueue ------------------------------
(***************************************************************************)
(* ProducerConsumerQueue<T> of src/common/Threading/PCQueue.h: a std::queue *)
(* under one mutex and one condition variable.                             *)
(*                                                                         *)
(* Every operator below is one critical section of _queueLock, so it is    *)
(* one step.  A thread inside _condition.wait is a member of waiting; it   *)
(* leaves the set when it is notified (or wakes spuriously) and then tests *)
(* the loop condition again.  The program counters of the threads belong   *)
(* to the module that instantiates this one.                               *)
(***************************************************************************)
EXTENDS Sequences

VARIABLES queue,    \* _queue
          waiting,  \* the threads blocked in _condition.wait
          shutdown  \* _shutdown

pcqVars == <<queue, waiting, shutdown>>

InitPCQueue ==
    /\ queue = <<>>
    /\ waiting = {}
    /\ shutdown = FALSE

(* notify_one: any one of the waiting threads, if there is one. *)
NotifyOne ==
    waiting' \in IF waiting = {} THEN {{}} ELSE {waiting \ {t} : t \in waiting}

(* Fault variant: nobody is notified. *)
PushSilently(v) ==
    /\ queue' = Append(queue, v)
    /\ UNCHANGED <<waiting, shutdown>>

(* Fault variant: the newest element goes to the front. *)
PushFront(v) ==
    /\ queue' = <<v>> \o queue
    /\ NotifyOne
    /\ UNCHANGED shutdown

Push(v) ==
    /\ queue' = Append(queue, v)
    /\ NotifyOne
    /\ UNCHANGED shutdown

(* One evaluation of the loop and the test behind it in WaitAndPop, by a   *)
(* thread t that holds the lock; cancelled is the caller's customCancel    *)
(* flag (FALSE in the overload without one).                               *)
Blocks(t, cancelled) ==
    /\ queue = <<>> /\ ~shutdown /\ ~cancelled
    /\ waiting' = waiting \cup {t}
    /\ UNCHANGED <<queue, shutdown>>

ReturnsNothing(cancelled) ==
    /\ shutdown \/ cancelled
    /\ UNCHANGED pcqVars

Takes(cancelled) ==
    /\ queue # <<>> /\ ~shutdown /\ ~cancelled
    /\ queue' = Tail(queue)
    /\ UNCHANGED <<waiting, shutdown>>

(* A condition variable may wake a thread that nobody notified. *)
SpuriousWakeup(t) ==
    /\ t \in waiting
    /\ waiting' = waiting \ {t}
    /\ UNCHANGED <<queue, shutdown>>

NotifyAll ==
    /\ waiting' = {}
    /\ UNCHANGED <<queue, shutdown>>

(* Cancel deletes whatever is still queued and wakes everybody. *)
Cancel ==
    /\ queue' = <<>>
    /\ shutdown' = TRUE
    /\ waiting' = {}
=============================================================================
