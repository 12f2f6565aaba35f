----------------------------- MODULE MPSCQueue -----------------------------
(***************************************************************************)
(* MPSCQueueIntrusive<T> of src/common/Threading/MPSCQueue.h: the lock-free *)
(* queue of many producers and one consumer.  The nodes are the elements   *)
(* and a dummy, each with an atomic link to the node enqueued after it.    *)
(*                                                                         *)
(* Every operator below is one access to memory that several threads share; *)
(* what only one thread can see yet or still belongs to the next access.   *)
(***************************************************************************)
CONSTANTS Element, Dummy, Thread, Consumer, None

VARIABLES head,      \* _head, the node enqueued last
          tail,      \* _tail, which only the consumer touches
          link,      \* IntrusiveLink of every node
          linking,   \* what each thread in Enqueue has still to link to what
          dequeue    \* where the consumer is in Dequeue; "tail" when outside

mpscVars == <<head, tail, link, linking, dequeue>>

Node == Element \cup {Dummy}

InitMPSCQueue ==
    /\ head = Dummy /\ tail = Dummy
    /\ link = [n \in Node |-> None]
    /\ linking = [t \in Thread |-> None]
    /\ dequeue = "tail"

-----------------------------------------------------------------------------
(* Enqueue(n) by thread t: the exchange of _head puts n behind all others, *)
(* and from the store into the link of the node before it n can be found.  *)

ExchangeHead(t, n) ==
    /\ link' = [link EXCEPT ![n] = None]
    /\ head' = n
    /\ linking' = [linking EXCEPT ![t] = [before |-> head, node |-> n]]
    /\ UNCHANGED tail

StoreLink(t) ==
    /\ linking[t] # None
    /\ link' = [link EXCEPT ![linking[t].before] = linking[t].node]
    /\ linking' = [linking EXCEPT ![t] = None]
    /\ UNCHANGED <<head, tail>>

-----------------------------------------------------------------------------
(* Dequeue.  An element is returned once it has a successor; the last one  *)
(* gets the dummy as its successor.                                        *)

AtElement == dequeue \in {"next", "last"} \/ (dequeue = "tail" /\ tail # Dummy)

(* Fault variant: the last element is taken without a successor. *)
ReturnLast ==
    /\ AtElement
    /\ link[tail] # None \/ tail = head
    /\ tail' = IF link[tail] # None THEN link[tail] ELSE Dummy
    /\ dequeue' = "tail"
    /\ UNCHANGED <<head, link, linking>>

(* The element at the tail is returned. *)
ReturnElement ==
    /\ AtElement
    /\ link[tail] # None
    /\ tail' = link[tail]
    /\ dequeue' = "tail"
    /\ UNCHANGED <<head, link, linking>>

(* FALSE is returned: nothing is there, or the next element is not linked. *)
ReturnNothing ==
    /\ \/ dequeue = "tail" /\ tail = Dummy /\ link[tail] = None
       \/ dequeue = "head" /\ tail # head
       \/ dequeue = "last" /\ link[tail] = None
    /\ dequeue' = "tail"
    /\ UNCHANGED <<head, tail, link, linking>>

SkipDummy ==
    /\ dequeue = "tail" /\ tail = Dummy /\ link[tail] # None
    /\ tail' = link[tail]
    /\ dequeue' = "next"
    /\ UNCHANGED <<head, link, linking>>

FindNoSuccessor ==
    /\ AtElement /\ dequeue # "last"
    /\ link[tail] = None
    /\ dequeue' = "head"
    /\ UNCHANGED <<head, tail, link, linking>>

CompareHead ==
    /\ dequeue = "head" /\ tail = head
    /\ dequeue' = "dummy"
    /\ UNCHANGED <<head, tail, link, linking>>

EnqueueDummy ==
    /\ dequeue = "dummy"
    /\ ExchangeHead(Consumer, Dummy)
    /\ dequeue' = "link"

LinkDummy ==
    /\ dequeue = "link"
    /\ StoreLink(Consumer)
    /\ dequeue' = "last"

ContinueDequeue ==
    SkipDummy \/ FindNoSuccessor \/ CompareHead \/ EnqueueDummy \/ LinkDummy
=============================================================================
