----------------------- MODULE SqlTransaction_proofs -----------------------
(***************************************************************************)
(* Proofs about SqlTransaction, for any number of threads, tasks and       *)
(* statements, and for every way in which connections may break.           *)
(***************************************************************************)
EXTENDS SqlTransaction, SequenceTheorems, TLAPS

Nothing(t) == Effects(t) \cap durable = {}
Everything(t) == Effects(t) \subseteq durable

(* What a thread has in hand, whatever happened to its connection. *)
ThreadIsSound(w) ==
    /\ task[w] = None <=> pc[w] = "idle"
    /\ pc[w] = "idle" => ~retrying[w]
    /\ task[w] # None => result[task[w]] = "running" /\ buffer[w] \subseteq Effects(task[w])
    /\ pc[w] \in {"idle", "begin", "tried", "lock"} \/ handle[w] = "null" => ~open[w]
    /\ ~open[w] => buffer[w] = {}
    /\ pc[w] \in {"begin", "stmt", "commit", "rollback", "lock"} => Queries[task[w]] # <<>>
    /\ pc[w] = "tried" /\ (code[w] # "error" \/ retrying[w]) => Queries[task[w]] # <<>>
    /\ pc[w] = "stmt" => next[w] \in Indexes(task[w])
    /\ retrying[w] /\ task[w] \notin Direct => lock = w

(* How far it has got with a task whose connection never broke. *)
ProgressIsExact(w) ==
    task[w] # None /\ task[w] \notin disturbed =>
        /\ handle[w] = "live"
        /\ pc[w] \in {"begin", "stmt", "commit", "rollback", "lock"} => Nothing(task[w])
        /\ pc[w] = "tried" => IF code[w] = "ok" THEN Everything(task[w]) ELSE Nothing(task[w])
        /\ pc[w] = "stmt" =>
              /\ open[w]
              /\ \A i \in Indexes(task[w]) : <<task[w], i>> \in buffer[w] <=> i < next[w]
        /\ pc[w] = "commit" => open[w] /\ buffer[w] = Effects(task[w])
        /\ pc[w] = "rollback" => code[w] # "ok"

(* The same of a task. *)
TaskIsSound(t) ==
    /\ result[t] = "running" => \E w \in Worker : task[w] = t
    /\ t \notin disturbed =>
          /\ result[t] \in {"new", "false"} => Nothing(t)
          /\ result[t] = "true" => Everything(t)
          /\ result[t] = "void" => Nothing(t) \/ Everything(t)

OneThreadEach ==
    \A v, w \in Worker : task[v] # None /\ task[v] = task[w] => v = w

IInv ==
    /\ TypeOK
    /\ \A w \in Worker : ThreadIsSound(w) /\ ProgressIsExact(w)
    /\ \A t \in Task : TaskIsSound(t)
    /\ OneThreadEach
    /\ NotTwice

-----------------------------------------------------------------------------
LEMMA QueriesAreFinite ==
    ASSUME NEW t \in Task
    PROVE  /\ Len(Queries[t]) \in Nat
           /\ Queries[t] # <<>> => Len(Queries[t]) > 0
<1>1. Queries[t] \in Seq({"raw", "prepared"})
  BY ConstantsAssumption
<1>2. QED
  BY <1>1, LenProperties, EmptySeq

LEMMA EffectsOfOne ==
    ASSUME NEW t \in Task
    PROVE  /\ \A i \in Indexes(t) : <<t, i>> \in Effects(t)
           /\ \A e \in Effects(t) : e[1] = t /\ \E i \in Indexes(t) : e = <<t, i>>
           /\ Effects(t) \subseteq Effect
BY DEF Effects, Effect

LEMMA EffectsOfStatements ==
    ASSUME NEW t \in Task, Queries[t] # <<>>
    PROVE  Effects(t) # {}
<1>1. 1 \in Indexes(t)
  BY QueriesAreFinite DEF Indexes
<1>2. QED
  BY <1>1, EffectsOfOne

LEMMA EffectsAreDisjoint ==
    ASSUME NEW t \in Task, NEW u \in Task, t # u
    PROVE  Effects(t) \cap Effects(u) = {}
BY EffectsOfOne

-----------------------------------------------------------------------------
(* A step of the thread w on the task u leaves the others alone. *)
Frame(w, u) ==
    /\ task[w] \in {u, None} /\ task'[w] \in {u, None}
    /\ \A v \in Worker \ {w} :
          /\ task[v] # u
          /\ task'[v] = task[v] /\ pc'[v] = pc[v] /\ next'[v] = next[v]
          /\ code'[v] = code[v] /\ retrying'[v] = retrying[v]
          /\ handle'[v] = handle[v] /\ open'[v] = open[v] /\ buffer'[v] = buffer[v]
          /\ lock = v => lock' = v
    /\ \A t \in Task \ {u} : result'[t] = result[t]
    /\ durable \subseteq durable' /\ durable' \subseteq durable \cup Effects(u)
    /\ disturbed \subseteq disturbed' /\ disturbed' \subseteq disturbed \cup {u}

(* What the step is to somebody who sees of u its report and its effects,  *)
(* if its connection never broke.                                          *)
Follows(u) ==
    u \notin disturbed =>
        \/ result'[u] = result[u] /\ durable' = durable /\ u \notin disturbed'
        \/ /\ result[u] = "new" /\ result'[u] = "running"
           /\ durable' = durable /\ u \notin disturbed'
        \/ /\ result[u] = "running" /\ result'[u] = "running"
           /\ Nothing(u) /\ Effects(u) # {}
           /\ durable' = durable \cup Effects(u) /\ u \notin disturbed'
        \/ /\ result[u] = "running" /\ result'[u] \in {"true", "false", "void"}
           /\ result'[u] = "true" => Everything(u) /\ Effects(u) # {}
           /\ result'[u] = "false" => Nothing(u)
           /\ durable' = durable /\ u \notin disturbed'
        \/ result[u] \in {"new", "running"} /\ u \in disturbed'

LEMMA FrameTasks ==
    ASSUME NEW w \in Worker, NEW u \in Task, Frame(w, u), NEW t \in Task, t # u
    PROVE  /\ Effects(t) \cap durable' = Effects(t) \cap durable
           /\ t \in disturbed' <=> t \in disturbed
           /\ Nothing(t)' <=> Nothing(t)
           /\ Everything(t)' <=> Everything(t)
<1>1. Effects(t) \cap durable' = Effects(t) \cap durable
  BY EffectsAreDisjoint DEF Frame
<1>2. QED
  BY <1>1 DEF Frame, Nothing, Everything

LEMMA Framed ==
    ASSUME IInv, NEW w \in Worker, NEW u \in Task, Frame(w, u),
           TypeOK', ThreadIsSound(w)', ProgressIsExact(w)', TaskIsSound(u)', NotTwice'
    PROVE  IInv'
<1>1. ASSUME NEW v \in Worker, v # w
      PROVE  ThreadIsSound(v)' /\ ProgressIsExact(v)'
  <2>1. /\ task'[v] = task[v] /\ task[v] # u /\ pc'[v] = pc[v] /\ next'[v] = next[v]
        /\ code'[v] = code[v] /\ retrying'[v] = retrying[v]
        /\ handle'[v] = handle[v] /\ open'[v] = open[v] /\ buffer'[v] = buffer[v]
        /\ lock = v => lock' = v
    BY <1>1 DEF Frame
  <2>2. ThreadIsSound(v) /\ ProgressIsExact(v) /\ task[v] \in Task \cup {None}
    BY DEF IInv, TypeOK
  <2>3. ThreadIsSound(v)'
    <3>1. task[v] # None => result'[task[v]] = result[task[v]]
      BY <2>1, <2>2 DEF Frame
    <3>2. QED
      BY <2>1, <2>2, <3>1 DEF ThreadIsSound
  <2>4. ProgressIsExact(v)'
    <3>1. SUFFICES ASSUME NEW t \in Task, t = task[v], t # None
                   PROVE  ProgressIsExact(v)'
      BY <2>1, <2>2 DEF ProgressIsExact
    <3>2. /\ t \in disturbed' <=> t \in disturbed
          /\ Nothing(t)' <=> Nothing(t)
          /\ Everything(t)' <=> Everything(t)
      BY <2>1, <3>1, FrameTasks
    <3>3. /\ (Nothing(task[v]))' <=> Nothing(t)'
          /\ (Everything(task[v]))' <=> Everything(t)'
      BY <2>1, <3>1 DEF Nothing, Everything
    <3>4. QED
      BY <2>1, <2>2, <3>1, <3>2, <3>3 DEF ProgressIsExact
  <2>5. QED
    BY <2>3, <2>4
<1>2. ASSUME NEW t \in Task, t # u
      PROVE  TaskIsSound(t)'
  <2>1. /\ result'[t] = result[t] /\ TaskIsSound(t)
        /\ t \in disturbed' <=> t \in disturbed
        /\ Nothing(t)' <=> Nothing(t)
        /\ Everything(t)' <=> Everything(t)
    BY <1>2, FrameTasks DEF Frame, IInv
  <2>2. result'[t] = "running" => \E v \in Worker : task'[v] = t
    <3>1. SUFFICES ASSUME result'[t] = "running"
                   PROVE  \E v \in Worker : task'[v] = t
      OBVIOUS
    <3>2. PICK v \in Worker : task[v] = t
      BY <2>1, <3>1 DEF TaskIsSound
    <3>3. v # w
      BY <1>2, <3>2, ConstantsAssumption DEF Frame
    <3>4. QED
      BY <3>2, <3>3 DEF Frame
  <2>3. QED
    BY <2>1, <2>2 DEF TaskIsSound
<1>3. OneThreadEach'
  BY DEF OneThreadEach, Frame, IInv
<1>4. QED
  BY <1>1, <1>2, <1>3 DEF IInv

-----------------------------------------------------------------------------
(* The actions, each with the task u it is about.  A thread that is not    *)
(* idle has one.                                                           *)
LEMMA Working ==
    ASSUME IInv, NEW w \in Worker, pc[w] # "idle"
    PROVE  /\ task[w] \in Task /\ task[w] # None
           /\ \A v \in Worker \ {w} : task[v] # task[w]
           /\ ThreadIsSound(w) /\ ProgressIsExact(w) /\ TaskIsSound(task[w])
           /\ result[task[w]] = "running"
<1>1. ThreadIsSound(w) /\ ProgressIsExact(w) /\ TypeOK
  BY DEF IInv
<1>2. task[w] \in Task /\ task[w] # None
  BY <1>1 DEF ThreadIsSound, TypeOK
<1>3. QED
  BY <1>1, <1>2 DEF IInv, OneThreadEach, ThreadIsSound

(* A step that leaves the server and the connection alone. *)
LEMMA LocalPreserves ==
    ASSUME IInv, NEW w \in Worker,
           WaitForLock(w) \/ LockDeadlock(w) \/ ClockPasses(w) \/ RetryLoop(w) \/ RetryDirect(w)
    PROVE  IInv' /\ \E u \in Task : Frame(w, u) /\ Follows(u)
<1>1. TypeOK
  BY DEF IInv
<1>2. pc[w] # "idle"
  BY DEF WaitForLock, LockDeadlock, ClockPasses, RetryLoop, RetryDirect, Tried, IInv, ThreadIsSound
<1>3. PICK u \in Task :
        /\ u = task[w] /\ u # None
        /\ \A v \in Worker \ {w} : task[v] # u
        /\ ThreadIsSound(w) /\ ProgressIsExact(w) /\ TaskIsSound(u)
        /\ result[u] = "running"
  BY <1>2, Working
<1>4. /\ UNCHANGED <<task, next, code, result, open, buffer, durable, twice>>
      /\ UNCHANGED <<handle, losses, aborted, disturbed>>
  BY DEF WaitForLock, LockDeadlock, Locked, ClockPasses, RetryLoop, RetryDirect, server, link
<1>5. /\ pc' \in [Worker -> {"idle", "begin", "stmt", "commit", "rollback", "tried", "lock"}]
      /\ retrying' \in [Worker -> BOOLEAN]
      /\ left' \in [Worker -> 0..LoopBreaker]
      /\ expired' \in [Worker -> BOOLEAN]
      /\ lock' \in Worker \cup {None}
      /\ \A v \in Worker \ {w} :
            pc'[v] = pc[v] /\ retrying'[v] = retrying[v] /\ (lock = v => lock' = v)
  <2>1. CASE WaitForLock(w)
    BY <1>1, <2>1 DEF WaitForLock, GoTo, TypeOK
  <2>2. CASE LockDeadlock(w)
    BY <1>1, <2>2, ConstantsAssumption DEF LockDeadlock, Locked, GoTo, TypeOK
  <2>3. CASE ClockPasses(w)
    BY <1>1, <2>3 DEF ClockPasses, TypeOK
  <2>4. CASE RetryLoop(w)
    BY <1>1, <2>4 DEF RetryLoop, GoTo, TypeOK
  <2>5. CASE RetryDirect(w)
    <3>1. left[w] \in 0..LoopBreaker /\ LoopBreaker - 1 \in 0..LoopBreaker
      BY <1>1, ConstantsAssumption DEF TypeOK
    <3>2. left[w] > 0 => left[w] - 1 \in 0..LoopBreaker
      BY <3>1, ConstantsAssumption
    <3>3. left' \in [Worker -> 0..LoopBreaker]
      BY <1>1, <2>5, <3>1, <3>2 DEF RetryDirect, TypeOK
    <3>4. QED
      BY <1>1, <2>5, <3>3 DEF RetryDirect, GoTo, TypeOK
  <2>6. QED
    BY <2>1, <2>2, <2>3, <2>4, <2>5
<1>6. TypeOK' /\ Frame(w, u)
  <2>1. TypeOK'
    BY <1>1, <1>4, <1>5 DEF TypeOK
  <2>2. QED
    BY <1>3, <1>4, <1>5, <2>1 DEF Frame
<1>7. ThreadIsSound(w)'
  BY <1>1, <1>2, <1>3, <1>4
  DEF ThreadIsSound, TypeOK, Tried, WaitForLock, LockDeadlock, Locked, ClockPasses, RetryLoop,
      RetryDirect, GoTo
<1>8. ProgressIsExact(w)'
  BY <1>1, <1>2, <1>3, <1>4
  DEF ProgressIsExact, ThreadIsSound, Nothing, Everything, TypeOK, Tried, WaitForLock, LockDeadlock,
      Locked, ClockPasses, RetryLoop, RetryDirect, GoTo
<1>9. TaskIsSound(u)' /\ NotTwice'
  BY <1>3, <1>4 DEF TaskIsSound, Nothing, Everything, IInv, NotTwice
<1>10. Follows(u)
  BY <1>4 DEF Follows
<1>11. QED
  BY <1>6, <1>7, <1>8, <1>9, <1>10, Framed

(* BeginTransaction: nothing was open, so that nothing is stored. *)
LEMMA BeginPreserves ==
    ASSUME IInv, NEW w \in Worker, BeginTransaction(w)
    PROVE  IInv' /\ \E u \in Task : Frame(w, u) /\ Follows(u)
<1>1. TypeOK /\ pc[w] = "begin"
  BY DEF IInv, BeginTransaction
<1>2. PICK u \in Task :
        /\ u = task[w] /\ u # None
        /\ \A v \in Worker \ {w} : task[v] # u
        /\ ThreadIsSound(w) /\ ProgressIsExact(w) /\ TaskIsSound(u)
        /\ result[u] = "running"
  BY <1>1, Working
<1>3. UNCHANGED <<task, code, retrying, left, expired, lock, result, handle, losses, aborted, disturbed>>
  BY DEF BeginTransaction, link
<1>4. /\ UNCHANGED <<durable, buffer>> /\ twice' = twice
      /\ open' = IF handle[w] = "null" THEN open ELSE [open EXCEPT ![w] = TRUE]
  <2>1. buffer[w] = {}
    BY <1>1, <1>2 DEF ThreadIsSound
  <2>2. CASE handle[w] = "null"
    BY <2>2 DEF BeginTransaction, server
  <2>3. CASE handle[w] # "null"
    <3>1. ServerBegin(w)
      BY <2>3 DEF BeginTransaction
    <3>2. durable' = durable \cup {} /\ twice' = twice \cup {e[1] : e \in {} \cap durable}
      BY <2>1, <3>1 DEF ServerBegin, Store
    <3>3. buffer' = [buffer EXCEPT ![w] = {}]
      BY <3>1 DEF ServerBegin
    <3>4. buffer' = buffer
      BY <1>1, <2>1, <3>3 DEF TypeOK
    <3>5. QED
      BY <2>3, <3>1, <3>2, <3>4 DEF ServerBegin
  <2>4. QED
    BY <2>2, <2>3
<1>5. next' = [next EXCEPT ![w] = 1] /\ pc' = [pc EXCEPT ![w] = "stmt"]
  BY DEF BeginTransaction, GoTo
<1>6. 1 \in Indexes(u)
  BY <1>1, <1>2, QueriesAreFinite DEF Indexes, ThreadIsSound
<1>7. TypeOK'
  BY <1>1, <1>3, <1>4, <1>5 DEF TypeOK
<1>8. Frame(w, u)
  BY <1>1, <1>2, <1>3, <1>4, <1>5 DEF Frame, TypeOK
<1>9. ThreadIsSound(w)'
  BY <1>1, <1>2, <1>3, <1>4, <1>5, <1>6 DEF ThreadIsSound, TypeOK
<1>10. ProgressIsExact(w)'
  <2>1. buffer[w] = {}
    BY <1>1, <1>2 DEF ThreadIsSound
  <2>2. \A i \in Indexes(u) : ~(i < 1)
    BY <1>2, QueriesAreFinite DEF Indexes
  <2>3. QED
    BY <1>1, <1>2, <1>3, <1>4, <1>5, <2>1, <2>2 DEF ProgressIsExact, Nothing, Everything, TypeOK
<1>11. TaskIsSound(u)' /\ NotTwice'
  BY <1>2, <1>3, <1>4 DEF TaskIsSound, Nothing, Everything, IInv, NotTwice
<1>12. Follows(u)
  BY <1>3, <1>4 DEF Follows
<1>13. QED
  BY <1>7, <1>8, <1>9, <1>10, <1>11, <1>12, Framed

(* ExecuteStatement: in a transaction the effect goes to its buffer, once. *)
LEMMA StatementPreserves ==
    ASSUME IInv, NEW w \in Worker, ExecuteStatement(w)
    PROVE  IInv' /\ \E u \in Task : Frame(w, u) /\ Follows(u)
<1> DEFINE last == next[w] = Len(Queries[task[w]])
<1>1. TypeOK /\ pc[w] = "stmt"
  BY DEF IInv, ExecuteStatement
<1>2. PICK u \in Task :
        /\ u = task[w] /\ u # None
        /\ \A v \in Worker \ {w} : task[v] # u
        /\ ThreadIsSound(w) /\ ProgressIsExact(w) /\ TaskIsSound(u)
        /\ result[u] = "running"
  BY <1>1, Working
<1>3. /\ UNCHANGED <<task, code, retrying, left, expired, lock, result>>
      /\ UNCHANGED <<handle, losses, aborted, disturbed>>
      /\ next' = [next EXCEPT ![w] = @ + 1]
      /\ pc' = [pc EXCEPT ![w] = IF last THEN "commit" ELSE "stmt"]
      /\ ServerStatement(w, <<u, next[w]>>)
  BY <1>2 DEF ExecuteStatement, GoTo, link, Statement
<1>4. /\ next[w] \in Indexes(u) /\ <<u, next[w]>> \in Effects(u)
      /\ <<u, next[w]>> \in Effect /\ <<u, next[w]>>[1] = u
      /\ Len(Queries[u]) \in Nat /\ next[w] \in Nat
  BY <1>1, <1>2, EffectsOfOne, QueriesAreFinite DEF ThreadIsSound, TypeOK
<1>5. /\ open' = open
      /\ buffer' = [buffer EXCEPT ![w] = IF open[w] THEN @ \cup {<<u, next[w]>>} ELSE @]
      /\ durable' = durable \cup (IF open[w] THEN {} ELSE {<<u, next[w]>>})
      /\ twice \subseteq twice' /\ twice' \subseteq twice \cup {u}
      /\ open[w] /\ <<u, next[w]>> \notin buffer[w] => twice' = twice
  <2>1. CASE open[w]
    BY <1>1, <1>3, <2>1 DEF ServerStatement, TypeOK
  <2>2. CASE ~open[w]
    BY <1>1, <1>3, <1>4, <2>2 DEF ServerStatement, Store, TypeOK
  <2>3. QED
    BY <2>1, <2>2
<1>6. TypeOK'
  <2>1. buffer' \in [Worker -> SUBSET Effect] /\ durable' \subseteq Effect
    BY <1>1, <1>4, <1>5 DEF TypeOK
  <2>2. next' \in [Worker -> Nat]
    BY <1>1, <1>3, <1>4 DEF TypeOK
  <2>3. QED
    BY <1>1, <1>3, <1>5, <2>1, <2>2 DEF TypeOK
<1>7. Frame(w, u)
  BY <1>1, <1>2, <1>3, <1>4, <1>5 DEF Frame, TypeOK
<1>8. ~last => next[w] + 1 \in Indexes(u)
  BY <1>2, <1>4 DEF Indexes
<1>9. ThreadIsSound(w)'
  <2>1. buffer'[w] \subseteq Effects(u) /\ (~open[w] => buffer'[w] = {})
    BY <1>1, <1>2, <1>4, <1>5 DEF ThreadIsSound, TypeOK
  <2>2. QED
    BY <1>1, <1>2, <1>3, <1>5, <1>8, <2>1 DEF ThreadIsSound, TypeOK
<1>10. ASSUME u \notin disturbed
       PROVE  /\ open[w] /\ handle[w] = "live" /\ Nothing(u)
              /\ \A i \in Indexes(u) : <<u, i>> \in buffer[w] <=> i < next[w]
              /\ <<u, next[w]>> \notin buffer[w]
  <2>1. /\ open[w] /\ handle[w] = "live" /\ Nothing(u)
        /\ \A i \in Indexes(u) : <<u, i>> \in buffer[w] <=> i < next[w]
    BY <1>1, <1>2, <1>10 DEF ProgressIsExact
  <2>2. QED
    BY <1>4, <2>1
<1>11. ProgressIsExact(w)'
  <2>1. SUFFICES ASSUME u \notin disturbed
                 PROVE  /\ handle'[w] = "live" /\ Nothing(u)' /\ open'[w]
                        /\ ~last => \A i \in Indexes(u) : <<u, i>> \in buffer'[w] <=> i < next'[w]
                        /\ last => buffer'[w] = Effects(u)
    BY <1>1, <1>2, <1>3 DEF ProgressIsExact, Nothing, TypeOK
  <2>2. /\ handle'[w] = "live" /\ Nothing(u)' /\ open'[w]
        /\ buffer'[w] = buffer[w] \cup {<<u, next[w]>>}
        /\ next'[w] = next[w] + 1
    BY <1>1, <1>3, <1>5, <1>10, <2>1 DEF Nothing, TypeOK
  <2>3. \A i \in Indexes(u) : <<u, i>> \in buffer'[w] <=> i < next[w] + 1
    <3>1. \A i \in Indexes(u) : i < next[w] + 1 <=> i < next[w] \/ i = next[w]
      BY <1>4 DEF Indexes
    <3>2. \A i \in Indexes(u) : <<u, i>> = <<u, next[w]>> <=> i = next[w]
      OBVIOUS
    <3>3. QED
      BY <1>10, <2>1, <2>2, <3>1, <3>2
  <2>4. last => buffer'[w] = Effects(u)
    <3>1. SUFFICES ASSUME last PROVE Effects(u) \subseteq buffer'[w]
      BY <1>2, <1>4, <2>2 DEF ThreadIsSound
    <3>2. \A i \in Indexes(u) : i < next[w] + 1
      BY <1>2, <1>4, <3>1 DEF Indexes
    <3>3. QED
      BY <2>3, <3>2, EffectsOfOne
  <2>5. QED
    BY <2>2, <2>3, <2>4
<1>12. TaskIsSound(u)'
  BY <1>2, <1>3, <1>10, <1>5 DEF TaskIsSound, Nothing, Everything
<1>13. NotTwice'
  BY <1>3, <1>5, <1>10 DEF IInv, NotTwice
<1>14. Follows(u)
  BY <1>3, <1>5, <1>10 DEF Follows
<1>15. QED
  BY <1>6, <1>7, <1>9, <1>11, <1>12, <1>13, <1>14, Framed

(* A statement fails: with a deadlock the transaction is gone already, and *)
(* without a connection mysql_errno says nothing.                          *)
LEMMA FailPreserves ==
    ASSUME IInv, NEW w \in Worker,
           DeadlockStatement(w) \/ FailStatement(w) \/ UnreachableStatement(w)
    PROVE  IInv' /\ \E u \in Task : Frame(w, u) /\ Follows(u)
<1>1. TypeOK /\ pc[w] = "stmt"
  BY DEF IInv, DeadlockStatement, FailStatement, UnreachableStatement
<1>2. PICK u \in Task :
        /\ u = task[w] /\ u # None
        /\ \A v \in Worker \ {w} : task[v] # u
        /\ ThreadIsSound(w) /\ ProgressIsExact(w) /\ TaskIsSound(u)
        /\ result[u] = "running"
  BY <1>1, Working
<1>3. PICK c \in {"ok", "deadlock", "error"} :
        /\ code' = [code EXCEPT ![w] = c]
        /\ c = "ok" => handle[w] # "live"
  BY DEF DeadlockStatement, FailStatement, UnreachableStatement, Fail, Reaches
<1>4. /\ UNCHANGED <<task, next, retrying, left, expired, lock, result>>
      /\ UNCHANGED <<handle, losses, aborted, disturbed, durable, twice>>
      /\ pc' = [pc EXCEPT ![w] = "rollback"]
      /\ \/ UNCHANGED <<open, buffer>>
         \/ open' = [open EXCEPT ![w] = FALSE] /\ buffer' = [buffer EXCEPT ![w] = {}]
  BY DEF DeadlockStatement, FailStatement, UnreachableStatement, Fail, GoTo, link, server,
         ServerRollback, CloseSession
<1>5. TypeOK'
  BY <1>1, <1>3, <1>4 DEF TypeOK
<1>6. Frame(w, u)
  BY <1>1, <1>2, <1>3, <1>4 DEF Frame, TypeOK
<1>7. ThreadIsSound(w)'
  BY <1>1, <1>2, <1>3, <1>4 DEF ThreadIsSound, TypeOK
<1>8. ProgressIsExact(w)'
  BY <1>1, <1>2, <1>3, <1>4 DEF ProgressIsExact, Nothing, TypeOK
<1>9. TaskIsSound(u)' /\ NotTwice'
  BY <1>2, <1>4 DEF TaskIsSound, Nothing, Everything, IInv, NotTwice
<1>10. Follows(u)
  BY <1>4 DEF Follows
<1>11. QED
  BY <1>5, <1>6, <1>7, <1>8, <1>9, <1>10, Framed

(* RollbackTransaction: what the session had done is undone. *)
LEMMA RollbackPreserves ==
    ASSUME IInv, NEW w \in Worker, RollbackTransaction(w)
    PROVE  IInv' /\ \E u \in Task : Frame(w, u) /\ Follows(u)
<1>1. TypeOK /\ pc[w] = "rollback"
  BY DEF IInv, RollbackTransaction
<1>2. PICK u \in Task :
        /\ u = task[w] /\ u # None
        /\ \A v \in Worker \ {w} : task[v] # u
        /\ ThreadIsSound(w) /\ ProgressIsExact(w) /\ TaskIsSound(u)
        /\ result[u] = "running"
  BY <1>1, Working
<1>3. /\ UNCHANGED <<task, next, code, retrying, left, expired, lock, result>>
      /\ UNCHANGED <<handle, losses, aborted, disturbed, durable, twice>>
      /\ pc' = [pc EXCEPT ![w] = "tried"]
      /\ open' = [open EXCEPT ![w] = FALSE] /\ buffer' = [buffer EXCEPT ![w] = {}]
  <2>1. CASE handle[w] = "null"
    <3>1. ~open[w] /\ buffer[w] = {}
      BY <1>2, <2>1 DEF ThreadIsSound
    <3>2. QED
      BY <1>1, <2>1, <3>1 DEF RollbackTransaction, GoTo, link, server, TypeOK
  <2>2. CASE handle[w] # "null"
    BY <2>2 DEF RollbackTransaction, GoTo, link, ServerRollback, CloseSession
  <2>3. QED
    BY <2>1, <2>2
<1>4. TypeOK'
  BY <1>1, <1>3 DEF TypeOK
<1>5. Frame(w, u)
  BY <1>1, <1>2, <1>3 DEF Frame, TypeOK
<1>6. ThreadIsSound(w)'
  BY <1>1, <1>2, <1>3 DEF ThreadIsSound, TypeOK
<1>7. ProgressIsExact(w)'
  BY <1>1, <1>2, <1>3 DEF ProgressIsExact, Nothing, TypeOK
<1>8. TaskIsSound(u)' /\ NotTwice'
  BY <1>2, <1>3 DEF TaskIsSound, Nothing, Everything, IInv, NotTwice
<1>9. Follows(u)
  BY <1>3 DEF Follows
<1>10. QED
  BY <1>4, <1>5, <1>6, <1>7, <1>8, <1>9, Framed

(* What becomes durable of a task counts as twice only if it was before.   *)
LEMMA Stored ==
    ASSUME NEW u \in Task, NEW S \in SUBSET Effects(u), Store(S)
    PROVE  /\ durable' = durable \cup S
           /\ twice \subseteq twice' /\ twice' \subseteq twice \cup {u}
           /\ Nothing(u) => twice' = twice
<1>1. /\ durable' = durable \cup S
      /\ twice' = twice \cup {e[1] : e \in S \cap durable}
  BY DEF Store
<1>2. \A e \in S : e[1] = u
  BY EffectsOfOne
<1>3. Nothing(u) => S \cap durable = {}
  BY DEF Nothing
<1>4. QED
  BY <1>1, <1>2, <1>3

(* CommitTransaction: the effects of a task that was not disturbed become  *)
(* durable, all at once.                                                   *)
LEMMA CommitPreserves ==
    ASSUME IInv, NEW w \in Worker, CommitTransaction(w)
    PROVE  IInv' /\ \E u \in Task : Frame(w, u) /\ Follows(u)
<1>1. TypeOK /\ pc[w] = "commit"
  BY DEF IInv, CommitTransaction
<1>2. PICK u \in Task :
        /\ u = task[w] /\ u # None
        /\ \A v \in Worker \ {w} : task[v] # u
        /\ ThreadIsSound(w) /\ ProgressIsExact(w) /\ TaskIsSound(u)
        /\ result[u] = "running"
  BY <1>1, Working
<1>3. /\ UNCHANGED <<task, next, retrying, left, expired, lock, result>>
      /\ UNCHANGED <<handle, losses, aborted, disturbed>>
      /\ pc' = [pc EXCEPT ![w] = "tried"] /\ code' = [code EXCEPT ![w] = "ok"]
  BY DEF CommitTransaction, GoTo, link
<1>4. /\ open' = [open EXCEPT ![w] = FALSE] /\ buffer' = [buffer EXCEPT ![w] = {}]
      /\ durable \subseteq durable' /\ durable' \subseteq durable \cup Effects(u)
      /\ handle[w] # "null" => durable' = durable \cup buffer[w]
      /\ twice' \subseteq twice \cup {u}
      /\ Nothing(u) => twice' = twice
  <2>1. buffer[w] \in SUBSET Effects(u)
    BY <1>2 DEF ThreadIsSound
  <2>2. CASE handle[w] = "null"
    <3>1. ~open[w] /\ buffer[w] = {}
      BY <1>2, <2>2 DEF ThreadIsSound
    <3>2. QED
      BY <1>1, <2>2, <3>1 DEF CommitTransaction, server, TypeOK
  <2>3. CASE handle[w] # "null"
    <3>1. Store(buffer[w]) /\ CloseSession(w)
      BY <2>3 DEF CommitTransaction, ServerCommit
    <3>2. QED
      BY <2>1, <3>1, Stored DEF CloseSession
  <2>4. QED
    BY <2>2, <2>3
<1>5. TypeOK'
  BY <1>1, <1>2, <1>3, <1>4, EffectsOfOne DEF TypeOK
<1>6. Frame(w, u)
  BY <1>1, <1>2, <1>3, <1>4 DEF Frame, TypeOK
<1>7. ThreadIsSound(w)'
  BY <1>1, <1>2, <1>3, <1>4 DEF ThreadIsSound, TypeOK
<1>8. ASSUME u \notin disturbed
      PROVE  handle[w] = "live" /\ Nothing(u) /\ durable' = durable \cup Effects(u)
  BY <1>1, <1>2, <1>4, <1>8 DEF ProgressIsExact
<1>9. ProgressIsExact(w)'
  BY <1>1, <1>2, <1>3, <1>8 DEF ProgressIsExact, Everything, TypeOK
<1>10. TaskIsSound(u)'
  BY <1>2, <1>3, <1>8 DEF TaskIsSound
<1>11. NotTwice'
  BY <1>2, <1>3, <1>4, <1>8 DEF IInv, NotTwice
<1>12. Follows(u)
  <2>1. Effects(u) # {}
    BY <1>1, <1>2, EffectsOfStatements DEF ThreadIsSound
  <2>2. QED
    BY <1>2, <1>3, <1>8, <2>1 DEF Follows
<1>13. QED
  BY <1>5, <1>6, <1>7, <1>9, <1>10, <1>11, <1>12, Framed

(* The connection breaks: nothing is said of the task from here on, but    *)
(* the session is closed.                                                  *)
LEMMA BreakPreserves ==
    ASSUME IInv, NEW w \in Worker, LinkStep(w)
    PROVE  IInv' /\ \E u \in Task : Frame(w, u) /\ Follows(u)
<1>1. TypeOK /\ Break(w)
  BY DEF IInv, LinkStep, Reconnect, ReconnectRefused, ReconnectAborts
<1>2. pc[w] \in {"begin", "stmt", "commit", "rollback"}
  BY <1>1 DEF Break, Requesting
<1>3. PICK u \in Task :
        /\ u = task[w] /\ u # None
        /\ \A v \in Worker \ {w} : task[v] # u
        /\ ThreadIsSound(w) /\ ProgressIsExact(w) /\ TaskIsSound(u)
        /\ result[u] = "running"
  BY <1>2, Working
<1>4. /\ UNCHANGED <<task, pc, next, code, retrying, left, expired, lock, result>>
      /\ handle' \in [Worker -> {"live", "reopened", "null"}]
      /\ \A v \in Worker \ {w} : handle'[v] = handle[v]
      /\ aborted' \in BOOLEAN
  BY <1>1 DEF LinkStep, Reconnect, ReconnectRefused, ReconnectAborts, control, TypeOK
<1>5. /\ open' = [open EXCEPT ![w] = FALSE] /\ buffer' = [buffer EXCEPT ![w] = {}]
      /\ disturbed' = disturbed \cup {u} /\ losses' = losses + 1 /\ losses < MaxLosses
  BY <1>1, <1>3 DEF Break, LostRequest, CloseSession
<1>6. /\ durable \subseteq durable' /\ durable' \subseteq durable \cup Effects(u)
      /\ twice' \subseteq twice \cup {u}
  <2>1. buffer[w] \in SUBSET Effects(u)
    BY <1>3 DEF ThreadIsSound
  <2>2. pc[w] = "stmt" => {Statement(w)} \in SUBSET Effects(u)
    BY <1>3, EffectsOfOne DEF ThreadIsSound, Statement
  <2>3. \/ UNCHANGED <<durable, twice>>
        \/ Store(buffer[w])
        \/ pc[w] = "stmt" /\ Store({Statement(w)})
    BY <1>1 DEF Break, LostRequest
  <2>4. CASE UNCHANGED <<durable, twice>>
    BY <2>4
  <2>5. CASE Store(buffer[w])
    BY <2>1, <2>5, Stored
  <2>6. CASE pc[w] = "stmt" /\ Store({Statement(w)})
    BY <2>2, <2>6, Stored
  <2>7. QED
    BY <2>3, <2>4, <2>5, <2>6
<1>7. TypeOK'
  <2>1. losses' \in 0..MaxLosses
    BY <1>1, <1>5, ConstantsAssumption DEF TypeOK
  <2>2. durable' \subseteq Effect
    BY <1>1, <1>6, EffectsOfOne DEF TypeOK
  <2>3. QED
    BY <1>1, <1>3, <1>4, <1>5, <1>6, <2>1, <2>2 DEF TypeOK
<1>8. Frame(w, u)
  BY <1>1, <1>3, <1>4, <1>5, <1>6 DEF Frame, TypeOK
<1>9. ThreadIsSound(w)'
  BY <1>1, <1>2, <1>3, <1>4, <1>5 DEF ThreadIsSound, TypeOK
<1>10. ProgressIsExact(w)' /\ TaskIsSound(u)'
  BY <1>3, <1>4, <1>5 DEF ProgressIsExact, TaskIsSound
<1>11. NotTwice'
  BY <1>5, <1>6 DEF IInv, NotTwice
<1>12. Follows(u)
  BY <1>3, <1>5 DEF Follows
<1>13. QED
  BY <1>7, <1>8, <1>9, <1>10, <1>11, <1>12, Framed

(* A thread takes a task; the session it got back is empty. *)
LEMMA StartPreserves ==
    ASSUME IInv, NEW w \in Worker, NEW t \in Task, Start(w, t)
    PROVE  IInv' /\ \E u \in Task : Frame(w, u) /\ Follows(u)
<1>1. TypeOK /\ pc[w] = "idle" /\ result[t] = "new"
  BY DEF IInv, Start
<1>2. ThreadIsSound(w) /\ TaskIsSound(t) /\ task[w] = None
  BY <1>1 DEF IInv, ThreadIsSound
<1>3. /\ UNCHANGED <<next, retrying, left, expired, lock, open, buffer, durable, twice>>
      /\ UNCHANGED <<handle, losses, aborted>>
      /\ task' = [task EXCEPT ![w] = t] /\ result' = [result EXCEPT ![t] = "running"]
      /\ disturbed' = IF handle[w] = "live" THEN disturbed ELSE disturbed \cup {t}
  BY DEF Start, server
<1>4. \/ /\ Queries[t] = <<>>
         /\ pc' = [pc EXCEPT ![w] = "tried"] /\ code' = [code EXCEPT ![w] = "error"]
      \/ /\ Queries[t] # <<>>
         /\ pc' = [pc EXCEPT ![w] = "begin"] /\ code' = code
  BY DEF Start, TryExecute, GoTo
<1>5. TypeOK'
  BY <1>1, <1>3, <1>4 DEF TypeOK, Result
<1>6. ASSUME NEW v \in Worker, v # w
      PROVE  task[v] # t
  <2>1. ThreadIsSound(v)
    BY DEF IInv
  <2>2. QED
    BY <1>1, <2>1, ConstantsAssumption DEF ThreadIsSound
<1>7. Frame(w, t)
  BY <1>1, <1>2, <1>3, <1>4, <1>6 DEF Frame, TypeOK
<1>8. t # None
  BY ConstantsAssumption
<1>9. ThreadIsSound(w)'
  BY <1>1, <1>2, <1>3, <1>4, <1>8 DEF ThreadIsSound, TypeOK
<1>10. t \notin disturbed' => handle[w] = "live" /\ Nothing(t) /\ t \notin disturbed
  BY <1>1, <1>2, <1>3 DEF TaskIsSound
<1>11. ProgressIsExact(w)'
  <2>1. SUFFICES ASSUME t \notin disturbed'
                 PROVE  ProgressIsExact(w)'
    BY <1>1, <1>3 DEF ProgressIsExact, TypeOK
  <2>2. task'[w] = t /\ handle'[w] = "live" /\ Nothing(t)'
    BY <1>1, <1>3, <1>10, <2>1 DEF Nothing, TypeOK
  <2>3. (Nothing(task[w]))'
    BY <2>2 DEF Nothing
  <2>4. pc'[w] = "begin" \/ (pc'[w] = "tried" /\ code'[w] = "error")
    BY <1>1, <1>4 DEF TypeOK
  <2>5. QED
    BY <2>2, <2>3, <2>4 DEF ProgressIsExact
<1>12. TaskIsSound(t)'
  BY <1>1, <1>3 DEF TaskIsSound, TypeOK
<1>13. NotTwice'
  BY <1>3 DEF IInv, NotTwice
<1>14. Follows(t)
  BY <1>1, <1>3 DEF Follows, TypeOK
<1>15. QED
  BY <1>5, <1>7, <1>9, <1>11, <1>12, <1>13, <1>14, Framed

(* The ways to report a task, with what is known of it. *)
LEMMA Reported ==
    ASSUME IInv, NEW w \in Worker,
           Succeed(w) \/ FailTask(w) \/ TimeUp(w) \/ FinishDirect(w)
    PROVE  /\ pc[w] = "tried"
           /\ \E r \in {"true", "false", "void"} :
                 /\ Report(w, r)
                 /\ task[w] \notin disturbed =>
                       /\ r = "true" => Everything(task[w]) /\ Effects(task[w]) # {}
                       /\ r = "false" => Nothing(task[w])
                       /\ r = "void" => Nothing(task[w]) \/ Everything(task[w])
<1>1. pc[w] = "tried"
  BY DEF Succeed, FailTask, TimeUp, FinishDirect, Tried
<1>2. task[w] \notin disturbed =>
         IF code[w] = "ok" THEN Everything(task[w]) ELSE Nothing(task[w])
  BY <1>1, Working DEF ProgressIsExact
<1>3. CASE Succeed(w)
  <2>1. code[w] = "ok" /\ Report(w, "true")
    BY <1>3 DEF Succeed
  <2>2. Effects(task[w]) # {}
    BY <1>1, <2>1, Working, EffectsOfStatements DEF ThreadIsSound
  <2>3. QED
    BY <1>1, <1>2, <2>1, <2>2
<1>4. CASE FailTask(w)
  BY <1>1, <1>2, <1>4 DEF FailTask
<1>5. CASE TimeUp(w)
  BY <1>1, <1>2, <1>5 DEF TimeUp
<1>6. CASE FinishDirect(w)
  BY <1>1, <1>2, <1>6 DEF FinishDirect
<1>7. QED
  BY <1>3, <1>4, <1>5, <1>6

LEMMA ReportPreserves ==
    ASSUME IInv, NEW w \in Worker,
           Succeed(w) \/ FailTask(w) \/ TimeUp(w) \/ FinishDirect(w)
    PROVE  IInv' /\ \E u \in Task : Frame(w, u) /\ Follows(u)
<1>1. TypeOK /\ pc[w] = "tried"
  BY Reported DEF IInv
<1>2. PICK u \in Task :
        /\ u = task[w] /\ u # None
        /\ \A v \in Worker \ {w} : task[v] # u
        /\ ThreadIsSound(w) /\ ProgressIsExact(w) /\ TaskIsSound(u)
        /\ result[u] = "running"
  BY <1>1, Working
<1>3. PICK r \in {"true", "false", "void"} :
        /\ Report(w, r)
        /\ u \notin disturbed =>
              /\ r = "true" => Everything(u) /\ Effects(u) # {}
              /\ r = "false" => Nothing(u)
              /\ r = "void" => Nothing(u) \/ Everything(u)
  BY <1>2, Reported
<1>4. /\ UNCHANGED <<open, buffer, durable, twice, handle, losses, aborted, disturbed>>
      /\ result' = [result EXCEPT ![u] = r]
      /\ task' = [task EXCEPT ![w] = None]
      /\ pc' = [pc EXCEPT ![w] = "idle"]
      /\ retrying' = [retrying EXCEPT ![w] = FALSE]
      /\ lock' = IF lock = w THEN None ELSE lock
      /\ left' = [left EXCEPT ![w] = 0]
      /\ expired' = [expired EXCEPT ![w] = FALSE]
      /\ next' = [next EXCEPT ![w] = 1]
      /\ code' = [code EXCEPT ![w] = "ok"]
  BY <1>2, <1>3 DEF Report, GoTo, server, link
<1>5. TypeOK'
  <2>1. 0 \in 0..LoopBreaker
    BY ConstantsAssumption
  <2>2. QED
    BY <1>1, <1>4, <2>1 DEF TypeOK, Result
<1>6. Frame(w, u)
  BY <1>1, <1>2, <1>4 DEF Frame, TypeOK
<1>7. ThreadIsSound(w)'
  BY <1>1, <1>2, <1>4 DEF ThreadIsSound, TypeOK
<1>8. ProgressIsExact(w)'
  BY <1>1, <1>4 DEF ProgressIsExact, TypeOK
<1>9. TaskIsSound(u)'
  BY <1>1, <1>2, <1>3, <1>4 DEF TaskIsSound, Nothing, Everything, TypeOK
<1>10. NotTwice'
  BY <1>4 DEF IInv, NotTwice
<1>11. Follows(u)
  BY <1>1, <1>2, <1>3, <1>4 DEF Follows, TypeOK
<1>12. QED
  BY <1>5, <1>6, <1>7, <1>8, <1>9, <1>10, <1>11, Framed

-----------------------------------------------------------------------------
LEMMA InitIInv == Init => IInv
<1>1. SUFFICES ASSUME Init PROVE IInv
  OBVIOUS
<1>2. TypeOK
  <2>1. 0 \in 0..LoopBreaker /\ 0 \in 0..MaxLosses /\ 1 \in Nat
    BY ConstantsAssumption
  <2>2. /\ task \in [Worker -> Task \cup {None}]
        /\ next \in [Worker -> Nat]
        /\ left \in [Worker -> 0..LoopBreaker]
        /\ losses \in 0..MaxLosses
        /\ lock \in Worker \cup {None}
    BY <1>1, <2>1 DEF Init
  <2>3. /\ retrying \in [Worker -> BOOLEAN]
        /\ expired \in [Worker -> BOOLEAN]
        /\ open \in [Worker -> BOOLEAN]
        /\ aborted \in BOOLEAN
    BY <1>1 DEF Init
  <2>4. QED
    BY <1>1, <2>2, <2>3 DEF Init, TypeOK, Result
<1>3. ASSUME NEW w \in Worker
      PROVE  ThreadIsSound(w) /\ ProgressIsExact(w)
  BY <1>1, ConstantsAssumption DEF Init, ThreadIsSound, ProgressIsExact
<1>4. ASSUME NEW t \in Task
      PROVE  TaskIsSound(t)
  BY <1>1, ConstantsAssumption DEF Init, TaskIsSound, Nothing
<1>5. OneThreadEach /\ NotTwice
  BY <1>1, ConstantsAssumption DEF Init, OneThreadEach, NotTwice
<1>6. QED
  BY <1>2, <1>3, <1>4, <1>5 DEF IInv

LEMMA NextIInv == IInv /\ [Next]_vars => IInv'
<1>1. SUFFICES ASSUME IInv, [Next]_vars PROVE IInv'
  OBVIOUS
<1>2. CASE UNCHANGED vars
  BY <1>1, <1>2
  DEF vars, control, server, link, IInv, TypeOK, ThreadIsSound, ProgressIsExact, TaskIsSound,
      OneThreadEach, NotTwice, Nothing, Everything
<1>3. ASSUME NEW w \in Worker, ThreadStep(w)
      PROVE  IInv'
  BY <1>1, <1>3, BeginPreserves, StatementPreserves, FailPreserves, CommitPreserves,
     RollbackPreserves, LocalPreserves, ReportPreserves DEF ThreadStep
<1>4. ASSUME NEW w \in Worker, LinkStep(w)
      PROVE  IInv'
  BY <1>1, <1>4, BreakPreserves
<1>5. ASSUME NEW w \in Worker, ClockPasses(w)
      PROVE  IInv'
  BY <1>1, <1>5, LocalPreserves
<1>6. ASSUME NEW w \in Worker, NEW t \in Task, Start(w, t)
      PROVE  IInv'
  BY <1>1, <1>6, StartPreserves
<1>7. QED
  BY <1>1, <1>2, <1>3, <1>4, <1>5, <1>6 DEF Next, Step, Terminated

LEMMA Invariance == Spec => []IInv
BY InitIInv, NextIInv, PTL DEF Spec

(* The model never leaves its state space, whatever the connections do.    *)
THEOREM TypeCorrect == Spec => []TypeOK
<1>1. IInv => TypeOK
  BY DEF IInv
<1>2. QED
  BY <1>1, Invariance, PTL

(* A transaction whose connection never broke is durable as a whole or not *)
(* at all, through any number of deadlocks, statement errors and retries.  *)
THEOREM AllOrNothing == Spec => []Atomic
<1>1. ASSUME IInv, NEW t \in Task \ disturbed
      PROVE  Nothing(t) \/ Everything(t)
  <2>1. TaskIsSound(t) /\ result[t] \in Result
    BY <1>1 DEF IInv, TypeOK
  <2>2. CASE result[t] = "running"
    <3>1. PICK w \in Worker : task[w] = t
      BY <2>1, <2>2 DEF TaskIsSound
    <3>2. ThreadIsSound(w) /\ ProgressIsExact(w) /\ pc[w] # "idle" /\ pc[w] \in
            {"idle", "begin", "stmt", "commit", "rollback", "tried", "lock"}
      BY <1>1, <3>1, ConstantsAssumption DEF IInv, TypeOK, ThreadIsSound
    <3>3. QED
      BY <1>1, <3>1, <3>2, ConstantsAssumption DEF ProgressIsExact
  <2>3. QED
    BY <1>1, <2>1, <2>2 DEF TaskIsSound, Result
<1>2. IInv => Atomic
  BY <1>1 DEF Atomic, Nothing, Everything
<1>3. QED
  BY <1>2, Invariance, PTL

(* Such a transaction is reported as what became of it: TransactionTask's  *)
(* promise is true only if it committed and false only if nothing did.     *)
THEOREM ReportsAreTrue == Spec => []Truthful
<1>1. IInv => Truthful
  BY DEF IInv, Truthful, TaskIsSound, Nothing, Everything
<1>2. QED
  BY <1>1, Invariance, PTL

(* No statement of a retried transaction takes effect twice unless its     *)
(* connection broke: ExecuteTransaction rolls back before it returns.      *)
THEOREM NoStatementTwice == Spec => []NotTwice
<1>1. IInv => NotTwice
  BY DEF IInv
<1>2. QED
  BY <1>1, Invariance, PTL

(* Whatever breaks, a thread leaves no open transaction on the connection  *)
(* in which the statements of the next operation would vanish.             *)
THEOREM NothingIsLeftOpen == Spec => []NoLeftoverTransaction
<1>1. IInv => NoLeftoverTransaction
  BY DEF IInv, NoLeftoverTransaction, ThreadIsSound
<1>2. QED
  BY <1>1, Invariance, PTL

(* _deadlockLock lets one asynchronous thread at a time retry.             *)
THEOREM RetriesDoNotOverlap == Spec => []OneRetrier
<1>1. IInv => OneRetrier
  BY DEF IInv, OneRetrier, ThreadIsSound
<1>2. QED
  BY <1>1, Invariance, PTL

-----------------------------------------------------------------------------
(* The implementation of AtomicTransactions. *)

Seen(t) == IF t \in disturbed THEN "unknown" ELSE result[t]

LEMMA SeenOfOthers ==
    ASSUME NEW w \in Worker, NEW u \in Task, Frame(w, u), NEW t \in Task, t # u
    PROVE  Seen(t)' = Seen(t) /\ EffectOf(t)' = EffectOf(t)
<1>1. /\ t \in disturbed' <=> t \in disturbed
      /\ Effects(t) \cap durable' = Effects(t) \cap durable
      /\ Everything(t)' <=> Everything(t)
  BY FrameTasks
<1>2. Seen(t)' = Seen(t)
  BY <1>1 DEF Seen, Frame
<1>3. QED
  BY <1>1, <1>2 DEF EffectOf, Everything

Report_ == [t \in Task |-> Seen(t)]
Effect_ == [t \in Task |-> EffectOf(t)]

(* A step on u that does what u may do is a step of AtomicTransactions.    *)
LEMMA Simulation ==
    ASSUME NEW w \in Worker, NEW u \in Task, Frame(w, u), Follows(u)
    PROVE  [Promised!Next]_(Promised!vars)
<1>1. /\ Report_' = [Report_ EXCEPT ![u] = Seen(u)']
      /\ Effect_' = [Effect_ EXCEPT ![u] = EffectOf(u)']
      /\ Report_[u] = Seen(u) /\ Effect_[u] = EffectOf(u)
  BY SeenOfOthers DEF Report_, Effect_
<1>2. /\ Seen(u)' = Seen(u) => Report_' = Report_
      /\ EffectOf(u)' = EffectOf(u) => Effect_' = Effect_
  BY <1>1 DEF Report_, Effect_
<1>3. CASE u \in disturbed
  <2>1. Seen(u)' = Seen(u) /\ EffectOf(u)' = EffectOf(u)
    BY <1>3 DEF Frame, Seen, EffectOf
  <2>2. QED
    BY <1>2, <2>1 DEF Promised!vars, Report_, Effect_, Seen
<1>4. ASSUME durable' = durable, u \notin disturbed, u \notin disturbed'
      PROVE  Effect_' = Effect_ /\ Report_[u] = result[u] /\ Seen(u)' = result'[u]
  BY <1>1, <1>2, <1>4 DEF EffectOf, Seen
<1>5. CASE /\ u \notin disturbed
           /\ result'[u] = result[u] /\ durable' = durable /\ u \notin disturbed'
  <2>1. Effect_' = Effect_ /\ Report_' = Report_
    BY <1>1, <1>2, <1>4, <1>5
  <2>2. QED
    BY <2>1 DEF Promised!vars, Report_, Effect_, Seen
<1>6. CASE /\ u \notin disturbed
           /\ result[u] = "new" /\ result'[u] = "running"
           /\ durable' = durable /\ u \notin disturbed'
  <2>1. /\ Report_[u] = "new" /\ Report_' = [Report_ EXCEPT ![u] = "running"]
        /\ Effect_' = Effect_
    BY <1>1, <1>4, <1>6
  <2>2. Promised!Start(u)
    BY <2>1 DEF Promised!Start, Report_, Effect_, Seen
  <2>3. QED
    BY <2>2 DEF Promised!Next
<1>7. CASE /\ u \notin disturbed
           /\ result[u] = "running" /\ result'[u] = "running"
           /\ Nothing(u) /\ Effects(u) # {}
           /\ durable' = durable \cup Effects(u) /\ u \notin disturbed'
  <2>1. EffectOf(u) = "none" /\ EffectOf(u)' = "all"
    BY <1>7 DEF EffectOf, Nothing
  <2>2. Seen(u) = "running" /\ Seen(u)' = "running"
    BY <1>7 DEF Seen
  <2>3. /\ Report_[u] = "running" /\ Effect_[u] = "none"
        /\ Effect_' = [Effect_ EXCEPT ![u] = "all"] /\ Report_' = Report_
    BY <1>1, <1>2, <2>1, <2>2
  <2>4. Promised!TakeEffect(u)
    BY <2>3 DEF Promised!TakeEffect, Report_, Effect_, Seen
  <2>5. QED
    BY <2>4 DEF Promised!Next
<1>8. CASE /\ u \notin disturbed
           /\ result[u] = "running" /\ result'[u] \in {"true", "false", "void"}
           /\ result'[u] = "true" => Everything(u) /\ Effects(u) # {}
           /\ result'[u] = "false" => Nothing(u)
           /\ durable' = durable /\ u \notin disturbed'
  <2>1. PICK r \in {"true", "false", "void"} : r = result'[u]
    BY <1>8
  <2>2. /\ r = "true" => EffectOf(u) = "all"
        /\ r = "false" => EffectOf(u) = "none"
    BY <1>8, <2>1 DEF EffectOf, Nothing, Everything
  <2>3. /\ Report_[u] = "running" /\ Report_' = [Report_ EXCEPT ![u] = r]
        /\ Effect_' = Effect_
        /\ r = "true" => Effect_[u] = "all"
        /\ r = "false" => Effect_[u] = "none"
    BY <1>1, <1>4, <1>8, <2>1, <2>2
  <2>4. Promised!Report(u, r)
    BY <2>3 DEF Promised!Report, Report_, Effect_, Seen
  <2>5. QED
    BY <2>4 DEF Promised!Next
<1>9. CASE /\ u \notin disturbed
           /\ result[u] \in {"new", "running"} /\ u \in disturbed'
  <2>1. Seen(u) \in {"new", "running"} /\ Seen(u)' = "unknown" /\ EffectOf(u)' = "unknown"
    BY <1>9 DEF Seen, EffectOf
  <2>2. /\ Report_[u] \in {"new", "running"}
        /\ Report_' = [Report_ EXCEPT ![u] = "unknown"]
        /\ Effect_' = [Effect_ EXCEPT ![u] = "unknown"]
    BY <1>1, <2>1
  <2>3. Promised!LoseTrack(u)
    BY <2>2 DEF Promised!LoseTrack, Report_, Effect_, Seen
  <2>4. QED
    BY <2>3 DEF Promised!Next
<1>10. QED
  BY <1>3, <1>5, <1>6, <1>7, <1>8, <1>9 DEF Follows

(* Executing transactions as MySQLConnection, TransactionTask and          *)
(* DirectCommitTransaction do implements the atomic transactions a caller  *)
(* has in mind.                                                            *)
THEOREM Implementation == Spec => ImplementsAtomic
<1>1. Init => Promised!Init
  BY DEF Init, Promised!Init, EffectOf
<1>2. IInv /\ [Next]_vars => [Promised!Next]_(Promised!vars)
  <2>1. SUFFICES ASSUME IInv, [Next]_vars PROVE [Promised!Next]_(Promised!vars)
    OBVIOUS
  <2>2. CASE UNCHANGED vars
    BY <2>2 DEF vars, control, server, link, Promised!vars, EffectOf
  <2>3. ASSUME NEW w \in Worker, ThreadStep(w)
        PROVE  [Promised!Next]_(Promised!vars)
    <3>1. \E u \in Task : Frame(w, u) /\ Follows(u)
      BY <2>1, <2>3, BeginPreserves, StatementPreserves, FailPreserves, CommitPreserves,
         RollbackPreserves, LocalPreserves, ReportPreserves DEF ThreadStep
    <3>2. QED
      BY <3>1, Simulation
  <2>4. ASSUME NEW w \in Worker, LinkStep(w)
        PROVE  [Promised!Next]_(Promised!vars)
    BY <2>1, <2>4, BreakPreserves, Simulation
  <2>5. ASSUME NEW w \in Worker, ClockPasses(w)
        PROVE  [Promised!Next]_(Promised!vars)
    BY <2>1, <2>5, LocalPreserves, Simulation
  <2>6. ASSUME NEW w \in Worker, NEW t \in Task, Start(w, t)
        PROVE  [Promised!Next]_(Promised!vars)
    BY <2>1, <2>6, StartPreserves, Simulation
  <2>7. QED
    BY <2>1, <2>2, <2>3, <2>4, <2>5, <2>6 DEF Next, Step, Terminated
<1>3. QED
  BY <1>1, <1>2, Invariance, PTL DEF Spec, ImplementsAtomic, Promised!Spec
=============================================================================
