------------------------- MODULE AtomicTransactions -------------------------
(***************************************************************************)
(* What a caller of the database layer may believe of a Transaction: it    *)
(* takes effect in one step or not at all, while it runs, and what is then *)
(* reported of it is what happened.  Nothing is promised of a transaction  *)
(* whose connection was disturbed: its report may be anything, and its     *)
(* effects are no longer followed.  SqlTransaction implements this.        *)
(***************************************************************************)
CONSTANT Task

VARIABLES
    report, \* what the caller knows of each task
    effect  \* how much of it is in the database: none or all

vars == <<report, effect>>

Init ==
    /\ report = [t \in Task |-> "new"]
    /\ effect = [t \in Task |-> "none"]

Start(t) ==
    /\ report[t] = "new"
    /\ report' = [report EXCEPT ![t] = "running"]
    /\ UNCHANGED effect

(* The only step at which effects appear: those of one task, all at once. *)
TakeEffect(t) ==
    /\ report[t] = "running" /\ effect[t] = "none"
    /\ effect' = [effect EXCEPT ![t] = "all"]
    /\ UNCHANGED report

Report(t, r) ==
    /\ report[t] = "running"
    /\ r = "true" => effect[t] = "all"
    /\ r = "false" => effect[t] = "none"
    /\ report' = [report EXCEPT ![t] = r]
    /\ UNCHANGED effect

(* The connection breaks under the task, or was broken when it began. *)
LoseTrack(t) ==
    /\ report[t] \in {"new", "running"}
    /\ report' = [report EXCEPT ![t] = "unknown"]
    /\ effect' = [effect EXCEPT ![t] = "unknown"]

Next ==
    \E t \in Task :
        \/ Start(t) \/ TakeEffect(t) \/ LoseTrack(t)
        \/ \E r \in {"true", "false", "void"} : Report(t, r)

Spec == Init /\ [][Next]_vars
=============================================================================
