-------------------------- MODULE MCSqlTransaction --------------------------
(* SqlTransaction for TLC: two threads; an asynchronous transaction of two *)
(* statements, another of one, a direct one and an empty one.              *)
EXTENDS SqlTransaction
CONSTANTS v, w, t1, t2, t3, t4
MCWorker == {v, w}
MCTask == {t1, t2, t3, t4}
MCQueries ==
    [t \in MCTask |-> CASE t = t1 -> <<"raw", "prepared">>
                        [] t = t2 -> <<"prepared">>
                        [] t = t3 -> <<"prepared">>
                        [] t = t4 -> <<>>]
MCDirect == {t3}
=============================================================================
