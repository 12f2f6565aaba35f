------------------------- MODULE MCAsyncWorkerPool -------------------------
(* AsyncWorkerPool for TLC: one static connection, one dynamic one, three  *)
(* operations and a queue limit of two (the code's minimum is ten).        *)
EXTENDS AsyncWorkerPool
CONSTANTS c0, c1, op1, op2, op3
MCStatic == {c0}
MCDynamic == {c1}
MCOperation == {op1, op2, op3}
=============================================================================
