SPECIFICATION Spec
CONSTANTS
    c0 = c0
    c1 = c1
    op1 = op1
    op2 = op2
    op3 = op3
    None = None
    Static <- MCStatic
    Dynamic <- MCDynamic
    Operation <- MCOperation
    MaxAsyncQueueSize = 2
    MaxAsyncConnections = 2
INVARIANTS
    CloseIsAlone
