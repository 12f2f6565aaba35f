SPECIFICATION Spec
CONSTANTS
    v = v
    w = w
    t1 = t1
    t2 = t2
    t3 = t3
    t4 = t4
    None = None
    Worker <- MCWorker
    Task <- MCTask
    Queries <- MCQueries
    Direct <- MCDirect
    LoopBreaker = 2
    MaxLosses = 1
INVARIANTS
    AlwaysAtomic
