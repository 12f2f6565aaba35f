SPECIFICATION Spec
CONSTANTS
    s = s
    d1 = d1
    d2 = d2
    world = world
    t1 = t1
    t2 = t2
    None = None
    Static = s
    World = world
    Caller <- MCCaller
    Dynamic <- MCDynamic
    MaxSyncConnections = 2
INVARIANTS
    TypeOK
    LockedByItsUser
    FrontIsStatic
PROPERTIES
    SpinEnds
