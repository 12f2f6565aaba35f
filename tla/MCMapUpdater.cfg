SPECIFICATION Spec
CONSTANTS
    w1 = w1
    w2 = w2
    world = world
    dungeon = dungeon
    inst1 = inst1
    inst2 = inst2
    Lfg = Lfg
    None = None
    Thread <- MCThread
    BaseMap <- MCBaseMap
    Category <- MCCategory
    Instance <- MCInstance
    Owner <- MCOwner
    Diff <- MCDiff
    Interval = 4
INVARIANTS
    TypeOK
    Barrier
    OneUpdatePerMap
    RequestsTargetLiveMaps
    TimeIsConserved
    BoundedStaleness
PROPERTIES
    TickEnds
    StopReturns
