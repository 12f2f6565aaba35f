SPECIFICATION Spec
CONSTANTS
    a1 = a1
    a2 = a2
    a3 = a3
    k0 = k0
    k1 = k1
    k2 = k2
    None = None
    Account <- MCAccount
    Session <- MCSession
    Owner <- MCOwner
    Privileged <- Nobody
    Limits = {0, 1, 2}
    Tolerance = TRUE
SYMMETRY Symmetry
CHECK_DEADLOCK FALSE
INVARIANTS
    TypeOK
    QueueIsListed
PROPERTIES
    PlacesAreUsed
    InTurn
