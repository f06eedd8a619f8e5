SPECIFICATION Spec
CONSTANTS
    None = None
    a1 = a1
    a2 = a2
    p1 = p1
    p2 = p2
    Assertions = {a1, a2}
    ProjectOrder <- MCProjectOrder
    Owner <- MCOwner
    Receipts <- MCReceipts
    Equivalent <- MCEquivalent
    BoundTests <- MCBoundTests
    Possible = {"expected", "skipped"}
    Undecided = {1}
    MaxMoves = 2
    MaxStrays = 1
INVARIANTS
    SealedSound
    SealedAsRun
PROPERTIES
    PassIsEarned
    GateEnds
CHECK_DEADLOCK FALSE
