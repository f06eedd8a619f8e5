SPECIFICATION Spec
CONSTANTS
    None = None
    c1 = c1
    c2 = c2
    Commands = {c1, c2}
    Symbols = {"baseline", "reviewed", "open"}
    Reviewed = {"baseline", "reviewed"}
    Baseline = {"baseline"}
    Prepared = {"open"}
    MaxEdits = 3
    MaxCrashes = 1
SYMMETRY Symmetry
INVARIANTS
    WholePairsOnly
    RerunIsStable
PROPERTIES
    NoEditLost
CHECK_DEADLOCK FALSE
