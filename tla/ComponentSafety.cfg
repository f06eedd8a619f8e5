SPECIFICATION Spec
CONSTANTS
    k1 = k1
    k2 = k2
    NoKey = NoKey
    Keys = {k1, k2}
    Paths = {"blank", "file"}
    MaxPresses = 2
    MaxEdits = 1
    MaxRemovals = 0
    MaxFaults = 1
SYMMETRY Symmetry
INVARIANTS
    ShownForTheseInputs
    OnePressOneRun
    SavedWhenSaid
