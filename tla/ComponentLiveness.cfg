SPECIFICATION FairSpec
CONSTANTS
    k1 = k1
    NoKey = NoKey
    Keys = {k1}
    Paths = {"file", "bad"}
    MaxPresses = 1
    MaxEdits = 0
    MaxRemovals = 1
    MaxFaults = 1
INVARIANTS
    DisplaySound
PROPERTIES
    Settles
