SPECIFICATION Spec
CONSTANTS
    r1 = r1
    r2 = r2
    i1 = i1
    i2 = i2
    NoId = NoId
    NoRun = NoRun
    Stray = Stray
    Runs = {r1, r2}
    Ids = {i1, i2}
    MaxAttempts = 2
    Policies = {"KeepAlways", "DeleteOnSuccess", "DeleteAlways"}
    Timed = {}
    KillOutcomes = {"tree", "throws"}
    Helpers = FALSE
    MaxFaults = 1
SYMMETRY Symmetry
INVARIANTS
    DirectoriesSound
    MarkersAccountedFor
