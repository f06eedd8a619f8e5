SPECIFICATION FairSpec
CONSTANTS
    r1 = r1
    i1 = i1
    i2 = i2
    NoId = NoId
    NoRun = NoRun
    Stray = Stray
    Runs = {r1}
    Ids = {i1, i2}
    MaxAttempts = 2
    Policies = {"KeepAlways", "DeleteOnSuccess", "DeleteAlways"}
    Timed = {r1}
    KillOutcomes = {"tree", "child", "nothing", "throws"}
    Helpers = TRUE
    MaxFaults = 2
INVARIANTS
    VerdictEarned
    NothingLeftRunning
PROPERTIES
    RunsEnd
