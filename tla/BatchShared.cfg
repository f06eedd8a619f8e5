CONSTANTS
    Runs = {r1, r2}
    NoRun = NoRun
    NumCases = 2
    Parallelism = 1
    Weathers = {summer}
    NoWeather = NoWeather
    UseCache = TRUE
    WriteOutputs = TRUE
    MaxEdits = 0
    MaxFaults = 0
    MaxCorruptions = 1
SPECIFICATION FairSpec
INVARIANTS
    CachedBySuccess
    HitsHaveAnOrigin
PROPERTIES
    RunEnds
CHECK_DEADLOCK FALSE
