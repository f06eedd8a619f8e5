CONSTANTS
    Runs = {r1}
    NoRun = NoRun
    NumCases = 3
    Parallelism = 3
    Weathers = {summer, winter}
    NoWeather = NoWeather
    UseCache = TRUE
    WriteOutputs = TRUE
    MaxEdits = 1
    MaxFaults = 1
    MaxCorruptions = 0
SPECIFICATION Spec
INVARIANTS
    TypeOK
    TallyCorrect
PROPERTIES
    ImplementsBoard
CHECK_DEADLOCK FALSE
