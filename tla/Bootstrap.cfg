CONSTANTS
    Procs = {p1, p2}
    NoProc = NoProc
    InitialTargets = {"none", "file", "link", "foreign", "runtime"}
    AllowChoices = {TRUE, FALSE}
    MaxCalls = 2
    MaxFaults = 2
    MaxCrashes = 1
    MaxIntrusions = 1
SPECIFICATION FairSpec
INVARIANTS
    TypeOK
    SuccessDurable
    OnlyCallerFilesStay
    InstalledSurvivesTwoFaults
PROPERTIES
    ConsentRespected
    ForeignNeverLost
    ImplementsSlot
    CallsEnd
CHECK_DEADLOCK FALSE
