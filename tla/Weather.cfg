SPECIFICATION Spec
CONSTANTS
    Processes = {rhino, other}
    Running = {rhino}
    NoProcess = nobody
    Files = {seoul, busan}
    Packed <- MCPacked
    Requests <- MCRequests
    MaxCalls = 2
    MaxFaults = 1
    MaxCrashes = 1
    MaxDamages = 1
    seoul = seoul
    busan = busan
INVARIANTS
    TypeOK
    HandedOutStays
    NoLitter
PROPERTY
    ResolveEnds
CHECK_DEADLOCK FALSE
