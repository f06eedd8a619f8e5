SPECIFICATION Spec
CONSTANTS
    Days = {1, 2, 3}
    Steps = {1, 2}
    Weekday = {"monday", "tuesday"}
    Weekend = {"saturday", "sunday"}
    Operands <- MCOperands
    Numbers = {0, 1, 2}
    MaxOperations = 2
INVARIANTS
    ScheduleSound
PROPERTY
    ImplementsYear
CHECK_DEADLOCK FALSE
