CONSTANTS
    Drivers = {d1, d2}
    Remote = {d2}
    KeepData = {d2}
    None = None
SPECIFICATION Spec
INVARIANTS
    LeavesNothing
    CodeTellsServer
CHECK_DEADLOCK FALSE
