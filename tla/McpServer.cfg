SPECIFICATION Spec
CONSTANTS
    e1 = e1
    e2 = e2
    None = None
    NumRequests = 2
    NumCalls = 4
    NumEvents = 4
    NumOpen = 2
    Tools <- MCTools
    Modes = {"deterministic", "stateful"}
    Endpoints = {e1, e2}
    Defined <- MCDefined
    Codes = {0}
    Headers = {103}
    LogCapacity = 1
INVARIANTS
    TypeOK
    OneShot
    NextRequestOverridden
    AnsweredIsLogged
    LogTellsStatus
    SimulatedLeavesState
    SingleInstance
    CleanStopDrains
    ManagesOnceStateful
    ReportsOwnServer
PROPERTY EveryCallAnswered
\* every call and every request ends, then the run is over
CHECK_DEADLOCK FALSE
