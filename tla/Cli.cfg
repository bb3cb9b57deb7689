SPECIFICATION Spec
CONSTANTS
    Requests = {r1, r2}
    Ports = {0, 8080, 65536}
    Limits = {0, 1}
    MaxPort = 65535
    Versions <- MCVersions
    Dev = Dev
    Unparsable = Unparsable
    MaxSignals = 2
    Killed = Killed
    None = None
INVARIANTS
    CleanExit
PROPERTIES
    SignalEnds
    ServesWithoutGitHub
\* the process exits
CHECK_DEADLOCK FALSE
