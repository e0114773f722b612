SPECIFICATION FairSpec
CONSTANTS
    Requests = {r1}
    Probes = {p1}
    ReadTimeout = 3
    SaveTimeout = 4
    ProbeTimeout = 1
    ShutdownTimeout = 6
CHECK_DEADLOCK FALSE
PROPERTIES SignalEndsProcess
