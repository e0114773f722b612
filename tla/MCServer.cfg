SPECIFICATION FairSpec
CONSTANTS
    Requests = {r1}
    Probes = {p1, p2}
    ReadTimeout = 3
    SaveTimeout = 4
    ProbeTimeout = 1
    ShutdownTimeout = 6
CHECK_DEADLOCK FALSE
INVARIANTS TypeOK ExitClosesBackend OnlyLateOnClosedBackend
PROPERTIES CloseKeepsMargin ServingSignalEndsProcess GaugeFollowsBackend
