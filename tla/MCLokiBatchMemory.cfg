SPECIFICATION FairSpec
CONSTANTS
    Entries = {e1, e2, e3}
    Unconvertible = {e3}
    Modes = {TRUE, FALSE}
    UseWAL = FALSE
    CompactAt = 100
    Faults <- NoFaults
    BatchSize = 2
    QueueCap = 1
    FlushCap = 1
    MaxRetries = 1
    SlowSaves = FALSE
INVARIANTS TypeOK NoSilentLoss CleanStopDrains
PROPERTIES EveryAlertResolved KeepsPromises
