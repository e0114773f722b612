SPECIFICATION FairSpec
CONSTANTS
    Entries = {e1, e2}
    Unconvertible = {e2}
    Modes = {TRUE}
    UseWAL = TRUE
    CompactAt = 100
    Faults <- AbandonOrSync
    BatchSize = 2
    QueueCap = 1
    FlushCap = 1
    MaxRetries = 1
    SlowSaves = TRUE
INVARIANTS EveryRecordTracked OnlyCancelledStall
PROPERTIES SettledForAReason ImplementsWal EveryAlertResolved KeepsPromises StopReturns
