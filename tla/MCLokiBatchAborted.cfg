SPECIFICATION Spec
CONSTANTS
    Entries = {e1, e2}
    Unconvertible = {}
    Modes = {TRUE}
    UseWAL = TRUE
    CompactAt = 100
    Faults <- AbandonOrSync
    BatchSize = 1
    QueueCap = 1
    FlushCap = 1
    MaxRetries = 1
    SlowSaves = FALSE
SYMMETRY EntrySymmetry
INVARIANTS IncompleteDrainIsReplayed
