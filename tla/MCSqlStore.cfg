SPECIFICATION FairSpec
CONSTANTS
    Dialects = {"mysql", "postgres"}
    Saves <- TwoSaves
    Groups <- SameLabels
    MaxOpenConns = 2
    MaxRetries = 2
    Faults <- AllFaults
CHECK_DEADLOCK FALSE
INVARIANTS TypeOK StoredOnce ReferencesExist NoLockCycle LocksBelongToTransactions
PROPERTIES EverySaveReturns KeepsPromises
