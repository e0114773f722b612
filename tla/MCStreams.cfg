SPECIFICATION Spec
CONSTANTS
    Groups <- FourGroups
    Data <- Samples
    Allowed <- Clusters
    NameOrder <- Names
    ValidNames <- GoodNames
    Times <- Instants
    BatchSize = 3
    Legacy <- First
INVARIANTS TypeOK NoPoisonedPush FiledByItsLabels EveryRowKept StoredExactlyOnce
