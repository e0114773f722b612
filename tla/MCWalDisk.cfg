SPECIFICATION Spec
CONSTANTS
    Entries = {e1, e2, e3, e4}
    CompactAt = 1
    Faults <- AllFaults
SYMMETRY EntrySymmetry
INVARIANTS TypeOK
PROPERTIES DiskNeverRegresses
