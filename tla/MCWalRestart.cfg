SPECIFICATION Spec
CONSTANTS
    Entries = {e1, e2}
    CompactAt = 0
    Faults <- NoFaults
SYMMETRY EntrySymmetry
INVARIANTS Durable
