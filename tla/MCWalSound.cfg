SPECIFICATION SoundSpec
CONSTANTS
    Entries = {e1, e2, e3, e4, e5}
    CompactAt = 1
    Faults <- NothingForgotten
SYMMETRY EntrySymmetry
CHECK_DEADLOCK FALSE
INVARIANTS Durable NoStall NothingLeftToSettle
PROPERTIES ForgetsOnlySettled
