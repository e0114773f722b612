SPECIFICATION Spec
CONSTANTS
    Times <- FourTimes
    MaxLen = 4
CHECK_DEADLOCK FALSE
INVARIANTS TypeOK StrictlyIncreasing OrderKept LeastDrift
