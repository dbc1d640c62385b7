SPECIFICATION Spec
CONSTANTS
    Workers = {w1}
    Resolutions = {"resolved"}
    MaxTroubles = 0
    MaxQueued = 1
CHECK_DEADLOCK FALSE
INVARIANTS
    OnlyChangesAreQuarantined
