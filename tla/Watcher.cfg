SPECIFICATION FairSpec
CONSTANTS
    Workers = {w1, w2}
    Resolutions = {"resolved"}
    MaxTroubles = 1
    MaxQueued = 2
CHECK_DEADLOCK FALSE
INVARIANTS
    TypeOK
    DamageIsQuarantined
    RecordQuarantineIsEarned
PROPERTIES
    DamageIsFound
