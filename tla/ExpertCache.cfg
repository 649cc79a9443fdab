\* The union of a batch fits the cache.
SPECIFICATION Spec
CONSTANTS
    Cap = 3
    Expert = {0, 1, 2, 3, 4}
    MaxUnion = 3
    MaxClock = 6
INVARIANTS
    TypeOK
    BatchIntact
    HoldsTheRecent
CHECK_DEADLOCK FALSE
