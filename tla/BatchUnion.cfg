\* The union of a batch is larger than the cache.
SPECIFICATION Spec
CONSTANTS
    Cap = 2
    Expert = {0, 1, 2, 3}
    MaxUnion = 3
    MaxClock = 6
INVARIANT
    BatchIntact
CHECK_DEADLOCK FALSE
