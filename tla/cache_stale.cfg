SPECIFICATION Spec
CONSTANTS
    Handlers = {h1, h2}
    TTL = 3
    MaxDelay = 1
    MaxTime = 6
    MaxChanges = 2
SYMMETRY AnyOrder
INVARIANTS
    TypeOK
    BoundedStaleness
CHECK_DEADLOCK FALSE
