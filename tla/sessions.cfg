SPECIFICATION Spec
CONSTANTS
    Clients = {c1, c2}
    Users = {u1, u2}
    NoToken = NoToken
    TTL = 2
    MaxDelay = 1
    MaxTime = 3
    MaxFaults = 1
SYMMETRY AnyOrder
INVARIANT TypeOK
PROPERTIES
    RefusedForCause
    ReplacedStaysReplaced
CHECK_DEADLOCK FALSE
