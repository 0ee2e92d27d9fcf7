SPECIFICATION Spec
CONSTANTS
    u1 = u1
    u2 = u2
    ghost = ghost
    cup = cup
    cap = cap
    none = none
    r1 = r1
    r2 = r2
    Handlers = {h1, h2}
    Users = {u1, u2}
    Merch = {cup, cap}
    Jobs <- RetryJobs
    Balances = {0, 5}
    Nobody = Nobody
    FaultyCalls = {}
    MaxFaults = 0
INVARIANT RefusedAsProcessedWasSent
CHECK_DEADLOCK FALSE
