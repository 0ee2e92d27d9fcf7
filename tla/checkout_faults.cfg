SPECIFICATION FairSpec
CONSTANTS
    u1 = u1
    u2 = u2
    ghost = ghost
    cup = cup
    cap = cap
    none = none
    r1 = r1
    r2 = r2
    Handlers = {h1, h2}
    Users = {u1, u2}
    Merch = {cup, cap}
    Jobs <- MCJobs
    Balances = {4}
    Nobody = Nobody
    FaultyCalls = {"GetRequest", "SetRequest", "SetLock", "GetMerch", "GetPrice", "GetBalance", "Send", "Undo"}
    MaxFaults = 1
INVARIANTS
    TypeOK
    NothingLeftBehind
PROPERTY EveryRequestAnswered
CHECK_DEADLOCK FALSE
