SPECIFICATION Spec
CONSTANTS
    u1 = u1
    u2 = u2
    cup = u2
    Users = {u1, u2}
    Merch = {u2}
    Consumers = {c1, c2}
    Events <- MCEvents
    InitialBalance = 4
    MaxInt = 8
    NoID = NoID
    MaxLog = 3
    MaxFaults = 1
INVARIANT HistoryAnswered
CHECK_DEADLOCK FALSE
