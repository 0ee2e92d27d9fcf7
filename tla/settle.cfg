SPECIFICATION FairSpec
CONSTANTS
    u1 = u1
    u2 = u2
    cup = u2
    Users = {u1, u2}
    Merch = {u2}
    Consumers = {c1, c2}
    Events <- MCEvents
    InitialBalance = 4
    MaxInt = 6
    NoID = NoID
    MaxLog = 3
    MaxFaults = 1
INVARIANTS
    TypeOK
    AtMostOnce
    NoMoneyCreated
    CreditFits
    LedgerAgrees
    RowsBacked
PROPERTIES
    ImplementsWallets
    RecordsConclude
    TransfersWhole
CHECK_DEADLOCK FALSE
