SPECIFICATION FairSpec
CONSTANTS
    Handlers = {h1, h2}
    Names = {ann, bob}
    InitialBalance = 5000
    Retries = 3
    MaxLog = 2
    MaxFaults = 3
INVARIANTS
    TypeOK
    OneAccountPerName
    NoAccountFromEvent
PROPERTY RegisteredIsAnnounced
CHECK_DEADLOCK FALSE
