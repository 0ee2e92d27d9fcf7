SPECIFICATION FairSpec
CONSTANTS
    u1 = u1
    u2 = u2
    cup = cup
    r1 = r1
    h1 = h1
    h2 = h2
    s1 = s1
    s2 = s2
    Servers = {s1, s2}
    Home <- MCHome
    Handlers = {h1, h2}
    Users = {u1, u2}
    Merch = {cup}
    Jobs <- MCJobs
    Nobody = Nobody
    FaultyCalls = {}
    MaxFaults = 1
    InitialBalance = 4
    MaxInt = 7
    NoID = NoID
    MaxLog = 3
    MaxTrouble = 1
INVARIANTS
    TypeOK
    AcceptedIsKept
    SettledUnlessLate
PROPERTIES AcceptedConcludes
ImplementsCheckout
ImplementsSettlement
CHECK_DEADLOCK FALSE
