SPECIFICATION PartSpec
CONSTANTS
    Null = Null
    Handlers = {h1, h2}
    acme = acme
    long = long
    Bases = {acme, long}
    Names <- TenantNames
    Reserved = {}
    External = External
    Tenants = {t1, t2}
    Brought <- MCBrought
    MaxName = 63
    MaxIdentifier = 63
    Suffix = 5
    Faults = {"db", "storage", "backend", "lostReply", "apiCrash", "workerCrash"}
    MaxFailures = 2
    AccessTenants = {a1}
    AccessFaults = {}
    AccessMaxFailures = 0
    Root = u1
    Users = {u1, u2}
    Systems = {}
    Sessions = {s1}
    Values = {v1, v2}
    Online = v1
    Offline = v2
    Default = 1
    Largest = 2
    ResolveSize = 1
    MaxTenants = 2
SYMMETRY Symmetry
INVARIANTS
    AcknowledgedIsProvisioned
    DatabasesAreNotShared
    LossesArePaidFor
    ExitsAreTrue
PROPERTY
    DesertedForGood
CHECK_DEADLOCK FALSE
