SPECIFICATION PartSpec
CONSTANTS
    Null = Null
    Tenants = {t1, t2}
    Profiles = {p1, p2}
    TenantOf <- OneEach
    Workers = {w1, w2}
    Plugins = {g1}
    Missing = Missing
    Faults = {"pluginExit", "workerCrash", "redelivery"}
    MaxAttempts = 2
    MaxRounds = 2
    MaxChanges = 0
    MaxFailures = 1
    Targets = {d1}
    Endpoints = {e1, e2}
    Handlers = {h1}
    ProbeFaults = {"backend", "db", "apiCrash"}
    ProbeMaxFailures = 2
    MaxEvents = 2
    acme = acme
    long = long
    External = External
    MaxName = 63
    MaxIdentifier = 63
    Suffix = 5
    TenantHandlers = {h1, h2}
    TenantFaults = {"backend", "workerCrash"}
    TenantMaxFailures = 2
INVARIANTS
    OneProcessPerPlugin
PROPERTIES
    StatusSettles
    SyncGoesOn
    TenantIsServed
CHECK_DEADLOCK FALSE
