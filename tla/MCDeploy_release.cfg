SPECIFICATION Spec
CONSTANTS
    Null = Null
    Targets = {t1}
    Endpoints = {e1}
    Handlers = {h1}
    Callers = {d1, d2}
    Releases = {r1}
    Payloads = {p1}
    Workers = {w1, w2}
    Faults = {"backend", "lostReply", "db", "apiCrash", "workerCrash", "redelivery", "storage", "ssh"}
    MaxFailures = 2
    MaxAttempts = 2
    StaleAfter = 0
    MaxClock = 1
SYMMETRY Symmetry
INVARIANTS
    TypeOK
    DeployedIsInstalled
    RepeatedInstallsArePaidFor
    WaitHasOwner
PROPERTY
    FollowsLifecycle
CHECK_DEADLOCK FALSE
