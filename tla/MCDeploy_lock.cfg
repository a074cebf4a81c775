SPECIFICATION Spec
CONSTANTS
    Null = Null
    Targets = {t1}
    Endpoints = {e1}
    Handlers = {h1}
    Callers = {d1}
    Releases = {r1, r2}
    Payloads = {p1}
    Workers = {w1, w2}
    Faults = {"backend", "workerCrash"}
    MaxFailures = 1
    MaxAttempts = 2
    StaleAfter = 1
    MaxClock = 2
SYMMETRY Symmetry
INVARIANTS
    LockExcludes
    NoOrphanLock
CHECK_DEADLOCK FALSE
