SPECIFICATION FairSpec
CONSTANTS
    Null = Null
    Targets = {t1}
    Endpoints = {e1}
    Handlers = {h1}
    Callers = {d1}
    Releases = {r1, r2}
    Payloads = {p1}
    Workers = {w1, w2}
    Faults = {}
    MaxFailures = 0
    MaxAttempts = 3
    StaleAfter = 0
    MaxClock = 0
PROPERTY
    StartedDeployIsDecided
CHECK_DEADLOCK FALSE
