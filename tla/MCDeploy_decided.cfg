SPECIFICATION FairSpec
CONSTANTS
    Null = Null
    Targets = {t1}
    Endpoints = {e1}
    Handlers = {h1}
    Callers = {d1}
    Releases = {r1}
    Payloads = {p1}
    Workers = {w1, w2}
    Faults = {"ssh"}
    MaxFailures = 2
    MaxAttempts = 2
    StaleAfter = 0
    MaxClock = 1
PROPERTY
    StartedDeployIsDecided
CHECK_DEADLOCK FALSE
