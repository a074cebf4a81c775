SPECIFICATION FairSpec
CONSTANTS
    Null = Null
    Targets = {t1}
    Endpoints = {e1}
    Handlers = {h1}
    Callers = {d1}
    Releases = {r1}
    Payloads = {p1}
    Workers = {w1, w2}
    Faults = {"lostReply", "db", "workerCrash", "redelivery", "ssh"}
    MaxFailures = 1
    MaxAttempts = 2
    StaleAfter = 0
    MaxClock = 1
PROPERTY
    EveryInstanceFinishes
CHECK_DEADLOCK FALSE
