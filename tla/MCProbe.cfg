SPECIFICATION Spec
CONSTANTS
    Null = Null
    Targets = {t1}
    Endpoints = {e1, e2}
    Handlers = {h1, h2}
    Faults = {"backend", "lostReply", "workerCrash"}
    MaxFailures = 2
    MaxAttempts = 2
    MaxEvents = 2
INVARIANTS
    LiveTargetIsProbed
CHECK_DEADLOCK FALSE
