SPECIFICATION Spec
CONSTANTS
    Null = Null
    Requests = {q1, q2}
    Releases = {r1}
    Names = {n1, n2}
    LongNames = {n1}
    Blank = Blank
    n1 = n1
    n2 = n2
    Bodies <- MCBodies
    Posts = {o1, o2}
    Callers = {c1}
    Workers = {w1, w2}
    Faults = {"db", "backend", "lostReply", "webhookCrash", "workerCrash", "redelivery"}
    MaxAttempts = 2
    MaxFailures = 2
SYMMETRY Symmetry
INVARIANTS
    AcceptedReportIsKept
    StrandedRowsArePaidFor
PROPERTY
    ProfilesAreFinal
CHECK_DEADLOCK FALSE
