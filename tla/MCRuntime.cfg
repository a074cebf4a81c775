SPECIFICATION PartSpec
CONSTANTS
    Null = Null
    Error = Error
    Callers = {c1, c2, c3}
    Strings = {s1, s2}
    Workers = {w1, w2}
    MaxAttempts = 2
    MaxFailures = 2
    Requests = {q1, q2}
    Releases = {r1}
    Posts = {o1}
    Blank = Blank
    n1 = n1
    AccountFaults = {"lostReply", "workerCrash", "redelivery"}
    Tenants = {t1, t2}
    MaxVersion = 2
    MaxUps = 3
    StartupFaults = {"db", "lostReply", "migratorCrash", "apiCrash", "stopTimeout"}
INVARIANTS
    MissingUserIsPaidFor
    ServedTenantsAreMigrated
    HalfMadeTenantsArePaidFor
PROPERTIES
    KeepsPromise
    EveryCallReturns
    AcceptedLeadsToProfile
    ServerComesUp
CHECK_DEADLOCK FALSE
