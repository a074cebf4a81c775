SPECIFICATION PartSpec
CONSTANTS
    Null = Null
    Tenants = {t1}
    Profiles = {f1, f2}
    TenantOf <- OneTenant
    Workers = {w1, w2}
    Plugins = {g1}
    Missing = Missing
    Faults = {"db", "lostReply", "rpc", "pluginExit", "workerCrash", "redelivery"}
    MaxAttempts = 2
    MaxRounds = 2
    MaxChanges = 0
    MaxFailures = 2
    Handlers = {w1, w2}
    Payloads = {p1}
    Nowhere = Nowhere
    Builders = {b1}
    Broken = Broken
    Names <- MCNames
    Archives <- MCArchives
    conf = conf
    other = other
    KeyName = key
    MaxSize = 2
    PayloadFaults = {"storage", "db", "lostReply", "apiCrash"}
    Installations = {i1, i2, i3}
    Files = {conf, other}
    Requests <- MCRequests
    InstallFaults = {"command", "cut", "upload", "removal", "overlap"}
    InstallMaxFailures = 3
    Root = u1
    Users = {u1}
    Systems = {y1}
    Sessions = {s1}
    Values = {v1, v2}
    Online = v1
    Offline = v2
    AccessFaults = {"db", "lostReply", "apiCrash"}
    Kinds = {"target", "payload", "release", "account", "session", "user", "system", "tenant"}
    Sizes = {0, 1, 3}
    Default = 1
    Largest = 2
    MaxRows = 3
SYMMETRY Symmetry
INVARIANTS
    AcknowledgedPayloadBuilds
    InstalledIsConfigured
    StoresAgree
    SuccessIsWhatRuns
    LeftArchivesArePaidFor
    PostsArePaidFor
    SyncEndsForAReason
    AnswersAreTrue
    ReaderIsServed
PROPERTIES
    DeletedRowsAreLeftAlone
CHECK_DEADLOCK FALSE
