SPECIFICATION Spec
CONSTANTS
    Null = Null
    External = External
    long = long
    Bases = {long}
    Tenants = {t1}
    Names <- LongestName
    Reserved = {}
    Brought <- Nothing
    Handlers = {h1}
    MaxName = 63
    MaxIdentifier = 63
    Suffix = 5
    Faults = {}
    MaxFailures = 0
INVARIANT
    LegalNameSuffices
CHECK_DEADLOCK FALSE
