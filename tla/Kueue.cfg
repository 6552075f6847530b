SPECIFICATION FairSpec
CONSTANTS
    p1 = p1
    p2 = p2
    b1 = b1
    subject = subject
    Masters = {m1}
    Branches = {b1}
    Pools = {p1, p2}
    Links = {subject}
    Specs <- MCSpecs
    NoQueue = NoQueue
    NoTable = NoTable
    Other = Other
    Timeout = 2
    Backoff = 1
    InitialDelay = 1
    RetryDelay = 1
    MaxEdits = 1
    MaxRestarts = 1
    MaxOutage = 2
INVARIANTS
    KueueTypeOK
    DeadPoolsLeave
    BranchesAreExclusive
PROPERTIES
    AliveIsOffered
    NamedFlavorsExist
    UnlentIsHeld
