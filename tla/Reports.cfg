SPECIFICATION Spec
CONSTANTS
    Pods = {p1}
    Pools = {"pool"}
    PoolOf <- OnePool
    NoPool = NoPool
    Workers = {w1}
    Pollers = {q1}
    MaxAttempts = 2
    MaxCount = 2
    UseRedis = TRUE
    PollsOverlap = FALSE
    None = None
    Idempotent = FALSE
    Forgiving = FALSE
    Stale = TRUE
    Responders = {r1}
    Leaders = {r1}
    Serves <- AllServe
    NoCall = NoCall
    MaxCreates = 2
    MaxStops = 0
INVARIANTS
    TypeOK
    MissingOnlyIfListed
    EndCountedOnce
PROPERTIES
    KeepsContract
