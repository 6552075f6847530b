SPECIFICATION FairSpec
CONSTANTS
    Pods = {p1}
    Pools = {"pool"}
    PoolOf <- OnePool
    NoPool = NoPool
    Workers = {w1}
    Pollers = {q1}
    MaxAttempts = 1
    MaxCount = 0
    UseRedis = TRUE
    PollsOverlap = FALSE
    None = None
    Idempotent = FALSE
    Forgiving = FALSE
    Stale = TRUE
    Responders = {r1}
    Leaders = {r1}
    Serves <- AllServe
    NoCall = NoCall
    MaxCreates = 1
    MaxStops = 1
PROPERTIES
    EndIsReported
