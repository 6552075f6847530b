SPECIFICATION Spec
CONSTANTS
    Pods = {p1}
    Pools = {"pool"}
    PoolOf <- OnePool
    NoPool = NoPool
    Workers = {w1}
    Pollers = {}
    MaxAttempts = 1
    MaxCount = 0
    UseRedis = TRUE
    PollsOverlap = FALSE
    None = None
    Idempotent = FALSE
    Forgiving = TRUE
    Stale = FALSE
    Responders = {r1, r2}
    Leaders = {r1}
    Serves <- AllServe
    NoCall = NoCall
    MaxCreates = 2
    MaxStops = 1
INVARIANTS
    JobsAreListed
    DeletedMeansGone
    OneJobPerPod
    JobsAreReachable
