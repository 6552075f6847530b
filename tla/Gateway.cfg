SPECIFICATION GatewaySpec
CONSTANTS
    p1 = p1
    p2 = p2
    Pods = {p1, p2}
    Pools = {"pool"}
    PoolOf <- OneTolerates
    NoPool = NoPool
    Workers = {w1, w2}
    Pollers = {q1, q2}
    MaxAttempts = 2
    MaxCount = 0
    UseRedis = TRUE
    PollsOverlap = FALSE
    None = None
INVARIANTS
    GatewayTypeOK
    ResultsStand
    DeletedIsUnassigned
