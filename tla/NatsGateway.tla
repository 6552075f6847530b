----------------------------- MODULE NatsGateway -----------------------------
(***************************************************************************)
(* The gateway (natsprovider/NatsGateway.py): the REST calls of the        *)
(* virtual kubelet become NATS requests, and redis remembers, across       *)
(* restarts, the pool of each pod, its last known status and the result of *)
(* a terminated one.                                                       *)
(*                                                                         *)
(* The gateway is one asyncio loop and its redis calls are synchronous, so *)
(* a coroutine is atomic between two awaits.  A call is therefore cut at   *)
(* the NATS request it awaits: one action up to the request, one from the  *)
(* answer on.  Calls in different slots interleave at those points.        *)
(* (The connection to NATS is opened in between, which PodLifecycle makes  *)
(* a step of its own, and drained before the answer is acted on, which     *)
(* only makes that answer later.)                                          *)
(***************************************************************************)
EXTENDS Interlink, Naturals

CONSTANTS
    MaxAttempts,  \* NUMBER_OF_GETTING_STATUS_ATTEMPTS
    MaxCount,     \* bound: where the transition counters saturate, 0 to leave them out
    UseRedis,     \* whether REDIS_CONNECTOR is configured
    PollsOverlap, \* whether the kubelet may ask for a pod it awaits the status of
    None          \* no entry

ASSUME GatewayAssumption ==
    /\ MaxAttempts \in Nat \ {0}
    /\ MaxCount \in Nat
    /\ UseRedis \in BOOLEAN
    /\ PollsOverlap \in BOOLEAN
    /\ None \notin Pools
    /\ None \notin {"waiting", "running", "missing", "lost", "completed", "failed"}
    /\ None \notin {"creating", "created", "pending", "running", "lost",
                    "cleared", "succeeded", "failed", "deleting", "deleted"}

VARIABLES
    podPool,    \* redis pod:pool
    podStatus,  \* redis pod:status
    podCache,   \* redis pod:container_statuses
    starts,     \* per pod, how often pod_transitions counted a start
    ends,       \* per pod, how often it counted succeeded, failed or lost
    calls,      \* the REST calls in flight
    told        \* per pod, the container statuses the last /status returned

gatewayVars == <<podPool, podStatus, podCache, starts, ends, calls, told>>
redisVars == <<podPool, podStatus, podCache>>
metricVars == <<starts, ends>>

\* Container statuses get_pod_status can return: waiting, running, or
\* terminated with exit code 404, with 502 LostOutput, or with the return
\* codes found in the logs.  Only the last three are ever cached.
Results == {"lost", "completed", "failed"}
Reports == Results \cup {"waiting", "running", "missing"}

Statuses == {"creating", "created", "pending", "running", "lost", "cleared",
             "succeeded", "failed", "deleting", "deleted"}

Idle == [op |-> "idle"]

Call == {Idle}
    \cup [op : {"create", "delete"}, pod : Pods]
    \cup [op : {"status"}, pod : Pods, at : {"awaiting"}, attempt : 1 .. MaxAttempts]
    \cup [op : {"status"}, pod : Pods, at : {"sleeping"}, attempt : 1 .. MaxAttempts - 1]

GatewayTypeOK ==
    /\ podPool \in [Pods -> Pools \cup {None}]
    /\ podStatus \in [Pods -> Statuses \cup {None}]
    /\ podCache \in [Pods -> Results \cup {None}]
    /\ starts \in [Pods -> 0 .. MaxCount]
    /\ ends \in [Pods -> 0 .. MaxCount]
    /\ calls \in [Calls -> Call]
    /\ told \in [Pods -> Reports \cup {None}]

GatewayInit ==
    /\ podPool = [p \in Pods |-> None]
    /\ podStatus = [p \in Pods |-> None]
    /\ podCache = [p \in Pods |-> None]
    /\ starts = [p \in Pods |-> 0]
    /\ ends = [p \in Pods |-> 0]
    /\ calls = [c \in Calls |-> Idle]
    /\ told = [p \in Pods |-> None]

------------------------------------------------------------------------------
\* redis.hset and redis.hdel, which do nothing without a redis connector
HSet(hash, p, value) == IF UseRedis THEN [hash EXCEPT ![p] = value] ELSE hash

\* what redis.hget finds in pod:status, b'creating' if there is no entry
CurrentStatus(p) == IF podStatus[p] = None THEN "creating" ELSE podStatus[p]

Count(counter, p) ==
    [counter EXCEPT ![p] = IF @ < MaxCount THEN @ + 1 ELSE @]

End(c) == calls' = [calls EXCEPT ![c] = Idle]

------------------------------------------------------------------------------
(* /create *)

\* Mutant: the pool is not written before the request.
CreateRequestUnlisted(c, p) ==
    /\ calls[c] = Idle
    /\ PoolOf[p] # NoPool
    /\ podStatus' = HSet(podStatus, p, "creating")
    /\ calls' = [calls EXCEPT ![c] = [op |-> "create", pod |-> p]]
    /\ UNCHANGED <<podPool, podCache, metricVars, told>>

\* create_job up to the request.  redis knows the pool before the provider
\* knows the pod, so that a resync during the request lists it.  A pod
\* without one pool is refused with 400 before anything changes.
CreateRequest(c, p) ==
    /\ calls[c] = Idle
    /\ PoolOf[p] # NoPool
    /\ podPool' = HSet(podPool, p, PoolOf[p])
    /\ podStatus' = HSet(podStatus, p, "creating")
    /\ calls' = [calls EXCEPT ![c] = [op |-> "create", pod |-> p]]
    /\ UNCHANGED <<podCache, metricVars, told>>

\* from_kubernetes or builder.dump raises: redis is written, nothing is sent.
CreateAborted(c, p) ==
    /\ calls[c] = Idle
    /\ PoolOf[p] # NoPool
    /\ UseRedis
    /\ podPool' = HSet(podPool, p, PoolOf[p])
    /\ podStatus' = HSet(podStatus, p, "creating")
    /\ UNCHANGED <<podCache, metricVars, calls, told>>

\* The answer to create: a failure is raised as an HTTPException.
CreateReply(c, reply) ==
    /\ calls[c].op = "create"
    /\ podStatus' = IF reply.kind = "ok"
                    THEN HSet(podStatus, calls[c].pod, "created")
                    ELSE podStatus
    /\ End(c)
    /\ UNCHANGED <<podPool, podCache, metricVars, told>>

------------------------------------------------------------------------------
(* /delete *)

DeleteRequest(c, p) ==
    /\ calls[c] = Idle
    /\ podStatus' = HSet(podStatus, p, "deleting")
    /\ calls' = [calls EXCEPT ![c] = [op |-> "delete", pod |-> p]]
    /\ UNCHANGED <<podPool, podCache, metricVars, told>>

\* Mutant: the entry in pod:pool is not deleted.
DeleteReplyStillListed(c, reply) ==
    /\ calls[c].op = "delete"
    /\ LET p == calls[c].pod IN
        IF reply.kind = "ok"
        THEN /\ podStatus' = HSet(podStatus, p, "deleted")
             /\ podCache' = HSet(podCache, p, None)
             /\ UNCHANGED podPool
        ELSE UNCHANGED redisVars
    /\ End(c)
    /\ UNCHANGED <<metricVars, told>>

\* delete_pod from the answer on: only a 2xx answer clears the pod.
DeleteReply(c, reply) ==
    /\ calls[c].op = "delete"
    /\ LET p == calls[c].pod IN
        IF reply.kind = "ok"
        THEN /\ podStatus' = HSet(podStatus, p, "deleted")
             /\ podPool' = HSet(podPool, p, None)
             /\ podCache' = HSet(podCache, p, None)
        ELSE UNCHANGED redisVars
    /\ End(c)
    /\ UNCHANGED <<metricVars, told>>

------------------------------------------------------------------------------
(* /status *)

\* A cached result is returned at once; the gateway asks nobody.
StatusCached(c, p) ==
    /\ calls[c] = Idle
    /\ PoolOf[p] # NoPool
    /\ podCache[p] # None
    /\ told' = [told EXCEPT ![p] = podCache[p]]
    /\ UNCHANGED <<redisVars, metricVars, calls>>

\* Mutant: the cache is not looked up.
StatusRequestUncached(c, p) ==
    /\ calls[c] = Idle
    /\ PoolOf[p] # NoPool
    /\ calls' = [calls EXCEPT ![c] =
            [op |-> "status", pod |-> p, at |-> "awaiting", attempt |-> 1]]
    /\ UNCHANGED <<redisVars, metricVars, told>>

StatusRequest(c, p) ==
    /\ calls[c] = Idle
    /\ PoolOf[p] # NoPool
    /\ podCache[p] = None
    /\ calls' = [calls EXCEPT ![c] =
            [op |-> "status", pod |-> p, at |-> "awaiting", attempt |-> 1]]
    /\ UNCHANGED <<redisVars, metricVars, told>>

\* The sleep between two attempts is over.  The cache is not read again.
StatusRetry(c) ==
    /\ calls[c].op = "status"
    /\ calls[c].at = "sleeping"
    /\ calls' = [calls EXCEPT ![c].at = "awaiting", ![c].attempt = @ + 1]
    /\ UNCHANGED <<redisVars, metricVars, told>>

Awaits(c) == calls[c].op = "status" /\ calls[c].at = "awaiting"

\* Mutant: attempts are not counted.
StatusUnknownForEver(c, reply) ==
    /\ Awaits(c)
    /\ reply.kind = "status"
    /\ reply.status.phase = "unknown"
    /\ calls' = [calls EXCEPT ![c].at = "sleeping"]
    /\ UNCHANGED <<redisVars, metricVars, told>>

\* An unknown phase is asked for again while attempts are left.
StatusUnknown(c, reply) ==
    /\ Awaits(c)
    /\ reply.kind = "status"
    /\ reply.status.phase = "unknown"
    /\ calls[c].attempt < MaxAttempts
    /\ calls' = [calls EXCEPT ![c].at = "sleeping"]
    /\ UNCHANGED <<redisVars, metricVars, told>>

\* No JobStatus came back.  Without a responder the pod is left out of the
\* answer; an error response has no phase to look at, and raises.
StatusFailed(c, reply) ==
    /\ Awaits(c)
    /\ reply.kind \in Failures
    /\ End(c)
    /\ UNCHANGED <<redisVars, metricVars, told>>

\* The logs of a job that ended cannot be read: process_logs raises, before
\* anything is written or counted, whenever the pod is asked for.
StatusUnreadable(c, reply) ==
    /\ Awaits(c)
    /\ reply.kind = "status"
    /\ reply.status.logs = "garbled"
    /\ End(c)
    /\ UNCHANGED <<redisVars, metricVars, told>>

Report(status) ==
    CASE status.phase = "pending" -> "waiting"
      [] status.phase = "running" -> "running"
      [] status.phase = "unknown" -> "missing"
      [] Terminal(status) /\ status.logs = "empty" -> "lost"
      [] Terminal(status) /\ status.logs = "good" -> "completed"
      [] OTHER -> "failed"

Unfinished == {"pending", "creating", "created", "running"}

\* What get_pod_status leaves in pod:status
StatusAfter(p, report) ==
    CASE report = "waiting" -> "pending"
      [] report = "running" -> "running"
      [] report = "completed" -> "succeeded"
      [] report = "failed" -> "failed"
      [] report = "lost" /\ CurrentStatus(p) \in Unfinished -> "lost"
      [] report = "lost" /\ CurrentStatus(p) \in {"succeeded", "failed"} -> "cleared"
      [] OTHER -> podStatus[p]

\* A JobStatus is translated for the kubelet, the transition is counted, and
\* the result of a terminated pod is cached.
StatusReply(c, reply) ==
    /\ Awaits(c)
    /\ reply.kind = "status"
    /\ reply.status.phase = "unknown" => calls[c].attempt = MaxAttempts
    /\ reply.status.logs # "garbled"
    /\ LET p == calls[c].pod
           report == Report(reply.status)
           counts == UseRedis /\ CurrentStatus(p) \in Unfinished
       IN
        /\ podStatus' = HSet(podStatus, p, StatusAfter(p, report))
        /\ podCache' = IF Terminal(reply.status)
                       THEN HSet(podCache, p, report)
                       ELSE podCache
        /\ starts' = IF /\ report = "running"
                        /\ counts
                        /\ CurrentStatus(p) # "running"
                     THEN Count(starts, p) ELSE starts
        /\ ends' = IF report \in Results /\ counts THEN Count(ends, p) ELSE ends
        /\ told' = [told EXCEPT ![p] = report]
    /\ End(c)
    /\ UNCHANGED podPool

------------------------------------------------------------------------------
\* The request timeout expires first: 504, and nothing else changes.
Timeout(c) ==
    /\ calls[c].op \in {"create", "delete"} \/ Awaits(c)
    /\ End(c)
    /\ UNCHANGED <<redisVars, metricVars, told>>

\* The gateway stops and starts again.  redis outlives it, its calls and the
\* Prometheus counters do not.
GatewayRestart ==
    /\ calls' = [c \in Calls |-> Idle]
    /\ starts' = [p \in Pods |-> 0]
    /\ ends' = [p \in Pods |-> 0]
    /\ UNCHANGED <<redisVars, told>>

\* resync_callback: the jobs redis assigns to a pool
JobsOfPool(pool) == {p \in Pods : podPool[p] = pool}

\* The kubelet sends /create and /delete from one set of workers and /status
\* from its polling loop.  Polls of one pod overlap when it gave up an earlier
\* one that the gateway still serves.
MayPoll(c, p) ==
    /\ c \in Pollers
    /\ PollsOverlap \/ \A d \in Pollers : calls[d].op = "status" => calls[d].pod # p

GatewayStep(c) ==
    \/ \E p \in Pods :
        \/ c \in Workers /\ CreateRequest(c, p)
        \/ c \in Workers /\ CreateAborted(c, p)
        \/ c \in Workers /\ DeleteRequest(c, p)
        \/ MayPoll(c, p) /\ StatusCached(c, p)
        \/ MayPoll(c, p) /\ StatusRequest(c, p)
    \/ StatusRetry(c)
    \/ Timeout(c)
    \/ \E reply \in [kind : Acks] :
        \/ CreateReply(c, reply)
        \/ DeleteReply(c, reply)
        \/ StatusFailed(c, reply)
    \/ \E reply \in [kind : {"status"}, status : JobStatus] :
        \/ StatusUnknown(c, reply)
        \/ StatusUnreadable(c, reply)
        \/ StatusReply(c, reply)

GatewayNext == (\E c \in Calls : GatewayStep(c)) \/ GatewayRestart

\* The gateway on its own, in front of providers that answer anything.
GatewaySpec == GatewayInit /\ [][GatewayNext]_gatewayVars

------------------------------------------------------------------------------
(* Properties *)

\* Every call ends after at most MaxAttempts requests, and the other variables
\* hold values of their kind: GatewayTypeOK above.

\* The result redis keeps for a terminated pod is the one the kubelet was told
\* last: no poll reports anything else afterwards.  (Unless two polls of the
\* pod overlap: the cache is read before the requests, and not again.)
ResultsStand ==
    ~PollsOverlap => \A p \in Pods : podCache[p] # None => told[p] = podCache[p]

\* A pod last recorded as deleted is not listed to a provider that resyncs,
\* whatever late answers and polls arrived since.
DeletedIsUnassigned == \A p \in Pods : podStatus[p] = "deleted" => podPool[p] = None
==============================================================================
