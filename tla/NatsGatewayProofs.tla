-------------------------- MODULE NatsGatewayProofs --------------------------
(***************************************************************************)
(* Theorems about the gateway, in front of providers that answer anything. *)
(***************************************************************************)
EXTENDS NatsGateway, TLAPS

------------------------------------------------------------------------------
(* Lemmas about the data *)

\* The fields of a call are those of its operation.
LEMMA CallFields ==
    ASSUME NEW x \in Call
    PROVE  /\ x.op \in {"create", "delete"} =>
                x = [op |-> x.op, pod |-> x.pod] /\ x.pod \in Pods
           /\ x.op = "status" =>
                /\ x = [op |-> "status", pod |-> x.pod, at |-> x.at, attempt |-> x.attempt]
                /\ x.pod \in Pods
                /\ x.at \in {"awaiting", "sleeping"}
                /\ x.attempt \in 1 .. MaxAttempts
                /\ x.at = "sleeping" => x.attempt < MaxAttempts
  BY GatewayAssumption DEF Call, Idle

\* Writing to a redis hash keeps the set its entries come from.
LEMMA HSetType ==
    ASSUME GatewayTypeOK, NEW p \in Pods
    PROVE  /\ \A value \in Pools \cup {None} :
                HSet(podPool, p, value) \in [Pods -> Pools \cup {None}]
           /\ \A value \in Statuses \cup {None} :
                HSet(podStatus, p, value) \in [Pods -> Statuses \cup {None}]
           /\ \A value \in Results \cup {None} :
                HSet(podCache, p, value) \in [Pods -> Results \cup {None}]
  BY DEF HSet, GatewayTypeOK

LEMMA CountType ==
    ASSUME NEW counter \in [Pods -> 0 .. MaxCount], NEW p \in Pods
    PROVE  Count(counter, p) \in [Pods -> 0 .. MaxCount]
  <1>1. CASE counter[p] < MaxCount
    <2>1. counter[p] + 1 \in 0 .. MaxCount
      BY <1>1, GatewayAssumption
    <2> QED BY <1>1, <2>1 DEF Count
  <1>2. CASE ~(counter[p] < MaxCount)
    BY <1>2 DEF Count
  <1> QED BY <1>1, <1>2

LEMMA EndType ==
    ASSUME calls \in [Calls -> Call], NEW c \in Calls, End(c)
    PROVE  calls' \in [Calls -> Call]
  BY DEF End, Call, Idle

\* What a poll reports, and what it leaves in pod:status.
LEMMA ReportType ==
    ASSUME NEW status \in JobStatus
    PROVE  /\ Report(status) \in Reports
           /\ Terminal(status) => Report(status) \in Results
  BY DEF JobStatus, Report, Reports, Results, Terminal, Logs

LEMMA StatusAfterType ==
    ASSUME GatewayTypeOK, NEW p \in Pods, NEW report \in Reports
    PROVE  StatusAfter(p, report) \in Statuses \cup {None}
  BY DEF GatewayTypeOK, StatusAfter, Statuses, Reports, Results
\* The domains a redis hash, a counter or a report may be written in.
LEMMA Domains ==
    /\ None \in Pools \cup {None}
    /\ \A p \in Pods : PoolOf[p] # NoPool => PoolOf[p] \in Pools \cup {None}
    /\ {"creating", "created", "deleting", "deleted"} \subseteq Statuses \cup {None}
    /\ Results \subseteq Reports
  BY PoolAssumption DEF Statuses, Results, Reports

------------------------------------------------------------------------------
(* Type correctness *)

LEMMA TypeInit == GatewayInit => GatewayTypeOK
  BY GatewayAssumption DEF GatewayInit, GatewayTypeOK, Call, Idle

LEMMA CreateRequestType ==
    ASSUME GatewayTypeOK, NEW c \in Calls, NEW p \in Pods,
           CreateRequest(c, p) \/ CreateAborted(c, p)
    PROVE  GatewayTypeOK'
  <1>1. podPool' \in [Pods -> Pools \cup {None}]
    BY HSetType, Domains DEF GatewayTypeOK, CreateRequest, CreateAborted
  <1>2. podStatus' \in [Pods -> Statuses \cup {None}]
    BY HSetType, Domains DEF GatewayTypeOK, CreateRequest, CreateAborted
  <1>3. calls' \in [Calls -> Call]
    BY DEF GatewayTypeOK, CreateRequest, CreateAborted, Call
  <1> QED
    BY <1>1, <1>2, <1>3
    DEF GatewayTypeOK, CreateRequest, CreateAborted, metricVars

LEMMA CreateReplyType ==
    ASSUME GatewayTypeOK, NEW c \in Calls, NEW reply, CreateReply(c, reply)
    PROVE  GatewayTypeOK'
  <1>1. calls[c].pod \in Pods
    BY CallFields DEF GatewayTypeOK, CreateReply
  <1>2. podStatus' \in [Pods -> Statuses \cup {None}]
    BY <1>1, HSetType, Domains DEF GatewayTypeOK, CreateReply
  <1>3. calls' \in [Calls -> Call]
    BY EndType DEF GatewayTypeOK, CreateReply
  <1> QED BY <1>2, <1>3 DEF GatewayTypeOK, CreateReply, metricVars

LEMMA DeleteRequestType ==
    ASSUME GatewayTypeOK, NEW c \in Calls, NEW p \in Pods, DeleteRequest(c, p)
    PROVE  GatewayTypeOK'
  <1>1. podStatus' \in [Pods -> Statuses \cup {None}]
    BY HSetType, Domains DEF GatewayTypeOK, DeleteRequest
  <1>2. calls' \in [Calls -> Call]
    BY DEF GatewayTypeOK, DeleteRequest, Call
  <1> QED BY <1>1, <1>2 DEF GatewayTypeOK, DeleteRequest, metricVars

LEMMA DeleteReplyType ==
    ASSUME GatewayTypeOK, NEW c \in Calls, NEW reply, DeleteReply(c, reply)
    PROVE  GatewayTypeOK'
  <1>1. calls[c].pod \in Pods
    BY CallFields DEF GatewayTypeOK, DeleteReply
  <1>2. calls' \in [Calls -> Call]
    BY EndType DEF GatewayTypeOK, DeleteReply
  <1>3. CASE reply.kind = "ok"
    <2>1. /\ podStatus' = HSet(podStatus, calls[c].pod, "deleted")
          /\ podPool' = HSet(podPool, calls[c].pod, None)
          /\ podCache' = HSet(podCache, calls[c].pod, None)
      BY <1>3 DEF DeleteReply
    <2>2. podStatus' \in [Pods -> Statuses \cup {None}]
      BY <1>1, <2>1, HSetType, Domains DEF GatewayTypeOK
    <2>3. podPool' \in [Pods -> Pools \cup {None}]
      BY <1>1, <2>1, HSetType, Domains DEF GatewayTypeOK
    <2>4. podCache' \in [Pods -> Results \cup {None}]
      BY <1>1, <2>1, HSetType DEF GatewayTypeOK
    <2> QED
      BY <1>2, <2>2, <2>3, <2>4 DEF GatewayTypeOK, DeleteReply, metricVars
  <1>4. CASE reply.kind # "ok"
    BY <1>2, <1>4 DEF GatewayTypeOK, DeleteReply, metricVars, redisVars
  <1> QED BY <1>3, <1>4

LEMMA StatusReplyType ==
    ASSUME GatewayTypeOK, NEW c \in Calls,
           NEW reply \in [kind : {"status"}, status : JobStatus],
           StatusReply(c, reply)
    PROVE  GatewayTypeOK'
  <1> DEFINE p == calls[c].pod
             report == Report(reply.status)
  <1>1. p \in Pods
    BY CallFields DEF GatewayTypeOK, StatusReply, Awaits
  <1>2. /\ report \in Reports
        /\ Terminal(reply.status) => report \in Results
    BY ReportType
  <1>3. podStatus' \in [Pods -> Statuses \cup {None}]
    <2>1. StatusAfter(p, report) \in Statuses \cup {None}
      BY <1>1, <1>2, StatusAfterType
    <2> QED BY <1>1, <2>1, HSetType DEF GatewayTypeOK, StatusReply
  <1>4. podCache' \in [Pods -> Results \cup {None}]
    <2>1. CASE Terminal(reply.status)
      BY <1>1, <1>2, <2>1, HSetType DEF GatewayTypeOK, StatusReply
    <2>2. CASE ~Terminal(reply.status)
      BY <2>2 DEF GatewayTypeOK, StatusReply
    <2> QED BY <2>1, <2>2
  <1>5. starts' \in [Pods -> 0 .. MaxCount]
    BY <1>1, CountType DEF GatewayTypeOK, StatusReply
  <1>6. ends' \in [Pods -> 0 .. MaxCount]
    BY <1>1, CountType DEF GatewayTypeOK, StatusReply
  <1>7. told' \in [Pods -> Reports \cup {None}]
    BY <1>1, <1>2 DEF GatewayTypeOK, StatusReply
  <1>8. calls' \in [Calls -> Call]
    BY EndType DEF GatewayTypeOK, StatusReply
  <1> QED
    BY <1>3, <1>4, <1>5, <1>6, <1>7, <1>8 DEF GatewayTypeOK, StatusReply

\* The other steps of a poll, a timeout and a restart.
LEMMA PollType ==
    ASSUME GatewayTypeOK, NEW c \in Calls, NEW p \in Pods, NEW reply,
           \/ StatusCached(c, p)
           \/ StatusRequest(c, p)
           \/ StatusRetry(c)
           \/ StatusUnknown(c, reply)
           \/ StatusFailed(c, reply)
           \/ StatusUnreadable(c, reply)
           \/ Timeout(c)
    PROVE  GatewayTypeOK'
  <1>1. CASE StatusCached(c, p)
    BY <1>1, Domains DEF GatewayTypeOK, StatusCached, redisVars, metricVars
  <1>2. CASE StatusRequest(c, p)
    <2>1. 1 \in 1 .. MaxAttempts
      BY GatewayAssumption
    <2> QED
      BY <1>2, <2>1 DEF GatewayTypeOK, StatusRequest, Call, redisVars, metricVars
  <1>3. CASE StatusFailed(c, reply) \/ StatusUnreadable(c, reply) \/ Timeout(c)
    BY <1>3, EndType
    DEF GatewayTypeOK, StatusFailed, StatusUnreadable, Timeout, redisVars, metricVars
  <1>4. CASE StatusRetry(c)
    <2>1. calls'[c] = [op |-> "status", pod |-> calls[c].pod, at |-> "awaiting",
                       attempt |-> calls[c].attempt + 1]
      BY <1>4, CallFields DEF GatewayTypeOK, StatusRetry
    <2>2. calls[c].attempt + 1 \in 1 .. MaxAttempts /\ calls[c].pod \in Pods
      BY <1>4, CallFields, GatewayAssumption DEF GatewayTypeOK, StatusRetry
    <2>3. calls'[c] \in Call
      BY <2>1, <2>2 DEF Call
    <2> QED
      BY <1>4, <2>3 DEF GatewayTypeOK, StatusRetry, redisVars, metricVars
  <1>5. CASE StatusUnknown(c, reply)
    <2>1. calls'[c] = [op |-> "status", pod |-> calls[c].pod, at |-> "sleeping",
                       attempt |-> calls[c].attempt]
      BY <1>5, CallFields DEF GatewayTypeOK, StatusUnknown, Awaits
    <2>2. calls[c].attempt \in 1 .. MaxAttempts - 1 /\ calls[c].pod \in Pods
      BY <1>5, CallFields, GatewayAssumption DEF GatewayTypeOK, StatusUnknown, Awaits
    <2>3. calls'[c] \in Call
      BY <2>1, <2>2 DEF Call
    <2> QED
      BY <1>5, <2>3 DEF GatewayTypeOK, StatusUnknown, redisVars, metricVars
  <1> QED BY <1>1, <1>2, <1>3, <1>4, <1>5

LEMMA TypeStep ==
    ASSUME GatewayTypeOK, [GatewayNext]_gatewayVars
    PROVE  GatewayTypeOK'
  <1>1. CASE UNCHANGED gatewayVars
    BY <1>1 DEF GatewayTypeOK, gatewayVars
  <1>2. CASE GatewayRestart
    BY <1>2, GatewayAssumption
    DEF GatewayTypeOK, GatewayRestart, Call, Idle, redisVars
  <1>3. ASSUME NEW c \in Calls, GatewayStep(c)
        PROVE  GatewayTypeOK'
    <2>1. ASSUME NEW p \in Pods,
                 \/ CreateRequest(c, p) \/ CreateAborted(c, p)
                 \/ DeleteRequest(c, p)
                 \/ StatusCached(c, p) \/ StatusRequest(c, p)
          PROVE  GatewayTypeOK'
      BY <2>1, CreateRequestType, DeleteRequestType, PollType
    <2>2. CASE StatusRetry(c) \/ Timeout(c)
      <3>1. calls[c].pod \in Pods
        BY <2>2, CallFields DEF GatewayTypeOK, StatusRetry, Timeout, Awaits
      <3> QED BY <2>2, <3>1, PollType
    <2>3. ASSUME NEW reply \in [kind : Acks],
                 \/ CreateReply(c, reply)
                 \/ DeleteReply(c, reply)
                 \/ StatusFailed(c, reply)
          PROVE  GatewayTypeOK'
      <3>1. CASE StatusFailed(c, reply)
        <4>1. calls[c].pod \in Pods
          BY <3>1, CallFields DEF GatewayTypeOK, StatusFailed, Awaits
        <4> QED BY <3>1, <4>1, PollType
      <3> QED BY <2>3, <3>1, CreateReplyType, DeleteReplyType
    <2>4. ASSUME NEW reply \in [kind : {"status"}, status : JobStatus],
                 StatusUnknown(c, reply) \/ StatusUnreadable(c, reply) \/ StatusReply(c, reply)
          PROVE  GatewayTypeOK'
      <3>1. CASE StatusUnknown(c, reply) \/ StatusUnreadable(c, reply)
        <4>1. calls[c].pod \in Pods
          BY <3>1, CallFields DEF GatewayTypeOK, StatusUnknown, StatusUnreadable, Awaits
        <4> QED BY <3>1, <4>1, PollType
      <3> QED BY <2>4, <3>1, StatusReplyType
    <2> QED BY <1>3, <2>1, <2>2, <2>3, <2>4 DEF GatewayStep, MayPoll
  <1> QED BY <1>1, <1>2, <1>3 DEF GatewayNext

\* The variables of the gateway hold values of their kind; in particular a poll
\* never makes more than MaxAttempts requests.
THEOREM GatewayTypeCorrect == GatewaySpec => []GatewayTypeOK
  <1>1. GatewayInit => GatewayTypeOK
    BY TypeInit
  <1>2. GatewayTypeOK /\ [GatewayNext]_gatewayVars => GatewayTypeOK'
    BY TypeStep
  <1> QED BY <1>1, <1>2, PTL DEF GatewaySpec

------------------------------------------------------------------------------
(* Results stand *)

\* While a poll is in flight its pod has no cached result, and no other poll is
\* in flight for that pod.  This is what keeps a later answer from replacing a
\* result: the cache is only read before the first request of a poll.
PollInv ==
    /\ \A c \in Calls : calls[c].op = "status" =>
            c \in Pollers /\ podCache[calls[c].pod] = None
    /\ \A c, d \in Calls :
            /\ calls[c].op = "status"
            /\ calls[d].op = "status"
            /\ calls[c].pod = calls[d].pod
            => c = d
    /\ \A p \in Pods : podCache[p] # None => told[p] = podCache[p]

LEMMA PollInvInit == GatewayInit => PollInv
  BY DEF GatewayInit, PollInv, Idle

\* Creates and deletes never add a result, and start no poll.
LEMMA PollInvWorker ==
    ASSUME GatewayTypeOK, PollInv, NEW c \in Calls, NEW p \in Pods, NEW reply,
           \/ CreateRequest(c, p) \/ CreateAborted(c, p) \/ DeleteRequest(c, p)
           \/ CreateReply(c, reply) \/ DeleteReply(c, reply)
    PROVE  PollInv'
  <1>1. CASE CreateRequest(c, p) \/ CreateAborted(c, p) \/ DeleteRequest(c, p)
    BY <1>1
    DEF GatewayTypeOK, PollInv, CreateRequest, CreateAborted, DeleteRequest, metricVars
  <1>2. CASE CreateReply(c, reply)
    BY <1>2 DEF GatewayTypeOK, PollInv, CreateReply, End, Idle, metricVars
  <1>3. CASE DeleteReply(c, reply)
    <2>1. calls[c].pod \in Pods
      BY <1>3, CallFields DEF GatewayTypeOK, DeleteReply
    <2>2. \/ podCache' = podCache
          \/ podCache' = [podCache EXCEPT ![calls[c].pod] = None]
      BY <1>3 DEF DeleteReply, HSet, redisVars
    <2>3. calls' = [calls EXCEPT ![c] = Idle] /\ told' = told
      BY <1>3 DEF DeleteReply, End
    <2>4. \A d \in Calls : calls'[d].op = "status" =>
                calls'[d] = calls[d] /\ calls[d].pod \in Pods
      BY <2>3, CallFields DEF GatewayTypeOK, Idle
    <2> QED BY <2>1, <2>2, <2>3, <2>4 DEF GatewayTypeOK, PollInv
  <1> QED BY <1>1, <1>2, <1>3

LEMMA PollInvPoll ==
    ASSUME ~PollsOverlap, GatewayTypeOK, PollInv,
           NEW c \in Calls, NEW p \in Pods, NEW reply,
           \/ MayPoll(c, p) /\ StatusCached(c, p)
           \/ MayPoll(c, p) /\ StatusRequest(c, p)
           \/ StatusRetry(c)
           \/ StatusUnknown(c, reply)
           \/ StatusFailed(c, reply)
           \/ StatusUnreadable(c, reply)
           \/ Timeout(c)
    PROVE  PollInv'
  <1>1. CASE StatusCached(c, p)
    BY <1>1 DEF GatewayTypeOK, PollInv, StatusCached, redisVars, metricVars
  <1>2. CASE MayPoll(c, p) /\ StatusRequest(c, p)
    <2>1. /\ calls' = [calls EXCEPT ![c] =
                [op |-> "status", pod |-> p, at |-> "awaiting", attempt |-> 1]]
          /\ podCache[p] = None /\ podCache' = podCache /\ told' = told
      BY <1>2 DEF StatusRequest, redisVars
    <2>2. c \in Pollers /\ \A d \in Pollers : calls[d].op = "status" => calls[d].pod # p
      BY <1>2 DEF MayPoll
    <2> QED BY <2>1, <2>2 DEF GatewayTypeOK, PollInv
  <1>3. CASE StatusFailed(c, reply) \/ StatusUnreadable(c, reply) \/ Timeout(c)
    BY <1>3
    DEF GatewayTypeOK, PollInv, StatusFailed, StatusUnreadable, Timeout, End, Idle,
        redisVars, metricVars
  <1>4. CASE StatusRetry(c) \/ StatusUnknown(c, reply)
    <2>1. /\ calls[c].op = "status"
          /\ podCache' = podCache /\ told' = told
          /\ \A d \in Calls : calls'[d].op = calls[d].op
          /\ \A d \in Calls : calls[d].op = "status" => calls'[d].pod = calls[d].pod
      BY <1>4, CallFields
      DEF GatewayTypeOK, StatusRetry, StatusUnknown, Awaits, redisVars
    <2> QED BY <2>1 DEF PollInv
  <1> QED BY <1>1, <1>2, <1>3, <1>4

LEMMA PollInvReply ==
    ASSUME GatewayTypeOK, PollInv, NEW c \in Calls, NEW reply, StatusReply(c, reply)
    PROVE  PollInv'
  <1> DEFINE p == calls[c].pod
             report == Report(reply.status)
  <1>1. p \in Pods /\ calls[c].op = "status"
    BY CallFields DEF GatewayTypeOK, StatusReply, Awaits
  <1>2. podCache' = podCache \/ podCache' = [podCache EXCEPT ![p] = report]
    BY DEF StatusReply, HSet
  <1>3. told' = [told EXCEPT ![p] = report]
    BY DEF StatusReply
  <1>4. calls' = [calls EXCEPT ![c] = Idle]
    BY DEF StatusReply, End
  <1>5. podCache[p] = None
    BY <1>1 DEF PollInv
  <1>6. \A d \in Calls : calls'[d].op = "status" =>
            /\ calls'[d] = calls[d]
            /\ calls[d].pod # p
            /\ calls[d].pod \in Pods
    BY <1>1, <1>4, CallFields DEF GatewayTypeOK, PollInv, Idle
  <1>7. \A q \in Pods : podCache'[q] # None => told'[q] = podCache'[q]
    BY <1>1, <1>2, <1>3, <1>5 DEF GatewayTypeOK, PollInv
  <1>8. \A d \in Calls : calls'[d].op = "status" => podCache'[calls'[d].pod] = None
    BY <1>1, <1>2, <1>6 DEF GatewayTypeOK, PollInv
  <1> QED BY <1>6, <1>7, <1>8 DEF PollInv

LEMMA PollInvStep ==
    ASSUME ~PollsOverlap, GatewayTypeOK, PollInv, [GatewayNext]_gatewayVars
    PROVE  PollInv'
  <1>1. CASE UNCHANGED gatewayVars
    BY <1>1 DEF PollInv, gatewayVars
  <1>2. CASE GatewayRestart
    BY <1>2 DEF PollInv, GatewayRestart, Idle, redisVars
  <1>3. ASSUME NEW c \in Calls, GatewayStep(c)
        PROVE  PollInv'
    <2>1. CASE calls[c].op \in {"create", "delete", "status"}
      <3>1. calls[c].pod \in Pods
        BY <2>1, CallFields DEF GatewayTypeOK
      <3> QED
        BY <1>3, <3>1, PollInvWorker, PollInvPoll, PollInvReply DEF GatewayStep
    <2>2. CASE calls[c].op \notin {"create", "delete", "status"}
      BY <1>3, <2>2, PollInvWorker, PollInvPoll
      DEF GatewayStep, StatusRetry, Timeout, CreateReply, DeleteReply,
          StatusFailed, StatusUnknown, StatusUnreadable, StatusReply, Awaits
    <2> QED BY <2>1, <2>2
  <1> QED BY <1>1, <1>2, <1>3 DEF GatewayNext

\* The result redis keeps for a terminated pod is the one the kubelet was told
\* last, whatever the providers answer and however often the gateway restarts,
\* as long as no two polls of a pod overlap.
THEOREM ResultsStandCorrect == GatewaySpec => []ResultsStand
  <1>1. CASE PollsOverlap
    <2>1. ResultsStand
      BY <1>1 DEF ResultsStand
    <2> QED BY <2>1, PTL
  <1>2. CASE ~PollsOverlap
    <2>1. GatewayInit => GatewayTypeOK /\ PollInv
      BY TypeInit, PollInvInit
    <2>2. GatewayTypeOK /\ PollInv /\ [GatewayNext]_gatewayVars
            => GatewayTypeOK' /\ PollInv'
      BY <1>2, TypeStep, PollInvStep
    <2>3. PollInv => ResultsStand
      BY DEF PollInv, ResultsStand
    <2> QED BY <2>1, <2>2, <2>3, PTL DEF GatewaySpec
  <1> QED BY <1>1, <1>2

------------------------------------------------------------------------------
(* Deleted pods are unassigned *)

\* A pool is only ever written together with the status "creating".
LEMMA DeletedStep ==
    ASSUME GatewayTypeOK, DeletedIsUnassigned, [GatewayNext]_gatewayVars
    PROVE  DeletedIsUnassigned'
  <1>1. CASE UNCHANGED gatewayVars \/ GatewayRestart
    BY <1>1 DEF DeletedIsUnassigned, gatewayVars, GatewayRestart, redisVars
  <1>2. ASSUME NEW c \in Calls, NEW p \in Pods,
               CreateRequest(c, p) \/ CreateAborted(c, p) \/ DeleteRequest(c, p)
        PROVE  DeletedIsUnassigned'
    BY <1>2
    DEF GatewayTypeOK, DeletedIsUnassigned, CreateRequest, CreateAborted,
        DeleteRequest, HSet
  <1>3. ASSUME NEW c \in Calls, NEW p \in Pods,
               StatusCached(c, p) \/ StatusRequest(c, p)
        PROVE  DeletedIsUnassigned'
    BY <1>3 DEF DeletedIsUnassigned, StatusCached, StatusRequest, redisVars
  <1>4. ASSUME NEW c \in Calls, NEW reply,
               \/ StatusRetry(c) \/ Timeout(c)
               \/ StatusFailed(c, reply) \/ StatusUnknown(c, reply)
               \/ StatusUnreadable(c, reply)
        PROVE  DeletedIsUnassigned'
    BY <1>4
    DEF DeletedIsUnassigned, StatusRetry, Timeout, StatusFailed, StatusUnknown,
        StatusUnreadable, redisVars
  <1>5. ASSUME NEW c \in Calls, NEW reply, CreateReply(c, reply)
        PROVE  DeletedIsUnassigned'
    <2>1. calls[c].pod \in Pods
      BY <1>5, CallFields DEF GatewayTypeOK, CreateReply
    <2> QED
      BY <1>5, <2>1 DEF GatewayTypeOK, DeletedIsUnassigned, CreateReply, HSet
  <1>6. ASSUME NEW c \in Calls, NEW reply, DeleteReply(c, reply)
        PROVE  DeletedIsUnassigned'
    <2>1. calls[c].pod \in Pods
      BY <1>6, CallFields DEF GatewayTypeOK, DeleteReply
    <2> QED
      BY <1>6, <2>1 DEF GatewayTypeOK, DeletedIsUnassigned, DeleteReply, HSet, redisVars
  <1>7. ASSUME NEW c \in Calls, NEW reply, StatusReply(c, reply)
        PROVE  DeletedIsUnassigned'
    <2> DEFINE p == calls[c].pod
               status == StatusAfter(p, Report(reply.status))
    <2>1. p \in Pods
      BY <1>7, CallFields DEF GatewayTypeOK, StatusReply, Awaits
    <2>2. status = "deleted" => status = podStatus[p]
      BY DEF StatusAfter
    <2>3. podPool' = podPool
          /\ (podStatus' = podStatus \/ podStatus' = [podStatus EXCEPT ![p] = status])
      BY <1>7 DEF StatusReply, HSet
    <2> QED BY <2>1, <2>2, <2>3 DEF GatewayTypeOK, DeletedIsUnassigned
  <1> QED
    BY <1>1, <1>2, <1>3, <1>4, <1>5, <1>6, <1>7 DEF GatewayNext, GatewayStep

\* A pod last recorded as deleted is in no pool's resync list, whatever answers
\* arrive in whatever order.
THEOREM DeletedIsUnassignedCorrect == GatewaySpec => []DeletedIsUnassigned
  <1>1. GatewayInit => GatewayTypeOK /\ DeletedIsUnassigned
    <2>1. GatewayInit => DeletedIsUnassigned
      BY DEF GatewayInit, DeletedIsUnassigned
    <2> QED BY <2>1, TypeInit
  <1>2. GatewayTypeOK /\ DeletedIsUnassigned /\ [GatewayNext]_gatewayVars
            => GatewayTypeOK' /\ DeletedIsUnassigned'
    BY TypeStep, DeletedStep
  <1> QED BY <1>1, <1>2, PTL DEF GatewaySpec
==============================================================================
