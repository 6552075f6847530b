---------------------------- MODULE PodLifecycle ----------------------------
(***************************************************************************)
(* The life of pods across the plugin: the virtual kubelet's REST calls,   *)
(* the gateway, NATS, the responders of the pools and their batch systems. *)
(*                                                                         *)
(* A call opens a connection to NATS before it sends its request, and      *)
(* other calls run meanwhile; an answer, or the refusal by NATS of a       *)
(* request nobody is subscribed to, waits in outbox until the gateway      *)
(* handles it.                                                             *)
(***************************************************************************)
EXTENDS NatsGateway, NatsProvider

CONSTANTS
    MaxCreates,  \* bound: how often the kubelet tries to create a pod
    MaxStops     \* bound: how often responders stop

ASSUME LifecycleAssumption ==
    /\ MaxCreates \in Nat \ {0}
    /\ MaxStops \in Nat

VARIABLES
    unsent,    \* the calls whose connection to NATS is being opened
    vk,        \* how far the virtual kubelet got with each pod
    creates,   \* per pod, how often it tried to create it
    gaveUp,    \* the pods with a create that got no answer
    stops,     \* how often a responder stopped
    complete,  \* per pool, no responder stopped since its pods were last listed
    listed     \* the pods a resync answer ever named

kubeletVars == <<vk, creates, gaveUp>>
historyVars == <<stops, complete, listed>>
vars == <<gatewayVars, unsent, providerVars, kubeletVars, historyVars>>

KubeletTypeOK ==
    /\ unsent \subseteq Calls
    /\ vk \in [Pods -> {"new", "creating", "created", "deleting", "deleted"}]
    /\ creates \in [Pods -> 0 .. MaxCreates]
    /\ gaveUp \subseteq Pods
    /\ stops \in 0 .. MaxStops
    /\ complete \in [Pools -> BOOLEAN]
    /\ listed \subseteq Pods

\* Every variable holds values of its kind.
TypeOK == GatewayTypeOK /\ BackendTypeOK /\ ProviderTypeOK /\ KubeletTypeOK

Init ==
    /\ GatewayInit
    /\ ProviderInit
    /\ BackendInit
    /\ unsent = {}
    /\ vk = [p \in Pods |-> "new"]
    /\ creates = [p \in Pods |-> 0]
    /\ gaveUp = {}
    /\ stops = 0
    /\ complete = [pool \in Pools |-> TRUE]
    /\ listed = {}

------------------------------------------------------------------------------
(***************************************************************************)
(* The virtual kubelet, outside this repository: it works on a pod one     *)
(* call at a time, tries to create it until a create succeeds, deletes it  *)
(* at any time after that and until a delete succeeds, and polls the pods  *)
(* it has not deleted.  A pod's uid, so its job name, is never used again. *)
(***************************************************************************)
Unattended(p) == \A c \in Workers : calls[c] # Idle => calls[c].pod # p

MayCreate(c, p) ==
    /\ c \in Workers
    /\ Unattended(p)
    /\ vk[p] \in {"new", "creating"}
    /\ creates[p] < MaxCreates
    /\ vk' = [vk EXCEPT ![p] = "creating"]
    /\ creates' = [creates EXCEPT ![p] = @ + 1]

MayDelete(c, p) ==
    /\ c \in Workers
    /\ Unattended(p)
    /\ vk[p] \in {"creating", "created", "deleting"}
    /\ vk' = [vk EXCEPT ![p] = "deleting"]
    /\ UNCHANGED creates

PollsPod(c, p) ==
    /\ MayPoll(c, p)
    /\ vk[p] \in {"creating", "created", "deleting"}

\* nats_connection up to its yield: the request follows in a step of its own.
Connects(c) == unsent' = unsent \cup {c} /\ UNCHANGED providerVars

Send(c) ==
    /\ c \in unsent
    /\ unsent' = unsent \ {c}
    /\ Publish(c, calls[c].op, calls[c].pod)
    /\ UNCHANGED <<gatewayVars, responderVars, backendVars, kubeletVars, historyVars>>

CreateCall(c, p) ==
    /\ MayCreate(c, p)
    /\ CreateRequest(c, p)
    /\ Connects(c)
    /\ UNCHANGED <<gaveUp, historyVars>>

CreateFailsEarly(c, p) ==
    /\ MayCreate(c, p)
    /\ CreateAborted(c, p)
    /\ UNCHANGED <<unsent, providerVars, gaveUp, historyVars>>

DeleteCall(c, p) ==
    /\ MayDelete(c, p)
    /\ DeleteRequest(c, p)
    /\ Connects(c)
    /\ UNCHANGED <<gaveUp, historyVars>>

StatusCallCached(c, p) ==
    /\ PollsPod(c, p)
    /\ StatusCached(c, p)
    /\ UNCHANGED <<unsent, providerVars, kubeletVars, historyVars>>

StatusCall(c, p) ==
    /\ PollsPod(c, p)
    /\ StatusRequest(c, p)
    /\ Connects(c)
    /\ UNCHANGED <<kubeletVars, historyVars>>

StatusCallAgain(c) ==
    /\ StatusRetry(c)
    /\ Connects(c)
    /\ UNCHANGED <<kubeletVars, historyVars>>

\* The first answer to a request is handled, any later one is ignored.
Acknowledged(c, reply, state) ==
    vk' = IF reply.kind = "ok" THEN [vk EXCEPT ![calls[c].pod] = state] ELSE vk

Receive(c, reply) ==
    /\ [call |-> c, reply |-> reply] \in outbox
    /\ Forget({c})
    /\ UNCHANGED <<unsent, responderVars, backendVars, creates, gaveUp, historyVars>>

CreateAnswer(c, reply) ==
    /\ Receive(c, reply)
    /\ CreateReply(c, reply)
    /\ Acknowledged(c, reply, "created")

DeleteAnswer(c, reply) ==
    /\ Receive(c, reply)
    /\ DeleteReply(c, reply)
    /\ Acknowledged(c, reply, "deleted")

StatusAnswer(c, reply) ==
    /\ Receive(c, reply)
    /\ \/ StatusUnknown(c, reply)
       \/ StatusFailed(c, reply)
       \/ StatusUnreadable(c, reply)
       \/ StatusReply(c, reply)
    /\ UNCHANGED vk

\* The creates sent by some calls end without the kubelet learning how.
Lost(callers) ==
    /\ gaveUp' = gaveUp \cup {p \in Pods : \E c \in callers \ unsent :
            calls[c].op = "create" /\ calls[c].pod = p}
    /\ unsent' = unsent \ callers

\* No answer in time, or no connection at all.
CallTimesOut(c) ==
    /\ Timeout(c)
    /\ Forget({c})
    /\ Lost({c})
    /\ UNCHANGED <<responderVars, backendVars, vk, creates, historyVars>>

GatewayRestarts ==
    /\ GatewayRestart
    /\ Forget(Calls)
    /\ Lost(Calls)
    /\ UNCHANGED <<responderVars, backendVars, vk, creates, historyVars>>

GatewayActs ==
    \/ \E c \in Calls, p \in Pods :
        \/ CreateCall(c, p)
        \/ CreateFailsEarly(c, p)
        \/ DeleteCall(c, p)
        \/ StatusCallCached(c, p)
        \/ StatusCall(c, p)
    \/ \E a \in outbox :
        \/ CreateAnswer(a.call, a.reply)
        \/ DeleteAnswer(a.call, a.reply)
        \/ StatusAnswer(a.call, a.reply)
    \/ \E c \in Calls : StatusCallAgain(c) \/ Send(c) \/ CallTimesOut(c)
    \/ GatewayRestarts

------------------------------------------------------------------------------
(* The responders and their batch system *)

Serve(m) ==
    \/ CreateCallback(m)
    \/ CreateSubmitted(m)
    \/ CreateRefused(m)
    \/ CreateUnanswered(m)
    \/ DeleteCallback(m)
    \/ DeleteUnsubscribe(m)
    \/ DeleteRefused(m)
    \/ DeleteUnanswered(m)
    \/ \E status \in Observe(m.pod) : StatusCallback(m, status)
    \/ StatusRefused(m)
    \/ StatusUnanswered(m)

\* The gateway answers a resync request while the leader awaits it.
Resync(r) ==
    /\ ResyncAnswered(r, JobsOfPool(Serves[r]))
    /\ complete' = [complete EXCEPT ![Serves[r]] = TRUE]
    /\ listed' = listed \cup JobsOfPool(Serves[r])
    /\ UNCHANGED stops

Stop(r) ==
    /\ stops < MaxStops
    /\ StopResponder(r)
    /\ stops' = stops + 1
    /\ complete' = [complete EXCEPT ![Serves[r]] = FALSE]
    /\ UNCHANGED listed

ProviderActs ==
    \/ /\ \/ \E m \in reqs : Serve(m)
          \/ \E r \in Responders : StartResponder(r) \/ ResyncDone(r) \/ ResyncGivesUp(r)
       /\ UNCHANGED <<gatewayVars, unsent, kubeletVars, historyVars>>
    \/ \E r \in Responders : Resync(r) /\ UNCHANGED <<gatewayVars, unsent, kubeletVars>>
    \/ \E r \in Responders : Stop(r) /\ UNCHANGED <<gatewayVars, unsent, kubeletVars>>

JobsProgress ==
    /\ \E p \in Pods : JobProgress(p)
    /\ UNCHANGED <<gatewayVars, unsent, responderVars, reqs, outbox, kubeletVars, historyVars>>

Next == GatewayActs \/ ProviderActs \/ JobsProgress

Spec == Init /\ [][Next]_vars

(***************************************************************************)
(* Fairness.  The kubelet keeps polling; the gateway's loop runs its       *)
(* handlers, and ends a call nobody answers; responders start again after  *)
(* a stop.  A status request may fail, find no connection, be answered too *)
(* late, find the batch system unable to say or a table that is behind,    *)
(* but not every time for ever.  (A Slurm table that lost the job for good *)
(* is outside this assumption.)                                            *)
(***************************************************************************)
ServesStatus(m) == \E status \in Current(m.pod) : StatusCallback(m, status)

Served(step) == step /\ UNCHANGED <<gatewayVars, unsent, kubeletVars, historyVars>>

Fairness ==
    /\ \A c \in Pollers, p \in Pods : WF_vars(StatusCall(c, p))
    /\ \A c \in Pollers : WF_vars(StatusCallAgain(c))
    /\ \A c \in Pollers : SF_vars(Send(c)) /\ WF_vars(CallTimesOut(c))
    /\ \A c \in Pollers : SF_vars(\E a \in outbox :
            /\ a.call = c /\ a.reply.kind = "status"
            /\ Terminal(a.reply.status)
            /\ StatusAnswer(c, a.reply))
    /\ \A p \in Pods : SF_vars(Served(\E m \in reqs : m.pod = p /\ ServesStatus(m)))

FairSpec == Spec /\ Fairness

------------------------------------------------------------------------------
(* Properties *)

Creating(p) == \E m \in reqs : m.op = "create" /\ m.pod = p

\* A job the batch system has, or may be about to get, belongs to a pod that
\* redis assigns to its pool, so that a provider that restarts is told of it;
\* until the kubelet is told the pod is deleted.  (create_job writes pod:pool
\* before it sends the request.)
JobsAreListed ==
    UseRedis => \A p \in Pods :
        job[p] # "none" \/ Creating(p) => podPool[p] = PoolOf[p] \/ vk[p] = "deleted"

\* When a delete was acknowledged there is no job, and none to come; unless a
\* create of the pod went unanswered, and may still be on its way, or the
\* provider forgave the batch system that kept the job.
DeletedMeansGone ==
    \A p \in Pods \ gaveUp :
        vk[p] = "deleted" => (job[p] = "none" \/ p \in spared) /\ ~Creating(p)

\* A pod has a second job only if a create of it went unanswered: the queue
\* group of the create subject hands each request to one responder.
OneJobPerPod == \A p \in Pods \ gaveUp : copies[p] <= 1

Reachable(p) == \E r \in Responders : p \in subs[r] \cup leaked[r]

Settled(pool) ==
    /\ complete[pool]
    /\ \A r \in Leaders : Serves[r] = pool => phase[r] \notin {"resyncing", "listed"}

\* Once the pods of a pool were listed after the last stop of a responder,
\* some responder answers for every job of the pool, so that it can be
\* observed and deleted.  (A create that went unanswered is excepted: its job
\* may appear after the delete that removed the subscriptions; and so is a job
\* that outlived its delete.)
JobsAreReachable ==
    UseRedis => \A p \in Pods \ (gaveUp \cup spared) :
        job[p] # "none" /\ Settled(PoolOf[p]) => Reachable(p)

\* A pod is reported as not found, which terminates it with exit code 404,
\* only after a responder learnt of it by resync: one that was asked to create
\* it says "pending" as long as the batch system does not know it.
MissingOnlyIfListed == \A p \in Pods \ listed : told[p] # "missing"

\* The end of a pod is counted at most once in the life of the gateway.
EndCountedOnce == \A p \in Pods : ends[p] <= 1

\* delete_pod_callback leaves its process without a subscription for the pod.
DeleteUnsubscribesAll ==
    [][\A m \in reqs : DeleteUnsubscribe(m) =>
            m.pod \notin subs'[m.to] \cup leaked'[m.to]]_vars

\* The end of a job that left logs one can read is reported, if from some time
\* on its pod is neither deleted nor without a responder that answers for it.
\* (Of logs process_logs cannot read the kubelet is told nothing, ever.)
EndIsReported ==
    \A p \in Pods :
        <>[](job[p] \in {"good", "bad"} /\ vk[p] = "created" /\ Reachable(p))
            => <>(told[p] \in Results)

\* The plugin keeps the contract of PodContract: terminal reports are true and
\* stand until the pod is deleted.
Contract == INSTANCE PodContract
    WITH ended <- ranTo, gone <- {p \in Pods : vk[p] = "deleted"}

KeepsContract == Contract!Spec
==============================================================================
