----------------------------- MODULE NatsProvider -----------------------------
(***************************************************************************)
(* The provider (natsprovider/BaseNatsProvider.py): responder processes    *)
(* that subscribe to NATS subjects and serve them from a batch system.     *)
(*                                                                         *)
(* Every responder of a pool subscribes to the create subject of the pool, *)
(* in a queue group, so that one of them gets each request.  The one that  *)
(* creates a pod subscribes to the status and delete subjects of that pod, *)
(* with no queue group.  A leader also subscribes, at its start, to the    *)
(* subjects of all pods the gateway lists for the pool (resync).           *)
(*                                                                         *)
(* A subscription runs one callback at a time, different subscriptions run *)
(* theirs concurrently; callbacks interleave where they await the batch    *)
(* system.                                                                 *)
(***************************************************************************)
EXTENDS Backend

CONSTANTS
    Responders,  \* the responder processes
    Leaders,     \* those started with leader=True
    Serves,      \* the pool of each responder
    NoCall       \* the inbox of a request whose caller has gone

ASSUME ProviderAssumption ==
    /\ Leaders \subseteq Responders
    /\ Serves \in [Responders -> Pools]
    /\ NoCall \notin Calls

VARIABLES
    phase,    \* per responder: down, resyncing, listed or serving
    listing,  \* per responder, the pods the resync answer named
    subs,     \* per responder, the pods _subscriptions has entries for
    leaked,   \* per responder, the pods with a live subscription it lost track of
    record,   \* per responder, the pods in its submission record
    reqs,     \* the requests responders have not finished with
    outbox    \* the answers published and not yet received

responderVars == <<phase, listing, subs, leaked, record>>
providerVars == <<responderVars, reqs, outbox, backendVars>>

Request == [op : {"create", "delete", "status"}, pod : Pods,
            call : Calls \cup {NoCall}, to : Responders, at : {"queued", "working"}]

Answer == [call : Calls, reply : Reply]

ProviderTypeOK ==
    /\ phase \in [Responders -> {"down", "resyncing", "listed", "serving"}]
    /\ listing \in [Responders -> SUBSET Pods]
    /\ subs \in [Responders -> SUBSET Pods]
    /\ leaked \in [Responders -> SUBSET Pods]
    /\ record \in [Responders -> SUBSET Pods]
    /\ reqs \subseteq Request
    /\ outbox \subseteq Answer

ProviderInit ==
    /\ phase = [r \in Responders |-> "down"]
    /\ listing = [r \in Responders |-> {}]
    /\ subs = [r \in Responders |-> {}]
    /\ leaked = [r \in Responders |-> {}]
    /\ record = [r \in Responders |-> {}]
    /\ reqs = {}
    /\ outbox = {}

------------------------------------------------------------------------------
(* NATS *)

\* who receives a request on a subject: create.<pool>.<pod> or <op>.<pod>
Subscribers(op, p) ==
    IF op = "create"
    THEN {r \in Responders : phase[r] = "serving" /\ Serves[r] = PoolOf[p]}
    ELSE {r \in Responders : p \in subs[r] \cup leaked[r]}

\* Mutant: the create subject has no queue group.
ReceiversNoQueue(op, p) == {Subscribers(op, p)} \ {{}}

\* The responders a request reaches: one member of the queue group, or all.
Receivers(op, p) ==
    IF op = "create"
    THEN {{r} : r \in Subscribers(op, p)}
    ELSE {Subscribers(op, p)} \ {{}}

Publish(c, op, p) ==
    \/ \E R \in Receivers(op, p) :
        /\ reqs' = reqs \cup
            {[op |-> op, pod |-> p, call |-> c, to |-> r, at |-> "queued"] : r \in R}
        /\ UNCHANGED outbox
    \/ /\ Subscribers(op, p) = {}
       /\ outbox' = outbox \cup {[call |-> c, reply |-> [kind |-> "noResponders"]]}
       /\ UNCHANGED reqs

Respond(m, reply) ==
    outbox' = IF m.call = NoCall THEN outbox
              ELSE outbox \cup {[call |-> m.call, reply |-> reply]}

\* The caller no longer waits: answers still to come reach nobody.  A status
\* request then has no effect left and is dropped; a create or a delete has.
Forget(callers) ==
    /\ reqs' = {IF m.call \in callers THEN [m EXCEPT !.call = NoCall] ELSE m :
                  m \in {n \in reqs : n.op = "status" => n.call \notin callers}}
    /\ outbox' = {a \in outbox : a.call \notin callers}

------------------------------------------------------------------------------
(* Callbacks *)

\* requests of one subscription are served one after the other
SameSubscription(m, n) ==
    m.to = n.to /\ m.op = n.op /\ (m.op = "create" \/ m.pod = n.pod)

Starts(m, op) ==
    /\ m \in reqs
    /\ m.op = op
    /\ m.at = "queued"
    /\ \A n \in reqs : SameSubscription(m, n) => n.at = "queued"

Works(m, op) == m \in reqs /\ m.op = op /\ m.at = "working"

Working(m) == (reqs \ {m}) \cup {[m EXCEPT !.at = "working"]}

\* _register_status_and_delete_callbacks.  The table keeps one subscription a
\* subject: one that was there before stays alive, but out of the table.
Register(r, pods) ==
    /\ leaked' = [leaked EXCEPT ![r] = @ \cup (subs[r] \cap pods)]
    /\ subs' = [subs EXCEPT ![r] = @ \cup pods]

\* create_pod_callback up to the submission: the pod counts as being
\* submitted, and can be asked about and deleted before it is.
CreateCallback(m) ==
    /\ Starts(m, "create")
    /\ record' = [record EXCEPT ![m.to] = @ \cup {m.pod}]
    /\ Register(m.to, {m.pod})
    /\ reqs' = Working(m)
    /\ UNCHANGED <<phase, listing, outbox, backendVars>>

CreateSubmitted(m) ==
    /\ Works(m, "create")
    /\ Submit(m.pod)
    /\ Respond(m, [kind |-> "ok"])
    /\ reqs' = reqs \ {m}
    /\ UNCHANGED responderVars

\* An HTTPException becomes an error response; the subscriptions stay.
CreateRefused(m) ==
    /\ Works(m, "create")
    /\ Respond(m, [kind |-> "error"])
    /\ reqs' = reqs \ {m}
    /\ UNCHANGED <<responderVars, backendVars>>

\* Any other exception ends the callback without a response, before or after
\* the batch system has taken the job.
CreateUnanswered(m) ==
    /\ Works(m, "create")
    /\ Submit(m.pod) \/ UNCHANGED backendVars
    /\ reqs' = reqs \ {m}
    /\ UNCHANGED <<responderVars, outbox>>

DeleteCallback(m) ==
    /\ Starts(m, "delete")
    /\ DeletePod(m.pod)
    /\ Respond(m, [kind |-> "ok"])
    /\ reqs' = Working(m)
    /\ UNCHANGED responderVars

\* delete_pod_callback after its response: the pod's entries are dropped from
\* the table and unsubscribed.
DeleteUnsubscribe(m) ==
    /\ Works(m, "delete")
    /\ subs' = [subs EXCEPT ![m.to] = @ \ {m.pod}]
    /\ reqs' = reqs \ {m}
    /\ UNCHANGED <<phase, listing, leaked, record, outbox, backendVars>>

DeleteRefused(m) ==
    /\ Starts(m, "delete")
    /\ Respond(m, [kind |-> "error"])
    /\ reqs' = reqs \ {m}
    /\ UNCHANGED <<responderVars, backendVars>>

DeleteUnanswered(m) ==
    /\ Starts(m, "delete")
    /\ Remove(m.pod) \/ UNCHANGED backendVars
    /\ reqs' = reqs \ {m}
    /\ UNCHANGED <<responderVars, outbox>>

\* Mutants: the submission record is never, or too widely, consulted.
CorrectedNever(r, p, status) == status

CorrectedAlways(r, p, status) ==
    IF p \in record[r] THEN [phase |-> "pending", logs |-> "empty"] ELSE status

\* A job this process was asked to submit is pending as long as the batch
\* system does not know it.
Corrected(r, p, status) ==
    IF status.phase = "unknown" /\ p \in record[r]
    THEN [status EXCEPT !.phase = "pending"]
    ELSE status

StatusCallback(m, status) ==
    /\ Starts(m, "status")
    /\ status \in Observe(m.pod)
    /\ Respond(m, [kind |-> "status", status |-> Corrected(m.to, m.pod, status)])
    /\ reqs' = reqs \ {m}
    /\ UNCHANGED <<responderVars, backendVars>>

StatusRefused(m) ==
    /\ Starts(m, "status")
    /\ Respond(m, [kind |-> "error"])
    /\ reqs' = reqs \ {m}
    /\ UNCHANGED <<responderVars, backendVars>>

\* The provider returned None, for which a response is built and never sent,
\* or raised something other than an HTTPException.
StatusUnanswered(m) ==
    /\ Starts(m, "status")
    /\ reqs' = reqs \ {m}
    /\ UNCHANGED <<responderVars, outbox, backendVars>>

------------------------------------------------------------------------------
(* main_loop *)

\* A leader first asks the gateway for its pods.
StartResponder(r) ==
    /\ phase[r] = "down"
    /\ phase' = [phase EXCEPT ![r] = IF r \in Leaders THEN "resyncing" ELSE "serving"]
    /\ UNCHANGED <<listing, subs, leaked, record, reqs, outbox, backendVars>>

ResyncAnswered(r, names) ==
    /\ phase[r] = "resyncing"
    /\ phase' = [phase EXCEPT ![r] = "listed"]
    /\ listing' = [listing EXCEPT ![r] = names]
    /\ UNCHANGED <<subs, leaked, record, reqs, outbox, backendVars>>

\* Mutant: the listed pods are not subscribed to.
ResyncDoneDeaf(r) ==
    /\ phase[r] = "listed"
    /\ listing' = [listing EXCEPT ![r] = {}]
    /\ phase' = [phase EXCEPT ![r] = "serving"]
    /\ UNCHANGED <<subs, leaked, record, reqs, outbox, backendVars>>

\* The listed pods are subscribed to, then the create subject.
ResyncDone(r) ==
    /\ phase[r] = "listed"
    /\ Register(r, listing[r])
    /\ listing' = [listing EXCEPT ![r] = {}]
    /\ phase' = [phase EXCEPT ![r] = "serving"]
    /\ UNCHANGED <<record, reqs, outbox, backendVars>>

\* Five attempts got no answer: the leader starts with no pod at all.
ResyncGivesUp(r) ==
    /\ phase[r] = "resyncing"
    /\ phase' = [phase EXCEPT ![r] = "serving"]
    /\ UNCHANGED <<listing, subs, leaked, record, reqs, outbox, backendVars>>

\* The process ends, by a shutdown message, a signal or a crash.  NATS drops
\* its subscriptions, and the callbacks it was in go no further.
StopResponder(r) ==
    /\ phase[r] # "down"
    /\ phase' = [phase EXCEPT ![r] = "down"]
    /\ listing' = [listing EXCEPT ![r] = {}]
    /\ subs' = [subs EXCEPT ![r] = {}]
    /\ leaked' = [leaked EXCEPT ![r] = {}]
    /\ record' = [record EXCEPT ![r] = {}]
    /\ reqs' = {m \in reqs : m.to # r}
    /\ UNCHANGED <<outbox, backendVars>>
==============================================================================
