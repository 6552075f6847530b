--------------------------- MODULE KueueController ---------------------------
(***************************************************************************)
(* kueue-nats/docker/controller.py: the kopf controller that keeps the     *)
(* ClusterQueues of Kueue in step with the pools that announce resources.  *)
(*                                                                         *)
(* A MasterQueue (a custom resource) is a Python object here: one          *)
(* NatsFlavor, which knows its pools from NATS, may have a LocalFlavor     *)
(* beside it.  An update of the resource makes a new object, which takes   *)
(* over the table of pools of the old one; the old one stays subscribed.   *)
(*                                                                         *)
(* Handlers, timers and NATS callbacks share one asyncio loop.  Only       *)
(* from_kubernetes really waits (to connect and subscribe); the timer does *)
(* not, and is one step.                                                   *)
(***************************************************************************)
EXTENDS Naturals, FiniteSets

CONSTANTS
    Masters,      \* names of the MasterQueues, and of their ClusterQueues
    Branches,     \* names of the ClusterQueues they lend to
    Pools,
    Links,        \* connector, subject and virtual node of a flavor: its uid
    Specs,        \* the MasterQueue resources the administrator may write
    NoQueue,      \* a MasterQueue or ClusterQueue that is not there
    Other,        \* the owner of a ClusterQueue the controller did not make
    NoTable,      \* _pool_timestamps before the first announcement
    Timeout,      \* timeout_seconds, in units of time
    Backoff,      \* units of time kopf waits after a timer that raised
    InitialDelay, \* and before the first tick of a timer
    RetryDelay,   \* and after a tick that found no MasterQueue in memory
    MaxEdits,     \* bound: edits of MasterQueues
    MaxRestarts,  \* bound: restarts of the controller
    MaxOutage     \* bound: units of time a MasterQueue is without an object

MasterSpec == [local : BOOLEAN, pools : SUBSET Pools, lends : SUBSET Branches, link : Links]

ASSUME KueueAssumption ==
    /\ Branches \cap Masters = {}
    /\ Specs \subseteq MasterSpec
    /\ Timeout \in Nat \ {0} /\ Backoff \in Nat \ {0}
    /\ RetryDelay \in Nat \ {0} /\ InitialDelay \in 0..RetryDelay
    /\ MaxEdits \in Nat /\ MaxRestarts \in Nat /\ MaxOutage \in Nat

VARIABLES
    resource,     \* the MasterQueue resources
    applied,      \* what kopf recorded as handled, or NoQueue
    memory,       \* __MASTER_QUEUES__
    pending,      \* the object a create or update handler waits for, or NoQueue
    echo,         \* pools whose announcements former objects write to the table
    cq,           \* the ClusterQueues
    rf,           \* the pools that have a ResourceFlavor, by MasterQueue
    rest,         \* units of time until the timer is due
    heard,        \* units of time since a pool was last heard
    outage,       \* units of time a MasterQueue was without an object
    edits, restarts

k8sVars == <<resource, cq, rf>>
boundVars == <<edits, restarts>>
vars == <<resource, applied, memory, pending, echo, cq, rf, rest, heard, outage,
          edits, restarts>>

Queues == Masters \cup Branches
Local == "local"

\* The latest a pool that went silent leaves the queues of a controller that runs:
\* each edit may cost it a timeout, and the last back-off.  Each start may cost the
\* delay of a timer on top.  Silences are counted up to the longest of them.
Patience(n) == Timeout + n * (Timeout + Backoff)
Starts(n) == (n + 1) * RetryDelay
Limit == Patience(MaxEdits) + MaxOutage + Starts(MaxRestarts)

Table == UNION {[S -> 0..Timeout] : S \in SUBSET Pools}

\* A MasterQueue object: what it was made from, its table of pools with the age
\* of their last announcement, and the pools it has labels and taints of.
Object ==
    {obj \in [spec : Specs, stamps : Table \cup {NoTable}, labels : SUBSET Pools] :
        obj.labels \subseteq obj.spec.pools}

ClusterQueue == [owner : Masters \cup {Other}, flavors : SUBSET (Masters \X (Pools \cup {Local})),
                 hold : BOOLEAN]

Foreign == [owner |-> Other, flavors |-> {}, hold |-> FALSE]

\* The LocalFlavor is no pool, and what is not there is told from what is.
ASSUME NamesAssumption ==
    /\ Local \notin Pools
    /\ NoTable \notin Table
    /\ NoQueue \notin Specs /\ NoQueue \notin Object

KueueTypeOK ==
    /\ resource \in [Masters -> Specs]
    /\ applied \in [Masters -> Specs \cup {NoQueue}]
    /\ memory \in [Masters -> Object \cup {NoQueue}]
    /\ pending \in [Masters -> Object \cup {NoQueue}]
    /\ echo \in [Masters -> SUBSET Pools]
    /\ cq \in [Queues -> ClusterQueue \cup {NoQueue}]
    /\ rf \in [Masters -> SUBSET Pools]
    /\ rest \in [Masters -> (0..Backoff) \cup (0..RetryDelay)]
    /\ heard \in [Masters -> [Pools -> 0..Limit + 1]]
    /\ outage \in [Masters -> 0..MaxOutage]
    /\ edits \in 0..MaxEdits /\ restarts \in 0..MaxRestarts

Init ==
    /\ resource \in [Masters -> Specs]
    /\ applied = [m \in Masters |-> NoQueue]
    /\ memory = [m \in Masters |-> NoQueue]
    /\ pending = [m \in Masters |-> NoQueue]
    /\ echo = [m \in Masters |-> {}]
    /\ \E S \in SUBSET Branches : cq = [q \in Queues |-> IF q \in S THEN Foreign ELSE NoQueue]
    /\ rf = [m \in Masters |-> {}]
    /\ rest = [m \in Masters |-> 0]
    /\ heard = [m \in Masters |-> [p \in Pools |-> Limit + 1]]
    /\ outage = [m \in Masters |-> 0]
    /\ edits = 0 /\ restarts = 0

------------------------------------------------------------------------------
(* Flavors of an object *)

New(spec) == [spec |-> spec, stamps |-> NoTable, labels |-> {}]

\* NatsFlavor.kueue_flavors.
Listed(obj) == IF obj.stamps = NoTable THEN {} ELSE DOMAIN obj.stamps

\* MasterQueue.get_flavors: without any Kueue flavor only a FakeFlavor.
Real(obj) == obj.spec.local \/ Listed(obj) # {}

Offer(m, obj) ==
    {<<m, p>> : p \in Listed(obj)} \cup (IF obj.spec.local THEN {<<m, Local>>} ELSE {})

\* get_cluster_queue_body: the FakeFlavor puts the queue on Hold.
Body(m, obj) == [owner |-> m, flavors |-> Offer(m, obj), hold |-> ~Real(obj)]

\* update_resources_cb of one object, which has labels of the pool afterwards; the
\* echo of a former object writes to the table only.
Stamped(stamps, p) ==
    LET known == IF stamps = NoTable THEN {} ELSE DOMAIN stamps
    IN [q \in known \cup {p} |-> IF q = p THEN 0 ELSE stamps[q]]

Echoed(obj, p) == [obj EXCEPT !.stamps = Stamped(obj.stamps, p)]

HeardAny(obj, p) ==
    [obj EXCEPT !.stamps = Stamped(obj.stamps, p), !.labels = @ \cup {p}]

Heard(obj, p) ==
    IF p \in obj.spec.pools
    THEN [obj EXCEPT !.stamps = Stamped(obj.stamps, p), !.labels = @ \cup {p}]
    ELSE obj

DroppedLate(obj) ==
    IF Real(obj) /\ obj.stamps # NoTable
    THEN [obj EXCEPT !.stamps =
            [p \in {q \in DOMAIN obj.stamps : obj.stamps[q] <= Timeout} |-> obj.stamps[p]]]
    ELSE obj

\* on_tick: pools whose last announcement is too old are dropped.
Dropped(obj) ==
    IF Real(obj) /\ obj.stamps # NoTable
    THEN [obj EXCEPT !.stamps =
            [p \in {q \in DOMAIN obj.stamps : obj.stamps[q] < Timeout} |-> obj.stamps[p]]]
    ELSE obj

Aged(obj) ==
    IF obj.stamps = NoTable THEN obj
    ELSE [obj EXCEPT !.stamps =
            [p \in DOMAIN obj.stamps |->
                IF obj.stamps[p] < Timeout THEN obj.stamps[p] + 1 ELSE Timeout]]

------------------------------------------------------------------------------
(* Handlers *)

\* create_fn, also called for every MasterQueue when the controller starts:
\* from_kubernetes connects and subscribes a new object.  Now that kopf knows the
\* resource its timer runs too, with an initial delay.
CreateFn(m) ==
    /\ memory[m] = NoQueue /\ pending[m] = NoQueue
    /\ pending' = [pending EXCEPT ![m] = New(resource[m])]
    /\ rest' = [rest EXCEPT ![m] = InitialDelay]
    /\ UNCHANGED <<k8sVars, applied, memory, echo, heard, outage, boundVars>>

\* The rest of create_fn.  A ClusterQueue that exists (409) is left as it is.
\* On a restart kopf's record is kept, so that a change of the resource while
\* the controller was down is still handled as an update.
CreateFnSubscribed(m) ==
    /\ memory[m] = NoQueue /\ pending[m] # NoQueue
    /\ memory' = [memory EXCEPT ![m] = pending[m]]
    /\ pending' = [pending EXCEPT ![m] = NoQueue]
    /\ echo' = [echo EXCEPT ![m] = {}]
    /\ cq' = [cq EXCEPT ![m] = IF @ = NoQueue THEN Body(m, pending[m]) ELSE @]
    /\ applied' = [applied EXCEPT ![m] = IF @ = NoQueue THEN pending[m].spec ELSE @]
    /\ UNCHANGED <<resource, rf, rest, heard, outage, boundVars>>

\* update_fn, once a handler of the resource has ended.
UpdateFn(m) ==
    /\ memory[m] # NoQueue /\ pending[m] = NoQueue
    /\ applied[m] # resource[m]
    /\ pending' = [pending EXCEPT ![m] = New(resource[m])]
    /\ UNCHANGED <<k8sVars, applied, memory, echo, rest, heard, outage, boundVars>>

\* maybe_update_cluster_queue with a new object.  The table of pools is taken
\* over if both objects have flavors and the uid is the same; labels and taints
\* are not.  The object that had the table keeps writing to it.
TakesOver(old, new) ==
    Real(old) /\ Real(new) /\ old.spec.link = new.spec.link

UpdateFnSubscribed(m) ==
    LET old == memory[m]
        new == IF TakesOver(old, pending[m])
               THEN [pending[m] EXCEPT !.stamps = old.stamps] ELSE pending[m]
    IN  /\ memory[m] # NoQueue /\ pending[m] # NoQueue
        /\ memory' = [memory EXCEPT ![m] = new]
        /\ pending' = [pending EXCEPT ![m] = NoQueue]
        /\ echo' = [echo EXCEPT ![m] =
                IF TakesOver(old, pending[m]) /\ old.stamps # NoTable
                THEN @ \cup old.spec.pools ELSE {}]
        /\ cq[m] # NoQueue
        /\ cq' = [cq EXCEPT ![m] = [Body(m, new) EXCEPT !.owner = cq[m].owner]]
        /\ applied' = [applied EXCEPT ![m] = new.spec]
        /\ UNCHANGED <<resource, rf, rest, heard, outage, boundVars>>

------------------------------------------------------------------------------
(* NATS *)

\* update_resources_cb: an announcement reaches the objects that are subscribed.
\* An object that is subscribing may get it or not.
UpdateResourcesCb(m, p) ==
    /\ memory[m] # NoQueue
    /\ memory' = [memory EXCEPT ![m] =
            IF p \in echo[m] \ @.spec.pools
            THEN Echoed(@, p) ELSE Heard(@, p)]
    /\ \/ pending' = pending
       \/ /\ pending[m] # NoQueue
          /\ pending' = [pending EXCEPT ![m] = Heard(@, p)]
    /\ heard' = [heard EXCEPT ![m][p] = 0]
    /\ UNCHANGED <<k8sVars, applied, echo, rest, outage, boundVars>>

------------------------------------------------------------------------------
(* The timer *)

\* manage_branched_queues: the ClusterQueues m lends to, and those it lent to.
\* One that somebody else owns is left alone; one whose pools are all gone, or
\* that is lent to no longer, is put on Hold with the flavors it had.
Required(obj) == IF Real(obj) THEN obj.spec.lends ELSE {}
Lent(m, obj) == {<<m, p>> : p \in Listed(obj)}

MineAny(m, b) == cq[b] # NoQueue
Mine(m, b) == cq[b] # NoQueue /\ cq[b].owner = m

WithdrawnIfEmpty(m, obj, b) == b \in Required(obj) /\ Lent(m, obj) = {}
Withdrawn(m, obj, b) == b \in Required(obj) => Lent(m, obj) = {}

Branched(m, obj, b) ==
    CASE Mine(m, b) /\ Withdrawn(m, obj, b) -> [cq[b] EXCEPT !.hold = TRUE]
      [] Mine(m, b) /\ ~Withdrawn(m, obj, b) ->
            [cq[b] EXCEPT !.flavors = Lent(m, obj), !.hold = FALSE]
      [] cq[b] = NoQueue /\ ~Withdrawn(m, obj, b) ->
            [owner |-> m, flavors |-> Lent(m, obj), hold |-> FALSE]
      [] OTHER -> cq[b]

\* tick_master_queue: on_tick of the flavors, with ensure_resource_flavors, then
\* the ClusterQueue of the MasterQueue and those it lends to.
TickQueues(m, obj) ==
    /\ memory[m] # NoQueue /\ rest[m] = 0 /\ cq[m] # NoQueue
    /\ Listed(obj) \subseteq obj.labels
    /\ memory' = [memory EXCEPT ![m] = obj]
    /\ echo' = [echo EXCEPT ![m] = IF Real(memory[m]) THEN {} ELSE @]
    /\ cq' = [q \in Queues |->
                IF q = m THEN [Body(m, obj) EXCEPT !.owner = cq[m].owner]
                ELSE IF q \in Branches THEN Branched(m, obj, q)
                ELSE cq[q]]
    /\ rest' = [rest EXCEPT ![m] = 1]
    /\ UNCHANGED <<resource, applied, pending, heard, outage, boundVars>>

TickUnensured(m) ==
    /\ memory[m] # NoQueue
    /\ TickQueues(m, Dropped(memory[m])) /\ rf' = rf

Tick(m) ==
    LET obj == Dropped(memory[m])
    IN  /\ memory[m] # NoQueue
        /\ TickQueues(m, obj)
        /\ rf' = [rf EXCEPT ![m] = @ \cup Listed(obj)]

\* A pool without labels raises KeyError in ensure_resource_flavors, after the
\* pools before it were written and the old ones dropped.
TickUnlabelled(m, obj) ==
    /\ memory[m] # NoQueue /\ rest[m] = 0
    /\ ~(Listed(obj) \subseteq obj.labels)
    /\ memory' = [memory EXCEPT ![m] = obj]
    /\ \E written \in SUBSET (Listed(obj) \cap obj.labels) :
            rf' = [rf EXCEPT ![m] = @ \cup written]
    /\ rest' = [rest EXCEPT ![m] = Backoff]
    /\ UNCHANGED <<resource, applied, pending, cq, heard, outage, boundVars>>

TickRaisesInPlace(m) ==
    /\ memory[m] # NoQueue /\ TickUnlabelled(m, Dropped(memory[m]))
    /\ echo' = echo

TickRaises(m) ==
    /\ memory[m] # NoQueue /\ TickUnlabelled(m, Dropped(memory[m]))
    /\ echo' = [echo EXCEPT ![m] = {}]

\* The timer may be due while create_fn still connects: TemporaryError.
TickUninitialized(m) ==
    /\ memory[m] = NoQueue /\ pending[m] # NoQueue /\ rest[m] = 0
    /\ rest' = [rest EXCEPT ![m] = RetryDelay]
    /\ UNCHANGED <<k8sVars, applied, memory, pending, echo, heard, outage, boundVars>>

------------------------------------------------------------------------------
(* The environment *)

\* Time goes on while the controller is down, while create_fn connects (without a
\* limit) and while an update does.  It waits for timers that are due and for an
\* object that has subscribed.
Time ==
    /\ \A m \in Masters :
        /\ memory[m] # NoQueue \/ pending[m] # NoQueue => rest[m] > 0
        /\ pending[m] # NoQueue => pending[m].stamps = NoTable
        /\ memory[m] = NoQueue => outage[m] < MaxOutage
    /\ memory' = [m \in Masters |-> IF memory[m] = NoQueue THEN NoQueue ELSE Aged(memory[m])]
    /\ rest' = [m \in Masters |-> IF rest[m] > 0 THEN rest[m] - 1 ELSE 0]
    /\ heard' = [m \in Masters |-> [p \in Pools |->
                    IF heard[m][p] <= Limit THEN heard[m][p] + 1 ELSE heard[m][p]]]
    /\ outage' = [m \in Masters |-> IF memory[m] = NoQueue THEN outage[m] + 1 ELSE outage[m]]
    /\ UNCHANGED <<k8sVars, applied, pending, echo, boundVars>>

Edit(m, spec) ==
    /\ edits < MaxEdits /\ edits' = edits + 1
    /\ spec # resource[m]
    /\ resource' = [resource EXCEPT ![m] = spec]
    /\ UNCHANGED <<applied, memory, pending, echo, cq, rf, rest, heard, outage, restarts>>

\* Kubernetes keeps its objects, the controller nothing.
Restart ==
    /\ restarts < MaxRestarts /\ restarts' = restarts + 1
    /\ memory' = [m \in Masters |-> NoQueue]
    /\ pending' = [m \in Masters |-> NoQueue]
    /\ echo' = [m \in Masters |-> {}]
    /\ rest' = [m \in Masters |-> 0]
    /\ UNCHANGED <<k8sVars, applied, heard, outage, edits>>

MasterActs(m) ==
    \/ CreateFn(m) \/ CreateFnSubscribed(m)
    \/ UpdateFn(m) \/ UpdateFnSubscribed(m)
    \/ Tick(m) \/ TickRaises(m) \/ TickUninitialized(m)
    \/ \E p \in Pools : UpdateResourcesCb(m, p)
    \/ \E spec \in Specs : Edit(m, spec)

Next == (\E m \in Masters : MasterActs(m)) \/ Time \/ Restart

Spec == Init /\ [][Next]_vars

\* Handlers end and timers run; time goes on; the pools keep announcing.
FairSpec ==
    /\ Spec
    /\ WF_vars(Time)
    /\ \A m \in Masters :
        /\ WF_vars(CreateFn(m) \/ CreateFnSubscribed(m))
        /\ WF_vars(UpdateFn(m) \/ UpdateFnSubscribed(m))
        /\ WF_vars(Tick(m) \/ TickRaises(m) \/ TickUninitialized(m))
        /\ \A p \in Pools : WF_vars(UpdateResourcesCb(m, p))

------------------------------------------------------------------------------
(* Properties *)

\* The queues a MasterQueue writes, and the pools jobs may go to through them.
Offers(q, m, p) == cq[q] # NoQueue /\ ~cq[q].hold /\ <<m, p>> \in cq[q].flavors

\* on_tick promises to drop a pool for inactivity after timeout_seconds, and the
\* queues should follow: no queue that is not on Hold offers a pool that has been
\* silent for longer, but for the ticks that raise after an update, the time the
\* MasterQueue had no object to tick, and the delays of a timer that starts.
DeadPoolsLeave ==
    \A m \in Masters, p \in Pools, q \in Queues :
        Offers(q, m, p) => heard[m][p] <= Patience(edits) + outage[m] + Starts(restarts)

\* A ClusterQueue a MasterQueue lends to may be there already, made by an
\* administrator or branched from another MasterQueue ("Conflict defining branched
\* ClusterQueue"): whatever pools it names are its owner's.
BranchesAreExclusive ==
    \A b \in Branches : cq[b] # NoQueue => \A f \in cq[b].flavors : f[1] = cq[b].owner

\* A pool that the resource lists for good and that keeps announcing itself is
\* offered again and again, whatever was edited or restarted before: no KeyError,
\* takeover or Hold locks it out for ever.
AliveIsOffered ==
    \A m \in Masters, p \in Pools :
        <>[](p \in resource[m].pools) => []<>Offers(m, m, p)

\* A queue may name a flavor before ensure_resource_flavors wrote it (create_fn and
\* update_fn do); it does not go on naming one that is never written.
NamedFlavorsExist ==
    \A m \in Masters, p \in Pools, q \in Queues :
        Offers(q, m, p) ~> (p \in rf[m] \/ ~Offers(q, m, p))

\* manage_branched_queues, "will no longer lend resources": a queue that its owner
\* stops to lend to ends on Hold.
UnlentIsHeld ==
    \A m \in Masters, b \in Branches :
        <>[](b \notin resource[m].lends) =>
            <>[](cq[b] = NoQueue \/ cq[b].owner # m \/ cq[b].hold)
==============================================================================
