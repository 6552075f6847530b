----------------------------- MODULE KueueProofs -----------------------------
(***************************************************************************)
(* Theorems about the controller of the ClusterQueues, for any number of    *)
(* MasterQueues that lend to any number of queues.                          *)
(***************************************************************************)
EXTENDS KueueController, Integers, TLAPS

------------------------------------------------------------------------------
(* Lemmas about the data *)

LEMMA Numbers ==
    /\ Timeout \in Nat \ {0} /\ Backoff \in Nat \ {0}
    /\ RetryDelay \in Nat \ {0} /\ InitialDelay \in 0..RetryDelay
    /\ MaxEdits \in Nat /\ MaxRestarts \in Nat /\ MaxOutage \in Nat
    /\ Limit \in Nat
  <1>1. /\ Timeout \in Nat /\ Timeout + Backoff \in Nat /\ MaxEdits \in Nat
        /\ RetryDelay \in Nat /\ MaxRestarts + 1 \in Nat /\ MaxOutage \in Nat
    BY KueueAssumption
  <1>2. \A a, b \in Nat : a * b \in Nat
    OBVIOUS
  <1>3. Patience(MaxEdits) \in Nat /\ Starts(MaxRestarts) \in Nat
    BY <1>1, <1>2 DEF Patience, Starts
  <1> QED BY <1>1, <1>3, KueueAssumption DEF Limit

LEMMA QueueNames ==
    /\ \A m \in Masters : m \in Queues /\ m \notin Branches
    /\ \A b \in Branches : b \in Queues
  BY KueueAssumption DEF Queues

LEMMA InTable ==
    ASSUME NEW S \in SUBSET Pools, NEW t \in [S -> 0..Timeout]
    PROVE  t \in Table
  BY DEF Table

LEMMA OfTable ==
    ASSUME NEW t \in Table
    PROVE  DOMAIN t \in SUBSET Pools /\ t \in [DOMAIN t -> 0..Timeout]
  BY DEF Table

LEMMA ObjectParts ==
    ASSUME NEW obj \in Object
    PROVE  /\ obj.spec \in Specs /\ obj.stamps \in Table \cup {NoTable}
           /\ obj.labels \subseteq obj.spec.pools /\ obj.labels \subseteq Pools
           /\ obj.spec.pools \subseteq Pools /\ obj.spec.lends \subseteq Branches
           /\ Listed(obj) \subseteq Pools
  <1>1. obj.spec \in Specs /\ obj.stamps \in Table \cup {NoTable}
        /\ obj.labels \subseteq obj.spec.pools /\ obj.labels \subseteq Pools
    BY DEF Object
  <1>2. obj.spec.pools \subseteq Pools /\ obj.spec.lends \subseteq Branches
    BY <1>1, KueueAssumption DEF MasterSpec
  <1>3. Listed(obj) \subseteq Pools
    BY <1>1, OfTable DEF Listed
  <1> QED BY <1>1, <1>2, <1>3

\* An object with another table is an object.
LEMMA WithStamps ==
    ASSUME NEW obj \in Object, NEW t \in Table \cup {NoTable}
    PROVE  [obj EXCEPT !.stamps = t] \in Object
  BY DEF Object

LEMMA NewType ==
    ASSUME NEW spec \in Specs
    PROVE  New(spec) \in Object
  BY DEF New, Object

LEMMA StampedType ==
    ASSUME NEW stamps \in Table \cup {NoTable}, NEW p \in Pools
    PROVE  Stamped(stamps, p) \in Table
  <1> DEFINE known == IF stamps = NoTable THEN {} ELSE DOMAIN stamps
             t == [q \in known \cup {p} |-> IF q = p THEN 0 ELSE stamps[q]]
  <1>1. known \cup {p} \in SUBSET Pools
    BY OfTable
  <1>2. \A q \in known : stamps[q] \in 0..Timeout
    BY OfTable
  <1>3. 0 \in 0..Timeout
    BY Numbers
  <1>4. t \in [known \cup {p} -> 0..Timeout]
    BY <1>2, <1>3
  <1>5. t \in Table
    BY <1>1, <1>4, InTable
  <1> QED BY <1>5 DEF Stamped

LEMMA HeardType ==
    ASSUME NEW obj \in Object, NEW p \in Pools
    PROVE  Heard(obj, p) \in Object
  <1>1. Stamped(obj.stamps, p) \in Table
    BY ObjectParts, StampedType
  <1> QED BY <1>1, ObjectParts DEF Heard, Object

LEMMA DroppedType ==
    ASSUME NEW obj \in Object
    PROVE  Dropped(obj) \in Object
  <1>1. CASE Real(obj) /\ obj.stamps # NoTable
    <2> DEFINE S == {q \in DOMAIN obj.stamps : obj.stamps[q] < Timeout}
               t == [p \in S |-> obj.stamps[p]]
    <2>1. obj.stamps \in Table
      BY <1>1, ObjectParts
    <2>2. S \in SUBSET Pools /\ t \in [S -> 0..Timeout]
      BY <2>1, OfTable
    <2>3. t \in Table
      BY <2>2, InTable
    <2> QED BY <1>1, <2>3, WithStamps DEF Dropped
  <1>2. CASE ~(Real(obj) /\ obj.stamps # NoTable)
    BY <1>2 DEF Dropped
  <1> QED BY <1>1, <1>2

LEMMA AgedType ==
    ASSUME NEW obj \in Object
    PROVE  Aged(obj) \in Object
  <1>1. CASE obj.stamps # NoTable
    <2> DEFINE S == DOMAIN obj.stamps
               t == [p \in S |-> IF obj.stamps[p] < Timeout THEN obj.stamps[p] + 1 ELSE Timeout]
    <2>1. obj.stamps \in Table
      BY <1>1, ObjectParts
    <2>2. S \in SUBSET Pools /\ \A p \in S : obj.stamps[p] \in 0..Timeout
      BY <2>1, OfTable
    <2>3. t \in [S -> 0..Timeout]
      BY <2>2, Numbers
    <2>4. t \in Table
      BY <2>2, <2>3, InTable
    <2> QED BY <1>1, <2>4, WithStamps DEF Aged
  <1>2. CASE obj.stamps = NoTable
    BY <1>2 DEF Aged
  <1> QED BY <1>1, <1>2

LEMMA OfferType ==
    ASSUME NEW m \in Masters, NEW obj \in Object
    PROVE  /\ Offer(m, obj) \subseteq Masters \X (Pools \cup {Local})
           /\ Lent(m, obj) \subseteq Masters \X (Pools \cup {Local})
           /\ \A f \in Lent(m, obj) : f[1] = m
  <1>1. Listed(obj) \subseteq Pools
    BY ObjectParts
  <1> QED BY <1>1 DEF Offer, Lent

LEMMA BodyType ==
    ASSUME NEW m \in Masters, NEW obj \in Object
    PROVE  /\ Body(m, obj) \in ClusterQueue
           /\ \A o \in Masters \cup {Other} : [Body(m, obj) EXCEPT !.owner = o] \in ClusterQueue
  <1>1. (~Real(obj)) \in BOOLEAN
    OBVIOUS
  <1> QED BY <1>1, OfferType DEF Body, ClusterQueue

LEMMA BranchedType ==
    ASSUME NEW m \in Masters, NEW obj \in Object, NEW b,
           cq[b] \in ClusterQueue \cup {NoQueue}
    PROVE  Branched(m, obj, b) \in ClusterQueue \cup {NoQueue}
  BY OfferType DEF Branched, Mine, ClusterQueue

------------------------------------------------------------------------------
(* Types *)

LEMMA KueueTypeInit == Init => KueueTypeOK
  <1> SUFFICES ASSUME Init PROVE KueueTypeOK
    OBVIOUS
  <1>1. cq \in [Queues -> ClusterQueue \cup {NoQueue}]
    BY DEF Init, Foreign, ClusterQueue
  <1>2. heard \in [Masters -> [Pools -> 0..Limit + 1]] /\ rest \in [Masters -> (0..Backoff) \cup (0..RetryDelay)]
        /\ outage \in [Masters -> 0..MaxOutage]
    BY Numbers DEF Init
  <1> QED BY <1>1, <1>2, Numbers DEF Init, KueueTypeOK

LEMMA TickType ==
    ASSUME KueueTypeOK, NEW m \in Masters, NEW obj \in Object, TickQueues(m, obj),
           rf' = [rf EXCEPT ![m] = @ \cup Listed(obj)]
    PROVE  KueueTypeOK'
  <1> USE DEF KueueTypeOK
  <1>1. memory' \in [Masters -> Object \cup {NoQueue}]
    BY DEF TickQueues
  <1>2. rf' \in [Masters -> SUBSET Pools]
    BY ObjectParts
  <1>3. cq' \in [Queues -> ClusterQueue \cup {NoQueue}]
    <2>1. cq[m] \in ClusterQueue
      BY QueueNames DEF TickQueues
    <2>2. [Body(m, obj) EXCEPT !.owner = cq[m].owner] \in ClusterQueue
      BY <2>1, BodyType DEF ClusterQueue
    <2>3. \A q \in Queues : Branched(m, obj, q) \in ClusterQueue \cup {NoQueue}
      BY BranchedType
    <2> QED BY <2>2, <2>3 DEF TickQueues
  <1>4. rest' \in [Masters -> (0..Backoff) \cup (0..RetryDelay)] /\ echo' \in [Masters -> SUBSET Pools]
    BY Numbers DEF TickQueues
  <1> QED BY <1>1, <1>2, <1>3, <1>4 DEF TickQueues, boundVars

LEMMA KueueTypeStep ==
    ASSUME KueueTypeOK, [Next]_vars
    PROVE  KueueTypeOK'
  <1> USE DEF KueueTypeOK
  <1>1. ASSUME NEW m \in Masters, CreateFn(m) \/ UpdateFn(m)
        PROVE  KueueTypeOK'
    <2>1. New(resource[m]) \in Object
      BY NewType
    <2>2. pending' \in [Masters -> Object \cup {NoQueue}]
      BY <1>1, <2>1 DEF CreateFn, UpdateFn
    <2>3. InitialDelay \in (0..Backoff) \cup (0..RetryDelay)
      BY Numbers
    <2>4. rest' \in [Masters -> (0..Backoff) \cup (0..RetryDelay)]
      BY <1>1, <2>3 DEF CreateFn, UpdateFn
    <2> QED BY <1>1, <2>2, <2>4 DEF CreateFn, UpdateFn, k8sVars, boundVars
  <1>2. ASSUME NEW m \in Masters, CreateFnSubscribed(m)
        PROVE  KueueTypeOK'
    <2>1. pending[m] \in Object /\ pending[m].spec \in Specs
      BY <1>2, ObjectParts DEF CreateFnSubscribed
    <2>2. Body(m, pending[m]) \in ClusterQueue
      BY <2>1, BodyType
    <2>3. cq' \in [Queues -> ClusterQueue \cup {NoQueue}]
      BY <1>2, <2>2, QueueNames DEF CreateFnSubscribed
    <2>4. /\ memory' \in [Masters -> Object \cup {NoQueue}]
          /\ pending' \in [Masters -> Object \cup {NoQueue}]
          /\ echo' \in [Masters -> SUBSET Pools]
          /\ applied' \in [Masters -> Specs \cup {NoQueue}]
      BY <1>2, <2>1 DEF CreateFnSubscribed
    <2> QED BY <1>2, <2>3, <2>4 DEF CreateFnSubscribed, boundVars
  <1>3. ASSUME NEW m \in Masters, UpdateFnSubscribed(m)
        PROVE  KueueTypeOK'
    <2> DEFINE old == memory[m]
               new == IF TakesOver(old, pending[m])
                      THEN [pending[m] EXCEPT !.stamps = old.stamps] ELSE pending[m]
    <2>1. /\ old \in Object /\ pending[m] \in Object
          /\ old.stamps \in Table \cup {NoTable} /\ old.spec.pools \subseteq Pools
      BY <1>3, ObjectParts DEF UpdateFnSubscribed
    <2>2. new \in Object
      BY <2>1, WithStamps
    <2>3. new.spec \in Specs
      BY <2>2, ObjectParts
    <2>4. /\ memory' = [memory EXCEPT ![m] = new]
          /\ cq' = [cq EXCEPT ![m] = [Body(m, new) EXCEPT !.owner = cq[m].owner]]
          /\ applied' = [applied EXCEPT ![m] = new.spec]
      BY <1>3 DEF UpdateFnSubscribed
    <2>5. cq[m] \in ClusterQueue
      BY <1>3, QueueNames DEF UpdateFnSubscribed
    <2>6. [Body(m, new) EXCEPT !.owner = cq[m].owner] \in ClusterQueue
      BY <2>2, <2>5, BodyType DEF ClusterQueue
    <2> HIDE DEF new
    <2>7. cq' \in [Queues -> ClusterQueue \cup {NoQueue}]
      BY <2>4, <2>6
    <2>8. /\ memory' \in [Masters -> Object \cup {NoQueue}]
          /\ applied' \in [Masters -> Specs \cup {NoQueue}]
      BY <2>2, <2>3, <2>4
    <2>9. /\ echo' \in [Masters -> SUBSET Pools]
          /\ pending' \in [Masters -> Object \cup {NoQueue}]
      BY <1>3, <2>1 DEF UpdateFnSubscribed
    <2>10. UNCHANGED <<resource, rf, rest, heard, outage, boundVars>>
      BY <1>3 DEF UpdateFnSubscribed
    <2> QED BY <2>7, <2>8, <2>9, <2>10 DEF boundVars
  <1>4. ASSUME NEW m \in Masters, NEW p \in Pools, UpdateResourcesCb(m, p)
        PROVE  KueueTypeOK'
    <2>1. memory[m] \in Object /\ memory[m].stamps \in Table \cup {NoTable}
      BY <1>4, ObjectParts DEF UpdateResourcesCb
    <2>2. /\ Echoed(memory[m], p) \in Object
          /\ Heard(memory[m], p) \in Object
      BY <2>1, StampedType, WithStamps, HeardType DEF Echoed
    <2>3. memory' \in [Masters -> Object \cup {NoQueue}]
      <3> DEFINE now == IF p \in echo[m] \ memory[m].spec.pools
                        THEN Echoed(memory[m], p) ELSE Heard(memory[m], p)
      <3>1. memory' = [memory EXCEPT ![m] = now]
        BY <1>4 DEF UpdateResourcesCb
      <3>2. now \in Object
        BY <2>2
      <3> HIDE DEF now
      <3> QED BY <3>1, <3>2
    <2>4. pending' \in [Masters -> Object \cup {NoQueue}]
      <3>1. CASE pending[m] # NoQueue /\ pending' = [pending EXCEPT ![m] = Heard(pending[m], p)]
        BY <3>1, HeardType
      <3> QED BY <1>4, <3>1 DEF UpdateResourcesCb
    <2>5. heard' \in [Masters -> [Pools -> 0..Limit + 1]]
      BY <1>4, Numbers DEF UpdateResourcesCb
    <2> QED BY <1>4, <2>3, <2>4, <2>5 DEF UpdateResourcesCb, k8sVars, boundVars
  <1>5. ASSUME NEW m \in Masters, Tick(m)
        PROVE  KueueTypeOK'
    <2>1. Dropped(memory[m]) \in Object
      BY <1>5, DroppedType DEF Tick
    <2> QED BY <1>5, <2>1, TickType DEF Tick
  <1>6. ASSUME NEW m \in Masters, TickRaises(m)
        PROVE  KueueTypeOK'
    <2> DEFINE obj == Dropped(memory[m])
    <2>1. obj \in Object
      BY <1>6, DroppedType DEF TickRaises
    <2>2. TickUnlabelled(m, obj) /\ echo' = [echo EXCEPT ![m] = {}]
      BY <1>6 DEF TickRaises
    <2> HIDE DEF obj
    <2>3. memory' \in [Masters -> Object \cup {NoQueue}] /\ rest' \in [Masters -> (0..Backoff) \cup (0..RetryDelay)]
      BY <2>1, <2>2, Numbers DEF TickUnlabelled
    <2>4. rf' \in [Masters -> SUBSET Pools]
      <3>1. obj.labels \subseteq Pools
        BY <2>1, ObjectParts
      <3> QED BY <2>2, <3>1 DEF TickUnlabelled
    <2> QED BY <2>2, <2>3, <2>4 DEF TickUnlabelled, boundVars
  <1>7. ASSUME NEW m \in Masters, NEW spec \in Specs, Edit(m, spec)
        PROVE  KueueTypeOK'
    BY <1>7, Numbers DEF Edit
  <1>8. CASE Time
    <2>1. memory' \in [Masters -> Object \cup {NoQueue}]
      <3>1. \A m \in Masters : memory[m] # NoQueue => Aged(memory[m]) \in Object
        BY AgedType
      <3> QED BY <1>8, <3>1 DEF Time
    <2>2. /\ rest' \in [Masters -> (0..Backoff) \cup (0..RetryDelay)]
          /\ outage' \in [Masters -> 0..MaxOutage]
      <3>1. ASSUME NEW m \in Masters
            PROVE  /\ (IF rest[m] > 0 THEN rest[m] - 1 ELSE 0) \in (0..Backoff) \cup (0..RetryDelay)
                   /\ (IF memory[m] = NoQueue THEN outage[m] + 1 ELSE outage[m]) \in 0..MaxOutage
        <4>1. rest[m] \in (0..Backoff) \cup (0..RetryDelay) /\ outage[m] \in 0..MaxOutage
              /\ (memory[m] = NoQueue => outage[m] < MaxOutage)
          BY <1>8 DEF Time
        <4> QED BY <4>1, Numbers
      <3> QED BY <1>8, <3>1 DEF Time
    <2>3. heard' \in [Masters -> [Pools -> 0..Limit + 1]]
      <3>1. \A m \in Masters, p \in Pools : heard[m][p] \in 0..Limit + 1
        OBVIOUS
      <3>2. ASSUME NEW m \in Masters, NEW p \in Pools
            PROVE  (IF heard[m][p] <= Limit THEN heard[m][p] + 1 ELSE heard[m][p])
                       \in 0..Limit + 1
        BY <3>1, Numbers
      <3> QED BY <1>8, <3>2 DEF Time
    <2> QED BY <1>8, <2>1, <2>2, <2>3 DEF Time, k8sVars, boundVars
  <1>9. CASE Restart
    BY <1>9, Numbers DEF Restart, k8sVars
  <1>10. ASSUME NEW m \in Masters, TickUninitialized(m)
         PROVE  KueueTypeOK'
    BY <1>10, Numbers DEF TickUninitialized, k8sVars, boundVars
  <1>11. CASE UNCHANGED vars
    BY <1>11 DEF vars
  <1> QED
    BY <1>1, <1>2, <1>3, <1>4, <1>5, <1>6, <1>7, <1>8, <1>9, <1>10, <1>11 DEF Next, MasterActs

\* The variables keep their types: an object has labels of pools its resource lists
\* only, and a queue names flavors of MasterQueues that are there.
THEOREM KueueTypeCorrect == Spec => []KueueTypeOK
  <1>1. KueueTypeOK /\ [Next]_vars => KueueTypeOK'
    BY KueueTypeStep
  <1> QED BY <1>1, KueueTypeInit, PTL DEF Spec

------------------------------------------------------------------------------
(* Branched queues *)

\* The queues that MasterQueues lend to are none of their own, so only the timer, and
\* the queue's owner in it, writes to one.
LEMMA OnlyTicksBranch ==
    ASSUME KueueTypeOK, [Next]_vars, NEW b \in Branches, cq'[b] # cq[b]
    PROVE  \E m \in Masters :
              /\ memory[m] # NoQueue
              /\ cq'[b] = Branched(m, Dropped(memory[m]), b)
  <1>1. b \in Queues /\ \A m \in Masters : m # b
    BY QueueNames
  <1>2. ASSUME NEW m \in Masters, CreateFnSubscribed(m) \/ UpdateFnSubscribed(m)
        PROVE  cq'[b] = cq[b]
    BY <1>1, <1>2 DEF CreateFnSubscribed, UpdateFnSubscribed, KueueTypeOK
  <1>3. ASSUME NEW m \in Masters, Tick(m)
        PROVE  memory[m] # NoQueue /\ cq'[b] = Branched(m, Dropped(memory[m]), b)
    BY <1>1, <1>3 DEF Tick, TickQueues
  <1>4. ASSUME NEW m \in Masters,
               \/ CreateFn(m) \/ UpdateFn(m) \/ TickRaises(m) \/ TickUninitialized(m)
               \/ \E p \in Pools : UpdateResourcesCb(m, p)
               \/ \E spec \in Specs : Edit(m, spec)
        PROVE  cq' = cq
    BY <1>4 DEF CreateFn, UpdateFn, TickRaises, TickUnlabelled, TickUninitialized,
                UpdateResourcesCb, Edit, k8sVars
  <1>5. Time \/ Restart \/ UNCHANGED vars => cq' = cq
    BY DEF Time, Restart, k8sVars, vars
  <1> QED BY <1>2, <1>3, <1>4, <1>5 DEF Next, MasterActs

LEMMA BranchedIsExclusive ==
    ASSUME KueueTypeOK, BranchesAreExclusive, NEW m \in Masters, NEW obj \in Object,
           NEW b \in Branches, Branched(m, obj, b) # NoQueue
    PROVE  \A f \in Branched(m, obj, b).flavors : f[1] = Branched(m, obj, b).owner
  <1>1. cq[b] \in ClusterQueue \cup {NoQueue}
    BY QueueNames DEF KueueTypeOK
  <1>2. \A f \in Lent(m, obj) : f[1] = m
    BY OfferType
  <1>3. cq[b] # NoQueue => \A f \in cq[b].flavors : f[1] = cq[b].owner
    BY DEF BranchesAreExclusive
  <1>4. CASE Mine(m, b) /\ Withdrawn(m, obj, b)
    BY <1>1, <1>3, <1>4 DEF Branched, Mine, ClusterQueue
  <1>5. CASE Mine(m, b) /\ ~Withdrawn(m, obj, b)
    BY <1>1, <1>2, <1>5 DEF Branched, Mine, ClusterQueue
  <1>6. CASE cq[b] = NoQueue /\ ~Withdrawn(m, obj, b)
    BY <1>2, <1>6 DEF Branched, Mine
  <1>7. CASE /\ ~Mine(m, b) /\ ~(cq[b] = NoQueue /\ ~Withdrawn(m, obj, b))
    BY <1>3, <1>7 DEF Branched
  <1> QED BY <1>4, <1>5, <1>6, <1>7

LEMMA BranchesAreExclusiveInit == Init => BranchesAreExclusive
  <1> SUFFICES ASSUME Init, NEW b \in Branches, cq[b] # NoQueue
               PROVE  \A f \in cq[b].flavors : f[1] = cq[b].owner
    BY DEF BranchesAreExclusive
  <1>1. cq[b] = Foreign
    BY QueueNames DEF Init
  <1> QED BY <1>1 DEF Foreign

LEMMA BranchesAreExclusiveStep ==
    ASSUME KueueTypeOK, BranchesAreExclusive, [Next]_vars
    PROVE  BranchesAreExclusive'
  <1> SUFFICES ASSUME NEW b \in Branches, cq'[b] # NoQueue
               PROVE  \A f \in cq'[b].flavors : f[1] = cq'[b].owner
    BY DEF BranchesAreExclusive
  <1>1. CASE cq'[b] = cq[b]
    BY <1>1 DEF BranchesAreExclusive
  <1>2. CASE cq'[b] # cq[b]
    <2>1. PICK m \in Masters :
              memory[m] # NoQueue /\ cq'[b] = Branched(m, Dropped(memory[m]), b)
      BY <1>2, OnlyTicksBranch
    <2>2. Dropped(memory[m]) \in Object
      BY <2>1, DroppedType DEF KueueTypeOK
    <2> QED BY <2>1, <2>2, BranchedIsExclusive
  <1> QED BY <1>1, <1>2

\* However many MasterQueues lend to one queue: the flavors it offers are its owner's,
\* whether one of them made it or somebody else had.
THEOREM BranchesAreExclusiveCorrect == Spec => []BranchesAreExclusive
  <1>1. KueueTypeOK /\ BranchesAreExclusive /\ [Next]_vars => BranchesAreExclusive'
    BY BranchesAreExclusiveStep
  <1> QED BY <1>1, BranchesAreExclusiveInit, KueueTypeCorrect, PTL DEF Spec

------------------------------------------------------------------------------
(* Dead pools leave *)

\* What a pool that went silent may still cost: an edit pays for one takeover of the
\* table, with a timeout and a back-off, once the update handler has ended.  Owed
\* counts the updates a MasterQueue has still to go through for the edits so far.
Owed(m) ==
    CASE memory[m] # NoQueue /\ pending[m] # NoQueue ->
            IF resource[m] # pending[m].spec THEN 2 ELSE 1
      [] ~(memory[m] # NoQueue /\ pending[m] # NoQueue) /\ applied[m] # NoQueue ->
            IF resource[m] # applied[m] THEN 1 ELSE 0
      [] OTHER -> IF pending[m] # NoQueue /\ resource[m] # pending[m].spec THEN 1 ELSE 0

Spent(m) == edits - Owed(m)

\* What restarts may cost it: the time without an object, and the delays of the timers.
Late(m) == outage[m] + Starts(restarts)

Budget(m) == Patience(Spent(m)) + Late(m)

\* Pools in the table that the object has no labels of: the next tick will raise.
Unlabelled(m) == IF memory[m] = NoQueue THEN {} ELSE Listed(memory[m]) \ memory[m].labels

\* Queues offer the pool, or may at the next tick.
Live(m, p) ==
    \/ \E q \in Queues : Offers(q, m, p)
    \/ memory[m] # NoQueue /\ p \in Listed(memory[m])

OwnFlavors ==
    \A m \in Masters : cq[m] # NoQueue => \A f \in cq[m].flavors : f[1] = m

\* An object that is subscribing lists the pools heard this very moment: time waits for it.
PendingIsFresh(m) ==
    pending[m] # NoQueue =>
        \A p \in Listed(pending[m]) :
            heard[m][p] = 0 /\ pending[m].stamps[p] = 0 /\ p \in pending[m].labels

\* The table knows how long a pool has been silent.
StampsAreTrue(m) ==
    memory[m] # NoQueue =>
        \A p \in Listed(memory[m]) :
            \/ heard[m][p] <= memory[m].stamps[p]
            \/ memory[m].stamps[p] = Timeout

\* Only an edit makes a tick raise, or leaves a former object that writes to the table.
EditsPay(m) ==
    /\ rest[m] > RetryDelay \/ Unlabelled(m) # {} \/ echo[m] # {} => Spent(m) >= 1
    /\ rest[m] > RetryDelay /\ echo[m] # {} => Spent(m) >= 2

\* The next tick comes in time; so does the one after it, when that one raises because of
\* a pool in the table, or of one that a former object may still write there.  While there
\* is no object, a timer may start as late as the one that is there can be due.
Within(h, r, b) == h + r <= b

InTime(m, p) ==
    /\ Within(heard[m][p], rest[m], Budget(m))
    /\ memory[m] = NoQueue => Within(heard[m][p], RetryDelay, Budget(m))
    /\ \A u \in Unlabelled(m) :
            memory[m].stamps[u] + rest[m] < Timeout =>
                Within(heard[m][p] + (Timeout - memory[m].stamps[u]), Backoff - 1, Budget(m))
    /\ echo[m] # {} => Within(heard[m][p] + rest[m], Timeout + Backoff - 1, Budget(m))

LiveInTime(m) == \A p \in Pools : Live(m, p) => InTime(m, p)

Handled(m) ==
    /\ Owed(m) <= edits
    /\ memory[m] # NoQueue => applied[m] # NoQueue
    /\ memory[m] = NoQueue => rest[m] <= RetryDelay /\ echo[m] = {}

Kept(m) ==
    /\ Handled(m) /\ PendingIsFresh(m) /\ StampsAreTrue(m)
    /\ EditsPay(m) /\ LiveInTime(m)

DeadInv == OwnFlavors /\ \A m \in Masters : Kept(m)


LEMMA PatienceGrows ==
    /\ \A n \in Nat : /\ Patience(n) \in Nat /\ Patience(n) >= Timeout
                      /\ Patience(n + 1) = Patience(n) + Timeout + Backoff
    /\ \A n, k \in Nat : n <= k => Patience(n) <= Patience(k)
    /\ \A n \in Nat : n >= 1 => Patience(n) >= Timeout + Timeout + Backoff
    /\ \A n \in Nat : n >= 2 => Patience(n) >= Timeout + 2 * (Timeout + Backoff)
  <1> DEFINE K == Timeout + Backoff
  <1>1. Timeout \in Nat /\ K \in Nat
    BY Numbers
  <1>2. \A a, b, c \in Nat : a * c \in Nat /\ (a + b) * c = a * c + b * c
    OBVIOUS
  <1> HIDE DEF K
  <1>3. \A n, k \in Nat : Patience(n + k) = Patience(n) + k * K /\ k * K \in Nat /\ Patience(n) = Timeout + n * K
    <2> SUFFICES ASSUME NEW n \in Nat, NEW k \in Nat
                 PROVE  Patience(n + k) = Patience(n) + k * K /\ k * K \in Nat /\ Patience(n) = Timeout + n * K
      OBVIOUS
    <2>1. (n + k) * K = n * K + k * K /\ n * K \in Nat /\ k * K \in Nat
      BY <1>1, <1>2
    <2>2. Patience(n + k) = Timeout + (n + k) * K /\ Patience(n) = Timeout + n * K
      BY DEF Patience, K
    <2> QED BY <1>1, <2>1, <2>2
  <1>4. \A n \in Nat : Patience(n) \in Nat /\ Patience(n) >= Timeout
    <2> TAKE n \in Nat
    <2>1. Patience(n) = Timeout + n * K /\ n * K \in Nat
      BY <1>3
    <2> QED BY <1>1, <2>1
  <1>5. \A n, k \in Nat : n <= k => Patience(n) <= Patience(k)
    <2> SUFFICES ASSUME NEW n \in Nat, NEW k \in Nat, n <= k
                 PROVE  Patience(n) <= Patience(k)
      OBVIOUS
    <2>1. k - n \in Nat /\ n + (k - n) = k
      OBVIOUS
    <2>2. Patience(n + (k - n)) = Patience(n) + (k - n) * K /\ (k - n) * K \in Nat
      BY <1>3, <2>1
    <2> QED BY <1>4, <2>1, <2>2
  <1>6. \A n \in Nat : Patience(n + 1) = Patience(n) + K
    <2> TAKE n \in Nat
    <2>1. Patience(n + 1) = Patience(n) + 1 * K
      BY <1>3
    <2> QED BY <1>1, <2>1
  <1>7. Patience(0 + 1) = Timeout + K /\ Patience(0 + 2) = Timeout + 2 * K
    <2>1. Patience(0 + 1) = Patience(0) + 1 * K /\ Patience(0 + 2) = Patience(0) + 2 * K
          /\ Patience(0) = Timeout + 0 * K
      BY <1>3
    <2> QED BY <1>1, <2>1
  <1>8. \A n \in Nat : (n >= 1 => Patience(n) >= Timeout + K)
                    /\ (n >= 2 => Patience(n) >= Timeout + 2 * K)
    BY <1>5, <1>7
  <1>9. Timeout \in Nat /\ Backoff \in Nat
    BY Numbers
  <1>10. \A n \in Nat : Patience(n + 1) = Patience(n) + Timeout + Backoff
    <2> TAKE n \in Nat
    <2> QED BY <1>4, <1>6, <1>9 DEF K
  <1>11. \A n \in Nat : (n >= 1 => Patience(n) >= Timeout + Timeout + Backoff)
                     /\ (n >= 2 => Patience(n) >= Timeout + 2 * (Timeout + Backoff))
    <2> TAKE n \in Nat
    <2> QED BY <1>4, <1>8, <1>9 DEF K
  <1> QED BY <1>4, <1>5, <1>10, <1>11

LEMMA OfferPools ==
    ASSUME NEW m \in Masters, NEW obj \in Object, NEW n \in Masters, NEW p \in Pools,
           <<n, p>> \in Offer(m, obj) \/ <<n, p>> \in Lent(m, obj)
    PROVE  n = m /\ p \in Listed(obj)
  BY NamesAssumption DEF Offer, Lent

LEMMA WithinLonger ==
    ASSUME NEW h \in Int, NEW r \in Int, NEW b \in Int, NEW c \in Int, b <= c, Within(h, r, b)
    PROVE  Within(h, r, c)
  BY DEF Within

\* Starts only grow, and a MasterQueue is without an object for longer and longer.
LEMMA StartsGrow ==
    /\ \A n \in Nat : /\ Starts(n) \in Nat /\ Starts(n) >= RetryDelay
                      /\ Starts(n + 1) = Starts(n) + RetryDelay
  <1>1. \A a, b \in Nat : a * b \in Nat /\ (a + 1) * b = a * b + b
    OBVIOUS
  <1> SUFFICES ASSUME NEW n \in Nat
               PROVE  /\ Starts(n) \in Nat /\ Starts(n) >= RetryDelay
                      /\ Starts(n + 1) = Starts(n) + RetryDelay
    OBVIOUS
  <1>2. RetryDelay \in Nat
    BY Numbers
  <1>3. /\ n * RetryDelay \in Nat
        /\ (n + 1) * RetryDelay = n * RetryDelay + RetryDelay
        /\ ((n + 1) + 1) * RetryDelay = (n + 1) * RetryDelay + RetryDelay
    BY <1>1, <1>2
  <1> QED BY <1>2, <1>3 DEF Starts

LEMMA OwedType == \A m : Owed(m) \in {0, 1, 2}
  BY DEF Owed

LEMMA SpentType ==
    ASSUME KueueTypeOK, NEW m \in Masters, Handled(m)
    PROVE  Spent(m) \in Nat /\ edits \in Nat /\ Spent(m) <= edits
  <1>1. Owed(m) \in {0, 1, 2}
    BY OwedType
  <1>2. edits \in Nat
    BY Numbers DEF KueueTypeOK
  <1> QED BY <1>1, <1>2 DEF Spent, Handled

LEMMA SpentTypeNext ==
    ASSUME KueueTypeOK', NEW m \in Masters, Handled(m)'
    PROVE  Spent(m)' \in Nat
  <1>1. Owed(m)' \in {0, 1, 2}
    BY DEF Owed
  <1> QED BY <1>1, Numbers DEF Spent, Handled, KueueTypeOK

\* What a MasterQueue may spend, and that no step takes from it.
Enough(n, b) ==
    /\ n \in Nat /\ b \in Nat /\ b >= Timeout + RetryDelay
    /\ n >= 1 => b >= Timeout + Timeout + Backoff + RetryDelay
    /\ n >= 2 => b >= Timeout + 2 * (Timeout + Backoff) + RetryDelay

LEMMA EnoughBudget ==
    ASSUME NEW n \in Nat, NEW l \in Nat, l >= RetryDelay
    PROVE  Enough(n, Patience(n) + l)
  <1>1. /\ Patience(n) \in Nat /\ Patience(n) >= Timeout
        /\ n >= 1 => Patience(n) >= Timeout + Timeout + Backoff
        /\ n >= 2 => Patience(n) >= Timeout + 2 * (Timeout + Backoff)
    BY PatienceGrows
  <1> QED BY <1>1, Numbers DEF Enough

LEMMA BudgetType ==
    ASSUME KueueTypeOK, NEW m \in Masters, Handled(m)
    PROVE  /\ Spent(m) \in Nat /\ Late(m) \in Nat /\ Enough(Spent(m), Budget(m))
           /\ outage[m] \in Nat /\ restarts \in Nat
  <1>1. Spent(m) \in Nat
    BY SpentType
  <1>2. outage[m] \in Nat /\ restarts \in Nat
    BY Numbers DEF KueueTypeOK
  <1>3. Late(m) \in Nat /\ Late(m) >= RetryDelay
    BY <1>2, StartsGrow, Numbers DEF Late
  <1> QED BY <1>1, <1>2, <1>3, EnoughBudget DEF Budget

LEMMA BudgetTypeNext ==
    ASSUME KueueTypeOK', NEW m \in Masters, Handled(m)'
    PROVE  /\ Spent(m)' \in Nat /\ Late(m)' \in Nat /\ Enough(Spent(m)', Budget(m)')
           /\ outage'[m] \in Nat /\ restarts' \in Nat
  <1>1. Spent(m)' \in Nat
    BY SpentTypeNext
  <1>2. outage'[m] \in Nat /\ restarts' \in Nat
    BY Numbers DEF KueueTypeOK
  <1>3. Late(m)' \in Nat /\ Late(m)' >= RetryDelay
    BY <1>2, StartsGrow, Numbers DEF Late
  <1> QED BY <1>1, <1>2, <1>3, EnoughBudget DEF Budget

LEMMA LateStep ==
    ASSUME KueueTypeOK, [Next]_vars, NEW n \in Masters
    PROVE  /\ Late(n)' >= Late(n)
           /\ Time /\ memory[n] = NoQueue => Late(n)' = Late(n) + 1
           /\ Restart => Late(n)' = Late(n) + RetryDelay
  <1>1. outage[n] \in Nat /\ restarts \in Nat /\ Starts(restarts) \in Nat /\ RetryDelay \in Nat
    BY StartsGrow, Numbers DEF KueueTypeOK
  <1>2. ASSUME NEW m \in Masters, MasterActs(m)
        PROVE  outage' = outage /\ restarts' = restarts
    BY <1>2 DEF MasterActs, CreateFn, CreateFnSubscribed, UpdateFn, UpdateFnSubscribed, Tick,
                TickQueues, TickRaises, TickUnlabelled, TickUninitialized, UpdateResourcesCb,
                Edit, boundVars
  <1>3. Time => /\ restarts' = restarts
                /\ outage'[n] = IF memory[n] = NoQueue THEN outage[n] + 1 ELSE outage[n]
    BY DEF Time, boundVars
  <1>4. Restart => outage' = outage /\ restarts' = restarts + 1
    BY DEF Restart
  <1>5. Starts(restarts + 1) = Starts(restarts) + RetryDelay
    BY <1>1, StartsGrow
  <1>6. UNCHANGED vars => outage' = outage /\ restarts' = restarts
    BY DEF vars
  <1> QED BY <1>1, <1>2, <1>3, <1>4, <1>5, <1>6 DEF Late, Next

LEMMA AgeType ==
    ASSUME NEW obj \in Object, NEW p \in Listed(obj)
    PROVE  /\ obj.stamps # NoTable /\ p \in DOMAIN obj.stamps /\ p \in Pools
           /\ obj.stamps[p] \in 0..Timeout
  <1>1. obj.stamps # NoTable /\ p \in DOMAIN obj.stamps
    BY DEF Listed
  <1>2. obj.stamps \in Table
    BY <1>1, ObjectParts
  <1> QED BY <1>1, <1>2, OfTable

LEMMA UnlabelledAge ==
    ASSUME KueueTypeOK, NEW m \in Masters, NEW u \in Unlabelled(m)
    PROVE  /\ memory[m] \in Object /\ u \in Listed(memory[m]) /\ u \notin memory[m].labels
           /\ u \in Pools /\ memory[m].stamps[u] \in 0..Timeout
  <1>1. memory[m] \in Object /\ u \in Listed(memory[m]) /\ u \notin memory[m].labels
    BY DEF Unlabelled, KueueTypeOK
  <1> QED BY <1>1, AgeType

\* A MasterQueue whose object a step leaves alone stays within its time.
LEMMA KeptFrame ==
    ASSUME KueueTypeOK, KueueTypeOK', NEW m \in Masters, Kept(m),
           memory'[m] = memory[m], echo'[m] = echo[m],
           rest'[m] = rest[m], heard'[m] = heard[m],
           Handled(m)', Spent(m)' >= Spent(m), Budget(m)' >= Budget(m), PendingIsFresh(m)',
           \A p \in Pools : Live(m, p)' => Live(m, p)
    PROVE  Kept(m)'
  <1>1. Spent(m) \in Nat /\ Spent(m)' \in Nat /\ Budget(m) \in Nat /\ Budget(m)' \in Nat
    BY BudgetType, BudgetTypeNext DEF Kept, Enough
  <1>2. StampsAreTrue(m)'
    BY DEF Kept, StampsAreTrue, Listed
  <1>3. Unlabelled(m)' = Unlabelled(m)
    BY DEF Unlabelled, Listed
  <1>4. EditsPay(m)'
    BY <1>1, <1>3 DEF Kept, EditsPay
  <1>5. LiveInTime(m)'
    <2> SUFFICES ASSUME NEW p \in Pools, Live(m, p)
                 PROVE  InTime(m, p)'
      BY DEF LiveInTime
    <2>1. InTime(m, p)
      BY DEF Kept, LiveInTime
    <2>2. \A h, r \in Int : Within(h, r, Budget(m)) => Within(h, r, Budget(m)')
      BY <1>1, WithinLonger
    <2>3. \A u \in Unlabelled(m) : memory[m].stamps[u] \in 0..Timeout
      BY UnlabelledAge
    <2>4. heard[m][p] \in Nat /\ rest[m] \in Nat
      BY Numbers DEF KueueTypeOK
    <2>5. \A u \in Unlabelled(m) : heard[m][p] + (Timeout - memory[m].stamps[u]) \in Int
      BY <2>3, <2>4, Numbers
    <2>6. /\ Backoff - 1 \in Int /\ heard[m][p] + rest[m] \in Int
          /\ Timeout + Backoff - 1 \in Int /\ RetryDelay \in Int
      BY <2>4, Numbers
    <2> QED BY <1>3, <2>1, <2>2, <2>4, <2>5, <2>6 DEF InTime
  <1> QED BY <1>2, <1>4, <1>5 DEF Kept


\* The object an update handler leaves in memory.
Renewed(m) ==
    IF TakesOver(memory[m], pending[m])
    THEN [pending[m] EXCEPT !.stamps = memory[m].stamps] ELSE pending[m]

LEMMA RenewedParts ==
    ASSUME KueueTypeOK, NEW m \in Masters, UpdateFnSubscribed(m)
    PROVE  /\ memory[m] \in Object /\ pending[m] \in Object /\ Renewed(m) \in Object
           /\ Renewed(m).spec = pending[m].spec
           /\ \/ Renewed(m).stamps = memory[m].stamps
              \/ Renewed(m) = pending[m]
           /\ memory' = [memory EXCEPT ![m] = Renewed(m)]
           /\ cq' = [cq EXCEPT ![m] = [Body(m, Renewed(m)) EXCEPT !.owner = cq[m].owner]]
           /\ applied' = [applied EXCEPT ![m] = Renewed(m).spec]
  <1>1. memory[m] \in Object /\ pending[m] \in Object
    BY DEF UpdateFnSubscribed, KueueTypeOK
  <1>2. Renewed(m) \in Object
    BY <1>1, ObjectParts, WithStamps DEF Renewed
  <1>3. \/ Renewed(m) = pending[m]
        \/ /\ Renewed(m).stamps = memory[m].stamps
           /\ Renewed(m).spec = pending[m].spec
    BY <1>1 DEF Renewed, Object
  <1>4. /\ memory' = [memory EXCEPT ![m] = Renewed(m)]
        /\ cq' = [cq EXCEPT ![m] = [Body(m, Renewed(m)) EXCEPT !.owner = cq[m].owner]]
        /\ applied' = [applied EXCEPT ![m] = Renewed(m).spec]
    BY DEF UpdateFnSubscribed, Renewed
  <1> QED BY <1>1, <1>2, <1>3, <1>4

\* Who writes to a queue: the handlers of a MasterQueue to its own.
LEMMA OwnFlavorsInit == Init => OwnFlavors
  BY QueueNames DEF Init, OwnFlavors

LEMMA OfferIsOwn ==
    ASSUME NEW m \in Masters, NEW obj \in Object
    PROVE  \A f \in Offer(m, obj) : f[1] = m
  BY DEF Offer

LEMMA OwnFlavorsStep ==
    ASSUME KueueTypeOK, OwnFlavors, [Next]_vars
    PROVE  OwnFlavors'
  <1> SUFFICES ASSUME NEW n \in Masters, cq'[n] # NoQueue, NEW f \in cq'[n].flavors
               PROVE  f[1] = n
    BY DEF OwnFlavors
  <1>1. cq'[n] = cq[n] => f[1] = n
    BY DEF OwnFlavors
  <1>2. ASSUME NEW m \in Masters, CreateFnSubscribed(m)
        PROVE  f[1] = n
    <2>1. pending[m] \in Object
      BY <1>2 DEF CreateFnSubscribed, KueueTypeOK
    <2>2. cq'[n] = cq[n] \/ (n = m /\ cq'[n] = Body(m, pending[m]))
      BY <1>2, QueueNames DEF CreateFnSubscribed, KueueTypeOK
    <2> QED BY <1>1, <2>1, <2>2, OfferIsOwn DEF Body
  <1>3. ASSUME NEW m \in Masters, UpdateFnSubscribed(m)
        PROVE  f[1] = n
    <2>1. cq'[n] = cq[n] \/ (n = m /\ cq'[n].flavors = Offer(m, Renewed(m)))
      <3>1. cq' = [cq EXCEPT ![m] = [Body(m, Renewed(m)) EXCEPT !.owner = cq[m].owner]]
        BY <1>3, RenewedParts
      <3>2. cq'[m] = [Body(m, Renewed(m)) EXCEPT !.owner = cq[m].owner]
        BY <3>1, QueueNames DEF KueueTypeOK
      <3>3. cq'[m].flavors = Offer(m, Renewed(m))
        BY <3>2 DEF Body
      <3> QED BY <3>1, <3>3, QueueNames DEF KueueTypeOK
    <2> QED BY <1>1, <1>3, <2>1, RenewedParts, OfferIsOwn
  <1>4. ASSUME NEW m \in Masters, Tick(m)
        PROVE  f[1] = n
    <2>1. Dropped(memory[m]) \in Object
      BY <1>4, DroppedType DEF Tick, KueueTypeOK
    <2>2. cq'[n] = cq[n] \/ (n = m /\ cq'[n].flavors = Offer(m, Dropped(memory[m])))
      BY <1>4, QueueNames DEF Tick, TickQueues, Body
    <2> QED BY <1>1, <2>1, <2>2, OfferIsOwn
  <1>5. ASSUME NEW m \in Masters,
               \/ CreateFn(m) \/ UpdateFn(m) \/ TickRaises(m) \/ TickUninitialized(m)
               \/ \E p \in Pools : UpdateResourcesCb(m, p)
               \/ \E spec \in Specs : Edit(m, spec)
        PROVE  cq' = cq
    BY <1>5 DEF CreateFn, UpdateFn, TickRaises, TickUnlabelled, TickUninitialized,
                UpdateResourcesCb, Edit, k8sVars
  <1>6. Time \/ Restart \/ UNCHANGED vars => cq' = cq
    BY DEF Time, Restart, k8sVars, vars
  <1> QED BY <1>1, <1>2, <1>3, <1>4, <1>5, <1>6 DEF Next, MasterActs

\* A tick leaves its MasterQueue's pools in queues only where its table lists them.
LEMMA TickOffers ==
    ASSUME KueueTypeOK, OwnFlavors, BranchesAreExclusive,
           NEW m \in Masters, Tick(m), NEW n \in Masters, NEW p \in Pools, NEW q \in Queues,
           Offers(q, n, p)'
    PROVE  \/ n = m /\ p \in Listed(Dropped(memory[m]))
           \/ n # m /\ Offers(q, n, p)
  <1> DEFINE obj == Dropped(memory[m])
  <1>1. obj \in Object
    BY DroppedType DEF Tick, KueueTypeOK
  <1>2. cq'[q] = IF q = m THEN [Body(m, obj) EXCEPT !.owner = cq[m].owner]
                 ELSE IF q \in Branches THEN Branched(m, obj, q)
                 ELSE cq[q]
    BY DEF Tick, TickQueues
  <1>3. cq'[q] # NoQueue /\ ~cq'[q].hold /\ <<n, p>> \in cq'[q].flavors
    BY DEF Offers
  <1>4. cq[q] \in ClusterQueue \cup {NoQueue}
    BY DEF KueueTypeOK
  <1> HIDE DEF obj
  <1>5. CASE q = m
    <2>1. cq'[q].flavors = Offer(m, obj)
      BY <1>2, <1>5 DEF Body
    <2> QED BY <1>1, <1>3, <2>1, OfferPools DEF obj
  <1>6. CASE q # m /\ q \notin Branches
    <2>1. q \in Masters /\ cq'[q] = cq[q]
      BY <1>2, <1>6 DEF Queues
    <2>2. <<n, p>>[1] = q
      BY <1>3, <2>1 DEF OwnFlavors
    <2> QED BY <1>3, <1>6, <2>1, <2>2 DEF Offers
  <1>7. CASE q # m /\ q \in Branches
    <2>1. cq'[q] = Branched(m, obj, q)
      BY <1>2, <1>7
    <2>2. CASE Mine(m, q) /\ Withdrawn(m, obj, q)
      BY <1>3, <1>4, <2>1, <2>2 DEF Branched, Mine, ClusterQueue
    <2>3. CASE ~Withdrawn(m, obj, q) /\ (Mine(m, q) \/ cq[q] = NoQueue)
      <3>1. cq'[q].flavors = Lent(m, obj)
        BY <1>4, <2>1, <2>3 DEF Branched, Mine, ClusterQueue
      <3> QED BY <1>1, <1>3, <3>1, OfferPools DEF obj
    <2>4. CASE ~Mine(m, q) /\ ~(cq[q] = NoQueue /\ ~Withdrawn(m, obj, q))
      <3>1. cq'[q] = cq[q]
        BY <2>1, <2>4 DEF Branched
      <3>2. <<n, p>>[1] = cq[q].owner
        BY <1>3, <1>7, <3>1 DEF BranchesAreExclusive
      <3> QED BY <1>3, <2>4, <3>1, <3>2 DEF Mine, Offers
    <2> QED BY <2>2, <2>3, <2>4
  <1> QED BY <1>5, <1>6, <1>7


\* No step but an edit adds to what is owed, and an edit pays for what it adds.
LEMMA UpdatePays ==
    ASSUME KueueTypeOK, KueueTypeOK', NEW m \in Masters, UpdateFnSubscribed(m), Handled(m)
    PROVE  Handled(m)' /\ Spent(m)' = Spent(m) + 1
  <1>1. edits \in Nat /\ edits' = edits
    BY Numbers DEF KueueTypeOK, UpdateFnSubscribed, boundVars
  <1>2. /\ memory[m] # NoQueue /\ pending[m] # NoQueue
        /\ pending[m].spec \in Specs /\ NoQueue \notin Specs
    BY NamesAssumption, ObjectParts DEF UpdateFnSubscribed, KueueTypeOK
  <1>3. /\ memory'[m] # NoQueue /\ pending'[m] = NoQueue
        /\ applied'[m] = pending[m].spec /\ resource'[m] = resource[m]
    <2>1. /\ Renewed(m) \in Object /\ Renewed(m).spec = pending[m].spec
          /\ memory' = [memory EXCEPT ![m] = Renewed(m)]
          /\ applied' = [applied EXCEPT ![m] = Renewed(m).spec]
      BY RenewedParts
    <2>2. memory'[m] # NoQueue /\ applied'[m] = pending[m].spec
      BY <2>1, NamesAssumption DEF KueueTypeOK
    <2>3. pending'[m] = NoQueue /\ resource'[m] = resource[m]
      BY DEF UpdateFnSubscribed, KueueTypeOK
    <2> QED BY <2>2, <2>3
  <1>4. Owed(m) = Owed(m)' + 1 /\ Owed(m)' \in Nat
    BY <1>2, <1>3 DEF Owed
  <1> QED BY <1>1, <1>2, <1>3, <1>4 DEF Handled, Spent

LEMMA HandledStep ==
    ASSUME KueueTypeOK, KueueTypeOK', [Next]_vars, NEW n \in Masters, Handled(n)
    PROVE  Handled(n)' /\ Spent(n)' >= Spent(n)
  <1> USE DEF Handled, Spent
  <1>1. /\ edits \in Nat /\ edits' \in Nat
        /\ Owed(n) \in {0, 1, 2} /\ Owed(n)' \in {0, 1, 2}
    BY Numbers DEF KueueTypeOK, Owed
  <1> DEFINE Goal == Handled(n)' /\ Spent(n)' >= Spent(n)
  <1> SUFFICES Goal
    OBVIOUS
  <1>2. ASSUME memory'[n] = memory[n], rest'[n] = rest[n], echo'[n] = echo[n],
               applied'[n] = applied[n], edits' >= edits + Owed(n)' - Owed(n)
        PROVE  Goal
    BY <1>1, <1>2
  <1>3. ASSUME NEW m \in Masters, CreateFn(m) \/ UpdateFn(m)
        PROVE  Goal
    <2>1. /\ memory' = memory /\ echo' = echo
          /\ applied' = applied /\ edits' = edits /\ resource' = resource
          /\ n # m \/ memory[n] # NoQueue => rest'[n] = rest[n]
          /\ memory[n] = NoQueue => rest'[n] = InitialDelay \/ rest'[n] = rest[n]
      BY <1>3 DEF CreateFn, UpdateFn, k8sVars, boundVars, KueueTypeOK
    <2>2. n = m \/ pending'[n] = pending[n]
      BY <1>3 DEF CreateFn, UpdateFn, KueueTypeOK
    <2>3. n = m => pending[n] = NoQueue /\ pending'[n].spec = resource[n]
      BY <1>3 DEF CreateFn, UpdateFn, KueueTypeOK, New
    <2>4. CASE n = m /\ memory[n] # NoQueue
      <3>1. applied[n] # NoQueue /\ applied[n] # resource[n]
        BY <1>3, <2>4 DEF CreateFn, UpdateFn
      <3>2. Owed(n)' <= Owed(n)
        BY <2>1, <2>3, <2>4, <3>1 DEF Owed
      <3> QED BY <1>1, <1>2, <2>1, <2>4, <3>2
    <2>5. CASE n = m /\ memory[n] = NoQueue
      <3>1. Owed(n)' <= Owed(n)
        BY <2>1, <2>3, <2>5 DEF Owed
      <3>2. InitialDelay <= RetryDelay
        BY Numbers
      <3> QED BY <1>1, <2>1, <2>5, <3>1, <3>2
    <2>6. CASE n # m
      <3>1. Owed(n)' = Owed(n)
        BY <2>1, <2>2, <2>6 DEF Owed
      <3> QED BY <1>1, <1>2, <2>1, <2>6, <3>1
    <2> QED BY <2>4, <2>5, <2>6
  <1>4. ASSUME NEW m \in Masters, CreateFnSubscribed(m)
        PROVE  Goal
    <2>1. /\ rest' = rest /\ edits' = edits /\ resource' = resource
          /\ pending[m] # NoQueue /\ memory[m] = NoQueue
      BY <1>4 DEF CreateFnSubscribed, boundVars
    <2>2. CASE n # m
      <3>1. /\ memory'[n] = memory[n] /\ echo'[n] = echo[n]
            /\ applied'[n] = applied[n] /\ pending'[n] = pending[n]
        BY <1>4, <2>2 DEF CreateFnSubscribed, KueueTypeOK
      <3>2. Owed(n)' = Owed(n)
        BY <2>1, <3>1 DEF Owed
      <3> QED BY <1>1, <1>2, <2>1, <3>1, <3>2
    <2>3. CASE n = m
      <3>1. pending[n].spec \in Specs /\ NoQueue \notin Specs
        BY <2>1, <2>3, ObjectParts, NamesAssumption DEF KueueTypeOK
      <3>2. /\ memory'[n] # NoQueue /\ pending'[n] = NoQueue /\ applied'[n] # NoQueue
            /\ applied'[n] = IF applied[n] = NoQueue THEN pending[n].spec ELSE applied[n]
        BY <1>4, <2>1, <2>3, <3>1 DEF CreateFnSubscribed, KueueTypeOK
      <3>3. Owed(n)' = Owed(n)
        BY <2>1, <2>3, <3>1, <3>2 DEF Owed
      <3> QED BY <1>1, <2>1, <3>2, <3>3
    <2> QED BY <2>2, <2>3
  <1>5. ASSUME NEW m \in Masters, UpdateFnSubscribed(m)
        PROVE  Goal
    <2>1. CASE n # m
      <3>1. /\ memory'[n] = memory[n] /\ echo'[n] = echo[n] /\ rest' = rest /\ edits' = edits
            /\ applied'[n] = applied[n] /\ pending'[n] = pending[n] /\ resource' = resource
        BY <1>5, <2>1, RenewedParts DEF UpdateFnSubscribed, KueueTypeOK, boundVars
      <3>2. Owed(n)' = Owed(n)
        BY <3>1 DEF Owed
      <3> QED BY <1>1, <1>2, <3>1, <3>2
    <2>2. CASE n = m
      <3>1. Handled(n)' /\ Spent(n)' = Spent(n) + 1
        BY <1>5, <2>2, UpdatePays
      <3> QED BY <1>1, <3>1
    <2> QED BY <2>1, <2>2
  <1>6. ASSUME NEW m \in Masters, Tick(m) \/ TickRaises(m)
        PROVE  Goal
    <2>1. /\ applied' = applied /\ pending' = pending /\ resource' = resource /\ edits' = edits
          /\ memory[m] # NoQueue /\ memory' = [memory EXCEPT ![m] = Dropped(memory[m])]
      BY <1>6 DEF Tick, TickQueues, TickRaises, TickUnlabelled, boundVars
    <2>2. Dropped(memory[m]) # NoQueue
      BY <2>1, DroppedType, NamesAssumption DEF KueueTypeOK
    <2>3. memory'[n] = NoQueue <=> memory[n] = NoQueue
      BY <2>1, <2>2 DEF KueueTypeOK
    <2>4. Owed(n)' = Owed(n)
      BY <2>1, <2>3 DEF Owed
    <2>5. n # m => rest'[n] = rest[n] /\ echo'[n] = echo[n]
      BY <1>6 DEF Tick, TickQueues, TickRaises, TickUnlabelled, KueueTypeOK
    <2> QED BY <1>1, <2>1, <2>3, <2>4, <2>5
  <1>7. ASSUME NEW m \in Masters, NEW p \in Pools, UpdateResourcesCb(m, p)
        PROVE  Goal
    <2>1. /\ applied' = applied /\ resource' = resource /\ edits' = edits
          /\ rest' = rest /\ echo' = echo /\ memory[m] # NoQueue
      BY <1>7 DEF UpdateResourcesCb, k8sVars, boundVars
    <2>2. memory'[n] = NoQueue <=> memory[n] = NoQueue
      <3>1. memory'[m] = Echoed(memory[m], p) \/ memory'[m] = Heard(memory[m], p)
        BY <1>7 DEF UpdateResourcesCb, KueueTypeOK
      <3>2. memory[m] \in Object /\ NoQueue \notin Object
        BY <2>1, NamesAssumption DEF KueueTypeOK
      <3>3. Echoed(memory[m], p) \in Object /\ Heard(memory[m], p) \in Object
        BY <3>2, ObjectParts, StampedType, WithStamps, HeardType DEF Echoed
      <3>4. n # m => memory'[n] = memory[n]
        BY <1>7 DEF UpdateResourcesCb, KueueTypeOK
      <3> QED BY <2>1, <3>1, <3>2, <3>3, <3>4
    <2>3. \/ pending'[n] = pending[n]
          \/ /\ pending[n] # NoQueue /\ pending'[n] # NoQueue
             /\ pending'[n].spec = pending[n].spec
      <3>1. ASSUME pending[m] # NoQueue, pending' = [pending EXCEPT ![m] = Heard(pending[m], p)]
            PROVE  /\ n # m => pending'[n] = pending[n]
                   /\ pending'[m] # NoQueue /\ pending'[m].spec = pending[m].spec
        <4>1. pending[m] \in Object /\ Heard(pending[m], p) \in Object
          BY <3>1, HeardType DEF KueueTypeOK
        <4>2. Heard(pending[m], p).spec = pending[m].spec
          BY <4>1 DEF Heard, Object
        <4> QED BY <3>1, <4>1, <4>2, NamesAssumption DEF KueueTypeOK
      <3> QED BY <1>7, <3>1 DEF UpdateResourcesCb
    <2>4. Owed(n)' = Owed(n)
      BY <2>1, <2>2, <2>3 DEF Owed
    <2> QED BY <1>1, <2>1, <2>2, <2>4
  <1>8. ASSUME NEW m \in Masters, NEW spec \in Specs, Edit(m, spec)
        PROVE  Goal
    <2>1. /\ memory' = memory /\ rest' = rest /\ echo' = echo
          /\ applied' = applied /\ pending' = pending /\ edits' = edits + 1
      BY <1>8 DEF Edit
    <2>2. Owed(n)' <= Owed(n) + 1
      BY <2>1 DEF Owed
    <2> QED BY <1>1, <1>2, <2>1, <2>2
  <1>9. CASE Time
    <2>1. /\ applied' = applied /\ pending' = pending /\ resource' = resource /\ edits' = edits
          /\ memory'[n] = IF memory[n] = NoQueue THEN NoQueue ELSE Aged(memory[n])
          /\ rest'[n] = (IF rest[n] > 0 THEN rest[n] - 1 ELSE 0) /\ echo' = echo
      BY <1>9 DEF Time, k8sVars, boundVars
    <2>2. memory'[n] = NoQueue <=> memory[n] = NoQueue
      BY <2>1, AgedType, NamesAssumption DEF KueueTypeOK
    <2>3. Owed(n)' = Owed(n)
      BY <2>1, <2>2 DEF Owed
    <2>4. rest[n] <= RetryDelay => rest'[n] <= RetryDelay
      <3>1. rest[n] \in Nat /\ RetryDelay \in Nat
        BY Numbers DEF KueueTypeOK
      <3> QED BY <2>1, <3>1
    <2> QED BY <1>1, <2>1, <2>2, <2>3, <2>4
  <1>10. CASE Restart
    <2>1. /\ memory'[n] = NoQueue /\ pending'[n] = NoQueue /\ rest'[n] = 0 /\ echo'[n] = {}
          /\ applied' = applied /\ resource' = resource /\ edits' = edits
      BY <1>10 DEF Restart, k8sVars
    <2>2. Owed(n)' <= Owed(n)
      BY <2>1 DEF Owed
    <2> QED BY <1>1, <2>1, <2>2, Numbers
  <1>11. CASE UNCHANGED vars
    <2>1. Owed(n)' = Owed(n) /\ edits' = edits
      BY <1>11 DEF vars, Owed
    <2> QED BY <1>1, <1>11, <2>1 DEF vars
  <1>12. ASSUME NEW m \in Masters, TickUninitialized(m)
         PROVE  Goal
    <2>1. /\ memory' = memory /\ echo' = echo /\ pending' = pending
          /\ applied' = applied /\ edits' = edits /\ resource' = resource
          /\ rest'[n] = rest[n] \/ (memory[n] = NoQueue /\ rest'[n] = RetryDelay)
      BY <1>12 DEF TickUninitialized, k8sVars, boundVars, KueueTypeOK
    <2>2. Owed(n)' = Owed(n) /\ RetryDelay <= RetryDelay
      BY <2>1, Numbers DEF Owed
    <2> QED BY <1>1, <2>1, <2>2
  <1> QED
    BY <1>3, <1>4, <1>5, <1>6, <1>7, <1>8, <1>9, <1>10, <1>11, <1>12 DEF Next, MasterActs

LEMMA StepPays ==
    ASSUME KueueTypeOK, KueueTypeOK', [Next]_vars, NEW m \in Masters, Handled(m)
    PROVE  /\ Handled(m)' /\ Spent(m)' >= Spent(m) /\ Spent(m) \in Nat /\ Spent(m)' \in Nat
           /\ Budget(m) \in Nat /\ Budget(m)' \in Nat /\ Budget(m)' >= Budget(m)
           /\ Enough(Spent(m)', Budget(m)')
           /\ Time /\ memory[m] = NoQueue => Budget(m)' >= Budget(m) + 1
           /\ Restart => Budget(m)' >= Budget(m) + RetryDelay
  <1>1. Handled(m)' /\ Spent(m)' >= Spent(m)
    BY HandledStep
  <1>2. /\ Spent(m) \in Nat /\ Late(m) \in Nat /\ Enough(Spent(m), Budget(m))
        /\ Spent(m)' \in Nat /\ Late(m)' \in Nat /\ Enough(Spent(m)', Budget(m)')
    BY <1>1, BudgetType, BudgetTypeNext
  <1>3. /\ Patience(Spent(m)) <= Patience(Spent(m)')
        /\ Patience(Spent(m)) \in Nat /\ Patience(Spent(m)') \in Nat
    BY <1>1, <1>2, PatienceGrows
  <1>4. /\ Late(m)' >= Late(m) /\ RetryDelay \in Nat
        /\ Time /\ memory[m] = NoQueue => Late(m)' = Late(m) + 1
        /\ Restart => Late(m)' = Late(m) + RetryDelay
    BY LateStep, Numbers
  <1>5. /\ Budget(m) = Patience(Spent(m)) + Late(m)
        /\ Budget(m)' = Patience(Spent(m)') + Late(m)'
    BY DEF Budget
  <1>6. Budget(m) \in Nat /\ Budget(m)' \in Nat
    BY <1>2 DEF Enough
  <1>7. Budget(m)' >= Budget(m)
    BY <1>2, <1>3, <1>4, <1>5
  <1>8. Time /\ memory[m] = NoQueue => Budget(m)' >= Budget(m) + 1
    BY <1>2, <1>3, <1>4, <1>5
  <1>9. Restart => Budget(m)' >= Budget(m) + RetryDelay
    BY <1>2, <1>3, <1>4, <1>5
  <1> QED BY <1>1, <1>2, <1>6, <1>7, <1>8, <1>9


LEMMA OthersKept ==
    ASSUME KueueTypeOK, KueueTypeOK', [Next]_vars, OwnFlavors, BranchesAreExclusive,
           NEW m \in Masters, MasterActs(m), NEW n \in Masters, n # m, Kept(n)
    PROVE  Kept(n)'
  <1> DEFINE Same == /\ memory'[n] = memory[n] /\ echo'[n] = echo[n] /\ rest'[n] = rest[n]
                     /\ heard'[n] = heard[n] /\ pending'[n] = pending[n]
             Fewer == \A p \in Pools, q \in Queues : Offers(q, n, p)' => Offers(q, n, p)
  <1>1. ASSUME cq' = cq PROVE Fewer
    BY <1>1 DEF Offers
  <1>2. ASSUME CreateFn(m) \/ UpdateFn(m)
        PROVE  Same /\ Fewer
    BY <1>1, <1>2 DEF CreateFn, UpdateFn, k8sVars, KueueTypeOK
  <1>3. ASSUME CreateFnSubscribed(m)
        PROVE  Same /\ Fewer
    <2>1. pending[m] \in Object
      BY <1>3 DEF CreateFnSubscribed, KueueTypeOK
    <2>2. ASSUME NEW p \in Pools, NEW q \in Queues, Offers(q, n, p)'
          PROVE  Offers(q, n, p)
      <3>1. cq'[q] = cq[q] \/ cq'[q].flavors = Offer(m, pending[m])
        BY <1>3 DEF CreateFnSubscribed, KueueTypeOK, Body
      <3> QED BY <2>1, <2>2, <3>1, OfferPools DEF Offers
    <2> QED BY <1>3, <2>2 DEF CreateFnSubscribed, KueueTypeOK
  <1>4. ASSUME UpdateFnSubscribed(m)
        PROVE  Same /\ Fewer
    <2>1. /\ Renewed(m) \in Object /\ memory' = [memory EXCEPT ![m] = Renewed(m)]
          /\ cq' = [cq EXCEPT ![m] = [Body(m, Renewed(m)) EXCEPT !.owner = cq[m].owner]]
      BY <1>4, RenewedParts
    <2>2. ASSUME NEW p \in Pools, NEW q \in Queues, Offers(q, n, p)'
          PROVE  Offers(q, n, p)
      <3>1. cq'[q] = cq[q] \/ cq'[q].flavors = Offer(m, Renewed(m))
        BY <2>1 DEF KueueTypeOK, Body
      <3>2. <<n, p>> \notin Offer(m, Renewed(m))
        BY <2>1, OfferPools
      <3> QED BY <2>2, <3>1, <3>2 DEF Offers
    <2> QED BY <1>4, <2>1, <2>2 DEF UpdateFnSubscribed, KueueTypeOK
  <1>5. ASSUME Tick(m)
        PROVE  Same /\ Fewer
    <2>1. Fewer
      BY <1>5, TickOffers
    <2> QED BY <1>5, <2>1 DEF Tick, TickQueues, KueueTypeOK
  <1>6. ASSUME TickRaises(m)
        PROVE  Same /\ Fewer
    BY <1>1, <1>6 DEF TickRaises, TickUnlabelled, KueueTypeOK
  <1>13. ASSUME TickUninitialized(m)
         PROVE  Same /\ Fewer
    BY <1>1, <1>13 DEF TickUninitialized, k8sVars, KueueTypeOK
  <1>7. ASSUME NEW p \in Pools, UpdateResourcesCb(m, p)
        PROVE  Same /\ Fewer
    BY <1>1, <1>7 DEF UpdateResourcesCb, k8sVars, KueueTypeOK
  <1>8. ASSUME NEW spec \in Specs, Edit(m, spec)
        PROVE  Same /\ Fewer
    BY <1>1, <1>8 DEF Edit, KueueTypeOK
  <1>9. Same /\ Fewer
    BY <1>2, <1>3, <1>4, <1>5, <1>6, <1>7, <1>8, <1>13 DEF MasterActs
  <1>10. PendingIsFresh(n)'
    BY <1>9 DEF Kept, PendingIsFresh, Listed
  <1>11. \A p \in Pools : Live(n, p)' => Live(n, p)
    BY <1>9 DEF Live, Listed
  <1>12. Handled(n)' /\ Spent(n)' >= Spent(n) /\ Budget(n)' >= Budget(n)
    BY StepPays DEF Kept
  <1> QED BY <1>9, <1>10, <1>11, <1>12, KeptFrame

LEMMA EditKept ==
    ASSUME KueueTypeOK, KueueTypeOK', [Next]_vars, NEW m \in Masters, Kept(m),
           UpdateFn(m) \/ \E spec \in Specs : Edit(m, spec)
    PROVE  Kept(m)'
  <1>1. /\ memory' = memory /\ echo' = echo /\ rest' = rest /\ heard' = heard /\ cq' = cq
    BY DEF UpdateFn, Edit, k8sVars
  <1>2. pending'[m] = pending[m] \/ pending'[m] = New(resource[m])
    BY DEF UpdateFn, Edit, KueueTypeOK
  <1>3. PendingIsFresh(m)'
    BY <1>1, <1>2 DEF Kept, PendingIsFresh, Listed, New
  <1>4. \A p \in Pools : Live(m, p)' => Live(m, p)
    BY <1>1 DEF Live, Offers, Listed
  <1>5. Handled(m)' /\ Spent(m)' >= Spent(m) /\ Budget(m)' >= Budget(m)
    BY StepPays DEF Kept
  <1> QED BY <1>1, <1>3, <1>4, <1>5, KeptFrame

\* A MasterQueue without an object: its timer cannot tick, and a silence grows with what
\* it may spend.
LEMMA AbsentKept ==
    ASSUME KueueTypeOK, KueueTypeOK', NEW m \in Masters, Kept(m),
           memory[m] = NoQueue, memory'[m] = NoQueue, cq' = cq,
           Handled(m)', Budget(m) \in Nat, Budget(m)' \in Nat, PendingIsFresh(m)',
           \A p \in Pools : heard'[m][p] - heard[m][p] <= Budget(m)' - Budget(m)
    PROVE  Kept(m)'
  <1>1. Unlabelled(m)' = {} /\ echo'[m] = {}
    BY DEF Unlabelled, Handled
  <1>2. StampsAreTrue(m)'
    BY DEF StampsAreTrue
  <1>3. rest'[m] \in Nat /\ rest'[m] <= RetryDelay /\ RetryDelay \in Nat
    BY Numbers DEF KueueTypeOK, Handled
  <1>4. EditsPay(m)'
    BY <1>1, <1>3 DEF EditsPay
  <1>5. ASSUME NEW p \in Pools, Live(m, p)'
        PROVE  InTime(m, p)'
    <2>1. Live(m, p)
      BY <1>5 DEF Live, Offers
    <2>2. Within(heard[m][p], RetryDelay, Budget(m))
      BY <2>1 DEF Kept, LiveInTime, InTime
    <2>3. /\ heard[m][p] \in Nat /\ heard'[m][p] \in Nat
          /\ heard'[m][p] - heard[m][p] <= Budget(m)' - Budget(m)
      BY Numbers DEF KueueTypeOK
    <2>4. Within(heard'[m][p], RetryDelay, Budget(m)')
      BY <1>3, <2>2, <2>3 DEF Within
    <2>5. Within(heard'[m][p], rest'[m], Budget(m)')
      BY <1>3, <2>3, <2>4 DEF Within
    <2> QED BY <1>1, <2>4, <2>5 DEF InTime
  <1> QED BY <1>2, <1>4, <1>5 DEF Kept, LiveInTime

LEMMA StartKept ==
    ASSUME KueueTypeOK, KueueTypeOK', [Next]_vars, NEW m \in Masters, Kept(m),
           CreateFn(m) \/ TickUninitialized(m)
    PROVE  Kept(m)'
  <1>1. /\ memory[m] = NoQueue /\ memory' = memory /\ heard' = heard /\ cq' = cq
        /\ pending'[m] = pending[m] \/ pending'[m] = New(resource[m])
    BY DEF CreateFn, TickUninitialized, k8sVars, KueueTypeOK
  <1>2. PendingIsFresh(m)'
    BY <1>1 DEF Kept, PendingIsFresh, Listed, New
  <1>3. /\ Handled(m)' /\ Budget(m) \in Nat /\ Budget(m)' \in Nat /\ Budget(m)' >= Budget(m)
    BY StepPays DEF Kept
  <1>4. \A p \in Pools : heard'[m][p] - heard[m][p] <= Budget(m)' - Budget(m)
    <2>1. \A p \in Pools : heard'[m][p] = heard[m][p] /\ heard[m][p] \in Nat
      BY <1>1, Numbers DEF KueueTypeOK
    <2> QED BY <1>3, <2>1
  <1> QED BY <1>1, <1>2, <1>3, <1>4, AbsentKept

LEMMA CreateKept ==
    ASSUME KueueTypeOK, KueueTypeOK', [Next]_vars, NEW m \in Masters, Kept(m),
           CreateFnSubscribed(m)
    PROVE  Kept(m)'
  <1>1. /\ memory[m] = NoQueue /\ pending[m] \in Object
        /\ memory'[m] = pending[m] /\ pending'[m] = NoQueue /\ echo'[m] = {}
        /\ rest'[m] = rest[m] /\ rest[m] <= RetryDelay /\ heard' = heard
        /\ memory'[m] # NoQueue
    BY NamesAssumption DEF CreateFnSubscribed, KueueTypeOK, Kept, Handled
  <1>2. pending[m] # NoQueue
    BY DEF CreateFnSubscribed
  <1>3. \A p \in Listed(pending[m]) :
            heard[m][p] = 0 /\ pending[m].stamps[p] = 0 /\ p \in pending[m].labels
    BY <1>2 DEF Kept, PendingIsFresh
  <1>4. /\ Handled(m)' /\ Spent(m)' >= Spent(m) /\ Spent(m) \in Nat /\ Spent(m)' \in Nat
        /\ Budget(m) \in Nat /\ Budget(m)' \in Nat /\ Budget(m)' >= Budget(m)
        /\ Enough(Spent(m)', Budget(m)')
    BY StepPays DEF Kept
  <1>5. Unlabelled(m)' = {}
    BY <1>1, <1>3 DEF Unlabelled, Listed
  <1>6. PendingIsFresh(m)' /\ StampsAreTrue(m)'
    <2>1. PendingIsFresh(m)'
      BY <1>1 DEF PendingIsFresh
    <2>2. StampsAreTrue(m)'
      BY <1>1, <1>3 DEF StampsAreTrue, Listed
    <2> QED BY <2>1, <2>2
  <1>7. EditsPay(m)'
    <2>1. rest[m] \in Nat /\ RetryDelay \in Nat
      BY Numbers DEF KueueTypeOK
    <2> QED BY <1>1, <1>5, <2>1 DEF EditsPay
  <1>8. LiveInTime(m)'
    <2> SUFFICES ASSUME NEW p \in Pools, Live(m, p)'
                 PROVE  InTime(m, p)'
      BY DEF LiveInTime
    <2>1. Live(m, p) \/ p \in Listed(pending[m])
      <3>1. ASSUME NEW q \in Queues, Offers(q, m, p)'
            PROVE  Offers(q, m, p) \/ p \in Listed(pending[m])
        <4>1. cq'[q] = cq[q] \/ cq'[q].flavors = Offer(m, pending[m])
          BY DEF CreateFnSubscribed, KueueTypeOK, Body
        <4> QED BY <1>1, <3>1, <4>1, OfferPools DEF Offers
      <3> QED BY <1>1, <3>1 DEF Live, Listed
    <2>2. /\ heard[m][p] \in Nat /\ rest[m] \in Nat /\ RetryDelay \in Nat
          /\ Timeout \in Nat
      BY Numbers DEF KueueTypeOK
    <2>3. Within(heard[m][p], rest[m], Budget(m)')
      <3>1. CASE Live(m, p)
        <4>1. Within(heard[m][p], rest[m], Budget(m))
          BY <1>1, <3>1 DEF Kept, LiveInTime, InTime
        <4> QED BY <1>4, <2>2, <4>1, WithinLonger
      <3>2. CASE p \in Listed(pending[m])
        <4>1. heard[m][p] = 0 /\ Budget(m)' >= Timeout + RetryDelay
          BY <1>3, <1>4, <3>2 DEF Enough
        <4> QED BY <1>1, <1>4, <2>2, <4>1 DEF Within
      <3> QED BY <2>1, <3>1, <3>2
    <2> QED BY <1>1, <1>5, <2>3 DEF InTime
  <1> QED BY <1>4, <1>6, <1>7, <1>8 DEF Kept


\* An edit that has been handled pays for a table that was taken over.
LEMMA EditPays ==
    ASSUME NEW h \in Nat, NEW r \in Nat, NEW b \in Nat, Within(h, r, b),
           NEW c \in Nat, c = b + Timeout + Backoff
    PROVE  /\ Within(h, r, c) /\ Within(h + r, Timeout + Backoff - 1, c)
           /\ \A s \in 0..Timeout : Within(h + (Timeout - s), Backoff - 1, c)
  BY Numbers DEF Within

LEMMA UpdateKept ==
    ASSUME KueueTypeOK, KueueTypeOK', NEW m \in Masters, Kept(m), UpdateFnSubscribed(m)
    PROVE  Kept(m)'
  <1>1. /\ memory[m] \in Object /\ pending[m] \in Object /\ Renewed(m) \in Object
        /\ memory'[m] = Renewed(m) /\ pending'[m] = NoQueue
        /\ rest' = rest /\ heard' = heard
    <2>1. /\ memory[m] \in Object /\ pending[m] \in Object /\ Renewed(m) \in Object
          /\ memory' = [memory EXCEPT ![m] = Renewed(m)]
      BY RenewedParts
    <2>2. pending' = [pending EXCEPT ![m] = NoQueue] /\ rest' = rest /\ heard' = heard
      BY DEF UpdateFnSubscribed
    <2> QED BY <2>1, <2>2 DEF KueueTypeOK
  <1>2. memory[m] # NoQueue /\ pending[m] # NoQueue
    BY DEF UpdateFnSubscribed
  <1>3. \A p \in Listed(pending[m]) :
            heard[m][p] = 0 /\ pending[m].stamps[p] = 0 /\ p \in pending[m].labels
    BY <1>2 DEF Kept, PendingIsFresh
  <1>4. /\ Handled(m)' /\ Spent(m)' = Spent(m) + 1 /\ Spent(m) \in Nat
        /\ Spent(m)' \in Nat /\ Spent(m)' >= 1
        /\ Budget(m) \in Nat /\ Budget(m)' = Budget(m) + Timeout + Backoff
        /\ Budget(m)' \in Nat /\ Enough(Spent(m)', Budget(m)')
    <2>1. Handled(m)' /\ Spent(m)' = Spent(m) + 1
      BY UpdatePays DEF Kept
    <2>2. /\ Spent(m) \in Nat /\ Late(m) \in Nat /\ Budget(m) \in Nat
          /\ Budget(m)' \in Nat /\ Enough(Spent(m)', Budget(m)')
      BY <2>1, BudgetType, BudgetTypeNext DEF Kept, Enough
    <2>3. outage' = outage /\ restarts' = restarts
      BY DEF UpdateFnSubscribed, boundVars
    <2>4. /\ Patience(Spent(m) + 1) = Patience(Spent(m)) + Timeout + Backoff
          /\ Patience(Spent(m)) \in Nat
      BY <2>2, PatienceGrows
    <2>5. Budget(m)' = Patience(Spent(m) + 1) + Late(m) /\ Budget(m) = Patience(Spent(m)) + Late(m)
      BY <2>1, <2>3 DEF Budget, Late
    <2>6. Budget(m)' = Budget(m) + Timeout + Backoff
      BY <2>2, <2>4, <2>5, Numbers
    <2> QED BY <2>1, <2>2, <2>6
  <1>5. Renewed(m).stamps = memory[m].stamps \/ Renewed(m) = pending[m]
    BY RenewedParts
  <1>6. /\ rest[m] \in Nat /\ (rest[m] <= Backoff \/ rest[m] <= RetryDelay)
        /\ RetryDelay \in Nat /\ \A p \in Pools : heard[m][p] \in Nat
        /\ memory'[m] # NoQueue
    BY <1>1, Numbers, NamesAssumption DEF KueueTypeOK
  <1>7. rest[m] > RetryDelay => Spent(m)' >= 2
    BY <1>4 DEF Kept, EditsPay
  <1>8. PendingIsFresh(m)' /\ StampsAreTrue(m)'
    <2>1. PendingIsFresh(m)'
      BY <1>1 DEF PendingIsFresh
    <2>2. ASSUME Renewed(m) = pending[m]
          PROVE  StampsAreTrue(m)'
      BY <1>1, <1>3, <2>2 DEF StampsAreTrue, Listed
    <2>3. ASSUME Renewed(m).stamps = memory[m].stamps
          PROVE  StampsAreTrue(m)'
      BY <1>1, <1>2, <2>3 DEF Kept, StampsAreTrue, Listed
    <2> QED BY <1>5, <2>1, <2>2, <2>3
  <1>9. EditsPay(m)'
    BY <1>1, <1>4, <1>7 DEF EditsPay
  <1>10. \A u \in Unlabelled(m)' : memory'[m].stamps[u] \in 0..Timeout
    BY <1>1, AgeType DEF Unlabelled
  <1>11. LiveInTime(m)'
    <2> SUFFICES ASSUME NEW p \in Pools, Live(m, p)'
                 PROVE  InTime(m, p)'
      BY DEF LiveInTime
    <2>1. Live(m, p) \/ p \in Listed(pending[m])
      <3>1. Live(m, p) \/ p \in Listed(pending[m]) \/ p \in Listed(Renewed(m))
        <4>1. ASSUME NEW q \in Queues, Offers(q, m, p)'
              PROVE  Offers(q, m, p) \/ p \in Listed(Renewed(m))
          <5>1. cq' = [cq EXCEPT ![m] = [Body(m, Renewed(m)) EXCEPT !.owner = cq[m].owner]]
            BY RenewedParts
          <5>2. cq'[q] = cq[q] \/ cq'[q].flavors = Offer(m, Renewed(m))
            BY <5>1 DEF KueueTypeOK, Body
          <5>3. <<m, p>> \in Offer(m, Renewed(m)) => p \in Listed(Renewed(m))
            BY <1>1, OfferPools
          <5> QED BY <4>1, <5>2, <5>3 DEF Offers
        <4> QED BY <1>1, <4>1 DEF Live, Listed
      <3>2. p \in Listed(Renewed(m)) => p \in Listed(memory[m]) \/ p \in Listed(pending[m])
        BY <1>5 DEF Listed
      <3> QED BY <1>2, <3>1, <3>2 DEF Live
    <2>2. CASE Live(m, p)
      <3>1. Within(heard[m][p], rest[m], Budget(m))
        BY <2>2 DEF Kept, LiveInTime, InTime
      <3> DEFINE h == heard[m][p]
                 r == rest[m]
                 c == Budget(m)'
      <3>2. /\ Within(h, r, c) /\ Within(h + r, Timeout + Backoff - 1, c)
            /\ \A s \in 0..Timeout : Within(h + (Timeout - s), Backoff - 1, c)
        BY <1>4, <1>6, <3>1, EditPays
      <3> QED BY <1>1, <1>6, <1>10, <3>2 DEF InTime
    <2>3. CASE heard[m][p] = 0
      <3>1. /\ Budget(m)' >= Timeout + Timeout + Backoff + RetryDelay
            /\ rest[m] > RetryDelay => Budget(m)' >= Timeout + 2 * (Timeout + Backoff) + RetryDelay
        BY <1>4, <1>7 DEF Enough
      <3> DEFINE P == Budget(m)'
                 r == rest[m]
      <3>2. /\ 0 + r <= P /\ 0 + r + (Timeout + Backoff - 1) <= P
            /\ \A s \in 0..Timeout : 0 + (Timeout - s) + (Backoff - 1) <= P
        <4>1. /\ r \in Nat /\ (r <= Backoff \/ r <= RetryDelay) /\ RetryDelay \in Nat
              /\ P \in Nat /\ P >= Timeout + Timeout + Backoff + RetryDelay
              /\ (r > RetryDelay => P >= Timeout + 2 * (Timeout + Backoff) + RetryDelay)
          BY <1>4, <1>6, <3>1
        <4> HIDE DEF P, r
        <4>2. Timeout \in Nat \ {0} /\ Backoff \in Nat \ {0}
          BY Numbers
        <4> QED BY <4>1, <4>2
      <3> QED BY <1>1, <1>6, <1>10, <2>3, <3>2 DEF InTime, Within
    <2> QED BY <1>3, <2>1, <2>2, <2>3
  <1> QED BY <1>4, <1>8, <1>9, <1>11 DEF Kept


\* What a timer keeps of the table.
LEMMA DroppedTable ==
    ASSUME NEW obj \in Object
    PROVE  /\ Dropped(obj).labels = obj.labels
           /\ \A p \in Listed(Dropped(obj)) :
                /\ p \in Listed(obj) /\ obj.stamps[p] \in Nat /\ obj.stamps[p] < Timeout
                /\ Dropped(obj).stamps[p] = obj.stamps[p]
           /\ Listed(obj) # {} => Real(obj)
  <1>1. CASE Real(obj) /\ obj.stamps # NoTable
    <2> DEFINE S == {q \in DOMAIN obj.stamps : obj.stamps[q] < Timeout}
               t == [p \in S |-> obj.stamps[p]]
    <2>1. Dropped(obj) = [obj EXCEPT !.stamps = t]
      BY <1>1 DEF Dropped
    <2> HIDE DEF t
    <2>2. Dropped(obj).labels = obj.labels /\ Dropped(obj).stamps = t
      BY <2>1 DEF Object
    <2>3. obj.stamps \in Table
      BY <1>1, ObjectParts
    <2>4. \A p \in S : p \in Listed(obj) /\ obj.stamps[p] \in Nat /\ obj.stamps[p] < Timeout
      BY <1>1, <2>3, OfTable, Numbers DEF Listed
    <2>5. DOMAIN t = S /\ \A p \in S : t[p] = obj.stamps[p]
      BY DEF t
    <2>6. \A p \in Listed(Dropped(obj)) : p \in S
      BY <2>2, <2>5 DEF Listed
    <2> HIDE DEF S
    <2> QED BY <1>1, <2>2, <2>4, <2>5, <2>6
  <1>2. CASE ~Real(obj) \/ obj.stamps = NoTable
    <2>1. Listed(obj) = {} /\ Dropped(obj) = obj
      BY <1>2 DEF Dropped, Real, Listed
    <2> QED BY <2>1
  <1> QED BY <1>1, <1>2

LEMMA TickKept ==
    ASSUME KueueTypeOK, KueueTypeOK', [Next]_vars, OwnFlavors, BranchesAreExclusive,
           NEW m \in Masters, Kept(m), Tick(m)
    PROVE  Kept(m)'
  <1> DEFINE obj == Dropped(memory[m])
  <1>1. /\ memory[m] # NoQueue /\ memory[m] \in Object /\ obj \in Object /\ rest[m] = 0
        /\ memory'[m] = obj /\ pending' = pending /\ rest'[m] = 1 /\ heard' = heard
        /\ memory'[m] # NoQueue /\ Listed(obj) \subseteq obj.labels
        /\ echo'[m] = IF Real(memory[m]) THEN {} ELSE echo[m]
    BY DroppedType, NamesAssumption DEF Tick, TickQueues, KueueTypeOK
  <1>2. /\ Handled(m)' /\ Spent(m)' >= Spent(m) /\ Spent(m) \in Nat /\ Spent(m)' \in Nat
        /\ Budget(m) \in Nat /\ Budget(m)' \in Nat /\ Budget(m)' >= Budget(m)
        /\ Enough(Spent(m)', Budget(m)')
    BY StepPays DEF Kept
  <1>3. \A p \in Listed(obj) :
            /\ p \in Listed(memory[m]) /\ memory[m].stamps[p] \in Nat
            /\ memory[m].stamps[p] < Timeout /\ obj.stamps[p] = memory[m].stamps[p]
    BY <1>1, DroppedTable
  <1>4. Listed(memory[m]) # {} => Real(memory[m])
    BY <1>1, DroppedTable
  <1> HIDE DEF obj
  <1>5. Unlabelled(m)' = {}
    BY <1>1 DEF Unlabelled, Listed
  <1>6. PendingIsFresh(m)'
    BY <1>1 DEF Kept, PendingIsFresh, Listed
  <1>7. StampsAreTrue(m)'
    <2>1. \A p \in Listed(obj) : heard[m][p] <= obj.stamps[p]
      BY <1>1, <1>3, Numbers DEF Kept, StampsAreTrue
    <2> QED BY <1>1, <2>1 DEF StampsAreTrue, Listed
  <1>8. EditsPay(m)'
    <2>1. (echo'[m] # {} => echo[m] # {}) /\ ~(1 > RetryDelay)
      BY <1>1, Numbers
    <2> QED BY <1>1, <1>2, <1>5, <2>1 DEF Kept, EditsPay
  <1>9. LiveInTime(m)'
    <2> SUFFICES ASSUME NEW p \in Pools, Live(m, p)'
                 PROVE  InTime(m, p)'
      BY DEF LiveInTime
    <2>1. p \in Listed(obj)
      <3>1. ASSUME NEW q \in Queues, Offers(q, m, p)'
            PROVE  p \in Listed(obj)
        BY <3>1, TickOffers DEF obj
      <3> QED BY <1>1, <3>1 DEF Live, Listed
    <2>2. echo'[m] = {}
      BY <1>1, <1>3, <1>4, <2>1
    <2>3. heard[m][p] \in Nat /\ heard[m][p] <= memory[m].stamps[p]
      BY <1>1, <1>3, <2>1, Numbers DEF Kept, StampsAreTrue, KueueTypeOK
    <2>4. Budget(m)' \in Nat /\ Budget(m)' >= Timeout + RetryDelay
      BY <1>2 DEF Enough
    <2>5. Within(heard[m][p], 1, Budget(m)')
      BY <1>3, <2>1, <2>3, <2>4, Numbers DEF Within
    <2> QED BY <1>1, <1>5, <2>2, <2>5 DEF InTime
  <1> QED BY <1>2, <1>6, <1>7, <1>8, <1>9 DEF Kept

LEMMA TickRaisesKept ==
    ASSUME KueueTypeOK, KueueTypeOK', [Next]_vars, NEW m \in Masters, Kept(m), TickRaises(m)
    PROVE  Kept(m)'
  <1> DEFINE obj == Dropped(memory[m])
  <1>1. /\ memory[m] # NoQueue /\ memory[m] \in Object /\ obj \in Object /\ rest[m] = 0
        /\ memory'[m] = obj /\ pending' = pending /\ rest'[m] = Backoff /\ heard' = heard
        /\ memory'[m] # NoQueue
        /\ ~(Listed(obj) \subseteq obj.labels) /\ cq' = cq /\ echo'[m] = {}
    BY DroppedType, NamesAssumption DEF TickRaises, TickUnlabelled, KueueTypeOK
  <1>2. /\ Handled(m)' /\ Spent(m)' >= Spent(m) /\ Spent(m) \in Nat /\ Spent(m)' \in Nat
        /\ Budget(m) \in Nat /\ Budget(m)' \in Nat /\ Budget(m)' >= Budget(m)
        /\ Enough(Spent(m)', Budget(m)')
    BY StepPays DEF Kept
  <1>3. /\ obj.labels = memory[m].labels
        /\ \A p \in Listed(obj) :
            /\ p \in Listed(memory[m]) /\ memory[m].stamps[p] \in Nat
            /\ memory[m].stamps[p] < Timeout /\ obj.stamps[p] = memory[m].stamps[p]
    BY <1>1, DroppedTable
  <1> HIDE DEF obj
  <1>4. /\ Unlabelled(m)' = Listed(obj) \ obj.labels
        /\ \A u \in Unlabelled(m)' : u \in Listed(obj) /\ u \in Unlabelled(m)
    <2>1. memory'[m] # NoQueue
      BY <1>1, NamesAssumption
    <2>2. Unlabelled(m)' = Listed(obj) \ obj.labels
      BY <1>1, <2>1 DEF Unlabelled, Listed
    <2> QED BY <1>1, <1>3, <2>2 DEF Unlabelled
  <1>5. PICK late : late \in Unlabelled(m)'
    BY <1>1, <1>4
  <1>6. PendingIsFresh(m)'
    BY <1>1 DEF Kept, PendingIsFresh, Listed
  <1>7. StampsAreTrue(m)'
    <2>1. \A p \in Listed(obj) : heard[m][p] <= obj.stamps[p]
      BY <1>1, <1>3, Numbers DEF Kept, StampsAreTrue
    <2> QED BY <1>1, <2>1 DEF StampsAreTrue, Listed
  <1>8. EditsPay(m)'
    <2>1. Spent(m) >= 1
      BY <1>4, <1>5 DEF Kept, EditsPay
    <2> QED BY <1>1, <1>2, <2>1 DEF EditsPay
  <1>9. LiveInTime(m)'
    <2> SUFFICES ASSUME NEW p \in Pools, Live(m, p)'
                 PROVE  InTime(m, p)'
      BY DEF LiveInTime
    <2>1. Live(m, p)
      BY <1>1, <1>3 DEF Live, Offers, Listed
    <2>2. InTime(m, p)
      BY <2>1 DEF Kept, LiveInTime
    <2>3. heard[m][p] \in Nat
      BY Numbers DEF KueueTypeOK
    <2>4. \A u \in Unlabelled(m)' :
              /\ obj.stamps[u] \in Nat /\ obj.stamps[u] < Timeout
              /\ Within(heard[m][p] + (Timeout - obj.stamps[u]), Backoff - 1, Budget(m)')
      <3> SUFFICES ASSUME NEW u \in Unlabelled(m)'
                   PROVE  /\ obj.stamps[u] \in Nat /\ obj.stamps[u] < Timeout
                          /\ Within(heard[m][p] + (Timeout - obj.stamps[u]), Backoff - 1, Budget(m)')
        OBVIOUS
      <3>1. /\ u \in Unlabelled(m) /\ obj.stamps[u] = memory[m].stamps[u]
            /\ obj.stamps[u] \in Nat /\ obj.stamps[u] < Timeout
        BY <1>3, <1>4
      <3>2. memory[m].stamps[u] + rest[m] < Timeout
        BY <1>1, <3>1
      <3>3. Within(heard[m][p] + (Timeout - obj.stamps[u]), Backoff - 1, Budget(m))
        BY <2>2, <3>1, <3>2 DEF InTime
      <3>4. heard[m][p] + (Timeout - obj.stamps[u]) \in Int /\ Backoff - 1 \in Int
        BY <2>3, <3>1, Numbers
      <3> QED BY <1>2, <3>1, <3>3, <3>4, WithinLonger
    <2>5. Within(heard[m][p], Backoff, Budget(m)')
      <3>1. /\ obj.stamps[late] \in Nat /\ obj.stamps[late] < Timeout
            /\ Within(heard[m][p] + (Timeout - obj.stamps[late]), Backoff - 1, Budget(m)')
        BY <1>5, <2>4
      <3> QED BY <1>2, <2>3, <3>1, Numbers DEF Within
    <2> QED BY <1>1, <2>4, <2>5 DEF InTime
  <1> QED BY <1>2, <1>6, <1>7, <1>8, <1>9 DEF Kept


\* What an announcement writes to a table.
LEMMA StampedParts ==
    ASSUME NEW obj \in Object, NEW p \in Pools, NEW new,
           new.stamps = Stamped(obj.stamps, p)
    PROVE  \A l \in Listed(new) :
              \/ l = p /\ new.stamps[l] = 0
              \/ l \in Listed(obj) /\ new.stamps[l] = obj.stamps[l]
  BY DEF Stamped, Listed

LEMMA HeardParts ==
    ASSUME NEW obj \in Object, NEW p \in Pools
    PROVE  /\ \A l \in Listed(Heard(obj, p)) :
                \/ l = p /\ Heard(obj, p).stamps[l] = 0 /\ p \in Heard(obj, p).labels
                \/ l \in Listed(obj) /\ Heard(obj, p).stamps[l] = obj.stamps[l]
           /\ obj.labels \subseteq Heard(obj, p).labels
  <1>1. CASE p \in obj.spec.pools
    <2>1. Heard(obj, p).stamps = Stamped(obj.stamps, p) /\ Heard(obj, p).labels = obj.labels \cup {p}
      BY <1>1 DEF Heard, Object
    <2> QED BY <2>1, StampedParts
  <1>2. CASE p \notin obj.spec.pools
    BY <1>2 DEF Heard
  <1> QED BY <1>1, <1>2

LEMMA EchoedParts ==
    ASSUME NEW obj \in Object, NEW p \in Pools
    PROVE  /\ \A l \in Listed(Echoed(obj, p)) :
                \/ l = p /\ Echoed(obj, p).stamps[l] = 0
                \/ l \in Listed(obj) /\ Echoed(obj, p).stamps[l] = obj.stamps[l]
           /\ obj.labels = Echoed(obj, p).labels
           /\ Echoed(obj, p) \in Object
  <1>1. Echoed(obj, p).stamps = Stamped(obj.stamps, p) /\ Echoed(obj, p).labels = obj.labels
    BY DEF Echoed, Object
  <1>2. Echoed(obj, p) \in Object
    BY ObjectParts, StampedType, WithStamps DEF Echoed
  <1> QED BY <1>1, <1>2, StampedParts

LEMMA HeardKept ==
    ASSUME KueueTypeOK, KueueTypeOK', [Next]_vars, NEW m \in Masters, Kept(m),
           NEW p \in Pools, UpdateResourcesCb(m, p)
    PROVE  Kept(m)'
  <1> DEFINE old == memory[m]
  <1>1. /\ old # NoQueue /\ old \in Object /\ rest' = rest /\ echo' = echo /\ cq' = cq
        /\ heard'[m][p] = 0 /\ \A l \in Pools : l # p => heard'[m][l] = heard[m][l]
        /\ \A l \in Pools : heard[m][l] \in Nat
    BY Numbers DEF UpdateResourcesCb, KueueTypeOK, k8sVars
  <1>2. /\ Handled(m)' /\ Spent(m)' >= Spent(m) /\ Spent(m) \in Nat /\ Spent(m)' \in Nat
        /\ Budget(m) \in Nat /\ Budget(m)' \in Nat /\ Budget(m)' >= Budget(m)
        /\ Enough(Spent(m)', Budget(m)')
    BY StepPays DEF Kept
  <1>3. \/ p \in echo[m] /\ memory'[m] = Echoed(old, p)
        \/ memory'[m] = Heard(old, p)
    BY DEF UpdateResourcesCb, KueueTypeOK
  <1>4. memory'[m] \in Object /\ memory'[m] # NoQueue
    BY <1>1, <1>3, HeardType, EchoedParts, NamesAssumption
  <1>5. \A l \in Listed(memory'[m]) :
            \/ l = p /\ memory'[m].stamps[l] = 0
            \/ l \in Listed(old) /\ memory'[m].stamps[l] = old.stamps[l]
    BY <1>1, <1>3, HeardParts, EchoedParts
  <1>6. Unlabelled(m)' = Listed(memory'[m]) \ memory'[m].labels
    BY <1>4 DEF Unlabelled, Listed
  <1>7. \A u \in Unlabelled(m)' :
            \/ u \in Unlabelled(m) /\ memory'[m].stamps[u] = old.stamps[u]
            \/ u = p /\ memory'[m].stamps[u] = 0 /\ echo[m] # {}
    <2>1. CASE memory'[m] = Heard(old, p)
      BY <1>1, <1>6, <2>1, HeardParts DEF Unlabelled
    <2>2. CASE p \in echo[m] /\ memory'[m] = Echoed(old, p)
      BY <1>1, <1>6, <2>2, EchoedParts DEF Unlabelled
    <2> QED BY <1>3, <2>1, <2>2
  <1>8. \A u \in Unlabelled(m)' : memory'[m].stamps[u] \in 0..Timeout
    BY <1>4, <1>6, AgeType
  <1> HIDE DEF old
  <1>9. PendingIsFresh(m)'
    <2>1. pending[m] # NoQueue =>
              \A l \in Listed(pending[m]) :
                  /\ heard[m][l] = 0 /\ pending[m].stamps[l] = 0 /\ l \in pending[m].labels
                  /\ l \in Pools
      BY AgeType DEF Kept, PendingIsFresh, KueueTypeOK
    <2>2. CASE pending' = pending
      BY <1>1, <2>1, <2>2 DEF PendingIsFresh, Listed
    <2>3. CASE pending[m] # NoQueue /\ pending'[m] = Heard(pending[m], p)
      <3>1. pending[m] \in Object
        BY <2>3 DEF KueueTypeOK
      <3>2. \A l \in Listed(pending'[m]) :
                \/ l = p /\ pending'[m].stamps[l] = 0 /\ p \in pending'[m].labels
                \/ l \in Listed(pending[m]) /\ pending'[m].stamps[l] = pending[m].stamps[l]
                   /\ l \in pending'[m].labels
        BY <2>1, <2>3, <3>1, HeardParts
      <3>3. \A l \in Listed(pending'[m]) :
                heard'[m][l] = 0 /\ pending'[m].stamps[l] = 0 /\ l \in pending'[m].labels
        BY <1>1, <2>1, <2>3, <3>2
      <3> QED BY <3>3 DEF PendingIsFresh, Listed
    <2> QED BY <2>2, <2>3 DEF UpdateResourcesCb, KueueTypeOK
  <1>10. StampsAreTrue(m)'
    <2>1. \A l \in Listed(old) : heard[m][l] <= old.stamps[l] \/ old.stamps[l] = Timeout
      BY <1>1 DEF Kept, StampsAreTrue, old
    <2>2. \A l \in Listed(memory'[m]) : l \in Pools /\ memory'[m].stamps[l] \in Nat
      BY <1>4, AgeType, Numbers
    <2>3. ASSUME NEW l \in Listed(memory'[m])
          PROVE  heard'[m][l] <= memory'[m].stamps[l] \/ memory'[m].stamps[l] = Timeout
      <3>1. CASE l = p
        BY <1>1, <2>2, <3>1
      <3>2. CASE l # p
        BY <1>1, <1>5, <2>1, <2>2, <3>2
      <3> QED BY <3>1, <3>2
    <2> QED BY <2>3 DEF StampsAreTrue, Listed
  <1>11. EditsPay(m)'
    <2>1. Unlabelled(m)' # {} => Unlabelled(m) # {} \/ echo[m] # {}
      BY <1>7
    <2> QED BY <1>1, <1>2, <2>1 DEF Kept, EditsPay
  <1>12. LiveInTime(m)'
    <2> SUFFICES ASSUME NEW l \in Pools, Live(m, l)'
                 PROVE  InTime(m, l)'
      BY DEF LiveInTime
    <2>1. /\ rest[m] \in Nat /\ (rest[m] <= Backoff \/ rest[m] <= RetryDelay)
          /\ RetryDelay \in Nat
      BY Numbers DEF KueueTypeOK
    <2>2. CASE l = p
      <3> DEFINE P == Budget(m)'
                 r == rest[m]
      <3>1. /\ P \in Nat /\ P >= Timeout + RetryDelay
            /\ Spent(m)' >= 1 => P >= Timeout + Timeout + Backoff + RetryDelay
            /\ Spent(m)' >= 2 => P >= Timeout + 2 * (Timeout + Backoff) + RetryDelay
        BY <1>2 DEF Enough
      <3>2. /\ r > RetryDelay => P >= Timeout + Timeout + Backoff + RetryDelay
            /\ Unlabelled(m)' # {} => P >= Timeout + Timeout + Backoff + RetryDelay
            /\ echo[m] # {} => P >= Timeout + Timeout + Backoff + RetryDelay
            /\ r > RetryDelay /\ echo[m] # {} => P >= Timeout + 2 * (Timeout + Backoff) + RetryDelay
        BY <1>1, <1>11, <3>1 DEF EditsPay
      <3> HIDE DEF P, r
      <3>3. r \in Nat /\ (r <= Backoff \/ r <= RetryDelay) /\ RetryDelay \in Nat
        BY <2>1 DEF r
      <3>4. /\ 0 + r <= P
            /\ Unlabelled(m)' # {} => \A s \in 0..Timeout : 0 + (Timeout - s) + (Backoff - 1) <= P
            /\ echo[m] # {} => 0 + r + (Timeout + Backoff - 1) <= P
        <4>1. Timeout \in Nat \ {0} /\ Backoff \in Nat \ {0}
          BY Numbers
        <4> QED BY <3>1, <3>2, <3>3, <4>1
      <3> QED BY <1>1, <1>4, <1>8, <2>2, <3>4 DEF InTime, Within, P, r
    <2>3. CASE l # p
      <3>1. Live(m, l)
        BY <1>1, <1>5, <2>3 DEF Live, Offers, Listed, old
      <3>2. InTime(m, l) /\ heard'[m][l] = heard[m][l] /\ heard[m][l] \in Nat
        BY <1>1, <2>3, <3>1 DEF Kept, LiveInTime
      <3>3. \A h, r \in Int : Within(h, r, Budget(m)) => Within(h, r, Budget(m)')
        BY <1>2, WithinLonger
      <3>4. ASSUME NEW u \in Unlabelled(m)', memory'[m].stamps[u] + rest[m] < Timeout
            PROVE  Within(heard[m][l] + (Timeout - memory'[m].stamps[u]), Backoff - 1, Budget(m)')
        <4>1. CASE u \in Unlabelled(m) /\ memory'[m].stamps[u] = old.stamps[u]
          <5>1. Within(heard[m][l] + (Timeout - memory'[m].stamps[u]), Backoff - 1, Budget(m))
            BY <3>2, <3>4, <4>1 DEF InTime, old
          <5>2. heard[m][l] + (Timeout - memory'[m].stamps[u]) \in Int /\ Backoff - 1 \in Int
            BY <1>8, <3>2, Numbers
          <5> QED BY <3>3, <5>1, <5>2
        <4>2. CASE u = p /\ memory'[m].stamps[u] = 0 /\ echo[m] # {}
          <5>1. Within(heard[m][l] + rest[m], Timeout + Backoff - 1, Budget(m)')
            BY <2>1, <3>2, <3>3, <4>2, Numbers DEF InTime
          <5> QED BY <1>2, <2>1, <3>2, <4>2, <5>1, Numbers DEF Within
        <4> QED BY <1>7, <4>1, <4>2
      <3>5. Within(heard[m][l], rest[m], Budget(m)')
        BY <2>1, <3>2, <3>3 DEF InTime
      <3>6. echo[m] # {} => Within(heard[m][l] + rest[m], Timeout + Backoff - 1, Budget(m)')
        BY <2>1, <3>2, <3>3, Numbers DEF InTime
      <3> QED BY <1>1, <1>4, <3>2, <3>4, <3>5, <3>6 DEF InTime
    <2> QED BY <2>2, <2>3
  <1> QED BY <1>2, <1>9, <1>10, <1>11, <1>12 DEF Kept


LEMMA AgedParts ==
    ASSUME NEW obj \in Object
    PROVE  /\ Listed(Aged(obj)) = Listed(obj) /\ Aged(obj).labels = obj.labels
           /\ \A p \in Listed(obj) :
                Aged(obj).stamps[p] = IF obj.stamps[p] < Timeout THEN obj.stamps[p] + 1 ELSE Timeout
  <1>1. CASE obj.stamps # NoTable
    <2> DEFINE t == [p \in DOMAIN obj.stamps |->
                        IF obj.stamps[p] < Timeout THEN obj.stamps[p] + 1 ELSE Timeout]
    <2>1. Aged(obj) = [obj EXCEPT !.stamps = t]
      BY <1>1 DEF Aged
    <2> HIDE DEF t
    <2>2. Aged(obj).labels = obj.labels /\ Aged(obj).stamps = t
      BY <2>1 DEF Object
    <2>3. DOMAIN t = Listed(obj) /\ \A p \in Listed(obj) :
              t[p] = IF obj.stamps[p] < Timeout THEN obj.stamps[p] + 1 ELSE Timeout
      BY <1>1 DEF t, Listed
    <2>4. t # NoTable
      <3>1. obj.stamps \in Table
        BY <1>1, ObjectParts
      <3>2. /\ DOMAIN obj.stamps \in SUBSET Pools
            /\ \A p \in DOMAIN obj.stamps : obj.stamps[p] \in 0..Timeout
        BY <3>1, OfTable
      <3>3. t \in [DOMAIN obj.stamps -> 0..Timeout]
        BY <3>2, Numbers DEF t
      <3> QED BY <3>2, <3>3, InTable, NamesAssumption
    <2> QED BY <2>2, <2>3, <2>4 DEF Listed
  <1>2. CASE obj.stamps = NoTable
    BY <1>2 DEF Aged, Listed
  <1> QED BY <1>1, <1>2

LEMMA TimeAbsentKept ==
    ASSUME KueueTypeOK, KueueTypeOK', [Next]_vars, NEW m \in Masters, Kept(m), Time,
           memory[m] = NoQueue
    PROVE  Kept(m)'
  <1>1. /\ memory'[m] = NoQueue /\ cq' = cq /\ pending' = pending
        /\ pending[m] # NoQueue => pending[m].stamps = NoTable
    BY DEF Time, k8sVars
  <1>2. PendingIsFresh(m)'
    BY <1>1 DEF PendingIsFresh, Listed
  <1>3. /\ Handled(m)' /\ Budget(m) \in Nat /\ Budget(m)' \in Nat
        /\ Budget(m)' >= Budget(m) + 1
    BY StepPays DEF Kept
  <1>4. \A p \in Pools : heard'[m][p] - heard[m][p] <= Budget(m)' - Budget(m)
    <2>1. \A p \in Pools : /\ heard[m][p] \in Nat /\ heard'[m][p] \in Nat
                           /\ heard'[m][p] <= heard[m][p] + 1
      BY Numbers DEF Time, KueueTypeOK
    <2> QED BY <1>3, <2>1
  <1> QED BY <1>1, <1>2, <1>3, <1>4, AbsentKept

LEMMA TimeKept ==
    ASSUME KueueTypeOK, KueueTypeOK', [Next]_vars, NEW m \in Masters, Kept(m), Time, memory[m] # NoQueue
    PROVE  Kept(m)'
  <1> DEFINE old == memory[m]
  <1>1. /\ old # NoQueue /\ old \in Object /\ memory'[m] = Aged(old) /\ memory'[m] # NoQueue
        /\ rest[m] \in Nat /\ rest[m] > 0 /\ rest'[m] = rest[m] - 1
        /\ pending' = pending /\ echo' = echo /\ cq' = cq
        /\ pending[m] # NoQueue => pending[m].stamps = NoTable
    BY Numbers, AgedType, NamesAssumption DEF Time, KueueTypeOK, k8sVars
  <1>2. /\ Handled(m)' /\ Spent(m)' >= Spent(m) /\ Spent(m) \in Nat /\ Spent(m)' \in Nat
        /\ Budget(m) \in Nat /\ Budget(m)' \in Nat /\ Budget(m)' >= Budget(m)
        /\ Enough(Spent(m)', Budget(m)')
    BY StepPays DEF Kept
  <1>3. \A p \in Pools : /\ heard[m][p] \in Nat /\ heard'[m][p] \in Nat
                         /\ heard'[m][p] <= heard[m][p] + 1
    BY Numbers DEF Time, KueueTypeOK
  <1>4. /\ Listed(Aged(old)) = Listed(old) /\ Aged(old).labels = old.labels
        /\ \A p \in Listed(old) :
              /\ Aged(old).stamps[p] = IF old.stamps[p] < Timeout THEN old.stamps[p] + 1 ELSE Timeout
              /\ old.stamps[p] \in 0..Timeout /\ p \in Pools
    BY <1>1, AgedParts, AgeType
  <1>5. Unlabelled(m)' = Unlabelled(m) /\ Unlabelled(m) = Listed(old) \ old.labels
    <2>1. memory'[m] # NoQueue
      BY <1>1, AgedType, NamesAssumption
    <2> QED BY <1>1, <1>4, <2>1 DEF Unlabelled, Listed
  <1> HIDE DEF old
  <1>6. PendingIsFresh(m)'
    BY <1>1 DEF PendingIsFresh, Listed
  <1>7. StampsAreTrue(m)'
    <2>1. ASSUME NEW p \in Listed(old)
          PROVE  heard'[m][p] <= Aged(old).stamps[p] \/ Aged(old).stamps[p] = Timeout
      <3>1. heard[m][p] <= old.stamps[p] \/ old.stamps[p] = Timeout
        BY <1>1 DEF Kept, StampsAreTrue, old
      <3> QED BY <1>3, <1>4, <3>1, Numbers
    <2>2. Listed(memory[m])' = Listed(old)
      BY <1>1, <1>4 DEF Listed
    <2> QED BY <1>1, <2>1, <2>2 DEF StampsAreTrue
  <1>8. EditsPay(m)'
    <2>1. rest'[m] > RetryDelay => rest[m] > RetryDelay
      BY <1>1, Numbers
    <2> QED BY <1>1, <1>2, <1>5, <2>1 DEF Kept, EditsPay
  <1>9. LiveInTime(m)'
    <2> SUFFICES ASSUME NEW p \in Pools, Live(m, p)'
                 PROVE  InTime(m, p)'
      BY DEF LiveInTime
    <2>1. Live(m, p)
      BY <1>1, <1>4 DEF Live, Offers, Listed, old
    <2>2. InTime(m, p)
      BY <2>1 DEF Kept, LiveInTime
    <2> DEFINE P == Budget(m)
               Q == Budget(m)'
               r == rest[m]
               h == heard[m][p]
               k == heard'[m][p]
    <2>3. P \in Nat /\ Q \in Nat /\ P <= Q
      BY <1>2
    <2>4. r \in Nat /\ r > 0 /\ h \in Nat /\ k \in Nat /\ k <= h + 1
      BY <1>1, <1>3
    <2>5. /\ h + r <= P
          /\ echo[m] # {} => h + r + (Timeout + Backoff - 1) <= P
          /\ \A u \in Unlabelled(m) :
                old.stamps[u] + r < Timeout => h + (Timeout - old.stamps[u]) + (Backoff - 1) <= P
      BY <2>2 DEF InTime, Within, old
    <2> HIDE DEF P, Q, r, h, k
    <2>6. k + (r - 1) <= Q /\ (echo[m] # {} => k + (r - 1) + (Timeout + Backoff - 1) <= Q)
      BY <2>3, <2>4, <2>5, Numbers
    <2>7. \A u \in Unlabelled(m) :
              Aged(old).stamps[u] + (r - 1) < Timeout =>
                  k + (Timeout - Aged(old).stamps[u]) + (Backoff - 1) <= Q
      <3> SUFFICES ASSUME NEW u \in Unlabelled(m), Aged(old).stamps[u] + (r - 1) < Timeout
                   PROVE  k + (Timeout - Aged(old).stamps[u]) + (Backoff - 1) <= Q
        OBVIOUS
      <3>1. /\ Aged(old).stamps[u] = IF old.stamps[u] < Timeout THEN old.stamps[u] + 1 ELSE Timeout
            /\ old.stamps[u] \in 0..Timeout
        BY <1>4, <1>5
      <3>2. old.stamps[u] < Timeout
        BY <2>4, <3>1, Numbers
      <3>3. h + (Timeout - old.stamps[u]) + (Backoff - 1) <= P
        BY <2>4, <2>5, <3>1, <3>2, Numbers
      <3> QED BY <2>3, <2>4, <3>1, <3>2, <3>3, Numbers
    <2> QED BY <1>1, <1>5, <2>6, <2>7 DEF InTime, Within, Q, r, k
  <1> QED BY <1>2, <1>6, <1>7, <1>8, <1>9 DEF Kept

LEMMA RestartKept ==
    ASSUME KueueTypeOK, KueueTypeOK', [Next]_vars, NEW m \in Masters, Kept(m), Restart
    PROVE  Kept(m)'
  <1>1. /\ memory'[m] = NoQueue /\ pending'[m] = NoQueue /\ echo'[m] = {} /\ rest'[m] = 0
        /\ heard' = heard /\ cq' = cq
    BY DEF Restart, k8sVars
  <1>2. /\ Handled(m)' /\ Spent(m)' >= Spent(m) /\ Spent(m) \in Nat /\ Spent(m)' \in Nat
        /\ Budget(m) \in Nat /\ Budget(m)' \in Nat /\ Budget(m)' >= Budget(m)
        /\ Enough(Spent(m)', Budget(m)')
    BY StepPays DEF Kept
  <1>3. Unlabelled(m)' = {}
    BY <1>1 DEF Unlabelled
  <1>4. PendingIsFresh(m)' /\ StampsAreTrue(m)' /\ EditsPay(m)'
    BY <1>1, <1>3, Numbers DEF PendingIsFresh, StampsAreTrue, EditsPay
  <1>5. ASSUME NEW p \in Pools, Live(m, p)'
        PROVE  InTime(m, p)'
    <2>1. Live(m, p)
      BY <1>1, <1>5 DEF Live, Offers
    <2>2. Within(heard[m][p], rest[m], Budget(m))
      BY <2>1 DEF Kept, LiveInTime, InTime
    <2>3. Budget(m)' >= Budget(m) + RetryDelay
      BY StepPays DEF Kept
    <2>4. heard[m][p] \in Nat /\ rest[m] \in Nat /\ RetryDelay \in Nat
      BY Numbers DEF KueueTypeOK
    <2>5. Within(heard[m][p], 0, Budget(m)') /\ Within(heard[m][p], RetryDelay, Budget(m)')
      BY <1>2, <2>2, <2>3, <2>4 DEF Within
    <2> QED BY <1>1, <1>3, <2>5 DEF InTime
  <1> QED BY <1>2, <1>4, <1>5 DEF Kept, LiveInTime

LEMMA DeadInvInit == Init => DeadInv
  <1> SUFFICES ASSUME Init, NEW m \in Masters PROVE Kept(m)
    BY OwnFlavorsInit DEF DeadInv
  <1>1. /\ memory[m] = NoQueue /\ pending[m] = NoQueue /\ echo[m] = {} /\ rest[m] = 0
        /\ applied[m] = NoQueue /\ edits = 0
    BY DEF Init
  <1>2. Unlabelled(m) = {} /\ Owed(m) = 0
    BY <1>1 DEF Unlabelled, Owed
  <1>3. \A p \in Pools : ~Live(m, p)
    BY <1>1 DEF Live, Offers, Init, Foreign
  <1> QED
    BY <1>1, <1>2, <1>3, Numbers DEF Kept, Handled, PendingIsFresh, StampsAreTrue, EditsPay, LiveInTime

LEMMA DeadInvStep ==
    ASSUME KueueTypeOK, KueueTypeOK', BranchesAreExclusive, DeadInv, [Next]_vars
    PROVE  DeadInv'
  <1> SUFFICES ASSUME NEW n \in Masters PROVE Kept(n)'
    BY OwnFlavorsStep DEF DeadInv
  <1>1. OwnFlavors /\ Kept(n)
    BY DEF DeadInv
  <1>2. ASSUME NEW m \in Masters, MasterActs(m), n # m
        PROVE  Kept(n)'
    BY <1>1, <1>2, OthersKept
  <1>3. ASSUME MasterActs(n)
        PROVE  Kept(n)'
    <2>1. CASE UpdateFn(n) \/ \E spec \in Specs : Edit(n, spec)
      BY <1>1, <2>1, EditKept
    <2>7. CASE CreateFn(n) \/ TickUninitialized(n)
      BY <1>1, <2>7, StartKept
    <2>2. CASE CreateFnSubscribed(n)
      BY <1>1, <2>2, CreateKept
    <2>3. CASE UpdateFnSubscribed(n)
      BY <1>1, <2>3, UpdateKept
    <2>4. CASE Tick(n)
      BY <1>1, <2>4, TickKept
    <2>5. CASE TickRaises(n)
      BY <1>1, <2>5, TickRaisesKept
    <2>6. CASE \E p \in Pools : UpdateResourcesCb(n, p)
      BY <1>1, <2>6, HeardKept
    <2> QED BY <1>3, <2>1, <2>2, <2>3, <2>4, <2>5, <2>6, <2>7 DEF MasterActs
  <1>4. CASE Time
    BY <1>1, <1>4, TimeKept, TimeAbsentKept
  <1>5. CASE Restart
    BY <1>1, <1>5, RestartKept
  <1>6. CASE UNCHANGED vars
    <2>1. \A p \in Pools : Live(n, p)' => Live(n, p)
      BY <1>6 DEF vars, Live, Offers, Listed
    <2>2. PendingIsFresh(n)'
      BY <1>1, <1>6 DEF vars, Kept, PendingIsFresh, Listed
    <2>3. Handled(n)' /\ Spent(n)' >= Spent(n) /\ Budget(n)' >= Budget(n)
      BY <1>1, StepPays DEF Kept
    <2> QED BY <1>1, <1>6, <2>1, <2>2, <2>3, KeptFrame DEF vars
  <1> QED BY <1>2, <1>3, <1>4, <1>5, <1>6 DEF Next

\* However many pools, MasterQueues, edits and restarts, and however long the controller is
\* down or create_fn connects: no queue that is not on Hold goes on offering a pool that has
\* been silent for longer than a timeout, another one with a back-off for every edit, the
\* time without an object, and the delay of a timer for every start.  on_tick drops a pool
\* in time unless it raises, and an edit makes the ticks raise for no longer than that.
THEOREM DeadPoolsLeaveCorrect == Spec => []DeadPoolsLeave
  <1>1. KueueTypeOK /\ DeadInv => DeadPoolsLeave
    <2> SUFFICES ASSUME KueueTypeOK, DeadInv, NEW m \in Masters, NEW p \in Pools,
                        NEW q \in Queues, Offers(q, m, p)
                 PROVE  heard[m][p] <= Patience(edits) + outage[m] + Starts(restarts)
      BY DEF DeadPoolsLeave
    <2>1. Within(heard[m][p], rest[m], Budget(m)) /\ Handled(m)
      BY DEF DeadInv, Kept, LiveInTime, InTime, Live
    <2>2. Spent(m) \in Nat /\ edits \in Nat /\ Spent(m) <= edits
      BY <2>1, SpentType
    <2>3. Patience(Spent(m)) <= Patience(edits) /\ Patience(Spent(m)) \in Nat /\ Patience(edits) \in Nat
      BY <2>2, PatienceGrows
    <2>4. heard[m][p] \in Nat /\ rest[m] \in Nat /\ outage[m] \in Nat /\ restarts \in Nat
      BY Numbers DEF KueueTypeOK
    <2>5. Starts(restarts) \in Nat
      BY <2>4, StartsGrow
    <2>6. heard[m][p] + rest[m] <= Patience(Spent(m)) + (outage[m] + Starts(restarts))
      BY <2>1 DEF Within, Budget, Late
    <2> QED BY <2>3, <2>4, <2>5, <2>6
  <1>2. KueueTypeOK /\ KueueTypeOK' /\ BranchesAreExclusive /\ DeadInv /\ [Next]_vars => DeadInv'
    BY DeadInvStep
  <1> QED BY <1>1, <1>2, DeadInvInit, KueueTypeCorrect, BranchesAreExclusiveCorrect, PTL DEF Spec
=============================================================================
