------------------------------- MODULE Backend -------------------------------
(***************************************************************************)
(* The batch system behind a provider, as the three methods every provider *)
(* overrides see it: create_pod, delete_pod and get_pod_status_and_logs.   *)
(* The statuses are those of the HTCondor provider; the constants say in   *)
(* what the others differ.                                                 *)
(***************************************************************************)
EXTENDS Interlink, Naturals

CONSTANTS
    Idempotent,  \* create_pod ignores a name that exists, as Podman's does
    Forgiving,   \* delete_pod returns though the batch system failed, as Slurm's
    Stale        \* the status may be an earlier one, as in Slurm's table

ASSUME BackendAssumption ==
    /\ Idempotent \in BOOLEAN
    /\ Forgiving \in BOOLEAN
    /\ Stale \in BOOLEAN

VARIABLES
    job,     \* per name, the newest job in the batch system
    copies,  \* per name, how many jobs the batch system holds
    ranTo,   \* per name, the outcomes with which a job ended so far
    spared   \* the names delete_pod returned for with a job left

backendVars == <<job, copies, ranTo, spared>>

\* "idle" stands for idle and held, "good" and "bad" for completed with all
\* return codes zero, or not, "garbled" for completed with logs that cannot be
\* read.
Outcomes == {"good", "bad", "garbled"}
JobStates == {"none", "idle", "running"} \cup Outcomes

BackendTypeOK ==
    /\ job \in [Pods -> JobStates]
    /\ copies \in [Pods -> Nat]
    /\ ranTo \in [Pods -> SUBSET Outcomes]
    /\ spared \subseteq Pods

BackendInit ==
    /\ job = [p \in Pods |-> "none"]
    /\ copies = [p \in Pods |-> 0]
    /\ ranTo = [p \in Pods |-> {}]
    /\ spared = {}

\* create_pod: condor_submit makes a new job whether or not the name is taken.
Submit(p) ==
    IF Idempotent /\ job[p] # "none"
    THEN UNCHANGED backendVars
    ELSE /\ job' = [job EXCEPT ![p] = "idle"]
         /\ copies' = [copies EXCEPT ![p] = @ + 1]
         /\ UNCHANGED <<ranTo, spared>>

\* What delete_pod is for: condor_rm, like the loop over scancel, takes every
\* job of that name.
Remove(p) ==
    /\ job' = [job EXCEPT ![p] = "none"]
    /\ copies' = [copies EXCEPT ![p] = 0]
    /\ spared' = spared \ {p}
    /\ UNCHANGED ranTo

\* A squeue or scancel that fails ends the loop, and is only logged: the jobs
\* it had not come to stay.
Spare(p) ==
    /\ Forgiving
    /\ job[p] # "none"
    /\ spared' = spared \cup {p}
    /\ \E left \in 1 .. copies[p] : copies' = [copies EXCEPT ![p] = left]
    /\ UNCHANGED <<job, ranTo>>

\* Mutant: every failure of the batch system passes for a delete.
DeletePodHopeful(p) == Remove(p) \/ UNCHANGED backendVars

\* delete_pod, when it returns.
DeletePod(p) == Remove(p) \/ Spare(p)

\* The batch system runs, preempts and ends jobs.
JobProgress(p) ==
    \/ /\ job[p] = "idle"
       /\ job' = [job EXCEPT ![p] = "running"]
       /\ UNCHANGED <<copies, ranTo, spared>>
    \/ /\ job[p] = "running"
       /\ job' = [job EXCEPT ![p] = "idle"]
       /\ UNCHANGED <<copies, ranTo, spared>>
    \/ \E outcome \in Outcomes :
        /\ job[p] = "running"
        /\ job' = [job EXCEPT ![p] = outcome]
        /\ ranTo' = [ranTo EXCEPT ![p] = @ \cup {outcome}]
        /\ UNCHANGED <<copies, spared>>

Unknown == [phase |-> "unknown", logs |-> "empty"]

Unended == [phase : {"pending", "running"}, logs : {"empty"}]

\* How the newest job stands.  A completed one has succeeded whatever its
\* return codes; if its logs are gone, it failed and returns none.
Current(p) ==
    CASE job[p] = "idle" -> {[phase |-> "pending", logs |-> "empty"]}
      [] job[p] = "running" -> {[phase |-> "running", logs |-> "empty"]}
      [] job[p] \in Outcomes -> {[phase |-> "succeeded", logs |-> job[p]],
                                 [phase |-> "failed", logs |-> "empty"]}
      [] OTHER -> {}

\* get_pod_status_and_logs: what it may return.  A query that fails, or finds
\* no job, is an unknown phase; a table of the jobs may be behind them.
Observe(p) ==
    {Unknown} \cup Current(p)
        \cup {status \in Unended : Stale /\ job[p] # "none"}
==============================================================================
