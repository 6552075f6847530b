---------------------------- MODULE SlurmProvider ----------------------------
(***************************************************************************)
(* slurmprovider/SlurmProvider.py: jobs in Slurm and the sacct table that   *)
(* every status call of a responder shares.                                 *)
(*                                                                         *)
(* The callbacks of a responder are tasks of one asyncio loop.  A status   *)
(* call awaits a running sacct of another call, its own sacct, and the     *)
(* logs; create_pod awaits sbatch.  delete_pod awaits nothing and is one   *)
(* step.  The time of the table, _cached_squeue_time, is its lock as well. *)
(* A job name is used once here, and what sbatch is told is left out.      *)
(***************************************************************************)
EXTENDS Naturals

CONSTANTS
    Jobs,         \* job names
    Calls,        \* status calls that may be in flight
    None,         \* no time, no entry, no call
    Processing,   \* the time of a table that is being refreshed
    Validity,     \* how long the table is used: the 10 seconds
    Window,       \* how far before the last check sacct looks: the 10 minutes
    Day,          \* how far back the first sacct of a process looks
    Attempts,     \* how often absent logs are waited for
    MaxTime       \* bound: ages up to here are told apart

ASSUME SlurmAssumption ==
    /\ Validity \in Nat /\ Window \in Nat /\ Day \in Nat
    /\ Attempts \in Nat /\ MaxTime \in Nat
    /\ Validity <= Window /\ Window <= Day /\ Day <= MaxTime

VARIABLES
    slurm,        \* what sacct says of a job, or None
    ended,        \* time since its end, 0 before it
    was,          \* the terminal phases its states so far stand for (history)
    sandbox,      \* jobs with a sandbox directory
    logs,         \* the logs file of a job in it
    create,       \* create_pod of a job
    table,        \* _cached_squeue
    checked,      \* _cached_squeue_time as an age, "processing" or None
    call,         \* the status calls
    reported,     \* the last terminal phase a call returned for a job, or None
    fresh,        \* time since sacct last read what is in the table
    gap,          \* the longest such time at the end of a check
    old           \* jobs that had ended too long before the first sacct (history)

slurmVars == <<slurm, ended, was>>
fileVars == <<sandbox, logs>>
cacheVars == <<table, checked, fresh, gap, old>>
vars == <<slurmVars, fileVars, create, cacheVars, call, reported>>

Ages == 0..MaxTime + 1
Least(a, b) == IF a <= b THEN a ELSE b
Greatest(a, b) == IF a <= b THEN b ELSE a

\* The SLURM_*_STATUSES, one state of each kind.  PENDING stands for the states of a
\* requeued job as well, except SPECIAL_EXIT, which is listed as failed; COMPLETING, on
\* the way to the end and listed as running and failed, also for STAGE_OUT, listed as
\* pending and failed; CANCELLED for all failed ends; NODE_FAIL is in no list.
Active == {"PENDING", "RUNNING", "COMPLETING", "SPECIAL_EXIT"}
Final == {"COMPLETED", "CANCELLED", "NODE_FAIL"}
States == Active \cup Final

Failed == {"COMPLETING", "SPECIAL_EXIT", "CANCELLED"}

\* The terminal phases that may be told of a state; COMPLETED without logs is failed.
StandsFor(state) ==
    CASE state = "COMPLETED" -> {"succeeded", "failed"}
      [] state \in Failed -> {"failed"}
      [] OTHER -> {}

\* A status call: where it is, since when its sacct looks, what sacct printed and
\* how old that is, and how often it still waits for logs.
Call == [job : Jobs, at : {"waiting", "sacct", "parsing", "logs", "spinning"}, since : Ages,
         out : [Jobs -> States \cup {None}], age : Ages, tries : 0..Attempts]

ASSUME SlurmDistinct ==
    /\ Processing \notin Ages /\ None \notin Ages /\ Processing # None
    /\ None \notin States \cup {"succeeded", "failed"} /\ None \notin Call

SlurmTypeOK ==
    /\ slurm \in [Jobs -> States \cup {None}]
    /\ ended \in [Jobs -> Ages]
    /\ was \in [Jobs -> SUBSET {"succeeded", "failed"}]
    /\ sandbox \subseteq Jobs
    /\ logs \in [Jobs -> {"absent", "empty", "full"}]
    /\ create \in [Jobs -> {"no", "sbatch", "queued", "done"}]
    /\ table \in [Jobs -> States \cup {None}]
    /\ checked \in Ages \cup {Processing, None}
    /\ call \in [Calls -> Call \cup {None}]
    /\ reported \in [Jobs -> {"succeeded", "failed", None}]
    /\ fresh \in Ages /\ gap \in Ages /\ old \subseteq Jobs

Nothing == [j \in Jobs |-> None]

SlurmInit ==
    /\ slurm = Nothing /\ ended = [j \in Jobs |-> 0] /\ was = [j \in Jobs |-> {}]
    /\ sandbox = {} /\ logs = [j \in Jobs |-> "absent"]
    /\ create = [j \in Jobs |-> "no"]
    /\ table = Nothing /\ checked = None
    /\ call = [c \in Calls |-> None]
    /\ reported = Nothing
    /\ fresh = MaxTime + 1 /\ gap = 0 /\ old = {}

\* While a call spins on an empty logs file, the loop serves no other.
Hung == \E c \in Calls : call[c] # None /\ call[c].at = "spinning"

------------------------------------------------------------------------------
(* Slurm and the node *)

Ended(j) == slurm[j] \in Final

Becomes(j, state) ==
    /\ slurm' = [slurm EXCEPT ![j] = state]
    /\ ended' = [ended EXCEPT ![j] = 0]
    /\ was' = [was EXCEPT ![j] = @ \cup StandsFor(state)]

\* A job passes COMPLETING on its way to its end.  Its script creates the logs file
\* first and fills it last; the node of the provider may see less of it.
JobStep(j) ==
    /\ \/ /\ slurm[j] = "PENDING" /\ Becomes(j, "RUNNING")
          /\ logs' = [logs EXCEPT ![j] = IF j \in sandbox THEN "empty" ELSE @]
       \/ /\ slurm[j] = "RUNNING" /\ logs' = logs
          /\ \E state \in {"COMPLETING", "CANCELLED", "NODE_FAIL"} : Becomes(j, state)
       \/ /\ slurm[j] = "COMPLETING" /\ Becomes(j, "COMPLETED")
          /\ \E l \in IF j \in sandbox THEN {"absent", "empty", "full"} ELSE {"absent"} :
                logs' = [logs EXCEPT ![j] = l]
    /\ UNCHANGED <<sandbox, create, cacheVars, call, reported>>

\* A job that runs or has ended is put back to run again, held in SPECIAL_EXIT or not;
\* a held one is released.
Requeue(j) ==
    /\ slurm[j] \in States \ {"PENDING"}
    /\ \E state \in {"PENDING", "SPECIAL_EXIT"} : Becomes(j, state)
    /\ old' = old \ {j}
    /\ UNCHANGED <<fileVars, create, table, checked, fresh, gap, call, reported>>

\* The shared file system shows the logs at last.
LogsAppear(j) ==
    /\ slurm[j] = "COMPLETED" /\ j \in sandbox /\ logs[j] # "full"
    /\ logs' = [logs EXCEPT ![j] = "full"]
    /\ UNCHANGED <<slurmVars, sandbox, create, cacheVars, call, reported>>

Older(age) == IF age \in 0..MaxTime THEN age + 1 ELSE age

Time ==
    /\ ended' = [j \in Jobs |-> IF Ended(j) THEN Older(ended[j]) ELSE 0]
    /\ checked' = IF checked \in Ages THEN Older(checked) ELSE checked
    /\ fresh' = Older(fresh)
    /\ call' = [c \in Calls |-> IF call[c] = None THEN None
                ELSE CASE call[c].at = "sacct" -> [call[c] EXCEPT !.since = Older(@)]
                       [] call[c].at = "parsing" -> [call[c] EXCEPT !.age = Older(@)]
                       [] OTHER -> call[c]]
    /\ UNCHANGED <<slurm, was, fileVars, create, table, gap, old, reported>>

------------------------------------------------------------------------------
(* _retrieve_job_status and get_pod_status_and_logs *)

AtStage(j, at) == [job |-> j, at |-> at, since |-> 0, out |-> Nothing, age |-> 0, tries |-> 0]
Waiting(j) == AtStage(j, "waiting")
InSacct(j, since) == [AtStage(j, "sacct") EXCEPT !.since = since]
Parsing(j, out) == [AtStage(j, "parsing") EXCEPT !.out = out]
InLogs(j, tries) == [AtStage(j, "logs") EXCEPT !.tries = tries]

AnswerAny(c, phase) ==
    /\ call' = [call EXCEPT ![c] = None]
    /\ reported' = [reported EXCEPT ![call[c].job] = phase]

\* Ends call c with a phase; terminal ones are remembered.
Answer(c, phase) ==
    /\ call' = [call EXCEPT ![c] = None]
    /\ reported' = IF phase \in {"succeeded", "failed"}
                   THEN [reported EXCEPT ![call[c].job] = phase] ELSE reported

PhaseOfMissing(state) ==
    CASE state \in Failed \cup {None} -> "failed"
      [] state = "PENDING" -> "pending"
      [] state = "RUNNING" -> "running"
      [] OTHER -> "unknown"

\* The failed states are tested first, COMPLETING with them.
Phase(state) ==
    CASE state \in Failed -> "failed"
      [] state = "PENDING" -> "pending"
      [] state = "RUNNING" -> "running"
      [] OTHER -> "unknown"

\* What a call does with the entry it has; the logs are first looked at in the
\* same step, but that step is LogsStep's.
Use(c, entry) ==
    IF entry = "COMPLETED"
    THEN /\ call' = [call EXCEPT ![c] = InLogs(@.job, Attempts)]
         /\ reported' = reported
    ELSE Answer(c, Phase(entry))

Miss(j) == ~(checked \in 0..Validity /\ table[j] # None)

\* sacct looks back from ten minutes before the last check, the first one a day.
SinceCheck == IF checked = None THEN Day ELSE checked
Since == IF checked = None THEN Day ELSE Least(checked + Window, MaxTime + 1)

PollBegin(c, j) ==
    /\ ~Hung /\ call[c] = None
    /\ call' = [call EXCEPT ![c] = Waiting(j)]
    /\ UNCHANGED <<slurmVars, fileVars, create, cacheVars, reported>>

\* The table is free: a miss starts sacct.
SacctStart(c) ==
    /\ ~Hung /\ call[c] # None /\ call[c].at = "waiting"
    /\ checked # Processing /\ Miss(call[c].job)
    /\ call' = [call EXCEPT ![c] = InSacct(@.job, Since)]
    /\ checked' = Processing
    /\ old' = IF checked = None THEN {j \in Jobs : Ended(j) /\ ended[j] > Day} ELSE old
    /\ UNCHANGED <<slurmVars, fileVars, create, table, fresh, gap, reported>>

Hit(c) ==
    /\ ~Hung /\ call[c] # None /\ call[c].at = "waiting"
    /\ checked # Processing /\ ~Miss(call[c].job)
    /\ Use(c, table[call[c].job])
    /\ UNCHANGED <<slurmVars, fileVars, create, cacheVars>>

WaitForEver(c) == FALSE

\* After five seconds the table is used although it is being refreshed.
WaitTimesOut(c) ==
    /\ ~Hung /\ call[c] # None /\ call[c].at = "waiting"
    /\ checked = Processing
    /\ Use(c, table[call[c].job])
    /\ UNCHANGED <<slurmVars, fileVars, create, cacheVars>>

\* sacct reads the accounting of Slurm: jobs that ended before since are not in it.
SacctReads(c) ==
    /\ call[c] # None /\ call[c].at = "sacct"
    /\ call' = [call EXCEPT ![c] = Parsing(@.job, [j \in Jobs |->
            IF Ended(j) /\ ended[j] > call[c].since THEN None ELSE slurm[j]])]
    /\ UNCHANGED <<slurmVars, fileVars, create, cacheVars, reported>>

\* communicate() returns: the lines are written over the table, and its time is set.
SacctDone(c) ==
    LET new == [j \in Jobs |-> IF call[c].out[j] = None THEN table[j] ELSE call[c].out[j]]
    IN  /\ ~Hung /\ call[c] # None /\ call[c].at = "parsing"
        /\ table' = new
        /\ checked' = 0
        /\ fresh' = call[c].age /\ gap' = Greatest(gap, call[c].age)
        /\ Use(c, new[call[c].job])
        /\ UNCHANGED <<slurmVars, fileVars, create, old>>

\* sacct prints an error only: nothing is written, and the time is set all the same.
SacctFails(c) ==
    /\ ~Hung /\ call[c] # None /\ call[c].at = "sacct"
    /\ checked' = 0
    /\ gap' = Greatest(gap, fresh)
    /\ Use(c, table[call[c].job])
    /\ UNCHANGED <<slurmVars, fileVars, create, table, fresh, old>>

SacctRaisesLocked(c) ==
    /\ ~Hung /\ call[c] # None /\ call[c].at = "sacct"
    /\ call' = [call EXCEPT ![c] = None]
    /\ UNCHANGED <<slurmVars, fileVars, create, cacheVars, reported>>

\* sacct cannot be started: the exception ends the call, after finally.
SacctRaises(c) ==
    /\ ~Hung /\ call[c] # None /\ call[c].at = "sacct"
    /\ checked' = 0
    /\ gap' = Greatest(gap, fresh)
    /\ call' = [call EXCEPT ![c] = None]
    /\ UNCHANGED <<slurmVars, fileVars, create, table, fresh, old, reported>>

\* The logs are read; after an empty file they are read again without an await.
LogsStep(c) ==
    LET j == call[c].job
    IN  /\ call[c] # None
        /\ (call[c].at = "logs" /\ ~Hung) \/ call[c].at = "spinning"
        /\ \/ logs[j] = "full" /\ Answer(c, "succeeded")
           \/ logs[j] = "empty" /\ call' = [call EXCEPT ![c].at = "spinning"] /\ reported' = reported
           \/ /\ logs[j] = "absent" /\ call[c].tries > 0
              /\ call' = [call EXCEPT ![c] = InLogs(j, @.tries - 1)] /\ reported' = reported
           \/ logs[j] = "absent" /\ call[c].tries = 0 /\ Answer(c, "failed")
        /\ UNCHANGED <<slurmVars, fileVars, create, cacheVars>>

------------------------------------------------------------------------------
(* create_pod and delete_pod *)

\* The sandbox and both scripts are written before sbatch is awaited.
CreatePod(j) ==
    /\ ~Hung /\ create[j] = "no"
    /\ create' = [create EXCEPT ![j] = "sbatch"]
    /\ sandbox' = sandbox \cup {j}
    /\ UNCHANGED <<slurmVars, logs, cacheVars, call, reported>>

\* sbatch queues the job while it is awaited, if it finds the script.
SbatchQueues(j) ==
    /\ create[j] = "sbatch" /\ j \in sandbox
    /\ create' = [create EXCEPT ![j] = "queued"]
    /\ Becomes(j, "PENDING")
    /\ UNCHANGED <<fileVars, cacheVars, call, reported>>

SbatchReturns(j) ==
    /\ ~Hung /\ create[j] \in {"sbatch", "queued"}
    /\ create' = [create EXCEPT ![j] = "done"]
    /\ UNCHANGED <<slurmVars, fileVars, cacheVars, call, reported>>

\* Removing the sandbox may fail, which is logged only.
RemoveSandbox(j) ==
    \/ sandbox' = sandbox \ {j} /\ logs' = [logs EXCEPT ![j] = "absent"]
    \/ UNCHANGED fileVars

\* delete_pod cancels every job of that name squeue lists; that squeue or scancel
\* fails is logged only.
DeletePod(j) ==
    /\ ~Hung /\ create[j] # "no"
    /\ \/ slurm[j] \in Active /\ Becomes(j, "CANCELLED")
       \/ UNCHANGED slurmVars
    /\ RemoveSandbox(j)
    /\ UNCHANGED <<create, cacheVars, call, reported>>

\* The provider starts again with an empty table; an sbatch it ran goes on.
Restart ==
    /\ table' = Nothing /\ checked' = None
    /\ fresh' = MaxTime + 1 /\ gap' = 0 /\ old' = {}
    /\ call' = [c \in Calls |-> None]
    /\ UNCHANGED <<slurmVars, fileVars, create, reported>>

Proceeds(c) == SacctStart(c) \/ Hit(c) \/ WaitTimesOut(c)
Sacct(c) == SacctReads(c) \/ SacctFails(c) \/ SacctRaises(c)

SlurmNext ==
    \/ \E c \in Calls : \/ \E j \in Jobs : PollBegin(c, j)
                        \/ Proceeds(c) \/ Sacct(c) \/ SacctDone(c) \/ LogsStep(c)
    \/ \E j \in Jobs : \/ JobStep(j) \/ Requeue(j) \/ LogsAppear(j)
                       \/ CreatePod(j) \/ SbatchQueues(j) \/ SbatchReturns(j)
                       \/ DeletePod(j)
    \/ Time \/ Restart

SlurmSpec == SlurmInit /\ [][SlurmNext]_vars

\* The loop gets to every task that can go on.  sacct may run for ever.
FairSlurmSpec ==
    /\ SlurmSpec
    /\ \A c \in Calls : WF_vars(Proceeds(c)) /\ WF_vars(SacctDone(c)) /\ WF_vars(LogsStep(c))

------------------------------------------------------------------------------
(* Properties *)

\* _cached_squeue_time is a lock: it says "processing" exactly while one call, and
\* no other, runs sacct, however sacct ends.
Fetching == {c \in Calls : call[c] # None /\ call[c].at \in {"sacct", "parsing"}}

OneSacct ==
    /\ \A c, d \in Fetching : c = d
    /\ checked = Processing <=> Fetching # {}

\* sacct looks back ten minutes before the last check so as to miss no end.  That is
\* enough as long as no check, failed or slow, ended more than ten minutes after
\* sacct last read what the table has: every job that ended before is in it, but for
\* those that had ended a day before the process first ran sacct.
EndsAreSeen ==
    gap <= Window => \A j \in Jobs \ old :
        Ended(j) /\ fresh < ended[j] => table[j] = slurm[j]

\* A terminal phase is told of a job only if Slurm has had it in a state that stands
\* for that phase, however old the table is, however often the job is requeued and
\* whatever sacct leaves out: never of a job that has only waited and run.
ReportsAreTrue == \A j \in Jobs : reported[j] # None => reported[j] \in was[j]

\* An sacct that never returns blocks the call that runs it and no other; only an
\* empty logs file, read again without an await, hangs the provider.
PollsEnd ==
    [](\A c \in Calls : call[c] # None /\ call[c].at = "logs" => logs[call[c].job] # "empty") =>
        \A c \in Calls : call[c] # None ~> (call[c] = None \/ call[c].at = "sacct")
==============================================================================
