---------------------------- MODULE CondorProvider ----------------------------
(***************************************************************************)
(* condor/CondorProvider.py and CondorConfiguration.py: the calls of a      *)
(* responder on HTCondor, with their retries.  Status by name queries the   *)
(* queue, and queries it again for a completed job, to fetch its output.    *)
(* Each condor command runs while the others' calls go on.  A job name is   *)
(* used once here (Backend tells what a second job of a name does).         *)
(***************************************************************************)
EXTENDS TokenManager

CONSTANTS
    Jobs,         \* job names
    Calls,        \* calls that may be in flight
    NoCall,
    Attempts      \* CONDOR_ATTEMPTS, tries after the first

ASSUME CondorAssumption == Attempts \in Nat

VARIABLES
    queue,        \* the job of each name in the queue of the schedd
    completed,    \* jobs that completed
    call,         \* calls in flight
    answer        \* the phase last answered for a job, or "none", and (history) whether
                  \* it was in the queue then in a status that no phase stands for

condorVars == <<queue, completed, call, answer>>
vars == <<tokenVars, condorVars>>

\* JobStatus; the phase told of an unexpanded and of an error job, which is still
\* there, is that of a job that is not.
Unnamed == {"unexpanded", "error"}
JobStatuses == {"idle", "held", "running", "completed", "removed"} \cup Unnamed
Phases == {"pending", "running", "succeeded", "unknown"}

Call == [job : Jobs, at : {"query", "again", "transfer", "submit", "remove"}, tries : 0..Attempts]

Answers == [phase : Phases \cup {"none"}, unnamed : BOOLEAN]
Unanswered == [phase |-> "none", unnamed |-> FALSE]

CondorTypeOK ==
    /\ TokenTypeOK
    /\ queue \in [Jobs -> JobStatuses \cup {"none", "gone"}]
    /\ completed \subseteq Jobs
    /\ call \in [Calls -> Call \cup {NoCall}]
    /\ answer \in [Jobs -> Answers]

CondorInit ==
    /\ TokenInit
    /\ queue = [j \in Jobs |-> "none"] /\ completed = {}
    /\ call = [c \in Calls |-> NoCall]
    /\ answer = [j \in Jobs |-> Unanswered]

Listed(j) == queue[j] \in JobStatuses

------------------------------------------------------------------------------
(* HTCondor *)

Successors(status) ==
    CASE status = "unexpanded" -> {"idle", "held", "removed"}
      [] status = "idle" -> {"running", "held", "removed"}
      [] status = "held" -> {"idle", "removed"}
      [] status \in {"running", "error"} -> {"idle", "held", "error", "completed", "removed"}
      [] OTHER -> {"gone"}

\* A job may be in error and go on.  A completed or removed job leaves the queue at last.
JobStep(j) ==
    /\ Listed(j)
    /\ \E status \in Successors(queue[j]) :
        /\ queue' = [queue EXCEPT ![j] = status]
        /\ completed' = IF status = "completed" THEN completed \cup {j} ELSE completed
    /\ UNCHANGED <<tokenVars, call, answer>>

\* The schedd accepts the token this process shows.
Authentic(age) == age <= Lifetime

------------------------------------------------------------------------------
(* Calls *)

At(c, where) == call[c] # NoCall /\ call[c].at = where
Goto(c, where) == call' = [call EXCEPT ![c] = [job |-> @.job, at |-> where, tries |-> 0]]

Answer(c, phase) ==
    /\ call' = [call EXCEPT ![c] = NoCall]
    /\ answer' = [answer EXCEPT ![call[c].job] =
                    [phase |-> phase, unnamed |-> queue[call[c].job] \in Unnamed]]

\* An exception: the call ends without an answer.
Raise(c) == call' = [call EXCEPT ![c] = NoCall] /\ answer' = answer

RetryForEver(c) == call' = call /\ answer' = answer
RetryUncounted(c) == call' = [call EXCEPT ![c].tries = @ + 1] /\ answer' = answer

RetryAnswered(c) ==
    IF call[c].tries = Attempts THEN Answer(c, "unknown")
    ELSE call' = [call EXCEPT ![c].tries = @ + 1] /\ answer' = answer

\* range(CONDOR_ATTEMPTS+1), and the exception of the last attempt.
Retry(c) ==
    IF call[c].tries = Attempts THEN Raise(c)
    ELSE call' = [call EXCEPT ![c].tries = @ + 1] /\ answer' = answer

Starts == [status |-> "query", create |-> "submit", delete |-> "remove"]

\* submit and delete_by_name ask for the token first.
Begin(c, op, j) ==
    /\ call[c] = NoCall
    /\ op = "create" => queue[j] = "none" /\ \A d \in Calls : ~(At(d, "submit") /\ call[d].job = j)
    /\ IF op = "status" THEN UNCHANGED tokenVars ELSE Given
    /\ call' = [call EXCEPT ![c] = [job |-> j, at |-> Starts[op], tries |-> 0]]
    /\ UNCHANGED <<queue, completed, answer>>

\* Nothing is refreshed and the exception ends the call.
BeginRaises == RefreshFails /\ UNCHANGED condorVars

\* query_by_name: an attempt that cannot have a token ends the call; one that the
\* schedd refuses, or that does not reach it, is repeated.
QueryRaises(c) ==
    /\ At(c, "query") \/ At(c, "again")
    /\ RefreshFails /\ Raise(c)
    /\ UNCHANGED <<queue, completed>>

QueryFails(c) ==
    /\ At(c, "query") \/ At(c, "again")
    /\ Given /\ Retry(c)
    /\ UNCHANGED <<queue, completed>>

PhaseLenient(status) ==
    CASE status \in {"idle", "held"} -> "pending"
      [] status = "running" -> "running"
      [] OTHER -> "succeeded"

\* get_pod_status_and_logs: an answer, unless there is output to fetch.
Phase(status) ==
    CASE status \in {"idle", "held"} -> "pending"
      [] status = "running" -> "running"
      [] status = "completed" -> "succeeded"
      [] OTHER -> "unknown"

Query(c) ==
    /\ At(c, "query")
    /\ Given /\ Authentic(token')
    /\ LET phase == Phase(queue[call[c].job])
       IN  IF phase = "succeeded" THEN Goto(c, "again") /\ answer' = answer
           ELSE Answer(c, phase)
    /\ UNCHANGED <<queue, completed>>

\* retrieve_by_name: a job that has left the queue since raises HTCondorException,
\* which nobody catches here.
QueryAgain(c) ==
    /\ At(c, "again")
    /\ Given /\ Authentic(token')
    /\ IF Listed(call[c].job) THEN Goto(c, "transfer") /\ answer' = answer ELSE Raise(c)
    /\ UNCHANGED <<queue, completed>>

\* condor_transfer_data, with the token the process has.
Transfer(c) ==
    /\ At(c, "transfer")
    /\ Authentic(token) /\ Listed(call[c].job)
    /\ Answer(c, "succeeded")
    /\ UNCHANGED <<tokenVars, queue, completed>>

TransferFails(c) ==
    /\ At(c, "transfer")
    /\ Retry(c)
    /\ UNCHANGED <<tokenVars, queue, completed>>

\* condor_submit, which is tried once.
Submit(c) ==
    /\ At(c, "submit") /\ Authentic(token)
    /\ \E status \in {"unexpanded", "idle"} : queue' = [queue EXCEPT ![call[c].job] = status]
    /\ call' = [call EXCEPT ![c] = NoCall]
    /\ answer' = [answer EXCEPT ![call[c].job] = Unanswered]
    /\ UNCHANGED <<tokenVars, completed>>

\* condor_rm of that name.
Remove(c) ==
    /\ At(c, "remove") /\ Authentic(token) /\ Listed(call[c].job)
    /\ queue' = [queue EXCEPT ![call[c].job] = "gone"]
    /\ Raise(c)
    /\ UNCHANGED <<tokenVars, completed>>

\* Nothing of that name, no token that is accepted, or no connection.
CommandFails(c) ==
    /\ At(c, "submit") \/ At(c, "remove")
    /\ Raise(c)
    /\ UNCHANGED <<tokenVars, queue, completed>>

CallStep(c) ==
    \/ QueryRaises(c) \/ QueryFails(c) \/ Query(c) \/ QueryAgain(c)
    \/ Transfer(c) \/ TransferFails(c) \/ Submit(c) \/ Remove(c) \/ CommandFails(c)

CondorNext ==
    \/ \E c \in Calls :
        \/ \E op \in DOMAIN Starts, j \in Jobs : Begin(c, op, j)
        \/ CallStep(c)
    \/ BeginRaises
    \/ \E j \in Jobs : JobStep(j)
    \/ (IssuerFails \/ IssuerAnswers \/ TokenTime) /\ UNCHANGED condorVars

CondorSpec == CondorInit /\ [][CondorNext]_vars

\* Commands end and calls go on; issuer, schedd and jobs promise nothing.
FairCondorSpec == CondorSpec /\ \A c \in Calls : WF_vars(CallStep(c))

------------------------------------------------------------------------------
(* Properties *)

\* The responder takes "unknown" for a job that is not there (and reports it
\* missing): that phase is answered only of a job the queue does not have or has
\* removed, so that it stays true, or of one in a status without a phase; no token, no
\* refusal of the schedd and no retry makes it so.
UnknownIsTrue ==
    \A j \in Jobs : answer[j].phase = "unknown" =>
        answer[j].unnamed \/ queue[j] \in {"none", "removed", "gone"}

\* "succeeded" is only told of a job that completed, though it may be removed
\* between the two queries and the transfer.
SucceededIsTrue == \A j \in Jobs : answer[j].phase = "succeeded" => j \in completed

\* Retries are counted: every call ends, even if no token is accepted any more and
\* the schedd stays away.
CallsEnd == \A c \in Calls : call[c] # NoCall ~> call[c] = NoCall
==============================================================================
