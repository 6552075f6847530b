--------------------------- MODULE SubmissionRecord ---------------------------
(***************************************************************************)
(* The record of submissions a responder keeps                             *)
(* (natsprovider/SubmissionRecord.py): a bounded queue of job names, each  *)
(* with the time it was submitted at, asked whether a job the batch system *)
(* does not know may still be on its way there.                            *)
(*                                                                         *)
(* A submission carries its age instead of its timestamp, so that time can *)
(* pass for ever: ages stop growing at MaxAge, beyond every timeout.       *)
(***************************************************************************)
EXTENDS Integers, Sequences

CONSTANTS
    Jobs,       \* the job names
    MaxLength,  \* max_length
    Patience,   \* timeout_seconds
    MaxAge      \* bound: ages are counted up to here

ASSUME RecordAssumption ==
    /\ MaxLength \in Nat \ {0}
    /\ Patience \in Nat
    /\ MaxAge \in Nat /\ MaxAge > Patience

VARIABLES
    queue,  \* _queue
    latest  \* the last MaxLength submissions made, the oldest first

vars == <<queue, latest>>

Submission == [job : Jobs, age : 0 .. MaxAge]

\* The queue holds submissions, and no more than max_length of them.
TypeOK ==
    /\ queue \in Seq(Submission)
    /\ Len(queue) <= MaxLength
    /\ latest \in Seq(Submission)

Init ==
    /\ queue = <<>>
    /\ latest = <<>>

\* Mutants: the queue drops an entry too early, or never.
AppendShort(q, submission) ==
    LET longer == Append(q, submission) IN
    IF Len(longer) >= MaxLength THEN Tail(longer) ELSE longer

AppendUnbounded(q, submission) ==
    IF Len(q) > MaxLength THEN q ELSE Append(q, submission)

\* deque.append: beyond its maximal length the oldest entry is dropped
AppendBounded(q, submission) ==
    LET longer == Append(q, submission) IN
    IF Len(longer) > MaxLength THEN Tail(longer) ELSE longer

Last(q, n) == IF Len(q) > n THEN SubSeq(q, Len(q) - n + 1, Len(q)) ELSE q

mark_job_as_submitted(job) ==
    /\ queue' = AppendBounded(queue, [job |-> job, age |-> 0])
    /\ latest' = Last(Append(latest, [job |-> job, age |-> 0]), MaxLength)

Older(q) ==
    [i \in DOMAIN q |-> [q[i] EXCEPT !.age = IF @ < MaxAge THEN @ + 1 ELSE @]]

\* A second passes.
Second ==
    /\ queue' = Older(queue)
    /\ latest' = Older(latest)

Next == (\E job \in Jobs : mark_job_as_submitted(job)) \/ Second

Spec == Init /\ [][Next]_vars

\* submission_timestamp - datetime.now()
seconds_since_submission(submission) == -submission.age

is_being_submitted(job) ==
    \E i \in DOMAIN queue :
        queue[i].job = job /\ seconds_since_submission(queue[i]) < Patience

------------------------------------------------------------------------------
\* A job submitted less than timeout_seconds ago is said to be on its way, and
\* so not reported as missing, until max_length others followed.
RecentIsKnown ==
    \A i \in DOMAIN latest :
        latest[i].age < Patience => is_being_submitted(latest[i].job)

\* A job not submitted in the last timeout_seconds seconds is not said to be
\* on its way.  (The docstring of is_being_submitted.)
OldIsForgotten ==
    \A job \in Jobs :
        (\A i \in DOMAIN latest : latest[i].job = job => latest[i].age > Patience)
            => ~is_being_submitted(job)
==============================================================================
