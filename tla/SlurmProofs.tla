----------------------------- MODULE SlurmProofs -----------------------------
(***************************************************************************)
(* Theorems about the sacct table that the calls of a responder share.      *)
(***************************************************************************)
EXTENDS SlurmProvider, TLAPS

------------------------------------------------------------------------------
(* Lemmas about the data *)

LEMMA Numbers ==
    /\ Validity \in Nat /\ Window \in Nat /\ Day \in Ages
    /\ Attempts \in Nat /\ MaxTime \in Nat
    /\ Validity <= Window /\ Window < MaxTime + 1
    /\ 0 \in Ages /\ MaxTime + 1 \in Ages /\ 0 \in 0..Attempts /\ Attempts \in 0..Attempts
    /\ Ages \subseteq Nat
  BY SlurmAssumption DEF Ages

LEMMA OlderAge ==
    ASSUME NEW age \in Ages
    PROVE  /\ Older(age) \in Ages
           /\ age <= MaxTime => Older(age) = age + 1
           /\ age > MaxTime => Older(age) = age
  BY Numbers DEF Older, Ages

\* Aging keeps the order of two ages, and makes none that was not there.
LEMMA OlderOrder ==
    ASSUME NEW a \in Ages, NEW b \in Ages
    PROVE  /\ a <= b => Older(a) <= Older(b)
           /\ Older(a) < Older(b) => a < b
  BY Numbers DEF Older, Ages

LEMMA GreatestAge ==
    ASSUME NEW a \in Ages, NEW b \in Ages
    PROVE  Greatest(a, b) \in Ages /\ a <= Greatest(a, b) /\ b <= Greatest(a, b)
  BY Numbers DEF Greatest, Ages

Outputs == [Jobs -> States \cup {None}]

\* Calls at each stage.
LEMMA StageType ==
    ASSUME NEW j \in Jobs
    PROVE  /\ Waiting(j) \in Call /\ Waiting(j).at = "waiting"
           /\ \A since \in Ages :
                /\ InSacct(j, since) \in Call
                /\ InSacct(j, since).at = "sacct" /\ InSacct(j, since).since = since
           /\ \A out \in Outputs :
                /\ Parsing(j, out) \in Call /\ Parsing(j, out).at = "parsing"
                /\ Parsing(j, out).out = out /\ Parsing(j, out).age = 0
           /\ \A tries \in 0..Attempts :
                /\ InLogs(j, tries) \in Call /\ InLogs(j, tries).at = "logs"
                /\ InLogs(j, tries).job = j
  <1>1. Nothing \in Outputs
    BY DEF Nothing, Outputs
  <1> QED
    BY <1>1, Numbers DEF Waiting, InSacct, Parsing, InLogs, AtStage, Call, Outputs

LEMMA CallJob ==
    ASSUME SlurmTypeOK, NEW c \in Calls, call[c] # None
    PROVE  call[c] \in Call /\ call[c].job \in Jobs
  BY DEF SlurmTypeOK, Call

LEMMA SinceType ==
    ASSUME SlurmTypeOK, checked # Processing
    PROVE  Since \in Ages
  BY Numbers DEF SlurmTypeOK, Since, Least, Ages

------------------------------------------------------------------------------
(* Types *)

CallsType ==
    /\ call \in [Calls -> Call \cup {None}]
    /\ reported \in [Jobs -> {"succeeded", "failed", None}]

LEMMA CallSet ==
    ASSUME SlurmTypeOK, NEW c \in Calls, NEW x \in Call \cup {None},
           call' = [call EXCEPT ![c] = x], reported' = reported
    PROVE  CallsType'
  BY DEF SlurmTypeOK, CallsType

LEMMA AnswerType ==
    ASSUME SlurmTypeOK, NEW c \in Calls, call[c] # None, NEW phase, Answer(c, phase)
    PROVE  CallsType'
  BY DEF SlurmTypeOK, CallsType, Answer, Call

LEMMA UseType ==
    ASSUME SlurmTypeOK, NEW c \in Calls, call[c] # None, NEW entry, Use(c, entry)
    PROVE  CallsType'
  <1>1. CASE entry = "COMPLETED"
    <2>1. call[c].job \in Jobs
      BY DEF SlurmTypeOK, Call
    <2>2. InLogs(call[c].job, Attempts) \in Call
      BY <2>1, StageType, Numbers
    <2> QED BY <1>1, <2>2, CallSet DEF Use
  <1>2. CASE entry # "COMPLETED"
    BY <1>2, AnswerType DEF Use
  <1> QED BY <1>1, <1>2

JobsType ==
    /\ slurm \in [Jobs -> States \cup {None}]
    /\ ended \in [Jobs -> Ages]
    /\ was \in [Jobs -> SUBSET {"succeeded", "failed"}]

LEMMA BecomesType ==
    ASSUME SlurmTypeOK, NEW j \in Jobs, NEW state \in States, Becomes(j, state)
    PROVE  JobsType'
  <1>1. StandsFor(state) \subseteq {"succeeded", "failed"}
    BY DEF StandsFor
  <1> QED BY <1>1, Numbers DEF SlurmTypeOK, JobsType, Becomes

LEMMA SlurmTypeInit == SlurmInit => SlurmTypeOK
  BY Numbers DEF SlurmInit, SlurmTypeOK, Nothing

LEMMA SlurmTypeStep ==
    ASSUME SlurmTypeOK, [SlurmNext]_vars
    PROVE  SlurmTypeOK'
  <1> USE DEF SlurmTypeOK
  <1>1. ASSUME NEW c \in Calls, NEW j \in Jobs, PollBegin(c, j)
        PROVE  SlurmTypeOK'
    <2>1. CallsType'
      BY <1>1, StageType, CallSet DEF PollBegin
    <2> QED BY <1>1, <2>1 DEF PollBegin, CallsType, slurmVars, fileVars, cacheVars
  <1>2. ASSUME NEW c \in Calls, SacctStart(c)
        PROVE  SlurmTypeOK'
    <2>1. InSacct(call[c].job, Since) \in Call
      BY <1>2, CallJob, StageType, SinceType DEF SacctStart
    <2>2. CallsType'
      BY <1>2, <2>1, CallSet DEF SacctStart
    <2>3. old' \subseteq Jobs /\ UNCHANGED <<slurmVars, fileVars, create, table, fresh, gap>>
      BY <1>2 DEF SacctStart
    <2> QED BY <1>2, <2>2, <2>3 DEF SacctStart, CallsType, slurmVars, fileVars
  <1>3. ASSUME NEW c \in Calls, Hit(c) \/ WaitTimesOut(c)
        PROVE  SlurmTypeOK'
    BY <1>3, UseType DEF Hit, WaitTimesOut, CallsType, slurmVars, fileVars, cacheVars
  <1>4. ASSUME NEW c \in Calls, SacctReads(c)
        PROVE  SlurmTypeOK'
    <2> DEFINE out == [j \in Jobs |->
                        IF Ended(j) /\ ended[j] > call[c].since THEN None ELSE slurm[j]]
    <2>1. out \in Outputs
      BY DEF Outputs
    <2>2. Parsing(call[c].job, out) \in Call
      BY <1>4, <2>1, CallJob, StageType DEF SacctReads
    <2>3. CallsType'
      BY <1>4, <2>2, CallSet DEF SacctReads
    <2> QED BY <1>4, <2>3 DEF SacctReads, CallsType, slurmVars, fileVars, cacheVars
  <1>5. ASSUME NEW c \in Calls, SacctDone(c)
        PROVE  SlurmTypeOK'
    <2>1. call[c].age \in Ages /\ call[c].out \in [Jobs -> States \cup {None}]
      BY <1>5 DEF SacctDone, Call
    <2>2. CallsType'
      BY <1>5, UseType DEF SacctDone
    <2>3. table' \in [Jobs -> States \cup {None}]
      BY <1>5, <2>1 DEF SacctDone
    <2>4. fresh' \in Ages /\ gap' \in Ages /\ checked' \in Ages
      BY <1>5, <2>1, GreatestAge, Numbers DEF SacctDone
    <2>5. UNCHANGED <<slurm, ended, was, sandbox, logs, create, old>>
      BY <1>5 DEF SacctDone, slurmVars, fileVars
    <2> QED BY <2>2, <2>3, <2>4, <2>5 DEF CallsType
  <1>6. ASSUME NEW c \in Calls, SacctFails(c)
        PROVE  SlurmTypeOK'
    BY <1>6, UseType, GreatestAge, Numbers DEF SacctFails, CallsType, slurmVars, fileVars
  <1>7. ASSUME NEW c \in Calls, SacctRaises(c)
        PROVE  SlurmTypeOK'
    BY <1>7, GreatestAge, Numbers DEF SacctRaises, slurmVars, fileVars
  <1>8. ASSUME NEW c \in Calls, LogsStep(c)
        PROVE  SlurmTypeOK'
    <2>1. CallsType'
      <3>1. ASSUME NEW phase, Answer(c, phase)
            PROVE  CallsType'
        BY <1>8, <3>1, AnswerType DEF LogsStep
      <3>2. CASE call' = [call EXCEPT ![c].at = "spinning"] /\ reported' = reported
        <4>1. [call[c] EXCEPT !.at = "spinning"] \in Call
          BY <1>8 DEF LogsStep, Call
        <4> QED BY <3>2, <4>1 DEF CallsType
      <3>3. CASE /\ call[c].tries > 0 /\ reported' = reported
                 /\ call' = [call EXCEPT ![c] = InLogs(call[c].job, call[c].tries - 1)]
        <4>1. call[c].job \in Jobs /\ call[c].tries - 1 \in 0..Attempts
          BY <1>8, <3>3, Numbers DEF LogsStep, Call
        <4>2. InLogs(call[c].job, call[c].tries - 1) \in Call
          BY <4>1, StageType
        <4> QED BY <3>3, <4>2, CallSet
      <3> QED BY <1>8, <3>1, <3>2, <3>3 DEF LogsStep
    <2> QED BY <1>8, <2>1 DEF LogsStep, CallsType, slurmVars, fileVars, cacheVars
  <1>9. ASSUME NEW j \in Jobs, JobStep(j)
        PROVE  SlurmTypeOK'
    <2>1. JobsType'
      BY <1>9, BecomesType DEF JobStep, States, Active, Final
    <2>2. logs' \in [Jobs -> {"absent", "empty", "full"}]
      BY <1>9 DEF JobStep
    <2> QED BY <1>9, <2>1, <2>2 DEF JobStep, JobsType, cacheVars
  <1>10. ASSUME NEW j \in Jobs, LogsAppear(j)
         PROVE  SlurmTypeOK'
    BY <1>10 DEF LogsAppear, slurmVars, cacheVars
  <1>11. ASSUME NEW j \in Jobs, CreatePod(j)
         PROVE  SlurmTypeOK'
    BY <1>11 DEF CreatePod, slurmVars, cacheVars
  <1>12. ASSUME NEW j \in Jobs, SbatchQueues(j)
         PROVE  SlurmTypeOK'
    <2>1. JobsType'
      BY <1>12, BecomesType DEF SbatchQueues, States, Active
    <2>2. create' \in [Jobs -> {"no", "sbatch", "queued", "done"}]
      BY <1>12 DEF SbatchQueues
    <2> QED BY <1>12, <2>1, <2>2 DEF SbatchQueues, JobsType, fileVars, cacheVars
  <1>13. ASSUME NEW j \in Jobs, SbatchReturns(j)
         PROVE  SlurmTypeOK'
    BY <1>13 DEF SbatchReturns, slurmVars, fileVars, cacheVars
  <1>14. ASSUME NEW j \in Jobs, DeletePod(j)
         PROVE  SlurmTypeOK'
    <2>1. JobsType'
      BY <1>14, BecomesType DEF DeletePod, States, Final, JobsType, slurmVars
    <2>2. sandbox' \subseteq Jobs /\ logs' \in [Jobs -> {"absent", "empty", "full"}]
      BY <1>14 DEF DeletePod, RemoveSandbox, fileVars
    <2> QED BY <1>14, <2>1, <2>2 DEF DeletePod, JobsType, cacheVars
  <1>15. CASE Time
    <2>1. /\ ended' \in [Jobs -> Ages] /\ fresh' \in Ages
          /\ checked' \in Ages \cup {Processing, None}
      BY <1>15, OlderAge, Numbers DEF Time
    <2>2. ASSUME NEW c \in Calls, call[c] # None
          PROVE  /\ [call[c] EXCEPT !.since = Older(@)] \in Call
                 /\ [call[c] EXCEPT !.age = Older(@)] \in Call
      BY <2>2, OlderAge DEF Call
    <2>3. call' \in [Calls -> Call \cup {None}]
      BY <1>15, <2>2 DEF Time
    <2> QED BY <1>15, <2>1, <2>3 DEF Time, fileVars
  <1>16. CASE Restart
    BY <1>16, Numbers DEF Restart, Nothing, slurmVars, fileVars
  <1>17. CASE UNCHANGED vars
    BY <1>17 DEF vars, slurmVars, fileVars, cacheVars
  <1>18. ASSUME NEW j \in Jobs, Requeue(j)
         PROVE  SlurmTypeOK'
    <2>1. JobsType'
      BY <1>18, BecomesType DEF Requeue, States, Active
    <2> QED BY <1>18, <2>1 DEF Requeue, JobsType, fileVars
  <1> QED
    BY <1>1, <1>2, <1>3, <1>4, <1>5, <1>6, <1>7, <1>8, <1>9, <1>10, <1>11, <1>12, <1>13,
       <1>14, <1>15, <1>16, <1>17, <1>18
    DEF SlurmNext, Proceeds, Sacct

\* The variables keep their types: no call waits for logs more often than it may.
THEOREM SlurmTypeCorrect == SlurmSpec => []SlurmTypeOK
  <1>1. SlurmTypeOK /\ [SlurmNext]_vars => SlurmTypeOK'
    BY SlurmTypeStep
  <1> QED BY <1>1, SlurmTypeInit, PTL DEF SlurmSpec

------------------------------------------------------------------------------
(* The lock *)

LEMMA FetchingSet ==
    ASSUME SlurmTypeOK, NEW c \in Calls, NEW x \in Call \cup {None},
           call' = [call EXCEPT ![c] = x]
    PROVE  /\ x # None /\ x.at \in {"sacct", "parsing"} => Fetching' = Fetching \cup {c}
           /\ x = None \/ x.at \notin {"sacct", "parsing"} => Fetching' = Fetching \ {c}
  BY DEF SlurmTypeOK, Fetching

\* Answering, using the table and reading logs end a fetch, or are no fetch.
LEMMA AnswerFetching ==
    ASSUME SlurmTypeOK, NEW c \in Calls, NEW phase, Answer(c, phase)
    PROVE  Fetching' = Fetching \ {c}
  BY FetchingSet DEF Answer

LEMMA UseFetching ==
    ASSUME SlurmTypeOK, NEW c \in Calls, call[c] # None, NEW entry, Use(c, entry)
    PROVE  Fetching' = Fetching \ {c}
  <1>1. CASE entry = "COMPLETED"
    <2>1. /\ InLogs(call[c].job, Attempts) \in Call
          /\ InLogs(call[c].job, Attempts).at = "logs"
      BY CallJob, StageType, Numbers
    <2> QED BY <1>1, <2>1, FetchingSet DEF Use
  <1>2. CASE entry # "COMPLETED"
    BY <1>2, AnswerFetching DEF Use
  <1> QED BY <1>1, <1>2

LEMMA LogsFetching ==
    ASSUME SlurmTypeOK, NEW c \in Calls, LogsStep(c)
    PROVE  Fetching' = Fetching \ {c}
  <1>1. ASSUME NEW phase, Answer(c, phase)
        PROVE  Fetching' = Fetching \ {c}
    BY <1>1, AnswerFetching
  <1>2. CASE call' = [call EXCEPT ![c].at = "spinning"]
    <2>1. /\ [call[c] EXCEPT !.at = "spinning"] \in Call
          /\ [call[c] EXCEPT !.at = "spinning"].at = "spinning"
      BY CallJob DEF LogsStep, Call
    <2> QED BY <1>2, <2>1, FetchingSet
  <1>3. CASE /\ call[c].tries > 0
             /\ call' = [call EXCEPT ![c] = InLogs(call[c].job, call[c].tries - 1)]
    <2>1. call[c].job \in Jobs /\ call[c].tries - 1 \in 0..Attempts
      BY <1>3, CallJob, Numbers DEF LogsStep, Call
    <2>2. /\ InLogs(call[c].job, call[c].tries - 1) \in Call
          /\ InLogs(call[c].job, call[c].tries - 1).at = "logs"
      BY <2>1, StageType
    <2> QED BY <1>3, <2>2, FetchingSet
  <1> QED BY <1>1, <1>2, <1>3 DEF LogsStep

LEMMA TimeFetching ==
    ASSUME SlurmTypeOK, Time
    PROVE  Fetching' = Fetching
  <1>1. ASSUME NEW c \in Calls
        PROVE  c \in Fetching' <=> c \in Fetching
    <2>1. CASE call[c] = None
      BY <2>1 DEF Time, Fetching
    <2>2. CASE call[c] # None
      <3>1. call[c] \in Call
        BY <2>2, CallJob
      <3>2. call'[c] # None /\ call'[c].at = call[c].at
        <4>1. call'[c] \in {call[c], [call[c] EXCEPT !.since = Older(@)],
                                    [call[c] EXCEPT !.age = Older(@)]}
          BY <2>2 DEF Time
        <4>2. /\ [call[c] EXCEPT !.since = Older(@)] \in Call
              /\ [call[c] EXCEPT !.age = Older(@)] \in Call
          BY <3>1, OlderAge DEF Call
        <4> QED BY <3>1, <4>1, <4>2, SlurmDistinct DEF Call
      <3> QED BY <2>2, <3>2 DEF Fetching
    <2> QED BY <2>1, <2>2
  <1> QED BY <1>1 DEF Fetching

LEMMA OneSacctInit == SlurmInit => OneSacct
  BY SlurmDistinct DEF SlurmInit, OneSacct, Fetching

LEMMA OneSacctStep ==
    ASSUME SlurmTypeOK, OneSacct, [SlurmNext]_vars
    PROVE  OneSacct'
  <1>1. ASSUME NEW c \in Calls, NEW j \in Jobs, PollBegin(c, j)
        PROVE  OneSacct'
    <2>1. Fetching' = Fetching \ {c} /\ c \notin Fetching
      BY <1>1, StageType, FetchingSet DEF PollBegin, Fetching
    <2> QED BY <1>1, <2>1 DEF PollBegin, OneSacct, cacheVars
  <1>2. ASSUME NEW c \in Calls, SacctStart(c)
        PROVE  OneSacct'
    <2>1. /\ InSacct(call[c].job, Since) \in Call
          /\ InSacct(call[c].job, Since).at = "sacct"
      BY <1>2, CallJob, StageType, SinceType DEF SacctStart
    <2>2. Fetching' = Fetching \cup {c}
      BY <1>2, <2>1, SlurmDistinct, FetchingSet DEF SacctStart
    <2>3. Fetching = {} /\ checked' = Processing
      BY <1>2 DEF SacctStart, OneSacct
    <2> QED BY <2>2, <2>3 DEF OneSacct
  <1>3. ASSUME NEW c \in Calls, Hit(c) \/ WaitTimesOut(c)
        PROVE  OneSacct'
    <2>1. Fetching' = Fetching \ {c} /\ c \notin Fetching
      BY <1>3, UseFetching DEF Hit, WaitTimesOut, Fetching
    <2> QED BY <1>3, <2>1 DEF Hit, WaitTimesOut, OneSacct, cacheVars
  <1>4. ASSUME NEW c \in Calls, SacctReads(c)
        PROVE  OneSacct'
    <2> DEFINE out == [j \in Jobs |->
                        IF Ended(j) /\ ended[j] > call[c].since THEN None ELSE slurm[j]]
    <2>1. out \in Outputs
      BY DEF Outputs, SlurmTypeOK
    <2>2. /\ Parsing(call[c].job, out) \in Call
          /\ Parsing(call[c].job, out).at = "parsing"
      BY <1>4, <2>1, CallJob, StageType DEF SacctReads
    <2>3. Fetching' = Fetching \cup {c} /\ c \in Fetching
      BY <1>4, <2>2, SlurmDistinct, FetchingSet DEF SacctReads, Fetching
    <2> QED BY <1>4, <2>3 DEF SacctReads, OneSacct, cacheVars
  <1>5. ASSUME NEW c \in Calls, SacctDone(c) \/ SacctFails(c) \/ SacctRaises(c)
        PROVE  OneSacct'
    <2>1. c \in Fetching /\ call[c] # None
      BY <1>5 DEF SacctDone, SacctFails, SacctRaises, Fetching
    <2>2. Fetching = {c}
      BY <2>1 DEF OneSacct, Fetching
    <2>3. Fetching' = Fetching \ {c}
      BY <1>5, <2>1, UseFetching, FetchingSet DEF SacctDone, SacctFails, SacctRaises
    <2>4. checked' # Processing
      BY <1>5, SlurmDistinct, Numbers DEF SacctDone, SacctFails, SacctRaises
    <2> QED BY <2>2, <2>3, <2>4 DEF OneSacct
  <1>6. ASSUME NEW c \in Calls, LogsStep(c)
        PROVE  OneSacct'
    <2>1. Fetching' = Fetching /\ checked' = checked
      BY <1>6, LogsFetching DEF LogsStep, Fetching, cacheVars
    <2> QED BY <2>1 DEF OneSacct
  <1>7. CASE Time
    <2>1. checked' = Processing <=> checked = Processing
      BY <1>7, OlderAge, SlurmDistinct DEF Time
    <2> QED BY <1>7, <2>1, TimeFetching DEF OneSacct
  <1>8. CASE Restart
    BY <1>8, SlurmDistinct DEF Restart, OneSacct, Fetching
  <1>9. CASE UNCHANGED <<call, checked>>
    BY <1>9 DEF OneSacct, Fetching
  <1>10. ASSUME NEW j \in Jobs,
                \/ JobStep(j) \/ Requeue(j) \/ LogsAppear(j) \/ CreatePod(j)
                \/ SbatchQueues(j) \/ SbatchReturns(j) \/ DeletePod(j)
         PROVE  UNCHANGED <<call, checked>>
    BY <1>10
    DEF JobStep, Requeue, LogsAppear, CreatePod, SbatchQueues, SbatchReturns, DeletePod, cacheVars
  <1> QED
    BY <1>1, <1>2, <1>3, <1>4, <1>5, <1>6, <1>7, <1>8, <1>9, <1>10
    DEF SlurmNext, Proceeds, Sacct, vars, cacheVars

\* _cached_squeue_time is a lock: however many calls there are and however sacct ends,
\* it says "processing" exactly while one of them runs sacct.
THEOREM OneSacctCorrect == SlurmSpec => []OneSacct
  <1>1. SlurmTypeOK /\ OneSacct /\ [SlurmNext]_vars => OneSacct'
    BY OneSacctStep
  <1> QED BY <1>1, OneSacctInit, SlurmTypeCorrect, PTL DEF SlurmSpec

------------------------------------------------------------------------------
(* Reports *)

\* What may be told of a job when this state is seen of it is among what it was.
Holds(j, seen) == StandsFor(seen) \subseteq was[j]

\* It is so for what sacct printed for a call, and for the job whose logs it fetches.
CallHolds(x) ==
    /\ \A j \in Jobs : Holds(j, x.out[j])
    /\ x.at \in {"logs", "spinning"} => Holds(x.job, "COMPLETED")

CallsHold == \A c \in Calls : call[c] # None => CallHolds(call[c])

\* It is so of the state of a job, and wherever one is remembered.
ReportInv ==
    /\ \A j \in Jobs : Holds(j, slurm[j]) /\ Holds(j, table[j])
    /\ CallsHold
    /\ ReportsAreTrue

\* What a job was it stays, and it becomes what its state stands for.
OnlyMore ==
    \A j \in Jobs :
        /\ was[j] \subseteq was'[j]
        /\ slurm'[j] = slurm[j] \/ StandsFor(slurm'[j]) \subseteq was'[j]

LEMMA NoneHolds == \A j \in Jobs : Holds(j, None) /\ Holds(j, Nothing[j])
  BY SlurmDistinct DEF Holds, StandsFor, Nothing, Failed, States, Active, Final

\* A new call knows nothing, and one that fetches logs knows that its job completed.
LEMMA StageHolds ==
    ASSUME NEW j \in Jobs
    PROVE  /\ CallHolds(Waiting(j))
           /\ \A since : CallHolds(InSacct(j, since))
           /\ \A out : (\A i \in Jobs : Holds(i, out[i])) => CallHolds(Parsing(j, out))
           /\ \A tries : Holds(j, "COMPLETED") => CallHolds(InLogs(j, tries))
  BY NoneHolds DEF CallHolds, Waiting, InSacct, Parsing, InLogs, AtStage

LEMMA ReportInvInit == SlurmInit => ReportInv
  BY NoneHolds, SlurmDistinct
  DEF SlurmInit, ReportInv, CallsHold, Nothing, ReportsAreTrue

LEMMA BecomesMore ==
    ASSUME SlurmTypeOK, NEW j \in Jobs, NEW state, Becomes(j, state)
    PROVE  OnlyMore
  BY DEF SlurmTypeOK, Becomes, OnlyMore

LEMMA ReportInvMore ==
    ASSUME ReportInv, SlurmTypeOK, OnlyMore, UNCHANGED <<table, call, reported>>
    PROVE  ReportInv'
  <1>1. ASSUME NEW j \in Jobs, NEW seen, Holds(j, seen)
        PROVE  StandsFor(seen) \subseteq was'[j]
    BY <1>1 DEF Holds, OnlyMore
  <1>2. \A j \in Jobs : Holds(j, slurm[j])' /\ Holds(j, table[j])'
    BY <1>1 DEF ReportInv, OnlyMore, Holds
  <1>3. CallsHold'
    <2> SUFFICES ASSUME NEW c \in Calls, call[c] # None
                 PROVE  CallHolds(call[c])'
      BY DEF CallsHold
    <2>1. CallHolds(call[c]) /\ call[c].job \in Jobs
      BY CallJob DEF ReportInv, CallsHold
    <2> QED BY <1>1, <2>1 DEF CallHolds, Holds
  <1>4. ReportsAreTrue'
    BY DEF ReportInv, ReportsAreTrue, OnlyMore
  <1> QED BY <1>2, <1>3, <1>4 DEF ReportInv

LEMMA CallsHoldSet ==
    ASSUME SlurmTypeOK, CallsHold, UNCHANGED was, NEW c \in Calls, NEW x,
           x # None => CallHolds(x), call' = [call EXCEPT ![c] = x]
    PROVE  CallsHold'
  <1> SUFFICES ASSUME NEW d \in Calls, call'[d] # None
               PROVE  CallHolds(call[d])'
    BY DEF CallsHold
  <1>1. call'[d] \in {x, call[d]} /\ (call'[d] = x \/ call[d] # None)
    BY DEF SlurmTypeOK
  <1>2. CallHolds(call'[d])
    BY <1>1 DEF CallsHold
  <1> QED BY <1>2 DEF CallHolds, Holds

LEMMA AnswerHolds ==
    ASSUME SlurmTypeOK, CallsHold, ReportsAreTrue, UNCHANGED was,
           NEW c \in Calls, call[c] # None, NEW phase, Answer(c, phase),
           phase \in {"succeeded", "failed"} => phase \in was[call[c].job]
    PROVE  CallsHold' /\ ReportsAreTrue'
  <1>1. CallsHold'
    BY CallsHoldSet DEF Answer
  <1>2. ReportsAreTrue'
    BY SlurmDistinct, CallJob DEF Answer, ReportsAreTrue, SlurmTypeOK
  <1> QED BY <1>1, <1>2

LEMMA UseHolds ==
    ASSUME SlurmTypeOK, CallsHold, ReportsAreTrue, UNCHANGED was,
           NEW c \in Calls, call[c] # None, NEW entry, Use(c, entry),
           Holds(call[c].job, entry)
    PROVE  CallsHold' /\ ReportsAreTrue'
  <1>1. CASE entry = "COMPLETED"
    <2>1. CallHolds(InLogs(call[c].job, Attempts))
      BY <1>1, CallJob, StageHolds
    <2>2. CallsHold'
      BY <1>1, <2>1, CallsHoldSet DEF Use
    <2> QED BY <1>1, <2>2 DEF Use, ReportsAreTrue
  <1>2. CASE entry # "COMPLETED"
    <2>1. Phase(entry) # "succeeded" /\ (Phase(entry) = "failed" => entry \in Failed)
      BY DEF Phase
    <2>2. entry \in Failed => "failed" \in was[call[c].job]
      BY <1>2 DEF Holds, StandsFor
    <2> QED BY <1>2, <2>1, <2>2, AnswerHolds DEF Use
  <1> QED BY <1>1, <1>2

LEMMA LogsHold ==
    ASSUME SlurmTypeOK, CallsHold, ReportsAreTrue, NEW c \in Calls, LogsStep(c)
    PROVE  CallsHold' /\ ReportsAreTrue'
  <1>1. /\ call[c] # None /\ UNCHANGED was
        /\ call[c] \in Call /\ call[c].job \in Jobs
        /\ CallHolds(call[c]) /\ Holds(call[c].job, "COMPLETED")
    BY CallJob DEF LogsStep, slurmVars, CallsHold, CallHolds
  <1>2. ASSUME NEW phase, Answer(c, phase)
        PROVE  CallsHold' /\ ReportsAreTrue'
    <2>1. {"succeeded", "failed"} \subseteq was[call[c].job]
      BY <1>1 DEF Holds, StandsFor, Failed
    <2> QED BY <1>1, <1>2, <2>1, AnswerHolds
  <1>3. CASE call' = [call EXCEPT ![c].at = "spinning"] /\ reported' = reported
    <2>1. CallHolds([call[c] EXCEPT !.at = "spinning"])
      BY <1>1 DEF CallHolds, Call
    <2>2. CallsHold'
      BY <1>1, <1>3, <2>1, CallsHoldSet
    <2> QED BY <1>1, <1>3, <2>2 DEF ReportsAreTrue
  <1>4. CASE /\ call' = [call EXCEPT ![c] = InLogs(call[c].job, call[c].tries - 1)]
             /\ reported' = reported
    <2>1. CallsHold'
      BY <1>1, <1>4, StageHolds, CallsHoldSet
    <2> QED BY <1>1, <1>4, <2>1 DEF ReportsAreTrue
  <1> QED BY <1>2, <1>3, <1>4 DEF LogsStep

LEMMA ReportInvStep ==
    ASSUME SlurmTypeOK, ReportInv, [SlurmNext]_vars
    PROVE  ReportInv'
  <1> USE DEF ReportInv
  <1>1. ASSUME NEW c \in Calls, NEW j \in Jobs, PollBegin(c, j)
        PROVE  ReportInv'
    <2>1. CallsHold'
      BY <1>1, StageHolds, CallsHoldSet DEF PollBegin, slurmVars
    <2> QED BY <1>1, <2>1 DEF PollBegin, slurmVars, cacheVars, ReportsAreTrue, Holds
  <1>2. ASSUME NEW c \in Calls, SacctStart(c)
        PROVE  ReportInv'
    <2>1. CallsHold'
      BY <1>2, CallJob, StageHolds, CallsHoldSet DEF SacctStart, slurmVars
    <2> QED BY <1>2, <2>1 DEF SacctStart, slurmVars, ReportsAreTrue, Holds
  <1>3. ASSUME NEW c \in Calls, Hit(c) \/ WaitTimesOut(c) \/ SacctFails(c)
        PROVE  ReportInv'
    <2>1. /\ call[c] # None /\ Use(c, table[call[c].job])
          /\ UNCHANGED <<slurmVars, create, table>>
      BY <1>3 DEF Hit, WaitTimesOut, SacctFails, cacheVars
    <2>2. CallsHold' /\ ReportsAreTrue'
      BY <2>1, CallJob, UseHolds DEF slurmVars
    <2> QED BY <2>1, <2>2 DEF slurmVars, Holds
  <1>4. ASSUME NEW c \in Calls, SacctReads(c)
        PROVE  ReportInv'
    <2> DEFINE out == [j \in Jobs |->
                        IF Ended(j) /\ ended[j] > call[c].since THEN None ELSE slurm[j]]
    <2>1. \A j \in Jobs : Holds(j, out[j])
      <3> SUFFICES ASSUME NEW j \in Jobs PROVE Holds(j, out[j])
        OBVIOUS
      <3>1. out[j] = None \/ out[j] = slurm[j]
        OBVIOUS
      <3>2. Holds(j, slurm[j])
        OBVIOUS
      <3> QED BY <3>1, <3>2, NoneHolds
    <2>2. CallHolds(Parsing(call[c].job, out))
      BY <1>4, <2>1, CallJob, StageHolds DEF SacctReads
    <2>3. CallsHold'
      BY <1>4, <2>2, CallsHoldSet DEF SacctReads, slurmVars
    <2> QED BY <1>4, <2>3 DEF SacctReads, slurmVars, cacheVars, ReportsAreTrue, Holds
  <1>5. ASSUME NEW c \in Calls, SacctDone(c)
        PROVE  ReportInv'
    <2> DEFINE new == [j \in Jobs |-> IF call[c].out[j] = None THEN table[j] ELSE call[c].out[j]]
    <2>1. /\ call[c] # None /\ Use(c, new[call[c].job]) /\ table' = new
          /\ UNCHANGED <<slurmVars, create>>
      BY <1>5 DEF SacctDone
    <2>2. \A j \in Jobs : Holds(j, new[j])
      BY <2>1 DEF CallsHold, CallHolds
    <2>3. CallsHold' /\ ReportsAreTrue'
      BY <2>1, <2>2, CallJob, UseHolds DEF slurmVars
    <2> QED BY <2>1, <2>2, <2>3 DEF slurmVars, Holds
  <1>6. ASSUME NEW c \in Calls, SacctRaises(c)
        PROVE  ReportInv'
    <2>1. CallsHold'
      BY <1>6, CallsHoldSet DEF SacctRaises, slurmVars
    <2> QED BY <1>6, <2>1 DEF SacctRaises, slurmVars, ReportsAreTrue, Holds
  <1>7. ASSUME NEW c \in Calls, LogsStep(c)
        PROVE  ReportInv'
    BY <1>7, LogsHold DEF LogsStep, slurmVars, cacheVars, Holds
  <1>8. ASSUME NEW j \in Jobs,
               \/ JobStep(j) \/ Requeue(j) \/ LogsAppear(j) \/ CreatePod(j)
               \/ SbatchQueues(j) \/ SbatchReturns(j) \/ DeletePod(j)
        PROVE  ReportInv'
    <2>1. UNCHANGED slurmVars \/ \E state : Becomes(j, state)
      BY <1>8
      DEF JobStep, Requeue, LogsAppear, CreatePod, SbatchQueues, SbatchReturns, DeletePod
    <2>2. OnlyMore
      BY <2>1, BecomesMore DEF OnlyMore, slurmVars
    <2>3. UNCHANGED <<table, call, reported>>
      BY <1>8
      DEF JobStep, Requeue, LogsAppear, CreatePod, SbatchQueues, SbatchReturns, DeletePod,
          cacheVars
    <2> QED BY <2>2, <2>3, ReportInvMore
  <1>9. CASE Time
    <2>1. UNCHANGED <<slurm, was, table, reported>>
      BY <1>9 DEF Time
    <2>2. CallsHold'
      <3> SUFFICES ASSUME NEW c \in Calls, call'[c] # None
                   PROVE  CallHolds(call[c])'
        BY DEF CallsHold
      <3>1. call[c] # None /\ call[c] \in Call /\ CallHolds(call[c])
        BY <1>9, CallJob DEF Time, CallsHold
      <3>2. call'[c] \in {call[c], [call[c] EXCEPT !.since = Older(@)],
                                  [call[c] EXCEPT !.age = Older(@)]}
        BY <1>9, <3>1 DEF Time
      <3>3. CallHolds(call'[c])
        BY <3>1, <3>2 DEF CallHolds, Call
      <3> QED BY <2>1, <3>3 DEF CallHolds, Holds
    <2> QED BY <2>1, <2>2 DEF ReportsAreTrue, Holds
  <1>10. CASE Restart
    BY <1>10, NoneHolds DEF Restart, slurmVars, CallsHold, ReportsAreTrue, Holds, Nothing
  <1>11. CASE UNCHANGED vars
    BY <1>11 DEF vars, slurmVars, cacheVars, CallsHold, CallHolds, ReportsAreTrue, Holds
  <1> QED
    BY <1>1, <1>2, <1>3, <1>4, <1>5, <1>6, <1>7, <1>8, <1>9, <1>10, <1>11
    DEF SlurmNext, Proceeds, Sacct

\* What a call reports of a job was true of it, however old the table it was read from
\* and however often the job was requeued: succeeded is told only of a job that Slurm had
\* completed, failed only of one it had completed or had in a failed state.
THEOREM ReportsAreTrueCorrect == SlurmSpec => []ReportsAreTrue
  <1>1. SlurmTypeOK /\ ReportInv /\ [SlurmNext]_vars => ReportInv'
    BY ReportInvStep
  <1>2. ReportInv => ReportsAreTrue
    BY DEF ReportInv
  <1> QED BY <1>1, <1>2, ReportInvInit, SlurmTypeCorrect, PTL DEF SlurmSpec

------------------------------------------------------------------------------
(* The ten minutes *)

\* A state read that long ago is the end of the job, if it had one then that the first
\* sacct could see.
Seen(j, age, state) == j \notin old /\ Ended(j) /\ age < ended[j] => state = slurm[j]

Written(x, j) == IF x.out[j] = None THEN table[j] ELSE x.out[j]

\* An sacct that looks back that far sees every end it should.
Reaches(since) == \A j \in Jobs \ old : Ended(j) => ended[j] <= since

\* sacct looks back to what the table has read, the first one to every end there is to
\* see, and what it printed completes the table.
CallSees(x) ==
    /\ x.at = "sacct" => fresh <= x.since \/ Reaches(x.since)
    /\ x.at = "parsing" => \A j \in Jobs : Seen(j, x.age, Written(x, j))

CallsSee == \A c \in Calls : call[c] # None => CallSees(call[c])

\* While no check was late: the table has the ends it should have, the next sacct will
\* look back far enough, and so does the one that runs.
EndsInv ==
    /\ checked = None => old = {}
    /\ gap <= Window =>
        /\ \A j \in Jobs : Seen(j, fresh, table[j])
        /\ checked \in Ages => fresh <= checked + Window
        /\ CallsSee

LEMMA EndsInvInit == SlurmInit => EndsInv
  BY SlurmDistinct, Numbers DEF SlurmInit, EndsInv, Seen, CallsSee, Ended, Final, Nothing, States

LEMMA CallsSeeSet ==
    ASSUME SlurmTypeOK, CallsSee, UNCHANGED <<slurmVars, table, fresh, old>>,
           NEW c \in Calls, NEW x, x # None => CallSees(x), call' = [call EXCEPT ![c] = x]
    PROVE  CallsSee'
  <1> SUFFICES ASSUME NEW d \in Calls, call'[d] # None
               PROVE  CallSees(call[d])'
    BY DEF CallsSee
  <1>1. call'[d] \in {x, call[d]} /\ (call'[d] = x \/ call[d] # None)
    BY DEF SlurmTypeOK
  <1>2. CallSees(call'[d])
    BY <1>1 DEF CallsSee
  <1> QED BY <1>2 DEF CallSees, Reaches, Seen, Written, Ended, slurmVars

\* When sacct has ended no other runs.
LEMMA CallsSeeEnd ==
    ASSUME Fetching' = {}
    PROVE  CallsSee'
  BY DEF Fetching, CallsSee, CallSees

LEMMA FetchEnds ==
    ASSUME SlurmTypeOK, OneSacct, NEW c \in Calls,
           SacctDone(c) \/ SacctFails(c) \/ SacctRaises(c)
    PROVE  CallsSee'
  <1>1. c \in Fetching /\ call[c] # None
    BY DEF SacctDone, SacctFails, SacctRaises, Fetching
  <1>2. Fetching = {c}
    BY <1>1 DEF OneSacct, Fetching
  <1>3. Fetching' = Fetching \ {c}
    BY <1>1, UseFetching, FetchingSet DEF SacctDone, SacctFails, SacctRaises
  <1> QED BY <1>2, <1>3, CallsSeeEnd

\* Of the stages a call can be put at, only the two of sacct see anything.
LEMMA StageSees ==
    ASSUME NEW x \in Call, x.at \notin {"sacct", "parsing"}
    PROVE  CallSees(x)
  BY DEF CallSees

LEMMA UseSees ==
    ASSUME SlurmTypeOK, CallsSee, UNCHANGED <<slurmVars, table, fresh, old>>,
           NEW c \in Calls, call[c] # None, NEW entry, Use(c, entry)
    PROVE  CallsSee'
  <1>1. CASE entry = "COMPLETED"
    <2>1. CallSees(InLogs(call[c].job, Attempts))
      BY CallJob, StageType, StageSees, Numbers
    <2> QED BY <1>1, <2>1, CallsSeeSet DEF Use
  <1>2. CASE entry # "COMPLETED"
    BY <1>2, CallsSeeSet DEF Use, Answer
  <1> QED BY <1>1, <1>2

LEMMA LogsSee ==
    ASSUME SlurmTypeOK, CallsSee, NEW c \in Calls, LogsStep(c)
    PROVE  CallsSee'
  <1>1. /\ call[c] # None /\ UNCHANGED <<slurmVars, table, fresh, old>>
        /\ call[c] \in Call /\ call[c].job \in Jobs
    BY CallJob DEF LogsStep, cacheVars
  <1>2. ASSUME NEW phase, Answer(c, phase)
        PROVE  CallsSee'
    BY <1>1, <1>2, CallsSeeSet DEF Answer
  <1>3. CASE call' = [call EXCEPT ![c].at = "spinning"]
    <2>1. CallSees([call[c] EXCEPT !.at = "spinning"])
      BY <1>1 DEF CallSees, Call
    <2> QED BY <1>1, <1>3, <2>1, CallsSeeSet
  <1>4. CASE /\ call[c].tries > 0
             /\ call' = [call EXCEPT ![c] = InLogs(call[c].job, call[c].tries - 1)]
    <2>1. call[c].tries - 1 \in 0..Attempts
      BY <1>1, <1>4, Numbers DEF Call
    <2>2. CallSees(InLogs(call[c].job, call[c].tries - 1))
      BY <1>1, <2>1, StageType, StageSees
    <2> QED BY <1>1, <1>4, <2>2, CallsSeeSet
  <1> QED BY <1>2, <1>3, <1>4 DEF LogsStep

\* A job that ends now ended after every read; the others are as they were.
LEMMA JobsEnd ==
    ASSUME SlurmTypeOK, EndsInv, NEW j \in Jobs,
           \/ JobStep(j) \/ Requeue(j) \/ LogsAppear(j) \/ CreatePod(j)
           \/ SbatchQueues(j) \/ SbatchReturns(j) \/ DeletePod(j)
    PROVE  EndsInv'
  <1>1. UNCHANGED <<table, checked, fresh, gap, call>> /\ old' \subseteq old
    BY DEF JobStep, Requeue, LogsAppear, CreatePod, SbatchQueues, SbatchReturns, DeletePod,
           cacheVars
  <1>2. \A i \in Jobs : \/ ~Ended(i)' \/ ended'[i] = 0
                        \/ /\ slurm'[i] = slurm[i] /\ ended'[i] = ended[i]
                           /\ i \in old => i \in old'
    <2>1. CASE UNCHANGED <<slurmVars, old>>
      BY <2>1 DEF slurmVars
    <2>2. CASE (\E state : Becomes(j, state)) /\ old \ {j} \subseteq old'
      <3> SUFFICES ASSUME NEW i \in Jobs, i # j
                   PROVE  slurm'[i] = slurm[i] /\ ended'[i] = ended[i]
        BY <2>2 DEF Becomes, SlurmTypeOK
      <3> QED BY <2>2 DEF Becomes, SlurmTypeOK
    <2> QED
      BY <2>1, <2>2
      DEF JobStep, Requeue, LogsAppear, CreatePod, SbatchQueues, SbatchReturns, DeletePod,
          cacheVars
  <1>3. ASSUME NEW i \in Jobs, NEW age \in Ages, NEW state, Seen(i, age, state)
        PROVE  i \notin old' /\ Ended(i)' /\ age < ended'[i] => state = slurm'[i]
    BY <1>2, <1>3, Numbers DEF Seen, Ended
  <1>4. ASSUME gap <= Window
        PROVE  /\ \A i \in Jobs : Seen(i, fresh, table[i])'
               /\ checked' \in Ages => fresh' <= checked' + Window
               /\ CallsSee'
    <2>1. \A i \in Jobs : Seen(i, fresh, table[i])'
      BY <1>1, <1>3, <1>4 DEF EndsInv, Seen, SlurmTypeOK
    <2>2. CallsSee'
      <3> SUFFICES ASSUME NEW c \in Calls, call'[c] # None
                   PROVE  CallSees(call[c])'
        BY DEF CallsSee
      <3>1. call'[c] = call[c] /\ call[c] \in Call /\ CallSees(call[c])
        BY <1>1, <1>4, CallJob DEF EndsInv, CallsSee
      <3>2. call[c].age \in Ages /\ call[c].since \in Ages
        BY <3>1 DEF Call
      <3>3. \A i \in Jobs : Written(call[c], i)' = Written(call[c], i)
        BY <1>1 DEF Written
      <3>4. ASSUME call[c].at = "parsing", NEW i \in Jobs
            PROVE  Seen(i, call[c].age, Written(call[c], i))'
        BY <1>3, <3>1, <3>2, <3>3, <3>4 DEF CallSees, Seen
      <3>5. ASSUME Reaches(call[c].since)
            PROVE  Reaches(call[c].since)'
        <4>1. ASSUME NEW i \in Jobs, i \notin old', Ended(i)'
              PROVE  ended'[i] <= call[c].since
          <5>1. CASE ended'[i] = 0
            <6>1. call[c].since \in Nat
              BY <3>2, Numbers
            <6> QED BY <5>1, <6>1
          <5>2. CASE ended'[i] # 0
            <6>1. slurm'[i] = slurm[i] /\ ended'[i] = ended[i] /\ (i \in old => i \in old')
              BY <1>2, <4>1, <5>2
            <6> QED BY <3>5, <4>1, <6>1 DEF Reaches, Ended
          <5> QED BY <5>1, <5>2
        <4> QED BY <3>1, <4>1 DEF Reaches
      <3> QED BY <1>1, <3>1, <3>4, <3>5 DEF CallSees
    <2> QED BY <1>1, <1>4, <2>1, <2>2 DEF EndsInv
  <1> QED BY <1>1, <1>4 DEF EndsInv

LEMMA TimeSees ==
    ASSUME SlurmTypeOK, EndsInv, Time
    PROVE  EndsInv'
  <1>0. checked' = None => old' = {}
    BY SlurmDistinct, OlderAge DEF EndsInv, Time
  <1> SUFFICES ASSUME gap <= Window
               PROVE  /\ \A j \in Jobs : Seen(j, fresh, table[j])'
                      /\ checked' \in Ages => fresh' <= checked' + Window
                      /\ CallsSee'
    BY <1>0 DEF EndsInv, Time
  <1>1. /\ \A j \in Jobs : Seen(j, fresh, table[j])
        /\ checked \in Ages => fresh <= checked + Window
        /\ CallsSee
    BY DEF EndsInv
  <1>2. ASSUME NEW j \in Jobs, NEW age \in Ages, NEW state, Seen(j, age, state)
        PROVE  j \notin old' /\ Ended(j)' /\ Older(age) < ended'[j] => state = slurm'[j]
    BY <1>2, OlderOrder DEF Seen, Ended, Time, SlurmTypeOK
  <1>3. \A j \in Jobs : Seen(j, fresh, table[j])'
    BY <1>1, <1>2 DEF Seen, Time, SlurmTypeOK
  <1>4. checked' \in Ages => fresh' <= checked' + Window
    <2>1. CASE checked \in Ages
      BY <1>1, <2>1, Numbers DEF Time, Older, Ages, SlurmTypeOK
    <2>2. CASE checked \notin Ages
      BY <2>2 DEF Time
    <2> QED BY <2>1, <2>2
  <1>5. CallsSee'
    <2> SUFFICES ASSUME NEW c \in Calls, call'[c] # None
                 PROVE  CallSees(call[c])'
      BY DEF CallsSee
    <2>1. call[c] # None /\ call[c] \in Call /\ CallSees(call[c])
      BY <1>1, CallJob DEF Time, CallsSee
    <2>2. call[c].age \in Ages /\ call[c].since \in Ages
      BY <2>1 DEF Call
    <2>3. /\ call'[c].at = call[c].at /\ call'[c].out = call[c].out
          /\ call[c].at = "sacct" => call'[c].since = Older(call[c].since)
          /\ call[c].at = "parsing" => call'[c].age = Older(call[c].age)
      BY <2>1 DEF Time, Call
    <2>4. \A j \in Jobs : Written(call[c], j)' = Written(call[c], j)
      BY <2>3 DEF Written, Time
    <2>5. ASSUME call[c].at = "sacct"
          PROVE  fresh' <= call'[c].since \/ Reaches(call[c].since)'
      <3>1. CASE fresh <= call[c].since
        BY <2>2, <2>3, <2>5, <3>1, OlderOrder DEF Time, SlurmTypeOK
      <3>2. CASE Reaches(call[c].since)
        <4>1. ASSUME NEW j \in Jobs, j \notin old', Ended(j)'
              PROVE  ended'[j] <= call'[c].since
          <5>1. /\ Ended(j) /\ ended[j] <= call[c].since /\ ended[j] \in Ages
                /\ ended'[j] = Older(ended[j])
            BY <3>2, <4>1 DEF Reaches, Ended, Time, SlurmTypeOK
          <5> QED BY <2>2, <2>3, <2>5, <5>1, OlderOrder
        <4> QED BY <4>1 DEF Reaches
      <3> QED BY <2>1, <2>5, <3>1, <3>2 DEF CallSees
    <2>6. ASSUME call[c].at = "parsing", NEW j \in Jobs
          PROVE  Seen(j, call[c].age, Written(call[c], j))'
      BY <1>2, <2>1, <2>2, <2>3, <2>4, <2>6 DEF CallSees, Seen
    <2> QED BY <2>3, <2>5, <2>6 DEF CallSees
  <1> QED BY <1>3, <1>4, <1>5

LEMMA EndsInvStep ==
    ASSUME SlurmTypeOK, OneSacct, EndsInv, [SlurmNext]_vars
    PROVE  EndsInv'
  <1> USE DEF EndsInv
  <1>1. ASSUME NEW c \in Calls, NEW j \in Jobs, PollBegin(c, j)
        PROVE  EndsInv'
    <2>1. CallSees(Waiting(j)) /\ UNCHANGED <<slurmVars, cacheVars>>
      BY <1>1, StageType, StageSees DEF PollBegin
    <2>2. gap <= Window => CallsSee'
      BY <1>1, <2>1, CallsSeeSet DEF PollBegin, cacheVars
    <2> QED BY <2>1, <2>2 DEF Seen, Ended, slurmVars, cacheVars
  <1>2. ASSUME NEW c \in Calls, SacctStart(c)
        PROVE  EndsInv'
    <2>1. /\ UNCHANGED <<slurmVars, table, fresh, gap>> /\ checked' = Processing
          /\ call' = [call EXCEPT ![c] = InSacct(call[c].job, Since)]
          /\ old' = IF checked = None THEN {j \in Jobs : Ended(j) /\ ended[j] > Day} ELSE old
      BY <1>2 DEF SacctStart
    <2>2. old \subseteq old'
      BY <2>1
    <2>3. ASSUME gap <= Window
          PROVE  CallsSee'
      <3> SUFFICES ASSUME NEW d \in Calls, call'[d] # None
                   PROVE  CallSees(call[d])'
        BY DEF CallsSee
      <3>1. CASE d = c
        <4>1. /\ call'[c].at = "sacct" /\ call'[c].since = Since
          BY <1>2, <2>1, CallJob, SinceType, StageType DEF SacctStart, SlurmTypeOK
        <4>2. CASE checked = None
          <5>1. Since = Day
            BY <4>2 DEF Since
          <5>2. ASSUME NEW j \in Jobs, j \notin old', Ended(j)'
                PROVE  ended'[j] <= Day
            <6>1. Ended(j) /\ ended'[j] = ended[j] /\ ~(ended[j] > Day)
              BY <2>1, <4>2, <5>2 DEF Ended, slurmVars
            <6>2. ended[j] \in Nat /\ Day \in Nat
              BY Numbers DEF SlurmTypeOK
            <6> QED BY <6>1, <6>2
          <5> QED BY <3>1, <4>1, <5>1, <5>2 DEF CallSees, Reaches
        <4>3. CASE checked # None
          <5>1. fresh <= Since
            BY <1>2, <2>3, <4>3, Numbers DEF SacctStart, Since, Least, SlurmTypeOK, Ages
          <5> QED BY <2>1, <3>1, <4>1, <5>1 DEF CallSees
        <4> QED BY <4>2, <4>3
      <3>2. CASE d # c
        <4>1. call'[d] = call[d] /\ call[d] # None
          BY <2>1, <3>2 DEF SlurmTypeOK
        <4>2. call[d].at \notin {"sacct", "parsing"}
          BY <1>2, <4>1 DEF SacctStart, OneSacct, Fetching
        <4> QED BY <4>1, <4>2 DEF CallSees
      <3> QED BY <3>1, <3>2
    <2> QED BY <2>1, <2>2, <2>3, SlurmDistinct DEF Seen, Ended, slurmVars
  <1>3. ASSUME NEW c \in Calls, Hit(c) \/ WaitTimesOut(c)
        PROVE  EndsInv'
    <2>1. UNCHANGED <<slurmVars, cacheVars>> /\ call[c] # None /\ Use(c, table[call[c].job])
      BY <1>3 DEF Hit, WaitTimesOut
    <2>2. gap <= Window => CallsSee'
      BY <2>1, UseSees DEF cacheVars
    <2> QED BY <2>1, <2>2 DEF Seen, Ended, slurmVars, cacheVars
  <1>4. ASSUME NEW c \in Calls, SacctReads(c)
        PROVE  EndsInv'
    <2> DEFINE out == [j \in Jobs |->
                        IF Ended(j) /\ ended[j] > call[c].since THEN None ELSE slurm[j]]
               x == Parsing(call[c].job, out)
    <2>1. /\ UNCHANGED <<slurmVars, cacheVars>> /\ call' = [call EXCEPT ![c] = x]
          /\ call[c].at = "sacct" /\ call[c] # None /\ call[c].job \in Jobs
          /\ call[c].since \in Ages
      BY <1>4, CallJob DEF SacctReads, Call
    <2>2. out \in Outputs
      BY DEF Outputs, SlurmTypeOK
    <2>3. x.at = "parsing" /\ x.out = out /\ x.age = 0
      BY <2>1, <2>2, StageType
    <2>4. ASSUME gap <= Window
          PROVE  CallsSee'
      <3>1. fresh <= call[c].since \/ Reaches(call[c].since)
        BY <2>1, <2>4 DEF CallsSee, CallSees
      <3>2. ASSUME NEW j \in Jobs, j \notin old, Ended(j)
            PROVE  Written(x, j) = slurm[j]
        <4>1. CASE ended[j] > call[c].since
          <5>1. ended[j] \in Nat /\ fresh \in Nat /\ call[c].since \in Nat
            BY <2>1, Numbers DEF SlurmTypeOK
          <5>2. fresh < ended[j]
            BY <3>1, <3>2, <4>1, <5>1 DEF Reaches
          <5>3. Seen(j, fresh, table[j])
            BY <2>4
          <5>4. table[j] = slurm[j]
            BY <3>2, <5>2, <5>3 DEF Seen
          <5> QED BY <2>3, <3>2, <4>1, <5>4 DEF Written
        <4>2. CASE ~(ended[j] > call[c].since)
          BY <2>3, <3>2, <4>2, SlurmDistinct DEF Written, Ended, States
        <4> QED BY <4>1, <4>2
      <3>3. CallSees(x)
        BY <2>3, <3>2 DEF CallSees, Seen
      <3> QED BY <2>1, <2>4, <3>3, CallsSeeSet DEF cacheVars
    <2> QED BY <2>1, <2>4 DEF Seen, Ended, slurmVars, cacheVars
  <1>5. ASSUME NEW c \in Calls, SacctDone(c)
        PROVE  EndsInv'
    <2>1. /\ call[c] # None /\ call[c].at = "parsing" /\ call[c].age \in Ages
          /\ fresh' = call[c].age /\ checked' = 0 /\ gap' = Greatest(gap, call[c].age)
          /\ \A j \in Jobs : table'[j] = Written(call[c], j)
          /\ UNCHANGED <<slurmVars, old>>
      BY <1>5 DEF SacctDone, Written, SlurmTypeOK, Call
    <2>2. gap' <= Window => gap <= Window /\ call[c].age <= Window
      <3>1. /\ gap \in Nat /\ call[c].age \in Nat /\ gap' \in Nat /\ Window \in Nat
            /\ gap <= gap' /\ call[c].age <= gap'
        BY <2>1, GreatestAge, Numbers DEF SlurmTypeOK
      <3> QED BY <3>1
    <2>3. gap' <= Window => \A j \in Jobs : Seen(j, fresh, table[j])'
      BY <2>1, <2>2 DEF CallsSee, CallSees, Seen, Ended, slurmVars
    <2>4. CallsSee' /\ checked' # None
      BY <1>5, <2>1, FetchEnds, SlurmDistinct, Numbers
    <2>5. gap' <= Window => fresh' <= checked' + Window
      BY <2>1, <2>2, Numbers
    <2> QED BY <2>3, <2>4, <2>5
  <1>6. ASSUME NEW c \in Calls, SacctFails(c) \/ SacctRaises(c)
        PROVE  EndsInv'
    <2>1. /\ UNCHANGED <<slurmVars, table, fresh, old>>
          /\ checked' = 0 /\ gap' = Greatest(gap, fresh)
      BY <1>6 DEF SacctFails, SacctRaises
    <2>2. gap' <= Window => gap <= Window /\ fresh <= Window
      <3>1. /\ gap \in Nat /\ fresh \in Nat /\ gap' \in Nat /\ Window \in Nat
            /\ gap <= gap' /\ fresh <= gap'
        BY <2>1, GreatestAge, Numbers DEF SlurmTypeOK
      <3> QED BY <3>1
    <2>3. gap' <= Window => \A j \in Jobs : Seen(j, fresh, table[j])'
      BY <2>1, <2>2 DEF Seen, Ended, slurmVars
    <2>4. CallsSee' /\ checked' # None
      BY <1>6, <2>1, FetchEnds, SlurmDistinct, Numbers
    <2>5. gap' <= Window => fresh' <= checked' + Window
      BY <2>1, <2>2, Numbers DEF SlurmTypeOK
    <2> QED BY <2>3, <2>4, <2>5
  <1>7. ASSUME NEW c \in Calls, LogsStep(c)
        PROVE  EndsInv'
    BY <1>7, LogsSee DEF LogsStep, Seen, Ended, slurmVars, cacheVars
  <1>8. ASSUME NEW j \in Jobs,
               \/ JobStep(j) \/ Requeue(j) \/ LogsAppear(j) \/ CreatePod(j)
               \/ SbatchQueues(j) \/ SbatchReturns(j) \/ DeletePod(j)
        PROVE  EndsInv'
    BY <1>8, JobsEnd
  <1>9. CASE Time
    BY <1>9, TimeSees
  <1>10. CASE Restart
    <2>1. \A j \in Jobs : ~(fresh' < ended'[j])
      BY <1>10, Numbers DEF Restart, SlurmTypeOK, Ages, slurmVars
    <2> QED BY <1>10, <2>1, SlurmDistinct DEF Restart, Seen, CallsSee
  <1>11. CASE UNCHANGED vars
    BY <1>11
    DEF vars, slurmVars, cacheVars, CallsSee, CallSees, Reaches, Seen, Written, Ended
  <1> QED
    BY <1>1, <1>2, <1>3, <1>4, <1>5, <1>6, <1>7, <1>8, <1>9, <1>10, <1>11
    DEF SlurmNext, Proceeds, Sacct

\* Ten minutes before the last check are enough: as long as no check ended later than
\* that after the table was last read, the table has every end that was there to read,
\* and that the first sacct of the process, which looks back a day, could still see.
THEOREM EndsAreSeenCorrect == SlurmSpec => []EndsAreSeen
  <1>1. SlurmTypeOK /\ OneSacct /\ EndsInv /\ [SlurmNext]_vars => EndsInv'
    BY EndsInvStep
  <1>2. EndsInv => EndsAreSeen
    BY DEF EndsInv, EndsAreSeen, Seen
  <1> QED
    BY <1>1, <1>2, EndsInvInit, SlurmTypeCorrect, OneSacctCorrect, PTL DEF SlurmSpec
==============================================================================
