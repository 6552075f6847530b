---------------------------- MODULE CondorProofs ----------------------------
(***************************************************************************)
(* Theorems about calls on HTCondor and the tokens they show.              *)
(***************************************************************************)
EXTENDS CondorProvider, TLAPS

------------------------------------------------------------------------------
(* Tokens *)

\* The age of the last refresh bounds that of the token, unless the refresh failed,
\* when it bounds how long the issuer has answered since.  Both bounds are lost as
\* the day wraps, which takes a long time without a call: idle is then Often.
TokenInv ==
    /\ TokenTypeOK
    /\ ~answering => up = 0
    /\ idle < Often =>
        /\ token <= refreshed \/ up <= refreshed
        /\ refreshed > Validity => refreshed <= idle + Validity

LEMMA TokenNumbers ==
    /\ Validity \in Nat /\ Lifetime \in Nat /\ Day \in Nat
    /\ Validity <= Lifetime /\ Validity + 1 < Day
    /\ Often \in Nat /\ Often > 1 /\ Often + Validity = Day
    /\ Expired \in Nat /\ Expired = Lifetime + 1
  BY TokenAssumption DEF Often, Expired

LEMMA TokenInvInit == TokenInit => TokenInv
  BY TokenNumbers DEF TokenInit, TokenInv, TokenTypeOK

LEMMA TokenGiven ==
    ASSUME TokenInv, Given \/ RefreshFails
    PROVE  TokenInv'
  <1>1. CASE Kept
    BY <1>1, TokenNumbers DEF TokenInv, TokenTypeOK, Kept, Stale
  <1>2. CASE Refreshed
    BY <1>2, TokenNumbers DEF TokenInv, TokenTypeOK, Refreshed, Stale
  <1>3. CASE RefreshFails
    BY <1>3, TokenNumbers DEF TokenInv, TokenTypeOK, RefreshFails, Stale
  <1> QED BY <1>1, <1>2, <1>3 DEF Given

LEMMA TokenIssuer ==
    ASSUME TokenInv, IssuerFails \/ IssuerAnswers
    PROVE  TokenInv'
  <1>1. UNCHANGED <<token, refreshed, idle>> /\ answering' \in BOOLEAN
    BY DEF IssuerFails, IssuerAnswers
  <1>2. up' = 0
    BY DEF IssuerFails, IssuerAnswers, TokenInv
  <1>3. 0 <= refreshed /\ TokenTypeOK'
    BY <1>1, <1>2, TokenNumbers DEF TokenInv, TokenTypeOK
  <1> QED BY <1>1, <1>2, <1>3 DEF TokenInv, Often

LEMMA TokenAges ==
    ASSUME TokenInv, TokenTime
    PROVE  TokenInv'
  <1>1. TokenTypeOK'
    BY TokenNumbers DEF TokenInv, TokenTypeOK, TokenTime
  <1>2. (~answering => up = 0)'
    BY DEF TokenInv, TokenTime
  <1>3. ASSUME idle' < Often
        PROVE  idle < Often /\ idle' = idle + 1 /\ refreshed' = refreshed + 1
    BY <1>3, TokenNumbers DEF TokenInv, TokenTypeOK, TokenTime
  <1>4. ASSUME idle' < Often
        PROVE  /\ (token <= refreshed \/ up <= refreshed)'
               /\ (refreshed > Validity => refreshed <= idle + Validity)'
    <2>1. /\ token <= refreshed \/ up <= refreshed
          /\ refreshed > Validity => refreshed <= idle + Validity
      BY <1>3, <1>4 DEF TokenInv
    <2>2. token' <= token + 1 /\ up' <= up + 1
      BY TokenNumbers DEF TokenInv, TokenTypeOK, TokenTime
    <2>3. (token <= refreshed \/ up <= refreshed)'
      BY <1>1, <1>3, <1>4, <2>1, <2>2, TokenNumbers DEF TokenInv, TokenTypeOK
    <2>4. (refreshed > Validity => refreshed <= idle + Validity)'
      BY <1>3, <1>4, <2>1, TokenNumbers DEF TokenInv, TokenTypeOK
    <2> QED BY <2>3, <2>4
  <1> QED BY <1>1, <1>2, <1>4 DEF TokenInv, Often

\* The token is handed out while the last refresh is recent.
LEMMA TokenInvFresh == TokenInv => HandedOutIsFresh
  BY TokenNumbers DEF TokenInv, TokenTypeOK, HandedOutIsFresh, Stale

------------------------------------------------------------------------------
(* Types *)

LEMMA AnswerType ==
    ASSUME CondorTypeOK, NEW c \in Calls, call[c] # NoCall, NEW phase \in Phases,
           Answer(c, phase)
    PROVE  /\ call' \in [Calls -> Call \cup {NoCall}]
           /\ answer' \in [Jobs -> Answers]
  BY DEF CondorTypeOK, Answer, Answers, Call

LEMMA RaiseType ==
    ASSUME CondorTypeOK, NEW c \in Calls, Raise(c)
    PROVE  /\ call' \in [Calls -> Call \cup {NoCall}]
           /\ answer' \in [Jobs -> Answers]
  BY DEF CondorTypeOK, Raise

LEMMA RetryType ==
    ASSUME CondorTypeOK, NEW c \in Calls, call[c] # NoCall, Retry(c)
    PROVE  /\ call' \in [Calls -> Call \cup {NoCall}]
           /\ answer' \in [Jobs -> Answers]
  <1>1. CASE call[c].tries = Attempts
    BY <1>1, RaiseType DEF Retry
  <1>2. CASE call[c].tries # Attempts
    <2>1. call[c] \in Call /\ call[c].tries + 1 \in 0..Attempts
      BY <1>2, CondorAssumption DEF CondorTypeOK, Call
    <2>2. [call[c] EXCEPT !.tries = @ + 1] \in Call
      BY <2>1 DEF Call
    <2> QED BY <1>2, <2>2 DEF Retry, CondorTypeOK
  <1> QED BY <1>1, <1>2

LEMMA GotoType ==
    ASSUME CondorTypeOK, NEW c \in Calls, call[c] # NoCall,
           NEW where \in {"again", "transfer"}, Goto(c, where)
    PROVE  call' \in [Calls -> Call \cup {NoCall}]
  <1>1. 0 \in 0..Attempts /\ call[c] \in Call
    BY CondorAssumption DEF CondorTypeOK
  <1>2. [job |-> call[c].job, at |-> where, tries |-> 0] \in Call
    BY <1>1 DEF Call
  <1> QED BY <1>2 DEF Goto, CondorTypeOK

LEMMA PhaseType ==
    ASSUME NEW status
    PROVE  Phase(status) \in Phases
  BY DEF Phase, Phases

\* The tokens of a step, whichever it is.
LEMMA TokenStep ==
    ASSUME TokenInv, [CondorNext]_vars
    PROVE  TokenInv'
  <1>1. \/ Given \/ RefreshFails \/ IssuerFails \/ IssuerAnswers \/ TokenTime
        \/ UNCHANGED tokenVars
    BY DEF CondorNext, CallStep, vars, Begin, BeginRaises, QueryRaises, QueryFails, Query,
           QueryAgain, Transfer, TransferFails, Submit, Remove, CommandFails, JobStep
  <1>2. CASE UNCHANGED tokenVars
    BY <1>2 DEF tokenVars, TokenInv, TokenTypeOK, Often, Expired
  <1> QED BY <1>1, <1>2, TokenGiven, TokenIssuer, TokenAges

LEMMA CondorTypeStep ==
    ASSUME CondorTypeOK, TokenTypeOK', [CondorNext]_vars
    PROVE  CondorTypeOK'
  <1> USE DEF CondorTypeOK
  <1>1. ASSUME NEW c \in Calls, NEW op \in DOMAIN Starts, NEW j \in Jobs, Begin(c, op, j)
        PROVE  CondorTypeOK'
    <2>1. Starts[op] \in {"query", "submit", "remove"} /\ 0 \in 0..Attempts
      BY CondorAssumption DEF Starts
    <2>2. [job |-> j, at |-> Starts[op], tries |-> 0] \in Call
      BY <2>1 DEF Call
    <2> QED BY <1>1, <2>2 DEF Begin
  <1>2. ASSUME NEW c \in Calls, QueryRaises(c)
        PROVE  CondorTypeOK'
    BY <1>2, RaiseType DEF QueryRaises, At
  <1>3. ASSUME NEW c \in Calls, QueryFails(c)
        PROVE  CondorTypeOK'
    BY <1>3, RetryType DEF QueryFails, At
  <1>4. ASSUME NEW c \in Calls, Query(c)
        PROVE  CondorTypeOK'
    <2>1. CASE Phase(queue[call[c].job]) = "succeeded"
      BY <1>4, <2>1, GotoType DEF Query, At
    <2>2. CASE Phase(queue[call[c].job]) # "succeeded"
      BY <1>4, <2>2, AnswerType, PhaseType DEF Query, At
    <2> QED BY <2>1, <2>2
  <1>5. ASSUME NEW c \in Calls, QueryAgain(c)
        PROVE  CondorTypeOK'
    <2>1. CASE Listed(call[c].job)
      BY <1>5, <2>1, GotoType DEF QueryAgain, At
    <2>2. CASE ~Listed(call[c].job)
      BY <1>5, <2>2, RaiseType DEF QueryAgain, At
    <2> QED BY <2>1, <2>2
  <1>6. ASSUME NEW c \in Calls, Transfer(c)
        PROVE  CondorTypeOK'
    <2>1. "succeeded" \in Phases
      BY DEF Phases
    <2> QED BY <1>6, <2>1, AnswerType DEF Transfer, At
  <1>7. ASSUME NEW c \in Calls, TransferFails(c)
        PROVE  CondorTypeOK'
    BY <1>7, RetryType DEF TransferFails, At
  <1>8. ASSUME NEW c \in Calls, Submit(c)
        PROVE  CondorTypeOK'
    BY <1>8 DEF Submit, JobStatuses, Unnamed, Answers, Unanswered
  <1>9. ASSUME NEW c \in Calls, Remove(c)
        PROVE  CondorTypeOK'
    BY <1>9, RaiseType DEF Remove
  <1>10. ASSUME NEW c \in Calls, CommandFails(c)
         PROVE  CondorTypeOK'
    BY <1>10, RaiseType DEF CommandFails
  <1>11. CASE BeginRaises
    BY <1>11 DEF BeginRaises, condorVars
  <1>12. ASSUME NEW j \in Jobs, JobStep(j)
         PROVE  CondorTypeOK'
    <2>1. \A status \in Successors(queue[j]) : status \in JobStatuses \cup {"none", "gone"}
      BY DEF Successors, JobStatuses, Unnamed
    <2> QED BY <1>12, <2>1 DEF JobStep
  <1>13. CASE (IssuerFails \/ IssuerAnswers \/ TokenTime) /\ UNCHANGED condorVars
    BY <1>13 DEF condorVars
  <1>14. CASE UNCHANGED vars
    BY <1>14 DEF vars, condorVars
  <1> QED
    BY <1>1, <1>2, <1>3, <1>4, <1>5, <1>6, <1>7, <1>8, <1>9, <1>10, <1>11, <1>12, <1>13,
       <1>14 DEF CondorNext, CallStep

LEMMA CondorTypeInit == CondorInit => CondorTypeOK
  BY TokenInvInit DEF CondorInit, CondorTypeOK, TokenInv, Answers, Unanswered

\* The variables keep their types; in particular no call is tried more than
\* CONDOR_ATTEMPTS times after the first (range(CONDOR_ATTEMPTS+1)).
THEOREM CondorTypeCorrect == CondorSpec => []CondorTypeOK
  <1>1. CondorInit => TokenInv /\ CondorTypeOK
    BY CondorTypeInit, TokenInvInit DEF CondorInit
  <1>2. TokenInv /\ CondorTypeOK /\ [CondorNext]_vars => (TokenInv /\ CondorTypeOK)'
    BY TokenStep, CondorTypeStep DEF TokenInv
  <1> QED BY <1>1, <1>2, PTL DEF CondorSpec

\* TokenManager.token: once the issuer has answered for longer than the validity of a
\* token, and unless nobody asked for nearly a day, what is handed out is no older.
THEOREM HandedOutIsFreshCorrect == CondorSpec => []HandedOutIsFresh
  <1>1. CondorInit => TokenInv
    BY TokenInvInit DEF CondorInit
  <1>2. TokenInv /\ [CondorNext]_vars => TokenInv'
    BY TokenStep
  <1> QED BY <1>1, <1>2, TokenInvFresh, PTL DEF CondorSpec

------------------------------------------------------------------------------
(* Answers *)

\* A call that fetches output has seen its job completed.
AnswerInv ==
    /\ \A j \in Jobs : queue[j] = "completed" => j \in completed
    /\ \A c \in Calls : At(c, "again") \/ At(c, "transfer") => call[c].job \in completed
    /\ UnknownIsTrue
    /\ SucceededIsTrue

LEMMA AnswerInvInit == CondorInit => AnswerInv
  BY DEF CondorInit, AnswerInv, At, UnknownIsTrue, SucceededIsTrue, Unanswered

\* What an answer has to be for it, and a call that goes on, to be sound.
LEMMA Answered ==
    ASSUME CondorTypeOK, AnswerInv, NEW c \in Calls, call[c] # NoCall, NEW phase \in Phases,
           Answer(c, phase), UNCHANGED <<queue, completed>>,
           phase = "unknown" => queue[call[c].job] \in {"none", "removed", "gone"} \cup Unnamed,
           phase = "succeeded" => call[c].job \in completed
    PROVE  AnswerInv'
  BY DEF CondorTypeOK, AnswerInv, At, UnknownIsTrue, SucceededIsTrue, Answer, Call

LEMMA WentOn ==
    ASSUME CondorTypeOK, AnswerInv, NEW c \in Calls, call[c] # NoCall,
           UNCHANGED <<queue, completed, answer>>,
           NEW x, call' = [call EXCEPT ![c] = x],
           x # NoCall /\ x.at \in {"again", "transfer"} => x.job \in completed
    PROVE  AnswerInv'
  BY DEF CondorTypeOK, AnswerInv, At, UnknownIsTrue, SucceededIsTrue

LEMMA Raised ==
    ASSUME CondorTypeOK, AnswerInv, NEW c \in Calls, call[c] # NoCall,
           Raise(c), UNCHANGED <<queue, completed>>
    PROVE  AnswerInv'
  BY WentOn DEF Raise

LEMMA Retried ==
    ASSUME CondorTypeOK, AnswerInv, NEW c \in Calls, call[c] # NoCall,
           Retry(c), UNCHANGED <<queue, completed>>
    PROVE  AnswerInv'
  <1>1. CASE call[c].tries = Attempts
    BY <1>1, Raised DEF Retry
  <1>2. CASE call[c].tries # Attempts
    <2> DEFINE x == [call[c] EXCEPT !.tries = @ + 1]
    <2>1. x.at = call[c].at /\ x.job = call[c].job
      BY DEF CondorTypeOK, Call
    <2>2. call' = [call EXCEPT ![c] = x] /\ answer' = answer
      BY <1>2 DEF Retry
    <2>3. x.at \in {"again", "transfer"} => x.job \in completed
      BY <2>1 DEF AnswerInv, At
    <2> HIDE DEF x
    <2> QED BY <2>2, <2>3, WentOn
  <1> QED BY <1>1, <1>2

LEMMA AnswerInvStep ==
    ASSUME CondorTypeOK, AnswerInv, [CondorNext]_vars
    PROVE  AnswerInv'
  <1>1. ASSUME NEW c \in Calls, NEW op \in DOMAIN Starts, NEW j \in Jobs, Begin(c, op, j)
        PROVE  AnswerInv'
    <2>1. Starts[op] \notin {"again", "transfer"}
      BY DEF Starts
    <2> QED
      BY <1>1, <2>1
      DEF Begin, CondorTypeOK, AnswerInv, At, UnknownIsTrue, SucceededIsTrue
  <1>2. ASSUME NEW c \in Calls, QueryRaises(c)
        PROVE  AnswerInv'
    BY <1>2, Raised DEF QueryRaises, At
  <1>3. ASSUME NEW c \in Calls, QueryFails(c)
        PROVE  AnswerInv'
    BY <1>3, Retried DEF QueryFails, At
  <1>4. ASSUME NEW c \in Calls, Query(c)
        PROVE  AnswerInv'
    <2> DEFINE j == call[c].job
    <2>1. j \in Jobs /\ call[c] # NoCall
      BY <1>4 DEF CondorTypeOK, Query, At, Call
    <2>2. queue[j] \in JobStatuses \cup {"none", "gone"}
      BY <2>1 DEF CondorTypeOK
    <2>3. CASE Phase(queue[j]) = "succeeded"
      <3>1. j \in completed
        BY <2>1, <2>2, <2>3 DEF Phase, AnswerInv, JobStatuses
      <3> DEFINE x == [job |-> call[c].job, at |-> "again", tries |-> 0]
      <3>2. call' = [call EXCEPT ![c] = x] /\ answer' = answer
        BY <1>4, <2>3 DEF Query, Goto
      <3>3. x.job \in completed
        BY <3>1
      <3> HIDE DEF x
      <3> QED BY <1>4, <2>1, <3>2, <3>3, WentOn DEF Query
    <2>4. CASE Phase(queue[j]) # "succeeded"
      <3>1. Phase(queue[j]) = "unknown" => queue[j] \in {"none", "removed", "gone"} \cup Unnamed
        BY <2>2 DEF Phase, JobStatuses
      <3> QED BY <1>4, <2>1, <2>4, <3>1, Answered, PhaseType DEF Query
    <2> QED BY <2>3, <2>4
  <1>5. ASSUME NEW c \in Calls, QueryAgain(c)
        PROVE  AnswerInv'
    <2>1. CASE Listed(call[c].job)
      <3> DEFINE x == [job |-> call[c].job, at |-> "transfer", tries |-> 0]
      <3>1. call' = [call EXCEPT ![c] = x] /\ answer' = answer
        BY <1>5, <2>1 DEF QueryAgain, Goto
      <3>2. x.job \in completed /\ call[c] # NoCall
        BY <1>5 DEF QueryAgain, AnswerInv, At
      <3> HIDE DEF x
      <3> QED BY <1>5, <3>1, <3>2, WentOn DEF QueryAgain
    <2>2. CASE ~Listed(call[c].job)
      BY <1>5, <2>2, Raised DEF QueryAgain, At
    <2> QED BY <2>1, <2>2
  <1>6. ASSUME NEW c \in Calls, Transfer(c)
        PROVE  AnswerInv'
    <2>1. call[c].job \in completed /\ call[c] # NoCall
      BY <1>6 DEF Transfer, AnswerInv, At
    <2>2. "succeeded" \in Phases
      BY DEF Phases
    <2> QED BY <1>6, <2>1, <2>2, Answered DEF Transfer
  <1>7. ASSUME NEW c \in Calls, TransferFails(c)
        PROVE  AnswerInv'
    BY <1>7, Retried DEF TransferFails, At
  <1>8. ASSUME NEW c \in Calls, Submit(c)
        PROVE  AnswerInv'
    BY <1>8 DEF Submit, CondorTypeOK, AnswerInv, At, UnknownIsTrue, SucceededIsTrue, Call, Unanswered
  <1>9. ASSUME NEW c \in Calls, Remove(c)
        PROVE  AnswerInv'
    BY <1>9 DEF Remove, Raise, CondorTypeOK, AnswerInv, At, UnknownIsTrue, SucceededIsTrue, Call
  <1>10. ASSUME NEW c \in Calls, CommandFails(c)
         PROVE  AnswerInv'
    BY <1>10, Raised DEF CommandFails, At
  <1>11. ASSUME NEW j \in Jobs, JobStep(j)
         PROVE  AnswerInv'
    <2>1. PICK status \in Successors(queue[j]) :
            /\ queue' = [queue EXCEPT ![j] = status]
            /\ completed' = IF status = "completed" THEN completed \cup {j} ELSE completed
      BY <1>11 DEF JobStep
    <2>2. queue[j] \in {"none", "removed", "gone"} => status \in {"none", "removed", "gone"}
      BY DEF Successors
    <2> QED
      BY <1>11, <2>1, <2>2
      DEF JobStep, CondorTypeOK, AnswerInv, At, UnknownIsTrue, SucceededIsTrue
  <1>12. CASE UNCHANGED condorVars
    BY <1>12 DEF condorVars, AnswerInv, At, UnknownIsTrue, SucceededIsTrue
  <1> QED
    BY <1>1, <1>2, <1>3, <1>4, <1>5, <1>6, <1>7, <1>8, <1>9, <1>10, <1>11, <1>12
    DEF CondorNext, CallStep, BeginRaises, vars

LEMMA AnswerInvCorrect == CondorSpec => []AnswerInv
  <1>1. CondorTypeOK /\ AnswerInv /\ [CondorNext]_vars => AnswerInv'
    BY AnswerInvStep
  <1> QED BY <1>1, AnswerInvInit, CondorTypeCorrect, PTL DEF CondorSpec

\* get_pod_status_and_logs answers "unknown" only of a job the queue does not have or has
\* removed, or had in one of the two statuses without a phase: no refused token and no
\* failed retry makes a responder report a job as missing.
THEOREM UnknownIsTrueCorrect == CondorSpec => []UnknownIsTrue
  BY AnswerInvCorrect, PTL DEF AnswerInv

\* It answers "succeeded" only of a job that completed, whatever happens to the job
\* between the two queries and the transfer of its output.
THEOREM SucceededIsTrueCorrect == CondorSpec => []SucceededIsTrue
  BY AnswerInvCorrect, PTL DEF AnswerInv
==============================================================================
