------------------------ MODULE SubmissionRecordProofs ------------------------
(***************************************************************************)
(* What is proved of SubmissionRecord: its type invariant, and that a      *)
(* recent submission is known.  The inductive invariant is that the queue  *)
(* a responder keeps is exactly the last MaxLength submissions made.       *)
(***************************************************************************)
EXTENDS SubmissionRecord, SequenceTheorems, TLAPS

\* A queue that respects its bound.
Bounded(q) == q \in Seq(Submission) /\ Len(q) <= MaxLength

IInv == Bounded(queue) /\ latest = queue

\* deque.append on a queue within its bound keeps the last MaxLength entries.
LEMMA AppendKeepsLast ==
    ASSUME NEW q, Bounded(q), NEW s \in Submission
    PROVE  /\ Bounded(AppendBounded(q, s))
           /\ Last(Append(q, s), MaxLength) = AppendBounded(q, s)
<1> DEFINE longer == Append(q, s)
<1>1. q \in Seq(Submission) /\ Len(q) <= MaxLength /\ MaxLength \in Nat \ {0}
  BY RecordAssumption DEF Bounded
<1>2. longer \in Seq(Submission) /\ Len(longer) = Len(q) + 1 /\ Len(q) \in Nat
  BY <1>1, AppendProperties, LenProperties
<1>3. CASE Len(longer) <= MaxLength
  <2>1. ~(Len(longer) > MaxLength)
    BY <1>1, <1>2, <1>3
  <2> QED BY <1>2, <1>3, <2>1 DEF AppendBounded, Last, Bounded
<1>4. CASE Len(longer) > MaxLength
  <2>1. Len(longer) = MaxLength + 1
    BY <1>1, <1>2, <1>4
  <2>2. longer # <<>>
    BY <1>1, <1>2, <2>1, EmptySeq
  <2>3. /\ Tail(longer) \in Seq(Submission)
        /\ Len(Tail(longer)) = Len(longer) - 1
        /\ Tail(longer) = SubSeq(longer, 2, Len(longer))
    BY <1>2, <2>2, HeadTailProperties, TailIsSubSeq
  <2>4. Len(longer) - MaxLength + 1 = 2
    BY <1>1, <2>1
  <2>5. Last(longer, MaxLength) = Tail(longer)
    BY <1>4, <2>3, <2>4 DEF Last
  <2>6. AppendBounded(q, s) = Tail(longer)
    BY <1>4 DEF AppendBounded
  <2> QED BY <1>1, <2>1, <2>3, <2>5, <2>6 DEF Bounded
<1> QED BY <1>1, <1>2, <1>3, <1>4

\* A second passes for every entry, and drops none.
LEMMA OlderStaysBounded ==
    ASSUME NEW q, Bounded(q)
    PROVE  Bounded(Older(q))
<1> DEFINE age(i) == IF q[i].age < MaxAge THEN q[i].age + 1 ELSE q[i].age
           next(i) == [q[i] EXCEPT !.age = IF @ < MaxAge THEN @ + 1 ELSE @]
<1>1. q \in Seq(Submission) /\ Len(q) <= MaxLength /\ DOMAIN q = 1 .. Len(q) /\ Len(q) \in Nat
  BY LenProperties DEF Bounded
<1>2. ASSUME NEW i \in 1 .. Len(q) PROVE next(i) \in Submission
  <2>1. q[i] \in Submission
    BY <1>1, ElementOfSeq
  <2>2. MaxAge \in Nat
    BY RecordAssumption
  <2> QED BY <2>1, <2>2 DEF Submission
<1>3. Older(q) = [i \in 1 .. Len(q) |-> next(i)]
  BY <1>1 DEF Older
<1> HIDE DEF next
<1>4. /\ Older(q) \in Seq(Submission)
      /\ Len(Older(q)) = Len(q)
  BY <1>1, <1>2, <1>3, IsASeq, LenProperties
<1> QED BY <1>1, <1>4 DEF Bounded

LEMMA IInvInit == Init => IInv
<1>1. <<>> \in Seq(Submission) /\ Len(<<>>) = 0 /\ MaxLength \in Nat
  BY EmptySeq, RecordAssumption
<1> QED BY <1>1 DEF Init, IInv, Bounded

LEMMA IInvStep == IInv /\ [Next]_vars => IInv'
<1> SUFFICES ASSUME IInv, [Next]_vars PROVE IInv'
  OBVIOUS
<1>1. ASSUME NEW j \in Jobs, mark_job_as_submitted(j) PROVE IInv'
  <2> DEFINE s == [job |-> j, age |-> 0]
  <2>1. s \in Submission
    BY RecordAssumption DEF Submission
  <2>2. queue' = AppendBounded(queue, s) /\ latest' = Last(Append(queue, s), MaxLength)
    BY <1>1 DEF mark_job_as_submitted, IInv
  <2> HIDE DEF s
  <2>3. Bounded(AppendBounded(queue, s)) /\ latest' = queue'
    BY <2>1, <2>2, AppendKeepsLast DEF IInv
  <2> QED BY <2>2, <2>3 DEF IInv, Bounded
<1>2. CASE Second
  <2>1. queue' = Older(queue) /\ latest' = Older(queue)
    BY <1>2 DEF Second, IInv
  <2>2. Bounded(Older(queue))
    BY OlderStaysBounded DEF IInv
  <2> QED BY <2>1, <2>2 DEF IInv, Bounded
<1>3. CASE UNCHANGED vars
  BY <1>3 DEF IInv, Bounded, vars
<1> QED BY <1>1, <1>2, <1>3 DEF Next

LEMMA IInvCorrect == Spec => []IInv
BY IInvInit, IInvStep, PTL DEF Spec

\* The queue of mark_job_as_submitted holds submissions with their ages, and
\* never more than max_length of them.
THEOREM RecordTypeCorrect == Spec => []TypeOK
<1>1. IInv => TypeOK
  BY DEF IInv, Bounded, TypeOK
<1> QED BY <1>1, IInvCorrect, PTL

\* is_being_submitted says of every job submitted less than timeout_seconds
\* ago, and among the last max_length, that it is on its way.
THEOREM RecentIsKnownCorrect == Spec => []RecentIsKnown
<1>1. ASSUME IInv PROVE RecentIsKnown
  <2>1. SUFFICES ASSUME NEW i \in DOMAIN queue, queue[i].age < Patience
                 PROVE  is_being_submitted(queue[i].job)
    BY <1>1 DEF IInv, RecentIsKnown
  <2>2. queue[i] \in Submission
    BY <1>1, <2>1, ElementOfSeq, LenProperties DEF IInv, Bounded
  <2>3. queue[i].age \in Nat
    BY <2>2, RecordAssumption DEF Submission
  <2>4. -queue[i].age < Patience
    BY <2>1, <2>3, RecordAssumption
  <2> QED BY <2>1, <2>4 DEF is_being_submitted, seconds_since_submission
<1> QED BY <1>1, IInvCorrect, PTL
==============================================================================
