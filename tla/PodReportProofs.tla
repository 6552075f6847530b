---------------------------- MODULE PodReportProofs ----------------------------
(***************************************************************************)
(* More theorems about the composed system: an end is counted once, a pod  *)
(* is reported missing only after a resync named it, and the jobs of a     *)
(* pool stay within the reach of its responders.                           *)
(***************************************************************************)
EXTENDS PodLifecycleProofs

------------------------------------------------------------------------------
(* An end is counted once *)

PolledNow(p) == \E c \in Calls : calls[c].op = "status" /\ calls[c].pod = p

\* A counted end is cached, so that no poll is made that could count another;
\* or the pod was deleted, and no poll of it is left nor will be made.
EndInv ==
    \A p \in Pods :
        /\ ends[p] <= 1
        /\ ends[p] # 0 => podCache[p] # None \/ (vk[p] = "deleted" /\ ~PolledNow(p))

LEMMA EndInvInit == Init => EndInv
  <1> SUFFICES ASSUME Init, NEW p \in Pods
               PROVE  ends[p] <= 1 /\ ends[p] = 0
    BY DEF EndInv
  <1>1. ends[p] = 0
    BY DEF Init, GatewayInit
  <1> QED BY <1>1

\* Steps that count nothing, uncache nothing and start no poll.
LEMMA EndInvKept ==
    ASSUME EndInv, ends' = ends, podCache' = podCache,
           \A p \in Pods : vk[p] = "deleted" => vk'[p] = "deleted",
           \A p \in Pods : vk[p] = "deleted" /\ PolledNow(p)' => PolledNow(p)
    PROVE  EndInv'
  BY DEF EndInv

\* A call that ends, or goes on for the same pod, adds no poll.
LEMMA PolledBefore ==
    ASSUME TypeInv, NEW c \in Calls, NEW p \in Pods, PolledNow(p)',
           \A d \in Calls \ {c} : calls'[d] = calls[d],
           calls'[c].op = "status" =>
                calls[c].op = "status" /\ calls'[c].pod = calls[c].pod
    PROVE  PolledNow(p)
  BY DEF PolledNow

LEMMA EndInvStep ==
    ASSUME ~PollsOverlap, TypeInv, KubeletInv, PollInv, EndInv, [Next]_vars
    PROVE  EndInv'
  <1> USE DEF TypeInv, TypeOK, GatewayTypeOK, KubeletTypeOK
  <1>1. ASSUME UNCHANGED <<ends, podCache, vk, calls>>
        PROVE  EndInv'
    BY <1>1, EndInvKept DEF PolledNow
  <1>2. CASE ProviderActs \/ JobsProgress \/ UNCHANGED vars
    BY <1>1, <1>2 DEF ProviderActs, JobsProgress, vars, gatewayVars, kubeletVars
  <1>3. ASSUME NEW c \in Calls, NEW q \in Pods,
               CreateCall(c, q) \/ CreateFailsEarly(c, q) \/ DeleteCall(c, q)
        PROVE  EndInv'
    <2>1. /\ ends' = ends /\ podCache' = podCache
          /\ \A d \in Calls \ {c} : calls'[d] = calls[d]
          /\ calls'[c].op # "status"
      BY <1>3
      DEF CreateCall, CreateFailsEarly, DeleteCall, CreateRequest, CreateAborted,
          DeleteRequest, metricVars, Idle
    <2>2. \A p \in Pods : vk[p] = "deleted" => vk'[p] = "deleted"
      BY <1>3 DEF CreateCall, CreateFailsEarly, DeleteCall, MayCreate, MayDelete
    <2>3. \A p \in Pods : PolledNow(p)' => PolledNow(p)
      BY <2>1, PolledBefore
    <2> QED BY <2>1, <2>2, <2>3, EndInvKept
  <1>4. ASSUME NEW c \in Calls, NEW q \in Pods, StatusCallCached(c, q)
        PROVE  EndInv'
    BY <1>1, <1>4
    DEF StatusCallCached, StatusCached, redisVars, metricVars, kubeletVars
  <1>5. ASSUME NEW c \in Calls, NEW q \in Pods, StatusCall(c, q)
        PROVE  EndInv'
    <2>1. /\ ends' = ends /\ podCache' = podCache /\ vk' = vk /\ vk[q] # "deleted"
          /\ \A d \in Calls \ {c} : calls'[d] = calls[d]
          /\ calls'[c].pod = q
      BY <1>5
      DEF StatusCall, StatusRequest, PollsPod, redisVars, metricVars, kubeletVars
    <2>2. \A p \in Pods : vk[p] = "deleted" /\ PolledNow(p)' => PolledNow(p)
      BY <2>1 DEF PolledNow
    <2> QED BY <2>1, <2>2, EndInvKept
  <1>6. ASSUME NEW c \in Calls, StatusCallAgain(c)
        PROVE  EndInv'
    <2>1. /\ ends' = ends /\ podCache' = podCache /\ vk' = vk
          /\ \A d \in Calls \ {c} : calls'[d] = calls[d]
          /\ calls[c].op = "status" /\ calls'[c].pod = calls[c].pod
      BY <1>6, CallFields
      DEF StatusCallAgain, StatusRetry, redisVars, metricVars, kubeletVars
    <2>2. \A p \in Pods : PolledNow(p)' => PolledNow(p)
      BY <2>1, PolledBefore
    <2> QED BY <2>1, <2>2, EndInvKept
  <1>7. ASSUME NEW c \in Calls, Send(c)
        PROVE  EndInv'
    BY <1>1, <1>7 DEF Send, gatewayVars, kubeletVars
  <1>8. ASSUME NEW c \in Calls, CallTimesOut(c)
        PROVE  EndInv'
    <2>1. /\ ends' = ends /\ podCache' = podCache /\ vk' = vk
          /\ \A d \in Calls \ {c} : calls'[d] = calls[d]
          /\ calls'[c].op # "status"
      BY <1>8 DEF CallTimesOut, Timeout, End, redisVars, metricVars, Idle
    <2>2. \A p \in Pods : PolledNow(p)' => PolledNow(p)
      BY <2>1, PolledBefore
    <2> QED BY <2>1, <2>2, EndInvKept
  <1>9. ASSUME NEW a \in outbox, CreateAnswer(a.call, a.reply)
        PROVE  EndInv'
    <2>1. /\ a.call \in Calls
          /\ \A d \in Calls \ {a.call} : calls'[d] = calls[d]
      BY <1>9, AnswerHandled
    <2>2. /\ ends' = ends /\ podCache' = podCache
          /\ vk[calls[a.call].pod] = "creating"
          /\ calls'[a.call].op # "status"
      BY <1>9, <2>1 DEF CreateAnswer, CreateReply, End, KubeletInv, metricVars, Idle
    <2>3. vk' = vk \/ vk' = [vk EXCEPT ![calls[a.call].pod] = "created"]
      BY <1>9 DEF CreateAnswer, Acknowledged
    <2>4. \A p \in Pods : vk[p] = "deleted" => vk'[p] = "deleted"
      BY <2>2, <2>3
    <2>5. \A p \in Pods : PolledNow(p)' => PolledNow(p)
      BY <2>1, <2>2, PolledBefore
    <2> QED BY <2>2, <2>4, <2>5, EndInvKept
  <1>10. ASSUME NEW a \in outbox, DeleteAnswer(a.call, a.reply)
         PROVE  EndInv'
    <2> DEFINE q == calls[a.call].pod
    <2>1. /\ a.call \in Calls
          /\ \A d \in Calls \ {a.call} : calls'[d] = calls[d]
      BY <1>10, AnswerHandled
    <2>2. /\ ends' = ends
          /\ vk[q] = "deleting" /\ q \in Pods
          /\ calls'[a.call].op # "status"
      BY <1>10, <2>1, CallFields
      DEF DeleteAnswer, DeleteReply, End, KubeletInv, metricVars, Idle
    <2>3. \A p \in Pods : PolledNow(p)' => PolledNow(p)
      BY <2>1, <2>2, PolledBefore
    <2>4. CASE podCache' = podCache
      <3>1. \A p \in Pods : vk[p] = "deleted" => vk'[p] = "deleted"
        BY <1>10, <2>2 DEF DeleteAnswer, Acknowledged
      <3> QED BY <2>2, <2>3, <2>4, <3>1, EndInvKept
    <2>5. CASE podCache' # podCache
      <3>1. /\ podCache' = [podCache EXCEPT ![q] = None]
            /\ vk' = [vk EXCEPT ![q] = "deleted"]
        BY <1>10, <2>5 DEF DeleteAnswer, DeleteReply, Acknowledged, HSet, redisVars
      <3>2. ends[q] # 0 => ~PolledNow(q)
        BY <2>2 DEF EndInv, PollInv, PolledNow
      <3> QED BY <2>2, <2>3, <3>1, <3>2 DEF EndInv
    <2> QED BY <2>4, <2>5
  <1>11. ASSUME NEW a \in outbox, StatusAnswer(a.call, a.reply)
         PROVE  EndInv'
    <2> DEFINE c == a.call
               q == calls[c].pod
    <2>1. /\ c \in Calls
          /\ \A d \in Calls \ {c} : calls'[d] = calls[d]
          /\ vk' = vk
      BY <1>11, AnswerHandled DEF StatusAnswer
    <2>2. CASE StatusUnknown(c, a.reply)
      <3>1. /\ ends' = ends /\ podCache' = podCache
            /\ calls[c].op = "status" /\ calls'[c].pod = q
        BY <2>1, <2>2, CallFields DEF StatusUnknown, Awaits, redisVars, metricVars
      <3>2. \A p \in Pods : PolledNow(p)' => PolledNow(p)
        BY <2>1, <3>1, PolledBefore
      <3> QED BY <2>1, <3>1, <3>2, EndInvKept
    <2>3. CASE StatusFailed(c, a.reply) \/ StatusUnreadable(c, a.reply)
      <3>1. ends' = ends /\ podCache' = podCache /\ calls'[c].op # "status"
        BY <2>1, <2>3 DEF StatusFailed, StatusUnreadable, End, redisVars, metricVars, Idle
      <3>2. \A p \in Pods : PolledNow(p)' => PolledNow(p)
        BY <2>1, <3>1, PolledBefore
      <3> QED BY <2>1, <3>1, <3>2, EndInvKept
    <2>4. CASE StatusReply(c, a.reply)
      <3> DEFINE report == Report(a.reply.status)
      <3>1. calls[c].op = "status" /\ q \in Pods /\ a.reply \in Reply
        BY <2>1, <2>4, AnswerFields, CallFields DEF StatusReply, Awaits, ProviderTypeOK
      <3>2. a.reply.status \in JobStatus
        BY <2>4, <3>1 DEF StatusReply, Reply, Acks, Failures
      <3>3. report \in Reports /\ (report \in Results <=> Terminal(a.reply.status))
        BY <3>2, ReportType, ReportOfTerminal
      <3>4. podCache[q] = None /\ PolledNow(q)
        BY <2>1, <3>1 DEF PollInv, PolledNow
      <3>5. ends[q] = 0
        BY <3>1, <3>4 DEF EndInv
      <3>6. calls'[c].op # "status"
        BY <2>1, <2>4 DEF StatusReply, End, Idle
      <3>7. \A p \in Pods : PolledNow(p)' => PolledNow(p)
        BY <2>1, <3>6, PolledBefore
      <3>8. CASE ends' = ends
        <4>1. \A p \in Pods \ {q} : podCache'[p] = podCache[p]
          BY <2>4 DEF StatusReply, HSet
        <4> QED BY <2>1, <3>1, <3>5, <3>7, <3>8, <4>1 DEF EndInv
      <3>9. CASE ends' # ends
        <4>1. report \in Results /\ UseRedis /\ ends' = Count(ends, q)
          BY <2>4, <3>9 DEF StatusReply
        <4>2. /\ \A p \in Pods \ {q} : podCache'[p] = podCache[p]
              /\ podCache'[q] = report
          BY <2>4, <3>1, <3>3, <4>1 DEF StatusReply, HSet
        <4>3. report # None
          BY <4>1, GatewayAssumption DEF Results
        <4>4. ends'[q] <= 1 /\ \A p \in Pods \ {q} : ends'[p] = ends[p]
          BY <3>1, <3>5, <4>1 DEF Count
        <4> QED BY <2>1, <3>7, <4>2, <4>3, <4>4 DEF EndInv
      <3> QED BY <3>8, <3>9
    <2> QED BY <1>11, <2>2, <2>3, <2>4 DEF StatusAnswer
  <1>12. CASE GatewayRestarts
    BY <1>12 DEF GatewayRestarts, GatewayRestart, EndInv
  <1>13. CASE GatewayActs
    BY <1>3, <1>4, <1>5, <1>6, <1>7, <1>8, <1>9, <1>10, <1>11, <1>12, <1>13
    DEF GatewayActs
  <1> QED BY <1>2, <1>13 DEF Next

\* As long as no two polls of a pod overlap, its end is counted at most once in
\* the life of the gateway: pod_transitions agrees with what the kubelet is
\* told, whatever is asked again, answered late or deleted meanwhile.
THEOREM EndCountedOnceCorrect ==
    ASSUME ~PollsOverlap
    PROVE  Spec => []EndCountedOnce
  <1> DEFINE Inv == TypeInv /\ KubeletInv /\ PollInv /\ EndInv
  <1>1. Init => Inv
    BY TypeInvInit, KubeletInvInit, PollInvInit, EndInvInit DEF Init
  <1>2. Inv /\ [Next]_vars => Inv'
    BY TypeInvStep, KubeletInvStep, GatewayStays, PollInvStep, EndInvStep
    DEF TypeInv, TypeOK
  <1>3. Inv => EndCountedOnce
    BY DEF EndInv, EndCountedOnce
  <1> QED BY <1>1, <1>2, <1>3, PTL DEF Spec

------------------------------------------------------------------------------
(* What the steps do to responders and requests *)

Held(r) == subs[r] \cup leaked[r]

\* Nothing but the provider's own steps changes a responder, or what was listed.
LEMMA RespondersStay ==
    ASSUME GatewayActs \/ JobsProgress \/ UNCHANGED vars
    PROVE  UNCHANGED responderVars /\ UNCHANGED historyVars
  <1>1. CASE JobsProgress \/ UNCHANGED vars
    BY <1>1 DEF JobsProgress, vars, providerVars
  <1>2. CASE GatewayActs
    BY <1>2
    DEF GatewayActs, CreateCall, CreateFailsEarly, DeleteCall, StatusCallCached,
        StatusCall, CreateAnswer, DeleteAnswer, StatusAnswer, Receive, StatusCallAgain,
        Send, CallTimesOut, GatewayRestarts, Connects, providerVars
  <1> QED BY <1>1, <1>2

\* The request n is m, but for the call that waits for it and how far it got.
Continues(n, m) == n.op = m.op /\ n.pod = m.pod /\ n.to = m.to

\* The gateway sends requests to those who are subscribed, and changes no other.
LEMMA SentRequests ==
    ASSUME TypeInv, GatewayActs \/ JobsProgress \/ UNCHANGED vars, NEW n \in reqs'
    PROVE  \/ \E m \in reqs : Continues(n, m) /\ n.at = m.at
           \/ /\ \E c \in unsent : n.op = calls[c].op /\ n.pod = calls[c].pod
              /\ n.at = "queued"
              /\ n.to \in Subscribers(n.op, n.pod)
  <1> DEFINE Goal ==
           \/ \E m \in reqs : Continues(n, m) /\ n.at = m.at
           \/ /\ \E c \in unsent : n.op = calls[c].op /\ n.pod = calls[c].pod
              /\ n.at = "queued"
              /\ n.to \in Subscribers(n.op, n.pod)
  <1>1. CASE reqs' = reqs
    BY <1>1 DEF Continues
  <1>2. ASSUME NEW S, Forget(S)
        PROVE  Goal
    <2>1. PICK m \in reqs : n = IF m.call \in S THEN [m EXCEPT !.call = NoCall] ELSE m
      BY <1>2 DEF Forget
    <2>2. Continues(n, m) /\ n.at = m.at
      BY <2>1, RequestFields DEF TypeInv, TypeOK, ProviderTypeOK, Continues
    <2> QED BY <2>2
  <1>3. ASSUME NEW c \in Calls, Send(c)
        PROVE  Goal
    <2> DEFINE op == calls[c].op
               p == calls[c].pod
    <2>1. c \in unsent /\ Publish(c, op, p)
      BY <1>3 DEF Send
    <2>2. CASE \E R \in Receivers(op, p) :
                reqs' = reqs \cup {[op |-> op, pod |-> p, call |-> c, to |-> r,
                                    at |-> "queued"] : r \in R}
      <3>1. PICK R \in Receivers(op, p) :
                reqs' = reqs \cup {[op |-> op, pod |-> p, call |-> c, to |-> r,
                                    at |-> "queued"] : r \in R}
        BY <2>2
      <3>2. R \subseteq Subscribers(op, p)
        BY <3>1 DEF Receivers
      <3> QED BY <2>1, <3>1, <3>2 DEF Continues
    <2> QED BY <1>1, <2>1, <2>2 DEF Publish
  <1>4. CASE JobsProgress \/ UNCHANGED vars
    BY <1>1, <1>4 DEF JobsProgress, vars, providerVars
  <1>5. CASE GatewayActs
    BY <1>1, <1>2, <1>3, <1>5
    DEF GatewayActs, CreateCall, CreateFailsEarly, DeleteCall, StatusCallCached,
        StatusCall, CreateAnswer, DeleteAnswer, StatusAnswer, Receive, StatusCallAgain,
        CallTimesOut, GatewayRestarts, Connects, providerVars
  <1> QED BY <1>4, <1>5

\* What a callback does to its responder, and that it starts no request.
ServesRequest(m) ==
    /\ \/ UNCHANGED responderVars
       \/ /\ m.op = "create"
          /\ Register(m.to, {m.pod})
          /\ record' = [record EXCEPT ![m.to] = @ \cup {m.pod}]
          /\ UNCHANGED <<phase, listing>>
       \/ /\ Works(m, "delete")
          /\ subs' = [subs EXCEPT ![m.to] = @ \ {m.pod}]
          /\ UNCHANGED <<phase, listing, leaked, record>>
    /\ reqs' \subseteq (reqs \ {m}) \cup {[m EXCEPT !.at = "working"]}

LEMMA ServesOne ==
    ASSUME NEW m \in reqs, Serve(m)
    PROVE  ServesRequest(m)
  BY DEF Serve, CreateCallback, CreateSubmitted, CreateRefused, CreateUnanswered,
         DeleteCallback, DeleteUnsubscribe, DeleteRefused, DeleteUnanswered,
         StatusCallback, StatusRefused, StatusUnanswered, ServesRequest, Working,
         Starts, Works, responderVars

LEMMA WorkingFields ==
    ASSUME NEW m \in Request
    PROVE  /\ Continues([m EXCEPT !.at = "working"], m)
           /\ [m EXCEPT !.at = "working"].at = "working"
           /\ [m EXCEPT !.at = "working"].op = m.op
           /\ [m EXCEPT !.at = "working"].pod = m.pod
           /\ [m EXCEPT !.at = "working"].to = m.to
  BY RequestFields DEF Continues

\* Every request there is after a step of the provider was there before.
LEMMA ServedRequests ==
    ASSUME TypeInv, ProviderActs, NEW n \in reqs'
    PROVE  \E m \in reqs : Continues(n, m)
  <1>1. CASE n \in reqs
    BY <1>1 DEF Continues
  <1>2. ASSUME NEW m \in reqs, Serve(m)
        PROVE  \E o \in reqs : Continues(n, o)
    <2>1. n \in reqs \/ n = [m EXCEPT !.at = "working"]
      BY <1>2, ServesOne DEF ServesRequest
    <2>2. m \in Request
      BY DEF TypeInv, TypeOK, ProviderTypeOK
    <2> QED BY <1>1, <2>1, <2>2, WorkingFields
  <1>3. ASSUME NEW r \in Responders,
               \/ StartResponder(r) \/ ResyncDone(r) \/ ResyncGivesUp(r)
               \/ Resync(r) \/ Stop(r)
        PROVE  n \in reqs
    BY <1>3
    DEF StartResponder, ResyncDone, ResyncGivesUp, Resync, ResyncAnswered, Stop,
        StopResponder
  <1> QED BY <1>1, <1>2, <1>3 DEF ProviderActs

------------------------------------------------------------------------------
(* Only listed pods are missing *)

\* The pods a responder does not report as missing, or was told of by a resync.
KnownBy(r) == record[r] \cup listed

\* A responder only answers for pods it created or was listed, and says that one
\* is unknown only in the second case.
MissingInv ==
    /\ \A r \in Responders :
        /\ listing[r] \subseteq listed
        /\ Held(r) \subseteq KnownBy(r)
    /\ \A m \in reqs : m.op = "status" => m.pod \in KnownBy(m.to)
    /\ \A a \in outbox :
        a.reply.kind = "status" /\ a.reply.status.phase = "unknown" =>
            calls[a.call].pod \in listed
    /\ \A p \in Pods : told[p] = "missing" => p \in listed

LEMMA MissingInvInit == Init => MissingInv
  BY GatewayAssumption DEF Init, GatewayInit, ProviderInit, MissingInv, Held

\* What responders know grows, until they stop.
LEMMA KnownStep ==
    ASSUME TypeInv, MissingInv, [Next]_vars
    PROVE  /\ listed \subseteq listed'
           /\ \A r \in Responders : listing'[r] \subseteq listed'
           /\ \A r \in Responders : Held(r)' \subseteq KnownBy(r)'
           /\ \A n \in reqs' : n.op = "status" => n.pod \in KnownBy(n.to)'
  <1> DEFINE Goal ==
        /\ listed \subseteq listed'
        /\ \A r \in Responders : listing'[r] \subseteq listed'
        /\ \A r \in Responders : Held(r)' \subseteq KnownBy(r)'
        /\ \A n \in reqs' : n.op = "status" => n.pod \in KnownBy(n.to)'
  <1> USE DEF TypeInv, TypeOK, ProviderTypeOK
  <1>1. CASE GatewayActs \/ JobsProgress \/ UNCHANGED vars
    <2>1. UNCHANGED responderVars /\ UNCHANGED historyVars
      BY <1>1, RespondersStay
    <2>2. /\ \A r \in Responders : KnownBy(r)' = KnownBy(r) /\ Held(r)' = Held(r)
          /\ listed' = listed /\ listing' = listing
      BY <2>1 DEF responderVars, historyVars, KnownBy, Held
    <2>3. ASSUME NEW n \in reqs', n.op = "status"
          PROVE  n.to \in Responders /\ n.pod \in KnownBy(n.to)
      <3>1. CASE \E m \in reqs : Continues(n, m)
        BY <2>3, <3>1, RequestFields DEF MissingInv, Continues
      <3>2. CASE n.to \in Subscribers(n.op, n.pod)
        BY <2>3, <3>2 DEF Subscribers, MissingInv, Held
      <3> QED BY <1>1, <3>1, <3>2, SentRequests
    <2> QED BY <2>2, <2>3 DEF MissingInv
  <1>2. ASSUME ProviderActs, listed \subseteq listed',
               \A r \in Responders : record[r] \subseteq record'[r],
               \A r \in Responders : listing'[r] \subseteq listing[r],
               \A r \in Responders : Held(r)' \subseteq Held(r)
        PROVE  Goal
    <2>1. \A r \in Responders : KnownBy(r) \subseteq KnownBy(r)'
      BY <1>2 DEF KnownBy
    <2>2. ASSUME NEW n \in reqs', n.op = "status"
          PROVE  n.pod \in KnownBy(n.to)'
      <3>1. PICK m \in reqs : Continues(n, m)
        BY <1>2, ServedRequests
      <3>2. m.to \in Responders /\ m.pod \in KnownBy(m.to)
        BY <2>2, <3>1, RequestFields DEF MissingInv, Continues
      <3> QED BY <2>1, <3>1, <3>2 DEF Continues
    <2> QED BY <1>2, <2>1, <2>2 DEF MissingInv
  <1>3. ASSUME NEW m \in reqs, Serve(m), ProviderActs, listed' = listed
        PROVE  Goal
    <2>1. m.to \in Responders /\ m.pod \in Pods /\ ServesRequest(m)
      BY <1>3, RequestFields, ServesOne
    <2>2. CASE UNCHANGED responderVars
      BY <1>2, <1>3, <2>2 DEF responderVars, Held
    <2>3. CASE m.op = "create" /\ Register(m.to, {m.pod})
               /\ record' = [record EXCEPT ![m.to] = @ \cup {m.pod}]
               /\ UNCHANGED <<phase, listing>>
      <3>1. \A r \in Responders \ {m.to} : Held(r)' = Held(r) /\ record'[r] = record[r]
        BY <2>1, <2>3 DEF Register, Held
      <3>2. /\ Held(m.to)' = Held(m.to) \cup {m.pod}
            /\ record'[m.to] = record[m.to] \cup {m.pod}
        BY <2>1, <2>3 DEF Register, Held
      <3>3. \A r \in Responders : KnownBy(r) \subseteq KnownBy(r)'
        BY <1>3, <3>1, <3>2 DEF KnownBy
      <3>4. \A r \in Responders : Held(r)' \subseteq KnownBy(r)'
        BY <1>3, <3>1, <3>2, <3>3 DEF KnownBy, MissingInv
      <3>5. ASSUME NEW n \in reqs', n.op = "status"
            PROVE  n.pod \in KnownBy(n.to)'
        <4>1. PICK o \in reqs : Continues(n, o)
          BY <1>3, ServedRequests
        <4>2. o.to \in Responders /\ o.pod \in KnownBy(o.to)
          BY <3>5, <4>1, RequestFields DEF MissingInv, Continues
        <4> QED BY <3>3, <4>1, <4>2 DEF Continues
      <3> QED BY <1>3, <2>3, <3>4, <3>5 DEF MissingInv
    <2>4. CASE Works(m, "delete") /\ subs' = [subs EXCEPT ![m.to] = @ \ {m.pod}]
               /\ UNCHANGED <<phase, listing, leaked, record>>
      BY <1>2, <1>3, <2>1, <2>4 DEF Held
    <2> QED BY <2>1, <2>2, <2>3, <2>4 DEF ServesRequest
  <1>4. ASSUME NEW r \in Responders, StartResponder(r) \/ ResyncGivesUp(r),
               ProviderActs, listed' = listed
        PROVE  Goal
    BY <1>2, <1>4 DEF StartResponder, ResyncGivesUp, Held
  <1>5. ASSUME NEW r \in Responders, ResyncDone(r), ProviderActs, listed' = listed
        PROVE  Goal
    <2>1. Held(r)' = Held(r) \cup listing[r] /\ \A s \in Responders \ {r} : Held(s)' = Held(s)
      BY <1>5 DEF ResyncDone, Register, Held
    <2>2. \A s \in Responders : KnownBy(s)' = KnownBy(s) /\ listing'[s] \subseteq listing[s]
      BY <1>5 DEF ResyncDone, KnownBy
    <2>3. reqs' = reqs
      BY <1>5 DEF ResyncDone
    <2>4. \A s \in Responders : Held(s)' \subseteq KnownBy(s)'
      BY <2>1, <2>2 DEF MissingInv, KnownBy
    <2>5. \A n \in reqs' : n.op = "status" => n.pod \in KnownBy(n.to)'
      BY <2>2, <2>3, RequestFields DEF MissingInv
    <2> QED BY <1>5, <2>2, <2>4, <2>5 DEF MissingInv
  <1>6. ASSUME NEW r \in Responders, Resync(r)
        PROVE  Goal
    <2>1. /\ listing' = [listing EXCEPT ![r] = JobsOfPool(Serves[r])]
          /\ listed' = listed \cup JobsOfPool(Serves[r])
          /\ UNCHANGED <<subs, leaked, record, reqs>>
      BY <1>6 DEF Resync, ResyncAnswered
    <2>2. \A s \in Responders : KnownBy(s) \subseteq KnownBy(s)' /\ Held(s)' = Held(s)
      BY <2>1 DEF KnownBy, Held
    <2>3. \A n \in reqs' : n.op = "status" => n.pod \in KnownBy(n.to)'
      BY <2>1, <2>2, RequestFields DEF MissingInv
    <2> QED BY <2>1, <2>2, <2>3 DEF MissingInv
  <1>7. ASSUME NEW r \in Responders, Stop(r)
        PROVE  Goal
    <2>1. /\ listing' = [listing EXCEPT ![r] = {}]
          /\ record' = [record EXCEPT ![r] = {}]
          /\ reqs' = {m \in reqs : m.to # r}
          /\ listed' = listed
      BY <1>7 DEF Stop, StopResponder
    <2>2. Held(r)' = {} /\ \A s \in Responders \ {r} : Held(s)' = Held(s)
      BY <1>7 DEF Stop, StopResponder, Held
    <2>3. \A s \in Responders \ {r} : KnownBy(s)' = KnownBy(s)
      BY <2>1 DEF KnownBy
    <2>4. \A n \in reqs' : n.op = "status" => n.pod \in KnownBy(n.to)'
      BY <2>1, <2>3, RequestFields DEF MissingInv
    <2> QED BY <2>1, <2>2, <2>3, <2>4 DEF MissingInv
  <1>8. CASE ProviderActs
    BY <1>3, <1>4, <1>5, <1>6, <1>7, <1>8 DEF ProviderActs, historyVars
  <1> QED BY <1>1, <1>8 DEF Next

\* Unless a record says otherwise, what the batch system does not know it does
\* not know: the answer to a status request is unknown for listed pods only.
LEMMA UnknownAnswers ==
    ASSUME TypeInv, MissingInv, [Next]_vars, NEW a \in outbox',
           a.reply.kind = "status", a.reply.status.phase = "unknown"
    PROVE  calls'[a.call].pod \in listed
  <1>1. CASE a \in outbox
    BY <1>1, AnsweredCallStays DEF MissingInv
  <1>2. ASSUME a \notin outbox, NEW m \in reqs, m.call # NoCall,
               NEW status \in Observe(m.pod),
               a = [call |-> m.call, reply |->
                      [kind |-> "status", status |-> Corrected(m.to, m.pod, status)]]
        PROVE  calls'[a.call].pod \in listed
    <2>1. calls' = calls
      BY <1>2, NewAnswers
    <2>2. calls[m.call].pod = m.pod /\ calls[m.call].op = m.op /\ a.call = m.call
      BY <1>2 DEF TypeInv, Exchange
    <2>3. m.op = "status"
      BY <2>1, <2>2, TypeInvStep DEF TypeInv, Exchange, Acks, Failures
    <2>4. m.pod \notin record[m.to]
      <3> SUFFICES ASSUME m.pod \in record[m.to]
                   PROVE  Corrected(m.to, m.pod, status).phase # "unknown"
        BY <1>2
      <3>1. status \in JobStatus
        BY <1>2, ObserveType, RequestFields DEF TypeInv, TypeOK, ProviderTypeOK
      <3>2. status.phase = "unknown" => [status EXCEPT !.phase = "pending"].phase = "pending"
        BY <3>1 DEF JobStatus
      <3> QED BY <3>2 DEF Corrected
    <2> QED BY <2>1, <2>2, <2>3, <2>4 DEF MissingInv, KnownBy
  <1> QED BY <1>1, <1>2, AnswerSources

LEMMA MissingInvStep ==
    ASSUME TypeInv, MissingInv, [Next]_vars
    PROVE  MissingInv'
  <1> SUFFICES ASSUME NEW p \in Pods, told'[p] = "missing", told[p] # "missing"
               PROVE  p \in listed
    BY KnownStep, UnknownAnswers DEF MissingInv
  <1> USE DEF TypeInv, TypeOK, GatewayTypeOK
  <1>1. CASE told' = told
    BY <1>1
  <1>2. ASSUME NEW c \in Calls, NEW q \in Pods, StatusCached(c, q)
        PROVE  FALSE
    BY <1>2 DEF StatusCached, Results
  <1>3. ASSUME NEW a \in outbox, StatusReply(a.call, a.reply)
        PROVE  p \in listed
    <2>1. a.call \in Calls /\ a.reply \in Reply /\ a.reply.kind = "status"
      BY <1>3, AnswerFields DEF ProviderTypeOK, StatusReply
    <2>2. told' = [told EXCEPT ![calls[a.call].pod] = Report(a.reply.status)]
      BY <1>3 DEF StatusReply
    <2>3. p = calls[a.call].pod /\ Report(a.reply.status) = "missing"
      BY <2>2
    <2>4. a.reply.status.phase = "unknown"
      <3>1. a.reply.status \in JobStatus
        BY <2>1 DEF Reply, Acks, Failures
      <3> QED BY <2>3, <3>1 DEF Report, JobStatus, Terminal
    <2> QED BY <2>1, <2>3, <2>4 DEF MissingInv
  <1>4. CASE ProviderActs \/ JobsProgress \/ UNCHANGED vars
    BY <1>1, <1>4 DEF ProviderActs, JobsProgress, vars, gatewayVars
  <1>5. ASSUME NEW c \in Calls, NEW q \in Pods,
               \/ CreateCall(c, q) \/ CreateFailsEarly(c, q) \/ DeleteCall(c, q)
               \/ StatusCall(c, q)
        PROVE  told' = told
    BY <1>5
    DEF CreateCall, CreateFailsEarly, DeleteCall, StatusCall, CreateRequest,
        CreateAborted, DeleteRequest, StatusRequest
  <1>6. ASSUME NEW c \in Calls, StatusCallAgain(c) \/ Send(c) \/ CallTimesOut(c)
        PROVE  told' = told
    BY <1>6 DEF StatusCallAgain, StatusRetry, Send, CallTimesOut, Timeout, gatewayVars
  <1>7. ASSUME NEW a \in outbox,
               CreateAnswer(a.call, a.reply) \/ DeleteAnswer(a.call, a.reply)
        PROVE  told' = told
    BY <1>7 DEF CreateAnswer, CreateReply, DeleteAnswer, DeleteReply
  <1>8. ASSUME NEW a \in outbox, StatusAnswer(a.call, a.reply)
        PROVE  p \in listed
    BY <1>1, <1>3, <1>8 DEF StatusAnswer, StatusUnknown, StatusFailed, StatusUnreadable
  <1>9. CASE GatewayRestarts
    BY <1>1, <1>9 DEF GatewayRestarts, GatewayRestart
  <1>10. CASE GatewayActs
    BY <1>1, <1>2, <1>5, <1>6, <1>7, <1>8, <1>9, <1>10 DEF GatewayActs, StatusCallCached
  <1> QED BY <1>4, <1>10 DEF Next

\* The kubelet is told that a pod is missing only after the gateway named the pod
\* to a responder that resynced: the responder that was asked to create it holds
\* it for pending as long as the batch system does not know it.
THEOREM MissingOnlyIfListedCorrect == Spec => []MissingOnlyIfListed
  <1>1. Init => TypeInv /\ MissingInv
    BY TypeInvInit, MissingInvInit
  <1>2. TypeInv /\ MissingInv /\ [Next]_vars => TypeInv' /\ MissingInv'
    BY TypeInvStep, MissingInvStep
  <1>3. MissingInv => MissingOnlyIfListed
    BY DEF MissingInv, MissingOnlyIfListed
  <1> QED BY <1>1, <1>2, <1>3, PTL DEF Spec

------------------------------------------------------------------------------
(* Jobs are within reach *)

\* Responders only have to do with pods of the pool they serve, and only leaders
\* resync.
PoolInv ==
    /\ \A p \in Pods : podPool[p] \in {None, PoolOf[p]}
    /\ \A r \in Responders :
        /\ phase[r] \in {"resyncing", "listed"} => r \in Leaders
        /\ \A p \in Held(r) \cup listing[r] : Serves[r] = PoolOf[p]
    /\ \A m \in reqs : m.op = "create" => Serves[m.to] = PoolOf[m.pod]

LEMMA PoolInvInit == Init => PoolInv
  BY DEF Init, GatewayInit, ProviderInit, PoolInv, Held

\* redis is told no pool but the pod's own.
LEMMA PoolsStay ==
    ASSUME TypeInv, PoolInv, [Next]_vars
    PROVE  \A p \in Pods : podPool'[p] \in {None, PoolOf[p]}
  <1> DEFINE Goal == \A p \in Pods : podPool'[p] \in {None, PoolOf[p]}
  <1> USE DEF TypeInv, TypeOK, GatewayTypeOK, PoolInv
  <1>1. CASE podPool' = podPool
    BY <1>1
  <1>2. ASSUME NEW c \in Calls, NEW q \in Pods, CreateRequest(c, q) \/ CreateAborted(c, q)
        PROVE  Goal
    BY <1>2 DEF CreateRequest, CreateAborted, HSet
  <1>3. ASSUME NEW c \in Calls, NEW reply, DeleteReply(c, reply)
        PROVE  Goal
    BY <1>3 DEF DeleteReply, HSet, redisVars
  <1>4. ASSUME NEW c \in Calls, NEW q \in Pods, NEW reply,
               \/ DeleteRequest(c, q) \/ StatusCached(c, q) \/ StatusRequest(c, q)
        PROVE  Goal
    BY <1>1, <1>4 DEF DeleteRequest, StatusCached, StatusRequest, redisVars
  <1>5. ASSUME NEW c \in Calls, NEW reply,
               \/ StatusRetry(c) \/ Timeout(c) \/ CreateReply(c, reply)
               \/ StatusUnknown(c, reply) \/ StatusFailed(c, reply)
               \/ StatusUnreadable(c, reply) \/ StatusReply(c, reply)
        PROVE  Goal
    BY <1>1, <1>5
    DEF StatusRetry, Timeout, CreateReply, StatusUnknown, StatusFailed, StatusUnreadable,
        StatusReply, redisVars
  <1>6. CASE GatewayRestart \/ UNCHANGED gatewayVars
    BY <1>1, <1>6 DEF GatewayRestart, redisVars, gatewayVars
  <1> QED
    BY <1>2, <1>3, <1>4, <1>5, <1>6, GatewayStays DEF GatewayNext, GatewayStep

LEMMA PoolInvStep ==
    ASSUME TypeInv, PoolInv, [Next]_vars
    PROVE  PoolInv'
  <1> DEFINE Goal ==
        /\ \A r \in Responders :
            /\ phase'[r] \in {"resyncing", "listed"} => r \in Leaders
            /\ \A p \in Held(r)' \cup listing'[r] : Serves[r] = PoolOf[p]
        /\ \A n \in reqs' : n.op = "create" => Serves[n.to] = PoolOf[n.pod]
  <1> SUFFICES Goal
    BY PoolsStay DEF PoolInv
  <1> USE DEF TypeInv, TypeOK, ProviderTypeOK
  <1>1. CASE GatewayActs \/ JobsProgress \/ UNCHANGED vars
    <2>1. phase' = phase /\ listing' = listing /\ \A r : Held(r)' = Held(r)
      BY <1>1, RespondersStay DEF responderVars, Held
    <2>2. ASSUME NEW n \in reqs', n.op = "create"
          PROVE  Serves[n.to] = PoolOf[n.pod]
      <3>1. CASE \E m \in reqs : Continues(n, m)
        BY <2>2, <3>1 DEF PoolInv, Continues
      <3>2. CASE n.to \in Subscribers(n.op, n.pod)
        BY <2>2, <3>2 DEF Subscribers
      <3> QED BY <1>1, <3>1, <3>2, SentRequests
    <2> QED BY <2>1, <2>2 DEF PoolInv
  <1>2. ASSUME ProviderActs, NEW n \in reqs', n.op = "create"
        PROVE  Serves[n.to] = PoolOf[n.pod]
    BY <1>2, ServedRequests DEF PoolInv, Continues
  <1>3. ASSUME NEW m \in reqs, Serve(m), ProviderActs
        PROVE  Goal
    <2>1. m.to \in Responders /\ m.pod \in Pods /\ ServesRequest(m)
      BY <1>3, RequestFields, ServesOne
    <2>2. phase' = phase /\ listing' = listing
      BY <2>1 DEF ServesRequest, responderVars
    <2>3. \A r \in Responders : \A p \in Held(r)' :
            p \in Held(r) \/ (r = m.to /\ p = m.pod /\ m.op = "create")
      BY <2>1 DEF ServesRequest, responderVars, Register, Held
    <2> QED BY <1>2, <1>3, <2>2, <2>3 DEF PoolInv
  <1>4. ASSUME NEW r \in Responders, ProviderActs,
               \/ StartResponder(r) \/ ResyncGivesUp(r) \/ Stop(r)
        PROVE  Goal
    BY <1>2, <1>4 DEF StartResponder, ResyncGivesUp, Stop, StopResponder, Held, PoolInv
  <1>5. ASSUME NEW r \in Responders, ProviderActs, ResyncDone(r)
        PROVE  Goal
    BY <1>2, <1>5 DEF ResyncDone, Register, Held, PoolInv
  <1>6. ASSUME NEW r \in Responders, ProviderActs, Resync(r)
        PROVE  Goal
    <2>1. \A p \in JobsOfPool(Serves[r]) : Serves[r] = PoolOf[p]
      BY ProviderAssumption, GatewayAssumption DEF JobsOfPool, PoolInv
    <2>2. /\ phase[r] = "resyncing"
          /\ phase' = [phase EXCEPT ![r] = "listed"]
          /\ listing' = [listing EXCEPT ![r] = JobsOfPool(Serves[r])]
          /\ \A s : Held(s)' = Held(s)
      BY <1>6 DEF Resync, ResyncAnswered, Held
    <2> QED BY <1>2, <1>6, <2>1, <2>2 DEF PoolInv
  <1>7. CASE ProviderActs
    BY <1>3, <1>4, <1>5, <1>6, <1>7 DEF ProviderActs
  <1> QED BY <1>1, <1>7 DEF Next

\* The kubelet deletes a pod whose delete is under way, or has.
DeleteInv == \A m \in reqs : m.op = "delete" => vk[m.pod] \in {"deleting", "deleted"}

LEMMA DeleteInvInit == Init => DeleteInv
  BY DEF Init, ProviderInit, DeleteInv

\* A pod that is being deleted stays so, until it is deleted.
LEMMA DeletingStays ==
    ASSUME TypeInv, KubeletInv, [Next]_vars, NEW p \in Pods,
           vk[p] \in {"deleting", "deleted"}
    PROVE  vk'[p] \in {"deleting", "deleted"}
  <1> DEFINE Goal == vk'[p] \in {"deleting", "deleted"}
  <1> USE DEF TypeInv, TypeOK, KubeletTypeOK
  <1>1. CASE vk' = vk
    BY <1>1
  <1>2. ASSUME NEW c \in Calls, NEW q \in Pods,
               CreateCall(c, q) \/ CreateFailsEarly(c, q) \/ DeleteCall(c, q)
        PROVE  Goal
    BY <1>2 DEF CreateCall, CreateFailsEarly, DeleteCall, MayCreate, MayDelete
  <1>3. ASSUME NEW a \in outbox, CreateAnswer(a.call, a.reply)
        PROVE  Goal
    <2>1. vk[calls[a.call].pod] = "creating"
      BY <1>3, AnswerHandled DEF CreateAnswer, CreateReply, KubeletInv
    <2> QED BY <1>3, <2>1 DEF CreateAnswer, Acknowledged
  <1>4. ASSUME NEW a \in outbox, DeleteAnswer(a.call, a.reply)
        PROVE  Goal
    BY <1>4 DEF DeleteAnswer, Acknowledged
  <1>5. ASSUME NEW c \in Calls, NEW q \in Pods,
               \/ StatusCallCached(c, q) \/ StatusCall(c, q) \/ StatusCallAgain(c)
               \/ Send(c) \/ CallTimesOut(c) \/ GatewayRestarts
        PROVE  Goal
    BY <1>1, <1>5
    DEF StatusCallCached, StatusCall, StatusCallAgain, Send, CallTimesOut,
        GatewayRestarts, kubeletVars
  <1>6. ASSUME NEW a \in outbox, StatusAnswer(a.call, a.reply)
        PROVE  Goal
    BY <1>1, <1>6 DEF StatusAnswer
  <1>7. CASE ProviderActs \/ JobsProgress \/ UNCHANGED vars
    BY <1>1, <1>7 DEF ProviderActs, JobsProgress, vars, kubeletVars
  <1>8. CASE GatewayActs
    BY <1>2, <1>3, <1>4, <1>5, <1>6, <1>8 DEF GatewayActs, GatewayRestarts
  <1> QED BY <1>7, <1>8 DEF Next

LEMMA DeleteInvStep ==
    ASSUME TypeInv, KubeletInv, DeleteInv, [Next]_vars
    PROVE  DeleteInv'
  <1> SUFFICES ASSUME NEW n \in reqs', n.op = "delete"
               PROVE  vk'[n.pod] \in {"deleting", "deleted"}
    BY DEF DeleteInv
  <1>1. ASSUME NEW m \in reqs, n.op = m.op, n.pod = m.pod
        PROVE  m.pod \in Pods /\ vk[m.pod] \in {"deleting", "deleted"}
    BY <1>1, RequestFields DEF DeleteInv, TypeInv, TypeOK, ProviderTypeOK
  <1>2. ASSUME NEW c \in Calls, n.op = calls[c].op, n.pod = calls[c].pod
        PROVE  n.pod \in Pods /\ vk[n.pod] \in {"deleting", "deleted"}
    BY <1>2, CallFields DEF KubeletInv, TypeInv, TypeOK, GatewayTypeOK
  <1> QED BY <1>1, <1>2, RequestSources, DeletingStays

\* A responder answers for the pod, or is about to: a resync named it.
Hearing(p) ==
    Reachable(p) \/ \E r \in Responders : phase[r] = "listed" /\ p \in listing[r]

\* The responder that is submitting the job of a pod has subscribed for it, one
\* that is about to unsubscribe has removed the job or let it be, and every job
\* of a pool whose pods were listed since the last stop is heard of, but for
\* those that outlived their delete.
ReachOf(p) ==
    /\ \A m \in reqs : m.pod = p /\ m.at = "working" =>
            /\ m.op = "create" => p \in Held(m.to)
            /\ m.op = "delete" => Gone(p)
    /\ ~Gone(p) =>
            PoolOf[p] \in Pools /\ (complete[PoolOf[p]] => Hearing(p))

ReachInv == \A p \in Pods \ gaveUp : ReachOf(p)

LEMMA ReachInvInit == Init => ReachInv
  BY DEF Init, ProviderInit, BackendInit, ReachInv, ReachOf, Gone

\* What is said of a pod depends on its job, its requests and who holds it.
LEMMA ReachKept ==
    ASSUME NEW p, ReachOf(p),
           Gone(p) => Gone(p)',
           \A n \in reqs' : n.at = "working" => \E m \in reqs : Continues(n, m) /\ n.at = m.at,
           \A r : p \in Held(r) => p \in Held(r)',
           Hearing(p) => Hearing(p)',
           complete' = complete
    PROVE  ReachOf(p)'
  BY DEF ReachOf, Continues

\* Who heard of a pod still does, if responders keep what they hold and list.
LEMMA HearingKept ==
    ASSUME NEW p, Hearing(p),
           \A r \in Responders : p \in Held(r) => p \in Held(r)',
           \A r \in Responders : phase[r] = "listed" /\ p \in listing[r] =>
                p \in Held(r)' \/ (phase'[r] = "listed" /\ p \in listing'[r])
    PROVE  Hearing(p)'
  BY DEF Hearing, Reachable, Held

\* A pod whose job is to come is not being deleted.
LEMMA NotBoth ==
    ASSUME SubmitsInv, DeleteInv, NEW p \in Pods \ gaveUp,
           NEW m \in reqs, m.op = "create", m.pod = p,
           NEW n \in reqs, n.op = "delete", n.pod = p
    PROVE  FALSE
  <1>1. vk[p] = "creating"
    BY DEF SubmitsInv, SubmitInv, Creating
  <1>2. vk[p] \in {"deleting", "deleted"}
    BY DEF DeleteInv
  <1> QED BY <1>1, <1>2

\* Callbacks of create requests.
LEMMA ReachServesCreate ==
    ASSUME TypeInv, SubmitsInv, PoolInv, DeleteInv, NEW p \in Pods \ gaveUp, ReachOf(p),
           NEW m \in reqs, m.op = "create", Serve(m), complete' = complete
    PROVE  ReachOf(p)'
  <1> DEFINE w == [m EXCEPT !.at = "working"]
  <1>1. /\ m.to \in Responders /\ m.pod \in Pods
        /\ w.op = m.op /\ w.pod = m.pod /\ w.to = m.to
    BY RequestFields, WorkingFields DEF TypeInv, TypeOK, ProviderTypeOK
  <1> HIDE DEF w
  <1>2. \/ CreateCallback(m) \/ CreateSubmitted(m)
        \/ CreateRefused(m) \/ CreateUnanswered(m)
    BY DEF Serve, CreateCallback, CreateSubmitted, CreateRefused, CreateUnanswered,
           DeleteCallback, DeleteUnsubscribe, DeleteRefused, DeleteUnanswered,
           StatusCallback, StatusRefused, StatusUnanswered, Starts, Works
  <1>3. CASE CreateCallback(m)
    <2>1. /\ reqs' = (reqs \ {m}) \cup {w}
          /\ Register(m.to, {m.pod})
          /\ (Gone(p)' <=> Gone(p)) /\ phase' = phase /\ listing' = listing
      BY <1>3 DEF CreateCallback, Working, backendVars, Gone, w
    <2>2. \A r \in Responders : Held(r) \subseteq Held(r)'
      BY <1>1, <2>1 DEF Register, Held, TypeInv, TypeOK, ProviderTypeOK
    <2>3. m.pod \in Held(m.to)'
      BY <1>1, <2>1 DEF Register, Held, TypeInv, TypeOK, ProviderTypeOK
    <2>4. Hearing(p) => Hearing(p)'
      BY <2>1, <2>2, HearingKept
    <2>5. \A n \in reqs : n.to \in Responders
      BY RequestFields DEF TypeInv, TypeOK, ProviderTypeOK
    <2> QED BY <1>1, <2>1, <2>2, <2>3, <2>4, <2>5 DEF ReachOf
  <1>4. CASE ~CreateCallback(m)
    <2>1. /\ Works(m, "create") /\ reqs' = reqs \ {m} /\ UNCHANGED responderVars
          /\ UNCHANGED backendVars \/ Submit(m.pod)
      BY <1>2, <1>4 DEF CreateSubmitted, CreateRefused, CreateUnanswered
    <2>2. (\A r : Held(r)' = Held(r)) /\ (Hearing(p)' <=> Hearing(p))
      BY <2>1 DEF responderVars, Held, Hearing, Reachable
    <2>3. \A n \in reqs' : \E o \in reqs : Continues(n, o) /\ n.at = o.at
      BY <2>1 DEF Continues
    <2>4. CASE Gone(p) => Gone(p)'
      BY <2>2, <2>3, <2>4, ReachKept
    <2>5. CASE Gone(p) /\ ~Gone(p)'
      <3>1. m.pod = p
        BY <1>1, <2>1, <2>5
        DEF Submit, Gone, backendVars, TypeInv, TypeOK, BackendTypeOK
      <3>2. p \in Held(m.to) /\ Serves[m.to] = PoolOf[p]
        BY <2>1, <3>1 DEF ReachOf, PoolInv, Works
      <3>3. PoolOf[p] \in Pools
        BY <1>1, <3>2, ProviderAssumption
      <3>4. Hearing(p)'
        BY <1>1, <2>2, <3>2 DEF Hearing, Reachable, Held
      <3>5. \A n \in reqs' : n.pod = p /\ n.at = "working" =>
                n.op # "delete" /\ (n.op = "create" => p \in Held(n.to)')
        BY <2>1, <2>2, <3>1, NotBoth DEF ReachOf
      <3> QED BY <3>3, <3>4, <3>5 DEF ReachOf
    <2> QED BY <2>4, <2>5
  <1> QED BY <1>3, <1>4

\* Callbacks of delete and status requests.
LEMMA ReachServesOther ==
    ASSUME TypeInv, SubmitsInv, DeleteInv, NEW p \in Pods \ gaveUp, ReachOf(p),
           NEW m \in reqs, m.op # "create", Serve(m), complete' = complete
    PROVE  ReachOf(p)'
  <1> DEFINE w == [m EXCEPT !.at = "working"]
  <1>1. /\ m.to \in Responders /\ m.pod \in Pods
        /\ w.op = m.op /\ w.pod = m.pod /\ w.to = m.to
    BY RequestFields, WorkingFields DEF TypeInv, TypeOK, ProviderTypeOK
  <1> HIDE DEF w
  <1>2. CASE DeleteUnsubscribe(m)
    <2>1. /\ m.op = "delete" /\ m.at = "working"
          /\ subs' = [subs EXCEPT ![m.to] = @ \ {m.pod}]
          /\ reqs' = reqs \ {m}
          /\ UNCHANGED <<phase, listing, leaked>>
          /\ Gone(p)' <=> Gone(p)
      BY <1>2 DEF DeleteUnsubscribe, Works, backendVars, Gone
    <2>2. CASE m.pod # p
      <3>1. \A r \in Responders : p \in Held(r) => p \in Held(r)'
        BY <1>1, <2>1, <2>2 DEF Held, TypeInv, TypeOK, ProviderTypeOK
      <3>2. Hearing(p) => Hearing(p)'
        BY <2>1, <3>1, HearingKept
      <3>3. \A n \in reqs : n.to \in Responders
        BY RequestFields DEF TypeInv, TypeOK, ProviderTypeOK
      <3> QED BY <2>1, <3>1, <3>2, <3>3 DEF ReachOf
    <2>3. CASE m.pod = p
      <3>1. Gone(p)'
        BY <2>1, <2>3 DEF ReachOf
      <3>2. \A n \in reqs' : ~(n.op = "create" /\ n.pod = p)
        BY <2>1, <2>3, NotBoth
      <3> QED BY <3>1, <3>2 DEF ReachOf
    <2> QED BY <2>2, <2>3
  <1>3. CASE ~DeleteUnsubscribe(m)
    <2>1. /\ UNCHANGED responderVars
          /\ \/ reqs' = reqs \ {m}
             \/ reqs' = (reqs \ {m}) \cup {w} /\ m.op = "delete" /\ DeletePod(m.pod)
          /\ UNCHANGED backendVars \/ DeletePod(m.pod)
      BY <1>3
      DEF Serve, CreateCallback, CreateSubmitted, CreateRefused, CreateUnanswered,
          DeleteCallback, DeleteRefused, DeleteUnanswered,
          StatusCallback, StatusRefused, StatusUnanswered, Starts, Works, Working,
          DeletePod, w
    <2>2. (\A r : Held(r)' = Held(r)) /\ (Hearing(p)' <=> Hearing(p))
      BY <2>1 DEF responderVars, Held, Hearing, Reachable
    <2>3. /\ Gone(p) => Gone(p)'
          /\ DeletePod(m.pod) /\ m.pod = p => Gone(p)'
      BY <1>1, <2>1, DeletesLeave DEF SubmitsInv, TypeInv, TypeOK
    <2> QED BY <1>1, <2>1, <2>2, <2>3 DEF ReachOf
  <1> QED BY <1>2, <1>3

\* Responders that start, resync and stop.
LEMMA ReachResponders ==
    ASSUME UseRedis, TypeInv, ListedInv, SubmitsInv, PoolInv,
           NEW p \in Pods \ gaveUp, ReachOf(p), NEW r \in Responders,
           \/ (StartResponder(r) \/ ResyncDone(r) \/ ResyncGivesUp(r)) /\ complete' = complete
           \/ Resync(r) \/ Stop(r)
    PROVE  ReachOf(p)'
  <1> USE DEF TypeInv, TypeOK, ProviderTypeOK, KubeletTypeOK
  <1>1. Gone(p)' <=> Gone(p)
    BY DEF StartResponder, ResyncDone, ResyncGivesUp, Resync, ResyncAnswered, Stop,
           StopResponder, backendVars, Gone
  <1>2. CASE (StartResponder(r) \/ ResyncGivesUp(r)) /\ complete' = complete
    <2>1. /\ reqs' = reqs /\ \A s : Held(s)' = Held(s)
          /\ \A s \in Responders : phase[s] = "listed" => phase'[s] = "listed"
          /\ listing' = listing
      BY <1>2 DEF StartResponder, ResyncGivesUp, Held
    <2>2. Hearing(p) => Hearing(p)'
      BY <2>1, HearingKept
    <2> QED BY <1>1, <1>2, <2>1, <2>2, ReachKept DEF Continues
  <1>3. CASE ResyncDone(r) /\ complete' = complete
    <2>1. /\ reqs' = reqs
          /\ \A s \in Responders : Held(s) \subseteq Held(s)'
          /\ listing[r] \subseteq Held(r)'
          /\ \A s \in Responders \ {r} : phase'[s] = phase[s] /\ listing'[s] = listing[s]
      BY <1>3 DEF ResyncDone, Register, Held
    <2>2. Hearing(p) => Hearing(p)'
      BY <2>1, HearingKept
    <2>3. \A n \in reqs : n.to \in Responders
      BY RequestFields
    <2> QED BY <1>1, <1>3, <2>1, <2>2, <2>3 DEF ReachOf
  <1>4. CASE Resync(r)
    <2>1. /\ phase[r] = "resyncing"
          /\ phase' = [phase EXCEPT ![r] = "listed"]
          /\ listing' = [listing EXCEPT ![r] = JobsOfPool(Serves[r])]
          /\ complete' = [complete EXCEPT ![Serves[r]] = TRUE]
          /\ reqs' = reqs /\ \A s : Held(s)' = Held(s)
      BY <1>4 DEF Resync, ResyncAnswered, Held
    <2>2. Hearing(p) => Hearing(p)'
      BY <2>1, HearingKept
    <2>3. ~Gone(p) /\ PoolOf[p] = Serves[r] => Hearing(p)'
      <3> SUFFICES ASSUME ~Gone(p), PoolOf[p] = Serves[r]
                   PROVE  Hearing(p)'
        OBVIOUS
      <3>1. podPool[p] = PoolOf[p]
        BY DEF ListedInv, Wanted, Assigned, SubmitsInv, SubmitInv, Gone
      <3>2. p \in listing'[r] /\ phase'[r] = "listed"
        BY <2>1, <3>1 DEF JobsOfPool
      <3> QED BY <3>2 DEF Hearing
    <2> QED BY <1>1, <2>1, <2>2, <2>3 DEF ReachOf
  <1>5. CASE Stop(r)
    <2>1. /\ phase' = [phase EXCEPT ![r] = "down"]
          /\ \A s \in Responders \ {r} : listing'[s] = listing[s] /\ Held(s)' = Held(s)
          /\ complete' = [complete EXCEPT ![Serves[r]] = FALSE]
          /\ reqs' = {m \in reqs : m.to # r}
      BY <1>5 DEF Stop, StopResponder, Held
    <2>2. Serves[r] \in Pools
      BY ProviderAssumption
    <2>3. ASSUME PoolOf[p] # Serves[r], Hearing(p)
          PROVE  Hearing(p)'
      <3>1. p \notin Held(r) /\ p \notin listing[r]
        BY <2>3 DEF PoolInv
      <3> QED BY <2>1, <2>3, <3>1, HearingKept
    <2>4. \A n \in reqs : n.to \in Responders
      BY RequestFields
    <2> QED BY <1>1, <2>1, <2>2, <2>3, <2>4 DEF ReachOf
  <1> QED BY <1>2, <1>3, <1>4, <1>5

LEMMA ReachInvStep ==
    ASSUME UseRedis, TypeInv, KubeletInv, ListedInv, SubmitsInv, PoolInv, DeleteInv,
           ReachInv, [Next]_vars
    PROVE  ReachInv'
  <1>1. gaveUp \subseteq gaveUp'
    BY DEF Next, GatewayActs, ProviderActs, JobsProgress, CreateCall, CreateFailsEarly,
           DeleteCall, StatusCallCached, StatusCall, CreateAnswer, DeleteAnswer,
           StatusAnswer, Receive, StatusCallAgain, Send, CallTimesOut, GatewayRestarts,
           Lost, kubeletVars, vars
  <1> SUFFICES ASSUME NEW p \in Pods \ gaveUp, ReachOf(p)
               PROVE  ReachOf(p)'
    BY <1>1 DEF ReachInv
  <1>2. CASE GatewayActs \/ JobsProgress \/ UNCHANGED vars
    <2>1. UNCHANGED responderVars /\ complete' = complete
      BY <1>2, RespondersStay DEF historyVars
    <2>2. Gone(p) => Gone(p)'
      <3>1. CASE GatewayActs \/ UNCHANGED vars
        BY <3>1
        DEF GatewayActs, CreateCall, CreateFailsEarly, DeleteCall, StatusCallCached,
            StatusCall, CreateAnswer, DeleteAnswer, StatusAnswer, Receive,
            StatusCallAgain, Send, CallTimesOut, GatewayRestarts, Connects, vars,
            providerVars, backendVars, Gone
      <3>2. CASE JobsProgress
        BY <3>2 DEF JobsProgress, JobProgress, Gone, TypeInv, TypeOK, BackendTypeOK
      <3> QED BY <1>2, <3>1, <3>2
    <2>3. \A n \in reqs' : n.at = "working" =>
                \E m \in reqs : Continues(n, m) /\ n.at = m.at
      BY <1>2, SentRequests
    <2>4. (\A r : Held(r)' = Held(r)) /\ (Hearing(p)' <=> Hearing(p))
      BY <2>1 DEF responderVars, Held, Hearing, Reachable
    <2> QED BY <2>1, <2>2, <2>3, <2>4, ReachKept
  <1>3. CASE ProviderActs
    <2>1. ASSUME NEW m \in reqs, Serve(m), complete' = complete
          PROVE  ReachOf(p)'
      BY <2>1, ReachServesCreate, ReachServesOther
    <2> QED BY <1>3, <2>1, ReachResponders DEF ProviderActs, historyVars
  <1> QED BY <1>2, <1>3 DEF Next

\* With redis, some responder answers for every job of a pool whose pods were
\* listed after the last stop of a responder, unless a create of its pod went
\* unanswered or the job outlived its delete: whichever responder created it,
\* and however stops, resyncs, creates and deletes interleave.
THEOREM JobsAreReachableCorrect == Spec => []JobsAreReachable
  <1>1. CASE UseRedis
    <2> DEFINE Inv == /\ TypeInv /\ KubeletInv /\ ListedInv /\ SubmitsInv
                      /\ PoolInv /\ DeleteInv /\ ReachInv
    <2>1. Init => Inv
      BY TypeInvInit, KubeletInvInit, ListedInvInit, SubmitsInvInit, PoolInvInit,
         DeleteInvInit, ReachInvInit
    <2>2. Inv /\ [Next]_vars => Inv'
      BY <1>1, TypeInvStep, KubeletInvStep, ListedInvStep, SubmitsInvStep, PoolInvStep,
         DeleteInvStep, ReachInvStep
    <2>3. ASSUME Inv, NEW p \in Pods \ (gaveUp \cup spared), job[p] # "none", Settled(PoolOf[p])
          PROVE  Reachable(p)
      <3>1. complete[PoolOf[p]] /\ Hearing(p)
        BY <2>3 DEF ReachInv, ReachOf, Gone, Settled
      <3>2. \A r \in Responders : phase[r] = "listed" => p \notin listing[r]
        BY <2>3 DEF PoolInv, Settled
      <3> QED BY <3>1, <3>2 DEF Hearing
    <2>4. Inv => JobsAreReachable
      BY <2>3 DEF JobsAreReachable
    <2> QED BY <2>1, <2>2, <2>4, PTL DEF Spec
  <1>2. CASE ~UseRedis
    <2>1. JobsAreReachable
      BY <1>2 DEF JobsAreReachable
    <2> QED BY <2>1, PTL
  <1> QED BY <1>1, <1>2
==============================================================================
