------------------------- MODULE PodLifecycleProofs -------------------------
(***************************************************************************)
(* Theorems about the composed system.  The lemmas of NatsGatewayProofs    *)
(* carry over, because the gateway takes no step here that it does not     *)
(* take in front of providers that answer anything (GatewayStays).         *)
(***************************************************************************)
EXTENDS PodLifecycle, NatsGatewayProofs

\* Calls that wait for an answer, or will when they are connected.
Awaiting(c) == calls[c].op \in {"create", "delete"} \/ Awaits(c)

\* What a call and its request know of each other: a request is for the pod of
\* the call that waits for it and of its kind, an answer is one of that kind,
\* and a call that is still connecting has neither.
Exchange ==
    /\ \A c \in unsent : Awaiting(c)
    /\ \A m \in reqs : m.call # NoCall =>
            /\ Awaiting(m.call)
            /\ m.call \notin unsent
            /\ calls[m.call].op = m.op
            /\ calls[m.call].pod = m.pod
    /\ \A a \in outbox :
            /\ Awaiting(a.call)
            /\ a.call \notin unsent
            /\ calls[a.call].op = "status" \/ a.reply.kind \in Acks

TypeInv == TypeOK /\ Exchange

------------------------------------------------------------------------------
(* What happens to messages *)

\* The fields of requests and answers.
LEMMA RequestFields ==
    ASSUME NEW m \in Request
    PROVE  /\ m = [op |-> m.op, pod |-> m.pod, call |-> m.call, to |-> m.to, at |-> m.at]
           /\ m.op \in {"create", "delete", "status"}
           /\ m.pod \in Pods
           /\ m.call \in Calls \cup {NoCall}
           /\ m.to \in Responders
           /\ m.at \in {"queued", "working"}
           /\ [m EXCEPT !.at = "working"] \in Request
           /\ [m EXCEPT !.call = NoCall] \in Request
  BY DEF Request

LEMMA AnswerFields ==
    ASSUME NEW a \in Answer
    PROVE  /\ a.call \in Calls
           /\ a.reply \in Reply
           /\ a.reply.kind \in Acks => a.reply \in [kind : Acks]
           /\ a.reply.kind = "status" => a.reply \in [kind : {"status"}, status : JobStatus]
  BY DEF Answer, Reply, Acks, Failures

\* What the batch system may say is a JobStatus, corrected or not.
LEMMA ObserveType ==
    ASSUME BackendTypeOK, NEW p \in Pods, NEW status \in Observe(p), NEW r
    PROVE  status \in JobStatus /\ Corrected(r, p, status) \in JobStatus
  <1>1. status \in JobStatus
    <2>1. Unknown \in JobStatus
      BY DEF Unknown, JobStatus
    <2>2. Unended \subseteq JobStatus
      BY DEF Unended, JobStatus
    <2>3. Current(p) \subseteq JobStatus
      <3>1. CASE job[p] \in Outcomes
        BY <3>1 DEF Current, JobStatus, Logs, Outcomes
      <3>2. CASE job[p] \notin Outcomes
        BY <3>2 DEF Current, JobStatus, Logs, Outcomes
      <3> QED BY <3>1, <3>2
    <2> QED BY <2>1, <2>2, <2>3 DEF Observe
  <1>2. status.phase = "unknown" => [status EXCEPT !.phase = "pending"] \in JobStatus
    BY <1>1 DEF JobStatus
  <1> QED BY <1>1, <1>2 DEF Corrected

\* A callback takes its request further or drops it, and answers it at most
\* once, with an answer of its kind.
ServedOnly(m) ==
    /\ reqs' \subseteq reqs \cup {[m EXCEPT !.at = "working"]}
    /\ \/ outbox' = outbox
       \/ /\ m.call # NoCall
          /\ \E reply \in Reply :
                /\ m.op = "status" \/ reply.kind \in Acks
                /\ outbox' = outbox \cup {[call |-> m.call, reply |-> reply]}

LEMMA ServeMessages ==
    ASSUME TypeInv, NEW m \in reqs, Serve(m)
    PROVE  ServedOnly(m)
  <1>1. m \in Request /\ m.pod \in Pods
    BY RequestFields DEF TypeInv, TypeOK, ProviderTypeOK
  <1>2. [kind |-> "ok"] \in Reply /\ [kind |-> "error"] \in Reply
    BY DEF Reply, Acks, Failures
  <1>3. CASE CreateCallback(m) \/ DeleteUnsubscribe(m)
    BY <1>3 DEF CreateCallback, DeleteUnsubscribe, ServedOnly, Working
  <1>4. CASE CreateUnanswered(m) \/ DeleteUnanswered(m) \/ StatusUnanswered(m)
    BY <1>4 DEF CreateUnanswered, DeleteUnanswered, StatusUnanswered, ServedOnly
  <1>5. CASE CreateSubmitted(m) \/ CreateRefused(m) \/ DeleteRefused(m) \/ StatusRefused(m)
    BY <1>2, <1>5
    DEF CreateSubmitted, CreateRefused, DeleteRefused, StatusRefused, ServedOnly,
        Respond, Acks, Failures
  <1>6. CASE DeleteCallback(m)
    BY <1>2, <1>6 DEF DeleteCallback, ServedOnly, Respond, Acks, Working
  <1>7. ASSUME NEW status \in Observe(m.pod), StatusCallback(m, status)
        PROVE  ServedOnly(m)
    <2> DEFINE reply == [kind |-> "status", status |-> Corrected(m.to, m.pod, status)]
    <2>1. reply \in Reply
      BY <1>1, ObserveType DEF TypeInv, TypeOK, Reply
    <2>2. m.op = "status" /\ reqs' \subseteq reqs /\ Respond(m, reply)
      BY <1>7 DEF StatusCallback, Starts
    <2> HIDE DEF reply
    <2> QED BY <2>1, <2>2 DEF ServedOnly, Respond
  <1> QED BY <1>3, <1>4, <1>5, <1>6, <1>7 DEF Serve

\* Serving keeps the messages well typed and in step with the calls.
LEMMA ServedExchange ==
    ASSUME TypeInv, NEW m \in reqs, ServedOnly(m), UNCHANGED <<calls, unsent>>
    PROVE  reqs' \subseteq Request /\ outbox' \subseteq Answer /\ Exchange'
  <1>1. m \in Request /\ reqs \subseteq Request /\ outbox \subseteq Answer
    BY DEF TypeInv, TypeOK, ProviderTypeOK
  <1>2. \A n \in reqs' : \E o \in reqs :
            n \in Request /\ n.call = o.call /\ n.op = o.op /\ n.pod = o.pod
    <2>1. [m EXCEPT !.at = "working"] \in Request
      BY <1>1, RequestFields
    <2>2. /\ [m EXCEPT !.at = "working"].call = m.call
          /\ [m EXCEPT !.at = "working"].op = m.op
          /\ [m EXCEPT !.at = "working"].pod = m.pod
      BY <1>1, RequestFields
    <2> QED BY <1>1, <2>1, <2>2 DEF ServedOnly
  <1>3. \A a \in outbox' :
            \/ a \in outbox
            \/ /\ m.call # NoCall
               /\ a \in Answer
               /\ a.call = m.call
               /\ m.op = "status" \/ a.reply.kind \in Acks
    <2>1. ASSUME NEW reply \in Reply, m.call # NoCall
          PROVE  [call |-> m.call, reply |-> reply] \in Answer
      BY <1>1, <2>1, RequestFields DEF Answer
    <2> QED BY <2>1 DEF ServedOnly
  <1>4. \A c : Awaiting(c)' = Awaiting(c)
    BY DEF Awaiting, Awaits
  <1>5. /\ \A n \in reqs : n.call # NoCall =>
                /\ Awaiting(n.call)
                /\ n.call \notin unsent
                /\ calls[n.call].op = n.op
                /\ calls[n.call].pod = n.pod
        /\ \A a \in outbox :
                /\ Awaiting(a.call)
                /\ a.call \notin unsent
                /\ calls[a.call].op = "status" \/ a.reply.kind \in Acks
        /\ \A c \in unsent : Awaiting(c)
    BY DEF TypeInv, Exchange
  <1>6. \A n \in reqs' : n.call # NoCall =>
            /\ Awaiting(n.call)'
            /\ n.call \notin unsent'
            /\ calls'[n.call].op = n.op
            /\ calls'[n.call].pod = n.pod
    BY <1>2, <1>4, <1>5
  <1>7. \A a \in outbox' :
            /\ Awaiting(a.call)'
            /\ a.call \notin unsent'
            /\ calls'[a.call].op = "status" \/ a.reply.kind \in Acks
    BY <1>3, <1>4, <1>5
  <1>8. \A c \in unsent' : Awaiting(c)'
    BY <1>4, <1>5
  <1>9. Exchange'
    BY <1>6, <1>7, <1>8 DEF Exchange
  <1> QED BY <1>1, <1>2, <1>3, <1>9

\* So does the start of a call or of another attempt ...
LEMMA ConnectExchange ==
    ASSUME TypeInv, NEW c \in Calls, ~Awaiting(c), NEW x \in Call,
           x.op \in {"create", "delete"} \/ (x.op = "status" /\ x.at = "awaiting"),
           calls' = [calls EXCEPT ![c] = x], Connects(c)
    PROVE  reqs' \subseteq Request /\ outbox' \subseteq Answer /\ Exchange'
  <1>1. /\ reqs' = reqs /\ outbox' = outbox /\ unsent' = unsent \cup {c}
        /\ reqs \subseteq Request /\ outbox \subseteq Answer
    BY DEF Connects, providerVars, TypeInv, TypeOK, ProviderTypeOK
  <1>2. calls'[c] = x /\ \A d \in Calls \ {c} : calls'[d] = calls[d]
    BY DEF TypeInv, TypeOK, GatewayTypeOK
  <1>3. Awaiting(c)' /\ \A d \in Calls \ {c} : Awaiting(d)' = Awaiting(d)
    BY <1>2 DEF Awaiting, Awaits
  <1>4. \A m \in reqs : m.call # NoCall => m.call \in Calls \ {c}
    BY <1>1, RequestFields DEF TypeInv, Exchange
  <1>5. \A a \in outbox : a.call \in Calls \ {c}
    BY <1>1, AnswerFields DEF TypeInv, Exchange
  <1>6. unsent \subseteq Calls
    BY DEF TypeInv, TypeOK, KubeletTypeOK
  <1> QED
    BY <1>1, <1>2, <1>3, <1>4, <1>5, <1>6 DEF TypeInv, Exchange

\* ... the sending of a request ...
LEMMA SendExchange ==
    ASSUME TypeInv, NEW c \in Calls, Send(c)
    PROVE  reqs' \subseteq Request /\ outbox' \subseteq Answer /\ Exchange'
  <1> DEFINE op == calls[c].op
             p == calls[c].pod
  <1>1. /\ c \in unsent /\ unsent' = unsent \ {c} /\ calls' = calls
        /\ Publish(c, op, p)
    BY DEF Send, gatewayVars
  <1>2. /\ Awaiting(c) /\ op \in {"create", "delete", "status"} /\ p \in Pods
        /\ reqs \subseteq Request /\ outbox \subseteq Answer
    BY <1>1, CallFields
    DEF Awaiting, Awaits, TypeInv, TypeOK, GatewayTypeOK, ProviderTypeOK, Exchange
  <1>3. \A d : Awaiting(d)' = Awaiting(d)
    BY <1>1 DEF Awaiting, Awaits
  <1>4. CASE /\ outbox' = outbox
             /\ \E R \in Receivers(op, p) :
                    reqs' = reqs \cup {[op |-> op, pod |-> p, call |-> c, to |-> r,
                                        at |-> "queued"] : r \in R}
    <2>1. PICK R \in Receivers(op, p) :
              reqs' = reqs \cup {[op |-> op, pod |-> p, call |-> c, to |-> r,
                                  at |-> "queued"] : r \in R}
      BY <1>4
    <2>2. R \subseteq Responders
      BY <2>1 DEF Receivers, Subscribers
    <2>3. \A r \in R : [op |-> op, pod |-> p, call |-> c, to |-> r, at |-> "queued"]
                        \in Request
      BY <1>2, <2>2 DEF Request
    <2>4. \A m \in reqs' :
              m \in reqs \/ (m \in Request /\ m.op = op /\ m.pod = p /\ m.call = c)
      BY <2>1, <2>3
    <2> QED BY <1>1, <1>2, <1>3, <1>4, <2>4 DEF TypeInv, Exchange
  <1>5. CASE /\ reqs' = reqs
             /\ outbox' = outbox \cup {[call |-> c, reply |-> [kind |-> "noResponders"]]}
    <2>1. [call |-> c, reply |-> [kind |-> "noResponders"]] \in Answer
      BY DEF Answer, Reply, Acks, Failures
    <2> QED BY <1>1, <1>2, <1>3, <1>5, <2>1 DEF TypeInv, Exchange, Acks, Failures
  <1> QED BY <1>1, <1>4, <1>5 DEF Publish

\* ... and the end of some calls, or of an attempt.
LEMMA ForgetExchange ==
    ASSUME TypeInv, NEW S \in SUBSET Calls, Forget(S),
           unsent' = unsent \ S, \A d \in Calls \ S : calls'[d] = calls[d]
    PROVE  reqs' \subseteq Request /\ outbox' \subseteq Answer /\ Exchange'
  <1>1. reqs \subseteq Request /\ outbox \subseteq Answer /\ unsent \subseteq Calls
    BY DEF TypeInv, TypeOK, ProviderTypeOK, KubeletTypeOK
  <1>2. \A d \in Calls \ S : Awaiting(d)' = Awaiting(d)
    BY DEF Awaiting, Awaits
  <1>3. \A m \in reqs' : m \in Request /\
            (m.call = NoCall \/ (m \in reqs /\ m.call \notin S))
    <2>1. ASSUME NEW n \in reqs
          PROVE  [n EXCEPT !.call = NoCall] \in Request
                 /\ [n EXCEPT !.call = NoCall].call = NoCall
      BY <1>1, <2>1, RequestFields
    <2>2. \A m \in reqs' : \E n \in reqs :
            m = IF n.call \in S THEN [n EXCEPT !.call = NoCall] ELSE n
      BY DEF Forget
    <2> QED BY <1>1, <2>1, <2>2
  <1>4. outbox' = {a \in outbox : a.call \notin S}
    BY DEF Forget
  <1>5. \A m \in reqs' : m.call # NoCall => m.call \in Calls \ S
    BY <1>3, RequestFields
  <1>6. \A a \in outbox' : a.call \in Calls \ S
    BY <1>1, <1>4, AnswerFields
  <1> QED
    BY <1>1, <1>2, <1>3, <1>4, <1>5, <1>6 DEF TypeInv, Exchange

------------------------------------------------------------------------------
(* The steps of the system *)

LEMMA AnswerHandled ==
    ASSUME TypeInv, NEW a \in outbox,
           \/ CreateAnswer(a.call, a.reply)
           \/ DeleteAnswer(a.call, a.reply)
           \/ StatusAnswer(a.call, a.reply)
    PROVE  /\ a.call \in Calls
           /\ a.reply \in Reply
           /\ Forget({a.call}) /\ unsent' = unsent \ {a.call}
           /\ \A d \in Calls \ {a.call} : calls'[d] = calls[d]
           /\ calls[a.call].op # "status" => a.reply \in [kind : Acks]
           /\ GatewayStep(a.call)
  <1>1. a \in Answer /\ a.call \in Calls /\ a.reply \in Reply
    BY AnswerFields DEF TypeInv, TypeOK, ProviderTypeOK
  <1>2. Forget({a.call}) /\ unsent' = unsent
    BY DEF CreateAnswer, DeleteAnswer, StatusAnswer, Receive
  <1>3. a.call \notin unsent /\ (calls[a.call].op = "status" \/ a.reply.kind \in Acks)
    BY DEF TypeInv, Exchange
  <1>4. calls[a.call].op # "status" => a.reply \in [kind : Acks]
    BY <1>1, <1>3, AnswerFields
  <1>5. \A d \in Calls \ {a.call} : calls'[d] = calls[d]
    BY DEF CreateAnswer, DeleteAnswer, StatusAnswer, CreateReply, DeleteReply,
           StatusUnknown, StatusFailed, StatusUnreadable, StatusReply, End,
           TypeInv, TypeOK, GatewayTypeOK
  <1>6. GatewayStep(a.call)
    <2>1. CASE CreateAnswer(a.call, a.reply)
      BY <1>4, <2>1 DEF CreateAnswer, CreateReply, GatewayStep
    <2>2. CASE DeleteAnswer(a.call, a.reply)
      BY <1>4, <2>2 DEF DeleteAnswer, DeleteReply, GatewayStep
    <2>3. CASE StatusFailed(a.call, a.reply)
      <3>1. a.reply.kind \in Acks
        BY <2>3 DEF StatusFailed, Acks
      <3> QED BY <1>1, <2>3, <3>1, AnswerFields DEF GatewayStep
    <2>4. CASE \/ StatusUnknown(a.call, a.reply)
               \/ StatusUnreadable(a.call, a.reply)
               \/ StatusReply(a.call, a.reply)
      <3>1. a.reply.kind = "status"
        BY <2>4 DEF StatusUnknown, StatusUnreadable, StatusReply
      <3> QED BY <1>1, <2>4, <3>1, AnswerFields DEF GatewayStep
    <2> QED BY <2>1, <2>2, <2>3, <2>4 DEF StatusAnswer
  <1> QED BY <1>1, <1>2, <1>3, <1>4, <1>5, <1>6

\* Every step of the system is one of the gateway, or leaves it alone.
LEMMA GatewayStays ==
    ASSUME TypeInv, [Next]_vars
    PROVE  [GatewayNext]_gatewayVars
  <1>1. CASE UNCHANGED vars
    BY <1>1 DEF vars
  <1>2. CASE ProviderActs \/ JobsProgress
    BY <1>2 DEF ProviderActs, JobsProgress
  <1>3. ASSUME NEW c \in Calls, NEW p \in Pods,
               \/ CreateCall(c, p) \/ CreateFailsEarly(c, p) \/ DeleteCall(c, p)
               \/ StatusCallCached(c, p) \/ StatusCall(c, p)
        PROVE  GatewayNext
    BY <1>3
    DEF CreateCall, CreateFailsEarly, DeleteCall, StatusCallCached, StatusCall,
        MayCreate, MayDelete, PollsPod, GatewayNext, GatewayStep
  <1>4. ASSUME NEW a \in outbox,
               \/ CreateAnswer(a.call, a.reply)
               \/ DeleteAnswer(a.call, a.reply)
               \/ StatusAnswer(a.call, a.reply)
        PROVE  GatewayNext
    BY <1>4, AnswerHandled DEF GatewayNext
  <1>5. ASSUME NEW c \in Calls, StatusCallAgain(c) \/ Send(c) \/ CallTimesOut(c)
        PROVE  [GatewayNext]_gatewayVars
    BY <1>5 DEF StatusCallAgain, Send, CallTimesOut, GatewayNext, GatewayStep
  <1>6. CASE GatewayRestarts
    BY <1>6 DEF GatewayRestarts, GatewayNext
  <1> QED BY <1>1, <1>2, <1>3, <1>4, <1>5, <1>6 DEF Next, GatewayActs

\* The calls the kubelet makes connect with nothing under way for them.
LEMMA CallConnects ==
    ASSUME TypeInv, NEW c \in Calls, NEW p \in Pods,
           CreateCall(c, p) \/ DeleteCall(c, p) \/ StatusCall(c, p)
    PROVE  reqs' \subseteq Request /\ outbox' \subseteq Answer /\ Exchange'
  <1>1. calls[c] = Idle /\ Connects(c)
    BY DEF CreateCall, DeleteCall, StatusCall, CreateRequest, DeleteRequest, StatusRequest
  <1>2. ~Awaiting(c)
    BY <1>1 DEF Idle, Awaiting, Awaits
  <1>3. PICK x \in Call :
            /\ calls' = [calls EXCEPT ![c] = x]
            /\ x.op \in {"create", "delete"} \/ (x.op = "status" /\ x.at = "awaiting")
    <2>1. CASE StatusCall(c, p)
      <3>1. 1 \in 1 .. MaxAttempts
        BY GatewayAssumption
      <3> DEFINE y == [op |-> "status", pod |-> p, at |-> "awaiting", attempt |-> 1]
      <3>2. y \in Call /\ y.op = "status" /\ y.at = "awaiting"
        BY <3>1 DEF Call
      <3>3. calls' = [calls EXCEPT ![c] = y]
        BY <2>1 DEF StatusCall, StatusRequest
      <3> QED BY <3>2, <3>3
    <2>2. CASE CreateCall(c, p)
      <3> DEFINE y == [op |-> "create", pod |-> p]
      <3>1. y \in Call /\ y.op = "create" /\ calls' = [calls EXCEPT ![c] = y]
        BY <2>2 DEF CreateCall, CreateRequest, Call
      <3> QED BY <3>1
    <2>3. CASE DeleteCall(c, p)
      <3> DEFINE y == [op |-> "delete", pod |-> p]
      <3>1. y \in Call /\ y.op = "delete" /\ calls' = [calls EXCEPT ![c] = y]
        BY <2>3 DEF DeleteCall, DeleteRequest, Call
      <3> QED BY <3>1
    <2> QED BY <2>1, <2>2, <2>3
  <1> QED BY <1>1, <1>2, <1>3, ConnectExchange

LEMMA AgainConnects ==
    ASSUME TypeInv, NEW c \in Calls, StatusCallAgain(c)
    PROVE  reqs' \subseteq Request /\ outbox' \subseteq Answer /\ Exchange'
  <1> DEFINE x == [op |-> "status", pod |-> calls[c].pod, at |-> "awaiting",
                   attempt |-> calls[c].attempt + 1]
  <1>1. /\ calls[c].op = "status" /\ calls[c].at = "sleeping" /\ Connects(c)
        /\ calls' = [calls EXCEPT ![c].at = "awaiting", ![c].attempt = @ + 1]
    BY DEF StatusCallAgain, StatusRetry
  <1>2. ~Awaiting(c)
    BY <1>1 DEF Awaiting, Awaits
  <1>3. calls' = [calls EXCEPT ![c] = x]
    BY <1>1, CallFields DEF TypeInv, TypeOK, GatewayTypeOK
  <1>4. x.op = "status" /\ x.at = "awaiting" /\ x \in Call
    BY <1>1, CallFields, GatewayAssumption DEF TypeInv, TypeOK, GatewayTypeOK, Call
  <1> HIDE DEF x
  <1> QED BY <1>1, <1>2, <1>3, <1>4, ConnectExchange

LEMMA MessagesStep ==
    ASSUME TypeInv, [Next]_vars
    PROVE  reqs' \subseteq Request /\ outbox' \subseteq Answer /\ Exchange'
  <1> USE DEF TypeInv, TypeOK
  <1> DEFINE Goal == reqs' \subseteq Request /\ outbox' \subseteq Answer /\ Exchange'
  <1>1. ASSUME UNCHANGED <<calls, unsent, reqs, outbox>>
        PROVE  Goal
    BY <1>1 DEF ProviderTypeOK, Exchange, Awaiting, Awaits
  <1>2. ASSUME NEW m \in reqs, Serve(m), UNCHANGED <<calls, unsent>>
        PROVE  Goal
    BY <1>2, ServeMessages, ServedExchange
  <1>3. ASSUME NEW r \in Responders,
               \/ StartResponder(r) \/ ResyncDone(r) \/ ResyncGivesUp(r) \/ Resync(r),
               UNCHANGED <<calls, unsent>>
        PROVE  Goal
    BY <1>1, <1>3
    DEF StartResponder, ResyncDone, ResyncGivesUp, Resync, ResyncAnswered
  <1>4. ASSUME NEW r \in Responders, Stop(r), UNCHANGED <<calls, unsent>>
        PROVE  Goal
    BY <1>4 DEF Stop, StopResponder, ProviderTypeOK, Exchange, Awaiting, Awaits
  <1>5. CASE ProviderActs
    BY <1>2, <1>3, <1>4, <1>5 DEF ProviderActs, gatewayVars
  <1>6. CASE JobsProgress \/ UNCHANGED vars
    BY <1>1, <1>6 DEF JobsProgress, vars, gatewayVars, providerVars
  <1>7. ASSUME NEW c \in Calls, NEW p \in Pods,
               CreateFailsEarly(c, p) \/ StatusCallCached(c, p)
        PROVE  Goal
    BY <1>1, <1>7
    DEF CreateFailsEarly, StatusCallCached, CreateAborted, StatusCached, providerVars
  <1>8. ASSUME NEW a \in outbox,
               \/ CreateAnswer(a.call, a.reply)
               \/ DeleteAnswer(a.call, a.reply)
               \/ StatusAnswer(a.call, a.reply)
        PROVE  Goal
    BY <1>8, AnswerHandled, ForgetExchange
  <1>9. ASSUME NEW c \in Calls, CallTimesOut(c)
        PROVE  Goal
    <2>1. /\ Forget({c}) /\ unsent' = unsent \ {c}
          /\ \A d \in Calls \ {c} : calls'[d] = calls[d]
      BY <1>9 DEF CallTimesOut, Timeout, End, Lost, GatewayTypeOK
    <2> QED BY <2>1, ForgetExchange
  <1>10. CASE GatewayRestarts
    <2>1. Forget(Calls) /\ unsent' = unsent \ Calls
      BY <1>10 DEF GatewayRestarts, Lost
    <2> QED BY <2>1, ForgetExchange
  <1>11. CASE GatewayActs
    BY <1>7, <1>8, <1>9, <1>10, <1>11, CallConnects, AgainConnects, SendExchange
    DEF GatewayActs
  <1> QED BY <1>5, <1>6, <1>11 DEF Next

------------------------------------------------------------------------------
(* Type correctness *)

LEMMA TypeInvInit == Init => TypeInv
  <1> SUFFICES ASSUME Init PROVE TypeInv
    OBVIOUS
  <1>1. GatewayTypeOK
    BY TypeInit DEF Init
  <1>2. BackendTypeOK /\ ProviderTypeOK
    BY DEF Init, BackendInit, ProviderInit, BackendTypeOK, ProviderTypeOK, JobStates
  <1>3. KubeletTypeOK
    BY LifecycleAssumption DEF Init, KubeletTypeOK
  <1>4. Exchange
    BY DEF Init, ProviderInit, Exchange
  <1> QED BY <1>1, <1>2, <1>3, <1>4 DEF TypeInv, TypeOK

LEMMA RegisterType ==
    ASSUME ProviderTypeOK, NEW r \in Responders, NEW pods \in SUBSET Pods, Register(r, pods)
    PROVE  /\ leaked' \in [Responders -> SUBSET Pods]
           /\ subs' \in [Responders -> SUBSET Pods]
  BY DEF ProviderTypeOK, Register

LEMMA ResponderTypeStep ==
    ASSUME TypeInv, ProviderActs
    PROVE  ProviderTypeOK'
  <1>1. reqs' \subseteq Request /\ outbox' \subseteq Answer
    BY MessagesStep DEF Next
  <1>2. ASSUME NEW m \in reqs, Serve(m)
        PROVE  ProviderTypeOK'
    <2>1. m.to \in Responders /\ m.pod \in Pods
      BY RequestFields DEF TypeInv, TypeOK, ProviderTypeOK
    <2>2. CASE CreateCallback(m)
      BY <1>1, <2>1, <2>2, RegisterType
      DEF TypeInv, TypeOK, ProviderTypeOK, CreateCallback
    <2>3. CASE DeleteUnsubscribe(m)
      BY <1>1, <2>1, <2>3 DEF TypeInv, TypeOK, ProviderTypeOK, DeleteUnsubscribe
    <2>4. CASE UNCHANGED responderVars
      BY <1>1, <2>4 DEF TypeInv, TypeOK, ProviderTypeOK, responderVars
    <2> QED
      BY <1>2, <2>2, <2>3, <2>4
      DEF Serve, CreateSubmitted, CreateRefused, CreateUnanswered, DeleteCallback,
          DeleteRefused, DeleteUnanswered, StatusCallback, StatusRefused, StatusUnanswered
  <1>3. ASSUME NEW r \in Responders, StartResponder(r) \/ ResyncGivesUp(r) \/ Stop(r)
        PROVE  ProviderTypeOK'
    BY <1>1, <1>3
    DEF TypeInv, TypeOK, ProviderTypeOK, StartResponder, ResyncGivesUp, Stop, StopResponder
  <1>4. ASSUME NEW r \in Responders, ResyncDone(r)
        PROVE  ProviderTypeOK'
    <2>1. listing[r] \in SUBSET Pods
      BY DEF TypeInv, TypeOK, ProviderTypeOK
    <2> QED
      BY <1>1, <1>4, <2>1, RegisterType DEF TypeInv, TypeOK, ProviderTypeOK, ResyncDone
  <1>5. ASSUME NEW r \in Responders, Resync(r)
        PROVE  ProviderTypeOK'
    BY <1>1, <1>5
    DEF TypeInv, TypeOK, ProviderTypeOK, Resync, ResyncAnswered, JobsOfPool
  <1> QED BY <1>2, <1>3, <1>4, <1>5 DEF ProviderActs

\* The batch system changes by its own steps and those of the callbacks.
LEMMA BackendChanges ==
    ASSUME TypeInv, [Next]_vars
    PROVE  \/ UNCHANGED backendVars
           \/ \E m \in reqs : m.pod \in Pods /\
                \/ m.op = "create" /\ Submit(m.pod)
                \/ m.op = "delete" /\ DeletePod(m.pod)
           \/ \E p \in Pods : JobProgress(p)
  <1>1. CASE UNCHANGED vars
    BY <1>1 DEF vars, providerVars
  <1>2. CASE JobsProgress
    BY <1>2 DEF JobsProgress
  <1>3. CASE GatewayActs
    BY <1>3
    DEF GatewayActs, CreateCall, CreateFailsEarly, DeleteCall, StatusCallCached,
        StatusCall, CreateAnswer, DeleteAnswer, StatusAnswer, Receive, StatusCallAgain,
        Send, CallTimesOut, GatewayRestarts, Connects, providerVars
  <1>4. ASSUME NEW m \in reqs, Serve(m)
        PROVE  \/ UNCHANGED backendVars
               \/ m.pod \in Pods /\
                    \/ m.op = "create" /\ Submit(m.pod)
                    \/ m.op = "delete" /\ DeletePod(m.pod)
    <2>1. m.pod \in Pods
      BY RequestFields DEF TypeInv, TypeOK, ProviderTypeOK
    <2> QED
      BY <1>4, <2>1
      DEF Serve, CreateCallback, CreateSubmitted, CreateRefused, CreateUnanswered,
          DeleteCallback, DeleteUnsubscribe, DeleteRefused, DeleteUnanswered,
          StatusCallback, StatusRefused, StatusUnanswered, Works, Starts, DeletePod
  <1>5. CASE ProviderActs
    BY <1>4, <1>5
    DEF ProviderActs, StartResponder, ResyncDone, ResyncGivesUp, Resync, ResyncAnswered,
        Stop, StopResponder
  <1> QED BY <1>1, <1>2, <1>3, <1>5 DEF Next

LEMMA BackendTypeStep ==
    ASSUME TypeInv, [Next]_vars
    PROVE  BackendTypeOK'
  <1> USE DEF TypeInv, TypeOK, BackendTypeOK
  <1>1. CASE UNCHANGED backendVars
    BY <1>1 DEF backendVars
  <1>2. ASSUME NEW p \in Pods, Submit(p)
        PROVE  BackendTypeOK'
    BY <1>2 DEF Submit, backendVars, JobStates
  <1>3. ASSUME NEW p \in Pods, Remove(p)
        PROVE  BackendTypeOK'
    BY <1>3 DEF Remove, JobStates
  <1>4. ASSUME NEW p \in Pods, JobProgress(p)
        PROVE  BackendTypeOK'
    BY <1>4 DEF JobProgress, JobStates
  <1>5. ASSUME NEW p \in Pods, Spare(p)
        PROVE  BackendTypeOK'
    <2>1. PICK left \in 1 .. copies[p] : copies' = [copies EXCEPT ![p] = left]
      BY <1>5 DEF Spare
    <2>2. left \in Nat
      OBVIOUS
    <2> QED BY <1>5, <2>1, <2>2 DEF Spare
  <1> QED BY <1>1, <1>2, <1>3, <1>4, <1>5, BackendChanges DEF DeletePod

LEMMA KubeletTypeStep ==
    ASSUME TypeInv, [Next]_vars
    PROVE  KubeletTypeOK'
  <1> USE DEF TypeInv, TypeOK, KubeletTypeOK
  <1>1. ASSUME UNCHANGED <<unsent, kubeletVars, historyVars>>
        PROVE  KubeletTypeOK'
    BY <1>1 DEF kubeletVars, historyVars
  <1>2. CASE JobsProgress \/ UNCHANGED vars
    BY <1>1, <1>2 DEF JobsProgress, vars
  <1>3. ASSUME NEW c \in Calls, NEW p \in Pods,
               \/ CreateCall(c, p) \/ CreateFailsEarly(c, p) \/ DeleteCall(c, p)
               \/ StatusCall(c, p) \/ StatusCallCached(c, p)
        PROVE  KubeletTypeOK'
    <2>1. creates[p] < MaxCreates => creates[p] + 1 \in 0 .. MaxCreates
      BY LifecycleAssumption
    <2> QED
      BY <1>3, <2>1
      DEF CreateCall, CreateFailsEarly, DeleteCall, StatusCall, StatusCallCached,
          MayCreate, MayDelete, Connects, kubeletVars, historyVars
  <1>4. ASSUME NEW c \in Calls, StatusCallAgain(c) \/ Send(c)
        PROVE  KubeletTypeOK'
    BY <1>4 DEF StatusCallAgain, Send, Connects, kubeletVars, historyVars
  <1>5. ASSUME NEW a \in outbox,
               \/ CreateAnswer(a.call, a.reply)
               \/ DeleteAnswer(a.call, a.reply)
               \/ StatusAnswer(a.call, a.reply)
        PROVE  KubeletTypeOK'
    BY <1>5
    DEF CreateAnswer, DeleteAnswer, StatusAnswer, Acknowledged, Receive, historyVars
  <1>6. ASSUME NEW c \in Calls, CallTimesOut(c)
        PROVE  KubeletTypeOK'
    BY <1>6 DEF CallTimesOut, Lost, historyVars
  <1>7. CASE GatewayRestarts
    BY <1>7 DEF GatewayRestarts, Lost, historyVars
  <1>8. ASSUME NEW r \in Responders, Resync(r), UNCHANGED <<unsent, kubeletVars>>
        PROVE  KubeletTypeOK'
    BY <1>8 DEF Resync, JobsOfPool, kubeletVars
  <1>9. ASSUME NEW r \in Responders, Stop(r), UNCHANGED <<unsent, kubeletVars>>
        PROVE  KubeletTypeOK'
    <2>1. stops' \in 0 .. MaxStops
      BY <1>9, LifecycleAssumption DEF Stop
    <2> QED BY <1>9, <2>1 DEF Stop, kubeletVars
  <1>10. CASE GatewayActs
    BY <1>3, <1>4, <1>5, <1>6, <1>7, <1>10 DEF GatewayActs
  <1>11. CASE ProviderActs
    BY <1>1, <1>8, <1>9, <1>11 DEF ProviderActs
  <1> QED BY <1>2, <1>10, <1>11 DEF Next

LEMMA TypeInvStep ==
    ASSUME TypeInv, [Next]_vars
    PROVE  TypeInv'
  <1>1. GatewayTypeOK'
    BY GatewayStays, TypeStep DEF TypeInv, TypeOK
  <1>2. ProviderTypeOK'
    <2>1. reqs' \subseteq Request /\ outbox' \subseteq Answer
      BY MessagesStep
    <2>2. CASE UNCHANGED responderVars
      BY <2>1, <2>2 DEF TypeInv, TypeOK, ProviderTypeOK, responderVars
    <2>3. CASE ProviderActs
      BY <2>3, ResponderTypeStep
    <2>4. CASE GatewayActs
      BY <2>2, <2>4
      DEF GatewayActs, CreateCall, CreateFailsEarly, DeleteCall, StatusCallCached,
          StatusCall, CreateAnswer, DeleteAnswer, StatusAnswer, Receive, StatusCallAgain,
          Send, CallTimesOut, GatewayRestarts, Connects, providerVars
    <2>5. CASE JobsProgress \/ UNCHANGED vars
      BY <2>2, <2>5 DEF JobsProgress, vars, providerVars
    <2> QED BY <2>3, <2>4, <2>5 DEF Next
  <1> QED BY <1>1, <1>2, BackendTypeStep, KubeletTypeStep, MessagesStep DEF TypeInv, TypeOK

LEMMA TypeInvCorrect == Spec => []TypeInv
  BY TypeInvInit, TypeInvStep, PTL DEF Spec

\* Every variable of the composed system holds values of its kind.
THEOREM LifecycleTypeCorrect == Spec => []TypeOK
  <1>1. TypeInv => TypeOK
    BY DEF TypeInv
  <1> QED BY <1>1, TypeInvCorrect, PTL

\* The gateway of the composed system is the gateway of NatsGateway, so that
\* whatever holds of it in front of arbitrary providers holds here: a cached
\* result stands, and a deleted pod is not listed to a provider that resyncs.
THEOREM GatewayImplemented == Spec => GatewaySpec
  <1>1. Init => GatewayInit
    BY DEF Init
  <1>2. TypeInv /\ [Next]_vars => [GatewayNext]_gatewayVars
    BY GatewayStays
  <1> QED BY <1>1, <1>2, TypeInvCorrect, PTL DEF Spec, GatewaySpec

------------------------------------------------------------------------------
(* Jobs are listed *)

Attends(c) == calls[c].op \in {"create", "delete"}

\* The kubelet works on a pod one call at a time, and knows what it does.
KubeletInv ==
    /\ \A c \in Calls : Attends(c) => c \in Workers
    /\ \A c \in Calls : calls[c].op = "create" => vk[calls[c].pod] = "creating"
    /\ \A c \in Calls : calls[c].op = "delete" => vk[calls[c].pod] = "deleting"
    /\ \A c, d \in Calls :
            Attends(c) /\ Attends(d) /\ calls[c].pod = calls[d].pod => c = d

LEMMA KubeletInvInit == Init => KubeletInv
  BY DEF Init, GatewayInit, Idle, KubeletInv, Attends

\* A call that ends, and what the kubelet learns of its pod, disturb no other.
LEMMA KubeletInvEnd ==
    ASSUME TypeInv, KubeletInv, NEW c \in Calls, NEW x,
           calls' = [calls EXCEPT ![c] = Idle],
           vk' = vk \/ (Attends(c) /\ vk' = [vk EXCEPT ![calls[c].pod] = x])
    PROVE  KubeletInv'
  <1>1. \A d \in Calls : Attends(d)' => d # c /\ calls'[d] = calls[d] /\ Attends(d)
    BY DEF TypeInv, TypeOK, GatewayTypeOK, Attends, Idle
  <1>2. \A d \in Calls : Attends(d)' => vk'[calls[d].pod] = vk[calls[d].pod]
    <2> SUFFICES ASSUME NEW d \in Calls, Attends(d)'
                 PROVE  vk'[calls[d].pod] = vk[calls[d].pod]
      OBVIOUS
    <2>1. Attends(c) => calls[d].pod # calls[c].pod
      BY <1>1 DEF KubeletInv
    <2>2. calls[d].pod \in Pods
      BY <1>1, CallFields DEF TypeInv, TypeOK, GatewayTypeOK, Attends
    <2> QED BY <2>1, <2>2 DEF TypeInv, TypeOK, KubeletTypeOK
  <1> QED BY <1>1, <1>2 DEF KubeletInv, Attends

LEMMA KubeletInvStart ==
    ASSUME TypeInv, KubeletInv, NEW c \in Calls, NEW p \in Pods,
           \/ CreateCall(c, p) \/ CreateFailsEarly(c, p) \/ DeleteCall(c, p)
    PROVE  KubeletInv'
  <1>1. \A d \in Calls : Attends(d) => calls[d].pod \in Pods \ {p}
    <2> SUFFICES ASSUME NEW d \in Calls, Attends(d)
                 PROVE  calls[d].pod \in Pods \ {p}
      OBVIOUS
    <2>1. d \in Workers /\ calls[d] # Idle
      BY DEF KubeletInv, Attends, Idle
    <2>2. calls[d].pod # p
      BY <2>1
      DEF CreateCall, CreateFailsEarly, DeleteCall, MayCreate, MayDelete, Unattended
    <2> QED BY <2>2, CallFields DEF TypeInv, TypeOK, GatewayTypeOK, Attends
  <1>2. CASE CreateCall(c, p)
    <2>1. /\ c \in Workers
          /\ calls' = [calls EXCEPT ![c] = [op |-> "create", pod |-> p]]
          /\ vk' = [vk EXCEPT ![p] = "creating"]
      BY <1>2 DEF CreateCall, MayCreate, CreateRequest
    <2> QED
      BY <1>1, <2>1 DEF KubeletInv, Attends, TypeInv, TypeOK, GatewayTypeOK, KubeletTypeOK
  <1>3. CASE DeleteCall(c, p)
    <2>1. /\ c \in Workers
          /\ calls' = [calls EXCEPT ![c] = [op |-> "delete", pod |-> p]]
          /\ vk' = [vk EXCEPT ![p] = "deleting"]
      BY <1>3 DEF DeleteCall, MayDelete, DeleteRequest
    <2> QED
      BY <1>1, <2>1 DEF KubeletInv, Attends, TypeInv, TypeOK, GatewayTypeOK, KubeletTypeOK
  <1>4. CASE CreateFailsEarly(c, p)
    <2>1. calls' = calls /\ vk' = [vk EXCEPT ![p] = "creating"]
      BY <1>4 DEF CreateFailsEarly, MayCreate, CreateAborted
    <2> QED
      BY <1>1, <2>1 DEF KubeletInv, Attends, TypeInv, TypeOK, KubeletTypeOK
  <1> QED BY <1>2, <1>3, <1>4

\* A step of a poll that keeps it a poll, or starts one.
LEMMA KubeletInvPoll ==
    ASSUME TypeInv, KubeletInv, NEW c \in Calls, vk' = vk,
           \A d \in Calls \ {c} : calls'[d] = calls[d],
           calls'[c].op = "status"
    PROVE  KubeletInv'
  BY DEF KubeletInv, Attends

LEMMA KubeletInvStep ==
    ASSUME TypeInv, KubeletInv, [Next]_vars
    PROVE  KubeletInv'
  <1>1. ASSUME UNCHANGED <<calls, vk>>
        PROVE  KubeletInv'
    BY <1>1 DEF KubeletInv, Attends
  <1>2. CASE ProviderActs \/ JobsProgress \/ UNCHANGED vars
    BY <1>1, <1>2 DEF ProviderActs, JobsProgress, vars, gatewayVars, kubeletVars
  <1>3. ASSUME NEW c \in Calls, NEW p \in Pods,
               StatusCallCached(c, p) \/ StatusCall(c, p)
        PROVE  KubeletInv'
    <2>1. CASE StatusCallCached(c, p)
      BY <1>1, <2>1 DEF StatusCallCached, StatusCached, kubeletVars
    <2>2. CASE StatusCall(c, p)
      BY <2>2, KubeletInvPoll
      DEF StatusCall, StatusRequest, kubeletVars, TypeInv, TypeOK, GatewayTypeOK
    <2> QED BY <1>3, <2>1, <2>2
  <1>4. ASSUME NEW c \in Calls, StatusCallAgain(c)
        PROVE  KubeletInv'
    <2>1. /\ vk' = vk
          /\ \A d \in Calls \ {c} : calls'[d] = calls[d]
          /\ calls'[c].op = "status"
      BY <1>4, CallFields
      DEF StatusCallAgain, StatusRetry, kubeletVars, TypeInv, TypeOK, GatewayTypeOK
    <2> QED BY <2>1, KubeletInvPoll
  <1>5. ASSUME NEW c \in Calls, Send(c)
        PROVE  KubeletInv'
    BY <1>1, <1>5 DEF Send, gatewayVars, kubeletVars
  <1>6. ASSUME NEW c \in Calls, CallTimesOut(c)
        PROVE  KubeletInv'
    BY <1>6, KubeletInvEnd DEF CallTimesOut, Timeout, End
  <1>7. ASSUME NEW a \in outbox, CreateAnswer(a.call, a.reply)
        PROVE  KubeletInv'
    BY <1>7, AnswerHandled, KubeletInvEnd
    DEF CreateAnswer, CreateReply, End, Acknowledged, Attends
  <1>8. ASSUME NEW a \in outbox, DeleteAnswer(a.call, a.reply)
        PROVE  KubeletInv'
    BY <1>8, AnswerHandled, KubeletInvEnd
    DEF DeleteAnswer, DeleteReply, End, Acknowledged, Attends
  <1>9. ASSUME NEW a \in outbox, StatusAnswer(a.call, a.reply)
        PROVE  KubeletInv'
    <2> DEFINE c == a.call
    <2>1. c \in Calls /\ vk' = vk
      BY <1>9, AnswerHandled DEF StatusAnswer
    <2>2. CASE StatusUnknown(c, a.reply)
      <3>1. calls'[c].op = "status"
        BY <2>1, <2>2, CallFields
        DEF StatusUnknown, Awaits, TypeInv, TypeOK, GatewayTypeOK
      <3> QED BY <1>9, <2>1, <3>1, AnswerHandled, KubeletInvPoll
    <2>3. CASE \/ StatusFailed(c, a.reply) \/ StatusUnreadable(c, a.reply)
               \/ StatusReply(c, a.reply)
      BY <2>1, <2>3, KubeletInvEnd DEF StatusFailed, StatusUnreadable, StatusReply, End
    <2> QED BY <1>9, <2>2, <2>3 DEF StatusAnswer
  <1>10. CASE GatewayRestarts
    BY <1>10 DEF GatewayRestarts, GatewayRestart, KubeletInv, Attends, Idle
  <1>11. CASE GatewayActs
    BY <1>3, <1>4, <1>5, <1>6, <1>7, <1>8, <1>9, <1>10, <1>11, KubeletInvStart
    DEF GatewayActs
  <1> QED BY <1>2, <1>11 DEF Next

\* Where the requests under way come from.
LEMMA RequestSources ==
    ASSUME TypeInv, [Next]_vars, NEW n \in reqs'
    PROVE  \/ \E m \in reqs : n.op = m.op /\ n.pod = m.pod
           \/ \E c \in Calls : n.op = calls[c].op /\ n.pod = calls[c].pod
  <1> DEFINE Goal ==
        \/ \E m \in reqs : n.op = m.op /\ n.pod = m.pod
        \/ \E c \in Calls : n.op = calls[c].op /\ n.pod = calls[c].pod
  <1>1. reqs \subseteq Request
    BY DEF TypeInv, TypeOK, ProviderTypeOK
  <1>2. CASE reqs' \subseteq reqs
    BY <1>2
  <1>3. ASSUME NEW S, Forget(S)
        PROVE  Goal
    <2>1. PICK m \in reqs : n = IF m.call \in S THEN [m EXCEPT !.call = NoCall] ELSE m
      BY <1>3 DEF Forget
    <2>2. n.op = m.op /\ n.pod = m.pod
      BY <1>1, <2>1, RequestFields
    <2> QED BY <2>2
  <1>4. ASSUME NEW m \in reqs, Serve(m)
        PROVE  Goal
    <2>1. reqs' \subseteq reqs \cup {[m EXCEPT !.at = "working"]}
      BY <1>4, ServeMessages DEF ServedOnly
    <2>2. [m EXCEPT !.at = "working"].op = m.op /\ [m EXCEPT !.at = "working"].pod = m.pod
      BY <1>1, RequestFields
    <2> QED BY <2>1, <2>2
  <1>5. ASSUME NEW c \in Calls, Send(c)
        PROVE  Goal
    BY <1>5 DEF Send, Publish
  <1>6. CASE ProviderActs
    <2>1. ASSUME NEW r \in Responders,
                 \/ StartResponder(r) \/ ResyncDone(r) \/ ResyncGivesUp(r)
                 \/ Resync(r) \/ Stop(r)
          PROVE  reqs' \subseteq reqs
      BY <2>1
      DEF StartResponder, ResyncDone, ResyncGivesUp, Resync, ResyncAnswered, Stop,
          StopResponder
    <2> QED BY <1>2, <1>4, <1>6, <2>1 DEF ProviderActs
  <1>7. CASE JobsProgress \/ UNCHANGED vars
    BY <1>2, <1>7 DEF JobsProgress, vars, providerVars
  <1>8. CASE GatewayActs
    BY <1>2, <1>3, <1>5, <1>8
    DEF GatewayActs, CreateCall, CreateFailsEarly, DeleteCall, StatusCallCached,
        StatusCall, CreateAnswer, DeleteAnswer, StatusAnswer, Receive, StatusCallAgain,
        CallTimesOut, GatewayRestarts, Connects, providerVars
  <1> QED BY <1>6, <1>7, <1>8 DEF Next

\* A new create call finds its pod's pool in redis.
LEMMA CreateSources ==
    ASSUME TypeInv, [Next]_vars, NEW c \in Calls, calls'[c].op = "create"
    PROVE  \/ calls[c].op = "create" /\ calls[c].pod = calls'[c].pod
           \/ UseRedis => podPool'[calls'[c].pod] = PoolOf[calls'[c].pod]
  <1> DEFINE Goal ==
        \/ calls[c].op = "create" /\ calls[c].pod = calls'[c].pod
        \/ UseRedis => podPool'[calls'[c].pod] = PoolOf[calls'[c].pod]
  <1> USE DEF TypeInv, TypeOK, GatewayTypeOK
  <1>1. CASE UNCHANGED gatewayVars
    BY <1>1 DEF gatewayVars
  <1>2. CASE GatewayRestart
    BY <1>2 DEF GatewayRestart, Idle
  <1>3. ASSUME NEW d \in Calls, NEW p \in Pods, CreateRequest(d, p)
        PROVE  Goal
    BY <1>3 DEF CreateRequest, HSet
  <1>4. ASSUME NEW d \in Calls, NEW p \in Pods,
               \/ CreateAborted(d, p) \/ DeleteRequest(d, p)
               \/ StatusCached(d, p) \/ StatusRequest(d, p)
        PROVE  Goal
    BY <1>4 DEF CreateAborted, DeleteRequest, StatusCached, StatusRequest
  <1>5. ASSUME NEW d \in Calls, NEW reply,
               \/ Timeout(d) \/ CreateReply(d, reply) \/ DeleteReply(d, reply)
               \/ StatusFailed(d, reply) \/ StatusUnreadable(d, reply)
               \/ StatusReply(d, reply)
        PROVE  Goal
    BY <1>5
    DEF Timeout, CreateReply, DeleteReply, StatusFailed, StatusUnreadable, StatusReply,
        End, Idle
  <1>6. ASSUME NEW d \in Calls, NEW reply, StatusRetry(d) \/ StatusUnknown(d, reply)
        PROVE  Goal
    <2>1. calls[d].op = "status" /\ calls'[d].op = calls[d].op
          /\ \A e \in Calls \ {d} : calls'[e] = calls[e]
      BY <1>6, CallFields DEF StatusRetry, StatusUnknown, Awaits
    <2> QED BY <2>1
  <1> QED
    BY <1>1, <1>2, <1>3, <1>4, <1>5, <1>6, GatewayStays DEF GatewayNext, GatewayStep

Assigned(p) == podPool[p] = PoolOf[p] \/ vk[p] = "deleted"

Wanted(p) ==
    \/ job[p] # "none" \/ Creating(p)
    \/ \E c \in Calls : calls[c].op = "create" /\ calls[c].pod = p

ListedInv == UseRedis => \A p \in Pods : Wanted(p) => Assigned(p)

LEMMA WantedSources ==
    ASSUME UseRedis, TypeInv, [Next]_vars, NEW p \in Pods, Wanted(p)'
    PROVE  Wanted(p) \/ podPool'[p] = PoolOf[p]
  <1>1. CASE job'[p] # "none"
    <2>1. CASE UNCHANGED backendVars
      BY <1>1, <2>1 DEF backendVars, Wanted
    <2>2. ASSUME NEW m \in reqs, m.pod \in Pods, m.op = "create", Submit(m.pod)
          PROVE  Wanted(p)
      BY <1>1, <2>2
      DEF Submit, backendVars, Wanted, Creating, TypeInv, TypeOK, BackendTypeOK
    <2>3. ASSUME NEW q \in Pods, DeletePod(q) \/ JobProgress(q)
          PROVE  Wanted(p)
      BY <1>1, <2>3
      DEF DeletePod, Remove, Spare, JobProgress, Wanted, TypeInv, TypeOK, BackendTypeOK
    <2> QED BY <2>1, <2>2, <2>3, BackendChanges
  <1>2. CASE Creating(p)'
    <2>1. PICK n \in reqs' : n.op = "create" /\ n.pod = p
      BY <1>2 DEF Creating
    <2> QED BY <2>1, RequestSources DEF Wanted, Creating
  <1>3. ASSUME NEW c \in Calls, calls'[c].op = "create", calls'[c].pod = p
        PROVE  Wanted(p) \/ podPool'[p] = PoolOf[p]
    BY <1>3, CreateSources DEF Wanted
  <1> QED BY <1>1, <1>2, <1>3 DEF Wanted

\* Only the acknowledged delete takes a pod out of pod:pool, and what the
\* kubelet has deleted stays deleted.
LEMMA AssignedStays ==
    ASSUME UseRedis, TypeInv, KubeletInv, [Next]_vars, NEW p \in Pods, Assigned(p)
    PROVE  Assigned(p)'
  <1> USE DEF TypeInv, TypeOK, GatewayTypeOK, KubeletTypeOK
  <1>1. CASE UNCHANGED <<podPool, vk>>
    BY <1>1 DEF Assigned
  <1>2. ASSUME NEW c \in Calls, NEW q \in Pods,
               CreateCall(c, q) \/ CreateFailsEarly(c, q) \/ DeleteCall(c, q)
        PROVE  Assigned(p)'
    BY <1>2
    DEF CreateCall, CreateFailsEarly, DeleteCall, MayCreate, MayDelete, CreateRequest,
        CreateAborted, DeleteRequest, HSet, Assigned
  <1>3. ASSUME NEW a \in outbox, CreateAnswer(a.call, a.reply)
        PROVE  Assigned(p)'
    <2>1. vk[calls[a.call].pod] = "creating" /\ podPool' = podPool
      BY <1>3, AnswerHandled DEF CreateAnswer, CreateReply, KubeletInv
    <2>2. vk' = vk \/ vk' = [vk EXCEPT ![calls[a.call].pod] = "created"]
      BY <1>3 DEF CreateAnswer, Acknowledged
    <2> QED BY <2>1, <2>2 DEF Assigned
  <1>4. ASSUME NEW a \in outbox, DeleteAnswer(a.call, a.reply)
        PROVE  Assigned(p)'
    <2>1. calls[a.call].pod \in Pods
      BY <1>4, AnswerHandled, CallFields DEF DeleteAnswer, DeleteReply
    <2>2. CASE a.reply.kind = "ok"
      <3>1. /\ podPool' = [podPool EXCEPT ![calls[a.call].pod] = None]
            /\ vk' = [vk EXCEPT ![calls[a.call].pod] = "deleted"]
        BY <1>4, <2>2 DEF DeleteAnswer, DeleteReply, Acknowledged, HSet
      <3> QED BY <2>1, <3>1 DEF Assigned
    <2>3. CASE a.reply.kind # "ok"
      BY <1>1, <1>4, <2>3 DEF DeleteAnswer, DeleteReply, Acknowledged, redisVars
    <2> QED BY <2>2, <2>3
  <1>5. ASSUME NEW a \in outbox, StatusAnswer(a.call, a.reply)
        PROVE  Assigned(p)'
    BY <1>1, <1>5
    DEF StatusAnswer, StatusUnknown, StatusFailed, StatusUnreadable, StatusReply, redisVars
  <1>6. CASE ProviderActs \/ JobsProgress \/ UNCHANGED vars
    BY <1>1, <1>6 DEF ProviderActs, JobsProgress, vars, gatewayVars, kubeletVars
  <1>7. ASSUME NEW c \in Calls, NEW q \in Pods,
               \/ StatusCallCached(c, q) \/ StatusCall(c, q) \/ StatusCallAgain(c)
               \/ Send(c) \/ CallTimesOut(c)
        PROVE  Assigned(p)'
    BY <1>1, <1>7
    DEF StatusCallCached, StatusCached, StatusCall, StatusRequest, StatusCallAgain,
        StatusRetry, Send, CallTimesOut, Timeout, redisVars, gatewayVars, kubeletVars
  <1>8. CASE GatewayRestarts
    BY <1>1, <1>8 DEF GatewayRestarts, GatewayRestart, redisVars
  <1>9. CASE GatewayActs
    BY <1>2, <1>3, <1>4, <1>5, <1>7, <1>8, <1>9 DEF GatewayActs
  <1> QED BY <1>6, <1>9 DEF Next

LEMMA ListedInvInit == Init => ListedInv
  BY DEF Init, GatewayInit, ProviderInit, BackendInit, Idle, ListedInv, Wanted, Creating

LEMMA ListedInvStep ==
    ASSUME TypeInv, KubeletInv, ListedInv, [Next]_vars
    PROVE  ListedInv'
  <1> SUFFICES ASSUME UseRedis, NEW p \in Pods, Wanted(p)'
               PROVE  Assigned(p)'
    BY DEF ListedInv
  <1>1. CASE Wanted(p)
    BY <1>1, AssignedStays DEF ListedInv
  <1>2. CASE podPool'[p] = PoolOf[p]
    BY <1>2 DEF Assigned
  <1> QED BY <1>1, <1>2, WantedSources

\* A job, or a request that may become one, belongs to a pod that redis assigns
\* to its pool until the kubelet is told it is deleted: so a provider that
\* restarts at any moment is told of every job it has.
THEOREM JobsAreListedCorrect == Spec => []JobsAreListed
  <1>1. Init => TypeInv /\ KubeletInv /\ ListedInv
    BY TypeInvInit, KubeletInvInit, ListedInvInit
  <1>2. TypeInv /\ KubeletInv /\ ListedInv /\ [Next]_vars
            => TypeInv' /\ KubeletInv' /\ ListedInv'
    BY TypeInvStep, KubeletInvStep, ListedInvStep
  <1>3. ListedInv => JobsAreListed
    BY DEF ListedInv, Wanted, Assigned, JobsAreListed
  <1> QED BY <1>1, <1>2, <1>3, PTL DEF Spec

------------------------------------------------------------------------------
(* The contract is kept *)

\* Results stand, until the kubelet has deleted the pod; and what is reported,
\* or on its way to be, is the outcome of a job that did end.  (Of logs that
\* cannot be read nothing is reported.)
ToldInv ==
    \A p \in Pods : told[p] \in Results => podCache[p] = told[p] \/ vk[p] = "deleted"

TruthInv ==
    /\ \A p \in Pods : job[p] \in Outcomes => job[p] \in ranTo[p]
    /\ \A a \in outbox : a.reply.kind = "status" /\ a.reply.status.logs # "garbled" =>
            Report(a.reply.status) \in Contract!Reportable(calls[a.call].pod)

\* A terminal status, and no other, is reported as a result.
LEMMA ReportOfTerminal ==
    ASSUME NEW status \in JobStatus
    PROVE  /\ Report(status) \in Results <=> Terminal(status)
           /\ Report(status) \notin Results =>
                Report(status) \in {"waiting", "running", "missing"}
  BY DEF JobStatus, Report, Results, Terminal, Logs

\* What the batch system says of a pod may be reported, corrected or not.
LEMMA ObserveTruth ==
    ASSUME TypeInv, TruthInv, NEW p \in Pods, NEW status \in Observe(p), NEW r,
           status.logs # "garbled"
    PROVE  Report(Corrected(r, p, status)) \in Contract!Reportable(p)
  <1>1. /\ job[p] \in Outcomes => job[p] \in ranTo[p]
        /\ Outcomes = {"good", "bad", "garbled"}
    BY DEF TruthInv, Outcomes
  <1>2. CASE status.phase \notin {"pending", "running", "unknown"}
    <2>0. status \in Current(p)
      BY <1>2 DEF Observe, Unknown, Unended
    <2>1. /\ job[p] \in Outcomes
          /\ \/ status = [phase |-> "succeeded", logs |-> job[p]]
             \/ status = [phase |-> "failed", logs |-> "empty"]
      BY <1>2, <2>0 DEF Current, Outcomes
    <2>2. Corrected(r, p, status) = status
      BY <2>1 DEF Corrected
    <2>3. \/ Report(status) = "completed" /\ job[p] = "good"
          \/ Report(status) = "failed" /\ job[p] = "bad"
          \/ Report(status) = "lost"
      BY <1>1, <2>1 DEF Report, Terminal
    <2> QED BY <1>1, <2>1, <2>2, <2>3 DEF Contract!Reportable
  <1>3. CASE status.phase \in {"pending", "running", "unknown"}
    <2>2. Corrected(r, p, status).phase \in {"pending", "running", "unknown"}
      <3>1. status \in JobStatus
        BY ObserveType DEF TypeInv, TypeOK
      <3>2. status.phase = "unknown" => [status EXCEPT !.phase = "pending"].phase = "pending"
        BY <3>1 DEF JobStatus
      <3> QED BY <1>3, <3>2 DEF Corrected
    <2>3. Report(Corrected(r, p, status)) \in {"waiting", "running", "missing"}
      BY <2>2 DEF Report, Terminal
    <2> QED BY <2>3 DEF Contract!Reportable
  <1> QED BY <1>2, <1>3

\* Outcomes are never taken back, so what may be reported still may be later.
LEMMA ReportableGrows ==
    ASSUME TypeInv, [Next]_vars, NEW p \in Pods
    PROVE  /\ ranTo[p] \subseteq ranTo'[p]
           /\ Contract!Reportable(p) \subseteq Contract!Reportable(p)'
  <1>1. ranTo[p] \subseteq ranTo'[p]
    BY BackendChanges
    DEF backendVars, Submit, DeletePod, Remove, Spare, JobProgress, TypeInv, TypeOK,
        BackendTypeOK
  <1> QED BY <1>1 DEF Contract!Reportable

\* The end of a job is recorded with it.
LEMMA OutcomesStep ==
    ASSUME TypeInv, TruthInv, [Next]_vars
    PROVE  \A p \in Pods : job'[p] \in Outcomes => job'[p] \in ranTo'[p]
  <1> USE DEF TypeInv, TypeOK, BackendTypeOK, TruthInv
  <1>1. CASE UNCHANGED backendVars
    BY <1>1 DEF backendVars
  <1>2. ASSUME NEW q \in Pods, Submit(q) \/ DeletePod(q)
        PROVE  \A p \in Pods : job'[p] \in Outcomes => job'[p] \in ranTo'[p]
    BY <1>2 DEF Submit, DeletePod, Remove, Spare, backendVars, Outcomes
  <1>3. ASSUME NEW q \in Pods, JobProgress(q)
        PROVE  \A p \in Pods : job'[p] \in Outcomes => job'[p] \in ranTo'[p]
    BY <1>3 DEF JobProgress, Outcomes
  <1> QED BY <1>1, <1>2, <1>3, BackendChanges

\* A status answer under way was there before, for the same call, or has just
\* been made from what the batch system says.
LEMMA AnswerSources ==
    ASSUME TypeInv, [Next]_vars, NEW a \in outbox', a.reply.kind = "status"
    PROVE  \/ a \in outbox
           \/ \E m \in reqs : m.call # NoCall /\ \E status \in Observe(m.pod) :
                a = [call |-> m.call, reply |->
                        [kind |-> "status", status |-> Corrected(m.to, m.pod, status)]]
  <1> DEFINE Goal ==
        \/ a \in outbox
        \/ \E m \in reqs : m.call # NoCall /\ \E status \in Observe(m.pod) :
                a = [call |-> m.call, reply |->
                        [kind |-> "status", status |-> Corrected(m.to, m.pod, status)]]
  <1>1. CASE outbox' \subseteq outbox
    BY <1>1
  <1>2. ASSUME NEW m \in reqs, Serve(m)
        PROVE  Goal
    <2>1. ASSUME NEW status \in Observe(m.pod), StatusCallback(m, status)
          PROVE  Goal
      BY <2>1 DEF StatusCallback, Respond
    <2>2. CASE Respond(m, [kind |-> "ok"]) \/ Respond(m, [kind |-> "error"])
      BY <2>2 DEF Respond
    <2>3. CASE outbox' = outbox
      BY <2>3
    <2> QED
      BY <1>2, <2>1, <2>2, <2>3
      DEF Serve, CreateCallback, CreateSubmitted, CreateRefused, CreateUnanswered,
          DeleteCallback, DeleteUnsubscribe, DeleteRefused, DeleteUnanswered,
          StatusRefused, StatusUnanswered
  <1>3. ASSUME NEW c \in Calls, Send(c)
        PROVE  Goal
    BY <1>3 DEF Send, Publish
  <1>4. ASSUME NEW S, Forget(S)
        PROVE  Goal
    BY <1>4 DEF Forget
  <1>5. CASE ProviderActs
    BY <1>1, <1>2, <1>5
    DEF ProviderActs, StartResponder, ResyncDone, ResyncGivesUp, Resync, ResyncAnswered,
        Stop, StopResponder
  <1>6. CASE JobsProgress \/ UNCHANGED vars
    BY <1>1, <1>6 DEF JobsProgress, vars, providerVars
  <1>7. CASE GatewayActs
    BY <1>1, <1>3, <1>4, <1>7
    DEF GatewayActs, CreateCall, CreateFailsEarly, DeleteCall, StatusCallCached,
        StatusCall, CreateAnswer, DeleteAnswer, StatusAnswer, Receive, StatusCallAgain,
        CallTimesOut, GatewayRestarts, Connects, providerVars
  <1> QED BY <1>5, <1>6, <1>7 DEF Next

\* Calls stay as they are while an answer is made.
LEMMA NewAnswers ==
    ASSUME TypeInv, [Next]_vars, NEW a \in outbox', a \notin outbox
    PROVE  calls' = calls
  <1>1. CASE ProviderActs \/ JobsProgress \/ UNCHANGED vars
    BY <1>1 DEF ProviderActs, JobsProgress, vars, gatewayVars
  <1>2. ASSUME NEW c \in Calls, Send(c)
        PROVE  calls' = calls
    BY <1>2 DEF Send, gatewayVars
  <1>3. CASE GatewayActs
    BY <1>2, <1>3
    DEF GatewayActs, CreateCall, CreateFailsEarly, DeleteCall, StatusCallCached,
        StatusCall, CreateAnswer, DeleteAnswer, StatusAnswer, Receive, StatusCallAgain,
        CallTimesOut, GatewayRestarts, Connects, providerVars, Forget
  <1> QED BY <1>1, <1>3 DEF Next

\* A call with an answer under way before and after a step is the same call.
LEMMA AnsweredCallStays ==
    ASSUME TypeInv, [Next]_vars, NEW a \in outbox, a \in outbox'
    PROVE  calls'[a.call].pod = calls[a.call].pod
  <1> DEFINE Goal == calls'[a.call].pod = calls[a.call].pod
  <1>1. a.call \in Calls /\ Awaiting(a.call)
    BY AnswerFields DEF TypeInv, TypeOK, ProviderTypeOK, Exchange
  <1>2. calls[a.call] # Idle
    BY <1>1 DEF Awaiting, Awaits, Idle
  <1>3. CASE calls' = calls
    BY <1>3
  <1>4. ASSUME NEW c \in Calls, c # a.call, \A d \in Calls \ {c} : calls'[d] = calls[d]
        PROVE  Goal
    BY <1>1, <1>4
  <1>5. ASSUME NEW c \in Calls, NEW p \in Pods,
               \/ CreateCall(c, p) \/ CreateFailsEarly(c, p) \/ DeleteCall(c, p)
               \/ StatusCall(c, p) \/ StatusCallCached(c, p)
        PROVE  Goal
    BY <1>2, <1>3, <1>4, <1>5
    DEF CreateCall, CreateFailsEarly, DeleteCall, StatusCall, StatusCallCached,
        CreateRequest, CreateAborted, DeleteRequest, StatusRequest, StatusCached,
        TypeInv, TypeOK, GatewayTypeOK
  <1>6. ASSUME NEW c \in Calls, StatusCallAgain(c)
        PROVE  Goal
    <2>1. c # a.call
      BY <1>1, <1>6 DEF StatusCallAgain, StatusRetry, Awaiting, Awaits
    <2> QED
      BY <1>4, <1>6, <2>1 DEF StatusCallAgain, StatusRetry, TypeInv, TypeOK, GatewayTypeOK
  <1>7. ASSUME NEW b \in outbox,
               \/ CreateAnswer(b.call, b.reply)
               \/ DeleteAnswer(b.call, b.reply)
               \/ StatusAnswer(b.call, b.reply)
        PROVE  Goal
    <2>1. Forget({b.call}) /\ b.call \in Calls
          /\ \A d \in Calls \ {b.call} : calls'[d] = calls[d]
      BY <1>7, AnswerHandled
    <2>2. b.call # a.call
      BY <2>1 DEF Forget
    <2> QED BY <1>4, <2>1, <2>2
  <1>8. ASSUME NEW c \in Calls, CallTimesOut(c)
        PROVE  Goal
    <2>1. c # a.call
      BY <1>8 DEF CallTimesOut, Forget
    <2> QED
      BY <1>4, <1>8, <2>1 DEF CallTimesOut, Timeout, End, TypeInv, TypeOK, GatewayTypeOK
  <1>9. ~GatewayRestarts
    BY <1>1 DEF GatewayRestarts, Forget
  <1>10. ASSUME NEW c \in Calls, Send(c)
         PROVE  Goal
    BY <1>3, <1>10 DEF Send, gatewayVars
  <1>11. CASE GatewayActs
    BY <1>5, <1>6, <1>7, <1>8, <1>9, <1>10, <1>11 DEF GatewayActs
  <1>12. CASE ProviderActs \/ JobsProgress \/ UNCHANGED vars
    BY <1>3, <1>12 DEF ProviderActs, JobsProgress, vars, gatewayVars
  <1> QED BY <1>11, <1>12 DEF Next

LEMMA TruthInvInit == Init => TruthInv
  BY DEF Init, BackendInit, ProviderInit, TruthInv, Outcomes

LEMMA TruthInvStep ==
    ASSUME TypeInv, TruthInv, [Next]_vars
    PROVE  TruthInv'
  <1> SUFFICES ASSUME NEW a \in outbox', a.reply.kind = "status",
                      a.reply.status.logs # "garbled"
               PROVE  Report(a.reply.status) \in Contract!Reportable(calls[a.call].pod)'
    BY OutcomesStep DEF TruthInv
  <1>1. CASE a \in outbox
    <2>1. calls'[a.call].pod = calls[a.call].pod /\ calls[a.call].pod \in Pods
      <3>1. a.call \in Calls /\ Awaiting(a.call)
        BY <1>1, AnswerFields DEF TypeInv, TypeOK, ProviderTypeOK, Exchange
      <3>2. calls[a.call].pod \in Pods
        BY <3>1, CallFields DEF TypeInv, TypeOK, GatewayTypeOK, Awaiting, Awaits
      <3> QED BY <1>1, <3>2, AnsweredCallStays
    <2>2. Report(a.reply.status) \in Contract!Reportable(calls[a.call].pod)
      BY <1>1 DEF TruthInv
    <2>3. ranTo[calls[a.call].pod] \subseteq ranTo'[calls[a.call].pod]
      BY <2>1, ReportableGrows
    <2> QED BY <2>1, <2>2, <2>3 DEF Contract!Reportable
  <1>2. ASSUME NEW m \in reqs, m.call # NoCall, NEW status \in Observe(m.pod),
               a = [call |-> m.call, reply |->
                      [kind |-> "status", status |-> Corrected(m.to, m.pod, status)]]
        PROVE  Report(a.reply.status) \in Contract!Reportable(calls[a.call].pod)'
    <2>1. m.pod \in Pods /\ a.call = m.call
          /\ a.reply.status = Corrected(m.to, m.pod, status)
      BY <1>2, RequestFields DEF TypeInv, TypeOK, ProviderTypeOK
    <2>2. CASE a \in outbox
      BY <1>1, <2>2
    <2>3. CASE a \notin outbox
      <3>1. calls' = calls
        BY <2>3, NewAnswers
      <3>2. calls[m.call].pod = m.pod
        BY <1>2 DEF TypeInv, Exchange
      <3>0. status.logs # "garbled"
        <4>1. status \in JobStatus
          BY <2>1, ObserveType DEF TypeInv, TypeOK
        <4>2. Corrected(m.to, m.pod, status).logs = status.logs
          BY <4>1 DEF Corrected, JobStatus
        <4> QED BY <2>1, <4>2
      <3>3. Report(a.reply.status) \in Contract!Reportable(m.pod)
        BY <2>1, <3>0, ObserveTruth
      <3>4. ranTo[m.pod] \subseteq ranTo'[m.pod]
        BY <2>1, ReportableGrows
      <3> QED BY <2>1, <3>1, <3>2, <3>3, <3>4 DEF Contract!Reportable
    <2> QED BY <2>2, <2>3
  <1> QED BY <1>1, <1>2, AnswerSources

\* The batch system ends jobs in steps of its own.
LEMMA OutcomesKept ==
    ASSUME GatewayActs \/ ProviderActs \/ UNCHANGED vars
    PROVE  ranTo' = ranTo
  <1>1. CASE UNCHANGED vars
    BY <1>1 DEF vars, providerVars, backendVars
  <1>2. CASE GatewayActs
    BY <1>2
    DEF GatewayActs, CreateCall, CreateFailsEarly, DeleteCall, StatusCallCached,
        StatusCall, CreateAnswer, DeleteAnswer, StatusAnswer, Receive, StatusCallAgain,
        Send, CallTimesOut, GatewayRestarts, Connects, providerVars, backendVars
  <1>3. ASSUME NEW m \in reqs, Serve(m)
        PROVE  ranTo' = ranTo
    BY <1>3
    DEF Serve, CreateCallback, CreateSubmitted, CreateRefused, CreateUnanswered,
        DeleteCallback, DeleteUnsubscribe, DeleteRefused, DeleteUnanswered,
        StatusCallback, StatusRefused, StatusUnanswered, Submit, DeletePod, Remove, Spare,
        backendVars
  <1>4. CASE ProviderActs
    BY <1>3, <1>4
    DEF ProviderActs, StartResponder, ResyncDone, ResyncGivesUp, Resync, ResyncAnswered,
        Stop, StopResponder, backendVars
  <1> QED BY <1>1, <1>2, <1>4

\* What the steps of the gateway do to the kubelet's view: a delete takes a pod
\* away, a poll reports, and every other step changes nothing.
Quiet ==
    /\ told' = told /\ podCache' = podCache
    /\ {p \in Pods : vk'[p] = "deleted"} = {p \in Pods : vk[p] = "deleted"}

Deletes(p) ==
    /\ told' = told
    /\ podCache' = [podCache EXCEPT ![p] = None]
    /\ vk' = [vk EXCEPT ![p] = "deleted"]

Tells(c) ==
    \E reply \in Reply :
        [call |-> c, reply |-> reply] \in outbox /\ StatusReply(c, reply) /\ vk' = vk

LEMMA ViewChanges ==
    ASSUME UseRedis, TypeInv, KubeletInv, PollInv, GatewayActs
    PROVE  \/ Quiet
           \/ \E p \in Pods : Deletes(p)
           \/ \E c \in Calls : Tells(c)
  <1> USE DEF TypeInv, TypeOK, GatewayTypeOK, KubeletTypeOK
  <1>1. ASSUME UNCHANGED <<told, podCache, vk>>
        PROVE  Quiet
    BY <1>1 DEF Quiet
  <1>2. ASSUME NEW c \in Calls, NEW p \in Pods,
               CreateCall(c, p) \/ CreateFailsEarly(c, p) \/ DeleteCall(c, p)
        PROVE  Quiet
    <2>1. told' = told /\ podCache' = podCache
      BY <1>2
      DEF CreateCall, CreateFailsEarly, DeleteCall, CreateRequest, CreateAborted,
          DeleteRequest
    <2>2. /\ vk[p] # "deleted"
          /\ \/ vk' = [vk EXCEPT ![p] = "creating"]
             \/ vk' = [vk EXCEPT ![p] = "deleting"]
      BY <1>2
      DEF CreateCall, CreateFailsEarly, DeleteCall, MayCreate, MayDelete
    <2> QED BY <2>1, <2>2 DEF Quiet
  <1>3. ASSUME NEW c \in Calls, NEW p \in Pods, StatusCallCached(c, p)
        PROVE  Quiet
    <2>1. told[p] = podCache[p] /\ told' = [told EXCEPT ![p] = podCache[p]]
      BY <1>3 DEF StatusCallCached, StatusCached, PollInv
    <2>2. told' = told
      BY <2>1
    <2> QED BY <1>1, <1>3, <2>2 DEF StatusCallCached, StatusCached, redisVars, kubeletVars
  <1>4. ASSUME NEW c \in Calls, NEW p \in Pods,
               StatusCall(c, p) \/ StatusCallAgain(c) \/ Send(c)
        PROVE  Quiet
    BY <1>1, <1>4
    DEF StatusCall, StatusRequest, StatusCallAgain, StatusRetry, Send, redisVars,
        gatewayVars, kubeletVars
  <1>5. ASSUME NEW c \in Calls, CallTimesOut(c)
        PROVE  Quiet
    BY <1>1, <1>5 DEF CallTimesOut, Timeout, redisVars
  <1>6. ASSUME GatewayRestarts
        PROVE  Quiet
    BY <1>1, <1>6 DEF GatewayRestarts, GatewayRestart, redisVars
  <1>7. ASSUME NEW a \in outbox, CreateAnswer(a.call, a.reply)
        PROVE  Quiet
    <2>1. vk[calls[a.call].pod] = "creating" /\ told' = told /\ podCache' = podCache
      BY <1>7, AnswerHandled DEF CreateAnswer, CreateReply, KubeletInv
    <2>2. vk' = vk \/ vk' = [vk EXCEPT ![calls[a.call].pod] = "created"]
      BY <1>7 DEF CreateAnswer, Acknowledged
    <2> QED BY <2>1, <2>2 DEF Quiet
  <1>8. ASSUME NEW a \in outbox, DeleteAnswer(a.call, a.reply)
        PROVE  Quiet \/ \E p \in Pods : Deletes(p)
    <2>1. calls[a.call].pod \in Pods
      BY <1>8, AnswerHandled, CallFields DEF DeleteAnswer, DeleteReply
    <2>2. CASE a.reply.kind = "ok"
      BY <1>8, <2>1, <2>2 DEF DeleteAnswer, DeleteReply, Acknowledged, HSet, Deletes
    <2>3. CASE a.reply.kind # "ok"
      BY <1>1, <1>8, <2>3 DEF DeleteAnswer, DeleteReply, Acknowledged, redisVars
    <2> QED BY <2>2, <2>3
  <1>9. ASSUME NEW a \in outbox, StatusAnswer(a.call, a.reply)
        PROVE  Quiet \/ \E c \in Calls : Tells(c)
    <2>1. CASE \/ StatusUnknown(a.call, a.reply)
               \/ StatusFailed(a.call, a.reply)
               \/ StatusUnreadable(a.call, a.reply)
      BY <1>1, <1>9, <2>1
      DEF StatusAnswer, StatusUnknown, StatusFailed, StatusUnreadable, redisVars
    <2>2. CASE StatusReply(a.call, a.reply)
      BY <1>9, <2>2, AnswerHandled DEF StatusAnswer, Receive, Tells
    <2> QED BY <1>9, <2>1, <2>2 DEF StatusAnswer
  <1>10. Pods = {} => Quiet \/ \E c \in Calls : Tells(c)
    <2> SUFFICES ASSUME Pods = {}, ~ \E c \in Calls : Tells(c)
                 PROVE  Quiet
      OBVIOUS
    <2>1. ASSUME NEW c \in Calls, StatusCallAgain(c) \/ Send(c)
          PROVE  Quiet
      BY <1>1, <2>1
      DEF StatusCallAgain, StatusRetry, Send, redisVars, gatewayVars, kubeletVars
    <2> QED BY <1>5, <1>6, <1>7, <1>8, <1>9, <2>1 DEF GatewayActs
  <1> QED
    BY <1>2, <1>3, <1>4, <1>5, <1>6, <1>7, <1>8, <1>9, <1>10 DEF GatewayActs

\* The view of the kubelet after a poll that brought a status.
LEMMA TellsWhat ==
    ASSUME UseRedis, TypeInv, PollInv, TruthInv, NEW c \in Calls, Tells(c)
    PROVE  \E p \in Pods, report \in Reports :
                /\ podCache[p] = None
                /\ report \in Contract!Reportable(p)
                /\ told' = [told EXCEPT ![p] = report]
                /\ podCache' = IF report \in Results
                               THEN [podCache EXCEPT ![p] = report] ELSE podCache
                /\ vk' = vk
  <1>1. PICK reply \in Reply :
            /\ [call |-> c, reply |-> reply] \in outbox
            /\ StatusReply(c, reply) /\ vk' = vk
    BY DEF Tells
  <1> DEFINE p == calls[c].pod
             report == Report(reply.status)
  <1>2. calls[c].op = "status" /\ p \in Pods
    BY <1>1, CallFields DEF StatusReply, Awaits, TypeInv, TypeOK, GatewayTypeOK
  <1>3. reply.kind = "status" /\ reply.status \in JobStatus
    BY <1>1 DEF StatusReply, Reply, Acks, Failures
  <1>4. report \in Reports /\ (report \in Results <=> Terminal(reply.status))
    BY <1>3, ReportType, ReportOfTerminal
  <1>5. podCache[p] = None
    BY <1>2 DEF PollInv
  <1>6. report \in Contract!Reportable(p)
    <2> DEFINE a == [call |-> c, reply |-> reply]
    <2>1. /\ a \in outbox /\ a.reply.kind = "status" /\ a.reply.status = reply.status
          /\ a.call = c /\ reply.status.logs # "garbled"
      BY <1>1, <1>3 DEF StatusReply
    <2> HIDE DEF a
    <2> QED BY <2>1 DEF TruthInv
  <1>7. /\ told' = [told EXCEPT ![p] = report]
        /\ podCache' = IF report \in Results
                       THEN [podCache EXCEPT ![p] = report] ELSE podCache
    BY <1>1, <1>4 DEF StatusReply, HSet
  <1> HIDE DEF p, report
  <1> QED BY <1>1, <1>2, <1>4, <1>5, <1>6, <1>7

LEMMA ToldInvStep ==
    ASSUME UseRedis, TypeInv, KubeletInv, PollInv, TruthInv, ToldInv, [Next]_vars
    PROVE  ToldInv'
  <1> USE DEF TypeInv, TypeOK, GatewayTypeOK, KubeletTypeOK
  <1>1. CASE Quiet
    BY <1>1 DEF Quiet, ToldInv
  <1>2. ASSUME NEW p \in Pods, Deletes(p)
        PROVE  ToldInv'
    BY <1>2 DEF Deletes, ToldInv
  <1>3. ASSUME NEW c \in Calls, Tells(c)
        PROVE  ToldInv'
    <2>1. PICK p \in Pods, report \in Reports :
                /\ told' = [told EXCEPT ![p] = report]
                /\ podCache' = IF report \in Results
                               THEN [podCache EXCEPT ![p] = report] ELSE podCache
                /\ vk' = vk
      BY <1>3, TellsWhat
    <2> QED BY <2>1 DEF ToldInv
  <1>4. CASE ProviderActs \/ JobsProgress \/ UNCHANGED vars
    BY <1>4 DEF ProviderActs, JobsProgress, vars, gatewayVars, kubeletVars, ToldInv
  <1> QED BY <1>1, <1>2, <1>3, <1>4, ViewChanges DEF Next

\* Every step is one of the contract, or changes nothing it speaks of.
LEMMA ContractStep ==
    ASSUME UseRedis, TypeInv, KubeletInv, PollInv, TruthInv, ToldInv, [Next]_vars
    PROVE  [Contract!Next]_(Contract!contractVars)
  <1> USE DEF TypeInv, TypeOK, GatewayTypeOK, KubeletTypeOK
  <1> DEFINE gone == {p \in Pods : vk[p] = "deleted"}
  <1>1. ASSUME Quiet, ranTo' = ranTo
        PROVE  UNCHANGED Contract!contractVars
    BY <1>1 DEF Quiet, Contract!contractVars
  <1>2. ASSUME NEW p \in Pods, Deletes(p), ranTo' = ranTo
        PROVE  Contract!Next
    <2>1. gone' = gone \cup {p}
      BY <1>2 DEF Deletes
    <2> QED BY <1>2, <2>1 DEF Deletes, Contract!Next, Contract!PodDeleted
  <1>3. ASSUME NEW c \in Calls, Tells(c), ranTo' = ranTo
        PROVE  Contract!Next
    <2>1. PICK p \in Pods, report \in Reports :
                /\ podCache[p] = None
                /\ report \in Contract!Reportable(p)
                /\ told' = [told EXCEPT ![p] = report]
                /\ vk' = vk
      BY <1>3, TellsWhat
    <2>2. told[p] \notin Results \/ p \in gone
      <3>1. None \notin Results
        BY GatewayAssumption DEF Results
      <3> QED BY <2>1, <3>1 DEF ToldInv
    <2>3. Contract!Final = Results
      BY DEF Contract!Final, Results
    <2>4. Contract!ReportPod(p, report)
      BY <1>3, <2>1, <2>2, <2>3 DEF Contract!ReportPod
    <2> QED BY <2>1, <2>4 DEF Contract!Next
  <1>4. CASE ProviderActs \/ UNCHANGED vars
    BY <1>1, <1>4, OutcomesKept
    DEF ProviderActs, vars, gatewayVars, kubeletVars, Quiet
  <1>5. CASE JobsProgress
    <2>1. told' = told /\ vk' = vk
      BY <1>5 DEF JobsProgress, gatewayVars, kubeletVars
    <2>2. PICK p \in Pods : JobProgress(p)
      BY <1>5 DEF JobsProgress
    <2>3. CASE ranTo' = ranTo
      BY <2>1, <2>3 DEF Contract!contractVars
    <2>4. ASSUME NEW outcome \in Outcomes, ranTo' = [ranTo EXCEPT ![p] = @ \cup {outcome}]
          PROVE  Contract!Next
      BY <2>1, <2>4
      DEF Contract!Next, Contract!JobEnds, Contract!Outcomes, Outcomes
    <2> QED BY <2>2, <2>3, <2>4 DEF JobProgress
  <1>6. CASE GatewayActs
    BY <1>1, <1>2, <1>3, <1>6, OutcomesKept, ViewChanges
  <1> QED BY <1>4, <1>5, <1>6 DEF Next

LEMMA ContractInit == Init => ToldInv /\ Contract!Init
  <1> SUFFICES ASSUME Init PROVE ToldInv /\ Contract!Init
    OBVIOUS
  <1>1. ToldInv
    BY GatewayAssumption DEF Init, GatewayInit, ToldInv, Results
  <1>2. Contract!Init
    BY DEF Init, GatewayInit, BackendInit, Contract!Init
  <1> QED BY <1>1, <1>2

\* With redis, and one poll of a pod at a time, the plugin keeps its contract:
\* every terminal report is the outcome of a job that did end, and stands until
\* the kubelet has deleted the pod.
THEOREM ContractKept ==
    ASSUME UseRedis, ~PollsOverlap
    PROVE  Spec => KeepsContract
  <1> DEFINE Inv == TypeInv /\ KubeletInv /\ PollInv /\ TruthInv /\ ToldInv
  <1>1. Init => Inv
    BY TypeInvInit, KubeletInvInit, PollInvInit, TruthInvInit, ContractInit DEF Init
  <1>2. Inv /\ [Next]_vars => Inv'
    BY TypeInvStep, KubeletInvStep, GatewayStays, PollInvStep, TruthInvStep, ToldInvStep
    DEF TypeInv, TypeOK
  <1>3. Inv /\ [Next]_vars => [Contract!Next]_(Contract!contractVars)
    BY ContractStep
  <1>4. Init => Contract!Init
    BY ContractInit
  <1> QED BY <1>1, <1>2, <1>3, <1>4, PTL DEF Spec, KeepsContract, Contract!Spec

------------------------------------------------------------------------------
(* One job a pod, and none once it is deleted *)

CreateOf(c, p) == calls[c].op = "create" /\ calls[c].pod = p
DeleteOf(c, p) == calls[c].op = "delete" /\ calls[c].pod = p
CreateReq(m, p) == m.op = "create" /\ m.pod = p
NoJob(p) == job[p] = "none" /\ ~Creating(p)
Gone(p) == job[p] = "none" \/ p \in spared

\* The way of a create from its call to its job, for a pod no create of which
\* went unanswered: the pod has at most one of a call that is not sent, one
\* request, and one job; and a delete leaves none of them, unless its provider
\* let it pass that a job was left.
SubmitInv(p) ==
    /\ copies[p] = IF job[p] = "none" THEN 0 ELSE 1
    /\ Creating(p) => vk[p] = "creating" /\ job[p] = "none"
    /\ \A m, n \in reqs : CreateReq(m, p) /\ CreateReq(n, p) => m = n
    /\ vk[p] = "new" => NoJob(p)
    /\ vk[p] = "creating" /\ (\A c \in Calls : ~CreateOf(c, p)) => NoJob(p)
    /\ \A c \in unsent : CreateOf(c, p) => NoJob(p)
    /\ \A a \in outbox : CreateOf(a.call, p) =>
            ~Creating(p) /\ (a.reply.kind # "ok" => job[p] = "none")
    /\ \A a \in outbox : DeleteOf(a.call, p) /\ a.reply.kind = "ok" => Gone(p)
    /\ vk[p] = "deleted" => Gone(p)

SubmitsInv == \A p \in Pods \ gaveUp : SubmitInv(p)

LEMMA SubmitsInvInit == Init => SubmitsInv
  <1> SUFFICES ASSUME Init, NEW p \in Pods
               PROVE  SubmitInv(p)
    BY DEF SubmitsInv
  <1>1. job[p] = "none" /\ copies[p] = 0 /\ vk[p] = "new"
    BY DEF Init, BackendInit
  <1>2. reqs = {} /\ outbox = {} /\ unsent = {}
    BY DEF Init, ProviderInit
  <1>3. ~Creating(p) /\ NoJob(p)
    BY <1>1, <1>2 DEF Creating, NoJob
  <1> QED BY <1>1, <1>2, <1>3 DEF SubmitInv

\* Steps of the batch system alone.
LEMMA SubmitJobs ==
    ASSUME TypeInv, NEW p \in Pods, SubmitInv(p), JobsProgress
    PROVE  SubmitInv(p)'
  <1>1. UNCHANGED <<calls, unsent, reqs, outbox, vk>>
    BY DEF JobsProgress, gatewayVars, kubeletVars
  <1>2. (job'[p] = "none" <=> job[p] = "none") /\ copies'[p] = copies[p] /\ spared' = spared
    BY DEF JobsProgress, JobProgress, TypeInv, TypeOK, BackendTypeOK, Outcomes
  <1> QED
    BY <1>1, <1>2 DEF SubmitInv, NoJob, Gone, Creating, CreateOf, DeleteOf

\* Callbacks of create requests.
LEMMA SubmitServesCreate ==
    ASSUME TypeInv, KubeletInv, NEW p \in Pods, SubmitInv(p),
           NEW m \in reqs, m.op = "create", Serve(m),
           UNCHANGED <<calls, unsent, vk>>
    PROVE  SubmitInv(p)'
  <1>1. m.pod \in Pods /\ [m EXCEPT !.at = "working"].op = "create"
        /\ [m EXCEPT !.at = "working"].pod = m.pod
    <2>1. m \in Request
      BY DEF TypeInv, TypeOK, ProviderTypeOK
    <2>2. m = [op |-> m.op, pod |-> m.pod, call |-> m.call, to |-> m.to, at |-> m.at]
          /\ m.pod \in Pods
      BY <2>1, RequestFields
    <2>3. [m EXCEPT !.at = "working"].op = m.op /\ [m EXCEPT !.at = "working"].pod = m.pod
      BY <2>2
    <2> QED BY <2>2, <2>3
  <1> USE DEF TypeInv, TypeOK, BackendTypeOK, ProviderTypeOK
  <1>2. \/ CreateCallback(m) \/ CreateSubmitted(m)
        \/ CreateRefused(m) \/ CreateUnanswered(m)
    BY DEF Serve, CreateCallback, CreateSubmitted, CreateRefused, CreateUnanswered,
           DeleteCallback, DeleteUnsubscribe, DeleteRefused, DeleteUnanswered,
           StatusCallback, StatusRefused, StatusUnanswered, Starts, Works
  <1>3. m.call # NoCall => calls[m.call].op = "create" /\ calls[m.call].pod = m.pod
    BY DEF Exchange
  <1>4. CASE CreateCallback(m)
    <2>1. reqs' = (reqs \ {m}) \cup {[m EXCEPT !.at = "working"]}
          /\ outbox' = outbox /\ UNCHANGED <<job, copies, spared>>
      BY <1>4 DEF CreateCallback, Working, backendVars
    <2>2. Creating(p)' <=> Creating(p)
      BY <1>1, <2>1 DEF Creating
    <2>3. \A x, y \in reqs' : CreateReq(x, p) /\ CreateReq(y, p) => x = y
      <3> DEFINE w == [m EXCEPT !.at = "working"]
      <3>1. CreateReq(w, p) => CreateReq(m, p)
        BY <1>1 DEF CreateReq
      <3>2. reqs' = (reqs \ {m}) \cup {w}
        BY <2>1
      <3>3. \A x, y \in reqs : CreateReq(x, p) /\ CreateReq(y, p) => x = y
        BY DEF SubmitInv
      <3> HIDE DEF w
      <3> QED BY <3>1, <3>2, <3>3
    <2> QED
      BY <2>1, <2>2, <2>3 DEF SubmitInv, NoJob, Gone, CreateOf, DeleteOf
  <1>5. CASE ~CreateCallback(m)
    <2>1. reqs' = reqs \ {m}
      BY <1>2, <1>5 DEF CreateSubmitted, CreateRefused, CreateUnanswered
    <2>2. \A x, y \in reqs' : CreateReq(x, p) /\ CreateReq(y, p) => x = y
      BY <2>1 DEF SubmitInv
    <2>3. CASE m.pod # p
      <3>1. Creating(p)' <=> Creating(p)
        BY <2>1, <2>3 DEF Creating
      <3>2. job'[p] = job[p] /\ copies'[p] = copies[p] /\ spared' = spared
        BY <1>1, <1>2, <1>5, <2>3
        DEF CreateSubmitted, CreateRefused, CreateUnanswered, Submit, backendVars
      <3>3. \A a \in outbox' : a \in outbox \/ (a.call = m.call /\ m.call # NoCall)
        BY <1>2, <1>5
        DEF CreateSubmitted, CreateRefused, CreateUnanswered, Respond
      <3> QED
        BY <1>3, <2>2, <2>3, <3>1, <3>2, <3>3
        DEF SubmitInv, NoJob, Gone, CreateOf, DeleteOf
    <2>4. CASE m.pod = p
      <3>1. Creating(p) /\ ~Creating(p)' /\ vk[p] = "creating" /\ job[p] = "none"
        BY <2>1, <2>4 DEF Creating, SubmitInv, CreateReq
      <3>2. /\ \A c \in unsent : ~CreateOf(c, p)
            /\ \A a \in outbox : ~CreateOf(a.call, p)
            /\ \E c \in Calls : CreateOf(c, p)
        BY <3>1 DEF SubmitInv, NoJob
      <3>3. \A c \in Calls : ~DeleteOf(c, p)
        BY <3>1 DEF KubeletInv, DeleteOf
      <3>4. \A a \in outbox' : a.call \in Calls
        <4>1. \A a \in outbox : a.call \in Calls
          BY AnswerFields
        <4>2. m.call # NoCall => m.call \in Calls
          BY RequestFields
        <4> QED
          BY <1>2, <1>5, <4>1, <4>2
          DEF CreateSubmitted, CreateRefused, CreateUnanswered, Respond
      <3>5. copies'[p] = IF job'[p] = "none" THEN 0 ELSE 1
        BY <1>2, <1>5, <2>4, <3>1
        DEF CreateSubmitted, CreateRefused, CreateUnanswered, Submit, backendVars,
            SubmitInv
      <3>6. \A a \in outbox' : a \notin outbox /\ a.reply.kind # "ok" => job'[p] = "none"
        BY <1>2, <1>5, <3>1
        DEF CreateSubmitted, CreateRefused, CreateUnanswered, Respond, backendVars
      <3> QED
        BY <2>2, <3>1, <3>2, <3>3, <3>4, <3>5, <3>6
        DEF SubmitInv, NoJob, CreateOf, DeleteOf
    <2> QED BY <2>3, <2>4
  <1> QED BY <1>4, <1>5

\* A delete leaves at most the one job there was, and says so of a pod it
\* leaves one to.
LEMMA DeletesLeave ==
    ASSUME BackendTypeOK, NEW p \in Pods, SubmitInv(p), NEW q \in Pods,
           UNCHANGED backendVars \/ DeletePod(q)
    PROVE  /\ copies'[p] = IF job'[p] = "none" THEN 0 ELSE 1
           /\ job[p] = "none" => job'[p] = "none"
           /\ Gone(p) => Gone(p)'
           /\ DeletePod(p) => Gone(p)'
  <1>1. copies[p] = IF job[p] = "none" THEN 0 ELSE 1
    BY DEF SubmitInv
  <1>2. DeletePod(p) => Gone(p)'
    BY DEF DeletePod, Remove, Spare, Gone, BackendTypeOK
  <1>3. CASE UNCHANGED backendVars
    BY <1>1, <1>2, <1>3 DEF backendVars, Gone
  <1>4. CASE Remove(q)
    BY <1>1, <1>2, <1>4 DEF Remove, Gone, BackendTypeOK
  <1>5. CASE Spare(q)
    <2>1. /\ job' = job /\ job[q] # "none" /\ spared \subseteq spared'
          /\ \E left \in 1 .. copies[q] : copies' = [copies EXCEPT ![q] = left]
      BY <1>5 DEF Spare
    <2>2. copies'[p] = copies[p]
      <3>1. CASE p = q
        <4>1. copies[q] = 1
          BY <1>1, <2>1, <3>1
        <4> QED BY <2>1, <3>1, <4>1 DEF BackendTypeOK
      <3>2. CASE p # q
        BY <2>1, <3>2 DEF BackendTypeOK
      <3> QED BY <3>1, <3>2
    <2> QED BY <1>1, <1>2, <2>1, <2>2 DEF Gone
  <1> QED BY <1>3, <1>4, <1>5 DEF DeletePod

\* Callbacks of delete and status requests.
LEMMA SubmitServesOther ==
    ASSUME TypeInv, NEW p \in Pods, SubmitInv(p),
           NEW m \in reqs, m.op # "create", Serve(m),
           UNCHANGED <<calls, unsent, vk>>
    PROVE  SubmitInv(p)'
  <1>1. m.pod \in Pods /\ [m EXCEPT !.at = "working"].op # "create"
    <2>1. m \in Request
      BY DEF TypeInv, TypeOK, ProviderTypeOK
    <2>2. m = [op |-> m.op, pod |-> m.pod, call |-> m.call, to |-> m.to, at |-> m.at]
          /\ m.pod \in Pods
      BY <2>1, RequestFields
    <2>3. [m EXCEPT !.at = "working"].op = m.op
      BY <2>2
    <2> QED BY <2>2, <2>3
  <1> USE DEF TypeInv, TypeOK, BackendTypeOK, ProviderTypeOK
  <1>2. reqs' = reqs \ {m} \/ reqs' = Working(m)
    BY DEF Serve, CreateCallback, CreateSubmitted, CreateRefused, CreateUnanswered,
           DeleteCallback, DeleteUnsubscribe, DeleteRefused, DeleteUnanswered,
           StatusCallback, StatusRefused, StatusUnanswered, Starts, Works
  <1>3. \A n \in reqs' : CreateReq(n, p) => n \in reqs
    BY <1>1, <1>2 DEF Working, CreateReq
  <1>4. Creating(p)' => Creating(p)
    BY <1>3 DEF Creating, CreateReq
  <1>5. m.call # NoCall => calls[m.call].op = m.op /\ calls[m.call].pod = m.pod
    BY DEF Exchange
  <1>6. \/ UNCHANGED backendVars
        \/ Remove(m.pod)
        \/ Spare(m.pod)
    BY <1>1
    DEF Serve, CreateCallback, CreateSubmitted, CreateRefused, CreateUnanswered,
        DeleteCallback, DeleteUnsubscribe, DeleteRefused, DeleteUnanswered,
        StatusCallback, StatusRefused, StatusUnanswered, Starts, Works, DeletePod
  <1>7. \A a \in outbox' :
            a \in outbox \/ (m.call # NoCall /\ a.call = m.call /\
                (m.op = "delete" /\ a.reply.kind = "ok" => DeletePod(m.pod)))
    BY <1>1
    DEF Serve, CreateCallback, CreateSubmitted, CreateRefused, CreateUnanswered,
        DeleteCallback, DeleteUnsubscribe, DeleteRefused, DeleteUnanswered,
        StatusCallback, StatusRefused, StatusUnanswered, Starts, Works, Respond
  <1>8. /\ copies'[p] = IF job'[p] = "none" THEN 0 ELSE 1
        /\ job[p] = "none" => job'[p] = "none"
        /\ Gone(p) => Gone(p)'
        /\ DeletePod(p) => Gone(p)'
    BY <1>1, <1>6, DeletesLeave DEF DeletePod
  <1>9. \A a \in outbox' : CreateOf(a.call, p) => a \in outbox
    BY <1>5, <1>7 DEF CreateOf
  <1>10. \A a \in outbox' : DeleteOf(a.call, p) /\ a.reply.kind = "ok" => Gone(p)'
    BY <1>5, <1>7, <1>8 DEF DeleteOf, SubmitInv
  <1> QED
    BY <1>3, <1>4, <1>8, <1>9, <1>10 DEF SubmitInv, NoJob, CreateOf, DeleteOf

\* Calls of the kubelet.
LEMMA SubmitCalls ==
    ASSUME TypeInv, KubeletInv, NEW p \in Pods, SubmitInv(p), NEW c \in Calls, NEW q \in Pods,
           CreateCall(c, q) \/ CreateFailsEarly(c, q) \/ DeleteCall(c, q)
    PROVE  SubmitInv(p)'
  <1> USE DEF TypeInv, TypeOK, GatewayTypeOK, KubeletTypeOK
  <1>1. /\ UNCHANGED <<job, copies, spared, reqs, outbox>>
        /\ calls[c] = Idle
        /\ unsent' = unsent \/ unsent' = unsent \cup {c}
    BY DEF CreateCall, CreateFailsEarly, DeleteCall, Connects, providerVars, backendVars,
           CreateRequest, CreateAborted, DeleteRequest
  <1>2. \A d \in Calls : ~CreateOf(d, q) /\ ~DeleteOf(d, q)
    <2>1. \A d \in Workers : calls[d] # Idle => calls[d].pod # q
      BY DEF CreateCall, CreateFailsEarly, DeleteCall, MayCreate, MayDelete, Unattended
    <2> QED BY <2>1 DEF KubeletInv, Attends, CreateOf, DeleteOf, Idle
  <1>3. /\ \A d \in Calls \ {c} : calls'[d] = calls[d]
        /\ unsent \subseteq Calls \ {c}
        /\ \A a \in outbox : a.call \in Calls \ {c}
    <2>1. ~Awaiting(c)
      BY <1>1 DEF Awaiting, Awaits, Idle
    <2>2. \A a \in outbox : a.call \in Calls
      BY AnswerFields DEF ProviderTypeOK
    <2> QED
      BY <2>1, <2>2
      DEF Exchange, CreateCall, CreateFailsEarly, DeleteCall, CreateRequest,
          CreateAborted, DeleteRequest
  <1>4. \A d \in Calls \ {c} :
            /\ CreateOf(d, p)' <=> CreateOf(d, p)
            /\ DeleteOf(d, p)' <=> DeleteOf(d, p)
    BY <1>3 DEF CreateOf, DeleteOf
  <1>5. Creating(p)' <=> Creating(p)
    BY <1>1 DEF Creating
  <1>6. CASE p # q
    <2>1. vk'[p] = vk[p]
      BY <1>6
      DEF CreateCall, CreateFailsEarly, DeleteCall, MayCreate, MayDelete
    <2>2. ~CreateOf(c, p) /\ ~CreateOf(c, p)'
      BY <1>1, <1>6
      DEF CreateCall, CreateFailsEarly, DeleteCall, CreateRequest, CreateAborted,
          DeleteRequest, CreateOf, Idle
    <2> QED
      BY <1>1, <1>3, <1>4, <1>5, <2>1, <2>2 DEF SubmitInv, NoJob, Gone
  <1>7. CASE p = q /\ (CreateCall(c, q) \/ CreateFailsEarly(c, q))
    <2>1. vk[p] \in {"new", "creating"} /\ vk'[p] = "creating"
      BY <1>7 DEF CreateCall, CreateFailsEarly, MayCreate
    <2>2. NoJob(p)
      BY <1>2, <1>7, <2>1 DEF SubmitInv
    <2> QED
      BY <1>1, <1>2, <1>3, <1>4, <1>5, <1>7, <2>1, <2>2 DEF SubmitInv, NoJob, Gone
  <1>8. CASE p = q /\ DeleteCall(c, q)
    <2>1. vk[p] \in {"creating", "created", "deleting"} /\ vk'[p] = "deleting"
      BY <1>8 DEF DeleteCall, MayDelete
    <2>2. ~Creating(p)
      BY <1>2, <1>8, <2>1 DEF SubmitInv, NoJob, Gone
    <2>3. ~CreateOf(c, p)'
      BY <1>8 DEF DeleteCall, DeleteRequest, CreateOf
    <2> QED
      BY <1>1, <1>2, <1>3, <1>4, <1>5, <1>8, <2>1, <2>2, <2>3 DEF SubmitInv, NoJob, Gone
  <1> QED BY <1>6, <1>7, <1>8

\* Steps of a poll: they disturb no create and no delete.
LEMMA SubmitPolls ==
    ASSUME TypeInv, NEW p \in Pods, SubmitInv(p), NEW c \in Calls, NEW q \in Pods,
           StatusCallCached(c, q) \/ StatusCall(c, q) \/ StatusCallAgain(c)
    PROVE  SubmitInv(p)'
  <1>0. /\ calls \in [Calls -> Call]
        /\ unsent \subseteq Calls
        /\ outbox \subseteq Answer
    BY DEF TypeInv, TypeOK, GatewayTypeOK, ProviderTypeOK, KubeletTypeOK
  <1>1. /\ UNCHANGED <<job, copies, spared, reqs, outbox, vk>>
        /\ unsent' = unsent \/ (unsent' = unsent \cup {c} /\ calls'[c].op = "status")
    <2>1. CASE StatusCallCached(c, q)
      BY <2>1 DEF StatusCallCached, kubeletVars, providerVars, backendVars
    <2>2. CASE StatusCall(c, q)
      BY <1>0, <2>2
      DEF StatusCall, StatusRequest, Connects, kubeletVars, providerVars, backendVars
    <2>3. CASE StatusCallAgain(c)
      BY <1>0, <2>3, CallFields
      DEF StatusCallAgain, StatusRetry, Connects, kubeletVars, providerVars, backendVars
    <2> QED BY <2>1, <2>2, <2>3
  <1>2. \A d \in Calls :
            /\ CreateOf(d, p)' <=> CreateOf(d, p)
            /\ DeleteOf(d, p)' <=> DeleteOf(d, p)
    <2>1. CASE StatusCallCached(c, q)
      BY <2>1 DEF StatusCallCached, StatusCached, CreateOf, DeleteOf
    <2>2. CASE StatusCall(c, q)
      BY <1>0, <2>2 DEF StatusCall, StatusRequest, CreateOf, DeleteOf, Idle
    <2>3. CASE StatusCallAgain(c)
      BY <1>0, <2>3, CallFields DEF StatusCallAgain, StatusRetry, CreateOf, DeleteOf
    <2> QED BY <2>1, <2>2, <2>3
  <1>3. \A a \in outbox : a.call \in Calls
    BY <1>0, AnswerFields
  <1>4. Creating(p)' <=> Creating(p)
    BY <1>1 DEF Creating
  <1>5. \A d \in unsent' : CreateOf(d, p)' => d \in unsent /\ CreateOf(d, p)
    <2>1. unsent' = unsent \/ (unsent' = unsent \cup {c} /\ ~CreateOf(c, p)')
      BY <1>1 DEF CreateOf
    <2> QED BY <1>0, <1>2, <2>1
  <1>6. (\A d \in Calls : ~CreateOf(d, p)') => \A d \in Calls : ~CreateOf(d, p)
    BY <1>2
  <1>7. \A a \in outbox :
            /\ CreateOf(a.call, p)' => CreateOf(a.call, p)
            /\ DeleteOf(a.call, p)' => DeleteOf(a.call, p)
    BY <1>2, <1>3
  <1> QED
    BY <1>1, <1>4, <1>5, <1>6, <1>7 DEF SubmitInv, NoJob, Gone

\* The sending of a request.
LEMMA SubmitSend ==
    ASSUME TypeInv, KubeletInv, NEW p \in Pods, SubmitInv(p), NEW c \in Calls, Send(c)
    PROVE  SubmitInv(p)'
  <1>1. /\ c \in unsent /\ unsent' = unsent \ {c}
        /\ UNCHANGED <<calls, job, copies, spared, vk>>
        /\ Publish(c, calls[c].op, calls[c].pod)
    BY DEF Send, gatewayVars, backendVars, kubeletVars
  <1>2. \A a \in outbox : a.call # c
    BY <1>1 DEF TypeInv, Exchange
  <1>3. CASE /\ reqs' = reqs
             /\ outbox' = outbox \cup {[call |-> c, reply |-> [kind |-> "noResponders"]]}
    BY <1>1, <1>3 DEF SubmitInv, NoJob, Gone, Creating, CreateOf, DeleteOf
  <1>4. CASE outbox' = outbox /\ ~CreateOf(c, p)
    <2>1. \A n \in reqs' : CreateReq(n, p) => n \in reqs
      BY <1>1, <1>4 DEF Publish, CreateReq, CreateOf
    <2>2. reqs \subseteq reqs'
      BY <1>1, <1>4 DEF Publish
    <2> QED
      BY <1>1, <1>4, <2>1, <2>2
      DEF SubmitInv, NoJob, Gone, Creating, CreateReq, CreateOf, DeleteOf
  <1>5. CASE outbox' = outbox /\ reqs' # reqs /\ CreateOf(c, p)
    <2>1. PICK r \in Responders :
              reqs' = reqs \cup
                {[op |-> "create", pod |-> p, call |-> c, to |-> r, at |-> "queued"]}
      <3>1. PICK R \in Receivers("create", p) :
                reqs' = reqs \cup
                    {[op |-> "create", pod |-> p, call |-> c, to |-> r, at |-> "queued"] :
                        r \in R}
        BY <1>1, <1>5 DEF Publish, CreateOf
      <3>2. PICK r \in Responders : R = {r}
        BY DEF Receivers, Subscribers
      <3> QED BY <3>1, <3>2
    <2>2. NoJob(p) /\ vk[p] = "creating"
      BY <1>1, <1>5 DEF SubmitInv, KubeletInv, CreateOf
    <2>3. \A n \in reqs : ~CreateReq(n, p)
      BY <2>2 DEF NoJob, Gone, Creating, CreateReq
    <2>4. \A d \in Calls : CreateOf(d, p) => d = c
      BY <1>5 DEF KubeletInv, Attends, CreateOf
    <2>5. unsent \subseteq Calls /\ \A a \in outbox : a.call \in Calls
      BY AnswerFields DEF TypeInv, TypeOK, KubeletTypeOK, ProviderTypeOK
    <2>6. \A x, y \in reqs' : CreateReq(x, p) /\ CreateReq(y, p) => x = y
      BY <2>1, <2>3
    <2>7. /\ \A d \in unsent' : ~CreateOf(d, p)'
          /\ \A a \in outbox' : ~CreateOf(a.call, p)' /\ ~DeleteOf(a.call, p)'
      BY <1>1, <1>2, <1>5, <2>2, <2>4, <2>5 DEF KubeletInv, CreateOf, DeleteOf
    <2>8. \E d \in Calls : CreateOf(d, p)'
      BY <1>1, <1>5 DEF CreateOf
    <2> QED
      BY <1>1, <2>2, <2>6, <2>7, <2>8 DEF SubmitInv, NoJob, Gone
  <1>6. CASE outbox' = outbox /\ reqs' = reqs
    BY <1>1, <1>6 DEF SubmitInv, NoJob, Gone, Creating, CreateOf, DeleteOf
  <1> QED BY <1>1, <1>3, <1>4, <1>5, <1>6 DEF Publish

\* The end of some calls: what was sent for a pod goes on, whoever waits for it.
LEMMA ForgetCreates ==
    ASSUME TypeInv, NEW p \in Pods, SubmitInv(p), NEW S, Forget(S)
    PROVE  /\ Creating(p)' <=> Creating(p)
           /\ \A x, y \in reqs' : CreateReq(x, p) /\ CreateReq(y, p) => x = y
  <1> DEFINE image(m) == IF m.call \in S THEN [m EXCEPT !.call = NoCall] ELSE m
             kept == {m \in reqs : m.op = "status" => m.call \notin S}
  <1>1. reqs' = {image(m) : m \in kept}
    BY DEF Forget
  <1>2. \A m \in reqs : image(m).op = m.op /\ image(m).pod = m.pod
    BY RequestFields DEF TypeInv, TypeOK, ProviderTypeOK
  <1>3. \A m \in reqs : CreateReq(m, p) => m \in kept
    BY DEF CreateReq
  <1> HIDE DEF image
  <1>4. Creating(p)' <=> Creating(p)
    BY <1>1, <1>2, <1>3 DEF Creating, CreateReq
  <1>5. ASSUME NEW x \in reqs', NEW y \in reqs', CreateReq(x, p), CreateReq(y, p)
        PROVE  x = y
    <2>1. PICK m \in kept : x = image(m)
      BY <1>1
    <2>2. PICK n \in kept : y = image(n)
      BY <1>1
    <2>3. CreateReq(m, p) /\ CreateReq(n, p)
      BY <1>2, <1>5, <2>1, <2>2 DEF CreateReq
    <2>4. m = n
      BY <2>3 DEF SubmitInv
    <2> QED BY <2>1, <2>2, <2>4
  <1> QED BY <1>4, <1>5

LEMMA SubmitEnd ==
    ASSUME TypeInv, NEW p \in Pods, SubmitInv(p), NEW S \in SUBSET Calls,
           Forget(S), unsent' = unsent \ S,
           \A d \in Calls \ S : calls'[d] = calls[d],
           \A d \in S : ~CreateOf(d, p)' /\ ~DeleteOf(d, p)',
           UNCHANGED <<job, copies, spared>>,
           \/ vk'[p] = vk[p]
           \/ vk'[p] = "created" /\ ~Creating(p)
           \/ vk'[p] = "deleted" /\ Gone(p) /\ ~Creating(p),
           (\E d \in S : CreateOf(d, p)) => NoJob(p) \/ vk'[p] = "created"
    PROVE  SubmitInv(p)'
  <1>1. /\ Creating(p)' <=> Creating(p)
        /\ \A x, y \in reqs' : CreateReq(x, p) /\ CreateReq(y, p) => x = y
    BY ForgetCreates
  <1>2. unsent \subseteq Calls /\ \A a \in outbox : a.call \in Calls
    BY AnswerFields DEF TypeInv, TypeOK, KubeletTypeOK, ProviderTypeOK
  <1>3. outbox' = {a \in outbox : a.call \notin S}
    BY DEF Forget
  <1>4. \A d \in Calls \ S :
            /\ CreateOf(d, p)' <=> CreateOf(d, p)
            /\ DeleteOf(d, p)' <=> DeleteOf(d, p)
    BY DEF CreateOf, DeleteOf
  <1>5. (NoJob(p)' <=> NoJob(p)) /\ (Gone(p)' <=> Gone(p))
    BY <1>1 DEF NoJob, Gone
  <1>6. \A d \in unsent' : CreateOf(d, p)' => NoJob(p)'
    BY <1>2, <1>4, <1>5 DEF SubmitInv
  <1>7. \A a \in outbox' :
            /\ CreateOf(a.call, p)' =>
                ~Creating(p)' /\ (a.reply.kind # "ok" => job'[p] = "none")
            /\ DeleteOf(a.call, p)' /\ a.reply.kind = "ok" => Gone(p)'
    BY <1>1, <1>2, <1>3, <1>4, <1>5 DEF SubmitInv
  <1>8. vk'[p] = "creating" /\ (\A d \in Calls : ~CreateOf(d, p)') => NoJob(p)'
    <2> SUFFICES ASSUME vk'[p] = "creating", \A d \in Calls : ~CreateOf(d, p)'
                 PROVE  NoJob(p)
      BY <1>5
    <2>1. vk[p] = "creating"
      OBVIOUS
    <2>2. CASE \E d \in S : CreateOf(d, p)
      BY <2>2
    <2>3. CASE \A d \in S : ~CreateOf(d, p)
      BY <1>4, <2>1, <2>3 DEF SubmitInv
    <2> QED BY <2>2, <2>3
  <1> QED
    BY <1>1, <1>5, <1>6, <1>7, <1>8 DEF SubmitInv, NoJob, Gone

LEMMA SubmitEnds ==
    ASSUME TypeInv, KubeletInv, NEW p \in Pods, SubmitInv(p), p \notin gaveUp',
           \/ \E a \in outbox : CreateAnswer(a.call, a.reply)
           \/ \E a \in outbox : DeleteAnswer(a.call, a.reply)
           \/ \E a \in outbox : StatusAnswer(a.call, a.reply)
           \/ \E c \in Calls : CallTimesOut(c)
           \/ GatewayRestarts
    PROVE  SubmitInv(p)'
  <1>0. calls \in [Calls -> Call] /\ vk \in [Pods -> {"new", "creating", "created",
                                                    "deleting", "deleted"}]
    BY DEF TypeInv, TypeOK, GatewayTypeOK, KubeletTypeOK
  <1>1. ASSUME NEW a \in outbox, CreateAnswer(a.call, a.reply)
        PROVE  SubmitInv(p)'
    <2> DEFINE c == a.call
    <2>1. /\ c \in Calls /\ Forget({c}) /\ unsent' = unsent \ {c}
          /\ \A d \in Calls \ {c} : calls'[d] = calls[d]
      BY <1>1, AnswerHandled
    <2>2. /\ UNCHANGED <<job, copies, spared>> /\ calls[c].op = "create"
          /\ calls' = [calls EXCEPT ![c] = Idle]
          /\ vk' = IF a.reply.kind = "ok" THEN [vk EXCEPT ![calls[c].pod] = "created"]
                                         ELSE vk
      BY <1>1 DEF CreateAnswer, Receive, CreateReply, End, Acknowledged, backendVars
    <2>3. ~CreateOf(c, p)' /\ ~DeleteOf(c, p)'
      BY <1>0, <2>1, <2>2 DEF CreateOf, DeleteOf, Idle
    <2>4. CASE calls[c].pod # p
      <3>1. vk'[p] = vk[p] /\ ~CreateOf(c, p)
        BY <1>0, <2>2, <2>4 DEF CreateOf
      <3> QED BY <2>1, <2>2, <2>3, <3>1, SubmitEnd
    <2>5. CASE calls[c].pod = p
      <3>1. ~Creating(p) /\ (a.reply.kind # "ok" => job[p] = "none")
        BY <2>2, <2>5 DEF SubmitInv, CreateOf
      <3>2. \/ vk'[p] = "created"
            \/ vk'[p] = vk[p] /\ NoJob(p)
        BY <1>0, <2>2, <2>5, <3>1 DEF NoJob
      <3> QED BY <2>1, <2>2, <2>3, <3>1, <3>2, SubmitEnd
    <2> QED BY <2>4, <2>5
  <1>2. ASSUME NEW a \in outbox, DeleteAnswer(a.call, a.reply)
        PROVE  SubmitInv(p)'
    <2> DEFINE c == a.call
    <2>1. /\ c \in Calls /\ Forget({c}) /\ unsent' = unsent \ {c}
          /\ \A d \in Calls \ {c} : calls'[d] = calls[d]
      BY <1>2, AnswerHandled
    <2>2. /\ UNCHANGED <<job, copies, spared>> /\ calls[c].op = "delete"
          /\ calls' = [calls EXCEPT ![c] = Idle]
          /\ vk' = IF a.reply.kind = "ok" THEN [vk EXCEPT ![calls[c].pod] = "deleted"]
                                         ELSE vk
      BY <1>2 DEF DeleteAnswer, Receive, DeleteReply, End, Acknowledged, backendVars
    <2>3. ~CreateOf(c, p)' /\ ~DeleteOf(c, p)' /\ ~CreateOf(c, p)
      BY <1>0, <2>1, <2>2 DEF CreateOf, DeleteOf, Idle
    <2>4. vk'[p] = vk[p] \/ (vk'[p] = "deleted" /\ Gone(p) /\ ~Creating(p))
      <3>1. CASE calls[c].pod = p /\ a.reply.kind = "ok"
        <4>1. vk[p] = "deleting" /\ vk'[p] = "deleted"
          BY <1>0, <2>1, <2>2, <3>1 DEF KubeletInv
        <4>2. Gone(p) /\ ~Creating(p)
          BY <2>2, <3>1, <4>1 DEF SubmitInv, DeleteOf
        <4> QED BY <4>1, <4>2
      <3>2. CASE ~(calls[c].pod = p /\ a.reply.kind = "ok")
        BY <1>0, <2>2, <3>2
      <3> QED BY <3>1, <3>2
    <2> QED BY <2>1, <2>2, <2>3, <2>4, SubmitEnd
  <1>3. ASSUME NEW a \in outbox, StatusAnswer(a.call, a.reply)
        PROVE  SubmitInv(p)'
    <2> DEFINE c == a.call
    <2>1. /\ c \in Calls /\ Forget({c}) /\ unsent' = unsent \ {c}
          /\ \A d \in Calls \ {c} : calls'[d] = calls[d]
          /\ UNCHANGED <<job, copies, spared>> /\ vk' = vk
      BY <1>3, AnswerHandled DEF StatusAnswer, Receive, backendVars
    <2>2. /\ calls[c].op = "status"
          /\ calls'[c].op \in {"status", "idle"}
      <3>1. \/ StatusUnknown(c, a.reply) \/ StatusFailed(c, a.reply)
            \/ StatusUnreadable(c, a.reply) \/ StatusReply(c, a.reply)
        BY <1>3 DEF StatusAnswer
      <3>2. calls[c].op = "status"
        BY <3>1 DEF StatusUnknown, StatusFailed, StatusUnreadable, StatusReply, Awaits
      <3>3. CASE StatusUnknown(c, a.reply)
        BY <1>0, <2>1, <3>2, <3>3, CallFields DEF StatusUnknown, End, Idle
      <3>4. CASE StatusFailed(c, a.reply) \/ StatusUnreadable(c, a.reply)
        BY <1>0, <2>1, <3>2, <3>4 DEF StatusFailed, StatusUnreadable, End, Idle
      <3>5. CASE StatusReply(c, a.reply)
        BY <1>0, <2>1, <3>2, <3>5 DEF StatusReply, End, Idle
      <3> QED BY <3>1, <3>2, <3>3, <3>4, <3>5
    <2>3. ~CreateOf(c, p)' /\ ~DeleteOf(c, p)' /\ ~CreateOf(c, p)
      BY <2>2 DEF CreateOf, DeleteOf
    <2> QED BY <2>1, <2>3, SubmitEnd
  <1>4. ASSUME NEW c \in Calls, CallTimesOut(c)
        PROVE  SubmitInv(p)'
    <2>1. /\ Forget({c}) /\ unsent' = unsent \ {c}
          /\ calls' = [calls EXCEPT ![c] = Idle]
          /\ UNCHANGED <<job, copies, spared>> /\ vk' = vk
          /\ CreateOf(c, p) => c \in unsent
      BY <1>4 DEF CallTimesOut, Timeout, End, Lost, backendVars, CreateOf
    <2>2. ~CreateOf(c, p)' /\ ~DeleteOf(c, p)'
      BY <1>0, <2>1 DEF CreateOf, DeleteOf, Idle
    <2>3. CreateOf(c, p) => NoJob(p)
      BY <2>1 DEF SubmitInv
    <2>4. \A d \in Calls \ {c} : calls'[d] = calls[d]
      BY <1>0, <2>1
    <2> QED BY <2>1, <2>2, <2>3, <2>4, SubmitEnd
  <1>5. CASE GatewayRestarts
    <2>1. /\ Forget(Calls) /\ unsent' = unsent \ Calls
          /\ calls' = [d \in Calls |-> Idle]
          /\ UNCHANGED <<job, copies, spared>> /\ vk' = vk
          /\ \A d \in Calls : CreateOf(d, p) => d \in unsent
      BY <1>5 DEF GatewayRestarts, GatewayRestart, Lost, backendVars, CreateOf
    <2>2. \A d \in Calls : ~CreateOf(d, p)' /\ ~DeleteOf(d, p)'
      BY <2>1 DEF CreateOf, DeleteOf, Idle
    <2>3. \A d \in Calls : CreateOf(d, p) => NoJob(p)
      BY <2>1 DEF SubmitInv
    <2> QED BY <2>1, <2>2, <2>3, SubmitEnd
  <1> QED BY <1>1, <1>2, <1>3, <1>4, <1>5

LEMMA SubmitsInvStep ==
    ASSUME TypeInv, KubeletInv, SubmitsInv, [Next]_vars
    PROVE  SubmitsInv'
  <1>1. gaveUp \subseteq gaveUp'
    BY DEF Next, GatewayActs, ProviderActs, JobsProgress, CreateCall, CreateFailsEarly,
           DeleteCall, StatusCallCached, StatusCall, CreateAnswer, DeleteAnswer,
           StatusAnswer, Receive, StatusCallAgain, Send, CallTimesOut, GatewayRestarts,
           Lost, kubeletVars, vars
  <1> SUFFICES ASSUME NEW p \in Pods, p \notin gaveUp', SubmitInv(p)
               PROVE  SubmitInv(p)'
    BY <1>1 DEF SubmitsInv
  <1>2. ASSUME UNCHANGED <<job, copies, spared, calls, unsent, vk, outbox>>, reqs' \subseteq reqs
        PROVE  SubmitInv(p)'
    BY <1>2 DEF SubmitInv, NoJob, Gone, Creating, CreateOf, DeleteOf
  <1>3. CASE UNCHANGED vars
    BY <1>2, <1>3 DEF vars, gatewayVars, providerVars, backendVars, kubeletVars
  <1>4. CASE JobsProgress
    BY <1>4, SubmitJobs
  <1>5. CASE ProviderActs
    <2>1. UNCHANGED <<calls, unsent, vk>>
      BY <1>5 DEF ProviderActs, gatewayVars, kubeletVars
    <2>2. ASSUME NEW m \in reqs, Serve(m)
          PROVE  SubmitInv(p)'
      BY <2>1, <2>2, SubmitServesCreate, SubmitServesOther
    <2>3. ASSUME NEW r \in Responders,
                 \/ StartResponder(r) \/ ResyncDone(r) \/ ResyncGivesUp(r)
                 \/ Resync(r) \/ Stop(r)
          PROVE  SubmitInv(p)'
      BY <1>2, <2>1, <2>3
      DEF StartResponder, ResyncDone, ResyncGivesUp, Resync, ResyncAnswered, Stop,
          StopResponder, backendVars
    <2> QED BY <1>5, <2>2, <2>3 DEF ProviderActs
  <1>6. CASE GatewayActs
    <2>1. ASSUME NEW c \in Calls, StatusCallAgain(c)
          PROVE  SubmitInv(p)'
      BY <2>1, SubmitPolls
    <2> QED BY <1>6, <2>1, SubmitCalls, SubmitPolls, SubmitSend, SubmitEnds DEF GatewayActs
  <1> QED BY <1>3, <1>4, <1>5, <1>6 DEF Next

LEMMA SubmitsInvCorrect == Spec => []SubmitsInv
  <1>1. Init => TypeInv /\ KubeletInv /\ SubmitsInv
    BY TypeInvInit, KubeletInvInit, SubmitsInvInit
  <1>2. TypeInv /\ KubeletInv /\ SubmitsInv /\ [Next]_vars
            => TypeInv' /\ KubeletInv' /\ SubmitsInv'
    BY TypeInvStep, KubeletInvStep, SubmitsInvStep
  <1> QED BY <1>1, <1>2, PTL DEF Spec

\* Unless a create of it went unanswered, a pod whose delete was acknowledged
\* has no request under way that could become a job, and no job, if it is not
\* one its provider left after the batch system failed to delete it.
THEOREM DeletedMeansGoneCorrect == Spec => []DeletedMeansGone
  <1>1. SubmitsInv => DeletedMeansGone
    BY DEF SubmitsInv, SubmitInv, Gone, DeletedMeansGone
  <1> QED BY <1>1, SubmitsInvCorrect, PTL

\* Unless a create of it went unanswered, a pod never has a second job, however
\* many responders serve its pool and however often its create is retried.
THEOREM OneJobPerPodCorrect == Spec => []OneJobPerPod
  <1>1. ASSUME SubmitsInv, NEW p \in Pods \ gaveUp
        PROVE  copies[p] <= 1
    <2>1. copies[p] = IF job[p] = "none" THEN 0 ELSE 1
      BY <1>1 DEF SubmitsInv, SubmitInv
    <2> QED BY <2>1
  <1>2. SubmitsInv => OneJobPerPod
    BY <1>1 DEF OneJobPerPod
  <1> QED BY <1>2, SubmitsInvCorrect, PTL
==============================================================================
