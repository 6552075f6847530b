------------------------------ MODULE Interlink ------------------------------
(***************************************************************************)
(* What every part of the interLink NATS plugin agrees on: the pods, the   *)
(* resource pools they tolerate, and the answers that travel over NATS     *)
(* (NatsResponse and JobStatus of natsprovider/utils.py).                  *)
(*                                                                         *)
(* A pod stands for its job name, get_readable_jobid(pod), the key of the  *)
(* redis hashes and the last token of the NATS subjects.                   *)
(***************************************************************************)

CONSTANTS
    Pods,       \* the pods the virtual kubelet handles
    Pools,      \* the resource pools
    PoolOf,     \* the pool of each pod: its toleration pool.vk.io
    NoPool,     \* a pod whose tolerations name no pool, or more than one
    Workers,    \* slots for the /create and /delete calls in flight
    Pollers     \* slots for the /status calls in flight

ASSUME PoolAssumption ==
    /\ NoPool \notin Pools
    /\ PoolOf \in [Pods -> Pools \cup {NoPool}]

ASSUME SlotAssumption == Workers \cap Pollers = {}

\* The REST calls the gateway may be serving; each awaits at most one NATS
\* request, so a slot is also the inbox of that request's answer.
Calls == Workers \cup Pollers

(***************************************************************************)
(* JobStatus.  The tarball is empty, or the return codes it holds are all  *)
(* zero ("good"), or one of them is not, or is missing ("bad"), or it is   *)
(* one process_logs cannot read ("garbled"): not a tar file, a log that is *)
(* not UTF-8, a return code file that holds no number.                     *)
(***************************************************************************)
Logs == {"empty", "good", "bad", "garbled"}

JobStatus ==
    [phase : {"pending", "running", "unknown"}, logs : {"empty"}]
        \cup [phase : {"succeeded", "failed"}, logs : Logs]

Terminal(status) == status.phase \in {"succeeded", "failed"}

(***************************************************************************)
(* NatsResponse: a 2xx response to create or delete ("ok"), a 2xx response *)
(* to status that carries a JobStatus, or a 4xx/5xx one whose data are     *)
(* bytes ("error").  NATS itself answers "noResponders" to a request on a  *)
(* subject nobody is subscribed to.                                        *)
(***************************************************************************)
Failures == {"error", "noResponders"}
Acks == {"ok"} \cup Failures

Reply == [kind : Acks] \cup [kind : {"status"}, status : JobStatus]
==============================================================================
