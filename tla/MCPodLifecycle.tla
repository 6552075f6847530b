--------------------------- MODULE MCPodLifecycle ---------------------------
(* Instances of PodLifecycle for TLC: every pod and responder is of one pool. *)
EXTENDS PodLifecycle

OnePool == [p \in Pods |-> "pool"]
AllServe == [r \in Responders |-> "pool"]
==============================================================================
