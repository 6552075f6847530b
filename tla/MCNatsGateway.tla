---------------------------- MODULE MCNatsGateway ----------------------------
(* An instance of NatsGateway for TLC: one pod of a pool, and one whose       *)
(* tolerations name none, so that it can be deleted but not created.          *)
EXTENDS NatsGateway, TLC

CONSTANTS p1, p2

OneTolerates == p1 :> "pool" @@ p2 :> NoPool
==============================================================================
