------------------------------ MODULE MCKueue ------------------------------
(* KueueController for TLC: one MasterQueue whose resource an administrator    *)
(* changes from a queue of two pools that lends to another one to a queue of   *)
(* one of these pools and a local flavor that lends to nobody, or back.        *)
EXTENDS KueueController

CONSTANTS p1, p2, b1, subject

MasterQueueSpec(local, pools, lends) ==
    [local |-> local, pools |-> pools, lends |-> lends, link |-> subject]

MCSpecs ==
    {MasterQueueSpec(FALSE, {p1, p2}, {b1}),
     MasterQueueSpec(TRUE, {p1}, {})}
==============================================================================
