----------------------------- MODULE MCJobScript -----------------------------
(* JobScript for TLC: a job of an init container and two containers, and one   *)
(* of a single container, which share the cached image.                        *)
EXTENDS JobScript

CONSTANTS j1, j2

MCInits == [j \in Jobs |-> IF j = j1 THEN <<"i">> ELSE <<>>]
MCMains == [j \in Jobs |-> IF j = j1 THEN <<"a", "b">> ELSE <<"a">>]
==============================================================================
