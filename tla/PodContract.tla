----------------------------- MODULE PodContract -----------------------------
(***************************************************************************)
(* What the plugin promises the virtual kubelet about the pods it reports: *)
(* a terminal report is the outcome of a job that did end, and it stands   *)
(* until the pod has been deleted.                                         *)
(***************************************************************************)
CONSTANTS Pods, None

VARIABLES
    ended,  \* per pod, the outcomes with which its jobs ended
    told,   \* per pod, the last report
    gone    \* the pods whose deletion was acknowledged

contractVars == <<ended, told, gone>>

Outcomes == {"good", "bad", "garbled"}

\* What may be reported of a pod whose jobs ended so far as "ended" says:
\* "lost" is a job that ended and left no logs, "missing" one not found.  Of
\* one that ended with logs nobody can read, no outcome may be made up.
Reportable(p) ==
    {"waiting", "running", "missing"}
        \cup {report \in {"completed"} : "good" \in ended[p]}
        \cup {report \in {"failed"} : "bad" \in ended[p]}
        \cup {report \in {"lost"} : ended[p] # {}}

Final == {"completed", "failed", "lost"}

Init ==
    /\ ended = [p \in Pods |-> {}]
    /\ told = [p \in Pods |-> None]
    /\ gone = {}

JobEnds(p, outcome) ==
    /\ ended' = [ended EXCEPT ![p] = @ \cup {outcome}]
    /\ UNCHANGED <<told, gone>>

ReportPod(p, report) ==
    /\ report \in Reportable(p)
    /\ told[p] \in Final /\ p \notin gone => report = told[p]
    /\ told' = [told EXCEPT ![p] = report]
    /\ UNCHANGED <<ended, gone>>

PodDeleted(p) ==
    /\ gone' = gone \cup {p}
    /\ UNCHANGED <<ended, told>>

Next == \E p \in Pods :
    \/ \E outcome \in Outcomes : JobEnds(p, outcome)
    \/ \E report \in Reportable(p) : ReportPod(p, report)
    \/ PodDeleted(p)

Spec == Init /\ [][Next]_contractVars
==============================================================================
