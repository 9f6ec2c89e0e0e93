----------------------------- MODULE JobServer ------------------------------
(***************************************************************************)
(* What the merge queue promises of its jobs, whoever runs them and        *)
(* whatever lock and broker are between: one at a time, each at least      *)
(* once, none but accepted ones and none again after its end.  A lost      *)
(* delivery or a job that takes too long (troubles) makes it weaker.       *)
(***************************************************************************)
CONSTANT Requests

VARIABLES
    accepted,  \* jobs whose client was told that they are queued
    running,   \* jobs some consumer is at
    merged,    \* jobs that have run
    finished,  \* jobs that are over
    troubles   \* what has happened so far

jobs == <<accepted, running, merged, finished, troubles>>

Init ==
    /\ accepted = {} /\ running = {} /\ merged = {} /\ finished = {}
    /\ troubles = {}

Accept(m) ==
    /\ m \notin accepted
    /\ accepted' = accepted \union {m}
    /\ UNCHANGED <<running, merged, finished, troubles>>

\* A job runs alone and once; beside another only after some trouble, and again only
\* after its delivery was lost.
Begin(m) ==
    /\ m \in accepted \ finished
    /\ running # {} => troubles # {}
    /\ m \in merged => "redelivery" \in troubles
    /\ running' = running \union {m}
    /\ UNCHANGED <<accepted, merged, finished, troubles>>

\* After a redelivery another consumer may still be at it.
End(m) ==
    /\ m \in running
    /\ merged' = merged \union {m}
    /\ \/ running' = running \ {m}
       \/ "redelivery" \in troubles /\ UNCHANGED running
    /\ UNCHANGED <<accepted, finished, troubles>>

Confirm(m) ==
    /\ m \in merged
    /\ finished' = finished \union {m}
    /\ UNCHANGED <<accepted, running, merged, troubles>>

\* A restart abandons what it runs; it may run again.
Redelivery ==
    /\ troubles' = troubles \union {"redelivery"}
    /\ running' \in SUBSET running
    /\ UNCHANGED <<accepted, merged, finished>>

Overrun ==
    /\ troubles' = troubles \union {"overrun"}
    /\ UNCHANGED <<accepted, running, merged, finished>>

Next ==
    \/ \E m \in Requests : Accept(m) \/ Begin(m) \/ End(m) \/ Confirm(m)
    \/ Redelivery
    \/ Overrun

Spec == Init /\ [][Next]_jobs
=============================================================================
