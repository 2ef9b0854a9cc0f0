----------------------------- MODULE JobLedger -----------------------------
(***************************************************************************)
(* What a pool of workers over self-spawning jobs promises, with no worker *)
(* in it: new jobs come only from unfinished jobs, and the pool is over    *)
(* only when no job is left, unless it was told to stop or was damaged by  *)
(* a panic.  Module WorkerPool implements it.                              *)
(***************************************************************************)
CONSTANTS Jobs, RootJob

VARIABLES
    outstanding,    \* jobs pushed and not completed
    stop,           \* a cancellation was requested
    damaged,        \* a worker was lost
    phase           \* "running" or "joined"

ledgerVars == <<outstanding, stop, damaged, phase>>

Init ==
    /\ outstanding = {RootJob}
    /\ stop = FALSE
    /\ damaged = FALSE
    /\ phase = "running"

\* Work comes only from work.
Spawn(j) ==
    /\ phase = "running"
    /\ outstanding # {}
    /\ outstanding' = outstanding \union {j}
    /\ UNCHANGED <<stop, damaged, phase>>

Complete(j) ==
    /\ phase = "running"
    /\ outstanding' = outstanding \ {j}
    /\ UNCHANGED <<stop, damaged, phase>>

RequestStop ==
    /\ stop' = TRUE
    /\ UNCHANGED <<outstanding, damaged, phase>>

Damage ==
    /\ phase = "running"
    /\ damaged' = TRUE
    /\ UNCHANGED <<outstanding, stop, phase>>

End ==
    /\ phase = "running"
    /\ outstanding = {} \/ stop \/ damaged
    /\ phase' = "joined"
    /\ UNCHANGED <<outstanding, stop, damaged>>

Next ==
    \/ \E j \in Jobs \ outstanding : Spawn(j)
    \/ \E j \in outstanding : Complete(j)
    \/ RequestStop
    \/ Damage
    \/ End

Spec == Init /\ [][Next]_ledgerVars
=============================================================================
