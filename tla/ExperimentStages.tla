-------------------------- MODULE ExperimentStages --------------------------
(***************************************************************************)
(* What the chain of an unknown-blade experiment promises to whoever       *)
(* resumes it: the experiment goes forward one stage at a time, and once   *)
(* the fine scan has begun it is the scan of one run for good.             *)
(***************************************************************************)
CONSTANTS
    Runs,   \* the fine runs
    None    \* no run

VARIABLES
    stage,  \* the stage that a resume would continue
    fine    \* the run of the fine scan, or None

vars == <<stage, fine>>

Init == stage = "new" /\ fine = None

Advance(from, to) == stage = from /\ stage' = to

Begin == Advance("new", "coarse") /\ UNCHANGED fine
Prepare == Advance("coarse", "prepared") /\ UNCHANGED fine
StartFine == Advance("prepared", "fine") /\ fine' \in Runs
Complete == Advance("fine", "complete") /\ UNCHANGED fine

Next == Begin \/ Prepare \/ StartFine \/ Complete

Spec == Init /\ [][Next]_vars
=============================================================================
