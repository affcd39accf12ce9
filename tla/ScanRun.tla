------------------------------- MODULE ScanRun -------------------------------
(***************************************************************************)
(* What one stop-and-capture run promises to its operator.                 *)
(*                                                                         *)
(* A run is new, active or over, and never comes back.  While it is active *)
(* it alternates between publishing safety maps, with the arm at rest, and *)
(* moving the arm.  A stop request seals the map: nothing is published any *)
(* more, except a map whose commit had been decided before the request.  A *)
(* stop that was verified to be stationary ends all motion for good.       *)
(***************************************************************************)
EXTENDS Naturals

VARIABLES
    life,       \* "new", "active" or "over"
    map,        \* the number of maps published so far
    moving,     \* the arm may be following a trajectory
    sealed,     \* an operator stop request has closed the map
    verified    \* an operator stop was confirmed and seen to be stationary

vars == <<life, map, moving, sealed, verified>>

TypeOK ==
    /\ life \in {"new", "active", "over"}
    /\ map \in Nat
    /\ moving \in BOOLEAN
    /\ sealed \in BOOLEAN
    /\ verified \in BOOLEAN

Init ==
    /\ life = "new"
    /\ map = 0
    /\ moving = FALSE
    /\ sealed = FALSE
    /\ verified = FALSE

Begin ==
    /\ life = "new"
    /\ life' \in {"active", "over"}
    /\ UNCHANGED <<map, moving, sealed, verified>>

\* the map published last may be one whose commit a stop request came too late for
Publish ==
    /\ life = "active"
    /\ ~moving /\ ~sealed
    /\ map' = map + 1
    /\ sealed' \in BOOLEAN
    /\ UNCHANGED <<life, moving, verified>>

Depart ==
    /\ life = "active"
    /\ ~verified
    /\ moving' = TRUE
    /\ UNCHANGED <<life, map, sealed, verified>>

Halt ==
    /\ moving' = FALSE
    /\ UNCHANGED <<life, map, sealed, verified>>

Seal ==
    /\ life # "new"
    /\ sealed' = TRUE
    /\ UNCHANGED <<life, map, moving, verified>>

Verify ==
    /\ life # "new"
    /\ ~moving
    /\ verified' = TRUE
    /\ UNCHANGED <<life, map, moving, sealed>>

\* the run may also end on a failed commit, which seals it
Finish ==
    /\ life = "active"
    /\ life' = "over"
    /\ sealed' \in {sealed, TRUE}
    /\ UNCHANGED <<map, moving, verified>>

Next == Begin \/ Publish \/ Depart \/ Halt \/ Seal \/ Verify \/ Finish

Spec == Init /\ [][Next]_vars

=============================================================================
