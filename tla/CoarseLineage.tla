---------------------------- MODULE CoarseLineage ----------------------------
(***************************************************************************)
(* What the coarse scan promises of its science: the views it has accepted *)
(* form one lineage that only grows, by the view of the capture in         *)
(* progress and once per capture; a crash, a stop or a failed write takes  *)
(* nothing from it; and the fine scan's reference is built from exactly    *)
(* the lineage it is handed over with.                                     *)
(***************************************************************************)
EXTENDS Naturals, Sequences

CONSTANTS
    Targets,        \* viewpoints a capture may be made for
    MinViews,       \* policy.minimum_total_views
    None            \* no capture

VARIABLES
    lineage,        \* the targets of the accepted views
    capturing,      \* the target of the capture in progress, or None
    reference       \* the views of the fine reference, once there is one

vars == <<lineage, capturing, reference>>

Init == lineage = <<>> /\ capturing = None /\ reference = <<>>

Capture(t) ==
    /\ reference = <<>> /\ capturing = None
    /\ capturing' = t
    /\ UNCHANGED <<lineage, reference>>

Accept ==
    /\ capturing # None
    /\ lineage' = Append(lineage, capturing)
    /\ capturing' = None
    /\ UNCHANGED reference

Abandon ==
    /\ capturing # None
    /\ capturing' = None
    /\ UNCHANGED <<lineage, reference>>

HandOver ==
    /\ reference = <<>> /\ capturing = None
    /\ Len(lineage) >= MinViews
    /\ reference' = lineage
    /\ UNCHANGED <<lineage, capturing>>

Next == (\E t \in Targets : Capture(t)) \/ Accept \/ Abandon \/ HandOver

Spec == Init /\ [][Next]_vars
=============================================================================
