-------------------------- MODULE MCPerceptionCycle --------------------------
(* The perception engine with three captures of two views.  A cell is seen   *)
(* through from everywhere, one is hit from the middle viewpoint, which is    *)
(* independent of no other, and one from the last viewpoint only.            *)
EXTENDS PerceptionCycle

MCSees == [p \in Poses |->
    CASE p = 0 -> [free |-> {"near", "middle", "far"}, hit |-> {}]
      [] p = 1 -> [free |-> {"near"}, hit |-> {"middle"}]
      [] OTHER -> [free |-> {"near", "middle"}, hit |-> {"far"}]]
=============================================================================
