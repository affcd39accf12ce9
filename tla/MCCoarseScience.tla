--------------------------- MODULE MCCoarseScience ---------------------------
(* Model checking of CoarseScience.  Three views are the fewest with a        *)
(* generation that is neither the first nor the last; with a minimum of two   *)
(* a promotion can be interrupted and its model be stale afterwards.          *)
EXTENDS CoarseScience
=============================================================================
