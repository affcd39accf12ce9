------------------------ MODULE MCStopScanCoordinator ------------------------
(* Model checking of StopScanCoordinator.  Two cycles let a segment follow a  *)
(* capture and a capture follow a segment; the second request of an operator  *)
(* retries a stop that failed or comes after one that was verified.           *)
EXTENDS StopScanCoordinator
=============================================================================
