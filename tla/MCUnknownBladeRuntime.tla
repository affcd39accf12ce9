------------------------ MODULE MCUnknownBladeRuntime ------------------------
(* One experiment with at most two fine runs.                              *)
EXTENDS UnknownBladeRuntime
=============================================================================
