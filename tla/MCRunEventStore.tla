--------------------------- MODULE MCRunEventStore ---------------------------
(* Two threads of the process that created the run, one of another process.*)
EXTENDS RunEventStore

CONSTANTS p1, p2, a, b, c

MCHome == (a :> p1) @@ (b :> p1) @@ (c :> p2)
=============================================================================
