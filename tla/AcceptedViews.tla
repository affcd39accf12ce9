---------------------------- MODULE AcceptedViews ----------------------------
(***************************************************************************)
(* What a perception engine promises to the workflow above it.             *)
(*                                                                         *)
(* A logical view is accepted at most once, as an attempt that no other    *)
(* view was accepted as, and stays accepted whatever crashes.  The window  *)
(* of sources that the safety map is built from gains an attempt only when *)
(* that attempt is accepted; it may lose members then, when it is handed   *)
(* on to the fine scan, or with the process.                               *)
(***************************************************************************)
CONSTANTS
    Views,      \* the logical views
    Attempts,   \* the captures made for them
    None        \* no attempt

VARIABLES
    accepted,   \* the attempt accepted for a view, or None
    window      \* the accepted attempts that the map is built from

vars == <<accepted, window>>

Init ==
    /\ accepted = [v \in Views |-> None]
    /\ window = {}

Accept(v, a) ==
    /\ accepted[v] = None
    /\ \A u \in Views : accepted[u] # a
    /\ accepted' = [accepted EXCEPT ![v] = a]
    /\ a \in window' /\ window' \subseteq window \cup {a}

\* the fine scan takes the window over, perhaps without its newest source
HandOn ==
    /\ \E a \in window : window' = window \ {a}
    /\ UNCHANGED accepted

Lose ==
    /\ window' = {}
    /\ UNCHANGED accepted

Next ==
    \/ \E v \in Views, a \in Attempts : Accept(v, a)
    \/ HandOn
    \/ Lose

Spec == Init /\ [][Next]_vars
=============================================================================
