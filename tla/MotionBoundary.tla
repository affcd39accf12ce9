--------------------------- MODULE MotionBoundary ---------------------------
(***************************************************************************)
(* What the stop boundary between two robot segments promises, without     *)
(* threads, locks, transports or generation counters.                      *)
(*                                                                         *)
(* The arm is latched or it is not.  An operator approval is given for one *)
(* latched boundary, any later stop withdraws it, and it releases the      *)
(* latch at most once.  A servo command may be admitted only while the     *)
(* latch is released; one admitted command may still land after a stop.    *)
(* An operator stop closes the boundary for good: nothing is released any  *)
(* more, and once the stop has been acknowledged the arm is idle forever.  *)
(***************************************************************************)
VARIABLES
    latched,        \* no new servo command may be admitted
    approved,       \* an approval of exactly this latched boundary is outstanding
    closed,         \* an operator stop has latched the arm
    command,        \* an admitted servo command has not reached the controller yet
    servoing,       \* the controller follows servo targets
    acknowledged    \* an operator stop has been confirmed by the controller

vars == <<latched, approved, closed, command, servoing, acknowledged>>

TypeOK ==
    /\ latched \in BOOLEAN
    /\ approved \in BOOLEAN
    /\ closed \in BOOLEAN
    /\ command \in BOOLEAN
    /\ servoing \in BOOLEAN
    /\ acknowledged \in BOOLEAN

Init ==
    /\ latched \in BOOLEAN
    /\ approved = FALSE
    /\ closed = FALSE
    /\ command = FALSE
    /\ servoing = FALSE
    /\ acknowledged = FALSE

(* A stop of the program itself: it withdraws every approval given before. *)
Stop ==
    /\ latched' = TRUE
    /\ approved' = FALSE
    /\ UNCHANGED <<closed, command, servoing, acknowledged>>

OperatorStop ==
    /\ latched' = TRUE
    /\ approved' = FALSE
    /\ closed' = TRUE
    /\ UNCHANGED <<command, servoing, acknowledged>>

Approve ==
    /\ latched
    /\ approved' = TRUE
    /\ UNCHANGED <<latched, closed, command, servoing, acknowledged>>

Withdraw ==
    /\ approved' = FALSE
    /\ UNCHANGED <<latched, closed, command, servoing, acknowledged>>

Release ==
    /\ latched /\ approved /\ ~closed
    /\ latched' = FALSE
    /\ approved' = FALSE
    /\ UNCHANGED <<closed, command, servoing, acknowledged>>

Admit ==
    /\ ~latched /\ ~command
    /\ command' = TRUE
    /\ UNCHANGED <<latched, approved, closed, servoing, acknowledged>>

Land ==
    /\ command
    /\ command' = FALSE
    /\ servoing' \in {servoing, TRUE}
    /\ UNCHANGED <<latched, approved, closed, acknowledged>>

Halt ==
    /\ servoing' = FALSE
    /\ UNCHANGED <<latched, approved, closed, command, acknowledged>>

(* The confirmation of an operator stop comes with the idle controller.    *)
Acknowledge ==
    /\ closed /\ latched /\ ~command
    /\ servoing' = FALSE
    /\ acknowledged' = TRUE
    /\ UNCHANGED <<latched, approved, closed, command>>

Next ==
    \/ Stop \/ OperatorStop
    \/ Approve \/ Withdraw \/ Release
    \/ Admit \/ Land \/ Halt
    \/ Acknowledge

Spec == Init /\ [][Next]_vars

-----------------------------------------------------------------------------
(* After a confirmed operator stop the controller is idle, no command is on *)
(* its way and the latch is engaged, now and in every later state.          *)
AcknowledgedStopIsFinal == acknowledged => latched /\ ~command /\ ~servoing

=============================================================================
