------------------------- MODULE StopScanCoordinator -------------------------
(***************************************************************************)
(* The stop-and-capture coordinator (workflows/stop_scan_coordinator.py):  *)
(* one thread runs transactions (start, capture, plan, execute) under a    *)
(* non-blocking operation lock; an operator thread runs request_stop with- *)
(* out that lock; both record phases through _transition, whose event      *)
(* store may fail.  The arm is seen through its stop latch and generation  *)
(* (GuardedMotion has the detail); perception, selection and preflight are *)
(* external calls that succeed or raise.                                   *)
(*                                                                         *)
(* txPc and opPc are the program counters of the two threads.  A step of a *)
(* transaction that raises goes to its except handler and, last, to the    *)
(* finally block of _exclusive_operation ("exit", "record", "unlock").     *)
(***************************************************************************)
EXTENDS Naturals

CONSTANTS
    MaxCycles,      \* bound: perception cycles of one run
    MaxRequests,    \* bound: calls of request_stop
    None            \* Python's None

ASSUME BoundsAssumption ==
    /\ MaxCycles \in Nat
    /\ MaxRequests \in Nat
    /\ None \notin Nat

VARIABLES
    phase,          \* _phase
    prepared,       \* _prepared: the map generation its preflight was made on
    storeFailed,    \* _event_store_failure_reason is set
    cycle,          \* _cycle_index
    observation,    \* _observation: the map generation it belongs to
    readiness,      \* _post_motion_capture_readiness: its stop generation
    accepted,       \* the newest cycle whose sources perception has accepted
    published,      \* publisher._current: its generation, 0 before the first
    frozen,         \* publisher._frozen_generation_id is set
    armGeneration,  \* the arm's stop generation
    latched,        \* the arm's stop latch
    motion,         \* the arm: "driven" by commands, "slowing" to idle, at "rest"
    permit,         \* stop generation of the permit issued last
    watchdog,       \* a deadline watchdog can still fire
    outcome,        \* how the execution is failing, if it is
    txPc,           \* transaction thread
    raised,         \* the transaction left its body with an exception
    observed,       \* stop_observed in _exclusive_operation
    stopRequested,  \* _stop_requested
    acknowledged,   \* _stop_transport_acknowledged
    verified,       \* _stop_stationarity_evidence is set
    opPc,           \* operator thread
    requests        \* calls of request_stop so far

record == <<phase, prepared, storeFailed>>
perception == <<cycle, observation, readiness, accepted, published>>
arm == <<armGeneration, latched, motion>>
execution == <<frozen, permit, watchdog, outcome>>
transaction == <<txPc, raised, observed>>
operator == <<stopRequested, acknowledged, verified, opPc, requests>>
vars == <<record, perception, arm, execution, transaction, operator>>

Phases ==
    {"idle", "bootstrap_map_required", "waiting_settled", "capturing",
     "inferring", "publishing_map", "bootstrap_motion_ready", "map_ready",
     "planning", "preflighting", "waiting_approval", "executing", "settling",
     "awaiting_capture", "motion_blocked", "complete", "aborted", "failed"}

Terminal == {"complete", "aborted", "failed"}
Capturable == {"bootstrap_map_required", "awaiting_capture", "motion_blocked"}
Plannable == {"bootstrap_motion_ready", "map_ready"}
RefusesStop == {"idle", "complete", "failed"}

CapturePcs == {"boundary", "captureSend", "assert", "settle", "reused", "shoot",
               "infer", "finalize", "accept", "swap", "tail"}
PlanPcs == {"select", "read", "propose", "preflight"}
ExecutePcs == {"freeze", "authorize", "approve", "admit", "release", "stream",
               "write", "endLatch", "endSend", "settling", "segmentSettle",
               "snapshot", "failLatch", "failSend"}
FinallyPcs == {"exit", "record", "unlock"}

Generations == 0..MaxCycles

Init ==
    /\ phase = "idle" /\ prepared = None /\ storeFailed = FALSE
    /\ cycle = 0 /\ observation = None /\ readiness = None
    /\ accepted = 0 /\ published = 0
    /\ armGeneration = 0 /\ latched \in BOOLEAN /\ motion = "rest"
    /\ frozen = FALSE /\ permit = None /\ watchdog = FALSE /\ outcome = "ok"
    /\ txPc = "idle" /\ raised = FALSE /\ observed = FALSE
    /\ stopRequested = FALSE /\ acknowledged = FALSE /\ verified = FALSE
    /\ opPc = "idle" /\ requests = 0

-----------------------------------------------------------------------------
(* Locks, the event record and the arm                                      *)

\* _operation_lock: a transaction holds it from its first step to "unlock"
OperationLockFree == txPc = "idle" /\ opPc # "record"

\* mutant of StopRequestLockFree: the lock is never taken
NoStopRequestLock == TRUE

\* _stop_request_lock: held for the finally block's record and release
StopRequestLockFree == txPc \notin {"record", "unlock"} /\ opPc # "record"

\* mutant of Recorded: an earlier persistence failure is forgotten
ForgivingRecorded(ph, prep) ==
    /\ phase' = ph
    /\ prepared' = prep
    /\ UNCHANGED storeFailed

\* _transition returns: the event is durable and the phase is entered
Recorded(ph, prep) ==
    /\ ~storeFailed
    /\ phase' = ph
    /\ prepared' = prep
    /\ UNCHANGED storeFailed

\* _transition raises: the event store fails now or has failed before
Unrecorded ==
    /\ storeFailed' = TRUE
    /\ phase' = "failed"
    /\ prepared' = None

Transition(ph, prep) == Recorded(ph, prep) \/ Unrecorded

\* _record_requested_abort_if_needed
AbortUnrecorded == stopRequested /\ phase \notin Terminal

\* robot.stop, first half: the latch and its generation
Latch ==
    /\ armGeneration' = armGeneration + 1
    /\ latched' = TRUE
    /\ UNCHANGED motion

\* a ServoJ write holds the command I/O lock, which robot.stop awaits untimed
CommandIoLockFree == txPc # "write"

\* robot.stop, second half: under that lock the controller confirms idle
StopConfirmed ==
    /\ CommandIoLockFree
    /\ motion' = IF motion = "driven" THEN "slowing" ELSE motion
    /\ UNCHANGED <<armGeneration, latched>>

\* or it refuses, or its transport raises
StopFails ==
    /\ CommandIoLockFree
    /\ UNCHANGED arm

\* wait_until_settled with require_stop_latch returned evidence
Stationary == latched /\ motion = "rest"

PermitCurrent == armGeneration = permit

TxStep(from, to) ==
    /\ txPc = from
    /\ txPc' = to
    /\ UNCHANGED <<raised, observed>>

TxRaise(from, to) ==
    /\ txPc = from
    /\ txPc' = to
    /\ raised' = TRUE
    /\ UNCHANGED observed

-----------------------------------------------------------------------------
(* The operation lock, _exclusive_operation                                 *)

\* a transaction takes the operation lock and enters its body at pc
Enter(pc) ==
    /\ OperationLockFree
    /\ txPc' = pc
    /\ raised' = FALSE
    /\ UNCHANGED <<observed, operator>>

\* a call refused by its phase or flag check still runs the finally block
Refused ==
    /\ OperationLockFree
    /\ txPc' = "exit"
    /\ raised' = TRUE
    /\ UNCHANGED <<observed, record, perception, arm, execution, operator>>

\* the finally block takes the stop-request lock and reads stop_observed
Exit ==
    /\ txPc = "exit" /\ opPc # "record"
    /\ txPc' = "record"
    /\ observed' = stopRequested
    /\ UNCHANGED <<raised, record, perception, arm, execution, operator>>

Record ==
    /\ txPc = "record"
    /\ \/ ~AbortUnrecorded /\ UNCHANGED <<record, raised>>
       \/ AbortUnrecorded /\ Recorded("aborted", None) /\ UNCHANGED raised
       \/ AbortUnrecorded /\ Unrecorded /\ raised' = TRUE
    /\ txPc' = "unlock"
    /\ UNCHANGED <<observed, perception, arm, execution, operator>>

\* both locks are released; the call returns, or raises if a stop was observed
Unlock ==
    /\ TxStep("unlock", "idle")
    /\ UNCHANGED <<record, perception, arm, execution, operator>>

-----------------------------------------------------------------------------
(* start and start_recovery                                                 *)

Start ==
    /\ phase = "idle" /\ OperationLockFree
    /\ txPc' = "exit"
    /\ \/ \E ph \in {"bootstrap_map_required", "motion_blocked"} :
            Recorded(ph, None) /\ raised' = FALSE
       \/ Unrecorded /\ raised' = TRUE
    /\ stopRequested' = FALSE /\ acknowledged' = FALSE /\ verified' = FALSE
    /\ readiness' = None
    /\ UNCHANGED <<observed, cycle, observation, accepted, published, arm,
                   execution, opPc, requests>>

-----------------------------------------------------------------------------
(* capture_infer_update                                                     *)

\* its except handlers: the pending source is cancelled, the phase is terminal
CaptureRaises(from, ph) ==
    /\ TxRaise(from, "exit")
    /\ Transition(ph, None)
    /\ observation' = None /\ readiness' = None
    /\ UNCHANGED <<cycle, accepted, published>>

CaptureAborts(from) == stopRequested /\ CaptureRaises(from, "aborted")

CaptureFails(from) == CaptureRaises(from, "failed")

\* flag check, event and phase, next call
CaptureStep(from, ph, to) ==
    /\ \/ /\ ~stopRequested
          /\ TxStep(from, to)
          /\ Recorded(ph, None)
          /\ UNCHANGED perception
       \/ CaptureAborts(from)
       \/ CaptureFails(from)
    /\ UNCHANGED <<arm, execution, operator>>

BeginCapture ==
    /\ ~stopRequested /\ phase \in Capturable /\ cycle < MaxCycles
    /\ Enter("boundary")
    /\ prepared' = None
    /\ UNCHANGED <<phase, storeFailed, perception, arm, execution>>

OwnsBoundary == phase = "awaiting_capture" /\ readiness # None

\* _reuse_post_motion_capture_readiness: nothing stopped or resumed the arm since
ReuseBoundary ==
    /\ txPc = "boundary" /\ OwnsBoundary
    /\ \/ /\ readiness = armGeneration /\ latched
          /\ TxStep("boundary", "reused")
          /\ Recorded("waiting_settled", None)
          /\ UNCHANGED perception
       \/ CaptureFails("boundary")
    /\ UNCHANGED <<arm, execution, operator>>

CaptureStop ==
    /\ TxStep("boundary", "captureSend") /\ ~OwnsBoundary
    /\ Latch
    /\ UNCHANGED <<record, perception, execution, operator>>

CaptureSend ==
    /\ \/ TxStep("captureSend", "assert") /\ StopConfirmed /\ UNCHANGED <<record, perception>>
       \/ CaptureFails("captureSend") /\ StopFails
    /\ UNCHANGED <<execution, operator>>

AssertStop == CaptureStep("assert", "waiting_settled", "settle")

CaptureSettle == Stationary /\ CaptureStep("settle", "capturing", "shoot")

SettleTimeout ==
    /\ CaptureFails("settle")
    /\ UNCHANGED <<arm, execution, operator>>

CaptureReused == CaptureStep("reused", "capturing", "shoot")

Shoot == CaptureStep("shoot", "inferring", "infer")

Infer == CaptureStep("infer", "publishing_map", "finalize")

\* mutant of CommitDecided: success is not linearized against the stop flag
UndecidedCommit == StopRequestLockFree

CommitDecided == StopRequestLockFree /\ ~stopRequested

\* _finalize_operation: under the stop-request lock, commit or abort is decided
Finalize ==
    /\ StopRequestLockFree
    /\ \/ CommitDecided /\ TxStep("finalize", "accept") /\ UNCHANGED <<record, perception>>
       \/ CaptureAborts("finalize")
       \/ CaptureFails("finalize")
    /\ UNCHANGED <<arm, execution, operator>>

\* mutant of RefusedCommit: a refused acceptance still replaces the generation
PublishingRefusal ==
    /\ TxStep("accept", "tail")
    /\ published' = cycle + 1
    /\ UNCHANGED <<record, cycle, observation, readiness, accepted>>

\* the readback, the acceptance or its logical commit marker raises
RefusedCommit == CaptureFails("accept")

\* publish_after_acceptance: the source transaction commits before the swap
Accept ==
    /\ \/ /\ ~frozen
          /\ TxStep("accept", "swap")
          /\ accepted' = cycle + 1
          /\ UNCHANGED <<record, cycle, observation, readiness, published>>
       \/ RefusedCommit
    /\ UNCHANGED <<arm, execution, operator>>

\* mutant of Swap: the generation is numbered after the cycle has been counted
LateNumberedSwap ==
    /\ TxStep("swap", "tail")
    /\ published' = cycle + 2
    /\ UNCHANGED <<record, cycle, observation, readiness, accepted, arm,
                   execution, operator>>

Swap ==
    /\ TxStep("swap", "tail")
    /\ published' = cycle + 1
    /\ UNCHANGED <<record, cycle, observation, readiness, accepted, arm,
                   execution, operator>>

\* the cycle is counted before its last event, which may not be recorded
CaptureTail ==
    /\ \/ /\ ~stopRequested
          /\ cycle' = cycle + 1 /\ readiness' = None
          /\ UNCHANGED <<accepted, published>>
          /\ \/ /\ TxStep("tail", "exit")
                /\ \E ph \in {"bootstrap_motion_ready", "bootstrap_map_required",
                              "map_ready", "motion_blocked"} : Recorded(ph, None)
                /\ observation' = published
             \/ /\ TxRaise("tail", "exit")
                /\ Unrecorded
                /\ observation' = None
       \/ CaptureAborts("tail")
    /\ UNCHANGED <<arm, execution, operator>>

Capture ==
    \/ BeginCapture \/ ReuseBoundary \/ CaptureStop \/ CaptureSend \/ AssertStop
    \/ CaptureSettle \/ SettleTimeout \/ CaptureReused \/ Shoot \/ Infer
    \/ Finalize \/ Accept \/ Swap \/ CaptureTail

-----------------------------------------------------------------------------
(* prepare_next_segment                                                     *)

PlanRaises(from, ph) ==
    /\ TxRaise(from, "exit")
    /\ Transition(ph, None)

\* an unavailable view, a late or failed preflight; a broken asset; an interrupt
PlanFails(from) ==
    \/ stopRequested /\ PlanRaises(from, "aborted")
    \/ \E ph \in {"motion_blocked", "failed", "aborted"} : PlanRaises(from, ph)

PlanFrame == UNCHANGED <<perception, arm, execution, operator>>

\* the phase is recorded before the try block
BeginPlan ==
    /\ ~stopRequested /\ phase \in Plannable
    /\ observation # None /\ observation = published
    /\ OperationLockFree
    /\ \/ Recorded("planning", prepared) /\ txPc' = "select" /\ raised' = FALSE
       \/ Unrecorded /\ txPc' = "exit" /\ raised' = TRUE
    /\ UNCHANGED observed /\ PlanFrame

Select ==
    /\ \/ /\ ~stopRequested
          /\ \/ TxStep("select", "exit") /\ Recorded("complete", prepared)
             \/ TxStep("select", "read") /\ UNCHANGED record
       \/ PlanFails("select")
    /\ PlanFrame

ReadLiveState ==
    /\ \/ ~stopRequested /\ TxStep("read", "propose") /\ UNCHANGED record
       \/ PlanFails("read")
    /\ PlanFrame

Propose ==
    /\ \/ TxStep("propose", "preflight") /\ Recorded("preflighting", prepared)
       \/ PlanFails("propose")
    /\ PlanFrame

\* ready, rejected with candidates left, or every candidate rejected
Preflight ==
    /\ \/ /\ ~stopRequested
          /\ \/ TxStep("preflight", "exit") /\ Recorded("waiting_approval", published)
             \/ TxStep("preflight", "propose") /\ Recorded("preflighting", prepared)
             \/ TxStep("preflight", "exit") /\ Recorded("motion_blocked", published)
       \/ PlanFails("preflight")
    /\ PlanFrame

Plan == BeginPlan \/ Select \/ ReadLiveState \/ Propose \/ Preflight

-----------------------------------------------------------------------------
(* execute_approved, with GuardedEliteExecutor.authorize and execute        *)

ExecuteFrame == UNCHANGED <<perception, operator>>

\* leaving the freeze context with an exception, into the except handler
Unfreeze(from) ==
    /\ TxStep(from, "failLatch")
    /\ frozen' = FALSE
    /\ UNCHANGED <<record, permit, watchdog>>

ExecuteRaises(from) == Unfreeze(from) /\ UNCHANGED arm

BeginExecute ==
    /\ phase = "waiting_approval" /\ prepared # None
    /\ Enter("freeze")
    /\ outcome' = "ok"
    /\ UNCHANGED <<record, perception, arm, frozen, permit, watchdog>>

Freeze ==
    /\ \/ /\ ~stopRequested
          /\ published = prepared /\ ~frozen
          /\ TxStep("freeze", "authorize")
          /\ frozen' = TRUE
          /\ UNCHANGED <<record, arm, permit, watchdog>>
       \/ ExecuteRaises("freeze")
    /\ UNCHANGED outcome /\ ExecuteFrame

Authorize ==
    /\ \/ /\ latched
          /\ TxStep("authorize", "approve")
          /\ permit' = armGeneration
          /\ UNCHANGED <<record, arm, frozen, watchdog>>
       \/ ExecuteRaises("authorize")
    /\ UNCHANGED outcome /\ ExecuteFrame

\* an event that cannot be recorded raises as well: phase and latch change first
RecordedOrRaises(from, ph, to) ==
    \/ /\ ~stopRequested
       /\ TxStep(from, to)
       /\ Recorded(ph, prepared)
       /\ UNCHANGED <<arm, frozen, permit, watchdog>>
    \/ ExecuteRaises(from)
    \/ /\ TxStep(from, "failLatch")
       /\ Unrecorded
       /\ frozen' = FALSE
       /\ UNCHANGED <<arm, permit, watchdog>>

Approve ==
    /\ RecordedOrRaises("approve", "executing", "admit")
    /\ UNCHANGED outcome /\ ExecuteFrame

\* execute consumes the permit; from here on its own handler stops the arm
Admit ==
    /\ \/ /\ ~stopRequested /\ PermitCurrent /\ latched
          /\ TxStep("admit", "release")
          /\ watchdog' = TRUE
          /\ UNCHANGED <<record, arm, frozen, permit, outcome>>
       \/ /\ TxStep("admit", "endLatch")
          /\ watchdog' = TRUE
          /\ outcome' = "failed"
          /\ UNCHANGED <<record, arm, frozen, permit>>
       \/ ExecuteRaises("admit") /\ UNCHANGED outcome
    /\ ExecuteFrame

\* mutant of Releasable: any latch is cleared, not only the permit's
AnyLatchReleasable == latched

Releasable == latched /\ PermitCurrent

\* control recovery clears the latch the permit was issued under
Release ==
    /\ \/ /\ Releasable
          /\ TxStep("release", "stream")
          /\ latched' = FALSE
          /\ UNCHANGED <<armGeneration, motion, outcome>>
       \/ TxStep("release", "endLatch") /\ outcome' = "failed" /\ UNCHANGED arm
    /\ UNCHANGED <<record, frozen, permit, watchdog>> /\ ExecuteFrame

\* a ServoJ write checks the generation and calls the driver
CheckWrite ==
    /\ ~latched /\ PermitCurrent
    /\ TxStep("stream", "write")
    /\ UNCHANGED <<record, arm, execution>> /\ ExecuteFrame

Write ==
    /\ TxStep("write", "stream")
    /\ motion' \in {motion, "driven"}
    /\ UNCHANGED <<record, armGeneration, latched, execution>> /\ ExecuteFrame

\* a good result needs the flag unset and the generation unchanged at the end
EndStream ==
    /\ TxStep("stream", "endLatch")
    /\ outcome' \in {"failed"} \cup
         (IF ~latched /\ PermitCurrent /\ ~stopRequested THEN {"ok"} ELSE {})
    /\ UNCHANGED <<record, arm, frozen, permit, watchdog>> /\ ExecuteFrame

\* the watchdog is closed, or outlives the execution; then the boundary stop
EndLatch ==
    /\ TxStep("endLatch", "endSend")
    /\ Latch
    /\ watchdog' \in {watchdog, FALSE}
    /\ UNCHANGED <<record, frozen, permit, outcome>> /\ ExecuteFrame

\* a failed stop is typed as unconfirmed only when the execution failed too
EndSend ==
    /\ \/ /\ outcome = "ok" /\ StopConfirmed
          /\ TxStep("endSend", "settling")
          /\ UNCHANGED <<record, execution>>
       \/ /\ outcome = "ok" /\ StopFails
          /\ Unfreeze("endSend")
          /\ outcome' = "failed"
       \/ /\ outcome = "failed"
          /\ Unfreeze("endSend")
          /\ \/ StopConfirmed /\ outcome' \in {"failed", "unconfirmed"}
             \/ StopFails /\ outcome' = "unconfirmed"
    /\ ExecuteFrame

BeginSettling ==
    /\ RecordedOrRaises("settling", "settling", "segmentSettle")
    /\ UNCHANGED outcome /\ ExecuteFrame

SegmentSettle ==
    /\ \/ /\ Stationary /\ ~stopRequested
          /\ TxStep("segmentSettle", "snapshot")
          /\ UNCHANGED <<record, arm, frozen, permit, watchdog>>
       \/ ExecuteRaises("segmentSettle")
    /\ UNCHANGED outcome /\ ExecuteFrame

\* the stopped segment boundary is kept for the automatic capture
Snapshot ==
    /\ \/ /\ latched /\ txPc = "snapshot"
          /\ \/ Recorded("awaiting_capture", None) /\ UNCHANGED raised
             \/ Unrecorded /\ raised' = TRUE
          /\ txPc' = "exit"
          /\ readiness' = armGeneration
          /\ frozen' = FALSE
          /\ UNCHANGED <<observed, arm, permit, watchdog>>
       \/ ExecuteRaises("snapshot") /\ UNCHANGED readiness
    /\ UNCHANGED <<cycle, observation, accepted, published, outcome, operator>>

\* the except handler stops the arm once more
FailLatch ==
    /\ TxStep("failLatch", "failSend")
    /\ Latch
    /\ UNCHANGED <<record, execution>> /\ ExecuteFrame

FailSend ==
    /\ TxRaise("failSend", "exit")
    /\ \/ StopConfirmed /\ Transition(IF outcome = "unconfirmed" THEN "failed" ELSE "aborted", None)
       \/ StopFails /\ Transition("failed", None)
    /\ readiness' = None
    /\ UNCHANGED <<cycle, observation, accepted, published, execution, operator>>

Execute ==
    \/ BeginExecute \/ Freeze \/ Authorize \/ Approve \/ Admit \/ Release
    \/ CheckWrite \/ Write \/ EndStream \/ EndLatch \/ EndSend \/ BeginSettling
    \/ SegmentSettle \/ Snapshot \/ FailLatch \/ FailSend

-----------------------------------------------------------------------------
(* request_stop, the operator thread                                        *)

OpStep(from, to) ==
    /\ opPc = from
    /\ opPc' = to
    /\ UNCHANGED <<stopRequested, acknowledged, verified, requests>>

\* refused by the phase, answered at once, or begun
Request ==
    /\ opPc = "idle" /\ requests < MaxRequests
    /\ requests' = requests + 1
    /\ opPc' \in IF \/ phase \in RefusesStop
                    \/ phase = "aborted" /\ acknowledged /\ verified
                 THEN {"idle"}
                 ELSE {"flag"}
    /\ UNCHANGED <<record, perception, arm, execution, transaction, stopRequested,
                   acknowledged, verified>>

Flag ==
    /\ opPc = "flag" /\ opPc' = "latch"
    /\ stopRequested' = TRUE
    /\ readiness' = None
    /\ UNCHANGED <<record, cycle, observation, accepted, published, arm, execution,
                   transaction, acknowledged, verified, requests>>

RequestLatch ==
    /\ OpStep("latch", "send")
    /\ Latch
    /\ UNCHANGED <<record, perception, execution, transaction>>

RequestSend ==
    /\ \/ StopConfirmed /\ OpStep("send", "ack")
       \/ StopFails /\ OpStep("send", "try")
    /\ UNCHANGED <<record, perception, execution, transaction>>

Acknowledge ==
    /\ opPc = "ack" /\ StopRequestLockFree
    /\ opPc' = "settle"
    /\ acknowledged' = TRUE
    /\ UNCHANGED <<record, perception, arm, execution, transaction, stopRequested,
                   verified, requests>>

\* the stationarity wait gives evidence, or raises at its timeout
RequestSettle ==
    /\ \/ /\ OpStep("settle", "evidence") /\ Stationary
       \/ OpStep("settle", "try")
    /\ UNCHANGED <<record, perception, arm, execution, transaction>>

Verify ==
    /\ opPc = "evidence" /\ StopRequestLockFree
    /\ opPc' = "try"
    /\ verified' = TRUE
    /\ UNCHANGED <<record, perception, arm, execution, transaction, stopRequested,
                   acknowledged, requests>>

\* mutant of TryRecord: the operation lock is awaited
AwaitRecord ==
    /\ txPc = "idle"
    /\ OpStep("try", "record")
    /\ UNCHANGED <<record, perception, arm, execution, transaction>>

\* the operation lock is tried, not awaited
TryRecord ==
    /\ OpStep("try", IF txPc = "idle" THEN "record" ELSE "idle")
    /\ UNCHANGED <<record, perception, arm, execution, transaction>>

RequestRecord ==
    /\ OpStep("record", "idle")
    /\ \/ ~AbortUnrecorded /\ UNCHANGED record
       \/ AbortUnrecorded /\ Transition("aborted", None)
    /\ UNCHANGED <<perception, arm, execution, transaction>>

RequestStep ==
    \/ Flag \/ RequestLatch \/ RequestSend \/ Acknowledge \/ RequestSettle
    \/ Verify \/ TryRecord \/ RequestRecord

-----------------------------------------------------------------------------
(* The arm's environment                                                    *)

\* the deadline watchdog of an execution fires, during it or late
DeadlineStop ==
    /\ watchdog
    /\ watchdog' = FALSE
    /\ armGeneration' = armGeneration + 1
    /\ latched' = TRUE
    /\ motion' \in {motion, IF motion = "driven" THEN "slowing" ELSE motion}
    /\ outcome' \in IF txPc = "endLatch" THEN {outcome, "failed"} ELSE {outcome}
    /\ UNCHANGED <<record, perception, frozen, permit, transaction, operator>>

\* the arm comes to rest
Rest ==
    /\ motion # "rest"
    /\ motion' = "rest"
    /\ UNCHANGED <<record, perception, armGeneration, latched, execution, transaction,
                   operator>>

Next ==
    \/ Start \/ Capture \/ Plan \/ Execute
    \/ Refused \/ Exit \/ Record \/ Unlock
    \/ Request \/ RequestStep
    \/ DeadlineStop \/ Rest

Spec == Init /\ [][Next]_vars

\* a transaction may hang for ever in a call of its body, a write that holds the
\* command I/O lock among them; a stop waiting for that lock is then not enabled,
\* and no fairness moves it.  The transport of a stop that has the lock answers,
\* and so does the disk; a lock released again and again is acquired
FairSpec ==
    /\ Spec
    /\ WF_vars(Exit) /\ WF_vars(Record) /\ WF_vars(Unlock)
    /\ WF_vars(RequestStep)
    /\ SF_vars(Acknowledge) /\ SF_vars(Verify)

-----------------------------------------------------------------------------
(* Safety                                                                   *)

TxPcs == {"idle"} \cup CapturePcs \cup PlanPcs \cup ExecutePcs \cup FinallyPcs
OpPcs == {"idle", "flag", "latch", "send", "ack", "settle", "evidence", "try", "record"}

RecordTypes ==
    /\ phase \in Phases
    /\ prepared \in Generations \cup {None}
    /\ storeFailed \in BOOLEAN

PerceptionTypes ==
    /\ cycle \in Generations
    /\ observation \in Generations \cup {None}
    /\ readiness \in Nat \cup {None}
    /\ accepted \in Generations
    /\ published \in Generations

ArmTypes ==
    /\ armGeneration \in Nat
    /\ latched \in BOOLEAN
    /\ motion \in {"driven", "slowing", "rest"}

ExecutionTypes ==
    /\ frozen \in BOOLEAN
    /\ permit \in Nat \cup {None}
    /\ watchdog \in BOOLEAN
    /\ outcome \in {"ok", "failed", "unconfirmed"}

TransactionTypes ==
    /\ txPc \in TxPcs
    /\ raised \in BOOLEAN
    /\ observed \in BOOLEAN

OperatorTypes ==
    /\ stopRequested \in BOOLEAN
    /\ acknowledged \in BOOLEAN
    /\ verified \in BOOLEAN
    /\ opPc \in OpPcs
    /\ requests \in 0..MaxRequests

(* The coordinator's state has the types its fields are declared with: no    *)
(* map is numbered past the cycle that made it.                             *)
TypeOK ==
    /\ RecordTypes /\ PerceptionTypes /\ ArmTypes /\ ExecutionTypes
    /\ TransactionTypes /\ OperatorTypes

(* The sources perception has accepted and the map motion consumers read     *)
(* differ only inside the publisher's critical section: a stop, a refused    *)
(* acceptance or a failing event store never leaves one without the other.   *)
AcceptedIsPublished == accepted # published => txPc = "swap"

(* Once request_stop has seen the arm stationary, it stays latched and at    *)
(* rest: no approval given before, during or after that request, no write in *)
(* flight and no late watchdog lets it move again.                           *)
VerifiedStopIsFinal == verified => latched /\ motion = "rest"

(* A persistence failure is irreversible: no except handler, later call or   *)
(* stop request brings the coordinator back to another phase, and nothing    *)
(* that was prepared survives it.                                            *)
StoreFailureIsTerminal == storeFailed => phase = "failed" /\ prepared = None

(* After an acknowledged stop, when neither thread is inside the coordinator *)
(* the run has ended: one of the two threads recorded it, although the       *)
(* operator only tries the operation lock.                                   *)
AcknowledgedStopRecorded ==
    acknowledged /\ opPc = "idle" /\ txPc = "idle" => phase \in Terminal

(* A run, as its operator sees it: a stop request closes the map except for  *)
(* a commit that was already decided, the map is replaced only while the arm *)
(* rests, a finished run never resumes, a verified stop ends all motion.     *)
Run == INSTANCE ScanRun WITH
    life <- (IF phase = "idle" THEN "new" ELSE IF phase \in Terminal THEN "over" ELSE "active"),
    map <- published,
    moving <- (motion # "rest"),
    sealed <- (stopRequested /\ txPc \notin {"accept", "swap"}),
    verified <- verified

ImplementsScanRun == Run!Spec

\* where a transaction holds the command I/O lock, or is about to take it
ArmIoPcs == {"captureSend", "release", "write", "endSend", "failSend"}

\* the transaction is not stuck in a vendor call made under that lock
ArmCallsReturn == []<>(txPc \notin ArmIoPcs)

(* If the transaction's own calls of the arm return, request_stop returns to *)
(* the operator, although the transaction may hang in a capture, an          *)
(* inference, a commit, an approval or a settling wait and keep its operation*)
(* lock for ever.                                                            *)
RequestReturns == ArmCallsReturn => (opPc # "idle" ~> opPc = "idle")

-----------------------------------------------------------------------------
(* Claims of the documentation and the tests that the code does not keep    *)

(* request_stop: "The active transaction observes the latch and records      *)
(* ABORTED before releasing its lock; if no transaction is active, this      *)
(* method records the state itself."                                         *)
RequestedStopRecorded ==
    stopRequested /\ opPc = "idle" /\ txPc = "idle" => phase \in Terminal

(* "stop latched at success tail cannot return motion success": a motion     *)
(* call that returns normally does not leave an aborted run.                 *)
SuccessIsNotAborted ==
    [][txPc = "record" /\ phase = "awaiting_capture" /\ ~raised /\ ~observed
         => phase' # "aborted"]_vars

(* The operator's stop request has priority and reaches the arm directly: it *)
(* is not refused while commands still drive the arm and no transaction is   *)
(* left to stop it.                                                          *)
StopAvailableWhileDriven == motion = "driven" /\ txPc = "idle" => phase \notin RefusesStop

=============================================================================
