---------------------------- MODULE GuardedMotion ----------------------------
(***************************************************************************)
(* One guarded ServoJ execution after another on the Elite arm.            *)
(*                                                                         *)
(* Three kinds of threads share the arm:                                   *)
(*   - the transaction thread ("ex"), which runs GuardedEliteExecutor      *)
(*     authorize and execute and, between segments, the boundary stop;     *)
(*   - one deadline watchdog per execution, a daemon that stops the        *)
(*     controller through the Dashboard without the command I/O lock and   *)
(*     may outlive the execution that started it;                          *)
(*   - the operator thread ("op"), which raises the cancellation flag and  *)
(*     then calls EliteArm.stop.                                           *)
(* EliteArm.stop latches under _stop_lock first and then takes             *)
(* _command_io_lock for the transport; a ServoJ write checks the latch     *)
(* under the same I/O lock.  The vendor call itself is two steps, begin    *)
(* and end, so everything else may happen while it is in flight.           *)
(*                                                                         *)
(* The controller is external: "playing" is its Dashboard task, "reverse"  *)
(* its connection to the driver, "servoing" whether it follows targets.    *)
(***************************************************************************)
EXTENDS Naturals

CONSTANTS
    MaxPermits,         \* approvals minted in one behaviour
    MaxOperatorStops,   \* operator stop requests in one behaviour
    MaxBoundaryStops,   \* boundary stops between segments in one behaviour
    WarmupWrites,       \* ServoJ hold writes of the preparation
    StreamLength,       \* commands of the approved stream
    RequiredHolds,      \* endpoint holds needed before it counts as settled
    MaxHolds            \* endpoint holds before the settling times out

ASSUME BoundsAssumption ==
    /\ MaxPermits \in Nat \ {0}
    /\ MaxOperatorStops \in Nat
    /\ MaxBoundaryStops \in Nat
    /\ WarmupWrites \in Nat \ {0}
    /\ StreamLength \in Nat \ {0}
    /\ RequiredHolds \in Nat \ {0}
    /\ MaxHolds \in Nat /\ MaxHolds >= RequiredHolds

Permits == 1..MaxPermits

NoPermit == 0

VARIABLES
    \* EliteArm
    stopGeneration, stopped, enabled, ioLock,
    \* the controller
    playing, reverse, servoing,
    \* GuardedEliteExecutor: permits minted, those not consumed, their generation
    minted, active, permitGeneration,
    \* the transaction thread
    exPc, stage, sent, attempt, verdict, current, uncertain, outcome, boundaryStops,
    \* the deadline watchdogs, one per consumed permit
    wdPc, expired, wdCancelled, triggered, wdErrors,
    \* the operator thread and the cancellation flag of the transaction
    opPc, opStops, cancelled,
    \* history, read by properties only
    opLatched, opAcked, haltedBy, lateWrites

armVars    == <<stopGeneration, stopped, enabled>>
ctlVars    == <<playing, reverse, servoing>>
permitVars == <<minted, active, permitGeneration>>
flowVars   == <<stage, sent, attempt, verdict>>
callVars   == <<current, uncertain, outcome, boundaryStops>>
exVars     == <<exPc, flowVars, callVars>>
wdVars     == <<wdPc, expired, wdCancelled, triggered, wdErrors>>
opVars     == <<opPc, opStops, cancelled>>
histVars   == <<opLatched, opAcked, haltedBy, lateWrites>>

vars == <<armVars, ioLock, ctlVars, permitVars, exVars, wdVars, opVars, histVars>>

-----------------------------------------------------------------------------
(* Program counters.                                                        *)

\* between the consumption of a permit and the release of its latch
PreRelease == {"admit", "powerOn", "brakeRelease", "scaling", "publish",
               "enabled", "resume"}

\* after the release, inside the try block of execute
Streaming == {"connect", "await", "recheck", "recovered", "begin", "command",
              "write", "inflight", "writeFailed", "wrote", "prepared",
              "streamed", "settled"}

\* closing the watchdog and stopping the arm
Closing == {"close", "join", "reap", "stopLatch", "stopIo", "stopSend"}

ExPcs == {"idle"} \cup PreRelease \cup Streaming \cup Closing
Stages == {"none", "resume", "prepare", "stream", "settle"}
Verdicts == {"none", "ok", "abort", "raise", "deadline", "boundary"}
Outcomes == {"none", "success", "failed", "stopFailed", "unconfirmed"}

ArmTypes == stopGeneration \in Nat /\ stopped \in BOOLEAN /\ enabled \in BOOLEAN
LockTypes == ioLock \in {"free", "ex", "op"}
ControllerTypes == playing \in BOOLEAN /\ reverse \in BOOLEAN /\ servoing \in BOOLEAN

PermitTypes ==
    /\ minted \in 0..MaxPermits
    /\ active \subseteq Permits
    /\ permitGeneration \in [Permits -> Nat]

FlowTypes ==
    /\ exPc \in ExPcs
    /\ stage \in Stages
    /\ sent \in Nat
    /\ attempt \in {1, 2}
    /\ verdict \in Verdicts

CallTypes ==
    /\ current \in Permits \cup {NoPermit}
    /\ uncertain \in BOOLEAN
    /\ outcome \in Outcomes
    /\ boundaryStops \in 0..MaxBoundaryStops

WatchdogTypes ==
    /\ wdPc \in [Permits -> {"off", "poll", "latch", "dashboard", "done"}]
    /\ expired \subseteq Permits
    /\ wdCancelled \subseteq Permits
    /\ triggered \subseteq Permits
    /\ wdErrors \subseteq Permits

OperatorTypes ==
    /\ opPc \in {"idle", "latch", "io", "send"}
    /\ opStops \in 0..MaxOperatorStops
    /\ cancelled \in BOOLEAN

HistoryTypes ==
    /\ opLatched \in BOOLEAN
    /\ opAcked \in BOOLEAN
    /\ haltedBy \subseteq Permits
    /\ lateWrites \in Nat

TypeOK ==
    /\ ArmTypes /\ LockTypes /\ ControllerTypes /\ PermitTypes
    /\ FlowTypes /\ CallTypes /\ WatchdogTypes /\ OperatorTypes /\ HistoryTypes

(* The arm has been connected, which publishes an open latch; the reverse   *)
(* session does not exist yet and the Dashboard task may still be playing.  *)
Init ==
    /\ stopGeneration = 0
    /\ stopped = FALSE
    /\ enabled = FALSE
    /\ ioLock = "free"
    /\ playing \in BOOLEAN
    /\ reverse = FALSE
    /\ servoing = FALSE
    /\ minted = 0
    /\ active = {}
    /\ permitGeneration = [p \in Permits |-> 0]
    /\ exPc = "idle"
    /\ stage = "none"
    /\ sent = 0
    /\ attempt = 1
    /\ verdict = "none"
    /\ current = NoPermit
    /\ uncertain = FALSE
    /\ outcome = "none"
    /\ boundaryStops = 0
    /\ wdPc = [p \in Permits |-> "off"]
    /\ expired = {}
    /\ wdCancelled = {}
    /\ triggered = {}
    /\ wdErrors = {}
    /\ opPc = "idle"
    /\ opStops = 0
    /\ cancelled = FALSE
    /\ opLatched = FALSE
    /\ opAcked = FALSE
    /\ haltedBy = {}
    /\ lateWrites = 0

-----------------------------------------------------------------------------
(* EliteArm: the latch, the checks on it and the controller commands.       *)

\* _latch_stop: a new generation is published before any transport call
LatchStop ==
    /\ stopGeneration' = stopGeneration + 1
    /\ stopped' = TRUE

CurrentGeneration == stopGeneration = permitGeneration[current]

\* mutant: any engaged latch will do
AnyLatch == stopped

\* the exact latch the operator approved is still engaged
ApprovedLatch == CurrentGeneration /\ stopped

\* mutant: the write does not look at the latch under the I/O lock
UncheckedWrite == TRUE

\* the generation check of every ServoJ write
ActiveGeneration == CurrentGeneration /\ ~stopped

\* mutant: execute is not given the cancellation callback
IgnoredCancellation == FALSE

CancellationRequested == cancelled

DeadlineExceeded == current \in expired

\* Dashboard stopProgram ends the program and with it the reverse session
ProgramStopped ==
    /\ playing' = FALSE
    /\ reverse' = FALSE
    /\ servoing' = FALSE

(* The transport half of EliteArm.stop, under the I/O lock: writeIdle when   *)
(* the reverse session is up, otherwise the Dashboard task is made STOPPED   *)
(* unless it already is.  A call that fails (ok = FALSE) may or may not have *)
(* reached the controller.                                                   *)
StopTransport(ok) ==
    \/ /\ reverse
       /\ servoing' \in IF ok THEN {FALSE} ELSE {servoing, FALSE}
       /\ UNCHANGED <<playing, reverse>>
    \/ ~reverse /\ playing /\ ProgramStopped
    \/ ~reverse /\ (playing => ~ok) /\ UNCHANGED ctlVars

-----------------------------------------------------------------------------
(* GuardedEliteExecutor.authorize and the start of execute.                 *)

Authorize ==
    /\ exPc = "idle"
    /\ stopped
    /\ minted < MaxPermits
    /\ minted' = minted + 1
    /\ active' = active \cup {minted + 1}
    /\ permitGeneration' = [permitGeneration EXCEPT ![minted + 1] = stopGeneration]
    /\ UNCHANGED <<armVars, ioLock, ctlVars, exVars, wdVars, opVars, histVars>>

(* The permit is consumed, then one of the checks before the try block fails *)
(* (expiry, evidence, live start state): execute raises without a stop.      *)
Reject(p) ==
    /\ exPc = "idle"
    /\ p \in active
    /\ active' = active \ {p}
    /\ UNCHANGED <<minted, permitGeneration>>
    /\ UNCHANGED <<armVars, ioLock, ctlVars, exVars, wdVars, opVars, histVars>>

Execute(p) ==
    /\ exPc = "idle"
    /\ p \in active
    /\ active' = active \ {p}
    /\ exPc' = "admit"
    /\ current' = p
    /\ outcome' = "none"
    /\ wdPc' = [wdPc EXCEPT ![p] = "poll"]
    /\ UNCHANGED <<minted, permitGeneration, flowVars, uncertain, boundaryStops>>
    /\ UNCHANGED <<expired, wdCancelled, triggered, wdErrors>>
    /\ UNCHANGED <<armVars, ioLock, ctlVars, opVars, histVars>>

(* The stop of the surrounding transaction before an exposure, or again      *)
(* after an execution whose own stop failed.                                 *)
BoundaryStop ==
    /\ exPc = "idle"
    /\ boundaryStops < MaxBoundaryStops
    /\ boundaryStops' = boundaryStops + 1
    /\ exPc' = "stopLatch"
    /\ verdict' = "boundary"
    /\ UNCHANGED <<stage, sent, attempt, current, uncertain, outcome>>
    /\ UNCHANGED <<armVars, ioLock, ctlVars, permitVars, wdVars, opVars, histVars>>

-----------------------------------------------------------------------------
(* The try block of execute.  Every failure ends in the handler, which       *)
(* closes the watchdog and stops the arm.                                    *)

ExMoves ==
    UNCHANGED <<callVars, ioLock, ctlVars, permitVars, wdVars, opVars, histVars>>

Goto(pc) == exPc' = pc /\ UNCHANGED flowVars

Raise ==
    /\ exPc' = "close"
    /\ verdict' = "raise"
    /\ UNCHANGED <<stage, sent, attempt>>

\* an aborted stream is a result, not an exception
Abort ==
    /\ exPc' = "streamed"
    /\ verdict' = "abort"
    /\ UNCHANGED <<stage, sent, attempt>>

FailStage == IF stage = "stream" THEN Abort ELSE Raise

EnterStage(s) ==
    /\ exPc' = "begin"
    /\ stage' = s
    /\ sent' = 0
    /\ attempt' = 1
    /\ UNCHANGED verdict

\* _raise_if_execution_deadline: the arm latches itself, then raises
DeadlineLatch == DeadlineExceeded /\ LatchStop /\ UNCHANGED enabled

Admit ==
    /\ exPc = "admit"
    /\ IF ApprovedLatch /\ ~CancellationRequested
       THEN Goto(IF enabled THEN "resume" ELSE "powerOn")
       ELSE Raise
    /\ UNCHANGED armVars
    /\ ExMoves

AfterCall(pc) ==
    CASE pc = "powerOn" -> "brakeRelease"
      [] pc = "brakeRelease" -> "scaling"
      [] OTHER -> "publish"

\* the handler of the guarded enable: the arm was never enabled, so there is no
\* reverse session and the handler tries to stop the Dashboard program
EnableFails ==
    /\ Raise
    /\ playing' \in {playing, FALSE}
    /\ UNCHANGED <<reverse, servoing>>

EnableMoves == UNCHANGED <<callVars, ioLock, permitVars, wdVars, opVars, histVars>>

(* One Dashboard call of the guarded enable, the deadline check and the      *)
(* check of the exact latch behind it; any of them may fail.                 *)
EnableCall ==
    /\ exPc \in {"powerOn", "brakeRelease", "scaling"}
    /\ \/ /\ ApprovedLatch /\ ~DeadlineExceeded
          /\ Goto(AfterCall(exPc))
          /\ UNCHANGED <<armVars, ctlVars>>
       \/ EnableFails /\ UNCHANGED armVars
       \/ EnableFails /\ DeadlineLatch
    /\ EnableMoves

PublishEnabled ==
    /\ exPc = "publish"
    /\ IF ApprovedLatch
       THEN Goto("enabled") /\ enabled' = TRUE /\ UNCHANGED ctlVars
       ELSE EnableFails /\ UNCHANGED enabled
    /\ UNCHANGED <<stopGeneration, stopped>>
    /\ EnableMoves

AfterEnable ==
    /\ exPc = "enabled"
    /\ \/ /\ ApprovedLatch /\ ~DeadlineExceeded /\ ~CancellationRequested
          /\ Goto("resume")
       \/ Raise
    /\ UNCHANGED armVars
    /\ ExMoves

(* _guarded_resume_servoj_control: compare-and-clear of the approved latch.  *)
Resume ==
    /\ exPc = "resume"
    /\ \/ /\ ApprovedLatch /\ ~DeadlineExceeded
          /\ stopped' = FALSE
          /\ exPc' = "connect"
          /\ stage' = "resume"
          /\ lateWrites' = 0
          /\ UNCHANGED <<sent, attempt, verdict, stopGeneration, enabled>>
       \/ Raise /\ UNCHANGED <<armVars, lateWrites>>
       \/ Raise /\ DeadlineLatch /\ UNCHANGED lateWrites
    /\ UNCHANGED <<callVars, ioLock, ctlVars, permitVars, wdVars, opVars>>
    /\ UNCHANGED <<opLatched, opAcked, haltedBy>>

\* where _ensure_driver_reverse_connected returns to
Connected ==
    CASE stage = "resume" -> Goto("recheck") /\ UNCHANGED armVars
      [] stage \in {"prepare", "stream"} /\ attempt = 1 ->
            Goto("command") /\ UNCHANGED armVars
      [] stage \in {"prepare", "stream"} /\ attempt = 2 ->
            IF DeadlineExceeded THEN FailStage /\ DeadlineLatch
                                ELSE Goto("write") /\ UNCHANGED armVars
      [] OTHER -> Goto("write") /\ UNCHANGED armVars

(* A failed connection re-latches a release that nobody has stopped since;   *)
(* inside the stream it counts as a failed write, elsewhere it raises.       *)
ConnectFailed ==
    CASE stage = "resume" /\ ActiveGeneration ->
            Raise /\ LatchStop /\ UNCHANGED enabled
      [] stage = "stream" /\ attempt = 2 ->
            Abort /\ LatchStop /\ UNCHANGED enabled
      [] OTHER -> Raise /\ UNCHANGED armVars

(* _ensure_driver_reverse_connected and _wait_driver_connected.              *)
Connect ==
    /\ exPc = "connect"
    /\ \/ reverse /\ Connected /\ UNCHANGED ctlVars
       \/ /\ ~reverse
          /\ Goto("await") /\ playing' = TRUE
          /\ UNCHANGED <<armVars, reverse, servoing>>
       \/ ~reverse /\ ConnectFailed /\ UNCHANGED ctlVars
    /\ UNCHANGED <<callVars, ioLock, permitVars, wdVars, opVars, histVars>>

Await ==
    /\ exPc = "await"
    /\ IF reverse THEN Connected ELSE ConnectFailed
    /\ ExMoves

Recheck ==
    /\ exPc = "recheck"
    /\ IF DeadlineExceeded
       THEN Raise /\ DeadlineLatch
       ELSE /\ UNCHANGED armVars
            /\ IF ActiveGeneration THEN Goto("recovered") ELSE Raise
    /\ ExMoves

(* The checks of execute between two arm calls: budget, cancellation and     *)
(* generation; a changed start state or stale evidence fails as well.        *)
Recovered ==
    /\ exPc = "recovered"
    /\ \/ /\ ~DeadlineExceeded /\ ~CancellationRequested /\ CurrentGeneration
          /\ EnterStage("prepare")
       \/ Raise
    /\ UNCHANGED armVars
    /\ ExMoves

Prepared ==
    /\ exPc = "prepared"
    /\ IF ~DeadlineExceeded /\ ~CancellationRequested /\ CurrentGeneration
       THEN EnterStage("stream")
       ELSE Raise
    /\ UNCHANGED armVars
    /\ ExMoves

Streamed ==
    /\ exPc = "streamed"
    /\ IF DeadlineExceeded THEN Raise
       ELSE IF verdict = "abort" THEN Goto("close")
       ELSE EnterStage("settle")
    /\ UNCHANGED armVars
    /\ ExMoves

Settled ==
    /\ exPc = "settled"
    /\ IF ~DeadlineExceeded /\ ~CancellationRequested /\ CurrentGeneration
       THEN exPc' = "close" /\ verdict' = "ok" /\ UNCHANGED <<stage, sent, attempt>>
       ELSE Raise
    /\ UNCHANGED armVars
    /\ ExMoves

(* Entry of a stage, and of every endpoint hold: the arm must be ready for   *)
(* motion and, except when a stream starts, the deadline is checked.         *)
Begin ==
    /\ exPc = "begin"
    /\ \/ /\ ~stopped /\ (DeadlineExceeded => stage = "stream")
          /\ Goto("connect") /\ UNCHANGED armVars
       \/ Raise /\ UNCHANGED armVars
       \/ stage # "stream" /\ Raise /\ DeadlineLatch
    /\ ExMoves

(* The head of the warm-up loop and of the stream loop.                      *)
Command ==
    /\ exPc = "command"
    /\ \/ stage = "stream" /\ stopped /\ Abort /\ UNCHANGED armVars
       \/ (stage = "stream" => ~stopped) /\ FailStage /\ DeadlineLatch
       \/ /\ stage = "stream" => ~stopped
          /\ ~DeadlineExceeded
          /\ Goto("write") /\ UNCHANGED armVars
    /\ ExMoves

(* _write_servoj_joint: the generation is checked under the I/O lock, which  *)
(* is held until the vendor call returns.                                    *)
BeginWrite ==
    /\ exPc = "write"
    /\ ioLock = "free"
    /\ IF ActiveGeneration
       THEN Goto("inflight") /\ ioLock' = "ex"
       ELSE FailStage /\ UNCHANGED ioLock
    /\ UNCHANGED <<armVars, callVars, ctlVars, permitVars, wdVars, opVars, histVars>>

\* the vendor call delivers the target, if there is a session to deliver it to
Land(delivered) ==
    /\ servoing' = (servoing \/ delivered)
    /\ lateWrites' = IF delivered /\ stopped THEN lateWrites + 1 ELSE lateWrites
    /\ UNCHANGED <<playing, reverse>>

\* mutant: a failed vendor call leaves the I/O lock taken
LeakingEndWrite ==
    /\ exPc = "inflight"
    /\ \/ reverse /\ Land(TRUE) /\ Goto("wrote") /\ ioLock' = "free"
       \/ Land(FALSE) /\ Goto("writeFailed") /\ UNCHANGED ioLock
    /\ UNCHANGED <<armVars, callVars, permitVars, wdVars, opVars>>
    /\ UNCHANGED <<opLatched, opAcked, haltedBy>>

EndWrite ==
    /\ exPc = "inflight"
    /\ ioLock' = "free"
    /\ \/ reverse /\ Land(TRUE) /\ Goto("wrote")
       \/ /\ \E delivered \in {FALSE, reverse} : Land(delivered)
          /\ Goto("writeFailed")
    /\ UNCHANGED <<armVars, callVars, permitVars, wdVars, opVars>>
    /\ UNCHANGED <<opLatched, opAcked, haltedBy>>

(* The first write of the stream and every warm-up write are retried once    *)
(* over a new session; any other failed write ends the stage, and inside the *)
(* stream it latches the arm.                                                *)
StartupWrite == attempt = 1 /\ (stage = "prepare" \/ (stage = "stream" /\ sent = 0))

WriteFailed ==
    /\ exPc = "writeFailed"
    /\ IF StartupWrite
       THEN IF DeadlineExceeded
            THEN FailStage /\ DeadlineLatch
            ELSE /\ exPc' = "connect" /\ attempt' = 2
                 /\ UNCHANGED <<stage, sent, verdict, armVars>>
       ELSE IF stage = "stream"
            THEN Abort /\ LatchStop /\ UNCHANGED enabled
            ELSE Raise /\ UNCHANGED armVars
    /\ ExMoves

NextCommand(pc) ==
    /\ exPc' = pc
    /\ sent' = sent + 1
    /\ attempt' = 1
    /\ UNCHANGED <<stage, verdict, armVars>>

WroteWarmup ==
    /\ exPc = "wrote" /\ stage = "prepare"
    /\ \/ Raise /\ DeadlineLatch
       \/ /\ ~DeadlineExceeded
          /\ NextCommand(IF sent + 1 < WarmupWrites THEN "command" ELSE "prepared")
    /\ ExMoves

(* After a stream command the deadline, the feedback, the tracking error and *)
(* the loop timing may each abort the stream, which latches the arm.         *)
WroteCommand ==
    /\ exPc = "wrote" /\ stage = "stream"
    /\ \/ Abort /\ LatchStop /\ UNCHANGED enabled
       \/ /\ ~DeadlineExceeded
          /\ NextCommand(IF sent + 1 < StreamLength THEN "command" ELSE "streamed")
    /\ ExMoves

(* After an endpoint hold: settled, hold again, timed out or no feedback.    *)
WroteHold ==
    /\ exPc = "wrote" /\ stage = "settle"
    /\ \/ sent + 1 >= RequiredHolds /\ NextCommand("settled")
       \/ sent + 1 < MaxHolds /\ NextCommand("begin")
       \/ Raise /\ UNCHANGED armVars
    /\ ExMoves

-----------------------------------------------------------------------------
(* The end of execute: close the watchdog, then stop the arm on every path.  *)

CloseWatchdog ==
    /\ exPc = "close"
    /\ wdCancelled' = wdCancelled \cup {current}
    /\ Goto("join")
    /\ UNCHANGED <<wdPc, expired, triggered, wdErrors>>
    /\ UNCHANGED <<armVars, callVars, ioLock, ctlVars, permitVars, opVars, histVars>>

\* the join gives up after a second; a watchdog still alive is a stop error
JoinWatchdog ==
    /\ exPc = "join"
    /\ wdErrors' = IF wdPc[current] = "done" THEN wdErrors
                                             ELSE wdErrors \cup {current}
    /\ Goto("reap")
    /\ UNCHANGED <<wdPc, expired, wdCancelled, triggered>>
    /\ UNCHANGED <<armVars, callVars, ioLock, ctlVars, permitVars, opVars, histVars>>

Reap ==
    /\ exPc = "reap"
    /\ exPc' = "stopLatch"
    /\ verdict' = IF verdict # "raise" /\ current \in triggered THEN "deadline"
                                                               ELSE verdict
    /\ uncertain' = (verdict' \in {"raise", "deadline"} /\ current \in wdErrors)
    /\ UNCHANGED <<stage, sent, attempt, current, outcome, boundaryStops>>
    /\ UNCHANGED <<armVars, ioLock, ctlVars, permitVars, wdVars, opVars, histVars>>

StopLatch ==
    /\ exPc = "stopLatch"
    /\ LatchStop
    /\ Goto("stopIo")
    /\ UNCHANGED enabled
    /\ ExMoves

StopAcquire ==
    /\ exPc = "stopIo"
    /\ ioLock = "free"
    /\ ioLock' = "ex"
    /\ Goto("stopSend")
    /\ UNCHANGED <<armVars, callVars, ctlVars, permitVars, wdVars, opVars, histVars>>

\* mutant: the stream result is reported in place of an outcome
RawReport(ok) == verdict

\* mutant: the stop error of the handler is swallowed
QuietReport(ok) == IF verdict = "ok" /\ ok THEN "success" ELSE "failed"

\* what the caller of execute, or of the boundary stop, is told
Report(ok) ==
    CASE verdict = "boundary" -> IF ok THEN "none" ELSE "stopFailed"
      [] verdict = "ok" -> IF ok THEN "success" ELSE "stopFailed"
      [] OTHER -> IF ok /\ ~uncertain THEN "failed" ELSE "unconfirmed"

\* mutant: a failed stop of the transaction keeps the I/O lock
LeakingStopSend ==
    /\ exPc = "stopSend"
    /\ \E ok \in BOOLEAN :
          /\ StopTransport(ok)
          /\ outcome' = Report(ok)
          /\ ioLock' = IF ok THEN "free" ELSE ioLock
    /\ exPc' = "idle"
    /\ stage' = "none" /\ sent' = 0 /\ attempt' = 1 /\ verdict' = "none"
    /\ current' = NoPermit
    /\ uncertain' = FALSE
    /\ UNCHANGED boundaryStops
    /\ UNCHANGED <<armVars, permitVars, wdVars, opVars, histVars>>

StopSend ==
    /\ exPc = "stopSend"
    /\ \E ok \in BOOLEAN :
          /\ StopTransport(ok)
          /\ outcome' = Report(ok)
    /\ ioLock' = "free"
    /\ exPc' = "idle"
    /\ stage' = "none" /\ sent' = 0 /\ attempt' = 1 /\ verdict' = "none"
    /\ current' = NoPermit
    /\ uncertain' = FALSE
    /\ UNCHANGED boundaryStops
    /\ UNCHANGED <<armVars, permitVars, wdVars, opVars, histVars>>

-----------------------------------------------------------------------------
(* The deadline watchdog of permit p.                                       *)

(* Time passes the accepted duration of an execution.                       *)
Expire(p) ==
    /\ wdPc[p] = "poll" \/ (p = current /\ wdPc[p] # "off")
    /\ p \notin expired
    /\ expired' = expired \cup {p}
    /\ UNCHANGED <<wdPc, wdCancelled, triggered, wdErrors>>
    /\ UNCHANGED <<armVars, ioLock, ctlVars, permitVars, exVars, opVars, histVars>>

(* The poll may have passed its cancellation check before close was called,  *)
(* so a cancelled watchdog can still trigger.                                *)
WatchdogTrigger(p) ==
    /\ wdPc[p] = "poll"
    /\ p \in expired
    /\ triggered' = triggered \cup {p}
    /\ wdPc' = [wdPc EXCEPT ![p] = "latch"]
    /\ UNCHANGED <<expired, wdCancelled, wdErrors>>
    /\ UNCHANGED <<armVars, ioLock, ctlVars, permitVars, exVars, opVars, histVars>>

WatchdogQuit(p) ==
    /\ wdPc[p] = "poll"
    /\ p \in wdCancelled
    /\ wdPc' = [wdPc EXCEPT ![p] = "done"]
    /\ UNCHANGED <<expired, wdCancelled, triggered, wdErrors>>
    /\ UNCHANGED <<armVars, ioLock, ctlVars, permitVars, exVars, opVars, histVars>>

\* mutant: the deadline stops the program but does not latch the arm
UnlatchedWatchdog(p) ==
    /\ wdPc[p] = "latch"
    /\ wdPc' = [wdPc EXCEPT ![p] = "dashboard"]
    /\ UNCHANGED <<expired, wdCancelled, triggered, wdErrors>>
    /\ UNCHANGED <<armVars, ioLock, ctlVars, permitVars, exVars, opVars, histVars>>

WatchdogLatch(p) ==
    /\ wdPc[p] = "latch"
    /\ LatchStop
    /\ wdPc' = [wdPc EXCEPT ![p] = "dashboard"]
    /\ UNCHANGED <<expired, wdCancelled, triggered, wdErrors>>
    /\ UNCHANGED <<enabled, ioLock, ctlVars, permitVars, exVars, opVars, histVars>>

\* mutant: the deadline stop queues behind the I/O lock like an ordinary stop
QueuedWatchdogStop(p) ==
    /\ wdPc[p] = "dashboard"
    /\ ioLock = "free"
    /\ ProgramStopped
    /\ haltedBy' = haltedBy \cup {p}
    /\ wdPc' = [wdPc EXCEPT ![p] = "done"]
    /\ UNCHANGED <<expired, wdCancelled, triggered, wdErrors>>
    /\ UNCHANGED <<armVars, ioLock, permitVars, exVars, opVars>>
    /\ UNCHANGED <<opLatched, opAcked, lateWrites>>

(* The Dashboard call of _guarded_deadline_stop takes no lock of the arm.    *)
WatchdogDashboard(p) ==
    /\ wdPc[p] = "dashboard"
    /\ \/ ProgramStopped /\ haltedBy' = haltedBy \cup {p} /\ UNCHANGED wdErrors
       \/ /\ ProgramStopped \/ UNCHANGED ctlVars
          /\ wdErrors' = wdErrors \cup {p} /\ UNCHANGED haltedBy
    /\ wdPc' = [wdPc EXCEPT ![p] = "done"]
    /\ UNCHANGED <<expired, wdCancelled, triggered>>
    /\ UNCHANGED <<armVars, ioLock, permitVars, exVars, opVars>>
    /\ UNCHANGED <<opLatched, opAcked, lateWrites>>

-----------------------------------------------------------------------------
(* The operator stop: StopScanCoordinator.request_stop raises the flag, then *)
(* calls EliteArm.stop on its own thread.                                    *)

RequestStop ==
    /\ opPc = "idle"
    /\ opStops < MaxOperatorStops
    /\ opStops' = opStops + 1
    /\ cancelled' = TRUE
    /\ opPc' = "latch"
    /\ UNCHANGED <<armVars, ioLock, ctlVars, permitVars, exVars, wdVars, histVars>>

OperatorLatch ==
    /\ opPc = "latch"
    /\ LatchStop
    /\ opLatched' = TRUE
    /\ opPc' = "io"
    /\ UNCHANGED <<opStops, cancelled, opAcked, haltedBy, lateWrites>>
    /\ UNCHANGED <<enabled, ioLock, ctlVars, permitVars, exVars, wdVars>>

OperatorAcquire ==
    /\ opPc = "io"
    /\ ioLock = "free"
    /\ ioLock' = "op"
    /\ opPc' = "send"
    /\ UNCHANGED <<opStops, cancelled>>
    /\ UNCHANGED <<armVars, ctlVars, permitVars, exVars, wdVars, histVars>>

OperatorSend ==
    /\ opPc = "send"
    /\ \E ok \in BOOLEAN :
          /\ StopTransport(ok)
          /\ opAcked' = (opAcked \/ ok)
    /\ ioLock' = "free"
    /\ opPc' = "idle"
    /\ UNCHANGED <<opStops, cancelled, opLatched, haltedBy, lateWrites>>
    /\ UNCHANGED <<armVars, permitVars, exVars, wdVars>>

-----------------------------------------------------------------------------
(* The controller on its own.                                               *)

ControllerOnly ==
    UNCHANGED <<armVars, ioLock, permitVars, exVars, wdVars, opVars, histVars>>

\* the external-control program opens the reverse connection
ReverseUp ==
    /\ playing /\ enabled /\ ~reverse
    /\ reverse' = TRUE
    /\ UNCHANGED <<playing, servoing>>
    /\ ControllerOnly

\* the session is lost: its program ends and the arm with it
SessionDrop ==
    /\ reverse
    /\ ProgramStopped
    /\ ControllerOnly

\* no target within the write timeout
ServoTimeout ==
    /\ servoing
    /\ servoing' = FALSE
    /\ UNCHANGED <<playing, reverse>>
    /\ ControllerOnly

-----------------------------------------------------------------------------
TransactionStep ==
    \/ Admit \/ EnableCall \/ PublishEnabled \/ AfterEnable \/ Resume
    \/ Connect \/ Await \/ Recheck \/ Recovered \/ Prepared \/ Streamed \/ Settled
    \/ Begin \/ Command \/ BeginWrite \/ WriteFailed
    \/ WroteWarmup \/ WroteCommand \/ WroteHold
    \/ CloseWatchdog \/ JoinWatchdog \/ Reap
    \/ StopLatch \/ StopAcquire \/ StopSend

WatchdogStep(p) ==
    \/ WatchdogTrigger(p) \/ WatchdogQuit(p)
    \/ WatchdogLatch(p) \/ WatchdogDashboard(p)

OperatorStep == OperatorLatch \/ OperatorAcquire \/ OperatorSend

ControllerStep == ReverseUp \/ SessionDrop \/ ServoTimeout

Next ==
    \/ Authorize
    \/ \E p \in Permits : Reject(p) \/ Execute(p) \/ Expire(p) \/ WatchdogStep(p)
    \/ BoundaryStop
    \/ TransactionStep
    \/ EndWrite
    \/ RequestStop
    \/ OperatorStep
    \/ ControllerStep

Spec == Init /\ [][Next]_vars

(* Python threads that can run do run, and the Dashboard answers.  Nothing   *)
(* is assumed of the vendor write, EndWrite: it may never return.  Nor is an *)
(* operator ever obliged to approve, to execute or to stop anything.         *)
FairSpec ==
    /\ Spec
    /\ \A p \in Permits : WF_vars(WatchdogStep(p))
    /\ WF_vars(TransactionStep)
    /\ WF_vars(OperatorStep)

-----------------------------------------------------------------------------
(* Safety.                                                                  *)

(* Once the stop of an operator request has returned without an error, the   *)
(* controller is idle and the latch engaged from then on, although approvals *)
(* may be minted and executed between the latch of that stop and its         *)
(* transport, and after it: EliteArm.stop latches before it takes the I/O    *)
(* lock, execute checks the cancellation flag before it clears a latch.      *)
AcknowledgedStopIsFinal == opAcked => stopped /\ ~servoing /\ exPc # "inflight"

(* At most one ServoJ target reaches the controller after a stop has latched *)
(* the arm: the generation check and the vendor call of _write_servoj_joint  *)
(* share one critical section.                                               *)
AtMostOneLateWrite == lateWrites <= 1

(* When execute has returned and the controller still follows targets, the   *)
(* caller has been told so: a success, an ordinary failure, or no report at  *)
(* all means that the controller is idle.                                    *)
QuietReportMeansIdle ==
    exPc = "idle" /\ servoing => outcome \in {"stopFailed", "unconfirmed"}

(* After the Dashboard accepted the stop of an expired execution, no write   *)
(* of that execution moves the arm again, not even the one in flight and not *)
(* over a session the startup recovery reconnects.                           *)
DeadlineStopHolds == current \in haltedBy => ~servoing

(* A latch is cleared at most once per approval, and never by an approval    *)
(* given before the latest stop.  The detailed arm implements MotionBoundary *)
(* where an approval is outstanding while an unconsumed permit, or the one   *)
(* being admitted, names the generation of the engaged latch.                *)
Outstanding == active \cup (IF exPc \in PreRelease THEN {current} ELSE {})

Boundary == INSTANCE MotionBoundary WITH
    latched <- stopped,
    approved <- (stopped /\ \E p \in Outstanding : permitGeneration[p] = stopGeneration),
    closed <- opLatched,
    command <- (exPc = "inflight"),
    servoing <- servoing,
    acknowledged <- opAcked

ImplementsMotionBoundary == Boundary!Spec

-----------------------------------------------------------------------------
(* Liveness.                                                                *)

(* An expired execution whose watchdog still polls gets its Dashboard stop   *)
(* even if a vendor write never returns and keeps the I/O lock for good.     *)
DeadlineStopNotBlocked ==
    \A p \in Permits : (wdPc[p] = "poll" /\ p \in expired) ~> wdPc[p] = "done"

(* While vendor writes return, execute returns, whatever fails on its way,   *)
(* and so does every operator stop: no path keeps the I/O lock.              *)
WritesReturn == []<>(exPc # "inflight")

ExecuteReturns == WritesReturn => (exPc # "idle" ~> exPc = "idle")
OperatorStopReturns == WritesReturn => (opPc # "idle" ~> opPc = "idle")

=============================================================================
