------------------------- MODULE GuardedMotionSafety -------------------------
(***************************************************************************)
(* The inductive invariant of GuardedMotion, the safety theorems that      *)
(* follow from it and the implementation of MotionBoundary, for every      *)
(* value of the bounds.                                                    *)
(***************************************************************************)
EXTENDS GuardedMotionProofs

-----------------------------------------------------------------------------
(* The inductive invariant.                                                 *)

\* the command I/O lock is held exactly around the transport calls
LockInv ==
    /\ ioLock = "ex" <=> exPc \in {"inflight", "stopSend"}
    /\ ioLock = "op" <=> opPc = "send"

\* no approval names a stop that has not happened
GenerationInv == \A p \in Permits : permitGeneration[p] <= stopGeneration

\* the controller follows targets only of a session that is up
SessionInv == servoing => reverse

(* An operator stop that has latched keeps the arm latched: an execution     *)
(* past its cancellation check holds an approval older than that latch.      *)
OperatorInv ==
    /\ opPc # "idle" => cancelled
    /\ opPc \in {"io", "send"} => opLatched
    /\ opAcked => opLatched
    /\ opLatched => cancelled /\ stopped
    /\ opLatched /\ exPc \in PreRelease \ {"admit"} =>
          permitGeneration[current] < stopGeneration

LateInv ==
    /\ AtMostOneLateWrite
    /\ ~stopped \/ exPc = "inflight" => lateWrites = 0

\* a permit that was not consumed has no watchdog
FreshInv ==
    \A p \in Permits :
        /\ p \in active => p <= minted
        /\ p \in active \/ p > minted => wdPc[p] = "off"

(* A deadline stop the Dashboard accepted makes its permit stale, and ends   *)
(* the session under a write that is still in flight.                        *)
HaltInv ==
    /\ \A p \in Permits : wdPc[p] = "dashboard" \/ p \in haltedBy =>
          permitGeneration[p] < stopGeneration
    /\ \A p \in haltedBy : wdPc[p] = "done"
    /\ DeadlineStopHolds
    /\ current \in haltedBy /\ exPc = "inflight" => ~reverse /\ ~playing

IInv ==
    /\ TypeInv
    /\ LockInv /\ GenerationInv /\ SessionInv /\ OperatorInv
    /\ AcknowledgedStopIsFinal
    /\ LateInv
    /\ FreshInv /\ HaltInv
    /\ QuietReportMeansIdle

-----------------------------------------------------------------------------
(* The steps of the transaction thread, seen from that invariant.           *)

\* the latch stays, or a stop publishes a new generation
LatchMove ==
    \/ UNCHANGED <<stopGeneration, stopped>>
    \/ LatchStop

Quiet == {"idle", "inflight", "stopSend"}

(* A step outside the transport calls: it may latch and may play or stop the *)
(* Dashboard task, and it gets past the admission only uncancelled.          *)
ControlMove ==
    /\ exPc \notin Quiet /\ exPc' \notin Quiet
    /\ exPc' # "admit"
    /\ exPc' \in PreRelease => exPc \in PreRelease
    /\ exPc' \in PreRelease /\ exPc = "admit" => ~cancelled
    /\ LatchMove
    /\ UNCHANGED <<reverse, servoing, ioLock, permitVars, current, outcome>>
    /\ UNCHANGED <<wdPc, opVars, histVars>>

ControlStep ==
    \/ Admit \/ EnableCall \/ PublishEnabled \/ AfterEnable
    \/ Connect \/ Await \/ Recheck \/ Recovered \/ Prepared \/ Streamed \/ Settled
    \/ Begin \/ Command \/ WriteFailed \/ WroteWarmup \/ WroteCommand \/ WroteHold
    \/ CloseWatchdog \/ JoinWatchdog \/ Reap \/ StopLatch

(* The steps of the transaction that change nothing but its program counter,
   the latch and the Dashboard task. *)
LEMMA ControlSteps == TypeInv /\ ControlStep => ControlMove
  <1> SUFFICES ASSUME TypeInv, ControlStep PROVE ControlMove
    OBVIOUS
  <1> USE DEF ControlMove, LatchMove, Quiet, PreRelease, armVars, ctlVars, permitVars, callVars,
          wdVars, opVars, histVars, flowVars
  <1>1. CASE Admit
    BY <1>1 DEF Admit, Goto, Raise, ExMoves, ApprovedLatch, CancellationRequested
  <1>2. CASE EnableCall
    BY <1>2 DEF EnableCall, EnableFails, EnableMoves, Goto, Raise, AfterCall, DeadlineLatch
  <1>3. CASE PublishEnabled
    BY <1>3 DEF PublishEnabled, EnableFails, EnableMoves, Goto, Raise
  <1>4. CASE AfterEnable
    BY <1>4 DEF AfterEnable, Goto, Raise, ExMoves
  <1>5. CASE Connect
    BY <1>5 DEF Connect, Goto, Raise, Abort, FailStage, Connected, ConnectFailed,
       DeadlineLatch
  <1>6. CASE Await
    BY <1>6 DEF Await, ExMoves, Goto, Raise, Abort, FailStage, Connected,
       ConnectFailed, DeadlineLatch
  <1>7. CASE Recheck
    BY <1>7 DEF Recheck, ExMoves, Goto, Raise, DeadlineLatch
  <1>8. CASE Recovered
    BY <1>8 DEF Recovered, ExMoves, Raise, EnterStage
  <1>9. CASE Prepared
    BY <1>9 DEF Prepared, ExMoves, Raise, EnterStage
  <1>10. CASE Streamed
    BY <1>10 DEF Streamed, ExMoves, Goto, Raise, EnterStage
  <1>11. CASE Settled
    BY <1>11 DEF Settled, ExMoves, Raise
  <1>12. CASE Begin
    BY <1>12 DEF Begin, ExMoves, Goto, Raise, DeadlineLatch
  <1>13. CASE Command
    BY <1>13 DEF Command, ExMoves, Goto, Raise, Abort, FailStage, DeadlineLatch
  <1>14. CASE WriteFailed
    BY <1>14 DEF WriteFailed, ExMoves, Raise, Abort, FailStage, DeadlineLatch
  <1>15. CASE WroteWarmup
    BY <1>15 DEF WroteWarmup, ExMoves, Raise, NextCommand, DeadlineLatch
  <1>16. CASE WroteCommand
    BY <1>16 DEF WroteCommand, ExMoves, Abort, NextCommand
  <1>17. CASE WroteHold
    BY <1>17 DEF WroteHold, ExMoves, Raise, NextCommand
  <1>18. CASE CloseWatchdog
    BY <1>18 DEF CloseWatchdog, Goto
  <1>19. CASE JoinWatchdog
    BY <1>19 DEF JoinWatchdog, Goto
  <1>20. CASE Reap
    BY <1>20 DEF Reap
  <1>21. CASE StopLatch
    BY <1>21 DEF StopLatch, ExMoves, Goto
  <1> QED
    BY <1>1, <1>2, <1>3, <1>4, <1>5, <1>6, <1>7, <1>8, <1>9, <1>10, <1>11, <1>12,
       <1>13, <1>14, <1>15, <1>16, <1>17, <1>18, <1>19, <1>20, <1>21 DEF ControlStep

(* The two steps of the transaction that release the latch and start a write. *)
Release ==
    /\ exPc = "resume" /\ exPc' = "connect"
    /\ ApprovedLatch /\ stopped' = FALSE
    /\ lateWrites' = 0
    /\ UNCHANGED <<stopGeneration, ctlVars, ioLock, permitVars, current, outcome>>
    /\ UNCHANGED <<wdPc, opVars, opLatched, opAcked, haltedBy>>

Departure ==
    /\ exPc = "write" /\ exPc' = "inflight"
    /\ ioLock = "free" /\ ioLock' = "ex"
    /\ ActiveGeneration
    /\ UNCHANGED <<stopGeneration, stopped, ctlVars, permitVars, current, outcome>>
    /\ UNCHANGED <<wdPc, opVars, histVars>>

LEMMA ResumeSteps == Resume => ControlMove \/ Release
  <1> SUFFICES ASSUME Resume PROVE ControlMove \/ Release
    OBVIOUS
  <1>1. CASE exPc' = "connect"
    BY <1>1 DEF Resume, Raise, Release, callVars, wdVars
  <1>2. CASE exPc' # "connect"
    BY <1>2 DEF Resume, Raise, DeadlineLatch, ControlMove, LatchMove, Quiet, PreRelease,
       armVars, ctlVars, callVars, wdVars, histVars
  <1> QED
    BY <1>1, <1>2

LEMMA BeginWriteSteps == BeginWrite => ControlMove \/ Departure
  <1> SUFFICES ASSUME BeginWrite PROVE ControlMove \/ Departure
    OBVIOUS
  <1>1. CASE ActiveGeneration
    BY <1>1 DEF BeginWrite, Goto, Departure, armVars, callVars, wdVars
  <1>2. CASE ~ActiveGeneration
    BY <1>2 DEF BeginWrite, FailStage, Abort, Raise, ControlMove, LatchMove, Quiet,
       PreRelease, armVars, ctlVars, callVars, wdVars
  <1> QED
    BY <1>1, <1>2

-----------------------------------------------------------------------------
(* The invariant holds initially and is preserved.                          *)

LEMMA InvInit == Init => IInv
  <1> SUFFICES ASSUME Init PROVE IInv
    OBVIOUS
  <1>1. LockInv /\ SessionInv /\ OperatorInv /\ AcknowledgedStopIsFinal
    BY DEF Init, LockInv, SessionInv, OperatorInv, AcknowledgedStopIsFinal, PreRelease
  <1>2. GenerationInv /\ FreshInv
    BY DEF Init, GenerationInv, FreshInv
  <1>3. LateInv /\ QuietReportMeansIdle
    BY DEF Init, LateInv, AtMostOneLateWrite, QuietReportMeansIdle
  <1>4. HaltInv
    BY DEF Init, HaltInv, DeadlineStopHolds
  <1> QED
    BY <1>1, <1>2, <1>3, <1>4, TypeInit DEF IInv

(* The transport of a stop never starts or connects anything, and the call   *)
(* that returns leaves the controller idle.                                  *)
LEMMA TransportMoves ==
    ASSUME ControllerTypes, SessionInv, NEW ok \in BOOLEAN, StopTransport(ok)
    PROVE  /\ SessionInv'
           /\ servoing' => servoing
           /\ reverse' => reverse
           /\ playing' => playing
           /\ ok => ~servoing'
  <1>1. CASE ProgramStopped
    BY <1>1 DEF ProgramStopped, SessionInv
  <1>2. CASE reverse /\ servoing' \in (IF ok THEN {FALSE} ELSE {servoing, FALSE})
                     /\ UNCHANGED <<playing, reverse>>
    BY <1>2, Zenon DEF SessionInv
  <1>3. CASE ~reverse /\ UNCHANGED ctlVars
    BY <1>3 DEF ctlVars, SessionInv
  <1> QED
    BY <1>1, <1>2, <1>3 DEF StopTransport
(* What a step leaves alone stays true. *)
LEMMA SameParts ==
    ASSUME IInv
    PROVE  /\ UNCHANGED <<ioLock, exPc, opPc>> => LockInv'
           /\ UNCHANGED <<permitGeneration, stopGeneration>> => GenerationInv'
           /\ UNCHANGED <<servoing, reverse>> => SessionInv'
           /\ UNCHANGED <<opPc, cancelled, opLatched, opAcked, stopped, exPc, permitGeneration, current, stopGeneration>> =>
                 OperatorInv'
           /\ UNCHANGED <<opAcked, stopped, servoing, exPc>> => AcknowledgedStopIsFinal'
           /\ UNCHANGED <<lateWrites, stopped, exPc>> => LateInv'
           /\ UNCHANGED <<active, minted, wdPc>> => FreshInv'
           /\ UNCHANGED <<wdPc, haltedBy, permitGeneration, stopGeneration, current, servoing, exPc, reverse, playing>> =>
                 HaltInv'
           /\ UNCHANGED <<exPc, servoing, outcome>> => QuietReportMeansIdle'
  BY DEF IInv, LockInv, GenerationInv, SessionInv, OperatorInv,
     AcknowledgedStopIsFinal, LateInv, AtMostOneLateWrite, FreshInv, HaltInv,
     DeadlineStopHolds, QuietReportMeansIdle

LEMMA InvStep == IInv /\ [Next]_vars => IInv'
  <1> SUFFICES ASSUME IInv, [Next]_vars PROVE IInv'
    OBVIOUS
  <1> USE DEF armVars, ctlVars, permitVars, exVars, callVars, flowVars, wdVars, opVars,
              histVars
  <1>a. TypeInv /\ TypeInv'
    BY TypeStep DEF IInv
  <1>b. stopGeneration \in Nat /\ \A p \in Permits : permitGeneration[p] \in Nat
    BY <1>a DEF TypeInv, TypeOK, ArmTypes, PermitTypes
  <1>c. exPc \in PreRelease \cup Streaming => current \in Permits
    BY <1>a DEF TypeInv, CurrentPermit, Executing
  <1>d. /\ wdPc \in [Permits -> {"off", "poll", "latch", "dashboard", "done"}]
        /\ haltedBy \subseteq Permits
    BY <1>a DEF TypeInv, TypeOK, WatchdogTypes, HistoryTypes
  <1>e. /\ stopped \in BOOLEAN /\ stopped' \in BOOLEAN
        /\ servoing \in BOOLEAN /\ servoing' \in BOOLEAN
        /\ reverse \in BOOLEAN /\ reverse' \in BOOLEAN
        /\ playing \in BOOLEAN /\ playing' \in BOOLEAN
        /\ opAcked \in BOOLEAN /\ opAcked' \in BOOLEAN
    BY <1>a DEF TypeInv, TypeOK, ArmTypes, ControllerTypes, HistoryTypes
  <1>1. ASSUME ControlMove PROVE IInv'
    <2>1. LockInv'
      BY <1>1 DEF IInv, ControlMove, LatchMove, LockInv, LatchStop, Quiet
    <2>2. GenerationInv'
      BY <1>1, <1>b DEF IInv, ControlMove, LatchMove, GenerationInv, LatchStop, Quiet
    <2>3. OperatorInv'
      BY <1>1, <1>b, <1>c DEF IInv, ControlMove, LatchMove, OperatorInv, PreRelease,
         LatchStop, Quiet
    <2>4. AcknowledgedStopIsFinal'
      BY <1>1, <1>e DEF IInv, ControlMove, LatchMove, AcknowledgedStopIsFinal,
         LatchStop, Quiet
    <2>5. LateInv'
      BY <1>1 DEF IInv, ControlMove, LatchMove, LateInv, AtMostOneLateWrite, LatchStop,
         Quiet
    <2>6. HaltInv'
      BY <1>1, <1>b, <1>d DEF IInv, ControlMove, LatchMove, HaltInv, DeadlineStopHolds,
         LatchStop, Quiet
    <2>7. QuietReportMeansIdle'
      BY <1>1 DEF IInv, ControlMove, LatchMove, QuietReportMeansIdle, LatchStop, Quiet
    <2> QED
      BY <1>1, <1>a, <2>1, <2>2, <2>3, <2>4, <2>5, <2>6, <2>7, SameParts DEF IInv,
         ControlMove
  <1>2. ASSUME Release PROVE IInv'
    <2>1. LockInv'
      BY <1>2 DEF IInv, Release, LockInv, ApprovedLatch, CurrentGeneration
    <2>2. OperatorInv'
      BY <1>2, <1>b, <1>c DEF IInv, Release, OperatorInv, PreRelease, ApprovedLatch,
         CurrentGeneration
    <2>3. AcknowledgedStopIsFinal'
      BY <1>2, <1>b, <1>c, <1>e DEF IInv, Release, AcknowledgedStopIsFinal, OperatorInv,
         PreRelease, ApprovedLatch, CurrentGeneration
    <2>4. LateInv'
      BY <1>2 DEF IInv, Release, LateInv, AtMostOneLateWrite, ApprovedLatch,
         CurrentGeneration
    <2>5. HaltInv'
      BY <1>2, <1>b, <1>d DEF IInv, Release, HaltInv, DeadlineStopHolds, ApprovedLatch,
         CurrentGeneration
    <2>6. QuietReportMeansIdle'
      BY <1>2 DEF IInv, Release, QuietReportMeansIdle, ApprovedLatch, CurrentGeneration
    <2> QED
      BY <1>2, <1>a, <2>1, <2>2, <2>3, <2>4, <2>5, <2>6, SameParts DEF IInv, Release
  <1>3. ASSUME Departure PROVE IInv'
    <2>1. LockInv'
      BY <1>3 DEF IInv, Departure, LockInv, ActiveGeneration, CurrentGeneration
    <2>2. OperatorInv'
      BY <1>3, <1>b, <1>c DEF IInv, Departure, OperatorInv, PreRelease,
         ActiveGeneration, CurrentGeneration
    <2>3. AcknowledgedStopIsFinal'
      BY <1>3 DEF IInv, Departure, AcknowledgedStopIsFinal, ActiveGeneration,
         CurrentGeneration
    <2>4. LateInv'
      BY <1>3 DEF IInv, Departure, LateInv, AtMostOneLateWrite, ActiveGeneration,
         CurrentGeneration
    <2>5. HaltInv'
      BY <1>3, <1>b, <1>c, <1>d DEF IInv, Departure, HaltInv, DeadlineStopHolds,
         Streaming, ActiveGeneration, CurrentGeneration
    <2>6. QuietReportMeansIdle'
      BY <1>3 DEF IInv, Departure, QuietReportMeansIdle, ActiveGeneration,
         CurrentGeneration
    <2> QED
      BY <1>3, <1>a, <2>1, <2>2, <2>3, <2>4, <2>5, <2>6, SameParts DEF IInv, Departure
  <1>4. ASSUME Authorize PROVE IInv'
    <2>1. GenerationInv'
      BY <1>4, <1>b DEF IInv, Authorize, GenerationInv
    <2>2. OperatorInv'
      BY <1>4, <1>b, <1>c DEF IInv, Authorize, OperatorInv, PreRelease
    <2>3. FreshInv'
      BY <1>4, <1>a, <1>d DEF IInv, Authorize, FreshInv, TypeInv, TypeOK, PermitTypes,
         Permits
    <2>4. HaltInv'
      BY <1>4, <1>b, <1>d, <1>a DEF IInv, Authorize, HaltInv, DeadlineStopHolds,
         FreshInv, TypeInv, TypeOK, PermitTypes
    <2> QED
      BY <1>4, <1>a, <2>1, <2>2, <2>3, <2>4, SameParts DEF IInv, Authorize
  <1>5. ASSUME NEW p \in Permits, Reject(p) PROVE IInv'
    <2>1. FreshInv'
      BY <1>5 DEF IInv, Reject, FreshInv
    <2> QED
      BY <1>5, <1>a, <2>1, SameParts DEF IInv, Reject
  <1>6. ASSUME NEW p \in Permits, Execute(p) PROVE IInv'
    <2>1. LockInv'
      BY <1>6 DEF IInv, Execute, LockInv
    <2>2. OperatorInv'
      BY <1>6, <1>b, <1>c DEF IInv, Execute, OperatorInv, PreRelease
    <2>3. AcknowledgedStopIsFinal'
      BY <1>6 DEF IInv, Execute, AcknowledgedStopIsFinal
    <2>4. LateInv'
      BY <1>6 DEF IInv, Execute, LateInv, AtMostOneLateWrite
    <2>5. FreshInv'
      BY <1>6, <1>a, <1>d DEF IInv, Execute, FreshInv, TypeInv, TypeOK, PermitTypes,
         Permits
    <2>6. HaltInv'
      BY <1>6, <1>b, <1>d DEF IInv, Execute, HaltInv, DeadlineStopHolds, FreshInv
    <2>7. QuietReportMeansIdle'
      BY <1>6 DEF IInv, Execute, QuietReportMeansIdle
    <2> QED
      BY <1>6, <1>a, <2>1, <2>2, <2>3, <2>4, <2>5, <2>6, <2>7, SameParts DEF IInv,
         Execute
  <1>7. ASSUME NEW p \in Permits, Expire(p) PROVE IInv'
    <2> QED
      BY <1>7, <1>a, SameParts DEF IInv, Expire
  <1>8. ASSUME NEW p \in Permits, WatchdogTrigger(p) PROVE IInv'
    <2>1. FreshInv'
      BY <1>8 DEF IInv, WatchdogTrigger, FreshInv
    <2>2. HaltInv'
      BY <1>8, <1>b, <1>d DEF IInv, WatchdogTrigger, HaltInv, DeadlineStopHolds
    <2> QED
      BY <1>8, <1>a, <2>1, <2>2, SameParts DEF IInv, WatchdogTrigger
  <1>9. ASSUME NEW p \in Permits, WatchdogQuit(p) PROVE IInv'
    <2>1. FreshInv'
      BY <1>9 DEF IInv, WatchdogQuit, FreshInv
    <2>2. HaltInv'
      BY <1>9, <1>b, <1>d DEF IInv, WatchdogQuit, HaltInv, DeadlineStopHolds
    <2> QED
      BY <1>9, <1>a, <2>1, <2>2, SameParts DEF IInv, WatchdogQuit
  <1>10. ASSUME NEW p \in Permits, WatchdogLatch(p) PROVE IInv'
    <2>1. GenerationInv'
      BY <1>10, <1>b DEF IInv, WatchdogLatch, GenerationInv, LatchStop
    <2>2. OperatorInv'
      BY <1>10, <1>b, <1>c DEF IInv, WatchdogLatch, OperatorInv, PreRelease, LatchStop
    <2>3. AcknowledgedStopIsFinal'
      BY <1>10 DEF IInv, WatchdogLatch, AcknowledgedStopIsFinal, LatchStop
    <2>4. LateInv'
      BY <1>10 DEF IInv, WatchdogLatch, LateInv, AtMostOneLateWrite, LatchStop
    <2>5. FreshInv'
      BY <1>10 DEF IInv, WatchdogLatch, FreshInv, LatchStop
    <2>6. HaltInv'
      BY <1>10, <1>b, <1>d DEF IInv, WatchdogLatch, HaltInv, DeadlineStopHolds,
         GenerationInv, LatchStop
    <2> QED
      BY <1>10, <1>a, <2>1, <2>2, <2>3, <2>4, <2>5, <2>6, SameParts DEF IInv,
         WatchdogLatch
  <1>11. ASSUME NEW p \in Permits, WatchdogDashboard(p) PROVE IInv'
    <2>1. SessionInv'
      BY <1>11 DEF IInv, WatchdogDashboard, ProgramStopped, SessionInv
    <2>2. AcknowledgedStopIsFinal'
      BY <1>11 DEF IInv, WatchdogDashboard, ProgramStopped, AcknowledgedStopIsFinal
    <2>3. FreshInv'
      BY <1>11 DEF IInv, WatchdogDashboard, ProgramStopped, FreshInv
    <2>4. HaltInv'
      BY <1>11, <1>b, <1>d, <1>e DEF IInv, WatchdogDashboard, ProgramStopped, HaltInv,
         DeadlineStopHolds
    <2>5. QuietReportMeansIdle'
      BY <1>11 DEF IInv, WatchdogDashboard, ProgramStopped, QuietReportMeansIdle
    <2> QED
      BY <1>11, <1>a, <2>1, <2>2, <2>3, <2>4, <2>5, SameParts DEF IInv,
         WatchdogDashboard
  <1>12. ASSUME BoundaryStop PROVE IInv'
    <2>1. LockInv'
      BY <1>12 DEF IInv, BoundaryStop, LockInv
    <2>2. OperatorInv'
      BY <1>12, <1>b, <1>c DEF IInv, BoundaryStop, OperatorInv, PreRelease
    <2>3. AcknowledgedStopIsFinal'
      BY <1>12 DEF IInv, BoundaryStop, AcknowledgedStopIsFinal
    <2>4. LateInv'
      BY <1>12 DEF IInv, BoundaryStop, LateInv, AtMostOneLateWrite
    <2>5. HaltInv'
      BY <1>12, <1>b, <1>d DEF IInv, BoundaryStop, HaltInv, DeadlineStopHolds
    <2>6. QuietReportMeansIdle'
      BY <1>12 DEF IInv, BoundaryStop, QuietReportMeansIdle
    <2> QED
      BY <1>12, <1>a, <2>1, <2>2, <2>3, <2>4, <2>5, <2>6, SameParts DEF IInv,
         BoundaryStop
  <1>13. ASSUME StopAcquire PROVE IInv'
    <2>1. LockInv'
      BY <1>13 DEF IInv, StopAcquire, Goto, LockInv
    <2>2. OperatorInv'
      BY <1>13, <1>b, <1>c DEF IInv, StopAcquire, Goto, OperatorInv, PreRelease
    <2>3. AcknowledgedStopIsFinal'
      BY <1>13 DEF IInv, StopAcquire, Goto, AcknowledgedStopIsFinal
    <2>4. LateInv'
      BY <1>13 DEF IInv, StopAcquire, Goto, LateInv, AtMostOneLateWrite
    <2>5. HaltInv'
      BY <1>13, <1>b, <1>d DEF IInv, StopAcquire, Goto, HaltInv, DeadlineStopHolds
    <2>6. QuietReportMeansIdle'
      BY <1>13 DEF IInv, StopAcquire, Goto, QuietReportMeansIdle
    <2> QED
      BY <1>13, <1>a, <2>1, <2>2, <2>3, <2>4, <2>5, <2>6, SameParts DEF IInv,
         StopAcquire
  <1>14. ASSUME StopSend PROVE IInv'
    <2>a. SessionInv' /\ (servoing' => servoing) /\ (reverse' => reverse) /\ (playing' => playing)
      BY <1>14, <1>a, TransportMoves DEF StopSend, IInv, TypeInv, TypeOK
    <2>1. LockInv'
      BY <1>14 DEF IInv, StopSend, StopTransport, ProgramStopped, LockInv
    <2>2. SessionInv'
      BY <2>a
    <2>3. OperatorInv'
      BY <1>14, <1>b, <1>c DEF IInv, StopSend, StopTransport, ProgramStopped,
         OperatorInv, PreRelease
    <2>4. AcknowledgedStopIsFinal'
      BY <1>14, <2>a, <1>e DEF IInv, StopSend, StopTransport, ProgramStopped,
         AcknowledgedStopIsFinal
    <2>5. LateInv'
      BY <1>14 DEF IInv, StopSend, StopTransport, ProgramStopped, LateInv,
         AtMostOneLateWrite
    <2>6. HaltInv'
      <3>1. current' \notin haltedBy
        BY <1>14, <1>d DEF StopSend, NoPermit, Permits
      <3> QED
        BY <1>14, <3>1, <1>b, <1>d DEF StopSend, IInv, HaltInv, DeadlineStopHolds
    <2>7. QuietReportMeansIdle'
      <3>1. PICK ok \in BOOLEAN : StopTransport(ok) /\ outcome' = Report(ok)
        BY <1>14 DEF StopSend
      <3>2. ok => ~servoing'
        BY <1>a, <3>1, TransportMoves DEF IInv, TypeInv, TypeOK
      <3>3. ~ok => outcome' \in {"stopFailed", "unconfirmed"}
        BY <3>1 DEF Report
      <3> QED
        BY <3>2, <3>3 DEF QuietReportMeansIdle
    <2> QED
      BY <1>14, <1>a, <2>1, <2>2, <2>3, <2>4, <2>5, <2>6, <2>7, SameParts DEF IInv,
         StopSend
  <1>15. ASSUME EndWrite PROVE IInv'
    <2>1. LockInv'
      BY <1>15 DEF IInv, EndWrite, Goto, Land, LockInv
    <2>2. SessionInv'
      <3>1. PICK delivered \in {TRUE, FALSE} :
                 /\ delivered => reverse
                 /\ servoing' = (servoing \/ delivered)
                 /\ reverse' = reverse
        BY <1>15, <1>e DEF EndWrite, Land
      <3> QED
        BY <3>1 DEF IInv, SessionInv
    <2>3. OperatorInv'
      BY <1>15, <1>b, <1>c DEF IInv, EndWrite, Goto, Land, OperatorInv, PreRelease
    <2>4. AcknowledgedStopIsFinal'
      BY <1>15 DEF IInv, EndWrite, Goto, Land, AcknowledgedStopIsFinal
    <2>5. LateInv'
      BY <1>15 DEF IInv, EndWrite, Goto, Land, LateInv, AtMostOneLateWrite
    <2>6. HaltInv'
      BY <1>15, <1>b, <1>d, <1>e DEF IInv, EndWrite, Goto, Land, HaltInv,
         DeadlineStopHolds
    <2>7. QuietReportMeansIdle'
      BY <1>15 DEF IInv, EndWrite, Goto, Land, QuietReportMeansIdle
    <2> QED
      BY <1>15, <1>a, <2>1, <2>2, <2>3, <2>4, <2>5, <2>6, <2>7, SameParts DEF IInv,
         EndWrite
  <1>16. ASSUME RequestStop PROVE IInv'
    <2>1. LockInv'
      BY <1>16 DEF IInv, RequestStop, LockInv
    <2>2. OperatorInv'
      BY <1>16, <1>b, <1>c DEF IInv, RequestStop, OperatorInv, PreRelease
    <2> QED
      BY <1>16, <1>a, <2>1, <2>2, SameParts DEF IInv, RequestStop
  <1>17. ASSUME OperatorLatch PROVE IInv'
    <2>1. LockInv'
      BY <1>17 DEF IInv, OperatorLatch, LockInv, LatchStop
    <2>2. GenerationInv'
      BY <1>17, <1>b DEF IInv, OperatorLatch, GenerationInv, LatchStop
    <2>3. OperatorInv'
      BY <1>17, <1>b, <1>c DEF IInv, OperatorLatch, OperatorInv, PreRelease,
         GenerationInv, LatchStop
    <2>4. AcknowledgedStopIsFinal'
      BY <1>17 DEF IInv, OperatorLatch, AcknowledgedStopIsFinal, LatchStop
    <2>5. LateInv'
      BY <1>17 DEF IInv, OperatorLatch, LateInv, AtMostOneLateWrite, LatchStop
    <2>6. HaltInv'
      BY <1>17, <1>b, <1>d DEF IInv, OperatorLatch, HaltInv, DeadlineStopHolds,
         LatchStop
    <2> QED
      BY <1>17, <1>a, <2>1, <2>2, <2>3, <2>4, <2>5, <2>6, SameParts DEF IInv,
         OperatorLatch
  <1>18. ASSUME OperatorAcquire PROVE IInv'
    <2>1. LockInv'
      BY <1>18 DEF IInv, OperatorAcquire, LockInv
    <2>2. OperatorInv'
      BY <1>18, <1>b, <1>c DEF IInv, OperatorAcquire, OperatorInv, PreRelease
    <2> QED
      BY <1>18, <1>a, <2>1, <2>2, SameParts DEF IInv, OperatorAcquire
  <1>19. ASSUME OperatorSend PROVE IInv'
    <2>a. SessionInv' /\ (servoing' => servoing) /\ (reverse' => reverse) /\ (playing' => playing)
      BY <1>19, <1>a, TransportMoves DEF OperatorSend, IInv, TypeInv, TypeOK
    <2>1. LockInv'
      BY <1>19 DEF IInv, OperatorSend, StopTransport, ProgramStopped, LockInv
    <2>2. SessionInv'
      BY <2>a
    <2>3. OperatorInv'
      BY <1>19, <1>b, <1>c DEF IInv, OperatorSend, StopTransport, ProgramStopped,
         OperatorInv, PreRelease
    <2>4. AcknowledgedStopIsFinal'
      <3>1. PICK ok \in BOOLEAN : StopTransport(ok) /\ opAcked' = (opAcked \/ ok)
        BY <1>19 DEF OperatorSend
      <3>2. ok => ~servoing'
        BY <1>a, <3>1, TransportMoves DEF IInv, TypeInv, TypeOK
      <3>3. opLatched /\ ioLock = "op" /\ exPc # "inflight"
        BY <1>19 DEF OperatorSend, IInv, OperatorInv, LockInv
      <3>4. stopped' /\ exPc' # "inflight"
        BY <1>19, <3>3 DEF OperatorSend, IInv, OperatorInv
      <3> QED
        BY <3>1, <3>2, <3>4, <2>a DEF IInv, AcknowledgedStopIsFinal
    <2>5. HaltInv'
      BY <1>19, <2>a, <1>b, <1>d DEF IInv, OperatorSend, StopTransport, ProgramStopped,
         HaltInv, DeadlineStopHolds
    <2>6. QuietReportMeansIdle'
      BY <1>19 DEF IInv, OperatorSend, StopTransport, ProgramStopped,
         QuietReportMeansIdle
    <2> QED
      BY <1>19, <1>a, <2>1, <2>2, <2>3, <2>4, <2>5, <2>6, SameParts DEF IInv,
         OperatorSend
  <1>20. ASSUME ReverseUp PROVE IInv'
    <2>1. SessionInv'
      BY <1>20 DEF IInv, ReverseUp, ControllerOnly, SessionInv
    <2>2. HaltInv'
      BY <1>20, <1>b, <1>d DEF IInv, ReverseUp, ControllerOnly, HaltInv,
         DeadlineStopHolds
    <2> QED
      BY <1>20, <1>a, <2>1, <2>2, SameParts DEF IInv, ReverseUp, ControllerOnly
  <1>21. ASSUME SessionDrop PROVE IInv'
    <2>1. SessionInv'
      BY <1>21 DEF IInv, SessionDrop, ProgramStopped, ControllerOnly, SessionInv
    <2>2. AcknowledgedStopIsFinal'
      BY <1>21 DEF IInv, SessionDrop, ProgramStopped, ControllerOnly,
         AcknowledgedStopIsFinal
    <2>3. HaltInv'
      BY <1>21, <1>b, <1>d DEF IInv, SessionDrop, ProgramStopped, ControllerOnly,
         HaltInv, DeadlineStopHolds
    <2>4. QuietReportMeansIdle'
      BY <1>21 DEF IInv, SessionDrop, ProgramStopped, ControllerOnly,
         QuietReportMeansIdle
    <2> QED
      BY <1>21, <1>a, <2>1, <2>2, <2>3, <2>4, SameParts DEF IInv, SessionDrop,
         ControllerOnly
  <1>22. ASSUME ServoTimeout PROVE IInv'
    <2>1. SessionInv'
      BY <1>22 DEF IInv, ServoTimeout, ControllerOnly, SessionInv
    <2>2. AcknowledgedStopIsFinal'
      BY <1>22 DEF IInv, ServoTimeout, ControllerOnly, AcknowledgedStopIsFinal
    <2>3. HaltInv'
      BY <1>22, <1>b, <1>d DEF IInv, ServoTimeout, ControllerOnly, HaltInv,
         DeadlineStopHolds
    <2>4. QuietReportMeansIdle'
      BY <1>22 DEF IInv, ServoTimeout, ControllerOnly, QuietReportMeansIdle
    <2> QED
      BY <1>22, <1>a, <2>1, <2>2, <2>3, <2>4, SameParts DEF IInv, ServoTimeout,
         ControllerOnly
  <1>23. ASSUME UNCHANGED vars PROVE IInv'
    BY <1>23, <1>a, SameParts DEF IInv, vars
  <1>24. ControlStep => IInv'
    BY <1>1, <1>a, ControlSteps
  <1>25. Resume => IInv'
    BY <1>1, <1>2, ResumeSteps
  <1>26. BeginWrite => IInv'
    BY <1>1, <1>3, BeginWriteSteps
  <1> QED
    BY <1>4, <1>5, <1>6, <1>7, <1>8, <1>9, <1>10, <1>11, <1>12, <1>13, <1>14, <1>15,
       <1>16, <1>17, <1>18, <1>19, <1>20, <1>21, <1>22, <1>23, <1>24, <1>25, <1>26 DEF
       Next, TransactionStep, ControlStep, WatchdogStep, OperatorStep, ControllerStep

-----------------------------------------------------------------------------
(* The theorems.                                                            *)

LEMMA InvCorrect == Spec => []IInv
  BY InvInit, InvStep, PTL DEF Spec

(* After an operator stop returned without an error the arm is latched and   *)
(* its controller idle for good, whatever approvals are minted or executed   *)
(* while that stop is under way or later.                                    *)
THEOREM StopIsFinal == Spec => []AcknowledgedStopIsFinal
  <1>1. IInv => AcknowledgedStopIsFinal
    BY DEF IInv
  <1> QED
    BY <1>1, InvCorrect, PTL

(* Between a stop latch and the next release at most the one write that was  *)
(* already past its check reaches the controller.                            *)
THEOREM LateWritesBounded == Spec => []AtMostOneLateWrite
  <1>1. IInv => AtMostOneLateWrite
    BY DEF IInv, LateInv
  <1> QED
    BY <1>1, InvCorrect, PTL

(* No write of an execution moves the arm after the Dashboard accepted the   *)
(* deadline stop of that execution.                                          *)
THEOREM DeadlineStopIsFinal == Spec => []DeadlineStopHolds
  <1>1. IInv => DeadlineStopHolds
    BY DEF IInv, HaltInv
  <1> QED
    BY <1>1, InvCorrect, PTL

(* The caller of execute is never told less than the controller is doing.    *)
THEOREM ReportsAreHonest == Spec => []QuietReportMeansIdle
  <1>1. IInv => QuietReportMeansIdle
    BY DEF IInv
  <1> QED
    BY <1>1, InvCorrect, PTL


-----------------------------------------------------------------------------
(* The state of MotionBoundary, read off the state of GuardedMotion.        *)

Approved == stopped /\ \E p \in Outstanding : permitGeneration[p] = stopGeneration

\* Outstanding approvals are only withdrawn while the generation stands
LEMMA FewerApprovals ==
    ASSUME Outstanding' \subseteq Outstanding,
           UNCHANGED <<stopped, stopGeneration, permitGeneration>>
    PROVE  Approved' => Approved
  BY DEF Approved

\* a stop leaves no approval of its own generation behind
LEMMA StopWithdraws ==
    ASSUME IInv, LatchStop, UNCHANGED permitGeneration, Outstanding' \subseteq Permits
    PROVE  ~Approved'
  <1>1. \A p \in Permits : permitGeneration[p] <= stopGeneration
    BY DEF IInv, GenerationInv
  <1>2. stopGeneration \in Nat /\ \A p \in Permits : permitGeneration[p] \in Nat
    BY DEF IInv, TypeInv, TypeOK, ArmTypes, PermitTypes
  <1>3. \A p \in Permits : permitGeneration'[p] # stopGeneration'
    BY <1>1, <1>2 DEF LatchStop
  <1> QED
    BY <1>3 DEF Approved

\* a step that the boundary does not see, or only as a withdrawal
LEMMA Unseen ==
    ASSUME IInv, Outstanding' \subseteq Outstanding,
           UNCHANGED <<stopped, stopGeneration, permitGeneration, opLatched, servoing, opAcked>>,
           (exPc' = "inflight") = (exPc = "inflight")
    PROVE  [Boundary!Next]_(Boundary!vars)
  <1>1. CASE Approved' = Approved
    BY <1>1 DEF Boundary!vars, Approved
  <1>2. CASE Approved' # Approved
    <2>1. ~Approved'
      BY <1>2, FewerApprovals DEF Approved
    <2> QED
      BY <2>1 DEF Boundary!Next, Boundary!Withdraw, Approved
  <1> QED
    BY <1>1, <1>2

\* a stop that is not the operator's
LEMMA SeenAsStop ==
    ASSUME IInv, LatchStop, Outstanding' \subseteq Permits,
           UNCHANGED <<permitGeneration, opLatched, servoing, opAcked>>,
           (exPc' = "inflight") = (exPc = "inflight")
    PROVE  Boundary!Stop
  BY StopWithdraws DEF Boundary!Stop, Approved, LatchStop

\* a step that only ends a motion
LEMMA SeenAsHalt ==
    ASSUME servoing' = FALSE,
           UNCHANGED <<stopped, stopGeneration, permitGeneration, active, opLatched, opAcked>>,
           Outstanding' = Outstanding,
           (exPc' = "inflight") = (exPc = "inflight")
    PROVE  Boundary!Halt
  BY DEF Boundary!Halt

-----------------------------------------------------------------------------
(* Every step maps to a step or a stutter.                                  *)

BoundaryStep == [Boundary!Next]_(Boundary!vars)

LEMMA RefinementStep == IInv /\ [Next]_vars => BoundaryStep
  <1> SUFFICES ASSUME IInv, [Next]_vars PROVE BoundaryStep
    OBVIOUS
  <1>a. Outstanding \subseteq Permits /\ Outstanding' \subseteq Permits
    <2>1. TypeInv /\ TypeInv'
      BY TypeStep DEF IInv
    <2> QED
      BY <2>1 DEF TypeInv, TypeOK, PermitTypes, CurrentPermit, Executing, Outstanding
  <1>b. ControlMove => BoundaryStep
    <2> SUFFICES ASSUME ControlMove PROVE BoundaryStep
      OBVIOUS
    <2>1. Outstanding' \subseteq Outstanding /\ exPc # "inflight" /\ exPc' # "inflight"
      BY DEF ControlMove, Outstanding, Quiet, permitVars
    <2>2. UNCHANGED <<permitGeneration, opLatched, servoing, opAcked>>
      BY DEF ControlMove, permitVars, histVars
    <2>3. CASE UNCHANGED <<stopGeneration, stopped>>
      BY <2>1, <2>2, <2>3, Unseen DEF BoundaryStep
    <2>4. CASE LatchStop
      BY <1>a, <2>1, <2>2, <2>4, SeenAsStop DEF BoundaryStep, Boundary!Next
    <2> QED
      BY <2>3, <2>4 DEF ControlMove, LatchMove
  <1>c. ControlStep => BoundaryStep
    BY <1>b, ControlSteps DEF IInv
  <1>1. CASE Resume
    <2>1. CASE Release
      <3>1. current \in Outstanding /\ stopped /\ permitGeneration[current] = stopGeneration
        BY <2>1 DEF Release, Outstanding, PreRelease, ApprovedLatch, CurrentGeneration
      <3>2. current \in Permits
        BY <1>a, <3>1
      <3>3. ~opLatched
        BY <2>1, <3>1, <3>2
           DEF IInv, OperatorInv, Release, PreRelease, TypeInv, TypeOK, ArmTypes, PermitTypes
      <3> QED
        BY <2>1, <3>1, <3>3
           DEF BoundaryStep, Boundary!Next, Boundary!Release, Release, ctlVars, opVars
    <2> QED
      BY <1>1, <1>b, <2>1, ResumeSteps
  <1>2. CASE BeginWrite
    <2>1. CASE Departure
      BY <2>1 DEF BoundaryStep, Boundary!Next, Boundary!Admit, Departure, ActiveGeneration,
         ctlVars, histVars
    <2> QED
      BY <1>2, <1>b, <2>1, BeginWriteSteps
  <1>3. CASE Authorize
    <2>1. minted + 1 \in Permits
      BY <1>3, BoundsAssumption
         DEF Authorize, Permits, IInv, TypeInv, TypeOK, PermitTypes
    <2>2. minted + 1 \in Outstanding' /\ permitGeneration'[minted + 1] = stopGeneration'
      BY <1>3, <2>1
         DEF Authorize, Outstanding, armVars, IInv, TypeInv, TypeOK, PermitTypes
    <2> QED
      BY <1>3, <2>2 DEF BoundaryStep, Boundary!Next, Boundary!Approve, Authorize,
         armVars, ctlVars, exVars, histVars
  <1>4. ASSUME NEW p \in Permits, Reject(p) PROVE BoundaryStep
    <2>1. Outstanding' \subseteq Outstanding
      BY <1>4 DEF Reject, Outstanding, exVars, callVars
    <2> QED
      BY <1>4, <2>1, Unseen DEF BoundaryStep, Reject, armVars, ctlVars, exVars, histVars
  <1>5. ASSUME NEW p \in Permits, Execute(p) PROVE BoundaryStep
    <2>1. Outstanding' \subseteq Outstanding
      BY <1>5 DEF Execute, Outstanding, PreRelease
    <2> QED
      BY <1>5, <2>1, Unseen DEF BoundaryStep, Execute, armVars, ctlVars, histVars
  <1>6. ASSUME NEW p \in Permits, Expire(p) \/ WatchdogTrigger(p) \/ WatchdogQuit(p)
        PROVE  BoundaryStep
    <2>1. UNCHANGED <<armVars, ctlVars, permitVars, exPc, current, histVars>>
      BY <1>6 DEF Expire, WatchdogTrigger, WatchdogQuit, exVars, callVars
    <2> QED
      BY <2>1, Unseen DEF BoundaryStep, Outstanding, armVars, ctlVars, permitVars, histVars
  <1>7. ASSUME NEW p \in Permits, WatchdogLatch(p) PROVE BoundaryStep
    BY <1>7, <1>a, SeenAsStop DEF BoundaryStep, Boundary!Next, WatchdogLatch, permitVars,
       ctlVars, exVars, histVars
  <1>8. ASSUME NEW p \in Permits, WatchdogDashboard(p) PROVE BoundaryStep
    <2>1. UNCHANGED <<stopped, stopGeneration, permitGeneration, active, exPc, current,
                      opLatched, opAcked>>
      BY <1>8 DEF WatchdogDashboard, armVars, permitVars, exVars, callVars
    <2>2. servoing' = FALSE \/ servoing' = servoing
      BY <1>8 DEF WatchdogDashboard, ProgramStopped, ctlVars
    <2> QED
      BY <2>1, <2>2, Unseen, SeenAsHalt DEF BoundaryStep, Boundary!Next, Outstanding
  <1>9. CASE BoundaryStop
    BY <1>9, Unseen DEF BoundaryStep, BoundaryStop, Outstanding, PreRelease, armVars, ctlVars,
       permitVars, histVars
  <1>10. CASE StopAcquire
    BY <1>10, Unseen DEF BoundaryStep, StopAcquire, Goto, Outstanding, PreRelease, armVars,
       ctlVars, permitVars, callVars, histVars
  <1>11. CASE StopSend
    <2>1. UNCHANGED <<stopped, stopGeneration, permitGeneration, active, opLatched, opAcked>>
      BY <1>11 DEF StopSend, armVars, permitVars, histVars
    <2>2. Outstanding' = Outstanding /\ exPc' # "inflight" /\ exPc # "inflight"
      BY <1>11, <2>1 DEF StopSend, Outstanding, PreRelease
    <2>3. servoing' = FALSE \/ servoing' = servoing
      BY <1>11 DEF StopSend, StopTransport, ProgramStopped, ctlVars
    <2> QED
      BY <2>1, <2>2, <2>3, Unseen, SeenAsHalt DEF BoundaryStep, Boundary!Next
  <1>12. CASE EndWrite
    <2>1. exPc = "inflight" /\ exPc' # "inflight" /\ Outstanding' = Outstanding
      BY <1>12 DEF EndWrite, Goto, Outstanding, PreRelease, permitVars
    <2>2. servoing' \in {servoing, TRUE}
      BY <1>12, Zenon DEF EndWrite, Land, IInv, TypeInv, TypeOK, ControllerTypes
    <2>3. UNCHANGED <<stopped, stopGeneration, permitGeneration, opLatched, opAcked>>
      BY <1>12 DEF EndWrite, armVars, permitVars
    <2> QED
      BY <2>1, <2>2, <2>3 DEF BoundaryStep, Boundary!Next, Boundary!Land
  <1>13. CASE RequestStop \/ OperatorAcquire \/ ReverseUp
    <2>1. UNCHANGED <<armVars, servoing, permitVars, exPc, current, histVars>>
      BY <1>13 DEF RequestStop, OperatorAcquire, ReverseUp, ControllerOnly, exVars, callVars,
         ctlVars
    <2> QED
      BY <2>1, Unseen DEF BoundaryStep, Outstanding, armVars, permitVars, histVars
  <1>14. CASE OperatorLatch
    BY <1>14, <1>a, StopWithdraws
       DEF BoundaryStep, Boundary!Next, Boundary!OperatorStop, Approved, OperatorLatch,
           LatchStop, permitVars, ctlVars, exVars
  <1>15. CASE OperatorSend
    <2>1. PICK ok \in BOOLEAN : StopTransport(ok) /\ opAcked' = (opAcked \/ ok)
      BY <1>15 DEF OperatorSend
    <2>2. UNCHANGED <<stopped, stopGeneration, permitGeneration, active, exPc, current,
                      opLatched>>
      BY <1>15 DEF OperatorSend, armVars, permitVars, exVars, callVars
    <2>3. opLatched /\ stopped /\ exPc # "inflight"
      BY <1>15 DEF OperatorSend, IInv, OperatorInv, LockInv
    <2>4. CASE ok
      <3>1. servoing' = FALSE /\ opAcked' = TRUE
        BY <2>1, <2>4, TypeStep, TransportMoves
           DEF IInv, TypeInv, TypeOK, ControllerTypes
      <3> QED
        BY <2>2, <2>3, <3>1
           DEF BoundaryStep, Boundary!Next, Boundary!Acknowledge, Outstanding
    <2>5. CASE ~ok
      <3>1. opAcked' = opAcked
        BY <2>1, <2>5, Zenon DEF IInv, TypeInv, TypeOK, HistoryTypes
      <3>2. servoing' = FALSE \/ servoing' = servoing
        BY <2>1 DEF StopTransport, ProgramStopped, ctlVars
      <3> QED
        BY <2>2, <3>1, <3>2, Unseen, SeenAsHalt DEF BoundaryStep, Boundary!Next, Outstanding
    <2> QED
      BY <2>4, <2>5
  <1>16. CASE SessionDrop \/ ServoTimeout
    BY <1>16, SeenAsHalt DEF BoundaryStep, Boundary!Next, SessionDrop, ServoTimeout,
       ProgramStopped, ControllerOnly, Outstanding, armVars, permitVars, exVars, callVars,
       histVars
  <1>17. CASE UNCHANGED vars
    BY <1>17, Unseen DEF BoundaryStep, Outstanding, vars, armVars, ctlVars, permitVars,
       exVars, callVars, histVars
  <1> QED
    BY <1>c, <1>1, <1>2, <1>3, <1>4, <1>5, <1>6, <1>7, <1>8, <1>9, <1>10, <1>11, <1>12,
       <1>13, <1>14, <1>15, <1>16, <1>17
       DEF Next, TransactionStep, ControlStep, WatchdogStep, OperatorStep, ControllerStep

LEMMA RefinementInit == Init => Boundary!Init
  BY DEF Init, Boundary!Init, Outstanding, PreRelease

(* Whatever the executor, its watchdogs and the operator thread do, a latch  *)
(* is released only by an approval given after the latest stop, never after  *)
(* an operator stop, and a confirmed operator stop finds no command on its   *)
(* way.                                                                      *)
THEOREM Implementation == Spec => ImplementsMotionBoundary
  <1>1. IInv /\ [Next]_vars => [Boundary!Next]_(Boundary!vars)
    BY RefinementStep DEF BoundaryStep
  <1> QED
    BY <1>1, RefinementInit, InvCorrect, PTL DEF Spec, ImplementsMotionBoundary, Boundary!Spec

=============================================================================
