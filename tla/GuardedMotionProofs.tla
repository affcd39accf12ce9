------------------------- MODULE GuardedMotionProofs -------------------------
(***************************************************************************)
(* Proofs about GuardedMotion for every value of its bounds.               *)
(***************************************************************************)
EXTENDS GuardedMotion, TLAPS

-----------------------------------------------------------------------------
(* Type correctness.                                                        *)

Executing == PreRelease \cup Streaming \cup {"close", "join", "reap"}

\* inside execute there is a permit that was consumed
CurrentPermit == exPc \in Executing => current \in Permits

TypeInv == TypeOK /\ CurrentPermit

LEMMA TypeInit == Init => TypeInv
  <1> SUFFICES ASSUME Init PROVE TypeInv
    OBVIOUS
  <1>1. ArmTypes /\ LockTypes /\ ControllerTypes
    BY DEF Init, ArmTypes, LockTypes, ControllerTypes
  <1>2. PermitTypes
    BY BoundsAssumption DEF Init, PermitTypes
  <1>3. FlowTypes
    BY DEF Init, FlowTypes, ExPcs, Stages, Verdicts
  <1>4. CallTypes
    <2>1. boundaryStops = 0 /\ current = NoPermit /\ uncertain = FALSE /\ outcome = "none"
      BY DEF Init
    <2>2. 0 \in 0..MaxBoundaryStops
      BY BoundsAssumption
    <2> QED
      BY <2>1, <2>2 DEF CallTypes, Outcomes
  <1>5. WatchdogTypes
    BY DEF Init, WatchdogTypes
  <1>6. OperatorTypes /\ HistoryTypes
    <2>1. opPc = "idle" /\ opStops = 0 /\ cancelled = FALSE
      BY DEF Init
    <2>2. opLatched = FALSE /\ opAcked = FALSE /\ haltedBy = {} /\ lateWrites = 0
      BY DEF Init
    <2>3. 0 \in 0..MaxOperatorStops
      BY BoundsAssumption
    <2> QED
      BY <2>1, <2>2, <2>3 DEF OperatorTypes, HistoryTypes
  <1>7. CurrentPermit
    BY DEF Init, CurrentPermit, Executing, PreRelease, Streaming
  <1> QED
    BY <1>1, <1>2, <1>3, <1>4, <1>5, <1>6, <1>7 DEF TypeInv, TypeOK

(* What a step leaves alone keeps its type.                                 *)
LEMMA SameTypes ==
    ASSUME TypeInv
    PROVE  /\ UNCHANGED armVars => ArmTypes'
           /\ UNCHANGED ioLock => LockTypes'
           /\ UNCHANGED ctlVars => ControllerTypes'
           /\ UNCHANGED permitVars => PermitTypes'
           /\ UNCHANGED <<exPc, flowVars>> => FlowTypes'
           /\ UNCHANGED callVars => CallTypes'
           /\ UNCHANGED wdVars => WatchdogTypes'
           /\ UNCHANGED opVars => OperatorTypes'
           /\ UNCHANGED histVars => HistoryTypes'
           /\ ArmTypes' /\ LockTypes' /\ ControllerTypes' /\ PermitTypes' /\ FlowTypes'
                /\ CallTypes' /\ WatchdogTypes' /\ OperatorTypes' /\ HistoryTypes'
                /\ CurrentPermit' => TypeInv'
  BY DEF TypeInv, TypeOK, armVars, ctlVars, permitVars, flowVars, callVars, wdVars, opVars,
     histVars, ArmTypes, LockTypes, ControllerTypes, PermitTypes, FlowTypes, CallTypes,
     WatchdogTypes, OperatorTypes, HistoryTypes

LEMMA LatchTypes ==
    ASSUME TypeInv, LatchStop, UNCHANGED enabled
    PROVE  ArmTypes'
  BY DEF TypeInv, TypeOK, ArmTypes, LatchStop

LEMMA SameCurrent ==
    ASSUME TypeInv, UNCHANGED <<exPc, current>>
    PROVE  CurrentPermit'
  BY DEF TypeInv, CurrentPermit

LEMMA TypeStep == TypeInv /\ [Next]_vars => TypeInv'
  <1> SUFFICES ASSUME TypeInv, [Next]_vars PROVE TypeInv'
    OBVIOUS
  <1>1. ASSUME Authorize PROVE TypeInv'
    <2>1. PermitTypes'
      <3>1. minted + 1 \in Permits /\ minted + 1 \in 0..MaxPermits
        BY <1>1, BoundsAssumption DEF TypeInv, TypeOK, Authorize, PermitTypes, Permits
      <3> QED
        BY <1>1, <3>1 DEF TypeInv, TypeOK, Authorize, PermitTypes, ArmTypes
    <2>2. CurrentPermit'
      BY <1>1, SameCurrent DEF Authorize, exVars, callVars
    <2> QED
      BY <1>1, <2>1, <2>2, SameTypes DEF Authorize, exVars
  <1>2. ASSUME NEW p \in Permits, Reject(p) PROVE TypeInv'
    <2>1. PermitTypes'
      BY <1>2, BoundsAssumption DEF TypeInv, TypeOK, Reject, PermitTypes, Permits
    <2>2. CurrentPermit'
      BY <1>2, SameCurrent DEF Reject, exVars, callVars
    <2> QED
      BY <1>2, <2>1, <2>2, SameTypes DEF Reject, exVars
  <1>3. ASSUME NEW p \in Permits, Execute(p) PROVE TypeInv'
    <2>1. PermitTypes'
      BY <1>3, BoundsAssumption DEF TypeInv, TypeOK, Execute, PermitTypes, Permits
    <2>2. FlowTypes'
      BY <1>3 DEF TypeInv, TypeOK, Execute, FlowTypes, flowVars, ExPcs,
         PreRelease, Streaming, Closing, Stages, Verdicts
    <2>3. CallTypes'
      BY <1>3, BoundsAssumption DEF TypeInv, TypeOK, Execute, CallTypes, callVars,
         Verdicts, Outcomes, NoPermit, FlowTypes
    <2>4. WatchdogTypes'
      BY <1>3, BoundsAssumption DEF TypeInv, TypeOK, Execute, WatchdogTypes,
         Permits
    <2>5. CurrentPermit'
      BY <1>3 DEF TypeInv, TypeOK, Execute, CurrentPermit, Executing, PreRelease,
         Streaming, callVars, flowVars
    <2> QED
      BY <1>3, <2>1, <2>2, <2>3, <2>4, <2>5, SameTypes DEF Execute, exVars
  <1>4. ASSUME NEW p \in Permits, Expire(p) PROVE TypeInv'
    <2>1. WatchdogTypes'
      BY <1>4, BoundsAssumption DEF TypeInv, TypeOK, Expire, WatchdogTypes,
         Permits
    <2>2. CurrentPermit'
      BY <1>4, SameCurrent DEF Expire, exVars, callVars
    <2> QED
      BY <1>4, <2>1, <2>2, SameTypes DEF Expire, exVars
  <1>5. ASSUME NEW p \in Permits, WatchdogTrigger(p) PROVE TypeInv'
    <2>1. WatchdogTypes'
      BY <1>5, BoundsAssumption DEF TypeInv, TypeOK, WatchdogTrigger,
         WatchdogTypes, Permits
    <2>2. CurrentPermit'
      BY <1>5, SameCurrent DEF WatchdogTrigger, exVars, callVars
    <2> QED
      BY <1>5, <2>1, <2>2, SameTypes DEF WatchdogTrigger, exVars
  <1>6. ASSUME NEW p \in Permits, WatchdogQuit(p) PROVE TypeInv'
    <2>1. WatchdogTypes'
      BY <1>6, BoundsAssumption DEF TypeInv, TypeOK, WatchdogQuit, WatchdogTypes,
         Permits
    <2>2. CurrentPermit'
      BY <1>6, SameCurrent DEF WatchdogQuit, exVars, callVars
    <2> QED
      BY <1>6, <2>1, <2>2, SameTypes DEF WatchdogQuit, exVars
  <1>7. ASSUME NEW p \in Permits, WatchdogLatch(p) PROVE TypeInv'
    <2>1. ArmTypes'
      BY <1>7 DEF TypeInv, TypeOK, WatchdogLatch, LatchStop, ArmTypes, armVars
    <2>2. WatchdogTypes'
      BY <1>7, BoundsAssumption DEF TypeInv, TypeOK, WatchdogLatch, LatchStop,
         WatchdogTypes, Permits
    <2>3. CurrentPermit'
      BY <1>7, SameCurrent DEF WatchdogLatch, exVars, callVars
    <2> QED
      BY <1>7, <2>1, <2>2, <2>3, SameTypes DEF WatchdogLatch, exVars
  <1>8. ASSUME NEW p \in Permits, WatchdogDashboard(p) PROVE TypeInv'
    <2>1. ControllerTypes'
      BY <1>8 DEF TypeInv, TypeOK, WatchdogDashboard, ProgramStopped,
         ControllerTypes, ctlVars
    <2>2. WatchdogTypes'
      BY <1>8, BoundsAssumption DEF TypeInv, TypeOK, WatchdogDashboard,
         ProgramStopped, WatchdogTypes, Permits
    <2>3. HistoryTypes'
      BY <1>8 DEF TypeInv, TypeOK, WatchdogDashboard, ProgramStopped,
         HistoryTypes, histVars
    <2>4. CurrentPermit'
      BY <1>8, SameCurrent DEF WatchdogDashboard, exVars, callVars
    <2> QED
      BY <1>8, <2>1, <2>2, <2>3, <2>4, SameTypes DEF WatchdogDashboard, exVars
  <1>9. ASSUME BoundaryStop PROVE TypeInv'
    <2>1. FlowTypes'
      BY <1>9 DEF TypeInv, TypeOK, BoundaryStop, FlowTypes, flowVars, ExPcs,
         PreRelease, Streaming, Closing, Stages, Verdicts
    <2>2. CallTypes'
      BY <1>9, BoundsAssumption DEF TypeInv, TypeOK, BoundaryStop, CallTypes,
         callVars, Verdicts, Outcomes, NoPermit, FlowTypes
    <2>3. CurrentPermit'
      BY <1>9 DEF TypeInv, TypeOK, BoundaryStop, CurrentPermit, Executing,
         PreRelease, Streaming, callVars, flowVars
    <2> QED
      BY <1>9, <2>1, <2>2, <2>3, SameTypes DEF BoundaryStop, exVars
  <1>10. ASSUME Admit PROVE TypeInv'
    <2>1. FlowTypes'
      BY <1>10 DEF TypeInv, TypeOK, Admit, Goto, Raise, ExMoves, FlowTypes,
         flowVars, ExPcs, PreRelease, Streaming, Closing, Stages, Verdicts
    <2>2. CurrentPermit'
      BY <1>10 DEF TypeInv, TypeOK, Admit, Goto, Raise, ExMoves, CurrentPermit,
         Executing, PreRelease, Streaming, callVars, flowVars
    <2> QED
      BY <1>10, <2>1, <2>2, SameTypes DEF Admit, ExMoves, exVars
  <1>11. ASSUME EnableCall PROVE TypeInv'
    <2>1. ArmTypes'
      BY <1>11, SameTypes, LatchTypes DEF EnableCall, EnableFails, DeadlineLatch
    <2>2. FlowTypes'
      BY <1>11 DEF TypeInv, TypeOK, EnableCall, Goto, EnableFails, Raise, EnableMoves, AfterCall,
         DeadlineLatch, LatchStop, FlowTypes, flowVars, ExPcs, PreRelease,
         Streaming, Closing, Stages, Verdicts
    <2>3. CurrentPermit'
      BY <1>11 DEF TypeInv, TypeOK, EnableCall, Goto, EnableFails, Raise, EnableMoves, AfterCall,
         DeadlineLatch, LatchStop, CurrentPermit, Executing, PreRelease,
         Streaming, callVars, flowVars
    <2>4. ControllerTypes'
      BY <1>11 DEF TypeInv, TypeOK, EnableCall, EnableFails, ControllerTypes, ctlVars
    <2> QED
      BY <1>11, <2>1, <2>2, <2>3, <2>4, SameTypes DEF EnableCall, EnableMoves, exVars
  <1>12. ASSUME PublishEnabled PROVE TypeInv'
    <2>1. ArmTypes'
      BY <1>12 DEF TypeInv, TypeOK, PublishEnabled, Goto, EnableFails, Raise, EnableMoves,
         ArmTypes, armVars
    <2>2. FlowTypes'
      BY <1>12 DEF TypeInv, TypeOK, PublishEnabled, Goto, EnableFails, Raise, EnableMoves,
         FlowTypes, flowVars, ExPcs, PreRelease, Streaming, Closing, Stages,
         Verdicts
    <2>3. CurrentPermit'
      BY <1>12 DEF TypeInv, TypeOK, PublishEnabled, Goto, EnableFails, Raise, EnableMoves,
         CurrentPermit, Executing, PreRelease, Streaming, callVars, flowVars
    <2>4. ControllerTypes'
      BY <1>12 DEF TypeInv, TypeOK, PublishEnabled, EnableFails, ControllerTypes, ctlVars
    <2> QED
      BY <1>12, <2>1, <2>2, <2>3, <2>4, SameTypes DEF PublishEnabled, EnableMoves, exVars
  <1>13. ASSUME AfterEnable PROVE TypeInv'
    <2>1. FlowTypes'
      BY <1>13 DEF TypeInv, TypeOK, AfterEnable, Goto, Raise, ExMoves, FlowTypes,
         flowVars, ExPcs, PreRelease, Streaming, Closing, Stages, Verdicts
    <2>2. CurrentPermit'
      BY <1>13 DEF TypeInv, TypeOK, AfterEnable, Goto, Raise, ExMoves,
         CurrentPermit, Executing, PreRelease, Streaming, callVars, flowVars
    <2> QED
      BY <1>13, <2>1, <2>2, SameTypes DEF AfterEnable, ExMoves, exVars
  <1>14. ASSUME Resume PROVE TypeInv'
    <2>1. ArmTypes'
      <3>1. CASE DeadlineLatch \/ UNCHANGED armVars
        BY <3>1, SameTypes, LatchTypes DEF DeadlineLatch
      <3>2. CASE stopped' = FALSE /\ UNCHANGED <<stopGeneration, enabled>>
        BY <3>2 DEF TypeInv, TypeOK, ArmTypes
      <3> QED
        BY <1>14, <3>1, <3>2 DEF Resume
    <2>2. FlowTypes'
      BY <1>14 DEF TypeInv, TypeOK, Resume, Raise, DeadlineLatch, LatchStop,
         FlowTypes, flowVars, ExPcs, PreRelease, Streaming, Closing, Stages,
         Verdicts
    <2>3. HistoryTypes'
      BY <1>14 DEF TypeInv, TypeOK, Resume, Raise, DeadlineLatch, LatchStop,
         HistoryTypes, histVars
    <2>4. CurrentPermit'
      BY <1>14 DEF TypeInv, TypeOK, Resume, Raise, DeadlineLatch, LatchStop,
         CurrentPermit, Executing, PreRelease, Streaming, callVars, flowVars
    <2> QED
      BY <1>14, <2>1, <2>2, <2>3, <2>4, SameTypes DEF Resume, exVars
  <1>15. ASSUME Connect PROVE TypeInv'
    <2>1. ArmTypes'
      BY <1>15, SameTypes, LatchTypes DEF Connect, FailStage, Connected,
         ConnectFailed, DeadlineLatch
    <2>2. ControllerTypes'
      BY <1>15 DEF TypeInv, TypeOK, Connect, Goto, Raise, Abort, FailStage,
         Connected, ConnectFailed, DeadlineLatch, LatchStop, ControllerTypes,
         ctlVars
    <2>3. FlowTypes'
      BY <1>15 DEF TypeInv, TypeOK, Connect, Goto, Raise, Abort, FailStage,
         Connected, ConnectFailed, DeadlineLatch, LatchStop, FlowTypes, flowVars,
         ExPcs, PreRelease, Streaming, Closing, Stages, Verdicts
    <2>4. CurrentPermit'
      BY <1>15 DEF TypeInv, TypeOK, Connect, Goto, Raise, Abort, FailStage,
         Connected, ConnectFailed, DeadlineLatch, LatchStop, CurrentPermit,
         Executing, PreRelease, Streaming, callVars, flowVars
    <2> QED
      BY <1>15, <2>1, <2>2, <2>3, <2>4, SameTypes DEF Connect, exVars
  <1>16. ASSUME Await PROVE TypeInv'
    <2>1. ArmTypes'
      BY <1>16, SameTypes, LatchTypes DEF Await, FailStage, Connected,
         ConnectFailed, DeadlineLatch
    <2>2. FlowTypes'
      BY <1>16 DEF TypeInv, TypeOK, Await, ExMoves, Goto, Raise, Abort, FailStage,
         Connected, ConnectFailed, DeadlineLatch, LatchStop, FlowTypes, flowVars,
         ExPcs, PreRelease, Streaming, Closing, Stages, Verdicts
    <2>3. CurrentPermit'
      BY <1>16 DEF TypeInv, TypeOK, Await, ExMoves, Goto, Raise, Abort, FailStage,
         Connected, ConnectFailed, DeadlineLatch, LatchStop, CurrentPermit,
         Executing, PreRelease, Streaming, callVars, flowVars
    <2> QED
      BY <1>16, <2>1, <2>2, <2>3, SameTypes DEF Await, ExMoves, exVars
  <1>17. ASSUME Recheck PROVE TypeInv'
    <2>1. ArmTypes'
      BY <1>17, SameTypes, LatchTypes DEF Recheck, DeadlineLatch
    <2>2. FlowTypes'
      BY <1>17 DEF TypeInv, TypeOK, Recheck, ExMoves, Goto, Raise, DeadlineLatch,
         LatchStop, FlowTypes, flowVars, ExPcs, PreRelease, Streaming, Closing,
         Stages, Verdicts
    <2>3. CurrentPermit'
      BY <1>17 DEF TypeInv, TypeOK, Recheck, ExMoves, Goto, Raise, DeadlineLatch,
         LatchStop, CurrentPermit, Executing, PreRelease, Streaming, callVars,
         flowVars
    <2> QED
      BY <1>17, <2>1, <2>2, <2>3, SameTypes DEF Recheck, ExMoves, exVars
  <1>18. ASSUME Recovered PROVE TypeInv'
    <2>1. FlowTypes'
      BY <1>18 DEF TypeInv, TypeOK, Recovered, ExMoves, Raise, EnterStage,
         FlowTypes, flowVars, ExPcs, PreRelease, Streaming, Closing, Stages,
         Verdicts
    <2>2. CurrentPermit'
      BY <1>18 DEF TypeInv, TypeOK, Recovered, ExMoves, Raise, EnterStage,
         CurrentPermit, Executing, PreRelease, Streaming, callVars, flowVars
    <2> QED
      BY <1>18, <2>1, <2>2, SameTypes DEF Recovered, ExMoves, exVars
  <1>19. ASSUME Prepared PROVE TypeInv'
    <2>1. FlowTypes'
      BY <1>19 DEF TypeInv, TypeOK, Prepared, ExMoves, Raise, EnterStage,
         FlowTypes, flowVars, ExPcs, PreRelease, Streaming, Closing, Stages,
         Verdicts
    <2>2. CurrentPermit'
      BY <1>19 DEF TypeInv, TypeOK, Prepared, ExMoves, Raise, EnterStage,
         CurrentPermit, Executing, PreRelease, Streaming, callVars, flowVars
    <2> QED
      BY <1>19, <2>1, <2>2, SameTypes DEF Prepared, ExMoves, exVars
  <1>20. ASSUME Streamed PROVE TypeInv'
    <2>1. FlowTypes'
      BY <1>20 DEF TypeInv, TypeOK, Streamed, ExMoves, Goto, Raise, EnterStage,
         FlowTypes, flowVars, ExPcs, PreRelease, Streaming, Closing, Stages,
         Verdicts
    <2>2. CurrentPermit'
      BY <1>20 DEF TypeInv, TypeOK, Streamed, ExMoves, Goto, Raise, EnterStage,
         CurrentPermit, Executing, PreRelease, Streaming, callVars, flowVars
    <2> QED
      BY <1>20, <2>1, <2>2, SameTypes DEF Streamed, ExMoves, exVars
  <1>21. ASSUME Settled PROVE TypeInv'
    <2>1. FlowTypes'
      BY <1>21 DEF TypeInv, TypeOK, Settled, ExMoves, Raise, FlowTypes, flowVars,
         ExPcs, PreRelease, Streaming, Closing, Stages, Verdicts
    <2>2. CurrentPermit'
      BY <1>21 DEF TypeInv, TypeOK, Settled, ExMoves, Raise, CurrentPermit,
         Executing, PreRelease, Streaming, callVars, flowVars
    <2> QED
      BY <1>21, <2>1, <2>2, SameTypes DEF Settled, ExMoves, exVars
  <1>22. ASSUME Begin PROVE TypeInv'
    <2>1. ArmTypes'
      BY <1>22, SameTypes, LatchTypes DEF Begin, DeadlineLatch
    <2>2. FlowTypes'
      BY <1>22 DEF TypeInv, TypeOK, Begin, ExMoves, Goto, Raise, DeadlineLatch,
         LatchStop, FlowTypes, flowVars, ExPcs, PreRelease, Streaming, Closing,
         Stages, Verdicts
    <2>3. CurrentPermit'
      BY <1>22 DEF TypeInv, TypeOK, Begin, ExMoves, Goto, Raise, DeadlineLatch,
         LatchStop, CurrentPermit, Executing, PreRelease, Streaming, callVars,
         flowVars
    <2> QED
      BY <1>22, <2>1, <2>2, <2>3, SameTypes DEF Begin, ExMoves, exVars
  <1>23. ASSUME Command PROVE TypeInv'
    <2>1. ArmTypes'
      BY <1>23, SameTypes, LatchTypes DEF Command, FailStage, DeadlineLatch
    <2>2. FlowTypes'
      BY <1>23 DEF TypeInv, TypeOK, Command, ExMoves, Goto, Raise, Abort,
         FailStage, DeadlineLatch, LatchStop, FlowTypes, flowVars, ExPcs,
         PreRelease, Streaming, Closing, Stages, Verdicts
    <2>3. CurrentPermit'
      BY <1>23 DEF TypeInv, TypeOK, Command, ExMoves, Goto, Raise, Abort,
         FailStage, DeadlineLatch, LatchStop, CurrentPermit, Executing,
         PreRelease, Streaming, callVars, flowVars
    <2> QED
      BY <1>23, <2>1, <2>2, <2>3, SameTypes DEF Command, ExMoves, exVars
  <1>24. ASSUME BeginWrite PROVE TypeInv'
    <2>1. LockTypes'
      BY <1>24 DEF TypeInv, TypeOK, BeginWrite, Goto, Raise, Abort, FailStage,
         LockTypes
    <2>2. FlowTypes'
      BY <1>24 DEF TypeInv, TypeOK, BeginWrite, Goto, Raise, Abort, FailStage,
         FlowTypes, flowVars, ExPcs, PreRelease, Streaming, Closing, Stages,
         Verdicts
    <2>3. CurrentPermit'
      BY <1>24 DEF TypeInv, TypeOK, BeginWrite, Goto, Raise, Abort, FailStage,
         CurrentPermit, Executing, PreRelease, Streaming, callVars, flowVars
    <2> QED
      BY <1>24, <2>1, <2>2, <2>3, SameTypes DEF BeginWrite, exVars
  <1>25. ASSUME WriteFailed PROVE TypeInv'
    <2>1. ArmTypes'
      BY <1>25, SameTypes, LatchTypes DEF WriteFailed, FailStage, DeadlineLatch
    <2>2. FlowTypes'
      BY <1>25 DEF TypeInv, TypeOK, WriteFailed, ExMoves, Raise, Abort, FailStage,
         DeadlineLatch, LatchStop, FlowTypes, flowVars, ExPcs, PreRelease,
         Streaming, Closing, Stages, Verdicts
    <2>3. CurrentPermit'
      BY <1>25 DEF TypeInv, TypeOK, WriteFailed, ExMoves, Raise, Abort, FailStage,
         DeadlineLatch, LatchStop, CurrentPermit, Executing, PreRelease,
         Streaming, callVars, flowVars
    <2> QED
      BY <1>25, <2>1, <2>2, <2>3, SameTypes DEF WriteFailed, ExMoves, exVars
  <1>26. ASSUME WroteWarmup PROVE TypeInv'
    <2>1. ArmTypes'
      BY <1>26, SameTypes, LatchTypes DEF WroteWarmup, NextCommand, DeadlineLatch
    <2>2. FlowTypes'
      BY <1>26 DEF TypeInv, TypeOK, WroteWarmup, ExMoves, Raise, NextCommand,
         DeadlineLatch, LatchStop, FlowTypes, flowVars, ExPcs, PreRelease,
         Streaming, Closing, Stages, Verdicts
    <2>3. CurrentPermit'
      BY <1>26 DEF TypeInv, TypeOK, WroteWarmup, ExMoves, Raise, NextCommand,
         DeadlineLatch, LatchStop, CurrentPermit, Executing, PreRelease,
         Streaming, callVars, flowVars
    <2> QED
      BY <1>26, <2>1, <2>2, <2>3, SameTypes DEF WroteWarmup, ExMoves, exVars
  <1>27. ASSUME WroteCommand PROVE TypeInv'
    <2>1. ArmTypes'
      BY <1>27, SameTypes, LatchTypes DEF WroteCommand, NextCommand
    <2>2. FlowTypes'
      BY <1>27 DEF TypeInv, TypeOK, WroteCommand, ExMoves, Abort, NextCommand,
         LatchStop, FlowTypes, flowVars, ExPcs, PreRelease, Streaming, Closing,
         Stages, Verdicts
    <2>3. CurrentPermit'
      BY <1>27 DEF TypeInv, TypeOK, WroteCommand, ExMoves, Abort, NextCommand,
         LatchStop, CurrentPermit, Executing, PreRelease, Streaming, callVars,
         flowVars
    <2> QED
      BY <1>27, <2>1, <2>2, <2>3, SameTypes DEF WroteCommand, ExMoves, exVars
  <1>28. ASSUME WroteHold PROVE TypeInv'
    <2>1. ArmTypes'
      BY <1>28 DEF TypeInv, TypeOK, WroteHold, ExMoves, Raise, NextCommand,
         ArmTypes, armVars
    <2>2. FlowTypes'
      BY <1>28 DEF TypeInv, TypeOK, WroteHold, ExMoves, Raise, NextCommand,
         FlowTypes, flowVars, ExPcs, PreRelease, Streaming, Closing, Stages,
         Verdicts
    <2>3. CurrentPermit'
      BY <1>28 DEF TypeInv, TypeOK, WroteHold, ExMoves, Raise, NextCommand,
         CurrentPermit, Executing, PreRelease, Streaming, callVars, flowVars
    <2> QED
      BY <1>28, <2>1, <2>2, <2>3, SameTypes DEF WroteHold, ExMoves, exVars
  <1>29. ASSUME CloseWatchdog PROVE TypeInv'
    <2>1. FlowTypes'
      BY <1>29 DEF TypeInv, TypeOK, CloseWatchdog, Goto, FlowTypes, flowVars,
         ExPcs, PreRelease, Streaming, Closing, Stages, Verdicts
    <2>2. WatchdogTypes'
      <3>1. current \in Permits
        BY <1>29 DEF TypeInv, CloseWatchdog, CurrentPermit, Executing
      <3> QED
        BY <1>29, <3>1 DEF TypeInv, TypeOK, CloseWatchdog, WatchdogTypes
    <2>3. CurrentPermit'
      BY <1>29 DEF TypeInv, TypeOK, CloseWatchdog, Goto, CurrentPermit, Executing,
         PreRelease, Streaming, callVars, flowVars
    <2> QED
      BY <1>29, <2>1, <2>2, <2>3, SameTypes DEF CloseWatchdog, exVars
  <1>30. ASSUME JoinWatchdog PROVE TypeInv'
    <2>1. FlowTypes'
      BY <1>30 DEF TypeInv, TypeOK, JoinWatchdog, Goto, FlowTypes, flowVars,
         ExPcs, PreRelease, Streaming, Closing, Stages, Verdicts
    <2>2. WatchdogTypes'
      <3>1. current \in Permits
        BY <1>30 DEF TypeInv, JoinWatchdog, CurrentPermit, Executing
      <3> QED
        BY <1>30, <3>1 DEF TypeInv, TypeOK, JoinWatchdog, WatchdogTypes
    <2>3. CurrentPermit'
      BY <1>30 DEF TypeInv, TypeOK, JoinWatchdog, Goto, CurrentPermit, Executing,
         PreRelease, Streaming, callVars, flowVars
    <2> QED
      BY <1>30, <2>1, <2>2, <2>3, SameTypes DEF JoinWatchdog, exVars
  <1>31. ASSUME Reap PROVE TypeInv'
    <2>1. FlowTypes'
      BY <1>31 DEF TypeInv, TypeOK, Reap, FlowTypes, flowVars, ExPcs, PreRelease,
         Streaming, Closing, Stages, Verdicts
    <2>2. CallTypes'
      BY <1>31, BoundsAssumption DEF TypeInv, TypeOK, Reap, CallTypes, callVars,
         Verdicts, Outcomes, NoPermit, FlowTypes
    <2>3. CurrentPermit'
      BY <1>31 DEF TypeInv, TypeOK, Reap, CurrentPermit, Executing, PreRelease,
         Streaming, callVars, flowVars
    <2> QED
      BY <1>31, <2>1, <2>2, <2>3, SameTypes DEF Reap, exVars
  <1>32. ASSUME StopLatch PROVE TypeInv'
    <2>1. ArmTypes'
      BY <1>32 DEF TypeInv, TypeOK, StopLatch, ExMoves, Goto, LatchStop, ArmTypes,
         armVars
    <2>2. FlowTypes'
      BY <1>32 DEF TypeInv, TypeOK, StopLatch, ExMoves, Goto, LatchStop,
         FlowTypes, flowVars, ExPcs, PreRelease, Streaming, Closing, Stages,
         Verdicts
    <2>3. CurrentPermit'
      BY <1>32 DEF TypeInv, TypeOK, StopLatch, ExMoves, Goto, LatchStop,
         CurrentPermit, Executing, PreRelease, Streaming, callVars, flowVars
    <2> QED
      BY <1>32, <2>1, <2>2, <2>3, SameTypes DEF StopLatch, ExMoves, exVars
  <1>33. ASSUME StopAcquire PROVE TypeInv'
    <2>1. LockTypes'
      BY <1>33 DEF TypeInv, TypeOK, StopAcquire, Goto, LockTypes
    <2>2. FlowTypes'
      BY <1>33 DEF TypeInv, TypeOK, StopAcquire, Goto, FlowTypes, flowVars, ExPcs,
         PreRelease, Streaming, Closing, Stages, Verdicts
    <2>3. CurrentPermit'
      BY <1>33 DEF TypeInv, TypeOK, StopAcquire, Goto, CurrentPermit, Executing,
         PreRelease, Streaming, callVars, flowVars
    <2> QED
      BY <1>33, <2>1, <2>2, <2>3, SameTypes DEF StopAcquire, exVars
  <1>34. ASSUME StopSend PROVE TypeInv'
    <2>1. LockTypes'
      BY <1>34 DEF TypeInv, TypeOK, StopSend, StopTransport, ProgramStopped,
         Report, LockTypes
    <2>2. ControllerTypes'
      BY <1>34 DEF TypeInv, TypeOK, StopSend, StopTransport, ProgramStopped,
         Report, ControllerTypes, ctlVars
    <2>3. FlowTypes'
      BY <1>34 DEF TypeInv, TypeOK, StopSend, StopTransport, ProgramStopped,
         Report, FlowTypes, flowVars, ExPcs, PreRelease, Streaming, Closing,
         Stages, Verdicts
    <2>4. CallTypes'
      BY <1>34, BoundsAssumption DEF TypeInv, TypeOK, StopSend, StopTransport,
         ProgramStopped, Report, CallTypes, callVars, Verdicts, Outcomes,
         NoPermit, FlowTypes
    <2>5. CurrentPermit'
      BY <1>34 DEF TypeInv, TypeOK, StopSend, StopTransport, ProgramStopped,
         Report, CurrentPermit, Executing, PreRelease, Streaming, callVars,
         flowVars
    <2> QED
      BY <1>34, <2>1, <2>2, <2>3, <2>4, <2>5, SameTypes DEF StopSend, exVars
  <1>35. ASSUME EndWrite PROVE TypeInv'
    <2>1. LockTypes'
      BY <1>35 DEF TypeInv, TypeOK, EndWrite, Land, Goto, LockTypes
    <2>2. ControllerTypes'
      BY <1>35 DEF TypeInv, TypeOK, EndWrite, Land, Goto, ControllerTypes, ctlVars
    <2>3. FlowTypes'
      BY <1>35 DEF TypeInv, TypeOK, EndWrite, Land, Goto, FlowTypes, flowVars,
         ExPcs, PreRelease, Streaming, Closing, Stages, Verdicts
    <2>4. HistoryTypes'
      BY <1>35 DEF TypeInv, TypeOK, EndWrite, Land, Goto, HistoryTypes, histVars
    <2>5. CurrentPermit'
      BY <1>35 DEF TypeInv, TypeOK, EndWrite, Land, Goto, CurrentPermit,
         Executing, PreRelease, Streaming, callVars, flowVars
    <2> QED
      BY <1>35, <2>1, <2>2, <2>3, <2>4, <2>5, SameTypes DEF EndWrite, exVars
  <1>36. ASSUME RequestStop PROVE TypeInv'
    <2>1. OperatorTypes'
      BY <1>36, BoundsAssumption DEF TypeInv, TypeOK, RequestStop, OperatorTypes
    <2>2. CurrentPermit'
      BY <1>36, SameCurrent DEF RequestStop, exVars, callVars
    <2> QED
      BY <1>36, <2>1, <2>2, SameTypes DEF RequestStop, exVars
  <1>37. ASSUME OperatorLatch PROVE TypeInv'
    <2>1. ArmTypes'
      BY <1>37 DEF TypeInv, TypeOK, OperatorLatch, LatchStop, ArmTypes, armVars
    <2>2. OperatorTypes'
      BY <1>37, BoundsAssumption DEF TypeInv, TypeOK, OperatorLatch, LatchStop,
         OperatorTypes
    <2>3. HistoryTypes'
      BY <1>37 DEF TypeInv, TypeOK, OperatorLatch, LatchStop, HistoryTypes,
         histVars
    <2>4. CurrentPermit'
      BY <1>37, SameCurrent DEF OperatorLatch, exVars, callVars
    <2> QED
      BY <1>37, <2>1, <2>2, <2>3, <2>4, SameTypes DEF OperatorLatch, exVars
  <1>38. ASSUME OperatorAcquire PROVE TypeInv'
    <2>1. LockTypes'
      BY <1>38 DEF TypeInv, TypeOK, OperatorAcquire, LockTypes
    <2>2. OperatorTypes'
      BY <1>38, BoundsAssumption DEF TypeInv, TypeOK, OperatorAcquire,
         OperatorTypes
    <2>3. CurrentPermit'
      BY <1>38, SameCurrent DEF OperatorAcquire, exVars, callVars
    <2> QED
      BY <1>38, <2>1, <2>2, <2>3, SameTypes DEF OperatorAcquire, exVars
  <1>39. ASSUME OperatorSend PROVE TypeInv'
    <2>1. LockTypes'
      BY <1>39 DEF TypeInv, TypeOK, OperatorSend, StopTransport, ProgramStopped,
         LockTypes
    <2>2. ControllerTypes'
      BY <1>39 DEF TypeInv, TypeOK, OperatorSend, StopTransport, ProgramStopped,
         ControllerTypes, ctlVars
    <2>3. OperatorTypes'
      BY <1>39, BoundsAssumption DEF TypeInv, TypeOK, OperatorSend, StopTransport,
         ProgramStopped, OperatorTypes
    <2>4. HistoryTypes'
      BY <1>39 DEF TypeInv, TypeOK, OperatorSend, StopTransport, ProgramStopped,
         HistoryTypes, histVars
    <2>5. CurrentPermit'
      BY <1>39, SameCurrent DEF OperatorSend, exVars, callVars
    <2> QED
      BY <1>39, <2>1, <2>2, <2>3, <2>4, <2>5, SameTypes DEF OperatorSend, exVars
  <1>40. ASSUME ReverseUp PROVE TypeInv'
    <2>1. ControllerTypes'
      BY <1>40 DEF TypeInv, TypeOK, ReverseUp, ControllerOnly, ControllerTypes,
         ctlVars
    <2>2. CurrentPermit'
      BY <1>40, SameCurrent DEF ReverseUp, exVars, callVars, ControllerOnly
    <2> QED
      BY <1>40, <2>1, <2>2, SameTypes DEF ReverseUp, ControllerOnly, exVars
  <1>41. ASSUME SessionDrop PROVE TypeInv'
    <2>1. ControllerTypes'
      BY <1>41 DEF TypeInv, TypeOK, SessionDrop, ControllerOnly, ProgramStopped,
         ControllerTypes, ctlVars
    <2>2. CurrentPermit'
      BY <1>41, SameCurrent DEF SessionDrop, exVars, callVars, ControllerOnly
    <2> QED
      BY <1>41, <2>1, <2>2, SameTypes DEF SessionDrop, ControllerOnly, exVars
  <1>42. ASSUME ServoTimeout PROVE TypeInv'
    <2>1. ControllerTypes'
      BY <1>42 DEF TypeInv, TypeOK, ServoTimeout, ControllerOnly, ControllerTypes,
         ctlVars
    <2>2. CurrentPermit'
      BY <1>42, SameCurrent DEF ServoTimeout, exVars, callVars, ControllerOnly
    <2> QED
      BY <1>42, <2>1, <2>2, SameTypes DEF ServoTimeout, ControllerOnly, exVars
  <1>43. ASSUME UNCHANGED vars PROVE TypeInv'
    BY <1>43, SameTypes, SameCurrent DEF vars, exVars, callVars
  <1> QED
    BY <1>1, <1>2, <1>3, <1>4, <1>5, <1>6, <1>7, <1>8, <1>9, <1>10, <1>11, <1>12,
       <1>13, <1>14, <1>15, <1>16, <1>17, <1>18, <1>19, <1>20, <1>21, <1>22, <1>23,
       <1>24, <1>25, <1>26, <1>27, <1>28, <1>29, <1>30, <1>31, <1>32, <1>33, <1>34,
       <1>35, <1>36, <1>37, <1>38, <1>39, <1>40, <1>41, <1>42, <1>43
       DEF Next, TransactionStep, WatchdogStep, OperatorStep, ControllerStep

(* Every reachable state of the executor, the arm, the watchdogs and the    *)
(* operator thread has the declared types, whatever the bounds.             *)
THEOREM TypeCorrect == Spec => []TypeOK
  <1>1. TypeInv => TypeOK
    BY DEF TypeInv
  <1> QED
    BY <1>1, TypeInit, TypeStep, PTL DEF Spec

=============================================================================
