---------------------- MODULE StopScanCoordinatorProofs ----------------------
(***************************************************************************)
(* Proofs about StopScanCoordinator for every bound on cycles and stop     *)
(* requests: its types, its inductive invariant, its safety properties.    *)
(***************************************************************************)
EXTENDS StopScanCoordinator, TLAPS

-----------------------------------------------------------------------------
(* Type correctness.                                                        *)

\* a capture is entered only while cycles are left
CyclesLeft == txPc \in CapturePcs => cycle < MaxCycles

TypeInv == TypeOK /\ CyclesLeft

(* The coordinator is created with these types.                              *)
LEMMA TypeInit == Init => TypeInv
  <1> SUFFICES ASSUME Init PROVE TypeInv
    OBVIOUS
  <1>1. RecordTypes /\ ArmTypes
    BY DEF Init, RecordTypes, ArmTypes, Phases
  <1>2. PerceptionTypes /\ ExecutionTypes
    <2>1. 0 \in Generations
      BY BoundsAssumption DEF Generations
    <2> QED
      BY <2>1 DEF Init, PerceptionTypes, ExecutionTypes
  <1>3. TransactionTypes /\ CyclesLeft
    BY DEF Init, TransactionTypes, TxPcs, CyclesLeft, CapturePcs
  <1>4. OperatorTypes
    <2>1. stopRequested = FALSE /\ acknowledged = FALSE /\ verified = FALSE
      BY DEF Init
    <2>2. opPc = "idle" /\ requests = 0 /\ 0 \in 0..MaxRequests
      BY BoundsAssumption DEF Init
    <2> QED
      BY <2>1, <2>2 DEF OperatorTypes, OpPcs
  <1> QED
    BY <1>1, <1>2, <1>3, <1>4 DEF TypeInv, TypeOK

(* What a step leaves alone keeps its type.                                 *)
LEMMA SameTypes ==
    ASSUME TypeInv
    PROVE  /\ UNCHANGED record => RecordTypes'
           /\ UNCHANGED perception => PerceptionTypes'
           /\ UNCHANGED arm => ArmTypes'
           /\ UNCHANGED execution => ExecutionTypes'
           /\ UNCHANGED transaction => TransactionTypes'
           /\ UNCHANGED operator => OperatorTypes'
           /\ UNCHANGED <<perception, transaction>> => CyclesLeft'
           /\ RecordTypes' /\ PerceptionTypes' /\ ArmTypes' /\ ExecutionTypes'
                /\ TransactionTypes' /\ OperatorTypes' /\ CyclesLeft' => TypeInv'
  BY DEF TypeInv, TypeOK, CyclesLeft, record, perception, arm, execution, transaction, operator,
     RecordTypes, PerceptionTypes, ArmTypes, ExecutionTypes, TransactionTypes, OperatorTypes,
     Generations

(* Every step keeps them: one step per action, and under it one per group of *)
(* variables that the action writes.                                        *)
LEMMA TypeStep == TypeInv /\ [Next]_vars => TypeInv'
  <1> SUFFICES ASSUME TypeInv, [Next]_vars PROVE TypeInv'
    OBVIOUS
  <1>1. CASE Start
    <2>1. RecordTypes'
      BY <1>1 DEF TypeInv, TypeOK, RecordTypes, Phases, Generations, record, Start,
         Recorded, Unrecorded
    <2>2. PerceptionTypes'
      BY <1>1, BoundsAssumption DEF TypeInv, TypeOK, PerceptionTypes, Generations,
         CyclesLeft, perception, CapturePcs, TransactionTypes, Start
    <2>3. TransactionTypes' /\ CyclesLeft'
      BY <1>1 DEF TypeInv, TypeOK, TransactionTypes, TxPcs, transaction, CyclesLeft,
         CapturePcs, PlanPcs, ExecutePcs, FinallyPcs, perception, Start
    <2>4. OperatorTypes'
      BY <1>1, BoundsAssumption DEF TypeInv, TypeOK, OperatorTypes, OpPcs, operator, Start
    <2> QED
      BY <1>1, <2>1, <2>2, <2>3, <2>4, SameTypes DEF Start
  <1>2. CASE BeginCapture
    <2>1. RecordTypes'
      BY <1>2 DEF TypeInv, TypeOK, RecordTypes, Phases, Generations, record, BeginCapture
    <2>2. TransactionTypes' /\ CyclesLeft'
      BY <1>2, BoundsAssumption DEF TypeInv, TypeOK, TransactionTypes, TxPcs, transaction,
         CyclesLeft, CapturePcs, PlanPcs, ExecutePcs, FinallyPcs, perception, BeginCapture,
         Enter
    <2> QED
      BY <1>2, <2>1, <2>2, SameTypes DEF BeginCapture, Enter
  <1>3. CASE ReuseBoundary
    <2>1. RecordTypes'
      BY <1>3 DEF TypeInv, TypeOK, RecordTypes, Phases, Generations, record,
         ReuseBoundary, Recorded, CaptureFails, CaptureRaises, Transition, Unrecorded
    <2>2. PerceptionTypes'
      BY <1>3, BoundsAssumption DEF TypeInv, TypeOK, PerceptionTypes, Generations,
         CyclesLeft, perception, CapturePcs, TransactionTypes, ReuseBoundary, TxStep,
         CaptureFails, CaptureRaises, TxRaise
    <2>3. TransactionTypes' /\ CyclesLeft'
      BY <1>3 DEF TypeInv, TypeOK, TransactionTypes, TxPcs, transaction, CyclesLeft,
         CapturePcs, PlanPcs, ExecutePcs, FinallyPcs, perception, ReuseBoundary, TxStep,
         CaptureFails, CaptureRaises, TxRaise
    <2> QED
      BY <1>3, <2>1, <2>2, <2>3, SameTypes DEF ReuseBoundary
  <1>4. CASE CaptureStop
    <2>1. ArmTypes'
      BY <1>4 DEF TypeInv, TypeOK, ArmTypes, arm, CaptureStop, Latch
    <2>2. TransactionTypes' /\ CyclesLeft'
      BY <1>4 DEF TypeInv, TypeOK, TransactionTypes, TxPcs, transaction, CyclesLeft,
         CapturePcs, PlanPcs, ExecutePcs, FinallyPcs, perception, CaptureStop, TxStep
    <2> QED
      BY <1>4, <2>1, <2>2, SameTypes DEF CaptureStop
  <1>5. CASE CaptureSend
    <2>1. RecordTypes'
      BY <1>5 DEF TypeInv, TypeOK, RecordTypes, Phases, Generations, record, CaptureSend,
         CaptureFails, CaptureRaises, Transition, Recorded, Unrecorded
    <2>2. PerceptionTypes'
      BY <1>5, BoundsAssumption DEF TypeInv, TypeOK, PerceptionTypes, Generations,
         CyclesLeft, perception, CapturePcs, TransactionTypes, CaptureSend, TxStep,
         CaptureFails, CaptureRaises, TxRaise
    <2>3. ArmTypes'
      BY <1>5 DEF TypeInv, TypeOK, ArmTypes, arm, CaptureSend, StopConfirmed, StopFails
    <2>4. TransactionTypes' /\ CyclesLeft'
      BY <1>5 DEF TypeInv, TypeOK, TransactionTypes, TxPcs, transaction, CyclesLeft,
         CapturePcs, PlanPcs, ExecutePcs, FinallyPcs, perception, CaptureSend, TxStep,
         CaptureFails, CaptureRaises, TxRaise
    <2> QED
      BY <1>5, <2>1, <2>2, <2>3, <2>4, SameTypes DEF CaptureSend
  <1>6. CASE AssertStop
    <2>1. RecordTypes'
      BY <1>6 DEF TypeInv, TypeOK, RecordTypes, Phases, Generations, record, AssertStop,
         CaptureStep, Recorded, CaptureAborts, CaptureRaises, Transition, Unrecorded,
         CaptureFails
    <2>2. PerceptionTypes'
      BY <1>6, BoundsAssumption DEF TypeInv, TypeOK, PerceptionTypes, Generations,
         CyclesLeft, perception, CapturePcs, TransactionTypes, AssertStop, CaptureStep,
         TxStep, CaptureAborts, CaptureRaises, TxRaise, CaptureFails
    <2>3. TransactionTypes' /\ CyclesLeft'
      BY <1>6 DEF TypeInv, TypeOK, TransactionTypes, TxPcs, transaction, CyclesLeft,
         CapturePcs, PlanPcs, ExecutePcs, FinallyPcs, perception, AssertStop, CaptureStep,
         TxStep, CaptureAborts, CaptureRaises, TxRaise, CaptureFails
    <2> QED
      BY <1>6, <2>1, <2>2, <2>3, SameTypes DEF AssertStop, CaptureStep
  <1>7. CASE CaptureSettle
    <2>1. RecordTypes'
      BY <1>7 DEF TypeInv, TypeOK, RecordTypes, Phases, Generations, record,
         CaptureSettle, CaptureStep, Recorded, CaptureAborts, CaptureRaises, Transition,
         Unrecorded, CaptureFails
    <2>2. PerceptionTypes'
      BY <1>7, BoundsAssumption DEF TypeInv, TypeOK, PerceptionTypes, Generations,
         CyclesLeft, perception, CapturePcs, TransactionTypes, CaptureSettle, CaptureStep,
         TxStep, CaptureAborts, CaptureRaises, TxRaise, CaptureFails
    <2>3. TransactionTypes' /\ CyclesLeft'
      BY <1>7 DEF TypeInv, TypeOK, TransactionTypes, TxPcs, transaction, CyclesLeft,
         CapturePcs, PlanPcs, ExecutePcs, FinallyPcs, perception, CaptureSettle, CaptureStep,
         TxStep, CaptureAborts, CaptureRaises, TxRaise, CaptureFails
    <2> QED
      BY <1>7, <2>1, <2>2, <2>3, SameTypes DEF CaptureSettle, CaptureStep
  <1>8. CASE SettleTimeout
    <2>1. RecordTypes'
      BY <1>8 DEF TypeInv, TypeOK, RecordTypes, Phases, Generations, record,
         SettleTimeout, CaptureFails, CaptureRaises, Transition, Recorded, Unrecorded
    <2>2. PerceptionTypes'
      BY <1>8, BoundsAssumption DEF TypeInv, TypeOK, PerceptionTypes, Generations,
         CyclesLeft, perception, CapturePcs, TransactionTypes, SettleTimeout, CaptureFails,
         CaptureRaises, TxRaise
    <2>3. TransactionTypes' /\ CyclesLeft'
      BY <1>8 DEF TypeInv, TypeOK, TransactionTypes, TxPcs, transaction, CyclesLeft,
         CapturePcs, PlanPcs, ExecutePcs, FinallyPcs, perception, SettleTimeout,
         CaptureFails, CaptureRaises, TxRaise
    <2> QED
      BY <1>8, <2>1, <2>2, <2>3, SameTypes DEF SettleTimeout
  <1>9. CASE CaptureReused
    <2>1. RecordTypes'
      BY <1>9 DEF TypeInv, TypeOK, RecordTypes, Phases, Generations, record,
         CaptureReused, CaptureStep, Recorded, CaptureAborts, CaptureRaises, Transition,
         Unrecorded, CaptureFails
    <2>2. PerceptionTypes'
      BY <1>9, BoundsAssumption DEF TypeInv, TypeOK, PerceptionTypes, Generations,
         CyclesLeft, perception, CapturePcs, TransactionTypes, CaptureReused, CaptureStep,
         TxStep, CaptureAborts, CaptureRaises, TxRaise, CaptureFails
    <2>3. TransactionTypes' /\ CyclesLeft'
      BY <1>9 DEF TypeInv, TypeOK, TransactionTypes, TxPcs, transaction, CyclesLeft,
         CapturePcs, PlanPcs, ExecutePcs, FinallyPcs, perception, CaptureReused, CaptureStep,
         TxStep, CaptureAborts, CaptureRaises, TxRaise, CaptureFails
    <2> QED
      BY <1>9, <2>1, <2>2, <2>3, SameTypes DEF CaptureReused, CaptureStep
  <1>10. CASE Shoot
    <2>1. RecordTypes'
      BY <1>10 DEF TypeInv, TypeOK, RecordTypes, Phases, Generations, record, Shoot,
         CaptureStep, Recorded, CaptureAborts, CaptureRaises, Transition, Unrecorded,
         CaptureFails
    <2>2. PerceptionTypes'
      BY <1>10, BoundsAssumption DEF TypeInv, TypeOK, PerceptionTypes, Generations,
         CyclesLeft, perception, CapturePcs, TransactionTypes, Shoot, CaptureStep, TxStep,
         CaptureAborts, CaptureRaises, TxRaise, CaptureFails
    <2>3. TransactionTypes' /\ CyclesLeft'
      BY <1>10 DEF TypeInv, TypeOK, TransactionTypes, TxPcs, transaction, CyclesLeft,
         CapturePcs, PlanPcs, ExecutePcs, FinallyPcs, perception, Shoot, CaptureStep, TxStep,
         CaptureAborts, CaptureRaises, TxRaise, CaptureFails
    <2> QED
      BY <1>10, <2>1, <2>2, <2>3, SameTypes DEF Shoot, CaptureStep
  <1>11. CASE Infer
    <2>1. RecordTypes'
      BY <1>11 DEF TypeInv, TypeOK, RecordTypes, Phases, Generations, record, Infer,
         CaptureStep, Recorded, CaptureAborts, CaptureRaises, Transition, Unrecorded,
         CaptureFails
    <2>2. PerceptionTypes'
      BY <1>11, BoundsAssumption DEF TypeInv, TypeOK, PerceptionTypes, Generations,
         CyclesLeft, perception, CapturePcs, TransactionTypes, Infer, CaptureStep, TxStep,
         CaptureAborts, CaptureRaises, TxRaise, CaptureFails
    <2>3. TransactionTypes' /\ CyclesLeft'
      BY <1>11 DEF TypeInv, TypeOK, TransactionTypes, TxPcs, transaction, CyclesLeft,
         CapturePcs, PlanPcs, ExecutePcs, FinallyPcs, perception, Infer, CaptureStep, TxStep,
         CaptureAborts, CaptureRaises, TxRaise, CaptureFails
    <2> QED
      BY <1>11, <2>1, <2>2, <2>3, SameTypes DEF Infer, CaptureStep
  <1>12. CASE Finalize
    <2>1. RecordTypes'
      BY <1>12 DEF TypeInv, TypeOK, RecordTypes, Phases, Generations, record, Finalize,
         CaptureAborts, CaptureRaises, Transition, Recorded, Unrecorded, CaptureFails
    <2>2. PerceptionTypes'
      BY <1>12, BoundsAssumption DEF TypeInv, TypeOK, PerceptionTypes, Generations,
         CyclesLeft, perception, CapturePcs, TransactionTypes, Finalize, TxStep,
         CaptureAborts, CaptureRaises, TxRaise, CaptureFails
    <2>3. TransactionTypes' /\ CyclesLeft'
      BY <1>12 DEF TypeInv, TypeOK, TransactionTypes, TxPcs, transaction, CyclesLeft,
         CapturePcs, PlanPcs, ExecutePcs, FinallyPcs, perception, Finalize, TxStep,
         CaptureAborts, CaptureRaises, TxRaise, CaptureFails
    <2> QED
      BY <1>12, <2>1, <2>2, <2>3, SameTypes DEF Finalize
  <1>13. CASE Accept
    <2>1. RecordTypes'
      BY <1>13 DEF TypeInv, TypeOK, RecordTypes, Phases, Generations, record, Accept,
         RefusedCommit, CaptureFails, CaptureRaises, Transition, Recorded, Unrecorded
    <2>2. PerceptionTypes'
      BY <1>13, BoundsAssumption DEF TypeInv, TypeOK, PerceptionTypes, Generations,
         CyclesLeft, perception, CapturePcs, TransactionTypes, Accept, TxStep, RefusedCommit,
         CaptureFails, CaptureRaises, TxRaise
    <2>3. TransactionTypes' /\ CyclesLeft'
      BY <1>13 DEF TypeInv, TypeOK, TransactionTypes, TxPcs, transaction, CyclesLeft,
         CapturePcs, PlanPcs, ExecutePcs, FinallyPcs, perception, Accept, TxStep,
         RefusedCommit, CaptureFails, CaptureRaises, TxRaise
    <2> QED
      BY <1>13, <2>1, <2>2, <2>3, SameTypes DEF Accept
  <1>14. CASE Swap
    <2>1. PerceptionTypes'
      BY <1>14, BoundsAssumption DEF TypeInv, TypeOK, PerceptionTypes, Generations,
         CyclesLeft, perception, CapturePcs, TransactionTypes, Swap, TxStep
    <2>2. TransactionTypes' /\ CyclesLeft'
      BY <1>14 DEF TypeInv, TypeOK, TransactionTypes, TxPcs, transaction, CyclesLeft,
         CapturePcs, PlanPcs, ExecutePcs, FinallyPcs, perception, Swap, TxStep
    <2> QED
      BY <1>14, <2>1, <2>2, SameTypes DEF Swap
  <1>15. CASE CaptureTail
    <2>1. RecordTypes'
      BY <1>15 DEF TypeInv, TypeOK, RecordTypes, Phases, Generations, record, CaptureTail,
         Recorded, Unrecorded, CaptureAborts, CaptureRaises, Transition
    <2>2. PerceptionTypes'
      BY <1>15, BoundsAssumption DEF TypeInv, TypeOK, PerceptionTypes, Generations,
         CyclesLeft, perception, CapturePcs, TransactionTypes, CaptureTail, TxStep, TxRaise,
         CaptureAborts, CaptureRaises
    <2>3. TransactionTypes' /\ CyclesLeft'
      BY <1>15 DEF TypeInv, TypeOK, TransactionTypes, TxPcs, transaction, CyclesLeft,
         CapturePcs, PlanPcs, ExecutePcs, FinallyPcs, perception, CaptureTail, TxStep,
         TxRaise, CaptureAborts, CaptureRaises
    <2> QED
      BY <1>15, <2>1, <2>2, <2>3, SameTypes DEF CaptureTail
  <1>16. CASE BeginPlan
    <2>1. RecordTypes'
      BY <1>16 DEF TypeInv, TypeOK, RecordTypes, Phases, Generations, record, BeginPlan,
         Recorded, Unrecorded
    <2>2. TransactionTypes' /\ CyclesLeft'
      BY <1>16 DEF TypeInv, TypeOK, TransactionTypes, TxPcs, transaction, CyclesLeft,
         CapturePcs, PlanPcs, ExecutePcs, FinallyPcs, perception, BeginPlan, PlanFrame
    <2> QED
      BY <1>16, <2>1, <2>2, SameTypes DEF BeginPlan, PlanFrame
  <1>17. CASE Select
    <2>1. RecordTypes'
      BY <1>17 DEF TypeInv, TypeOK, RecordTypes, Phases, Generations, record, Select,
         Recorded, PlanFails, PlanRaises, Transition, Unrecorded
    <2>2. TransactionTypes' /\ CyclesLeft'
      BY <1>17 DEF TypeInv, TypeOK, TransactionTypes, TxPcs, transaction, CyclesLeft,
         CapturePcs, PlanPcs, ExecutePcs, FinallyPcs, perception, Select, TxStep, PlanFails,
         PlanRaises, TxRaise, PlanFrame
    <2> QED
      BY <1>17, <2>1, <2>2, SameTypes DEF Select, PlanFrame
  <1>18. CASE ReadLiveState
    <2>1. RecordTypes'
      BY <1>18 DEF TypeInv, TypeOK, RecordTypes, Phases, Generations, record,
         ReadLiveState, PlanFails, PlanRaises, Transition, Recorded, Unrecorded
    <2>2. TransactionTypes' /\ CyclesLeft'
      BY <1>18 DEF TypeInv, TypeOK, TransactionTypes, TxPcs, transaction, CyclesLeft,
         CapturePcs, PlanPcs, ExecutePcs, FinallyPcs, perception, ReadLiveState, TxStep,
         PlanFails, PlanRaises, TxRaise, PlanFrame
    <2> QED
      BY <1>18, <2>1, <2>2, SameTypes DEF ReadLiveState, PlanFrame
  <1>19. CASE Propose
    <2>1. RecordTypes'
      BY <1>19 DEF TypeInv, TypeOK, RecordTypes, Phases, Generations, record, Propose,
         Recorded, PlanFails, PlanRaises, Transition, Unrecorded
    <2>2. TransactionTypes' /\ CyclesLeft'
      BY <1>19 DEF TypeInv, TypeOK, TransactionTypes, TxPcs, transaction, CyclesLeft,
         CapturePcs, PlanPcs, ExecutePcs, FinallyPcs, perception, Propose, TxStep, PlanFails,
         PlanRaises, TxRaise, PlanFrame
    <2> QED
      BY <1>19, <2>1, <2>2, SameTypes DEF Propose, PlanFrame
  <1>20. CASE Preflight
    <2>1. RecordTypes'
      BY <1>20 DEF TypeInv, TypeOK, RecordTypes, Phases, Generations, record,
         PerceptionTypes, Preflight, Recorded, PlanFails, PlanRaises, Transition, Unrecorded
    <2>2. TransactionTypes' /\ CyclesLeft'
      BY <1>20 DEF TypeInv, TypeOK, TransactionTypes, TxPcs, transaction, CyclesLeft,
         CapturePcs, PlanPcs, ExecutePcs, FinallyPcs, perception, Preflight, TxStep,
         PlanFails, PlanRaises, TxRaise, PlanFrame
    <2> QED
      BY <1>20, <2>1, <2>2, SameTypes DEF Preflight, PlanFrame
  <1>21. CASE BeginExecute
    <2>1. ExecutionTypes'
      BY <1>21 DEF TypeInv, TypeOK, ExecutionTypes, execution, BeginExecute
    <2>2. TransactionTypes' /\ CyclesLeft'
      BY <1>21 DEF TypeInv, TypeOK, TransactionTypes, TxPcs, transaction, CyclesLeft,
         CapturePcs, PlanPcs, ExecutePcs, FinallyPcs, perception, BeginExecute, Enter
    <2> QED
      BY <1>21, <2>1, <2>2, SameTypes DEF BeginExecute, Enter
  <1>22. CASE Freeze
    <2>1. ExecutionTypes'
      BY <1>22 DEF TypeInv, TypeOK, ExecutionTypes, execution, Freeze, ExecuteRaises,
         Unfreeze
    <2>2. TransactionTypes' /\ CyclesLeft'
      BY <1>22 DEF TypeInv, TypeOK, TransactionTypes, TxPcs, transaction, CyclesLeft,
         CapturePcs, PlanPcs, ExecutePcs, FinallyPcs, perception, Freeze, TxStep,
         ExecuteRaises, Unfreeze, ExecuteFrame
    <2> QED
      BY <1>22, <2>1, <2>2, SameTypes DEF Freeze, ExecuteRaises, Unfreeze, ExecuteFrame
  <1>23. CASE Authorize
    <2>1. ExecutionTypes'
      BY <1>23 DEF TypeInv, TypeOK, ExecutionTypes, execution, ArmTypes, Authorize,
         ExecuteRaises, Unfreeze
    <2>2. TransactionTypes' /\ CyclesLeft'
      BY <1>23 DEF TypeInv, TypeOK, TransactionTypes, TxPcs, transaction, CyclesLeft,
         CapturePcs, PlanPcs, ExecutePcs, FinallyPcs, perception, Authorize, TxStep,
         ExecuteRaises, Unfreeze, ExecuteFrame
    <2> QED
      BY <1>23, <2>1, <2>2, SameTypes DEF Authorize, ExecuteRaises, Unfreeze, ExecuteFrame
  <1>24. CASE Approve
    <2>1. RecordTypes'
      BY <1>24 DEF TypeInv, TypeOK, RecordTypes, Phases, Generations, record, Approve,
         RecordedOrRaises, Recorded, ExecuteRaises, Unfreeze, Unrecorded
    <2>2. ExecutionTypes'
      BY <1>24 DEF TypeInv, TypeOK, ExecutionTypes, execution, Approve, RecordedOrRaises,
         ExecuteRaises, Unfreeze
    <2>3. TransactionTypes' /\ CyclesLeft'
      BY <1>24 DEF TypeInv, TypeOK, TransactionTypes, TxPcs, transaction, CyclesLeft,
         CapturePcs, PlanPcs, ExecutePcs, FinallyPcs, perception, Approve, RecordedOrRaises,
         TxStep, ExecuteRaises, Unfreeze, ExecuteFrame
    <2> QED
      BY <1>24, <2>1, <2>2, <2>3, SameTypes DEF Approve, RecordedOrRaises, ExecuteRaises,
         ExecuteFrame
  <1>25. CASE Admit
    <2>1. ExecutionTypes'
      BY <1>25 DEF TypeInv, TypeOK, ExecutionTypes, execution, Admit, ExecuteRaises,
         Unfreeze
    <2>2. TransactionTypes' /\ CyclesLeft'
      BY <1>25 DEF TypeInv, TypeOK, TransactionTypes, TxPcs, transaction, CyclesLeft,
         CapturePcs, PlanPcs, ExecutePcs, FinallyPcs, perception, Admit, TxStep,
         ExecuteRaises, Unfreeze, ExecuteFrame
    <2> QED
      BY <1>25, <2>1, <2>2, SameTypes DEF Admit, ExecuteRaises, Unfreeze, ExecuteFrame
  <1>26. CASE Release
    <2>1. ArmTypes'
      BY <1>26 DEF TypeInv, TypeOK, ArmTypes, arm, Release
    <2>2. ExecutionTypes'
      BY <1>26 DEF TypeInv, TypeOK, ExecutionTypes, execution, Release
    <2>3. TransactionTypes' /\ CyclesLeft'
      BY <1>26 DEF TypeInv, TypeOK, TransactionTypes, TxPcs, transaction, CyclesLeft,
         CapturePcs, PlanPcs, ExecutePcs, FinallyPcs, perception, Release, TxStep,
         ExecuteFrame
    <2> QED
      BY <1>26, <2>1, <2>2, <2>3, SameTypes DEF Release, ExecuteFrame
  <1>27. CASE CheckWrite
    <2>1. TransactionTypes' /\ CyclesLeft'
      BY <1>27 DEF TypeInv, TypeOK, TransactionTypes, TxPcs, transaction, CyclesLeft,
         CapturePcs, PlanPcs, ExecutePcs, FinallyPcs, perception, CheckWrite, TxStep,
         ExecuteFrame
    <2> QED
      BY <1>27, <2>1, SameTypes DEF CheckWrite, ExecuteFrame
  <1>28. CASE Write
    <2>1. ArmTypes'
      BY <1>28 DEF TypeInv, TypeOK, ArmTypes, arm, Write
    <2>2. TransactionTypes' /\ CyclesLeft'
      BY <1>28 DEF TypeInv, TypeOK, TransactionTypes, TxPcs, transaction, CyclesLeft,
         CapturePcs, PlanPcs, ExecutePcs, FinallyPcs, perception, Write, TxStep, ExecuteFrame
    <2> QED
      BY <1>28, <2>1, <2>2, SameTypes DEF Write, ExecuteFrame
  <1>29. CASE EndStream
    <2>1. ExecutionTypes'
      BY <1>29 DEF TypeInv, TypeOK, ExecutionTypes, execution, EndStream
    <2>2. TransactionTypes' /\ CyclesLeft'
      BY <1>29 DEF TypeInv, TypeOK, TransactionTypes, TxPcs, transaction, CyclesLeft,
         CapturePcs, PlanPcs, ExecutePcs, FinallyPcs, perception, EndStream, TxStep,
         ExecuteFrame
    <2> QED
      BY <1>29, <2>1, <2>2, SameTypes DEF EndStream, ExecuteFrame
  <1>30. CASE EndLatch
    <2>1. ArmTypes'
      BY <1>30 DEF TypeInv, TypeOK, ArmTypes, arm, EndLatch, Latch
    <2>2. ExecutionTypes'
      BY <1>30 DEF TypeInv, TypeOK, ExecutionTypes, execution, EndLatch
    <2>3. TransactionTypes' /\ CyclesLeft'
      BY <1>30 DEF TypeInv, TypeOK, TransactionTypes, TxPcs, transaction, CyclesLeft,
         CapturePcs, PlanPcs, ExecutePcs, FinallyPcs, perception, EndLatch, TxStep,
         ExecuteFrame
    <2> QED
      BY <1>30, <2>1, <2>2, <2>3, SameTypes DEF EndLatch, ExecuteFrame
  <1>31. CASE EndSend
    <2>1. ArmTypes'
      BY <1>31 DEF TypeInv, TypeOK, ArmTypes, arm, EndSend, StopConfirmed, StopFails
    <2>2. ExecutionTypes'
      BY <1>31 DEF TypeInv, TypeOK, ExecutionTypes, execution, EndSend, Unfreeze
    <2>3. TransactionTypes' /\ CyclesLeft'
      BY <1>31 DEF TypeInv, TypeOK, TransactionTypes, TxPcs, transaction, CyclesLeft,
         CapturePcs, PlanPcs, ExecutePcs, FinallyPcs, perception, EndSend, TxStep, Unfreeze,
         ExecuteFrame
    <2> QED
      BY <1>31, <2>1, <2>2, <2>3, SameTypes DEF EndSend, Unfreeze, ExecuteFrame
  <1>32. CASE BeginSettling
    <2>1. RecordTypes'
      BY <1>32 DEF TypeInv, TypeOK, RecordTypes, Phases, Generations, record,
         BeginSettling, RecordedOrRaises, Recorded, ExecuteRaises, Unfreeze, Unrecorded
    <2>2. ExecutionTypes'
      BY <1>32 DEF TypeInv, TypeOK, ExecutionTypes, execution, BeginSettling,
         RecordedOrRaises, ExecuteRaises, Unfreeze
    <2>3. TransactionTypes' /\ CyclesLeft'
      BY <1>32 DEF TypeInv, TypeOK, TransactionTypes, TxPcs, transaction, CyclesLeft,
         CapturePcs, PlanPcs, ExecutePcs, FinallyPcs, perception, BeginSettling,
         RecordedOrRaises, TxStep, ExecuteRaises, Unfreeze, ExecuteFrame
    <2> QED
      BY <1>32, <2>1, <2>2, <2>3, SameTypes DEF BeginSettling, RecordedOrRaises,
         ExecuteRaises, ExecuteFrame
  <1>33. CASE SegmentSettle
    <2>1. ExecutionTypes'
      BY <1>33 DEF TypeInv, TypeOK, ExecutionTypes, execution, SegmentSettle,
         ExecuteRaises, Unfreeze
    <2>2. TransactionTypes' /\ CyclesLeft'
      BY <1>33 DEF TypeInv, TypeOK, TransactionTypes, TxPcs, transaction, CyclesLeft,
         CapturePcs, PlanPcs, ExecutePcs, FinallyPcs, perception, SegmentSettle, TxStep,
         ExecuteRaises, Unfreeze, ExecuteFrame
    <2> QED
      BY <1>33, <2>1, <2>2, SameTypes DEF SegmentSettle, ExecuteRaises, Unfreeze,
         ExecuteFrame
  <1>34. CASE Snapshot
    <2>1. RecordTypes'
      BY <1>34 DEF TypeInv, TypeOK, RecordTypes, Phases, Generations, record, Snapshot,
         Recorded, Unrecorded, ExecuteRaises, Unfreeze
    <2>2. PerceptionTypes'
      BY <1>34, BoundsAssumption DEF TypeInv, TypeOK, PerceptionTypes, Generations,
         CyclesLeft, perception, CapturePcs, TransactionTypes, ArmTypes, Snapshot,
         ExecuteRaises, Unfreeze, TxStep
    <2>3. ExecutionTypes'
      BY <1>34 DEF TypeInv, TypeOK, ExecutionTypes, execution, Snapshot, ExecuteRaises,
         Unfreeze
    <2>4. TransactionTypes' /\ CyclesLeft'
      BY <1>34 DEF TypeInv, TypeOK, TransactionTypes, TxPcs, transaction, CyclesLeft,
         CapturePcs, PlanPcs, ExecutePcs, FinallyPcs, perception, Snapshot, ExecuteRaises,
         Unfreeze, TxStep
    <2> QED
      BY <1>34, <2>1, <2>2, <2>3, <2>4, SameTypes DEF Snapshot, ExecuteRaises
  <1>35. CASE FailLatch
    <2>1. ArmTypes'
      BY <1>35 DEF TypeInv, TypeOK, ArmTypes, arm, FailLatch, Latch
    <2>2. TransactionTypes' /\ CyclesLeft'
      BY <1>35 DEF TypeInv, TypeOK, TransactionTypes, TxPcs, transaction, CyclesLeft,
         CapturePcs, PlanPcs, ExecutePcs, FinallyPcs, perception, FailLatch, TxStep,
         ExecuteFrame
    <2> QED
      BY <1>35, <2>1, <2>2, SameTypes DEF FailLatch, ExecuteFrame
  <1>36. CASE FailSend
    <2>1. RecordTypes'
      BY <1>36 DEF TypeInv, TypeOK, RecordTypes, Phases, Generations, record, FailSend,
         Transition, Recorded, Unrecorded
    <2>2. PerceptionTypes'
      BY <1>36, BoundsAssumption DEF TypeInv, TypeOK, PerceptionTypes, Generations,
         CyclesLeft, perception, CapturePcs, TransactionTypes, FailSend, TxRaise
    <2>3. ArmTypes'
      BY <1>36 DEF TypeInv, TypeOK, ArmTypes, arm, FailSend, StopConfirmed, StopFails
    <2>4. TransactionTypes' /\ CyclesLeft'
      BY <1>36 DEF TypeInv, TypeOK, TransactionTypes, TxPcs, transaction, CyclesLeft,
         CapturePcs, PlanPcs, ExecutePcs, FinallyPcs, perception, FailSend, TxRaise
    <2> QED
      BY <1>36, <2>1, <2>2, <2>3, <2>4, SameTypes DEF FailSend
  <1>37. CASE Refused
    <2>1. TransactionTypes' /\ CyclesLeft'
      BY <1>37 DEF TypeInv, TypeOK, TransactionTypes, TxPcs, transaction, CyclesLeft,
         CapturePcs, PlanPcs, ExecutePcs, FinallyPcs, perception, Refused
    <2> QED
      BY <1>37, <2>1, SameTypes DEF Refused
  <1>38. CASE Exit
    <2>1. TransactionTypes' /\ CyclesLeft'
      BY <1>38 DEF TypeInv, TypeOK, TransactionTypes, TxPcs, transaction, CyclesLeft,
         CapturePcs, PlanPcs, ExecutePcs, FinallyPcs, perception, OperatorTypes, Exit
    <2> QED
      BY <1>38, <2>1, SameTypes DEF Exit
  <1>39. CASE Record
    <2>1. RecordTypes'
      BY <1>39 DEF TypeInv, TypeOK, RecordTypes, Phases, Generations, record, Record,
         Recorded, Unrecorded
    <2>2. TransactionTypes' /\ CyclesLeft'
      BY <1>39 DEF TypeInv, TypeOK, TransactionTypes, TxPcs, transaction, CyclesLeft,
         CapturePcs, PlanPcs, ExecutePcs, FinallyPcs, perception, Record
    <2> QED
      BY <1>39, <2>1, <2>2, SameTypes DEF Record
  <1>40. CASE Unlock
    <2>1. TransactionTypes' /\ CyclesLeft'
      BY <1>40 DEF TypeInv, TypeOK, TransactionTypes, TxPcs, transaction, CyclesLeft,
         CapturePcs, PlanPcs, ExecutePcs, FinallyPcs, perception, Unlock, TxStep
    <2> QED
      BY <1>40, <2>1, SameTypes DEF Unlock
  <1>41. CASE Request
    <2>1. OperatorTypes'
      BY <1>41, BoundsAssumption DEF TypeInv, TypeOK, OperatorTypes, OpPcs, operator,
         Request
    <2> QED
      BY <1>41, <2>1, SameTypes DEF Request
  <1>42. CASE Flag
    <2>1. PerceptionTypes'
      BY <1>42, BoundsAssumption DEF TypeInv, TypeOK, PerceptionTypes, Generations,
         CyclesLeft, perception, CapturePcs, TransactionTypes, Flag
    <2>2. OperatorTypes'
      BY <1>42, BoundsAssumption DEF TypeInv, TypeOK, OperatorTypes, OpPcs, operator, Flag
    <2>3. CyclesLeft'
      BY <1>42 DEF TypeInv, CyclesLeft, transaction, Flag
    <2> QED
      BY <1>42, <2>1, <2>2, <2>3, SameTypes DEF Flag
  <1>43. CASE RequestLatch
    <2>1. ArmTypes'
      BY <1>43 DEF TypeInv, TypeOK, ArmTypes, arm, RequestLatch, Latch
    <2>2. OperatorTypes'
      BY <1>43, BoundsAssumption DEF TypeInv, TypeOK, OperatorTypes, OpPcs, operator,
         RequestLatch, OpStep
    <2> QED
      BY <1>43, <2>1, <2>2, SameTypes DEF RequestLatch
  <1>44. CASE RequestSend
    <2>1. ArmTypes'
      BY <1>44 DEF TypeInv, TypeOK, ArmTypes, arm, RequestSend, StopConfirmed, StopFails
    <2>2. OperatorTypes'
      BY <1>44, BoundsAssumption DEF TypeInv, TypeOK, OperatorTypes, OpPcs, operator,
         RequestSend, OpStep
    <2> QED
      BY <1>44, <2>1, <2>2, SameTypes DEF RequestSend
  <1>45. CASE Acknowledge
    <2>1. OperatorTypes'
      BY <1>45, BoundsAssumption DEF TypeInv, TypeOK, OperatorTypes, OpPcs, operator,
         Acknowledge
    <2> QED
      BY <1>45, <2>1, SameTypes DEF Acknowledge
  <1>46. CASE RequestSettle
    <2>1. OperatorTypes'
      BY <1>46, BoundsAssumption DEF TypeInv, TypeOK, OperatorTypes, OpPcs, operator,
         RequestSettle, OpStep
    <2> QED
      BY <1>46, <2>1, SameTypes DEF RequestSettle
  <1>47. CASE Verify
    <2>1. OperatorTypes'
      BY <1>47, BoundsAssumption DEF TypeInv, TypeOK, OperatorTypes, OpPcs, operator,
         Verify
    <2> QED
      BY <1>47, <2>1, SameTypes DEF Verify
  <1>48. CASE TryRecord
    <2>1. OperatorTypes'
      BY <1>48, BoundsAssumption DEF TypeInv, TypeOK, OperatorTypes, OpPcs, operator,
         TryRecord, OpStep
    <2> QED
      BY <1>48, <2>1, SameTypes DEF TryRecord
  <1>49. CASE RequestRecord
    <2>1. RecordTypes'
      BY <1>49 DEF TypeInv, TypeOK, RecordTypes, Phases, Generations, record,
         RequestRecord, Transition, Recorded, Unrecorded
    <2>2. OperatorTypes'
      BY <1>49, BoundsAssumption DEF TypeInv, TypeOK, OperatorTypes, OpPcs, operator,
         RequestRecord, OpStep
    <2> QED
      BY <1>49, <2>1, <2>2, SameTypes DEF RequestRecord
  <1>50. CASE DeadlineStop
    <2>1. ArmTypes'
      BY <1>50 DEF TypeInv, TypeOK, ArmTypes, arm, DeadlineStop
    <2>2. ExecutionTypes'
      BY <1>50 DEF TypeInv, TypeOK, ExecutionTypes, execution, DeadlineStop
    <2> QED
      BY <1>50, <2>1, <2>2, SameTypes DEF DeadlineStop
  <1>51. CASE Rest
    <2>1. ArmTypes'
      BY <1>51 DEF TypeInv, TypeOK, ArmTypes, arm, Rest
    <2> QED
      BY <1>51, <2>1, SameTypes DEF Rest
  <1>52. CASE UNCHANGED vars
    BY <1>52, SameTypes DEF vars
  <1> QED
    BY <1>1, <1>2, <1>3, <1>4, <1>5, <1>6, <1>7, <1>8, <1>9, <1>10, <1>11, <1>12, <1>13,
       <1>14, <1>15, <1>16, <1>17, <1>18, <1>19, <1>20, <1>21, <1>22, <1>23, <1>24, <1>25,
       <1>26, <1>27, <1>28, <1>29, <1>30, <1>31, <1>32, <1>33, <1>34, <1>35, <1>36, <1>37,
       <1>38, <1>39, <1>40, <1>41, <1>42, <1>43, <1>44, <1>45, <1>46, <1>47, <1>48, <1>49,
       <1>50, <1>51, <1>52
       DEF Next, Capture, Plan, Execute, RequestStep

(* Every field of the coordinator, its publisher and the arm keeps its type; *)
(* in particular no capture numbers a map past the bound on cycles.          *)
THEOREM TypeCorrect == Spec => []TypeOK
  <1>1. TypeInv => TypeOK
    BY DEF TypeInv
  <1> QED
    BY TypeInit, TypeStep, <1>1, PTL DEF Spec

=============================================================================
