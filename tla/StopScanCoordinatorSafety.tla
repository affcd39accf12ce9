---------------------- MODULE StopScanCoordinatorSafety ----------------------
(***************************************************************************)
(* The inductive invariant of StopScanCoordinator, the safety theorems     *)
(* that follow from it and the implementation of ScanRun, for every bound  *)
(* on cycles and stop requests.                                            *)
(***************************************************************************)
EXTENDS StopScanCoordinatorProofs

-----------------------------------------------------------------------------
(* The inductive invariant.                                                 *)

\* the two threads exclude each other by the operation lock
LockInv == opPc = "record" => txPc = "idle"

(* A phase that ends the run is entered only on the way out of a            *)
(* transaction, or by an event that could not be recorded in an execution.  *)
LifeInv ==
    /\ phase \in Terminal => txPc \in {"idle", "failLatch", "failSend"} \cup FinallyPcs
    /\ phase = "idle" => /\ txPc \in {"idle"} \cup FinallyPcs
                         /\ opPc = "idle" /\ ~stopRequested

\* whatever else a stop request has set, it has set the flag
RequestInv == opPc \notin {"idle", "flag"} \/ acknowledged \/ verified => stopRequested

(* Maps are numbered by cycle: one ahead while a capture ends, or for good   *)
(* if that capture is refused after its commit.                             *)
PublishInv ==
    /\ AcceptedIsPublished
    /\ txPc = "swap" => accepted = cycle + 1
    /\ \/ published = cycle /\ txPc # "tail"
       \/ published = cycle + 1 /\ (txPc = "tail" \/ phase \in Terminal)

AtRest == {"reused", "shoot", "infer", "finalize", "accept", "swap", "tail", "snapshot"}

(* The boundary a segment leaves for the next capture: as long as nobody has *)
(* stopped or resumed the arm since, it still rests there.                  *)
RestInv ==
    /\ txPc \in AtRest => latched /\ motion = "rest"
    /\ readiness # None => readiness <= armGeneration
    /\ readiness = armGeneration /\ latched => motion = "rest"
    /\ txPc \in PlanPcs \cup ExecutePcs => readiness = None
    /\ phase \in Plannable \cup {"waiting_approval"} => readiness = None

\* a permit names a generation that exists
PermitInv == permit # None => permit <= armGeneration

Latching == {"send", "ack", "settle", "evidence"}
Admitted == {"release", "stream", "write"}

(* Once a stop request has latched the arm, or a former one was              *)
(* acknowledged, nobody can clear the latch: an execution past its admission *)
(* holds a permit older than the latch, and no other is admitted.            *)
StopInv ==
    /\ opPc \in Latching \/ acknowledged \/ verified =>
          latched /\ (txPc \in Admitted => permit # armGeneration)
    /\ opPc \in Latching \ {"send"} \/ acknowledged \/ verified => txPc # "write"
    /\ opPc = "evidence" \/ verified => motion = "rest"

Recording == {"settle", "evidence", "try", "record"}

(* An acknowledged stop either has ended the run, or one of the threads is   *)
(* still on its way to a record.                                            *)
AcknowledgedInv ==
    acknowledged => \/ phase \in Terminal
                    \/ txPc \notin {"idle", "unlock"}
                    \/ txPc = "idle" /\ opPc \in Recording

SafetyInv ==
    /\ LockInv /\ LifeInv /\ RequestInv
    /\ StoreFailureIsTerminal
    /\ PublishInv /\ RestInv /\ PermitInv /\ StopInv /\ AcknowledgedInv

IInv == TypeInv /\ SafetyInv

(* A new coordinator, beside a connected arm that stands still.              *)
LEMMA InvInit == Init => IInv
  <1> SUFFICES ASSUME Init PROVE IInv
    OBVIOUS
  <1>1. LockInv /\ LifeInv /\ RequestInv /\ AcknowledgedInv /\ StoreFailureIsTerminal
    BY DEF Init, LockInv, LifeInv, RequestInv, AcknowledgedInv, StoreFailureIsTerminal, Terminal
  <1>2. PublishInv /\ PermitInv
    BY DEF Init, PublishInv, AcceptedIsPublished, PermitInv
  <1>3. RestInv
    BY DEF Init, RestInv, AtRest, PlanPcs, ExecutePcs
  <1>4. StopInv
    BY DEF Init, StopInv, Latching
  <1> QED
    BY <1>1, <1>2, <1>3, <1>4, TypeInit DEF IInv, SafetyInv

-----------------------------------------------------------------------------
(* Every step keeps it, thread by thread.                                   *)

(* A capture changes the map only between its stop and its last event, with  *)
(* the arm latched and at rest.                                             *)
LEMMA CaptureKeeps == IInv /\ Capture => SafetyInv'
  <1> SUFFICES ASSUME IInv /\ Capture PROVE SafetyInv'
    OBVIOUS
  <1> USE DEF IInv, SafetyInv, LockInv, LifeInv, RequestInv, StoreFailureIsTerminal,
          PublishInv, AcceptedIsPublished, RestInv, PermitInv, StopInv, AcknowledgedInv, TypeInv,
          TypeOK, PerceptionTypes, ArmTypes, ExecutionTypes, AtRest, Admitted, PlanPcs,
          ExecutePcs, FinallyPcs, Terminal, Capturable, Plannable, record, perception, arm,
          execution, operator, Recorded, Unrecorded, Transition, TxStep, TxRaise, CaptureRaises,
          CaptureAborts, CaptureFails, CaptureStep
  <1>1. CASE BeginCapture
    BY <1>1 DEF BeginCapture, Enter, OperationLockFree
  <1>2. CASE ReuseBoundary
    \* a boundary of the current generation still rests: RestInv gives it to AtRest
    <2>1. RestInv'
      BY <1>2, BoundsAssumption DEF ReuseBoundary, OwnsBoundary
    <2>2. (LockInv /\ LifeInv /\ RequestInv /\ StoreFailureIsTerminal /\ PublishInv /\
         PermitInv /\ StopInv /\ AcknowledgedInv)'
      BY <1>2, BoundsAssumption DEF ReuseBoundary, OwnsBoundary
    <2> QED
      BY <2>1, <2>2
  <1>3. CASE CaptureStop
    BY <1>3, BoundsAssumption DEF CaptureStop, OwnsBoundary, Latch
  <1>4. CASE CaptureSend
    BY <1>4, BoundsAssumption DEF CaptureSend, StopConfirmed, StopFails
  <1>5. CASE AssertStop
    BY <1>5, BoundsAssumption DEF AssertStop
  <1>6. CASE CaptureSettle
    BY <1>6 DEF CaptureSettle, Stationary
  <1>7. CASE SettleTimeout
    BY <1>7, BoundsAssumption DEF SettleTimeout
  <1>8. CASE CaptureReused
    BY <1>8 DEF CaptureReused
  <1>9. CASE Shoot
    BY <1>9 DEF Shoot
  <1>10. CASE Infer
    BY <1>10 DEF Infer
  <1>11. CASE Finalize
    BY <1>11 DEF Finalize, StopRequestLockFree, CommitDecided
  <1>12. CASE Accept
    BY <1>12 DEF Accept, RefusedCommit
  <1>13. CASE Swap
    \* the map catches up with its sources, and is one ahead of the cycle
    <2>1. PublishInv'
      BY <1>13 DEF Swap
    <2>2. (LockInv /\ LifeInv /\ RequestInv /\ StoreFailureIsTerminal /\ RestInv /\
         PermitInv /\ StopInv /\ AcknowledgedInv)'
      BY <1>13 DEF Swap
    <2> QED
      BY <2>1, <2>2
  <1>14. CASE CaptureTail
    BY <1>14 DEF CaptureTail
  <1> QED
    BY <1>1, <1>2, <1>3, <1>4, <1>5, <1>6, <1>7, <1>8, <1>9, <1>10, <1>11, <1>12, <1>13,
       <1>14 DEF Capture

(* Planning leaves the arm and the map alone; it may end the run.           *)
LEMMA PlanKeeps == IInv /\ Plan => SafetyInv'
  <1> SUFFICES ASSUME IInv /\ Plan PROVE SafetyInv'
    OBVIOUS
  <1> USE DEF IInv, SafetyInv, LockInv, LifeInv, RequestInv, StoreFailureIsTerminal,
          PublishInv, AcceptedIsPublished, RestInv, PermitInv, StopInv, AcknowledgedInv, AtRest,
          Admitted, PlanPcs, FinallyPcs, Terminal, Plannable, record, perception, arm, execution,
          operator, Recorded, Unrecorded, Transition, TxStep, TxRaise, PlanRaises, PlanFails,
          PlanFrame
  <1>1. CASE BeginPlan
    BY <1>1 DEF BeginPlan, OperationLockFree
  <1>2. CASE Select
    BY <1>2 DEF Select
  <1>3. CASE ReadLiveState
    BY <1>3 DEF ReadLiveState
  <1>4. CASE Propose
    BY <1>4 DEF Propose
  <1>5. CASE Preflight
    BY <1>5 DEF Preflight
  <1> QED
    BY <1>1, <1>2, <1>3, <1>4, <1>5 DEF Plan

(* An execution releases only the latch its permit names, and leaves        *)
(* AWAITING_CAPTURE behind only on an arm that was seen at rest.            *)
LEMMA ExecuteKeeps == IInv /\ Execute => SafetyInv'
  <1> SUFFICES ASSUME IInv /\ Execute PROVE SafetyInv'
    OBVIOUS
  <1> USE DEF IInv, SafetyInv, LockInv, LifeInv, RequestInv, StoreFailureIsTerminal,
          PublishInv, AcceptedIsPublished, RestInv, PermitInv, StopInv, AcknowledgedInv, TypeInv,
          TypeOK, ArmTypes, ExecutionTypes, AtRest, Latching, Admitted, PlanPcs, ExecutePcs,
          FinallyPcs, Terminal, Plannable, record, perception, arm, execution, operator, Recorded,
          Unrecorded, PermitCurrent, TxStep, ExecuteFrame, Unfreeze, ExecuteRaises
  <1>1. CASE BeginExecute
    BY <1>1 DEF BeginExecute, Enter, OperationLockFree
  <1>2. CASE Freeze
    BY <1>2 DEF Freeze
  <1>3. CASE Authorize
    BY <1>3 DEF Authorize
  <1>4. CASE Approve
    BY <1>4 DEF Approve, RecordedOrRaises
  <1>5. CASE Admit
    BY <1>5 DEF Admit
  <1>6. CASE Release
    \* a stop request that has latched left this permit stale, and no boundary is
    \* kept for a capture during an execution
    <2>1. StopInv'
      BY <1>6 DEF Release, Releasable
    <2>2. RestInv'
      BY <1>6 DEF Release, Releasable
    <2>3. (LockInv /\ LifeInv /\ RequestInv /\ StoreFailureIsTerminal /\ PublishInv /\
         PermitInv /\ AcknowledgedInv)'
      BY <1>6 DEF Release, Releasable
    <2> QED
      BY <2>1, <2>2, <2>3
  <1>7. CASE CheckWrite
    BY <1>7 DEF CheckWrite
  <1>8. CASE Write
    \* no write is in flight once a stop was confirmed, and no capture is under way
    <2>1. StopInv'
      BY <1>8, BoundsAssumption DEF Write
    <2>2. RestInv'
      BY <1>8, BoundsAssumption DEF Write
    <2>3. (LockInv /\ LifeInv /\ RequestInv /\ StoreFailureIsTerminal /\ PublishInv /\
         PermitInv /\ AcknowledgedInv)'
      BY <1>8, BoundsAssumption DEF Write
    <2> QED
      BY <2>1, <2>2, <2>3
  <1>9. CASE EndStream
    BY <1>9 DEF EndStream
  <1>10. CASE EndLatch
    BY <1>10, BoundsAssumption DEF EndLatch, Latch
  <1>11. CASE EndSend
    BY <1>11 DEF EndSend, StopConfirmed, StopFails
  <1>12. CASE BeginSettling
    BY <1>12 DEF BeginSettling, RecordedOrRaises
  <1>13. CASE SegmentSettle
    BY <1>13 DEF SegmentSettle, Stationary
  <1>14. CASE Snapshot
    \* the boundary kept for the capture is the one SegmentSettle saw at rest
    <2>1. RestInv'
      BY <1>14 DEF Snapshot
    <2>2. (LockInv /\ LifeInv /\ RequestInv /\ StoreFailureIsTerminal /\ PublishInv /\
         PermitInv /\ StopInv /\ AcknowledgedInv)'
      BY <1>14 DEF Snapshot
    <2> QED
      BY <2>1, <2>2
  <1>15. CASE FailLatch
    BY <1>15, BoundsAssumption DEF FailLatch, Latch
  <1>16. CASE FailSend
    BY <1>16 DEF FailSend, TxRaise, StopConfirmed, Transition, StopFails
  <1> QED
    BY <1>1, <1>2, <1>3, <1>4, <1>5, <1>6, <1>7, <1>8, <1>9, <1>10, <1>11, <1>12, <1>13,
       <1>14, <1>15, <1>16 DEF Execute

(* The finally block records an abort whenever it finds the stop flag set.  *)
LEMMA LockKeeps == IInv /\ (Start \/ Refused \/ Exit \/ Record \/ Unlock) => SafetyInv'
  <1> SUFFICES ASSUME IInv /\ (Start \/ Refused \/ Exit \/ Record \/ Unlock) PROVE SafetyInv'
    OBVIOUS
  <1> USE DEF IInv, SafetyInv, LockInv, LifeInv, RequestInv, StoreFailureIsTerminal,
          PublishInv, AcceptedIsPublished, RestInv, PermitInv, StopInv, AcknowledgedInv, TypeInv,
          TypeOK, ArmTypes, AtRest, Admitted, PlanPcs, ExecutePcs, FinallyPcs, Terminal,
          Plannable, record, perception, arm, execution, operator
  <1>1. CASE Start
    BY <1>1, BoundsAssumption DEF Start, OperationLockFree, Recorded, Unrecorded
  <1>2. CASE Refused
    BY <1>2 DEF Refused, OperationLockFree
  <1>3. CASE Exit
    BY <1>3 DEF Exit
  <1>4. CASE Record
    \* a stop that is acknowledged by now has set the flag this step reads
    <2>1. AcknowledgedInv'
      BY <1>4 DEF Record, AbortUnrecorded, Recorded, Unrecorded
    <2>2. StoreFailureIsTerminal'
      BY <1>4 DEF Record, AbortUnrecorded, Recorded, Unrecorded
    <2>3. (LockInv /\ LifeInv /\ RequestInv /\ PublishInv /\ RestInv /\ PermitInv /\
         StopInv)'
      BY <1>4 DEF Record, AbortUnrecorded, Recorded, Unrecorded
    <2> QED
      BY <2>1, <2>2, <2>3
  <1>5. CASE Unlock
    BY <1>5 DEF Unlock, TxStep
  <1> QED
    BY <1>1, <1>2, <1>3, <1>4, <1>5

(* The operator thread sets its evidence in order: flag, latch, transport,  *)
(* acknowledgement, rest, verification.                                     *)
LEMMA RequestKeeps == IInv /\ (Request \/ RequestStep) => SafetyInv'
  <1> SUFFICES ASSUME IInv /\ (Request \/ RequestStep) PROVE SafetyInv'
    OBVIOUS
  <1> USE DEF IInv, SafetyInv, LockInv, LifeInv, RequestInv, StoreFailureIsTerminal,
          PublishInv, AcceptedIsPublished, RestInv, PermitInv, StopInv, AcknowledgedInv, TypeInv,
          TypeOK, PerceptionTypes, ArmTypes, ExecutionTypes, Latching, Recording, Terminal,
          Plannable, RefusesStop, record, perception, arm, execution, transaction, OpStep
  <1>1. CASE Request
    BY <1>1 DEF Request
  <1>2. CASE Flag
    BY <1>2, BoundsAssumption DEF Flag
  <1>3. CASE RequestLatch
    \* the new generation makes every permit and every boundary stale
    <2>1. StopInv'
      BY <1>3, BoundsAssumption DEF RequestLatch, Latch
    <2>2. RestInv'
      BY <1>3, BoundsAssumption DEF RequestLatch, Latch
    <2>3. (LockInv /\ LifeInv /\ RequestInv /\ StoreFailureIsTerminal /\ PublishInv /\
         PermitInv /\ AcknowledgedInv)'
      BY <1>3, BoundsAssumption DEF RequestLatch, Latch
    <2> QED
      BY <2>1, <2>2, <2>3
  <1>4. CASE RequestSend
    \* the controller answers a stop only when no write is in flight
    <2>1. StopInv'
      BY <1>4 DEF RequestSend, StopConfirmed, StopFails, CommandIoLockFree
    <2>2. (LockInv /\ LifeInv /\ RequestInv /\ StoreFailureIsTerminal /\ PublishInv /\
         RestInv /\ PermitInv /\ AcknowledgedInv)'
      BY <1>4 DEF RequestSend, StopConfirmed, StopFails
    <2> QED
      BY <2>1, <2>2
  <1>5. CASE Acknowledge
    \* not while the finally block is between its look at the flag and its release
    <2>1. AcknowledgedInv'
      BY <1>5 DEF Acknowledge, StopRequestLockFree
    <2>2. (LockInv /\ LifeInv /\ RequestInv /\ StoreFailureIsTerminal /\ PublishInv /\
         RestInv /\ PermitInv /\ StopInv)'
      BY <1>5 DEF Acknowledge, StopRequestLockFree
    <2> QED
      BY <2>1, <2>2
  <1>6. CASE RequestSettle
    BY <1>6 DEF RequestSettle, Stationary
  <1>7. CASE Verify
    BY <1>7 DEF Verify, StopRequestLockFree
  <1>8. CASE TryRecord
    BY <1>8 DEF TryRecord
  <1>9. CASE RequestRecord
    BY <1>9 DEF RequestRecord, AbortUnrecorded, Transition, Recorded, Unrecorded
  <1> QED
    BY <1>1, <1>2, <1>3, <1>4, <1>5, <1>6, <1>7, <1>8, <1>9 DEF RequestStep

(* A late watchdog only makes permits and boundaries stale.                 *)
LEMMA EnvironmentKeeps == IInv /\ (DeadlineStop \/ Rest) => SafetyInv'
  <1> SUFFICES ASSUME IInv /\ (DeadlineStop \/ Rest) PROVE SafetyInv'
    OBVIOUS
  <1> USE DEF IInv, SafetyInv, LockInv, LifeInv, RequestInv, StoreFailureIsTerminal,
          PublishInv, AcceptedIsPublished, RestInv, PermitInv, StopInv, AcknowledgedInv, TypeInv,
          TypeOK, PerceptionTypes, ArmTypes, ExecutionTypes, record, perception, execution,
          transaction, operator
  <1>1. CASE DeadlineStop
    BY <1>1, BoundsAssumption DEF DeadlineStop
  <1>2. CASE Rest
    BY <1>2 DEF Rest
  <1> QED
    BY <1>1, <1>2
LEMMA InvStep == IInv /\ [Next]_vars => IInv'
  <1> SUFFICES ASSUME IInv, [Next]_vars PROVE IInv'
    OBVIOUS
  <1>1. TypeInv'
    BY TypeStep DEF IInv
  <1>2. CASE Next
    BY <1>1, <1>2, CaptureKeeps, PlanKeeps, ExecuteKeeps, LockKeeps, RequestKeeps,
       EnvironmentKeeps DEF IInv, Next
  <1>3. CASE UNCHANGED vars
    BY <1>1, <1>3 DEF IInv, SafetyInv, LockInv, LifeInv, RequestInv, StoreFailureIsTerminal,
       PublishInv, AcceptedIsPublished, RestInv, PermitInv, StopInv, AcknowledgedInv, vars,
       record, perception, arm, execution, transaction, operator
  <1> QED
    BY <1>2, <1>3

\* what the theorems below are read off
LEMMA Invariance == Spec => []IInv
  BY InvInit, InvStep, PTL DEF Spec

-----------------------------------------------------------------------------
(* The theorems.                                                            *)

(* Whatever stops, refuses or fails, the sources perception has accepted and *)
(* the map that motion reads differ only inside the publisher.              *)
THEOREM SourcesMatchMap == Spec => []AcceptedIsPublished
  <1>1. IInv => AcceptedIsPublished
    BY DEF IInv, SafetyInv, PublishInv
  <1> QED
    BY <1>1, Invariance, PTL

(* After a stop request has seen the arm stationary it never moves again: no *)
(* approval, no write in flight, no late watchdog.                          *)
THEOREM VerifiedStopHolds == Spec => []VerifiedStopIsFinal
  <1>1. IInv => VerifiedStopIsFinal
    BY DEF IInv, SafetyInv, StopInv, VerifiedStopIsFinal
  <1> QED
    BY <1>1, Invariance, PTL

(* No handler and no later call recovers a coordinator that could not record *)
(* an event.                                                                *)
THEOREM StoreFailureHolds == Spec => []StoreFailureIsTerminal
  <1>1. IInv => StoreFailureIsTerminal
    BY DEF IInv, SafetyInv
  <1> QED
    BY <1>1, Invariance, PTL

(* One of the two threads has recorded an acknowledged stop when both are    *)
(* outside, although the operator never waits for the operation lock.       *)
THEOREM AcknowledgedStopIsRecorded == Spec => []AcknowledgedStopRecorded
  <1>1. IInv => AcknowledgedStopRecorded
    BY DEF IInv, SafetyInv, AcknowledgedInv, AcknowledgedStopRecorded, Recording
  <1> QED
    BY <1>1, Invariance, PTL


-----------------------------------------------------------------------------
(* Every step maps to a step or a stutter.                                   *)

RunStep == [Run!Next]_(Run!vars)

(* A new coordinator is a new run.                                           *)
LEMMA RefinementInit == Init => Run!Init
  BY DEF Init, Run!Init

(* Start begins the run, Swap publishes, Write departs, Rest halts, Flag     *)
(* seals and Verify verifies; a step that records a terminal phase finishes  *)
(* the run (a failed commit seals it as well); every other step is unseen.   *)
LEMMA RefinementStep == IInv /\ [Next]_vars => RunStep
  <1> SUFFICES ASSUME IInv, [Next]_vars PROVE RunStep
    OBVIOUS
  <1> USE DEF RunStep, Run!vars, Run!Next, IInv, SafetyInv, Terminal, CapturePcs, PlanPcs,
     ExecutePcs, FinallyPcs, record, perception, arm, execution, transaction, operator,
     TxStep, TxRaise, Recorded, Unrecorded, Transition
  <1>1. CASE BeginCapture
    BY <1>1 DEF BeginCapture, Capturable, Enter, OperationLockFree
  <1>2. CASE ReuseBoundary
    BY <1>2 DEF ReuseBoundary, OwnsBoundary, CaptureFails, CaptureRaises, Run!Finish,
       LifeInv
  <1>3. CASE CaptureStop
    BY <1>3 DEF CaptureStop, OwnsBoundary, Latch
  <1>4. CASE CaptureSend
    BY <1>4 DEF CaptureSend, StopConfirmed, CaptureFails, CaptureRaises, StopFails,
       Run!Finish, LifeInv
  <1>5. CASE AssertStop
    BY <1>5 DEF AssertStop, CaptureStep, CaptureAborts, CaptureRaises, CaptureFails,
       Run!Finish, LifeInv
  <1>6. CASE CaptureSettle
    BY <1>6 DEF CaptureSettle, Stationary, CaptureStep, CaptureAborts, CaptureRaises,
       CaptureFails, Run!Finish, LifeInv
  <1>7. CASE SettleTimeout
    BY <1>7 DEF SettleTimeout, CaptureFails, CaptureRaises, Run!Finish, LifeInv
  <1>8. CASE CaptureReused
    BY <1>8 DEF CaptureReused, CaptureStep, CaptureAborts, CaptureRaises, CaptureFails,
       Run!Finish, LifeInv
  <1>9. CASE Shoot
    BY <1>9 DEF Shoot, CaptureStep, CaptureAborts, CaptureRaises, CaptureFails,
       Run!Finish, LifeInv
  <1>10. CASE Infer
    BY <1>10 DEF Infer, CaptureStep, CaptureAborts, CaptureRaises, CaptureFails,
       Run!Finish, LifeInv
  <1>11. CASE Finalize
    BY <1>11 DEF Finalize, StopRequestLockFree, CommitDecided, CaptureAborts,
       CaptureRaises, CaptureFails, Run!Finish, LifeInv
  <1>12. CASE Accept
    BY <1>12 DEF Accept, RefusedCommit, CaptureFails, CaptureRaises, Run!Finish, LifeInv
  <1>13. CASE Swap
    BY <1>13 DEF Swap, Run!Publish, LifeInv, PublishInv, RestInv, AtRest
  <1>14. CASE CaptureTail
    BY <1>14 DEF CaptureTail, CaptureAborts, CaptureRaises, Run!Finish, LifeInv
  <1>15. CASE BeginPlan
    BY <1>15 DEF BeginPlan, Plannable, OperationLockFree, PlanFrame, Run!Finish, LifeInv
  <1>16. CASE Select
    BY <1>16 DEF Select, PlanFails, PlanRaises, PlanFrame, Run!Finish, LifeInv
  <1>17. CASE ReadLiveState
    BY <1>17 DEF ReadLiveState, PlanFails, PlanRaises, PlanFrame, Run!Finish, LifeInv
  <1>18. CASE Propose
    BY <1>18 DEF Propose, PlanFails, PlanRaises, PlanFrame, Run!Finish, LifeInv
  <1>19. CASE Preflight
    BY <1>19 DEF Preflight, PlanFails, PlanRaises, PlanFrame, Run!Finish, LifeInv
  <1>20. CASE BeginExecute
    BY <1>20 DEF BeginExecute, Enter, OperationLockFree
  <1>21. CASE Freeze
    BY <1>21 DEF Freeze, ExecuteRaises, Unfreeze, ExecuteFrame
  <1>22. CASE Authorize
    BY <1>22 DEF Authorize, ExecuteRaises, Unfreeze, ExecuteFrame
  <1>23. CASE Approve
    BY <1>23 DEF Approve, RecordedOrRaises, ExecuteRaises, Unfreeze, ExecuteFrame,
       Run!Finish, LifeInv
  <1>24. CASE Admit
    BY <1>24 DEF Admit, PermitCurrent, ExecuteRaises, Unfreeze, ExecuteFrame
  <1>25. CASE Release
    BY <1>25 DEF Release, Releasable, PermitCurrent, ExecuteFrame
  <1>26. CASE CheckWrite
    BY <1>26 DEF CheckWrite, PermitCurrent, ExecuteFrame
  <1>27. CASE Write
    BY <1>27 DEF Write, ExecuteFrame, Run!Depart, LifeInv, StopInv
  <1>28. CASE EndStream
    BY <1>28 DEF EndStream, PermitCurrent, ExecuteFrame
  <1>29. CASE EndLatch
    BY <1>29 DEF EndLatch, Latch, ExecuteFrame
  <1>30. CASE EndSend
    BY <1>30 DEF EndSend, StopConfirmed, StopFails, Unfreeze, ExecuteFrame, Run!Halt
  <1>31. CASE BeginSettling
    BY <1>31 DEF BeginSettling, RecordedOrRaises, ExecuteRaises, Unfreeze, ExecuteFrame,
       Run!Finish, LifeInv
  <1>32. CASE SegmentSettle
    BY <1>32 DEF SegmentSettle, Stationary, ExecuteRaises, Unfreeze, ExecuteFrame
  <1>33. CASE Snapshot
    BY <1>33 DEF Snapshot, ExecuteRaises, Unfreeze, Run!Finish, LifeInv
  <1>34. CASE FailLatch
    BY <1>34 DEF FailLatch, Latch, ExecuteFrame
  <1>35. CASE FailSend
    BY <1>35 DEF FailSend, StopConfirmed, StopFails, Run!Finish, LifeInv
  <1>36. CASE Start
    BY <1>36 DEF Start, OperationLockFree, Run!Begin, LifeInv, RequestInv, TypeInv,
       TypeOK, OperatorTypes
  <1>37. CASE Refused
    BY <1>37 DEF Refused, OperationLockFree
  <1>38. CASE Exit
    BY <1>38 DEF Exit
  <1>39. CASE Record
    BY <1>39 DEF Record, AbortUnrecorded, Run!Finish, LifeInv
  <1>40. CASE Unlock
    BY <1>40 DEF Unlock
  <1>41. CASE Request
    BY <1>41 DEF Request, RefusesStop
  <1>42. CASE Flag
    BY <1>42 DEF Flag, Run!Seal, LifeInv
  <1>43. CASE RequestLatch
    BY <1>43 DEF RequestLatch, OpStep, Latch
  <1>44. CASE RequestSend
    BY <1>44 DEF RequestSend, StopConfirmed, OpStep, StopFails, Run!Halt
  <1>45. CASE Acknowledge
    BY <1>45 DEF Acknowledge, StopRequestLockFree
  <1>46. CASE RequestSettle
    BY <1>46 DEF RequestSettle, OpStep, Stationary
  <1>47. CASE Verify
    BY <1>47 DEF Verify, StopRequestLockFree, Run!Verify, LifeInv, RequestInv, StopInv
  <1>48. CASE TryRecord
    BY <1>48 DEF TryRecord, OpStep
  <1>49. CASE RequestRecord
    BY <1>49 DEF RequestRecord, OpStep, AbortUnrecorded, Run!Finish, LifeInv
  <1>50. CASE DeadlineStop
    BY <1>50 DEF DeadlineStop, Run!Halt
  <1>51. CASE Rest
    BY <1>51 DEF Rest, Run!Halt
  <1>52. CASE UNCHANGED vars
    BY <1>52 DEF vars
  <1> QED
    BY <1>1, <1>2, <1>3, <1>4, <1>5, <1>6, <1>7, <1>8, <1>9, <1>10, <1>11, <1>12, <1>13,
       <1>14, <1>15, <1>16, <1>17, <1>18, <1>19, <1>20, <1>21, <1>22, <1>23, <1>24, <1>25,
       <1>26, <1>27, <1>28, <1>29, <1>30, <1>31, <1>32, <1>33, <1>34, <1>35, <1>36, <1>37,
       <1>38, <1>39, <1>40, <1>41, <1>42, <1>43, <1>44, <1>45, <1>46, <1>47, <1>48, <1>49,
       <1>50, <1>51, <1>52
       DEF Next, Capture, Plan, Execute, RequestStep

(* However stops, failures and late watchdogs interleave with it, a run      *)
(* replaces its map only at rest and not after a stop, except for a commit   *)
(* already decided; it never resumes, and a verified stop ends its motion.   *)
THEOREM Implementation == Spec => ImplementsScanRun
  <1>1. IInv /\ [Next]_vars => [Run!Next]_(Run!vars)
    BY RefinementStep DEF RunStep
  <1> QED
    BY <1>1, RefinementInit, Invariance, PTL DEF Spec, ImplementsScanRun, Run!Spec

=============================================================================
