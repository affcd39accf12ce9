------------------------- MODULE CoarseScienceProofs -------------------------
(***************************************************************************)
(* The inductive invariant of CoarseScience: types, complete publications  *)
(* and the implementation of CoarseLineage, for any number of viewpoints,  *)
(* views and restarts.                                                     *)
(***************************************************************************)
EXTENDS CoarseScience, Sequences, TLAPS

-----------------------------------------------------------------------------
(* The inductive invariant.                                                 *)

\* a process whose run is over: only its end is left
Over == pc = "idle" /\ need = "nothing"

Working == pc \notin {"except", "down"} /\ ~Over

(* The three plan assets are there before anything is published, and the    *)
(* clean-up of a first view counts only what this process has written.      *)
AssetsInv ==
    /\ made # 0 => assets = made /\ made <= 2 /\ pc \in {"initialize", "cleanup"}
    /\ initialized => assets = 3
    /\ pc = "initialize" => ~initialized
    /\ pc \in {"ledger", "generation", "unledger"} => assets = 3

(* The generations that memory and chain name are on the disk; between its  *)
(* ledger and its directory the next one is not.                            *)
GenerationInv ==
    /\ current # 0 => view[current] # None
    /\ checkpoint # 0 => view[checkpoint] # None
    /\ pc \in {"generation", "unledger"} =>
          current < MaxViews /\ current + 1 \in ledgers /\ view[current + 1] = None

(* Memory is ahead of the chain only between a generation and its           *)
(* checkpoint, or when that checkpoint failed and the run is over.          *)
CheckpointInv ==
    /\ pc \in {"settle", "sink"} => current = checkpoint + 1 /\ view[current] = captured
    /\ Working /\ pc \notin {"settle", "sink"} => current = checkpoint

Carried == {"prepared", "initialize", "cleanup", "ledger", "generation", "unledger",
            "settle", "sink"}
Planned == {"bind", "plan", "restage", "rebind"}

(* What is prepared, carried and published is the view being captured,      *)
(* although the stop thread may forget any of it at any time.               *)
TargetInv ==
    /\ pc \in CapturePcs => captured # None
    /\ prepared # None => pc \in CapturePcs \cup {"except"} /\ prepared = captured
    /\ pc = "sink" => prepared = None
    /\ pc \in Carried => mine = captured
    /\ pc \in Planned => mine \in Viewpoints
    /\ pc = "idle" /\ need = "approval" => expected # None

(* A hand-over ends the scan, and is made of all the views there are.       *)
HandoffInv ==
    /\ handed => (pc \in {"handed", "except", "down"} \/ Over) /\ model = checkpoint
    /\ pc \in {"model", "ready", "handoff", "prepare_handoff", "handed"} =>
          current >= MinViews
    /\ pc \in {"ready", "handoff", "prepare_handoff"} => model = current

(* PublishedIsComplete, cell by cell.                                       *)
PublishedInv ==
    /\ \A n \in 1 .. MaxViews : view[n] # None =>
          n \in ledgers /\ assets = 3 /\ \A m \in 1 .. n : view[m] # None
    /\ \A n \in ready : view[n] # None /\ model = n

(* TypeOK, variable by variable.                                            *)
FlagTypes ==
    /\ handed \in BOOLEAN /\ promoted \in BOOLEAN /\ initialized \in BOOLEAN
    /\ foreground \in BOOLEAN /\ readback \in BOOLEAN /\ finished \in BOOLEAN

DataTypes ==
    /\ assets \in 0 .. 3 /\ made \in 0 .. 3
    /\ view \in [1 .. MaxViews -> Targets \cup {None}]
    /\ ledgers \subseteq 1 .. MaxViews /\ ready \subseteq 1 .. MaxViews
    /\ model \in 0 .. MaxViews /\ checkpoint \in 0 .. MaxViews
    /\ current \in 0 .. MaxViews /\ lastCheckpoint \in 0 .. MaxViews
    /\ staged \in Targets \cup {None} /\ prepared \in Targets \cup {None}
    /\ expected \in Targets \cup {None} /\ captured \in Targets \cup {None}
    /\ mine \in Targets \cup {None} /\ pending \in Viewpoints \cup {None}
    /\ due \in {"none", "latest", "older"}
    /\ need \in NeedsOf /\ pc \in Pcs
    /\ stop \in {"no", "session", "adapter", "done"}
    /\ restarts \in 0 .. MaxRestarts

TypeInv == FlagTypes /\ DataTypes

SafetyInv == /\ AssetsInv /\ GenerationInv /\ CheckpointInv /\ TargetInv /\ HandoffInv
             /\ PublishedInv

IInv == TypeInv /\ SafetyInv

(* The first process of an experiment finds an empty disk.                  *)
LEMMA InvInit == Init => IInv
  <1> SUFFICES ASSUME Init PROVE IInv
    OBVIOUS
  <1> USE CoarseAssumption DEF Init, Forgotten
  <1>1. TypeInv
    <2>1. FlagTypes
      BY DEF FlagTypes
    <2>2. DataTypes
      BY DEF DataTypes, Targets, NeedsOf, Pcs
    <2> QED
      BY <2>1, <2>2 DEF TypeInv
  <1>2. AssetsInv /\ GenerationInv /\ CheckpointInv /\ HandoffInv /\ PublishedInv
    BY DEF AssetsInv, GenerationInv, CheckpointInv, HandoffInv, PublishedInv, Working, Over
  <1>3. TargetInv
    BY DEF TargetInv, CapturePcs, Carried, Planned
  <1> QED
    BY <1>1, <1>2, <1>3 DEF IInv, SafetyInv

(* Every step keeps it: what it needs of the types and of each other.       *)
LEMMA InvStep == IInv /\ [Next]_vars => IInv'
  <1> SUFFICES ASSUME IInv, [Next]_vars PROVE IInv'
    OBVIOUS
  <1> USE CoarseAssumption DEF IInv, TypeInv, FlagTypes, DataTypes, SafetyInv, AssetsInv,
          GenerationInv, CheckpointInv, TargetInv, HandoffInv, PublishedInv, Targets,
          Over, Working, Carried, Planned, CapturePcs, Pcs, NeedsOf,
          disk, chainVars, staging, session, adapter, runnerVars, local
  <1>1. CASE StageOperatorCapture
    <2>1. FlagTypes'
      BY <1>1 DEF StageOperatorCapture, Command, Raise, Stageable
    <2>2. DataTypes'
      BY <1>1 DEF StageOperatorCapture, Command, Raise, Stageable
    <2>3. AssetsInv'
      BY <1>1 DEF StageOperatorCapture, Command, Raise, Stageable
    <2>4. GenerationInv'
      BY <1>1 DEF StageOperatorCapture, Command, Raise, Stageable
    <2>5. CheckpointInv'
      BY <1>1 DEF StageOperatorCapture, Command, Raise, Stageable
    <2>6. TargetInv'
      BY <1>1 DEF StageOperatorCapture, Command, Raise, Stageable
    <2>7. HandoffInv'
      BY <1>1 DEF StageOperatorCapture, Command, Raise, Stageable
    <2>8. PublishedInv'
      BY <1>1 DEF StageOperatorCapture, Command, Raise, Stageable
    <2> QED
      BY <2>1, <2>2, <2>3, <2>4, <2>5, <2>6, <2>7, <2>8
  <1>2. CASE Reselect
    BY <1>2 DEF Reselect, Command
  <1>3. CASE SelectNext
    <2>1. FlagTypes'
      BY <1>3 DEF SelectNext, Command, Raise, Stage, Stageable
    <2>2. DataTypes'
      BY <1>3 DEF SelectNext, Command, Raise, Stage, Stageable
    <2>3. AssetsInv'
      BY <1>3 DEF SelectNext, Command, Raise, Stage, Stageable
    <2>4. GenerationInv'
      BY <1>3 DEF SelectNext, Command, Raise, Stage, Stageable
    <2>5. CheckpointInv'
      BY <1>3 DEF SelectNext, Command, Raise, Stage, Stageable
    <2>6. TargetInv'
      BY <1>3 DEF SelectNext, Command, Raise, Stage, Stageable
    <2>7. HandoffInv'
      BY <1>3 DEF SelectNext, Command, Raise, Stage, Stageable
    <2>8. PublishedInv'
      BY <1>3 DEF SelectNext, Command, Raise, Stage, Stageable
    <2> QED
      BY <2>1, <2>2, <2>3, <2>4, <2>5, <2>6, <2>7, <2>8
  <1>4. CASE SelectFails
    BY <1>4 DEF SelectFails, Advance, Command, Raise
  <1>5. CASE Bind
    <2>1. FlagTypes'
      BY <1>5 DEF Bind, Go
    <2>2. DataTypes'
      BY <1>5 DEF Bind, Go
    <2>3. AssetsInv'
      BY <1>5 DEF Bind, Go
    <2>4. GenerationInv'
      BY <1>5 DEF Bind, Go
    <2>5. CheckpointInv'
      BY <1>5 DEF Bind, Go
    <2>6. TargetInv'
      BY <1>5 DEF Bind, Go
    <2>7. HandoffInv'
      BY <1>5 DEF Bind, Go
    <2>8. PublishedInv'
      BY <1>5 DEF Bind, Go
    <2> QED
      BY <2>1, <2>2, <2>3, <2>4, <2>5, <2>6, <2>7, <2>8
  <1>6. CASE PlanFirst
    BY <1>6 DEF PlanFirst, Raise
  <1>7. CASE PlanFallback
    <2>1. FlagTypes'
      BY <1>7 DEF PlanFallback, ForgetStaging
    <2>2. DataTypes'
      BY <1>7 DEF PlanFallback, ForgetStaging
    <2>3. AssetsInv'
      BY <1>7 DEF PlanFallback, ForgetStaging
    <2>4. GenerationInv'
      BY <1>7 DEF PlanFallback, ForgetStaging
    <2>5. CheckpointInv'
      BY <1>7 DEF PlanFallback, ForgetStaging
    <2>6. TargetInv'
      BY <1>7 DEF PlanFallback, ForgetStaging
    <2>7. HandoffInv'
      BY <1>7 DEF PlanFallback, ForgetStaging
    <2>8. PublishedInv'
      BY <1>7 DEF PlanFallback, ForgetStaging
    <2> QED
      BY <2>1, <2>2, <2>3, <2>4, <2>5, <2>6, <2>7, <2>8
  <1>8. CASE Restage
    <2>1. FlagTypes'
      BY <1>8 DEF Restage, Raise, Stage, Stageable
    <2>2. DataTypes'
      BY <1>8 DEF Restage, Raise, Stage, Stageable
    <2>3. AssetsInv'
      BY <1>8 DEF Restage, Raise, Stage, Stageable
    <2>4. GenerationInv'
      BY <1>8 DEF Restage, Raise, Stage, Stageable
    <2>5. CheckpointInv'
      BY <1>8 DEF Restage, Raise, Stage, Stageable
    <2>6. TargetInv'
      BY <1>8 DEF Restage, Raise, Stage, Stageable
    <2>7. HandoffInv'
      BY <1>8 DEF Restage, Raise, Stage, Stageable
    <2>8. PublishedInv'
      BY <1>8 DEF Restage, Raise, Stage, Stageable
    <2> QED
      BY <2>1, <2>2, <2>3, <2>4, <2>5, <2>6, <2>7, <2>8
  <1>9. CASE Rebind
    <2>1. FlagTypes'
      BY <1>9 DEF Rebind, Go
    <2>2. DataTypes'
      BY <1>9 DEF Rebind, Go
    <2>3. AssetsInv'
      BY <1>9 DEF Rebind, Go
    <2>4. GenerationInv'
      BY <1>9 DEF Rebind, Go
    <2>5. CheckpointInv'
      BY <1>9 DEF Rebind, Go
    <2>6. TargetInv'
      BY <1>9 DEF Rebind, Go
    <2>7. HandoffInv'
      BY <1>9 DEF Rebind, Go
    <2>8. PublishedInv'
      BY <1>9 DEF Rebind, Go
    <2> QED
      BY <2>1, <2>2, <2>3, <2>4, <2>5, <2>6, <2>7, <2>8
  <1>10. CASE PlanBlocked
    BY <1>10 DEF PlanBlocked, Advance, Raise
  <1>11. CASE ExecuteCandidate
    BY <1>11 DEF ExecuteCandidate, Command
  <1>12. CASE ExecuteTransit
    BY <1>12 DEF ExecuteTransit, Command
  <1>13. CASE ExecuteFails
    BY <1>13 DEF ExecuteFails, Advance, Command, Raise
  <1>14. CASE SafetyRefresh
    <2>1. FlagTypes'
      BY <1>14 DEF SafetyRefresh, Command, ForgetStaging, Raise, Reject
    <2>2. DataTypes'
      BY <1>14 DEF SafetyRefresh, Command, ForgetStaging, Raise, Reject
    <2>3. AssetsInv'
      BY <1>14 DEF SafetyRefresh, Command, ForgetStaging, Raise, Reject
    <2>4. GenerationInv'
      BY <1>14 DEF SafetyRefresh, Command, ForgetStaging, Raise, Reject
    <2>5. CheckpointInv'
      BY <1>14 DEF SafetyRefresh, Command, ForgetStaging, Raise, Reject
    <2>6. TargetInv'
      BY <1>14 DEF SafetyRefresh, Command, ForgetStaging, Raise, Reject
    <2>7. HandoffInv'
      BY <1>14 DEF SafetyRefresh, Command, ForgetStaging, Raise, Reject
    <2>8. PublishedInv'
      BY <1>14 DEF SafetyRefresh, Command, ForgetStaging, Raise, Reject
    <2> QED
      BY <2>1, <2>2, <2>3, <2>4, <2>5, <2>6, <2>7, <2>8
  <1>15. CASE Preflight
    <2>1. FlagTypes'
      BY <1>15 DEF Preflight, Raise
    <2>2. DataTypes'
      BY <1>15 DEF Preflight, Raise
    <2>3. AssetsInv'
      BY <1>15 DEF Preflight, Raise
    <2>4. GenerationInv'
      BY <1>15 DEF Preflight, Raise
    <2>5. CheckpointInv'
      BY <1>15 DEF Preflight, Raise
    <2>6. TargetInv'
      BY <1>15 DEF Preflight, Raise
    <2>7. HandoffInv'
      BY <1>15 DEF Preflight, Raise
    <2>8. PublishedInv'
      BY <1>15 DEF Preflight, Raise
    <2> QED
      BY <2>1, <2>2, <2>3, <2>4, <2>5, <2>6, <2>7, <2>8
  <1>16. CASE Prepare
    BY <1>16 DEF Prepare, Raise
  <1>17. CASE SetPrepared
    BY <1>17 DEF SetPrepared, Go
  <1>18. CASE Commit
    BY <1>18 DEF Commit, Advance, Raise
  <1>19. CASE Accept
    BY <1>19 DEF Accept, Raise
  <1>20. CASE InitializeNext
    <2>1. FlagTypes'
      BY <1>20 DEF InitializeNext, LastAsset
    <2>2. DataTypes'
      BY <1>20 DEF InitializeNext, LastAsset
    <2>3. AssetsInv'
      BY <1>20 DEF InitializeNext, LastAsset
    <2>4. GenerationInv'
      BY <1>20 DEF InitializeNext, LastAsset
    <2>5. CheckpointInv'
      BY <1>20 DEF InitializeNext, LastAsset
    <2>6. TargetInv'
      BY <1>20 DEF InitializeNext, LastAsset
    <2>7. HandoffInv'
      BY <1>20 DEF InitializeNext, LastAsset
    <2>8. PublishedInv'
      BY <1>20 DEF InitializeNext, LastAsset
    <2> QED
      BY <2>1, <2>2, <2>3, <2>4, <2>5, <2>6, <2>7, <2>8
  <1>21. CASE Cleanup
    BY <1>21 DEF Cleanup, Raise
  <1>22. CASE WriteLedger
    <2>1. FlagTypes'
      BY <1>22 DEF WriteLedger, Raise
    <2>2. DataTypes'
      <3>2. \/ ledgers' = ledgers
            \/ current < MaxViews /\ ledgers' = ledgers \cup {current + 1}
        BY <1>22 DEF WriteLedger
      <3>3. ledgers' \subseteq 1 .. MaxViews
        <4>1. CASE ledgers' = ledgers
          BY <4>1
        <4>2. CASE current < MaxViews /\ ledgers' = ledgers \cup {current + 1}
          <5>1. current + 1 \in 1 .. MaxViews
            BY <4>2
          <5>2. ledgers \subseteq 1 .. MaxViews
            OBVIOUS
          <5> QED
            BY ONLY <4>2, <5>1, <5>2
        <4> QED
          BY ONLY <3>2, <4>1, <4>2
      <3>4. pc' \in Pcs
        BY <1>22 DEF WriteLedger, Raise
      <3> QED
        BY <3>3, <3>4, <1>22 DEF WriteLedger
    <2>3. AssetsInv'
      BY <1>22 DEF WriteLedger, Raise
    <2>4. GenerationInv'
      BY <1>22 DEF WriteLedger, Raise
    <2>5. CheckpointInv'
      BY <1>22 DEF WriteLedger, Raise
    <2>6. TargetInv'
      BY <1>22 DEF WriteLedger, Raise
    <2>7. HandoffInv'
      BY <1>22 DEF WriteLedger, Raise
    <2>8. PublishedInv'
      BY <1>22 DEF WriteLedger, Raise
    <2> QED
      BY <2>1, <2>2, <2>3, <2>4, <2>5, <2>6, <2>7, <2>8
  <1>23. CASE WriteGeneration
    <2>1. FlagTypes'
      BY <1>23 DEF WriteGeneration
    <2>2. DataTypes'
      BY <1>23 DEF WriteGeneration
    <2>3. AssetsInv'
      BY <1>23 DEF WriteGeneration
    <2>4. GenerationInv'
      BY <1>23 DEF WriteGeneration
    <2>5. CheckpointInv'
      BY <1>23 DEF WriteGeneration
    <2>6. TargetInv'
      BY <1>23 DEF WriteGeneration
    <2>7. HandoffInv'
      BY <1>23 DEF WriteGeneration
    <2>8. PublishedInv'
      BY <1>23 DEF WriteGeneration
    <2> QED
      BY <2>1, <2>2, <2>3, <2>4, <2>5, <2>6, <2>7, <2>8
  <1>24. CASE RemoveLedger
    BY <1>24 DEF RemoveLedger, Go
  <1>25. CASE Settle
    <2>1. FlagTypes'
      BY <1>25 DEF Settle, Go
    <2>2. DataTypes'
      BY <1>25 DEF Settle, Go
    <2>3. AssetsInv'
      BY <1>25 DEF Settle, Go
    <2>4. GenerationInv'
      BY <1>25 DEF Settle, Go
    <2>5. CheckpointInv'
      BY <1>25 DEF Settle, Go
    <2>6. TargetInv'
      BY <1>25 DEF Settle, Go
    <2>7. HandoffInv'
      BY <1>25 DEF Settle, Go
    <2>8. PublishedInv'
      BY <1>25 DEF Settle, Go
    <2> QED
      BY <2>1, <2>2, <2>3, <2>4, <2>5, <2>6, <2>7, <2>8
  <1>26. CASE Sink
    <2>1. FlagTypes'
      BY <1>26 DEF Sink, Raise
    <2>2. DataTypes'
      BY <1>26 DEF Sink, Raise
    <2>3. AssetsInv'
      BY <1>26 DEF Sink, Raise
    <2>4. GenerationInv'
      BY <1>26 DEF Sink, Raise
    <2>5. CheckpointInv'
      BY <1>26 DEF Sink, Raise
    <2>6. TargetInv'
      BY <1>26 DEF Sink, Raise
    <2>7. HandoffInv'
      BY <1>26 DEF Sink, Raise
    <2>8. PublishedInv'
      BY <1>26 DEF Sink, Raise
    <2> QED
      BY <2>1, <2>2, <2>3, <2>4, <2>5, <2>6, <2>7, <2>8
  <1>27. CASE TakeReadback
    <2>1. FlagTypes'
      BY <1>27 DEF TakeReadback, Raise
    <2>2. DataTypes'
      BY <1>27 DEF TakeReadback, Raise
    <2>3. AssetsInv'
      BY <1>27 DEF TakeReadback, Raise
    <2>4. GenerationInv'
      BY <1>27 DEF TakeReadback, Raise
    <2>5. CheckpointInv'
      BY <1>27 DEF TakeReadback, Raise
    <2>6. TargetInv'
      BY <1>27 DEF TakeReadback, Raise
    <2>7. HandoffInv'
      BY <1>27 DEF TakeReadback, Raise
    <2>8. PublishedInv'
      BY <1>27 DEF TakeReadback, Raise
    <2> QED
      BY <2>1, <2>2, <2>3, <2>4, <2>5, <2>6, <2>7, <2>8
  <1>28. CASE Observed
    BY <1>28 DEF Observed, Advance, Raise
  <1>29. CASE Promote
    BY <1>29 DEF Promote, Collect, Raise
  <1>30. CASE Evaluate
    BY <1>30 DEF Evaluate, Collect, Raise
  <1>31. CASE BuildModel
    BY <1>31 DEF BuildModel, Collect, Raise, Reusable
  <1>32. CASE WriteReady
    <2>1. FlagTypes'
      BY <1>32 DEF WriteReady, Raise
    <2>2. DataTypes'
      <3>1. current \in 1 .. MaxViews
        BY <1>32 DEF WriteReady
      <3>2. ready' = ready \/ ready' = ready \cup {current}
        BY <1>32 DEF WriteReady
      <3>3. ready' \subseteq 1 .. MaxViews
        BY <3>1, <3>2
      <3>4. due' \in {"none", "latest", "older"} /\ pc' \in Pcs
        BY <1>32 DEF WriteReady, Raise
      <3> QED
        BY <3>3, <3>4, <1>32 DEF WriteReady
    <2>3. AssetsInv'
      BY <1>32 DEF WriteReady, Raise
    <2>4. GenerationInv'
      BY <1>32 DEF WriteReady, Raise
    <2>5. CheckpointInv'
      BY <1>32 DEF WriteReady, Raise
    <2>6. TargetInv'
      BY <1>32 DEF WriteReady, Raise
    <2>7. HandoffInv'
      BY <1>32 DEF WriteReady, Raise
    <2>8. PublishedInv'
      <3>1. view[current] # None /\ model = current
        BY <1>32 DEF WriteReady
      <3>2. ready' = ready \/ ready' = ready \cup {current}
        BY <1>32 DEF WriteReady
      <3>3. \A n \in ready' : view[n] # None /\ model = n
        BY <3>1, <3>2
      <3> QED
        BY <3>3, <1>32 DEF WriteReady
    <2> QED
      BY <2>1, <2>2, <2>3, <2>4, <2>5, <2>6, <2>7, <2>8
  <1>33. CASE Handoff
    BY <1>33 DEF Handoff, Raise
  <1>34. CASE PrepareHandoff
    <2>1. FlagTypes'
      BY <1>34 DEF PrepareHandoff, Raise
    <2>2. DataTypes'
      BY <1>34 DEF PrepareHandoff, Raise
    <2>3. AssetsInv'
      BY <1>34 DEF PrepareHandoff, Raise
    <2>4. GenerationInv'
      BY <1>34 DEF PrepareHandoff, Raise
    <2>5. CheckpointInv'
      BY <1>34 DEF PrepareHandoff, Raise
    <2>6. TargetInv'
      BY <1>34 DEF PrepareHandoff, Raise
    <2>7. HandoffInv'
      BY <1>34 DEF PrepareHandoff, Raise
    <2>8. PublishedInv'
      BY <1>34 DEF PrepareHandoff, Raise
    <2> QED
      BY <2>1, <2>2, <2>3, <2>4, <2>5, <2>6, <2>7, <2>8
  <1>35. CASE Except
    <2>1. FlagTypes'
      BY <1>35 DEF Except, ForgetStaging, Go, Reject
    <2>2. DataTypes'
      BY <1>35 DEF Except, ForgetStaging, Go, Reject
    <2>3. AssetsInv'
      BY <1>35 DEF Except, ForgetStaging, Go, Reject
    <2>4. GenerationInv'
      BY <1>35 DEF Except, ForgetStaging, Go, Reject
    <2>5. CheckpointInv'
      BY <1>35 DEF Except, ForgetStaging, Go, Reject
    <2>6. TargetInv'
      BY <1>35 DEF Except, ForgetStaging, Go, Reject
    <2>7. HandoffInv'
      BY <1>35 DEF Except, ForgetStaging, Go, Reject
    <2>8. PublishedInv'
      BY <1>35 DEF Except, ForgetStaging, Go, Reject
    <2> QED
      BY <2>1, <2>2, <2>3, <2>4, <2>5, <2>6, <2>7, <2>8
  <1>36. CASE RequestStop
    <2>1. FlagTypes'
      BY <1>36 DEF RequestStop, ForgetStaging, StopStep
    <2>2. DataTypes'
      BY <1>36 DEF RequestStop, ForgetStaging, StopStep
    <2>3. AssetsInv'
      BY <1>36 DEF RequestStop, ForgetStaging, StopStep
    <2>4. GenerationInv'
      BY <1>36 DEF RequestStop, ForgetStaging, StopStep
    <2>5. CheckpointInv'
      BY <1>36 DEF RequestStop, ForgetStaging, StopStep
    <2>6. TargetInv'
      BY <1>36 DEF RequestStop, ForgetStaging, StopStep
    <2>7. HandoffInv'
      BY <1>36 DEF RequestStop, ForgetStaging, StopStep
    <2>8. PublishedInv'
      BY <1>36 DEF RequestStop, ForgetStaging, StopStep
    <2> QED
      BY <2>1, <2>2, <2>3, <2>4, <2>5, <2>6, <2>7, <2>8
  <1>37. CASE Crash
    <2>1. FlagTypes'
      BY <1>37 DEF Crash
    <2>2. DataTypes'
      BY <1>37 DEF Crash
    <2>3. AssetsInv'
      BY <1>37 DEF Crash
    <2>4. GenerationInv'
      BY <1>37 DEF Crash
    <2>5. CheckpointInv'
      BY <1>37 DEF Crash
    <2>6. TargetInv'
      BY <1>37 DEF Crash
    <2>7. HandoffInv'
      BY <1>37 DEF Crash
    <2>8. PublishedInv'
      BY <1>37 DEF Crash
    <2> QED
      BY <2>1, <2>2, <2>3, <2>4, <2>5, <2>6, <2>7, <2>8
  <1>38. CASE Resume
    BY <1>38 DEF Resume, Go, RecoveredGeneration
  <1>39. CASE UNCHANGED vars
    BY <1>39 DEF vars
  <1> QED
    BY <1>1, <1>2, <1>3, <1>4, <1>5, <1>6, <1>7, <1>8, <1>9, <1>10, <1>11, <1>12, <1>13,
       <1>14, <1>15, <1>16, <1>17, <1>18, <1>19, <1>20, <1>21, <1>22, <1>23, <1>24, <1>25,
       <1>26, <1>27, <1>28, <1>29, <1>30, <1>31, <1>32, <1>33, <1>34, <1>35, <1>36, <1>37,
       <1>38, <1>39
       DEF Next, Stages, Captures, Accepts, Promotes

(* The inductive invariant holds of every reachable state.                  *)
THEOREM Invariance == Spec => []IInv
  <1> QED
    BY InvInit, InvStep, PTL DEF Spec

(* The two ways of stating the types agree.                                *)
LEMMA TypeInvTypeOK == TypeInv => TypeOK
  <1> SUFFICES ASSUME TypeInv PROVE TypeOK
    OBVIOUS
  <1> QED
    BY DEF TypeInv, FlagTypes, DataTypes, TypeOK

(* So do the two ways of stating complete publications.                     *)
LEMMA PublishedInvComplete == TypeInv /\ PublishedInv => PublishedIsComplete
  <1> SUFFICES ASSUME TypeInv, PublishedInv PROVE PublishedIsComplete
    OBVIOUS
  <1>1. DOMAIN view = 1 .. MaxViews /\ ready \subseteq 1 .. MaxViews
    BY DEF TypeInv, DataTypes
  <1>2. Published = {n \in 1 .. MaxViews : view[n] # None}
    BY <1>1 DEF Published
  <1>3. ASSUME NEW n \in Published
        PROVE  n \in ledgers /\ 1 .. n \subseteq Published /\ assets = 3
    <2>1. n \in 1 .. MaxViews /\ view[n] # None
      BY <1>2
    <2>2. n \in ledgers /\ assets = 3 /\ \A m \in 1 .. n : view[m] # None
      BY <2>1 DEF PublishedInv
    <2>3. 1 .. n \subseteq 1 .. MaxViews
      BY <2>1, CoarseAssumption
    <2> QED
      BY <1>2, <2>2, <2>3
  <1>4. ASSUME NEW n \in ready
        PROVE  n \in Published /\ model = n
    BY <1>1, <1>2 DEF PublishedInv
  <1> QED
    BY <1>3, <1>4 DEF PublishedIsComplete

(* Type correctness: the coarse session, its adapter, the disk and the      *)
(* chain keep their types.                                                  *)
THEOREM TypeCorrect == Spec => []TypeOK
  <1>1. IInv => TypeOK
    BY TypeInvTypeOK DEF IInv
  <1> QED
    BY <1>1, Invariance, PTL

(* Whatever fails, stops or dies between two writes of                      *)
(* write_coarse_scan_generation and write_coverage_ledger: a generation on  *)
(* the disk has its ledger, its predecessors and the three plan assets, and *)
(* a schema-5 successor its generation and a model of exactly its views.    *)
THEOREM PublicationsComplete == Spec => []PublishedIsComplete
  <1>1. IInv => PublishedIsComplete
    BY PublishedInvComplete DEF IInv, SafetyInv
  <1> QED
    BY <1>1, Invariance, PTL

-----------------------------------------------------------------------------
(* The mapping of CoarseScience!Lineage, part by part.                       *)

\* the first k views on a disk
Views(v, k) == [n \in 1 .. k |-> v[n]]

lineage == Views(view, checkpoint)
capturing == IF pc \in CapturePcs THEN captured ELSE None
reference == Views(view, IF handed THEN model ELSE 0)

MappingUnchanged ==
    lineage' = lineage /\ capturing' = capturing /\ reference' = reference

MapsToCapture ==
    /\ reference = <<>> /\ capturing = None /\ capturing' \in Targets
    /\ lineage' = lineage /\ reference' = reference

MapsToAccept ==
    /\ capturing # None /\ lineage' = Append(lineage, capturing) /\ capturing' = None
    /\ reference' = reference

MapsToAbandon ==
    /\ capturing # None /\ capturing' = None
    /\ lineage' = lineage /\ reference' = reference

MapsToHandOver ==
    /\ reference = <<>> /\ capturing = None /\ Len(lineage) >= MinViews
    /\ reference' = lineage /\ lineage' = lineage /\ capturing' = capturing

LineageStep == [Lineage!Next]_(Lineage!vars)

(* Each of the five is a step, or a stutter, of CoarseLineage.               *)
LEMMA MappedSteps ==
  ASSUME MappingUnchanged \/ MapsToCapture \/ MapsToAccept \/ MapsToAbandon
         \/ MapsToHandOver
  PROVE  LineageStep
  <1> USE DEF LineageStep, Lineage!vars, lineage, capturing, reference, Views
  <1>1. CASE MappingUnchanged
    BY <1>1 DEF MappingUnchanged
  <1>2. CASE MapsToCapture
    BY <1>2 DEF MapsToCapture, Lineage!Next, Lineage!Capture
  <1>3. CASE MapsToAccept
    BY <1>3 DEF MapsToAccept, Lineage!Next, Lineage!Accept
  <1>4. CASE MapsToAbandon
    BY <1>4 DEF MapsToAbandon, Lineage!Next, Lineage!Abandon
  <1>5. CASE MapsToHandOver
    BY <1>5 DEF MapsToHandOver, Lineage!Next, Lineage!HandOver
  <1> QED
    BY <1>1, <1>2, <1>3, <1>4, <1>5

-----------------------------------------------------------------------------
(* Facts about the views of a disk.                                          *)

(* No views are the empty sequence.                                         *)
LEMMA NoViews == ASSUME NEW v PROVE Views(v, 0) = <<>>
  BY DEF Views

(* The first k views are a sequence of length k.                             *)
LEMMA ViewsSeq ==
  ASSUME NEW v, NEW S, NEW k \in Nat, \A n \in 1 .. k : v[n] \in S
  PROVE  Views(v, k) \in Seq(S) /\ Len(Views(v, k)) = k
  BY DEF Views

(* One more view is appended to those before it.                             *)
LEMMA ViewsAppend ==
  ASSUME NEW v, NEW S, NEW k \in Nat, \A n \in 1 .. (k + 1) : v[n] \in S
  PROVE  Views(v, k + 1) = Append(Views(v, k), v[k + 1])
  <1>1. Views(v, k) \in Seq(S) /\ Len(Views(v, k)) = k
    BY ViewsSeq
  <1> QED
    BY <1>1 DEF Views

(* Only the first k views matter.                                            *)
LEMMA ViewsSame ==
  ASSUME NEW v, NEW w, NEW k \in Nat, \A n \in 1 .. k : v[n] = w[n]
  PROVE  Views(v, k) = Views(w, k)
  BY DEF Views

-----------------------------------------------------------------------------
(* Initial states and steps.                                                 *)

LEMMA RefinementInit == Init => Lineage!Init
  <1> SUFFICES ASSUME Init PROVE Lineage!Init
    OBVIOUS
  <1>1. lineage = <<>> /\ reference = <<>>
    BY NoViews DEF Init, Forgotten, lineage, reference
  <1>2. capturing = None
    BY DEF Init, Forgotten, capturing, CapturePcs
  <1> QED
    BY <1>1, <1>2 DEF Lineage!Init, lineage, capturing, reference, Views

(* A capture begins when it is staged for the operator or a candidate is     *)
(* executed, is accepted by the checkpoint of its view, and is abandoned by  *)
(* everything that ends it otherwise; handoff_prepared hands over.           *)
LEMMA RefinementStep == IInv /\ [Next]_vars => LineageStep
  <1> SUFFICES ASSUME IInv, [Next]_vars PROVE LineageStep
    OBVIOUS
  <1> USE CoarseAssumption
  <1>a. ~handed => reference = <<>>
    BY NoViews DEF reference
  <1>b. pc \notin {"handed", "except", "down", "idle"} => ~handed
    BY DEF IInv, SafetyInv, HandoffInv, Over
  <1>c. pc = "idle" /\ need # "nothing" => ~handed
    BY DEF IInv, SafetyInv, HandoffInv, Over
  <1>d. \A n \in 1 .. MaxViews : view[n] \in Targets \cup {None}
    BY DEF IInv, TypeInv, DataTypes
  <1>e. pc \in CapturePcs => capturing # None
    BY DEF IInv, SafetyInv, TargetInv, capturing
  <1>1. CASE StageOperatorCapture
    <2>1. capturing = None /\ UNCHANGED <<view, checkpoint, handed, model>>
      BY <1>1 DEF StageOperatorCapture, Command, capturing, CapturePcs, disk, chainVars
    <2>2. lineage' = lineage /\ reference' = reference /\ reference = <<>>
      BY <1>1, <2>1, <1>a, <1>c DEF StageOperatorCapture, Command, lineage, reference
    <2>3. capturing' = capturing \/ capturing' \in Targets
      BY <1>1 DEF StageOperatorCapture, Command, Raise, capturing, CapturePcs, Targets
    <2> QED
      BY <2>1, <2>2, <2>3, MappedSteps DEF MapsToCapture, MappingUnchanged
  <1>2. CASE Reselect
    <2>1. UNCHANGED <<view, checkpoint, handed, model>>
      BY <1>2 DEF Reselect, Command, disk, chainVars
    <2>2. lineage' = lineage /\ reference' = reference
      BY <2>1 DEF lineage, reference
    <2>3. capturing' = capturing
      BY <1>2 DEF Reselect, Command, runnerVars, capturing, CapturePcs
    <2> QED
      BY <2>2, <2>3, MappedSteps DEF MappingUnchanged
  <1>3. CASE SelectNext
    <2>1. UNCHANGED <<view, checkpoint, handed, model>>
      BY <1>3 DEF SelectNext, Command, Raise, Stage, disk, chainVars
    <2>2. lineage' = lineage /\ reference' = reference
      BY <2>1 DEF lineage, reference
    <2>3. capturing' = capturing
      BY <1>3 DEF SelectNext, Command, Raise, Stage, runnerVars, capturing, CapturePcs
    <2> QED
      BY <2>2, <2>3, MappedSteps DEF MappingUnchanged
  <1>4. CASE SelectFails
    <2>1. UNCHANGED <<view, checkpoint, handed, model>>
      BY <1>4 DEF SelectFails, Advance, Command, Raise, disk, chainVars
    <2>2. lineage' = lineage /\ reference' = reference
      BY <2>1 DEF lineage, reference
    <2>3. capturing' = capturing
      BY <1>4 DEF SelectFails, Advance, Command, Raise, capturing, CapturePcs
    <2> QED
      BY <2>2, <2>3, MappedSteps DEF MappingUnchanged
  <1>5. CASE Bind
    <2>1. UNCHANGED <<view, checkpoint, handed, model>>
      BY <1>5 DEF Bind, Go, disk, chainVars
    <2>2. lineage' = lineage /\ reference' = reference
      BY <2>1 DEF lineage, reference
    <2>3. capturing' = capturing
      BY <1>5 DEF Bind, Go, runnerVars, capturing, CapturePcs
    <2> QED
      BY <2>2, <2>3, MappedSteps DEF MappingUnchanged
  <1>6. CASE PlanFirst
    <2>1. UNCHANGED <<view, checkpoint, handed, model>>
      BY <1>6 DEF PlanFirst, Raise, disk, chainVars
    <2>2. lineage' = lineage /\ reference' = reference
      BY <2>1 DEF lineage, reference
    <2>3. capturing' = capturing
      BY <1>6 DEF PlanFirst, Raise, capturing, CapturePcs
    <2> QED
      BY <2>2, <2>3, MappedSteps DEF MappingUnchanged
  <1>7. CASE PlanFallback
    <2>1. UNCHANGED <<view, checkpoint, handed, model>>
      BY <1>7 DEF PlanFallback, ForgetStaging, disk, chainVars
    <2>2. lineage' = lineage /\ reference' = reference
      BY <2>1 DEF lineage, reference
    <2>3. capturing' = capturing
      BY <1>7 DEF PlanFallback, runnerVars, capturing, CapturePcs
    <2> QED
      BY <2>2, <2>3, MappedSteps DEF MappingUnchanged
  <1>8. CASE Restage
    <2>1. UNCHANGED <<view, checkpoint, handed, model>>
      BY <1>8 DEF Restage, Raise, Stage, disk, chainVars
    <2>2. lineage' = lineage /\ reference' = reference
      BY <2>1 DEF lineage, reference
    <2>3. capturing' = capturing
      BY <1>8 DEF Restage, Raise, Stage, runnerVars, capturing, CapturePcs
    <2> QED
      BY <2>2, <2>3, MappedSteps DEF MappingUnchanged
  <1>9. CASE Rebind
    <2>1. UNCHANGED <<view, checkpoint, handed, model>>
      BY <1>9 DEF Rebind, Go, disk, chainVars
    <2>2. lineage' = lineage /\ reference' = reference
      BY <2>1 DEF lineage, reference
    <2>3. capturing' = capturing
      BY <1>9 DEF Rebind, Go, capturing, CapturePcs
    <2> QED
      BY <2>2, <2>3, MappedSteps DEF MappingUnchanged
  <1>10. CASE PlanBlocked
    <2>1. UNCHANGED <<view, checkpoint, handed, model>>
      BY <1>10 DEF PlanBlocked, Advance, Raise, disk, chainVars
    <2>2. lineage' = lineage /\ reference' = reference
      BY <2>1 DEF lineage, reference
    <2>3. capturing' = capturing
      BY <1>10 DEF PlanBlocked, Advance, Raise, capturing, CapturePcs
    <2> QED
      BY <2>2, <2>3, MappedSteps DEF MappingUnchanged
  <1>11. CASE ExecuteCandidate
    <2>1. capturing = None /\ UNCHANGED <<view, checkpoint, handed, model>>
      BY <1>11 DEF ExecuteCandidate, Command, capturing, CapturePcs, disk, chainVars
    <2>2. lineage' = lineage /\ reference' = reference /\ reference = <<>>
      BY <1>11, <2>1, <1>a, <1>c DEF ExecuteCandidate, Command, lineage, reference
    <2>3. capturing' \in Targets
      BY <1>11 DEF ExecuteCandidate, Command, capturing, CapturePcs, IInv, SafetyInv,
         TargetInv, TypeInv, DataTypes
    <2> QED
      BY <2>1, <2>2, <2>3, MappedSteps DEF MapsToCapture
  <1>12. CASE ExecuteTransit
    <2>1. UNCHANGED <<view, checkpoint, handed, model>>
      BY <1>12 DEF ExecuteTransit, Command, disk, chainVars
    <2>2. lineage' = lineage /\ reference' = reference
      BY <2>1 DEF lineage, reference
    <2>3. capturing' = capturing
      BY <1>12 DEF ExecuteTransit, Command, capturing, CapturePcs
    <2> QED
      BY <2>2, <2>3, MappedSteps DEF MappingUnchanged
  <1>13. CASE ExecuteFails
    <2>1. UNCHANGED <<view, checkpoint, handed, model>>
      BY <1>13 DEF ExecuteFails, Advance, Command, Raise, disk, chainVars
    <2>2. lineage' = lineage /\ reference' = reference
      BY <2>1 DEF lineage, reference
    <2>3. capturing' = capturing
      BY <1>13 DEF ExecuteFails, Advance, Command, Raise, capturing, CapturePcs
    <2> QED
      BY <2>2, <2>3, MappedSteps DEF MappingUnchanged
  <1>14. CASE SafetyRefresh
    <2>1. UNCHANGED <<view, checkpoint, handed, model>>
      BY <1>14 DEF SafetyRefresh, Command, ForgetStaging, Raise, Reject, disk, chainVars
    <2>2. lineage' = lineage /\ reference' = reference
      BY <2>1 DEF lineage, reference
    <2>3. capturing' = capturing
      BY <1>14 DEF SafetyRefresh, Command, Raise, capturing, CapturePcs
    <2> QED
      BY <2>2, <2>3, MappedSteps DEF MappingUnchanged
  <1>15. CASE Preflight
    <2>1. UNCHANGED <<view, checkpoint, handed, model>>
      BY <1>15 DEF Preflight, Raise, disk, chainVars
    <2>2. lineage' = lineage /\ reference' = reference
      BY <2>1 DEF lineage, reference
    <2>3. capturing' = capturing \/ (capturing' = None /\ capturing # None)
      BY <1>15, <1>e DEF Preflight, Raise, runnerVars, capturing, CapturePcs
    <2> QED
      BY <2>2, <2>3, MappedSteps DEF MapsToAbandon, MappingUnchanged
  <1>16. CASE Prepare
    <2>1. UNCHANGED <<view, checkpoint, handed, model>>
      BY <1>16 DEF Prepare, Raise, disk, chainVars
    <2>2. lineage' = lineage /\ reference' = reference
      BY <2>1 DEF lineage, reference
    <2>3. capturing' = capturing \/ (capturing' = None /\ capturing # None)
      BY <1>16, <1>e DEF Prepare, Raise, runnerVars, capturing, CapturePcs
    <2> QED
      BY <2>2, <2>3, MappedSteps DEF MapsToAbandon, MappingUnchanged
  <1>17. CASE SetPrepared
    <2>1. UNCHANGED <<view, checkpoint, handed, model>>
      BY <1>17 DEF SetPrepared, Go, disk, chainVars
    <2>2. lineage' = lineage /\ reference' = reference
      BY <2>1 DEF lineage, reference
    <2>3. capturing' = capturing
      BY <1>17 DEF SetPrepared, Go, runnerVars, capturing, CapturePcs
    <2> QED
      BY <2>2, <2>3, MappedSteps DEF MappingUnchanged
  <1>18. CASE Commit
    <2>1. UNCHANGED <<view, checkpoint, handed, model>>
      BY <1>18 DEF Commit, Advance, Raise, disk, chainVars
    <2>2. lineage' = lineage /\ reference' = reference
      BY <2>1 DEF lineage, reference
    <2>3. capturing' = capturing \/ (capturing' = None /\ capturing # None)
      BY <1>18, <1>e DEF Commit, Advance, Raise, capturing, CapturePcs
    <2> QED
      BY <2>2, <2>3, MappedSteps DEF MapsToAbandon, MappingUnchanged
  <1>19. CASE Accept
    <2>1. UNCHANGED <<view, checkpoint, handed, model>>
      BY <1>19 DEF Accept, Raise, disk, chainVars
    <2>2. lineage' = lineage /\ reference' = reference
      BY <2>1 DEF lineage, reference
    <2>3. capturing' = capturing \/ (capturing' = None /\ capturing # None)
      BY <1>19, <1>e DEF Accept, Raise, runnerVars, capturing, CapturePcs
    <2> QED
      BY <2>2, <2>3, MappedSteps DEF MapsToAbandon, MappingUnchanged
  <1>20. CASE InitializeNext
    <2>1. UNCHANGED <<view, checkpoint, handed, model>>
      BY <1>20 DEF InitializeNext, chainVars
    <2>2. lineage' = lineage /\ reference' = reference
      BY <2>1 DEF lineage, reference
    <2>3. capturing' = capturing
      BY <1>20 DEF InitializeNext, runnerVars, capturing, CapturePcs
    <2> QED
      BY <2>2, <2>3, MappedSteps DEF MappingUnchanged
  <1>21. CASE Cleanup
    <2>1. UNCHANGED <<view, checkpoint, handed, model>>
      BY <1>21 DEF Cleanup, Raise, chainVars
    <2>2. lineage' = lineage /\ reference' = reference
      BY <2>1 DEF lineage, reference
    <2>3. capturing' = capturing \/ (capturing' = None /\ capturing # None)
      BY <1>21, <1>e DEF Cleanup, Raise, runnerVars, capturing, CapturePcs
    <2> QED
      BY <2>2, <2>3, MappedSteps DEF MapsToAbandon, MappingUnchanged
  <1>22. CASE WriteLedger
    <2>1. UNCHANGED <<view, checkpoint, handed, model>>
      BY <1>22 DEF WriteLedger, Raise, chainVars
    <2>2. lineage' = lineage /\ reference' = reference
      BY <2>1 DEF lineage, reference
    <2>3. capturing' = capturing \/ (capturing' = None /\ capturing # None)
      BY <1>22, <1>e DEF WriteLedger, Raise, runnerVars, capturing, CapturePcs
    <2> QED
      BY <2>2, <2>3, MappedSteps DEF MapsToAbandon, MappingUnchanged
  <1>23. CASE WriteGeneration
    <2>1. ~handed /\ pc \in CapturePcs /\ pc' \in CapturePcs
      BY <1>23, <1>b DEF WriteGeneration, CapturePcs
    <2>2. UNCHANGED <<checkpoint, handed, model, captured>>
      BY <1>23 DEF WriteGeneration, chainVars, runnerVars
    <2>3. capturing' = capturing
      BY <2>1, <2>2 DEF capturing
    <2>4. reference' = reference
      BY <2>1, <2>2, NoViews DEF reference
    <2>5. current = checkpoint /\ current \in Nat /\ current < MaxViews
      BY <1>23 DEF WriteGeneration, IInv, SafetyInv, CheckpointInv, GenerationInv, Working,
         Over, TypeInv, DataTypes
    <2>6. view' = view \/ view' = [view EXCEPT ![checkpoint + 1] = mine]
      BY <1>23, <2>5 DEF WriteGeneration
    <2>7. view \in [1 .. MaxViews -> Targets \cup {None}]
      BY DEF IInv, TypeInv, DataTypes
    <2>8. \A n \in 1 .. checkpoint : view'[n] = view[n]
      BY <2>5, <2>6, <2>7
    <2>9. lineage' = lineage
      <3>1. checkpoint \in Nat
        BY <2>5
      <3>2. Views(view', checkpoint) = Views(view, checkpoint)
        BY ONLY <2>8, <3>1, ViewsSame
      <3> QED
        BY <2>2, <3>2 DEF lineage
    <2> QED
      BY <2>3, <2>4, <2>9, MappedSteps DEF MappingUnchanged
  <1>24. CASE RemoveLedger
    <2>1. UNCHANGED <<view, checkpoint, handed, model>>
      BY <1>24 DEF RemoveLedger, Go, chainVars
    <2>2. lineage' = lineage /\ reference' = reference
      BY <2>1 DEF lineage, reference
    <2>3. capturing' = capturing \/ (capturing' = None /\ capturing # None)
      BY <1>24, <1>e DEF RemoveLedger, Go, runnerVars, capturing, CapturePcs
    <2> QED
      BY <2>2, <2>3, MappedSteps DEF MapsToAbandon, MappingUnchanged
  <1>25. CASE Settle
    <2>1. UNCHANGED <<view, checkpoint, handed, model>>
      BY <1>25 DEF Settle, Go, disk, chainVars
    <2>2. lineage' = lineage /\ reference' = reference
      BY <2>1 DEF lineage, reference
    <2>3. capturing' = capturing
      BY <1>25 DEF Settle, Go, runnerVars, capturing, CapturePcs
    <2> QED
      BY <2>2, <2>3, MappedSteps DEF MappingUnchanged
  <1>26. CASE Sink
    <2>1. ~handed /\ pc \in CapturePcs /\ pc' \notin CapturePcs
      BY <1>26, <1>b DEF Sink, Raise, CapturePcs
    <2>2. UNCHANGED <<view, handed, model>>
      BY <1>26 DEF Sink, disk
    <2>3. reference' = reference
      BY <2>1, <2>2, NoViews DEF reference
    <2>4. capturing # None /\ capturing = captured /\ capturing' = None
      BY <2>1, <1>e DEF capturing
    <2>5. /\ current = checkpoint + 1 /\ view[current] = captured
          /\ checkpoint \in Nat /\ current \in 1 .. MaxViews
      BY <1>26 DEF Sink, IInv, SafetyInv, CheckpointInv, TypeInv, DataTypes
    <2>6. \A n \in 1 .. (checkpoint + 1) : view[n] \in Targets \cup {None}
      BY <2>5, <1>d
    <2>7. Views(view, checkpoint + 1) = Append(Views(view, checkpoint), captured)
      BY <2>5, <2>6, ViewsAppend
    <2>8. checkpoint' = checkpoint + 1 \/ checkpoint' = checkpoint
      BY <1>26, <2>5 DEF Sink
    <2>9. lineage' = Append(lineage, capturing) \/ lineage' = lineage
      BY <2>2, <2>4, <2>7, <2>8 DEF lineage
    <2> QED
      BY <2>3, <2>4, <2>9, MappedSteps DEF MapsToAccept, MapsToAbandon
  <1>27. CASE TakeReadback
    <2>1. UNCHANGED <<view, checkpoint, handed, model>>
      BY <1>27 DEF TakeReadback, Raise, disk, chainVars
    <2>2. lineage' = lineage /\ reference' = reference
      BY <2>1 DEF lineage, reference
    <2>3. capturing' = capturing
      BY <1>27 DEF TakeReadback, Raise, runnerVars, capturing, CapturePcs
    <2> QED
      BY <2>2, <2>3, MappedSteps DEF MappingUnchanged
  <1>28. CASE Observed
    <2>1. UNCHANGED <<view, checkpoint, handed, model>>
      BY <1>28 DEF Observed, Advance, Raise, disk, chainVars
    <2>2. lineage' = lineage /\ reference' = reference
      BY <2>1 DEF lineage, reference
    <2>3. capturing' = capturing
      BY <1>28 DEF Observed, Advance, Raise, capturing, CapturePcs
    <2> QED
      BY <2>2, <2>3, MappedSteps DEF MappingUnchanged
  <1>29. CASE Promote
    <2>1. UNCHANGED <<view, checkpoint, handed, model>>
      BY <1>29 DEF Promote, Collect, Raise, disk, chainVars
    <2>2. lineage' = lineage /\ reference' = reference
      BY <2>1 DEF lineage, reference
    <2>3. capturing' = capturing
      BY <1>29 DEF Promote, Collect, Raise, capturing, CapturePcs
    <2> QED
      BY <2>2, <2>3, MappedSteps DEF MappingUnchanged
  <1>30. CASE Evaluate
    <2>1. UNCHANGED <<view, checkpoint, handed, model>>
      BY <1>30 DEF Evaluate, Collect, Raise, disk, chainVars
    <2>2. lineage' = lineage /\ reference' = reference
      BY <2>1 DEF lineage, reference
    <2>3. capturing' = capturing
      BY <1>30 DEF Evaluate, Collect, Raise, capturing, CapturePcs
    <2> QED
      BY <2>2, <2>3, MappedSteps DEF MappingUnchanged
  <1>31. CASE BuildModel
    <2>1. UNCHANGED <<view, checkpoint, handed>> /\ ~handed
      BY <1>31, <1>b DEF BuildModel, Collect, Raise, chainVars
    <2>2. lineage' = lineage /\ reference' = reference
      BY <2>1 DEF lineage, reference
    <2>3. capturing' = capturing
      BY <1>31 DEF BuildModel, Collect, Raise, capturing, CapturePcs
    <2> QED
      BY <2>2, <2>3, MappedSteps DEF MappingUnchanged
  <1>32. CASE WriteReady
    <2>1. UNCHANGED <<view, checkpoint, handed, model>>
      BY <1>32 DEF WriteReady, Raise, chainVars
    <2>2. lineage' = lineage /\ reference' = reference
      BY <2>1 DEF lineage, reference
    <2>3. capturing' = capturing
      BY <1>32 DEF WriteReady, Raise, runnerVars, capturing, CapturePcs
    <2> QED
      BY <2>2, <2>3, MappedSteps DEF MappingUnchanged
  <1>33. CASE Handoff
    <2>1. checkpoint' = checkpoint
      BY <1>33 DEF Handoff, IInv, SafetyInv, CheckpointInv, Working, Over
    <2>2. UNCHANGED <<view, handed, model>> /\ pc \notin CapturePcs /\ pc' \notin CapturePcs
      BY <1>33 DEF Handoff, Raise, disk, CapturePcs
    <2> QED
      BY <2>1, <2>2, MappedSteps DEF MappingUnchanged, lineage, capturing, reference
  <1>34. CASE PrepareHandoff
    <2>1. ~handed /\ pc \notin CapturePcs /\ pc' \notin CapturePcs
      BY <1>34, <1>b DEF PrepareHandoff, Raise, CapturePcs
    <2>2. UNCHANGED <<view, checkpoint, model>> /\ handed' \in BOOLEAN
      BY <1>34 DEF PrepareHandoff, disk
    <2>3. capturing = None /\ capturing' = None /\ lineage' = lineage /\ reference = <<>>
      BY <2>1, <2>2, <1>a DEF capturing, lineage
    <2>4. /\ checkpoint = current /\ model = current /\ current >= MinViews
          /\ checkpoint \in 0 .. MaxViews
      BY <1>34 DEF PrepareHandoff, IInv, SafetyInv, CheckpointInv, HandoffInv, Working, Over,
         TypeInv, DataTypes
    <2>5. Len(lineage) = checkpoint
      <3> DEFINE S == Targets \cup {None}
      <3>1. checkpoint \in Nat /\ \A n \in 1 .. checkpoint : view[n] \in S
        BY <2>4, <1>d
      <3> HIDE DEF S
      <3> QED
        BY ONLY <3>1, ViewsSeq DEF lineage
    <2>6. reference' = lineage \/ reference' = reference
      BY <2>1, <2>2, <2>4 DEF reference, lineage
    <2> QED
      BY <2>3, <2>4, <2>5, <2>6, MappedSteps DEF MapsToHandOver, MappingUnchanged
  <1>35. CASE Except
    <2>1. UNCHANGED <<view, checkpoint, handed, model>>
      BY <1>35 DEF Except, ForgetStaging, Go, Reject, disk, chainVars
    <2>2. lineage' = lineage /\ reference' = reference
      BY <2>1 DEF lineage, reference
    <2>3. capturing' = capturing
      BY <1>35 DEF Except, Go, capturing, CapturePcs
    <2> QED
      BY <2>2, <2>3, MappedSteps DEF MappingUnchanged
  <1>36. CASE RequestStop
    <2>1. UNCHANGED <<view, checkpoint, handed, model>>
      BY <1>36 DEF RequestStop, ForgetStaging, disk, chainVars
    <2>2. lineage' = lineage /\ reference' = reference
      BY <2>1 DEF lineage, reference
    <2>3. capturing' = capturing
      BY <1>36 DEF RequestStop, StopStep, runnerVars, capturing, CapturePcs
    <2> QED
      BY <2>2, <2>3, MappedSteps DEF MappingUnchanged
  <1>37. CASE Crash
    <2>1. lineage' = lineage /\ reference' = reference
      BY <1>37 DEF Crash, disk, chainVars, lineage, reference
    <2>2. capturing' = None
      BY <1>37 DEF Crash, capturing, CapturePcs
    <2> QED
      BY <2>1, <2>2, MappedSteps DEF MapsToAbandon, MappingUnchanged
  <1>38. CASE Resume
    <2>1. UNCHANGED <<view, checkpoint, handed, model>>
      BY <1>38 DEF Resume, Go, disk, chainVars
    <2>2. lineage' = lineage /\ reference' = reference
      BY <2>1 DEF lineage, reference
    <2>3. capturing' = capturing
      BY <1>38 DEF Resume, Go, capturing, CapturePcs
    <2> QED
      BY <2>2, <2>3, MappedSteps DEF MappingUnchanged
  <1>39. CASE UNCHANGED vars
    <2>1. MappingUnchanged
      BY <1>39 DEF vars, disk, chainVars, runnerVars, MappingUnchanged, lineage, capturing,
         reference
    <2> QED
      BY <2>1, MappedSteps
  <1> QED
    BY <1>1, <1>2, <1>3, <1>4, <1>5, <1>6, <1>7, <1>8, <1>9, <1>10, <1>11, <1>12, <1>13,
       <1>14, <1>15, <1>16, <1>17, <1>18, <1>19, <1>20, <1>21, <1>22, <1>23, <1>24, <1>25,
       <1>26, <1>27, <1>28, <1>29, <1>30, <1>31, <1>32, <1>33, <1>34, <1>35, <1>36, <1>37,
       <1>38, <1>39
       DEF Next, Stages, Captures, Accepts, Promotes

(* What append_coarse_checkpoint records of the coarse scan is one lineage   *)
(* of accepted views that only grows, once per capture and by its view,      *)
(* through every failure, stop and crash; and finalize_coarse_generation     *)
(* builds the fine reference from exactly the lineage handed over.           *)
THEOREM Implementation == Spec => ImplementsCoarseLineage
  <1>1. IInv /\ [Next]_vars => [Lineage!Next]_(Lineage!vars)
    BY RefinementStep DEF LineageStep
  <1>2. Init => Lineage!Init
    BY RefinementInit
  <1> QED
    BY <1>1, <1>2, Invariance, PTL DEF Spec, ImplementsCoarseLineage, Lineage!Spec
=============================================================================
