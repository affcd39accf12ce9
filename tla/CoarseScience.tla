---------------------------- MODULE CoarseScience ----------------------------
(***************************************************************************)
(* The coarse scan's science: CoarseScienceSession, its adapter to the     *)
(* coordinator, the immutable assets they write and the checkpoints that   *)
(* name them.                                                              *)
(*                                                                         *)
(* One thread runs the operator's commands.  Another may be in             *)
(* request_stop, which first makes the session and then the adapter forget *)
(* what is staged.  The process may end between any two steps; a resumed   *)
(* one knows the disk and the chain and nothing else.                      *)
(*                                                                         *)
(* A generation is named by the number of its views: generation n is the   *)
(* directory n-1 of the code, with the ledger beside it; its successor     *)
(* with the coarse model is the directory n_schema5.                       *)
(***************************************************************************)
EXTENDS Naturals, FiniteSets

CONSTANTS
    Operator,       \* the target of a capture the operator triggers
    Viewpoints,     \* the targets of the selector
    None,           \* no target
    MinViews,       \* policy.minimum_total_views
    MaxViews,       \* bound: views of one experiment
    MaxRestarts     \* bound: processes that end

Targets == Viewpoints \cup {Operator}

ASSUME CoarseAssumption ==
    /\ Operator \notin Viewpoints /\ None \notin Targets
    /\ MinViews \in Nat \ {0} /\ MaxViews \in Nat /\ MaxRestarts \in Nat

VARIABLES
    \* the disk
    assets,         \* how many of initialization, view plan, discovery plan
    view,           \* generation n was published with this last view, or None
    ledgers,        \* generations with a coverage ledger
    model,          \* the views of coarse_model_schema5, or 0
    ready,          \* generations with a schema-5 successor
    \* the chain of the experiment
    checkpoint,     \* the generation of the last coarse checkpoint, or 0
    handed,         \* handoff_prepared is in it
    \* CoarseScienceSession
    current,        \* _generation, or 0
    promoted,       \* _generation is its schema-5 successor
    initialized,    \* _initialization, _view_plan and _discovery_path are known
    staged,         \* _pending_selection, or Operator if _operator_capture_staged
    foreground,     \* _pending_foreground is there
    prepared,       \* the target of _pending_prepared
    readback,       \* _pending_live_readback is there
    \* CoarseSessionNextViewAdapter
    pending,        \* _pending_selection
    lastCheckpoint, \* _last_checkpoint_generation
    due,            \* _pending_transition_result: none, the latest, an older one
    finished,       \* _last_transition is READY_FOR_FINE
    \* the runner and its coordinator
    need,           \* what they wait for
    expected,       \* the target of the accepted segment
    captured,       \* the target of the capture in progress
    \* the two threads
    pc,
    mine,           \* a target read and not yet stored
    made,           \* how many assets this call has created
    stop,           \* how far request_stop is
    restarts

disk == <<assets, view, ledgers, model, ready>>
chainVars == <<checkpoint, handed>>
staging == <<staged, foreground, prepared, readback>>
session == <<current, promoted, initialized>>
adapter == <<lastCheckpoint, due, finished>>
runnerVars == <<need, expected, captured>>
local == <<mine, made>>
vars == <<disk, chainVars, staging, session, pending, adapter, runnerVars, pc,
          local, stop, restarts>>

Published == {n \in DOMAIN view : view[n] # None}

NeedsOf == {"operator", "selection", "approval", "refresh", "nothing"}
CapturePcs == {"preflight", "prepare", "prepared", "commit", "accept", "initialize",
               "cleanup", "ledger", "generation", "unledger", "settle", "sink"}
Pcs == CapturePcs \cup
       {"down", "idle", "bind", "plan", "restage", "rebind", "readback", "observed",
        "promote", "evaluate", "model", "ready", "handoff", "prepare_handoff",
        "handed", "except"}

TypeOK ==
    /\ assets \in 0 .. 3 /\ made \in 0 .. 3
    /\ view \in [1 .. MaxViews -> Targets \cup {None}]
    /\ ledgers \subseteq 1 .. MaxViews /\ ready \subseteq 1 .. MaxViews
    /\ {model, checkpoint, current, lastCheckpoint} \subseteq 0 .. MaxViews
    /\ {handed, promoted, initialized, foreground, readback, finished} \subseteq BOOLEAN
    /\ {staged, prepared, expected, captured, mine} \subseteq Targets \cup {None}
    /\ pending \in Viewpoints \cup {None}
    /\ due \in {"none", "latest", "older"}
    /\ need \in NeedsOf /\ pc \in Pcs
    /\ stop \in {"no", "session", "adapter", "done"}
    /\ restarts \in 0 .. MaxRestarts

Forgotten ==
    /\ staged = None /\ foreground = FALSE /\ prepared = None /\ readback = FALSE
    /\ pending = None /\ due = "none" /\ finished = FALSE /\ promoted = FALSE
    /\ expected = None /\ captured = None /\ mine = None /\ made = 0
    /\ stop = "no"

Init ==
    /\ assets = 0 /\ view = [n \in 1 .. MaxViews |-> None]
    /\ ledgers = {} /\ model = 0 /\ ready = {}
    /\ checkpoint = 0 /\ handed = FALSE
    /\ current = 0 /\ lastCheckpoint = 0 /\ initialized = FALSE
    /\ Forgotten
    /\ need = "operator" /\ pc = "idle" /\ restarts = 0

\* the next command: a stopped coordinator takes none
Command(kind) == pc = "idle" /\ need = kind /\ stop # "done"

Go(from, to) == pc = from /\ pc' = to

\* an exception on the way to the caller
Raise == pc' = "except"

\* reject_cycle of the session, and the adapter's part of reject_staged_cycle
ForgetStaging ==
    staged' = None /\ foreground' = FALSE /\ prepared' = None /\ readback' = FALSE

Reject == ForgetStaging /\ pending' = None

-----------------------------------------------------------------------------
(* Staging: what the next science capture is for.                          *)

Stageable == prepared = None /\ staged = None

StageOperatorCapture ==
    /\ Command("operator")
    /\ IF pending = None /\ Stageable
       THEN staged' = Operator /\ foreground' = FALSE /\ captured' = Operator
            /\ pc' = "preflight"
       ELSE Raise /\ UNCHANGED <<staged, foreground, captured>>
    /\ UNCHANGED <<disk, chainVars, session, prepared, readback, pending, adapter,
                   need, expected, local, stop, restarts>>

\* stage_selected_capture, then the caller stores the selection
Stage(t, next) ==
    /\ IF Stageable
       THEN staged' = t /\ foreground' = FALSE /\ mine' = t /\ pc' = next
       ELSE Raise /\ UNCHANGED <<staged, foreground, mine>>
    /\ UNCHANGED <<disk, chainVars, session, prepared, readback, pending, adapter,
                   runnerVars, made, stop, restarts>>

Advance ==
    UNCHANGED <<disk, chainVars, session, staging, pending, adapter, expected,
                captured, local, stop, restarts>>

\* a selection that is still pending is returned as it is
Reselect ==
    /\ Command("selection") /\ pending # None
    /\ pc' = "plan" /\ mine' = pending
    /\ UNCHANGED <<disk, chainVars, session, staging, pending, adapter, runnerVars,
                   made, stop, restarts>>

SelectNext ==
    /\ Command("selection") /\ pending = None /\ ~finished /\ current > 0
    /\ \E t \in Viewpoints : Stage(t, "bind")

\* complete, out of reach, out of time: the runner blocks
SelectFails ==
    /\ Command("selection")
    /\ Raise /\ UNCHANGED need /\ Advance

Bind ==
    /\ Go("bind", "plan")
    /\ pending' = mine
    /\ UNCHANGED <<disk, chainVars, session, staging, adapter, runnerVars, local,
                   stop, restarts>>

\* accept_preflight_target: the ranked candidate whose path is clear
PlanFirst ==
    /\ pc = "plan"
    /\ IF pending = None THEN Raise /\ UNCHANGED <<need, expected>>
       ELSE pc' = "idle" /\ need' = "approval" /\ expected' = mine
    /\ UNCHANGED <<disk, chainVars, session, staging, pending, adapter, captured,
                   local, stop, restarts>>

PlanFallback ==
    /\ pc = "plan" /\ pending # None
    /\ \E t \in Viewpoints \ {mine} : mine' = t
    /\ pc' = "restage"
    /\ ForgetStaging
    /\ UNCHANGED <<disk, chainVars, session, pending, adapter, runnerVars, made,
                   stop, restarts>>

Restage == pc = "restage" /\ Stage(mine, "rebind")

Rebind ==
    /\ Go("rebind", "idle")
    /\ pending' = mine /\ need' = "approval" /\ expected' = mine
    /\ UNCHANGED <<disk, chainVars, session, staging, adapter, captured, local,
                   stop, restarts>>

\* no candidate has a clear path: what is staged stays so until the refresh
PlanBlocked ==
    /\ pc = "plan"
    /\ \/ pc' = "idle" /\ need' = "refresh"
       \/ Raise /\ UNCHANGED need
    /\ Advance

-----------------------------------------------------------------------------
(* A segment, and the capture behind it.                                   *)

ExecuteCandidate ==
    /\ Command("approval")
    /\ captured' = expected /\ expected' = None
    /\ pc' = "preflight"
    /\ UNCHANGED <<disk, chainVars, session, staging, pending, adapter, need, local,
                   stop, restarts>>

\* a leg: its capture updates the map and leaves the staged target alone
ExecuteTransit ==
    /\ Command("approval")
    /\ expected' = None
    /\ due' = IF due = "latest" THEN "older" ELSE due
    /\ \/ pc' = "promote" /\ UNCHANGED need
       \/ pc' = "idle" /\ need' \in {"selection", "refresh"}
    /\ UNCHANGED <<disk, chainVars, session, staging, pending, lastCheckpoint,
                   finished, captured, local, stop, restarts>>

ExecuteFails ==
    /\ Command("approval")
    /\ Raise /\ UNCHANGED need /\ Advance

\* capture_coarse_safety_refresh; its result makes a promotion due
SafetyRefresh ==
    /\ Command("refresh")
    /\ Reject
    /\ \/ due' = "latest" /\ pc' = "promote" /\ UNCHANGED need
       \/ due' = "latest" /\ pc' = "idle" /\ need' \in {"selection", "refresh"}
       \/ UNCHANGED <<due, need>> /\ Raise
    /\ UNCHANGED <<disk, chainVars, session, lastCheckpoint, finished, expected,
                   captured, local, stop, restarts>>

\* preflight_engine_cycle
Preflight ==
    /\ pc = "preflight"
    /\ \/ /\ prepared = None /\ ~foreground /\ staged # None
          /\ foreground' = TRUE /\ pc' = "prepare"
       \/ Raise /\ UNCHANGED foreground
    /\ UNCHANGED <<disk, chainVars, session, staged, prepared, readback, pending,
                   adapter, runnerVars, local, stop, restarts>>

\* prepare_engine_cycle: what is staged is read, and stored at the end
Prepare ==
    /\ pc = "prepare"
    /\ \/ /\ prepared = None /\ foreground /\ staged = captured
          /\ mine' = staged /\ pc' = "prepared"
       \/ Raise /\ UNCHANGED mine
    /\ UNCHANGED <<disk, chainVars, session, staging, pending, adapter, runnerVars,
                   made, stop, restarts>>

SetPrepared ==
    /\ Go("prepared", "commit")
    /\ prepared' = mine
    /\ UNCHANGED <<disk, chainVars, session, staged, foreground, readback, pending,
                   adapter, runnerVars, local, stop, restarts>>

\* the engine and the coordinator commit the cycle, or do not
Commit ==
    /\ pc = "commit"
    /\ pc' = "accept" \/ Raise
    /\ UNCHANGED need /\ Advance

-----------------------------------------------------------------------------
(* accept_cycle, from the runner's perception callback.                    *)

Accept ==
    /\ pc = "accept"
    /\ \/ /\ prepared # None
          /\ mine' = prepared
          /\ pc' = IF current = 0 /\ ~initialized THEN "initialize" ELSE "ledger"
       \/ Raise /\ UNCHANGED mine
    /\ UNCHANGED <<disk, chainVars, session, staging, pending, adapter, runnerVars,
                   made, stop, restarts>>

\* mutant: the session believes that a fourth asset is to be written
FourAssets == made = 3

\* the asset being written is the last of the three
LastAsset == made = 2

\* _initialize_from_first_view: three assets; what this call made it removes
InitializeNext ==
    /\ pc = "initialize"
    /\ \/ /\ assets = made
          /\ assets' = assets + 1
          /\ IF LastAsset THEN initialized' = TRUE /\ made' = 0 /\ pc' = "ledger"
             ELSE made' = made + 1 /\ UNCHANGED <<initialized, pc>>
       \/ pc' = "cleanup" /\ UNCHANGED <<assets, made, initialized>>
    /\ UNCHANGED <<view, ledgers, model, ready, chainVars, current, promoted, staging,
                   pending, adapter, runnerVars, mine, stop, restarts>>

Cleanup ==
    /\ pc = "cleanup"
    /\ IF made = 0 THEN Raise /\ UNCHANGED <<assets, made>>
       ELSE assets' = assets - 1 /\ made' = made - 1 /\ UNCHANGED pc
    /\ UNCHANGED <<view, ledgers, model, ready, chainVars, session, staging, pending,
                   adapter, runnerVars, mine, stop, restarts>>

\* mutant: whatever fails, the ledger of the new generation is removed
CarelessLedger ==
    /\ pc = "ledger"
    /\ \/ /\ current < MaxViews /\ current + 1 \notin ledgers
          /\ ledgers' = ledgers \cup {current + 1} /\ pc' = "generation"
       \/ ledgers' = ledgers \ {current + 1} /\ Raise
    /\ UNCHANGED <<assets, view, model, ready, chainVars, session, staging, pending,
                   adapter, runnerVars, local, stop, restarts>>

\* write_coverage_ledger refuses a name that is taken
WriteLedger ==
    /\ pc = "ledger"
    /\ \/ /\ current < MaxViews /\ current + 1 \notin ledgers
          /\ ledgers' = ledgers \cup {current + 1} /\ pc' = "generation"
       \/ UNCHANGED ledgers /\ Raise
    /\ UNCHANGED <<assets, view, model, ready, chainVars, session, staging, pending,
                   adapter, runnerVars, local, stop, restarts>>

WriteGeneration ==
    /\ pc = "generation"
    /\ \/ /\ view[current + 1] = None
          /\ view' = [view EXCEPT ![current + 1] = mine]
          /\ current' = current + 1 /\ readback' = TRUE
          /\ pc' = "settle"
       \/ pc' = "unledger" /\ UNCHANGED <<view, current, readback>>
    /\ UNCHANGED <<assets, ledgers, model, ready, chainVars, promoted, initialized,
                   staged, foreground, prepared, pending, adapter, runnerVars, local,
                   stop, restarts>>

RemoveLedger ==
    /\ Go("unledger", "except")
    /\ ledgers' = ledgers \ {current + 1}
    /\ UNCHANGED <<assets, view, model, ready, chainVars, session, staging, pending,
                   adapter, runnerVars, local, stop, restarts>>

Settle ==
    /\ Go("settle", "sink")
    /\ staged' = None /\ foreground' = FALSE /\ prepared' = None
    /\ UNCHANGED <<disk, chainVars, session, readback, pending, adapter, runnerVars,
                   local, stop, restarts>>

\* append_coarse_checkpoint: a failing one may have published its event
Sink ==
    /\ pc = "sink"
    /\ \/ checkpoint' = current /\ pc' = "readback"
       \/ checkpoint' \in {checkpoint, current} /\ Raise
    /\ UNCHANGED <<disk, handed, session, staging, pending, adapter, runnerVars,
                   local, stop, restarts>>

TakeReadback ==
    /\ pc = "readback"
    /\ IF readback
       THEN /\ readback' = FALSE /\ lastCheckpoint' = current /\ pending' = None
            /\ due' = "latest" /\ pc' = "observed"
       ELSE Raise /\ UNCHANGED <<readback, lastCheckpoint, pending, due>>
    /\ UNCHANGED <<disk, chainVars, session, staged, foreground, prepared, finished,
                   runnerVars, local, stop, restarts>>

\* the coordinator's phase after the capture
Observed ==
    /\ pc = "observed"
    /\ \/ pc' = "promote" /\ UNCHANGED need
       \/ pc' = "idle" /\ need' = "selection"
       \/ pc' = "idle" /\ need' = IF captured = Operator THEN "operator" ELSE "refresh"
       \/ Raise /\ UNCHANGED need
    /\ Advance

-----------------------------------------------------------------------------
(* Promotion and handoff.                                                  *)

Collect == pc' = "idle" /\ need' = "selection" /\ due' = "none"

\* promote_after_exact_map_ready: the due result must be the published map's
Promote ==
    /\ pc = "promote"
    /\ \/ due = "none" /\ Collect
       \/ due = "latest" /\ pc' = "evaluate" /\ UNCHANGED <<need, due>>
       \/ due # "none" /\ Raise /\ UNCHANGED <<need, due>>
    /\ UNCHANGED <<disk, chainVars, session, staging, pending, lastCheckpoint,
                   finished, expected, captured, local, stop, restarts>>

\* finalize_coarse_generation, its gates first
Evaluate ==
    /\ pc = "evaluate"
    /\ \/ current > 0 /\ Collect
       \/ current >= MinViews /\ pc' = "model" /\ UNCHANGED <<need, due>>
       \/ Raise /\ UNCHANGED <<need, due>>
    /\ UNCHANGED <<disk, chainVars, session, staging, pending, lastCheckpoint,
                   finished, expected, captured, local, stop, restarts>>

\* a model that is there is used if it was built from exactly these views
Reusable == model = current

BuildModel ==
    /\ pc = "model"
    /\ \/ Reusable /\ pc' = "ready" /\ UNCHANGED <<model, need, due>>
       \/ model = 0 /\ model' = current /\ pc' = "ready" /\ UNCHANGED <<need, due>>
       \/ model = 0 /\ Collect /\ UNCHANGED model
       \/ Raise /\ UNCHANGED <<model, need, due>>
    /\ UNCHANGED <<assets, view, ledgers, ready, chainVars, session, staging, pending,
                   lastCheckpoint, finished, expected, captured, local, stop, restarts>>

\* write_coarse_scan_generation refuses a name that is taken
WriteReady ==
    /\ pc = "ready"
    /\ \/ /\ current \notin ready /\ model = current
          /\ ready' = ready \cup {current}
          /\ promoted' = TRUE /\ finished' = TRUE /\ due' = "none"
          /\ pc' = "handoff"
       \/ Raise /\ UNCHANGED <<ready, promoted, finished, due>>
    /\ UNCHANGED <<assets, view, ledgers, model, chainVars, current, initialized,
                   staging, pending, lastCheckpoint, runnerVars, local, stop, restarts>>

\* _activate_fine: the source generation is checkpointed again
Handoff ==
    /\ pc = "handoff"
    /\ \/ lastCheckpoint = current /\ checkpoint' = current /\ pc' = "prepare_handoff"
       \/ Raise /\ UNCHANGED checkpoint
    /\ UNCHANGED <<disk, handed, session, staging, pending, adapter, runnerVars,
                   local, stop, restarts>>

PrepareHandoff ==
    /\ pc = "prepare_handoff"
    /\ \/ checkpoint = current /\ handed' = TRUE /\ pc' = "handed"
       \/ handed' \in BOOLEAN /\ (handed' => checkpoint = current) /\ Raise
    /\ UNCHANGED <<disk, checkpoint, session, staging, pending, adapter, runnerVars,
                   local, stop, restarts>>

-----------------------------------------------------------------------------
(* Failure, stop, and the end of the process.                              *)

Except ==
    /\ Go("except", "idle")
    /\ Reject
    /\ need' = "nothing"
    /\ UNCHANGED <<disk, chainVars, session, adapter, expected, captured, local,
                   stop, restarts>>

StopStep ==
    \/ stop = "no" /\ stop' = "session" /\ ForgetStaging /\ UNCHANGED pending
    \/ stop = "session" /\ stop' = "adapter" /\ pending' = None /\ UNCHANGED staging
    \/ stop = "adapter" /\ stop' = "done" /\ UNCHANGED <<staging, pending>>

\* request_stop: flags, then reject_staged_cycle, then the runners
RequestStop ==
    /\ pc # "down"
    /\ StopStep
    /\ UNCHANGED <<disk, chainVars, session, adapter, runnerVars, pc, local, restarts>>

Crash ==
    /\ pc # "down" /\ restarts < MaxRestarts
    /\ restarts' = restarts + 1
    /\ pc' = "down"
    /\ current' = 0 /\ promoted' = FALSE /\ initialized' = FALSE
    /\ staged' = None /\ foreground' = FALSE /\ prepared' = None /\ readback' = FALSE
    /\ pending' = None /\ lastCheckpoint' = 0 /\ due' = "none" /\ finished' = FALSE
    /\ need' = "nothing" /\ expected' = None /\ captured' = None
    /\ mine' = None /\ made' = 0 /\ stop' = "no"
    /\ UNCHANGED <<disk, chainVars>>

\* mutant: recovery follows the newest generation on the disk
NewestGeneration == Cardinality(Published)

\* the generation the chain names, and no other
RecoveredGeneration == checkpoint

\* a resumed coarse scan waits for one safety refresh
Resume ==
    /\ Go("down", "idle") /\ ~handed
    /\ current' = RecoveredGeneration /\ lastCheckpoint' = RecoveredGeneration
    /\ initialized' = (RecoveredGeneration # 0)
    /\ need' = "refresh"
    /\ UNCHANGED <<disk, chainVars, promoted, staging, pending, due, finished,
                   expected, captured, local, stop, restarts>>

Stages == StageOperatorCapture \/ Reselect \/ SelectNext \/ SelectFails \/ Bind
          \/ PlanFirst \/ PlanFallback \/ Restage \/ Rebind \/ PlanBlocked
Captures == ExecuteCandidate \/ ExecuteTransit \/ ExecuteFails \/ SafetyRefresh
            \/ Preflight \/ Prepare \/ SetPrepared \/ Commit
Accepts == Accept \/ InitializeNext \/ Cleanup \/ WriteLedger \/ WriteGeneration
           \/ RemoveLedger \/ Settle \/ Sink \/ TakeReadback \/ Observed
Promotes == Promote \/ Evaluate \/ BuildModel \/ WriteReady \/ Handoff
            \/ PrepareHandoff

Next == Stages \/ Captures \/ Accepts \/ Promotes
        \/ Except \/ RequestStop \/ Crash \/ Resume

Spec == Init /\ [][Next]_vars

-----------------------------------------------------------------------------
(* Properties.                                                             *)

(* Whatever failed, stopped or died: a generation on the disk has its        *)
(* ledger, its predecessors and the three plan assets, a schema-5 successor  *)
(* has its generation and a model of exactly its views.  The clean-up of a   *)
(* refused write never takes what an earlier process published.              *)
PublishedIsComplete ==
    /\ \A n \in Published : n \in ledgers /\ 1 .. n \subseteq Published /\ assets = 3
    /\ \A n \in ready : n \in Published /\ model = n

(* The checkpoints of the chain, read through the disk, are the accepted     *)
(* views; each is the view of the capture in progress; the reference the     *)
(* fine scan is given is built from all of them and nothing else.            *)
Lineage == INSTANCE CoarseLineage WITH
    lineage <- [n \in 1 .. checkpoint |-> view[n]],
    capturing <- IF pc \in CapturePcs THEN captured ELSE None,
    reference <- [n \in 1 .. (IF handed THEN model ELSE 0) |-> view[n]]

ImplementsCoarseLineage == Lineage!Spec

(* An interrupted promotion can be done again: the successor that a          *)
(* promotion is about to write is not on the disk already.                   *)
InterruptedHandoffCanPromote == pc = "ready" => current \notin ready
=============================================================================
