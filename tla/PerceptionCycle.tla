--------------------------- MODULE PerceptionCycle ---------------------------
(***************************************************************************)
(* FoundationStereoOccupancyCycleEngine: capture, inference, commit and    *)
(* cancel of one logical view at a time, with the telemetry sampler of the *)
(* exposure, the commit marker on disk, the window of accepted sources and *)
(* the fork for the fine scan.                                             *)
(*                                                                         *)
(* The engine's calls come from one thread, in any order; each call that   *)
(* touches the disk or the sampler is split where it can fail or where the *)
(* process can die.  A crash loses the memory, and with the power also the *)
(* directory entries that were never synced.                               *)
(***************************************************************************)
EXTENDS RtsiSampler, OccupancyMap

CONSTANTS
    Keys,           \* logical views of one run
    None,           \* no view, no attempt
    MaxGap,         \* maximum_operator_reposition_interval_s
    MaxSources,     \* maximum_source_views
    MaxAttempts     \* bound: captures made

ASSUME EngineAssumption ==
    /\ None \notin Keys /\ None \notin Nat
    /\ MaxGap \in Nat \ {0}
    /\ MaxSources \in Nat /\ MaxSources >= MinSources /\ MaxSources >= MinFree
    /\ MaxAttempts \in Nat

Roots == {"coarse", "fine"}     \* the run directories of the two scans
Views == Roots \X Keys          \* a key is unique within its run
Attempts == 1 .. MaxAttempts

VARIABLES
    \* on disk
    marker,         \* the attempt named by committed.json of a view, or None
    synced,         \* the views whose marker's directory entry is durable
    attempts,       \* attempt directories made so far
    \* in the engine
    root,           \* its output root
    poisoned,       \* _poisoned_reason is set
    pendingKey,     \* _pending_key with _pending_attempt_root
    pendingAttempt,
    pendingSampler, \* _pending_sampler is set
    pendingTrace,   \* _pending_stationarity_trace is set
    pendingCommit,  \* _pending_commit: the staged candidate, or None
    sources,        \* _sources: the accepted window
    updates,        \* _updates: for each source, the map it was integrated into
    captureRoots,   \* _capture_roots: the views this engine has committed
    \* the calling thread
    pc,
    held,           \* the captured view in the caller's hands, or None
    \* history, read by properties only
    acknowledged,   \* the attempt whose commit returned, for each view, or None
    continuity,     \* the accepted captures since the window was last begun
    leaked          \* a sampler was forgotten while its worker was alive

diskVars == <<marker, synced, attempts>>
pendingVars == <<pendingKey, pendingAttempt, pendingSampler, pendingTrace>>
windowVars == <<sources, updates, captureRoots>>
engineVars == <<root, poisoned, pendingVars, pendingCommit, windowVars>>
historyVars == <<acknowledged, continuity, leaked>>
vars == <<samplerVars, diskVars, engineVars, pc, held, historyVars>>

FrameUpdate == [of : Attempts, map : Snapshot]
Candidate == [view : Views, attempt : Attempts,
              sources : SUBSET Source, updates : SUBSET FrameUpdate]
Pcs == {"idle", "opening", "starting", "exposing", "finishing", "writing",
        "abandon", "cancelling", "marking", "syncing", "accepting"}

TypeOK ==
    /\ SamplerTypes
    /\ marker \in [Views -> Attempts \cup {None}]
    /\ synced \subseteq Views
    /\ attempts \in 0 .. MaxAttempts
    /\ root \in Roots
    /\ poisoned \in BOOLEAN
    /\ pendingKey \in Keys \cup {None}
    /\ pendingAttempt \in Attempts \cup {None}
    /\ pendingSampler \in BOOLEAN /\ pendingTrace \in BOOLEAN
    /\ pendingCommit \in Candidate \cup {None}
    /\ sources \subseteq Source
    /\ updates \subseteq FrameUpdate
    /\ captureRoots \subseteq Keys
    /\ pc \in Pcs
    /\ held \in Attempts \cup {None}
    /\ acknowledged \in [Views -> Attempts \cup {None}]
    /\ continuity \subseteq Source
    /\ leaked \in BOOLEAN

Init ==
    /\ SamplerInit
    /\ marker = [v \in Views |-> None] /\ synced = {} /\ attempts = 0
    /\ root = "coarse" /\ poisoned = FALSE
    /\ pendingKey = None /\ pendingAttempt = None
    /\ pendingSampler = FALSE /\ pendingTrace = FALSE
    /\ pendingCommit = None
    /\ sources = {} /\ updates = {} /\ captureRoots = {}
    /\ pc = "idle" /\ held = None
    /\ acknowledged = [v \in Views |-> None]
    /\ continuity = {} /\ leaked = FALSE

-----------------------------------------------------------------------------
(* The source window.                                                      *)

\* the members from s on follow each other without an excessive gap
Continuous(s, retained) ==
    \A t \in retained : t.time > s.time =>
        \E p \in retained : /\ s.time <= p.time /\ p.time < t.time
                            /\ t.time - p.time <= MaxGap

Newest(n, set) == {s \in set : Cardinality({t \in set : t.time > s.time}) < n}

\* mutant: older sources are kept whatever time has passed
UnbrokenSources(current) ==
    Newest(MaxSources, {s \in sources : Independent(s, current)} \cup {current})

\* _fresh_rebuild_sources
FreshSources(current) ==
    LET retained == sources \cup {current}
        tail == {s \in retained : Continuous(s, retained)}
    IN  Newest(MaxSources,
               {s \in tail \ {current} : Independent(s, current)} \cup {current})

Upto(s, set) == {t \in set : t.time <= s.time}
AttemptsOf(set) == {s.attempt : s \in set}

\* the map integrated from these sources, oldest first
MapOver(set) ==
    LET last(s) == CHOOSE t \in s : \A u \in s : u.time <= t.time
        map[s \in SUBSET set] ==
            IF s = {} THEN Unmapped ELSE Update(map[s \ {last(s)}], last(s))
    IN  map[set]

Replay(set) == {[of |-> s.attempt, map |-> MapOver(Upto(s, set))] : s \in set}

\* the newest of the accepted updates
LatestMap ==
    IF updates = {} THEN Unmapped
    ELSE (CHOOSE u \in updates :
            \A w \in updates : w.map.sequence <= u.map.sequence).map

\* one more frame over the accepted updates
Extended(current) ==
    updates \cup {[of |-> current.attempt, map |-> Update(LatestMap, current)]}

\* mutant: the accepted updates are extended although the prefix has lost sources
StaleUpdates(candidates, current) == Extended(current)

\* _rebuild_updates: integrate one more frame over an unchanged prefix, or all
RebuildUpdates(candidates, current) ==
    IF /\ Cardinality(candidates) = Cardinality(sources) + 1
       /\ Cardinality(updates) = Cardinality(sources)
       /\ candidates \ {current} = sources
    THEN Extended(current)
    ELSE Replay(candidates)

-----------------------------------------------------------------------------
(* Capture.                                                                *)

View(k) == <<root, k>>

Goto(label) == pc' = label

ClearPending ==
    /\ pendingKey' = None /\ pendingAttempt' = None
    /\ pendingSampler' = FALSE /\ pendingTrace' = FALSE

\* mutant: a poisoned engine captures on
PoisonedCapture(k) ==
    /\ pc = "idle"
    /\ attempts < MaxAttempts
    /\ k \notin captureRoots /\ marker[View(k)] = None
    /\ ~pendingSampler /\ pendingCommit = None
    /\ attempts' = attempts + 1
    /\ pendingKey' = k /\ pendingAttempt' = attempts + 1
    /\ pendingSampler' = TRUE /\ pendingTrace' = FALSE
    /\ FreshSampler
    /\ leaked' = (leaked \/ WorkerAlive)
    /\ held' = None
    /\ Goto("opening")
    /\ UNCHANGED <<marker, synced, root, poisoned, pendingCommit, windowVars,
                   acknowledged, continuity>>

\* one transaction at a time, for a view that has no accepted attempt
BeginCapture(k) ==
    /\ pc = "idle"
    /\ attempts < MaxAttempts
    /\ ~poisoned
    /\ k \notin captureRoots /\ marker[View(k)] = None
    /\ ~pendingSampler /\ pendingCommit = None
    /\ attempts' = attempts + 1
    /\ pendingKey' = k /\ pendingAttempt' = attempts + 1
    /\ pendingSampler' = TRUE /\ pendingTrace' = FALSE
    /\ FreshSampler
    /\ leaked' = (leaked \/ WorkerAlive)
    /\ held' = None
    /\ Goto("opening")
    /\ UNCHANGED <<marker, synced, root, poisoned, pendingCommit, windowVars,
                   acknowledged, continuity>>

\* any statement of the body may raise into the except handler
CaptureRaises ==
    /\ \/ pc \in {"opening", "exposing", "writing"}
       \/ pc \in {"starting", "finishing"} /\ call = "none"
    /\ Goto("abandon")
    /\ UNCHANGED <<samplerVars, diskVars, engineVars, held, historyVars>>

StartSampler ==
    /\ pc = "opening"
    /\ BeginStart
    /\ Goto("starting")
    /\ UNCHANGED <<diskVars, engineVars, held, historyVars>>

SamplerStarted ==
    /\ pc = "starting" /\ call = "none" /\ returned = "ok"
    /\ Goto("exposing")
    /\ UNCHANGED <<samplerVars, diskVars, engineVars, held, historyVars>>

FinishSampler ==
    /\ pc = "exposing"
    /\ BeginFinish
    /\ Goto("finishing")
    /\ UNCHANGED <<diskVars, engineVars, held, historyVars>>

OwnTrace ==
    /\ pc = "finishing" /\ call = "none" /\ returned = "ok"
    /\ pendingTrace' = TRUE
    /\ Goto("writing")
    /\ UNCHANGED <<samplerVars, diskVars, root, poisoned, pendingKey, pendingAttempt,
                   pendingSampler, pendingCommit, windowVars, held, historyVars>>

\* mutant: the caller is handed the view's key for its attempt
KeyReturned ==
    /\ pc = "writing"
    /\ held' = pendingKey
    /\ Goto("idle")
    /\ UNCHANGED <<samplerVars, diskVars, engineVars, historyVars>>

CaptureReturns ==
    /\ pc = "writing"
    /\ held' = pendingAttempt
    /\ Goto("idle")
    /\ UNCHANGED <<samplerVars, diskVars, engineVars, historyVars>>

-----------------------------------------------------------------------------
(* Cancellation: from capture's except handler, or called.                 *)

CancelSampler ==
    /\ \/ pc = "abandon"
       \/ pc = "idle" /\ pendingSampler
    /\ BeginCancel
    /\ held' = None
    /\ Goto("cancelling")
    /\ UNCHANGED <<diskVars, engineVars, historyVars>>

\* mutant: an error of the cancellation is suppressed
ForgivingCancelled ==
    /\ pc = "cancelling" /\ call = "none"
    /\ ClearPending
    /\ Goto("idle")
    /\ UNCHANGED <<samplerVars, diskVars, root, poisoned, pendingCommit, windowVars, held,
                   historyVars>>

\* a sampler that cannot be cancelled, or is still alive, poisons the engine
SamplerCancelled ==
    /\ pc = "cancelling" /\ call = "none"
    /\ IF returned = "raised" \/ WorkerAlive
       THEN /\ poisoned' = TRUE
            /\ UNCHANGED pendingVars
       ELSE /\ ClearPending
            /\ UNCHANGED poisoned
    /\ Goto("idle")
    /\ UNCHANGED <<samplerVars, diskVars, root, pendingCommit, windowVars, held, historyVars>>

CancelCommit ==
    /\ pc = "idle"
    /\ ~pendingSampler /\ pendingCommit # None
    /\ pendingCommit' = None
    /\ held' = None
    /\ UNCHANGED <<samplerVars, diskVars, root, poisoned, pendingVars, windowVars, pc,
                   historyVars>>

-----------------------------------------------------------------------------
(* Inference: prepare a candidate window and stage it.                     *)

Captured == pc = "idle" /\ pendingTrace /\ held = pendingAttempt

\* _clear_pending_sampler
InferenceRaises ==
    /\ Captured
    /\ IF WorkerAlive
       THEN /\ poisoned' = TRUE
            /\ UNCHANGED pendingVars
       ELSE /\ ClearPending
            /\ UNCHANGED poisoned
    /\ UNCHANGED <<samplerVars, diskVars, root, pendingCommit, windowVars, pc, held,
                   historyVars>>

\* capture times: up to one more than the accepted gap after the newest
Times == {t.time + gap : t \in Newest(1, continuity), gap \in 0 .. MaxGap + 1}
         \cup (IF continuity = {} THEN {0} ELSE {})

Stage(current) ==
    /\ Captured
    /\ \A s \in sources : s.time < current.time
    /\ Integrable(MapOver(FreshSources(current) \ {current}), current)
    /\ IF pendingCommit # None \/ WorkerAlive
       THEN /\ poisoned' = TRUE
            /\ UNCHANGED <<pendingVars, pendingCommit>>
       ELSE /\ pendingCommit' =
                  [view |-> View(pendingKey), attempt |-> pendingAttempt,
                   sources |-> FreshSources(current),
                   updates |-> RebuildUpdates(FreshSources(current), current)]
            /\ ClearPending
            /\ UNCHANGED poisoned
    /\ UNCHANGED <<samplerVars, diskVars, root, windowVars, pc, held, historyVars>>

Infer ==
    \/ InferenceRaises
    \/ \E t \in Times, p \in Poses :
            Stage([attempt |-> pendingAttempt, time |-> t, pose |-> p])

-----------------------------------------------------------------------------
(* Commit, under the pending lock.                                         *)

\* the authority is read again; every check and deadline hook may raise
BeginCommit ==
    /\ pc = "idle"
    /\ pendingCommit # None /\ held = pendingCommit.attempt
    /\ IF pendingCommit.view[2] \in captureRoots
       THEN poisoned' = TRUE /\ UNCHANGED pc
       ELSE Goto("marking") /\ UNCHANGED poisoned
    /\ UNCHANGED <<samplerVars, diskVars, root, pendingVars, pendingCommit, windowVars,
                   held, historyVars>>

CommitRaises ==
    /\ pc \in {"marking", "syncing"}
    /\ Goto("idle")
    /\ UNCHANGED <<samplerVars, diskVars, engineVars, held, historyVars>>

\* mutant: the sources advance with the link, before the marker is synced
AdvancingLink ==
    /\ pc = "marking"
    /\ marker[pendingCommit.view] = None
    /\ marker' = [marker EXCEPT ![pendingCommit.view] = pendingCommit.attempt]
    /\ sources' = pendingCommit.sources
    /\ updates' = pendingCommit.updates
    /\ Goto("syncing")
    /\ UNCHANGED <<samplerVars, synced, attempts, root, poisoned, pendingVars, pendingCommit,
                   captureRoots, held, historyVars>>

\* os.link never replaces
LinkMarker ==
    /\ pc = "marking"
    /\ marker[pendingCommit.view] = None
    /\ marker' = [marker EXCEPT ![pendingCommit.view] = pendingCommit.attempt]
    /\ Goto("syncing")
    /\ UNCHANGED <<samplerVars, synced, attempts, engineVars, held, historyVars>>

\* mutant: the directory of the marker is not synced
UnsyncedDirectory ==
    /\ pc = "syncing"
    /\ Goto("accepting")
    /\ UNCHANGED <<samplerVars, diskVars, engineVars, held, historyVars>>

SyncDirectory ==
    /\ pc = "syncing"
    /\ synced' = synced \cup {pendingCommit.view}
    /\ Goto("accepting")
    /\ UNCHANGED <<samplerVars, marker, attempts, engineVars, held, historyVars>>

AcceptCommit ==
    /\ pc = "accepting"
    /\ sources' = pendingCommit.sources
    /\ updates' = pendingCommit.updates
    /\ captureRoots' = captureRoots \cup {pendingCommit.view[2]}
    /\ pendingCommit' = None
    /\ acknowledged' = [acknowledged EXCEPT ![pendingCommit.view] = pendingCommit.attempt]
    /\ continuity' = continuity \cup Newest(1, pendingCommit.sources)
    /\ held' = None
    /\ Goto("idle")
    /\ UNCHANGED <<samplerVars, diskVars, root, poisoned, pendingVars, leaked>>

-----------------------------------------------------------------------------
(* The fork for the fine scan, and the end of the process.                 *)

\* the new engine lives in another root and has committed nothing itself
Fork(replaceLatest) ==
    /\ pc = "idle" /\ root = "coarse"
    /\ pendingKey = None /\ ~pendingSampler /\ pendingCommit = None
    /\ sources # {}
    /\ replaceLatest => Cardinality(sources) >= MinSources
    /\ root' = "fine"
    /\ LET kept == IF replaceLatest THEN sources \ Newest(1, sources) ELSE sources
       IN  /\ sources' = kept
           /\ updates' = {u \in updates : u.of \in AttemptsOf(kept)}
    /\ captureRoots' = {}
    /\ poisoned' = FALSE
    /\ held' = None
    /\ UNCHANGED <<samplerVars, diskVars, pendingVars, pendingCommit, pc, historyVars>>

\* the process dies, or with the power also the entries that were not synced
Crash ==
    /\ \E lost \in SUBSET (Views \ synced) :
          marker' = [v \in Views |-> IF v \in lost THEN None ELSE marker[v]]
    /\ FreshSampler
    /\ poisoned' = FALSE
    /\ ClearPending
    /\ pendingCommit' = None
    /\ sources' = {} /\ updates' = {} /\ captureRoots' = {}
    /\ held' = None
    /\ continuity' = {}
    /\ Goto("idle")
    /\ UNCHANGED <<synced, attempts, root, acknowledged, leaked>>

\* a worker does not outlive its last call unless it ignores the signals
Sampling ==
    /\ pc # "opening"
    /\ SamplerStep
    /\ UNCHANGED <<diskVars, engineVars, pc, held, historyVars>>

Next ==
    \/ \E k \in Keys : BeginCapture(k)
    \/ CaptureRaises \/ StartSampler \/ SamplerStarted \/ FinishSampler
    \/ OwnTrace \/ CaptureReturns
    \/ CancelSampler \/ SamplerCancelled \/ CancelCommit
    \/ Infer
    \/ BeginCommit \/ CommitRaises \/ LinkMarker \/ SyncDirectory \/ AcceptCommit
    \/ \E replaceLatest \in BOOLEAN : Fork(replaceLatest)
    \/ Crash
    \/ Sampling

Spec == Init /\ [][Next]_vars

-----------------------------------------------------------------------------
(* Properties.                                                             *)

\* Between two calls a sampler's worker that is still alive has poisoned the
\* engine, and so no sampler is ever forgotten with its worker alive: the
\* telemetry port of the controller never serves two traces at once.  The
\* worker may time out, ignore its termination or die at any moment.
NoLeakedWorker ==
    /\ ~leaked
    /\ pc = "idle" /\ WorkerAlive => poisoned

\* A trace that the engine owns is the whole answer of a worker that saw the
\* stop event and ended by itself, never a partial one.
TraceIsComplete ==
    pendingTrace =>
        /\ worker = "gone" /\ exitcode = 0
        /\ outcome = "result" /\ samples >= MinTrace

\* The sources of the safety map are pairwise independent viewpoints, although
\* a new capture is compared with each older source only, and from the oldest
\* of them on no two successive accepted captures were too far apart in time,
\* also when conflicting viewpoints between them were dropped or the window
\* was handed on.
WindowIsSound ==
    /\ \A s, t \in sources : s # t => Independent(s, t)
    /\ \A s \in sources : Continuous(s, continuity)

\* Each accepted map is the vote of exactly the accepted sources up to its
\* own, although inference extends the previous maps where it can and sources
\* fall out of the window: a cell is free when enough of these independent
\* views saw through it and none of them hit it, in whatever order; the map is
\* ready with enough views; its age is the age of its oldest view.
UpdatesMatchSources ==
    /\ {u.of : u \in updates} = AttemptsOf(sources)
    /\ \A u \in updates, s \in sources : u.of = s.attempt =>
          LET views == Upto(s, sources)
              hit == UNION {Sees[t.pose].hit : t \in views}
              seen(v) == {t \in views : v \in Sees[t.pose].free}
          IN  /\ u.map.views = views
              /\ u.map.occupied = hit
              /\ FreeCells(u.map) =
                    {v \in Voxels \ hit : Cardinality(seen(v)) >= MinFree}
              /\ u.map.state = "map_ready" <=> Cardinality(views) >= MinSources
              /\ \E t \in views : t.time = u.map.started
              /\ \A t \in views : u.map.started <= t.time

\* Memory is never ahead of the disk: each source has a durable marker that
\* names just its attempt.
SourcesAreDurable ==
    \A s \in sources : \E v \in synced : marker[v] = s.attempt

\* A poisoned engine never advances its sources again.
PoisonedNeverAdvances ==
    [][poisoned => sources' \subseteq sources]_vars

\* One accepted attempt per logical view, across failing commits, crashes and
\* power losses.
Accepted == INSTANCE AcceptedViews
    WITH accepted <- acknowledged, window <- AttemptsOf(sources)
ImplementsAcceptedViews == Accepted!Spec
=============================================================================
