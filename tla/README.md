# BiBladeFusion: TLA+ models, checks and proofs

BiBladeFusion scans a turbine blade with an eye-in-hand camera on an Elite CS68
arm: it stops the arm, captures, infers depth, updates a safety occupancy map,
plans one segment, asks an operator to approve it, executes exactly that
segment with ServoJ and stops again. This directory models the part of the
program whose correctness depends on the order in which threads, failing calls
and an operator act. Paths below are relative to `src/src/biblade_fusion/`.

## 1. The system

| component (source) | state it keeps | operations | what makes it hard | what makes it correct |
|---|---|---|---|---|
| Elite arm adapter (`devices/robot/elite_arm.py`) | stop latch and stop generation (`_stop_lock`), `_enabled`, the command I/O lock, the driver's reverse session | `stop`, `_guarded_deadline_stop`, guarded enable / resume / prepare / stream / settle | three threads stop it while a fourth call is inside the vendor driver; calls that fail may have acted; sessions are lost and replayed | nothing moves on a stale approval; an acknowledged stop stays; a lock is never kept |
| Guarded executor (`robotics/guarded_execution.py`) | outstanding permits | `authorize`, `execute`, one deadline watchdog thread per execution | checks and effects are separated by slow calls; the watchdog may outlive its execution; both the operation and its stop can fail | one permit, one release; the caller learns when the arm may still move |
| Stop-and-capture coordinator (`workflows/stop_scan_coordinator.py`) | phase, prepared segment, cycle, observation, stop flag / acknowledgement / evidence, publisher (current map, freeze) | `start`, `start_recovery`, `capture_infer_update`, `prepare_next_segment`, `execute_approved`, `request_stop` | `request_stop` runs beside a transaction without its lock; commit and stop are linearized; every event write may fail inside every handler | map and sources agree; verified stop is final; each stop is recorded; a store failure is terminal |
| Perception cycle (`workflows/foundation_stereo_cycle.py`) | pending key, sampler, trace, bundle and result; accepted sources and updates; capture roots; `_poisoned_reason` | capture, infer, commit, cancel, hand the window on to the fine scan | commit marker linked but the directory sync fails; a sampler that does not die; retries of one logical view | one accepted attempt per view; sources never ahead of the disk; maps replay exactly their sources |
| Run event store (`storage/stop_scan_run.py`) | event chain in memory and on disk, navigation index, authority lock of the process and the machine | append, read, resume, exclusive authority | death between link and sync; two writers of one run; a fine start published from inside the authority | the chain on disk is what was appended, once, in order |
| Experiment chain (`storage/unknown_blade_experiment.py`) | append-only event files that bind the event logs of the coarse and fine runs | one append per milestone, semantic validation, resume plan | a process dies between a run's event and the chain's; a candidate is abandoned | a death between two files leaves a chain with one meaning |
| RTSI sampler (`devices/robot/elite_rtsi_sampler.py`) | worker process, pipe, stop / discard events | start, finish, cancel | every wait has a time limit; answers race it; a worker outlives its termination | no partial trace is ever a result, no worker leaks |
| Stationarity (`robotics/stationarity.py`) | none (algorithm over samples) | `wait_until_settled`, bootstrap variant, trace validation | stale or repeated samples, window boundaries | evidence implies a full settled window of fresh samples |
| Occupancy mapping (`mapping/`, `workflows/occupancy_mapping.py`) | voxel votes, hits, views, map state | integrate, bind evidence, promote | votes extended or replayed; hits and free votes in any order; independence of views | a cell is free only by enough independent views and no hit |
| Supervised runner (`workflows/supervised_experiment.py`) | runner lock, blocking reasons, resume state | wraps the coordinator, streams events, resumes | stop bypasses the runner lock; listeners raise after the event is durable | status never hides a failed stop |
| Unknown-blade runtime (`workflows/unknown_blade_runtime.py`) | phase, active / constructing / fine runner, stop flags | coarse loop, hand-off to fine, sealing, recovery, stop fan-out | stop during a hand-off, one of several stops failing, flag read before and after a phase is stored | STOPPED only when every runner confirmed; one motion authority; the experiment goes forward |
| Coarse scan (`workflows/unknown_blade_coarse.py`, `storage/coarse_scan.py`, `storage/coverage.py`) | staged selection, generation, adapter's pending selection and due promotion; ledgers, generations, model on disk | stage, prepare, accept, checkpoint, promote, reject | three publications and a checkpoint per view; the stop thread rejects while the transaction accepts | one lineage of accepted views; the fine reference is built from exactly it |
| Preflight and collision (`robotics/motion_preflight.py`, `occupancy_collision.py`, `pinocchio_collision.py`, ...) | none | pure numeric checks | floating point geometry | out of reach here |
| Planning, perception, calibration, acquisition drivers, acceptance records, supervision GUI, diagnostics, CLI | mostly none, or write-once files | | I/O and numerics | not modelled |

Interaction: the runtime owns one or two runners, a runner owns one coordinator,
the coordinator calls the perception cycle, the selector, the preflight, the
guarded executor and the arm, and appends every phase to the event store. The
GUI or operator thread enters from the side through `request_stop`, which goes
down to `EliteArm.stop` without waiting for any of those owners. The watchdog
thread of an execution enters the arm from below. On disk the layers meet again:
the coarse generations and the runs' event logs are bound by the chain of the
experiment, and a new process knows nothing else.

`PROJECT.json` lists every component with its status and, under `hazards`, what
is hard to test, at its line.

## 2. Modules

| module | what it is |
|---|---|
| `GuardedMotion` | the executor, the arm, the watchdogs and the operator's stop, thread by thread |
| `MotionBoundary` | abstract: what the stop boundary of the arm promises, without threads, locks or generations |
| `StopScanCoordinator` | the coordinator's transaction thread and its operator thread |
| `ScanRun` | abstract: one run as its operator sees it |
| `RtsiSampler` | the telemetry worker process, its pipe and its parent |
| `OccupancyMap` | pure algorithm: frames fused into votes, bound to their evidence |
| `PerceptionCycle` | the perception engine; EXTENDS `RtsiSampler` and `OccupancyMap` |
| `AcceptedViews` | abstract: what the engine promises of logical views and of its window |
| `RunEventStore` | the event store of a run: threads, processes, deaths, power loss |
| `EventLog` | abstract: an append-only chain that loses at most an unacknowledged tail |
| `ExperimentChain` | the chain of an experiment: what each writer admits, what the reader accepts |
| `UnknownBladeRuntime` | the runtime with its runners and two threads; EXTENDS `ExperimentChain` |
| `ExperimentStages` | abstract: the stages of an experiment as a resume sees them |
| `CoarseScience` | the coarse scan's session, adapter, disk and checkpoints |
| `CoarseLineage` | abstract: the accepted views, the capture in progress, the fine reference |
| `GuardedMotionProofs`, `GuardedMotionSafety` | TLAPS: types; the inductive invariant, its theorems, the refinement to `MotionBoundary` |
| `StopScanCoordinatorProofs`, `StopScanCoordinatorSafety` | TLAPS: the same for the coordinator, refinement to `ScanRun` |
| `PerceptionCycleProofs` | TLAPS: the map as a vote, the inductive invariant of the engine, refinement to `AcceptedViews` |
| `RunEventStoreProofs` | TLAPS: the inductive invariant of the store, refinement to `EventLog`, no circle of locks |
| `UnknownBladeRuntimeProofs` | TLAPS: chain, hand-off and stop of the runtime, refinement to `ExperimentStages` |
| `CoarseScienceProofs` | TLAPS: the coarse scan, refinement to `CoarseLineage` |
| `MC...` | what the `.cfg` files instantiate |

Each detailed module ends with the refinement mapping to its abstract one
(`Boundary`, `Run`, `Accepted`, `Abstract`, `Stages`, `Lineage`). Definitions
whose comment begins with "mutant" are plausible mistakes: each property of a
passing run is known to fail when one of them replaces the definition it is a
variant of.

### GuardedMotion

- `stopGeneration`, `stopped` are `EliteArm._stop_generation` and `_stopped`;
  `ioLock` is `_command_io_lock`; `playing`, `reverse` and `servoing` are the
  controller: its Dashboard task, its connection to the driver and whether it
  follows targets.
- `active`, `permitGeneration` are `_active_permits` with the generation each
  permit was bound to.
- `exPc` is the transaction thread inside `execute`, one value per call or
  check; `stage` says which arm primitive is running (`resume`, `prepare`,
  `stream`, `settle`), since all of them share the connection and write code;
  `sent` and `attempt` are the loop index and the startup retry; `verdict` is
  how the body ended and `outcome` what the caller was told.
- `wdPc[p]` is the watchdog thread of permit `p`; `expired` its clock;
  `wdErrors` its stop errors including a join that timed out.
- `opPc` is the operator thread inside `request_stop`, `cancelled` the flag that
  `execute` polls.
- Vendor writes are two steps (`BeginWrite`, `EndWrite`), so a stop, a watchdog
  or a lost session may fall inside one. A failed transport call may or may not
  have reached the controller.
- History variables (`opLatched`, `opAcked`, `haltedBy`, `lateWrites`) are read
  by properties only.

Abstractions: all comparisons of evidence, fingerprints and start states are one
nondeterministic refusal at the place of the check; the tracking, feedback and
timing aborts of the stream are one; the settle tolerance is nondeterministic
with a required number of holds. `_motion_lock` is left out because one
transaction thread uses it. The guarded-enable handler stops the Dashboard
program; a reverse session cannot exist before the first enable, so its
`writeIdle` branch is dead, and `powerOff` has no effect the properties see.
The model assumes that a Dashboard `stopProgram` also ends the reverse session
and that a lost session ends the program. The initial state is an arm that has
just been connected: latch open, no driver session, any Dashboard task. An
execution without a time limit is one whose watchdog never expires.

### StopScanCoordinator

- `phase`, `prepared`, `cycle`, `observation`, `readiness`, `storeFailed`,
  `stopRequested`, `acknowledged`, `verified` are the fields of
  `StopScanCoordinator`; `published` and `frozen` belong to
  `OccupancyGenerationPublisher`; `accepted` is the newest cycle whose sources
  perception has committed. Map generations are numbered by cycle.
- `txPc` is the transaction thread; one body statement that can raise is one
  step, and every step has its failing alternative into the except handler and
  from there into the finally block of `_exclusive_operation` (`exit`, `record`,
  `unlock`), where both locks are held and released as in the code.
- `opPc` is the operator thread in `request_stop`. It takes
  `_stop_request_lock` for its two evidence writes and only tries
  `_operation_lock` at its end.
- `Transition` is `_transition`: the event is appended and the phase entered, or
  the store fails, now or earlier, and the coordinator is FAILED for good. Both
  are possible at every transition, also in handlers.
- The arm is seen through generation, latch and motion (`driven`, `slowing`,
  `rest`); the execute section keeps the order of authorize, admission, release,
  checked writes and final stop that `GuardedMotion` has in detail, and
  `watchdog` stands for any watchdog that may still fire.

Abstractions: view identities, capture purposes, budgets and the validation of
assets are nondeterministic failures; the two events of an approval are one; the
ranked candidate queue has no fixed length; the re-entrant stop from inside an
event listener is not modelled.

### RtsiSampler and PerceptionCycle

- `worker`, `pipe`, `stopEvent`, `discardEvent` are the child process and what
  it shares with its parent; `call` is the parent's call in progress. The worker
  may send, be terminated, outlive the termination or crash at any step; each
  wait of the parent may time out. A module that owns a sampler begins a call
  and goes on when `call` is `"none"`, as the engine's code does.
- `marker[v]` is `committed.json` of a view and `synced` the markers whose
  directory entry is durable; `acknowledged[v]` is the attempt whose commit has
  returned, `sources` and `updates` the engine's window with the map of each.
  `acknowledged`, `continuity` (every capture accepted since the window was last
  begun, dropped ones too) and `leaked` are history, read by properties only.
- `capture`, `infer`, `commit`, `cancel` and the fork for the fine scan are split
  wherever they touch the disk or the sampler; a failing directory sync after
  the link is one of the failures of a commit.
- `OccupancyMap` computes the votes. `PerceptionCycle` keeps a snapshot per
  source and extends the previous ones when the window allows it, as the engine
  does, so that `UpdatesMatchSources` compares an incremental and replayed
  computation with the declarative vote over the window.

Abstractions: stereo inference, voting weights and identity checks are one
nondeterministic refusal; monotonic and UTC time are one clock; a camera pose is
a point on a line and its rays always say the same; a trace is its length. The
stationarity of a trace is data of the refusal (see Stationarity under "Not
modelled").

### RunEventStore

- `log` is the sequence of event files, `synced` how many of their directory
  entries are durable, `index` the navigation index; `events[p]` the writer's
  memory; `processLock`, `flock` and `writerLock` are taken in the code's order,
  `depth` counts the nested holds of the first two; `bound` is the event that a
  published fine start names.
- Each thread is one `pc`; a process may die at any point, and the machine may
  lose power. The model assumes of the file system that it keeps the entries of
  one directory in the order in which they were made, so that a power loss cuts
  the log at a point no earlier than the last sync.

### ExperimentChain and UnknownBladeRuntime

- `chain` holds the event files of the experiment, each with its type, the run
  that it binds and the number of events that run had; `log[r]` is how many
  events run `r` has on disk. `Readable` is `_validate_semantic_chain`,
  `ResumePhase` the plan of `load_unknown_blade_resume_plan`; `PrepareAllowed`
  and its companions are what each append checks before it writes.
- `runner[r]`, `proven[r]`, `stopping[r]` are a `SupervisedExperimentRunner` and
  its coordinator as the runtime sees them; `phase`, `active`, `constructing`,
  `fine`, `stopRequested` and `stopConfirmed` are fields of the runtime.
- `pc` is the transaction thread. At `prompt` the console waits for its operator,
  with no timeout; at `work` a runner's operation is under way. At `leaving` the
  coordinator's finally block has read the stop flag and still holds its locks: a
  stop that fails just then is recorded by neither thread and leaves the runner
  ready (finding 1 below), and an acknowledgement waits. The hand-off has one
  step per call of `_activate_fine`, each with its failure; `_set_phase` is five
  steps, because it reads the stop flag before and after it stores. `opPc` is the
  thread in `request_stop`; the finalizer issues its own.

Abstractions: the events of a run per operation are "at least one"; budgets are
nondeterministic failures, and the experimental path is the production path
without them; a coarse runner that completes before a hand-off, status texts and
the wording of prompts are left out; one `request_stop` at a time, as the GUI calls it; local
variables that are no longer read are reset.

### CoarseScience

- `view[n]`, `ledgers`, `model`, `ready` are the disk; `checkpoint` and `handed`
  the chain; `current`, `promoted`, `initialized` and the four staged variables
  the session; `pending`, `lastCheckpoint`, `due`, `finished` the adapter.
  Generation `n` is the directory `n-1` of the code and its promoted successor
  the directory `n_schema5`.
- `pc` is the transaction thread from staging to hand-off; `stop` is how far
  `request_stop` is in rejecting first the session and then the adapter; a crash
  forgets everything but the disk and the chain.

Abstractions: thresholds, normals and coverage are nondeterministic verdicts; a
view is identified with the target it was taken for; readbacks and timing
summaries are left out; crashes are those of the process (these writers do not
sync directories, so a power loss has no defined meaning to follow).

## 3. What is checked

| run | question | bounds | states |
|---|---|---|---|
| `GuardedMotion` | safety of the arm and refinement of `MotionBoundary` | 2 permits, 1 operator stop, 1 boundary stop, 1 warm-up write, 2 stream commands, 1 required of 2 holds | 1,734,864 |
| `GuardedMotionLiveness` | execute and stops return, the deadline stop is never blocked | 1 permit, 2 operator stops, 1 boundary stop, 2 warm-up writes, 1 command, 1 hold | 106,010 |
| `StopScanCoordinator` | safety and liveness of the run, refinement of `ScanRun` | 3 cycles, 2 requests | 256,632 |
| `PerceptionCycle` | the engine over failing samplers, commits and restarts | 3 captures of 2 views, 3 viewpoints, windows of 2 sources | 171,577 |
| `RunEventStore` | the store under deaths and a power loss | 2 processes, 3 threads, 3 appends, 2 crashes | 224,959 |
| `UnknownBladeRuntime` | the chain, the runners and the stop of a whole experiment | 2 fine runs, 2 commands, 2 requests, 1 crash | 615,697 |
| `CoarseScience` | accepted views, their assets and checkpoints | 2 targets, 3 views, a minimum of 2, 2 restarts | 227,087 |
| `StopScanRequestedStop`, `StopScanSuccessTail`, `StopScanStopRefused`, `UnknownBladeCandidate`, `CoarsePromotion` | statements of docs, comments and tests that the code does not keep | smaller | violated |

Why these bounds are enough to be interesting: two permits are the fewest with
which the late watchdog of one execution meets the next one; two stream commands
give one write with startup recovery and one without; two holds give a settle
that succeeds at once, one that repeats and one that times out. Three cycles let
a capture follow a segment that followed a capture, with a new map at each; the
second request of the operator retries a failed stop or follows a verified one.
Three captures overflow a window of two sources, drop a conflicting viewpoint
and break continuity; two views let one attempt fail after its marker became
durable while the other is accepted. Two threads of one process and one of
another give both a contended lock and a stale writer. Two fine runs are an
abandoned candidate and its successor; one crash with a resume behind it finds
every prefix of the chain. Three coarse views are the fewest with a generation
that is neither first nor last, and a minimum of two lets a promotion be
interrupted, its model left, and a further view accepted.

The bounds (`Max...`) only cut behaviours off; the stop generation is not
bounded by itself. `StopScanCoordinator` and `PerceptionCycle` are checked for
deadlock: some call is always possible, if only a refused one. The others may
stop: an operator is never obliged to approve or command anything, and the
bounded calls and processes come to an end.

Properties of `GuardedMotion`:

- `AcknowledgedStopIsFinal`: after an operator's stop returned without an error
  the arm is latched, idle and no write is in flight, in every later state,
  although permits may be minted on that very latch while its transport is still
  waiting for the I/O lock.
- `AtMostOneLateWrite`: after a latch at most one target reaches the controller.
- `QuietReportMeansIdle`: if the controller still follows targets when `execute`
  is over, the caller was told that a stop failed or is unconfirmed.
- `DeadlineStopHolds`: after the Dashboard accepted the stop of an expired
  execution, no retry or reconnection of that execution moves the arm.
- `ImplementsMotionBoundary`: a latch is cleared at most once per approval, by
  an approval given since the latest stop, and never after an operator's stop.
- `DeadlineStopNotBlocked`: the deadline stop reaches the Dashboard although a
  vendor write may hang with the command I/O lock. `ExecuteReturns` and
  `OperatorStopReturns`: if vendor writes return (`WritesReturn`), so do execute
  and every stop of the operator, whatever fails on their way.

Properties of `StopScanCoordinator`:

- `AcceptedIsPublished`: perception's accepted sources and the published map
  differ only inside the publisher's critical section.
- `VerifiedStopIsFinal`: once stationary evidence was taken after a stop
  request, the arm stays latched and at rest.
- `StoreFailureIsTerminal`: nothing recovers a coordinator whose event store
  failed.
- `AcknowledgedStopRecorded`: after an acknowledged stop and with both threads
  outside, the run has ended: one of the two recorded it.
- `ImplementsScanRun`: a stop closes the map except for a commit already
  decided, maps are replaced only at rest, a finished run never resumes.
- `RequestReturns`: `request_stop` returns although the transaction may hang for
  ever in a capture, an inference, a commit, an approval or a settling wait, with
  its operation lock taken. Hypothesis `ArmCallsReturn`: the transaction does not
  hang in its own calls of the arm under the command I/O lock. Behind a hanging
  ServoJ write `robot.stop()` waits without a timeout for that lock
  (`elite_arm.py:439`, `1158`) and neither fails nor returns; only the deadline
  stop gets past it (`DeadlineStopNotBlocked`).

Properties of `PerceptionCycle`:

- `NoLeakedWorker`: between two calls a sampler's worker that is still alive has
  poisoned the engine; the controller's telemetry port never serves two traces.
- `TraceIsComplete`: a trace that the engine owns is the whole answer of a
  worker that was told to stop and ended by itself.
- `WindowIsSound`: the sources of the map are pairwise independent and
  continuous in time, also when conflicting views in between were dropped or the
  window was handed on.
- `UpdatesMatchSources`: each accepted map is the vote of exactly the sources up
  to its own, although inference extends previous maps where it can.
- `SourcesAreDurable`, `PoisonedNeverAdvances`: memory is never ahead of the
  disk, and a poisoned engine accepts nothing any more.
- `ImplementsAcceptedViews`: one accepted attempt per logical view, across
  failing commits, crashes and power losses.

Properties of `RunEventStore`:

- `MemoryIsPrefix`, `IndexIsDurable`: a writer's memory is a prefix of the files,
  and the index never counts an event that a power loss can take back.
- `PublishedAtOneEvent`: no stop event slips in between the last reading of a
  fine run and its publication.
- `AppendReturns`: authority, writer lock and the re-entrant publication cannot
  block each other for good.
- `ImplementsEventLog`: the chain only grows, each event names its predecessor,
  and only appends that never returned can be lost, from the end.

Properties of `UnknownBladeRuntime`:

- `OnlyCandidatesAreLost`: the ways in which a chain becomes unreadable, and that
  there is no other: nothing but its first event with no event of the coarse run;
  a death inside an append; a candidate abandoned by a stop (the finding below).
- `StoppedIsStill`, `StopIsNotMasked`: a confirmed stop leaves no runner with
  motion authority, then or later; a request is never overwritten by a phase
  that lets the scan go on.
- `OneMotionAuthority`: two coordinators never may move at once, and a fine
  runner works only on the run that the chain has committed to.
- `StopTakesEffect`: after a requested stop a runner that stays ready is inside an
  operation that has not returned, and that operation's stop flag is set, although
  stops fail and hand-offs go on. No operator has to answer a prompt for it and no
  operation has to return.
- `ImplementsExperiment`: the stage a resume would continue only goes forward,
  and one fine run is bound for good.

Properties of `CoarseScience`:

- `PublishedIsComplete`: whatever failed, stopped or died, a generation on the
  disk has its ledger, predecessors and plan assets, a promoted one its model.
- `ImplementsCoarseLineage`: the checkpointed views are one lineage that grows
  once per capture and by its view; the reference handed over is built from
  exactly that lineage.

### Fairness

`FairSpec` of `GuardedMotion` has weak fairness of the watchdog threads, the
transaction thread and an operator that is inside a stop: Python threads run,
Dashboard and driver calls other than a ServoJ write answer or fail. Nothing is
assumed of the vendor write itself (`EndWrite`), so `DeadlineStopNotBlocked`
covers a write that hangs; `ExecuteReturns` and `OperatorStopReturns` have
`WritesReturn` as their hypothesis. Nobody is obliged to approve, execute or
stop.

`FairSpec` of `StopScanCoordinator` lets a transaction hang at any step of its
body but not in the finally block, which makes no external call other than the
event append; the operator thread is weakly fair, and strongly fair where it waits
for the stop-request lock, which the transaction takes and releases again and
again. The steps of a stop that need the command I/O lock (`StopConfirmed`,
`StopFails`) are guarded by `CommandIoLockFree`, so fairness does not move a stop
behind a write that hangs; `RequestReturns` has `ArmCallsReturn` as its hypothesis,
and is violated without it. Assumed is that the transport of a stop that has the
lock answers, and the disk.

`FairSpec` of `RunEventStore` schedules each thread inside a call; a lock that is
free is eventually taken because its holders leave.

`FairSpec` of `UnknownBladeRuntime` schedules the transaction thread except at
`UnboundedPcs`, where the code waits for what nothing bounds: an operator's
`input()`, a device, a driver, a factory, an operation of a runner. It schedules
the thread in `request_stop` except while it stops a runner that is inside such an
operation (`StopMayHang`), whose vendor call may hold the lock the stop waits for.
Files, and the transport of a stop that finds the lock free, are assumed to answer.
No operator is obliged to command, answer or stop anything.

The other modules state safety only.

### Where the code and its documentation differ

1. `RequestedStopRecorded`. `request_stop` says that the active transaction, or
   else itself, records ABORTED. If `robot.stop()` raises while the transaction
   is in its finally block, after it looked at the flag and before it released
   the operation lock, neither does. With an acknowledged stop it cannot happen
   (`AcknowledgedStopRecorded`), because the acknowledgement waits for the
   stop-request lock.
2. `SuccessIsNotAborted`. The finally block reads the stop flag twice; a flag
   set in between leaves the run ABORTED and the motion call returning success.
3. `StopAvailableWhileDriven`. After an unconfirmed emergency stop the phase is
   FAILED and `request_stop` refuses before it calls `robot.stop()`.
4. `CandidateCanResume`. A hand-off that fails after its candidate was persisted
   stops the new fine runner, whose coordinator appends an aborted event to the
   run the candidate binds. The reader wants that run to hold one event, so the
   chain cannot be read and the experiment not be resumed, although
   `append_fine_start_candidate` says a stopped recovery can abandon the orphan.
5. `InterruptedHandoffCanPromote`. A promotion interrupted between its schema-5
   generation and the hand-off can never be completed: a resume finds the
   directory taken and raises, although a comment of the runtime says that an
   interrupted schema-5 hand-off can be evaluated again.

Also, `docs/stop-and-capture-coordinator.md` (lines 333 and 378) says execution
and stop failures end in ABORTED; the code ends in FAILED when a stop is
unconfirmed. The model follows the code.

Observed while modelling, and followed by the models:

- A process that dies inside an append of the experiment chain leaves a
  `.partial` name that the chain's reader rejects
  (`storage/unknown_blade_experiment.py:1158`), while the stop-scan reader
  tolerates its own (`storage/stop_scan_run.py:615`).
- When a transit capture is the first to reach MAP_READY, the promotion that is
  due belongs to an older result and the runtime blocks
  (`unknown_blade_runtime.py:1499`); the model's `due = "older"`.
- A resume with no coarse checkpoint can only end blocked. A process that dies
  between a coarse generation and its checkpoint leaves a coverage ledger whose
  name every later accept finds taken (`storage/coverage.py:47`), and a model
  left by a promotion blocks once another view was accepted.
- After an orphan fine runner failed to stop, a retry of `request_stop` can
  confirm STOPPED from the coarse runner, which has ended, alone.
- A stop may clear the session's readback between `accept_cycle` and
  `take_live_readback`; the view is then checkpointed and the run blocks.

## 4. What is proved

Every invariant, every action property and every refinement that a passing run
checks is a theorem for every value of the constants: 34 of them, in eight
modules. The proofs of one component have one shape. `IInv` is the conjunction
of named parts, TLC has checked it as an invariant of the component's run before
it was proved, `InvInit` and `InvStep` show it inductive with one step per
action, and each theorem follows from it. What a bound of the model (`Max...`)
is plays no role in the proofs, beyond being a number.

### GuardedMotion

Assumption `BoundsAssumption`: positive numbers of permits, writes and holds.

- `TypeCorrect` (`GuardedMotionProofs`): `Spec => []TypeOK`, strengthened by
  `CurrentPermit`: inside `execute` there is a consumed permit, so
  `permitGeneration[current]` is defined.
- `StopIsFinal`, `LateWritesBounded`, `DeadlineStopIsFinal`, `ReportsAreHonest`
  (`GuardedMotionSafety`): from the inductive invariant `IInv`.
- `Implementation` (`GuardedMotionSafety`): `Spec => Boundary!Spec`.

The safety invariants are not inductive alone. `IInv` adds:

- `LockInv`: who holds the I/O lock. Without it a stop's transport could overlap
  a write in flight.
- `GenerationInv`: no permit names a future generation, so a new latch makes
  every permit stale.
- `SessionInv`: the arm follows targets only over a session.
- `OperatorInv`: the heart of `AcknowledgedStopIsFinal`. After an operator's
  latch, an execution that is past its admission holds a permit older than the
  latch (a newer one would have met the cancellation flag), hence `Resume`
  cannot clear it.
- `LateInv`: while the latch is open, or before a write in flight has landed,
  no late write has been counted.
- `FreshInv`, `HaltInv`: a permit that was halted by its watchdog is stale, and
  a write in flight at that moment has lost its session.

`InvStep` has one step per action; the many actions that only move the program
counter, latch or play the Dashboard task are summarised by `ControlMove`, one
lemma. The refinement reuses `IInv` and shows each action to be one abstract
step or a stutter.

### StopScanCoordinator

Assumption `BoundsAssumption`: the bounds on cycles and requests are natural
numbers and `None` is not one.

- `TypeCorrect` (`StopScanCoordinatorProofs`): strengthened by `CyclesLeft`,
  since the map of a capture is numbered before its cycle is counted.
- `SourcesMatchMap`, `VerifiedStopHolds`, `StoreFailureHolds`,
  `AcknowledgedStopIsRecorded` (`StopScanCoordinatorSafety`): from `IInv`.
- `Implementation` (`StopScanCoordinatorSafety`): `Spec => Run!Spec`.

`StoreFailureIsTerminal` is inductive as it stands. The others need:

- `StopInv`, the heart of `VerifiedStopIsFinal`: once a request has latched the
  arm, or an earlier one was acknowledged, an execution past its admission holds
  a permit older than the latch, so `Release` and `CheckWrite` are disabled; and
  once a stop was confirmed, no write is in flight. `PermitInv` (no permit names
  a future generation) makes the request's own latch enough for it.
- `RestInv`: a capture that reuses the boundary of the segment before it never
  saw the arm itself. It rests because nobody latched or released since, which
  is what the equal generation of `readiness` says.
- `PublishInv`: the map is numbered by its cycle, or one ahead of it for good if
  the capture is refused after its commit.
- `AcknowledgedInv`: an acknowledgement waits for the stop-request lock, so it
  comes either before the finally block looks at the flag or after the lock is
  released, when the operator finds the operation lock free. Without an
  acknowledgement this fails (`RequestedStopRecorded`).
- `LifeInv`, `RequestInv`, `LockInv`: terminal phases only on the way out, the
  order in which a request sets its evidence, and the operation lock.

The lemmas go thread by thread (`CaptureKeeps`, `PlanKeeps`, `ExecuteKeeps`,
`LockKeeps`, `RequestKeeps`, `EnvironmentKeeps`), one step per action; an action
that decides a property is split by conjunct.

### CoarseScience

Assumption `CoarseAssumption`: the operator's target is no viewpoint, `None` is
no target, the minimum of views is positive and the bounds are natural numbers.

- `TypeCorrect`, `PublicationsComplete` and `Implementation`
  (`CoarseScienceProofs`): from `IInv`.

`PublishedIsComplete` and the refinement are not inductive alone. `IInv` adds:

- `AssetsInv`: what the clean-up of a first view removes is what this call has
  made (`assets = made`), never what an earlier process published.
- `GenerationInv`: between a ledger and its directory the next generation is not
  there, so removing that ledger takes it from nobody.
- `CheckpointInv`: memory is ahead of the chain by one view, the captured one,
  from the generation to its checkpoint, and equal to it otherwise while the run
  works.
- `TargetInv`: what is prepared, carried and published is the view being
  captured, although the stop thread may forget it between any two steps.
- `HandoffInv`: a hand-over ends the scan and names a model of all the views.

The refinement restates the abstract actions over the mapped variables
(`MapsToAccept` ...) and gives each action one of them or a stutter; the few
facts about sequences that it needs are lemmas about `Views`.

### PerceptionCycle

Assumptions `EngineAssumption`, `MapAssumption` and `TraceAssumption`: positive
numbers for a gap, a separation, a window and the votes that free a cell, a
window that can hold what a ready map needs, and one fixed answer of every
viewpoint. The number of views, viewpoints, voxels and captures is any.

- `TypeCorrect`, `NoWorkerLeaks`, `OwnedTraceIsComplete`, `WindowSound`,
  `MapIsVote`, `SourcesDurable`, `PoisonHolds`, `Implementation`
  (`PerceptionCycleProofs`): from `IInv`.

`IInv` adds:

- `CallInv`, `MessageInv`, `PendingInv`: where a call of the sampler can be in
  progress, what can still be in the pipe, and which pending slots exclude each
  other. `AliveInv`, the heart of `NoLeakedWorker`: a living worker belongs to
  the pending sampler. `TraceInv`: nothing is owned before the worker has ended.
- `PoisonInv`: a poisoned engine has neither trace nor candidate. With it three
  branches of the code turn out to be defensive only: the poison tests of
  staging and of a failing inference never fire, and a commit never meets a view
  that is committed already.
- `DiskInv`, `FreshInv`: from the marker's link to its acceptance the candidate
  is the marker's, and an attempt is accepted for one view only.
- `WindowInv`, `CommitInv`: the candidate was compared with each source one by
  one and then joined to them as a set; that the set stays pairwise independent,
  and continuous behind the sources that were dropped, is `JoinedWindow`.
- `UpdatesInv`, the heart of `UpdatesMatchSources`: each stored map is the vote
  of its sources (`IsVote`), whichever of extending and rebuilding made it.

`MapIsVote` is about a fold over a set of any size. The library's induction
theorems take an operator as a parameter, which the provers cannot use; instead
`SubsetInduction` and `SizeInduction` are derived from well-foundedness for a
set of the cases that hold. `MapsExist` then gives the recursive function of the
code its values and `MapOverVotes` shows that the order of integration, and
votes that stop at a hit, do not matter.

### RunEventStore

Assumption `StoreAssumption`: each thread has a process, the publisher's is the
run's creator, `None` is neither thread nor number.

- `TypeCorrect`, `MemoryFollowsDisk`, `IndexNeverAhead`, `FineStartIsAlone`,
  `Implementation` (`RunEventStoreProofs`): from `IInv`.
- `NoLockCircle`: from `IInv` and `LocksInv`.

`MemoryIsPrefix` alone is not inductive: an append remembers after it has
linked. `IInv` adds:

- `AuthorityInv`: the file lock is held by exactly the thread inside, and the
  depth counts what is left to release, the publication's hold included.
- `StageInv`: the publisher reads and publishes outside of any append; only its
  callback appends, on the hold that is there.
- `AppendInv`: from the building of an event to its place in memory nobody else
  has touched files or memory. It is what makes a publication's reading current.
- `OwnEventInv`, `DistinctInv`, `FreshInv`, `FilesInv`: no event is in two files.
- `AckInv`: what has returned is below the last sync, so a power loss spares it.

`IInv` says nothing of the process lock and the writer lock: the file lock alone
keeps the store safe. A second invariant, `LocksInv`, says who owns those two.
From both follows `NoLockCircle`: whenever a thread waits for one of the three
locks, another thread is inside its call and waits for none, and the writer's
lock is never waited for at all. It is the safety half of `AppendReturns`, for
any processes and threads; that the thread which can move is scheduled, and that
it does so often enough, is fairness and stays with TLC.

### UnknownBladeRuntime

Assumptions `ChainAssumption` and `RuntimeAssumption`: at least one fine run, the
other bounds natural numbers, `None` not a number.

- `TypeCorrect`, `StoppedStaysStill`, `StopNotMasked`, `OneAuthority`,
  `OnlyCandidates`, `Implementation` (`UnknownBladeRuntimeProofs`): from `IInv`.

For the chain, `IInv` adds:

- `OrderInv`, `FollowsInv`, `MilestoneInv`: the events stand in the order of
  their stages, each follows its predecessor and binds a run of its stage. What
  the writer checks before each append is shown to be enough for the reader
  (`NewHandoff`, `NewCandidate`, ...), which reads the whole chain again.
- `StillInv`: the links also depend on the runs' logs, which grow after the
  append. A run that the chain has closed by its final count is terminal and
  nobody's operation is in it, so its log never grows; this is what a hand-off
  gains by stopping the coarse runner before it counts its events.

For the two threads:

- `HandleInv`, `FreshInv`: where a runner is while the hand-off moves it from
  `constructing` to `active` and `fine`, and that it is the run of the chain's
  latest event.
- `ThreatInv`, the heart of `StoppedIsStill`: a runner that may move, or is about
  to be started, is on the request's list, is named by a handle still to be
  read, or spoils the confirmation. The request reads `active`, `constructing`
  and `fine` in the order in which the hand-off stores `active` and `fine` and
  then clears `constructing`, so a runner in transit is read at least once; a
  runner created behind the flag meets it before it is started.
- `AuthorityInv`: a ready runner is the active one or the one under
  construction, and while the latter exists the coarse runner has aborted.
- `MaskInv`: `_set_phase` reads the flag again after it has stored, so no store
  survives a request that it has not seen.

### What stays with TLC

- Liveness: `ExecuteReturns`, `OperatorStopReturns`, `DeadlineStopNotBlocked`,
  `RequestReturns`, `AppendReturns`, `StopTakesEffect`. They need fairness, hence
  ENABLED, which the prover does not handle.
- The violated statements of section 3: a run that refutes a statement is its
  proof.
- That the models stay live and reach their interesting states; the theorems are
  about safety and hold of a model that does nothing as well.

## 5. Plan

Done: the arm, the coordinator, the perception engine with sampler and map, the
event store, the experiment chain with its runtime, the coarse scan. Next, in
this order:

1. Proofs: every safety property of the runs is proved. What is left is to say
   more: that the coordinator's stop-request lock and the arm's I/O lock close no
   circle with the others (`NoLockCircle` says it of the event store), an action
   property of the runtime that a run that was bound is never logged to by another
   runner, and the enumeration of the defensive branches that the invariants show
   to be dead.
2. `Stationarity`: the settled window of `wait_until_settled` over bounded
   sequences of samples with a lagging controller and a changing latch.
3. The supervised runner's own event numbering, prompts and listeners.

## 6. Not modelled

- Stationarity beyond its postcondition (latched and at rest, or a timeout): its
  windows are comparisons of three numeric clocks and poses.
- Numeric geometry, kinematics, collision checking, next-view search,
  perception, self mask, rendering and calibration: floating-point arrays
  without shared state. The models see their verdict, or a raise.
- The unguarded entry points of the arm (they only refuse), MoveJ and MoveL, and
  the state reader.
- Fine science builders, acceptance records, the stored mapping and replay:
  write-once files with digests, read back and compared by one thread.
- Drivers of cameras, the GUI, the live view (it reads snapshots and has no way
  back into a run), diagnostics and the command line.

The map covers the code whose order of steps matters; it is a small share of the
repository's lines because most of them are of the kinds above.
