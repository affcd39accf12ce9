------------------------- MODULE UnknownBladeRuntime -------------------------
(***************************************************************************)
(* UnknownBladeSupervisedRuntime: one process that opens an experiment,    *)
(* scans with the coarse runner, hands over to a fine runner, seals the    *)
(* result, and can be stopped at any point or die at any point.            *)
(*                                                                         *)
(* The transaction thread runs the operator's commands; another thread may *)
(* call request_stop at the same time, one call after the other.  A runner *)
(* is the SupervisedExperimentRunner with its coordinator, reduced to what *)
(* the runtime sees of it (StopScanCoordinator has the rest).              *)
(***************************************************************************)
EXTENDS ExperimentChain, FiniteSets

CONSTANTS
    None,           \* no runner
    MaxSteps,       \* bound: commands of the operator
    MaxRequests,    \* bound: calls of request_stop, the finalizer's aside
    MaxCrashes      \* bound: processes that end

ASSUME RuntimeAssumption ==
    /\ None \notin Nat
    /\ MaxSteps \in Nat /\ MaxRequests \in Nat /\ MaxCrashes \in Nat

VARIABLES
    \* of each runner object of this process
    runner,         \* the phase of its coordinator
    proven,         \* its stop was acknowledged and verified
    stopping,       \* its coordinator's _stop_requested
    \* the runtime
    phase,          \* _phase
    active,         \* _active_runner
    constructing,   \* _constructing_runner, or None
    fine,           \* _fine_runner, or None
    stopRequested,  \* _stop_requested
    stopConfirmed,  \* _stop_confirmed
    \* the transaction thread
    pc,
    busy,           \* the runner whose operation it is in, or None
    goal, then,     \* what _set_phase stores, and where it returns to
    \* the thread in request_stop
    opPc,
    todo,           \* runners still to be stopped
    seen,           \* what it knows of the active runner's stop
    failed,         \* a runner's stop raised
    \* bounds
    created,        \* fine runs created so far
    steps, requests, crashes

runnerVars == <<runner, proven, stopping>>
handleVars == <<active, constructing, fine>>
stopVars == <<stopRequested, stopConfirmed>>
phaseVars == <<phase, goal, then>>
operatorVars == <<opPc, todo, seen, failed>>
bounds == <<created, steps, requests, crashes>>
vars == <<chainVars, runnerVars, handleVars, stopVars, phaseVars, pc, busy,
          operatorVars, bounds>>

RunnerPhases == {"absent", "idle", "ready", "aborted", "failed", "complete"}
Phases == {"operator_bootstrap", "coarse_scan", "fine_scan",
           "blocked", "stopped", "complete"}
SetPhasePcs == {"check", "store", "recheck", "verdict", "overwrite"}
HandoffPcs == {"handoff", "verify", "flag2", "stop_coarse", "flag3", "checkpoint",
               "prepare", "create", "construct", "flag4", "start", "flag5",
               "candidate", "verify_candidate", "commit", "verify_commit",
               "activate", "publish", "release", "first_step", "first"}
Pcs == SetPhasePcs \cup HandoffPcs \cup
       {"down", "created", "idle", "prompt", "work", "accept", "worked", "leaving",
        "apply", "seal", "complete", "except", "block", "block_stop",
        "leave", "finalizing", "closed"}
OpPcs == {"idle", "flag", "mark", "active", "constructing", "fine", "next",
          "stopping", "confirm"}

TypeOK ==
    /\ chain \in Seq(ChainEvent) /\ log \in [Runs -> Nat] /\ known \in Nat
    /\ runner \in [Runs -> RunnerPhases]
    /\ proven \in [Runs -> BOOLEAN] /\ stopping \in [Runs -> BOOLEAN]
    /\ phase \in Phases /\ goal \in Phases
    /\ then \in {"idle", "first_step", "block_stop", "handoff"}
    /\ {active, constructing, fine, busy} \subseteq Runs \cup {None}
    /\ active = None <=> pc = "down"
    /\ stopRequested \in BOOLEAN /\ stopConfirmed \in BOOLEAN
    /\ pc \in Pcs /\ opPc \in OpPcs
    /\ todo \in Seq(Runs)
    /\ seen \in {"nothing", "confirmed", "unconfirmed"} /\ failed \in BOOLEAN
    /\ created \in 0 .. MaxFine /\ steps \in 0 .. MaxSteps
    /\ requests \in 0 .. MaxRequests /\ crashes \in 0 .. MaxCrashes

NoRunners ==
    /\ runner = [r \in Runs |-> "absent"]
    /\ proven = [r \in Runs |-> FALSE] /\ stopping = [r \in Runs |-> FALSE]

NoRuntime ==
    /\ NoRunners
    /\ phase = "operator_bootstrap" /\ goal = "operator_bootstrap" /\ then = "idle"
    /\ active = None /\ constructing = None /\ fine = None
    /\ stopRequested = FALSE /\ stopConfirmed = FALSE
    /\ pc = "down" /\ busy = None
    /\ opPc = "idle" /\ todo = <<>> /\ seen = "nothing" /\ failed = FALSE

Init ==
    /\ chain = <<>> /\ log = [r \in Runs |-> 0] /\ known = 0
    /\ NoRuntime
    /\ created = 0 /\ steps = 0 /\ requests = 0 /\ crashes = 0

Terminal == {"aborted", "failed", "complete"}

\* a step of the transaction thread that leaves all else alone
Go(from, to) == pc = from /\ pc' = to

\* a check that may raise: of the budget, of an asset, of the chain
Check(from, to) ==
    /\ pc = from
    /\ pc' \in {to, "except"}

\* one or more events of a run: how many makes no difference
Log(r) == log' = [log EXCEPT ![r] = @ + 1]

SetPhase(p, next) == pc' = "check" /\ goal' = p /\ then' = next

-----------------------------------------------------------------------------
(* Opening and starting (open_production_unknown_blade_runtime, start).    *)

NewRunner(r) == runner' = [runner EXCEPT ![r] = "idle"]

\* the coarse run directory, then the experiment's first event
Create ==
    /\ Go("down", "created") /\ chain = <<>>
    /\ chain' = <<EventOf("experiment_initialized", Coarse)>> /\ known' = 1
    /\ NewRunner(Coarse)
    /\ active' = Coarse
    /\ UNCHANGED <<log, proven, stopping, constructing, fine, stopVars, phaseVars,
                   busy, operatorVars, bounds>>

\* recovery_confirmation_required is appended before the chain's writer opens
ReopenRun(r) ==
    /\ Log(r)
    /\ NewRunner(r)
    /\ active' = r

ResumeCoarse ==
    /\ ResumePhase = "coarse"
    /\ ReopenRun(Coarse)
    /\ phase' = "coarse_scan"
    /\ UNCHANGED <<fine, created>>

ResumeFine ==
    /\ ResumePhase = "fine"
    /\ ReopenRun(StartedRun)
    /\ fine' = StartedRun
    /\ phase' = "fine_scan"
    /\ UNCHANGED created

\* mutant: the new runner is not made the active one
InactiveFine ==
    /\ ResumePhase = "prepared"
    /\ created < MaxFine
    /\ created' = created + 1
    /\ NewRunner(created')
    /\ fine' = created'
    /\ phase' = "fine_scan"
    /\ UNCHANGED <<log, active>>

\* a fresh fine run, whatever the last candidate was
ResumePrepared ==
    /\ ResumePhase = "prepared"
    /\ created < MaxFine
    /\ created' = created + 1
    /\ NewRunner(created')
    /\ active' = created' /\ fine' = created'
    /\ phase' = "fine_scan"
    /\ UNCHANGED log

Resume ==
    /\ Go("down", "created")
    /\ Readable
    /\ ResumeCoarse \/ ResumeFine \/ ResumePrepared
    /\ known' = Len(chain)
    /\ UNCHANGED <<chain, proven, stopping, constructing, stopVars, goal, then,
                   busy, operatorVars, steps, requests, crashes>>

\* the runner is started, or its recovery is acknowledged
Started(r) ==
    /\ runner' = [runner EXCEPT ![r] = "ready"]
    /\ Log(r)

\* an event could not be appended, perhaps after it was published
StartFails(r) ==
    /\ \E p \in {"idle", "failed"} : runner' = [runner EXCEPT ![r] = p]
    /\ Log(r) \/ UNCHANGED log

Start ==
    /\ pc = "created"
    /\ LET prepared == ResumePhase = "prepared"
       IN  \/ Started(active) /\ pc' = IF prepared THEN "candidate" ELSE "apply"
           \/ StartFails(active) /\ pc' = IF prepared THEN "except" ELSE "leave"
    /\ UNCHANGED <<chain, known, proven, stopping, handleVars, stopVars, phaseVars,
                   busy, operatorVars, bounds>>

-----------------------------------------------------------------------------
(* A runner's request_stop, and the abort that its coordinator records.    *)

Refuses(r) == runner[r] \in {"idle", "complete", "failed"}
Confirmed(r) == runner[r] = "aborted" /\ proven[r]

AbortRecorded(r) ==
    /\ runner' = [runner EXCEPT ![r] = "aborted"]
    /\ Log(r)

\* the abort is recorded and the failure latched, each as far as the store allows
AbortLatched(r) ==
    \/ AbortRecorded(r)
    \/ /\ runner' = [runner EXCEPT ![r] = "failed"]
       /\ Log(r) \/ UNCHANGED log

\* an operation that ends has read the stop flag and still holds its two locks
Leaving(r) == pc = "leaving" /\ busy = r

\* the operation lock is held by the runner's own operation, which will record;
\* the acknowledgement waits for the lock under which it reads the flag
StopSucceeds(r) ==
    /\ ~Leaving(r)
    /\ proven' = [proven EXCEPT ![r] = TRUE]
    /\ IF busy = r \/ runner[r] \in Terminal
       THEN UNCHANGED <<runner, log>> ELSE AbortRecorded(r)

\* a stop that fails while the operation is leaving is recorded by neither
StopFails(r) ==
    /\ UNCHANGED proven
    /\ IF busy = r \/ runner[r] \in Terminal
       THEN UNCHANGED <<runner, log>> ELSE AbortLatched(r)

\* the call as the transaction thread makes it
StopRunner(r, ok, raises) ==
    /\ \/ Refuses(r) /\ pc' = raises /\ UNCHANGED <<runnerVars, log>>
       \/ Confirmed(r) /\ pc' = ok /\ UNCHANGED <<runnerVars, log>>
       \/ /\ ~Refuses(r) /\ ~Confirmed(r)
          /\ stopping' = [stopping EXCEPT ![r] = TRUE]
          /\ \/ StopSucceeds(r) /\ pc' = ok
             \/ StopFails(r) /\ pc' = raises

-----------------------------------------------------------------------------
(* _set_phase: a store between two checks of the stop request.             *)

SetPhaseFrame == UNCHANGED <<chainVars, runnerVars, handleVars, stopVars, busy,
                             operatorVars, bounds>>

\* locals that are no longer used have one value
Return == pc' = then /\ goal' = "operator_bootstrap" /\ then' = "idle"

CheckStop ==
    /\ Go("check", IF stopRequested THEN "verdict" ELSE "store")
    /\ UNCHANGED phaseVars /\ SetPhaseFrame

Store ==
    /\ Go("store", "recheck")
    /\ phase' = goal
    /\ UNCHANGED <<goal, then>> /\ SetPhaseFrame

\* mutant: the request is not looked at again after the store
NoRecheck ==
    /\ pc = "recheck" /\ Return
    /\ UNCHANGED phase /\ SetPhaseFrame

Recheck ==
    /\ pc = "recheck"
    /\ \/ stopRequested /\ pc' = "verdict" /\ UNCHANGED <<goal, then>>
       \/ ~stopRequested /\ Return
    /\ UNCHANGED phase /\ SetPhaseFrame

Verdict ==
    /\ Go("verdict", "overwrite")
    /\ goal' = IF stopConfirmed THEN "stopped" ELSE "blocked"
    /\ UNCHANGED <<phase, then>> /\ SetPhaseFrame

Overwrite ==
    /\ pc = "overwrite" /\ Return
    /\ phase' = goal
    /\ SetPhaseFrame

SetPhaseStep == CheckStop \/ Store \/ Recheck \/ Verdict \/ Overwrite

\* _block: the phase, then the active runner unless it has aborted
Block ==
    /\ pc = "block" /\ SetPhase("blocked", "block_stop")
    /\ UNCHANGED <<chainVars, runnerVars, handleVars, stopVars, phase, busy,
                   operatorVars, bounds>>

BlockStop ==
    /\ pc = "block_stop"
    /\ \/ runner[active] = "aborted" /\ pc' = "idle" /\ UNCHANGED <<runnerVars, log>>
       \/ runner[active] # "aborted" /\ StopRunner(active, "idle", "idle")
    /\ UNCHANGED <<chain, known, handleVars, stopVars, phaseVars, busy,
                   operatorVars, bounds>>

\* a command ends: _apply_terminal_status, or the return of the handoff
Apply ==
    /\ pc = "apply"
    /\ IF stopRequested THEN SetPhase("stopped", "idle")
                        ELSE pc' = "idle" /\ UNCHANGED <<goal, then>>
    /\ UNCHANGED <<chainVars, runnerVars, handleVars, stopVars, phase, busy,
                   operatorVars, bounds>>

-----------------------------------------------------------------------------
(* Commands: captures, planning, approved segments.                        *)

\* what the operator's console goes on with, and what a command checks
Offered ==
    /\ ~stopRequested
    /\ phase \in {"operator_bootstrap", "coarse_scan", "fine_scan"}
    /\ runner[active] = "ready"

ConsoleFrame == UNCHANGED <<chainVars, runnerVars, handleVars, stopVars, phaseVars, busy,
                            operatorVars, bounds>>

\* the console prints its snapshot and asks; nothing bounds the wait for an answer
Prompt == Go("idle", "prompt") /\ Offered /\ ConsoleFrame

\* no command that is carried out: another question, or an exception
Answer ==
    /\ pc = "prompt"
    /\ pc' \in {"idle", "leave"}
    /\ ConsoleFrame

Begin ==
    /\ Go("prompt", "work") /\ Offered
    /\ steps < MaxSteps /\ steps' = steps + 1
    /\ busy' = active
    /\ UNCHANGED <<chainVars, runnerVars, handleVars, stopVars, phaseVars,
                   operatorVars, created, requests, crashes>>

OperationFrame == UNCHANGED <<chain, known, proven, stopping, handleVars, stopVars,
                              phaseVars, operatorVars, bounds>>

\* an event of the run: a capture without science, a plan, a segment
Progress ==
    /\ pc = "work" /\ busy # None
    /\ Log(busy)
    /\ pc' \in {"accept", "worked"}
    /\ UNCHANGED <<runner, busy>> /\ OperationFrame

\* the runner latches an exception and its command is blocked
OperationRaises ==
    /\ pc \in {"work", "accept"} /\ busy # None
    /\ \/ AbortLatched(busy)
       \/ (Log(busy) \/ UNCHANGED log) /\ UNCHANGED runner
    /\ pc' = "block" /\ busy' = None
    /\ OperationFrame

CheckpointAllowed ==
    IF busy = Coarse THEN CheckpointCoarseAllowed(TRUE) ELSE CheckpointFineAllowed(TRUE)

Checkpoint ==
    IF busy = Coarse THEN EventOf("coarse_checkpoint", Coarse)
                     ELSE EventOf("fine_checkpoint", StartedRun)

\* an accepted cycle is bound by a checkpoint before the operation returns
Accept ==
    /\ pc = "accept" /\ CheckpointAllowed
    /\ Append1(Checkpoint)
    /\ pc' = "worked"
    /\ UNCHANGED <<log, runnerVars, handleVars, stopVars, phaseVars, busy,
                   operatorVars, bounds>>

\* the checkpoint raised, before or after its publication
AcceptRaises ==
    /\ pc = "accept" /\ CheckpointAllowed
    /\ AppendRaises(Checkpoint)
    /\ pc' = "block" /\ busy' = None
    /\ UNCHANGED <<log, runnerVars, handleVars, stopVars, phaseVars,
                   operatorVars, bounds>>

\* the coordinator's finally block reads the stop flag: it records the abort
ObserveStop ==
    /\ pc = "worked" /\ busy # None /\ stopping[busy]
    /\ AbortLatched(busy)
    /\ pc' = "apply" /\ busy' = None
    /\ OperationFrame

\* or there is none to record, and the locks are released a moment later
ReadFlag ==
    /\ Go("worked", "leaving") /\ busy # None /\ ~stopping[busy]
    /\ UNCHANGED <<runner, log, busy>> /\ OperationFrame

\* the command ends, or its runner's status is blocked
EndWork ==
    /\ pc = "leaving" /\ busy # None
    /\ pc' \in {"apply", "block"} /\ busy' = None
    /\ UNCHANGED <<runner, log>> /\ OperationFrame

\* the coarse map is ready: the scan goes on, or its model is ready for fine
EndCoarse ==
    /\ pc = "leaving" /\ busy = Coarse
    /\ busy' = None
    /\ \E next \in {"idle", "handoff"} :
        /\ next = "handoff" => Has("coarse_checkpoint") /\ created < MaxFine
        /\ SetPhase("coarse_scan", next)
    /\ UNCHANGED <<chainVars, runnerVars, handleVars, stopVars, phase,
                   operatorVars, bounds>>

\* the fine coverage is complete
EndFine ==
    /\ pc = "worked" /\ busy \in FineRuns /\ ~stopping[busy]
    /\ Has("fine_checkpoint")
    /\ busy' = None
    /\ runner' = [runner EXCEPT ![busy] = "complete"]
    /\ Log(busy)
    /\ pc' = "seal"
    /\ OperationFrame

-----------------------------------------------------------------------------
(* _activate_fine.                                                         *)

HandoffFrame == UNCHANGED <<runnerVars, log, handleVars, stopVars, phase, busy,
                            operatorVars, bounds>>

\* a look at the stop request, and at the budget, which may be exceeded
FlagCheck(from, to) ==
    /\ pc = from
    /\ \/ stopRequested /\ SetPhase("stopped", "idle")
       \/ ~stopRequested /\ pc' = to /\ UNCHANGED <<goal, then>>
       \/ from # "handoff" /\ pc' = "except" /\ UNCHANGED <<goal, then>>
    /\ UNCHANGED <<chain, known>> /\ HandoffFrame

VerifyTransition ==
    /\ Check("verify", "flag2")
    /\ UNCHANGED <<chain, known, goal, then>> /\ HandoffFrame

\* mutant: the coarse coordinator keeps its authority
KeepCoarse ==
    /\ Go("stop_coarse", "flag3")
    /\ UNCHANGED <<chain, known, goal, then>> /\ HandoffFrame

StopCoarse ==
    /\ pc = "stop_coarse"
    /\ StopRunner(Coarse, "flag3", "except")
    /\ UNCHANGED <<chain, known, handleVars, stopVars, phaseVars, busy,
                   operatorVars, bounds>>

\* an event of the chain is appended, or the append raises, or it is refused
ChainStep(from, to, allowed, e) ==
    /\ pc = from
    /\ \/ allowed /\ Append1(e) /\ pc' = to
       \/ allowed /\ AppendRaises(e) /\ pc' = "except"
       \/ ~allowed /\ pc' = "except" /\ UNCHANGED <<chain, known>>
    /\ UNCHANGED <<goal, then>> /\ HandoffFrame

\* the final coarse checkpoint binds the abort event
LastCheckpoint == ChainStep("checkpoint", "prepare", CheckpointCoarseAllowed(FALSE),
                            EventOf("coarse_checkpoint", Coarse))

Prepare == ChainStep("prepare", "create", Readable /\ PrepareAllowed,
                     EventOf("handoff_prepared", Coarse))

\* the factory makes the run directory and the runner, and returns it
CreateFine ==
    /\ Check("create", "construct")
    /\ IF pc' = "construct" THEN NewRunner(created + 1) /\ created' = created + 1
                            ELSE UNCHANGED <<runner, created>>
    /\ UNCHANGED <<chainVars, proven, stopping, handleVars, stopVars, phaseVars, busy,
                   operatorVars, steps, requests, crashes>>

Construct ==
    /\ Go("construct", "flag4")
    /\ constructing' = created
    /\ UNCHANGED <<chainVars, runnerVars, active, fine, stopVars, phaseVars, busy,
                   operatorVars, bounds>>

\* a stop that came during construction finds the runner idle
StopBeforeStart ==
    /\ pc = "flag4"
    /\ \/ stopRequested /\ constructing' = None /\ SetPhase("stopped", "idle")
       \/ /\ pc' \in {"except"} \cup IF stopRequested THEN {} ELSE {"start"}
          /\ UNCHANGED <<constructing, goal, then>>
    /\ UNCHANGED <<chainVars, runnerVars, active, fine, stopVars, phase, busy,
                   operatorVars, bounds>>

StartFine ==
    /\ pc = "start"
    /\ \/ Started(constructing) /\ pc' = "flag5"
       \/ StartFails(constructing) /\ pc' = "except"
    /\ UNCHANGED <<chain, known, proven, stopping, handleVars, stopVars, phaseVars,
                   busy, operatorVars, bounds>>

\* mutant: a runner that was started meanwhile is dropped without a stop
DropStarted ==
    /\ pc = "flag5"
    /\ \/ stopRequested /\ constructing' = None /\ SetPhase("stopped", "idle")
       \/ ~stopRequested /\ pc' = "candidate" /\ UNCHANGED <<constructing, goal, then>>
    /\ UNCHANGED <<chainVars, runnerVars, active, fine, stopVars, phase, busy,
                   operatorVars, bounds>>

\* a stop that came during the start stops the started runner
StopAfterStart ==
    /\ pc = "flag5"
    /\ \/ /\ ~stopRequested /\ pc' = "candidate"
          /\ UNCHANGED <<runnerVars, log, constructing>>
       \/ pc' = "except" /\ UNCHANGED <<runnerVars, log, constructing>>
       \/ /\ stopRequested
          /\ StopRunner(constructing, "apply", "except")
          /\ constructing' = IF pc' = "apply" THEN None ELSE constructing
    /\ UNCHANGED <<chain, known, active, fine, stopVars, phaseVars, busy,
                   operatorVars, bounds>>

\* the runner that the handoff, or a resumed handoff, has started
Fresh == IF constructing = None THEN active ELSE constructing

Candidate == ChainStep("candidate", "verify_candidate", CandidateAllowed(Fresh),
                       EventOf("fine_start_candidate", Fresh))

VerifyCandidate ==
    /\ pc = "verify_candidate"
    /\ pc' \in {"except"} \cup IF Readable THEN {"commit"} ELSE {}
    /\ UNCHANGED <<chain, known, goal, then>> /\ HandoffFrame

Commit == ChainStep("commit", "verify_commit", StartedAllowed,
                    EventOf("fine_started", Latest.run))

\* a resumed handoff ends here, with its runner active since the start
VerifyCommit ==
    /\ pc = "verify_commit"
    /\ pc' \in {"except"} \cup
               IF ~Readable THEN {} ELSE IF constructing = None THEN {"apply"} ELSE {"activate"}
    /\ UNCHANGED <<chain, known, goal, then>> /\ HandoffFrame

\* three stores, in the order in which request_stop reads the handles
Activate ==
    /\ Go("activate", "publish")
    /\ active' = constructing
    /\ UNCHANGED <<chainVars, runnerVars, constructing, fine, stopVars, phaseVars, busy,
                   operatorVars, bounds>>

Publish ==
    /\ Go("publish", "release")
    /\ fine' = constructing
    /\ UNCHANGED <<chainVars, runnerVars, active, constructing, stopVars, phaseVars, busy,
                   operatorVars, bounds>>

Release ==
    /\ pc = "release"
    /\ constructing' = None
    /\ SetPhase("fine_scan", "first_step")
    /\ UNCHANGED <<chainVars, runnerVars, active, fine, stopVars, phase, busy,
                   operatorVars, bounds>>

\* the fine runner's first capture; an aborted runner only reports itself
FirstStep ==
    /\ pc = "first_step"
    /\ IF runner[active] = "ready" THEN pc' = "first" /\ busy' = active
                                   ELSE pc' = "apply" /\ UNCHANGED busy
    /\ UNCHANGED <<chainVars, runnerVars, handleVars, stopVars, phaseVars,
                   operatorVars, bounds>>

First ==
    /\ Go("first", "worked") /\ busy # None
    /\ Log(busy) \/ UNCHANGED log
    /\ UNCHANGED <<runner, busy>> /\ OperationFrame

\* _stop_unstarted_runner leaves an idle runner alone
Orphan == constructing # None /\ runner[constructing] # "idle"

\* the except clause: an orphan runner is stopped, and forgotten in any case
Except ==
    /\ pc = "except"
    /\ \/ ~Orphan /\ pc' = "block" /\ UNCHANGED <<runnerVars, log>>
       \/ Orphan /\ StopRunner(constructing, "block", "block")
    /\ constructing' = None
    /\ UNCHANGED <<chain, known, active, fine, stopVars, phaseVars, busy,
                   operatorVars, bounds>>

Handoff ==
    \/ FlagCheck("handoff", "verify") \/ VerifyTransition
    \/ FlagCheck("flag2", "stop_coarse") \/ StopCoarse
    \/ FlagCheck("flag3", "checkpoint") \/ LastCheckpoint \/ Prepare
    \/ CreateFine \/ Construct \/ StopBeforeStart \/ StartFine \/ StopAfterStart
    \/ Candidate \/ VerifyCandidate \/ Commit \/ VerifyCommit
    \/ Activate \/ Publish \/ Release \/ FirstStep \/ First \/ Except

-----------------------------------------------------------------------------
(* _seal_fine_completion.                                                  *)

Seal ==
    /\ pc = "seal"
    /\ IF stopRequested
       THEN SetPhase("stopped", "idle") /\ UNCHANGED <<chain, known>>
       ELSE LET e == EventOf("fine_checkpoint", StartedRun) IN
            /\ \/ CheckpointFineAllowed(FALSE) /\ Append1(e) /\ pc' = "complete"
               \/ CheckpointFineAllowed(FALSE) /\ AppendRaises(e) /\ pc' = "block"
               \/ pc' = "block" /\ UNCHANGED <<chain, known>>
            /\ UNCHANGED <<goal, then>>
    /\ HandoffFrame

Complete ==
    /\ pc = "complete"
    /\ LET e == EventOf("fine_completed", StartedRun) IN
        \/ CompleteAllowed /\ Append1(e) /\ SetPhase("complete", "idle")
        \/ CompleteAllowed /\ AppendRaises(e) /\ pc' = "block" /\ UNCHANGED <<goal, then>>
        \/ pc' = "block" /\ UNCHANGED <<chain, known, goal, then>>
    /\ HandoffFrame

-----------------------------------------------------------------------------
(* request_stop, in another thread or from the finalizer.                  *)

RequestFrame == UNCHANGED <<chain, known, handleVars, goal, then, pc, busy,
                            created, steps, crashes>>

OpGo(from, to) == opPc = from /\ opPc' = to

Request ==
    /\ opPc = "idle" /\ pc \notin {"down", "finalizing", "closed"}
    /\ requests < MaxRequests /\ requests' = requests + 1
    /\ opPc' = IF stopConfirmed THEN "idle" ELSE "flag"
    /\ UNCHANGED <<log, runnerVars, stopVars, phase, todo, seen, failed>>
    /\ RequestFrame

Flag ==
    /\ OpGo("flag", "mark")
    /\ stopRequested' = TRUE
    /\ UNCHANGED <<log, runnerVars, stopConfirmed, phase, todo, seen, failed, requests>>
    /\ RequestFrame

\* _set_phase under a request, in the requesting thread
Mark ==
    /\ OpGo("mark", "active")
    /\ phase' = IF stopConfirmed THEN "stopped" ELSE "blocked"
    /\ UNCHANGED <<log, runnerVars, stopVars, todo, seen, failed, requests>>
    /\ RequestFrame

Collect(r) ==
    todo' = IF r = None \/ \E i \in DOMAIN todo : todo[i] = r
            THEN todo ELSE Append(todo, r)

ReadHandle(from, r, to) ==
    /\ OpGo(from, to)
    /\ Collect(r)
    /\ UNCHANGED <<log, runnerVars, stopVars, phase, seen, failed, requests>>
    /\ RequestFrame

\* mutant: the runner under construction is not looked at
ReadPublished ==
    \/ ReadHandle("active", active, "constructing")
    \/ ReadHandle("constructing", None, "fine")
    \/ ReadHandle("fine", fine, "next")

ReadHandles ==
    \/ ReadHandle("active", active, "constructing")
    \/ ReadHandle("constructing", constructing, "fine")
    \/ ReadHandle("fine", fine, "next")

See(r, status) == seen' = IF r = active THEN status ELSE seen

\* an aborted and proven runner is not stopped again; a phase may refuse a stop
NextRunner ==
    /\ opPc = "next" /\ todo # <<>>
    /\ LET r == Head(todo) IN
        \/ /\ Confirmed(r)
           /\ See(r, "confirmed") /\ opPc' = "next" /\ todo' = Tail(todo)
           /\ UNCHANGED <<failed, stopping>>
        \/ /\ Refuses(r)
           /\ failed' = TRUE /\ opPc' = "next" /\ todo' = Tail(todo)
           /\ UNCHANGED <<seen, stopping>>
        \/ /\ ~Confirmed(r) /\ ~Refuses(r)
           /\ stopping' = [stopping EXCEPT ![r] = TRUE]
           /\ opPc' = "stopping"
           /\ UNCHANGED <<seen, failed, todo>>
    /\ UNCHANGED <<log, runner, proven, stopVars, phase, requests>>
    /\ RequestFrame

\* the stop of one runner returns its status, or raises; the others follow
StopReturns ==
    /\ opPc = "stopping"
    /\ LET r == Head(todo) IN
        \/ /\ StopSucceeds(r)
           /\ See(r, IF runner'[r] = "aborted" THEN "confirmed" ELSE "unconfirmed")
           /\ UNCHANGED failed
        \/ /\ StopFails(r)
           /\ failed' = TRUE /\ UNCHANGED seen
    /\ todo' = Tail(todo) /\ opPc' = "next"
    /\ UNCHANGED <<stopping, stopVars, phase, requests>>
    /\ RequestFrame

\* the request returns or raises
Answered == opPc' = "idle" /\ seen' = "nothing" /\ failed' = FALSE

Decide ==
    /\ opPc = "next" /\ todo = <<>>
    /\ IF ~failed /\ seen = "confirmed"
       THEN /\ stopConfirmed' = TRUE /\ opPc' = "confirm"
            /\ UNCHANGED <<phase, seen, failed>>
       ELSE /\ phase' = "blocked" /\ Answered /\ UNCHANGED stopConfirmed
    /\ UNCHANGED <<log, runnerVars, stopRequested, todo, requests>>
    /\ RequestFrame

Confirm ==
    /\ opPc = "confirm" /\ Answered
    /\ phase' = "stopped"
    /\ UNCHANGED <<log, runnerVars, stopVars, todo, requests>>
    /\ RequestFrame

RequestStep == Flag \/ Mark \/ ReadHandles \/ NextRunner \/ StopReturns \/ Decide \/ Confirm

-----------------------------------------------------------------------------
(* Leaving the console, _finalize_production_runtime, and death.           *)

\* the console returns once the snapshot is blocked, stopped or complete
Leave == Go("idle", "leave") /\ ~Offered /\ ConsoleFrame

\* what is not confirmed, complete or failed is stopped once more
Finalize ==
    /\ pc = "leave" /\ opPc = "idle"
    /\ IF \/ stopConfirmed
          \/ phase = "complete" /\ ~stopRequested
          \/ runner[active] = "failed"
       THEN pc' = "closed" /\ UNCHANGED opPc
       ELSE pc' = "finalizing" /\ opPc' = "flag"
    /\ UNCHANGED <<chainVars, runnerVars, handleVars, stopVars, phaseVars, busy,
                   todo, seen, failed, bounds>>

\* the request has returned or raised; then the arm itself is stopped
Close ==
    /\ Go("finalizing", "closed") /\ opPc = "idle"
    /\ UNCHANGED <<chainVars, runnerVars, handleVars, stopVars, phaseVars, busy,
                   operatorVars, bounds>>

\* where an event of the chain may be half written
AppendPcs == {"accept", "checkpoint", "prepare", "candidate", "commit", "seal", "complete"}

\* the process ends, of itself or not
Crash ==
    /\ pc # "down"
    /\ crashes < MaxCrashes /\ crashes' = crashes + 1
    /\ \/ UNCHANGED chain
       \/ pc \in AppendPcs /\ chain' = Append(chain, EventOf("unfinished", Coarse))
    /\ runner' = [r \in Runs |-> "absent"]
    /\ proven' = [r \in Runs |-> FALSE] /\ stopping' = [r \in Runs |-> FALSE]
    /\ phase' = "operator_bootstrap" /\ goal' = "operator_bootstrap" /\ then' = "idle"
    /\ active' = None /\ constructing' = None /\ fine' = None
    /\ stopRequested' = FALSE /\ stopConfirmed' = FALSE
    /\ pc' = "down" /\ busy' = None
    /\ opPc' = "idle" /\ todo' = <<>> /\ seen' = "nothing" /\ failed' = FALSE
    /\ UNCHANGED <<log, known, created, steps, requests>>

-----------------------------------------------------------------------------
\* a step that the transaction thread takes without a command
Transaction ==
    \/ Start \/ SetPhaseStep \/ Block \/ BlockStop \/ Apply
    \/ Prompt \/ Answer
    \/ Progress \/ OperationRaises \/ Accept \/ AcceptRaises
    \/ ObserveStop \/ ReadFlag \/ EndWork \/ EndCoarse \/ EndFine
    \/ Handoff \/ Seal \/ Complete
    \/ Leave \/ Finalize \/ Close

Next ==
    \/ Create \/ Resume \/ Begin \/ Transaction
    \/ Request \/ RequestStep
    \/ Crash

Spec == Init /\ [][Next]_vars

\* where the transaction thread may wait for ever: for the operator's answer, in
\* a device, a driver or a factory, or in an operation that waits for one of them
UnboundedPcs == {"created", "prompt", "work", "accept", "first", "create", "start"}

\* the vendor call of that operation may keep the lock that a stop waits for
StopMayHang == opPc = "stopping" /\ busy = Head(todo)

\* both threads are scheduled, and files and the transport of a stop answer,
\* except where a thread waits for what nothing bounds
FairSpec ==
    /\ Spec
    /\ WF_vars(pc \notin UnboundedPcs /\ Transaction)
    /\ WF_vars(~StopMayHang /\ RequestStep)

-----------------------------------------------------------------------------
(* What the runtime promises.                                              *)

(* Whatever fails, is stopped or dies, a chain that cannot be read again   *)
(* is one that never got beyond its first event, one whose process died    *)
(* inside an append, or one whose last candidate was abandoned by a stop.  *)
(* No other stop, failed append, death or recovery loses the experiment    *)
(* (_validate_semantic_chain).                                             *)
OnlyCandidatesAreLost ==
    \/ chain = <<>>
    \/ Readable
    \/ Latest.type = "unfinished"
    \/ Len(chain) = 1 /\ log[Coarse] = 0
    \/ Latest.type = "fine_start_candidate" /\ log[Latest.run] > 1

(* Once request_stop has confirmed a stop, no runner of the process holds  *)
(* motion authority, and none gets it later: not one that the handoff was  *)
(* creating or starting meanwhile (request_stop, _activate_fine).          *)
StoppedIsStill == stopConfirmed => \A r \in Runs : runner[r] # "ready"

(* A stop request is never overwritten by a phase that would let the scan  *)
(* go on: outside _set_phase the phase is blocked or stopped (_set_phase). *)
StopIsNotMasked ==
    stopRequested /\ opPc # "mark" /\ pc \notin SetPhasePcs =>
        phase \in {"blocked", "stopped"}

(* Two coordinators never hold motion authority at once, and a fine        *)
(* runner works only on the run that the chain has committed to.           *)
OneMotionAuthority ==
    /\ Cardinality({r \in Runs : runner[r] = "ready"}) <= 1
    /\ busy \in FineRuns => Has("fine_started") /\ StartedRun = busy

(* A requested stop takes effect, although its calls may fail and hand-offs*)
(* go on: a runner that stays ready is inside an operation that has not    *)
(* returned, and that operation's stop flag is set.  Nobody has to answer a*)
(* prompt and no operation has to return for it; the transport of a stop   *)
(* that finds the arm's command lock free answers (request_stop,           *)
(* _activate_fine, _finalize_production_runtime).                          *)
StopTakesEffect ==
    stopRequested ~>
        \/ pc = "down"
        \/ \A r \in Runs : runner[r] = "ready" => busy = r /\ stopping[r]

Stages == INSTANCE ExperimentStages WITH
    Runs <- FineRuns,
    stage <- IF chain = <<>> THEN "new" ELSE ResumePhase,
    fine <- IF Has("fine_started") THEN StartedRun ELSE None

(* The chain takes the experiment forward one stage at a time, and binds   *)
(* one fine run for good (see ExperimentStages).                           *)
ImplementsExperiment == Stages!Spec

(* A process that ends after a candidate, in whatever way, leaves an       *)
(* experiment that can be resumed: a resume creates a fresh fine run.      *)
CandidateCanResume ==
    pc = "down" /\ chain # <<>> /\ Latest.type = "fine_start_candidate" => Readable
=============================================================================
