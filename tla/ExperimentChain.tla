--------------------------- MODULE ExperimentChain ---------------------------
(***************************************************************************)
(* The event chain of an unknown-blade experiment, which binds the event   *)
(* logs of its coarse run and of its fine runs.                            *)
(*                                                                         *)
(* An event of the chain is its type, the run that it binds and the number *)
(* of events that the run had.  The generations, coverages and other       *)
(* assets that the events also bind are abstracted to the fact that an     *)
(* accepted cycle has a new one.  The temporary file of an append that the *)
(* process did not survive is an unfinished event: the reader lists it     *)
(* with the others, and it can follow none of them.                        *)
(***************************************************************************)
EXTENDS Naturals, Sequences

CONSTANTS MaxFine       \* bound: fine runs created

ASSUME ChainAssumption == MaxFine \in Nat \ {0}

Coarse == 0
FineRuns == 1 .. MaxFine
Runs == {Coarse} \cup FineRuns

VARIABLES
    chain,      \* the experiment's event files
    log,        \* how many events each run has on disk
    known       \* how many events of the chain its writer knows

chainVars == <<chain, log, known>>

Types == {"experiment_initialized", "coarse_checkpoint", "handoff_prepared",
          "fine_start_candidate", "fine_started", "fine_checkpoint",
          "fine_completed", "unfinished"}

ChainEvent == [type : Types, run : Runs, count : Nat]

EventOf(type, run) == [type |-> type, run |-> run, count |-> log[run]]

Latest == chain[Len(chain)]
Has(type) == \E i \in DOMAIN chain : chain[i].type = type
StartedRun == LET i == CHOOSE i \in DOMAIN chain : chain[i].type = "fine_started"
              IN  chain[i].run

-----------------------------------------------------------------------------
(* _validate_semantic_chain                                                *)

\* the types that may precede a type
Before(type) ==
    CASE type = "experiment_initialized" -> {}
      [] type = "coarse_checkpoint" -> {"experiment_initialized", "coarse_checkpoint"}
      [] type = "handoff_prepared" -> {"coarse_checkpoint"}
      [] type = "fine_start_candidate" -> {"handoff_prepared", "fine_start_candidate"}
      [] type = "fine_started" -> {"fine_start_candidate"}
      [] type = "fine_checkpoint" -> {"fine_started", "fine_checkpoint"}
      [] type = "fine_completed" -> {"fine_started", "fine_checkpoint"}
      [] type = "unfinished" -> {}

\* the event at i follows the one before it and binds what its run still is
Follows(i) ==
    LET e == chain[i] p == chain[i - 1] IN
    /\ p.type \in Before(e.type)
    /\ e.type \in {"coarse_checkpoint", "fine_checkpoint"} =>
            /\ e.count \in 1 .. log[e.run]
            /\ p.type = e.type => p.count <= e.count
    /\ e.type = "handoff_prepared" => e.count = log[Coarse] /\ e.count = p.count
    /\ e.type = "fine_start_candidate" =>
            /\ e.count = 1 /\ log[e.run] >= 1
            /\ \A j \in 1 .. i - 1 : chain[j].type = e.type => chain[j].run # e.run
    /\ e.type = "fine_started" => e.run = p.run
    /\ e.type \in {"fine_checkpoint", "fine_completed"} => e.run = StartedRun
    /\ e.type = "fine_completed" =>
            /\ e.count = log[e.run]
            /\ p.type = "fine_checkpoint" => e.count = p.count

\* read_unknown_blade_experiment accepts the chain
Readable ==
    /\ chain # <<>> /\ chain[1].type = "experiment_initialized"
    /\ log[Coarse] >= 1
    /\ \A i \in 2 .. Len(chain) : Follows(i)
    /\ Latest.type = "fine_start_candidate" => log[Latest.run] = 1

-----------------------------------------------------------------------------
(* UnknownBladeExperimentWriter.                                           *)

\* _require_current_event_integrity
Current == known = Len(chain)

\* _append: published and remembered
Append1(e) == chain' = Append(chain, e) /\ known' = known + 1

\* it raises before the publication or, with a failing directory sync, after it,
\* or a check that follows it raises
AppendRaises(e) ==
    /\ chain' \in {chain, Append(chain, e)}
    /\ known' \in {known, Len(chain')}

\* append_coarse_checkpoint; a generation that is not new needs a new run event
CheckpointCoarseAllowed(new) ==
    /\ Current
    /\ Latest.type \in Before("coarse_checkpoint")
    /\ log[Coarse] > 0
    /\ Latest.type = "coarse_checkpoint" => new \/ Latest.count # log[Coarse]

\* prepare_handoff: the final checkpoint binds the run's terminal event
PrepareAllowed ==
    /\ Current /\ Readable
    /\ Latest.type = "coarse_checkpoint" /\ Latest.count = log[Coarse]

\* append_fine_start_candidate
CandidateAllowed(f) ==
    /\ Current /\ Readable
    /\ Latest.type \in Before("fine_start_candidate")
    /\ log[f] = 1
    /\ \A i \in DOMAIN chain :
            chain[i].type = "fine_start_candidate" => chain[i].run # f

\* append_fine_started
StartedAllowed ==
    /\ Current /\ Readable
    /\ Latest.type = "fine_start_candidate" /\ log[Latest.run] = 1

\* append_fine_checkpoint
CheckpointFineAllowed(new) ==
    /\ Current /\ Readable
    /\ Latest.type \in Before("fine_checkpoint")
    /\ Latest.type = "fine_checkpoint" => new \/ Latest.count # log[StartedRun]

\* append_fine_completed
CompleteAllowed ==
    /\ Current /\ Readable
    /\ Latest.type \in Before("fine_completed")
    /\ Latest.type = "fine_checkpoint" => Latest.count = log[StartedRun]

-----------------------------------------------------------------------------
(* load_unknown_blade_resume_plan.                                         *)

\* mutant: a candidate, not the prepared handoff, ends the coarse scan
ByCandidate ==
    IF Has("fine_completed") THEN "complete"
    ELSE IF Has("fine_started") THEN "fine"
    ELSE IF Has("fine_start_candidate") THEN "prepared"
    ELSE "coarse"

\* mutant: the first milestone decides, not the last
FirstMilestone ==
    IF ~Has("handoff_prepared") THEN "coarse"
    ELSE IF Has("fine_start_candidate") THEN "prepared"
    ELSE IF Has("fine_started") THEN "fine" ELSE "complete"

ResumePhase ==
    IF Has("fine_completed") THEN "complete"
    ELSE IF Has("fine_started") THEN "fine"
    ELSE IF Has("handoff_prepared") THEN "prepared"
    ELSE "coarse"
=============================================================================
