---------------------- MODULE UnknownBladeRuntimeProofs ----------------------
(***************************************************************************)
(* The inductive invariant of UnknownBladeRuntime, its safety theorems and *)
(* the implementation of ExperimentStages, for any number of fine runs and *)
(* every bound on commands, stop requests and crashes.                     *)
(*                                                                         *)
(* First the chain: which event may be appended, what it follows, and that *)
(* no log of a run that the chain has closed grows again.  Then the two    *)
(* threads: which runner a handle names while the handoff moves it from    *)
(* one handle to the next, and which runners a stop request still has to   *)
(* look at.  The argument about a confirmed stop is ThreatInv's.           *)
(***************************************************************************)
EXTENDS UnknownBladeRuntime, Integers, SequenceTheorems, FiniteSetTheorems, TLAPS

-----------------------------------------------------------------------------
(* The inductive invariant.                                                 *)

CoarseTypes == {"experiment_initialized", "coarse_checkpoint", "handoff_prepared"}

\* the types that may stand anywhere before a type
Earlier(type) ==
    CASE type = "experiment_initialized" -> {}
      [] type = "coarse_checkpoint" -> {"experiment_initialized", "coarse_checkpoint"}
      [] type = "handoff_prepared" -> {"experiment_initialized", "coarse_checkpoint"}
      [] type = "fine_start_candidate" -> CoarseTypes \cup {"fine_start_candidate"}
      [] type = "fine_started" -> CoarseTypes \cup {"fine_start_candidate"}
      [] type = "fine_checkpoint" ->
            CoarseTypes \cup {"fine_start_candidate", "fine_started", "fine_checkpoint"}
      [] type = "fine_completed" ->
            CoarseTypes \cup {"fine_start_candidate", "fine_started", "fine_checkpoint"}
      [] type = "unfinished" -> Types \ {"unfinished"}

(* The events stand in the order of the stages, each follows the one before *)
(* it, and each binds a run of its stage.                                   *)
OrderInv ==
    \A i, j \in DOMAIN chain : i < j => chain[i].type \in Earlier(chain[j].type)

FollowsInv ==
    /\ chain # <<>> => chain[1].type = "experiment_initialized"
    /\ \A i \in DOMAIN chain : i > 1 /\ chain[i].type # "unfinished" => Follows(i)

MilestoneInv ==
    \A i \in DOMAIN chain :
        /\ chain[i].type \in CoarseTypes \cup {"unfinished"} => chain[i].run = Coarse
        /\ chain[i].type \notin CoarseTypes \cup {"unfinished"} =>
                chain[i].run \in 1 .. created /\ Has("handoff_prepared")
        /\ chain[i].type \in {"fine_checkpoint", "fine_completed"} => Has("fine_started")
        /\ chain[i].type = "unfinished" => pc = "down"

\* nobody appends to the run's log again
Still(r) == runner[r] \in Terminal \cup {"absent"} /\ busy # r

(* A run that the chain has closed is never continued.                      *)
StillInv ==
    /\ Has("handoff_prepared") => Still(Coarse)
    /\ Has("fine_completed") => Still(StartedRun)

\* the run that the chain has committed to
Committed(r) == Has("fine_started") /\ StartedRun = r

ConstructingPcs == {"flag4", "start", "flag5", "candidate", "verify_candidate", "commit",
                    "verify_commit", "activate", "publish", "release", "except"}
BusyPcs == {"work", "accept", "worked", "leaving", "first"}
CoarsePcs == {"handoff", "verify", "flag2", "stop_coarse", "flag3", "checkpoint", "prepare",
              "create", "construct", "flag4", "start", "flag5", "activate"}
ClosedPcs == {"flag3", "checkpoint", "prepare", "create", "construct"}
FreshPcs == {"candidate", "verify_candidate", "commit", "verify_commit"}
RoomPcs == {"handoff", "verify", "flag2", "stop_coarse", "flag3", "checkpoint", "prepare",
            "create"}

(* Where the transaction thread is, and whose runners the handles name.     *)
HandleInv ==
    /\ \A r \in Runs : r > created => runner[r] = "absent"
    /\ active \in Runs => runner[active] # "absent"
    /\ active = Coarse \/ active = None \/ active \in 1 .. created
    /\ fine \in {None, active} \ {Coarse}
    /\ busy # None => busy = active /\ pc \in BusyPcs
    /\ constructing # None =>
            /\ constructing = created /\ created >= 1 /\ runner[constructing] # "absent"
            /\ pc \in ConstructingPcs
            /\ runner[Coarse] = "aborted"
            /\ IF pc \in {"publish", "release"} THEN active = constructing ELSE active = Coarse
    /\ pc \in {"flag4", "start", "flag5", "activate", "publish", "release"} => constructing # None
    /\ pc = "release" => fine = constructing
    /\ pc \in CoarsePcs \/ then = "handoff" => active = Coarse
    /\ pc \in ClosedPcs => runner[Coarse] = "aborted"
    /\ pc = "construct" => created >= 1 /\ runner[created] = "idle"
    /\ pc = "flag4" => runner[constructing] = "idle"
    /\ pc \in RoomPcs \/ then = "handoff" => created < MaxFine
    /\ pc = "start" => runner[constructing] = "idle"
    /\ pc = "created" => runner[active] = "idle"
    /\ pc \notin SetPhasePcs => then = "idle"
    /\ pc = "down" => \A r \in Runs : runner[r] = "absent"
    /\ pc # "down" => chain # <<>>

(* The runner that is about to be started is the one that the chain calls   *)
(* for, and the candidate and the committed run are the fresh runner's.     *)
FreshInv ==
    /\ pc = "created" =>
            IF active = Coarse THEN ResumePhase = "coarse"
                               ELSE ResumePhase = "prepared" \/ Committed(active)
    /\ pc \in FreshPcs => Fresh \in FineRuns
    /\ pc \in {"verify_candidate", "commit"} =>
            chain # <<>> /\ Latest.type = "fine_start_candidate" /\ Latest.run = Fresh
    /\ pc \in {"verify_commit", "activate", "publish", "release"} => Committed(Fresh)
    /\ pc \in {"seal", "complete"} => Has("fine_started") /\ runner[StartedRun] = "complete"

UncommittedPcs == {"created", "candidate", "verify_candidate", "commit", "verify_commit",
                   "except", "block", "block_stop"}

(* A ready runner is a handle's, the coarse one's authority has ended when  *)
(* a fine one has it, and a fine runner that has not been committed works   *)
(* nowhere.                                                                 *)
AuthorityInv ==
    /\ \A r \in Runs : runner[r] = "ready" => r \in {active, constructing}
    /\ active \in FineRuns =>
            \/ Committed(active)
            \/ pc \in UncommittedPcs
            \/ pc \in SetPhasePcs /\ then = "block_stop"
            \/ runner[active] # "ready"
    /\ busy \in FineRuns => Committed(busy)

InTodo(r) == \E i \in DOMAIN todo : todo[i] = r

(* A runner that has motion authority, or is about to be started.           *)
Threat(r) ==
    \/ runner[r] = "ready"
    \/ pc = "created" /\ r = active
    \/ pc = "start" /\ r = constructing

(* Under a stop request nobody new is started, and the request looks at     *)
(* each runner that may move.                                               *)
RequestInv ==
    /\ stopConfirmed \/ opPc \notin {"idle", "flag"} => stopRequested
    /\ pc = "down" => ~stopRequested /\ opPc = "idle"
    /\ opPc \in {"idle", "flag", "mark", "active", "confirm"} => todo = <<>>
    /\ opPc \notin {"next", "stopping", "confirm"} => seen = "nothing" /\ ~failed
    /\ \A i \in DOMAIN todo : runner[todo[i]] # "absent"
    /\ \A i, j \in DOMAIN todo : i # j => todo[i] # todo[j]
    /\ opPc = "stopping" => todo # <<>> /\ runner[Head(todo)] # "idle"
    /\ opPc = "confirm" => stopConfirmed

ThreatInv ==
    \A r \in Runs : Threat(r) =>
        /\ ~stopConfirmed
        /\ opPc = "constructing" => InTodo(r) \/ r \in {constructing, fine}
        /\ opPc = "fine" => InTodo(r) \/ r = fine
        /\ opPc \in {"next", "stopping"} =>
                InTodo(r) \/ failed \/ (r = active /\ seen = "unconfirmed")

MaskInv ==
    /\ StopIsNotMasked
    /\ pc = "overwrite" => goal \in {"blocked", "stopped"}

IInv ==
    /\ TypeOK
    /\ OrderInv /\ FollowsInv /\ MilestoneInv /\ StillInv
    /\ HandleInv /\ FreshInv /\ AuthorityInv
    /\ RequestInv /\ ThreatInv /\ MaskInv

-----------------------------------------------------------------------------
(* The chain: what an event that is appended must be.                       *)

\* the event may be appended to the chain as it is
NewEvent(e) ==
    /\ chain # <<>>
    /\ Latest.type # "unfinished"
    /\ \/ e.type = "unfinished" /\ e.run = Coarse
       \/ /\ Latest.type \in Before(e.type)
          /\ e.count = log[e.run] /\ e.count >= 1
          /\ \/ e.type = "coarse_checkpoint" /\ e.run = Coarse
             \/ e.type = "handoff_prepared" /\ e.run = Coarse /\ e.count = Latest.count
             \/ /\ e.type = "fine_start_candidate" /\ e.run \in 1 .. created /\ e.count = 1
                /\ \A i \in DOMAIN chain :
                        chain[i].type = "fine_start_candidate" => chain[i].run # e.run
             \/ e.type = "fine_started" /\ e.run = Latest.run
             \/ e.type = "fine_checkpoint" /\ e.run = StartedRun
             \/ /\ e.type = "fine_completed" /\ e.run = StartedRun
                /\ Latest.type = "fine_checkpoint" => e.count = Latest.count

(* What may stand before a predecessor may stand before its successor.      *)
LEMMA EarlierTypes ==
    ASSUME NEW t \in Types, NEW s \in Before(t)
    PROVE  s \in Earlier(t) /\ Earlier(s) \subseteq Earlier(t)
  BY DEF Before, Earlier, Types, CoarseTypes

(* A chain has a latest event.                                              *)
LEMMA LatestType ==
    ASSUME chain \in Seq(ChainEvent), chain # <<>>
    PROVE  Len(chain) \in DOMAIN chain /\ Latest \in ChainEvent /\ Latest.type \in Types
  <1>1. Len(chain) \in DOMAIN chain /\ chain[Len(chain)] \in ChainEvent
    OBVIOUS
  <1> QED
    BY <1>1 DEF Latest, ChainEvent

(* One run is started, and StartedRun names it.                             *)
LEMMA StartedOnce ==
    ASSUME chain \in Seq(ChainEvent), OrderInv,
           NEW i \in DOMAIN chain, chain[i].type = "fine_started"
    PROVE  /\ StartedRun = chain[i].run /\ Has("fine_started")
           /\ \A j \in DOMAIN chain : chain[j].type = "fine_started" => j = i
  <1>1. \A j \in DOMAIN chain : chain[j].type = "fine_started" => j = i
    <2> SUFFICES ASSUME NEW j \in DOMAIN chain, chain[j].type = "fine_started", j # i
                 PROVE  FALSE
      OBVIOUS
    <2>1. "fine_started" \notin Earlier("fine_started")
      BY DEF Earlier, CoarseTypes
    <2> QED
      BY <2>1 DEF OrderInv
  <1> QED
    BY <1>1 DEF StartedRun, Has

(* The run that StartedRun names is that of an event.                       *)
LEMMA StartedExists ==
    ASSUME chain \in Seq(ChainEvent), OrderInv, Has("fine_started")
    PROVE  \E i \in DOMAIN chain : chain[i].type = "fine_started" /\ chain[i].run = StartedRun
  BY StartedOnce DEF Has

(* The order survives the append of an event.                               *)
LEMMA OrderAppended ==
    ASSUME chain \in Seq(ChainEvent), OrderInv, NEW e \in ChainEvent, NewEvent(e),
           chain' = Append(chain, e)
    PROVE  OrderInv'
  <1> DEFINE n == Len(chain)
  <1>1. /\ n \in Nat /\ n \in DOMAIN chain /\ Latest = chain[n] /\ Latest.type \in Types
        /\ DOMAIN chain = 1 .. n /\ DOMAIN chain' = 1 .. n + 1
        /\ chain'[n + 1] = e /\ \A i \in 1 .. n : chain'[i] = chain[i]
        /\ \A i \in 1 .. n : chain[i] \in ChainEvent
    BY LatestType DEF NewEvent, Latest
  <1>2. e.type \in Types
    BY DEF ChainEvent
  <1> HIDE DEF n
  <1>3. ASSUME NEW i \in 1 .. n PROVE chain[i].type \in Earlier(e.type)
    <2>1. chain[i].type \in Earlier(Latest.type) \/ i = n
      BY <1>1 DEF OrderInv
    <2>2. CASE e.type = "unfinished"
      <3>1. chain[i].type \in Types /\ chain[i].type # "unfinished"
        <4>1. chain[i].type \in Types
          BY <1>1 DEF ChainEvent
        <4>2. "unfinished" \notin Earlier(Latest.type)
          BY <1>1 DEF Earlier, Types, CoarseTypes, NewEvent
        <4> QED
          BY <1>1, <2>1, <4>1, <4>2 DEF NewEvent
      <3> QED
        BY <2>2, <3>1 DEF Earlier
    <2>3. CASE e.type # "unfinished"
      <3>1. Latest.type \in Before(e.type)
        BY <2>3 DEF NewEvent
      <3> QED
        BY <1>1, <1>2, <2>1, <3>1, EarlierTypes
    <2> QED
      BY <2>2, <2>3
  <1> SUFFICES ASSUME NEW i \in 1 .. n + 1, NEW j \in 1 .. n + 1, i < j
               PROVE  chain'[i].type \in Earlier(chain'[j].type)
    BY <1>1 DEF OrderInv
  <1>4. CASE j = n + 1
    BY <1>1, <1>3, <1>4
  <1>5. CASE j # n + 1
    BY <1>1, <1>5 DEF OrderInv
  <1> QED
    BY <1>4, <1>5

(* The run that has been started stays the one.                             *)
LEMMA StartedKept ==
    ASSUME chain \in Seq(ChainEvent), OrderInv, NEW e \in ChainEvent,
           chain' = Append(chain, e), OrderInv', Has("fine_started")
    PROVE  Has("fine_started")' /\ StartedRun' = StartedRun
  <1>1. PICK i \in DOMAIN chain : chain[i].type = "fine_started" /\ chain[i].run = StartedRun
    BY StartedExists
  <1>2. i \in DOMAIN chain' /\ chain'[i] = chain[i] /\ DOMAIN chain' = 1 .. Len(chain) + 1
    OBVIOUS
  <1>3. ASSUME NEW j \in DOMAIN chain', chain'[j].type = "fine_started" PROVE j = i
    <2>1. "fine_started" \notin Earlier("fine_started")
      BY DEF Earlier, CoarseTypes
    <2> QED
      BY <1>1, <1>2, <1>3, <2>1 DEF OrderInv
  <1>4. (CHOOSE j \in DOMAIN chain' : chain'[j].type = "fine_started") = i
    BY <1>1, <1>2, <1>3
  <1> QED
    BY <1>1, <1>2, <1>4 DEF StartedRun, Has

(* An event goes on to follow its predecessor while the logs only grow, and *)
(* not those of the runs that the chain has closed.                         *)
LEMMA FollowsKept ==
    ASSUME chain \in Seq(ChainEvent), log \in [Runs -> Nat], log' \in [Runs -> Nat],
           \A r \in Runs : log[r] <= log'[r],
           Has("handoff_prepared") => log'[Coarse] = log[Coarse],
           Has("fine_completed") => log'[StartedRun] = log[StartedRun],
           Has("fine_started") => StartedRun' = StartedRun,
           MilestoneInv,
           NEW i \in DOMAIN chain, i > 1, Follows(i), \A j \in 1 .. i : chain'[j] = chain[j]
    PROVE  Follows(i)'
  <1> DEFINE e == chain[i]
             p == chain[i - 1]
  <1>1. /\ i \in Nat /\ i - 1 \in DOMAIN chain /\ chain'[i] = e /\ chain'[i - 1] = p
        /\ e \in ChainEvent /\ p \in ChainEvent
    OBVIOUS
  <1>2. e.run \in Runs /\ e.count \in Nat /\ p.count \in Nat /\ log[e.run] \in Nat
        /\ log'[e.run] \in Nat /\ log[e.run] <= log'[e.run] /\ Coarse \in Runs
    BY <1>1 DEF ChainEvent, Runs
  <1>3. /\ e.type \in {"fine_checkpoint", "fine_completed"} => StartedRun' = StartedRun
        /\ e.type = "fine_completed" => log'[StartedRun] = log[StartedRun]
        /\ e.type = "handoff_prepared" => log'[Coarse] = log[Coarse]
    BY <1>1 DEF MilestoneInv, Has
  <1>f. /\ p.type \in Before(e.type)
        /\ e.type \in {"coarse_checkpoint", "fine_checkpoint"} =>
                e.count \in 1 .. log[e.run] /\ (p.type = e.type => p.count <= e.count)
        /\ e.type = "handoff_prepared" => e.count = log[Coarse] /\ e.count = p.count
        /\ e.type = "fine_start_candidate" =>
                /\ e.count = 1 /\ log[e.run] >= 1
                /\ \A j \in 1 .. i - 1 : chain[j].type = e.type => chain[j].run # e.run
        /\ e.type = "fine_started" => e.run = p.run
        /\ e.type \in {"fine_checkpoint", "fine_completed"} => e.run = StartedRun
        /\ e.type = "fine_completed" =>
                e.count = log[e.run] /\ (p.type = "fine_checkpoint" => e.count = p.count)
    BY DEF Follows
  <1>g. \A j \in 1 .. i - 1 : chain'[j] = chain[j]
    BY <1>1
  <1> HIDE DEF e, p
  <1>4. e.type \in {"coarse_checkpoint", "fine_checkpoint"} => e.count \in 1 .. log'[e.run]
    BY <1>2, <1>f
  <1>5. ASSUME e.type = "fine_start_candidate"
        PROVE  /\ log'[e.run] >= 1
               /\ \A j \in 1 .. i - 1 : chain'[j].type = e.type => chain'[j].run # e.run
    <2>1. log[e.run] >= 1 /\ \A j \in 1 .. i - 1 : chain[j].type = e.type => chain[j].run # e.run
      BY <1>5, <1>f
    <2>2. log'[e.run] >= 1
      BY <1>2, <2>1
    <2> QED
      BY <1>g, <2>1, <2>2
  <1>6. Follows(i)' <=>
            /\ p.type \in Before(e.type)
            /\ e.type \in {"coarse_checkpoint", "fine_checkpoint"} =>
                    e.count \in 1 .. log'[e.run] /\ (p.type = e.type => p.count <= e.count)
            /\ e.type = "handoff_prepared" => e.count = log'[Coarse] /\ e.count = p.count
            /\ e.type = "fine_start_candidate" =>
                    /\ e.count = 1 /\ log'[e.run] >= 1
                    /\ \A j \in 1 .. i - 1 : chain'[j].type = e.type => chain'[j].run # e.run
            /\ e.type = "fine_started" => e.run = p.run
            /\ e.type \in {"fine_checkpoint", "fine_completed"} => e.run = StartedRun'
            /\ e.type = "fine_completed" =>
                    e.count = log'[e.run] /\ (p.type = "fine_checkpoint" => e.count = p.count)
    BY <1>1 DEF Follows
  <1> QED
    BY <1>3, <1>4, <1>5, <1>6, <1>f

(* An event that may be appended follows the latest one.                    *)
LEMMA FollowsAppended ==
    ASSUME chain \in Seq(ChainEvent), log \in [Runs -> Nat], NEW e \in ChainEvent, NewEvent(e),
           OrderInv, FollowsInv, MilestoneInv, created \in Nat,
           chain' = Append(chain, e), log' = log, OrderInv'
    PROVE  FollowsInv'
  <1> DEFINE n == Len(chain)
  <1>1. /\ n \in Nat /\ n \in DOMAIN chain /\ Latest = chain[n] /\ Latest \in ChainEvent
        /\ DOMAIN chain = 1 .. n /\ DOMAIN chain' = 1 .. n + 1 /\ n >= 1
        /\ chain'[n + 1] = e /\ \A i \in 1 .. n : chain'[i] = chain[i]
    BY LatestType DEF NewEvent, Latest
  <1>2. /\ Has("fine_started") => StartedRun' = StartedRun
        /\ Coarse \in Runs /\ e.run \in Runs /\ e.count \in Nat /\ log[e.run] \in Nat
    BY StartedKept DEF ChainEvent, Runs
  <1>3. ASSUME NEW i \in 1 .. n, i > 1, chain[i].type # "unfinished" PROVE Follows(i)'
    <2>1. Follows(i) /\ \A j \in 1 .. i : chain'[j] = chain[j]
      BY <1>1, <1>3 DEF FollowsInv
    <2>2. \A r \in Runs : log[r] <= log'[r]
      OBVIOUS
    <2> QED
      BY <1>1, <1>2, <1>3, <2>1, <2>2, FollowsKept
  <1>4. ASSUME NEW k, k = n + 1, e.type # "unfinished" PROVE Follows(k)'
    <2>1. /\ Latest.type \in Before(e.type) /\ e.count = log[e.run] /\ e.count >= 1
          /\ e.type = "handoff_prepared" => e.run = Coarse /\ e.count = Latest.count
          /\ e.type = "fine_start_candidate" =>
                e.count = 1 /\ \A i \in DOMAIN chain :
                    chain[i].type = "fine_start_candidate" => chain[i].run # e.run
          /\ e.type = "fine_started" => e.run = Latest.run
          /\ e.type \in {"fine_checkpoint", "fine_completed"} => e.run = StartedRun
          /\ e.type = "fine_completed" =>
                (Latest.type = "fine_checkpoint" => e.count = Latest.count)
      BY <1>4 DEF NewEvent
    <2>2. e.type \in {"fine_checkpoint", "fine_completed"} => StartedRun' = StartedRun
      <3>1. e.type \in {"fine_checkpoint", "fine_completed"} =>
                Latest.type \in {"fine_started", "fine_checkpoint"}
        BY <2>1 DEF Before
      <3>2. Latest.type \in {"fine_started", "fine_checkpoint"} => Has("fine_started")
        BY <1>1 DEF MilestoneInv, Has
      <3> QED
        BY <1>2, <3>1, <3>2
    <2>3. /\ e.type = "coarse_checkpoint" /\ Latest.type = "coarse_checkpoint" =>
                Latest.count <= log[Coarse] /\ e.run = Coarse
          /\ e.type = "fine_checkpoint" /\ Latest.type = "fine_checkpoint" =>
                Latest.count <= log[StartedRun]
      <3>1. SUFFICES ASSUME Latest.type \in {"coarse_checkpoint", "fine_checkpoint"}
                     PROVE  /\ Latest.type = "coarse_checkpoint" => Latest.count <= log[Coarse]
                            /\ Latest.type = "fine_checkpoint" => Latest.count <= log[StartedRun]
        BY <1>4 DEF NewEvent
      <3>2. n > 1 /\ Follows(n)
        BY <1>1, <3>1 DEF FollowsInv
      <3>3. /\ Latest.count \in 1 .. log[Latest.run]
            /\ Latest.type = "fine_checkpoint" => Latest.run = StartedRun
            /\ Latest.type = "coarse_checkpoint" => Latest.run = Coarse
        BY <1>1, <3>1, <3>2 DEF Follows, MilestoneInv, CoarseTypes
      <3>4. Latest.run \in Runs /\ log[Latest.run] \in Nat
        BY <1>1 DEF ChainEvent
      <3> QED
        BY <3>3, <3>4
    <2>4. /\ chain'[k] = e /\ chain'[k - 1] = Latest /\ k - 1 = n
          /\ \A j \in 1 .. n : chain'[j] = chain[j]
      BY <1>1, <1>4
    <2>5. \A j \in 1 .. n : chain[j].type = "fine_start_candidate" =>
                (e.type = "fine_start_candidate" => chain[j].run # e.run)
      BY <1>1, <2>1
    <2> HIDE DEF n
    <2>6. Follows(k)' <=>
            /\ Latest.type \in Before(e.type)
            /\ e.type \in {"coarse_checkpoint", "fine_checkpoint"} =>
                    /\ e.count \in 1 .. log[e.run]
                    /\ Latest.type = e.type => Latest.count <= e.count
            /\ e.type = "handoff_prepared" => e.count = log[Coarse] /\ e.count = Latest.count
            /\ e.type = "fine_start_candidate" =>
                    /\ e.count = 1 /\ log[e.run] >= 1
                    /\ \A j \in 1 .. n : chain'[j].type = e.type => chain'[j].run # e.run
            /\ e.type = "fine_started" => e.run = Latest.run
            /\ e.type \in {"fine_checkpoint", "fine_completed"} => e.run = StartedRun'
            /\ e.type = "fine_completed" =>
                    /\ e.count = log[e.run]
                    /\ Latest.type = "fine_checkpoint" => e.count = Latest.count
      BY <2>4 DEF Follows
    <2>7. \A j \in 1 .. n : e.type = "fine_start_candidate" /\ chain'[j].type = e.type =>
                chain'[j].run # e.run
      BY <2>4, <2>5
    <2>8. e.count \in 1 .. log[e.run]
      BY <1>2, <2>1
    <2> QED
      BY <1>2, <2>1, <2>2, <2>3, <2>6, <2>7, <2>8
  <1>5. chain'[1].type = "experiment_initialized"
    BY <1>1 DEF FollowsInv, NewEvent
  <1> HIDE DEF n
  <1> SUFFICES ASSUME NEW i \in 1 .. n + 1, i > 1, chain'[i].type # "unfinished"
               PROVE  Follows(i)'
    BY <1>1, <1>5 DEF FollowsInv
  <1>6. CASE i = n + 1
    BY <1>1, <1>4, <1>6
  <1>7. CASE i # n + 1
    BY <1>1, <1>3, <1>7
  <1> QED
    BY <1>6, <1>7

ChainInv == OrderInv /\ FollowsInv /\ MilestoneInv

\* nothing may follow an append that the process did not survive
Unfinished == Has("unfinished")

(* The new event binds a run of its stage.                                  *)
LEMMA MilestoneAppended ==
    ASSUME chain \in Seq(ChainEvent), NEW e \in ChainEvent, NewEvent(e),
           OrderInv, MilestoneInv, created \in Nat, created' = created,
           chain' = Append(chain, e), e.type = "unfinished" => pc' = "down"
    PROVE  MilestoneInv'
  <1> DEFINE n == Len(chain)
             late == {"fine_start_candidate", "fine_started", "fine_checkpoint", "fine_completed"}
  <1>1. /\ n \in Nat /\ n \in DOMAIN chain /\ Latest = chain[n] /\ Latest.type \in Types
        /\ DOMAIN chain = 1 .. n /\ DOMAIN chain' = 1 .. n + 1
        /\ chain'[n + 1] = e /\ \A i \in 1 .. n : chain'[i] = chain[i]
        /\ \A i \in 1 .. n : chain[i] \in ChainEvent
    BY LatestType DEF NewEvent, Latest
  <1> HIDE DEF n
  <1>2. \A t : Has(t) => Has(t)'
    BY <1>1 DEF Has
  <1>3. ASSUME NEW i \in 1 .. n
        PROVE  chain[i].type # "unfinished"
    <2>1. "unfinished" \notin Earlier(Latest.type)
      BY <1>1 DEF Earlier, Types, CoarseTypes, NewEvent
    <2> QED
      BY <1>1, <2>1 DEF OrderInv, NewEvent
  <1>4. e.type \in late =>
            e.run \in 1 .. created /\ Has("handoff_prepared")
    <2>1. Latest.type \in late => Latest.run \in 1 .. created /\ Has("handoff_prepared")
      BY <1>1 DEF MilestoneInv, CoarseTypes
    <2>2. Latest.type = "handoff_prepared" => Has("handoff_prepared")
      BY <1>1 DEF Has
    <2>3. e.type = "fine_start_candidate" =>
                /\ e.run \in 1 .. created
                /\ Latest.type \in {"handoff_prepared", "fine_start_candidate"}
      BY DEF NewEvent, Before
    <2>4. e.type = "fine_started" => Latest.type = "fine_start_candidate" /\ e.run = Latest.run
      BY DEF NewEvent, Before
    <2>5. e.type \in {"fine_checkpoint", "fine_completed"} =>
                e.run = StartedRun /\ Latest.type \in {"fine_started", "fine_checkpoint"}
      BY DEF NewEvent, Before
    <2>6. Latest.type \in {"fine_started", "fine_checkpoint"} => Has("fine_started")
      BY <1>1 DEF MilestoneInv, Has
    <2>7. Has("fine_started") => StartedRun \in 1 .. created
      BY <1>1, StartedExists DEF MilestoneInv, CoarseTypes
    <2> QED
      BY <2>1, <2>2, <2>3, <2>4, <2>5, <2>6, <2>7
  <1>5. e.type \in {"fine_checkpoint", "fine_completed"} => Has("fine_started")
    <2>1. e.type \in {"fine_checkpoint", "fine_completed"} =>
                Latest.type \in {"fine_started", "fine_checkpoint"}
      BY DEF NewEvent, Before
    <2> QED
      BY <1>1, <2>1 DEF MilestoneInv, Has
  <1>6. e.type \in CoarseTypes \cup {"unfinished"} => e.run = Coarse
    BY DEF NewEvent, CoarseTypes, Before
  <1>7. e.type \in CoarseTypes \cup {"unfinished"} \cup late
    BY DEF ChainEvent, Types, CoarseTypes
  <1> SUFFICES ASSUME NEW i \in 1 .. n + 1
               PROVE  /\ chain'[i].type \in CoarseTypes \cup {"unfinished"} =>
                              chain'[i].run = Coarse
                      /\ chain'[i].type \notin CoarseTypes \cup {"unfinished"} =>
                            chain'[i].run \in 1 .. created /\ Has("handoff_prepared")'
                      /\ chain'[i].type \in {"fine_checkpoint", "fine_completed"} =>
                            Has("fine_started")'
                      /\ chain'[i].type = "unfinished" => pc' = "down"
    BY <1>1 DEF MilestoneInv
  <1>8. CASE i = n + 1
    BY <1>1, <1>2, <1>4, <1>5, <1>6, <1>7, <1>8
  <1>9. CASE i # n + 1
    <2>1. i \in 1 .. n /\ chain'[i] = chain[i]
      BY <1>1, <1>9
    <2> QED
      BY <1>1, <1>2, <1>3, <2>1 DEF MilestoneInv
  <1> QED
    BY <1>8, <1>9

(* An event is appended.                                                    *)
LEMMA Appended ==
    ASSUME chain \in Seq(ChainEvent), log \in [Runs -> Nat], created \in Nat, ChainInv,
           NEW e \in ChainEvent, NewEvent(e), e.type = "unfinished" => pc' = "down",
           chain' = Append(chain, e), UNCHANGED <<log, created>>
    PROVE  ChainInv'
  BY OrderAppended, FollowsAppended, MilestoneAppended DEF ChainInv

\* the run may still get events: the chain has not closed it
Loggable(r) ==
    /\ Has("handoff_prepared") => r # Coarse
    /\ Has("fine_completed") => r # StartedRun

(* A run gets an event, or none does.                                       *)
LEMMA Logged ==
    ASSUME chain \in Seq(ChainEvent), log \in [Runs -> Nat], created \in Nat, ChainInv,
           chain' = chain, created' \in Nat, created <= created',
           log' = log \/ \E r \in Runs : Loggable(r) /\ Log(r),
           Unfinished => pc' = "down"
    PROVE  ChainInv'
  <1>1. OrderInv'
    BY DEF OrderInv, ChainInv
  <1>2. /\ log' \in [Runs -> Nat] /\ \A r \in Runs : log[r] <= log'[r]
        /\ Has("handoff_prepared") => log'[Coarse] = log[Coarse]
        /\ Has("fine_completed") => log'[StartedRun] = log[StartedRun]
        /\ StartedRun' = StartedRun /\ \A t : Has(t)' <=> Has(t)
    <2>0. StartedRun' = StartedRun /\ \A t : Has(t)' <=> Has(t)
      BY DEF StartedRun, Has
    <2>1. CASE log' = log
      BY <2>0, <2>1
    <2>2. ASSUME NEW r \in Runs, Loggable(r), Log(r)
          PROVE  /\ log' \in [Runs -> Nat] /\ \A q \in Runs : log[q] <= log'[q]
                 /\ Has("handoff_prepared") => log'[Coarse] = log[Coarse]
                 /\ Has("fine_completed") => log'[StartedRun] = log[StartedRun]
      <3>1. /\ log' = [log EXCEPT ![r] = @ + 1] /\ log[r] \in Nat
        BY <2>2 DEF Log
      <3>2. /\ log' \in [Runs -> Nat]
            /\ \A q \in Runs : log[q] <= log'[q] /\ (q # r => log'[q] = log[q])
        BY <3>1
      <3>3. Has("fine_completed") => StartedRun \in Runs
        <4>1. SUFFICES ASSUME NEW i \in DOMAIN chain, chain[i].type = "fine_completed"
                       PROVE  StartedRun \in Runs
          BY DEF Has
        <4>2. Has("fine_started")
          BY <4>1 DEF ChainInv, MilestoneInv
        <4>3. PICK j \in DOMAIN chain : chain[j].run = StartedRun
          BY <4>2, StartedExists DEF ChainInv
        <4>4. chain[j] \in ChainEvent
          OBVIOUS
        <4> QED
          BY <4>3, <4>4 DEF ChainEvent
      <3> QED
        BY <2>0, <2>2, <3>2, <3>3 DEF Loggable, Runs
    <2> QED
      BY <2>0, <2>1, <2>2
  <1>3. FollowsInv'
    <2>1. chain # <<>> => chain'[1].type = "experiment_initialized"
      BY DEF ChainInv, FollowsInv
    <2>2. ASSUME NEW i \in DOMAIN chain, i > 1, chain[i].type # "unfinished" PROVE Follows(i)'
      <3>1. Follows(i) /\ MilestoneInv /\ \A j \in 1 .. i : chain'[j] = chain[j]
        BY <2>2 DEF ChainInv, FollowsInv
      <3> QED
        BY <1>2, <2>2, <3>1, FollowsKept
    <2> QED
      BY <2>1, <2>2 DEF FollowsInv
  <1>4. MilestoneInv'
    BY <1>2 DEF ChainInv, MilestoneInv, Unfinished, Has
  <1> QED
    BY <1>1, <1>3, <1>4 DEF ChainInv

-----------------------------------------------------------------------------
(* The chain: every append of the runtime is of such an event.              *)

(* The coarse run and the fine runs.                                        *)
LEMMA RunFacts ==
    /\ Coarse \in Runs /\ Coarse \notin FineRuns /\ Coarse = 0 /\ None \notin Runs
    /\ \A r \in Runs : r \in Nat
    /\ \A f \in FineRuns : f \in Runs /\ f # Coarse /\ f >= 1
    /\ \A f \in Runs : f # Coarse => f \in FineRuns
    /\ \A n \in 0 .. MaxFine : n >= 1 => n \in FineRuns
  BY ChainAssumption, RuntimeAssumption DEF Runs, FineRuns, Coarse

(* What the invariant says of the chain.                                    *)
LEMMA ChainFacts ==
    ASSUME IInv
    PROVE  /\ chain \in Seq(ChainEvent) /\ log \in [Runs -> Nat] /\ created \in Nat
           /\ ChainInv
           /\ pc # "down" => chain # <<>>
           /\ Has("fine_started") =>
                StartedRun \in FineRuns /\ StartedRun \in 1 .. created /\ log[StartedRun] >= 1
           /\ Has("fine_completed") => Has("fine_started")
           /\ Unfinished => pc = "down"
  <1>1. /\ chain \in Seq(ChainEvent) /\ log \in [Runs -> Nat] /\ created \in 0 .. MaxFine
        /\ ChainInv
        /\ pc # "down" => chain # <<>>
    BY DEF IInv, TypeOK, ChainInv, HandleInv
  <1>2. (Has("fine_completed") => Has("fine_started")) /\ (Unfinished => pc = "down")
    BY <1>1 DEF ChainInv, MilestoneInv, Has, Unfinished
  <1>3. ASSUME Has("fine_started")
        PROVE  StartedRun \in FineRuns /\ StartedRun \in 1 .. created /\ log[StartedRun] >= 1
    <2>1. PICK i \in DOMAIN chain : chain[i].type = "fine_started" /\ chain[i].run = StartedRun
      BY <1>1, <1>3, StartedExists DEF ChainInv
    <2>2. StartedRun \in 1 .. created
      BY <1>1, <2>1 DEF ChainInv, MilestoneInv, CoarseTypes
    <2>3. i > 1 /\ Follows(i) /\ i \in Nat /\ i - 1 \in DOMAIN chain
      BY <1>1, <2>1 DEF ChainInv, FollowsInv
    <2>4. chain[i - 1].type = "fine_start_candidate" /\ chain[i - 1].run = StartedRun
      BY <2>1, <2>3 DEF Follows, Before
    <2>5. i - 1 > 1 /\ Follows(i - 1)
      BY <1>1, <2>3, <2>4 DEF ChainInv, FollowsInv
    <2>6. log[StartedRun] >= 1
      BY <2>4, <2>5 DEF Follows
    <2> QED
      BY <1>1, <2>2, <2>6, ChainAssumption DEF FineRuns
  <1> QED
    BY <1>1, <1>2, <1>3

(* The fields of an event that the runtime builds.                          *)
LEMMA EventType ==
    ASSUME IInv, NEW t \in Types, NEW r \in Runs
    PROVE  /\ EventOf(t, r) \in ChainEvent /\ EventOf(t, r).type = t
           /\ EventOf(t, r).run = r /\ EventOf(t, r).count = log[r]
  BY ChainFacts DEF EventOf, ChainEvent

(* The checks of append_coarse_checkpoint suffice.                          *)
LEMMA NewCoarseCheckpoint ==
    ASSUME IInv, pc # "down", NEW b \in BOOLEAN, CheckpointCoarseAllowed(b)
    PROVE  NewEvent(EventOf("coarse_checkpoint", Coarse))
  <1>1. Latest.type \in Before("coarse_checkpoint") /\ log[Coarse] > 0 /\ log[Coarse] \in Nat
    BY ChainFacts, RunFacts DEF CheckpointCoarseAllowed
  <1>2. Latest.type # "unfinished" /\ chain # <<>> /\ "coarse_checkpoint" \in Types
    BY <1>1, ChainFacts DEF Before, Types
  <1> QED
    BY <1>1, <1>2, EventType, RunFacts DEF NewEvent

(* The checks of prepare_handoff suffice.                                   *)
LEMMA NewHandoff ==
    ASSUME IInv, pc # "down", PrepareAllowed
    PROVE  NewEvent(EventOf("handoff_prepared", Coarse))
  <1>1. /\ Latest.type = "coarse_checkpoint" /\ Latest.count = log[Coarse]
        /\ chain # <<>> /\ log[Coarse] \in Nat
    BY ChainFacts, RunFacts DEF PrepareAllowed
  <1>2. Len(chain) > 1 /\ Len(chain) \in DOMAIN chain /\ Follows(Len(chain))
    BY <1>1, ChainFacts, LatestType DEF ChainInv, FollowsInv, Latest
  <1>3. Latest.count >= 1
    BY <1>1, <1>2, ChainFacts DEF Follows, Latest, ChainInv, MilestoneInv, CoarseTypes
  <1>4. "handoff_prepared" \in Types /\ "coarse_checkpoint" \in Before("handoff_prepared")
    BY DEF Types, Before
  <1> QED
    BY <1>1, <1>3, <1>4, EventType, RunFacts DEF NewEvent

(* The checks of append_fine_start_candidate suffice.                       *)
LEMMA NewCandidate ==
    ASSUME IInv, pc # "down", NEW f \in FineRuns, f \in 1 .. created, CandidateAllowed(f)
    PROVE  NewEvent(EventOf("fine_start_candidate", f))
  <1>1. Latest.type \in Before("fine_start_candidate") /\ log[f] = 1 /\ chain # <<>>
        /\ \A i \in DOMAIN chain : chain[i].type = "fine_start_candidate" => chain[i].run # f
    BY ChainFacts DEF CandidateAllowed
  <1>2. Latest.type # "unfinished" /\ "fine_start_candidate" \in Types
    BY <1>1 DEF Before, Types
  <1> QED
    BY <1>1, <1>2, EventType, RunFacts DEF NewEvent

(* The checks of append_fine_started suffice.                               *)
LEMMA NewStart ==
    ASSUME IInv, pc # "down", StartedAllowed
    PROVE  /\ NewEvent(EventOf("fine_started", Latest.run))
           /\ Latest.run \in FineRuns /\ Latest.run \in 1 .. created
  <1>1. Latest.type = "fine_start_candidate" /\ log[Latest.run] = 1 /\ chain # <<>>
    BY ChainFacts DEF StartedAllowed
  <1>2. Latest.run \in 1 .. created
    BY <1>1, ChainFacts, LatestType DEF Latest, ChainInv, MilestoneInv, CoarseTypes
  <1>3. Latest.run \in FineRuns
    BY <1>2, ChainAssumption DEF IInv, TypeOK, FineRuns
  <1>4. "fine_started" \in Types /\ "fine_start_candidate" \in Before("fine_started")
    BY DEF Types, Before
  <1> QED
    BY <1>1, <1>2, <1>3, <1>4, EventType, RunFacts DEF NewEvent

(* The checks of append_fine_checkpoint suffice.                            *)
LEMMA NewFineCheckpoint ==
    ASSUME IInv, pc # "down", NEW b \in BOOLEAN, CheckpointFineAllowed(b)
    PROVE  /\ NewEvent(EventOf("fine_checkpoint", StartedRun))
           /\ Has("fine_started") /\ StartedRun \in FineRuns
  <1>1. Latest.type \in Before("fine_checkpoint") /\ chain # <<>>
    BY ChainFacts DEF CheckpointFineAllowed
  <1>2. Latest.type \in {"fine_started", "fine_checkpoint"} /\ "fine_checkpoint" \in Types
    BY <1>1 DEF Before, Types
  <1>3. Has("fine_started")
    BY <1>1, <1>2, ChainFacts, LatestType DEF Latest, Has, ChainInv, MilestoneInv
  <1>4. StartedRun \in FineRuns /\ log[StartedRun] \in Nat /\ log[StartedRun] >= 1
    BY <1>3, ChainFacts, RunFacts
  <1> DEFINE e == EventOf("fine_checkpoint", StartedRun)
  <1>5. e.type = "fine_checkpoint" /\ e.run = StartedRun /\ e.count = log[StartedRun]
    BY <1>2, <1>4, EventType, RunFacts
  <1> HIDE DEF e
  <1>6. NewEvent(e)
    BY <1>1, <1>2, <1>4, <1>5 DEF NewEvent
  <1> QED
    BY <1>3, <1>4, <1>6 DEF e

(* The checks of append_fine_completed suffice.                             *)
LEMMA NewCompletion ==
    ASSUME IInv, pc # "down", CompleteAllowed
    PROVE  /\ NewEvent(EventOf("fine_completed", StartedRun))
           /\ Has("fine_started") /\ StartedRun \in FineRuns
  <1>1. /\ Latest.type \in Before("fine_completed") /\ chain # <<>>
        /\ Latest.type = "fine_checkpoint" => Latest.count = log[StartedRun]
    BY ChainFacts DEF CompleteAllowed
  <1>2. Latest.type \in {"fine_started", "fine_checkpoint"} /\ "fine_completed" \in Types
    BY <1>1 DEF Before, Types
  <1>3. Has("fine_started")
    BY <1>1, <1>2, ChainFacts, LatestType DEF Latest, Has, ChainInv, MilestoneInv
  <1>4. StartedRun \in FineRuns /\ log[StartedRun] \in Nat /\ log[StartedRun] >= 1
    BY <1>3, ChainFacts, RunFacts
  <1> DEFINE e == EventOf("fine_completed", StartedRun)
  <1>5. e.type = "fine_completed" /\ e.run = StartedRun /\ e.count = log[StartedRun]
    BY <1>2, <1>4, EventType, RunFacts
  <1> HIDE DEF e
  <1>6. NewEvent(e)
    BY <1>1, <1>2, <1>4, <1>5 DEF NewEvent
  <1> QED
    BY <1>3, <1>4, <1>6 DEF e

\* the step appends this event
Extends(e) ==
    /\ NewEvent(e) /\ chain' = Append(chain, e) /\ UNCHANGED <<log, created>>
    /\ e.type = "unfinished" => pc' = "down"
    /\ e.type = "handoff_prepared" => pc = "prepare"
    /\ e.type = "fine_started" => pc = "commit" /\ e.run = Latest.run
    /\ e.type = "fine_completed" => pc = "complete"

(* The steps that can change the chain.                                     *)
LEMMA Appenders ==
    ASSUME [Next]_vars, chain' # chain
    PROVE  Create \/ Accept \/ AcceptRaises \/ LastCheckpoint \/ Prepare \/ Candidate \/ Commit
           \/ Seal \/ Complete \/ Crash
  <1>1. ~UNCHANGED vars /\ ~Resume /\ ~Begin /\ ~Request /\ ~RequestStep
    BY DEF vars, chainVars, Resume, Begin, Request, RequestStep, RequestFrame, Flag, Mark,
         ReadHandles, ReadHandle, NextRunner, StopReturns, Decide, Confirm
  <1>2. ~Start /\ ~SetPhaseStep /\ ~Block /\ ~BlockStop /\ ~Apply /\ ~Progress
        /\ ~Prompt /\ ~Answer /\ ~OperationRaises /\ ~ObserveStop /\ ~ReadFlag /\ ~EndWork
        /\ ~EndCoarse /\ ~EndFine /\ ~Leave /\ ~Finalize /\ ~Close
    BY DEF chainVars, Start, SetPhaseStep, SetPhaseFrame, CheckStop, Store, Recheck, Verdict,
         Overwrite, Block, BlockStop, Apply, Prompt, Answer, ConsoleFrame, Progress,
         OperationFrame, OperationRaises, ObserveStop, ReadFlag, EndWork, EndCoarse, EndFine,
         Leave, Finalize, Close
  <1>3. \A from, to : ~FlagCheck(from, to)
    BY DEF FlagCheck
  <1>4. ~VerifyTransition /\ ~StopCoarse /\ ~CreateFine /\ ~Construct /\ ~StopBeforeStart
        /\ ~StartFine /\ ~StopAfterStart /\ ~VerifyCandidate /\ ~VerifyCommit /\ ~Activate
        /\ ~Publish /\ ~Release /\ ~FirstStep /\ ~First /\ ~Except
    BY DEF chainVars, VerifyTransition, StopCoarse, CreateFine, Construct, StopBeforeStart,
         StartFine, StopAfterStart, VerifyCandidate, VerifyCommit, Activate, Publish, Release,
         FirstStep, First, OperationFrame, Except
  <1> QED
    BY <1>1, <1>2, <1>3, <1>4 DEF Next, Transaction, Handoff

(* The chain stays, is created, or gets an event that it may get.           *)
LEMMA ChainCases ==
    ASSUME IInv, [Next]_vars
    PROVE  chain' = chain \/ Create \/ \E e \in ChainEvent : Extends(e)
  <1> SUFFICES ASSUME chain' # chain, ~Create
               PROVE  \E e \in ChainEvent : Extends(e)
    OBVIOUS
  <1>0. \A t : t \in {"experiment_initialized", "coarse_checkpoint", "handoff_prepared",
                      "fine_start_candidate", "fine_started", "fine_checkpoint",
                      "fine_completed", "unfinished"} => t \in Types
    BY DEF Types
  <1>f. /\ active \in Runs \cup {None} /\ constructing \in Runs \cup {None}
        /\ active = None <=> pc = "down"
    BY DEF IInv, TypeOK
  <1>1. CASE Accept \/ AcceptRaises
    <2>1. /\ pc = "accept" /\ CheckpointAllowed
          /\ chain' = Append(chain, Checkpoint) /\ UNCHANGED <<log, created>>
      BY <1>1 DEF Accept, AcceptRaises, Append1, AppendRaises, bounds
    <2>2. CASE busy = Coarse
      <3>1. NewEvent(EventOf("coarse_checkpoint", Coarse))
            /\ Checkpoint = EventOf("coarse_checkpoint", Coarse)
        BY <2>1, <2>2, NewCoarseCheckpoint DEF CheckpointAllowed, Checkpoint
      <3> QED
        BY <1>0, <2>1, <3>1, EventType, RunFacts DEF Extends
    <2>3. CASE busy # Coarse
      <3>1. /\ NewEvent(EventOf("fine_checkpoint", StartedRun)) /\ StartedRun \in FineRuns
            /\ Checkpoint = EventOf("fine_checkpoint", StartedRun)
        BY <2>1, <2>3, NewFineCheckpoint DEF CheckpointAllowed, Checkpoint
      <3> DEFINE e == EventOf("fine_checkpoint", StartedRun)
      <3>2. StartedRun \in Runs
        BY <3>1, RunFacts
      <3>3. e \in ChainEvent /\ e.type = "fine_checkpoint"
        BY <1>0, <3>2, EventType
      <3> QED
        BY <2>1, <3>1, <3>3 DEF Extends
    <2> QED
      BY <2>2, <2>3
  <1>2. CASE LastCheckpoint
    <2> DEFINE e == EventOf("coarse_checkpoint", Coarse)
    <2>1. /\ pc = "checkpoint" /\ CheckpointCoarseAllowed(FALSE)
          /\ chain' = Append(chain, e) /\ UNCHANGED <<log, created>>
      BY <1>2 DEF LastCheckpoint, ChainStep, Append1, AppendRaises, HandoffFrame, bounds
    <2>2. NewEvent(e) /\ e \in ChainEvent /\ e.type = "coarse_checkpoint"
      BY <1>0, <2>1, NewCoarseCheckpoint, EventType, RunFacts
    <2> QED
      BY <2>1, <2>2 DEF Extends
  <1>3. CASE Prepare
    <2> DEFINE e == EventOf("handoff_prepared", Coarse)
    <2>1. /\ pc = "prepare" /\ PrepareAllowed
          /\ chain' = Append(chain, e) /\ UNCHANGED <<log, created>>
      BY <1>3 DEF Prepare, ChainStep, Append1, AppendRaises, HandoffFrame, bounds
    <2>2. NewEvent(e) /\ e \in ChainEvent /\ e.type = "handoff_prepared"
      BY <1>0, <2>1, NewHandoff, EventType, RunFacts
    <2> QED
      BY <2>1, <2>2 DEF Extends
  <1>4. CASE Candidate
    <2> DEFINE e == EventOf("fine_start_candidate", Fresh)
    <2>1. /\ pc = "candidate" /\ CandidateAllowed(Fresh)
          /\ chain' = Append(chain, e) /\ UNCHANGED <<log, created>>
      BY <1>4 DEF Candidate, ChainStep, Append1, AppendRaises, HandoffFrame, bounds
    <2>2. Fresh \in FineRuns /\ Fresh \in 1 .. created
      <3>1. Fresh \in FineRuns
        BY <2>1 DEF IInv, FreshInv, FreshPcs
      <3> QED
        BY <3>1, <1>f, RunFacts, ChainFacts, <2>1 DEF IInv, HandleInv, Fresh
    <2>3. NewEvent(e)
      BY <2>1, <2>2, NewCandidate
    <2>4. e \in ChainEvent /\ e.type = "fine_start_candidate"
      BY <1>0, <2>2, EventType, RunFacts
    <2> QED
      BY <2>1, <2>3, <2>4 DEF Extends
  <1>5. CASE Commit
    <2> DEFINE e == EventOf("fine_started", Latest.run)
    <2>1. /\ pc = "commit" /\ StartedAllowed
          /\ chain' = Append(chain, e) /\ UNCHANGED <<log, created>>
      BY <1>5 DEF Commit, ChainStep, Append1, AppendRaises, HandoffFrame, bounds
    <2>2. NewEvent(e) /\ Latest.run \in FineRuns
      BY <2>1, NewStart
    <2>3. e \in ChainEvent /\ e.type = "fine_started" /\ e.run = Latest.run
      <3>1. Latest.run \in Runs
        BY <2>2, RunFacts
      <3> QED
        BY <1>0, <3>1, EventType
    <2> QED
      BY <2>1, <2>2, <2>3 DEF Extends
  <1>6. CASE Seal
    <2> DEFINE e == EventOf("fine_checkpoint", StartedRun)
    <2>1. /\ pc = "seal" /\ CheckpointFineAllowed(FALSE)
          /\ chain' = Append(chain, e) /\ UNCHANGED <<log, created>>
      BY <1>6 DEF Seal, Append1, AppendRaises, HandoffFrame, bounds
    <2>2. NewEvent(e) /\ StartedRun \in FineRuns
      BY <2>1, NewFineCheckpoint
    <2>3. e \in ChainEvent /\ e.type = "fine_checkpoint"
      BY <1>0, <2>2, EventType, RunFacts
    <2> QED
      BY <2>1, <2>2, <2>3 DEF Extends
  <1>7. CASE Complete
    <2> DEFINE e == EventOf("fine_completed", StartedRun)
    <2>1. /\ pc = "complete" /\ CompleteAllowed
          /\ chain' = Append(chain, e) /\ UNCHANGED <<log, created>>
      BY <1>7 DEF Complete, Append1, AppendRaises, HandoffFrame, bounds
    <2>2. NewEvent(e) /\ StartedRun \in FineRuns
      BY <2>1, NewCompletion
    <2>3. e \in ChainEvent /\ e.type = "fine_completed"
      BY <1>0, <2>2, EventType, RunFacts
    <2> QED
      BY <2>1, <2>2, <2>3 DEF Extends
  <1>8. CASE Crash
    <2> DEFINE e == EventOf("unfinished", Coarse)
    <2>1. /\ pc # "down" /\ pc' = "down" /\ chain' = Append(chain, e) /\ UNCHANGED <<log, created>>
      BY <1>8 DEF Crash
    <2>2. e \in ChainEvent /\ e.type = "unfinished" /\ e.run = Coarse
      BY <1>0, EventType, RunFacts
    <2>3. chain # <<>> /\ Latest.type # "unfinished"
      BY <2>1, ChainFacts, LatestType DEF Unfinished, Has, Latest
    <2>4. NewEvent(e)
      BY <2>2, <2>3 DEF NewEvent
    <2> QED
      BY <2>1, <2>2, <2>4 DEF Extends
  <1> QED
    BY <1>1, <1>2, <1>3, <1>4, <1>5, <1>6, <1>7, <1>8, Appenders

-----------------------------------------------------------------------------
(* The logs: every event of a run is logged under the run's authority.      *)

(* A ready runner, or one at work, may log: its run is not closed.          *)
LEMMA Authorized ==
    ASSUME IInv, NEW r \in Runs, runner[r] \notin Terminal \cup {"absent"} \/ busy = r
    PROVE  Loggable(r)
  BY DEF Loggable, IInv, StillInv, Still

(* A stop logs to the run that it stops only.                               *)
LEMMA StopLogs ==
    ASSUME IInv, NEW r \in Runs, runner[r] # "absent",
           StopSucceeds(r) \/ StopFails(r)
    PROVE  log' = log \/ (Loggable(r) /\ Log(r))
  BY Authorized DEF StopSucceeds, StopFails, AbortLatched, AbortRecorded

(* The same for the transaction thread's stop.                              *)
LEMMA StopRunnerLogs ==
    ASSUME IInv, NEW r \in Runs, runner[r] # "absent", NEW ok, NEW raises,
           StopRunner(r, ok, raises)
    PROVE  log' = log \/ (Loggable(r) /\ Log(r))
  BY StopLogs DEF StopRunner

(* A chain with an unfinished event cannot be read.                         *)
LEMMA ReadableUnfinished ==
    ASSUME IInv, Readable
    PROVE  ~Unfinished
  <1> SUFFICES ASSUME NEW i \in DOMAIN chain, chain[i].type = "unfinished" PROVE FALSE
    BY DEF Unfinished, Has
  <1>1. i # 1 /\ i \in 2 .. Len(chain)
    <2>1. chain \in Seq(ChainEvent)
      BY ChainFacts
    <2> QED
      BY <2>1 DEF Readable
  <1> QED
    BY <1>1 DEF Readable, Follows, Before

(* The steps that can change a log.                                         *)
LEMMA Loggers ==
    ASSUME [Next]_vars, log' # log
    PROVE  Resume \/ Start \/ BlockStop \/ Progress \/ OperationRaises \/ ObserveStop
           \/ EndFine \/ StopCoarse \/ StartFine \/ StopAfterStart \/ First \/ Except \/ StopReturns
  <1>1. ~UNCHANGED vars /\ ~Create /\ ~Begin /\ ~Request /\ ~Crash
    BY DEF vars, chainVars, Create, Begin, Request, Crash
  <1>2. ~SetPhaseStep /\ ~Block /\ ~Apply /\ ~Accept /\ ~AcceptRaises
        /\ ~Prompt /\ ~Answer /\ ~ReadFlag /\ ~EndWork /\ ~EndCoarse /\ ~Leave /\ ~Finalize
        /\ ~Close
    BY DEF chainVars, SetPhaseStep, SetPhaseFrame, CheckStop, Store, Recheck, Verdict,
         Overwrite, Block, Apply, Accept, AcceptRaises, Prompt, Answer, ConsoleFrame, ReadFlag,
         EndWork, EndCoarse, Leave, Finalize, Close
  <1>3. /\ \A from, to : ~FlagCheck(from, to)
        /\ ~VerifyTransition /\ ~VerifyCandidate /\ ~VerifyCommit /\ ~Seal /\ ~Complete
        /\ ~LastCheckpoint /\ ~Prepare /\ ~Candidate /\ ~Commit
    BY DEF FlagCheck, HandoffFrame, VerifyTransition, VerifyCandidate, VerifyCommit, Seal,
         Complete, LastCheckpoint, Prepare, Candidate, Commit, ChainStep
  <1>4. ~CreateFine /\ ~Construct /\ ~StopBeforeStart /\ ~Activate
        /\ ~Publish /\ ~Release /\ ~FirstStep
    BY DEF chainVars, CreateFine, Construct, StopBeforeStart, Activate, Publish, Release,
         FirstStep
  <1>5. ~Flag /\ ~Mark /\ ~ReadHandles /\ ~NextRunner /\ ~Decide /\ ~Confirm
    BY DEF Flag, Mark, ReadHandles, ReadHandle, NextRunner, Decide, Confirm
  <1> QED
    BY <1>1, <1>2, <1>3, <1>4, <1>5 DEF Next, Transaction, Handoff, RequestStep

(* The logs stay, or one run that may log gets an event.                    *)
LEMMA LogCases ==
    ASSUME IInv, [Next]_vars
    PROVE  log' = log \/ \E r \in Runs : Loggable(r) /\ Log(r)
  <1> SUFFICES ASSUME log' # log
               PROVE  \E r \in Runs : Loggable(r) /\ Log(r)
    OBVIOUS
  <1>0. /\ {active, constructing, fine, busy} \subseteq Runs \cup {None}
        /\ active = None <=> pc = "down"
        /\ todo \in Seq(Runs)
        /\ active \in Runs => runner[active] # "absent"
        /\ constructing # None => runner[constructing] # "absent" /\ pc \in ConstructingPcs
        /\ pc \in CoarsePcs => active = Coarse
        /\ pc \in {"flag4", "start", "flag5"} => constructing # None
    BY DEF IInv, TypeOK, HandleInv
  <1>1. CASE Resume
    <2>1. CASE ResumeCoarse
      <3>1. Log(Coarse) /\ ResumePhase = "coarse"
        BY <2>1 DEF ResumeCoarse, ReopenRun
      <3>2. ~Has("fine_completed") /\ ~Has("handoff_prepared")
        BY <3>1 DEF ResumePhase
      <3> QED
        BY <3>1, <3>2, RunFacts DEF Loggable
    <2>2. CASE ResumeFine
      <3>1. Log(StartedRun) /\ ResumePhase = "fine"
        BY <2>2 DEF ResumeFine, ReopenRun
      <3>2. ~Has("fine_completed") /\ Has("fine_started")
        BY <3>1 DEF ResumePhase
      <3>3. StartedRun \in Runs /\ StartedRun # Coarse
        BY <3>2, ChainFacts, RunFacts
      <3> QED
        BY <3>1, <3>2, <3>3 DEF Loggable
    <2> QED
      BY <1>1, <2>1, <2>2 DEF Resume, ResumePrepared
  <1>2. CASE Start
    <2>1. /\ Log(active) /\ active \in Runs /\ runner[active] = "idle"
      BY <1>0, <1>2 DEF Start, Started, StartFails, IInv, HandleInv
    <2>2. Loggable(active)
      BY <2>1, Authorized DEF Terminal
    <2> QED
      BY <2>1, <2>2
  <1>3. CASE StartFine
    <2>1. /\ Log(constructing) /\ constructing \in Runs /\ runner[constructing] = "idle"
      BY <1>0, <1>3 DEF StartFine, Started, StartFails, IInv, HandleInv
    <2>2. Loggable(constructing)
      BY <2>1, Authorized DEF Terminal
    <2> QED
      BY <2>1, <2>2
  <1>4. CASE Progress \/ OperationRaises \/ ObserveStop \/ EndFine \/ First
    <2>1. Log(busy) /\ busy \in Runs
      BY <1>0, <1>4, RunFacts DEF Progress, OperationRaises, ObserveStop, EndFine, First,
           AbortLatched, AbortRecorded
    <2>2. Loggable(busy)
      BY <2>1, Authorized
    <2> QED
      BY <2>1, <2>2
  <1>5. CASE BlockStop
    <2>1. active \in Runs /\ runner[active] # "absent" /\ StopRunner(active, "idle", "idle")
      BY <1>0, <1>5 DEF BlockStop
    <2> QED
      BY <2>1, StopRunnerLogs
  <1>6. CASE StopCoarse
    <2>1. Coarse \in Runs /\ runner[Coarse] # "absent" /\ StopRunner(Coarse, "flag3", "except")
      BY <1>0, <1>6, RunFacts DEF StopCoarse, CoarsePcs
    <2> QED
      BY <2>1, StopRunnerLogs
  <1>7. CASE StopAfterStart
    <2>1. constructing \in Runs /\ runner[constructing] # "absent"
          /\ StopRunner(constructing, "apply", "except")
      BY <1>0, <1>7 DEF StopAfterStart
    <2> QED
      BY <2>1, StopRunnerLogs
  <1>8. CASE Except
    <2>1. constructing \in Runs /\ runner[constructing] # "absent"
          /\ StopRunner(constructing, "block", "block")
      BY <1>0, <1>8 DEF Except, Orphan
    <2> QED
      BY <2>1, StopRunnerLogs
  <1>9. CASE StopReturns
    <2> DEFINE r == Head(todo)
    <2>1. todo # <<>> /\ 1 \in DOMAIN todo /\ r = todo[1] /\ r \in Runs
      BY <1>0, <1>9 DEF StopReturns, IInv, RequestInv
    <2>2. runner[r] # "absent" /\ (StopSucceeds(r) \/ StopFails(r))
      BY <1>9, <2>1 DEF StopReturns, IInv, RequestInv
    <2> QED
      BY <2>1, <2>2, StopLogs
  <1> QED
    BY <1>1, <1>2, <1>3, <1>4, <1>5, <1>6, <1>7, <1>8, <1>9, Loggers

(* Every step keeps the order, the links and the milestones of the chain.   *)
LEMMA ChainInvStep == IInv /\ [Next]_vars => ChainInv'
  <1> SUFFICES ASSUME IInv, [Next]_vars PROVE ChainInv'
    OBVIOUS
  <1>0. /\ chain \in Seq(ChainEvent) /\ log \in [Runs -> Nat] /\ created \in Nat /\ ChainInv
        /\ Unfinished => pc = "down"
    BY ChainFacts
  <1>1. CASE Create
    <2>1. chain' = <<EventOf("experiment_initialized", Coarse)>>
      BY <1>1 DEF Create
    <2>2. /\ chain'[1].type = "experiment_initialized" /\ chain'[1].run = Coarse
          /\ DOMAIN chain' = {1}
      BY <2>1 DEF EventOf
    <2>3. OrderInv' /\ FollowsInv'
      BY <2>2 DEF OrderInv, FollowsInv
    <2>4. MilestoneInv'
      BY <2>2 DEF MilestoneInv, CoarseTypes
    <2> QED
      BY <2>3, <2>4 DEF ChainInv
  <1>2. ASSUME NEW e \in ChainEvent, Extends(e) PROVE ChainInv'
    BY <1>0, <1>2, Appended DEF Extends
  <1>3. CASE chain' = chain /\ ~Create
    <2>1. created' = created \/ created' = created + 1
      <3>1. CASE Resume
        BY <3>1 DEF Resume, ResumeCoarse, ResumeFine, ResumePrepared
      <3>2. CASE UNCHANGED vars \/ Begin \/ Request \/ RequestStep \/ Crash
        BY <3>2 DEF vars, bounds, Begin, Request, RequestStep, RequestFrame, Flag, Mark,
             ReadHandles, ReadHandle, NextRunner, StopReturns, Decide, Confirm, Crash
      <3>3. CASE Start \/ SetPhaseStep \/ Block \/ BlockStop \/ Apply
                 \/ Prompt \/ Answer \/ Progress \/ OperationRaises \/ Accept \/ AcceptRaises
                 \/ ObserveStop \/ ReadFlag \/ EndWork \/ EndCoarse \/ EndFine \/ Seal \/ Complete
                 \/ Leave \/ Finalize \/ Close
        BY <3>3 DEF bounds, Start, SetPhaseStep, SetPhaseFrame, CheckStop, Store, Recheck,
             Verdict, Overwrite, Block, BlockStop, Apply, Prompt, Answer, ConsoleFrame,
             Progress, OperationRaises, Accept, AcceptRaises, ObserveStop, ReadFlag, EndWork,
             EndCoarse, EndFine, Seal, Complete, Leave, Finalize, Close, OperationFrame,
             HandoffFrame
      <3>4. ASSUME NEW from, NEW to, FlagCheck(from, to) PROVE created' = created
        BY <3>4 DEF FlagCheck, HandoffFrame, bounds
      <3>5. CASE VerifyTransition \/ StopCoarse \/ LastCheckpoint \/ Prepare \/ CreateFine
                 \/ Construct \/ StopBeforeStart \/ StartFine \/ StopAfterStart \/ Candidate
                 \/ VerifyCandidate \/ Commit \/ VerifyCommit \/ Activate \/ Publish \/ Release
                 \/ FirstStep \/ First \/ Except
        BY <3>5 DEF bounds, VerifyTransition, StopCoarse, LastCheckpoint, Prepare, CreateFine,
             Construct, StopBeforeStart, StartFine, StopAfterStart, Candidate, VerifyCandidate,
             Commit, VerifyCommit, Activate, Publish, Release, FirstStep, First, Except,
             ChainStep, OperationFrame, HandoffFrame
      <3> QED
        BY <1>3, <3>1, <3>2, <3>3, <3>4, <3>5 DEF Next, Transaction, Handoff
    <2>2. Unfinished => pc' = "down"
      <3> SUFFICES ASSUME Unfinished PROVE pc' = "down"
        OBVIOUS
      <3>1. pc = "down" /\ ~Readable /\ chain # <<>>
        BY <1>0, ReadableUnfinished DEF Unfinished, Has
      <3>2. ~Create /\ ~Resume
        BY <3>1 DEF Create, Resume
      <3>3. ~Begin /\ ~Transaction
        BY <3>1 DEF Begin, Go, Transaction, Start, SetPhaseStep, CheckStop, Store, Recheck,
             Verdict, Overwrite, Block, BlockStop, Apply, Prompt, Answer, Progress,
             OperationRaises, Accept, AcceptRaises, ObserveStop, ReadFlag, EndWork, EndCoarse,
             EndFine, Seal, Complete, Leave, Finalize, Close, Handoff, FlagCheck,
             VerifyTransition, Check, StopCoarse, LastCheckpoint, Prepare,
             CreateFine, Construct, StopBeforeStart, StartFine, StopAfterStart, Candidate,
             VerifyCandidate, Commit, VerifyCommit, Activate, Publish, Release, FirstStep,
             First, Except, ChainStep
      <3>4. Request \/ RequestStep \/ UNCHANGED vars => pc' = pc
        BY DEF vars, Request, RequestStep, RequestFrame, Flag, Mark, ReadHandles, ReadHandle,
             NextRunner, StopReturns, Decide, Confirm
      <3>5. Crash => pc' = "down"
        BY DEF Crash
      <3> QED
        BY <3>1, <3>2, <3>3, <3>4, <3>5 DEF Next
    <2> QED
      BY <1>0, <1>3, <2>1, <2>2, LogCases, Logged
  <1> QED
    BY <1>1, <1>2, <1>3, ChainCases

-----------------------------------------------------------------------------
(* What a step does to the chain and to a runner that it stops.             *)

(* What a step can do to the milestones.                                    *)
LEMMA ChainMoves ==
    ASSUME IInv, [Next]_vars
    PROVE  /\ Has("fine_started") => Has("fine_started")' /\ StartedRun' = StartedRun
           /\ Has("handoff_prepared")' => Has("handoff_prepared") \/ pc = "prepare"
           /\ Has("fine_completed")' => Has("fine_completed") \/ pc = "complete"
           /\ chain # <<>> => chain' # <<>>
           /\ chain' = chain => /\ Latest' = Latest /\ StartedRun' = StartedRun
                                /\ \A t : Has(t)' <=> Has(t)
  <1>0. chain \in Seq(ChainEvent) /\ OrderInv
    BY DEF IInv, TypeOK
  <1>1. CASE chain' = chain
    <2>1. Latest' = Latest /\ StartedRun' = StartedRun /\ \A t : Has(t)' <=> Has(t)
      BY <1>1 DEF Latest, StartedRun, Has
    <2> QED
      BY <1>1, <2>1
  <1>2. CASE Create
    <2>1. chain = <<>> /\ chain' = <<EventOf("experiment_initialized", Coarse)>>
      BY <1>2 DEF Create
    <2>2. /\ DOMAIN chain' = {1} /\ chain'[1].type = "experiment_initialized"
          /\ DOMAIN chain = {} /\ chain' # chain
      BY <2>1 DEF EventOf
    <2>3. /\ ~Has("fine_started") /\ ~Has("handoff_prepared")' /\ ~Has("fine_completed")'
      BY <2>2 DEF Has
    <2> QED
      BY <2>1, <2>2, <2>3
  <1>3. ASSUME NEW e \in ChainEvent, Extends(e), chain' # chain
        PROVE  /\ Has("fine_started") => Has("fine_started")' /\ StartedRun' = StartedRun
               /\ Has("handoff_prepared")' => Has("handoff_prepared") \/ pc = "prepare"
               /\ Has("fine_completed")' => Has("fine_completed") \/ pc = "complete"
               /\ chain' # <<>>
    <2>1. /\ chain' = Append(chain, e) /\ DOMAIN chain = 1 .. Len(chain)
          /\ DOMAIN chain' = 1 .. Len(chain) + 1 /\ chain'[Len(chain) + 1] = e
          /\ \A i \in 1 .. Len(chain) : chain'[i] = chain[i]
      BY <1>0, <1>3 DEF Extends
    <2>2. OrderInv'
      BY ChainInvStep DEF ChainInv
    <2>3. Has("fine_started") => Has("fine_started")' /\ StartedRun' = StartedRun
      BY <1>0, <2>1, <2>2, StartedKept
    <2>4. /\ Has("handoff_prepared")' => Has("handoff_prepared") \/ e.type = "handoff_prepared"
          /\ Has("fine_completed")' => Has("fine_completed") \/ e.type = "fine_completed"
      BY <2>1 DEF Has
    <2>5. chain' # <<>>
      BY <1>0, <2>1
    <2> QED
      BY <1>3, <2>3, <2>4, <2>5 DEF Extends
  <1> QED
    BY <1>1, <1>2, <1>3, ChainCases

\* the effect of a stop on the runners
Stopped(r) ==
    \E p \in {runner[r], "aborted", "failed"} :
        /\ runner' = [runner EXCEPT ![r] = p]
        /\ p # runner[r] => runner[r] \notin Terminal
        /\ busy # r /\ runner[r] # "idle" => p # "ready"

(* A stop gives no authority, and ends the authority of a resting runner.   *)
LEMMA StopEffect ==
    ASSUME IInv, NEW r \in Runs, runner[r] # "absent"
    PROVE  /\ StopSucceeds(r) =>
                /\ Stopped(r) /\ proven' = [proven EXCEPT ![r] = TRUE]
                /\ busy # r => runner'[r] \in Terminal
           /\ StopFails(r) => Stopped(r) /\ proven' = proven
  <1>0. /\ runner \in [Runs -> RunnerPhases]
    BY DEF IInv, TypeOK
  <1>1. ASSUME runner' = runner, busy = r \/ runner[r] \in Terminal
        PROVE  Stopped(r) /\ (busy # r => runner'[r] \in Terminal)
    <2>1. runner' = [runner EXCEPT ![r] = runner[r]]
      BY <1>0, <1>1
    <2> QED
      BY <1>1, <2>1 DEF Stopped, Terminal
  <1>2. ASSUME NEW p \in {"aborted", "failed"}, runner' = [runner EXCEPT ![r] = p],
               runner[r] \notin Terminal
        PROVE  Stopped(r) /\ runner'[r] \in Terminal
    BY <1>0, <1>2 DEF Stopped, Terminal
  <1>3. ASSUME StopSucceeds(r)
        PROVE  /\ Stopped(r) /\ proven' = [proven EXCEPT ![r] = TRUE]
               /\ busy # r => runner'[r] \in Terminal
    BY <1>1, <1>2, <1>3 DEF StopSucceeds, AbortRecorded
  <1>4. ASSUME StopFails(r) PROVE Stopped(r) /\ proven' = proven
    BY <1>1, <1>2, <1>4 DEF StopFails, AbortLatched, AbortRecorded
  <1> QED
    BY <1>3, <1>4

\* the runner no longer has motion authority, and only if it had it it changed
Rests(r) ==
    \E p \in {"idle", "aborted", "failed", "complete"} :
        /\ runner' = [runner EXCEPT ![r] = p]
        /\ p # runner[r] => runner[r] = "ready" /\ p # "idle"

(* The same for the transaction thread's stop.                              *)
LEMMA StopRunnerEffect ==
    ASSUME IInv, NEW r \in Runs, runner[r] # "absent", busy = None, NEW ok, NEW raises,
           StopRunner(r, ok, raises)
    PROVE  /\ Rests(r) /\ pc' \in {ok, raises}
           /\ pc' = ok /\ ok # raises => runner'[r] = "aborted"
           /\ proven' \in [Runs -> BOOLEAN] /\ stopping' \in [Runs -> BOOLEAN]
  <1>0. /\ runner \in [Runs -> RunnerPhases] /\ proven \in [Runs -> BOOLEAN]
        /\ stopping \in [Runs -> BOOLEAN]
    BY DEF IInv, TypeOK
  <1>b. busy # r
    BY RunFacts
  <1>c. ASSUME NEW p \in {"idle", "aborted", "failed", "complete"}, runner[r] = p,
               runner' = runner
        PROVE  Rests(r)
    <2>1. runner' = [runner EXCEPT ![r] = p]
      BY <1>0, <1>c
    <2> QED
      BY <1>c, <2>1 DEF Rests
  <1>1. CASE Refuses(r) /\ pc' = raises /\ UNCHANGED <<runnerVars, log>>
    <2>1. runner' = runner /\ runner[r] \in {"idle", "complete", "failed"}
      BY <1>1 DEF Refuses, runnerVars
    <2>2. Rests(r) /\ runner'[r] # "ready"
      BY <1>c, <2>1
    <2> QED
      BY <1>0, <1>1, <2>2 DEF runnerVars, Refuses
  <1>2. CASE Confirmed(r) /\ pc' = ok /\ UNCHANGED <<runnerVars, log>>
    <2>1. runner' = runner /\ runner[r] = "aborted"
      BY <1>2 DEF Confirmed, runnerVars
    <2>2. Rests(r)
      BY <1>c, <2>1
    <2> QED
      BY <1>0, <1>2, <2>1, <2>2 DEF runnerVars
  <1>3. CASE /\ ~Refuses(r) /\ ~Confirmed(r)
             /\ stopping' = [stopping EXCEPT ![r] = TRUE]
             /\ \/ StopSucceeds(r) /\ pc' = ok
                \/ StopFails(r) /\ pc' = raises
    <2>1. Stopped(r) /\ pc' \in {ok, raises}
      BY <1>3, StopEffect
    <2>2. stopping' \in [Runs -> BOOLEAN]
      BY <1>0, <1>3
    <2>3. proven' \in [Runs -> BOOLEAN]
      BY <1>0, <1>3, StopEffect
    <2>4. runner[r] \in {"ready", "aborted"}
      BY <1>0, <1>3 DEF Refuses, RunnerPhases
    <2>5. PICK p \in {runner[r], "aborted", "failed"} :
                /\ runner' = [runner EXCEPT ![r] = p] /\ p # "ready"
                /\ p # runner[r] => runner[r] \notin Terminal
      BY <1>b, <2>1, <2>4 DEF Stopped
    <2>6. runner'[r] = p
      BY <1>0, <2>5
    <2>7. StopSucceeds(r) => runner'[r] = "aborted"
      <3> SUFFICES ASSUME StopSucceeds(r) PROVE runner'[r] = "aborted"
        OBVIOUS
      <3>1. CASE runner[r] = "aborted"
        BY <1>0, <2>5, <2>6, <3>1 DEF Terminal
      <3>2. CASE runner[r] = "ready"
        BY <1>0, <1>b, <3>2 DEF StopSucceeds, AbortRecorded, Terminal
      <3> QED
        BY <2>4, <3>1, <3>2
    <2>9. p # runner[r] => runner[r] = "ready" /\ p # "idle"
      BY <2>4, <2>5 DEF Terminal
    <2>10. Rests(r)
      BY <2>4, <2>5, <2>9 DEF Rests
    <2>8. pc' = ok /\ ok # raises => StopSucceeds(r)
      BY <1>3
    <2> QED
      BY <2>1, <2>2, <2>3, <2>7, <2>8, <2>10
  <1> QED
    BY <1>1, <1>2, <1>3 DEF StopRunner

-----------------------------------------------------------------------------
(* The runners that a request has still to stop.                            *)

(* The runners that a request has still to stop.                            *)
LEMMA Todo ==
    ASSUME todo \in Seq(Runs)
    PROVE  /\ DOMAIN todo = 1 .. Len(todo) /\ Len(todo) \in Nat
           /\ \A i \in DOMAIN todo : todo[i] \in Runs
           /\ todo # <<>> => 1 \in DOMAIN todo /\ Head(todo) = todo[1]
           /\ todo = <<>> => \A i \in DOMAIN todo : FALSE
  OBVIOUS

(* A handle that is read is in the list, once.                              *)
LEMMA Collected ==
    ASSUME todo \in Seq(Runs), NEW r \in Runs \cup {None}, Collect(r)
    PROVE  /\ todo' \in Seq(Runs)
           /\ \A i \in DOMAIN todo' : InTodo(todo'[i]) \/ (todo'[i] = r /\ r # None)
           /\ \A q \in Runs : InTodo(q) \/ q = r => InTodo(q)'
           /\ (\A i, j \in DOMAIN todo : i # j => todo[i] # todo[j]) =>
                    \A i, j \in DOMAIN todo' : i # j => todo'[i] # todo'[j]
  <1>0. \A q \in Runs : q # None
    BY RunFacts
  <1>1. CASE todo' = todo /\ (r = None \/ InTodo(r))
    <2>1. \A q : InTodo(q)' <=> InTodo(q)
      BY <1>1 DEF InTodo
    <2>2. \A i \in DOMAIN todo' : InTodo(todo'[i])
      BY <1>1 DEF InTodo
    <2>3. \A q \in Runs : InTodo(q) \/ q = r => InTodo(q)'
      BY <1>0, <1>1, <2>1
    <2> QED
      BY <1>1, <2>2, <2>3
  <1>2. CASE todo' = Append(todo, r) /\ r # None /\ ~InTodo(r)
    <2>1. /\ r \in Runs /\ todo' \in Seq(Runs)
          /\ DOMAIN todo = 1 .. Len(todo) /\ Len(todo) \in Nat
          /\ DOMAIN todo' = 1 .. Len(todo) + 1 /\ todo'[Len(todo) + 1] = r
          /\ \A i \in 1 .. Len(todo) : todo'[i] = todo[i]
      BY <1>2
    <2> DEFINE n == Len(todo)
    <2>2. /\ n \in Nat /\ DOMAIN todo = 1 .. n /\ DOMAIN todo' = 1 .. n + 1
          /\ todo'[n + 1] = r /\ \A i \in 1 .. n : todo'[i] = todo[i]
      BY <2>1
    <2> HIDE DEF n
    <2>3. \A i \in DOMAIN todo' : i \in DOMAIN todo \/ i = n + 1
      BY <2>2
    <2>4. \A i \in DOMAIN todo' : InTodo(todo'[i]) \/ (todo'[i] = r /\ r # None)
      BY <1>2, <2>2, <2>3 DEF InTodo
    <2>5. ASSUME NEW q \in Runs, InTodo(q) \/ q = r PROVE InTodo(q)'
      <3>1. n + 1 \in DOMAIN todo' /\ \A i \in DOMAIN todo : i \in DOMAIN todo'
        BY <2>2
      <3>2. \E i \in DOMAIN todo' : todo'[i] = q
        BY <2>2, <2>5, <3>1 DEF InTodo
      <3> QED
        BY <3>2 DEF InTodo
    <2>6. \A i \in DOMAIN todo : todo[i] # r
      BY <1>2 DEF InTodo
    <2>7. (\A i, j \in DOMAIN todo : i # j => todo[i] # todo[j]) =>
                \A i, j \in DOMAIN todo' : i # j => todo'[i] # todo'[j]
      BY <2>2, <2>3, <2>6
    <2> QED
      BY <2>1, <2>4, <2>5, <2>7
  <1> QED
    BY <1>1, <1>2 DEF Collect, InTodo

(* The first runner of the list is done with, and the others stay.          *)
LEMMA Dropped ==
    ASSUME todo \in Seq(Runs), todo # <<>>, todo' = Tail(todo)
    PROVE  /\ todo' \in Seq(Runs)
           /\ \A i \in DOMAIN todo' : InTodo(todo'[i])
           /\ \A q \in Runs : InTodo(q) => q = Head(todo) \/ InTodo(q)'
           /\ (\A i, j \in DOMAIN todo : i # j => todo[i] # todo[j]) =>
                    \A i, j \in DOMAIN todo' : i # j => todo'[i] # todo'[j]
  <1> DEFINE n == Len(todo)
  <1>1. /\ todo' \in Seq(Runs)
        /\ n \in Nat /\ n >= 1 /\ DOMAIN todo = 1 .. n /\ DOMAIN todo' = 1 .. n - 1
        /\ Head(todo) = todo[1] /\ \A i \in 1 .. n - 1 : todo'[i] = todo[i + 1]
    OBVIOUS
  <1> HIDE DEF n
  <1>2. \A i \in DOMAIN todo' : i + 1 \in DOMAIN todo /\ i \in Int
    BY <1>1
  <1>3. \A i \in DOMAIN todo : i = 1 \/ (i - 1 \in DOMAIN todo' /\ todo'[i - 1] = todo[i])
    BY <1>1
  <1>4. \A i \in DOMAIN todo' : InTodo(todo'[i])
    BY <1>1, <1>2 DEF InTodo
  <1>5. ASSUME NEW q \in Runs, InTodo(q), q # Head(todo) PROVE InTodo(q)'
    <2>1. PICK i \in DOMAIN todo : todo[i] = q
      BY <1>5 DEF InTodo
    <2>2. i # 1
      BY <1>1, <1>5, <2>1
    <2>3. \E j \in DOMAIN todo' : todo'[j] = q
      BY <1>3, <2>1, <2>2
    <2> QED
      BY <2>3 DEF InTodo
  <1>6. ASSUME \A i, j \in DOMAIN todo : i # j => todo[i] # todo[j]
        PROVE  \A i, j \in DOMAIN todo' : i # j => todo'[i] # todo'[j]
    <2> TAKE i, j \in DOMAIN todo'
    <2>1. i + 1 \in DOMAIN todo /\ j + 1 \in DOMAIN todo /\ i \in Int /\ j \in Int
      BY <1>2
    <2>2. todo'[i] = todo[i + 1] /\ todo'[j] = todo[j + 1]
      BY <1>1
    <2> QED
      BY <1>6, <2>1, <2>2
  <1> QED
    BY <1>1, <1>4, <1>5, <1>6

(* After an append the event is the latest.                                 *)
LEMMA LatestNext ==
    ASSUME chain \in Seq(ChainEvent), NEW e \in ChainEvent, chain' = Append(chain, e)
    PROVE  chain' # <<>> /\ Latest' = e
  <1>1. Len(chain') = Len(chain) + 1 /\ chain'[Len(chain) + 1] = e /\ chain' # <<>>
    OBVIOUS
  <1> QED
    BY <1>1 DEF Latest

(* After a fine start its run is the one that is started.                   *)
LEMMA StartedNext ==
    ASSUME chain \in Seq(ChainEvent), NEW e \in ChainEvent, chain' = Append(chain, e),
           e.type = "fine_started", OrderInv'
    PROVE  Has("fine_started")' /\ StartedRun' = e.run
  <1> DEFINE n == Len(chain) + 1
  <1>1. n \in DOMAIN chain' /\ chain'[n] = e /\ DOMAIN chain' \subseteq Nat
    OBVIOUS
  <1>2. ASSUME NEW j \in DOMAIN chain', chain'[j].type = "fine_started" PROVE j = n
    <2>1. "fine_started" \notin Earlier("fine_started")
      BY DEF Earlier, CoarseTypes
    <2> HIDE DEF n
    <2>2. j \in Nat /\ n \in Nat
      BY <1>1
    <2>3. ~(j < n) /\ ~(n < j)
      BY <1>1, <1>2, <2>1 DEF OrderInv
    <2> QED
      BY <2>2, <2>3
  <1> HIDE DEF n
  <1>3. (CHOOSE j \in DOMAIN chain' : chain'[j].type = "fine_started") = n
    BY <1>1, <1>2
  <1> QED
    BY <1>1, <1>3 DEF StartedRun, Has

-----------------------------------------------------------------------------
(* What a step does not touch, it keeps.                                    *)

RunnerTypes ==
    /\ runner \in [Runs -> RunnerPhases]
    /\ proven \in [Runs -> BOOLEAN] /\ stopping \in [Runs -> BOOLEAN]

HandleTypes ==
    /\ active \in Runs \cup {None} /\ constructing \in Runs \cup {None}
    /\ fine \in Runs \cup {None} /\ busy \in Runs \cup {None}
    /\ active = None <=> pc = "down"

PhaseTypes ==
    /\ pc \in Pcs /\ phase \in Phases /\ goal \in Phases
    /\ then \in {"idle", "first_step", "block_stop", "handoff"}

RequestTypes ==
    /\ stopRequested \in BOOLEAN /\ stopConfirmed \in BOOLEAN /\ failed \in BOOLEAN
    /\ opPc \in OpPcs /\ todo \in Seq(Runs)
    /\ seen \in {"nothing", "confirmed", "unconfirmed"}

BoundTypes ==
    /\ created \in 0 .. MaxFine /\ steps \in 0 .. MaxSteps
    /\ requests \in 0 .. MaxRequests /\ crashes \in 0 .. MaxCrashes

RuntimeInv ==
    /\ RunnerTypes /\ HandleTypes /\ PhaseTypes /\ RequestTypes /\ BoundTypes
    /\ StillInv /\ HandleInv /\ FreshInv /\ AuthorityInv
    /\ RequestInv /\ ThreatInv /\ MaskInv

\* where the transaction thread holds a runner that is to be started or committed
BoundPcs == FreshPcs \cup {"created", "activate", "publish", "release", "seal", "complete"}

(* A conjunct is kept by a step that leaves its variables alone.            *)
LEMMA Untouched ==
    ASSUME IInv, [Next]_vars
    PROVE  /\ UNCHANGED <<runner, proven, stopping>> => RunnerTypes'
           /\ UNCHANGED <<active, constructing, fine, busy>> /\ pc # "down" /\ pc' # "down" =>
                    HandleTypes'
           /\ UNCHANGED <<stopRequested, stopConfirmed, opPc, todo, seen, failed>> =>
                    RequestTypes'
           /\ UNCHANGED <<created, steps, requests, crashes>> => BoundTypes'
           /\ UNCHANGED <<chain, runner, busy>> => StillInv'
           /\ pc' \notin BoundPcs => FreshInv'
           /\ UNCHANGED <<chain, runner, active, constructing, busy>>
              /\ pc \notin UncommittedPcs \cup SetPhasePcs => AuthorityInv'
           /\ UNCHANGED <<runner, stopRequested, stopConfirmed, opPc, todo, seen, failed>>
              /\ pc' # "down" => RequestInv'
           /\ UNCHANGED <<runner, active, constructing, fine, stopConfirmed, opPc, todo, seen,
                          failed>>
              /\ pc' \notin {"created", "start"} => ThreatInv'
           /\ UNCHANGED <<phase, stopRequested, opPc>> /\ pc \notin SetPhasePcs
              /\ pc' # "overwrite" => MaskInv'
           /\ pc' \in SetPhasePcs \ {"overwrite"} => MaskInv'
  <1>0. /\ RunnerTypes /\ HandleTypes /\ RequestTypes /\ BoundTypes
        /\ StillInv /\ AuthorityInv /\ RequestInv /\ ThreatInv /\ MaskInv
    BY DEF IInv, TypeOK, RunnerTypes, HandleTypes, RequestTypes, BoundTypes
  <1>1. chain' = chain => StartedRun' = StartedRun /\ \A t : Has(t)' <=> Has(t)
    BY ChainMoves
  <1>2. UNCHANGED <<runner, proven, stopping>> => RunnerTypes'
    BY <1>0 DEF RunnerTypes
  <1>3. UNCHANGED <<active, constructing, fine, busy>> /\ pc # "down" /\ pc' # "down" =>
            HandleTypes'
    BY <1>0 DEF HandleTypes
  <1>4. UNCHANGED <<stopRequested, stopConfirmed, opPc, todo, seen, failed>> => RequestTypes'
    BY <1>0 DEF RequestTypes
  <1>5. UNCHANGED <<created, steps, requests, crashes>> => BoundTypes'
    BY <1>0 DEF BoundTypes
  <1>6. UNCHANGED <<chain, runner, busy>> => StillInv'
    BY <1>0, <1>1 DEF StillInv, Still
  <1>7. pc' \notin BoundPcs => FreshInv'
    BY DEF FreshInv, BoundPcs, FreshPcs
  <1>8. UNCHANGED <<chain, runner, active, constructing, busy>>
        /\ pc \notin UncommittedPcs \cup SetPhasePcs => AuthorityInv'
    BY <1>0, <1>1 DEF AuthorityInv, Committed
  <1>9. UNCHANGED <<runner, stopRequested, stopConfirmed, opPc, todo, seen, failed>>
        /\ pc' # "down" => RequestInv'
    BY <1>0 DEF RequestInv
  <1>10. UNCHANGED <<runner, active, constructing, fine, stopConfirmed, opPc, todo, seen,
                        failed>>
         /\ pc' \notin {"created", "start"} => ThreatInv'
    BY <1>0 DEF ThreatInv, Threat, InTodo
  <1>11. UNCHANGED <<phase, stopRequested, opPc>> /\ pc \notin SetPhasePcs
         /\ pc' # "overwrite" => MaskInv'
    BY <1>0 DEF MaskInv, StopIsNotMasked, SetPhasePcs
  <1>12. pc' \in SetPhasePcs \ {"overwrite"} => MaskInv'
    BY DEF MaskInv, StopIsNotMasked, SetPhasePcs
  <1> QED
    BY <1>2, <1>3, <1>4, <1>5, <1>6, <1>7, <1>8, <1>9, <1>10, <1>11, <1>12

-----------------------------------------------------------------------------
(* Every step keeps it: the runners, the handles and the request.           *)

(* One case per step of either thread, one step per conjunct it disturbs.   *)
LEMMA RuntimeInvStep == IInv /\ [Next]_vars => RuntimeInv'
  <1> SUFFICES ASSUME IInv, [Next]_vars PROVE RuntimeInv'
    OBVIOUS
  <1>0. /\ StillInv /\ HandleInv /\ FreshInv /\ AuthorityInv
        /\ RequestInv /\ ThreatInv /\ MaskInv
        /\ runner \in [Runs -> RunnerPhases]
        /\ proven \in [Runs -> BOOLEAN] /\ stopping \in [Runs -> BOOLEAN]
        /\ active \in Runs \cup {None} /\ constructing \in Runs \cup {None}
        /\ fine \in Runs \cup {None} /\ busy \in Runs \cup {None}
        /\ active = None <=> pc = "down"
        /\ created \in 0 .. MaxFine /\ created \in Nat /\ MaxFine \in Nat
        /\ stopRequested \in BOOLEAN /\ stopConfirmed \in BOOLEAN /\ failed \in BOOLEAN
        /\ seen \in {"nothing", "confirmed", "unconfirmed"}
        /\ pc \in Pcs /\ opPc \in OpPcs
        /\ phase \in Phases /\ goal \in Phases
        /\ then \in {"idle", "first_step", "block_stop", "handoff"}
        /\ steps \in 0 .. MaxSteps /\ requests \in 0 .. MaxRequests
        /\ crashes \in 0 .. MaxCrashes
    BY ChainAssumption DEF IInv, TypeOK
  <1>q. todo \in Seq(Runs)
    BY DEF IInv, TypeOK
  <1>t. /\ \A i \in DOMAIN todo : todo[i] \in Runs
        /\ opPc = "stopping" => Head(todo) = todo[1] /\ 1 \in DOMAIN todo
        /\ todo = <<>> => \A i \in DOMAIN todo : FALSE
    BY <1>0, <1>q, Todo DEF RequestInv
  <1>h. /\ Has("fine_started") => /\ Has("fine_started")' /\ StartedRun' = StartedRun
                                  /\ StartedRun \in 1 .. created /\ StartedRun \in FineRuns
        /\ Has("handoff_prepared")' => Has("handoff_prepared") \/ pc = "prepare"
        /\ Has("fine_completed")' => Has("fine_completed") \/ pc = "complete"
        /\ Has("fine_completed") => Has("fine_started")
        /\ chain # <<>> => chain' # <<>>
        /\ chain' = chain => /\ Latest' = Latest /\ StartedRun' = StartedRun
                             /\ \A t : Has(t)' <=> Has(t)
    BY ChainMoves, ChainFacts
  <1>p. chain' = chain => ResumePhase' = ResumePhase
    BY <1>h DEF ResumePhase
  <1>r. /\ Coarse \in Runs /\ Coarse \notin FineRuns /\ Coarse = 0 /\ None \notin Runs
        /\ \A r \in Runs : r \in Nat
        /\ \A f \in FineRuns : f \in Runs /\ f # Coarse /\ f >= 1
        /\ \A f \in Runs : f # Coarse => f \in FineRuns
        /\ \A n \in 0 .. MaxFine : n >= 1 => n \in FineRuns
    BY RunFacts
  <1>1. CASE Create
    <2>a. ResumePhase' = "coarse" /\ chain' # <<>>
      <3>1. chain' = <<EventOf("experiment_initialized", Coarse)>>
        BY <1>1 DEF Create
      <3>2. DOMAIN chain' = {1} /\ chain'[1].type = "experiment_initialized" /\ chain' # <<>>
        BY <3>1 DEF EventOf
      <3> QED
        BY <3>2 DEF ResumePhase, Has
    <2>1. RequestTypes' /\ BoundTypes' /\ MaskInv'
      BY <1>1, Untouched DEF SetPhasePcs, Create, Go, NewRunner, stopVars, phaseVars,
           operatorVars, bounds
    <2>2. RunnerTypes'
      BY <1>0, <1>1 DEF RunnerTypes, RunnerPhases, Create, Go, NewRunner
    <2>3. HandleTypes'
      BY <1>0, <1>r, <1>1, <2>a DEF HandleTypes, Create, Go
    <2>4. PhaseTypes'
      BY <1>0, <1>1 DEF PhaseTypes, Pcs, SetPhasePcs, HandoffPcs, Phases, Create, Go,
         phaseVars
    <2>5. StillInv'
      BY <1>0, <1>1, <2>a DEF StillInv, Still, Terminal, Has, EventOf, Create, Go,
         NewRunner
    <2>6. HandleInv'
      BY <1>0, <1>r, <1>1, <2>a DEF HandleInv, ConstructingPcs, BusyPcs, CoarsePcs,
         ClosedPcs, RoomPcs, SetPhasePcs, Create, Go, NewRunner, phaseVars, bounds
    <2>7. FreshInv'
      BY <1>0, <1>p, <1>1, <2>a DEF FreshInv, FreshPcs, Committed, Fresh, Create, Go,
         NewRunner
    <2>8. AuthorityInv'
      BY <1>0, <1>h, <1>r, <1>1, <2>a DEF AuthorityInv, Committed, UncommittedPcs,
         SetPhasePcs, HandleInv, ConstructingPcs, BusyPcs, CoarsePcs, ClosedPcs,
         RoomPcs, Create, Go, NewRunner, phaseVars
    <2>9. RequestInv'
      BY <1>0, <1>t, <1>1, <2>a DEF RequestInv, InTodo, Create, Go, NewRunner, stopVars,
         operatorVars
    <2>10. ThreatInv'
      BY <1>0, <1>t, <1>1, <2>a DEF ThreatInv, Threat, InTodo, RequestInv, Create, Go,
         NewRunner, stopVars, operatorVars
    <2> QED
      BY <2>1, <2>2, <2>3, <2>4, <2>5, <2>6, <2>7, <2>8, <2>9, <2>10 DEF RuntimeInv
  <1>2. CASE Resume /\ ResumeCoarse
    <2>a. /\ chain # <<>> /\ pc = "down" /\ active = None /\ constructing = None /\ fine = None
          /\ busy = None /\ then = "idle" /\ \A q \in Runs : runner[q] = "absent"
      <3>1. chain # <<>> /\ pc = "down"
        BY <1>2 DEF Resume, Go, Readable
      <3> QED
        BY <1>0, <1>h, <1>r, <1>2, <3>1 DEF HandleInv, BusyPcs, ConstructingPcs, SetPhasePcs,
             ResumeCoarse
    <2>1. RequestTypes' /\ BoundTypes'
      BY <1>2, Untouched DEF Resume, ResumeCoarse, ResumePhase, Go, ResumeFine,
           ResumePrepared, stopVars, operatorVars, ReopenRun, NewRunner, Log
    <2>2. RunnerTypes'
      BY <1>0, <1>2 DEF RunnerTypes, RunnerPhases, Resume, ResumeCoarse, Go, ReopenRun,
         NewRunner
    <2>3. HandleTypes'
      BY <1>0, <1>r, <1>2, <2>a DEF HandleTypes, Resume, ResumeCoarse, Go, ReopenRun
    <2>4. PhaseTypes'
      BY <1>0, <1>2 DEF PhaseTypes, Pcs, SetPhasePcs, HandoffPcs, Phases, Resume,
         ResumeCoarse, Go
    <2>5. StillInv'
      BY <1>0, <1>h, <1>2, <2>a DEF StillInv, Still, Terminal, Resume, ResumeCoarse,
         ResumePhase, Go, ReopenRun, NewRunner, Log
    <2>6. HandleInv'
      BY <1>0, <1>r, <1>2, <2>a DEF HandleInv, ConstructingPcs, BusyPcs, CoarsePcs,
         ClosedPcs, RoomPcs, SetPhasePcs, Resume, ResumeCoarse, Go, ReopenRun, NewRunner
    <2>7. FreshInv'
      BY <1>0, <1>p, <1>2, <2>a DEF FreshInv, FreshPcs, Committed, Fresh, Resume,
         ResumeCoarse, Go, ReopenRun, NewRunner
    <2>8. AuthorityInv'
      BY <1>0, <1>2, <2>a DEF AuthorityInv, Committed, UncommittedPcs, SetPhasePcs,
         Resume, ResumeCoarse, ResumePhase, Go, ReopenRun, NewRunner, Log
    <2>9. RequestInv'
      BY <1>0, <1>t, <1>2, <2>a DEF RequestInv, InTodo, Resume, ResumeCoarse, Go,
         stopVars, operatorVars, ReopenRun, NewRunner
    <2>10. ThreatInv'
      BY <1>0, <1>t, <1>2, <2>a DEF ThreatInv, Threat, InTodo, RequestInv, Resume,
         ResumeCoarse, Go, stopVars, operatorVars, ReopenRun, NewRunner
    <2>11. MaskInv'
      BY <1>0, <1>2 DEF MaskInv, StopIsNotMasked, SetPhasePcs, RequestInv, Resume,
         ResumeCoarse, Go, stopVars, operatorVars
    <2> QED
      BY <2>1, <2>2, <2>3, <2>4, <2>5, <2>6, <2>7, <2>8, <2>9, <2>10, <2>11 DEF RuntimeInv
  <1>3. CASE Resume /\ ResumeFine
    <2>a. /\ chain # <<>> /\ pc = "down" /\ active = None /\ constructing = None /\ fine = None
          /\ busy = None /\ then = "idle" /\ \A q \in Runs : runner[q] = "absent"
          /\ Has("fine_started") /\ ~Has("fine_completed")
      <3>1. chain # <<>> /\ pc = "down"
        BY <1>3 DEF Resume, Go, Readable
      <3> QED
        BY <1>0, <1>h, <1>r, <1>3, <3>1 DEF HandleInv, BusyPcs, ConstructingPcs, SetPhasePcs,
             ResumeFine, ResumePhase
    <2>1. RequestTypes' /\ BoundTypes'
      BY <1>3, Untouched DEF Resume, ResumeFine, ResumePhase, Go, ResumeCoarse,
           ResumePrepared, stopVars, operatorVars, ReopenRun, NewRunner, Log
    <2>2. RunnerTypes'
      BY <1>0, <1>3 DEF RunnerTypes, RunnerPhases, Resume, ResumeFine, Go, ReopenRun,
         NewRunner
    <2>3. HandleTypes'
      BY <1>0, <1>h, <1>r, <1>3, <2>a DEF HandleTypes, Resume, ResumeFine, Go, ReopenRun
    <2>4. PhaseTypes'
      BY <1>0, <1>3 DEF PhaseTypes, Pcs, SetPhasePcs, HandoffPcs, Phases, Resume,
         ResumeFine, Go
    <2>5. StillInv'
      BY <1>0, <1>h, <1>r, <1>3, <2>a DEF StillInv, Still, Terminal, HandleInv,
         ConstructingPcs, BusyPcs, CoarsePcs, ClosedPcs, RoomPcs, SetPhasePcs, Resume,
         ResumeFine, Go, ReopenRun, NewRunner
    <2>6. HandleInv'
      BY <1>0, <1>h, <1>r, <1>3, <2>a DEF HandleInv, ConstructingPcs, BusyPcs,
         CoarsePcs, ClosedPcs, RoomPcs, SetPhasePcs, Resume, ResumeFine, Go, ReopenRun,
         NewRunner
    <2>7. FreshInv'
      BY <1>0, <1>h, <1>r, <1>p, <1>3, <2>a DEF FreshInv, FreshPcs, Committed, Fresh,
         HandleInv, ConstructingPcs, BusyPcs, CoarsePcs, ClosedPcs, RoomPcs,
         SetPhasePcs, Resume, ResumeFine, Go, ReopenRun, NewRunner
    <2>8. AuthorityInv'
      BY <1>0, <1>h, <1>3, <2>a DEF AuthorityInv, Committed, UncommittedPcs,
         SetPhasePcs, Resume, ResumeFine, Go, ReopenRun, NewRunner
    <2>9. RequestInv'
      BY <1>0, <1>t, <1>3, <2>a DEF RequestInv, InTodo, Resume, ResumeFine, Go,
         stopVars, operatorVars, ReopenRun, NewRunner
    <2>10. ThreatInv'
      BY <1>0, <1>t, <1>3, <2>a DEF ThreatInv, Threat, InTodo, RequestInv, Resume,
         ResumeFine, Go, stopVars, operatorVars, ReopenRun, NewRunner
    <2>11. MaskInv'
      BY <1>0, <1>3 DEF MaskInv, StopIsNotMasked, SetPhasePcs, RequestInv, Resume,
         ResumeFine, Go, stopVars, operatorVars
    <2> QED
      BY <2>1, <2>2, <2>3, <2>4, <2>5, <2>6, <2>7, <2>8, <2>9, <2>10, <2>11 DEF RuntimeInv
  <1>4. CASE Resume /\ ResumePrepared
    <2>a. /\ chain # <<>> /\ pc = "down" /\ active = None /\ constructing = None /\ fine = None
          /\ busy = None /\ then = "idle" /\ \A q \in Runs : runner[q] = "absent"
          /\ created + 1 \in FineRuns /\ ~Has("fine_started")
      <3>1. chain # <<>> /\ pc = "down"
        BY <1>4 DEF Resume, Go, Readable
      <3> QED
        BY <1>0, <1>h, <1>r, <1>4, <3>1 DEF HandleInv, BusyPcs, ConstructingPcs, SetPhasePcs,
             ResumePrepared, ResumePhase
    <2>1. RequestTypes'
      BY <1>4, Untouched DEF Resume, ResumePrepared, ResumePhase, Go, ResumeCoarse,
           ResumeFine, stopVars, operatorVars, NewRunner, ReopenRun, Log
    <2>2. RunnerTypes'
      BY <1>0, <1>4 DEF RunnerTypes, RunnerPhases, Resume, ResumePrepared, Go,
         NewRunner, ReopenRun
    <2>3. HandleTypes'
      BY <1>0, <1>r, <1>4, <2>a DEF HandleTypes, Resume, ResumePrepared, Go, ReopenRun
    <2>4. PhaseTypes'
      BY <1>0, <1>4 DEF PhaseTypes, Pcs, SetPhasePcs, HandoffPcs, Phases, Resume,
         ResumePrepared, Go
    <2>5. BoundTypes'
      BY <1>0, <1>4 DEF BoundTypes, Resume, ResumePrepared, Go
    <2>6. StillInv'
      BY <1>0, <1>h, <1>r, <1>4, <2>a DEF StillInv, Still, Terminal, HandleInv,
         ConstructingPcs, BusyPcs, CoarsePcs, ClosedPcs, RoomPcs, SetPhasePcs, Resume,
         ResumePrepared, Go, NewRunner, ReopenRun
    <2>7. HandleInv'
      BY <1>0, <1>r, <1>4, <2>a DEF HandleInv, ConstructingPcs, BusyPcs, CoarsePcs,
         ClosedPcs, RoomPcs, SetPhasePcs, Resume, ResumePrepared, Go, NewRunner,
         ReopenRun
    <2>8. FreshInv'
      BY <1>0, <1>h, <1>r, <1>p, <1>4, <2>a DEF FreshInv, FreshPcs, Committed, Fresh,
         HandleInv, ConstructingPcs, BusyPcs, CoarsePcs, ClosedPcs, RoomPcs,
         SetPhasePcs, Resume, ResumePrepared, Go, NewRunner, ReopenRun
    <2>9. AuthorityInv'
      BY <1>0, <1>4, <2>a DEF AuthorityInv, Committed, UncommittedPcs, SetPhasePcs,
         Resume, ResumePrepared, Go, NewRunner, ReopenRun
    <2>10. RequestInv'
      BY <1>0, <1>t, <1>4, <2>a DEF RequestInv, InTodo, Resume, ResumePrepared, Go,
         stopVars, operatorVars, NewRunner, ReopenRun
    <2>11. ThreatInv'
      BY <1>0, <1>t, <1>4, <2>a DEF ThreatInv, Threat, InTodo, RequestInv, Resume,
         ResumePrepared, Go, stopVars, operatorVars, NewRunner, ReopenRun
    <2>12. MaskInv'
      BY <1>0, <1>4 DEF MaskInv, StopIsNotMasked, SetPhasePcs, RequestInv, Resume,
         ResumePrepared, Go, stopVars, operatorVars
    <2> QED
      BY <2>1, <2>2, <2>3, <2>4, <2>5, <2>6, <2>7, <2>8, <2>9, <2>10, <2>11, <2>12 DEF
           RuntimeInv
  <1>5. CASE Start
    <2>1. HandleTypes' /\ RequestTypes' /\ BoundTypes' /\ MaskInv'
      BY <1>5, Untouched DEF SetPhasePcs, Start, Started, StartFails, handleVars,
           stopVars, phaseVars, operatorVars, bounds, Log
    <2>2. RunnerTypes'
      BY <1>0, <1>5 DEF RunnerTypes, RunnerPhases, Start, Started, StartFails
    <2>3. PhaseTypes'
      BY <1>0, <1>5 DEF PhaseTypes, Pcs, SetPhasePcs, HandoffPcs, Phases, Start,
         phaseVars
    <2>4. StillInv'
      BY <1>0, <1>h, <1>r, <1>5 DEF StillInv, Still, Terminal, HandleInv,
         ConstructingPcs, BusyPcs, CoarsePcs, ClosedPcs, RoomPcs, SetPhasePcs, Start,
         Started, StartFails
    <2>5. HandleInv'
      BY <1>0, <1>5 DEF HandleInv, ConstructingPcs, BusyPcs, CoarsePcs, ClosedPcs,
         RoomPcs, SetPhasePcs, Start, Started, StartFails, handleVars, phaseVars, bounds
    <2>6. FreshInv'
      BY <1>0, <1>h, <1>r, <1>p, <1>5 DEF FreshInv, FreshPcs, Committed, Fresh,
         HandleInv, ConstructingPcs, BusyPcs, CoarsePcs, ClosedPcs, RoomPcs,
         SetPhasePcs, Start, Started, StartFails, handleVars
    <2>7. AuthorityInv'
      BY <1>0, <1>h, <1>r, <1>5 DEF AuthorityInv, Committed, UncommittedPcs,
         SetPhasePcs, HandleInv, ConstructingPcs, BusyPcs, CoarsePcs, ClosedPcs,
         RoomPcs, FreshInv, Start, Started, StartFails, handleVars, phaseVars
    <2>8. RequestInv'
      <3>1. \A q \in Runs : /\ runner[q] # "absent" => runner'[q] # "absent"
                            /\ runner[q] \notin {"idle", "absent"} => runner'[q] # "idle"
        BY <1>0, <1>r, <1>5 DEF HandleInv, ConstructingPcs, BusyPcs, CoarsePcs, ClosedPcs,
             RoomPcs, SetPhasePcs, RunnerPhases, Start, Started, StartFails, handleVars,
             stopVars, phaseVars, operatorVars, bounds, Log
      <3> QED
        BY <1>0, <1>t, <1>5, <3>1 DEF RequestInv, Start, Started, StartFails, handleVars,
             stopVars, phaseVars, operatorVars, bounds, Log
    <2>9. ThreatInv'
      BY <1>0, <1>t, <1>5 DEF ThreatInv, Threat, InTodo, Start, Started, StartFails,
         handleVars, stopVars, operatorVars
    <2> QED
      BY <2>1, <2>2, <2>3, <2>4, <2>5, <2>6, <2>7, <2>8, <2>9 DEF RuntimeInv
  <1>6. CASE CheckStop
    <2>1. RunnerTypes' /\ HandleTypes' /\ RequestTypes' /\ BoundTypes' /\ StillInv'
            /\ FreshInv' /\ RequestInv' /\ ThreatInv' /\ MaskInv'
      BY <1>6, Untouched DEF BoundPcs, FreshPcs, SetPhasePcs, CheckStop, Go, phaseVars,
           SetPhaseFrame, chainVars, runnerVars, handleVars, stopVars, operatorVars,
           bounds
    <2>2. PhaseTypes'
      BY <1>0, <1>6 DEF PhaseTypes, Pcs, SetPhasePcs, HandoffPcs, Phases, CheckStop, Go,
         phaseVars, SetPhaseFrame
    <2>3. HandleInv'
      BY <1>0, <1>6 DEF HandleInv, ConstructingPcs, BusyPcs, CoarsePcs, ClosedPcs,
         RoomPcs, SetPhasePcs, CheckStop, Go, phaseVars, SetPhaseFrame, chainVars,
         runnerVars, handleVars, bounds
    <2>4. AuthorityInv'
      BY <1>0, <1>h, <1>6 DEF AuthorityInv, Committed, UncommittedPcs, SetPhasePcs,
         CheckStop, Go, phaseVars, SetPhaseFrame, runnerVars, handleVars
    <2> QED
      BY <2>1, <2>2, <2>3, <2>4 DEF RuntimeInv
  <1>7. CASE Store
    <2>1. RunnerTypes' /\ HandleTypes' /\ RequestTypes' /\ BoundTypes' /\ StillInv'
            /\ FreshInv' /\ RequestInv' /\ ThreatInv' /\ MaskInv'
      BY <1>7, Untouched DEF BoundPcs, FreshPcs, SetPhasePcs, Store, Go, SetPhaseFrame,
           chainVars, runnerVars, handleVars, stopVars, operatorVars, bounds
    <2>2. PhaseTypes'
      BY <1>0, <1>7 DEF PhaseTypes, Pcs, SetPhasePcs, HandoffPcs, Phases, Store, Go,
         SetPhaseFrame
    <2>3. HandleInv'
      BY <1>0, <1>7 DEF HandleInv, ConstructingPcs, BusyPcs, CoarsePcs, ClosedPcs,
         RoomPcs, SetPhasePcs, Store, Go, SetPhaseFrame, chainVars, runnerVars,
         handleVars, bounds
    <2>4. AuthorityInv'
      BY <1>0, <1>h, <1>7 DEF AuthorityInv, Committed, UncommittedPcs, SetPhasePcs,
         Store, Go, SetPhaseFrame, runnerVars, handleVars
    <2> QED
      BY <2>1, <2>2, <2>3, <2>4 DEF RuntimeInv
  <1>8. CASE Recheck
    <2>1. RunnerTypes' /\ HandleTypes' /\ RequestTypes' /\ BoundTypes' /\ StillInv'
            /\ FreshInv' /\ RequestInv' /\ ThreatInv'
      BY <1>8, Untouched, <1>0 DEF BoundPcs, FreshPcs, Recheck, Return, SetPhaseFrame,
           chainVars, runnerVars, handleVars, stopVars, operatorVars, bounds
    <2>2. PhaseTypes'
      BY <1>0, <1>8 DEF PhaseTypes, Pcs, SetPhasePcs, HandoffPcs, Phases, Recheck,
         Return, SetPhaseFrame
    <2>3. HandleInv'
      BY <1>0, <1>8 DEF HandleInv, ConstructingPcs, BusyPcs, CoarsePcs, ClosedPcs,
         RoomPcs, SetPhasePcs, Recheck, Return, SetPhaseFrame, chainVars, runnerVars,
         handleVars, bounds
    <2>4. AuthorityInv'
      BY <1>0, <1>h, <1>8 DEF AuthorityInv, Committed, UncommittedPcs, SetPhasePcs,
         Recheck, Return, SetPhaseFrame, runnerVars, handleVars
    <2>5. MaskInv'
      BY <1>0, <1>8 DEF MaskInv, StopIsNotMasked, SetPhasePcs, Recheck, Return,
         SetPhaseFrame, stopVars, operatorVars
    <2> QED
      BY <2>1, <2>2, <2>3, <2>4, <2>5 DEF RuntimeInv
  <1>9. CASE Verdict
    <2>1. RunnerTypes' /\ HandleTypes' /\ RequestTypes' /\ BoundTypes' /\ StillInv'
            /\ FreshInv' /\ RequestInv' /\ ThreatInv'
      BY <1>9, Untouched DEF BoundPcs, FreshPcs, Verdict, Go, SetPhaseFrame, chainVars,
           runnerVars, handleVars, stopVars, operatorVars, bounds
    <2>2. PhaseTypes'
      BY <1>0, <1>9 DEF PhaseTypes, Pcs, SetPhasePcs, HandoffPcs, Phases, Verdict, Go,
         SetPhaseFrame
    <2>3. HandleInv'
      BY <1>0, <1>9 DEF HandleInv, ConstructingPcs, BusyPcs, CoarsePcs, ClosedPcs,
         RoomPcs, SetPhasePcs, Verdict, Go, SetPhaseFrame, chainVars, runnerVars,
         handleVars, bounds
    <2>4. AuthorityInv'
      BY <1>0, <1>h, <1>9 DEF AuthorityInv, Committed, UncommittedPcs, SetPhasePcs,
         Verdict, Go, SetPhaseFrame, runnerVars, handleVars
    <2>5. MaskInv'
      BY <1>0, <1>9 DEF MaskInv, StopIsNotMasked, SetPhasePcs, Verdict, Go,
         SetPhaseFrame, stopVars, operatorVars
    <2> QED
      BY <2>1, <2>2, <2>3, <2>4, <2>5 DEF RuntimeInv
  <1>10. CASE Overwrite
    <2>1. RunnerTypes' /\ HandleTypes' /\ RequestTypes' /\ BoundTypes' /\ StillInv'
            /\ FreshInv' /\ RequestInv' /\ ThreatInv'
      BY <1>10, Untouched, <1>0 DEF BoundPcs, FreshPcs, Overwrite, Return, SetPhaseFrame,
           chainVars, runnerVars, handleVars, stopVars, operatorVars, bounds
    <2>2. PhaseTypes'
      BY <1>0, <1>10 DEF PhaseTypes, Pcs, SetPhasePcs, HandoffPcs, Phases, Overwrite,
         Return, SetPhaseFrame
    <2>3. HandleInv'
      BY <1>0, <1>10 DEF HandleInv, ConstructingPcs, BusyPcs, CoarsePcs, ClosedPcs,
         RoomPcs, SetPhasePcs, Overwrite, Return, SetPhaseFrame, chainVars, runnerVars,
         handleVars, bounds
    <2>4. AuthorityInv'
      BY <1>0, <1>h, <1>10 DEF AuthorityInv, Committed, UncommittedPcs, SetPhasePcs,
         Overwrite, Return, SetPhaseFrame, runnerVars, handleVars
    <2>5. MaskInv'
      BY <1>0, <1>10 DEF MaskInv, StopIsNotMasked, SetPhasePcs, Overwrite, Return,
         SetPhaseFrame, stopVars, operatorVars
    <2> QED
      BY <2>1, <2>2, <2>3, <2>4, <2>5 DEF RuntimeInv
  <1>11. CASE Block
    <2>1. RunnerTypes' /\ HandleTypes' /\ RequestTypes' /\ BoundTypes' /\ StillInv'
            /\ FreshInv' /\ RequestInv' /\ ThreatInv' /\ MaskInv'
      BY <1>11, Untouched DEF BoundPcs, FreshPcs, SetPhasePcs, Block, SetPhase, chainVars,
           runnerVars, handleVars, stopVars, operatorVars, bounds
    <2>2. PhaseTypes'
      BY <1>0, <1>11 DEF PhaseTypes, Pcs, SetPhasePcs, HandoffPcs, Phases, Block,
         SetPhase
    <2>3. HandleInv'
      BY <1>0, <1>11 DEF HandleInv, ConstructingPcs, BusyPcs, CoarsePcs, ClosedPcs,
         RoomPcs, SetPhasePcs, Block, SetPhase, chainVars, runnerVars, handleVars,
         bounds
    <2>4. AuthorityInv'
      BY <1>0, <1>h, <1>11 DEF AuthorityInv, Committed, UncommittedPcs, SetPhasePcs,
         Block, SetPhase, runnerVars, handleVars
    <2> QED
      BY <2>1, <2>2, <2>3, <2>4 DEF RuntimeInv
  <1>12. CASE BlockStop
    <2>a. active \in Runs /\ runner[active] # "absent" /\ busy = None /\ constructing = None
      BY <1>0, <1>12 DEF BlockStop, HandleInv, BusyPcs, ConstructingPcs
    <2>b. /\ Rests(active) /\ pc' = "idle"
          /\ proven' \in [Runs -> BOOLEAN] /\ stopping' \in [Runs -> BOOLEAN]
      <3>1. CASE runner[active] = "aborted" /\ UNCHANGED runnerVars /\ pc' = "idle"
        <4>1. runner' = [runner EXCEPT ![active] = "aborted"]
          BY <1>0, <3>1 DEF runnerVars
        <4> QED
          BY <1>0, <3>1, <4>1 DEF Rests, runnerVars
      <3>2. CASE StopRunner(active, "idle", "idle")
        BY <2>a, <3>2, StopRunnerEffect
      <3> QED
        BY <1>12, <3>1, <3>2 DEF BlockStop
    <2>c. PICK p \in {"idle", "aborted", "failed", "complete"} :
               /\ runner' = [runner EXCEPT ![active] = p]
               /\ p # runner[active] => runner[active] = "ready" /\ p # "idle"
      BY <2>b DEF Rests
    <2>1. HandleTypes' /\ RequestTypes' /\ BoundTypes' /\ FreshInv' /\ MaskInv'
      BY <1>12, Untouched, <2>a, <2>b, <2>c DEF BoundPcs, FreshPcs, SetPhasePcs,
           BlockStop, runnerVars, handleVars, stopVars, phaseVars, operatorVars, bounds
    <2>2. RunnerTypes'
      BY <1>0, <1>r, <1>12, <2>a, <2>b, <2>c DEF RunnerTypes, RunnerPhases, BlockStop,
         runnerVars
    <2>3. PhaseTypes'
      BY <1>0, <1>r, <1>12, <2>a, <2>b, <2>c DEF PhaseTypes, Pcs, SetPhasePcs,
         HandoffPcs, Phases, BlockStop, phaseVars
    <2>4. StillInv'
      BY <1>0, <1>h, <1>12, <2>a, <2>b, <2>c DEF StillInv, Still, Terminal, BlockStop,
         runnerVars
    <2>5. HandleInv'
      BY <1>0, <1>12, <2>a, <2>b, <2>c DEF HandleInv, ConstructingPcs, BusyPcs,
         CoarsePcs, ClosedPcs, RoomPcs, SetPhasePcs, BlockStop, runnerVars, handleVars,
         phaseVars, bounds
    <2>6. AuthorityInv'
      BY <1>0, <1>h, <1>12, <2>a, <2>b, <2>c DEF AuthorityInv, Committed,
         UncommittedPcs, SetPhasePcs, BlockStop, runnerVars, handleVars, phaseVars
    <2>7. RequestInv'
      BY <1>0, <1>t, <1>12, <2>a, <2>b, <2>c DEF RequestInv, InTodo, BlockStop,
         runnerVars, stopVars, operatorVars
    <2>8. ThreatInv'
      BY <1>0, <1>t, <1>12, <2>a, <2>b, <2>c DEF ThreatInv, Threat, InTodo, BlockStop,
         runnerVars, handleVars, stopVars, operatorVars
    <2> QED
      BY <2>1, <2>2, <2>3, <2>4, <2>5, <2>6, <2>7, <2>8 DEF RuntimeInv
  <1>13. CASE Apply
    <2>1. RunnerTypes' /\ HandleTypes' /\ RequestTypes' /\ BoundTypes' /\ StillInv'
            /\ FreshInv' /\ AuthorityInv' /\ RequestInv' /\ ThreatInv' /\ MaskInv'
      BY <1>13, Untouched DEF BoundPcs, FreshPcs, UncommittedPcs, SetPhasePcs, Apply,
           SetPhase, chainVars, runnerVars, handleVars, stopVars, operatorVars, bounds
    <2>2. PhaseTypes'
      BY <1>0, <1>13 DEF PhaseTypes, Pcs, SetPhasePcs, HandoffPcs, Phases, Apply,
         SetPhase
    <2>3. HandleInv'
      BY <1>0, <1>13 DEF HandleInv, ConstructingPcs, BusyPcs, CoarsePcs, ClosedPcs,
         RoomPcs, SetPhasePcs, Apply, SetPhase, chainVars, runnerVars, handleVars,
         bounds
    <2> QED
      BY <2>1, <2>2, <2>3 DEF RuntimeInv
  <1>14. CASE Begin
    <2>1. RunnerTypes' /\ RequestTypes' /\ FreshInv' /\ RequestInv' /\ ThreatInv'
            /\ MaskInv'
      BY <1>14, Untouched DEF BoundPcs, FreshPcs, SetPhasePcs, Begin, Go, Offered,
           chainVars, runnerVars, handleVars, stopVars, phaseVars, operatorVars
    <2>2. HandleTypes'
      BY <1>0, <1>14 DEF HandleTypes, Begin, Go, Offered, handleVars
    <2>3. PhaseTypes'
      BY <1>0, <1>14 DEF PhaseTypes, Pcs, SetPhasePcs, HandoffPcs, Phases, Begin, Go,
         Offered, phaseVars
    <2>4. BoundTypes'
      BY <1>0, <1>14, ChainAssumption, RuntimeAssumption DEF BoundTypes, Begin, Go,
         Offered
    <2>5. StillInv'
      BY <1>0, <1>h, <1>14 DEF StillInv, Still, Terminal, Begin, Go, Offered, runnerVars
    <2>6. HandleInv'
      BY <1>0, <1>14 DEF HandleInv, ConstructingPcs, BusyPcs, CoarsePcs, ClosedPcs,
         RoomPcs, SetPhasePcs, Begin, Go, Offered, chainVars, runnerVars, handleVars,
         phaseVars
    <2>7. AuthorityInv'
      BY <1>0, <1>h, <1>14 DEF AuthorityInv, Committed, UncommittedPcs, SetPhasePcs,
         Begin, Go, Offered, runnerVars, handleVars, phaseVars
    <2> QED
      BY <2>1, <2>2, <2>3, <2>4, <2>5, <2>6, <2>7 DEF RuntimeInv
  <1>15. CASE Progress
    <2>1. RunnerTypes' /\ HandleTypes' /\ RequestTypes' /\ BoundTypes' /\ StillInv'
            /\ FreshInv' /\ AuthorityInv' /\ RequestInv' /\ ThreatInv' /\ MaskInv'
      BY <1>15, Untouched DEF BoundPcs, FreshPcs, UncommittedPcs, SetPhasePcs, Progress,
           Log, OperationFrame, handleVars, stopVars, phaseVars, operatorVars, bounds
    <2>2. PhaseTypes'
      BY <1>0, <1>15 DEF PhaseTypes, Pcs, SetPhasePcs, HandoffPcs, Phases, Progress,
         OperationFrame, phaseVars
    <2>3. HandleInv'
      BY <1>0, <1>15 DEF HandleInv, ConstructingPcs, BusyPcs, CoarsePcs, ClosedPcs,
         RoomPcs, SetPhasePcs, Progress, OperationFrame, handleVars, phaseVars, bounds
    <2> QED
      BY <2>1, <2>2, <2>3 DEF RuntimeInv
  <1>16. CASE OperationRaises
    <2>1. RequestTypes' /\ BoundTypes' /\ FreshInv' /\ MaskInv'
      BY <1>16, Untouched DEF BoundPcs, FreshPcs, SetPhasePcs, OperationRaises,
           AbortLatched, Log, OperationFrame, AbortRecorded, handleVars, stopVars,
           phaseVars, operatorVars, bounds
    <2>2. RunnerTypes'
      BY <1>0, <1>16 DEF RunnerTypes, RunnerPhases, OperationRaises, AbortLatched,
         OperationFrame, AbortRecorded
    <2>3. HandleTypes'
      BY <1>0, <1>16 DEF HandleTypes, OperationRaises, OperationFrame, handleVars
    <2>4. PhaseTypes'
      BY <1>0, <1>16 DEF PhaseTypes, Pcs, SetPhasePcs, HandoffPcs, Phases,
         OperationRaises, OperationFrame, phaseVars
    <2>5. StillInv'
      BY <1>0, <1>h, <1>r, <1>16 DEF StillInv, Still, Terminal, HandleInv,
         ConstructingPcs, BusyPcs, CoarsePcs, ClosedPcs, RoomPcs, SetPhasePcs,
         OperationRaises, AbortLatched, OperationFrame, AbortRecorded
    <2>6. HandleInv'
      BY <1>0, <1>16 DEF HandleInv, ConstructingPcs, BusyPcs, CoarsePcs, ClosedPcs,
         RoomPcs, SetPhasePcs, OperationRaises, AbortLatched, OperationFrame,
         AbortRecorded, handleVars, phaseVars, bounds
    <2>7. AuthorityInv'
      BY <1>0, <1>h, <1>r, <1>16 DEF AuthorityInv, Committed, UncommittedPcs,
         SetPhasePcs, HandleInv, ConstructingPcs, BusyPcs, CoarsePcs, ClosedPcs,
         RoomPcs, OperationRaises, AbortLatched, OperationFrame, AbortRecorded,
         handleVars, phaseVars
    <2>8. RequestInv'
      <3>1. \A q \in Runs : /\ runner[q] # "absent" => runner'[q] # "absent"
                            /\ runner[q] \notin {"idle", "absent"} => runner'[q] # "idle"
        BY <1>0, <1>r, <1>16 DEF HandleInv, ConstructingPcs, BusyPcs, CoarsePcs,
             ClosedPcs, RoomPcs, SetPhasePcs, RunnerPhases, OperationRaises, AbortLatched,
             Log, OperationFrame, AbortRecorded, handleVars, stopVars, phaseVars,
             operatorVars, bounds
      <3> QED
        BY <1>0, <1>t, <1>16, <3>1 DEF RequestInv, OperationRaises, AbortLatched, Log,
             OperationFrame, AbortRecorded, handleVars, stopVars, phaseVars, operatorVars,
             bounds
    <2>9. ThreatInv'
      BY <1>0, <1>t, <1>16 DEF ThreatInv, Threat, InTodo, OperationRaises, AbortLatched,
         OperationFrame, AbortRecorded, handleVars, stopVars, operatorVars
    <2> QED
      BY <2>1, <2>2, <2>3, <2>4, <2>5, <2>6, <2>7, <2>8, <2>9 DEF RuntimeInv
  <1>17. CASE Accept \/ AcceptRaises
    <2>1. RunnerTypes' /\ RequestTypes' /\ BoundTypes' /\ FreshInv' /\ RequestInv'
            /\ ThreatInv' /\ MaskInv'
      BY <1>17, Untouched DEF BoundPcs, FreshPcs, SetPhasePcs, Accept, AcceptRaises,
           Append1, runnerVars, handleVars, stopVars, phaseVars, operatorVars, bounds,
           AppendRaises
    <2>2. HandleTypes'
      BY <1>0, <1>17 DEF HandleTypes, Accept, AcceptRaises, handleVars
    <2>3. PhaseTypes'
      BY <1>0, <1>17 DEF PhaseTypes, Pcs, SetPhasePcs, HandoffPcs, Phases, Accept,
         AcceptRaises, phaseVars
    <2>4. StillInv'
      BY <1>0, <1>h, <1>r, <1>17 DEF StillInv, Still, Terminal, HandleInv,
         ConstructingPcs, BusyPcs, CoarsePcs, ClosedPcs, RoomPcs, SetPhasePcs, Accept,
         AcceptRaises, runnerVars
    <2>5. HandleInv'
      BY <1>0, <1>17 DEF HandleInv, ConstructingPcs, BusyPcs, CoarsePcs, ClosedPcs,
         RoomPcs, SetPhasePcs, Accept, AcceptRaises, Append1, runnerVars, handleVars,
         phaseVars, bounds, AppendRaises
    <2>6. AuthorityInv'
      BY <1>0, <1>h, <1>r, <1>17 DEF AuthorityInv, Committed, UncommittedPcs,
         SetPhasePcs, HandleInv, ConstructingPcs, BusyPcs, CoarsePcs, ClosedPcs,
         RoomPcs, Accept, AcceptRaises, runnerVars, handleVars, phaseVars
    <2> QED
      BY <2>1, <2>2, <2>3, <2>4, <2>5, <2>6 DEF RuntimeInv
  <1>18. CASE ObserveStop
    <2>1. RequestTypes' /\ BoundTypes' /\ FreshInv' /\ MaskInv'
      BY <1>18, Untouched DEF BoundPcs, FreshPcs, SetPhasePcs, ObserveStop,
           OperationFrame, Terminal, AbortLatched, handleVars, stopVars, phaseVars,
           operatorVars, bounds, AbortRecorded, Log
    <2>2. RunnerTypes'
      BY <1>0, <1>18 DEF RunnerTypes, RunnerPhases, ObserveStop,
         OperationFrame, Terminal, AbortLatched, AbortRecorded
    <2>3. HandleTypes'
      BY <1>0, <1>18 DEF HandleTypes, ObserveStop, OperationFrame, Terminal,
         handleVars
    <2>4. PhaseTypes'
      BY <1>0, <1>18 DEF PhaseTypes, Pcs, SetPhasePcs, HandoffPcs, Phases, ObserveStop,
         OperationFrame, Terminal, phaseVars
    <2>5. StillInv'
      BY <1>0, <1>h, <1>r, <1>18 DEF StillInv, Still, Terminal, HandleInv,
         ConstructingPcs, BusyPcs, CoarsePcs, ClosedPcs, RoomPcs, SetPhasePcs, ObserveStop,
         OperationFrame, AbortLatched, AbortRecorded
    <2>6. HandleInv'
      BY <1>0, <1>18 DEF HandleInv, ConstructingPcs, BusyPcs, CoarsePcs, ClosedPcs,
         RoomPcs, SetPhasePcs, ObserveStop, OperationFrame, Terminal,
         AbortLatched, handleVars, phaseVars, bounds, AbortRecorded
    <2>7. AuthorityInv'
      BY <1>0, <1>h, <1>r, <1>18 DEF AuthorityInv, Committed, UncommittedPcs,
         SetPhasePcs, HandleInv, ConstructingPcs, BusyPcs, CoarsePcs, ClosedPcs,
         RoomPcs, ObserveStop, OperationFrame, Terminal, AbortLatched,
         handleVars, phaseVars, AbortRecorded
    <2>8. RequestInv'
      <3>1. \A q \in Runs : /\ runner[q] # "absent" => runner'[q] # "absent"
                            /\ runner[q] \notin {"idle", "absent"} => runner'[q] # "idle"
        BY <1>0, <1>r, <1>18 DEF HandleInv, ConstructingPcs, BusyPcs, CoarsePcs,
             ClosedPcs, RoomPcs, SetPhasePcs, RunnerPhases, ObserveStop,
             OperationFrame, Terminal, AbortLatched, handleVars, stopVars, phaseVars,
             operatorVars, bounds, AbortRecorded, Log
      <3> QED
        BY <1>0, <1>t, <1>18, <3>1 DEF RequestInv, ObserveStop, OperationFrame,
             Terminal, AbortLatched, handleVars, stopVars, phaseVars, operatorVars,
             bounds, AbortRecorded, Log
    <2>9. ThreatInv'
      BY <1>0, <1>t, <1>18 DEF ThreatInv, Threat, InTodo, ObserveStop,
         OperationFrame, Terminal, AbortLatched, handleVars, stopVars, operatorVars,
         AbortRecorded
    <2> QED
      BY <2>1, <2>2, <2>3, <2>4, <2>5, <2>6, <2>7, <2>8, <2>9 DEF RuntimeInv
  <1>18a. CASE ReadFlag \/ EndWork
    <2>1. RunnerTypes' /\ RequestTypes' /\ BoundTypes' /\ FreshInv' /\ RequestInv'
            /\ ThreatInv' /\ MaskInv'
      BY <1>18a, Untouched DEF BoundPcs, FreshPcs, SetPhasePcs, ReadFlag, EndWork, Go,
           OperationFrame, handleVars, stopVars, phaseVars, operatorVars, bounds
    <2>2. HandleTypes'
      BY <1>0, <1>18a DEF HandleTypes, ReadFlag, EndWork, Go, OperationFrame, handleVars
    <2>3. PhaseTypes'
      BY <1>0, <1>18a DEF PhaseTypes, Pcs, SetPhasePcs, HandoffPcs, Phases, ReadFlag,
         EndWork, Go, OperationFrame, phaseVars
    <2>4. StillInv'
      BY <1>0, <1>h, <1>r, <1>18a DEF StillInv, Still, Terminal, HandleInv,
         ConstructingPcs, BusyPcs, CoarsePcs, ClosedPcs, RoomPcs, SetPhasePcs, ReadFlag,
         EndWork, Go, OperationFrame
    <2>5. HandleInv'
      BY <1>0, <1>18a DEF HandleInv, ConstructingPcs, BusyPcs, CoarsePcs, ClosedPcs,
         RoomPcs, SetPhasePcs, ReadFlag, EndWork, Go, OperationFrame, handleVars,
         phaseVars, bounds
    <2>6. AuthorityInv'
      BY <1>0, <1>h, <1>r, <1>18a DEF AuthorityInv, Committed, UncommittedPcs,
         SetPhasePcs, HandleInv, ConstructingPcs, BusyPcs, CoarsePcs, ClosedPcs,
         RoomPcs, ReadFlag, EndWork, Go, OperationFrame, handleVars, phaseVars
    <2> QED
      BY <2>1, <2>2, <2>3, <2>4, <2>5, <2>6 DEF RuntimeInv
  <1>19. CASE EndCoarse
    <2>1. RunnerTypes' /\ RequestTypes' /\ BoundTypes' /\ FreshInv' /\ RequestInv'
            /\ ThreatInv' /\ MaskInv'
      BY <1>19, Untouched DEF BoundPcs, FreshPcs, SetPhasePcs, EndCoarse, SetPhase,
           chainVars, runnerVars, handleVars, stopVars, operatorVars, bounds
    <2>2. HandleTypes'
      BY <1>0, <1>19 DEF HandleTypes, EndCoarse, SetPhase, handleVars
    <2>3. PhaseTypes'
      BY <1>0, <1>19 DEF PhaseTypes, Pcs, SetPhasePcs, HandoffPcs, Phases, EndCoarse,
         SetPhase
    <2>4. StillInv'
      BY <1>0, <1>h, <1>r, <1>19 DEF StillInv, Still, Terminal, HandleInv,
         ConstructingPcs, BusyPcs, CoarsePcs, ClosedPcs, RoomPcs, SetPhasePcs,
         EndCoarse, runnerVars
    <2>5. HandleInv'
      BY <1>0, <1>r, <1>19 DEF HandleInv, ConstructingPcs, BusyPcs, CoarsePcs,
         ClosedPcs, RoomPcs, SetPhasePcs, EndCoarse, SetPhase, chainVars, runnerVars,
         handleVars, bounds
    <2>6. AuthorityInv'
      BY <1>0, <1>h, <1>r, <1>19 DEF AuthorityInv, Committed, UncommittedPcs,
         SetPhasePcs, HandleInv, ConstructingPcs, BusyPcs, CoarsePcs, ClosedPcs,
         RoomPcs, EndCoarse, SetPhase, runnerVars, handleVars
    <2> QED
      BY <2>1, <2>2, <2>3, <2>4, <2>5, <2>6 DEF RuntimeInv
  <1>20. CASE EndFine
    <2>1. RequestTypes' /\ BoundTypes' /\ MaskInv'
      BY <1>20, Untouched DEF SetPhasePcs, EndFine, Log, OperationFrame, handleVars,
           stopVars, phaseVars, operatorVars, bounds
    <2>2. RunnerTypes'
      BY <1>0, <1>20 DEF RunnerTypes, RunnerPhases, EndFine, OperationFrame
    <2>3. HandleTypes'
      BY <1>0, <1>20 DEF HandleTypes, EndFine, OperationFrame, handleVars
    <2>4. PhaseTypes'
      BY <1>0, <1>20 DEF PhaseTypes, Pcs, SetPhasePcs, HandoffPcs, Phases, EndFine,
         OperationFrame, phaseVars
    <2>5. StillInv'
      BY <1>0, <1>h, <1>r, <1>20 DEF StillInv, Still, Terminal, HandleInv,
         ConstructingPcs, BusyPcs, CoarsePcs, ClosedPcs, RoomPcs, SetPhasePcs, EndFine,
         OperationFrame
    <2>6. HandleInv'
      BY <1>0, <1>r, <1>20 DEF HandleInv, ConstructingPcs, BusyPcs, CoarsePcs,
         ClosedPcs, RoomPcs, SetPhasePcs, EndFine, OperationFrame, handleVars,
         phaseVars, bounds
    <2>7. FreshInv'
      BY <1>0, <1>h, <1>r, <1>p, <1>20 DEF FreshInv, FreshPcs, Committed, Fresh,
         HandleInv, ConstructingPcs, BusyPcs, CoarsePcs, ClosedPcs, RoomPcs,
         SetPhasePcs, AuthorityInv, EndFine, OperationFrame, handleVars
    <2>8. AuthorityInv'
      BY <1>0, <1>h, <1>r, <1>20 DEF AuthorityInv, Committed, UncommittedPcs,
         SetPhasePcs, HandleInv, ConstructingPcs, BusyPcs, CoarsePcs, ClosedPcs,
         RoomPcs, EndFine, OperationFrame, handleVars, phaseVars
    <2>9. RequestInv'
      BY <1>0, <1>t, <1>20 DEF RequestInv, InTodo, EndFine, OperationFrame, stopVars,
         operatorVars
    <2>10. ThreatInv'
      BY <1>0, <1>t, <1>20 DEF ThreatInv, Threat, InTodo, EndFine, OperationFrame,
         handleVars, stopVars, operatorVars
    <2> QED
      BY <2>1, <2>2, <2>3, <2>4, <2>5, <2>6, <2>7, <2>8, <2>9, <2>10 DEF RuntimeInv
  <1>21. CASE \/ FlagCheck("handoff", "verify") \/ FlagCheck("flag2", "stop_coarse")
              \/ FlagCheck("flag3", "checkpoint")
    <2>1. RunnerTypes' /\ HandleTypes' /\ RequestTypes' /\ BoundTypes' /\ StillInv'
            /\ FreshInv' /\ AuthorityInv' /\ RequestInv' /\ ThreatInv' /\ MaskInv'
      BY <1>21, Untouched DEF BoundPcs, FreshPcs, UncommittedPcs, SetPhasePcs, FlagCheck,
           SetPhase, HandoffFrame, runnerVars, handleVars, stopVars, operatorVars, bounds
    <2>2. PhaseTypes'
      BY <1>0, <1>21 DEF PhaseTypes, Pcs, SetPhasePcs, HandoffPcs, Phases, FlagCheck,
         SetPhase, HandoffFrame
    <2>3. HandleInv'
      BY <1>0, <1>21 DEF HandleInv, ConstructingPcs, BusyPcs, CoarsePcs, ClosedPcs,
         RoomPcs, SetPhasePcs, FlagCheck, SetPhase, HandoffFrame, runnerVars,
         handleVars, bounds
    <2> QED
      BY <2>1, <2>2, <2>3 DEF RuntimeInv
  <1>22. CASE VerifyTransition
    <2>1. RunnerTypes' /\ HandleTypes' /\ RequestTypes' /\ BoundTypes' /\ StillInv'
            /\ FreshInv' /\ AuthorityInv' /\ RequestInv' /\ ThreatInv' /\ MaskInv'
      BY <1>22, Untouched DEF BoundPcs, FreshPcs, UncommittedPcs, SetPhasePcs,
           VerifyTransition, Check, HandoffFrame, runnerVars, handleVars, stopVars,
           operatorVars, bounds
    <2>2. PhaseTypes'
      BY <1>0, <1>22 DEF PhaseTypes, Pcs, SetPhasePcs, HandoffPcs, Phases,
         VerifyTransition, Check, HandoffFrame
    <2>3. HandleInv'
      BY <1>0, <1>22 DEF HandleInv, ConstructingPcs, BusyPcs, CoarsePcs, ClosedPcs,
         RoomPcs, SetPhasePcs, VerifyTransition, Check, HandoffFrame, runnerVars,
         handleVars, bounds
    <2> QED
      BY <2>1, <2>2, <2>3 DEF RuntimeInv
  <1>23. CASE StopCoarse
    <2>a. active = Coarse /\ Coarse \in Runs /\ runner[Coarse] # "absent" /\ busy = None
      BY <1>0, <1>23, <1>r DEF StopCoarse, HandleInv, BusyPcs, CoarsePcs
    <2>b. /\ Rests(Coarse) /\ pc' \in {"flag3", "except"}
          /\ pc' = "flag3" => runner'[Coarse] = "aborted"
          /\ proven' \in [Runs -> BOOLEAN] /\ stopping' \in [Runs -> BOOLEAN]
      BY <1>23, <2>a, StopRunnerEffect DEF StopCoarse
    <2>c. PICK p \in {"idle", "aborted", "failed", "complete"} :
               /\ runner' = [runner EXCEPT ![Coarse] = p]
               /\ p # runner[Coarse] => runner[Coarse] = "ready" /\ p # "idle"
      BY <2>b DEF Rests
    <2>1. HandleTypes' /\ RequestTypes' /\ BoundTypes' /\ FreshInv' /\ MaskInv'
      BY <1>23, Untouched, <2>a, <2>b, <2>c DEF BoundPcs, FreshPcs, SetPhasePcs,
           StopCoarse, handleVars, stopVars, phaseVars, operatorVars, bounds
    <2>2. RunnerTypes'
      BY <1>0, <1>r, <1>23, <2>a, <2>b, <2>c DEF RunnerTypes, RunnerPhases, StopCoarse
    <2>3. PhaseTypes'
      BY <1>0, <1>r, <1>23, <2>a, <2>b, <2>c DEF PhaseTypes, Pcs, SetPhasePcs,
         HandoffPcs, Phases, StopCoarse, phaseVars
    <2>4. StillInv'
      BY <1>0, <1>h, <1>23, <2>a, <2>b, <2>c DEF StillInv, Still, Terminal, StopCoarse
    <2>5. HandleInv'
      BY <1>0, <1>23, <2>a, <2>b, <2>c DEF HandleInv, ConstructingPcs, BusyPcs,
         CoarsePcs, ClosedPcs, RoomPcs, SetPhasePcs, StopCoarse, handleVars, phaseVars,
         bounds
    <2>6. AuthorityInv'
      BY <1>0, <1>h, <1>23, <2>a, <2>b, <2>c DEF AuthorityInv, Committed,
         UncommittedPcs, SetPhasePcs, StopCoarse, handleVars, phaseVars
    <2>7. RequestInv'
      BY <1>0, <1>t, <1>23, <2>a, <2>b, <2>c DEF RequestInv, InTodo, StopCoarse,
         stopVars, operatorVars
    <2>8. ThreatInv'
      BY <1>0, <1>t, <1>23, <2>a, <2>b, <2>c DEF ThreatInv, Threat, InTodo, StopCoarse,
         handleVars, stopVars, operatorVars
    <2> QED
      BY <2>1, <2>2, <2>3, <2>4, <2>5, <2>6, <2>7, <2>8 DEF RuntimeInv
  <1>24. CASE LastCheckpoint
    <2>1. RunnerTypes' /\ HandleTypes' /\ RequestTypes' /\ BoundTypes' /\ FreshInv'
            /\ RequestInv' /\ ThreatInv' /\ MaskInv'
      BY <1>24, Untouched DEF BoundPcs, FreshPcs, SetPhasePcs, LastCheckpoint, ChainStep,
           Append1, AppendRaises, HandoffFrame, runnerVars, handleVars, stopVars,
           operatorVars, bounds
    <2>2. PhaseTypes'
      BY <1>0, <1>24 DEF PhaseTypes, Pcs, SetPhasePcs, HandoffPcs, Phases,
         LastCheckpoint, ChainStep, HandoffFrame
    <2>3. StillInv'
      BY <1>0, <1>h, <1>24 DEF StillInv, Still, Terminal, LastCheckpoint, ChainStep,
         HandoffFrame, runnerVars
    <2>4. HandleInv'
      BY <1>0, <1>h, <1>r, <1>24 DEF HandleInv, ConstructingPcs, BusyPcs, CoarsePcs,
         ClosedPcs, RoomPcs, SetPhasePcs, LastCheckpoint, ChainStep, HandoffFrame,
         runnerVars, handleVars, bounds
    <2>5. AuthorityInv'
      BY <1>0, <1>h, <1>24 DEF AuthorityInv, Committed, UncommittedPcs, SetPhasePcs,
         LastCheckpoint, ChainStep, HandoffFrame, runnerVars, handleVars
    <2> QED
      BY <2>1, <2>2, <2>3, <2>4, <2>5 DEF RuntimeInv
  <1>25. CASE Prepare
    <2>1. RunnerTypes' /\ HandleTypes' /\ RequestTypes' /\ BoundTypes' /\ FreshInv'
            /\ RequestInv' /\ ThreatInv' /\ MaskInv'
      BY <1>25, Untouched DEF BoundPcs, FreshPcs, SetPhasePcs, Prepare, ChainStep,
           Append1, AppendRaises, HandoffFrame, runnerVars, handleVars, stopVars,
           operatorVars, bounds
    <2>2. PhaseTypes'
      BY <1>0, <1>25 DEF PhaseTypes, Pcs, SetPhasePcs, HandoffPcs, Phases, Prepare,
         ChainStep, HandoffFrame
    <2>3. StillInv'
      BY <1>0, <1>h, <1>r, <1>25 DEF StillInv, Still, Terminal, HandleInv,
         ConstructingPcs, BusyPcs, CoarsePcs, ClosedPcs, RoomPcs, SetPhasePcs, Prepare,
         ChainStep, HandoffFrame, runnerVars
    <2>4. HandleInv'
      BY <1>0, <1>25 DEF HandleInv, ConstructingPcs, BusyPcs, CoarsePcs, ClosedPcs,
         RoomPcs, SetPhasePcs, Prepare, ChainStep, Append1, AppendRaises, HandoffFrame,
         runnerVars, handleVars, bounds
    <2>5. AuthorityInv'
      BY <1>0, <1>h, <1>25 DEF AuthorityInv, Committed, UncommittedPcs, SetPhasePcs,
         Prepare, ChainStep, HandoffFrame, runnerVars, handleVars
    <2> QED
      BY <2>1, <2>2, <2>3, <2>4, <2>5 DEF RuntimeInv
  <1>26. CASE CreateFine
    <2>1. HandleTypes' /\ RequestTypes' /\ FreshInv' /\ MaskInv'
      BY <1>26, Untouched DEF BoundPcs, FreshPcs, SetPhasePcs, CreateFine, Check,
           NewRunner, chainVars, handleVars, stopVars, phaseVars, operatorVars
    <2>2. RunnerTypes'
      BY <1>0, <1>26 DEF RunnerTypes, RunnerPhases, CreateFine, Check, NewRunner
    <2>3. PhaseTypes'
      BY <1>0, <1>26 DEF PhaseTypes, Pcs, SetPhasePcs, HandoffPcs, Phases, CreateFine,
         Check, phaseVars
    <2>4. BoundTypes'
      BY <1>0, <1>26, ChainAssumption, RuntimeAssumption DEF BoundTypes, HandleInv,
         RoomPcs, CreateFine, Check
    <2>5. StillInv'
      BY <1>0, <1>h, <1>r, <1>26 DEF StillInv, Still, Terminal, HandleInv,
         ConstructingPcs, BusyPcs, CoarsePcs, ClosedPcs, RoomPcs, SetPhasePcs,
         CreateFine, Check, NewRunner
    <2>6. HandleInv'
      BY <1>0, <1>r, <1>26 DEF HandleInv, ConstructingPcs, BusyPcs, CoarsePcs,
         ClosedPcs, RoomPcs, SetPhasePcs, CreateFine, Check, NewRunner, chainVars,
         handleVars, phaseVars
    <2>7. AuthorityInv'
      BY <1>0, <1>h, <1>26 DEF AuthorityInv, Committed, UncommittedPcs, SetPhasePcs,
         CreateFine, Check, NewRunner, handleVars, phaseVars
    <2>8. RequestInv'
      <3>1. \A q \in Runs : /\ runner[q] # "absent" => runner'[q] # "absent"
                            /\ runner[q] \notin {"idle", "absent"} => runner'[q] # "idle"
        BY <1>0, <1>r, <1>26 DEF HandleInv, ConstructingPcs, BusyPcs, CoarsePcs,
             ClosedPcs, RoomPcs, SetPhasePcs, RunnerPhases, CreateFine, Check, NewRunner,
             chainVars, handleVars, stopVars, phaseVars, operatorVars
      <3> QED
        BY <1>0, <1>t, <1>26, <3>1 DEF RequestInv, CreateFine, Check, NewRunner,
             chainVars, handleVars, stopVars, phaseVars, operatorVars
    <2>9. ThreatInv'
      BY <1>0, <1>t, <1>26 DEF ThreatInv, Threat, InTodo, CreateFine, Check, NewRunner,
         handleVars, stopVars, operatorVars
    <2> QED
      BY <2>1, <2>2, <2>3, <2>4, <2>5, <2>6, <2>7, <2>8, <2>9 DEF RuntimeInv
  <1>27. CASE Construct
    <2>1. RunnerTypes' /\ RequestTypes' /\ BoundTypes' /\ StillInv' /\ FreshInv'
            /\ RequestInv' /\ MaskInv'
      BY <1>27, Untouched DEF BoundPcs, FreshPcs, SetPhasePcs, Construct, Go, chainVars,
           runnerVars, stopVars, phaseVars, operatorVars, bounds
    <2>2. HandleTypes'
      BY <1>0, <1>r, <1>27 DEF HandleTypes, Construct, Go
    <2>3. PhaseTypes'
      BY <1>0, <1>27 DEF PhaseTypes, Pcs, SetPhasePcs, HandoffPcs, Phases, Construct,
         Go, phaseVars
    <2>4. HandleInv'
      BY <1>0, <1>r, <1>27 DEF HandleInv, ConstructingPcs, BusyPcs, CoarsePcs,
         ClosedPcs, RoomPcs, SetPhasePcs, Construct, Go, chainVars, runnerVars,
         phaseVars, bounds
    <2>5. AuthorityInv'
      BY <1>0, <1>h, <1>r, <1>27 DEF AuthorityInv, Committed, UncommittedPcs,
         SetPhasePcs, HandleInv, ConstructingPcs, BusyPcs, CoarsePcs, ClosedPcs,
         RoomPcs, Construct, Go, runnerVars, phaseVars
    <2>6. ThreatInv'
      BY <1>0, <1>r, <1>t, <1>27 DEF ThreatInv, Threat, InTodo, HandleInv,
         ConstructingPcs, BusyPcs, CoarsePcs, ClosedPcs, RoomPcs, SetPhasePcs,
         Construct, Go, runnerVars, stopVars, operatorVars
    <2> QED
      BY <2>1, <2>2, <2>3, <2>4, <2>5, <2>6 DEF RuntimeInv
  <1>28. CASE StopBeforeStart
    <2>1. RunnerTypes' /\ RequestTypes' /\ BoundTypes' /\ StillInv' /\ FreshInv'
            /\ RequestInv' /\ MaskInv'
      BY <1>28, Untouched DEF BoundPcs, FreshPcs, SetPhasePcs, StopBeforeStart, SetPhase,
           chainVars, runnerVars, stopVars, operatorVars, bounds
    <2>2. HandleTypes'
      BY <1>0, <1>28 DEF HandleTypes, StopBeforeStart, SetPhase
    <2>3. PhaseTypes'
      BY <1>0, <1>28 DEF PhaseTypes, Pcs, SetPhasePcs, HandoffPcs, Phases,
         StopBeforeStart, SetPhase
    <2>4. HandleInv'
      BY <1>0, <1>28 DEF HandleInv, ConstructingPcs, BusyPcs, CoarsePcs, ClosedPcs,
         RoomPcs, SetPhasePcs, StopBeforeStart, SetPhase, chainVars, runnerVars, bounds
    <2>5. AuthorityInv'
      BY <1>0, <1>h, <1>r, <1>28 DEF AuthorityInv, Committed, UncommittedPcs,
         SetPhasePcs, HandleInv, ConstructingPcs, BusyPcs, CoarsePcs, ClosedPcs,
         RoomPcs, StopBeforeStart, SetPhase, runnerVars
    <2>6. ThreatInv'
      BY <1>0, <1>r, <1>t, <1>28 DEF ThreatInv, Threat, InTodo, HandleInv,
         ConstructingPcs, BusyPcs, CoarsePcs, ClosedPcs, RoomPcs, SetPhasePcs,
         RequestInv, StopBeforeStart, SetPhase, runnerVars, stopVars, operatorVars
    <2> QED
      BY <2>1, <2>2, <2>3, <2>4, <2>5, <2>6 DEF RuntimeInv
  <1>29. CASE StartFine
    <2>1. HandleTypes' /\ RequestTypes' /\ BoundTypes' /\ FreshInv' /\ MaskInv'
      BY <1>29, Untouched DEF BoundPcs, FreshPcs, SetPhasePcs, StartFine, Started,
           StartFails, handleVars, stopVars, phaseVars, operatorVars, bounds, Log
    <2>2. RunnerTypes'
      BY <1>0, <1>29 DEF RunnerTypes, RunnerPhases, StartFine, Started, StartFails
    <2>3. PhaseTypes'
      BY <1>0, <1>29 DEF PhaseTypes, Pcs, SetPhasePcs, HandoffPcs, Phases, StartFine,
         phaseVars
    <2>4. StillInv'
      BY <1>0, <1>h, <1>r, <1>29 DEF StillInv, Still, Terminal, HandleInv,
         ConstructingPcs, BusyPcs, CoarsePcs, ClosedPcs, RoomPcs, SetPhasePcs,
         StartFine, Started, StartFails
    <2>5. HandleInv'
      BY <1>0, <1>29 DEF HandleInv, ConstructingPcs, BusyPcs, CoarsePcs, ClosedPcs,
         RoomPcs, SetPhasePcs, StartFine, Started, StartFails, handleVars, phaseVars,
         bounds
    <2>6. AuthorityInv'
      BY <1>0, <1>h, <1>r, <1>29 DEF AuthorityInv, Committed, UncommittedPcs,
         SetPhasePcs, HandleInv, ConstructingPcs, BusyPcs, CoarsePcs, ClosedPcs,
         RoomPcs, StartFine, Started, StartFails, handleVars, phaseVars
    <2>7. RequestInv'
      <3>1. \A q \in Runs : /\ runner[q] # "absent" => runner'[q] # "absent"
                            /\ runner[q] \notin {"idle", "absent"} => runner'[q] # "idle"
        BY <1>0, <1>r, <1>29 DEF HandleInv, ConstructingPcs, BusyPcs, CoarsePcs,
             ClosedPcs, RoomPcs, SetPhasePcs, RunnerPhases, StartFine, Started,
             StartFails, handleVars, stopVars, phaseVars, operatorVars, bounds, Log
      <3> QED
        BY <1>0, <1>t, <1>29, <3>1 DEF RequestInv, StartFine, Started, StartFails,
             handleVars, stopVars, phaseVars, operatorVars, bounds, Log
    <2>8. ThreatInv'
      BY <1>0, <1>t, <1>29 DEF ThreatInv, Threat, InTodo, StartFine, Started,
         StartFails, handleVars, stopVars, operatorVars
    <2> QED
      BY <2>1, <2>2, <2>3, <2>4, <2>5, <2>6, <2>7, <2>8 DEF RuntimeInv
  <1>30. CASE StopAfterStart
    <2>a. /\ constructing \in Runs /\ runner[constructing] # "absent" /\ busy = None
          /\ constructing \in FineRuns /\ active = Coarse
      BY <1>0, <1>30, <1>r DEF StopAfterStart, HandleInv, BusyPcs, ConstructingPcs, CoarsePcs
    <2>b. \/ /\ UNCHANGED <<runnerVars, constructing>>
             /\ pc' = "except" \/ (pc' = "candidate" /\ ~stopRequested)
          \/ /\ Rests(constructing)
             /\ proven' \in [Runs -> BOOLEAN] /\ stopping' \in [Runs -> BOOLEAN]
             /\ pc' \in {"apply", "except"}
             /\ IF pc' = "apply" THEN constructing' = None /\ runner'[constructing] = "aborted"
                                 ELSE constructing' = constructing
      <3>1. CASE /\ StopRunner(constructing, "apply", "except")
                 /\ constructing' = IF pc' = "apply" THEN None ELSE constructing
        <4>1. /\ Rests(constructing)
              /\ proven' \in [Runs -> BOOLEAN] /\ stopping' \in [Runs -> BOOLEAN]
              /\ pc' \in {"apply", "except"}
              /\ pc' = "apply" /\ "apply" # "except" => runner'[constructing] = "aborted"
          BY <2>a, <3>1, StopRunnerEffect
        <4> QED
          BY <3>1, <4>1
      <3> QED
        BY <1>30, <3>1 DEF StopAfterStart
    <2>c. PICK p \in RunnerPhases \ {"absent"} :
               /\ runner' = [runner EXCEPT ![constructing] = p]
               /\ p # runner[constructing] => runner[constructing] = "ready" /\ p # "idle"
      <3>1. runner' = runner => runner' = [runner EXCEPT ![constructing] = runner[constructing]]
        BY <1>0, <2>a
      <3> QED
        BY <1>0, <2>a, <2>b, <3>1 DEF Rests, RunnerPhases, runnerVars
    <2>1. RequestTypes' /\ BoundTypes' /\ MaskInv'
      BY <1>30, Untouched, <2>a, <2>b, <2>c DEF SetPhasePcs, StopAfterStart, runnerVars,
           stopVars, phaseVars, operatorVars, bounds
    <2>2. RunnerTypes'
      BY <1>0, <1>r, <1>30, <2>a, <2>b, <2>c DEF RunnerTypes, RunnerPhases,
         StopAfterStart, runnerVars
    <2>3. HandleTypes'
      BY <1>0, <1>30, <2>a, <2>b, <2>c DEF HandleTypes, StopAfterStart
    <2>4. PhaseTypes'
      BY <1>0, <1>r, <1>30, <2>a, <2>b, <2>c DEF PhaseTypes, Pcs, SetPhasePcs,
         HandoffPcs, Phases, StopAfterStart, phaseVars
    <2>5. StillInv'
      BY <1>0, <1>h, <1>30, <2>a, <2>b, <2>c DEF StillInv, Still, Terminal,
         StopAfterStart, runnerVars
    <2>6. HandleInv'
      BY <1>0, <1>30, <2>a, <2>b, <2>c DEF HandleInv, ConstructingPcs, BusyPcs,
         CoarsePcs, ClosedPcs, RoomPcs, SetPhasePcs, StopAfterStart, runnerVars,
         phaseVars, bounds
    <2>7. FreshInv'
      BY <1>0, <1>h, <1>r, <1>p, <1>30, <2>a, <2>b, <2>c DEF FreshInv, FreshPcs,
         Committed, Fresh, HandleInv, ConstructingPcs, BusyPcs, CoarsePcs, ClosedPcs,
         RoomPcs, SetPhasePcs, StopAfterStart, runnerVars
    <2>8. AuthorityInv'
      BY <1>0, <1>h, <1>30, <2>a, <2>b, <2>c DEF AuthorityInv, Committed,
         UncommittedPcs, SetPhasePcs, StopAfterStart, runnerVars, phaseVars
    <2>9. RequestInv'
      <3>1. \A q \in Runs : /\ runner[q] # "absent" => runner'[q] # "absent"
                            /\ runner[q] \notin {"idle", "absent"} => runner'[q] # "idle"
        BY <1>0, <1>r, <1>30, <2>a, <2>b, <2>c DEF HandleInv, ConstructingPcs, BusyPcs,
             CoarsePcs, ClosedPcs, RoomPcs, SetPhasePcs, RunnerPhases, StopAfterStart,
             runnerVars, stopVars, phaseVars, operatorVars, bounds
      <3> QED
        BY <1>0, <1>t, <1>30, <3>1, <2>a, <2>b, <2>c DEF RequestInv, StopAfterStart,
             runnerVars, stopVars, phaseVars, operatorVars, bounds
    <2>10. ThreatInv'
      BY <1>0, <1>t, <1>30, <2>a, <2>b, <2>c DEF ThreatInv, Threat, InTodo,
         StopAfterStart, runnerVars, stopVars, operatorVars
    <2> QED
      BY <2>1, <2>2, <2>3, <2>4, <2>5, <2>6, <2>7, <2>8, <2>9, <2>10 DEF RuntimeInv
  <1>31. CASE Candidate
    <2>a. /\ pc = "candidate" /\ Fresh \in FineRuns
          /\ pc' \in {"verify_candidate", "except"}
          /\ pc' = "verify_candidate" => /\ chain' # <<>>
                                         /\ Latest'.type = "fine_start_candidate"
                                         /\ Latest'.run = Fresh
      <3> DEFINE e == EventOf("fine_start_candidate", Fresh)
      <3>1. pc = "candidate" /\ pc' \in {"verify_candidate", "except"}
            /\ (pc' = "verify_candidate" => chain' = Append(chain, e))
        BY <1>31 DEF Candidate, ChainStep, Append1
      <3>2. Fresh \in FineRuns
        BY <1>0, <3>1 DEF FreshInv, FreshPcs
      <3>3. Fresh \in Runs /\ "fine_start_candidate" \in Types
        BY <3>2, RunFacts DEF Types
      <3>4. e \in ChainEvent /\ e.type = "fine_start_candidate" /\ e.run = Fresh
        BY <3>3, EventType DEF EventOf
      <3> HIDE DEF e
      <3>5. chain \in Seq(ChainEvent)
        BY ChainFacts
      <3> QED
        BY <3>1, <3>2, <3>4, <3>5, LatestNext
    <2>1. RunnerTypes' /\ HandleTypes' /\ RequestTypes' /\ BoundTypes' /\ RequestInv'
            /\ ThreatInv' /\ MaskInv'
      BY <1>31, Untouched DEF SetPhasePcs, Candidate, ChainStep, Append1, AppendRaises,
           HandoffFrame, runnerVars, handleVars, stopVars, operatorVars, bounds
    <2>2. PhaseTypes'
      BY <1>0, <1>31 DEF PhaseTypes, Pcs, SetPhasePcs, HandoffPcs, Phases, Candidate,
         ChainStep, HandoffFrame
    <2>3. StillInv'
      BY <1>0, <1>h, <1>31, <2>a DEF StillInv, Still, Terminal, Candidate, ChainStep,
         HandoffFrame, runnerVars
    <2>4. HandleInv'
      BY <1>0, <1>31, <2>a DEF HandleInv, ConstructingPcs, BusyPcs, CoarsePcs,
         ClosedPcs, RoomPcs, SetPhasePcs, Candidate, ChainStep, Append1, AppendRaises,
         HandoffFrame, runnerVars, handleVars, bounds
    <2>5. FreshInv'
      BY <1>0, <1>p, <1>31, <2>a DEF FreshInv, FreshPcs, Committed, Fresh, Candidate,
         ChainStep, HandoffFrame, runnerVars, handleVars
    <2>6. AuthorityInv'
      BY <1>0, <1>h, <1>31, <2>a DEF AuthorityInv, Committed, UncommittedPcs,
         SetPhasePcs, Candidate, ChainStep, HandoffFrame, runnerVars, handleVars
    <2> QED
      BY <2>1, <2>2, <2>3, <2>4, <2>5, <2>6 DEF RuntimeInv
  <1>32. CASE VerifyCandidate
    <2>1. RunnerTypes' /\ HandleTypes' /\ RequestTypes' /\ BoundTypes' /\ StillInv'
            /\ RequestInv' /\ ThreatInv' /\ MaskInv'
      BY <1>32, Untouched DEF SetPhasePcs, VerifyCandidate, HandoffFrame, runnerVars,
           handleVars, stopVars, operatorVars, bounds
    <2>2. PhaseTypes'
      BY <1>0, <1>32 DEF PhaseTypes, Pcs, SetPhasePcs, HandoffPcs, Phases,
         VerifyCandidate, HandoffFrame
    <2>3. HandleInv'
      BY <1>0, <1>32 DEF HandleInv, ConstructingPcs, BusyPcs, CoarsePcs, ClosedPcs,
         RoomPcs, SetPhasePcs, VerifyCandidate, HandoffFrame, runnerVars, handleVars,
         bounds
    <2>4. FreshInv'
      BY <1>0, <1>h, <1>p, <1>32 DEF FreshInv, FreshPcs, Committed, Fresh,
         VerifyCandidate, HandoffFrame, runnerVars, handleVars
    <2>5. AuthorityInv'
      BY <1>0, <1>h, <1>32 DEF AuthorityInv, Committed, UncommittedPcs, SetPhasePcs,
         VerifyCandidate, HandoffFrame, runnerVars, handleVars
    <2> QED
      BY <2>1, <2>2, <2>3, <2>4, <2>5 DEF RuntimeInv
  <1>33. CASE Commit
    <2>a. /\ pc = "commit" /\ Fresh \in FineRuns /\ pc' \in {"verify_commit", "except"}
          /\ pc' = "verify_commit" => Has("fine_started")' /\ StartedRun' = Fresh
      <3> DEFINE e == EventOf("fine_started", Latest.run)
      <3>1. pc = "commit" /\ pc' \in {"verify_commit", "except"}
            /\ (pc' = "verify_commit" => chain' = Append(chain, e))
        BY <1>33 DEF Commit, ChainStep, Append1
      <3>2. Fresh \in FineRuns /\ Latest.run = Fresh
        BY <1>0, <3>1 DEF FreshInv, FreshPcs
      <3>3. Fresh \in Runs /\ "fine_started" \in Types
        BY <3>2, RunFacts DEF Types
      <3>4. e \in ChainEvent /\ e.type = "fine_started" /\ e.run = Fresh
        BY <3>2, <3>3, EventType DEF EventOf
      <3> HIDE DEF e
      <3>5. chain \in Seq(ChainEvent) /\ OrderInv'
        BY ChainFacts, ChainInvStep DEF ChainInv
      <3> QED
        BY <3>1, <3>2, <3>4, <3>5, StartedNext
    <2>1. RunnerTypes' /\ HandleTypes' /\ RequestTypes' /\ BoundTypes' /\ RequestInv'
            /\ ThreatInv' /\ MaskInv'
      BY <1>33, Untouched DEF SetPhasePcs, Commit, ChainStep, Append1, AppendRaises,
           HandoffFrame, runnerVars, handleVars, stopVars, operatorVars, bounds
    <2>2. PhaseTypes'
      BY <1>0, <1>33 DEF PhaseTypes, Pcs, SetPhasePcs, HandoffPcs, Phases, Commit,
         ChainStep, HandoffFrame
    <2>3. StillInv'
      BY <1>0, <1>h, <1>33, <2>a DEF StillInv, Still, Terminal, Commit, ChainStep,
         HandoffFrame, runnerVars
    <2>4. HandleInv'
      BY <1>0, <1>33, <2>a DEF HandleInv, ConstructingPcs, BusyPcs, CoarsePcs,
         ClosedPcs, RoomPcs, SetPhasePcs, Commit, ChainStep, Append1, AppendRaises,
         HandoffFrame, runnerVars, handleVars, bounds
    <2>5. FreshInv'
      BY <1>0, <1>p, <1>33, <2>a DEF FreshInv, FreshPcs, Committed, Fresh, Commit,
         ChainStep, HandoffFrame, runnerVars, handleVars
    <2>6. AuthorityInv'
      BY <1>0, <1>h, <1>33, <2>a DEF AuthorityInv, Committed, UncommittedPcs,
         SetPhasePcs, Commit, ChainStep, HandoffFrame, runnerVars, handleVars
    <2> QED
      BY <2>1, <2>2, <2>3, <2>4, <2>5, <2>6 DEF RuntimeInv
  <1>34. CASE VerifyCommit
    <2>1. RunnerTypes' /\ HandleTypes' /\ RequestTypes' /\ BoundTypes' /\ StillInv'
            /\ RequestInv' /\ ThreatInv' /\ MaskInv'
      BY <1>34, Untouched DEF SetPhasePcs, VerifyCommit, HandoffFrame, runnerVars,
           handleVars, stopVars, operatorVars, bounds
    <2>2. PhaseTypes'
      BY <1>0, <1>34 DEF PhaseTypes, Pcs, SetPhasePcs, HandoffPcs, Phases, VerifyCommit,
         HandoffFrame
    <2>3. HandleInv'
      BY <1>0, <1>34 DEF HandleInv, ConstructingPcs, BusyPcs, CoarsePcs, ClosedPcs,
         RoomPcs, SetPhasePcs, VerifyCommit, HandoffFrame, runnerVars, handleVars,
         bounds
    <2>4. FreshInv'
      BY <1>0, <1>h, <1>p, <1>34 DEF FreshInv, FreshPcs, Committed, Fresh, VerifyCommit,
         HandoffFrame, runnerVars, handleVars
    <2>5. AuthorityInv'
      BY <1>0, <1>h, <1>r, <1>34 DEF AuthorityInv, Committed, UncommittedPcs,
         SetPhasePcs, HandleInv, ConstructingPcs, BusyPcs, CoarsePcs, ClosedPcs,
         RoomPcs, FreshInv, Fresh, VerifyCommit, HandoffFrame, runnerVars, handleVars
    <2> QED
      BY <2>1, <2>2, <2>3, <2>4, <2>5 DEF RuntimeInv
  <1>35. CASE Activate
    <2>1. RunnerTypes' /\ RequestTypes' /\ BoundTypes' /\ StillInv' /\ RequestInv'
            /\ MaskInv'
      BY <1>35, Untouched DEF SetPhasePcs, Activate, Go, chainVars, runnerVars, stopVars,
           phaseVars, operatorVars, bounds
    <2>2. HandleTypes'
      BY <1>0, <1>35 DEF HandleTypes, HandleInv, Activate, Go
    <2>3. PhaseTypes'
      BY <1>0, <1>35 DEF PhaseTypes, Pcs, SetPhasePcs, HandoffPcs, Phases, Activate, Go,
         phaseVars
    <2>4. HandleInv'
      BY <1>0, <1>35 DEF HandleInv, ConstructingPcs, BusyPcs, CoarsePcs, ClosedPcs,
         RoomPcs, SetPhasePcs, Activate, Go, chainVars, runnerVars, phaseVars, bounds
    <2>5. FreshInv'
      BY <1>0, <1>h, <1>r, <1>p, <1>35 DEF FreshInv, FreshPcs, Committed, Fresh,
         HandleInv, ConstructingPcs, BusyPcs, CoarsePcs, ClosedPcs, RoomPcs,
         SetPhasePcs, Activate, Go, runnerVars
    <2>6. AuthorityInv'
      BY <1>0, <1>h, <1>r, <1>35 DEF AuthorityInv, Committed, UncommittedPcs,
         SetPhasePcs, HandleInv, ConstructingPcs, BusyPcs, CoarsePcs, ClosedPcs,
         RoomPcs, FreshInv, Fresh, Activate, Go, runnerVars, phaseVars
    <2>7. ThreatInv'
      BY <1>0, <1>r, <1>t, <1>35 DEF ThreatInv, Threat, InTodo, HandleInv,
         ConstructingPcs, BusyPcs, CoarsePcs, ClosedPcs, RoomPcs, SetPhasePcs, Activate,
         Go, runnerVars, stopVars, operatorVars
    <2> QED
      BY <2>1, <2>2, <2>3, <2>4, <2>5, <2>6, <2>7 DEF RuntimeInv
  <1>36. CASE Publish
    <2>1. RunnerTypes' /\ RequestTypes' /\ BoundTypes' /\ StillInv' /\ AuthorityInv'
            /\ RequestInv' /\ MaskInv'
      BY <1>36, Untouched DEF UncommittedPcs, SetPhasePcs, Publish, Go, chainVars,
           runnerVars, stopVars, phaseVars, operatorVars, bounds
    <2>2. HandleTypes'
      BY <1>0, <1>36 DEF HandleTypes, Publish, Go
    <2>3. PhaseTypes'
      BY <1>0, <1>36 DEF PhaseTypes, Pcs, SetPhasePcs, HandoffPcs, Phases, Publish, Go,
         phaseVars
    <2>4. HandleInv'
      BY <1>0, <1>r, <1>36 DEF HandleInv, ConstructingPcs, BusyPcs, CoarsePcs,
         ClosedPcs, RoomPcs, SetPhasePcs, Publish, Go, chainVars, runnerVars, phaseVars,
         bounds
    <2>5. FreshInv'
      BY <1>0, <1>h, <1>p, <1>36 DEF FreshInv, FreshPcs, Committed, Fresh, Publish, Go,
         runnerVars
    <2>6. ThreatInv'
      BY <1>0, <1>r, <1>t, <1>36 DEF ThreatInv, Threat, InTodo, HandleInv,
         ConstructingPcs, BusyPcs, CoarsePcs, ClosedPcs, RoomPcs, SetPhasePcs, Publish,
         Go, runnerVars, stopVars, operatorVars
    <2> QED
      BY <2>1, <2>2, <2>3, <2>4, <2>5, <2>6 DEF RuntimeInv
  <1>37. CASE Release
    <2>1. RunnerTypes' /\ RequestTypes' /\ BoundTypes' /\ StillInv' /\ FreshInv'
            /\ RequestInv' /\ MaskInv'
      BY <1>37, Untouched DEF BoundPcs, FreshPcs, SetPhasePcs, Release, SetPhase,
           chainVars, runnerVars, stopVars, operatorVars, bounds
    <2>2. HandleTypes'
      BY <1>0, <1>37 DEF HandleTypes, Release, SetPhase
    <2>3. PhaseTypes'
      BY <1>0, <1>37 DEF PhaseTypes, Pcs, SetPhasePcs, HandoffPcs, Phases, Release,
         SetPhase
    <2>4. HandleInv'
      BY <1>0, <1>37 DEF HandleInv, ConstructingPcs, BusyPcs, CoarsePcs, ClosedPcs,
         RoomPcs, SetPhasePcs, Release, SetPhase, chainVars, runnerVars, bounds
    <2>5. AuthorityInv'
      BY <1>0, <1>h, <1>r, <1>37 DEF AuthorityInv, Committed, UncommittedPcs,
         SetPhasePcs, HandleInv, ConstructingPcs, BusyPcs, CoarsePcs, ClosedPcs,
         RoomPcs, Release, SetPhase, runnerVars
    <2>6. ThreatInv'
      BY <1>0, <1>r, <1>t, <1>37 DEF ThreatInv, Threat, InTodo, HandleInv,
         ConstructingPcs, BusyPcs, CoarsePcs, ClosedPcs, RoomPcs, SetPhasePcs, Release,
         SetPhase, runnerVars, stopVars, operatorVars
    <2> QED
      BY <2>1, <2>2, <2>3, <2>4, <2>5, <2>6 DEF RuntimeInv
  <1>38. CASE FirstStep
    <2>1. RunnerTypes' /\ RequestTypes' /\ BoundTypes' /\ FreshInv' /\ RequestInv'
            /\ ThreatInv' /\ MaskInv'
      BY <1>38, Untouched DEF BoundPcs, FreshPcs, SetPhasePcs, FirstStep, chainVars,
           runnerVars, handleVars, stopVars, phaseVars, operatorVars, bounds
    <2>2. HandleTypes'
      BY <1>0, <1>38 DEF HandleTypes, FirstStep, handleVars
    <2>3. PhaseTypes'
      BY <1>0, <1>38 DEF PhaseTypes, Pcs, SetPhasePcs, HandoffPcs, Phases, FirstStep,
         phaseVars
    <2>4. StillInv'
      BY <1>0, <1>h, <1>38 DEF StillInv, Still, Terminal, FirstStep, runnerVars
    <2>5. HandleInv'
      BY <1>0, <1>38 DEF HandleInv, ConstructingPcs, BusyPcs, CoarsePcs, ClosedPcs,
         RoomPcs, SetPhasePcs, FirstStep, chainVars, runnerVars, handleVars, phaseVars,
         bounds
    <2>6. AuthorityInv'
      BY <1>0, <1>h, <1>38 DEF AuthorityInv, Committed, UncommittedPcs, SetPhasePcs,
         FirstStep, runnerVars, handleVars, phaseVars
    <2> QED
      BY <2>1, <2>2, <2>3, <2>4, <2>5, <2>6 DEF RuntimeInv
  <1>39. CASE First
    <2>1. RunnerTypes' /\ HandleTypes' /\ RequestTypes' /\ BoundTypes' /\ StillInv'
            /\ FreshInv' /\ AuthorityInv' /\ RequestInv' /\ ThreatInv' /\ MaskInv'
      BY <1>39, Untouched DEF BoundPcs, FreshPcs, UncommittedPcs, SetPhasePcs, First, Go,
           Log, OperationFrame, handleVars, stopVars, phaseVars, operatorVars, bounds
    <2>2. PhaseTypes'
      BY <1>0, <1>39 DEF PhaseTypes, Pcs, SetPhasePcs, HandoffPcs, Phases, First, Go,
         OperationFrame, phaseVars
    <2>3. HandleInv'
      BY <1>0, <1>39 DEF HandleInv, ConstructingPcs, BusyPcs, CoarsePcs, ClosedPcs,
         RoomPcs, SetPhasePcs, First, Go, OperationFrame, handleVars, phaseVars, bounds
    <2> QED
      BY <2>1, <2>2, <2>3 DEF RuntimeInv
  <1>40. CASE Except
    <2>a. /\ busy = None
          /\ constructing \in FineRuns \cup {None}
          /\ constructing # None => runner[constructing] # "absent" /\ active = Coarse
      BY <1>0, <1>40, <1>r DEF Except, HandleInv, BusyPcs
    <2>b. /\ pc' = "block" /\ proven' \in [Runs -> BOOLEAN] /\ stopping' \in [Runs -> BOOLEAN]
          /\ constructing = None => runner' = runner
          /\ constructing # None => Rests(constructing)
      <3>1. CASE ~Orphan /\ UNCHANGED runnerVars /\ pc' = "block"
        <4>1. CASE constructing = None
          BY <1>0, <3>1, <4>1 DEF runnerVars
        <4>2. CASE constructing # None
          <5>1. /\ runner' = [runner EXCEPT ![constructing] = "idle"]
                /\ runner[constructing] = "idle"
            BY <1>0, <3>1, <4>2 DEF runnerVars, Orphan
          <5> QED
            BY <1>0, <3>1, <4>2, <5>1 DEF runnerVars, Rests
        <4> QED
          BY <4>1, <4>2
      <3>2. CASE Orphan /\ StopRunner(constructing, "block", "block")
        BY <1>r, <2>a, <3>2, StopRunnerEffect DEF Orphan
      <3> QED
        BY <1>40, <3>1, <3>2 DEF Except
    <2>c. constructing = None \/ \E p \in {"idle", "aborted", "failed", "complete"} :
               /\ runner' = [runner EXCEPT ![constructing] = p]
               /\ p # runner[constructing] => runner[constructing] = "ready" /\ p # "idle"
      BY <2>b DEF Rests
    <2>1. RequestTypes' /\ BoundTypes' /\ FreshInv' /\ MaskInv'
      BY <1>40, Untouched, <2>a, <2>b, <2>c DEF BoundPcs, FreshPcs, SetPhasePcs, Except,
           Orphan, runnerVars, stopVars, phaseVars, operatorVars, bounds
    <2>2. RunnerTypes'
      BY <1>0, <1>r, <1>40, <2>a, <2>b, <2>c DEF RunnerTypes, RunnerPhases, Except,
         Orphan, runnerVars
    <2>3. HandleTypes'
      BY <1>0, <1>40, <2>a, <2>b, <2>c DEF HandleTypes, Except, Orphan
    <2>4. PhaseTypes'
      BY <1>0, <1>r, <1>40, <2>a, <2>b, <2>c DEF PhaseTypes, Pcs, SetPhasePcs,
         HandoffPcs, Phases, Except, Orphan, phaseVars
    <2>5. StillInv'
      BY <1>0, <1>h, <1>r, <1>40, <2>a, <2>b, <2>c DEF StillInv, Still, Terminal,
         HandleInv, ConstructingPcs, BusyPcs, CoarsePcs, ClosedPcs, RoomPcs,
         SetPhasePcs, Except, Orphan, runnerVars
    <2>6. HandleInv'
      BY <1>0, <1>40, <2>a, <2>b, <2>c DEF HandleInv, ConstructingPcs, BusyPcs,
         CoarsePcs, ClosedPcs, RoomPcs, SetPhasePcs, Except, Orphan, runnerVars,
         phaseVars, bounds
    <2>7. AuthorityInv'
      BY <1>0, <1>h, <1>40, <2>a, <2>b, <2>c DEF AuthorityInv, Committed,
         UncommittedPcs, SetPhasePcs, Except, Orphan, runnerVars, phaseVars
    <2>8. RequestInv'
      <3>1. \A q \in Runs : /\ runner[q] # "absent" => runner'[q] # "absent"
                            /\ runner[q] \notin {"idle", "absent"} => runner'[q] # "idle"
        BY <1>0, <1>r, <1>40, <2>a, <2>b, <2>c DEF HandleInv, ConstructingPcs, BusyPcs,
             CoarsePcs, ClosedPcs, RoomPcs, SetPhasePcs, RunnerPhases, Except, Orphan,
             runnerVars, stopVars, phaseVars, operatorVars, bounds
      <3> QED
        BY <1>0, <1>t, <1>40, <3>1, <2>a, <2>b, <2>c DEF RequestInv, Except, Orphan,
             runnerVars, stopVars, phaseVars, operatorVars, bounds
    <2>9. ThreatInv'
      BY <1>0, <1>t, <1>40, <2>a, <2>b, <2>c DEF ThreatInv, Threat, InTodo, Except,
         Orphan, runnerVars, stopVars, operatorVars
    <2> QED
      BY <2>1, <2>2, <2>3, <2>4, <2>5, <2>6, <2>7, <2>8, <2>9 DEF RuntimeInv
  <1>41. CASE Seal
    <2>1. RunnerTypes' /\ HandleTypes' /\ RequestTypes' /\ BoundTypes' /\ RequestInv'
            /\ ThreatInv' /\ MaskInv'
      BY <1>41, Untouched DEF SetPhasePcs, Seal, SetPhase, Append1, AppendRaises,
           HandoffFrame, runnerVars, handleVars, stopVars, operatorVars, bounds
    <2>2. PhaseTypes'
      BY <1>0, <1>41 DEF PhaseTypes, Pcs, SetPhasePcs, HandoffPcs, Phases, Seal,
         SetPhase, HandoffFrame
    <2>3. StillInv'
      BY <1>0, <1>h, <1>41 DEF StillInv, Still, Terminal, Seal, HandoffFrame, runnerVars
    <2>4. HandleInv'
      BY <1>0, <1>h, <1>r, <1>41 DEF HandleInv, ConstructingPcs, BusyPcs, CoarsePcs,
         ClosedPcs, RoomPcs, SetPhasePcs, Seal, SetPhase, HandoffFrame, runnerVars,
         handleVars, bounds
    <2>5. FreshInv'
      BY <1>0, <1>h, <1>p, <1>41 DEF FreshInv, FreshPcs, Committed, Fresh, Seal,
         SetPhase, HandoffFrame, runnerVars, handleVars
    <2>6. AuthorityInv'
      BY <1>0, <1>h, <1>41 DEF AuthorityInv, Committed, UncommittedPcs, SetPhasePcs,
         Seal, SetPhase, HandoffFrame, runnerVars, handleVars
    <2> QED
      BY <2>1, <2>2, <2>3, <2>4, <2>5, <2>6 DEF RuntimeInv
  <1>42. CASE Complete
    <2>1. RunnerTypes' /\ HandleTypes' /\ RequestTypes' /\ BoundTypes' /\ FreshInv'
            /\ RequestInv' /\ ThreatInv' /\ MaskInv'
      BY <1>42, Untouched DEF BoundPcs, FreshPcs, SetPhasePcs, Complete, Append1,
           SetPhase, AppendRaises, HandoffFrame, runnerVars, handleVars, stopVars,
           operatorVars, bounds
    <2>2. PhaseTypes'
      BY <1>0, <1>42 DEF PhaseTypes, Pcs, SetPhasePcs, HandoffPcs, Phases, Complete,
         SetPhase, HandoffFrame
    <2>3. StillInv'
      BY <1>0, <1>h, <1>r, <1>42 DEF StillInv, Still, Terminal, HandleInv,
         ConstructingPcs, BusyPcs, CoarsePcs, ClosedPcs, RoomPcs, SetPhasePcs, FreshInv,
         Complete, HandoffFrame, runnerVars
    <2>4. HandleInv'
      BY <1>0, <1>42 DEF HandleInv, ConstructingPcs, BusyPcs, CoarsePcs, ClosedPcs,
         RoomPcs, SetPhasePcs, Complete, Append1, SetPhase, AppendRaises, HandoffFrame,
         runnerVars, handleVars, bounds
    <2>5. AuthorityInv'
      BY <1>0, <1>h, <1>42 DEF AuthorityInv, Committed, UncommittedPcs, SetPhasePcs,
         Complete, SetPhase, HandoffFrame, runnerVars, handleVars
    <2> QED
      BY <2>1, <2>2, <2>3, <2>4, <2>5 DEF RuntimeInv
  <1>43. CASE Prompt \/ Answer \/ Leave \/ Close
    <2>1. RunnerTypes' /\ HandleTypes' /\ RequestTypes' /\ BoundTypes' /\ StillInv'
            /\ FreshInv' /\ AuthorityInv' /\ RequestInv' /\ ThreatInv' /\ MaskInv'
      BY <1>43, Untouched DEF BoundPcs, FreshPcs, UncommittedPcs, SetPhasePcs, Prompt,
           Answer, Leave, ConsoleFrame, Close, Go, chainVars, runnerVars, handleVars,
           stopVars, phaseVars, operatorVars, bounds
    <2>2. PhaseTypes'
      BY <1>0, <1>43 DEF PhaseTypes, Pcs, SetPhasePcs, HandoffPcs, Phases, Prompt,
         Answer, Leave, ConsoleFrame, Close, Go, phaseVars
    <2>3. HandleInv'
      BY <1>0, <1>43 DEF HandleInv, ConstructingPcs, BusyPcs, CoarsePcs, ClosedPcs,
         RoomPcs, SetPhasePcs, Prompt, Answer, Leave, ConsoleFrame, Close, Go, chainVars,
         runnerVars, handleVars, phaseVars, bounds
    <2> QED
      BY <2>1, <2>2, <2>3 DEF RuntimeInv
  <1>44. CASE Finalize
    <2>1. RunnerTypes' /\ HandleTypes' /\ BoundTypes' /\ StillInv' /\ FreshInv'
            /\ AuthorityInv'
      BY <1>44, Untouched DEF BoundPcs, FreshPcs, UncommittedPcs, SetPhasePcs, Finalize,
           chainVars, runnerVars, handleVars, stopVars, phaseVars, bounds
    <2>2. PhaseTypes'
      BY <1>0, <1>44 DEF PhaseTypes, Pcs, SetPhasePcs, HandoffPcs, Phases, Finalize,
         phaseVars
    <2>3. RequestTypes'
      BY <1>0, <1>q, <1>44 DEF RequestTypes, OpPcs, Finalize, stopVars
    <2>4. HandleInv'
      BY <1>0, <1>44 DEF HandleInv, ConstructingPcs, BusyPcs, CoarsePcs, ClosedPcs,
         RoomPcs, SetPhasePcs, Finalize, chainVars, runnerVars, handleVars, phaseVars,
         bounds
    <2>5. RequestInv'
      BY <1>0, <1>t, <1>44 DEF RequestInv, InTodo, Finalize, runnerVars, stopVars
    <2>6. ThreatInv'
      BY <1>0, <1>t, <1>44 DEF ThreatInv, Threat, InTodo, Finalize, runnerVars,
         handleVars, stopVars
    <2>7. MaskInv'
      BY <1>0, <1>44 DEF MaskInv, StopIsNotMasked, SetPhasePcs, Finalize, stopVars,
         phaseVars
    <2> QED
      BY <2>1, <2>2, <2>3, <2>4, <2>5, <2>6, <2>7 DEF RuntimeInv
  <1>45. CASE Request
    <2>1. RunnerTypes' /\ StillInv'
      BY <1>45, Untouched DEF Request, runnerVars, stopVars, RequestFrame, handleVars
    <2>2. HandleTypes'
      BY <1>0, <1>45 DEF HandleTypes, Request, RequestFrame, handleVars
    <2>3. PhaseTypes'
      BY <1>0, <1>45 DEF PhaseTypes, Pcs, SetPhasePcs, HandoffPcs, Phases, Request,
         RequestFrame
    <2>4. RequestTypes'
      BY <1>0, <1>q, <1>45 DEF RequestTypes, OpPcs, Request, stopVars, RequestFrame
    <2>5. BoundTypes'
      BY <1>0, <1>45, ChainAssumption, RuntimeAssumption DEF BoundTypes, Request,
         RequestFrame
    <2>6. HandleInv'
      BY <1>0, <1>45 DEF HandleInv, ConstructingPcs, BusyPcs, CoarsePcs, ClosedPcs,
         RoomPcs, SetPhasePcs, Request, runnerVars, RequestFrame, handleVars
    <2>7. FreshInv'
      BY <1>0, <1>h, <1>p, <1>45 DEF FreshInv, FreshPcs, Committed, Fresh, Request,
         runnerVars, RequestFrame, handleVars
    <2>8. AuthorityInv'
      BY <1>0, <1>h, <1>45 DEF AuthorityInv, Committed, UncommittedPcs, SetPhasePcs,
         Request, runnerVars, RequestFrame, handleVars
    <2>9. RequestInv'
      BY <1>0, <1>t, <1>45 DEF RequestInv, InTodo, Request, runnerVars, stopVars,
         RequestFrame
    <2>10. ThreatInv'
      BY <1>0, <1>t, <1>45 DEF ThreatInv, Threat, InTodo, Request, runnerVars, stopVars,
         RequestFrame, handleVars
    <2>11. MaskInv'
      BY <1>0, <1>45 DEF MaskInv, StopIsNotMasked, SetPhasePcs, Request, stopVars,
         RequestFrame
    <2> QED
      BY <2>1, <2>2, <2>3, <2>4, <2>5, <2>6, <2>7, <2>8, <2>9, <2>10, <2>11 DEF RuntimeInv
  <1>46. CASE Flag
    <2>1. RunnerTypes' /\ BoundTypes' /\ StillInv'
      BY <1>46, Untouched DEF Flag, OpGo, runnerVars, RequestFrame, handleVars
    <2>2. HandleTypes'
      BY <1>0, <1>46 DEF HandleTypes, Flag, OpGo, RequestFrame, handleVars
    <2>3. PhaseTypes'
      BY <1>0, <1>46 DEF PhaseTypes, Pcs, SetPhasePcs, HandoffPcs, Phases, Flag, OpGo,
         RequestFrame
    <2>4. RequestTypes'
      BY <1>0, <1>q, <1>46 DEF RequestTypes, OpPcs, Flag, OpGo, RequestFrame
    <2>5. HandleInv'
      BY <1>0, <1>46 DEF HandleInv, ConstructingPcs, BusyPcs, CoarsePcs, ClosedPcs,
         RoomPcs, SetPhasePcs, Flag, OpGo, runnerVars, RequestFrame, handleVars
    <2>6. FreshInv'
      BY <1>0, <1>h, <1>p, <1>46 DEF FreshInv, FreshPcs, Committed, Fresh, Flag, OpGo,
         runnerVars, RequestFrame, handleVars
    <2>7. AuthorityInv'
      BY <1>0, <1>h, <1>46 DEF AuthorityInv, Committed, UncommittedPcs, SetPhasePcs,
         Flag, OpGo, runnerVars, RequestFrame, handleVars
    <2>8. RequestInv'
      BY <1>0, <1>t, <1>46 DEF RequestInv, InTodo, Flag, OpGo, runnerVars, RequestFrame
    <2>9. ThreatInv'
      BY <1>0, <1>t, <1>46 DEF ThreatInv, Threat, InTodo, Flag, OpGo, runnerVars,
         RequestFrame, handleVars
    <2>10. MaskInv'
      BY <1>0, <1>46 DEF MaskInv, StopIsNotMasked, SetPhasePcs, Flag, OpGo, RequestFrame
    <2> QED
      BY <2>1, <2>2, <2>3, <2>4, <2>5, <2>6, <2>7, <2>8, <2>9, <2>10 DEF RuntimeInv
  <1>47. CASE Mark
    <2>1. RunnerTypes' /\ BoundTypes' /\ StillInv'
      BY <1>47, Untouched DEF Mark, OpGo, runnerVars, stopVars, RequestFrame, handleVars
    <2>2. HandleTypes'
      BY <1>0, <1>47 DEF HandleTypes, Mark, OpGo, RequestFrame, handleVars
    <2>3. PhaseTypes'
      BY <1>0, <1>47 DEF PhaseTypes, Pcs, SetPhasePcs, HandoffPcs, Phases, Mark, OpGo,
         RequestFrame
    <2>4. RequestTypes'
      BY <1>0, <1>q, <1>47 DEF RequestTypes, OpPcs, Mark, OpGo, stopVars, RequestFrame
    <2>5. HandleInv'
      BY <1>0, <1>47 DEF HandleInv, ConstructingPcs, BusyPcs, CoarsePcs, ClosedPcs,
         RoomPcs, SetPhasePcs, Mark, OpGo, runnerVars, RequestFrame, handleVars
    <2>6. FreshInv'
      BY <1>0, <1>h, <1>p, <1>47 DEF FreshInv, FreshPcs, Committed, Fresh, Mark, OpGo,
         runnerVars, RequestFrame, handleVars
    <2>7. AuthorityInv'
      BY <1>0, <1>h, <1>47 DEF AuthorityInv, Committed, UncommittedPcs, SetPhasePcs,
         Mark, OpGo, runnerVars, RequestFrame, handleVars
    <2>8. RequestInv'
      BY <1>0, <1>t, <1>47 DEF RequestInv, InTodo, Mark, OpGo, runnerVars, stopVars,
         RequestFrame
    <2>9. ThreatInv'
      BY <1>0, <1>t, <1>47 DEF ThreatInv, Threat, InTodo, Mark, OpGo, runnerVars,
         stopVars, RequestFrame, handleVars
    <2>10. MaskInv'
      BY <1>0, <1>47 DEF MaskInv, StopIsNotMasked, SetPhasePcs, Mark, OpGo, stopVars,
         RequestFrame
    <2> QED
      BY <2>1, <2>2, <2>3, <2>4, <2>5, <2>6, <2>7, <2>8, <2>9, <2>10 DEF RuntimeInv
  <1>48. CASE ReadHandle("active", active, "constructing")
    <2>a. /\ Collect(active) /\ active \in Runs \cup {None}
          /\ active # None => runner[active] # "absent"
      BY <1>0, <1>48 DEF ReadHandle, HandleInv
    <2>b. /\ todo' \in Seq(Runs)
          /\ \A i \in DOMAIN todo' : InTodo(todo'[i]) \/ (todo'[i] = active /\ active # None)
          /\ \A q \in Runs : InTodo(q) \/ q = active => InTodo(q)'
          /\ \A i, j \in DOMAIN todo' : i # j => todo'[i] # todo'[j]
      BY <1>0, <1>q, <2>a, Collected DEF RequestInv
    <2>1. RunnerTypes' /\ BoundTypes' /\ StillInv'
      BY <1>48, Untouched DEF ReadHandle, OpGo, Collect, runnerVars, stopVars,
           RequestFrame, handleVars
    <2>2. HandleTypes'
      BY <1>0, <1>48, <2>a, <2>b DEF HandleTypes, ReadHandle, OpGo, RequestFrame,
         handleVars
    <2>3. PhaseTypes'
      BY <1>0, <1>48 DEF PhaseTypes, Pcs, SetPhasePcs, HandoffPcs, Phases, ReadHandle,
         OpGo, RequestFrame
    <2>4. RequestTypes'
      BY <1>0, <1>q, <1>48, <2>a, <2>b DEF RequestTypes, OpPcs, ReadHandle, OpGo,
         Collect, stopVars, RequestFrame
    <2>5. HandleInv'
      BY <1>0, <1>48, <2>a, <2>b DEF HandleInv, ConstructingPcs, BusyPcs, CoarsePcs,
         ClosedPcs, RoomPcs, SetPhasePcs, ReadHandle, OpGo, runnerVars, RequestFrame,
         handleVars
    <2>6. FreshInv'
      BY <1>0, <1>h, <1>p, <1>48, <2>a, <2>b DEF FreshInv, FreshPcs, Committed, Fresh,
         ReadHandle, OpGo, runnerVars, RequestFrame, handleVars
    <2>7. AuthorityInv'
      BY <1>0, <1>h, <1>48, <2>a, <2>b DEF AuthorityInv, Committed, UncommittedPcs,
         SetPhasePcs, ReadHandle, OpGo, runnerVars, RequestFrame, handleVars
    <2>8. RequestInv'
      BY <1>0, <1>t, <1>48, <2>a, <2>b DEF RequestInv, InTodo, ReadHandle, OpGo,
         Collect, runnerVars, stopVars, RequestFrame
    <2>9. ThreatInv'
      BY <1>0, <1>t, <1>48, <2>a, <2>b DEF ThreatInv, Threat, InTodo, AuthorityInv,
         ReadHandle, OpGo, Collect, runnerVars, stopVars, RequestFrame, handleVars
    <2>10. MaskInv'
      BY <1>0, <1>48 DEF MaskInv, StopIsNotMasked, SetPhasePcs, ReadHandle, OpGo,
         stopVars, RequestFrame
    <2> QED
      BY <2>1, <2>2, <2>3, <2>4, <2>5, <2>6, <2>7, <2>8, <2>9, <2>10 DEF RuntimeInv
  <1>49. CASE ReadHandle("constructing", constructing, "fine")
    <2>a. /\ Collect(constructing) /\ constructing \in Runs \cup {None}
          /\ constructing # None => runner[constructing] # "absent"
      BY <1>0, <1>49 DEF ReadHandle, HandleInv
    <2>b. /\ todo' \in Seq(Runs)
          /\ \A i \in DOMAIN todo' :
                 InTodo(todo'[i]) \/ (todo'[i] = constructing /\ constructing # None)
          /\ \A q \in Runs : InTodo(q) \/ q = constructing => InTodo(q)'
          /\ \A i, j \in DOMAIN todo' : i # j => todo'[i] # todo'[j]
      BY <1>0, <1>q, <2>a, Collected DEF RequestInv
    <2>1. RunnerTypes' /\ BoundTypes' /\ StillInv'
      BY <1>49, Untouched DEF ReadHandle, OpGo, Collect, runnerVars, stopVars,
           RequestFrame, handleVars
    <2>2. HandleTypes'
      BY <1>0, <1>49, <2>a, <2>b DEF HandleTypes, ReadHandle, OpGo, RequestFrame,
         handleVars
    <2>3. PhaseTypes'
      BY <1>0, <1>49 DEF PhaseTypes, Pcs, SetPhasePcs, HandoffPcs, Phases, ReadHandle,
         OpGo, RequestFrame
    <2>4. RequestTypes'
      BY <1>0, <1>q, <1>49, <2>a, <2>b DEF RequestTypes, OpPcs, ReadHandle, OpGo,
         Collect, stopVars, RequestFrame
    <2>5. HandleInv'
      BY <1>0, <1>49, <2>a, <2>b DEF HandleInv, ConstructingPcs, BusyPcs, CoarsePcs,
         ClosedPcs, RoomPcs, SetPhasePcs, ReadHandle, OpGo, runnerVars, RequestFrame,
         handleVars
    <2>6. FreshInv'
      BY <1>0, <1>h, <1>p, <1>49, <2>a, <2>b DEF FreshInv, FreshPcs, Committed, Fresh,
         ReadHandle, OpGo, runnerVars, RequestFrame, handleVars
    <2>7. AuthorityInv'
      BY <1>0, <1>h, <1>49, <2>a, <2>b DEF AuthorityInv, Committed, UncommittedPcs,
         SetPhasePcs, ReadHandle, OpGo, runnerVars, RequestFrame, handleVars
    <2>8. RequestInv'
      BY <1>0, <1>t, <1>49, <2>a, <2>b DEF RequestInv, InTodo, ReadHandle, OpGo,
         Collect, runnerVars, stopVars, RequestFrame
    <2>9. ThreatInv'
      BY <1>0, <1>t, <1>49, <2>a, <2>b DEF ThreatInv, Threat, InTodo, ReadHandle, OpGo,
         Collect, runnerVars, stopVars, RequestFrame, handleVars
    <2>10. MaskInv'
      BY <1>0, <1>49 DEF MaskInv, StopIsNotMasked, SetPhasePcs, ReadHandle, OpGo,
         stopVars, RequestFrame
    <2> QED
      BY <2>1, <2>2, <2>3, <2>4, <2>5, <2>6, <2>7, <2>8, <2>9, <2>10 DEF RuntimeInv
  <1>50. CASE ReadHandle("fine", fine, "next")
    <2>a. /\ Collect(fine) /\ fine \in Runs \cup {None}
          /\ fine # None => runner[fine] # "absent"
      BY <1>0, <1>50 DEF ReadHandle, HandleInv
    <2>b. /\ todo' \in Seq(Runs)
          /\ \A i \in DOMAIN todo' : InTodo(todo'[i]) \/ (todo'[i] = fine /\ fine # None)
          /\ \A q \in Runs : InTodo(q) \/ q = fine => InTodo(q)'
          /\ \A i, j \in DOMAIN todo' : i # j => todo'[i] # todo'[j]
      BY <1>0, <1>q, <2>a, Collected DEF RequestInv
    <2>1. RunnerTypes' /\ BoundTypes' /\ StillInv'
      BY <1>50, Untouched DEF ReadHandle, OpGo, Collect, runnerVars, stopVars,
           RequestFrame, handleVars
    <2>2. HandleTypes'
      BY <1>0, <1>50, <2>a, <2>b DEF HandleTypes, ReadHandle, OpGo, RequestFrame,
         handleVars
    <2>3. PhaseTypes'
      BY <1>0, <1>50 DEF PhaseTypes, Pcs, SetPhasePcs, HandoffPcs, Phases, ReadHandle,
         OpGo, RequestFrame
    <2>4. RequestTypes'
      BY <1>0, <1>q, <1>50, <2>a, <2>b DEF RequestTypes, OpPcs, ReadHandle, OpGo,
         Collect, stopVars, RequestFrame
    <2>5. HandleInv'
      BY <1>0, <1>50, <2>a, <2>b DEF HandleInv, ConstructingPcs, BusyPcs, CoarsePcs,
         ClosedPcs, RoomPcs, SetPhasePcs, ReadHandle, OpGo, runnerVars, RequestFrame,
         handleVars
    <2>6. FreshInv'
      BY <1>0, <1>h, <1>p, <1>50, <2>a, <2>b DEF FreshInv, FreshPcs, Committed, Fresh,
         ReadHandle, OpGo, runnerVars, RequestFrame, handleVars
    <2>7. AuthorityInv'
      BY <1>0, <1>h, <1>50, <2>a, <2>b DEF AuthorityInv, Committed, UncommittedPcs,
         SetPhasePcs, ReadHandle, OpGo, runnerVars, RequestFrame, handleVars
    <2>8. RequestInv'
      BY <1>0, <1>t, <1>50, <2>a, <2>b DEF RequestInv, InTodo, ReadHandle, OpGo,
         Collect, runnerVars, stopVars, RequestFrame
    <2>9. ThreatInv'
      BY <1>0, <1>t, <1>50, <2>a, <2>b DEF ThreatInv, Threat, InTodo, ReadHandle, OpGo,
         Collect, runnerVars, stopVars, RequestFrame, handleVars
    <2>10. MaskInv'
      BY <1>0, <1>50 DEF MaskInv, StopIsNotMasked, SetPhasePcs, ReadHandle, OpGo,
         stopVars, RequestFrame
    <2> QED
      BY <2>1, <2>2, <2>3, <2>4, <2>5, <2>6, <2>7, <2>8, <2>9, <2>10 DEF RuntimeInv
  <1>51. CASE NextRunner
    <2> DEFINE r == Head(todo)
    <2>a. /\ r \in Runs /\ runner[r] # "absent" /\ todo # <<>> /\ opPc = "next" /\ r = Head(todo)
      <3>1. r = todo[1] /\ 1 \in DOMAIN todo /\ todo # <<>> /\ opPc = "next"
        BY <1>q, <1>51, Todo DEF NextRunner
      <3> QED
        BY <1>0, <1>t, <3>1 DEF RequestInv
    <2>b. \/ /\ opPc' = "next" /\ todo' \in Seq(Runs)
             /\ \A i \in DOMAIN todo' : InTodo(todo'[i])
             /\ \A q \in Runs : InTodo(q) => q = r \/ InTodo(q)'
             /\ \A i, j \in DOMAIN todo' : i # j => todo'[i] # todo'[j]
             /\ UNCHANGED stopping
             /\ \/ /\ Confirmed(r) /\ UNCHANGED failed
                   /\ seen' = (IF r = active THEN "confirmed" ELSE seen)
                \/ failed' = TRUE /\ UNCHANGED seen
          \/ /\ opPc' = "stopping" /\ runner[r] # "idle" /\ UNCHANGED <<todo, seen, failed>>
             /\ stopping' = [stopping EXCEPT ![r] = TRUE]
      <3>1. CASE todo' = Tail(todo)
        <4>1. /\ todo' \in Seq(Runs)
              /\ \A i \in DOMAIN todo' : InTodo(todo'[i])
              /\ \A q \in Runs : InTodo(q) => q = r \/ InTodo(q)'
              /\ \A i, j \in DOMAIN todo' : i # j => todo'[i] # todo'[j]
          BY <1>0, <1>q, <2>a, <3>1, Dropped DEF RequestInv
        <4> HIDE DEF r
        <4> QED
          BY <1>51, <4>1 DEF NextRunner, See, r, Refuses
      <3> QED
        BY <1>51, <3>1 DEF NextRunner, Refuses
    <2> HIDE DEF r
    <2>c. UNCHANGED <<chain, known, busy, runner, proven, active, constructing, fine,
                      pc, then, goal, phase, stopRequested, stopConfirmed,
                      created, steps, requests, crashes>>
      BY <1>51 DEF NextRunner, RequestFrame, stopVars, handleVars
    <2>1. BoundTypes' /\ StillInv'
      BY Untouched, <2>a, <2>b, <2>c
    <2>2. RunnerTypes'
      BY <1>0, <2>a, <2>b, <2>c DEF RunnerTypes, RunnerPhases
    <2>3. HandleTypes'
      BY <1>0, <2>a, <2>b, <2>c DEF HandleTypes
    <2>4. PhaseTypes'
      BY <1>0, <2>a, <2>b, <2>c DEF PhaseTypes, Pcs, SetPhasePcs, HandoffPcs, Phases
    <2>5. RequestTypes'
      BY <1>0, <1>q, <2>a, <2>b, <2>c DEF RequestTypes, OpPcs
    <2>6. HandleInv'
      BY <1>0, <2>a, <2>b, <2>c DEF HandleInv, ConstructingPcs, BusyPcs, CoarsePcs,
         ClosedPcs, RoomPcs, SetPhasePcs
    <2>7. FreshInv'
      BY <1>0, <1>h, <1>p, <2>a, <2>b, <2>c DEF FreshInv, FreshPcs, Committed, Fresh
    <2>8. AuthorityInv'
      BY <1>0, <1>h, <2>a, <2>b, <2>c DEF AuthorityInv, Committed, UncommittedPcs,
         SetPhasePcs
    <2>9. RequestInv'
      BY <1>0, <1>t, <2>a, <2>b, <2>c DEF RequestInv, InTodo
    <2>10. ThreatInv'
      BY <1>0, <1>r, <1>t, <2>a, <2>b, <2>c DEF ThreatInv, Threat, InTodo, HandleInv,
         ConstructingPcs, BusyPcs, CoarsePcs, ClosedPcs, RoomPcs, SetPhasePcs, Confirmed
    <2>11. MaskInv'
      BY <1>0, <2>a, <2>b, <2>c DEF MaskInv, StopIsNotMasked, SetPhasePcs
    <2> QED
      BY <2>1, <2>2, <2>3, <2>4, <2>5, <2>6, <2>7, <2>8, <2>9, <2>10, <2>11 DEF RuntimeInv
  <1>52. CASE StopReturns
    <2> DEFINE r == Head(todo)
    <2>a. r \in Runs /\ runner[r] # "absent" /\ runner[r] # "idle" /\ todo # <<>> /\ r = todo[1]
          /\ opPc = "stopping"
      <3>1. opPc = "stopping" /\ todo # <<>> /\ runner[r] # "idle"
        BY <1>0, <1>52 DEF StopReturns, RequestInv
      <3>2. r = todo[1] /\ 1 \in DOMAIN todo /\ r \in Runs
        BY <1>q, <1>t, <3>1, Todo
      <3> QED
        BY <1>0, <3>1, <3>2 DEF RequestInv
    <2>b. /\ Stopped(r) /\ proven' \in [Runs -> BOOLEAN]
          /\ \/ /\ seen' = IF r = active
                            THEN IF runner'[r] = "aborted" THEN "confirmed" ELSE "unconfirmed"
                            ELSE seen
                /\ UNCHANGED failed
             \/ failed' = TRUE /\ UNCHANGED seen
      <3>1. CASE /\ StopSucceeds(r)
                 /\ See(r, IF runner'[r] = "aborted" THEN "confirmed" ELSE "unconfirmed")
                 /\ UNCHANGED failed
        BY <1>0, <2>a, <3>1, StopEffect DEF See
      <3>2. CASE StopFails(r) /\ failed' = TRUE /\ UNCHANGED seen
        BY <1>0, <2>a, <3>2, StopEffect
      <3> QED
        BY <1>52, <3>1, <3>2 DEF StopReturns
    <2>e. /\ todo' \in Seq(Runs)
          /\ \A i \in DOMAIN todo' : InTodo(todo'[i])
          /\ \A q \in Runs : InTodo(q) => q = r \/ InTodo(q)'
          /\ \A i, j \in DOMAIN todo' : i # j => todo'[i] # todo'[j]
      <3>1. todo' = Tail(todo)
        BY <1>52 DEF StopReturns
      <3> QED
        BY <1>0, <1>q, <2>a, <3>1, Dropped DEF RequestInv
    <2> HIDE DEF r
    <2>c. PICK p \in {runner[r], "aborted", "failed"} :
               /\ runner' = [runner EXCEPT ![r] = p]
               /\ p # runner[r] => runner[r] = "ready"
               /\ busy # r => p # "ready"
      BY <1>0, <2>a, <2>b DEF Stopped, Terminal, RunnerPhases
    <2>d. opPc' = "next" /\ UNCHANGED <<chain, busy, active, constructing, fine, pc, then,
                  goal, phase, stopRequested, stopConfirmed, created, stopping,
                  steps, requests, crashes, known>>
      BY <1>52 DEF StopReturns, RequestFrame, stopVars, handleVars
    <2>1. BoundTypes'
      BY Untouched, <2>a, <2>b, <2>c, <2>d, <2>e
    <2>2. RunnerTypes'
      BY <1>0, <2>a, <2>b, <2>c, <2>d, <2>e DEF RunnerTypes, RunnerPhases
    <2>3. HandleTypes'
      BY <1>0, <2>a, <2>b, <2>c, <2>d, <2>e DEF HandleTypes
    <2>4. PhaseTypes'
      BY <1>0, <2>a, <2>b, <2>c, <2>d, <2>e DEF PhaseTypes, Pcs, SetPhasePcs,
         HandoffPcs, Phases
    <2>5. RequestTypes'
      BY <1>0, <1>q, <2>a, <2>b, <2>c, <2>d, <2>e DEF RequestTypes, OpPcs
    <2>6. StillInv'
      BY <1>0, <1>h, <2>a, <2>b, <2>c, <2>d, <2>e DEF StillInv, Still, Terminal
    <2>7. HandleInv'
      BY <1>0, <2>a, <2>b, <2>c, <2>d, <2>e DEF HandleInv, ConstructingPcs, BusyPcs,
         CoarsePcs, ClosedPcs, RoomPcs, SetPhasePcs
    <2>8. FreshInv'
      BY <1>0, <1>h, <1>p, <2>a, <2>b, <2>c, <2>d, <2>e DEF FreshInv, FreshPcs,
         Committed, Fresh
    <2>9. AuthorityInv'
      BY <1>0, <1>h, <2>a, <2>b, <2>c, <2>d, <2>e DEF AuthorityInv, Committed,
         UncommittedPcs, SetPhasePcs
    <2>10. RequestInv'
      BY <1>0, <1>t, <2>a, <2>b, <2>c, <2>d, <2>e DEF RequestInv, InTodo
    <2>11. ThreatInv'
      BY <1>0, <1>r, <1>t, <2>a, <2>b, <2>c, <2>d, <2>e DEF ThreatInv, Threat, InTodo,
         HandleInv, ConstructingPcs, BusyPcs, CoarsePcs, ClosedPcs, RoomPcs, SetPhasePcs
    <2>12. MaskInv'
      BY <1>0, <2>a, <2>b, <2>c, <2>d, <2>e DEF MaskInv, StopIsNotMasked, SetPhasePcs
    <2> QED
      BY <2>1, <2>2, <2>3, <2>4, <2>5, <2>6, <2>7, <2>8, <2>9, <2>10, <2>11, <2>12 DEF
           RuntimeInv
  <1>53. CASE Decide
    <2>1. RunnerTypes' /\ BoundTypes' /\ StillInv'
      BY <1>53, Untouched DEF Decide, Answered, runnerVars, RequestFrame, handleVars
    <2>2. HandleTypes'
      BY <1>0, <1>53 DEF HandleTypes, Decide, Answered, RequestFrame, handleVars
    <2>3. PhaseTypes'
      BY <1>0, <1>53 DEF PhaseTypes, Pcs, SetPhasePcs, HandoffPcs, Phases, Decide,
         Answered, RequestFrame
    <2>4. RequestTypes'
      BY <1>0, <1>q, <1>53 DEF RequestTypes, OpPcs, Decide, Answered, RequestFrame
    <2>5. HandleInv'
      BY <1>0, <1>53 DEF HandleInv, ConstructingPcs, BusyPcs, CoarsePcs, ClosedPcs,
         RoomPcs, SetPhasePcs, Decide, Answered, runnerVars, RequestFrame, handleVars
    <2>6. FreshInv'
      BY <1>0, <1>h, <1>p, <1>53 DEF FreshInv, FreshPcs, Committed, Fresh, Decide,
         Answered, runnerVars, RequestFrame, handleVars
    <2>7. AuthorityInv'
      BY <1>0, <1>h, <1>53 DEF AuthorityInv, Committed, UncommittedPcs, SetPhasePcs,
         Decide, Answered, runnerVars, RequestFrame, handleVars
    <2>8. RequestInv'
      BY <1>0, <1>t, <1>53 DEF RequestInv, InTodo, Decide, Answered, runnerVars,
         RequestFrame
    <2>9. ThreatInv'
      BY <1>0, <1>t, <1>53 DEF ThreatInv, Threat, InTodo, Decide, Answered, runnerVars,
         RequestFrame, handleVars
    <2>10. MaskInv'
      BY <1>0, <1>53 DEF MaskInv, StopIsNotMasked, SetPhasePcs, Decide, Answered,
         RequestFrame
    <2> QED
      BY <2>1, <2>2, <2>3, <2>4, <2>5, <2>6, <2>7, <2>8, <2>9, <2>10 DEF RuntimeInv
  <1>54. CASE Confirm
    <2>1. RunnerTypes' /\ BoundTypes' /\ StillInv'
      BY <1>54, Untouched DEF Confirm, Answered, runnerVars, stopVars, RequestFrame,
           handleVars
    <2>2. HandleTypes'
      BY <1>0, <1>54 DEF HandleTypes, Confirm, Answered, RequestFrame, handleVars
    <2>3. PhaseTypes'
      BY <1>0, <1>54 DEF PhaseTypes, Pcs, SetPhasePcs, HandoffPcs, Phases, Confirm,
         Answered, RequestFrame
    <2>4. RequestTypes'
      BY <1>0, <1>q, <1>54 DEF RequestTypes, OpPcs, Confirm, Answered, stopVars,
         RequestFrame
    <2>5. HandleInv'
      BY <1>0, <1>54 DEF HandleInv, ConstructingPcs, BusyPcs, CoarsePcs, ClosedPcs,
         RoomPcs, SetPhasePcs, Confirm, Answered, runnerVars, RequestFrame, handleVars
    <2>6. FreshInv'
      BY <1>0, <1>h, <1>p, <1>54 DEF FreshInv, FreshPcs, Committed, Fresh, Confirm,
         Answered, runnerVars, RequestFrame, handleVars
    <2>7. AuthorityInv'
      BY <1>0, <1>h, <1>54 DEF AuthorityInv, Committed, UncommittedPcs, SetPhasePcs,
         Confirm, Answered, runnerVars, RequestFrame, handleVars
    <2>8. RequestInv'
      BY <1>0, <1>t, <1>54 DEF RequestInv, InTodo, Confirm, Answered, runnerVars,
         stopVars, RequestFrame
    <2>9. ThreatInv'
      BY <1>0, <1>t, <1>54 DEF ThreatInv, Threat, InTodo, Confirm, Answered, runnerVars,
         stopVars, RequestFrame, handleVars
    <2>10. MaskInv'
      BY <1>0, <1>54 DEF MaskInv, StopIsNotMasked, SetPhasePcs, Confirm, Answered,
         stopVars, RequestFrame
    <2> QED
      BY <2>1, <2>2, <2>3, <2>4, <2>5, <2>6, <2>7, <2>8, <2>9, <2>10 DEF RuntimeInv
  <1>55. CASE Crash
    <2>1. RunnerTypes'
      BY <1>0, <1>55 DEF RunnerTypes, RunnerPhases, Crash
    <2>2. HandleTypes'
      BY <1>0, <1>55 DEF HandleTypes, Crash
    <2>3. PhaseTypes'
      BY <1>0, <1>55 DEF PhaseTypes, Pcs, SetPhasePcs, HandoffPcs, Phases, Crash
    <2>4. RequestTypes'
      <3>1. <<>> \in Seq(Runs)
        OBVIOUS
      <3> QED
        BY <1>0, <1>55, <3>1 DEF RequestTypes, OpPcs, Crash
    <2>5. BoundTypes'
      BY <1>0, <1>55, ChainAssumption, RuntimeAssumption DEF BoundTypes, Crash
    <2>6. StillInv'
      BY <1>0, <1>h, <1>r, <1>55 DEF StillInv, Still, Terminal, HandleInv,
         ConstructingPcs, BusyPcs, CoarsePcs, ClosedPcs, RoomPcs, SetPhasePcs, FreshInv,
         Crash
    <2>7. HandleInv'
      BY <1>0, <1>r, <1>55 DEF HandleInv, ConstructingPcs, BusyPcs, CoarsePcs,
         ClosedPcs, RoomPcs, SetPhasePcs, Crash
    <2>8. FreshInv'
      BY <1>0, <1>p, <1>55 DEF FreshInv, FreshPcs, Committed, Fresh, Crash
    <2>9. AuthorityInv'
      BY <1>0, <1>h, <1>r, <1>55 DEF AuthorityInv, Committed, UncommittedPcs,
         SetPhasePcs, HandleInv, ConstructingPcs, BusyPcs, CoarsePcs, ClosedPcs,
         RoomPcs, Crash
    <2>10. RequestInv'
      BY <1>0, <1>t, <1>55 DEF RequestInv, InTodo, Crash
    <2>11. ThreatInv'
      BY <1>0, <1>t, <1>55 DEF ThreatInv, Threat, InTodo, Crash
    <2>12. MaskInv'
      BY <1>0, <1>55 DEF MaskInv, StopIsNotMasked, SetPhasePcs, Crash
    <2> QED
      BY <2>1, <2>2, <2>3, <2>4, <2>5, <2>6, <2>7, <2>8, <2>9, <2>10, <2>11, <2>12 DEF
           RuntimeInv
  <1>56. CASE UNCHANGED vars
    <2>1. RunnerTypes'
      BY <1>0, <1>56 DEF RunnerTypes, RunnerPhases, vars, runnerVars
    <2>2. HandleTypes'
      BY <1>0, <1>56 DEF HandleTypes, vars, handleVars
    <2>3. PhaseTypes'
      BY <1>0, <1>56 DEF PhaseTypes, Pcs, SetPhasePcs, HandoffPcs, Phases, vars,
         phaseVars
    <2>4. RequestTypes'
      BY <1>0, <1>q, <1>56 DEF RequestTypes, OpPcs, vars, stopVars, operatorVars
    <2>5. BoundTypes'
      BY <1>0, <1>56 DEF BoundTypes, vars, bounds
    <2>6. StillInv'
      BY <1>0, <1>h, <1>56 DEF StillInv, Still, Terminal, vars, chainVars, runnerVars
    <2>7. HandleInv'
      BY <1>0, <1>56 DEF HandleInv, ConstructingPcs, BusyPcs, CoarsePcs, ClosedPcs,
         RoomPcs, SetPhasePcs, vars, chainVars, runnerVars, handleVars, phaseVars,
         bounds
    <2>8. FreshInv'
      BY <1>0, <1>h, <1>p, <1>56 DEF FreshInv, FreshPcs, Committed, Fresh, vars,
         chainVars, runnerVars, handleVars
    <2>9. AuthorityInv'
      BY <1>0, <1>h, <1>56 DEF AuthorityInv, Committed, UncommittedPcs, SetPhasePcs,
         vars, runnerVars, handleVars, phaseVars
    <2>10. RequestInv'
      BY <1>0, <1>t, <1>56 DEF RequestInv, InTodo, vars, runnerVars, stopVars,
         operatorVars
    <2>11. ThreatInv'
      BY <1>0, <1>t, <1>56 DEF ThreatInv, Threat, InTodo, vars, runnerVars, handleVars,
         stopVars, operatorVars
    <2>12. MaskInv'
      BY <1>0, <1>56 DEF MaskInv, StopIsNotMasked, SetPhasePcs, vars, stopVars,
         phaseVars, operatorVars
    <2> QED
      BY <2>1, <2>2, <2>3, <2>4, <2>5, <2>6, <2>7, <2>8, <2>9, <2>10, <2>11, <2>12 DEF
           RuntimeInv
  <1> QED
    BY <1>1, <1>2, <1>3, <1>4, <1>5, <1>6, <1>7, <1>8, <1>9, <1>10, <1>11, <1>12, <1>13,
         <1>14, <1>15, <1>16, <1>17, <1>18, <1>19, <1>20, <1>21, <1>22, <1>23, <1>24,
         <1>25, <1>26, <1>27, <1>28, <1>29, <1>30, <1>31, <1>32, <1>33, <1>34, <1>35,
         <1>36, <1>37, <1>38, <1>39, <1>40, <1>41, <1>42, <1>43, <1>44, <1>45, <1>46,
         <1>47, <1>48, <1>49, <1>50, <1>51, <1>52, <1>53, <1>54, <1>55, <1>56,
         <1>18a DEF Next, Transaction, SetPhaseStep, Handoff, RequestStep, Resume, ReadHandles

-----------------------------------------------------------------------------
(* The invariant holds.                                                     *)

(* The initial state has no chain and no runtime.                           *)
LEMMA InvInit == Init => IInv
  <1> SUFFICES ASSUME Init PROVE IInv
    OBVIOUS
  <1>0. /\ chain = <<>> /\ log = [r \in Runs |-> 0] /\ known = 0 /\ NoRuntime
        /\ created = 0 /\ steps = 0 /\ requests = 0 /\ crashes = 0
    BY DEF Init
  <1>1. DOMAIN chain = {} /\ chain \in Seq(ChainEvent)
    BY <1>0
  <1>2. \A t : ~Has(t)
    BY <1>1 DEF Has
  <1>3. todo = <<>> /\ DOMAIN todo = {} /\ todo \in Seq(Runs)
    BY <1>0 DEF NoRuntime
  <1>4. TypeOK
    <2>1. /\ runner \in [Runs -> RunnerPhases] /\ log \in [Runs -> Nat] /\ known \in Nat
          /\ proven \in [Runs -> BOOLEAN] /\ stopping \in [Runs -> BOOLEAN]
      BY <1>0 DEF NoRuntime, NoRunners, RunnerPhases
    <2>2. /\ phase \in Phases /\ goal \in Phases
          /\ then \in {"idle", "first_step", "block_stop", "handoff"}
          /\ {active, constructing, fine, busy} \subseteq Runs \cup {None}
          /\ active = None <=> pc = "down"
          /\ stopRequested \in BOOLEAN /\ stopConfirmed \in BOOLEAN
          /\ pc \in Pcs /\ opPc \in OpPcs
          /\ seen \in {"nothing", "confirmed", "unconfirmed"} /\ failed \in BOOLEAN
      BY <1>0 DEF NoRuntime, Phases, Pcs, OpPcs
    <2>3. /\ created \in 0 .. MaxFine /\ steps \in 0 .. MaxSteps
          /\ requests \in 0 .. MaxRequests /\ crashes \in 0 .. MaxCrashes
      BY <1>0, ChainAssumption, RuntimeAssumption
    <2> QED
      BY <1>1, <1>3, <2>1, <2>2, <2>3 DEF TypeOK
  <1>5. OrderInv /\ FollowsInv /\ MilestoneInv
    BY <1>0, <1>1 DEF OrderInv, FollowsInv, MilestoneInv
  <1>6. StillInv
    BY <1>2 DEF StillInv
  <1>7. \A r \in Runs : runner[r] = "absent"
    BY <1>0 DEF NoRuntime, NoRunners
  <1>8. /\ active = None /\ constructing = None /\ fine = None /\ busy = None
        /\ pc = "down" /\ then = "idle" /\ opPc = "idle" /\ seen = "nothing" /\ ~failed
        /\ ~stopRequested /\ ~stopConfirmed
    BY <1>0 DEF NoRuntime
  <1>r. None \notin Runs /\ None # Coarse /\ None \notin FineRuns
    BY RunFacts
  <1>9. HandleInv
    BY <1>7, <1>8, <1>r DEF HandleInv, ConstructingPcs, BusyPcs, CoarsePcs, ClosedPcs, RoomPcs,
         SetPhasePcs
  <1>10. FreshInv /\ AuthorityInv
    BY <1>7, <1>8, <1>r DEF FreshInv, FreshPcs, AuthorityInv
  <1>11. RequestInv /\ ThreatInv
    BY <1>3, <1>7, <1>8, <1>r DEF RequestInv, ThreatInv, Threat
  <1>12. MaskInv
    BY <1>8 DEF MaskInv, StopIsNotMasked
  <1> QED
    BY <1>4, <1>5, <1>6, <1>9, <1>10, <1>11, <1>12 DEF IInv

(* The steps that can change what the writer knows.                         *)
LEMMA Writers ==
    ASSUME [Next]_vars, known' # known
    PROVE  Create \/ Resume \/ Accept \/ AcceptRaises \/ LastCheckpoint \/ Prepare \/ Candidate
           \/ Commit \/ Seal \/ Complete
  <1>1. ~UNCHANGED vars /\ ~Begin /\ ~Request /\ ~RequestStep /\ ~Crash
    BY DEF vars, chainVars, Begin, Request, RequestStep, RequestFrame, Flag, Mark,
         ReadHandles, ReadHandle, NextRunner, StopReturns, Decide, Confirm, Crash
  <1>2. ~Start /\ ~SetPhaseStep /\ ~Block /\ ~BlockStop /\ ~Apply /\ ~Progress
        /\ ~Prompt /\ ~Answer /\ ~OperationRaises /\ ~ObserveStop /\ ~ReadFlag /\ ~EndWork
        /\ ~EndCoarse /\ ~EndFine /\ ~Leave /\ ~Finalize /\ ~Close
    BY DEF chainVars, Start, SetPhaseStep, SetPhaseFrame, CheckStop, Store, Recheck, Verdict,
         Overwrite, Block, BlockStop, Apply, Prompt, Answer, ConsoleFrame, Progress,
         OperationFrame, OperationRaises, ObserveStop, ReadFlag, EndWork, EndCoarse, EndFine,
         Leave, Finalize, Close
  <1>3. \A from, to : ~FlagCheck(from, to)
    BY DEF FlagCheck
  <1>4. ~VerifyTransition /\ ~StopCoarse /\ ~CreateFine /\ ~Construct /\ ~StopBeforeStart
        /\ ~StartFine /\ ~StopAfterStart /\ ~VerifyCandidate /\ ~VerifyCommit /\ ~Activate
        /\ ~Publish /\ ~Release /\ ~FirstStep /\ ~First /\ ~Except
    BY DEF chainVars, VerifyTransition, StopCoarse, CreateFine, Construct, StopBeforeStart,
         StartFine, StopAfterStart, VerifyCandidate, VerifyCommit, Activate, Publish, Release,
         FirstStep, First, OperationFrame, Except
  <1> QED
    BY <1>1, <1>2, <1>3, <1>4 DEF Next, Transaction, Handoff

(* The types of the chain, the logs and the writer.                         *)
LEMMA ChainTypes ==
    ASSUME IInv, [Next]_vars
    PROVE  chain' \in Seq(ChainEvent) /\ log' \in [Runs -> Nat] /\ known' \in Nat
  <1>0. known \in Nat /\ chain \in Seq(ChainEvent) /\ log \in [Runs -> Nat]
    BY DEF IInv, TypeOK
  <1>1. chain' \in Seq(ChainEvent)
    <2>1. CASE Create
      <3>1. chain = <<>> /\ Coarse \in Runs /\ "experiment_initialized" \in Types
        BY <2>1, RunFacts DEF Create, Types
      <3>2. EventOf("experiment_initialized", Coarse) \in ChainEvent
        BY <3>1, EventType
      <3> QED
        BY <2>1, <3>2 DEF Create
    <2>2. ASSUME NEW e \in ChainEvent, Extends(e) PROVE chain' \in Seq(ChainEvent)
      BY <1>0, <2>2 DEF Extends
    <2> QED
      BY <1>0, <2>1, <2>2, ChainCases
  <1>2. Len(chain') \in Nat /\ Len(chain) \in Nat
    BY <1>0, <1>1
  <1>3. known' \in {known, known + 1, 1, Len(chain'), Len(chain)}
    <2>1. CASE known' # known
      BY <2>1, Writers DEF Create, Resume, Accept, AcceptRaises, LastCheckpoint, Prepare, Candidate,
           Commit, ChainStep, Append1, AppendRaises, Seal, Complete
    <2> QED
      BY <2>1
  <1>4. known' \in Nat
    BY <1>0, <1>2, <1>3
  <1>5. log' \in [Runs -> Nat]
    BY <1>0, LogCases DEF Log
  <1> QED
    BY <1>1, <1>4, <1>5

(* Every step keeps the inductive invariant.                                *)
LEMMA InvStep == IInv /\ [Next]_vars => IInv'
  <1> SUFFICES ASSUME IInv, [Next]_vars PROVE IInv'
    OBVIOUS
  <1>1. /\ RunnerTypes' /\ HandleTypes' /\ PhaseTypes' /\ RequestTypes' /\ BoundTypes'
        /\ StillInv' /\ HandleInv' /\ FreshInv' /\ AuthorityInv'
        /\ RequestInv' /\ ThreatInv' /\ MaskInv'
    BY RuntimeInvStep DEF RuntimeInv
  <1>2. OrderInv' /\ FollowsInv' /\ MilestoneInv'
    BY ChainInvStep DEF ChainInv
  <1>3. TypeOK'
    BY <1>1, ChainTypes DEF TypeOK, RunnerTypes, HandleTypes, PhaseTypes, RequestTypes, BoundTypes
  <1> QED
    BY <1>1, <1>2, <1>3 DEF IInv

(* The inductive invariant holds of every reachable state.                  *)
THEOREM Invariance == Spec => []IInv
  BY InvInit, InvStep, PTL DEF Spec

-----------------------------------------------------------------------------
(* The theorems.                                                            *)

(* Whatever the operator, a stop and the disk do, the chain, the logs and   *)
(* the runtime have the types of the code's fields, and a runtime exists    *)
(* exactly while it has an active runner.                                   *)
THEOREM TypeCorrect == Spec => []TypeOK
  <1>1. IInv => TypeOK
    BY DEF IInv
  <1> QED
    BY <1>1, Invariance, PTL

(* After a confirmed stop no runner has motion authority, however the       *)
(* handoff was creating, starting, activating or dropping its runner while  *)
(* request_stop read the handles and stopped one runner after the other.    *)
THEOREM StoppedStaysStill == Spec => []StoppedIsStill
  <1>1. IInv => StoppedIsStill
    BY DEF IInv, ThreatInv, Threat, StoppedIsStill
  <1> QED
    BY <1>1, Invariance, PTL

(* No phase that lets the scan go on hides a stop request, whichever way    *)
(* the two threads' stores of the phase interleave (_set_phase).            *)
THEOREM StopNotMasked == Spec => []StopIsNotMasked
  <1>1. IInv => StopIsNotMasked
    BY DEF IInv, MaskInv
  <1> QED
    BY <1>1, Invariance, PTL

(* At most one runner is ready to move the arm, and a fine runner works on  *)
(* no run but the one that the chain has bound (_activate_fine, start).     *)
THEOREM OneAuthority == Spec => []OneMotionAuthority
  <1>1. ASSUME IInv PROVE OneMotionAuthority
    <2>0. HandleInv /\ AuthorityInv
      BY <1>1 DEF IInv
    <2> DEFINE ready == {r \in Runs : runner[r] = "ready"}
    <2>1. \E r : ready \subseteq {r}
      <3>1. CASE constructing = None
        <4>1. ready \subseteq {active}
          BY <2>0, <3>1, RunFacts DEF AuthorityInv
        <4> QED
          BY <4>1
      <3>2. CASE constructing # None
        <4>1. active = constructing \/ (active = Coarse /\ runner[Coarse] = "aborted")
          BY <2>0, <3>2 DEF HandleInv
        <4>2. ready \subseteq {constructing}
          BY <2>0, <4>1 DEF AuthorityInv
        <4> QED
          BY <4>2
      <3> QED
        BY <3>1, <3>2
    <2>2. PICK r : ready \subseteq {r}
      BY <2>1
    <2> HIDE DEF ready
    <2>3. Cardinality(ready) <= Cardinality({r}) /\ Cardinality({r}) = 1
      <3>1. IsFiniteSet({r}) /\ Cardinality({r}) = 1
        BY FS_Singleton
      <3> QED
        BY <2>2, <3>1, FS_Subset
    <2>4. Cardinality(ready) <= 1
      BY <2>3
    <2>5. busy \in FineRuns => Has("fine_started") /\ StartedRun = busy
      BY <2>0 DEF AuthorityInv, Committed
    <2> QED
      BY <2>4, <2>5 DEF OneMotionAuthority, ready
  <1>2. IInv => OneMotionAuthority
    BY <1>1
  <1> QED
    BY <1>2, Invariance, PTL

(* A chain that the reader refuses is one of the four known losses: a       *)
(* failing append, a stop or a death at any other point leaves a chain that *)
(* _validate_semantic_chain accepts.                                        *)
THEOREM OnlyCandidates == Spec => []OnlyCandidatesAreLost
  <1>1. ASSUME IInv, chain # <<>>, Latest.type # "unfinished",
               ~(Len(chain) = 1 /\ log[Coarse] = 0),
               ~(Latest.type = "fine_start_candidate" /\ log[Latest.run] > 1)
        PROVE  Readable
    <2>0. /\ chain \in Seq(ChainEvent) /\ log \in [Runs -> Nat] /\ Coarse \in Runs
          /\ OrderInv /\ FollowsInv /\ MilestoneInv
      BY <1>1, RunFacts DEF IInv, TypeOK
    <2> DEFINE n == Len(chain)
    <2>1. n \in Nat /\ n >= 1 /\ DOMAIN chain = 1 .. n /\ Latest = chain[n]
          /\ \A i \in 1 .. n : chain[i] \in ChainEvent
      BY <1>1, <2>0 DEF Latest
    <2> HIDE DEF n
    <2>2. ASSUME NEW i \in 1 .. n PROVE chain[i].type # "unfinished"
      <3>1. CASE i = n
        BY <1>1, <2>1, <3>1
      <3>2. CASE i # n
        <4>1. i < n /\ n \in DOMAIN chain /\ i \in DOMAIN chain
          BY <2>1, <3>2
        <4>2. chain[i].type \in Earlier(chain[n].type)
          BY <2>0, <4>1 DEF OrderInv
        <4>3. chain[n].type \in Types
          BY <2>1, <4>1 DEF ChainEvent
        <4> QED
          BY <4>2, <4>3 DEF Earlier, CoarseTypes, Types
      <3> QED
        BY <3>1, <3>2
    <2>3. chain[1].type = "experiment_initialized"
      BY <1>1, <2>0 DEF FollowsInv
    <2>4. \A i \in 2 .. n : Follows(i)
      <3> TAKE i \in 2 .. n
      <3>1. i \in DOMAIN chain /\ i > 1 /\ i \in 1 .. n
        BY <2>1
      <3> QED
        BY <2>0, <2>2, <3>1 DEF FollowsInv
    <2>5. log[Coarse] >= 1
      <3>1. CASE n = 1
        BY <1>1, <2>0, <3>1 DEF n
      <3>2. CASE n # 1
        <4>1. 2 \in 2 .. n /\ 2 \in DOMAIN chain /\ 2 - 1 = 1
          BY <2>1, <3>2
        <4>2. Follows(2)
          BY <2>4, <4>1
        <4>3. chain[1].type \in Before(chain[2].type) /\ chain[2].type \in Types
          BY <2>1, <4>1, <4>2 DEF Follows, ChainEvent
        <4>4. chain[2].type = "coarse_checkpoint"
          BY <2>3, <4>3 DEF Before, Types
        <4>5. chain[2].run = Coarse
          BY <2>0, <4>1, <4>4 DEF MilestoneInv, CoarseTypes
        <4>6. chain[2].count \in 1 .. log[Coarse]
          BY <4>2, <4>4, <4>5 DEF Follows
        <4> QED
          BY <2>0, <4>6
      <3> QED
        BY <3>1, <3>2
    <2>6. Latest.type = "fine_start_candidate" => log[Latest.run] = 1
      <3> SUFFICES ASSUME Latest.type = "fine_start_candidate" PROVE log[Latest.run] = 1
        OBVIOUS
      <3>1. n # 1
        BY <2>1, <2>3
      <3>2. Follows(n)
        BY <2>1, <2>4, <3>1
      <3>3. log[Latest.run] >= 1
        BY <2>1, <3>2 DEF Follows
      <3>4. Latest.run \in Runs
        BY <2>1 DEF ChainEvent
      <3>5. log[Latest.run] \in Nat
        BY <2>0, <3>4
      <3> QED
        BY <1>1, <3>3, <3>5
    <2> QED
      BY <1>1, <2>3, <2>4, <2>5, <2>6 DEF Readable, n
  <1>2. IInv => OnlyCandidatesAreLost
    BY <1>1 DEF OnlyCandidatesAreLost
  <1> QED
    BY <1>2, Invariance, PTL

-----------------------------------------------------------------------------
(* The implementation of ExperimentStages.                                  *)

\* the abstract stage and its run
Stage == IF chain = <<>> THEN "new" ELSE ResumePhase
FineRun == IF Has("fine_started") THEN StartedRun ELSE None

(* The milestones come in their order.                                      *)
LEMMA Milestones ==
    ASSUME MilestoneInv
    PROVE  /\ Has("fine_started") => Has("handoff_prepared")
           /\ Has("fine_completed") => Has("fine_started")
  BY DEF MilestoneInv, Has, CoarseTypes

(* An append adds its own type to the milestones.                           *)
LEMMA HasAppended ==
    ASSUME chain \in Seq(ChainEvent), NEW e \in ChainEvent, chain' = Append(chain, e)
    PROVE  \A t : Has(t)' <=> Has(t) \/ e.type = t
  <1>1. /\ DOMAIN chain = 1 .. Len(chain) /\ DOMAIN chain' = 1 .. Len(chain) + 1
        /\ Len(chain) \in Nat /\ chain'[Len(chain) + 1] = e
        /\ \A i \in 1 .. Len(chain) : chain'[i] = chain[i]
    OBVIOUS
  <1> DEFINE n == Len(chain)
  <1> HIDE DEF n
  <1>2. /\ DOMAIN chain = 1 .. n /\ DOMAIN chain' = 1 .. n + 1 /\ n \in Nat
        /\ chain'[n + 1] = e /\ \A i \in 1 .. n : chain'[i] = chain[i]
    BY <1>1 DEF n
  <1> QED
    BY <1>2 DEF Has

(* Before its chain an experiment is new and has no fine run.               *)
LEMMA StageInit ==
    ASSUME Init
    PROVE  Stage = "new" /\ FineRun = None
  BY DEF Init, Stage, FineRun, Has

(* A step of either thread is at most one step of the stages.               *)
LEMMA StageStep ==
    ASSUME IInv, [Next]_vars
    PROVE  \/ Stage' = Stage /\ FineRun' = FineRun
           \/ Stage = "new" /\ Stage' = "coarse" /\ FineRun' = FineRun
           \/ Stage = "coarse" /\ Stage' = "prepared" /\ FineRun' = FineRun
           \/ Stage = "prepared" /\ Stage' = "fine" /\ FineRun' \in FineRuns
           \/ Stage = "fine" /\ Stage' = "complete" /\ FineRun' = FineRun
  <1>0. /\ chain \in Seq(ChainEvent) /\ MilestoneInv /\ MilestoneInv' /\ OrderInv'
        /\ chain' \in Seq(ChainEvent)
    BY ChainInvStep, ChainTypes DEF IInv, TypeOK, ChainInv
  <1>1. CASE chain' = chain
    <2>1. StartedRun' = StartedRun /\ \A t : Has(t)' <=> Has(t)
      BY <1>1, ChainMoves
    <2>2. ResumePhase' = ResumePhase
      BY <2>1 DEF ResumePhase
    <2> QED
      BY <1>1, <2>1, <2>2 DEF Stage, FineRun
  <1>2. CASE Create
    <2>1. chain = <<>> /\ chain' = <<EventOf("experiment_initialized", Coarse)>>
      BY <1>2 DEF Create
    <2>2. /\ DOMAIN chain' = {1} /\ chain'[1].type = "experiment_initialized"
          /\ DOMAIN chain = {} /\ chain' # <<>>
      BY <2>1 DEF EventOf
    <2>3. /\ ~Has("fine_started") /\ ~Has("fine_started")' /\ ~Has("handoff_prepared")'
          /\ ~Has("fine_completed")'
      BY <2>2 DEF Has
    <2> QED
      BY <2>1, <2>2, <2>3 DEF Stage, FineRun, ResumePhase
  <1>3. ASSUME NEW e \in ChainEvent, Extends(e)
        PROVE  \/ Stage' = Stage /\ FineRun' = FineRun
               \/ Stage = "coarse" /\ Stage' = "prepared" /\ FineRun' = FineRun
               \/ Stage = "prepared" /\ Stage' = "fine" /\ FineRun' \in FineRuns
               \/ Stage = "fine" /\ Stage' = "complete" /\ FineRun' = FineRun
    <2>1. chain' = Append(chain, e) /\ chain # <<>>
      BY <1>3 DEF Extends, NewEvent
    <2>2. \A t : Has(t)' <=> Has(t) \/ e.type = t
      BY <1>0, <2>1, HasAppended
    <2>3. chain' # <<>> /\ (Has("fine_started") => StartedRun' = StartedRun)
      BY <2>1, ChainMoves
    <2>4. /\ Has("fine_started") => Has("handoff_prepared")
          /\ Has("fine_completed") => Has("fine_started")
      BY <1>0, Milestones
    <2>5. /\ Has("fine_started")' => Has("handoff_prepared")'
          /\ Has("fine_completed")' => Has("fine_started")'
      BY <1>0 DEF MilestoneInv, Has, CoarseTypes
    <2>6. Stage = ResumePhase /\ Stage' = ResumePhase'
      BY <2>1, <2>3 DEF Stage
    <2>7. CASE e.type \notin {"handoff_prepared", "fine_started", "fine_completed"}
      BY <2>2, <2>3, <2>6, <2>7 DEF ResumePhase, FineRun
    <2>8. CASE e.type = "handoff_prepared"
      BY <2>2, <2>3, <2>4, <2>6, <2>8 DEF ResumePhase, FineRun
    <2>9. CASE e.type = "fine_started"
      <3>1. CASE Has("fine_started")
        BY <2>2, <2>3, <2>6, <2>9, <3>1 DEF ResumePhase, FineRun
      <3>2. CASE ~Has("fine_started")
        <4>1. StartedRun' = e.run
          BY <1>0, <2>1, <2>9, StartedNext
        <4>2. e.run \in FineRuns
          <5>1. Latest.run = e.run /\ Latest.type = "fine_start_candidate"
            <6>1. e.type \in {"fine_started"} /\ NewEvent(e) /\ e.run = Latest.run
              BY <1>3, <2>9 DEF Extends
            <6> QED
              BY <2>9, <6>1 DEF NewEvent, Before
          <5>2. Len(chain) \in DOMAIN chain /\ Latest = chain[Len(chain)]
            BY <1>0, <2>1 DEF Latest
          <5>3. e.run \in 1 .. created
            BY <1>0, <5>1, <5>2 DEF MilestoneInv, CoarseTypes
          <5>4. created \in 0 .. MaxFine
            BY DEF IInv, TypeOK
          <5> QED
            BY <5>3, <5>4, ChainAssumption DEF FineRuns
        <4>3. Has("handoff_prepared") /\ ~Has("fine_completed")
          BY <2>2, <2>4, <2>5, <2>9, <3>2
        <4> QED
          BY <2>2, <2>6, <2>9, <3>2, <4>1, <4>2, <4>3 DEF ResumePhase, FineRun
      <3> QED
        BY <3>1, <3>2
    <2>10. CASE e.type = "fine_completed"
      <3>1. Has("fine_started")
        BY <2>2, <2>5, <2>10
      <3> QED
        BY <2>2, <2>3, <2>6, <2>10, <3>1 DEF ResumePhase, FineRun
    <2> QED
      BY <2>7, <2>8, <2>9, <2>10
  <1> QED
    BY <1>1, <1>2, <1>3, ChainCases

(* The chain takes the experiment forward one stage at a time, and the fine *)
(* run that it has bound once stays bound, through every failing append,    *)
(* stop, death and resume (load_unknown_blade_resume_plan).                 *)
THEOREM Implementation == Spec => ImplementsExperiment
  <1>1. Init => Stages!Init
    BY StageInit DEF Stage, FineRun, Stages!Init
  <1>2. IInv /\ [Next]_vars => [Stages!Next]_(Stages!vars)
    <2> SUFFICES ASSUME IInv, [Next]_vars PROVE [Stages!Next]_(Stages!vars)
      OBVIOUS
    <2>1. \/ Stage' = Stage /\ FineRun' = FineRun
          \/ Stage = "new" /\ Stage' = "coarse" /\ FineRun' = FineRun
          \/ Stage = "coarse" /\ Stage' = "prepared" /\ FineRun' = FineRun
          \/ Stage = "prepared" /\ Stage' = "fine" /\ FineRun' \in FineRuns
          \/ Stage = "fine" /\ Stage' = "complete" /\ FineRun' = FineRun
      BY StageStep
    <2> QED
      BY <2>1 DEF Stage, FineRun, Stages!Next, Stages!Begin, Stages!Prepare, Stages!StartFine,
           Stages!Complete, Stages!Advance, Stages!vars
  <1> QED
    BY <1>1, <1>2, Invariance, PTL DEF Spec, ImplementsExperiment, Stages!Spec, Stages!vars
==============================================================================
