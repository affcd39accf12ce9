---------------------------- MODULE RunEventStore ----------------------------
(***************************************************************************)
(* The event store of one stop-and-scan run: StopScanRunWriter.append_event*)
(* under the run's authority and the writer's own lock, the reader that    *)
(* resumes a run from disk, and the publication of a fine start, which     *)
(* holds the authority while its callback may append.                      *)
(*                                                                         *)
(* Each process has at most one open writer, shared by its threads.  A     *)
(* process can be killed at any point; the power can fail, and then the    *)
(* directory entries made since the last directory sync may be lost (the   *)
(* file system keeps the entries of one directory in the order made).      *)
(***************************************************************************)
EXTENDS Naturals, Sequences, SequencesExt

CONSTANTS
    Processes,
    Threads,
    Home,           \* the process of a thread
    Publisher,      \* the thread that commits the fine start
    Creator,        \* the process that created the run
    None,           \* no thread, no event
    MaxTime,        \* bound: UTC timestamps 0 .. MaxTime
    MaxCalls,       \* bound: calls of append_event
    MaxCrashes      \* bound: deaths of a process or of the machine

ASSUME StoreAssumption ==
    /\ Home \in [Threads -> Processes]
    /\ Publisher \in Threads /\ Creator = Home[Publisher]
    /\ None \notin Threads /\ None \notin Nat
    /\ MaxTime \in Nat /\ MaxCalls \in Nat /\ MaxCrashes \in Nat

Ids == 1 .. MaxCalls
Times == 0 .. MaxTime
Event == [id : Ids, prev : Ids \cup {None}, utc : Times]

VARIABLES
    \* on disk
    log,            \* the event files, in sequence
    synced,         \* how many of them have a durable directory entry
    index,          \* event_count of the navigation index run.json
    bound,          \* the first event that a published FINE_STARTED names, or None
    \* shared between threads and processes
    processLock,    \* owner of the process's RLock for the run's root, or None
    flock,          \* owner of the file lock, or None
    \* in a process
    open,           \* it has a writer
    events,         \* the writer's _events
    writerLock,     \* owner of its _append_lock, or None
    \* in a thread
    pc,
    depth,          \* nested holds of the authority
    draft,          \* the event being appended, or None
    stage,          \* how far the fine start's publication has got
    \* bounds and history
    calls, crashes,
    acked           \* the events whose append has returned

diskVars == <<log, synced, index, bound>>
lockVars == <<processLock, flock, writerLock, depth>>
vars == <<diskVars, lockVars, open, events, pc, draft, stage,
          calls, crashes, acked>>

Pcs == {"idle", "process", "flock", "writer", "build", "link", "sync",
        "remember", "index", "release"}
Stages == {"none", "locking", "read", "callback", "recheck", "publish", "over"}

TypeOK ==
    /\ log \in Seq(Event) /\ synced \in 0 .. Len(log)
    /\ index \in 0 .. MaxCalls
    /\ bound \in Ids \cup {None}
    /\ processLock \in [Processes -> Threads \cup {None}]
    /\ flock \in Threads \cup {None}
    /\ open \in [Processes -> BOOLEAN]
    /\ events \in [Processes -> Seq(Event)]
    /\ writerLock \in [Processes -> Threads \cup {None}]
    /\ pc \in [Threads -> Pcs]
    /\ depth \in [Threads -> 0 .. 2]
    /\ draft \in [Threads -> Event \cup {None}]
    /\ stage \in Stages
    /\ calls \in 0 .. MaxCalls /\ crashes \in 0 .. MaxCrashes
    /\ acked \subseteq Ids

Init ==
    /\ log = <<>> /\ synced = 0 /\ index = 0 /\ bound = None
    /\ processLock = [p \in Processes |-> None] /\ flock = None
    /\ open = [p \in Processes |-> p = Creator]
    /\ events = [p \in Processes |-> <<>>]
    /\ writerLock = [p \in Processes |-> None]
    /\ pc = [t \in Threads |-> "idle"] /\ depth = [t \in Threads |-> 0]
    /\ draft = [t \in Threads |-> None] /\ stage = "none"
    /\ calls = 0 /\ crashes = 0 /\ acked = {}

Goto(t, label) == pc' = [pc EXCEPT ![t] = label]
Memory(t) == events[Home[t]]
IdsOf(s) == {s[i].id : i \in DOMAIN s}

\* read_stop_scan_run accepts the chain
Readable(s) ==
    /\ s # <<>>
    /\ s[1].prev = None
    /\ \A i \in 2 .. Len(s) : s[i].prev = s[i - 1].id /\ s[i - 1].utc <= s[i].utc

-----------------------------------------------------------------------------
(* exclusive_stop_scan_run_authority and the writer's lock.                *)

\* mutant: the writer's lock is taken before the run's authority
WriterFirst == <<"writer", "process", "flock", "build">>

\* the order in which append_event takes its locks
LockOrder == <<"process", "flock", "writer", "build">>

After(label) == LockOrder[(CHOOSE i \in 1 .. 3 : LockOrder[i] = label) + 1]

Publishing(t) == t = Publisher /\ stage = "locking"

\* the process's RLock; a nested hold does not take the file lock again
TakeProcessLock(t) ==
    /\ pc[t] = "process"
    /\ processLock[Home[t]] \in {None, t}
    /\ processLock' = [processLock EXCEPT ![Home[t]] = t]
    /\ depth' = [depth EXCEPT ![t] = @ + 1]
    /\ Goto(t, IF depth[t] > 0 THEN After("flock") ELSE "flock")
    /\ UNCHANGED <<diskVars, flock, writerLock, open, events, draft, stage,
                   calls, crashes, acked>>

\* mutant: the authority excludes the threads of one process only
OwnProcessOnly(t) ==
    /\ pc[t] = "flock"
    /\ flock' = t
    /\ IF Publishing(t) THEN stage' = "read" /\ Goto(t, "idle")
                        ELSE UNCHANGED stage /\ Goto(t, After("flock"))
    /\ UNCHANGED <<diskVars, processLock, writerLock, depth, open, events, draft,
                   calls, crashes, acked>>

TakeFlock(t) ==
    /\ pc[t] = "flock"
    /\ flock = None
    /\ flock' = t
    /\ IF Publishing(t) THEN stage' = "read" /\ Goto(t, "idle")
                        ELSE UNCHANGED stage /\ Goto(t, After("flock"))
    /\ UNCHANGED <<diskVars, processLock, writerLock, depth, open, events, draft,
                   calls, crashes, acked>>

TakeWriterLock(t) ==
    /\ pc[t] = "writer"
    /\ writerLock[Home[t]] = None
    /\ writerLock' = [writerLock EXCEPT ![Home[t]] = t]
    /\ Goto(t, After("writer"))
    /\ UNCHANGED <<diskVars, processLock, flock, depth, open, events, draft, stage,
                   calls, crashes, acked>>

\* one hold of the authority fewer; the last one frees the file, then the process
ReleaseAuthority(t) ==
    /\ depth' = [depth EXCEPT ![t] = @ - 1]
    /\ IF depth[t] = 1
       THEN /\ flock' = IF flock = t THEN None ELSE flock
            /\ processLock' = [processLock EXCEPT ![Home[t]] = None]
       ELSE UNCHANGED <<flock, processLock>>

-----------------------------------------------------------------------------
(* append_event.                                                           *)

CallAppend(t) ==
    /\ pc[t] = "idle" /\ open[Home[t]]
    /\ t = Publisher => stage \in {"none", "callback", "over"}
    /\ calls < MaxCalls
    /\ calls' = calls + 1
    /\ draft' = [draft EXCEPT ![t] = [id |-> calls + 1, prev |-> None, utc |-> 0]]
    /\ Goto(t, LockOrder[1])
    /\ UNCHANGED <<diskVars, lockVars, open, events, stage, crashes, acked>>

\* mutant: the predecessor's timestamp is not compared
AnyTime(t, time) == TRUE

\* the refusal of an event that is older than its predecessor
NotBackwards(t, time) == Memory(t) # <<>> => Last(Memory(t)).utc <= time

\* the event is built on the writer's memory; the clock may say anything
Build(t) ==
    /\ pc[t] = "build"
    /\ \E time \in Times :
        /\ draft' = [draft EXCEPT
                ![t].prev = IF Memory(t) = <<>> THEN None ELSE Last(Memory(t)).id,
                ![t].utc = time]
        /\ Goto(t, IF NotBackwards(t, time) THEN "link" ELSE "release")
    /\ UNCHANGED <<diskVars, lockVars, open, events, stage, calls, crashes, acked>>

\* mutant: the file of a sequence number is replaced when it exists
ReplacingLink(t) ==
    /\ pc[t] = "link"
    /\ log' = Append(SubSeq(log, 1, Len(Memory(t))), draft[t])
    /\ Goto(t, "sync")
    /\ UNCHANGED <<synced, index, bound, lockVars, open, events, draft, stage,
                   calls, crashes, acked>>

\* _write_new_json: the temporary may not be written, and an existing file is refused
Link(t) ==
    /\ pc[t] = "link"
    /\ \/ /\ Len(log) = Len(Memory(t))
          /\ log' = Append(log, draft[t])
          /\ Goto(t, "sync")
       \/ /\ Goto(t, "release")
          /\ UNCHANGED log
    /\ UNCHANGED <<synced, index, bound, lockVars, open, events, draft, stage,
                   calls, crashes, acked>>

\* mutant: the directory is not synced after the link
Unsynced(t) ==
    /\ pc[t] = "sync"
    /\ Goto(t, "remember")
    /\ UNCHANGED <<diskVars, lockVars, open, events, draft, stage,
                   calls, crashes, acked>>

\* _fsync_directory, which may fail and leave the link behind
SyncEvents(t) ==
    /\ pc[t] = "sync"
    /\ \/ synced' = Len(log) /\ Goto(t, "remember")
       \/ UNCHANGED synced /\ Goto(t, "release")
    /\ UNCHANGED <<log, index, bound, lockVars, open, events, draft, stage,
                   calls, crashes, acked>>

Remember(t) ==
    /\ pc[t] = "remember"
    /\ events' = [events EXCEPT ![Home[t]] = Append(@, draft[t])]
    /\ Goto(t, "index")
    /\ UNCHANGED <<diskVars, lockVars, open, draft, stage, calls, crashes, acked>>

\* _update_navigation_index, which may fail before or after its replacement;
\* only then does the append return
UpdateIndex(t) ==
    /\ pc[t] = "index"
    /\ \/ /\ index' = Len(Memory(t))
          /\ acked' = acked \cup {draft[t].id}
       \/ /\ index' \in {index, Len(Memory(t))}
          /\ UNCHANGED acked
    /\ Goto(t, "release")
    /\ UNCHANGED <<log, synced, bound, lockVars, open, events, draft, stage,
                   calls, crashes>>

\* the with statement unwinds: the writer's lock, then the authority
ReturnOrRaise(t) ==
    /\ pc[t] = "release"
    /\ writerLock' = [writerLock EXCEPT ![Home[t]] = None]
    /\ ReleaseAuthority(t)
    /\ draft' = [draft EXCEPT ![t] = None]
    /\ Goto(t, "idle")
    /\ UNCHANGED <<diskVars, open, events, stage, calls, crashes, acked>>

-----------------------------------------------------------------------------
(* append_fine_started: the experiment's writer binds the run's only event.*)

\* the run this process bootstrapped has been named by a candidate
BeginPublication ==
    /\ stage = "none" /\ pc[Publisher] = "idle"
    /\ open[Creator] /\ Len(events[Creator]) = 1 /\ bound = None
    /\ events[Creator][1].id \in acked
    /\ stage' = "locking"
    /\ Goto(Publisher, "process")
    /\ UNCHANGED <<diskVars, lockVars, open, events, draft,
                   calls, crashes, acked>>

\* require_single_event_fine_authority
SingleEvent == Len(log) = 1 /\ Readable(log)

Stage(from, to) == stage = from /\ pc[Publisher] = "idle" /\ stage' = to

\* an exception or the end of the publication; a new attempt binds a new run
LeavePublication ==
    /\ stage' = "over"
    /\ ReleaseAuthority(Publisher)
    /\ UNCHANGED writerLock

ReadCandidate ==
    /\ \/ Stage("read", "callback") /\ SingleEvent /\ UNCHANGED lockVars
       \/ /\ stage = "read" /\ ~SingleEvent
          /\ LeavePublication
    /\ UNCHANGED <<diskVars, open, events, pc, draft, calls, crashes, acked>>

\* the budget callback returns, perhaps having appended, or refuses
BudgetCallback ==
    /\ stage = "callback" /\ pc[Publisher] = "idle"
    /\ \/ Stage("callback", "recheck") /\ UNCHANGED lockVars
       \/ LeavePublication
    /\ UNCHANGED <<diskVars, open, events, pc, draft, calls, crashes, acked>>

Recheck ==
    /\ \/ Stage("recheck", "publish") /\ SingleEvent /\ UNCHANGED lockVars
       \/ /\ stage = "recheck" /\ ~SingleEvent
          /\ LeavePublication
    /\ UNCHANGED <<diskVars, open, events, pc, draft, calls, crashes, acked>>

\* the hard link of the experiment's event
Publish ==
    /\ stage = "publish"
    /\ bound' = log[1].id
    /\ LeavePublication
    /\ UNCHANGED <<log, synced, index, open, events, pc, draft,
                   calls, crashes, acked>>

-----------------------------------------------------------------------------
(* Death of a process or of the machine, and resuming from disk.           *)

Dead(p) == {t \in Threads : Home[t] = p}

\* the kernel closes the descriptors of the process, and with them its lock
Forget(gone) ==
    LET threads == UNION {Dead(p) : p \in gone} IN
    /\ open' = [p \in Processes |-> open[p] /\ p \notin gone]
    /\ events' = [p \in Processes |-> IF p \in gone THEN <<>> ELSE events[p]]
    /\ processLock' = [p \in Processes |->
            IF p \in gone THEN None ELSE processLock[p]]
    /\ writerLock' = [p \in Processes |->
            IF p \in gone THEN None ELSE writerLock[p]]
    /\ flock' = IF flock \in threads THEN None ELSE flock
    /\ pc' = [t \in Threads |-> IF t \in threads THEN "idle" ELSE pc[t]]
    /\ depth' = [t \in Threads |-> IF t \in threads THEN 0 ELSE depth[t]]
    /\ draft' = [t \in Threads |-> IF t \in threads THEN None ELSE draft[t]]
    /\ stage' = IF Publisher \in threads THEN "over" ELSE stage
    /\ crashes < MaxCrashes /\ crashes' = crashes + 1
    /\ UNCHANGED <<index, bound, calls, acked>>

Crash(p) ==
    /\ open[p]
    /\ Forget({p})
    /\ UNCHANGED <<log, synced>>

PowerLoss ==
    /\ Forget(Processes)
    /\ \E n \in synced .. Len(log) : log' = SubSeq(log, 1, n)
    /\ UNCHANGED synced

\* StopScanRunWriter.resume
Resume(p) ==
    /\ ~open[p]
    /\ Readable(log)
    /\ open' = [open EXCEPT ![p] = TRUE]
    /\ events' = [events EXCEPT ![p] = log]
    /\ UNCHANGED <<diskVars, lockVars, pc, draft, stage, calls, crashes, acked>>

-----------------------------------------------------------------------------
Step(t) ==
    \/ TakeProcessLock(t) \/ TakeFlock(t) \/ TakeWriterLock(t)
    \/ Build(t) \/ Link(t) \/ SyncEvents(t)
    \/ Remember(t) \/ UpdateIndex(t) \/ ReturnOrRaise(t)

PublicationStep == ReadCandidate \/ BudgetCallback \/ Recheck \/ Publish

Next ==
    \/ \E t \in Threads : CallAppend(t) \/ Step(t)
    \/ BeginPublication \/ PublicationStep
    \/ \E p \in Processes : Crash(p) \/ Resume(p)
    \/ PowerLoss

Spec == Init /\ [][Next]_vars

\* a thread inside a call is scheduled; nobody has to call, to die or to resume
FairSpec ==
    /\ Spec
    /\ \A t \in Threads : WF_vars(Step(t))
    /\ WF_vars(PublicationStep)

-----------------------------------------------------------------------------
(* What the store promises.                                                *)

(* A writer's memory never runs ahead of the disk or away from it: it is a *)
(* prefix of the files, so that the next append extends the chain or is    *)
(* refused (append_event, resume).                                         *)
MemoryIsPrefix == \A p \in Processes : IsPrefix(events[p], log)

(* The navigation index never counts an event that a power failure can     *)
(* take back, although it is written after the event and by any writer     *)
(* (_update_navigation_index).                                             *)
IndexIsDurable == index <= synced

(* A FINE_STARTED is published only while the run holds exactly the event  *)
(* that it names: no stop event slips in between the last reading of the   *)
(* run and the publication, not even from the callback (append_fine_started*)
(* under exclusive_stop_scan_run_authority).                               *)
PublishedAtOneEvent == [][bound' # bound => Len(log) = 1 /\ bound' = log[1].id]_vars

(* Every append returns or raises, unless its process dies: the authority, *)
(* the writer's lock and the re-entrant publication cannot block each      *)
(* other (append_event, exclusive_stop_scan_run_authority).                *)
AppendReturns == \A t \in Threads : pc[t] # "idle" ~> pc[t] = "idle"

Abstract == INSTANCE EventLog WITH NoEvent <- None

(* The store is an append-only chain from which only the tail of appends   *)
(* that never returned can be lost (see EventLog).                         *)
ImplementsEventLog == Abstract!Spec
=============================================================================
