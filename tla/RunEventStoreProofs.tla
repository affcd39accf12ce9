------------------------ MODULE RunEventStoreProofs ------------------------
(***************************************************************************)
(* The inductive invariant of RunEventStore, its safety theorems and the   *)
(* implementation of EventLog, for any processes and threads and every     *)
(* bound.                                                                  *)
(*                                                                         *)
(* The file lock alone makes the store safe: the invariant IInv says       *)
(* nothing of the process's lock and the writer's lock.  A second one,     *)
(* LocksInv, says who owns them and shows that the three locks cannot      *)
(* close a circle.                                                         *)
(***************************************************************************)
EXTENDS RunEventStore, Integers, FiniteSetTheorems, TLAPS

-----------------------------------------------------------------------------
(* The inductive invariant.                                                 *)

\* an append that has the file lock, and a publication that has it
AppendPcs == {"writer", "build", "link", "sync", "remember", "index", "release"}
HeldStages == {"read", "callback", "recheck", "publish"}

Holding(t) == t = Publisher /\ stage \in HeldStages
Inside(t) == pc[t] \in AppendPcs \/ Holding(t)

\* a thread inside append_event
Drafting(t) == pc[t] # "idle" /\ ~(t = Publisher /\ stage = "locking")

(* The file lock is held exactly by who is inside, and the depth counts the *)
(* holds that are left to be released: one of the append, one of the        *)
(* publication around it.                                                   *)
AuthorityInv ==
    \A t \in Threads :
        /\ flock = t <=> Inside(t)
        /\ depth[t] = (IF pc[t] \in AppendPcs \cup {"flock"} THEN 1 ELSE 0)
                      + (IF Holding(t) THEN 1 ELSE 0)

(* The publishing thread reads and publishes outside of any append; only    *)
(* its callback appends, and then it does not take the file lock again.     *)
StageInv ==
    /\ stage \in {"read", "recheck", "publish"} => pc[Publisher] = "idle"
    /\ stage = "locking" => pc[Publisher] \in {"process", "flock"}
    /\ stage \in HeldStages => pc[Publisher] # "flock"
    /\ stage = "publish" => Len(log) = 1

(* Only a process that is alive and has a writer appends.                   *)
OpenInv == \A t \in Threads : pc[t] # "idle" => open[Home[t]]

(* Every append has an event of its own, which is in no file before it is   *)
(* linked, and no two files hold the same event.                            *)
OwnEventInv == \A t \in Threads : Drafting(t) => draft[t] \in Event /\ draft[t].id <= calls

DistinctInv ==
    \A t, u \in Threads :
        t # u /\ Drafting(t) /\ Drafting(u) => draft[t].id # draft[u].id

Unlinked == {"process", "flock", "writer", "build", "link"}

FreshInv ==
    \A t \in Threads : Drafting(t) /\ pc[t] \in Unlinked =>
        \A i \in 1 .. Len(log) : log[i].id # draft[t].id

FilesInv ==
    /\ \A i \in 1 .. Len(log) : log[i].id <= calls
    /\ \A i, j \in 1 .. Len(log) : log[i].id = log[j].id => i = j

\* e may follow the events of s
Extends(e, s) ==
    IF s = <<>> THEN e.prev = None
    ELSE e.prev = s[Len(s)].id /\ s[Len(s)].utc <= e.utc

(* From the building of an event to its place in memory, nobody else has    *)
(* touched the files or this memory.                                        *)
AppendInv ==
    \A t \in Threads :
        /\ pc[t] = "link" => Extends(draft[t], Memory(t))
        /\ pc[t] \in {"sync", "remember"} => log = Append(Memory(t), draft[t])
        /\ pc[t] \in {"remember", "index"} => synced = Len(log)
        /\ pc[t] = "index" => Memory(t) = log /\ log # <<>> /\ log[Len(log)] = draft[t]

(* An append that has returned is durable.                                  *)
AckInv == \A id \in acked : \E i \in 1 .. synced : log[i].id = id

IInv ==
    /\ TypeOK
    /\ AuthorityInv /\ StageInv /\ OpenInv
    /\ OwnEventInv /\ DistinctInv /\ FreshInv /\ FilesInv
    /\ AppendInv /\ AckInv
    /\ MemoryIsPrefix /\ IndexIsDurable

-----------------------------------------------------------------------------
(* Lemmas.                                                                  *)

(* The order in which append_event takes its locks, label by label.         *)
LEMMA AfterLabels ==
    /\ After("process") = "flock" /\ After("flock") = "writer"
    /\ After("writer") = "build" /\ LockOrder[1] = "process"
  <1>1. /\ LockOrder[1] = "process" /\ LockOrder[2] = "flock"
        /\ LockOrder[3] = "writer" /\ LockOrder[4] = "build"
    BY DEF LockOrder
  <1> QED
    BY <1>1 DEF After

(* Two threads are never inside at once: the file lock has one owner.       *)
LEMMA OneInside ==
    ASSUME IInv, NEW t \in Threads, NEW u \in Threads, Inside(t), Inside(u)
    PROVE  t = u
  BY DEF IInv, AuthorityInv

(* The files, the memories and a draft are events.                          *)
LEMMA Events ==
    ASSUME IInv
    PROVE  /\ log \in Seq(Event) /\ Len(log) \in Nat /\ calls \in Nat /\ synced \in Nat
           /\ \A i \in 1 .. Len(log) : log[i] \in Event /\ log[i].id \in Ids
           /\ \A t \in Threads : Home[t] \in Processes /\ Memory(t) \in Seq(Event)
           /\ \A t \in Threads : pc[t] \in AppendPcs =>
                    Drafting(t) /\ draft[t] \in Event /\ draft[t].id \in Ids
  <1> USE StoreAssumption
  <1>1. log \in Seq(Event) /\ Len(log) \in Nat /\ calls \in Nat /\ synced \in Nat
    BY DEF IInv, TypeOK
  <1>2. ASSUME NEW i \in 1 .. Len(log) PROVE log[i] \in Event /\ log[i].id \in Ids
    <2>1. log[i] \in Event
      BY <1>1
    <2> QED
      BY <2>1 DEF Event
  <1>3. ASSUME NEW t \in Threads PROVE Home[t] \in Processes /\ Memory(t) \in Seq(Event)
    BY DEF IInv, TypeOK, Memory
  <1>4. ASSUME NEW t \in Threads, pc[t] \in AppendPcs
        PROVE  Drafting(t) /\ draft[t] \in Event /\ draft[t].id \in Ids
    <2>1. Drafting(t)
      BY <1>4 DEF IInv, StageInv, Drafting, AppendPcs
    <2>2. draft[t] \in Event
      BY <2>1 DEF IInv, OwnEventInv
    <2> QED
      BY <2>1, <2>2 DEF Event
  <1> QED
    BY <1>1, <1>2, <1>3, <1>4

(* A prefix, element by element.                                            *)
LEMMA PrefixElements ==
    ASSUME NEW S, NEW s \in Seq(S), NEW t \in Seq(S)
    PROVE  IsPrefix(s, t) <=> Len(s) <= Len(t) /\ \A i \in 1 .. Len(s) : s[i] = t[i]
  <1>1. SubSeq(s, 1, Len(s)) = s
    OBVIOUS
  <1>2. CASE Len(s) <= Len(t)
    <2>1. /\ SubSeq(t, 1, Len(s)) \in Seq(S) /\ Len(SubSeq(t, 1, Len(s))) = Len(s)
          /\ \A i \in 1 .. Len(s) : SubSeq(t, 1, Len(s))[i] = t[i]
      BY <1>2
    <2>2. s = SubSeq(t, 1, Len(s)) <=> \A i \in 1 .. Len(s) : s[i] = t[i]
      BY <2>1
    <2> QED
      BY <1>1, <1>2, <2>2 DEF IsPrefix
  <1>3. CASE ~(Len(s) <= Len(t))
    BY <1>3 DEF IsPrefix
  <1> QED
    BY <1>2, <1>3

(* The memories are prefixes of the files, element by element.              *)
LEMMA MemoryElements ==
    ASSUME TypeOK
    PROVE  MemoryIsPrefix <=>
             \A p \in Processes : /\ Len(events[p]) <= Len(log)
                                  /\ \A i \in 1 .. Len(events[p]) : events[p][i] = log[i]
  <1>1. log \in Seq(Event) /\ \A p \in Processes : events[p] \in Seq(Event)
    BY DEF TypeOK
  <1> QED
    BY <1>1, PrefixElements DEF MemoryIsPrefix

LEMMA MemoryElementsNext ==
    ASSUME TypeOK'
    PROVE  MemoryIsPrefix' <=>
             \A p \in Processes :
                 /\ Len(events'[p]) <= Len(log')
                 /\ \A i \in 1 .. Len(events'[p]) : events'[p][i] = log'[i]
  <1>1. log' \in Seq(Event) /\ \A p \in Processes : events'[p] \in Seq(Event)
    BY DEF TypeOK
  <1> QED
    BY <1>1, PrefixElements DEF MemoryIsPrefix

LEMMA FirstNumbers ==
    ASSUME NEW n \in Nat
    PROVE  IsFiniteSet(1 .. n) /\ Cardinality(1 .. n) = n
  <1>1. 1 \in Int /\ n \in Int /\ ~(1 > n + 1)
    OBVIOUS
  <1>2. /\ IsFiniteSet(1 .. n)
        /\ Cardinality(1 .. n) = IF 1 > n THEN 0 ELSE n - 1 + 1
    BY <1>1, FS_Interval
  <1> QED
    BY <1>2

(* There are no more files than calls of append_event, because no event is  *)
(* written twice.                                                           *)
LEMMA LogIsBounded == ASSUME IInv PROVE Len(log) <= calls
  <1> DEFINE id == [i \in 1 .. Len(log) |-> log[i].id]
  <1>1. Len(log) \in Nat /\ calls \in Nat
    BY Events
  <1>2. id \in [1 .. Len(log) -> 1 .. calls]
    <2>1. ASSUME NEW i \in 1 .. Len(log) PROVE log[i].id \in 1 .. calls
      <3>1. log[i].id \in Ids /\ log[i].id <= calls
        BY Events DEF IInv, FilesInv
      <3> QED
        BY <1>1, <3>1, StoreAssumption DEF Ids
    <2> QED
      BY <2>1
  <1>3. \A i, j \in 1 .. Len(log) : id[i] = id[j] => i = j
    BY DEF IInv, FilesInv
  <1> HIDE DEF id
  <1>4. IsFiniteSet(1 .. Len(log)) /\ Cardinality(1 .. Len(log)) = Len(log)
    BY <1>1, FirstNumbers
  <1>5. IsFiniteSet(1 .. calls) /\ Cardinality(1 .. calls) = calls
    BY <1>1, FirstNumbers
  <1>6. ASSUME Cardinality(1 .. calls) < Cardinality(1 .. Len(log)) PROVE FALSE
    <2>1. \E i, j \in 1 .. Len(log) : i # j /\ id[i] = id[j]
      BY <1>2, <1>4, <1>5, <1>6, FS_PigeonHole
    <2> QED
      BY <1>3, <2>1
  <1> QED
    BY <1>1, <1>4, <1>5, <1>6

(* A link that succeeds extends the writer's own memory: no other file was  *)
(* made since.                                                              *)
LEMMA LinkAppends ==
    ASSUME IInv, NEW t \in Threads, Link(t)
    PROVE  \/ log' = Append(log, draft[t]) /\ pc' = [pc EXCEPT ![t] = "sync"] /\ Memory(t) = log
           \/ log' = log /\ pc' = [pc EXCEPT ![t] = "release"]
  <1>1. ASSUME Len(log) = Len(Memory(t)) PROVE Memory(t) = log
    <2>1. log \in Seq(Event) /\ Memory(t) \in Seq(Event) /\ Home[t] \in Processes
      BY Events
    <2>2. \A i \in 1 .. Len(Memory(t)) : Memory(t)[i] = log[i]
      BY <2>1, MemoryElements DEF IInv, Memory
    <2> QED
      BY <1>1, <2>1, <2>2
  <1> QED
    BY <1>1 DEF Link, Goto

(* What the death of some processes leaves behind.                          *)
LEMMA Forgotten ==
    ASSUME TypeOK, NEW gone \in SUBSET Processes, Forget(gone)
    PROVE  /\ \A u \in Threads :
                IF Home[u] \in gone
                THEN pc'[u] = "idle" /\ depth'[u] = 0 /\ draft'[u] = None
                ELSE pc'[u] = pc[u] /\ depth'[u] = depth[u] /\ draft'[u] = draft[u]
           /\ stage' = IF Home[Publisher] \in gone THEN "over" ELSE stage
           /\ flock' = IF flock \in Threads /\ Home[flock] \in gone THEN None ELSE flock
           /\ \A p \in Processes :
                /\ events'[p] = IF p \in gone THEN <<>> ELSE events[p]
                /\ open'[p] = (open[p] /\ p \notin gone)
           /\ UNCHANGED <<index, bound, calls, acked>>
  <1> DEFINE threads == UNION {Dead(p) : p \in gone}
  <1>1. \A u : u \in threads <=> u \in Threads /\ Home[u] \in gone
    BY DEF Dead
  <1>2. /\ flock' = IF flock \in threads THEN None ELSE flock
        /\ pc' = [t \in Threads |-> IF t \in threads THEN "idle" ELSE pc[t]]
        /\ depth' = [t \in Threads |-> IF t \in threads THEN 0 ELSE depth[t]]
        /\ draft' = [t \in Threads |-> IF t \in threads THEN None ELSE draft[t]]
        /\ stage' = IF Publisher \in threads THEN "over" ELSE stage
        /\ open' = [p \in Processes |-> open[p] /\ p \notin gone]
        /\ events' = [p \in Processes |-> IF p \in gone THEN <<>> ELSE events[p]]
        /\ UNCHANGED <<index, bound, calls, acked>>
    BY DEF Forget
  <1> HIDE DEF threads
  <1> QED
    BY <1>1, <1>2, StoreAssumption

-----------------------------------------------------------------------------
(* The initial states and the steps.                                        *)

LEMMA InvInit == Init => IInv
  <1> SUFFICES ASSUME Init PROVE IInv
    OBVIOUS
  <1> USE StoreAssumption DEF Init
  <1>1. TypeOK
    BY DEF TypeOK, Pcs, Stages
  <1>2. AuthorityInv /\ StageInv
    BY DEF AuthorityInv, StageInv, Inside, Holding, AppendPcs, HeldStages
  <1>3. OpenInv /\ OwnEventInv /\ DistinctInv /\ FreshInv /\ FilesInv
    BY DEF OpenInv, OwnEventInv, DistinctInv, FreshInv, FilesInv, Drafting
  <1>4. AppendInv /\ AckInv
    BY DEF AppendInv, AckInv
  <1>5. MemoryIsPrefix /\ IndexIsDurable
    BY DEF MemoryIsPrefix, IndexIsDurable, IsPrefix
  <1> QED
    BY <1>1, <1>2, <1>3, <1>4, <1>5 DEF IInv
LEMMA InvStep == IInv /\ [Next]_vars => IInv'
  <1> SUFFICES ASSUME IInv, [Next]_vars PROVE IInv'
    OBVIOUS
  <1> USE StoreAssumption, AfterLabels DEF diskVars, lockVars, Goto, Memory
  <1>1. ASSUME NEW t \in Threads, CallAppend(t) PROVE IInv'
    <2> DEFINE new == [id |-> calls + 1, prev |-> None, utc |-> 0]
    <2>a. calls \in Nat /\ calls' = calls + 1 /\ calls + 1 \in Ids
      BY <1>1, Events DEF CallAppend, Ids
    <2>b. new \in Event /\ new.id = calls + 1
      BY <2>a DEF Event, Times
    <2>c. /\ draft' = [draft EXCEPT ![t] = new] /\ pc' = [pc EXCEPT ![t] = "process"]
          /\ draft \in [Threads -> Event \cup {None}] /\ pc \in [Threads -> Pcs]
          /\ pc[t] = "idle" /\ UNCHANGED <<stage, log>>
      BY <1>1 DEF CallAppend, IInv, TypeOK
    <2> HIDE DEF new
    <2>1. TypeOK'
      <3>1. log' \in Seq(Event) /\ synced' \in 0 .. Len(log')
        BY <1>1 DEF IInv, TypeOK, Pcs, Stages, CallAppend
      <3>2. index' \in 0 .. MaxCalls /\ bound' \in Ids \cup {None}
        BY <1>1 DEF IInv, TypeOK, Pcs, Stages, CallAppend
      <3>3. /\ processLock' \in [Processes -> Threads \cup {None}] /\ flock' \in Threads \cup {None}
             /\ writerLock' \in [Processes -> Threads \cup {None}] /\ open' \in [Processes -> BOOLEAN]
        BY <1>1 DEF IInv, TypeOK, Pcs, Stages, CallAppend
      <3>4. events' \in [Processes -> Seq(Event)]
        BY <1>1 DEF IInv, TypeOK, Pcs, Stages, CallAppend
      <3>5. pc' \in [Threads -> Pcs] /\ stage' \in Stages
        BY <1>1 DEF IInv, TypeOK, Pcs, Stages, CallAppend
      <3>6. depth' \in [Threads -> 0 .. 2]
        BY <1>1 DEF IInv, TypeOK, Pcs, Stages, CallAppend
      <3>7. draft' \in [Threads -> Event \cup {None}]
        BY <2>b, <2>c
      <3>8. calls' \in 0 .. MaxCalls /\ crashes' \in 0 .. MaxCrashes /\ acked' \subseteq Ids
        BY <1>1 DEF IInv, TypeOK, Pcs, Stages, CallAppend
      <3> QED
        BY <3>1, <3>2, <3>3, <3>4, <3>5, <3>6, <3>7, <3>8 DEF TypeOK
    <2>2. AuthorityInv'
      BY <1>1 DEF IInv, AuthorityInv, StageInv, Inside, Holding, AppendPcs,
           HeldStages, TypeOK, CallAppend
    <2>3. StageInv'
      BY <1>1 DEF IInv, AuthorityInv, StageInv, Inside, Holding, AppendPcs,
           HeldStages, TypeOK, CallAppend
    <2>4. OpenInv'
      BY <1>1 DEF IInv, OpenInv, TypeOK, CallAppend
    <2>5. OwnEventInv'
      <3> SUFFICES ASSUME NEW u \in Threads, Drafting(u)'
                   PROVE  draft'[u] \in Event /\ draft'[u].id <= calls'
        BY DEF OwnEventInv
      <3>1. CASE u = t
        BY <3>1, <2>a, <2>b, <2>c
      <3>2. CASE u # t
        <4>1. Drafting(u) /\ draft'[u] = draft[u]
          BY <3>2, <2>c DEF Drafting
        <4>2. draft[u] \in Event /\ draft[u].id <= calls /\ draft[u].id \in Nat
          BY <4>1 DEF IInv, OwnEventInv, Event, Ids
        <4> QED
          BY <4>1, <4>2, <2>a
      <3> QED
        BY <3>1, <3>2
    <2>6. DistinctInv'
      <3>1. ASSUME NEW u \in Threads, u # t, Drafting(u)'
            PROVE  Drafting(u) /\ draft'[u] = draft[u] /\ draft[u].id # calls + 1
        <4>1. Drafting(u) /\ draft'[u] = draft[u]
          BY <3>1, <2>c DEF Drafting
        <4>2. draft[u].id <= calls /\ draft[u].id \in Nat
          BY <4>1 DEF IInv, OwnEventInv, Event, Ids
        <4> QED
          BY <4>1, <4>2, <2>a
      <3>2. draft'[t].id = calls + 1
        BY <2>b, <2>c
      <3> QED
        BY <3>1, <3>2 DEF IInv, DistinctInv
    <2>7. FreshInv'
      <3> SUFFICES ASSUME NEW u \in Threads, Drafting(u)', pc'[u] \in Unlinked,
                          NEW i \in 1 .. Len(log)
                   PROVE  log[i].id # draft'[u].id
        BY <2>c DEF FreshInv
      <3>1. CASE u = t
        <4>1. log[i].id <= calls /\ log[i].id \in Nat
          BY Events DEF IInv, FilesInv, Ids
        <4> QED
          BY <3>1, <4>1, <2>a, <2>b, <2>c
      <3>2. CASE u # t
        <4>1. Drafting(u) /\ draft'[u] = draft[u] /\ pc[u] \in Unlinked
          BY <3>2, <2>c DEF Drafting
        <4> QED
          BY <4>1 DEF IInv, FreshInv
      <3> QED
        BY <3>1, <3>2
    <2>8. FilesInv'
      <3>1. \A i \in 1 .. Len(log) : log[i].id <= calls /\ log[i].id \in Nat
        BY Events DEF IInv, FilesInv, Ids
      <3> QED
        BY <3>1, <2>a, <2>c DEF IInv, FilesInv
    <2>9. AppendInv'
      <3>1. UNCHANGED <<synced, events>>
        BY <1>1 DEF CallAppend
      <3> QED
        BY <3>1, <2>c DEF IInv, AppendInv, Extends
    <2>10. AckInv'
      BY <1>1 DEF IInv, AckInv, TypeOK, CallAppend
    <2>11. MemoryIsPrefix'
      BY <1>1 DEF IInv, MemoryIsPrefix, TypeOK, IsPrefix, CallAppend
    <2>12. IndexIsDurable'
      BY <1>1 DEF IInv, IndexIsDurable, TypeOK, CallAppend
    <2> QED
      BY <2>1, <2>2, <2>3, <2>4, <2>5, <2>6, <2>7, <2>8, <2>9, <2>10, <2>11,
           <2>12 DEF IInv
  <1>2. ASSUME NEW t \in Threads, TakeProcessLock(t) PROVE IInv'
    <2>a. depth[t] = IF Holding(t) THEN 1 ELSE 0
      BY <1>2 DEF IInv, AuthorityInv, AppendPcs, TakeProcessLock
    <2>b. pc' = [pc EXCEPT ![t] = IF Holding(t) THEN "writer" ELSE "flock"]
      <3>1. (IF depth[t] > 0 THEN After("flock") ELSE "flock") = (IF Holding(t) THEN "writer" ELSE "flock")
        BY <2>a
      <3> QED
        BY <1>2, <3>1 DEF TakeProcessLock
    <2>1. TypeOK'
      <3>1. log' \in Seq(Event) /\ synced' \in 0 .. Len(log')
        BY <1>2 DEF IInv, TypeOK, Pcs, Stages, TakeProcessLock
      <3>2. index' \in 0 .. MaxCalls /\ bound' \in Ids \cup {None}
        BY <1>2 DEF IInv, TypeOK, Pcs, Stages, TakeProcessLock
      <3>3. /\ processLock' \in [Processes -> Threads \cup {None}] /\ flock' \in Threads \cup {None}
             /\ writerLock' \in [Processes -> Threads \cup {None}] /\ open' \in [Processes -> BOOLEAN]
        BY <1>2 DEF IInv, TypeOK, Pcs, Stages, TakeProcessLock
      <3>4. events' \in [Processes -> Seq(Event)]
        BY <1>2 DEF IInv, TypeOK, Pcs, Stages, TakeProcessLock
      <3>5. pc' \in [Threads -> Pcs] /\ stage' \in Stages
        BY <1>2, <2>b DEF IInv, TypeOK, Pcs, TakeProcessLock
      <3>6. depth' \in [Threads -> 0 .. 2]
        <4>1. depth[t] + 1 \in 0 .. 2 /\ depth' = [depth EXCEPT ![t] = depth[t] + 1]
          BY <1>2, <2>a DEF TakeProcessLock
        <4> QED
          BY <4>1 DEF IInv, TypeOK
      <3>7. draft' \in [Threads -> Event \cup {None}]
        BY <1>2 DEF IInv, TypeOK, Pcs, Stages, TakeProcessLock
      <3>8. calls' \in 0 .. MaxCalls /\ crashes' \in 0 .. MaxCrashes /\ acked' \subseteq Ids
        BY <1>2 DEF IInv, TypeOK, Pcs, Stages, TakeProcessLock
      <3> QED
        BY <3>1, <3>2, <3>3, <3>4, <3>5, <3>6, <3>7, <3>8 DEF TypeOK
    <2>2. AuthorityInv'
      BY <1>2 DEF IInv, AuthorityInv, StageInv, Inside, Holding, AppendPcs,
           HeldStages, TypeOK, TakeProcessLock
    <2>3. StageInv'
      <3>1. UNCHANGED <<stage, log>> /\ pc[t] = "process" /\ pc \in [Threads -> Pcs]
        BY <1>2 DEF TakeProcessLock, IInv, TypeOK
      <3> QED
        BY <2>b, <3>1 DEF IInv, StageInv, Holding, HeldStages
    <2>4. OpenInv'
      BY <1>2 DEF IInv, OpenInv, TypeOK, TakeProcessLock
    <2>5. OwnEventInv'
      BY <1>2 DEF IInv, OwnEventInv, Drafting, StageInv, TypeOK,
           TakeProcessLock
    <2>6. DistinctInv'
      BY <1>2 DEF IInv, DistinctInv, Drafting, StageInv, TypeOK,
           TakeProcessLock
    <2>7. FreshInv'
      BY <1>2 DEF IInv, FreshInv, Unlinked, Drafting, StageInv, TypeOK,
           TakeProcessLock
    <2>8. FilesInv'
      BY <1>2 DEF IInv, FilesInv, TypeOK, TakeProcessLock
    <2>9. AppendInv'
      BY <1>2 DEF IInv, AppendInv, AuthorityInv, Inside, AppendPcs, Extends,
           TypeOK, TakeProcessLock
    <2>10. AckInv'
      BY <1>2 DEF IInv, AckInv, TypeOK, TakeProcessLock
    <2>11. MemoryIsPrefix'
      BY <1>2 DEF IInv, MemoryIsPrefix, TypeOK, IsPrefix, TakeProcessLock
    <2>12. IndexIsDurable'
      BY <1>2 DEF IInv, IndexIsDurable, TypeOK, TakeProcessLock
    <2> QED
      BY <2>1, <2>2, <2>3, <2>4, <2>5, <2>6, <2>7, <2>8, <2>9, <2>10, <2>11,
           <2>12 DEF IInv
  <1>3. ASSUME NEW t \in Threads, TakeFlock(t) PROVE IInv'
    <2>1. TypeOK'
      BY <1>3 DEF IInv, TypeOK, Pcs, Stages, Times, TakeFlock, Publishing
    <2>2. AuthorityInv'
      BY <1>3 DEF IInv, AuthorityInv, StageInv, Inside, Holding, AppendPcs,
           HeldStages, TypeOK, TakeFlock, Publishing
    <2>3. StageInv'
      BY <1>3 DEF IInv, AuthorityInv, StageInv, Inside, Holding, AppendPcs,
           HeldStages, TypeOK, TakeFlock, Publishing
    <2>4. OpenInv'
      BY <1>3 DEF IInv, OpenInv, TypeOK, TakeFlock, Publishing
    <2>5. OwnEventInv'
      BY <1>3 DEF IInv, OwnEventInv, Drafting, StageInv, TypeOK, TakeFlock,
           Publishing
    <2>6. DistinctInv'
      BY <1>3 DEF IInv, DistinctInv, Drafting, StageInv, TypeOK, TakeFlock,
           Publishing
    <2>7. FreshInv'
      BY <1>3 DEF IInv, FreshInv, Unlinked, Drafting, StageInv, TypeOK,
           TakeFlock, Publishing
    <2>8. FilesInv'
      BY <1>3 DEF IInv, FilesInv, TypeOK, TakeFlock, Publishing
    <2>9. AppendInv'
      BY <1>3 DEF IInv, AppendInv, AuthorityInv, Inside, AppendPcs, Extends,
           TypeOK, TakeFlock, Publishing
    <2>10. AckInv'
      BY <1>3 DEF IInv, AckInv, TypeOK, TakeFlock, Publishing
    <2>11. MemoryIsPrefix'
      BY <1>3 DEF IInv, MemoryIsPrefix, TypeOK, IsPrefix, TakeFlock,
           Publishing
    <2>12. IndexIsDurable'
      BY <1>3 DEF IInv, IndexIsDurable, TypeOK, TakeFlock, Publishing
    <2> QED
      BY <2>1, <2>2, <2>3, <2>4, <2>5, <2>6, <2>7, <2>8, <2>9, <2>10, <2>11,
           <2>12 DEF IInv
  <1>4. ASSUME NEW t \in Threads, TakeWriterLock(t) PROVE IInv'
    <2>1. TypeOK'
      BY <1>4 DEF IInv, TypeOK, Pcs, Stages, Times, TakeWriterLock
    <2>2. AuthorityInv'
      BY <1>4 DEF IInv, AuthorityInv, StageInv, Inside, Holding, AppendPcs,
           HeldStages, TypeOK, TakeWriterLock
    <2>3. StageInv'
      BY <1>4 DEF IInv, AuthorityInv, StageInv, Inside, Holding, AppendPcs,
           HeldStages, TypeOK, TakeWriterLock
    <2>4. OpenInv'
      BY <1>4 DEF IInv, OpenInv, TypeOK, TakeWriterLock
    <2>5. OwnEventInv'
      BY <1>4 DEF IInv, OwnEventInv, Drafting, StageInv, TypeOK,
           TakeWriterLock
    <2>6. DistinctInv'
      BY <1>4 DEF IInv, DistinctInv, Drafting, StageInv, TypeOK,
           TakeWriterLock
    <2>7. FreshInv'
      BY <1>4 DEF IInv, FreshInv, Unlinked, Drafting, StageInv, TypeOK,
           TakeWriterLock
    <2>8. FilesInv'
      BY <1>4 DEF IInv, FilesInv, TypeOK, TakeWriterLock
    <2>9. AppendInv'
      BY <1>4 DEF IInv, AppendInv, AuthorityInv, Inside, AppendPcs, Extends,
           TypeOK, TakeWriterLock
    <2>10. AckInv'
      BY <1>4 DEF IInv, AckInv, TypeOK, TakeWriterLock
    <2>11. MemoryIsPrefix'
      BY <1>4 DEF IInv, MemoryIsPrefix, TypeOK, IsPrefix, TakeWriterLock
    <2>12. IndexIsDurable'
      BY <1>4 DEF IInv, IndexIsDurable, TypeOK, TakeWriterLock
    <2> QED
      BY <2>1, <2>2, <2>3, <2>4, <2>5, <2>6, <2>7, <2>8, <2>9, <2>10, <2>11,
           <2>12 DEF IInv
  <1>5. ASSUME NEW t \in Threads, Build(t) PROVE IInv'
    <2> DEFINE prev == IF Memory(t) = <<>> THEN None ELSE Last(Memory(t)).id
    <2>a. PICK time \in Times :
            /\ draft' = [draft EXCEPT ![t].prev = prev, ![t].utc = time]
            /\ pc' = [pc EXCEPT ![t] = IF NotBackwards(t, time) THEN "link" ELSE "release"]
      BY <1>5 DEF Build
    <2> DEFINE new == [id |-> draft[t].id, prev |-> prev, utc |-> time]
    <2>b. /\ draft[t] \in Event /\ Memory(t) \in Seq(Event) /\ Drafting(t)
          /\ draft \in [Threads -> Event \cup {None}] /\ pc \in [Threads -> Pcs]
          /\ pc[t] = "build" /\ UNCHANGED <<stage, log, synced, events, calls>>
      BY <1>5, Events DEF Build, AppendPcs, IInv, TypeOK
    <2>c. Memory(t) # <<>> => Last(Memory(t)) \in Event /\ Last(Memory(t)) = Memory(t)[Len(Memory(t))]
      BY <2>b DEF Last
    <2>d. prev \in Ids \cup {None}
      BY <2>c DEF Event
    <2>e. new \in Event /\ new.id = draft[t].id
      <3> HIDE DEF prev
      <3> QED
        BY <2>b, <2>d DEF Event
    <2>f. draft' = [draft EXCEPT ![t] = new]
      <3> HIDE DEF prev
      <3>1. draft' = [u \in Threads |-> IF u = t THEN [draft[t] EXCEPT !.prev = prev, !.utc = time]
                                       ELSE draft[u]]
        BY <2>a, <2>b
      <3>2. [draft[t] EXCEPT !.prev = prev, !.utc = time] = new
        <4>1. PICK i \in Ids, q \in Ids \cup {None}, x \in Times :
                 draft[t] = [id |-> i, prev |-> q, utc |-> x]
          BY <2>b DEF Event
        <4>2. draft[t].id = i
          BY <4>1
        <4>3. [draft[t] EXCEPT !.prev = prev] = [id |-> i, prev |-> prev, utc |-> x]
          BY <4>1
        <4>4. [[id |-> i, prev |-> prev, utc |-> x] EXCEPT !.utc = time] =
                  [id |-> i, prev |-> prev, utc |-> time]
          OBVIOUS
        <4> QED
          BY ONLY <4>2, <4>3, <4>4, Zenon DEF new
      <3> HIDE DEF new
      <3> QED
        BY <2>b, <3>1, <3>2
    <2>g. NotBackwards(t, time) => Extends(new, Memory(t))
      BY <2>b, <2>c DEF NotBackwards, Extends
    <2> HIDE DEF new, prev
    <2>1. TypeOK'
      <3>1. log' \in Seq(Event) /\ synced' \in 0 .. Len(log')
        BY <1>5 DEF IInv, TypeOK, Pcs, Stages, Build, NotBackwards
      <3>2. index' \in 0 .. MaxCalls /\ bound' \in Ids \cup {None}
        BY <1>5 DEF IInv, TypeOK, Pcs, Stages, Build, NotBackwards
      <3>3. /\ processLock' \in [Processes -> Threads \cup {None}] /\ flock' \in Threads \cup {None}
             /\ writerLock' \in [Processes -> Threads \cup {None}] /\ open' \in [Processes -> BOOLEAN]
        BY <1>5 DEF IInv, TypeOK, Pcs, Stages, Build, NotBackwards
      <3>4. events' \in [Processes -> Seq(Event)]
        BY <1>5 DEF IInv, TypeOK, Pcs, Stages, Build, NotBackwards
      <3>5. pc' \in [Threads -> Pcs] /\ stage' \in Stages
        BY <2>a, <2>b DEF IInv, TypeOK, Pcs
      <3>6. depth' \in [Threads -> 0 .. 2]
        BY <1>5 DEF IInv, TypeOK, Pcs, Stages, Build, NotBackwards
      <3>7. draft' \in [Threads -> Event \cup {None}]
        BY <2>b, <2>e, <2>f
      <3>8. calls' \in 0 .. MaxCalls /\ crashes' \in 0 .. MaxCrashes /\ acked' \subseteq Ids
        BY <1>5 DEF IInv, TypeOK, Pcs, Stages, Build, NotBackwards
      <3> QED
        BY <3>1, <3>2, <3>3, <3>4, <3>5, <3>6, <3>7, <3>8 DEF TypeOK
    <2>2. AuthorityInv'
      BY <1>5 DEF IInv, AuthorityInv, StageInv, Inside, Holding, AppendPcs,
           HeldStages, TypeOK, Build, NotBackwards
    <2>3. StageInv'
      BY <1>5 DEF IInv, AuthorityInv, StageInv, Inside, Holding, AppendPcs,
           HeldStages, TypeOK, Build, NotBackwards
    <2>4. OpenInv'
      BY <1>5 DEF IInv, OpenInv, TypeOK, Build, NotBackwards
    <2>5. OwnEventInv'
      <3> SUFFICES ASSUME NEW u \in Threads, Drafting(u)'
                   PROVE  draft'[u] \in Event /\ draft'[u].id <= calls'
        BY DEF OwnEventInv
      <3>1. Drafting(u)
        BY <2>a, <2>b DEF Drafting
      <3> QED
        BY <3>1, <2>b, <2>e, <2>f DEF IInv, OwnEventInv
    <2>6. DistinctInv'
      <3>1. \A u \in Threads : (Drafting(u)' => Drafting(u)) /\ draft'[u].id = draft[u].id
        BY <2>a, <2>b, <2>e, <2>f DEF Drafting
      <3> QED
        BY <3>1 DEF IInv, DistinctInv
    <2>7. FreshInv'
      <3>1. \A u \in Threads :
                /\ draft'[u].id = draft[u].id
                /\ Drafting(u)' /\ pc'[u] \in Unlinked => Drafting(u) /\ pc[u] \in Unlinked
        BY <2>a, <2>b, <2>e, <2>f DEF Drafting, Unlinked
      <3> QED
        BY <3>1, <2>b DEF IInv, FreshInv
    <2>8. FilesInv'
      BY <1>5 DEF IInv, FilesInv, TypeOK, Build, NotBackwards
    <2>9. AppendInv'
      <3> SUFFICES ASSUME NEW u \in Threads
            PROVE  (/\ pc[u] = "link" => Extends(draft[u], Memory(u))
                    /\ pc[u] \in {"sync", "remember"} => log = Append(Memory(u), draft[u])
                    /\ pc[u] \in {"remember", "index"} => synced = Len(log)
                    /\ pc[u] = "index" =>
                          Memory(u) = log /\ log # <<>> /\ log[Len(log)] = draft[u])'
        BY DEF AppendInv
      <3>1. CASE u = t
        <4>1. draft'[t] = new /\ pc'[t] \in {"link", "release"}
          BY <2>a, <2>b, <2>f
        <4>2. pc'[t] = "link" => Extends(new, Memory(t))
          BY <2>a, <2>b, <2>g
        <4> QED
          BY <3>1, <4>1, <4>2, <2>b DEF Extends
      <3>2. CASE u # t
        <4>1. UNCHANGED <<draft[u], pc[u], log, synced, events>>
          BY <3>2, <2>a, <2>b, <2>f
        <4> QED
          BY <4>1 DEF IInv, AppendInv, Extends
      <3> QED
        BY <3>1, <3>2
    <2>10. AckInv'
      BY <1>5 DEF IInv, AckInv, TypeOK, Build, NotBackwards
    <2>11. MemoryIsPrefix'
      BY <1>5 DEF IInv, MemoryIsPrefix, TypeOK, IsPrefix, Build, NotBackwards
    <2>12. IndexIsDurable'
      BY <1>5 DEF IInv, IndexIsDurable, TypeOK, Build, NotBackwards
    <2> QED
      BY <2>1, <2>2, <2>3, <2>4, <2>5, <2>6, <2>7, <2>8, <2>9, <2>10, <2>11,
           <2>12 DEF IInv
  <1>6. ASSUME NEW t \in Threads, Link(t) PROVE IInv'
    <2>a. /\ log \in Seq(Event) /\ Memory(t) \in Seq(Event) /\ Drafting(t)
          /\ draft[t] \in Event /\ draft[t].id \in Ids /\ Len(log) \in Nat /\ synced \in Nat
          /\ pc[t] = "link" /\ Home[t] \in Processes /\ pc \in [Threads -> Pcs]
      BY <1>6, Events DEF Link, AppendPcs, IInv, TypeOK
    <2>b. UNCHANGED <<synced, index, bound, lockVars, open, events, draft, stage, calls,
                      crashes, acked>>
      BY <1>6 DEF Link
    <2>c. \/ log' = Append(log, draft[t]) /\ pc' = [pc EXCEPT ![t] = "sync"] /\ Memory(t) = log
          \/ log' = log /\ pc' = [pc EXCEPT ![t] = "release"]
      BY <1>6, LinkAppends
    <2>d. /\ log' \in Seq(Event) /\ Len(log') \in Nat /\ Len(log) <= Len(log')
          /\ \A i \in 1 .. Len(log) : log'[i] = log[i]
          /\ \A i \in 1 .. Len(log') :
                i \in 1 .. Len(log) \/ (i = Len(log) + 1 /\ log'[i] = draft[t])
      <3>1. CASE log' = Append(log, draft[t])
        BY <3>1, <2>a
      <3>2. CASE log' = log
        BY <3>2, <2>a
      <3> QED
        BY <2>c, <3>1, <3>2
    <2>e. ASSUME NEW u \in Threads, u # t PROVE pc'[u] = pc[u] /\ ~Inside(u)
      <3>1. Inside(t)
        BY <2>a DEF Inside, AppendPcs
      <3> QED
        BY <2>a, <2>c, <2>e, <3>1, OneInside
    <2>f. \A i \in 1 .. Len(log) : log[i].id # draft[t].id
      BY <2>a DEF IInv, FreshInv, Unlinked
    <2>1. TypeOK'
      <3>1. log' \in Seq(Event) /\ synced' \in 0 .. Len(log')
        BY <2>a, <2>b, <2>d DEF IInv, TypeOK
      <3>2. index' \in 0 .. MaxCalls /\ bound' \in Ids \cup {None}
        BY <1>6 DEF IInv, TypeOK, Pcs, Stages, Link
      <3>3. /\ processLock' \in [Processes -> Threads \cup {None}] /\ flock' \in Threads \cup {None}
             /\ writerLock' \in [Processes -> Threads \cup {None}] /\ open' \in [Processes -> BOOLEAN]
        BY <1>6 DEF IInv, TypeOK, Pcs, Stages, Link
      <3>4. events' \in [Processes -> Seq(Event)]
        BY <1>6 DEF IInv, TypeOK, Pcs, Stages, Link
      <3>5. pc' \in [Threads -> Pcs] /\ stage' \in Stages
        BY <2>b, <2>c DEF IInv, TypeOK, Pcs
      <3>6. depth' \in [Threads -> 0 .. 2]
        BY <1>6 DEF IInv, TypeOK, Pcs, Stages, Link
      <3>7. draft' \in [Threads -> Event \cup {None}]
        BY <1>6 DEF IInv, TypeOK, Pcs, Stages, Link
      <3>8. calls' \in 0 .. MaxCalls /\ crashes' \in 0 .. MaxCrashes /\ acked' \subseteq Ids
        BY <1>6 DEF IInv, TypeOK, Pcs, Stages, Link
      <3> QED
        BY <3>1, <3>2, <3>3, <3>4, <3>5, <3>6, <3>7, <3>8 DEF TypeOK
    <2>2. AuthorityInv'
      BY <1>6 DEF IInv, AuthorityInv, StageInv, Inside, Holding, AppendPcs,
           HeldStages, TypeOK, Link
    <2>3. StageInv'
      <3>1. t = Publisher => stage \notin {"read", "recheck", "publish", "locking"}
        BY <2>a DEF IInv, StageInv
      <3>2. t # Publisher => stage # "publish"
        BY <2>e DEF Inside, Holding, HeldStages
      <3> QED
        BY <3>1, <3>2, <2>a, <2>b, <2>c, <2>e DEF IInv, StageInv
    <2>4. OpenInv'
      BY <1>6 DEF IInv, OpenInv, TypeOK, Link
    <2>5. OwnEventInv'
      BY <1>6 DEF IInv, OwnEventInv, Drafting, StageInv, TypeOK, Link
    <2>6. DistinctInv'
      <3>1. ASSUME NEW u \in Threads, Drafting(u)' PROVE Drafting(u) /\ draft'[u] = draft[u]
        BY <1>6, <3>1 DEF Drafting, Link, IInv, TypeOK
      <3> QED
        BY <3>1 DEF IInv, DistinctInv
    <2>7. FreshInv'
      <3> SUFFICES ASSUME NEW u \in Threads, Drafting(u)', pc'[u] \in Unlinked,
                          NEW i \in 1 .. Len(log')
                   PROVE  log'[i].id # draft'[u].id
        BY DEF FreshInv
      <3>1. u # t
        BY <2>a, <2>c DEF Unlinked
      <3>2. Drafting(u) /\ pc[u] \in Unlinked /\ draft'[u] = draft[u]
        BY <3>1, <2>e, <2>b DEF Drafting
      <3>3. CASE i \in 1 .. Len(log)
        BY <3>2, <3>3, <2>d DEF IInv, FreshInv
      <3>4. CASE log'[i] = draft[t]
        BY <3>1, <3>2, <3>4, <2>a DEF IInv, DistinctInv
      <3> QED
        BY <3>3, <3>4, <2>d
    <2>8. FilesInv'
      <3>1. draft[t].id <= calls
        BY <2>a DEF IInv, OwnEventInv
      <3>2. \A i \in 1 .. Len(log') : log'[i].id <= calls'
        BY <3>1, <2>b, <2>d DEF IInv, FilesInv
      <3>3. ASSUME NEW i \in 1 .. Len(log'), NEW j \in 1 .. Len(log'), log'[i].id = log'[j].id
            PROVE  i = j
        BY <3>3, <2>d, <2>f DEF IInv, FilesInv
      <3> QED
        BY <3>2, <3>3 DEF FilesInv
    <2>9. AppendInv'
      <3>1. ASSUME NEW u \in Threads, pc'[u] \in AppendPcs PROVE u = t
        BY <3>1, <2>e DEF Inside
      <3>2. pc'[t] \in {"sync", "release"} /\ (pc'[t] = "sync" => log' = Append(Memory(t), draft[t]))
        BY <2>a, <2>c
      <3> QED
        BY <3>1, <3>2, <2>b DEF AppendInv, AppendPcs
    <2>10. AckInv'
      <3>1. synced <= Len(log)
        BY DEF IInv, TypeOK
      <3>2. \A i \in 1 .. synced : log'[i] = log[i]
        BY <3>1, <2>a, <2>d
      <3> QED
        BY <3>2, <2>b DEF IInv, AckInv
    <2>11. MemoryIsPrefix'
      <3>1. \A p \in Processes :
                events'[p] \in Seq(Event) /\ Len(events'[p]) <= Len(log)
                /\ \A i \in 1 .. Len(events'[p]) : events'[p][i] = log[i]
        BY <2>b, MemoryElements DEF IInv, TypeOK
      <3>2. \A p \in Processes :
                Len(events'[p]) <= Len(log')
                /\ \A i \in 1 .. Len(events'[p]) : events'[p][i] = log'[i]
        <4> TAKE p \in Processes
        <4>1. events'[p] \in Seq(Event) /\ Len(events'[p]) \in Nat /\ Len(events'[p]) <= Len(log)
          BY <3>1
        <4>2. ASSUME NEW i \in 1 .. Len(events'[p]) PROVE events'[p][i] = log'[i]
          <5>1. i \in 1 .. Len(log)
            BY <4>1, <2>a
          <5> QED
            BY <3>1, <5>1, <2>d
        <4> QED
          BY <4>1, <4>2, <2>a, <2>d
      <3> QED
        BY <2>1, <3>2, MemoryElementsNext
    <2>12. IndexIsDurable'
      BY <1>6 DEF IInv, IndexIsDurable, TypeOK, Link
    <2> QED
      BY <2>1, <2>2, <2>3, <2>4, <2>5, <2>6, <2>7, <2>8, <2>9, <2>10, <2>11,
           <2>12 DEF IInv
  <1>7. ASSUME NEW t \in Threads, SyncEvents(t) PROVE IInv'
    <2>1. TypeOK'
      <3>1. log' \in Seq(Event) /\ synced' \in 0 .. Len(log')
        BY <1>7 DEF IInv, TypeOK, Pcs, Stages, SyncEvents
      <3>2. index' \in 0 .. MaxCalls /\ bound' \in Ids \cup {None}
        BY <1>7 DEF IInv, TypeOK, Pcs, Stages, SyncEvents
      <3>3. /\ processLock' \in [Processes -> Threads \cup {None}] /\ flock' \in Threads \cup {None}
             /\ writerLock' \in [Processes -> Threads \cup {None}] /\ open' \in [Processes -> BOOLEAN]
        BY <1>7 DEF IInv, TypeOK, Pcs, Stages, SyncEvents
      <3>4. events' \in [Processes -> Seq(Event)]
        BY <1>7 DEF IInv, TypeOK, Pcs, Stages, SyncEvents
      <3>5. pc' \in [Threads -> Pcs] /\ stage' \in Stages
        BY <1>7 DEF IInv, TypeOK, Pcs, Stages, SyncEvents
      <3>6. depth' \in [Threads -> 0 .. 2]
        BY <1>7 DEF IInv, TypeOK, Pcs, Stages, SyncEvents
      <3>7. draft' \in [Threads -> Event \cup {None}]
        BY <1>7 DEF IInv, TypeOK, Pcs, Stages, SyncEvents
      <3>8. calls' \in 0 .. MaxCalls /\ crashes' \in 0 .. MaxCrashes /\ acked' \subseteq Ids
        BY <1>7 DEF IInv, TypeOK, Pcs, Stages, SyncEvents
      <3> QED
        BY <3>1, <3>2, <3>3, <3>4, <3>5, <3>6, <3>7, <3>8 DEF TypeOK
    <2>2. AuthorityInv'
      BY <1>7 DEF IInv, AuthorityInv, StageInv, Inside, Holding, AppendPcs,
           HeldStages, TypeOK, SyncEvents
    <2>3. StageInv'
      BY <1>7 DEF IInv, AuthorityInv, StageInv, Inside, Holding, AppendPcs,
           HeldStages, TypeOK, SyncEvents
    <2>4. OpenInv'
      BY <1>7 DEF IInv, OpenInv, TypeOK, SyncEvents
    <2>5. OwnEventInv'
      BY <1>7 DEF IInv, OwnEventInv, Drafting, StageInv, TypeOK, SyncEvents
    <2>6. DistinctInv'
      <3>1. ASSUME NEW u \in Threads, Drafting(u)' PROVE Drafting(u) /\ draft'[u] = draft[u]
        BY <1>7, <3>1 DEF Drafting, SyncEvents, IInv, TypeOK
      <3> QED
        BY <3>1 DEF IInv, DistinctInv
    <2>7. FreshInv'
      BY <1>7 DEF IInv, FreshInv, Unlinked, Drafting, StageInv, TypeOK,
           SyncEvents
    <2>8. FilesInv'
      BY <1>7 DEF IInv, FilesInv, TypeOK, SyncEvents
    <2>9. AppendInv'
      BY <1>7 DEF IInv, AppendInv, AuthorityInv, Inside, AppendPcs, Extends,
           TypeOK, SyncEvents
    <2>10. AckInv'
      BY <1>7 DEF IInv, AckInv, TypeOK, SyncEvents
    <2>11. MemoryIsPrefix'
      BY <1>7 DEF IInv, MemoryIsPrefix, TypeOK, IsPrefix, SyncEvents
    <2>12. IndexIsDurable'
      BY <1>7 DEF IInv, IndexIsDurable, TypeOK, SyncEvents
    <2> QED
      BY <2>1, <2>2, <2>3, <2>4, <2>5, <2>6, <2>7, <2>8, <2>9, <2>10, <2>11,
           <2>12 DEF IInv
  <1>8. ASSUME NEW t \in Threads, Remember(t) PROVE IInv'
    <2>a. /\ Memory(t) \in Seq(Event) /\ draft[t] \in Event /\ Home[t] \in Processes
          /\ log \in Seq(Event) /\ events \in [Processes -> Seq(Event)]
      BY <1>8, Events DEF Remember, AppendPcs, IInv, TypeOK
    <2>b. log = Append(Memory(t), draft[t])
      BY <1>8 DEF Remember, IInv, AppendInv
    <2>c. events' = [events EXCEPT ![Home[t]] = log] /\ log' = log
      BY <1>8, <2>a, <2>b DEF Remember
    <2>1. TypeOK'
      <3>1. log' \in Seq(Event) /\ synced' \in 0 .. Len(log')
        BY <1>8 DEF IInv, TypeOK, Pcs, Stages, Remember
      <3>2. index' \in 0 .. MaxCalls /\ bound' \in Ids \cup {None}
        BY <1>8 DEF IInv, TypeOK, Pcs, Stages, Remember
      <3>3. /\ processLock' \in [Processes -> Threads \cup {None}] /\ flock' \in Threads \cup {None}
             /\ writerLock' \in [Processes -> Threads \cup {None}] /\ open' \in [Processes -> BOOLEAN]
        BY <1>8 DEF IInv, TypeOK, Pcs, Stages, Remember
      <3>4. events' \in [Processes -> Seq(Event)]
        BY <2>a, <2>c
      <3>5. pc' \in [Threads -> Pcs] /\ stage' \in Stages
        BY <1>8 DEF IInv, TypeOK, Pcs, Stages, Remember
      <3>6. depth' \in [Threads -> 0 .. 2]
        BY <1>8 DEF IInv, TypeOK, Pcs, Stages, Remember
      <3>7. draft' \in [Threads -> Event \cup {None}]
        BY <1>8 DEF IInv, TypeOK, Pcs, Stages, Remember
      <3>8. calls' \in 0 .. MaxCalls /\ crashes' \in 0 .. MaxCrashes /\ acked' \subseteq Ids
        BY <1>8 DEF IInv, TypeOK, Pcs, Stages, Remember
      <3> QED
        BY <3>1, <3>2, <3>3, <3>4, <3>5, <3>6, <3>7, <3>8 DEF TypeOK
    <2>2. AuthorityInv'
      BY <1>8 DEF IInv, AuthorityInv, StageInv, Inside, Holding, AppendPcs,
           HeldStages, TypeOK, Remember
    <2>3. StageInv'
      BY <1>8 DEF IInv, AuthorityInv, StageInv, Inside, Holding, AppendPcs,
           HeldStages, TypeOK, Remember
    <2>4. OpenInv'
      BY <1>8 DEF IInv, OpenInv, TypeOK, Remember
    <2>5. OwnEventInv'
      BY <1>8 DEF IInv, OwnEventInv, Drafting, StageInv, TypeOK, Remember
    <2>6. DistinctInv'
      BY <1>8 DEF IInv, DistinctInv, Drafting, StageInv, TypeOK, Remember
    <2>7. FreshInv'
      BY <1>8 DEF IInv, FreshInv, Unlinked, Drafting, StageInv, TypeOK,
           Remember
    <2>8. FilesInv'
      BY <1>8 DEF IInv, FilesInv, TypeOK, Remember
    <2>9. AppendInv'
      BY <1>8 DEF IInv, AppendInv, AuthorityInv, Inside, AppendPcs, Extends,
           TypeOK, Remember
    <2>10. AckInv'
      BY <1>8 DEF IInv, AckInv, TypeOK, Remember
    <2>11. MemoryIsPrefix'
      <3>1. \A p \in Processes :
                Len(events[p]) <= Len(log) /\ \A i \in 1 .. Len(events[p]) : events[p][i] = log[i]
        BY MemoryElements DEF IInv
      <3>2. \A p \in Processes : events'[p] = IF p = Home[t] THEN log ELSE events[p]
        BY <2>a, <2>c
      <3>3. Len(log) <= Len(log)
        BY <2>a
      <3>4. \A p \in Processes :
                Len(events'[p]) <= Len(log') /\ \A i \in 1 .. Len(events'[p]) : events'[p][i] = log'[i]
        BY <3>1, <3>2, <3>3, <2>c
      <3> QED
        BY <2>1, <3>4, MemoryElementsNext
    <2>12. IndexIsDurable'
      BY <1>8 DEF IInv, IndexIsDurable, TypeOK, Remember
    <2> QED
      BY <2>1, <2>2, <2>3, <2>4, <2>5, <2>6, <2>7, <2>8, <2>9, <2>10, <2>11,
           <2>12 DEF IInv
  <1>9. ASSUME NEW t \in Threads, UpdateIndex(t) PROVE IInv'
    <2>a. /\ Memory(t) = log /\ log # <<>> /\ log[Len(log)] = draft[t] /\ synced = Len(log)
          /\ log \in Seq(Event) /\ draft[t].id \in Ids /\ Len(log) <= calls /\ calls \in Nat
      BY <1>9, Events, LogIsBounded DEF UpdateIndex, IInv, AppendInv, AppendPcs
    <2>b. /\ index' \in {index, Len(log)} /\ acked' \in {acked, acked \cup {draft[t].id}}
          /\ UNCHANGED <<log, synced, bound, calls, crashes>>
      BY <1>9, <2>a DEF UpdateIndex
    <2>1. TypeOK'
      <3>1. log' \in Seq(Event) /\ synced' \in 0 .. Len(log')
        BY <1>9 DEF IInv, TypeOK, Pcs, Stages, UpdateIndex
      <3>2. index' \in 0 .. MaxCalls /\ bound' \in Ids \cup {None}
        <4>1. Len(log) \in 0 .. MaxCalls
          BY <2>a DEF IInv, TypeOK
        <4> QED
          BY <4>1, <2>b DEF IInv, TypeOK
      <3>3. /\ processLock' \in [Processes -> Threads \cup {None}] /\ flock' \in Threads \cup {None}
             /\ writerLock' \in [Processes -> Threads \cup {None}] /\ open' \in [Processes -> BOOLEAN]
        BY <1>9 DEF IInv, TypeOK, Pcs, Stages, UpdateIndex
      <3>4. events' \in [Processes -> Seq(Event)]
        BY <1>9 DEF IInv, TypeOK, Pcs, Stages, UpdateIndex
      <3>5. pc' \in [Threads -> Pcs] /\ stage' \in Stages
        BY <1>9 DEF IInv, TypeOK, Pcs, Stages, UpdateIndex
      <3>6. depth' \in [Threads -> 0 .. 2]
        BY <1>9 DEF IInv, TypeOK, Pcs, Stages, UpdateIndex
      <3>7. draft' \in [Threads -> Event \cup {None}]
        BY <1>9 DEF IInv, TypeOK, Pcs, Stages, UpdateIndex
      <3>8. calls' \in 0 .. MaxCalls /\ crashes' \in 0 .. MaxCrashes /\ acked' \subseteq Ids
        BY <2>a, <2>b DEF IInv, TypeOK
      <3> QED
        BY <3>1, <3>2, <3>3, <3>4, <3>5, <3>6, <3>7, <3>8 DEF TypeOK
    <2>2. AuthorityInv'
      BY <1>9 DEF IInv, AuthorityInv, StageInv, Inside, Holding, AppendPcs,
           HeldStages, TypeOK, UpdateIndex
    <2>3. StageInv'
      BY <1>9 DEF IInv, AuthorityInv, StageInv, Inside, Holding, AppendPcs,
           HeldStages, TypeOK, UpdateIndex
    <2>4. OpenInv'
      BY <1>9 DEF IInv, OpenInv, TypeOK, UpdateIndex
    <2>5. OwnEventInv'
      BY <1>9 DEF IInv, OwnEventInv, Drafting, StageInv, TypeOK, UpdateIndex
    <2>6. DistinctInv'
      BY <1>9 DEF IInv, DistinctInv, Drafting, StageInv, TypeOK, UpdateIndex
    <2>7. FreshInv'
      BY <1>9 DEF IInv, FreshInv, Unlinked, Drafting, StageInv, TypeOK,
           UpdateIndex
    <2>8. FilesInv'
      BY <1>9 DEF IInv, FilesInv, TypeOK, UpdateIndex
    <2>9. AppendInv'
      BY <1>9 DEF IInv, AppendInv, AuthorityInv, Inside, AppendPcs, Extends,
           TypeOK, UpdateIndex
    <2>10. AckInv'
      <3>1. Len(log) \in 1 .. synced /\ log[Len(log)].id = draft[t].id
        BY <2>a
      <3> QED
        BY <3>1, <2>b DEF IInv, AckInv
    <2>11. MemoryIsPrefix'
      BY <1>9 DEF IInv, MemoryIsPrefix, TypeOK, IsPrefix, UpdateIndex
    <2>12. IndexIsDurable'
      BY <2>a, <2>b DEF IInv, IndexIsDurable
    <2> QED
      BY <2>1, <2>2, <2>3, <2>4, <2>5, <2>6, <2>7, <2>8, <2>9, <2>10, <2>11,
           <2>12 DEF IInv
  <1>10. ASSUME NEW t \in Threads, ReturnOrRaise(t) PROVE IInv'
    <2>1. TypeOK'
      <3>1. log' \in Seq(Event) /\ synced' \in 0 .. Len(log')
        BY <1>10 DEF IInv, TypeOK, Pcs, Stages, ReturnOrRaise, ReleaseAuthority
      <3>2. index' \in 0 .. MaxCalls /\ bound' \in Ids \cup {None}
        BY <1>10 DEF IInv, TypeOK, Pcs, Stages, ReturnOrRaise, ReleaseAuthority
      <3>3. /\ processLock' \in [Processes -> Threads \cup {None}] /\ flock' \in Threads \cup {None}
             /\ writerLock' \in [Processes -> Threads \cup {None}] /\ open' \in [Processes -> BOOLEAN]
        BY <1>10 DEF IInv, TypeOK, Pcs, Stages, ReturnOrRaise, ReleaseAuthority
      <3>4. events' \in [Processes -> Seq(Event)]
        BY <1>10 DEF IInv, TypeOK, Pcs, Stages, ReturnOrRaise, ReleaseAuthority
      <3>5. pc' \in [Threads -> Pcs] /\ stage' \in Stages
        BY <1>10 DEF IInv, TypeOK, Pcs, Stages, ReturnOrRaise, ReleaseAuthority
      <3>6. depth' \in [Threads -> 0 .. 2]
        <4>1. depth[t] \in 1 .. 2 /\ depth' = [depth EXCEPT ![t] = depth[t] - 1]
          BY <1>10 DEF ReturnOrRaise, ReleaseAuthority, IInv, AuthorityInv, AppendPcs
        <4> QED
          BY <4>1 DEF IInv, TypeOK
      <3>7. draft' \in [Threads -> Event \cup {None}]
        BY <1>10 DEF IInv, TypeOK, Pcs, Stages, ReturnOrRaise, ReleaseAuthority
      <3>8. calls' \in 0 .. MaxCalls /\ crashes' \in 0 .. MaxCrashes /\ acked' \subseteq Ids
        BY <1>10 DEF IInv, TypeOK, Pcs, Stages, ReturnOrRaise, ReleaseAuthority
      <3> QED
        BY <3>1, <3>2, <3>3, <3>4, <3>5, <3>6, <3>7, <3>8 DEF TypeOK
    <2>2. AuthorityInv'
      BY <1>10 DEF IInv, AuthorityInv, StageInv, Inside, Holding, AppendPcs,
           HeldStages, TypeOK, ReturnOrRaise, ReleaseAuthority
    <2>3. StageInv'
      BY <1>10 DEF IInv, AuthorityInv, StageInv, Inside, Holding, AppendPcs,
           HeldStages, TypeOK, ReturnOrRaise, ReleaseAuthority
    <2>4. OpenInv'
      BY <1>10 DEF IInv, OpenInv, TypeOK, ReturnOrRaise, ReleaseAuthority
    <2>5. OwnEventInv'
      BY <1>10 DEF IInv, OwnEventInv, Drafting, StageInv, TypeOK,
           ReturnOrRaise, ReleaseAuthority
    <2>6. DistinctInv'
      BY <1>10 DEF IInv, DistinctInv, Drafting, StageInv, TypeOK,
           ReturnOrRaise, ReleaseAuthority
    <2>7. FreshInv'
      BY <1>10 DEF IInv, FreshInv, Unlinked, Drafting, StageInv, TypeOK,
           ReturnOrRaise, ReleaseAuthority
    <2>8. FilesInv'
      BY <1>10 DEF IInv, FilesInv, TypeOK, ReturnOrRaise, ReleaseAuthority
    <2>9. AppendInv'
      BY <1>10 DEF IInv, AppendInv, AuthorityInv, Inside, AppendPcs, Extends,
           TypeOK, ReturnOrRaise, ReleaseAuthority
    <2>10. AckInv'
      BY <1>10 DEF IInv, AckInv, TypeOK, ReturnOrRaise, ReleaseAuthority
    <2>11. MemoryIsPrefix'
      BY <1>10 DEF IInv, MemoryIsPrefix, TypeOK, IsPrefix, ReturnOrRaise,
           ReleaseAuthority
    <2>12. IndexIsDurable'
      BY <1>10 DEF IInv, IndexIsDurable, TypeOK, ReturnOrRaise,
           ReleaseAuthority
    <2> QED
      BY <2>1, <2>2, <2>3, <2>4, <2>5, <2>6, <2>7, <2>8, <2>9, <2>10, <2>11,
           <2>12 DEF IInv
  <1>11. CASE BeginPublication
    <2>1. TypeOK'
      BY <1>11 DEF IInv, TypeOK, Pcs, Stages, Times, BeginPublication
    <2>2. AuthorityInv'
      BY <1>11 DEF IInv, AuthorityInv, StageInv, Inside, Holding, AppendPcs,
           HeldStages, TypeOK, BeginPublication
    <2>3. StageInv'
      BY <1>11 DEF IInv, AuthorityInv, StageInv, Inside, Holding, AppendPcs,
           HeldStages, TypeOK, BeginPublication
    <2>4. OpenInv'
      BY <1>11 DEF IInv, OpenInv, TypeOK, BeginPublication
    <2>5. OwnEventInv'
      BY <1>11 DEF IInv, OwnEventInv, Drafting, StageInv, TypeOK,
           BeginPublication
    <2>6. DistinctInv'
      BY <1>11 DEF IInv, DistinctInv, Drafting, StageInv, TypeOK,
           BeginPublication
    <2>7. FreshInv'
      BY <1>11 DEF IInv, FreshInv, Unlinked, Drafting, StageInv, TypeOK,
           BeginPublication
    <2>8. FilesInv'
      BY <1>11 DEF IInv, FilesInv, TypeOK, BeginPublication
    <2>9. AppendInv'
      BY <1>11 DEF IInv, AppendInv, AuthorityInv, Inside, AppendPcs, Extends,
           TypeOK, BeginPublication
    <2>10. AckInv'
      BY <1>11 DEF IInv, AckInv, TypeOK, BeginPublication
    <2>11. MemoryIsPrefix'
      BY <1>11 DEF IInv, MemoryIsPrefix, TypeOK, IsPrefix, BeginPublication
    <2>12. IndexIsDurable'
      BY <1>11 DEF IInv, IndexIsDurable, TypeOK, BeginPublication
    <2> QED
      BY <2>1, <2>2, <2>3, <2>4, <2>5, <2>6, <2>7, <2>8, <2>9, <2>10, <2>11,
           <2>12 DEF IInv
  <1>12. CASE ReadCandidate
    <2>a. depth[Publisher] = 1
      BY <1>12 DEF ReadCandidate, Stage, IInv, AuthorityInv, StageInv, Holding, HeldStages, AppendPcs
    <2>1. TypeOK'
      <3>1. log' \in Seq(Event) /\ synced' \in 0 .. Len(log')
        BY <1>12 DEF IInv, TypeOK, Pcs, Stages, ReadCandidate, Stage,
             SingleEvent, LeavePublication, ReleaseAuthority
      <3>2. index' \in 0 .. MaxCalls /\ bound' \in Ids \cup {None}
        BY <1>12 DEF IInv, TypeOK, Pcs, Stages, ReadCandidate, Stage,
             SingleEvent, LeavePublication, ReleaseAuthority
      <3>3. /\ processLock' \in [Processes -> Threads \cup {None}] /\ flock' \in Threads \cup {None}
             /\ writerLock' \in [Processes -> Threads \cup {None}] /\ open' \in [Processes -> BOOLEAN]
        BY <1>12 DEF IInv, TypeOK, Pcs, Stages, ReadCandidate, Stage,
             SingleEvent, LeavePublication, ReleaseAuthority
      <3>4. events' \in [Processes -> Seq(Event)]
        BY <1>12 DEF IInv, TypeOK, Pcs, Stages, ReadCandidate, Stage,
             SingleEvent, LeavePublication, ReleaseAuthority
      <3>5. pc' \in [Threads -> Pcs] /\ stage' \in Stages
        BY <1>12 DEF IInv, TypeOK, Pcs, Stages, ReadCandidate, Stage,
             SingleEvent, LeavePublication, ReleaseAuthority
      <3>6. depth' \in [Threads -> 0 .. 2]
        <4>1. depth' = depth \/ depth' = [depth EXCEPT ![Publisher] = depth[Publisher] - 1]
          BY <1>12, <2>a DEF ReadCandidate, Stage, SingleEvent, LeavePublication, ReleaseAuthority
        <4>2. depth \in [Threads -> 0 .. 2]
          BY DEF IInv, TypeOK
        <4> QED
          BY <4>1, <4>2, <2>a
      <3>7. draft' \in [Threads -> Event \cup {None}]
        BY <1>12 DEF IInv, TypeOK, Pcs, Stages, ReadCandidate, Stage,
             SingleEvent, LeavePublication, ReleaseAuthority
      <3>8. calls' \in 0 .. MaxCalls /\ crashes' \in 0 .. MaxCrashes /\ acked' \subseteq Ids
        BY <1>12 DEF IInv, TypeOK, Pcs, Stages, ReadCandidate, Stage,
             SingleEvent, LeavePublication, ReleaseAuthority
      <3> QED
        BY <3>1, <3>2, <3>3, <3>4, <3>5, <3>6, <3>7, <3>8 DEF TypeOK
    <2>2. AuthorityInv'
      BY <1>12 DEF IInv, AuthorityInv, StageInv, Inside, Holding, AppendPcs,
           HeldStages, TypeOK, ReadCandidate, Stage, SingleEvent,
           LeavePublication, ReleaseAuthority
    <2>3. StageInv'
      BY <1>12 DEF IInv, AuthorityInv, StageInv, Inside, Holding, AppendPcs,
           HeldStages, TypeOK, ReadCandidate, Stage, SingleEvent,
           LeavePublication, ReleaseAuthority
    <2>4. OpenInv'
      BY <1>12 DEF IInv, OpenInv, TypeOK, ReadCandidate, Stage, SingleEvent,
           LeavePublication, ReleaseAuthority
    <2>5. OwnEventInv'
      BY <1>12 DEF IInv, OwnEventInv, Drafting, StageInv, TypeOK,
           ReadCandidate, Stage, SingleEvent, LeavePublication,
           ReleaseAuthority
    <2>6. DistinctInv'
      BY <1>12 DEF IInv, DistinctInv, Drafting, StageInv, TypeOK,
           ReadCandidate, Stage, SingleEvent, LeavePublication,
           ReleaseAuthority
    <2>7. FreshInv'
      BY <1>12 DEF IInv, FreshInv, Unlinked, Drafting, StageInv, TypeOK,
           ReadCandidate, Stage, SingleEvent, LeavePublication,
           ReleaseAuthority
    <2>8. FilesInv'
      BY <1>12 DEF IInv, FilesInv, TypeOK, ReadCandidate, Stage, SingleEvent,
           LeavePublication, ReleaseAuthority
    <2>9. AppendInv'
      BY <1>12 DEF IInv, AppendInv, AuthorityInv, Inside, AppendPcs, Extends,
           TypeOK, ReadCandidate, Stage, SingleEvent, LeavePublication,
           ReleaseAuthority
    <2>10. AckInv'
      BY <1>12 DEF IInv, AckInv, TypeOK, ReadCandidate, Stage, SingleEvent,
           LeavePublication, ReleaseAuthority
    <2>11. MemoryIsPrefix'
      BY <1>12 DEF IInv, MemoryIsPrefix, TypeOK, IsPrefix, ReadCandidate,
           Stage, SingleEvent, LeavePublication, ReleaseAuthority
    <2>12. IndexIsDurable'
      BY <1>12 DEF IInv, IndexIsDurable, TypeOK, ReadCandidate, Stage,
           SingleEvent, LeavePublication, ReleaseAuthority
    <2> QED
      BY <2>1, <2>2, <2>3, <2>4, <2>5, <2>6, <2>7, <2>8, <2>9, <2>10, <2>11,
           <2>12 DEF IInv
  <1>13. CASE BudgetCallback
    <2>a. depth[Publisher] = 1
      BY <1>13 DEF BudgetCallback, Stage, IInv, AuthorityInv, StageInv, Holding, HeldStages, AppendPcs
    <2>1. TypeOK'
      <3>1. log' \in Seq(Event) /\ synced' \in 0 .. Len(log')
        BY <1>13 DEF IInv, TypeOK, Pcs, Stages, BudgetCallback, Stage,
             LeavePublication, ReleaseAuthority
      <3>2. index' \in 0 .. MaxCalls /\ bound' \in Ids \cup {None}
        BY <1>13 DEF IInv, TypeOK, Pcs, Stages, BudgetCallback, Stage,
             LeavePublication, ReleaseAuthority
      <3>3. /\ processLock' \in [Processes -> Threads \cup {None}] /\ flock' \in Threads \cup {None}
             /\ writerLock' \in [Processes -> Threads \cup {None}] /\ open' \in [Processes -> BOOLEAN]
        BY <1>13 DEF IInv, TypeOK, Pcs, Stages, BudgetCallback, Stage,
             LeavePublication, ReleaseAuthority
      <3>4. events' \in [Processes -> Seq(Event)]
        BY <1>13 DEF IInv, TypeOK, Pcs, Stages, BudgetCallback, Stage,
             LeavePublication, ReleaseAuthority
      <3>5. pc' \in [Threads -> Pcs] /\ stage' \in Stages
        BY <1>13 DEF IInv, TypeOK, Pcs, Stages, BudgetCallback, Stage,
             LeavePublication, ReleaseAuthority
      <3>6. depth' \in [Threads -> 0 .. 2]
        <4>1. depth' = depth \/ depth' = [depth EXCEPT ![Publisher] = depth[Publisher] - 1]
          BY <1>13, <2>a DEF BudgetCallback, Stage, LeavePublication, ReleaseAuthority
        <4>2. depth \in [Threads -> 0 .. 2]
          BY DEF IInv, TypeOK
        <4> QED
          BY <4>1, <4>2, <2>a
      <3>7. draft' \in [Threads -> Event \cup {None}]
        BY <1>13 DEF IInv, TypeOK, Pcs, Stages, BudgetCallback, Stage,
             LeavePublication, ReleaseAuthority
      <3>8. calls' \in 0 .. MaxCalls /\ crashes' \in 0 .. MaxCrashes /\ acked' \subseteq Ids
        BY <1>13 DEF IInv, TypeOK, Pcs, Stages, BudgetCallback, Stage,
             LeavePublication, ReleaseAuthority
      <3> QED
        BY <3>1, <3>2, <3>3, <3>4, <3>5, <3>6, <3>7, <3>8 DEF TypeOK
    <2>2. AuthorityInv'
      BY <1>13 DEF IInv, AuthorityInv, StageInv, Inside, Holding, AppendPcs,
           HeldStages, TypeOK, BudgetCallback, Stage, LeavePublication,
           ReleaseAuthority
    <2>3. StageInv'
      BY <1>13 DEF IInv, AuthorityInv, StageInv, Inside, Holding, AppendPcs,
           HeldStages, TypeOK, BudgetCallback, Stage, LeavePublication,
           ReleaseAuthority
    <2>4. OpenInv'
      BY <1>13 DEF IInv, OpenInv, TypeOK, BudgetCallback, Stage,
           LeavePublication, ReleaseAuthority
    <2>5. OwnEventInv'
      BY <1>13 DEF IInv, OwnEventInv, Drafting, StageInv, TypeOK,
           BudgetCallback, Stage, LeavePublication, ReleaseAuthority
    <2>6. DistinctInv'
      BY <1>13 DEF IInv, DistinctInv, Drafting, StageInv, TypeOK,
           BudgetCallback, Stage, LeavePublication, ReleaseAuthority
    <2>7. FreshInv'
      BY <1>13 DEF IInv, FreshInv, Unlinked, Drafting, StageInv, TypeOK,
           BudgetCallback, Stage, LeavePublication, ReleaseAuthority
    <2>8. FilesInv'
      BY <1>13 DEF IInv, FilesInv, TypeOK, BudgetCallback, Stage,
           LeavePublication, ReleaseAuthority
    <2>9. AppendInv'
      BY <1>13 DEF IInv, AppendInv, AuthorityInv, Inside, AppendPcs, Extends,
           TypeOK, BudgetCallback, Stage, LeavePublication, ReleaseAuthority
    <2>10. AckInv'
      BY <1>13 DEF IInv, AckInv, TypeOK, BudgetCallback, Stage,
           LeavePublication, ReleaseAuthority
    <2>11. MemoryIsPrefix'
      BY <1>13 DEF IInv, MemoryIsPrefix, TypeOK, IsPrefix, BudgetCallback,
           Stage, LeavePublication, ReleaseAuthority
    <2>12. IndexIsDurable'
      BY <1>13 DEF IInv, IndexIsDurable, TypeOK, BudgetCallback, Stage,
           LeavePublication, ReleaseAuthority
    <2> QED
      BY <2>1, <2>2, <2>3, <2>4, <2>5, <2>6, <2>7, <2>8, <2>9, <2>10, <2>11,
           <2>12 DEF IInv
  <1>14. CASE Recheck
    <2>a. depth[Publisher] = 1
      BY <1>14 DEF Recheck, Stage, IInv, AuthorityInv, StageInv, Holding, HeldStages, AppendPcs
    <2>1. TypeOK'
      <3>1. log' \in Seq(Event) /\ synced' \in 0 .. Len(log')
        BY <1>14 DEF IInv, TypeOK, Pcs, Stages, Recheck, Stage, SingleEvent,
             LeavePublication, ReleaseAuthority
      <3>2. index' \in 0 .. MaxCalls /\ bound' \in Ids \cup {None}
        BY <1>14 DEF IInv, TypeOK, Pcs, Stages, Recheck, Stage, SingleEvent,
             LeavePublication, ReleaseAuthority
      <3>3. /\ processLock' \in [Processes -> Threads \cup {None}] /\ flock' \in Threads \cup {None}
             /\ writerLock' \in [Processes -> Threads \cup {None}] /\ open' \in [Processes -> BOOLEAN]
        BY <1>14 DEF IInv, TypeOK, Pcs, Stages, Recheck, Stage, SingleEvent,
             LeavePublication, ReleaseAuthority
      <3>4. events' \in [Processes -> Seq(Event)]
        BY <1>14 DEF IInv, TypeOK, Pcs, Stages, Recheck, Stage, SingleEvent,
             LeavePublication, ReleaseAuthority
      <3>5. pc' \in [Threads -> Pcs] /\ stage' \in Stages
        BY <1>14 DEF IInv, TypeOK, Pcs, Stages, Recheck, Stage, SingleEvent,
             LeavePublication, ReleaseAuthority
      <3>6. depth' \in [Threads -> 0 .. 2]
        <4>1. depth' = depth \/ depth' = [depth EXCEPT ![Publisher] = depth[Publisher] - 1]
          BY <1>14, <2>a DEF Recheck, Stage, SingleEvent, LeavePublication, ReleaseAuthority
        <4>2. depth \in [Threads -> 0 .. 2]
          BY DEF IInv, TypeOK
        <4> QED
          BY <4>1, <4>2, <2>a
      <3>7. draft' \in [Threads -> Event \cup {None}]
        BY <1>14 DEF IInv, TypeOK, Pcs, Stages, Recheck, Stage, SingleEvent,
             LeavePublication, ReleaseAuthority
      <3>8. calls' \in 0 .. MaxCalls /\ crashes' \in 0 .. MaxCrashes /\ acked' \subseteq Ids
        BY <1>14 DEF IInv, TypeOK, Pcs, Stages, Recheck, Stage, SingleEvent,
             LeavePublication, ReleaseAuthority
      <3> QED
        BY <3>1, <3>2, <3>3, <3>4, <3>5, <3>6, <3>7, <3>8 DEF TypeOK
    <2>2. AuthorityInv'
      BY <1>14 DEF IInv, AuthorityInv, StageInv, Inside, Holding, AppendPcs,
           HeldStages, TypeOK, Recheck, Stage, SingleEvent, LeavePublication,
           ReleaseAuthority
    <2>3. StageInv'
      BY <1>14 DEF IInv, AuthorityInv, StageInv, Inside, Holding, AppendPcs,
           HeldStages, TypeOK, Recheck, Stage, SingleEvent, LeavePublication,
           ReleaseAuthority
    <2>4. OpenInv'
      BY <1>14 DEF IInv, OpenInv, TypeOK, Recheck, Stage, SingleEvent,
           LeavePublication, ReleaseAuthority
    <2>5. OwnEventInv'
      BY <1>14 DEF IInv, OwnEventInv, Drafting, StageInv, TypeOK, Recheck,
           Stage, SingleEvent, LeavePublication, ReleaseAuthority
    <2>6. DistinctInv'
      BY <1>14 DEF IInv, DistinctInv, Drafting, StageInv, TypeOK, Recheck,
           Stage, SingleEvent, LeavePublication, ReleaseAuthority
    <2>7. FreshInv'
      BY <1>14 DEF IInv, FreshInv, Unlinked, Drafting, StageInv, TypeOK,
           Recheck, Stage, SingleEvent, LeavePublication, ReleaseAuthority
    <2>8. FilesInv'
      BY <1>14 DEF IInv, FilesInv, TypeOK, Recheck, Stage, SingleEvent,
           LeavePublication, ReleaseAuthority
    <2>9. AppendInv'
      BY <1>14 DEF IInv, AppendInv, AuthorityInv, Inside, AppendPcs, Extends,
           TypeOK, Recheck, Stage, SingleEvent, LeavePublication,
           ReleaseAuthority
    <2>10. AckInv'
      BY <1>14 DEF IInv, AckInv, TypeOK, Recheck, Stage, SingleEvent,
           LeavePublication, ReleaseAuthority
    <2>11. MemoryIsPrefix'
      BY <1>14 DEF IInv, MemoryIsPrefix, TypeOK, IsPrefix, Recheck, Stage,
           SingleEvent, LeavePublication, ReleaseAuthority
    <2>12. IndexIsDurable'
      BY <1>14 DEF IInv, IndexIsDurable, TypeOK, Recheck, Stage, SingleEvent,
           LeavePublication, ReleaseAuthority
    <2> QED
      BY <2>1, <2>2, <2>3, <2>4, <2>5, <2>6, <2>7, <2>8, <2>9, <2>10, <2>11,
           <2>12 DEF IInv
  <1>15. CASE Publish
    <2>a. depth[Publisher] = 1
      BY <1>15 DEF Publish, Stage, IInv, AuthorityInv, StageInv, Holding, HeldStages, AppendPcs
    <2>1. TypeOK'
      <3>1. log' \in Seq(Event) /\ synced' \in 0 .. Len(log')
        BY <1>15 DEF IInv, TypeOK, Pcs, Stages, Publish, LeavePublication,
             ReleaseAuthority
      <3>2. index' \in 0 .. MaxCalls /\ bound' \in Ids \cup {None}
        <4>1. log[1].id \in Ids
          <5>1. Len(log) = 1
            BY <1>15 DEF Publish, IInv, StageInv
          <5>2. 1 \in 1 .. Len(log)
            BY <5>1
          <5> QED
            BY <5>2, Events
        <4> QED
          BY <1>15, <4>1 DEF Publish, IInv, TypeOK
      <3>3. /\ processLock' \in [Processes -> Threads \cup {None}] /\ flock' \in Threads \cup {None}
             /\ writerLock' \in [Processes -> Threads \cup {None}] /\ open' \in [Processes -> BOOLEAN]
        BY <1>15 DEF IInv, TypeOK, Pcs, Stages, Publish, LeavePublication,
             ReleaseAuthority
      <3>4. events' \in [Processes -> Seq(Event)]
        BY <1>15 DEF IInv, TypeOK, Pcs, Stages, Publish, LeavePublication,
             ReleaseAuthority
      <3>5. pc' \in [Threads -> Pcs] /\ stage' \in Stages
        BY <1>15 DEF IInv, TypeOK, Pcs, Stages, Publish, LeavePublication,
             ReleaseAuthority
      <3>6. depth' \in [Threads -> 0 .. 2]
        <4>1. depth' = depth \/ depth' = [depth EXCEPT ![Publisher] = depth[Publisher] - 1]
          BY <1>15, <2>a DEF Publish, LeavePublication, ReleaseAuthority
        <4>2. depth \in [Threads -> 0 .. 2]
          BY DEF IInv, TypeOK
        <4> QED
          BY <4>1, <4>2, <2>a
      <3>7. draft' \in [Threads -> Event \cup {None}]
        BY <1>15 DEF IInv, TypeOK, Pcs, Stages, Publish, LeavePublication,
             ReleaseAuthority
      <3>8. calls' \in 0 .. MaxCalls /\ crashes' \in 0 .. MaxCrashes /\ acked' \subseteq Ids
        BY <1>15 DEF IInv, TypeOK, Pcs, Stages, Publish, LeavePublication,
             ReleaseAuthority
      <3> QED
        BY <3>1, <3>2, <3>3, <3>4, <3>5, <3>6, <3>7, <3>8 DEF TypeOK
    <2>2. AuthorityInv'
      BY <1>15 DEF IInv, AuthorityInv, StageInv, Inside, Holding, AppendPcs,
           HeldStages, TypeOK, Publish, LeavePublication, ReleaseAuthority
    <2>3. StageInv'
      BY <1>15 DEF IInv, AuthorityInv, StageInv, Inside, Holding, AppendPcs,
           HeldStages, TypeOK, Publish, LeavePublication, ReleaseAuthority
    <2>4. OpenInv'
      BY <1>15 DEF IInv, OpenInv, TypeOK, Publish, LeavePublication,
           ReleaseAuthority
    <2>5. OwnEventInv'
      BY <1>15 DEF IInv, OwnEventInv, Drafting, StageInv, TypeOK, Publish,
           LeavePublication, ReleaseAuthority
    <2>6. DistinctInv'
      BY <1>15 DEF IInv, DistinctInv, Drafting, StageInv, TypeOK, Publish,
           LeavePublication, ReleaseAuthority
    <2>7. FreshInv'
      BY <1>15 DEF IInv, FreshInv, Unlinked, Drafting, StageInv, TypeOK,
           Publish, LeavePublication, ReleaseAuthority
    <2>8. FilesInv'
      BY <1>15 DEF IInv, FilesInv, TypeOK, Publish, LeavePublication,
           ReleaseAuthority
    <2>9. AppendInv'
      BY <1>15 DEF IInv, AppendInv, AuthorityInv, Inside, AppendPcs, Extends,
           TypeOK, Publish, LeavePublication, ReleaseAuthority
    <2>10. AckInv'
      BY <1>15 DEF IInv, AckInv, TypeOK, Publish, LeavePublication,
           ReleaseAuthority
    <2>11. MemoryIsPrefix'
      BY <1>15 DEF IInv, MemoryIsPrefix, TypeOK, IsPrefix, Publish,
           LeavePublication, ReleaseAuthority
    <2>12. IndexIsDurable'
      BY <1>15 DEF IInv, IndexIsDurable, TypeOK, Publish, LeavePublication,
           ReleaseAuthority
    <2> QED
      BY <2>1, <2>2, <2>3, <2>4, <2>5, <2>6, <2>7, <2>8, <2>9, <2>10, <2>11,
           <2>12 DEF IInv
  <1>16. ASSUME NEW p \in Processes, Crash(p) PROVE IInv'
    <2>a. /\ \A u \in Threads :
               IF Home[u] \in {p}
               THEN pc'[u] = "idle" /\ depth'[u] = 0 /\ draft'[u] = None
               ELSE pc'[u] = pc[u] /\ depth'[u] = depth[u] /\ draft'[u] = draft[u]
          /\ stage' = IF Home[Publisher] \in {p} THEN "over" ELSE stage
          /\ flock' = IF flock \in Threads /\ Home[flock] \in {p} THEN None ELSE flock
          /\ \A q \in Processes :
               /\ events'[q] = IF q \in {p} THEN <<>> ELSE events[q]
               /\ open'[q] = (open[q] /\ q \notin {p})
          /\ UNCHANGED <<index, bound, calls, acked>>
      <3>1. Forget({p})
        BY <1>16 DEF Crash
      <3> QED
        BY <3>1, Forgotten DEF IInv
    <2>b. \A u \in Threads : pc'[u] \in {"idle", pc[u]} /\ (Drafting(u)' => Drafting(u) /\ Home[u] \notin {p})
      BY <2>a DEF Drafting
    <2>1. TypeOK'
      BY <1>16 DEF IInv, TypeOK, Pcs, Stages, Times, Crash, Forget, Dead
    <2>2. AuthorityInv'
      <3> SUFFICES ASSUME NEW u \in Threads
                   PROVE  /\ flock' = u <=> Inside(u)'
                          /\ depth'[u] = (IF pc'[u] \in AppendPcs \cup {"flock"} THEN 1 ELSE 0)
                                         + (IF Holding(u)' THEN 1 ELSE 0)
        BY DEF AuthorityInv
      <3>1. /\ flock = u <=> Inside(u)
            /\ depth[u] = (IF pc[u] \in AppendPcs \cup {"flock"} THEN 1 ELSE 0)
                          + (IF Holding(u) THEN 1 ELSE 0)
        BY DEF IInv, AuthorityInv
      <3>2. CASE Home[u] \in {p}
        <4>1. ~Holding(u)' /\ pc'[u] = "idle" /\ depth'[u] = 0
          BY <3>2, <2>a DEF Holding, HeldStages
        <4>2. ~Inside(u)' /\ pc'[u] \notin AppendPcs \cup {"flock"}
          BY <4>1 DEF Inside, AppendPcs
        <4>3. flock' # u
          BY <3>2, <2>a
        <4> QED
          BY <4>1, <4>2, <4>3
      <3>3. CASE Home[u] \notin {p}
        <4>1. Holding(u)' <=> Holding(u)
          BY <3>3, <2>a DEF Holding, HeldStages
        <4>2. pc'[u] = pc[u] /\ depth'[u] = depth[u]
          BY <3>3, <2>a
        <4>3. flock' = u <=> flock = u
          BY <3>3, <2>a
        <4>4. Inside(u)' <=> Inside(u)
          BY <4>1, <4>2 DEF Inside
        <4> QED
          BY <3>1, <4>1, <4>2, <4>3, <4>4
      <3> QED
        BY <3>2, <3>3
    <2>3. StageInv'
      <3>1. log' = log
        BY <1>16 DEF Crash
      <3> QED
        BY <3>1, <2>a DEF IInv, StageInv, HeldStages
    <2>4. OpenInv'
      BY <2>a DEF IInv, OpenInv
    <2>5. OwnEventInv'
      BY <2>a, <2>b DEF IInv, OwnEventInv
    <2>6. DistinctInv'
      BY <2>a, <2>b DEF IInv, DistinctInv
    <2>7. FreshInv'
      <3>1. log' = log
        BY <1>16 DEF Crash
      <3> QED
        BY <3>1, <2>a, <2>b DEF IInv, FreshInv, Unlinked
    <2>8. FilesInv'
      BY <1>16 DEF IInv, FilesInv, TypeOK, Crash, Forget, Dead
    <2>9. AppendInv'
      <3>1. UNCHANGED <<log, synced>>
        BY <1>16 DEF Crash
      <3>2. ASSUME NEW u \in Threads, pc'[u] # "idle"
            PROVE  pc'[u] = pc[u] /\ draft'[u] = draft[u] /\ events'[Home[u]] = events[Home[u]]
        BY <3>2, <2>a
      <3> QED
        BY <3>1, <3>2 DEF IInv, AppendInv, Extends
    <2>10. AckInv'
      BY <1>16 DEF IInv, AckInv, TypeOK, Crash, Forget, Dead
    <2>11. MemoryIsPrefix'
      <3>1. log' = log /\ log \in Seq(Event) /\ Len(log) \in Nat
        BY <1>16, Events DEF Crash
      <3>2. \A q \in Processes : Len(events'[q]) = 0 \/ events'[q] = events[q]
        BY <2>a
      <3> QED
        BY <2>1, <3>1, <3>2, MemoryElements, MemoryElementsNext DEF IInv
    <2>12. IndexIsDurable'
      BY <1>16 DEF IInv, IndexIsDurable, TypeOK, Crash, Forget, Dead
    <2> QED
      BY <2>1, <2>2, <2>3, <2>4, <2>5, <2>6, <2>7, <2>8, <2>9, <2>10, <2>11,
           <2>12 DEF IInv
  <1>17. ASSUME NEW p \in Processes, Resume(p) PROVE IInv'
    <2>a. /\ events' = [events EXCEPT ![p] = log] /\ UNCHANGED <<log, synced, pc, draft>>
          /\ log \in Seq(Event) /\ Len(log) \in Nat
      BY <1>17, Events DEF Resume
    <2>b. ASSUME NEW u \in Threads, pc[u] # "idle" PROVE events'[Home[u]] = events[Home[u]]
      BY <1>17, <2>a, <2>b DEF Resume, IInv, OpenInv, TypeOK
    <2>1. TypeOK'
      BY <1>17 DEF IInv, TypeOK, Pcs, Stages, Times, Resume
    <2>2. AuthorityInv'
      BY <1>17 DEF IInv, AuthorityInv, StageInv, Inside, Holding, AppendPcs,
           HeldStages, TypeOK, Resume
    <2>3. StageInv'
      BY <1>17 DEF IInv, AuthorityInv, StageInv, Inside, Holding, AppendPcs,
           HeldStages, TypeOK, Resume
    <2>4. OpenInv'
      BY <1>17 DEF IInv, OpenInv, TypeOK, Resume
    <2>5. OwnEventInv'
      BY <1>17 DEF IInv, OwnEventInv, Drafting, StageInv, TypeOK, Resume
    <2>6. DistinctInv'
      BY <1>17 DEF IInv, DistinctInv, Drafting, StageInv, TypeOK, Resume
    <2>7. FreshInv'
      BY <1>17 DEF IInv, FreshInv, Unlinked, Drafting, StageInv, TypeOK,
           Resume
    <2>8. FilesInv'
      BY <1>17 DEF IInv, FilesInv, TypeOK, Resume
    <2>9. AppendInv'
      BY <2>a, <2>b DEF IInv, AppendInv, Extends
    <2>10. AckInv'
      BY <1>17 DEF IInv, AckInv, TypeOK, Resume
    <2>11. MemoryIsPrefix'
      <3>1. \A q \in Processes : events'[q] = IF q = p THEN log ELSE events[q]
        BY <2>a DEF IInv, TypeOK
      <3> QED
        BY <2>1, <2>a, <3>1, MemoryElements, MemoryElementsNext DEF IInv
    <2>12. IndexIsDurable'
      BY <1>17 DEF IInv, IndexIsDurable, TypeOK, Resume
    <2> QED
      BY <2>1, <2>2, <2>3, <2>4, <2>5, <2>6, <2>7, <2>8, <2>9, <2>10, <2>11,
           <2>12 DEF IInv
  <1>18. CASE PowerLoss
    <2>a. /\ \A u \in Threads :
               IF Home[u] \in Processes
               THEN pc'[u] = "idle" /\ depth'[u] = 0 /\ draft'[u] = None
               ELSE pc'[u] = pc[u] /\ depth'[u] = depth[u] /\ draft'[u] = draft[u]
          /\ stage' = IF Home[Publisher] \in Processes THEN "over" ELSE stage
          /\ flock' = IF flock \in Threads /\ Home[flock] \in Processes THEN None ELSE flock
          /\ \A q \in Processes :
               /\ events'[q] = IF q \in Processes THEN <<>> ELSE events[q]
               /\ open'[q] = (open[q] /\ q \notin Processes)
          /\ UNCHANGED <<index, bound, calls, acked>>
      <3>1. Forget(Processes)
        BY <1>18 DEF PowerLoss
      <3> QED
        BY <3>1, Forgotten DEF IInv
    <2>b. \A u \in Threads : pc'[u] \in {"idle", pc[u]} /\ (Drafting(u)' => Drafting(u) /\ Home[u] \notin Processes)
      BY <2>a DEF Drafting
    <2>c. /\ log \in Seq(Event) /\ Len(log) \in Nat /\ synced \in 0 .. Len(log)
          /\ synced' = synced
      BY <1>18, Events DEF PowerLoss, IInv, TypeOK
    <2>d. PICK n \in synced .. Len(log) : log' = SubSeq(log, 1, n)
      BY <1>18 DEF PowerLoss
    <2>e. log' \in Seq(Event) /\ Len(log') = n /\ \A i \in 1 .. n : log'[i] = log[i] /\ i \in 1 .. Len(log)
      BY <2>c, <2>d
    <2>f. \A u \in Threads : pc'[u] = "idle"
      BY <2>a
    <2>1. TypeOK'
      <3>1. log' \in Seq(Event) /\ synced' \in 0 .. Len(log')
        BY <2>c, <2>e
      <3>2. index' \in 0 .. MaxCalls /\ bound' \in Ids \cup {None}
        BY <1>18 DEF IInv, TypeOK, Pcs, Stages, PowerLoss, Forget, Dead
      <3>3. /\ processLock' \in [Processes -> Threads \cup {None}] /\ flock' \in Threads \cup {None}
             /\ writerLock' \in [Processes -> Threads \cup {None}] /\ open' \in [Processes -> BOOLEAN]
        BY <1>18 DEF IInv, TypeOK, Pcs, Stages, PowerLoss, Forget, Dead
      <3>4. events' \in [Processes -> Seq(Event)]
        BY <1>18 DEF IInv, TypeOK, Pcs, Stages, PowerLoss, Forget, Dead
      <3>5. pc' \in [Threads -> Pcs] /\ stage' \in Stages
        BY <1>18 DEF IInv, TypeOK, Pcs, Stages, PowerLoss, Forget, Dead
      <3>6. depth' \in [Threads -> 0 .. 2]
        BY <1>18 DEF IInv, TypeOK, Pcs, Stages, PowerLoss, Forget, Dead
      <3>7. draft' \in [Threads -> Event \cup {None}]
        BY <1>18 DEF IInv, TypeOK, Pcs, Stages, PowerLoss, Forget, Dead
      <3>8. calls' \in 0 .. MaxCalls /\ crashes' \in 0 .. MaxCrashes /\ acked' \subseteq Ids
        BY <1>18 DEF IInv, TypeOK, Pcs, Stages, PowerLoss, Forget, Dead
      <3> QED
        BY <3>1, <3>2, <3>3, <3>4, <3>5, <3>6, <3>7, <3>8 DEF TypeOK
    <2>2. AuthorityInv'
      <3> SUFFICES ASSUME NEW u \in Threads
                   PROVE  /\ flock' = u <=> Inside(u)'
                          /\ depth'[u] = (IF pc'[u] \in AppendPcs \cup {"flock"} THEN 1 ELSE 0)
                                         + (IF Holding(u)' THEN 1 ELSE 0)
        BY DEF AuthorityInv
      <3>1. /\ flock = u <=> Inside(u)
            /\ depth[u] = (IF pc[u] \in AppendPcs \cup {"flock"} THEN 1 ELSE 0)
                          + (IF Holding(u) THEN 1 ELSE 0)
        BY DEF IInv, AuthorityInv
      <3>2. CASE Home[u] \in Processes
        <4>1. ~Holding(u)' /\ pc'[u] = "idle" /\ depth'[u] = 0
          BY <3>2, <2>a DEF Holding, HeldStages
        <4>2. ~Inside(u)' /\ pc'[u] \notin AppendPcs \cup {"flock"}
          BY <4>1 DEF Inside, AppendPcs
        <4>3. flock' # u
          BY <3>2, <2>a
        <4> QED
          BY <4>1, <4>2, <4>3
      <3>3. CASE Home[u] \notin Processes
        <4>1. Holding(u)' <=> Holding(u)
          BY <3>3, <2>a DEF Holding, HeldStages
        <4>2. pc'[u] = pc[u] /\ depth'[u] = depth[u]
          BY <3>3, <2>a
        <4>3. flock' = u <=> flock = u
          BY <3>3, <2>a
        <4>4. Inside(u)' <=> Inside(u)
          BY <4>1, <4>2 DEF Inside
        <4> QED
          BY <3>1, <4>1, <4>2, <4>3, <4>4
      <3> QED
        BY <3>2, <3>3
    <2>3. StageInv'
      BY <2>a DEF StageInv, HeldStages
    <2>4. OpenInv'
      BY <2>a DEF IInv, OpenInv
    <2>5. OwnEventInv'
      BY <2>a, <2>b DEF IInv, OwnEventInv
    <2>6. DistinctInv'
      BY <2>a, <2>b DEF IInv, DistinctInv
    <2>7. FreshInv'
      BY <2>f DEF FreshInv, Drafting
    <2>8. FilesInv'
      BY <2>a, <2>e DEF IInv, FilesInv
    <2>9. AppendInv'
      BY <2>f DEF AppendInv
    <2>10. AckInv'
      <3>1. \A i \in 1 .. synced : log'[i] = log[i]
        BY <2>c, <2>e
      <3> QED
        BY <3>1, <2>a, <2>c DEF IInv, AckInv
    <2>11. MemoryIsPrefix'
      <3>1. \A p \in Processes : Len(events'[p]) = 0
        BY <2>a
      <3> QED
        BY <2>1, <2>c, <2>e, <3>1, MemoryElementsNext
    <2>12. IndexIsDurable'
      BY <2>a, <2>c DEF IInv, IndexIsDurable
    <2> QED
      BY <2>1, <2>2, <2>3, <2>4, <2>5, <2>6, <2>7, <2>8, <2>9, <2>10, <2>11,
           <2>12 DEF IInv
  <1>19. CASE UNCHANGED vars
    BY <1>19 DEF vars, IInv, TypeOK, AuthorityInv, StageInv, OpenInv,
         OwnEventInv, DistinctInv, FreshInv, FilesInv, AppendInv, AckInv,
         MemoryIsPrefix, IndexIsDurable, Inside, Holding, Drafting, Extends
  <1> QED
    BY <1>1, <1>2, <1>3, <1>4, <1>5, <1>6, <1>7, <1>8, <1>9, <1>10, <1>11,
         <1>12, <1>13, <1>14, <1>15, <1>16, <1>17, <1>18, <1>19 DEF Next,
         Step, PublicationStep

-----------------------------------------------------------------------------
(* The locks of append_event and of the publication around it.              *)

\* who owns the process's lock, and the writer's lock
OwnsProcess(t) == pc[t] \in AppendPcs \cup {"flock"} \/ Holding(t)
OwnsWriter(t) == pc[t] \in AppendPcs \ {"writer"}

(* The two locks of a process are held exactly by the threads whose place   *)
(* in the code says so, and by threads of that process.                     *)
LocksInv ==
    /\ \A t \in Threads : processLock[Home[t]] = t <=> OwnsProcess(t)
    /\ \A t \in Threads : writerLock[Home[t]] = t <=> OwnsWriter(t)
    /\ \A p \in Processes : \A t \in Threads :
        processLock[p] = t \/ writerLock[p] = t => Home[t] = p

\* t stands before a lock that another thread has
Waits(t) ==
    \/ pc[t] = "process" /\ processLock[Home[t]] \notin {None, t}
    \/ pc[t] = "flock" /\ flock # None
    \/ pc[t] = "writer" /\ writerLock[Home[t]] # None

\* t is in an append or in a publication
Busy(t) == pc[t] # "idle" \/ Holding(t)

(* Whenever a thread waits for a lock another thread is in its call and     *)
(* waits for none: the process's lock, the file lock and the writer's lock  *)
(* cannot close a circle, not even when the publication's callback appends  *)
(* under the authority that its own thread holds                            *)
(* (exclusive_stop_scan_run_authority, append_event).                       *)
SomebodyMoves ==
    \A t \in Threads : Waits(t) =>
        \E u \in Threads : u # t /\ Busy(u) /\ ~Waits(u)

(* The writer's lock is never waited for: the authority, which append_event *)
(* takes first, lets one thread through at a time.                          *)
WriterLockIsFree == \A t \in Threads : pc[t] = "writer" => writerLock[Home[t]] = None

LEMMA LocksInit == Init => LocksInv
  BY StoreAssumption DEF Init, LocksInv, OwnsProcess, OwnsWriter, AppendPcs, Holding, HeldStages

(* What the deaths of some processes leave of their locks.                  *)
LEMMA LocksForgotten ==
    ASSUME TypeOK, NEW gone \in SUBSET Processes, Forget(gone), LocksInv
    PROVE  LocksInv'
  <1>1. /\ processLock' = [p \in Processes |-> IF p \in gone THEN None ELSE processLock[p]]
        /\ writerLock' = [p \in Processes |-> IF p \in gone THEN None ELSE writerLock[p]]
    BY DEF Forget
  <1>2. /\ \A u \in Threads : pc'[u] = IF Home[u] \in gone THEN "idle" ELSE pc[u]
        /\ stage' = IF Home[Publisher] \in gone THEN "over" ELSE stage
    BY Forgotten
  <1>3. ASSUME NEW t \in Threads
        PROVE  /\ OwnsProcess(t)' <=> OwnsProcess(t) /\ Home[t] \notin gone
               /\ OwnsWriter(t)' <=> OwnsWriter(t) /\ Home[t] \notin gone
    BY <1>2 DEF OwnsProcess, OwnsWriter, Holding, HeldStages, AppendPcs
  <1>4. \A t \in Threads : Home[t] \in Processes
    BY StoreAssumption
  <1>5. \A t \in Threads :
            /\ processLock'[Home[t]] = t <=> processLock[Home[t]] = t /\ Home[t] \notin gone
            /\ writerLock'[Home[t]] = t <=> writerLock[Home[t]] = t /\ Home[t] \notin gone
    BY <1>1, <1>4, StoreAssumption
  <1>6. \A p \in Processes : \A t \in Threads :
            processLock'[p] = t \/ writerLock'[p] = t => Home[t] = p
    BY <1>1, StoreAssumption DEF LocksInv
  <1> QED
    BY <1>3, <1>5, <1>6 DEF LocksInv

(* The end of the publication gives its hold back.                          *)
LEMMA LocksLeft ==
    ASSUME IInv, LocksInv, pc[Publisher] = "idle", stage \in HeldStages,
           LeavePublication, UNCHANGED pc
    PROVE  LocksInv'
  <1>1. depth[Publisher] = 1 /\ Publisher \in Threads
    BY StoreAssumption DEF IInv, AuthorityInv, AppendPcs, Holding
  <1>2. /\ stage' = "over" /\ UNCHANGED <<pc, writerLock>>
        /\ processLock' = [processLock EXCEPT ![Home[Publisher]] = None]
        /\ processLock \in [Processes -> Threads \cup {None}]
    BY <1>1 DEF LeavePublication, ReleaseAuthority, IInv, TypeOK
  <1>3. \A t \in Threads : ~Holding(t)'
    BY <1>2 DEF Holding, HeldStages
  <1>4. \A t \in Threads : OwnsProcess(t)' <=> OwnsProcess(t) /\ t # Publisher
    BY <1>2, <1>3 DEF OwnsProcess, Holding, AppendPcs
  <1>5. processLock[Home[Publisher]] = Publisher
    BY <1>1 DEF LocksInv, OwnsProcess, Holding
  <1>6. \A t \in Threads : processLock'[Home[t]] = t <=> processLock[Home[t]] = t /\ t # Publisher
    BY <1>1, <1>2, <1>5, StoreAssumption
  <1>7. \A t \in Threads : OwnsWriter(t)' <=> OwnsWriter(t)
    BY <1>2 DEF OwnsWriter
  <1>8. \A p \in Processes : \A t \in Threads :
            processLock'[p] = t \/ writerLock'[p] = t => Home[t] = p
    BY <1>2, StoreAssumption DEF LocksInv
  <1> QED
    BY <1>2, <1>4, <1>6, <1>7, <1>8 DEF LocksInv

LEMMA LocksStep == IInv /\ LocksInv /\ [Next]_vars => LocksInv'
  <1> SUFFICES ASSUME IInv, LocksInv, [Next]_vars PROVE LocksInv'
    OBVIOUS
  <1> USE StoreAssumption, AfterLabels
  <1>a. /\ pc \in [Threads -> Pcs]
        /\ processLock \in [Processes -> Threads \cup {None}]
        /\ writerLock \in [Processes -> Threads \cup {None}]
        /\ \A t \in Threads : Home[t] \in Processes
    BY DEF IInv, TypeOK
  <1>1. ASSUME NEW t \in Threads, TakeProcessLock(t) PROVE LocksInv'
    <2>1. /\ pc[t] = "process" /\ processLock[Home[t]] \in {None, t}
          /\ processLock' = [processLock EXCEPT ![Home[t]] = t]
          /\ UNCHANGED <<writerLock, stage>>
          /\ pc' = [pc EXCEPT ![t] = "flock"] \/ pc' = [pc EXCEPT ![t] = "writer"]
      BY <1>1 DEF TakeProcessLock, Goto, lockVars
    <2>2. \A u \in Threads : OwnsProcess(u)' <=> OwnsProcess(u) \/ u = t
      BY <1>a, <2>1 DEF OwnsProcess, AppendPcs, Holding
    <2>3. \A u \in Threads : OwnsWriter(u)' <=> OwnsWriter(u)
      BY <1>a, <2>1 DEF OwnsWriter, AppendPcs
    <2>4. \A u \in Threads : processLock'[Home[u]] = u <=> processLock[Home[u]] = u \/ u = t
      BY <1>a, <2>1
    <2>5. \A p \in Processes : \A u \in Threads :
              processLock'[p] = u \/ writerLock'[p] = u => Home[u] = p
      BY <1>a, <2>1 DEF LocksInv
    <2> QED
      BY <2>1, <2>2, <2>3, <2>4, <2>5 DEF LocksInv
  <1>2. ASSUME NEW t \in Threads, TakeFlock(t) PROVE LocksInv'
    <2>1. /\ pc[t] = "flock" /\ UNCHANGED <<processLock, writerLock>>
          /\ \/ /\ t = Publisher /\ stage = "locking"
                /\ stage' = "read" /\ pc' = [pc EXCEPT ![t] = "idle"]
             \/ UNCHANGED stage /\ pc' = [pc EXCEPT ![t] = "writer"]
      BY <1>2 DEF TakeFlock, Publishing, Goto
    <2>2. \A u \in Threads : OwnsProcess(u)' <=> OwnsProcess(u)
      BY <1>a, <2>1 DEF OwnsProcess, AppendPcs, Holding, HeldStages
    <2>3. \A u \in Threads : OwnsWriter(u)' <=> OwnsWriter(u)
      BY <1>a, <2>1 DEF OwnsWriter, AppendPcs
    <2> QED
      BY <2>1, <2>2, <2>3 DEF LocksInv
  <1>3. ASSUME NEW t \in Threads, TakeWriterLock(t) PROVE LocksInv'
    <2>1. /\ pc[t] = "writer" /\ writerLock[Home[t]] = None
          /\ writerLock' = [writerLock EXCEPT ![Home[t]] = t]
          /\ UNCHANGED <<processLock, stage>> /\ pc' = [pc EXCEPT ![t] = "build"]
      BY <1>3 DEF TakeWriterLock, Goto
    <2>2. \A u \in Threads : OwnsProcess(u)' <=> OwnsProcess(u)
      BY <1>a, <2>1 DEF OwnsProcess, AppendPcs, Holding
    <2>3. \A u \in Threads : OwnsWriter(u)' <=> OwnsWriter(u) \/ u = t
      BY <1>a, <2>1 DEF OwnsWriter, AppendPcs
    <2>4. \A u \in Threads : writerLock'[Home[u]] = u <=> writerLock[Home[u]] = u \/ u = t
      BY <1>a, <2>1
    <2>5. \A p \in Processes : \A u \in Threads :
              processLock'[p] = u \/ writerLock'[p] = u => Home[u] = p
      BY <1>a, <2>1 DEF LocksInv
    <2> QED
      BY <2>1, <2>2, <2>3, <2>4, <2>5 DEF LocksInv
  <1>4. ASSUME NEW t \in Threads, ReturnOrRaise(t) PROVE LocksInv'
    <2>1. /\ pc[t] = "release" /\ pc' = [pc EXCEPT ![t] = "idle"] /\ UNCHANGED stage
          /\ writerLock' = [writerLock EXCEPT ![Home[t]] = None]
          /\ processLock' = IF depth[t] = 1 THEN [processLock EXCEPT ![Home[t]] = None]
                                            ELSE processLock
      BY <1>4 DEF ReturnOrRaise, ReleaseAuthority, Goto
    <2>2. depth[t] = 1 <=> ~Holding(t)
      BY <2>1 DEF IInv, AuthorityInv, AppendPcs
    <2>3. processLock[Home[t]] = t /\ writerLock[Home[t]] = t
      BY <2>1 DEF LocksInv, OwnsProcess, OwnsWriter, AppendPcs
    <2>4. \A u \in Threads : OwnsProcess(u)' <=> OwnsProcess(u) /\ (u = t => Holding(t))
      BY <1>a, <2>1 DEF OwnsProcess, AppendPcs, Holding
    <2>5. \A u \in Threads : OwnsWriter(u)' <=> OwnsWriter(u) /\ u # t
      BY <1>a, <2>1 DEF OwnsWriter, AppendPcs
    <2>6. \A u \in Threads :
              processLock'[Home[u]] = u <=> processLock[Home[u]] = u /\ (u = t => Holding(t))
      BY <1>a, <2>1, <2>2, <2>3
    <2>7. \A u \in Threads : writerLock'[Home[u]] = u <=> writerLock[Home[u]] = u /\ u # t
      BY <1>a, <2>1, <2>3
    <2>8. \A p \in Processes : \A u \in Threads :
              processLock'[p] = u \/ writerLock'[p] = u => Home[u] = p
      BY <1>a, <2>1 DEF LocksInv
    <2> QED
      BY <2>4, <2>5, <2>6, <2>7, <2>8 DEF LocksInv
  <1>5. ASSUME NEW t \in Threads,
               CallAppend(t) \/ Build(t) \/ Link(t) \/ SyncEvents(t) \/ Remember(t) \/ UpdateIndex(t)
        PROVE  LocksInv'
    <2>1. /\ UNCHANGED <<processLock, writerLock, stage>>
          /\ \E label \in Pcs :
                /\ pc' = [pc EXCEPT ![t] = label]
                /\ \/ pc[t] = "idle" /\ label = "process"
                   \/ pc[t] \in AppendPcs \ {"writer"} /\ label \in AppendPcs \ {"writer"}
      BY <1>5 DEF CallAppend, Build, Link, SyncEvents, Remember, UpdateIndex, Goto, lockVars,
                  AppendPcs, Pcs
    <2>2. \A u \in Threads : OwnsProcess(u)' <=> OwnsProcess(u)
      BY <1>a, <2>1 DEF OwnsProcess, AppendPcs, Holding
    <2>3. \A u \in Threads : OwnsWriter(u)' <=> OwnsWriter(u)
      BY <1>a, <2>1 DEF OwnsWriter, AppendPcs
    <2> QED
      BY <2>1, <2>2, <2>3 DEF LocksInv
  <1>6. ASSUME BeginPublication PROVE LocksInv'
    <2>1. /\ UNCHANGED <<processLock, writerLock>> /\ stage = "none" /\ stage' = "locking"
          /\ pc[Publisher] = "idle" /\ pc' = [pc EXCEPT ![Publisher] = "process"]
      BY <1>6 DEF BeginPublication, Goto, lockVars
    <2>2. \A u \in Threads : OwnsProcess(u)' <=> OwnsProcess(u)
      BY <1>a, <2>1 DEF OwnsProcess, AppendPcs, Holding, HeldStages
    <2>3. \A u \in Threads : OwnsWriter(u)' <=> OwnsWriter(u)
      BY <1>a, <2>1 DEF OwnsWriter, AppendPcs
    <2> QED
      BY <2>1, <2>2, <2>3 DEF LocksInv
  <1>7. ASSUME PublicationStep PROVE LocksInv'
    <2>1. /\ pc' = pc /\ pc[Publisher] = "idle" /\ stage \in HeldStages
          /\ \/ UNCHANGED lockVars /\ stage' \in HeldStages
             \/ LeavePublication
      BY <1>7 DEF PublicationStep, ReadCandidate, BudgetCallback, Recheck, Publish, Stage,
                  HeldStages, IInv, StageInv
    <2>2. CASE LeavePublication
      BY <2>1, <2>2, LocksLeft
    <2>3. CASE UNCHANGED lockVars /\ stage' \in HeldStages
      BY <2>1, <2>3 DEF LocksInv, OwnsProcess, OwnsWriter, Holding, lockVars
    <2> QED
      BY <2>1, <2>2, <2>3
  <1>8. ASSUME PowerLoss \/ \E p \in Processes : Crash(p) PROVE LocksInv'
    <2>1. \E gone \in SUBSET Processes : Forget(gone)
      BY <1>8 DEF PowerLoss, Crash
    <2> QED
      BY <2>1, LocksForgotten DEF IInv
  <1>9. ASSUME (\E p \in Processes : Resume(p)) \/ UNCHANGED vars PROVE LocksInv'
    BY <1>9 DEF Resume, vars, lockVars, LocksInv, OwnsProcess, OwnsWriter, Holding
  <1> QED
    BY <1>1, <1>2, <1>3, <1>4, <1>5, <1>6, <1>7, <1>8, <1>9 DEF Next, Step

-----------------------------------------------------------------------------
(* The theorems.                                                            *)

LEMMA Invariance == Spec => []IInv
  BY InvInit, InvStep, PTL DEF Spec

(* Types, for any number of processes and threads: in particular a thread   *)
(* never holds the authority more than twice, and the index never counts    *)
(* more events than were appended (append_event, UpdateIndex).              *)
THEOREM TypeCorrect == Spec => []TypeOK
  <1>1. IInv => TypeOK
    BY DEF IInv
  <1> QED
    BY Invariance, <1>1, PTL

(* The memory of every writer is a prefix of the files, whatever died and   *)
(* whoever resumed (append_event, resume).                                  *)
THEOREM MemoryFollowsDisk == Spec => []MemoryIsPrefix
  <1>1. IInv => MemoryIsPrefix
    BY DEF IInv
  <1> QED
    BY Invariance, <1>1, PTL

(* The navigation index never counts an event that can still be lost        *)
(* (_update_navigation_index).                                              *)
THEOREM IndexNeverAhead == Spec => []IndexIsDurable
  <1>1. IInv => IndexIsDurable
    BY DEF IInv
  <1> QED
    BY Invariance, <1>1, PTL

(* A fine start is published while the run holds exactly the event that it  *)
(* names (append_fine_started).                                             *)
THEOREM FineStartIsAlone == Spec => PublishedAtOneEvent
  <1>1. IInv /\ [Next]_vars => [bound' # bound => Len(log) = 1 /\ bound' = log[1].id]_vars
    <2> SUFFICES ASSUME IInv, [Next]_vars, bound' # bound
                 PROVE  Len(log) = 1 /\ bound' = log[1].id
      OBVIOUS
    <2>1. ASSUME NEW t \in Threads, CallAppend(t) \/ Step(t) PROVE UNCHANGED bound
      BY <2>1 DEF Step, diskVars, CallAppend, TakeProcessLock, TakeFlock, TakeWriterLock,
                  Build, Link, SyncEvents, Remember, UpdateIndex, ReturnOrRaise
    <2>2. ASSUME BeginPublication \/ ReadCandidate \/ BudgetCallback \/ Recheck
          PROVE  UNCHANGED bound
      BY <2>2 DEF diskVars, BeginPublication, ReadCandidate, BudgetCallback, Recheck
    <2>3. ASSUME PowerLoss \/ \E p \in Processes : Crash(p) \/ Resume(p)
          PROVE  UNCHANGED bound
      BY <2>3 DEF diskVars, PowerLoss, Crash, Resume, Forget
    <2>4. Publish
      BY <2>1, <2>2, <2>3 DEF Next, PublicationStep, vars, diskVars
    <2> QED
      BY <2>4 DEF Publish, IInv, StageInv
  <1> QED
    BY Invariance, <1>1, PTL DEF Spec, PublishedAtOneEvent

(* No circle of locks, for any number of processes and threads: the owner   *)
(* of a process's lock waits for the file lock at most, and the owner of    *)
(* the file lock waits for nobody.                                          *)
THEOREM NoLockCircle == Spec => [](SomebodyMoves /\ WriterLockIsFree)
  <1>1. ASSUME IInv, LocksInv, NEW t \in Threads, Inside(t)
        PROVE  Busy(t) /\ ~Waits(t)
    <2>1. Busy(t)
      BY <1>1 DEF Inside, Busy, AppendPcs
    <2>2. ASSUME pc[t] = "process" PROVE processLock[Home[t]] = t
      BY <1>1, <2>2 DEF Inside, LocksInv, OwnsProcess
    <2>3. pc[t] # "flock"
      BY <1>1 DEF Inside, AppendPcs, Holding, IInv, StageInv
    <2>4. ASSUME pc[t] = "writer" PROVE writerLock[Home[t]] = None
      <3>1. writerLock[Home[t]] \in Threads \cup {None}
        BY <1>1, StoreAssumption DEF IInv, TypeOK
      <3>2. ASSUME NEW u \in Threads, writerLock[Home[t]] = u PROVE FALSE
        <4>1. OwnsWriter(u)
          BY <1>1, <3>2, StoreAssumption DEF LocksInv
        <4>2. u = t
          BY <1>1, <4>1, OneInside DEF OwnsWriter, Inside
        <4> QED
          BY <2>4, <4>1, <4>2 DEF OwnsWriter
      <3> QED
        BY <3>1, <3>2
    <2> QED
      BY <2>1, <2>2, <2>3, <2>4 DEF Waits
  <1>2. IInv /\ LocksInv => SomebodyMoves
    <2> SUFFICES ASSUME IInv, LocksInv, NEW t \in Threads, Waits(t)
                 PROVE  \E u \in Threads : u # t /\ Busy(u) /\ ~Waits(u)
      BY DEF SomebodyMoves
    <2>1. ASSUME flock # None PROVE \E u \in Threads : u # t /\ Busy(u) /\ ~Waits(u)
      <3>1. flock \in Threads /\ Inside(flock)
        BY <2>1 DEF IInv, TypeOK, AuthorityInv
      <3> QED
        BY <1>1, <3>1
    <2>2. ASSUME flock = None PROVE \E u \in Threads : u # t /\ Busy(u) /\ ~Waits(u)
      <3>1. \A u \in Threads : ~Inside(u)
        BY <2>2, StoreAssumption DEF IInv, AuthorityInv
      <3>2. pc[t] = "process" /\ processLock[Home[t]] \notin {None, t}
        BY <2>2, <3>1 DEF Waits, Inside, AppendPcs
      <3>3. PICK u \in Threads : u # t /\ processLock[Home[t]] = u
        BY <3>2, StoreAssumption DEF IInv, TypeOK
      <3>4. OwnsProcess(u)
        BY <3>3, StoreAssumption DEF LocksInv
      <3>5. pc[u] = "flock"
        BY <3>1, <3>4 DEF OwnsProcess, Inside
      <3> QED
        BY <2>2, <3>3, <3>5 DEF Busy, Waits
    <2> QED
      BY <2>1, <2>2
  <1>3. IInv /\ LocksInv => WriterLockIsFree
    BY <1>1 DEF WriterLockIsFree, Waits, Inside, AppendPcs
  <1>4. Spec => []LocksInv
    BY LocksInit, LocksStep, Invariance, PTL DEF Spec
  <1> QED
    BY Invariance, <1>2, <1>3, <1>4, PTL

(* Every step adds a link to the abstract chain, acknowledges its last one, *)
(* loses a tail that was not acknowledged, or is not seen.                  *)
LEMMA RefinementStep ==
    ASSUME IInv, IInv', [Next]_vars
    PROVE  [Abstract!Next]_(Abstract!vars)
  <1> USE DEF Abstract!vars, Abstract!Next
  <1>1. ASSUME NEW t \in Threads, Link(t) PROVE [Abstract!Next]_(Abstract!vars)
    <2>1. acked' = acked /\ pc[t] = "link"
      BY <1>1 DEF Link
    <2>2. CASE log' = log
      BY <2>1, <2>2
    <2>3. CASE log' = Append(log, draft[t]) /\ Memory(t) = log
      <3>1. Drafting(t) /\ draft[t] \in Abstract!Entry
        BY <2>1, Events DEF AppendPcs, Event, Abstract!Entry
      <3>2. draft[t].id \notin Abstract!IdsOf(log)
        <4>1. log \in Seq(Event)
          BY Events
        <4>2. \A i \in 1 .. Len(log) : log[i].id # draft[t].id
          BY <2>1, <3>1 DEF IInv, FreshInv, Unlinked
        <4> QED
          BY <4>1, <4>2 DEF Abstract!IdsOf
      <3>3. Extends(draft[t], log)
        BY <2>1, <2>3 DEF IInv, AppendInv
      <3>4. Abstract!Add
        BY <2>1, <2>3, <3>1, <3>2, <3>3 DEF Abstract!Add, Extends
      <3> QED
        BY <3>4
    <2> QED
      BY <1>1, <2>2, <2>3, LinkAppends
  <1>2. ASSUME NEW t \in Threads, UpdateIndex(t) PROVE [Abstract!Next]_(Abstract!vars)
    <2>1. /\ log' = log /\ acked' \in {acked, acked \cup {draft[t].id}}
          /\ log # <<>> /\ log[Len(log)] = draft[t] /\ log \in Seq(Event)
      BY <1>2, Events DEF UpdateIndex, IInv, AppendInv
    <2>2. Len(log) \in DOMAIN log
      BY <2>1
    <2>3. acked' = acked \/ acked' = acked \cup {log[Len(log)].id}
      BY <2>1
    <2> QED
      BY <2>1, <2>2, <2>3 DEF Abstract!Acknowledge
  <1>3. ASSUME PowerLoss PROVE [Abstract!Next]_(Abstract!vars)
    <2>1. PICK n \in synced .. Len(log) : log' = SubSeq(log, 1, n)
      BY <1>3 DEF PowerLoss
    <2>2. synced' = synced /\ synced \in Nat /\ Len(log) \in Nat /\ acked' = acked
      BY <1>3, Events DEF PowerLoss, Forget
    <2>3. log \in Seq(Event) /\ log' \in Seq(Event) /\ Len(log') = n /\ n \in 0 .. Len(log)
      BY <2>1, <2>2, Events
    <2>4. acked \subseteq Abstract!IdsOf(log')
      <3>1. \A id \in acked : \E i \in 1 .. synced : log'[i].id = id
        BY <2>2 DEF IInv, AckInv
      <3>2. 1 .. synced \subseteq DOMAIN log'
        BY <2>1, <2>2, <2>3
      <3> QED
        BY <3>1, <3>2 DEF Abstract!IdsOf
    <2>5. Abstract!LoseTail
      BY <2>1, <2>2, <2>3, <2>4 DEF Abstract!LoseTail
    <2> QED
      BY <2>5
  <1>4. \/ \E t \in Threads : Link(t) \/ UpdateIndex(t)
        \/ PowerLoss
        \/ UNCHANGED <<log, acked>>
    BY DEF Next, Step, PublicationStep, vars, diskVars, CallAppend, TakeProcessLock,
           TakeFlock, TakeWriterLock, Build, SyncEvents, Remember, ReturnOrRaise,
           BeginPublication, ReadCandidate, BudgetCallback, Recheck, Publish,
           Crash, Resume, Forget
  <1> QED
    BY <1>1, <1>2, <1>3, <1>4

(* The store implements EventLog: a chain that only grows, except for the   *)
(* tail of appends that never returned, whatever processes and threads do   *)
(* and however often they or the machine die.                               *)
THEOREM Implementation == Spec => ImplementsEventLog
  <1>1. Init => Abstract!Init
    BY DEF Init, Abstract!Init
  <1>2. IInv /\ IInv' /\ [Next]_vars => [Abstract!Next]_(Abstract!vars)
    BY RefinementStep
  <1> QED
    BY Invariance, <1>1, <1>2, PTL DEF Spec, ImplementsEventLog, Abstract!Spec
=============================================================================
