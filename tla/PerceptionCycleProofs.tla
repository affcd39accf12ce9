------------------------ MODULE PerceptionCycleProofs ------------------------
(***************************************************************************)
(* The inductive invariant of PerceptionCycle, its safety theorems and the *)
(* implementation of AcceptedViews, for any views, any window and every    *)
(* bound on captures and traces.                                           *)
(*                                                                         *)
(* First the algorithm: what the integration of a whole set of sources     *)
(* votes for, by induction over the finite set, and the window a capture   *)
(* may join.  Then the engine, step by step.  Three defensive branches of  *)
(* the code are shown to be dead: a staging or a failing inference never   *)
(* meets a living worker, and a commit never meets a committed view.       *)
(***************************************************************************)
EXTENDS PerceptionCycle, Integers, FiniteSetTheorems, TLAPS

-----------------------------------------------------------------------------
(* The inductive invariant.                                                 *)

\* a trace the engine may own: the whole answer of a worker that has ended
Complete ==
    worker = "gone" /\ exitcode = 0 /\ outcome = "result" /\ samples >= MinTrace

SamplerPcs == {"opening", "starting", "exposing", "finishing", "writing",
               "abandon", "cancelling"}
CommitPcs == {"marking", "syncing", "accepting"}

(* A call of the sampler is in progress only where the engine waits for it. *)
CallInv ==
    /\ call # "none" => <<pc, call>> \in {<<"starting", "start">>,
                                          <<"finishing", "finish">>,
                                          <<"cancelling", "cancel">>}
    /\ call = "none" => message = "none"

(* What is in the pipe, apart from "ready", is what the worker left with.   *)
MessageInv ==
    /\ pc = "opening" => worker = "none" /\ pipe = <<>>
    /\ \A i \in 1 .. Len(pipe) :
            pipe[i] # "ready" => worker \in {"sent", "gone"} /\ pipe[i] = outcome
    /\ message \notin {"none", "ready"} =>
            worker \in {"sent", "gone"} /\ message = outcome

(* The sampler, the pending capture and the pending commit exclude each     *)
(* other as the calls need them.                                            *)
PendingInv ==
    /\ pendingKey = None <=> ~pendingSampler
    /\ pendingAttempt = None <=> ~pendingSampler
    /\ pendingTrace => pendingSampler
    /\ pc \in SamplerPcs => pendingSampler
    /\ pc = "writing" => pendingTrace
    /\ pendingCommit # None => ~pendingSampler
    /\ pc \in CommitPcs => pendingCommit # None

(* A worker that is alive belongs to the pending sampler.                   *)
AliveInv == WorkerAlive => pendingSampler

TraceInv ==
    /\ pendingTrace => Complete
    /\ pc = "finishing" /\ call = "none" /\ returned = "ok" => Complete

(* A poisoned engine has neither a trace nor a candidate to go on with.     *)
PoisonInv ==
    /\ poisoned => ~pendingTrace /\ pendingCommit = None /\ pc \in {"idle", "cancelling"}
    /\ pc = "cancelling" /\ pendingTrace => call = "none" /\ returned = "ok"

(* An attempt is accepted for one view only.                                *)
FreshInv ==
    /\ \A v \in Views : acknowledged[v] # None => acknowledged[v] <= attempts
    /\ pendingAttempt # None =>
            /\ pendingAttempt <= attempts
            /\ \A v \in Views : acknowledged[v] # pendingAttempt
    /\ pendingCommit # None =>
            /\ pendingCommit.attempt <= attempts
            /\ \A v \in Views : acknowledged[v] # pendingCommit.attempt

(* What has been acknowledged is on the disk, for good.                     *)
DiskInv ==
    /\ \A v \in Views : acknowledged[v] # None => v \in synced /\ marker[v] = acknowledged[v]
    /\ pc \in {"syncing", "accepting"} =>
            /\ marker[pendingCommit.view] = pendingCommit.attempt
            /\ acknowledged[pendingCommit.view] = None
    /\ pc = "accepting" => pendingCommit.view \in synced

(* The window: views of the current continuous run, all different.          *)
WindowInv ==
    /\ IsFiniteSet(continuity) /\ sources \subseteq continuity
    /\ \A s \in continuity : \E v \in Views : acknowledged[v] = s.attempt
    /\ \A s, t \in sources : s # t =>
            Independent(s, t) /\ s.time # t.time /\ s.attempt # t.attempt
    /\ \A s \in sources : Continuous(s, continuity)

\* c may become the newest source, with the older ones of the set w
Joins(c, w) ==
    /\ c \in w /\ w \subseteq sources \cup {c}
    /\ \A s \in sources : s.time < c.time
    /\ \A s \in continuity : s.time <= c.time
    /\ \A s \in w \ {c} :
            /\ Independent(s, c)
            /\ \E p \in sources : /\ s.time <= p.time /\ p.time < c.time
                                  /\ c.time - p.time <= MaxGap

(* The candidate is the window of its own capture, not yet committed.       *)
CommitInv ==
    /\ pendingCommit # None =>
            /\ pendingCommit.view[2] \notin captureRoots
            /\ \E c \in pendingCommit.sources :
                    c.attempt = pendingCommit.attempt /\ Joins(c, pendingCommit.sources)
    /\ pendingKey # None => pendingKey \notin captureRoots

\* the map is the vote of these views
IsVote(map, views) ==
    LET hit == UNION {Sees[t.pose].hit : t \in views}
    IN  /\ map.views = views
        /\ map.occupied = hit
        /\ \A v \in Voxels \ hit :
                map.counts[v] = Cardinality({t \in views : v \in Sees[t.pose].free})
        /\ map.sequence = 2 * Cardinality(views)
        /\ map.state = "map_ready" <=> Cardinality(views) >= MinSources
        /\ \E t \in views : t.time = map.started
        /\ \A t \in views : map.started <= t.time

\* each source has its updates, and each update is the vote up to its source
Votes(ups, srcs) ==
    /\ {u.of : u \in ups} = AttemptsOf(srcs)
    /\ IsFiniteSet(ups)
    /\ \A u \in ups, s \in srcs : u.of = s.attempt => IsVote(u.map, Upto(s, srcs))

UpdatesInv ==
    /\ Votes(updates, sources)
    /\ pendingCommit # None => Votes(pendingCommit.updates, pendingCommit.sources)

IInv ==
    /\ TypeOK
    /\ CallInv /\ MessageInv /\ PendingInv
    /\ AliveInv /\ TraceInv /\ PoisonInv /\ NoLeakedWorker
    /\ FreshInv /\ DiskInv
    /\ WindowInv /\ CommitInv /\ UpdatesInv

-----------------------------------------------------------------------------
(* Induction over a finite set, and over its size.                          *)

(* A set of subsets that has each subset all of whose smaller subsets it    *)
(* has, has the whole finite set.                                           *)
LEMMA SubsetInduction ==
    ASSUME NEW S, IsFiniteSet(S), NEW G,
           \A T \in SUBSET S : (\A U \in SUBSET T : U # T => U \in G) => T \in G
    PROVE  S \in G
  <1> DEFINE Bad == {T \in SUBSET S : T \notin G}
  <1>1. IsWellFoundedOn(StrictSubsetOrdering(S), SUBSET S)
    BY FS_StrictSubsetOrderingWellFounded, FS_FiniteSubsetsOfFinite
  <1>2. SUFFICES ASSUME Bad # {} PROVE FALSE
    OBVIOUS
  <1>3. PICK T \in Bad : \A U \in Bad : ~ (<<U, T>> \in StrictSubsetOrdering(S))
    <2> HIDE DEF Bad
    <2>1. Bad \subseteq SUBSET S
      BY DEF Bad
    <2> QED
      BY <1>1, <1>2, <2>1, WFMin
  <1>4. \A U \in SUBSET T : U # T => U \in G
    BY <1>3 DEF StrictSubsetOrdering
  <1> QED
    BY <1>3, <1>4

LEMMA SizeInduction ==
    ASSUME NEW G, 0 \in G, \A n \in Nat : n \in G => n + 1 \in G
    PROVE  Nat \subseteq G
  <1> DEFINE Bad == {n \in Nat : n \notin G}
  <1>1. SUFFICES ASSUME Bad # {} PROVE FALSE
    OBVIOUS
  <1>2. PICK n \in Bad : \A m \in Bad : ~ (<<m, n>> \in OpToRel(<, Nat))
    <2> HIDE DEF Bad
    <2>1. Bad \subseteq Nat
      BY DEF Bad
    <2> QED
      BY <1>1, <2>1, WFMin, NatLessThanWellFounded
  <1>3. \A m \in Bad : ~(m < n)
    BY <1>2 DEF OpToRel
  <1>4. n \in Nat /\ n # 0 /\ n - 1 \in Nat
    OBVIOUS
  <1>5. n - 1 \in G
    BY <1>3, <1>4
  <1>6. (n - 1) + 1 \in G
    BY <1>4, <1>5
  <1> QED
    BY <1>4, <1>6

-----------------------------------------------------------------------------
(* The map of a set of sources.                                             *)

Last(s) == CHOOSE t \in s : \A u \in s : u.time <= t.time

(* A finite set of sources has a newest one.                                *)
LEMMA LastIsNewest ==
    ASSUME NEW S \in SUBSET Source, IsFiniteSet(S), S # {}
    PROVE  Last(S) \in S /\ \A u \in S : u.time <= Last(S).time
  <1> DEFINE G == {T \in SUBSET S : T # {} => \E t \in T : \A u \in T : u.time <= t.time}
  <1>1. ASSUME NEW T \in SUBSET S, \A U \in SUBSET T : U # T => U \in G
        PROVE  T \in G
    <2>1. SUFFICES ASSUME T # {} PROVE \E t \in T : \A u \in T : u.time <= t.time
      OBVIOUS
    <2>2. PICK x \in T : TRUE
      BY <2>1
    <2>3. T \ {x} \in G
      BY <1>1
    <2>4. CASE T \ {x} = {}
      BY <2>4 DEF Source
    <2>5. CASE T \ {x} # {}
      <3>1. PICK t \in T \ {x} : \A u \in T \ {x} : u.time <= t.time
        BY <2>3, <2>5
      <3> QED
        BY <3>1 DEF Source
    <2> QED
      BY <2>4, <2>5
  <1>2. S \in G
    <2> HIDE DEF G
    <2> QED
      BY <1>1, SubsetInduction
  <1> QED
    BY <1>2 DEF Last

\* f is the map of each set of D, oldest source first
MapsOf(f, D) ==
    f = [s \in D |-> IF s = {} THEN Unmapped ELSE Update(f[s \ {Last(s)}], Last(s))]

LEMMA MapsExist ==
    ASSUME NEW S \in SUBSET Source, IsFiniteSet(S)
    PROVE  \E f : MapsOf(f, SUBSET S)
  <1> DEFINE D(n) == {s \in SUBSET S : Cardinality(s) <= n}
             G == {n \in Nat : \E f : MapsOf(f, D(n))}
             next(f, n) == [s \in D(n) |-> IF s = {} THEN Unmapped
                                           ELSE Update(f[s \ {Last(s)}], Last(s))]
  <1>1. \A s \in SUBSET S : IsFiniteSet(s) /\ Cardinality(s) \in Nat
    BY FS_Subset, FS_CardinalityType
  <1>2. 0 \in G
    <2>1. D(0) = {{}}
      BY <1>1, FS_EmptySet
    <2>2. MapsOf([s \in D(0) |-> Unmapped], D(0))
      BY <2>1 DEF MapsOf
    <2> QED
      BY <2>2
  <1>3. ASSUME NEW n \in Nat, n \in G PROVE n + 1 \in G
    <2>1. PICK f : MapsOf(f, D(n))
      BY <1>3
    <2> DEFINE g == next(f, n + 1)
    <2>2. ASSUME NEW s \in D(n + 1), s # {} PROVE s \ {Last(s)} \in D(n)
      <3>1. s \in SUBSET Source /\ Last(s) \in s /\ IsFiniteSet(s)
        BY <1>1, <2>2, LastIsNewest
      <3>2. Cardinality(s \ {Last(s)}) = Cardinality(s) - 1
        BY <3>1, FS_RemoveElement
      <3> QED
        BY <1>1, <3>2
    <2>3. ASSUME NEW s \in D(n) PROVE g[s] = f[s]
      <3>1. s \in D(n + 1)
        BY <1>1
      <3> QED
        BY <2>1, <3>1 DEF MapsOf
    <2>4. g = next(g, n + 1)
      BY <2>2, <2>3
    <2>5. MapsOf(g, D(n + 1))
      BY <2>4 DEF MapsOf
    <2> QED
      BY <2>5
  <1>4. Cardinality(S) \in G
    <2> HIDE DEF G
    <2> QED
      BY <1>1, <1>2, <1>3, SizeInduction
  <1>5. D(Cardinality(S)) = SUBSET S
    BY <1>1, FS_Subset
  <1> QED
    BY <1>4, <1>5

(* MapOver folds one source after the other.                                *)
LEMMA MapOverFolds ==
    ASSUME NEW S \in SUBSET Source, IsFiniteSet(S)
    PROVE  \E f : MapsOf(f, SUBSET S) /\ MapOver(S) = f[S]
  <1> DEFINE map == CHOOSE f : MapsOf(f, SUBSET S)
  <1>1. MapOver(S) = map[S]
    BY DEF MapOver, Last, MapsOf
  <1>2. MapsOf(map, SUBSET S)
    BY MapsExist
  <1> QED
    BY <1>1, <1>2

\* what bind_mapping_evidence and promote_to_ready make of an integrated map
LEMMA BindFields ==
    ASSUME NEW views, NEW counts, NEW occupied, NEW sequence, NEW begun, NEW created
    PROVE  Bind([views |-> views, counts |-> counts, occupied |-> occupied,
                 sequence |-> sequence, started |-> begun, created |-> created,
                 state |-> "mapping"]) =
                [views |-> views, counts |-> counts, occupied |-> occupied,
                 sequence |-> sequence + 1, started |-> begun, created |-> created,
                 state |-> IF Cardinality(views) >= MinSources THEN "map_ready" ELSE "mapping"]
  <1> DEFINE record(n, x) == [views |-> views, counts |-> counts, occupied |-> occupied,
                              sequence |-> n, started |-> begun, created |-> created,
                              state |-> x]
             state == IF Cardinality(views) >= MinSources THEN "map_ready" ELSE "mapping"
             old == record(sequence, "mapping")
             numbered == record(sequence + 1, "mapping")
             bound == record(sequence + 1, state)
  <1>1. [old EXCEPT !.sequence = old.sequence + 1] = numbered
    OBVIOUS
  <1>2. [numbered EXCEPT !.state = state] = bound
    <2> HIDE DEF state
    <2> QED
      OBVIOUS
  <1>3. old.views = views
    OBVIOUS
  <1>4. Bind(old) = [[old EXCEPT !.sequence = old.sequence + 1]
                         EXCEPT !.state = IF Cardinality(old.views) >= MinSources
                                          THEN "map_ready" ELSE "mapping"]
    <2> HIDE DEF old
    <2> QED
      BY DEF Bind
  <1> HIDE DEF old
  <1>5. Bind(old) = [numbered EXCEPT !.state = state]
    BY <1>1, <1>3, <1>4
  <1> HIDE DEF numbered, bound
  <1>6. Bind(old) = bound
    BY <1>2, <1>5
  <1> QED
    BY <1>6 DEF old, bound

\* what Update makes of a map, field by field
LEMMA UpdateFields ==
    ASSUME NEW map, NEW c
    PROVE  LET seen == Sees[c.pose]
               occupied == map.occupied \cup seen.hit
               views == map.views \cup {c}
           IN  Update(map, c) =
                  [views |-> views,
                   counts |-> [v \in Voxels |-> IF v \in seen.free \ occupied
                                                THEN map.counts[v] + 1 ELSE map.counts[v]],
                   occupied |-> occupied,
                   sequence |-> (map.sequence + 1) + 1,
                   started |-> IF map.views = {} THEN c.time ELSE map.started,
                   created |-> c.time,
                   state |-> IF Cardinality(views) >= MinSources THEN "map_ready"
                                                                ELSE "mapping"]
  BY BindFields DEF Update, Integrate

LEMMA UpdateType ==
    ASSUME NEW map \in Snapshot, NEW c \in Source
    PROVE  Update(map, c) \in Snapshot
  <1> DEFINE seen == Sees[c.pose]
             occupied == map.occupied \cup seen.hit
             views == map.views \cup {c}
             counts == [v \in Voxels |-> IF v \in seen.free \ occupied
                                         THEN map.counts[v] + 1 ELSE map.counts[v]]
             sequence == (map.sequence + 1) + 1
             begun == IF map.views = {} THEN c.time ELSE map.started
             state == IF Cardinality(views) >= MinSources THEN "map_ready" ELSE "mapping"
  <1>1. c.pose \in Poses /\ c.time \in Nat
    BY DEF Source
  <1>2. /\ map.views \in SUBSET Source /\ map.occupied \in SUBSET Voxels
        /\ map.sequence \in Nat /\ map.started \in Nat /\ map.counts \in [Voxels -> Nat]
    BY DEF Snapshot
  <1>3. seen.hit \in SUBSET Voxels
    BY <1>1, MapAssumption
  <1>4. /\ views \in SUBSET Source /\ occupied \in SUBSET Voxels /\ sequence \in Nat
        /\ begun \in Nat /\ state \in {"unmapped", "mapping", "map_ready"}
    BY <1>1, <1>2, <1>3
  <1>5. counts \in [Voxels -> Nat]
    BY <1>2
  <1>6. Update(map, c) = [views |-> views, counts |-> counts, occupied |-> occupied,
                          sequence |-> sequence, started |-> begun, created |-> c.time,
                          state |-> state]
    BY UpdateFields
  <1> HIDE DEF views, occupied, counts, sequence, begun, state
  <1> QED
    BY <1>1, <1>4, <1>5, <1>6 DEF Snapshot

LEMMA MapOverType ==
    ASSUME NEW S \in SUBSET Source, IsFiniteSet(S)
    PROVE  MapOver(S) \in Snapshot
  <1>1. PICK f : MapsOf(f, SUBSET S) /\ MapOver(S) = f[S]
    BY MapOverFolds
  <1> DEFINE G == {T \in SUBSET S : f[T] \in Snapshot}
  <1>2. ASSUME NEW T \in SUBSET S, \A U \in SUBSET T : U # T => U \in G
        PROVE  T \in G
    <2>1. CASE T = {}
      <3>1. f[T] = Unmapped
        BY <1>1, <2>1 DEF MapsOf
      <3>2. Unmapped \in Snapshot
        BY DEF Unmapped, Snapshot
      <3> QED
        BY <3>1, <3>2
    <2>2. CASE T # {}
      <3>1. IsFiniteSet(T)
        BY FS_Subset
      <3>2. Last(T) \in T /\ Last(T) \in Source
        BY <2>2, <3>1, LastIsNewest
      <3>3. f[T \ {Last(T)}] \in Snapshot
        BY <1>2, <3>2
      <3>4. f[T] = Update(f[T \ {Last(T)}], Last(T))
        BY <1>1, <2>2 DEF MapsOf
      <3> QED
        BY <3>2, <3>3, <3>4, UpdateType
    <2> QED
      BY <2>1, <2>2
  <1>3. S \in G
    <2> HIDE DEF G
    <2> QED
      BY <1>2, SubsetInduction
  <1> QED
    BY <1>1, <1>3

\* the map of some views, or the empty map of none
Accounts(map, views) ==
    IF views = {} THEN map = Unmapped ELSE IsVote(map, views)

(* A later source turns the vote of the earlier ones into the vote of all.  *)
LEMMA UpdateVotes ==
    ASSUME NEW W \in SUBSET Source, IsFiniteSet(W), NEW map \in Snapshot, Accounts(map, W),
           NEW c \in Source, \A s \in W : s.time < c.time
    PROVE  IsVote(Update(map, c), W \cup {c})
  <1> DEFINE hit == UNION {Sees[t.pose].hit : t \in W}
             seen(v, X) == {t \in X : v \in Sees[t.pose].free}
             X == W \cup {c}
             new == Update(map, c)
  <1>1. c \notin W /\ c.time \in Nat
    BY DEF Source
  <1>2. /\ map.views = W /\ map.occupied = hit
        /\ \A v \in Voxels \ hit : map.counts[v] = Cardinality(seen(v, W))
        /\ map.sequence = 2 * Cardinality(W)
    <2>1. CASE W = {}
      <3>1. /\ map.views = {} /\ map.occupied = {} /\ map.sequence = 0
            /\ \A v \in Voxels : map.counts[v] = 0
        BY <2>1 DEF Accounts, Unmapped
      <3>2. \A v : seen(v, W) = {}
        BY <2>1
      <3> QED
        BY <2>1, <3>1, <3>2, FS_EmptySet
    <2>2. CASE W # {}
      BY <2>2 DEF Accounts, IsVote
    <2> QED
      BY <2>1, <2>2
  <1>3. Cardinality(X) = Cardinality(W) + 1 /\ Cardinality(W) \in Nat /\ IsFiniteSet(X)
    BY <1>1, FS_AddElement, FS_CardinalityType
  <1>4. UNION {Sees[t.pose].hit : t \in X} = hit \cup Sees[c.pose].hit
    OBVIOUS
  <1> HIDE DEF hit, X
  <1>5. /\ new.views = X
        /\ new.occupied = hit \cup Sees[c.pose].hit
        /\ new.counts = [v \in Voxels |-> IF v \in Sees[c.pose].free \ (hit \cup Sees[c.pose].hit)
                                          THEN map.counts[v] + 1 ELSE map.counts[v]]
        /\ new.sequence = (map.sequence + 1) + 1
        /\ new.started = (IF map.views = {} THEN c.time ELSE map.started)
        /\ new.state = (IF Cardinality(X) >= MinSources THEN "map_ready" ELSE "mapping")
    BY <1>2, UpdateFields DEF X
  <1> HIDE DEF new
  <1>6. ASSUME NEW v \in Voxels \ (hit \cup Sees[c.pose].hit)
        PROVE  new.counts[v] = Cardinality(seen(v, X))
    <2>1. map.counts[v] = Cardinality(seen(v, W)) /\ IsFiniteSet(seen(v, W))
      BY <1>2, FS_Subset
    <2>2. CASE v \in Sees[c.pose].free
      <3>1. seen(v, X) = seen(v, W) \cup {c} /\ c \notin seen(v, W)
        BY <1>1, <2>2 DEF X
      <3>2. Cardinality(seen(v, X)) = Cardinality(seen(v, W)) + 1
        <4> HIDE DEF seen
        <4> QED
          BY <2>1, <3>1, FS_AddElement
      <3> QED
        BY <1>5, <2>1, <2>2, <3>2
    <2>3. CASE v \notin Sees[c.pose].free
      <3>1. seen(v, X) = seen(v, W)
        BY <2>3 DEF X
      <3> QED
        BY <1>5, <2>1, <2>3, <3>1
    <2> QED
      BY <2>2, <2>3
  <1>7. /\ \E t \in X : t.time = new.started
        /\ \A t \in X : new.started <= t.time
    <2>1. CASE W = {}
      BY <1>1, <1>2, <1>5, <2>1 DEF X
    <2>2. CASE W # {}
      <3>1. new.started = map.started /\ map.started \in Nat
        BY <1>2, <1>5, <2>2 DEF Snapshot
      <3>2. /\ \E t \in W : t.time = map.started
            /\ \A t \in W : map.started <= t.time
        BY <2>2 DEF Accounts, IsVote
      <3>3. map.started <= c.time
        <4>1. PICK t \in W : t.time = map.started
          BY <3>2
        <4> QED
          BY <1>1, <3>1, <4>1
      <3> QED
        BY <3>1, <3>2, <3>3 DEF X
    <2> QED
      BY <2>1, <2>2
  <1>8. new.sequence = 2 * Cardinality(X)
    BY <1>2, <1>3, <1>5
  <1>9. new.state = "map_ready" <=> Cardinality(X) >= MinSources
    BY <1>5
  <1>10. /\ UNION {Sees[t.pose].hit : t \in X} = hit \cup Sees[c.pose].hit
    BY <1>4 DEF X
  <1> QED
    BY <1>5, <1>6, <1>7, <1>8, <1>9, <1>10 DEF IsVote, new, X

\* sources of different times
Ordered(S) == \A s, t \in S : s # t => s.time # t.time

(* Folding a window of different times, oldest first, makes its vote.       *)
LEMMA MapOverVotes ==
    ASSUME NEW S \in SUBSET Source, IsFiniteSet(S), Ordered(S)
    PROVE  Accounts(MapOver(S), S)
  <1>1. PICK f : MapsOf(f, SUBSET S) /\ MapOver(S) = f[S]
    BY MapOverFolds
  <1> DEFINE G == {T \in SUBSET S : f[T] \in Snapshot /\ Accounts(f[T], T)}
  <1>2. ASSUME NEW T \in SUBSET S, \A U \in SUBSET T : U # T => U \in G
        PROVE  T \in G
    <2>1. CASE T = {}
      <3>1. f[T] = Unmapped
        BY <1>1, <2>1 DEF MapsOf
      <3>2. Unmapped \in Snapshot
        BY DEF Unmapped, Snapshot
      <3> QED
        BY <2>1, <3>1, <3>2 DEF Accounts
    <2>2. CASE T # {}
      <3> DEFINE c == Last(T)
                 W == T \ {c}
      <3>1. IsFiniteSet(T)
        BY FS_Subset
      <3>2. c \in T /\ c \in Source /\ \A u \in T : u.time <= c.time
        BY <2>2, <3>1, LastIsNewest
      <3>3. W \in SUBSET Source /\ IsFiniteSet(W) /\ W \cup {c} = T
        BY <3>1, <3>2, FS_RemoveElement
      <3>4. \A s \in W : s.time < c.time
        BY <3>2 DEF Source, Ordered
      <3>5. f[W] \in Snapshot /\ Accounts(f[W], W)
        BY <1>2, <3>2
      <3>6. f[T] = Update(f[W], c)
        BY <1>1, <2>2 DEF MapsOf
      <3> HIDE DEF c, W
      <3>7. f[T] \in Snapshot
        BY <3>2, <3>5, <3>6, UpdateType
      <3>8. IsVote(f[T], T)
        BY <3>2, <3>3, <3>4, <3>5, <3>6, UpdateVotes
      <3> QED
        BY <2>2, <3>7, <3>8 DEF Accounts
    <2> QED
      BY <2>1, <2>2
  <1>3. S \in G
    <2> HIDE DEF G
    <2> QED
      BY <1>2, SubsetInduction
  <1> QED
    BY <1>1, <1>3

-----------------------------------------------------------------------------
(* The window.                                                              *)

(* The newest of a set is the one member that is later than all others.     *)
LEMMA NewestOne ==
    ASSUME NEW S \in SUBSET Source, IsFiniteSet(S), NEW c \in S,
           \A s \in S \ {c} : s.time < c.time
    PROVE  Newest(1, S) = {c}
  <1> DEFINE later(s) == {t \in S : t.time > s.time}
  <1>1. \A s \in S : IsFiniteSet(later(s)) /\ Cardinality(later(s)) \in Nat
    BY FS_Subset, FS_CardinalityType
  <1>2. \A s \in S : Cardinality(later(s)) < 1 <=> later(s) = {}
    <2> HIDE DEF later
    <2> QED
      BY <1>1, FS_EmptySet
  <1>3. later(c) = {}
    BY DEF Source
  <1>4. \A s \in S \ {c} : later(s) # {}
    BY DEF Source
  <1> QED
    BY <1>2, <1>3, <1>4 DEF Newest

LEMMA NewestLast ==
    ASSUME NEW S \in SUBSET Source, IsFiniteSet(S), NEW n \in Newest(1, S)
    PROVE  n \in S /\ \A s \in S : s.time <= n.time
  <1> DEFINE later == {t \in S : t.time > n.time}
  <1>1. n \in S /\ Cardinality(later) < 1
    BY DEF Newest
  <1>2. IsFiniteSet(later) /\ Cardinality(later) \in Nat
    BY FS_Subset, FS_CardinalityType
  <1>3. later = {}
    <2> HIDE DEF later
    <2> QED
      BY <1>1, <1>2, FS_EmptySet
  <1> QED
    BY <1>1, <1>3 DEF Source

(* The clock of a new capture has passed all captures of the current run.   *)
LEMMA TimesPass ==
    ASSUME TypeOK, WindowInv, NEW time \in Times
    PROVE  time \in Nat /\ \A s \in continuity : s.time <= time
  <1>1. continuity \in SUBSET Source /\ IsFiniteSet(continuity) /\ MaxGap \in Nat
    BY EngineAssumption DEF TypeOK, WindowInv
  <1>2. CASE continuity = {}
    <2>1. Newest(1, continuity) = {}
      BY <1>2 DEF Newest
    <2> QED
      BY <1>2, <2>1 DEF Times
  <1>3. CASE continuity # {}
    <2>1. PICK n \in Newest(1, continuity), gap \in 0 .. MaxGap + 1 : time = n.time + gap
      BY <1>3 DEF Times
    <2>2. n \in continuity /\ \A s \in continuity : s.time <= n.time
      BY <1>1, NewestLast
    <2> QED
      BY <1>1, <2>1, <2>2 DEF Source
  <1> QED
    BY <1>2, <1>3

(* The window that inference prepares is one its source may join.           *)
LEMMA FreshSourcesJoin ==
    ASSUME TypeOK, WindowInv, NEW c \in Source, \A s \in sources : s.time < c.time,
           \A s \in continuity : s.time <= c.time
    PROVE  Joins(c, FreshSources(c))
  <1> DEFINE retained == sources \cup {c}
             tail == {s \in retained : Continuous(s, retained)}
             X == {s \in tail \ {c} : Independent(s, c)} \cup {c}
             later == {t \in X : t.time > c.time}
  <1>1. FreshSources(c) = Newest(MaxSources, X)
    BY DEF FreshSources
  <1>2. X \subseteq sources \cup {c} /\ c \in X
    OBVIOUS
  <1>3. later = {}
    <2>1. c.time \in Nat /\ \A s \in sources : s.time \in Nat
      BY DEF TypeOK, Source
    <2> QED
      BY <1>2, <2>1
  <1>4. Cardinality(later) < MaxSources
    <2>1. Cardinality(later) = 0
      BY <1>3, FS_EmptySet
    <2>2. MaxSources \in Nat /\ MaxSources >= 1
      BY EngineAssumption, MapAssumption
    <2> HIDE DEF later
    <2> QED
      BY <2>1, <2>2
  <1>5. c \in FreshSources(c) /\ FreshSources(c) \subseteq X
    BY <1>1, <1>2, <1>4 DEF Newest
  <1>6. ASSUME NEW s \in X \ {c}
        PROVE  /\ Independent(s, c)
               /\ \E p \in sources : /\ s.time <= p.time /\ p.time < c.time
                                     /\ c.time - p.time <= MaxGap
    <2>1. s \in sources /\ Continuous(s, retained) /\ Independent(s, c)
      OBVIOUS
    <2>2. s.time \in Nat /\ c.time \in Nat /\ c.time > s.time
      BY <2>1 DEF TypeOK, Source
    <2>3. PICK p \in retained : /\ s.time <= p.time /\ p.time < c.time
                                /\ c.time - p.time <= MaxGap
      BY <2>1, <2>2 DEF Continuous
    <2>4. p \in sources
      BY <2>2, <2>3
    <2> QED
      BY <2>1, <2>3, <2>4
  <1> HIDE DEF X
  <1> QED
    BY <1>2, <1>5, <1>6 DEF Joins

(* What the window becomes when its source has joined it.                   *)
LEMMA JoinedWindow ==
    ASSUME TypeOK, WindowInv, NEW w \in SUBSET Source, NEW c \in w, Joins(c, w)
    PROVE  /\ IsFiniteSet(w) /\ IsFiniteSet(continuity \cup {c})
           /\ Newest(1, w) = {c}
           /\ \A s, t \in w : s # t => Independent(s, t) /\ s.time # t.time
           /\ \A s \in w : Continuous(s, continuity \cup {c})
  <1>1. sources \in SUBSET Source /\ continuity \in SUBSET Source /\ sources \subseteq continuity
    BY DEF TypeOK, WindowInv
  <1>2. IsFiniteSet(w) /\ IsFiniteSet(continuity \cup {c})
    <2>1. IsFiniteSet(continuity \cup {c})
      BY FS_AddElement DEF WindowInv
    <2>2. w \subseteq continuity \cup {c}
      BY <1>1 DEF Joins
    <2> QED
      BY <2>1, <2>2, FS_Subset
  <1>3. \A s \in w \ {c} : s \in sources /\ s.time < c.time
    BY DEF Joins
  <1>4. Newest(1, w) = {c}
    BY <1>2, <1>3, NewestOne
  <1>5. ASSUME NEW s \in w, NEW t \in w, s # t
        PROVE  Independent(s, t) /\ s.time # t.time
    <2>1. s.time \in Nat /\ t.time \in Nat /\ c.time \in Nat
      BY DEF Source
    <2>2. CASE s = c
      <3>1. t \in w \ {c} /\ t.time < c.time
        BY <1>3, <1>5, <2>2
      <3>2. Independent(t, c)
        BY <3>1 DEF Joins
      <3> QED
        BY <2>1, <2>2, <3>1, <3>2 DEF Independent
    <2>3. CASE t = c
      <3>1. s \in w \ {c} /\ s.time < c.time
        BY <1>3, <1>5, <2>3
      <3>2. Independent(s, c)
        BY <3>1 DEF Joins
      <3> QED
        BY <2>1, <2>3, <3>1, <3>2
    <2>4. CASE s # c /\ t # c
      BY <1>3, <1>5, <2>4 DEF WindowInv
    <2> QED
      BY <2>2, <2>3, <2>4
  <1>6. ASSUME NEW s \in w, NEW t \in continuity \cup {c}, t.time > s.time
        PROVE  \E p \in continuity \cup {c} : /\ s.time <= p.time /\ p.time < t.time
                                              /\ t.time - p.time <= MaxGap
    <2>1. s.time \in Nat /\ t.time \in Nat /\ c.time \in Nat
      BY <1>1 DEF Source
    <2>2. s \in w \ {c} /\ s \in sources
      BY <1>3, <1>6, <2>1 DEF Joins
    <2>3. CASE t \in continuity
      BY <1>6, <2>2, <2>3 DEF WindowInv, Continuous
    <2>4. CASE t = c
      BY <1>1, <2>2, <2>4 DEF Joins
    <2> QED
      BY <2>3, <2>4
  <1>7. \A s \in w : Continuous(s, continuity \cup {c})
    BY <1>6 DEF Continuous
  <1> QED
    BY <1>2, <1>4, <1>5, <1>7

-----------------------------------------------------------------------------
(* The updates.                                                             *)

(* The newest accepted map is the vote of the whole window.                 *)
LEMMA LatestMapVotes ==
    ASSUME TypeOK, WindowInv, Votes(updates, sources)
    PROVE  LatestMap \in Snapshot /\ Accounts(LatestMap, sources)
  <1>1. /\ sources \in SUBSET Source /\ IsFiniteSet(sources)
        /\ \A u \in updates : u.map \in Snapshot /\ u.map.sequence \in Nat
    BY FS_Subset DEF TypeOK, WindowInv, FrameUpdate, Snapshot
  <1>2. \A u \in updates : \E s \in sources : u.of = s.attempt
    BY DEF Votes, AttemptsOf
  <1>3. \A s \in sources : \E u \in updates : u.of = s.attempt
    BY DEF Votes, AttemptsOf
  <1>4. \A s \in sources : /\ Upto(s, sources) \in SUBSET sources
                           /\ Cardinality(Upto(s, sources)) \in Nat
                           /\ Cardinality(Upto(s, sources)) <= Cardinality(sources)
                           /\ Cardinality(Upto(s, sources)) = Cardinality(sources)
                                  => Upto(s, sources) = sources
    <2> SUFFICES ASSUME NEW s \in sources
                 PROVE  /\ Upto(s, sources) \in SUBSET sources
                        /\ Cardinality(Upto(s, sources)) \in Nat
                        /\ Cardinality(Upto(s, sources)) <= Cardinality(sources)
                        /\ Cardinality(Upto(s, sources)) = Cardinality(sources)
                               => Upto(s, sources) = sources
      OBVIOUS
    <2>1. Upto(s, sources) \in SUBSET sources
      BY DEF Upto
    <2>2. IsFiniteSet(Upto(s, sources))
      BY <1>1, <2>1, FS_Subset
    <2> QED
      BY <1>1, <2>1, <2>2, FS_Subset, FS_CardinalityType
  <1>5. Cardinality(sources) \in Nat
    BY <1>1, FS_CardinalityType
  <1>6. CASE updates = {}
    <2>1. sources = {}
      BY <1>3, <1>6
    <2>2. LatestMap = Unmapped
      BY <1>6 DEF LatestMap
    <2>3. Unmapped \in Snapshot
      BY DEF Unmapped, Snapshot
    <2> QED
      BY <2>1, <2>2, <2>3 DEF Accounts
  <1>7. CASE updates # {}
    <2> DEFINE newest(u) == \A w \in updates : w.map.sequence <= u.map.sequence
               n == Last(sources)
    <2>1. sources # {}
      BY <1>2, <1>7
    <2>2. n \in sources /\ Upto(n, sources) = sources
      BY <1>1, <2>1, LastIsNewest DEF Upto
    <2>3. \A w \in updates : w.map.sequence <= 2 * Cardinality(sources)
      <3> SUFFICES ASSUME NEW w \in updates PROVE w.map.sequence <= 2 * Cardinality(sources)
        OBVIOUS
      <3>1. PICK s \in sources : w.of = s.attempt
        BY <1>2
      <3>2. w.map.sequence = 2 * Cardinality(Upto(s, sources))
        BY <3>1 DEF Votes, IsVote
      <3> QED
        BY <1>4, <1>5, <3>2
    <2>4. PICK m \in updates : m.of = n.attempt
      BY <1>3, <2>2
    <2>5. m.map.sequence = 2 * Cardinality(sources)
      BY <2>2, <2>4 DEF Votes, IsVote
    <2>6. newest(m)
      BY <2>3, <2>5
    <2> DEFINE u == CHOOSE x \in updates : newest(x)
    <2>7. u \in updates /\ newest(u)
      <3> HIDE DEF newest
      <3> QED
        BY <2>6
    <2>8. LatestMap = u.map
      BY <1>7 DEF LatestMap
    <2> HIDE DEF u
    <2>9. PICK s \in sources : u.of = s.attempt
      BY <1>2, <2>7
    <2>10. IsVote(u.map, Upto(s, sources))
      BY <2>7, <2>9 DEF Votes
    <2>11. u.map.sequence = 2 * Cardinality(Upto(s, sources))
      BY <2>10 DEF IsVote
    <2>12. 2 * Cardinality(sources) <= u.map.sequence
      BY <2>4, <2>5, <2>7
    <2>13. Upto(s, sources) = sources
      BY <1>4, <1>5, <2>11, <2>12
    <2> QED
      BY <1>1, <2>1, <2>7, <2>8, <2>10, <2>13 DEF Accounts
  <1> QED
    BY <1>6, <1>7

(* Rebuilt for a window that a source has joined, the updates are its votes,*)
(* whether one frame was added or all were replayed.                        *)
LEMMA RebuiltVotes ==
    ASSUME TypeOK, WindowInv, Votes(updates, sources),
           NEW w \in SUBSET Source, NEW c \in w, Joins(c, w),
           \A s, t \in w : s # t => s.attempt # t.attempt,
           \A s \in w : s.attempt \in Attempts
    PROVE  RebuildUpdates(w, c) \subseteq FrameUpdate /\ Votes(RebuildUpdates(w, c), w)
  <1>1. IsFiniteSet(w) /\ Ordered(w)
    BY JoinedWindow DEF Ordered
  <1>2. /\ sources \in SUBSET Source /\ IsFiniteSet(sources) /\ updates \subseteq FrameUpdate
        /\ IsFiniteSet(updates)
    BY FS_Subset DEF TypeOK, WindowInv, Votes
  <1>3. ASSUME w \ {c} = sources
        PROVE  Extended(c) \subseteq FrameUpdate /\ Votes(Extended(c), w)
    <2> DEFINE new == [of |-> c.attempt, map |-> Update(LatestMap, c)]
    <2>1. w = sources \cup {c} /\ c \notin sources /\ \A s \in sources : s.time < c.time
      BY <1>3 DEF Joins
    <2>2. LatestMap \in Snapshot /\ Accounts(LatestMap, sources)
      BY LatestMapVotes
    <2>3. IsVote(new.map, w) /\ new \in FrameUpdate /\ new.of = c.attempt
      BY <1>2, <2>1, <2>2, UpdateVotes, UpdateType DEF FrameUpdate
    <2> HIDE DEF new
    <2>4. Upto(c, w) = w
      BY <2>1 DEF Upto, Source
    <2>5. \A s \in sources : Upto(s, w) = Upto(s, sources)
      BY <1>2, <2>1 DEF Upto, Source
    <2>6. Extended(c) = updates \cup {new}
      BY DEF Extended, new
    <2>7. IsFiniteSet(Extended(c))
      BY <1>2, <2>6, FS_AddElement
    <2>8. {u.of : u \in Extended(c)} = AttemptsOf(w)
      BY <2>1, <2>3, <2>6 DEF Votes, AttemptsOf
    <2>9. ASSUME NEW u \in Extended(c), NEW s \in w, u.of = s.attempt
          PROVE  IsVote(u.map, Upto(s, w))
      <3>1. CASE s = c
        <4>1. u = new
          <5>1. SUFFICES ASSUME u \in updates PROVE FALSE
            BY <2>6
          <5>2. PICK t \in sources : u.of = t.attempt
            BY <5>1 DEF Votes, AttemptsOf
          <5> QED
            BY <2>1, <2>9, <3>1, <5>2
        <4> QED
          BY <2>3, <2>4, <3>1, <4>1
      <3>2. CASE s # c
        <4>1. s \in sources /\ u.of # c.attempt
          BY <2>1, <2>9, <3>2
        <4>2. u \in updates
          BY <2>3, <2>6, <4>1
        <4> QED
          BY <2>5, <2>9, <4>1, <4>2 DEF Votes
      <3> QED
        BY <3>1, <3>2
    <2> QED
      BY <1>2, <2>3, <2>6, <2>7, <2>8, <2>9 DEF Votes
  <1>4. /\ Replay(w) \subseteq FrameUpdate /\ Votes(Replay(w), w)
    <2> DEFINE frame(s) == [of |-> s.attempt, map |-> MapOver(Upto(s, w))]
               f == [s \in w |-> frame(s)]
    <2>1. ASSUME NEW s \in w
          PROVE  frame(s) \in FrameUpdate /\ IsVote(MapOver(Upto(s, w)), Upto(s, w))
      <3>1. Upto(s, w) \in SUBSET w /\ s \in Upto(s, w)
        BY DEF Upto, Source
      <3>2. IsFiniteSet(Upto(s, w)) /\ Ordered(Upto(s, w))
        BY <1>1, <3>1, FS_Subset DEF Ordered
      <3>3. MapOver(Upto(s, w)) \in Snapshot
        BY <3>1, <3>2, MapOverType
      <3>4. IsVote(MapOver(Upto(s, w)), Upto(s, w))
        BY <3>1, <3>2, MapOverVotes DEF Accounts
      <3> QED
        BY <3>3, <3>4 DEF FrameUpdate
    <2>2. Replay(w) = {frame(s) : s \in w}
      BY DEF Replay
    <2>3. IsFiniteSet(Replay(w))
      <3>1. f \in Surjection(w, Replay(w))
        BY <2>2 DEF Surjection
      <3> QED
        BY <1>1, <3>1, FS_Surjection
    <2>4. \A u \in Replay(w) : \E s \in w : u.of = s.attempt /\ u.map = MapOver(Upto(s, w))
      BY <2>2
    <2>5. \A s \in w : frame(s) \in Replay(w) /\ frame(s).of = s.attempt
      BY <2>2
    <2>6. {u.of : u \in Replay(w)} = AttemptsOf(w)
      <3> HIDE DEF frame
      <3> QED
        BY <2>4, <2>5 DEF AttemptsOf
    <2>7. ASSUME NEW u \in Replay(w), NEW s \in w, u.of = s.attempt
          PROVE  IsVote(u.map, Upto(s, w))
      BY <2>1, <2>4, <2>7
    <2> QED
      BY <2>1, <2>2, <2>3, <2>6, <2>7 DEF Votes
  <1> QED
    BY <1>3, <1>4 DEF RebuildUpdates

-----------------------------------------------------------------------------
(* The invariant holds initially.                                           *)

LEMMA InvInit == Init => IInv
  <1> SUFFICES ASSUME Init PROVE IInv
    OBVIOUS
  <1> USE TraceAssumption, MapAssumption, EngineAssumption
  <1>1. TypeOK
    <2>1. pipe \in Seq(Messages)
      BY DEF Init, SamplerInit
    <2>2. outcome \in Messages /\ message \in Messages \cup {"none"}
      BY DEF Init, SamplerInit, Messages
    <2>3. SamplerTypes
      <3>1. samples \in 0 .. MaxTrace /\ exitcode \in {0, 1}
        BY DEF Init, SamplerInit
      <3> QED
        BY <2>1, <2>2, <3>1, Zenon DEF Init, SamplerInit, SamplerTypes
    <2>4. /\ marker \in [Views -> Attempts \cup {None}]
          /\ acknowledged \in [Views -> Attempts \cup {None}]
      BY DEF Init
    <2>5. attempts \in 0 .. MaxAttempts /\ root \in Roots /\ pc \in Pcs
      BY DEF Init, Roots, Pcs
    <2> QED
      BY <2>3, <2>4, <2>5 DEF Init, TypeOK
  <1>2. CallInv /\ MessageInv /\ PendingInv
    BY DEF Init, SamplerInit, CallInv, MessageInv, PendingInv, SamplerPcs, CommitPcs
  <1>3. AliveInv /\ TraceInv /\ PoisonInv /\ NoLeakedWorker
    BY DEF Init, SamplerInit, AliveInv, TraceInv, PoisonInv, NoLeakedWorker, WorkerAlive
  <1>4. FreshInv /\ DiskInv
    BY DEF Init, FreshInv, DiskInv
  <1>5. WindowInv /\ CommitInv
    BY FS_EmptySet DEF Init, WindowInv, CommitInv
  <1>6. UpdatesInv
    BY FS_EmptySet DEF Init, UpdatesInv, Votes, AttemptsOf
  <1> QED
    BY <1>1, <1>2, <1>3, <1>4, <1>5, <1>6 DEF IInv

-----------------------------------------------------------------------------
(* What the calls do in the states of the invariant.                        *)

(* A capture in the caller's hands comes from a healthy engine whose worker *)
(* has ended: inference never has to poison it.                             *)
LEMMA CapturedIsHealthy ==
    ASSUME IInv, Captured
    PROVE  /\ pc = "idle" /\ pendingSampler /\ ~poisoned /\ ~WorkerAlive
           /\ pendingKey \in Keys /\ pendingAttempt \in Attempts /\ pendingCommit = None
  <1>1. pendingTrace \in BOOLEAN /\ pendingSampler \in BOOLEAN /\ poisoned \in BOOLEAN
    BY DEF IInv, TypeOK
  <1>2. pc = "idle" /\ pendingTrace
    BY DEF Captured
  <1>3. pendingSampler /\ ~poisoned /\ worker = "gone" /\ pendingCommit = None
    BY <1>1, <1>2 DEF IInv, PendingInv, PoisonInv, TraceInv, Complete
  <1>4. pendingKey \in Keys /\ pendingAttempt \in Attempts
    BY <1>1, <1>3 DEF IInv, PendingInv, TypeOK
  <1> QED
    BY <1>2, <1>3, <1>4 DEF WorkerAlive

LEMMA StageEffect ==
    ASSUME IInv, NEW c, Stage(c)
    PROVE  /\ pendingCommit' = [view |-> View(pendingKey), attempt |-> pendingAttempt,
                                sources |-> FreshSources(c),
                                updates |-> RebuildUpdates(FreshSources(c), c)]
           /\ pendingKey' = None /\ pendingAttempt' = None
           /\ pendingSampler' = FALSE /\ pendingTrace' = FALSE
           /\ UNCHANGED <<samplerVars, diskVars, root, poisoned, windowVars, pc, held, historyVars>>
  <1>1. Captured
    BY DEF Stage
  <1>2. pendingCommit = None /\ ~WorkerAlive
    BY <1>1, CapturedIsHealthy
  <1> QED
    BY <1>2 DEF Stage, ClearPending

LEMMA InferenceEffect ==
    ASSUME IInv, InferenceRaises
    PROVE  /\ pendingKey' = None /\ pendingAttempt' = None
           /\ pendingSampler' = FALSE /\ pendingTrace' = FALSE
           /\ UNCHANGED <<samplerVars, diskVars, root, poisoned, pendingCommit, windowVars, pc,
                          held, historyVars>>
  <1>1. ~WorkerAlive
    BY CapturedIsHealthy DEF InferenceRaises
  <1> QED
    BY <1>1 DEF InferenceRaises, ClearPending

(* The view of a candidate has not been committed: the commit goes on.      *)
LEMMA CommitEffect ==
    ASSUME IInv, BeginCommit
    PROVE  /\ pc = "idle" /\ pendingCommit # None /\ pc' = "marking"
           /\ UNCHANGED <<samplerVars, diskVars, engineVars, held, historyVars>>
  <1>1. pc = "idle" /\ pendingCommit # None /\ pendingCommit.view[2] \notin captureRoots
    BY DEF BeginCommit, IInv, CommitInv
  <1> QED
    BY <1>1 DEF BeginCommit, Goto, engineVars

-----------------------------------------------------------------------------
(* Every step keeps it: the disk.                                           *)

LEMMA DiskStep == IInv /\ [Next]_vars => FreshInv' /\ DiskInv'
  <1> SUFFICES ASSUME IInv, [Next]_vars PROVE FreshInv' /\ DiskInv'
    OBVIOUS
  <1> USE EngineAssumption DEF Goto
  <1> DEFINE disk == <<marker, synced, attempts, acknowledged>>
  <1>0. /\ attempts \in Nat /\ None \notin Attempts /\ Attempts \subseteq Nat
        /\ acknowledged \in [Views -> Attempts \cup {None}]
        /\ marker \in [Views -> Attempts \cup {None}]
        /\ pendingCommit \in Candidate \cup {None} /\ pendingAttempt \in Attempts \cup {None}
    BY DEF IInv, TypeOK, Attempts
  <1>c. pendingCommit # None =>
            /\ pendingCommit.view \in Views /\ pendingCommit.attempt \in Attempts
            /\ pendingAttempt = None
    BY <1>0 DEF IInv, PendingInv, Candidate
  <1>1. ASSUME NEW k \in Keys, BeginCapture(k) PROVE FreshInv' /\ DiskInv'
    <2>1. attempts' = attempts + 1 /\ pendingAttempt' = attempts + 1
          /\ UNCHANGED <<marker, synced, acknowledged, pendingCommit>>
          /\ pendingCommit = None /\ pc' = "opening"
      BY <1>1 DEF BeginCapture
    <2>2. \A v \in Views : acknowledged[v] # attempts + 1
      BY <1>0 DEF IInv, FreshInv
    <2>3. \A v \in Views : acknowledged[v] # None => acknowledged[v] <= attempts + 1
      <3> SUFFICES ASSUME NEW v \in Views, acknowledged[v] # None
                   PROVE  acknowledged[v] <= attempts + 1
        OBVIOUS
      <3>1. acknowledged[v] \in Nat /\ acknowledged[v] <= attempts
        BY <1>0 DEF IInv, FreshInv
      <3> QED
        BY <1>0, <3>1
    <2>4. FreshInv'
      BY <1>0, <2>1, <2>2, <2>3 DEF FreshInv
    <2> QED
      BY <2>1, <2>4 DEF IInv, DiskInv
  <1>2. ASSUME NEW c, Stage(c) PROVE FreshInv' /\ DiskInv'
    <2>1. /\ UNCHANGED disk /\ pc = "idle" /\ pc' = "idle" /\ pendingAttempt # None
          /\ pendingAttempt' = None /\ pendingCommit'.attempt = pendingAttempt
      <3>1. Captured
        BY <1>2 DEF Stage
      <3>2. pc = "idle" /\ pendingAttempt \in Attempts
        BY <3>1, CapturedIsHealthy
      <3>3. /\ pendingCommit' = [view |-> View(pendingKey), attempt |-> pendingAttempt,
                                 sources |-> FreshSources(c),
                                 updates |-> RebuildUpdates(FreshSources(c), c)]
            /\ pendingAttempt' = None /\ UNCHANGED <<diskVars, pc, historyVars>>
        BY <1>2, StageEffect
      <3>4. pendingCommit'.attempt = pendingAttempt
        BY <3>3
      <3>5. UNCHANGED disk
        BY <3>3 DEF diskVars, historyVars
      <3> QED
        BY <1>0, <3>2, <3>3, <3>4, <3>5
    <2> QED
      BY <1>0, <2>1 DEF IInv, FreshInv, DiskInv
  <1>3. ASSUME InferenceRaises \/ SamplerCancelled PROVE FreshInv' /\ DiskInv'
    <2>1. /\ UNCHANGED disk /\ UNCHANGED pendingCommit /\ pc' = "idle"
          /\ pendingAttempt' = None \/ UNCHANGED pendingAttempt
      BY <1>3 DEF InferenceRaises, SamplerCancelled, Captured, ClearPending, pendingVars,
                  diskVars, historyVars
    <2> QED
      BY <1>0, <2>1 DEF IInv, FreshInv, DiskInv
  <1>4. CASE CancelCommit
    BY <1>0, <1>4 DEF CancelCommit, diskVars, pendingVars, historyVars, IInv, FreshInv, DiskInv
  <1>5. CASE LinkMarker
    <2>1. /\ pendingCommit # None /\ marker[pendingCommit.view] = None
          /\ marker' = [marker EXCEPT ![pendingCommit.view] = pendingCommit.attempt]
          /\ pc' = "syncing"
          /\ UNCHANGED <<synced, attempts, acknowledged, pendingCommit, pendingAttempt>>
      BY <1>5 DEF LinkMarker, engineVars, pendingVars, historyVars, IInv, PendingInv, CommitPcs
    <2>2. acknowledged[pendingCommit.view] = None
      BY <1>0, <1>c, <2>1 DEF IInv, DiskInv
    <2> QED
      BY <1>0, <1>c, <2>1, <2>2 DEF IInv, FreshInv, DiskInv
  <1>6. CASE SyncDirectory
    BY <1>0, <1>6 DEF SyncDirectory, engineVars, pendingVars, historyVars, IInv, FreshInv, DiskInv
  <1>7. CASE AcceptCommit
    <2>1. /\ pc = "accepting" /\ pendingCommit # None /\ pendingCommit' = None /\ pc' = "idle"
          /\ acknowledged' = [acknowledged EXCEPT ![pendingCommit.view] = pendingCommit.attempt]
          /\ UNCHANGED <<marker, synced, attempts, pendingAttempt>>
      BY <1>7 DEF AcceptCommit, diskVars, pendingVars, IInv, PendingInv, CommitPcs
    <2>2. /\ pendingCommit.view \in synced
          /\ marker[pendingCommit.view] = pendingCommit.attempt
          /\ pendingCommit.attempt <= attempts
      BY <2>1 DEF IInv, DiskInv, FreshInv
    <2> QED
      BY <1>0, <1>c, <2>1, <2>2 DEF IInv, FreshInv, DiskInv
  <1>8. CASE Crash
    <2>1. /\ \A v \in synced : v \in Views => marker'[v] = marker[v]
          /\ UNCHANGED <<synced, attempts, acknowledged>>
          /\ pendingAttempt' = None /\ pendingCommit' = None /\ pc' = "idle"
      BY <1>8 DEF Crash, ClearPending
    <2> QED
      BY <1>0, <2>1 DEF IInv, FreshInv, DiskInv
  <1>9. ASSUME \/ CaptureRaises \/ StartSampler \/ SamplerStarted \/ FinishSampler
               \/ OwnTrace \/ CaptureReturns \/ CancelSampler \/ BeginCommit \/ CommitRaises
               \/ \E replaceLatest \in BOOLEAN : Fork(replaceLatest)
               \/ Sampling \/ UNCHANGED vars
        PROVE  FreshInv' /\ DiskInv'
    <2>1. /\ UNCHANGED disk /\ UNCHANGED <<pendingAttempt, pendingCommit>>
          /\ UNCHANGED pc \/ pc' \notin {"syncing", "accepting"}
      BY <1>9 DEF CaptureRaises, StartSampler, SamplerStarted, FinishSampler, OwnTrace,
                  CaptureReturns, CancelSampler, BeginCommit, CommitRaises, Fork, Sampling,
                  vars, diskVars, engineVars, pendingVars, historyVars
    <2> QED
      BY <2>1 DEF IInv, FreshInv, DiskInv
  <1> QED
    BY <1>1, <1>2, <1>3, <1>4, <1>5, <1>6, <1>7, <1>8, <1>9 DEF Next, Infer

-----------------------------------------------------------------------------
(* Every step keeps it: the window and its updates.                         *)

(* The attempt of a candidate is new to the window.                         *)
LEMMA NewAttempt ==
    ASSUME IInv, NEW w \in SUBSET Source, NEW c \in w, Joins(c, w), c.attempt \in Attempts,
           \A v \in Views : acknowledged[v] # c.attempt
    PROVE  /\ \A s, t \in w : s # t => s.attempt # t.attempt
           /\ \A s \in w : s.attempt \in Attempts
  <1>1. ASSUME NEW s \in w \ {c} PROVE s \in sources /\ s.attempt # c.attempt /\ s.attempt \in Attempts
    <2>1. s \in sources /\ s \in continuity /\ s.attempt \in Nat
      BY DEF Joins, IInv, WindowInv, Source
    <2>2. PICK v \in Views : acknowledged[v] = s.attempt
      BY <2>1 DEF IInv, WindowInv
    <2>3. acknowledged[v] \in Attempts \cup {None} /\ None \notin Nat
      BY EngineAssumption DEF IInv, TypeOK
    <2> QED
      BY <2>1, <2>2, <2>3
  <1>2. \A s, t \in sources : s # t => s.attempt # t.attempt
    BY DEF IInv, WindowInv
  <1>3. \A s, t \in w : s # t => s.attempt # t.attempt
    BY <1>1, <1>2
  <1> QED
    BY <1>1, <1>3

(* Inference stages a window, and updates, that the invariant allows.       *)
LEMMA Staged ==
    ASSUME IInv, NEW c, c \in Source, c.attempt = pendingAttempt, c.time \in Times, Stage(c)
    PROVE  /\ Joins(c, FreshSources(c)) /\ FreshSources(c) \in SUBSET Source
           /\ RebuildUpdates(FreshSources(c), c) \subseteq FrameUpdate
           /\ Votes(RebuildUpdates(FreshSources(c), c), FreshSources(c))
  <1> DEFINE w == FreshSources(c)
  <1>1. TypeOK /\ WindowInv /\ Votes(updates, sources) /\ sources \in SUBSET Source
    BY DEF IInv, UpdatesInv, TypeOK
  <1>2. Captured /\ \A s \in sources : s.time < c.time
    BY DEF Stage
  <1>3. pendingAttempt \in Attempts
    BY <1>2, CapturedIsHealthy
  <1>4. \A s \in continuity : s.time <= c.time
    BY <1>1, TimesPass
  <1>5. Joins(c, w)
    BY <1>1, <1>2, <1>4, FreshSourcesJoin
  <1> HIDE DEF w
  <1>6. c \in w /\ w \in SUBSET Source
    BY <1>1, <1>5 DEF Joins
  <1>7. \A v \in Views : acknowledged[v] # c.attempt
    <2>1. pendingAttempt # None
      BY <1>3, EngineAssumption DEF Attempts
    <2> QED
      BY <2>1 DEF IInv, FreshInv
  <1>8. /\ \A s, t \in w : s # t => s.attempt # t.attempt
        /\ \A s \in w : s.attempt \in Attempts
    BY <1>3, <1>5, <1>6, <1>7, NewAttempt
  <1>9. RebuildUpdates(w, c) \subseteq FrameUpdate /\ Votes(RebuildUpdates(w, c), w)
    BY <1>1, <1>5, <1>6, <1>8, RebuiltVotes
  <1> QED
    BY <1>5, <1>6, <1>9 DEF w

LEMMA InferredSource ==
    ASSUME IInv, Captured, NEW time \in Times, NEW pose \in Poses
    PROVE  [attempt |-> pendingAttempt, time |-> time, pose |-> pose] \in Source
  <1>1. pendingAttempt \in Nat
    BY CapturedIsHealthy DEF Attempts
  <1>2. time \in Nat
    BY TimesPass DEF IInv
  <1> QED
    BY <1>1, <1>2 DEF Source

(* Dropping the newest source leaves the other votes as they are.           *)
LEMMA KeptVotes ==
    ASSUME IInv, sources # {}
    PROVE  LET kept == sources \ Newest(1, sources)
           IN  Votes({u \in updates : u.of \in AttemptsOf(kept)}, kept)
  <1> DEFINE kept == sources \ Newest(1, sources)
             ups == {u \in updates : u.of \in AttemptsOf(kept)}
             n == Last(sources)
  <1>1. /\ sources \in SUBSET Source /\ IsFiniteSet(sources) /\ Votes(updates, sources)
        /\ \A s, t \in sources : s # t => s.time # t.time /\ s.attempt # t.attempt
    BY FS_Subset DEF IInv, TypeOK, WindowInv, UpdatesInv
  <1>2. n \in sources /\ \A s \in sources : s.time <= n.time
    BY <1>1, LastIsNewest
  <1> HIDE DEF n
  <1>3. \A s \in sources \ {n} : s.time < n.time
    BY <1>1, <1>2 DEF Source
  <1>4. kept = sources \ {n}
    BY <1>1, <1>2, <1>3, NewestOne
  <1> HIDE DEF kept
  <1>5. \A s \in kept : Upto(s, kept) = Upto(s, sources)
    BY <1>1, <1>2, <1>3, <1>4 DEF Upto, Source
  <1>6. IsFiniteSet(ups)
    BY <1>1, FS_Subset DEF Votes
  <1>7. {u.of : u \in ups} = AttemptsOf(kept)
    BY <1>1, <1>4 DEF Votes, AttemptsOf
  <1>8. ASSUME NEW u \in ups, NEW s \in kept, u.of = s.attempt
        PROVE  IsVote(u.map, Upto(s, kept))
    BY <1>1, <1>4, <1>5, <1>8 DEF Votes
  <1> QED
    BY <1>6, <1>7, <1>8 DEF Votes, kept

LEMMA WindowStep == IInv /\ [Next]_vars => WindowInv' /\ CommitInv' /\ UpdatesInv'
  <1> SUFFICES ASSUME IInv, [Next]_vars PROVE WindowInv' /\ CommitInv' /\ UpdatesInv'
    OBVIOUS
  <1> USE EngineAssumption DEF Goto
  <1> DEFINE window == <<sources, updates, continuity, acknowledged>>
  <1>0. /\ WindowInv /\ CommitInv /\ UpdatesInv
        /\ pendingCommit \in Candidate \cup {None}
        /\ sources \in SUBSET Source /\ continuity \in SUBSET Source
        /\ pendingSampler \in BOOLEAN
    BY DEF IInv, TypeOK
  <1>1. ASSUME NEW k \in Keys, BeginCapture(k) PROVE WindowInv' /\ CommitInv' /\ UpdatesInv'
    <2>1. /\ UNCHANGED window /\ UNCHANGED <<captureRoots, pendingCommit>>
          /\ pendingKey' = k /\ k \notin captureRoots
      BY <1>1 DEF BeginCapture, windowVars
    <2> QED
      BY <1>0, <2>1 DEF WindowInv, CommitInv, UpdatesInv, Joins, Continuous
  <1>2. ASSUME NEW time \in Times, NEW pose \in Poses,
               Stage([attempt |-> pendingAttempt, time |-> time, pose |-> pose])
        PROVE  WindowInv' /\ CommitInv' /\ UpdatesInv'
    <2> DEFINE c == [attempt |-> pendingAttempt, time |-> time, pose |-> pose]
               w == FreshSources(c)
               ups == RebuildUpdates(w, c)
    <2>1. Captured
      BY <1>2 DEF Stage
    <2>2. c \in Source /\ c.attempt = pendingAttempt /\ c.time = time
      BY <2>1, InferredSource
    <2> HIDE DEF c
    <2>3. Stage(c)
      BY <1>2 DEF c
    <2>4. Joins(c, w) /\ Votes(ups, w)
      BY <2>2, <2>3, Staged
    <2>5. /\ pendingCommit' = [view |-> View(pendingKey), attempt |-> pendingAttempt,
                               sources |-> w, updates |-> ups]
          /\ pendingKey' = None /\ UNCHANGED window /\ UNCHANGED captureRoots
      BY <2>3, StageEffect DEF windowVars, historyVars
    <2>6. pendingKey # None
      BY <2>1, CapturedIsHealthy
    <2> HIDE DEF w, ups
    <2>7. /\ pendingCommit'.view = View(pendingKey) /\ pendingCommit'.attempt = pendingAttempt
          /\ pendingCommit'.sources = w /\ pendingCommit'.updates = ups
      BY <2>5
    <2>8. pendingCommit'.view[2] \notin captureRoots'
      BY <1>0, <2>5, <2>6, <2>7 DEF CommitInv, View
    <2>9. PICK d, x : d = c /\ x = w
      OBVIOUS
    <2>10. d \in x /\ Joins(d, x) /\ Joins(d, x)'
      BY <2>4, <2>5, <2>9 DEF Joins, Independent
    <2>11. CommitInv'
      BY <2>2, <2>5, <2>7, <2>8, <2>9, <2>10 DEF CommitInv
    <2>12. UpdatesInv'
      BY <1>0, <2>4, <2>5, <2>7 DEF UpdatesInv
    <2>13. WindowInv'
      BY <1>0, <2>5 DEF WindowInv, Continuous
    <2> QED
      BY <2>11, <2>12, <2>13
  <1>3. ASSUME InferenceRaises \/ SamplerCancelled
        PROVE  WindowInv' /\ CommitInv' /\ UpdatesInv'
    <2>1. /\ UNCHANGED window /\ UNCHANGED <<captureRoots, pendingCommit>>
          /\ pendingKey' = None \/ UNCHANGED pendingKey
      BY <1>3 DEF InferenceRaises, SamplerCancelled, Captured, ClearPending, pendingVars,
                  windowVars, historyVars
    <2> QED
      BY <1>0, <2>1 DEF WindowInv, CommitInv, UpdatesInv, Joins, Continuous
  <1>4. CASE CancelCommit
    <2>1. /\ UNCHANGED window /\ UNCHANGED <<captureRoots, pendingKey>> /\ pendingCommit' = None
      BY <1>4 DEF CancelCommit, windowVars, pendingVars, historyVars
    <2> QED
      BY <1>0, <2>1 DEF WindowInv, CommitInv, UpdatesInv, Continuous
  <1>5. CASE AcceptCommit
    <2> DEFINE w == pendingCommit.sources
    <2>1. /\ pc = "accepting" /\ pendingCommit # None /\ pendingCommit' = None
          /\ sources' = w /\ updates' = pendingCommit.updates
          /\ continuity' = continuity \cup Newest(1, w)
          /\ acknowledged' = [acknowledged EXCEPT ![pendingCommit.view] = pendingCommit.attempt]
          /\ UNCHANGED pendingKey
      BY <1>5 DEF AcceptCommit, pendingVars, IInv, PendingInv, CommitPcs
    <2>2. /\ w \in SUBSET Source /\ pendingCommit.view \in Views
          /\ pendingCommit.attempt \in Attempts
      BY <1>0, <2>1 DEF Candidate
    <2>3. PICK c \in w : c.attempt = pendingCommit.attempt /\ Joins(c, w)
      BY <1>0, <2>1 DEF CommitInv
    <2> HIDE DEF w
    <2>4. /\ IsFiniteSet(w) /\ IsFiniteSet(continuity \cup {c})
          /\ Newest(1, w) = {c}
          /\ \A s, t \in w : s # t => Independent(s, t) /\ s.time # t.time
          /\ \A s \in w : Continuous(s, continuity \cup {c})
      BY <1>0, <2>2, <2>3, JoinedWindow DEF IInv
    <2>5. continuity' = continuity \cup {c}
      BY <2>1, <2>4
    <2>6. /\ acknowledged[pendingCommit.view] = None
          /\ \A v \in Views : acknowledged[v] # pendingCommit.attempt
      BY <2>1 DEF IInv, DiskInv, FreshInv
    <2>7. \A s, t \in w : s # t => s.attempt # t.attempt
      BY <2>2, <2>3, <2>6, NewAttempt
    <2>8. \A s \in continuity' : \E v \in Views : acknowledged'[v] = s.attempt
      <3>1. acknowledged \in [Views -> Attempts \cup {None}]
        BY DEF IInv, TypeOK
      <3>2. acknowledged'[pendingCommit.view] = c.attempt
        BY <2>1, <2>2, <2>3, <3>1
      <3>3. ASSUME NEW s \in continuity PROVE \E v \in Views : acknowledged'[v] = s.attempt
        <4>1. PICK v \in Views : acknowledged[v] = s.attempt
          BY <1>0 DEF WindowInv
        <4>2. s.attempt # None
          BY <1>0 DEF Source
        <4>3. v # pendingCommit.view
          BY <2>6, <4>1, <4>2
        <4> QED
          BY <2>1, <3>1, <4>1, <4>3
      <3> QED
        BY <2>2, <2>5, <3>2, <3>3
    <2>9. w \subseteq continuity \cup {c}
      BY <1>0, <2>3 DEF Joins, WindowInv
    <2>10. WindowInv'
      BY <2>1, <2>4, <2>5, <2>7, <2>8, <2>9 DEF WindowInv, w, Independent, Continuous
    <2>11. UpdatesInv'
      BY <1>0, <2>1 DEF UpdatesInv, w
    <2>12. pendingKey' = None
      BY <1>0, <2>1 DEF IInv, PendingInv
    <2>13. CommitInv'
      BY <2>1, <2>12 DEF CommitInv
    <2> QED
      BY <2>10, <2>11, <2>13
  <1>6. ASSUME NEW replaceLatest \in BOOLEAN, Fork(replaceLatest)
        PROVE  WindowInv' /\ CommitInv' /\ UpdatesInv'
    <2> DEFINE kept == IF replaceLatest THEN sources \ Newest(1, sources) ELSE sources
    <2>1. /\ sources # {} /\ pendingCommit = None /\ pendingKey = None
          /\ sources' = kept /\ updates' = {u \in updates : u.of \in AttemptsOf(kept)}
          /\ UNCHANGED <<continuity, acknowledged, pendingCommit, pendingKey>>
      BY <1>6 DEF Fork, historyVars, pendingVars
    <2>2. kept \subseteq sources
      OBVIOUS
    <2>3. Votes(updates', kept)
      <3>1. CASE replaceLatest
        BY <2>1, <3>1, KeptVotes
      <3>2. CASE ~replaceLatest
        <4>1. updates' = updates
          BY <1>0, <2>1, <3>2 DEF UpdatesInv, Votes, AttemptsOf
        <4> QED
          BY <1>0, <3>2, <4>1 DEF UpdatesInv
      <3> QED
        BY <3>1, <3>2
    <2> HIDE DEF kept
    <2>4. WindowInv'
      BY <1>0, <2>1, <2>2 DEF WindowInv, Independent, Continuous
    <2>5. CommitInv'
      BY <2>1 DEF CommitInv
    <2>6. UpdatesInv'
      BY <2>1, <2>3 DEF UpdatesInv
    <2> QED
      BY <2>4, <2>5, <2>6
  <1>7. CASE Crash
    <2>1. /\ sources' = {} /\ updates' = {} /\ continuity' = {}
          /\ pendingCommit' = None /\ pendingKey' = None
      BY <1>7 DEF Crash, ClearPending
    <2>2. UpdatesInv'
      BY <2>1, FS_EmptySet DEF UpdatesInv, Votes, AttemptsOf
    <2> QED
      BY <2>1, <2>2, FS_EmptySet DEF WindowInv, CommitInv
  <1>8. ASSUME \/ CaptureRaises \/ StartSampler \/ SamplerStarted \/ FinishSampler
               \/ OwnTrace \/ CaptureReturns \/ CancelSampler \/ BeginCommit \/ CommitRaises
               \/ LinkMarker \/ SyncDirectory \/ Sampling \/ UNCHANGED vars
        PROVE  WindowInv' /\ CommitInv' /\ UpdatesInv'
    <2>1. UNCHANGED window /\ UNCHANGED <<captureRoots, pendingCommit, pendingKey>>
      BY <1>8 DEF CaptureRaises, StartSampler, SamplerStarted, FinishSampler, OwnTrace,
                  CaptureReturns, CancelSampler, BeginCommit, CommitRaises, LinkMarker,
                  SyncDirectory, Sampling, vars, diskVars, engineVars, pendingVars, windowVars,
                  historyVars
    <2> QED
      BY <1>0, <2>1 DEF WindowInv, CommitInv, UpdatesInv, Joins, Continuous
  <1> QED
    BY <1>1, <1>2, <1>3, <1>4, <1>5, <1>6, <1>7, <1>8 DEF Next, Infer

-----------------------------------------------------------------------------
(* Every step keeps it: the sampler and the calls.                          *)

SamplerInv ==
    /\ CallInv /\ MessageInv /\ PendingInv
    /\ AliveInv /\ TraceInv /\ PoisonInv /\ NoLeakedWorker

LEMMA SamplerInvStep == IInv /\ [Next]_vars => SamplerInv'
  <1> SUFFICES ASSUME IInv, [Next]_vars PROVE SamplerInv'
    OBVIOUS
  <1> USE TraceAssumption, EngineAssumption DEF Goto
  <1>0. /\ CallInv /\ MessageInv /\ PendingInv /\ AliveInv /\ TraceInv /\ PoisonInv
        /\ NoLeakedWorker
        /\ worker \in {"none", "connecting", "sampling", "leaving", "sent", "gone"}
        /\ pipe \in Seq(Messages) /\ pc \in Pcs /\ samples \in Nat
        /\ call \in {"none", "start", "finish", "cancel"}
        /\ message \in Messages \cup {"none"} /\ outcome \in Messages
        /\ pendingTrace \in BOOLEAN /\ pendingSampler \in BOOLEAN
        /\ poisoned \in BOOLEAN /\ leaked \in BOOLEAN /\ attempts \in Nat
    BY DEF IInv, TypeOK, SamplerTypes
  <1>1. ASSUME NEW k \in Keys, BeginCapture(k) PROVE SamplerInv'
    <2>1. CallInv'
      BY <1>0, <1>1 DEF CallInv, BeginCapture, FreshSampler, WorkerAlive,
           windowVars
    <2>2. MessageInv'
      BY <1>0, <1>1 DEF MessageInv, BeginCapture, FreshSampler, WorkerAlive,
           windowVars
    <2>3. PendingInv'
      BY <1>0, <1>1 DEF PendingInv, SamplerPcs, CommitPcs, BeginCapture,
           FreshSampler, WorkerAlive, windowVars
    <2>4. AliveInv'
      BY <1>0, <1>1 DEF AliveInv, WorkerAlive, BeginCapture, FreshSampler,
           windowVars
    <2>5. TraceInv'
      BY <1>0, <1>1 DEF TraceInv, Complete, BeginCapture, FreshSampler,
           WorkerAlive, windowVars
    <2>6. PoisonInv'
      BY <1>0, <1>1 DEF PoisonInv, BeginCapture, FreshSampler, WorkerAlive,
           windowVars
    <2>7. NoLeakedWorker'
      BY <1>0, <1>1 DEF NoLeakedWorker, WorkerAlive, BeginCapture,
           FreshSampler, windowVars
    <2> QED
      BY <2>1, <2>2, <2>3, <2>4, <2>5, <2>6, <2>7 DEF SamplerInv
  <1>2. CASE CaptureRaises
    <2>1. CallInv'
      BY <1>0, <1>2 DEF CallInv, CaptureRaises, samplerVars, diskVars,
           engineVars, historyVars, workerVars, parentVars, callVars,
           pendingVars, windowVars
    <2>2. MessageInv'
      BY <1>0, <1>2 DEF MessageInv, CaptureRaises, samplerVars, diskVars,
           engineVars, historyVars, workerVars, parentVars, callVars,
           pendingVars, windowVars
    <2>3. PendingInv'
      BY <1>0, <1>2 DEF PendingInv, SamplerPcs, CommitPcs, CaptureRaises,
           samplerVars, diskVars, engineVars, historyVars, workerVars,
           parentVars, callVars, pendingVars, windowVars
    <2>4. AliveInv'
      BY <1>0, <1>2 DEF AliveInv, WorkerAlive, CaptureRaises, samplerVars,
           diskVars, engineVars, historyVars, workerVars, parentVars,
           callVars, pendingVars, windowVars
    <2>5. TraceInv'
      BY <1>0, <1>2 DEF TraceInv, Complete, CaptureRaises, samplerVars,
           diskVars, engineVars, historyVars, workerVars, parentVars,
           callVars, pendingVars, windowVars
    <2>6. PoisonInv'
      BY <1>0, <1>2 DEF PoisonInv, CaptureRaises, samplerVars, diskVars,
           engineVars, historyVars, workerVars, parentVars, callVars,
           pendingVars, windowVars
    <2>7. NoLeakedWorker'
      BY <1>0, <1>2 DEF NoLeakedWorker, WorkerAlive, CaptureRaises,
           samplerVars, diskVars, engineVars, historyVars, workerVars,
           parentVars, callVars, pendingVars, windowVars
    <2> QED
      BY <2>1, <2>2, <2>3, <2>4, <2>5, <2>6, <2>7 DEF SamplerInv
  <1>3. CASE StartSampler
    <2>1. CallInv'
      BY <1>0, <1>3 DEF CallInv, StartSampler, BeginStart, Return, diskVars,
           engineVars, historyVars, pendingVars, windowVars
    <2>2. MessageInv'
      BY <1>0, <1>3 DEF MessageInv, StartSampler, BeginStart, Return,
           diskVars, engineVars, historyVars, pendingVars, windowVars
    <2>3. PendingInv'
      BY <1>0, <1>3 DEF PendingInv, SamplerPcs, CommitPcs, StartSampler,
           BeginStart, Return, diskVars, engineVars, historyVars, pendingVars,
           windowVars
    <2>4. AliveInv'
      BY <1>0, <1>3 DEF AliveInv, WorkerAlive, PendingInv, SamplerPcs,
           StartSampler, BeginStart, Return, diskVars, engineVars,
           historyVars, pendingVars, windowVars
    <2>5. TraceInv'
      BY <1>0, <1>3 DEF TraceInv, Complete, MessageInv, StartSampler,
           BeginStart, Return, diskVars, engineVars, historyVars, pendingVars,
           windowVars
    <2>6. PoisonInv'
      BY <1>0, <1>3 DEF PoisonInv, StartSampler, BeginStart, Return, diskVars,
           engineVars, historyVars, pendingVars, windowVars
    <2>7. NoLeakedWorker'
      BY <1>0, <1>3 DEF NoLeakedWorker, WorkerAlive, StartSampler, BeginStart,
           Return, diskVars, engineVars, historyVars, pendingVars, windowVars
    <2> QED
      BY <2>1, <2>2, <2>3, <2>4, <2>5, <2>6, <2>7 DEF SamplerInv
  <1>4. CASE SamplerStarted
    <2>1. CallInv'
      BY <1>0, <1>4 DEF CallInv, SamplerStarted, samplerVars, diskVars,
           engineVars, historyVars, workerVars, parentVars, callVars,
           pendingVars, windowVars
    <2>2. MessageInv'
      BY <1>0, <1>4 DEF MessageInv, SamplerStarted, samplerVars, diskVars,
           engineVars, historyVars, workerVars, parentVars, callVars,
           pendingVars, windowVars
    <2>3. PendingInv'
      BY <1>0, <1>4 DEF PendingInv, SamplerPcs, CommitPcs, SamplerStarted,
           samplerVars, diskVars, engineVars, historyVars, workerVars,
           parentVars, callVars, pendingVars, windowVars
    <2>4. AliveInv'
      BY <1>0, <1>4 DEF AliveInv, WorkerAlive, SamplerStarted, samplerVars,
           diskVars, engineVars, historyVars, workerVars, parentVars,
           callVars, pendingVars, windowVars
    <2>5. TraceInv'
      BY <1>0, <1>4 DEF TraceInv, Complete, SamplerStarted, samplerVars,
           diskVars, engineVars, historyVars, workerVars, parentVars,
           callVars, pendingVars, windowVars
    <2>6. PoisonInv'
      BY <1>0, <1>4 DEF PoisonInv, SamplerStarted, samplerVars, diskVars,
           engineVars, historyVars, workerVars, parentVars, callVars,
           pendingVars, windowVars
    <2>7. NoLeakedWorker'
      BY <1>0, <1>4 DEF NoLeakedWorker, WorkerAlive, SamplerStarted,
           samplerVars, diskVars, engineVars, historyVars, workerVars,
           parentVars, callVars, pendingVars, windowVars
    <2> QED
      BY <2>1, <2>2, <2>3, <2>4, <2>5, <2>6, <2>7 DEF SamplerInv
  <1>5. CASE FinishSampler
    <2>1. CallInv'
      BY <1>0, <1>5 DEF CallInv, FinishSampler, BeginFinish, diskVars,
           engineVars, historyVars, workerVars, pendingVars, windowVars
    <2>2. MessageInv'
      BY <1>0, <1>5 DEF MessageInv, FinishSampler, BeginFinish, diskVars,
           engineVars, historyVars, workerVars, pendingVars, windowVars
    <2>3. PendingInv'
      BY <1>0, <1>5 DEF PendingInv, SamplerPcs, CommitPcs, FinishSampler,
           BeginFinish, diskVars, engineVars, historyVars, workerVars,
           pendingVars, windowVars
    <2>4. AliveInv'
      BY <1>0, <1>5 DEF AliveInv, WorkerAlive, FinishSampler, BeginFinish,
           diskVars, engineVars, historyVars, workerVars, pendingVars,
           windowVars
    <2>5. TraceInv'
      BY <1>0, <1>5 DEF TraceInv, Complete, FinishSampler, BeginFinish,
           diskVars, engineVars, historyVars, workerVars, pendingVars,
           windowVars
    <2>6. PoisonInv'
      BY <1>0, <1>5 DEF PoisonInv, FinishSampler, BeginFinish, diskVars,
           engineVars, historyVars, workerVars, pendingVars, windowVars
    <2>7. NoLeakedWorker'
      BY <1>0, <1>5 DEF NoLeakedWorker, WorkerAlive, FinishSampler,
           BeginFinish, diskVars, engineVars, historyVars, workerVars,
           pendingVars, windowVars
    <2> QED
      BY <2>1, <2>2, <2>3, <2>4, <2>5, <2>6, <2>7 DEF SamplerInv
  <1>6. CASE OwnTrace
    <2>1. CallInv'
      BY <1>0, <1>6 DEF CallInv, OwnTrace, samplerVars, diskVars, windowVars,
           historyVars, workerVars, parentVars, callVars
    <2>2. MessageInv'
      BY <1>0, <1>6 DEF MessageInv, OwnTrace, samplerVars, diskVars,
           windowVars, historyVars, workerVars, parentVars, callVars
    <2>3. PendingInv'
      BY <1>0, <1>6 DEF PendingInv, SamplerPcs, CommitPcs, OwnTrace,
           samplerVars, diskVars, windowVars, historyVars, workerVars,
           parentVars, callVars
    <2>4. AliveInv'
      BY <1>0, <1>6 DEF AliveInv, WorkerAlive, OwnTrace, samplerVars,
           diskVars, windowVars, historyVars, workerVars, parentVars, callVars
    <2>5. TraceInv'
      BY <1>0, <1>6 DEF TraceInv, Complete, OwnTrace, samplerVars, diskVars,
           windowVars, historyVars, workerVars, parentVars, callVars
    <2>6. PoisonInv'
      BY <1>0, <1>6 DEF PoisonInv, OwnTrace, samplerVars, diskVars,
           windowVars, historyVars, workerVars, parentVars, callVars
    <2>7. NoLeakedWorker'
      BY <1>0, <1>6 DEF NoLeakedWorker, WorkerAlive, OwnTrace, samplerVars,
           diskVars, windowVars, historyVars, workerVars, parentVars, callVars
    <2> QED
      BY <2>1, <2>2, <2>3, <2>4, <2>5, <2>6, <2>7 DEF SamplerInv
  <1>7. CASE CaptureReturns
    <2>1. CallInv'
      BY <1>0, <1>7 DEF CallInv, CaptureReturns, samplerVars, diskVars,
           engineVars, historyVars, workerVars, parentVars, callVars,
           pendingVars, windowVars
    <2>2. MessageInv'
      BY <1>0, <1>7 DEF MessageInv, CaptureReturns, samplerVars, diskVars,
           engineVars, historyVars, workerVars, parentVars, callVars,
           pendingVars, windowVars
    <2>3. PendingInv'
      BY <1>0, <1>7 DEF PendingInv, SamplerPcs, CommitPcs, CaptureReturns,
           samplerVars, diskVars, engineVars, historyVars, workerVars,
           parentVars, callVars, pendingVars, windowVars
    <2>4. AliveInv'
      BY <1>0, <1>7 DEF AliveInv, WorkerAlive, CaptureReturns, samplerVars,
           diskVars, engineVars, historyVars, workerVars, parentVars,
           callVars, pendingVars, windowVars
    <2>5. TraceInv'
      BY <1>0, <1>7 DEF TraceInv, Complete, CaptureReturns, samplerVars,
           diskVars, engineVars, historyVars, workerVars, parentVars,
           callVars, pendingVars, windowVars
    <2>6. PoisonInv'
      BY <1>0, <1>7 DEF PoisonInv, CaptureReturns, samplerVars, diskVars,
           engineVars, historyVars, workerVars, parentVars, callVars,
           pendingVars, windowVars
    <2>7. NoLeakedWorker'
      BY <1>0, <1>7 DEF NoLeakedWorker, WorkerAlive, PendingInv, TraceInv,
           Complete, CaptureReturns, samplerVars, diskVars, engineVars,
           historyVars, workerVars, parentVars, callVars, pendingVars,
           windowVars
    <2> QED
      BY <2>1, <2>2, <2>3, <2>4, <2>5, <2>6, <2>7 DEF SamplerInv
  <1>8. CASE CancelSampler
    <2>1. CallInv'
      BY <1>0, <1>8 DEF CallInv, CancelSampler, BeginCancel, Return, diskVars,
           engineVars, historyVars, WorkerAlive, workerVars, pendingVars,
           windowVars
    <2>2. MessageInv'
      BY <1>0, <1>8 DEF MessageInv, CancelSampler, BeginCancel, Return,
           diskVars, engineVars, historyVars, WorkerAlive, workerVars,
           pendingVars, windowVars
    <2>3. PendingInv'
      BY <1>0, <1>8 DEF PendingInv, SamplerPcs, CommitPcs, CancelSampler,
           BeginCancel, Return, diskVars, engineVars, historyVars,
           WorkerAlive, workerVars, pendingVars, windowVars
    <2>4. AliveInv'
      BY <1>0, <1>8 DEF AliveInv, WorkerAlive, CancelSampler, BeginCancel,
           Return, diskVars, engineVars, historyVars, workerVars, pendingVars,
           windowVars
    <2>5. TraceInv'
      BY <1>0, <1>8 DEF TraceInv, Complete, CancelSampler, BeginCancel,
           Return, diskVars, engineVars, historyVars, WorkerAlive, workerVars,
           pendingVars, windowVars
    <2>6. PoisonInv'
      BY <1>0, <1>8 DEF PoisonInv, TraceInv, Complete, CancelSampler,
           BeginCancel, Return, diskVars, engineVars, historyVars,
           WorkerAlive, workerVars, pendingVars, windowVars
    <2>7. NoLeakedWorker'
      BY <1>0, <1>8 DEF NoLeakedWorker, WorkerAlive, CancelSampler,
           BeginCancel, Return, diskVars, engineVars, historyVars, workerVars,
           pendingVars, windowVars
    <2> QED
      BY <2>1, <2>2, <2>3, <2>4, <2>5, <2>6, <2>7 DEF SamplerInv
  <1>9. CASE SamplerCancelled
    <2>1. CallInv'
      BY <1>0, <1>9 DEF CallInv, SamplerCancelled, ClearPending, WorkerAlive,
           pendingVars, samplerVars, diskVars, windowVars, historyVars,
           workerVars, parentVars, callVars
    <2>2. MessageInv'
      BY <1>0, <1>9 DEF MessageInv, SamplerCancelled, ClearPending,
           WorkerAlive, pendingVars, samplerVars, diskVars, windowVars,
           historyVars, workerVars, parentVars, callVars
    <2>3. PendingInv'
      BY <1>0, <1>9 DEF PendingInv, SamplerPcs, CommitPcs, SamplerCancelled,
           ClearPending, WorkerAlive, pendingVars, samplerVars, diskVars,
           windowVars, historyVars, workerVars, parentVars, callVars
    <2>4. AliveInv'
      BY <1>0, <1>9 DEF AliveInv, WorkerAlive, SamplerCancelled, ClearPending,
           pendingVars, samplerVars, diskVars, windowVars, historyVars,
           workerVars, parentVars, callVars
    <2>5. TraceInv'
      BY <1>0, <1>9 DEF TraceInv, Complete, SamplerCancelled, ClearPending,
           WorkerAlive, pendingVars, samplerVars, diskVars, windowVars,
           historyVars, workerVars, parentVars, callVars
    <2>6. PoisonInv'
      BY <1>0, <1>9 DEF PoisonInv, TraceInv, Complete, PendingInv, SamplerPcs,
           SamplerCancelled, ClearPending, WorkerAlive, pendingVars,
           samplerVars, diskVars, windowVars, historyVars, workerVars,
           parentVars, callVars
    <2>7. NoLeakedWorker'
      BY <1>0, <1>9 DEF NoLeakedWorker, WorkerAlive, SamplerCancelled,
           ClearPending, pendingVars, samplerVars, diskVars, windowVars,
           historyVars, workerVars, parentVars, callVars
    <2> QED
      BY <2>1, <2>2, <2>3, <2>4, <2>5, <2>6, <2>7 DEF SamplerInv
  <1>10. CASE CancelCommit
    <2>1. CallInv'
      BY <1>0, <1>10 DEF CallInv, CancelCommit, samplerVars, diskVars,
           pendingVars, windowVars, historyVars, workerVars, parentVars,
           callVars
    <2>2. MessageInv'
      BY <1>0, <1>10 DEF MessageInv, CancelCommit, samplerVars, diskVars,
           pendingVars, windowVars, historyVars, workerVars, parentVars,
           callVars
    <2>3. PendingInv'
      BY <1>0, <1>10 DEF PendingInv, SamplerPcs, CommitPcs, CancelCommit,
           samplerVars, diskVars, pendingVars, windowVars, historyVars,
           workerVars, parentVars, callVars
    <2>4. AliveInv'
      BY <1>0, <1>10 DEF AliveInv, WorkerAlive, CancelCommit, samplerVars,
           diskVars, pendingVars, windowVars, historyVars, workerVars,
           parentVars, callVars
    <2>5. TraceInv'
      BY <1>0, <1>10 DEF TraceInv, Complete, CancelCommit, samplerVars,
           diskVars, pendingVars, windowVars, historyVars, workerVars,
           parentVars, callVars
    <2>6. PoisonInv'
      BY <1>0, <1>10 DEF PoisonInv, CancelCommit, samplerVars, diskVars,
           pendingVars, windowVars, historyVars, workerVars, parentVars,
           callVars
    <2>7. NoLeakedWorker'
      BY <1>0, <1>10 DEF NoLeakedWorker, WorkerAlive, CancelCommit,
           samplerVars, diskVars, pendingVars, windowVars, historyVars,
           workerVars, parentVars, callVars
    <2> QED
      BY <2>1, <2>2, <2>3, <2>4, <2>5, <2>6, <2>7 DEF SamplerInv
  <1>11. CASE InferenceRaises
    <2>0. pc = "idle" /\ ~poisoned /\ ~WorkerAlive /\ pendingAttempt # None
      <3>1. Captured
        BY <1>11 DEF InferenceRaises
      <3> QED
        BY <3>1, CapturedIsHealthy DEF Attempts
    <2>1. CallInv'
      BY <1>0, <1>11, <2>0, InferenceEffect DEF CallInv, samplerVars,
           diskVars, windowVars, historyVars, workerVars, parentVars, callVars
    <2>2. MessageInv'
      BY <1>0, <1>11, <2>0, InferenceEffect DEF MessageInv, samplerVars,
           diskVars, windowVars, historyVars, workerVars, parentVars, callVars
    <2>3. PendingInv'
      BY <1>0, <1>11, <2>0, InferenceEffect DEF PendingInv, SamplerPcs,
           CommitPcs, samplerVars, diskVars, windowVars, historyVars,
           workerVars, parentVars, callVars
    <2>4. AliveInv'
      BY <1>0, <1>11, <2>0, InferenceEffect DEF AliveInv, WorkerAlive,
           samplerVars, diskVars, windowVars, historyVars, workerVars,
           parentVars, callVars
    <2>5. TraceInv'
      BY <1>0, <1>11, <2>0, InferenceEffect DEF TraceInv, Complete,
           samplerVars, diskVars, windowVars, historyVars, workerVars,
           parentVars, callVars
    <2>6. PoisonInv'
      BY <1>0, <1>11, <2>0, InferenceEffect DEF PoisonInv, samplerVars,
           diskVars, windowVars, historyVars, workerVars, parentVars, callVars
    <2>7. NoLeakedWorker'
      BY <1>0, <1>11, <2>0, InferenceEffect DEF NoLeakedWorker, WorkerAlive,
           samplerVars, diskVars, windowVars, historyVars, workerVars,
           parentVars, callVars
    <2> QED
      BY <2>1, <2>2, <2>3, <2>4, <2>5, <2>6, <2>7 DEF SamplerInv
  <1>12. ASSUME NEW c, Stage(c) PROVE SamplerInv'
    <2>0. pc = "idle" /\ ~poisoned /\ ~WorkerAlive /\ pendingAttempt # None
      <3>1. Captured
        BY <1>12 DEF Stage
      <3> QED
        BY <3>1, CapturedIsHealthy DEF Attempts
    <2>1. CallInv'
      BY <1>0, <1>12, <2>0, StageEffect DEF CallInv, samplerVars, diskVars,
           windowVars, historyVars, workerVars, parentVars, callVars
    <2>2. MessageInv'
      BY <1>0, <1>12, <2>0, StageEffect DEF MessageInv, samplerVars, diskVars,
           windowVars, historyVars, workerVars, parentVars, callVars
    <2>3. PendingInv'
      BY <1>0, <1>12, <2>0, StageEffect DEF PendingInv, SamplerPcs, CommitPcs,
           samplerVars, diskVars, windowVars, historyVars, workerVars,
           parentVars, callVars
    <2>4. AliveInv'
      BY <1>0, <1>12, <2>0, StageEffect DEF AliveInv, WorkerAlive,
           samplerVars, diskVars, windowVars, historyVars, workerVars,
           parentVars, callVars
    <2>5. TraceInv'
      BY <1>0, <1>12, <2>0, StageEffect DEF TraceInv, Complete, samplerVars,
           diskVars, windowVars, historyVars, workerVars, parentVars, callVars
    <2>6. PoisonInv'
      BY <1>0, <1>12, <2>0, StageEffect DEF PoisonInv, samplerVars, diskVars,
           windowVars, historyVars, workerVars, parentVars, callVars
    <2>7. NoLeakedWorker'
      BY <1>0, <1>12, <2>0, StageEffect DEF NoLeakedWorker, WorkerAlive,
           samplerVars, diskVars, windowVars, historyVars, workerVars,
           parentVars, callVars
    <2> QED
      BY <2>1, <2>2, <2>3, <2>4, <2>5, <2>6, <2>7 DEF SamplerInv
  <1>13. CASE BeginCommit
    <2>1. CallInv'
      BY <1>0, <1>13, CommitEffect DEF CallInv, samplerVars, diskVars,
           engineVars, historyVars, workerVars, parentVars, callVars,
           pendingVars, windowVars
    <2>2. MessageInv'
      BY <1>0, <1>13, CommitEffect DEF MessageInv, samplerVars, diskVars,
           engineVars, historyVars, workerVars, parentVars, callVars,
           pendingVars, windowVars
    <2>3. PendingInv'
      BY <1>0, <1>13, CommitEffect DEF PendingInv, SamplerPcs, CommitPcs,
           samplerVars, diskVars, engineVars, historyVars, workerVars,
           parentVars, callVars, pendingVars, windowVars
    <2>4. AliveInv'
      BY <1>0, <1>13, CommitEffect DEF AliveInv, WorkerAlive, samplerVars,
           diskVars, engineVars, historyVars, workerVars, parentVars,
           callVars, pendingVars, windowVars
    <2>5. TraceInv'
      BY <1>0, <1>13, CommitEffect DEF TraceInv, Complete, samplerVars,
           diskVars, engineVars, historyVars, workerVars, parentVars,
           callVars, pendingVars, windowVars
    <2>6. PoisonInv'
      BY <1>0, <1>13, CommitEffect DEF PoisonInv, samplerVars, diskVars,
           engineVars, historyVars, workerVars, parentVars, callVars,
           pendingVars, windowVars
    <2>7. NoLeakedWorker'
      BY <1>0, <1>13, CommitEffect DEF NoLeakedWorker, WorkerAlive,
           samplerVars, diskVars, engineVars, historyVars, workerVars,
           parentVars, callVars, pendingVars, windowVars
    <2> QED
      BY <2>1, <2>2, <2>3, <2>4, <2>5, <2>6, <2>7 DEF SamplerInv
  <1>14. CASE CommitRaises \/ LinkMarker \/ SyncDirectory
    <2>1. CallInv'
      BY <1>0, <1>14 DEF CallInv, CommitRaises, LinkMarker, SyncDirectory,
           samplerVars, diskVars, engineVars, historyVars, workerVars,
           parentVars, callVars, pendingVars, windowVars
    <2>2. MessageInv'
      BY <1>0, <1>14 DEF MessageInv, CommitRaises, LinkMarker, SyncDirectory,
           samplerVars, diskVars, engineVars, historyVars, workerVars,
           parentVars, callVars, pendingVars, windowVars
    <2>3. PendingInv'
      BY <1>0, <1>14 DEF PendingInv, SamplerPcs, CommitPcs, CommitRaises,
           LinkMarker, SyncDirectory, samplerVars, diskVars, engineVars,
           historyVars, workerVars, parentVars, callVars, pendingVars,
           windowVars
    <2>4. AliveInv'
      BY <1>0, <1>14 DEF AliveInv, WorkerAlive, CommitRaises, LinkMarker,
           SyncDirectory, samplerVars, diskVars, engineVars, historyVars,
           workerVars, parentVars, callVars, pendingVars, windowVars
    <2>5. TraceInv'
      BY <1>0, <1>14 DEF TraceInv, Complete, CommitRaises, LinkMarker,
           SyncDirectory, samplerVars, diskVars, engineVars, historyVars,
           workerVars, parentVars, callVars, pendingVars, windowVars
    <2>6. PoisonInv'
      BY <1>0, <1>14 DEF PoisonInv, CommitRaises, LinkMarker, SyncDirectory,
           samplerVars, diskVars, engineVars, historyVars, workerVars,
           parentVars, callVars, pendingVars, windowVars
    <2>7. NoLeakedWorker'
      BY <1>0, <1>14 DEF NoLeakedWorker, WorkerAlive, PendingInv, AliveInv,
           CommitPcs, CommitRaises, LinkMarker, SyncDirectory, samplerVars,
           diskVars, engineVars, historyVars, workerVars, parentVars,
           callVars, pendingVars, windowVars
    <2> QED
      BY <2>1, <2>2, <2>3, <2>4, <2>5, <2>6, <2>7 DEF SamplerInv
  <1>15. CASE AcceptCommit
    <2>1. CallInv'
      BY <1>0, <1>15 DEF CallInv, AcceptCommit, samplerVars, diskVars,
           pendingVars, workerVars, parentVars, callVars
    <2>2. MessageInv'
      BY <1>0, <1>15 DEF MessageInv, AcceptCommit, samplerVars, diskVars,
           pendingVars, workerVars, parentVars, callVars
    <2>3. PendingInv'
      BY <1>0, <1>15 DEF PendingInv, SamplerPcs, CommitPcs, AcceptCommit,
           samplerVars, diskVars, pendingVars, workerVars, parentVars,
           callVars
    <2>4. AliveInv'
      BY <1>0, <1>15 DEF AliveInv, WorkerAlive, AcceptCommit, samplerVars,
           diskVars, pendingVars, workerVars, parentVars, callVars
    <2>5. TraceInv'
      BY <1>0, <1>15 DEF TraceInv, Complete, AcceptCommit, samplerVars,
           diskVars, pendingVars, workerVars, parentVars, callVars
    <2>6. PoisonInv'
      BY <1>0, <1>15 DEF PoisonInv, AcceptCommit, samplerVars, diskVars,
           pendingVars, workerVars, parentVars, callVars
    <2>7. NoLeakedWorker'
      BY <1>0, <1>15 DEF NoLeakedWorker, WorkerAlive, PendingInv, AliveInv,
           CommitPcs, AcceptCommit, samplerVars, diskVars, pendingVars,
           workerVars, parentVars, callVars
    <2> QED
      BY <2>1, <2>2, <2>3, <2>4, <2>5, <2>6, <2>7 DEF SamplerInv
  <1>16. ASSUME NEW replaceLatest \in BOOLEAN, Fork(replaceLatest) PROVE SamplerInv'
    <2>1. CallInv'
      BY <1>0, <1>16 DEF CallInv, Fork, samplerVars, diskVars, pendingVars,
           historyVars, workerVars, parentVars, callVars
    <2>2. MessageInv'
      BY <1>0, <1>16 DEF MessageInv, Fork, samplerVars, diskVars, pendingVars,
           historyVars, workerVars, parentVars, callVars
    <2>3. PendingInv'
      BY <1>0, <1>16 DEF PendingInv, SamplerPcs, CommitPcs, Fork, samplerVars,
           diskVars, pendingVars, historyVars, workerVars, parentVars,
           callVars
    <2>4. AliveInv'
      BY <1>0, <1>16 DEF AliveInv, WorkerAlive, Fork, samplerVars, diskVars,
           pendingVars, historyVars, workerVars, parentVars, callVars
    <2>5. TraceInv'
      BY <1>0, <1>16 DEF TraceInv, Complete, Fork, samplerVars, diskVars,
           pendingVars, historyVars, workerVars, parentVars, callVars
    <2>6. PoisonInv'
      BY <1>0, <1>16 DEF PoisonInv, Fork, samplerVars, diskVars, pendingVars,
           historyVars, workerVars, parentVars, callVars
    <2>7. NoLeakedWorker'
      BY <1>0, <1>16 DEF NoLeakedWorker, WorkerAlive, AliveInv, Fork,
           samplerVars, diskVars, pendingVars, historyVars, workerVars,
           parentVars, callVars
    <2> QED
      BY <2>1, <2>2, <2>3, <2>4, <2>5, <2>6, <2>7 DEF SamplerInv
  <1>17. CASE Crash
    <2>1. CallInv'
      BY <1>0, <1>17 DEF CallInv, Crash, FreshSampler, ClearPending
    <2>2. MessageInv'
      BY <1>0, <1>17 DEF MessageInv, Crash, FreshSampler, ClearPending
    <2>3. PendingInv'
      BY <1>0, <1>17 DEF PendingInv, SamplerPcs, CommitPcs, Crash,
           FreshSampler, ClearPending
    <2>4. AliveInv'
      BY <1>0, <1>17 DEF AliveInv, WorkerAlive, Crash, FreshSampler,
           ClearPending
    <2>5. TraceInv'
      BY <1>0, <1>17 DEF TraceInv, Complete, Crash, FreshSampler, ClearPending
    <2>6. PoisonInv'
      BY <1>0, <1>17 DEF PoisonInv, Crash, FreshSampler, ClearPending
    <2>7. NoLeakedWorker'
      BY <1>0, <1>17 DEF NoLeakedWorker, WorkerAlive, Crash, FreshSampler,
           ClearPending
    <2> QED
      BY <2>1, <2>2, <2>3, <2>4, <2>5, <2>6, <2>7 DEF SamplerInv
  <1>18. CASE Sampling
    <2>0. SamplerStep /\ pc # "opening" /\ UNCHANGED <<engineVars, pc, leaked>>
      BY <1>18 DEF Sampling, historyVars
    <2>1. CASE WorkerConnect
      <3>1. CallInv'
        BY <1>0, <2>0, <2>1 DEF CallInv, WorkerConnect, engineVars, Leave,
             parentVars, callVars, pendingVars, windowVars
      <3>2. MessageInv'
        BY <1>0, <2>0, <2>1 DEF MessageInv, WorkerConnect, engineVars, Leave,
             parentVars, callVars, pendingVars, windowVars
      <3>3. PendingInv'
        BY <1>0, <2>0, <2>1 DEF PendingInv, SamplerPcs, CommitPcs,
             WorkerConnect, engineVars, Leave, parentVars, callVars,
             pendingVars, windowVars
      <3>4. AliveInv'
        BY <1>0, <2>0, <2>1 DEF AliveInv, WorkerAlive, WorkerConnect,
             engineVars, Leave, parentVars, callVars, pendingVars, windowVars
      <3>5. TraceInv'
        BY <1>0, <2>0, <2>1 DEF TraceInv, Complete, WorkerConnect, engineVars,
             Leave, parentVars, callVars, pendingVars, windowVars
      <3>6. PoisonInv'
        BY <1>0, <2>0, <2>1 DEF PoisonInv, WorkerConnect, engineVars, Leave,
             parentVars, callVars, pendingVars, windowVars
      <3>7. NoLeakedWorker'
        BY <1>0, <2>0, <2>1 DEF NoLeakedWorker, WorkerAlive, WorkerConnect,
             engineVars, Leave, parentVars, callVars, pendingVars, windowVars
      <3> QED
        BY <3>1, <3>2, <3>3, <3>4, <3>5, <3>6, <3>7 DEF SamplerInv
    <2>2. CASE WorkerSample
      <3>1. CallInv'
        BY <1>0, <2>0, <2>2 DEF CallInv, WorkerSample, engineVars, Leave,
             parentVars, callVars, pendingVars, windowVars
      <3>2. MessageInv'
        BY <1>0, <2>0, <2>2 DEF MessageInv, WorkerSample, engineVars, Leave,
             parentVars, callVars, pendingVars, windowVars
      <3>3. PendingInv'
        BY <1>0, <2>0, <2>2 DEF PendingInv, SamplerPcs, CommitPcs,
             WorkerSample, engineVars, Leave, parentVars, callVars,
             pendingVars, windowVars
      <3>4. AliveInv'
        BY <1>0, <2>0, <2>2 DEF AliveInv, WorkerAlive, WorkerSample,
             engineVars, Leave, parentVars, callVars, pendingVars, windowVars
      <3>5. TraceInv'
        BY <1>0, <2>0, <2>2 DEF TraceInv, Complete, WorkerSample, engineVars,
             Leave, parentVars, callVars, pendingVars, windowVars
      <3>6. PoisonInv'
        BY <1>0, <2>0, <2>2 DEF PoisonInv, WorkerSample, engineVars, Leave,
             parentVars, callVars, pendingVars, windowVars
      <3>7. NoLeakedWorker'
        BY <1>0, <2>0, <2>2 DEF NoLeakedWorker, WorkerAlive, WorkerSample,
             engineVars, Leave, parentVars, callVars, pendingVars, windowVars
      <3> QED
        BY <3>1, <3>2, <3>3, <3>4, <3>5, <3>6, <3>7 DEF SamplerInv
    <2>3. CASE WorkerLeave
      <3>1. CallInv'
        BY <1>0, <2>0, <2>3 DEF CallInv, WorkerLeave, engineVars, Leave,
             parentVars, callVars, pendingVars, windowVars
      <3>2. MessageInv'
        BY <1>0, <2>0, <2>3 DEF MessageInv, WorkerLeave, engineVars, Leave,
             parentVars, callVars, pendingVars, windowVars
      <3>3. PendingInv'
        BY <1>0, <2>0, <2>3 DEF PendingInv, SamplerPcs, CommitPcs,
             WorkerLeave, engineVars, Leave, parentVars, callVars,
             pendingVars, windowVars
      <3>4. AliveInv'
        BY <1>0, <2>0, <2>3 DEF AliveInv, WorkerAlive, WorkerLeave,
             engineVars, Leave, parentVars, callVars, pendingVars, windowVars
      <3>5. TraceInv'
        BY <1>0, <2>0, <2>3 DEF TraceInv, Complete, WorkerLeave, engineVars,
             Leave, parentVars, callVars, pendingVars, windowVars
      <3>6. PoisonInv'
        BY <1>0, <2>0, <2>3 DEF PoisonInv, WorkerLeave, engineVars, Leave,
             parentVars, callVars, pendingVars, windowVars
      <3>7. NoLeakedWorker'
        BY <1>0, <2>0, <2>3 DEF NoLeakedWorker, WorkerAlive, WorkerLeave,
             engineVars, Leave, parentVars, callVars, pendingVars, windowVars
      <3> QED
        BY <3>1, <3>2, <3>3, <3>4, <3>5, <3>6, <3>7 DEF SamplerInv
    <2>4. CASE WorkerSend
      <3>1. CallInv'
        BY <1>0, <2>0, <2>4 DEF CallInv, WorkerSend, engineVars, parentVars,
             callVars, pendingVars, windowVars
      <3>2. MessageInv'
        BY <1>0, <2>0, <2>4 DEF MessageInv, WorkerSend, engineVars,
             parentVars, callVars, pendingVars, windowVars
      <3>3. PendingInv'
        BY <1>0, <2>0, <2>4 DEF PendingInv, SamplerPcs, CommitPcs, WorkerSend,
             engineVars, parentVars, callVars, pendingVars, windowVars
      <3>4. AliveInv'
        BY <1>0, <2>0, <2>4 DEF AliveInv, WorkerAlive, WorkerSend, engineVars,
             parentVars, callVars, pendingVars, windowVars
      <3>5. TraceInv'
        BY <1>0, <2>0, <2>4 DEF TraceInv, Complete, WorkerSend, engineVars,
             parentVars, callVars, pendingVars, windowVars
      <3>6. PoisonInv'
        BY <1>0, <2>0, <2>4 DEF PoisonInv, WorkerSend, engineVars, parentVars,
             callVars, pendingVars, windowVars
      <3>7. NoLeakedWorker'
        BY <1>0, <2>0, <2>4 DEF NoLeakedWorker, WorkerAlive, WorkerSend,
             engineVars, parentVars, callVars, pendingVars, windowVars
      <3> QED
        BY <3>1, <3>2, <3>3, <3>4, <3>5, <3>6, <3>7 DEF SamplerInv
    <2>5. CASE WorkerExit
      <3>1. CallInv'
        BY <1>0, <2>0, <2>5 DEF CallInv, WorkerExit, engineVars, parentVars,
             callVars, pendingVars, windowVars
      <3>2. MessageInv'
        BY <1>0, <2>0, <2>5 DEF MessageInv, WorkerExit, engineVars,
             parentVars, callVars, pendingVars, windowVars
      <3>3. PendingInv'
        BY <1>0, <2>0, <2>5 DEF PendingInv, SamplerPcs, CommitPcs, WorkerExit,
             engineVars, parentVars, callVars, pendingVars, windowVars
      <3>4. AliveInv'
        BY <1>0, <2>0, <2>5 DEF AliveInv, WorkerAlive, WorkerExit, engineVars,
             parentVars, callVars, pendingVars, windowVars
      <3>5. TraceInv'
        BY <1>0, <2>0, <2>5 DEF TraceInv, Complete, WorkerExit, engineVars,
             parentVars, callVars, pendingVars, windowVars
      <3>6. PoisonInv'
        BY <1>0, <2>0, <2>5 DEF PoisonInv, WorkerExit, engineVars, parentVars,
             callVars, pendingVars, windowVars
      <3>7. NoLeakedWorker'
        BY <1>0, <2>0, <2>5 DEF NoLeakedWorker, WorkerAlive, WorkerExit,
             engineVars, parentVars, callVars, pendingVars, windowVars
      <3> QED
        BY <3>1, <3>2, <3>3, <3>4, <3>5, <3>6, <3>7 DEF SamplerInv
    <2>6. CASE WorkerCrash
      <3>1. CallInv'
        BY <1>0, <2>0, <2>6 DEF CallInv, WorkerCrash, engineVars, WorkerAlive,
             parentVars, callVars, pendingVars, windowVars
      <3>2. MessageInv'
        BY <1>0, <2>0, <2>6 DEF MessageInv, WorkerCrash, engineVars,
             WorkerAlive, parentVars, callVars, pendingVars, windowVars
      <3>3. PendingInv'
        BY <1>0, <2>0, <2>6 DEF PendingInv, SamplerPcs, CommitPcs,
             WorkerCrash, engineVars, WorkerAlive, parentVars, callVars,
             pendingVars, windowVars
      <3>4. AliveInv'
        BY <1>0, <2>0, <2>6 DEF AliveInv, WorkerAlive, WorkerCrash,
             engineVars, parentVars, callVars, pendingVars, windowVars
      <3>5. TraceInv'
        BY <1>0, <2>0, <2>6 DEF TraceInv, Complete, WorkerAlive, WorkerCrash,
             engineVars, parentVars, callVars, pendingVars, windowVars
      <3>6. PoisonInv'
        BY <1>0, <2>0, <2>6 DEF PoisonInv, WorkerCrash, engineVars,
             WorkerAlive, parentVars, callVars, pendingVars, windowVars
      <3>7. NoLeakedWorker'
        BY <1>0, <2>0, <2>6 DEF NoLeakedWorker, WorkerAlive, WorkerCrash,
             engineVars, parentVars, callVars, pendingVars, windowVars
      <3> QED
        BY <3>1, <3>2, <3>3, <3>4, <3>5, <3>6, <3>7 DEF SamplerInv
    <2>7. CASE Receive
      <3>1. CallInv'
        BY <1>0, <2>0, <2>7 DEF CallInv, Receive, engineVars, Return,
             workerVars, parentVars, TerminateWorker, pendingVars, windowVars,
             WorkerAlive
      <3>2. MessageInv'
        <4>1. /\ pipe # <<>> /\ pipe' = Tail(pipe) /\ outcome' = outcome
              /\ worker' = worker \/ worker' = "gone"
              /\ message' = Head(pipe) \/ message' = "none"
          BY <1>0, <2>7 DEF Receive, Return, TerminateWorker, workerVars, callVars
        <4>2. /\ 1 \in 1 .. Len(pipe) /\ Head(pipe) = pipe[1]
              /\ \A i \in 1 .. Len(pipe') : i + 1 \in 1 .. Len(pipe) /\ pipe'[i] = pipe[i + 1]
          BY <1>0, <4>1
        <4> QED
          BY <1>0, <2>0, <4>1, <4>2 DEF MessageInv
      <3>3. PendingInv'
        BY <1>0, <2>0, <2>7 DEF PendingInv, SamplerPcs, CommitPcs, Receive,
             engineVars, Return, workerVars, parentVars, TerminateWorker,
             pendingVars, windowVars, WorkerAlive
      <3>4. AliveInv'
        BY <1>0, <2>0, <2>7 DEF AliveInv, WorkerAlive, Receive, engineVars,
             Return, workerVars, parentVars, TerminateWorker, pendingVars,
             windowVars
      <3>5. TraceInv'
        BY <1>0, <2>0, <2>7 DEF TraceInv, Complete, WorkerAlive, CallInv,
             Receive, engineVars, Return, workerVars, parentVars,
             TerminateWorker, pendingVars, windowVars
      <3>6. PoisonInv'
        BY <1>0, <2>0, <2>7 DEF PoisonInv, Receive, engineVars, Return,
             workerVars, parentVars, TerminateWorker, pendingVars, windowVars,
             WorkerAlive
      <3>7. NoLeakedWorker'
        BY <1>0, <2>0, <2>7 DEF NoLeakedWorker, WorkerAlive, Receive,
             engineVars, Return, workerVars, parentVars, TerminateWorker,
             pendingVars, windowVars
      <3> QED
        BY <3>1, <3>2, <3>3, <3>4, <3>5, <3>6, <3>7 DEF SamplerInv
    <2>8. CASE ReceiveFails
      <3>1. CallInv'
        BY <1>0, <2>0, <2>8 DEF CallInv, ReceiveFails, engineVars,
             TerminateWorker, Return, pendingVars, windowVars, WorkerAlive
      <3>2. MessageInv'
        BY <1>0, <2>0, <2>8 DEF MessageInv, ReceiveFails, engineVars,
             TerminateWorker, Return, pendingVars, windowVars, WorkerAlive
      <3>3. PendingInv'
        BY <1>0, <2>0, <2>8 DEF PendingInv, SamplerPcs, CommitPcs,
             ReceiveFails, engineVars, TerminateWorker, Return, pendingVars,
             windowVars, WorkerAlive
      <3>4. AliveInv'
        BY <1>0, <2>0, <2>8 DEF AliveInv, WorkerAlive, ReceiveFails,
             engineVars, TerminateWorker, Return, pendingVars, windowVars
      <3>5. TraceInv'
        BY <1>0, <2>0, <2>8 DEF TraceInv, Complete, WorkerAlive, CallInv,
             ReceiveFails, engineVars, TerminateWorker, Return, pendingVars,
             windowVars
      <3>6. PoisonInv'
        BY <1>0, <2>0, <2>8 DEF PoisonInv, ReceiveFails, engineVars,
             TerminateWorker, Return, pendingVars, windowVars, WorkerAlive
      <3>7. NoLeakedWorker'
        BY <1>0, <2>0, <2>8 DEF NoLeakedWorker, WorkerAlive, ReceiveFails,
             engineVars, TerminateWorker, Return, pendingVars, windowVars
      <3> QED
        BY <3>1, <3>2, <3>3, <3>4, <3>5, <3>6, <3>7 DEF SamplerInv
    <2>9. CASE ReceiveClosed
      <3>1. CallInv'
        BY <1>0, <2>0, <2>9 DEF CallInv, ReceiveClosed, engineVars, Return,
             workerVars, parentVars, pendingVars, windowVars
      <3>2. MessageInv'
        BY <1>0, <2>0, <2>9 DEF MessageInv, ReceiveClosed, engineVars, Return,
             workerVars, parentVars, pendingVars, windowVars
      <3>3. PendingInv'
        BY <1>0, <2>0, <2>9 DEF PendingInv, SamplerPcs, CommitPcs,
             ReceiveClosed, engineVars, Return, workerVars, parentVars,
             pendingVars, windowVars
      <3>4. AliveInv'
        BY <1>0, <2>0, <2>9 DEF AliveInv, WorkerAlive, ReceiveClosed,
             engineVars, Return, workerVars, parentVars, pendingVars,
             windowVars
      <3>5. TraceInv'
        BY <1>0, <2>0, <2>9 DEF TraceInv, Complete, ReceiveClosed, engineVars,
             Return, workerVars, parentVars, pendingVars, windowVars
      <3>6. PoisonInv'
        BY <1>0, <2>0, <2>9 DEF PoisonInv, ReceiveClosed, engineVars, Return,
             workerVars, parentVars, pendingVars, windowVars
      <3>7. NoLeakedWorker'
        BY <1>0, <2>0, <2>9 DEF NoLeakedWorker, WorkerAlive, ReceiveClosed,
             engineVars, Return, workerVars, parentVars, pendingVars,
             windowVars
      <3> QED
        BY <3>1, <3>2, <3>3, <3>4, <3>5, <3>6, <3>7 DEF SamplerInv
    <2>10. CASE Join
      <3>1. CallInv'
        BY <1>0, <2>0, <2>10 DEF CallInv, Join, engineVars, Return,
             GoodAnswer, workerVars, pendingVars, windowVars
      <3>2. MessageInv'
        BY <1>0, <2>0, <2>10 DEF MessageInv, Join, engineVars, Return,
             GoodAnswer, workerVars, pendingVars, windowVars
      <3>3. PendingInv'
        BY <1>0, <2>0, <2>10 DEF PendingInv, SamplerPcs, CommitPcs, Join,
             engineVars, Return, GoodAnswer, workerVars, pendingVars,
             windowVars
      <3>4. AliveInv'
        BY <1>0, <2>0, <2>10 DEF AliveInv, WorkerAlive, Join, engineVars,
             Return, GoodAnswer, workerVars, pendingVars, windowVars
      <3>5. TraceInv'
        BY <1>0, <2>0, <2>10 DEF TraceInv, Complete, CallInv, MessageInv,
             Join, engineVars, Return, GoodAnswer, workerVars, pendingVars,
             windowVars
      <3>6. PoisonInv'
        BY <1>0, <2>0, <2>10 DEF PoisonInv, CallInv, Join, engineVars, Return,
             GoodAnswer, workerVars, pendingVars, windowVars
      <3>7. NoLeakedWorker'
        BY <1>0, <2>0, <2>10 DEF NoLeakedWorker, WorkerAlive, Join,
             engineVars, Return, GoodAnswer, workerVars, pendingVars,
             windowVars
      <3> QED
        BY <3>1, <3>2, <3>3, <3>4, <3>5, <3>6, <3>7 DEF SamplerInv
    <2>11. CASE JoinFails
      <3>1. CallInv'
        BY <1>0, <2>0, <2>11 DEF CallInv, JoinFails, engineVars, WorkerAlive,
             TerminateWorker, Return, pendingVars, windowVars
      <3>2. MessageInv'
        BY <1>0, <2>0, <2>11 DEF MessageInv, JoinFails, engineVars,
             WorkerAlive, TerminateWorker, Return, pendingVars, windowVars
      <3>3. PendingInv'
        BY <1>0, <2>0, <2>11 DEF PendingInv, SamplerPcs, CommitPcs, JoinFails,
             engineVars, WorkerAlive, TerminateWorker, Return, pendingVars,
             windowVars
      <3>4. AliveInv'
        BY <1>0, <2>0, <2>11 DEF AliveInv, WorkerAlive, JoinFails, engineVars,
             TerminateWorker, Return, pendingVars, windowVars
      <3>5. TraceInv'
        BY <1>0, <2>0, <2>11 DEF TraceInv, Complete, WorkerAlive, CallInv,
             JoinFails, engineVars, TerminateWorker, Return, pendingVars,
             windowVars
      <3>6. PoisonInv'
        BY <1>0, <2>0, <2>11 DEF PoisonInv, CallInv, JoinFails, engineVars,
             WorkerAlive, TerminateWorker, Return, pendingVars, windowVars
      <3>7. NoLeakedWorker'
        BY <1>0, <2>0, <2>11 DEF NoLeakedWorker, WorkerAlive, JoinFails,
             engineVars, TerminateWorker, Return, pendingVars, windowVars
      <3> QED
        BY <3>1, <3>2, <3>3, <3>4, <3>5, <3>6, <3>7 DEF SamplerInv
    <2> QED
      BY <2>0, <2>1, <2>2, <2>3, <2>4, <2>5, <2>6, <2>7, <2>8, <2>9, <2>10, <2>11 DEF SamplerStep, WorkerStep, ParentStep
  <1>19. CASE UNCHANGED vars
    BY <1>0, <1>19 DEF SamplerInv, vars, samplerVars, diskVars, engineVars, historyVars, workerVars, parentVars, callVars, pendingVars, windowVars, CallInv, MessageInv, PendingInv, SamplerPcs, CommitPcs, AliveInv, WorkerAlive, TraceInv, Complete, PoisonInv, NoLeakedWorker
  <1> QED
    BY <1>1, <1>2, <1>3, <1>4, <1>5, <1>6, <1>7, <1>8, <1>9, <1>10, <1>11, <1>12, <1>13, <1>14, <1>15, <1>16, <1>17, <1>18, <1>19 DEF Next, Infer

-----------------------------------------------------------------------------
(* The types of the sampler, from any step of it.                           *)

LEMMA FreshTypes == FreshSampler => SamplerTypes'
  <1> SUFFICES ASSUME FreshSampler PROVE SamplerTypes'
    OBVIOUS
  <1>1. /\ worker' = "none" /\ exitcode' = 0 /\ outcome' = "result" /\ samples' = 0
        /\ pipe' = <<>>
        /\ readOpen' = FALSE /\ stopEvent' = FALSE /\ discardEvent' = FALSE
        /\ started' = FALSE /\ finished' = FALSE
        /\ call' = "none" /\ message' = "none" /\ returned' = "ok"
    BY DEF FreshSampler
  <1>2. samples' \in 0 .. MaxTrace
    BY <1>1, TraceAssumption
  <1>3. pipe' \in Seq(Messages)
    BY <1>1
  <1> QED
    BY <1>1, <1>2, <1>3 DEF SamplerTypes, Messages

LEMMA SameTypes == SamplerTypes /\ UNCHANGED samplerVars => SamplerTypes'
  BY DEF SamplerTypes, samplerVars, workerVars, parentVars, callVars

LEMMA StepTypes == SamplerTypes /\ SamplerStep => SamplerTypes'
  <1> SUFFICES ASSUME SamplerTypes, SamplerStep PROVE SamplerTypes'
    OBVIOUS
  <1> USE TraceAssumption
  <1>0. /\ worker \in {"none", "connecting", "sampling", "leaving", "sent", "gone"}
        /\ exitcode \in {0, 1} /\ outcome \in Messages /\ samples \in 0 .. MaxTrace
        /\ pipe \in Seq(Messages) /\ readOpen \in BOOLEAN
        /\ stopEvent \in BOOLEAN /\ discardEvent \in BOOLEAN
        /\ started \in BOOLEAN /\ finished \in BOOLEAN
        /\ call \in {"none", "start", "finish", "cancel"}
        /\ message \in Messages \cup {"none"} /\ returned \in {"ok", "raised"}
    BY DEF SamplerTypes
  <1>m. "ready" \in Messages /\ "result" \in Messages /\ "cancelled" \in Messages
        /\ "error" \in Messages
    BY DEF Messages
  <1>a. /\ \A m \in Messages : Append(pipe, m) \in Seq(Messages)
        /\ pipe # <<>> => Tail(pipe) \in Seq(Messages) /\ Head(pipe) \in Messages
    BY <1>0
  <1>1. CASE WorkerConnect
    <2>1. UNCHANGED <<exitcode, parentVars, callVars>>
      BY <1>1 DEF WorkerConnect
    <2>2. pipe' \in Seq(Messages)
      BY <1>0, <1>1, <1>m, <1>a DEF WorkerConnect
    <2>3. outcome' \in Messages /\ worker' \in {"sampling", "leaving"}
      BY <1>0, <1>1, <1>m DEF WorkerConnect, Leave
    <2>4. samples' \in 0 .. MaxTrace
      BY <1>0, <1>1 DEF WorkerConnect
    <2> QED
      BY <1>0, <2>1, <2>2, <2>3, <2>4 DEF SamplerTypes, parentVars, callVars
  <1>2. CASE WorkerSample
    <2>1. UNCHANGED <<exitcode, pipe, parentVars, callVars>>
      BY <1>2 DEF WorkerSample
    <2>3. outcome' \in Messages /\ worker' \in {"sampling", "leaving"}
      BY <1>0, <1>2, <1>m DEF WorkerSample, Leave
    <2>4. samples' \in 0 .. MaxTrace
      BY <1>0, <1>2 DEF WorkerSample
    <2> QED
      BY <1>0, <2>1, <2>3, <2>4 DEF SamplerTypes, parentVars, callVars
  <1>3. CASE WorkerLeave
    <2>1. UNCHANGED <<exitcode, pipe, parentVars, callVars>>
      BY <1>3 DEF WorkerLeave
    <2>3. outcome' \in Messages /\ worker' = "leaving"
      BY <1>0, <1>3, <1>m DEF WorkerLeave, Leave
    <2>4. samples' \in 0 .. MaxTrace
      BY <1>0, <1>3 DEF WorkerLeave
    <2> QED
      BY <1>0, <2>1, <2>3, <2>4 DEF SamplerTypes, parentVars, callVars
  <1>4. CASE WorkerSend
    <2>1. pipe' \in Seq(Messages)
      BY <1>0, <1>4, <1>a DEF WorkerSend
    <2> QED
      BY <1>0, <1>4, <2>1 DEF SamplerTypes, WorkerSend, parentVars, callVars
  <1>5. CASE WorkerExit
    BY <1>0, <1>5 DEF SamplerTypes, WorkerExit, parentVars, callVars
  <1>6. CASE WorkerCrash
    BY <1>0, <1>6 DEF SamplerTypes, WorkerCrash, parentVars, callVars
  <1>t. TerminateWorker => /\ readOpen' = FALSE /\ worker' \in {worker, "gone"}
                           /\ exitcode' \in {exitcode, 1} /\ UNCHANGED <<outcome, samples>>
    BY DEF TerminateWorker
  <1>r. \A how \in {"ok", "raised"} :
            Return(how) => /\ call' = "none" /\ message' = "none" /\ returned' = how
    BY DEF Return
  <1>7. CASE Receive
    <2>1. pipe' \in Seq(Messages) /\ Head(pipe) \in Messages
      BY <1>7, <1>a DEF Receive
    <2>2. \/ Return("ok") /\ UNCHANGED <<workerVars, parentVars>>
          \/ /\ TerminateWorker /\ Return("raised")
             /\ UNCHANGED <<stopEvent, discardEvent, started, finished>>
          \/ message' = Head(pipe) /\ UNCHANGED <<call, returned, workerVars, parentVars>>
      BY <1>7 DEF Receive
    <2>3. CASE Return("ok") /\ UNCHANGED <<workerVars, parentVars>>
      BY <1>0, <1>r, <2>1, <2>3 DEF SamplerTypes, workerVars, parentVars
    <2>4. CASE /\ TerminateWorker /\ Return("raised")
               /\ UNCHANGED <<stopEvent, discardEvent, started, finished>>
      BY <1>0, <1>r, <1>t, <2>1, <2>4 DEF SamplerTypes
    <2>5. CASE message' = Head(pipe) /\ UNCHANGED <<call, returned, workerVars, parentVars>>
      BY <1>0, <2>1, <2>5 DEF SamplerTypes, workerVars, parentVars
    <2> QED
      BY <2>2, <2>3, <2>4, <2>5
  <1>8. CASE ReceiveFails
    BY <1>0, <1>8, <1>r, <1>t DEF SamplerTypes, ReceiveFails
  <1>9. CASE ReceiveClosed
    BY <1>0, <1>9, <1>r DEF SamplerTypes, ReceiveClosed, workerVars, parentVars
  <1>10. CASE Join
    <2>1. /\ call' = "none" /\ message' = "none" /\ returned' \in {"ok", "raised"}
          /\ readOpen' \in BOOLEAN
          /\ UNCHANGED <<workerVars, pipe, stopEvent, discardEvent, started, finished>>
      BY <1>0, <1>10 DEF Join, Return
    <2> QED
      BY <1>0, <2>1 DEF SamplerTypes, workerVars
  <1>11. CASE JoinFails
    BY <1>0, <1>11, <1>r, <1>t DEF SamplerTypes, JoinFails
  <1> QED
    BY <1>1, <1>2, <1>3, <1>4, <1>5, <1>6, <1>7, <1>8, <1>9, <1>10, <1>11
       DEF SamplerStep, WorkerStep, ParentStep

-----------------------------------------------------------------------------
(* Every step keeps it: the types.                                          *)

LEMMA TypeStep == IInv /\ [Next]_vars => TypeOK'
  <1> SUFFICES ASSUME IInv, [Next]_vars PROVE TypeOK'
    OBVIOUS
  <1> USE TraceAssumption, EngineAssumption DEF Goto
  <1>0. /\ SamplerTypes
        /\ marker \in [Views -> Attempts \cup {None}] /\ synced \subseteq Views
        /\ acknowledged \in [Views -> Attempts \cup {None}] /\ attempts \in 0 .. MaxAttempts
        /\ root \in Roots /\ pc \in Pcs /\ poisoned \in BOOLEAN /\ leaked \in BOOLEAN
        /\ pendingSampler \in BOOLEAN /\ pendingTrace \in BOOLEAN
        /\ pendingKey \in Keys \cup {None} /\ pendingAttempt \in Attempts \cup {None}
        /\ held \in Attempts \cup {None} /\ captureRoots \subseteq Keys
        /\ pendingCommit \in Candidate \cup {None} /\ sources \subseteq Source
        /\ updates \subseteq FrameUpdate /\ continuity \subseteq Source
    BY DEF IInv, TypeOK
  <1>c. pc \in CommitPcs =>
            /\ pendingCommit.view \in Views /\ pendingCommit.view[2] \in Keys
            /\ pendingCommit.attempt \in Attempts
            /\ pendingCommit.sources \subseteq Source
            /\ pendingCommit.updates \subseteq FrameUpdate
    <2> SUFFICES ASSUME pc \in CommitPcs
                 PROVE  /\ pendingCommit.view \in Views /\ pendingCommit.view[2] \in Keys
                        /\ pendingCommit.attempt \in Attempts
                        /\ pendingCommit.sources \subseteq Source
                        /\ pendingCommit.updates \subseteq FrameUpdate
      OBVIOUS
    <2>1. pendingCommit \in Candidate
      BY <1>0 DEF IInv, PendingInv
    <2> QED
      BY <2>1 DEF Candidate, Views
  <1>1. ASSUME NEW k \in Keys, BeginCapture(k) PROVE TypeOK'
    <2>1. SamplerTypes'
      BY <1>1, FreshTypes DEF BeginCapture
    <2>2. /\ marker' \in [Views -> Attempts \cup {None}] /\ synced' \subseteq Views
          /\ acknowledged' \in [Views -> Attempts \cup {None}] /\ attempts' \in 0 .. MaxAttempts
      BY <1>0, <1>1 DEF BeginCapture, FreshSampler, WorkerAlive, windowVars
    <2>3. /\ root' \in Roots /\ pc' \in Pcs /\ poisoned' \in BOOLEAN /\ leaked' \in BOOLEAN
          /\ pendingSampler' \in BOOLEAN /\ pendingTrace' \in BOOLEAN
      <3>1. root' \in Roots
        BY <1>0, <1>1 DEF BeginCapture, Roots, pendingVars, windowVars
      <3>2. pc' \in Pcs
        BY <1>0, <1>1 DEF BeginCapture, Pcs, pendingVars, windowVars
      <3>3. poisoned' \in BOOLEAN
        BY <1>0, <1>1 DEF BeginCapture, pendingVars, windowVars
      <3>4. leaked' \in BOOLEAN
        BY <1>0, <1>1 DEF BeginCapture, pendingVars, windowVars
      <3>5. pendingSampler' \in BOOLEAN
        BY <1>0, <1>1 DEF BeginCapture, pendingVars, windowVars
      <3>6. pendingTrace' \in BOOLEAN
        BY <1>0, <1>1 DEF BeginCapture, pendingVars, windowVars
      <3> QED
        BY <3>1, <3>2, <3>3, <3>4, <3>5, <3>6
    <2>4. /\ pendingKey' \in Keys \cup {None} /\ pendingAttempt' \in Attempts \cup {None}
          /\ held' \in Attempts \cup {None} /\ captureRoots' \subseteq Keys
      <3>1. attempts + 1 \in Attempts
        BY <1>0, <1>1 DEF BeginCapture, Attempts
      <3>2. /\ pendingKey' = k /\ pendingAttempt' = attempts + 1
            /\ held' = None /\ captureRoots' = captureRoots
        BY <1>1 DEF BeginCapture, windowVars
      <3> QED
        BY <1>0, <3>1, <3>2
    <2>5. /\ pendingCommit' \in Candidate \cup {None} /\ sources' \subseteq Source
          /\ updates' \subseteq FrameUpdate /\ continuity' \subseteq Source
      BY <1>0, <1>1 DEF BeginCapture, FreshSampler, WorkerAlive, windowVars
    <2> QED
      BY <2>1, <2>2, <2>3, <2>4, <2>5 DEF TypeOK
  <1>2. CASE CaptureRaises
    BY <1>0, <1>2 DEF TypeOK, SamplerTypes, Roots, Pcs, CaptureRaises,
         samplerVars, diskVars, engineVars, historyVars, workerVars,
         parentVars, callVars, pendingVars, windowVars
  <1>3. CASE StartSampler
    BY <1>0, <1>3 DEF TypeOK, SamplerTypes, Roots, Pcs, StartSampler,
         BeginStart, Return, diskVars, engineVars, historyVars, pendingVars,
         windowVars
  <1>4. CASE SamplerStarted
    BY <1>0, <1>4 DEF TypeOK, SamplerTypes, Roots, Pcs, SamplerStarted,
         samplerVars, diskVars, engineVars, historyVars, workerVars,
         parentVars, callVars, pendingVars, windowVars
  <1>5. CASE FinishSampler
    BY <1>0, <1>5 DEF TypeOK, SamplerTypes, Roots, Pcs, FinishSampler,
         BeginFinish, diskVars, engineVars, historyVars, workerVars,
         pendingVars, windowVars
  <1>6. CASE OwnTrace
    BY <1>0, <1>6 DEF TypeOK, SamplerTypes, Roots, Pcs, OwnTrace, samplerVars,
         diskVars, windowVars, historyVars, workerVars, parentVars, callVars
  <1>7. CASE CaptureReturns
    BY <1>0, <1>7 DEF TypeOK, SamplerTypes, Roots, Pcs, CaptureReturns,
         samplerVars, diskVars, engineVars, historyVars, workerVars,
         parentVars, callVars, pendingVars, windowVars
  <1>8. CASE CancelSampler
    <2>1. SamplerTypes'
      BY <1>0, <1>8 DEF SamplerTypes, CancelSampler, BeginCancel, Return,
           diskVars, engineVars, historyVars, WorkerAlive, workerVars,
           pendingVars, windowVars
    <2>2. /\ marker' \in [Views -> Attempts \cup {None}] /\ synced' \subseteq Views
          /\ acknowledged' \in [Views -> Attempts \cup {None}] /\ attempts' \in 0 .. MaxAttempts
      BY <1>0, <1>8 DEF CancelSampler, BeginCancel, Return, diskVars,
           engineVars, historyVars, WorkerAlive, workerVars, pendingVars,
           windowVars
    <2>3. /\ root' \in Roots /\ pc' \in Pcs /\ poisoned' \in BOOLEAN /\ leaked' \in BOOLEAN
          /\ pendingSampler' \in BOOLEAN /\ pendingTrace' \in BOOLEAN
      BY <1>0, <1>8 DEF Pcs, Roots, WorkerAlive, CancelSampler, BeginCancel,
           Return, diskVars, engineVars, historyVars, workerVars, pendingVars,
           windowVars
    <2>4. /\ pendingKey' \in Keys \cup {None} /\ pendingAttempt' \in Attempts \cup {None}
          /\ held' \in Attempts \cup {None} /\ captureRoots' \subseteq Keys
      BY <1>0, <1>8 DEF CancelSampler, BeginCancel, Return, diskVars,
           engineVars, historyVars, WorkerAlive, workerVars, pendingVars,
           windowVars
    <2>5. /\ pendingCommit' \in Candidate \cup {None} /\ sources' \subseteq Source
          /\ updates' \subseteq FrameUpdate /\ continuity' \subseteq Source
      BY <1>0, <1>8 DEF CancelSampler, BeginCancel, Return, diskVars,
           engineVars, historyVars, WorkerAlive, workerVars, pendingVars,
           windowVars
    <2> QED
      BY <2>1, <2>2, <2>3, <2>4, <2>5 DEF TypeOK
  <1>9. CASE SamplerCancelled
    <2>1. SamplerTypes'
      BY <1>0, <1>9, SameTypes DEF SamplerCancelled, ClearPending
    <2>2. /\ marker' \in [Views -> Attempts \cup {None}] /\ synced' \subseteq Views
          /\ acknowledged' \in [Views -> Attempts \cup {None}] /\ attempts' \in 0 .. MaxAttempts
      BY <1>0, <1>9 DEF SamplerCancelled, ClearPending, WorkerAlive,
           pendingVars, samplerVars, diskVars, windowVars, historyVars,
           workerVars, parentVars, callVars
    <2>3. /\ root' \in Roots /\ pc' \in Pcs /\ poisoned' \in BOOLEAN /\ leaked' \in BOOLEAN
          /\ pendingSampler' \in BOOLEAN /\ pendingTrace' \in BOOLEAN
      BY <1>0, <1>9 DEF Pcs, Roots, WorkerAlive, SamplerCancelled,
           ClearPending, pendingVars, samplerVars, diskVars, windowVars,
           historyVars, workerVars, parentVars, callVars
    <2>4. /\ pendingKey' \in Keys \cup {None} /\ pendingAttempt' \in Attempts \cup {None}
          /\ held' \in Attempts \cup {None} /\ captureRoots' \subseteq Keys
      BY <1>0, <1>9 DEF SamplerCancelled, ClearPending, WorkerAlive,
           pendingVars, samplerVars, diskVars, windowVars, historyVars,
           workerVars, parentVars, callVars
    <2>5. /\ pendingCommit' \in Candidate \cup {None} /\ sources' \subseteq Source
          /\ updates' \subseteq FrameUpdate /\ continuity' \subseteq Source
      BY <1>0, <1>9 DEF SamplerCancelled, ClearPending, WorkerAlive,
           pendingVars, samplerVars, diskVars, windowVars, historyVars,
           workerVars, parentVars, callVars
    <2> QED
      BY <2>1, <2>2, <2>3, <2>4, <2>5 DEF TypeOK
  <1>10. CASE CancelCommit
    BY <1>0, <1>10 DEF TypeOK, SamplerTypes, Roots, Pcs, CancelCommit,
         samplerVars, diskVars, pendingVars, windowVars, historyVars,
         workerVars, parentVars, callVars
  <1>11. CASE InferenceRaises
    <2>1. SamplerTypes'
      BY <1>0, <1>11, InferenceEffect DEF SamplerTypes, samplerVars, diskVars,
           windowVars, historyVars, workerVars, parentVars, callVars
    <2>2. /\ marker' \in [Views -> Attempts \cup {None}] /\ synced' \subseteq Views
          /\ acknowledged' \in [Views -> Attempts \cup {None}] /\ attempts' \in 0 .. MaxAttempts
      BY <1>0, <1>11, InferenceEffect DEF samplerVars, diskVars, windowVars,
           historyVars, workerVars, parentVars, callVars
    <2>3. /\ root' \in Roots /\ pc' \in Pcs /\ poisoned' \in BOOLEAN /\ leaked' \in BOOLEAN
          /\ pendingSampler' \in BOOLEAN /\ pendingTrace' \in BOOLEAN
      BY <1>0, <1>11, InferenceEffect DEF Pcs, Roots, samplerVars, diskVars,
           windowVars, historyVars, workerVars, parentVars, callVars
    <2>4. /\ pendingKey' \in Keys \cup {None} /\ pendingAttempt' \in Attempts \cup {None}
          /\ held' \in Attempts \cup {None} /\ captureRoots' \subseteq Keys
      BY <1>0, <1>11, InferenceEffect DEF samplerVars, diskVars, windowVars,
           historyVars, workerVars, parentVars, callVars
    <2>5. /\ pendingCommit' \in Candidate \cup {None} /\ sources' \subseteq Source
          /\ updates' \subseteq FrameUpdate /\ continuity' \subseteq Source
      BY <1>0, <1>11, InferenceEffect DEF samplerVars, diskVars, windowVars,
           historyVars, workerVars, parentVars, callVars
    <2> QED
      BY <2>1, <2>2, <2>3, <2>4, <2>5 DEF TypeOK
  <1>12. ASSUME NEW time \in Times, NEW pose \in Poses,
               Stage([attempt |-> pendingAttempt, time |-> time, pose |-> pose])
        PROVE  TypeOK'
    <2> DEFINE c == [attempt |-> pendingAttempt, time |-> time, pose |-> pose]
               w == FreshSources(c)
               ups == RebuildUpdates(w, c)
    <2>a. Captured
      BY <1>12 DEF Stage
    <2>b. /\ pendingKey \in Keys /\ pendingAttempt \in Attempts
      BY <2>a, CapturedIsHealthy
    <2>c. c \in Source /\ c.attempt = pendingAttempt /\ c.time = time
      BY <2>a, InferredSource
    <2> HIDE DEF c
    <2>d. Stage(c)
      BY <1>12 DEF c
    <2>e. w \in SUBSET Source /\ ups \in SUBSET FrameUpdate
      BY <2>c, <2>d, Staged
    <2>f. View(pendingKey) \in Views
      BY <1>0, <2>b DEF View, Views
    <2>g. /\ pendingCommit' = [view |-> View(pendingKey), attempt |-> pendingAttempt,
                               sources |-> w, updates |-> ups]
          /\ pendingKey' = None /\ pendingAttempt' = None
          /\ pendingSampler' = FALSE /\ pendingTrace' = FALSE
          /\ UNCHANGED <<samplerVars, diskVars, root, poisoned, windowVars, pc, held, historyVars>>
      BY <2>d, StageEffect
    <2> HIDE DEF w, ups
    <2>1. SamplerTypes'
      BY <1>0, <2>g DEF SamplerTypes, samplerVars, diskVars, windowVars,
           historyVars, workerVars, parentVars, callVars
    <2>2. /\ marker' \in [Views -> Attempts \cup {None}] /\ synced' \subseteq Views
          /\ acknowledged' \in [Views -> Attempts \cup {None}] /\ attempts' \in 0 .. MaxAttempts
      BY <1>0, <2>g DEF samplerVars, diskVars, windowVars, historyVars,
           workerVars, parentVars, callVars
    <2>3. /\ root' \in Roots /\ pc' \in Pcs /\ poisoned' \in BOOLEAN /\ leaked' \in BOOLEAN
          /\ pendingSampler' \in BOOLEAN /\ pendingTrace' \in BOOLEAN
      BY <1>0, <2>g DEF Pcs, Roots, samplerVars, diskVars, windowVars,
           historyVars, workerVars, parentVars, callVars
    <2>4. /\ pendingKey' \in Keys \cup {None} /\ pendingAttempt' \in Attempts \cup {None}
          /\ held' \in Attempts \cup {None} /\ captureRoots' \subseteq Keys
      BY <1>0, <2>g DEF samplerVars, diskVars, windowVars, historyVars,
           workerVars, parentVars, callVars
    <2>5. /\ pendingCommit' \in Candidate \cup {None} /\ sources' \subseteq Source
          /\ updates' \subseteq FrameUpdate /\ continuity' \subseteq Source
      BY <1>0, <2>b, <2>e, <2>f, <2>g DEF samplerVars, diskVars, windowVars,
           historyVars, workerVars, parentVars, callVars, Candidate
    <2> QED
      BY <2>1, <2>2, <2>3, <2>4, <2>5 DEF TypeOK
  <1>13. CASE BeginCommit
    <2>1. SamplerTypes'
      BY <1>0, <1>13, CommitEffect DEF SamplerTypes, samplerVars, diskVars,
           engineVars, historyVars, workerVars, parentVars, callVars,
           pendingVars, windowVars
    <2>2. /\ marker' \in [Views -> Attempts \cup {None}] /\ synced' \subseteq Views
          /\ acknowledged' \in [Views -> Attempts \cup {None}] /\ attempts' \in 0 .. MaxAttempts
      BY <1>0, <1>13, CommitEffect DEF samplerVars, diskVars, engineVars,
           historyVars, workerVars, parentVars, callVars, pendingVars,
           windowVars
    <2>3. /\ root' \in Roots /\ pc' \in Pcs /\ poisoned' \in BOOLEAN /\ leaked' \in BOOLEAN
          /\ pendingSampler' \in BOOLEAN /\ pendingTrace' \in BOOLEAN
      BY <1>0, <1>13, CommitEffect DEF Pcs, Roots, samplerVars, diskVars,
           engineVars, historyVars, workerVars, parentVars, callVars,
           pendingVars, windowVars
    <2>4. /\ pendingKey' \in Keys \cup {None} /\ pendingAttempt' \in Attempts \cup {None}
          /\ held' \in Attempts \cup {None} /\ captureRoots' \subseteq Keys
      BY <1>0, <1>13, CommitEffect DEF samplerVars, diskVars, engineVars,
           historyVars, workerVars, parentVars, callVars, pendingVars,
           windowVars
    <2>5. /\ pendingCommit' \in Candidate \cup {None} /\ sources' \subseteq Source
          /\ updates' \subseteq FrameUpdate /\ continuity' \subseteq Source
      BY <1>0, <1>13, CommitEffect DEF samplerVars, diskVars, engineVars,
           historyVars, workerVars, parentVars, callVars, pendingVars,
           windowVars
    <2> QED
      BY <2>1, <2>2, <2>3, <2>4, <2>5 DEF TypeOK
  <1>14. CASE CommitRaises \/ LinkMarker \/ SyncDirectory
    <2>1. SamplerTypes'
      BY <1>0, <1>14, SameTypes DEF CommitRaises, LinkMarker, SyncDirectory
    <2>2. /\ marker' \in [Views -> Attempts \cup {None}] /\ synced' \subseteq Views
          /\ acknowledged' \in [Views -> Attempts \cup {None}] /\ attempts' \in 0 .. MaxAttempts
      <3>1. pc \in CommitPcs
        BY <1>14 DEF CommitRaises, LinkMarker, SyncDirectory, CommitPcs
      <3>2. UNCHANGED <<acknowledged, attempts>>
        BY <1>14 DEF CommitRaises, LinkMarker, SyncDirectory, diskVars, historyVars
      <3>3. synced' \subseteq Views
        BY <1>0, <1>14, <1>c, <3>1 DEF CommitRaises, LinkMarker, SyncDirectory, diskVars
      <3>4. \/ marker' = marker
            \/ marker' = [marker EXCEPT ![pendingCommit.view] = pendingCommit.attempt]
        BY <1>14 DEF CommitRaises, LinkMarker, SyncDirectory, diskVars
      <3>5. marker' \in [Views -> Attempts \cup {None}]
        BY <1>0, <1>c, <3>1, <3>4
      <3> QED
        BY <1>0, <3>2, <3>3, <3>5
    <2>3. /\ root' \in Roots /\ pc' \in Pcs /\ poisoned' \in BOOLEAN /\ leaked' \in BOOLEAN
          /\ pendingSampler' \in BOOLEAN /\ pendingTrace' \in BOOLEAN
      BY <1>0, <1>14 DEF Pcs, Roots, WorkerAlive, CommitRaises, LinkMarker,
           SyncDirectory, samplerVars, diskVars, engineVars, historyVars,
           workerVars, parentVars, callVars, pendingVars, windowVars
    <2>4. /\ pendingKey' \in Keys \cup {None} /\ pendingAttempt' \in Attempts \cup {None}
          /\ held' \in Attempts \cup {None} /\ captureRoots' \subseteq Keys
      BY <1>0, <1>14 DEF CommitRaises, LinkMarker, SyncDirectory, samplerVars,
           diskVars, engineVars, historyVars, workerVars, parentVars,
           callVars, pendingVars, windowVars
    <2>5. /\ pendingCommit' \in Candidate \cup {None} /\ sources' \subseteq Source
          /\ updates' \subseteq FrameUpdate /\ continuity' \subseteq Source
      BY <1>0, <1>14 DEF CommitRaises, LinkMarker, SyncDirectory, samplerVars,
           diskVars, engineVars, historyVars, workerVars, parentVars,
           callVars, pendingVars, windowVars
    <2> QED
      BY <2>1, <2>2, <2>3, <2>4, <2>5 DEF TypeOK
  <1>15. CASE AcceptCommit
    <2>1. SamplerTypes'
      BY <1>0, <1>15, SameTypes DEF AcceptCommit
    <2>0. pc \in CommitPcs
      BY <1>15 DEF AcceptCommit, CommitPcs
    <2>2. /\ marker' \in [Views -> Attempts \cup {None}] /\ synced' \subseteq Views
          /\ acknowledged' \in [Views -> Attempts \cup {None}] /\ attempts' \in 0 .. MaxAttempts
      <3>1. /\ UNCHANGED <<marker, synced, attempts>>
            /\ acknowledged' = [acknowledged EXCEPT ![pendingCommit.view] = pendingCommit.attempt]
        BY <1>15 DEF AcceptCommit, diskVars
      <3>2. acknowledged' \in [Views -> Attempts \cup {None}]
        BY <1>0, <1>c, <2>0, <3>1
      <3> QED
        BY <1>0, <3>1, <3>2
    <2>3. /\ root' \in Roots /\ pc' \in Pcs /\ poisoned' \in BOOLEAN /\ leaked' \in BOOLEAN
          /\ pendingSampler' \in BOOLEAN /\ pendingTrace' \in BOOLEAN
      <3>1. root' \in Roots
        BY <1>0, <1>15 DEF AcceptCommit, Roots, pendingVars, windowVars
      <3>2. pc' \in Pcs
        BY <1>0, <1>15 DEF AcceptCommit, Pcs, pendingVars, windowVars
      <3>3. poisoned' \in BOOLEAN
        BY <1>0, <1>15 DEF AcceptCommit, pendingVars, windowVars
      <3>4. leaked' \in BOOLEAN
        BY <1>0, <1>15 DEF AcceptCommit, pendingVars, windowVars
      <3>5. pendingSampler' \in BOOLEAN
        BY <1>0, <1>15 DEF AcceptCommit, pendingVars, windowVars
      <3>6. pendingTrace' \in BOOLEAN
        BY <1>0, <1>15 DEF AcceptCommit, pendingVars, windowVars
      <3> QED
        BY <3>1, <3>2, <3>3, <3>4, <3>5, <3>6
    <2>4. /\ pendingKey' \in Keys \cup {None} /\ pendingAttempt' \in Attempts \cup {None}
          /\ held' \in Attempts \cup {None} /\ captureRoots' \subseteq Keys
      <3>1. pendingKey' \in Keys \cup {None}
        BY <1>0, <1>15 DEF AcceptCommit, pendingVars, windowVars
      <3>2. pendingAttempt' \in Attempts \cup {None}
        BY <1>0, <1>15 DEF AcceptCommit, pendingVars, windowVars
      <3>3. held' \in Attempts \cup {None}
        BY <1>0, <1>15 DEF AcceptCommit, pendingVars, windowVars
      <3>4. captureRoots' \subseteq Keys
        BY <1>0, <1>15, <1>c, <2>0 DEF AcceptCommit
      <3> QED
        BY <3>1, <3>2, <3>3, <3>4
    <2>5. /\ pendingCommit' \in Candidate \cup {None} /\ sources' \subseteq Source
          /\ updates' \subseteq FrameUpdate /\ continuity' \subseteq Source
      <3>1. /\ pendingCommit' = None /\ sources' = pendingCommit.sources
            /\ updates' = pendingCommit.updates
            /\ continuity' = continuity \cup Newest(1, pendingCommit.sources)
        BY <1>15 DEF AcceptCommit
      <3>2. Newest(1, pendingCommit.sources) \subseteq pendingCommit.sources
        BY DEF Newest
      <3> QED
        BY <1>0, <1>c, <2>0, <3>1, <3>2
    <2> QED
      BY <2>1, <2>2, <2>3, <2>4, <2>5 DEF TypeOK
  <1>16. ASSUME NEW replaceLatest \in BOOLEAN, Fork(replaceLatest) PROVE TypeOK'
    <2>1. SamplerTypes'
      BY <1>0, <1>16, SameTypes DEF Fork
    <2>2. /\ marker' \in [Views -> Attempts \cup {None}] /\ synced' \subseteq Views
          /\ acknowledged' \in [Views -> Attempts \cup {None}] /\ attempts' \in 0 .. MaxAttempts
      BY <1>0, <1>16 DEF Fork, samplerVars, diskVars, pendingVars,
           historyVars, workerVars, parentVars, callVars
    <2>3. /\ root' \in Roots /\ pc' \in Pcs /\ poisoned' \in BOOLEAN /\ leaked' \in BOOLEAN
          /\ pendingSampler' \in BOOLEAN /\ pendingTrace' \in BOOLEAN
      BY <1>0, <1>16 DEF Pcs, Roots, WorkerAlive, Fork, samplerVars, diskVars,
           pendingVars, historyVars, workerVars, parentVars, callVars
    <2>4. /\ pendingKey' \in Keys \cup {None} /\ pendingAttempt' \in Attempts \cup {None}
          /\ held' \in Attempts \cup {None} /\ captureRoots' \subseteq Keys
      BY <1>0, <1>16 DEF Fork, samplerVars, diskVars, pendingVars,
           historyVars, workerVars, parentVars, callVars
    <2>5. /\ pendingCommit' \in Candidate \cup {None} /\ sources' \subseteq Source
          /\ updates' \subseteq FrameUpdate /\ continuity' \subseteq Source
      BY <1>0, <1>16 DEF Fork, samplerVars, diskVars, pendingVars,
           historyVars, workerVars, parentVars, callVars
    <2> QED
      BY <2>1, <2>2, <2>3, <2>4, <2>5 DEF TypeOK
  <1>17. CASE Crash
    <2>1. SamplerTypes'
      BY <1>17, FreshTypes DEF Crash
    <2>2. /\ marker' \in [Views -> Attempts \cup {None}] /\ synced' \subseteq Views
          /\ acknowledged' \in [Views -> Attempts \cup {None}] /\ attempts' \in 0 .. MaxAttempts
      BY <1>0, <1>17 DEF Crash, FreshSampler, ClearPending
    <2>3. /\ root' \in Roots /\ pc' \in Pcs /\ poisoned' \in BOOLEAN /\ leaked' \in BOOLEAN
          /\ pendingSampler' \in BOOLEAN /\ pendingTrace' \in BOOLEAN
      BY <1>0, <1>17 DEF Pcs, Roots, WorkerAlive, Crash, FreshSampler,
           ClearPending
    <2>4. /\ pendingKey' \in Keys \cup {None} /\ pendingAttempt' \in Attempts \cup {None}
          /\ held' \in Attempts \cup {None} /\ captureRoots' \subseteq Keys
      BY <1>0, <1>17 DEF Crash, FreshSampler, ClearPending
    <2>5. /\ pendingCommit' \in Candidate \cup {None} /\ sources' \subseteq Source
          /\ updates' \subseteq FrameUpdate /\ continuity' \subseteq Source
      BY <1>0, <1>17 DEF Crash, FreshSampler, ClearPending
    <2> QED
      BY <2>1, <2>2, <2>3, <2>4, <2>5 DEF TypeOK
  <1>18. CASE Sampling
    <2>0. /\ SamplerStep /\ UNCHANGED <<diskVars, engineVars, pc, held, historyVars>>
      BY <1>18 DEF Sampling
    <2>a. SamplerTypes'
      BY <1>0, <2>0, StepTypes
    <2> QED
      BY <1>0, <2>0, <2>a DEF TypeOK, diskVars, engineVars, historyVars, pendingVars, windowVars
  <1>19. CASE UNCHANGED vars
    BY <1>0, <1>19 DEF TypeOK, SamplerTypes, vars, samplerVars, diskVars,
         engineVars, historyVars, workerVars, parentVars, callVars,
         pendingVars, windowVars
  <1> QED
    BY <1>1, <1>2, <1>3, <1>4, <1>5, <1>6, <1>7, <1>8, <1>9, <1>10, <1>11, <1>12, <1>13, <1>14, <1>15, <1>16, <1>17, <1>18, <1>19 DEF Next, Infer

-----------------------------------------------------------------------------
(* The theorems.                                                            *)

LEMMA InvStep == IInv /\ [Next]_vars => IInv'
  <1> SUFFICES ASSUME IInv, [Next]_vars PROVE IInv'
    OBVIOUS
  <1>1. TypeOK' /\ SamplerInv' /\ FreshInv' /\ DiskInv'
    BY TypeStep, SamplerInvStep, DiskStep
  <1>2. WindowInv' /\ CommitInv' /\ UpdatesInv'
    BY WindowStep
  <1> QED
    BY <1>1, <1>2 DEF IInv, SamplerInv

LEMMA Invariance == Spec => []IInv
  BY InvInit, InvStep, PTL DEF Spec

(* The variables have their types; in particular the sampler's pipe, the    *)
(* window and the staged candidate are what the engine's code takes them    *)
(* for.                                                                     *)
THEOREM TypeCorrect == Spec => []TypeOK
  <1>1. IInv => TypeOK
    BY DEF IInv
  <1> QED
    BY <1>1, Invariance, PTL

(* No telemetry sampler is forgotten with its worker alive: when the engine *)
(* rests with a living worker, it is poisoned.                              *)
THEOREM NoWorkerLeaks == Spec => []NoLeakedWorker
  <1>1. IInv => NoLeakedWorker
    BY DEF IInv
  <1> QED
    BY <1>1, Invariance, PTL

(* The trace kept for inference is the whole answer of a worker that has    *)
(* ended by itself, however often the parent timed out or the worker died.  *)
THEOREM OwnedTraceIsComplete == Spec => []TraceIsComplete
  <1>1. IInv => TraceIsComplete
    BY DEF IInv, TraceInv, Complete, TraceIsComplete
  <1> QED
    BY <1>1, Invariance, PTL

(* The sources are pairwise independent, and no two successive captures     *)
(* since the oldest of them were too far apart in time.                     *)
THEOREM WindowSound == Spec => []WindowIsSound
  <1>1. IInv => WindowIsSound
    BY DEF IInv, WindowInv, WindowIsSound
  <1> QED
    BY <1>1, Invariance, PTL

(* Every accepted map is the vote of exactly the sources up to its own,     *)
(* whether it was extended or rebuilt from any number of them.              *)
THEOREM MapIsVote == Spec => []UpdatesMatchSources
  <1>1. ASSUME IInv PROVE UpdatesMatchSources
    <2>1. Votes(updates, sources)
      BY <1>1 DEF IInv, UpdatesInv
    <2>2. {u.of : u \in updates} = AttemptsOf(sources)
      BY <2>1 DEF Votes
    <2>3. ASSUME NEW u \in updates, NEW s \in sources, u.of = s.attempt
          PROVE  FreeCells(u.map) =
                    {v \in Voxels \ UNION {Sees[t.pose].hit : t \in Upto(s, sources)} :
                        Cardinality({t \in Upto(s, sources) : v \in Sees[t.pose].free})
                            >= MinFree}
      <3>1. IsVote(u.map, Upto(s, sources))
        BY <2>1, <2>3 DEF Votes
      <3> QED
        BY <3>1 DEF IsVote, FreeCells
    <2>4. ASSUME NEW u \in updates, NEW s \in sources, u.of = s.attempt
          PROVE  IsVote(u.map, Upto(s, sources))
      BY <2>1, <2>4 DEF Votes
    <2> QED
      BY <2>2, <2>3, <2>4 DEF UpdatesMatchSources, IsVote
  <1> QED
    BY <1>1, Invariance, PTL

(* Memory is never ahead of the disk: every source was acknowledged, and    *)
(* what has been acknowledged has a durable marker.                         *)
THEOREM SourcesDurable == Spec => []SourcesAreDurable
  <1>1. ASSUME IInv PROVE SourcesAreDurable
    <2> SUFFICES ASSUME NEW s \in sources
                 PROVE  \E v \in synced : marker[v] = s.attempt
      BY DEF SourcesAreDurable
    <2>1. s \in continuity /\ s \in Source
      BY <1>1 DEF IInv, WindowInv, TypeOK
    <2>2. PICK v \in Views : acknowledged[v] = s.attempt
      BY <1>1, <2>1 DEF IInv, WindowInv
    <2>3. acknowledged[v] # None
      BY <2>1, <2>2, EngineAssumption DEF Source, Attempts
    <2> QED
      BY <1>1, <2>2, <2>3 DEF IInv, DiskInv
  <1> QED
    BY <1>1, Invariance, PTL

(* A poisoned engine never advances its sources: it has neither a trace nor *)
(* a candidate to go on with, and no commit in progress.                    *)
THEOREM PoisonHolds == Spec => PoisonedNeverAdvances
  <1>1. IInv /\ [Next]_vars => [poisoned => sources' \subseteq sources]_vars
    <2> SUFFICES ASSUME IInv, [Next]_vars, poisoned PROVE sources' \subseteq sources
      OBVIOUS
    <2>1. pc # "accepting"
      BY DEF IInv, PoisonInv
    <2> QED
      <3>1. \/ sources' = sources
            \/ \E replaceLatest \in BOOLEAN : Fork(replaceLatest)
            \/ Crash
        BY <2>1 DEF Next, vars, engineVars, windowVars, BeginCapture, CaptureRaises,
             StartSampler, SamplerStarted, FinishSampler, OwnTrace, CaptureReturns,
             CancelSampler, SamplerCancelled, CancelCommit, Infer, InferenceRaises, Stage,
             BeginCommit, CommitRaises, LinkMarker, SyncDirectory, AcceptCommit, Sampling
      <3>2. ASSUME NEW replaceLatest \in BOOLEAN, Fork(replaceLatest)
            PROVE  sources' \subseteq sources
        BY <3>2 DEF Fork
      <3> QED
        BY <3>1, <3>2 DEF Crash
  <1> QED
    BY <1>1, Invariance, PTL DEF Spec, PoisonedNeverAdvances

(* The engine implements the accepted views: the commit's last step accepts *)
(* one attempt for a view that has none, which no other view was accepted   *)
(* as, and the window gains that attempt alone; only the fork and the end   *)
(* of the process change the window otherwise.                              *)
THEOREM Implementation == Spec => ImplementsAcceptedViews
  <1> DEFINE window == AttemptsOf(sources)
  <1>1. Init => Accepted!Init
    BY DEF Init, Accepted!Init, AttemptsOf
  <1>2. IInv /\ [Next]_vars => [Accepted!Next]_<<acknowledged, window>>
    <2> SUFFICES ASSUME IInv, [Next]_vars,
                        ~(acknowledged' = acknowledged /\ sources' = sources)
                 PROVE  Accepted!Next \/ (acknowledged' = acknowledged /\ window' = window)
      BY DEF AttemptsOf
    <2>1. AcceptCommit \/ Crash \/ \E replaceLatest \in BOOLEAN : Fork(replaceLatest)
      BY DEF Next, vars, engineVars, windowVars, historyVars, BeginCapture, CaptureRaises,
           StartSampler, SamplerStarted, FinishSampler, OwnTrace, CaptureReturns,
           CancelSampler, SamplerCancelled, CancelCommit, Infer, InferenceRaises, Stage,
           BeginCommit, CommitRaises, LinkMarker, SyncDirectory, Sampling
    <2>2. CASE AcceptCommit
      <3> DEFINE v == pendingCommit.view
                 a == pendingCommit.attempt
                 w == pendingCommit.sources
      <3>1. /\ pc = "accepting" /\ sources' = w
            /\ acknowledged' = [acknowledged EXCEPT ![v] = a]
        BY <2>2 DEF AcceptCommit
      <3>2. pendingCommit # None
        BY <3>1 DEF IInv, PendingInv, CommitPcs
      <3>3. v \in Views /\ a \in Attempts
        BY <3>2 DEF IInv, TypeOK, Candidate
      <3>4. acknowledged[v] = None
        BY <3>1 DEF IInv, DiskInv
      <3>5. \A u \in Views : acknowledged[u] # a
        BY <3>2 DEF IInv, FreshInv
      <3>6. PICK c \in w : c.attempt = a /\ w \subseteq sources \cup {c}
        BY <3>2 DEF IInv, CommitInv, Joins
      <3> HIDE DEF v, a, w
      <3>7. a \in window' /\ window' \subseteq window \cup {a}
        BY <3>1, <3>6 DEF AttemptsOf
      <3>8. Accepted!Accept(v, a)
        BY <3>1, <3>4, <3>5, <3>7 DEF Accepted!Accept
      <3> QED
        BY <3>3, <3>8 DEF Accepted!Next
    <2>3. CASE Crash
      <3>1. acknowledged' = acknowledged /\ window' = {}
        BY <2>3 DEF Crash, AttemptsOf
      <3> QED
        BY <3>1 DEF Accepted!Next, Accepted!Lose
    <2>4. ASSUME NEW replaceLatest \in BOOLEAN, Fork(replaceLatest)
          PROVE  Accepted!Next \/ (acknowledged' = acknowledged /\ window' = window)
      <3> DEFINE n == Last(sources)
      <3>1. /\ acknowledged' = acknowledged /\ sources # {}
            /\ sources' = IF replaceLatest THEN sources \ Newest(1, sources) ELSE sources
        BY <2>4 DEF Fork, historyVars
      <3>2. CASE ~replaceLatest
        BY <3>1, <3>2 DEF AttemptsOf
      <3>3. CASE replaceLatest
        <4>1. /\ sources \in SUBSET Source /\ IsFiniteSet(sources)
              /\ \A s, t \in sources : s # t => s.time # t.time /\ s.attempt # t.attempt
          BY FS_Subset DEF IInv, TypeOK, WindowInv
        <4>2. n \in sources /\ \A s \in sources : s.time <= n.time
          BY <3>1, <4>1, LastIsNewest
        <4> HIDE DEF n
        <4>3. \A s \in sources \ {n} : s.time < n.time
          BY <4>1, <4>2 DEF Source
        <4>4. sources' = sources \ {n}
          BY <3>1, <3>3, <4>1, <4>2, <4>3, NewestOne
        <4>5. n.attempt \in window /\ window' = window \ {n.attempt}
          BY <4>1, <4>2, <4>4 DEF AttemptsOf
        <4>6. Accepted!HandOn
          BY <3>1, <4>5 DEF Accepted!HandOn
        <4> QED
          BY <4>6 DEF Accepted!Next
      <3> QED
        BY <3>2, <3>3
    <2> QED
      BY <2>1, <2>2, <2>3, <2>4
  <1> QED
    BY <1>1, <1>2, Invariance, PTL DEF Spec, ImplementsAcceptedViews, Accepted!Spec, Accepted!vars
=============================================================================
