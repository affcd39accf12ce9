---------------------------- MODULE OccupancyMap ----------------------------
(***************************************************************************)
(* The safety map as a pure algorithm: DepthRayIntegrator fuses one settled *)
(* depth frame after the other, integrate_prepared_foundation_stereo_      *)
(* occupancy binds each result to its evidence or makes it ready.          *)
(*                                                                         *)
(* A frame is what its rays say of the voxels; the rays of a viewpoint     *)
(* always say the same (Sees).  Times are those of the captures.           *)
(***************************************************************************)
EXTENDS Naturals, FiniteSets

CONSTANTS
    Voxels,         \* the cells of the grid
    Poses,          \* viewpoints, as positions on a line
    Sees,           \* of each viewpoint: the cells its rays cross, and hit
    MinSeparation,  \* distance from which two viewpoints are independent
    MinFree,        \* minimum_free_observations
    MinSources      \* minimum_source_views

ASSUME MapAssumption ==
    /\ Poses \subseteq Nat /\ MinSeparation \in Nat \ {0}
    /\ Sees \in [Poses -> [free : SUBSET Voxels, hit : SUBSET Voxels]]
    /\ MinFree \in Nat \ {0, 1} /\ MinSources \in Nat \ {0}

Source == [attempt : Nat, time : Nat, pose : Poses]

\* OccupancySnapshot: the views with their camera poses, the votes, the hits
Snapshot ==
    [views : SUBSET Source, counts : [Voxels -> Nat], occupied : SUBSET Voxels,
     sequence : Nat, started : Nat, created : Nat,
     state : {"unmapped", "mapping", "map_ready"}]

Unmapped ==
    [views |-> {}, counts |-> [v \in Voxels |-> 0], occupied |-> {},
     sequence |-> 0, started |-> 0, created |-> 0, state |-> "unmapped"]

FreeCells(map) ==
    {v \in Voxels : map.counts[v] >= MinFree /\ v \notin map.occupied}

Independent(s, t) ==
    \/ s.pose - t.pose >= MinSeparation
    \/ t.pose - s.pose >= MinSeparation

\* what integrate refuses
Integrable(map, source) ==
    /\ source.attempt \notin {s.attempt : s \in map.views}
    /\ \A s \in map.views : Independent(s, source)
    /\ Sees[source.pose].free \cup Sees[source.pose].hit # {}
    /\ map.created <= source.time

\* DepthRayIntegrator.integrate: occupied wins, and a free vote counts once
Integrate(map, source) ==
    LET seen == Sees[source.pose]
        occupied == map.occupied \cup seen.hit
    IN  [views |-> map.views \cup {source},
         counts |-> [v \in Voxels |-> IF v \in seen.free \ occupied
                                      THEN map.counts[v] + 1 ELSE map.counts[v]],
         occupied |-> occupied,
         sequence |-> map.sequence + 1,
         started |-> IF map.views = {} THEN source.time ELSE map.started,
         created |-> source.time,
         state |-> "mapping"]

\* bind_mapping_evidence, or promote_to_ready with enough views
Bind(map) ==
    [map EXCEPT !.sequence = @ + 1,
                !.state = IF Cardinality(map.views) >= MinSources
                          THEN "map_ready" ELSE "mapping"]

Update(map, source) == Bind(Integrate(map, source))
=============================================================================
