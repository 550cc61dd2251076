--------------------------- MODULE MCReplication ---------------------------
(* Small instances of Replication: the casts and their bounds.             *)
EXTENDS Replication, TLC

CONSTANTS p1, p2, p3, m1, alice, bob

\* A player, and another who enters twice.
MCReentry == (p1 :> alice) @@ (p2 :> bob) @@ (p3 :> bob)

\* One player and a mob that moves about.
MobScene == [cast |-> {p1, m1}, maxVer |-> 2, maxActs |-> 2, maxBacklog |-> 1]

\* Players come, leave and come back under a new net id.
ReentryScene == [cast |-> {p1, p2, p3}, maxVer |-> 1, maxActs |-> 1, maxBacklog |-> 1]

\* Two players, one of whom falls behind.
StalledScene == [cast |-> {p1, p2}, maxVer |-> 2, maxActs |-> 1, maxBacklog |-> 2]

MCScenes == {MobScene, ReentryScene}
MCStalled == {StalledScene}
=============================================================================
