SPECIFICATION Spec
CONSTANTS
    p1 = p1
    p2 = p2
    p3 = p3
    m1 = m1
    alice = alice
    bob = bob
    Players = {p1, p2, p3}
    Mobs = {m1}
    CharOf <- MCReentry
    MaxPos = 2
    SpawnRadius = 0
    DespawnRadius = 1
    ChanCap = 1
    Deaf = {p2, p3}
    Scenes <- MCScenes
INVARIANTS GraphAgrees CleanIsExact ViewConverges
