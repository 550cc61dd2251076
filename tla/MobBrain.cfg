SPECIFICATION Spec
CONSTANTS
    m1 = m1
    m2 = m2
    p1 = p1
    p2 = p2
    Nobody = Nobody
    Mobs = {m1, m2}
    Players = {p1, p2}
    Casts <- MCCasts
    Line = 8
    Spots = {0, 7}
    Grid = 2
    Speed = 3
    Stride = 4
    Sight = 4
    Follow = 2
    Reach = 3
    HomeRadius = 1
    SameSpot = 1
    Gate = 2
    Windup = 2
    Settle = 1
    RangedSettle = 1
    Rethink = 1
    Pauses = {1}
    WanderStep = 3
    MaxStimuli = 1
CHECK_DEADLOCK FALSE
INVARIANT BrainsAreCoherent
PROPERTIES
    ComesHome
    ProvocationIsAnswered
    PursuitStrikes
