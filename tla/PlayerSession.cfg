SPECIFICATION Spec
CONSTANTS
    c1 = c1
    c2 = c2
    k1 = k1
    k2 = k2
    Conns = {c1, c2}
    Cores = {k1, k2}
    Tokens = {t1}
    Ips = {i1}
    None = None
    Sites <- MCSites
    MaxLevel = 4
    NextExp <- MCNextExp
    StatCapLevel = 3
    BaseHt = 1
    CoreStatMax = 3
    BaseHp = 1
    HpPerHt = 1
    Growth <- MCGrowth
    Resets = {0, 1}
    Rewards = {0, 1, 2}
    Wounds = {1, 3}
    Cures = {1}
    RestartHp = 1
INVARIANTS
    ServedOwns
    SingleRuntime
    ReloadIsNeutral
    SyncIsComplete
PROPERTIES
    OnlyOwnLeaveDespawns
    ImplementsOwner
