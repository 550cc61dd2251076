SPECIFICATION Spec
CONSTANTS
    p1 = p1
    p2 = p2
    Worlds <- MCWorlds
    Rules = {1}
    Ids = {1, 2, 3}
    None = None
    MaxHp = 2
    RestartHp = 1
    Damages = {1}
    Steps = {1}
    DyingDelay = 1
    TownDelay = 1
    HereDelay = 1
    ForcedDelay = 2
    CorpseDelay = 1
    CorpseJitter = 2
    RegenTime = 2
    Delays = {1}
    MaxHits = 2
    HpFull = 2
    SpFull = 1
    StaminaFull = 2
    HpRate <- MCHpRate
    SpRate <- MCSpRate
    StaminaRate = 1
    Period = 3
    Second = 2
    Cadence = 2
    TickSteps = {1, 3}
    RestDelay = 1
    WalkDelay = 2
    CombatWindow = 2
    Walks = {2}
INVARIANTS
    AliveIsMortal
    ClaimIsTheSlayers
    ClaimsAreSettled
    SlotsAreReal
    ForcedWalkEnds
PROPERTIES
    ShortRuleIsScheduled
    DeadPlayersReturn
    StaminaComesBack
    RecoveryCompletes
