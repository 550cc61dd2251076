\* One player, three requests, every fault.
CONSTANTS
    p1 = p1
    Players <- MCPlayers
    MaxInFlight = 2
    QueueCap = 2
    MaxSubmits = 3
    MaxEpoch = 1
    Deletable = {p1}
    MayPanic = TRUE
    MayLoseOwnership = TRUE
SPECIFICATION FairSpec
INVARIANTS
    OneWriterPerPlayer
    AckedIsDurable
    NewestSurvives
PROPERTIES
    DbNeverRegresses
    ImplementsRows
    EveryRequestAnswered
    ShutdownDrains
    NewestLands
