\* A channel of one slot, one change of each kind, one exit, every failure.
CONSTANTS
    QueueCap = 1
    IntentCap = 1
    Interval = 1
    RetryDelay = 1
    MaxRes = 1
    MaxProg = 1
    MaxEpoch = 1
SPECIFICATION FairSpec
INVARIANTS
    NothingForgotten
    FlushedIsDurable
    ComesBackToAll
PROPERTIES
    ContentNeverRegresses
    EveryChangeLands
