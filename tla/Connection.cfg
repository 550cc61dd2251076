CONSTANTS
    Clients = {"player", "hanging", "lister", "stray"}
    HeartbeatInterval = 1
    Tolerance = 0
    RetryLimit = 1
    SeqLength = 2
    AnswersAlways = FALSE
    MaxInFlight <- MCMaxInFlight
    MaxUnread = 1
    MaxHangs = 1
    MaxAge = 2
SPECIFICATION Spec
INVARIANTS
    SequencersAgree
    ConformingIsKept
    TimeoutIsEarned
PROPERTIES
    SilenceEnds
    DrainEmpties
CHECK_DEADLOCK FALSE
