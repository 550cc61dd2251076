CONSTANTS
    Clients = {"player", "lister", "stray"}
    HeartbeatInterval = 1
    Tolerance = 0
    RetryLimit = 1
    SeqLength = 2
    AnswersAlways = TRUE
    MaxInFlight <- MCMaxInFlight
    MaxUnread = 1
    MaxAge = 2
    MaxHangs = 0
SPECIFICATION Spec
INVARIANT AnswersAreAccepted
CHECK_DEADLOCK FALSE
