CONSTANTS
    Clients = {"player"}
    HeartbeatInterval = 1
    Tolerance = 0
    RetryLimit = 0
    SeqLength = 1
    AnswersAlways = FALSE
    MaxInFlight <- MCOnePacket
    MaxUnread = 1
    MaxAge = 2
    MaxHangs = 0
SPECIFICATION Spec
PROPERTY ActiveConnectionsDrain
CHECK_DEADLOCK FALSE
