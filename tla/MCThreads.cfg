CONSTANTS
    MaxSessions = 2
    MaxPolls = 2
    QueueCapacity = 1
    CallbackStops = TRUE
SPECIFICATION Spec
INVARIANTS
    ThreadTypeOK
    ExternalQueueIsLive
    TaskQueueIsLive
    HaltsAlone
PROPERTIES
    StopReturns
CHECK_DEADLOCK FALSE
