CONSTANTS
    Ssid = {"home"}
    Password = {"secret", "other"}
    Faults = {"xTaskCreate", "nvs_open"}
    MaxConnectAttempts = 2
    InitialReconnectDelayMs = 200
    MaxReconnectDelayMs = 200
    EventQueueCapacity = 2
    QueueCapacity = 2
    TickMs = 100
    Inputs = {"Init", "Stop", "ForceProvisioning", "Resubmit", "Network", "Destroy", "PowerLoss"}
    StopMayTimeOut = TRUE
    MaxDriverEvents = 2
SPECIFICATION FairSpec
INVARIANTS
    TypeOK
    RetryTimerInv
    AttemptsLeft
    ShadowState
    PortalFollowsState
    ConnectingIsWatched
    StoredAreActive
PROPERTIES
    ImplementsLifecycle
    WaitingEnds
