CONSTANTS
    Ssid = {"home", "work"}
    Password = {"secret", "other"}
    Faults = {"nvs_open", "nvs_get_str", "nvs_set_str", "nvs_commit"}
    MaxConnectAttempts = 3
    InitialReconnectDelayMs = 100
    MaxReconnectDelayMs = 200
    EventQueueCapacity = 2
    QueueCapacity = 2
    TickMs = 100
    Inputs = {"Network", "PowerLoss"}
    StopMayTimeOut = FALSE
    MaxDriverEvents = 2
SPECIFICATION AnsweredSpec
INVARIANTS
    ConnectedHasLink
    PortalHasSoftAp
PROPERTIES
    PortalLeftAsDrawn
    PasswordFollowsName
    ConnectingSettles
