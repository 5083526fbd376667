CONSTANTS
    Ssid = {"home"}
    Password = {"secret"}
    Faults = {}
    MaxConnectAttempts = 2
    InitialReconnectDelayMs = 200
    MaxReconnectDelayMs = 200
    EventQueueCapacity = 2
    QueueCapacity = 2
    TickMs = 100
    Inputs = {"Network"}
    StopMayTimeOut = FALSE
    MaxDriverEvents = 2
SPECIFICATION FairSpec
PROPERTIES
    ConnectTimesOut
