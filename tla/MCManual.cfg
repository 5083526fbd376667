CONSTANTS
    Ssid = {"home"}
    Password = {"secret"}
    Faults = {"esp_wifi_connect", "httpd_start"}
    MaxConnectAttempts = 3
    InitialReconnectDelayMs = 100
    MaxReconnectDelayMs = 200
    EventQueueCapacity = 3
    QueueCapacity = 1
    Elapsed = {100}
    MaxDriverEvents = 2
SPECIFICATION Spec
INVARIANTS
    ManualTypeOK
    RingHoldsQueue
    WaitIsAccounted
PROPERTIES
    ManualRestingStays
