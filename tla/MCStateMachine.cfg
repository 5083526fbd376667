CONSTANTS
    Ssid = {"home"}
    Password = {"secret"}
    MaxConnectAttempts = 5
    InitialReconnectDelayMs = 1000
    MaxReconnectDelayMs = 2500
SPECIFICATION SMSpec
INVARIANTS
    SMTypeOK
    BackoffIsExponential
PROPERTIES
    BackoffNeverShrinks
    LateFailuresStayInPortal
