CONSTANTS
    Fd = {f1, f2}
    MaxStarts = 3
    MaxPolls = 2
    QueueCapacity = 1
SPECIFICATION PortalSpec
INVARIANTS
    PortalTypeOK
    PortalIsWhole
PROPERTIES
    OthersStayOpen
    StopPortalReturns
CHECK_DEADLOCK FALSE
