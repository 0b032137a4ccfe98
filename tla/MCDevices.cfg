SPECIFICATION MCSpec
CONSTANTS
    c1 = c1
    c2 = c2
    XClients = {c1, c2}
    EndpointRings = {"a", "b"}
    RingSize = 8
    EventRingSize = 3
    CrbCount = 2
    XStarts = {5}
    XPlans <- RequestPlans
    UTasks = {0, 1, 2, 3}
    UParent <- ParentOf
    UPlans <- HubPlans
    MaxSlots = 4
    EDevices <- SomeDevices
    EPorts = {1, 20}
    MaxReads = 1
    HDescriptors <- Descriptors
    HReports <- SomeReports
    KPlans <- InputPlans
    KEvents = 3
    KWidth = 8
    Ps2Scan <- ScanCodes
    AuCodecs <- SomeCodecs
    AuPlans <- BeepPlans
    RingLen = 2
    AuTtl = 2
    AuBlocks = 3
    MaxBlock = 4
INVARIANTS  UsbHubsInv   AudioInv
PROPERTY DevicesProgress
CHECK_DEADLOCK FALSE
