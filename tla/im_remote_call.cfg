\* one row at a time, failures that repeat: the protocol is a remote call, also to several modules
CONSTANTS
    RegionCount = 2
    Contents = {request}
    Senders = {1}
    Window = 1
    OrphansRun = TRUE
    StickyFailures = TRUE
    MaxMessages = 2
    MaxRelayRestarts = 1
    MaxModuleRestarts = 1
    MaxPanics = 0
SPECIFICATION IMFairSpec
CHECK_DEADLOCK FALSE
PROPERTIES ImplementsRemoteCall EveryMessageResolved
