\* region 2 is full: a player waits there and cancels; relay and modules restart
CONSTANTS
    RegionCount = 2
    Contents <- MessageContents
    Senders = {}
    Players = {"ann"}
    Home <- Birthplace
    Parameters <- NoRoomIn2
    Window = 1
    OrphansRun = FALSE
    StickyFailures = TRUE
    MaxMessages = 2
    MaxRelayRestarts = 1
    MaxModuleRestarts = 1
    MaxPanics = 1
SPECIFICATION PTFairSpec
CHECK_DEADLOCK FALSE
INVARIANTS ExactlyOnePlace DepartedHoldsNoSlot
PROPERTIES TravellersArrive RegionIsLearned
