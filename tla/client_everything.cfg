\* every call of the program
CONSTANTS
    MaxCalls = 3
    MaxAttempts = 2
    AutoReconnect = TRUE
    UserEvents = {"connect", "disconnect", "cancel", "retry"}
    MaxLosses = 2
    MaxUserEvents = 3
    Batches <- TheBatches
    RowIds = {1, 2}
    MaxSubscriptions = 2
    MaxCacheSize = 1
    MaxRetries = 1
    MaxSessions = 2
    MaxSubscribes = 4
    MaxLoads = 2
    MaxRowChanges = 2
    MaxMeasurements = 3
    Latencies = {1, 20, 300}
SPECIFICATION Spec
CHECK_DEADLOCK FALSE
INVARIANTS ConnectedIsOpen DataInOrder StatsAreOfTheWindow
