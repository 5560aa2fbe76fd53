\* the program does nothing after its first connect()
CONSTANTS
    MaxCalls = 8
    MaxAttempts = 2
    AutoReconnect = TRUE
    UserEvents = {}
    MaxLosses = 3
    MaxUserEvents = 0
SPECIFICATION RFairSpec
CHECK_DEADLOCK FALSE
INVARIANTS OneLoop AttemptLimit
PROPERTY LossIsHandled
