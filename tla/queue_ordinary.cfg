\* well-behaved clients
CONSTANTS
    Players = {a, b, c, d}
    Events = {}
    ParameterChoices <- AnyParameters
    Gms = {}
    Skippers = {}
    MaxConnections = 2
SPECIFICATION QFairSpec
CHECK_DEADLOCK FALSE
INVARIANTS WithinCapacity NobodyWaitsForNothing PermissionIsSlot
PROPERTIES FirstComeFirstServed EveryoneIsServed
