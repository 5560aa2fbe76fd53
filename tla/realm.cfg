\* region 1 of two, where an instance may be used again after a panic; two empires
CONSTANTS
    RegionCount = 2
    Self = 1
    Tables = {empire_state, empire_node_state}
    NestedCalls = TRUE
    InstanceSurvivesPanic = TRUE
    MaxItems = 4
    e1 = e1
    e2 = e2
    t1 = t1
    t2 = t2
    t3 = t3
    b1 = b1
    b2 = b2
    p1 = p1
    p2 = p2
    NoEmpire = NoEmpire
    f1 = f1
    Empires = {e1, e2}
    Towers = {t1, t2, t3}
    Chunks <- TheChunks
    Site <- TheSites
    Radius = 1
    StartingEnergy = 1
    MaxEnergy = 2
    CapsuleEnergy = 2
    SiegeRaise = 2
    MaxAge = 1
    MaxCalls = 1
    MaxOrders = 2
    Players = {p1, p2}
    Buildings = {b1, b2}
    ChunkOf <- ThePlaces
    Foundries = {f1}
    ShardCost = 1
    StartingShards = 1
    DefaultThreshold = 1
    CapsuleShards = 1
    CapsuleSupplies = 1
    CapitalCost = 1
    RankLimit <- TheLimits
    MaxRequests = 2
    Scenes = {"shared", "expansion", "war", "court", "submission", "foundry"}
SPECIFICATION Spec
SYMMETRY TablesAreAlike
\* a war may leave nobody with a capsule, a foundry with nothing to do
CHECK_DEADLOCK FALSE
INVARIANTS NothingIsLost NothingForeign OutboxInOrder TowersInOrder EmpireInOrder
