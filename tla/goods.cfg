CONSTANTS
    p1 = p1
    p2 = p2
    pile1 = pile1
    pile2 = pile2
    pile3 = pile3
    chest = chest
    stockpile = stockpile
    coin = coin
    ore = ore
    axe = axe
    log = log
    Nobody = Nobody
    NoItem = NoItem
    Coin = coin
    Players <- MCPlayers
    PileIds <- MCPileIds
    Items <- MCItems
    Cargoes <- MCCargoes
    Volume <- MCVolume
    Rank <- MCRank
    Tools <- MCTools
    Usable <- MCUsable
    Slots <- MCSlots
    NewPile <- MCNewPile
    MaxQuantity = 2
    MaxCoins = 4
    MaxSessions = 2
    OfferSlots = 1
SPECIFICATION GoodsSpec
CHECK_DEADLOCK FALSE
INVARIANT GoodsInOrder
PROPERTY GoodsAreKept FairExchange
