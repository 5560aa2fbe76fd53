---------------------------- MODULE MCSettlement ----------------------------
(***************************************************************************)
(* What goes on in a settlement, one scene at a time: a behaviour stays in *)
(* the scene it begins in, and what the others are about stays as it is.   *)
(***************************************************************************)
EXTENDS Rentals, BarterStall, MarketOrders

CONSTANTS
    p1, p2, p3, nobody,       \* players
    smith, farm,              \* technologies
    h1,                       \* an interior
    r1, r2, r3, n1, n2,       \* ruins, npcs
    stall, cart,              \* shops
    m1,                       \* a market
    Scenes                    \* of the scenes, those that are looked at

Everybody == {p1, p2, p3}
Two == {p1, p2}

ASSUME SettlementAssumption ==
    /\ p1 # p2 /\ p1 # p3 /\ p2 # p3
    /\ Everybody \subseteq Players /\ Traders = Two
    /\ MaxSupplies >= 2
    /\ PackRoom["item"] >= 1 /\ StallRoom["cargo"] >= 1

VARIABLE scene

settlementVars == <<scene, claimVars, evictTimers, travelerVars, packs, stalls, marketVars>>

EvictionFees == [rate \in 0 .. MaxRate |-> rate]
Apart == [pair \in Ruins \X Ruins |-> IF pair[1] = pair[2] THEN 0 ELSE 1]
Travelers2 == [n \in 0 .. Cardinality(Ruins) |-> IF n < 2 THEN n ELSE 2]
TakeOverLevels == [rank \in 0 .. 2 |-> rank]
Owners == cart :> p2

Of(item, cargo, coin) == [k \in Kinds |-> CASE k = "item" -> item [] k = "cargo" -> cargo
                                            [] k = "coin" -> coin]
Purchase == [offer |-> Of(0, 0, 2), required |-> Of(1, 0, 0), stock |-> Unlimited]
Sale == [offer |-> Of(0, 1, 0), required |-> Of(0, 0, 1), stock |-> 1]
TheBargains == {Purchase, Sale}
Rumor == [offer |-> Of(1, 0, 0), required |-> Of(0, 0, 1), stock |-> Unlimited]
Relic == [offer |-> Of(0, 1, 0), required |-> Of(1, 0, 0), stock |-> 1]
Rumors == {Rumor}
Relics == {Relic}
Room1 == [k \in Wares |-> 1]

-----------------------------------------------------------------------------

TownInit ==
    /\ owner = p1
    /\ members = [p \in Two |-> IF p = p1 THEN CoOwner ELSE Member]
    /\ openings = 0
    /\ supplies = IF scene = "research" THEN 2 ELSE 1
    /\ treasury = 1
    /\ coins = [p \in Players |-> CASE scene = "membership" \/ p = p3 -> 0
                                      [] scene = "rental" -> IF p = p2 THEN 3 ELSE 1
                                      [] OTHER -> IF p = p2 \/ scene = "research" THEN 2 ELSE 0]
    /\ learned = {} /\ researching = NoTech /\ techTimers = {}
    /\ rents = [r \in RentIds |-> NewRent]
    /\ evictTimers = [r \in RentIds |-> 0]

ShopInit ==
    /\ packs = [p \in Players |-> [k \in Wares |-> IF p = p2 /\ k = "item" THEN 1 ELSE 0]]
    /\ stalls = [s \in Shops |-> Of(0, IF s = stall THEN 1 ELSE 0, 1)]
    /\ npcs = << >> /\ tradeOrders = << >>
    /\ standing = Ruins /\ ruinCache = Ruins

MarketInit ==
    /\ purse = [t \in Traders |-> IF t = p1 THEN 6 ELSE 0]
    /\ wares = [t \in Traders |-> IF t = p1 THEN 0 ELSE 2]
    /\ buyOrders = << >> /\ sellOrders = << >> /\ closed = << >>
    /\ lastOrder = 0

Init == scene \in Scenes /\ TownInit /\ ShopInit /\ MarketInit

-----------------------------------------------------------------------------

MembershipScene ==
    /\ scene = "membership"
    /\ Supplying \/ \E p \in Players : Membership(p)
    /\ UNCHANGED <<evictTimers, travelerVars, packs, stalls, marketVars>>

ResearchScene ==
    /\ scene = "research"
    /\ Supplying \/ \E p \in Players \ {p3} : Funding(p) \/ Research(p)
    /\ UNCHANGED <<evictTimers, travelerVars, packs, stalls, marketVars>>

RentalScene ==
    /\ scene = "rental"
    /\ \/ RentTimers \/ \E p \in Players : Renting(p)
       \/ /\ \E p, q \in Players : Leave(p) \/ AddMember(p, q) \/ RemoveMember(p, q)
          /\ UNCHANGED evictTimers
    /\ UNCHANGED <<travelerVars, packs, stalls, marketVars>>

BarterScene ==
    /\ scene = "barter"
    /\ \/ \E p \in Players \ {p3} : Barter(p)
       \/ \E p \in Players \ {p3} : Deposit(p, 1) /\ UNCHANGED <<travelerVars, packs, stalls>>
    /\ UNCHANGED <<evictTimers, marketVars>>

TravelerScene ==
    /\ scene = "travelers"
    /\ \/ TravelersAct \/ RuinFalls
       \/ \E o \in BagToSet(tradeOrders) : AcceptFromTraveler(p2, o)
    /\ UNCHANGED <<evictTimers, marketVars>>

MarketScene ==
    /\ scene = "market"
    /\ \E t \in Traders : TradeAtMarket(t)
    /\ UNCHANGED <<claimVars, evictTimers, travelerVars, packs, stalls>>

Next ==
    /\ \/ MembershipScene \/ ResearchScene \/ RentalScene
       \/ BarterScene \/ TravelerScene \/ MarketScene
    /\ UNCHANGED scene

Spec == Init /\ [][Next]_settlementVars /\ EvictFairness

-----------------------------------------------------------------------------

(***************************************************************************)
(* However members come, rise, rent and leave: the owner has the highest   *)
(* rank, whoever rents is a member, and the timer of a research is that of *)
(* the technology that is researched.                                      *)
(***************************************************************************)
TownInOrder ==
    /\ ClaimTypeOK /\ RentTypeOK
    /\ OwnerIsCoOwner /\ RenterIsMember /\ OneResearch

(***************************************************************************)
(* What is offered is there: a traveler's offers go with the traveler, a   *)
(* buy order has the coins for all that it still wants, and no two orders  *)
(* of a market are left that would be matched; but for buy orders whose    *)
(* price was wrapped when they were posted.                                *)
(***************************************************************************)
OffersAreBacked ==
    /\ TravelersTypeOK /\ BarterTypeOK /\ MarketTypeOK
    /\ OffersHaveTraveler /\ BuyOrdersAreCovered /\ NothingLeftToMatch

(***************************************************************************)
(* Coins and wares pass between purses, treasury, rents, stalls, orders    *)
(* and listings, and none are made or lost on the way, but for the cases   *)
(* that the parts name.                                                    *)
(***************************************************************************)
NothingMadeOrLost ==
    CoinsInTownAreKept /\ BarterIsFair /\ CoinsAreKept /\ WaresAreKept

=============================================================================
