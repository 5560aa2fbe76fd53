---------------------------- MODULE BarterStall ----------------------------
(***************************************************************************)
(* Standing offers to barter.  A stall is a building of the claim, or a    *)
(* deployable somebody brought along; its offers take nothing from its     *)
(* storage until they are accepted.  At a stall of the claim, coins that   *)
(* are asked for go to the treasury, and those that are offered come from  *)
(* the storage first and then from the treasury.  At a ruin the goods of a *)
(* traveler come from nowhere and go nowhere.                              *)
(***************************************************************************)
EXTENDS Claims, Travelers

CONSTANTS
    Stalls,         \* buildings of the claim with storage for items and cargo
    Hawkers,        \* deployables that barter, as a function to their owners
    MaxTradeOrders, \* trade_orders, or barter, of a shop
    Bargains,       \* orders that are asked for: [offer, required, stock]
    PackRoom,       \* PackRoom[k]: what a player can carry of a kind
    StallRoom,      \* StallRoom[k]: what a stall can hold of a kind
    Unlimited       \* stock i32::MAX

Kinds == {"item", "cargo", "coin"}
Wares == Kinds \ {"coin"}
Shops == Stalls \cup DOMAIN Hawkers
Goods == [Kinds -> Nat]

Bargain == [offer : Goods, required : Goods, stock : Nat \cup {Unlimited}]
TradeOrder == [shop : Shops \cup Ruins, offer : Goods, required : Goods,
               stock : Nat \cup {Unlimited}]

ASSUME BarterAssumption ==
    /\ DOMAIN Hawkers \cap Stalls = {} /\ (DOMAIN Hawkers \cup Stalls) \cap Ruins = {}
    /\ IsFiniteSet(Shops)
    /\ MaxTradeOrders \in Nat /\ Unlimited \notin Nat
    /\ Bargains \cup AlwaysOffered \cup Sampled \subseteq Bargain
    /\ PackRoom \in [Wares -> Nat] /\ StallRoom \in [Wares -> Nat]

VARIABLES
    packs,          \* items and cargo of each player
    stalls          \* items, cargo and coins of each stall

barterVars == <<claimVars, travelerVars, packs, stalls>>

BarterTypeOK ==
    /\ BagToSet(tradeOrders) \subseteq TradeOrder
    /\ packs \in [Players -> [Wares -> Nat]]
    /\ stalls \in [Shops -> Goods]
    /\ \A p \in Players, k \in Wares : packs[p][k] <= PackRoom[k]
    /\ \A s \in Shops, k \in Wares : stalls[s][k] <= StallRoom[k]

-----------------------------------------------------------------------------

OrdersAt(s) == BagCardinality([o \in {q \in DOMAIN tradeOrders : q.shop = s} |-> tradeOrders[o]])

(***************************************************************************)
(* validate_barter_permissions at a stall, the owner at a deployable       *)
(***************************************************************************)
MayBarter(p, s) == IF s \in Stalls THEN HasRank(p, CoOwner) ELSE Hawkers[s] = p

OrderAt(s, b) == [shop |-> s, offer |-> b.offer, required |-> b.required, stock |-> b.stock]

CreateOrder(p, s, b) ==
    /\ OrdersAt(s) < MaxTradeOrders
    /\ MayBarter(p, s)
    /\ tradeOrders' = tradeOrders (+) SetToBag({OrderAt(s, b)})
    /\ UNCHANGED <<claimVars, npcs, standing, ruinCache, packs, stalls>>

DeleteOrder(p, o) ==
    /\ o.shop \in Shops
    /\ MayBarter(p, o.shop)
    /\ tradeOrders' = tradeOrders (-) SetToBag({o})
    /\ UNCHANGED <<claimVars, npcs, standing, ruinCache, packs, stalls>>

-----------------------------------------------------------------------------

(***************************************************************************)
(* The player pays from what he carries, and then must have room for what  *)
(* he gets.                                                                *)
(***************************************************************************)
FitsUnpaid(p, o) == \A k \in Wares : o.offer[k] <= PackRoom[k] \* mutant of FitsPack
FitsPack(p, o) == \A k \in Wares : packs[p][k] - o.required[k] + o.offer[k] <= PackRoom[k]

Bartered(p, o) ==
    /\ coins[p] >= o.required["coin"]
    /\ \A k \in Wares : packs[p][k] >= o.required[k]
    /\ FitsPack(p, o)
    /\ coins' = [coins EXCEPT ![p] = @ - o.required["coin"] + o.offer["coin"]]
    /\ packs' = [packs EXCEPT ![p] = [k \in Wares |-> @[k] - o.required[k] + o.offer[k]]]

Sold(o) ==
    tradeOrders' = IF o.stock = Unlimited THEN tradeOrders
                   ELSE (tradeOrders (-) SetToBag({o}))
                            (+) SetToBag({[o EXCEPT !.stock = @ - 1]})

InStock(o) == o.stock # Unlimited => o.stock > 0

Exchanged(s, o, kinds) ==
    /\ \A k \in kinds : stalls[s][k] >= o.offer[k]
    /\ \A k \in Wares : stalls[s][k] - o.offer[k] + o.required[k] <= StallRoom[k]

StallAfter(s, o) == [k \in Kinds |-> stalls[s][k] - o.offer[k] + o.required[k]]

(***************************************************************************)
(* barter_stall_order_accept at a deployable: everything, the coins too,   *)
(* comes from its storage and goes there.                                  *)
(***************************************************************************)
AcceptFromHawker(p, o) ==
    /\ o.shop \in DOMAIN Hawkers
    /\ Hawkers[o.shop] # p   \* his own deployable would pay for him
    /\ InStock(o)
    /\ Bartered(p, o)
    /\ Exchanged(o.shop, o, Kinds)
    /\ stalls' = [stalls EXCEPT ![o.shop] = StallAfter(o.shop, o)]
    /\ Sold(o)
    /\ UNCHANGED <<memberVars, supplies, treasury, researchVars, rents, npcs, standing, ruinCache>>

(***************************************************************************)
(* ... and at a stall of the claim.  If the storage has not all the coins, *)
(* the treasury pays the whole price, besides those of the storage.        *)
(***************************************************************************)
FromStorage(price, stored) == Min({price, stored})
FromTreasury(price, stored) == IF stored >= price THEN 0 ELSE price

KeepsPayment(o) == 0 \* mutant of ToTreasury
ToTreasury(o) == o.required["coin"]

AcceptFromStall(p, o) ==
    LET price == o.offer["coin"]
        stored == stalls[o.shop]["coin"]
    IN  /\ o.shop \in Stalls
        /\ InStock(o)
        /\ Bartered(p, o)
        /\ Exchanged(o.shop, o, Wares)
        /\ treasury >= FromTreasury(price, stored)
        /\ treasury' = treasury - FromTreasury(price, stored) + ToTreasury(o)
        /\ stalls' = [stalls EXCEPT ![o.shop] =
                         [StallAfter(o.shop, o) EXCEPT !["coin"] = stored - FromStorage(price, stored)]]
        /\ Sold(o)
        /\ UNCHANGED <<memberVars, supplies, researchVars, rents, npcs, standing, ruinCache>>

(***************************************************************************)
(* ... and at a ruin, where a traveler must be                             *)
(***************************************************************************)
AcceptFromTraveler(p, o) ==
    /\ o.shop \in Ruins
    /\ InStock(o)
    /\ Bartered(p, o)
    /\ NpcsAt(o.shop) # {}
    /\ Sold(o)
    /\ UNCHANGED <<memberVars, supplies, treasury, researchVars, rents, npcs, standing,
                   ruinCache, stalls>>

(***************************************************************************)
(* item_stack_move between what a player carries and the storage of a      *)
(* shop, by those who may use it                                           *)
(***************************************************************************)
PutIn(p, s, k) ==
    /\ MayBarter(p, s)
    /\ IF k = "coin"
       THEN coins[p] > 0 /\ coins' = [coins EXCEPT ![p] = @ - 1] /\ UNCHANGED packs
       ELSE /\ packs[p][k] > 0 /\ stalls[s][k] < StallRoom[k]
            /\ packs' = [packs EXCEPT ![p][k] = @ - 1] /\ UNCHANGED coins
    /\ stalls' = [stalls EXCEPT ![s][k] = @ + 1]
    /\ UNCHANGED <<memberVars, supplies, treasury, researchVars, rents, travelerVars>>

TakeOut(p, s, k) ==
    /\ MayBarter(p, s)
    /\ stalls[s][k] > 0
    /\ IF k = "coin"
       THEN coins' = [coins EXCEPT ![p] = @ + 1] /\ UNCHANGED packs
       ELSE /\ packs[p][k] < PackRoom[k]
            /\ packs' = [packs EXCEPT ![p][k] = @ + 1] /\ UNCHANGED coins
    /\ stalls' = [stalls EXCEPT ![s][k] = @ - 1]
    /\ UNCHANGED <<memberVars, supplies, treasury, researchVars, rents, travelerVars>>

-----------------------------------------------------------------------------

Barter(p) ==
    \/ \E s \in Shops, b \in Bargains : CreateOrder(p, s, b)
    \/ \E o \in BagToSet(tradeOrders) :
          DeleteOrder(p, o) \/ AcceptFromHawker(p, o) \/ AcceptFromStall(p, o)
              \/ AcceptFromTraveler(p, o)
    \/ \E s \in Shops, k \in Kinds : PutIn(p, s, k) \/ TakeOut(p, s, k)

TravelersAct == AgentLoop /\ UNCHANGED <<claimVars, packs, stalls>>
RuinFalls == (\E r \in Ruins : Deconstruct(r)) /\ UNCHANGED <<claimVars, packs, stalls>>

-----------------------------------------------------------------------------

CoinsBartered ==
    SumFunction(coins) + treasury + SumFunction([s \in Shops |-> stalls[s]["coin"]])

WaresBartered(k) ==
    SumFunction([p \in Players |-> packs[p][k]]) + SumFunction([s \in Shops |-> stalls[s][k]])

(***************************************************************************)
(* Barter at a shop makes and loses nothing, though an order reserves      *)
(* nothing and goods and coins are moved between four tables -- except     *)
(* that coins of the storage are lost when they do not suffice.            *)
(***************************************************************************)
BarterIsFair ==
    [][stalls' # stalls =>
          /\ \A k \in Wares : WaresBartered(k)' = WaresBartered(k)
          /\ \/ CoinsBartered' = CoinsBartered
             \/ \E s \in Stalls :
                   /\ stalls[s]["coin"] > 0 /\ stalls'[s]["coin"] = 0
                   /\ CoinsBartered - CoinsBartered' = stalls[s]["coin"]]_barterVars

(***************************************************************************)
(* The treasury pays what the storage lacks: "pay partly from the          *)
(* treasury", "and partly from the storage".                               *)
(***************************************************************************)
CoinsAreBartered == [][stalls' # stalls => CoinsBartered' = CoinsBartered]_barterVars

=============================================================================
