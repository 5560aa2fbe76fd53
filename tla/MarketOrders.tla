---------------------------- MODULE MarketOrders ----------------------------
(***************************************************************************)
(* The market of a claim: buy and sell orders for one kind of ware.  An    *)
(* order keeps what it offers, wares or coins; an order that matches       *)
(* standing ones is filled from them at once, at their price, and what     *)
(* either side gets lies in closed listings until it is collected.         *)
(***************************************************************************)
EXTENDS Integers, FiniteSets, FiniteSetsExt, SequencesExt, Bags, Rows

CONSTANTS
    Traders,
    Markets,        \* claims with a market
    MaxOrders,      \* bound: orders that are ever posted
    MaxPrice,       \* bound: prices that are asked for
    Quantities,     \* bound: quantities that are asked for
    HalfRange,      \* 2^31: coins and quantities are i32
    Room            \* wares a trader can carry

ASSUME MarketAssumption ==
    /\ IsFiniteSet(Traders)
    /\ MaxOrders \in Nat /\ MaxPrice \in Nat /\ Room \in Nat
    /\ HalfRange \in Nat \ {0} /\ MaxPrice < HalfRange
    /\ Quantities \subseteq 1 .. (HalfRange - 1)

VARIABLES
    purse,          \* hex coins of each trader
    wares,          \* wares of each trader
    buyOrders,      \* buy_order_state
    sellOrders,     \* sell_order_state
    closed,         \* closed_listing_state, a bag
    lastOrder       \* number of the last order, which stands for its timestamp

marketVars == <<purse, wares, buyOrders, sellOrders, closed, lastOrder>>

(***************************************************************************)
(* The numbers of an i32, and what is left of one that is not checked: the *)
(* release profile has no overflow checks.                                 *)
(***************************************************************************)
I32 == -HalfRange .. HalfRange - 1
Wrapped(n) == ((n + HalfRange) % (2 * HalfRange)) - HalfRange

OrderIds == 1 .. MaxOrders
Prices == 1 .. MaxPrice
Things == {"coin", "ware"}

\* wrapped is a ghost: the price of the whole order, when it was posted, was not an i32
BuyOrder == [owner : Traders, claim : Markets, price : Prices, quantity : Nat, stored : I32,
             wrapped : BOOLEAN]
SellOrder == [owner : Traders, claim : Markets, price : Prices, quantity : Nat]
Listing == [owner : Traders, claim : Markets, thing : Things, quantity : Int]

MarketTypeOK ==
    /\ purse \in [Traders -> Nat] /\ wares \in [Traders -> Nat]
    /\ DOMAIN buyOrders \subseteq OrderIds /\ buyOrders \in [DOMAIN buyOrders -> BuyOrder]
    /\ DOMAIN sellOrders \subseteq OrderIds /\ sellOrders \in [DOMAIN sellOrders -> SellOrder]
    /\ BagToSet(closed) \subseteq Listing /\ IsABag(closed)
    /\ lastOrder \in 0 .. MaxOrders

-----------------------------------------------------------------------------

(***************************************************************************)
(* The tables as one record.                                               *)
(***************************************************************************)
Market == [purse |-> purse, wares |-> wares, buys |-> buyOrders, sells |-> sellOrders,
           closed |-> closed]

Commit(m) ==
    /\ purse' = m.purse /\ wares' = m.wares
    /\ buyOrders' = m.buys /\ sellOrders' = m.sells
    /\ closed' = m.closed

Listed(owner, claim, thing, n) ==
    SetToBag({[owner |-> owner, claim |-> claim, thing |-> thing, quantity |-> n]})

Close(m, owner, claim, thing, n) ==
    [m EXCEPT !.closed = @ (+) Listed(owner, claim, thing, n)]

CloseIfAny(m, owner, claim, thing, n) ==
    IF n > 0 THEN Close(m, owner, claim, thing, n) ELSE m

(***************************************************************************)
(* Standing orders of a claim that match, the best price first and the     *)
(* oldest first among those of one price.                                  *)
(***************************************************************************)
Matching(orders, claim, Fits(_), Better(_, _)) ==
    CHOOSE ids \in SetToSeqs({o \in DOMAIN orders :
                                  orders[o].claim = claim /\ Fits(orders[o].price)}) :
        \A i, j \in DOMAIN ids : i < j =>
            \/ Better(orders[ids[i]].price, orders[ids[j]].price)
            \/ orders[ids[i]].price = orders[ids[j]].price /\ ids[i] < ids[j]

-----------------------------------------------------------------------------

(***************************************************************************)
(* resolve_buy_order: buys from sell orders within the budget.  (It stops  *)
(* at the first it cannot afford; the others are no cheaper.)              *)
(***************************************************************************)
AsksLess(ask, price) == ask < price \* mutant of AsksNoMore
AsksNoMore(ask, price) == ask <= price

BuyFrom(acc, o) ==
    LET order == acc.m.sells[o]
        n == Min({order.quantity, acc.budget \div order.price, acc.wanted})
        coins == n * order.price
        paid == Close(Close(acc.m, acc.buyer, acc.claim, "ware", n),
                      order.owner, acc.claim, "coin", coins)
        sells == IF order.quantity = n THEN Without(acc.m.sells, o)
                 ELSE [acc.m.sells EXCEPT ![o].quantity = @ - n]
    IN  IF n = 0 THEN acc
        ELSE [acc EXCEPT !.m = [paid EXCEPT !.sells = sells],
                         !.wanted = @ - n, !.budget = @ - coins]

ResolveBuyOrder(m, buyer, claim, quantity, price, budget) ==
    FoldLeft(BuyFrom, [m |-> m, buyer |-> buyer, claim |-> claim,
                       wanted |-> quantity, budget |-> budget],
             Matching(m.sells, claim, LAMBDA p : AsksNoMore(p, price), LAMBDA p, q : p < q))

(***************************************************************************)
(* resolve_sell_order: sells to buy orders; coins an order has left when   *)
(* it is filled are its owner's.  What the seller gets is checked, what    *)
(* the order keeps is not.                                                 *)
(***************************************************************************)
DropRest(m, order, rest) == m \* mutant of ReturnRest
ReturnRest(m, order, rest) == CloseIfAny(m, order.owner, order.claim, "coin", rest)

SellTo(acc, o) ==
    LET order == acc.m.buys[o]
        n == Min({order.quantity, acc.left})
        coins == order.price * n
        kept == Wrapped(order.stored - coins)
        paid == Close(Close(acc.m, order.owner, acc.claim, "ware", n),
                      acc.seller, acc.claim, "coin", coins)
        rest == IF order.quantity > n THEN paid ELSE ReturnRest(paid, order, kept)
        buys == IF order.quantity > n
                THEN [acc.m.buys EXCEPT ![o].quantity = @ - n, ![o].stored = kept]
                ELSE Without(acc.m.buys, o)
    IN  IF acc.left = 0 THEN acc
        ELSE [acc EXCEPT !.m = [rest EXCEPT !.buys = buys], !.left = @ - n,
                         !.fits = @ /\ coins \in I32]

ResolveSellOrder(m, seller, claim, quantity, price) ==
    FoldLeft(SellTo, [m |-> m, seller |-> seller, claim |-> claim, left |-> quantity,
                      fits |-> TRUE],
             Matching(m.buys, claim, LAMBDA p : p >= price, LAMBDA p, q : p > q))

-----------------------------------------------------------------------------

HasAny(t, n) == wares[t] > 0 \* mutant of HasWares
HasWares(t, n) == wares[t] >= n

Paid(m, t, coins) == [m EXCEPT !.purse[t] = @ - coins]
Given(m, t, n) == [m EXCEPT !.wares[t] = @ - n]
Saved(filled, price, spent) == Wrapped(filled * price - spent)

(***************************************************************************)
(* order_post_buy_order: pays for the whole order in advance; what it was  *)
(* filled for less is given back in a listing, the rest is an order with   *)
(* the coins it needs.  An order that may not stand must be filled.  The   *)
(* price of the whole is wrapped: if that is negative nothing is bought    *)
(* and the order is refused ("Integer overflow"), else it stands with too  *)
(* few coins.                                                              *)
(***************************************************************************)
PostBuyOrder(t, claim, quantity, price, persist) ==
    LET available == Wrapped(quantity * price)
        r == ResolveBuyOrder(Market, t, claim, quantity, price, available)
        spent == available - r.budget
        savings == IF persist THEN Saved(quantity - r.wanted, price, spent) ELSE r.budget
        paid == CloseIfAny(Paid(r.m, t, available), t, claim, "coin", savings)
    IN  /\ available >= 0
        /\ purse[t] >= available
        /\ r.wanted > 0 => persist
        /\ lastOrder < MaxOrders
        /\ lastOrder' = lastOrder + 1
        /\ Commit(IF r.wanted = 0 THEN paid
                  ELSE [paid EXCEPT !.buys =
                           With(@, lastOrder', [owner |-> t, claim |-> claim, price |-> price,
                                                quantity |-> r.wanted,
                                                stored |-> Wrapped(r.wanted * price),
                                                wrapped |-> quantity * price \notin I32])])

(***************************************************************************)
(* order_post_sell_order: what is not sold is an order, or lost.           *)
(***************************************************************************)
PostSellOrder(t, claim, quantity, price, persist) ==
    LET r == ResolveSellOrder(Given(Market, t, quantity), t, claim, quantity, price)
    IN  /\ HasWares(t, quantity)
        /\ r.fits
        /\ lastOrder < MaxOrders
        /\ lastOrder' = lastOrder + 1
        /\ Commit(IF r.left = 0 \/ ~persist THEN r.m
                  ELSE [r.m EXCEPT !.sells =
                           With(@, lastOrder', [owner |-> t, claim |-> claim, price |-> price,
                                                quantity |-> r.left])])

-----------------------------------------------------------------------------

(***************************************************************************)
(* order_edit_buy_order: the coins the new price and quantity need more    *)
(* are withdrawn, those they need less are listed.  With a higher price    *)
(* the order is matched as a new one: what that saves is listed, but also  *)
(* stays in the order if it is only partly filled.  The claim is that of   *)
(* the building where it is edited.  The difference is checked, and that   *)
(* the order's coins do not become negative.                               *)
(***************************************************************************)
PriceOnly(order, quantity, price) == order.quantity * (price - order.price) \* mutant of CoinsDelta
CoinsDelta(order, quantity, price) ==
    order.quantity * (price - order.price) + (quantity - order.quantity) * price

DeltaFits(order, quantity, price) ==
    /\ order.quantity * (price - order.price) \in I32
    /\ (quantity - order.quantity) * price \in I32
    /\ CoinsDelta(order, quantity, price) \in I32

Settled(m, t, claim, delta) ==
    CASE delta > 0 -> Paid(m, t, delta)
      [] delta < 0 -> Close(m, t, claim, "coin", Wrapped(-delta))
      [] OTHER -> m

EditBuyOrder(t, claim, o, quantity, price) ==
    LET order == buyOrders[o]
        delta == CoinsDelta(order, quantity, price)
        stored == Wrapped(order.stored + delta)
        r == IF price > order.price
             THEN ResolveBuyOrder(Market, t, claim, quantity, price, stored)
             ELSE [m |-> Market, wanted |-> quantity, budget |-> stored]
        spent == stored - r.budget
        saved == IF price > order.price
                 THEN CloseIfAny(r.m, t, claim, "coin",
                                 Saved(quantity - r.wanted, price, spent))
                 ELSE r.m
        m == [saved EXCEPT !.buys =
                 IF r.wanted = 0 THEN Without(@, o)
                 ELSE [@ EXCEPT ![o] = [order EXCEPT !.price = price, !.quantity = r.wanted,
                                                     !.stored = r.budget]]]
    IN  /\ order.owner = t
        /\ <<quantity, price>> # <<order.quantity, order.price>>
        /\ DeltaFits(order, quantity, price)
        /\ stored >= 0
        /\ purse[t] >= delta
        /\ Commit(Settled(m, t, claim, delta))
        /\ UNCHANGED lastOrder

(***************************************************************************)
(* order_edit_sell_order                                                   *)
(***************************************************************************)
OnlyGiven(t, claim, delta) == IF delta > 0 THEN Given(Market, t, delta) ELSE Market \* mutant of Adjusted
Adjusted(t, claim, delta) ==
    IF delta > 0 THEN Given(Market, t, delta)
    ELSE CloseIfAny(Market, t, claim, "ware", -delta)

EditSellOrder(t, claim, o, quantity, price) ==
    LET order == sellOrders[o]
        delta == quantity - order.quantity
        m == Adjusted(t, claim, delta)
        r == IF price < order.price THEN ResolveSellOrder(m, t, claim, quantity, price)
             ELSE [m |-> m, left |-> quantity, fits |-> TRUE]
    IN  /\ order.owner = t
        /\ <<quantity, price>> # <<order.quantity, order.price>>
        /\ delta > 0 => HasWares(t, delta)
        /\ r.fits
        /\ Commit([r.m EXCEPT !.sells =
                      IF r.left = 0 THEN Without(@, o)
                      ELSE [@ EXCEPT ![o] = [order EXCEPT !.price = price,
                                                          !.quantity = r.left]]])
        /\ UNCHANGED lastOrder

-----------------------------------------------------------------------------

(***************************************************************************)
(* order_cancel, at a building of the order's claim                        *)
(***************************************************************************)
CancelSellOrder(t, o) ==
    /\ sellOrders[o].owner = t
    /\ Commit([Close(Market, t, sellOrders[o].claim, "ware", sellOrders[o].quantity)
                  EXCEPT !.sells = Without(@, o)])
    /\ UNCHANGED lastOrder

CancelBuyOrder(t, o) ==
    /\ buyOrders[o].owner = t
    /\ Commit([Close(Market, t, buyOrders[o].claim, "coin", buyOrders[o].stored)
                  EXCEPT !.buys = Without(@, o)])
    /\ UNCHANGED lastOrder

(***************************************************************************)
(* closed_listing_collect takes all of a listing or fails; order_collect   *)
(* takes what there is room for and leaves the rest.  Coins always fit.    *)
(* A listing of no coins, or fewer, is refused by the one, and removed by  *)
(* the other.                                                              *)
(***************************************************************************)
Taken(m, listing, n) ==
    LET rest == [listing EXCEPT !.quantity = @ - n]
        without == [m EXCEPT !.closed = @ (-) SetToBag({listing})]
        left == IF rest.quantity <= 0 THEN without
                ELSE [without EXCEPT !.closed = @ (+) SetToBag({rest})]
    IN  IF listing.thing = "coin" THEN [left EXCEPT !.purse[listing.owner] = @ + n]
        ELSE [left EXCEPT !.wares[listing.owner] = @ + n]

FitsTrader(listing) ==
    LET n == Max({0, listing.quantity})
    IN  IF listing.thing = "coin" THEN n ELSE Min({n, Max({0, Room - wares[listing.owner]})})

ClosedListingCollect(t, listing) ==
    /\ listing.owner = t
    /\ listing.quantity > 0 /\ FitsTrader(listing) = listing.quantity
    /\ Commit(Taken(Market, listing, listing.quantity))
    /\ UNCHANGED lastOrder

OrderCollect(t, listing) ==
    /\ listing.owner = t
    /\ Commit(Taken(Market, listing, FitsTrader(listing)))
    /\ UNCHANGED lastOrder

-----------------------------------------------------------------------------

TradeAtMarket(t) ==
    \/ \E c \in Markets, n \in Quantities, p \in Prices, persist \in BOOLEAN :
          PostBuyOrder(t, c, n, p, persist) \/ PostSellOrder(t, c, n, p, persist)
    \/ \E c \in Markets, n \in Quantities, p \in Prices :
          \/ \E o \in DOMAIN buyOrders : EditBuyOrder(t, c, o, n, p)
          \/ \E o \in DOMAIN sellOrders : EditSellOrder(t, c, o, n, p)
    \/ \E o \in DOMAIN buyOrders : CancelBuyOrder(t, o)
    \/ \E o \in DOMAIN sellOrders : CancelSellOrder(t, o)
    \/ \E l \in BagToSet(closed) : ClosedListingCollect(t, l) \/ OrderCollect(t, l)

-----------------------------------------------------------------------------

(***************************************************************************)
(* Whoever sells to a standing order is paid out of that order: it has the *)
(* coins for all it still wants, after any series of partial fills and     *)
(* edits, unless the price of the whole was more than an i32 when it was   *)
(* posted and wrapped to a small one, which nothing refuses.               *)
(***************************************************************************)
BuyOrdersAreCovered ==
    \A o \in DOMAIN buyOrders :
        buyOrders[o].wrapped \/ buyOrders[o].stored >= buyOrders[o].quantity * buyOrders[o].price

(***************************************************************************)
(* A buy order stores exactly the price of what it still wants ("unsold    *)
(* portion of the order").                                                 *)
(***************************************************************************)
StoredIsUnsold ==
    \A o \in DOMAIN buyOrders :
        buyOrders[o].wrapped \/ buyOrders[o].stored = buyOrders[o].quantity * buyOrders[o].price

(***************************************************************************)
(* No buy order stands against a sell order it could be filled from: only  *)
(* a new order and a better price can match, as the edits assume.  (One    *)
(* whose price was wrapped runs out of coins before.)                      *)
(***************************************************************************)
NothingLeftToMatch ==
    \A b \in DOMAIN buyOrders, s \in DOMAIN sellOrders :
        buyOrders[b].claim = sellOrders[s].claim /\ ~buyOrders[b].wrapped
            => buyOrders[b].price < sellOrders[s].price

(***************************************************************************)
(* Coins and wares change hands and are never lost or made, but for three  *)
(* cases: the unsold wares of an order that may not stand; a raised buy    *)
(* order, in which what it saved stays too, beyond what it needs (that     *)
(* surplus is made then, and is lost when the order is filled by raising   *)
(* it again); and a buy order whose price was wrapped, from which sellers  *)
(* are paid coins that it never had, when it is posted, filled, edited or  *)
(* cancelled.                                                              *)
(***************************************************************************)
InListings(bag, thing) ==
    SumFunction([l \in BagToSet(bag) |->
                    IF l.thing = thing /\ l.quantity > 0 THEN l.quantity * bag[l] ELSE 0])

CoinsInMarket ==
    SumFunction(purse) + InListings(closed, "coin")
        + SumFunction([o \in DOMAIN buyOrders |-> buyOrders[o].stored])

Surplus ==
    SumFunction([o \in DOMAIN buyOrders |->
                    IF buyOrders[o].wrapped THEN 0
                    ELSE buyOrders[o].stored - buyOrders[o].quantity * buyOrders[o].price])

WaresInMarket ==
    SumFunction(wares) + InListings(closed, "ware")
        + SumFunction([o \in DOMAIN sellOrders |-> sellOrders[o].quantity])

WrappedOrders == {o \in DOMAIN buyOrders : buyOrders[o].wrapped}

CoinsAreKept ==
    [][\/ CoinsInMarket' = CoinsInMarket
       \/ lastOrder' = lastOrder /\ CoinsInMarket' - CoinsInMarket = Surplus' - Surplus
       \/ \E o \in WrappedOrders \cup WrappedOrders' :
             o \in DOMAIN buyOrders \cap DOMAIN buyOrders' => buyOrders'[o] # buyOrders[o]]_marketVars

WaresAreKept ==
    [][\/ WaresInMarket' = WaresInMarket
       \/ lastOrder' > lastOrder /\ lastOrder' \notin DOMAIN sellOrders' /\ WaresInMarket' < WaresInMarket]_marketVars

=============================================================================
