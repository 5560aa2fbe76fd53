------------------------------- MODULE MCGoods -------------------------------
(***************************************************************************)
(* Three scenes with the goods of players: one player with his inventories *)
(* and a building's; two players and piles; two players who trade.  The    *)
(* scene decides which inventories there are and what the players do.      *)
(***************************************************************************)
EXTENDS TradeSession

CONSTANTS p1, p2, pile1, pile2, pile3, chest, stockpile, coin, ore, axe, log

VARIABLE scene

vars == <<tsVars, scene>>

MCPlayers == {p1, p2}
MCPileIds == {pile1, pile2}
MCItems == {coin, ore, axe, log}
MCCargoes == {log}
MCVolume == [i \in MCItems |-> IF i = coin THEN 0 ELSE IF i = axe THEN 2 ELSE 1]
MCRank == [i \in MCItems |-> IF i = coin THEN 1 ELSE IF i = ore THEN 2 ELSE 3]
MCTools == {axe}
MCUsable == [p \in MCPlayers |-> {chest, stockpile}]
MCSlots == [b \in {chest, stockpile} |-> IF b = chest THEN <<>> ELSE <<log, log>>]

Pk(volume, stack) == [stack |-> stack, volume |-> volume, locked |-> FALSE]
St(item, n) == [item |-> item, quantity |-> n, durability |-> IF item = axe THEN 5 ELSE 0]
Inv(pockets, cargo) == [pockets |-> pockets, cargo |-> cargo]

MCNewPile == Inv(<<Pk(Unlimited, Empty), Pk(Unlimited, Empty)>>, 1)

HandlingInventories ==
    MainInventory(p1) :> Inv(<<Pk(2, St(ore, 2)), Pk(2, Empty), Pk(1, St(log, 1))>>, 2)
    @@ Toolbelt(p1) :> Inv(<<Pk(0, St(axe, 1))>>, 1)
    @@ Wallet(p1) :> Inv(<<Pk(0, St(coin, 2))>>, 1)
    @@ <<chest, 0>> :> Inv(<<Pk(2, St(ore, 1)), Pk(2, Empty)>>, 2)
    @@ <<stockpile, 0>> :> Inv(<<Pk(1, St(log, 1)), Pk(1, Empty)>>, 0)

PileInventories ==
    MainInventory(p1) :> Inv(<<Pk(2, St(ore, 1))>>, 1)
    @@ MainInventory(p2) :> Inv(<<Pk(2, St(axe, 1))>>, 1)

TradeInventories ==
    MainInventory(p1) :> Inv(<<Pk(2, Empty), Pk(1, St(log, 1))>>, 1)
    @@ Wallet(p1) :> Inv(<<Pk(0, St(coin, 1))>>, 1)
    @@ MainInventory(p2) :> Inv(<<Pk(2, St(axe, 1)), Pk(1, Empty)>>, 1)
    @@ Wallet(p2) :> Inv(<<Pk(0, Empty)>>, 1)

GoodsInit ==
    /\ scene \in {"handling", "piles", "trade"}
    /\ inventories = CASE scene = "handling" -> HandlingInventories
                       [] scene = "piles" -> PileInventories
                       [] scene = "trade" -> TradeInventories
    /\ piles = <<>>
    /\ timers = {}
    /\ TradeInit

GoodsNext ==
    /\ UNCHANGED scene
    /\ \/ /\ scene = "handling"
          /\ \E p \in signedIn \ {p2} : Rearrange(p) \/ Transfer(p)
          /\ UNCHANGED tradeVars
       \/ /\ scene = "piles"
          /\ (\E p \in signedIn : HandlePiles(p) \/ Transfer(p)) \/ TimerFires
          /\ UNCHANGED tradeVars
       \/ /\ scene = "trade"
          /\ p1 \in signedIn
          /\ Move(p1, Wallet(p1), 1, MainInventory(p1), 0)
                \/ Move(p1, MainInventory(p1), 1, Wallet(p1), 0)
          /\ UNCHANGED tradeVars
       \/ /\ scene = "trade"
          /\ (\E p \in Players : Trade(p)) \/ SignOut(p1) \/ SignIn(p1)
                \/ TooFar(1) \/ Agent \/ CancelFar

GoodsSpec == GoodsInit /\ [][GoodsNext]_vars

-----------------------------------------------------------------------------

(***************************************************************************)
(* Whatever is dropped, stored and offered, and whoever signs out: a pile  *)
(* has the one timer that its owner and its decay call for, a stack lies   *)
(* where its kind may lie and within the volume of its pocket, a player is *)
(* in one trade, and who has accepted has accepted the offers as they are. *)
(***************************************************************************)
GoodsInOrder ==
    /\ PileTypeOK /\ OneTimerPerPile
    /\ StacksInPlace
    /\ OneSessionPerPlayer /\ AcceptedAsOffered

=============================================================================
