---------------------------- MODULE Inventories ----------------------------
(***************************************************************************)
(* What players do with the stacks in the inventories they reach: move a   *)
(* stack or all stacks of a kind, swap pockets, split, sort, drop.         *)
(*                                                                         *)
(* An inventory is known by its owner and its index: the player's own are  *)
(* the main one, the toolbelt and the wallet; a building, a deployable or  *)
(* a pile has one.  A player may use a building that gives him permission, *)
(* his own deployable, and a pile that is his or nobody's.                 *)
(***************************************************************************)
EXTENDS DroppedPiles

CONSTANTS
    Usable,            \* Usable[p]: the buildings and deployables p may use
    Slots,             \* Slots[b]: the cargo each pocket of building b takes; <<>>: any
    Tools,             \* items that may be on the toolbelt
    Rank,              \* Rank[i]: where item i is sorted: tag, tier, rarity and id
    MaxQuantity,       \* bound: quantities that are asked for
    MaxCoins           \* bound: coins there are after a wallet has been doubled

ASSUME InventoriesAssumption ==
    /\ Tools \subseteq Items
    /\ Rank \in [Items -> Nat]
    /\ MaxCoins \in Nat

MainInventory(player) == <<player, 0>>
Toolbelt(player) == <<player, 1>>
Wallet(player) == <<player, 2>>

-----------------------------------------------------------------------------

(***************************************************************************)
(* validate_interact and its companions                                    *)
(***************************************************************************)
IsPile(id) == id[1] \in PileIds
IsWallet(id) == id[1] \in Players /\ id[2] = 2
IsToolbelt(id) == id[1] \in Players /\ id[2] = 1

MayInteract(actor, id) ==
    /\ id \in DOMAIN inventories
    /\ \/ id[1] = actor
       \/ id[1] \in Usable[actor]
       \/ IsPile(id) /\ piles[id[1]].owner \in {actor, Nobody}

PocketOf(id, i) == inventories[id].pockets[i]
StackAt(id, i) == PocketOf(id, i).stack
HasPocket(id, i) == i \in DOMAIN inventories[id].pockets
HasStack(id, i) == HasPocket(id, i) /\ ~IsEmpty(PocketOf(id, i))

(***************************************************************************)
(* Storing the inventory goods were taken from: a pile reacts.             *)
(***************************************************************************)
StoreSource(w, id, actor, inv) ==
    IF IsPile(id) THEN OnInventoryUpdated(w, id[1], actor, inv)
    ELSE [w EXCEPT !.inventories[id] = inv]

StoreTarget(w, id, inv) == [w EXCEPT !.inventories[id] = inv]

-----------------------------------------------------------------------------

(***************************************************************************)
(* item_stack_move: as much of a stack as fits goes to another inventory.  *)
(* In a building with a slot for each cargo it must go to its slot.        *)
(***************************************************************************)
Deposited(id, stack, n) ==
    LET r == AddPartial(inventories[id], Quantity(stack, n))
    IN  [inv |-> r.inv, moved |-> n - r.left]

Stockpiled(id, stack, n) ==
    LET slots == Slots[id[1]]
        mine == {i \in DOMAIN slots : slots[i] = stack.item}
        to == CHOOSE i \in mine : \A j \in mine : j <= i
        space == CanFitQuantity(PocketOf(id, to), stack.item)
        n1 == Min({space, n})
        first == SetAt(inventories[id], to, Quantity(stack, StackAt(id, to).quantity + n1))
        all == Add(first, Quantity(stack, n - n1))
        Legal(inv) == \A i \in DOMAIN slots :
                          IsEmpty(inv.pockets[i]) \/ inv.pockets[i].stack.item = slots[i]
    IN  IF /\ mine # {}
           /\ to > inventories[id].cargo
           /\ StackAt(id, to).item \in {NoItem, stack.item}
           /\ n > n1 => Fits(first, Quantity(stack, n - n1))
           /\ Legal(all)
        THEN [inv |-> all, moved |-> n]
        ELSE [inv |-> inventories[id], moved |-> 0]

IsStockpile(id) == id[1] \in DOMAIN Slots /\ Slots[id[1]] # <<>>

Move(actor, from, i, to, n) ==
    /\ from # to
    /\ MayInteract(actor, from) /\ MayInteract(actor, to)
    /\ ~IsPile(to)
    /\ HasStack(from, i)
    /\ LET stack == StackAt(from, i)
           quantity == IF n > 0 THEN n ELSE stack.quantity
           r == IF IsStockpile(to) /\ stack.item \in Cargoes
                THEN Stockpiled(to, stack, quantity)
                ELSE Deposited(to, stack, quantity)
       IN  /\ r.moved # 0
           /\ CanRemoveAt(inventories[from], i, r.moved)
           /\ Becomes(StoreTarget(
                  StoreSource(World, from, actor,
                              RemoveQuantityAt(inventories[from], i, r.moved)),
                  to, r.inv))

-----------------------------------------------------------------------------

(***************************************************************************)
(* item_stack_move_all: every stack of one item.  Coins for a player go to *)
(* his wallet, unless they move between his own inventories and come from  *)
(* another one than his wallet.  The target is read before the source is   *)
(* stored: if both are the wallet, the target's row is the one that stays, *)
(* to which the coins have been added without being taken.                 *)
(***************************************************************************)
TargetOfAll(from, to, item) ==
    IF /\ item = Coin
       /\ to[1] \in Players
       /\ ~(from[1] = to[1] /\ from[2] # 2)
    THEN Wallet(to[1])
    ELSE to

WithdrawStack(inv, i, n) == SetAt(inv, i, Empty) \* mutant of Withdraw
Withdraw(inv, i, n) == RemoveQuantityAt(inv, i, n)

Total(invs, item) == MapThenSumSet(LAMBDA id : Count(invs[id], item), DOMAIN invs)
RoomToDouble(wallet) == Total(inventories, Coin) + Count(inventories[wallet], Coin) <= MaxCoins

MoveEach(acc, i, item) ==
    LET stack == acc.source.pockets[i].stack
        r == AddPartial(acc.target, stack)
    IN  IF acc.full \/ stack.item # item \/ item \in Cargoes THEN acc
        ELSE IF r.left = stack.quantity THEN [acc EXCEPT !.full = TRUE]
        ELSE [acc EXCEPT !.target = r.inv,
                         !.source = Withdraw(@, i, stack.quantity - r.left)]

MoveAll(actor, from, i, requested) ==
    /\ from # requested
    /\ MayInteract(actor, from) /\ MayInteract(actor, requested)
    /\ ~IsPile(requested)
    /\ HasStack(from, i)
    /\ LET stack == StackAt(from, i)
           to == TargetOfAll(from, requested, stack.item)
           r == FoldLeft(LAMBDA acc, k : MoveEach(acc, k, stack.item),
                         [source |-> inventories[from], target |-> inventories[to],
                          full |-> FALSE],
                         [k \in DOMAIN inventories[from].pockets |-> k])
       IN  /\ from = to => RoomToDouble(from)
           /\ Fits(inventories[to], Quantity(stack, 1))
           /\ Becomes(StoreTarget(StoreSource(World, from, actor, r.source), to, r.target))

-----------------------------------------------------------------------------

(***************************************************************************)
(* pocket_swap_contents: part of a stack goes to an empty pocket or one    *)
(* with the same item; two different stacks change places as a whole.      *)
(* The stack that arrives has the durability of the one that was taken.    *)
(***************************************************************************)
SwapIsAllowed(actor, from, i, to, j) ==
    LET mine == StackAt(from, i)
        theirs == StackAt(to, j)
    IN  /\ MayInteract(actor, from) /\ MayInteract(actor, to)
        /\ ~IsPile(to)
        /\ HasStack(from, i) /\ HasPocket(to, j)
        /\ <<from, i>> # <<to, j>>
        /\ IsPocketCargo(inventories[from], i) = IsPocketCargo(inventories[to], j)
        /\ to = Toolbelt(actor) => mine.item \in Tools
        /\ to[2] = 2 => mine.item = Coin
        /\ from[2] = 2 => theirs.item \in {NoItem, Coin}
        /\ (mine.item \in Cargoes /\ IsStockpile(to) /\ j \in DOMAIN Slots[to[1]])
              => Slots[to[1]][j] = mine.item

ExchangeIsAllowed(actor, from, i, to, j, n) ==
    LET mine == StackAt(from, i)
        theirs == StackAt(to, j)
    IN  /\ ~(mine.item \in Cargoes /\ theirs.quantity > 1 /\ actor \in {from[1], to[1]})
        /\ from = Toolbelt(actor) => theirs.item \in Tools
        /\ mine.quantity * Volume[mine.item] <= PocketOf(to, j).volume
        /\ theirs.quantity * Volume[theirs.item] <= PocketOf(from, i).volume

SwapOutcome(from, i, to, j, n) ==
    LET mine == StackAt(from, i)
        theirs == StackAt(to, j)
        fits == Min({CanFitQuantity(PocketOf(to, j), mine.item), n})
    IN  IF theirs.item \in {NoItem, mine.item}
        THEN [source |-> Quantity(mine, mine.quantity - fits),
              target |-> Quantity(mine, theirs.quantity + fits)]
        ELSE [source |-> theirs, target |-> mine]

Swap(actor, from, i, to, j, n) ==
    /\ n > 0
    /\ SwapIsAllowed(actor, from, i, to, j)
    /\ StackAt(from, i).quantity >= n
    /\ StackAt(to, j).item \notin {NoItem, StackAt(from, i).item}
          => ExchangeIsAllowed(actor, from, i, to, j, n)
    /\ LET r == SwapOutcome(from, i, to, j, n)
           source == SetAt(inventories[from], i, r.source)
       IN  Becomes(IF from = to
                   THEN StoreSource(World, from, actor, SetAt(source, j, r.target))
                   ELSE StoreTarget(StoreSource(World, from, actor, source),
                                    to, SetAt(inventories[to], j, r.target)))

-----------------------------------------------------------------------------

(***************************************************************************)
(* item_stack_split                                                        *)
(***************************************************************************)
FreePockets(id, item) ==
    {j \in DOMAIN inventories[id].pockets : Accepts(inventories[id], j, [item |-> item])}

Split(actor, id, i, n) ==
    /\ n > 0
    /\ MayInteract(actor, id) /\ ~IsPile(id)
    /\ HasStack(id, i) /\ StackAt(id, i).quantity >= n
    /\ LET free == FreePockets(id, StackAt(id, i).item)
       IN  /\ free # {}
           /\ Becomes(StoreTarget(World, id,
                  SetAt(RemoveQuantityAt(inventories[id], i, n),
                        Min(free), Quantity(StackAt(id, i), n))))

(***************************************************************************)
(* inventory_sort                                                          *)
(***************************************************************************)
Before(s, t) ==
    \/ Rank[s.item] < Rank[t.item]
    \/ Rank[s.item] = Rank[t.item] /\ s.quantity > t.quantity

Sort(actor, id) ==
    /\ MayInteract(actor, id)
    /\ ~MeetsLock(inventories[id])
    /\ Becomes(StoreTarget(World, id, Sorted(inventories[id], Before)))

(***************************************************************************)
(* item_drop: from a pile too, which is left as it is even if empty.       *)
(***************************************************************************)
Drop(actor, id, i) ==
    /\ MayInteract(actor, id)
    /\ HasStack(id, i)
    /\ \E w \in UpdateFromItems(StoreTarget(World, id, SetAt(inventories[id], i, Empty)),
                                actor, <<StackAt(id, i)>>) :
          Becomes(w)

-----------------------------------------------------------------------------

Pockets(id) == DOMAIN inventories[id].pockets
Quantities == 1 .. MaxQuantity

Rearrange(actor) ==
    \E id \in DOMAIN inventories :
        \/ Sort(actor, id)
        \/ \E i \in Pockets(id), n \in Quantities : Split(actor, id, i, n)
        \/ \E i, j \in Pockets(id), n \in Quantities : Swap(actor, id, i, id, j, n)

Transfer(actor) ==
    \E from, to \in DOMAIN inventories : from # to /\ \E i \in Pockets(from) :
        \/ \E n \in Quantities \cup {0} : Move(actor, from, i, to, n)
        \/ MoveAll(actor, from, i, to)
        \/ \E j \in Pockets(to), n \in Quantities : Swap(actor, from, i, to, j, n)

HandlePiles(actor) ==
    \/ \E id \in DOMAIN inventories : \E i \in Pockets(id) : Drop(actor, id, i)
    \/ \E p \in DOMAIN piles : Release(actor, p) \/ Destroy(p)

-----------------------------------------------------------------------------

(***************************************************************************)
(* Nothing is made or lost: whatever is moved, split, sorted, swapped or   *)
(* dropped, the pieces of an item in all inventories stay as many, with    *)
(* two exceptions.  A pile of nobody that despawns or is destroyed takes   *)
(* its own along.  And coins that are moved all at once from a wallet to   *)
(* another inventory of its owner are sent back to the wallet, which then  *)
(* holds them twice (item_stack_move_all.rs:66 and :143; the comment at    *)
(* :65 says that the wallet is the target from a non-wallet source).       *)
(***************************************************************************)
LostWithPile(item) ==
    \E p \in DOMAIN piles \ DOMAIN piles' :
        /\ piles[p].owner = Nobody
        /\ Total(inventories', item)
              = Total(inventories, item) - Count(inventories[PileInventory(p)], item)

WalletDoubled ==
    \E id \in DOMAIN inventories :
        /\ IsWallet(id)
        /\ Count(inventories'[id], Coin) = 2 * Count(inventories[id], Coin)
        /\ inventories' = [inventories EXCEPT ![id] = inventories'[id]]

GoodsAreKept ==
    [][\A item \in Items :
          \/ Total(inventories', item) = Total(inventories, item)
          \/ LostWithPile(item)
          \/ item = Coin /\ WalletDoubled]_pileVars

(***************************************************************************)
(* Every stack is where it may be and fits: cargo in pockets for cargo,    *)
(* items in the others, nothing beyond a pocket's volume, and in a         *)
(* stockpile each cargo in its slot.                                       *)
(***************************************************************************)
StacksInPlace ==
    \A id \in DOMAIN inventories : \A i \in Pockets(id) : HasStack(id, i) =>
        /\ StackAt(id, i).item \in Cargoes <=> IsPocketCargo(inventories[id], i)
        /\ PocketOf(id, i).volume > 0
              => StackAt(id, i).quantity * Volume[StackAt(id, i).item] <= PocketOf(id, i).volume
        /\ (IsStockpile(id) /\ i \in DOMAIN Slots[id[1]]) => Slots[id[1]][i] = StackAt(id, i).item

=============================================================================
