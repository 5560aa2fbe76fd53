------------------------------ MODULE Pockets ------------------------------
(***************************************************************************)
(* The algorithms of InventoryState and Pocket: how stacks of items are    *)
(* spread over the pockets of an inventory, taken from them and put        *)
(* together.  An inventory is a sequence of pockets; those behind `cargo`  *)
(* are for cargo, the others for items.  A pocket holds one stack or       *)
(* nothing, and as much of it as its volume allows.                        *)
(*                                                                         *)
(* The operators are the methods, as functions of the inventory: what a    *)
(* method changes is in the record it returns.  Containers that turn into  *)
(* other items when they are picked up are left out.                       *)
(***************************************************************************)
EXTENDS Integers, SequencesExt

CONSTANTS
    Items,        \* kinds of items and of cargo
    Cargoes,      \* those that are cargo
    Coin,         \* the coin, an item of volume 0
    Volume,       \* Volume[i]: of one piece; 0: any number fits
    NoItem        \* model value: no content

ASSUME ItemsAssumption ==
    /\ Cargoes \subseteq Items
    /\ Coin \in Items \ Cargoes
    /\ Volume \in [Items -> Nat]
    /\ NoItem \notin Items

Unlimited == 1000   \* i32::MAX, more than there is of anything

(***************************************************************************)
(* A stack: durability 0 is None, of an item that does not wear out.       *)
(***************************************************************************)
ItemStack == [item : Items, quantity : Nat, durability : Nat]
Empty == [item |-> NoItem, quantity |-> 0, durability |-> 0]
Pocket == [stack : ItemStack \cup {Empty}, volume : Nat, locked : BOOLEAN]
Inventory == [pockets : Seq(Pocket), cargo : Nat]

IsEmpty(pocket) == pocket.stack = Empty
IsPocketCargo(inv, i) == i > inv.cargo
Size(inv) == Len(inv.pockets)
Quantity(stack, n) == [stack EXCEPT !.quantity = n]

-----------------------------------------------------------------------------

(***************************************************************************)
(* How many pieces of an item still fit a pocket.                          *)
(***************************************************************************)
WholeVolume(pocket) == pocket.volume \* mutant of AvailableSpace
AvailableSpace(pocket) ==
    IF IsEmpty(pocket) THEN pocket.volume
    ELSE pocket.volume - pocket.stack.quantity * Volume[pocket.stack.item]

CanFitQuantity(pocket, item) ==
    IF pocket.volume <= 0 \/ Volume[item] <= 0
    THEN Unlimited
    ELSE AvailableSpace(pocket) \div Volume[item]

(***************************************************************************)
(* set_at: also unlocks the pocket, and never leaves an empty stack.       *)
(***************************************************************************)
SetAt(inv, i, stack) ==
    [inv EXCEPT !.pockets[i] =
        [@ EXCEPT !.stack = IF stack.quantity <= 0 THEN Empty ELSE stack,
                  !.locked = FALSE]]

SetLocked(inv, i, locked) == [inv EXCEPT !.pockets[i].locked = locked]

UnlockAll(inv) ==
    [inv EXCEPT !.pockets = [i \in DOMAIN @ |-> [@[i] EXCEPT !.locked = FALSE]]]

-----------------------------------------------------------------------------

(***************************************************************************)
(* add_partial: pockets that already have the item first, then empty ones  *)
(* of the right sort, until nothing is left.  An empty pocket too small    *)
(* for one piece gets a stack of quantity 0.                               *)
(***************************************************************************)
Stacks(pocket, stack) ==
    /\ pocket.stack.item = stack.item
    /\ pocket.stack.durability = 0
    /\ stack.durability = 0

Accepts(inv, i, stack) ==
    IsEmpty(inv.pockets[i]) /\ IsPocketCargo(inv, i) = (stack.item \in Cargoes)

Indices(inv, Test(_)) == SelectSeq([i \in DOMAIN inv.pockets |-> i], Test)

Fill(acc, i, stack) ==
    LET pocket == acc.inv.pockets[i]
        n == Min({CanFitQuantity(pocket, stack.item), acc.left})
    IN  IF acc.left = 0 THEN acc
        ELSE [inv |-> [acc.inv EXCEPT
                          !.pockets[i].stack = Quantity(stack, pocket.stack.quantity + n)],
              left |-> acc.left - n]

AddPartial(inv, stack) ==
    IF stack.quantity <= 0 THEN [inv |-> inv, left |-> stack.quantity]
    ELSE FoldLeft(LAMBDA acc, i : Fill(acc, i, stack),
                  [inv |-> inv, left |-> stack.quantity],
                  Indices(inv, LAMBDA i : Stacks(inv.pockets[i], stack))
                      \o Indices(inv, LAMBDA i : Accepts(inv, i, stack)))

(***************************************************************************)
(* add and its relatives: all of it or nothing.                            *)
(***************************************************************************)
Fits(inv, stack) == AddPartial(inv, stack).left = 0

Add(inv, stack) ==
    IF Fits(inv, stack) THEN AddPartial(inv, stack).inv ELSE inv

FitsAll(inv, stacks) ==
    LET Try(acc, s) == [ok |-> acc.ok /\ Fits(acc.inv, s), inv |-> Add(acc.inv, s)]
    IN  FoldLeft(Try, [ok |-> TRUE, inv |-> inv], stacks).ok

AddMultiple(inv, stacks) ==
    IF FitsAll(inv, stacks) THEN FoldLeft(Add, inv, stacks) ELSE inv

(***************************************************************************)
(* double: twice as many pockets of either sort, the new ones empty.       *)
(***************************************************************************)
EmptyPockets(pockets) ==
    [i \in DOMAIN pockets |->
        [stack |-> Empty, volume |-> pockets[i].volume, locked |-> FALSE]]

Double(inv) ==
    LET items == SubSeq(inv.pockets, 1, inv.cargo)
        cargoes == SubSeq(inv.pockets, inv.cargo + 1, Size(inv))
    IN  [pockets |-> items \o EmptyPockets(items) \o cargoes \o EmptyPockets(cargoes),
         cargo |-> 2 * inv.cargo]

-----------------------------------------------------------------------------

(***************************************************************************)
(* remove: from the smallest stack of the item on, all of it or nothing.   *)
(***************************************************************************)
SmallestFirst(inv, item) ==
    LET q(i) == inv.pockets[i].stack.quantity
    IN  SetToSortSeq({i \in DOMAIN inv.pockets : inv.pockets[i].stack.item = item},
                     LAMBDA i, j : q(i) < q(j) \/ (q(i) = q(j) /\ i < j))

Take(acc, i) ==
    LET stack == acc.inv.pockets[i].stack
        n == Min({stack.quantity, acc.left})
    IN  IF acc.left = 0 THEN acc
        ELSE [inv |-> [acc.inv EXCEPT !.pockets[i].stack =
                          IF stack.quantity = n THEN Empty
                          ELSE Quantity(stack, stack.quantity - n)],
              left |-> acc.left - n]

Removed(inv, stack) ==
    FoldLeft(Take, [inv |-> inv, left |-> stack.quantity], SmallestFirst(inv, stack.item))

CanRemove(inv, stack) == stack.quantity >= 0 /\ Removed(inv, stack).left = 0
RemoveStack(inv, stack) == IF CanRemove(inv, stack) THEN Removed(inv, stack).inv ELSE inv

(***************************************************************************)
(* remove_quantity_at                                                      *)
(***************************************************************************)
CanRemoveAt(inv, i, n) ==
    n >= 0 /\ ~IsEmpty(inv.pockets[i]) /\ inv.pockets[i].stack.quantity >= n

RemoveQuantityAt(inv, i, n) ==
    IF CanRemoveAt(inv, i, n)
    THEN SetAt(inv, i, Quantity(inv.pockets[i].stack, inv.pockets[i].stack.quantity - n))
    ELSE inv

-----------------------------------------------------------------------------

(***************************************************************************)
(* inventory_sort: from the first pocket on, stacks of the same item are   *)
(* moved together as far as they fit, then items and cargo are ordered.    *)
(* It looks for locks only while it scans: a locked last pocket goes       *)
(* unnoticed unless some pocket with room for more is compared with it.    *)
(***************************************************************************)
HasRoom(pocket) == ~IsEmpty(pocket) /\ CanFitQuantity(pocket, pocket.stack.item) > 0

Join(pockets, i, j) ==
    LET n == Min({CanFitQuantity(pockets[i], pockets[i].stack.item),
                  pockets[j].stack.quantity})
    IN  [pockets EXCEPT
            ![i].stack.quantity = @ + n,
            ![j].stack = IF @.quantity <= n THEN Empty ELSE Quantity(@, @.quantity - n)]

Gather(pockets, i, cargo) ==
    LET Step(acc, j) ==
            IF /\ HasRoom(acc[i])
               /\ (i > cargo) = (j > cargo)
               /\ acc[j].stack.item = acc[i].stack.item
            THEN Join(acc, i, j)
            ELSE acc
    IN  FoldLeft(Step, pockets, [k \in 1 .. Len(pockets) - i |-> i + k])

GatheredBefore(inv, i) ==
    FoldLeft(LAMBDA pockets, k : Gather(pockets, k, inv.cargo), inv.pockets,
             [k \in 1 .. i - 1 |-> k])

ScansLast(inv, i) ==
    LET pockets == GatheredBefore(inv, i)
    IN  /\ HasRoom(pockets[i])
        /\ HasRoom(Gather(Front(pockets), i, inv.cargo)[i])

MeetsLock(inv) ==
    LET n == Size(inv)
    IN  \/ \E i \in 1 .. n - 1 : inv.pockets[i].locked
        \/ inv.pockets[n].locked /\ \E i \in 1 .. n - 1 : ScansLast(inv, i)

Sorted(inv, Before(_, _)) ==
    LET pockets == GatheredBefore(inv, Size(inv))
        Order(p, q) == ~IsEmpty(p) /\ (IsEmpty(q) \/ Before(p.stack, q.stack))
    IN  [inv EXCEPT !.pockets =
            SortSeq(SubSeq(pockets, 1, inv.cargo), Order)
                \o SortSeq(SubSeq(pockets, inv.cargo + 1, Size(inv)), Order)]

-----------------------------------------------------------------------------

(***************************************************************************)
(* How much of an item an inventory holds.                                 *)
(***************************************************************************)
Count(inv, item) ==
    MapThenSumSet(LAMBDA i : IF inv.pockets[i].stack.item = item
                             THEN inv.pockets[i].stack.quantity ELSE 0,
                  DOMAIN inv.pockets)

=============================================================================
