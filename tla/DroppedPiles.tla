---------------------------- MODULE DroppedPiles ----------------------------
(***************************************************************************)
(* Piles of dropped goods.  A pile belongs to who dropped it until its     *)
(* ownership timer fires, then to everybody until its despawn timer fires  *)
(* and it is gone with what is in it.  Whoever drops something where he    *)
(* has a pile, or where there is a pile of nobody, adds to that pile and   *)
(* owns it; a pile that loses its owner is merged with one of nobody.      *)
(*                                                                         *)
(* All piles are at one place here and within reach of all players.        *)
(***************************************************************************)
EXTENDS Pockets, Rows

CONSTANTS
    Players,
    PileIds,      \* bound: entities that become piles
    Nobody,       \* the owner of a public pile: entity id 0
    NewPile       \* bound: the inventory of a new pile (50 pockets in the code)

VARIABLES
    inventories,  \* inventory_state: <<owner, index>> -> inventory
    piles,        \* dropped_inventory_state
    timers        \* rows of the two timer tables

pileVars == <<inventories, piles, timers>>

Owners == Players \cup {Nobody}
Kinds == {"ownership", "despawn"}
TimerIds == 1 .. Cardinality(PileIds) + 2
Timer == [kind : Kinds, id : TimerIds, pile : PileIds]
Pile == [owner : Owners, timer : TimerIds \cup {0}]

PileInventory(p) == <<p, 0>>

PileTypeOK ==
    /\ DOMAIN piles \subseteq PileIds
    /\ piles \in [DOMAIN piles -> Pile]
    /\ timers \subseteq Timer
    /\ \A p \in PileIds : p \in DOMAIN piles <=> PileInventory(p) \in DOMAIN inventories

-----------------------------------------------------------------------------

(***************************************************************************)
(* The operators below take the three tables as one record w and return    *)
(* it changed.                                                             *)
(***************************************************************************)
World == [inventories |-> inventories, piles |-> piles, timers |-> timers]

Becomes(w) ==
    /\ inventories' = w.inventories
    /\ piles' = w.piles
    /\ timers' = w.timers

KindFor(owner) == IF owner = Nobody THEN "despawn" ELSE "ownership"

(***************************************************************************)
(* The timer that a row knows is looked for in the table of its owner.     *)
(***************************************************************************)
\* mutant of DeletePreviousTimer: not the timer of a public pile
DeletePreviousOwnership(w, row) ==
    {t \in w.timers : ~(t.id = row.timer /\ t.kind = "ownership" /\ row.owner # Nobody)}

DeletePreviousTimer(w, row) ==
    {t \in w.timers : ~(t.id = row.timer /\ t.kind = KindFor(row.owner))}

(***************************************************************************)
(* auto_inc: a number that no row of the table has or any pile refers to.  *)
(***************************************************************************)
NextTimerId(w, kind) ==
    Min(TimerIds \ ({t.id : t \in {u \in w.timers : u.kind = kind}}
                      \cup {w.piles[p].timer : p \in DOMAIN w.piles}))

(***************************************************************************)
(* insert_ownership_timer for a player, insert_despawn_timer for Nobody.   *)
(***************************************************************************)
InsertTimer(w, p, owner) ==
    LET id == NextTimerId(w, KindFor(owner))
    IN  [w EXCEPT
            !.timers = DeletePreviousTimer(w, w.piles[p])
                          \cup {[kind |-> KindFor(owner), id |-> id, pile |-> p]},
            !.piles[p] = [owner |-> owner, timer |-> id]]

\* mutant of Delete: the inventory stays
DeleteRowOnly(w, p) ==
    [w EXCEPT !.piles = Without(@, p), !.timers = DeletePreviousTimer(w, w.piles[p])]

Delete(w, p) ==
    [inventories |-> Without(w.inventories, PileInventory(p)),
     piles |-> Without(w.piles, p),
     timers |-> DeletePreviousTimer(w, w.piles[p])]

(***************************************************************************)
(* get_at_location: a pile of the actor, or else one of nobody.            *)
(***************************************************************************)
PilesOf(w, owner) == {p \in DOMAIN w.piles : w.piles[p].owner = owner}

GetAtLocation(w, actor) ==
    IF PilesOf(w, actor) # {} THEN PilesOf(w, actor) ELSE PilesOf(w, Nobody)

CreatePile(w, p, owner) ==
    [w EXCEPT !.inventories = (PileInventory(p) :> NewPile) @@ @,
              !.piles = (p :> [owner |-> owner, timer |-> 0]) @@ @]

(***************************************************************************)
(* The inventory of a pile is doubled until a stack fits; one pocket takes *)
(* any quantity, so that once is enough.                                   *)
(***************************************************************************)
AddDoubling(inv, stack) ==
    IF Fits(inv, stack) THEN Add(inv, stack) ELSE Add(Double(inv), stack)

PutInto(w, p, actor, stacks) ==
    [InsertTimer(w, p, actor) EXCEPT
        !.inventories[PileInventory(p)] = FoldLeft(AddDoubling, @, stacks)]

(***************************************************************************)
(* update_from_items: the possible outcomes, one for each pile found.  The *)
(* bound PileIds leaves none when a pile is needed and there is no entity  *)
(* left.                                                                   *)
(***************************************************************************)
UpdateFromItems(w, actor, stacks) ==
    LET found == GetAtLocation(w, actor)
        free == PileIds \ DOMAIN w.piles
    IN  IF stacks = <<>> THEN {w}
        ELSE IF found # {} THEN {PutInto(w, p, actor, stacks) : p \in found}
        ELSE IF free = {} THEN {}
        ELSE LET p == CHOOSE q \in free : TRUE
             IN  {PutInto(CreatePile(w, p, actor), p, actor, stacks)}

(***************************************************************************)
(* on_inventory_updated: an emptied pile goes, another is the taker's now. *)
(***************************************************************************)
IsEmptyInventory(inv) == \A i \in DOMAIN inv.pockets : inv.pockets[i].stack.quantity <= 0

OnInventoryUpdated(w, p, actor, inv) ==
    IF IsEmptyInventory(inv) THEN Delete(w, p)
    ELSE [InsertTimer(w, p, actor) EXCEPT !.inventories[PileInventory(p)] = inv]

-----------------------------------------------------------------------------

(***************************************************************************)
(* dropped_inventory_release: the owner makes his pile public.             *)
(***************************************************************************)
Release(actor, p) ==
    /\ p \in DOMAIN piles
    /\ piles[p].owner = actor
    /\ Becomes(InsertTimer(World, p, Nobody))

(***************************************************************************)
(* dropped_inventory_destroy: anyone destroys a public pile.               *)
(***************************************************************************)
Destroy(p) ==
    /\ p \in DOMAIN piles
    /\ piles[p].owner = Nobody
    /\ Becomes(Delete(World, p))

Contents(inv) ==
    LET filled == SelectSeq(inv.pockets, LAMBDA pocket : ~IsEmpty(pocket))
    IN  [i \in DOMAIN filled |-> filled[i].stack]

Fired(w, t) == [w EXCEPT !.timers = @ \ {t}]

(***************************************************************************)
(* dropped_inventory_lose_ownership                                        *)
(***************************************************************************)
Merge(p, t) ==
    /\ GetAtLocation(World, Nobody) # {}
    /\ \E w \in UpdateFromItems(World, Nobody, Contents(inventories[PileInventory(p)])) :
          Becomes(Fired(Delete(w, p), t))

MakePublic(p, t) ==
    /\ GetAtLocation(World, Nobody) = {}
    /\ Becomes(Fired(InsertTimer(World, p, Nobody), t))

LoseOwnership(t) ==
    /\ t.kind = "ownership"
    /\ IF t.pile \in DOMAIN piles
       THEN Merge(t.pile, t) \/ MakePublic(t.pile, t)
       ELSE Becomes(Fired(World, t))

(***************************************************************************)
(* dropped_inventory_despawn                                               *)
(***************************************************************************)
Despawn(t) ==
    /\ t.kind = "despawn"
    /\ Becomes(Fired(IF t.pile \in DOMAIN piles THEN Delete(World, t.pile) ELSE World, t))

TimerFires == \E t \in timers : LoseOwnership(t) \/ Despawn(t)

-----------------------------------------------------------------------------

(***************************************************************************)
(* A pile has exactly one timer, the one it knows, of the kind its owner   *)
(* calls for, and no timer is left of a pile that is gone: every change of *)
(* hands finds and deletes the timer before.                               *)
(***************************************************************************)
OneTimerPerPile ==
    timers = {[kind |-> KindFor(piles[p].owner), id |-> piles[p].timer, pile |-> p] :
                 p \in DOMAIN piles}

=============================================================================
