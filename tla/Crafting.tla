------------------------------ MODULE Crafting ------------------------------
(***************************************************************************)
(* Crafting at buildings.  An active craft takes its materials when it is  *)
(* begun and is worked at, action by action, by its owner or, if it is     *)
(* public, by anybody; while its lock lasts it holds one of the building's *)
(* slots.  A passive craft waits in a queue for a slot, and a timer        *)
(* finishes it.  When the building goes, what is in it is kept as lost     *)
(* items.                                                                  *)
(*                                                                         *)
(* Every craft turns one unit of material into one unit of product, and    *)
(* inventories have room, and crafters are members of the claim; distance, *)
(* permissions, stamina and knowledge are left out: a call that fails for  *)
(* one of them changes nothing, but asks the server to clear the player's  *)
(* action, which arrives later.                                            *)
(***************************************************************************)
EXTENDS Integers, FiniteSets, SequencesExt, Rows

CONSTANTS
    Crafters,
    Apprentices,       \* crafters whose level or tool may not be enough
    Workshops,         \* buildings
    CraftingSlots,     \* crafting_slots of every workshop
    ConcurrentCrafts,  \* concurrent_slots, max_concurrent_crafts
    ItemSlots,         \* refining_slots
    CargoSlots,        \* refining_cargo_slots
    ActionsRequired,   \* actions_required of the active recipe
    Powers,            \* progress that one action may make
    CraftCounts,       \* counts that are asked for
    MaterialsAtFirst,  \* units that every crafter has
    MaxCrafts          \* bound: crafts that are begun

ASSUME CraftingAssumption ==
    /\ IsFiniteSet(Crafters) /\ Apprentices \subseteq Crafters
    /\ {ItemSlots, CargoSlots, MaterialsAtFirst, MaxCrafts} \subseteq Nat
    /\ ActionsRequired \in Nat \ {0} /\ Powers \subseteq Nat /\ CraftCounts \subseteq Nat

VARIABLES
    unskilled,            \* crafters whose level or tool is not enough, once and for all
    materials, products,  \* of every crafter, lost items included
    progressiveAction,    \* progressive_action_state
    publicActions,        \* public_progressive_action_state
    lockOrder,            \* <<a, b>>: lock_expiration of a is before that of b
    expired,              \* crafts whose lock_expiration has passed
    passiveCraft,         \* passive_craft_state
    passiveTimers,        \* passive_craft_timer: ids of crafts
    craftAction,          \* player_action_state, of the layer of crafting
    clears,               \* calls of player_clear_action_state that are under way
    nextCraft,
    wasted,               \* ghost: units of crafts that were cancelled half done
    worked,               \* ghost: progress made at active crafts
    hasty                 \* ghost: workshops where an unfinished craft was collected

craftTables == <<progressiveAction, publicActions, lockOrder, expired>>
passiveTables == <<passiveCraft, passiveTimers>>
craftingVars == <<unskilled, materials, products, craftTables, passiveTables, craftAction, clears,
                  nextCraft, wasted, worked, hasty>>

NoSlot == -1
CraftIds == 1 .. MaxCrafts
Idle == [type |-> "None", target |-> CHOOSE b \in Workshops : TRUE, due |-> FALSE]

ProgressiveActions ==
    [owner : Crafters, building : Workshops, count : CraftCounts, progress : Nat,
     preparation : BOOLEAN]
PassiveCrafts ==
    [owner : Crafters, building : Workshops, cargo : BOOLEAN,
     status : {"Queued", "Processing", "Complete"}, slot : Nat \cup {NoSlot}]

\* every two locks expire one before the other, and those before an expired one have expired
LocksInOrder ==
    LET Crafts == DOMAIN progressiveAction IN
    /\ lockOrder \subseteq Crafts \X Crafts /\ expired \subseteq Crafts
    /\ \A a, b \in Crafts :
         /\ <<a, b>> \in lockOrder <=> a # b /\ <<b, a>> \notin lockOrder
         /\ <<a, b>> \in lockOrder /\ b \in expired => a \in expired
    /\ \A a, b, c \in Crafts : <<a, b>> \in lockOrder /\ <<b, c>> \in lockOrder
                                => <<a, c>> \in lockOrder

CraftingTypeOK ==
    /\ materials \in [Crafters -> Nat] /\ products \in [Crafters -> Nat]
    /\ DOMAIN progressiveAction \subseteq CraftIds
    /\ \A id \in DOMAIN progressiveAction : progressiveAction[id] \in ProgressiveActions
    /\ DOMAIN passiveCraft \subseteq CraftIds
    /\ \A id \in DOMAIN passiveCraft : passiveCraft[id] \in PassiveCrafts
    /\ LocksInOrder
    /\ clears \subseteq Crafters
    /\ hasty \subseteq Workshops

CraftingInit ==
    /\ unskilled \in SUBSET Apprentices
    /\ materials = [p \in Crafters |-> MaterialsAtFirst]
    /\ products = [p \in Crafters |-> 0]
    /\ progressiveAction = <<>> /\ publicActions = {} /\ lockOrder = {} /\ expired = {}
    /\ passiveCraft = <<>> /\ passiveTimers = {}
    /\ craftAction = [p \in Crafters |-> Idle] /\ clears = {}
    /\ nextCraft = 1
    /\ wasted = 0 /\ worked = 0 /\ hasty = {}

-----------------------------------------------------------------------------
(***************************************************************************)
(* ProgressiveActionState.                                                 *)
(***************************************************************************)
CompletedCrafts(a) == a.progress \div ActionsRequired
RefundedCrafts(a) == (a.count * ActionsRequired - a.progress) \div ActionsRequired

Status(id) ==
    LET a == progressiveAction[id] IN
    IF a.progress >= ActionsRequired * a.count THEN "Completed"
    ELSE IF id \in expired THEN "Suspended" ELSE "Active"

CraftsIn(b) == {id \in DOMAIN progressiveAction : progressiveAction[id].building = b}
CraftsOf(p, b) == {id \in CraftsIn(b) : progressiveAction[id].owner = p}

ValidateSlots(p, b, resume) ==
    /\ Cardinality({id \in CraftsIn(b) : Status(id) = "Active"}) < CraftingSlots
    /\ Cardinality(CraftsOf(p, b)) <= ConcurrentCrafts
    /\ Cardinality(CraftsOf(p, b)) = ConcurrentCrafts => resume

\* set_expiration: the lock of id is now the last to expire
Touch(id) ==
    /\ lockOrder' = {pair \in lockOrder : id \notin {pair[1], pair[2]}}
                      \cup {<<other, id>> : other \in DOMAIN progressiveAction \ {id}}
    /\ expired' = expired \ {id}

-----------------------------------------------------------------------------
(***************************************************************************)
(* craft_initiate_start: a dry run of the craft that does take the         *)
(* materials and open the craft.                                           *)
(***************************************************************************)
Doing(p, b) == [craftAction EXCEPT ![p] = [type |-> "Craft", target |-> b, due |-> FALSE]]

CraftInitiateStart(p, b, count, public) ==
    LET id == nextCraft IN
    /\ nextCraft \in CraftIds
    /\ ValidateSlots(p, b, FALSE)
    /\ materials[p] >= count
    /\ materials' = [materials EXCEPT ![p] = @ - count]
    /\ progressiveAction' = With(progressiveAction, id,
         [owner |-> p, building |-> b, count |-> count, progress |-> 0, preparation |-> TRUE])
    /\ publicActions' = IF public THEN publicActions \cup {id} ELSE publicActions
    /\ Touch(id)
    /\ craftAction' = Doing(p, b)
    /\ nextCraft' = nextCraft + 1
    /\ UNCHANGED <<products, passiveTables, clears, wasted, worked, hasty>>

(***************************************************************************)
(* craft_continue_start: only a craft that is suspended needs a slot anew. *)
(***************************************************************************)
MayWork(p, id) ==
    /\ progressiveAction[id].owner = p \/ (id \in publicActions /\ p \notin unskilled)
    /\ Status(id) # "Completed"

CraftContinueStart(p, id) ==
    LET b == progressiveAction[id].building IN
    /\ Status(id) = "Suspended" => ValidateSlots(p, b, TRUE)
    /\ MayWork(p, id)
    /\ Touch(id)
    /\ progressiveAction' = [progressiveAction EXCEPT ![id].preparation = TRUE]
    /\ craftAction' = Doing(p, b)
    /\ UNCHANGED <<materials, products, publicActions, passiveTables, clears, nextCraft,
                   wasted, worked, hasty>>

(***************************************************************************)
(* reduce of craft_initiate and craft_continue: one action's work.  When   *)
(* the craft is complete, the player's action ends.                        *)
(***************************************************************************)
Worked(p, id) ==
    LET a == progressiveAction[id] IN
    /\ craftAction[p].type = "Craft" /\ craftAction[p].target = a.building
    /\ craftAction[p].due                       \* validate_action_timing
    /\ MayWork(p, id)
    /\ Touch(id)
    /\ IF p \in unskilled
       THEN /\ craftAction' = [craftAction EXCEPT ![p] = Idle]
            /\ progressiveAction' = [progressiveAction EXCEPT ![id].preparation = FALSE]
            /\ UNCHANGED worked
       ELSE \E power \in Powers :
              LET left == a.count * ActionsRequired - a.progress
                  done == IF power < left THEN power ELSE left
              IN /\ progressiveAction' = [progressiveAction EXCEPT
                      ![id].progress = @ + done, ![id].preparation = FALSE]
                 /\ worked' = worked + done
                 /\ craftAction' = IF done = left THEN [craftAction EXCEPT ![p] = Idle]
                                   ELSE craftAction

\* of the crafts of p at b, id is the one whose lock expires last
IsLatestCraft(p, b, id) ==
    /\ id \in CraftsOf(p, b)
    /\ \A other \in CraftsOf(p, b) \ {id} : <<other, id>> \in lockOrder

CraftInitiate(p, b, public) ==
    /\ \E id \in DOMAIN progressiveAction :
       /\ IsLatestCraft(p, b, id)
       /\ Worked(p, id)
       /\ public => id \notin publicActions     \* insert fails on a row that is there
       /\ publicActions' = IF public THEN publicActions \cup {id} ELSE publicActions
    /\ UNCHANGED <<materials, products, passiveTables, clears, nextCraft, wasted, hasty>>

CraftContinue(p, id) ==
    /\ Worked(p, id)
    /\ UNCHANGED <<materials, products, publicActions, passiveTables, clears, nextCraft,
                   wasted, hasty>>

(***************************************************************************)
(* A call that fails: the transaction is rolled back, but the call of      *)
(* player_clear_action_state is scheduled outside of it.                   *)
(***************************************************************************)
CraftRefused(p) ==
    /\ clears' = clears \cup {p}
    /\ UNCHANGED <<materials, products, craftTables, passiveTables, craftAction, nextCraft,
                   wasted, worked, hasty>>

PlayerClearActionState(p) ==
    /\ p \in clears
    /\ clears' = clears \ {p}
    /\ craftAction' = [craftAction EXCEPT ![p].type = "None"]
    /\ UNCHANGED <<materials, products, craftTables, passiveTables, nextCraft, wasted, worked,
                   hasty>>

\* time passes: an action is due, the oldest lock expires
ActionIsDue(p) ==
    /\ craftAction[p].type = "Craft" /\ ~craftAction[p].due
    /\ craftAction' = [craftAction EXCEPT ![p].due = TRUE]
    /\ UNCHANGED <<materials, products, craftTables, passiveTables, clears, nextCraft, wasted,
                   worked, hasty>>

LockExpires ==
    /\ \E id \in DOMAIN progressiveAction \ expired :
         /\ \A other \in DOMAIN progressiveAction \ expired : <<other, id>> \notin lockOrder
         /\ expired' = expired \cup {id}
    /\ UNCHANGED <<materials, products, progressiveAction, publicActions, lockOrder,
                   passiveTables, craftAction, clears, nextCraft, wasted, worked, hasty>>

-----------------------------------------------------------------------------
(***************************************************************************)
(* craft_cancel, craft_collect, craft_collect_all, craft_set_public.       *)
(***************************************************************************)
RemoveCrafts(ids) ==
    /\ progressiveAction' = [i \in DOMAIN progressiveAction \ ids |-> progressiveAction[i]]
    /\ publicActions' = publicActions \ ids
    /\ lockOrder' = {pair \in lockOrder : {pair[1], pair[2]} \cap ids = {}}
    /\ expired' = expired \ ids

Unfinished(a) == a.count - CompletedCrafts(a) - RefundedCrafts(a)

CraftCancel(p, id) ==
    LET a == progressiveAction[id] IN
    /\ a.owner = p
    /\ products' = [products EXCEPT ![p] = @ + CompletedCrafts(a)]
    /\ materials' = [materials EXCEPT ![p] = @ + RefundedCrafts(a)]
    /\ wasted' = wasted + Unfinished(a)
    /\ RemoveCrafts({id})
    /\ UNCHANGED <<passiveTables, craftAction, clears, nextCraft, worked, hasty>>

CountOf(ids) == SumFunction([id \in ids |-> progressiveAction[id].count])

Collected(p, ids) ==
    /\ products' = [products EXCEPT ![p] = @ + CountOf(ids)]
    /\ RemoveCrafts(ids)
    /\ UNCHANGED <<materials, passiveTables, craftAction, clears, nextCraft, wasted, worked, hasty>>

CraftCollect(p, id) ==
    /\ progressiveAction[id].owner = p
    /\ Status(id) = "Completed"
    /\ Collected(p, {id})

CraftCollectAll(p, b) ==
    LET done == {id \in CraftsOf(p, b) : Status(id) = "Completed"}
    IN done # {} /\ Collected(p, done)

CraftSetPublic(p, id, public) ==
    /\ progressiveAction[id].owner = p
    /\ public => id \notin publicActions
    /\ publicActions' = IF public THEN publicActions \cup {id} ELSE publicActions \ {id}
    /\ UNCHANGED <<materials, products, progressiveAction, lockOrder, expired, passiveTables,
                   craftAction, clears, nextCraft, wasted, worked, hasty>>

-----------------------------------------------------------------------------
(***************************************************************************)
(* passive_craft_queue: into the first free slot, or the queue.  Slots for *)
(* items and for cargo are counted apart, but numbered together.           *)
(***************************************************************************)
PassiveIn(b) == {id \in DOMAIN passiveCraft : passiveCraft[id].building = b}
RefiningSlots(cargo) == IF cargo THEN CargoSlots ELSE ItemSlots
SlotsInUse(b) == {passiveCraft[id].slot : id \in PassiveIn(b)} \ {NoSlot}
FreeSlots(b, cargo) == 0 .. RefiningSlots(cargo) - 1 \ SlotsInUse(b)

PassiveCraftQueue(p, b, cargo) ==
    LET id == nextCraft
        free == FreeSlots(b, cargo)
        craft == [owner |-> p, building |-> b, cargo |-> cargo,
                  status |-> IF free = {} THEN "Queued" ELSE "Processing",
                  slot |-> IF free = {} THEN NoSlot ELSE Min(free)]
    IN /\ nextCraft \in CraftIds
       /\ Cardinality({i \in PassiveIn(b) : passiveCraft[i].owner = p}) < ConcurrentCrafts
       /\ RefiningSlots(cargo) > 0
       /\ materials[p] >= 1
       /\ materials' = [materials EXCEPT ![p] = @ - 1]
       /\ passiveCraft' = With(passiveCraft, id, craft)
       /\ passiveTimers' = IF free = {} THEN passiveTimers ELSE passiveTimers \cup {id}
       /\ nextCraft' = nextCraft + 1
       /\ UNCHANGED <<products, craftTables, craftAction, clears, wasted, worked, hasty>>

(***************************************************************************)
(* process_oldest_queued, over the rows that are left: the slot goes to    *)
(* the oldest craft of the queue, which starts a timer of its own.         *)
(***************************************************************************)
\* mutant of ProcessOldestQueued: the timer is not started
ProcessWithoutTimer(crafts, timers, b, slot) ==
    LET queued == {id \in DOMAIN crafts : crafts[id].building = b /\ crafts[id].status = "Queued"}
    IN /\ passiveCraft' = IF queued = {} THEN crafts
                          ELSE [crafts EXCEPT ![Min(queued)].status = "Processing",
                                              ![Min(queued)].slot = slot]
       /\ passiveTimers' = timers
ProcessOldestQueued(crafts, timers, b, slot) ==
    LET queued == {id \in DOMAIN crafts : crafts[id].building = b /\ crafts[id].status = "Queued"}
        oldest == Min(queued)
    IN IF queued = {}
       THEN passiveCraft' = crafts /\ passiveTimers' = timers
       ELSE /\ passiveCraft' = [crafts EXCEPT ![oldest].status = "Processing",
                                              ![oldest].slot = slot]
            /\ passiveTimers' = timers \cup {oldest}

(***************************************************************************)
(* passive_craft_process: the timer.  Its craft may be gone; if it has     *)
(* lost its slot, the reducer fails.                                       *)
(***************************************************************************)
PassiveCraftProcess(id) ==
    /\ id \in passiveTimers
    /\ LET timers == passiveTimers \ {id} IN
       IF id \in DOMAIN passiveCraft /\ passiveCraft[id].slot # NoSlot
       THEN ProcessOldestQueued(
              [passiveCraft EXCEPT ![id].status = "Complete", ![id].slot = NoSlot],
              timers, passiveCraft[id].building, passiveCraft[id].slot)
       ELSE passiveTimers' = timers /\ UNCHANGED passiveCraft
    /\ UNCHANGED <<materials, products, craftTables, craftAction, clears, nextCraft, wasted,
                   worked, hasty>>

PassiveCraftCancel(p, id) ==
    LET craft == passiveCraft[id] IN
    /\ craft.owner = p
    /\ materials' = [materials EXCEPT ![p] = @ + 1]
    /\ IF craft.slot = NoSlot
       THEN passiveCraft' = Without(passiveCraft, id) /\ UNCHANGED passiveTimers
       ELSE ProcessOldestQueued(Without(passiveCraft, id), passiveTimers, craft.building, craft.slot)
    /\ UNCHANGED <<products, craftTables, craftAction, clears, nextCraft, wasted, worked, hasty>>

(***************************************************************************)
(* passive_craft_collect does not ask whether the craft is complete;       *)
(* passive_craft_collect_all takes those that are.                         *)
(***************************************************************************)
PassiveCollected(p, ids) ==
    /\ products' = [products EXCEPT ![p] = @ + Cardinality(ids)]
    /\ passiveCraft' = [i \in DOMAIN passiveCraft \ ids |-> passiveCraft[i]]
    /\ hasty' = hasty \cup {passiveCraft[id].building : id \in
                              {i \in ids : passiveCraft[i].status = "Processing"}}
    /\ UNCHANGED <<materials, craftTables, passiveTimers, craftAction, clears, nextCraft, wasted,
                   worked>>

PassiveCraftCollect(p, id) ==
    /\ passiveCraft[id].owner = p
    /\ PassiveCollected(p, {id})

PassiveCraftCollectAll(p, b) ==
    PassiveCollected(p, {id \in PassiveIn(b) :
        passiveCraft[id].owner = p /\ passiveCraft[id].status = "Complete"})

\* admin_complete_all_passive_crafts
CompleteAllPassiveCrafts ==
    /\ passiveCraft' = [id \in DOMAIN passiveCraft |->
                          [passiveCraft[id] EXCEPT !.status = "Complete", !.slot = NoSlot]]
    /\ UNCHANGED <<materials, products, craftTables, passiveTimers, craftAction, clears,
                   nextCraft, wasted, worked, hasty>>

-----------------------------------------------------------------------------
(***************************************************************************)
(* The building is deleted: generate_lost_items_for_building keeps for     *)
(* every owner what is done and what was not begun.                        *)
(***************************************************************************)
LostProducts(p, b) ==
    SumFunction([id \in CraftsOf(p, b) |-> CompletedCrafts(progressiveAction[id])])
      + Cardinality({id \in PassiveIn(b) :
          passiveCraft[id].owner = p /\ passiveCraft[id].status = "Complete"})

LostMaterials(p, b) ==
    SumFunction([id \in CraftsOf(p, b) |-> RefundedCrafts(progressiveAction[id])])
      + Cardinality({id \in PassiveIn(b) :
          passiveCraft[id].owner = p /\ passiveCraft[id].status # "Complete"})

DeleteWorkshop(b) ==
    /\ products' = [p \in Crafters |-> products[p] + LostProducts(p, b)]
    /\ materials' = [p \in Crafters |-> materials[p] + LostMaterials(p, b)]
    /\ wasted' = wasted + SumFunction([id \in CraftsIn(b) |-> Unfinished(progressiveAction[id])])
    /\ RemoveCrafts(CraftsIn(b))
    /\ passiveCraft' = [id \in DOMAIN passiveCraft \ PassiveIn(b) |-> passiveCraft[id]]
    /\ UNCHANGED <<passiveTimers, craftAction, clears, nextCraft, worked, hasty>>

-----------------------------------------------------------------------------
ActiveStep ==
    \/ \E p \in Crafters, b \in Workshops :
         \/ \E count \in CraftCounts, public \in BOOLEAN : CraftInitiateStart(p, b, count, public)
         \/ \E public \in BOOLEAN : CraftInitiate(p, b, public)
         \/ CraftCollectAll(p, b)
    \/ \E p \in Crafters, id \in DOMAIN progressiveAction :
         \/ CraftContinueStart(p, id) \/ CraftContinue(p, id)
         \/ CraftCancel(p, id) \/ CraftCollect(p, id)
         \/ \E public \in BOOLEAN : CraftSetPublic(p, id, public)
    \/ \E p \in Crafters : CraftRefused(p) \/ PlayerClearActionState(p) \/ ActionIsDue(p)
    \/ LockExpires

PassiveStep ==
    \/ \E p \in Crafters, b \in Workshops :
         PassiveCraftCollectAll(p, b) \/ \E cargo \in BOOLEAN : PassiveCraftQueue(p, b, cargo)
    \/ \E p \in Crafters, id \in DOMAIN passiveCraft :
         PassiveCraftCancel(p, id) \/ PassiveCraftCollect(p, id)
    \/ \E id \in passiveTimers : PassiveCraftProcess(id)
    \/ CompleteAllPassiveCrafts

WorkshopIsLost == \E b \in Workshops : DeleteWorkshop(b)

ActiveNext == UNCHANGED unskilled /\ (ActiveStep \/ WorkshopIsLost)
PassiveNext == UNCHANGED unskilled /\ (PassiveStep \/ WorkshopIsLost)

-----------------------------------------------------------------------------
(***************************************************************************)
(* Every unit of material is with a player, in a craft, has become a unit  *)
(* of product, or was in the work of a craft given up half done: whoever   *)
(* works, cancels and collects, and whatever becomes of the building.      *)
(***************************************************************************)
UnitsAreKept ==
    SumFunction(materials) + SumFunction(products) + CountOf(DOMAIN progressiveAction)
        + Cardinality(DOMAIN passiveCraft) + wasted
      = MaterialsAtFirst * Cardinality(Crafters)

(***************************************************************************)
(* Nothing is crafted without the work it takes: no craft has more         *)
(* progress than its count asks for, and the work done covers what is in   *)
(* the crafts (craft.rs, craft_collect.rs).                                *)
(***************************************************************************)
WorkIsNeeded ==
    /\ \A id \in DOMAIN progressiveAction :
         progressiveAction[id].progress <= progressiveAction[id].count * ActionsRequired
    /\ SumFunction([id \in DOMAIN progressiveAction |-> progressiveAction[id].progress]) <= worked

(***************************************************************************)
(* A passive craft that is processed has a slot of its own and a timer     *)
(* that will finish it; one in the queue has neither (passive_craft_queue, *)
(* process_oldest_queued).                                                 *)
(***************************************************************************)
ProcessedWillFinish ==
    \A id \in DOMAIN passiveCraft :
        LET craft == passiveCraft[id] IN
        /\ craft.status = "Processing" <=> craft.slot # NoSlot
        /\ craft.status = "Processing" => id \in passiveTimers
        /\ \A other \in PassiveIn(craft.building) \ {id} :
             craft.slot # NoSlot => passiveCraft[other].slot # craft.slot

(***************************************************************************)
(* The queue moves: a craft waits only where another one is processed and  *)
(* will hand on its slot, unless an unfinished craft was collected there.  *)
(***************************************************************************)
QueueMoves ==
    \A id \in DOMAIN passiveCraft :
        LET b == passiveCraft[id].building IN
        passiveCraft[id].status = "Queued" /\ b \notin hasty =>
            \E other \in PassiveIn(b) : passiveCraft[other].status = "Processing"

(***************************************************************************)
(* What is public is there to be worked at (craft_cancel, collect_output). *)
(***************************************************************************)
PublicCraftsExist == publicActions \subseteq DOMAIN progressiveAction

CraftsInOrder ==
    /\ CraftingTypeOK
    /\ UnitsAreKept /\ WorkIsNeeded /\ ProcessedWillFinish /\ QueueMoves /\ PublicCraftsExist

=============================================================================
