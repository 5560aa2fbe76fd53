----------------------------- MODULE LandProofs -----------------------------
(***************************************************************************)
(* Proofs about the land and what is on it, for every number of crafters,  *)
(* workshops, slots and crafts, and for every recipe.                      *)
(***************************************************************************)
EXTENDS MCLand, SequenceTheorems, FiniteSetTheorems, WellFoundedInduction, TLAPS

-----------------------------------------------------------------------------
(***************************************************************************)
(* Sums over finite tables, by the lemmas about folds that add             *)
(***************************************************************************)
Adding(a, b) == a + b
Picked(s) == CHOOSE x \in s : TRUE

Sums == INSTANCE FoldLemmas WITH Op <- Adding, Chosen <- Picked

LEMMA PickedIsMember == ASSUME NEW s, s # {} PROVE Picked(s) \in s
BY DEF Picked

LEMMA SameFinite == \A S : Sums!IsFiniteSet(S) <=> IsFiniteSet(S)
BY DEF IsFiniteSet, Sums!IsFiniteSet

LEMMA SameCardinality == \A S : Sums!Cardinality(S) = Cardinality(S)
BY DEF Cardinality, Sums!Cardinality

LEMMA PlusSums == Sums!Summing
BY PickedIsMember DEF Sums!Summing, Adding

LEMMA SumIsFold ==
    ASSUME NEW f, NEW T, DOMAIN f = T
    PROVE  SumFunction(f) = Sums!Sum(f, T)
BY DEF SumFunction, SumFunctionOnSet, FoldFunctionOnSet, MapThenFoldSet, Sums!Folding,
   Sums!Recursion, Sums!Sum, Adding, Picked

LEMMA TotalIsInteger ==
    ASSUME NEW T, IsFiniteSet(T), NEW f \in [T -> Int]
    PROVE  SumFunction(f) \in Int
BY SumIsFold, SameFinite, PlusSums, Sums!SumIsInteger

LEMMA TotalIsNatural ==
    ASSUME NEW T, IsFiniteSet(T), NEW f \in [T -> Nat]
    PROVE  SumFunction(f) \in Nat
BY SumIsFold, SameFinite, PlusSums, Sums!SumIsNatural

LEMMA TotalOfChanged ==
    ASSUME NEW T, IsFiniteSet(T), NEW f \in [T -> Int], NEW x \in T, NEW n \in Int
    PROVE  SumFunction([f EXCEPT ![x] = n]) = SumFunction(f) - f[x] + n
<1> DEFINE h == [f EXCEPT ![x] = n]
<1>1. DOMAIN h = T /\ h[x] = n /\ \A y \in T \ {x} : h[y] = f[y]
  OBVIOUS
<1>2. \A y \in T : f[y] \in Int /\ h[y] \in Int
  OBVIOUS
<1> HIDE DEF h
<1>3. Sums!Sum(h, T) = Sums!Sum(f, T) - f[x] + h[x]
  BY <1>1, <1>2, SameFinite, PlusSums, Sums!SumUpdated
<1>4. SumFunction(h) = SumFunction(f) - f[x] + n
  BY <1>1, <1>3, SumIsFold
<1> QED BY <1>4 DEF h

LEMMA TotalWithNew ==
    ASSUME NEW T, IsFiniteSet(T), NEW f \in [T -> Int], NEW x, x \notin T,
           NEW g \in [T \cup {x} -> Int], \A y \in T : g[y] = f[y]
    PROVE  SumFunction(g) = SumFunction(f) + g[x]
<1>1. \A y \in T : f[y] \in Int /\ g[y] = f[y]
  OBVIOUS
<1>2. g[x] \in Int /\ DOMAIN g = T \cup {x} /\ DOMAIN f = T
  OBVIOUS
<1>3. Sums!Sum(g, T \cup {x}) = Sums!Sum(f, T) + g[x]
  BY <1>1, <1>2, SameFinite, PlusSums, Sums!SumWithNew
<1> QED BY <1>2, <1>3, SumIsFold

LEMMA TotalIsSplit ==
    ASSUME NEW T, IsFiniteSet(T), NEW f \in [T -> Int], NEW U \in SUBSET T
    PROVE  SumFunction(f) = SumFunction([x \in U |-> f[x]]) + SumFunction([x \in T \ U |-> f[x]])
<1> DEFINE g == [x \in U |-> f[x]]
           h == [x \in T \ U |-> f[x]]
<1>1. IsFiniteSet(U) /\ IsFiniteSet(T \ U)
  BY FS_Subset
<1>2. /\ DOMAIN f = T /\ DOMAIN g = U /\ DOMAIN h = T \ U
      /\ \A x \in T : f[x] \in Int
      /\ \A x \in U : f[x] \in Int /\ g[x] = f[x]
      /\ \A x \in T \ U : f[x] \in Int /\ h[x] = f[x]
  OBVIOUS
<1> HIDE DEF g, h
<1>3. Sums!Sum(f, T) = Sums!Sum(f, U) + Sums!Sum(f, T \ U)
  BY <1>2, SameFinite, PlusSums, Sums!SumSplit
<1>4. Sums!Sum(g, U) = Sums!Sum(f, U) /\ Sums!Sum(h, T \ U) = Sums!Sum(f, T \ U)
  BY <1>1, <1>2, SameFinite, PlusSums, Sums!SumDependsOnTerms
<1>5. SumFunction(f) = SumFunction(g) + SumFunction(h)
  BY <1>2, <1>3, <1>4, SumIsFold
<1> QED BY <1>5 DEF g, h

LEMMA TotalIsAdded ==
    ASSUME NEW T, IsFiniteSet(T), NEW f \in [T -> Int], NEW g \in [T -> Int],
           NEW h \in [T -> Int], \A x \in T : h[x] = f[x] + g[x]
    PROVE  SumFunction(h) = SumFunction(f) + SumFunction(g)
<1>1. /\ \A x \in T : h[x] \in Int /\ g[x] \in Int
      /\ \A x \in T : f[x] = h[x] - g[x]
      /\ \A x \in T \ T : f[x] = h[x]
      /\ T \in SUBSET T
  OBVIOUS
<1>2. Sums!Sum(f, T) = Sums!Sum(h, T) - Sums!Sum(g, T)
  BY <1>1, SameFinite, PlusSums, Sums!SumReduced
<1>3. DOMAIN f = T /\ DOMAIN g = T /\ DOMAIN h = T
  OBVIOUS
<1>4. SumFunction(f) = SumFunction(h) - SumFunction(g)
  BY <1>2, <1>3, SumIsFold
<1>5. SumFunction(f) \in Int /\ SumFunction(g) \in Int /\ SumFunction(h) \in Int
  BY TotalIsInteger
<1> QED BY <1>4, <1>5

LEMMA TotalOfOnes ==
    ASSUME NEW T, IsFiniteSet(T), NEW f, DOMAIN f = T, \A x \in T : f[x] = 1
    PROVE  SumFunction(f) = Cardinality(T)
<1>1. Sums!Sum(f, T) = Sums!Cardinality(T)
  BY SameFinite, PlusSums, Sums!SumOfOnes
<1> QED BY <1>1, SameCardinality, SumIsFold

LEMMA TotalOfSame ==
    ASSUME NEW T, IsFiniteSet(T), NEW n \in Int, NEW f, DOMAIN f = T, \A x \in T : f[x] = n
    PROVE  SumFunction(f) = n * Cardinality(T)
<1>1. Sums!Sum(f, T) = n * Sums!Cardinality(T)
  BY SameFinite, PlusSums, Sums!SumOfSame
<1> QED BY <1>1, SameCardinality, SumIsFold

(***************************************************************************)
(* The totals of groups add up to the total.                               *)
(***************************************************************************)
LEMMA TotalByGroup ==
    ASSUME NEW T, IsFiniteSet(T), NEW f \in [T -> Int], NEW P, IsFiniteSet(P),
           NEW kind \in [T -> P], NEW g, DOMAIN g = P,
           \A p \in P : g[p] = SumFunction([x \in {y \in T : kind[y] = p} |-> f[x]])
    PROVE  SumFunction(g) = SumFunction(f)
<1>1. ASSUME NEW p \in P
      PROVE  g[p] = Sums!Sum(f, {y \in T : kind[y] = p})
  <2> DEFINE U == {y \in T : kind[y] = p}
             h == [x \in U |-> f[x]]
  <2>1. g[p] = SumFunction(h)
    OBVIOUS
  <2>2. DOMAIN h = U /\ \A x \in U : f[x] \in Int /\ h[x] = f[x]
    OBVIOUS
  <2>3. U \in SUBSET T
    OBVIOUS
  <2> HIDE DEF h, U
  <2>4. IsFiniteSet(U)
    BY <2>3, FS_Subset
  <2>5. Sums!Sum(h, U) = Sums!Sum(f, U)
    BY <2>2, <2>4, SameFinite, PlusSums, Sums!SumDependsOnTerms
  <2>6. g[p] = Sums!Sum(f, U)
    BY <2>1, <2>2, <2>5, SumIsFold
  <2> QED BY <2>6 DEF U
<1>2. \A x \in T : f[x] \in Int /\ kind[x] \in P
  OBVIOUS
<1>3. Sums!Sum(g, P) = Sums!Sum(f, T)
  BY <1>1, <1>2, SameFinite, PlusSums, Sums!SumByGroup
<1>4. DOMAIN f = T
  OBVIOUS
<1> QED BY <1>3, <1>4, SumIsFold

-----------------------------------------------------------------------------
(***************************************************************************)
(* Crafting.  The inductive invariant adds that both tables hold ids that  *)
(* were given out, and that what the ghosts count are numbers.             *)
(***************************************************************************)
ActiveTable ==
    /\ progressiveAction \in [DOMAIN progressiveAction -> ProgressiveActions]
    /\ DOMAIN progressiveAction \subseteq 1 .. nextCraft - 1
    /\ publicActions \subseteq DOMAIN progressiveAction
    /\ \A id \in DOMAIN progressiveAction :
         progressiveAction[id].progress <= progressiveAction[id].count * ActionsRequired

Beside(rows, id) == {other \in DOMAIN rows \ {id} : rows[other].building = rows[id].building}

SlotsAreOwn(rows, timers) ==
    \A id \in DOMAIN rows :
        /\ rows[id].status = "Processing" <=> rows[id].slot # NoSlot
        /\ rows[id].status = "Processing" => id \in timers
        /\ rows[id].slot # NoSlot => \A other \in Beside(rows, id) : rows[other].slot # rows[id].slot

SomeoneIsServed(rows, buildings) ==
    \A id \in DOMAIN rows :
        rows[id].status = "Queued" /\ rows[id].building \notin buildings =>
            \E other \in Beside(rows, id) : rows[other].status = "Processing"

PassiveTable ==
    /\ passiveCraft \in [DOMAIN passiveCraft -> PassiveCrafts]
    /\ DOMAIN passiveCraft \subseteq 1 .. nextCraft - 1
    /\ SlotsAreOwn(passiveCraft, passiveTimers) /\ SomeoneIsServed(passiveCraft, hasty)

Holdings ==
    /\ materials \in [Crafters -> Nat] /\ products \in [Crafters -> Nat]
    /\ nextCraft \in 1 .. MaxCrafts + 1
    /\ wasted \in Int /\ worked \in Nat
    /\ clears \subseteq Crafters /\ hasty \subseteq Workshops

WorkOf(rows) == SumFunction([id \in DOMAIN rows |-> rows[id].progress])

CraftingInv ==
    /\ Holdings /\ ActiveTable /\ LocksInOrder /\ PassiveTable
    /\ UnitsAreKept
    /\ WorkOf(progressiveAction) <= worked

LEMMA Numbers ==
    /\ IsFiniteSet(Crafters)
    /\ ActionsRequired \in Nat \ {0} /\ Powers \subseteq Nat /\ CraftCounts \subseteq Nat
    /\ ItemSlots \in Nat /\ CargoSlots \in Nat /\ MaterialsAtFirst \in Nat /\ MaxCrafts \in Nat
BY CraftingAssumption

LEMMA HoldingChanged ==
    ASSUME NEW f \in [Crafters -> Int], NEW p \in Crafters, NEW n \in Int
    PROVE  SumFunction([f EXCEPT ![p] = n]) = SumFunction(f) - f[p] + n
BY Numbers, TotalOfChanged

LEMMA CraftingInvImplies == CraftingInv => CraftsInOrder
<1> SUFFICES ASSUME CraftingInv PROVE CraftsInOrder
  OBVIOUS
<1> USE DEF CraftingInv
<1>1. nextCraft - 1 \in 0 .. MaxCrafts /\ MaxCrafts \in Nat
  BY Numbers DEF Holdings
<1>2. 1 .. nextCraft - 1 \subseteq CraftIds
  BY <1>1 DEF CraftIds
<1>3. CraftingTypeOK
  BY <1>2 DEF Holdings, ActiveTable, PassiveTable, CraftingTypeOK
<1>4. WorkIsNeeded
  BY DEF ActiveTable, WorkOf, WorkIsNeeded
<1>5. ProcessedWillFinish /\ QueueMoves
  BY DEF PassiveTable, SlotsAreOwn, SomeoneIsServed, Beside, ProcessedWillFinish, QueueMoves,
         PassiveIn
<1> QED BY <1>3, <1>4, <1>5 DEF ActiveTable, CraftsInOrder, PublicCraftsExist

(***************************************************************************)
(* Locks: the one that is renewed is the last to expire.                   *)
(***************************************************************************)
LEMMA TouchKeepsLocks ==
    ASSUME LocksInOrder, NEW id, Touch(id),
           DOMAIN progressiveAction' = DOMAIN progressiveAction \cup {id}
    PROVE  LocksInOrder'
<1> DEFINE D == DOMAIN progressiveAction
           E == DOMAIN progressiveAction'
<1>1. \A a, b : <<a, b>> \in lockOrder' <=>
          \/ <<a, b>> \in lockOrder /\ a # id /\ b # id
          \/ a \in D \ {id} /\ b = id
  <2> TAKE a, b
  <2>1. <<a, b>> \in {pair \in lockOrder : id \notin {pair[1], pair[2]}}
          <=> <<a, b>> \in lockOrder /\ a # id /\ b # id
    OBVIOUS
  <2>2. <<a, b>> \in {<<other, id>> : other \in D \ {id}} <=> a \in D \ {id} /\ b = id
    OBVIOUS
  <2> QED BY <2>1, <2>2 DEF Touch
<1>2. lockOrder' \subseteq E \X E /\ expired' \subseteq E
  BY DEF Touch, LocksInOrder
<1>3. /\ lockOrder \subseteq D \X D /\ expired \subseteq D /\ expired' = expired \ {id}
      /\ E = D \cup {id}
      /\ \A a, b \in D : /\ <<a, b>> \in lockOrder <=> a # b /\ <<b, a>> \notin lockOrder
                         /\ <<a, b>> \in lockOrder /\ b \in expired => a \in expired
      /\ \A a, b, c \in D : <<a, b>> \in lockOrder /\ <<b, c>> \in lockOrder
                             => <<a, c>> \in lockOrder
  BY DEF Touch, LocksInOrder
<1> HIDE DEF D, E
<1>4. \A a, b \in E : /\ <<a, b>> \in lockOrder' <=> a # b /\ <<b, a>> \notin lockOrder'
                      /\ <<a, b>> \in lockOrder' /\ b \in expired' => a \in expired'
  BY <1>1, <1>3
<1>5. \A a, b, c \in E : <<a, b>> \in lockOrder' /\ <<b, c>> \in lockOrder'
                          => <<a, c>> \in lockOrder'
  BY <1>1, <1>3
<1> QED BY <1>2, <1>4, <1>5 DEF LocksInOrder, E

LEMMA RemovalKeepsLocks ==
    ASSUME LocksInOrder, NEW ids, RemoveCrafts(ids)
    PROVE  LocksInOrder'
<1> DEFINE D == DOMAIN progressiveAction
<1>1. \A a, b : <<a, b>> \in lockOrder' <=> <<a, b>> \in lockOrder /\ a \notin ids /\ b \notin ids
  <2> TAKE a, b
  <2>1. {<<a, b>>[1], <<a, b>>[2]} \cap ids = {} <=> a \notin ids /\ b \notin ids
    OBVIOUS
  <2> QED BY <2>1 DEF RemoveCrafts
<1>2. DOMAIN progressiveAction' = D \ ids
  BY DEF RemoveCrafts
<1>3. lockOrder' \subseteq (D \ ids) \X (D \ ids)
  BY DEF RemoveCrafts, LocksInOrder
<1>4. expired' = expired \ ids
  BY DEF RemoveCrafts
<1> QED BY <1>1, <1>2, <1>3, <1>4 DEF LocksInOrder

LEMMA ExpiryKeepsLocks ==
    ASSUME LocksInOrder, LockExpires
    PROVE  LocksInOrder'
BY DEF LocksInOrder, LockExpires

(***************************************************************************)
(* What the tables add up to.                                              *)
(***************************************************************************)
CountsOf(rows) == [id \in DOMAIN rows |-> rows[id].count]
ProgressOf(rows) == [id \in DOMAIN rows |-> rows[id].progress]

LEMMA TablesAreFinite ==
    ASSUME CraftingInv
    PROVE  IsFiniteSet(DOMAIN progressiveAction) /\ IsFiniteSet(DOMAIN passiveCraft)
<1>1. DOMAIN progressiveAction \subseteq 1 .. nextCraft - 1
  BY DEF CraftingInv, ActiveTable
<1>2. DOMAIN passiveCraft \subseteq 1 .. nextCraft - 1
  BY DEF CraftingInv, PassiveTable
<1>3. nextCraft - 1 \in Int
  BY Numbers DEF CraftingInv, Holdings
<1> QED BY <1>1, <1>2, <1>3, FS_Interval, FS_Subset

LEMMA RowsAreTyped ==
    ASSUME CraftingInv, NEW id \in DOMAIN progressiveAction
    PROVE  /\ progressiveAction[id] \in ProgressiveActions
           /\ progressiveAction[id].owner \in Crafters
           /\ progressiveAction[id].building \in Workshops
           /\ progressiveAction[id].count \in CraftCounts
           /\ progressiveAction[id].count \in Nat
           /\ progressiveAction[id].progress \in Nat
           /\ progressiveAction[id].progress <= progressiveAction[id].count * ActionsRequired
<1>1. progressiveAction[id] \in ProgressiveActions
  BY DEF CraftingInv, ActiveTable
<1>2. progressiveAction[id].count \in CraftCounts /\ progressiveAction[id].progress \in Nat
  BY <1>1 DEF ProgressiveActions
<1>3. progressiveAction[id].progress <= progressiveAction[id].count * ActionsRequired
  BY DEF CraftingInv, ActiveTable
<1> QED BY <1>1, <1>2, <1>3, Numbers DEF ProgressiveActions

LEMMA SumsAreNumbers ==
    ASSUME CraftingInv
    PROVE  /\ SumFunction(materials) \in Nat /\ SumFunction(products) \in Nat
           /\ CountsOf(progressiveAction) \in [DOMAIN progressiveAction -> Nat]
           /\ ProgressOf(progressiveAction) \in [DOMAIN progressiveAction -> Nat]
           /\ CountOf(DOMAIN progressiveAction) \in Nat
           /\ CountOf(DOMAIN progressiveAction) = SumFunction(CountsOf(progressiveAction))
           /\ WorkOf(progressiveAction) \in Nat
           /\ WorkOf(progressiveAction) = SumFunction(ProgressOf(progressiveAction))
           /\ Cardinality(DOMAIN passiveCraft) \in Nat
           /\ MaterialsAtFirst * Cardinality(Crafters) \in Nat
<1>1. SumFunction(materials) \in Nat /\ SumFunction(products) \in Nat
  BY Numbers, TotalIsNatural DEF CraftingInv, Holdings
<1>2. /\ CountsOf(progressiveAction) \in [DOMAIN progressiveAction -> Nat]
      /\ ProgressOf(progressiveAction) \in [DOMAIN progressiveAction -> Nat]
  BY RowsAreTyped DEF CountsOf, ProgressOf
<1>3. /\ CountOf(DOMAIN progressiveAction) = SumFunction(CountsOf(progressiveAction))
      /\ WorkOf(progressiveAction) = SumFunction(ProgressOf(progressiveAction))
  BY DEF CountOf, CountsOf, WorkOf, ProgressOf
<1>4. Cardinality(Crafters) \in Nat /\ Cardinality(DOMAIN passiveCraft) \in Nat
  BY Numbers, TablesAreFinite, FS_CardinalityType
<1>5. MaterialsAtFirst * Cardinality(Crafters) \in Nat
  BY <1>4, Numbers
<1> QED BY <1>1, <1>2, <1>3, <1>4, <1>5, TablesAreFinite, TotalIsNatural

LEMMA SameCounts ==
    ASSUME DOMAIN progressiveAction' = DOMAIN progressiveAction,
           \A id \in DOMAIN progressiveAction :
               progressiveAction'[id].count = progressiveAction[id].count
    PROVE  CountOf(DOMAIN progressiveAction)' = CountOf(DOMAIN progressiveAction)
BY DEF CountOf

(***************************************************************************)
(* Steps that leave one side alone.                                        *)
(***************************************************************************)
LEMMA MoreIds ==
    ASSUME NEW m \in Int, NEW n \in Int, m <= n
    PROVE  1 .. m - 1 \subseteq 1 .. n - 1
OBVIOUS

LEMMA ActiveUntouched ==
    ASSUME CraftingInv, UNCHANGED craftTables, nextCraft' \in {nextCraft, nextCraft + 1}
    PROVE  /\ ActiveTable' /\ LocksInOrder'
           /\ CountOf(DOMAIN progressiveAction)' = CountOf(DOMAIN progressiveAction)
           /\ WorkOf(progressiveAction)' = WorkOf(progressiveAction)
<1>1. nextCraft \in Int
  BY Numbers DEF CraftingInv, Holdings
<1>2. 1 .. nextCraft - 1 \subseteq 1 .. nextCraft' - 1
  <2>1. nextCraft' \in Int /\ nextCraft <= nextCraft'
    BY <1>1
  <2> QED BY <1>1, <2>1, MoreIds
<1>3. ActiveTable'
  BY <1>2 DEF CraftingInv, ActiveTable, craftTables
<1>4. LocksInOrder'
  BY DEF CraftingInv, LocksInOrder, craftTables
<1> QED BY <1>3, <1>4 DEF craftTables, CountOf, WorkOf

LEMMA PassiveUntouched ==
    ASSUME CraftingInv, UNCHANGED <<passiveTables, hasty>>,
           nextCraft' \in {nextCraft, nextCraft + 1}
    PROVE  PassiveTable' /\ Cardinality(DOMAIN passiveCraft)' = Cardinality(DOMAIN passiveCraft)
<1>1. nextCraft \in Int
  BY Numbers DEF CraftingInv, Holdings
<1>2. 1 .. nextCraft - 1 \subseteq 1 .. nextCraft' - 1
  <2>1. nextCraft' \in Int /\ nextCraft <= nextCraft'
    BY <1>1
  <2> QED BY <1>1, <2>1, MoreIds
<1> QED BY <1>2 DEF CraftingInv, PassiveTable, passiveTables

(***************************************************************************)
(* Beginning a craft.                                                      *)
(***************************************************************************)
LEMMA CraftInitiateStartKeepsInv ==
    ASSUME CraftingInv, NEW p \in Crafters, NEW b \in Workshops, NEW count \in CraftCounts,
           NEW public \in BOOLEAN, CraftInitiateStart(p, b, count, public)
    PROVE  CraftingInv'
<1> DEFINE n == materials[p] - count
           row == [owner |-> p, building |-> b, count |-> count, progress |-> 0,
                   preparation |-> TRUE]
           D == DOMAIN progressiveAction
           id == nextCraft
<1>1. /\ materials' = [materials EXCEPT ![p] = n] /\ materials[p] >= count
      /\ progressiveAction' = With(progressiveAction, id, row)
      /\ publicActions' \subseteq publicActions \cup {id} /\ Touch(id)
      /\ nextCraft \in CraftIds /\ nextCraft' = nextCraft + 1
      /\ UNCHANGED <<products, passiveTables, clears, wasted, worked, hasty>>
  BY DEF CraftInitiateStart
<1>2. count \in Nat /\ n \in Nat /\ n = materials[p] - count /\ materials \in [Crafters -> Int]
  BY <1>1, Numbers DEF CraftingInv, Holdings
<1>3. row \in ProgressiveActions /\ row.count = count /\ row.progress = 0
  BY DEF ProgressiveActions
<1>4. /\ nextCraft \in Int /\ D \subseteq 1 .. nextCraft - 1 /\ id \notin D
      /\ 1 .. nextCraft' - 1 = (1 .. nextCraft - 1) \cup {id}
  BY <1>1 DEF CraftIds, CraftingInv, ActiveTable
<1> HIDE DEF n, row
<1>5. /\ DOMAIN progressiveAction' = D \cup {id} /\ progressiveAction'[id] = row
      /\ \A i \in D : progressiveAction'[i] = progressiveAction[i]
      /\ progressiveAction' = [i \in D \cup {id} |-> progressiveAction'[i]]
  BY <1>1, <1>4 DEF With
<1>6. Holdings'
  <2>1. materials' \in [Crafters -> Nat]
    BY <1>1, <1>2 DEF CraftingInv, Holdings
  <2>2. nextCraft' \in 1 .. MaxCrafts + 1
    BY <1>1, Numbers DEF CraftIds
  <2> QED BY <1>1, <2>1, <2>2 DEF CraftingInv, Holdings
<1>7. ActiveTable'
  <2>1. progressiveAction' \in [DOMAIN progressiveAction' -> ProgressiveActions]
    BY <1>3, <1>5, RowsAreTyped
  <2>2. DOMAIN progressiveAction' \subseteq 1 .. nextCraft' - 1
    BY <1>4, <1>5
  <2>3. publicActions' \subseteq DOMAIN progressiveAction'
    BY <1>1, <1>5 DEF CraftingInv, ActiveTable
  <2>4. row.progress <= row.count * ActionsRequired
    BY <1>2, <1>3, Numbers
  <2>5. \A i \in DOMAIN progressiveAction' :
          progressiveAction'[i].progress <= progressiveAction'[i].count * ActionsRequired
    BY <1>5, <2>4, RowsAreTyped
  <2> QED BY <2>1, <2>2, <2>3, <2>5 DEF ActiveTable
<1>8. LocksInOrder'
  BY <1>1, <1>5, TouchKeepsLocks DEF CraftingInv
<1>9. PassiveTable' /\ Cardinality(DOMAIN passiveCraft)' = Cardinality(DOMAIN passiveCraft)
  BY <1>1, PassiveUntouched
<1>10. /\ CountOf(DOMAIN progressiveAction)' = CountOf(DOMAIN progressiveAction) + count
       /\ WorkOf(progressiveAction)' = WorkOf(progressiveAction)
  <2> DEFINE f == CountsOf(progressiveAction)
             g == CountsOf(progressiveAction')
             u == ProgressOf(progressiveAction)
             v == ProgressOf(progressiveAction')
  <2>1. f \in [D -> Nat] /\ u \in [D -> Nat] /\ IsFiniteSet(D)
    BY SumsAreNumbers, TablesAreFinite
  <2>2. /\ g \in [D \cup {id} -> Int] /\ v \in [D \cup {id} -> Int]
        /\ (\A i \in D : g[i] = f[i]) /\ (\A i \in D : v[i] = u[i])
        /\ g[id] = count /\ v[id] = 0
    <3>1. DOMAIN g = D \cup {id} /\ DOMAIN v = D \cup {id}
      BY <1>5 DEF CountsOf, ProgressOf
    <3>2. (\A i \in D : g[i] = f[i]) /\ (\A i \in D : v[i] = u[i])
      BY <1>5 DEF CountsOf, ProgressOf
    <3>3. g[id] = count /\ v[id] = 0
      BY <1>3, <1>5 DEF CountsOf, ProgressOf
    <3>4. g = [i \in D \cup {id} |-> g[i]] /\ v = [i \in D \cup {id} |-> v[i]]
      BY <1>5 DEF CountsOf, ProgressOf
    <3> HIDE DEF f, g, u, v
    <3> QED BY <1>2, <2>1, <3>1, <3>2, <3>3, <3>4
  <2>3. f \in [D -> Int] /\ u \in [D -> Int]
    BY <2>1
  <2> HIDE DEF f, g, u, v
  <2>4. SumFunction(g) = SumFunction(f) + g[id]
    BY <1>4, <2>1, <2>2, <2>3, TotalWithNew
  <2>5. SumFunction(v) = SumFunction(u) + v[id]
    BY <1>4, <2>1, <2>2, <2>3, TotalWithNew
  <2>6. /\ CountOf(DOMAIN progressiveAction)' = SumFunction(g)
        /\ WorkOf(progressiveAction)' = SumFunction(v)
    BY DEF CountOf, WorkOf, g, v, CountsOf, ProgressOf
  <2>7. /\ CountOf(DOMAIN progressiveAction) = SumFunction(f)
        /\ WorkOf(progressiveAction) = SumFunction(u) /\ WorkOf(progressiveAction) \in Nat
    BY SumsAreNumbers DEF f, u
  <2> QED BY <2>2, <2>4, <2>5, <2>6, <2>7
<1>11. SumFunction(materials)' = SumFunction(materials) - count
  <2>1. SumFunction([materials EXCEPT ![p] = n]) = SumFunction(materials) - materials[p] + n
    <3>1. n \in Int
      BY <1>2
    <3> QED BY <1>2, <3>1, HoldingChanged
  <2>2. SumFunction(materials) \in Nat /\ materials[p] \in Int
    BY <1>2, SumsAreNumbers
  <2> QED BY <1>1, <1>2, <2>1, <2>2
<1>12. UnitsAreKept'
  BY <1>1, <1>2, <1>9, <1>10, <1>11, SumsAreNumbers DEF CraftingInv, Holdings, UnitsAreKept
<1>13. (WorkOf(progressiveAction) <= worked)'
  BY <1>1, <1>10 DEF CraftingInv
<1> QED BY <1>6, <1>7, <1>8, <1>9, <1>12, <1>13 DEF CraftingInv

(***************************************************************************)
(* Working at a craft: its count stays, its progress is bounded by it.     *)
(***************************************************************************)
LEMMA RevisedRow ==
    ASSUME CraftingInv, NEW id \in DOMAIN progressiveAction, Touch(id),
           progressiveAction' = [i \in DOMAIN progressiveAction |-> progressiveAction'[i]],
           \A i \in DOMAIN progressiveAction \ {id} : progressiveAction'[i] = progressiveAction[i],
           progressiveAction'[id] \in ProgressiveActions,
           progressiveAction'[id].count = progressiveAction[id].count,
           progressiveAction'[id].progress <= progressiveAction[id].count * ActionsRequired,
           publicActions' \subseteq publicActions \cup {id}, nextCraft' = nextCraft
    PROVE  /\ ActiveTable' /\ LocksInOrder'
           /\ CountOf(DOMAIN progressiveAction)' = CountOf(DOMAIN progressiveAction)
           /\ WorkOf(progressiveAction)' = WorkOf(progressiveAction)
                - progressiveAction[id].progress + progressiveAction'[id].progress
<1> DEFINE D == DOMAIN progressiveAction
<1>1. DOMAIN progressiveAction' = D /\ D = D \cup {id}
  OBVIOUS
<1>2. ActiveTable'
  <2>1. progressiveAction' \in [D -> ProgressiveActions]
    BY RowsAreTyped
  <2>2. \A i \in D : progressiveAction'[i].progress <= progressiveAction'[i].count * ActionsRequired
    BY RowsAreTyped
  <2> QED BY <1>1, <2>1, <2>2 DEF CraftingInv, ActiveTable
<1>3. LocksInOrder'
  BY <1>1, TouchKeepsLocks DEF CraftingInv
<1>4. CountOf(DOMAIN progressiveAction)' = CountOf(DOMAIN progressiveAction)
  BY <1>1, SameCounts
<1>5. WorkOf(progressiveAction)' = WorkOf(progressiveAction)
         - progressiveAction[id].progress + progressiveAction'[id].progress
  <2> DEFINE u == ProgressOf(progressiveAction)
             v == ProgressOf(progressiveAction')
             m == progressiveAction'[id].progress
  <2>1. u \in [D -> Nat] /\ IsFiniteSet(D)
    BY SumsAreNumbers, TablesAreFinite
  <2>2. u[id] = progressiveAction[id].progress /\ m \in Nat
    BY DEF ProgressOf, ProgressiveActions
  <2>3. v = [u EXCEPT ![id] = m]
    BY <1>1 DEF ProgressOf
  <2>4. WorkOf(progressiveAction) = SumFunction(u) /\ WorkOf(progressiveAction)' = SumFunction(v)
    BY DEF WorkOf, ProgressOf
  <2> HIDE DEF u, v, m
  <2>5. u \in [D -> Int] /\ m \in Int
    BY <2>1, <2>2
  <2>6. \A x \in D, n \in Int : SumFunction([u EXCEPT ![x] = n]) = SumFunction(u) - u[x] + n
    BY <2>1, <2>5, TotalOfChanged
  <2>7. SumFunction(v) = SumFunction(u) - u[id] + m
    BY <2>3, <2>5, <2>6
  <2> QED BY <2>2, <2>4, <2>7 DEF m
<1> QED BY <1>2, <1>3, <1>4, <1>5

LEMMA CraftContinueStartKeepsInv ==
    ASSUME CraftingInv, NEW p \in Crafters, NEW id \in DOMAIN progressiveAction,
           CraftContinueStart(p, id)
    PROVE  CraftingInv'
<1>1. /\ progressiveAction' = [progressiveAction EXCEPT ![id].preparation = TRUE] /\ Touch(id)
      /\ UNCHANGED <<materials, products, publicActions, passiveTables, clears, nextCraft,
                     wasted, worked, hasty>>
  BY DEF CraftContinueStart
<1>2. /\ progressiveAction' = [i \in DOMAIN progressiveAction |-> progressiveAction'[i]]
      /\ \A i \in DOMAIN progressiveAction \ {id} : progressiveAction'[i] = progressiveAction[i]
      /\ progressiveAction'[id] = [progressiveAction[id] EXCEPT !.preparation = TRUE]
  BY <1>1, RowsAreTyped DEF CraftingInv, ActiveTable
<1>3. /\ progressiveAction'[id] \in ProgressiveActions
      /\ progressiveAction'[id].count = progressiveAction[id].count
      /\ progressiveAction'[id].progress = progressiveAction[id].progress
  BY <1>2, RowsAreTyped DEF ProgressiveActions
<1>4. progressiveAction[id].progress <= progressiveAction[id].count * ActionsRequired
  BY RowsAreTyped
<1>5. publicActions' \subseteq publicActions \cup {id} /\ nextCraft' = nextCraft
  BY <1>1
<1>6. /\ ActiveTable' /\ LocksInOrder'
      /\ CountOf(DOMAIN progressiveAction)' = CountOf(DOMAIN progressiveAction)
      /\ WorkOf(progressiveAction)' = WorkOf(progressiveAction)
           - progressiveAction[id].progress + progressiveAction'[id].progress
  BY <1>1, <1>2, <1>3, <1>4, <1>5, RevisedRow
<1>7. WorkOf(progressiveAction)' = WorkOf(progressiveAction)
  BY <1>3, <1>6, RowsAreTyped, SumsAreNumbers
<1>8. PassiveTable' /\ Cardinality(DOMAIN passiveCraft)' = Cardinality(DOMAIN passiveCraft)
  BY <1>1, PassiveUntouched
<1>9. Holdings'
  BY <1>1 DEF CraftingInv, Holdings
<1>10. UnitsAreKept'
  BY <1>1, <1>6, <1>8 DEF CraftingInv, UnitsAreKept
<1>11. (WorkOf(progressiveAction) <= worked)'
  BY <1>1, <1>7 DEF CraftingInv
<1> QED BY <1>6, <1>8, <1>9, <1>10, <1>11 DEF CraftingInv

LEMMA WorkedKeepsInv ==
    ASSUME CraftingInv, NEW p \in Crafters, NEW id \in DOMAIN progressiveAction, Worked(p, id),
           publicActions' \subseteq publicActions \cup {id},
           UNCHANGED <<materials, products, passiveTables, clears, nextCraft, wasted, hasty>>
    PROVE  CraftingInv'
<1> DEFINE a == progressiveAction[id]
           most == a.count * ActionsRequired
<1>1. /\ a \in ProgressiveActions /\ a.count \in Nat /\ a.progress \in Nat
      /\ a.progress <= most /\ most \in Nat
  <2>1. \A n \in Nat : n * ActionsRequired \in Nat
    BY Numbers
  <2> QED BY <2>1, RowsAreTyped
<1>2. PICK m \in Nat : /\ m <= most /\ worked' = worked + (m - a.progress) /\ a.progress <= m
                       /\ progressiveAction' = [progressiveAction EXCEPT
                             ![id].progress = m, ![id].preparation = FALSE]
  <2>1. CASE p \in unskilled
    <3>1. progressiveAction' = [progressiveAction EXCEPT ![id].preparation = FALSE]
          /\ worked' = worked
      BY <2>1 DEF Worked
    <3>2. progressiveAction' = [progressiveAction EXCEPT
             ![id].progress = a.progress, ![id].preparation = FALSE]
      <4>1. [a EXCEPT !.progress = a.progress, !.preparation = FALSE]
               = [a EXCEPT !.preparation = FALSE]
        BY <1>1 DEF ProgressiveActions
      <4> HIDE DEF a
      <4> QED BY <3>1, <4>1 DEF a
    <3>3. worked' = worked + (a.progress - a.progress)
      BY <1>1, <3>1 DEF CraftingInv, Holdings
    <3> HIDE DEF a, most
    <3>4. a.progress \in Nat /\ a.progress <= a.progress /\ a.progress <= most
      BY <1>1
    <3> QED BY <3>2, <3>3, <3>4, Zenon
  <2>2. CASE p \notin unskilled
    <3> DEFINE left == most - a.progress
               done(power) == IF power < left THEN power ELSE left
    <3>1. PICK power \in Powers :
             /\ progressiveAction' = [progressiveAction EXCEPT
                   ![id].progress = @ + done(power), ![id].preparation = FALSE]
             /\ worked' = worked + done(power)
      BY <2>2 DEF Worked
    <3> DEFINE d == done(power)
               m == a.progress + d
    <3>2. power \in Nat
      BY Numbers
    <3>3. m \in Nat /\ m <= most /\ d = m - a.progress /\ a.progress <= m
      <4> HIDE DEF a, most
      <4> QED BY <1>1, <3>2
    <3>4. progressiveAction' = [progressiveAction EXCEPT ![id].progress = m, ![id].preparation = FALSE]
      BY <3>1
    <3>5. worked' = worked + d
      BY <3>1
    <3> HIDE DEF a, most, m, d
    <3> QED BY <3>3, <3>4, <3>5
  <2> QED BY <2>1, <2>2
<1>3. Touch(id)
  BY DEF Worked
<1>4. /\ progressiveAction' = [i \in DOMAIN progressiveAction |-> progressiveAction'[i]]
      /\ \A i \in DOMAIN progressiveAction \ {id} : progressiveAction'[i] = progressiveAction[i]
      /\ progressiveAction'[id] = [a EXCEPT !.progress = m, !.preparation = FALSE]
  <2> HIDE DEF most
  <2> QED BY <1>2 DEF CraftingInv, ActiveTable
<1>5. /\ progressiveAction'[id] \in ProgressiveActions
      /\ progressiveAction'[id].count = progressiveAction[id].count
      /\ progressiveAction'[id].progress = m
  <2> HIDE DEF most
  <2> QED BY <1>1, <1>4 DEF ProgressiveActions
<1>6. progressiveAction'[id].progress <= progressiveAction[id].count * ActionsRequired
  BY <1>2, <1>5
<1> HIDE DEF most
<1>7. /\ ActiveTable' /\ LocksInOrder'
      /\ CountOf(DOMAIN progressiveAction)' = CountOf(DOMAIN progressiveAction)
      /\ WorkOf(progressiveAction)' = WorkOf(progressiveAction)
           - progressiveAction[id].progress + progressiveAction'[id].progress
  BY <1>3, <1>4, <1>5, <1>6, RevisedRow
<1>8. worked \in Nat /\ WorkOf(progressiveAction) \in Nat /\ WorkOf(progressiveAction) <= worked
  BY SumsAreNumbers DEF CraftingInv, Holdings
<1>9. worked' \in Nat
  BY <1>1, <1>2, <1>8
<1>10. WorkOf(progressiveAction)' <= worked'
  <2>1. WorkOf(progressiveAction)' = WorkOf(progressiveAction) - a.progress + m
    BY <1>5, <1>7
  <2> HIDE DEF a
  <2> QED BY <1>1, <1>2, <1>8, <2>1
<1>11. PassiveTable' /\ Cardinality(DOMAIN passiveCraft)' = Cardinality(DOMAIN passiveCraft)
  BY PassiveUntouched
<1>12. Holdings'
  BY <1>9 DEF CraftingInv, Holdings
<1>13. UnitsAreKept'
  BY <1>7, <1>11 DEF CraftingInv, UnitsAreKept
<1> QED BY <1>7, <1>10, <1>11, <1>12, <1>13 DEF CraftingInv

(***************************************************************************)
(* Removing crafts: what their counts were is no longer in the table.      *)
(***************************************************************************)
LEMMA TotalOfOne ==
    ASSUME NEW x, NEW f \in [{x} -> Int]
    PROVE  SumFunction(f) = f[x]
<1>1. /\ IsFiniteSet({x}) /\ {x} \ {x} = {} /\ x \in {x}
      /\ DOMAIN f = {x} /\ \A y \in {x} : f[y] \in Int
  BY FS_Singleton
<1>2. Sums!Sum(f, {x}) = f[x] + Sums!Sum(f, {x} \ {x})
  BY <1>1, SameFinite, PlusSums, Sums!SumWithout
<1>3. Sums!Sum(f, {x} \ {x}) = 0
  BY <1>1, PlusSums, Sums!SumOfNone
<1> QED BY <1>1, <1>2, <1>3, SumIsFold

LEMMA Quotients ==
    ASSUME NEW n \in Nat, NEW d \in Nat \ {0}
    PROVE  n \div d \in Nat
OBVIOUS

LEMMA RemovedRows ==
    ASSUME CraftingInv, NEW ids \in SUBSET DOMAIN progressiveAction, RemoveCrafts(ids),
           nextCraft' = nextCraft
    PROVE  /\ ActiveTable' /\ LocksInOrder'
           /\ CountOf(ids) \in Nat /\ CountOf(DOMAIN progressiveAction)' \in Nat
           /\ CountOf(DOMAIN progressiveAction)
                = CountOf(ids) + CountOf(DOMAIN progressiveAction)'
           /\ WorkOf(progressiveAction)' \in Nat
           /\ WorkOf(progressiveAction)' <= WorkOf(progressiveAction)
<1> DEFINE D == DOMAIN progressiveAction
<1>1. /\ progressiveAction' = [i \in D \ ids |-> progressiveAction[i]]
      /\ publicActions' = publicActions \ ids
  BY DEF RemoveCrafts
<1>2. DOMAIN progressiveAction' = D \ ids /\ \A i \in D \ ids : progressiveAction'[i] = progressiveAction[i]
  BY <1>1
<1>3. ActiveTable'
  <2>1. progressiveAction' \in [D \ ids -> ProgressiveActions]
    BY <1>1, RowsAreTyped
  <2>2. \A i \in D \ ids : progressiveAction'[i].progress <= progressiveAction'[i].count * ActionsRequired
    BY <1>2, RowsAreTyped
  <2> QED BY <1>1, <1>2, <2>1, <2>2 DEF CraftingInv, ActiveTable
<1>4. LocksInOrder'
  BY RemovalKeepsLocks DEF CraftingInv
<1> DEFINE f == CountsOf(progressiveAction)
           u == ProgressOf(progressiveAction)
           f1 == [i \in ids |-> f[i]]
           f2 == [i \in D \ ids |-> f[i]]
           u1 == [i \in ids |-> u[i]]
           u2 == [i \in D \ ids |-> u[i]]
<1>5. f \in [D -> Nat] /\ u \in [D -> Nat] /\ IsFiniteSet(D)
  BY SumsAreNumbers, TablesAreFinite
<1>6. f \in [D -> Int] /\ u \in [D -> Int] /\ IsFiniteSet(ids) /\ IsFiniteSet(D \ ids)
  BY <1>5, FS_Subset
<1>7. f1 \in [ids -> Nat] /\ f2 \in [D \ ids -> Nat] /\ u1 \in [ids -> Nat] /\ u2 \in [D \ ids -> Nat]
  <2> HIDE DEF f, u
  <2> QED BY <1>5
<1>8. /\ CountOf(D) = SumFunction(f) /\ CountOf(ids) = SumFunction(f1)
      /\ CountOf(DOMAIN progressiveAction)' = SumFunction(f2)
  <2>1. [i \in ids |-> progressiveAction[i].count] = f1
    BY DEF CountsOf
  <2>2. [i \in DOMAIN progressiveAction' |-> progressiveAction'[i].count] = f2
    BY <1>2 DEF CountsOf
  <2> QED BY <2>1, <2>2, SumsAreNumbers DEF CountOf
<1>9. /\ WorkOf(progressiveAction) = SumFunction(u) /\ WorkOf(progressiveAction)' = SumFunction(u2)
  <2>1. [i \in DOMAIN progressiveAction' |-> progressiveAction'[i].progress] = u2
    BY <1>2 DEF ProgressOf
  <2> QED BY <2>1, SumsAreNumbers DEF WorkOf
<1>10. /\ SumFunction(f) = SumFunction(f1) + SumFunction(f2)
       /\ SumFunction(u) = SumFunction(u1) + SumFunction(u2)
  <2>0. ids \in SUBSET D
    OBVIOUS
  <2> HIDE DEF f, u, D
  <2>1. SumFunction(f) = SumFunction([i \in ids |-> f[i]]) + SumFunction([i \in D \ ids |-> f[i]])
    BY <1>5, <1>6, <2>0, TotalIsSplit
  <2>2. SumFunction(u) = SumFunction([i \in ids |-> u[i]]) + SumFunction([i \in D \ ids |-> u[i]])
    BY <1>5, <1>6, <2>0, TotalIsSplit
  <2> QED BY <2>1, <2>2
<1> HIDE DEF f, u, f1, f2, u1, u2
<1>11. /\ SumFunction(f1) \in Nat /\ SumFunction(f2) \in Nat
       /\ SumFunction(u1) \in Nat /\ SumFunction(u2) \in Nat
  BY <1>6, <1>7, TotalIsNatural
<1> QED BY <1>3, <1>4, <1>8, <1>9, <1>10, <1>11

LEMMA CollectedKeepsInv ==
    ASSUME CraftingInv, NEW p \in Crafters, NEW ids \in SUBSET DOMAIN progressiveAction,
           Collected(p, ids)
    PROVE  CraftingInv'
<1> DEFINE c == CountOf(ids)
           n == products[p] + c
<1>1. /\ products' = [products EXCEPT ![p] = n] /\ RemoveCrafts(ids)
      /\ UNCHANGED <<materials, passiveTables, clears, nextCraft, wasted, worked, hasty>>
  BY DEF Collected
<1>2. /\ ActiveTable' /\ LocksInOrder' /\ c \in Nat
      /\ CountOf(DOMAIN progressiveAction)' \in Nat
      /\ CountOf(DOMAIN progressiveAction) = c + CountOf(DOMAIN progressiveAction)'
      /\ WorkOf(progressiveAction)' \in Nat
      /\ WorkOf(progressiveAction)' <= WorkOf(progressiveAction)
  BY <1>1, RemovedRows
<1>3. products \in [Crafters -> Int] /\ products[p] \in Nat
  BY DEF CraftingInv, Holdings
<1> HIDE DEF c
<1>4. n \in Nat /\ n \in Int /\ n = products[p] + c
  BY <1>2, <1>3
<1> HIDE DEF n
<1>5. SumFunction(products)' = SumFunction(products) + c
  <2>1. SumFunction([products EXCEPT ![p] = n]) = SumFunction(products) - products[p] + n
    BY <1>3, <1>4, HoldingChanged
  <2>2. SumFunction(products) \in Nat
    BY SumsAreNumbers
  <2> QED BY <1>1, <1>2, <1>3, <1>4, <2>1, <2>2
<1>6. Holdings'
  <2>1. products' \in [Crafters -> Nat]
    BY <1>1, <1>4 DEF CraftingInv, Holdings
  <2> QED BY <1>1, <2>1 DEF CraftingInv, Holdings
<1>7. PassiveTable' /\ Cardinality(DOMAIN passiveCraft)' = Cardinality(DOMAIN passiveCraft)
  BY <1>1, PassiveUntouched
<1>8. UnitsAreKept'
  BY <1>1, <1>2, <1>5, <1>7, SumsAreNumbers DEF CraftingInv, Holdings, UnitsAreKept
<1>9. (WorkOf(progressiveAction) <= worked)'
  <2> QED BY <1>1, <1>2, SumsAreNumbers DEF CraftingInv, Holdings
<1> QED BY <1>2, <1>6, <1>7, <1>8, <1>9 DEF CraftingInv

LEMMA CraftCancelKeepsInv ==
    ASSUME CraftingInv, NEW p \in Crafters, NEW id \in DOMAIN progressiveAction,
           CraftCancel(p, id)
    PROVE  CraftingInv'
<1> DEFINE a == progressiveAction[id]
           c == CompletedCrafts(a)
           r == RefundedCrafts(a)
           u == Unfinished(a)
           m == products[p] + c
           n == materials[p] + r
<1>1. /\ products' = [products EXCEPT ![p] = m] /\ materials' = [materials EXCEPT ![p] = n]
      /\ wasted' = wasted + u /\ RemoveCrafts({id})
      /\ UNCHANGED <<passiveTables, clears, nextCraft, worked, hasty>>
  BY DEF CraftCancel
<1>2. /\ a.count \in Nat /\ a.progress \in Nat
      /\ a.count * ActionsRequired - a.progress \in Nat
  <2> DEFINE most == a.count * ActionsRequired
  <2>1. \A i \in Nat : i * ActionsRequired \in Nat
    BY Numbers
  <2>2. a.count \in Nat /\ a.progress \in Nat /\ a.progress <= most
    BY RowsAreTyped
  <2>3. most \in Nat
    BY <2>1, <2>2
  <2> HIDE DEF most, a
  <2>4. most - a.progress \in Nat
    BY <2>2, <2>3
  <2> QED BY <2>2, <2>4 DEF most
<1>3. c \in Nat /\ r \in Nat /\ u = a.count - c - r
  BY <1>2, Numbers, Quotients DEF CompletedCrafts, RefundedCrafts, Unfinished
<1> HIDE DEF c, r, u
<1>4. /\ materials \in [Crafters -> Int] /\ products \in [Crafters -> Int]
      /\ materials[p] \in Nat /\ products[p] \in Nat /\ wasted \in Int
  BY DEF CraftingInv, Holdings
<1>5. m \in Nat /\ n \in Nat /\ m \in Int /\ n \in Int /\ m = products[p] + c /\ n = materials[p] + r
  BY <1>3, <1>4
<1> HIDE DEF m, n
<1>6. /\ ActiveTable' /\ LocksInOrder'
      /\ CountOf(DOMAIN progressiveAction)' \in Nat
      /\ CountOf(DOMAIN progressiveAction) = CountOf({id}) + CountOf(DOMAIN progressiveAction)'
      /\ WorkOf(progressiveAction)' \in Nat
      /\ WorkOf(progressiveAction)' <= WorkOf(progressiveAction)
  BY <1>1, RemovedRows
<1>7. CountOf({id}) = a.count
  <2> DEFINE f == [i \in {id} |-> progressiveAction[i].count]
  <2>1. f \in [{id} -> Int] /\ f[id] = a.count
    BY <1>2
  <2> HIDE DEF f
  <2>2. SumFunction(f) = f[id]
    BY <2>1, TotalOfOne
  <2> QED BY <2>1, <2>2 DEF CountOf, f
<1>8. /\ SumFunction(products)' = SumFunction(products) + c
      /\ SumFunction(materials)' = SumFunction(materials) + r
  <2>1. SumFunction([products EXCEPT ![p] = m]) = SumFunction(products) - products[p] + m
    BY <1>4, <1>5, HoldingChanged
  <2>2. SumFunction([materials EXCEPT ![p] = n]) = SumFunction(materials) - materials[p] + n
    BY <1>4, <1>5, HoldingChanged
  <2>3. SumFunction(products) \in Nat /\ SumFunction(materials) \in Nat
    BY SumsAreNumbers
  <2> QED BY <1>1, <1>3, <1>4, <1>5, <2>1, <2>2, <2>3
<1>9. Holdings'
  <2>1. products' \in [Crafters -> Nat] /\ materials' \in [Crafters -> Nat]
    BY <1>1, <1>5 DEF CraftingInv, Holdings
  <2>2. wasted' \in Int
    BY <1>1, <1>2, <1>3, <1>4
  <2> QED BY <1>1, <2>1, <2>2 DEF CraftingInv, Holdings
<1>10. PassiveTable' /\ Cardinality(DOMAIN passiveCraft)' = Cardinality(DOMAIN passiveCraft)
  BY <1>1, PassiveUntouched
<1> HIDE DEF a
<1>11. UnitsAreKept'
  BY <1>1, <1>2, <1>3, <1>4, <1>6, <1>7, <1>8, <1>10, SumsAreNumbers DEF CraftingInv, UnitsAreKept
<1>12. (WorkOf(progressiveAction) <= worked)'
  BY <1>1, <1>6, SumsAreNumbers DEF CraftingInv, Holdings
<1> QED BY <1>6, <1>9, <1>10, <1>11, <1>12 DEF CraftingInv

(***************************************************************************)
(* What is in a building is handed out to its owners: each gets his share, *)
(* and the shares add up.                                                  *)
(***************************************************************************)
LEMMA CountByGroup ==
    ASSUME NEW T, IsFiniteSet(T), NEW P, IsFiniteSet(P), NEW kind \in [T -> P],
           NEW g, DOMAIN g = P, \A p \in P : g[p] = Cardinality({x \in T : kind[x] = p})
    PROVE  SumFunction(g) = Cardinality(T)
<1> DEFINE f == [x \in T |-> 1]
<1>1. f \in [T -> Int] /\ DOMAIN f = T /\ \A x \in T : f[x] = 1
  OBVIOUS
<1> HIDE DEF f
<1>2. ASSUME NEW p \in P
      PROVE  g[p] = SumFunction([x \in {y \in T : kind[y] = p} |-> f[x]])
  <2> DEFINE U == {y \in T : kind[y] = p}
             h == [x \in U |-> f[x]]
  <2>1. DOMAIN h = U /\ (\A x \in U : h[x] = 1) /\ U \in SUBSET T
    BY <1>1
  <2>2. g[p] = Cardinality(U)
    OBVIOUS
  <2> HIDE DEF U, h
  <2>3. SumFunction(h) = Cardinality(U)
    BY <2>1, FS_Subset, TotalOfOnes
  <2> QED BY <2>2, <2>3 DEF U, h
<1>3. SumFunction(g) = SumFunction(f)
  BY <1>1, <1>2, TotalByGroup
<1> QED BY <1>1, <1>3, TotalOfOnes

Dealt(m, C, own, f, Q, holder) ==
    [p \in Crafters |-> m[p] + (SumFunction([x \in {y \in C : own[y] = p} |-> f[x]])
                                  + Cardinality({x \in Q : holder[x] = p}))]

LEMMA HandedOut ==
    ASSUME NEW C, IsFiniteSet(C), NEW Q, IsFiniteSet(Q), NEW f \in [C -> Nat],
           NEW own \in [C -> Crafters], NEW holder \in [Q -> Crafters],
           NEW m \in [Crafters -> Nat]
    PROVE  /\ Dealt(m, C, own, f, Q, holder) \in [Crafters -> Nat]
           /\ SumFunction(Dealt(m, C, own, f, Q, holder))
                = SumFunction(m) + (SumFunction(f) + Cardinality(Q))
           /\ SumFunction(f) \in Nat /\ Cardinality(Q) \in Nat
<1> PICK h : h = Dealt(m, C, own, f, Q, holder)
  OBVIOUS
<1> DEFINE share(p) == {y \in C : own[y] = p}
           held(p) == {x \in Q : holder[x] = p}
           g1 == [p \in Crafters |-> SumFunction([x \in share(p) |-> f[x]])]
           g2 == [p \in Crafters |-> Cardinality(held(p))]
           g == [p \in Crafters |-> g1[p] + g2[p]]
<1>1. ASSUME NEW p \in Crafters
      PROVE  g1[p] \in Nat /\ g2[p] \in Nat
  <2>1. share(p) \in SUBSET C /\ held(p) \in SUBSET Q
    OBVIOUS
  <2>2. [x \in share(p) |-> f[x]] \in [share(p) -> Nat]
    OBVIOUS
  <2>3. g1[p] = SumFunction([x \in share(p) |-> f[x]]) /\ g2[p] = Cardinality(held(p))
    OBVIOUS
  <2> HIDE DEF share, held, g1, g2
  <2>4. IsFiniteSet(share(p)) /\ IsFiniteSet(held(p))
    BY <2>1, FS_Subset
  <2>5. SumFunction([x \in share(p) |-> f[x]]) \in Nat
    BY <2>2, <2>4, TotalIsNatural
  <2> QED BY <2>3, <2>4, <2>5, FS_CardinalityType
<1>2. f \in [C -> Int]
  OBVIOUS
<1>3. SumFunction(g1) = SumFunction(f)
  <2>1. DOMAIN g1 = Crafters
    OBVIOUS
  <2>2. \A p \in Crafters : g1[p] = SumFunction([x \in {y \in C : own[y] = p} |-> f[x]])
    OBVIOUS
  <2> HIDE DEF g1
  <2> QED BY <1>2, <2>1, <2>2, Numbers, TotalByGroup
<1>4. SumFunction(g2) = Cardinality(Q)
  <2>1. DOMAIN g2 = Crafters
    OBVIOUS
  <2>2. \A p \in Crafters : g2[p] = Cardinality({x \in Q : holder[x] = p})
    OBVIOUS
  <2> HIDE DEF g2
  <2> QED BY <2>1, <2>2, Numbers, CountByGroup
<1>5. h = [p \in Crafters |-> m[p] + g[p]]
  BY DEF Dealt
<1>6. g1 \in [Crafters -> Int] /\ g2 \in [Crafters -> Int]
  <2> HIDE DEF g, share, held
  <2>1. \A p \in Crafters : g1[p] \in Int /\ g2[p] \in Int
    BY <1>1
  <2> QED BY <2>1
<1> HIDE DEF g1, g2
<1>7. g \in [Crafters -> Int] /\ (\A p \in Crafters : g[p] = g1[p] + g2[p] /\ g[p] \in Nat)
  BY <1>1, <1>6
<1> HIDE DEF g
<1>8. h \in [Crafters -> Nat] /\ h \in [Crafters -> Int] /\ m \in [Crafters -> Int]
  BY <1>5, <1>7
<1>0. \A p \in Crafters : h[p] = m[p] + g[p]
  BY <1>5
<1>9. SumFunction(g) = SumFunction(g1) + SumFunction(g2)
  BY <1>6, <1>7, Numbers, TotalIsAdded
<1>10. SumFunction(h) = SumFunction(m) + SumFunction(g)
  BY <1>0, <1>7, <1>8, Numbers, TotalIsAdded
<1>11. SumFunction(f) \in Nat /\ Cardinality(Q) \in Nat
  BY TotalIsNatural, FS_CardinalityType
<1>12. SumFunction(h) = SumFunction(m) + (SumFunction(f) + Cardinality(Q))
  BY <1>3, <1>4, <1>9, <1>10, Zenon
<1> QED BY <1>8, <1>11, <1>12, Zenon

(***************************************************************************)
(* Passive crafts.  Rows that are removed leave a queue alone if they were *)
(* not in a slot, if their building goes, or if it is known as hasty.      *)
(***************************************************************************)
LEMMA PassiveRemoved ==
    ASSUME CraftingInv, NEW ids \in SUBSET DOMAIN passiveCraft,
           passiveCraft' = [i \in DOMAIN passiveCraft \ ids |-> passiveCraft[i]],
           UNCHANGED <<passiveTimers, nextCraft>>, hasty \subseteq hasty',
           \A i \in ids : passiveCraft[i].status = "Processing" =>
               \/ passiveCraft[i].building \in hasty'
               \/ PassiveIn(passiveCraft[i].building) \subseteq ids
    PROVE  /\ PassiveTable'
           /\ Cardinality(ids) \in Nat /\ Cardinality(DOMAIN passiveCraft)' \in Nat
           /\ Cardinality(DOMAIN passiveCraft)
                = Cardinality(ids) + Cardinality(DOMAIN passiveCraft)'
<1> DEFINE D == DOMAIN passiveCraft
           E == D \ ids
<1>1. DOMAIN passiveCraft' = E /\ \A i \in E : passiveCraft'[i] = passiveCraft[i]
  OBVIOUS
<1>2. /\ passiveCraft \in [D -> PassiveCrafts] /\ D \subseteq 1 .. nextCraft - 1
      /\ SlotsAreOwn(passiveCraft, passiveTimers) /\ SomeoneIsServed(passiveCraft, hasty)
  BY DEF CraftingInv, PassiveTable
<1>3. passiveCraft' \in [E -> PassiveCrafts] /\ E \subseteq 1 .. nextCraft' - 1
  BY <1>2
<1>4. SlotsAreOwn(passiveCraft', passiveTimers')
  BY <1>1, <1>2 DEF SlotsAreOwn, Beside
<1>5. SomeoneIsServed(passiveCraft', hasty')
  <2> SUFFICES ASSUME NEW i \in E, passiveCraft[i].status = "Queued",
                      passiveCraft[i].building \notin hasty'
               PROVE  \E other \in E \ {i} : /\ passiveCraft[other].building = passiveCraft[i].building
                                             /\ passiveCraft[other].status = "Processing"
    BY <1>1 DEF SomeoneIsServed, Beside
  <2>1. PICK other \in D \ {i} : /\ passiveCraft[other].building = passiveCraft[i].building
                                 /\ passiveCraft[other].status = "Processing"
    BY <1>2 DEF SomeoneIsServed, Beside
  <2>2. i \in PassiveIn(passiveCraft[other].building)
    BY <2>1 DEF PassiveIn
  <2>3. other \notin ids
    BY <2>1, <2>2
  <2> QED BY <2>1, <2>3
<1>6. IsFiniteSet(ids) /\ IsFiniteSet(E) /\ ids \cup E = D /\ ids \cap E = {}
  BY TablesAreFinite, FS_Subset
<1> HIDE DEF E
<1>7. Cardinality(D) = Cardinality(ids) + Cardinality(E)
  <2>1. Cardinality(ids \cup E) = Cardinality(ids) + Cardinality(E) - Cardinality(ids \cap E)
    BY <1>6, FS_Union
  <2>2. Cardinality(ids \cup E) = Cardinality(D) /\ Cardinality(ids \cap E) = 0
    BY <1>6, FS_EmptySet
  <2>3. Cardinality(ids) \in Nat /\ Cardinality(E) \in Nat
    BY <1>6, FS_CardinalityType
  <2> QED BY <2>1, <2>2, <2>3
<1>8. PassiveTable'
  BY <1>1, <1>3, <1>4, <1>5 DEF PassiveTable
<1> QED BY <1>1, <1>6, <1>7, <1>8, FS_CardinalityType

(***************************************************************************)
(* A slot that is handed on goes to the oldest in the queue: there is one, *)
(* for ids are numbers.                                                    *)
(***************************************************************************)
LEMMA OldestIsQueued ==
    ASSUME NEW S \in SUBSET Nat, S # {}
    PROVE  Min(S) \in S
<1>1. PICK x \in S : \A y \in S : ~(<<y, x>> \in OpToRel(<, Nat))
  BY NatLessThanWellFounded, WFMin
<1>2. \A y \in S : ~(y < x)
  BY <1>1 DEF OpToRel
<1>3. \E n \in S : \A y \in S : n <= y
  BY <1>2
<1> QED BY <1>3, Zenon DEF Min

LEMMA SlotIsHandedOn ==
    ASSUME NEW rows, rows \in [DOMAIN rows -> PassiveCrafts],
           nextCraft \in Nat, DOMAIN rows \subseteq 1 .. nextCraft - 1,
           NEW timers, NEW b \in Workshops, NEW slot \in Nat,
           SlotsAreOwn(rows, timers), SomeoneIsServed(rows, hasty \cup {b}),
           \A id \in DOMAIN rows : rows[id].building = b => rows[id].slot # slot,
           ProcessOldestQueued(rows, timers, b, slot), UNCHANGED <<nextCraft, hasty>>
    PROVE  PassiveTable' /\ DOMAIN passiveCraft' = DOMAIN rows
<1> DEFINE queued == {id \in DOMAIN rows : rows[id].building = b /\ rows[id].status = "Queued"}
           oldest == Min(queued)
<1>1. CASE queued = {}
  <2>1. passiveCraft' = rows /\ passiveTimers' = timers
    BY <1>1 DEF ProcessOldestQueued
  <2>2. SomeoneIsServed(rows, hasty)
    BY <1>1 DEF SomeoneIsServed
  <2> QED BY <2>1, <2>2 DEF PassiveTable
<1>2. CASE queued # {}
  <2>1. /\ passiveCraft' = [rows EXCEPT ![oldest].status = "Processing", ![oldest].slot = slot]
        /\ passiveTimers' = timers \cup {oldest}
    BY <1>2 DEF ProcessOldestQueued
  <2>2. oldest \in DOMAIN rows /\ rows[oldest].building = b /\ rows[oldest].status = "Queued"
    <3>1. queued \in SUBSET Nat /\ queued \subseteq DOMAIN rows
      OBVIOUS
    <3>2. \A id \in queued : rows[id].building = b /\ rows[id].status = "Queued"
      OBVIOUS
    <3> HIDE DEF queued
    <3>3. oldest \in queued
      BY <1>2, <3>1, OldestIsQueued
    <3> QED BY <3>1, <3>2, <3>3
  <2> HIDE DEF queued, oldest
  <2> DEFINE row == [rows[oldest] EXCEPT !.status = "Processing", !.slot = slot]
  <2>3. /\ row \in PassiveCrafts /\ row.building = b /\ row.status = "Processing"
        /\ row.slot = slot /\ slot # NoSlot
    <3>1. rows[oldest] \in PassiveCrafts
      BY <2>2
    <3> HIDE DEF oldest
    <3>2. slot # NoSlot
      BY DEF NoSlot
    <3> QED BY <2>2, <3>1, <3>2 DEF PassiveCrafts
  <2>4. /\ DOMAIN passiveCraft' = DOMAIN rows /\ passiveCraft'[oldest] = row
        /\ \A id \in DOMAIN rows \ {oldest} : passiveCraft'[id] = rows[id]
        /\ passiveCraft' = [id \in DOMAIN rows |-> passiveCraft'[id]]
    BY <2>1, <2>2
  <2> HIDE DEF row
  <2>5. passiveCraft' \in [DOMAIN rows -> PassiveCrafts]
    BY <2>3, <2>4
  <2>6. SlotsAreOwn(passiveCraft', passiveTimers')
    <3> SUFFICES ASSUME NEW id \in DOMAIN rows
                 PROVE  /\ passiveCraft'[id].status = "Processing" <=> passiveCraft'[id].slot # NoSlot
                        /\ passiveCraft'[id].status = "Processing" => id \in passiveTimers'
                        /\ passiveCraft'[id].slot # NoSlot =>
                             \A other \in Beside(passiveCraft', id) :
                                 passiveCraft'[other].slot # passiveCraft'[id].slot
      BY <2>4 DEF SlotsAreOwn
    <3>1. CASE id = oldest
      BY <2>1, <2>3, <2>4, <3>1 DEF SlotsAreOwn, Beside
    <3>2. CASE id # oldest
      BY <2>1, <2>2, <2>3, <2>4, <3>2 DEF SlotsAreOwn, Beside
    <3> QED BY <3>1, <3>2
  <2>7. SomeoneIsServed(passiveCraft', hasty)
    <3> SUFFICES ASSUME NEW id \in DOMAIN rows, passiveCraft'[id].status = "Queued",
                        passiveCraft'[id].building \notin hasty
                 PROVE  \E other \in Beside(passiveCraft', id) :
                            passiveCraft'[other].status = "Processing"
      BY <2>4 DEF SomeoneIsServed
    <3>1. id # oldest /\ passiveCraft'[id] = rows[id]
      BY <2>3, <2>4
    <3>2. CASE rows[id].building = b
      BY <2>2, <2>3, <2>4, <3>1, <3>2 DEF Beside
    <3>3. CASE rows[id].building # b
      <4>1. PICK other \in Beside(rows, id) : rows[other].status = "Processing"
        BY <3>1, <3>3 DEF SomeoneIsServed
      <4>2. other # oldest
        BY <2>2, <3>3, <4>1 DEF Beside
      <4> QED BY <2>4, <3>1, <4>1, <4>2 DEF Beside
    <3> QED BY <3>2, <3>3
  <2> QED BY <2>4, <2>5, <2>6, <2>7 DEF PassiveTable
<1> QED BY <1>1, <1>2

LEMMA PassiveRowsAreTyped ==
    ASSUME CraftingInv
    PROVE  /\ passiveCraft \in [DOMAIN passiveCraft -> PassiveCrafts]
           /\ nextCraft \in Nat /\ DOMAIN passiveCraft \subseteq 1 .. nextCraft - 1
           /\ SlotsAreOwn(passiveCraft, passiveTimers) /\ SomeoneIsServed(passiveCraft, hasty)
           /\ \A id \in DOMAIN passiveCraft :
                /\ passiveCraft[id] \in PassiveCrafts
                /\ passiveCraft[id].owner \in Crafters /\ passiveCraft[id].building \in Workshops
                /\ passiveCraft[id].slot \in Nat \cup {NoSlot}
<1>1. nextCraft \in Nat
  BY Numbers DEF CraftingInv, Holdings
<1>2. passiveCraft \in [DOMAIN passiveCraft -> PassiveCrafts]
  BY DEF CraftingInv, PassiveTable
<1>3. \A id \in DOMAIN passiveCraft : passiveCraft[id] \in PassiveCrafts
  BY <1>2
<1> QED BY <1>1, <1>2, <1>3 DEF CraftingInv, PassiveTable, PassiveCrafts

LEMMA PassiveCraftProcessKeepsInv ==
    ASSUME CraftingInv, NEW id \in passiveTimers, PassiveCraftProcess(id)
    PROVE  CraftingInv'
<1>1. UNCHANGED <<materials, products, craftTables, clears, nextCraft, wasted, worked, hasty>>
  BY DEF PassiveCraftProcess
<1>2. PassiveTable' /\ DOMAIN passiveCraft' = DOMAIN passiveCraft
  <2>1. CASE id \in DOMAIN passiveCraft /\ passiveCraft[id].slot # NoSlot
    <3> DEFINE row == [passiveCraft[id] EXCEPT !.status = "Complete", !.slot = NoSlot]
               rows == [passiveCraft EXCEPT ![id].status = "Complete", ![id].slot = NoSlot]
               b == passiveCraft[id].building
               slot == passiveCraft[id].slot
               timers == passiveTimers \ {id}
    <3>1. ProcessOldestQueued(rows, timers, b, slot)
      BY <2>1 DEF PassiveCraftProcess
    <3>2. b \in Workshops /\ slot \in Nat /\ slot # NoSlot /\ NoSlot \notin Nat
      BY <2>1, PassiveRowsAreTyped DEF NoSlot
    <3>3. DOMAIN rows = DOMAIN passiveCraft /\ rows[id] = row
          /\ \A i \in DOMAIN rows \ {id} : rows[i] = passiveCraft[i]
      BY <2>1
    <3>4. row \in PassiveCrafts /\ row.status = "Complete" /\ row.slot = NoSlot /\ row.building = b
      <4>1. passiveCraft[id] \in PassiveCrafts
        BY <2>1, PassiveRowsAreTyped
      <4> QED BY <4>1 DEF PassiveCrafts
    <3>5. rows \in [DOMAIN rows -> PassiveCrafts]
      <4>1. \A i \in DOMAIN rows : rows[i] \in PassiveCrafts
        BY <3>3, <3>4, PassiveRowsAreTyped
      <4>2. rows = [i \in DOMAIN rows |-> rows[i]]
        OBVIOUS
      <4> HIDE DEF rows
      <4> QED BY <4>1, <4>2
    <3> HIDE DEF rows, row
    <3>6. \A i \in DOMAIN rows : rows[i].building = passiveCraft[i].building
      BY <3>3, <3>4
    <3>7. SlotsAreOwn(rows, timers)
      BY <3>3, <3>4, <3>6, PassiveRowsAreTyped DEF SlotsAreOwn, Beside
    <3>8. SomeoneIsServed(rows, hasty \cup {b})
      <4> SUFFICES ASSUME NEW i \in DOMAIN rows, rows[i].status = "Queued",
                          rows[i].building \notin hasty \cup {b}
                   PROVE  \E other \in Beside(rows, i) : rows[other].status = "Processing"
        BY DEF SomeoneIsServed
      <4>1. i # id /\ rows[i] = passiveCraft[i]
        BY <3>3, <3>4
      <4>2. PICK other \in Beside(passiveCraft, i) : passiveCraft[other].status = "Processing"
        BY <3>3, <4>1, PassiveRowsAreTyped DEF SomeoneIsServed
      <4>3. other # id
        BY <4>1, <4>2 DEF Beside
      <4> QED BY <3>3, <3>6, <4>2, <4>3 DEF Beside
    <3>9. \A i \in DOMAIN rows : rows[i].building = b => rows[i].slot # slot
      BY <2>1, <3>2, <3>3, <3>4, PassiveRowsAreTyped DEF SlotsAreOwn, Beside
    <3>10. nextCraft \in Nat /\ DOMAIN rows \subseteq 1 .. nextCraft - 1
      BY <3>3, PassiveRowsAreTyped
    <3> HIDE DEF timers, b, slot
    <3>11. PassiveTable' /\ DOMAIN passiveCraft' = DOMAIN rows
      BY <1>1, <3>1, <3>2, <3>5, <3>7, <3>8, <3>9, <3>10, SlotIsHandedOn
    <3> QED BY <3>3, <3>11
  <2>2. CASE ~(id \in DOMAIN passiveCraft /\ passiveCraft[id].slot # NoSlot)
    <3>1. passiveTimers' = passiveTimers \ {id} /\ passiveCraft' = passiveCraft
      BY <2>2 DEF PassiveCraftProcess
    <3>2. SlotsAreOwn(passiveCraft, passiveTimers \ {id})
      BY <2>2, PassiveRowsAreTyped DEF SlotsAreOwn
    <3> QED BY <1>1, <3>1, <3>2, PassiveRowsAreTyped DEF PassiveTable
  <2> QED BY <2>1, <2>2
<1>3. /\ ActiveTable' /\ LocksInOrder'
      /\ CountOf(DOMAIN progressiveAction)' = CountOf(DOMAIN progressiveAction)
      /\ WorkOf(progressiveAction)' = WorkOf(progressiveAction)
  BY <1>1, ActiveUntouched
<1>4. Holdings'
  BY <1>1 DEF CraftingInv, Holdings
<1>5. UnitsAreKept'
  BY <1>1, <1>2, <1>3 DEF CraftingInv, UnitsAreKept
<1>6. (WorkOf(progressiveAction) <= worked)'
  BY <1>1, <1>3 DEF CraftingInv
<1> QED BY <1>2, <1>3, <1>4, <1>5, <1>6 DEF CraftingInv

LEMMA PassiveCraftCancelKeepsInv ==
    ASSUME CraftingInv, NEW p \in Crafters, NEW id \in DOMAIN passiveCraft,
           PassiveCraftCancel(p, id)
    PROVE  CraftingInv'
<1> DEFINE D == DOMAIN passiveCraft
           rows == Without(passiveCraft, id)
           b == passiveCraft[id].building
           slot == passiveCraft[id].slot
           n == materials[p] + 1
<1>1. /\ UNCHANGED <<products, craftTables, clears, nextCraft, wasted, worked, hasty>>
      /\ materials' = [materials EXCEPT ![p] = n]
  BY DEF PassiveCraftCancel
<1>2. /\ DOMAIN rows = D \ {id} /\ rows = [i \in D \ {id} |-> passiveCraft[i]]
      /\ \A i \in D \ {id} : rows[i] = passiveCraft[i]
  BY DEF Without
<1>3. PassiveTable' /\ DOMAIN passiveCraft' = D \ {id}
  <2>1. CASE slot = NoSlot
    <3>1. passiveCraft' = [i \in D \ {id} |-> passiveCraft[i]] /\ passiveTimers' = passiveTimers
      BY <1>2, <2>1 DEF PassiveCraftCancel
    <3>2. {id} \in SUBSET D /\ hasty \subseteq hasty'
      BY <1>1
    <3>3. \A i \in {id} : passiveCraft[i].status # "Processing"
      BY <2>1, PassiveRowsAreTyped DEF SlotsAreOwn
    <3>4. PassiveTable'
      BY <1>1, <3>1, <3>2, <3>3, PassiveRemoved
    <3> QED BY <3>1, <3>4
  <2>2. CASE slot # NoSlot
    <3>1. ProcessOldestQueued(rows, passiveTimers, b, slot)
      BY <2>2 DEF PassiveCraftCancel
    <3> HIDE DEF rows
    <3>2. b \in Workshops /\ slot \in Nat
      BY <2>2, PassiveRowsAreTyped
    <3>3. rows \in [DOMAIN rows -> PassiveCrafts]
      BY <1>2, PassiveRowsAreTyped
    <3>4. SlotsAreOwn(rows, passiveTimers)
      BY <1>2, PassiveRowsAreTyped DEF SlotsAreOwn, Beside
    <3>5. SomeoneIsServed(rows, hasty \cup {b})
      <4> SUFFICES ASSUME NEW i \in D \ {id}, rows[i].status = "Queued",
                          rows[i].building \notin hasty \cup {b}
                   PROVE  \E other \in Beside(rows, i) : rows[other].status = "Processing"
        BY <1>2 DEF SomeoneIsServed
      <4>1. PICK other \in Beside(passiveCraft, i) : passiveCraft[other].status = "Processing"
        BY <1>2, PassiveRowsAreTyped DEF SomeoneIsServed
      <4>2. other # id
        BY <1>2, <4>1 DEF Beside
      <4> QED BY <1>2, <4>1, <4>2 DEF Beside
    <3>6. \A i \in DOMAIN rows : rows[i].building = b => rows[i].slot # slot
      BY <1>2, <2>2, PassiveRowsAreTyped DEF SlotsAreOwn, Beside
    <3>7. nextCraft \in Nat /\ DOMAIN rows \subseteq 1 .. nextCraft - 1
      BY <1>2, PassiveRowsAreTyped
    <3> HIDE DEF b, slot
    <3>8. PassiveTable' /\ DOMAIN passiveCraft' = DOMAIN rows
      BY <1>1, <3>1, <3>2, <3>3, <3>4, <3>5, <3>6, <3>7, SlotIsHandedOn
    <3> QED BY <1>2, <3>8
  <2> QED BY <2>1, <2>2
<1>4. /\ ActiveTable' /\ LocksInOrder'
      /\ CountOf(DOMAIN progressiveAction)' = CountOf(DOMAIN progressiveAction)
      /\ WorkOf(progressiveAction)' = WorkOf(progressiveAction)
  BY <1>1, ActiveUntouched
<1>5. materials \in [Crafters -> Int] /\ n \in Nat /\ n \in Int /\ n = materials[p] + 1
      /\ materials[p] \in Nat
  BY DEF CraftingInv, Holdings
<1> HIDE DEF n
<1>6. Holdings'
  <2>1. materials' \in [Crafters -> Nat]
    BY <1>1, <1>5 DEF CraftingInv, Holdings
  <2> QED BY <1>1, <2>1 DEF CraftingInv, Holdings
<1>7. SumFunction(materials)' = SumFunction(materials) + 1
  <2>1. SumFunction([materials EXCEPT ![p] = n]) = SumFunction(materials) - materials[p] + n
    BY <1>5, HoldingChanged
  <2>2. SumFunction(materials) \in Nat
    BY SumsAreNumbers
  <2> QED BY <1>1, <1>5, <2>1, <2>2
<1>8. Cardinality(DOMAIN passiveCraft)' = Cardinality(DOMAIN passiveCraft) - 1
  BY <1>3, TablesAreFinite, FS_RemoveElement
<1>9. UnitsAreKept'
  BY <1>1, <1>4, <1>7, <1>8, SumsAreNumbers DEF CraftingInv, Holdings, UnitsAreKept
<1>10. (WorkOf(progressiveAction) <= worked)'
  BY <1>1, <1>4 DEF CraftingInv
<1> QED BY <1>3, <1>4, <1>6, <1>9, <1>10 DEF CraftingInv

LEMMA PassiveCraftQueueKeepsInv ==
    ASSUME CraftingInv, NEW p \in Crafters, NEW b \in Workshops, NEW cargo \in BOOLEAN,
           PassiveCraftQueue(p, b, cargo)
    PROVE  CraftingInv'
<1> DEFINE D == DOMAIN passiveCraft
           id == nextCraft
           free == FreeSlots(b, cargo)
           craft == [owner |-> p, building |-> b, cargo |-> cargo,
                     status |-> IF free = {} THEN "Queued" ELSE "Processing",
                     slot |-> IF free = {} THEN NoSlot ELSE Min(free)]
           n == materials[p] - 1
<1>1. /\ materials' = [materials EXCEPT ![p] = n] /\ materials[p] >= 1
      /\ passiveCraft' = With(passiveCraft, id, craft)
      /\ passiveTimers' = IF free = {} THEN passiveTimers ELSE passiveTimers \cup {id}
      /\ RefiningSlots(cargo) > 0 /\ nextCraft \in CraftIds /\ nextCraft' = nextCraft + 1
      /\ UNCHANGED <<products, craftTables, clears, wasted, worked, hasty>>
  BY DEF PassiveCraftQueue
<1>2. materials[p] \in Nat /\ n \in Nat /\ n \in Int /\ n = materials[p] - 1
      /\ materials \in [Crafters -> Int]
  BY <1>1 DEF CraftingInv, Holdings
<1>3. /\ nextCraft \in Int /\ D \subseteq 1 .. nextCraft - 1 /\ id \notin D
      /\ 1 .. nextCraft' - 1 = (1 .. nextCraft - 1) \cup {id}
  <2>1. nextCraft \in Nat /\ nextCraft >= 1
    BY <1>1 DEF CraftIds
  <2>2. D \subseteq 1 .. nextCraft - 1
    BY PassiveRowsAreTyped
  <2> QED BY <1>1, <2>1, <2>2
<1>4. RefiningSlots(cargo) \in Nat
  BY Numbers DEF RefiningSlots
<1>5. /\ free \subseteq Nat /\ (free # {} => Min(free) \in free)
      /\ \A s \in free : \A i \in PassiveIn(b) : passiveCraft[i].slot # s
      /\ free = {} => \E i \in PassiveIn(b) : passiveCraft[i].slot = 0
  <2>1. free \in SUBSET Nat
    BY <1>4 DEF FreeSlots
  <2>2. free # {} => Min(free) \in free
    <3> HIDE DEF free
    <3> QED BY <2>1, OldestIsQueued
  <2>3. \A s \in free : \A i \in PassiveIn(b) : passiveCraft[i].slot # s
    <3>1. \A s \in free : s # NoSlot
      BY <2>1 DEF NoSlot
    <3> QED BY <3>1 DEF FreeSlots, SlotsInUse
  <2>4. free = {} => \E i \in PassiveIn(b) : passiveCraft[i].slot = 0
    <3>1. 0 \in 0 .. RefiningSlots(cargo) - 1
      BY <1>1, <1>4
    <3> QED BY <3>1 DEF FreeSlots, SlotsInUse
  <2> QED BY <2>1, <2>2, <2>3, <2>4
<1>6. /\ craft \in PassiveCrafts /\ craft.building = b
      /\ craft.status = (IF free = {} THEN "Queued" ELSE "Processing")
      /\ craft.slot = (IF free = {} THEN NoSlot ELSE Min(free))
  <2> HIDE DEF free
  <2> QED BY <1>5 DEF PassiveCrafts
<1> HIDE DEF n, craft, free
<1>7. /\ DOMAIN passiveCraft' = D \cup {id} /\ passiveCraft'[id] = craft
      /\ \A i \in D : passiveCraft'[i] = passiveCraft[i]
      /\ passiveCraft' = [i \in D \cup {id} |-> passiveCraft'[i]]
  BY <1>1, <1>3 DEF With
<1>8. PassiveTable'
  <2>1. passiveCraft' \in [DOMAIN passiveCraft' -> PassiveCrafts]
    BY <1>6, <1>7, PassiveRowsAreTyped
  <2>2. DOMAIN passiveCraft' \subseteq 1 .. nextCraft' - 1
    BY <1>3, <1>7
  <2>3. SlotsAreOwn(passiveCraft', passiveTimers')
    <3> SUFFICES ASSUME NEW i \in D \cup {id}
                 PROVE  /\ passiveCraft'[i].status = "Processing" <=> passiveCraft'[i].slot # NoSlot
                        /\ passiveCraft'[i].status = "Processing" => i \in passiveTimers'
                        /\ passiveCraft'[i].slot # NoSlot =>
                             \A other \in Beside(passiveCraft', i) :
                                 passiveCraft'[other].slot # passiveCraft'[i].slot
      BY <1>7 DEF SlotsAreOwn
    <3>1. CASE i = id
      <4>1. free # {} => Min(free) # NoSlot
        BY <1>5 DEF NoSlot
      <4>2. \A other \in Beside(passiveCraft', id) :
              other \in PassiveIn(b) /\ passiveCraft'[other] = passiveCraft[other]
        BY <1>6, <1>7 DEF Beside, PassiveIn
      <4>3. free # {} => \A other \in Beside(passiveCraft', id) :
                             passiveCraft'[other].slot # Min(free)
        BY <1>5, <4>2
      <4> QED BY <1>1, <1>6, <1>7, <3>1, <4>1, <4>3
    <3>2. CASE i \in D
      <4>1. passiveCraft'[i] = passiveCraft[i] /\ i # id
        BY <1>3, <1>7, <3>2
      <4>2. /\ passiveCraft[i].status = "Processing" <=> passiveCraft[i].slot # NoSlot
            /\ passiveCraft[i].status = "Processing" => i \in passiveTimers
            /\ passiveCraft[i].slot # NoSlot =>
                 \A other \in Beside(passiveCraft, i) : passiveCraft[other].slot # passiveCraft[i].slot
        BY <3>2, PassiveRowsAreTyped DEF SlotsAreOwn
      <4>3. i \in passiveTimers => i \in passiveTimers'
        BY <1>1
      <4>4. ASSUME passiveCraft[i].slot # NoSlot, NEW other \in Beside(passiveCraft', i)
            PROVE  passiveCraft'[other].slot # passiveCraft[i].slot
        <5>1. CASE other = id
          <6>1. i \in PassiveIn(b)
            BY <1>6, <1>7, <3>2, <4>1, <4>4, <5>1 DEF Beside, PassiveIn
          <6>2. free # {} => passiveCraft[i].slot # Min(free)
            BY <1>5, <6>1
          <6> QED BY <1>6, <1>7, <4>4, <5>1, <6>2
        <5>2. CASE other # id
          <6>1. other \in Beside(passiveCraft, i) /\ passiveCraft'[other] = passiveCraft[other]
            BY <1>7, <4>1, <4>4, <5>2 DEF Beside
          <6> QED BY <4>2, <4>4, <6>1
        <5> QED BY <5>1, <5>2
      <4> QED BY <4>1, <4>2, <4>3, <4>4
    <3> QED BY <3>1, <3>2
  <2>4. SomeoneIsServed(passiveCraft', hasty')
    <3> SUFFICES ASSUME NEW i \in D \cup {id}, passiveCraft'[i].status = "Queued",
                        passiveCraft'[i].building \notin hasty
                 PROVE  \E other \in Beside(passiveCraft', i) :
                            passiveCraft'[other].status = "Processing"
      BY <1>1, <1>7 DEF SomeoneIsServed
    <3>1. CASE i = id
      <4>1. free = {}
        BY <1>6, <1>7, <3>1
      <4>2. PICK other \in PassiveIn(b) : passiveCraft[other].slot = 0
        BY <1>5, <4>1
      <4>3. other \in D /\ other # id /\ passiveCraft[other].building = b
        BY <1>3, <4>2 DEF PassiveIn
      <4>4. passiveCraft[other].status = "Processing"
        BY <4>2, <4>3, PassiveRowsAreTyped DEF SlotsAreOwn, NoSlot
      <4> QED BY <1>6, <1>7, <3>1, <4>3, <4>4 DEF Beside
    <3>2. CASE i \in D
      <4>1. PICK other \in Beside(passiveCraft, i) : passiveCraft[other].status = "Processing"
        BY <1>7, <3>2, PassiveRowsAreTyped DEF SomeoneIsServed
      <4> QED BY <1>7, <3>2, <4>1 DEF Beside
    <3> QED BY <3>1, <3>2
  <2> QED BY <2>1, <2>2, <2>3, <2>4 DEF PassiveTable
<1>9. Cardinality(DOMAIN passiveCraft)' = Cardinality(DOMAIN passiveCraft) + 1
  BY <1>3, <1>7, TablesAreFinite, FS_AddElement
<1>10. /\ ActiveTable' /\ LocksInOrder'
       /\ CountOf(DOMAIN progressiveAction)' = CountOf(DOMAIN progressiveAction)
       /\ WorkOf(progressiveAction)' = WorkOf(progressiveAction)
  BY <1>1, ActiveUntouched
<1>11. Holdings'
  <2>1. materials' \in [Crafters -> Nat]
    BY <1>1, <1>2 DEF CraftingInv, Holdings
  <2>2. nextCraft' \in 1 .. MaxCrafts + 1
    BY <1>1, Numbers DEF CraftIds
  <2> QED BY <1>1, <2>1, <2>2 DEF CraftingInv, Holdings
<1>12. SumFunction(materials)' = SumFunction(materials) - 1
  <2>1. SumFunction([materials EXCEPT ![p] = n]) = SumFunction(materials) - materials[p] + n
    BY <1>2, HoldingChanged
  <2>2. SumFunction(materials) \in Nat
    BY SumsAreNumbers
  <2> QED BY <1>1, <1>2, <2>1, <2>2
<1>13. UnitsAreKept'
  BY <1>1, <1>9, <1>10, <1>12, SumsAreNumbers DEF CraftingInv, Holdings, UnitsAreKept
<1>14. (WorkOf(progressiveAction) <= worked)'
  BY <1>1, <1>10 DEF CraftingInv
<1> QED BY <1>8, <1>10, <1>11, <1>13, <1>14 DEF CraftingInv

LEMMA PassiveCollectedKeepsInv ==
    ASSUME CraftingInv, NEW p \in Crafters, NEW ids \in SUBSET DOMAIN passiveCraft,
           PassiveCollected(p, ids)
    PROVE  CraftingInv'
<1> DEFINE c == Cardinality(ids)
           n == products[p] + c
<1>1. /\ products' = [products EXCEPT ![p] = n]
      /\ passiveCraft' = [i \in DOMAIN passiveCraft \ ids |-> passiveCraft[i]]
      /\ hasty' = hasty \cup {passiveCraft[id].building : id \in
                                {i \in ids : passiveCraft[i].status = "Processing"}}
      /\ UNCHANGED <<materials, craftTables, passiveTimers, clears, nextCraft, wasted, worked>>
  BY DEF PassiveCollected
<1>2. hasty \subseteq hasty' /\ \A i \in ids : passiveCraft[i].status = "Processing"
                                                 => passiveCraft[i].building \in hasty'
  BY <1>1
<1>3. /\ PassiveTable' /\ c \in Nat /\ Cardinality(DOMAIN passiveCraft)' \in Nat
      /\ Cardinality(DOMAIN passiveCraft) = c + Cardinality(DOMAIN passiveCraft)'
  BY <1>1, <1>2, PassiveRemoved
<1> HIDE DEF c
<1>4. products \in [Crafters -> Int] /\ products[p] \in Nat
      /\ n \in Nat /\ n \in Int /\ n = products[p] + c
  BY <1>3 DEF CraftingInv, Holdings
<1> HIDE DEF n
<1>5. SumFunction(products)' = SumFunction(products) + c
  <2>1. SumFunction([products EXCEPT ![p] = n]) = SumFunction(products) - products[p] + n
    BY <1>4, HoldingChanged
  <2>2. SumFunction(products) \in Nat
    BY SumsAreNumbers
  <2> QED BY <1>1, <1>3, <1>4, <2>1, <2>2
<1>6. /\ ActiveTable' /\ LocksInOrder'
      /\ CountOf(DOMAIN progressiveAction)' = CountOf(DOMAIN progressiveAction)
      /\ WorkOf(progressiveAction)' = WorkOf(progressiveAction)
  BY <1>1, ActiveUntouched
<1>7. Holdings'
  <2>1. products' \in [Crafters -> Nat]
    BY <1>1, <1>4 DEF CraftingInv, Holdings
  <2>2. hasty' \subseteq Workshops
    BY <1>1, PassiveRowsAreTyped DEF CraftingInv, Holdings
  <2> QED BY <1>1, <2>1, <2>2 DEF CraftingInv, Holdings
<1>8. UnitsAreKept'
  BY <1>1, <1>3, <1>5, <1>6, SumsAreNumbers DEF CraftingInv, Holdings, UnitsAreKept
<1>9. (WorkOf(progressiveAction) <= worked)'
  BY <1>1, <1>6 DEF CraftingInv
<1> QED BY <1>3, <1>6, <1>7, <1>8, <1>9 DEF CraftingInv

LEMMA CompleteAllKeepsInv ==
    ASSUME CraftingInv, CompleteAllPassiveCrafts
    PROVE  CraftingInv'
<1> DEFINE D == DOMAIN passiveCraft
<1>1. /\ passiveCraft' = [id \in D |-> [passiveCraft[id] EXCEPT !.status = "Complete", !.slot = NoSlot]]
      /\ UNCHANGED <<materials, products, craftTables, passiveTimers, clears, nextCraft, wasted,
                     worked, hasty>>
  BY DEF CompleteAllPassiveCrafts
<1>2. DOMAIN passiveCraft' = D
  BY <1>1
<1>3. \A id \in D : /\ passiveCraft'[id] \in PassiveCrafts
                    /\ passiveCraft'[id].status = "Complete" /\ passiveCraft'[id].slot = NoSlot
  <2> TAKE id \in D
  <2>1. passiveCraft[id] \in PassiveCrafts
    BY PassiveRowsAreTyped
  <2> QED BY <1>1, <2>1 DEF PassiveCrafts
<1>4. PassiveTable'
  <2>1. passiveCraft' \in [D -> PassiveCrafts]
    BY <1>1, <1>3
  <2>2. SlotsAreOwn(passiveCraft', passiveTimers') /\ SomeoneIsServed(passiveCraft', hasty')
    BY <1>2, <1>3 DEF SlotsAreOwn, SomeoneIsServed
  <2>3. D \subseteq 1 .. nextCraft' - 1
    BY <1>1, PassiveRowsAreTyped
  <2> QED BY <1>2, <2>1, <2>2, <2>3 DEF PassiveTable
<1>5. /\ ActiveTable' /\ LocksInOrder'
      /\ CountOf(DOMAIN progressiveAction)' = CountOf(DOMAIN progressiveAction)
      /\ WorkOf(progressiveAction)' = WorkOf(progressiveAction)
  BY <1>1, ActiveUntouched
<1>6. Holdings'
  BY <1>1 DEF CraftingInv, Holdings
<1>7. UnitsAreKept'
  BY <1>1, <1>2, <1>5 DEF CraftingInv, UnitsAreKept
<1>8. (WorkOf(progressiveAction) <= worked)'
  BY <1>1, <1>5 DEF CraftingInv
<1> QED BY <1>4, <1>5, <1>6, <1>7, <1>8 DEF CraftingInv

(***************************************************************************)
(* The building goes: products, materials and what is wasted share what    *)
(* was in it.                                                              *)
(***************************************************************************)
LEMMA CraftIsShared ==
    ASSUME CraftingInv, NEW id \in DOMAIN progressiveAction
    PROVE  /\ CompletedCrafts(progressiveAction[id]) \in Nat
           /\ RefundedCrafts(progressiveAction[id]) \in Nat
           /\ Unfinished(progressiveAction[id]) = progressiveAction[id].count
                - CompletedCrafts(progressiveAction[id]) - RefundedCrafts(progressiveAction[id])
<1> DEFINE a == progressiveAction[id]
           most == a.count * ActionsRequired
<1>1. \A i \in Nat : i * ActionsRequired \in Nat
  BY Numbers
<1>2. a.count \in Nat /\ a.progress \in Nat /\ a.progress <= most
  BY RowsAreTyped
<1>3. most \in Nat
  BY <1>1, <1>2
<1> HIDE DEF most, a
<1>4. most - a.progress \in Nat
  BY <1>2, <1>3
<1>5. a.count * ActionsRequired - a.progress \in Nat
  BY <1>4 DEF most
<1>6. CompletedCrafts(a) \in Nat /\ RefundedCrafts(a) \in Nat
  BY <1>2, <1>5, Numbers, Quotients DEF CompletedCrafts, RefundedCrafts
<1>7. Unfinished(a) = a.count - CompletedCrafts(a) - RefundedCrafts(a)
  BY DEF Unfinished
<1> QED BY <1>6, <1>7 DEF a

LEMMA DeleteWorkshopKeepsInv ==
    ASSUME CraftingInv, NEW b \in Workshops, DeleteWorkshop(b)
    PROVE  CraftingInv'
<1> DEFINE C == CraftsIn(b)
           own == [id \in C |-> progressiveAction[id].owner]
           comp == [id \in C |-> CompletedCrafts(progressiveAction[id])]
           ref == [id \in C |-> RefundedCrafts(progressiveAction[id])]
           unf == [id \in C |-> Unfinished(progressiveAction[id])]
           cnt == [id \in C |-> progressiveAction[id].count]
           Q == PassiveIn(b)
           Q1 == {id \in Q : passiveCraft[id].status = "Complete"}
           Q2 == {id \in Q : passiveCraft[id].status # "Complete"}
           held1 == [id \in Q1 |-> passiveCraft[id].owner]
           held2 == [id \in Q2 |-> passiveCraft[id].owner]
           h1 == Dealt(products, C, own, comp, Q1, held1)
           h2 == Dealt(materials, C, own, ref, Q2, held2)
<1>1. /\ wasted' = wasted + SumFunction(unf) /\ RemoveCrafts(C)
      /\ passiveCraft' = [id \in DOMAIN passiveCraft \ Q |-> passiveCraft[id]]
      /\ UNCHANGED <<passiveTimers, clears, nextCraft, worked, hasty>>
  BY DEF DeleteWorkshop
<1>2. products' = h1 /\ materials' = h2
  <2>1. ASSUME NEW p \in Crafters
        PROVE  LostProducts(p, b) = SumFunction([x \in {y \in C : own[y] = p} |-> comp[x]])
                                      + Cardinality({x \in Q1 : held1[x] = p})
    <3>1. CraftsOf(p, b) = {y \in C : own[y] = p}
      BY DEF CraftsOf
    <3>2. {x \in Q1 : held1[x] = p}
            = {id \in Q : passiveCraft[id].owner = p /\ passiveCraft[id].status = "Complete"}
      OBVIOUS
    <3>3. [id \in CraftsOf(p, b) |-> CompletedCrafts(progressiveAction[id])]
            = [x \in {y \in C : own[y] = p} |-> comp[x]]
      BY <3>1
    <3> HIDE DEF C, own, comp, Q, Q1, held1
    <3> QED BY <3>2, <3>3 DEF LostProducts, Q
  <2>2. ASSUME NEW p \in Crafters
        PROVE  LostMaterials(p, b) = SumFunction([x \in {y \in C : own[y] = p} |-> ref[x]])
                                       + Cardinality({x \in Q2 : held2[x] = p})
    <3>1. CraftsOf(p, b) = {y \in C : own[y] = p}
      BY DEF CraftsOf
    <3>2. {x \in Q2 : held2[x] = p}
            = {id \in Q : passiveCraft[id].owner = p /\ passiveCraft[id].status # "Complete"}
      OBVIOUS
    <3>3. [id \in CraftsOf(p, b) |-> RefundedCrafts(progressiveAction[id])]
            = [x \in {y \in C : own[y] = p} |-> ref[x]]
      BY <3>1
    <3> HIDE DEF C, own, ref, Q, Q2, held2
    <3> QED BY <3>2, <3>3 DEF LostMaterials, Q
  <2>3. /\ products' = [p \in Crafters |-> products[p] + LostProducts(p, b)]
        /\ materials' = [p \in Crafters |-> materials[p] + LostMaterials(p, b)]
    BY DEF DeleteWorkshop
  <2> HIDE DEF C, own, comp, ref, Q1, Q2, held1, held2
  <2> QED BY <2>1, <2>2, <2>3 DEF Dealt
<1>3. C \in SUBSET DOMAIN progressiveAction /\ Q \in SUBSET DOMAIN passiveCraft
  BY DEF CraftsIn, PassiveIn
<1>4. IsFiniteSet(C) /\ IsFiniteSet(Q) /\ IsFiniteSet(Q1) /\ IsFiniteSet(Q2)
  <2>1. Q1 \in SUBSET Q /\ Q2 \in SUBSET Q
    OBVIOUS
  <2> HIDE DEF C, Q, Q1, Q2
  <2> QED BY <1>3, <2>1, TablesAreFinite, FS_Subset
<1>5. /\ own \in [C -> Crafters] /\ comp \in [C -> Nat] /\ ref \in [C -> Nat] /\ unf \in [C -> Int]
      /\ cnt \in [C -> Int] /\ \A id \in C : unf[id] = cnt[id] - comp[id] - ref[id]
  <2>1. ASSUME NEW id \in C
        PROVE  /\ progressiveAction[id].owner \in Crafters /\ progressiveAction[id].count \in Nat
               /\ CompletedCrafts(progressiveAction[id]) \in Nat
               /\ RefundedCrafts(progressiveAction[id]) \in Nat
               /\ Unfinished(progressiveAction[id]) = progressiveAction[id].count
                    - CompletedCrafts(progressiveAction[id]) - RefundedCrafts(progressiveAction[id])
    BY <1>3, RowsAreTyped, CraftIsShared
  <2>2. \A id \in C : Unfinished(progressiveAction[id]) \in Int
    BY <2>1
  <2> HIDE DEF C
  <2> QED BY <2>1, <2>2
<1>6. held1 \in [Q1 -> Crafters] /\ held2 \in [Q2 -> Crafters]
  BY <1>3, PassiveRowsAreTyped
<1>7. CountOf(C) = SumFunction(cnt)
  BY DEF CountOf
<1> HIDE DEF own, comp, ref, unf, cnt, held1, held2
<1>8. products \in [Crafters -> Nat] /\ materials \in [Crafters -> Nat]
  BY DEF CraftingInv, Holdings
<1>9. Cardinality(Q) = Cardinality(Q1) + Cardinality(Q2)
  <2>1. Q1 \cup Q2 = Q /\ Q1 \cap Q2 = {}
    OBVIOUS
  <2> HIDE DEF Q, Q1, Q2
  <2>2. Cardinality(Q1 \cup Q2) = Cardinality(Q1) + Cardinality(Q2) - Cardinality(Q1 \cap Q2)
    BY <1>4, FS_Union
  <2>3. Cardinality(Q1 \cup Q2) = Cardinality(Q) /\ Cardinality(Q1 \cap Q2) = 0
    BY <2>1, FS_EmptySet
  <2>4. Cardinality(Q1) \in Nat /\ Cardinality(Q2) \in Nat
    BY <1>4, FS_CardinalityType
  <2> QED BY <2>2, <2>3, <2>4
<1> HIDE DEF Q1, Q2, C, Q
<1>12. /\ h1 \in [Crafters -> Nat]
       /\ SumFunction(h1) = SumFunction(products) + (SumFunction(comp) + Cardinality(Q1))
       /\ SumFunction(comp) \in Nat /\ Cardinality(Q1) \in Nat
  BY <1>4, <1>5, <1>6, <1>8, HandedOut
<1>13. /\ h2 \in [Crafters -> Nat]
       /\ SumFunction(h2) = SumFunction(materials) + (SumFunction(ref) + Cardinality(Q2))
       /\ SumFunction(ref) \in Nat /\ Cardinality(Q2) \in Nat
  BY <1>4, <1>5, <1>6, <1>8, HandedOut
<1> HIDE DEF h1, h2
<1>15. SumFunction(cnt) = SumFunction(comp) + SumFunction(ref) + SumFunction(unf)
       /\ SumFunction(unf) \in Int
  <2> DEFINE cr == [id \in C |-> comp[id] + ref[id]]
  <2>1. comp \in [C -> Int] /\ ref \in [C -> Int] /\ cr \in [C -> Int]
        /\ \A id \in C : cr[id] = comp[id] + ref[id]
    BY <1>5
  <2>2. \A id \in C : cnt[id] = cr[id] + unf[id]
    BY <1>5
  <2> HIDE DEF cr
  <2>3. SumFunction(cr) = SumFunction(comp) + SumFunction(ref)
    BY <1>4, <2>1, TotalIsAdded
  <2>4. SumFunction(cnt) = SumFunction(cr) + SumFunction(unf)
    <3>1. cnt \in [C -> Int] /\ unf \in [C -> Int]
      BY <1>5
    <3> QED BY <1>4, <2>1, <2>2, <3>1, TotalIsAdded
  <2>5. SumFunction(unf) \in Int
    BY <1>4, <1>5, TotalIsInteger
  <2> QED BY <2>3, <2>4, <2>5
<1>16. /\ ActiveTable' /\ LocksInOrder'
       /\ CountOf(C) \in Nat /\ CountOf(DOMAIN progressiveAction)' \in Nat
       /\ CountOf(DOMAIN progressiveAction) = CountOf(C) + CountOf(DOMAIN progressiveAction)'
       /\ WorkOf(progressiveAction)' \in Nat
       /\ WorkOf(progressiveAction)' <= WorkOf(progressiveAction)
  BY <1>1, <1>3, RemovedRows
<1>17. /\ PassiveTable' /\ Cardinality(DOMAIN passiveCraft)' \in Nat
       /\ Cardinality(DOMAIN passiveCraft) = Cardinality(Q) + Cardinality(DOMAIN passiveCraft)'
  <2>1. \A i \in Q : PassiveIn(passiveCraft[i].building) \subseteq Q
    BY DEF PassiveIn, Q
  <2>2. hasty \subseteq hasty'
    BY <1>1
  <2> QED BY <1>1, <1>3, <2>1, <2>2, PassiveRemoved
<1>18. Holdings'
  <2>1. wasted' \in Int
    BY <1>1, <1>15 DEF CraftingInv, Holdings
  <2>2. products' \in [Crafters -> Nat] /\ materials' \in [Crafters -> Nat]
    BY <1>2, <1>12, <1>13
  <2> QED BY <1>1, <2>1, <2>2 DEF CraftingInv, Holdings
<1>19. UnitsAreKept'
  <2>1. /\ SumFunction(products)' = SumFunction(products) + (SumFunction(comp) + Cardinality(Q1))
        /\ SumFunction(materials)' = SumFunction(materials) + (SumFunction(ref) + Cardinality(Q2))
    BY <1>2, <1>12, <1>13
  <2>2. /\ SumFunction(products) \in Nat /\ SumFunction(materials) \in Nat /\ wasted \in Int
        /\ MaterialsAtFirst * Cardinality(Crafters) \in Nat
    BY SumsAreNumbers DEF CraftingInv, Holdings
  <2> QED BY <1>1, <1>7, <1>9, <1>12, <1>13, <1>15, <1>16, <1>17, <2>1, <2>2
          DEF CraftingInv, UnitsAreKept
<1>20. (WorkOf(progressiveAction) <= worked)'
  BY <1>1, <1>16, SumsAreNumbers DEF CraftingInv, Holdings
<1> QED BY <1>16, <1>17, <1>18, <1>19, <1>20 DEF CraftingInv

(***************************************************************************)
(* Steps that make and take nothing.                                       *)
(***************************************************************************)
LEMMA NothingMadeKeepsInv ==
    ASSUME CraftingInv, ActiveTable', LocksInOrder', clears' \subseteq Crafters,
           UNCHANGED <<materials, products, progressiveAction, passiveTables, nextCraft, wasted,
                       worked, hasty>>
    PROVE  CraftingInv'
<1>1. PassiveTable' /\ Cardinality(DOMAIN passiveCraft)' = Cardinality(DOMAIN passiveCraft)
  BY PassiveUntouched
<1>2. Holdings'
  BY DEF CraftingInv, Holdings
<1>3. CountOf(DOMAIN progressiveAction)' = CountOf(DOMAIN progressiveAction)
  BY DEF CountOf
<1>4. UnitsAreKept'
  BY <1>1, <1>3 DEF CraftingInv, UnitsAreKept
<1>5. (WorkOf(progressiveAction) <= worked)'
  BY DEF CraftingInv, WorkOf
<1> QED BY <1>1, <1>2, <1>4, <1>5 DEF CraftingInv

LEMMA ActiveStepKeepsInv ==
    ASSUME CraftingInv, ActiveStep
    PROVE  CraftingInv'
<1>1. ASSUME NEW p \in Crafters, NEW b \in Workshops, NEW count \in CraftCounts,
             NEW public \in BOOLEAN, CraftInitiateStart(p, b, count, public)
      PROVE  CraftingInv'
  BY <1>1, CraftInitiateStartKeepsInv
<1>2. ASSUME NEW p \in Crafters, NEW b \in Workshops, NEW public \in BOOLEAN,
             CraftInitiate(p, b, public)
      PROVE  CraftingInv'
  <2>1. PICK id \in DOMAIN progressiveAction :
           /\ Worked(p, id)
           /\ publicActions' = IF public THEN publicActions \cup {id} ELSE publicActions
    BY <1>2 DEF CraftInitiate
  <2>2. publicActions' \subseteq publicActions \cup {id}
    BY <2>1
  <2>3. UNCHANGED <<materials, products, passiveTables, clears, nextCraft, wasted, hasty>>
    BY <1>2 DEF CraftInitiate
  <2> QED BY <2>1, <2>2, <2>3, WorkedKeepsInv
<1>3. ASSUME NEW p \in Crafters, NEW b \in Workshops, CraftCollectAll(p, b)
      PROVE  CraftingInv'
  <2> DEFINE ids == {id \in CraftsOf(p, b) : Status(id) = "Completed"}
  <2>1. Collected(p, ids)
    BY <1>3 DEF CraftCollectAll
  <2>2. ids \in SUBSET DOMAIN progressiveAction
    BY DEF CraftsOf, CraftsIn
  <2> HIDE DEF ids
  <2> QED BY <2>1, <2>2, CollectedKeepsInv
<1>4. ASSUME NEW p \in Crafters, NEW id \in DOMAIN progressiveAction, CraftContinueStart(p, id)
      PROVE  CraftingInv'
  BY <1>4, CraftContinueStartKeepsInv
<1>5. ASSUME NEW p \in Crafters, NEW id \in DOMAIN progressiveAction, CraftContinue(p, id)
      PROVE  CraftingInv'
  <2>1. /\ Worked(p, id) /\ publicActions' \subseteq publicActions \cup {id}
        /\ UNCHANGED <<materials, products, passiveTables, clears, nextCraft, wasted, hasty>>
    BY <1>5 DEF CraftContinue
  <2> QED BY <2>1, WorkedKeepsInv
<1>6. ASSUME NEW p \in Crafters, NEW id \in DOMAIN progressiveAction, CraftCancel(p, id)
      PROVE  CraftingInv'
  BY <1>6, CraftCancelKeepsInv
<1>7. ASSUME NEW p \in Crafters, NEW id \in DOMAIN progressiveAction, CraftCollect(p, id)
      PROVE  CraftingInv'
  <2>1. Collected(p, {id}) /\ {id} \in SUBSET DOMAIN progressiveAction
    BY <1>7 DEF CraftCollect
  <2> QED BY <2>1, CollectedKeepsInv
<1>8. ASSUME NEW p \in Crafters, NEW id \in DOMAIN progressiveAction, NEW public \in BOOLEAN,
             CraftSetPublic(p, id, public)
      PROVE  CraftingInv'
  <2>1. /\ publicActions' \subseteq publicActions \cup {id}
        /\ UNCHANGED <<materials, products, progressiveAction, lockOrder, expired, passiveTables,
                       clears, nextCraft, wasted, worked, hasty>>
    BY <1>8 DEF CraftSetPublic
  <2>2. ActiveTable' /\ LocksInOrder' /\ clears' \subseteq Crafters
    BY <2>1 DEF CraftingInv, ActiveTable, LocksInOrder, Holdings
  <2> QED BY <2>1, <2>2, NothingMadeKeepsInv
<1>9. ASSUME NEW p \in Crafters, CraftRefused(p) \/ PlayerClearActionState(p) \/ ActionIsDue(p)
      PROVE  CraftingInv'
  <2>1. /\ clears' \subseteq Crafters
        /\ UNCHANGED <<materials, products, craftTables, passiveTables, nextCraft, wasted, worked,
                       hasty>>
    BY <1>9 DEF CraftRefused, PlayerClearActionState, ActionIsDue, CraftingInv, Holdings
  <2>2. ActiveTable' /\ LocksInOrder'
    BY <2>1, ActiveUntouched
  <2>3. UNCHANGED progressiveAction
    BY <2>1 DEF craftTables
  <2> QED BY <2>1, <2>2, <2>3, NothingMadeKeepsInv
<1>10. ASSUME LockExpires
       PROVE  CraftingInv'
  <2>1. LocksInOrder'
    BY <1>10, ExpiryKeepsLocks DEF CraftingInv
  <2>2. /\ clears' \subseteq Crafters /\ UNCHANGED publicActions
        /\ UNCHANGED <<materials, products, progressiveAction, passiveTables, nextCraft, wasted,
                       worked, hasty>>
    BY <1>10 DEF LockExpires, CraftingInv, Holdings
  <2>3. ActiveTable'
    BY <2>2 DEF CraftingInv, ActiveTable
  <2> QED BY <2>1, <2>2, <2>3, NothingMadeKeepsInv
<1> QED BY <1>1, <1>2, <1>3, <1>4, <1>5, <1>6, <1>7, <1>8, <1>9, <1>10 DEF ActiveStep

LEMMA PassiveStepKeepsInv ==
    ASSUME CraftingInv, PassiveStep
    PROVE  CraftingInv'
<1>1. ASSUME NEW p \in Crafters, NEW b \in Workshops, PassiveCraftCollectAll(p, b)
      PROVE  CraftingInv'
  <2> DEFINE ids == {id \in PassiveIn(b) :
                       passiveCraft[id].owner = p /\ passiveCraft[id].status = "Complete"}
  <2>1. PassiveCollected(p, ids)
    BY <1>1 DEF PassiveCraftCollectAll
  <2>2. ids \in SUBSET DOMAIN passiveCraft
    BY DEF PassiveIn
  <2> HIDE DEF ids
  <2> QED BY <2>1, <2>2, PassiveCollectedKeepsInv
<1>2. ASSUME NEW p \in Crafters, NEW b \in Workshops, NEW cargo \in BOOLEAN,
             PassiveCraftQueue(p, b, cargo)
      PROVE  CraftingInv'
  BY <1>2, PassiveCraftQueueKeepsInv
<1>3. ASSUME NEW p \in Crafters, NEW id \in DOMAIN passiveCraft, PassiveCraftCancel(p, id)
      PROVE  CraftingInv'
  BY <1>3, PassiveCraftCancelKeepsInv
<1>4. ASSUME NEW p \in Crafters, NEW id \in DOMAIN passiveCraft, PassiveCraftCollect(p, id)
      PROVE  CraftingInv'
  <2>1. PassiveCollected(p, {id}) /\ {id} \in SUBSET DOMAIN passiveCraft
    BY <1>4 DEF PassiveCraftCollect
  <2> QED BY <2>1, PassiveCollectedKeepsInv
<1>5. ASSUME NEW id \in passiveTimers, PassiveCraftProcess(id)
      PROVE  CraftingInv'
  BY <1>5, PassiveCraftProcessKeepsInv
<1> QED BY <1>1, <1>2, <1>3, <1>4, <1>5, CompleteAllKeepsInv DEF PassiveStep

LEMMA CraftingInitInv == CraftingInit => CraftingInv
<1> SUFFICES ASSUME CraftingInit PROVE CraftingInv
  OBVIOUS
<1> DEFINE m == [p \in Crafters |-> MaterialsAtFirst]
           z == [p \in Crafters |-> 0]
           none == [id \in {} |-> 0]
<1>1. /\ materials = m /\ products = z /\ progressiveAction = <<>> /\ passiveCraft = <<>>
      /\ publicActions = {} /\ lockOrder = {} /\ expired = {} /\ passiveTimers = {}
      /\ clears = {} /\ nextCraft = 1 /\ wasted = 0 /\ worked = 0 /\ hasty = {}
  BY DEF CraftingInit
<1>2. DOMAIN progressiveAction = {} /\ DOMAIN passiveCraft = {}
  BY <1>1
<1>3. Holdings
  BY <1>1, Numbers DEF Holdings
<1>4. ActiveTable /\ LocksInOrder
  BY <1>1, <1>2 DEF ActiveTable, LocksInOrder
<1>5. PassiveTable
  BY <1>1, <1>2 DEF PassiveTable, SlotsAreOwn, SomeoneIsServed
<1>6. SumFunction(none) = 0
  <2>1. DOMAIN none = {}
    OBVIOUS
  <2> HIDE DEF none
  <2> QED BY <2>1, PlusSums, SumIsFold, Sums!SumOfNone
<1>7. CountOf(DOMAIN progressiveAction) = 0 /\ WorkOf(progressiveAction) = 0
  <2>1. /\ [id \in DOMAIN progressiveAction |-> progressiveAction[id].count] = none
        /\ [id \in DOMAIN progressiveAction |-> progressiveAction[id].progress] = none
    BY <1>2
  <2> HIDE DEF none
  <2> QED BY <1>6, <2>1 DEF CountOf, WorkOf
<1>8. SumFunction(z) = 0
  <2>1. DOMAIN z = Crafters /\ \A p \in Crafters : z[p] = 0
    OBVIOUS
  <2>2. 0 \in Int /\ 0 * Cardinality(Crafters) = 0
    BY Numbers, FS_CardinalityType
  <2> HIDE DEF z
  <2>3. SumFunction(z) = 0 * Cardinality(Crafters)
    BY <2>1, <2>2, Numbers, TotalOfSame
  <2> QED BY <2>2, <2>3
<1>9. SumFunction(m) = MaterialsAtFirst * Cardinality(Crafters)
  <2>1. DOMAIN m = Crafters /\ \A p \in Crafters : m[p] = MaterialsAtFirst
    OBVIOUS
  <2>2. MaterialsAtFirst \in Int
    BY Numbers
  <2> HIDE DEF m
  <2> QED BY <2>1, <2>2, Numbers, TotalOfSame
<1>10. Cardinality(DOMAIN passiveCraft) = 0
  BY <1>2, FS_EmptySet
<1>11. UnitsAreKept
  <2>1. MaterialsAtFirst * Cardinality(Crafters) \in Nat
    BY Numbers, FS_CardinalityType
  <2> HIDE DEF m, z
  <2> QED BY <1>1, <1>7, <1>8, <1>9, <1>10, <2>1 DEF UnitsAreKept
<1>12. WorkOf(progressiveAction) <= worked
  BY <1>1, <1>7
<1> QED BY <1>3, <1>4, <1>5, <1>11, <1>12 DEF CraftingInv

LEMMA CraftingNextKeepsInv ==
    ASSUME CraftingInv, ActiveNext \/ PassiveNext \/ UNCHANGED craftingVars
    PROVE  CraftingInv'
<1>1. CASE ActiveStep
  BY <1>1, ActiveStepKeepsInv
<1>2. CASE PassiveStep
  BY <1>2, PassiveStepKeepsInv
<1>3. CASE WorkshopIsLost
  BY <1>3, DeleteWorkshopKeepsInv DEF WorkshopIsLost
<1>4. CASE UNCHANGED craftingVars
  <2>1. UNCHANGED <<craftTables, passiveTables, materials, products, clears, nextCraft, wasted,
                    worked, hasty>>
    BY <1>4 DEF craftingVars
  <2>2. ActiveTable' /\ LocksInOrder'
    BY <2>1, ActiveUntouched
  <2>3. UNCHANGED progressiveAction /\ clears' \subseteq Crafters
    BY <2>1 DEF craftTables, CraftingInv, Holdings
  <2> QED BY <2>1, <2>2, <2>3, NothingMadeKeepsInv
<1> QED BY <1>1, <1>2, <1>3, <1>4 DEF ActiveNext, PassiveNext

(***************************************************************************)
(* Whatever is begun, worked at, cancelled, queued, finished and collected *)
(* at workshops, and whatever becomes of them: no unit of material is made *)
(* or lost, nothing is made without its work, a craft in a slot has it to  *)
(* itself and will finish, and a queue moves.                              *)
(***************************************************************************)
THEOREM CraftsStayInOrder == Spec => []CraftsInOrder
<1>1. Init => CraftingInv
  BY CraftingInitInv DEF Init
<1>2. CraftingInv /\ [Next]_landVars => CraftingInv'
  <2> SUFFICES ASSUME CraftingInv, [Next]_landVars PROVE CraftingInv'
    OBVIOUS
  <2>1. ActiveNext \/ PassiveNext \/ UNCHANGED craftingVars
    BY DEF Next, RingScene, TerritoryScene, CraftingScene, RefiningScene, WildsScene, landVars
  <2> QED BY <2>1, CraftingNextKeepsInv
<1>3. CraftingInv => CraftsInOrder
  BY CraftingInvImplies
<1> QED BY <1>1, <1>2, <1>3, PTL DEF Spec


-----------------------------------------------------------------------------
(***************************************************************************)
(* Distances on the grid                                                   *)
(***************************************************************************)
Hexes == Int \X Int

LEMMA HexIs ==
    ASSUME NEW t \in Hexes
    PROVE  X(t) \in Int /\ Z(t) \in Int /\ Y(t) = -X(t) - Z(t) /\ t = <<X(t), Z(t)>>
BY DEF Hexes, X, Y, Z

(***************************************************************************)
(* The distance is the largest of the three differences.                   *)
(***************************************************************************)
LEMMA HalfOfSum ==
    ASSUME NEW a \in Int, NEW b \in Int, NEW n \in Int
    PROVE  /\ (Abs(a) + Abs(-a - b) + Abs(b)) \div 2 \in Nat
           /\ (Abs(a) + Abs(-a - b) + Abs(b)) \div 2 <= n
                <=> a <= n /\ -n <= a /\ b <= n /\ -n <= b /\ a + b <= n /\ -n <= a + b
BY DEF Abs

LEMMA WithinDistance ==
    ASSUME NEW t \in Hexes, NEW u \in Hexes, NEW n \in Int
    PROVE  /\ Distance(t, u) \in Nat
           /\ Distance(t, u) <= n
                <=> /\ X(u) - X(t) <= n /\ -n <= X(u) - X(t)
                    /\ Z(u) - Z(t) <= n /\ -n <= Z(u) - Z(t)
                    /\ X(u) - X(t) + Z(u) - Z(t) <= n /\ -n <= X(u) - X(t) + Z(u) - Z(t)
<1> DEFINE a == X(u) - X(t)
           b == Z(u) - Z(t)
<1>1. a \in Int /\ b \in Int /\ Y(u) - Y(t) = -a - b
  BY HexIs DEF Y
<1>2. Distance(t, u) = (Abs(a) + Abs(-a - b) + Abs(b)) \div 2
  BY <1>1 DEF Distance
<1>3. a + b = X(u) - X(t) + Z(u) - Z(t)
  BY HexIs
<1> HIDE DEF a, b
<1>4. /\ (Abs(a) + Abs(-a - b) + Abs(b)) \div 2 \in Nat
      /\ (Abs(a) + Abs(-a - b) + Abs(b)) \div 2 <= n
           <=> a <= n /\ -n <= a /\ b <= n /\ -n <= b /\ a + b <= n /\ -n <= a + b
  BY <1>1, HalfOfSum
<1> QED BY <1>2, <1>3, <1>4 DEF a, b

LEMMA DistanceIsNatural ==
    ASSUME NEW t \in Hexes, NEW u \in Hexes
    PROVE  Distance(t, u) \in Nat
BY WithinDistance

LEMMA DistanceIsSymmetric ==
    ASSUME NEW t \in Hexes, NEW u \in Hexes
    PROVE  Distance(t, u) = Distance(u, t)
<1> DEFINE m == Distance(t, u)
           n == Distance(u, t)
<1>1. m \in Nat /\ n \in Nat
  BY DistanceIsNatural
<1>2. X(t) \in Int /\ Z(t) \in Int /\ X(u) \in Int /\ Z(u) \in Int
  BY HexIs
<1>3. Distance(t, u) <= n /\ Distance(u, t) <= m
  <2> HIDE DEF m, n
  <2>1. Distance(u, t) <= n <=> /\ X(t) - X(u) <= n /\ -n <= X(t) - X(u)
                    /\ Z(t) - Z(u) <= n /\ -n <= Z(t) - Z(u)
                    /\ X(t) - X(u) + Z(t) - Z(u) <= n /\ -n <= X(t) - X(u) + Z(t) - Z(u)
    BY <1>1, WithinDistance
  <2>2. Distance(t, u) <= n <=> /\ X(u) - X(t) <= n /\ -n <= X(u) - X(t)
                    /\ Z(u) - Z(t) <= n /\ -n <= Z(u) - Z(t)
                    /\ X(u) - X(t) + Z(u) - Z(t) <= n /\ -n <= X(u) - X(t) + Z(u) - Z(t)
    BY <1>1, WithinDistance
  <2>3. Distance(u, t) <= m <=> /\ X(t) - X(u) <= m /\ -m <= X(t) - X(u)
                    /\ Z(t) - Z(u) <= m /\ -m <= Z(t) - Z(u)
                    /\ X(t) - X(u) + Z(t) - Z(u) <= m /\ -m <= X(t) - X(u) + Z(t) - Z(u)
    BY <1>1, WithinDistance
  <2>4. Distance(t, u) <= m <=> /\ X(u) - X(t) <= m /\ -m <= X(u) - X(t)
                    /\ Z(u) - Z(t) <= m /\ -m <= Z(u) - Z(t)
                    /\ X(u) - X(t) + Z(u) - Z(t) <= m /\ -m <= X(u) - X(t) + Z(u) - Z(t)
    BY <1>1, WithinDistance
  <2>5. Distance(u, t) <= n /\ Distance(t, u) <= m
    BY <1>1 DEF m, n
  <2>6. Distance(t, u) <= n
    BY <1>1, <1>2, <2>1, <2>2, <2>5
  <2>7. Distance(u, t) <= m
    BY <1>1, <1>2, <2>3, <2>4, <2>5
  <2> QED BY <2>6, <2>7
<1> QED BY <1>1, <1>3

LEMMA Triangle ==
    ASSUME NEW t \in Hexes, NEW u \in Hexes, NEW v \in Hexes, NEW m \in Int, NEW n \in Int,
           Distance(t, u) <= m, Distance(u, v) <= n
    PROVE  Distance(t, v) <= m + n
<1>1. X(t) \in Int /\ Z(t) \in Int /\ X(u) \in Int /\ Z(u) \in Int /\ X(v) \in Int /\ Z(v) \in Int
  BY HexIs
<1>2. /\ X(u) - X(t) <= m /\ -m <= X(u) - X(t)
      /\ Z(u) - Z(t) <= m /\ -m <= Z(u) - Z(t)
      /\ X(u) - X(t) + Z(u) - Z(t) <= m /\ -m <= X(u) - X(t) + Z(u) - Z(t)
  BY WithinDistance
<1>3. /\ X(v) - X(u) <= n /\ -n <= X(v) - X(u)
      /\ Z(v) - Z(u) <= n /\ -n <= Z(v) - Z(u)
      /\ X(v) - X(u) + Z(v) - Z(u) <= n /\ -n <= X(v) - X(u) + Z(v) - Z(u)
  BY WithinDistance
<1> DEFINE far == m + n
<1>4. far \in Int
  OBVIOUS
<1>5. /\ X(v) - X(t) <= far /\ -far <= X(v) - X(t)
      /\ Z(v) - Z(t) <= far /\ -far <= Z(v) - Z(t)
      /\ X(v) - X(t) + Z(v) - Z(t) <= far /\ -far <= X(v) - X(t) + Z(v) - Z(t)
  BY <1>1, <1>2, <1>3
<1> HIDE DEF far
<1>6. Distance(t, v) <= far
  BY <1>4, <1>5, WithinDistance
<1> QED BY <1>6 DEF far

-----------------------------------------------------------------------------
(***************************************************************************)
(* A ring is walked tile by tile, and every tile of it is at its distance  *)
(***************************************************************************)

(***************************************************************************)
(* The six neighbours.                                                     *)
(***************************************************************************)
LEMMA NeighborsAre ==
    ASSUME NEW t \in Hexes
    PROVE  /\ Neighbor(t, 0) = <<X(t), Z(t) + 1>>
           /\ Neighbor(t, 2) = <<X(t) + 1, Z(t)>>
           /\ Neighbor(t, 4) = <<X(t) + 1, Z(t) - 1>>
           /\ Neighbor(t, 6) = <<X(t), Z(t) - 1>>
           /\ Neighbor(t, 8) = <<X(t) - 1, Z(t)>>
           /\ Neighbor(t, 10) = <<X(t) - 1, Z(t) + 1>>
<1>1. X(t) \in Int /\ Z(t) \in Int
  BY HexIs
<1>2. ASSUME NEW d \in Flat, NEW a \in Int, NEW b \in Int, Offset(d) = <<a, b>>
      PROVE  Neighbor(t, d) = <<X(t) + a, Z(t) + b>>
  <2>1. X(Offset(d)) = a /\ Z(Offset(d)) = b
    BY <1>2 DEF X, Z
  <2> QED BY <1>1, <2>1 DEF Neighbor, NeighborN
<1>3. /\ Offset(0) = <<0, 1>> /\ Offset(2) = <<1, 0>> /\ Offset(4) = <<1, -1>>
      /\ Offset(6) = <<0, -1>> /\ Offset(8) = <<-1, 0>> /\ Offset(10) = <<-1, 1>>
  BY DEF Offset
<1>4. /\ 0 \in Flat /\ 2 \in Flat /\ 4 \in Flat /\ 6 \in Flat /\ 8 \in Flat /\ 10 \in Flat
      /\ -1 \in Int /\ 0 \in Int /\ 1 \in Int
  BY DEF Flat
<1>5. Neighbor(t, 0) = <<X(t) + 0, Z(t) + 1>> /\ Neighbor(t, 2) = <<X(t) + 1, Z(t) + 0>>
  BY <1>2, <1>3, <1>4
<1>6. Neighbor(t, 4) = <<X(t) + 1, Z(t) + -1>> /\ Neighbor(t, 6) = <<X(t) + 0, Z(t) + -1>>
  BY <1>2, <1>3, <1>4
<1>7. Neighbor(t, 8) = <<X(t) + -1, Z(t) + 0>> /\ Neighbor(t, 10) = <<X(t) + -1, Z(t) + 1>>
  BY <1>2, <1>3, <1>4
<1> QED BY <1>1, <1>5, <1>6, <1>7

LEMMA NeighborIff ==
    ASSUME NEW t \in Hexes, NEW u
    PROVE  u \in NeighborsDirect(t)
             <=> u \in {<<X(t), Z(t) + 1>>, <<X(t) + 1, Z(t)>>, <<X(t) + 1, Z(t) - 1>>,
                        <<X(t), Z(t) - 1>>, <<X(t) - 1, Z(t)>>, <<X(t) - 1, Z(t) + 1>>}
BY NeighborsAre DEF NeighborsDirect, Flat

-----------------------------------------------------------------------------
(***************************************************************************)
(* The n-th tile of a ring, side by side.                                  *)
(***************************************************************************)
RingX(r, n) ==
    CASE n <= r -> r
      [] r < n /\ n <= 3 * r -> 2 * r - n
      [] 3 * r < n /\ n <= 4 * r -> -r
      [] OTHER -> n - 5 * r

RingZ(r, n) ==
    CASE n <= 2 * r -> n - r
      [] 2 * r < n /\ n <= 3 * r -> r
      [] 3 * r < n /\ n <= 5 * r -> 4 * r - n
      [] OTHER -> -r

RingPoint(c, r, n) == <<X(c) + RingX(r, n), Z(c) + RingZ(r, n)>>

LEMMA RingPointIsHex ==
    ASSUME NEW c \in Hexes, NEW r \in Nat, NEW n \in Int
    PROVE  /\ RingX(r, n) \in Int /\ RingZ(r, n) \in Int
           /\ RingPoint(c, r, n) \in Hexes
           /\ X(RingPoint(c, r, n)) = X(c) + RingX(r, n)
           /\ Z(RingPoint(c, r, n)) = Z(c) + RingZ(r, n)
<1>1. X(c) \in Int /\ Z(c) \in Int
  BY HexIs
<1>2. RingX(r, n) \in Int /\ RingZ(r, n) \in Int
  BY DEF RingX, RingZ
<1> QED BY <1>1, <1>2 DEF RingPoint, Hexes, X, Z

LEMMA SideOf ==
    ASSUME NEW r \in Nat \ {0}, NEW m \in Nat
    PROVE  /\ m < r => m \div r = 0
           /\ r <= m /\ m < 2 * r => m \div r = 1
           /\ 2 * r <= m /\ m < 3 * r => m \div r = 2
           /\ 3 * r <= m /\ m < 4 * r => m \div r = 3
           /\ 4 * r <= m /\ m < 5 * r => m \div r = 4
           /\ 5 * r <= m /\ m < 6 * r => m \div r = 5
OBVIOUS

LEMMA DirectionOf ==
    ASSUME NEW r \in Nat \ {0}, NEW n \in 1 .. 6 * r
    PROVE  RingDirections(r)[n]
             = CASE n <= r -> 0
                 [] r < n /\ n <= 2 * r -> 10
                 [] 2 * r < n /\ n <= 3 * r -> 8
                 [] 3 * r < n /\ n <= 4 * r -> 6
                 [] 4 * r < n /\ n <= 5 * r -> 4
                 [] OTHER -> 2
<1> DEFINE s == (n - 1) \div r
<1>1. RingDirections(r)[n] = (12 - 2 * s) % 12
  BY DEF RingDirections
<1>2. s = CASE n <= r -> 0
                 [] r < n /\ n <= 2 * r -> 1
                 [] 2 * r < n /\ n <= 3 * r -> 2
                 [] 3 * r < n /\ n <= 4 * r -> 3
                 [] 4 * r < n /\ n <= 5 * r -> 4
                 [] OTHER -> 5
  <2> DEFINE m == n - 1
  <2>1. m \in Nat /\ n = m + 1 /\ m < 6 * r
    OBVIOUS
  <2>2. s = m \div r
    OBVIOUS
  <2> HIDE DEF m, s
  <2> QED BY <2>1, <2>2, SideOf
<1> HIDE DEF s
<1>3. /\ (12 - 2 * 0) % 12 = 0 /\ (12 - 2 * 1) % 12 = 10 /\ (12 - 2 * 2) % 12 = 8
      /\ (12 - 2 * 3) % 12 = 6 /\ (12 - 2 * 4) % 12 = 4 /\ (12 - 2 * 5) % 12 = 2
  OBVIOUS
<1> QED BY <1>1, <1>2, <1>3

LEMMA RingStep ==
    ASSUME NEW c \in Hexes, NEW r \in Nat \ {0}, NEW n \in 1 .. 6 * r
    PROVE  RingPoint(c, r, n) = Neighbor(RingPoint(c, r, n - 1), RingDirections(r)[n])
<1> DEFINE p == RingPoint(c, r, n - 1)
           d == RingDirections(r)[n]
<1>1. p \in Hexes /\ X(p) = X(c) + RingX(r, n - 1) /\ Z(p) = Z(c) + RingZ(r, n - 1)
  BY RingPointIsHex
<1>2. X(c) \in Int /\ Z(c) \in Int
  BY HexIs
<1>3. d = CASE n <= r -> 0
                 [] r < n /\ n <= 2 * r -> 10
                 [] 2 * r < n /\ n <= 3 * r -> 8
                 [] 3 * r < n /\ n <= 4 * r -> 6
                 [] 4 * r < n /\ n <= 5 * r -> 4
                 [] OTHER -> 2
  BY DirectionOf
<1>4. /\ RingX(r, n) = RingX(r, n - 1)
            + (CASE n <= r -> 0
                 [] r < n /\ n <= 2 * r -> -1
                 [] 2 * r < n /\ n <= 3 * r -> -1
                 [] 3 * r < n /\ n <= 4 * r -> 0
                 [] 4 * r < n /\ n <= 5 * r -> 1
                 [] OTHER -> 1)
      /\ RingZ(r, n) = RingZ(r, n - 1)
            + (CASE n <= r -> 1
                 [] r < n /\ n <= 2 * r -> 1
                 [] 2 * r < n /\ n <= 3 * r -> 0
                 [] 3 * r < n /\ n <= 4 * r -> -1
                 [] 4 * r < n /\ n <= 5 * r -> -1
                 [] OTHER -> 0)
  BY DEF RingX, RingZ
<1>5. RingX(r, n - 1) \in Int /\ RingZ(r, n - 1) \in Int
  BY DEF RingX, RingZ
<1> HIDE DEF p, d
<1>6. RingPoint(c, r, n) = <<X(c) + RingX(r, n), Z(c) + RingZ(r, n)>>
  BY DEF RingPoint
<1>7. /\ Neighbor(p, 0) = <<X(p), Z(p) + 1>>
           /\ Neighbor(p, 2) = <<X(p) + 1, Z(p)>>
           /\ Neighbor(p, 4) = <<X(p) + 1, Z(p) - 1>>
           /\ Neighbor(p, 6) = <<X(p), Z(p) - 1>>
           /\ Neighbor(p, 8) = <<X(p) - 1, Z(p)>>
           /\ Neighbor(p, 10) = <<X(p) - 1, Z(p) + 1>>
  BY <1>1, NeighborsAre
<1>8. RingPoint(c, r, n) = Neighbor(p, d)
  BY <1>1, <1>2, <1>3, <1>4, <1>5, <1>6, <1>7
<1> QED BY <1>8 DEF p, d

LEMMA StartOfRing ==
    ASSUME NEW c \in Hexes, NEW r \in Nat
    PROVE  RingStart(c, r) = RingPoint(c, r, 0)
<1>1. NextFlat(NextFlat(NE)) = 4 /\ Offset(4) = <<1, -1>>
  BY DEF NextFlat, NE, NW, Offset
<1>2. X(Offset(4)) = 1 /\ Z(Offset(4)) = -1
  BY <1>1 DEF X, Z
<1>3. RingX(r, 0) = r /\ RingZ(r, 0) = -r
  BY DEF RingX, RingZ
<1>4. r * 1 = r /\ r * (-1) = -r
  OBVIOUS
<1> QED BY <1>1, <1>2, <1>3, <1>4, HexIs DEF RingStart, NeighborN, RingPoint

LEMMA RingIsPoints ==
    ASSUME NEW c \in Hexes, NEW r \in Nat \ {0}, NEW n \in 1 .. 6 * r
    PROVE  Ring(c, r)[n] = RingPoint(c, r, n)
<1> DEFINE d == RingDirections(r)
           At[i \in 0 .. 6 * r] ==
               IF i = 0 THEN RingStart(c, r) ELSE Neighbor(At[i - 1], d[i])
           Walk == [i \in 0 .. 6 * r |-> RingPoint(c, r, i)]
<1>1. Ring(c, r)[n] = At[n]
  BY DEF Ring
<1>2. \A i \in 0 .. 6 * r : i # 0 => i - 1 \in 0 .. 6 * r /\ i \in 1 .. 6 * r
  OBVIOUS
<1>3. \A i \in 0 .. 6 * r :
        Walk[i] = IF i = 0 THEN RingStart(c, r) ELSE Neighbor(Walk[i - 1], d[i])
  <2> TAKE i \in 0 .. 6 * r
  <2>1. CASE i = 0
    BY <2>1, StartOfRing
  <2>2. CASE i # 0
    BY <2>2, <1>2, RingStep
  <2> QED BY <2>1, <2>2
<1>4. Walk = [i \in 0 .. 6 * r |-> IF i = 0 THEN RingStart(c, r) ELSE Neighbor(Walk[i - 1], d[i])]
  BY <1>3
<1>5. At = [i \in 0 .. 6 * r |-> IF i = 0 THEN RingStart(c, r) ELSE Neighbor(At[i - 1], d[i])]
  <2> HIDE DEF Walk
  <2> QED BY <1>4
<1> HIDE DEF At, Walk
<1>6. \A i \in 0 .. 6 * r :
        At[i] = IF i = 0 THEN RingStart(c, r) ELSE Neighbor(At[i - 1], d[i])
  BY <1>5
<1> DEFINE Same == {i \in 0 .. 6 * r : At[i] = Walk[i]}
<1>7. n \in Same
  <2>1. 0 \in Same
    BY <1>3, <1>6
  <2>2. \A i \in 1 .. n : i - 1 \in Same => i \in Same
    <3>1. \A i \in 1 .. n : i \in 0 .. 6 * r /\ i # 0 /\ i - 1 \in 0 .. 6 * r
      OBVIOUS
    <3> QED BY <1>3, <1>6, <3>1
  <2> HIDE DEF Same
  <2>3. n \in Nat
    OBVIOUS
  <2> QED BY <2>1, <2>2, <2>3, Sums!Induction
<1>8. At[n] = Walk[n]
  BY <1>7
<1> QED BY <1>1, <1>8 DEF Walk

-----------------------------------------------------------------------------
(***************************************************************************)
(* Every tile at that distance is on the ring, and the rings make a hexagon *)
(***************************************************************************)

(***************************************************************************)
(* The tiles at a distance of r, the other way round.                      *)
(***************************************************************************)
RingIndex(r, a, b) ==
    CASE a = r /\ -r < b /\ b <= 0 -> b + r
      [] a + b = r /\ b > 0 -> b + r
      [] b = r /\ a < 0 -> 2 * r - a
      [] a = -r /\ b >= 0 /\ b < r -> 4 * r - b
      [] a + b = -r /\ b < 0 -> 4 * r - b
      [] OTHER -> a + 5 * r

AtRadius(r, a, b) ==
    /\ a <= r /\ -r <= a /\ b <= r /\ -r <= b /\ a + b <= r /\ -r <= a + b
    /\ a = r \/ -r = a \/ b = r \/ -r = b \/ a + b = r \/ -r = a + b

LEMMA IndexOfPoint ==
    ASSUME NEW r \in Nat \ {0}, NEW n \in 1 .. 6 * r
    PROVE  /\ RingX(r, n) \in Int /\ RingZ(r, n) \in Int
           /\ AtRadius(r, RingX(r, n), RingZ(r, n))
           /\ RingIndex(r, RingX(r, n), RingZ(r, n)) = n
<1>1. CASE n <= r
  <2>1. RingX(r, n) = r /\ RingZ(r, n) = n - r
    BY <1>1 DEF RingX, RingZ
  <2>2. AtRadius(r, r, n - r)
    BY <1>1 DEF AtRadius
  <2>3. RingIndex(r, r, n - r) = n
    BY <1>1 DEF RingIndex
  <2> QED BY <2>1, <2>2, <2>3
<1>2. CASE r < n /\ n <= 2 * r
  <2>1. RingX(r, n) = 2 * r - n /\ RingZ(r, n) = n - r
    BY <1>2 DEF RingX, RingZ
  <2>2. AtRadius(r, 2 * r - n, n - r)
    BY <1>2 DEF AtRadius
  <2>3. RingIndex(r, 2 * r - n, n - r) = n
    BY <1>2 DEF RingIndex
  <2> QED BY <2>1, <2>2, <2>3
<1>3. CASE 2 * r < n /\ n <= 3 * r
  <2>1. RingX(r, n) = 2 * r - n /\ RingZ(r, n) = r
    BY <1>3 DEF RingX, RingZ
  <2>2. AtRadius(r, 2 * r - n, r)
    BY <1>3 DEF AtRadius
  <2>3. RingIndex(r, 2 * r - n, r) = n
    BY <1>3 DEF RingIndex
  <2> QED BY <2>1, <2>2, <2>3
<1>4. CASE 3 * r < n /\ n <= 4 * r
  <2>1. RingX(r, n) = -r /\ RingZ(r, n) = 4 * r - n
    BY <1>4 DEF RingX, RingZ
  <2>2. AtRadius(r, -r, 4 * r - n)
    BY <1>4 DEF AtRadius
  <2>3. RingIndex(r, -r, 4 * r - n) = n
    BY <1>4 DEF RingIndex
  <2> QED BY <2>1, <2>2, <2>3
<1>5. CASE 4 * r < n /\ n <= 5 * r
  <2>1. RingX(r, n) = n - 5 * r /\ RingZ(r, n) = 4 * r - n
    BY <1>5 DEF RingX, RingZ
  <2>2. AtRadius(r, n - 5 * r, 4 * r - n)
    BY <1>5 DEF AtRadius
  <2>3. RingIndex(r, n - 5 * r, 4 * r - n) = n
    BY <1>5 DEF RingIndex
  <2> QED BY <2>1, <2>2, <2>3
<1>6. CASE 5 * r < n
  <2>1. RingX(r, n) = n - 5 * r /\ RingZ(r, n) = -r
    BY <1>6 DEF RingX, RingZ
  <2>2. AtRadius(r, n - 5 * r, -r)
    BY <1>6 DEF AtRadius
  <2>3. RingIndex(r, n - 5 * r, -r) = n
    BY <1>6 DEF RingIndex
  <2> QED BY <2>1, <2>2, <2>3
<1> QED BY <1>1, <1>2, <1>3, <1>4, <1>5, <1>6

LEMMA PointOfIndex ==
    ASSUME NEW r \in Nat \ {0}, NEW a \in Int, NEW b \in Int, AtRadius(r, a, b)
    PROVE  /\ RingIndex(r, a, b) \in 1 .. 6 * r
           /\ RingX(r, RingIndex(r, a, b)) = a /\ RingZ(r, RingIndex(r, a, b)) = b
<1>1. CASE a = r /\ -r < b /\ b <= 0
  <2>1. RingIndex(r, a, b) = b + r
    BY <1>1 DEF RingIndex, AtRadius
  <2>2. b + r \in 1 .. 6 * r
    BY <1>1 DEF AtRadius
  <2>3. RingX(r, b + r) = a /\ RingZ(r, b + r) = b
    BY <1>1 DEF RingX, RingZ, AtRadius
  <2> QED BY <2>1, <2>2, <2>3
<1>2. CASE a + b = r /\ b > 0
  <2>1. RingIndex(r, a, b) = b + r
    BY <1>2 DEF RingIndex, AtRadius
  <2>2. b + r \in 1 .. 6 * r
    BY <1>2 DEF AtRadius
  <2>3. RingX(r, b + r) = a /\ RingZ(r, b + r) = b
    BY <1>2 DEF RingX, RingZ, AtRadius
  <2> QED BY <2>1, <2>2, <2>3
<1>3. CASE b = r /\ a < 0
  <2>1. RingIndex(r, a, b) = 2 * r - a
    BY <1>3 DEF RingIndex, AtRadius
  <2>2. 2 * r - a \in 1 .. 6 * r
    BY <1>3 DEF AtRadius
  <2>3. RingX(r, 2 * r - a) = a /\ RingZ(r, 2 * r - a) = b
    BY <1>3 DEF RingX, RingZ, AtRadius
  <2> QED BY <2>1, <2>2, <2>3
<1>4. CASE a = -r /\ b >= 0 /\ b < r
  <2>1. RingIndex(r, a, b) = 4 * r - b
    BY <1>4 DEF RingIndex, AtRadius
  <2>2. 4 * r - b \in 1 .. 6 * r
    BY <1>4 DEF AtRadius
  <2>3. RingX(r, 4 * r - b) = a /\ RingZ(r, 4 * r - b) = b
    BY <1>4 DEF RingX, RingZ, AtRadius
  <2> QED BY <2>1, <2>2, <2>3
<1>5. CASE a + b = -r /\ b < 0 /\ a > -r
  <2>1. RingIndex(r, a, b) = 4 * r - b
    BY <1>5 DEF RingIndex, AtRadius
  <2>2. 4 * r - b \in 1 .. 6 * r
    BY <1>5 DEF AtRadius
  <2>3. RingX(r, 4 * r - b) = a /\ RingZ(r, 4 * r - b) = b
    BY <1>5 DEF RingX, RingZ, AtRadius
  <2> QED BY <2>1, <2>2, <2>3
<1>6. CASE b = -r /\ a > 0
  <2>1. RingIndex(r, a, b) = a + 5 * r
    BY <1>6 DEF RingIndex, AtRadius
  <2>2. a + 5 * r \in 1 .. 6 * r
    BY <1>6 DEF AtRadius
  <2>3. RingX(r, a + 5 * r) = a /\ RingZ(r, a + 5 * r) = b
    BY <1>6 DEF RingX, RingZ, AtRadius
  <2> QED BY <2>1, <2>2, <2>3
<1> QED BY <1>1, <1>2, <1>3, <1>4, <1>5, <1>6 DEF AtRadius

LEMMA DistanceIs ==
    ASSUME NEW c \in Hexes, NEW t \in Hexes, NEW r \in Int
    PROVE  Distance(c, t) = r <=> AtRadius(r, X(t) - X(c), Z(t) - Z(c))
<1> DEFINE a == X(t) - X(c)
           b == Z(t) - Z(c)
           s == r - 1
<1>1. a \in Int /\ b \in Int /\ s \in Int /\ a + b = X(t) - X(c) + Z(t) - Z(c)
  BY HexIs
<1>2. /\ Distance(c, t) \in Nat
      /\ Distance(c, t) <= r
           <=> a <= r /\ -r <= a /\ b <= r /\ -r <= b /\ a + b <= r /\ -r <= a + b
  BY <1>1, WithinDistance
<1>3. Distance(c, t) <= s
           <=> a <= s /\ -s <= a /\ b <= s /\ -s <= b /\ a + b <= s /\ -s <= a + b
  <2> HIDE DEF s
  <2> QED BY <1>1, WithinDistance
<1>4. Distance(c, t) = r <=> Distance(c, t) <= r /\ ~(Distance(c, t) <= s)
  BY <1>2
<1>5. AtRadius(r, a, b)
        <=> /\ a <= r /\ -r <= a /\ b <= r /\ -r <= b /\ a + b <= r /\ -r <= a + b
            /\ ~(a <= s /\ -s <= a /\ b <= s /\ -s <= b /\ a + b <= s /\ -s <= a + b)
  <2>1. s = r - 1
    OBVIOUS
  <2> HIDE DEF a, b, s
  <2> QED BY <1>1, <2>1 DEF AtRadius
<1> HIDE DEF a, b, s
<1>6. Distance(c, t) = r <=> AtRadius(r, a, b)
  BY <1>2, <1>3, <1>4, <1>5
<1> QED BY <1>6 DEF a, b

OnRing(c, r) == {t \in Hexes : Distance(c, t) = r}
Hexagon(c, r) == {t \in Hexes : Distance(c, t) <= r}

LEMMA RingIsAtDistance ==
    ASSUME NEW c \in Hexes, NEW r \in Nat \ {0}
    PROVE  /\ \A n \in 1 .. 6 * r :
                /\ Ring(c, r)[n] \in OnRing(c, r)
                /\ RingIndex(r, X(Ring(c, r)[n]) - X(c), Z(Ring(c, r)[n]) - Z(c)) = n
           /\ \A t \in OnRing(c, r) :
                LET i == RingIndex(r, X(t) - X(c), Z(t) - Z(c))
                IN  i \in 1 .. 6 * r /\ Ring(c, r)[i] = t
<1>1. X(c) \in Int /\ Z(c) \in Int /\ r \in Int /\ r \in Nat
  BY HexIs
<1>2. ASSUME NEW n \in 1 .. 6 * r
      PROVE  /\ Ring(c, r)[n] \in OnRing(c, r)
             /\ RingIndex(r, X(Ring(c, r)[n]) - X(c), Z(Ring(c, r)[n]) - Z(c)) = n
  <2> DEFINE t == Ring(c, r)[n]
             a == RingX(r, n)
             b == RingZ(r, n)
  <2>1. t \in Hexes /\ X(t) = X(c) + a /\ Z(t) = Z(c) + b
    <3>1. t = RingPoint(c, r, n) /\ n \in Int
      BY RingIsPoints
    <3> HIDE DEF t
    <3> QED BY <1>1, <3>1, RingPointIsHex
  <2>2. a \in Int /\ b \in Int /\ AtRadius(r, a, b) /\ RingIndex(r, a, b) = n
    BY IndexOfPoint
  <2> HIDE DEF t, a, b
  <2>3. X(t) - X(c) = a /\ Z(t) - Z(c) = b
    BY <1>1, <2>1, <2>2
  <2>4. Distance(c, t) = r
    BY <1>1, <2>1, <2>2, <2>3, DistanceIs
  <2> QED BY <2>1, <2>2, <2>3, <2>4 DEF OnRing, t
<1>3. ASSUME NEW t \in OnRing(c, r)
      PROVE  LET i == RingIndex(r, X(t) - X(c), Z(t) - Z(c))
             IN  i \in 1 .. 6 * r /\ Ring(c, r)[i] = t
  <2> DEFINE a == X(t) - X(c)
             b == Z(t) - Z(c)
             i == RingIndex(r, a, b)
  <2>1. t \in Hexes /\ Distance(c, t) = r
    BY DEF OnRing
  <2>2. X(t) \in Int /\ Z(t) \in Int /\ t = <<X(t), Z(t)>>
    BY <2>1, HexIs
  <2>3. a \in Int /\ b \in Int /\ X(t) = X(c) + a /\ Z(t) = Z(c) + b
    BY <1>1, <2>2
  <2>4. AtRadius(r, a, b)
    BY <1>1, <2>1, DistanceIs
  <2>5. i \in 1 .. 6 * r /\ RingX(r, i) = a /\ RingZ(r, i) = b
    <3> HIDE DEF a, b
    <3> QED BY <2>3, <2>4, PointOfIndex
  <2> HIDE DEF a, b, i
  <2>6. Ring(c, r)[i] = <<X(c) + a, Z(c) + b>>
    BY <2>5, RingIsPoints DEF RingPoint
  <2>7. i \in 1 .. 6 * r /\ Ring(c, r)[i] = t
    BY <2>2, <2>3, <2>5, <2>6
  <2> QED BY <2>7 DEF i, a, b
<1> QED BY <1>2, <1>3

LEMMA DistanceOfCenter ==
    ASSUME NEW c \in Hexes, NEW t \in Hexes
    PROVE  Distance(c, t) = 0 <=> t = c
<1>1. Distance(c, t) = 0 <=> AtRadius(0, X(t) - X(c), Z(t) - Z(c))
  BY DistanceIs
<1>2. /\ X(c) \in Int /\ Z(c) \in Int /\ X(t) \in Int /\ Z(t) \in Int
      /\ t = <<X(t), Z(t)>> /\ c = <<X(c), Z(c)>>
  BY HexIs
<1>3. AtRadius(0, X(t) - X(c), Z(t) - Z(c)) <=> X(t) = X(c) /\ Z(t) = Z(c)
  <2> DEFINE a == X(t) - X(c)
             b == Z(t) - Z(c)
  <2>1. a \in Int /\ b \in Int /\ (a = 0 <=> X(t) = X(c)) /\ (b = 0 <=> Z(t) = Z(c))
    BY <1>2
  <2> HIDE DEF a, b
  <2>2. AtRadius(0, a, b) <=> a = 0 /\ b = 0
    BY <2>1 DEF AtRadius
  <2> QED BY <2>1, <2>2 DEF a, b
<1> QED BY <1>1, <1>2, <1>3

(***************************************************************************)
(* The area around a center, the rings one after the other, is what lies   *)
(* within the radius.                                                      *)
(***************************************************************************)
LEMMA AroundIsHexagon ==
    ASSUME NEW c \in Hexes, NEW r \in Nat
    PROVE  AroundInclusive(c, r) = Hexagon(c, r)
<1>1. ASSUME NEW t \in AroundInclusive(c, r)
      PROVE  t \in Hexagon(c, r)
  <2>1. CASE t = c
    BY <2>1, DistanceOfCenter DEF Hexagon
  <2>2. CASE t # c
    <3>0. PICK i \in 1 .. r : t \in {Ring(c, i)[n] : n \in 1 .. 6 * i}
      BY <2>2 DEF AroundInclusive
    <3>1. PICK n \in 1 .. 6 * i : t = Ring(c, i)[n]
      BY <3>0
    <3>2. i \in Nat \ {0} /\ i <= r
      OBVIOUS
    <3>3. t \in OnRing(c, i)
      BY <3>1, <3>2, RingIsAtDistance
    <3> QED BY <3>2, <3>3 DEF OnRing, Hexagon
  <2> QED BY <2>1, <2>2
<1>2. ASSUME NEW t \in Hexagon(c, r)
      PROVE  t \in AroundInclusive(c, r)
  <2> DEFINE i == Distance(c, t)
  <2>1. t \in Hexes /\ i \in Nat /\ i <= r
    BY DistanceIsNatural DEF Hexagon
  <2>2. CASE i = 0
    BY <2>1, <2>2, DistanceOfCenter DEF AroundInclusive
  <2>3. CASE i # 0
    <3>1. i \in Nat \ {0} /\ i \in 1 .. r /\ t \in OnRing(c, i)
      BY <2>1, <2>3 DEF OnRing
    <3> HIDE DEF i
    <3>2. PICK n \in 1 .. 6 * i : Ring(c, i)[n] = t
      BY <3>1, RingIsAtDistance
    <3>3. t \in {Ring(c, i)[m] : m \in 1 .. 6 * i}
      BY <3>2
    <3> QED BY <3>1, <3>3 DEF AroundInclusive
  <2> QED BY <2>2, <2>3
<1> QED BY <1>1, <1>2

-----------------------------------------------------------------------------
(***************************************************************************)
(* The tiles of a ring and of a hexagon, counted                           *)
(***************************************************************************)
LEMMA RingSize ==
    ASSUME NEW c \in Hexes, NEW r \in Nat \ {0}
    PROVE  IsFiniteSet(OnRing(c, r)) /\ Cardinality(OnRing(c, r)) = 6 * r
<1> DEFINE D == 1 .. 6 * r
           f == [n \in D |-> Ring(c, r)[n]]
           i(t) == RingIndex(r, X(t) - X(c), Z(t) - Z(c))
           T == OnRing(c, r)
<1>1. /\ \A n \in D : Ring(c, r)[n] \in T /\ i(Ring(c, r)[n]) = n
      /\ \A t \in T : i(t) \in D /\ Ring(c, r)[i(t)] = t
  BY RingIsAtDistance
<1> HIDE DEF i, T
<1>2. f \in Injection(D, T) /\ f \in Surjection(D, T)
  <2>1. f \in [D -> T]
    BY <1>1
  <2>2. \A m, n \in D : f[m] = f[n] => m = n
    BY <1>1
  <2>3. \A t \in T : \E n \in D : f[n] = t
    BY <1>1
  <2> HIDE DEF f
  <2> QED BY <2>1, <2>2, <2>3 DEF Injection, IsInjective, Surjection, Range
<1>3. ExistsBijection(D, T)
  BY <1>2 DEF ExistsBijection, Bijection
<1>4. IsFiniteSet(D) /\ Cardinality(D) = 6 * r
  <2>1. 6 * r \in Int /\ ~(1 > 6 * r) /\ 6 * r - 1 + 1 = 6 * r
    OBVIOUS
  <2> QED BY <2>1, FS_Interval
<1>5. IsFiniteSet(T) /\ Cardinality(T) = Cardinality(D)
  BY <1>3, <1>4, FS_Bijection
<1> QED BY <1>4, <1>5 DEF T

LEMMA HexagonGrows ==
    ASSUME NEW c \in Hexes, NEW r \in Nat \ {0}
    PROVE  /\ Hexagon(c, r) = Hexagon(c, r - 1) \cup OnRing(c, r)
           /\ Hexagon(c, r - 1) \cap OnRing(c, r) = {}
<1>1. \A t \in Hexes : Distance(c, t) \in Nat
  BY DistanceIsNatural
<1> QED BY <1>1 DEF Hexagon, OnRing

LEMMA HexagonOfCenter ==
    ASSUME NEW c \in Hexes
    PROVE  Hexagon(c, 0) = {c}
<1>1. \A t \in Hexes : Distance(c, t) \in Nat /\ (Distance(c, t) = 0 <=> t = c)
  BY DistanceIsNatural, DistanceOfCenter
<1> QED BY <1>1 DEF Hexagon

LEMMA HexagonSize ==
    ASSUME NEW c \in Hexes, NEW r \in Nat
    PROVE  /\ IsFiniteSet(Hexagon(c, r))
           /\ Cardinality(Hexagon(c, r)) = NumTilesInRadius(r)
<1> DEFINE Sized == {i \in Nat : /\ IsFiniteSet(Hexagon(c, i))
                                 /\ Cardinality(Hexagon(c, i)) = NumTilesInRadius(i)}
<1>1. 0 \in Sized
  <2>1. NumTilesInRadius(0) = 1
    BY DEF NumTilesInRadius
  <2> QED BY <2>1, HexagonOfCenter, FS_Singleton
<1>2. ASSUME NEW i \in 1 .. r, i - 1 \in Sized
      PROVE  i \in Sized
  <2> DEFINE H == Hexagon(c, i - 1)
             O == OnRing(c, i)
  <2>1. i \in Nat \ {0}
    OBVIOUS
  <2>2. IsFiniteSet(H) /\ Cardinality(H) = NumTilesInRadius(i - 1)
    BY <1>2
  <2>3. IsFiniteSet(O) /\ Cardinality(O) = 6 * i
    BY <2>1, RingSize
  <2>4. H \cap O = {} /\ Hexagon(c, i) = H \cup O
    BY <2>1, HexagonGrows
  <2>5. NumTilesInRadius(i) = NumTilesInRadius(i - 1) + 6 * i /\ NumTilesInRadius(i - 1) \in Int
    BY <2>1 DEF NumTilesInRadius
  <2> HIDE DEF H, O
  <2>6. /\ IsFiniteSet(H \cup O)
        /\ Cardinality(H \cup O) = Cardinality(H) + Cardinality(O) - Cardinality(H \cap O)
    BY <2>2, <2>3, FS_Union
  <2>7. Cardinality(H \cup O) = NumTilesInRadius(i)
    BY <2>1, <2>2, <2>3, <2>4, <2>5, <2>6, FS_EmptySet
  <2> QED BY <2>1, <2>4, <2>6, <2>7
<1>3. \A i \in 1 .. r : i - 1 \in Sized => i \in Sized
  BY <1>2
<1> HIDE DEF Sized
<1>4. r \in Sized
  BY <1>1, <1>3, Sums!Induction
<1> QED BY <1>4 DEF Sized

-----------------------------------------------------------------------------
(***************************************************************************)
(* How many of six are in a set.                                           *)
(***************************************************************************)
Has(S, x) == IF x \in S THEN 1 ELSE 0

LEMMA CountedOn ==
    ASSUME NEW A, IsFiniteSet(A), NEW x, x \notin A, NEW S
    PROVE  /\ IsFiniteSet(A \cup {x})
           /\ Cardinality((A \cup {x}) \cap S) = Cardinality(A \cap S) + Has(S, x)
<1>1. IsFiniteSet(A \cap S) /\ x \notin A \cap S /\ Cardinality(A \cap S) \in Nat
  BY FS_Subset, FS_CardinalityType
<1>2. /\ x \in S => (A \cup {x}) \cap S = (A \cap S) \cup {x}
      /\ x \notin S => (A \cup {x}) \cap S = A \cap S
  OBVIOUS
<1>3. CASE x \in S
  <2> DEFINE B == A \cap S
  <2>1. IsFiniteSet(B) /\ x \notin B /\ (A \cup {x}) \cap S = B \cup {x}
    BY <1>1, <1>2, <1>3
  <2> HIDE DEF B
  <2>2. Cardinality(B \cup {x}) = Cardinality(B) + 1
    BY <2>1, FS_AddElement
  <2>3. Has(S, x) = 1
    BY <1>3 DEF Has
  <2>4. IsFiniteSet(A \cup {x})
    BY FS_AddElement
  <2> QED BY <2>1, <2>2, <2>3, <2>4 DEF B
<1>4. CASE x \notin S
  <2> DEFINE m == Cardinality(A \cap S)
  <2>1. Has(S, x) = 0 /\ IsFiniteSet(A \cup {x})
    BY <1>4, FS_AddElement DEF Has
  <2>2. m \in Nat /\ Cardinality((A \cup {x}) \cap S) = m
    BY <1>1, <1>2, <1>4
  <2> HIDE DEF m
  <2>3. m + 0 = m
    BY <2>2
  <2> QED BY <2>1, <2>2, <2>3 DEF m
<1> QED BY <1>3, <1>4

LEMMA SixCounted ==
    ASSUME NEW a, NEW b, NEW c, NEW d, NEW e, NEW f, NEW S,
           a # b, a # c, a # d, a # e, a # f, b # c, b # d, b # e, b # f,
           c # d, c # e, c # f, d # e, d # f, e # f
    PROVE  Cardinality({a, b, c, d, e, f} \cap S)
             = Has(S, a) + Has(S, b) + Has(S, c) + Has(S, d) + Has(S, e) + Has(S, f)
<1> DEFINE A1 == {a}
           A2 == A1 \cup {b}
           A3 == A2 \cup {c}
           A4 == A3 \cup {d}
           A5 == A4 \cup {e}
           A6 == A5 \cup {f}
<1>0. b \notin A1 /\ c \notin A2 /\ d \notin A3 /\ e \notin A4 /\ f \notin A5
  OBVIOUS
<1>1. {a, b, c, d, e, f} = A6
  OBVIOUS
<1>2. IsFiniteSet(A1) /\ Cardinality(A1 \cap S) = Has(S, a)
  <2>1. CASE a \in S
    <3>1. A1 \cap S = {a}
      BY <2>1
    <3> QED BY <2>1, <3>1, FS_Singleton DEF Has
  <2>2. CASE a \notin S
    <3>1. A1 \cap S = {}
      BY <2>2
    <3> QED BY <2>2, <3>1, FS_Singleton, FS_EmptySet DEF Has
  <2> QED BY <2>1, <2>2
<1> HIDE DEF A1
<1>3. IsFiniteSet(A2) /\ Cardinality(A2 \cap S) = Cardinality(A1 \cap S) + Has(S, b)
  BY <1>0, <1>2, CountedOn
<1> HIDE DEF A2
<1>4. IsFiniteSet(A3) /\ Cardinality(A3 \cap S) = Cardinality(A2 \cap S) + Has(S, c)
  BY <1>0, <1>3, CountedOn
<1> HIDE DEF A3
<1>5. IsFiniteSet(A4) /\ Cardinality(A4 \cap S) = Cardinality(A3 \cap S) + Has(S, d)
  BY <1>0, <1>4, CountedOn
<1> HIDE DEF A4
<1>6. IsFiniteSet(A5) /\ Cardinality(A5 \cap S) = Cardinality(A4 \cap S) + Has(S, e)
  BY <1>0, <1>5, CountedOn
<1> HIDE DEF A5
<1>7. IsFiniteSet(A6) /\ Cardinality(A6 \cap S) = Cardinality(A5 \cap S) + Has(S, f)
  BY <1>0, <1>6, CountedOn
<1> HIDE DEF A6
<1> QED BY <1>1, <1>2, <1>3, <1>4, <1>5, <1>6, <1>7

-----------------------------------------------------------------------------
(***************************************************************************)
(* The neighbours inside a hexagon, counted                                *)
(***************************************************************************)

(***************************************************************************)
(* Neighbourhood is symmetric, and neighbours are at a distance of 1.      *)
(***************************************************************************)
LEMMA NeighborsAreNear ==
    ASSUME NEW t \in Hexes, NEW u \in Hexes
    PROVE  u \in NeighborsDirect(t) <=> Distance(t, u) = 1
<1>1. u \in NeighborsDirect(t)
             <=> u \in {<<X(t), Z(t) + 1>>, <<X(t) + 1, Z(t)>>, <<X(t) + 1, Z(t) - 1>>,
                        <<X(t), Z(t) - 1>>, <<X(t) - 1, Z(t)>>, <<X(t) - 1, Z(t) + 1>>}
  BY NeighborIff
<1>2. Distance(t, u) = 1 <=> AtRadius(1, X(u) - X(t), Z(u) - Z(t))
  BY DistanceIs
<1>3. /\ X(t) \in Int /\ Z(t) \in Int /\ X(u) \in Int /\ Z(u) \in Int
      /\ u = <<X(u), Z(u)>>
  BY HexIs
<1> DEFINE x == X(u)
           z == Z(u)
<1>4. u \in NeighborsDirect(t)
        <=> \/ x = X(t) /\ z = Z(t) + 1
            \/ x = X(t) + 1 /\ z = Z(t)
            \/ x = X(t) + 1 /\ z = Z(t) - 1
            \/ x = X(t) /\ z = Z(t) - 1
            \/ x = X(t) - 1 /\ z = Z(t)
            \/ x = X(t) - 1 /\ z = Z(t) + 1
  BY <1>1, <1>3
<1>5. AtRadius(1, X(u) - X(t), Z(u) - Z(t))
        <=> \/ x = X(t) /\ z = Z(t) + 1
            \/ x = X(t) + 1 /\ z = Z(t)
            \/ x = X(t) + 1 /\ z = Z(t) - 1
            \/ x = X(t) /\ z = Z(t) - 1
            \/ x = X(t) - 1 /\ z = Z(t)
            \/ x = X(t) - 1 /\ z = Z(t) + 1
  BY <1>3 DEF AtRadius
<1> QED BY <1>2, <1>4, <1>5

LEMMA SixAreFinite ==
    ASSUME NEW a, NEW b, NEW c, NEW d, NEW e, NEW f
    PROVE  IsFiniteSet({a, b, c, d, e, f})
<1> DEFINE A1 == {a}
           A2 == A1 \cup {b}
           A3 == A2 \cup {c}
           A4 == A3 \cup {d}
           A5 == A4 \cup {e}
           A6 == A5 \cup {f}
<1>1. {a, b, c, d, e, f} = A6
  OBVIOUS
<1>2. IsFiniteSet(A1)
  BY FS_Singleton
<1> HIDE DEF A1
<1>3. IsFiniteSet(A2)
  BY <1>2, FS_AddElement
<1> HIDE DEF A2
<1>4. IsFiniteSet(A3)
  BY <1>3, FS_AddElement
<1> HIDE DEF A3
<1>5. IsFiniteSet(A4)
  BY <1>4, FS_AddElement
<1> HIDE DEF A4
<1>6. IsFiniteSet(A5)
  BY <1>5, FS_AddElement
<1> HIDE DEF A5
<1>7. IsFiniteSet(A6)
  BY <1>6, FS_AddElement
<1> QED BY <1>1, <1>7

LEMMA NeighborsAreHexes ==
    ASSUME NEW t \in Hexes
    PROVE  NeighborsDirect(t) \subseteq Hexes /\ IsFiniteSet(NeighborsDirect(t)) /\ t \notin NeighborsDirect(t)
<1>1. X(t) \in Int /\ Z(t) \in Int /\ t = <<X(t), Z(t)>>
  BY HexIs
<1> DEFINE N == {<<X(t), Z(t) + 1>>, <<X(t) + 1, Z(t)>>, <<X(t) + 1, Z(t) - 1>>,
                        <<X(t), Z(t) - 1>>, <<X(t) - 1, Z(t)>>, <<X(t) - 1, Z(t) + 1>>}
<1>2. NeighborsDirect(t) = N
  BY NeighborIff
<1>3. N \subseteq Hexes
  BY <1>1 DEF Hexes
<1>4. IsFiniteSet(N)
  <2> QED BY SixAreFinite
<1>5. t \notin N
  BY <1>1
<1> QED BY <1>2, <1>3, <1>4, <1>5

Within(r, x, z) == x <= r /\ -r <= x /\ z <= r /\ -r <= z /\ x + z <= r /\ -r <= x + z

NeighborsWithin(r, a, b) ==
    LET In(x, z) == IF Within(r, x, z) THEN 1 ELSE 0
    IN  In(a, b + 1) + In(a + 1, b) + In(a + 1, b - 1) + In(a, b - 1) + In(a - 1, b) + In(a - 1, b + 1)

AtCorner(r, a, b) ==
    \/ a = r /\ b = -r
    \/ a = r /\ b = 0
    \/ a = 0 /\ b = r
    \/ a = -r /\ b = r
    \/ a = -r /\ b = 0
    \/ a = 0 /\ b = -r

\* inside the ring of radius r
Inner(r, a, b) ==
    /\ a <= r - 1 /\ -(r - 1) <= a /\ b <= r - 1 /\ -(r - 1) <= b
    /\ a + b <= r - 1 /\ -(r - 1) <= a + b

LEMMA NeighborsByPlace ==
    ASSUME NEW r \in Nat \ {0}, NEW a \in Int, NEW b \in Int
    PROVE  /\ Inner(r, a, b) => NeighborsWithin(r, a, b) = 6
           /\ AtRadius(r, a, b) /\ ~AtCorner(r, a, b) => NeighborsWithin(r, a, b) = 4
           /\ AtCorner(r, a, b) => NeighborsWithin(r, a, b) = 3
<1>1. Inner(r, a, b) => NeighborsWithin(r, a, b) = 6
  <2> SUFFICES ASSUME Inner(r, a, b) PROVE NeighborsWithin(r, a, b) = 6
    OBVIOUS
  <2>1. /\ Within(r, a, b + 1)
        /\ Within(r, a + 1, b)
        /\ Within(r, a + 1, b - 1)
        /\ Within(r, a, b - 1)
        /\ Within(r, a - 1, b)
        /\ Within(r, a - 1, b + 1)
    BY DEF Within, Inner
  <2> QED BY <2>1 DEF NeighborsWithin
<1>2. AtRadius(r, a, b) /\ ~AtCorner(r, a, b) => NeighborsWithin(r, a, b) = 4
  <2> SUFFICES ASSUME AtRadius(r, a, b), ~AtCorner(r, a, b)
               PROVE  NeighborsWithin(r, a, b) = 4
    OBVIOUS
  <2>1. CASE a = r
    <3>1. -r < b /\ b < 0
      BY <2>1 DEF AtRadius, AtCorner
    <3>2. /\ Within(r, a, b + 1)
          /\ ~Within(r, a + 1, b)
          /\ ~Within(r, a + 1, b - 1)
          /\ Within(r, a, b - 1)
          /\ Within(r, a - 1, b)
          /\ Within(r, a - 1, b + 1)
      BY <2>1, <3>1 DEF Within
    <3> QED BY <3>2 DEF NeighborsWithin
  <2>2. CASE a = -r
    <3>1. 0 < b /\ b < r
      BY <2>2 DEF AtRadius, AtCorner
    <3>2. /\ Within(r, a, b + 1)
          /\ Within(r, a + 1, b)
          /\ Within(r, a + 1, b - 1)
          /\ Within(r, a, b - 1)
          /\ ~Within(r, a - 1, b)
          /\ ~Within(r, a - 1, b + 1)
      BY <2>2, <3>1 DEF Within
    <3> QED BY <3>2 DEF NeighborsWithin
  <2>3. CASE b = r
    <3>1. -r < a /\ a < 0
      BY <2>3 DEF AtRadius, AtCorner
    <3>2. /\ ~Within(r, a, b + 1)
          /\ Within(r, a + 1, b)
          /\ Within(r, a + 1, b - 1)
          /\ Within(r, a, b - 1)
          /\ Within(r, a - 1, b)
          /\ ~Within(r, a - 1, b + 1)
      BY <2>3, <3>1 DEF Within
    <3> QED BY <3>2 DEF NeighborsWithin
  <2>4. CASE b = -r
    <3>1. 0 < a /\ a < r
      BY <2>4 DEF AtRadius, AtCorner
    <3>2. /\ Within(r, a, b + 1)
          /\ Within(r, a + 1, b)
          /\ ~Within(r, a + 1, b - 1)
          /\ ~Within(r, a, b - 1)
          /\ Within(r, a - 1, b)
          /\ Within(r, a - 1, b + 1)
      BY <2>4, <3>1 DEF Within
    <3> QED BY <3>2 DEF NeighborsWithin
  <2>5. CASE a + b = r
    <3>1. 0 < a /\ a < r /\ b = r - a
      BY <2>5 DEF AtRadius, AtCorner
    <3>2. /\ ~Within(r, a, b + 1)
          /\ ~Within(r, a + 1, b)
          /\ Within(r, a + 1, b - 1)
          /\ Within(r, a, b - 1)
          /\ Within(r, a - 1, b)
          /\ Within(r, a - 1, b + 1)
      BY <2>5, <3>1 DEF Within
    <3> QED BY <3>2 DEF NeighborsWithin
  <2>6. CASE a + b = -r
    <3>1. -r < a /\ a < 0 /\ b = -r - a
      BY <2>6 DEF AtRadius, AtCorner
    <3>2. /\ Within(r, a, b + 1)
          /\ Within(r, a + 1, b)
          /\ Within(r, a + 1, b - 1)
          /\ ~Within(r, a, b - 1)
          /\ ~Within(r, a - 1, b)
          /\ Within(r, a - 1, b + 1)
      BY <2>6, <3>1 DEF Within
    <3> QED BY <3>2 DEF NeighborsWithin
  <2> QED BY <2>1, <2>2, <2>3, <2>4, <2>5, <2>6 DEF AtRadius
<1>3. AtCorner(r, a, b) => NeighborsWithin(r, a, b) = 3
  <2> SUFFICES ASSUME AtCorner(r, a, b) PROVE NeighborsWithin(r, a, b) = 3
    OBVIOUS
  <2>1. CASE a = r /\ b = -r
    <3>1. /\ Within(r, a, b + 1)
          /\ ~Within(r, a + 1, b)
          /\ ~Within(r, a + 1, b - 1)
          /\ ~Within(r, a, b - 1)
          /\ Within(r, a - 1, b)
          /\ Within(r, a - 1, b + 1)
      BY <2>1 DEF Within
    <3> QED BY <3>1 DEF NeighborsWithin
  <2>2. CASE a = r /\ b = 0
    <3>1. /\ ~Within(r, a, b + 1)
          /\ ~Within(r, a + 1, b)
          /\ ~Within(r, a + 1, b - 1)
          /\ Within(r, a, b - 1)
          /\ Within(r, a - 1, b)
          /\ Within(r, a - 1, b + 1)
      BY <2>2 DEF Within
    <3> QED BY <3>1 DEF NeighborsWithin
  <2>3. CASE a = 0 /\ b = r
    <3>1. /\ ~Within(r, a, b + 1)
          /\ ~Within(r, a + 1, b)
          /\ Within(r, a + 1, b - 1)
          /\ Within(r, a, b - 1)
          /\ Within(r, a - 1, b)
          /\ ~Within(r, a - 1, b + 1)
      BY <2>3 DEF Within
    <3> QED BY <3>1 DEF NeighborsWithin
  <2>4. CASE a = -r /\ b = r
    <3>1. /\ ~Within(r, a, b + 1)
          /\ Within(r, a + 1, b)
          /\ Within(r, a + 1, b - 1)
          /\ Within(r, a, b - 1)
          /\ ~Within(r, a - 1, b)
          /\ ~Within(r, a - 1, b + 1)
      BY <2>4 DEF Within
    <3> QED BY <3>1 DEF NeighborsWithin
  <2>5. CASE a = -r /\ b = 0
    <3>1. /\ Within(r, a, b + 1)
          /\ Within(r, a + 1, b)
          /\ Within(r, a + 1, b - 1)
          /\ ~Within(r, a, b - 1)
          /\ ~Within(r, a - 1, b)
          /\ ~Within(r, a - 1, b + 1)
      BY <2>5 DEF Within
    <3> QED BY <3>1 DEF NeighborsWithin
  <2>6. CASE a = 0 /\ b = -r
    <3>1. /\ Within(r, a, b + 1)
          /\ Within(r, a + 1, b)
          /\ ~Within(r, a + 1, b - 1)
          /\ ~Within(r, a, b - 1)
          /\ ~Within(r, a - 1, b)
          /\ Within(r, a - 1, b + 1)
      BY <2>6 DEF Within
    <3> QED BY <3>1 DEF NeighborsWithin
  <2> QED BY <2>1, <2>2, <2>3, <2>4, <2>5, <2>6 DEF AtCorner
<1> QED BY <1>1, <1>2, <1>3

LEMMA AdjacentInHexagon ==
    ASSUME NEW c \in Hexes, NEW t \in Hexes, NEW r \in Nat
    PROVE  Adjacent(t, Hexagon(c, r)) = NeighborsWithin(r, X(t) - X(c), Z(t) - Z(c))
<1> DEFINE n0 == <<X(t), Z(t) + 1>>
           n1 == <<X(t) + 1, Z(t)>>
           n2 == <<X(t) + 1, Z(t) - 1>>
           n3 == <<X(t), Z(t) - 1>>
           n4 == <<X(t) - 1, Z(t)>>
           n5 == <<X(t) - 1, Z(t) + 1>>
           S == Hexagon(c, r)
           a == X(t) - X(c)
           b == Z(t) - Z(c)
<1>1. X(t) \in Int /\ Z(t) \in Int /\ X(c) \in Int /\ Z(c) \in Int /\ r \in Int
  BY HexIs
<1>2. NeighborsDirect(t) = {n0, n1, n2, n3, n4, n5}
  BY NeighborIff
<1>3. /\ n0 # n1 /\ n0 # n2 /\ n0 # n3 /\ n0 # n4 /\ n0 # n5
      /\ n1 # n2 /\ n1 # n3 /\ n1 # n4 /\ n1 # n5
      /\ n2 # n3 /\ n2 # n4 /\ n2 # n5 /\ n3 # n4 /\ n3 # n5 /\ n4 # n5
  BY <1>1
<1>4. Cardinality({n0, n1, n2, n3, n4, n5} \cap S)
        = Has(S, n0) + Has(S, n1) + Has(S, n2) + Has(S, n3) + Has(S, n4) + Has(S, n5)
  <2> HIDE DEF n0, n1, n2, n3, n4, n5, S
  <2> QED BY <1>3, SixCounted
<1>5. ASSUME NEW x \in Int, NEW z \in Int
      PROVE  <<x, z>> \in S <=> Within(r, x - X(c), z - Z(c))
  <2> DEFINE u == <<x, z>>
  <2>1. u \in Hexes /\ X(u) = x /\ Z(u) = z
    BY DEF Hexes, X, Z
  <2> HIDE DEF u
  <2>2. Distance(c, u) <= r <=> /\ X(u) - X(c) <= r /\ -r <= X(u) - X(c)
                    /\ Z(u) - Z(c) <= r /\ -r <= Z(u) - Z(c)
                    /\ X(u) - X(c) + Z(u) - Z(c) <= r /\ -r <= X(u) - X(c) + Z(u) - Z(c)
    BY <1>1, <2>1, WithinDistance
  <2>3. u \in S <=> Distance(c, u) <= r
    BY <2>1 DEF Hexagon
  <2>4. x - X(c) + (z - Z(c)) = x - X(c) + z - Z(c)
    BY <1>1
  <2>5. u \in S <=> Within(r, x - X(c), z - Z(c))
    BY <2>1, <2>2, <2>3, <2>4 DEF Within
  <2> QED BY <2>5 DEF u
<1>6. /\ X(t) + 1 - X(c) = a + 1 /\ X(t) - 1 - X(c) = a - 1 /\ X(t) - X(c) = a
      /\ Z(t) + 1 - Z(c) = b + 1 /\ Z(t) - 1 - Z(c) = b - 1 /\ Z(t) - Z(c) = b
      /\ X(t) + 1 \in Int /\ X(t) - 1 \in Int /\ Z(t) + 1 \in Int /\ Z(t) - 1 \in Int
  BY <1>1
<1> HIDE DEF S, a, b
<1>7. /\ n0 \in S <=> Within(r, a, b + 1)
      /\ n1 \in S <=> Within(r, a + 1, b)
      /\ n2 \in S <=> Within(r, a + 1, b - 1)
      /\ n3 \in S <=> Within(r, a, b - 1)
      /\ n4 \in S <=> Within(r, a - 1, b)
      /\ n5 \in S <=> Within(r, a - 1, b + 1)
  BY <1>1, <1>5, <1>6
<1> HIDE DEF n0, n1, n2, n3, n4, n5
<1>8. Adjacent(t, S) = Has(S, n0) + Has(S, n1) + Has(S, n2) + Has(S, n3) + Has(S, n4) + Has(S, n5)
  BY <1>2, <1>4 DEF Adjacent
<1>9. Adjacent(t, S) = NeighborsWithin(r, a, b)
  BY <1>7, <1>8 DEF NeighborsWithin, Has
<1> QED BY <1>9 DEF S, a, b

Corners(c, r) == {t \in OnRing(c, r) : AtCorner(r, X(t) - X(c), Z(t) - Z(c))}

LEMMA SixCorners ==
    ASSUME NEW c \in Hexes, NEW r \in Nat \ {0}
    PROVE  Cardinality(Corners(c, r)) = 6
<1> DEFINE n0 == <<X(c) + r, Z(c) - r>>
           n1 == <<X(c) + r, Z(c)>>
           n2 == <<X(c), Z(c) + r>>
           n3 == <<X(c) - r, Z(c) + r>>
           n4 == <<X(c) - r, Z(c)>>
           n5 == <<X(c), Z(c) - r>>
           S == Corners(c, r)
<1>1. X(c) \in Int /\ Z(c) \in Int
  BY HexIs
<1>2. /\ n0 # n1 /\ n0 # n2 /\ n0 # n3 /\ n0 # n4 /\ n0 # n5
      /\ n1 # n2 /\ n1 # n3 /\ n1 # n4 /\ n1 # n5
      /\ n2 # n3 /\ n2 # n4 /\ n2 # n5 /\ n3 # n4 /\ n3 # n5 /\ n4 # n5
  BY <1>1
<1>3. ASSUME NEW x \in Int, NEW z \in Int, AtCorner(r, x - X(c), z - Z(c))
      PROVE  <<x, z>> \in S
  <2> DEFINE u == <<x, z>>
  <2>1. u \in Hexes /\ X(u) = x /\ Z(u) = z
    BY DEF Hexes, X, Z
  <2>2. AtRadius(r, x - X(c), z - Z(c))
    BY <1>1, <1>3 DEF AtRadius, AtCorner
  <2> HIDE DEF u
  <2>3. Distance(c, u) = r
    BY <2>1, <2>2, DistanceIs
  <2>4. u \in S
    BY <1>3, <2>1, <2>3 DEF Corners, OnRing
  <2> QED BY <2>4 DEF u
<1>4. /\ X(c) + r \in Int /\ X(c) - r \in Int /\ Z(c) + r \in Int /\ Z(c) - r \in Int
      /\ AtCorner(r, X(c) + r - X(c), Z(c) - r - Z(c))
      /\ AtCorner(r, X(c) + r - X(c), Z(c) - Z(c))
      /\ AtCorner(r, X(c) - X(c), Z(c) + r - Z(c))
      /\ AtCorner(r, X(c) - r - X(c), Z(c) + r - Z(c))
      /\ AtCorner(r, X(c) - r - X(c), Z(c) - Z(c))
      /\ AtCorner(r, X(c) - X(c), Z(c) - r - Z(c))
  BY <1>1 DEF AtCorner
<1> HIDE DEF S
<1>5. n0 \in S /\ n1 \in S /\ n2 \in S /\ n3 \in S /\ n4 \in S /\ n5 \in S
  BY <1>1, <1>3, <1>4
<1>6. ASSUME NEW t \in S
      PROVE  t \in {n0, n1, n2, n3, n4, n5}
  <2>1. t \in Hexes /\ AtCorner(r, X(t) - X(c), Z(t) - Z(c))
    BY DEF Corners, OnRing, S
  <2>2. X(t) \in Int /\ Z(t) \in Int /\ t = <<X(t), Z(t)>>
    BY <2>1, HexIs
  <2> DEFINE x == X(t)
             z == Z(t)
  <2>3. \/ x = X(c) + r /\ z = Z(c) - r
        \/ x = X(c) + r /\ z = Z(c)
        \/ x = X(c) /\ z = Z(c) + r
        \/ x = X(c) - r /\ z = Z(c) + r
        \/ x = X(c) - r /\ z = Z(c)
        \/ x = X(c) /\ z = Z(c) - r
    BY <1>1, <2>1, <2>2 DEF AtCorner
  <2> QED BY <2>2, <2>3
<1>7. {n0, n1, n2, n3, n4, n5} \cap S = S
  BY <1>6
<1> HIDE DEF n0, n1, n2, n3, n4, n5
<1>8. Cardinality({n0, n1, n2, n3, n4, n5} \cap S)
        = Has(S, n0) + Has(S, n1) + Has(S, n2) + Has(S, n3) + Has(S, n4) + Has(S, n5)
  BY <1>2, SixCounted
<1>9. Cardinality(S) = 6
  BY <1>5, <1>7, <1>8 DEF Has
<1> QED BY <1>9 DEF S

(***************************************************************************)
(* num_neighbors_in_radius: the inner tiles have six neighbours within the *)
(* radius, the corners three, the sides four.                              *)
(***************************************************************************)
NeighborsIn(T) == [t \in T |-> Adjacent(t, T)]

LEMMA HexagonNeighbors ==
    ASSUME NEW c \in Hexes, NEW r \in Nat
    PROVE  SumFunction(NeighborsIn(Hexagon(c, r))) = NumNeighborsInRadius(r)
<1> DEFINE H == Hexagon(c, r)
           f == NeighborsIn(H)
<1>1. IsFiniteSet(H) /\ DOMAIN f = H /\ \A t \in H : t \in Hexes /\ f[t] = NeighborsWithin(r, X(t) - X(c), Z(t) - Z(c))
  <2>1. IsFiniteSet(H)
    BY HexagonSize
  <2>2. \A t \in H : t \in Hexes
    BY DEF Hexagon
  <2>3. DOMAIN f = H /\ \A t \in H : f[t] = Adjacent(t, H)
    BY DEF NeighborsIn
  <2> HIDE DEF f
  <2> QED BY <2>1, <2>2, <2>3, AdjacentInHexagon
<1> HIDE DEF f
<1>2. CASE r = 0
  <2>1. H = {c}
    BY <1>2, HexagonOfCenter
  <2>2. f[c] = 0
    <3>1. X(c) - X(c) = 0 /\ Z(c) - Z(c) = 0
      BY HexIs
    <3>2. NeighborsWithin(0, 0, 0) = 0
      BY DEF NeighborsWithin, Within
    <3> QED BY <1>1, <1>2, <2>1, <3>1, <3>2
  <2>3. SumFunction(f) = 0 * Cardinality(H)
    BY <1>1, <2>1, <2>2, TotalOfSame
  <2>4. Cardinality(H) \in Nat
    BY <1>1, FS_CardinalityType
  <2>5. NumNeighborsInRadius(0) = 0
    BY DEF NumNeighborsInRadius, NumTilesInRadius
  <2> QED BY <1>2, <2>3, <2>4, <2>5 DEF f
<1>3. CASE r # 0
  <2> DEFINE I == Hexagon(c, r - 1)
             O == OnRing(c, r)
             K == Corners(c, r)
             fI == [t \in I |-> f[t]]
             fO == [t \in H \ I |-> f[t]]
             fK == [t \in K |-> fO[t]]
             fS == [t \in (H \ I) \ K |-> fO[t]]
  <2>1. r \in Nat \ {0} /\ r - 1 \in Nat
    BY <1>3
  <2>2. H = I \cup O /\ I \cap O = {} /\ K \in SUBSET O /\ I \in SUBSET H /\ H \ I = O
    BY <2>1, HexagonGrows DEF Corners
  <2>3. /\ IsFiniteSet(O) /\ Cardinality(O) = 6 * r
        /\ Cardinality(I) = NumTilesInRadius(r - 1) /\ IsFiniteSet(I)
        /\ Cardinality(K) = 6 /\ IsFiniteSet(K)
    BY <2>1, <2>2, RingSize, HexagonSize, SixCorners, FS_Subset
  <2>4. /\ \A t \in I : f[t] = 6
        /\ \A t \in K : f[t] = 3
        /\ \A t \in O \ K : f[t] = 4
    <3> HIDE DEF I, O, K, H
    <3>1. ASSUME NEW t \in H
          PROVE  /\ t \in I => f[t] = 6
                 /\ t \in K => f[t] = 3
                 /\ t \in O \ K => f[t] = 4
      <4> DEFINE a == X(t) - X(c)
                 b == Z(t) - Z(c)
                 s == r - 1
      <4>1. t \in Hexes /\ f[t] = NeighborsWithin(r, a, b) /\ a \in Int /\ b \in Int /\ s \in Int
        BY <1>1, <2>1, HexIs
      <4>2. a + b = X(t) - X(c) + Z(t) - Z(c)
        BY <4>1, HexIs
      <4>3. t \in I => a <= s /\ -s <= a /\ b <= s /\ -s <= b /\ a + b <= s /\ -s <= a + b
        <5> HIDE DEF s
        <5>1. t \in I => Distance(c, t) <= s
          BY DEF I, Hexagon, s
        <5> QED BY <4>1, <4>2, <5>1, WithinDistance
      <4>4. t \in O => AtRadius(r, a, b)
        <5>1. t \in O => Distance(c, t) = r
          BY DEF O, OnRing
        <5> QED BY <2>1, <4>1, <5>1, DistanceIs
      <4>5. t \in O => (t \in K <=> AtCorner(r, a, b))
        BY DEF O, K, Corners
      <4>6. t \in K => t \in O
        BY <2>2
      <4>7. s = r - 1
        OBVIOUS
      <4> HIDE DEF a, b, s
      <4>8. /\ Inner(r, a, b) => NeighborsWithin(r, a, b) = 6
            /\ AtRadius(r, a, b) /\ ~AtCorner(r, a, b) => NeighborsWithin(r, a, b) = 4
            /\ AtCorner(r, a, b) => NeighborsWithin(r, a, b) = 3
        BY <2>1, <4>1, NeighborsByPlace
      <4>9. t \in I => Inner(r, a, b)
        BY <2>1, <4>1, <4>3, <4>7 DEF Inner
      <4> QED BY <4>1, <4>4, <4>5, <4>6, <4>8, <4>9
    <3> QED BY <2>2, <3>1
  <2>5. f \in [H -> Int]
    <3>1. \A t \in H : f[t] \in Int
      BY <2>2, <2>4
    <3>2. f = [t \in H |-> f[t]]
      BY DEF f, NeighborsIn
    <3> QED BY <3>1, <3>2
  <2> HIDE DEF I, O, K, H
  <2>6. SumFunction(f) = SumFunction(fI) + SumFunction(fO)
    <3>1. IsFiniteSet(H) /\ I \in SUBSET H
      BY <1>1, <2>2
    <3> QED BY <2>5, <3>1, TotalIsSplit
  <2>7. fO \in [H \ I -> Int] /\ IsFiniteSet(H \ I) /\ K \in SUBSET (H \ I)
    BY <2>2, <2>3, <2>5
  <2>8. DOMAIN fI = I /\ \A t \in I : fI[t] = 6
    BY <2>4
  <2>9. DOMAIN fK = K /\ \A t \in K : fK[t] = 3
    BY <2>2, <2>4
  <2>10. DOMAIN fS = (H \ I) \ K /\ \A t \in (H \ I) \ K : fS[t] = 4
    BY <2>2, <2>4
  <2> HIDE DEF fO, fI
  <2>11. SumFunction(fO) = SumFunction(fK) + SumFunction(fS)
    BY <2>7, TotalIsSplit
  <2> HIDE DEF fK, fS
  <2>12. SumFunction(fI) = 6 * Cardinality(I)
    BY <2>3, <2>8, TotalOfSame
  <2>13. SumFunction(fK) = 3 * 6
    BY <2>3, <2>9, TotalOfSame
  <2>14. IsFiniteSet((H \ I) \ K) /\ Cardinality((H \ I) \ K) = 6 * r - 6
    <3>1. IsFiniteSet(O \ K) /\ Cardinality(O \ K) = Cardinality(O) - Cardinality(O \cap K)
      BY <2>3, FS_Difference
    <3>2. O \cap K = K
      BY <2>2
    <3> QED BY <2>2, <2>3, <3>1, <3>2
  <2>15. SumFunction(fS) = 4 * (6 * r - 6)
    BY <2>10, <2>14, TotalOfSame
  <2>16. NumTilesInRadius(r - 1) \in Int
    BY <2>1 DEF NumTilesInRadius
  <2>17. NumNeighborsInRadius(r) = 6 * NumTilesInRadius(r - 1) + 3 * 6 + 4 * (6 * r - 6)
    BY <2>1, <2>16 DEF NumNeighborsInRadius
  <2>18. SumFunction(f) = NumNeighborsInRadius(r)
    BY <2>1, <2>3, <2>6, <2>11, <2>12, <2>13, <2>15, <2>16, <2>17
  <2> QED BY <2>18 DEF f, H
<1> QED BY <1>2, <1>3 DEF f

-----------------------------------------------------------------------------
(***************************************************************************)
(* The iterator emits the ring                                             *)
(***************************************************************************)

(***************************************************************************)
(* The iterator is where it should be in the ring: so many tiles along the *)
(* side j, in the direction of that side.                                  *)
(***************************************************************************)
SideDirection(side) == IF side = 0 THEN 0 ELSE 12 - 2 * side

InTurn(m) ==
    /\ j \in 0 .. 5 /\ k \in -1 .. radius - 1
    /\ k = -1 => j = 0
    /\ m = j * radius + k + 1
    /\ direction = SideDirection(j)

RingInv ==
    /\ center \in Hexes /\ radius \in Nat /\ emitted \in Seq(Hexes)
    /\ radius = 0 => coordinate = center
    /\ ended \in BOOLEAN /\ (ended => radius > 0)
    /\ radius > 0 =>
         /\ coordinate = RingPoint(center, radius, Len(emitted))
         /\ Len(emitted) <= 6 * radius
         /\ \A n \in 1 .. Len(emitted) : emitted[n] = RingPoint(center, radius, n)
         /\ IF ended THEN Len(emitted) = 6 * radius ELSE InTurn(Len(emitted))

LEMMA RingInitInv == RingInit => RingInv
<1> SUFFICES ASSUME RingInit PROVE RingInv
  OBVIOUS
<1>1. center \in Hexes /\ radius \in Nat /\ emitted = <<>> /\ ended = FALSE
  BY RingAssumption DEF RingInit, Centers, Coordinates, Hexes
<1>2. emitted \in Seq(Hexes) /\ Len(emitted) = 0
  BY <1>1
<1>3. radius = 0 => coordinate = center
  BY <1>1 DEF RingInit
<1>4. ASSUME radius > 0
      PROVE  coordinate = RingPoint(center, radius, 0) /\ InTurn(0)
  <2>1. coordinate = RingStart(center, radius) /\ direction = 0 /\ j = 0 /\ k = -1
    BY <1>1, <1>4 DEF RingInit, NE
  <2>2. coordinate = RingPoint(center, radius, 0)
    BY <1>1, <2>1, StartOfRing
  <2>3. 0 = 0 * radius + -1 + 1
    BY <1>1
  <2> QED BY <1>1, <1>4, <2>1, <2>2, <2>3 DEF InTurn, SideDirection
<1>5. radius > 0 =>
        /\ coordinate = RingPoint(center, radius, Len(emitted))
        /\ Len(emitted) <= 6 * radius
        /\ \A n \in 1 .. Len(emitted) : emitted[n] = RingPoint(center, radius, n)
        /\ InTurn(Len(emitted))
  <2>1. 0 <= 6 * radius /\ 1 .. 0 = {}
    BY <1>1
  <2> QED BY <1>2, <1>4, <2>1
<1> QED BY <1>1, <1>2, <1>3, <1>5 DEF RingInv

(***************************************************************************)
(* The side that the next tile is on is the one that ring numbers.         *)
(***************************************************************************)
LEMMA SideOfNext ==
    ASSUME NEW r \in Nat \ {0}, NEW s \in 0 .. 5, NEW i \in 0 .. r - 1, NEW n, n = s * r + i + 1
    PROVE  n \in 1 .. 6 * r /\ RingDirections(r)[n] = SideDirection(s)
<1>1. /\ s = 0 => n = i + 1
      /\ s = 1 => n = r + i + 1
      /\ s = 2 => n = 2 * r + i + 1
      /\ s = 3 => n = 3 * r + i + 1
      /\ s = 4 => n = 4 * r + i + 1
      /\ s = 5 => n = 5 * r + i + 1
  OBVIOUS
<1>2. s \in {0, 1, 2, 3, 4, 5}
  OBVIOUS
<1>3. n \in 1 .. 6 * r
  BY <1>1, <1>2
<1>4. RingDirections(r)[n]
             = CASE n <= r -> 0
                 [] r < n /\ n <= 2 * r -> 10
                 [] 2 * r < n /\ n <= 3 * r -> 8
                 [] 3 * r < n /\ n <= 4 * r -> 6
                 [] 4 * r < n /\ n <= 5 * r -> 4
                 [] OTHER -> 2
  BY <1>3, DirectionOf
<1> DEFINE d == RingDirections(r)[n]
<1> HIDE DEF d
<1>5. /\ s = 0 => d = 0
      /\ s = 1 => d = 10
      /\ s = 2 => d = 8
      /\ s = 3 => d = 6
      /\ s = 4 => d = 4
      /\ s = 5 => d = 2
  BY <1>1, <1>4 DEF d
<1>6. d = SideDirection(s)
  BY <1>2, <1>5 DEF SideDirection
<1> QED BY <1>3, <1>6 DEF d

LEMMA EmitNextKeepsInv ==
    ASSUME RingInv, EmitNext
    PROVE  RingInv'
<1> DEFINE m == Len(emitted)
           corner == k + 1 >= radius
<1>1. /\ center \in Hexes /\ radius \in Nat \ {0} /\ emitted \in Seq(Hexes) /\ m \in Nat
      /\ ended = FALSE /\ coordinate = RingPoint(center, radius, m)
      /\ \A n \in 1 .. m : emitted[n] = RingPoint(center, radius, n)
      /\ InTurn(m)
  BY DEF RingInv, EmitNext
<1>2. /\ corner => j + 1 < 6
      /\ j' = IF corner THEN j + 1 ELSE j
      /\ k' = IF corner THEN 0 ELSE k + 1
      /\ direction' = IF corner THEN NextSide(direction) ELSE direction
      /\ coordinate' = Neighbor(coordinate, direction')
      /\ emitted' = Append(emitted, coordinate')
      /\ center' = center /\ radius' = radius /\ ended' = ended
  BY DEF EmitNext
<1> HIDE DEF m
<1>3. /\ j' \in 0 .. 5 /\ k' \in 0 .. radius - 1 /\ m + 1 = j' * radius + k' + 1
      /\ direction' = SideDirection(j')
  <2>1. /\ j \in 0 .. 5 /\ k \in -1 .. radius - 1 /\ m = j * radius + k + 1
        /\ direction = SideDirection(j) /\ (k = -1 => j = 0)
    BY <1>1 DEF InTurn
  <2>2. CASE ~corner
    <3>1. j' = j /\ k' = k + 1 /\ direction' = direction
      BY <1>2, <2>2
    <3>2. k + 1 \in 0 .. radius - 1
      BY <1>1, <2>1, <2>2
    <3>3. j * radius \in Int
      BY <1>1, <2>1
    <3>4. m + 1 = j * radius + (k + 1) + 1
      <4> DEFINE a == j * radius
      <4> HIDE DEF a
      <4>1. a \in Int /\ m = a + k + 1
        BY <2>1, <3>3 DEF a
      <4>2. m + 1 = a + (k + 1) + 1
        BY <2>1, <4>1
      <4> QED BY <4>2 DEF a
    <3> QED BY <2>1, <3>1, <3>2, <3>4
  <2>3. CASE corner
    <3>1. j' = j + 1 /\ k' = 0 /\ direction' = NextSide(direction) /\ j + 1 \in 0 .. 5
      BY <1>2, <2>1, <2>3
    <3>2. k + 1 = radius
      BY <1>1, <2>1, <2>3
    <3>3. (j + 1) * radius = j * radius + radius /\ j * radius \in Int
      BY <1>1, <2>1
    <3>4. m + 1 = (j + 1) * radius + 0 + 1
      <4> DEFINE a == j * radius
                 b == (j + 1) * radius
      <4> HIDE DEF a, b
      <4>1. a \in Int /\ m = a + k + 1 /\ b = a + radius
        BY <2>1, <3>3 DEF a, b
      <4>2. m + 1 = b + 0 + 1
        BY <1>1, <2>1, <3>2, <4>1
      <4> QED BY <4>2 DEF b
    <3>5. NextSide(direction) = SideDirection(j + 1)
      BY <2>1, <3>1 DEF NextSide, PreviousFlat, NE, NW, SideDirection
    <3>6. 0 \in 0 .. radius - 1
      BY <1>1
    <3> QED BY <3>1, <3>4, <3>5, <3>6
  <2> QED BY <2>2, <2>3
<1>4. m + 1 \in 1 .. 6 * radius /\ RingDirections(radius)[m + 1] = direction'
  <2> DEFINE n == m + 1
             s == j'
             i == k'
  <2>1. s \in 0 .. 5 /\ i \in 0 .. radius - 1 /\ n = s * radius + i + 1
        /\ direction' = SideDirection(s)
    BY <1>3
  <2> HIDE DEF n, s, i
  <2>2. n \in 1 .. 6 * radius /\ RingDirections(radius)[n] = SideDirection(s)
    BY <1>1, <2>1, SideOfNext
  <2> QED BY <2>1, <2>2 DEF n
<1>5. coordinate' = RingPoint(center, radius, m + 1) /\ coordinate' \in Hexes
  <2> DEFINE n == m + 1
  <2>1. n \in 1 .. 6 * radius /\ n - 1 = m /\ RingDirections(radius)[n] = direction' /\ n \in Int
    BY <1>1, <1>4
  <2> HIDE DEF n
  <2>2. RingPoint(center, radius, n) = Neighbor(RingPoint(center, radius, n - 1), RingDirections(radius)[n])
    BY <1>1, <2>1, RingStep
  <2>3. coordinate' = RingPoint(center, radius, n)
    BY <1>1, <1>2, <2>1, <2>2
  <2>4. coordinate' \in Hexes
    BY <1>1, <2>1, <2>3, RingPointIsHex
  <2> QED BY <2>3, <2>4 DEF n
<1>6. /\ emitted' \in Seq(Hexes) /\ Len(emitted') = m + 1
      /\ \A n \in 1 .. m : emitted'[n] = emitted[n]
      /\ emitted'[m + 1] = coordinate'
  BY <1>1, <1>2, <1>5, AppendProperties DEF m
<1>7. \A n \in 1 .. m + 1 : emitted'[n] = RingPoint(center, radius, n)
  <2> TAKE n \in 1 .. m + 1
  <2>1. n \in 1 .. m \/ n = m + 1
    BY <1>1
  <2> QED BY <1>1, <1>5, <1>6, <2>1
<1>8. InTurn(Len(emitted))'
  <2>1. Len(emitted)' = m + 1
    BY <1>6
  <2>2. k' \in -1 .. radius' - 1 /\ k' # -1
    BY <1>1, <1>2, <1>3
  <2> QED BY <1>2, <1>3, <2>1, <2>2 DEF InTurn
<1>9. m + 1 <= 6 * radius
  BY <1>1, <1>4
<1>10. /\ center' \in Hexes /\ radius' \in Nat /\ radius' > 0 /\ emitted' \in Seq(Hexes) /\ ended' = FALSE
       /\ coordinate' = RingPoint(center', radius', Len(emitted'))
       /\ Len(emitted') <= 6 * radius'
       /\ \A n \in 1 .. Len(emitted') : emitted'[n] = RingPoint(center', radius', n)
  BY <1>1, <1>2, <1>5, <1>6, <1>7, <1>9
<1>11. (radius = 0 => coordinate = center)'
  BY <1>10
<1>12. ended' \in BOOLEAN /\ (ended' => radius' > 0)
  BY <1>10
<1>13. IF ended' THEN Len(emitted') = 6 * radius' ELSE InTurn(Len(emitted))'
  BY <1>8, <1>10, Zenon
<1> QED BY <1>10, <1>11, <1>12, <1>13, Zenon DEF RingInv

LEMMA RingStepKeepsInv ==
    ASSUME RingInv, RingNext \/ UNCHANGED ringVars
    PROVE  RingInv'
<1>1. CASE UNCHANGED ringVars
  BY <1>1 DEF ringVars, RingInv, InTurn
<1>2. CASE EmitNext
  BY <1>2, EmitNextKeepsInv
<1>3. CASE EmitCenter
  <2>1. radius = 0 /\ emitted' = Append(emitted, coordinate) /\ coordinate \in Hexes
        /\ UNCHANGED <<center, radius, coordinate, direction, ended>>
    BY <1>3 DEF EmitCenter, RingInv
  <2>2. emitted' \in Seq(Hexes)
    BY <2>1, AppendProperties DEF RingInv
  <2> QED BY <2>1, <2>2 DEF RingInv
<1>4. CASE EndRing
  <2>1. /\ radius > 0 /\ ended = FALSE /\ k + 1 >= radius /\ j + 1 >= 6 /\ ended' = TRUE
        /\ UNCHANGED <<center, radius, coordinate, direction, emitted>>
    BY <1>4 DEF EndRing, RingInv
  <2>2. InTurn(Len(emitted)) /\ radius \in Nat
    BY <2>1 DEF RingInv
  <2>3. j = 5 /\ k + 1 = radius
    BY <2>1, <2>2 DEF InTurn
  <2>4. Len(emitted) = 6 * radius
    BY <2>2, <2>3 DEF InTurn
  <2> QED BY <2>1, <2>4 DEF RingInv
<1> QED BY <1>1, <1>2, <1>3, <1>4 DEF RingNext

-----------------------------------------------------------------------------
LEMMA RingInvIterates == RingInv => IteratorIsRing
<1> SUFFICES ASSUME RingInv, radius > 0
             PROVE  /\ emitted = SubSeq(Ring(center, radius), 1, Len(emitted))
                    /\ ended => Len(emitted) = 6 * radius
  BY DEF IteratorIsRing
<1> DEFINE R == Ring(center, radius)
           m == Len(emitted)
<1>1. /\ center \in Hexes /\ radius \in Nat \ {0} /\ emitted \in Seq(Hexes) /\ m \in Nat
      /\ m <= 6 * radius
      /\ \A n \in 1 .. m : emitted[n] = RingPoint(center, radius, n)
      /\ ended => m = 6 * radius
  BY DEF RingInv
<1>2. \A n \in 1 .. 6 * radius : R[n] = RingPoint(center, radius, n) /\ R[n] \in Hexes
  <2> TAKE n \in 1 .. 6 * radius
  <2>1. n \in Int /\ R[n] = RingPoint(center, radius, n)
    BY <1>1, RingIsPoints
  <2> HIDE DEF R
  <2> QED BY <1>1, <2>1, RingPointIsHex
<1>3. DOMAIN R = 1 .. 6 * radius /\ R = [n \in 1 .. 6 * radius |-> R[n]]
  BY DEF Ring
<1> HIDE DEF R, m
<1>4. R \in Seq(Hexes) /\ Len(R) = 6 * radius
  <2>1. R \in [1 .. 6 * radius -> Hexes] /\ 6 * radius \in Nat
    BY <1>1, <1>2, <1>3
  <2> QED BY <2>1, <1>3, SeqDef, LenProperties
<1> DEFINE S == SubSeq(R, 1, m)
<1>5. S \in Seq(Hexes) /\ Len(S) = m /\ \A n \in 1 .. m : S[n] = R[n]
  <2>1. 1 \in 1 .. Len(R) + 1 /\ m \in 1 - 1 .. Len(R)
    BY <1>1, <1>4
  <2> QED BY <1>1, <1>4, <2>1, SubSeqProperties
<1> HIDE DEF S
<1>6. \A n \in 1 .. m : emitted[n] = S[n]
  BY <1>1, <1>2, <1>5
<1>7. emitted = S
  BY <1>1, <1>5, <1>6, SeqEqual DEF m
<1> QED BY <1>1, <1>7 DEF S, R, m

LEMMA RingInvCompletes == RingInv => RingIsComplete
<1> SUFFICES ASSUME RingInv, ended
             PROVE  /\ {emitted[n] : n \in 1 .. Len(emitted)} = AtDistance(center, radius)
                    /\ Len(emitted) = Cardinality(AtDistance(center, radius))
  BY DEF RingIsComplete
<1>1. /\ center \in Hexes /\ radius \in Nat \ {0} /\ Len(emitted) = 6 * radius
      /\ \A n \in 1 .. 6 * radius : emitted[n] = RingPoint(center, radius, n)
  BY DEF RingInv
<1>2. \A n \in 1 .. 6 * radius : emitted[n] = Ring(center, radius)[n]
  BY <1>1, RingIsPoints
<1>3. AtDistance(center, radius) = OnRing(center, radius)
  <2> DEFINE c == center
             r == radius
             B == (X(c) - r .. X(c) + r) \X (Z(c) - r .. Z(c) + r)
  <2>1. X(c) \in Int /\ Z(c) \in Int /\ r \in Int
    BY <1>1, HexIs
  <2>2. B \subseteq Hexes
    BY <2>1 DEF Hexes
  <2>3. ASSUME NEW t \in OnRing(c, r)
        PROVE  t \in B
    <3>1. t \in Hexes /\ Distance(c, t) <= r
      BY <1>1 DEF OnRing
    <3>2. X(t) \in Int /\ Z(t) \in Int /\ t = <<X(t), Z(t)>>
      BY <3>1, HexIs
    <3>3. X(t) - X(c) <= r /\ -r <= X(t) - X(c) /\ Z(t) - Z(c) <= r /\ -r <= Z(t) - Z(c)
      BY <1>1, <2>1, <3>1, WithinDistance
    <3>4. X(t) \in X(c) - r .. X(c) + r /\ Z(t) \in Z(c) - r .. Z(c) + r
      BY <2>1, <3>2, <3>3
    <3> QED BY <3>2, <3>4
  <2> QED BY <2>2, <2>3 DEF AtDistance, OnRing
<1>4. {emitted[n] : n \in 1 .. 6 * radius} = OnRing(center, radius)
  <2>1. \A n \in 1 .. 6 * radius : emitted[n] \in OnRing(center, radius)
    BY <1>1, <1>2, RingIsAtDistance
  <2>2. \A t \in OnRing(center, radius) : \E n \in 1 .. 6 * radius : emitted[n] = t
    BY <1>1, <1>2, RingIsAtDistance
  <2> QED BY <2>1, <2>2
<1>5. Cardinality(OnRing(center, radius)) = 6 * radius
  BY <1>1, RingSize
<1> QED BY <1>1, <1>3, <1>4, <1>5

-----------------------------------------------------------------------------
(***************************************************************************)
(* The terrain of a tile is that of the nearest large tiles                *)
(***************************************************************************)

(***************************************************************************)
(* A tile lies at most one step from the middle of its large tile, in each *)
(* coordinate.                                                             *)
(***************************************************************************)
LEMMA WithinLargeTile ==
    ASSUME NEW n \in Int
    PROVE  /\ Third(n) \in Int
           /\ n - 3 * Third(n) \in {-1, 0, 1}
           /\ n % 3 = IF n - 3 * Third(n) = -1 THEN 2 ELSE n - 3 * Third(n)
BY DEF Third

LEMMA ThirdIs ==
    ASSUME NEW q \in Int, NEW a \in {-1, 0, 1}
    PROVE  Third(3 * q + a) = q
BY DEF Third

\* how far a tile at <<a, b>> from the middle of its large tile is from that <<x, z>> further on
NearerThan(n, a, b, x, z) ==
    /\ a - 3 * x <= n /\ -n <= a - 3 * x /\ b - 3 * z <= n /\ -n <= b - 3 * z
    /\ a - 3 * x + (b - 3 * z) <= n /\ -n <= a - 3 * x + (b - 3 * z)

\* the large tile that lies u further on than p
Further(p, u) == <<X(p) + u[1], Z(p) + u[2]>>

\* those that are nearest, by where in its large tile the tile is
Nearby(a, b) ==
    CASE a = 1 /\ b = 1 -> {<<0, 0>>, <<1, 0>>, <<0, 1>>}
      [] a = -1 /\ b = -1 -> {<<0, 0>>, <<-1, 0>>, <<0, -1>>}
      [] OTHER -> {<<0, 0>>}

Corner(a, b) == a = b /\ a # 0

LEMMA NearestByPlace ==
    ASSUME NEW a \in {-1, 0, 1}, NEW b \in {-1, 0, 1}, NEW x \in -2 .. 2, NEW z \in -2 .. 2
    PROVE  /\ Corner(a, b) => /\ ~NearerThan(1, a, b, x, z)
                              /\ <<x, z>> \in Nearby(a, b) <=> NearerThan(2, a, b, x, z)
           /\ ~Corner(a, b) => (<<x, z>> \in Nearby(a, b) <=> NearerThan(1, a, b, x, z))
<1> DEFINE u == <<x, z>>
<1>1. u[1] = x /\ u[2] = z
  OBVIOUS
<1>2. \A m, n \in Int : u = <<m, n>> <=> x = m /\ z = n
  OBVIOUS
<1>3. /\ u = <<0, 0>> <=> x = 0 /\ z = 0
      /\ u = <<1, 0>> <=> x = 1 /\ z = 0
      /\ u = <<0, 1>> <=> x = 0 /\ z = 1
      /\ u = <<-1, 0>> <=> x = -1 /\ z = 0
      /\ u = <<0, -1>> <=> x = 0 /\ z = -1
  BY <1>2
<1> HIDE DEF u
<1>4. CASE a = 1 /\ b = 1
  BY <1>3, <1>4 DEF Nearby, Corner, NearerThan, u
<1>5. CASE a = -1 /\ b = -1
  BY <1>3, <1>5 DEF Nearby, Corner, NearerThan, u
<1>6. CASE a # b \/ a = 0
  <2>1. Nearby(a, b) = {<<0, 0>>} /\ ~Corner(a, b)
    BY <1>6 DEF Nearby, Corner
  <2>2. NearerThan(1, a, b, x, z) <=> x = 0 /\ z = 0
    BY <1>6 DEF NearerThan
  <2> QED BY <1>3, <2>1, <2>2 DEF u
<1> QED BY <1>4, <1>5, <1>6

LEMMA FurtherThree ==
    ASSUME NEW p, NEW u, NEW v, NEW w
    PROVE  /\ {Further(p, x) : x \in {u, v, w}} = {Further(p, u), Further(p, v), Further(p, w)}
           /\ {Further(p, x) : x \in {u}} = {Further(p, u)}
OBVIOUS

LEMMA TerrainOfPlace ==
    ASSUME NEW t \in Hexes
    PROVE  LET p == ParentLargeTile(t)
               a == X(t) - 3 * X(p)
               b == Z(t) - 3 * Z(p)
           IN  /\ p \in Hexes /\ a \in {-1, 0, 1} /\ b \in {-1, 0, 1}
               /\ TerrainCoordinates(t) = {Further(p, u) : u \in Nearby(a, b)}
               /\ IsCorner(t) <=> Corner(a, b)
<1> DEFINE p == ParentLargeTile(t)
           a == X(t) - 3 * X(p)
           b == Z(t) - 3 * Z(p)
           At(dx, dz) == ParentLargeTile(Plus(t, <<dx, dz>>))
<1>1. X(t) \in Int /\ Z(t) \in Int /\ t = <<X(t), Z(t)>>
  BY HexIs
<1>2. p \in Hexes /\ X(p) = Third(X(t)) /\ Z(p) = Third(Z(t)) /\ p = <<X(p), Z(p)>>
      /\ X(p) \in Int /\ Z(p) \in Int
  BY <1>1, WithinLargeTile DEF ParentLargeTile, Hexes, X, Z
<1>3. /\ a \in {-1, 0, 1} /\ b \in {-1, 0, 1}
      /\ X(t) % 3 = IF a = -1 THEN 2 ELSE a
      /\ Z(t) % 3 = IF b = -1 THEN 2 ELSE b
  BY <1>1, <1>2, WithinLargeTile
<1>4. Minus(t, CenterSmallTile(p)) = <<a, b>>
  BY <1>1, <1>2 DEF Minus, CenterSmallTile, X, Z
<1>5. X(t) = 3 * X(p) + a /\ Z(t) = 3 * Z(p) + b
  BY <1>1, <1>2
<1> HIDE DEF p, a, b
<1>6. ASSUME NEW dx \in Int, NEW dz \in Int, NEW q \in Int, NEW s \in Int,
             NEW e \in {-1, 0, 1}, NEW f \in {-1, 0, 1},
             a + dx = 3 * q + e, b + dz = 3 * s + f
      PROVE  At(dx, dz) = <<X(p) + q, Z(p) + s>>
  <2> DEFINE m == X(p) + q
             n == Z(p) + s
  <2>1. m \in Int /\ n \in Int /\ X(t) + dx = 3 * m + e /\ Z(t) + dz = 3 * n + f
    <3>1. \A w, q1, a1, d1, e1 \in Int : a1 + d1 = 3 * q1 + e1 => 3 * w + a1 + d1 = 3 * (w + q1) + e1
      OBVIOUS
    <3>2. /\ X(p) \in Int /\ Z(p) \in Int /\ q \in Int /\ s \in Int /\ a \in Int /\ b \in Int
          /\ dx \in Int /\ dz \in Int /\ e \in Int /\ f \in Int
      BY <1>2, <1>3
    <3> QED BY <1>5, <1>6, <3>1, <3>2
  <2> HIDE DEF m, n
  <2>2. Third(X(t) + dx) = m /\ Third(Z(t) + dz) = n
    BY <2>1, ThirdIs
  <2>3. Plus(t, <<dx, dz>>) = <<X(t) + dx, Z(t) + dz>>
    BY DEF Plus, X, Z
  <2>4. At(dx, dz) = <<m, n>>
    BY <2>2, <2>3 DEF ParentLargeTile, X, Z
  <2> QED BY <2>4 DEF m, n
<1>7. TerrainCoordinates(t) =
        CASE <<a, b>> \in {<<-1, -1>>, <<-1, 2>>, <<2, -1>>} -> {At(-2, 1), At(1, -2), At(1, 1)}
          [] <<a, b>> \in {<<1, -2>>, <<1, 1>>, <<-2, 1>>} -> {At(2, -1), At(-1, 2), At(-1, -1)}
          [] OTHER -> {p}
  BY <1>4 DEF TerrainCoordinates, p
<1>8. /\ <<a, b>> \in {<<-1, -1>>, <<-1, 2>>, <<2, -1>>} <=> a = -1 /\ b = -1
      /\ <<a, b>> \in {<<1, -2>>, <<1, 1>>, <<-2, 1>>} <=> a = 1 /\ b = 1
  BY <1>3
<1> DEFINE T(S) == {Further(p, u) : u \in S}
<1>0. \A v, w \in Int : Further(p, <<v, w>>) = <<X(p) + v, Z(p) + w>>
  BY DEF Further
<1>9. ASSUME a = -1 /\ b = -1 PROVE TerrainCoordinates(t) = T(Nearby(a, b))
  <2>1. /\ At(-2, 1) = <<X(p) + -1, Z(p) + 0>>
        /\ At(1, -2) = <<X(p) + 0, Z(p) + -1>>
        /\ At(1, 1) = <<X(p) + 0, Z(p) + 0>>
    <3>1. a + -2 = 3 * (-1) + 0 /\ b + 1 = 3 * 0 + 0 /\ a + 1 = 3 * 0 + 0 /\ b + -2 = 3 * (-1) + 0
      BY <1>9
    <3>2. 0 \in {-1, 0, 1} /\ -1 \in Int /\ 0 \in Int /\ -2 \in Int /\ 1 \in Int
      OBVIOUS
    <3> HIDE DEF At
    <3> QED BY <1>6, <3>1, <3>2
  <2>2. Nearby(a, b) = {<<0, 0>>, <<-1, 0>>, <<0, -1>>}
    BY <1>9 DEF Nearby
  <2>3. TerrainCoordinates(t) = {At(-2, 1), At(1, -2), At(1, 1)}
    BY <1>7, <1>8, <1>9
  <2>4. TerrainCoordinates(t) = {Further(p, <<0, 0>>), Further(p, <<-1, 0>>), Further(p, <<0, -1>>)}
    <3> HIDE DEF At
    <3>1. /\ At(-2, 1) = Further(p, <<-1, 0>>) /\ At(1, -2) = Further(p, <<0, -1>>)
          /\ At(1, 1) = Further(p, <<0, 0>>)
      BY <1>0, <2>1
    <3> QED BY <2>3, <3>1
  <2> QED BY <2>2, <2>4, FurtherThree
<1>10. ASSUME a = 1 /\ b = 1 PROVE TerrainCoordinates(t) = T(Nearby(a, b))
  <2>1. /\ At(2, -1) = <<X(p) + 1, Z(p) + 0>>
        /\ At(-1, 2) = <<X(p) + 0, Z(p) + 1>>
        /\ At(-1, -1) = <<X(p) + 0, Z(p) + 0>>
    <3>1. a + 2 = 3 * 1 + 0 /\ b + -1 = 3 * 0 + 0 /\ a + -1 = 3 * 0 + 0 /\ b + 2 = 3 * 1 + 0
      BY <1>10
    <3>2. 0 \in {-1, 0, 1} /\ -1 \in Int /\ 0 \in Int /\ 2 \in Int /\ 1 \in Int
      OBVIOUS
    <3> HIDE DEF At
    <3> QED BY <1>6, <3>1, <3>2
  <2>2. Nearby(a, b) = {<<0, 0>>, <<1, 0>>, <<0, 1>>}
    BY <1>10 DEF Nearby
  <2>3. TerrainCoordinates(t) = {At(2, -1), At(-1, 2), At(-1, -1)}
    <3>1. ~(<<a, b>> \in {<<-1, -1>>, <<-1, 2>>, <<2, -1>>})
      BY <1>8, <1>10
    <3> HIDE DEF At
    <3> QED BY <1>7, <1>8, <1>10, <3>1
  <2>4. TerrainCoordinates(t) = {Further(p, <<0, 0>>), Further(p, <<1, 0>>), Further(p, <<0, 1>>)}
    <3> HIDE DEF At
    <3>1. /\ At(2, -1) = Further(p, <<1, 0>>) /\ At(-1, 2) = Further(p, <<0, 1>>)
          /\ At(-1, -1) = Further(p, <<0, 0>>)
      BY <1>0, <2>1
    <3> QED BY <2>3, <3>1
  <2> QED BY <2>2, <2>4, FurtherThree
<1>11. ASSUME ~(a = 1 /\ b = 1), ~(a = -1 /\ b = -1)
       PROVE  TerrainCoordinates(t) = T(Nearby(a, b))
  <2>1. TerrainCoordinates(t) = {p}
    <3> HIDE DEF At
    <3> QED BY <1>7, <1>8, <1>11
  <2>2. Nearby(a, b) = {<<0, 0>>}
    BY <1>11 DEF Nearby
  <2>3. Further(p, <<0, 0>>) = p
    BY <1>0, <1>2
  <2>4. {Further(p, u) : u \in {<<0, 0>>}} = {Further(p, <<0, 0>>)}
    BY FurtherThree
  <2> QED BY <2>1, <2>2, <2>3, <2>4
<1>12. IsCorner(t) <=> Corner(a, b)
  BY <1>3 DEF IsCorner, Corner
<1>13. TerrainCoordinates(t) = T(Nearby(a, b))
  BY <1>9, <1>10, <1>11
<1> QED BY <1>2, <1>3, <1>12, <1>13 DEF p, a, b

LEMMA LargeTileDistance ==
    ASSUME NEW t \in Hexes, NEW p \in Hexes, NEW x \in Int, NEW z \in Int, NEW n \in Int
    PROVE  LET l == <<X(p) + x, Z(p) + z>>
           IN  /\ Distance(CenterSmallTile(l), t) \in Nat
               /\ Distance(CenterSmallTile(l), t) <= n
                    <=> NearerThan(n, X(t) - 3 * X(p), Z(t) - 3 * Z(p), x, z)
<1> DEFINE l == <<X(p) + x, Z(p) + z>>
           c == CenterSmallTile(l)
           a == X(t) - 3 * X(p)
           b == Z(t) - 3 * Z(p)
<1>1. X(t) \in Int /\ Z(t) \in Int /\ X(p) \in Int /\ Z(p) \in Int
  BY HexIs
<1>2. c = <<3 * (X(p) + x), 3 * (Z(p) + z)>>
  BY DEF CenterSmallTile, X, Z
<1>3. c \in Hexes /\ X(c) = 3 * (X(p) + x) /\ Z(c) = 3 * (Z(p) + z)
  BY <1>1, <1>2 DEF Hexes, X, Z
<1>4. X(t) - X(c) = a - 3 * x /\ Z(t) - Z(c) = b - 3 * z
      /\ X(t) - X(c) + Z(t) - Z(c) = a - 3 * x + (b - 3 * z)
  BY <1>1, <1>3
<1> HIDE DEF c, a, b
<1>5. /\ Distance(c, t) \in Nat
      /\ Distance(c, t) <= n
                <=> /\ X(t) - X(c) <= n /\ -n <= X(t) - X(c)
                    /\ Z(t) - Z(c) <= n /\ -n <= Z(t) - Z(c)
                    /\ X(t) - X(c) + Z(t) - Z(c) <= n /\ -n <= X(t) - X(c) + Z(t) - Z(c)
  BY <1>1, <1>3, WithinDistance
<1>6. Distance(c, t) <= n <=> NearerThan(n, a, b, x, z)
  BY <1>4, <1>5 DEF NearerThan
<1> QED BY <1>5, <1>6 DEF c, a, b

LEMMA CardinalityOfThree ==
    ASSUME NEW a, NEW b, NEW c, a # b, a # c, b # c
    PROVE  Cardinality({a, b, c}) = 3
<1> DEFINE A == {a}
           B == A \cup {b}
           C == B \cup {c}
<1>1. {a, b, c} = C /\ b \notin A /\ c \notin B
  OBVIOUS
<1>2. IsFiniteSet(A) /\ Cardinality(A) = 1
  BY FS_Singleton
<1> HIDE DEF A
<1>3. IsFiniteSet(B) /\ Cardinality(B) = 2
  BY <1>1, <1>2, FS_AddElement
<1> HIDE DEF B
<1>4. Cardinality(C) = 3
  BY <1>1, <1>3, FS_AddElement
<1> QED BY <1>1, <1>4

LEMMA TerrainOfHex ==
    ASSUME NEW t \in Hexes
    PROVE  LET near == LargeTilesNear(t)
               Far(l) == Distance(CenterSmallTile(l), t)
           IN  /\ TerrainCoordinates(t) = {l \in near : \A m \in near : Far(l) <= Far(m)}
               /\ IsCorner(t) <=> Cardinality(TerrainCoordinates(t)) = 3
<1> DEFINE p == ParentLargeTile(t)
           a == X(t) - 3 * X(p)
           b == Z(t) - 3 * Z(p)
           near == LargeTilesNear(t)
           Far(l) == Distance(CenterSmallTile(l), t)
           T(S) == {Further(p, u) : u \in S}
           D == -2 .. 2
<1>1. /\ p \in Hexes /\ a \in {-1, 0, 1} /\ b \in {-1, 0, 1}
      /\ TerrainCoordinates(t) = T(Nearby(a, b))
      /\ IsCorner(t) <=> Corner(a, b)
  BY TerrainOfPlace
<1>2. near = {<<X(p) + dx, Z(p) + dz>> : dx \in D, dz \in D}
  BY DEF LargeTilesNear
<1>3. \A x, z \in D, n \in Int :
        /\ Far(<<X(p) + x, Z(p) + z>>) \in Nat
        /\ Far(<<X(p) + x, Z(p) + z>>) <= n <=> NearerThan(n, a, b, x, z)
  <2> TAKE x \in D, z \in D, n \in Int
  <2>1. x \in Int /\ z \in Int
    OBVIOUS
  <2> QED BY <1>1, <2>1, LargeTileDistance
<1>4. X(p) \in Int /\ Z(p) \in Int
  BY <1>1, HexIs
<1> HIDE DEF p, a, b, near, Far
<1> DEFINE least == IF Corner(a, b) THEN 2 ELSE 1
           L(x, z) == <<X(p) + x, Z(p) + z>>
<1>0. \A u : Further(p, u) = L(u[1], u[2])
  BY DEF Further
<1>5. \A x, z \in D :
        /\ Corner(a, b) => Far(L(x, z)) >= 2
        /\ ~Corner(a, b) /\ <<x, z>> \notin Nearby(a, b) => Far(L(x, z)) >= 2
        /\ Corner(a, b) /\ <<x, z>> \notin Nearby(a, b) => Far(L(x, z)) >= 3
        /\ <<x, z>> \in Nearby(a, b) => Far(L(x, z)) <= least
  <2> TAKE x \in D, z \in D
  <2> DEFINE f == Far(L(x, z))
  <2>1. /\ f \in Nat
        /\ f <= 1 <=> NearerThan(1, a, b, x, z)
        /\ f <= 2 <=> NearerThan(2, a, b, x, z)
    <3>1. \A n \in Int : f \in Nat /\ (f <= n <=> NearerThan(n, a, b, x, z))
      BY <1>3
    <3>2. 1 \in Int /\ 2 \in Int
      OBVIOUS
    <3> HIDE DEF f
    <3> QED BY <3>1, <3>2
  <2>2. /\ Corner(a, b) => /\ ~NearerThan(1, a, b, x, z)
                              /\ <<x, z>> \in Nearby(a, b) <=> NearerThan(2, a, b, x, z)
        /\ ~Corner(a, b) => (<<x, z>> \in Nearby(a, b) <=> NearerThan(1, a, b, x, z))
    BY <1>1, NearestByPlace
  <2> HIDE DEF f
  <2>3. /\ Corner(a, b) => f >= 2
        /\ ~Corner(a, b) /\ <<x, z>> \notin Nearby(a, b) => f >= 2
        /\ Corner(a, b) /\ <<x, z>> \notin Nearby(a, b) => f >= 3
        /\ <<x, z>> \in Nearby(a, b) => f <= least
    BY <2>1, <2>2
  <2> QED BY <2>3 DEF f
<1>6. \A x, z \in D : Far(L(x, z)) \in Nat
  BY <1>3
<1>7. \A x, z, v, w \in D : <<x, z>> \in Nearby(a, b) => Far(L(x, z)) <= Far(L(v, w))
  <2> SUFFICES ASSUME NEW x \in D, NEW z \in D, NEW v \in D, NEW w \in D, <<x, z>> \in Nearby(a, b)
               PROVE  Far(L(x, z)) <= Far(L(v, w))
    OBVIOUS
  <2> DEFINE f == Far(L(x, z))
             g == Far(L(v, w))
  <2>1. f \in Nat /\ g \in Nat /\ f <= least
    BY <1>5, <1>6
  <2>2. CASE Corner(a, b)
    <3>1. g >= 2
      BY <1>5, <2>2
    <3> HIDE DEF f, g
    <3>2. f <= g
      BY <2>1, <2>2, <3>1
    <3> QED BY <3>2 DEF f, g
  <2>3. CASE ~Corner(a, b)
    <3>0. Nearby(a, b) = {<<0, 0>>}
      BY <1>1, <2>3 DEF Nearby, Corner
    <3>1. CASE <<v, w>> \in Nearby(a, b)
      <4>1. v = x /\ w = z
        BY <3>0, <3>1
      <4> QED BY <2>1, <4>1
    <3>2. CASE <<v, w>> \notin Nearby(a, b)
      <4>1. g >= 2
        BY <1>5, <2>3, <3>2
      <4> HIDE DEF f, g
      <4>2. f <= g
        BY <2>1, <2>3, <4>1
      <4> QED BY <4>2 DEF f, g
    <3> QED BY <3>1, <3>2
  <2> QED BY <2>2, <2>3
<1>8. <<0, 0>> \in Nearby(a, b) /\ 0 \in D /\ \A u \in Nearby(a, b) : u[1] \in D /\ u[2] \in D /\ u = <<u[1], u[2]>>
  BY DEF Nearby
<1>9. \A x, z \in D : <<x, z>> \notin Nearby(a, b) => ~(Far(L(x, z)) <= Far(L(0, 0)))
  <2> SUFFICES ASSUME NEW x \in D, NEW z \in D, <<x, z>> \notin Nearby(a, b)
               PROVE  ~(Far(L(x, z)) <= Far(L(0, 0)))
    OBVIOUS
  <2> DEFINE f == Far(L(x, z))
             g == Far(L(0, 0))
  <2>1. f \in Nat /\ g \in Nat /\ g <= least /\ (Corner(a, b) => f >= 3) /\ (~Corner(a, b) => f >= 2)
    BY <1>5, <1>6, <1>8
  <2> HIDE DEF f, g
  <2>2. ~(f <= g)
    BY <2>1
  <2> QED BY <2>2 DEF f, g
<1>10. T(Nearby(a, b)) = {l \in near : \A m \in near : Far(l) <= Far(m)}
  <2>1. ASSUME NEW l \in T(Nearby(a, b))
        PROVE  l \in near /\ \A m \in near : Far(l) <= Far(m)
    <3>1. PICK u \in Nearby(a, b) : l = L(u[1], u[2])
      BY <1>0
    <3>2. u[1] \in D /\ u[2] \in D /\ <<u[1], u[2]>> \in Nearby(a, b)
      BY <1>8
    <3>3. l \in near
      BY <1>2, <3>1, <3>2
    <3>4. ASSUME NEW m \in near
          PROVE  Far(l) <= Far(m)
      <4>1. \E v, w \in D : m = L(v, w)
        BY <1>2
      <4> QED BY <1>7, <3>1, <3>2, <4>1
    <3> QED BY <3>3, <3>4
  <2>2. ASSUME NEW l \in near, \A m \in near : Far(l) <= Far(m)
        PROVE  l \in T(Nearby(a, b))
    <3>1. PICK x, z \in D : l = L(x, z)
      BY <1>2
    <3>2. L(0, 0) \in near
      BY <1>2, <1>8
    <3>3. <<x, z>> \in Nearby(a, b)
      BY <1>9, <2>2, <3>1, <3>2
    <3>4. <<x, z>>[1] = x /\ <<x, z>>[2] = z
      OBVIOUS
    <3>5. Further(p, <<x, z>>) = l
      BY <1>0, <3>1, <3>4
    <3> QED BY <3>3, <3>5
  <2> QED BY <2>1, <2>2
<1>11. Corner(a, b) <=> Cardinality(T(Nearby(a, b))) = 3
  <2>1. CASE ~Corner(a, b)
    <3>1. Nearby(a, b) = {<<0, 0>>}
      BY <1>1, <2>1 DEF Nearby, Corner
    <3>2. T(Nearby(a, b)) = {L(0, 0)}
      BY <1>0, <3>1
    <3>3. Cardinality(T(Nearby(a, b))) = 1
      BY <3>2, FS_Singleton
    <3> QED BY <2>1, <3>3
  <2>2. CASE Corner(a, b)
    <3>1. PICK e \in {-1, 1} : Nearby(a, b) = {<<0, 0>>, <<e, 0>>, <<0, e>>}
      <4>1. (a = 1 /\ b = 1) \/ (a = -1 /\ b = -1)
        BY <1>1, <2>2 DEF Corner
      <4> QED BY <4>1 DEF Nearby
    <3>2. T(Nearby(a, b)) = {L(0, 0), L(e, 0), L(0, e)}
      <4>1. /\ Further(p, <<0, 0>>) = L(0, 0) /\ Further(p, <<e, 0>>) = L(e, 0)
            /\ Further(p, <<0, e>>) = L(0, e)
        BY <1>0
      <4> QED BY <3>1, <4>1
    <3>3. L(0, 0) # L(e, 0) /\ L(0, 0) # L(0, e) /\ L(e, 0) # L(0, e)
      BY <1>4
    <3>4. Cardinality({L(0, 0), L(e, 0), L(0, e)}) = 3
      <4> HIDE DEF L
      <4> QED BY <3>3, CardinalityOfThree
    <3> QED BY <2>2, <3>2, <3>4
  <2> QED BY <2>1, <2>2
<1> QED BY <1>1, <1>10, <1>11 DEF p, a, b, near, Far

-----------------------------------------------------------------------------
(***************************************************************************)
(* Coordinates survive their conversions                                   *)
(***************************************************************************)
LEMMA ProductsGrow ==
    ASSUME NEW m \in Int, NEW n \in Int, m <= n, NEW w \in Nat
    PROVE  m * w <= n * w
<1>1. (n - m) * w >= 0
  OBVIOUS
<1>2. (n - m) * w = n * w - m * w
  OBVIOUS
<1> DEFINE a == m * w
           b == n * w
<1>3. a \in Int /\ b \in Int /\ b - a >= 0
  BY <1>1, <1>2
<1> HIDE DEF a, b
<1>4. a <= b
  BY <1>3
<1> QED BY <1>4 DEF a, b

LEMMA FieldsOfHash ==
    ASSUME NEW w \in Nat \ {0}, NEW a \in 0 .. w - 1, NEW b \in 0 .. w - 1
    PROVE  LET h == (a % w) + ((b % w) * w)
           IN  h % w = a /\ (h \div w) % w = b
<1>1. a % w = a /\ b % w = b
  OBVIOUS
<1> DEFINE h == a + b * w
           q == h \div w
           r == h % w
<1>2. b * w \in Nat /\ h \in Nat
  OBVIOUS
<1>3. q \in Int /\ r \in Int /\ h = q * w + r /\ 0 <= r /\ r < w
  BY <1>2
<1>4. q = b
  <2>1. (q - b) * w = a - r
    <3> DEFINE m == q * w
               n == b * w
    <3>1. (q - b) * w = m - n
      BY <1>3
    <3>2. a + n = m + r /\ m \in Int /\ n \in Int
      BY <1>3
    <3> HIDE DEF m, n, q, r
    <3> QED BY <1>3, <3>1, <3>2
  <2> DEFINE d == q - b
  <2>2. d \in Int /\ d * w = a - r /\ -w < a - r /\ a - r < w
    BY <1>3, <2>1
  <2> HIDE DEF d, q, r
  <2>3. CASE d >= 1
    <3>1. d * w >= 1 * w
      BY <2>2, <2>3, ProductsGrow
    <3> QED BY <1>3, <2>2, <3>1
  <2>4. CASE d <= -1
    <3>1. -1 * w >= d * w
      BY <2>2, <2>4, ProductsGrow
    <3> QED BY <1>3, <2>2, <3>1
  <2>5. d = 0
    BY <2>2, <2>3, <2>4
  <2> QED BY <1>3, <2>5 DEF d
<1>5. r = a
  BY <1>2, <1>3, <1>4
<1>6. h % w = a /\ (h \div w) % w = b
  BY <1>1, <1>4, <1>5
<1> QED BY <1>1, <1>6

LEMMA ConversionsOfHex ==
    ASSUME NEW t \in Hexes, NEW w \in Nat \ {0}
    PROVE  LET o == ToOffset(t)
           IN  /\ FromOffset(o) = t
               /\ (o[1] \in 0 .. w - 1 /\ o[2] \in 0 .. w - 1) =>
                     FromHashcode(Hashcode(o, w), w) = o
<1> DEFINE o == ToOffset(t)
           half == Truncated(Z(t), 2)
<1>1. X(t) \in Int /\ Z(t) \in Int /\ t = <<X(t), Z(t)>>
  BY HexIs
<1>2. half \in Int
  BY <1>1 DEF Truncated
<1>3. o = <<X(t) + half, Z(t)>> /\ o[1] = X(t) + half /\ o[2] = Z(t)
  BY DEF ToOffset
<1> HIDE DEF o
<1>4. FromOffset(o) = <<o[1] - half, o[2]>>
  BY <1>3 DEF FromOffset
<1> HIDE DEF half
<1>5. FromOffset(o) = t
  BY <1>1, <1>2, <1>3, <1>4
<1>6. ASSUME o[1] \in 0 .. w - 1, o[2] \in 0 .. w - 1
      PROVE  FromHashcode(Hashcode(o, w), w) = o
  <2> DEFINE a == o[1]
             b == o[2]
             h == Hashcode(o, w)
  <2>1. h = (a % w) + ((b % w) * w)
    BY DEF Hashcode
  <2>2. o = <<a, b>>
    BY <1>3
  <2>3. FromHashcode(h, w) = <<h % w, (h \div w) % w>>
    BY DEF FromHashcode
  <2>4. a \in 0 .. w - 1 /\ b \in 0 .. w - 1
    BY <1>6
  <2> HIDE DEF a, b, h
  <2>5. h % w = a /\ (h \div w) % w = b
    BY <2>1, <2>4, FieldsOfHash
  <2> QED BY <2>2, <2>3, <2>5 DEF h
<1> QED BY <1>5, <1>6 DEF o

LEMMA RingInvExact == RingInv => TerrainIsNearest /\ ConversionsAreExact
<1> SUFFICES ASSUME RingInv PROVE TerrainIsNearest /\ ConversionsAreExact
  OBVIOUS
<1>1. coordinate \in Hexes
  <2>1. CASE radius = 0
    BY <2>1 DEF RingInv
  <2>2. CASE radius # 0
    <3> DEFINE m == Len(emitted)
    <3>1. center \in Hexes /\ radius \in Nat /\ coordinate = RingPoint(center, radius, m) /\ m \in Int
      BY <2>2 DEF RingInv
    <3> HIDE DEF m
    <3> QED BY <3>1, RingPointIsHex
  <2> QED BY <2>1, <2>2
<1>2. TerrainIsNearest
  BY <1>1, TerrainOfHex DEF TerrainIsNearest
<1>3. Width \in Nat \ {0}
  BY RingAssumption
<1>4. ConversionsAreExact
  BY <1>1, <1>3, ConversionsOfHex DEF ConversionsAreExact
<1> QED BY <1>2, <1>4

(***************************************************************************)
(* The iterator walks every tile of a ring exactly once, in the order of   *)
(* the ring, a tile has the terrain of the large tiles nearest to it, and  *)
(* coordinates survive their conversions: for every center, every radius   *)
(* and every width of the world.                                           *)
(***************************************************************************)
THEOREM GridStaysExact == Spec => []GridIsExact
<1>1. Init => RingInv
  BY RingInitInv DEF Init
<1>2. RingInv /\ [Next]_landVars => RingInv'
  <2> SUFFICES ASSUME RingInv, [Next]_landVars PROVE RingInv'
    OBVIOUS
  <2>1. RingNext \/ UNCHANGED ringVars
    BY DEF Next, RingScene, TerritoryScene, CraftingScene, RefiningScene, WildsScene, landVars
  <2> QED BY <2>1, RingStepKeepsInv
<1>3. RingInv => GridIsExact
  BY RingInvIterates, RingInvCompletes, RingInvExact DEF GridIsExact
<1> QED BY <1>1, <1>2, <1>3, PTL DEF Spec


-----------------------------------------------------------------------------
(***************************************************************************)
(* The claim under a footprint, and sums over what is claimed              *)
(***************************************************************************)

(***************************************************************************)
(* The claim under a footprint is the one that has all of its tiles.       *)
(***************************************************************************)
Covers(c, footprint, on) == \A t \in footprint : t \in DOMAIN on /\ on[t] = c

LEMMA UnderIsCovering ==
    ASSUME NEW footprint, footprint # {}, NEW on
    PROVE  /\ ClaimUnder(footprint, on) \in {NoClaim} \cup 1 .. MaxClaims
           /\ \A c \in 1 .. MaxClaims : ClaimUnder(footprint, on) = c <=> Covers(c, footprint, on)
<1>1. \A c, d \in 1 .. MaxClaims : Covers(c, footprint, on) /\ Covers(d, footprint, on) => c = d
  BY DEF Covers
<1>2. ClaimUnder(footprint, on) =
          IF \E c \in 1 .. MaxClaims : Covers(c, footprint, on)
          THEN CHOOSE c \in 1 .. MaxClaims : Covers(c, footprint, on)
          ELSE NoClaim
  BY DEF ClaimUnder, Covers
<1>3. NoClaim \notin 1 .. MaxClaims
  BY ClaimTerritoryAssumption
<1>4. CASE \E c \in 1 .. MaxClaims : Covers(c, footprint, on)
  <2>1. ClaimUnder(footprint, on) \in 1 .. MaxClaims /\ Covers(ClaimUnder(footprint, on), footprint, on)
    BY <1>2, <1>4
  <2> QED BY <1>1, <2>1
<1>5. CASE ~ \E c \in 1 .. MaxClaims : Covers(c, footprint, on)
  BY <1>2, <1>3, <1>5
<1> QED BY <1>4, <1>5

(***************************************************************************)
(* Upkeep is a sum over the buildings, and so are the neighbors of tiles.  *)
(***************************************************************************)
LEMMA UpkeepIsSum ==
    ASSUME NEW T, IsFiniteSet(T), T \subseteq Plans
    PROVE  Upkeep(T) \in Nat
<1> DEFINE f == [p \in T |-> p.maintenance]
<1>1. f \in [T -> Nat]
  BY ClaimTerritoryAssumption
<1> QED BY <1>1, TotalIsNatural DEF Upkeep

LEMMA UpkeepWithNew ==
    ASSUME NEW T, IsFiniteSet(T), T \subseteq Plans, NEW p \in Plans, p \notin T
    PROVE  Upkeep(T \cup {p}) = Upkeep(T) + p.maintenance
<1> DEFINE f == [q \in T |-> q.maintenance]
           g == [q \in T \cup {p} |-> q.maintenance]
<1>1. f \in [T -> Int] /\ g \in [T \cup {p} -> Int]
  BY ClaimTerritoryAssumption
<1>2. g[p] = p.maintenance
  OBVIOUS
<1>3. \A q \in T : g[q] = f[q]
  OBVIOUS
<1> HIDE DEF f, g
<1>4. SumFunction(g) = SumFunction(f) + g[p]
  BY <1>1, <1>3, TotalWithNew
<1> QED BY <1>2, <1>4 DEF Upkeep, f, g

LEMMA UpkeepOfUnion ==
    ASSUME NEW T, IsFiniteSet(T), T \subseteq Plans, NEW U, IsFiniteSet(U), U \subseteq Plans, T \cap U = {}
    PROVE  Upkeep(T \cup U) = Upkeep(T) + Upkeep(U)
<1> DEFINE h == [q \in T \cup U |-> q.maintenance]
<1>1. h \in [T \cup U -> Int]
  BY ClaimTerritoryAssumption
<1>2. IsFiniteSet(T \cup U)
  BY FS_Union
<1>3. (T \cup U) \ T = U /\ T \in SUBSET (T \cup U)
  OBVIOUS
<1>4. SumFunction(h) = SumFunction([x \in T |-> h[x]]) + SumFunction([x \in (T \cup U) \ T |-> h[x]])
  <2> DEFINE both == T \cup U
  <2>1. h \in [both -> Int] /\ IsFiniteSet(both) /\ T \in SUBSET both
    BY <1>1, <1>2, <1>3
  <2> HIDE DEF h, both
  <2>2. SumFunction(h) = SumFunction([x \in T |-> h[x]]) + SumFunction([x \in both \ T |-> h[x]])
    BY <2>1, TotalIsSplit
  <2> QED BY <2>2 DEF both
<1>5. [x \in T |-> h[x]] = [q \in T |-> q.maintenance] /\ [x \in (T \cup U) \ T |-> h[x]] = [q \in U |-> q.maintenance]
  BY <1>3
<1> QED BY <1>4, <1>5 DEF Upkeep

(***************************************************************************)
(* Adding a tile adds its neighbors twice.                                 *)
(***************************************************************************)
LEMMA NeighborIsMutual ==
    ASSUME NEW t \in Hexes, NEW u \in Hexes
    PROVE  u \in NeighborsDirect(t) <=> t \in NeighborsDirect(u)
<1>1. Distance(t, u) = Distance(u, t)
  BY DistanceIsSymmetric
<1> QED BY <1>1, NeighborsAreNear

LEMMA AdjacentIsNatural ==
    ASSUME NEW t \in Hexes, NEW S
    PROVE  Adjacent(t, S) \in Nat
<1>1. IsFiniteSet(NeighborsDirect(t) \cap S)
  BY NeighborsAreHexes, FS_Intersection
<1> QED BY <1>1, FS_CardinalityType DEF Adjacent

LEMMA NeighborsWithNew ==
    ASSUME NEW T, IsFiniteSet(T), T \subseteq Hexes, NEW t \in Hexes, t \notin T
    PROVE  SumFunction(NeighborsIn(T \cup {t})) = SumFunction(NeighborsIn(T)) + 2 * Adjacent(t, T)
<1> DEFINE near == NeighborsDirect(t) \cap T
           ones == [u \in near |-> 1]
           f == NeighborsIn(T)
           g == NeighborsIn(T \cup {t})
           h == [u \in T |-> g[u]]
           n == [u \in T |-> IF u \in near THEN 1 ELSE 0]
<1>1. IsFiniteSet(near) /\ near \subseteq T /\ IsFiniteSet(T \cup {t}) /\ T \cup {t} \subseteq Hexes
  BY FS_Subset, FS_AddElement
<1>2. ASSUME NEW u \in T
      PROVE  Adjacent(u, T \cup {t}) = Adjacent(u, T) + (IF u \in near THEN 1 ELSE 0)
  <2>1. u \in Hexes /\ (t \in NeighborsDirect(u) <=> u \in near)
    BY NeighborIsMutual
  <2> DEFINE A == NeighborsDirect(u) \cap T
  <2>2. IsFiniteSet(A) /\ t \notin A /\ Cardinality(A) \in Nat
    BY <2>1, NeighborsAreHexes, FS_Intersection, FS_CardinalityType
  <2>3. CASE u \in near
    <3>1. NeighborsDirect(u) \cap (T \cup {t}) = A \cup {t}
      BY <2>1, <2>3
    <3> HIDE DEF A
    <3>2. Cardinality(A \cup {t}) = Cardinality(A) + 1
      BY <2>2, FS_AddElement
    <3> QED BY <2>3, <3>1, <3>2 DEF Adjacent, A
  <2>4. CASE u \notin near
    <3>1. NeighborsDirect(u) \cap (T \cup {t}) = A
      BY <2>1, <2>4
    <3> QED BY <2>2, <2>4, <3>1 DEF Adjacent
  <2> QED BY <2>3, <2>4
<1>3. Adjacent(t, T \cup {t}) = Adjacent(t, T)
  <2>1. NeighborsDirect(t) \cap (T \cup {t}) = NeighborsDirect(t) \cap T
    BY NeighborsAreHexes
  <2> QED BY <2>1 DEF Adjacent
<1>4. \A u \in T \cup {t} : Adjacent(u, T) \in Nat /\ Adjacent(u, T \cup {t}) \in Nat
  BY <1>1, AdjacentIsNatural
<1>5. /\ f \in [T -> Int] /\ g \in [T \cup {t} -> Int] /\ h \in [T -> Int] /\ n \in [T -> Int]
      /\ \A u \in T : h[u] = f[u] + n[u] /\ g[u] = h[u]
      /\ g[t] = Adjacent(t, T)
  <2> HIDE DEF near
  <2> QED BY <1>2, <1>3, <1>4 DEF NeighborsIn
<1>6. SumFunction(g) = SumFunction(h) + g[t]
  <2>1. h \in [T -> Int] /\ g \in [T \cup {t} -> Int]
    BY <1>5
  <2>2. \A u \in T : g[u] = h[u]
    BY <1>5
  <2> HIDE DEF f, g, h, n
  <2> QED BY <2>1, <2>2, TotalWithNew
<1>7. SumFunction(h) = SumFunction(f) + SumFunction(n)
  <2> HIDE DEF f, g, h, n
  <2> QED BY <1>5, TotalIsAdded
<1>8. SumFunction(n) = Adjacent(t, T)
  <2> DEFINE p == [x \in near |-> n[x]]
             q == [x \in T \ near |-> n[x]]
  <2>1. SumFunction(n) = SumFunction(p) + SumFunction(q)
    <3>1. near \in SUBSET T
      BY <1>1
    <3>2. n \in [T -> Int]
      BY <1>5
    <3> HIDE DEF n, near
    <3> QED BY <3>1, <3>2, TotalIsSplit
  <2>2. \A x \in near : p[x] = 1
    BY <1>1
  <2>3. \A x \in T \ near : q[x] = 0
    OBVIOUS
  <2>4. DOMAIN p = near /\ DOMAIN q = T \ near /\ IsFiniteSet(T \ near)
    BY FS_Subset
  <2> HIDE DEF p, q
  <2>5. SumFunction(p) = Cardinality(near)
    BY <1>1, <2>2, <2>4, TotalOfOnes
  <2>6. SumFunction(q) = 0 * Cardinality(T \ near)
    BY <2>3, <2>4, TotalOfSame
  <2>7. Cardinality(near) \in Nat /\ Cardinality(T \ near) \in Nat
    BY <1>1, <2>4, FS_CardinalityType
  <2> QED BY <2>1, <2>5, <2>6, <2>7 DEF Adjacent
<1> HIDE DEF f, g, h, n
<1>9. SumFunction(f) \in Int
  BY <1>5, TotalIsInteger
<1>10. Adjacent(t, T) \in Nat
  BY <1>4
<1>11. SumFunction(g) = SumFunction(f) + 2 * Adjacent(t, T)
  BY <1>5, <1>6, <1>7, <1>8, <1>9, <1>10
<1> QED BY <1>11 DEF f, g

-----------------------------------------------------------------------------
(***************************************************************************)
(* What hangs together around a totem                                      *)
(***************************************************************************)

(***************************************************************************)
(* Reached, step by step: there is such a function, so it is what its      *)
(* definition says.                                                        *)
(***************************************************************************)
Grown(within, so) == so \cup {t \in within \ so : NeighborsDirect(t) \cap so # {}}

Walks(from, within, n, f) ==
    /\ DOMAIN f = 0 .. n
    /\ f[0] = {from}
    /\ \A i \in 1 .. n : f[i] = Grown(within, f[i - 1])

WalkTo(from, within, n) == CHOOSE f : Walks(from, within, n, f)

LEMMA InductionOnNat ==
    ASSUME NEW S, 0 \in S, \A i \in Nat \ {0} : i - 1 \in S => i \in S
    PROVE  Nat \subseteq S
<1> SUFFICES ASSUME NEW n \in Nat PROVE n \in S
  OBVIOUS
<1>1. \A i \in 1 .. n : i - 1 \in S => i \in S
  OBVIOUS
<1> QED BY <1>1, Sums!Induction

LEMMA WalksExist ==
    ASSUME NEW from, NEW within, NEW n \in Nat
    PROVE  \E f : Walks(from, within, n, f)
<1> DEFINE Far == {i \in Nat : \E f : Walks(from, within, i, f)}
<1>1. 0 \in Far
  <2> DEFINE f == [i \in 0 .. 0 |-> {from}]
  <2>1. Walks(from, within, 0, f)
    BY DEF Walks
  <2> QED BY <2>1
<1>2. ASSUME NEW i \in Nat \ {0}, i - 1 \in Far
      PROVE  i \in Far
  <2>1. PICK f : Walks(from, within, i - 1, f)
    BY <1>2
  <2> DEFINE g == [s \in 0 .. i |-> IF s = i THEN Grown(within, f[i - 1]) ELSE f[s]]
  <2>2. DOMAIN g = 0 .. i /\ g[0] = {from}
    BY <2>1 DEF Walks
  <2>3. \A s \in 1 .. i : g[s] = Grown(within, g[s - 1])
    <3> TAKE s \in 1 .. i
    <3>1. s - 1 \in 0 .. i /\ s - 1 # i /\ g[s - 1] = f[s - 1]
      OBVIOUS
    <3>2. CASE s = i
      BY <3>1, <3>2
    <3>3. CASE s # i
      <4>1. s \in 1 .. i - 1 /\ g[s] = f[s]
        BY <3>3
      <4>2. f[s] = Grown(within, f[s - 1])
        BY <2>1, <4>1 DEF Walks
      <4> QED BY <3>1, <4>1, <4>2
    <3> QED BY <3>2, <3>3
  <2> HIDE DEF g
  <2>4. Walks(from, within, i, g)
    BY <2>2, <2>3 DEF Walks
  <2> QED BY <2>4
<1>3. Nat \subseteq Far
  <2> HIDE DEF Far
  <2> QED BY <1>1, <1>2, InductionOnNat
<1> QED BY <1>3

LEMMA WalksAgree ==
    ASSUME NEW from, NEW within, NEW m \in Nat, NEW n \in Nat, NEW f, NEW g,
           Walks(from, within, m, f), Walks(from, within, n, g)
    PROVE  \A s \in 0 .. m : s <= n => f[s] = g[s]
<1> DEFINE Same == {s \in Nat : s <= m /\ s <= n => f[s] = g[s]}
<1>1. 0 \in Same
  BY DEF Walks
<1>2. ASSUME NEW s \in Nat \ {0}, s - 1 \in Same
      PROVE  s \in Same
  <2> SUFFICES ASSUME s <= m, s <= n PROVE f[s] = g[s]
    OBVIOUS
  <2>1. s \in 1 .. m /\ s \in 1 .. n /\ f[s - 1] = g[s - 1]
    BY <1>2
  <2>2. f[s] = Grown(within, f[s - 1]) /\ g[s] = Grown(within, g[s - 1])
    BY <2>1 DEF Walks
  <2> QED BY <2>1, <2>2
<1>3. Nat \subseteq Same
  <2> HIDE DEF Same
  <2> QED BY <1>1, <1>2, InductionOnNat
<1> QED BY <1>3

LEMMA ReachedUnfolds ==
    ASSUME NEW from, NEW within, IsFiniteSet(within)
    PROVE  \E f : /\ f[0] = {from}
                  /\ \A n \in Nat \ {0} : f[n] = Grown(within, f[n - 1])
                  /\ Reached(from, within) = f[Cardinality(within)]
<1> DEFINE Rec(f) == f = [n \in Nat |-> IF n = 0 THEN {from} ELSE
                             f[n - 1] \cup {t \in within \ f[n - 1] : NeighborsDirect(t) \cap f[n - 1] # {}}]
           F == [n \in Nat |-> WalkTo(from, within, n)[n]]
           Near == CHOOSE f : Rec(f)
<1>1. \A n \in Nat : Walks(from, within, n, WalkTo(from, within, n))
  BY WalksExist DEF WalkTo
<1>2. F[0] = {from}
  BY <1>1 DEF Walks
<1>3. ASSUME NEW n \in Nat \ {0}
      PROVE  F[n] = Grown(within, F[n - 1])
  <2> DEFINE w == WalkTo(from, within, n)
             v == WalkTo(from, within, n - 1)
  <2>1. n - 1 \in Nat /\ n \in 1 .. n /\ n - 1 \in 0 .. n
    OBVIOUS
  <2>2. Walks(from, within, n, w) /\ Walks(from, within, n - 1, v)
    BY <1>1, <2>1
  <2>3. F[n] = w[n] /\ F[n - 1] = v[n - 1]
    BY <2>1
  <2> HIDE DEF w, v
  <2>4. w[n] = Grown(within, w[n - 1])
    BY <2>1, <2>2 DEF Walks
  <2>5. w[n - 1] = v[n - 1]
    BY <2>1, <2>2, WalksAgree
  <2> QED BY <2>3, <2>4, <2>5
<1>4. Rec(F)
  <2> DEFINE G == [n \in Nat |-> IF n = 0 THEN {from} ELSE
                      F[n - 1] \cup {t \in within \ F[n - 1] : NeighborsDirect(t) \cap F[n - 1] # {}}]
  <2>1. DOMAIN F = Nat /\ F = [n \in Nat |-> F[n]]
    OBVIOUS
  <2> HIDE DEF F
  <2>2. \A n \in Nat : F[n] = G[n]
    BY <1>2, <1>3 DEF Grown
  <2>3. F = G
    BY <2>1, <2>2
  <2> QED BY <2>3
<1>5. Rec(Near)
  BY <1>4
<1>6. Near[0] = {from} /\ \A n \in Nat \ {0} : Near[n] = Grown(within, Near[n - 1])
  <2> HIDE DEF Near
  <2> QED BY <1>5 DEF Grown
<1>7. Reached(from, within) = Near[Cardinality(within)]
  BY DEF Reached
<1> QED BY <1>6, <1>7

(***************************************************************************)
(* A claim that hangs together still does with a tile more that touches it.*)
(***************************************************************************)
LEMMA ReachedWithNew ==
    ASSUME NEW own, IsFiniteSet(own), NEW from, own \subseteq Reached(from, own),
           NEW t, t \notin own, NeighborsDirect(t) \cap own # {}
    PROVE  own \cup {t} \subseteq Reached(from, own \cup {t})
<1> DEFINE more == own \cup {t}
           m == Cardinality(own)
<1>1. IsFiniteSet(more) /\ m \in Nat /\ Cardinality(more) = m + 1
  BY FS_AddElement, FS_CardinalityType
<1>2. PICK f : /\ f[0] = {from}
               /\ \A n \in Nat \ {0} : f[n] = Grown(own, f[n - 1])
               /\ Reached(from, own) = f[m]
  BY ReachedUnfolds
<1>3. PICK g : /\ g[0] = {from}
               /\ \A n \in Nat \ {0} : g[n] = Grown(more, g[n - 1])
               /\ Reached(from, more) = g[m + 1]
  <2> HIDE DEF m, more
  <2> QED BY <1>1, ReachedUnfolds
<1> DEFINE Good == {n \in Nat : f[n] \subseteq g[n]}
<1>4. 0 \in Good
  BY <1>2, <1>3
<1>5. ASSUME NEW n \in Nat \ {0}, n - 1 \in Good
      PROVE  n \in Good
  <2>1. f[n - 1] \subseteq g[n - 1]
    BY <1>5
  <2>2. f[n] = Grown(own, f[n - 1]) /\ g[n] = Grown(more, g[n - 1])
    BY <1>2, <1>3
  <2>3. Grown(own, f[n - 1]) \subseteq Grown(more, g[n - 1])
    BY <2>1 DEF Grown
  <2> QED BY <2>2, <2>3
<1>6. f[m] \subseteq g[m]
  <2>1. Nat \subseteq Good
    <3> HIDE DEF Good
    <3> QED BY <1>4, <1>5, InductionOnNat
  <2> QED BY <1>1, <2>1
<1>7. g[m + 1] = Grown(more, g[m])
  <2>1. m + 1 \in Nat \ {0} /\ (m + 1) - 1 = m
    BY <1>1
  <2> HIDE DEF m, more
  <2> QED BY <1>3, <2>1
<1>8. own \subseteq g[m]
  BY <1>2, <1>6
<1> HIDE DEF m
<1>9. t \in Grown(more, g[m])
  BY <1>8 DEF Grown
<1>10. own \subseteq Grown(more, g[m])
  BY <1>8 DEF Grown
<1> QED BY <1>3, <1>7, <1>9, <1>10

(***************************************************************************)
(* The tiles around a totem hang together: each has a neighbor that is     *)
(* nearer.                                                                 *)
(***************************************************************************)
LEMMA NearerNeighbor ==
    ASSUME NEW c \in Hexes, NEW t \in Hexes, NEW n \in Nat, Distance(c, t) = n + 1
    PROVE  \E u \in NeighborsDirect(t) : u \in Hexes /\ Distance(c, u) <= n
<1> DEFINE a == X(t) - X(c)
           b == Z(t) - Z(c)
<1>1. /\ X(t) \in Int /\ Z(t) \in Int /\ X(c) \in Int /\ Z(c) \in Int /\ t = <<X(t), Z(t)>>
  BY HexIs
<1>2. /\ a <= n + 1 /\ -(n + 1) <= a /\ b <= n + 1 /\ -(n + 1) <= b
      /\ a + b <= n + 1 /\ -(n + 1) <= a + b
  <2>1. n + 1 \in Int /\ Distance(c, t) <= n + 1
    BY DistanceIsNatural
  <2>2. /\ X(t) - X(c) <= n + 1 /\ -(n + 1) <= X(t) - X(c)
        /\ Z(t) - Z(c) <= n + 1 /\ -(n + 1) <= Z(t) - Z(c)
        /\ X(t) - X(c) + Z(t) - Z(c) <= n + 1 /\ -(n + 1) <= X(t) - X(c) + Z(t) - Z(c)
    BY <2>1, WithinDistance
  <2> QED BY <1>1, <2>2
<1>3. ~(a = 0 /\ b = 0)
  <2> SUFFICES ASSUME a = 0, b = 0 PROVE FALSE
    OBVIOUS
  <2>1. t = c
    BY <1>1, HexIs
  <2> QED BY <2>1, DistanceOfCenter
<1>4. ASSUME NEW dx \in {-1, 0, 1}, NEW dz \in {-1, 0, 1}, dx # dz,
             a + dx <= n, -n <= a + dx, b + dz <= n, -n <= b + dz,
             a + dx + b + dz <= n, -n <= a + dx + b + dz
      PROVE  \E u \in NeighborsDirect(t) : u \in Hexes /\ Distance(c, u) <= n
  <2> DEFINE u == <<X(t) + dx, Z(t) + dz>>
  <2>1. u \in Hexes /\ X(u) = X(t) + dx /\ Z(u) = Z(t) + dz
    BY <1>1 DEF Hexes, X, Z
  <2>2. u \in NeighborsDirect(t)
    <3>1. dx \in Int /\ dz \in Int
      OBVIOUS
    <3>2. <<dx, dz>> \in {<<0, 1>>, <<1, 0>>, <<1, -1>>, <<0, -1>>, <<-1, 0>>, <<-1, 1>>}
      BY <1>4
    <3> QED BY <1>1, <3>1, <3>2, NeighborIff
  <2> HIDE DEF u
  <2>3. Distance(c, u) <= n
    <3>1. /\ X(u) - X(c) <= n /\ -n <= X(u) - X(c) /\ Z(u) - Z(c) <= n /\ -n <= Z(u) - Z(c)
          /\ X(u) - X(c) + Z(u) - Z(c) <= n /\ -n <= X(u) - X(c) + Z(u) - Z(c)
      BY <1>1, <1>4, <2>1
    <3> QED BY <2>1, <3>1, WithinDistance
  <2> QED BY <2>1, <2>2, <2>3
<1>5. a \in Int /\ b \in Int
  BY <1>1
<1> HIDE DEF a, b
<1>6. CASE a > 0 /\ b >= 0
  BY <1>2, <1>4, <1>5, <1>6
<1>7. CASE a > 0 /\ b < 0
  BY <1>2, <1>4, <1>5, <1>7
<1>8. CASE a < 0 /\ b <= 0
  BY <1>2, <1>4, <1>5, <1>8
<1>9. CASE a < 0 /\ b > 0
  BY <1>2, <1>4, <1>5, <1>9
<1>10. CASE a = 0 /\ b > 0
  BY <1>2, <1>4, <1>5, <1>10
<1>11. CASE a = 0 /\ b < 0
  BY <1>2, <1>4, <1>5, <1>11
<1> QED BY <1>3, <1>5, <1>6, <1>7, <1>8, <1>9, <1>10, <1>11

LEMMA HexagonIsReached ==
    ASSUME NEW c \in Hexes, NEW r \in Nat
    PROVE  Hexagon(c, r) \subseteq Reached(c, Hexagon(c, r))
<1> DEFINE H == Hexagon(c, r)
           m == Cardinality(H)
<1>1. IsFiniteSet(H) /\ m = NumTilesInRadius(r)
  BY HexagonSize
<1>2. m \in Nat /\ r <= m
  <2>1. m \in Nat
    BY <1>1, FS_CardinalityType
  <2>2. r * (r + 1) >= r
    <3>1. r * r >= 0 /\ r * (r + 1) = r * r + r
      OBVIOUS
    <3> DEFINE q == r * r
    <3>2. q \in Int /\ q >= 0 /\ r * (r + 1) = q + r
      BY <3>1
    <3> HIDE DEF q
    <3> QED BY <3>2
  <2>3. 3 * r * (r + 1) = 3 * (r * (r + 1))
    OBVIOUS
  <2> DEFINE p == r * (r + 1)
  <2>4. p \in Int /\ p >= r /\ NumTilesInRadius(r) = 1 + 3 * p
    BY <2>2, <2>3 DEF NumTilesInRadius
  <2> HIDE DEF p, m
  <2> QED BY <1>1, <2>1, <2>4
<1>3. PICK f : /\ f[0] = {c}
               /\ \A n \in Nat \ {0} : f[n] = Grown(H, f[n - 1])
               /\ Reached(c, H) = f[m]
  <2> HIDE DEF H
  <2> QED BY <1>1, ReachedUnfolds
<1> HIDE DEF H, m
<1> DEFINE Good == {n \in Nat : \A t \in H : Distance(c, t) <= n => t \in f[n]}
<1>4. 0 \in Good
  <2> SUFFICES ASSUME NEW t \in H, Distance(c, t) <= 0 PROVE t \in f[0]
    OBVIOUS
  <2>1. t \in Hexes
    BY DEF H, Hexagon
  <2>2. t = c
    BY <2>1, DistanceIsNatural, DistanceOfCenter
  <2> QED BY <1>3, <2>2
<1>5. ASSUME NEW n \in Nat \ {0}, n - 1 \in Good
      PROVE  n \in Good
  <2> SUFFICES ASSUME NEW t \in H, Distance(c, t) <= n PROVE t \in f[n]
    OBVIOUS
  <2>1. t \in Hexes /\ Distance(c, t) \in Nat /\ Distance(c, t) <= r /\ n - 1 \in Nat
    BY DistanceIsNatural DEF H, Hexagon
  <2>2. f[n] = Grown(H, f[n - 1])
    BY <1>3
  <2>3. CASE Distance(c, t) <= n - 1
    BY <1>5, <2>2, <2>3 DEF Grown
  <2>4. CASE ~ (Distance(c, t) <= n - 1)
    <3>1. Distance(c, t) = (n - 1) + 1
      BY <2>1, <2>4
    <3>2. PICK u \in NeighborsDirect(t) : u \in Hexes /\ Distance(c, u) <= n - 1
      BY <2>1, <3>1, NearerNeighbor
    <3>3. u \in H
      <4>1. Distance(c, u) \in Nat
        BY <3>2, DistanceIsNatural
      <4>2. Distance(c, u) <= r
        BY <2>1, <3>1, <3>2, <4>1
      <4> QED BY <3>2, <4>2 DEF H, Hexagon
    <3>4. u \in f[n - 1]
      BY <1>5, <3>2, <3>3
    <3> QED BY <2>2, <3>4 DEF Grown
  <2> QED BY <2>3, <2>4
<1>6. m \in Good
  <2>1. Nat \subseteq Good
    <3> HIDE DEF Good
    <3> QED BY <1>4, <1>5, InductionOnNat
  <2> QED BY <1>2, <2>1
<1>7. \A t \in H : Distance(c, t) <= m
  <2> TAKE t \in H
  <2>1. t \in Hexes /\ Distance(c, t) <= r
    BY DEF H, Hexagon
  <2>2. Distance(c, t) \in Nat
    BY <2>1, DistanceIsNatural
  <2> QED BY <1>2, <2>1, <2>2
<1>8. H \subseteq Reached(c, H)
  BY <1>3, <1>6, <1>7
<1> QED BY <1>8 DEF H

-----------------------------------------------------------------------------
(***************************************************************************)
(* Territories: the invariant                                              *)
(***************************************************************************)

Area == [totem : Plans, tiles : Nat, neighbors : Nat, maintenance : Nat]
Site == [built : BOOLEAN, claim : {NoClaim} \cup 1 .. minted]

TerritoryRows ==
    /\ IsFiniteSet(DOMAIN sites) /\ IsFiniteSet(DOMAIN tiles)
    /\ DOMAIN tiles \subseteq Hexes
    /\ tiles \in [DOMAIN tiles -> Live]
    /\ sites \in [DOMAIN sites -> Site]
    /\ areas \in [Live -> Area]

\* the claim of a site, built or not, is the one that has all its tiles, unless it is gone
Noted(p, claim, on, live) ==
    claim \in live \cup {NoClaim} => ClaimUnder(p.tiles, on) = claim

SitesAreNoted == \A p \in DOMAIN sites : Noted(p, sites[p].claim, tiles, Live)

TotemOf(c, p, in) == p \in DOMAIN in /\ p.totem /\ in[p].built /\ in[p].claim = c

TotemsStand == \A c \in Live : TotemOf(c, areas[c].totem, sites)

Buildings(c) == {p \in Built : sites[p].claim = c}

Exact(area, own, buildings) ==
    /\ area.tiles = Cardinality(own)
    /\ area.neighbors = SumFunction(NeighborsIn(own))
    /\ area.maintenance = Upkeep(buildings)

Shaped(area, own) ==
    /\ Hexagon(area.totem.at, ClaimRadius) \subseteq own
    /\ own \subseteq Reached(area.totem.at, own)

ClaimsAreSound ==
    \A c \in Live : Exact(areas[c], TilesOf(c), Buildings(c)) /\ Shaped(areas[c], TilesOf(c))

TerritoryInv ==
    /\ TerritoryTypeOK /\ TerritoryRows
    /\ SitesAreNoted /\ TotemsStand /\ ClaimsAreSound /\ ClaimsStayApart

LEMMA TerritoryInvImplies ==
    TerritoryInv => TerritoryTypeOK /\ CountersAreExact /\ CoveredIsClaimed
                    /\ ClaimsHangTogether /\ ClaimsStayApart
<1> SUFFICES ASSUME TerritoryInv
             PROVE  TerritoryTypeOK /\ CountersAreExact /\ CoveredIsClaimed
                    /\ ClaimsHangTogether /\ ClaimsStayApart
  OBVIOUS
<1>1. CountersAreExact
  BY DEF TerritoryInv, ClaimsAreSound, Exact, CountersAreExact, Buildings, NeighborsIn
<1>2. CoveredIsClaimed
  BY DEF TerritoryInv, SitesAreNoted, Noted, CoveredIsClaimed, Built
<1>3. ClaimsHangTogether
  <2> SUFFICES ASSUME NEW c \in Live
               PROVE  /\ AroundInclusive(areas[c].totem.at, ClaimRadius) \subseteq TilesOf(c)
                      /\ TilesOf(c) \subseteq Reached(areas[c].totem.at, TilesOf(c))
    BY DEF ClaimsHangTogether
  <2>1. areas[c].totem.at \in Hexes /\ ClaimRadius \in Nat
    BY ClaimTerritoryAssumption DEF TerritoryInv, TerritoryRows, Hexes, Area
  <2>2. AroundInclusive(areas[c].totem.at, ClaimRadius) = Hexagon(areas[c].totem.at, ClaimRadius)
    BY <2>1, AroundIsHexagon
  <2> QED BY <2>2 DEF TerritoryInv, ClaimsAreSound, Shaped
<1> QED BY <1>1, <1>2, <1>3 DEF TerritoryInv

LEMMA TerritoryInitInv == TerritoryInit => TerritoryInv
<1> SUFFICES ASSUME TerritoryInit PROVE TerritoryInv
  OBVIOUS
<1>1. DOMAIN tiles = {} /\ DOMAIN sites = {} /\ Live = {} /\ minted = 0
  BY DEF TerritoryInit, Live
<1>2. IsFiniteSet({})
  BY FS_EmptySet
<1>3. 0 \in 0 .. MaxClaims
  BY ClaimTerritoryAssumption
<1>4. tiles = [t \in {} |-> t] /\ areas = [t \in {} |-> t] /\ sites = [t \in {} |-> t]
  BY DEF TerritoryInit
<1>5. TerritoryTypeOK
  BY <1>1, <1>3 DEF TerritoryTypeOK
<1>6. TerritoryRows
  <2>1. tiles \in [{} -> Live] /\ sites \in [{} -> [built : BOOLEAN, claim : {NoClaim} \cup 1 .. minted]]
        /\ areas \in [{} -> Area]
    BY <1>4
  <2> QED BY <1>1, <1>2, <2>1 DEF TerritoryRows
<1> QED BY <1>1, <1>5, <1>6 DEF TerritoryInv, SitesAreNoted, TotemsStand, ClaimsAreSound, ClaimsStayApart

LEMMA UnderIsSame ==
    ASSUME NEW footprint, footprint # {}, NEW on, NEW more,
           \A d \in 1 .. MaxClaims : Covers(d, footprint, on) <=> Covers(d, footprint, more)
    PROVE  ClaimUnder(footprint, on) = ClaimUnder(footprint, more)
<1> DEFINE a == ClaimUnder(footprint, on)
           b == ClaimUnder(footprint, more)
<1>1. a \in {NoClaim} \cup 1 .. MaxClaims /\ b \in {NoClaim} \cup 1 .. MaxClaims
  BY UnderIsCovering
<1>2. \A d \in 1 .. MaxClaims : (a = d <=> Covers(d, footprint, on)) /\ (b = d <=> Covers(d, footprint, more))
  BY UnderIsCovering
<1> HIDE DEF a, b
<1>3. a = b
  BY <1>1, <1>2
<1> QED BY <1>3 DEF a, b

(***************************************************************************)
(* When tiles are added to a claim, a site that touches them is noted for  *)
(* it if it is covered.                                                    *)
(***************************************************************************)
LEMMA NotedWithMore ==
    ASSUME NEW p, p.tiles # {}, NEW on, NEW more, NEW added,
           added \cap DOMAIN on = {}, DOMAIN more = DOMAIN on \cup added,
           NEW c \in 1 .. MaxClaims,
           \A u \in added : more[u] = c, \A u \in DOMAIN on : more[u] = on[u],
           NEW live, NEW claim, NEW next,
           Noted(p, claim, on, live), claim = c => c \in live,
           next # claim => next = c /\ ClaimUnder(p.tiles, more) = c,
           p.tiles \cap added # {} /\ ClaimUnder(p.tiles, more) = c /\ claim = NoClaim => next = c
    PROVE  Noted(p, next, more, live \cup {c})
<1>0. c # NoClaim
  BY ClaimTerritoryAssumption
<1>1. CASE next # claim
  BY <1>1 DEF Noted
<1>2. CASE next = claim
  <2> SUFFICES ASSUME claim \in live \cup {c, NoClaim} PROVE ClaimUnder(p.tiles, more) = claim
    BY <1>2 DEF Noted
  <2>1. ClaimUnder(p.tiles, on) = claim
    BY DEF Noted
  <2>2. CASE p.tiles \cap added = {}
    <3>1. \A d \in 1 .. MaxClaims : Covers(d, p.tiles, on) <=> Covers(d, p.tiles, more)
      BY <2>2 DEF Covers
    <3> QED BY <2>1, <3>1, UnderIsSame
  <2>3. CASE p.tiles \cap added # {}
    <3>1. PICK u \in p.tiles : u \in added
      BY <2>3
    <3>2. \A d : ~Covers(d, p.tiles, on)
      BY <3>1 DEF Covers
    <3>3. claim = NoClaim
      BY <2>1, <3>2, UnderIsCovering
    <3>4. ClaimUnder(p.tiles, more) # c
      BY <1>0, <1>2, <2>3, <3>3
    <3>5. \A d : Covers(d, p.tiles, more) => d = c
      BY <3>1 DEF Covers
    <3> DEFINE b == ClaimUnder(p.tiles, more)
    <3>6. b \in {NoClaim} \cup 1 .. MaxClaims /\ \A d \in 1 .. MaxClaims : b = d <=> Covers(d, p.tiles, more)
      BY UnderIsCovering
    <3> HIDE DEF b
    <3>7. b # c
      BY <3>4 DEF b
    <3>8. b = NoClaim
      BY <3>5, <3>6, <3>7
    <3> QED BY <3>3, <3>8 DEF b
  <2> QED BY <2>2, <2>3
<1> QED BY <1>1, <1>2

Recorded(p, added, on, c, before, after) ==
    /\ after.built = before.built
    /\ after.claim =
          IF p.tiles \cap added # {} /\ ClaimUnder(p.tiles, on) = c
             /\ (before.built => before.claim = NoClaim)
          THEN c ELSE before.claim

LEMMA SitesClaimed ==
    ASSUME NEW added, NEW on, NEW c, NEW S,
           NEW in \in [DOMAIN sites -> [built : BOOLEAN, claim : S]],
           NEW out, out = ClaimSites(added, on, c, in)
    PROVE  /\ out \in [DOMAIN sites -> [built : BOOLEAN, claim : S \cup {c}]]
           /\ \A p \in DOMAIN sites : Recorded(p, added, on, c, in[p], out[p])
<1> DEFINE Taken(p) == p.tiles \cap added # {} /\ ClaimUnder(p.tiles, on) = c
                       /\ (in[p].built => in[p].claim = NoClaim)
<1>1. DOMAIN out = DOMAIN sites
  BY DEF ClaimSites
<1>2. \A p \in DOMAIN sites : out[p] = IF Taken(p) THEN [in[p] EXCEPT !.claim = c] ELSE in[p]
  <2> TAKE p \in DOMAIN sites
  <2>1. in[p].built \in BOOLEAN
    OBVIOUS
  <2>2. Taken(p) <=> p \in Unclaimed(added, on, c, in) \/ (p \in Touched(added, on, c) /\ ~in[p].built)
    BY <2>1 DEF Unclaimed, Touched
  <2> HIDE DEF Taken
  <2> QED BY <2>2 DEF ClaimSites
<1>3. out = [p \in DOMAIN sites |-> out[p]]
  BY DEF ClaimSites
<1> HIDE DEF Taken
<1>4. ASSUME NEW p \in DOMAIN sites
      PROVE  /\ out[p] \in [built : BOOLEAN, claim : S \cup {c}]
             /\ out[p].built = in[p].built
             /\ out[p].claim = IF Taken(p) THEN c ELSE in[p].claim
  <2>1. in[p] \in [built : BOOLEAN, claim : S]
    OBVIOUS
  <2>2. CASE Taken(p)
    BY <1>2, <2>1, <2>2
  <2>3. CASE ~Taken(p)
    BY <1>2, <2>1, <2>3
  <2> QED BY <2>2, <2>3
<1>5. out \in [DOMAIN sites -> [built : BOOLEAN, claim : S \cup {c}]]
  BY <1>3, <1>4
<1> QED BY <1>4, <1>5 DEF Taken, Recorded

LEMMA ClaimsAreNumbers ==
    ASSUME TerritoryInv
    PROVE  /\ NoClaim \notin Live /\ Live \subseteq 1 .. minted /\ Live \subseteq 1 .. MaxClaims
           /\ minted \in Nat /\ minted <= MaxClaims /\ MaxClaims \in Nat
           /\ \A p \in DOMAIN sites : p \in Plans /\ p.tiles # {} /\ p.at \in p.tiles /\ p.at \in Hexes
           /\ \A c \in Live : areas[c].totem.at \in Hexes
BY ClaimTerritoryAssumption DEF TerritoryInv, TerritoryTypeOK, TerritoryRows, Hexes, Area

LEMMA OwnTiles ==
    ASSUME TerritoryInv
    PROVE  \A c : IsFiniteSet(TilesOf(c)) /\ TilesOf(c) \subseteq DOMAIN tiles /\ TilesOf(c) \subseteq Hexes
<1> TAKE c
<1>1. TilesOf(c) \subseteq DOMAIN tiles
  BY DEF TilesOf
<1> QED BY <1>1, FS_Subset DEF TerritoryInv, TerritoryRows

LEMMA OwnBuildings ==
    ASSUME TerritoryInv
    PROVE  \A c : IsFiniteSet(Buildings(c)) /\ Buildings(c) \subseteq DOMAIN sites /\ Buildings(c) \subseteq Plans
<1> TAKE c
<1>1. Buildings(c) \subseteq DOMAIN sites /\ DOMAIN sites \subseteq Plans
  BY DEF Buildings, Built, TerritoryInv, TerritoryTypeOK
<1> QED BY <1>1, FS_Subset DEF TerritoryInv, TerritoryRows

-----------------------------------------------------------------------------
(***************************************************************************)
(* Tiles are added one by one                                              *)
(***************************************************************************)

(***************************************************************************)
(* What the claims know of their tiles depends on these alone.             *)
(***************************************************************************)
Sound(area, own, buildings) == Exact(area, own, buildings) /\ Shaped(area, own)

LEMMA SoundIs == ClaimsAreSound <=> \A c \in Live : Sound(areas[c], TilesOf(c), Buildings(c))
BY DEF ClaimsAreSound, Sound

LEMMA NeighborsAreOwn ==
    ASSUME TerritoryInv, NEW c \in Live, NEW t \in Hexes, ClaimsWithin(t, MinDistance) \subseteq {c}
    PROVE  NeighborsDirect(t) \cap DOMAIN tiles = NeighborsDirect(t) \cap TilesOf(c)
<1> SUFFICES ASSUME NEW u \in NeighborsDirect(t), u \in DOMAIN tiles PROVE tiles[u] = c
  BY DEF TilesOf
<1>1. u \in Hexes
  BY DEF TerritoryInv, TerritoryRows
<1>2. Distance(t, u) = 1
  BY <1>1, NeighborsAreNear
<1>3. Distance(t, u) <= MinDistance
  BY <1>2, ClaimTerritoryAssumption
<1> QED BY <1>3 DEF ClaimsWithin

LEMMA AddTileKeepsInv ==
    ASSUME TerritoryInv, NEW c \in Live, NEW t \in Land, AddTile(c, t)
    PROVE  TerritoryInv'
<1> DEFINE on == With(tiles, t, c)
           adjacent == Adjacent(t, DOMAIN tiles)
           own == TilesOf(c)
           new == Unclaimed({t}, on, c, sites)
<1>1. /\ t \in Hexes /\ t \notin DOMAIN tiles /\ adjacent > 0 /\ ClaimsWithin(t, MinDistance) \subseteq {c}
      /\ tiles' = on /\ minted' = minted
      /\ sites' = ClaimSites({t}, on, c, sites)
      /\ areas' = [areas EXCEPT ![c].tiles = @ + 1,
                                ![c].neighbors = @ + 2 * adjacent,
                                ![c].maintenance = @ + Upkeep(new)]
  BY ClaimTerritoryAssumption DEF AddTile, Hexes
<1>2. /\ DOMAIN tiles' = DOMAIN tiles \cup {t} /\ tiles'[t] = c
      /\ (\A u \in DOMAIN tiles : tiles'[u] = tiles[u] /\ tiles[u] \in Live)
      /\ tiles' = [u \in DOMAIN tiles' |-> tiles'[u]]
  BY <1>1 DEF With, TerritoryInv, TerritoryRows
<1>3. /\ Live' = Live /\ areas' = [d \in Live |-> areas'[d]]
      /\ \A d \in Live \ {c} : areas'[d] = areas[d]
      /\ areas'[c] = [totem |-> areas[c].totem, tiles |-> areas[c].tiles + 1,
                      neighbors |-> areas[c].neighbors + 2 * adjacent,
                      maintenance |-> areas[c].maintenance + Upkeep(new)]
  <2>1. areas \in [Live -> Area]
    BY DEF TerritoryInv, TerritoryRows
  <2> HIDE DEF adjacent, new
  <2> QED BY <1>1, <2>1 DEF Live, Area
<1>4. /\ sites' \in [DOMAIN sites -> [built : BOOLEAN, claim : {NoClaim} \cup 1 .. minted]]
      /\ DOMAIN sites' = DOMAIN sites
      /\ \A p \in DOMAIN sites :
            /\ sites'[p].built = sites[p].built
            /\ sites'[p].claim =
                  IF p.tiles \cap {t} # {} /\ ClaimUnder(p.tiles, tiles') = c
                     /\ (sites[p].built => sites[p].claim = NoClaim)
                  THEN c ELSE sites[p].claim
  <2> DEFINE S == {NoClaim} \cup 1 .. minted
  <2>1. sites \in [DOMAIN sites -> [built : BOOLEAN, claim : S]]
    BY DEF TerritoryInv, TerritoryRows, Site
  <2>2. S \cup {c} = S
    BY ClaimsAreNumbers
  <2> HIDE DEF S
  <2>3. /\ sites' \in [DOMAIN sites -> [built : BOOLEAN, claim : S \cup {c}]]
        /\ \A p \in DOMAIN sites :
            /\ sites'[p].built = sites[p].built
            /\ sites'[p].claim =
                  IF p.tiles \cap {t} # {} /\ ClaimUnder(p.tiles, tiles') = c
                     /\ (sites[p].built => sites[p].claim = NoClaim)
                  THEN c ELSE sites[p].claim
    <3> DEFINE out == sites'
    <3>1. out = ClaimSites({t}, on, c, sites) /\ tiles' = on
      BY <1>1
    <3> HIDE DEF out, on
    <3>2. /\ out \in [DOMAIN sites -> [built : BOOLEAN, claim : S \cup {c}]]
          /\ \A p \in DOMAIN sites : Recorded(p, {t}, on, c, sites[p], out[p])
      BY <2>1, <3>1, SitesClaimed
    <3> QED BY <3>1, <3>2 DEF out, Recorded
  <2>4. DOMAIN sites' = DOMAIN sites
    BY <2>3
  <2> QED BY <2>2, <2>3, <2>4 DEF S
<1>5. new = {p \in DOMAIN sites : p.tiles \cap {t} # {} /\ ClaimUnder(p.tiles, tiles') = c
                                  /\ sites[p].built /\ sites[p].claim = NoClaim}
  BY <1>1 DEF Unclaimed, Touched
<1> HIDE DEF on, new
<1>6. c # NoClaim /\ c \in 1 .. MaxClaims /\ c \in 1 .. minted
  BY ClaimsAreNumbers
<1>7. Buildings(c)' = Buildings(c) \cup new /\ Buildings(c) \cap new = {}
  BY <1>4, <1>5, <1>6 DEF Buildings, Built
<1>8. \A d \in Live \ {c} : Buildings(d)' = Buildings(d)
  <2> TAKE d \in Live \ {c}
  <2>1. d # NoClaim
    BY ClaimsAreNumbers
  <2> QED BY <1>4, <2>1 DEF Buildings, Built
<1>9. TilesOf(c)' = own \cup {t} /\ t \notin own /\ \A d \in Live \ {c} : TilesOf(d)' = TilesOf(d)
  BY <1>1, <1>2 DEF TilesOf
<1>10. adjacent = Adjacent(t, own) /\ adjacent \in Nat /\ NeighborsDirect(t) \cap own # {}
  <2>1. adjacent = Adjacent(t, own)
    BY <1>1, NeighborsAreOwn DEF Adjacent
  <2>2. adjacent \in Nat
    BY <1>1, AdjacentIsNatural
  <2>3. NeighborsDirect(t) \cap own # {}
    <3> SUFFICES ASSUME NeighborsDirect(t) \cap own = {} PROVE FALSE
      OBVIOUS
    <3>1. adjacent = 0
      BY <2>1, FS_EmptySet DEF Adjacent
    <3> QED BY <1>1, <3>1
  <2> QED BY <2>1, <2>2, <2>3
<1> HIDE DEF adjacent
<1>11. IsFiniteSet(own) /\ own \subseteq Hexes
  BY OwnTiles
<1>12. IsFiniteSet(new) /\ new \subseteq Plans /\ Upkeep(new) \in Nat
  <2>1. new \subseteq DOMAIN sites /\ DOMAIN sites \subseteq Plans
    BY <1>5 DEF TerritoryInv, TerritoryTypeOK
  <2>2. IsFiniteSet(new)
    BY <2>1, FS_Subset DEF TerritoryInv, TerritoryRows
  <2> QED BY <2>1, <2>2, UpkeepIsSum
<1>13. TerritoryTypeOK'
  <2>1. \A d \in Live : areas'[d].totem = areas[d].totem
    BY <1>3
  <2>2. \A d \in Live : areas'[d].tiles \in Nat /\ areas'[d].neighbors \in Nat /\ areas'[d].maintenance \in Nat
    BY <1>3, <1>10, <1>12 DEF TerritoryInv, TerritoryTypeOK
  <2>3. Built' = Built
    BY <1>4 DEF Built
  <2>4. \A u \in DOMAIN tiles' : tiles'[u] \in Live
    BY <1>2
  <2>5. \A p \in DOMAIN sites : sites'[p].claim \in {NoClaim} \cup 1 .. minted
    BY <1>4
  <2>6. /\ DOMAIN sites \subseteq Plans /\ minted \in 0 .. MaxClaims /\ Live \subseteq 1 .. minted
        /\ \A d \in Live : areas[d].totem \in Built
    BY DEF TerritoryInv, TerritoryTypeOK
  <2>7. \A d \in Live : areas'[d].totem \in Built
    BY <2>1, <2>6
  <2>8. Live' = Live /\ DOMAIN sites' = DOMAIN sites /\ minted' = minted
    BY <1>1, <1>3, <1>4
  <2> QED BY <2>2, <2>3, <2>4, <2>5, <2>6, <2>7, <2>8 DEF TerritoryTypeOK
<1>14. TerritoryRows'
  <2>1. IsFiniteSet(DOMAIN tiles') /\ DOMAIN tiles' \subseteq Hexes
    BY <1>1, <1>2, FS_AddElement DEF TerritoryInv, TerritoryRows
  <2>2. tiles' \in [DOMAIN tiles' -> Live]
    BY <1>2
  <2>3. areas' \in [Live -> Area]
    <3>1. areas \in [Live -> Area]
      BY DEF TerritoryInv, TerritoryRows
    <3>2. areas[c] \in Area
      BY <3>1
    <3>3. areas'[c] \in Area
      BY <1>3, <1>10, <1>12, <3>2 DEF Area
    <3>4. \A d \in Live : areas'[d] \in Area
      BY <1>3, <3>1, <3>3
    <3> QED BY <1>3, <3>4
  <2> QED BY <1>1, <1>3, <1>4, <2>1, <2>2, <2>3 DEF TerritoryInv, TerritoryRows, Area, Site
<1>15. SitesAreNoted'
  <2> SUFFICES ASSUME NEW p \in DOMAIN sites
               PROVE  Noted(p, sites'[p].claim, tiles', Live)
    BY <1>3, <1>4 DEF SitesAreNoted
  <2>1. Noted(p, sites[p].claim, tiles, Live) /\ p.tiles # {}
    BY ClaimsAreNumbers DEF TerritoryInv, SitesAreNoted
  <2> DEFINE next == sites'[p].claim
             claim == sites[p].claim
  <2>2. \A u \in {t} : tiles'[u] = c
    BY <1>2
  <2>3. {t} \cap DOMAIN tiles = {} /\ DOMAIN tiles' = DOMAIN tiles \cup {t}
    BY <1>1, <1>2
  <2>4. \A u \in DOMAIN tiles : tiles'[u] = tiles[u]
    BY <1>2
  <2>5. /\ next # claim => next = c /\ ClaimUnder(p.tiles, tiles') = c
        /\ p.tiles \cap {t} # {} /\ ClaimUnder(p.tiles, tiles') = c /\ claim = NoClaim => next = c
    BY <1>4
  <2>6. Noted(p, next, tiles', Live \cup {c})
    <3>1. Noted(p, claim, tiles, Live) /\ (claim = c => c \in Live)
      BY <2>1
    <3> HIDE DEF next, claim
    <3> QED BY <1>6, <2>1, <2>2, <2>3, <2>4, <2>5, <3>1, NotedWithMore
  <2>7. Live \cup {c} = Live
    OBVIOUS
  <2> QED BY <2>6, <2>7
<1>16. TotemsStand'
  <2> SUFFICES ASSUME NEW d \in Live PROVE TotemOf(d, areas'[d].totem, sites')
    BY <1>3 DEF TotemsStand
  <2>1. areas'[d].totem = areas[d].totem /\ TotemOf(d, areas[d].totem, sites)
    BY <1>3 DEF TerritoryInv, TotemsStand
  <2>2. d # NoClaim
    BY ClaimsAreNumbers
  <2> QED BY <1>4, <2>1, <2>2 DEF TotemOf
<1>17. ClaimsAreSound'
  <2>1. \A d \in Live : Sound(areas[d], TilesOf(d), Buildings(d))
    BY SoundIs DEF TerritoryInv
  <2>2. \A d \in Live \ {c} : Sound(areas'[d], TilesOf(d)', Buildings(d)')
    BY <1>3, <1>8, <1>9, <2>1
  <2>3. Exact(areas'[c], own \cup {t}, Buildings(c) \cup new)
    <3>1. Exact(areas[c], own, Buildings(c))
      BY <2>1 DEF Sound
    <3>2. Cardinality(own \cup {t}) = Cardinality(own) + 1
      BY <1>9, <1>11, FS_AddElement
    <3>3. SumFunction(NeighborsIn(own \cup {t})) = SumFunction(NeighborsIn(own)) + 2 * adjacent
      BY <1>1, <1>9, <1>10, <1>11, NeighborsWithNew
    <3>4. Upkeep(Buildings(c) \cup new) = Upkeep(Buildings(c)) + Upkeep(new)
      BY <1>7, <1>12, OwnBuildings, UpkeepOfUnion
    <3> QED BY <1>3, <3>1, <3>2, <3>3, <3>4 DEF Exact
  <2>4. Shaped(areas'[c], own \cup {t})
    <3>1. Shaped(areas[c], own) /\ areas'[c].totem = areas[c].totem
      BY <1>3, <2>1 DEF Sound
    <3> DEFINE at == areas[c].totem.at
    <3>2. Hexagon(at, ClaimRadius) \subseteq own /\ own \subseteq Reached(at, own)
      BY <3>1 DEF Shaped
    <3> HIDE DEF at
    <3>3. own \cup {t} \subseteq Reached(at, own \cup {t})
      BY <1>9, <1>10, <1>11, <3>2, ReachedWithNew
    <3> QED BY <3>1, <3>2, <3>3 DEF Shaped, at
  <2>5. Sound(areas'[c], TilesOf(c)', Buildings(c)')
    BY <1>7, <1>9, <2>3, <2>4 DEF Sound
  <2>6. \A d \in Live' : Sound(areas'[d], TilesOf(d)', Buildings(d)')
    BY <1>3, <2>2, <2>5
  <2> QED BY <2>6 DEF ClaimsAreSound, Sound
<1>18. ClaimsStayApart'
  <2>1. \A u \in DOMAIN tiles : tiles[u] # c => Distance(t, u) > MinDistance /\ Distance(u, t) > MinDistance
    <3> SUFFICES ASSUME NEW u \in DOMAIN tiles, tiles[u] # c
                 PROVE  Distance(t, u) > MinDistance /\ Distance(u, t) > MinDistance
      OBVIOUS
    <3>1. u \in Hexes
      BY DEF TerritoryInv, TerritoryRows
    <3>2. ~ (Distance(t, u) <= MinDistance)
      BY <1>1 DEF ClaimsWithin
    <3>3. Distance(t, u) \in Nat /\ Distance(u, t) = Distance(t, u) /\ MinDistance \in Nat
      BY <1>1, <3>1, DistanceIsNatural, DistanceIsSymmetric, ClaimTerritoryAssumption
    <3> QED BY <3>2, <3>3
  <2>2. \A u, v \in DOMAIN tiles : tiles[u] # tiles[v] => Distance(u, v) > MinDistance
    BY DEF TerritoryInv, ClaimsStayApart
  <2> QED BY <1>2, <2>1, <2>2 DEF ClaimsStayApart
<1> QED BY <1>13, <1>14, <1>15, <1>16, <1>17, <1>18 DEF TerritoryInv

-----------------------------------------------------------------------------
(***************************************************************************)
(* Sites come and go                                                       *)
(***************************************************************************)

(***************************************************************************)
(* Steps that leave the tiles alone.                                       *)
(***************************************************************************)
LEMMA TilesUntouched ==
    ASSUME TerritoryInv, tiles' = tiles, minted' = minted,
           areas' \in [Live -> Area],
           IsFiniteSet(DOMAIN sites'), DOMAIN sites' \subseteq Plans,
           sites' \in [DOMAIN sites' -> Site],
           \A p \in DOMAIN sites' : Noted(p, sites'[p].claim, tiles, Live),
           \A d \in Live : /\ areas'[d].totem = areas[d].totem
                           /\ areas'[d].tiles = areas[d].tiles
                           /\ areas'[d].neighbors = areas[d].neighbors
                           /\ areas'[d].maintenance = Upkeep(Buildings(d)')
                           /\ TotemOf(d, areas[d].totem, sites')
    PROVE  TerritoryInv'
<1>1. Live' = Live
  BY DEF Live
<1>2. \A d : TilesOf(d)' = TilesOf(d)
  BY DEF TilesOf
<1>3. TerritoryTypeOK'
  <2>1. /\ minted \in 0 .. MaxClaims /\ Live \subseteq 1 .. minted
        /\ \A t \in DOMAIN tiles : tiles[t] \in Live
    BY DEF TerritoryInv, TerritoryTypeOK
  <2>2. \A d \in Live : areas'[d].totem \in Built'
    BY DEF TotemOf, Built
  <2>3. \A d \in Live : areas'[d].tiles \in Nat /\ areas'[d].neighbors \in Nat /\ areas'[d].maintenance \in Nat
    BY DEF Area
  <2>4. \A p \in DOMAIN sites' : sites'[p].claim \in {NoClaim} \cup 1 .. minted
    BY DEF Site
  <2> QED BY <1>1, <2>1, <2>2, <2>3, <2>4 DEF TerritoryTypeOK
<1>4. TerritoryRows'
  BY <1>1 DEF TerritoryInv, TerritoryRows, Area, Site
<1>5. SitesAreNoted'
  BY <1>1 DEF SitesAreNoted
<1>6. TotemsStand'
  BY <1>1 DEF TotemsStand
<1>7. ClaimsAreSound'
  <2>1. \A d \in Live : Sound(areas[d], TilesOf(d), Buildings(d))
    BY SoundIs DEF TerritoryInv
  <2>2. \A d \in Live : Sound(areas'[d], TilesOf(d), Buildings(d)')
    BY <2>1 DEF Sound, Exact, Shaped
  <2> QED BY <1>1, <1>2, <2>2 DEF ClaimsAreSound, Sound
<1>8. ClaimsStayApart'
  BY DEF TerritoryInv, ClaimsStayApart
<1> QED BY <1>3, <1>4, <1>5, <1>6, <1>7, <1>8 DEF TerritoryInv

LEMMA TablesAre ==
    ASSUME TerritoryInv
    PROVE  /\ areas \in [Live -> Area] /\ sites \in [DOMAIN sites -> Site]
           /\ IsFiniteSet(DOMAIN sites) /\ DOMAIN sites \subseteq Plans
           /\ \A p \in DOMAIN sites : Noted(p, sites[p].claim, tiles, Live)
           /\ \A d \in Live : /\ areas[d].maintenance = Upkeep(Buildings(d))
                              /\ TotemOf(d, areas[d].totem, sites)
BY DEF TerritoryInv, TerritoryTypeOK, TerritoryRows, Area, Site, SitesAreNoted, ClaimsAreSound, Exact, TotemsStand

\* the claim that covers a building is one that has tiles
LEMMA CoveringIsLive ==
    ASSUME TerritoryInv, NEW p \in Plans
    PROVE  ClaimUnder(p.tiles, tiles) \in {NoClaim} \cup Live
<1> DEFINE a == ClaimUnder(p.tiles, tiles)
<1>1. p.at \in p.tiles
  BY ClaimTerritoryAssumption
<1>2. a \in {NoClaim} \cup 1 .. MaxClaims /\ \A d \in 1 .. MaxClaims : a = d <=> Covers(d, p.tiles, tiles)
  BY <1>1, UnderIsCovering
<1>3. \A d : Covers(d, p.tiles, tiles) => d \in Live
  BY <1>1 DEF Covers, TerritoryInv, TerritoryTypeOK
<1> HIDE DEF a
<1>4. a \in {NoClaim} \cup Live
  BY <1>2, <1>3
<1> QED BY <1>4 DEF a

LEMMA PlaceProjectKeepsInv ==
    ASSUME TerritoryInv, NEW p \in Plans \ DOMAIN sites, PlaceProject(p)
    PROVE  TerritoryInv'
<1> DEFINE row == [built |-> FALSE, claim |-> ClaimUnder(p.tiles, tiles)]
<1>1. tiles' = tiles /\ areas' = areas /\ minted' = minted /\ sites' = With(sites, p, row)
  BY DEF PlaceProject
<1>2. row \in Site /\ ~row.built /\ Noted(p, row.claim, tiles, Live)
  BY CoveringIsLive, ClaimsAreNumbers DEF Site, Noted
<1> HIDE DEF row
<1>3. /\ DOMAIN sites' = DOMAIN sites \cup {p} /\ sites'[p] = row
      /\ \A q \in DOMAIN sites : sites'[q] = sites[q]
      /\ sites' = [q \in DOMAIN sites' |-> sites'[q]]
  BY <1>1 DEF With
<1>4. sites' \in [DOMAIN sites' -> Site] /\ DOMAIN sites' \subseteq Plans
  BY <1>2, <1>3, TablesAre
<1>5. IsFiniteSet(DOMAIN sites')
  BY <1>3, TablesAre, FS_AddElement
<1>6. \A q \in DOMAIN sites' : Noted(q, sites'[q].claim, tiles, Live)
  BY <1>2, <1>3, TablesAre
<1>7. \A d : Buildings(d)' = Buildings(d)
  BY <1>2, <1>3 DEF Buildings, Built
<1>8. \A d \in Live : TotemOf(d, areas[d].totem, sites')
  BY <1>3, TablesAre DEF TotemOf
<1> QED BY <1>1, <1>4, <1>5, <1>6, <1>7, <1>8, TablesAre, TilesUntouched

LEMMA CancelProjectKeepsInv ==
    ASSUME TerritoryInv, NEW p \in DOMAIN sites, CancelProject(p)
    PROVE  TerritoryInv'
<1>1. ~sites[p].built /\ tiles' = tiles /\ areas' = areas /\ minted' = minted /\ sites' = Without(sites, p)
  BY DEF CancelProject
<1>2. /\ DOMAIN sites' = DOMAIN sites \ {p} /\ \A q \in DOMAIN sites' : sites'[q] = sites[q]
      /\ sites' = [q \in DOMAIN sites' |-> sites'[q]]
  BY <1>1 DEF Without
<1>3. sites' \in [DOMAIN sites' -> Site] /\ DOMAIN sites' \subseteq Plans
  BY <1>2, TablesAre
<1>4. IsFiniteSet(DOMAIN sites')
  BY <1>2, TablesAre, FS_Subset
<1>5. \A q \in DOMAIN sites' : Noted(q, sites'[q].claim, tiles, Live)
  BY <1>2, TablesAre
<1>6. \A d : Buildings(d)' = Buildings(d)
  BY <1>1, <1>2 DEF Buildings, Built
<1>7. \A d \in Live : TotemOf(d, areas[d].totem, sites')
  BY <1>1, <1>2, TablesAre DEF TotemOf
<1> QED BY <1>1, <1>3, <1>4, <1>5, <1>6, <1>7, TablesAre, TilesUntouched

LEMMA FinishProjectKeepsInv ==
    ASSUME TerritoryInv, NEW p \in DOMAIN sites, FinishProject(p)
    PROVE  TerritoryInv'
<1> DEFINE c == sites[p].claim
           pays == c # NoClaim /\ p.maintenance # 0
<1>1. /\ ~sites[p].built /\ tiles' = tiles /\ minted' = minted
      /\ p.maintenance # 0 => c \in Live \cup {NoClaim}
      /\ sites' = [sites EXCEPT ![p].built = TRUE]
      /\ areas' = Paid(sites, p)
  BY DEF FinishProject
<1>2. /\ DOMAIN sites' = DOMAIN sites /\ sites'[p] = [built |-> TRUE, claim |-> c]
      /\ \A q \in DOMAIN sites \ {p} : sites'[q] = sites[q]
      /\ sites' = [q \in DOMAIN sites |-> sites'[q]]
  <2>1. sites[p] \in Site
    BY TablesAre
  <2> QED BY <1>1, <2>1 DEF Site
<1>3. /\ areas' = [d \in Live |-> areas'[d]]
      /\ \A d \in Live : /\ areas'[d] \in Area /\ areas'[d].totem = areas[d].totem
                         /\ areas'[d].tiles = areas[d].tiles /\ areas'[d].neighbors = areas[d].neighbors
                         /\ areas'[d].maintenance = areas[d].maintenance + (IF d = c THEN p.maintenance ELSE 0)
  <2>1. \A d \in Live : areas[d] \in Area /\ areas[d].maintenance \in Nat /\ d # NoClaim
    BY TablesAre, ClaimsAreNumbers DEF Area
  <2>2. p.maintenance \in Nat
    BY TablesAre, ClaimTerritoryAssumption
  <2>3. areas = [d \in Live |-> areas[d]]
    BY TablesAre
  <2>4. CASE pays
    <3>1. areas' = [areas EXCEPT ![c].maintenance = @ + p.maintenance]
      BY <1>1, <2>4 DEF Paid
    <3>2. c \in Live
      BY <1>1, <2>4
    <3> HIDE DEF c
    <3>3. /\ areas' = [d \in Live |-> areas'[d]] /\ \A d \in Live \ {c} : areas'[d] = areas[d]
          /\ areas'[c] = [areas[c] EXCEPT !.maintenance = areas[c].maintenance + p.maintenance]
      BY <2>3, <3>1, <3>2
    <3>4. /\ areas'[c] \in Area /\ areas'[c].totem = areas[c].totem
          /\ areas'[c].tiles = areas[c].tiles /\ areas'[c].neighbors = areas[c].neighbors
          /\ areas'[c].maintenance = areas[c].maintenance + p.maintenance
      BY <2>1, <2>2, <3>2, <3>3 DEF Area
    <3>5. ASSUME NEW d \in Live
          PROVE  /\ areas'[d] \in Area /\ areas'[d].totem = areas[d].totem
                 /\ areas'[d].tiles = areas[d].tiles /\ areas'[d].neighbors = areas[d].neighbors
                 /\ areas'[d].maintenance = areas[d].maintenance + (IF d = c THEN p.maintenance ELSE 0)
      <4>1. CASE d = c
        BY <3>4, <4>1
      <4>2. CASE d # c
        <5>1. areas'[d] = areas[d] /\ areas[d].maintenance \in Nat /\ areas[d] \in Area
          BY <2>1, <3>3, <4>2
        <5>2. areas[d].maintenance + 0 = areas[d].maintenance
          BY <5>1
        <5> QED BY <4>2, <5>1, <5>2
      <4> QED BY <4>1, <4>2
    <3> QED BY <3>3, <3>5
  <2>5. CASE ~pays
    <3>1. areas' = areas
      BY <1>1, <2>5 DEF Paid
    <3>2. \A d \in Live : d = c => p.maintenance = 0
      BY <2>1, <2>5
    <3> HIDE DEF c
    <3> QED BY <2>1, <2>2, <2>3, <3>1, <3>2
  <2> QED BY <2>4, <2>5
<1>4. ~ (p \in Built) /\ Built' = Built \cup {p}
  BY <1>1, <1>2 DEF Built
<1>5. \A d \in Live : areas'[d].maintenance = Upkeep(Buildings(d)')
  <2> TAKE d \in Live
  <2>1. areas[d].maintenance = Upkeep(Buildings(d)) /\ Upkeep(Buildings(d)) \in Nat /\ p \in Plans
    BY TablesAre, OwnBuildings, UpkeepIsSum
  <2>2. CASE d = c
    <3>1. Buildings(d)' = Buildings(d) \cup {p} /\ p \notin Buildings(d)
      BY <1>2, <1>4, <2>2 DEF Buildings, Built
    <3>2. Upkeep(Buildings(d) \cup {p}) = Upkeep(Buildings(d)) + p.maintenance
      BY <2>1, <3>1, OwnBuildings, UpkeepWithNew
    <3> QED BY <1>3, <2>1, <2>2, <3>1, <3>2
  <2>3. CASE d # c
    <3>1. Buildings(d)' = Buildings(d)
      BY <1>2, <1>4, <2>3 DEF Buildings, Built
    <3> QED BY <1>3, <2>1, <2>3, <3>1
  <2> QED BY <2>2, <2>3
<1>6. sites' \in [DOMAIN sites' -> Site]
  <2>1. sites[p] \in Site
    BY TablesAre
  <2>2. sites'[p] \in Site
    BY <1>2, <2>1 DEF Site
  <2> QED BY <1>2, <2>2, TablesAre
<1>7. \A q \in DOMAIN sites' : Noted(q, sites'[q].claim, tiles, Live)
  BY <1>2, TablesAre
<1>8. \A d \in Live : TotemOf(d, areas[d].totem, sites')
  BY <1>1, <1>2, TablesAre DEF TotemOf
<1>9. areas' \in [Live -> Area]
  BY <1>3
<1> QED BY <1>1, <1>2, <1>3, <1>5, <1>6, <1>7, <1>8, <1>9, TablesAre, TilesUntouched

LEMMA UpkeepWithout ==
    ASSUME NEW T, IsFiniteSet(T), T \subseteq Plans, NEW p \in T
    PROVE  Upkeep(T) = Upkeep(T \ {p}) + p.maintenance
<1> DEFINE U == T \ {p}
<1>1. IsFiniteSet(U) /\ U \subseteq Plans /\ p \notin U /\ p \in Plans /\ U \cup {p} = T
  BY FS_Subset
<1> HIDE DEF U
<1>2. Upkeep(U \cup {p}) = Upkeep(U) + p.maintenance
  BY <1>1, UpkeepWithNew
<1> QED BY <1>1, <1>2 DEF U

LEMMA MoveKeepsInv ==
    ASSUME TerritoryInv, NEW p \in DOMAIN sites, NEW q \in Plans, Move(p, q)
    PROVE  TerritoryInv'
<1> DEFINE c == sites[p].claim
           row == sites[p]
<1>1. /\ sites[p].built /\ ~p.totem /\ q \notin DOMAIN sites /\ q.maintenance = p.maintenance
      /\ c # NoClaim /\ ClaimUnder(q.tiles, tiles) = c
      /\ sites' = With(Without(sites, p), q, row)
      /\ tiles' = tiles /\ areas' = areas /\ minted' = minted
  BY DEF Move
<1>2. c \in Live
  BY <1>1, CoveringIsLive
<1>3. /\ DOMAIN sites' = (DOMAIN sites \ {p}) \cup {q} /\ sites'[q] = row
      /\ \A s \in DOMAIN sites \ {p} : sites'[s] = sites[s]
      /\ sites' = [s \in DOMAIN sites' |-> sites'[s]]
  BY <1>1 DEF With, Without
<1>4. sites' \in [DOMAIN sites' -> Site] /\ DOMAIN sites' \subseteq Plans
  BY <1>3, TablesAre
<1>5. IsFiniteSet(DOMAIN sites')
  <2>1. IsFiniteSet(DOMAIN sites \ {p})
    BY TablesAre, FS_Subset
  <2> QED BY <1>3, <2>1, FS_AddElement
<1>6. \A s \in DOMAIN sites' : Noted(s, sites'[s].claim, tiles, Live)
  <2>1. Noted(q, c, tiles, Live)
    BY <1>1 DEF Noted
  <2> QED BY <1>3, <2>1, TablesAre
<1>7. \A d \in Live : TotemOf(d, areas[d].totem, sites')
  BY <1>1, <1>3, TablesAre DEF TotemOf
<1>8. \A d \in Live : areas[d].maintenance = Upkeep(Buildings(d)')
  <2> TAKE d \in Live
  <2>1. areas[d].maintenance = Upkeep(Buildings(d)) /\ p \in Plans
    BY TablesAre
  <2>2. CASE d = c
    <3> DEFINE B == Buildings(d)
    <3>1. p \in B /\ q \notin B
      BY <1>1, <2>2 DEF Buildings, Built
    <3>2. Buildings(d)' = (B \ {p}) \cup {q}
      BY <1>1, <1>3, <2>2 DEF Buildings, Built
    <3>3. IsFiniteSet(B) /\ B \subseteq Plans /\ IsFiniteSet(B \ {p}) /\ B \ {p} \subseteq Plans
      BY OwnBuildings, FS_Subset
    <3> HIDE DEF B
    <3>4. Upkeep(B) = Upkeep(B \ {p}) + p.maintenance
      BY <3>1, <3>3, UpkeepWithout
    <3>5. q \notin B \ {p}
      BY <3>1
    <3>6. Upkeep((B \ {p}) \cup {q}) = Upkeep(B \ {p}) + q.maintenance
      BY <3>3, <3>5, UpkeepWithNew
    <3> QED BY <1>1, <2>1, <3>2, <3>4, <3>6 DEF B
  <2>3. CASE d # c
    <3>1. Buildings(d)' = Buildings(d)
      BY <1>1, <1>3, <2>3 DEF Buildings, Built
    <3> QED BY <2>1, <3>1
  <2> QED BY <2>2, <2>3
<1> QED BY <1>1, <1>4, <1>5, <1>6, <1>7, <1>8, TablesAre, TilesUntouched

LEMMA DeleteBuildingKeepsInv ==
    ASSUME TerritoryInv, NEW p \in DOMAIN sites, DeleteBuilding(p)
    PROVE  TerritoryInv'
<1>0. PICK c : c = sites[p].claim
  OBVIOUS
<1>1. /\ sites[p].built /\ ~p.totem /\ tiles' = tiles /\ minted' = minted
      /\ sites' = Without(sites, p)
      /\ areas' = IF c \in Live THEN [areas EXCEPT ![c].maintenance = @ - p.maintenance] ELSE areas
  BY <1>0 DEF DeleteBuilding
<1>2. /\ DOMAIN sites' = DOMAIN sites \ {p} /\ \A q \in DOMAIN sites' : sites'[q] = sites[q]
      /\ sites' = [q \in DOMAIN sites' |-> sites'[q]]
  BY <1>1 DEF Without
<1>3. sites' \in [DOMAIN sites' -> Site] /\ DOMAIN sites' \subseteq Plans
  BY <1>2, TablesAre
<1>4. IsFiniteSet(DOMAIN sites')
  BY <1>2, TablesAre, FS_Subset
<1>5. \A q \in DOMAIN sites' : Noted(q, sites'[q].claim, tiles, Live)
  BY <1>2, TablesAre
<1>6. \A d \in Live : TotemOf(d, areas[d].totem, sites')
  BY <1>1, <1>2, TablesAre DEF TotemOf
<1>7. \A d \in Live : d # c => Buildings(d)' = Buildings(d)
  BY <1>0, <1>2 DEF Buildings, Built
<1>8. \A d \in Live : areas[d] \in Area /\ areas[d].maintenance = Upkeep(Buildings(d))
  BY TablesAre
<1>9. ASSUME c \in Live
      PROVE  /\ areas[c].maintenance - p.maintenance = Upkeep(Buildings(c)')
             /\ Upkeep(Buildings(c)') \in Nat
  <2> DEFINE B == Buildings(c)
             U == B \ {p}
  <2>1. p \in B /\ Buildings(c)' = U
    BY <1>0, <1>1, <1>2 DEF Buildings, Built
  <2>2. IsFiniteSet(B) /\ B \subseteq Plans
    BY OwnBuildings
  <2> HIDE DEF B
  <2>3. Upkeep(B) = Upkeep(U) + p.maintenance
    BY <2>1, <2>2, UpkeepWithout
  <2>4. IsFiniteSet(U) /\ U \subseteq Plans
    BY <2>2, FS_Subset
  <2> HIDE DEF U
  <2>5. Upkeep(U) \in Nat
    BY <2>4, UpkeepIsSum
  <2>6. p.maintenance \in Nat
    BY TablesAre, ClaimTerritoryAssumption
  <2>7. areas[c].maintenance = Upkeep(B)
    BY <1>8, <1>9 DEF B
  <2> QED BY <2>1, <2>3, <2>5, <2>6, <2>7
<1>10. /\ areas' \in [Live -> Area]
       /\ \A d \in Live : /\ areas'[d].totem = areas[d].totem
                          /\ areas'[d].tiles = areas[d].tiles /\ areas'[d].neighbors = areas[d].neighbors
                          /\ areas'[d].maintenance = Upkeep(Buildings(d)')
  <2>1. areas = [d \in Live |-> areas[d]]
    BY TablesAre
  <2>2. CASE c \in Live
    <3>1. areas' = [areas EXCEPT ![c].maintenance = @ - p.maintenance]
      BY <1>1, <2>2
    <3>2. /\ areas[c].maintenance - p.maintenance = Upkeep(Buildings(c)')
          /\ Upkeep(Buildings(c)') \in Nat
      BY <1>9, <2>2
    <3>3. /\ areas' = [d \in Live |-> areas'[d]] /\ \A d \in Live \ {c} : areas'[d] = areas[d]
          /\ areas'[c] = [areas[c] EXCEPT !.maintenance = areas[c].maintenance - p.maintenance]
      BY <2>1, <2>2, <3>1
    <3>4. /\ areas'[c] \in Area /\ areas'[c].totem = areas[c].totem
          /\ areas'[c].tiles = areas[c].tiles /\ areas'[c].neighbors = areas[c].neighbors
          /\ areas'[c].maintenance = Upkeep(Buildings(c)')
      BY <1>8, <2>2, <3>2, <3>3 DEF Area
    <3>5. ASSUME NEW d \in Live
          PROVE  /\ areas'[d] \in Area /\ areas'[d].totem = areas[d].totem
                 /\ areas'[d].tiles = areas[d].tiles /\ areas'[d].neighbors = areas[d].neighbors
                 /\ areas'[d].maintenance = Upkeep(Buildings(d)')
      <4>1. CASE d = c
        BY <3>4, <4>1
      <4>2. CASE d # c
        BY <1>7, <1>8, <3>3, <4>2
      <4> QED BY <4>1, <4>2
    <3> QED BY <3>3, <3>5
  <2>3. CASE c \notin Live
    <3>1. areas' = areas /\ \A d \in Live : d # c
      BY <1>1, <2>3
    <3> QED BY <1>7, <1>8, <2>1, <3>1
  <2> QED BY <2>2, <2>3
<1> QED BY <1>1, <1>3, <1>4, <1>5, <1>6, <1>10, TilesUntouched

-----------------------------------------------------------------------------
(***************************************************************************)
(* Tiles are given up, totems torn down and finished                       *)
(***************************************************************************)

LEMMA RemoveTileKeepsInv ==
    ASSUME TerritoryInv, NEW t \in DOMAIN tiles, RemoveTile(t)
    PROVE  TerritoryInv'
<1>0. PICK c \in Live : c = tiles[t]
  BY DEF TerritoryInv, TerritoryTypeOK
<1> DEFINE own == TilesOf(c)
           left == own \ {t}
           at == areas[c].totem.at
<1>1. /\ Distance(at, t) > ClaimRadius
      /\ \A p \in DOMAIN sites : t \notin p.tiles
      /\ left \subseteq Reached(at, left)
      /\ tiles' = Without(tiles, t)
      /\ areas' = [areas EXCEPT ![c].tiles = @ - 1,
                                ![c].neighbors = @ - 2 * Adjacent(t, left)]
      /\ sites' = sites /\ minted' = minted
  BY <1>0 DEF RemoveTile, HangTogether
<1>2. /\ DOMAIN tiles' = DOMAIN tiles \ {t} /\ \A u \in DOMAIN tiles' : tiles'[u] = tiles[u]
      /\ tiles' = [u \in DOMAIN tiles' |-> tiles'[u]]
  BY <1>1 DEF Without
<1>3. t \in Hexes /\ t \in own /\ IsFiniteSet(own) /\ own \subseteq Hexes
  BY <1>0, OwnTiles DEF TilesOf
<1>4. TilesOf(c)' = left /\ \A d \in Live \ {c} : TilesOf(d)' = TilesOf(d)
  BY <1>0, <1>2 DEF TilesOf
<1>5. IsFiniteSet(left) /\ left \subseteq Hexes /\ t \notin left /\ left \cup {t} = own
  BY <1>3, FS_Subset
<1>6. \A d : Buildings(d)' = Buildings(d)
  BY <1>1 DEF Buildings, Built
<1> HIDE DEF own
<1>7. /\ Cardinality(left) \in Nat /\ Cardinality(own) = Cardinality(left) + 1
      /\ Adjacent(t, left) \in Nat
      /\ SumFunction(NeighborsIn(own)) = SumFunction(NeighborsIn(left)) + 2 * Adjacent(t, left)
  <2> HIDE DEF left
  <2>1. Cardinality(left) \in Nat /\ Cardinality(left \cup {t}) = Cardinality(left) + 1
    BY <1>5, FS_AddElement, FS_CardinalityType
  <2>2. Adjacent(t, left) \in Nat
    BY <1>3, AdjacentIsNatural
  <2>3. SumFunction(NeighborsIn(left \cup {t})) = SumFunction(NeighborsIn(left)) + 2 * Adjacent(t, left)
    BY <1>3, <1>5, NeighborsWithNew
  <2> QED BY <1>5, <2>1, <2>2, <2>3
<1>8. SumFunction(NeighborsIn(left)) \in Nat
  <2>1. \A u \in left : Adjacent(u, left) \in Nat
    BY <1>5, AdjacentIsNatural
  <2>2. NeighborsIn(left) \in [left -> Nat]
    BY <2>1 DEF NeighborsIn
  <2> HIDE DEF left
  <2> QED BY <1>5, <2>2, TotalIsNatural
<1>9. /\ areas \in [Live -> Area] /\ areas[c] \in Area
      /\ areas[c].tiles = Cardinality(own) /\ areas[c].neighbors = SumFunction(NeighborsIn(own))
      /\ areas[c].maintenance = Upkeep(Buildings(c))
  BY TablesAre DEF TerritoryInv, ClaimsAreSound, Exact, own
<1> HIDE DEF left
<1>10. /\ Live' = Live /\ areas' = [d \in Live |-> areas'[d]] /\ \A d \in Live \ {c} : areas'[d] = areas[d]
       /\ areas'[c] = [areas[c] EXCEPT !.tiles = areas[c].tiles - 1,
                                       !.neighbors = areas[c].neighbors - 2 * Adjacent(t, left)]
  BY <1>1, <1>9 DEF Live
<1>11. /\ areas'[c] \in Area /\ areas'[c].totem = areas[c].totem
       /\ areas'[c].tiles = Cardinality(left)
       /\ areas'[c].neighbors = SumFunction(NeighborsIn(left))
       /\ areas'[c].maintenance = areas[c].maintenance
  <2> DEFINE n == areas[c].tiles - 1
             m == areas[c].neighbors - 2 * Adjacent(t, left)
  <2>1. n = Cardinality(left) /\ n \in Nat
    BY <1>7, <1>9
  <2>0. m = SumFunction(NeighborsIn(left)) /\ m \in Nat
    <3> DEFINE before == SumFunction(NeighborsIn(own))
               after == SumFunction(NeighborsIn(left))
               adjacent == Adjacent(t, left)
    <3>1. areas[c].neighbors = before /\ before = after + 2 * adjacent /\ adjacent \in Nat /\ after \in Nat
      BY <1>7, <1>8, <1>9
    <3> HIDE DEF before, after, adjacent
    <3>2. areas[c].neighbors - 2 * adjacent = after
      BY <3>1
    <3> QED BY <3>1, <3>2 DEF adjacent, after
  <2>2. areas'[c] = [areas[c] EXCEPT !.tiles = n, !.neighbors = m]
    BY <1>10
  <2> HIDE DEF n, m
  <2> QED BY <1>9, <2>0, <2>1, <2>2 DEF Area
<1>12. \A d \in Live : areas'[d] \in Area /\ areas'[d].totem = areas[d].totem
  BY <1>9, <1>10, <1>11
<1>13. TerritoryTypeOK'
  <2>1. \A u \in DOMAIN tiles' : tiles'[u] \in Live
    BY <1>2 DEF TerritoryInv, TerritoryTypeOK
  <2>2. \A d \in Live : areas'[d].tiles \in Nat /\ areas'[d].neighbors \in Nat /\ areas'[d].maintenance \in Nat
    BY <1>12 DEF Area
  <2>3. /\ DOMAIN sites \subseteq Plans /\ minted \in 0 .. MaxClaims /\ Live \subseteq 1 .. minted
        /\ \A p \in DOMAIN sites : sites[p].claim \in {NoClaim} \cup 1 .. minted
        /\ \A d \in Live : areas[d].totem \in Built
    BY DEF TerritoryInv, TerritoryTypeOK
  <2>4. Built' = Built
    BY <1>1 DEF Built
  <2>5. \A d \in Live : areas'[d].totem \in Built
    BY <1>12, <2>3
  <2> QED BY <1>1, <1>10, <2>1, <2>2, <2>3, <2>4, <2>5 DEF TerritoryTypeOK
<1>14. TerritoryRows'
  <2>1. IsFiniteSet(DOMAIN tiles') /\ DOMAIN tiles' \subseteq Hexes
    BY <1>2, FS_Subset DEF TerritoryInv, TerritoryRows
  <2>2. tiles' \in [DOMAIN tiles' -> Live]
    BY <1>2 DEF TerritoryInv, TerritoryRows
  <2>3. areas' \in [Live -> Area]
    BY <1>10, <1>12
  <2> QED BY <1>1, <1>10, <2>1, <2>2, <2>3 DEF TerritoryInv, TerritoryRows, Area, Site
<1>15. SitesAreNoted'
  <2> SUFFICES ASSUME NEW p \in DOMAIN sites
               PROVE  Noted(p, sites[p].claim, tiles', Live)
    BY <1>1, <1>10 DEF SitesAreNoted
  <2>1. Noted(p, sites[p].claim, tiles, Live) /\ p.tiles # {} /\ t \notin p.tiles
    BY <1>1, ClaimsAreNumbers, TablesAre
  <2>2. \A d \in 1 .. MaxClaims : Covers(d, p.tiles, tiles) <=> Covers(d, p.tiles, tiles')
    BY <1>2, <2>1 DEF Covers
  <2>3. ClaimUnder(p.tiles, tiles) = ClaimUnder(p.tiles, tiles')
    BY <2>1, <2>2, UnderIsSame
  <2> QED BY <2>1, <2>3 DEF Noted
<1>16. TotemsStand'
  BY <1>1, <1>10, <1>12, TablesAre DEF TotemsStand
<1>17. ClaimsAreSound'
  <2>1. \A d \in Live : Sound(areas[d], TilesOf(d), Buildings(d))
    BY SoundIs DEF TerritoryInv
  <2>2. \A d \in Live \ {c} : Sound(areas'[d], TilesOf(d)', Buildings(d)')
    BY <1>4, <1>6, <1>10, <2>1
  <2>3. Exact(areas'[c], left, Buildings(c))
    BY <1>9, <1>11 DEF Exact
  <2>4. Shaped(areas'[c], left)
    <3>1. Hexagon(at, ClaimRadius) \subseteq own
      BY <2>1 DEF Sound, Shaped, own
    <3>2. at \in Hexes /\ ClaimRadius \in Nat
      BY ClaimsAreNumbers, ClaimTerritoryAssumption
    <3>3. t \notin Hexagon(at, ClaimRadius)
      <4>1. Distance(at, t) \in Nat /\ Distance(at, t) > ClaimRadius
        BY <1>1, <1>3, <3>2, DistanceIsNatural
      <4>2. ~(Distance(at, t) <= ClaimRadius)
        BY <3>2, <4>1
      <4> QED BY <4>2 DEF Hexagon
    <3>4. Hexagon(at, ClaimRadius) \subseteq left
      BY <3>1, <3>3 DEF left
    <3>5. areas'[c].totem.at = at
      BY <1>11
    <3> QED BY <1>1, <3>4, <3>5 DEF Shaped
  <2>5. Sound(areas'[c], TilesOf(c)', Buildings(c)')
    BY <1>4, <1>6, <2>3, <2>4 DEF Sound
  <2>6. \A d \in Live' : Sound(areas'[d], TilesOf(d)', Buildings(d)')
    BY <1>10, <2>2, <2>5
  <2> QED BY <2>6 DEF ClaimsAreSound, Sound
<1>18. ClaimsStayApart'
  BY <1>2 DEF TerritoryInv, ClaimsStayApart
<1> QED BY <1>13, <1>14, <1>15, <1>16, <1>17, <1>18 DEF TerritoryInv

LEMMA DeleteTotemKeepsInv ==
    ASSUME TerritoryInv, NEW c \in Live, DeleteTotem(c)
    PROVE  TerritoryInv'
<1> DEFINE totem == areas[c].totem
<1>1. /\ tiles' = [t \in {u \in DOMAIN tiles : tiles[u] # c} |-> tiles[t]]
      /\ areas' = Without(areas, c)
      /\ sites' = [p \in DOMAIN sites \ {totem} |-> Unclaim(sites[p], c)]
      /\ minted' = minted
  BY DEF DeleteTotem, TilesAfter
<1>2. /\ DOMAIN tiles' = {u \in DOMAIN tiles : tiles[u] # c}
      /\ \A u \in DOMAIN tiles' : tiles'[u] = tiles[u] /\ tiles'[u] \in Live \ {c}
      /\ tiles' = [u \in DOMAIN tiles' |-> tiles'[u]]
  BY <1>1 DEF TerritoryInv, TerritoryTypeOK
<1>3. /\ Live' = Live \ {c} /\ \A d \in Live' : areas'[d] = areas[d]
      /\ areas' = [d \in Live' |-> areas'[d]]
  BY <1>1 DEF Live, Without
<1>4. /\ DOMAIN sites' = DOMAIN sites \ {totem} /\ sites' = [p \in DOMAIN sites' |-> sites'[p]]
      /\ \A p \in DOMAIN sites' :
            /\ sites'[p] \in Site /\ sites'[p].built = sites[p].built
            /\ sites'[p].claim = IF sites[p].built /\ sites[p].claim = c THEN NoClaim ELSE sites[p].claim
  <2>1. DOMAIN sites' = DOMAIN sites \ {totem} /\ \A p \in DOMAIN sites' : sites'[p] = Unclaim(sites[p], c)
    BY <1>1
  <2>2. ASSUME NEW p \in DOMAIN sites'
        PROVE  /\ sites'[p] \in Site /\ sites'[p].built = sites[p].built
               /\ sites'[p].claim = IF sites[p].built /\ sites[p].claim = c THEN NoClaim ELSE sites[p].claim
    <3>1. sites[p] \in Site /\ sites'[p] = Unclaim(sites[p], c)
      BY <2>1, TablesAre
    <3>2. CASE sites[p].built /\ sites[p].claim = c
      <4>1. sites'[p] = [sites[p] EXCEPT !.claim = NoClaim]
        BY <3>1, <3>2 DEF Unclaim
      <4> QED BY <3>1, <3>2, <4>1 DEF Site
    <3>3. CASE ~(sites[p].built /\ sites[p].claim = c)
      <4>1. sites'[p] = sites[p]
        BY <3>1, <3>3 DEF Unclaim
      <4> QED BY <3>1, <3>3, <4>1
    <3> QED BY <3>2, <3>3
  <2> QED BY <1>1, <2>1, <2>2
<1>5. TotemOf(c, totem, sites)
  BY TablesAre
<1> HIDE DEF totem
<1>6. \A d \in Live \ {c} : TilesOf(d)' = TilesOf(d)
  BY <1>2 DEF TilesOf
<1>7. \A d \in Live \ {c} : Buildings(d)' = Buildings(d)
  <2> TAKE d \in Live \ {c}
  <2>1. d # NoClaim /\ d # c
    BY ClaimsAreNumbers
  <2> QED BY <1>4, <1>5, <2>1 DEF Buildings, Built, TotemOf
<1>8. \A d \in Live \ {c} : TotemOf(d, areas[d].totem, sites')
  <2> TAKE d \in Live \ {c}
  <2>1. TotemOf(d, areas[d].totem, sites)
    BY TablesAre
  <2>2. areas[d].totem # totem
    BY <1>5, <2>1 DEF TotemOf
  <2> QED BY <1>4, <2>1, <2>2 DEF TotemOf
<1>9. TerritoryTypeOK'
  <2>1. /\ DOMAIN sites \subseteq Plans /\ minted \in 0 .. MaxClaims /\ Live \subseteq 1 .. minted
        /\ \A d \in Live : areas[d] \in Area
    BY TablesAre DEF TerritoryInv, TerritoryTypeOK
  <2>2. \A d \in Live' : areas'[d].tiles \in Nat /\ areas'[d].neighbors \in Nat /\ areas'[d].maintenance \in Nat
    BY <1>3, <2>1 DEF Area
  <2>3. \A d \in Live' : areas'[d].totem \in Built'
    BY <1>3, <1>8 DEF TotemOf, Built
  <2>4. \A p \in DOMAIN sites' : sites'[p].claim \in {NoClaim} \cup 1 .. minted
    BY <1>4 DEF Site
  <2>5. \A u \in DOMAIN tiles' : tiles'[u] \in Live'
    BY <1>2, <1>3
  <2> QED BY <1>1, <1>3, <1>4, <2>1, <2>2, <2>3, <2>4, <2>5 DEF TerritoryTypeOK
<1>10. TerritoryRows'
  <2>1. IsFiniteSet(DOMAIN tiles') /\ DOMAIN tiles' \subseteq Hexes
    <3>1. DOMAIN tiles' \subseteq DOMAIN tiles
      BY <1>2
    <3> QED BY <3>1, FS_Subset DEF TerritoryInv, TerritoryRows
  <2>2. IsFiniteSet(DOMAIN sites')
    BY <1>4, TablesAre, FS_Subset
  <2>3. tiles' \in [DOMAIN tiles' -> Live']
    BY <1>2, <1>3
  <2>4. areas' \in [Live' -> Area]
    BY <1>3, TablesAre
  <2>5. sites' \in [DOMAIN sites' -> Site]
    BY <1>4
  <2> QED BY <1>1, <2>1, <2>2, <2>3, <2>4, <2>5 DEF TerritoryRows, Area, Site
<1>11. SitesAreNoted'
  <2> SUFFICES ASSUME NEW p \in DOMAIN sites'
               PROVE  Noted(p, sites'[p].claim, tiles', Live \ {c})
    BY <1>3 DEF SitesAreNoted
  <2> DEFINE a == ClaimUnder(p.tiles, tiles)
             b == ClaimUnder(p.tiles, tiles')
             before == sites[p].claim
             after == sites'[p].claim
  <2>1. Noted(p, before, tiles, Live) /\ p.tiles # {}
    BY <1>4, ClaimsAreNumbers, TablesAre
  <2>2. /\ a \in {NoClaim} \cup 1 .. MaxClaims
        /\ \A d \in 1 .. MaxClaims : a = d <=> Covers(d, p.tiles, tiles)
    BY <2>1, UnderIsCovering
  <2>3. /\ b \in {NoClaim} \cup 1 .. MaxClaims
        /\ \A d \in 1 .. MaxClaims : b = d <=> Covers(d, p.tiles, tiles')
    BY <2>1, UnderIsCovering
  <2>4. \A d \in 1 .. MaxClaims : Covers(d, p.tiles, tiles') <=> Covers(d, p.tiles, tiles) /\ d # c
    BY <1>2, <2>1 DEF Covers
  <2>5. before \in Live \cup {NoClaim} => a = before
    BY <2>1 DEF Noted
  <2>6. c # NoClaim /\ c \in 1 .. MaxClaims /\ NoClaim \notin 1 .. MaxClaims
    BY ClaimsAreNumbers, ClaimTerritoryAssumption
  <2>7. /\ after = before \/ (before = c /\ after = NoClaim)
        /\ after \in (Live \ {c}) \cup {NoClaim} => before \in Live \cup {NoClaim}
    BY <1>4
  <2> HIDE DEF a, b, before, after
  <2>8. a = c => b = NoClaim
    BY <2>2, <2>3, <2>4
  <2>9. a # c => b = a
    BY <2>2, <2>3, <2>4, <2>6
  <2>10. after \in (Live \ {c}) \cup {NoClaim} => b = after
    BY <2>5, <2>6, <2>7, <2>8, <2>9
  <2> QED BY <2>10 DEF Noted, b, after
<1>12. TotemsStand'
  BY <1>3, <1>8 DEF TotemsStand
<1>13. ClaimsAreSound'
  <2>1. \A d \in Live : Sound(areas[d], TilesOf(d), Buildings(d))
    BY SoundIs DEF TerritoryInv
  <2>2. \A d \in Live' : Sound(areas'[d], TilesOf(d)', Buildings(d)')
    BY <1>3, <1>6, <1>7, <2>1
  <2> QED BY <2>2 DEF ClaimsAreSound, Sound
<1>14. ClaimsStayApart'
  BY <1>2 DEF TerritoryInv, ClaimsStayApart
<1> QED BY <1>9, <1>10, <1>11, <1>12, <1>13, <1>14 DEF TerritoryInv

\* where a totem can be finished there are no tiles of others
LEMMA FarFromClaims ==
    ASSUME TerritoryInv, NEW at \in Hexes, ClaimsWithin(at, MinDistance + ClaimRadius) = {},
           NEW u \in Hexagon(at, ClaimRadius), NEW v \in DOMAIN tiles
    PROVE  Distance(u, v) > MinDistance /\ Distance(v, u) > MinDistance
<1>1. v \in Hexes /\ u \in Hexes /\ Distance(at, u) <= ClaimRadius
  BY DEF Hexagon, TerritoryInv, TerritoryRows
<1>2. ClaimRadius \in Nat /\ MinDistance \in Nat
  BY ClaimTerritoryAssumption
<1>3. ~(Distance(at, v) <= MinDistance + ClaimRadius)
  BY DEF ClaimsWithin
<1>4. Distance(at, v) \in Nat /\ Distance(u, v) \in Nat /\ Distance(v, u) = Distance(u, v)
  BY <1>1, DistanceIsNatural, DistanceIsSymmetric
<1>5. ~(Distance(u, v) <= MinDistance)
  <2> SUFFICES ASSUME Distance(u, v) <= MinDistance PROVE FALSE
    OBVIOUS
  <2>1. Distance(at, v) <= ClaimRadius + MinDistance
    BY <1>1, <1>2, Triangle
  <2> QED BY <1>2, <1>3, <1>4, <2>1
<1> QED BY <1>2, <1>4, <1>5

LEMMA FirstTiles ==
    ASSUME NEW at \in Hexes
    PROVE  LET H == Hexagon(at, ClaimRadius)
           IN  /\ at \in H /\ H \subseteq Hexes /\ IsFiniteSet(H)
               /\ NumTilesInRadius(ClaimRadius) = Cardinality(H)
               /\ NumTilesInRadius(ClaimRadius) \in Nat
               /\ NumNeighborsInRadius(ClaimRadius) = SumFunction(NeighborsIn(H))
               /\ NumNeighborsInRadius(ClaimRadius) \in Nat
               /\ H \subseteq Reached(at, H)
               /\ H = AroundInclusive(at, ClaimRadius)
<1> DEFINE H == Hexagon(at, ClaimRadius)
<1>1. ClaimRadius \in Nat
  BY ClaimTerritoryAssumption
<1>2. H \subseteq Hexes /\ IsFiniteSet(H) /\ NumTilesInRadius(ClaimRadius) = Cardinality(H)
  BY <1>1, HexagonSize DEF Hexagon
<1>3. at \in H
  <2>1. Distance(at, at) = 0
    BY DistanceOfCenter
  <2> QED BY <1>1, <2>1 DEF Hexagon
<1>4. NumNeighborsInRadius(ClaimRadius) = SumFunction(NeighborsIn(H))
  BY <1>1, HexagonNeighbors
<1>5. H \subseteq Reached(at, H) /\ H = AroundInclusive(at, ClaimRadius)
  BY <1>1, HexagonIsReached, AroundIsHexagon
<1> HIDE DEF H
<1>6. Cardinality(H) \in Nat /\ SumFunction(NeighborsIn(H)) \in Nat
  <2>1. NeighborsIn(H) \in [H -> Nat]
    BY <1>2, AdjacentIsNatural DEF NeighborsIn
  <2> QED BY <1>2, <2>1, TotalIsNatural, FS_CardinalityType
<1>7. /\ at \in H /\ H \subseteq Hexes /\ IsFiniteSet(H)
      /\ NumTilesInRadius(ClaimRadius) = Cardinality(H)
      /\ NumTilesInRadius(ClaimRadius) \in Nat
      /\ NumNeighborsInRadius(ClaimRadius) = SumFunction(NeighborsIn(H))
      /\ NumNeighborsInRadius(ClaimRadius) \in Nat
      /\ H \subseteq Reached(at, H)
      /\ H = AroundInclusive(at, ClaimRadius)
  BY <1>2, <1>3, <1>4, <1>5, <1>6
<1> QED BY <1>7 DEF H

LEMMA FinishTotemKeepsInv ==
    ASSUME TerritoryInv, NEW p \in DOMAIN sites, FinishTotem(p)
    PROVE  TerritoryInv'
<1>0. PICK c : c = minted + 1
  OBVIOUS
<1> DEFINE added == Hexagon(p.at, ClaimRadius)
           in == [sites EXCEPT ![p].built = TRUE]
           recorded == ClaimSites(added, tiles', c, in)
           new == Unclaimed(added, tiles', c, in)
           row == [totem |-> p, tiles |-> NumTilesInRadius(ClaimRadius),
                   neighbors |-> NumNeighborsInRadius(ClaimRadius), maintenance |-> Upkeep(new)]
           S == {NoClaim} \cup 1 .. minted
           old == sites[p].claim
<1>1. /\ p \in Plans /\ p.tiles # {} /\ p.at \in p.tiles /\ p.at \in Hexes /\ p.maintenance \in Nat
      /\ sites[p] \in Site
  BY ClaimsAreNumbers, TablesAre, ClaimTerritoryAssumption
<1>2. /\ p.at \in added /\ added \subseteq Hexes /\ IsFiniteSet(added)
      /\ NumTilesInRadius(ClaimRadius) = Cardinality(added) /\ NumTilesInRadius(ClaimRadius) \in Nat
      /\ NumNeighborsInRadius(ClaimRadius) = SumFunction(NeighborsIn(added))
      /\ NumNeighborsInRadius(ClaimRadius) \in Nat
      /\ added \subseteq Reached(p.at, added) /\ added = AroundInclusive(p.at, ClaimRadius)
  BY <1>1, FirstTiles
<1>3. /\ ~sites[p].built /\ p.totem
      /\ p.maintenance # 0 => old \in Live \cup {NoClaim}
      /\ ClaimsWithin(p.at, MinDistance + ClaimRadius) = {}
      /\ minted < MaxClaims /\ minted' = c
      /\ tiles' = [t \in added \cup DOMAIN tiles |-> IF t \in added THEN c ELSE tiles[t]]
  BY <1>0, <1>2 DEF FinishTotem, IsFarFromClaims
<1>4. /\ areas' = With(Paid(sites, p), c, row)
      /\ sites' = [recorded EXCEPT ![p].claim = c]
  BY <1>0, <1>2, <1>3 DEF FinishTotem
<1>5. /\ c \in 1 .. MaxClaims /\ c # NoClaim /\ c \notin Live /\ minted \in Nat /\ c \notin S
      /\ S \cup {c} = {NoClaim} \cup 1 .. c
  BY <1>0, <1>3, ClaimsAreNumbers, ClaimTerritoryAssumption
<1>6. \A u \in added, v \in DOMAIN tiles : Distance(u, v) > MinDistance /\ Distance(v, u) > MinDistance
  BY <1>1, <1>3, FarFromClaims
<1>7. added \cap DOMAIN tiles = {}
  <2> SUFFICES ASSUME NEW u \in added, u \in DOMAIN tiles PROVE FALSE
    OBVIOUS
  <2>1. Distance(u, u) > MinDistance
    BY <1>6
  <2>2. Distance(u, u) = 0
    BY <1>2, DistanceOfCenter
  <2> QED BY <2>1, <2>2, ClaimTerritoryAssumption
<1>8. p.tiles \subseteq added
  BY <1>1, <1>2, <1>3, ClaimTerritoryAssumption
<1> HIDE DEF added
<1>9. /\ DOMAIN tiles' = DOMAIN tiles \cup added
      /\ \A u \in added : tiles'[u] = c
      /\ \A u \in DOMAIN tiles : tiles'[u] = tiles[u] /\ tiles[u] \in Live
      /\ tiles' = [u \in DOMAIN tiles' |-> tiles'[u]]
  BY <1>3, <1>7 DEF TerritoryInv, TerritoryTypeOK
<1>10. ClaimUnder(p.tiles, tiles') = c
  <2>1. Covers(c, p.tiles, tiles')
    BY <1>8, <1>9 DEF Covers
  <2> QED BY <1>1, <1>5, <2>1, UnderIsCovering
<1>11. old \notin Live
  <2> SUFFICES ASSUME old \in Live PROVE FALSE
    OBVIOUS
  <2>1. ClaimUnder(p.tiles, tiles) = old /\ old \in 1 .. MaxClaims
    BY TablesAre, ClaimsAreNumbers DEF Noted
  <2>2. Covers(old, p.tiles, tiles)
    BY <1>1, <2>1, UnderIsCovering
  <2> QED BY <1>1, <1>2, <1>7, <2>2 DEF Covers
<1>12. old # NoClaim => p.maintenance = 0
  BY <1>3, <1>11
<1>13. Paid(sites, p) = areas
  BY <1>12 DEF Paid
<1>14. /\ DOMAIN in = DOMAIN sites /\ in[p] = [built |-> TRUE, claim |-> old]
       /\ \A q \in DOMAIN sites \ {p} : in[q] = sites[q]
       /\ in \in [DOMAIN sites -> [built : BOOLEAN, claim : S]]
  <2>1. sites \in [DOMAIN sites -> Site]
    BY TablesAre
  <2> QED BY <1>1, <2>1 DEF Site
<1>15. new = {q \in DOMAIN sites : q.tiles \cap added # {} /\ ClaimUnder(q.tiles, tiles') = c
                                   /\ in[q].built /\ in[q].claim = NoClaim}
  BY DEF Unclaimed, Touched
<1> HIDE DEF new
<1>16. /\ recorded \in [DOMAIN sites -> [built : BOOLEAN, claim : S \cup {c}]]
       /\ \A q \in DOMAIN sites : Recorded(q, added, tiles', c, in[q], recorded[q])
  <2> DEFINE out == recorded
             on == tiles'
  <2>1. out = ClaimSites(added, on, c, in)
    OBVIOUS
  <2>2. in \in [DOMAIN sites -> [built : BOOLEAN, claim : S]]
    BY <1>14
  <2> HIDE DEF out, on, S, in
  <2>3. /\ out \in [DOMAIN sites -> [built : BOOLEAN, claim : S \cup {c}]]
        /\ \A q \in DOMAIN sites : Recorded(q, added, on, c, in[q], out[q])
    BY <2>1, <2>2, SitesClaimed
  <2> QED BY <2>3 DEF out, on
<1> HIDE DEF recorded, in
<1>17. /\ DOMAIN sites' = DOMAIN sites /\ sites' = [q \in DOMAIN sites |-> sites'[q]]
       /\ \A q \in DOMAIN sites \ {p} : sites'[q] = recorded[q]
       /\ sites'[p].built /\ sites'[p].claim = c
       /\ \A q \in DOMAIN sites : sites'[q] \in [built : BOOLEAN, claim : S \cup {c}]
  <2> HIDE DEF S
  <2>1. DOMAIN recorded = DOMAIN sites /\ recorded[p] \in [built : BOOLEAN, claim : S \cup {c}]
    BY <1>16
  <2>2. recorded[p].built
    BY <1>14, <1>16 DEF Recorded
  <2>3. /\ DOMAIN sites' = DOMAIN sites /\ sites' = [q \in DOMAIN sites |-> sites'[q]]
        /\ \A q \in DOMAIN sites \ {p} : sites'[q] = recorded[q]
        /\ sites'[p] = [recorded[p] EXCEPT !.claim = c]
    BY <1>4, <2>1
  <2>4. sites'[p].built /\ sites'[p].claim = c /\ sites'[p] \in [built : BOOLEAN, claim : S \cup {c}]
    BY <2>1, <2>2, <2>3
  <2> QED BY <1>16, <2>3, <2>4
<1>18. \A q \in DOMAIN sites \ {p} :
          /\ sites'[q].built = sites[q].built
          /\ sites'[q].claim =
                IF q.tiles \cap added # {} /\ ClaimUnder(q.tiles, tiles') = c
                   /\ (sites[q].built => sites[q].claim = NoClaim)
                THEN c ELSE sites[q].claim
          /\ sites[q].claim # c
  <2> TAKE q \in DOMAIN sites \ {p}
  <2>1. Recorded(q, added, tiles', c, sites[q], sites'[q])
    BY <1>14, <1>16, <1>17
  <2>2. sites[q] \in Site
    BY TablesAre
  <2>3. sites[q].claim # c
    BY <1>5, <2>2 DEF Site
  <2> QED BY <2>1, <2>3 DEF Recorded
<1>19. /\ Live' = Live \cup {c} /\ areas' = [d \in Live \cup {c} |-> areas'[d]]
       /\ areas'[c] = row /\ \A d \in Live : areas'[d] = areas[d]
  <2> HIDE DEF row
  <2> QED BY <1>4, <1>5, <1>13 DEF With, Live
<1>20. IsFiniteSet(new) /\ new \subseteq Plans /\ Upkeep(new) \in Nat
  <2>1. new \subseteq DOMAIN sites
    BY <1>15
  <2>2. IsFiniteSet(new) /\ new \subseteq Plans
    BY <2>1, TablesAre, FS_Subset
  <2> QED BY <2>2, UpkeepIsSum
<1>21. Buildings(c)' = new \cup {p}
  <2>1. \A q \in DOMAIN sites \ {p} : q \in Buildings(c)' <=> q \in new
    <3> TAKE q \in DOMAIN sites \ {p}
    <3>1. q \in new <=> /\ q.tiles \cap added # {} /\ ClaimUnder(q.tiles, tiles') = c
                        /\ sites[q].built /\ sites[q].claim = NoClaim
      BY <1>14, <1>15
    <3>2. q \in Buildings(c)' <=> sites'[q].built /\ sites'[q].claim = c
      BY <1>17 DEF Buildings, Built
    <3> QED BY <1>18, <3>1, <3>2
  <2>2. p \in Buildings(c)'
    BY <1>17 DEF Buildings, Built
  <2>3. Buildings(c)' \subseteq DOMAIN sites /\ new \subseteq DOMAIN sites
    BY <1>15, <1>17 DEF Buildings, Built
  <2> QED BY <2>1, <2>2, <2>3
<1>22. Upkeep(new \cup {p}) = Upkeep(new)
  <2>1. CASE p \in new
    <3>1. new \cup {p} = new
      BY <2>1
    <3> QED BY <3>1
  <2>2. CASE p \notin new
    <3>1. p.tiles \cap added # {}
      BY <1>1, <1>2
    <3>2. old # NoClaim
      BY <1>10, <1>14, <1>15, <2>2, <3>1
    <3>3. p.maintenance = 0
      BY <1>12, <3>2
    <3>4. Upkeep(new \cup {p}) = Upkeep(new) + p.maintenance
      BY <1>1, <1>20, <2>2, UpkeepWithNew
    <3> QED BY <1>20, <3>3, <3>4
  <2> QED BY <2>1, <2>2
<1>23. \A d \in Live : Buildings(d)' = Buildings(d)
  <2> TAKE d \in Live
  <2>1. d # NoClaim /\ d # c
    BY <1>5, ClaimsAreNumbers
  <2>2. \A q \in DOMAIN sites : q \in Buildings(d)' <=> sites'[q].built /\ sites'[q].claim = d
    BY <1>17 DEF Buildings, Built
  <2>3. \A q \in DOMAIN sites : q \in Buildings(d) <=> sites[q].built /\ sites[q].claim = d
    BY DEF Buildings, Built
  <2>4. ASSUME NEW q \in DOMAIN sites
        PROVE  q \in Buildings(d)' <=> q \in Buildings(d)
    <3>1. CASE q = p
      BY <1>3, <1>17, <2>1, <2>2, <2>3, <3>1
    <3>2. CASE q # p
      BY <1>18, <2>1, <2>2, <2>3, <3>2
    <3> QED BY <3>1, <3>2
  <2>5. Buildings(d)' \subseteq DOMAIN sites /\ Buildings(d) \subseteq DOMAIN sites
    BY <1>17 DEF Buildings, Built
  <2> QED BY <2>4, <2>5
<1>24. TilesOf(c)' = added /\ \A d \in Live : TilesOf(d)' = TilesOf(d)
  BY <1>5, <1>7, <1>9 DEF TilesOf
<1>25. \A d \in Live : TotemOf(d, areas[d].totem, sites')
  <2> TAKE d \in Live
  <2>1. TotemOf(d, areas[d].totem, sites) /\ d # NoClaim
    BY TablesAre, ClaimsAreNumbers
  <2>2. areas[d].totem # p
    BY <1>3, <2>1 DEF TotemOf
  <2> QED BY <1>17, <1>18, <2>1, <2>2 DEF TotemOf
<1>26. TotemOf(c, p, sites')
  BY <1>3, <1>17 DEF TotemOf
<1>27. row \in Area
  BY <1>1, <1>2, <1>20 DEF Area
<1>28. \A d \in Live \cup {c} : areas'[d] \in Area
  BY <1>19, <1>27, TablesAre
<1>29. TerritoryTypeOK'
  <2>1. DOMAIN sites \subseteq Plans /\ Live \subseteq 1 .. minted
    BY DEF TerritoryInv, TerritoryTypeOK
  <2>2. \A d \in Live' : areas'[d].tiles \in Nat /\ areas'[d].neighbors \in Nat /\ areas'[d].maintenance \in Nat
    BY <1>19, <1>28 DEF Area
  <2>3. \A d \in Live' : areas'[d].totem \in Built'
    BY <1>19, <1>25, <1>26 DEF TotemOf, Built
  <2>4. \A q \in DOMAIN sites' : sites'[q].claim \in {NoClaim} \cup 1 .. minted'
    BY <1>3, <1>5, <1>17
  <2>5. \A u \in DOMAIN tiles' : tiles'[u] \in Live'
    BY <1>9, <1>19
  <2>6. minted' \in 0 .. MaxClaims /\ Live' \subseteq 1 .. minted'
    BY <1>0, <1>3, <1>5, <1>19, <2>1, ClaimsAreNumbers
  <2> QED BY <1>17, <2>1, <2>2, <2>3, <2>4, <2>5, <2>6 DEF TerritoryTypeOK
<1>30. TerritoryRows'
  <2>1. IsFiniteSet(DOMAIN tiles') /\ DOMAIN tiles' \subseteq Hexes
    <3>1. IsFiniteSet(DOMAIN tiles) /\ DOMAIN tiles \subseteq Hexes
      BY DEF TerritoryInv, TerritoryRows
    <3>2. IsFiniteSet(DOMAIN tiles \cup added)
      BY <1>2, <3>1, FS_Union
    <3> QED BY <1>2, <1>9, <3>1, <3>2
  <2>2. IsFiniteSet(DOMAIN sites')
    BY <1>17, TablesAre
  <2>3. tiles' \in [DOMAIN tiles' -> Live']
    BY <1>9, <1>19
  <2>4. areas' \in [Live' -> Area]
    BY <1>19, <1>28
  <2>5. sites' \in [DOMAIN sites' -> [built : BOOLEAN, claim : {NoClaim} \cup 1 .. minted']]
    <3>1. S \cup {c} = {NoClaim} \cup 1 .. minted'
      BY <1>3, <1>5
    <3> HIDE DEF S
    <3> QED BY <1>17, <3>1
  <2> QED BY <2>1, <2>2, <2>3, <2>4, <2>5 DEF TerritoryRows, Area, Site
<1>31. SitesAreNoted'
  <2> SUFFICES ASSUME NEW q \in DOMAIN sites
               PROVE  Noted(q, sites'[q].claim, tiles', Live \cup {c})
    BY <1>17, <1>19 DEF SitesAreNoted
  <2>1. CASE q = p
    BY <1>10, <1>17, <2>1 DEF Noted
  <2>2. CASE q # p
    <3> DEFINE next == sites'[q].claim
               claim == sites[q].claim
    <3>1. Noted(q, claim, tiles, Live) /\ q.tiles # {}
      BY TablesAre, ClaimsAreNumbers
    <3>2. /\ claim = c => c \in Live
          /\ next # claim => next = c /\ ClaimUnder(q.tiles, tiles') = c
          /\ q.tiles \cap added # {} /\ ClaimUnder(q.tiles, tiles') = c /\ claim = NoClaim => next = c
      BY <1>18, <2>2
    <3>3. \A u \in DOMAIN tiles : tiles'[u] = tiles[u]
      BY <1>9
    <3> HIDE DEF next, claim
    <3>4. Noted(q, next, tiles', Live \cup {c})
      BY <1>5, <1>7, <1>9, <3>1, <3>2, <3>3, NotedWithMore
    <3> QED BY <3>4 DEF next
  <2> QED BY <2>1, <2>2
<1>32. TotemsStand'
  BY <1>19, <1>25, <1>26 DEF TotemsStand
<1>33. ClaimsAreSound'
  <2>1. \A d \in Live : Sound(areas[d], TilesOf(d), Buildings(d))
    BY SoundIs DEF TerritoryInv
  <2>2. \A d \in Live : Sound(areas'[d], TilesOf(d)', Buildings(d)')
    BY <1>19, <1>23, <1>24, <2>1
  <2>3. Exact(areas'[c], added, new \cup {p})
    BY <1>2, <1>19, <1>22 DEF Exact
  <2>4. Shaped(areas'[c], added)
    <3>1. areas'[c].totem.at = p.at
      BY <1>19
    <3> QED BY <1>2, <3>1 DEF Shaped, added
  <2>5. Sound(areas'[c], TilesOf(c)', Buildings(c)')
    BY <1>21, <1>24, <2>3, <2>4 DEF Sound
  <2>6. \A d \in Live' : Sound(areas'[d], TilesOf(d)', Buildings(d)')
    BY <1>19, <2>2, <2>5
  <2> QED BY <2>6 DEF ClaimsAreSound, Sound
<1>34. ClaimsStayApart'
  <2>1. \A u, v \in DOMAIN tiles : tiles[u] # tiles[v] => Distance(u, v) > MinDistance
    BY DEF TerritoryInv, ClaimsStayApart
  <2> SUFFICES ASSUME NEW u \in DOMAIN tiles', NEW v \in DOMAIN tiles', tiles'[u] # tiles'[v]
               PROVE  Distance(u, v) > MinDistance
    BY DEF ClaimsStayApart
  <2>2. CASE u \in added
    BY <1>6, <1>9, <2>2
  <2>3. CASE v \in added
    BY <1>6, <1>9, <2>3
  <2>4. CASE u \notin added /\ v \notin added
    BY <1>9, <2>1, <2>4
  <2> QED BY <2>2, <2>3, <2>4
<1> QED BY <1>29, <1>30, <1>31, <1>32, <1>33, <1>34 DEF TerritoryInv

LEMMA TerritoryNextKeepsInv ==
    ASSUME TerritoryInv, TerritoryNext \/ UNCHANGED territoryVars
    PROVE  TerritoryInv'
<1>1. CASE UNCHANGED territoryVars
  <2>1. tiles' = tiles /\ areas' = areas /\ minted' = minted /\ sites' = sites
    BY <1>1 DEF territoryVars
  <2>2. \A d : Buildings(d)' = Buildings(d)
    BY <2>1 DEF Buildings, Built
  <2> QED BY <2>1, <2>2, TablesAre, TilesUntouched
<1>2. CASE \E c \in Live, t \in Land : AddTile(c, t)
  BY <1>2, AddTileKeepsInv
<1>3. CASE \E t \in DOMAIN tiles : RemoveTile(t)
  BY <1>3, RemoveTileKeepsInv
<1>4. CASE \E p \in Plans \ DOMAIN sites : PlaceProject(p)
  BY <1>4, PlaceProjectKeepsInv
<1>5. CASE \E p \in DOMAIN sites : CancelProject(p) \/ FinishProject(p) \/ FinishTotem(p) \/ DeleteBuilding(p)
  BY <1>5, CancelProjectKeepsInv, FinishProjectKeepsInv, FinishTotemKeepsInv, DeleteBuildingKeepsInv
<1>6. CASE \E p \in DOMAIN sites, q \in Plans : Move(p, q)
  BY <1>6, MoveKeepsInv
<1>7. CASE \E c \in Live : DeleteTotem(c)
  BY <1>7, DeleteTotemKeepsInv
<1> QED BY <1>1, <1>2, <1>3, <1>4, <1>5, <1>6, <1>7 DEF TerritoryNext

LEMMA TerritoryInvHolds == Spec => []TerritoryInv
<1>1. Init => TerritoryInv
  BY TerritoryInitInv DEF Init
<1>2. TerritoryInv /\ [Next]_landVars => TerritoryInv'
  <2> SUFFICES ASSUME TerritoryInv, [Next]_landVars PROVE TerritoryInv'
    OBVIOUS
  <2>1. TerritoryNext \/ UNCHANGED territoryVars
    BY DEF Next, RingScene, TerritoryScene, CraftingScene, RefiningScene, WildsScene, landVars
  <2> QED BY <2>1, TerritoryNextKeepsInv
<1> QED BY <1>1, <1>2, PTL DEF Spec

(***************************************************************************)
(* A claim counts its tiles, their neighbors and the upkeep of its         *)
(* buildings exactly, and a building is of the claim that covers it: for   *)
(* every land and every set of plans, whatever is claimed, given up,        *)
(* placed, finished, moved, deleted or torn down, in whichever order.      *)
(***************************************************************************)
THEOREM ClaimsStayExact == Spec => []ClaimsAddUp
<1>1. TerritoryInv => ClaimsAddUp
  BY TerritoryInvImplies DEF ClaimsAddUp
<1> QED BY <1>1, TerritoryInvHolds, PTL

(***************************************************************************)
(* A claim keeps the tiles around its totem, all its tiles hang together   *)
(* with it, and no two claims come closer to each other than allowed: for  *)
(* every land and every radius.                                            *)
(***************************************************************************)
THEOREM ClaimsStayInShape == Spec => []ClaimsKeepShape
<1>1. TerritoryInv => ClaimsKeepShape
  BY TerritoryInvImplies DEF ClaimsKeepShape
<1> QED BY <1>1, TerritoryInvHolds, PTL

=============================================================================
