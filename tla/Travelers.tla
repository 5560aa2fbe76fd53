----------------------------- MODULE Travelers -----------------------------
(***************************************************************************)
(* Travelers stay at ancient ruins and offer trades there.  An agent sends *)
(* those whose stay is over to another ruin and spawns those that are      *)
(* missing; an npc of a camp does not travel, but renews its offers.       *)
(***************************************************************************)
EXTENDS Integers, FiniteSets, FiniteSetsExt, SequencesExt, Bags, Rows

CONSTANTS
    Npcs,           \* entity ids of npcs
    Ruins,          \* buildings of travelers
    Distance,       \* Distance[r, q]: between ruins
    Wanted,         \* Wanted[n]: travelers for n ruins, the population of npc_desc
    AlwaysOffered,  \* orders of traveler_trade_order_desc, without a shop
    Sampled,        \* those of which only some are offered
    SampleSize      \* selected_traveler_order_count

ASSUME TravelersAssumption ==
    /\ IsFiniteSet(Npcs) /\ IsFiniteSet(Ruins)
    /\ Distance \in [Ruins \X Ruins -> Nat]
    /\ Wanted \in [0 .. Cardinality(Ruins) -> Nat]
    /\ SampleSize \in Nat

VARIABLES
    npcs,           \* npc_state
    tradeOrders,    \* trade_order_state, a bag
    standing,       \* buildings that exist
    ruinCache       \* location_cache.traveler_ruins

travelerVars == <<npcs, tradeOrders, standing, ruinCache>>

Npc == [at : Ruins, traveling : BOOLEAN, previous : Seq(Ruins)]

TravelersTypeOK ==
    /\ DOMAIN npcs \subseteq Npcs /\ npcs \in [DOMAIN npcs -> Npc]
    /\ IsABag(tradeOrders)
    /\ standing \subseteq Ruins /\ ruinCache \subseteq Ruins
    /\ \A n \in DOMAIN npcs : Len(npcs[n].previous) <= 3

-----------------------------------------------------------------------------

(***************************************************************************)
(* create_trade_orders, delete_trade_orders                                *)
(***************************************************************************)
OrdersOf(r) ==
    {SetToBag({[shop |-> r, offer |-> o.offer, required |-> o.required, stock |-> o.stock]
                  : o \in AlwaysOffered \cup chosen})
        : chosen \in kSubset(Min({SampleSize, Cardinality(Sampled)}), Sampled)}

WithoutOrders(orders, r) ==
    [o \in {q \in DOMAIN orders : q.shop # r} |-> orders[o]]

-----------------------------------------------------------------------------

(***************************************************************************)
(* npc_ai_agent_loop, one npc after the other.  The state of the loop:     *)
(* npcs, orders, ruins that are free and occupied, ruins that are gone.    *)
(***************************************************************************)
Occupied == {npcs[n].at : n \in {m \in DOMAIN npcs : npcs[m].traveling}} \cap ruinCache

LoopStart == [npcs |-> npcs, orders |-> tradeOrders, free |-> ruinCache \ Occupied,
              occupied |-> Occupied, broken |-> {}]

(***************************************************************************)
(* pick_free_ruin_index: one of the three closest that were not visited    *)
(* recently, or of all that are free                                       *)
(***************************************************************************)
Candidates(s, npc) ==
    LET fresh == s.free \ ToSet(npc.previous)
        choice == IF fresh = {} THEN s.free ELSE fresh
        Closer(r) == {q \in choice : Distance[q, npc.at] < Distance[r, npc.at]}
    IN  IF npc.at \in s.occupied THEN {r \in choice : Cardinality(Closer(r)) < 3} ELSE {}

(***************************************************************************)
(* teleport                                                                *)
(***************************************************************************)
VisitedAll(npc) == Append(npc.previous, npc.at) \* mutant of Visited
Visited(npc) ==
    LET all == Append(npc.previous, npc.at)
    IN  IF Len(all) > 3 THEN Tail(all) ELSE all

OrdersKept(orders, npc, r) == WithoutOrders(orders, r) \* mutant of OrdersLeft
OrdersLeft(orders, npc, r) == WithoutOrders(orders, npc.at)

Teleport(s, n, r) ==
    LET npc == s.npcs[n]
    IN  {[s EXCEPT !.npcs[n] = [npc EXCEPT !.at = r, !.previous = Visited(npc)],
                   !.orders = OrdersLeft(@, npc, r) (+) new] : new \in OrdersOf(r)}

(***************************************************************************)
(* The ruin that is freed after a move is that of the npc_state after the  *)
(* teleport: the one it went to.  The one it left stays occupied until the *)
(* agent runs again.                                                       *)
(***************************************************************************)
FreedLeft(old, new) == old \* mutant of Freed
Freed(old, new) == new

Arrived(s, old, r) ==
    [s EXCEPT !.free = (@ \ {r}) \cup {Freed(old, r)},
              !.occupied = (@ \cup {r}) \ {Freed(old, r)}]

Travel(s, n) ==
    LET choice == Candidates(s, s.npcs[n])
    IN  IF choice = {} THEN {s}
        ELSE UNION {IF r \in standing
                    THEN {Arrived(t, s.npcs[n].at, r) : t \in Teleport(s, n, r)}
                    ELSE {[s EXCEPT !.free = @ \ {r}, !.broken = @ \cup {r}]} : r \in choice}

Stay(s, n) ==
    IF s.npcs[n].at \in standing
    THEN {[s EXCEPT !.orders = WithoutOrders(@, s.npcs[n].at) (+) new]
             : new \in OrdersOf(s.npcs[n].at)}
    ELSE {[s EXCEPT !.npcs = Without(@, n)]}

Act(s, n) == IF s.npcs[n].traveling THEN Travel(s, n) ELSE Stay(s, n)

Spawn(s, n) ==
    IF s.free = {} THEN {s}
    ELSE UNION {LET without == [s EXCEPT !.free = @ \ {r}]
                IN  IF r \notin standing THEN {[without EXCEPT !.broken = @ \cup {r}]}
                    ELSE {[without EXCEPT
                              !.npcs = With(@, n, [at |-> r, traveling |-> TRUE,
                                                   previous |-> <<>>]),
                              !.occupied = @ \cup {r},
                              !.orders = @ (+) new] : new \in OrdersOf(r)} : r \in s.free}

(***************************************************************************)
(* Travelers are counted before those that act do.  New entities have new  *)
(* ids; here, those that are not in use.                                   *)
(***************************************************************************)
Missing ==
    LET count == Wanted[Cardinality(ruinCache)]
                     - Cardinality({n \in DOMAIN npcs : npcs[n].traveling})
    IN  {new \in SUBSET (Npcs \ DOMAIN npcs) :
             Cardinality(new) = Min({Max({0, count}), Cardinality(Npcs \ DOMAIN npcs)})}

Step(States, Op(_, _), ids) ==
    FoldLeft(LAMBDA S, n : UNION {Op(s, n) : s \in S}, States, ids)

AgentLoop ==
    \E acting \in SUBSET DOMAIN npcs, new \in Missing :
    \E order \in SetToSeqs(acting) :
    \E s \in Step(Step({LoopStart}, Act, order), Spawn, SetToSeq(new)) :
        /\ npcs' = s.npcs
        /\ tradeOrders' = s.orders
        /\ ruinCache' = ruinCache \ s.broken
        /\ UNCHANGED standing

(***************************************************************************)
(* delete_building: a ruin that players deconstruct, with its npcs         *)
(***************************************************************************)
NpcsStay(r) == {} \* mutant of NpcsAt
NpcsAt(r) == {n \in DOMAIN npcs : npcs[n].at = r}

Deconstruct(r) ==
    /\ r \in standing
    /\ standing' = standing \ {r}
    /\ tradeOrders' = IF NpcsAt(r) = {} THEN tradeOrders ELSE WithoutOrders(tradeOrders, r)
    /\ npcs' = [n \in DOMAIN npcs \ NpcsAt(r) |-> npcs[n]]
    /\ UNCHANGED ruinCache

-----------------------------------------------------------------------------

(***************************************************************************)
(* What is offered at a ruin is offered by somebody: the offers of a       *)
(* traveler go with him, whatever becomes of him or of the ruin.           *)
(***************************************************************************)
OffersHaveTraveler ==
    \A o \in BagToSet(tradeOrders) :
        o.shop \in Ruins => \E n \in DOMAIN npcs : npcs[n].at = o.shop

(***************************************************************************)
(* A ruin has one traveler: "occupies / locks next building".              *)
(***************************************************************************)
OneTravelerPerRuin ==
    \A m, n \in DOMAIN npcs :
        (m # n /\ npcs[m].traveling /\ npcs[n].traveling) => npcs[m].at # npcs[n].at

(***************************************************************************)
(* A traveler has the offers that are always made.                         *)
(***************************************************************************)
TravelersOffer ==
    \A n \in DOMAIN npcs, a \in AlwaysOffered :
        \E o \in BagToSet(tradeOrders) :
            o.shop = npcs[n].at /\ o.offer = a.offer /\ o.required = a.required

=============================================================================
