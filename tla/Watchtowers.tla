----------------------------- MODULE Watchtowers -----------------------------
(***************************************************************************)
(* Empires hold land with watchtowers.  An active tower stamps the chunks  *)
(* around it; a chunk whose stamps are all of one empire is its territory, *)
(* of which the emperor's crown is a measure.  Towers spend energy, are    *)
(* supplied with hexite capsules, and fall silent without.  An empire that *)
(* has marked another's tower besieges it with an engine and capsules:     *)
(* both sides spend more and more until one has none left, and the tower   *)
(* is the winner's.  All of this is decided at the global module.  Players *)
(* act in a region, which checks what they ask for on its copy of the      *)
(* rows, takes the capsule, and calls the global module; the capsule comes *)
(* back if the call is refused.  That the copy lags behind is part of the  *)
(* time a call takes: what a region checks on a copy of yesterday, it has  *)
(* checked yesterday.                                                      *)
(***************************************************************************)
EXTENDS Integers, Sequences, FiniteSets, FiniteSetsExt, Functions, TLC, Rows

CONSTANTS
    Empires,
    Towers,            \* buildings that are watchtowers
    Chunks,            \* pairs of coordinates
    Site,              \* the chunk that each tower is built in
    Radius,            \* of a tower's influence: 2 chunks
    StartingEnergy,    \* empire_node_starting_energy
    MaxEnergy,         \* empire_node_max_energy
    CapsuleEnergy,     \* energy of a hexite capsule
    SiegeRaise,        \* empire_siege_raise_pct
    MaxAge,            \* bound: ticks after which a siege costs no more than before
    MaxOrders,         \* bound: orders to expand
    MaxCalls           \* bound: calls of the region that are on their way

ASSUME WatchtowersAssumption ==
    /\ Radius \in Nat /\ StartingEnergy \in Nat /\ MaxEnergy \in Nat
    /\ CapsuleEnergy \in Nat \ {0} /\ SiegeRaise \in Nat
    /\ MaxAge \in Nat /\ MaxOrders \in Nat /\ MaxCalls \in Nat
    /\ Site \in [Towers -> Chunks]

VARIABLES
    front,             \* the rows of the global module
    capsules,          \* capsules that an empire's players carry
    calls              \* calls of the region, first to last

towerVars == <<front, capsules, calls>>

Node == [empire : Empires, chunk : Chunks, energy : Nat, active : BOOLEAN, upkeep : Nat]
Siege == [tower : Towers, empire : Empires, energy : Nat, active : BOOLEAN, age : 0 .. MaxAge]

(***************************************************************************)
(* Stamps are counted instead of listed.  crown is the territory that the  *)
(* emperor's crown was last made for.                                      *)
(***************************************************************************)
FrontTables ==
    [nodes : UNION {[T -> Node] : T \in SUBSET Towers},
     influence : [Chunks -> [Empires -> Nat]],
     sieges : UNION {[I -> Siege] : I \in SUBSET Nat},
     engines : SUBSET Towers,
     expansions : [Chunks -> SUBSET Empires],
     settled : [Empires -> SUBSET Chunks],
     capital : [Empires -> Chunks],
     crown : [Empires -> Nat]]

TowersTypeOK ==
    /\ DOMAIN front.nodes \subseteq Towers
    /\ \A t \in DOMAIN front.nodes : front.nodes[t] \in Node
    /\ front.influence \in [Chunks -> [Empires -> Nat]]
    /\ \A s \in DOMAIN front.sieges : front.sieges[s] \in Siege
    /\ front.engines \subseteq Towers
    /\ capsules \in [Empires -> Nat]
    /\ Len(calls) <= MaxCalls

-----------------------------------------------------------------------------
(* Territory *)

Apart(a, b) == IF a < b THEN b - a ELSE a - b

Near(c) == {d \in Chunks : Apart(c[1], d[1]) <= Radius /\ Apart(c[2], d[2]) <= Radius}

Stamped(f, c) == {e \in Empires : f.influence[c][e] > 0}
Owned(f, e) == {c \in Chunks : Stamped(f, c) = {e}}
Contested(f, c) == Cardinality(Stamped(f, c)) > 1

(***************************************************************************)
(* update_crown_status                                                     *)
(***************************************************************************)
Crowned(f, told) ==
    [f EXCEPT !.crown = [e \in Empires |-> IF e \in told THEN Cardinality(Owned(f, e)) ELSE @[e]]]

(***************************************************************************)
(* stamp_influence, unstamp_influence: who is told that its territory      *)
(* changed depends on what each chunk was before and is after              *)
(***************************************************************************)
Counted(f, c, e, n) ==
    [f EXCEPT !.influence =
        [d \in Chunks |-> IF d \in Near(c) THEN [f.influence[d] EXCEPT ![e] = Max({0, @ + n})]
                          ELSE f.influence[d]]]

Stamp(f, c, e) ==
    LET Told(d) == IF Stamped(f, d) = {} THEN {e}
                   ELSE IF Contested(f, d) THEN {} ELSE Stamped(f, d) \ {e}
    IN  Crowned(Counted(f, c, e, 1), UNION {Told(d) : d \in Near(c)})

UnstampAlone(f, c, e) == Crowned(Counted(f, c, e, -1), {e}) \* mutant of Unstamp
Unstamp(f, c, e) ==
    LET after == Counted(f, c, e, -1)
        Told(d) == IF Stamped(f, d) # {} /\ Stamped(after, d) = {} THEN {e}
                   ELSE IF Contested(f, d) /\ ~Contested(after, d) THEN Stamped(after, d)
                   ELSE {}
    IN  Crowned(after, UNION {Told(d) : d \in Near(c)})

(***************************************************************************)
(* validate_influence                                                      *)
(***************************************************************************)
MayInfluence(f, c, e) ==
    /\ ~ \E t \in DOMAIN f.nodes : f.nodes[t].chunk = c /\ f.nodes[t].active
    /\ Stamped(f, c) \subseteq {e}

-----------------------------------------------------------------------------
(* Upkeep *)

(***************************************************************************)
(* extract_connected_empire_chunks: the part of the land around c that     *)
(* hangs together, found by flooding                                       *)
(***************************************************************************)
Beside(c, d) == Apart(c[1], d[1]) + Apart(c[2], d[2]) = 1

Connected(land, c) ==
    LET Flooded[n \in 0 .. Cardinality(land)] ==
            IF n = 0 THEN {c} \cap land
            ELSE Flooded[n - 1] \cup {d \in land : \E b \in Flooded[n - 1] : Beside(b, d)}
    IN  Flooded[Cardinality(land)]

(***************************************************************************)
(* ceil((log2(towers) + 0.2 distance + k) * 0.1) with k = 1 for an area    *)
(* that a settlement of the empire supplies and 16 for another: the least  *)
(* u with 2^(50 u - distance - 5 k) >= towers^5.                           *)
(***************************************************************************)
LogFifth(n) == CHOOSE m \in 0 .. 5 * n : 2 ^ m >= n ^ 5 /\ (m > 0 => 2 ^ (m - 1) < n ^ 5)

Upkeep(towers, distance, supplied) ==
    LET sum == LogFifth(towers) + distance + 5 * (IF supplied THEN 1 ELSE 16)
    IN  (sum + 49) \div 50

(***************************************************************************)
(* update_empire_upkeep                                                    *)
(***************************************************************************)
UpdateUpkeep(f, e) ==
    LET ours == {t \in DOMAIN f.nodes : f.nodes[t].empire = e}
        active == {t \in ours : f.nodes[t].active}
        Supplied(c) == Connected(Owned(f, e), c) \cap f.settled[e] # {}
        Cost(c) == Upkeep(Cardinality(active),
                          Apart(c[1], f.capital[e][1]) + Apart(c[2], f.capital[e][2]),
                          Supplied(c))
    IN  [f EXCEPT !.nodes =
            [t \in DOMAIN @ |->
                IF t \notin ours THEN @[t]
                ELSE [@[t] EXCEPT !.upkeep = IF t \in active THEN Cost(f.nodes[t].chunk) ELSE 0]]]

UpdateUpkeeps(f, es) == FoldSet(LAMBDA e, g : UpdateUpkeep(g, e), f, es)

-----------------------------------------------------------------------------
(* Towers *)

AddEnergy(node, n) ==
    IF node.energy >= MaxEnergy THEN node
    ELSE [node EXCEPT !.energy = Min({@ + n, MaxEnergy})]

WithNode(f, t, node) == [f EXCEPT !.nodes = (t :> node) @@ @]

(***************************************************************************)
(* activate: the land as it is then, and the node, which a refusal leaves  *)
(* as it was                                                               *)
(***************************************************************************)
MayActivate(f, node, n) ==
    ~node.active /\ node.energy + n > 0 /\ MayInfluence(f, node.chunk, node.empire)

Activated(f, t, node, n) ==
    IF MayActivate(f, node, n)
    THEN WithNode(Stamp(f, node.chunk, node.empire), t, [AddEnergy(node, n) EXCEPT !.active = TRUE])
    ELSE WithNode(f, t, node)

(***************************************************************************)
(* convert: the old empire's stamps go whether the tower had any or not    *)
(***************************************************************************)
Convert(f, t, node, n, e) ==
    LET bare == Unstamp(f, node.chunk, node.empire)
        after == [AddEnergy(node, n) EXCEPT !.empire = e, !.active = TRUE]
    IN  WithNode(IF after.energy > 0 THEN Stamp(bare, node.chunk, e) ELSE bare, t, after)

Deactivated(f, t) ==
    LET node == f.nodes[t]
    IN  WithNode(IF node.active THEN Unstamp(f, node.chunk, node.empire) ELSE f,
                 t, [node EXCEPT !.active = FALSE])

SiegesOf(f, t) == {s \in DOMAIN f.sieges : f.sieges[s].tower = t}
WithoutSieges(f, ids) == [f EXCEPT !.sieges = Restrict(@, DOMAIN @ \ ids)]

(***************************************************************************)
(* delete_empire_building of a watchtower, EmpireNodeState::delete.  An    *)
(* engine before the tower stays.                                          *)
(***************************************************************************)
DeleteTower(f, t) ==
    LET node == f.nodes[t]
        bare == IF node.active THEN Unstamp(f, node.chunk, node.empire) ELSE f
        gone == WithoutSieges([bare EXCEPT !.nodes = Without(@, t)], SiegesOf(f, t))
    IN  IF node.active THEN UpdateUpkeep(gone, node.empire) ELSE gone

DeleteTowers(f, ts) == FoldSet(LAMBDA t, g : DeleteTower(g, t), f, ts)

(***************************************************************************)
(* create_watchtower: silent towers of the chunk make room                 *)
(***************************************************************************)
NewNode(e, c) == [empire |-> e, chunk |-> c, energy |-> 0, active |-> FALSE, upkeep |-> 0]

Created(f, e, t, c) ==
    LET room == DeleteTowers(f, {u \in DOMAIN f.nodes : f.nodes[u].chunk = c})
        built == UpdateUpkeep(Activated(room, t, NewNode(e, c), StartingEnergy), e)
    IN  [built EXCEPT !.expansions[c] = IF e \in @ THEN {} ELSE @]

-----------------------------------------------------------------------------
(* Sieges *)

RowsOf(f, t, e) == {s \in SiegesOf(f, t) : f.sieges[s].empire = e}
RowOf(f, t, e) == CHOOSE s \in RowsOf(f, t, e) : TRUE
ActiveSieges(f, t) == {s \in SiegesOf(f, t) : f.sieges[s].active}
Attackers(f, t) == {s \in ActiveSieges(f, t) : f.sieges[s].empire # f.nodes[t].empire}
Defenders(f, t) == {s \in ActiveSieges(f, t) : f.sieges[s].empire = f.nodes[t].empire}

(***************************************************************************)
(* end_siege_internal, of rows and a node as the caller holds them         *)
(***************************************************************************)
Outcome(f, attack, defense, node) ==
    LET t == attack.tower
        done == WithoutSieges(f, RowsOf(f, t, attack.empire) \cup RowsOf(f, t, defense.empire))
    IN  IF attack.energy > 0
        THEN UpdateUpkeeps(Convert(done, t, node, attack.energy, attack.empire),
                           {defense.empire, attack.empire})
        ELSE WithNode(done, t, AddEnergy(node, defense.energy))

EndSiege(f, attack, defense, node) ==
    [Outcome(f, attack, defense, node) EXCEPT !.engines = @ \ {attack.tower}]

(***************************************************************************)
(* cancel_siege: the side that gives up drops to nothing, a defender's     *)
(* tower with it.  A mark is only taken off.                               *)
(***************************************************************************)
MayCancel(f, s) ==
    LET t == f.sieges[s].tower
    IN  f.sieges[s].active =>
            IF f.sieges[s].empire = f.nodes[t].empire THEN Attackers(f, t) # {}
            ELSE RowsOf(f, t, f.nodes[t].empire) # {}

CancelSiege(f, s) ==
    LET row == f.sieges[s]
        node == f.nodes[row.tower]
        given == [row EXCEPT !.energy = 0]
    IN  IF ~row.active THEN WithoutSieges(f, {s})
        ELSE IF row.empire = node.empire
        THEN EndSiege(f, f.sieges[CHOOSE a \in Attackers(f, row.tower) : TRUE], given,
                      [node EXCEPT !.energy = 0])
        ELSE EndSiege(f, given, f.sieges[RowOf(f, row.tower, node.empire)], node)

(***************************************************************************)
(* An id is new if nobody has it any more.                                 *)
(***************************************************************************)
NewIds(f, n) ==
    LET used == DOMAIN f.sieges \cup {calls[i].siege : i \in 1 .. Len(calls)}
        free == (1 .. Cardinality(used) + n) \ used
    IN  [i \in 1 .. n |-> CHOOSE k \in free : Cardinality({j \in free : j < k}) = i - 1]

SiegeRow(t, e, energy, active) ==
    [tower |-> t, empire |-> e, energy |-> energy, active |-> active, age |-> 0]

(***************************************************************************)
(* start_siege at the global module: whoever has a mark may start, and a   *)
(* tower without energy falls at once.  Whether there is a siege already   *)
(* is not looked at here.                                                  *)
(***************************************************************************)
MayStartSiege(f, t, e) ==
    /\ t \in DOMAIN f.nodes
    /\ f.nodes[t].empire # e
    /\ RowsOf(f, t, e) # {}

FallenAtOnce(f, t, e) ==
    LET fallen == Convert(f, t, f.nodes[t], CapsuleEnergy, e)
        ended == CancelSiege(fallen, RowOf(f, t, e))
    IN  UpdateUpkeeps(WithoutSieges(ended, SiegesOf(ended, t)), {f.nodes[t].empire, e})

MayFallAtOnce(f, t, e) ==
    MayCancel(Convert(f, t, f.nodes[t], CapsuleEnergy, e), RowOf(f, t, e))

Besieged(f, t, e) ==
    LET mine == RowOf(f, t, e)
        id == NewIds(f, 1)[1]
        alone == WithoutSieges(f, SiegesOf(f, t) \ {mine})
    IN  [alone EXCEPT !.sieges = (mine :> SiegeRow(t, e, CapsuleEnergy, TRUE))
                                  @@ (id :> SiegeRow(t, f.nodes[t].empire, 0, TRUE)) @@ @]

-----------------------------------------------------------------------------
(* Plans of an empire, at the global module *)

Orders == {<<c, e>> \in Chunks \X Empires : e \in front.expansions[c]}

MarkForExpansion(e, c, enabled) ==
    /\ MayInfluence(front, c, e)
    /\ enabled => Cardinality(Orders) < MaxOrders
    /\ front' = [front EXCEPT !.expansions[c] = IF enabled THEN @ \cup {e} ELSE @ \ {e}]
    /\ UNCHANGED <<capsules, calls>>

(***************************************************************************)
(* empire_create_building: an order to expand is needed but by those who   *)
(* may give one                                                            *)
(***************************************************************************)
CreateWatchtower(e, t, mayOrder) ==
    /\ t \notin DOMAIN front.nodes
    /\ mayOrder \/ e \in front.expansions[Site[t]]
    /\ MayInfluence(front, Site[t], e)
    /\ front' = Created(front, e, t, Site[t])
    /\ UNCHANGED <<capsules, calls>>

(***************************************************************************)
(* empire_mark_for_siege: what unmarks takes the row off even if it is     *)
(* that of a siege in progress                                             *)
(***************************************************************************)
MarkForSiege(e, t) ==
    /\ t \in DOMAIN front.nodes /\ front.nodes[t].empire # e
    /\ RowsOf(front, t, e) = {}
    /\ front' = [front EXCEPT !.sieges = (NewIds(front, 1)[1] :> SiegeRow(t, e, 0, FALSE)) @@ @]
    /\ UNCHANGED <<capsules, calls>>

UnmarkForSiege(e, t) ==
    /\ t \in DOMAIN front.nodes /\ front.nodes[t].empire # e
    /\ RowsOf(front, t, e) # {}
    /\ front' = WithoutSieges(front, {RowOf(front, t, e)})
    /\ UNCHANGED <<capsules, calls>>

-----------------------------------------------------------------------------
(* Calls of the region *)

Call(kind, e, t, siege) == [kind |-> kind, empire |-> e, tower |-> t, siege |-> siege]
NoSiege == 0

Send(call) ==
    /\ Len(calls) < MaxCalls
    /\ calls' = Append(calls, call)
    /\ UNCHANGED front

TakeCapsule(e) ==
    /\ capsules[e] > 0
    /\ capsules' = [capsules EXCEPT ![e] = @ - 1]

DeploySiegeEngine(e, t) ==
    /\ t \in DOMAIN front.nodes
    /\ ActiveSieges(front, t) = {}
    /\ TakeCapsule(e)
    /\ Send(Call("engine", e, t, NoSiege))

SiegeDepletedWatchtower(e, t) ==
    /\ t \in DOMAIN front.nodes
    /\ front.nodes[t].energy = 0
    /\ TakeCapsule(e)
    /\ Send(Call("depleted", e, t, NoSiege))

(***************************************************************************)
(* add_supplies, for the player's own empire if it takes part and else for *)
(* the one named, which need not                                           *)
(***************************************************************************)
AddSiegeSupplies(e, t, proxy) ==
    LET own == RowsOf(front, t, e)
        takesPart == \E s \in own : front.sieges[s].active
        row == IF takesPart THEN own ELSE RowsOf(front, t, proxy)
    IN  /\ t \in DOMAIN front.nodes
        /\ ActiveSieges(front, t) # {}
        /\ row # {}
        /\ TakeCapsule(e)
        /\ Send(Call("supplies", e, t, CHOOSE s \in row : TRUE))

(***************************************************************************)
(* empire_resupply_node_validate                                           *)
(***************************************************************************)
MayResupply(f, e, t) ==
    /\ t \in DOMAIN f.nodes
    /\ f.nodes[t].empire = e
    /\ Stamped(f, f.nodes[t].chunk) \subseteq {e}
    /\ RowsOf(f, t, e) = {}

ResupplyNode(e, t) ==
    /\ MayResupply(front, e, t)
    /\ TakeCapsule(e)
    /\ Send(Call("resupply", e, t, NoSiege))

(***************************************************************************)
(* building_deconstruct: the building is gone, its node follows            *)
(***************************************************************************)
DeconstructWatchtower(e, t) ==
    /\ t \in DOMAIN front.nodes
    /\ ActiveSieges(front, t) = {}
    /\ Send(Call("delete", e, t, NoSiege))
    /\ UNCHANGED capsules

-----------------------------------------------------------------------------
(* Calls at the global module *)

(***************************************************************************)
(* empire_start_siege.  There is one engine to a tower: the second makes   *)
(* the insert panic.                                                       *)
(***************************************************************************)
Started(f, call) ==
    LET armed == IF call.kind = "engine" THEN [f EXCEPT !.engines = @ \cup {call.tower}] ELSE f
    IN  IF f.nodes[call.tower].energy = 0 THEN FallenAtOnce(armed, call.tower, call.empire)
        ELSE Besieged(armed, call.tower, call.empire)

MayStart(f, call) ==
    /\ MayStartSiege(f, call.tower, call.empire)
    /\ call.kind = "depleted" => f.nodes[call.tower].energy = 0
    /\ call.kind = "engine" => call.tower \notin f.engines
    /\ f.nodes[call.tower].energy = 0 => MayFallAtOnce(f, call.tower, call.empire)

Resupplied(f, e, t) ==
    LET node == AddEnergy(f.nodes[t], CapsuleEnergy)
    IN  IF f.nodes[t].energy = 0 THEN UpdateUpkeep(Activated(f, t, node, 0), e)
        ELSE WithNode(f, t, node)

Supplied(f, s) == [f EXCEPT !.sieges[s].energy = @ + CapsuleEnergy]

(***************************************************************************)
(* What the global module makes of a call.  One that it refuses, or that   *)
(* panics, changes nothing there; its result brings the capsule back.      *)
(***************************************************************************)
Accepts(f, call) ==
    CASE call.kind \in {"engine", "depleted"} -> MayStart(f, call)
      [] call.kind = "supplies" -> call.siege \in DOMAIN f.sieges
      [] call.kind = "resupply" -> MayResupply(f, call.empire, call.tower)
      [] call.kind = "delete" -> TRUE

Done(f, call) ==
    CASE call.kind \in {"engine", "depleted"} -> Started(f, call)
      [] call.kind = "supplies" -> Supplied(f, call.siege)
      [] call.kind = "resupply" -> Resupplied(f, call.empire, call.tower)
      [] call.kind = "delete" -> IF call.tower \in DOMAIN f.nodes THEN DeleteTower(f, call.tower) ELSE f

Answer ==
    /\ calls # <<>>
    /\ calls' = Tail(calls)
    /\ LET call == Head(calls)
       IN  IF Accepts(front, call)
           THEN front' = Done(front, call) /\ UNCHANGED capsules
           ELSE front' = front /\ capsules' = [capsules EXCEPT ![call.empire] = @ + 1]

-----------------------------------------------------------------------------
(* Agents *)

(***************************************************************************)
(* empire_siege_agent_loop: what a side lacks, a defender takes from the   *)
(* tower.  A tower that cannot give it, and an attacker who has not got    *)
(* it, end the siege, in which case the attacker's row must be there: its  *)
(* absence makes the whole tick panic.                                     *)
(***************************************************************************)
Cost(row) == row.age * SiegeRaise
Lack(row) == Max({0, Cost(row) - row.energy})

Drained(f) ==
    LET Debt(t) == IF Defenders(f, t) = {} THEN 0
                   ELSE Lack(f.sieges[CHOOSE s \in Defenders(f, t) : TRUE])
    IN  [f EXCEPT
            !.sieges = [s \in DOMAIN @ |->
                IF @[s].active THEN [@[s] EXCEPT !.energy = Max({0, @ - Cost(f.sieges[s])})] ELSE @[s]],
            !.nodes = [t \in DOMAIN @ |-> [@[t] EXCEPT !.energy = Max({0, @ - Debt(t)})]]]

Ending(f) ==
    {t \in DOMAIN f.nodes :
        \/ \E s \in Attackers(f, t) : Lack(f.sieges[s]) > 0
        \/ \E s \in Defenders(f, t) : Lack(f.sieges[s]) > f.nodes[t].energy}

EndedSiege(f, t) ==
    EndSiege(f, f.sieges[CHOOSE s \in Attackers(f, t) : TRUE],
             f.sieges[RowOf(f, t, f.nodes[t].empire)], f.nodes[t])

Older(f) ==
    [f EXCEPT !.sieges = [s \in DOMAIN @ |->
        IF @[s].active THEN [@[s] EXCEPT !.age = Min({@ + 1, MaxAge})] ELSE @[s]]]

SiegeTick ==
    LET panics == \E t \in Ending(front) :
                      Attackers(front, t) = {} \/ RowsOf(front, t, front.nodes[t].empire) = {}
        after == IF panics THEN front
                 ELSE FoldSet(LAMBDA t, f : EndedSiege(f, t), Drained(front), Ending(front))
    IN  /\ \E s \in DOMAIN front.sieges : front.sieges[s].active
        /\ front' = Older(after)
        /\ UNCHANGED <<capsules, calls>>

(***************************************************************************)
(* empire_decay_agent_loop                                                 *)
(***************************************************************************)
Decayed(f, t) ==
    LET node == f.nodes[t]
    IN  IF node.energy > node.upkeep THEN WithNode(f, t, [node EXCEPT !.energy = @ - node.upkeep])
        ELSE Deactivated(WithNode(f, t, [node EXCEPT !.energy = 0]), t)

DecayTick ==
    LET spending == {t \in DOMAIN front.nodes :
                        front.nodes[t].active /\ ActiveSieges(front, t) = {}}
        silent == {t \in spending : front.nodes[t].energy <= front.nodes[t].upkeep}
    IN  /\ spending # {}
        /\ front' = UpdateUpkeeps(FoldSet(LAMBDA t, f : Decayed(f, t), front, spending),
                                  {front.nodes[t].empire : t \in silent})
        /\ UNCHANGED <<capsules, calls>>

-----------------------------------------------------------------------------

Wilderness(settled, capital) ==
    [nodes |-> << >>, influence |-> [c \in Chunks |-> [e \in Empires |-> 0]],
     sieges |-> << >>, engines |-> {}, expansions |-> [c \in Chunks |-> {}],
     settled |-> settled, capital |-> capital, crown |-> [e \in Empires |-> 0]]

(***************************************************************************)
(* Empires that expand, and empires at war                                 *)
(***************************************************************************)
SettleNext ==
    \/ \E e \in Empires, t \in Towers :
           CreateWatchtower(e, t, TRUE) \/ ResupplyNode(e, t) \/ DeconstructWatchtower(e, t)
    \/ Answer
    \/ DecayTick

ExpansionNext ==
    \/ \E e \in Empires, c \in Chunks, enabled \in BOOLEAN : MarkForExpansion(e, c, enabled)
    \/ \E e \in Empires, t \in Towers : CreateWatchtower(e, t, FALSE)
    \/ SettleNext

SiegeNext ==
    \/ \E e \in Empires, t \in Towers :
           \/ MarkForSiege(e, t) \/ UnmarkForSiege(e, t)
           \/ DeploySiegeEngine(e, t) \/ SiegeDepletedWatchtower(e, t)
           \/ \E proxy \in Empires : AddSiegeSupplies(e, t, proxy)
    \/ SettleNext
    \/ SiegeTick

-----------------------------------------------------------------------------

(***************************************************************************)
(* No chunk keeps a stamp of a tower that is silent, gone or of another    *)
(* empire.  (It may lack one: a silent tower that falls takes a stamp of a *)
(* neighbouring tower of its empire with it.)                              *)
(***************************************************************************)
NoGhostInfluence ==
    \A c \in Chunks, e \in Empires :
        front.influence[c][e] <=
            Cardinality({t \in DOMAIN front.nodes :
                /\ front.nodes[t].active /\ front.nodes[t].empire = e
                /\ c \in Near(front.nodes[t].chunk)})

(***************************************************************************)
(* A chunk has one tower, and one that is silent has no energy and costs   *)
(* nothing.                                                                *)
(***************************************************************************)
OneTowerPerChunk ==
    \A t, u \in DOMAIN front.nodes : front.nodes[t].chunk = front.nodes[u].chunk => t = u

SilentIsEmpty ==
    \A t \in DOMAIN front.nodes :
        ~front.nodes[t].active => front.nodes[t].energy = 0 /\ front.nodes[t].upkeep = 0

(***************************************************************************)
(* A tower is attacked by one empire, with an engine, and its defender has *)
(* a row in the siege that is as old.  (The defender's may be alone: an    *)
(* attacker may unmark.)                                                   *)
(***************************************************************************)
AttackMeetsDefence ==
    \A t \in DOMAIN front.nodes :
        Attackers(front, t) # {} =>
            /\ Cardinality(Attackers(front, t)) = 1 /\ Cardinality(Defenders(front, t)) = 1
            /\ t \in front.engines
            /\ \A s, r \in ActiveSieges(front, t) : front.sieges[s].age = front.sieges[r].age

(***************************************************************************)
(* The crown is that of the territory, although only those are told whose  *)
(* territory a stamp is thought to have changed.                           *)
(***************************************************************************)
CrownFitsTerritory == \A e \in Empires : front.crown[e] = Cardinality(Owned(front, e))

(***************************************************************************)
(* No empire has a mark on a tower of its own, which would keep it from    *)
(* being supplied.                                                         *)
(***************************************************************************)
OwnTowersUnmarked ==
    \A s \in DOMAIN front.sieges :
        front.sieges[s].empire = front.nodes[front.sieges[s].tower].empire => front.sieges[s].active

=============================================================================
