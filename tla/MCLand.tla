------------------------------- MODULE MCLand -------------------------------
(***************************************************************************)
(* The grid, the territories on it and the workshops in them, one scene at *)
(* a time: the iterator around every center, two settlements on a strip of *)
(* land, crafting at a workshop, with or without work, or what grows: the  *)
(* wilds with their agents, the fields that are planted, the trails that   *)
(* prospectors follow.                                                     *)
(***************************************************************************)
EXTENDS RingIter, ClaimTerritory, Crafting, Deposits

CONSTANT Scenes   \* of the scenes, those that are looked at

VARIABLE scene

landVars == <<scene, ringVars, territoryVars, craftingVars, depositsVars>>

Plan(totem, at, footprint, maintenance) ==
    [totem |-> totem, at |-> at, tiles |-> footprint, maintenance |-> maintenance]

West == Plan(TRUE, <<0, 0>>, {<<0, 0>>}, 1)
East == Plan(TRUE, <<5, 0>>, {<<5, 0>>}, 1)
Tavern == Plan(FALSE, <<1, 0>>, {<<1, 0>>, <<2, 0>>}, 1)
TavernMoved == Plan(FALSE, <<2, -1>>, {<<2, -1>>, <<2, 0>>}, 1)
Well == Plan(FALSE, <<0, 1>>, {<<0, 1>>}, 0)
Mill == Plan(FALSE, <<4, 0>>, {<<4, 0>>}, 1)

ThePlans == {West, East, Tavern, TavernMoved, Well, Mill}
TheLand ==
    AroundInclusive(West.at, 1) \cup AroundInclusive(East.at, 1)
        \cup {<<2, 0>>, <<3, 0>>, <<2, -1>>, <<3, -1>>, <<-2, 1>>}

Resource(footprint, hardness, after, becomes, rank, returns, wanted, seeded) ==
    [tiles |-> footprint, health |-> hardness, offspring |-> after, grown |-> becomes,
     priority |-> rank, respawns |-> returns, target |-> wanted, planted |-> seeded,
     flattenable |-> rank < 3, ignoreDamage |-> rank = 0]

TheKinds == {"oak", "stump", "boulder", "seed", "wheat", "hole", "treasure"}
TheDesc ==
    [oak      |-> Resource({0}, 2, "stump", "", 3, TRUE, 2, FALSE),
     stump    |-> Resource({0}, 1, "", "oak", 1, FALSE, 0, FALSE),
     boulder  |-> Resource({0, 1}, 1, "", "", 2, TRUE, 2, FALSE),
     seed     |-> Resource({0}, 1, "", "wheat", 1, FALSE, 0, TRUE),
     wheat    |-> Resource({0}, 1, "", "", 1, FALSE, 0, FALSE),
     hole     |-> Resource({0}, 1, "", "", 0, FALSE, 0, FALSE),
     treasure |-> Resource({0}, 3, "", "", 3, FALSE, 1, FALSE)]
Hiker == CHOOSE p \in Gatherers : TRUE
Prized == CHOOSE tile \in Ground : TRUE
TheTrail == [placeholder |-> "hole", prize |-> "treasure", crumbs |-> 2, contribution |-> 1]

Init ==
    /\ scene \in Scenes
    /\ RingInit /\ TerritoryInit /\ CraftingInit /\ DepositsInit
    /\ unskilled = IF scene = "apprentice" THEN Apprentices ELSE {}
    /\ scene # "ring" => center = <<0, 0>> /\ radius = 0

RingScene == scene = "ring" /\ RingNext /\ UNCHANGED <<territoryVars, craftingVars, depositsVars>>
TerritoryScene ==
    scene = "territory" /\ TerritoryNext /\ UNCHANGED <<ringVars, craftingVars, depositsVars>>
CraftingScene ==
    /\ \/ scene = "crafting" /\ ActiveNext
       \/ scene = "apprentice" /\ ActiveNext /\ nextCraft' <= MaxCrafts
    /\ UNCHANGED <<ringVars, territoryVars, depositsVars>>
RefiningScene ==
    scene = "refining" /\ PassiveNext /\ UNCHANGED <<ringVars, territoryVars, depositsVars>>
WildsScene ==
    /\ \/ scene = "wilds" /\ (Gather \/ Agents \/ Claims \/ Build)
       \/ scene = "fields" /\ (Gather \/ Agents \/ Plant)
       \/ scene = "reserve" /\ Administer
       \/ scene = "trails" /\ (Gather \/ FollowTrails \/ ComeOrGo(Hiker) \/ ClaimTile(Prized))
    /\ UNCHANGED <<ringVars, territoryVars, craftingVars>>

Next == (RingScene \/ TerritoryScene \/ CraftingScene \/ RefiningScene \/ WildsScene)
        /\ UNCHANGED scene

Spec == Init /\ [][Next]_landVars

-----------------------------------------------------------------------------

(***************************************************************************)
(* The iterator walks every tile of a ring once, a large tile is that of   *)
(* the nearest center, and coordinates survive their conversions.          *)
(***************************************************************************)
GridIsExact ==
    scene = "ring" =>
        IteratorIsRing /\ RingIsComplete /\ TerrainIsNearest /\ ConversionsAreExact

(***************************************************************************)
(* In whichever order tiles are claimed and buildings placed, finished,    *)
(* moved and deleted: a claim's counters agree with them, and a building   *)
(* is of the claim that covers it.                                         *)
(***************************************************************************)
ClaimsAddUp == scene = "territory" => TerritoryTypeOK /\ CountersAreExact /\ CoveredIsClaimed

(***************************************************************************)
(* However claims are founded, grow and shrink, each hangs together around *)
(* its totem and keeps away from the others.                               *)
(***************************************************************************)
ClaimsKeepShape == scene = "territory" => ClaimsHangTogether /\ ClaimsStayApart

(***************************************************************************)
(* However deposits are gathered, come back, are planted, built over and   *)
(* looked for: none overlaps another that was placed like it, none is used *)
(* up twice, their count is exact where the code keeps it so, and a prize  *)
(* is for those who found it.                                              *)
(***************************************************************************)
WildsInOrder == scene \in {"wilds", "fields", "reserve", "trails"} => DepositsInOrder

=============================================================================
