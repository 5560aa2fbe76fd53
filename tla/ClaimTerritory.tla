--------------------------- MODULE ClaimTerritory ---------------------------
(***************************************************************************)
(* The territories of the claims of a region, and the buildings on them.   *)
(* A claim begins with the tiles around its totem and grows or shrinks one *)
(* tile at a time.  A building is first a project site.  It belongs to the *)
(* claim that covers its whole footprint, if there is one, and adds to     *)
(* that claim's maintenance.                                               *)
(*                                                                         *)
(* A plan stands for a building, where it is to be built and the tiles of  *)
(* its footprint, perimeter aside.  Who may act is left to Claims;         *)
(* neutral claims, which only the world's data has, interiors and          *)
(* deployables are left out.                                               *)
(***************************************************************************)
EXTENDS HexGrid, FiniteSets, Functions, Rows

CONSTANTS
    Land,          \* the tiles players may claim
    Plans,         \* [totem : BOOLEAN, at : tile, tiles : set of tiles, maintenance : Nat]
    MinDistance,   \* min_distance_between_claims
    TotemDistance, \* MIN_CLAIM_TOTEM_SMALL_TILE_DISTANCE
    ClaimRadius,   \* building_claim_desc.radius
    MaxTiles,      \* of the technology of a claim
    NoClaim,       \* claim_entity_id 0
    MaxClaims      \* bound: claims ever made

ASSUME ClaimTerritoryAssumption ==
    /\ MinDistance \in Nat \ {0} /\ TotemDistance \in Nat
    /\ ClaimRadius \in Nat /\ MaxTiles \in Nat /\ MaxClaims \in Nat
    /\ NoClaim \notin 1 .. MaxClaims
    /\ Land \subseteq Int \X Int
    /\ \A p \in Plans :
           /\ p.totem \in BOOLEAN /\ p.maintenance \in Nat
           /\ p.at \in p.tiles /\ p.at \in Int \X Int
           \* static data: a totem stands within the first tiles of its claim
           /\ p.totem => p.tiles \subseteq AroundInclusive(p.at, ClaimRadius)

VARIABLES
    tiles,   \* claim_tile_state: tile -> claim
    areas,   \* claim_local_state: claim -> its totem, num_tiles, num_tile_neighbors, building_maintenance
    sites,   \* project_site_state and building_state: plan -> whether built, and the claim of it
    minted   \* the claims made so far

territoryVars == <<tiles, areas, sites, minted>>

Live == DOMAIN areas
TilesOf(c) == {t \in DOMAIN tiles : tiles[t] = c}
Built == {p \in DOMAIN sites : sites[p].built}

TerritoryTypeOK ==
    /\ DOMAIN sites \subseteq Plans
    /\ minted \in 0 .. MaxClaims
    /\ Live \subseteq 1 .. minted
    /\ \A c \in Live : /\ areas[c].totem \in Built
                       /\ areas[c].tiles \in Nat /\ areas[c].neighbors \in Nat
                       /\ areas[c].maintenance \in Nat
    /\ \A t \in DOMAIN tiles : tiles[t] \in Live
    /\ \A p \in DOMAIN sites : sites[p].claim \in {NoClaim} \cup 1 .. minted

TerritoryInit ==
    /\ tiles = << >> /\ areas = << >> /\ sites = << >>
    /\ minted = 0

-----------------------------------------------------------------------------

(***************************************************************************)
(* get_claim_under_footprint: the claim of all of its tiles, if any        *)
(***************************************************************************)
ClaimUnder(footprint, on) ==
    IF \E c \in 1 .. MaxClaims : \A t \in footprint : t \in DOMAIN on /\ on[t] = c
    THEN CHOOSE c \in 1 .. MaxClaims : \A t \in footprint : t \in DOMAIN on /\ on[t] = c
    ELSE NoClaim

PartialClaims(footprint) == {tiles[t] : t \in footprint \cap DOMAIN tiles}

(***************************************************************************)
(* any_claim_in_radius, any_claim_in_radius_except                         *)
(***************************************************************************)
ClaimsWithin(t, radius) == {tiles[u] : u \in {v \in DOMAIN tiles : Distance(t, v) <= radius}}

(***************************************************************************)
(* get_num_adjacent_tiles, of any claim                                    *)
(***************************************************************************)
Adjacent(t, claimed) == Cardinality(NeighborsDirect(t) \cap claimed)

(***************************************************************************)
(* claim_tile_buildings, over all tiles that are added: a site is claimed  *)
(* once its whole footprint is covered.  BuildingState::claim leaves a     *)
(* building that has a claim alone; a project changes its owner.           *)
(***************************************************************************)
Touched(added, on, c) ==
    {p \in DOMAIN sites : p.tiles \cap added # {} /\ ClaimUnder(p.tiles, on) = c}

Unclaimed(added, on, c, in) == {p \in Touched(added, on, c) : in[p].built /\ in[p].claim = NoClaim}

ProjectsOnly(added, on, c, in) ==
    [p \in DOMAIN in |-> IF p \in Touched(added, on, c) /\ ~in[p].built
                        THEN [in[p] EXCEPT !.claim = c] ELSE in[p]] \* mutant of ClaimSites
ClaimSites(added, on, c, in) ==
    [p \in DOMAIN in |->
        IF p \in Unclaimed(added, on, c, in) \/ (p \in Touched(added, on, c) /\ ~in[p].built)
        THEN [in[p] EXCEPT !.claim = c] ELSE in[p]]

Upkeep(plans) == SumFunction([p \in plans |-> p.maintenance])

-----------------------------------------------------------------------------

(***************************************************************************)
(* claim_add_tile, by an owner or co-owner of the claim                    *)
(***************************************************************************)
InSight(t, c) ==
    \A u \in RayTiles(t, areas[c].totem.at) : u \in DOMAIN tiles => tiles[u] = c

AddTile(c, t) ==
    LET on == With(tiles, t, c)
        adjacent == Adjacent(t, DOMAIN tiles)
    IN  /\ t \notin DOMAIN tiles
        /\ adjacent > 0
        /\ ClaimsWithin(t, MinDistance) \subseteq {c}
        /\ areas[c].tiles < MaxTiles
        /\ InSight(t, c)
        /\ tiles' = on
        /\ sites' = ClaimSites({t}, on, c, sites)
        /\ areas' = [areas EXCEPT ![c].tiles = @ + 1,
                                  ![c].neighbors = @ + 2 * adjacent,
                                  ![c].maintenance = @ + Upkeep(Unclaimed({t}, on, c, sites))]
        /\ UNCHANGED minted

(***************************************************************************)
(* claim_remove_tile, if what is left hangs together                       *)
(***************************************************************************)
Reached(from, within) ==
    LET Near[n \in Nat] ==
            IF n = 0 THEN {from}
            ELSE LET so == Near[n - 1]
                 IN  so \cup {t \in within \ so : NeighborsDirect(t) \cap so # {}}
    IN  Near[Cardinality(within)]

KeepsCenter(center, left) == center \in left \* mutant of HangTogether
HangTogether(center, left) == left \subseteq Reached(center, left)

RemoveTile(t) ==
    LET c == tiles[t]
        left == TilesOf(c) \ {t}
        center == areas[c].totem.at
    IN  /\ Distance(center, t) > ClaimRadius
        /\ \A p \in DOMAIN sites : t \notin p.tiles
        /\ HangTogether(center, left)
        /\ tiles' = Without(tiles, t)
        /\ areas' = [areas EXCEPT ![c].tiles = @ - 1,
                                  ![c].neighbors = @ - 2 * Adjacent(t, left)]
        /\ UNCHANGED <<sites, minted>>

-----------------------------------------------------------------------------

(***************************************************************************)
(* project_site_place, of a plan with nothing in the way                   *)
(***************************************************************************)
IsFree(p, except) == \A q \in DOMAIN sites \ except : q.tiles \cap p.tiles = {}

CanPlaceTotem(p) ==
    /\ PartialClaims(p.tiles) = {}
    /\ \A q \in Built : q.totem => Distance(p.at, q.at) > TotemDistance
    /\ ClaimsWithin(p.at, MinDistance + ClaimRadius) = {}

PlaceProject(p) ==
    /\ IsFree(p, {})
    /\ p.totem => CanPlaceTotem(p)
    /\ Cardinality(PartialClaims(p.tiles)) <= 1
    /\ sites' = With(sites, p, [built |-> FALSE, claim |-> ClaimUnder(p.tiles, tiles)])
    /\ UNCHANGED <<tiles, areas, minted>>

CancelProject(p) ==
    /\ ~sites[p].built
    /\ sites' = Without(sites, p)
    /\ UNCHANGED <<tiles, areas, minted>>

(***************************************************************************)
(* The end of project_site_advance_project.  The claim is the one noted in *)
(* the site, which may be gone: BuildingState::claim then fails if it has  *)
(* to add maintenance to it.                                               *)
(***************************************************************************)
Paid(in, p) ==
    LET c == in[p].claim
    IN  IF c # NoClaim /\ p.maintenance # 0
        THEN [areas EXCEPT ![c].maintenance = @ + p.maintenance]
        ELSE areas

FinishProject(p) ==
    /\ ~sites[p].built /\ ~p.totem
    /\ p.maintenance # 0 => sites[p].claim \in Live \cup {NoClaim}
    /\ sites' = [sites EXCEPT ![p].built = TRUE]
    /\ areas' = Paid(sites, p)
    /\ UNCHANGED <<tiles, minted>>

(***************************************************************************)
(* ... of a totem: create_building_claim, claim_area_around_totem          *)
(***************************************************************************)
NumTilesInRadius(r) == 1 + 3 * r * (r + 1)
NumNeighborsInRadius(r) ==
    6 * NumTilesInRadius(r - 1) + 6 * 3 + (6 * r - 6) * 4

FoundAnywhere(p) == TRUE \* mutant of IsFarFromClaims
IsFarFromClaims(p) == ClaimsWithin(p.at, MinDistance + ClaimRadius) = {}

FinishTotem(p) ==
    LET c == minted + 1
        added == AroundInclusive(p.at, ClaimRadius)
        on == [t \in added \cup DOMAIN tiles |-> IF t \in added THEN c ELSE tiles[t]]
        built == [sites EXCEPT ![p].built = TRUE]
        claimed == ClaimSites(added, on, c, built)
    IN  /\ ~sites[p].built /\ p.totem
        /\ p.maintenance # 0 => sites[p].claim \in Live \cup {NoClaim}
        /\ IsFarFromClaims(p)
        /\ minted < MaxClaims
        /\ minted' = c
        /\ tiles' = on
        /\ areas' = With(Paid(sites, p), c,
                         [totem |-> p, tiles |-> NumTilesInRadius(ClaimRadius),
                          neighbors |-> NumNeighborsInRadius(ClaimRadius),
                          maintenance |-> Upkeep(Unclaimed(added, on, c, built))])
        /\ sites' = [claimed EXCEPT ![p].claim = c]

-----------------------------------------------------------------------------

(***************************************************************************)
(* building_move, to another plan for the same building                    *)
(***************************************************************************)
Move(p, q) ==
    /\ sites[p].built /\ ~p.totem /\ ~q.totem
    /\ q \notin DOMAIN sites /\ q.maintenance = p.maintenance
    /\ sites[p].claim # NoClaim
    /\ IsFree(q, {p})
    /\ ClaimUnder(q.tiles, tiles) = sites[p].claim
    /\ sites' = With(Without(sites, p), q, sites[p])
    /\ UNCHANGED <<tiles, areas, minted>>

(***************************************************************************)
(* delete_building: by a player, by decay or for an empire.  That of a     *)
(* building whose claim is gone fails if it has maintenance to give back.  *)
(***************************************************************************)
FreeOnly(p, c) == [p EXCEPT !.claim = NoClaim] \* mutant of Unclaim
Unclaim(s, c) == IF s.built /\ s.claim = c THEN [s EXCEPT !.claim = NoClaim] ELSE s

DeleteBuilding(p) ==
    LET c == sites[p].claim
    IN  /\ sites[p].built /\ ~p.totem
        /\ p.maintenance # 0 => c \in Live \cup {NoClaim}
        /\ sites' = Without(sites, p)
        /\ areas' = IF c \in Live THEN [areas EXCEPT ![c].maintenance = @ - p.maintenance] ELSE areas
        /\ UNCHANGED <<tiles, minted>>

(***************************************************************************)
(* ... of a totem: delete_all_claim_tiles.  Buildings are freed, project   *)
(* sites are not.                                                          *)
(***************************************************************************)
TilesStay(c) == tiles \* mutant of TilesAfter
TilesAfter(c) == [t \in {u \in DOMAIN tiles : tiles[u] # c} |-> tiles[t]]

DeleteTotem(c) ==
    /\ tiles' = TilesAfter(c)
    /\ areas' = Without(areas, c)
    /\ sites' = [p \in DOMAIN sites \ {areas[c].totem} |-> Unclaim(sites[p], c)]
    /\ UNCHANGED minted

TerritoryNext ==
    \/ \E c \in Live, t \in Land : AddTile(c, t)
    \/ \E t \in DOMAIN tiles : RemoveTile(t)
    \/ \E p \in Plans \ DOMAIN sites : PlaceProject(p)
    \/ \E p \in DOMAIN sites : CancelProject(p) \/ FinishProject(p) \/ FinishTotem(p) \/ DeleteBuilding(p)
    \/ \E p \in DOMAIN sites, q \in Plans : Move(p, q)
    \/ \E c \in Live : DeleteTotem(c)

-----------------------------------------------------------------------------

(***************************************************************************)
(* The counters of a claim, which are only ever added to and taken from,   *)
(* agree with its tiles and its buildings: upkeep is paid by them.         *)
(***************************************************************************)
CountersAreExact ==
    \A c \in Live :
        /\ areas[c].tiles = Cardinality(TilesOf(c))
        /\ LET own == TilesOf(c)
           IN  areas[c].neighbors = SumFunction([t \in own |-> Adjacent(t, own)])
        /\ areas[c].maintenance = Upkeep({p \in Built : sites[p].claim = c})

(***************************************************************************)
(* A claim hangs together around its totem, and keeps its first tiles.     *)
(***************************************************************************)
ClaimsHangTogether ==
    \A c \in Live :
        /\ AroundInclusive(areas[c].totem.at, ClaimRadius) \subseteq TilesOf(c)
        /\ TilesOf(c) \subseteq Reached(areas[c].totem.at, TilesOf(c))

(***************************************************************************)
(* However claims are founded and grow, two stay further apart than        *)
(* min_distance_between_claims.                                            *)
(***************************************************************************)
ClaimsStayApart ==
    \A t, u \in DOMAIN tiles : tiles[t] # tiles[u] => Distance(t, u) > MinDistance

(***************************************************************************)
(* A building is of the claim that covers it and of no other, whichever    *)
(* came first.  (One that was finished for a claim that is gone keeps that *)
(* claim.)                                                                 *)
(***************************************************************************)
CoveredIsClaimed ==
    \A p \in Built :
        /\ sites[p].claim \in Live => ClaimUnder(p.tiles, tiles) = sites[p].claim
        /\ sites[p].claim = NoClaim => ClaimUnder(p.tiles, tiles) = NoClaim

(***************************************************************************)
(* The claim noted in a project site exists: its building is to be         *)
(* finished for it.  Not so: delete_all_claim_tiles frees only buildings.  *)
(***************************************************************************)
ProjectsHaveTheirClaim ==
    \A p \in DOMAIN sites \ Built : sites[p].claim \in Live \cup {NoClaim}

(***************************************************************************)
(* No two totems stand closer than project_site_place allows.  Not so: it  *)
(* looks at finished totems only, and the distance is not looked at again. *)
(***************************************************************************)
TotemsStayApart ==
    \A p, q \in Built : p.totem /\ q.totem /\ p # q => Distance(p.at, q.at) > TotemDistance

=============================================================================
