------------------------------ MODULE Deposits ------------------------------
(***************************************************************************)
(* What grows and lies about in a region.  Players extract from deposits   *)
(* until they are used up; a used-up deposit may leave another one behind, *)
(* may be planned to come back, and is missed by the agent that keeps the  *)
(* world filled.  Planted deposits grow.  Prospectors follow trails of     *)
(* crumbs that end at a prize which only they may gather.                  *)
(*                                                                         *)
(* The ground is a row of tiles and a clump has one resource; direction,   *)
(* terrain, biome and noise are left out (any tile may turn out unfit),    *)
(* and so are permission, range, stamina, tools and the yields in items:   *)
(* a call that fails for one of them changes nothing here.  Trails end at  *)
(* a resource, not at a herd.                                              *)
(***************************************************************************)
EXTENDS Integers, FiniteSets, SequencesExt, Rows

CONSTANTS
    Gatherers,
    Ground,        \* tiles, integers
    Kinds,         \* resource_desc
    Desc,          \* of every kind, its description
    NoKind,        \* resource id 0
    Prospecting,   \* prospecting_desc: placeholder, prize, crumbs, contribution
    Strengths,     \* outcomes of a blow
    MaxTries,      \* bound: tiles that one run of an agent looks at
    MaxDeposits,   \* bound: deposits that ever are
    MaxTrails      \* bound: trails that ever are

ASSUME DepositsAssumption ==
    /\ NoKind \notin Kinds
    /\ \A k \in Kinds :
        /\ 0 \in Desc[k].tiles
        /\ Desc[k].offspring \in Kinds \cup {NoKind} /\ Desc[k].grown \in Kinds \cup {NoKind}

VARIABLES
    deposits,       \* resource_state with its location
    depositHealth,  \* resource_health_state
    growth,         \* growth_state: ids of deposits
    locks,          \* crumb_trail_contribution_lock_state: the trail of a deposit
    numInWorld,     \* resource_count
    worldTarget,    \* resources_log
    spawnTimers,    \* resource_spawn_timer
    respawnTimers,  \* respawn_resource_in_chunk_timer
    nextDeposit,
    claimed,        \* tiles of claims
    walls, eaves,   \* tiles of buildings: hit boxes, and what is around them
    plots,          \* project sites of resources
    trails,         \* crumb_trail_state
    prospecting,    \* prospecting_state
    spent,          \* crumb_trail_contribution_spent_state
    nextTrail,
    asleep,         \* players who are not signed in
    wild,           \* ghost: deposits that an agent placed, and not at the edge of a building
    paid,           \* ghost: of every deposit, the damage that was rewarded
    gathered        \* ghost: blows at the prize of a trail, of every player

depositTables == <<deposits, depositHealth, growth, numInWorld, respawnTimers, nextDeposit,
                   wild, paid>>
landTables == <<claimed, walls, eaves, plots>>
trailTables == <<trails, prospecting, spent, nextTrail, locks, asleep, gathered>>
depositsVars == <<depositTables, spawnTimers, worldTarget, landTables, trailTables>>

Tiles(kind, at) == {at + o : o \in Desc[kind].tiles}

-----------------------------------------------------------------------------

(***************************************************************************)
(* Deposits come and go, several in one transaction: the operators take    *)
(* and return the tables.                                                  *)
(***************************************************************************)
World == [deposits |-> deposits, health |-> depositHealth, growth |-> growth,
          count |-> numInWorld, respawns |-> respawnTimers, next |-> nextDeposit,
          wild |-> wild, paid |-> paid]

Becomes(w) ==
    /\ deposits' = w.deposits /\ depositHealth' = w.health /\ growth' = w.growth
    /\ numInWorld' = w.count /\ respawnTimers' = w.respawns
    /\ nextDeposit' = w.next /\ wild' = w.wild /\ paid' = w.paid

Over(w, tiles) ==
    {d \in DOMAIN w.deposits : Tiles(w.deposits[d].kind, w.deposits[d].at) \cap tiles # {}}

Delete(w, d) ==
    [w EXCEPT !.deposits = Without(@, d), !.health = Without(@, d),
              !.growth = @ \ {d}, !.wild = @ \ {d}, !.paid = Without(@, d)]

\* whatever grows is deleted, the others are counted and may come back
Despawn(w, d) ==
    LET kind == w.deposits[d].kind
        at == w.deposits[d].at
    IN  IF d \notin DOMAIN w.deposits THEN w
        ELSE IF d \in w.growth THEN Delete(w, d)
        ELSE [Delete(w, d) EXCEPT
                !.count[kind] = @ - 1,
                !.respawns = IF Desc[kind].respawns
                             THEN @ \cup {[of |-> d, kind |-> kind, at |-> at]} ELSE @]

DespawnAll(w, ids) == FoldLeft(Despawn, w, SetToSeq(ids))

InsertOne(w, kind) ==
    IF kind \in DOMAIN w.count THEN [w EXCEPT !.count[kind] = @ + 1]
    ELSE [w EXCEPT !.count = @ @@ (kind :> 0)]

AddDeposit(w, kind, at, isWild) ==
    LET d == w.next
    IN  [w EXCEPT !.deposits = @ @@ (d :> [kind |-> kind, at |-> at]),
                  !.health = @ @@ (d :> Desc[kind].health),
                  !.growth = IF Desc[kind].grown # NoKind THEN @ \cup {d} ELSE @,
                  !.wild = IF isWild THEN @ \cup {d} ELSE @,
                  !.paid = @ @@ (d :> 0),
                  !.next = @ + 1]

Spawn(w, kind, at, isWild) == AddDeposit(InsertOne(w, kind), kind, at, isWild)

Room(n) == nextDeposit + n <= MaxDeposits + 1

\* every deposit that goes has a count to be taken from
Counted(ids) == \A d \in ids \ growth : deposits[d].kind \in DOMAIN numInWorld

DepositsInit ==
    /\ deposits = <<>> /\ depositHealth = <<>> /\ growth = {} /\ locks = <<>>
    /\ worldTarget = [k \in Kinds |-> Desc[k].target]
    /\ numInWorld = [k \in {k \in Kinds : Desc[k].target > 0} |-> 0]
    /\ spawnTimers = {} /\ respawnTimers = {} /\ nextDeposit = 1
    /\ claimed = {} /\ walls = {} /\ eaves = {} /\ plots = {}
    /\ trails = <<>> /\ prospecting = <<>> /\ spent = {} /\ nextTrail = 1 /\ asleep = {}
    /\ wild = {} /\ paid = <<>> /\ gathered = [pt \in Gatherers \X (1 .. MaxTrails) |-> 0]

-----------------------------------------------------------------------------

(***************************************************************************)
(* Where a clump may be placed.  A run collects what it adds and what has  *)
(* to make room for it; a clump that turns out to touch a building after   *)
(* all is refused, but stays among those that are added.                   *)
(***************************************************************************)
IsValidCell(tile, priority) ==
    /\ tile \in Ground \ walls
    /\ \A d \in Over(World, {tile}) : Desc[deposits[d].kind].priority < priority

Batch(missing) == [added |-> <<>>, cleared |-> {}, occupied |-> claimed, missing |-> missing]

TrySpawn(batch, kind, at) ==
    LET tiles == Tiles(kind, at)
        fits == \A t \in tiles : t \notin batch.occupied /\ IsValidCell(t, Desc[kind].priority)
        before == {t \in tiles : \A e \in tiles \cap eaves : t < e}
    IN  IF ~fits \/ batch.missing = 0 THEN batch
        ELSE [added |-> Append(batch.added, [kind |-> kind, at |-> at]),
              cleared |-> batch.cleared
                            \cup {td \in before \X DOMAIN deposits : td[2] \in Over(World, {td[1]})},
              occupied |-> batch.occupied
                            \cup {t \in tiles : \A e \in tiles \cap eaves : t <= e},
              missing |-> IF before = tiles THEN batch.missing - 1 ELSE batch.missing]

TryAll(missing, kind, tries) ==
    FoldLeft(LAMBDA b, at : TrySpawn(b, kind, at), Batch(missing), tries)

\* what made room is taken from the count a second time
DiscountCleared(w, cleared) ==
    [w EXCEPT !.count = [k \in DOMAIN @ |->
        @[k] - Cardinality({td \in cleared : deposits[td[2]].kind = k})]]

Placed(w, clump) ==
    Spawn(w, clump.kind, clump.at, Tiles(clump.kind, clump.at) \cap eaves = {})

PlaceBatch(batch) ==
    LET cleared == {td[2] : td \in batch.cleared}
        emptied == DiscountCleared(DespawnAll(World, cleared), batch.cleared)
    IN  /\ Room(Len(batch.added)) /\ Counted(cleared)
        /\ Becomes(FoldLeft(Placed, emptied, batch.added))

Tries == UNION {[1 .. n -> Ground] : n \in 1 .. MaxTries}

\* a clump is spawned when its resource is below 95 % of its target
ResourcesRegen(kind, tries) ==
    LET missing == (worldTarget[kind] * 95) \div 100 - numInWorld[kind]
        batch == TryAll(missing, kind, tries)
    IN  /\ kind \in DOMAIN numInWorld /\ worldTarget[kind] > 0 /\ missing > 0
        /\ batch.added # <<>>
        /\ PlaceBatch(batch)
        /\ UNCHANGED <<spawnTimers, worldTarget, landTables, trailTables>>

\* an administrator fills up to the target at once, and stops at the last one missing
AdminResourceForceRegen(kind, tries) ==
    LET batch == TryAll(worldTarget[kind] - numInWorld[kind], kind, tries)
    IN  /\ kind \in DOMAIN numInWorld /\ numInWorld[kind] < worldTarget[kind]
        /\ batch.added # <<>>
        /\ PlaceBatch(batch)
        /\ UNCHANGED <<spawnTimers, worldTarget, landTables, trailTables>>

WorldPlaceResource(kind, tries) ==
    LET batch == TryAll(MaxDeposits, kind, tries)
    IN  /\ batch.added # <<>>
        /\ PlaceBatch(batch)
        /\ \E toLog \in BOOLEAN :
            worldTarget' = [worldTarget EXCEPT ![kind] = IF toLog THEN @ + Len(batch.added) ELSE @]
        /\ UNCHANGED <<spawnTimers, landTables, trailTables>>

AdminSetResourceWorldTarget(kind, target) ==
    /\ worldTarget' = [worldTarget EXCEPT ![kind] = target]
    /\ UNCHANGED <<depositTables, spawnTimers, landTables, trailTables>>

AdminResourcesDelete(kind) ==
    LET ids == {d \in DOMAIN deposits : deposits[d].kind = kind}
    IN  /\ ids # {} /\ Counted(ids)
        /\ Becomes(DespawnAll(World, ids))
        /\ UNCHANGED <<spawnTimers, worldTarget, landTables, trailTables>>

AdminClearChunkResources ==
    /\ deposits # <<>> /\ Counted(DOMAIN deposits)
    /\ Becomes(DespawnAll(World, DOMAIN deposits))
    /\ UNCHANGED <<spawnTimers, worldTarget, landTables, trailTables>>

(***************************************************************************)
(* A single deposit comes back within its chunk: at one of some random     *)
(* tiles, or at last where it was.  If something made room for it, it      *)
(* comes in a transaction of its own.                                      *)
(***************************************************************************)
FirstFit(kind, tries) ==
    LET Try(b, at) == IF b.missing = 0 THEN b ELSE TrySpawn(b, kind, at)
    IN  FoldLeft(Try, Batch(1), tries)

Returned(w, tile) ==   \* ResourceState::spawn with check_resources
    LET covered == Over(w, Tiles(tile.kind, tile.at))
    IN  Placed(DespawnAll(w, covered), tile)

RespawnResourceInChunk(timer, tries) ==
    LET batch == FirstFit(timer.kind, Append(tries, timer.at))
        cleared == {td[2] : td \in batch.cleared}
        w == [World EXCEPT !.respawns = @ \ {timer}]
    IN  /\ Counted(UNION {Over(World, Tiles(a.kind, a.at)) : a \in Range(batch.added)})
        /\ IF worldTarget[timer.kind] = 0 \/ batch.added = <<>>
           THEN Becomes(w) /\ UNCHANGED spawnTimers
           ELSE IF cleared # {}
           THEN /\ Becomes(DespawnAll(w, cleared))
                /\ spawnTimers' = spawnTimers
                     \cup {[of |-> timer.of, kind |-> a.kind, at |-> a.at] : a \in Range(batch.added)}
           ELSE /\ Room(Len(batch.added))
                /\ Becomes(FoldLeft(Returned, w, batch.added))
                /\ UNCHANGED spawnTimers
        /\ UNCHANGED <<worldTarget, landTables, trailTables>>

\* neither buildings nor deposits are checked
ResourceSpawnScheduled(timer) ==
    /\ Room(1)
    /\ Becomes(Spawn(World, timer.kind, timer.at, FALSE))
    /\ spawnTimers' = spawnTimers \ {timer}
    /\ UNCHANGED <<worldTarget, landTables, trailTables>>

-----------------------------------------------------------------------------

(***************************************************************************)
(* Extraction.  The prize of a trail is for those who have contributed,    *)
(* one blow for each contribution.                                         *)
(***************************************************************************)
MayGather(p, d) ==
    d \in DOMAIN locks =>
        /\ p \in DOMAIN prospecting
        /\ prospecting[p].trail = locks[d]

Contribute(p, d) ==
    IF d \notin DOMAIN locks THEN UNCHANGED <<prospecting, spent, gathered>>
    ELSE /\ prospecting' = IF prospecting[p].contribution <= 1 THEN Without(prospecting, p)
                           ELSE [prospecting EXCEPT ![p].contribution = @ - 1]
         /\ spent' = spent \cup {<<p, locks[d]>>}
         /\ gathered' = [gathered EXCEPT ![<<p, locks[d]>>] = @ + 1]

ProduceOffspring(d) ==
    LET kind == deposits[d].kind
    IN  spawnTimers' = IF Desc[kind].offspring = NoKind THEN spawnTimers
                       ELSE spawnTimers \cup {[of |-> d, kind |-> Desc[kind].offspring,
                                               at |-> deposits[d].at]}

Extract(p, d, strength) ==
    LET damage == IF strength < depositHealth[d] THEN strength ELSE depositHealth[d]
        rewarded == [World EXCEPT !.paid[d] = @ + damage]
        left == depositHealth[d] - damage
    IN  /\ p \notin asleep /\ depositHealth[d] > 0
        /\ MayGather(p, d) /\ Contribute(p, d)
        /\ IF Desc[deposits[d].kind].ignoreDamage
           THEN UNCHANGED <<depositTables, spawnTimers>>
           ELSE IF left = 0
           THEN Counted({d}) /\ Becomes(Despawn(rewarded, d)) /\ ProduceOffspring(d)
           ELSE Becomes([rewarded EXCEPT !.health[d] = left]) /\ UNCHANGED spawnTimers
        /\ UNCHANGED <<worldTarget, landTables, trails, nextTrail, locks, asleep>>

\* a ripe deposit makes place for what it has grown into
GrowthAgentLoop(d) ==
    LET grown == Desc[deposits[d].kind].grown
    IN  /\ Room(1)
        /\ Becomes(Spawn(Despawn(World, d), grown, deposits[d].at, FALSE))
        /\ UNCHANGED <<spawnTimers, worldTarget, landTables, trailTables>>

-----------------------------------------------------------------------------

(***************************************************************************)
(* Claims, buildings, paving and project sites take the ground.  A         *)
(* building removes the deposits that lie, with their center, under it.    *)
(***************************************************************************)
Sites == Ground \cup {tile + 1 : tile \in Ground} \* one may stand beside the ground

Centered(tiles) ==
    {d \in DOMAIN deposits : deposits[d].at \in tiles /\ Desc[deposits[d].kind].flattenable}

ClaimTile(tile) ==
    /\ claimed' = claimed \cup {tile}
    /\ UNCHANGED <<depositTables, spawnTimers, worldTarget, walls, eaves, plots, trailTables>>

CreateBuilding(tile) ==
    LET around == {tile - 1, tile + 1}
        cleared == Centered(around \cup {tile})
    IN  /\ walls = {} /\ tile \notin {s.at : s \in plots}
        /\ \A d \in Over(World, around \cup {tile}) : Desc[deposits[d].kind].flattenable
        /\ Counted(cleared) /\ Becomes(DespawnAll(World, cleared))
        /\ walls' = {tile} /\ eaves' = around
        /\ UNCHANGED <<spawnTimers, worldTarget, claimed, plots, trailTables>>

ProjectSitePlace(kind, at) ==
    LET cleared == Centered(Tiles(kind, at))
    IN  /\ Tiles(kind, at) \subseteq Ground \ (walls \cup eaves)
        /\ \A s \in plots : Tiles(s.kind, s.at) \cap Tiles(kind, at) = {}
        /\ \A d \in Over(World, Tiles(kind, at)) : Desc[deposits[d].kind].flattenable
        /\ Counted(cleared) /\ Becomes(DespawnAll(World, cleared))
        /\ plots' = plots \cup {[kind |-> kind, at |-> at]}
        /\ UNCHANGED <<spawnTimers, worldTarget, claimed, walls, eaves, trailTables>>

\* not counted, so that the agent does not replace it
SpawnFromConstructionSite(site) ==
    /\ Room(1)
    /\ Becomes(AddDeposit(World, site.kind, site.at, FALSE))
    /\ plots' = plots \ {site}
    /\ UNCHANGED <<spawnTimers, worldTarget, claimed, walls, eaves, trailTables>>

PavingPlaceTile(tile) ==
    LET paved == Over(World, {tile})
    IN  /\ \A d \in paved : Desc[deposits[d].kind].flattenable
        /\ paved # {} /\ Counted(paved)
        /\ Becomes(DespawnAll(World, paved))
        /\ UNCHANGED <<spawnTimers, worldTarget, landTables, trailTables>>

-----------------------------------------------------------------------------

(***************************************************************************)
(* Prospecting.  The first prospection joins a trail nearby whose prize is *)
(* not revealed yet, or lays a new one with a placeholder at its end; a    *)
(* prospection at the crumb that is looked for is a contribution, and the  *)
(* last crumb turns the placeholder into the prize.                        *)
(***************************************************************************)
\* mutant of Joinable: a revealed trail may be joined as well
JoinableToTheEnd(t) ==
    \E p \in DOMAIN prospecting : prospecting[p].trail = t

Joinable(t) ==
    /\ trails[t].active < Prospecting.crumbs
    /\ \E p \in DOMAIN prospecting : prospecting[p].trail = t

Follows(t, step) == [trail |-> t, step |-> step, contribution |-> 0]

\* after joining, where the player stands is looked at, too
Prospect(p, follows, trail, found) ==
    LET step == follows.step
        heading == step >= Prospecting.crumbs
        advanced == found /\ ~heading /\ step = trail.active
        active == IF advanced THEN trail.active + 1 ELSE trail.active
    IN  [follows |-> IF found /\ ~heading
                     THEN [follows EXCEPT !.step = active,
                                          !.contribution = @ + Prospecting.contribution]
                     ELSE follows,
         active |-> active,
         revealed |-> advanced /\ active = Prospecting.crumbs]

\* the placeholder goes without being counted, and the prize must fit where it was
ReplacePrizeResources(t, active) ==
    LET cleared == FoldLeft(Delete, World, SetToSeq(trails[t].prizes \cap DOMAIN deposits))
        fits == \A tile \in Tiles(Prospecting.prize, trails[t].at) :
                    /\ tile \in Ground \ (walls \cup eaves \cup claimed)
                    /\ \A d \in Over(cleared, {tile}) :
                        Desc[deposits[d].kind].priority < Desc[Prospecting.prize].priority
    IN  /\ Room(1) /\ fits
        /\ Becomes(Spawn(cleared, Prospecting.prize, trails[t].at, FALSE))
        /\ trails' = [trails EXCEPT ![t].active = active, ![t].prizes = {nextDeposit}]
        /\ locks' = locks @@ (nextDeposit :> t)

ProspectOn(p, follows, t, found) ==
    LET result == Prospect(p, follows, trails[t], found)
    IN  /\ prospecting' = Without(prospecting, p) @@ (p :> result.follows)
        /\ IF result.revealed THEN ReplacePrizeResources(t, result.active)
           ELSE /\ trails' = [trails EXCEPT ![t].active = result.active]
                /\ UNCHANGED <<depositTables, locks>>

\* on the way to a prize that is gone, its location cannot be read
KnowsTheWay(follows, t) ==
    follows.step >= Prospecting.crumbs => trails[t].prizes \subseteq DOMAIN deposits

ContinueTrail(p, found) ==
    LET follows == prospecting[p]
    IN  /\ p \notin asleep /\ KnowsTheWay(follows, follows.trail)
        /\ ProspectOn(p, follows, follows.trail, found)
        /\ UNCHANGED <<spawnTimers, worldTarget, landTables, nextTrail, spent, asleep, gathered>>

\* near are the trails within whose join radius the player stands
JoinTrail(p, near, t, found) ==
    /\ p \notin asleep /\ t \in near /\ Joinable(t)
    /\ ProspectOn(p, Follows(t, trails[t].active), t, found)
    /\ UNCHANGED <<spawnTimers, worldTarget, landTables, nextTrail, spent, asleep, gathered>>

\* what made room for the placeholder is taken from the count twice, too; crumbs are
\* farther from each other than they are wide, so none is found at once
CreateTrail(p, near, at) ==
    LET batch == TrySpawn(Batch(1), Prospecting.placeholder, at)
        follows == Follows(nextTrail, 0)
    IN  /\ p \notin asleep /\ \A t \in near : ~Joinable(t)
        /\ nextTrail <= MaxTrails /\ batch.missing = 0
        /\ PlaceBatch(batch)
        /\ trails' = trails @@ (nextTrail :> [active |-> 0, prizes |-> {nextDeposit},
                                              at |-> at, strikes |-> 0])
        /\ prospecting' = prospecting @@ (p :> follows)
        /\ nextTrail' = nextTrail + 1
        /\ UNCHANGED <<spawnTimers, worldTarget, landTables, spent, locks, asleep, gathered>>

\* another kind of prospecting gives up the trail
GiveUp(p) ==
    /\ p \notin asleep
    /\ prospecting' = Without(prospecting, p)
    /\ UNCHANGED <<depositTables, spawnTimers, worldTarget, landTables, trails, spent, nextTrail,
                   locks, asleep, gathered>>

Followed(t) == \E p \in DOMAIN prospecting \ asleep : prospecting[p].trail = t
Forgotten == {t \in DOMAIN trails : ~Followed(t) /\ trails[t].strikes = 2}

\* three times in a row nobody has been following: the trail goes with its prize
CrumbTrailCleanup ==
    LET prizes == UNION {trails[t].prizes : t \in Forgotten} \cap DOMAIN deposits
    IN  /\ trails # <<>> /\ Counted(prizes)
        /\ Becomes(DespawnAll(World, prizes))
        /\ trails' = [t \in DOMAIN trails \ Forgotten |->
                        [trails[t] EXCEPT !.strikes = IF Followed(t) THEN 0 ELSE @ + 1]]
        /\ prospecting' = [p \in {p \in DOMAIN prospecting : prospecting[p].trail \notin Forgotten}
                            |-> prospecting[p]]
        /\ spent' = {pt \in spent : pt[2] \notin Forgotten}
        /\ UNCHANGED <<spawnTimers, worldTarget, landTables, nextTrail, locks, asleep, gathered>>

ComeOrGo(p) ==
    /\ asleep' = IF p \in asleep THEN asleep \ {p} ELSE asleep \cup {p}
    /\ UNCHANGED <<depositTables, spawnTimers, worldTarget, landTables, trails, prospecting, spent,
                   nextTrail, locks, gathered>>

-----------------------------------------------------------------------------

Gather == \E p \in Gatherers, d \in DOMAIN deposits, s \in Strengths : Extract(p, d, s)
Agents ==
    \/ \E k \in Kinds, tries \in Tries : ResourcesRegen(k, tries)
    \/ \E timer \in respawnTimers, tries \in Tries : RespawnResourceInChunk(timer, tries)
    \/ \E timer \in spawnTimers : ResourceSpawnScheduled(timer)
    \/ \E d \in growth : GrowthAgentLoop(d)
Claims == \E tile \in Ground \ claimed : ClaimTile(tile)
Build ==
    \/ \E tile \in Sites : CreateBuilding(tile)
    \/ \E tile \in Ground : PavingPlaceTile(tile)
Plant ==
    \/ \E k \in {k \in Kinds : Desc[k].planted}, at \in Ground : ProjectSitePlace(k, at)
    \/ \E site \in plots : SpawnFromConstructionSite(site)
Administer ==
    \E k \in {k \in Kinds : Desc[k].target > 0} :
        \/ \E tries \in Tries : AdminResourceForceRegen(k, tries) \/ WorldPlaceResource(k, tries)
        \/ \E target \in {0, Desc[k].target} : AdminSetResourceWorldTarget(k, target)
        \/ AdminResourcesDelete(k)
        \/ AdminClearChunkResources
FollowTrails ==
    \/ \E p \in DOMAIN prospecting, found \in BOOLEAN : ContinueTrail(p, found)
    \/ \E p \in Gatherers \ DOMAIN prospecting, near \in SUBSET DOMAIN trails :
        \/ \E t \in near, found \in BOOLEAN : JoinTrail(p, near, t, found)
        \/ \E at \in Ground : CreateTrail(p, near, at)
    \/ \E p \in DOMAIN prospecting : GiveUp(p)
    \/ CrumbTrailCleanup

-----------------------------------------------------------------------------

Ids == 1 .. MaxDeposits
Timers == [of : Ids, kind : Kinds, at : Ground]

DepositsTypeOK ==
    /\ DOMAIN deposits \subseteq Ids /\ growth \subseteq DOMAIN deposits
    /\ Range(deposits) \subseteq [kind : Kinds, at : Ground]
    /\ DOMAIN depositHealth = DOMAIN deposits
    /\ DOMAIN numInWorld \subseteq Kinds /\ Range(numInWorld) \subseteq Int
    /\ worldTarget \in [Kinds -> Nat]
    /\ spawnTimers \subseteq Timers /\ respawnTimers \subseteq Timers
    /\ claimed \subseteq Ground /\ walls \subseteq Sites
    /\ DOMAIN prospecting \subseteq Gatherers /\ asleep \subseteq Gatherers

(***************************************************************************)
(* Deposits that the agents place, away from the edges of buildings, do    *)
(* not overlap each other, whatever is claimed, built and extracted        *)
(* between and within their runs.                                          *)
(***************************************************************************)
WildStandApart ==
    \A d \in wild : Over(World, Tiles(deposits[d].kind, deposits[d].at)) \cap wild = {d}

(***************************************************************************)
(* The blows at a deposit are rewarded for the damage they did and for no  *)
(* more, whoever strikes the last one.                                     *)
(***************************************************************************)
RewardIsDamage ==
    \A d \in DOMAIN deposits :
        ~Desc[deposits[d].kind].ignoreDamage =>
            paid[d] + depositHealth[d] = Desc[deposits[d].kind].health /\ depositHealth[d] > 0

(***************************************************************************)
(* A resource that is not planted, does not grow, is laid by no prospector *)
(* and yields to no other is counted exactly: resource_count is the number *)
(* of its deposits.                                                        *)
(***************************************************************************)
Steady(kind) ==
    /\ Desc[kind].target > 0 /\ Desc[kind].grown = NoKind /\ ~Desc[kind].planted
    /\ kind # Prospecting.placeholder
    /\ \A other \in Kinds : Desc[other].priority <= Desc[kind].priority

CountIsExact ==
    \A k \in Kinds :
        Steady(k) => numInWorld[k] = Cardinality({d \in DOMAIN deposits : deposits[d].kind = k})

(***************************************************************************)
(* Nobody gathers more from a prize than the crumbs of its trail are       *)
(* worth, however he leaves the trail, comes back to it or lags behind.    *)
(***************************************************************************)
PrizeIsEarned ==
    \A pt \in DOMAIN gathered :
        gathered[pt] <= Prospecting.crumbs * Prospecting.contribution

(***************************************************************************)
(* A trail does not vanish under those who follow it, and once it has been *)
(* revealed its prize is locked for them.                                  *)
(***************************************************************************)
TrailsAreFollowed ==
    /\ \A p \in DOMAIN prospecting :
        /\ prospecting[p].trail \in DOMAIN trails
        /\ prospecting[p].step <= trails[prospecting[p].trail].active
    /\ \A t \in DOMAIN trails :
        trails[t].active = Prospecting.crumbs =>
            \A d \in trails[t].prizes : d \in DOMAIN locks /\ locks[d] = t

DepositsInOrder ==
    /\ DepositsTypeOK /\ WildStandApart /\ RewardIsDamage /\ CountIsExact
    /\ PrizeIsEarned /\ TrailsAreFollowed

=============================================================================
