------------------------------- MODULE Empires -------------------------------
(***************************************************************************)
(* An empire is founded by the owner of a settlement, its capital.  Other  *)
(* settlements join and leave it; players join as citizens, rise by what   *)
(* they donate and by promotion, and its emperor may hand it on, dissolve  *)
(* it, or submit it to another, whose emperor has half a minute to accept. *)
(* Whoever owns the capital may take the throne.  The treasury pays for    *)
(* the foundry's capsules; a region takes its part of the price before it  *)
(* calls the global module, and gives it back when the call is refused.    *)
(* Destroying the capital ends the empire: the region that saw it tells    *)
(* the global module, where the capital may have moved in the meantime.    *)
(***************************************************************************)
EXTENDS Watchtowers, SequencesExt

CONSTANTS
    Players,
    Buildings,         \* totems of claims with the technology of an empire
    ChunkOf,           \* the chunk of each
    Foundries,         \* buildings that are foundries
    NoEmpire,
    ShardCost,         \* empire_shard_cost
    StartingShards,    \* empire_starting_shards
    DefaultThreshold,  \* empire_default_nobility_threshold
    CapsuleShards,     \* hexite_capsule_shard_cost
    CapsuleSupplies,   \* hexite_capsule_supply_cost
    CapitalCost,       \* of moving the capital: 1000 shards
    RankLimit,         \* RankLimit[chunks]: empire_territory_desc, for a rank below noble
    MaxRequests        \* bound: calls of the region about empires that are on their way

ASSUME EmpiresAssumption ==
    /\ ChunkOf \in [Buildings -> Chunks]
    /\ NoEmpire \notin Empires
    /\ ShardCost \in Nat /\ StartingShards \in Nat /\ DefaultThreshold \in Nat \ {0}
    /\ CapsuleShards \in Nat /\ CapsuleSupplies \in Nat /\ CapitalCost \in Nat
    /\ RankLimit \in [0 .. Cardinality(Chunks) -> Nat]
    /\ MaxRequests \in Nat

VARIABLES
    empires,           \* empire_state
    ranks,             \* empire_player_data_state
    promoters,         \* the ranks of an empire that may promote
    alignment,         \* empire_settlement_state: the empire of a settlement
    owners,            \* the owner of a settlement's claim
    purses,            \* player_shard_state
    votes,             \* player_vote_state that have no outcome
    foundries,         \* empire_foundry_state
    craftTimers,       \* empire_craft_supplies_timer, a bag of foundries
    supplies,          \* of the claim with the foundry
    requests           \* calls of the region, first to last

courtVars == <<empires, ranks, promoters, alignment, owners, purses, votes>>
foundryVars == <<foundries, craftTimers, supplies, requests>>
otherTowerVars == <<capsules, calls>>
empireVars == <<towerVars, courtVars, foundryVars>>

Emperor == 0
Noble == 8
Citizen == 9
Rank == [empire : Empires, rank : Emperor .. Citizen, donated : Nat, noble : BOOLEAN]
Empire == [capital : Buildings, treasury : Nat, threshold : Nat, claims : Nat]
Foundry == [empire : Empires, capsules : Nat, queued : Nat]

EmpireTypeOK ==
    /\ TowersTypeOK
    /\ DOMAIN empires \subseteq Empires
    /\ \A e \in DOMAIN empires : empires[e] \in Empire
    /\ DOMAIN ranks \subseteq Players
    /\ \A p \in DOMAIN ranks : ranks[p] \in Rank
    /\ DOMAIN alignment \subseteq Buildings
    /\ \A b \in DOMAIN alignment : alignment[b] \in Empires \cup {NoEmpire}
    /\ \A f \in DOMAIN foundries : foundries[f] \in Foundry
    /\ purses \in [Players -> Nat]

-----------------------------------------------------------------------------

IsMember(p) == p \in DOMAIN ranks
MembersOf(e) == {p \in DOMAIN ranks : ranks[p].empire = e}
EmperorsOf(e) == {p \in MembersOf(e) : ranks[p].rank = Emperor}
IsEmperor(p) == IsMember(p) /\ ranks[p].rank = Emperor
SettlementsOf(e) == {b \in DOMAIN alignment : alignment[b] = e}
CapitalOf(b) == {e \in DOMAIN empires : empires[e].capital = b}
NewMember(e, rank) == [empire |-> e, rank |-> rank, donated |-> 0, noble |-> FALSE]

(***************************************************************************)
(* The upkeep of towers depends on where the empire's settlements are.     *)
(***************************************************************************)
Settled(f, rows) ==
    [f EXCEPT !.settled = [e \in Empires |-> {ChunkOf[b] : b \in {x \in DOMAIN rows : rows[x] = e}}]]

-----------------------------------------------------------------------------
(* Founding, joining and leaving *)

EmpireForm(p, b, e) ==
    /\ ~IsMember(p)
    /\ owners[b] = p /\ CapitalOf(b) = {}
    /\ b \in DOMAIN alignment /\ alignment[b] = NoEmpire
    /\ e \notin DOMAIN empires /\ \A i \in DOMAIN requests : requests[i].what # e
    /\ purses[p] >= ShardCost
    /\ purses' = [purses EXCEPT ![p] = @ - ShardCost]
    /\ empires' = (e :> [capital |-> b, treasury |-> StartingShards,
                         threshold |-> DefaultThreshold, claims |-> 1]) @@ empires
    /\ ranks' = (p :> NewMember(e, Emperor)) @@ ranks
    /\ promoters' = [promoters EXCEPT ![e] = {Emperor}]
    /\ alignment' = [alignment EXCEPT ![b] = e]
    /\ front' = Crowned(UpdateUpkeep([Settled(front, alignment') EXCEPT !.capital[e] = ChunkOf[b]], e), {e})
    /\ UNCHANGED <<owners, votes, foundryVars, otherTowerVars>>

(***************************************************************************)
(* empire_player_join.  A member would leave his old empire first, by a    *)
(* shared function whose return closes the accumulators: the insertion     *)
(* that follows panics, and the member stays where he is.                  *)
(***************************************************************************)
PlayerJoin(p, e) ==
    /\ ~IsMember(p)
    /\ e \in DOMAIN empires
    /\ ranks' = (p :> NewMember(e, Citizen)) @@ ranks
    /\ UNCHANGED <<empires, promoters, alignment, owners, purses, votes, towerVars, foundryVars>>

PlayerLeave(p) ==
    /\ IsMember(p) /\ ~IsEmperor(p)
    /\ ranks' = Without(ranks, p)
    /\ UNCHANGED <<empires, promoters, alignment, owners, purses, votes, towerVars, foundryVars>>

(***************************************************************************)
(* empire_claim_join: the upkeep is not reckoned anew.                     *)
(***************************************************************************)
Joined(e) == [empires EXCEPT ![e].claims = @ + 1]

ClaimJoin(b, e) ==
    /\ e \in DOMAIN empires
    /\ b \in DOMAIN alignment /\ alignment[b] = NoEmpire
    /\ alignment' = [alignment EXCEPT ![b] = e]
    /\ empires' = Joined(e)
    /\ front' = Settled(front, alignment')
    /\ UNCHANGED <<ranks, promoters, owners, purses, votes, foundryVars, otherTowerVars>>

(***************************************************************************)
(* empire_leave, leave_empire: of a settlement without an empire, the      *)
(* reducer panics                                                          *)
(***************************************************************************)
ClaimLeave(p, b) ==
    /\ CapitalOf(b) = {}
    /\ owners[b] = p
    /\ b \in DOMAIN alignment /\ alignment[b] \in DOMAIN empires
    /\ alignment' = [alignment EXCEPT ![b] = NoEmpire]
    /\ empires' = [empires EXCEPT ![alignment[b]].claims = @ - 1]
    /\ front' = UpdateUpkeep(Settled(front, alignment'), alignment[b])
    /\ UNCHANGED <<ranks, promoters, owners, purses, votes, foundryVars, otherTowerVars>>

(***************************************************************************)
(* A claim changes hands; the empire does not care.                        *)
(***************************************************************************)
ClaimChangesHands(b, p) ==
    /\ owners' = [owners EXCEPT ![b] = p]
    /\ UNCHANGED <<empires, ranks, promoters, alignment, purses, votes, towerVars, foundryVars>>

-----------------------------------------------------------------------------
(* Ranks *)

(***************************************************************************)
(* empire_set_player_rank: a step between citizen and noble is refused,    *)
(* and who is demoted to one of them becomes what he is underneath.        *)
(***************************************************************************)
MayPromote(p, q, rank) ==
    /\ IsMember(p) /\ IsMember(q)
    /\ ranks[p].empire = ranks[q].empire
    /\ ranks[p].rank \in promoters[ranks[p].empire]
    /\ ranks[p].rank < rank /\ ranks[p].rank < ranks[q].rank
    /\ ranks[q].rank + rank # Noble + Citizen

WithinLimit(e, rank) ==
    rank < Noble =>
        Cardinality({p \in MembersOf(e) : ranks[p].rank = rank}) < RankLimit[Cardinality(Owned(front, e))]

Underneath(row) == IF row.noble THEN Noble ELSE Citizen

SetPlayerRank(p, q, rank) ==
    /\ rank > Emperor
    /\ MayPromote(p, q, rank)
    /\ WithinLimit(ranks[q].empire, rank)
    /\ ranks' = [ranks EXCEPT ![q].rank = IF rank < Noble THEN rank ELSE Underneath(ranks[q])]
    /\ UNCHANGED <<empires, promoters, alignment, owners, purses, votes, towerVars, foundryVars>>

UpdatePermissions(p, rank, allowed) ==
    /\ IsEmperor(p) /\ rank > Emperor
    /\ promoters' = [promoters EXCEPT ![ranks[p].empire] = IF allowed THEN @ \cup {rank} ELSE @ \ {rank}]
    /\ UNCHANGED <<empires, ranks, alignment, owners, purses, votes, towerVars, foundryVars>>

(***************************************************************************)
(* transfer_emperorship, to q and from whoever is emperor                  *)
(***************************************************************************)
CrownPassed(q) ==
    [p \in DOMAIN ranks |->
        IF p = q THEN [ranks[p] EXCEPT !.rank = Emperor]
        ELSE IF p \in EmperorsOf(ranks[q].empire) THEN [ranks[p] EXCEPT !.rank = Underneath(ranks[p])]
        ELSE ranks[p]]

TransferEmperorship(p, q) ==
    /\ p # q /\ IsEmperor(p)
    /\ q \in MembersOf(ranks[p].empire)
    /\ ranks' = CrownPassed(q)
    /\ front' = Crowned(front, {ranks[p].empire})
    /\ UNCHANGED <<empires, promoters, alignment, owners, purses, votes, foundryVars, otherTowerVars>>

TakeEmperorship(q) ==
    /\ IsMember(q) /\ ~IsEmperor(q)
    /\ owners[empires[ranks[q].empire].capital] = q
    /\ ranks' = CrownPassed(q)
    /\ front' = Crowned(front, {ranks[q].empire})
    /\ UNCHANGED <<empires, promoters, alignment, owners, purses, votes, foundryVars, otherTowerVars>>

(***************************************************************************)
(* empire_donate_shards: on whose behalf makes no difference; the donor's  *)
(* own row is read again.  A citizen who has given enough is a noble.      *)
(***************************************************************************)
Donated(row, n, threshold) ==
    LET enough == row.donated + n >= threshold /\ ~row.noble
    IN  [row EXCEPT !.donated = @ + n, !.noble = @ \/ enough,
                    !.rank = IF enough /\ @ = Citizen THEN Noble ELSE @]

DonateShards(p, n) ==
    /\ IsMember(p) /\ purses[p] >= n
    /\ purses' = [purses EXCEPT ![p] = @ - n]
    /\ LET e == ranks[p].empire
       IN  /\ empires' = [empires EXCEPT ![e].treasury = @ + n]
           /\ ranks' = [ranks EXCEPT ![p] = Donated(@, n, empires[e].threshold)]
    /\ UNCHANGED <<promoters, alignment, owners, votes, towerVars, foundryVars>>

SetNobilityThreshold(p, n) ==
    /\ IsEmperor(p)
    /\ empires' = [empires EXCEPT ![ranks[p].empire].threshold = n]
    /\ UNCHANGED <<ranks, promoters, alignment, owners, purses, votes, towerVars, foundryVars>>

-----------------------------------------------------------------------------
(* The end of an empire *)

EmpireSieges(f, e) == {s \in DOMAIN f.sieges : f.sieges[s].empire = e}

(***************************************************************************)
(* EmpireState::delete.  Sieges are given up one after the other; if the   *)
(* other side of one is missing, the reducer panics.                       *)
(***************************************************************************)
GivenUp(f, e) == FoldSet(LAMBDA s, g : CancelSiege(g, s), f, EmpireSieges(f, e))
MayGiveUp(f, e) == \A s \in EmpireSieges(f, e) : MayCancel(f, s)

Erased(f, e) ==
    LET towerless == DeleteTowers(f, {t \in DOMAIN f.nodes : f.nodes[t].empire = e})
    IN  [towerless EXCEPT !.influence = [c \in Chunks |-> [@[c] EXCEPT ![e] = 0]],
                          !.expansions = [c \in Chunks |-> @[c] \ {e}],
                          !.crown[e] = 0]

Unaligned(rows, e) == [b \in DOMAIN rows |-> IF rows[b] = e THEN NoEmpire ELSE rows[b]]
FoundriesWithout(e) == Restrict(foundries, {f \in DOMAIN foundries : foundries[f].empire # e})

DeleteEmpire(e) ==
    /\ MayGiveUp(front, e)
    /\ alignment' = Unaligned(alignment, e)
    /\ front' = Settled(Erased(GivenUp(front, e), e), alignment')
    /\ empires' = Without(empires, e)
    /\ ranks' = Restrict(ranks, DOMAIN ranks \ MembersOf(e))
    /\ foundries' = FoundriesWithout(e)
    /\ UNCHANGED <<promoters, owners, purses, votes, craftTimers, supplies, otherTowerVars>>

EmpireDismantle(p) ==
    /\ IsEmperor(p)
    /\ DeleteEmpire(ranks[p].empire)
    /\ UNCHANGED requests

(***************************************************************************)
(* empire_submit asks the emperor of another empire.  The vote names the   *)
(* capital and the two players; what they are when it is answered is what  *)
(* counts.  It ends by a no of either or after its time.                   *)
(***************************************************************************)
Submit(p, q) ==
    /\ IsEmperor(p) /\ IsEmperor(q) /\ p # q
    /\ votes' = votes \cup {[by |-> p, to |-> q, capital |-> empires[ranks[p].empire].capital]}
    /\ UNCHANGED <<empires, ranks, promoters, alignment, owners, purses, towerVars, foundryVars>>

VoteEnds(v) ==
    /\ votes' = votes \ {v}
    /\ UNCHANGED <<empires, ranks, promoters, alignment, owners, purses, towerVars, foundryVars>>

(***************************************************************************)
(* merge_into, the rows of e become n's.  The towers change first, so that *)
(* in a siege that e defends the attacker is looked for among those that   *)
(* are not n's, and the defender among n's: against a third empire there   *)
(* is none, and the reducer panics.  What e does elsewhere is given up.    *)
(***************************************************************************)
Realigned(f, e, n) ==
    [f EXCEPT !.nodes = [t \in DOMAIN @ |->
                  IF @[t].empire = e THEN [@[t] EXCEPT !.empire = n] ELSE @[t]],
              !.influence = [c \in Chunks |->
                  [@[c] EXCEPT ![n] = @ + f.influence[c][e], ![e] = IF e = n THEN @ ELSE 0]]]

MayMergeSiege(f, s, n) ==
    f.sieges[s].active =>
        Attackers(f, f.sieges[s].tower) # {} /\ Defenders(f, f.sieges[s].tower) # {}

GivenOver(f, s) ==
    LET t == f.sieges[s].tower
        attack == f.sieges[CHOOSE a \in Attackers(f, t) : TRUE]
    IN  EndSiege(f, [attack EXCEPT !.energy = @ + f.sieges[s].energy],
                 [f.sieges[s] EXCEPT !.energy = 0], f.nodes[t])

MergedSiege(f, s, e, n) ==
    IF f.sieges[s].active /\ e = n /\ s \in Defenders(f, f.sieges[s].tower)
    THEN GivenOver(f, s)
    ELSE CancelSiege(f, s)

MergedSieges(f, e, n) ==
    FoldSet(LAMBDA s, g : MergedSiege(g, s, e, n), f, EmpireSieges(f, e))

MergedRanks(e, n) ==
    [p \in DOMAIN ranks |->
        IF ranks[p].empire = e THEN [ranks[p] EXCEPT !.empire = n, !.rank = Citizen] ELSE ranks[p]]

MergedEmpires(e, n) ==
    [empires EXCEPT ![n].treasury = @ + empires[e].treasury,
                    ![n].claims = @ + Cardinality(SettlementsOf(e))]

RealignedAll(e, n) == [b \in DOMAIN alignment |-> IF alignment[b] = e THEN n ELSE alignment[b]]

MergeInto(e, n) ==
    LET moved == Realigned(front, e, n)
        merged == MergedSieges(moved, e, n)
        left == IF e = n THEN MembersOf(e) ELSE {}
    IN  /\ \A s \in EmpireSieges(front, e) : MayMergeSiege(moved, s, n)
        /\ MayGiveUp(merged, e)
        /\ alignment' = IF e = n THEN Unaligned(alignment, e) ELSE RealignedAll(e, n)
        /\ front' = Settled(Erased(GivenUp(merged, e), e), alignment')
        /\ empires' = Without(MergedEmpires(e, n), e)
        /\ ranks' = Restrict(MergedRanks(e, n), DOMAIN ranks \ left)
        /\ foundries' = FoundriesWithout(e)

Accept(v) ==
    /\ votes' = votes \ {v}
    /\ IF CapitalOf(v.capital) # {} /\ IsMember(v.to)
       THEN \E e \in CapitalOf(v.capital) : MergeInto(e, ranks[v.to].empire)
       ELSE UNCHANGED <<alignment, front, empires, ranks, foundries>>
    /\ UNCHANGED <<promoters, owners, purses, craftTimers, supplies, requests, otherTowerVars>>

-----------------------------------------------------------------------------
(* The capital *)

(***************************************************************************)
(* empire_move_capital: the location of the empire, which the upkeep is    *)
(* reckoned from, stays that of the first capital.                         *)
(***************************************************************************)
MoveCapital(p, b) ==
    /\ IsEmperor(p) /\ owners[b] = p
    /\ LET e == ranks[p].empire
       IN  /\ b \in SettlementsOf(e) /\ b # empires[e].capital
           /\ empires[e].treasury >= CapitalCost
           /\ empires' = [empires EXCEPT ![e].treasury = @ - CapitalCost, ![e].capital = b]
           /\ foundries' = FoundriesWithout(e)
           /\ front' = UpdateUpkeep(front, e)
    /\ UNCHANGED <<ranks, promoters, alignment, owners, purses, votes, craftTimers, supplies, requests,
                   otherTowerVars>>

Request(kind, what) ==
    /\ Len(requests) < MaxRequests
    /\ requests' = Append(requests, [kind |-> kind, what |-> what])

(***************************************************************************)
(* delete_building of a totem, at its region: the empire whose capital it  *)
(* is there, and the settlement, in two messages                           *)
(***************************************************************************)
TotemDestroyed(b) ==
    /\ b \in DOMAIN alignment
    /\ Len(requests) + 2 <= MaxRequests
    /\ requests' = requests
           \o SetToSeq({[kind |-> "end empire", what |-> e] : e \in CapitalOf(b)})
           \o <<[kind |-> "end settlement", what |-> b]>>
    /\ UNCHANGED <<courtVars, towerVars, foundries, craftTimers, supplies>>

(***************************************************************************)
(* delete_empire: whether it is still that of the capital is not asked.    *)
(***************************************************************************)
EndEmpire ==
    LET e == Head(requests).what
    IN  /\ requests # <<>> /\ Head(requests).kind = "end empire"
        /\ requests' = Tail(requests)
        /\ IF e \in DOMAIN empires /\ MayGiveUp(front, e) THEN DeleteEmpire(e)
           ELSE UNCHANGED <<courtVars, towerVars, foundries, craftTimers, supplies>>

(***************************************************************************)
(* delete_empire_building: the empire's count of claims stays.             *)
(***************************************************************************)
EndSettlement ==
    /\ requests # <<>> /\ Head(requests).kind = "end settlement"
    /\ requests' = Tail(requests)
    /\ alignment' = Restrict(alignment, DOMAIN alignment \ {Head(requests).what})
    /\ front' = Settled(front, alignment')
    /\ UNCHANGED <<empires, ranks, promoters, owners, purses, votes, foundries, craftTimers, supplies,
                   otherTowerVars>>

-----------------------------------------------------------------------------
(* The foundry *)

(***************************************************************************)
(* empire_create_building, for a player whose rank allows it               *)
(***************************************************************************)
CreateFoundry(p, f, shards) ==
    /\ IsMember(p) /\ f \notin DOMAIN foundries /\ craftTimers[f] = 0
    /\ empires[ranks[p].empire].treasury >= shards
    /\ empires' = [empires EXCEPT ![ranks[p].empire].treasury = @ - shards]
    /\ foundries' = (f :> [empire |-> ranks[p].empire, capsules |-> 0, queued |-> 0]) @@ foundries
    /\ UNCHANGED <<ranks, promoters, alignment, owners, purses, votes, towerVars,
                   craftTimers, supplies, requests>>

(***************************************************************************)
(* empire_queue_supplies at the region takes the supplies of the capital   *)
(***************************************************************************)
QueueSupplies(f, b) ==
    /\ supplies >= CapsuleSupplies
    /\ \E e \in CapitalOf(b) : empires[e].treasury >= CapsuleShards
    /\ supplies' = supplies - CapsuleSupplies
    /\ Request("queue", <<f, b>>)
    /\ UNCHANGED <<courtVars, towerVars, foundries, craftTimers>>

QueuedAlways(f) == craftTimers' = [craftTimers EXCEPT ![f] = @ + 1] \* mutant of QueueTimer
QueueTimer(f) == craftTimers' = IF foundries[f].queued = 0 THEN [craftTimers EXCEPT ![f] = @ + 1]
                                ELSE craftTimers

Refund == supplies' = supplies + CapsuleSupplies

Queued ==
    LET f == Head(requests).what[1]
        payers == {e \in CapitalOf(Head(requests).what[2]) : empires[e].treasury >= CapsuleShards}
    IN  /\ requests # <<>> /\ Head(requests).kind = "queue"
        /\ requests' = Tail(requests)
        /\ IF payers # {} /\ f \in DOMAIN foundries
           THEN /\ empires' = [e \in DOMAIN empires |->
                       IF e \in payers THEN [empires[e] EXCEPT !.treasury = @ - CapsuleShards] ELSE empires[e]]
                /\ foundries' = [foundries EXCEPT ![f].queued = @ + 1]
                /\ QueueTimer(f)
                /\ UNCHANGED supplies
           ELSE Refund /\ UNCHANGED <<empires, foundries, craftTimers>>
        /\ UNCHANGED <<ranks, promoters, alignment, owners, purses, votes, towerVars>>

(***************************************************************************)
(* empire_craft_supplies; the timer of a foundry that is gone does nothing *)
(***************************************************************************)
CraftSupplies(f) ==
    /\ craftTimers[f] > 0
    /\ IF f \in DOMAIN foundries
       THEN /\ foundries' = [foundries EXCEPT ![f].queued = @ - 1, ![f].capsules = @ + 1]
            /\ craftTimers' = IF foundries[f].queued > 1 THEN craftTimers
                              ELSE [craftTimers EXCEPT ![f] = @ - 1]
       ELSE craftTimers' = [craftTimers EXCEPT ![f] = @ - 1] /\ UNCHANGED foundries
    /\ UNCHANGED <<courtVars, towerVars, supplies, requests>>

(***************************************************************************)
(* empire_collect_hexite_capsule: the region hands out the capsule when    *)
(* the global module has said yes.                                         *)
(***************************************************************************)
CollectCapsule(p, f) ==
    /\ IsMember(p)
    /\ f \in DOMAIN foundries
    /\ Request("collect", <<f, ranks[p].empire>>)
    /\ UNCHANGED <<courtVars, towerVars, foundries, craftTimers, supplies>>

Collected ==
    LET f == Head(requests).what[1]
    IN  /\ requests # <<>> /\ Head(requests).kind = "collect"
        /\ requests' = Tail(requests)
        /\ IF f \in DOMAIN foundries /\ foundries[f].capsules > 0
           THEN /\ foundries' = [foundries EXCEPT ![f].capsules = @ - 1]
                /\ capsules' = [capsules EXCEPT ![Head(requests).what[2]] = @ + 1]
           ELSE UNCHANGED <<foundries, capsules>>
        /\ UNCHANGED <<courtVars, front, calls, craftTimers, supplies>>

-----------------------------------------------------------------------------

CapitalNext ==
    \/ \E p \in Players : TakeEmperorship(p) \/ EmpireDismantle(p)
    \/ \E b \in Buildings : TotemDestroyed(b)
    \/ EndEmpire \/ EndSettlement

CourtNext ==
    \/ \E p \in Players, b \in Buildings, e \in Empires : EmpireForm(p, b, e)
    \/ \E p \in Players, e \in Empires : PlayerJoin(p, e)
    \/ \E p \in Players : PlayerLeave(p)
    \/ \E b \in Buildings, e \in Empires : ClaimJoin(b, e)
    \/ \E p \in Players, b \in Buildings :
           ClaimChangesHands(b, p) \/ ClaimLeave(p, b) \/ MoveCapital(p, b)
    \/ \E p, q \in Players :
           TransferEmperorship(p, q) \/ \E rank \in {1, Noble, Citizen} : SetPlayerRank(p, q, rank)
    \/ \E p \in Players, allowed \in BOOLEAN : UpdatePermissions(p, 1, allowed)
    \/ \E p \in Players, n \in 1 .. 2 : DonateShards(p, n) \/ SetNobilityThreshold(p, n)
    \/ CapitalNext

(***************************************************************************)
(* Two empires with towers, while one submits to the other                 *)
(***************************************************************************)
WarOf(e, t) == MarkForSiege(e, t) \/ UnmarkForSiege(e, t) \/ DeploySiegeEngine(e, t)

SubmissionNext ==
    \/ \E p, q \in Players : Submit(p, q)
    \/ \E v \in votes : Accept(v) \/ VoteEnds(v)
    \/ CapitalNext
    \/ /\ (\E e \in DOMAIN empires, t \in Towers : WarOf(e, t)) \/ Answer \/ SiegeTick
       /\ UNCHANGED <<courtVars, foundryVars>>

FoundryNext ==
    \/ \E p \in Players, f \in Foundries, shards \in 0 .. 1 : CreateFoundry(p, f, shards)
    \/ \E f \in Foundries, b \in Buildings : QueueSupplies(f, b)
    \/ \E f \in Foundries : CraftSupplies(f)
    \/ \E p \in Players, f \in Foundries : CollectCapsule(p, f)
    \/ Queued \/ Collected

-----------------------------------------------------------------------------

(***************************************************************************)
(* An empire has one emperor, and whoever and whatever is of an empire is  *)
(* of one that exists, however it was founded, merged or destroyed.        *)
(***************************************************************************)
OneEmperor == \A e \in DOMAIN empires : Cardinality(EmperorsOf(e)) = 1

NoneOfGoneEmpires ==
    LET There(e) == e \in DOMAIN empires
    IN  /\ \A p \in DOMAIN ranks : There(ranks[p].empire)
        /\ \A b \in DOMAIN alignment : There(alignment[b]) \/ alignment[b] = NoEmpire
        /\ \A t \in DOMAIN front.nodes : There(front.nodes[t].empire)
        /\ \A s \in DOMAIN front.sieges : There(front.sieges[s].empire)
        /\ \A c \in Chunks : Stamped(front, c) \subseteq DOMAIN empires
        /\ \A f \in DOMAIN foundries : There(foundries[f].empire)

(***************************************************************************)
(* A capital that still stands is aligned with its empire, and an empire   *)
(* counts no fewer claims than it has.  (It may count ones that were       *)
(* destroyed.)                                                             *)
(***************************************************************************)
CapitalIsAligned ==
    \A e \in DOMAIN empires :
        /\ empires[e].capital \in DOMAIN alignment => alignment[empires[e].capital] = e
        /\ empires[e].claims >= Cardinality(SettlementsOf(e))

(***************************************************************************)
(* Nobles have been made so; a citizen who is noble underneath has come    *)
(* with an empire that submitted.                                          *)
(***************************************************************************)
NoblesAreNoble == \A p \in DOMAIN ranks : ranks[p].rank = Noble => ranks[p].noble

(***************************************************************************)
(* A foundry that has work has one timer, and one that has none has none.  *)
(***************************************************************************)
FoundryWorks ==
    \A f \in DOMAIN foundries : craftTimers[f] = IF foundries[f].queued > 0 THEN 1 ELSE 0

(***************************************************************************)
(* The supplies there are, on a call to the foundry, in work, or made into *)
(* capsules there and carried                                              *)
(***************************************************************************)
Hexite ==
    LET onTheWay == Cardinality({i \in DOMAIN requests : requests[i].kind = "queue"})
        InFoundry(f, n) == n + foundries[f].queued + foundries[f].capsules
        Carried(e, n) == n + capsules[e]
    IN  supplies + CapsuleSupplies
            * FoldSet(Carried, FoldSet(InFoundry, onTheWay, DOMAIN foundries), Empires)

=============================================================================
