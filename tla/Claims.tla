------------------------------- MODULE Claims -------------------------------
(***************************************************************************)
(* A claim: its owner, its members and their ranks, its supplies, its      *)
(* treasury and its research.  The building decay agent uses up supplies;  *)
(* when few are left, members may take the claim over, those of a higher   *)
(* rank sooner, and when none are left anybody may.  Research is ended by  *)
(* a scheduled call.                                                       *)
(*                                                                         *)
(* The rent of an interior of the claim is declared here, because a renter *)
(* may not leave; Rentals says what becomes of it.  Alerts, recruitment    *)
(* requirements and the other settings of a claim are left out.            *)
(***************************************************************************)
EXTENDS Integers, FiniteSets, SequencesExt, Rows

CONSTANTS
    Players,
    Nobody,           \* no owner: entity id 0
    MaxMembers,       \* of the claim's technology
    MaxSupplies,      \* of the claim's technology
    Maintenance,      \* supplies used at each tick
    TakeOverBelow,    \* TakeOverBelow[rank]: supplies from which that rank has to wait
    SecurityThreshold,\* supplies that research leaves
    Techs,            \* technologies beyond the first
    TechCost,         \* supplies a technology costs
    NoTech,           \* nothing is researched: tech 0
    KitValues,        \* supplies of a kit that a player may carry
    SupplyPrice,      \* coins the claim pays for one
    PurchaseBelow,    \* the claim buys until it has so many
    MaxAmount,        \* bound: amounts that are asked for
    MaxOpenings       \* bound: members that are sought

ASSUME ClaimsAssumption ==
    /\ IsFiniteSet(Players) /\ Nobody \notin Players
    /\ MaxMembers \in Nat /\ MaxSupplies \in Nat /\ Maintenance \in Nat
    /\ TakeOverBelow \in [0 .. 2 -> Nat]
    /\ NoTech \notin Techs
    /\ TechCost \in Nat /\ SecurityThreshold \in Nat
    /\ KitValues \subseteq Nat /\ SupplyPrice \in Nat /\ PurchaseBelow \in Nat

VARIABLES
    owner,         \* claim_state.owner_player_entity_id
    members,       \* claim_member_state: player -> rank
    supplies,      \* claim_local_state.supplies
    treasury,      \* claim_local_state.treasury
    learned,       \* claim_tech_state.learned
    researching,   \* claim_tech_state.researching
    techTimers,    \* claim_tech_unlock_timer
    coins,         \* the coins of each player
    openings,      \* claim_recruitment_state.remaining_stock
    rents          \* rent_state, of the interiors of the claim

memberVars == <<owner, members, openings>>
researchVars == <<learned, researching, techTimers>>
townVars == <<supplies, treasury, researchVars, coins, rents>>
claimVars == <<memberVars, townVars>>

Member == 0
Officer == 1
CoOwner == 2
Ranks == Member .. CoOwner   \* an officer_permission, a co_owner_permission besides

ClaimTypeOK ==
    /\ owner \in Players \cup {Nobody}
    /\ DOMAIN members \subseteq Players /\ members \in [DOMAIN members -> Ranks]
    /\ supplies \in 0 .. MaxSupplies
    /\ treasury \in Nat
    /\ learned \subseteq Techs
    /\ researching \in Techs \cup {NoTech}
    /\ techTimers \subseteq Techs
    /\ coins \in [Players -> Nat]
    /\ openings \in Nat

-----------------------------------------------------------------------------

(***************************************************************************)
(* Permissions                                                             *)
(***************************************************************************)
IsMember(p) == p \in DOMAIN members
HasRank(p, rank) == p = owner \/ (IsMember(p) /\ members[p] >= rank)
Score(p) == members[p] + (IF p = owner THEN 1 ELSE 0)

Rents(p) == \E r \in DOMAIN rents : rents[r].whiteList # <<>> /\ rents[r].whiteList[1] = p

Enlist(p, rank) == members' = With(members, p, rank)

-----------------------------------------------------------------------------

(***************************************************************************)
(* claim_add_member, by an officer                                         *)
(***************************************************************************)
Join(p) ==
    /\ ~IsMember(p)
    /\ Cardinality(DOMAIN members) < MaxMembers
    /\ Enlist(p, Member)

AddMember(actor, p) ==
    /\ HasRank(actor, Officer)
    /\ Join(p)
    /\ UNCHANGED <<owner, openings, townVars>>

(***************************************************************************)
(* claim_add_recruitment, claim_remove_recruitment, and                    *)
(* claim_apply_for_recruitment, by anybody while members are sought        *)
(***************************************************************************)
SetRecruitment(actor, n) ==
    /\ HasRank(actor, Officer)
    /\ openings' = n
    /\ UNCHANGED <<owner, members, townVars>>

ApplyForRecruitment(p) ==
    /\ openings > 0
    /\ openings' = openings - 1
    /\ Join(p)
    /\ UNCHANGED <<owner, townVars>>

RemoveMember(actor, p) ==
    /\ IsMember(actor) /\ IsMember(p)
    /\ Score(actor) > Score(p)
    /\ ~Rents(p)
    /\ members' = Without(members, p)
    /\ UNCHANGED <<owner, openings, townVars>>

SameOwner(p) == owner \* mutant of OwnerAfter
OwnerAfter(p) == IF p = owner THEN Nobody ELSE owner

AnyoneLeaves(p) == TRUE \* mutant of MayLeave
MayLeave(p) == ~Rents(p)

Leave(p) ==
    /\ IsMember(p)
    /\ MayLeave(p)
    /\ owner' = OwnerAfter(p)
    /\ members' = Without(members, p)
    /\ UNCHANGED <<openings, townVars>>

(***************************************************************************)
(* claim_set_member_permissions: to bestow a rank takes a higher one, and  *)
(* only those below the editor are edited.                                 *)
(***************************************************************************)
MayBestowOwn(actor, rank) == HasRank(actor, IF rank = Member THEN Officer ELSE rank) \* mutant of MayBestow
MayBestow(actor, rank) ==
    CASE rank = CoOwner -> actor = owner
      [] rank = Officer -> HasRank(actor, CoOwner)
      [] rank = Member -> HasRank(actor, Officer)

SetMemberPermissions(actor, p, rank) ==
    /\ p # owner
    /\ MayBestow(actor, rank)
    /\ IsMember(actor) /\ IsMember(p)
    /\ Score(actor) > Score(p)
    /\ members' = [members EXCEPT ![p] = rank]
    /\ UNCHANGED <<owner, openings, townVars>>

TransferOwnership(actor, p) ==
    /\ actor = owner
    /\ IsMember(p)
    /\ members' = [members EXCEPT ![p] = CoOwner]
    /\ owner' = p
    /\ UNCHANGED <<openings, townVars>>

(***************************************************************************)
(* claim_take_ownership: by anybody if there are no members or no supplies *)
(* (even beyond MaxMembers), by a member if the supplies are low for his   *)
(* rank.                                                                   *)
(***************************************************************************)
TakeOwnership(p) ==
    /\ \/ DOMAIN members = {}
       \/ supplies <= 0
       \/ IsMember(p) /\ supplies < TakeOverBelow[members[p]]
    /\ owner' = p
    /\ Enlist(p, CoOwner)
    /\ UNCHANGED <<openings, townVars>>

-----------------------------------------------------------------------------

(***************************************************************************)
(* update_supplies_and_commit                                              *)
(***************************************************************************)
Supplied(n) == IF n > 0 THEN Min({supplies + n, MaxSupplies}) ELSE Max({supplies + n, 0})

(***************************************************************************)
(* building_decay_agent_loop, for a claim that is not neutral              *)
(***************************************************************************)
Decay ==
    /\ supplies > 0
    /\ supplies' = Supplied(-Min({Maintenance, supplies}))
    /\ UNCHANGED <<memberVars, treasury, researchVars, coins, rents>>

(***************************************************************************)
(* claim_resupply: as many kits of a stack as are needed                   *)
(***************************************************************************)
Resupply(kit) ==
    /\ supplies < MaxSupplies
    /\ supplies' = Supplied(kit)
    /\ UNCHANGED <<memberVars, treasury, researchVars, coins, rents>>

(***************************************************************************)
(* claim_purchase_supplies_from_player: pays for what the claim wants to   *)
(* buy of the kit, if there is enough in the treasury, and takes all of it *)
(***************************************************************************)
PriceUncapped(paid) == paid * SupplyPrice \* mutant of AmountPaid
AmountPaid(paid) == Min({paid * SupplyPrice, treasury})

PurchaseSupplies(p, kit) ==
    LET value == Min({kit, MaxSupplies - supplies})
        amount == AmountPaid(Min({value, PurchaseBelow - supplies}))
    IN  /\ supplies < PurchaseBelow
        /\ treasury' = treasury - amount
        /\ supplies' = Supplied(value)
        /\ coins' = [coins EXCEPT ![p] = @ + amount]
        /\ UNCHANGED <<memberVars, researchVars, rents>>

Deposit(p, n) ==
    /\ HasRank(p, CoOwner)
    /\ coins[p] >= n
    /\ coins' = [coins EXCEPT ![p] = @ - n]
    /\ treasury' = treasury + n
    /\ UNCHANGED <<memberVars, supplies, researchVars, rents>>

Withdraw(p, n) ==
    /\ HasRank(p, CoOwner)
    /\ n <= treasury
    /\ coins' = [coins EXCEPT ![p] = @ + n]
    /\ treasury' = treasury - n
    /\ UNCHANGED <<memberVars, supplies, researchVars, rents>>

-----------------------------------------------------------------------------

(***************************************************************************)
(* claim_tech_learn, _cancel, and the scheduled claim_tech_unlock_tech,    *)
(* which learns the technology of the timer.                               *)
(***************************************************************************)
LearnTech(p, tech) ==
    /\ HasRank(p, CoOwner)
    /\ researching = NoTech
    /\ tech \notin learned
    /\ supplies - TechCost >= SecurityThreshold
    /\ supplies' = Supplied(-TechCost)
    /\ researching' = tech
    /\ techTimers' = techTimers \cup {tech}
    /\ UNCHANGED <<memberVars, treasury, learned, coins, rents>>

TimersKept == techTimers \* mutant of TimersAfterCancel
TimersAfterCancel == techTimers \ {researching}

CancelTech(p) ==
    /\ HasRank(p, CoOwner)
    /\ researching # NoTech
    /\ researching' = NoTech
    /\ techTimers' = TimersAfterCancel
    /\ UNCHANGED <<memberVars, supplies, treasury, learned, coins, rents>>

UnlockTech(tech) ==
    /\ tech \in techTimers
    /\ techTimers' = techTimers \ {tech}
    /\ IF researching = NoTech \/ tech \in learned
       THEN UNCHANGED <<learned, researching>>
       ELSE learned' = learned \cup {tech} /\ researching' = NoTech
    /\ UNCHANGED <<memberVars, supplies, treasury, coins, rents>>

-----------------------------------------------------------------------------

Membership(p) ==
    \/ ApplyForRecruitment(p) \/ Leave(p) \/ TakeOwnership(p)
    \/ \E n \in 0 .. MaxOpenings : SetRecruitment(p, n)
    \/ \E q \in Players : AddMember(p, q) \/ RemoveMember(p, q) \/ TransferOwnership(p, q)
    \/ \E q \in Players, rank \in Ranks : SetMemberPermissions(p, q, rank)

Funding(p) ==
    \/ \E kit \in KitValues : PurchaseSupplies(p, kit)
    \/ \E n \in 1 .. MaxAmount : Deposit(p, n) \/ Withdraw(p, n)

Research(p) == CancelTech(p) \/ \E tech \in Techs : LearnTech(p, tech) \/ UnlockTech(tech)

Supplying == Decay \/ \E kit \in KitValues : Resupply(kit)

-----------------------------------------------------------------------------

(***************************************************************************)
(* The owner is a member of the highest rank, so nobody else can remove or *)
(* demote him, whichever way he came to own the claim and others left.     *)
(***************************************************************************)
OwnerIsCoOwner == owner # Nobody => IsMember(owner) /\ members[owner] = CoOwner

(***************************************************************************)
(* Nobody rises above those who are there, but by taking over: there is an *)
(* owner who makes co-owners and a co-owner who makes officers.            *)
(***************************************************************************)
RanksAreBestowed ==
    [][\A p \in DOMAIN members \cap DOMAIN members' :
          (members'[p] > members[p] /\ p # owner')
              => \E q \in DOMAIN members : q # p /\ Score(q) > members'[p]]_claimVars

(***************************************************************************)
(* What is researched is what the only timer is about, so that a cancelled *)
(* research is never finished by the timer of another.                     *)
(***************************************************************************)
OneResearch == techTimers = {researching} \ {NoTech}

=============================================================================
