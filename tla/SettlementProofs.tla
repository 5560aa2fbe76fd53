-------------------------- MODULE SettlementProofs --------------------------
(***************************************************************************)
(* Proofs about a settlement for every number of players, interiors,       *)
(* technologies, shops, ruins and orders.                                  *)
(***************************************************************************)
EXTENDS MCSettlement, FiniteSetTheorems, SequenceTheorems, TLAPS

-----------------------------------------------------------------------------
(***************************************************************************)
(* The smaller and the larger of two numbers.                              *)
(***************************************************************************)
LEMMA MinOfTwo ==
    ASSUME NEW a \in Int, NEW b \in Int
    PROVE  Min({a, b}) = IF a <= b THEN a ELSE b
<1> DEFINE m == IF a <= b THEN a ELSE b
<1>1. m \in {a, b} /\ \A y \in {a, b} : m <= y
  OBVIOUS
<1>2. \A n \in {a, b} : (\A y \in {a, b} : n <= y) => n = m
  OBVIOUS
<1> QED BY <1>1, <1>2 DEF Min

LEMMA MaxOfTwo ==
    ASSUME NEW a \in Int, NEW b \in Int
    PROVE  Max({a, b}) = IF a >= b THEN a ELSE b
<1> DEFINE m == IF a >= b THEN a ELSE b
<1>1. m \in {a, b} /\ \A y \in {a, b} : m >= y
  OBVIOUS
<1>2. \A n \in {a, b} : (\A y \in {a, b} : n >= y) => n = m
  OBVIOUS
<1> QED BY <1>1, <1>2 DEF Max

LEMMA Products ==
    ASSUME NEW a \in Nat, NEW b \in Nat
    PROVE  a * b \in Nat
OBVIOUS

-----------------------------------------------------------------------------
(***************************************************************************)
(* Sums, by the lemmas about folds that add                                *)
(***************************************************************************)
Plus(a, b) == a + b
Picked(s) == CHOOSE x \in s : TRUE

Sums == INSTANCE FoldLemmas WITH Op <- Plus, Chosen <- Picked

LEMMA PickedIsMember == ASSUME NEW s, s # {} PROVE Picked(s) \in s
BY DEF Picked

LEMMA SameFinite == \A S : Sums!IsFiniteSet(S) <=> IsFiniteSet(S)
BY DEF IsFiniteSet, Sums!IsFiniteSet

LEMMA SumIsFold ==
    ASSUME NEW f, NEW T
    PROVE  SumFunctionOnSet(f, T) = Sums!Folding(0, f, T)
BY DEF SumFunctionOnSet, FoldFunctionOnSet, MapThenFoldSet, Sums!Folding, Sums!Recursion,
   Plus, Picked

LEMMA PlusSums == Sums!Summing
BY PickedIsMember DEF Sums!Summing, Plus

LEMMA SumOfNone == ASSUME NEW f PROVE SumFunctionOnSet(f, {}) = 0
BY SumIsFold, SameFinite, PlusSums, Sums!SumOfNone DEF Sums!Sum

LEMMA SumIsInteger ==
    ASSUME NEW f, NEW T, IsFiniteSet(T), \A x \in T : f[x] \in Int
    PROVE  SumFunctionOnSet(f, T) \in Int
BY SumIsFold, SameFinite, PlusSums, Sums!SumIsInteger DEF Sums!Sum

LEMMA SumWithout ==
    ASSUME NEW f, NEW T, IsFiniteSet(T), \A x \in T : f[x] \in Int, NEW x \in T
    PROVE  SumFunctionOnSet(f, T) = f[x] + SumFunctionOnSet(f, T \ {x})
BY SumIsFold, SameFinite, PlusSums, Sums!SumWithout DEF Sums!Sum

LEMMA SumIsNatural ==
    ASSUME NEW f, NEW T, IsFiniteSet(T), \A x \in T : f[x] \in Nat
    PROVE  SumFunctionOnSet(f, T) \in Nat
BY SumIsFold, SameFinite, PlusSums, Sums!SumIsNatural DEF Sums!Sum

LEMMA SumReduced ==
    ASSUME NEW f, NEW g, NEW h, NEW T, IsFiniteSet(T), NEW U \in SUBSET T,
           \A x \in T : f[x] \in Int /\ g[x] \in Int,
           \A x \in U : h[x] = f[x] - g[x],
           \A x \in T \ U : h[x] = f[x]
    PROVE  SumFunctionOnSet(h, T) = SumFunctionOnSet(f, T) - SumFunctionOnSet(g, U)
BY SumIsFold, SameFinite, PlusSums, Sums!SumReduced DEF Sums!Sum

LEMMA SumDependsOnTerms ==
    ASSUME NEW f, NEW h, NEW T, IsFiniteSet(T),
           \A x \in T : f[x] \in Int /\ h[x] = f[x]
    PROVE  SumFunctionOnSet(h, T) = SumFunctionOnSet(f, T)
BY SumIsFold, SameFinite, PlusSums, Sums!SumDependsOnTerms DEF Sums!Sum

LEMMA SumUpdated ==
    ASSUME NEW f, NEW h, NEW T, IsFiniteSet(T), NEW x \in T,
           \A y \in T : f[y] \in Int /\ h[y] \in Int,
           \A y \in T \ {x} : h[y] = f[y]
    PROVE  /\ SumFunctionOnSet(f, T) \in Int
           /\ SumFunctionOnSet(h, T) = SumFunctionOnSet(f, T) - f[x] + h[x]
BY SumIsFold, SameFinite, PlusSums, Sums!SumUpdated DEF Sums!Sum

-----------------------------------------------------------------------------
(***************************************************************************)
(* The claim                                                               *)
(***************************************************************************)
RatesAreKnown == \A r \in RentIds : rents[r].dailyRent <= MaxRate

TownInv ==
    /\ ClaimTypeOK /\ RentTypeOK /\ RatesAreKnown
    /\ OwnerIsCoOwner /\ RenterIsMember /\ OneResearch
    /\ researching \notin learned

(***************************************************************************)
(* Membership                                                              *)
(***************************************************************************)
LEMMA EnlistedAreMembers ==
    ASSUME NEW p, NEW rank, Enlist(p, rank)
    PROVE  /\ DOMAIN members' = DOMAIN members \cup {p}
           /\ members'[p] = rank
           /\ \A q \in DOMAIN members \ {p} : members'[q] = members[q]
           /\ members' = [q \in DOMAIN members' |-> members'[q]]
BY DEF Enlist, With

LEMMA MembershipKeepsInv ==
    ASSUME TownInv, NEW p \in Players, Membership(p), evictTimers' = evictTimers
    PROVE  TownInv'
<1> DEFINE Kept ==
        /\ owner' \in Players \cup {Nobody}
        /\ DOMAIN members' \subseteq Players
        /\ members' = [q \in DOMAIN members' |-> members'[q]]
        /\ \A q \in DOMAIN members' : members'[q] \in Ranks
        /\ openings' \in Nat
        /\ owner' # Nobody => owner' \in DOMAIN members' /\ members'[owner'] = CoOwner
        /\ \A r \in RentIds : rents[r].whiteList # <<>>
              => rents[r].whiteList[1] \in DOMAIN members'
<1>1. /\ owner \in Players \cup {Nobody} /\ Nobody \notin Players
      /\ DOMAIN members \subseteq Players /\ members \in [DOMAIN members -> Ranks]
      /\ openings \in Nat
      /\ owner # Nobody => owner \in DOMAIN members /\ members[owner] = CoOwner
      /\ \A r \in RentIds : rents[r].whiteList # <<>> => rents[r].whiteList[1] \in DOMAIN members
      /\ DOMAIN rents = RentIds
  BY ClaimsAssumption DEF TownInv, ClaimTypeOK, RentTypeOK, OwnerIsCoOwner, RenterIsMember,
     IsMember
<1>0. Ranks = 0 .. 2 /\ Member = 0 /\ Officer = 1 /\ CoOwner = 2
  BY DEF Ranks, Member, Officer, CoOwner
<1>2. ASSUME Kept PROVE TownInv'
  <2>0. UNCHANGED townVars
    BY Zenon DEF Membership, ApplyForRecruitment, Leave, TakeOwnership, SetRecruitment,
           AddMember, RemoveMember, TransferOwnership, SetMemberPermissions
  <2>1. supplies' = supplies /\ treasury' = treasury /\ learned' = learned
        /\ researching' = researching /\ techTimers' = techTimers /\ coins' = coins
        /\ rents' = rents
    BY <2>0 DEF townVars, researchVars
  <2>2. members' \in [DOMAIN members' -> Ranks]
    BY <1>2
  <2> QED BY <1>2, <2>1, <2>2 DEF TownInv, ClaimTypeOK, RentTypeOK, RatesAreKnown, OneResearch,
             OwnerIsCoOwner, RenterIsMember, IsMember
<1>3. ASSUME NEW q \in Players, Join(q), owner' = owner, openings' \in Nat
      PROVE  Kept
  <2>1. q \notin DOMAIN members /\ Enlist(q, Member) /\ Member \in Ranks
    BY <1>0, <1>3 DEF Join, IsMember
  <2>2. /\ DOMAIN members' = DOMAIN members \cup {q}
        /\ members'[q] = Member
        /\ \A z \in DOMAIN members \ {q} : members'[z] = members[z]
        /\ members' = [z \in DOMAIN members' |-> members'[z]]
    BY <2>1, EnlistedAreMembers, Zenon
  <2> QED BY <1>1, <1>3, <2>1, <2>2
<1>4. ASSUME NEW q \in Players, q # owner, ~Rents(q), owner' = owner, openings' = openings,
             members' = Without(members, q)
      PROVE  Kept
  BY <1>1, <1>4 DEF Without, Rents
<1>5. ASSUME NEW q \in Players, NEW rank \in Ranks, Enlist(q, rank), openings' = openings,
             (owner' = owner /\ q # owner) \/ (owner' = q /\ rank = CoOwner)
      PROVE  Kept
  <2>1. /\ DOMAIN members' = DOMAIN members \cup {q}
        /\ members'[q] = rank
        /\ \A z \in DOMAIN members \ {q} : members'[z] = members[z]
        /\ members' = [z \in DOMAIN members' |-> members'[z]]
    BY <1>5, EnlistedAreMembers, Zenon
  <2> QED BY <1>1, <1>5, <2>1
<1>6. ASSUME NEW q \in DOMAIN members, NEW rank \in Ranks
      PROVE  Enlist(q, rank) <=> members' = [members EXCEPT ![q] = rank]
  <2>1. With(members, q, rank) = [members EXCEPT ![q] = rank]
    BY <1>6 DEF With
  <2> QED BY <2>1 DEF Enlist
<1>7. CASE ApplyForRecruitment(p)
  BY <1>1, <1>2, <1>3, <1>7 DEF ApplyForRecruitment
<1>8. CASE Leave(p)
  <2>1. ~Rents(p) /\ members' = Without(members, p) /\ openings' = openings
        /\ owner' = IF p = owner THEN Nobody ELSE owner
    BY <1>8 DEF Leave, MayLeave, OwnerAfter
  <2>2. Kept
    BY <1>1, <2>1 DEF Without, Rents
  <2> QED BY <1>2, <2>2
<1>9. CASE TakeOwnership(p)
  BY <1>0, <1>1, <1>2, <1>5, <1>9 DEF TakeOwnership
<1>10. CASE \E n \in 0 .. MaxOpenings : SetRecruitment(p, n)
  BY <1>1, <1>2, <1>10 DEF SetRecruitment
<1>11. ASSUME NEW q \in Players, AddMember(p, q) PROVE TownInv'
  BY <1>1, <1>2, <1>3, <1>11 DEF AddMember
<1>12. ASSUME NEW q \in Players, RemoveMember(p, q) PROVE TownInv'
  <2>1. q # owner
    BY <1>0, <1>1, <1>12 DEF RemoveMember, Score, IsMember
  <2> QED BY <1>2, <1>4, <1>12, <2>1 DEF RemoveMember
<1>13. ASSUME NEW q \in Players, TransferOwnership(p, q) PROVE TownInv'
  <2>1. Enlist(q, CoOwner) /\ owner' = q /\ openings' = openings
    BY <1>0, <1>1, <1>6, <1>13 DEF TransferOwnership, IsMember
  <2> QED BY <1>0, <1>1, <1>2, <1>5, <2>1
<1>14. ASSUME NEW q \in Players, NEW rank \in Ranks, SetMemberPermissions(p, q, rank)
       PROVE  TownInv'
  <2>1. Enlist(q, rank) /\ q # owner /\ owner' = owner /\ openings' = openings
    BY <1>6, <1>14 DEF SetMemberPermissions, IsMember
  <2>2. /\ DOMAIN members' = DOMAIN members \cup {q}
        /\ members'[q] = rank
        /\ \A z \in DOMAIN members \ {q} : members'[z] = members[z]
        /\ members' = [z \in DOMAIN members' |-> members'[z]]
    BY <2>1, EnlistedAreMembers, Zenon
  <2>3. Kept
    BY <1>1, <2>1, <2>2
  <2> QED BY <1>2, <2>3
<1> QED
  BY <1>7, <1>8, <1>9, <1>10, <1>11, <1>12, <1>13, <1>14 DEF Membership

(***************************************************************************)
(* Supplies, treasury and research                                         *)
(***************************************************************************)
RentsInv == RentTypeOK /\ RatesAreKnown /\ RenterIsMember

LEMMA TownOfParts ==
    ASSUME TownInv, owner' = owner, members' = members, openings' = openings,
           supplies' \in 0 .. MaxSupplies, treasury' \in Nat, coins' \in [Players -> Nat],
           learned' \subseteq Techs, researching' \in (Techs \cup {NoTech}) \ learned', OneResearch',
           RentsInv'
    PROVE  TownInv'
<1>1. techTimers' \subseteq Techs
  BY DEF OneResearch
<1>2. ClaimTypeOK'
  BY <1>1 DEF TownInv, ClaimTypeOK
<1>3. OwnerIsCoOwner'
  BY DEF TownInv, OwnerIsCoOwner, IsMember
<1> QED BY <1>2, <1>3 DEF TownInv, RentsInv

LEMMA RentsStay ==
    ASSUME TownInv, members' = members, rents' = rents, evictTimers' = evictTimers
    PROVE  RentsInv'
BY DEF TownInv, RentsInv, RentTypeOK, RatesAreKnown, RenterIsMember, IsMember

LEMMA SuppliesAreLimited ==
    ASSUME TownInv, NEW n \in Int
    PROVE  Supplied(n) \in 0 .. MaxSupplies
<1>1. supplies \in 0 .. MaxSupplies /\ MaxSupplies \in Nat
  BY ClaimsAssumption DEF TownInv, ClaimTypeOK
<1>2. CASE n > 0
  <2>1. Min({supplies + n, MaxSupplies})
           = IF supplies + n <= MaxSupplies THEN supplies + n ELSE MaxSupplies
    BY <1>1, MinOfTwo
  <2> QED BY <1>1, <1>2, <2>1 DEF Supplied
<1>3. CASE ~(n > 0)
  <2>1. Max({supplies + n, 0}) = IF supplies + n >= 0 THEN supplies + n ELSE 0
    BY <1>1, MaxOfTwo
  <2> QED BY <1>1, <1>3, <2>1 DEF Supplied
<1> QED BY <1>2, <1>3

LEMMA SupplyingKeepsInv ==
    ASSUME TownInv, Supplying, evictTimers' = evictTimers
    PROVE  TownInv'
<1>1. PICK n \in Int : supplies' = Supplied(n)
  <2>1. CASE Decay
    <3>1. supplies \in Int /\ Maintenance \in Int
      BY ClaimsAssumption DEF TownInv, ClaimTypeOK
    <3>2. Min({Maintenance, supplies}) \in Int
      BY <3>1, MinOfTwo
    <3> QED BY <2>1, <3>2 DEF Decay
  <2>2. CASE \E kit \in KitValues : Resupply(kit)
    BY <2>2, ClaimsAssumption DEF Resupply
  <2> QED BY <2>1, <2>2 DEF Supplying
<1>2. /\ owner' = owner /\ members' = members /\ openings' = openings
      /\ treasury' = treasury /\ coins' = coins /\ learned' = learned
      /\ researching' = researching /\ techTimers' = techTimers /\ rents' = rents
  BY DEF Supplying, Decay, Resupply, memberVars, researchVars
<1>3. supplies' \in 0 .. MaxSupplies
  BY <1>1, SuppliesAreLimited
<1>4. RentsInv'
  BY <1>2, RentsStay
<1> QED
  BY <1>2, <1>3, <1>4, TownOfParts DEF TownInv, ClaimTypeOK, OneResearch

LEMMA FundingKeepsInv ==
    ASSUME TownInv, NEW p \in Players, Funding(p), evictTimers' = evictTimers
    PROVE  TownInv'
<1>1. /\ owner' = owner /\ members' = members /\ openings' = openings /\ learned' = learned
      /\ researching' = researching /\ techTimers' = techTimers /\ rents' = rents
  BY DEF Funding, PurchaseSupplies, Deposit, Withdraw, memberVars, researchVars
<1>2. /\ treasury \in Nat /\ coins \in [Players -> Nat] /\ supplies \in 0 .. MaxSupplies
      /\ MaxSupplies \in Nat /\ SupplyPrice \in Nat /\ PurchaseBelow \in Nat
      /\ KitValues \subseteq Nat
  BY ClaimsAssumption DEF TownInv, ClaimTypeOK
<1> DEFINE Kept == /\ treasury' \in Nat /\ coins' \in [Players -> Nat]
                   /\ supplies' \in 0 .. MaxSupplies
<1>3. ASSUME NEW kit \in KitValues, PurchaseSupplies(p, kit)
      PROVE  Kept
  <2> DEFINE value == Min({kit, MaxSupplies - supplies})
             wanted == Min({value, PurchaseBelow - supplies})
             amount == Min({wanted * SupplyPrice, treasury})
  <2>1. /\ supplies < PurchaseBelow
        /\ treasury' = treasury - amount
        /\ supplies' = Supplied(value)
        /\ coins' = [coins EXCEPT ![p] = @ + amount]
    BY <1>3 DEF PurchaseSupplies, AmountPaid
  <2>2. value \in Nat
    BY <1>2, MinOfTwo
  <2> HIDE DEF value
  <2>3. wanted \in Nat
    BY <1>2, <2>1, <2>2, MinOfTwo
  <2> HIDE DEF wanted
  <2>4. wanted * SupplyPrice \in Nat
    BY <1>2, <2>3, Products
  <2>5. amount \in Nat /\ amount <= treasury
    BY <1>2, <2>4, MinOfTwo
  <2> HIDE DEF amount
  <2>6. supplies' \in 0 .. MaxSupplies
    BY <2>1, <2>2, SuppliesAreLimited
  <2> QED BY <1>2, <2>1, <2>5, <2>6
<1>4. ASSUME NEW n \in 1 .. MaxAmount, Deposit(p, n) \/ Withdraw(p, n)
      PROVE  Kept
  BY <1>2, <1>4 DEF Deposit, Withdraw
<1>5. Kept
  BY <1>3, <1>4 DEF Funding
<1>6. RentsInv'
  BY <1>1, RentsStay
<1> QED
  BY <1>1, <1>5, <1>6, TownOfParts DEF TownInv, ClaimTypeOK, OneResearch

(***************************************************************************)
(* A research is the only one, because the next one begins when it has     *)
(* ended.                                                                  *)
(***************************************************************************)
LEMMA ResearchKeepsInv ==
    ASSUME TownInv, NEW p \in Players, Research(p), evictTimers' = evictTimers
    PROVE  TownInv'
<1>1. /\ owner' = owner /\ members' = members /\ openings' = openings
      /\ treasury' = treasury /\ coins' = coins /\ rents' = rents
  BY DEF Research, CancelTech, LearnTech, UnlockTech, memberVars
<1>2. /\ techTimers = {researching} \ {NoTech} /\ NoTech \notin Techs
      /\ learned \subseteq Techs /\ researching \in Techs \cup {NoTech}
      /\ TechCost \in Nat /\ supplies \in 0 .. MaxSupplies
  BY ClaimsAssumption DEF TownInv, ClaimTypeOK, OneResearch
<1>3. researching \notin learned
  BY DEF TownInv
<1> DEFINE Kept == /\ supplies' \in 0 .. MaxSupplies /\ learned' \subseteq Techs
                   /\ researching' \in (Techs \cup {NoTech}) \ learned'
                   /\ techTimers' = {researching'} \ {NoTech}
<1>5. ASSUME NEW tech \in Techs, LearnTech(p, tech)
      PROVE  Kept
  <2>1. supplies' \in 0 .. MaxSupplies
    BY <1>2, <1>5, SuppliesAreLimited DEF LearnTech
  <2> QED BY <1>2, <1>3, <1>5, <2>1 DEF LearnTech
<1>6. ASSUME NEW tech \in Techs, UnlockTech(tech)
      PROVE  Kept
  BY <1>2, <1>3, <1>6 DEF UnlockTech
<1>7. Kept
  <2>1. CASE CancelTech(p)
    BY <1>2, <1>3, <2>1 DEF CancelTech, TimersAfterCancel
  <2> QED BY <1>5, <1>6, <2>1 DEF Research
<1>8. RentsInv'
  BY <1>1, RentsStay
<1> QED
  BY <1>1, <1>7, <1>8, TownOfParts DEF TownInv, ClaimTypeOK, OneResearch

(***************************************************************************)
(* Rentals                                                                 *)
(***************************************************************************)
LEMMA RentChanges ==
    ASSUME TownInv, NEW r \in RentIds, NEW rent \in Rent,
           rent.dailyRent <= MaxRate,
           rent.whiteList # <<>> => rent.whiteList[1] \in DOMAIN members,
           rents' = [rents EXCEPT ![r] = rent],
           members' = members, evictTimers' \in [RentIds -> Nat]
    PROVE  RentsInv'
<1>1. rents \in [RentIds -> Rent]
      /\ \A q \in RentIds : /\ rents[q].dailyRent <= MaxRate
                            /\ rents[q].whiteList # <<>>
                                  => rents[q].whiteList[1] \in DOMAIN members
  BY DEF TownInv, RentTypeOK, RatesAreKnown, RenterIsMember, IsMember
<1>2. rents' \in [RentIds -> Rent]
      /\ \A q \in RentIds : rents'[q] = IF q = r THEN rent ELSE rents[q]
  BY <1>1
<1> QED BY <1>1, <1>2 DEF RentsInv, RentTypeOK, RatesAreKnown, RenterIsMember, IsMember

LEMMA Payments ==
    ASSUME TownInv, NEW r \in RentIds, NEW p \in Players, NEW n \in Nat, MayPay(r, p, n)
    PROVE  /\ Payment(r, n) \in Nat /\ Payment(r, n) <= coins[p]
           /\ rents[r].paidRent + Payment(r, n) \in Nat
<1> DEFINE most == rents[r].dailyRent * MaxDepositDays
<1>1. /\ rents[r].paidRent \in Nat /\ rents[r].dailyRent \in Nat /\ MaxDepositDays \in Nat
      /\ coins[p] \in Nat
  BY RentalsAssumption DEF TownInv, RentTypeOK, ClaimTypeOK, Rent
<1>2. most \in Nat
  BY <1>1, Products
<1>3. rents[r].paidRent < most /\ coins[p] >= Payment(r, n)
  BY DEF MayPay
<1>4. Payment(r, n) = Min({n, most - rents[r].paidRent})
  BY DEF Payment
<1> HIDE DEF most
<1>5. Payment(r, n) = IF n <= most - rents[r].paidRent THEN n ELSE most - rents[r].paidRent
  BY <1>1, <1>2, <1>4, MinOfTwo
<1> QED BY <1>1, <1>2, <1>3, <1>5

(***************************************************************************)
(* The changes of a rental.                                                *)
(***************************************************************************)
SameTerms(changed, rent) ==
    /\ changed \in Rent
    /\ changed.dailyRent = rent.dailyRent /\ changed.whiteList = rent.whiteList

LEMMA RentFields ==
    ASSUME NEW rent \in Rent
    PROVE  /\ \A a \in BOOLEAN : SameTerms([rent EXCEPT !.active = a], rent)
           /\ SameTerms([rent EXCEPT !.evicting = TRUE], rent)
           /\ \A a \in BOOLEAN : SameTerms([rent EXCEPT !.defaulted = a], rent)
           /\ \A n \in Nat : SameTerms([rent EXCEPT !.paidRent = n], rent)
           /\ \A n \in Nat : SameTerms([rent EXCEPT !.defaulted = FALSE, !.paidRent = n], rent)
           /\ \A n \in Nat : /\ [rent EXCEPT !.dailyRent = n] \in Rent
                             /\ [rent EXCEPT !.dailyRent = n].dailyRent = n
                             /\ [rent EXCEPT !.dailyRent = n].whiteList = rent.whiteList
           /\ \A list \in Seq(Players) :
                /\ [rent EXCEPT !.whiteList = list] \in Rent
                /\ [rent EXCEPT !.whiteList = list].dailyRent = rent.dailyRent
                /\ [rent EXCEPT !.whiteList = list].whiteList = list
           /\ Cleared(rent) \in Rent /\ Cleared(rent).dailyRent = rent.dailyRent
           /\ Cleared(rent).whiteList = <<>> /\ Cleared(rent).paidRent = 0
<1>1. ASSUME NEW a \in BOOLEAN PROVE SameTerms([rent EXCEPT !.active = a], rent)
  BY DEF Rent, SameTerms
<1>2. SameTerms([rent EXCEPT !.evicting = TRUE], rent)
  BY DEF Rent, SameTerms
<1>3. ASSUME NEW a \in BOOLEAN PROVE SameTerms([rent EXCEPT !.defaulted = a], rent)
  BY DEF Rent, SameTerms
<1>4. ASSUME NEW n \in Nat PROVE SameTerms([rent EXCEPT !.paidRent = n], rent)
  BY DEF Rent, SameTerms
<1>5. ASSUME NEW n \in Nat
      PROVE  SameTerms([rent EXCEPT !.defaulted = FALSE, !.paidRent = n], rent)
  BY DEF Rent, SameTerms
<1>6. ASSUME NEW n \in Nat
      PROVE  /\ [rent EXCEPT !.dailyRent = n] \in Rent
             /\ [rent EXCEPT !.dailyRent = n].dailyRent = n
             /\ [rent EXCEPT !.dailyRent = n].whiteList = rent.whiteList
  BY DEF Rent
<1>7. ASSUME NEW list \in Seq(Players)
      PROVE  /\ [rent EXCEPT !.whiteList = list] \in Rent
             /\ [rent EXCEPT !.whiteList = list].dailyRent = rent.dailyRent
             /\ [rent EXCEPT !.whiteList = list].whiteList = list
  BY DEF Rent
<1>8. /\ Cleared(rent) \in Rent /\ Cleared(rent).dailyRent = rent.dailyRent
      /\ Cleared(rent).whiteList = <<>> /\ Cleared(rent).paidRent = 0
  <2>1. NewRent \in Rent
    BY DEF Rent, NewRent
  <2>2. NewRent.whiteList = <<>> /\ NewRent.paidRent = 0
    BY DEF NewRent
  <2>3. rent.dailyRent \in Nat
    BY DEF Rent
  <2> QED BY <2>1, <2>2, <2>3 DEF Rent, Cleared
<1> QED BY <1>1, <1>2, <1>3, <1>4, <1>5, <1>6, <1>7, <1>8

LEMMA RemovalKeepsFirst ==
    ASSUME NEW S, NEW list \in Seq(S), NEW i \in 2 .. Len(list)
    PROVE  RemoveAt(list, i) \in Seq(S) /\ RemoveAt(list, i) # <<>>
           /\ RemoveAt(list, i)[1] = list[1]
<1> DEFINE before == SubSeq(list, 1, i - 1)
           after == SubSeq(list, i + 1, Len(list))
<1>1. before \in Seq(S) /\ Len(before) = i - 1 /\ before[1] = list[1]
  <2>1. \A j \in 1 .. i - 1 : list[j] \in S
    OBVIOUS
  <2>2. /\ before \in Seq(S) /\ Len(before) = IF 1 <= i - 1 THEN (i - 1) - 1 + 1 ELSE 0
        /\ \A j \in 1 .. (i - 1) - 1 + 1 : before[j] = list[1 + j - 1]
    BY <2>1, SubSeqProperties
  <2> HIDE DEF before
  <2> QED BY <2>2
<1>2. after \in Seq(S)
  <2>1. \A j \in i + 1 .. Len(list) : list[j] \in S
    OBVIOUS
  <2> QED BY <2>1, SubSeqProperties
<1> HIDE DEF before, after
<1>3. before \o after \in Seq(S) /\ before \o after # <<>> /\ (before \o after)[1] = before[1]
  BY <1>1, <1>2
<1> QED BY <1>1, <1>3 DEF RemoveAt, before, after

LEMMA RentingKeepsInv ==
    ASSUME TownInv, NEW p \in Players, Renting(p)
    PROVE  TownInv'
<1> DEFINE Money == treasury' \in Nat /\ coins' \in [Players -> Nat]
<1>1. PICK r \in RentIds :
         \/ RentPurchase(p, r) \/ Terminate(p, r) \/ CollectEvictionFee(p, r)
         \/ EvictAtOnce(p, r) \/ GiveNotice(p, r)
         \/ \E active \in BOOLEAN : SetListed(p, r, active)
         \/ \E rate \in 0 .. MaxRate : SetDailyRate(p, r, rate)
         \/ \E n \in 1 .. MaxAmount : DepositRent(p, r, n)
         \/ \E q \in Players : AddTenant(p, r, q) \/ RemoveTenant(p, r, q)
  BY Zenon DEF Renting
<1>2. UNCHANGED OtherTown
  BY <1>1, Zenon DEF RentPurchase, Terminate, CollectEvictionFee, EvictAtOnce, GiveNotice,
     SetListed, SetDailyRate, DepositRent, AddTenant, RemoveTenant, TakeBack
<1>3. /\ owner' = owner /\ members' = members /\ openings' = openings /\ supplies' = supplies
      /\ learned' = learned /\ researching' = researching /\ techTimers' = techTimers
  BY <1>2 DEF OtherTown, memberVars, researchVars
<1>4. /\ rents[r] \in Rent /\ rents[r].dailyRent \in Nat /\ rents[r].paidRent \in Nat
      /\ rents[r].whiteList \in Seq(Players) /\ rents[r].dailyRent <= MaxRate
      /\ rents[r].whiteList # <<>> => rents[r].whiteList[1] \in DOMAIN members
      /\ evictTimers \in [RentIds -> Nat]
      /\ treasury \in Nat /\ coins \in [Players -> Nat]
  BY DEF TownInv, RentTypeOK, RatesAreKnown, RenterIsMember, IsMember, ClaimTypeOK, Rent
<1>5. ASSUME NEW rent \in Rent, Rented(r, rent), rent.dailyRent <= MaxRate,
             rent.whiteList # <<>> => rent.whiteList[1] \in DOMAIN members,
             evictTimers' \in [RentIds -> Nat], Money
      PROVE  TownInv'
  <2>1. RentsInv'
    BY <1>3, <1>5, RentChanges DEF Rented
  <2> QED
    BY <1>3, <1>5, <2>1, TownOfParts DEF TownInv, ClaimTypeOK, OneResearch
<1>6. ASSUME NEW rent, Rented(r, rent), SameTerms(rent, rents[r]),
             evictTimers' \in [RentIds -> Nat], Money
      PROVE  TownInv'
  <2> HIDE DEF Money
  <2> QED BY <1>4, <1>5, <1>6 DEF SameTerms
<1>7. ASSUME Rented(r, Cleared(rents[r])), evictTimers' \in [RentIds -> Nat], Money
      PROVE  TownInv'
  <2> HIDE DEF Money
  <2> QED BY <1>4, <1>5, <1>7, RentFields
<1>8. CASE RentPurchase(p, r)
  <2> DEFINE deposit == DepositDays * rents[r].dailyRent
             rent == [rents[r] EXCEPT !.whiteList = <<p>>, !.active = TRUE,
                                      !.paidRent = @ + Payment(r, deposit)]
  <2>1. /\ IsMember(p) /\ MayPay(r, p, deposit) /\ Pay(r, p, deposit) /\ Rented(r, rent)
        /\ treasury' = treasury /\ evictTimers' = evictTimers
    BY <1>8 DEF RentPurchase
  <2>2. deposit \in Nat
    BY <1>4, Products, RentalsAssumption
  <2> HIDE DEF deposit
  <2>3. /\ Payment(r, deposit) \in Nat /\ Payment(r, deposit) <= coins[p]
        /\ rents[r].paidRent + Payment(r, deposit) \in Nat
    BY <2>1, <2>2, Payments
  <2>4. Money
    BY <1>4, <2>1, <2>3 DEF Pay
  <2>5. <<p>> \in Seq(Players) /\ <<p>>[1] = p
    OBVIOUS
  <2>6. rent \in Rent /\ rent.dailyRent = rents[r].dailyRent /\ rent.whiteList = <<p>>
    BY <1>4, <2>3, <2>5 DEF Rent
  <2> HIDE DEF rent, Money
  <2> QED BY <1>4, <1>5, <2>1, <2>4, <2>5, <2>6 DEF IsMember
<1>9. ASSUME TakeBack(p, r) PROVE TownInv'
  <2>1. Money /\ Rented(r, Cleared(rents[r])) /\ evictTimers' = evictTimers
    BY <1>4, <1>9 DEF TakeBack
  <2> QED BY <1>4, <1>7, <2>1
<1>10. CASE EvictAtOnce(p, r)
  BY <1>4, <1>7, <1>10 DEF EvictAtOnce
<1>11. CASE GiveNotice(p, r)
  <2> DEFINE fee == EvictionFee[rents[r].dailyRent]
             paid == Min({fee, treasury})
  <2>1. /\ coins[p] >= fee - paid
        /\ treasury' = treasury - paid
        /\ coins' = [coins EXCEPT ![p] = @ - (fee - paid)]
        /\ Rented(r, [rents[r] EXCEPT !.evicting = TRUE])
        /\ evictTimers' = [evictTimers EXCEPT ![r] = @ + 1]
    BY <1>11 DEF GiveNotice
  <2>2. fee \in Nat
    BY <1>4, RentalsAssumption
  <2> HIDE DEF fee
  <2>3. paid \in Nat /\ paid <= treasury /\ paid <= fee
    <3>1. treasury \in Nat
      BY <1>4
    <3> QED BY <2>2, <3>1, MinOfTwo
  <2> HIDE DEF paid
  <2>4. evictTimers' \in [RentIds -> Nat]
    BY <1>4, <2>1
  <2>5. treasury' \in Nat
    BY <1>4, <2>1, <2>3
  <2>6. coins' \in [Players -> Nat]
    <3> DEFINE rest == fee - paid
    <3>1. rest \in Nat /\ coins[p] >= rest /\ coins' = [coins EXCEPT ![p] = @ - rest]
      BY <2>1, <2>2, <2>3
    <3> HIDE DEF rest
    <3> QED BY <1>4, <3>1
  <2> QED BY <1>4, <1>6, <2>1, <2>4, <2>5, <2>6, RentFields
<1>12. ASSUME NEW active \in BOOLEAN, SetListed(p, r, active) PROVE TownInv'
  <2>1. Rented(r, [rents[r] EXCEPT !.active = active]) /\ Money
        /\ evictTimers' = evictTimers
    BY <1>4, <1>12 DEF SetListed
  <2> HIDE DEF Money
  <2> QED BY <1>4, <1>6, <2>1, RentFields
<1>13. ASSUME NEW rate \in 0 .. MaxRate, SetDailyRate(p, r, rate) PROVE TownInv'
  <2> DEFINE rent == [rents[r] EXCEPT !.dailyRent = rate]
  <2>1. Rented(r, rent) /\ Money /\ evictTimers' = evictTimers
    BY <1>4, <1>13 DEF SetDailyRate
  <2>2. rate \in Nat /\ rate <= MaxRate
    BY RentalsAssumption
  <2>3. rent \in Rent /\ rent.dailyRent = rate /\ rent.whiteList = rents[r].whiteList
    BY <1>4, <2>2 DEF Rent
  <2> HIDE DEF Money, rent
  <2> QED BY <1>4, <1>5, <2>1, <2>2, <2>3
<1>14. ASSUME NEW n \in 1 .. MaxAmount, DepositRent(p, r, n) PROVE TownInv'
  <2> DEFINE total == rents[r].paidRent + Payment(r, n)
  <2>1. /\ MayPay(r, p, n) /\ Pay(r, p, n) /\ Rented(r, [rents[r] EXCEPT !.paidRent = total])
        /\ treasury' = treasury /\ evictTimers' = evictTimers
    BY <1>14 DEF DepositRent
  <2>2. Payment(r, n) \in Nat /\ Payment(r, n) <= coins[p] /\ total \in Nat
    BY <2>1, Payments
  <2>3. Money
    BY <1>4, <2>1, <2>2 DEF Pay
  <2> HIDE DEF total, Money
  <2> QED BY <1>4, <1>6, <2>1, <2>2, <2>3, RentFields
<1>15. ASSUME NEW list \in Seq(Players), rents[r].whiteList # <<>>,
              list # <<>> /\ list[1] = rents[r].whiteList[1],
              Rented(r, [rents[r] EXCEPT !.whiteList = list]),
              treasury' = treasury, coins' = coins, evictTimers' = evictTimers
       PROVE  TownInv'
  <2>1. Money
    BY <1>4, <1>15
  <2> HIDE DEF Money
  <2> QED BY <1>4, <1>5, <1>15, <2>1, RentFields
<1>16. ASSUME NEW q \in Players, AddTenant(p, r, q) PROVE TownInv'
  <2> DEFINE old == rents[r].whiteList
             list == Append(old, q)
  <2>1. p \in ToSet(old) /\ Rented(r, [rents[r] EXCEPT !.whiteList = list])
        /\ treasury' = treasury /\ coins' = coins /\ evictTimers' = evictTimers
    BY <1>16 DEF AddTenant, IsTenant
  <2>2. old # <<>>
    BY <2>1 DEF ToSet
  <2>3. list \in Seq(Players) /\ list # <<>> /\ list[1] = old[1]
    <3>1. old \in Seq(Players)
      BY <1>4
    <3> HIDE DEF old
    <3> QED BY <2>2, <3>1
  <2> HIDE DEF list
  <2> QED BY <1>15, <2>1, <2>2, <2>3
<1>17. ASSUME NEW q \in Players, RemoveTenant(p, r, q) PROVE TownInv'
  <2>1. PICK i \in 2 .. Len(rents[r].whiteList) :
           /\ Rented(r, [rents[r] EXCEPT !.whiteList = RemoveAt(@, i)])
           /\ treasury' = treasury /\ coins' = coins /\ evictTimers' = evictTimers
    BY <1>17 DEF RemoveTenant, Removable
  <2> DEFINE old == rents[r].whiteList
             list == RemoveAt(old, i)
  <2>2. old # <<>>
    OBVIOUS
  <2>3. list \in Seq(Players) /\ list # <<>> /\ list[1] = old[1]
    BY <1>4, RemovalKeepsFirst
  <2>4. Rented(r, [rents[r] EXCEPT !.whiteList = list])
    BY <2>1
  <2> HIDE DEF list
  <2> QED BY <1>15, <2>1, <2>2, <2>3, <2>4
<1> QED
  BY <1>1, <1>8, <1>9, <1>10, <1>11, <1>12, <1>13, <1>14, <1>16, <1>17
  DEF Terminate, CollectEvictionFee

LEMMA CollectedKeepsTerms ==
    ASSUME NEW rent \in Rent
    PROVE  SameTerms(Collected(rent), rent)
<1>1. rent.paidRent \in Nat /\ rent.dailyRent \in Nat
  BY DEF Rent
<1>2. CASE Due(rent) /\ HasPaid(rent)
  <2>1. rent.paidRent - rent.dailyRent \in Nat
    BY <1>1, <1>2 DEF HasPaid
  <2> QED BY <1>2, <2>1, RentFields DEF Collected, Charged
<1>3. CASE Due(rent) /\ ~HasPaid(rent)
  <2>1. SameTerms([rent EXCEPT !.defaulted = TRUE], rent)
    BY RentFields
  <2> QED BY <1>3, <2>1 DEF Collected
<1>4. CASE ~Due(rent)
  BY <1>4 DEF Collected, SameTerms
<1> QED BY <1>2, <1>3, <1>4

LEMMA RentTimersKeepInv ==
    ASSUME TownInv, RentTimers
    PROVE  TownInv'
<1>1. /\ UNCHANGED OtherTown /\ coins' = coins
      /\ rents \in [RentIds -> Rent] /\ evictTimers \in [RentIds -> Nat]
      /\ \A r \in RentIds : /\ rents[r].dailyRent <= MaxRate
                            /\ rents[r].whiteList # <<>>
                                  => rents[r].whiteList[1] \in DOMAIN members
      /\ treasury \in Nat
  BY DEF RentTimers, CollectRents, EvictTerm, TownInv, RentTypeOK, RatesAreKnown,
         RenterIsMember, IsMember, ClaimTypeOK
<1>2. /\ owner' = owner /\ members' = members /\ openings' = openings /\ supplies' = supplies
      /\ learned' = learned /\ researching' = researching /\ techTimers' = techTimers
  BY <1>1 DEF OtherTown, memberVars, researchVars
<1>3. ASSUME RentsInv', treasury' \in Nat
      PROVE  TownInv'
  BY <1>1, <1>2, <1>3, TownOfParts DEF TownInv, ClaimTypeOK, OneResearch
<1>4. CASE CollectRents
  <2>1. /\ rents' = [r \in RentIds |-> Collected(rents[r])] /\ evictTimers' = evictTimers
        /\ treasury' = treasury + SumFunctionOnSet([r \in RentIds |-> rents[r].dailyRent],
                                                   {r \in RentIds : Pays(rents[r])})
    BY <1>4 DEF CollectRents
  <2>2. \A r \in RentIds : SameTerms(rents'[r], rents[r])
    BY <1>1, <2>1, CollectedKeepsTerms
  <2>3. RentsInv'
    <3>1. rents' \in [RentIds -> Rent]
      BY <2>1, <2>2 DEF SameTerms
    <3> QED BY <1>1, <1>2, <2>1, <2>2, <3>1
           DEF RentsInv, RentTypeOK, RatesAreKnown, RenterIsMember, IsMember, SameTerms
  <2>4. treasury' \in Nat
    <3> DEFINE U == {r \in RentIds : Pays(rents[r])}
               f == [r \in RentIds |-> rents[r].dailyRent]
    <3>1. IsFiniteSet(U)
      BY RentalsAssumption, FS_Subset
    <3>2. \A r \in U : f[r] \in Nat
      BY <1>1 DEF Rent
    <3>3. SumFunctionOnSet(f, U) \in Nat
      <4> HIDE DEF f, U
      <4> QED BY <3>1, <3>2, SumIsNatural
    <3> HIDE DEF f, U
    <3> QED BY <1>1, <2>1, <3>3 DEF f, U
  <2> QED BY <1>3, <2>3, <2>4
<1>5. ASSUME NEW r \in RentIds, EvictTerm(r)
      PROVE  TownInv'
  <2> DEFINE rent == IF rents[r].whiteList = <<>> THEN rents[r] ELSE Cleared(rents[r])
  <2>1. /\ Rented(r, rent) /\ treasury' = treasury
        /\ evictTimers' = [evictTimers EXCEPT ![r] = @ - 1] /\ evictTimers[r] > 0
    BY <1>5 DEF EvictTerm
  <2>2. evictTimers' \in [RentIds -> Nat]
    BY <1>1, <2>1
  <2>3. /\ rent \in Rent /\ rent.dailyRent <= MaxRate
        /\ rent.whiteList # <<>> => rent.whiteList[1] \in DOMAIN members
    <3>1. rents[r] \in Rent
      BY <1>1
    <3>2. /\ Cleared(rents[r]) \in Rent /\ Cleared(rents[r]).dailyRent = rents[r].dailyRent
          /\ Cleared(rents[r]).whiteList = <<>>
      BY <3>1, RentFields
    <3> QED BY <1>1, <3>1, <3>2
  <2> HIDE DEF rent
  <2>4. RentsInv'
    BY <1>2, <2>1, <2>2, <2>3, RentChanges DEF Rented
  <2> QED BY <1>1, <1>3, <2>1, <2>4
<1> QED BY <1>4, <1>5 DEF RentTimers

-----------------------------------------------------------------------------
(***************************************************************************)
(* What a step of the claim or of a rental may not do.                     *)
(***************************************************************************)
Bestowed ==
    \A p \in DOMAIN members \cap DOMAIN members' :
        (members'[p] > members[p] /\ p # owner')
            => \E q \in DOMAIN members : q # p /\ Score(q) > members'[p]

LEMMA MembershipBestows ==
    ASSUME TownInv, NEW actor \in Players, Membership(actor)
    PROVE  Bestowed
<1>1. /\ members \in [DOMAIN members -> Ranks]
      /\ owner # Nobody => owner \in DOMAIN members /\ members[owner] = CoOwner
      /\ actor # Nobody
  BY ClaimsAssumption DEF TownInv, ClaimTypeOK, OwnerIsCoOwner, IsMember
<1>2. Ranks = 0 .. 2 /\ Member = 0 /\ Officer = 1 /\ CoOwner = 2
  BY DEF Ranks, Member, Officer, CoOwner
<1>3. ASSUME \A p \in DOMAIN members \cap DOMAIN members' :
                members'[p] = members[p] \/ p = owner'
      PROVE  Bestowed
  BY <1>1, <1>2, <1>3 DEF Bestowed
<1>4. ASSUME NEW q \in Players, Join(q) PROVE Bestowed
  <2>1. q \notin DOMAIN members
        /\ \A z \in DOMAIN members \ {q} : members'[z] = members[z]
    BY <1>4, EnlistedAreMembers DEF Join, IsMember
  <2> QED BY <1>3, <2>1
<1>5. ASSUME NEW q \in Players, members' = Without(members, q) PROVE Bestowed
  <2>1. \A z \in DOMAIN members' : members'[z] = members[z]
    BY <1>5 DEF Without
  <2> QED BY <1>3, <2>1
<1>6. CASE ApplyForRecruitment(actor)
  BY <1>4, <1>6 DEF ApplyForRecruitment
<1>7. CASE Leave(actor)
  BY <1>5, <1>7 DEF Leave
<1>8. CASE TakeOwnership(actor)
  <2>1. owner' = actor /\ \A z \in DOMAIN members \ {actor} : members'[z] = members[z]
    BY <1>8, EnlistedAreMembers DEF TakeOwnership
  <2> QED BY <1>3, <2>1
<1>9. ASSUME NEW n, SetRecruitment(actor, n) PROVE Bestowed
  BY <1>3, <1>9 DEF SetRecruitment
<1>10. ASSUME NEW q \in Players, AddMember(actor, q) PROVE Bestowed
  BY <1>4, <1>10 DEF AddMember
<1>11. ASSUME NEW q \in Players, RemoveMember(actor, q) PROVE Bestowed
  BY <1>5, <1>11 DEF RemoveMember
<1>12. ASSUME NEW q \in Players, TransferOwnership(actor, q) PROVE Bestowed
  BY <1>1, <1>3, <1>12 DEF TransferOwnership
<1>13. ASSUME NEW q \in Players, NEW rank \in Ranks, SetMemberPermissions(actor, q, rank)
       PROVE  Bestowed
  <2>1. /\ q # owner /\ MayBestow(actor, rank) /\ actor \in DOMAIN members
        /\ q \in DOMAIN members /\ Score(actor) > Score(q)
        /\ members' = [members EXCEPT ![q] = rank]
    BY <1>13 DEF SetMemberPermissions, IsMember
  <2>2. members[actor] \in 0 .. 2 /\ members[q] \in 0 .. 2
    BY <1>1, <1>2, <2>1
  <2>3. actor # q
    BY <2>1, <2>2 DEF Score
  <2>4. rank > Member => Score(actor) > rank
    <3>1. CASE rank = CoOwner
      BY <1>1, <1>2, <2>1, <3>1 DEF MayBestow, Score
    <3>2. CASE rank = Officer
      BY <1>1, <1>2, <2>1, <2>2, <3>2 DEF MayBestow, HasRank, Score
    <3> QED BY <1>2, <3>1, <3>2
  <2>5. \A p \in DOMAIN members \cap DOMAIN members' :
           members'[p] = IF p = q THEN rank ELSE members[p]
    BY <1>1, <2>1
  <2>6. members'[q] > members[q] => rank > Member
    BY <1>1, <1>2, <2>1, <2>2
  <2>7. ASSUME NEW p \in DOMAIN members \cap DOMAIN members', members'[p] > members[p]
        PROVE  \E z \in DOMAIN members : z # p /\ Score(z) > members'[p]
    <3>1. p = q /\ members'[p] = rank
      BY <1>1, <1>2, <2>5, <2>7
    <3> QED BY <2>1, <2>3, <2>4, <2>6, <2>7, <3>1
  <2> QED BY <2>7 DEF Bestowed
<1> QED
  BY <1>6, <1>7, <1>8, <1>9, <1>10, <1>11, <1>12, <1>13 DEF Membership

(***************************************************************************)
(* Rentals: at most one changes, except when the rents are collected.      *)
(***************************************************************************)
GivenUp(r) ==
    LET renter == RenterOf(rents[r])
    IN  (renter # Nobody /\ RenterOf(rents'[r]) # renter) =>
            \/ coins'[renter] = coins[renter] + rents[r].paidRent
            \/ rents[r].defaulted
            \/ evictTimers'[r] < evictTimers[r]

LEMMA OthersAreNotGivenUp ==
    ASSUME TownInv, NEW r \in RentIds, NEW rent, Rented(r, rent),
           rent.whiteList = rents[r].whiteList \/ GivenUp(r)
    PROVE  \A q \in RentIds : GivenUp(q)
<1>1. rents \in [RentIds -> Rent]
  BY DEF TownInv, RentTypeOK
<1>2. \A q \in RentIds : rents'[q] = IF q = r THEN rent ELSE rents[q]
  BY <1>1 DEF Rented
<1>3. \A q \in RentIds : q # r => GivenUp(q)
  BY <1>2 DEF GivenUp, RenterOf
<1>4. GivenUp(r)
  <2>1. CASE rent.whiteList = rents[r].whiteList
    BY <1>2, <2>1 DEF GivenUp, RenterOf
  <2> QED BY <2>1
<1> QED BY <1>3, <1>4

LEMMA RentingIsGivenUp ==
    ASSUME TownInv, NEW p \in Players, Renting(p)
    PROVE  \A q \in RentIds : GivenUp(q)
<1>1. PICK r \in RentIds :
         \/ RentPurchase(p, r) \/ Terminate(p, r) \/ CollectEvictionFee(p, r)
         \/ EvictAtOnce(p, r) \/ GiveNotice(p, r)
         \/ \E active \in BOOLEAN : SetListed(p, r, active)
         \/ \E rate \in 0 .. MaxRate : SetDailyRate(p, r, rate)
         \/ \E n \in 1 .. MaxAmount : DepositRent(p, r, n)
         \/ \E q \in Players : AddTenant(p, r, q) \/ RemoveTenant(p, r, q)
  BY Zenon DEF Renting
<1>2. /\ rents[r] \in Rent /\ rents \in [RentIds -> Rent]
      /\ rents[r].whiteList \in Seq(Players)
      /\ coins \in [Players -> Nat]
  BY DEF TownInv, RentTypeOK, ClaimTypeOK, Rent
<1>3. ASSUME NEW rent, Rented(r, rent),
             rent.whiteList = rents[r].whiteList \/ GivenUp(r)
      PROVE  \A q \in RentIds : GivenUp(q)
  BY <1>3, OthersAreNotGivenUp
<1>4. CASE RentPurchase(p, r)
  <2>1. PICK rent : Rented(r, rent)
    BY <1>4 DEF RentPurchase
  <2>2. rents[r].whiteList = <<>>
    BY <1>4 DEF RentPurchase
  <2>3. GivenUp(r)
    BY <2>2 DEF GivenUp, RenterOf
  <2> QED BY <1>3, <2>1, <2>3
<1>5. ASSUME rents[r].whiteList = <<>> \/ IsRenter(r, p), TakeBack(p, r)
      PROVE  \A q \in RentIds : GivenUp(q)
  <2>1. /\ coins' = [coins EXCEPT ![p] = @ + rents[r].paidRent]
        /\ Rented(r, Cleared(rents[r]))
    BY <1>5 DEF TakeBack
  <2>2. RenterOf(rents[r]) = Nobody \/ RenterOf(rents[r]) = p
    BY <1>5 DEF RenterOf, IsRenter
  <2>3. coins'[p] = coins[p] + rents[r].paidRent
    BY <1>2, <2>1
  <2>4. GivenUp(r)
    BY <2>2, <2>3 DEF GivenUp
  <2> QED BY <1>3, <2>1, <2>4
<1>6. CASE EvictAtOnce(p, r)
  BY <1>3, <1>6 DEF EvictAtOnce, GivenUp
<1>7. CASE GiveNotice(p, r)
  <2>1. Rented(r, [rents[r] EXCEPT !.evicting = TRUE])
    BY <1>7 DEF GiveNotice
  <2> QED BY <1>2, <1>3, <2>1, RentFields DEF SameTerms
<1>8. ASSUME NEW active \in BOOLEAN, SetListed(p, r, active)
      PROVE  \A q \in RentIds : GivenUp(q)
  <2>1. Rented(r, [rents[r] EXCEPT !.active = active])
    BY <1>8 DEF SetListed
  <2> QED BY <1>2, <1>3, <2>1, RentFields DEF SameTerms
<1>9. ASSUME NEW rate \in 0 .. MaxRate, SetDailyRate(p, r, rate)
      PROVE  \A q \in RentIds : GivenUp(q)
  <2>1. Rented(r, [rents[r] EXCEPT !.dailyRent = rate])
    BY <1>9 DEF SetDailyRate
  <2>2. [rents[r] EXCEPT !.dailyRent = rate].whiteList = rents[r].whiteList
    BY <1>2 DEF Rent
  <2> QED BY <1>3, <2>1, <2>2
<1>10. ASSUME NEW n \in 1 .. MaxAmount, DepositRent(p, r, n)
       PROVE  \A q \in RentIds : GivenUp(q)
  <2> DEFINE rent == [rents[r] EXCEPT !.paidRent = @ + Payment(r, n)]
  <2>1. Rented(r, rent)
    BY <1>10 DEF DepositRent
  <2>2. rent.whiteList = rents[r].whiteList
    BY <1>2 DEF Rent
  <2> HIDE DEF rent
  <2> QED BY <1>3, <2>1, <2>2
<1>11. ASSUME NEW list, rents[r].whiteList # <<>> /\ list # <<>>,
              list[1] = rents[r].whiteList[1],
              Rented(r, [rents[r] EXCEPT !.whiteList = list])
       PROVE  \A q \in RentIds : GivenUp(q)
  <2>1. [rents[r] EXCEPT !.whiteList = list].whiteList = list
    BY <1>2 DEF Rent
  <2>2. rents'[r].whiteList = list
    BY <1>2, <1>11, <2>1 DEF Rented
  <2>3. GivenUp(r)
    BY <1>11, <2>2 DEF GivenUp, RenterOf
  <2> QED BY <1>3, <1>11, <2>3
<1>12. ASSUME NEW q \in Players, AddTenant(p, r, q)
       PROVE  \A z \in RentIds : GivenUp(z)
  <2> DEFINE list == Append(rents[r].whiteList, q)
  <2>1. p \in ToSet(rents[r].whiteList) /\ Rented(r, [rents[r] EXCEPT !.whiteList = list])
    BY <1>12 DEF AddTenant, IsTenant
  <2>2. rents[r].whiteList # <<>>
    BY <2>1 DEF ToSet
  <2>3. list # <<>> /\ list[1] = rents[r].whiteList[1]
    BY <1>2, <2>2
  <2> HIDE DEF list
  <2> QED BY <1>11, <2>1, <2>2, <2>3
<1>13. ASSUME NEW q \in Players, RemoveTenant(p, r, q)
       PROVE  \A z \in RentIds : GivenUp(z)
  <2>1. PICK i \in 2 .. Len(rents[r].whiteList) :
           Rented(r, [rents[r] EXCEPT !.whiteList = RemoveAt(@, i)])
    BY <1>13 DEF RemoveTenant, Removable
  <2> DEFINE list == RemoveAt(rents[r].whiteList, i)
  <2>2. list # <<>> /\ list[1] = rents[r].whiteList[1] /\ rents[r].whiteList # <<>>
    BY <1>2, RemovalKeepsFirst
  <2>3. Rented(r, [rents[r] EXCEPT !.whiteList = list])
    BY <2>1
  <2> HIDE DEF list
  <2> QED BY <1>11, <2>2, <2>3
<1> QED
  BY <1>1, <1>4, <1>5, <1>6, <1>7, <1>8, <1>9, <1>10, <1>12, <1>13
  DEF Terminate, CollectEvictionFee, MayTerminate

LEMMA TimersAreGivenUp ==
    ASSUME TownInv, RentTimers
    PROVE  \A q \in RentIds : GivenUp(q)
<1>1. rents \in [RentIds -> Rent] /\ evictTimers \in [RentIds -> Nat]
  BY DEF TownInv, RentTypeOK
<1>2. CASE CollectRents
  <2>1. \A r \in RentIds : SameTerms(rents'[r], rents[r])
    BY <1>1, <1>2, CollectedKeepsTerms DEF CollectRents
  <2> QED BY <2>1 DEF GivenUp, RenterOf, SameTerms
<1>3. ASSUME NEW r \in RentIds, EvictTerm(r)
      PROVE  \A q \in RentIds : GivenUp(q)
  <2>1. PICK rent : Rented(r, rent)
    BY <1>3 DEF EvictTerm
  <2>2. evictTimers'[r] < evictTimers[r]
    BY <1>1, <1>3 DEF EvictTerm
  <2>3. GivenUp(r)
    BY <2>2 DEF GivenUp
  <2> QED BY <2>1, <2>3, OthersAreNotGivenUp
<1> QED BY <1>2, <1>3 DEF RentTimers

-----------------------------------------------------------------------------
(***************************************************************************)
(* Bags                                                                    *)
(***************************************************************************)
LEMMA BagsJoined ==
    ASSUME NEW A, NEW B, IsABag(A), IsABag(B)
    PROVE  IsABag(A (+) B) /\ DOMAIN (A (+) B) = DOMAIN A \cup DOMAIN B
<1>1. A \in [DOMAIN A -> {n \in Nat : n > 0}] /\ B \in [DOMAIN B -> {n \in Nat : n > 0}]
  BY DEF IsABag
<1>2. DOMAIN (A (+) B) = DOMAIN A \cup DOMAIN B
  BY DEF (+)
<1>3. \A e \in DOMAIN A \cup DOMAIN B : (A (+) B)[e] \in {n \in Nat : n > 0}
  BY <1>1 DEF (+)
<1>4. A (+) B = [e \in DOMAIN (A (+) B) |-> (A (+) B)[e]]
  BY DEF (+)
<1> QED BY <1>2, <1>3, <1>4 DEF IsABag

LEMMA BagOfSet ==
    ASSUME NEW S
    PROVE  IsABag(SetToBag(S)) /\ DOMAIN SetToBag(S) = S
BY DEF SetToBag, IsABag

LEMMA BagReduced ==
    ASSUME NEW A, NEW B, IsABag(A), IsABag(B)
    PROVE  IsABag(A (-) B) /\ DOMAIN (A (-) B) \subseteq DOMAIN A
<1> DEFINE C == [e \in DOMAIN A |-> IF e \in DOMAIN B THEN A[e] - B[e] ELSE A[e]]
           E == {e \in DOMAIN C : C[e] > 0}
<1>1. A \in [DOMAIN A -> {n \in Nat : n > 0}] /\ B \in [DOMAIN B -> {n \in Nat : n > 0}]
  BY DEF IsABag
<1>2. A (-) B = [e \in E |-> C[e]]
  BY DEF (-)
<1>3. E \subseteq DOMAIN A /\ \A e \in E : C[e] \in {n \in Nat : n > 0}
  BY <1>1
<1> HIDE DEF C, E
<1> QED BY <1>2, <1>3 DEF IsABag
-----------------------------------------------------------------------------
(***************************************************************************)
(* Shops and travelers: besides what the runs check, a traveler is where a *)
(* ruin stands, so that he never disappears and leaves his offers behind.  *)
(***************************************************************************)
RowsOK(rows) ==
    /\ DOMAIN rows \subseteq Npcs /\ rows \in [DOMAIN rows -> Npc]
    /\ \A n \in DOMAIN rows : rows[n].at \in standing /\ Len(rows[n].previous) <= 3

OrdersOK(orders, rows) ==
    /\ IsABag(orders) /\ DOMAIN orders \subseteq TradeOrder
    /\ \A o \in DOMAIN orders : o.shop \in Ruins => \E n \in DOMAIN rows : rows[n].at = o.shop

StoragesOK ==
    /\ packs \in [Players -> [Wares -> Nat]]
    /\ stalls \in [Shops -> Goods]
    /\ \A p \in Players, k \in Wares : packs[p][k] <= PackRoom[k]
    /\ \A s \in Shops, k \in Wares : stalls[s][k] <= StallRoom[k]

ShopInv ==
    /\ standing \subseteq Ruins /\ ruinCache \subseteq Ruins
    /\ RowsOK(npcs) /\ OrdersOK(tradeOrders, npcs) /\ StoragesOK

LEMMA ShopsAreInOrder ==
    ShopInv => TravelersTypeOK /\ BarterTypeOK /\ OffersHaveTraveler
BY Zenon DEF ShopInv, RowsOK, OrdersOK, StoragesOK, TravelersTypeOK, BarterTypeOK,
   OffersHaveTraveler, BagToSet

LEMMA OrdersOfARuin ==
    ASSUME NEW r \in Ruins, NEW new \in OrdersOf(r)
    PROVE  IsABag(new) /\ DOMAIN new \subseteq TradeOrder /\ \A o \in DOMAIN new : o.shop = r
<1> DEFINE All(chosen) ==
        {[shop |-> r, offer |-> o.offer, required |-> o.required, stock |-> o.stock]
            : o \in AlwaysOffered \cup chosen}
<1>1. PICK chosen \in SUBSET Sampled : new = SetToBag(All(chosen))
  BY DEF OrdersOf, kSubset
<1>2. IsABag(new) /\ DOMAIN new = All(chosen)
  BY <1>1, BagOfSet
<1>3. AlwaysOffered \cup chosen \subseteq Bargain
  BY BarterAssumption
<1>4. ASSUME NEW o \in All(chosen) PROVE o \in TradeOrder /\ o.shop = r
  BY <1>3 DEF Bargain, TradeOrder
<1> QED BY <1>2, <1>4

LEMMA OrdersAreLeft ==
    ASSUME NEW orders, NEW r, IsABag(orders)
    PROVE  /\ IsABag(WithoutOrders(orders, r))
           /\ DOMAIN WithoutOrders(orders, r) = {o \in DOMAIN orders : o.shop # r}
BY DEF WithoutOrders, IsABag

LEMMA OrdersMoved ==
    ASSUME NEW orders, NEW rows, NEW rows2, NEW at, NEW r \in Ruins, NEW new \in OrdersOf(r),
           OrdersOK(orders, rows),
           \A m \in DOMAIN rows :
               rows[m].at # at => m \in DOMAIN rows2 /\ rows2[m].at = rows[m].at,
           \E n \in DOMAIN rows2 : rows2[n].at = r
    PROVE  OrdersOK(WithoutOrders(orders, at) (+) new, rows2)
<1> DEFINE left == WithoutOrders(orders, at)
<1>1. IsABag(left) /\ DOMAIN left = {o \in DOMAIN orders : o.shop # at}
  BY OrdersAreLeft DEF OrdersOK
<1>2. IsABag(new) /\ DOMAIN new \subseteq TradeOrder /\ \A o \in DOMAIN new : o.shop = r
  BY OrdersOfARuin
<1> HIDE DEF left
<1>3. IsABag(left (+) new) /\ DOMAIN (left (+) new) = DOMAIN left \cup DOMAIN new
  BY <1>1, <1>2, BagsJoined
<1>4. DOMAIN orders \subseteq TradeOrder
      /\ \A o \in DOMAIN orders : o.shop \in Ruins => \E n \in DOMAIN rows : rows[n].at = o.shop
  BY DEF OrdersOK
<1>5. ASSUME NEW o \in DOMAIN (left (+) new), o.shop \in Ruins
      PROVE  \E n \in DOMAIN rows2 : rows2[n].at = o.shop
  <2>1. CASE o \in DOMAIN new
    BY <1>2, <2>1
  <2>2. CASE o \in DOMAIN left
    BY <1>1, <1>4, <1>5, <2>2
  <2> QED BY <1>3, <1>5, <2>1, <2>2
<1> QED BY <1>1, <1>2, <1>3, <1>4, <1>5 DEF OrdersOK, left

LEMMA OrdersJoined ==
    ASSUME NEW orders, NEW rows, NEW rows2, NEW r \in Ruins, NEW new \in OrdersOf(r),
           OrdersOK(orders, rows),
           \A m \in DOMAIN rows : m \in DOMAIN rows2 /\ rows2[m].at = rows[m].at,
           \E n \in DOMAIN rows2 : rows2[n].at = r
    PROVE  OrdersOK(orders (+) new, rows2)
<1>1. IsABag(orders) /\ DOMAIN orders \subseteq TradeOrder
      /\ \A o \in DOMAIN orders : o.shop \in Ruins => \E n \in DOMAIN rows : rows[n].at = o.shop
  BY DEF OrdersOK
<1>2. IsABag(new) /\ DOMAIN new \subseteq TradeOrder /\ \A o \in DOMAIN new : o.shop = r
  BY OrdersOfARuin
<1>3. IsABag(orders (+) new) /\ DOMAIN (orders (+) new) = DOMAIN orders \cup DOMAIN new
  BY <1>1, <1>2, BagsJoined
<1>4. \A o \in DOMAIN orders : o.shop \in Ruins => \E n \in DOMAIN rows2 : rows2[n].at = o.shop
  BY <1>1
<1> QED BY <1>1, <1>2, <1>3, <1>4 DEF OrdersOK

(***************************************************************************)
(* The state of the agent's loop, with the npcs of D.                      *)
(***************************************************************************)
LoopOK(s, D) ==
    /\ s = [npcs |-> s.npcs, orders |-> s.orders, free |-> s.free, occupied |-> s.occupied,
            broken |-> s.broken]
    /\ RowsOK(s.npcs) /\ DOMAIN s.npcs = D
    /\ OrdersOK(s.orders, s.npcs)
    /\ s.free \subseteq Ruins

LEMMA VisitedRuins ==
    ASSUME NEW npc \in Npc, Len(npc.previous) <= 3
    PROVE  Visited(npc) \in Seq(Ruins) /\ Len(Visited(npc)) <= 3
<1> DEFINE all == Append(npc.previous, npc.at)
<1>1. npc.previous \in Seq(Ruins) /\ npc.at \in Ruins
  BY DEF Npc
<1>2. all \in Seq(Ruins) /\ Len(all) = Len(npc.previous) + 1
  BY <1>1
<1>3. Visited(npc) = IF Len(all) > 3 THEN Tail(all) ELSE all
  BY DEF Visited
<1> HIDE DEF all
<1> QED BY <1>1, <1>2, <1>3

LEMMA TeleportKeepsLoop ==
    ASSUME standing \subseteq Ruins, NEW s, NEW D, LoopOK(s, D), NEW n \in D,
           NEW r \in Ruins, r \in standing, NEW t \in Teleport(s, n, r)
    PROVE  LoopOK(t, D)
<1> DEFINE npc == s.npcs[n]
           moved == [npc EXCEPT !.at = r, !.previous = Visited(npc)]
           rows == [s.npcs EXCEPT ![n] = moved]
<1>1. PICK new \in OrdersOf(r) :
          t = [s EXCEPT !.npcs[n] = moved, !.orders = WithoutOrders(@, npc.at) (+) new]
  BY Zenon DEF Teleport, OrdersLeft
<1>2. /\ D \subseteq Npcs /\ s.npcs \in [D -> Npc] /\ npc \in Npc /\ Len(npc.previous) <= 3
      /\ \A m \in D : s.npcs[m].at \in standing /\ Len(s.npcs[m].previous) <= 3
  BY DEF LoopOK, RowsOK
<1>3. moved \in Npc /\ moved.at = r /\ Len(moved.previous) <= 3
  <2> DEFINE list == Visited(npc)
  <2>1. list \in Seq(Ruins) /\ Len(list) <= 3
    BY <1>2, VisitedRuins
  <2>2. moved = [npc EXCEPT !.at = r, !.previous = list]
    OBVIOUS
  <2> HIDE DEF list, npc, moved
  <2> QED BY <1>2, <2>1, <2>2 DEF Npc
<1>4. t = [npcs |-> rows, orders |-> WithoutOrders(s.orders, npc.at) (+) new,
           free |-> s.free, occupied |-> s.occupied, broken |-> s.broken]
  <2> DEFINE orders == WithoutOrders(s.orders, npc.at) (+) new
  <2>1. t = [s EXCEPT !.npcs = rows, !.orders = orders]
    BY <1>1
  <2> HIDE DEF rows, orders
  <2>2. t = [npcs |-> rows, orders |-> orders, free |-> s.free, occupied |-> s.occupied,
             broken |-> s.broken]
    BY <2>1 DEF LoopOK
  <2> QED BY <2>2 DEF orders
<1> HIDE DEF moved
<1>5. /\ rows \in [D -> Npc] /\ DOMAIN rows = D /\ rows[n] = moved
      /\ \A m \in D \ {n} : rows[m] = s.npcs[m]
  BY <1>2, <1>3
<1> HIDE DEF rows
<1>6. RowsOK(rows)
  <2>1. \A m \in D : rows[m].at \in standing /\ Len(rows[m].previous) <= 3
    BY <1>2, <1>3, <1>5
  <2> QED BY <1>2, <1>5, <2>1 DEF RowsOK
<1>7. OrdersOK(WithoutOrders(s.orders, npc.at) (+) new, rows)
  <2>1. /\ \A m \in DOMAIN s.npcs :
               s.npcs[m].at # npc.at => m \in DOMAIN rows /\ rows[m].at = s.npcs[m].at
        /\ \E m \in DOMAIN rows : rows[m].at = r
    BY <1>2, <1>3, <1>5
  <2>2. OrdersOK(s.orders, s.npcs)
    BY DEF LoopOK
  <2> HIDE DEF npc
  <2>3. new \in OrdersOf(r)
    OBVIOUS
  <2> QED BY <2>1, <2>2, <2>3, OrdersMoved
<1> QED BY <1>4, <1>5, <1>6, <1>7 DEF LoopOK

LEMMA RuinsTakenFromLoop ==
    ASSUME NEW s, NEW D, LoopOK(s, D), NEW free, free \subseteq Ruins, NEW occupied, NEW broken,
           NEW t,
           t = [npcs |-> s.npcs, orders |-> s.orders, free |-> free, occupied |-> occupied,
                broken |-> broken]
    PROVE  LoopOK(t, D)
BY Zenon DEF LoopOK

LEMMA TravelKeepsLoop ==
    ASSUME standing \subseteq Ruins, NEW s, NEW D, LoopOK(s, D), NEW n \in D,
           NEW t \in Travel(s, n)
    PROVE  LoopOK(t, D)
<1> DEFINE choice == Candidates(s, s.npcs[n])
<1>0. CASE choice = {}
  BY <1>0 DEF Travel
<1>1. CASE choice # {}
  <2>1. PICK r \in choice :
            IF r \in standing
            THEN t \in {Arrived(u, s.npcs[n].at, r) : u \in Teleport(s, n, r)}
            ELSE t = [s EXCEPT !.free = @ \ {r}, !.broken = @ \cup {r}]
    BY <1>1 DEF Travel
  <2>2. r \in Ruins
    BY DEF Candidates, LoopOK
  <2> HIDE DEF choice
  <2>3. CASE r \in standing
    <3>1. PICK u \in Teleport(s, n, r) : t = Arrived(u, s.npcs[n].at, r)
      BY <2>1, <2>3
    <3>2. LoopOK(u, D)
      BY <2>2, <2>3, TeleportKeepsLoop
    <3> DEFINE free == (u.free \ {r}) \cup {r}
               occupied == (u.occupied \cup {r}) \ {r}
    <3>3. t = [u EXCEPT !.free = free, !.occupied = occupied]
      BY <3>1 DEF Arrived, Freed
    <3>4. free \subseteq Ruins
      BY <2>2, <3>2 DEF LoopOK
    <3> HIDE DEF free, occupied
    <3>5. t = [npcs |-> u.npcs, orders |-> u.orders, free |-> free, occupied |-> occupied,
               broken |-> u.broken]
      BY <3>2, <3>3 DEF LoopOK
    <3> QED BY <3>2, <3>4, <3>5, RuinsTakenFromLoop
  <2>4. CASE r \notin standing
    <3> DEFINE free == s.free \ {r}
               broken == s.broken \cup {r}
    <3>1. t = [s EXCEPT !.free = free, !.broken = broken]
      BY <2>1, <2>4
    <3>2. free \subseteq Ruins
      BY DEF LoopOK
    <3> HIDE DEF free, broken
    <3>3. t = [npcs |-> s.npcs, orders |-> s.orders, free |-> free, occupied |-> s.occupied,
               broken |-> broken]
      BY <3>1 DEF LoopOK
    <3> QED BY <3>2, <3>3, RuinsTakenFromLoop
  <2> QED BY <2>3, <2>4
<1> QED BY <1>0, <1>1

LEMMA StayKeepsLoop ==
    ASSUME standing \subseteq Ruins, NEW s, NEW D, LoopOK(s, D), NEW n \in D,
           NEW t \in Stay(s, n)
    PROVE  LoopOK(t, D)
<1> DEFINE at == s.npcs[n].at
<1>1. at \in standing /\ at \in Ruins
  BY DEF LoopOK, RowsOK
<1>2. PICK new \in OrdersOf(at) : t = [s EXCEPT !.orders = WithoutOrders(@, at) (+) new]
  BY <1>1 DEF Stay
<1>3. OrdersOK(s.orders, s.npcs) /\ n \in DOMAIN s.npcs
  BY DEF LoopOK
<1> DEFINE orders == WithoutOrders(s.orders, at) (+) new
<1>4. OrdersOK(orders, s.npcs)
  <2>1. \E m \in DOMAIN s.npcs : s.npcs[m].at = at
    BY <1>3
  <2> HIDE DEF at
  <2> QED BY <1>1, <1>3, <2>1, OrdersMoved
<1>5. t = [s EXCEPT !.orders = orders]
  BY <1>2
<1> HIDE DEF orders
<1>6. t = [npcs |-> s.npcs, orders |-> orders, free |-> s.free, occupied |-> s.occupied,
           broken |-> s.broken]
  BY <1>5 DEF LoopOK
<1> QED BY <1>4, <1>6, Zenon DEF LoopOK

LEMMA ActKeepsLoop ==
    ASSUME standing \subseteq Ruins, NEW s, NEW D, LoopOK(s, D), NEW n \in D,
           NEW t \in Act(s, n)
    PROVE  LoopOK(t, D)
BY TravelKeepsLoop, StayKeepsLoop DEF Act

LEMMA SpawnKeepsLoop ==
    ASSUME standing \subseteq Ruins, NEW s, NEW D, LoopOK(s, D), NEW n \in Npcs \ D,
           NEW t \in Spawn(s, n)
    PROVE  LoopOK(t, D) \/ LoopOK(t, D \cup {n})
<1>1. CASE s.free = {}
  BY <1>1 DEF Spawn
<1>2. CASE s.free # {}
  <2> DEFINE without(r) == [s EXCEPT !.free = @ \ {r}]
             npc(r) == [at |-> r, traveling |-> TRUE, previous |-> <<>>]
  <2>1. PICK r \in s.free :
            IF r \notin standing THEN t = [without(r) EXCEPT !.broken = @ \cup {r}]
            ELSE \E new \in OrdersOf(r) :
                    t = [without(r) EXCEPT !.npcs = With(@, n, npc(r)),
                                           !.occupied = @ \cup {r}, !.orders = @ (+) new]
    BY <1>2 DEF Spawn
  <2> DEFINE free == s.free \ {r}
  <2>2. r \in Ruins /\ free \subseteq Ruins
    BY DEF LoopOK
  <2>3. without(r) = [npcs |-> s.npcs, orders |-> s.orders, free |-> free,
                      occupied |-> s.occupied, broken |-> s.broken]
    BY DEF LoopOK
  <2>4. CASE r \notin standing
    <3> DEFINE broken == s.broken \cup {r}
    <3>1. t = [without(r) EXCEPT !.broken = broken]
      BY <2>1, <2>3, <2>4
    <3> HIDE DEF broken, free, without
    <3>2. t = [npcs |-> s.npcs, orders |-> s.orders, free |-> free, occupied |-> s.occupied,
               broken |-> broken]
      BY <2>3, <3>1
    <3> QED BY <2>2, <3>2, RuinsTakenFromLoop
  <2>5. CASE r \in standing
    <3>1. PICK new \in OrdersOf(r) :
              t = [without(r) EXCEPT !.npcs = With(@, n, npc(r)),
                                     !.occupied = @ \cup {r}, !.orders = @ (+) new]
      BY <2>1, <2>5
    <3> DEFINE rows == With(s.npcs, n, npc(r))
               orders == s.orders (+) new
               occupied == s.occupied \cup {r}
    <3>2. t = [without(r) EXCEPT !.npcs = rows, !.occupied = occupied, !.orders = orders]
      BY <2>3, <3>1
    <3>3. npc(r) \in Npc /\ npc(r).at = r /\ Len(npc(r).previous) <= 3
      BY <2>2 DEF Npc
    <3>4. /\ D \subseteq Npcs /\ s.npcs \in [D -> Npc] /\ OrdersOK(s.orders, s.npcs)
          /\ \A m \in D : s.npcs[m].at \in standing /\ Len(s.npcs[m].previous) <= 3
      BY DEF LoopOK, RowsOK
    <3> HIDE DEF npc
    <3>5. /\ DOMAIN rows = D \cup {n} /\ rows \in [D \cup {n} -> Npc] /\ rows[n] = npc(r)
          /\ \A m \in D : rows[m] = s.npcs[m]
      BY <3>3, <3>4 DEF With
    <3>6. OrdersOK(orders, rows)
      <4>1. /\ \A m \in DOMAIN s.npcs : m \in DOMAIN rows /\ rows[m].at = s.npcs[m].at
            /\ \E m \in DOMAIN rows : rows[m].at = r
        BY <3>3, <3>4, <3>5
      <4> HIDE DEF rows
      <4> QED BY <2>2, <3>4, <4>1, OrdersJoined
    <3>7. t = [npcs |-> rows, orders |-> orders, free |-> free, occupied |-> occupied,
               broken |-> s.broken]
      <4>1. PICK base : base = without(r)
        OBVIOUS
      <4>2. t = [base EXCEPT !.npcs = rows, !.occupied = occupied, !.orders = orders]
        BY <3>2, <4>1
      <4>3. base = [npcs |-> s.npcs, orders |-> s.orders, free |-> free,
                    occupied |-> s.occupied, broken |-> s.broken]
        BY <2>3, <4>1
      <4> HIDE DEF rows, orders, occupied, free, without
      <4> QED BY <4>2, <4>3
    <3> HIDE DEF rows, orders, occupied, free, without
    <3>8. RowsOK(rows)
      <4>1. \A m \in D \cup {n} : rows[m].at \in standing /\ Len(rows[m].previous) <= 3
        BY <2>5, <3>3, <3>4, <3>5
      <4> QED BY <3>4, <3>5, <4>1 DEF RowsOK
    <3> QED BY <2>2, <3>5, <3>6, <3>7, <3>8, Zenon DEF LoopOK
  <2> QED BY <2>4, <2>5
<1> QED BY <1>1, <1>2

(***************************************************************************)
(* The fold of the agent's loop along a sequence of npcs as a run.         *)
(***************************************************************************)
Largest(T) == Max(T)
ActAll(n, S) == UNION {Act(s, n) : s \in S}
SpawnAll(n, S) == UNION {Spawn(s, n) : s \in S}
ActsOf(States, ids) == Step(States, Act, ids)
SpawnsOf(States, ids) == Step(States, Spawn, ids)

Acts == INSTANCE FoldLemmas WITH Op <- ActAll, Chosen <- Largest
Spawns == INSTANCE FoldLemmas WITH Op <- SpawnAll, Chosen <- Largest

LEMMA LargestIsMember ==
    ASSUME NEW n \in Nat, NEW T \in SUBSET (1 .. n), T # {}
    PROVE  Largest(T) \in T /\ \A y \in T : Largest(T) >= y
<1> DEFINE HasLargest(U) == U # {} => \E m \in U : \A y \in U : m >= y
           S == {i \in 0 .. n : \A U \in SUBSET (1 .. i) : HasLargest(U)}
<1>1. 0 \in S
  <2>1. 1 .. 0 = {}
    OBVIOUS
  <2>2. \A U \in SUBSET (1 .. 0) : HasLargest(U)
    BY <2>1
  <2> HIDE DEF HasLargest
  <2> QED BY <2>2
<1>2. ASSUME NEW i \in 1 .. n, i - 1 \in S PROVE i \in S
  <2>1. ASSUME NEW U \in SUBSET (1 .. i), i \notin U PROVE HasLargest(U)
    <3>1. U \in SUBSET (1 .. (i - 1))
      BY <2>1
    <3> QED BY <1>2, <3>1
  <2>2. ASSUME NEW U \in SUBSET (1 .. i), i \in U PROVE HasLargest(U)
    BY <2>2
  <2> QED BY <2>1, <2>2
<1>3. n \in S
  <2> HIDE DEF S
  <2> QED BY <1>1, <1>2, Sums!Induction
<1>4. \E m \in T : \A y \in T : m >= y
  BY <1>3
<1> QED BY <1>4 DEF Largest, Max

LEMMA LargestOfInterval ==
    ASSUME NEW n \in Nat, NEW i \in 1 .. n
    PROVE  Largest(1 .. i) = i
<1>1. 1 .. i \in SUBSET (1 .. n) /\ i \in 1 .. i
  OBVIOUS
<1>2. Largest(1 .. i) \in 1 .. i /\ \A y \in 1 .. i : Largest(1 .. i) >= y
  BY <1>1, LargestIsMember
<1> QED BY <1>1, <1>2

LEMMA ActsAreARun ==
    ASSUME NEW States, NEW n \in Nat, NEW ids, DOMAIN ids = 1 .. n
    PROVE  \E run : /\ run[0] = States
                    /\ \A i \in 1 .. n : run[i] = ActAll(ids[i], run[i - 1])
                    /\ ActsOf(States, ids) = run[n]
<1>1. ActsOf(States, ids) = Acts!Folding(States, ids, DOMAIN ids)
  BY DEF ActsOf, Step, FoldLeft, MapThenFoldSet, Acts!Folding, Acts!Recursion, ActAll, Largest
<1>2. Acts!Chooses(1 .. n) /\ \A i \in 1 .. n : Largest(1 .. i) = i
  BY LargestIsMember, LargestOfInterval DEF Acts!Chooses
<1> QED BY <1>1, <1>2, Acts!FoldIsRun

LEMMA SpawnsAreARun ==
    ASSUME NEW States, NEW n \in Nat, NEW ids, DOMAIN ids = 1 .. n
    PROVE  \E run : /\ run[0] = States
                    /\ \A i \in 1 .. n : run[i] = SpawnAll(ids[i], run[i - 1])
                    /\ SpawnsOf(States, ids) = run[n]
<1>1. SpawnsOf(States, ids) = Spawns!Folding(States, ids, DOMAIN ids)
  BY DEF SpawnsOf, Step, FoldLeft, MapThenFoldSet, Spawns!Folding, Spawns!Recursion, SpawnAll, Largest
<1>2. Spawns!Chooses(1 .. n) /\ \A i \in 1 .. n : Largest(1 .. i) = i
  BY LargestIsMember, LargestOfInterval DEF Spawns!Chooses
<1> QED BY <1>1, <1>2, Spawns!FoldIsRun

LEMMA AgentLoopKeepsInv ==
    ASSUME ShopInv, TravelersAct
    PROVE  ShopInv'
<1>a. PICK acting \in SUBSET DOMAIN npcs, new \in Missing :
          \E order \in SetToSeqs(acting) :
          \E s \in SpawnsOf(ActsOf({LoopStart}, order), SetToSeq(new)) :
              /\ npcs' = s.npcs /\ tradeOrders' = s.orders
              /\ ruinCache' = ruinCache \ s.broken /\ standing' = standing
  BY Zenon DEF TravelersAct, AgentLoop, ActsOf, SpawnsOf
<1>b. PICK order \in SetToSeqs(acting) :
          \E s \in SpawnsOf(ActsOf({LoopStart}, order), SetToSeq(new)) :
              /\ npcs' = s.npcs /\ tradeOrders' = s.orders
              /\ ruinCache' = ruinCache \ s.broken /\ standing' = standing
  BY Zenon, <1>a
<1>1. PICK s \in SpawnsOf(ActsOf({LoopStart}, order), SetToSeq(new)) :
          /\ npcs' = s.npcs /\ tradeOrders' = s.orders
          /\ ruinCache' = ruinCache \ s.broken /\ standing' = standing
  BY Zenon, <1>b
<1>2. packs' = packs /\ stalls' = stalls
  BY DEF TravelersAct
<1>3. /\ standing \subseteq Ruins /\ ruinCache \subseteq Ruins
      /\ RowsOK(npcs) /\ OrdersOK(tradeOrders, npcs) /\ StoragesOK
      /\ DOMAIN npcs \subseteq Npcs
  BY DEF ShopInv, RowsOK
<1> DEFINE D == DOMAIN npcs
           k == Cardinality(acting)
           m == Cardinality(new)
           ids == SetToSeq(new)
<1>4. k \in Nat /\ order \in [1 .. k -> acting]
  <2>1. IsFiniteSet(acting)
    BY <1>3, TravelersAssumption, FS_Subset
  <2> QED BY <2>1, FS_CardinalityType DEF SetToSeqs
<1>5. /\ m \in Nat /\ new \subseteq Npcs \ D
      /\ ids \in [1 .. m -> new] /\ \A i, j \in 1 .. m : ids[i] = ids[j] => i = j
  <2>1. new \subseteq Npcs \ D
    BY DEF Missing
  <2>2. IsFiniteSet(new)
    BY <2>1, TravelersAssumption, FS_Subset
  <2>3. m \in Nat
    BY <2>2, FS_CardinalityType
  <2>4. \E f \in [1 .. m -> new] : IsInjective(f)
    <3>1. ExistsBijection(1 .. m, new)
      BY <2>2, FS_NatBijection, FS_CardinalityType
    <3> QED BY <3>1 DEF ExistsBijection, Bijection, Injection, IsInjective
  <2>5. ids \in [1 .. m -> new] /\ IsInjective(ids)
    BY <2>4 DEF SetToSeq
  <2> HIDE DEF ids, m
  <2> QED BY <2>1, <2>3, <2>5 DEF IsInjective
<1>6. \A t \in ActsOf({LoopStart}, order) : LoopOK(t, D)
  <2>1. PICK run : /\ run[0] = {LoopStart}
                   /\ \A i \in 1 .. k : run[i] = ActAll(order[i], run[i - 1])
                   /\ ActsOf({LoopStart}, order) = run[k]
    <3>1. DOMAIN order = 1 .. k
      BY <1>4
    <3> HIDE DEF k
    <3> QED BY <1>4, <3>1, ActsAreARun
  <2> DEFINE S == {i \in 0 .. k : \A t \in run[i] : LoopOK(t, D)}
  <2>2. 0 \in S
    <3>1. LoopOK(LoopStart, D)
      BY <1>3 DEF LoopOK, LoopStart
    <3> QED BY <1>4, <2>1, <3>1
  <2>3. ASSUME NEW i \in 1 .. k, i - 1 \in S PROVE i \in S
    <3>1. ASSUME NEW t \in run[i] PROVE LoopOK(t, D)
      <4>1. PICK u \in run[i - 1] : t \in Act(u, order[i])
        BY <2>1 DEF ActAll
      <4>2. LoopOK(u, D)
        BY <2>3
      <4>3. order[i] \in D
        BY <1>4
      <4> QED BY <1>3, <4>1, <4>2, <4>3, ActKeepsLoop
    <3> QED BY <1>4, <3>1
  <2>4. k \in S
    <3> HIDE DEF S, k
    <3> QED BY <1>4, <2>2, <2>3, Sums!Induction
  <2> QED BY <2>1, <2>4
<1>7. \E E \in SUBSET new : LoopOK(s, D \cup E)
  <2> DEFINE States == ActsOf({LoopStart}, order)
  <2>1. PICK run : /\ run[0] = States
                   /\ \A i \in 1 .. m : run[i] = SpawnAll(ids[i], run[i - 1])
                   /\ SpawnsOf(States, ids) = run[m]
    <3>1. DOMAIN ids = 1 .. m
      BY <1>5
    <3> HIDE DEF m, ids, States
    <3> QED BY <1>5, <3>1, SpawnsAreARun
  <2> DEFINE Spawned(i) == {ids[j] : j \in 1 .. i}
             S == {i \in 0 .. m : \A t \in run[i] :
                       \E E \in SUBSET Spawned(i) : LoopOK(t, D \cup E)}
  <2>2. 0 \in S
    <3>1. ASSUME NEW t \in run[0] PROVE \E E \in SUBSET Spawned(0) : LoopOK(t, D \cup E)
      <4>1. LoopOK(t, D)
        BY <1>6, <2>1
      <4>2. {} \in SUBSET Spawned(0) /\ D = D \cup {}
        OBVIOUS
      <4> HIDE DEF Spawned, D
      <4> QED BY <4>1, <4>2
    <3> HIDE DEF Spawned, D
    <3> QED BY <1>5, <3>1
  <2>3. ASSUME NEW i \in 1 .. m, i - 1 \in S PROVE i \in S
    <3>1. ASSUME NEW t \in run[i]
          PROVE  \E E \in SUBSET Spawned(i) : LoopOK(t, D \cup E)
      <4>1. PICK u \in run[i - 1] : t \in Spawn(u, ids[i])
        BY <2>1 DEF SpawnAll
      <4>2. PICK E \in SUBSET Spawned(i - 1) : LoopOK(u, D \cup E)
        BY <2>3
      <4>3. ids[i] \in Npcs \ (D \cup E)
        <5>1. ids[i] \in new
          BY <1>5
        <5>2. ids[i] \notin Spawned(i - 1)
          <6>1. \A j \in 1 .. (i - 1) : j \in 1 .. m /\ j # i
            BY <1>5
          <6> HIDE DEF m, ids
          <6> QED BY <1>5, <6>1
        <5> QED BY <1>5, <5>1, <5>2
      <4>4. LoopOK(t, D \cup E) \/ LoopOK(t, (D \cup E) \cup {ids[i]})
        <5> DEFINE DE == D \cup E
        <5> HIDE DEF DE
        <5>1. LoopOK(t, DE) \/ LoopOK(t, DE \cup {ids[i]})
          BY <1>3, <4>1, <4>2, <4>3, SpawnKeepsLoop DEF DE
        <5> QED BY <5>1 DEF DE
      <4>5. E \in SUBSET Spawned(i) /\ E \cup {ids[i]} \in SUBSET Spawned(i)
        <5>1. i \in 1 .. i /\ \A j \in 1 .. (i - 1) : j \in 1 .. i
          BY <1>5
        <5> HIDE DEF ids
        <5> QED BY <5>1
      <4>6. (D \cup E) \cup {ids[i]} = D \cup (E \cup {ids[i]})
        OBVIOUS
      <4> HIDE DEF Spawned, D, ids
      <4> QED BY <4>4, <4>5, <4>6
    <3> HIDE DEF Spawned, D
    <3> QED BY <1>5, <3>1
  <2>4. m \in S
    <3> HIDE DEF S, m
    <3> QED BY <1>5, <2>2, <2>3, Sums!Induction
  <2>5. PICK E \in SUBSET Spawned(m) : LoopOK(s, D \cup E)
    BY <1>1, <2>1, <2>4
  <2>6. Spawned(m) \subseteq new
    BY <1>5
  <2> QED BY <2>5, <2>6
<1>8. RowsOK(npcs') /\ OrdersOK(tradeOrders', npcs')
  BY <1>1, <1>7 DEF LoopOK
<1>9. RowsOK(npcs)' /\ OrdersOK(tradeOrders, npcs)' /\ StoragesOK'
  BY <1>1, <1>2, <1>3, <1>8 DEF RowsOK, OrdersOK, StoragesOK
<1> QED BY <1>1, <1>3, <1>9 DEF ShopInv

LEMMA RuinFallsKeepsInv ==
    ASSUME ShopInv, RuinFalls
    PROVE  ShopInv'
<1>1. PICK r \in Ruins : Deconstruct(r)
  BY DEF RuinFalls
<1>2. packs' = packs /\ stalls' = stalls /\ ruinCache' = ruinCache /\ standing' = standing \ {r}
  BY <1>1 DEF RuinFalls, Deconstruct
<1>3. /\ standing \subseteq Ruins /\ ruinCache \subseteq Ruins
      /\ RowsOK(npcs) /\ OrdersOK(tradeOrders, npcs) /\ StoragesOK
  BY DEF ShopInv
<1>4. npcs' = [n \in {m \in DOMAIN npcs : npcs[m].at # r} |-> npcs[n]]
  <2>1. DOMAIN npcs \ NpcsAt(r) = {m \in DOMAIN npcs : npcs[m].at # r}
    BY DEF NpcsAt
  <2> QED BY <1>1, <2>1 DEF Deconstruct
<1>5. RowsOK(npcs)'
  BY <1>2, <1>3, <1>4 DEF RowsOK
<1>6. /\ IsABag(tradeOrders) /\ DOMAIN tradeOrders \subseteq TradeOrder
      /\ \A o \in DOMAIN tradeOrders :
            o.shop \in Ruins => \E n \in DOMAIN npcs : npcs[n].at = o.shop
  BY <1>3 DEF OrdersOK
<1>7. /\ IsABag(tradeOrders')
      /\ \A o \in DOMAIN tradeOrders' :
            o \in DOMAIN tradeOrders /\ (o.shop \in Ruins => o.shop # r)
  <2>1. CASE NpcsAt(r) = {}
    <3>1. tradeOrders' = tradeOrders
      BY <1>1, <2>1 DEF Deconstruct
    <3>2. \A n \in DOMAIN npcs : npcs[n].at # r
      BY <2>1 DEF NpcsAt
    <3> QED BY <1>6, <3>1, <3>2
  <2>2. CASE NpcsAt(r) # {}
    <3>1. tradeOrders' = WithoutOrders(tradeOrders, r)
      BY <1>1, <2>2 DEF Deconstruct
    <3>2. /\ IsABag(WithoutOrders(tradeOrders, r))
          /\ DOMAIN WithoutOrders(tradeOrders, r) = {o \in DOMAIN tradeOrders : o.shop # r}
      BY <1>6, OrdersAreLeft
    <3> QED BY <3>1, <3>2
  <2> QED BY <2>1, <2>2
<1>8. OrdersOK(tradeOrders, npcs)'
  BY <1>4, <1>6, <1>7 DEF OrdersOK
<1>9. StoragesOK'
  BY <1>2, <1>3 DEF StoragesOK
<1> QED BY <1>2, <1>3, <1>5, <1>8, <1>9 DEF ShopInv

(***************************************************************************)
(* Orders come, go and are accepted.                                       *)
(***************************************************************************)
LEMMA ShopsOfParts ==
    ASSUME ShopInv, npcs' = npcs, standing' = standing, ruinCache' = ruinCache,
           IsABag(tradeOrders'), DOMAIN tradeOrders' \subseteq TradeOrder,
           \A o \in DOMAIN tradeOrders' :
               o.shop \in Ruins => \E q \in DOMAIN tradeOrders : q.shop = o.shop,
           StoragesOK'
    PROVE  ShopInv'
BY DEF ShopInv, RowsOK, OrdersOK

LEMMA SoldOrders ==
    ASSUME ShopInv, NEW o \in DOMAIN tradeOrders, InStock(o), Sold(o)
    PROVE  /\ IsABag(tradeOrders') /\ DOMAIN tradeOrders' \subseteq TradeOrder
           /\ \A u \in DOMAIN tradeOrders' :
                 u.shop \in Ruins => \E q \in DOMAIN tradeOrders : q.shop = u.shop
<1>1. IsABag(tradeOrders) /\ DOMAIN tradeOrders \subseteq TradeOrder /\ o \in TradeOrder
  BY DEF ShopInv, OrdersOK
<1>2. CASE o.stock = Unlimited
  BY <1>1, <1>2 DEF Sold
<1>3. CASE o.stock # Unlimited
  <2> DEFINE rest == [o EXCEPT !.stock = @ - 1]
             kept == tradeOrders (-) SetToBag({o})
  <2>1. o.stock \in Nat /\ o.stock > 0
    BY <1>1, <1>3 DEF TradeOrder, InStock
  <2>2. rest \in TradeOrder /\ rest.shop = o.shop
    <3> DEFINE n == o.stock - 1
    <3>1. n \in Nat /\ rest = [o EXCEPT !.stock = n]
      BY <2>1
    <3> HIDE DEF n, rest
    <3> QED BY <1>1, <3>1 DEF TradeOrder
  <2>3. tradeOrders' = kept (+) SetToBag({rest})
    BY <1>3 DEF Sold
  <2>4. IsABag(kept) /\ DOMAIN kept \subseteq DOMAIN tradeOrders
    BY <1>1, BagReduced, BagOfSet
  <2> HIDE DEF rest, kept
  <2>5. IsABag(tradeOrders') /\ DOMAIN tradeOrders' = DOMAIN kept \cup {rest}
    BY <2>3, <2>4, BagsJoined, BagOfSet
  <2> QED BY <1>1, <2>2, <2>4, <2>5
<1> QED BY <1>2, <1>3

LEMMA Counted ==
    ASSUME NEW f, NEW S, NEW T, f \in [S -> [T -> Nat]], NEW x \in S, NEW y \in T, NEW n \in Nat
    PROVE  /\ [f EXCEPT ![x][y] = n] \in [S -> [T -> Nat]]
           /\ \A u \in S, v \in T :
                 [f EXCEPT ![x][y] = n][u][v] = IF u = x /\ v = y THEN n ELSE f[u][v]
OBVIOUS

(***************************************************************************)
(* What a player carries and what a stall holds after a barter.            *)
(***************************************************************************)
LEMMA BarteredGoods ==
    ASSUME TownInv, ShopInv, NEW p \in Players, NEW o \in TradeOrder, Bartered(p, o)
    PROVE  /\ coins' \in [Players -> Nat]
           /\ packs' \in [Players -> [Wares -> Nat]]
           /\ \A q \in Players, k \in Wares : packs'[q][k] <= PackRoom[k]
<1>1. /\ coins \in [Players -> Nat] /\ packs \in [Players -> [Wares -> Nat]]
      /\ \A q \in Players, k \in Wares : packs[q][k] <= PackRoom[k]
      /\ \A k \in Wares : PackRoom[k] \in Nat
  BY BarterAssumption DEF TownInv, ClaimTypeOK, ShopInv, StoragesOK
<1>2. /\ \A k \in Kinds : o.offer[k] \in Nat /\ o.required[k] \in Nat
      /\ "coin" \in Kinds /\ Wares \subseteq Kinds
  BY DEF TradeOrder, Goods, Kinds, Wares
<1>3. coins' \in [Players -> Nat]
  BY <1>1, <1>2 DEF Bartered
<1> DEFINE left == [k \in Wares |-> packs[p][k] - o.required[k] + o.offer[k]]
<1>4. left \in [Wares -> Nat] /\ \A k \in Wares : left[k] <= PackRoom[k]
  <2>1. ASSUME NEW k \in Wares PROVE left[k] \in Nat /\ left[k] <= PackRoom[k]
    BY <1>1, <1>2 DEF Bartered, FitsPack
  <2> QED BY <2>1
<1>5. packs' = [packs EXCEPT ![p] = left]
  BY DEF Bartered
<1> HIDE DEF left
<1> QED BY <1>1, <1>3, <1>4, <1>5

LEMMA StallChanged ==
    ASSUME ShopInv, NEW s \in Shops, NEW goods \in Goods,
           \A k \in Wares : goods[k] <= StallRoom[k],
           stalls' = [stalls EXCEPT ![s] = goods],
           packs' \in [Players -> [Wares -> Nat]],
           \A q \in Players, k \in Wares : packs'[q][k] <= PackRoom[k]
    PROVE  StoragesOK'
<1>1. stalls \in [Shops -> Goods] /\ \A q \in Shops, k \in Wares : stalls[q][k] <= StallRoom[k]
  BY DEF ShopInv, StoragesOK
<1>2. stalls' \in [Shops -> Goods] /\ \A q \in Shops : stalls'[q] = IF q = s THEN goods ELSE stalls[q]
  BY <1>1
<1> QED BY <1>1, <1>2 DEF StoragesOK

LEMMA ExchangedGoods ==
    ASSUME ShopInv, NEW s \in Shops, NEW o \in TradeOrder, NEW kinds,
           Wares \subseteq kinds, Exchanged(s, o, kinds)
    PROVE  /\ \A k \in Wares : StallAfter(s, o)[k] \in Nat /\ StallAfter(s, o)[k] <= StallRoom[k]
           /\ "coin" \in kinds => StallAfter(s, o)["coin"] \in Nat
           /\ DOMAIN StallAfter(s, o) = Kinds /\ Kinds = Wares \cup {"coin"} /\ "coin" \notin Wares
           /\ stalls[s]["coin"] \in Nat
<1>1. /\ stalls[s] \in [Kinds -> Nat] /\ o.offer \in [Kinds -> Nat] /\ o.required \in [Kinds -> Nat]
      /\ \A k \in Wares : StallRoom[k] \in Nat
  BY BarterAssumption DEF ShopInv, StoragesOK, TradeOrder, Goods
<1>2. Kinds = Wares \cup {"coin"} /\ "coin" \notin Wares
  BY DEF Kinds, Wares
<1>3. /\ DOMAIN StallAfter(s, o) = Kinds
      /\ \A k \in Kinds : StallAfter(s, o)[k] = stalls[s][k] - o.offer[k] + o.required[k]
  BY DEF StallAfter
<1>4. /\ \A k \in kinds : stalls[s][k] >= o.offer[k]
      /\ \A k \in Wares : stalls[s][k] - o.offer[k] + o.required[k] <= StallRoom[k]
  BY DEF Exchanged
<1>5. \A k \in Wares : StallAfter(s, o)[k] \in Nat /\ StallAfter(s, o)[k] <= StallRoom[k]
  <2>1. ASSUME NEW k \in Wares PROVE StallAfter(s, o)[k] \in Nat /\ StallAfter(s, o)[k] <= StallRoom[k]
    <3>1. /\ stalls[s][k] \in Nat /\ o.offer[k] \in Nat /\ o.required[k] \in Nat
          /\ k \in kinds /\ k \in Kinds
      BY <1>1, <1>2
    <3> QED BY <1>3, <1>4, <3>1
  <2> QED BY <2>1
<1>6. "coin" \in kinds => StallAfter(s, o)["coin"] \in Nat
  <2>1. /\ stalls[s]["coin"] \in Nat /\ o.offer["coin"] \in Nat /\ o.required["coin"] \in Nat
        /\ "coin" \in Kinds
    BY <1>1, <1>2
  <2> QED BY <1>3, <1>4, <2>1
<1> QED BY <1>1, <1>2, <1>3, <1>5, <1>6

(***************************************************************************)
(* The goods of a stall and the treasury after an order of the stall.      *)
(***************************************************************************)
LEMMA StallPays ==
    ASSUME TownInv, NEW price \in Nat, NEW stored \in Nat, treasury >= FromTreasury(price, stored)
    PROVE  /\ treasury - FromTreasury(price, stored) \in Nat
           /\ stored - FromStorage(price, stored) \in Nat
<1>1. treasury \in Nat
  BY DEF TownInv, ClaimTypeOK
<1>2. FromStorage(price, stored) = IF price <= stored THEN price ELSE stored
  BY MinOfTwo DEF FromStorage
<1> QED BY <1>1, <1>2 DEF FromTreasury

LEMMA BarterKeepsTown ==
    ASSUME TownInv, owner' = owner, members' = members, openings' = openings,
           supplies' = supplies, learned' = learned, researching' = researching,
           techTimers' = techTimers, rents' = rents, evictTimers' = evictTimers,
           treasury' \in Nat, coins' \in [Players -> Nat]
    PROVE  TownInv'
<1>1. RentsInv'
  BY RentsStay
<1> QED BY <1>1, TownOfParts DEF TownInv, ClaimTypeOK, OneResearch

LEMMA AcceptingKeepsInv ==
    ASSUME TownInv, ShopInv, evictTimers' = evictTimers,
           NEW p \in Players, NEW o \in DOMAIN tradeOrders,
           AcceptFromHawker(p, o) \/ AcceptFromStall(p, o) \/ AcceptFromTraveler(p, o)
    PROVE  TownInv' /\ ShopInv'
<1>1. /\ InStock(o) /\ Bartered(p, o) /\ Sold(o)
      /\ owner' = owner /\ members' = members /\ openings' = openings
      /\ supplies' = supplies /\ learned' = learned /\ researching' = researching
      /\ techTimers' = techTimers /\ rents' = rents
      /\ npcs' = npcs /\ standing' = standing /\ ruinCache' = ruinCache
  BY DEF AcceptFromHawker, AcceptFromStall, AcceptFromTraveler, memberVars, researchVars
<1>2. o \in TradeOrder /\ treasury \in Nat /\ StoragesOK
  BY DEF ShopInv, OrdersOK, TownInv, ClaimTypeOK
<1>3. /\ coins' \in [Players -> Nat]
      /\ packs' \in [Players -> [Wares -> Nat]]
      /\ \A q \in Players, k \in Wares : packs'[q][k] <= PackRoom[k]
  BY <1>1, <1>2, BarteredGoods
<1>4. treasury' \in Nat /\ StoragesOK'
  <2>1. CASE AcceptFromHawker(p, o)
    <3>1. /\ o.shop \in Shops /\ Exchanged(o.shop, o, Kinds) /\ treasury' = treasury
          /\ stalls' = [stalls EXCEPT ![o.shop] = StallAfter(o.shop, o)]
      BY <2>1 DEF AcceptFromHawker, Shops
    <3> DEFINE goods == StallAfter(o.shop, o)
    <3>2. Wares \subseteq Kinds /\ "coin" \in Kinds
      BY DEF Wares, Kinds
    <3>3. /\ \A k \in Wares : goods[k] \in Nat /\ goods[k] <= StallRoom[k]
          /\ "coin" \in Kinds => goods["coin"] \in Nat
          /\ DOMAIN goods = Kinds /\ Kinds = Wares \cup {"coin"}
      BY <1>2, <3>1, <3>2, ExchangedGoods
    <3>4. goods = [k \in Kinds |-> goods[k]]
      BY DEF StallAfter
    <3> HIDE DEF goods
    <3>5. goods \in Goods
      BY <3>2, <3>3, <3>4 DEF Goods
    <3> QED BY <1>2, <1>3, <3>1, <3>3, <3>5, StallChanged DEF goods
  <2>2. CASE AcceptFromStall(p, o)
    <3> DEFINE price == o.offer["coin"]
               stored == stalls[o.shop]["coin"]
               left == stored - FromStorage(price, stored)
               goods == [StallAfter(o.shop, o) EXCEPT !["coin"] = left]
    <3>1. /\ o.shop \in Shops /\ Exchanged(o.shop, o, Wares)
          /\ treasury >= FromTreasury(price, stored)
          /\ treasury' = treasury - FromTreasury(price, stored) + o.required["coin"]
          /\ stalls' = [stalls EXCEPT ![o.shop] = goods]
      BY <2>2 DEF AcceptFromStall, ToTreasury, Shops
    <3>2. /\ \A k \in Wares : StallAfter(o.shop, o)[k] \in Nat
                              /\ StallAfter(o.shop, o)[k] <= StallRoom[k]
          /\ DOMAIN StallAfter(o.shop, o) = Kinds
          /\ Kinds = Wares \cup {"coin"} /\ "coin" \notin Wares
          /\ stored \in Nat
      BY <1>2, <3>1, ExchangedGoods
    <3>3. price \in Nat /\ o.required["coin"] \in Nat
      BY <1>2, <3>2 DEF TradeOrder, Goods
    <3>4. treasury - FromTreasury(price, stored) \in Nat /\ left \in Nat
      <4> HIDE DEF price, stored
      <4> QED BY <3>1, <3>2, <3>3, StallPays
    <3>5. treasury' \in Nat
      BY <3>1, <3>3, <3>4
    <3>6. goods \in Goods /\ \A k \in Wares : goods[k] <= StallRoom[k]
      <4> HIDE DEF left
      <4>1. goods = [k \in Kinds |-> IF k = "coin" THEN left ELSE StallAfter(o.shop, o)[k]]
        BY <3>2 DEF StallAfter
      <4> HIDE DEF goods
      <4> QED BY <3>2, <3>4, <4>1 DEF Goods
    <3> HIDE DEF goods
    <3> QED BY <1>2, <1>3, <3>1, <3>5, <3>6, StallChanged
  <2>3. CASE AcceptFromTraveler(p, o)
    <3>1. treasury' = treasury /\ stalls' = stalls
      BY <2>3 DEF AcceptFromTraveler
    <3> QED BY <1>2, <1>3, <3>1 DEF StoragesOK
  <2> QED BY <2>1, <2>2, <2>3
<1>5. TownInv'
  BY <1>1, <1>3, <1>4, BarterKeepsTown
<1>6. ShopInv'
  BY <1>1, <1>4, SoldOrders, ShopsOfParts
<1> QED BY <1>5, <1>6

LEMMA OrderingKeepsInv ==
    ASSUME TownInv, ShopInv, evictTimers' = evictTimers, NEW p \in Players,
           \/ \E s \in Shops, b \in Bargains : CreateOrder(p, s, b)
           \/ \E o \in BagToSet(tradeOrders) : DeleteOrder(p, o)
    PROVE  TownInv' /\ ShopInv'
<1>1. /\ owner' = owner /\ members' = members /\ openings' = openings
      /\ supplies' = supplies /\ learned' = learned /\ researching' = researching
      /\ techTimers' = techTimers /\ rents' = rents /\ treasury' = treasury /\ coins' = coins
      /\ npcs' = npcs /\ standing' = standing /\ ruinCache' = ruinCache
      /\ packs' = packs /\ stalls' = stalls
  <2>1. UNCHANGED <<claimVars, npcs, standing, ruinCache, packs, stalls>>
    BY Zenon DEF CreateOrder, DeleteOrder
  <2> QED BY <2>1 DEF claimVars, memberVars, townVars, researchVars
<1>2. /\ IsABag(tradeOrders) /\ DOMAIN tradeOrders \subseteq TradeOrder /\ StoragesOK
      /\ treasury \in Nat /\ coins \in [Players -> Nat]
  BY DEF ShopInv, OrdersOK, TownInv, ClaimTypeOK
<1>3. IsABag(tradeOrders') /\ \A o \in DOMAIN tradeOrders' :
          o \in DOMAIN tradeOrders \/ (o \in TradeOrder /\ o.shop \notin Ruins)
  <2>1. CASE \E s \in Shops, b \in Bargains : CreateOrder(p, s, b)
    <3>1. PICK s \in Shops, b \in Bargains :
              tradeOrders' = tradeOrders (+) SetToBag({OrderAt(s, b)})
      BY <2>1 DEF CreateOrder
    <3>2. OrderAt(s, b) \in TradeOrder /\ OrderAt(s, b).shop \notin Ruins
      <4>1. b \in Bargain /\ s \notin Ruins
        BY BarterAssumption DEF Shops
      <4> QED BY <4>1 DEF OrderAt, TradeOrder, Bargain
    <3>3. IsABag(tradeOrders') /\ DOMAIN tradeOrders' = DOMAIN tradeOrders \cup {OrderAt(s, b)}
      <4> DEFINE added == SetToBag({OrderAt(s, b)})
      <4>1. IsABag(added) /\ DOMAIN added = {OrderAt(s, b)}
        BY BagOfSet
      <4> HIDE DEF added
      <4>2. tradeOrders' = tradeOrders (+) added
        BY <3>1 DEF added
      <4> QED BY <1>2, <4>1, <4>2, BagsJoined
    <3> QED BY <3>2, <3>3
  <2>2. CASE \E o \in BagToSet(tradeOrders) : DeleteOrder(p, o)
    <3>1. PICK o \in BagToSet(tradeOrders) : tradeOrders' = tradeOrders (-) SetToBag({o})
      BY <2>2 DEF DeleteOrder
    <3>2. IsABag(tradeOrders') /\ DOMAIN tradeOrders' \subseteq DOMAIN tradeOrders
      BY <1>2, <3>1, BagReduced, BagOfSet
    <3> QED BY <3>2
  <2> QED BY <2>1, <2>2
<1>4. /\ DOMAIN tradeOrders' \subseteq TradeOrder
      /\ \A o \in DOMAIN tradeOrders' :
            o.shop \in Ruins => \E q \in DOMAIN tradeOrders : q.shop = o.shop
  BY <1>2, <1>3
<1>5. StoragesOK'
  BY <1>1, <1>2 DEF StoragesOK
<1>6. TownInv'
  BY <1>1, <1>2, BarterKeepsTown
<1>7. ShopInv'
  BY <1>1, <1>3, <1>4, <1>5, ShopsOfParts
<1> QED BY <1>6, <1>7

LEMMA StoringKeepsInv ==
    ASSUME TownInv, ShopInv, evictTimers' = evictTimers, NEW p \in Players,
           NEW s \in Shops, NEW k \in Kinds, PutIn(p, s, k) \/ TakeOut(p, s, k)
    PROVE  TownInv' /\ ShopInv'
<1>1. /\ owner' = owner /\ members' = members /\ openings' = openings
      /\ supplies' = supplies /\ learned' = learned /\ researching' = researching
      /\ techTimers' = techTimers /\ rents' = rents /\ treasury' = treasury
      /\ npcs' = npcs /\ standing' = standing /\ ruinCache' = ruinCache
      /\ tradeOrders' = tradeOrders
  <2>1. UNCHANGED <<memberVars, supplies, treasury, researchVars, rents, travelerVars>>
    BY Zenon DEF PutIn, TakeOut
  <2> QED BY <2>1 DEF memberVars, researchVars, travelerVars
<1>2. /\ IsABag(tradeOrders) /\ DOMAIN tradeOrders \subseteq TradeOrder
      /\ treasury \in Nat /\ coins \in [Players -> Nat]
      /\ packs \in [Players -> [Wares -> Nat]]
      /\ stalls \in [Shops -> [Kinds -> Nat]]
      /\ \A q \in Players, w \in Wares : packs[q][w] <= PackRoom[w]
      /\ \A q \in Shops, w \in Wares : stalls[q][w] <= StallRoom[w]
      /\ \A w \in Wares : PackRoom[w] \in Nat /\ StallRoom[w] \in Nat
      /\ Wares \subseteq Kinds /\ "coin" \notin Wares /\ (k # "coin" => k \in Wares)
  BY BarterAssumption
  DEF ShopInv, OrdersOK, StoragesOK, Goods, TownInv, ClaimTypeOK, Wares, Kinds
<1>3. CASE PutIn(p, s, k)
  <2> DEFINE n == stalls[s][k] + 1
  <2>1. stalls' = [stalls EXCEPT ![s][k] = n] /\ n \in Nat
    BY <1>2, <1>3 DEF PutIn
  <2>2. k # "coin" => n <= StallRoom[k]
    BY <1>2, <1>3 DEF PutIn
  <2> HIDE DEF n
  <2>3. /\ stalls' \in [Shops -> [Kinds -> Nat]]
        /\ \A q \in Shops, w \in Wares : stalls'[q][w] <= StallRoom[w]
    BY <1>2, <2>1, <2>2, Counted
  <2>4. coins' \in [Players -> Nat] /\ packs' \in [Players -> [Wares -> Nat]]
        /\ \A q \in Players, w \in Wares : packs'[q][w] <= PackRoom[w]
    <3>1. CASE k = "coin"
      BY <1>2, <1>3, <3>1 DEF PutIn
    <3>2. CASE k # "coin"
      <4> DEFINE m == packs[p][k] - 1
      <4>1. packs' = [packs EXCEPT ![p][k] = m] /\ m \in Nat /\ m <= PackRoom[k] /\ coins' = coins
        BY <1>2, <1>3, <3>2 DEF PutIn
      <4> HIDE DEF m
      <4>2. /\ packs \in [Players -> [Wares -> Nat]] /\ k \in Wares
            /\ \A q \in Players, w \in Wares : packs[q][w] <= PackRoom[w]
        BY <1>2, <3>2
      <4>3. /\ packs' \in [Players -> [Wares -> Nat]]
            /\ \A q \in Players, w \in Wares :
                  packs'[q][w] = IF q = p /\ w = k THEN m ELSE packs[q][w]
        BY <4>1, <4>2, Counted
      <4> QED BY <1>2, <4>1, <4>2, <4>3
    <3> QED BY <3>1, <3>2
  <2>5. StoragesOK'
    BY <2>3, <2>4 DEF StoragesOK, Goods
  <2>6. TownInv'
    BY <1>1, <1>2, <2>4, BarterKeepsTown
  <2>7. ShopInv'
    BY <1>1, <1>2, <2>5, ShopsOfParts
  <2> QED BY <2>6, <2>7
<1>4. CASE TakeOut(p, s, k)
  <2> DEFINE n == stalls[s][k] - 1
  <2>1. stalls' = [stalls EXCEPT ![s][k] = n] /\ n \in Nat
    BY <1>2, <1>4 DEF TakeOut
  <2>2. k # "coin" => n <= StallRoom[k]
    BY <1>2, <1>4 DEF TakeOut
  <2> HIDE DEF n
  <2>3. /\ stalls' \in [Shops -> [Kinds -> Nat]]
        /\ \A q \in Shops, w \in Wares : stalls'[q][w] <= StallRoom[w]
    BY <1>2, <2>1, <2>2, Counted
  <2>4. coins' \in [Players -> Nat] /\ packs' \in [Players -> [Wares -> Nat]]
        /\ \A q \in Players, w \in Wares : packs'[q][w] <= PackRoom[w]
    <3>1. CASE k = "coin"
      BY <1>2, <1>4, <3>1 DEF TakeOut
    <3>2. CASE k # "coin"
      <4> DEFINE m == packs[p][k] + 1
      <4>1. packs' = [packs EXCEPT ![p][k] = m] /\ m \in Nat /\ m <= PackRoom[k] /\ coins' = coins
        BY <1>2, <1>4, <3>2 DEF TakeOut
      <4> HIDE DEF m
      <4>2. /\ packs \in [Players -> [Wares -> Nat]] /\ k \in Wares
            /\ \A q \in Players, w \in Wares : packs[q][w] <= PackRoom[w]
        BY <1>2, <3>2
      <4>3. /\ packs' \in [Players -> [Wares -> Nat]]
            /\ \A q \in Players, w \in Wares :
                  packs'[q][w] = IF q = p /\ w = k THEN m ELSE packs[q][w]
        BY <4>1, <4>2, Counted
      <4> QED BY <1>2, <4>1, <4>2, <4>3
    <3> QED BY <3>1, <3>2
  <2>5. StoragesOK'
    BY <2>3, <2>4 DEF StoragesOK, Goods
  <2>6. TownInv'
    BY <1>1, <1>2, <2>4, BarterKeepsTown
  <2>7. ShopInv'
    BY <1>1, <1>2, <2>5, ShopsOfParts
  <2> QED BY <2>6, <2>7
<1> QED BY <1>3, <1>4

LEMMA BarterKeepsInv ==
    ASSUME TownInv, ShopInv, evictTimers' = evictTimers, NEW p \in Players, Barter(p)
    PROVE  TownInv' /\ ShopInv'
<1>1. \/ \E s \in Shops, b \in Bargains : CreateOrder(p, s, b)
      \/ \E o \in BagToSet(tradeOrders) : DeleteOrder(p, o)
      \/ \E o \in DOMAIN tradeOrders :
            AcceptFromHawker(p, o) \/ AcceptFromStall(p, o) \/ AcceptFromTraveler(p, o)
      \/ \E s \in Shops, k \in Kinds : PutIn(p, s, k) \/ TakeOut(p, s, k)
  BY Zenon DEF Barter, BagToSet
<1> QED BY <1>1, OrderingKeepsInv, AcceptingKeepsInv, StoringKeepsInv

-----------------------------------------------------------------------------
(***************************************************************************)
(* The settlement                                                          *)
(***************************************************************************)
SettlementInv == TownInv /\ ShopInv

Lawful == Bestowed /\ \A r \in RentIds : GivenUp(r)

LEMMA SameMembersAreLawful ==
    ASSUME TownInv, members' = members
    PROVE  Bestowed
BY DEF Bestowed, TownInv, ClaimTypeOK, Ranks, Member, CoOwner

LEMMA SameRentsAreLawful ==
    ASSUME rents' = rents
    PROVE  \A r \in RentIds : GivenUp(r)
BY DEF GivenUp

LEMMA TownStays ==
    ASSUME TownInv, UNCHANGED <<claimVars, evictTimers>>
    PROVE  TownInv' /\ Lawful
<1>1. /\ owner' = owner /\ members' = members /\ openings' = openings
      /\ supplies' = supplies /\ learned' = learned /\ researching' = researching
      /\ techTimers' = techTimers /\ rents' = rents /\ treasury' = treasury /\ coins' = coins
      /\ evictTimers' = evictTimers
  BY DEF claimVars, memberVars, townVars, researchVars
<1>2. TownInv'
  BY <1>1, BarterKeepsTown DEF TownInv, ClaimTypeOK
<1> QED BY <1>1, <1>2, SameMembersAreLawful, SameRentsAreLawful DEF Lawful

LEMMA ShopsStay ==
    ASSUME ShopInv, UNCHANGED <<travelerVars, packs, stalls>>
    PROVE  ShopInv'
<1>1. /\ npcs' = npcs /\ tradeOrders' = tradeOrders /\ standing' = standing
      /\ ruinCache' = ruinCache /\ packs' = packs /\ stalls' = stalls
  BY DEF travelerVars
<1> QED BY <1>1 DEF ShopInv, RowsOK, OrdersOK, StoragesOK

LEMMA MembershipSceneKeepsInv ==
    ASSUME SettlementInv, MembershipScene
    PROVE  SettlementInv' /\ Lawful
<1>1. UNCHANGED <<evictTimers, travelerVars, packs, stalls, marketVars>>
  BY Zenon DEF MembershipScene
<1>2. ShopInv' /\ evictTimers' = evictTimers
  BY <1>1, ShopsStay DEF SettlementInv
<1>3. CASE Supplying
  <2>1. members' = members /\ rents' = rents
    BY <1>3 DEF Supplying, Decay, Resupply, memberVars
  <2> QED
    BY <1>2, <1>3, <2>1, SupplyingKeepsInv, SameMembersAreLawful, SameRentsAreLawful
    DEF SettlementInv, Lawful
<1>4. ASSUME NEW p \in Players, Membership(p)
      PROVE  SettlementInv' /\ Lawful
  <2>1. rents' = rents
    BY <1>4 DEF Membership, ApplyForRecruitment, Leave, TakeOwnership, SetRecruitment, AddMember,
       RemoveMember, TransferOwnership, SetMemberPermissions, townVars
  <2> QED
    BY <1>2, <1>4, <2>1, MembershipKeepsInv, MembershipBestows, SameRentsAreLawful
    DEF SettlementInv, Lawful
<1> QED BY <1>3, <1>4 DEF MembershipScene

LEMMA ResearchSceneKeepsInv ==
    ASSUME SettlementInv, ResearchScene
    PROVE  SettlementInv' /\ Lawful
<1>1. UNCHANGED <<evictTimers, travelerVars, packs, stalls, marketVars>>
  BY Zenon DEF ResearchScene
<1>2. ShopInv' /\ evictTimers' = evictTimers
  BY <1>1, ShopsStay DEF SettlementInv
<1>3. PICK p \in Players : Supplying \/ Funding(p) \/ Research(p)
  BY SettlementAssumption DEF ResearchScene, Everybody
<1>4. members' = members /\ rents' = rents
  BY <1>3 DEF Supplying, Decay, Resupply, Funding, PurchaseSupplies, Deposit, Withdraw,
     Research, CancelTech, LearnTech, UnlockTech, memberVars
<1>5. TownInv'
  BY <1>2, <1>3, SupplyingKeepsInv, FundingKeepsInv, ResearchKeepsInv DEF SettlementInv
<1> QED
  BY <1>2, <1>4, <1>5, SameMembersAreLawful, SameRentsAreLawful DEF SettlementInv, Lawful

LEMMA RentalSceneKeepsInv ==
    ASSUME SettlementInv, RentalScene
    PROVE  SettlementInv' /\ Lawful
<1>1. UNCHANGED <<travelerVars, packs, stalls, marketVars>>
  BY Zenon DEF RentalScene
<1>2. ShopInv'
  BY <1>1, ShopsStay DEF SettlementInv
<1>3. CASE RentTimers
  <2>1. members' = members
    BY <1>3 DEF RentTimers, CollectRents, EvictTerm, OtherTown, memberVars
  <2> QED
    BY <1>2, <1>3, <2>1, RentTimersKeepInv, TimersAreGivenUp, SameMembersAreLawful
    DEF SettlementInv, Lawful
<1>4. ASSUME NEW p \in Players, Renting(p)
      PROVE  SettlementInv' /\ Lawful
  <2>1. members' = members
    <3>1. UNCHANGED OtherTown
      BY <1>4, Zenon DEF Renting, RentPurchase, Terminate, CollectEvictionFee, TakeBack, EvictAtOnce,
         GiveNotice, SetListed, SetDailyRate, DepositRent, AddTenant, RemoveTenant
    <3> QED BY <3>1 DEF OtherTown, memberVars
  <2> QED
    BY <1>2, <1>4, <2>1, RentingKeepsInv, RentingIsGivenUp, SameMembersAreLawful
    DEF SettlementInv, Lawful
<1>5. ASSUME NEW p \in Players, NEW q \in Players,
             Leave(p) \/ AddMember(p, q) \/ RemoveMember(p, q), evictTimers' = evictTimers
      PROVE  SettlementInv' /\ Lawful
  <2>1. Membership(p)
    BY <1>5, Zenon DEF Membership
  <2>2. rents' = rents
    BY <1>5 DEF Leave, AddMember, RemoveMember, townVars
  <2> QED
    BY <1>2, <1>5, <2>1, <2>2, MembershipKeepsInv, MembershipBestows, SameRentsAreLawful
    DEF SettlementInv, Lawful
<1> QED BY <1>3, <1>4, <1>5, Zenon DEF RentalScene

LEMMA BarterSceneKeepsInv ==
    ASSUME SettlementInv, BarterScene
    PROVE  SettlementInv' /\ Lawful
<1>1. evictTimers' = evictTimers
  BY DEF BarterScene
<1>2. ASSUME NEW p \in Players, Barter(p)
      PROVE  SettlementInv' /\ Lawful
  <2>1. members' = members /\ rents' = rents
    <3>1. CASE \E s \in Shops, k \in Kinds : PutIn(p, s, k) \/ TakeOut(p, s, k)
      BY <3>1 DEF PutIn, TakeOut, memberVars
    <3>2. CASE \E o \in BagToSet(tradeOrders) :
                  AcceptFromHawker(p, o) \/ AcceptFromStall(p, o) \/ AcceptFromTraveler(p, o)
      BY <3>2 DEF AcceptFromHawker, AcceptFromStall, AcceptFromTraveler, memberVars
    <3>3. CASE \/ \E s \in Shops, b \in Bargains : CreateOrder(p, s, b)
               \/ \E o \in BagToSet(tradeOrders) : DeleteOrder(p, o)
      <4>1. UNCHANGED claimVars
        BY <3>3, Zenon DEF CreateOrder, DeleteOrder
      <4> QED BY <4>1 DEF claimVars, memberVars, townVars
    <3> QED BY <1>2, <3>1, <3>2, <3>3, Zenon DEF Barter
  <2> QED
    BY <1>1, <1>2, <2>1, BarterKeepsInv, SameMembersAreLawful, SameRentsAreLawful
    DEF SettlementInv, Lawful
<1>3. ASSUME NEW p \in Players, Deposit(p, 1), UNCHANGED <<travelerVars, packs, stalls>>
      PROVE  SettlementInv' /\ Lawful
  <2>1. /\ owner' = owner /\ members' = members /\ openings' = openings
        /\ supplies' = supplies /\ learned' = learned /\ researching' = researching
        /\ techTimers' = techTimers /\ rents' = rents
    BY <1>3 DEF Deposit, memberVars, researchVars
  <2>2. treasury' \in Nat /\ coins' \in [Players -> Nat]
    BY <1>3 DEF Deposit, SettlementInv, TownInv, ClaimTypeOK
  <2>3. TownInv'
    BY <1>1, <2>1, <2>2, BarterKeepsTown DEF SettlementInv
  <2> QED
    BY <1>3, <2>1, <2>3, ShopsStay, SameMembersAreLawful, SameRentsAreLawful
    DEF SettlementInv, Lawful
<1>4. Players \ {p3} \subseteq Players
  OBVIOUS
<1> QED BY <1>2, <1>3, <1>4, Zenon DEF BarterScene

LEMMA TravelerSceneKeepsInv ==
    ASSUME SettlementInv, TravelerScene
    PROVE  SettlementInv' /\ Lawful
<1>1. evictTimers' = evictTimers
  BY DEF TravelerScene
<1>2. CASE TravelersAct \/ RuinFalls
  <2>1. UNCHANGED claimVars
    BY <1>2, Zenon DEF TravelersAct, RuinFalls
  <2> QED
    BY <1>1, <1>2, <2>1, TownStays, AgentLoopKeepsInv, RuinFallsKeepsInv DEF SettlementInv
<1>3. ASSUME NEW o \in DOMAIN tradeOrders, AcceptFromTraveler(p2, o)
      PROVE  SettlementInv' /\ Lawful
  <2>1. p2 \in Players
    BY SettlementAssumption DEF Everybody
  <2>2. members' = members /\ rents' = rents
    BY <1>3 DEF AcceptFromTraveler, memberVars
  <2> QED
    BY <1>1, <1>3, <2>1, <2>2, AcceptingKeepsInv, SameMembersAreLawful, SameRentsAreLawful
    DEF SettlementInv, Lawful
<1> QED BY <1>2, <1>3, Zenon DEF TravelerScene, BagToSet

LEMMA NextKeepsInv ==
    ASSUME SettlementInv, [Next]_settlementVars
    PROVE  SettlementInv' /\ Lawful
<1>1. CASE MarketScene
  <2>1. UNCHANGED <<claimVars, evictTimers, travelerVars, packs, stalls>>
    BY <1>1, Zenon DEF MarketScene
  <2> QED BY <2>1, TownStays, ShopsStay DEF SettlementInv
<1>2. CASE UNCHANGED settlementVars
  <2>1. UNCHANGED <<claimVars, evictTimers, travelerVars, packs, stalls>>
    BY <1>2, Zenon DEF settlementVars
  <2> QED BY <2>1, TownStays, ShopsStay DEF SettlementInv
<1> QED
  BY <1>1, <1>2, MembershipSceneKeepsInv, ResearchSceneKeepsInv, RentalSceneKeepsInv,
     BarterSceneKeepsInv, TravelerSceneKeepsInv, Zenon DEF Next

LEMMA InitIsInOrder ==
    ASSUME Init
    PROVE  SettlementInv
<1>1. TownInit /\ ShopInit
  BY DEF Init
<1>2. /\ p1 # p2 /\ p1 # p3 /\ p2 # p3 /\ {p1, p2, p3} \subseteq Players
      /\ MaxSupplies >= 2 /\ MaxSupplies \in Nat
      /\ PackRoom["item"] >= 1 /\ StallRoom["cargo"] >= 1
      /\ PackRoom \in [Wares -> Nat] /\ StallRoom \in [Wares -> Nat]
      /\ NoTech \notin Techs /\ MaxRate \in Nat
  BY SettlementAssumption, ClaimsAssumption, BarterAssumption, RentalsAssumption DEF Everybody
<1>3. NewRent \in Rent /\ NewRent.whiteList = <<>> /\ NewRent.dailyRent = 0
  BY DEF NewRent, Rent
<1>4. RentTypeOK /\ RatesAreKnown /\ RenterIsMember
  <2>1. /\ rents = [r \in RentIds |-> NewRent] /\ evictTimers = [r \in RentIds |-> 0]
    BY <1>1 DEF TownInit
  <2> QED BY <1>2, <1>3, <2>1 DEF RentTypeOK, RatesAreKnown, RenterIsMember
<1>5. ClaimTypeOK
  BY <1>1, <1>2 DEF TownInit, ClaimTypeOK, Two, Ranks, Member, CoOwner
<1>6. OwnerIsCoOwner /\ OneResearch /\ researching \notin learned
  BY <1>1, <1>2 DEF TownInit, OwnerIsCoOwner, OneResearch, IsMember, Two
<1>7. RowsOK(npcs) /\ OrdersOK(tradeOrders, npcs) /\ standing \subseteq Ruins /\ ruinCache \subseteq Ruins
  BY <1>1 DEF ShopInit, RowsOK, OrdersOK, IsABag
<1>8. StoragesOK
  <2>1. /\ packs = [p \in Players |-> [k \in Wares |-> IF p = p2 /\ k = "item" THEN 1 ELSE 0]]
        /\ stalls = [s \in Shops |-> [k \in Kinds |-> CASE k = "item" -> 0
                                         [] k = "cargo" -> (IF s = stall THEN 1 ELSE 0)
                                         [] k = "coin" -> 1]]
    BY <1>1 DEF ShopInit, Of
  <2>2. Kinds = {"item", "cargo", "coin"} /\ Wares = {"item", "cargo"}
    BY DEF Kinds, Wares
  <2>3. packs \in [Players -> [Wares -> Nat]]
        /\ \A p \in Players, k \in Wares : packs[p][k] <= PackRoom[k]
    BY <1>2, <2>1
  <2>4. stalls \in [Shops -> Goods]
        /\ \A s \in Shops, k \in Wares : stalls[s][k] <= StallRoom[k]
    BY <1>2, <2>1, <2>2 DEF Goods
  <2> QED BY <2>3, <2>4 DEF StoragesOK
<1> QED BY <1>4, <1>5, <1>6, <1>7, <1>8 DEF SettlementInv, TownInv, ShopInv

(***************************************************************************)
(* However members come, rise, rent and leave: the owner has the highest   *)
(* rank, whoever rents is a member, and the timer of a research is that of *)
(* the technology that is researched.                                      *)
(***************************************************************************)
THEOREM TownStaysInOrder == Spec => []TownInOrder
<1>1. Init => SettlementInv
  BY InitIsInOrder
<1>2. SettlementInv /\ [Next]_settlementVars => SettlementInv'
  BY NextKeepsInv
<1>3. SettlementInv => TownInOrder
  BY DEF SettlementInv, TownInv, TownInOrder
<1> QED BY <1>1, <1>2, <1>3, PTL DEF Spec

(***************************************************************************)
(* Nobody rises above those who are there, but by taking over.             *)
(***************************************************************************)
THEOREM NobodyRisesAlone == Spec => RanksAreBestowed
<1>1. Init => SettlementInv
  BY InitIsInOrder
<1>2. SettlementInv /\ [Next]_settlementVars => SettlementInv'
  BY NextKeepsInv
<1>3. SettlementInv /\ [Next]_settlementVars => [Bestowed]_claimVars
  BY NextKeepsInv DEF Lawful
<1>4. RanksAreBestowed <=> [][Bestowed]_claimVars
  BY PTL DEF RanksAreBestowed, Bestowed
<1> QED BY <1>1, <1>2, <1>3, <1>4, PTL DEF Spec

(***************************************************************************)
(* A rental is taken from its renter only if he gives it up, and then what *)
(* he had paid is his again, or if it had defaulted, or by an eviction     *)
(* timer.                                                                  *)
(***************************************************************************)
THEOREM NobodyIsDispossessed == Spec => NotDispossessed
<1>1. Init => SettlementInv
  BY InitIsInOrder
<1>2. SettlementInv /\ [Next]_settlementVars => SettlementInv'
  BY NextKeepsInv
<1> DEFINE AllGivenUp == \A r \in RentIds : GivenUp(r)
<1>3. SettlementInv /\ [Next]_settlementVars => [AllGivenUp]_rentalVars
  BY NextKeepsInv DEF Lawful
<1>4. NotDispossessed <=> [][AllGivenUp]_rentalVars
  BY PTL DEF NotDispossessed, GivenUp
<1> QED BY <1>1, <1>2, <1>3, <1>4, PTL DEF Spec

(***************************************************************************)
(* What is stored fits, orders are well formed, and a traveler's offers go *)
(* with the traveler, whatever becomes of him or of the ruin.              *)
(***************************************************************************)
THEOREM OffersHaveTheirTraveler ==
    Spec => [](TravelersTypeOK /\ BarterTypeOK /\ OffersHaveTraveler)
<1>1. Init => SettlementInv
  BY InitIsInOrder
<1>2. SettlementInv /\ [Next]_settlementVars => SettlementInv'
  BY NextKeepsInv
<1>3. SettlementInv => TravelersTypeOK /\ BarterTypeOK /\ OffersHaveTraveler
  BY ShopsAreInOrder DEF SettlementInv
<1> QED BY <1>1, <1>2, <1>3, PTL DEF Spec

-----------------------------------------------------------------------------
(***************************************************************************)
(* Sequences of the elements of a set                                      *)
(***************************************************************************)
Orders(R, S) ==
    /\ \A a, b \in S : a # b => <<a, b>> \in R \/ <<b, a>> \in R
    /\ \A a, b, c \in S : <<a, b>> \in R /\ <<b, c>> \in R => <<a, c>> \in R

LEMMA SequenceOfSet ==
    ASSUME NEW S, IsFiniteSet(S), NEW seq \in SetToSeqs(S)
    PROVE  /\ Cardinality(S) \in Nat /\ DOMAIN seq = 1 .. Cardinality(S)
           /\ \A i \in DOMAIN seq : seq[i] \in S
           /\ \A i, j \in DOMAIN seq : i # j => seq[i] # seq[j]
           /\ \A x \in S : \E i \in DOMAIN seq : seq[i] = x
<1> DEFINE n == Cardinality(S)
<1>1. n \in Nat
  BY FS_CardinalityType
<1>2. seq \in [1 .. n -> S] /\ \A i, j \in 1 .. n : i # j => seq[i] # seq[j]
  BY DEF SetToSeqs
<1>3. seq \in Injection(1 .. n, S)
  BY <1>2 DEF Injection, IsInjective
<1>4. Cardinality(1 .. n) = n
  BY <1>1, FS_Interval
<1> HIDE DEF n
<1>5. seq \in Surjection(1 .. n, S)
  BY <1>3, <1>4, FS_Injection DEF n
<1> QED BY <1>1, <1>2, <1>5 DEF Surjection, n

LEMMA LastOfSet ==
    ASSUME NEW S, IsFiniteSet(S), S # {}, NEW R, Orders(R, S)
    PROVE  \E g \in S : \A x \in S \ {g} : <<x, g>> \in R
<1> DEFINE HasLast(U) == U # {} => \E g \in U : \A x \in U \ {g} : <<x, g>> \in R
           Bad == {U \in SUBSET S : ~HasLast(U)}
<1> SUFFICES ASSUME Bad # {} PROVE FALSE
  OBVIOUS
<1>1. PICK U \in Bad : \A V \in SUBSET U : V \in Bad => V = U
  <2>1. Bad \subseteq SUBSET S
    OBVIOUS
  <2> HIDE DEF Bad
  <2> QED BY <2>1, SameFinite, Sums!SmallestBad
<1>2. U \in SUBSET S /\ U # {} /\ ~(\E g \in U : \A x \in U \ {g} : <<x, g>> \in R)
  OBVIOUS
<1>3. PICK c \in U : TRUE
  BY <1>2
<1> DEFINE V == U \ {c}
<1>4. V \in SUBSET U /\ V \notin Bad
  <2>1. V \in SUBSET U /\ V # U
    OBVIOUS
  <2> HIDE DEF V, Bad
  <2> QED BY <1>1, <2>1
<1>5. V # {}
  BY <1>2
<1>6. PICK g \in V : \A x \in V \ {g} : <<x, g>> \in R
  BY <1>4, <1>5
<1>7. <<g, c>> \in R \/ <<c, g>> \in R
  BY <1>2 DEF Orders
<1>8. CASE <<c, g>> \in R
  BY <1>2, <1>6, <1>8
<1>9. CASE <<g, c>> \in R
  <2>1. \A x \in U \ {c} : <<x, c>> \in R
    BY <1>2, <1>6, <1>9 DEF Orders
  <2> QED BY <1>2, <2>1
<1> QED BY <1>7, <1>8, <1>9

LEMMA SetsAreSorted ==
    ASSUME NEW S, IsFiniteSet(S), NEW R, Orders(R, S)
    PROVE  \E seq \in SetToSeqs(S) : \A i, j \in DOMAIN seq : i < j => <<seq[i], seq[j]>> \in R
<1> DEFINE Sorted(U) ==
        \E seq \in SetToSeqs(U) : \A i, j \in DOMAIN seq : i < j => <<seq[i], seq[j]>> \in R
           Bad == {U \in SUBSET S : ~Sorted(U)}
<1> SUFFICES ASSUME Bad # {} PROVE FALSE
  OBVIOUS
<1>1. PICK U \in Bad : \A V \in SUBSET U : V \in Bad => V = U
  <2>1. Bad \subseteq SUBSET S
    OBVIOUS
  <2> HIDE DEF Bad
  <2> QED BY <2>1, SameFinite, Sums!SmallestBad
<1>2. U \in SUBSET S /\ IsFiniteSet(U) /\ ~Sorted(U)
  BY FS_Subset
<1>3. U # {}
  <2> SUFFICES ASSUME U = {} PROVE FALSE
    OBVIOUS
  <2>1. Cardinality(U) = 0 /\ 1 .. 0 = {}
    BY FS_EmptySet
  <2> DEFINE seq == [i \in {} |-> i]
  <2>2. seq \in SetToSeqs(U) /\ DOMAIN seq = {}
    BY <2>1 DEF SetToSeqs
  <2> HIDE DEF seq
  <2> QED BY <1>2, <2>2
<1>4. Orders(R, U)
  BY <1>2 DEF Orders
<1>5. PICK g \in U : \A x \in U \ {g} : <<x, g>> \in R
  BY <1>2, <1>3, <1>4, LastOfSet
<1> DEFINE V == U \ {g}
           n == Cardinality(V)
<1>6. V \in SUBSET U /\ IsFiniteSet(V) /\ Sorted(V)
  BY <1>1, <1>2, FS_Subset
<1>7. Cardinality(U) = n + 1 /\ n \in Nat
  <2>1. U = V \cup {g} /\ g \notin V
    OBVIOUS
  <2> HIDE DEF V
  <2> QED BY <1>6, <2>1, FS_AddElement, FS_CardinalityType
<1>8. PICK f \in SetToSeqs(V) : \A i, j \in DOMAIN f : i < j => <<f[i], f[j]>> \in R
  BY <1>6
<1>9. DOMAIN f = 1 .. n /\ (\A i \in 1 .. n : f[i] \in V)
      /\ \A i, j \in 1 .. n : i # j => f[i] # f[j]
  <2> HIDE DEF V
  <2> QED BY <1>6, <1>8, SequenceOfSet
<1> HIDE DEF n, Sorted
<1> DEFINE seq == [i \in 1 .. (n + 1) |-> IF i = n + 1 THEN g ELSE f[i]]
<1>10. \A i \in 1 .. (n + 1) : i = n + 1 \/ i \in 1 .. n
  BY <1>7
<1>11. seq \in SetToSeqs(U)
  <2>1. seq \in [1 .. (n + 1) -> U]
    BY <1>9, <1>10
  <2>2. \A i, j \in 1 .. (n + 1) : i # j => seq[i] # seq[j]
    BY <1>9, <1>10
  <2> HIDE DEF seq
  <2> QED BY <1>7, <2>1, <2>2 DEF SetToSeqs
<1>12. \A i, j \in 1 .. (n + 1) : i < j => <<seq[i], seq[j]>> \in R
  <2> TAKE i, j \in 1 .. (n + 1)
  <2> HAVE i < j
  <2>1. i \in 1 .. n
    BY <1>7, <1>10
  <2>2. CASE j = n + 1
    BY <1>5, <1>9, <2>1, <2>2
  <2>3. CASE j # n + 1
    BY <1>8, <1>9, <1>10, <2>1, <2>3
  <2> QED BY <2>2, <2>3
<1>13. DOMAIN seq = 1 .. (n + 1)
  OBVIOUS
<1> HIDE DEF seq
<1> QED BY <1>2, <1>11, <1>12, <1>13 DEF Sorted

-----------------------------------------------------------------------------
(***************************************************************************)
(* Wrapped numbers                                                         *)
(***************************************************************************)
LEMMA HalfRangeIsPositive == HalfRange \in Nat /\ HalfRange >= 1
BY MarketAssumption

LEMMA WrappedIsSame ==
    ASSUME NEW n \in I32
    PROVE  n \in Int /\ Wrapped(n) = n
<1>1. HalfRange \in Nat /\ HalfRange >= 1
  BY HalfRangeIsPositive
<1>2. n \in Int /\ n + HalfRange \in 0 .. (2 * HalfRange - 1)
  BY <1>1 DEF I32
<1>3. (n + HalfRange) % (2 * HalfRange) = n + HalfRange
  <2> DEFINE k == n + HalfRange
             w == 2 * HalfRange
  <2>1. k \in 0 .. (w - 1) /\ w \in Nat \ {0}
    BY <1>1, <1>2
  <2> HIDE DEF k, w
  <2>2. k % w = k
    BY <2>1
  <2> QED BY <2>2 DEF k, w
<1> QED BY <1>1, <1>2, <1>3 DEF Wrapped

LEMMA WrappedFits ==
    ASSUME NEW n \in Int
    PROVE  Wrapped(n) \in I32 /\ Wrapped(n) \in Int
<1>1. HalfRange \in Nat /\ HalfRange >= 1
  BY HalfRangeIsPositive
<1> DEFINE k == n + HalfRange
           w == 2 * HalfRange
           rest == k % w
<1>2. k \in Int /\ w \in Nat \ {0} /\ w = 2 * HalfRange
  BY <1>1
<1>3. rest \in 0 .. (w - 1)
  <2> HIDE DEF k, w
  <2> QED BY <1>2
<1>4. Wrapped(n) = rest - HalfRange
  BY DEF Wrapped
<1> HIDE DEF rest, k, w
<1> QED BY <1>1, <1>2, <1>3, <1>4 DEF I32

\* a sum that was too large would be negative
LEMMA WrappedSum ==
    ASSUME NEW a \in I32, NEW b \in I32, a >= 0, Wrapped(a + b) >= 0
    PROVE  Wrapped(a + b) = a + b
<1>1. HalfRange \in Nat /\ HalfRange >= 1
  BY HalfRangeIsPositive
<1>2. a \in 0 .. (HalfRange - 1) /\ b \in -HalfRange .. (HalfRange - 1)
  BY <1>1 DEF I32
<1>3. a + b \in I32 \/ a + b >= HalfRange
  BY <1>1, <1>2 DEF I32
<1>4. ASSUME a + b >= HalfRange PROVE FALSE
  <2> DEFINE k == a + b - HalfRange
             w == 2 * HalfRange
  <2>1. k \in Nat /\ k < HalfRange /\ w \in Nat \ {0} /\ k < w /\ a + b + HalfRange = k + w
    BY <1>1, <1>2, <1>4
  <2> HIDE DEF k, w
  <2>2. (k + w) % w = k
    BY <2>1
  <2>3. Wrapped(a + b) = k - HalfRange
    BY <2>1, <2>2 DEF Wrapped, w
  <2> QED BY <1>1, <2>1, <2>3
<1> QED BY <1>3, <1>4, WrappedIsSame

-----------------------------------------------------------------------------
(***************************************************************************)
(* The market: standing orders want or offer something, and a buy order    *)
(* has the coins for it, but for one whose price was wrapped.              *)
(***************************************************************************)
BuysOK(buys) ==
    /\ DOMAIN buys \subseteq OrderIds /\ buys \in [DOMAIN buys -> BuyOrder]
    /\ \A o \in DOMAIN buys :
          /\ buys[o].quantity >= 1
          /\ buys[o].wrapped \/ buys[o].stored >= buys[o].quantity * buys[o].price

SellsOK(sells) ==
    /\ DOMAIN sells \subseteq OrderIds /\ sells \in [DOMAIN sells -> SellOrder]
    /\ \A o \in DOMAIN sells : sells[o].quantity >= 1

ListingsOK(bag) == IsABag(bag) /\ DOMAIN bag \subseteq Listing

MarketOK(m) ==
    /\ m = [purse |-> m.purse, wares |-> m.wares, buys |-> m.buys, sells |-> m.sells,
            closed |-> m.closed]
    /\ m.purse \in [Traders -> Nat] /\ m.wares \in [Traders -> Nat]
    /\ BuysOK(m.buys) /\ SellsOK(m.sells) /\ ListingsOK(m.closed)

MarketInv == MarketOK(Market) /\ lastOrder \in 0 .. MaxOrders

LEMMA MarketIsTyped ==
    MarketInv => MarketTypeOK /\ BuyOrdersAreCovered
<1> SUFFICES ASSUME MarketInv PROVE MarketTypeOK /\ BuyOrdersAreCovered
  OBVIOUS
<1>1. /\ Market.purse = purse /\ Market.wares = wares /\ Market.buys = buyOrders
      /\ Market.sells = sellOrders /\ Market.closed = closed
  BY DEF Market
<1>2. /\ purse \in [Traders -> Nat] /\ wares \in [Traders -> Nat]
      /\ BuysOK(buyOrders) /\ SellsOK(sellOrders) /\ ListingsOK(closed)
      /\ lastOrder \in 0 .. MaxOrders
  BY <1>1 DEF MarketInv, MarketOK
<1> QED
  BY <1>2, Zenon DEF MarketTypeOK, BuyOrdersAreCovered, BuysOK, SellsOK, ListingsOK, BagToSet

LEMMA MarketOfParts ==
    ASSUME NEW m, MarketOK(m), Commit(m), lastOrder' \in 0 .. MaxOrders
    PROVE  MarketInv'
<1>1. Market' = [purse |-> m.purse, wares |-> m.wares, buys |-> m.buys, sells |-> m.sells,
                 closed |-> m.closed]
  BY DEF Market, Commit
<1>2. Market' = m
  BY <1>1 DEF MarketOK
<1>3. MarketOK(Market') /\ MarketOK(Market)' <=> MarketOK(Market')
  BY <1>2 DEF MarketOK, BuysOK, SellsOK, ListingsOK, OrderIds, BuyOrder, SellOrder, Listing,
     Prices, Things
<1> QED BY <1>2, <1>3 DEF MarketInv

(***************************************************************************)
(* The parts of a market that is changed.                                  *)
(***************************************************************************)
LEMMA MarketFields ==
    ASSUME NEW m, MarketOK(m)
    PROVE  /\ \A bag : [m EXCEPT !.closed = bag]
                 = [purse |-> m.purse, wares |-> m.wares, buys |-> m.buys, sells |-> m.sells,
                    closed |-> bag]
           /\ \A buys : [m EXCEPT !.buys = buys]
                 = [purse |-> m.purse, wares |-> m.wares, buys |-> buys, sells |-> m.sells,
                    closed |-> m.closed]
           /\ \A sells : [m EXCEPT !.sells = sells]
                 = [purse |-> m.purse, wares |-> m.wares, buys |-> m.buys, sells |-> sells,
                    closed |-> m.closed]
           /\ \A coins_ : [m EXCEPT !.purse = coins_]
                 = [purse |-> coins_, wares |-> m.wares, buys |-> m.buys, sells |-> m.sells,
                    closed |-> m.closed]
           /\ \A goods : [m EXCEPT !.wares = goods]
                 = [purse |-> m.purse, wares |-> goods, buys |-> m.buys, sells |-> m.sells,
                    closed |-> m.closed]
<1>1. m = [purse |-> m.purse, wares |-> m.wares, buys |-> m.buys, sells |-> m.sells,
           closed |-> m.closed]
  BY DEF MarketOK
<1> QED BY <1>1

(***************************************************************************)
(* Markets that differ in what is listed only                              *)
(***************************************************************************)
SameButListings(m, k) ==
    /\ k.purse = m.purse /\ k.wares = m.wares /\ k.buys = m.buys /\ k.sells = m.sells

LEMMA ClosingKeepsMarket ==
    ASSUME NEW m, MarketOK(m), NEW owner_ \in Traders, NEW claim \in Markets,
           NEW thing \in Things, NEW n \in Int
    PROVE  /\ MarketOK(Close(m, owner_, claim, thing, n))
           /\ SameButListings(m, Close(m, owner_, claim, thing, n))
<1> DEFINE listing == [owner |-> owner_, claim |-> claim, thing |-> thing, quantity |-> n]
           bag == m.closed (+) SetToBag({listing})
<1>1. Close(m, owner_, claim, thing, n) = [m EXCEPT !.closed = bag]
  BY DEF Close, Listed
<1>2. IsABag(m.closed) /\ DOMAIN m.closed \subseteq Listing /\ listing \in Listing
  BY DEF MarketOK, ListingsOK, Listing
<1>3. ListingsOK(bag)
  <2> DEFINE added == SetToBag({listing})
  <2>1. IsABag(added) /\ DOMAIN added = {listing}
    BY BagOfSet
  <2> HIDE DEF added, listing
  <2>2. IsABag(m.closed (+) added) /\ DOMAIN (m.closed (+) added) = DOMAIN m.closed \cup {listing}
    BY <1>2, <2>1, BagsJoined
  <2>3. DOMAIN (m.closed (+) added) \subseteq Listing
    BY <1>2, <2>2
  <2> QED BY <2>2, <2>3 DEF ListingsOK, added
<1> HIDE DEF bag
<1>4. Close(m, owner_, claim, thing, n)
         = [purse |-> m.purse, wares |-> m.wares, buys |-> m.buys, sells |-> m.sells,
            closed |-> bag]
  BY <1>1, MarketFields
<1> QED BY <1>3, <1>4 DEF MarketOK, SameButListings

LEMMA ClosingIfAnyKeepsMarket ==
    ASSUME NEW m, MarketOK(m), NEW owner_ \in Traders, NEW claim \in Markets,
           NEW thing \in Things, NEW n \in Int
    PROVE  /\ MarketOK(CloseIfAny(m, owner_, claim, thing, n))
           /\ SameButListings(m, CloseIfAny(m, owner_, claim, thing, n))
<1>1. CASE n > 0
  BY <1>1, ClosingKeepsMarket DEF CloseIfAny
<1>2. CASE ~(n > 0)
  BY <1>2 DEF CloseIfAny, SameButListings
<1> QED BY <1>1, <1>2

(***************************************************************************)
(* Arithmetic of a trade                                                   *)
(***************************************************************************)
LEMMA ProductsGrow ==
    ASSUME NEW a \in Nat, NEW b \in Nat, NEW c \in Nat, b <= c
    PROVE  a * b <= a * c
OBVIOUS

LEMMA Affordable ==
    ASSUME NEW price \in Nat \ {0}, NEW wanted \in Nat, NEW budget \in Nat,
           budget >= wanted * price
    PROVE  budget \div price \in Nat /\ budget \div price >= wanted
OBVIOUS

LEMMA PartlyPaid ==
    ASSUME NEW price \in Int, NEW quantity \in Int, NEW n \in Int, NEW stored \in Int,
           stored >= quantity * price
    PROVE  stored - price * n >= (quantity - n) * price
<1>1. (quantity - n) * price = quantity * price - price * n
  OBVIOUS
<1> QED BY <1>1

LEMMA LeastOfSet ==
    ASSUME NEW S, \E m \in S : \A y \in S : m <= y
    PROVE  Min(S) \in S /\ \A y \in S : Min(S) <= y
BY DEF Min

(***************************************************************************)
(* Orders that have been filled in part, some of them wholly               *)
(***************************************************************************)
PartlyFilled(old, new) ==
    /\ DOMAIN new \subseteq DOMAIN old
    /\ \A o \in DOMAIN new : /\ new[o].owner = old[o].owner /\ new[o].claim = old[o].claim
                             /\ new[o].price = old[o].price

BuysFilled(old, new) ==
    /\ PartlyFilled(old, new)
    /\ \A o \in DOMAIN new : new[o].wrapped = old[o].wrapped

LEMMA SellOrderRemoved ==
    ASSUME NEW sells, SellsOK(sells), NEW o \in DOMAIN sells
    PROVE  /\ SellsOK(Without(sells, o)) /\ PartlyFilled(sells, Without(sells, o))
           /\ DOMAIN Without(sells, o) = DOMAIN sells \ {o}
BY DEF SellsOK, Without, PartlyFilled

LEMMA BuyOrderRemoved ==
    ASSUME NEW buys, BuysOK(buys), NEW o \in DOMAIN buys
    PROVE  /\ BuysOK(Without(buys, o)) /\ BuysFilled(buys, Without(buys, o))
           /\ DOMAIN Without(buys, o) = DOMAIN buys \ {o}
BY DEF BuysOK, Without, PartlyFilled, BuysFilled

LEMMA SellOrderFields ==
    ASSUME NEW sells, SellsOK(sells), NEW o \in DOMAIN sells
    PROVE  /\ sells[o].owner \in Traders /\ sells[o].claim \in Markets /\ sells[o].price \in Prices
           /\ sells[o].price \in Nat \ {0} /\ sells[o].quantity \in Nat \ {0}
           /\ sells[o] = [owner |-> sells[o].owner, claim |-> sells[o].claim,
                          price |-> sells[o].price, quantity |-> sells[o].quantity]
<1>1. sells[o] \in SellOrder /\ sells[o].quantity >= 1
  BY DEF SellsOK
<1>2. sells[o].price \in Prices /\ MaxPrice \in Nat
  BY <1>1, MarketAssumption DEF SellOrder
<1> QED BY <1>1, <1>2 DEF SellOrder, Prices

LEMMA BuyOrderFields ==
    ASSUME NEW buys, BuysOK(buys), NEW o \in DOMAIN buys
    PROVE  /\ buys[o].owner \in Traders /\ buys[o].claim \in Markets /\ buys[o].price \in Prices
           /\ buys[o].price \in Nat \ {0} /\ buys[o].quantity \in Nat \ {0}
           /\ buys[o].stored \in I32 /\ buys[o].stored \in Int
           /\ buys[o].wrapped \in BOOLEAN
           /\ buys[o].wrapped \/ buys[o].stored >= buys[o].quantity * buys[o].price
           /\ buys[o] = [owner |-> buys[o].owner, claim |-> buys[o].claim,
                         price |-> buys[o].price, quantity |-> buys[o].quantity,
                         stored |-> buys[o].stored, wrapped |-> buys[o].wrapped]
<1>1. /\ buys[o] \in BuyOrder /\ buys[o].quantity >= 1
      /\ buys[o].wrapped \/ buys[o].stored >= buys[o].quantity * buys[o].price
  BY DEF BuysOK
<1>2. buys[o].price \in Prices /\ MaxPrice \in Nat
  BY <1>1, MarketAssumption DEF BuyOrder
<1>3. buys[o].stored \in I32 /\ HalfRange \in Nat
  BY <1>1, HalfRangeIsPositive DEF BuyOrder
<1>4. buys[o].stored \in Int
  BY <1>3 DEF I32
<1>5. buys[o].price \in Nat \ {0} /\ buys[o].quantity \in Nat \ {0}
  BY <1>1, <1>2 DEF BuyOrder, Prices
<1> QED BY <1>1, <1>2, <1>3, <1>4, <1>5, Zenon DEF BuyOrder

LEMMA SellOrderReduced ==
    ASSUME NEW sells, SellsOK(sells), NEW o \in DOMAIN sells, NEW n \in Nat,
           n < sells[o].quantity
    PROVE  /\ SellsOK([sells EXCEPT ![o].quantity = @ - n])
           /\ PartlyFilled(sells, [sells EXCEPT ![o].quantity = @ - n])
           /\ DOMAIN [sells EXCEPT ![o].quantity = @ - n] = DOMAIN sells
<1> DEFINE row == [sells[o] EXCEPT !.quantity = @ - n]
           rows == [sells EXCEPT ![o] = row]
<1>1. /\ row \in SellOrder /\ row.quantity >= 1 /\ row.owner = sells[o].owner
      /\ row.claim = sells[o].claim /\ row.price = sells[o].price
  <2>1. row = [owner |-> sells[o].owner, claim |-> sells[o].claim,
               price |-> sells[o].price, quantity |-> sells[o].quantity - n]
    BY SellOrderFields
  <2> HIDE DEF row
  <2> QED BY <2>1, SellOrderFields DEF SellOrder
<1>2. [sells EXCEPT ![o].quantity = @ - n] = rows
  OBVIOUS
<1> HIDE DEF row
<1>3. SellsOK(rows) /\ PartlyFilled(sells, rows) /\ DOMAIN rows = DOMAIN sells
  BY <1>1 DEF SellsOK, PartlyFilled
<1> QED BY <1>2, <1>3

LEMMA BuyOrderReduced ==
    ASSUME NEW buys, BuysOK(buys), NEW o \in DOMAIN buys, NEW n \in Nat, NEW kept \in I32,
           n < buys[o].quantity,
           buys[o].wrapped \/ kept >= (buys[o].quantity - n) * buys[o].price
    PROVE  /\ BuysOK([buys EXCEPT ![o].quantity = @ - n, ![o].stored = kept])
           /\ BuysFilled(buys, [buys EXCEPT ![o].quantity = @ - n, ![o].stored = kept])
           /\ DOMAIN [buys EXCEPT ![o].quantity = @ - n, ![o].stored = kept] = DOMAIN buys
<1> DEFINE row == [buys[o] EXCEPT !.quantity = @ - n, !.stored = kept]
           rows == [buys EXCEPT ![o] = row]
<1>1. /\ row \in BuyOrder /\ row.quantity >= 1 /\ row.owner = buys[o].owner
      /\ row.claim = buys[o].claim /\ row.price = buys[o].price
      /\ row.wrapped = buys[o].wrapped
      /\ row.wrapped \/ row.stored >= row.quantity * row.price
  <2>1. row = [owner |-> buys[o].owner, claim |-> buys[o].claim,
               price |-> buys[o].price, quantity |-> buys[o].quantity - n,
               stored |-> kept, wrapped |-> buys[o].wrapped]
    <3> DEFINE less == [buys[o] EXCEPT !.quantity = @ - n]
    <3>1. row = [less EXCEPT !.stored = kept]
      OBVIOUS
    <3>2. less = [owner |-> buys[o].owner, claim |-> buys[o].claim, price |-> buys[o].price,
                  quantity |-> buys[o].quantity - n, stored |-> buys[o].stored,
                  wrapped |-> buys[o].wrapped]
      BY BuyOrderFields
    <3> HIDE DEF row, less
    <3> QED BY <3>1, <3>2
  <2> HIDE DEF row
  <2>2. buys[o].quantity - n \in Nat /\ buys[o].quantity - n >= 1
    BY BuyOrderFields
  <2>3. row \in BuyOrder
    BY <2>1, <2>2, BuyOrderFields DEF BuyOrder
  <2> QED BY <2>1, <2>2, <2>3
<1>2. [buys EXCEPT ![o].quantity = @ - n, ![o].stored = kept] = rows
  BY BuyOrderFields
<1> HIDE DEF row
<1>3. BuysOK(rows) /\ BuysFilled(buys, rows) /\ DOMAIN rows = DOMAIN buys
  BY <1>1 DEF BuysOK, PartlyFilled, BuysFilled
<1> QED BY <1>2, <1>3

\* what an order keeps pays for what it still wants
LEMMA KeptIsEnough ==
    ASSUME NEW price \in Nat, NEW quantity \in Nat, NEW n \in Nat, NEW stored \in I32,
           stored >= quantity * price, n <= quantity
    PROVE  Wrapped(stored - price * n) >= (quantity - n) * price
<1>1. stored \in Int /\ HalfRange \in Nat
  BY WrappedIsSame, HalfRangeIsPositive
<1>2. stored - price * n >= (quantity - n) * price
  BY <1>1, PartlyPaid
<1>3. price * n \in Nat /\ (quantity - n) * price \in Nat
  BY Products
<1>4. stored - price * n \in I32
  <2> DEFINE got == price * n
             worth == (quantity - n) * price
  <2>1. got \in Nat /\ worth \in Nat /\ stored - got >= worth
    BY <1>2, <1>3
  <2> HIDE DEF got, worth
  <2>2. stored - got \in I32
    BY <1>1, <2>1 DEF I32
  <2> QED BY <2>2 DEF got
<1> DEFINE kept == stored - price * n
<1>5. kept \in I32 /\ kept >= (quantity - n) * price
  BY <1>2, <1>4
<1> HIDE DEF kept
<1>6. Wrapped(kept) >= (quantity - n) * price
  BY <1>5, WrappedIsSame
<1> QED BY <1>6 DEF kept

(***************************************************************************)
(* A purchase under way, of so many wares at no more than a limit, for     *)
(* which there surely are coins enough, or not: what is listed is paid     *)
(* for, standing buy orders and the traders' own goods are not touched.    *)
(***************************************************************************)
PurchaseOK(acc, m, quantity, limit, sure) ==
    /\ acc = [m |-> acc.m, buyer |-> acc.buyer, claim |-> acc.claim,
              wanted |-> acc.wanted, budget |-> acc.budget]
    /\ MarketOK(acc.m)
    /\ acc.m.purse = m.purse /\ acc.m.wares = m.wares /\ acc.m.buys = m.buys
    /\ PartlyFilled(m.sells, acc.m.sells)
    /\ acc.buyer \in Traders /\ acc.claim \in Markets
    /\ acc.wanted \in 0 .. quantity /\ acc.budget \in Nat /\ acc.budget < HalfRange
    /\ sure => acc.budget >= acc.wanted * limit

\* what a purchase may still spend covers what it still wants
Covered(price, limit, quantity, wanted, budget, sure) ==
    /\ price \in Nat \ {0} /\ limit \in Nat /\ price <= limit
    /\ quantity \in Nat \ {0} /\ wanted \in Nat /\ budget \in Nat
    /\ sure => budget >= wanted * limit

\* what n units of an order take from it
FairTerms(price, limit, quantity, wanted, budget, n, sure) ==
    /\ n \in Nat /\ n <= quantity /\ n <= wanted
    /\ n * price \in Nat /\ n * price <= budget
    /\ sure => /\ n = quantity \/ n = wanted
               /\ budget - n * price >= (wanted - n) * limit

LEMMA Spendable ==
    ASSUME NEW price \in Nat \ {0}, NEW budget \in Nat, NEW n \in Nat, n <= budget \div price
    PROVE  n * price <= budget
<1> DEFINE most == budget \div price
           rest == budget % price
<1>1. most \in Nat /\ rest \in Nat /\ budget = price * most + rest
  OBVIOUS
<1>2. n <= most
  OBVIOUS
<1> HIDE DEF most, rest
<1>3. price * n <= price * most
  BY <1>1, <1>2, ProductsGrow
<1>4. price * n = n * price /\ price * n \in Nat /\ price * most \in Nat
  BY <1>1
<1> DEFINE a == price * n
           b == price * most
<1>5. a \in Nat /\ b \in Nat /\ a <= b /\ budget = b + rest
  BY <1>1, <1>3, <1>4
<1> HIDE DEF a, b
<1>6. a <= budget
  BY <1>1, <1>5
<1> QED BY <1>4, <1>6 DEF a

LEMMA SureTerms ==
    ASSUME NEW price, NEW limit, NEW quantity, NEW wanted, NEW budget, NEW n,
           Covered(price, limit, quantity, wanted, budget, TRUE),
           n \in {quantity, budget \div price, wanted},
           n <= quantity, n <= budget \div price, n <= wanted
    PROVE  FairTerms(price, limit, quantity, wanted, budget, n, TRUE)
<1>0. /\ price \in Nat \ {0} /\ limit \in Nat /\ price <= limit
      /\ quantity \in Nat \ {0} /\ wanted \in Nat /\ budget \in Nat
      /\ budget >= wanted * limit
  BY DEF Covered
<1>1. wanted * price <= wanted * limit
  BY <1>0, ProductsGrow
<1>2. budget >= wanted * price
  <2>1. wanted * price \in Int /\ wanted * limit \in Int
    BY <1>0
  <2> QED BY <1>0, <1>1, <2>1
<1>3. budget \div price \in Nat /\ budget \div price >= wanted
  BY <1>0, <1>2, Affordable
<1>5. n \in Nat /\ (n = quantity \/ n = wanted) /\ n <= wanted
  <2> DEFINE most == budget \div price
  <2>1. most \in Nat /\ most >= wanted
    BY <1>3
  <2> HIDE DEF most
  <2>2. n = quantity \/ n = most \/ n = wanted
    BY DEF most
  <2>3. n <= quantity /\ n <= most /\ n <= wanted
    BY DEF most
  <2> QED BY <1>0, <2>1, <2>2, <2>3
<1>6. n * price <= n * limit
  BY <1>0, <1>5, ProductsGrow
<1>7. n * price \in Nat /\ n * limit \in Nat /\ wanted * limit \in Nat
  BY <1>0, <1>5, Products
<1>8. (wanted - n) * limit = wanted * limit - n * limit
  BY <1>0, <1>5
<1>9. (wanted - n) * limit \in Nat
  BY <1>0, <1>5, Products
<1>10. n * price <= budget /\ budget - n * price >= (wanted - n) * limit
  <2> DEFINE spent == n * price
             most == n * limit
             all == wanted * limit
             others == (wanted - n) * limit
  <2>1. /\ spent \in Nat /\ most \in Nat /\ all \in Nat /\ others \in Nat
        /\ spent <= most /\ others = all - most /\ all <= budget
    BY <1>0, <1>6, <1>7, <1>8, <1>9
  <2> HIDE DEF spent, most, all, others
  <2>2. spent <= budget /\ budget - spent >= others
    BY <1>0, <2>1
  <2> QED BY <2>2 DEF spent, others
<1>11. n <= quantity
  OBVIOUS
<1> QED BY <1>5, <1>7, <1>10, <1>11 DEF FairTerms

LEMMA PurchaseTerms ==
    ASSUME NEW price, NEW limit, NEW quantity, NEW wanted, NEW budget, NEW n,
           NEW sure \in BOOLEAN,
           Covered(price, limit, quantity, wanted, budget, sure),
           n \in {quantity, budget \div price, wanted},
           n <= quantity, n <= budget \div price, n <= wanted
    PROVE  FairTerms(price, limit, quantity, wanted, budget, n, sure)
<1>1. CASE sure = TRUE
  BY <1>1, SureTerms
<1>2. CASE sure = FALSE
  <2>1. /\ price \in Nat \ {0} /\ quantity \in Nat /\ wanted \in Nat /\ budget \in Nat
    BY DEF Covered
  <2>2. n \in Nat
    <3>1. budget \div price \in Nat
      BY <2>1
    <3> QED BY <2>1, <3>1
  <2>3. n * price <= budget /\ n * price \in Nat
    BY <2>1, <2>2, Spendable, Products
  <2> QED BY <1>2, <2>2, <2>3 DEF FairTerms
<1> QED BY <1>1, <1>2

\* a purchase before and after it has come to an order
Bought(acc, next, o, m, quantity, limit, sure) ==
    /\ PurchaseOK(next, m, quantity, limit, sure)
    /\ PartlyFilled(acc.m.sells, next.m.sells)
    /\ DOMAIN acc.m.sells \ {o} \subseteq DOMAIN next.m.sells
    /\ next.wanted <= acc.wanted
    /\ sure /\ next.wanted > 0 => o \notin DOMAIN next.m.sells

LEMMA BuyingKeepsPurchase ==
    ASSUME NEW m, NEW quantity \in Nat, NEW limit \in Nat, NEW acc, NEW sure \in BOOLEAN,
           PurchaseOK(acc, m, quantity, limit, sure), NEW o \in DOMAIN acc.m.sells,
           acc.m.sells[o].price <= limit
    PROVE  Bought(acc, BuyFrom(acc, o), o, m, quantity, limit, sure)
<1> DEFINE order == acc.m.sells[o]
           n == Min({order.quantity, acc.budget \div order.price, acc.wanted})
           spent == n * order.price
           k == Close(acc.m, acc.buyer, acc.claim, "ware", n)
           paid == Close(k, order.owner, acc.claim, "coin", spent)
           sells == IF order.quantity = n THEN Without(acc.m.sells, o)
                    ELSE [acc.m.sells EXCEPT ![o].quantity = @ - n]
           market == [paid EXCEPT !.sells = sells]
           next == BuyFrom(acc, o)
<1>1. /\ MarketOK(acc.m) /\ SellsOK(acc.m.sells)
      /\ acc.buyer \in Traders /\ acc.claim \in Markets
      /\ acc.wanted \in Nat /\ acc.wanted <= quantity /\ acc.budget \in Nat
      /\ acc.budget < HalfRange /\ HalfRange \in Nat
      /\ sure => acc.budget >= acc.wanted * limit
  BY HalfRangeIsPositive DEF PurchaseOK, MarketOK
<1>2. /\ order.owner \in Traders /\ order.price \in Nat \ {0} /\ order.quantity \in Nat \ {0}
  BY <1>1, SellOrderFields
<1>3. /\ n \in Nat /\ n <= order.quantity /\ n <= acc.wanted
      /\ spent \in Nat /\ spent <= acc.budget
      /\ sure => /\ n = order.quantity \/ n = acc.wanted
                 /\ acc.budget - spent >= (acc.wanted - n) * limit
  <2> DEFINE price == order.price
             count == order.quantity
             wanted == acc.wanted
             budget == acc.budget
             affordable == budget \div price
             S == {count, affordable, wanted}
  <2>1. /\ Covered(price, limit, count, wanted, budget, sure)
        /\ price \in Nat \ {0} /\ count \in Nat /\ wanted \in Nat /\ budget \in Nat
    BY <1>1, <1>2 DEF Covered
  <2>2. n = Min(S)
    OBVIOUS
  <2> HIDE DEF price, count, wanted, budget, n
  <2>3. affordable \in Int
    BY <2>1
  <2> HIDE DEF affordable
  <2>4. \E x \in S : \A y \in S : x <= y
    BY <2>1, <2>3, SMT
  <2>5. Min(S) \in S /\ \A y \in S : Min(S) <= y
    <3> HIDE DEF S
    <3> QED BY <2>4, LeastOfSet
  <2>6. n \in S /\ \A y \in S : n <= y
    <3> HIDE DEF S
    <3> QED BY <2>2, <2>5
  <2>7. /\ n \in {count, affordable, wanted}
        /\ n <= count /\ n <= affordable /\ n <= wanted
    BY <2>6
  <2> HIDE DEF S
  <2>8. FairTerms(price, limit, count, wanted, budget, n, sure)
    BY <2>1, <2>7, PurchaseTerms, Zenon DEF affordable
  <2> QED BY <2>8, Zenon DEF FairTerms, price, count, wanted, budget
<1>4. next = IF n = 0 THEN acc
             ELSE [acc EXCEPT !.m = market, !.wanted = @ - n, !.budget = @ - spent]
  BY DEF BuyFrom
<1> HIDE DEF n, order, next
<1>5. CASE n = 0
  <2>1. next = acc /\ (sure => acc.wanted = 0)
    BY <1>2, <1>3, <1>4, <1>5
  <2> QED BY <1>1, <2>1 DEF next, PartlyFilled, Bought
<1>6. CASE n # 0
  <2>1. MarketOK(k) /\ SameButListings(acc.m, k)
    BY <1>1, <1>3, ClosingKeepsMarket DEF Things
  <2> HIDE DEF k
  <2>2. MarketOK(paid) /\ SameButListings(k, paid)
    BY <1>1, <1>2, <1>3, <2>1, ClosingKeepsMarket DEF Things
  <2> HIDE DEF paid
  <2>4. /\ SellsOK(sells) /\ PartlyFilled(acc.m.sells, sells)
        /\ DOMAIN acc.m.sells \ {o} \subseteq DOMAIN sells
        /\ order.quantity = n => o \notin DOMAIN sells
    <3>1. CASE order.quantity = n
      BY <1>1, <3>1, SellOrderRemoved
    <3>2. CASE order.quantity # n
      <4>1. n < acc.m.sells[o].quantity
        BY <1>2, <1>3, <3>2 DEF order
      <4> QED BY <1>1, <1>3, <3>2, <4>1, SellOrderReduced
    <3> QED BY <3>1, <3>2
  <2> HIDE DEF sells
  <2>5. market = [purse |-> paid.purse, wares |-> paid.wares, buys |-> paid.buys,
                  sells |-> sells, closed |-> paid.closed]
    BY <2>2, MarketFields
  <2>6. /\ MarketOK(market) /\ market.sells = sells
        /\ market.purse = acc.m.purse /\ market.wares = acc.m.wares /\ market.buys = acc.m.buys
    BY <2>1, <2>2, <2>4, <2>5 DEF MarketOK, SameButListings
  <2> HIDE DEF market
  <2>7. next = [m |-> market, buyer |-> acc.buyer, claim |-> acc.claim,
                wanted |-> acc.wanted - n, budget |-> acc.budget - spent]
    <3> HIDE DEF spent
    <3> DEFINE first == [acc EXCEPT !.m = market]
               second == [first EXCEPT !.wanted = @ - n]
    <3>1. next = [second EXCEPT !.budget = @ - spent]
      BY <1>4, <1>6
    <3>2. first = [m |-> market, buyer |-> acc.buyer, claim |-> acc.claim,
                   wanted |-> acc.wanted, budget |-> acc.budget]
      BY DEF PurchaseOK
    <3> HIDE DEF first
    <3>3. second = [m |-> market, buyer |-> acc.buyer, claim |-> acc.claim,
                    wanted |-> acc.wanted - n, budget |-> acc.budget]
      BY <3>2
    <3> HIDE DEF second
    <3> QED BY <3>1, <3>3
  <2> HIDE DEF spent
  <2>8. PartlyFilled(m.sells, sells)
    BY <2>4 DEF PurchaseOK, PartlyFilled
  <2>9. /\ acc.wanted - n \in 0 .. quantity /\ acc.budget - spent \in Nat
        /\ acc.budget - spent < HalfRange
        /\ sure => acc.budget - spent >= (acc.wanted - n) * limit
    BY <1>1, <1>3
  <2>10. PurchaseOK(next, m, quantity, limit, sure)
    BY <1>1, <2>6, <2>7, <2>8, <2>9 DEF PurchaseOK
  <2>11. next.wanted <= acc.wanted /\ (sure /\ next.wanted > 0 => o \notin DOMAIN next.m.sells)
    BY <1>1, <1>3, <2>4, <2>6, <2>7
  <2> QED BY <2>4, <2>6, <2>7, <2>10, <2>11 DEF next, Bought
<1> QED BY <1>5, <1>6

BuyOf(o, acc) == BuyFrom(acc, o)
BoughtAlong(acc, ids) == FoldLeft(BuyFrom, acc, ids)

Buys == INSTANCE FoldLemmas WITH Op <- BuyOf, Chosen <- Largest

LEMMA BuysAreARun ==
    ASSUME NEW acc, NEW n \in Nat, NEW ids, DOMAIN ids = 1 .. n
    PROVE  \E run : /\ run[0] = acc
                    /\ \A i \in 1 .. n : run[i] = BuyFrom(run[i - 1], ids[i])
                    /\ BoughtAlong(acc, ids) = run[n]
<1>1. BoughtAlong(acc, ids) = Buys!Folding(acc, ids, DOMAIN ids)
  BY DEF BoughtAlong, FoldLeft, MapThenFoldSet, Buys!Folding, Buys!Recursion, BuyOf, Largest
<1>2. Buys!Chooses(1 .. n) /\ \A i \in 1 .. n : Largest(1 .. i) = i
  BY LargestIsMember, LargestOfInterval DEF Buys!Chooses
<1>3. \E run : /\ run[0] = acc
               /\ \A i \in 1 .. n : run[i] = BuyOf(ids[i], run[i - 1])
               /\ Buys!Folding(acc, ids, 1 .. n) = run[n]
  BY <1>1, <1>2, Buys!FoldIsRun
<1> QED BY <1>1, <1>3 DEF BuyOf

(***************************************************************************)
(* What a purchase takes from: the orders of the claim that ask no more    *)
(* than the limit, in the order of their prices and times.                 *)
(***************************************************************************)
Asking(sells, claim, limit) ==
    {o \in DOMAIN sells : sells[o].claim = claim /\ sells[o].price <= limit}

CheapestFirst(sells, claim, limit) ==
    Matching(sells, claim, LAMBDA p : AsksNoMore(p, limit), LAMBDA p, q : p < q)

LEMMA CheapestFirstIsSequence ==
    ASSUME NEW sells, SellsOK(sells), NEW claim, NEW limit \in Nat
    PROVE  /\ CheapestFirst(sells, claim, limit) \in SetToSeqs(Asking(sells, claim, limit))
           /\ IsFiniteSet(Asking(sells, claim, limit))
<1> DEFINE S == Asking(sells, claim, limit)
           R == {pair \in S \X S : \/ sells[pair[1]].price < sells[pair[2]].price
                                   \/ /\ sells[pair[1]].price = sells[pair[2]].price
                                      /\ pair[1] < pair[2]}
<1>1. S \subseteq DOMAIN sells /\ S \subseteq 1 .. MaxOrders /\ MaxOrders \in Nat
  BY MarketAssumption DEF Asking, SellsOK, OrderIds
<1>2. IsFiniteSet(S)
  <2>1. IsFiniteSet(1 .. MaxOrders)
    BY <1>1, FS_Interval
  <2> HIDE DEF S
  <2> QED BY <1>1, <2>1, FS_Subset
<1>3. ASSUME NEW a \in S PROVE a \in Nat /\ sells[a].price \in Nat
  <2>1. a \in DOMAIN sells /\ a \in 1 .. MaxOrders
    BY <1>1
  <2>2. sells[a].price \in Nat \ {0}
    BY <2>1, SellOrderFields
  <2> QED BY <1>1, <2>1, <2>2
<1>4. \A a, b \in S : <<a, b>> \in R <=> \/ sells[a].price < sells[b].price
                                         \/ sells[a].price = sells[b].price /\ a < b
  OBVIOUS
<1>5. Orders(R, S)
  <2> HIDE DEF S, R
  <2> QED BY <1>3, <1>4 DEF Orders
<1>6. PICK seq \in SetToSeqs(S) : \A i, j \in DOMAIN seq : i < j => <<seq[i], seq[j]>> \in R
  <2> HIDE DEF S, R
  <2> QED BY <1>2, <1>5, SetsAreSorted
<1>7. \A i \in DOMAIN seq : seq[i] \in S
  <2> HIDE DEF S
  <2> QED BY <1>2, <1>6, SequenceOfSet
<1>8. \A i, j \in DOMAIN seq : i < j =>
          \/ sells[seq[i]].price < sells[seq[j]].price
          \/ sells[seq[i]].price = sells[seq[j]].price /\ seq[i] < seq[j]
  <2> HIDE DEF S, R
  <2> QED BY <1>4, <1>6, <1>7
<1>9. S = {o \in DOMAIN sells : sells[o].claim = claim /\ AsksNoMore(sells[o].price, limit)}
  BY DEF Asking, AsksNoMore
<1> HIDE DEF S, R
<1>10. CheapestFirst(sells, claim, limit) =
          CHOOSE ids \in SetToSeqs(S) : \A i, j \in DOMAIN ids : i < j =>
             \/ sells[ids[i]].price < sells[ids[j]].price
             \/ sells[ids[i]].price = sells[ids[j]].price /\ ids[i] < ids[j]
  BY <1>9 DEF CheapestFirst, Matching
<1>11. CheapestFirst(sells, claim, limit) \in SetToSeqs(S)
  <2> DEFINE Best(ids) == \A i, j \in DOMAIN ids : i < j =>
                             \/ sells[ids[i]].price < sells[ids[j]].price
                             \/ sells[ids[i]].price = sells[ids[j]].price /\ ids[i] < ids[j]
             all == SetToSeqs(S)
  <2>1. seq \in all /\ Best(seq)
    BY <1>6, <1>8
  <2>2. CheapestFirst(sells, claim, limit) = CHOOSE ids \in all : Best(ids)
    BY <1>10, Zenon
  <2> HIDE DEF all, Best
  <2>3. CheapestFirst(sells, claim, limit) \in all
    BY <2>1, <2>2
  <2> QED BY <2>3 DEF all
<1> QED BY <1>2, <1>11 DEF S

LEMMA PurchaseIsResolved ==
    ASSUME NEW m, MarketOK(m), NEW buyer \in Traders, NEW claim \in Markets,
           NEW quantity \in Nat, NEW limit \in Nat, NEW budget \in Nat,
           budget < HalfRange, NEW sure \in BOOLEAN, sure => budget >= quantity * limit
    PROVE  LET r == ResolveBuyOrder(m, buyer, claim, quantity, limit, budget)
           IN  /\ PurchaseOK(r, m, quantity, limit, sure)
               /\ sure /\ r.wanted > 0 => \A o \in DOMAIN r.m.sells :
                                     r.m.sells[o].claim = claim => r.m.sells[o].price > limit
<1> DEFINE S == Asking(m.sells, claim, limit)
           ids == CheapestFirst(m.sells, claim, limit)
           n == Cardinality(S)
           start == [m |-> m, buyer |-> buyer, claim |-> claim,
                     wanted |-> quantity, budget |-> budget]
           r == ResolveBuyOrder(m, buyer, claim, quantity, limit, budget)
<1>1. r = BoughtAlong(start, ids)
  BY DEF ResolveBuyOrder, BoughtAlong, CheapestFirst
<1>2. SellsOK(m.sells)
  BY DEF MarketOK
<1>3. /\ ids \in SetToSeqs(S) /\ IsFiniteSet(S)
  <2> DEFINE sells == m.sells
  <2>1. SellsOK(sells)
    BY <1>2
  <2> HIDE DEF sells
  <2>2. /\ CheapestFirst(sells, claim, limit) \in SetToSeqs(Asking(sells, claim, limit))
        /\ IsFiniteSet(Asking(sells, claim, limit))
    BY <2>1, CheapestFirstIsSequence
  <2> QED BY <2>2 DEF sells
<1>a. \A o \in S : o \in DOMAIN m.sells /\ m.sells[o].price <= limit
  BY DEF Asking
<1>4. ASSUME NEW o \in DOMAIN m.sells, m.sells[o].claim = claim, o \notin S
      PROVE  m.sells[o].price > limit
  <2>1. m.sells[o].price \in Nat
    <3> DEFINE sells == m.sells
    <3>1. SellsOK(sells) /\ o \in DOMAIN sells
      BY <1>2
    <3> HIDE DEF sells
    <3>2. sells[o].price \in Nat \ {0}
      BY <3>1, SellOrderFields
    <3> QED BY <3>2 DEF sells
  <2>2. ~(m.sells[o].price <= limit)
    BY <1>4 DEF Asking
  <2> QED BY <2>1, <2>2
<1>5. PurchaseOK(start, m, quantity, limit, sure)
  BY DEF PurchaseOK, PartlyFilled
<1>6. start.m = m /\ start.wanted = quantity
  OBVIOUS
<1> HIDE DEF S, ids, start, r
<1>7. /\ n \in Nat /\ DOMAIN ids = 1 .. n
      /\ \A i \in 1 .. n : ids[i] \in S
      /\ \A i, j \in 1 .. n : i # j => ids[i] # ids[j]
      /\ \A x \in S : \E i \in 1 .. n : ids[i] = x
  BY <1>3, SequenceOfSet
<1> HIDE DEF n
<1>8. PICK run : /\ run[0] = start
                 /\ \A i \in 1 .. n : run[i] = BuyFrom(run[i - 1], ids[i])
                 /\ r = run[n]
  BY <1>1, <1>7, BuysAreARun
<1> DEFINE Good(i) ==
        /\ PurchaseOK(run[i], m, quantity, limit, sure)
        /\ \A j \in 1 .. n : j > i => ids[j] \in DOMAIN run[i].m.sells
        /\ sure /\ run[i].wanted > 0 => \A j \in 1 .. n : j <= i => ids[j] \notin DOMAIN run[i].m.sells
<1>9. Good(0)
  BY <1>a, <1>5, <1>6, <1>7, <1>8
<1>10. ASSUME NEW i \in 1 .. n, Good(i - 1) PROVE Good(i)
  <2> DEFINE acc == run[i - 1]
             next == BuyFrom(acc, ids[i])
  <2>1. /\ PurchaseOK(acc, m, quantity, limit, sure) /\ ids[i] \in DOMAIN acc.m.sells
        /\ \A j \in 1 .. n : j > i - 1 => ids[j] \in DOMAIN acc.m.sells
        /\ sure /\ acc.wanted > 0 => \A j \in 1 .. n : j <= i - 1 => ids[j] \notin DOMAIN acc.m.sells
    BY <1>7, <1>10
  <2>2. run[i] = next
    BY <1>8
  <2> HIDE DEF acc, Good
  <2>3. acc.m.sells[ids[i]].price <= limit
    BY <1>a, <1>7, <2>1 DEF PurchaseOK, PartlyFilled
  <2>a. Bought(acc, next, ids[i], m, quantity, limit, sure)
    BY <2>1, <2>3, BuyingKeepsPurchase
  <2>4. /\ PurchaseOK(next, m, quantity, limit, sure)
        /\ PartlyFilled(acc.m.sells, next.m.sells)
        /\ DOMAIN acc.m.sells \ {ids[i]} \subseteq DOMAIN next.m.sells
        /\ next.wanted <= acc.wanted
        /\ sure /\ next.wanted > 0 => ids[i] \notin DOMAIN next.m.sells
    BY <2>a DEF Bought
  <2> HIDE DEF next
  <2>5. \A j \in 1 .. n : j > i => ids[j] \in DOMAIN next.m.sells
    <3> TAKE j \in 1 .. n
    <3> HAVE j > i
    <3>1. j > i - 1 /\ ids[j] # ids[i]
      BY <1>7
    <3> QED BY <2>1, <2>4, <3>1
  <2>6. ASSUME sure, next.wanted > 0, NEW j \in 1 .. n, j <= i
        PROVE  ids[j] \notin DOMAIN next.m.sells
    <3>1. acc.wanted > 0
      BY <2>1, <2>4, <2>6 DEF PurchaseOK
    <3>2. CASE j = i
      BY <2>4, <2>6, <3>2
    <3>3. CASE j # i
      <4>1. j <= i - 1
        BY <2>6, <3>3
      <4>2. ids[j] \notin DOMAIN acc.m.sells
        BY <2>1, <2>6, <3>1, <4>1
      <4> QED BY <2>4, <4>2 DEF PartlyFilled
    <3> QED BY <3>2, <3>3
  <2> QED BY <2>2, <2>4, <2>5, <2>6 DEF Good
<1>11. Good(n)
  <2> DEFINE T == {i \in 0 .. n : Good(i)}
  <2>1. 0 \in T /\ \A i \in 1 .. n : i - 1 \in T => i \in T
    <3> HIDE DEF Good
    <3> QED BY <1>7, <1>9, <1>10
  <2> HIDE DEF T
  <2>2. n \in T
    BY <1>7, <2>1, Buys!Induction
  <2> QED BY <2>2 DEF T
<1>12. PurchaseOK(r, m, quantity, limit, sure)
  BY <1>8, <1>11
<1>13. ASSUME sure, r.wanted > 0, NEW o \in DOMAIN r.m.sells, r.m.sells[o].claim = claim
       PROVE  r.m.sells[o].price > limit
  <2>1. o \notin S
    <3> SUFFICES ASSUME o \in S PROVE FALSE
      OBVIOUS
    <3>1. PICK i \in 1 .. n : ids[i] = o
      BY <1>7
    <3>2. \A j \in 1 .. n : ids[j] \notin DOMAIN r.m.sells
      <4>1. \A j \in 1 .. n : j <= n
        BY <1>7
      <4>2. Good(n) /\ r = run[n]
        BY <1>8, <1>11
      <4> QED BY <1>13, <4>1, <4>2
    <3> QED BY <3>1, <3>2
  <2>2. /\ o \in DOMAIN m.sells /\ r.m.sells[o].claim = m.sells[o].claim
        /\ r.m.sells[o].price = m.sells[o].price
    BY <1>12 DEF PurchaseOK, PartlyFilled
  <2> QED BY <1>4, <1>13, <2>1, <2>2
<1> QED BY <1>12, <1>13 DEF r

(***************************************************************************)
(* A sale under way: standing sell orders and the traders' own goods are   *)
(* not touched, and the orders it goes to still have their coins.          *)
(***************************************************************************)
SaleOK(acc, m, quantity) ==
    /\ acc = [m |-> acc.m, seller |-> acc.seller, claim |-> acc.claim, left |-> acc.left,
              fits |-> acc.fits]
    /\ MarketOK(acc.m)
    /\ acc.m.purse = m.purse /\ acc.m.wares = m.wares /\ acc.m.sells = m.sells
    /\ BuysFilled(m.buys, acc.m.buys)
    /\ acc.seller \in Traders /\ acc.claim \in Markets
    /\ acc.left \in 0 .. quantity

LEMMA SellingKeepsSale ==
    ASSUME NEW m, NEW quantity \in Nat, NEW acc,
           SaleOK(acc, m, quantity), NEW o \in DOMAIN acc.m.buys
    PROVE  LET next == SellTo(acc, o)
           IN  /\ SaleOK(next, m, quantity)
               /\ BuysFilled(acc.m.buys, next.m.buys)
               /\ DOMAIN acc.m.buys \ {o} \subseteq DOMAIN next.m.buys
               /\ next.left <= acc.left
               /\ next.left > 0 => o \notin DOMAIN next.m.buys
<1> DEFINE order == acc.m.buys[o]
           n == Min({order.quantity, acc.left})
           got == order.price * n
           kept == Wrapped(order.stored - got)
           k == Close(acc.m, order.owner, acc.claim, "ware", n)
           paid == Close(k, acc.seller, acc.claim, "coin", got)
           rest == IF order.quantity > n THEN paid
                   ELSE ReturnRest(paid, order, kept)
           buys == IF order.quantity > n
                   THEN [acc.m.buys EXCEPT ![o].quantity = @ - n, ![o].stored = kept]
                   ELSE Without(acc.m.buys, o)
           market == [rest EXCEPT !.buys = buys]
           next == SellTo(acc, o)
<1>1. /\ MarketOK(acc.m) /\ BuysOK(acc.m.buys)
      /\ acc.seller \in Traders /\ acc.claim \in Markets
      /\ acc.left \in Nat /\ acc.left <= quantity
  BY DEF SaleOK, MarketOK
<1>2. /\ order.owner \in Traders /\ order.claim \in Markets
      /\ order.price \in Nat \ {0} /\ order.quantity \in Nat \ {0}
      /\ order.stored \in I32 /\ order.stored \in Int
      /\ order.wrapped \/ order.stored >= order.quantity * order.price
  BY <1>1, BuyOrderFields
<1>3. /\ n \in Nat /\ n <= order.quantity /\ n <= acc.left
      /\ n = order.quantity \/ n = acc.left
      /\ got \in Nat
  <2> DEFINE price == order.price
             count == order.quantity
             left == acc.left
  <2>1. price \in Nat /\ count \in Nat \ {0} /\ left \in Nat
    BY <1>1, <1>2
  <2>2. n = Min({count, left})
    OBVIOUS
  <2> HIDE DEF price, count, left, n
  <2>3. n = IF count <= left THEN count ELSE left
    BY <2>1, <2>2, MinOfTwo
  <2>4. n \in Nat /\ n <= count /\ n <= left /\ (n = count \/ n = left)
    BY <2>1, <2>3
  <2>5. price * n \in Nat
    BY <2>1, <2>4
  <2> QED BY <2>4, <2>5 DEF price, count, left
<1>4. next = IF acc.left = 0 THEN acc
             ELSE [acc EXCEPT !.m = market, !.left = @ - n, !.fits = @ /\ got \in I32]
  BY DEF SellTo
<1>7. order.wrapped \/ kept >= (order.quantity - n) * order.price
  <2> DEFINE price == order.price
             count == order.quantity
             stored == order.stored
  <2>1. price \in Nat /\ count \in Nat /\ stored \in I32
        /\ (order.wrapped \/ stored >= count * price)
    BY <1>2
  <2>2. n \in Nat /\ n <= count /\ kept = Wrapped(stored - price * n)
    BY <1>3
  <2> HIDE DEF price, count, stored, n, kept
  <2>3. order.wrapped \/ kept >= (count - n) * price
    BY <2>1, <2>2, KeptIsEnough
  <2> QED BY <2>3 DEF count, price
<1>8. kept \in I32 /\ kept \in Int
  <2> DEFINE others == order.stored - got
  <2>1. others \in Int
    <3> HIDE DEF got
    <3> QED BY <1>2, <1>3
  <2>2. kept = Wrapped(others)
    OBVIOUS
  <2> HIDE DEF others, kept
  <2> QED BY <2>1, <2>2, WrappedFits
<1> HIDE DEF n, order, next, kept
<1>5. CASE acc.left = 0
  <2>1. next = acc
    BY <1>4, <1>5
  <2> QED BY <1>1, <1>5, <2>1 DEF next, PartlyFilled, BuysFilled
<1>6. CASE acc.left # 0
  <2>1. MarketOK(k) /\ SameButListings(acc.m, k)
    BY <1>1, <1>2, <1>3, ClosingKeepsMarket DEF Things
  <2> HIDE DEF k
  <2>2. MarketOK(paid) /\ SameButListings(k, paid)
    BY <1>1, <1>3, <2>1, ClosingKeepsMarket DEF Things
  <2> HIDE DEF paid
  <2>3. MarketOK(rest) /\ SameButListings(paid, rest)
    <3>2. MarketOK(CloseIfAny(paid, order.owner, order.claim, "coin", kept))
          /\ SameButListings(paid, CloseIfAny(paid, order.owner, order.claim, "coin", kept))
      BY <1>2, <1>8, <2>2, ClosingIfAnyKeepsMarket DEF Things
    <3>3. ReturnRest(paid, order, kept) = CloseIfAny(paid, order.owner, order.claim, "coin", kept)
      BY DEF ReturnRest
    <3>4. rest = IF order.quantity > n THEN paid ELSE ReturnRest(paid, order, kept)
      OBVIOUS
    <3> HIDE DEF rest
    <3> QED BY <2>2, <3>2, <3>3, <3>4 DEF SameButListings
  <2> HIDE DEF rest
  <2>4. /\ BuysOK(buys) /\ BuysFilled(acc.m.buys, buys)
        /\ DOMAIN acc.m.buys \ {o} \subseteq DOMAIN buys
        /\ order.quantity = n => o \notin DOMAIN buys
    <3>1. CASE order.quantity = n
      <4>1. ~(order.quantity > n)
        BY <1>2, <3>1
      <4> QED BY <1>1, <4>1, BuyOrderRemoved
    <3>2. CASE order.quantity # n
      <4>1. order.quantity > n /\ n < acc.m.buys[o].quantity
        BY <1>2, <1>3, <3>2 DEF order
      <4>2. acc.m.buys[o].wrapped
            \/ kept >= (acc.m.buys[o].quantity - n) * acc.m.buys[o].price
        BY <1>7 DEF order
      <4> QED BY <1>1, <1>3, <1>8, <3>2, <4>1, <4>2, BuyOrderReduced
    <3> QED BY <3>1, <3>2
  <2> HIDE DEF buys, got
  <2>5. market = [purse |-> rest.purse, wares |-> rest.wares, buys |-> buys,
                  sells |-> rest.sells, closed |-> rest.closed]
    BY <2>3, MarketFields
  <2>6. /\ MarketOK(market) /\ market.buys = buys
        /\ market.purse = acc.m.purse /\ market.wares = acc.m.wares
        /\ market.sells = acc.m.sells
    BY <2>1, <2>2, <2>3, <2>4, <2>5 DEF MarketOK, SameButListings
  <2> HIDE DEF market
  <2> DEFINE fits == acc.fits /\ got \in I32
  <2>7. next = [m |-> market, seller |-> acc.seller, claim |-> acc.claim, left |-> acc.left - n,
                fits |-> fits]
    <3> DEFINE first == [acc EXCEPT !.m = market]
               second == [first EXCEPT !.left = @ - n]
    <3>1. next = [second EXCEPT !.fits = @ /\ got \in I32]
      BY <1>4, <1>6
    <3>2. first = [m |-> market, seller |-> acc.seller, claim |-> acc.claim, left |-> acc.left,
                   fits |-> acc.fits]
      BY DEF SaleOK
    <3> HIDE DEF first
    <3>3. second = [m |-> market, seller |-> acc.seller, claim |-> acc.claim,
                    left |-> acc.left - n, fits |-> acc.fits]
      BY <3>2
    <3> HIDE DEF second
    <3> QED BY <3>1, <3>3
  <2> HIDE DEF fits
  <2>8. BuysFilled(m.buys, buys)
    BY <2>4 DEF SaleOK, PartlyFilled, BuysFilled
  <2>9. acc.left - n \in 0 .. quantity
    BY <1>1, <1>3
  <2>10. SaleOK(next, m, quantity)
    BY <1>1, <2>6, <2>7, <2>8, <2>9 DEF SaleOK
  <2>11. next.left <= acc.left /\ (next.left > 0 => o \notin DOMAIN next.m.buys)
    BY <1>1, <1>3, <2>4, <2>6, <2>7
  <2> QED BY <2>4, <2>6, <2>7, <2>10, <2>11 DEF next
<1> QED BY <1>5, <1>6

SellOf(o, acc) == SellTo(acc, o)
SoldAlong(acc, ids) == FoldLeft(SellTo, acc, ids)

Sells == INSTANCE FoldLemmas WITH Op <- SellOf, Chosen <- Largest

LEMMA SalesAreARun ==
    ASSUME NEW acc, NEW n \in Nat, NEW ids, DOMAIN ids = 1 .. n
    PROVE  \E run : /\ run[0] = acc
                    /\ \A i \in 1 .. n : run[i] = SellTo(run[i - 1], ids[i])
                    /\ SoldAlong(acc, ids) = run[n]
<1>1. SoldAlong(acc, ids) = Sells!Folding(acc, ids, DOMAIN ids)
  BY DEF SoldAlong, FoldLeft, MapThenFoldSet, Sells!Folding, Sells!Recursion, SellOf, Largest
<1>2. Sells!Chooses(1 .. n) /\ \A i \in 1 .. n : Largest(1 .. i) = i
  BY LargestIsMember, LargestOfInterval DEF Sells!Chooses
<1>3. \E run : /\ run[0] = acc
               /\ \A i \in 1 .. n : run[i] = SellOf(ids[i], run[i - 1])
               /\ Sells!Folding(acc, ids, 1 .. n) = run[n]
  BY <1>1, <1>2, Sells!FoldIsRun
<1> QED BY <1>1, <1>3 DEF SellOf

(***************************************************************************)
(* What a sale goes to: the orders of the claim that bid no less than the  *)
(* limit, in the order of their prices and times.                          *)
(***************************************************************************)
Bidding(buys, claim, limit) ==
    {o \in DOMAIN buys : buys[o].claim = claim /\ buys[o].price >= limit}

DearestFirst(buys, claim, limit) ==
    Matching(buys, claim, LAMBDA p : p >= limit, LAMBDA p, q : p > q)

LEMMA DearestFirstIsSequence ==
    ASSUME NEW buys, BuysOK(buys), NEW claim, NEW limit \in Nat
    PROVE  /\ DearestFirst(buys, claim, limit) \in SetToSeqs(Bidding(buys, claim, limit))
           /\ IsFiniteSet(Bidding(buys, claim, limit))
<1> DEFINE S == Bidding(buys, claim, limit)
           R == {pair \in S \X S : \/ buys[pair[1]].price > buys[pair[2]].price
                                   \/ /\ buys[pair[1]].price = buys[pair[2]].price
                                      /\ pair[1] < pair[2]}
<1>1. S \subseteq DOMAIN buys /\ S \subseteq 1 .. MaxOrders /\ MaxOrders \in Nat
  BY MarketAssumption DEF Bidding, BuysOK, OrderIds
<1>2. IsFiniteSet(S)
  <2>1. IsFiniteSet(1 .. MaxOrders)
    BY <1>1, FS_Interval
  <2> HIDE DEF S
  <2> QED BY <1>1, <2>1, FS_Subset
<1>3. ASSUME NEW a \in S PROVE a \in Nat /\ buys[a].price \in Nat
  <2>1. a \in DOMAIN buys /\ a \in 1 .. MaxOrders
    BY <1>1
  <2>2. buys[a].price \in Nat \ {0}
    BY <2>1, BuyOrderFields
  <2> QED BY <1>1, <2>1, <2>2
<1>4. \A a, b \in S : <<a, b>> \in R <=> \/ buys[a].price > buys[b].price
                                         \/ buys[a].price = buys[b].price /\ a < b
  OBVIOUS
<1>5. Orders(R, S)
  <2> HIDE DEF S, R
  <2> QED BY <1>3, <1>4 DEF Orders
<1>6. PICK seq \in SetToSeqs(S) : \A i, j \in DOMAIN seq : i < j => <<seq[i], seq[j]>> \in R
  <2> HIDE DEF S, R
  <2> QED BY <1>2, <1>5, SetsAreSorted
<1>7. \A i \in DOMAIN seq : seq[i] \in S
  <2> HIDE DEF S
  <2> QED BY <1>2, <1>6, SequenceOfSet
<1>8. \A i, j \in DOMAIN seq : i < j =>
          \/ buys[seq[i]].price > buys[seq[j]].price
          \/ buys[seq[i]].price = buys[seq[j]].price /\ seq[i] < seq[j]
  <2> HIDE DEF S, R
  <2> QED BY <1>4, <1>6, <1>7
<1>9. S = {o \in DOMAIN buys : buys[o].claim = claim /\ buys[o].price >= limit}
  BY DEF Bidding
<1> HIDE DEF S, R
<1>10. DearestFirst(buys, claim, limit) =
          CHOOSE ids \in SetToSeqs(S) : \A i, j \in DOMAIN ids : i < j =>
             \/ buys[ids[i]].price > buys[ids[j]].price
             \/ buys[ids[i]].price = buys[ids[j]].price /\ ids[i] < ids[j]
  BY <1>9 DEF DearestFirst, Matching
<1>11. DearestFirst(buys, claim, limit) \in SetToSeqs(S)
  <2> DEFINE Best(ids) == \A i, j \in DOMAIN ids : i < j =>
                             \/ buys[ids[i]].price > buys[ids[j]].price
                             \/ buys[ids[i]].price = buys[ids[j]].price /\ ids[i] < ids[j]
             all == SetToSeqs(S)
  <2>1. seq \in all /\ Best(seq)
    BY <1>6, <1>8
  <2>2. DearestFirst(buys, claim, limit) = CHOOSE ids \in all : Best(ids)
    BY <1>10, Zenon
  <2> HIDE DEF all, Best
  <2>3. DearestFirst(buys, claim, limit) \in all
    BY <2>1, <2>2
  <2> QED BY <2>3 DEF all
<1> QED BY <1>2, <1>11 DEF S

LEMMA SaleIsResolved ==
    ASSUME NEW m, MarketOK(m), NEW seller \in Traders, NEW claim \in Markets,
           NEW quantity \in Nat, NEW limit \in Nat
    PROVE  LET r == ResolveSellOrder(m, seller, claim, quantity, limit)
           IN  /\ SaleOK(r, m, quantity)
               /\ r.left > 0 => \A o \in DOMAIN r.m.buys :
                                     r.m.buys[o].claim = claim => r.m.buys[o].price < limit
<1> DEFINE S == Bidding(m.buys, claim, limit)
           ids == DearestFirst(m.buys, claim, limit)
           n == Cardinality(S)
           start == [m |-> m, seller |-> seller, claim |-> claim, left |-> quantity,
                     fits |-> TRUE]
           r == ResolveSellOrder(m, seller, claim, quantity, limit)
<1>1. r = SoldAlong(start, ids)
  BY DEF ResolveSellOrder, SoldAlong, DearestFirst
<1>2. BuysOK(m.buys)
  BY DEF MarketOK
<1>3. /\ ids \in SetToSeqs(S) /\ IsFiniteSet(S)
  <2> DEFINE buys == m.buys
  <2>1. BuysOK(buys)
    BY <1>2
  <2> HIDE DEF buys
  <2>2. /\ DearestFirst(buys, claim, limit) \in SetToSeqs(Bidding(buys, claim, limit))
        /\ IsFiniteSet(Bidding(buys, claim, limit))
    BY <2>1, DearestFirstIsSequence
  <2> QED BY <2>2 DEF buys
<1>a. \A o \in S : o \in DOMAIN m.buys /\ m.buys[o].price >= limit
  BY DEF Bidding
<1>4. ASSUME NEW o \in DOMAIN m.buys, m.buys[o].claim = claim, o \notin S
      PROVE  m.buys[o].price < limit
  <2>1. m.buys[o].price \in Nat
    <3> DEFINE buys == m.buys
    <3>1. BuysOK(buys) /\ o \in DOMAIN buys
      BY <1>2
    <3> HIDE DEF buys
    <3>2. buys[o].price \in Nat \ {0}
      BY <3>1, BuyOrderFields
    <3> QED BY <3>2 DEF buys
  <2>2. ~(m.buys[o].price >= limit)
    BY <1>4 DEF Bidding
  <2> QED BY <2>1, <2>2
<1>5. SaleOK(start, m, quantity)
  BY DEF SaleOK, PartlyFilled, BuysFilled
<1>6. start.m = m /\ start.left = quantity
  OBVIOUS
<1> HIDE DEF S, ids, start, r
<1>7. /\ n \in Nat /\ DOMAIN ids = 1 .. n
      /\ \A i \in 1 .. n : ids[i] \in S
      /\ \A i, j \in 1 .. n : i # j => ids[i] # ids[j]
      /\ \A x \in S : \E i \in 1 .. n : ids[i] = x
  BY <1>3, SequenceOfSet
<1> HIDE DEF n
<1>8. PICK run : /\ run[0] = start
                 /\ \A i \in 1 .. n : run[i] = SellTo(run[i - 1], ids[i])
                 /\ r = run[n]
  BY <1>1, <1>7, SalesAreARun
<1> DEFINE Good(i) ==
        /\ SaleOK(run[i], m, quantity)
        /\ \A j \in 1 .. n : j > i => ids[j] \in DOMAIN run[i].m.buys
        /\ run[i].left > 0 => \A j \in 1 .. n : j <= i => ids[j] \notin DOMAIN run[i].m.buys
<1>9. Good(0)
  BY <1>a, <1>5, <1>6, <1>7, <1>8
<1>10. ASSUME NEW i \in 1 .. n, Good(i - 1) PROVE Good(i)
  <2> DEFINE acc == run[i - 1]
             next == SellTo(acc, ids[i])
  <2>1. /\ SaleOK(acc, m, quantity) /\ ids[i] \in DOMAIN acc.m.buys
        /\ \A j \in 1 .. n : j > i - 1 => ids[j] \in DOMAIN acc.m.buys
        /\ acc.left > 0 => \A j \in 1 .. n : j <= i - 1 => ids[j] \notin DOMAIN acc.m.buys
    BY <1>7, <1>10
  <2>2. run[i] = next
    BY <1>8
  <2> HIDE DEF acc, Good
  <2>4. /\ SaleOK(next, m, quantity)
        /\ BuysFilled(acc.m.buys, next.m.buys)
        /\ DOMAIN acc.m.buys \ {ids[i]} \subseteq DOMAIN next.m.buys
        /\ next.left <= acc.left
        /\ next.left > 0 => ids[i] \notin DOMAIN next.m.buys
    BY <2>1, SellingKeepsSale
  <2> HIDE DEF next
  <2>5. \A j \in 1 .. n : j > i => ids[j] \in DOMAIN next.m.buys
    <3> TAKE j \in 1 .. n
    <3> HAVE j > i
    <3>1. j > i - 1 /\ ids[j] # ids[i]
      BY <1>7
    <3> QED BY <2>1, <2>4, <3>1
  <2>6. ASSUME next.left > 0, NEW j \in 1 .. n, j <= i
        PROVE  ids[j] \notin DOMAIN next.m.buys
    <3>1. acc.left > 0
      BY <2>1, <2>4, <2>6 DEF SaleOK
    <3>2. CASE j = i
      BY <2>4, <2>6, <3>2
    <3>3. CASE j # i
      <4>1. j <= i - 1
        BY <2>6, <3>3
      <4> QED BY <2>1, <2>4, <3>1, <4>1 DEF PartlyFilled, BuysFilled
    <3> QED BY <3>2, <3>3
  <2> QED BY <2>2, <2>4, <2>5, <2>6 DEF Good
<1>11. Good(n)
  <2> DEFINE T == {i \in 0 .. n : Good(i)}
  <2>1. 0 \in T /\ \A i \in 1 .. n : i - 1 \in T => i \in T
    <3> HIDE DEF Good
    <3> QED BY <1>7, <1>9, <1>10
  <2> HIDE DEF T
  <2>2. n \in T
    BY <1>7, <2>1, Sells!Induction
  <2> QED BY <2>2 DEF T
<1>12. SaleOK(r, m, quantity)
  BY <1>8, <1>11
<1>13. ASSUME r.left > 0, NEW o \in DOMAIN r.m.buys, r.m.buys[o].claim = claim
       PROVE  r.m.buys[o].price < limit
  <2>1. o \notin S
    <3> SUFFICES ASSUME o \in S PROVE FALSE
      OBVIOUS
    <3>1. PICK i \in 1 .. n : ids[i] = o
      BY <1>7
    <3>2. \A j \in 1 .. n : ids[j] \notin DOMAIN r.m.buys
      <4>1. \A j \in 1 .. n : j <= n
        BY <1>7
      <4>2. Good(n) /\ r = run[n]
        BY <1>8, <1>11
      <4> QED BY <1>13, <4>1, <4>2
    <3> QED BY <3>1, <3>2
  <2>2. /\ o \in DOMAIN m.buys /\ r.m.buys[o].claim = m.buys[o].claim
        /\ r.m.buys[o].price = m.buys[o].price
    BY <1>12 DEF SaleOK, PartlyFilled, BuysFilled
  <2> QED BY <1>4, <1>13, <2>1, <2>2
<1> QED BY <1>12, <1>13 DEF r

-----------------------------------------------------------------------------
(***************************************************************************)
(* The operations of the market                                            *)
(***************************************************************************)
Unmatched(buys, sells) ==
    \A b \in DOMAIN buys, s \in DOMAIN sells :
        buys[b].claim = sells[s].claim /\ ~buys[b].wrapped => buys[b].price < sells[s].price

LEMMA MarketIsCommitted ==
    ASSUME NEW m, MarketOK(m), Commit(m), lastOrder' \in 0 .. MaxOrders
    PROVE  MarketInv' /\ (Unmatched(m.buys, m.sells) => NothingLeftToMatch')
<1>1. MarketInv'
  BY MarketOfParts, Zenon
<1>2. buyOrders' = m.buys /\ sellOrders' = m.sells
  BY DEF Commit
<1> QED BY <1>1, <1>2 DEF Unmatched, NothingLeftToMatch

LEMMA MarketIsOK ==
    ASSUME MarketInv
    PROVE  /\ MarketOK(Market) /\ lastOrder \in 0 .. MaxOrders
           /\ Market.purse = purse /\ Market.wares = wares /\ Market.closed = closed
           /\ Market.buys = buyOrders /\ Market.sells = sellOrders
           /\ BuysOK(buyOrders) /\ SellsOK(sellOrders) /\ ListingsOK(closed)
           /\ purse \in [Traders -> Nat] /\ wares \in [Traders -> Nat]
<1>1. MarketOK(Market) /\ lastOrder \in 0 .. MaxOrders
  BY DEF MarketInv
<1>2. /\ Market.purse = purse /\ Market.wares = wares /\ Market.closed = closed
      /\ Market.buys = buyOrders /\ Market.sells = sellOrders
  BY DEF Market
<1> QED BY <1>1, <1>2 DEF MarketOK

LEMMA NothingIsMatched ==
    NothingLeftToMatch <=> Unmatched(buyOrders, sellOrders)
BY DEF NothingLeftToMatch, Unmatched

LEMMA FewerAreUnmatched ==
    ASSUME NEW buys, NEW sells, NEW fewerBuys, NEW fewerSells,
           Unmatched(buys, sells), BuysFilled(buys, fewerBuys), PartlyFilled(sells, fewerSells)
    PROVE  Unmatched(fewerBuys, fewerSells)
BY DEF Unmatched, PartlyFilled, BuysFilled

LEMMA PayingKeepsMarket ==
    ASSUME NEW m, MarketOK(m), NEW t \in Traders, NEW n \in Int, m.purse[t] >= n
    PROVE  /\ MarketOK(Paid(m, t, n))
           /\ Paid(m, t, n).wares = m.wares /\ Paid(m, t, n).buys = m.buys
           /\ Paid(m, t, n).sells = m.sells /\ Paid(m, t, n).closed = m.closed
<1> DEFINE rest == [m.purse EXCEPT ![t] = @ - n]
<1>1. m.purse \in [Traders -> Nat]
  BY DEF MarketOK
<1>2. rest \in [Traders -> Nat]
  BY <1>1
<1>3. Paid(m, t, n) = [m EXCEPT !.purse = rest]
  BY DEF Paid
<1> HIDE DEF rest
<1>4. Paid(m, t, n) = [purse |-> rest, wares |-> m.wares, buys |-> m.buys, sells |-> m.sells,
                       closed |-> m.closed]
  BY <1>3, MarketFields
<1> QED BY <1>2, <1>4 DEF MarketOK

LEMMA GivingKeepsMarket ==
    ASSUME NEW m, MarketOK(m), NEW t \in Traders, NEW n \in Int, m.wares[t] >= n
    PROVE  /\ MarketOK(Given(m, t, n))
           /\ Given(m, t, n).purse = m.purse /\ Given(m, t, n).buys = m.buys
           /\ Given(m, t, n).sells = m.sells /\ Given(m, t, n).closed = m.closed
<1> DEFINE rest == [m.wares EXCEPT ![t] = @ - n]
<1>1. m.wares \in [Traders -> Nat]
  BY DEF MarketOK
<1>2. rest \in [Traders -> Nat]
  BY <1>1
<1>3. Given(m, t, n) = [m EXCEPT !.wares = rest]
  BY DEF Given
<1> HIDE DEF rest
<1>4. Given(m, t, n) = [purse |-> m.purse, wares |-> rest, buys |-> m.buys, sells |-> m.sells,
                       closed |-> m.closed]
  BY <1>3, MarketFields
<1> QED BY <1>2, <1>4 DEF MarketOK

LEMMA OrdersReplaced ==
    ASSUME NEW m, MarketOK(m)
    PROVE  /\ \A buys : BuysOK(buys)
                 => /\ MarketOK([m EXCEPT !.buys = buys])
                    /\ [m EXCEPT !.buys = buys].buys = buys
                    /\ [m EXCEPT !.buys = buys].sells = m.sells
           /\ \A sells : SellsOK(sells)
                 => /\ MarketOK([m EXCEPT !.sells = sells])
                    /\ [m EXCEPT !.sells = sells].buys = m.buys
                    /\ [m EXCEPT !.sells = sells].sells = sells
<1>1. ASSUME NEW buys, BuysOK(buys)
      PROVE  /\ MarketOK([m EXCEPT !.buys = buys])
             /\ [m EXCEPT !.buys = buys].buys = buys /\ [m EXCEPT !.buys = buys].sells = m.sells
  BY <1>1, MarketFields DEF MarketOK
<1>2. ASSUME NEW sells, SellsOK(sells)
      PROVE  /\ MarketOK([m EXCEPT !.sells = sells])
             /\ [m EXCEPT !.sells = sells].buys = m.buys /\ [m EXCEPT !.sells = sells].sells = sells
  BY <1>2, MarketFields DEF MarketOK
<1> QED BY <1>1, <1>2

LEMMA BuyOrderAdded ==
    ASSUME NEW buys, BuysOK(buys), NEW o \in OrderIds, NEW row \in BuyOrder,
           row.quantity >= 1, row.wrapped \/ row.stored >= row.quantity * row.price
    PROVE  /\ BuysOK(With(buys, o, row))
           /\ \A sells : Unmatched(buys, sells) /\ Unmatched([k \in {o} |-> row], sells)
                            => Unmatched(With(buys, o, row), sells)
<1>1. BuysOK(With(buys, o, row))
  BY DEF BuysOK, With
<1>2. ASSUME NEW sells, Unmatched(buys, sells), Unmatched([k \in {o} |-> row], sells)
      PROVE  Unmatched(With(buys, o, row), sells)
  BY <1>2 DEF Unmatched, With
<1> QED BY <1>1, <1>2

LEMMA SellOrderAdded ==
    ASSUME NEW sells, SellsOK(sells), NEW o \in OrderIds, NEW row \in SellOrder,
           row.quantity >= 1
    PROVE  /\ SellsOK(With(sells, o, row))
           /\ \A buys : Unmatched(buys, sells) /\ Unmatched(buys, [k \in {o} |-> row])
                           => Unmatched(buys, With(sells, o, row))
<1>1. SellsOK(With(sells, o, row))
  BY DEF SellsOK, With
<1>2. ASSUME NEW buys, Unmatched(buys, sells), Unmatched(buys, [k \in {o} |-> row])
      PROVE  Unmatched(buys, With(sells, o, row))
  BY <1>2 DEF Unmatched, With
<1> QED BY <1>1, <1>2

LEMMA PostBuyOrderKeepsMarket ==
    ASSUME MarketInv, NEW t \in Traders, NEW claim \in Markets, NEW quantity \in Quantities,
           NEW price \in Prices, NEW persist \in BOOLEAN,
           PostBuyOrder(t, claim, quantity, price, persist)
    PROVE  MarketInv' /\ (NothingLeftToMatch => NothingLeftToMatch')
<1> DEFINE cost == Wrapped(quantity * price)
           sure == quantity * price \in I32
           over == quantity * price \notin I32
           r == ResolveBuyOrder(Market, t, claim, quantity, price, cost)
           spent == cost - r.budget
           savings == IF persist THEN Saved(quantity - r.wanted, price, spent) ELSE r.budget
           prepaid == Paid(r.m, t, cost)
           paid == CloseIfAny(prepaid, t, claim, "coin", savings)
           row == [owner |-> t, claim |-> claim, price |-> price, quantity |-> r.wanted,
                   stored |-> Wrapped(r.wanted * price), wrapped |-> over]
           posted == IF r.wanted = 0 THEN paid
                     ELSE [paid EXCEPT !.buys = With(@, lastOrder', row)]
<1>1. /\ cost >= 0 /\ purse[t] >= cost /\ lastOrder < MaxOrders /\ lastOrder' = lastOrder + 1
      /\ Commit(posted)
  BY DEF PostBuyOrder
<1>2. /\ MarketOK(Market) /\ lastOrder \in 0 .. MaxOrders /\ Market.purse = purse
      /\ Market.buys = buyOrders /\ Market.sells = sellOrders
      /\ BuysOK(buyOrders) /\ SellsOK(sellOrders)
  BY MarketIsOK
<1>3. quantity \in Nat /\ price \in Nat /\ quantity >= 1 /\ price >= 1 /\ MaxOrders \in Nat
  BY MarketAssumption, HalfRangeIsPositive DEF Prices
<1>4. /\ cost \in Nat /\ cost < HalfRange
      /\ sure => cost = quantity * price
  <2> DEFINE all == quantity * price
  <2>1. all \in Int
    BY <1>3
  <2> HIDE DEF all
  <2>2. Wrapped(all) \in I32 /\ Wrapped(all) \in Int
    BY <2>1, WrappedFits
  <2>3. all \in I32 => Wrapped(all) = all
    BY WrappedIsSame
  <2>4. HalfRange \in Nat
    BY HalfRangeIsPositive
  <2>5. Wrapped(all) >= 0
    BY <1>1 DEF all
  <2>6. Wrapped(all) \in Nat /\ Wrapped(all) < HalfRange
    BY <2>2, <2>4, <2>5 DEF I32
  <2> QED BY <2>3, <2>6 DEF all
<1>b. sure \in BOOLEAN /\ over \in BOOLEAN /\ (over <=> ~sure)
  OBVIOUS
<1> DEFINE before == Market
<1> HIDE DEF sure, over
<1>5. /\ PurchaseOK(r, before, quantity, price, sure)
      /\ sure /\ r.wanted > 0 => \A o \in DOMAIN r.m.sells :
                            r.m.sells[o].claim = claim => r.m.sells[o].price > price
  <2>1. MarketOK(before) /\ (sure => cost >= quantity * price)
    BY <1>2, <1>3, <1>4
  <2> HIDE DEF before, cost
  <2>2. LET s == ResolveBuyOrder(before, t, claim, quantity, price, cost)
        IN  /\ PurchaseOK(s, before, quantity, price, sure)
            /\ sure /\ s.wanted > 0 => \A o \in DOMAIN s.m.sells :
                                  s.m.sells[o].claim = claim => s.m.sells[o].price > price
    BY <1>3, <1>4, <1>b, <2>1, PurchaseIsResolved
  <2>3. r = ResolveBuyOrder(before, t, claim, quantity, price, cost)
    BY DEF before
  <2> HIDE DEF r
  <2> QED BY <2>2, <2>3
<1> HIDE DEF r, cost
<1>6. /\ MarketOK(r.m) /\ r.m.purse = purse /\ r.m.buys = buyOrders
      /\ PartlyFilled(sellOrders, r.m.sells) /\ r.wanted \in Nat /\ r.budget \in Nat
      /\ r.wanted <= quantity
  BY <1>2, <1>3, <1>5 DEF PurchaseOK
<1>7. savings \in Int
  <2> DEFINE filled == (quantity - r.wanted) * price
  <2>1. spent \in Int /\ quantity - r.wanted \in Int
    BY <1>3, <1>4, <1>6
  <2>2. filled \in Int
    BY <1>3, <2>1
  <2> HIDE DEF spent
  <2> HIDE DEF filled
  <2>3. Saved(quantity - r.wanted, price, spent) = Wrapped(filled - spent)
    BY DEF Saved, filled
  <2> DEFINE rest == filled - spent
  <2>4. rest \in Int
    BY <2>1, <2>2
  <2> HIDE DEF rest
  <2>5. Wrapped(rest) \in Int
    BY <2>4, WrappedFits
  <2> QED BY <1>6, <2>3, <2>5 DEF rest
<1> HIDE DEF savings
<1>8. MarketOK(prepaid) /\ prepaid.buys = buyOrders /\ prepaid.sells = r.m.sells
  BY <1>1, <1>4, <1>6, PayingKeepsMarket
<1> HIDE DEF prepaid
<1>9. MarketOK(paid) /\ paid.buys = buyOrders /\ paid.sells = r.m.sells
  BY <1>7, <1>8, ClosingIfAnyKeepsMarket DEF Things, SameButListings
<1> HIDE DEF paid
<1>10. NothingLeftToMatch => Unmatched(buyOrders, r.m.sells)
  <2>1. BuysFilled(buyOrders, buyOrders)
    BY DEF PartlyFilled, BuysFilled
  <2> QED BY <1>6, <2>1, FewerAreUnmatched, NothingIsMatched
<1>11. /\ MarketOK(posted)
       /\ NothingLeftToMatch => Unmatched(posted.buys, posted.sells)
  <2>1. CASE r.wanted = 0
    BY <1>9, <1>10, <2>1
  <2>2. CASE r.wanted # 0
    <3> DEFINE o == lastOrder'
               buys == With(buyOrders, o, row)
    <3>1. o \in OrderIds
      BY <1>1, <1>2, <1>3 DEF OrderIds
    <3> DEFINE worth == r.wanted * price
               kept == Wrapped(worth)
    <3>2. worth \in Nat /\ (sure => worth \in I32)
      <4> DEFINE all == quantity * price
      <4>1. worth \in Nat /\ all \in Nat
        BY <1>3, <1>6, Products
      <4>2. price * r.wanted <= price * quantity
        BY <1>3, <1>6, ProductsGrow
      <4>3. worth = price * r.wanted /\ all = price * quantity
        BY <1>3, <1>6
      <4>4. sure => all \in I32
        BY DEF sure
      <4>5. worth <= all /\ HalfRange \in Nat
        BY <4>2, <4>3, HalfRangeIsPositive
      <4> HIDE DEF worth, all
      <4> QED BY <4>1, <4>4, <4>5 DEF I32
    <3> HIDE DEF worth
    <3>a. kept \in I32 /\ kept \in Int /\ (sure => kept = worth)
      BY <3>2, WrappedFits, WrappedIsSame
    <3> HIDE DEF kept
    <3>3. row = [owner |-> t, claim |-> claim, price |-> price, quantity |-> r.wanted,
                 stored |-> kept, wrapped |-> over]
      BY DEF worth, kept
    <3>4. /\ row \in BuyOrder /\ row.quantity >= 1 /\ row.claim = claim
          /\ row.price = price /\ row.quantity = r.wanted
          /\ row.stored = kept /\ row.wrapped = over
      <4> HIDE DEF row
      <4>1. r.wanted \in Nat /\ r.wanted >= 1
        BY <1>6, <2>2
      <4>2. row \in BuyOrder
        BY <1>b, <3>3, <3>a, <4>1, Zenon DEF BuyOrder
      <4> QED BY <3>3, <4>1, <4>2
    <3> HIDE DEF row, o
    <3>5. row.wrapped \/ row.stored >= row.quantity * row.price
      <4>1. sure => kept >= r.wanted * price
        BY <3>2, <3>a DEF worth
      <4> QED BY <1>b, <3>4, <4>1
    <3>6. BuysOK(buys)
      BY <1>2, <3>1, <3>4, <3>5, BuyOrderAdded
    <3>7. NothingLeftToMatch => Unmatched(buys, r.m.sells)
      <4>1. Unmatched([k \in {o} |-> row], r.m.sells)
        BY <1>5, <1>6, <1>b, <2>2, <3>4 DEF Unmatched
      <4> QED BY <1>2, <1>10, <3>1, <3>4, <3>5, <4>1, BuyOrderAdded
    <3>8. posted = [paid EXCEPT !.buys = buys]
      BY <1>9, <2>2 DEF row, o
    <3> HIDE DEF buys, posted
    <3>9. MarketOK(posted) /\ posted.buys = buys /\ posted.sells = r.m.sells
      BY <1>9, <3>6, <3>8, OrdersReplaced
    <3> QED BY <3>7, <3>9
  <2> QED BY <2>1, <2>2
<1>12. lastOrder' \in 0 .. MaxOrders
  BY <1>1, <1>2, <1>3
<1> HIDE DEF posted
<1> QED BY <1>1, <1>11, <1>12, MarketIsCommitted

LEMMA PostSellOrderKeepsMarket ==
    ASSUME MarketInv, NEW t \in Traders, NEW claim \in Markets, NEW quantity \in Quantities,
           NEW price \in Prices, NEW persist \in BOOLEAN,
           PostSellOrder(t, claim, quantity, price, persist)
    PROVE  MarketInv' /\ (NothingLeftToMatch => NothingLeftToMatch')
<1> DEFINE given == Given(Market, t, quantity)
           r == ResolveSellOrder(given, t, claim, quantity, price)
           row == [owner |-> t, claim |-> claim, price |-> price, quantity |-> r.left]
           posted == IF r.left = 0 \/ ~persist THEN r.m
                     ELSE [r.m EXCEPT !.sells = With(@, lastOrder', row)]
<1>1. /\ wares[t] >= quantity /\ lastOrder < MaxOrders /\ lastOrder' = lastOrder + 1
      /\ Commit(posted)
  BY DEF PostSellOrder, HasWares
<1>2. /\ MarketOK(Market) /\ lastOrder \in 0 .. MaxOrders /\ Market.wares = wares
      /\ Market.buys = buyOrders /\ Market.sells = sellOrders
      /\ BuysOK(buyOrders) /\ SellsOK(sellOrders)
  BY MarketIsOK
<1>3. quantity \in Nat /\ price \in Nat /\ quantity >= 1 /\ price >= 1 /\ MaxOrders \in Nat
  BY MarketAssumption, HalfRangeIsPositive DEF Prices
<1>4. MarketOK(given) /\ given.buys = buyOrders /\ given.sells = sellOrders
  <2> DEFINE before == Market
  <2>1. MarketOK(before) /\ before.wares[t] >= quantity
    BY <1>1, <1>2
  <2> HIDE DEF before
  <2>2. /\ MarketOK(Given(before, t, quantity)) /\ Given(before, t, quantity).buys = before.buys
        /\ Given(before, t, quantity).sells = before.sells
    BY <1>3, <2>1, GivingKeepsMarket
  <2> QED BY <1>2, <2>2 DEF before
<1> HIDE DEF given
<1>5. /\ SaleOK(r, given, quantity)
      /\ r.left > 0 => \A o \in DOMAIN r.m.buys :
                          r.m.buys[o].claim = claim => r.m.buys[o].price < price
  BY <1>3, <1>4, SaleIsResolved
<1> HIDE DEF r
<1>6. /\ MarketOK(r.m) /\ r.m.sells = sellOrders
      /\ BuysFilled(buyOrders, r.m.buys) /\ r.left \in Nat
  BY <1>4, <1>5 DEF SaleOK
<1>7. NothingLeftToMatch => Unmatched(r.m.buys, sellOrders)
  <2>1. PartlyFilled(sellOrders, sellOrders)
    BY DEF PartlyFilled
  <2> QED BY <1>6, <2>1, FewerAreUnmatched, NothingIsMatched
<1>8. /\ MarketOK(posted)
      /\ NothingLeftToMatch => Unmatched(posted.buys, posted.sells)
  <2>1. CASE r.left = 0 \/ ~persist
    BY <1>6, <1>7, <2>1
  <2>2. CASE ~(r.left = 0 \/ ~persist)
    <3> DEFINE o == lastOrder'
               sells == With(sellOrders, o, row)
    <3>1. o \in OrderIds
      BY <1>1, <1>2, <1>3 DEF OrderIds
    <3>2. row \in SellOrder /\ row.quantity >= 1 /\ row.claim = claim
          /\ row.price = price /\ row.quantity = r.left
      <4>1. r.left \in Nat /\ r.left >= 1
        BY <1>6, <2>2
      <4> QED BY <4>1 DEF SellOrder
    <3> HIDE DEF row, o
    <3>3. SellsOK(sells)
      BY <1>2, <3>1, <3>2, SellOrderAdded
    <3>4. NothingLeftToMatch => Unmatched(r.m.buys, sells)
      <4>1. Unmatched(r.m.buys, [k \in {o} |-> row])
        BY <1>5, <1>6, <2>2, <3>2 DEF Unmatched
      <4> QED BY <1>2, <1>7, <3>1, <3>2, <4>1, SellOrderAdded
    <3>5. posted = [r.m EXCEPT !.sells = sells]
      BY <1>6, <2>2 DEF row, o
    <3> HIDE DEF sells, posted
    <3>6. MarketOK(posted) /\ posted.sells = sells /\ posted.buys = r.m.buys
      BY <1>6, <3>3, <3>5, OrdersReplaced
    <3> QED BY <3>4, <3>6
  <2> QED BY <2>1, <2>2
<1>9. lastOrder' \in 0 .. MaxOrders
  BY <1>1, <1>2, <1>3
<1> HIDE DEF posted
<1> QED BY <1>1, <1>8, <1>9, MarketIsCommitted

(***************************************************************************)
(* An order is edited at a building of some claim, and matched there.  At  *)
(* the claim of the order nothing is left to match.                        *)
(***************************************************************************)
OneMarket == \A a, b \in Markets : a = b

LEMMA BuyOrderReplaced ==
    ASSUME NEW buys, BuysOK(buys), NEW o \in DOMAIN buys, NEW row \in BuyOrder,
           row.quantity >= 1, row.wrapped \/ row.stored >= row.quantity * row.price
    PROVE  /\ BuysOK([buys EXCEPT ![o] = row])
           /\ \A sells : Unmatched(buys, sells) /\ Unmatched([k \in {o} |-> row], sells)
                            => Unmatched([buys EXCEPT ![o] = row], sells)
<1>1. BuysOK([buys EXCEPT ![o] = row])
  BY DEF BuysOK
<1>2. ASSUME NEW sells, Unmatched(buys, sells), Unmatched([k \in {o} |-> row], sells)
      PROVE  Unmatched([buys EXCEPT ![o] = row], sells)
  BY <1>2 DEF Unmatched
<1> QED BY <1>1, <1>2

LEMMA SellOrderReplaced ==
    ASSUME NEW sells, SellsOK(sells), NEW o \in DOMAIN sells, NEW row \in SellOrder,
           row.quantity >= 1
    PROVE  /\ SellsOK([sells EXCEPT ![o] = row])
           /\ \A buys : Unmatched(buys, sells) /\ Unmatched(buys, [k \in {o} |-> row])
                           => Unmatched(buys, [sells EXCEPT ![o] = row])
<1>1. SellsOK([sells EXCEPT ![o] = row])
  BY DEF SellsOK
<1>2. ASSUME NEW buys, Unmatched(buys, sells), Unmatched(buys, [k \in {o} |-> row])
      PROVE  Unmatched(buys, [sells EXCEPT ![o] = row])
  BY <1>2 DEF Unmatched
<1> QED BY <1>1, <1>2

LEMMA CancellingKeepsMarket ==
    ASSUME MarketInv, NEW t \in Traders,
           \/ \E o \in DOMAIN buyOrders : CancelBuyOrder(t, o)
           \/ \E o \in DOMAIN sellOrders : CancelSellOrder(t, o)
    PROVE  MarketInv' /\ (NothingLeftToMatch => NothingLeftToMatch')
<1> DEFINE before == Market
<1>1. /\ MarketOK(before) /\ lastOrder \in 0 .. MaxOrders
      /\ before.buys = buyOrders /\ before.sells = sellOrders
      /\ BuysOK(buyOrders) /\ SellsOK(sellOrders)
  BY MarketIsOK
<1> HIDE DEF before
<1>2. ASSUME NEW o \in DOMAIN buyOrders, CancelBuyOrder(t, o)
      PROVE  MarketInv' /\ (NothingLeftToMatch => NothingLeftToMatch')
  <2> DEFINE order == buyOrders[o]
             k == Close(before, t, order.claim, "coin", order.stored)
             buys == Without(buyOrders, o)
             m == [k EXCEPT !.buys = buys]
  <2>1. order.claim \in Markets /\ order.stored \in Int
    BY <1>1, BuyOrderFields
  <2> HIDE DEF order
  <2>2. MarketOK(k) /\ k.buys = buyOrders /\ k.sells = sellOrders
    BY <1>1, <2>1, ClosingKeepsMarket DEF Things, SameButListings
  <2>3. Commit(m) /\ lastOrder' = lastOrder
    <3>1. Commit([k EXCEPT !.buys = Without(@, o)]) /\ lastOrder' = lastOrder
      BY <1>2 DEF CancelBuyOrder, before, order
    <3>2. [k EXCEPT !.buys = Without(@, o)] = m
      BY <2>2
    <3> QED BY <3>1, <3>2
  <2> HIDE DEF k
  <2>4. BuysOK(buys) /\ BuysFilled(buyOrders, buys) /\ PartlyFilled(sellOrders, sellOrders)
    <3>1. PartlyFilled(sellOrders, sellOrders)
      BY DEF PartlyFilled
    <3> QED BY <1>1, <3>1, BuyOrderRemoved
  <2> HIDE DEF buys
  <2>5. MarketOK(m) /\ m.buys = buys /\ m.sells = sellOrders
    BY <2>2, <2>4, OrdersReplaced
  <2> HIDE DEF m
  <2>6. NothingLeftToMatch => Unmatched(m.buys, m.sells)
    BY <2>4, <2>5, FewerAreUnmatched, NothingIsMatched
  <2> QED BY <1>1, <2>3, <2>5, <2>6, MarketIsCommitted
<1>3. ASSUME NEW o \in DOMAIN sellOrders, CancelSellOrder(t, o)
      PROVE  MarketInv' /\ (NothingLeftToMatch => NothingLeftToMatch')
  <2> DEFINE order == sellOrders[o]
             k == Close(before, t, order.claim, "ware", order.quantity)
             sells == Without(sellOrders, o)
             m == [k EXCEPT !.sells = sells]
  <2>1. order.claim \in Markets /\ order.quantity \in Nat
    BY <1>1, SellOrderFields
  <2> HIDE DEF order
  <2>2. MarketOK(k) /\ k.buys = buyOrders /\ k.sells = sellOrders
    BY <1>1, <2>1, ClosingKeepsMarket DEF Things, SameButListings
  <2>3. Commit(m) /\ lastOrder' = lastOrder
    <3>1. Commit([k EXCEPT !.sells = Without(@, o)]) /\ lastOrder' = lastOrder
      BY <1>3 DEF CancelSellOrder, before, order
    <3>2. [k EXCEPT !.sells = Without(@, o)] = m
      BY <2>2
    <3> QED BY <3>1, <3>2
  <2> HIDE DEF k
  <2>4. SellsOK(sells) /\ PartlyFilled(sellOrders, sells) /\ BuysFilled(buyOrders, buyOrders)
    <3>1. BuysFilled(buyOrders, buyOrders)
      BY DEF PartlyFilled, BuysFilled
    <3> QED BY <1>1, <3>1, SellOrderRemoved
  <2> HIDE DEF sells
  <2>5. MarketOK(m) /\ m.buys = buyOrders /\ m.sells = sells
    BY <2>2, <2>4, OrdersReplaced
  <2> HIDE DEF m
  <2>6. NothingLeftToMatch => Unmatched(m.buys, m.sells)
    BY <2>4, <2>5, FewerAreUnmatched, NothingIsMatched
  <2> QED BY <1>1, <2>3, <2>5, <2>6, MarketIsCommitted
<1> QED BY <1>2, <1>3

LEMMA EditedCost ==
    ASSUME NEW oldQuantity \in Nat, NEW oldPrice \in Nat, NEW quantity \in Nat,
           NEW price \in Nat, NEW stored \in Int, stored >= oldQuantity * oldPrice
    PROVE  LET delta == oldQuantity * (price - oldPrice) + (quantity - oldQuantity) * price
           IN  /\ delta \in Int /\ stored + delta \in Nat
               /\ stored + delta >= quantity * price
<1> DEFINE delta == oldQuantity * (price - oldPrice) + (quantity - oldQuantity) * price
           old == oldQuantity * oldPrice
           mixed == oldQuantity * price
           new == quantity * price
<1>1. old \in Nat /\ mixed \in Nat /\ new \in Nat
  BY Products
<1>2. oldQuantity * (price - oldPrice) = mixed - old
  OBVIOUS
<1>3. (quantity - oldQuantity) * price = new - mixed
  OBVIOUS
<1>4. delta = (mixed - old) + (new - mixed)
  BY <1>2, <1>3
<1>5. stored >= old
  OBVIOUS
<1> HIDE DEF delta, old, mixed, new
<1>6. delta \in Int /\ stored + delta \in Nat /\ stored + delta >= new
  BY <1>1, <1>4, <1>5
<1> QED BY <1>6 DEF delta, new

LEMMA EditBuyOrderKeepsMarket ==
    ASSUME MarketInv, NEW t \in Traders, NEW claim \in Markets, NEW quantity \in Quantities,
           NEW price \in Prices, NEW o \in DOMAIN buyOrders,
           EditBuyOrder(t, claim, o, quantity, price)
    PROVE  MarketInv' /\ (OneMarket /\ NothingLeftToMatch => NothingLeftToMatch')
<1> DEFINE before == Market
           order == buyOrders[o]
           delta == CoinsDelta(order, quantity, price)
           stored == Wrapped(order.stored + delta)
           sure == ~order.wrapped
           dearer == ResolveBuyOrder(before, t, claim, quantity, price, stored)
           unmoved == [m |-> before, wanted |-> quantity, budget |-> stored]
           r == IF price > order.price THEN dearer ELSE unmoved
           spent == stored - r.budget
           savings == Saved(quantity - r.wanted, price, spent)
           saved == IF price > order.price THEN CloseIfAny(r.m, t, claim, "coin", savings)
                    ELSE r.m
           row == [order EXCEPT !.price = price, !.quantity = r.wanted, !.stored = r.budget]
           m == [saved EXCEPT !.buys = IF r.wanted = 0 THEN Without(@, o)
                                       ELSE [@ EXCEPT ![o] = row]]
           settled == Settled(m, t, claim, delta)
<1>1. /\ DeltaFits(order, quantity, price) /\ stored >= 0 /\ purse[t] >= delta
      /\ Commit(settled) /\ lastOrder' = lastOrder
  BY DEF EditBuyOrder
<1>2. /\ MarketOK(before) /\ lastOrder \in 0 .. MaxOrders /\ before.purse = purse
      /\ before.buys = buyOrders /\ before.sells = sellOrders
      /\ BuysOK(buyOrders) /\ SellsOK(sellOrders)
  BY MarketIsOK
<1> HIDE DEF before
<1>3. quantity \in Nat /\ price \in Nat /\ quantity >= 1 /\ price >= 1
  BY MarketAssumption, HalfRangeIsPositive DEF Prices
<1>4. /\ order.owner \in Traders /\ order.claim \in Markets /\ order.price \in Nat
      /\ order.quantity \in Nat /\ order.stored \in I32 /\ order.stored \in Int
      /\ order.wrapped \in BOOLEAN
      /\ order.wrapped \/ order.stored >= order.quantity * order.price
      /\ order = [owner |-> order.owner, claim |-> order.claim, price |-> order.price,
                  quantity |-> order.quantity, stored |-> order.stored,
                  wrapped |-> order.wrapped]
  BY <1>2, BuyOrderFields
<1>b. sure \in BOOLEAN /\ (order.wrapped <=> ~sure)
  BY <1>4
<1> HIDE DEF order
<1>5. /\ delta \in Int /\ stored \in Nat /\ stored < HalfRange
      /\ sure => stored >= quantity * price
  <2> DEFINE q == order.quantity
             p == order.price
             s == order.stored
             d == q * (price - p) + (quantity - q) * price
             sum == s + d
  <2>1. q \in Nat /\ p \in Nat /\ s \in I32 /\ s \in Int /\ (sure => s >= q * p)
    BY <1>4, <1>b
  <2>2. delta = d /\ stored = Wrapped(sum)
    BY DEF CoinsDelta
  <2>3. d \in I32
    BY <1>1, <2>2 DEF DeltaFits
  <2>4. HalfRange \in Nat
    BY HalfRangeIsPositive
  <2>a. Wrapped(sum) >= 0
    BY <1>1, <2>2
  <2> HIDE DEF sure, delta, stored
  <2>5. sure => /\ s >= 0 /\ s + d >= quantity * price
    <3> SUFFICES ASSUME sure PROVE s >= 0 /\ s + d >= quantity * price
      OBVIOUS
    <3> HIDE DEF q, p, s, d
    <3>1. s + d >= quantity * price
      BY <1>3, <2>1, EditedCost DEF d
    <3> DEFINE worth == q * p
    <3>2. worth \in Nat
      BY <2>1, Products
    <3>3. s >= worth
      BY <2>1
    <3> HIDE DEF worth
    <3>4. s >= 0
      BY <2>1, <3>2, <3>3
    <3> QED BY <3>1, <3>4
  <2> HIDE DEF q, p, s, d
  <2>6. d \in Int
    BY <2>3, WrappedIsSame
  <2>7. Wrapped(sum) \in I32 /\ Wrapped(sum) \in Int
    <3>1. sum \in Int
      BY <2>1, <2>6
    <3> HIDE DEF sum
    <3> QED BY <3>1, WrappedFits
  <2>8. sure => Wrapped(sum) = s + d
    BY <2>1, <2>3, <2>5, <2>a, WrappedSum
  <2> DEFINE new == Wrapped(sum)
  <2>9. new \in Nat /\ new < HalfRange
    <3>1. new \in I32 /\ new \in Int /\ new >= 0
      BY <2>7, <2>a
    <3> HIDE DEF new
    <3> QED BY <2>4, <3>1 DEF I32
  <2> QED BY <2>2, <2>5, <2>6, <2>8, <2>9
<1> HIDE DEF delta, stored, sure
<1>6. /\ MarketOK(r.m) /\ r.m.purse = purse /\ r.m.buys = buyOrders
      /\ PartlyFilled(sellOrders, r.m.sells) /\ r.wanted \in Nat /\ r.budget \in Nat
      /\ r.budget < HalfRange /\ (sure => r.budget >= r.wanted * price)
      /\ sure /\ price > order.price /\ r.wanted > 0 =>
            \A s \in DOMAIN r.m.sells : r.m.sells[s].claim = claim => r.m.sells[s].price > price
  <2>1. CASE price > order.price
    <3>1. /\ PurchaseOK(dearer, before, quantity, price, sure)
          /\ sure /\ dearer.wanted > 0 => \A s \in DOMAIN dearer.m.sells :
                dearer.m.sells[s].claim = claim => dearer.m.sells[s].price > price
      BY <1>2, <1>3, <1>5, <1>b, PurchaseIsResolved
    <3> HIDE DEF dearer
    <3>2. r = dearer
      BY <2>1
    <3> HIDE DEF r
    <3> QED BY <1>2, <1>3, <3>1, <3>2 DEF PurchaseOK
  <2>2. CASE ~(price > order.price)
    <3>1. r = unmoved
      BY <2>2
    <3>2. unmoved.m = before /\ unmoved.wanted = quantity /\ unmoved.budget = stored
      OBVIOUS
    <3> HIDE DEF unmoved, r
    <3>3. PartlyFilled(sellOrders, sellOrders)
      BY DEF PartlyFilled
    <3> QED BY <1>2, <1>3, <1>5, <2>2, <3>1, <3>2, <3>3
  <2> QED BY <2>1, <2>2
<1> HIDE DEF r
<1>7. savings \in Int
  <2> DEFINE filled == (quantity - r.wanted) * price
  <2>1. spent \in Int /\ quantity - r.wanted \in Int
    BY <1>3, <1>5, <1>6
  <2>2. filled \in Int
    BY <1>3, <2>1
  <2> HIDE DEF spent
  <2> HIDE DEF filled
  <2>3. savings = Wrapped(filled - spent)
    BY DEF Saved, filled
  <2> DEFINE rest == filled - spent
  <2>4. rest \in Int
    BY <2>1, <2>2
  <2> HIDE DEF rest
  <2>5. Wrapped(rest) \in Int
    BY <2>4, WrappedFits
  <2> HIDE DEF savings
  <2> QED BY <2>3, <2>5 DEF rest
<1> HIDE DEF savings
<1>8. /\ MarketOK(saved) /\ saved.purse = purse /\ saved.buys = buyOrders
      /\ saved.sells = r.m.sells
  <2>1. CASE price > order.price
    BY <1>6, <1>7, <2>1, ClosingIfAnyKeepsMarket DEF Things, SameButListings
  <2>2. CASE ~(price > order.price)
    BY <1>6, <2>2
  <2> QED BY <2>1, <2>2
<1> HIDE DEF saved
<1> DEFINE buys == IF r.wanted = 0 THEN Without(buyOrders, o) ELSE [buyOrders EXCEPT ![o] = row]
<1>9. row = [owner |-> order.owner, claim |-> order.claim, price |-> price,
             quantity |-> r.wanted, stored |-> r.budget, wrapped |-> order.wrapped]
  <2> DEFINE first == [order EXCEPT !.price = price]
             second == [first EXCEPT !.quantity = r.wanted]
  <2>1. row = [second EXCEPT !.stored = r.budget]
    OBVIOUS
  <2>2. first = [owner |-> order.owner, claim |-> order.claim, price |-> price,
                 quantity |-> order.quantity, stored |-> order.stored,
                 wrapped |-> order.wrapped]
    BY <1>4
  <2> HIDE DEF first
  <2>3. second = [owner |-> order.owner, claim |-> order.claim, price |-> price,
                  quantity |-> r.wanted, stored |-> order.stored,
                  wrapped |-> order.wrapped]
    BY <2>2
  <2> HIDE DEF second
  <2> QED BY <2>1, <2>3
<1>10. m = [saved EXCEPT !.buys = buys]
  BY <1>8
<1> HIDE DEF row
<1>11. NothingLeftToMatch => Unmatched(buyOrders, r.m.sells)
  <2>1. BuysFilled(buyOrders, buyOrders)
    BY DEF PartlyFilled, BuysFilled
  <2> QED BY <1>6, <2>1, FewerAreUnmatched, NothingIsMatched
<1>12. /\ BuysOK(buys)
       /\ OneMarket /\ NothingLeftToMatch => Unmatched(buys, r.m.sells)
  <2>1. CASE r.wanted = 0
    <3>1. PartlyFilled(r.m.sells, r.m.sells)
      BY DEF PartlyFilled
    <3>2. BuysOK(Without(buyOrders, o)) /\ BuysFilled(buyOrders, Without(buyOrders, o))
      BY <1>2, BuyOrderRemoved
    <3> QED BY <1>11, <2>1, <3>1, <3>2, FewerAreUnmatched
  <2>2. CASE r.wanted # 0
    <3>1. r.wanted >= 1 /\ r.wanted > 0
      BY <1>6, <2>2
    <3>2. /\ row.claim = order.claim /\ row.price = price /\ row.quantity = r.wanted
          /\ row.stored = r.budget /\ row.wrapped = order.wrapped
      BY <1>9
    <3>a. r.budget \in I32
      BY <1>6, HalfRangeIsPositive DEF I32
    <3>3. row \in BuyOrder /\ row.quantity >= 1
      <4>1. row \in BuyOrder
        BY <1>4, <1>6, <1>9, <3>a, Zenon DEF BuyOrder
      <4> QED BY <3>1, <3>2, <4>1
    <3>4. row.wrapped \/ row.stored >= row.quantity * row.price
      BY <1>6, <1>b, <3>2
    <3>5. /\ BuysOK([buyOrders EXCEPT ![o] = row])
          /\ \A sells : Unmatched(buyOrders, sells) /\ Unmatched([k \in {o} |-> row], sells)
                           => Unmatched([buyOrders EXCEPT ![o] = row], sells)
      BY <1>2, <3>3, <3>4, BuyOrderReplaced
    <3>6. ASSUME OneMarket, NothingLeftToMatch PROVE Unmatched([k \in {o} |-> row], r.m.sells)
      <4>1. ASSUME sure, NEW s \in DOMAIN r.m.sells, r.m.sells[s].claim = order.claim
            PROVE  price < r.m.sells[s].price
        <5>1. CASE price > order.price
          <6>1. order.claim = claim
            BY <1>4, <3>6 DEF OneMarket
          <6> QED BY <1>6, <3>1, <4>1, <5>1, <6>1
        <5>2. CASE ~(price > order.price)
          <6>1. order.price < r.m.sells[s].price
            BY <1>11, <1>b, <3>6, <4>1 DEF Unmatched, order
          <6>2. r.m.sells[s].price \in Nat
            <7> DEFINE sells == r.m.sells
            <7>1. SellsOK(sells) /\ s \in DOMAIN sells
              BY <1>6 DEF MarketOK
            <7> HIDE DEF sells
            <7>2. sells[s].price \in Nat \ {0}
              BY <7>1, SellOrderFields
            <7> QED BY <7>2 DEF sells
          <6> QED BY <1>3, <1>4, <5>2, <6>1, <6>2
        <5> QED BY <5>1, <5>2
      <4> QED BY <1>b, <3>2, <4>1 DEF Unmatched
    <3> QED BY <1>11, <2>2, <3>5, <3>6
  <2> QED BY <2>1, <2>2
<1> HIDE DEF buys, m
<1>13. MarketOK(m) /\ m.buys = buys /\ m.sells = r.m.sells /\ m.purse = purse
  <2>1. MarketOK(m) /\ m.buys = buys /\ m.sells = r.m.sells
    BY <1>8, <1>10, <1>12, OrdersReplaced
  <2>2. m.purse = purse
    BY <1>8, <1>10, MarketFields
  <2> QED BY <2>1, <2>2
<1>14. MarketOK(settled) /\ settled.buys = buys /\ settled.sells = r.m.sells
  <2>1. CASE delta > 0
    <3>1. settled = Paid(m, t, delta)
      BY <1>5, <2>1 DEF Settled
    <3> HIDE DEF settled
    <3> QED BY <1>1, <1>5, <1>13, <2>1, <3>1, PayingKeepsMarket
  <2>2. CASE delta < 0
    <3> DEFINE back == Wrapped(-delta)
    <3>1. settled = Close(m, t, claim, "coin", back)
      BY <1>5, <2>2 DEF Settled
    <3>2. back \in Int
      <4> DEFINE less == -delta
      <4>1. less \in Int
        BY <1>5
      <4> HIDE DEF less
      <4>2. Wrapped(less) \in Int
        BY <4>1, WrappedFits
      <4> QED BY <4>2 DEF less
    <3> HIDE DEF settled, back
    <3> QED BY <1>13, <3>1, <3>2, ClosingKeepsMarket DEF Things, SameButListings
  <2>3. CASE ~(delta > 0) /\ ~(delta < 0)
    <3>1. settled = m
      BY <2>3 DEF Settled
    <3> QED BY <1>13, <3>1
  <2> QED BY <2>1, <2>2, <2>3
<1> HIDE DEF settled
<1> QED BY <1>1, <1>2, <1>12, <1>14, MarketIsCommitted

LEMMA EditSellOrderKeepsMarket ==
    ASSUME MarketInv, NEW t \in Traders, NEW claim \in Markets, NEW quantity \in Quantities,
           NEW price \in Prices, NEW o \in DOMAIN sellOrders,
           EditSellOrder(t, claim, o, quantity, price)
    PROVE  MarketInv' /\ (OneMarket /\ NothingLeftToMatch => NothingLeftToMatch')
<1> DEFINE before == Market
           order == sellOrders[o]
           delta == quantity - order.quantity
           back == -delta
           start == Adjusted(t, claim, delta)
           cheaper == ResolveSellOrder(start, t, claim, quantity, price)
           unmoved == [m |-> start, left |-> quantity, fits |-> TRUE]
           r == IF price < order.price THEN cheaper ELSE unmoved
           row == [order EXCEPT !.price = price, !.quantity = r.left]
           m == [r.m EXCEPT !.sells = IF r.left = 0 THEN Without(@, o)
                                      ELSE [@ EXCEPT ![o] = row]]
<1>1. /\ delta > 0 => wares[t] >= delta
      /\ Commit(m) /\ lastOrder' = lastOrder
  BY DEF EditSellOrder, HasWares
<1>2. /\ MarketOK(before) /\ lastOrder \in 0 .. MaxOrders /\ before.wares = wares
      /\ before.buys = buyOrders /\ before.sells = sellOrders
      /\ BuysOK(buyOrders) /\ SellsOK(sellOrders)
  BY MarketIsOK
<1>3. quantity \in Nat /\ price \in Nat /\ quantity >= 1 /\ price >= 1
  BY MarketAssumption, HalfRangeIsPositive DEF Prices
<1>4. /\ order.owner \in Traders /\ order.claim \in Markets /\ order.price \in Nat
      /\ order.quantity \in Nat
      /\ order = [owner |-> order.owner, claim |-> order.claim, price |-> order.price,
                  quantity |-> order.quantity]
  BY <1>2, SellOrderFields
<1>a. start = IF delta > 0 THEN Given(before, t, delta)
              ELSE CloseIfAny(before, t, claim, "ware", back)
  BY Zenon DEF Adjusted
<1> HIDE DEF order, before
<1>5. delta \in Int /\ back \in Int
  BY <1>3, <1>4
<1> HIDE DEF delta, back, start
<1>6. MarketOK(start) /\ start.buys = buyOrders /\ start.sells = sellOrders
  <2>1. CASE delta > 0
    <3>1. before.wares[t] >= delta
      BY <1>1, <1>2, <2>1
    <3> QED BY <1>2, <1>5, <1>a, <2>1, <3>1, GivingKeepsMarket
  <2>2. CASE ~(delta > 0)
    BY <1>2, <1>5, <1>a, <2>2, ClosingIfAnyKeepsMarket DEF Things, SameButListings
  <2> QED BY <2>1, <2>2
<1>7. /\ MarketOK(r.m) /\ r.m.sells = sellOrders
      /\ BuysFilled(buyOrders, r.m.buys) /\ r.left \in Nat
      /\ price < order.price /\ r.left > 0 =>
            \A b \in DOMAIN r.m.buys : r.m.buys[b].claim = claim => r.m.buys[b].price < price
  <2>1. CASE price < order.price
    <3>1. /\ SaleOK(cheaper, start, quantity)
          /\ cheaper.left > 0 => \A b \in DOMAIN cheaper.m.buys :
                cheaper.m.buys[b].claim = claim => cheaper.m.buys[b].price < price
      BY <1>3, <1>6, SaleIsResolved
    <3> HIDE DEF cheaper
    <3>2. r = cheaper
      BY <2>1
    <3> HIDE DEF r
    <3> QED BY <1>6, <3>1, <3>2 DEF SaleOK
  <2>2. CASE ~(price < order.price)
    <3>1. r = unmoved
      BY <2>2
    <3>2. unmoved.m = start /\ unmoved.left = quantity
      OBVIOUS
    <3> HIDE DEF unmoved, r
    <3>3. BuysFilled(buyOrders, buyOrders)
      BY DEF PartlyFilled, BuysFilled
    <3> QED BY <1>3, <1>6, <2>2, <3>1, <3>2, <3>3
  <2> QED BY <2>1, <2>2
<1> HIDE DEF r
<1> DEFINE sells == IF r.left = 0 THEN Without(sellOrders, o)
                    ELSE [sellOrders EXCEPT ![o] = row]
<1>8. row = [owner |-> order.owner, claim |-> order.claim, price |-> price,
             quantity |-> r.left]
  <2> DEFINE first == [order EXCEPT !.price = price]
  <2>1. row = [first EXCEPT !.quantity = r.left]
    OBVIOUS
  <2>2. first = [owner |-> order.owner, claim |-> order.claim, price |-> price,
                 quantity |-> order.quantity]
    BY <1>4
  <2> HIDE DEF first
  <2> QED BY <2>1, <2>2
<1>9. m = [r.m EXCEPT !.sells = sells]
  BY <1>7
<1> HIDE DEF row
<1>10. NothingLeftToMatch => Unmatched(r.m.buys, sellOrders)
  <2>1. PartlyFilled(sellOrders, sellOrders)
    BY DEF PartlyFilled
  <2> QED BY <1>7, <2>1, FewerAreUnmatched, NothingIsMatched
<1>11. /\ SellsOK(sells)
       /\ OneMarket /\ NothingLeftToMatch => Unmatched(r.m.buys, sells)
  <2>1. CASE r.left = 0
    <3>1. BuysFilled(r.m.buys, r.m.buys)
      BY DEF PartlyFilled, BuysFilled
    <3>2. SellsOK(Without(sellOrders, o)) /\ PartlyFilled(sellOrders, Without(sellOrders, o))
      BY <1>2, SellOrderRemoved
    <3> QED BY <1>10, <2>1, <3>1, <3>2, FewerAreUnmatched
  <2>2. CASE r.left # 0
    <3>1. r.left >= 1 /\ r.left > 0
      BY <1>7, <2>2
    <3>2. row.claim = order.claim /\ row.price = price /\ row.quantity = r.left
      BY <1>8
    <3>3. row \in SellOrder /\ row.quantity >= 1
      BY <1>4, <1>7, <1>8, <3>1 DEF SellOrder
    <3>4. /\ SellsOK([sellOrders EXCEPT ![o] = row])
          /\ \A buys : Unmatched(buys, sellOrders) /\ Unmatched(buys, [k \in {o} |-> row])
                          => Unmatched(buys, [sellOrders EXCEPT ![o] = row])
      BY <1>2, <3>3, SellOrderReplaced
    <3>5. ASSUME OneMarket, NothingLeftToMatch PROVE Unmatched(r.m.buys, [k \in {o} |-> row])
      <4>1. ASSUME NEW b \in DOMAIN r.m.buys, r.m.buys[b].claim = order.claim,
                   ~r.m.buys[b].wrapped
            PROVE  r.m.buys[b].price < price
        <5>1. CASE price < order.price
          <6>1. order.claim = claim
            BY <1>4, <3>5 DEF OneMarket
          <6> QED BY <1>7, <3>1, <4>1, <5>1, <6>1
        <5>2. CASE ~(price < order.price)
          <6>1. r.m.buys[b].price < order.price
            BY <1>10, <3>5, <4>1 DEF Unmatched, order
          <6>2. r.m.buys[b].price \in Nat
            <7> DEFINE buys == r.m.buys
            <7>1. BuysOK(buys) /\ b \in DOMAIN buys
              BY <1>7 DEF MarketOK
            <7> HIDE DEF buys
            <7>2. buys[b].price \in Nat \ {0}
              BY <7>1, BuyOrderFields
            <7> QED BY <7>2 DEF buys
          <6> QED BY <1>3, <1>4, <5>2, <6>1, <6>2
        <5> QED BY <5>1, <5>2
      <4> QED BY <3>2, <4>1 DEF Unmatched
    <3> QED BY <1>10, <2>2, <3>4, <3>5
  <2> QED BY <2>1, <2>2
<1> HIDE DEF sells, m
<1>12. MarketOK(m) /\ m.sells = sells /\ m.buys = r.m.buys
  BY <1>7, <1>9, <1>11, OrdersReplaced
<1> QED BY <1>1, <1>2, <1>11, <1>12, MarketIsCommitted

(***************************************************************************)
(* What is taken from a listing fits its owner, and the rest stays listed. *)
(***************************************************************************)
LEMMA TakingKeepsMarket ==
    ASSUME MarketInv, NEW listing \in DOMAIN closed, NEW n \in Nat,
           Commit(Taken(Market, listing, n)), lastOrder' = lastOrder
    PROVE  MarketInv' /\ (NothingLeftToMatch => NothingLeftToMatch')
<1> DEFINE before == Market
           owner_ == listing.owner
           rest == [listing EXCEPT !.quantity = @ - n]
           fewer == closed (-) SetToBag({listing})
           more == fewer (+) SetToBag({rest})
           bag == IF rest.quantity <= 0 THEN fewer ELSE more
           left == [before EXCEPT !.closed = bag]
           taken == IF listing.thing = "coin" THEN [left EXCEPT !.purse[owner_] = @ + n]
                    ELSE [left EXCEPT !.wares[owner_] = @ + n]
<1>1. /\ MarketOK(before) /\ lastOrder \in 0 .. MaxOrders /\ before.closed = closed
      /\ before.buys = buyOrders /\ before.sells = sellOrders /\ ListingsOK(closed)
      /\ before.purse = purse /\ before.wares = wares
      /\ purse \in [Traders -> Nat] /\ wares \in [Traders -> Nat]
  BY MarketIsOK
<1>2. Commit(taken)
  <2>1. [before EXCEPT !.closed = @ (-) SetToBag({listing})] = [before EXCEPT !.closed = fewer]
    BY <1>1
  <2> DEFINE without == [before EXCEPT !.closed = fewer]
  <2>2. [without EXCEPT !.closed = @ (+) SetToBag({rest})] = [before EXCEPT !.closed = more]
    <3> HIDE DEF more, rest, before
    <3>1. without = [purse |-> before.purse, wares |-> before.wares, buys |-> before.buys,
                     sells |-> before.sells, closed |-> fewer]
      BY <1>1, MarketFields
    <3>2. [before EXCEPT !.closed = more]
             = [purse |-> before.purse, wares |-> before.wares, buys |-> before.buys,
                sells |-> before.sells, closed |-> more]
      BY <1>1, MarketFields
    <3> HIDE DEF without, fewer
    <3> QED BY <3>1, <3>2 DEF more
  <2>3. left = IF rest.quantity <= 0 THEN without
               ELSE [without EXCEPT !.closed = @ (+) SetToBag({rest})]
    BY <2>2
  <2>4. Taken(before, listing, n) = taken
    <3> DEFINE first == [before EXCEPT !.closed = @ (-) SetToBag({listing})]
               second == IF rest.quantity <= 0 THEN first
                         ELSE [first EXCEPT !.closed = @ (+) SetToBag({rest})]
    <3>1. Taken(before, listing, n)
             = IF listing.thing = "coin" THEN [second EXCEPT !.purse[owner_] = @ + n]
               ELSE [second EXCEPT !.wares[owner_] = @ + n]
      BY Zenon DEF Taken
    <3>2. second = left
      BY <2>1, <2>3, Zenon
    <3> HIDE DEF second, left
    <3> QED BY <3>1, <3>2, Zenon
  <2> QED BY <2>4
<1>3. /\ listing \in Listing /\ owner_ \in Traders /\ listing.quantity \in Int
      /\ listing = [owner |-> listing.owner, claim |-> listing.claim, thing |-> listing.thing,
                    quantity |-> listing.quantity]
  BY <1>1 DEF ListingsOK, Listing
<1>4. ListingsOK(bag)
  <2>1. rest \in Listing
    <3>1. rest = [owner |-> listing.owner, claim |-> listing.claim, thing |-> listing.thing,
                  quantity |-> listing.quantity - n]
      BY <1>3
    <3>2. listing.quantity - n \in Int
      BY <1>3
    <3> HIDE DEF rest
    <3> QED BY <1>3, <3>1, <3>2 DEF Listing
  <2> DEFINE one == SetToBag({listing})
             other == SetToBag({rest})
  <2>2. IsABag(one) /\ IsABag(other) /\ DOMAIN other = {rest}
    <3> HIDE DEF rest
    <3> QED BY BagOfSet
  <2> HIDE DEF one, other, rest
  <2>3. IsABag(closed (-) one) /\ DOMAIN (closed (-) one) \subseteq Listing
    BY <1>1, <2>2, BagReduced DEF ListingsOK
  <2> DEFINE some == closed (-) one
  <2> HIDE DEF some
  <2>4. IsABag(some (+) other) /\ DOMAIN (some (+) other) = DOMAIN some \cup {rest}
    BY <2>2, <2>3, BagsJoined DEF some
  <2>5. ListingsOK(some) /\ ListingsOK(some (+) other)
    BY <2>1, <2>3, <2>4 DEF ListingsOK, some
  <2>6. fewer = some /\ more = some (+) other
    BY DEF some, one, other
  <2> HIDE DEF fewer, more
  <2> QED BY <2>5, <2>6
<1> HIDE DEF bag, before
<1>5. left = [purse |-> purse, wares |-> wares, buys |-> buyOrders, sells |-> sellOrders,
              closed |-> bag]
  BY <1>1, MarketFields
<1> HIDE DEF left, owner_
<1>6. MarketOK(taken) /\ taken.buys = buyOrders /\ taken.sells = sellOrders
  <2>1. CASE listing.thing = "coin"
    <3> DEFINE rich == [purse EXCEPT ![owner_] = @ + n]
    <3>1. rich \in [Traders -> Nat]
      BY <1>1, <1>3
    <3>2. taken = [purse |-> rich, wares |-> wares, buys |-> buyOrders, sells |-> sellOrders,
                   closed |-> bag]
      BY <1>5, <2>1
    <3> HIDE DEF rich, taken
    <3> QED BY <1>1, <1>4, <3>1, <3>2 DEF MarketOK
  <2>2. CASE listing.thing # "coin"
    <3> DEFINE rich == [wares EXCEPT ![owner_] = @ + n]
    <3>1. rich \in [Traders -> Nat]
      BY <1>1, <1>3
    <3>2. taken = [purse |-> purse, wares |-> rich, buys |-> buyOrders, sells |-> sellOrders,
                   closed |-> bag]
      BY <1>5, <2>2
    <3> HIDE DEF rich, taken
    <3> QED BY <1>1, <1>4, <3>1, <3>2 DEF MarketOK
  <2> QED BY <2>1, <2>2
<1> HIDE DEF taken
<1> QED BY <1>1, <1>2, <1>6, MarketIsCommitted, NothingIsMatched

LEMMA CollectingKeepsMarket ==
    ASSUME MarketInv, NEW t \in Traders, NEW l \in BagToSet(closed),
           ClosedListingCollect(t, l) \/ OrderCollect(t, l)
    PROVE  MarketInv' /\ (NothingLeftToMatch => NothingLeftToMatch')
<1>1. /\ l \in DOMAIN closed /\ l \in Listing /\ l.quantity \in Int /\ l.owner \in Traders
      /\ wares \in [Traders -> Nat]
  BY MarketIsOK DEF BagToSet, ListingsOK, Listing
<1> DEFINE fits == FitsTrader(l)
           room == Room - wares[l.owner]
           free == Max({0, room})
<1>2. fits \in Nat
  <2>1. room \in Int
    BY <1>1, MarketAssumption
  <2> HIDE DEF room
  <2>2. free = IF 0 >= room THEN 0 ELSE room
    BY <2>1, MaxOfTwo
  <2>3. free \in Nat
    BY <2>1, <2>2
  <2> HIDE DEF free
  <2> DEFINE count == Max({0, l.quantity})
             least == Min({count, free})
  <2>4. count \in Nat
    <3> DEFINE listed == l.quantity
    <3>1. listed \in Int
      BY <1>1
    <3> HIDE DEF listed
    <3>2. Max({0, listed}) = IF 0 >= listed THEN 0 ELSE listed
      BY <3>1, MaxOfTwo
    <3>3. Max({0, listed}) \in Nat
      BY <3>1, <3>2
    <3> QED BY <3>3 DEF listed
  <2>5. fits = IF l.thing = "coin" THEN count ELSE least
    BY DEF FitsTrader, free, room
  <2> HIDE DEF count, fits
  <2>6. least = IF count <= free THEN count ELSE free
    BY <2>3, <2>4, MinOfTwo
  <2> HIDE DEF least
  <2> QED BY <2>3, <2>4, <2>5, <2>6
<1>3. \E n \in Nat : Commit(Taken(Market, l, n)) /\ lastOrder' = lastOrder
  <2>1. CASE ClosedListingCollect(t, l)
    <3>1. l.quantity \in Nat /\ Commit(Taken(Market, l, l.quantity)) /\ lastOrder' = lastOrder
      BY <1>1, <2>1 DEF ClosedListingCollect
    <3> QED BY <3>1
  <2>2. CASE OrderCollect(t, l)
    BY <1>2, <2>2 DEF OrderCollect
  <2> QED BY <2>1, <2>2
<1> QED BY <1>1, <1>3, TakingKeepsMarket

LEMMA TradingKeepsMarket ==
    ASSUME MarketInv, NEW t \in Traders, TradeAtMarket(t)
    PROVE  MarketInv' /\ (OneMarket /\ NothingLeftToMatch => NothingLeftToMatch')
<1>1. ASSUME NEW c \in Markets, NEW n \in Quantities, NEW p \in Prices, NEW persist \in BOOLEAN,
             PostBuyOrder(t, c, n, p, persist) \/ PostSellOrder(t, c, n, p, persist)
      PROVE  MarketInv' /\ (NothingLeftToMatch => NothingLeftToMatch')
  BY <1>1, PostBuyOrderKeepsMarket, PostSellOrderKeepsMarket
<1>2. ASSUME NEW c \in Markets, NEW n \in Quantities, NEW p \in Prices,
             \/ \E o \in DOMAIN buyOrders : EditBuyOrder(t, c, o, n, p)
             \/ \E o \in DOMAIN sellOrders : EditSellOrder(t, c, o, n, p)
      PROVE  MarketInv' /\ (OneMarket /\ NothingLeftToMatch => NothingLeftToMatch')
  BY <1>2, EditBuyOrderKeepsMarket, EditSellOrderKeepsMarket
<1>3. ASSUME \/ \E o \in DOMAIN buyOrders : CancelBuyOrder(t, o)
             \/ \E o \in DOMAIN sellOrders : CancelSellOrder(t, o)
      PROVE  MarketInv' /\ (NothingLeftToMatch => NothingLeftToMatch')
  BY <1>3, CancellingKeepsMarket
<1>4. ASSUME NEW l \in BagToSet(closed), ClosedListingCollect(t, l) \/ OrderCollect(t, l)
      PROVE  MarketInv' /\ (NothingLeftToMatch => NothingLeftToMatch')
  BY <1>4, CollectingKeepsMarket
<1> QED BY <1>1, <1>2, <1>3, <1>4, Zenon DEF TradeAtMarket

LEMMA MarketStays ==
    ASSUME MarketInv, UNCHANGED marketVars
    PROVE  MarketInv' /\ (NothingLeftToMatch => NothingLeftToMatch')
<1> DEFINE m == Market
<1>1. Commit(m) /\ lastOrder' = lastOrder
  BY DEF marketVars, Commit, Market
<1>2. MarketOK(m) /\ lastOrder \in 0 .. MaxOrders /\ m.buys = buyOrders /\ m.sells = sellOrders
  BY MarketIsOK
<1> HIDE DEF m
<1> QED BY <1>1, <1>2, MarketIsCommitted, NothingIsMatched

LEMMA NextKeepsMarket ==
    ASSUME MarketInv, [Next]_settlementVars
    PROVE  MarketInv' /\ (OneMarket /\ NothingLeftToMatch => NothingLeftToMatch')
<1>1. CASE MarketScene
  BY <1>1, TradingKeepsMarket DEF MarketScene
<1>2. ASSUME ~MarketScene PROVE UNCHANGED marketVars
  BY <1>2, Zenon DEF Next, MembershipScene, ResearchScene, RentalScene, BarterScene,
     TravelerScene, settlementVars
<1> QED BY <1>1, <1>2, MarketStays

LEMMA MarketOpens ==
    Init => MarketInv /\ NothingLeftToMatch
<1> SUFFICES ASSUME Init PROVE MarketInv /\ NothingLeftToMatch
  OBVIOUS
<1>1. /\ purse \in [Traders -> Nat] /\ wares \in [Traders -> Nat]
      /\ buyOrders = << >> /\ sellOrders = << >> /\ closed = << >> /\ lastOrder = 0
  BY DEF Init, MarketInit
<1>2. DOMAIN buyOrders = {} /\ DOMAIN sellOrders = {} /\ DOMAIN closed = {}
  BY <1>1
<1>3. BuysOK(buyOrders) /\ SellsOK(sellOrders) /\ ListingsOK(closed)
  BY <1>1, <1>2 DEF BuysOK, SellsOK, ListingsOK, IsABag
<1>4. MarketOK(Market)
  BY <1>1, <1>3 DEF MarketOK, Market
<1>5. lastOrder \in 0 .. MaxOrders
  BY <1>1, MarketAssumption
<1> QED BY <1>2, <1>4, <1>5 DEF MarketInv, NothingLeftToMatch

(***************************************************************************)
(* Whoever sells to a standing buy order is paid out of it: after any      *)
(* series of partial fills, edits and cancellations it holds the coins for *)
(* all that it still wants (resolve_sell_order, order_edit_buy_order.rs),  *)
(* unless the price of the whole was no i32 when it was posted             *)
(* (order_post_buy_order.rs:33): such an order may hold fewer coins than   *)
(* it promises, and fewer than none, but never a number that is no i32.    *)
(***************************************************************************)
THEOREM OrdersAreCovered == Spec => [](MarketTypeOK /\ BuyOrdersAreCovered)
<1>1. Init => MarketInv
  BY MarketOpens
<1>2. MarketInv /\ [Next]_settlementVars => MarketInv'
  BY NextKeepsMarket
<1>3. MarketInv => MarketTypeOK /\ BuyOrdersAreCovered
  BY MarketIsTyped
<1> QED BY <1>1, <1>2, <1>3, PTL DEF Spec

(***************************************************************************)
(* What is offered is there, and within a market no two orders are left    *)
(* that would be matched.  With several markets this fails: an order that  *)
(* is edited at a building of another claim is matched against the orders  *)
(* of that claim and remains among those of its own                        *)
(* (order_edit_buy_order.rs, order_edit_sell_order.rs).  Orders whose      *)
(* price was wrapped when they were posted are neither covered nor matched *)
(* to the end.                                                             *)
(***************************************************************************)
THEOREM OffersStayBacked ==
    ASSUME OneMarket
    PROVE  Spec => []OffersAreBacked
<1> DEFINE Inv == SettlementInv /\ MarketInv /\ NothingLeftToMatch
<1>1. Init => Inv
  BY InitIsInOrder, MarketOpens
<1>2. Inv /\ [Next]_settlementVars => Inv'
  BY OneMarket, NextKeepsInv, NextKeepsMarket
<1>3. Inv => OffersAreBacked
  BY ShopsAreInOrder, MarketIsTyped DEF SettlementInv, OffersAreBacked
<1> QED BY <1>1, <1>2, <1>3, PTL DEF Spec

=============================================================================
