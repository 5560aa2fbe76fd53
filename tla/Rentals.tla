------------------------------ MODULE Rentals ------------------------------
(***************************************************************************)
(* Interiors of a claim are rented to its members.  A renter pays in       *)
(* advance; an agent passes each day's rent on to the treasury, and a      *)
(* rental whose advance is too small defaults.  The owner of the claim     *)
(* evicts a renter: at once if he has defaulted, otherwise against a       *)
(* compensation and with a day's notice, which a timer ends.  A renter may *)
(* take back what he paid and go, before he is evicted or while he is.     *)
(***************************************************************************)
EXTENDS Claims

CONSTANTS
    RentIds,           \* interiors with a rent terminal
    DepositDays,       \* rent_deposit_days, paid when a rental is taken
    MaxDepositDays,    \* max_rental_deposit_days
    EvictionFee,       \* EvictionFee[rate]: the compensation at that daily rent
    MaxRate,           \* bound: daily rents that are asked for
    MaxTenants,        \* tenants beyond the renter: 10
    MaxNotices         \* bound: notices of a rental that run

ASSUME RentalsAssumption ==
    /\ IsFiniteSet(RentIds)
    /\ DepositDays \in Nat /\ MaxDepositDays \in Nat /\ MaxRate \in Nat
    /\ MaxTenants \in Nat /\ MaxNotices \in Nat
    /\ EvictionFee \in [0 .. MaxRate -> Nat]

VARIABLES
    evictTimers        \* rent_evict_timer: a bag of rentals, as counts

rentalVars == <<claimVars, evictTimers>>

Rent == [whiteList : Seq(Players), dailyRent : Nat, paidRent : Nat,
         active : BOOLEAN, defaulted : BOOLEAN, evicting : BOOLEAN]

NewRent == [whiteList |-> <<>>, dailyRent |-> 0, paidRent |-> 0,
            active |-> FALSE, defaulted |-> FALSE, evicting |-> FALSE]

RentTypeOK ==
    /\ rents \in [RentIds -> Rent]
    /\ evictTimers \in [RentIds -> Nat]

-----------------------------------------------------------------------------

IsTenant(r, p) == p \in ToSet(rents[r].whiteList)
IsRenter(r, p) == rents[r].whiteList # <<>> /\ rents[r].whiteList[1] = p

Rented(r, rent) == rents' = [rents EXCEPT ![r] = rent]

(***************************************************************************)
(* clear: the daily rent stays                                             *)
(***************************************************************************)
ClearedTenants(rent) == [rent EXCEPT !.whiteList = <<>>, !.paidRent = 0] \* mutant of Cleared
Cleared(rent) == [NewRent EXCEPT !.dailyRent = rent.dailyRent]

OtherTown == <<memberVars, supplies, researchVars>>

(***************************************************************************)
(* pay_rent: never more than for MaxDepositDays                            *)
(***************************************************************************)
Payment(r, n) == Min({n, rents[r].dailyRent * MaxDepositDays - rents[r].paidRent})

MayPay(r, p, n) ==
    /\ rents[r].paidRent < rents[r].dailyRent * MaxDepositDays
    /\ coins[p] >= Payment(r, n)

Pay(r, p, n) == coins' = [coins EXCEPT ![p] = @ - Payment(r, n)]

-----------------------------------------------------------------------------

(***************************************************************************)
(* rent_add_listing, rent_unlist, rent_set_daily_rate                      *)
(***************************************************************************)
SetListed(p, r, active) ==
    /\ HasRank(p, CoOwner)
    /\ Rented(r, [rents[r] EXCEPT !.active = active])
    /\ UNCHANGED <<OtherTown, treasury, coins, evictTimers>>

SetDailyRate(p, r, rate) ==
    /\ HasRank(p, CoOwner)
    /\ Rented(r, [rents[r] EXCEPT !.dailyRent = rate])
    /\ UNCHANGED <<OtherTown, treasury, coins, evictTimers>>

(***************************************************************************)
(* rent_purchase: a co-owner rents what is not listed, too.  Whether the   *)
(* rental had defaulted while it was empty is not looked at.               *)
(***************************************************************************)
RentPurchase(p, r) ==
    LET deposit == DepositDays * rents[r].dailyRent
    IN  /\ rents[r].whiteList = <<>>
        /\ IsMember(p)
        /\ rents[r].active \/ HasRank(p, CoOwner)
        /\ MayPay(r, p, deposit)
        /\ Pay(r, p, deposit)
        /\ Rented(r, [rents[r] EXCEPT !.whiteList = <<p>>, !.active = TRUE,
                                      !.paidRent = @ + Payment(r, deposit)])
        /\ UNCHANGED <<OtherTown, treasury, evictTimers>>

DepositRent(p, r, n) ==
    /\ rents[r].active /\ ~rents[r].evicting
    /\ IsTenant(r, p)
    /\ MayPay(r, p, n)
    /\ Pay(r, p, n)
    /\ Rented(r, [rents[r] EXCEPT !.paidRent = @ + Payment(r, n)])
    /\ UNCHANGED <<OtherTown, treasury, evictTimers>>

AddTenant(p, r, q) ==
    /\ rents[r].active /\ ~rents[r].evicting
    /\ IsTenant(r, p) /\ ~IsTenant(r, q)
    /\ Len(rents[r].whiteList) <= MaxTenants
    /\ Rented(r, [rents[r] EXCEPT !.whiteList = Append(@, q)])
    /\ UNCHANGED <<OtherTown, treasury, coins, evictTimers>>

AnyTenant(r) == 1 .. Len(rents[r].whiteList) \* mutant of Removable
Removable(r) == 2 .. Len(rents[r].whiteList)

RemoveTenant(p, r, q) ==
    /\ rents[r].active
    /\ IsTenant(r, p)
    /\ \E i \in Removable(r) :
          /\ rents[r].whiteList[i] = q
          /\ Rented(r, [rents[r] EXCEPT !.whiteList = RemoveAt(@, i)])
    /\ UNCHANGED <<OtherTown, treasury, coins, evictTimers>>

-----------------------------------------------------------------------------

(***************************************************************************)
(* rent_evict: at once from a rental that has defaulted; otherwise the     *)
(* compensation is taken from the treasury, what it lacks from the owner,  *)
(* and a timer is started.  Nobody receives the compensation.              *)
(***************************************************************************)
EvictAtOnce(p, r) ==
    /\ rents[r].active /\ ~rents[r].evicting /\ p = owner
    /\ rents[r].whiteList # <<>>
    /\ rents[r].defaulted
    /\ Rented(r, Cleared(rents[r]))
    /\ UNCHANGED <<OtherTown, treasury, coins, evictTimers>>

GiveNotice(p, r) ==
    LET fee == EvictionFee[rents[r].dailyRent]
        paid == Min({fee, treasury})
    IN  /\ rents[r].active /\ ~rents[r].evicting /\ p = owner
        /\ rents[r].whiteList # <<>>
        /\ ~rents[r].defaulted
        /\ evictTimers[r] < MaxNotices
        /\ coins[p] >= fee - paid
        /\ treasury' = treasury - paid
        /\ coins' = [coins EXCEPT ![p] = @ - (fee - paid)]
        /\ Rented(r, [rents[r] EXCEPT !.evicting = TRUE])
        /\ evictTimers' = [evictTimers EXCEPT ![r] = @ + 1]
        /\ UNCHANGED OtherTown

(***************************************************************************)
(* rent_evict_term: the rental is cleared whoever rents it now, and with   *)
(* it what was paid.  If nobody does, the call fails.                      *)
(***************************************************************************)
EvictTerm(r) ==
    /\ evictTimers[r] > 0
    /\ evictTimers' = [evictTimers EXCEPT ![r] = @ - 1]
    /\ Rented(r, IF rents[r].whiteList = <<>> THEN rents[r] ELSE Cleared(rents[r]))
    /\ UNCHANGED <<OtherTown, treasury, coins>>

(***************************************************************************)
(* rent_terminate, by the renter, or by anybody if there is none, and      *)
(* rent_collect_eviction_fee, by a renter who is being evicted: what was   *)
(* paid in advance is given back.  The timer keeps running.                *)
(***************************************************************************)
TakeBack(p, r) ==
    /\ coins' = [coins EXCEPT ![p] = @ + rents[r].paidRent]
    /\ Rented(r, Cleared(rents[r]))
    /\ UNCHANGED <<OtherTown, treasury, evictTimers>>

MayTerminateTenant(p, r) == rents[r].whiteList = <<>> \/ IsTenant(r, p) \* mutant of MayTerminate
MayTerminate(p, r) == rents[r].whiteList = <<>> \/ IsRenter(r, p)

Terminate(p, r) ==
    /\ rents[r].active /\ ~rents[r].evicting
    /\ MayTerminate(p, r)
    /\ TakeBack(p, r)

CollectEvictionFee(p, r) ==
    /\ rents[r].active /\ rents[r].evicting
    /\ IsRenter(r, p)
    /\ TakeBack(p, r)

-----------------------------------------------------------------------------

(***************************************************************************)
(* rent_collector_agent_loop: every rental with a rent, rented or not      *)
(***************************************************************************)
HasPaidSome(rent) == rent.paidRent > 0 \* mutant of HasPaid
HasPaid(rent) == rent.paidRent >= rent.dailyRent

Due(rent) ==
    /\ rent.dailyRent > 0 /\ ~rent.evicting
    /\ HasPaid(rent) \/ ~rent.defaulted

KeepsAdvance(rent) == [rent EXCEPT !.defaulted = FALSE] \* mutant of Charged
Charged(rent) == [rent EXCEPT !.defaulted = FALSE, !.paidRent = @ - rent.dailyRent]

Collected(rent) ==
    IF ~Due(rent) THEN rent
    ELSE IF HasPaid(rent) THEN Charged(rent)
    ELSE [rent EXCEPT !.defaulted = TRUE]

Pays(rent) == Due(rent) /\ HasPaid(rent)

CollectRents ==
    /\ \E r \in RentIds : Due(rents[r])
    /\ rents' = [r \in RentIds |-> Collected(rents[r])]
    /\ treasury' = treasury + SumFunctionOnSet([r \in RentIds |-> rents[r].dailyRent],
                                               {r \in RentIds : Pays(rents[r])})
    /\ UNCHANGED <<OtherTown, coins, evictTimers>>

-----------------------------------------------------------------------------

Renting(p) ==
    \E r \in RentIds :
        \/ RentPurchase(p, r) \/ Terminate(p, r) \/ CollectEvictionFee(p, r)
        \/ EvictAtOnce(p, r) \/ GiveNotice(p, r)
        \/ \E active \in BOOLEAN : SetListed(p, r, active)
        \/ \E rate \in 0 .. MaxRate : SetDailyRate(p, r, rate)
        \/ \E n \in 1 .. MaxAmount : DepositRent(p, r, n)
        \/ \E q \in Players : AddTenant(p, r, q) \/ RemoveTenant(p, r, q)

RentTimers == CollectRents \/ \E r \in RentIds : EvictTerm(r)

-----------------------------------------------------------------------------

(***************************************************************************)
(* Who rents is a member of the claim, as long as he rents: claim_leave    *)
(* and claim_remove_member look for his rentals, and nothing makes another *)
(* tenant the renter.                                                      *)
(***************************************************************************)
RenterIsMember ==
    \A r \in RentIds : rents[r].whiteList # <<>> => IsMember(rents[r].whiteList[1])

(***************************************************************************)
(* A rental is taken from its renter only if he gives it up, and then what *)
(* he had paid is his again, or if it had defaulted, or by an eviction     *)
(* timer (which may be that of a renter before him).                       *)
(***************************************************************************)
RenterOf(rent) == IF rent.whiteList = <<>> THEN Nobody ELSE rent.whiteList[1]

NotDispossessed ==
    [][\A r \in RentIds :
          LET renter == RenterOf(rents[r])
          IN  (renter # Nobody /\ RenterOf(rents'[r]) # renter) =>
                  \/ coins'[renter] = coins[renter] + rents[r].paidRent
                  \/ rents[r].defaulted
                  \/ evictTimers'[r] < evictTimers[r]]_rentalVars

(***************************************************************************)
(* A renter who is given notice does not stay for ever: there is a timer   *)
(* for him, or that of one before him, and it or he ends the rental.       *)
(***************************************************************************)
EvictionsEnd == \A r \in RentIds : rents[r].evicting ~> ~rents[r].evicting

EvictFairness == \A r \in RentIds : WF_rentalVars(EvictTerm(r))

(***************************************************************************)
(* Only who owes the rent is evicted at once ("A tenant defaulting on his  *)
(* rent has no right at all - instant eviction").                          *)
(***************************************************************************)
OnlyDebtorsAreEvictedAtOnce ==
    [][\A r \in RentIds :
          (/\ RenterOf(rents[r]) # Nobody /\ RenterOf(rents'[r]) = Nobody
           /\ coins' = coins /\ evictTimers' = evictTimers /\ rents[r].paidRent > 0)
              => rents[r].paidRent < rents[r].dailyRent]_rentalVars

(***************************************************************************)
(* No step of a rental makes coins of the players, the treasury and the    *)
(* advances from nothing, and they are lost only by an eviction: the       *)
(* compensation when it is announced, the advance when it is carried out.  *)
(***************************************************************************)
CoinsInTown ==
    SumFunction(coins) + treasury + SumFunction([r \in DOMAIN rents |-> rents[r].paidRent])

Evicted(r) ==
    \/ evictTimers'[r] > evictTimers[r]
    \/ evictTimers'[r] < evictTimers[r] /\ rents[r].whiteList # <<>>
    \/ rents[r].defaulted /\ rents'[r] = Cleared(rents[r])

CoinsInTownAreKept ==
    [][(rents' # rents \/ coins' = coins) =>
          \/ CoinsInTown' = CoinsInTown
          \/ CoinsInTown' < CoinsInTown /\ \E r \in RentIds : Evicted(r)]_rentalVars

=============================================================================
