---------------------------- MODULE TradeSession ----------------------------
(***************************************************************************)
(* Two players trade: one proposes a session, the other accepts it, both   *)
(* put pockets of their inventories into their offers, and when both have  *)
(* accepted, what is then in those pockets changes hands.  Changing an     *)
(* offer takes back any acceptance.  Sessions are cancelled by a player,   *)
(* when the players are too far apart, when one signs out, and by an agent *)
(* when nothing has happened for a while; the agent deletes what is        *)
(* resolved.  Offered pockets are locked, but the inventories can still be *)
(* changed meanwhile.                                                      *)
(***************************************************************************)
EXTENDS Inventories

CONSTANTS
    MaxSessions,    \* bound: sessions that are ever initiated
    OfferSlots      \* max_traded_items

ASSUME TradeAssumption == OfferSlots \in Nat /\ MaxSessions \in Nat

VARIABLES
    sessions,       \* trade_session_state
    signedIn,       \* signed_in_player_state
    lastSession,    \* number of the last session; numbers are not used again
    farCancels,     \* scheduled calls of trade_cancel_server
    acceptedOffers  \* ghost: the offers that one party has accepted

tradeVars == <<sessions, signedIn, lastSession, farCancels, acceptedOffers>>
tsVars == <<pileVars, tradeVars>>

SessionIds == 1 .. MaxSessions
CargoSlot == OfferSlots + 1
TradeSlots == 1 .. CargoSlot
Status == {"SessionOffered", "SessionAccepted", "InitiatorAccepted",
           "AcceptorAccepted", "SessionResolved"}

TradePocket == [index : {0, 1, 2}, pocket : Nat, contents : ItemStack]
NoPocket == [index |-> -1, pocket |-> 0, contents |-> Empty]
Offer == [TradeSlots -> TradePocket \cup {NoPocket}]

Session == [status : Status, initiator : Players, acceptor : Players,
            offers : [{"initiator", "acceptor"} -> Offer]]

NoOffers == [r \in {"initiator", "acceptor"} |-> [k \in TradeSlots |-> NoPocket]]

TSTypeOK ==
    /\ DOMAIN sessions \subseteq SessionIds
    /\ sessions \in [DOMAIN sessions -> Session]
    /\ signedIn \subseteq Players
    /\ lastSession \in 0 .. MaxSessions
    /\ farCancels \subseteq SessionIds
    /\ DOMAIN acceptedOffers \subseteq SessionIds

TradeInit ==
    /\ sessions = <<>>
    /\ signedIn = Players
    /\ lastSession = 0
    /\ farCancels = {}
    /\ acceptedOffers = <<>>

-----------------------------------------------------------------------------

Open(s) == s \in DOMAIN sessions /\ sessions[s].status # "SessionResolved"
Party(s, p) == p \in {sessions[s].initiator, sessions[s].acceptor}
RoleOf(s, p) == IF p = sessions[s].initiator THEN "initiator" ELSE "acceptor"
PlayerIn(s, role) == IF role = "initiator" THEN sessions[s].initiator ELSE sessions[s].acceptor
Negotiable(s) == Open(s) /\ sessions[s].status # "SessionOffered"
Used(offer) == {k \in TradeSlots : offer[k].index >= 0}

UnlockIds(invs, ids) ==
    [id \in DOMAIN invs |-> IF id \in ids THEN UnlockAll(invs[id]) ELSE invs[id]]

OfferedInventories(s) ==
    UNION {{<<PlayerIn(s, r), sessions[s].offers[r][k].index>> :
               k \in Used(sessions[s].offers[r])} : r \in {"initiator", "acceptor"}}

(***************************************************************************)
(* Writing a session; the ghost keeps the offers that one party accepted,  *)
(* as they were at that moment, until the acceptance is taken back.        *)
(***************************************************************************)
OneAccepted == {"InitiatorAccepted", "AcceptorAccepted"}

WriteSession(s, session) ==
    /\ sessions' = [sessions EXCEPT ![s] = session]
    /\ acceptedOffers' =
          IF session.status \notin OneAccepted THEN Without(acceptedOffers, s)
          ELSE IF sessions[s].status \in OneAccepted THEN acceptedOffers
          ELSE (s :> session.offers) @@ acceptedOffers

(***************************************************************************)
(* A change of an offer: nobody has accepted it any more.                  *)
(***************************************************************************)
KeepAcceptance(session) == session \* mutant of TakeBackAcceptance
TakeBackAcceptance(session) == [session EXCEPT !.status = "SessionAccepted"]

SetStatus(s, status) == WriteSession(s, [sessions[s] EXCEPT !.status = status])

-----------------------------------------------------------------------------

FreeInitiator(p, q) == \A t \in DOMAIN sessions : Open(t) => ~Party(t, p) \* mutant of Free
Free(p, q) == \A t \in DOMAIN sessions : Open(t) => ~Party(t, p) /\ ~Party(t, q)

(***************************************************************************)
(* trade_initiate_session; combat is left out.                             *)
(***************************************************************************)
InitiateSession(p, q) ==
    /\ q \in signedIn
    /\ lastSession < MaxSessions
    /\ Free(p, q)
    /\ lastSession' = lastSession + 1
    /\ sessions' = (lastSession' :> [status |-> "SessionOffered", initiator |-> p,
                                     acceptor |-> q, offers |-> NoOffers]) @@ sessions
    /\ UNCHANGED <<pileVars, signedIn, farCancels, acceptedOffers>>

AcceptSession(p, s) ==
    /\ Open(s) /\ sessions[s].status = "SessionOffered" /\ sessions[s].acceptor = p
    /\ SetStatus(s, "SessionAccepted")
    /\ UNCHANGED <<pileVars, signedIn, lastSession, farCancels>>

DeclineSession(p, s) ==
    /\ Open(s) /\ sessions[s].status = "SessionOffered" /\ sessions[s].acceptor = p
    /\ SetStatus(s, "SessionResolved")
    /\ UNCHANGED <<pileVars, signedIn, lastSession, farCancels>>

(***************************************************************************)
(* trade_add_item: k = 0 lets the code choose the slot.  A slot in use is  *)
(* overwritten; it is the new pocket that is unlocked then, and locked.    *)
(***************************************************************************)
SlotFor(offer, stack, k) ==
    IF k > 0 THEN {k}
    ELSE IF stack.item \in Cargoes THEN {CargoSlot}
    ELSE LET free == TradeSlots \ Used(offer) IN IF free = {} THEN {} ELSE {Min(free)}

AddItem(p, s, k, index, i) ==
    /\ Negotiable(s) /\ Party(s, p)
    /\ LET id == <<p, index>>
           role == RoleOf(s, p)
       IN  /\ id \in DOMAIN inventories /\ HasStack(id, i)
           /\ \E slot \in SlotFor(sessions[s].offers[role], StackAt(id, i), k) :
                 /\ StackAt(id, i).item \in Cargoes <=> slot = CargoSlot
                 /\ WriteSession(s, TakeBackAcceptance([sessions[s] EXCEPT
                        !.offers[role][slot] =
                            [index |-> index, pocket |-> i, contents |-> StackAt(id, i)]]))
                 /\ inventories' = [inventories EXCEPT ![id] = SetLocked(@, i, TRUE)]
    /\ UNCHANGED <<piles, timers, signedIn, lastSession, farCancels>>

(***************************************************************************)
(* trade_remove_item: unlocks that pocket of the main inventory, whichever *)
(* inventory the offered pocket is in; panics if there is no such pocket.  *)
(***************************************************************************)
RemoveItem(p, s, k) ==
    /\ Negotiable(s) /\ Party(s, p)
    /\ LET role == RoleOf(s, p)
           offered == sessions[s].offers[role][k]
       IN  /\ offered.index >= 0
           /\ HasPocket(MainInventory(p), offered.pocket)
           /\ inventories' = [inventories EXCEPT
                  ![MainInventory(p)] = SetLocked(@, offered.pocket, FALSE)]
           /\ WriteSession(s, TakeBackAcceptance(
                  [sessions[s] EXCEPT !.offers[role][k] = NoPocket]))
    /\ UNCHANGED <<piles, timers, signedIn, lastSession, farCancels>>

(***************************************************************************)
(* trade_swap_pockets                                                      *)
(***************************************************************************)
SwapSlots(p, s, k, l) ==
    /\ Negotiable(s) /\ Party(s, p)
    /\ CargoSlot \notin {k, l}
    /\ LET role == RoleOf(s, p)
           offer == sessions[s].offers[role]
       IN  WriteSession(s, TakeBackAcceptance([sessions[s] EXCEPT
               !.offers[role] = [offer EXCEPT ![k] = offer[l], ![l] = offer[k]]]))
    /\ UNCHANGED <<pileVars, signedIn, lastSession, farCancels>>

-----------------------------------------------------------------------------

(***************************************************************************)
(* trade_accept: the first to accept waits for the other, who finalizes;   *)
(* accepting again takes the acceptance back.                              *)
(***************************************************************************)
AcceptedBy(role) == IF role = "initiator" THEN "InitiatorAccepted" ELSE "AcceptorAccepted"
OtherRole(role) == IF role = "initiator" THEN "acceptor" ELSE "initiator"

Toggle(p, s) ==
    /\ Negotiable(s) /\ Party(s, p)
    /\ LET role == RoleOf(s, p)
       IN  /\ sessions[s].status # AcceptedBy(OtherRole(role))
           /\ SetStatus(s, IF sessions[s].status = "SessionAccepted" THEN AcceptedBy(role)
                           ELSE "SessionAccepted")
    /\ UNCHANGED <<pileVars, signedIn, lastSession, farCancels>>

(***************************************************************************)
(* finalize: take the stacks out of the offered pockets of both, unlock    *)
(* those inventories, add the stacks to the other's inventory, coins to    *)
(* his wallet.  If a pocket is empty or a stack does not fit, nothing.     *)
(***************************************************************************)
OfferedPockets(s, role) ==
    LET offer == sessions[s].offers[role]
    IN  [k \in 1 .. Cardinality(Used(offer)) |->
            LET slot == CHOOSE m \in Used(offer) : Cardinality({l \in Used(offer) : l <= m}) = k
            IN  [id |-> <<PlayerIn(s, role), offer[slot].index>>, pocket |-> offer[slot].pocket]]

RemoveAt1(acc, at) ==
    LET stack == acc.invs[at.id].pockets[at.pocket].stack
    IN  [invs |-> [acc.invs EXCEPT ![at.id] = SetAt(@, at.pocket, Empty)],
         taken |-> Append(acc.taken, stack),
         ok |-> acc.ok /\ stack # Empty]

TakeOffer(invs, s, role) ==
    FoldLeft(RemoveAt1, [invs |-> invs, taken |-> <<>>, ok |-> TRUE],
             OfferedPockets(s, role))

AddAndDiscover(acc, player, stack) ==
    LET id == IF stack.item = Coin THEN Wallet(player) ELSE MainInventory(player)
    IN  [invs |-> [acc.invs EXCEPT ![id] = Add(@, stack)],
         ok |-> acc.ok /\ stack.quantity > 0 /\ Fits(acc.invs[id], stack)]

Deliver(acc, player, stacks) ==
    FoldLeft(LAMBDA a, stack : AddAndDiscover(a, player, stack), acc, stacks)

AcceptorGivesStored(s, given) == TakeOffer(inventories, s, "acceptor") \* mutant of AcceptorGives
AcceptorGives(s, given) == TakeOffer(given.invs, s, "acceptor")

Exchange(s) ==
    LET given == TakeOffer(inventories, s, "initiator")
        both == AcceptorGives(s, given)
        unlocked == [invs |-> UnlockIds(both.invs, OfferedInventories(s)),
                     ok |-> given.ok /\ both.ok]
    IN  Deliver(Deliver(unlocked, sessions[s].acceptor, given.taken),
                sessions[s].initiator, both.taken)

Finalize(p, s) ==
    /\ Negotiable(s) /\ Party(s, p)
    /\ sessions[s].status = AcceptedBy(OtherRole(RoleOf(s, p)))
    /\ Exchange(s).ok
    /\ inventories' = Exchange(s).invs
    /\ SetStatus(s, "SessionResolved")
    /\ UNCHANGED <<piles, timers, signedIn, lastSession, farCancels>>

-----------------------------------------------------------------------------

(***************************************************************************)
(* cancel_session_and_update                                               *)
(***************************************************************************)
CancelSession(s) ==
    /\ inventories' = UnlockIds(inventories, OfferedInventories(s))
    /\ SetStatus(s, "SessionResolved")

Decline(p, s) ==
    /\ Negotiable(s) /\ Party(s, p)
    /\ CancelSession(s)
    /\ UNCHANGED <<piles, timers, signedIn, lastSession, farCancels>>

(***************************************************************************)
(* validate_distance: whatever a party asks for fails when they are too    *)
(* far apart, but the session will be cancelled, in any state it is in.    *)
(***************************************************************************)
TooFar(s) ==
    /\ Open(s)
    /\ farCancels' = farCancels \cup {s}
    /\ UNCHANGED <<pileVars, sessions, signedIn, lastSession, acceptedOffers>>

CancelServer(s) ==
    /\ s \in farCancels
    /\ farCancels' = farCancels \ {s}
    /\ IF s \in DOMAIN sessions
       THEN CancelSession(s)
       ELSE UNCHANGED <<inventories, sessions, acceptedOffers>>
    /\ UNCHANGED <<piles, timers, signedIn, lastSession>>

(***************************************************************************)
(* trade_sessions_agent: a session that expired, or one of whose parties   *)
(* is not signed in, is cancelled; what was resolved before is deleted.    *)
(***************************************************************************)
AgentCancels(s) ==
    /\ Open(s)
    /\ CancelSession(s)
    /\ UNCHANGED <<piles, timers, signedIn, lastSession, farCancels>>

AgentDeletes(s) ==
    /\ s \in DOMAIN sessions /\ ~Open(s)
    /\ sessions' = Without(sessions, s)
    /\ UNCHANGED <<pileVars, signedIn, lastSession, farCancels, acceptedOffers>>

(***************************************************************************)
(* Signing out cancels the player's sessions, of which one can be open;    *)
(* signing in unlocks his main inventory.                                  *)
(***************************************************************************)
SignOut(p) ==
    /\ p \in signedIn
    /\ signedIn' = signedIn \ {p}
    /\ LET mine == {s \in DOMAIN sessions : Open(s) /\ Party(s, p)}
       IN  /\ inventories' = UnlockIds(inventories, UNION {OfferedInventories(s) : s \in mine})
           /\ sessions' = [s \in DOMAIN sessions |->
                              IF s \in mine
                              THEN [sessions[s] EXCEPT !.status = "SessionResolved"]
                              ELSE sessions[s]]
           /\ acceptedOffers' = [s \in DOMAIN acceptedOffers \ mine |-> acceptedOffers[s]]
    /\ UNCHANGED <<piles, timers, lastSession, farCancels>>

SignIn(p) ==
    /\ p \notin signedIn
    /\ signedIn' = signedIn \cup {p}
    /\ inventories' = [inventories EXCEPT ![MainInventory(p)] = UnlockAll(@)]
    /\ UNCHANGED <<piles, timers, sessions, lastSession, farCancels, acceptedOffers>>

-----------------------------------------------------------------------------

Negotiate(p, s) ==
    \/ AcceptSession(p, s) \/ DeclineSession(p, s)
    \/ \E k \in TradeSlots \cup {0}, id \in DOMAIN inventories :
          id[1] = p /\ \E i \in Pockets(id) : AddItem(p, s, k, id[2], i)
    \/ \E k \in TradeSlots : RemoveItem(p, s, k)
    \/ \E k, l \in TradeSlots : k <= l /\ SwapSlots(p, s, k, l)
    \/ Toggle(p, s) \/ Finalize(p, s) \/ Decline(p, s)

Trade(p) ==
    /\ p \in signedIn
    /\ \/ \E q \in Players : InitiateSession(p, q)
       \/ \E s \in SessionIds : Negotiate(p, s)

Agent == \E s \in SessionIds : AgentCancels(s) \/ AgentDeletes(s)
CancelFar == \E s \in SessionIds : CancelServer(s)

-----------------------------------------------------------------------------

(***************************************************************************)
(* Nobody is in two sessions: trade_initiate_session scans all sessions,   *)
(* and no other step opens one.                                            *)
(***************************************************************************)
OneSessionPerPlayer ==
    \A s, t \in DOMAIN sessions : \A p \in Players :
        (Open(s) /\ Open(t) /\ Party(s, p) /\ Party(t, p)) => s = t

(***************************************************************************)
(* Whoever has accepted has accepted the offers as they are: a change of   *)
(* either offer takes the acceptance back, by whatever handler it is made. *)
(***************************************************************************)
AcceptedAsOffered ==
    \A s \in DOMAIN sessions :
        sessions[s].status \in OneAccepted
            => s \in DOMAIN acceptedOffers /\ acceptedOffers[s] = sessions[s].offers

(***************************************************************************)
(* When a session is resolved, either nothing changes hands or both had    *)
(* accepted and each gets exactly what is in the other's offered pockets,  *)
(* wherever the two parties' inventories are and whatever they did with    *)
(* them since.                                                             *)
(***************************************************************************)
Wealth(invs, p, item) ==
    MapThenSumSet(LAMBDA id : IF id[1] = p THEN Count(invs[id], item) ELSE 0, DOMAIN invs)

Offered(s, role, item) ==
    MapThenSumSet(LAMBDA at : IF StackAt(at.id, at.pocket).item = item
                              THEN StackAt(at.id, at.pocket).quantity ELSE 0,
                  ToSet(OfferedPockets(s, role)))

ChangesHands(s) ==
    LET gain(role, item) ==
            Wealth(inventories', PlayerIn(s, role), item)
                - Wealth(inventories, PlayerIn(s, role), item)
        due(role, item) == Offered(s, OtherRole(role), item) - Offered(s, role, item)
    IN  \/ \A role \in {"initiator", "acceptor"}, item \in Items : gain(role, item) = 0
        \/ /\ sessions[s].status \in OneAccepted
           /\ \A role \in {"initiator", "acceptor"}, item \in Items :
                  gain(role, item) = due(role, item)

FairExchange ==
    [][\A s \in DOMAIN sessions \cap DOMAIN sessions' :
          (Open(s) /\ sessions'[s].status = "SessionResolved") => ChangesHands(s)]_tsVars

=============================================================================
