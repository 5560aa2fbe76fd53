--------------------------- MODULE PlayerTransfer ---------------------------
(***************************************************************************)
(* Players who move between regions.  A region that lets a player go       *)
(* deletes him from its tables and sends him, whole, in one inter-module   *)
(* message; the destination inserts him and tells the global module where  *)
(* he is now; a region whose message failed inserts him again.             *)
(*                                                                         *)
(* The module composes the protocol of InterModule with the tables of      *)
(* Admission, one instance of them per region.  Every action is one        *)
(* reducer, or a step of the relay.                                        *)
(***************************************************************************)
EXTENDS InterModule, Admission

CONSTANTS
    Home,         \* the region in which every player was created
    Parameters    \* Parameters[r]: region_sign_in_parameters of region r

TransferPlayerRequests ==
    [type : {"TransferPlayerRequest"}, player : Players, allowCancel : BOOLEAN]
UserUpdateRegionRequests ==
    [type : {"UserUpdateRegionRequest"}, player : Players, region : Regions]
MessageContents == TransferPlayerRequests \cup UserUpdateRegionRequests

ASSUME ContentsAssumption == Contents = MessageContents
ASSUME HomeAssumption == Home \in [Players -> Regions]
ASSUME ParametersAssumption == Parameters \in [Regions -> RegionSignInParameters]

VARIABLES
    tables,           \* tables[r]: the tables of Admission at region r
    previousRegion,   \* previousRegion[r]: the region in user_previous_region_state
    transferTimers,   \* transferTimers[r]: rows of transfer_player_timer
    userRegion,       \* rows of user_region_state at the global module
    cancelled         \* ghost: players who have cancelled and are not back yet

playerVars == <<tables, previousRegion, transferTimers, userRegion, cancelled>>
ptVars == <<imVars, playerVars>>

-----------------------------------------------------------------------------

TransferPlayerTimer == [player : Players, to : Regions]

PTTypeOK ==
    /\ IMTypeOK
    /\ tables \in [Regions -> Tables]
    /\ previousRegion \in [Regions -> [Players -> Modules]]
    /\ transferTimers \in [Regions -> SUBSET TransferPlayerTimer]
    /\ userRegion \in [Players -> Regions]
    /\ cancelled \in SUBSET Players

PTInit ==
    /\ IMInit
    /\ tables = [r \in Regions |-> EmptyTables({p \in Players : Home[p] = r})]
    /\ previousRegion = [r \in Regions |-> [p \in Players |-> Global]]
    /\ transferTimers = [r \in Regions |-> {}]
    /\ userRegion = Home
    /\ cancelled = {}

-----------------------------------------------------------------------------
(***************************************************************************)
(* A player in a region: the reducers of PlayerQueue.                      *)
(***************************************************************************)

Act(r, after) ==
    /\ tables' = [tables EXCEPT ![r] = after]
    /\ UNCHANGED <<imVars, previousRegion, transferTimers, userRegion, cancelled>>

JoinQueue(r, p) ==
    /\ p \in tables[r].users \ tables[r].signedIn
    /\ ~Parameters[r].blocked
    /\ Act(r, QueueJoin(tables[r], Parameters[r], p, FALSE))

LeaveQueue(r, p) ==
    /\ p \in tables[r].users
    /\ Act(r, Dequeue(tables[r], p))

EnterRegion(r, p) ==
    /\ p \in tables[r].users \cap tables[r].canSignIn
    /\ p \notin tables[r].signedIn /\ ~Parameters[r].blocked
    /\ Act(r, SignedIn(tables[r], p))

LeaveRegion(r, p) == Act(r, SignOut(tables[r], {p}, TRUE))

GracePeriodOver(r, p) ==
    /\ tables[r].timer[p] # "none"
    /\ Act(r, GraceEnds(tables[r], Parameters[r], p))

-----------------------------------------------------------------------------
(***************************************************************************)
(* Leaving for another region.  The player who crosses the border, or is   *)
(* teleported over it, gets a timer; so does the one who cancels while he  *)
(* waits in the queue.                                                     *)
(***************************************************************************)

ScheduleTransfer(r, p, to) ==
    transferTimers' = [transferTimers EXCEPT ![r] = @ \cup {[player |-> p, to |-> to]}]

PlayerRegionCrossover(r, p, to) ==
    /\ p \in tables[r].signedIn
    /\ to # r
    /\ ScheduleTransfer(r, p, to)
    /\ UNCHANGED <<imVars, tables, previousRegion, userRegion, cancelled>>

PlayerCancelRegionTransfer(r, p) ==
    /\ p \in tables[r].users
    /\ InQueue(tables[r], p)
    /\ p \in tables[r].previous
    /\ ScheduleTransfer(r, p, previousRegion[r][p])
    /\ tables' = [tables EXCEPT ![r].previous = @ \ {p}]
    /\ cancelled' = cancelled \cup {p}
    /\ UNCHANGED <<imVars, previousRegion, userRegion>>

(***************************************************************************)
(* transfer_player_delayed.  The transfer may be cancelled unless it takes *)
(* the player back: he has a row in user_previous_region_state then.       *)
(***************************************************************************)
TransferRequest(r, p) ==
    [type |-> "TransferPlayerRequest", player |-> p, allowCancel |-> p \notin tables[r].previous]

\* mutant of Departing: the grace period of the player stays behind
DepartingWithoutTimer(r, p) ==
    [Depart(tables[r], Parameters[r], p) EXCEPT !.timer[p] = tables[r].timer[p]]
Departing(r, p) == Depart(tables[r], Parameters[r], p)

TransferPlayerDelayed(r) ==
    \E t \in transferTimers[r] :
        /\ transferTimers' = [transferTimers EXCEPT ![r] = @ \ {t}]
        /\ IF t.player \in tables[r].users
           THEN /\ Post(r, outbox[r], <<[to |-> t.to, contents |-> TransferRequest(r, t.player)]>>)
                /\ tables' = [tables EXCEPT ![r] = Departing(r, t.player)]
           ELSE UNCHANGED <<outboxVars, tables>>
        /\ UNCHANGED <<destinationVars, relayVars, boundVars, calls, responses, resolved,
                       previousRegion, userRegion, cancelled>>

-----------------------------------------------------------------------------
(***************************************************************************)
(* The handlers of the two messages.  insert_player panics if the player   *)
(* is there already, and may panic for other reasons; it never returns     *)
(* Err, so no error is saved.  The global module has a row of              *)
(* user_region_state for every player: its handler does not fail.          *)
(***************************************************************************)

UserUpdateRegion(d, p) ==
    [to |-> Global,
     contents |-> [type |-> "UserUpdateRegionRequest", player |-> p, region |-> d]]

\* mutant of Announcement: the global module is only told of players who return
AnnounceIfReturning(d, c) ==
    IF c.allowCancel THEN <<>> ELSE <<UserUpdateRegion(d, c.player)>>
Announcement(d, c) == <<UserUpdateRegion(d, c.player)>>

ProcessTransferPlayer(s, d) ==
    /\ calls[s][d] # <<>>
    /\ LET c == NextCall(s, d).contents IN
        /\ c.type = "TransferPlayerRequest"
        /\ c.player \notin tables[d].users
        /\ ProcessOk(s, d, Announcement(d, c))
        /\ tables' = [tables EXCEPT ![d] = Arrive(@, c.player, ~c.allowCancel, c.allowCancel)]
        /\ previousRegion' =
              IF c.allowCancel THEN [previousRegion EXCEPT ![d][c.player] = s] ELSE previousRegion
        /\ cancelled' = cancelled \ {c.player}
    /\ UNCHANGED <<transferTimers, userRegion>>

ProcessUserUpdateRegion(s) ==
    /\ calls[s][Global] # <<>>
    /\ LET c == NextCall(s, Global).contents IN
        /\ c.type = "UserUpdateRegionRequest"
        /\ ProcessOk(s, Global, <<>>)
        /\ userRegion' = [userRegion EXCEPT ![c.player] = c.region]
    /\ UNCHANGED <<tables, previousRegion, transferTimers, cancelled>>

(***************************************************************************)
(* handle_destination_result_on_sender: the region that sent a player who  *)
(* could not be inserted inserts him again.  The results of the messages   *)
(* to the global module are ignored.                                       *)
(***************************************************************************)
\* mutant of Refused: only a player on his way back is inserted again
RefusedOnReturn(r, m) ==
    r.result = "Err" /\ m.contents.type = "TransferPlayerRequest" /\ ~m.contents.allowCancel
Refused(r, m) == r.result = "Err" /\ m.contents.type = "TransferPlayerRequest"

\* mutant of Restored: the player is inserted again whatever the result
RestoredAlways(s, r, m) ==
    IF m.contents.type = "TransferPlayerRequest"
    THEN [tables EXCEPT ![s] = Arrive(@, m.contents.player, ~m.contents.allowCancel, FALSE)]
    ELSE tables
Restored(s, r, m) ==
    IF Refused(r, m)
    THEN [tables EXCEPT ![s] = Arrive(@, m.contents.player, ~m.contents.allowCancel, FALSE)]
    ELSE tables

HandleResult(s) ==
    /\ responses[s] # <<>>
    /\ \E m \in RowsWithId(s, Head(responses[s]).id) :
        /\ Refused(Head(responses[s]), m) => m.contents.player \notin tables[s].users
        /\ tables' = Restored(s, Head(responses[s]), m)
    /\ OnProcessed(s, <<>>)
    /\ UNCHANGED <<previousRegion, transferTimers, userRegion, cancelled>>

(***************************************************************************)
(* Everything else the protocol does leaves the players alone.             *)
(***************************************************************************)
Forward(s, d) == RelayForward(s, d) /\ UNCHANGED playerVars
Respond == RelayRespond /\ UNCHANGED playerVars
Duplicate(s, d) == ProcessDuplicate(s, d) /\ UNCHANGED playerVars
FailToInsert(s, d) ==
    /\ ProcessPanic(s, d)
    /\ NextCall(s, d).contents.type = "TransferPlayerRequest"
    /\ UNCHANGED playerVars
NoResult(s) == (OnProcessedPanic(s) \/ OnProcessedGone(s)) /\ UNCHANGED playerVars
Restart == (RelayRestart \/ \E d \in Modules : ModuleRestart(d)) /\ UNCHANGED playerVars

-----------------------------------------------------------------------------

InRegion(r, p) ==
    \/ JoinQueue(r, p) \/ LeaveQueue(r, p)
    \/ EnterRegion(r, p) \/ LeaveRegion(r, p)
    \/ GracePeriodOver(r, p)
    \/ \E to \in Regions : PlayerRegionCrossover(r, p, to)
    \/ PlayerCancelRegionTransfer(r, p)

PTNext ==
    \/ \E r \in Regions : (\E p \in Players : InRegion(r, p)) \/ TransferPlayerDelayed(r)
    \/ \E s \in Regions : (\E d \in Regions : ProcessTransferPlayer(s, d)) \/ ProcessUserUpdateRegion(s)
    \/ \E s \in Modules : HandleResult(s) \/ NoResult(s)
    \/ \E s, d \in Modules : Forward(s, d) \/ Duplicate(s, d) \/ FailToInsert(s, d)
    \/ Respond
    \/ Restart

PTSpec == PTInit /\ [][PTNext]_ptVars

(***************************************************************************)
(* Fairness: that of the protocol.  Nothing is assumed about the players.  *)
(***************************************************************************)
ProcessAny(s, d) ==
    \/ ProcessTransferPlayer(s, d)
    \/ d = Global /\ ProcessUserUpdateRegion(s)
    \/ Duplicate(s, d) \/ FailToInsert(s, d)

PTFairSpec ==
    /\ PTSpec
    /\ \A s, d \in Modules : WF_ptVars(Forward(s, d)) /\ WF_ptVars(ProcessAny(s, d))
    /\ \A s \in Modules : WF_ptVars(HandleResult(s) \/ NoResult(s))
    /\ WF_ptVars(Respond)

-----------------------------------------------------------------------------
(***************************************************************************)
(* A player is in one place: in the tables of one region, or in one        *)
(* message that has not taken effect.  Relay, regions and global module    *)
(* may restart, calls be repeated and handlers fail: he is never lost and  *)
(* never doubled (transfer_player_delayed, insert_player).                 *)
(***************************************************************************)
Residences(p) == {r \in Regions : p \in tables[r].users}

Journeys(p) ==
    UNION {{[sender |-> s, id |-> m.id] : m \in {m \in outbox[s] :
                /\ m.contents.type = "TransferPlayerRequest" /\ m.contents.player = p
                /\ ~TookEffect(s, m.id)}} : s \in Regions}

ExactlyOnePlace ==
    \A p \in Players : Cardinality(Residences(p)) + Cardinality(Journeys(p)) = 1

(***************************************************************************)
(* A player who has left a region holds none of its slots and no           *)
(* permission there (the deletions of transfer_player_delayed).            *)
(***************************************************************************)
DepartedHoldsNoSlot ==
    \A r \in Regions :
        (tables[r].signedIn \cup tables[r].canSignIn \cup InGracePeriod(tables[r]))
            \subseteq tables[r].users

(***************************************************************************)
(* A player who cancels has can_sign_in when he is back                    *)
(* (transfer_player_delayed: "True when returning to prev module (to skip  *)
(* queue)").                                                               *)
(***************************************************************************)
CancelSkipsQueue ==
    [][\A p \in cancelled \ cancelled' :
          \E r \in Regions : p \in tables'[r].canSignIn]_ptVars

(***************************************************************************)
(* Liveness: a player on his way arrives, where he wanted to go or back    *)
(* where he came from.                                                     *)
(***************************************************************************)
TravellersArrive ==
    \A p \in Players : Residences(p) = {} ~> Residences(p) # {}

(***************************************************************************)
(* The global module learns where a player is (user_update_region): if he  *)
(* makes one journey, or none, and stays, it has the region right in the   *)
(* end.  The messages of two regions are not ordered, so that nothing is   *)
(* promised after a second journey.                                        *)
(***************************************************************************)
FirstJourneyOf(p) == \A r \in Regions \ {Home[p]} : LastId(r) <= 1

RegionIsLearned ==
    \A p \in Players : \A r \in Regions :
        <>[](Residences(p) = {r} /\ FirstJourneyOf(p)) => <>[](userRegion[p] = r)

=============================================================================
