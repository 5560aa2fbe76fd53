---------------------------- MODULE PlayerQueue ----------------------------
(***************************************************************************)
(* Signing in to one region: connections, the queue for a full region, the *)
(* grace periods after a sign-out or a lost connection, and what else      *)
(* frees or takes the region's slots.  Every action is one reducer.        *)
(***************************************************************************)
EXTENDS Admission

CONSTANTS
    Events,             \* what may happen besides the calls of well-behaved clients
    ParameterChoices,   \* values of region_sign_in_parameters
    Gms,                \* players with role Gm or higher
    Skippers,           \* players who may have role SkipQueue or higher
    MaxConnections      \* bound: connections one player has open at a time

AllEvents == {"stray join",       \* a client joins the queue while it is signed in
              "role change",      \* a player is given the role SkipQueue
              "admin sign-out",   \* an administrator signs players out
              "skip message",     \* PlayerSkipQueue arrives from the global module
              "parameters",       \* region_sign_in_parameters is replaced
              "transfer"}         \* players leave for and come from other regions

ASSUME EventsAssumption == Events \subseteq AllEvents
ASSUME RolesAssumption == Gms \subseteq Skippers /\ Skippers \subseteq Players
ASSUME ParametersAssumption ==
    ParameterChoices \subseteq RegionSignInParameters /\ ParameterChoices # {}
ASSUME ConnectionsAssumption == MaxConnections \in Nat \ {0}

VARIABLES
    region,        \* the tables
    parameters,    \* this region's row of region_sign_in_parameters
    skipQueue,     \* players that have the role SkipQueue now
    connections    \* open connections of every player

queueVars == <<region, parameters, skipQueue, connections>>

-----------------------------------------------------------------------------

QTypeOK ==
    /\ region \in Tables
    /\ UniqueRows(region)
    /\ parameters \in ParameterChoices
    /\ skipQueue \in SUBSET Skippers
    /\ connections \in [Players -> 0 .. MaxConnections]

QInit ==
    /\ region = EmptyTables(Players)
    /\ parameters \in ParameterChoices
    /\ skipQueue = Gms
    /\ connections = [p \in Players |-> 0]

-----------------------------------------------------------------------------
(***************************************************************************)
(* Connections.                                                            *)
(***************************************************************************)

Connected(p) == connections[p] > 0

Connect(p) ==
    /\ connections[p] < MaxConnections
    /\ p \in skipQueue \/ p \in region.users
    /\ connections' = [connections EXCEPT ![p] = @ + 1]
    /\ region' = IF p \in skipQueue THEN region ELSE SignOut(region, {p}, TRUE)
    /\ UNCHANGED <<parameters, skipQueue>>

\* mutant of Disconnect: the last connection is thought to be the one signed in
DisconnectIfOthers(p) ==
    /\ Connected(p)
    /\ connections' = [connections EXCEPT ![p] = @ - 1]
    /\ region' = IF connections[p] = 1 THEN region ELSE SignOut(region, {p}, TRUE)
    /\ UNCHANGED <<parameters, skipQueue>>
Disconnect(p) ==
    /\ Connected(p)
    /\ connections' = [connections EXCEPT ![p] = @ - 1]
    /\ region' = SignOut(region, {p}, TRUE)
    /\ UNCHANGED <<parameters, skipQueue>>

-----------------------------------------------------------------------------
(***************************************************************************)
(* The reducers a client calls.                                            *)
(***************************************************************************)

SigningInOpen(p) == parameters.blocked => p \in Gms

Transact(tables) ==
    /\ region' = tables
    /\ UNCHANGED <<parameters, skipQueue, connections>>

PlayerQueueJoin(p) ==
    /\ Connected(p) /\ p \in region.users
    /\ SigningInOpen(p)
    /\ p \in region.signedIn => "stray join" \in Events
    /\ Transact(QueueJoin(region, parameters, p, p \in skipQueue))

PlayerQueueLeave(p) ==
    /\ Connected(p) /\ p \in region.users
    /\ Transact(Dequeue(region, p))

SignIn(p) ==
    /\ Connected(p) /\ p \in region.users
    /\ SigningInOpen(p)
    /\ p \notin region.signedIn
    /\ p \in region.canSignIn
    /\ Transact(SignedIn(region, p))

PlayerSignsOut(p) ==
    /\ Connected(p)
    /\ Transact(SignOut(region, {p}, TRUE))

-----------------------------------------------------------------------------
(***************************************************************************)
(* The region's own timers: the grace period and the automatic log-out of  *)
(* the players who have been idle.                                         *)
(***************************************************************************)

EndGracePeriod(p) ==
    /\ region.timer[p] # "none"
    /\ Transact(GraceEnds(region, parameters, p))

AutoLogout ==
    \E idle \in SUBSET region.users : Transact(SignOut(region, idle, TRUE))

-----------------------------------------------------------------------------
(***************************************************************************)
(* What others do to the region.                                           *)
(***************************************************************************)

AdminSignOut(p) ==
    /\ "admin sign-out" \in Events
    /\ Transact(SignOut([region EXCEPT !.canSignIn = @ \ {p}], {p}, FALSE))

(***************************************************************************)
(* admin_sign_out_all_region signs out everyone; the message SignPlayerOut *)
(* one player.                                                             *)
(***************************************************************************)
SignPlayersOut(players) ==
    /\ "admin sign-out" \in Events
    /\ Transact(SignOut(region, players, FALSE))

PlayerSkipQueue(p) ==
    /\ "skip message" \in Events
    /\ p \in region.users
    /\ Transact(AllowSignIn(Dequeue([region EXCEPT !.timer[p] = "none"], p), p))

GrantSkipQueue(p) ==
    /\ "role change" \in Events
    /\ skipQueue' = skipQueue \cup {p}
    /\ UNCHANGED <<region, parameters, connections>>

ParametersReplicated(par) ==
    /\ "parameters" \in Events
    /\ parameters' = par
    /\ region' = ProcessQueue(region, par)
    /\ UNCHANGED <<skipQueue, connections>>

PlayerDeparts(p) ==
    /\ "transfer" \in Events
    /\ p \in region.users
    /\ Transact(Depart(region, parameters, p))

PlayerArrives(p, canSignIn) ==
    /\ "transfer" \in Events
    /\ p \notin region.users
    /\ Transact(Arrive(region, p, canSignIn, ~canSignIn))

-----------------------------------------------------------------------------

\* clients behave and nobody intervenes
OrdinaryNext ==
    \/ \E p \in Players :
        \/ Connect(p) \/ Disconnect(p)
        \/ PlayerQueueJoin(p) \/ PlayerQueueLeave(p) \/ SignIn(p) \/ PlayerSignsOut(p)
        \/ EndGracePeriod(p)
    \/ AutoLogout

QNext ==
    \/ OrdinaryNext
    \/ \E p \in Players :
        \/ AdminSignOut(p) \/ PlayerSkipQueue(p)
        \/ PlayerDeparts(p) \/ \E canSignIn \in BOOLEAN : PlayerArrives(p, canSignIn)
    \/ \E players \in {{p} : p \in Players} \cup {Players} : SignPlayersOut(players)
    \/ \E p \in Skippers : GrantSkipQueue(p)
    \/ \E par \in ParameterChoices : ParametersReplicated(par)

QSpec == QInit /\ [][QNext]_queueVars

(***************************************************************************)
(* The runtime fires a timer that is due.  A client that keeps calling     *)
(* player_queue_join restarts its grace period each time; it is assumed    *)
(* not to do so for ever.                                                  *)
(***************************************************************************)
QFairSpec ==
    /\ QInit /\ [][OrdinaryNext]_queueVars
    /\ \A p \in Players : WF_queueVars(EndGracePeriod(p))

-----------------------------------------------------------------------------
(***************************************************************************)
(* Safety.  A player holds a slot of the region while signed in and during *)
(* the grace period in which he may sign in.                               *)
(***************************************************************************)
Holding == region.signedIn \cup InGracePeriod(region)
Waiting == {p \in region.users : InQueue(region, p)}

(***************************************************************************)
(* No more players hold a slot than the region admits, whichever of        *)
(* player_queue_join and process_queue let them in.                        *)
(***************************************************************************)
WithinCapacity == Cardinality(Holding) <= parameters.maxSignedIn

(***************************************************************************)
(* Nobody waits while a slot is free: whatever frees a slot also processes *)
(* the queue.                                                              *)
(***************************************************************************)
NobodyWaitsForNothing ==
    Waiting # {} => Cardinality(Holding) >= parameters.maxSignedIn

(***************************************************************************)
(* Whoever may sign in (user_state.can_sign_in) holds a slot, and the      *)
(* slots are held by those who may sign in: permission and slot are given  *)
(* and withdrawn together.                                                 *)
(***************************************************************************)
PermissionIsSlot == region.canSignIn = Holding

(***************************************************************************)
(* A player without a connection is not signed in, however many            *)
(* connections he had (identity_disconnected).                             *)
(***************************************************************************)
SignedInIsConnected == \A p \in region.signedIn : Connected(p)

(***************************************************************************)
(* Nobody is let in past a player who waits and goes on waiting.           *)
(***************************************************************************)
AheadOf(q, p) ==
    \E i, j \in 1 .. Len(region.queue) :
        i < j /\ region.queue[i] = q /\ region.queue[j] = p

FirstComeFirstServed ==
    [][\A p \in Waiting : \A q \in (region'.canSignIn \ region.canSignIn) \ {p} :
          ~AheadOf(q, p) => ~InQueue(region', p)]_queueVars

-----------------------------------------------------------------------------
(***************************************************************************)
(* Liveness.  Everyone who waits is let in, or leaves, provided that no    *)
(* player keeps his slot for good: he signs out and stays out, so that his *)
(* grace period ends, or he loses the slot again and again.                *)
(***************************************************************************)
GivesUpSlot(p) == <>[](p \notin region.signedIn) \/ []<>(p \notin Holding)

EveryoneIsServed ==
    (\A p \in Players : GivesUpSlot(p))
        => \A q \in Players : InQueue(region, q) ~> ~InQueue(region, q)

=============================================================================
