----------------------------- MODULE Admission -----------------------------
(***************************************************************************)
(* Who may sign in to a region: the tables user_state,                     *)
(* signed_in_player_state, player_queue_state, end_grace_period_timer and  *)
(* user_previous_region_state, and the functions of the region's module    *)
(* that read and write them.                                               *)
(*                                                                         *)
(* A reducer is one transaction over these tables, so every function here  *)
(* maps the tables before it, r, to the tables after it.  The parameters   *)
(* of the region (region_sign_in_parameters) are the argument "par".  A    *)
(* player stands for both an entity id and an identity.                    *)
(***************************************************************************)
EXTENDS Integers, Sequences, FiniteSets

CONSTANT Players

ASSUME PlayersAssumption == IsFiniteSet(Players)

GracePeriodType == {"SignIn", "QueueJoin"}

Tables == [users : SUBSET Players,      \* rows of user_state
           canSignIn : SUBSET Players,  \* those with can_sign_in
           signedIn : SUBSET Players,   \* rows of signed_in_player_state
           queue : Seq(Players),        \* rows of player_queue_state by ascending index
           timer : [Players -> GracePeriodType \cup {"none"}],
           previous : SUBSET Players]   \* rows of user_previous_region_state

\* the unique index of player_queue_state on entity_id
UniqueRows(r) ==
    \A i, j \in 1 .. Len(r.queue) : r.queue[i] = r.queue[j] => i = j

RegionSignInParameters == [blocked : BOOLEAN, maxSignedIn : Nat, maxQueue : Nat]

EmptyTables(users) ==
    [users |-> users, canSignIn |-> {}, signedIn |-> {}, queue |-> <<>>,
     timer |-> [p \in Players |-> "none"], previous |-> {}]

InQueue(r, p) == \E i \in 1 .. Len(r.queue) : r.queue[i] = p

(***************************************************************************)
(* EndGracePeriodTimer::new restarts the player's timer or inserts one.    *)
(***************************************************************************)
StartGracePeriod(r, p, type) == [r EXCEPT !.timer[p] = type]

Allow(r, admitted) ==
    [r EXCEPT !.timer = [p \in Players |-> IF p \in admitted THEN "SignIn" ELSE @[p]],
              !.canSignIn = @ \cup admitted,
              !.previous = @ \ admitted]

AllowSignIn(r, p) == Allow(r, {p})

\* mutant of Enqueue: the unique index on entity_id is forgotten
EnqueueAgain(r, p) == [r EXCEPT !.queue = Append(@, p)]
Enqueue(r, p) == IF InQueue(r, p) THEN r ELSE [r EXCEPT !.queue = Append(@, p)]

Position(r, p) == CHOOSE i \in 1 .. Len(r.queue) : r.queue[i] = p

Dequeue(r, p) ==
    IF ~InQueue(r, p) THEN r
    ELSE [r EXCEPT !.queue = [i \in 1 .. Len(@) - 1 |->
                                IF i < Position(r, p) THEN @[i] ELSE @[i + 1]]]

(***************************************************************************)
(* get_signed_in_player_count: the players signed in, and the grace        *)
(* periods of those who may sign in.                                       *)
(***************************************************************************)
InGracePeriod(r) == {p \in Players : r.timer[p] = "SignIn"}

SignedInCount(r) == Cardinality(r.signedIn) + Cardinality(InGracePeriod(r))

(***************************************************************************)
(* process_queue.  One grace period is not counted: the one that is        *)
(* thought to have just ended.  A row takes a free slot even if its player *)
(* has left the region.                                                    *)
(***************************************************************************)
\* mutant of FreeSlots: the grace period that just ended is counted
FreeSlotsLessOne(r, par) == par.maxSignedIn - SignedInCount(r)
FreeSlots(r, par) == par.maxSignedIn - (SignedInCount(r) - 1)

Served(r, par) ==
    IF FreeSlots(r, par) < Len(r.queue) THEN FreeSlots(r, par) ELSE Len(r.queue)

Admitted(r, par) == {r.queue[i] : i \in 1 .. Served(r, par)} \cap r.users

\* mutant of ProcessQueue: the rows are sorted by descending index
ProcessQueueNewestFirst(r, par) ==
    LET kept == Len(r.queue) - Served(r, par)
        newest == {r.queue[i] : i \in kept + 1 .. Len(r.queue)}
    IN IF FreeSlots(r, par) < 1 THEN r
       ELSE [Allow(r, newest \cap r.users) EXCEPT !.queue = SubSeq(@, 1, kept)]

ProcessQueue(r, par) ==
    IF FreeSlots(r, par) < 1 THEN r
    ELSE [Allow(r, Admitted(r, par)) EXCEPT
              !.queue = SubSeq(@, Served(r, par) + 1, Len(@))]

(***************************************************************************)
(* player_queue_join, for a player of this region who may skip the queue   *)
(* or not, and what sign_in does once it has let the player in.            *)
(***************************************************************************)
\* mutant of MayBypassQueue: grace periods are not counted
GraceNotCounted(r, par) == r.queue = <<>> /\ Cardinality(r.signedIn) < par.maxSignedIn
MayBypassQueue(r, par) == r.queue = <<>> /\ SignedInCount(r) < par.maxSignedIn

QueueJoin(r, par, p, skips) ==
    IF p \in r.canSignIn THEN StartGracePeriod(r, p, "SignIn")
    ELSE IF r.timer[p] # "none" THEN [r EXCEPT !.timer[p] = "none"]
    ELSE IF skips \/ MayBypassQueue(r, par) THEN AllowSignIn(r, p)
    ELSE IF Len(r.queue) >= par.maxQueue THEN r
    ELSE Enqueue(r, p)

SignedIn(r, p) == [r EXCEPT !.timer[p] = "none", !.signedIn = @ \cup {p}]

(***************************************************************************)
(* sign_out_internal, for a set of players.  A player who is not signed in *)
(* is left alone.                                                          *)
(***************************************************************************)
GracePeriodAfter(r, p) ==
    IF p \in r.canSignIn THEN "SignIn"
    ELSE IF InQueue(r, p) THEN "QueueJoin"
    ELSE r.timer[p]

SignOut(r, players, insertGracePeriod) ==
    LET leaving == players \cap r.users \cap r.signedIn IN
    IF insertGracePeriod
    THEN [r EXCEPT !.signedIn = @ \ leaving,
                   !.timer = [p \in Players |->
                        IF p \in leaving THEN GracePeriodAfter(r, p) ELSE @[p]]]
    ELSE [r EXCEPT !.signedIn = @ \ leaving, !.canSignIn = @ \ leaving]

(***************************************************************************)
(* end_grace_period for the expired row of p.  The row of user_state is    *)
(* read before the queue is processed and written back after it; the       *)
(* expired row is deleted last, unless process_queue replaced it.          *)
(***************************************************************************)
\* mutant of SignInGraceEnds: the permission outlives the grace period
PermissionSurvives(r, par, p) ==
    [ProcessQueue(r, par) EXCEPT
        !.timer[p] = IF p \in Admitted(r, par) THEN @ ELSE "none"]

SignInGraceEnds(r, par, p) ==
    LET s == ProcessQueue(r, par)
        replaced == FreeSlots(r, par) >= 1 /\ p \in Admitted(r, par)
    IN [s EXCEPT !.canSignIn = @ \ {p},
                 !.timer[p] = IF replaced THEN @ ELSE "none"]

GraceEnds(r, par, p) ==
    IF p \notin r.users THEN [r EXCEPT !.timer[p] = "none"]
    ELSE IF r.timer[p] = "SignIn" THEN SignInGraceEnds(r, par, p)
    ELSE [Dequeue(r, p) EXCEPT !.timer[p] = "none"]

(***************************************************************************)
(* transfer_player_delayed: the player leaves for another region, with     *)
(* every row except the one in the queue.                                  *)
(***************************************************************************)
Depart(r, par, p) ==
    ProcessQueue([SignOut(r, {p}, FALSE) EXCEPT
                      !.users = @ \ {p}, !.canSignIn = @ \ {p}, !.signedIn = @ \ {p},
                      !.timer[p] = "none"],
                 par)

(***************************************************************************)
(* insert_player and what process_message_on_destination adds to it.       *)
(***************************************************************************)
Arrive(r, p, canSignIn, allowCancel) ==
    [r EXCEPT !.users = @ \cup {p},
              !.canSignIn = IF canSignIn THEN @ \cup {p} ELSE @ \ {p},
              !.previous = IF allowCancel THEN @ \cup {p} ELSE @]

=============================================================================
