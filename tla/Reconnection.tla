---------------------------- MODULE Reconnection ----------------------------
(***************************************************************************)
(* ReconnectionManager, over a connection: when the connection reports     *)
(* that it is lost, the manager starts, after a delay, a loop that calls   *)
(* connect() until it succeeds or has been called too often.  The loop is  *)
(* an async function: it is suspended while it sleeps and while it waits   *)
(* for connect(), and everything else may happen then.                     *)
(*                                                                         *)
(* An action is one task: an event of a socket, a timer, or a call by the  *)
(* program that uses the client.  Time is left out; any timer may fire at  *)
(* any moment.                                                             *)
(***************************************************************************)
EXTENDS Connection

CONSTANTS
    MaxAttempts,     \* maxReconnectAttempts; 0 is "infinite"
    AutoReconnect,   \* autoReconnect
    UserEvents,      \* what the program calls besides connect()
    MaxLosses,       \* bound: sockets that are lost while open
    MaxUserEvents    \* bound: calls of the program after the first connect()

ASSUME OptionsAssumption == MaxAttempts \in Nat /\ AutoReconnect \in BOOLEAN
ASSUME UserEventsAssumption == UserEvents \subseteq {"connect", "disconnect", "cancel", "retry"}
ASSUME ReconnectionBoundsAssumption == MaxLosses \in Nat /\ MaxUserEvents \in Nat

VARIABLES
    connection,   \* the SpacetimeDBConnection
    manager,      \* the ReconnectionManager
    wanted,       \* ghost: the program's last word was not disconnect()
    tries,        \* ghost: calls of connect() by loops since the last start
    losses, userEvents

reconnectionVars == <<connection, manager, wanted, tries, losses, userEvents>>

-----------------------------------------------------------------------------

Managers ==
    [state : {"connected", "disconnected", "reconnecting", "failed"},
     attemptNumber : Nat,
     isReconnecting : BOOLEAN,
     isManualDisconnect : BOOLEAN,
     starts : Nat,                   \* timers that will call startReconnection
     reconnectTimer : BOOLEAN,       \* a loop sleeps on reconnectTimer
     otherTimers : Nat,              \* loops that sleep on timers it held before
     awaited : SUBSET CallIds]       \* calls of connect() that loops wait for

Loops(m) == (IF m.reconnectTimer THEN 1 ELSE 0) + m.otherTimers + Cardinality(m.awaited)

RTypeOK ==
    /\ connection \in Connections
    /\ manager \in Managers
    /\ manager.awaited \subseteq connection.pending
    /\ \A k \in CallIds : connection.phase[k] = "importing" => k \in connection.pending
    /\ wanted \in BOOLEAN
    /\ tries \in Nat
    /\ losses \in 0 .. MaxLosses
    /\ userEvents \in 0 .. MaxUserEvents

FirstConnect ==
    [NeverConnected EXCEPT !.state = "connecting", !.phase[1] = "importing", !.pending = {1}]

RInit ==
    /\ connection = FirstConnect
    /\ manager = [state |-> "disconnected", attemptNumber |-> 0, isReconnecting |-> FALSE,
                  isManualDisconnect |-> FALSE, starts |-> 0, reconnectTimer |-> FALSE,
                  otherTimers |-> 0, awaited |-> {}]
    /\ wanted = TRUE
    /\ tries = 0
    /\ losses = 0
    /\ userEvents = 0

-----------------------------------------------------------------------------
(***************************************************************************)
(* What one task does to connection, manager and tries, as a record of the *)
(* three.                                                                  *)
(***************************************************************************)
Now == [c |-> connection, m |-> manager, tries |-> tries]

Run(w) == connection' = w.c /\ manager' = w.m /\ tries' = w.tries

Stopped(m) == [m EXCEPT !.isReconnecting = FALSE, !.reconnectTimer = FALSE, !.attemptNumber = 0]

\* mutant of GivenUp: the flag isReconnecting stays set
GivenUpButReconnecting(w) ==
    [w EXCEPT !.m.state = "failed", !.m.reconnectTimer = FALSE, !.m.attemptNumber = 0]
GivenUp(w) == [w EXCEPT !.m = [Stopped(@) EXCEPT !.state = "failed"]]

(***************************************************************************)
(* handleReconnectSuccess: nothing if the reconnection was cancelled.      *)
(***************************************************************************)
Succeeded(w) ==
    IF w.m.isReconnecting THEN [w EXCEPT !.m = [Stopped(@) EXCEPT !.state = "connected"]] ELSE w

\* mutant of Exhausted: one attempt too many
ExhaustedLate(attempt) == MaxAttempts > 0 /\ attempt > MaxAttempts + 1
Exhausted(attempt) == MaxAttempts > 0 /\ attempt > MaxAttempts

Asleep(w, attempt) ==
    [w EXCEPT !.m.state = "reconnecting",
              !.m.attemptNumber = attempt,
              !.m.reconnectTimer = TRUE,
              !.m.otherTimers = IF w.m.reconnectTimer THEN @ + 1 ELSE @]

(***************************************************************************)
(* connect() has thrown, because another call is connecting: the loop goes *)
(* round again.  If retryConnection has set attemptNumber to 0, it does so *)
(* twice, as the first attempt does not sleep.                             *)
(***************************************************************************)
Thrown(w) ==
    LET first == w.m.attemptNumber = 0
        attempt == IF first THEN 2 ELSE w.m.attemptNumber + 1
        again == IF first THEN [w EXCEPT !.tries = @ + 1] ELSE w
    IN IF Exhausted(attempt) THEN GivenUp(again) ELSE Asleep(again, attempt)

Try(w) ==
    LET tried == [w EXCEPT !.tries = @ + 1] IN
    IF CanConnect(w.c)
    THEN [tried EXCEPT !.c = Connecting(@), !.m.awaited = @ \cup {FreeId(w.c)}]
    ELSE IF w.c.state = "connected" THEN Succeeded(tried)
    ELSE Thrown(tried)

(***************************************************************************)
(* The loop at its head.                                                   *)
(***************************************************************************)
Loop(w) ==
    LET attempt == w.m.attemptNumber + 1 IN
    IF ~w.m.isReconnecting THEN w
    ELSE IF Exhausted(attempt) THEN GivenUp(w)
    ELSE IF attempt = 1
         THEN Try([w EXCEPT !.m.state = "reconnecting", !.m.attemptNumber = 1])
    ELSE Asleep(w, attempt)

\* mutant of Started: a loop may be running already
StartedAgain(w) ==
    Loop([w EXCEPT !.m.isReconnecting = TRUE, !.m.attemptNumber = 0, !.tries = 0])
Started(w) ==
    IF w.m.isReconnecting THEN w
    ELSE Loop([w EXCEPT !.m.isReconnecting = TRUE, !.m.attemptNumber = 0, !.tries = 0])

(***************************************************************************)
(* A loop goes on when the call it waits for is settled or has taken too   *)
(* long.                                                                   *)
(***************************************************************************)
Awoken(w, k, next) ==
    IF k \in w.m.awaited THEN next ELSE w

NoLonger(w, k) == [w EXCEPT !.m.awaited = @ \ {k}]

(***************************************************************************)
(* The connection tells its listeners that it is disconnected.             *)
(***************************************************************************)
Lost(w) ==
    IF w.m.isManualDisconnect \/ ~AutoReconnect THEN w
    ELSE [w EXCEPT !.m.state = "disconnected",
                   !.m.starts = IF w.m.isReconnecting THEN @ ELSE @ + 1]

-----------------------------------------------------------------------------
(***************************************************************************)
(* Events of the sockets and of the calls of connect().                    *)
(***************************************************************************)
Task(w) == Run(w) /\ UNCHANGED <<wanted, losses, userEvents>>

RoomToConnect == Free(connection) # {}   \* MaxCalls is not reached

Build(k) ==
    /\ connection.phase[k] = "importing"
    /\ Task([Now EXCEPT !.c = Built(@, k)])

Open(k) ==
    /\ connection.phase[k] = "opening"
    /\ LET w == [Now EXCEPT !.c = Opened(@, k)]
       IN Task(Awoken(w, k, Succeeded(NoLonger(w, k))))

Refuse(k) ==
    /\ connection.phase[k] \in {"importing", "opening"}
    /\ RoomToConnect
    /\ LET w == [Now EXCEPT !.c = Refused(@, k)]
       IN Task(Awoken(w, k, Loop(NoLonger(w, k))))

TimeOut(k) ==
    /\ k \in connection.pending /\ connection.phase[k] # "importing"
    /\ RoomToConnect
    /\ LET w == [Now EXCEPT !.c = TimedOut(@, k)]
       IN Task(Awoken(w, k, Loop(NoLonger(w, k))))

OnDisconnect(k) ==
    LET w == [Now EXCEPT !.c = Dropped(@, k)]
    IN Run(IF connection.state = "disconnected" THEN [Now EXCEPT !.c = Closed(@, k)] ELSE Lost(w))

Lose(k) ==
    /\ connection.phase[k] = "open"
    /\ losses < MaxLosses
    /\ losses' = losses + 1
    /\ OnDisconnect(k)
    /\ UNCHANGED <<wanted, userEvents>>

Close(k) ==
    /\ connection.phase[k] = "closing"
    /\ OnDisconnect(k)
    /\ UNCHANGED <<wanted, losses, userEvents>>

-----------------------------------------------------------------------------
(***************************************************************************)
(* The manager's timers.  A loop that wakes up stops if the reconnection   *)
(* was cancelled.                                                          *)
(***************************************************************************)
StartTimer ==
    /\ manager.starts > 0
    /\ RoomToConnect
    /\ Task(Started([Now EXCEPT !.m.starts = @ - 1]))

WakeUp(w) == IF w.m.isReconnecting THEN Try(w) ELSE w

ReconnectTimer ==
    /\ manager.reconnectTimer
    /\ RoomToConnect
    /\ Task(WakeUp([Now EXCEPT !.m.reconnectTimer = FALSE]))

OtherTimer ==
    /\ manager.otherTimers > 0
    /\ RoomToConnect
    /\ Task(WakeUp([Now EXCEPT !.m.otherTimers = @ - 1]))

AttemptTimeout(k) ==
    /\ k \in manager.awaited
    /\ RoomToConnect
    /\ Task(Loop(NoLonger(Now, k)))

-----------------------------------------------------------------------------
(***************************************************************************)
(* The program: connect, disconnect, cancelReconnection, retryConnection.  *)
(***************************************************************************)
Calls(event) ==
    /\ event \in UserEvents
    /\ userEvents < MaxUserEvents
    /\ userEvents' = userEvents + 1
    /\ UNCHANGED losses

UserConnect ==
    /\ Calls("connect")
    /\ CanConnect(connection) /\ RoomToConnect
    /\ Run([Now EXCEPT !.c = Connecting(@)])
    /\ wanted' = TRUE

UserDisconnect ==
    /\ Calls("disconnect")
    /\ Run([Now EXCEPT !.m = [Stopped(@) EXCEPT !.isManualDisconnect = TRUE],
                       !.c = Disconnected(@)])
    /\ wanted' = FALSE

CancelReconnection ==
    /\ Calls("cancel")
    /\ Run([Now EXCEPT !.m = Stopped(@)])
    /\ UNCHANGED wanted

RetryConnection ==
    /\ Calls("retry")
    /\ RoomToConnect
    /\ LET w == [Now EXCEPT !.m.isManualDisconnect = FALSE, !.m.attemptNumber = 0, !.tries = 0]
       IN Run(Started(w))
    /\ wanted' = TRUE

RNext ==
    \/ \E k \in CallIds : \/ Build(k) \/ Open(k) \/ Refuse(k) \/ TimeOut(k)
                          \/ Lose(k) \/ Close(k) \/ AttemptTimeout(k)
    \/ StartTimer \/ ReconnectTimer \/ OtherTimer
    \/ UserConnect \/ UserDisconnect \/ CancelReconnection \/ RetryConnection

RSpec == RInit /\ [][RNext]_reconnectionVars

(***************************************************************************)
(* The program does nothing after its first connect(): nothing is closed   *)
(* and no timer of an abandoned loop is left.  Fairness: timers fire, and  *)
(* the bindings are loaded or not.                                         *)
(***************************************************************************)
UnattendedNext ==
    \/ \E k \in CallIds : \/ Build(k) \/ Open(k) \/ Refuse(k) \/ TimeOut(k)
                          \/ Lose(k) \/ AttemptTimeout(k)
    \/ StartTimer \/ ReconnectTimer

RFairSpec ==
    /\ RInit /\ [][UnattendedNext]_reconnectionVars
    /\ \A k \in CallIds :
        /\ WF_reconnectionVars(Build(k) \/ (connection.phase[k] = "importing" /\ Refuse(k)))
        /\ WF_reconnectionVars(TimeOut(k))
        /\ WF_reconnectionVars(AttemptTimeout(k))
    /\ WF_reconnectionVars(StartTimer)
    /\ WF_reconnectionVars(ReconnectTimer)

-----------------------------------------------------------------------------
(***************************************************************************)
(* Whoever is told that the connection is connected has an open socket,    *)
(* whatever late sockets and late timers have reported since (setState).   *)
(***************************************************************************)
ConnectedIsOpen ==
    connection.state = "connected" => \E k \in CallIds : connection.phase[k] = "open"

(***************************************************************************)
(* Exactly one loop runs while isReconnecting is set, and none otherwise,  *)
(* unless the program cancels (startReconnection, reconnect).              *)
(***************************************************************************)
OneLoop == Loops(manager) = IF manager.isReconnecting THEN 1 ELSE 0

(***************************************************************************)
(* A reconnection calls connect() at most maxReconnectAttempts times, and  *)
(* has failed only after so many calls (reconnect).                        *)
(***************************************************************************)
AttemptLimit ==
    MaxAttempts > 0 =>
        /\ tries <= MaxAttempts
        /\ manager.state = "failed" => tries = MaxAttempts

(***************************************************************************)
(* Liveness: a lost connection is restored, or the manager has failed, and *)
(* says so (the story's "100% of unexpected disconnections trigger         *)
(* auto-reconnection").                                                    *)
(***************************************************************************)
LossIsHandled ==
    wanted /\ connection.state = "disconnected" /\ connection.pending = {}
        ~> connection.state = "connected" \/ manager.state = "failed" \/ ~wanted

=============================================================================
