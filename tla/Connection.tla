----------------------------- MODULE Connection -----------------------------
(***************************************************************************)
(* SpacetimeDBConnection, the client's connection to a module.  Its state  *)
(* is one field; every call of connect() makes a socket of its own, and    *)
(* neither a call that is given up nor a socket that is replaced is        *)
(* cancelled: they report later, to the same field.                        *)
(*                                                                         *)
(* JavaScript runs one task at a time, and a promise's continuations run   *)
(* in the task that settles it, so every function here, one task, maps the *)
(* connection before it, c, to the connection after it.                    *)
(***************************************************************************)
EXTENDS Naturals, FiniteSets

CONSTANT MaxCalls   \* bound: calls of connect() that are pending or have a socket

ASSUME MaxCallsAssumption == MaxCalls \in Nat \ {0}

CallIds == 1 .. MaxCalls
ConnectionState == {"disconnected", "connecting", "connected", "failed"}

\* of a call of connect(): no bindings yet, or the state of its socket
Phases == {"importing", "opening", "open", "closing", "closed"}

Connections ==
    [state : ConnectionState,
     current : 0 .. MaxCalls,                \* the socket of dbConnection, 0 if none or closed
     phase : [CallIds -> Phases],
     pending : SUBSET CallIds]               \* calls whose promise is not settled

NeverConnected ==
    [state |-> "disconnected", current |-> 0,
     phase |-> [k \in CallIds |-> "closed"], pending |-> {}]

Free(c) == {k \in CallIds : c.phase[k] = "closed" /\ k \notin c.pending}
FreeId(c) == CHOOSE k \in Free(c) : \A other \in Free(c) : k <= other

-----------------------------------------------------------------------------
(***************************************************************************)
(* connect(): it returns at once when connected, throws when connecting,   *)
(* and otherwise begins to load the bindings.                              *)
(***************************************************************************)
CanConnect(c) == c.state \notin {"connected", "connecting"}

\* mutant of Connecting: connect() does not wait for the socket
ConnectingUnawaited(c) ==
    [c EXCEPT !.state = "connecting", !.phase[FreeId(c)] = "importing"]
Connecting(c) ==
    [c EXCEPT !.state = "connecting",
              !.phase[FreeId(c)] = "importing",
              !.pending = @ \cup {FreeId(c)}]

Built(c, k) == [c EXCEPT !.phase[k] = "opening", !.current = k]

Settled(c, k, state) == [c EXCEPT !.pending = @ \ {k}, !.state = state]

(***************************************************************************)
(* The socket opens.  If the call was given up, nobody is told.            *)
(***************************************************************************)
Opened(c, k) ==
    LET open == [c EXCEPT !.phase[k] = "open"]
    IN IF k \in c.pending THEN Settled(open, k, "connected") ELSE open

(***************************************************************************)
(* The bindings cannot be loaded, or the socket cannot be opened.          *)
(***************************************************************************)
Closed(c, k) ==
    [c EXCEPT !.phase[k] = "closed", !.current = IF @ = k THEN 0 ELSE @]

Refused(c, k) ==
    IF k \in c.pending THEN Settled(Closed(c, k), k, "failed") ELSE Closed(c, k)

TimedOut(c, k) == Settled(c, k, "failed")

(***************************************************************************)
(* onDisconnect, of whichever socket.                                      *)
(***************************************************************************)
\* mutant of Dropped: only the loss of the socket built last is noticed
DroppedIfCurrent(c, k) ==
    [Closed(c, k) EXCEPT !.state = IF c.current = k THEN "disconnected" ELSE @]
Dropped(c, k) == [Closed(c, k) EXCEPT !.state = "disconnected"]

(***************************************************************************)
(* disconnect() closes the socket built last.                              *)
(***************************************************************************)
Disconnected(c) ==
    IF c.state = "disconnected" THEN c
    ELSE [c EXCEPT !.state = "disconnected",
                   !.current = 0,
                   !.phase = [k \in CallIds |->
                       IF k = c.current /\ @[k] \in {"opening", "open"} THEN "closing" ELSE @[k]]]

=============================================================================
