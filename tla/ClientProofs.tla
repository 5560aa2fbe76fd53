---------------------------- MODULE ClientProofs ----------------------------
(***************************************************************************)
(* Proofs about the client.  Its connection and its reconnection manager:  *)
(* for every number of pending calls of connect(), every limit on attempts *)
(* and any number of losses and calls by the program.  Its data: for any   *)
(* tables, rows, batches and loads, over connections that come and go.     *)
(***************************************************************************)
EXTENDS MCClient, FiniteSetTheorems, WellFoundedInduction, TLAPS

-----------------------------------------------------------------------------
(***************************************************************************)
(* The id of the next call of connect() is a free one, if there is any.    *)
(***************************************************************************)
LEMMA LeastNumber ==
    ASSUME NEW T \in SUBSET Nat, T # {}
    PROVE  \E x \in T : \A y \in T : x <= y
<1>1. PICK x \in T : \A y \in T : ~(<<y, x>> \in OpToRel(<, Nat))
  BY NatLessThanWellFounded, WFMin
<1>2. \A y \in T : ~(y < x)
  BY <1>1 DEF OpToRel
<1> QED BY <1>2

LEMMA FreeIdIsFree ==
    ASSUME NEW c, Free(c) # {}
    PROVE  FreeId(c) \in Free(c) /\ FreeId(c) \in CallIds
<1>1. Free(c) \in SUBSET Nat /\ Free(c) \subseteq CallIds
  BY DEF Free, CallIds
<1>2. \E k \in Free(c) : \A other \in Free(c) : k <= other
  BY <1>1, LeastNumber
<1> QED BY <1>1, <1>2 DEF FreeId

-----------------------------------------------------------------------------
(***************************************************************************)
(* Type correctness.  What a task makes of connection, manager and tries   *)
(* is well-formed if what it starts from is.                               *)
(***************************************************************************)
World == [c : Connections, m : Managers, tries : Nat]

ConnectionOK(c) ==
    /\ c \in Connections
    /\ \A k \in CallIds : c.phase[k] = "importing" => k \in c.pending

WellFormed(w) ==
    /\ w \in World
    /\ ConnectionOK(w.c)
    /\ w.m.awaited \subseteq w.c.pending

LEMMA WorldParts ==
    ASSUME NEW w \in World
    PROVE  /\ w.c \in Connections /\ w.m \in Managers /\ w.tries \in Nat
           /\ w.m.awaited \in SUBSET CallIds /\ w.c.pending \in SUBSET CallIds
           /\ w.m.attemptNumber \in Nat /\ w.m.otherTimers \in Nat
           /\ w.m.isReconnecting \in BOOLEAN /\ w.m.reconnectTimer \in BOOLEAN
<1>1. w.c \in Connections /\ w.m \in Managers /\ w.tries \in Nat
  BY DEF World
<1>2. w.c.pending \in SUBSET CallIds
  BY <1>1 DEF Connections
<1> QED BY <1>1, <1>2 DEF Managers

LEMMA WithConnection ==
    ASSUME NEW w \in World, NEW c \in Connections
    PROVE  LET v == [w EXCEPT !.c = c]
           IN  v \in World /\ v.c = c /\ v.m = w.m /\ v.tries = w.tries
BY DEF World

LEMMA WithManager ==
    ASSUME NEW w \in World, NEW m \in Managers
    PROVE  LET v == [w EXCEPT !.m = m]
           IN  v \in World /\ v.c = w.c /\ v.m = m /\ v.tries = w.tries
BY DEF World

LEMMA WithTries ==
    ASSUME NEW w \in World, NEW n \in Nat
    PROVE  LET v == [w EXCEPT !.tries = n]
           IN  v \in World /\ v.c = w.c /\ v.m = w.m /\ v.tries = n
BY DEF World

LEMMA ConnectingOK ==
    ASSUME NEW c, ConnectionOK(c), Free(c) # {}
    PROVE  /\ ConnectionOK(Connecting(c))
           /\ Connecting(c).pending = c.pending \cup {FreeId(c)}
           /\ Connecting(c).state = "connecting"
<1>1. FreeId(c) \in CallIds
  BY FreeIdIsFree
<1> DEFINE i == FreeId(c)
<1> HIDE DEF i
<1>2. Connecting(c) = [c EXCEPT !.state = "connecting",
                                !.phase = [c.phase EXCEPT ![i] = "importing"],
                                !.pending = c.pending \cup {i}]
  BY DEF Connecting, i
<1>3. c \in Connections /\ i \in CallIds
  BY <1>1 DEF ConnectionOK, i
<1>4. c.phase \in [CallIds -> Phases] /\ c.pending \in SUBSET CallIds
  BY <1>3 DEF Connections
<1>5. /\ Connecting(c) \in Connections
      /\ Connecting(c).phase = [c.phase EXCEPT ![i] = "importing"]
      /\ Connecting(c).pending = c.pending \cup {i}
      /\ Connecting(c).state = "connecting"
  <2> DEFINE phase == [c.phase EXCEPT ![i] = "importing"]
             pending == c.pending \cup {i}
  <2>1. phase \in [CallIds -> Phases] /\ pending \in SUBSET CallIds
    BY <1>3, <1>4 DEF Phases
  <2> HIDE DEF phase, pending
  <2>2. Connecting(c) = [c EXCEPT !.state = "connecting", !.phase = phase, !.pending = pending]
    BY <1>2 DEF phase, pending
  <2>3. Connecting(c) \in Connections
    BY <1>3, <2>1, <2>2 DEF Connections, ConnectionState
  <2>4. /\ Connecting(c).phase = phase /\ Connecting(c).pending = pending
        /\ Connecting(c).state = "connecting"
    BY <1>3, <2>2 DEF Connections
  <2> QED BY <2>3, <2>4 DEF phase, pending
<1> QED BY <1>4, <1>5 DEF ConnectionOK, i

(***************************************************************************)
(* What the steps of a loop do to the manager.                             *)
(***************************************************************************)
LEMMA StoppedManager ==
    ASSUME NEW m \in Managers, NEW state \in {"connected", "failed"}
    PROVE  /\ Stopped(m) \in Managers
           /\ Stopped(m).awaited = m.awaited
           /\ LET n == [Stopped(m) EXCEPT !.state = state]
              IN  /\ n \in Managers /\ n.state = state
                  /\ ~n.isReconnecting /\ ~n.reconnectTimer
                  /\ n.awaited = m.awaited /\ n.otherTimers = m.otherTimers
BY DEF Managers, Stopped

LEMMA GivenUpEffect ==
    ASSUME NEW w \in World
    PROVE  /\ GivenUp(w) \in World
           /\ GivenUp(w).c = w.c /\ GivenUp(w).tries = w.tries
           /\ GivenUp(w).m.state = "failed"
           /\ ~GivenUp(w).m.isReconnecting /\ ~GivenUp(w).m.reconnectTimer
           /\ GivenUp(w).m.awaited = w.m.awaited
           /\ GivenUp(w).m.otherTimers = w.m.otherTimers
<1> DEFINE n == [Stopped(w.m) EXCEPT !.state = "failed"]
<1>1. GivenUp(w) = [w EXCEPT !.m = n]
  BY DEF GivenUp
<1>2. /\ n \in Managers /\ n.state = "failed" /\ ~n.isReconnecting /\ ~n.reconnectTimer
      /\ n.awaited = w.m.awaited /\ n.otherTimers = w.m.otherTimers
  BY StoppedManager, WorldParts
<1> HIDE DEF n
<1> QED BY <1>1, <1>2, WithManager

LEMMA SucceededEffect ==
    ASSUME NEW w \in World
    PROVE  /\ Succeeded(w) \in World
           /\ Succeeded(w).c = w.c /\ Succeeded(w).tries = w.tries
           /\ Succeeded(w).m.awaited = w.m.awaited
           /\ Succeeded(w).m.otherTimers = w.m.otherTimers
           /\ w.m.isReconnecting =>
                /\ Succeeded(w).m.state = "connected"
                /\ ~Succeeded(w).m.isReconnecting /\ ~Succeeded(w).m.reconnectTimer
           /\ ~w.m.isReconnecting => Succeeded(w) = w
<1> DEFINE n == [Stopped(w.m) EXCEPT !.state = "connected"]
<1>1. Succeeded(w) = IF w.m.isReconnecting THEN [w EXCEPT !.m = n] ELSE w
  BY DEF Succeeded
<1>2. /\ n \in Managers /\ n.state = "connected" /\ ~n.isReconnecting /\ ~n.reconnectTimer
      /\ n.awaited = w.m.awaited /\ n.otherTimers = w.m.otherTimers
  BY StoppedManager, WorldParts
<1> HIDE DEF n
<1> QED BY <1>1, <1>2, WithManager

\* what the wait before an attempt leaves behind
FallenAsleep(v, w, attempt) ==
    /\ v \in World /\ v.c = w.c /\ v.tries = w.tries
    /\ v.m.state = "reconnecting" /\ v.m.attemptNumber = attempt
    /\ v.m.reconnectTimer /\ v.m.isReconnecting = w.m.isReconnecting
    /\ v.m.awaited = w.m.awaited
    /\ v.m.otherTimers = IF w.m.reconnectTimer THEN w.m.otherTimers + 1 ELSE w.m.otherTimers

LEMMA AsleepEffect ==
    ASSUME NEW w \in World, NEW attempt \in Nat
    PROVE  FallenAsleep(Asleep(w, attempt), w, attempt)
<1> DEFINE n == [w.m EXCEPT !.state = "reconnecting",
                            !.attemptNumber = attempt,
                            !.reconnectTimer = TRUE,
                            !.otherTimers = IF w.m.reconnectTimer THEN @ + 1 ELSE @]
<1>1. Asleep(w, attempt) = [w EXCEPT !.m = n]
  BY DEF Asleep
<1>2. w.m \in Managers
  BY WorldParts
<1>3. n \in Managers
  <2> DEFINE others == IF w.m.reconnectTimer THEN w.m.otherTimers + 1 ELSE w.m.otherTimers
  <2>1. others \in Nat
    BY WorldParts
  <2>2. n = [w.m EXCEPT !.state = "reconnecting", !.attemptNumber = attempt,
                        !.reconnectTimer = TRUE, !.otherTimers = others]
    OBVIOUS
  <2> HIDE DEF n, others
  <2> QED BY <1>2, <2>1, <2>2 DEF Managers
<1>4. /\ n.state = "reconnecting" /\ n.attemptNumber = attempt
      /\ n.reconnectTimer /\ n.awaited = w.m.awaited
      /\ n.otherTimers = IF w.m.reconnectTimer THEN w.m.otherTimers + 1 ELSE w.m.otherTimers
  BY <1>2 DEF Managers
<1>5. n.isReconnecting = w.m.isReconnecting
  BY <1>2, Zenon DEF Managers
<1> HIDE DEF n
<1> DEFINE v == [w EXCEPT !.m = n]
<1>6. /\ v \in World /\ v.m = n
      /\ v.c = w.c /\ v.tries = w.tries
  BY <1>3, WithManager
<1> HIDE DEF v
<1>7. FallenAsleep(v, w, attempt)
  BY <1>4, <1>5, <1>6 DEF FallenAsleep
<1> QED BY <1>1, <1>7 DEF v

LEMMA AsleepOK ==
    ASSUME NEW w, WellFormed(w), NEW attempt \in Nat
    PROVE  WellFormed(Asleep(w, attempt))
<1>1. w \in World /\ ConnectionOK(w.c) /\ w.m.awaited \subseteq w.c.pending
  BY DEF WellFormed
<1>2. /\ Asleep(w, attempt) \in World /\ Asleep(w, attempt).c = w.c
      /\ Asleep(w, attempt).m.awaited = w.m.awaited
  BY <1>1, AsleepEffect DEF FallenAsleep
<1> QED BY <1>1, <1>2 DEF WellFormed

LEMMA ThrownEffect ==
    ASSUME NEW w, WellFormed(w)
    PROVE  LET attempt == IF w.m.attemptNumber = 0 THEN 2 ELSE w.m.attemptNumber + 1
               again == IF w.m.attemptNumber = 0 THEN [w EXCEPT !.tries = @ + 1] ELSE w
           IN  /\ Thrown(w) = IF Exhausted(attempt) THEN GivenUp(again) ELSE Asleep(again, attempt)
               /\ attempt \in Nat /\ again \in World
               /\ again.c = w.c /\ again.m = w.m
               /\ again.tries = IF w.m.attemptNumber = 0 THEN w.tries + 1 ELSE w.tries
               /\ WellFormed(Thrown(w))
<1> DEFINE attempt == IF w.m.attemptNumber = 0 THEN 2 ELSE w.m.attemptNumber + 1
           again == IF w.m.attemptNumber = 0 THEN [w EXCEPT !.tries = @ + 1] ELSE w
<1>1. Thrown(w) = IF Exhausted(attempt) THEN GivenUp(again) ELSE Asleep(again, attempt)
  BY DEF Thrown
<1>2. w \in World /\ w.tries \in Nat /\ w.m.attemptNumber \in Nat
  BY WorldParts DEF WellFormed
<1>3. attempt \in Nat
  BY <1>2
<1>4. /\ again \in World /\ again.c = w.c /\ again.m = w.m
      /\ again.tries = IF w.m.attemptNumber = 0 THEN w.tries + 1 ELSE w.tries
  <2>1. w.tries + 1 \in Nat
    BY <1>2
  <2> QED BY <1>2, <2>1, WithTries
<1> HIDE DEF attempt, again
<1>5. WellFormed(Thrown(w))
  <2>1. again.m.awaited \subseteq again.c.pending /\ ConnectionOK(again.c)
    BY <1>4 DEF WellFormed
  <2>2. WellFormed(GivenUp(again))
    BY <1>4, <2>1, GivenUpEffect DEF WellFormed
  <2>3. WellFormed(Asleep(again, attempt))
    BY <1>3, <1>4, <2>1, AsleepOK DEF WellFormed
  <2> QED BY <1>1, <2>2, <2>3
<1> QED BY <1>1, <1>3, <1>4, <1>5 DEF attempt, again

(***************************************************************************)
(* The loop calls connect() once more.                                     *)
(***************************************************************************)
AwaitingCall(w) ==
    [w EXCEPT !.c = Connecting(@), !.m.awaited = @ \cup {FreeId(w.c)}]

LEMMA WaitingEffect ==
    ASSUME NEW w, WellFormed(w), Free(w.c) # {}
    PROVE  /\ WellFormed(AwaitingCall(w))
           /\ AwaitingCall(w).c = Connecting(w.c) /\ AwaitingCall(w).tries = w.tries
           /\ AwaitingCall(w).m.awaited = w.m.awaited \cup {FreeId(w.c)}
           /\ AwaitingCall(w).m.state = w.m.state
           /\ AwaitingCall(w).m.attemptNumber = w.m.attemptNumber
           /\ AwaitingCall(w).m.otherTimers = w.m.otherTimers
           /\ AwaitingCall(w).m.isReconnecting = w.m.isReconnecting
           /\ AwaitingCall(w).m.reconnectTimer = w.m.reconnectTimer
<1> DEFINE i == FreeId(w.c)
           c == Connecting(w.c)
           m == [w.m EXCEPT !.awaited = @ \cup {i}]
<1>1. /\ w \in World /\ w.m \in Managers /\ w.m.awaited \in SUBSET CallIds
      /\ w.m.awaited \subseteq w.c.pending
  BY WorldParts DEF WellFormed
<1>2. ConnectionOK(c) /\ c.pending = w.c.pending \cup {i} /\ i \in CallIds
  BY ConnectingOK, FreeIdIsFree DEF WellFormed
<1>3. c \in Connections
  BY <1>2 DEF ConnectionOK
<1>4. AwaitingCall(w) = [w EXCEPT !.c = c, !.m = m]
  BY DEF AwaitingCall
<1> HIDE DEF i, c
<1>5. /\ m \in Managers /\ m.awaited = w.m.awaited \cup {i}
      /\ m.state = w.m.state /\ m.attemptNumber = w.m.attemptNumber
      /\ m.otherTimers = w.m.otherTimers
  <2> DEFINE awaited == w.m.awaited \cup {i}
  <2>1. awaited \in SUBSET CallIds
    BY <1>1, <1>2
  <2>2. m = [w.m EXCEPT !.awaited = awaited]
    OBVIOUS
  <2> HIDE DEF awaited, m
  <2>3. m \in Managers
    BY <1>1, <2>1, <2>2 DEF Managers
  <2> QED BY <1>1, <2>2, <2>3 DEF Managers, awaited
<1>6. m.isReconnecting = w.m.isReconnecting /\ m.reconnectTimer = w.m.reconnectTimer
  BY <1>1, Zenon DEF Managers
<1> HIDE DEF m
<1>7. /\ AwaitingCall(w) \in World /\ AwaitingCall(w).c = c /\ AwaitingCall(w).m = m
      /\ AwaitingCall(w).tries = w.tries
  BY <1>1, <1>3, <1>4, <1>5 DEF World
<1>8. WellFormed(AwaitingCall(w))
  BY <1>1, <1>2, <1>5, <1>7 DEF WellFormed
<1> QED BY <1>5, <1>6, <1>7, <1>8 DEF i, c

Tried(w) == [w EXCEPT !.tries = @ + 1]

LEMMA TriedEffect ==
    ASSUME NEW w, WellFormed(w)
    PROVE  /\ WellFormed(Tried(w)) /\ Tried(w).c = w.c /\ Tried(w).m = w.m
           /\ Tried(w).tries = w.tries + 1
<1>1. w \in World /\ w.tries + 1 \in Nat
  BY WorldParts DEF WellFormed
<1> QED BY <1>1, WithTries DEF WellFormed, Tried

LEMMA TryIs ==
    ASSUME NEW w, WellFormed(w)
    PROVE  Try(w) = IF CanConnect(w.c) THEN AwaitingCall(Tried(w))
                    ELSE IF w.c.state = "connected" THEN Succeeded(Tried(w))
                    ELSE Thrown(Tried(w))
<1>1. Tried(w).c = w.c
  BY TriedEffect
<1>2. AwaitingCall(Tried(w)) = [Tried(w) EXCEPT !.c = Connecting(@), !.m.awaited = @ \cup {FreeId(w.c)}]
  BY <1>1 DEF AwaitingCall
<1> QED BY <1>2, Zenon DEF Try, Tried

LEMMA TryOK ==
    ASSUME NEW w, WellFormed(w), Free(w.c) # {}
    PROVE  WellFormed(Try(w))
<1>1. WellFormed(Tried(w)) /\ Tried(w).c = w.c /\ Tried(w) \in World
  BY TriedEffect DEF WellFormed
<1>2. WellFormed(AwaitingCall(Tried(w))) /\ WellFormed(Thrown(Tried(w)))
  BY <1>1, WaitingEffect, ThrownEffect
<1>3. WellFormed(Succeeded(Tried(w)))
  BY <1>1, SucceededEffect DEF WellFormed
<1> QED BY <1>2, <1>3, TryIs

(***************************************************************************)
(* The first attempt is made at once.                                      *)
(***************************************************************************)
FirstAttempt(w) == [w EXCEPT !.m.state = "reconnecting", !.m.attemptNumber = 1]

LEMMA FirstAttemptEffect ==
    ASSUME NEW w, WellFormed(w)
    PROVE  LET v == FirstAttempt(w)
           IN  /\ WellFormed(v) /\ v.c = w.c /\ v.tries = w.tries
               /\ v.m.state = "reconnecting" /\ v.m.attemptNumber = 1
               /\ v.m.awaited = w.m.awaited /\ v.m.otherTimers = w.m.otherTimers
               /\ v.m.isReconnecting = w.m.isReconnecting
               /\ v.m.reconnectTimer = w.m.reconnectTimer
<1> DEFINE n == [w.m EXCEPT !.state = "reconnecting", !.attemptNumber = 1]
<1>1. FirstAttempt(w) = [w EXCEPT !.m = n]
  BY DEF FirstAttempt
<1>2. w \in World /\ w.m \in Managers
  BY WorldParts DEF WellFormed
<1>3. /\ n \in Managers /\ n.state = "reconnecting" /\ n.attemptNumber = 1
      /\ n.awaited = w.m.awaited /\ n.otherTimers = w.m.otherTimers
  BY <1>2 DEF Managers
<1>4. n.isReconnecting = w.m.isReconnecting /\ n.reconnectTimer = w.m.reconnectTimer
  BY <1>2, Zenon DEF Managers
<1> HIDE DEF n
<1> QED BY <1>1, <1>2, <1>3, <1>4, WithManager DEF WellFormed

LEMMA LoopIs ==
    ASSUME NEW w
    PROVE  Loop(w) = IF ~w.m.isReconnecting THEN w
                     ELSE IF Exhausted(w.m.attemptNumber + 1) THEN GivenUp(w)
                     ELSE IF w.m.attemptNumber + 1 = 1 THEN Try(FirstAttempt(w))
                     ELSE Asleep(w, w.m.attemptNumber + 1)
BY Zenon DEF Loop, FirstAttempt

LEMMA LoopOK ==
    ASSUME NEW w, WellFormed(w), Free(w.c) # {}
    PROVE  WellFormed(Loop(w))
<1>1. w \in World /\ w.m.attemptNumber + 1 \in Nat
  BY WorldParts DEF WellFormed
<1>2. WellFormed(GivenUp(w))
  BY <1>1, GivenUpEffect DEF WellFormed
<1>3. WellFormed(Asleep(w, w.m.attemptNumber + 1))
  BY <1>1, AsleepOK
<1>4. WellFormed(Try(FirstAttempt(w)))
  <2>1. WellFormed(FirstAttempt(w)) /\ FirstAttempt(w).c = w.c
    BY FirstAttemptEffect
  <2> QED BY <2>1, TryOK
<1> QED BY <1>2, <1>3, <1>4, LoopIs

(***************************************************************************)
(* A loop is begun.                                                        *)
(***************************************************************************)
Begun(w) == [w EXCEPT !.m.isReconnecting = TRUE, !.m.attemptNumber = 0, !.tries = 0]

LEMMA BegunEffect ==
    ASSUME NEW w, WellFormed(w)
    PROVE  LET v == Begun(w)
           IN  /\ WellFormed(v) /\ v.c = w.c /\ v.tries = 0
               /\ v.m.state = w.m.state /\ v.m.attemptNumber = 0
               /\ v.m.awaited = w.m.awaited /\ v.m.otherTimers = w.m.otherTimers
               /\ v.m.isReconnecting
               /\ v.m.reconnectTimer = w.m.reconnectTimer
<1> DEFINE n == [w.m EXCEPT !.isReconnecting = TRUE, !.attemptNumber = 0]
<1>1. Begun(w) = [w EXCEPT !.m = n, !.tries = 0]
  BY DEF Begun
<1>2. w \in World /\ w.m \in Managers
  BY WorldParts DEF WellFormed
<1>3. /\ n \in Managers /\ n.state = w.m.state /\ n.attemptNumber = 0 /\ n.isReconnecting
      /\ n.awaited = w.m.awaited /\ n.otherTimers = w.m.otherTimers
  BY <1>2 DEF Managers
<1>4. n.reconnectTimer = w.m.reconnectTimer
  BY <1>2, Zenon DEF Managers
<1> HIDE DEF n
<1>5. Begun(w) \in World /\ Begun(w).c = w.c /\ Begun(w).m = n /\ Begun(w).tries = 0
  <2> DEFINE v == [w EXCEPT !.m = n]
  <2>1. v \in World /\ v.c = w.c /\ v.m = n
    BY <1>2, <1>3, WithManager
  <2>2. Begun(w) = [v EXCEPT !.tries = 0]
    BY <1>1, <1>2 DEF World
  <2> HIDE DEF v
  <2> QED BY <2>1, <2>2, WithTries
<1> QED BY <1>3, <1>4, <1>5 DEF WellFormed

LEMMA StartedIs ==
    ASSUME NEW w
    PROVE  Started(w) = IF w.m.isReconnecting THEN w ELSE Loop(Begun(w))
BY Zenon DEF Started, Begun

LEMMA StartedOK ==
    ASSUME NEW w, WellFormed(w), Free(w.c) # {}
    PROVE  WellFormed(Started(w))
<1>1. WellFormed(Begun(w)) /\ Begun(w).c = w.c
  BY BegunEffect
<1> QED BY <1>1, StartedIs, LoopOK

(***************************************************************************)
(* A loop no longer waits for a call.                                      *)
(***************************************************************************)
LEMMA NoLongerEffect ==
    ASSUME NEW w \in World, NEW k
    PROVE  LET v == NoLonger(w, k)
           IN  /\ v \in World /\ v.c = w.c /\ v.tries = w.tries
               /\ v.m.state = w.m.state /\ v.m.attemptNumber = w.m.attemptNumber
               /\ v.m.awaited = w.m.awaited \ {k} /\ v.m.otherTimers = w.m.otherTimers
               /\ v.m.isReconnecting = w.m.isReconnecting
               /\ v.m.reconnectTimer = w.m.reconnectTimer
<1> DEFINE awaited == w.m.awaited \ {k}
           n == [w.m EXCEPT !.awaited = awaited]
<1>1. NoLonger(w, k) = [w EXCEPT !.m = n]
  BY DEF NoLonger
<1>2. w.m \in Managers /\ awaited \in SUBSET CallIds
  BY WorldParts
<1> HIDE DEF awaited
<1>3. n \in Managers
  BY <1>2 DEF Managers
<1>4. /\ n.state = w.m.state /\ n.attemptNumber = w.m.attemptNumber
      /\ n.awaited = awaited /\ n.otherTimers = w.m.otherTimers
  BY <1>2 DEF Managers
<1>5. n.isReconnecting = w.m.isReconnecting /\ n.reconnectTimer = w.m.reconnectTimer
  BY <1>2, Zenon DEF Managers
<1> HIDE DEF n
<1> QED BY <1>1, <1>3, <1>4, <1>5, WithManager DEF awaited

-----------------------------------------------------------------------------
(***************************************************************************)
(* What the events of the sockets do to the connection: it stays           *)
(* well-formed, nothing is pending that was not, what was free stays free, *)
(* and it reports "connected" only with an open socket (Truthful).         *)
(***************************************************************************)
Truthful(c) == c.state = "connected" => \E k \in CallIds : c.phase[k] = "open"

Remade(c, state, current, phase, pending) ==
    [c EXCEPT !.state = state, !.current = current, !.phase = phase, !.pending = pending]

LEMMA Parts ==
    ASSUME NEW c \in Connections, NEW state \in ConnectionState, NEW current \in 0 .. MaxCalls,
           NEW phase \in [CallIds -> Phases], NEW pending \in SUBSET CallIds
    PROVE  /\ Remade(c, state, current, phase, pending) \in Connections
           /\ Remade(c, state, current, phase, pending).state = state
           /\ Remade(c, state, current, phase, pending).current = current
           /\ Remade(c, state, current, phase, pending).phase = phase
           /\ Remade(c, state, current, phase, pending).pending = pending
BY DEF Connections, Remade

LEMMA ConnectionParts ==
    ASSUME NEW c \in Connections
    PROVE  /\ c.state \in ConnectionState /\ c.current \in 0 .. MaxCalls
           /\ c.phase \in [CallIds -> Phases] /\ c.pending \in SUBSET CallIds
BY DEF Connections

LEMMA ClosedEffect ==
    ASSUME NEW c \in Connections, NEW k \in CallIds
    PROVE  LET v == Closed(c, k)
           IN  /\ v \in Connections /\ v.state = c.state /\ v.pending = c.pending
               /\ v.phase = [c.phase EXCEPT ![k] = "closed"]
<1> DEFINE phase == [c.phase EXCEPT ![k] = "closed"]
           current == IF c.current = k THEN 0 ELSE c.current
<1>1. /\ phase \in [CallIds -> Phases]
      /\ current \in 0 .. MaxCalls
  <2>1. 0 \in 0 .. MaxCalls
    BY MaxCallsAssumption
  <2> QED BY <2>1, ConnectionParts DEF Phases
<1>2. Closed(c, k) = [c EXCEPT !.phase = phase, !.current = current]
  BY DEF Closed
<1> HIDE DEF phase, current
<1>3. Closed(c, k) = Remade(c, c.state, current, phase, c.pending)
  BY <1>2 DEF Connections, Remade
<1>4. /\ c.state \in ConnectionState /\ c.current \in 0 .. MaxCalls
      /\ c.phase \in [CallIds -> Phases] /\ c.pending \in SUBSET CallIds
  BY ConnectionParts
<1> QED BY <1>1, <1>3, <1>4, Parts DEF phase

LEMMA SettledEffect ==
    ASSUME NEW c \in Connections, NEW k, NEW state \in ConnectionState
    PROVE  LET v == Settled(c, k, state)
           IN  /\ v \in Connections /\ v.state = state /\ v.pending = c.pending \ {k}
               /\ v.phase = c.phase
<1> DEFINE pending == c.pending \ {k}
<1>1. pending \in SUBSET CallIds
  BY ConnectionParts
<1>2. Settled(c, k, state) = [c EXCEPT !.pending = pending, !.state = state]
  BY DEF Settled
<1> HIDE DEF pending
<1>3. Settled(c, k, state) = Remade(c, state, c.current, c.phase, pending)
  BY <1>2 DEF Connections, Remade
<1>4. /\ c.state \in ConnectionState /\ c.current \in 0 .. MaxCalls
      /\ c.phase \in [CallIds -> Phases] /\ c.pending \in SUBSET CallIds
  BY ConnectionParts
<1> QED BY <1>1, <1>3, <1>4, Parts DEF pending

LEMMA BuiltOK ==
    ASSUME NEW c, ConnectionOK(c), Truthful(c), NEW k \in CallIds, c.phase[k] = "importing"
    PROVE  /\ ConnectionOK(Built(c, k)) /\ Truthful(Built(c, k))
           /\ Built(c, k).pending = c.pending
<1> DEFINE phase == [c.phase EXCEPT ![k] = "opening"]
<1>1. c \in Connections /\ c.phase \in [CallIds -> Phases]
  BY ConnectionParts DEF ConnectionOK
<1>2. phase \in [CallIds -> Phases] /\ k \in 0 .. MaxCalls
  BY <1>1 DEF Phases, CallIds
<1>3. Built(c, k) = [c EXCEPT !.phase = phase, !.current = k]
  BY DEF Built
<1> HIDE DEF phase
<1>4. Built(c, k) = Remade(c, c.state, k, phase, c.pending)
  BY <1>1, <1>3 DEF Connections, Remade
<1>5. /\ Built(c, k) \in Connections /\ Built(c, k).state = c.state
      /\ Built(c, k).phase = phase /\ Built(c, k).pending = c.pending
  BY <1>1, <1>2, <1>4, ConnectionParts, Parts
<1> QED BY <1>1, <1>5 DEF ConnectionOK, Truthful, phase

LEMMA OpenedOK ==
    ASSUME NEW c, ConnectionOK(c), Truthful(c), NEW k \in CallIds, c.phase[k] = "opening"
    PROVE  /\ ConnectionOK(Opened(c, k)) /\ Truthful(Opened(c, k))
           /\ Opened(c, k).pending = c.pending \ {k}
<1> DEFINE phase == [c.phase EXCEPT ![k] = "open"]
           open == [c EXCEPT !.phase[k] = "open"]
<1>1. c \in Connections /\ c.phase \in [CallIds -> Phases]
  BY ConnectionParts DEF ConnectionOK
<1>2. phase \in [CallIds -> Phases]
  BY <1>1 DEF Phases
<1>3. open = [c EXCEPT !.phase = phase]
  OBVIOUS
<1> HIDE DEF phase
<1>4. open = Remade(c, c.state, c.current, phase, c.pending)
  BY <1>1, <1>3 DEF Connections, Remade
<1>5. Opened(c, k) = IF k \in c.pending THEN Settled(open, k, "connected") ELSE open
  BY DEF Opened
<1> HIDE DEF open
<1>6. open \in Connections /\ open.state = c.state /\ open.phase = phase /\ open.pending = c.pending
  BY <1>1, <1>2, <1>4, ConnectionParts, Parts
<1>7. "connected" \in ConnectionState
  BY DEF ConnectionState
<1>8. /\ Opened(c, k) \in Connections /\ Opened(c, k).phase = phase
      /\ Opened(c, k).pending = c.pending \ {k}
  BY <1>5, <1>6, <1>7, SettledEffect
<1>9. /\ Opened(c, k).phase[k] = "open"
      /\ \A j \in CallIds \ {k} : Opened(c, k).phase[j] = c.phase[j]
  BY <1>1, <1>8 DEF phase
<1> QED BY <1>8, <1>9 DEF ConnectionOK, Truthful

LEMMA RefusedOK ==
    ASSUME NEW c, ConnectionOK(c), Truthful(c), NEW k \in CallIds,
           c.phase[k] \in {"importing", "opening"}
    PROVE  /\ ConnectionOK(Refused(c, k)) /\ Truthful(Refused(c, k))
           /\ Refused(c, k).pending = c.pending \ {k}
           /\ Free(c) \subseteq Free(Refused(c, k))
<1>1. c \in Connections /\ c.phase \in [CallIds -> Phases]
  BY ConnectionParts DEF ConnectionOK
<1> DEFINE d == Closed(c, k)
           v == Refused(c, k)
<1>2. /\ d \in Connections /\ d.state = c.state /\ d.pending = c.pending
      /\ d.phase = [c.phase EXCEPT ![k] = "closed"]
  BY <1>1, ClosedEffect
<1>3. v = IF k \in c.pending THEN Settled(d, k, "failed") ELSE d
  BY DEF Refused
<1> HIDE DEF d, v
<1>4. "failed" \in ConnectionState
  BY DEF ConnectionState
<1>5. /\ v \in Connections /\ v.phase = d.phase /\ v.pending = c.pending \ {k}
      /\ v.state \in {c.state, "failed"}
  BY <1>2, <1>3, <1>4, SettledEffect
<1>6. /\ v.phase[k] = "closed"
      /\ \A j \in CallIds \ {k} : v.phase[j] = c.phase[j]
  BY <1>1, <1>2, <1>5
<1>7. ConnectionOK(v) /\ Truthful(v)
  BY <1>5, <1>6 DEF ConnectionOK, Truthful
<1>8. Free(c) \subseteq Free(v)
  BY <1>5, <1>6 DEF Free
<1> QED BY <1>5, <1>7, <1>8 DEF v

LEMMA TimedOutOK ==
    ASSUME NEW c, ConnectionOK(c), NEW k \in CallIds, c.phase[k] # "importing"
    PROVE  /\ ConnectionOK(TimedOut(c, k)) /\ Truthful(TimedOut(c, k))
           /\ TimedOut(c, k).pending = c.pending \ {k}
           /\ Free(c) \subseteq Free(TimedOut(c, k))
<1> DEFINE v == TimedOut(c, k)
<1>1. c \in Connections /\ "failed" \in ConnectionState
  BY DEF ConnectionOK, ConnectionState
<1>2. /\ v \in Connections /\ v.state = "failed" /\ v.pending = c.pending \ {k}
      /\ v.phase = c.phase
  BY <1>1, SettledEffect DEF TimedOut
<1> HIDE DEF v
<1>3. ConnectionOK(v) /\ Truthful(v) /\ Free(c) \subseteq Free(v)
  BY <1>2 DEF ConnectionOK, Truthful, Free
<1> QED BY <1>2, <1>3 DEF v

LEMMA ClosedOK ==
    ASSUME NEW c, ConnectionOK(c), NEW k \in CallIds, c.phase[k] \in {"open", "closing"}
    PROVE  /\ ConnectionOK(Closed(c, k)) /\ ConnectionOK(Dropped(c, k))
           /\ Truthful(Dropped(c, k))
           /\ c.state = "disconnected" => Truthful(Closed(c, k))
           /\ Closed(c, k).pending = c.pending /\ Dropped(c, k).pending = c.pending
<1> DEFINE v == Closed(c, k)
           d == Dropped(c, k)
<1>1. c \in Connections /\ c.phase \in [CallIds -> Phases]
  BY ConnectionParts DEF ConnectionOK
<1>2. /\ v \in Connections /\ v.state = c.state /\ v.pending = c.pending
      /\ v.phase = [c.phase EXCEPT ![k] = "closed"]
  BY <1>1, ClosedEffect
<1>3. d = [v EXCEPT !.state = "disconnected"]
  BY DEF Dropped
<1> HIDE DEF v, d
<1>4. d = Remade(v, "disconnected", v.current, v.phase, v.pending)
  BY <1>2, <1>3 DEF Connections, Remade
<1>5. "disconnected" \in ConnectionState
  BY DEF ConnectionState
<1>6. /\ d \in Connections /\ d.state = "disconnected" /\ d.pending = v.pending
      /\ d.phase = v.phase
  BY <1>2, <1>4, <1>5, ConnectionParts, Parts
<1>7. ConnectionOK(v) /\ ConnectionOK(d)
  BY <1>1, <1>2, <1>6 DEF ConnectionOK
<1> QED BY <1>2, <1>6, <1>7 DEF Truthful, v, d

LEMMA DisconnectedOK ==
    ASSUME NEW c, ConnectionOK(c)
    PROVE  /\ ConnectionOK(Disconnected(c)) /\ Truthful(Disconnected(c))
           /\ Disconnected(c).pending = c.pending
<1> DEFINE phase == [k \in CallIds |-> IF k = c.current /\ c.phase[k] \in {"opening", "open"}
                                       THEN "closing" ELSE c.phase[k]]
           v == [c EXCEPT !.state = "disconnected", !.current = 0, !.phase = phase]
<1>1. c \in Connections /\ c.phase \in [CallIds -> Phases]
  BY ConnectionParts DEF ConnectionOK
<1>2. phase \in [CallIds -> Phases] /\ "disconnected" \in ConnectionState /\ 0 \in 0 .. MaxCalls
  BY <1>1, MaxCallsAssumption DEF Phases, ConnectionState
<1>3. Disconnected(c) = IF c.state = "disconnected" THEN c ELSE v
  BY DEF Disconnected
<1>4. \A k \in CallIds : phase[k] = "importing" => c.phase[k] = "importing"
  OBVIOUS
<1> HIDE DEF phase
<1>5. v = Remade(c, "disconnected", 0, phase, c.pending)
  BY <1>1 DEF Connections, Remade
<1>6. /\ v \in Connections /\ v.state = "disconnected" /\ v.pending = c.pending
      /\ v.phase = phase
  BY <1>1, <1>2, <1>5, ConnectionParts, Parts
<1> HIDE DEF v
<1> QED BY <1>3, <1>4, <1>6 DEF ConnectionOK, Truthful

-----------------------------------------------------------------------------
(***************************************************************************)
(* A loop leaves the connection alone or connects, so that it says nothing *)
(* untrue of it.                                                           *)
(***************************************************************************)
Sound(w) == WellFormed(w) /\ Truthful(w.c)

LEMMA ConnectingIsTruthful ==
    ASSUME NEW c, ConnectionOK(c), Free(c) # {}
    PROVE  Truthful(Connecting(c))
BY ConnectingOK DEF Truthful

LEMMA TrySound ==
    ASSUME NEW w, Sound(w), Free(w.c) # {}
    PROVE  Sound(Try(w))
<1>1. WellFormed(w) /\ Truthful(w.c) /\ ConnectionOK(w.c) /\ WellFormed(Try(w))
  BY TryOK DEF Sound, WellFormed
<1>2. WellFormed(Tried(w)) /\ Tried(w).c = w.c /\ Tried(w) \in World
  BY <1>1, TriedEffect DEF WellFormed
<1>3. AwaitingCall(Tried(w)).c = Connecting(w.c)
  BY <1>2, WaitingEffect
<1>4. Succeeded(Tried(w)).c = w.c
  BY <1>2, SucceededEffect
<1>5. Thrown(Tried(w)).c = w.c
  <2> DEFINE v == Tried(w)
             attempt == IF v.m.attemptNumber = 0 THEN 2 ELSE v.m.attemptNumber + 1
             again == IF v.m.attemptNumber = 0 THEN [v EXCEPT !.tries = @ + 1] ELSE v
  <2>1. /\ Thrown(v) = IF Exhausted(attempt) THEN GivenUp(again) ELSE Asleep(again, attempt)
        /\ attempt \in Nat /\ again \in World /\ again.c = v.c
    BY <1>2, ThrownEffect
  <2> HIDE DEF attempt, again, v
  <2>2. Thrown(v).c = v.c
    BY <2>1, GivenUpEffect, AsleepEffect DEF FallenAsleep
  <2> QED BY <1>2, <2>2 DEF v
<1>6. Try(w).c \in {w.c, Connecting(w.c)}
  BY <1>1, <1>3, <1>4, <1>5, TryIs
<1>7. Truthful(Connecting(w.c))
  BY <1>1, ConnectingIsTruthful
<1> QED BY <1>1, <1>6, <1>7 DEF Sound

LEMMA LoopSound ==
    ASSUME NEW w, Sound(w), Free(w.c) # {}
    PROVE  Sound(Loop(w))
<1>1. WellFormed(w) /\ Truthful(w.c) /\ w \in World /\ WellFormed(Loop(w))
  BY LoopOK DEF Sound, WellFormed
<1>2. w.m.attemptNumber + 1 \in Nat
  BY <1>1, WorldParts
<1>3. GivenUp(w).c = w.c /\ Asleep(w, w.m.attemptNumber + 1).c = w.c
  BY <1>1, <1>2, GivenUpEffect, AsleepEffect DEF FallenAsleep
<1>4. Sound(Try(FirstAttempt(w)))
  <2>1. WellFormed(FirstAttempt(w)) /\ FirstAttempt(w).c = w.c
    BY <1>1, FirstAttemptEffect
  <2> QED BY <1>1, <2>1, TrySound DEF Sound
<1>5. Loop(w).c = w.c \/ Loop(w) = Try(FirstAttempt(w))
  BY <1>3, LoopIs
<1> QED BY <1>1, <1>4, <1>5 DEF Sound

LEMMA StartedSound ==
    ASSUME NEW w, Sound(w), Free(w.c) # {}
    PROVE  Sound(Started(w))
<1>1. WellFormed(Begun(w)) /\ Begun(w).c = w.c
  BY BegunEffect DEF Sound
<1>2. Sound(Loop(Begun(w)))
  BY <1>1, LoopSound DEF Sound
<1> QED BY <1>2, StartedIs

(***************************************************************************)
(* A manager whose timers, flags or counters change is one that waits for  *)
(* the same calls.                                                         *)
(***************************************************************************)
LEMMA ManagerMoved ==
    ASSUME NEW w, Sound(w), NEW m \in Managers, m.awaited \subseteq w.m.awaited
    PROVE  LET v == [w EXCEPT !.m = m]
           IN  Sound(v) /\ v.c = w.c /\ v.m = m /\ v.tries = w.tries
<1>1. w \in World
  BY DEF Sound, WellFormed
<1> DEFINE v == [w EXCEPT !.m = m]
<1>2. v \in World /\ v.c = w.c /\ v.m = m /\ v.tries = w.tries
  BY <1>1, WithManager
<1> HIDE DEF v
<1>3. Sound(v)
  BY <1>1, <1>2 DEF Sound, WellFormed
<1> QED BY <1>2, <1>3 DEF v

LEMMA ConnectionMoved ==
    ASSUME NEW w, Sound(w), NEW c, ConnectionOK(c), Truthful(c),
           w.m.awaited \subseteq c.pending
    PROVE  LET v == [w EXCEPT !.c = c]
           IN  Sound(v) /\ v.c = c /\ v.m = w.m /\ v.tries = w.tries
<1>1. w \in World /\ c \in Connections
  BY DEF Sound, WellFormed, ConnectionOK
<1> DEFINE v == [w EXCEPT !.c = c]
<1>2. v \in World /\ v.c = c /\ v.m = w.m /\ v.tries = w.tries
  BY <1>1, WithConnection
<1> HIDE DEF v
<1>3. Sound(v)
  BY <1>2 DEF Sound, WellFormed
<1> QED BY <1>2, <1>3 DEF v

(***************************************************************************)
(* A call of connect() is settled: what the connection is then is sound    *)
(* once the loop that waits for the call, if any, no longer does.          *)
(***************************************************************************)
LEMMA SettledSound ==
    ASSUME NEW w, Sound(w), NEW k \in CallIds, NEW c, ConnectionOK(c), Truthful(c),
           c.pending = w.c.pending \ {k}
    PROVE  LET v == [w EXCEPT !.c = c]
           IN  /\ v \in World /\ v.c = c /\ v.m = w.m /\ v.tries = w.tries
               /\ k \notin w.m.awaited => Sound(v)
               /\ Sound(NoLonger(v, k)) /\ NoLonger(v, k).c = c
<1>1. w \in World /\ c \in Connections /\ w.m.awaited \subseteq w.c.pending
  BY DEF Sound, WellFormed, ConnectionOK
<1> DEFINE v == [w EXCEPT !.c = c]
<1>2. v \in World /\ v.c = c /\ v.m = w.m /\ v.tries = w.tries
  BY <1>1, WithConnection
<1> HIDE DEF v
<1>3. k \notin w.m.awaited => Sound(v)
  BY <1>1, <1>2 DEF Sound, WellFormed
<1>4. /\ NoLonger(v, k) \in World /\ NoLonger(v, k).c = c
      /\ NoLonger(v, k).m.awaited = w.m.awaited \ {k}
  BY <1>2, NoLongerEffect
<1>5. Sound(NoLonger(v, k))
  BY <1>1, <1>4 DEF Sound, WellFormed
<1> QED BY <1>2, <1>3, <1>4, <1>5 DEF v

LEMMA LostSound ==
    ASSUME NEW w, Sound(w)
    PROVE  /\ Sound(Lost(w)) /\ Lost(w).c = w.c /\ Lost(w).tries = w.tries
           /\ Lost(w).m.attemptNumber = w.m.attemptNumber
           /\ Lost(w).m.awaited = w.m.awaited /\ Lost(w).m.otherTimers = w.m.otherTimers
           /\ Lost(w).m.isReconnecting = w.m.isReconnecting
           /\ Lost(w).m.reconnectTimer = w.m.reconnectTimer
           /\ Lost(w).m.state \in {w.m.state, "disconnected"}
<1> DEFINE starts == IF w.m.isReconnecting THEN w.m.starts ELSE w.m.starts + 1
           n == [w.m EXCEPT !.state = "disconnected", !.starts = starts]
<1>1. Lost(w) = IF w.m.isManualDisconnect \/ ~AutoReconnect THEN w ELSE [w EXCEPT !.m = n]
  BY DEF Lost
<1>2. w.m \in Managers
  BY WorldParts DEF Sound, WellFormed
<1>3. starts \in Nat
  BY <1>2 DEF Managers
<1> HIDE DEF starts
<1>4. /\ n \in Managers /\ n.state = "disconnected"
      /\ n.attemptNumber = w.m.attemptNumber
      /\ n.awaited = w.m.awaited /\ n.otherTimers = w.m.otherTimers
  BY <1>2, <1>3 DEF Managers
<1>5. n.isReconnecting = w.m.isReconnecting /\ n.reconnectTimer = w.m.reconnectTimer
  BY <1>2, Zenon DEF Managers
<1> HIDE DEF n
<1>6. /\ Sound([w EXCEPT !.m = n]) /\ [w EXCEPT !.m = n].c = w.c
      /\ [w EXCEPT !.m = n].m = n /\ [w EXCEPT !.m = n].tries = w.tries
  BY <1>4, ManagerMoved
<1> QED BY <1>1, <1>4, <1>5, <1>6

-----------------------------------------------------------------------------
(***************************************************************************)
(* The invariant: the variables are well-typed, and the connection reports *)
(* "connected" only with an open socket.  Every task keeps it, because     *)
(* what it makes of a sound state is sound.                                *)
(***************************************************************************)
RInv == RTypeOK /\ ConnectedIsOpen

LEMMA InvIsSound ==
    ASSUME RInv
    PROVE  /\ Sound(Now) /\ Now.c = connection /\ Now.m = manager /\ Now.tries = tries
           /\ connection \in Connections /\ manager \in Managers
           /\ ConnectionOK(connection) /\ Truthful(connection)
BY DEF RInv, RTypeOK, ConnectedIsOpen, Sound, WellFormed, World, Now, ConnectionOK, Truthful

LEMMA SoundRun ==
    ASSUME NEW v, Sound(v), Run(v), wanted' \in BOOLEAN,
           losses' \in 0 .. MaxLosses, userEvents' \in 0 .. MaxUserEvents
    PROVE  RInv'
<1>1. v.c \in Connections /\ v.m \in Managers /\ v.tries \in Nat
  BY WorldParts DEF Sound, WellFormed
<1> QED
  BY <1>1 DEF Run, Sound, WellFormed, ConnectionOK, Truthful, RInv, RTypeOK, ConnectedIsOpen

LEMMA SoundTask ==
    ASSUME RInv, NEW v, Sound(v), Task(v)
    PROVE  RInv'
<1>1. /\ Run(v) /\ wanted' \in BOOLEAN
      /\ losses' \in 0 .. MaxLosses /\ userEvents' \in 0 .. MaxUserEvents
  BY DEF Task, RInv, RTypeOK
<1> QED BY <1>1, SoundRun

LEMMA BuildKeeps ==
    ASSUME RInv, NEW k \in CallIds, Build(k)
    PROVE  RInv'
<1>1. ConnectionOK(Built(connection, k)) /\ Truthful(Built(connection, k))
      /\ Built(connection, k).pending = connection.pending
  BY InvIsSound, BuiltOK DEF Build
<1>2. Now.m.awaited \subseteq connection.pending
  BY InvIsSound DEF Sound, WellFormed
<1>3. Sound([Now EXCEPT !.c = Built(connection, k)])
  BY <1>1, <1>2, InvIsSound, ConnectionMoved
<1>4. Task([Now EXCEPT !.c = Built(connection, k)])
  BY DEF Build, Now
<1> QED BY <1>3, <1>4, SoundTask

LEMMA OpenKeeps ==
    ASSUME RInv, NEW k \in CallIds, Open(k)
    PROVE  RInv'
<1> DEFINE c == Opened(connection, k)
           v == [Now EXCEPT !.c = c]
<1>1. ConnectionOK(c) /\ Truthful(c) /\ c.pending = connection.pending \ {k}
  BY InvIsSound, OpenedOK DEF Open
<1>2. Task(Awoken(v, k, Succeeded(NoLonger(v, k))))
  BY InvIsSound DEF Open
<1> HIDE DEF c
<1>3. /\ v.m = manager
      /\ k \notin manager.awaited => Sound(v)
      /\ Sound(NoLonger(v, k)) /\ NoLonger(v, k).c = c
  BY <1>1, InvIsSound, SettledSound
<1> HIDE DEF v
<1>4. Sound(Succeeded(NoLonger(v, k)))
  BY <1>3, SucceededEffect DEF Sound, WellFormed
<1>5. Sound(Awoken(v, k, Succeeded(NoLonger(v, k))))
  BY <1>3, <1>4 DEF Awoken
<1> QED BY <1>2, <1>5, SoundTask

(***************************************************************************)
(* The loop goes round again when its call is refused or has timed out.    *)
(***************************************************************************)
LEMMA AgainKeeps ==
    ASSUME RInv, NEW k \in CallIds, NEW c, ConnectionOK(c), Truthful(c),
           c.pending = connection.pending \ {k},
           Free(connection) \subseteq Free(c), RoomToConnect,
           Task(Awoken([Now EXCEPT !.c = c], k, Loop(NoLonger([Now EXCEPT !.c = c], k))))
    PROVE  RInv'
<1> DEFINE v == [Now EXCEPT !.c = c]
<1>1. /\ v.m = manager
      /\ k \notin manager.awaited => Sound(v)
      /\ Sound(NoLonger(v, k)) /\ NoLonger(v, k).c = c
  BY InvIsSound, SettledSound
<1> HIDE DEF v
<1>2. Sound(Loop(NoLonger(v, k)))
  BY <1>1, LoopSound DEF RoomToConnect
<1>3. Sound(Awoken(v, k, Loop(NoLonger(v, k))))
  BY <1>1, <1>2 DEF Awoken
<1> QED BY <1>3, SoundTask DEF v

LEMMA RefuseKeeps ==
    ASSUME RInv, NEW k \in CallIds, Refuse(k)
    PROVE  RInv'
<1> DEFINE c == Refused(connection, k)
<1>1. /\ ConnectionOK(c) /\ Truthful(c) /\ c.pending = connection.pending \ {k}
      /\ Free(connection) \subseteq Free(c)
  BY InvIsSound, RefusedOK DEF Refuse
<1>2. RoomToConnect /\ Task(Awoken([Now EXCEPT !.c = c], k, Loop(NoLonger([Now EXCEPT !.c = c], k))))
  BY InvIsSound DEF Refuse
<1> HIDE DEF c
<1> QED BY <1>1, <1>2, AgainKeeps

LEMMA TimeOutKeeps ==
    ASSUME RInv, NEW k \in CallIds, TimeOut(k)
    PROVE  RInv'
<1> DEFINE c == TimedOut(connection, k)
<1>1. /\ ConnectionOK(c) /\ Truthful(c) /\ c.pending = connection.pending \ {k}
      /\ Free(connection) \subseteq Free(c)
  BY InvIsSound, TimedOutOK DEF TimeOut
<1>2. RoomToConnect /\ Task(Awoken([Now EXCEPT !.c = c], k, Loop(NoLonger([Now EXCEPT !.c = c], k))))
  BY InvIsSound DEF TimeOut
<1> HIDE DEF c
<1> QED BY <1>1, <1>2, AgainKeeps

LEMMA OnDisconnectKeeps ==
    ASSUME RInv, NEW k \in CallIds, connection.phase[k] \in {"open", "closing"},
           OnDisconnect(k), wanted' \in BOOLEAN,
           losses' \in 0 .. MaxLosses, userEvents' \in 0 .. MaxUserEvents
    PROVE  RInv'
<1> DEFINE d == Dropped(connection, k)
           c == Closed(connection, k)
<1>1. /\ ConnectionOK(c) /\ ConnectionOK(d) /\ Truthful(d)
      /\ connection.state = "disconnected" => Truthful(c)
      /\ c.pending = connection.pending /\ d.pending = connection.pending
  BY InvIsSound, ClosedOK
<1>2. Run(IF connection.state = "disconnected" THEN [Now EXCEPT !.c = c]
                                               ELSE Lost([Now EXCEPT !.c = d]))
  BY InvIsSound, Zenon DEF OnDisconnect
<1>3. Now.m.awaited \subseteq connection.pending
  BY InvIsSound DEF Sound, WellFormed
<1> HIDE DEF c, d
<1>4. CASE connection.state = "disconnected"
  <2>1. Sound([Now EXCEPT !.c = c])
    BY <1>1, <1>3, <1>4, InvIsSound, ConnectionMoved
  <2> QED BY <1>2, <1>4, <2>1, SoundRun
<1>5. CASE connection.state # "disconnected"
  <2>1. Sound([Now EXCEPT !.c = d])
    BY <1>1, <1>3, InvIsSound, ConnectionMoved
  <2>2. Sound(Lost([Now EXCEPT !.c = d]))
    BY <2>1, LostSound
  <2> QED BY <1>2, <1>5, <2>2, SoundRun
<1> QED BY <1>4, <1>5

LEMMA LoseKeeps ==
    ASSUME RInv, NEW k \in CallIds, Lose(k)
    PROVE  RInv'
<1>1. losses + 1 \in 0 .. MaxLosses
  BY ReconnectionBoundsAssumption DEF Lose, RInv, RTypeOK
<1> QED BY <1>1, OnDisconnectKeeps DEF Lose, RInv, RTypeOK

LEMMA CloseKeeps ==
    ASSUME RInv, NEW k \in CallIds, Close(k)
    PROVE  RInv'
BY OnDisconnectKeeps DEF Close, RInv, RTypeOK

LEMMA AttemptTimeoutKeeps ==
    ASSUME RInv, NEW k \in CallIds, AttemptTimeout(k)
    PROVE  RInv'
<1>1. Sound(NoLonger(Now, k)) /\ NoLonger(Now, k).c = connection
  BY InvIsSound, NoLongerEffect DEF Sound, WellFormed
<1>2. Sound(Loop(NoLonger(Now, k)))
  BY <1>1, LoopSound DEF AttemptTimeout, RoomToConnect
<1> QED BY <1>2, SoundTask DEF AttemptTimeout

(***************************************************************************)
(* The manager's timers.                                                   *)
(***************************************************************************)
StartDue == [Now EXCEPT !.m = [manager EXCEPT !.starts = @ - 1]]
TimerFired == [Now EXCEPT !.m = [manager EXCEPT !.reconnectTimer = FALSE]]
OtherFired == [Now EXCEPT !.m = [manager EXCEPT !.otherTimers = @ - 1]]

LEMMA StartDueEffect ==
    ASSUME RInv, manager.starts > 0
    PROVE  /\ Sound(StartDue) /\ StartDue.c = connection /\ StartDue.tries = tries
           /\ StartDue.m.state = manager.state
           /\ StartDue.m.attemptNumber = manager.attemptNumber
           /\ StartDue.m.awaited = manager.awaited
           /\ StartDue.m.otherTimers = manager.otherTimers
           /\ StartDue.m.isReconnecting = manager.isReconnecting
           /\ StartDue.m.reconnectTimer = manager.reconnectTimer
<1> DEFINE starts == manager.starts - 1
           n == [manager EXCEPT !.starts = starts]
<1>1. manager \in Managers /\ starts \in Nat
  BY InvIsSound DEF Managers
<1> HIDE DEF starts
<1>2. /\ n \in Managers /\ n.state = manager.state /\ n.attemptNumber = manager.attemptNumber
      /\ n.awaited = manager.awaited /\ n.otherTimers = manager.otherTimers
  BY <1>1 DEF Managers
<1>3. n.isReconnecting = manager.isReconnecting /\ n.reconnectTimer = manager.reconnectTimer
  BY <1>1, Zenon DEF Managers
<1>4. StartDue = [Now EXCEPT !.m = n]
  BY DEF StartDue, starts
<1> HIDE DEF n
<1> QED BY <1>2, <1>3, <1>4, InvIsSound, ManagerMoved

LEMMA TimerFiredEffect ==
    ASSUME RInv
    PROVE  /\ Sound(TimerFired) /\ TimerFired.c = connection /\ TimerFired.tries = tries
           /\ TimerFired.m.state = manager.state
           /\ TimerFired.m.attemptNumber = manager.attemptNumber
           /\ TimerFired.m.awaited = manager.awaited
           /\ TimerFired.m.otherTimers = manager.otherTimers
           /\ TimerFired.m.isReconnecting = manager.isReconnecting
           /\ ~TimerFired.m.reconnectTimer
<1> DEFINE n == [manager EXCEPT !.reconnectTimer = FALSE]
<1>1. manager \in Managers
  BY InvIsSound
<1>2. /\ n \in Managers /\ n.state = manager.state /\ n.attemptNumber = manager.attemptNumber
      /\ n.awaited = manager.awaited /\ n.otherTimers = manager.otherTimers
      /\ ~n.reconnectTimer
  BY <1>1 DEF Managers
<1>3. n.isReconnecting = manager.isReconnecting
  BY <1>1, Zenon DEF Managers
<1>4. TimerFired = [Now EXCEPT !.m = n]
  BY DEF TimerFired
<1> HIDE DEF n
<1> QED BY <1>2, <1>3, <1>4, InvIsSound, ManagerMoved

LEMMA StartTimerKeeps ==
    ASSUME RInv, StartTimer
    PROVE  RInv'
<1>1. Sound(StartDue) /\ StartDue.c = connection
  BY StartDueEffect DEF StartTimer
<1>2. Sound(Started(StartDue))
  BY <1>1, StartedSound DEF StartTimer, RoomToConnect
<1>3. Task(Started(StartDue))
  BY DEF StartTimer, StartDue, Now
<1> QED BY <1>2, <1>3, SoundTask

LEMMA WakeUpSound ==
    ASSUME NEW w, Sound(w), w.c = connection, RoomToConnect
    PROVE  Sound(WakeUp(w))
BY TrySound DEF WakeUp, RoomToConnect

LEMMA ReconnectTimerKeeps ==
    ASSUME RInv, ReconnectTimer
    PROVE  RInv'
<1>1. Sound(WakeUp(TimerFired))
  BY TimerFiredEffect, WakeUpSound DEF ReconnectTimer
<1>2. Task(WakeUp(TimerFired))
  BY DEF ReconnectTimer, TimerFired, Now
<1> QED BY <1>1, <1>2, SoundTask

LEMMA OtherTimerKeeps ==
    ASSUME RInv, OtherTimer
    PROVE  RInv'
<1> DEFINE others == manager.otherTimers - 1
           n == [manager EXCEPT !.otherTimers = others]
<1>1. manager \in Managers /\ others \in Nat
  BY InvIsSound DEF Managers, OtherTimer
<1> HIDE DEF others
<1>2. n \in Managers /\ n.awaited = manager.awaited
  BY <1>1 DEF Managers
<1>3. OtherFired = [Now EXCEPT !.m = n]
  BY DEF OtherFired, others
<1> HIDE DEF n
<1>4. Sound(OtherFired) /\ OtherFired.c = connection
  BY <1>2, <1>3, InvIsSound, ManagerMoved
<1>5. Sound(WakeUp(OtherFired))
  BY <1>4, WakeUpSound DEF OtherTimer
<1>6. Task(WakeUp(OtherFired))
  BY DEF OtherTimer, OtherFired, Now
<1> QED BY <1>5, <1>6, SoundTask

(***************************************************************************)
(* The calls of the program.                                               *)
(***************************************************************************)
LEMMA StoppedEffect ==
    ASSUME NEW m \in Managers
    PROVE  Stopped(m) \in Managers /\ Stopped(m).awaited = m.awaited
BY DEF Managers, Stopped

LEMMA CalledCounts ==
    ASSUME RInv, NEW event, Calls(event)
    PROVE  losses' \in 0 .. MaxLosses /\ userEvents' \in 0 .. MaxUserEvents
<1>1. userEvents + 1 \in 0 .. MaxUserEvents
  BY ReconnectionBoundsAssumption DEF Calls, RInv, RTypeOK
<1> QED BY <1>1 DEF Calls, RInv, RTypeOK

LEMMA UserConnectKeeps ==
    ASSUME RInv, UserConnect
    PROVE  RInv'
<1> DEFINE c == Connecting(connection)
<1>1. ConnectionOK(c) /\ Truthful(c) /\ connection.pending \subseteq c.pending
  BY InvIsSound, ConnectingOK, ConnectingIsTruthful DEF UserConnect, RoomToConnect
<1>2. Run([Now EXCEPT !.c = c]) /\ wanted' \in BOOLEAN
  BY DEF UserConnect, Now
<1> HIDE DEF c
<1>3. Now.m.awaited \subseteq c.pending
  BY <1>1, InvIsSound DEF Sound, WellFormed
<1>4. Sound([Now EXCEPT !.c = c])
  BY <1>1, <1>3, InvIsSound, ConnectionMoved
<1> QED BY <1>2, <1>4, SoundRun, CalledCounts DEF UserConnect

LEMMA UserDisconnectKeeps ==
    ASSUME RInv, UserDisconnect
    PROVE  RInv'
<1> DEFINE m == [Stopped(manager) EXCEPT !.isManualDisconnect = TRUE]
           c == Disconnected(connection)
           v == [Now EXCEPT !.m = m]
<1>1. Run([v EXCEPT !.c = c]) /\ wanted' \in BOOLEAN
  BY DEF UserDisconnect, Now
<1>2. m \in Managers /\ m.awaited = manager.awaited
  <2>1. Stopped(manager) \in Managers /\ Stopped(manager).awaited = manager.awaited
    BY InvIsSound, StoppedEffect
  <2> QED BY <2>1 DEF Managers
<1>3. ConnectionOK(c) /\ Truthful(c) /\ c.pending = connection.pending
  BY InvIsSound, DisconnectedOK
<1> HIDE DEF m, c
<1>4. Sound(v) /\ v.m = m /\ v.c = connection
  BY <1>2, InvIsSound, ManagerMoved
<1> HIDE DEF v
<1>5. v.m.awaited \subseteq c.pending
  BY <1>3, <1>4 DEF Sound, WellFormed
<1>6. Sound([v EXCEPT !.c = c])
  BY <1>3, <1>4, <1>5, ConnectionMoved
<1> QED BY <1>1, <1>6, SoundRun, CalledCounts DEF UserDisconnect

LEMMA CancelReconnectionKeeps ==
    ASSUME RInv, CancelReconnection
    PROVE  RInv'
<1>1. Stopped(manager) \in Managers /\ Stopped(manager).awaited = manager.awaited
  BY InvIsSound, StoppedEffect
<1>2. Sound([Now EXCEPT !.m = Stopped(manager)])
  BY <1>1, InvIsSound, ManagerMoved
<1>3. Run([Now EXCEPT !.m = Stopped(manager)]) /\ wanted' \in BOOLEAN
  BY DEF CancelReconnection, Now, RInv, RTypeOK
<1> QED BY <1>2, <1>3, SoundRun, CalledCounts DEF CancelReconnection

LEMMA RetryConnectionKeeps ==
    ASSUME RInv, RetryConnection
    PROVE  RInv'
<1> DEFINE m == [manager EXCEPT !.isManualDisconnect = FALSE, !.attemptNumber = 0]
           v == [Now EXCEPT !.m = m]
           w == [v EXCEPT !.tries = 0]
<1>1. Run(Started(w)) /\ wanted' \in BOOLEAN
  BY DEF RetryConnection, Now
<1>2. m \in Managers /\ m.awaited = manager.awaited
  BY InvIsSound DEF Managers
<1> HIDE DEF m
<1>3. Sound(v) /\ v.c = connection
  BY <1>2, InvIsSound, ManagerMoved
<1> HIDE DEF v
<1>4. w \in World /\ w.c = v.c /\ w.m = v.m
  BY <1>3, WithTries DEF Sound, WellFormed
<1> HIDE DEF w
<1>5. Sound(w)
  BY <1>3, <1>4 DEF Sound, WellFormed
<1>6. Sound(Started(w))
  BY <1>3, <1>4, <1>5, StartedSound DEF RetryConnection, RoomToConnect
<1> QED BY <1>1, <1>6, SoundRun, CalledCounts DEF RetryConnection

-----------------------------------------------------------------------------
LEMMA InvAtFirst ==
    ASSUME RInit
    PROVE  RInv
<1>1. 1 \in CallIds /\ 0 \in 0 .. MaxCalls /\ 0 \in 0 .. MaxLosses /\ 0 \in 0 .. MaxUserEvents
  BY MaxCallsAssumption, ReconnectionBoundsAssumption DEF CallIds
<1> DEFINE phase == [[k \in CallIds |-> "closed"] EXCEPT ![1] = "importing"]
<1>2. connection = [state |-> "connecting", current |-> 0, phase |-> phase, pending |-> {1}]
  BY DEF RInit, FirstConnect, NeverConnected
<1>3. phase \in [CallIds -> Phases] /\ \A k \in CallIds : phase[k] = "importing" => k = 1
  BY <1>1 DEF Phases
<1> HIDE DEF phase
<1>4. connection \in Connections
  BY <1>1, <1>2, <1>3 DEF Connections, ConnectionState
<1>5. manager \in Managers
  BY DEF RInit, Managers
<1>6. manager.awaited = {} /\ connection.state # "connected" /\ connection.phase = phase
      /\ connection.pending = {1}
  BY <1>2 DEF RInit
<1> QED BY <1>1, <1>3, <1>4, <1>5, <1>6 DEF RInv, RTypeOK, ConnectedIsOpen, RInit

LEMMA InvStep ==
    ASSUME RInv, [RNext]_reconnectionVars
    PROVE  RInv'
<1>1. CASE UNCHANGED reconnectionVars
  BY <1>1 DEF reconnectionVars, RInv, RTypeOK, ConnectedIsOpen
<1>2. ASSUME NEW k \in CallIds,
             \/ Build(k) \/ Open(k) \/ Refuse(k) \/ TimeOut(k)
             \/ Lose(k) \/ Close(k) \/ AttemptTimeout(k)
      PROVE  RInv'
  BY <1>2, BuildKeeps, OpenKeeps, RefuseKeeps, TimeOutKeeps, LoseKeeps, CloseKeeps,
     AttemptTimeoutKeeps
<1>3. CASE StartTimer \/ ReconnectTimer \/ OtherTimer
  BY <1>3, StartTimerKeeps, ReconnectTimerKeeps, OtherTimerKeeps
<1>4. CASE UserConnect \/ UserDisconnect \/ CancelReconnection \/ RetryConnection
  BY <1>4, UserConnectKeeps, UserDisconnectKeeps, CancelReconnectionKeeps, RetryConnectionKeeps
<1> QED BY <1>1, <1>2, <1>3, <1>4 DEF RNext

(***************************************************************************)
(* The variables keep their types, a loop waits only for calls that are    *)
(* pending, and a call that loads its bindings is pending.                 *)
(***************************************************************************)
THEOREM ReconnectionTypeCorrect == RSpec => []RTypeOK
<1>1. RInit => RInv
  BY InvAtFirst
<1>2. RInv /\ [RNext]_reconnectionVars => RInv'
  BY InvStep
<1>3. RInv => RTypeOK
  BY DEF RInv
<1> QED BY <1>1, <1>2, <1>3, PTL DEF RSpec

(***************************************************************************)
(* Whatever late sockets, late timers and the program do, the connection   *)
(* reports "connected" only while one of its sockets is open (setState).   *)
(***************************************************************************)
THEOREM ConnectedHasOpenSocket == RSpec => []ConnectedIsOpen
<1>1. RInit => RInv
  BY InvAtFirst
<1>2. RInv /\ [RNext]_reconnectionVars => RInv'
  BY InvStep
<1>3. RInv => ConnectedIsOpen
  BY DEF RInv
<1> QED BY <1>1, <1>2, <1>3, PTL DEF RSpec

-----------------------------------------------------------------------------
(***************************************************************************)
(* While the program does nothing, one loop runs as long as isReconnecting *)
(* is set: it sleeps on reconnectTimer or waits for one call of connect(). *)
(* attemptNumber numbers the attempt that is being made or slept for, so   *)
(* that it counts the calls of connect() of this reconnection.             *)
(***************************************************************************)
Single(w) ==
    /\ w.m.otherTimers = 0
    /\ w.m.isReconnecting =>
         \/ w.m.reconnectTimer /\ w.m.awaited = {}
         \/ ~w.m.reconnectTimer /\ \E k \in CallIds : w.m.awaited = {k}
    /\ ~w.m.isReconnecting => ~w.m.reconnectTimer /\ w.m.awaited = {}

Counted(w) ==
    /\ w.tries <= MaxAttempts
    /\ w.m.state = "failed" => w.tries = MaxAttempts /\ ~w.m.isReconnecting
    /\ w.m.isReconnecting =>
         /\ w.m.attemptNumber \in 1 .. MaxAttempts
         /\ w.tries = IF w.m.reconnectTimer THEN w.m.attemptNumber - 1 ELSE w.m.attemptNumber

Tidy(w) == Single(w) /\ (MaxAttempts > 0 => Counted(w))

\* the loop is being run: it neither sleeps nor waits
Executing(w) ==
    /\ w.m.otherTimers = 0
    /\ w.m.isReconnecting /\ ~w.m.reconnectTimer /\ w.m.awaited = {}

LEMMA GivenUpIsTidy ==
    ASSUME NEW w \in World, Executing(w), MaxAttempts > 0, w.tries = MaxAttempts
    PROVE  Tidy(GivenUp(w))
<1>1. /\ GivenUp(w).tries = w.tries
      /\ ~GivenUp(w).m.isReconnecting /\ ~GivenUp(w).m.reconnectTimer
      /\ GivenUp(w).m.awaited = {} /\ GivenUp(w).m.otherTimers = 0
  BY GivenUpEffect DEF Executing
<1> QED BY <1>1, OptionsAssumption DEF Tidy, Single, Counted

LEMMA SucceededIsTidy ==
    ASSUME NEW w \in World, Executing(w), MaxAttempts > 0 => w.tries <= MaxAttempts
    PROVE  Tidy(Succeeded(w))
<1>1. /\ Succeeded(w).tries = w.tries /\ Succeeded(w).m.state = "connected"
      /\ ~Succeeded(w).m.isReconnecting /\ ~Succeeded(w).m.reconnectTimer
      /\ Succeeded(w).m.awaited = {} /\ Succeeded(w).m.otherTimers = 0
  BY SucceededEffect DEF Executing
<1> QED BY <1>1 DEF Tidy, Single, Counted

LEMMA AsleepIsTidy ==
    ASSUME NEW w \in World, Executing(w), NEW attempt \in Nat, attempt > 0,
           ~Exhausted(attempt), MaxAttempts > 0 => w.tries = attempt - 1
    PROVE  Tidy(Asleep(w, attempt))
<1> DEFINE v == Asleep(w, attempt)
<1>1. FallenAsleep(v, w, attempt)
  BY AsleepEffect
<1> HIDE DEF v
<1>2. /\ v.tries = w.tries /\ v.m.state = "reconnecting" /\ v.m.attemptNumber = attempt
      /\ v.m.reconnectTimer /\ v.m.isReconnecting = w.m.isReconnecting
  BY <1>1 DEF FallenAsleep
<1>3. v.m.isReconnecting
  BY <1>2, Zenon DEF Executing
<1>4. v.m.awaited = {} /\ v.m.otherTimers = 0
  BY <1>1 DEF Executing, FallenAsleep
<1>5. Single(v)
  BY <1>2, <1>3, <1>4 DEF Single
<1>6. MaxAttempts > 0 => Counted(v)
  BY <1>2, <1>3, OptionsAssumption DEF Counted, Exhausted
<1> QED BY <1>5, <1>6 DEF Tidy, v

(***************************************************************************)
(* The loop calls connect() for the attempt that attemptNumber numbers.    *)
(***************************************************************************)
LEMMA TryIsTidy ==
    ASSUME NEW w, WellFormed(w), Executing(w), Free(w.c) # {},
           MaxAttempts > 0 => w.m.attemptNumber \in 1 .. MaxAttempts /\ w.tries = w.m.attemptNumber - 1,
           MaxAttempts > 0 => w.m.state # "failed"
    PROVE  Tidy(Try(w))
<1> DEFINE u == Tried(w)
<1>1. /\ WellFormed(u) /\ u.c = w.c /\ u.m = w.m /\ u.tries = w.tries + 1
      /\ Try(w) = IF CanConnect(w.c) THEN AwaitingCall(u)
                  ELSE IF w.c.state = "connected" THEN Succeeded(u) ELSE Thrown(u)
  BY TriedEffect, TryIs
<1> HIDE DEF u
<1>2. /\ u \in World /\ Executing(u) /\ u.m.attemptNumber \in Nat /\ w.tries \in Nat
      /\ w.m.attemptNumber \in Nat
  BY <1>1, WorldParts DEF WellFormed, Executing
<1>3. MaxAttempts > 0 => /\ u.m.attemptNumber \in 1 .. MaxAttempts
                         /\ u.tries = u.m.attemptNumber /\ u.m.state # "failed"
  BY <1>1, <1>2, OptionsAssumption
<1>4. Tidy(AwaitingCall(u))
  <2> DEFINE v == AwaitingCall(u)
  <2>1. /\ v.tries = u.tries /\ v.m.awaited = u.m.awaited \cup {FreeId(u.c)}
        /\ v.m.state = u.m.state /\ v.m.attemptNumber = u.m.attemptNumber
        /\ v.m.otherTimers = u.m.otherTimers
    BY <1>1, WaitingEffect
  <2>2. v.m.isReconnecting = u.m.isReconnecting /\ v.m.reconnectTimer = u.m.reconnectTimer
    BY <1>1, WaitingEffect, Zenon
  <2> HIDE DEF v
  <2>3. v.m.isReconnecting /\ ~v.m.reconnectTimer
    BY <1>2, <2>2, Zenon DEF Executing
  <2>4. FreeId(u.c) \in CallIds /\ v.m.awaited = {FreeId(u.c)} /\ v.m.otherTimers = 0
    BY <1>1, <1>2, <2>1, FreeIdIsFree DEF Executing
  <2>5. Single(v)
    BY <2>3, <2>4 DEF Single
  <2>6. MaxAttempts > 0 => Counted(v)
    BY <1>2, <1>3, <2>1, <2>3, OptionsAssumption DEF Counted
  <2> QED BY <2>5, <2>6 DEF Tidy, v
<1>5. Tidy(Succeeded(u))
  <2>1. MaxAttempts > 0 => u.tries <= MaxAttempts
    BY <1>3, OptionsAssumption
  <2> QED BY <1>2, <2>1, SucceededIsTidy
<1>6. Tidy(Thrown(u))
  <2> DEFINE attempt == IF u.m.attemptNumber = 0 THEN 2 ELSE u.m.attemptNumber + 1
             again == IF u.m.attemptNumber = 0 THEN [u EXCEPT !.tries = @ + 1] ELSE u
  <2>1. /\ Thrown(u) = IF Exhausted(attempt) THEN GivenUp(again) ELSE Asleep(again, attempt)
        /\ attempt \in Nat /\ again \in World /\ again.m = u.m
        /\ again.tries = IF u.m.attemptNumber = 0 THEN u.tries + 1 ELSE u.tries
    BY <1>1, ThrownEffect
  <2>2. attempt > 0 /\ (u.m.attemptNumber # 0 => attempt = u.m.attemptNumber + 1)
    BY <1>2
  <2> HIDE DEF attempt, again
  <2>3. Executing(again)
    BY <1>2, <2>1 DEF Executing
  <2>4. MaxAttempts > 0 => again.tries = attempt - 1 /\ attempt - 1 <= MaxAttempts
    BY <1>2, <1>3, <2>1, <2>2, OptionsAssumption
  <2>5. CASE Exhausted(attempt)
    <3>1. MaxAttempts > 0 /\ again.tries = MaxAttempts
      BY <2>1, <2>4, <2>5, OptionsAssumption DEF Exhausted
    <3> QED BY <2>1, <2>3, <2>5, <3>1, GivenUpIsTidy
  <2>6. CASE ~Exhausted(attempt)
    BY <2>1, <2>2, <2>3, <2>4, <2>6, AsleepIsTidy
  <2> QED BY <2>5, <2>6
<1> QED BY <1>1, <1>4, <1>5, <1>6

(***************************************************************************)
(* The loop at its head, after attemptNumber attempts.                     *)
(***************************************************************************)
LEMMA LoopIsTidy ==
    ASSUME NEW w, WellFormed(w), Executing(w), Free(w.c) # {},
           MaxAttempts > 0 => w.m.attemptNumber <= MaxAttempts /\ w.tries = w.m.attemptNumber
    PROVE  Tidy(Loop(w))
<1> DEFINE attempt == w.m.attemptNumber + 1
<1>1. Loop(w) = IF Exhausted(attempt) THEN GivenUp(w)
                ELSE IF attempt = 1 THEN Try(FirstAttempt(w)) ELSE Asleep(w, attempt)
  BY LoopIs DEF Executing
<1>2. w \in World /\ w.m.attemptNumber \in Nat /\ attempt \in Nat /\ attempt > 0 /\ w.tries \in Nat
  BY WorldParts DEF WellFormed
<1>3. CASE Exhausted(attempt)
  <2>1. MaxAttempts > 0 /\ w.tries = MaxAttempts
    BY <1>2, <1>3, OptionsAssumption DEF Exhausted
  <2> QED BY <1>1, <1>2, <1>3, <2>1, GivenUpIsTidy
<1>4. CASE ~Exhausted(attempt) /\ attempt = 1
  <2> DEFINE v == FirstAttempt(w)
  <2>1. /\ WellFormed(v) /\ v.c = w.c /\ v.tries = w.tries
        /\ v.m.state = "reconnecting" /\ v.m.attemptNumber = 1
        /\ v.m.awaited = w.m.awaited /\ v.m.otherTimers = w.m.otherTimers
    BY FirstAttemptEffect
  <2>2. v.m.isReconnecting = w.m.isReconnecting /\ v.m.reconnectTimer = w.m.reconnectTimer
    BY FirstAttemptEffect, Zenon
  <2> HIDE DEF v
  <2>3. v.m.isReconnecting /\ ~v.m.reconnectTimer
    BY <2>2, Zenon DEF Executing
  <2>4. Executing(v)
    BY <2>1, <2>3 DEF Executing
  <2>5. MaxAttempts > 0 => /\ v.m.attemptNumber \in 1 .. MaxAttempts
                           /\ v.tries = v.m.attemptNumber - 1 /\ v.m.state # "failed"
    BY <1>2, <1>4, <2>1, OptionsAssumption
  <2>6. Tidy(Try(v))
    BY <2>1, <2>4, <2>5, TryIsTidy
  <2> QED BY <1>1, <1>4, <2>6 DEF v
<1>5. CASE ~Exhausted(attempt) /\ attempt # 1
  <2>1. MaxAttempts > 0 => w.tries = attempt - 1
    BY <1>2
  <2> QED BY <1>1, <1>2, <1>5, <2>1, AsleepIsTidy
<1> QED BY <1>3, <1>4, <1>5

LEMMA StartedIsTidy ==
    ASSUME NEW w, WellFormed(w), Tidy(w), Free(w.c) # {}
    PROVE  Tidy(Started(w))
<1>1. CASE w.m.isReconnecting
  BY <1>1, StartedIs
<1>2. CASE ~w.m.isReconnecting
  <2> DEFINE v == Begun(w)
  <2>1. /\ WellFormed(v) /\ v.c = w.c /\ v.tries = 0 /\ v.m.attemptNumber = 0
        /\ v.m.awaited = w.m.awaited /\ v.m.otherTimers = w.m.otherTimers
        /\ v.m.isReconnecting
    BY BegunEffect
  <2>2. v.m.reconnectTimer = w.m.reconnectTimer
    BY BegunEffect, Zenon
  <2> HIDE DEF v
  <2>3. ~v.m.reconnectTimer
    BY <1>2, <2>2, Zenon DEF Tidy, Single
  <2>4. Executing(v)
    BY <1>2, <2>1, <2>3 DEF Executing, Tidy, Single
  <2>5. MaxAttempts > 0 => v.m.attemptNumber <= MaxAttempts /\ v.tries = v.m.attemptNumber
    BY <2>1, OptionsAssumption
  <2>6. Tidy(Loop(v))
    BY <2>1, <2>4, <2>5, LoopIsTidy
  <2> QED BY <1>2, <2>6, StartedIs DEF v
<1> QED BY <1>1, <1>2

(***************************************************************************)
(* Every task of an unattended client keeps it so.                         *)
(***************************************************************************)
UInv == RInv /\ Tidy(Now)

LEMMA TidyRun ==
    ASSUME NEW v, Tidy(v), Run(v)
    PROVE  Tidy(Now)'
BY DEF Run, Now, Tidy, Single, Counted

LEMMA SameIsTidy ==
    ASSUME UInv, NEW v, v.m = manager, v.tries = tries
    PROVE  Tidy(v)
BY DEF UInv, Now, Tidy, Single, Counted

LEMMA TypedManager ==
    ASSUME RInv
    PROVE  manager.attemptNumber \in Nat /\ manager.otherTimers \in Nat /\ tries \in Nat
BY DEF RInv, RTypeOK, Managers

LEMMA BuildIsTidy ==
    ASSUME UInv, NEW k \in CallIds, Build(k)
    PROVE  Tidy(Now)'
<1>1. ConnectionOK(Built(connection, k)) /\ Truthful(Built(connection, k))
      /\ Built(connection, k).pending = connection.pending
  BY InvIsSound, BuiltOK DEF Build, UInv
<1>2. Now.m.awaited \subseteq connection.pending
  BY InvIsSound DEF Sound, WellFormed, UInv
<1> DEFINE v == [Now EXCEPT !.c = Built(connection, k)]
<1>3. v.m = manager /\ v.tries = tries
  BY <1>1, <1>2, InvIsSound, ConnectionMoved DEF UInv
<1>4. Run(v)
  BY DEF Build, Task, Now
<1> HIDE DEF v
<1> QED BY <1>3, <1>4, SameIsTidy, TidyRun

(***************************************************************************)
(* When the call that the loop waits for is over, the loop runs.           *)
(***************************************************************************)
LEMMA AwokenRuns ==
    ASSUME UInv, NEW k \in CallIds, k \in manager.awaited,
           NEW v \in World, v.m = manager, v.tries = tries
    PROVE  /\ Executing(NoLonger(v, k)) /\ NoLonger(v, k).tries = tries
           /\ NoLonger(v, k).m.attemptNumber = manager.attemptNumber
           /\ MaxAttempts > 0 => manager.attemptNumber <= MaxAttempts /\ tries = manager.attemptNumber
<1> DEFINE u == NoLonger(v, k)
<1>1. /\ u.tries = tries /\ u.m.attemptNumber = manager.attemptNumber
      /\ u.m.awaited = manager.awaited \ {k} /\ u.m.otherTimers = manager.otherTimers
  BY NoLongerEffect
<1>2. u.m.isReconnecting = manager.isReconnecting /\ u.m.reconnectTimer = manager.reconnectTimer
  BY NoLongerEffect, Zenon
<1> HIDE DEF u
<1>3. Single(Now) /\ (MaxAttempts > 0 => Counted(Now)) /\ Now.m = manager /\ Now.tries = tries
  BY DEF UInv, Tidy, Now
<1>4. manager.isReconnecting /\ ~manager.reconnectTimer /\ manager.awaited = {k}
      /\ manager.otherTimers = 0
  BY <1>3 DEF Single
<1>5. u.m.isReconnecting /\ ~u.m.reconnectTimer
  BY <1>2, <1>4, Zenon
<1>6. Executing(u)
  BY <1>1, <1>4, <1>5 DEF Executing
<1>7. MaxAttempts > 0 => manager.attemptNumber <= MaxAttempts /\ tries = manager.attemptNumber
  BY <1>3, <1>4, TypedManager, OptionsAssumption DEF Counted, UInv
<1> QED BY <1>1, <1>6, <1>7 DEF u

LEMMA OpenIsTidy ==
    ASSUME UInv, NEW k \in CallIds, Open(k)
    PROVE  Tidy(Now)'
<1> DEFINE c == Opened(connection, k)
           v == [Now EXCEPT !.c = c]
<1>1. ConnectionOK(c) /\ Truthful(c) /\ c.pending = connection.pending \ {k}
  BY InvIsSound, OpenedOK DEF Open, UInv
<1>2. Run(Awoken(v, k, Succeeded(NoLonger(v, k))))
  BY InvIsSound DEF Open, Task, UInv
<1> HIDE DEF c
<1>3. /\ v \in World /\ v.m = manager /\ v.tries = tries
      /\ Sound(NoLonger(v, k))
  BY <1>1, InvIsSound, SettledSound DEF UInv
<1> HIDE DEF v
<1>4. CASE k \in manager.awaited
  <2>1. /\ Executing(NoLonger(v, k)) /\ NoLonger(v, k) \in World
        /\ MaxAttempts > 0 => NoLonger(v, k).tries <= MaxAttempts
    BY <1>3, <1>4, AwokenRuns, TypedManager DEF UInv, Sound, WellFormed
  <2>2. Tidy(Succeeded(NoLonger(v, k)))
    BY <2>1, SucceededIsTidy
  <2> QED BY <1>2, <1>3, <1>4, <2>2, TidyRun DEF Awoken
<1>5. CASE k \notin manager.awaited
  BY <1>2, <1>3, <1>5, SameIsTidy, TidyRun DEF Awoken
<1> QED BY <1>4, <1>5

LEMMA AgainIsTidy ==
    ASSUME UInv, NEW k \in CallIds, NEW c, ConnectionOK(c), Truthful(c),
           c.pending = connection.pending \ {k},
           Free(connection) \subseteq Free(c), RoomToConnect,
           Run(Awoken([Now EXCEPT !.c = c], k, Loop(NoLonger([Now EXCEPT !.c = c], k))))
    PROVE  Tidy(Now)'
<1> DEFINE v == [Now EXCEPT !.c = c]
<1>1. /\ v \in World /\ v.m = manager /\ v.tries = tries
      /\ Sound(NoLonger(v, k)) /\ NoLonger(v, k).c = c
  BY InvIsSound, SettledSound DEF UInv
<1> HIDE DEF v
<1>2. CASE k \in manager.awaited
  <2> DEFINE u == NoLonger(v, k)
  <2>1. /\ Executing(u) /\ WellFormed(u) /\ Free(u.c) # {}
        /\ MaxAttempts > 0 => u.m.attemptNumber <= MaxAttempts /\ u.tries = u.m.attemptNumber
    BY <1>1, <1>2, AwokenRuns DEF Sound, RoomToConnect
  <2> HIDE DEF u
  <2>2. Tidy(Loop(u))
    BY <2>1, LoopIsTidy
  <2> QED BY <1>1, <1>2, <2>2, TidyRun DEF Awoken, u, v
<1>3. CASE k \notin manager.awaited
  BY <1>1, <1>3, SameIsTidy, TidyRun DEF Awoken, v
<1> QED BY <1>2, <1>3

LEMMA RefuseIsTidy ==
    ASSUME UInv, NEW k \in CallIds, Refuse(k)
    PROVE  Tidy(Now)'
<1> DEFINE c == Refused(connection, k)
<1>1. /\ ConnectionOK(c) /\ Truthful(c) /\ c.pending = connection.pending \ {k}
      /\ Free(connection) \subseteq Free(c)
  BY InvIsSound, RefusedOK DEF Refuse, UInv
<1>2. RoomToConnect /\ Run(Awoken([Now EXCEPT !.c = c], k, Loop(NoLonger([Now EXCEPT !.c = c], k))))
  BY InvIsSound DEF Refuse, Task, UInv
<1> HIDE DEF c
<1> QED BY <1>1, <1>2, AgainIsTidy

LEMMA TimeOutIsTidy ==
    ASSUME UInv, NEW k \in CallIds, TimeOut(k)
    PROVE  Tidy(Now)'
<1> DEFINE c == TimedOut(connection, k)
<1>1. /\ ConnectionOK(c) /\ Truthful(c) /\ c.pending = connection.pending \ {k}
      /\ Free(connection) \subseteq Free(c)
  BY InvIsSound, TimedOutOK DEF TimeOut, UInv
<1>2. RoomToConnect /\ Run(Awoken([Now EXCEPT !.c = c], k, Loop(NoLonger([Now EXCEPT !.c = c], k))))
  BY InvIsSound DEF TimeOut, Task, UInv
<1> HIDE DEF c
<1> QED BY <1>1, <1>2, AgainIsTidy

LEMMA LostIsTidy ==
    ASSUME NEW w, Sound(w), Tidy(w)
    PROVE  Tidy(Lost(w))
<1> DEFINE v == Lost(w)
<1>1. /\ v.tries = w.tries /\ v.m.attemptNumber = w.m.attemptNumber
      /\ v.m.awaited = w.m.awaited /\ v.m.otherTimers = w.m.otherTimers
      /\ v.m.state \in {w.m.state, "disconnected"}
  BY LostSound
<1>2. v.m.isReconnecting = w.m.isReconnecting /\ v.m.reconnectTimer = w.m.reconnectTimer
  BY LostSound, Zenon
<1> HIDE DEF v
<1>3. Single(v)
  BY <1>1, <1>2 DEF Tidy, Single
<1>4. MaxAttempts > 0 => Counted(v)
  BY <1>1, <1>2 DEF Tidy, Counted
<1> QED BY <1>3, <1>4 DEF Tidy, v

LEMMA LoseIsTidy ==
    ASSUME UInv, NEW k \in CallIds, Lose(k)
    PROVE  Tidy(Now)'
<1> DEFINE d == Dropped(connection, k)
           c == Closed(connection, k)
<1>1. /\ ConnectionOK(d) /\ ConnectionOK(c) /\ Truthful(d)
      /\ connection.state = "disconnected" => Truthful(c)
      /\ c.pending = connection.pending /\ d.pending = connection.pending
  BY InvIsSound, ClosedOK DEF Lose, UInv
<1>2. Run(IF connection.state = "disconnected" THEN [Now EXCEPT !.c = c]
                                               ELSE Lost([Now EXCEPT !.c = d]))
  BY InvIsSound, Zenon DEF Lose, OnDisconnect, UInv
<1>3. Now.m.awaited \subseteq connection.pending
  BY InvIsSound DEF Sound, WellFormed, UInv
<1> HIDE DEF c, d
<1>4. CASE connection.state = "disconnected"
  <2>1. [Now EXCEPT !.c = c].m = manager /\ [Now EXCEPT !.c = c].tries = tries
    BY <1>1, <1>3, <1>4, InvIsSound, ConnectionMoved DEF UInv
  <2> QED BY <1>2, <1>4, <2>1, SameIsTidy, TidyRun
<1>5. CASE connection.state # "disconnected"
  <2> DEFINE v == [Now EXCEPT !.c = d]
  <2>1. Sound(v) /\ v.m = manager /\ v.tries = tries
    BY <1>1, <1>3, InvIsSound, ConnectionMoved DEF UInv
  <2> HIDE DEF v
  <2>2. Tidy(Lost(v))
    BY <2>1, SameIsTidy, LostIsTidy
  <2> QED BY <1>2, <1>5, <2>2, TidyRun DEF v
<1> QED BY <1>4, <1>5

LEMMA AttemptTimeoutIsTidy ==
    ASSUME UInv, NEW k \in CallIds, AttemptTimeout(k)
    PROVE  Tidy(Now)'
<1> DEFINE u == NoLonger(Now, k)
<1>1. Sound(u) /\ u.c = connection
  BY InvIsSound, NoLongerEffect DEF Sound, WellFormed, UInv
<1>2. /\ Executing(u)
      /\ MaxAttempts > 0 => u.m.attemptNumber <= MaxAttempts /\ u.tries = u.m.attemptNumber
  BY InvIsSound, AwokenRuns DEF AttemptTimeout, UInv, Sound, WellFormed
<1>3. Run(Loop(u)) /\ Free(u.c) # {}
  BY <1>1 DEF AttemptTimeout, Task, RoomToConnect
<1> HIDE DEF u
<1>4. Tidy(Loop(u))
  BY <1>1, <1>2, <1>3, LoopIsTidy DEF Sound
<1> QED BY <1>3, <1>4, TidyRun

LEMMA StartTimerIsTidy ==
    ASSUME UInv, StartTimer
    PROVE  Tidy(Now)'
<1> DEFINE v == StartDue
<1>1. /\ Sound(v) /\ v.c = connection /\ v.tries = tries /\ v.m.state = manager.state
      /\ v.m.attemptNumber = manager.attemptNumber
      /\ v.m.awaited = manager.awaited /\ v.m.otherTimers = manager.otherTimers
  BY StartDueEffect DEF StartTimer, UInv
<1>2. /\ v.m.isReconnecting = manager.isReconnecting
      /\ v.m.reconnectTimer = manager.reconnectTimer
  BY StartDueEffect, Zenon DEF StartTimer, UInv
<1>3. Run(Started(v)) /\ Free(v.c) # {}
  BY <1>1 DEF StartTimer, StartDue, Now, Task, RoomToConnect
<1> HIDE DEF v
<1>4. Tidy(Now) /\ Now.m = manager /\ Now.tries = tries
  BY DEF UInv, Now
<1>5. Single(v)
  BY <1>1, <1>2, <1>4 DEF Tidy, Single
<1>6. MaxAttempts > 0 => Counted(v)
  BY <1>1, <1>2, <1>4 DEF Tidy, Counted
<1>7. Tidy(Started(v))
  BY <1>1, <1>3, <1>5, <1>6, StartedIsTidy DEF Sound, Tidy
<1> QED BY <1>3, <1>7, TidyRun

LEMMA ReconnectTimerIsTidy ==
    ASSUME UInv, ReconnectTimer
    PROVE  Tidy(Now)'
<1> DEFINE v == TimerFired
<1>1. /\ Sound(v) /\ v.c = connection /\ v.tries = tries /\ v.m.state = manager.state
      /\ v.m.attemptNumber = manager.attemptNumber
      /\ v.m.awaited = manager.awaited /\ v.m.otherTimers = manager.otherTimers
      /\ ~v.m.reconnectTimer
  BY TimerFiredEffect DEF UInv
<1>2. v.m.isReconnecting = manager.isReconnecting
  BY TimerFiredEffect, Zenon DEF UInv
<1>3. Run(WakeUp(v)) /\ Free(v.c) # {}
  BY <1>1 DEF ReconnectTimer, TimerFired, Now, Task, RoomToConnect
<1> HIDE DEF v
<1>4. Single(Now) /\ (MaxAttempts > 0 => Counted(Now)) /\ Now.m = manager /\ Now.tries = tries
  BY DEF UInv, Tidy, Now
<1>5. manager.isReconnecting /\ manager.awaited = {} /\ manager.otherTimers = 0
  BY <1>4 DEF Single, ReconnectTimer
<1>6. v.m.isReconnecting
  BY <1>2, <1>5, Zenon
<1>7. Executing(v)
  BY <1>1, <1>5, <1>6 DEF Executing
<1>8. MaxAttempts > 0 => /\ v.m.attemptNumber \in 1 .. MaxAttempts
                         /\ v.tries = v.m.attemptNumber - 1 /\ v.m.state # "failed"
  BY <1>1, <1>4, <1>5 DEF Counted, ReconnectTimer
<1>9. Tidy(Try(v))
  BY <1>1, <1>3, <1>7, <1>8, TryIsTidy DEF Sound
<1> QED BY <1>3, <1>6, <1>9, TidyRun DEF WakeUp

-----------------------------------------------------------------------------
LEMMA UnattendedAtFirst ==
    ASSUME RInit
    PROVE  UInv
<1>1. Tidy(Now)
  BY OptionsAssumption DEF RInit, Now, Tidy, Single, Counted
<1> QED BY <1>1, InvAtFirst DEF UInv

LEMMA UnattendedStep ==
    ASSUME UInv, [UnattendedNext]_reconnectionVars
    PROVE  UInv'
<1>1. RInv'
  BY InvStep DEF UnattendedNext, RNext, UInv
<1>2. UNCHANGED reconnectionVars => Tidy(Now)'
  BY DEF reconnectionVars, UInv, Now, Tidy, Single, Counted
<1>3. ASSUME NEW k \in CallIds,
             \/ Build(k) \/ Open(k) \/ Refuse(k) \/ TimeOut(k) \/ Lose(k) \/ AttemptTimeout(k)
      PROVE  Tidy(Now)'
  BY <1>3, BuildIsTidy, OpenIsTidy, RefuseIsTidy, TimeOutIsTidy, LoseIsTidy, AttemptTimeoutIsTidy
<1>4. StartTimer \/ ReconnectTimer => Tidy(Now)'
  BY StartTimerIsTidy, ReconnectTimerIsTidy
<1>5. Tidy(Now)'
  BY <1>2, <1>3, <1>4 DEF UnattendedNext, UInv
<1> QED BY <1>1, <1>5 DEF UInv

(***************************************************************************)
(* Of an unattended client exactly one reconnection loop runs while        *)
(* isReconnecting is set, and none otherwise: neither a second loss, nor a *)
(* call that times out twice over, nor a late socket starts another one    *)
(* (startReconnection, reconnect).                                         *)
(***************************************************************************)
THEOREM OneLoopRuns == RFairSpec => []OneLoop
<1>1. RInit => UInv
  BY UnattendedAtFirst
<1>2. UInv /\ [UnattendedNext]_reconnectionVars => UInv'
  BY UnattendedStep
<1>3. UInv => OneLoop
  <2> SUFFICES ASSUME UInv PROVE OneLoop
    OBVIOUS
  <2>1. Single(Now) /\ Now.m = manager
    BY DEF UInv, Tidy, Now
  <2>2. Cardinality({}) = 0 /\ \A k : Cardinality({k}) = 1
    BY FS_EmptySet, FS_Singleton
  <2>3. manager.otherTimers = 0
    BY <2>1 DEF Single
  <2>4. CASE ~manager.isReconnecting
    BY <2>1, <2>2, <2>3, <2>4 DEF Single, OneLoop, Loops
  <2>5. CASE manager.isReconnecting
    <3>1. CASE manager.reconnectTimer
      BY <2>1, <2>2, <2>3, <2>5, <3>1 DEF Single, OneLoop, Loops
    <3>2. CASE ~manager.reconnectTimer
      <4>1. PICK k \in CallIds : manager.awaited = {k}
        BY <2>1, <2>5, <3>2 DEF Single
      <4>2. Cardinality(manager.awaited) = 1
        BY <2>2, <4>1
      <4> QED BY <2>3, <2>5, <3>2, <4>2 DEF OneLoop, Loops
    <3> QED BY <3>1, <3>2
  <2> QED BY <2>4, <2>5
<1> QED BY <1>1, <1>2, <1>3, PTL DEF RFairSpec

(***************************************************************************)
(* An unattended client calls connect() at most maxReconnectAttempts times *)
(* in one reconnection, and gives up only after so many calls (reconnect). *)
(***************************************************************************)
THEOREM AttemptsAreLimited == RFairSpec => []AttemptLimit
<1>1. RInit => UInv
  BY UnattendedAtFirst
<1>2. UInv /\ [UnattendedNext]_reconnectionVars => UInv'
  BY UnattendedStep
<1>3. UInv => AttemptLimit
  BY DEF UInv, Tidy, Counted, Now, AttemptLimit
<1> QED BY <1>1, <1>2, <1>3, PTL DEF RFairSpec

(***************************************************************************)
(* Of the whole client as well, whatever else it is doing.                 *)
(***************************************************************************)
THEOREM ClientIsTruthful == Spec => []ConnectedIsOpen
<1>1. Init => RInv
  BY InvAtFirst DEF Init
<1>2. RInv /\ [Next]_clientVars => RInv'
  <2> SUFFICES ASSUME RInv, [Next]_clientVars PROVE RInv'
    OBVIOUS
  <2>1. [RNext]_reconnectionVars
    BY DEF Next, ConnectionScene, TablesScene, LoaderScene, LatencyScene, clientVars
  <2> QED BY <2>1, InvStep
<1>3. RInv => ConnectedIsOpen
  BY DEF RInv
<1> QED BY <1>1, <1>2, <1>3, PTL DEF Spec

-----------------------------------------------------------------------------
(***************************************************************************)
(* The parts of the client's data that most tasks leave alone.             *)
(***************************************************************************)
SameTables(e, d) ==
    /\ e.db = d.db /\ e.opened = d.opened /\ e.rows = d.rows /\ e.listening = d.listening
    /\ e.snapshots = d.snapshots /\ e.tables = d.tables /\ e.evicted = d.evicted
    /\ e.disturbed = d.disturbed

SameLoader(e, d) ==
    /\ e.state = d.state /\ e.cache = d.cache /\ e.failedTables = d.failedTables
    /\ e.cleared = d.cleared /\ e.loads = d.loads

SamePending(e, d) == e.pendingUpdates = d.pendingUpdates /\ e.updateTimer = d.updateTimer

LEMMA SubscribedFields ==
    ASSUME NEW d \in DataRecords, NEW t \in StaticTables, d.db # 0
    PROVE  LET e == Subscribed(d, t)
           IN  /\ e \in DataRecords
               /\ SameLoader(e, d) /\ SamePending(e, d)
               /\ e.db = d.db /\ e.opened = d.opened /\ e.rows = d.rows
               /\ e.tables = d.tables /\ e.evicted = d.evicted /\ e.disturbed = d.disturbed
               /\ e.listening = [d.listening EXCEPT ![d.db] = @ \cup {t}]
               /\ e.snapshots = IF t \in d.listening[d.db] THEN d.snapshots
                                ELSE Append(d.snapshots, <<d.db, t>>)
<1> DEFINE subs == d.subscriptions \cup {d.nextSubscriptionId}
           next == d.nextSubscriptionId + 1
           listening == [d.listening EXCEPT ![d.db] = @ \cup {t}]
           snapshots == IF t \in d.listening[d.db] THEN d.snapshots
                        ELSE Append(d.snapshots, <<d.db, t>>)
<1>1. /\ d.db \in Sessions /\ d.snapshots \in Seq(Sessions \X StaticTables)
      /\ d.listening \in [Sessions -> SUBSET StaticTables]
      /\ d.subscriptions \in SUBSET Nat /\ d.nextSubscriptionId \in Nat
  BY DataBoundsAssumption DEF DataRecords, Sessions
<1>2. subs \in SUBSET Nat /\ next \in Nat
  BY <1>1
<1>3. listening \in [Sessions -> SUBSET StaticTables]
  BY <1>1
<1>4. snapshots \in Seq(Sessions \X StaticTables)
  BY <1>1
<1>5. Subscribed(d, t) = [d EXCEPT !.subscriptions = subs, !.nextSubscriptionId = next,
                                   !.listening = listening, !.snapshots = snapshots]
  BY DEF Subscribed
<1> HIDE DEF subs, next, listening, snapshots
<1>6. Subscribed(d, t) \in DataRecords
  BY <1>2, <1>3, <1>4, <1>5, ZenonT(40) DEF DataRecords
<1>7. /\ SameLoader(Subscribed(d, t), d) /\ SamePending(Subscribed(d, t), d)
      /\ Subscribed(d, t).db = d.db /\ Subscribed(d, t).opened = d.opened
      /\ Subscribed(d, t).rows = d.rows
      /\ Subscribed(d, t).tables = d.tables /\ Subscribed(d, t).evicted = d.evicted
      /\ Subscribed(d, t).disturbed = d.disturbed
      /\ Subscribed(d, t).listening = listening /\ Subscribed(d, t).snapshots = snapshots
  BY <1>5 DEF DataRecords, SameLoader, SamePending
<1> QED BY <1>6, <1>7 DEF listening, snapshots

SameResult(e, d) ==
    e.state = d.state /\ e.cache = d.cache /\ e.failedTables = d.failedTables /\ e.cleared = d.cleared

LEMMA MarkedFields ==
    ASSUME NEW d \in DataRecords, NEW l \in LoadIds, NEW t \in StaticTables, NEW wait \in Waits
    PROVE  LET e == Marked(d, l, t, wait)
           IN  /\ e \in DataRecords
               /\ SameTables(e, d) /\ SamePending(e, d) /\ SameResult(e, d)
               /\ \A k \in LoadIds : e.loads[k].batch = d.loads[k].batch
               /\ \A k \in LoadIds, s \in StaticTables :
                      e.loads[k].of[s] = IF k = l /\ s = t THEN wait ELSE d.loads[k].of[s]
<1> DEFINE of == [d.loads[l].of EXCEPT ![t] = wait]
           load == [d.loads[l] EXCEPT !.of = of]
           loads == [d.loads EXCEPT ![l] = load]
<1>1. /\ d.loads \in [LoadIds -> LoadRecords] /\ d.loads[l] \in LoadRecords
      /\ d.loads[l].of \in [StaticTables -> Waits]
  BY DEF DataRecords, LoadRecords
<1>2. /\ of \in [StaticTables -> Waits]
      /\ \A s \in StaticTables : of[s] = IF s = t THEN wait ELSE d.loads[l].of[s]
  BY <1>1
<1> HIDE DEF of
<1>3. load \in LoadRecords /\ load.of = of /\ load.batch = d.loads[l].batch
  BY <1>1, <1>2 DEF LoadRecords
<1>4. Marked(d, l, t, wait) = [d EXCEPT !.loads = loads]
  BY DEF Marked, of
<1> HIDE DEF load
<1>5. /\ loads \in [LoadIds -> LoadRecords]
      /\ \A k \in LoadIds : loads[k] = IF k = l THEN load ELSE d.loads[k]
  BY <1>1, <1>3
<1> HIDE DEF loads
<1>6. /\ Marked(d, l, t, wait) \in DataRecords /\ SameTables(Marked(d, l, t, wait), d)
      /\ SamePending(Marked(d, l, t, wait), d) /\ SameResult(Marked(d, l, t, wait), d)
      /\ Marked(d, l, t, wait).loads = loads
  BY <1>4, <1>5, ZenonT(60) DEF DataRecords, SameTables, SamePending, SameResult
<1> QED BY <1>2, <1>3, <1>5, <1>6

(***************************************************************************)
(* The loads, as inductive invariant.  A load that runs has settled every  *)
(* table of its earlier batches, and a table that it waits for is of its   *)
(* present batch; what has been loaded while it ran is still cached,       *)
(* unless clear() was called.                                              *)
(***************************************************************************)
LaterBeforeStart(d) ==
    \A l \in LoadIds, t \in StaticTables : d.loads[l].batch = 0 => d.loads[l].of[t].phase = "later"

WaitsForItsBatch(d) ==
    \A l \in LoadIds, t \in StaticTables :
        d.loads[l].of[t].phase \in {"waiting", "sleeping"} =>
            Running(d.loads[l]) /\ t \in ToSet(Batches[d.loads[l].batch])

EarlierEnded(d) ==
    \A l \in LoadIds : Running(d.loads[l]) =>
        \A b \in 1 .. d.loads[l].batch - 1 : \A t \in ToSet(Batches[b]) :
            Ended(d.loads[l].of[t].phase)

LoadedIsKept(d) ==
    ~d.cleared => \A l \in LoadIds, t \in StaticTables :
        Running(d.loads[l]) /\ d.loads[l].of[t].phase = "loaded" => t \in d.cache

Accounted(d) ==
    d.state = "loaded" /\ ~d.cleared =>
        \A t \in StaticTables : t \in d.cache \/ t \in d.failedTables

LoadInv(d) ==
    LaterBeforeStart(d) /\ WaitsForItsBatch(d) /\ EarlierEnded(d) /\ LoadedIsKept(d) /\ Accounted(d)

LEMMA SameLoaderKeeps ==
    ASSUME NEW d, NEW e, LoadInv(d), SameLoader(e, d)
    PROVE  LoadInv(e)
BY DEF LoadInv, SameLoader, LaterBeforeStart, WaitsForItsBatch, EarlierEnded, LoadedIsKept, Accounted

LEMMA BatchesParts ==
    /\ Len(Batches) \in Nat \ {0} /\ DOMAIN Batches = 1 .. Len(Batches)
    /\ \A b \in 1 .. Len(Batches) : /\ Batches[b] \in Seq(StaticTables)
                                    /\ ToSet(Batches[b]) \subseteq StaticTables
    /\ \A b, c \in 1 .. Len(Batches) : \A t \in ToSet(Batches[b]) : t \in ToSet(Batches[c]) => b = c
    /\ \A t \in StaticTables : \E b \in 1 .. Len(Batches) : t \in ToSet(Batches[b])
<1>1. Len(Batches) \in Nat \ {0} /\ DOMAIN Batches = 1 .. Len(Batches)
  BY BatchesAssumption
<1>2. \A b \in 1 .. Len(Batches) : Batches[b] \in Seq(StaticTables)
  BY BatchesAssumption
<1>3. \A b \in 1 .. Len(Batches) : ToSet(Batches[b]) \subseteq StaticTables
  BY <1>2 DEF ToSet
<1>4. \A b, c \in 1 .. Len(Batches) : \A t \in ToSet(Batches[b]) : t \in ToSet(Batches[c]) => b = c
  BY <1>1, BatchesAssumption, Zenon
<1>5. \A t \in StaticTables : \E b \in 1 .. Len(Batches) : t \in ToSet(Batches[b])
  BY <1>1 DEF StaticTables
<1> QED BY <1>1, <1>2, <1>3, <1>4, <1>5

LEMMA MarkKeeps ==
    ASSUME NEW d \in DataRecords, LoadInv(d), NEW l \in LoadIds, NEW t \in StaticTables,
           Running(d.loads[l]), t \in ToSet(Batches[d.loads[l].batch]),
           NEW wait \in Waits, wait.phase # "later", wait.phase = "loaded" => t \in d.cache
    PROVE  LoadInv(Marked(d, l, t, wait))
<1>0. PICK e : e = Marked(d, l, t, wait)
  OBVIOUS
<1>1. /\ e \in DataRecords /\ SameResult(e, d)
      /\ \A k \in LoadIds : e.loads[k].batch = d.loads[k].batch
      /\ \A k \in LoadIds, s \in StaticTables :
             e.loads[k].of[s] = IF k = l /\ s = t THEN wait ELSE d.loads[k].of[s]
  BY <1>0, MarkedFields
<1>2. \A k \in LoadIds : Running(e.loads[k]) <=> Running(d.loads[k])
  BY <1>1 DEF Running
<1>3. d.loads[l].batch \in 1 .. Len(Batches) /\ d.loads[l].batch # 0
  BY BatchesParts DEF Running
<1>4. LaterBeforeStart(e)
  BY <1>1, <1>3 DEF LoadInv, LaterBeforeStart
<1>5. WaitsForItsBatch(e)
  BY <1>1, <1>2 DEF LoadInv, WaitsForItsBatch
<1>6. EarlierEnded(e)
  <2>1. ASSUME NEW k \in LoadIds, Running(e.loads[k]), NEW b \in 1 .. e.loads[k].batch - 1,
               NEW s \in ToSet(Batches[b])
        PROVE  Ended(e.loads[k].of[s].phase)
    <3>1. b \in 1 .. Len(Batches) /\ b # d.loads[k].batch /\ s \in StaticTables
      BY <1>1, <1>2, <2>1, BatchesParts, SMTT(20) DEF Running
    <3>2. Ended(d.loads[k].of[s].phase)
      BY <1>1, <1>2, <2>1 DEF LoadInv, EarlierEnded
    <3>3. ~(k = l /\ s = t)
      BY <1>3, <3>1, BatchesParts
    <3> QED BY <1>1, <3>1, <3>2, <3>3
  <2> QED BY <2>1 DEF EarlierEnded
<1>7. LoadedIsKept(e)
  BY <1>1, <1>2 DEF LoadInv, LoadedIsKept, SameResult
<1>8. Accounted(e)
  BY <1>1 DEF LoadInv, Accounted, SameResult
<1> QED BY <1>0, <1>4, <1>5, <1>6, <1>7, <1>8 DEF LoadInv

(***************************************************************************)
(* The tables.  Timers of snapshots are set in the order of the            *)
(* connections, at most one for a table and connection, so that no older   *)
(* one is left when that of the present connection has fired.              *)
(***************************************************************************)
PresentIsLast(d) ==
    /\ d.db \in {0, d.opened}
    /\ \A s \in Sessions : s > d.opened => d.listening[s] = {}

TimersAreOfListeners(d) ==
    \A i \in DOMAIN d.snapshots :
        d.snapshots[i][1] <= d.opened /\ d.snapshots[i][2] \in d.listening[d.snapshots[i][1]]

TimersInOrder(d) ==
    \A i, j \in DOMAIN d.snapshots : i < j =>
        /\ d.snapshots[i][1] <= d.snapshots[j][1]
        /\ d.snapshots[i][2] = d.snapshots[j][2] => d.snapshots[i][1] # d.snapshots[j][1]

Shown(d, t) == d.db # 0 /\ t \in d.listening[d.db] /\ <<d.db, t>> \notin ToSet(d.snapshots)

ShownLast(d) ==
    \A t \in StaticTables : Shown(d, t) => \A i \in DOMAIN d.snapshots : d.snapshots[i][2] # t

Once(table) == \A i, j \in DOMAIN table : table[i].id = table[j].id => i = j

Mirrors(table, rows, complete) ==
    /\ \A i \in DOMAIN table : table[i].version = rows[table[i].id]
    /\ complete => IdsIn(table) = {id \in RowIds : rows[id] # Absent}

TablesMirror(d) ==
    \A t \in StaticTables \ d.disturbed :
        Shown(d, t) => Mirrors(d.tables[t], d.rows[d.db][t], t \notin d.evicted)

TablesInv(d) ==
    /\ PresentIsLast(d) /\ TimersAreOfListeners(d) /\ TimersInOrder(d) /\ ShownLast(d)
    /\ \A t \in StaticTables : Once(d.tables[t])
    /\ TablesMirror(d)

LEMMA SameTablesKeeps ==
    ASSUME NEW d, NEW e, TablesInv(d), SameTables(e, d)
    PROVE  TablesInv(e)
BY DEF TablesInv, SameTables, PresentIsLast, TimersAreOfListeners, TimersInOrder, ShownLast, Shown,
   TablesMirror

LEMMA SubscribedKeeps ==
    ASSUME NEW d \in DataRecords, TablesInv(d), NEW t \in StaticTables, d.db # 0
    PROVE  TablesInv(Subscribed(d, t))
<1>0. PICK e : e = Subscribed(d, t)
  OBVIOUS
<1>1. /\ e \in DataRecords
      /\ e.db = d.db /\ e.opened = d.opened /\ e.rows = d.rows
      /\ e.tables = d.tables /\ e.evicted = d.evicted /\ e.disturbed = d.disturbed
      /\ e.listening = [d.listening EXCEPT ![d.db] = @ \cup {t}]
      /\ e.snapshots = IF t \in d.listening[d.db] THEN d.snapshots
                       ELSE Append(d.snapshots, <<d.db, t>>)
  BY <1>0, SubscribedFields
<1>2. /\ d.db \in Sessions /\ d.db = d.opened /\ d.opened \in Int
      /\ d.snapshots \in Seq(Sessions \X StaticTables)
      /\ d.listening \in [Sessions -> SUBSET StaticTables]
  BY DataBoundsAssumption DEF DataRecords, Sessions, TablesInv, PresentIsLast
<1>3. \A s \in Sessions : e.listening[s] = IF s = d.db THEN d.listening[s] \cup {t} ELSE d.listening[s]
  BY <1>1, <1>2
<1>4. CASE t \in d.listening[d.db]
  <2>1. \A s \in Sessions : e.listening[s] = d.listening[s]
    BY <1>3, <1>4
  <2>2. e.listening = d.listening
    BY <1>1, <1>2, <1>4
  <2>3. SameTables(e, d)
    BY <1>1, <1>4, <2>2 DEF SameTables
  <2> QED BY <1>0, <2>3, SameTablesKeeps
<1>5. CASE t \notin d.listening[d.db]
  <2> DEFINE n == Len(d.snapshots)
  <2>1. /\ e.snapshots = Append(d.snapshots, <<d.db, t>>)
        /\ n \in Nat /\ DOMAIN d.snapshots = 1 .. n /\ DOMAIN e.snapshots = 1 .. n + 1
        /\ \A i \in 1 .. n : e.snapshots[i] = d.snapshots[i] /\ d.snapshots[i] \in Sessions \X StaticTables
        /\ e.snapshots[n + 1] = <<d.db, t>>
    BY <1>1, <1>2, <1>5
  <2> HIDE DEF n
  <2>2. \A i \in 1 .. n : /\ d.snapshots[i][1] <= d.opened
                          /\ d.snapshots[i][2] \in d.listening[d.snapshots[i][1]]
                          /\ d.snapshots[i][1] \in Sessions
    BY <2>1 DEF TablesInv, TimersAreOfListeners
  <2>3. PresentIsLast(e)
    BY <1>1, <1>2, <1>3 DEF TablesInv, PresentIsLast, Sessions
  <2>4. TimersAreOfListeners(e)
    <3>1. ASSUME NEW i \in 1 .. n + 1
          PROVE  e.snapshots[i][1] <= e.opened /\ e.snapshots[i][2] \in e.listening[e.snapshots[i][1]]
      <4>1. CASE i = n + 1
        BY <1>1, <1>2, <1>3, <2>1, <4>1
      <4>2. CASE i # n + 1
        <5>1. i \in 1 .. n
          BY <2>1, <4>2
        <5> QED BY <1>1, <1>3, <2>1, <2>2, <5>1
      <4> QED BY <4>1, <4>2
    <3> QED BY <2>1, <3>1 DEF TimersAreOfListeners
  <2>5. TimersInOrder(e)
    <3>1. ASSUME NEW i \in 1 .. n + 1, NEW j \in 1 .. n + 1, i < j
          PROVE  /\ e.snapshots[i][1] <= e.snapshots[j][1]
                 /\ e.snapshots[i][2] = e.snapshots[j][2] => e.snapshots[i][1] # e.snapshots[j][1]
      <4>1. i \in 1 .. n /\ e.snapshots[i] = d.snapshots[i]
        BY <2>1, <3>1
      <4>2. CASE j = n + 1
        <5>1. e.snapshots[j][1] = d.db /\ e.snapshots[j][2] = t
          BY <2>1, <4>2
        <5> QED BY <1>2, <1>5, <2>2, <4>1, <5>1
      <4>3. CASE j # n + 1
        <5>1. j \in 1 .. n
          BY <2>1, <4>3
        <5>2. TimersInOrder(d) /\ i \in DOMAIN d.snapshots /\ j \in DOMAIN d.snapshots
          BY <2>1, <4>1, <5>1 DEF TablesInv
        <5>3. e.snapshots[j] = d.snapshots[j]
          BY <2>1, <5>1
        <5> QED BY <3>1, <4>1, <5>2, <5>3 DEF TimersInOrder
      <4> QED BY <4>2, <4>3
    <3> QED BY <2>1, <3>1 DEF TimersInOrder
  <2>6. \A s \in StaticTables : Shown(e, s) => s # t /\ Shown(d, s)
    <3> TAKE s \in StaticTables
    <3> HAVE Shown(e, s)
    <3>1. s # t
      <4>1. n + 1 \in DOMAIN e.snapshots
        BY <2>1
      <4>2. <<d.db, t>> \in ToSet(e.snapshots)
        BY <2>1, <4>1 DEF ToSet
      <4>3. <<e.db, s>> \notin ToSet(e.snapshots)
        BY DEF Shown
      <4> QED BY <1>1, <4>2, <4>3
    <3>2. ToSet(d.snapshots) \subseteq ToSet(e.snapshots)
      <4>1. \A i \in DOMAIN d.snapshots : i \in DOMAIN e.snapshots /\ e.snapshots[i] = d.snapshots[i]
        BY <2>1
      <4> QED BY <4>1, Zenon DEF ToSet
    <3> QED BY <1>1, <1>2, <1>3, <3>1, <3>2 DEF Shown
  <2>7. ShownLast(e)
    <3>1. ASSUME NEW s \in StaticTables, Shown(e, s), NEW i \in 1 .. n + 1
          PROVE  e.snapshots[i][2] # s
      <4>1. s # t /\ Shown(d, s)
        BY <2>6, <3>1
      <4>2. CASE i = n + 1
        BY <2>1, <4>1, <4>2
      <4>3. CASE i # n + 1
        <5>1. i \in 1 .. n
          BY <2>1, <4>3
        <5> QED BY <2>1, <4>1, <5>1 DEF TablesInv, ShownLast
      <4> QED BY <4>2, <4>3
    <3> QED BY <2>1, <3>1 DEF ShownLast
  <2>8. TablesMirror(e) /\ \A s \in StaticTables : Once(e.tables[s])
    BY <1>1, <2>6 DEF TablesInv, TablesMirror
  <2> QED BY <1>0, <2>3, <2>4, <2>5, <2>7, <2>8 DEF TablesInv
<1> QED BY <1>4, <1>5

-----------------------------------------------------------------------------
(***************************************************************************)
(* The invariant of what the client keeps.                                 *)
(***************************************************************************)
DataInv(d) ==
    /\ d \in DataRecords
    /\ TablesInv(d)
    /\ LoadInv(d)
    /\ d.pendingUpdates => d.updateTimer

LEMMA WaitParts ==
    ASSUME NEW d \in DataRecords, NEW l \in LoadIds
    PROVE  /\ d.loads[l] \in LoadRecords /\ d.loads[l].batch \in 0 .. Len(Batches) + 1
           /\ \A t \in StaticTables :
                /\ d.loads[l].of[t] \in Waits
                /\ d.loads[l].of[t].handle \in Nat /\ d.loads[l].of[t].retries \in 0 .. MaxRetries
BY DEF DataRecords, LoadRecords, Waits

\* a load of which the tables of the present batch are being tried
Loading(d, l) == l \in LoadIds /\ Running(d.loads[l])

\* a task of load l leaves the others alone
SameLoads(e, d, l) ==
    /\ e.loads[l].batch = d.loads[l].batch
    /\ \A k \in LoadIds \ {l} : e.loads[k] = d.loads[k]

LEMMA MarkedKeepsOthers ==
    ASSUME NEW d \in DataRecords, NEW l \in LoadIds, NEW t \in StaticTables, NEW wait \in Waits
    PROVE  SameLoads(Marked(d, l, t, wait), d, l)
BY DEF DataRecords, LoadRecords, Marked, SameLoads

LEMMA MarkInv ==
    ASSUME NEW d, DataInv(d), NEW l, Loading(d, l), NEW t \in ToSet(Batches[d.loads[l].batch]),
           NEW wait \in Waits, wait.phase # "later", wait.phase = "loaded" => t \in d.cache
    PROVE  DataInv(Marked(d, l, t, wait)) /\ SameLoads(Marked(d, l, t, wait), d, l)
<1>1. d \in DataRecords /\ l \in LoadIds /\ Running(d.loads[l]) /\ t \in StaticTables
  BY BatchesParts DEF DataInv, Loading, Running
<1>2. /\ Marked(d, l, t, wait) \in DataRecords
      /\ SameTables(Marked(d, l, t, wait), d) /\ SamePending(Marked(d, l, t, wait), d)
  BY <1>1, MarkedFields
<1>3. TablesInv(Marked(d, l, t, wait))
  BY <1>2, SameTablesKeeps DEF DataInv
<1>4. LoadInv(Marked(d, l, t, wait))
  BY <1>1, MarkKeeps DEF DataInv
<1> QED BY <1>1, <1>2, <1>3, <1>4, MarkedKeepsOthers DEF DataInv, SamePending

LEMMA SubscribedInv ==
    ASSUME NEW d, DataInv(d), NEW t \in StaticTables, d.db # 0
    PROVE  DataInv(Subscribed(d, t)) /\ Subscribed(d, t).loads = d.loads
<1>1. /\ Subscribed(d, t) \in DataRecords
      /\ SameLoader(Subscribed(d, t), d) /\ SamePending(Subscribed(d, t), d)
  BY SubscribedFields DEF DataInv
<1> QED BY <1>1, SubscribedKeeps, SameLoaderKeeps DEF DataInv, SamePending, SameLoader

LEMMA RetriedInv ==
    ASSUME NEW d, DataInv(d), NEW l, Loading(d, l), NEW t \in ToSet(Batches[d.loads[l].batch])
    PROVE  DataInv(Retried(d, l, t)) /\ SameLoads(Retried(d, l, t), d, l)
<1> DEFINE wait == d.loads[l].of[t]
           later == [wait EXCEPT !.phase = "sleeping", !.retries = @ + 1]
           given == [wait EXCEPT !.phase = "failed"]
<1>1. t \in StaticTables /\ wait \in Waits
  BY WaitParts, BatchesParts DEF DataInv, Loading, Running
<1>2. given \in Waits /\ given.phase = "failed"
  BY <1>1 DEF Waits
<1>3. wait.retries < MaxRetries => later \in Waits /\ later.phase = "sleeping"
  <2> DEFINE n == wait.retries + 1
  <2> HIDE DEF wait
  <2>1. wait.retries \in 0 .. MaxRetries
    BY <1>1 DEF Waits
  <2>2. wait.retries < MaxRetries => n \in 0 .. MaxRetries
    BY <2>1, RetriesAssumption
  <2>3. later = [wait EXCEPT !.phase = "sleeping", !.retries = n]
    OBVIOUS
  <2> HIDE DEF n, later
  <2> QED BY <1>1, <2>2, <2>3 DEF Waits
<1>4. Retried(d, l, t)
         = IF wait.retries < MaxRetries THEN Marked(d, l, t, later) ELSE Marked(d, l, t, given)
  BY DEF Retried
<1> HIDE DEF wait, later, given
<1> QED BY <1>2, <1>3, <1>4, MarkInv

LEMMA AttemptedInv ==
    ASSUME NEW d, DataInv(d), NEW l, Loading(d, l), NEW t \in ToSet(Batches[d.loads[l].batch])
    PROVE  DataInv(Attempted(d, l, t)) /\ SameLoads(Attempted(d, l, t), d, l)
<1> DEFINE wait == [phase |-> "waiting", retries |-> d.loads[l].of[t].retries,
                    handle |-> d.nextSubscriptionId]
<1>1. t \in StaticTables /\ wait \in Waits /\ wait.phase = "waiting"
  <2>1. t \in StaticTables /\ l \in LoadIds /\ d \in DataRecords
    BY BatchesParts DEF DataInv, Loading, Running
  <2>2. d.nextSubscriptionId \in Nat
    BY <2>1 DEF DataRecords
  <2> QED BY <2>1, <2>2, WaitParts DEF Waits
<1>2. CASE CanSubscribe(d)
  <2>1. Attempted(d, l, t) = Marked(Subscribed(d, t), l, t, wait)
    BY <1>2 DEF Attempted
  <2> HIDE DEF wait
  <2>2. DataInv(Subscribed(d, t)) /\ Subscribed(d, t).loads = d.loads
    BY <1>1, <1>2, SubscribedInv DEF CanSubscribe
  <2>3. Loading(Subscribed(d, t), l) /\ t \in ToSet(Batches[Subscribed(d, t).loads[l].batch])
    BY <2>2 DEF Loading
  <2>4. DataInv(Attempted(d, l, t)) /\ SameLoads(Attempted(d, l, t), Subscribed(d, t), l)
    BY <1>1, <2>1, <2>2, <2>3, MarkInv
  <2> QED BY <2>2, <2>4 DEF SameLoads
<1>3. CASE ~CanSubscribe(d)
  BY <1>3, RetriedInv DEF Attempted
<1> QED BY <1>2, <1>3

(***************************************************************************)
(* The tables of a batch are tried one after the other, and the loads that *)
(* wait for a snapshot are told one after the other.                       *)
(***************************************************************************)
TakeAttempt(at, d) == Attempt(d, at)
TakeTelling(at, d) == TellLoad(d, at)
Largest(T) == Max(T)
AttemptsAlong(d, ids) == FoldLeft(Attempt, d, ids)
TellingsAlong(d, ids) == FoldLeft(TellLoad, d, ids)

Attempts == INSTANCE FoldLemmas WITH Op <- TakeAttempt, Chosen <- Largest
Tellings == INSTANCE FoldLemmas WITH Op <- TakeTelling, Chosen <- Largest

LEMMA LargestIsMember ==
    ASSUME NEW n \in Nat, NEW T \in SUBSET (1 .. n), T # {}
    PROVE  Largest(T) \in T /\ \A y \in T : Largest(T) >= y
<1> DEFINE HasLargest(U) == U # {} => \E m \in U : \A y \in U : m >= y
           S == {i \in 0 .. n : \A U \in SUBSET (1 .. i) : HasLargest(U)}
<1>1. 0 \in S
  <2>1. 1 .. 0 = {}
    OBVIOUS
  <2>2. \A U \in SUBSET (1 .. 0) : HasLargest(U)
    BY <2>1
  <2> HIDE DEF HasLargest
  <2> QED BY <2>2
<1>2. ASSUME NEW i \in 1 .. n, i - 1 \in S PROVE i \in S
  <2>1. ASSUME NEW U \in SUBSET (1 .. i), i \notin U PROVE HasLargest(U)
    <3>1. U \in SUBSET (1 .. (i - 1))
      BY <2>1
    <3> QED BY <1>2, <3>1
  <2>2. ASSUME NEW U \in SUBSET (1 .. i), i \in U PROVE HasLargest(U)
    BY <2>2
  <2> QED BY <2>1, <2>2
<1>3. n \in S
  <2> HIDE DEF S
  <2> QED BY <1>1, <1>2, Attempts!Induction
<1>4. \E m \in T : \A y \in T : m >= y
  BY <1>3
<1> QED BY <1>4 DEF Largest, Max

LEMMA LargestOfInterval ==
    ASSUME NEW n \in Nat, NEW i \in 1 .. n
    PROVE  Largest(1 .. i) = i
<1>1. 1 .. i \in SUBSET (1 .. n) /\ i \in 1 .. i
  OBVIOUS
<1>2. Largest(1 .. i) \in 1 .. i /\ \A y \in 1 .. i : Largest(1 .. i) >= y
  BY <1>1, LargestIsMember
<1> QED BY <1>1, <1>2

LEMMA AttemptsAreARun ==
    ASSUME NEW d, NEW n \in Nat, NEW ids, DOMAIN ids = 1 .. n
    PROVE  \E run : /\ run[0] = d
                    /\ \A i \in 1 .. n : run[i] = TakeAttempt(ids[i], run[i - 1])
                    /\ AttemptsAlong(d, ids) = run[n]
<1>1. AttemptsAlong(d, ids) = Attempts!Folding(d, ids, DOMAIN ids)
  BY DEF AttemptsAlong, FoldLeft, MapThenFoldSet, Attempts!Folding, Attempts!Recursion,
     TakeAttempt, Largest
<1>2. Attempts!Chooses(1 .. n) /\ \A i \in 1 .. n : Largest(1 .. i) = i
  BY LargestIsMember, LargestOfInterval DEF Attempts!Chooses
<1> QED BY <1>1, <1>2, Attempts!FoldIsRun

LEMMA TellingsAreARun ==
    ASSUME NEW d, NEW n \in Nat, NEW ids, DOMAIN ids = 1 .. n
    PROVE  \E run : /\ run[0] = d
                    /\ \A i \in 1 .. n : run[i] = TakeTelling(ids[i], run[i - 1])
                    /\ TellingsAlong(d, ids) = run[n]
<1>1. TellingsAlong(d, ids) = Tellings!Folding(d, ids, DOMAIN ids)
  BY DEF TellingsAlong, FoldLeft, MapThenFoldSet, Tellings!Folding, Tellings!Recursion,
     TakeTelling, Largest
<1>2. Tellings!Chooses(1 .. n) /\ \A i \in 1 .. n : Largest(1 .. i) = i
  BY LargestIsMember, LargestOfInterval DEF Tellings!Chooses
<1> QED BY <1>1, <1>2, Tellings!FoldIsRun

LEMMA BatchBegunInv ==
    ASSUME NEW d, DataInv(d), NEW l, Loading(d, l)
    PROVE  DataInv(BatchBegun(d, l)) /\ SameLoads(BatchBegun(d, l), d, l)
<1> DEFINE batch == Batches[d.loads[l].batch]
           n == Len(batch)
           ids == [i \in DOMAIN batch |-> <<l, batch[i]>>]
<1>1. n \in Nat /\ DOMAIN batch = 1 .. n
  BY BatchesParts DEF Loading, Running
<1>2. DOMAIN ids = 1 .. n /\ \A i \in 1 .. n : ids[i] = <<l, batch[i]>> /\ batch[i] \in ToSet(batch)
  <2> HIDE DEF batch, n
  <2>1. DOMAIN ids = 1 .. n /\ \A i \in 1 .. n : ids[i] = <<l, batch[i]>>
    BY <1>1
  <2>2. \A i \in 1 .. n : batch[i] \in ToSet(batch)
    BY <1>1 DEF ToSet
  <2> QED BY <2>1, <2>2
<1>3. BatchBegun(d, l) = AttemptsAlong(d, ids)
  BY DEF BatchBegun, AttemptsAlong
<1> HIDE DEF batch, n, ids
<1>4. PICK run : /\ run[0] = d
                 /\ \A i \in 1 .. n : run[i] = TakeAttempt(ids[i], run[i - 1])
                 /\ AttemptsAlong(d, ids) = run[n]
  <2>1. n \in Nat /\ DOMAIN ids = 1 .. n
    BY <1>1, <1>2
  <2> QED BY <2>1, AttemptsAreARun
<1> USE DEF batch
<1> DEFINE S == {i \in 0 .. n : DataInv(run[i]) /\ SameLoads(run[i], d, l)}
<1>5. 0 \in S
  BY <1>1, <1>4 DEF SameLoads
<1>6. ASSUME NEW i \in 1 .. n, i - 1 \in S PROVE i \in S
  <2> DEFINE b == run[i - 1]
  <2>1. DataInv(b) /\ SameLoads(b, d, l)
    BY <1>6
  <2>2. run[i] = Attempted(b, l, batch[i])
    BY <1>2, <1>4 DEF TakeAttempt, Attempt
  <2> HIDE DEF b
  <2>3. Loading(b, l) /\ batch[i] \in ToSet(Batches[b.loads[l].batch])
    BY <1>2, <2>1 DEF SameLoads, Loading, Running
  <2>4. DataInv(run[i]) /\ SameLoads(run[i], b, l)
    BY <2>1, <2>2, <2>3, AttemptedInv
  <2>5. SameLoads(run[i], d, l)
    BY <2>1, <2>4 DEF SameLoads
  <2> QED BY <1>1, <2>4, <2>5
<1>7. n \in S
  <2> HIDE DEF S
  <2> QED BY <1>1, <1>5, <1>6, Attempts!Induction
<1> QED BY <1>3, <1>4, <1>7

OtherLoads(e, d, l) == \A k \in LoadIds \ {l} : e.loads[k] = d.loads[k]

Onward(d, l, n) == [d EXCEPT !.loads[l].batch = n]

LEMMA OnwardFields ==
    ASSUME NEW d \in DataRecords, NEW l \in LoadIds, NEW n \in 0 .. Len(Batches) + 1
    PROVE  LET e == Onward(d, l, n)
           IN  /\ e \in DataRecords
               /\ SameTables(e, d) /\ SamePending(e, d) /\ SameResult(e, d)
               /\ OtherLoads(e, d, l)
               /\ e.loads[l].batch = n /\ e.loads[l].of = d.loads[l].of
<1> DEFINE load == [d.loads[l] EXCEPT !.batch = n]
           loads == [d.loads EXCEPT ![l] = load]
<1>1. d.loads \in [LoadIds -> LoadRecords] /\ d.loads[l] \in LoadRecords
  BY DEF DataRecords
<1>2. load \in LoadRecords /\ load.of = d.loads[l].of /\ load.batch = n
  BY <1>1 DEF LoadRecords
<1>3. Onward(d, l, n) = [d EXCEPT !.loads = loads]
  BY DEF Onward
<1> HIDE DEF load
<1>4. /\ loads \in [LoadIds -> LoadRecords]
      /\ \A k \in LoadIds : loads[k] = IF k = l THEN load ELSE d.loads[k]
  BY <1>1, <1>2
<1> HIDE DEF loads
<1>5. /\ Onward(d, l, n) \in DataRecords /\ SameTables(Onward(d, l, n), d)
      /\ SamePending(Onward(d, l, n), d) /\ SameResult(Onward(d, l, n), d)
      /\ Onward(d, l, n).loads = loads
  BY <1>3, <1>4, ZenonT(60) DEF DataRecords, SameTables, SamePending, SameResult
<1> QED BY <1>2, <1>4, <1>5 DEF OtherLoads

LEMMA AwaitedInv ==
    ASSUME NEW d, DataInv(d), NEW l, Loading(d, l)
    PROVE  DataInv(Awaited(d, l)) /\ OtherLoads(Awaited(d, l), d, l)
<1> DEFINE load == d.loads[l]
           b == load.batch
           next == Onward(d, l, b + 1)
           failed == {t \in StaticTables : load.of[t].phase = "failed"}
           done == [next EXCEPT !.state = "loaded", !.failedTables = failed]
<1>1. CASE \E t \in ToSet(Batches[b]) : ~Ended(load.of[t].phase)
  <2>1. Awaited(d, l) = d
    BY <1>1 DEF Awaited
  <2> QED BY <2>1 DEF OtherLoads
<1>2. CASE \A t \in ToSet(Batches[b]) : Ended(load.of[t].phase)
  <2>1. /\ d \in DataRecords /\ l \in LoadIds /\ b \in 1 .. Len(Batches)
        /\ b + 1 \in 0 .. Len(Batches) + 1 /\ Len(Batches) \in Nat
    BY BatchesParts DEF DataInv, Loading, Running
  <2>2. Awaited(d, l) = IF b < Len(Batches) THEN BatchBegun(next, l) ELSE done
    BY <1>2 DEF Awaited, Onward
  <2>3. PICK e : e = next
    OBVIOUS
  <2>4. /\ e \in DataRecords
        /\ SameTables(e, d) /\ SamePending(e, d) /\ SameResult(e, d) /\ OtherLoads(e, d, l)
        /\ e.loads[l].batch = b + 1 /\ e.loads[l].of = d.loads[l].of
    BY <2>1, <2>3, OnwardFields
  <2>5. \A t \in StaticTables : load.of[t].phase \notin {"waiting", "sleeping"}
    BY <1>2, <2>1 DEF DataInv, LoadInv, WaitsForItsBatch, Ended
  <2>6. \A c \in 1 .. b : \A t \in ToSet(Batches[c]) : Ended(load.of[t].phase)
    <3>1. \A c \in 1 .. b - 1 : \A t \in ToSet(Batches[c]) : Ended(load.of[t].phase)
      BY DEF DataInv, LoadInv, EarlierEnded, Loading
    <3>2. \A c \in 1 .. b : c = b \/ c \in 1 .. b - 1
      BY <2>1
    <3> QED BY <1>2, <3>1, <3>2
  <2> HIDE DEF next, b
  <2>7. TablesInv(e) /\ (e.pendingUpdates => e.updateTimer)
    BY <2>4, SameTablesKeeps DEF DataInv, SamePending
  <2>8. /\ LaterBeforeStart(e) /\ WaitsForItsBatch(e)
    <3>1. \A k \in LoadIds, t \in StaticTables :
            e.loads[k].of[t].phase \in {"waiting", "sleeping"} => k # l
      BY <2>4, <2>5
    <3> QED BY <2>1, <2>4, <3>1 DEF DataInv, LoadInv, LaterBeforeStart, WaitsForItsBatch, OtherLoads
  <2>9. EarlierEnded(e)
    <3>1. e.loads[l].batch - 1 = b
      BY <2>1, <2>4
    <3>2. \A c \in 1 .. e.loads[l].batch - 1 : \A t \in ToSet(Batches[c]) :
              Ended(e.loads[l].of[t].phase)
      BY <2>4, <2>6, <3>1
    <3>3. EarlierEnded(d) /\ \A k \in LoadIds \ {l} : e.loads[k] = d.loads[k]
      BY <2>4 DEF DataInv, LoadInv, OtherLoads
    <3> QED BY <3>2, <3>3, Zenon DEF EarlierEnded
  <2>10. LoadedIsKept(e)
    BY <2>4 DEF DataInv, LoadInv, LoadedIsKept, OtherLoads, Loading, SameResult
  <2>11. CASE b < Len(Batches)
    <3>1. DataInv(e)
      BY <2>4, <2>7, <2>8, <2>9, <2>10 DEF DataInv, LoadInv, Accounted, SameResult
    <3>2. Loading(e, l)
      BY <2>1, <2>4, <2>11, BatchesParts DEF Loading, Running
    <3>3. DataInv(BatchBegun(e, l)) /\ OtherLoads(BatchBegun(e, l), d, l)
      BY <2>4, <3>1, <3>2, BatchBegunInv DEF SameLoads, OtherLoads
    <3>4. Awaited(d, l) = BatchBegun(e, l)
      BY <2>2, <2>3, <2>11
    <3> QED BY <3>3, <3>4
  <2>12. CASE b = Len(Batches)
    <3>1. PICK f : f = done
      OBVIOUS
    <3>2. failed \in SUBSET StaticTables
      OBVIOUS
    <3> HIDE DEF failed
    <3>3. /\ f \in DataRecords /\ SameTables(f, e) /\ SamePending(f, e)
          /\ f.state = "loaded" /\ f.failedTables = failed
          /\ f.cache = e.cache /\ f.cleared = e.cleared /\ f.loads = e.loads
      BY <2>3, <2>4, <3>1, <3>2 DEF DataRecords, SameTables, SamePending
    <3>4. TablesInv(f) /\ (f.pendingUpdates => f.updateTimer)
      BY <2>7, <3>3, SameTablesKeeps DEF SamePending
    <3>5. LaterBeforeStart(f) /\ WaitsForItsBatch(f) /\ EarlierEnded(f) /\ LoadedIsKept(f)
      BY <2>8, <2>9, <2>10, <3>3
         DEF LaterBeforeStart, WaitsForItsBatch, EarlierEnded, LoadedIsKept
    <3>6. Accounted(f)
      <4>1. ASSUME NEW t \in StaticTables, ~f.cleared PROVE t \in f.cache \/ t \in f.failedTables
        <5>1. PICK c \in 1 .. Len(Batches) : t \in ToSet(Batches[c])
          BY BatchesParts
        <5>2. Ended(load.of[t].phase)
          BY <2>6, <2>12, <5>1
        <5>3. load.of[t].phase = "failed" => t \in f.failedTables
          BY <3>3 DEF failed
        <5>4. load.of[t].phase = "loaded" => t \in f.cache
          BY <2>4, <3>3, <4>1 DEF DataInv, LoadInv, LoadedIsKept, Loading, SameResult
        <5> QED BY <5>2, <5>3, <5>4 DEF Ended
      <4> QED BY <4>1 DEF Accounted
    <3>7. OtherLoads(f, d, l)
      BY <2>4, <3>3 DEF OtherLoads
    <3>8. Awaited(d, l) = f
      BY <2>1, <2>2, <2>12, <3>1
    <3> QED BY <3>3, <3>4, <3>5, <3>6, <3>7, <3>8 DEF DataInv, LoadInv
  <2> QED BY <2>1, <2>11, <2>12 DEF b
<1> QED BY <1>1, <1>2

LEMMA UnsubscribedInv ==
    ASSUME NEW d, DataInv(d), NEW handle
    PROVE  /\ DataInv(Unsubscribed(d, handle)) /\ SameTables(Unsubscribed(d, handle), d)
           /\ SameLoader(Unsubscribed(d, handle), d)
<1> DEFINE subs == d.subscriptions \ {handle}
<1>1. d \in DataRecords /\ subs \in SUBSET Nat
  BY DEF DataInv, DataRecords
<1>2. Unsubscribed(d, handle) = [d EXCEPT !.subscriptions = subs]
  BY DEF Unsubscribed
<1> HIDE DEF subs
<1>3. /\ Unsubscribed(d, handle) \in DataRecords
      /\ SameTables(Unsubscribed(d, handle), d) /\ SamePending(Unsubscribed(d, handle), d)
      /\ SameLoader(Unsubscribed(d, handle), d)
  BY <1>1, <1>2 DEF DataRecords, SameTables, SamePending, SameLoader
<1> QED BY <1>3, SameTablesKeeps, SameLoaderKeeps DEF DataInv, SamePending

Kept(d, t) == [d EXCEPT !.cache = @ \cup {t}]

LEMMA KeptInv ==
    ASSUME NEW d, DataInv(d), NEW t \in StaticTables
    PROVE  DataInv(Kept(d, t)) /\ Kept(d, t).loads = d.loads /\ t \in Kept(d, t).cache
<1> DEFINE cache == d.cache \cup {t}
<1>1. d \in DataRecords /\ cache \in SUBSET StaticTables /\ t \in cache /\ d.cache \subseteq cache
  BY DEF DataInv, DataRecords
<1>2. Kept(d, t) = [d EXCEPT !.cache = cache]
  BY DEF Kept
<1> HIDE DEF cache
<1>3. PICK e : e = Kept(d, t)
  OBVIOUS
<1>4. /\ e \in DataRecords /\ SameTables(e, d) /\ SamePending(e, d)
      /\ e.cache = cache /\ e.state = d.state /\ e.cleared = d.cleared
      /\ e.failedTables = d.failedTables /\ e.loads = d.loads
  BY <1>1, <1>2, <1>3, ZenonT(60) DEF DataRecords, SameTables, SamePending
<1>5. TablesInv(e) /\ (e.pendingUpdates => e.updateTimer)
  BY <1>4, SameTablesKeeps DEF DataInv, SamePending
<1>6. LoadInv(e)
  BY <1>1, <1>4 DEF DataInv, LoadInv, LaterBeforeStart, WaitsForItsBatch, EarlierEnded, LoadedIsKept,
     Accounted
<1> QED BY <1>1, <1>3, <1>4, <1>5, <1>6 DEF DataInv

LEMMA TableLoadedInv ==
    ASSUME NEW d, DataInv(d), NEW l \in LoadIds, NEW t \in StaticTables,
           d.loads[l].of[t].phase = "waiting"
    PROVE  DataInv(TableLoaded(d, l, t)) /\ OtherLoads(TableLoaded(d, l, t), d, l)
<1> DEFINE wait == d.loads[l].of[t]
           now == [wait EXCEPT !.phase = "loaded"]
           kept == Kept(Unsubscribed(d, wait.handle), t)
           marked == Marked(kept, l, t, now)
<1>1. Loading(d, l) /\ t \in ToSet(Batches[d.loads[l].batch])
  BY DEF DataInv, LoadInv, WaitsForItsBatch, Loading
<1>2. now \in Waits /\ now.phase = "loaded"
  <2>1. wait \in Waits
    BY WaitParts DEF DataInv
  <2> HIDE DEF wait
  <2> QED BY <2>1 DEF Waits
<1>3. TableLoaded(d, l, t) = Awaited(marked, l)
  BY DEF TableLoaded, Kept
<1> HIDE DEF wait, now
<1>4. DataInv(kept) /\ kept.loads = d.loads /\ t \in kept.cache
  BY UnsubscribedInv, KeptInv DEF SameLoader
<1> HIDE DEF kept
<1>5. Loading(kept, l) /\ t \in ToSet(Batches[kept.loads[l].batch])
  BY <1>1, <1>4 DEF Loading
<1>6. DataInv(marked) /\ SameLoads(marked, kept, l)
  BY <1>2, <1>4, <1>5, MarkInv
<1> HIDE DEF marked
<1>7. Loading(marked, l)
  BY <1>5, <1>6 DEF Loading, SameLoads, Running
<1>8. DataInv(Awaited(marked, l)) /\ OtherLoads(Awaited(marked, l), marked, l)
  BY <1>6, <1>7, AwaitedInv
<1> QED BY <1>3, <1>4, <1>6, <1>8 DEF SameLoads, OtherLoads

LEMMA InOrderOfChoice ==
    ASSUME NEW T, IsFiniteSet(T)
    PROVE  LET ids == SetToSeq(T)
           IN  \E n \in Nat : /\ ids \in [1 .. n -> T]
                              /\ \A i, j \in 1 .. n : ids[i] = ids[j] => i = j
                              /\ \A x \in T : \E i \in 1 .. n : ids[i] = x
<1> DEFINE n == Cardinality(T)
           ids == SetToSeq(T)
<1>1. n \in Nat /\ ExistsBijection(1 .. n, T)
  BY FS_CardinalityType
<1>2. \E f \in [1 .. n -> T] : IsInjective(f)
  BY <1>1 DEF ExistsBijection, Bijection, Injection, IsInjective
<1>3. ids \in [1 .. n -> T] /\ IsInjective(ids)
  BY <1>2 DEF SetToSeq
<1>4. \A i, j \in 1 .. n : ids[i] = ids[j] => i = j
  BY <1>3 DEF IsInjective
<1>5. ids \in Injection(1 .. n, T)
  BY <1>3, <1>4 DEF Injection
<1>6. Cardinality(1 .. n) = n
  BY <1>1, FS_Interval
<1>7. ids \in Surjection(1 .. n, T)
  <2> HIDE DEF ids
  <2> QED BY <1>5, <1>6, FS_Injection
<1>8. \A x \in T : \E i \in 1 .. n : ids[i] = x
  BY <1>7 DEF Surjection
<1> QED BY <1>1, <1>3, <1>4, <1>8

LEMMA TellingsInv ==
    ASSUME NEW d, DataInv(d), NEW t \in StaticTables, NEW T \in SUBSET LoadIds,
           \A l \in T : d.loads[l].of[t].phase = "waiting"
    PROVE  LET waiting == SetToSeq(T)
           IN  DataInv(TellingsAlong(d, [i \in DOMAIN waiting |-> <<waiting[i], t>>]))
<1> DEFINE waiting == SetToSeq(T)
           ids == [i \in DOMAIN waiting |-> <<waiting[i], t>>]
<1>1. IsFiniteSet(T)
  <2>1. IsFiniteSet(LoadIds)
    BY RetriesAssumption, FS_Interval DEF LoadIds
  <2> QED BY <2>1, FS_Subset
<1>2. PICK n \in Nat : /\ waiting \in [1 .. n -> T]
                       /\ \A i, j \in 1 .. n : waiting[i] = waiting[j] => i = j
  BY <1>1, InOrderOfChoice
<1>3. DOMAIN ids = 1 .. n /\ \A i \in 1 .. n : ids[i] = <<waiting[i], t>>
  BY <1>2
<1> HIDE DEF waiting, ids
<1>4. PICK run : /\ run[0] = d
                 /\ \A i \in 1 .. n : run[i] = TakeTelling(ids[i], run[i - 1])
                 /\ TellingsAlong(d, ids) = run[n]
  <2>1. DOMAIN ids = 1 .. n
    BY <1>3
  <2> QED BY <2>1, TellingsAreARun
<1> DEFINE S == {i \in 0 .. n : /\ DataInv(run[i])
                                /\ \A j \in 1 .. n : j > i => run[i].loads[waiting[j]] = d.loads[waiting[j]]}
<1>5. 0 \in S
  BY <1>4
<1>6. ASSUME NEW i \in 1 .. n, i - 1 \in S PROVE i \in S
  <2> DEFINE b == run[i - 1]
             l == waiting[i]
  <2>1. DataInv(b) /\ b.loads[l] = d.loads[l] /\ l \in T
        /\ \A j \in 1 .. n : j > i => b.loads[waiting[j]] = d.loads[waiting[j]]
    BY <1>2, <1>6
  <2>2. run[i] = TableLoaded(b, l, t)
    BY <1>3, <1>4 DEF TakeTelling, TellLoad
  <2>3. \A j \in 1 .. n : j > i => waiting[j] # l /\ waiting[j] \in LoadIds
    BY <1>2
  <2> HIDE DEF b, l
  <2>4. DataInv(run[i]) /\ OtherLoads(run[i], b, l)
    BY <2>1, <2>2, TableLoadedInv
  <2> QED BY <2>1, <2>3, <2>4 DEF OtherLoads
<1>7. n \in S
  <2> HIDE DEF S
  <2> QED BY <1>2, <1>5, <1>6, Attempts!Induction
<1> QED BY <1>4, <1>7 DEF ids, waiting

-----------------------------------------------------------------------------
(***************************************************************************)
(* What the operations of TableAccessor make of a table.                   *)
(***************************************************************************)
LEMMA EntryParts ==
    ASSUME NEW id \in RowIds, NEW version \in Versions
    PROVE  /\ Entry(id, version) \in Entries
           /\ Entry(id, version).id = id /\ Entry(id, version).version = version
BY DEF Entry, Entries

LEMMA UpsertedTable ==
    ASSUME NEW table \in Seq(Entries), Once(table), NEW entry \in Entries
    PROVE  LET new == Upserted(table, entry)
           IN  /\ new \in Seq(Entries) /\ Once(new)
               /\ \A i \in DOMAIN new :
                      \/ new[i] = entry
                      \/ \E j \in DOMAIN table : new[i] = table[j] /\ table[j].id # entry.id
               /\ entry.id \in IdsIn(table) \/ Len(table) < MaxCacheSize
                      => IdsIn(new) = IdsIn(table) \cup {entry.id}
<1> DEFINE n == Len(table)
           new == Upserted(table, entry)
<1>1. n \in Nat /\ DOMAIN table = 1 .. n /\ \A i \in 1 .. n : table[i] \in Entries
  OBVIOUS
<1>2. CASE entry.id \in IdsIn(table)
  <2>1. new = [i \in 1 .. n |-> IF table[i].id = entry.id THEN entry ELSE table[i]]
    BY <1>1, <1>2 DEF Upserted
  <2>2. DOMAIN new = 1 .. n
    BY <2>1
  <2>3. \A i \in 1 .. n : /\ new[i] = IF table[i].id = entry.id THEN entry ELSE table[i]
                          /\ new[i].id = table[i].id
    BY <2>1
  <2>4. new \in Seq(Entries)
    <3>1. new \in [1 .. n -> Entries]
      BY <1>1, <2>1
    <3> QED BY <1>1, <3>1
  <2> HIDE DEF new, n
  <2>5. Once(new)
    BY <1>1, <2>2, <2>3 DEF Once
  <2>6. \A i \in DOMAIN new :
            \/ new[i] = entry
            \/ \E j \in DOMAIN table : new[i] = table[j] /\ table[j].id # entry.id
    BY <1>1, <2>2, <2>3
  <2>7. IdsIn(new) = IdsIn(table) \cup {entry.id}
    <3>1. IdsIn(new) = IdsIn(table)
      BY <1>1, <2>2, <2>3 DEF IdsIn
    <3> QED BY <1>2, <3>1
  <2> QED BY <2>4, <2>5, <2>6, <2>7 DEF new
<1>3. CASE entry.id \notin IdsIn(table)
  <2>1. \A i \in 1 .. n : table[i].id # entry.id
    BY <1>1, <1>3 DEF IdsIn
  <2>2. CASE n < MaxCacheSize
    <3>1. new = Append(table, entry)
      BY <1>3, <2>2, SizesAssumption DEF Upserted
    <3>2. /\ new \in Seq(Entries) /\ DOMAIN new = 1 .. n + 1
          /\ new[n + 1] = entry /\ \A i \in 1 .. n : new[i] = table[i]
      BY <1>1, <3>1
    <3> HIDE DEF new, n
    <3>3. \A i \in 1 .. n + 1 : i = n + 1 \/ i \in 1 .. n
      BY <1>1
    <3>4. Once(new)
      BY <1>1, <2>1, <3>2, <3>3 DEF Once
    <3>5. \A i \in DOMAIN new :
              \/ new[i] = entry
              \/ \E j \in DOMAIN table : new[i] = table[j] /\ table[j].id # entry.id
      BY <1>1, <2>1, <3>2, <3>3
    <3>6. IdsIn(new) = IdsIn(table) \cup {entry.id}
      <4>1. n + 1 \in 1 .. n + 1 /\ 1 .. n \subseteq 1 .. n + 1
        BY <1>1
      <4> QED BY <1>1, <3>2, <3>3, <4>1 DEF IdsIn
    <3> QED BY <3>2, <3>4, <3>5, <3>6 DEF new
  <2>3. CASE ~(n < MaxCacheSize)
    <3>1. n \in Nat \ {0}
      BY <1>1, <2>3, SizesAssumption
    <3>2. new = Append(Tail(table), entry)
      BY <1>3, <2>3, <1>1, SizesAssumption DEF Upserted
    <3>3. /\ Tail(table) \in Seq(Entries) /\ Len(Tail(table)) = n - 1
          /\ \A i \in 1 .. n - 1 : Tail(table)[i] = table[i + 1]
      BY <1>1, <3>1
    <3>4. /\ new \in Seq(Entries) /\ DOMAIN new = 1 .. n
          /\ new[n] = entry /\ \A i \in 1 .. n - 1 : new[i] = table[i + 1]
      <4>1. DOMAIN new = 1 .. (n - 1) + 1 /\ new[(n - 1) + 1] = entry
            /\ \A i \in 1 .. n - 1 : new[i] = Tail(table)[i]
        BY <3>1, <3>2, <3>3
      <4>2. (n - 1) + 1 = n
        BY <3>1
      <4> QED BY <3>2, <3>3, <4>1, <4>2
    <3> HIDE DEF new, n
    <3>5. \A i \in 1 .. n : i = n \/ (i \in 1 .. n - 1 /\ i + 1 \in 1 .. n)
      BY <3>1
    <3>6. Once(new)
      <4>1. ASSUME NEW i \in 1 .. n, NEW j \in 1 .. n, new[i].id = new[j].id PROVE i = j
        <5>1. CASE i = n /\ j # n
          <6>1. new[i].id = entry.id /\ new[j].id = table[j + 1].id /\ j + 1 \in 1 .. n
            BY <3>4, <3>5, <5>1
          <6> QED BY <2>1, <4>1, <6>1
        <5>2. CASE i # n /\ j = n
          <6>1. new[j].id = entry.id /\ new[i].id = table[i + 1].id /\ i + 1 \in 1 .. n
            BY <3>4, <3>5, <5>2
          <6> QED BY <2>1, <4>1, <6>1
        <5>3. CASE i # n /\ j # n
          <6>1. /\ new[i].id = table[i + 1].id /\ i + 1 \in 1 .. n
                /\ new[j].id = table[j + 1].id /\ j + 1 \in 1 .. n
            BY <3>4, <3>5, <5>3
          <6>2. i + 1 = j + 1
            BY <1>1, <4>1, <6>1 DEF Once
          <6> QED BY <6>2
        <5> QED BY <5>1, <5>2, <5>3
      <4> QED BY <3>4, <4>1 DEF Once
    <3>7. \A i \in DOMAIN new :
              \/ new[i] = entry
              \/ \E j \in DOMAIN table : new[i] = table[j] /\ table[j].id # entry.id
      BY <1>1, <2>1, <3>4, <3>5
    <3> QED BY <1>3, <2>3, <3>4, <3>6, <3>7 DEF new, n
  <2> QED BY <2>2, <2>3
<1> QED BY <1>2, <1>3

LEMMA DeletedTable ==
    ASSUME NEW table \in Seq(Entries), Once(table), NEW id
    PROVE  LET new == Deleted(table, id)
           IN  /\ new \in Seq(Entries) /\ Once(new)
               /\ \A i \in DOMAIN new :
                      \E j \in DOMAIN table : new[i] = table[j] /\ table[j].id # id
               /\ IdsIn(new) = IdsIn(table) \ {id}
<1> DEFINE n == Len(table)
           new == Deleted(table, id)
           at == CHOOSE i \in DOMAIN table : table[i].id = id
<1>1. n \in Nat /\ DOMAIN table = 1 .. n /\ \A i \in 1 .. n : table[i] \in Entries
  OBVIOUS
<1>2. CASE id \notin IdsIn(table)
  BY <1>2 DEF Deleted, IdsIn
<1>3. CASE id \in IdsIn(table)
  <2>1. new = [i \in 1 .. n - 1 |-> table[IF i < at THEN i ELSE i + 1]]
    BY <1>3 DEF Deleted
  <2>2. at \in 1 .. n /\ table[at].id = id
    BY <1>1, <1>3 DEF IdsIn
  <2> HIDE DEF at, n
  <2>3. \A i \in 1 .. n - 1 : /\ new[i] = table[IF i < at THEN i ELSE i + 1]
                              /\ (IF i < at THEN i ELSE i + 1) \in 1 .. n
                              /\ (IF i < at THEN i ELSE i + 1) # at
    BY <1>1, <2>1, <2>2
  <2>4. DOMAIN new = 1 .. n - 1 /\ n - 1 \in Nat
    BY <1>1, <2>1, <2>2
  <2>5. new \in Seq(Entries)
    <3>1. new \in [1 .. n - 1 -> Entries]
      BY <1>1, <2>1, <2>3
    <3> QED BY <2>4, <3>1
  <2>6. \A i \in 1 .. n : i # at => table[i].id # id
    BY <1>1, <2>2 DEF Once
  <2>7. \A j \in 1 .. n : j # at => \E i \in 1 .. n - 1 : j = IF i < at THEN i ELSE i + 1
    <3> TAKE j \in 1 .. n
    <3> HAVE j # at
    <3>1. CASE j < at
      <4>1. j \in 1 .. n - 1
        BY <1>1, <2>2, <3>1
      <4> QED BY <3>1, <4>1
    <3>2. CASE ~(j < at)
      <4>1. j - 1 \in 1 .. n - 1 /\ ~(j - 1 < at) /\ j = (j - 1) + 1
        BY <1>1, <2>2, <3>2
      <4> QED BY <4>1
    <3> QED BY <3>1, <3>2
  <2> HIDE DEF new
  <2>8. Once(new)
    <3>1. ASSUME NEW i \in 1 .. n - 1, NEW j \in 1 .. n - 1, new[i].id = new[j].id
          PROVE  i = j
      <4> DEFINE p == IF i < at THEN i ELSE i + 1
                 q == IF j < at THEN j ELSE j + 1
      <4>1. p \in 1 .. n /\ q \in 1 .. n /\ table[p].id = table[q].id
        BY <2>3, <3>1
      <4>2. p = q
        <5> HIDE DEF p, q
        <5> QED BY <1>1, <4>1 DEF Once
      <4> QED BY <1>1, <2>2, <4>2
    <3> QED BY <2>4, <3>1 DEF Once
  <2>9. \A i \in DOMAIN new : \E j \in DOMAIN table : new[i] = table[j] /\ table[j].id # id
    BY <1>1, <2>3, <2>4, <2>6
  <2>10. IdsIn(new) = IdsIn(table) \ {id}
    <3>1. \A x \in IdsIn(new) : x \in IdsIn(table) \ {id}
      BY <2>9 DEF IdsIn
    <3>2. \A x \in IdsIn(table) \ {id} : x \in IdsIn(new)
      <4> TAKE x \in IdsIn(table) \ {id}
      <4>1. PICK j \in 1 .. n : table[j].id = x
        BY <1>1 DEF IdsIn
      <4>2. PICK i \in 1 .. n - 1 : j = IF i < at THEN i ELSE i + 1
        BY <2>2, <2>7, <4>1
      <4>3. new[i].id = x
        BY <2>3, <4>1, <4>2
      <4> QED BY <2>4, <4>3 DEF IdsIn
    <3> QED BY <3>1, <3>2
  <2> QED BY <2>5, <2>8, <2>9, <2>10 DEF new
<1> QED BY <1>2, <1>3

LEMMA AllOfTable ==
    ASSUME NEW rows \in [RowIds -> Versions]
    PROVE  AllOf(rows) \in Seq(Entries) /\ Once(AllOf(rows)) /\ Mirrors(AllOf(rows), rows, TRUE)
<1> DEFINE present == {id \in RowIds : rows[id] # Absent}
           ids == SetToSeq(present)
           all == [i \in 1 .. Cardinality(present) |-> Entry(ids[i], rows[ids[i]])]
<1>1. IsFiniteSet(present)
  <2>1. present \in SUBSET RowIds
    OBVIOUS
  <2> HIDE DEF present
  <2> QED BY <2>1, DataBoundsAssumption, FS_Subset
<1>2. PICK n \in Nat : /\ ids \in [1 .. n -> present]
                       /\ \A i, j \in 1 .. n : ids[i] = ids[j] => i = j
                       /\ \A x \in present : \E i \in 1 .. n : ids[i] = x
  BY <1>1, InOrderOfChoice
<1>3. AllOf(rows) = all
  BY DEF AllOf
<1>4. Cardinality(present) = n
  <2>1. 1 .. n = DOMAIN ids
    BY <1>2
  <2>2. \E f \in [1 .. Cardinality(present) -> present] : IsInjective(f)
    BY <1>1, FS_CardinalityType DEF ExistsBijection, Bijection, Injection
  <2>3. DOMAIN ids = 1 .. Cardinality(present)
    BY <2>2 DEF SetToSeq
  <2>4. Cardinality(1 .. n) = n /\ Cardinality(1 .. Cardinality(present)) = Cardinality(present)
    <3>1. Cardinality(present) \in Nat
      BY <1>1, FS_CardinalityType
    <3> HIDE DEF present
    <3> QED BY <3>1, FS_Interval, SMTT(20)
  <2> QED BY <2>1, <2>3, <2>4
<1> HIDE DEF ids
<1>5. \A i \in 1 .. n : ids[i] \in present /\ ids[i] \in RowIds
  BY <1>2
<1>6. /\ DOMAIN all = 1 .. n
      /\ \A i \in 1 .. n : /\ all[i] \in Entries
                           /\ all[i].id = ids[i] /\ all[i].version = rows[ids[i]]
  BY <1>4, <1>5, EntryParts, ZenonT(40)
<1>7. all \in Seq(Entries)
  <2>1. all = [i \in 1 .. n |-> Entry(ids[i], rows[ids[i]])]
    BY <1>4
  <2> HIDE DEF all
  <2>2. all \in [1 .. n -> Entries]
    BY <1>6, <2>1
  <2> QED BY <2>2
<1> HIDE DEF all
<1>8. Once(all)
  BY <1>2, <1>6 DEF Once
<1>9. IdsIn(all) = present
  <2> HIDE DEF present
  <2>1. \A x \in IdsIn(all) : x \in present
    BY <1>5, <1>6 DEF IdsIn
  <2>2. \A x \in present : x \in IdsIn(all)
    <3> TAKE x \in present
    <3>1. PICK i \in 1 .. n : ids[i] = x
      BY <1>2
    <3> QED BY <1>6, <3>1 DEF IdsIn
  <2> QED BY <2>1, <2>2
<1> QED BY <1>3, <1>6, <1>7, <1>8, <1>9 DEF Mirrors

-----------------------------------------------------------------------------
(***************************************************************************)
(* A row of a table changes.                                               *)
(***************************************************************************)
LEMMA OneTableChanges ==
    ASSUME NEW d, TablesInv(d), NEW e, NEW t \in StaticTables,
           e.db = d.db, e.opened = d.opened, e.listening = d.listening, e.snapshots = d.snapshots,
           d.db # 0 => \A s \in StaticTables \ {t} : e.rows[d.db][s] = d.rows[d.db][s],
           \A s \in StaticTables \ {t} :
               /\ e.tables[s] = d.tables[s]
               /\ s \in e.evicted <=> s \in d.evicted
               /\ s \in e.disturbed <=> s \in d.disturbed,
           Once(e.tables[t]),
           Shown(d, t) /\ t \notin e.disturbed =>
               Mirrors(e.tables[t], e.rows[d.db][t], t \notin e.evicted)
    PROVE  TablesInv(e)
<1>1. \A s \in StaticTables : Shown(e, s) <=> Shown(d, s)
  BY DEF Shown
<1>2. PresentIsLast(e) /\ TimersAreOfListeners(e) /\ TimersInOrder(e)
  BY DEF TablesInv, PresentIsLast, TimersAreOfListeners, TimersInOrder
<1>3. ShownLast(e)
  BY <1>1 DEF TablesInv, ShownLast
<1>4. \A s \in StaticTables : Once(e.tables[s])
  BY DEF TablesInv
<1>5. TablesMirror(e)
  <2> SUFFICES ASSUME NEW s \in StaticTables, s \notin e.disturbed, Shown(e, s)
               PROVE  Mirrors(e.tables[s], e.rows[d.db][s], s \notin e.evicted)
    BY DEF TablesMirror
  <2>1. Shown(d, s) /\ d.db # 0
    BY <1>1 DEF Shown
  <2>2. CASE s = t
    BY <2>1, <2>2
  <2>3. CASE s # t
    <3>1. s \notin d.disturbed
      BY <2>3
    <3>2. Mirrors(d.tables[s], d.rows[d.db][s], s \notin d.evicted)
      BY <2>1, <3>1 DEF TablesInv, TablesMirror
    <3>3. /\ s \notin e.evicted <=> s \notin d.evicted
          /\ e.tables[s] = d.tables[s] /\ e.rows[d.db][s] = d.rows[d.db][s]
      BY <2>1, <2>3
    <3>4. Mirrors(e.tables[s], e.rows[d.db][s], s \notin d.evicted)
      BY <3>2, <3>3, SMTT(20)
    <3>5. s \notin e.evicted => s \notin d.evicted
      BY <3>3
    <3> QED BY <3>4, <3>5 DEF Mirrors
  <2> QED BY <2>2, <2>3
<1> QED BY <1>2, <1>3, <1>4, <1>5 DEF TablesInv

Changed(d, s, t, id, version) == [d EXCEPT !.rows[s][t][id] = version]

LEMMA ChangedFields ==
    ASSUME NEW d \in DataRecords, NEW s \in Sessions, NEW t \in StaticTables, NEW id \in RowIds,
           NEW version \in Versions
    PROVE  LET e == Changed(d, s, t, id, version)
           IN  /\ e \in DataRecords
               /\ SameLoader(e, d) /\ SamePending(e, d)
               /\ e.db = d.db /\ e.opened = d.opened /\ e.listening = d.listening
               /\ e.snapshots = d.snapshots /\ e.tables = d.tables /\ e.evicted = d.evicted
               /\ e.disturbed = d.disturbed
               /\ \A x \in Sessions \ {s} : e.rows[x] = d.rows[x]
               /\ \A x \in StaticTables \ {t} : e.rows[s][x] = d.rows[s][x]
               /\ e.rows[s][t] = [d.rows[s][t] EXCEPT ![id] = version]
<1> DEFINE row == [d.rows[s][t] EXCEPT ![id] = version]
           ofSession == [d.rows[s] EXCEPT ![t] = row]
           rows == [d.rows EXCEPT ![s] = ofSession]
<1>1. /\ d.rows \in [Sessions -> [StaticTables -> [RowIds -> Versions]]]
      /\ d.rows[s] \in [StaticTables -> [RowIds -> Versions]]
      /\ d.rows[s][t] \in [RowIds -> Versions]
  BY DEF DataRecords
<1>2. row \in [RowIds -> Versions]
  BY <1>1
<1>3. Changed(d, s, t, id, version) = [d EXCEPT !.rows = rows]
  BY DEF Changed
<1> HIDE DEF row
<1>4. /\ ofSession \in [StaticTables -> [RowIds -> Versions]] /\ ofSession[t] = row
      /\ \A x \in StaticTables \ {t} : ofSession[x] = d.rows[s][x]
  BY <1>1, <1>2
<1> HIDE DEF ofSession
<1>5. /\ rows \in [Sessions -> [StaticTables -> [RowIds -> Versions]]] /\ rows[s] = ofSession
      /\ \A x \in Sessions \ {s} : rows[x] = d.rows[x]
  BY <1>1, <1>4
<1> HIDE DEF rows
<1>6. PICK e : e = Changed(d, s, t, id, version)
  OBVIOUS
<1>7. /\ e \in DataRecords
      /\ SameLoader(e, d) /\ SamePending(e, d)
      /\ e.db = d.db /\ e.opened = d.opened /\ e.listening = d.listening
      /\ e.snapshots = d.snapshots /\ e.tables = d.tables /\ e.evicted = d.evicted
      /\ e.disturbed = d.disturbed /\ e.rows = rows
  BY <1>3, <1>5, <1>6, ZenonT(60) DEF DataRecords, SameLoader, SamePending
<1> QED BY <1>4, <1>5, <1>6, <1>7 DEF row

Shows(d, t, table, evicted, disturbed) ==
    Recorded([d EXCEPT !.tables[t] = table, !.evicted = evicted, !.disturbed = disturbed])

LEMMA ShowsFields ==
    ASSUME NEW d \in DataRecords, NEW t \in StaticTables, NEW table \in Seq(Entries),
           NEW evicted \in SUBSET StaticTables, NEW disturbed \in SUBSET StaticTables
    PROVE  LET e == Shows(d, t, table, evicted, disturbed)
           IN  /\ e \in DataRecords
               /\ SameLoader(e, d) /\ e.pendingUpdates /\ e.updateTimer
               /\ e.db = d.db /\ e.opened = d.opened /\ e.listening = d.listening
               /\ e.snapshots = d.snapshots /\ e.rows = d.rows
               /\ e.tables[t] = table /\ e.evicted = evicted /\ e.disturbed = disturbed
               /\ \A s \in StaticTables \ {t} : e.tables[s] = d.tables[s]
<1> DEFINE tables == [d.tables EXCEPT ![t] = table]
<1>1. d.tables \in [StaticTables -> Seq(Entries)]
  BY DEF DataRecords
<1>2. /\ tables \in [StaticTables -> Seq(Entries)] /\ tables[t] = table
      /\ \A s \in StaticTables \ {t} : tables[s] = d.tables[s]
  BY <1>1
<1>3. PICK e : e = Shows(d, t, table, evicted, disturbed)
  OBVIOUS
<1>4. e = [d EXCEPT !.tables = tables, !.evicted = evicted, !.disturbed = disturbed,
                    !.pendingUpdates = TRUE, !.updateTimer = TRUE]
  BY <1>3 DEF Shows, Recorded
<1> HIDE DEF tables
<1>5. /\ e \in DataRecords
      /\ SameLoader(e, d) /\ e.pendingUpdates /\ e.updateTimer
      /\ e.db = d.db /\ e.opened = d.opened /\ e.listening = d.listening
      /\ e.snapshots = d.snapshots /\ e.rows = d.rows
      /\ e.tables = tables /\ e.evicted = evicted /\ e.disturbed = disturbed
  BY <1>2, <1>4, ZenonT(40) DEF DataRecords, SameLoader
<1> QED BY <1>2, <1>3, <1>5

LEMMA RowChangeInv ==
    ASSUME NEW d, DataInv(d), NEW s \in Sessions, NEW t \in StaticTables, NEW id \in RowIds,
           NEW version \in Versions
    PROVE  DataInv(Told(Changed(d, s, t, id, version), s, t, id, version))
<1>0. PICK c : c = Changed(d, s, t, id, version)
  OBVIOUS
<1>1. d \in DataRecords /\ TablesInv(d) /\ LoadInv(d)
  BY DEF DataInv
<1>2. /\ c \in DataRecords
      /\ SameLoader(c, d) /\ SamePending(c, d)
      /\ c.db = d.db /\ c.opened = d.opened /\ c.listening = d.listening
      /\ c.snapshots = d.snapshots /\ c.tables = d.tables /\ c.evicted = d.evicted
      /\ c.disturbed = d.disturbed
      /\ \A x \in Sessions \ {s} : c.rows[x] = d.rows[x]
      /\ \A x \in StaticTables \ {t} : c.rows[s][x] = d.rows[s][x]
      /\ c.rows[s][t] = [d.rows[s][t] EXCEPT ![id] = version]
  BY <1>0, <1>1, ChangedFields
<1>3. /\ d.rows[s][t] \in [RowIds -> Versions]
      /\ d.tables[t] \in Seq(Entries) /\ d.evicted \in SUBSET StaticTables
      /\ d.disturbed \in SUBSET StaticTables /\ d.db \in 0 .. MaxSessions
      /\ Once(d.tables[t])
  BY <1>1 DEF DataRecords, TablesInv
<1> DEFINE table == d.tables[t]
           rows == c.rows[s][t]
           disturbed == IF s = d.db THEN d.disturbed ELSE d.disturbed \cup {t}
<1>4. \A i \in RowIds : rows[i] = IF i = id THEN version ELSE d.rows[s][t][i]
  BY <1>2, <1>3
<1>5. /\ disturbed \in SUBSET StaticTables
      /\ \A x \in StaticTables \ {t} : x \in disturbed <=> x \in d.disturbed
      /\ t \notin disturbed => s = d.db /\ t \notin d.disturbed
  BY <1>3
<1>6. ASSUME NEW new \in Seq(Entries), Once(new), NEW evicted \in SUBSET StaticTables,
             \A x \in StaticTables \ {t} : x \in evicted <=> x \in d.evicted,
             Shown(d, t) /\ t \notin disturbed => Mirrors(new, rows, t \notin evicted)
      PROVE  DataInv(Shows(c, t, new, evicted, disturbed))
  <2> HIDE DEF disturbed
  <2>0. PICK e : e = Shows(c, t, new, evicted, disturbed)
    OBVIOUS
  <2>1. /\ e \in DataRecords
        /\ SameLoader(e, c) /\ e.pendingUpdates /\ e.updateTimer
        /\ e.db = c.db /\ e.opened = c.opened /\ e.listening = c.listening
        /\ e.snapshots = c.snapshots /\ e.rows = c.rows
        /\ e.tables[t] = new /\ e.evicted = evicted /\ e.disturbed = disturbed
        /\ \A x \in StaticTables \ {t} : e.tables[x] = c.tables[x]
    <3>1. c \in DataRecords /\ new \in Seq(Entries) /\ evicted \in SUBSET StaticTables
      BY <1>2, <1>6
    <3>2. disturbed \in SUBSET StaticTables
      BY <1>5
    <3>3. PICK g \in SUBSET StaticTables : g = disturbed
      BY <3>2
    <3>4. e = Shows(c, t, new, evicted, g)
      BY <2>0, <3>3
    <3> QED BY <3>1, <3>3, <3>4, ShowsFields
  <2>2. TablesInv(e)
    <3>1. d.db # 0 => \A x \in StaticTables \ {t} : e.rows[d.db][x] = d.rows[d.db][x]
      <4>1. d.db # 0 /\ d.db # s => e.rows[d.db] = d.rows[d.db]
        BY <1>2, <1>3, <2>1, DataBoundsAssumption DEF Sessions
      <4> QED BY <1>2, <2>1, <4>1
    <3>2. \A x \in StaticTables \ {t} :
               /\ e.tables[x] = d.tables[x]
               /\ x \in e.evicted <=> x \in d.evicted
               /\ x \in e.disturbed <=> x \in d.disturbed
      BY <1>2, <1>5, <1>6, <2>1
    <3>3. Once(e.tables[t])
      BY <1>6, <2>1
    <3>4. Shown(d, t) /\ t \notin e.disturbed =>
              Mirrors(e.tables[t], e.rows[d.db][t], t \notin e.evicted)
      BY <1>5, <1>6, <2>1
    <3>5. e.db = d.db /\ e.opened = d.opened /\ e.listening = d.listening /\ e.snapshots = d.snapshots
      BY <1>2, <2>1
    <3> QED BY <1>1, <3>1, <3>2, <3>3, <3>4, <3>5, OneTableChanges
  <2>3. LoadInv(e)
    BY <1>1, <1>2, <2>1, SameLoaderKeeps
  <2> QED BY <2>0, <2>1, <2>2, <2>3 DEF DataInv
<1>7. Shown(d, t) /\ t \notin disturbed => Mirrors(table, d.rows[s][t], t \notin d.evicted)
  BY <1>1, <1>5 DEF TablesInv, TablesMirror
<1>8. \A i \in DOMAIN table : table[i].id \in RowIds
  <2>1. table \in Seq(Entries)
    BY <1>3
  <2> HIDE DEF table
  <2>2. \A i \in DOMAIN table : table[i] \in Entries
    BY <2>1
  <2> QED BY <2>2 DEF Entries
<1>9. CASE version = Absent
  <2> DEFINE new == Deleted(table, id)
  <2>1. /\ new \in Seq(Entries) /\ Once(new)
        /\ \A i \in DOMAIN new : \E j \in DOMAIN table : new[i] = table[j] /\ table[j].id # id
        /\ IdsIn(new) = IdsIn(table) \ {id}
    BY <1>3, DeletedTable
  <2>2. Told(c, s, t, id, version) = Shows(c, t, new, d.evicted, disturbed)
    BY <1>2, <1>9 DEF Told, Shows
  <2> HIDE DEF new, table, rows, disturbed
  <2>3. Shown(d, t) /\ t \notin disturbed => Mirrors(new, rows, t \notin d.evicted)
    <3> HAVE Shown(d, t) /\ t \notin disturbed
    <3>1. \A i \in DOMAIN new : new[i].version = rows[new[i].id]
      BY <1>4, <1>7, <1>8, <2>1 DEF Mirrors
    <3>2. ASSUME t \notin d.evicted PROVE IdsIn(new) = {i \in RowIds : rows[i] # Absent}
      <4>1. IdsIn(table) = {i \in RowIds : d.rows[s][t][i] # Absent}
        BY <1>7, <3>2 DEF Mirrors
      <4> QED BY <1>4, <1>9, <2>1, <4>1
    <3> QED BY <3>1, <3>2 DEF Mirrors
  <2>4. DataInv(Shows(c, t, new, d.evicted, disturbed))
    BY <1>3, <1>6, <2>1, <2>3
  <2> QED BY <1>0, <2>2, <2>4
<1>10. CASE version # Absent
  <2> DEFINE entry == Entry(id, version)
             new == Upserted(table, entry)
             full == id \notin IdsIn(table) /\ Len(table) >= MaxCacheSize
             evicted == IF full THEN d.evicted \cup {t} ELSE d.evicted
  <2>1. entry \in Entries /\ entry.id = id /\ entry.version = version
    BY EntryParts
  <2> HIDE DEF entry
  <2>2. /\ new \in Seq(Entries) /\ Once(new)
        /\ \A i \in DOMAIN new :
               \/ new[i] = entry
               \/ \E j \in DOMAIN table : new[i] = table[j] /\ table[j].id # id
        /\ id \in IdsIn(table) \/ Len(table) < MaxCacheSize => IdsIn(new) = IdsIn(table) \cup {id}
    BY <1>3, <2>1, UpsertedTable, ZenonT(40)
  <2>3. Told(c, s, t, id, version) = Shows(c, t, new, evicted, disturbed)
    BY <1>2, <1>10 DEF Told, Shows, entry
  <2>4. evicted \in SUBSET StaticTables /\ \A x \in StaticTables \ {t} : x \in evicted <=> x \in d.evicted
    BY <1>3
  <2>5. t \notin evicted => t \notin d.evicted /\ (id \in IdsIn(table) \/ Len(table) < MaxCacheSize)
    BY <1>3, SizesAssumption
  <2> HIDE DEF new, table, rows, evicted, disturbed
  <2>6. Shown(d, t) /\ t \notin disturbed => Mirrors(new, rows, t \notin evicted)
    <3> HAVE Shown(d, t) /\ t \notin disturbed
    <3>1. \A i \in DOMAIN new : new[i].version = rows[new[i].id]
      BY <1>4, <1>7, <1>8, <2>1, <2>2 DEF Mirrors
    <3>2. ASSUME t \notin evicted PROVE IdsIn(new) = {i \in RowIds : rows[i] # Absent}
      <4>1. IdsIn(table) = {i \in RowIds : d.rows[s][t][i] # Absent}
        BY <1>7, <2>5, <3>2 DEF Mirrors
      <4> QED BY <1>4, <1>10, <2>2, <2>5, <3>2, <4>1
    <3> QED BY <3>1, <3>2 DEF Mirrors
  <2>7. DataInv(Shows(c, t, new, evicted, disturbed))
    BY <1>6, <2>2, <2>4, <2>6
  <2> QED BY <1>0, <2>3, <2>7
<1> QED BY <1>9, <1>10

-----------------------------------------------------------------------------
(***************************************************************************)
(* The timer of a snapshot.  When that of the present connection fires,    *)
(* none of an earlier one is left for the table.                           *)
(***************************************************************************)
Popped(d) == [d EXCEPT !.snapshots = Tail(@)]

LEMMA PoppedFields ==
    ASSUME NEW d \in DataRecords, d.snapshots # <<>>
    PROVE  /\ Popped(d) \in DataRecords
           /\ SameLoader(Popped(d), d) /\ SamePending(Popped(d), d)
           /\ Popped(d).db = d.db /\ Popped(d).opened = d.opened
           /\ Popped(d).listening = d.listening /\ Popped(d).rows = d.rows
           /\ Popped(d).tables = d.tables /\ Popped(d).evicted = d.evicted
           /\ Popped(d).disturbed = d.disturbed
           /\ Popped(d).snapshots = Tail(d.snapshots)
<1> DEFINE tail == Tail(d.snapshots)
<1>1. tail \in Seq(Sessions \X StaticTables)
  BY DEF DataRecords
<1>2. Popped(d) = [d EXCEPT !.snapshots = tail]
  BY DEF Popped
<1> HIDE DEF tail
<1>3. /\ Popped(d) \in DataRecords
      /\ SameLoader(Popped(d), d) /\ SamePending(Popped(d), d)
      /\ Popped(d).db = d.db /\ Popped(d).opened = d.opened
      /\ Popped(d).listening = d.listening /\ Popped(d).rows = d.rows
      /\ Popped(d).tables = d.tables /\ Popped(d).evicted = d.evicted
      /\ Popped(d).disturbed = d.disturbed /\ Popped(d).snapshots = tail
  BY <1>1, <1>2 DEF DataRecords, SameLoader, SamePending
<1> QED BY <1>3 DEF tail

DisturbedBy(d, s, t) == IF s = d.db THEN d.disturbed \ {t} ELSE d.disturbed \cup {t}

LEMMA SnapshotShown ==
    ASSUME NEW d, DataInv(d), d.snapshots # <<>>,
           NEW s, NEW t, Head(d.snapshots) = <<s, t>>
    PROVE  LET e == Shows(Popped(d), t, AllOf(d.rows[s][t]), d.evicted \ {t}, DisturbedBy(d, s, t))
           IN  DataInv(e) /\ e.loads = d.loads /\ t \in StaticTables
<1> DEFINE n == Len(d.snapshots)
           table == AllOf(d.rows[s][t])
           evicted == d.evicted \ {t}
           disturbed == DisturbedBy(d, s, t)
<1>0. PICK p : p = Popped(d)
  OBVIOUS
<1>1. d \in DataRecords /\ TablesInv(d) /\ LoadInv(d) /\ evicted \in SUBSET StaticTables
  BY DEF DataInv, DataRecords
<1>2. /\ p \in DataRecords
      /\ SameLoader(p, d) /\ p.db = d.db /\ p.opened = d.opened
      /\ p.listening = d.listening /\ p.rows = d.rows
      /\ p.tables = d.tables /\ p.evicted = d.evicted /\ p.snapshots = Tail(d.snapshots)
      /\ p.disturbed = d.disturbed
  BY <1>0, <1>1, PoppedFields
<1>3. /\ d.snapshots \in Seq(Sessions \X StaticTables) /\ n \in Nat \ {0}
      /\ DOMAIN d.snapshots = 1 .. n
      /\ \A i \in 1 .. n : d.snapshots[i][1] \in Sessions /\ d.snapshots[i][2] \in StaticTables
      /\ d.snapshots[1] = <<s, t>>
  <2>1. d.snapshots \in Seq(Sessions \X StaticTables)
    BY <1>1 DEF DataRecords
  <2>2. n \in Nat \ {0} /\ DOMAIN d.snapshots = 1 .. n /\ d.snapshots[1] = <<s, t>>
    BY <2>1
  <2>3. \A i \in 1 .. n : d.snapshots[i] \in Sessions \X StaticTables
    BY <2>1
  <2> QED BY <2>1, <2>2, <2>3
<1>4. s \in Sessions /\ t \in StaticTables /\ 1 \in 1 .. n
  <2>1. 1 \in 1 .. n
    BY <1>3
  <2>2. d.snapshots[1][1] = s /\ d.snapshots[1][2] = t
    BY <1>3
  <2> QED BY <1>3, <2>1, <2>2
<1>5. /\ DOMAIN p.snapshots = 1 .. n - 1
      /\ \A i \in 1 .. n - 1 : p.snapshots[i] = d.snapshots[i + 1] /\ i + 1 \in 1 .. n
  BY <1>2, <1>3
<1>6. table \in Seq(Entries) /\ Once(table) /\ Mirrors(table, d.rows[s][t], TRUE)
  <2>1. d.rows[s][t] \in [RowIds -> Versions]
    BY <1>1, <1>4 DEF DataRecords
  <2> QED BY <2>1, AllOfTable
<1>61. /\ disturbed \in SUBSET StaticTables
       /\ \A x \in StaticTables \ {t} : x \in disturbed <=> x \in d.disturbed
  BY <1>1, <1>4 DEF DisturbedBy, DataRecords
<1> HIDE DEF table, n, evicted, disturbed
<1>7. PICK e : e = Shows(p, t, table, evicted, disturbed)
  OBVIOUS
<1>8. /\ e \in DataRecords
      /\ SameLoader(e, p) /\ e.pendingUpdates /\ e.updateTimer
      /\ e.db = p.db /\ e.opened = p.opened /\ e.listening = p.listening
      /\ e.snapshots = p.snapshots /\ e.rows = p.rows
      /\ e.tables[t] = table /\ e.evicted = evicted /\ e.disturbed = disturbed
      /\ \A x \in StaticTables \ {t} : e.tables[x] = p.tables[x]
  BY <1>1, <1>2, <1>4, <1>6, <1>7, <1>61, ShowsFields
<1>9. /\ e.db = d.db /\ e.opened = d.opened /\ e.listening = d.listening /\ e.rows = d.rows
      /\ DOMAIN e.snapshots = 1 .. n - 1
      /\ \A i \in 1 .. n - 1 : e.snapshots[i] = d.snapshots[i + 1] /\ i + 1 \in 1 .. n
  BY <1>2, <1>5, <1>8
<1>10. PresentIsLast(e) /\ TimersAreOfListeners(e)
  <2>1. PresentIsLast(e)
    BY <1>1, <1>9 DEF TablesInv, PresentIsLast
  <2>2. TimersAreOfListeners(d)
    BY <1>1 DEF TablesInv
  <2>3. \A i \in 1 .. n - 1 : /\ d.snapshots[i + 1][1] <= d.opened
                             /\ d.snapshots[i + 1][2] \in d.listening[d.snapshots[i + 1][1]]
    BY <1>3, <1>9, <2>2 DEF TimersAreOfListeners
  <2>4. TimersAreOfListeners(e)
    BY <1>9, <2>3 DEF TimersAreOfListeners
  <2> QED BY <2>1, <2>4
<1>11. TimersInOrder(e)
  <2>1. ASSUME NEW i \in 1 .. n - 1, NEW j \in 1 .. n - 1, i < j
        PROVE  /\ d.snapshots[i + 1][1] <= d.snapshots[j + 1][1]
               /\ d.snapshots[i + 1][2] = d.snapshots[j + 1][2] =>
                      d.snapshots[i + 1][1] # d.snapshots[j + 1][1]
    <3>1. i + 1 \in 1 .. n /\ j + 1 \in 1 .. n /\ i + 1 < j + 1
      BY <1>3, <2>1
    <3> QED BY <1>1, <1>3, <3>1, Zenon DEF TablesInv, TimersInOrder
  <2> QED BY <1>9, <2>1 DEF TimersInOrder
<1>12. ASSUME NEW x \in StaticTables, x # t, Shown(e, x) PROVE Shown(d, x)
  <2>1. d.db # 0 /\ x \in d.listening[d.db] /\ <<d.db, x>> \notin ToSet(e.snapshots)
    BY <1>9, <1>12 DEF Shown
  <2>2. ASSUME NEW i \in 1 .. n, d.snapshots[i] = <<d.db, x>> PROVE FALSE
    <3>1. i # 1
      BY <1>3, <1>12, <2>2
    <3>2. i - 1 \in 1 .. n - 1 /\ (i - 1) + 1 = i
      BY <1>3, <3>1
    <3>3. e.snapshots[i - 1] = <<d.db, x>> /\ i - 1 \in DOMAIN e.snapshots
      BY <1>9, <2>2, <3>2
    <3> QED BY <2>1, <3>3 DEF ToSet
  <2> QED BY <1>3, <2>1, <2>2 DEF Shown, ToSet
<1>13. ASSUME Shown(e, t)
       PROVE  s = d.db /\ \A i \in 1 .. n - 1 : e.snapshots[i][2] # t
  <2>1. d.db # 0 /\ d.db = d.opened /\ t \in d.listening[d.db] /\ <<d.db, t>> \notin ToSet(e.snapshots)
    BY <1>1, <1>9, <1>13 DEF Shown, TablesInv, PresentIsLast
  <2>2. s = d.db
    <3>1. ASSUME s # d.db PROVE FALSE
      <4>1. ASSUME NEW i \in 1 .. n, d.snapshots[i] = <<d.db, t>> PROVE FALSE
        <5>1. i # 1
          BY <1>3, <3>1, <4>1
        <5>2. i - 1 \in 1 .. n - 1 /\ (i - 1) + 1 = i
          BY <1>3, <5>1
        <5>3. e.snapshots[i - 1] = <<d.db, t>> /\ i - 1 \in DOMAIN e.snapshots
          BY <1>9, <4>1, <5>2
        <5> QED BY <2>1, <5>3 DEF ToSet
      <4>2. Shown(d, t)
        BY <1>3, <2>1, <4>1 DEF Shown, ToSet
      <4>3. d.snapshots[1][2] # t
        BY <1>1, <1>3, <1>4, <4>2 DEF TablesInv, ShownLast
      <4> QED BY <1>3, <4>3
    <3> QED BY <3>1
  <2>3. ASSUME NEW i \in 1 .. n - 1, e.snapshots[i][2] = t PROVE FALSE
    <3>1. /\ i + 1 \in 1 .. n /\ 1 < i + 1 /\ d.snapshots[i + 1][2] = t
          /\ d.snapshots[1][2] = t /\ d.snapshots[1][1] = s
      BY <1>3, <1>9, <2>3
    <3>2. d.snapshots[1][1] <= d.snapshots[i + 1][1] /\ d.snapshots[1][1] # d.snapshots[i + 1][1]
      BY <1>1, <1>3, <1>4, <3>1 DEF TablesInv, TimersInOrder
    <3>3. d.snapshots[i + 1][1] <= d.opened /\ d.snapshots[i + 1][1] \in Int
      BY <1>1, <1>3, <3>1, SMTT(20) DEF TablesInv, TimersAreOfListeners, Sessions
    <3>4. s \in Int
      BY <1>4 DEF Sessions
    <3> QED BY <2>1, <2>2, <3>1, <3>2, <3>3, <3>4
  <2> QED BY <2>2, <2>3
<1>14. ShownLast(e)
  <2>1. ASSUME NEW x \in StaticTables, x # t, Shown(e, x), NEW i \in 1 .. n - 1
        PROVE  e.snapshots[i][2] # x
    <3>1. Shown(d, x)
      BY <1>12, <2>1
    <3> QED BY <1>1, <1>3, <1>9, <3>1 DEF TablesInv, ShownLast
  <2> QED BY <1>9, <1>13, <2>1 DEF ShownLast
<1>15. \A x \in StaticTables : Once(e.tables[x])
  <2>1. ASSUME NEW x \in StaticTables \ {t} PROVE Once(e.tables[x])
    <3>1. e.tables[x] = d.tables[x]
      BY <1>2, <1>8, <2>1
    <3> QED BY <1>1, <2>1, <3>1 DEF TablesInv
  <2> QED BY <1>6, <1>8, <2>1
<1>16. TablesMirror(e)
  <2> SUFFICES ASSUME NEW x \in StaticTables, x \notin e.disturbed, Shown(e, x)
               PROVE  Mirrors(e.tables[x], d.rows[d.db][x], x \notin e.evicted)
    BY <1>9 DEF TablesMirror
  <2>1. CASE x = t
    <3>1. s = d.db /\ e.tables[x] = table
      BY <1>8, <1>13, <2>1
    <3> QED BY <1>6, <2>1, <3>1 DEF Mirrors
  <2>2. CASE x # t
    <3>1. Mirrors(d.tables[x], d.rows[d.db][x], x \notin d.evicted)
      BY <1>1, <1>8, <1>12, <1>61, <2>2 DEF TablesInv, TablesMirror
    <3>2. e.tables[x] = d.tables[x] /\ (x \in e.evicted <=> x \in d.evicted)
      BY <1>2, <1>8, <2>2 DEF evicted
    <3> QED BY <3>1, <3>2 DEF Mirrors
  <2> QED BY <2>1, <2>2
<1>17. TablesInv(e)
  BY <1>10, <1>11, <1>14, <1>15, <1>16 DEF TablesInv
<1>18. SameLoader(e, d)
  BY <1>2, <1>8 DEF SameLoader
<1>19. DataInv(e) /\ e.loads = d.loads
  BY <1>1, <1>8, <1>17, <1>18, SameLoaderKeeps DEF DataInv, SameLoader
<1> QED BY <1>0, <1>4, <1>7, <1>19 DEF table, evicted, disturbed

LEMMA SnapshotInv ==
    ASSUME NEW d, DataInv(d), d.snapshots # <<>>
    PROVE  DataInv(Snapshot(Popped(d), Head(d.snapshots)[1], Head(d.snapshots)[2]))
<1>1. d \in DataRecords /\ d.snapshots \in Seq(Sessions \X StaticTables)
  BY DEF DataInv, DataRecords
<1>2. PICK s \in Sessions, t \in StaticTables : Head(d.snapshots) = <<s, t>>
  <2>1. Head(d.snapshots) \in Sessions \X StaticTables
    BY <1>1
  <2> QED BY <2>1
<1> DEFINE e == Shows(Popped(d), t, AllOf(d.rows[s][t]), d.evicted \ {t}, DisturbedBy(d, s, t))
           T == Waiting(d, t)
           waiting == SetToSeq(T)
           ids == [i \in DOMAIN waiting |-> <<waiting[i], t>>]
<1>3. DataInv(e) /\ e.loads = d.loads
  BY <1>2, SnapshotShown
<1>4. Snapshot(Popped(d), s, t) = TellingsAlong(e, ids)
  <2>1. /\ Popped(d).rows = d.rows /\ Popped(d).loads = d.loads /\ Popped(d).evicted = d.evicted
        /\ Popped(d).db = d.db /\ Popped(d).disturbed = d.disturbed
    BY <1>1, PoppedFields DEF SameLoader
  <2>2. Waiting(Popped(d), t) = T
    BY <2>1 DEF Waiting
  <2>3. e = Recorded([Popped(d) EXCEPT !.tables[t] = AllOf(Popped(d).rows[s][t]),
                                       !.evicted = Popped(d).evicted \ {t},
                                       !.disturbed = IF s = Popped(d).db
                                                     THEN Popped(d).disturbed \ {t}
                                                     ELSE Popped(d).disturbed \cup {t}])
    BY <2>1 DEF Shows, DisturbedBy
  <2> HIDE DEF e, T
  <2> QED BY <2>2, <2>3 DEF Snapshot, TellingsAlong
<1> HIDE DEF e
<1>5. T \in SUBSET LoadIds /\ \A l \in T : e.loads[l].of[t].phase = "waiting"
  BY <1>3 DEF Waiting
<1> HIDE DEF T
<1>6. DataInv(TellingsAlong(e, ids))
  BY <1>3, <1>5, TellingsInv
<1> QED BY <1>2, <1>4, <1>6

-----------------------------------------------------------------------------
(***************************************************************************)
(* The connection comes and goes.                                          *)
(***************************************************************************)
BuiltAnew(d) ==
    [d EXCEPT !.db = d.opened + 1, !.opened = d.opened + 1, !.connectionState = "connecting",
              !.socket[d.opened + 1] = "opening", !.pending = @ \cup {d.opened + 1}]

LEMMA SessionBuiltInv ==
    ASSUME NEW d, DataInv(d), d.opened < MaxSessions
    PROVE  DataInv(BuiltAnew(d))
<1> DEFINE n == d.opened + 1
           sockets == [d.socket EXCEPT ![n] = "opening"]
           pending == d.pending \cup {n}
<1>1. d \in DataRecords /\ TablesInv(d) /\ LoadInv(d)
  BY DEF DataInv
<1>2. n \in Sessions /\ n \in 0 .. MaxSessions /\ d.opened \in Nat /\ n > d.opened
  BY <1>1, DataBoundsAssumption DEF DataRecords, Sessions
<1>3. PICK e : e = [d EXCEPT !.db = n, !.opened = n, !.connectionState = "connecting",
                             !.socket = sockets, !.pending = pending]
  OBVIOUS
<1>4. e = BuiltAnew(d)
  BY <1>3 DEF BuiltAnew
<1> HIDE DEF n
<1>41. sockets \in [Sessions -> {"opening", "open", "closed"}] /\ pending \in SUBSET Sessions
  BY <1>1, <1>2 DEF DataRecords
<1> HIDE DEF sockets, pending
<1>5. /\ e \in DataRecords /\ SameLoader(e, d) /\ SamePending(e, d)
      /\ e.db = n /\ e.opened = n /\ e.rows = d.rows /\ e.listening = d.listening
      /\ e.snapshots = d.snapshots /\ e.tables = d.tables
  BY <1>1, <1>2, <1>3, <1>41 DEF DataRecords, SameLoader, SamePending
<1>6. e.listening[n] = {}
  BY <1>1, <1>2, <1>5 DEF TablesInv, PresentIsLast
<1>7. \A t \in StaticTables : ~Shown(e, t)
  BY <1>5, <1>6 DEF Shown
<1>8. PresentIsLast(e)
  BY <1>1, <1>2, <1>5 DEF TablesInv, PresentIsLast, Sessions
<1>9. TimersAreOfListeners(e)
  <2>1. \A i \in DOMAIN d.snapshots : d.snapshots[i][1] \in Sessions
    <3>1. d.snapshots \in Seq(Sessions \X StaticTables)
      BY <1>1 DEF DataRecords
    <3>2. \A i \in DOMAIN d.snapshots : d.snapshots[i] \in Sessions \X StaticTables
      BY <3>1
    <3> QED BY <3>2
  <2>2. \A i \in DOMAIN d.snapshots : d.snapshots[i][1] <= n
    BY <1>1, <1>2, <2>1 DEF TablesInv, TimersAreOfListeners, Sessions
  <2> QED BY <1>1, <1>5, <2>2 DEF TablesInv, TimersAreOfListeners
<1>10. TimersInOrder(e) /\ \A t \in StaticTables : Once(e.tables[t])
  BY <1>1, <1>5 DEF TablesInv, TimersInOrder
<1>11. ShownLast(e) /\ TablesMirror(e)
  BY <1>7 DEF ShownLast, TablesMirror
<1>12. LoadInv(e)
  BY <1>1, <1>5, SameLoaderKeeps
<1> QED BY <1>1, <1>4, <1>5, <1>8, <1>9, <1>10, <1>11, <1>12 DEF DataInv, TablesInv, SamePending

(***************************************************************************)
(* A socket opens or closes, which changes nothing but what is known of    *)
(* the connection.                                                         *)
(***************************************************************************)
LEMMA SocketInv ==
    ASSUME NEW d, DataInv(d), NEW s \in Sessions
    PROVE  /\ DataInv([d EXCEPT !.socket[s] = "open", !.pending = @ \ {s},
                                !.connectionState = IF s \in d.pending THEN "connected" ELSE @])
           /\ DataInv([d EXCEPT !.socket[s] = "closed", !.connectionState = "disconnected"])
<1>1. /\ d \in DataRecords /\ TablesInv(d) /\ LoadInv(d)
      /\ d.pendingUpdates => d.updateTimer
  BY DEF DataInv
<1>2. ASSUME NEW sockets \in [Sessions -> {"opening", "open", "closed"}],
             NEW pending \in SUBSET Sessions,
             NEW state \in {"disconnected", "connecting", "connected", "failed"}
      PROVE  DataInv([d EXCEPT !.socket = sockets, !.pending = pending, !.connectionState = state])
  <2>1. PICK e : e = [d EXCEPT !.socket = sockets, !.pending = pending, !.connectionState = state]
    OBVIOUS
  <2>2. /\ e \in DataRecords /\ SameTables(e, d) /\ SameLoader(e, d) /\ SamePending(e, d)
    BY <1>1, <2>1 DEF DataRecords, SameTables, SameLoader, SamePending
  <2> QED BY <1>1, <2>1, <2>2, SameTablesKeeps, SameLoaderKeeps DEF DataInv, SamePending
<1> DEFINE open == [d.socket EXCEPT ![s] = "open"]
           closed == [d.socket EXCEPT ![s] = "closed"]
           pending == d.pending \ {s}
           state == IF s \in d.pending THEN "connected" ELSE d.connectionState
<1>3. /\ open \in [Sessions -> {"opening", "open", "closed"}]
      /\ closed \in [Sessions -> {"opening", "open", "closed"}]
      /\ pending \in SUBSET Sessions /\ d.pending \in SUBSET Sessions
      /\ state \in {"disconnected", "connecting", "connected", "failed"}
  BY <1>1 DEF DataRecords
<1>4. /\ [d EXCEPT !.socket[s] = "open", !.pending = @ \ {s},
                   !.connectionState = IF s \in d.pending THEN "connected" ELSE @]
            = [d EXCEPT !.socket = open, !.pending = pending, !.connectionState = state]
      /\ [d EXCEPT !.socket[s] = "closed", !.connectionState = "disconnected"]
            = [d EXCEPT !.socket = closed, !.pending = d.pending, !.connectionState = "disconnected"]
  BY <1>1 DEF DataRecords
<1> HIDE DEF open, closed, pending, state
<1>5. DataInv([d EXCEPT !.socket = open, !.pending = pending, !.connectionState = state])
  BY <1>2, <1>3
<1>6. DataInv([d EXCEPT !.socket = closed, !.pending = d.pending, !.connectionState = "disconnected"])
  BY <1>2, <1>3
<1> QED BY <1>4, <1>5, <1>6

LEMMA ClientDisconnectInv ==
    ASSUME NEW d, DataInv(d)
    PROVE  DataInv([d EXCEPT !.subscriptions = {}, !.tables = [t \in StaticTables |-> <<>>],
                             !.evicted = {}, !.disturbed = StaticTables,
                             !.db = IF d.connectionState = "disconnected" THEN @ ELSE 0,
                             !.connectionState = "disconnected"])
<1> DEFINE none == [t \in StaticTables |-> <<>>]
           db == IF d.connectionState = "disconnected" THEN d.db ELSE 0
           nobody == {}
<1>1. d \in DataRecords /\ TablesInv(d) /\ LoadInv(d)
  BY DEF DataInv
<1>2. PICK e : e = [d EXCEPT !.subscriptions = nobody, !.tables = none, !.evicted = nobody,
                             !.disturbed = StaticTables, !.db = db,
                             !.connectionState = "disconnected"]
  OBVIOUS
<1>3. none \in [StaticTables -> Seq(Entries)] /\ \A t \in StaticTables : Once(none[t])
  BY DEF Once
<1>4. db \in 0 .. MaxSessions /\ db \in {0, d.db} /\ (db # 0 => db = d.db)
  BY <1>1, DataBoundsAssumption DEF DataRecords
<1>5. nobody \in SUBSET Nat /\ nobody \in SUBSET StaticTables
  OBVIOUS
<1>6. e = [d EXCEPT !.subscriptions = {}, !.tables = [t \in StaticTables |-> <<>>],
                    !.evicted = {}, !.disturbed = StaticTables,
                    !.db = IF d.connectionState = "disconnected" THEN @ ELSE 0,
                    !.connectionState = "disconnected"]
  BY <1>2
<1> HIDE DEF none, db, nobody
<1>7. /\ e \in DataRecords /\ SameLoader(e, d) /\ SamePending(e, d)
      /\ e.db = db /\ e.opened = d.opened /\ e.listening = d.listening
      /\ e.snapshots = d.snapshots /\ e.tables = none /\ e.disturbed = StaticTables
  BY <1>1, <1>2, <1>3, <1>4, <1>5 DEF DataRecords, SameLoader, SamePending
<1>8. PresentIsLast(e) /\ TimersAreOfListeners(e) /\ TimersInOrder(e)
  BY <1>1, <1>4, <1>7 DEF TablesInv, PresentIsLast, TimersAreOfListeners, TimersInOrder
<1>9. \A t \in StaticTables : Shown(e, t) => Shown(d, t)
  BY <1>4, <1>7 DEF Shown
<1>10. ShownLast(e) /\ TablesMirror(e)
  BY <1>1, <1>7, <1>9 DEF TablesInv, ShownLast, TablesMirror
<1>11. TablesInv(e)
  BY <1>3, <1>7, <1>8, <1>10 DEF TablesInv
<1> QED BY <1>1, <1>6, <1>7, <1>11, SameLoaderKeeps DEF DataInv, SamePending

-----------------------------------------------------------------------------
(***************************************************************************)
(* clear() and load()                                                      *)
(***************************************************************************)
LEMMA ClearedInv ==
    ASSUME NEW d, DataInv(d)
    PROVE  DataInv(Cleared(d)) /\ Cleared(d).loads = d.loads
<1> DEFINE cleared == d.cleared \/ \E l \in LoadIds : Running(d.loads[l])
<1>1. d \in DataRecords /\ TablesInv(d) /\ LoadInv(d) /\ cleared \in BOOLEAN
  BY DEF DataInv, DataRecords
<1>2. PICK e : e = Cleared(d)
  OBVIOUS
<1>3. ~cleared => ~d.cleared /\ \A l \in LoadIds : ~Running(d.loads[l])
  BY <1>1 DEF DataRecords
<1>4. e = [d EXCEPT !.cache = {}, !.failedTables = {}, !.state = "idle", !.cleared = cleared]
  BY <1>2 DEF Cleared
<1> HIDE DEF cleared
<1>5. /\ e \in DataRecords /\ SameTables(e, d) /\ SamePending(e, d)
      /\ e.state = "idle" /\ e.cleared = cleared /\ e.loads = d.loads
  BY <1>1, <1>4 DEF DataRecords, SameTables, SamePending
<1>6. LoadInv(e)
  BY <1>1, <1>3, <1>5 DEF LoadInv, LaterBeforeStart, WaitsForItsBatch, EarlierEnded, LoadedIsKept,
     Accounted
<1> QED BY <1>1, <1>2, <1>5, <1>6, SameTablesKeeps DEF DataInv, SamePending

LEMMA LoadedInv ==
    ASSUME NEW d, DataInv(d), FreeLoads(d) # {}
    PROVE  DataInv(Loaded(d))
<1> DEFINE l == CHOOSE k \in FreeLoads(d) : \A j \in FreeLoads(d) : k <= j
           alone == \A k \in LoadIds : ~Running(d.loads[k])
           cleared == d.cleared /\ ~alone
           load == [d.loads[l] EXCEPT !.batch = 1]
           loads == [d.loads EXCEPT ![l] = load]
           begun == [d EXCEPT !.state = "loading", !.loads = loads, !.cleared = cleared]
<1>1. d \in DataRecords /\ TablesInv(d) /\ LoadInv(d)
  BY DEF DataInv
<1>2. l \in LoadIds /\ d.loads[l].batch = 0
  <2>1. FreeLoads(d) \in SUBSET Nat
    BY DEF FreeLoads, LoadIds
  <2>2. l \in FreeLoads(d)
    BY <2>1, LeastNumber
  <2> HIDE DEF l
  <2> QED BY <2>2 DEF FreeLoads
<1>3. CASE d.connectionState # "connected" \/ IsCached(d)
  BY <1>3 DEF Loaded
<1>4. CASE ~(d.connectionState # "connected" \/ IsCached(d))
  <2>1. Loaded(d) = BatchBegun(begun, l)
    <3>1. begun = [d EXCEPT !.state = "loading", !.loads[l].batch = 1, !.cleared = @ /\ ~alone]
      OBVIOUS
    <3> HIDE DEF begun
    <3> QED BY <1>4, <3>1 DEF Loaded
  <2>2. cleared \in BOOLEAN /\ (cleared => d.cleared) /\ (~cleared /\ d.cleared => alone)
    BY <1>1 DEF DataRecords
  <2> HIDE DEF l
  <2>3. d.loads \in [LoadIds -> LoadRecords] /\ d.loads[l] \in LoadRecords
    BY <1>1, <1>2 DEF DataRecords
  <2>4. load \in LoadRecords /\ load.batch = 1 /\ load.of = d.loads[l].of
    BY <2>3, BatchesParts DEF LoadRecords
  <2> HIDE DEF load, cleared
  <2>5. /\ loads \in [LoadIds -> LoadRecords]
        /\ \A k \in LoadIds : loads[k] = IF k = l THEN load ELSE d.loads[k]
    BY <2>3, <2>4
  <2> HIDE DEF loads
  <2>6. PICK e : e = begun
    OBVIOUS
  <2>7. /\ e \in DataRecords /\ SameTables(e, d) /\ SamePending(e, d)
        /\ e.state = "loading" /\ e.cleared = cleared /\ e.cache = d.cache /\ e.loads = loads
    BY <1>1, <2>2, <2>5, <2>6 DEF DataRecords, SameTables, SamePending
  <2> HIDE DEF begun
  <2>8. \A t \in StaticTables : load.of[t].phase = "later"
    BY <1>1, <1>2, <2>4 DEF LoadInv, LaterBeforeStart
  <2>9. LaterBeforeStart(e)
    BY <1>1, <2>5, <2>7, <2>8 DEF LoadInv, LaterBeforeStart
  <2>10. WaitsForItsBatch(e)
    BY <1>1, <2>5, <2>7, <2>8 DEF LoadInv, WaitsForItsBatch
  <2>11. EarlierEnded(e)
    <3>1. ASSUME NEW k \in LoadIds, Running(e.loads[k]), NEW b \in 1 .. e.loads[k].batch - 1,
                 NEW t \in ToSet(Batches[b])
          PROVE  Ended(e.loads[k].of[t].phase)
      <4>1. k # l
        BY <2>4, <2>5, <2>7, <3>1
      <4>2. e.loads[k] = d.loads[k]
        BY <2>5, <2>7, <4>1
      <4> QED BY <1>1, <3>1, <4>2 DEF LoadInv, EarlierEnded
    <3> QED BY <3>1 DEF EarlierEnded
  <2>12. LoadedIsKept(e)
    <3>1. ASSUME ~e.cleared, NEW k \in LoadIds, NEW t \in StaticTables,
                 Running(e.loads[k]), e.loads[k].of[t].phase = "loaded"
          PROVE  t \in e.cache
      <4>1. k # l
        BY <2>5, <2>7, <2>8, <3>1
      <4>2. e.loads[k] = d.loads[k]
        BY <2>5, <2>7, <4>1
      <4>3. ~d.cleared
        BY <2>2, <2>7, <3>1, <4>2
      <4> QED BY <1>1, <2>7, <3>1, <4>2, <4>3 DEF LoadInv, LoadedIsKept
    <3> QED BY <3>1 DEF LoadedIsKept
  <2>13. DataInv(e)
    BY <1>1, <2>7, <2>9, <2>10, <2>11, <2>12, SameTablesKeeps
       DEF DataInv, LoadInv, Accounted, SamePending
  <2>14. Loading(e, l)
    BY <1>2, <2>4, <2>5, <2>7, BatchesParts DEF Loading, Running
  <2> QED BY <2>1, <2>6, <2>13, <2>14, BatchBegunInv
<1> QED BY <1>3, <1>4

-----------------------------------------------------------------------------
(***************************************************************************)
(* The invariant of the data, and each task.                               *)
(***************************************************************************)
IDataInv ==
    /\ DataInv(data)
    /\ changes \in Versions
    /\ latency.measurements \in BoundedSeq(Latencies, MaxMeasurements)

LEMMA DataInitially ==
    ASSUME DInit
    PROVE  IDataInv
<1> DEFINE later == [phase |-> "later", retries |-> 0, handle |-> 0]
           of == [t \in StaticTables |-> later]
           load == [batch |-> 0, of |-> of]
           loads == [l \in LoadIds |-> load]
           rows == [s \in Sessions |-> NoRows]
           listening == [s \in Sessions |-> {}]
           tables == [t \in StaticTables |-> <<>>]
           sockets == [s \in Sessions |-> "closed"]
<1>1. 0 \in Versions /\ 0 \in 0 .. MaxSessions /\ 0 \in 0 .. MaxRetries /\ 0 \in 0 .. Len(Batches) + 1
  BY DataBoundsAssumption, RetriesAssumption, BatchesParts DEF Versions
<1>2. loads \in [LoadIds -> LoadRecords] /\ \A l \in LoadIds : loads[l] = load
  <2>1. later \in Waits
    BY <1>1 DEF Waits
  <2> HIDE DEF later
  <2>2. of \in [StaticTables -> Waits]
    BY <2>1
  <2> HIDE DEF of
  <2>3. load \in LoadRecords
    BY <1>1, <2>2 DEF LoadRecords
  <2> HIDE DEF load
  <2> QED BY <2>3
<1>3. load.batch = 0 /\ \A t \in StaticTables : load.of[t].phase = "later"
  OBVIOUS
<1>4. rows \in [Sessions -> [StaticTables -> [RowIds -> Versions]]]
  <2>1. NoRows \in [StaticTables -> [RowIds -> Versions]]
    BY <1>1 DEF NoRows, Absent
  <2> QED BY <2>1
<1>5. listening \in [Sessions -> SUBSET StaticTables] /\ \A s \in Sessions : listening[s] = {}
  OBVIOUS
<1>6. tables \in [StaticTables -> Seq(Entries)] /\ \A t \in StaticTables : Once(tables[t])
  BY DEF Once
<1>61. sockets \in [Sessions -> {"opening", "open", "closed"}]
  OBVIOUS
<1>7. /\ data.db = 0 /\ data.opened = 0 /\ data.rows = rows /\ data.listening = listening
      /\ data.snapshots = <<>> /\ data.subscriptions = {} /\ data.nextSubscriptionId = 1
      /\ data.tables = tables /\ data.evicted = {} /\ data.state = "idle" /\ data.cache = {}
      /\ data.failedTables = {} /\ data.cleared = FALSE /\ data.loads = loads
      /\ data.pendingUpdates = FALSE /\ data.updateTimer = FALSE
      /\ data = [db |-> 0, opened |-> 0, connectionState |-> "disconnected",
                 socket |-> sockets, pending |-> {}, disturbed |-> {}, rows |-> rows, listening |-> listening, snapshots |-> <<>>,
                 subscriptions |-> {}, nextSubscriptionId |-> 1, tables |-> tables, evicted |-> {},
                 state |-> "idle", cache |-> {}, failedTables |-> {}, cleared |-> FALSE,
                 loads |-> loads, pendingUpdates |-> FALSE, updateTimer |-> FALSE]
  BY DEF DInit
<1> HIDE DEF rows, listening, tables, loads, load, sockets
<1>8. data \in DataRecords
  BY <1>1, <1>2, <1>4, <1>5, <1>6, <1>61, <1>7 DEF DataRecords
<1>9. \A t \in StaticTables : ~Shown(data, t)
  BY <1>7 DEF Shown
<1>10. TablesInv(data)
  <2>1. PresentIsLast(data)
    BY <1>5, <1>7 DEF PresentIsLast
  <2>2. \A i : i \notin DOMAIN data.snapshots
    BY <1>7
  <2>3. TimersAreOfListeners(data) /\ TimersInOrder(data)
    BY <2>2 DEF TimersAreOfListeners, TimersInOrder
  <2>4. ShownLast(data) /\ TablesMirror(data)
    BY <1>9 DEF ShownLast, TablesMirror
  <2>5. \A t \in StaticTables : Once(data.tables[t])
    BY <1>6, <1>7
  <2> QED BY <2>1, <2>3, <2>4, <2>5 DEF TablesInv
<1>11. \A l \in LoadIds : ~Running(data.loads[l])
  <2>1. 0 \notin DOMAIN Batches
    BY BatchesParts
  <2> QED BY <1>2, <1>3, <1>7, <2>1 DEF Running
<1>12. LoadInv(data)
  BY <1>2, <1>3, <1>7, <1>11
     DEF LoadInv, LaterBeforeStart, WaitsForItsBatch, EarlierEnded, LoadedIsKept, Accounted
<1>13. latency.measurements \in BoundedSeq(Latencies, MaxMeasurements)
  <2>1. <<>> \in [1 .. 0 -> Latencies] /\ 0 \in 0 .. MaxMeasurements
    BY SizesAssumption
  <2>2. latency.measurements = <<>>
    BY DEF DInit
  <2> QED BY <2>1, <2>2 DEF BoundedSeq, SeqOf
<1> QED BY <1>1, <1>7, <1>8, <1>10, <1>12, <1>13 DEF IDataInv, DataInv, DInit

LEMMA SessionStep ==
    ASSUME IDataInv, SessionNext
    PROVE  IDataInv'
<1>0. DataInv(data)
  BY DEF IDataInv
<1>1. ASSUME SessionBuilt PROVE DataInv(data') /\ UNCHANGED <<changes, latency>>
  <2>1. data' = BuiltAnew(data)
    BY <1>1 DEF SessionBuilt, BuiltAnew
  <2> QED BY <1>0, <1>1, <2>1, SessionBuiltInv DEF SessionBuilt
<1>2. ASSUME NEW s \in Sessions, SessionOpened(s) \/ SessionLost(s)
      PROVE  DataInv(data') /\ UNCHANGED <<changes, latency>>
  <2>1. CASE SessionOpened(s)
    <3>1. data' = [data EXCEPT
                     !.socket[s] = "open", !.pending = @ \ {s},
                     !.connectionState = IF s \in data.pending THEN "connected" ELSE @]
      BY <2>1 DEF SessionOpened
    <3>2. DataInv([data EXCEPT
                     !.socket[s] = "open", !.pending = @ \ {s},
                     !.connectionState = IF s \in data.pending THEN "connected" ELSE @])
      BY <1>0, SocketInv, ZenonT(40)
    <3>3. UNCHANGED <<changes, latency>>
      BY <2>1 DEF SessionOpened
    <3> QED BY <3>1, <3>2, <3>3, Zenon
  <2>2. CASE SessionLost(s)
    BY <1>0, <2>2, SocketInv DEF SessionLost
  <2> QED BY <1>2, <2>1, <2>2
<1>3. ASSUME ClientDisconnect PROVE DataInv(data') /\ UNCHANGED <<changes, latency>>
  BY <1>0, <1>3, ClientDisconnectInv DEF ClientDisconnect
<1>4. ASSUME SnapshotTimer PROVE DataInv(data') /\ UNCHANGED <<changes, latency>>
  BY <1>0, <1>4, SnapshotInv DEF SnapshotTimer, Popped
<1>5. ASSUME NEW t \in StaticTables, Subscribe(t)
      PROVE  DataInv(data') /\ UNCHANGED <<changes, latency>>
  BY <1>0, <1>5, SubscribedInv DEF Subscribe, CanSubscribe
<1>6. DataInv(data') /\ UNCHANGED <<changes, latency>>
  BY <1>1, <1>2, <1>3, <1>4, <1>5 DEF SessionNext
<1> QED BY <1>6 DEF IDataInv

LEMMA TablesStep ==
    ASSUME IDataInv, TablesNext
    PROVE  IDataInv'
<1>0. DataInv(data) /\ data \in DataRecords
  BY DEF IDataInv, DataInv
<1>1. CASE FlushUpdates
  <2>1. PICK e : e = [data EXCEPT !.pendingUpdates = FALSE, !.updateTimer = FALSE]
    OBVIOUS
  <2>2. e \in DataRecords /\ SameTables(e, data) /\ SameLoader(e, data) /\ ~e.pendingUpdates
    BY <1>0, <2>1 DEF DataRecords, SameTables, SameLoader
  <2>3. DataInv(e)
    BY <1>0, <2>2, SameTablesKeeps, SameLoaderKeeps DEF DataInv
  <2>4. data' = e /\ UNCHANGED <<changes, latency>>
    BY <1>1, <2>1 DEF FlushUpdates
  <2> QED BY <2>3, <2>4 DEF IDataInv
<1>2. ASSUME NEW s \in Sessions, NEW t \in StaticTables, NEW id \in RowIds, RowChange(s, t, id)
      PROVE  IDataInv'
  <2>1. PICK version \in {changes + 1, Absent} :
            data' = Told([data EXCEPT !.rows[s][t][id] = version], s, t, id, version)
    BY <1>2 DEF RowChange
  <2>2. changes < MaxRowChanges /\ changes' = changes + 1 /\ latency' = latency
    BY <1>2 DEF RowChange
  <2>3. changes + 1 \in Versions /\ Absent \in Versions
    BY <2>2, DataBoundsAssumption DEF IDataInv, Versions, Absent
  <2>4. data' = Told(Changed(data, s, t, id, version), s, t, id, version)
    BY <2>1 DEF Changed
  <2>5. DataInv(Told(Changed(data, s, t, id, version), s, t, id, version))
    BY <1>0, <2>3, RowChangeInv
  <2> QED BY <2>2, <2>3, <2>4, <2>5 DEF IDataInv
<1>3. ASSUME NEW s \in Sessions, SessionGivenUp(s) PROVE IDataInv'
  <2>1. PICK e : e = [data EXCEPT !.pending = @ \ {s}, !.connectionState = "failed"]
    OBVIOUS
  <2>2. /\ e \in DataRecords /\ SameTables(e, data) /\ SameLoader(e, data)
        /\ SamePending(e, data)
    <3> DEFINE pending == data.pending \ {s}
    <3>1. pending \in SUBSET Sessions /\ e = [data EXCEPT !.pending = pending, !.connectionState = "failed"]
      BY <1>0, <2>1 DEF DataRecords
    <3> HIDE DEF pending
    <3> QED BY <1>0, <3>1 DEF DataRecords, SameTables, SameLoader, SamePending
  <2>3. DataInv(e)
    BY <1>0, <2>2, SameTablesKeeps, SameLoaderKeeps DEF DataInv, SamePending
  <2>4. data' = e /\ UNCHANGED <<changes, latency>>
    BY <1>3, <2>1 DEF SessionGivenUp
  <2> QED BY <2>3, <2>4 DEF IDataInv
<1> QED BY <1>1, <1>2, <1>3 DEF TablesNext

LEMMA LoaderStep ==
    ASSUME IDataInv, LoaderNext
    PROVE  IDataInv'
<1>0. DataInv(data) /\ data \in DataRecords
  BY DEF IDataInv, DataInv
<1>1. ASSUME Load PROVE DataInv(data') /\ UNCHANGED <<changes, latency>>
  BY <1>0, <1>1, LoadedInv DEF Load
<1>2. ASSUME ForceReload PROVE DataInv(data') /\ UNCHANGED <<changes, latency>>
  <2>1. DataInv(Cleared(data)) /\ FreeLoads(Cleared(data)) = FreeLoads(data)
    BY <1>0, ClearedInv DEF FreeLoads
  <2> QED BY <1>2, <2>1, LoadedInv DEF ForceReload
<1>3. ASSUME Clear PROVE DataInv(data') /\ UNCHANGED <<changes, latency>>
  BY <1>0, <1>3, ClearedInv DEF Clear
<1>4. ASSUME NEW l \in LoadIds, NEW t \in StaticTables,
             data.loads[l].of[t].phase \in {"waiting", "sleeping"}
      PROVE  Loading(data, l) /\ t \in ToSet(Batches[data.loads[l].batch])
  BY <1>0, <1>4 DEF DataInv, LoadInv, WaitsForItsBatch, Loading
<1>5. ASSUME NEW l \in LoadIds, NEW t \in StaticTables, TableTimeout(l, t)
      PROVE  DataInv(data') /\ UNCHANGED <<changes, latency>>
  <2>1. Loading(data, l) /\ t \in ToSet(Batches[data.loads[l].batch])
    BY <1>4, <1>5 DEF TableTimeout
  <2>2. DataInv(Retried(data, l, t)) /\ Loading(Retried(data, l, t), l)
    BY <1>0, <2>1, RetriedInv DEF SameLoads, Loading, Running
  <2> QED BY <1>5, <2>2, AwaitedInv DEF TableTimeout
<1>6. ASSUME NEW l \in LoadIds, NEW t \in StaticTables, RetryTimer(l, t)
      PROVE  DataInv(data') /\ UNCHANGED <<changes, latency>>
  <2>1. Loading(data, l) /\ t \in ToSet(Batches[data.loads[l].batch])
    BY <1>4, <1>6 DEF RetryTimer
  <2>2. DataInv(Attempted(data, l, t)) /\ Loading(Attempted(data, l, t), l)
    BY <1>0, <2>1, AttemptedInv DEF SameLoads, Loading, Running
  <2> QED BY <1>6, <2>2, AwaitedInv DEF RetryTimer
<1>7. ASSUME NEW handle \in data.subscriptions, Unsubscribe(handle)
      PROVE  DataInv(data') /\ UNCHANGED <<changes, latency>>
  BY <1>0, <1>7, UnsubscribedInv DEF Unsubscribe
<1>8. DataInv(data') /\ UNCHANGED <<changes, latency>>
  BY <1>1, <1>2, <1>3, <1>5, <1>6, <1>7 DEF LoaderNext
<1> QED BY <1>8 DEF IDataInv

LEMMA LatencyStep ==
    ASSUME IDataInv, LatencyNext
    PROVE  IDataInv'
<1> DEFINE before == latency.measurements
<1>1. PICK n \in 0 .. MaxMeasurements : before \in [1 .. n -> Latencies]
  BY DEF IDataInv, BoundedSeq, SeqOf
<1>2. \A m \in 0 .. MaxMeasurements : \A s \in [1 .. m -> Latencies] :
          s \in BoundedSeq(Latencies, MaxMeasurements)
  BY DEF BoundedSeq, SeqOf
<1>3. n \in Nat /\ before \in Seq(Latencies) /\ Len(before) = n
  BY <1>1, SizesAssumption
<1>4. UNCHANGED <<data, changes>>
  BY DEF LatencyNext, RecordLatency, GetStats, ClearLatency
<1>5. ASSUME NEW ms \in Latencies, RecordLatency(ms)
      PROVE  latency'.measurements \in BoundedSeq(Latencies, MaxMeasurements)
  <2> DEFINE longer == Append(before, ms)
             now == IF Len(longer) > MaxMeasurements THEN Tail(longer) ELSE longer
  <2> HIDE DEF before
  <2>1. longer \in Seq(Latencies) /\ Len(longer) = n + 1
    BY <1>3
  <2> HIDE DEF longer
  <2>2. CASE n + 1 > MaxMeasurements
    <3>1. n = MaxMeasurements
      BY <1>1, <1>3, <2>2, SizesAssumption
    <3>2. Tail(longer) \in Seq(Latencies) /\ Len(Tail(longer)) = n
      BY <1>3, <2>1
    <3>3. Tail(longer) \in [1 .. n -> Latencies]
      <4>1. PICK shorter : shorter = Tail(longer)
        OBVIOUS
      <4>2. shorter \in Seq(Latencies) /\ Len(shorter) = n
        BY <3>2, <4>1
      <4>3. shorter \in [1 .. n -> Latencies]
        BY <4>2
      <4> QED BY <4>1, <4>3
    <3> QED BY <1>2, <1>5, <2>1, <2>2, <3>3 DEF RecordLatency, longer, before
  <2>3. CASE ~(n + 1 > MaxMeasurements)
    <3>1. n + 1 \in 0 .. MaxMeasurements
      BY <1>1, <1>3, <2>3, SizesAssumption
    <3>2. longer \in [1 .. n + 1 -> Latencies]
      BY <2>1
    <3> QED BY <1>2, <1>5, <2>1, <2>3, <3>1, <3>2 DEF RecordLatency, longer, before
  <2> QED BY <2>2, <2>3
<1>6. ASSUME GetStats PROVE latency'.measurements \in BoundedSeq(Latencies, MaxMeasurements)
  BY <1>6 DEF GetStats, IDataInv
<1>7. ASSUME ClearLatency PROVE latency'.measurements \in BoundedSeq(Latencies, MaxMeasurements)
  <2>1. <<>> \in [1 .. 0 -> Latencies] /\ 0 \in 0 .. MaxMeasurements
    BY SizesAssumption
  <2> QED BY <1>2, <1>7, <2>1 DEF ClearLatency
<1>8. latency'.measurements \in BoundedSeq(Latencies, MaxMeasurements)
  BY <1>5, <1>6, <1>7 DEF LatencyNext
<1> QED BY <1>4, <1>8 DEF IDataInv

LEMMA DataInvSuffices ==
    ASSUME IDataInv
    PROVE  DataInOrder
<1>1. /\ data \in DataRecords /\ TablesInv(data) /\ LoadInv(data)
      /\ data.pendingUpdates => data.updateTimer
  BY DEF IDataInv, DataInv
<1>2. DTypeOK /\ UpdatesAreDelivered
  BY <1>1 DEF IDataInv, DTypeOK, UpdatesAreDelivered
<1>3. LoadedIsAccounted
  BY <1>1 DEF LoadedIsAccounted, LoadInv, Accounted, CanGet
<1>4. CacheMirrorsTable
  <2>1. \A t \in StaticTables \ data.disturbed :
            Shown(data, t) => Mirrors(data.tables[t], data.rows[data.db][t], t \notin data.evicted)
    BY <1>1 DEF TablesInv, TablesMirror
  <2> QED BY <2>1 DEF CacheMirrorsTable, Shown, Mirrors
<1> QED BY <1>2, <1>3, <1>4 DEF DataInOrder

(***************************************************************************)
(* Over connections that come, overlap and go, with any number of tables,  *)
(* batches, rows and loads beside each other: a table whose snapshot has   *)
(* come mirrors the rows of the connection in dbConnection, unless an      *)
(* earlier connection that is still open has sent a row of it since or     *)
(* disconnect() has emptied it; loaded static data lack no table that is   *)
(* not reported as failed; and an update that is pending will be delivered *)
(* (setupTableListeners, TableManager, load).                              *)
(***************************************************************************)
THEOREM DataStaysInOrder == Spec => []DataInOrder
<1>1. Init => IDataInv
  BY DataInitially DEF Init
<1>2. IDataInv /\ [Next]_clientVars => IDataInv'
  <2> SUFFICES ASSUME IDataInv, [Next]_clientVars PROVE IDataInv'
    OBVIOUS
  <2>1. CASE ConnectionScene \/ UNCHANGED clientVars
    <3>1. UNCHANGED dataVars
      BY <2>1 DEF ConnectionScene, clientVars
    <3> QED BY <3>1 DEF dataVars, IDataInv
  <2>2. CASE TablesScene
    BY <2>2, SessionStep, TablesStep DEF TablesScene
  <2>3. CASE LoaderScene
    BY <2>3, SessionStep, LoaderStep DEF LoaderScene
  <2>4. CASE LatencyScene
    BY <2>4, LatencyStep DEF LatencyScene
  <2> QED BY <2>1, <2>2, <2>3, <2>4 DEF Next
<1>3. IDataInv => DataInOrder
  BY DataInvSuffices
<1> QED BY <1>1, <1>2, <1>3, PTL DEF Spec

=============================================================================
