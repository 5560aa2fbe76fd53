---------------------------- MODULE RegionProofs ----------------------------
(***************************************************************************)
(* Theorems about PlayerQueue: in every execution the tables keep their    *)
(* types and only connected players are signed in; and as long as only     *)
(* clients act, and none may skip the queue, the region never admits more  *)
(* players than it has slots and nobody waits while a slot is free.  And   *)
(* about Combat: no account of a fight is left half done.                  *)
(***************************************************************************)
EXTENDS MCRegion, AdmissionProofs

-----------------------------------------------------------------------------
(***************************************************************************)
(* Type correctness.                                                       *)
(***************************************************************************)

LEMMA QInitType == QInit => QTypeOK
BY ConnectionsAssumption, RolesAssumption
   DEF QInit, QTypeOK, EmptyTables, Tables, UniqueRows

LEMMA QNextType == QTypeOK /\ [QNext]_queueVars => QTypeOK'
<1>. SUFFICES ASSUME QTypeOK, [QNext]_queueVars
              PROVE  QTypeOK'
    OBVIOUS
<1>. DEFINE RestOK == /\ parameters \in ParameterChoices
                      /\ skipQueue \in SUBSET Skippers
                      /\ connections \in [Players -> 0 .. MaxConnections]
<1>1. TablesOK(region) /\ RestOK /\ parameters \in RegionSignInParameters
    BY ParametersAssumption DEF QTypeOK, TablesOK
<1>2. ASSUME NEW r, TablesOK(r), region' = r, RestOK'
      PROVE  QTypeOK'
    BY <1>2 DEF QTypeOK, TablesOK
<1>3. ASSUME NEW r, TablesOK(r), Transact(r)
      PROVE  QTypeOK'
    BY <1>1, <1>2, <1>3 DEF Transact
<1>. HIDE DEF QTypeOK
<1>4. ASSUME NEW p \in Players, Connect(p)
      PROVE  QTypeOK'
    <2>1. RestOK'
        BY <1>1, <1>4, ConnectionsAssumption DEF Connect
    <2>2. region' = region \/ region' = SignOut(region, {p}, TRUE)
        BY <1>4 DEF Connect
    <2>3. TablesOK(SignOut(region, {p}, TRUE))
        BY <1>1, SignOutType
    <2>. QED
        BY <1>1, <1>2, <2>1, <2>2, <2>3
<1>5. ASSUME NEW p \in Players, Disconnect(p)
      PROVE  QTypeOK'
    <2>1. RestOK'
        BY <1>1, <1>5, ConnectionsAssumption DEF Disconnect, Connected
    <2>2. region' = SignOut(region, {p}, TRUE)
        BY <1>5 DEF Disconnect
    <2>3. TablesOK(SignOut(region, {p}, TRUE))
        BY <1>1, SignOutType
    <2>. QED
        BY <1>2, <2>1, <2>2, <2>3
<1>6. ASSUME NEW p \in Players, PlayerQueueJoin(p) \/ PlayerQueueLeave(p)
      PROVE  QTypeOK'
    <2>1. TablesOK(QueueJoin(region, parameters, p, p \in skipQueue)) /\ TablesOK(Dequeue(region, p))
        BY <1>1, QueueJoinType, DequeueType
    <2>. QED
        BY <1>3, <1>6, <2>1 DEF PlayerQueueJoin, PlayerQueueLeave
<1>7. ASSUME NEW p \in Players, SignIn(p)
      PROVE  QTypeOK'
    <2>. DEFINE r == SignedIn(region, p)
    <2>1. TablesOK(r)
        BY <1>1 DEF SignedIn, TablesOK, UniqueRows, Tables
    <2>. HIDE DEF r
    <2>2. Transact(r)
        BY <1>7 DEF SignIn, r
    <2>. QED
        BY <1>3, <2>1, <2>2
<1>8. ASSUME NEW p \in Players, PlayerSignsOut(p)
      PROVE  QTypeOK'
    BY <1>1, <1>3, <1>8, SignOutType DEF PlayerSignsOut
<1>9. ASSUME NEW p \in Players, EndGracePeriod(p)
      PROVE  QTypeOK'
    BY <1>1, <1>3, <1>9, GraceEndsType DEF EndGracePeriod
<1>10. ASSUME AutoLogout
       PROVE  QTypeOK'
    <2>1. PICK idle \in SUBSET region.users : Transact(SignOut(region, idle, TRUE))
        BY <1>10 DEF AutoLogout
    <2>2. idle \in SUBSET Players
        BY <1>1 DEF TablesOK, Tables
    <2>. QED
        BY <1>1, <1>3, <2>1, <2>2, SignOutType
<1>11. ASSUME NEW p \in Players, AdminSignOut(p)
       PROVE  QTypeOK'
    <2>. DEFINE r == [region EXCEPT !.canSignIn = @ \ {p}]
    <2>1. TablesOK(r)
        BY <1>1 DEF TablesOK, UniqueRows, Tables
    <2>2. TablesOK(SignOut(r, {p}, FALSE))
        <3>. HIDE DEF r
        <3>. QED
            BY <2>1, SignOutType
    <2>. QED
        BY <1>3, <1>11, <2>2 DEF AdminSignOut
<1>12. ASSUME NEW players \in SUBSET Players, SignPlayersOut(players)
       PROVE  QTypeOK'
    BY <1>1, <1>3, <1>12, SignOutType DEF SignPlayersOut
<1>13. ASSUME NEW p \in Players, PlayerSkipQueue(p)
       PROVE  QTypeOK'
    <2>. DEFINE r == [region EXCEPT !.timer[p] = "none"]
    <2>1. TablesOK(r)
        BY <1>1, TimerReplaced
    <2>2. TablesOK(AllowSignIn(Dequeue(r, p), p))
        <3>. HIDE DEF r
        <3>. QED
            BY <2>1, DequeueType, AllowType DEF AllowSignIn
    <2>. QED
        BY <1>3, <1>13, <2>2 DEF PlayerSkipQueue
<1>14. ASSUME NEW p \in Skippers, GrantSkipQueue(p)
       PROVE  QTypeOK'
    BY <1>1, <1>2, <1>14 DEF GrantSkipQueue
<1>15. ASSUME NEW par \in ParameterChoices, ParametersReplicated(par)
       PROVE  QTypeOK'
    <2>1. TablesOK(ProcessQueue(region, par))
        BY <1>1, ProcessQueueType, ParametersAssumption
    <2>. QED
        BY <1>1, <1>2, <1>15, <2>1 DEF ParametersReplicated
<1>16. ASSUME NEW p \in Players,
              PlayerDeparts(p) \/ \E canSignIn \in BOOLEAN : PlayerArrives(p, canSignIn)
       PROVE  QTypeOK'
    <2>1. TablesOK(Depart(region, parameters, p))
        BY <1>1, TransferTypes
    <2>2. \A canSignIn \in BOOLEAN : TablesOK(Arrive(region, p, canSignIn, ~canSignIn))
        BY <1>1, TransferTypes
    <2>. QED
        BY <1>3, <1>16, <2>1, <2>2 DEF PlayerDeparts, PlayerArrives
<1>17. CASE UNCHANGED queueVars
    BY <1>17 DEF queueVars, QTypeOK
<1>. QED
    BY <1>4, <1>5, <1>6, <1>7, <1>8, <1>9, <1>10, <1>11, <1>12, <1>13, <1>14, <1>15, <1>16,
       <1>17 DEF QNext, OrdinaryNext

(***************************************************************************)
(* The tables of a region keep their types, and its queue holds no player  *)
(* twice, whatever clients, timers, administrators and messages do.        *)
(***************************************************************************)
THEOREM QueueTypeCorrect == QSpec => []QTypeOK
BY QInitType, QNextType, PTL DEF QSpec
-----------------------------------------------------------------------------
(***************************************************************************)
(* The slots of a region in which only the clients of ordinary players     *)
(* act.  The invariant adds to the two properties what makes them          *)
(* inductive: permission and slot go together, a player is not counted     *)
(* twice, and who waits has no slot.                                       *)
(***************************************************************************)
OnlyOrdinaryClients == Events = {} /\ Skippers = {}

SlotsMatchPermission(r) ==
    /\ r.users = Players
    /\ r.canSignIn = r.signedIn \cup InGracePeriod(r)
    /\ r.signedIn \cap InGracePeriod(r) = {}
    /\ \A p \in Players : r.timer[p] # "QueueJoin"
    /\ \A i \in 1 .. Len(r.queue) : r.queue[i] \notin r.canSignIn

SlotsAreUsed(r, par) ==
    /\ Cardinality(r.canSignIn) <= par.maxSignedIn
    /\ r.queue # <<>> => Cardinality(r.canSignIn) = par.maxSignedIn

SlotInv ==
    /\ skipQueue = {}
    /\ SlotsMatchPermission(region)
    /\ SlotsAreUsed(region, parameters)

LEMMA CountIsCardinality ==
    ASSUME NEW r, TablesOK(r), SlotsMatchPermission(r)
    PROVE  /\ SignedInCount(r) = Cardinality(r.canSignIn)
           /\ IsFiniteSet(r.canSignIn)
           /\ Cardinality(r.canSignIn) \in Nat
<1>1. IsFiniteSet(r.signedIn) /\ IsFiniteSet(InGracePeriod(r))
      /\ Cardinality(r.signedIn) \in Nat /\ Cardinality(InGracePeriod(r)) \in Nat
    BY CountsAreNaturals
<1>2. /\ IsFiniteSet(r.signedIn \cup InGracePeriod(r))
      /\ Cardinality(r.signedIn \cup InGracePeriod(r))
            = Cardinality(r.signedIn) + Cardinality(InGracePeriod(r))
                - Cardinality(r.signedIn \cap InGracePeriod(r))
    BY <1>1, FS_Union
<1>3. Cardinality(r.signedIn \cap InGracePeriod(r)) = 0
    BY FS_EmptySet DEF SlotsMatchPermission
<1>4. r.canSignIn = r.signedIn \cup InGracePeriod(r)
    BY DEF SlotsMatchPermission
<1>5. Cardinality(r.canSignIn) = Cardinality(r.signedIn) + Cardinality(InGracePeriod(r))
    BY <1>1, <1>2, <1>3, <1>4
<1>. QED
    BY <1>1, <1>2, <1>4, <1>5 DEF SignedInCount

(***************************************************************************)
(* A step that moves players between being signed in and their grace       *)
(* period touches neither the permissions nor the queue.                   *)
(***************************************************************************)
LEMMA SlotsOfSame ==
    ASSUME NEW r, NEW s, NEW par, SlotsAreUsed(r, par),
           s.canSignIn = r.canSignIn, s.queue = r.queue
    PROVE  SlotsAreUsed(s, par)
BY DEF SlotsAreUsed

LEMMA SignOutSlots ==
    ASSUME NEW r, TablesOK(r), NEW players \in SUBSET Players, SlotsMatchPermission(r)
    PROVE  LET s == SignOut(r, players, TRUE)
           IN SlotsMatchPermission(s) /\ s.canSignIn = r.canSignIn /\ s.queue = r.queue
<1>. DEFINE s == SignOut(r, players, TRUE)
           leaving == players \cap r.users \cap r.signedIn
<1>1. leaving \subseteq r.canSignIn /\ leaving \subseteq Players
    BY DEF SlotsMatchPermission, TablesOK, Tables
<1>2. /\ s.users = r.users /\ s.canSignIn = r.canSignIn /\ s.queue = r.queue
      /\ s.signedIn = r.signedIn \ leaving
      /\ s.timer = [p \in Players |-> IF p \in leaving THEN "SignIn" ELSE r.timer[p]]
    BY <1>1 DEF SignOut, GracePeriodAfter, TablesOK, Tables
<1>3. InGracePeriod(s) = InGracePeriod(r) \cup leaving
    BY <1>1, <1>2 DEF InGracePeriod
<1>4. SlotsMatchPermission(s)
    <2>. HIDE DEF s
    <2>. QED
        BY <1>1, <1>2, <1>3 DEF SlotsMatchPermission
<1>. QED
    BY <1>2, <1>4

LEMMA SignInSlots ==
    ASSUME NEW r, TablesOK(r), NEW p \in Players, SlotsMatchPermission(r),
           p \notin r.signedIn, p \in r.canSignIn
    PROVE  LET s == SignedIn(r, p)
           IN SlotsMatchPermission(s) /\ s.canSignIn = r.canSignIn /\ s.queue = r.queue
<1>. DEFINE s == SignedIn(r, p)
<1>1. /\ s.users = r.users /\ s.canSignIn = r.canSignIn /\ s.queue = r.queue
      /\ s.signedIn = r.signedIn \cup {p}
      /\ s.timer = [r.timer EXCEPT ![p] = "none"]
    BY DEF SignedIn, TablesOK, Tables
<1>2. InGracePeriod(s) = InGracePeriod(r) \ {p}
    BY <1>1 DEF InGracePeriod, TablesOK, Tables
<1>3. \A q \in Players : s.timer[q] # "QueueJoin"
    BY <1>1 DEF SlotsMatchPermission, TablesOK, Tables
<1>4. SlotsMatchPermission(s)
    <2>. HIDE DEF s
    <2>. QED
        BY <1>1, <1>2, <1>3 DEF SlotsMatchPermission
<1>. QED
    BY <1>1, <1>4

LEMMA LeaveSlots ==
    ASSUME NEW r, TablesOK(r), NEW p \in Players, NEW par,
           SlotsMatchPermission(r), SlotsAreUsed(r, par)
    PROVE  LET s == Dequeue(r, p) IN SlotsMatchPermission(s) /\ SlotsAreUsed(s, par)
<1>. CASE ~InQueue(r, p)
    BY DEF Dequeue
<1>. CASE InQueue(r, p)
    <2>. DEFINE n == Len(r.queue)
               k == Position(r, p)
               q == [i \in 1 .. n - 1 |-> IF i < k THEN r.queue[i] ELSE r.queue[i + 1]]
               s == [r EXCEPT !.queue = q]
    <2>1. Dequeue(r, p) = s
        BY DEF Dequeue
    <2>2. k \in 1 .. n
        BY DEF Position, InQueue
    <2>3. r.queue \in Seq(Players) /\ n \in Nat /\ n >= 1
        BY <2>2 DEF TablesOK, Tables
    <2>4. q \in Seq(Players) /\ Len(q) = n - 1
        BY <2>2, <2>3
    <2>5. \A i \in 1 .. Len(q) : \E j \in 1 .. n : q[i] = r.queue[j]
        BY <2>2, <2>3, <2>4
    <2>6. r.queue # <<>>
        BY <2>3
    <2>. HIDE DEF q
    <2>7. /\ s.users = r.users /\ s.canSignIn = r.canSignIn /\ s.signedIn = r.signedIn
          /\ s.timer = r.timer /\ s.queue = q
        BY DEF TablesOK, Tables
    <2>. HIDE DEF s
    <2>8. SlotsMatchPermission(s)
        BY <2>5, <2>7 DEF SlotsMatchPermission, InGracePeriod
    <2>9. SlotsAreUsed(s, par)
        BY <2>6, <2>7 DEF SlotsAreUsed
    <2>. QED
        BY <2>1, <2>8, <2>9
<1>. QED
    OBVIOUS
(***************************************************************************)
(* Letting in players who wait, or who come while there is room.           *)
(***************************************************************************)
LEMMA AllowSlots ==
    ASSUME NEW r, TablesOK(r), NEW admitted \in SUBSET Players, SlotsMatchPermission(r),
           admitted \cap r.canSignIn = {},
           \A i \in 1 .. Len(r.queue) : r.queue[i] \notin admitted
    PROVE  LET s == Allow(r, admitted)
           IN SlotsMatchPermission(s) /\ s.canSignIn = r.canSignIn \cup admitted
                                      /\ s.queue = r.queue
<1>. DEFINE s == Allow(r, admitted)
<1>1. /\ s.users = r.users /\ s.canSignIn = r.canSignIn \cup admitted
      /\ s.queue = r.queue /\ s.signedIn = r.signedIn
      /\ s.timer = [p \in Players |-> IF p \in admitted THEN "SignIn" ELSE r.timer[p]]
    BY DEF Allow, TablesOK, Tables
<1>2. InGracePeriod(s) = InGracePeriod(r) \cup admitted
    BY <1>1 DEF InGracePeriod
<1>3. \A q \in Players : s.timer[q] # "QueueJoin"
    BY <1>1 DEF SlotsMatchPermission
<1>4. SlotsMatchPermission(s)
    <2>. HIDE DEF s
    <2>. QED
        BY <1>1, <1>2, <1>3 DEF SlotsMatchPermission
<1>. QED
    BY <1>1, <1>4

LEMMA JoinSlots ==
    ASSUME NEW r, TablesOK(r), NEW p \in Players,
           NEW par \in RegionSignInParameters,
           SlotsMatchPermission(r), SlotsAreUsed(r, par), p \notin r.signedIn
    PROVE  LET s == QueueJoin(r, par, p, FALSE) IN SlotsMatchPermission(s) /\ SlotsAreUsed(s, par)
<1>1. r.queue \in Seq(Players) /\ r.timer \in [Players -> GracePeriodType \cup {"none"}]
    BY DEF TablesOK, Tables
<1>2. par.maxSignedIn \in Nat
    BY DEF RegionSignInParameters
<1>3. CASE p \in r.canSignIn
    <2>1. r.timer[p] = "SignIn"
        BY <1>3 DEF SlotsMatchPermission, InGracePeriod
    <2>2. StartGracePeriod(r, p, "SignIn") = r
        BY <2>1, <1>1 DEF StartGracePeriod, TablesOK, Tables
    <2>. QED
        BY <1>3, <2>2 DEF QueueJoin
<1>4. CASE p \notin r.canSignIn
    <2>1. r.timer[p] = "none"
        BY <1>1, <1>4 DEF SlotsMatchPermission, InGracePeriod, GracePeriodType
    <2>2. CASE MayBypassQueue(r, par)
        <3>. DEFINE s == Allow(r, {p})
        <3>1. r.queue = <<>> /\ Cardinality(r.canSignIn) < par.maxSignedIn
            BY <2>2, CountIsCardinality DEF MayBypassQueue
        <3>2. SlotsMatchPermission(s) /\ s.canSignIn = r.canSignIn \cup {p} /\ s.queue = r.queue
            BY <3>1, <1>4, AllowSlots
        <3>3. Cardinality(s.canSignIn) = Cardinality(r.canSignIn) + 1
            BY <3>2, <1>4, CountIsCardinality, FS_AddElement
        <3>4. Cardinality(r.canSignIn) \in Nat
            BY CountIsCardinality
        <3>5. QueueJoin(r, par, p, FALSE) = s
            BY <1>4, <2>1, <2>2 DEF QueueJoin, AllowSignIn
        <3>. HIDE DEF s
        <3>6. SlotsAreUsed(s, par)
            BY <3>1, <3>2, <3>3, <3>4, <1>2 DEF SlotsAreUsed
        <3>. QED
            BY <3>2, <3>5, <3>6
    <2>3. CASE ~MayBypassQueue(r, par) /\ Len(r.queue) >= par.maxQueue
        BY <1>4, <2>1, <2>3 DEF QueueJoin
    <2>4. CASE ~MayBypassQueue(r, par) /\ ~(Len(r.queue) >= par.maxQueue)
        <3>1. QueueJoin(r, par, p, FALSE) = Enqueue(r, p)
            BY <1>4, <2>1, <2>4 DEF QueueJoin
        <3>2. CASE InQueue(r, p)
            BY <3>1, <3>2 DEF Enqueue
        <3>3. CASE ~InQueue(r, p)
            <4>. DEFINE q == Append(r.queue, p)
                       s == [r EXCEPT !.queue = q]
            <4>1. Enqueue(r, p) = s
                BY <3>3 DEF Enqueue
            <4>2. /\ s.users = r.users /\ s.canSignIn = r.canSignIn /\ s.signedIn = r.signedIn
                  /\ s.timer = r.timer /\ s.queue = q
                BY DEF TablesOK, Tables
            <4>3. \A i \in 1 .. Len(q) : q[i] = p \/ \E j \in 1 .. Len(r.queue) : q[i] = r.queue[j]
                BY <1>1
            <4>4. Cardinality(r.canSignIn) = par.maxSignedIn
                <5>1. CASE r.queue = <<>>
                    BY <5>1, <2>4, <1>2, CountIsCardinality DEF MayBypassQueue, SlotsAreUsed
                <5>2. CASE r.queue # <<>>
                    BY <5>2 DEF SlotsAreUsed
                <5>. QED
                    BY <5>1, <5>2
            <4>. HIDE DEF s, q
            <4>5. SlotsMatchPermission(s)
                BY <4>2, <4>3, <1>4 DEF SlotsMatchPermission, InGracePeriod
            <4>6. SlotsAreUsed(s, par)
                BY <4>2, <4>4, <1>2 DEF SlotsAreUsed
            <4>. QED
                BY <3>1, <4>1, <4>5, <4>6
        <3>. QED
            BY <3>2, <3>3
    <2>. QED
        BY <2>2, <2>3, <2>4
<1>. QED
    BY <1>3, <1>4
(***************************************************************************)
(* The end of a grace period: the first who waits, if any, takes over the  *)
(* slot.                                                                   *)
(***************************************************************************)
LEMMA FirstIsServed ==
    ASSUME NEW r, TablesOK(r), NEW p \in Players, NEW par \in RegionSignInParameters,
           SlotsMatchPermission(r), SlotsAreUsed(r, par), p \in r.canSignIn
    PROVE  /\ FreeSlots(r, par) >= 1
           /\ r.queue = <<>> => Served(r, par) = 0 /\ Admitted(r, par) = {}
           /\ r.queue # <<>> => Served(r, par) = 1 /\ Admitted(r, par) = {r.queue[1]}
<1>1. /\ SignedInCount(r) = Cardinality(r.canSignIn) /\ Cardinality(r.canSignIn) \in Nat
      /\ Cardinality(r.canSignIn) <= par.maxSignedIn /\ par.maxSignedIn \in Nat
    BY CountIsCardinality DEF SlotsAreUsed, RegionSignInParameters
<1>2. FreeSlots(r, par) \in Nat /\ FreeSlots(r, par) >= 1
    BY <1>1 DEF FreeSlots
<1>3. r.queue \in Seq(Players) /\ r.users = Players
    BY DEF TablesOK, Tables, SlotsMatchPermission
<1>4. ASSUME r.queue = <<>>
      PROVE  Served(r, par) = 0 /\ Admitted(r, par) = {}
    <2>1. Served(r, par) = 0
        BY <1>2, <1>4 DEF Served
    <2>. QED
        BY <2>1 DEF Admitted
<1>5. ASSUME r.queue # <<>>
      PROVE  Served(r, par) = 1 /\ Admitted(r, par) = {r.queue[1]}
    <2>1. Len(r.queue) \in Nat /\ Len(r.queue) >= 1
        BY <1>3, <1>5
    <2>2. FreeSlots(r, par) = 1
        BY <1>1, <1>5 DEF FreeSlots, SlotsAreUsed
    <2>3. Served(r, par) = 1
        <3>. DEFINE k == Len(r.queue)
        <3>1. Served(r, par) = IF 1 < k THEN 1 ELSE k
            BY <2>2 DEF Served
        <3>2. k \in Nat /\ k >= 1
            BY <2>1
        <3>. HIDE DEF k
        <3>. QED
            BY <3>1, <3>2
    <2>4. r.queue[1] \in Players
        BY <1>3, <2>1
    <2>. QED
        BY <1>3, <2>3, <2>4 DEF Admitted
<1>. QED
    BY <1>2, <1>4, <1>5

LEMMA GraceEndsSlots ==
    ASSUME NEW r, TablesOK(r), NEW p \in Players, NEW par \in RegionSignInParameters,
           SlotsMatchPermission(r), SlotsAreUsed(r, par), r.timer[p] # "none"
    PROVE  LET s == GraceEnds(r, par, p) IN SlotsMatchPermission(s) /\ SlotsAreUsed(s, par)
<1>. DEFINE A == Admitted(r, par)
           n == Served(r, par)
           rest == SubSeq(r.queue, n + 1, Len(r.queue))
           c == (r.canSignIn \cup A) \ {p}
           t == [q \in Players |->
                    IF q = p THEN "none" ELSE IF q \in A THEN "SignIn" ELSE r.timer[q]]
           s == GraceEnds(r, par, p)
<1>1. /\ r.timer[p] = "SignIn" /\ p \in InGracePeriod(r) /\ p \in r.canSignIn
      /\ p \notin r.signedIn /\ r.users = Players
    BY DEF SlotsMatchPermission, TablesOK, Tables, GracePeriodType, InGracePeriod
<1>2. r.queue \in Seq(Players) /\ Len(r.queue) \in Nat
    BY DEF TablesOK, Tables
<1>3. /\ FreeSlots(r, par) >= 1
      /\ r.queue = <<>> => n = 0 /\ A = {}
      /\ r.queue # <<>> => n = 1 /\ A = {r.queue[1]}
    BY <1>1, FirstIsServed
<1>4. A \cap r.canSignIn = {} /\ A \subseteq Players /\ p \notin A
    <2>1. CASE r.queue = <<>>
        BY <1>3, <2>1
    <2>2. CASE r.queue # <<>>
        <3>1. 1 \in 1 .. Len(r.queue) /\ r.queue[1] \in Players
            BY <1>2, <2>2
        <3>2. r.queue[1] \notin r.canSignIn
            BY <3>1 DEF SlotsMatchPermission
        <3>. QED
            BY <1>1, <1>3, <2>2, <3>1, <3>2
    <2>. QED
        BY <2>1, <2>2
<1>5. /\ s.users = r.users /\ s.canSignIn = c /\ s.signedIn = r.signedIn
      /\ s.queue = rest /\ s.timer = t
    <2>1. s = SignInGraceEnds(r, par, p)
        BY <1>1 DEF GraceEnds
    <2>. DEFINE a == Allow(r, A)
               b == [a EXCEPT !.queue = SubSeq(@, n + 1, Len(@))]
    <2>2. ~(FreeSlots(r, par) < 1)
        BY <1>3, CountsAreNaturals DEF FreeSlots, RegionSignInParameters
    <2>3. ProcessQueue(r, par) = b
        BY <2>2 DEF ProcessQueue
    <2>4. s = [b EXCEPT !.canSignIn = @ \ {p}, !.timer[p] = "none"]
        BY <1>4, <2>1, <2>3 DEF SignInGraceEnds
    <2>5. /\ a.users = r.users /\ a.canSignIn = r.canSignIn \cup A /\ a.queue = r.queue
          /\ a.signedIn = r.signedIn
          /\ a.timer = [q \in Players |-> IF q \in A THEN "SignIn" ELSE r.timer[q]]
        <3>. HIDE DEF A
        <3>. QED
            BY <1>4 DEF Allow, TablesOK, Tables
    <2>6. a \in Tables
        <3>. HIDE DEF A
        <3>. QED
            BY <1>4, AllowType DEF TablesOK
    <2>. HIDE DEF a, rest, A
    <2>7. /\ b.users = a.users /\ b.canSignIn = a.canSignIn /\ b.signedIn = a.signedIn
          /\ b.queue = rest /\ b.timer = a.timer
        BY <2>5, <2>6 DEF Tables, rest
    <2>. HIDE DEF b
    <2>8. b \in Tables
        BY <2>3, ProcessQueueType DEF TablesOK
    <2>9. /\ s.users = b.users /\ s.canSignIn = b.canSignIn \ {p} /\ s.signedIn = b.signedIn
          /\ s.queue = b.queue /\ s.timer = [b.timer EXCEPT ![p] = "none"]
        BY <2>4, <2>8 DEF Tables
    <2>. HIDE DEF s
    <2>10. s.timer = t
        BY <2>5, <2>7, <2>9
    <2>. QED
        BY <2>5, <2>7, <2>9, <2>10
<1>6. \A i \in 1 .. Len(rest) : rest[i] \notin c
    <2>1. CASE r.queue = <<>>
        BY <1>2, <1>3, <2>1
    <2>2. CASE r.queue # <<>>
        <3>1. n = 1 /\ A = {r.queue[1]} /\ Len(r.queue) >= 1
            BY <1>2, <1>3, <2>2
        <3>2. Len(rest) = Len(r.queue) - 1 /\ \A i \in 1 .. Len(rest) : rest[i] = r.queue[i + 1]
            BY <1>2, <3>1
        <3>3. ASSUME NEW i \in 1 .. Len(rest)
              PROVE  rest[i] \notin c
            <4>1. i + 1 \in 1 .. Len(r.queue) /\ rest[i] = r.queue[i + 1] /\ i + 1 # 1
                BY <1>2, <3>1, <3>2
            <4>2. r.queue[i + 1] \notin r.canSignIn
                BY <4>1 DEF SlotsMatchPermission
            <4>3. r.queue[i + 1] # r.queue[1]
                BY <1>2, <3>1, <4>1 DEF TablesOK, UniqueRows
            <4>. QED
                BY <3>1, <4>1, <4>2, <4>3
        <3>. QED
            BY <3>3
    <2>. QED
        BY <2>1, <2>2
<1>7. SlotsMatchPermission(s)
    <2>. HIDE DEF s, A, rest
    <2>1. InGracePeriod(s) = (InGracePeriod(r) \cup A) \ {p}
        BY <1>1, <1>4, <1>5 DEF InGracePeriod
    <2>2. s.canSignIn = s.signedIn \cup InGracePeriod(s)
        BY <1>1, <1>5, <2>1 DEF SlotsMatchPermission
    <2>3. s.signedIn \cap InGracePeriod(s) = {}
        BY <1>4, <1>5, <2>1 DEF SlotsMatchPermission
    <2>4. \A q \in Players : s.timer[q] # "QueueJoin"
        BY <1>5 DEF SlotsMatchPermission
    <2>. QED
        BY <1>1, <1>5, <1>6, <2>2, <2>3, <2>4 DEF SlotsMatchPermission
<1>8. SlotsAreUsed(s, par)
    <2>1. IsFiniteSet(r.canSignIn) /\ Cardinality(r.canSignIn) \in Nat
        BY CountIsCardinality
    <2>2. par.maxSignedIn \in Nat /\ Cardinality(r.canSignIn) <= par.maxSignedIn
        BY DEF RegionSignInParameters, SlotsAreUsed
    <2>3. CASE r.queue = <<>>
        <3>1. c = r.canSignIn \ {p} /\ rest = <<>>
            BY <1>2, <1>3, <2>3
        <3>2. Cardinality(c) = Cardinality(r.canSignIn) - 1
            BY <1>1, <2>1, <3>1, FS_RemoveElement
        <3>. HIDE DEF s, c, rest
        <3>. QED
            BY <1>5, <2>1, <2>2, <3>1, <3>2 DEF SlotsAreUsed
    <2>4. CASE r.queue # <<>>
        <3>1. A = {r.queue[1]} /\ r.queue[1] \notin r.canSignIn
            BY <1>3, <1>4, <2>4
        <3>2. /\ IsFiniteSet(r.canSignIn \cup A)
              /\ Cardinality(r.canSignIn \cup A) = Cardinality(r.canSignIn) + 1
            BY <2>1, <3>1, FS_AddElement
        <3>. DEFINE more == r.canSignIn \cup A
        <3>. HIDE DEF A
        <3>3. p \in more /\ IsFiniteSet(more)
            BY <1>1, <3>2
        <3>. HIDE DEF more
        <3>4. Cardinality(more \ {p}) = Cardinality(more) - 1
            BY <3>3, FS_RemoveElement
        <3>5. Cardinality(c) = Cardinality(r.canSignIn)
            BY <2>1, <3>2, <3>4 DEF more
        <3>. HIDE DEF s, c, rest, A
        <3>. QED
            BY <1>5, <2>1, <2>2, <2>4, <3>5 DEF SlotsAreUsed
    <2>. QED
        BY <2>3, <2>4
<1>. QED
    BY <1>7, <1>8

-----------------------------------------------------------------------------

LEMMA SlotInvInit == OnlyOrdinaryClients /\ QInit => SlotInv
<1>. SUFFICES ASSUME OnlyOrdinaryClients, QInit
              PROVE  SlotInv
    OBVIOUS
<1>1. region = EmptyTables(Players) /\ skipQueue = {} /\ parameters \in RegionSignInParameters
    BY RolesAssumption, ParametersAssumption DEF QInit, OnlyOrdinaryClients
<1>2. InGracePeriod(region) = {} /\ region.canSignIn = {} /\ region.signedIn = {}
      /\ region.queue = <<>> /\ region.users = Players
      /\ \A p \in Players : region.timer[p] = "none"
    BY <1>1 DEF EmptyTables, InGracePeriod
<1>3. SlotsMatchPermission(region)
    BY <1>2 DEF SlotsMatchPermission
<1>4. SlotsAreUsed(region, parameters)
    BY <1>1, <1>2, FS_EmptySet DEF SlotsAreUsed, RegionSignInParameters
<1>. QED
    BY <1>1, <1>3, <1>4 DEF SlotInv

LEMMA SlotInvNext ==
    OnlyOrdinaryClients /\ QTypeOK /\ SlotInv /\ [QNext]_queueVars => SlotInv'
<1>. SUFFICES ASSUME OnlyOrdinaryClients, QTypeOK, SlotInv, [QNext]_queueVars
              PROVE  SlotInv'
    OBVIOUS
<1>1. /\ TablesOK(region) /\ parameters \in RegionSignInParameters /\ skipQueue = {}
      /\ SlotsMatchPermission(region) /\ SlotsAreUsed(region, parameters)
    BY ParametersAssumption DEF QTypeOK, TablesOK, SlotInv
<1>2. ASSUME NEW r, SlotsMatchPermission(r), SlotsAreUsed(r, parameters),
             region' = r, parameters' = parameters, skipQueue' = skipQueue
      PROVE  SlotInv'
    BY <1>1, <1>2 DEF SlotInv
<1>3. ASSUME NEW r, Transact(r), SlotsMatchPermission(r), SlotsAreUsed(r, parameters)
      PROVE  SlotInv'
    BY <1>2, <1>3 DEF Transact
<1>4. ASSUME NEW players \in SUBSET Players
      PROVE  /\ SlotsMatchPermission(SignOut(region, players, TRUE))
             /\ SlotsAreUsed(SignOut(region, players, TRUE), parameters)
    BY <1>1, SignOutSlots, SlotsOfSame
<1>5. ASSUME NEW p \in Players, Connect(p) \/ Disconnect(p)
      PROVE  SlotInv'
    <2>1. region' = region \/ region' = SignOut(region, {p}, TRUE)
        BY <1>5 DEF Connect, Disconnect
    <2>2. parameters' = parameters /\ skipQueue' = skipQueue
        BY <1>5 DEF Connect, Disconnect
    <2>. QED
        BY <1>1, <1>2, <1>4, <2>1, <2>2
<1>6. ASSUME NEW p \in Players, PlayerQueueJoin(p)
      PROVE  SlotInv'
    <2>1. p \notin region.signedIn
        BY <1>6 DEF PlayerQueueJoin, OnlyOrdinaryClients
    <2>. DEFINE r == QueueJoin(region, parameters, p, FALSE)
    <2>2. SlotsMatchPermission(r) /\ SlotsAreUsed(r, parameters)
        BY <1>1, <2>1, JoinSlots
    <2>3. (p \in skipQueue) = FALSE
        BY <1>1
    <2>4. Transact(QueueJoin(region, parameters, p, p \in skipQueue))
        BY <1>6 DEF PlayerQueueJoin
    <2>5. Transact(r)
        BY <2>3, <2>4
    <2>. QED
        BY <1>3, <2>2, <2>5
<1>7. ASSUME NEW p \in Players, PlayerQueueLeave(p)
      PROVE  SlotInv'
    <2>1. /\ SlotsMatchPermission(Dequeue(region, p))
          /\ SlotsAreUsed(Dequeue(region, p), parameters)
        BY <1>1, LeaveSlots
    <2>. QED
        BY <1>3, <1>7, <2>1 DEF PlayerQueueLeave
<1>8. ASSUME NEW p \in Players, SignIn(p)
      PROVE  SlotInv'
    <2>. DEFINE r == SignedIn(region, p)
    <2>1. p \notin region.signedIn /\ p \in region.canSignIn /\ Transact(r)
        BY <1>8 DEF SignIn
    <2>2. SlotsMatchPermission(r) /\ r.canSignIn = region.canSignIn /\ r.queue = region.queue
        BY <1>1, <2>1, SignInSlots
    <2>. HIDE DEF r
    <2>3. SlotsAreUsed(r, parameters)
        BY <1>1, <2>2, SlotsOfSame
    <2>. QED
        BY <1>3, <2>1, <2>2, <2>3
<1>9. ASSUME NEW p \in Players, PlayerSignsOut(p)
      PROVE  SlotInv'
    BY <1>3, <1>4, <1>9 DEF PlayerSignsOut
<1>10. ASSUME NEW p \in Players, EndGracePeriod(p)
       PROVE  SlotInv'
    <2>1. /\ SlotsMatchPermission(GraceEnds(region, parameters, p))
          /\ SlotsAreUsed(GraceEnds(region, parameters, p), parameters)
        BY <1>1, <1>10, GraceEndsSlots DEF EndGracePeriod
    <2>. QED
        BY <1>3, <1>10, <2>1 DEF EndGracePeriod
<1>11. ASSUME AutoLogout
       PROVE  SlotInv'
    <2>1. PICK idle \in SUBSET region.users : Transact(SignOut(region, idle, TRUE))
        BY <1>11 DEF AutoLogout
    <2>2. idle \in SUBSET Players
        BY <1>1 DEF TablesOK, Tables
    <2>. QED
        BY <1>3, <1>4, <2>1, <2>2
<1>12. CASE UNCHANGED queueVars
    BY <1>12 DEF queueVars, SlotInv
<1>13. ~ \E p \in Players : \/ AdminSignOut(p) \/ PlayerSkipQueue(p) \/ PlayerDeparts(p)
                           \/ \E canSignIn \in BOOLEAN : PlayerArrives(p, canSignIn)
    BY DEF OnlyOrdinaryClients, AdminSignOut, PlayerSkipQueue, PlayerDeparts, PlayerArrives
<1>14. ~ \E players \in {{p} : p \in Players} \cup {Players} : SignPlayersOut(players)
    BY DEF OnlyOrdinaryClients, SignPlayersOut
<1>15. ~ \E par \in ParameterChoices : ParametersReplicated(par)
    BY DEF OnlyOrdinaryClients, ParametersReplicated
<1>16. ~ \E p \in Skippers : GrantSkipQueue(p)
    BY DEF OnlyOrdinaryClients
<1>. QED
    BY <1>5, <1>6, <1>7, <1>8, <1>9, <1>10, <1>11, <1>12, <1>13, <1>14, <1>15, <1>16 DEF QNext, OrdinaryNext

LEMMA HoldingIsPermission ==
    QTypeOK /\ SlotInv => /\ WithinCapacity /\ NobodyWaitsForNothing /\ PermissionIsSlot
<1>. SUFFICES ASSUME QTypeOK, SlotInv
              PROVE  WithinCapacity /\ NobodyWaitsForNothing /\ PermissionIsSlot
    OBVIOUS
<1>1. /\ Holding = region.canSignIn /\ SlotsAreUsed(region, parameters)
      /\ TablesOK(region) /\ SlotsMatchPermission(region) /\ parameters \in RegionSignInParameters
    BY ParametersAssumption DEF SlotInv, SlotsMatchPermission, Holding, QTypeOK, TablesOK
<1>2. Waiting # {} => region.queue # <<>>
    <2>1. SUFFICES ASSUME region.queue = <<>> PROVE Waiting = {}
        OBVIOUS
    <2>. QED
        BY <2>1 DEF Waiting, InQueue
<1>3. WithinCapacity
    BY <1>1 DEF WithinCapacity, SlotsAreUsed
<1>4. NobodyWaitsForNothing
    BY <1>1, <1>2, CountIsCardinality DEF NobodyWaitsForNothing, SlotsAreUsed
<1>5. PermissionIsSlot
    BY <1>1 DEF PermissionIsSlot
<1>. QED
    BY <1>3, <1>4, <1>5

LEMMA SlotInvAlways == ASSUME OnlyOrdinaryClients PROVE QSpec => [](QTypeOK /\ SlotInv)
<1>1. QInit => QTypeOK /\ SlotInv
    BY QInitType, SlotInvInit
<1>2. QTypeOK /\ SlotInv /\ [QNext]_queueVars => (QTypeOK /\ SlotInv)'
    BY QNextType, SlotInvNext
<1>. QED
    BY <1>1, <1>2, PTL DEF QSpec

(***************************************************************************)
(* No region in which only ordinary players' clients act admits more       *)
(* players than it has slots, for any number of players and any            *)
(* parameters (player_queue_join and process_queue).                       *)
(***************************************************************************)
THEOREM CapacityIsKept == ASSUME OnlyOrdinaryClients PROVE QSpec => []WithinCapacity
BY SlotInvAlways, HoldingIsPermission, PTL

(***************************************************************************)
(* In such a region nobody waits while a slot is free: every slot that is  *)
(* given up is given to the queue (end_grace_period).                      *)
(***************************************************************************)
THEOREM SlotsAreHandedOn == ASSUME OnlyOrdinaryClients PROVE QSpec => []NobodyWaitsForNothing
BY SlotInvAlways, HoldingIsPermission, PTL

(***************************************************************************)
(* In such a region can_sign_in and the slot are given and withdrawn       *)
(* together.                                                               *)
(***************************************************************************)
THEOREM PermissionsAreSlots == ASSUME OnlyOrdinaryClients PROVE QSpec => []PermissionIsSlot
BY SlotInvAlways, HoldingIsPermission, PTL

(***************************************************************************)
(* Nobody passes: while somebody waits, permission goes to the first of    *)
(* the queue alone.                                                        *)
(***************************************************************************)
OnlyFirstIsLetIn(r, s) == r.queue # <<>> => s.canSignIn \ r.canSignIn \subseteq {r.queue[1]}

LEMMA JoinLetsNobodyPass ==
    ASSUME NEW r, TablesOK(r), NEW p \in Players, NEW par \in RegionSignInParameters,
           SlotsMatchPermission(r)
    PROVE  OnlyFirstIsLetIn(r, QueueJoin(r, par, p, FALSE))
<1>. SUFFICES ASSUME r.queue # <<>>
              PROVE  QueueJoin(r, par, p, FALSE).canSignIn = r.canSignIn
    BY DEF OnlyFirstIsLetIn
<1>1. ~MayBypassQueue(r, par)
    BY DEF MayBypassQueue
<1>2. /\ StartGracePeriod(r, p, "SignIn").canSignIn = r.canSignIn
      /\ [r EXCEPT !.timer[p] = "none"].canSignIn = r.canSignIn
      /\ [r EXCEPT !.queue = Append(@, p)].canSignIn = r.canSignIn
    BY DEF StartGracePeriod, TablesOK, Tables
<1>3. QueueJoin(r, par, p, FALSE) \in
        {StartGracePeriod(r, p, "SignIn"), [r EXCEPT !.timer[p] = "none"], r,
         [r EXCEPT !.queue = Append(@, p)]}
    BY <1>1 DEF QueueJoin, Enqueue
<1>. QED
    BY <1>2, <1>3

LEMMA GraceEndLetsNobodyPass ==
    ASSUME NEW r, TablesOK(r), NEW p \in Players, NEW par \in RegionSignInParameters,
           SlotsMatchPermission(r), SlotsAreUsed(r, par), r.timer[p] # "none"
    PROVE  OnlyFirstIsLetIn(r, GraceEnds(r, par, p))
<1>. DEFINE A == Admitted(r, par)
           b == ProcessQueue(r, par)
           s == GraceEnds(r, par, p)
<1>. SUFFICES ASSUME r.queue # <<>>
              PROVE  s.canSignIn \ r.canSignIn \subseteq {r.queue[1]}
    BY DEF OnlyFirstIsLetIn
<1>1. /\ r.timer[p] = "SignIn" /\ p \in r.canSignIn /\ r.users = Players
    BY DEF SlotsMatchPermission, TablesOK, Tables, GracePeriodType, InGracePeriod
<1>2. A = {r.queue[1]} /\ FreeSlots(r, par) >= 1
    BY <1>1, FirstIsServed
<1>3. b \in Tables
    BY ProcessQueueType DEF TablesOK
<1>4. b.canSignIn \subseteq r.canSignIn \cup A
    <2>. DEFINE a == Allow(r, A)
               rest == SubSeq(a.queue, Served(r, par) + 1, Len(a.queue))
    <2>1. b \in {r, [a EXCEPT !.queue = rest]}
        BY DEF ProcessQueue
    <2>2. a.canSignIn = r.canSignIn \cup A
        <3>. HIDE DEF A
        <3>. QED
            BY DEF Allow, TablesOK, Tables
    <2>3. [a EXCEPT !.queue = rest].canSignIn = a.canSignIn
        <3>. HIDE DEF rest, A
        <3>. QED
            BY DEF Allow, TablesOK, Tables
    <2>. QED
        BY <2>1, <2>2, <2>3
<1>5. s = SignInGraceEnds(r, par, p)
    BY <1>1 DEF GraceEnds
<1>. HIDE DEF b
<1>6. SignInGraceEnds(r, par, p).canSignIn = b.canSignIn \ {p}
    BY <1>3 DEF SignInGraceEnds, b, Tables
<1>. QED
    BY <1>2, <1>4, <1>5, <1>6

LEMMA NobodyPasses ==
    OnlyOrdinaryClients /\ QTypeOK /\ SlotInv /\ [QNext]_queueVars
        => OnlyFirstIsLetIn(region, region')
<1>. SUFFICES ASSUME OnlyOrdinaryClients, QTypeOK, SlotInv, [QNext]_queueVars
              PROVE  OnlyFirstIsLetIn(region, region')
    OBVIOUS
<1>1. /\ TablesOK(region) /\ parameters \in RegionSignInParameters /\ skipQueue = {}
      /\ SlotsMatchPermission(region) /\ SlotsAreUsed(region, parameters)
    BY ParametersAssumption DEF QTypeOK, TablesOK, SlotInv
<1>2. ASSUME region'.canSignIn = region.canSignIn
      PROVE  OnlyFirstIsLetIn(region, region')
    BY <1>2 DEF OnlyFirstIsLetIn
<1>3. ASSUME NEW players \in SUBSET Players, region' = SignOut(region, players, TRUE)
      PROVE  OnlyFirstIsLetIn(region, region')
    BY <1>1, <1>2, <1>3, SignOutSlots
<1>4. ASSUME NEW p \in Players, Connect(p) \/ Disconnect(p) \/ PlayerSignsOut(p)
      PROVE  OnlyFirstIsLetIn(region, region')
    <2>1. region' = region \/ region' = SignOut(region, {p}, TRUE)
        BY <1>4 DEF Connect, Disconnect, PlayerSignsOut, Transact
    <2>. QED
        BY <1>2, <1>3, <2>1
<1>5. ASSUME NEW p \in Players, PlayerQueueJoin(p)
      PROVE  OnlyFirstIsLetIn(region, region')
    <2>1. (p \in skipQueue) = FALSE
        BY <1>1
    <2>2. region' = QueueJoin(region, parameters, p, p \in skipQueue)
        BY <1>5 DEF PlayerQueueJoin, Transact
    <2>3. region' = QueueJoin(region, parameters, p, FALSE)
        BY <2>1, <2>2
    <2>. QED
        BY <1>1, <2>3, JoinLetsNobodyPass
<1>6. ASSUME NEW p \in Players, PlayerQueueLeave(p)
      PROVE  OnlyFirstIsLetIn(region, region')
    <2>1. region' = Dequeue(region, p)
        BY <1>6 DEF PlayerQueueLeave, Transact
    <2>2. Dequeue(region, p).canSignIn = region.canSignIn
        <3>. DEFINE q == [i \in 1 .. Len(region.queue) - 1 |->
                             IF i < Position(region, p) THEN region.queue[i]
                                                        ELSE region.queue[i + 1]]
        <3>1. Dequeue(region, p) \in {region, [region EXCEPT !.queue = q]}
            BY DEF Dequeue
        <3>. HIDE DEF q
        <3>. QED
            BY <1>1, <3>1 DEF TablesOK, Tables
    <2>. QED
        BY <1>2, <2>1, <2>2
<1>7. ASSUME NEW p \in Players, SignIn(p)
      PROVE  OnlyFirstIsLetIn(region, region')
    <2>1. region' = SignedIn(region, p)
        BY <1>7 DEF SignIn, Transact
    <2>2. SignedIn(region, p).canSignIn = region.canSignIn
        BY <1>1 DEF SignedIn, TablesOK, Tables
    <2>. QED
        BY <1>2, <2>1, <2>2
<1>8. ASSUME NEW p \in Players, EndGracePeriod(p)
      PROVE  OnlyFirstIsLetIn(region, region')
    BY <1>1, <1>8, GraceEndLetsNobodyPass DEF EndGracePeriod, Transact
<1>9. ASSUME AutoLogout
      PROVE  OnlyFirstIsLetIn(region, region')
    <2>1. PICK idle \in SUBSET region.users : region' = SignOut(region, idle, TRUE)
        BY <1>9 DEF AutoLogout, Transact
    <2>2. idle \in SUBSET Players
        BY <1>1 DEF TablesOK, Tables
    <2>. QED
        BY <1>3, <2>1, <2>2
<1>10. CASE UNCHANGED queueVars
    BY <1>2, <1>10 DEF queueVars
<1>11. ~ \E p \in Players : \/ AdminSignOut(p) \/ PlayerSkipQueue(p) \/ PlayerDeparts(p)
                           \/ \E canSignIn \in BOOLEAN : PlayerArrives(p, canSignIn)
    BY DEF OnlyOrdinaryClients, AdminSignOut, PlayerSkipQueue, PlayerDeparts, PlayerArrives
<1>12. ~ \E players \in {{p} : p \in Players} \cup {Players} : SignPlayersOut(players)
    BY DEF OnlyOrdinaryClients, SignPlayersOut
<1>13. ~ \E par \in ParameterChoices : ParametersReplicated(par)
    BY DEF OnlyOrdinaryClients, ParametersReplicated
<1>14. ~ \E p \in Skippers : GrantSkipQueue(p)
    BY DEF OnlyOrdinaryClients
<1>. QED
    BY <1>4, <1>5, <1>6, <1>7, <1>8, <1>9, <1>10, <1>11, <1>12, <1>13, <1>14
       DEF QNext, OrdinaryNext

(***************************************************************************)
(* In a region in which only ordinary players' clients act, nobody is let  *)
(* in past a player who waits and goes on waiting (process_queue takes the *)
(* rows by ascending index, player_queue_join bypasses only an empty       *)
(* queue).                                                                 *)
(***************************************************************************)
THEOREM QueueIsFair == ASSUME OnlyOrdinaryClients PROVE QSpec => FirstComeFirstServed
<1>1. QTypeOK /\ SlotInv /\ [QNext]_queueVars
        => [\A p \in Waiting : \A q \in (region'.canSignIn \ region.canSignIn) \ {p} :
              ~AheadOf(q, p) => ~InQueue(region', p)]_queueVars
    <2>. SUFFICES ASSUME QTypeOK, SlotInv, [QNext]_queueVars,
                         NEW p \in Waiting,
                         NEW q \in (region'.canSignIn \ region.canSignIn) \ {p}
                  PROVE  AheadOf(q, p)
        OBVIOUS
    <2>1. PICK j \in 1 .. Len(region.queue) : region.queue[j] = p
        BY DEF Waiting, InQueue
    <2>2. region.queue \in Seq(Players) /\ Len(region.queue) \in Nat
        BY DEF QTypeOK, TablesOK, Tables
    <2>3. region.queue # <<>>
        BY <2>1, <2>2
    <2>4. q = region.queue[1]
        BY <2>3, NobodyPasses DEF OnlyFirstIsLetIn
    <2>5. j # 1 /\ 1 \in 1 .. Len(region.queue) /\ 1 < j
        BY <2>1, <2>2, <2>4
    <2>. QED
        BY <2>1, <2>4, <2>5 DEF AheadOf
<1>. QED
    BY <1>1, SlotInvAlways, PTL DEF QSpec, FirstComeFirstServed

-----------------------------------------------------------------------------
(***************************************************************************)
(* Only connected players are signed in.                                   *)
(***************************************************************************)
PresenceInv ==
    /\ QTypeOK
    /\ region.signedIn \subseteq region.users
    /\ SignedInIsConnected

\* a step that signs nobody in and disconnects nobody
LEMMA PresenceKept ==
    ASSUME PresenceInv, QTypeOK', NEW s, region' = s, FewerPresent(region, s),
           UNCHANGED connections
    PROVE  PresenceInv'
BY DEF PresenceInv, FewerPresent, SignedInIsConnected, Connected

LEMMA PresenceNext == PresenceInv /\ [QNext]_queueVars => PresenceInv'
<1> SUFFICES ASSUME PresenceInv, [QNext]_queueVars
             PROVE  PresenceInv'
  OBVIOUS
<1>1. QTypeOK' /\ TablesOK(region) /\ region \in Tables /\ parameters \in RegionSignInParameters
      /\ connections \in [Players -> 0 .. MaxConnections]
      /\ region.signedIn \subseteq Players /\ region.users \subseteq Players
  BY QNextType, ParametersAssumption DEF PresenceInv, QTypeOK, TablesOK, Tables
<1>2. ASSUME NEW s, FewerPresent(region, s), Transact(s)
      PROVE  PresenceInv'
  BY <1>1, <1>2, PresenceKept DEF Transact
<1>3. ASSUME NEW s, SamePresence(region, s), Transact(s)
      PROVE  PresenceInv'
  BY <1>2, <1>3 DEF SamePresence, FewerPresent
<1>4. ASSUME NEW p \in Players, Connect(p)
      PROVE  PresenceInv'
  <2>1. region' \in {region, SignOut(region, {p}, TRUE)}
    BY <1>4 DEF Connect
  <2>2. FewerPresent(region, region')
    <3>1. FewerPresent(region, region) /\ FewerPresent(region, SignOut(region, {p}, TRUE))
      <4>1. FewerPresent(region, SignOut(region, {p}, TRUE))
        BY <1>1, SignOutPresence
      <4> QED BY <4>1 DEF FewerPresent
    <3>2. \A s : s \in {region, SignOut(region, {p}, TRUE)} => FewerPresent(region, s)
      BY <3>1
    <3> QED BY <2>1, <3>2
  <2>3. \A q \in Players : connections'[q] >= connections[q]
    BY <1>1, <1>4, ConnectionsAssumption DEF Connect
  <2>4. \A q \in region'.signedIn : connections'[q] > 0
    <3> SUFFICES ASSUME NEW q \in region'.signedIn PROVE connections'[q] > 0
      OBVIOUS
    <3>1. q \in region.signedIn /\ q \in Players
      BY <1>1, <2>2 DEF FewerPresent
    <3>2. connections[q] > 0 /\ connections[q] \in Nat /\ connections'[q] \in Nat
      BY <1>1, <3>1, ConnectionsAssumption DEF PresenceInv, SignedInIsConnected, Connected, QTypeOK
    <3> QED BY <2>3, <3>1, <3>2
  <2> QED BY <1>1, <2>2, <2>4 DEF PresenceInv, FewerPresent, SignedInIsConnected, Connected
<1>5. ASSUME NEW p \in Players, Disconnect(p)
      PROVE  PresenceInv'
  <2> DEFINE s == SignOut(region, {p}, TRUE)
  <2>1. region' = s /\ connections' = [connections EXCEPT ![p] = @ - 1]
    BY <1>5 DEF Disconnect
  <2>2. FewerPresent(region, s) /\ s.signedIn \cap {p} \cap region.users = {}
    BY <1>1, SignOutPresence
  <2> HIDE DEF s
  <2>3. \A q \in s.signedIn : q \in region.signedIn /\ q # p
    BY <2>2 DEF FewerPresent, PresenceInv
  <2>4. \A q \in s.signedIn : connections'[q] > 0
    BY <1>1, <2>1, <2>3 DEF PresenceInv, SignedInIsConnected, Connected
  <2> QED BY <1>1, <2>1, <2>2, <2>4 DEF PresenceInv, FewerPresent, SignedInIsConnected, Connected
<1>6. ASSUME NEW p \in Players, PlayerQueueJoin(p) \/ PlayerQueueLeave(p)
      PROVE  PresenceInv'
  BY <1>1, <1>3, <1>6, QueueJoinPresence, DequeuePresence DEF PlayerQueueJoin, PlayerQueueLeave
<1>7. ASSUME NEW p \in Players, SignIn(p)
      PROVE  PresenceInv'
  <2> DEFINE s == SignedIn(region, p)
  <2>1. s.users = region.users /\ s.signedIn = region.signedIn \cup {p}
    BY <1>1 DEF SignedIn, Tables
  <2>2. region' = s /\ connections' = connections /\ Connected(p) /\ p \in region.users
    BY <1>7 DEF SignIn, Transact
  <2> HIDE DEF s
  <2> QED BY <1>1, <2>1, <2>2 DEF PresenceInv, SignedInIsConnected, Connected
<1>8. ASSUME NEW p \in Players, PlayerSignsOut(p)
      PROVE  PresenceInv'
  BY <1>1, <1>2, <1>8, SignOutPresence DEF PlayerSignsOut
<1>9. ASSUME NEW p \in Players, EndGracePeriod(p)
      PROVE  PresenceInv'
  BY <1>1, <1>3, <1>9, GraceEndsPresence DEF EndGracePeriod
<1>10. ASSUME AutoLogout
       PROVE  PresenceInv'
  BY <1>1, <1>2, <1>10, SignOutPresence DEF AutoLogout
<1>11. ASSUME NEW p \in Players, AdminSignOut(p)
       PROVE  PresenceInv'
  <2> DEFINE r == [region EXCEPT !.canSignIn = @ \ {p}]
  <2>1. r \in Tables /\ SamePresence(region, r)
    BY <1>1 DEF SamePresence, Tables
  <2> HIDE DEF r
  <2>2. FewerPresent(r, SignOut(r, {p}, FALSE))
    BY <2>1, SignOutPresence
  <2>3. FewerPresent(region, SignOut(r, {p}, FALSE))
    BY <2>1, <2>2 DEF FewerPresent, SamePresence
  <2>4. Transact(SignOut(r, {p}, FALSE))
    BY <1>11 DEF AdminSignOut, r
  <2> QED BY <1>2, <2>3, <2>4
<1>12. ASSUME NEW players, SignPlayersOut(players)
       PROVE  PresenceInv'
  BY <1>1, <1>2, <1>12, SignOutPresence DEF SignPlayersOut
<1>13. ASSUME NEW p \in Players, PlayerSkipQueue(p)
       PROVE  PresenceInv'
  <2> DEFINE r == [region EXCEPT !.timer[p] = "none"]
             s == Dequeue(r, p)
             t == AllowSignIn(s, p)
  <2>1. TablesOK(r) /\ SamePresence(region, r)
    BY <1>1, TimerReplaced DEF SamePresence, Tables
  <2>2. Transact(t)
    BY <1>13 DEF PlayerSkipQueue
  <2> HIDE DEF r
  <2>3. TablesOK(s) /\ SamePresence(r, s)
    BY <2>1, DequeueType, DequeuePresence DEF TablesOK
  <2> HIDE DEF s
  <2>4. SamePresence(s, t)
    BY <2>3, AllowPresence DEF TablesOK, AllowSignIn
  <2>5. SamePresence(region, t)
    BY <2>1, <2>3, <2>4 DEF SamePresence
  <2> QED BY <1>3, <2>2, <2>5
<1>14. ASSUME NEW p \in Skippers, GrantSkipQueue(p)
       PROVE  PresenceInv'
  BY <1>1, <1>14, PresenceKept DEF GrantSkipQueue, FewerPresent
<1>15. ASSUME NEW par \in ParameterChoices, ParametersReplicated(par)
       PROVE  PresenceInv'
  <2>1. SamePresence(region, ProcessQueue(region, par))
    BY <1>1, ProcessQueuePresence
  <2>2. region' = ProcessQueue(region, par) /\ UNCHANGED connections
    BY <1>15 DEF ParametersReplicated
  <2> QED BY <1>1, <2>1, <2>2, PresenceKept DEF SamePresence, FewerPresent
<1>16. ASSUME NEW p \in Players, PlayerDeparts(p)
       PROVE  PresenceInv'
  <2> DEFINE s == Depart(region, parameters, p)
  <2>1. s.users = region.users \ {p} /\ s.signedIn \subseteq region.signedIn \ {p}
    BY <1>1, DepartPresence
  <2>2. region' = s /\ connections' = connections
    BY <1>16 DEF PlayerDeparts, Transact
  <2> HIDE DEF s
  <2> QED BY <1>1, <2>1, <2>2 DEF PresenceInv, SignedInIsConnected, Connected
<1>17. ASSUME NEW p \in Players, NEW canSignIn \in BOOLEAN, PlayerArrives(p, canSignIn)
       PROVE  PresenceInv'
  <2> DEFINE s == Arrive(region, p, canSignIn, ~canSignIn)
  <2>1. s.users = region.users \cup {p} /\ s.signedIn = region.signedIn
    BY <1>1 DEF Arrive, Tables
  <2>2. region' = s /\ connections' = connections
    BY <1>17 DEF PlayerArrives, Transact
  <2> HIDE DEF s
  <2> QED BY <1>1, <2>1, <2>2 DEF PresenceInv, SignedInIsConnected, Connected
<1>18. CASE UNCHANGED queueVars
  BY <1>1, <1>18, PresenceKept DEF queueVars, FewerPresent
<1>19. CASE OrdinaryNext
  BY <1>4, <1>5, <1>6, <1>7, <1>8, <1>9, <1>10, <1>19 DEF OrdinaryNext
<1> QED BY <1>11, <1>12, <1>13, <1>14, <1>15, <1>16, <1>17, <1>18, <1>19 DEF QNext

(***************************************************************************)
(* A player without a connection is not signed in, whatever happens to the *)
(* region: lost connections, administrators, changed parameters and        *)
(* transfers included (identity_disconnected, sign_out_internal).          *)
(***************************************************************************)
THEOREM SignedInAreConnected == QSpec => []SignedInIsConnected
<1>1. QInit => PresenceInv
  <2> SUFFICES ASSUME QInit PROVE PresenceInv
    OBVIOUS
  <2>1. region.signedIn = {}
    BY DEF QInit, EmptyTables
  <2> QED BY <2>1, QInitType DEF PresenceInv, SignedInIsConnected
<1>2. PresenceInv /\ [QNext]_queueVars => PresenceInv'
  BY PresenceNext
<1>3. PresenceInv => SignedInIsConnected
  BY DEF PresenceInv
<1> QED BY <1>1, <1>2, <1>3, PTL DEF QSpec

-----------------------------------------------------------------------------
(***************************************************************************)
(* Fights.  Whatever any number of players and enemies do, in every order, *)
(* CombatInOrder is kept.  Its parts are about disjoint sets of variables: *)
(* what players are doing, duels, the herd and its health, the rows of     *)
(* threat, and targets; each has an invariant of its own.                  *)
(***************************************************************************)
ActionResults == {"None", "Success", "Fail", "Cancel", "TimingFail"}
ActionRows == [type : ActionTypes, result : ActionResults, target : Fighting \cup {Nothing}]
ClearRows == [player : Fighters, type : ActionTypes \ {"UseElevator"}, layer : Layers,
              result : ActionResults]

ActionInv ==
    /\ action \in [Fighters -> [Layers -> ActionRows]]
    /\ actionClears \subseteq ClearRows
    /\ rider \subseteq Fighters /\ \A p, q \in rider : p = q
    /\ \A p \in Fighters :
          action[p]["Base"].type = "UseElevator" =>
              p \in rider \/ \E c \in actionClears : c.player = p /\ c.layer = "Base"

DuelRows == [initiator : Duelists, acceptor : Duelists, victor : Duelists \cup {NoVictor}]

DuelInv ==
    /\ DuelsTypeOK /\ DuelsEnd
    /\ \A d \in DOMAIN duels : duels[d] \in DuelRows

\* who has ever been there, and pairs of them that are not two enemies
Known == Fighters \cup spawned
Opposed(r) == r \in Known \X Known /\ ~(r[1] \in Enemies /\ r[2] \in Enemies)

HerdInv ==
    /\ spawned \subseteq Enemies
    /\ Fighters \subseteq DOMAIN health /\ DOMAIN health \subseteq Known
    /\ \A x \in DOMAIN health : health[x] \in 0 .. MaxHealth[x]
    /\ IsFiniteSet(Present) /\ HerdIsCounted
    /\ justDied \subseteq Known
    /\ \A x \in justDied \cap DOMAIN health : ~Alive(x) \/ x \in withered
    /\ SlainDespawn

CallsInv ==
    /\ \A r \in impacts : Opposed(r)
    /\ windups \subseteq spawned \X Fighters
    /\ deathTimers \subseteq Fighters /\ signedIn \subseteq Fighters /\ cargo \subseteq Fighters

ThreatInv ==
    /\ \A r \in threat : Opposed(r)
    /\ contribution \subseteq Fighters \X Enemies
    /\ DOMAIN scaling = Present
    /\ HuntedIsInCombat /\ GoneIsForgotten /\ ContributionHasEnemy /\ ScalingFollowsThreat

TargetsInv == DOMAIN targets \subseteq Known /\ TargetsLive

FightInv == DuelInv /\ HerdInv /\ CallsInv /\ ThreatInv /\ TargetsInv
CombatInv == ActionInv /\ FightInv

LEMMA CombatInvIsEnough == CombatInv => CombatInOrder
<1>. SUFFICES ASSUME CombatInv PROVE CombatInOrder
    OBVIOUS
<1>1. ActionsTypeOK /\ ElevatorLetsGo
    BY LayersAssumption
       DEF CombatInv, FightInv, ActionInv, ActionsTypeOK, ActionRows, ClearRows, ElevatorLetsGo, Doing, LayerOf, Layers
<1>2. CombatTypeOK
    BY <1>1 DEF CombatInv, FightInv, DuelInv, HerdInv, CallsInv, ThreatInv, TargetsInv, CombatTypeOK, Known, Fighting,
                Opposed
<1>. QED
    BY <1>1, <1>2 DEF CombatInv, FightInv, DuelInv, HerdInv, ThreatInv, TargetsInv, CombatInOrder

LEMMA CombatInvInit == CombatInit => CombatInv
<1>. SUFFICES ASSUME CombatInit PROVE CombatInv
    OBVIOUS
<1>1. Present = {}
    BY FightersAssumption DEF CombatInit, Present
<1>2. ActionInv
    BY DEF CombatInit, ActionsInit, ActionInv, ActionRows, ActionTypes, ActionResults, Row, Layers
<1>3. DuelInv
    BY DuelsAssumption DEF CombatInit, DuelsInit, DuelInv, DuelsTypeOK, DuelsEnd
<1>4. HerdInv
    BY <1>1, HealthAssumption, FS_EmptySet
       DEF CombatInit, HerdInv, HerdIsCounted, SlainDespawn, Known
<1>5. CallsInv /\ ThreatInv /\ TargetsInv
    BY <1>1 DEF CombatInit, CallsInv, ThreatInv, TargetsInv, HuntedIsInCombat, GoneIsForgotten,
                ContributionHasEnemy, ScalingFollowsThreat, TargetsLive
<1>. QED
    BY <1>2, <1>3, <1>4, <1>5 DEF CombatInv, FightInv

-----------------------------------------------------------------------------
(***************************************************************************)
(* What a player is doing.                                                 *)
(***************************************************************************)
LEMMA AskKeeps == ASSUME ActionInv, NEW S \in SUBSET ClearRows, Ask(S), UNCHANGED <<action, rider>>
                  PROVE  ActionInv'
BY DEF ActionInv, Ask

\* the rows of one player change, who does not enter the elevator
LEMMA DoingKeeps ==
    ASSUME ActionInv, NEW p \in Fighters, action' \in [Fighters -> [Layers -> ActionRows]],
           \A q \in Fighters \ {p} : action'[q] = action[q],
           action'[p]["Base"].type # "UseElevator" \/ action'[p]["Base"].type = action[p]["Base"].type,
           UNCHANGED <<actionClears, rider>>
    PROVE  ActionInv'
BY DEF ActionInv

LEMMA SuccessType ==
    ASSUME NEW a \in [Fighters -> [Layers -> ActionRows]], NEW p \in Fighters,
           NEW type \in ActionTypes, NEW target \in Fighting \cup {Nothing}
    PROVE  /\ Success(a, p, type, target) \in [Fighters -> [Layers -> ActionRows]]
           /\ \A q \in Fighters \ {p} : Success(a, p, type, target)[q] = a[q]
           /\ Success(a, p, type, target)[p]["Base"].type =
                  IF LayerOf(type) = "Base" THEN type ELSE a[p]["Base"].type
<1>1. LayerOf(type) \in Layers
    BY DEF LayerOf, Layers
<1>2. Row(type, "Success", target) \in ActionRows
    BY DEF Row, ActionRows, ActionResults
<1>3. [a[p] EXCEPT ![LayerOf(type)] = Row(type, "Success", target)] \in [Layers -> ActionRows]
    BY <1>1, <1>2
<1>4. Success(a, p, type, target) =
          [a EXCEPT ![p] = [a[p] EXCEPT ![LayerOf(type)] = Row(type, "Success", target)]]
    BY DEF Success
<1>5. "Base" \in Layers
    BY DEF Layers
<1>. QED
    BY <1>1, <1>2, <1>3, <1>4, <1>5 DEF Row

LEMMA InterruptingType ==
    ASSUME action \in [Fighters -> [Layers -> ActionRows]], NEW p \in Fighters, NEW type
    PROVE  /\ Interrupting(p, type) \in [Fighters -> [Layers -> ActionRows]]
           /\ \A q \in Fighters \ {p} : Interrupting(p, type)[q] = action[q]
           /\ Interrupting(p, type)[p]["Base"] = action[p]["Base"]
<1>. DEFINE r == action[p]["UpperBody"]
            s == [[r EXCEPT !.type = "None"] EXCEPT !.result = "Cancel"]
            after == [action EXCEPT ![p] = [action[p] EXCEPT !["UpperBody"] = s]]
<1>1. r \in ActionRows
    BY DEF Layers
<1>2. s \in ActionRows
    BY <1>1 DEF ActionRows, ActionTypes, ActionResults
<1>3. "Base" \in Layers /\ "UpperBody" \in Layers
    BY DEF Layers
<1>. HIDE DEF s
<1>4. [action[p] EXCEPT !["UpperBody"] = s] \in [Layers -> ActionRows]
    BY <1>2, <1>3
<1>5. /\ after \in [Fighters -> [Layers -> ActionRows]]
      /\ \A q \in Fighters \ {p} : after[q] = action[q]
      /\ after[p]["Base"] = action[p]["Base"]
    BY <1>3, <1>4
<1>. USE DEF s
<1>6. Interrupting(p, type) \in {after, action}
    BY DEF Interrupting
<1>. HIDE DEF after
<1>. QED
    BY <1>5, <1>6

LEMMA StartActionKeeps ==
    ASSUME ActionInv, NEW p \in Fighters, NEW type \in ActionTypes \ {"UseElevator"},
           NEW target \in Fighting \cup {Nothing}, NEW ok, StartAction(p, type, target, ok),
           UNCHANGED rider
    PROVE  ActionInv'
<1>. DEFINE between == Interrupting(p, type)
<1>1. /\ between \in [Fighters -> [Layers -> ActionRows]]
      /\ \A q \in Fighters \ {p} : between[q] = action[q]
      /\ between[p]["Base"] = action[p]["Base"]
    BY InterruptingType DEF ActionInv
<1>. HIDE DEF between
<1>2. /\ Success(between, p, type, target) \in [Fighters -> [Layers -> ActionRows]]
      /\ \A q \in Fighters \ {p} : Success(between, p, type, target)[q] = between[q]
      /\ Success(between, p, type, target)[p]["Base"].type =
                  IF LayerOf(type) = "Base" THEN type ELSE between[p]["Base"].type
    BY <1>1, SuccessType
<1>3. CASE action' = Success(between, p, type, target) /\ UNCHANGED actionClears
    BY <1>1, <1>2, <1>3, DoingKeeps
<1>4. CASE Refuse(FailAction(p, LayerOf(type)))
    <2>1. FailAction(p, LayerOf(type)) \in SUBSET ClearRows
        BY DEF FailAction, Clear, ClearRows, ActionTypes, ActionResults, LayerOf, Layers
    <2>. QED
        BY <1>4, <2>1, AskKeeps DEF Refuse
<1>. QED
    BY <1>3, <1>4 DEF StartAction, between

LEMMA ClearsType ==
    ASSUME NEW p \in Fighters, NEW ok, NEW layer \in Layers, NEW type \in ActionTypes \ {"UseElevator"}
    PROVE  ScheduleClear(p, layer, ok) \in SUBSET ClearRows /\ FailTiming(p, type) \in SUBSET ClearRows
BY DEF ScheduleClear, FailTiming, Clear, ClearRows, ActionTypes, ActionResults, LayerOf, Layers

LEMMA EditKeeps ==
    ASSUME ActionInv, NEW p \in Fighters, NEW r \in [Layers -> ActionRows],
           action' = [action EXCEPT ![p] = r],
           r["Base"].type # "UseElevator" \/ r["Base"].type = action[p]["Base"].type,
           UNCHANGED <<actionClears, rider>>
    PROVE  ActionInv'
<1>1. action' \in [Fighters -> [Layers -> ActionRows]] /\ action'[p] = r
      /\ \A q \in Fighters \ {p} : action'[q] = action[q]
    BY DEF ActionInv
<1>. QED
    BY <1>1, DoingKeeps

LEMMA SleepKeeps ==
    ASSUME ActionInv, NEW p \in Fighters, action' \in {Slept(action, p), action},
           UNCHANGED <<actionClears, rider>>
    PROVE  ActionInv'
<1>1. /\ Slept(action, p) \in [Fighters -> [Layers -> ActionRows]]
      /\ \A q \in Fighters \ {p} : Slept(action, p)[q] = action[q]
      /\ Slept(action, p)[p]["Base"].type =
             IF LayerOf("Sleep") = "Base" THEN "Sleep" ELSE action[p]["Base"].type
    <2>1. "Sleep" \in ActionTypes
        BY DEF ActionTypes
    <2>. QED
        BY <2>1, SuccessType DEF Slept, ActionInv
<1>2. CASE action' = Slept(action, p)
    BY <1>1, <1>2, DoingKeeps
<1>3. CASE action' = action
    BY <1>3 DEF ActionInv
<1>. QED
    BY <1>2, <1>3

LEMMA ClearedKeeps ==
    ASSUME ActionInv, NEW p \in Fighters, action' = ClearedByEntityId(p), UNCHANGED <<actionClears, rider>>
    PROVE  ActionInv'
<1>. DEFINE r == [l \in Layers |-> Row("None", "Fail", Nothing)]
<1>1. r \in [Layers -> ActionRows] /\ r["Base"].type # "UseElevator"
    BY DEF ActionRows, ActionTypes, ActionResults, Row, Layers
<1>. QED
    BY <1>1, EditKeeps DEF ClearedByEntityId

Edited(r, type, result) == [[r EXCEPT !.type = type] EXCEPT !.result = result]

LEMMA EditedRow ==
    ASSUME NEW r \in ActionRows, NEW type \in ActionTypes, NEW result \in ActionResults
    PROVE  Edited(r, type, result) \in ActionRows /\ Edited(r, type, result).type = type
<1>. DEFINE s == [r EXCEPT !.type = type]
<1>1. s \in ActionRows /\ s.type = type
    BY DEF ActionRows
<1>. HIDE DEF s
<1>2. [s EXCEPT !.result = result] \in ActionRows /\ [s EXCEPT !.result = result].type = type
    BY <1>1 DEF ActionRows
<1>. QED
    BY <1>2 DEF s, Edited

LEMMA SignOutKeepsActions ==
    ASSUME ActionInv, NEW p \in Fighters, UNCHANGED <<actionClears, rider>>,
           action' = [action EXCEPT ![p] = [l \in Layers |-> [action[p][l] EXCEPT !.type = "None",
                                                                          !.result = "Cancel"]]]
    PROVE  ActionInv'
<1>. DEFINE s(l) == Edited(action[p][l], "None", "Cancel")
            r == [l \in Layers |-> s(l)]
<1>1. \A l \in Layers : s(l) \in ActionRows /\ s(l).type = "None"
    <2>. SUFFICES ASSUME NEW l \in Layers PROVE s(l) \in ActionRows /\ s(l).type = "None"
        OBVIOUS
    <2>1. action[p][l] \in ActionRows /\ "None" \in ActionTypes /\ "Cancel" \in ActionResults
        BY DEF ActionInv, ActionTypes, ActionResults
    <2>. HIDE DEF s
    <2>. QED
        BY <2>1, EditedRow DEF s
<1>2. action' = [action EXCEPT ![p] = r]
    BY DEF Edited
<1>. HIDE DEF s
<1>3. r \in [Layers -> ActionRows] /\ r["Base"].type = "None"
    BY <1>1 DEF Layers
<1>. HIDE DEF r
<1>. QED
    BY <1>2, <1>3, EditKeeps

LEMMA GestureKeeps ==
    ASSUME ActionInv, NEW p \in Fighters, NEW alive, UNCHANGED rider,
           \/ EmoteStart(p, alive) \/ Emote(p, alive) \/ PlayerActionCancel(p)
           \/ ResetMobileEntityPosition(p) \/ PlayerMove(p)
    PROVE  ActionInv'
<1>1. "StationaryEmote" \in ActionTypes \ {"UseElevator"} /\ LayerOf("StationaryEmote") \in Layers
      /\ "Base" \in Layers /\ "Success" \in ActionResults /\ "Cancel" \in ActionResults
    BY DEF ActionTypes, LayerOf, Layers, ActionResults
<1>2. CASE EmoteStart(p, alive)
    BY <1>1, <1>2, StartActionKeeps DEF EmoteStart
<1>3. CASE Emote(p, alive)
    <2>. DEFINE ok == EmoteAllowed(p, alive) /\ Validated(p, "StationaryEmote", Nothing)
    <2>. HIDE DEF ok
    <2>1. Refuse(ScheduleClear(p, LayerOf("StationaryEmote"), ok))
        BY <1>3 DEF Emote, ok
    <2>. QED
        BY <1>1, <2>1, ClearsType, AskKeeps DEF Refuse
<1>4. CASE PlayerActionCancel(p)
    <2>. DEFINE s == [action[p]["Base"] EXCEPT !.result = "Cancel"]
                r == [action[p] EXCEPT !["Base"] = s]
    <2>1. s \in ActionRows /\ s.type = action[p]["Base"].type
        <3>1. action[p]["Base"] \in ActionRows
            BY <1>1 DEF ActionInv
        <3>. QED
            BY <1>1, <3>1 DEF ActionRows
    <2>2. action' = [action EXCEPT ![p] = r]
        BY <1>4 DEF PlayerActionCancel
    <2>3. UNCHANGED actionClears
        BY <1>4 DEF PlayerActionCancel
    <2>. HIDE DEF s
    <2>4. r \in [Layers -> ActionRows] /\ r["Base"].type = action[p]["Base"].type
        BY <1>1, <2>1 DEF ActionInv
    <2>. HIDE DEF r
    <2>. QED
        BY <2>2, <2>3, <2>4, EditKeeps
<1>5. CASE ResetMobileEntityPosition(p)
    BY <1>5, ClearedKeeps DEF ResetMobileEntityPosition
<1>6. CASE PlayerMove(p)
    <2>1. PICK type \in {"PlayerMove", "None"} :
              action' = [action EXCEPT ![p]["Base"] = Row(type, "Success", Nothing)]
        BY <1>6 DEF PlayerMove
    <2>. DEFINE s == Row(type, "Success", Nothing)
                r == [action[p] EXCEPT !["Base"] = s]
    <2>2. s \in ActionRows /\ s.type # "UseElevator"
        BY DEF Row, ActionRows, ActionTypes, ActionResults
    <2>3. action' = [action EXCEPT ![p] = r] /\ UNCHANGED actionClears
        BY <1>6, <2>1 DEF PlayerMove
    <2>. HIDE DEF s
    <2>4. r \in [Layers -> ActionRows] /\ r["Base"].type # "UseElevator"
        BY <1>1, <2>2 DEF ActionInv
    <2>. HIDE DEF r
    <2>. QED
        BY <2>3, <2>4, EditKeeps
<1>. QED
    BY <1>2, <1>3, <1>4, <1>5, <1>6

\* a call that arrives ends whatever there is on its layer
LEMMA ClearArrives ==
    ASSUME ActionInv, PlayerClearActionState, UNCHANGED rider
    PROVE  ActionInv'
<1>1. PICK c \in actionClears :
        /\ actionClears' = actionClears \ {c}
        /\ action' = [action EXCEPT ![c.player][c.layer].type = c.type,
                                    ![c.player][c.layer].result = c.result]
    BY DEF PlayerClearActionState
<1>2. /\ c.player \in Fighters /\ c.layer \in Layers
      /\ c.type \in ActionTypes \ {"UseElevator"} /\ c.result \in ActionResults
    BY DEF ActionInv, ClearRows
<1>. DEFINE p == c.player
            l == c.layer
            s == Edited(action[p][l], c.type, c.result)
            r == [action[p] EXCEPT ![l] = s]
<1>3. s \in ActionRows /\ s.type = c.type
    <2>1. action[p][l] \in ActionRows
        BY <1>2 DEF ActionInv
    <2>. QED
        BY <1>2, <2>1, EditedRow
<1>4. action' = [action EXCEPT ![p] = r]
    BY <1>1, <1>2 DEF ActionInv, Edited
<1>. HIDE DEF s
<1>5. /\ r \in [Layers -> ActionRows] /\ r[l] = s
      /\ \A k \in Layers \ {l} : r[k] = action[p][k]
    BY <1>2, <1>3 DEF ActionInv
<1>. HIDE DEF r
<1>6. /\ action' \in [Fighters -> [Layers -> ActionRows]] /\ action'[p] = r
      /\ \A q \in Fighters \ {p} : action'[q] = action[q]
    BY <1>2, <1>4, <1>5 DEF ActionInv
<1>7. ASSUME NEW q \in Fighters, action'[q]["Base"].type = "UseElevator"
      PROVE  q \in rider \/ \E d \in actionClears' : d.player = q /\ d.layer = "Base"
    <2>1. action[q]["Base"].type = "UseElevator"
        BY <1>2, <1>3, <1>5, <1>6, <1>7 DEF Layers
    <2>2. q # p \/ l # "Base"
        BY <1>2, <1>3, <1>5, <1>6, <1>7
    <2>. QED
        BY <1>1, <2>1, <2>2 DEF ActionInv
<1>. QED
    BY <1>1, <1>6, <1>7 DEF ActionInv

LEMMA RideBegins ==
    ASSUME ActionInv, NEW p \in Fighters, StartAction(p, "UseElevator", Nothing, TRUE),
           rider = {}, rider' = {p}
    PROVE  ActionInv'
<1>. DEFINE between == Interrupting(p, "UseElevator")
<1>1. /\ between \in [Fighters -> [Layers -> ActionRows]]
      /\ \A q \in Fighters \ {p} : between[q] = action[q]
    BY InterruptingType DEF ActionInv
<1>. HIDE DEF between
<1>2. "UseElevator" \in ActionTypes
    BY DEF ActionTypes
<1>3. /\ Success(between, p, "UseElevator", Nothing) \in [Fighters -> [Layers -> ActionRows]]
      /\ \A q \in Fighters \ {p} : Success(between, p, "UseElevator", Nothing)[q] = between[q]
    BY <1>1, <1>2, SuccessType
<1>4. action' = Success(between, p, "UseElevator", Nothing) /\ UNCHANGED actionClears
    BY LayersAssumption DEF StartAction, BlockedByBase, between
<1>. QED
    BY <1>1, <1>3, <1>4 DEF ActionInv

LEMMA RideEnds ==
    ASSUME ActionInv, NEW p \in rider, NEW ok \in BOOLEAN, rider' = {}, Refuse(ScheduleClear(p, "Base", ok))
    PROVE  ActionInv'
<1>1. p \in Fighters /\ "Base" \in Layers /\ rider = {p}
    BY DEF ActionInv, Layers
<1>2. ScheduleClear(p, "Base", ok) \in SUBSET ClearRows
    BY <1>1, ClearsType DEF ActionTypes
<1>3. actionClears' = actionClears \cup ScheduleClear(p, "Base", ok) /\ action' = action
    BY DEF Refuse, Ask
<1>. DEFINE asked == Clear(p, "None", "Base", IF ok THEN "Success" ELSE "Fail")
<1>4. asked \in actionClears' /\ asked.player = p /\ asked.layer = "Base"
    BY <1>3 DEF ScheduleClear, Clear
<1>. HIDE DEF asked
<1>5. \A q \in Fighters : action'[q]["Base"].type = "UseElevator" =>
                              \E c \in actionClears' : c.player = q /\ c.layer = "Base"
    <2>. SUFFICES ASSUME NEW q \in Fighters, action'[q]["Base"].type = "UseElevator", q # p
                  PROVE  \E c \in actionClears' : c.player = q /\ c.layer = "Base"
        BY <1>4
    <2>. QED
        BY <1>1, <1>3 DEF ActionInv
<1>. QED
    BY <1>2, <1>3, <1>5 DEF ActionInv

LEMMA FightKeepsActions ==
    ASSUME ActionInv, CallsInv, NEW p \in Fighters, NEW x \in Fighting,
           AttackStart(p, x) \/ Attack(p, x)
    PROVE  ActionInv'
<1>1. CASE AttackStart(p, x)
    <2>1. PICK ok : StartAction(p, "Attack", x, ok)
        BY <1>1 DEF AttackStart
    <2>2. "Attack" \in ActionTypes \ {"UseElevator"} /\ UNCHANGED rider
        BY <1>1 DEF ActionTypes, AttackStart, fightVars
    <2>. QED
        BY <2>1, <2>2, StartActionKeeps
<1>2. CASE Attack(p, x)
    <2>. DEFINE hit == ScheduleClear(p, LayerOf("Attack"), TRUE)
                miss == ScheduleClear(p, LayerOf("Attack"), FALSE)
    <2>1. hit \in SUBSET ClearRows /\ miss \in SUBSET ClearRows
        <3>1. LayerOf("Attack") \in Layers /\ "None" \in ActionTypes \ {"UseElevator"}
            BY DEF LayerOf, Layers, ActionTypes
        <3>. QED
            BY <3>1, ClearsType
    <2>2. UNCHANGED <<action, rider>>
        BY <1>2 DEF Attack, Refuse
    <2>3. Ask(hit) \/ Ask(miss) \/ Ask(hit \cup miss)
        BY <1>2 DEF Attack, Refuse
    <2>. HIDE DEF hit, miss
    <2>4. hit \cup miss \in SUBSET ClearRows
        BY <2>1
    <2>. QED
        BY <2>1, <2>2, <2>3, <2>4, AskKeeps
<1>. QED
    BY <1>1, <1>2

LEMMA EscapeKeepsActions ==
    ASSUME ActionInv, CallsInv, Escape(Fighters)
    PROVE  ActionInv'
<1>1. /\ "Climb" \in ActionTypes \ {"UseElevator"} /\ "Teleport" \in ActionTypes \ {"UseElevator"}
      /\ "Base" \in Layers
    BY DEF ActionTypes, Layers
<1>2. ASSUME NEW p \in Fighters, ClimbStart(p) \/ TeleportStart(p)
      PROVE  ActionInv'
    <2>1. PICK ok : StartAction(p, "Climb", Nothing, ok) \/ StartAction(p, "Teleport", Nothing, ok)
        BY <1>2 DEF ClimbStart, TeleportStart
    <2>2. UNCHANGED rider
        BY <1>2 DEF ClimbStart, TeleportStart, inPlace, fightVars
    <2>. QED
        BY <1>1, <2>1, <2>2, StartActionKeeps
<1>3. ASSUME NEW p \in Fighters, Climb(p)
      PROVE  ActionInv'
    <2>. DEFINE late == ScheduleClear(p, "Base", FALSE)
                early == FailTiming(p, "Climb")
    <2>1. PICK ok : \/ Refuse(ScheduleClear(p, "Base", ok)) \/ Refuse(early \cup late)
        BY <1>3 DEF Climb
    <2>2. ScheduleClear(p, "Base", ok) \in SUBSET ClearRows /\ late \in SUBSET ClearRows
          /\ early \in SUBSET ClearRows
        BY <1>1, ClearsType
    <2>3. UNCHANGED rider
        BY <1>3 DEF Climb, inPlace, fightVars
    <2>. HIDE DEF late, early
    <2>. QED
        BY <2>1, <2>2, <2>3, AskKeeps DEF Refuse
<1>4. ASSUME NEW p \in Fighters, PlayerUseElevator(p)
      PROVE  ActionInv'
    BY <1>4, RideBegins DEF PlayerUseElevator
<1>5. ASSUME NEW p \in Fighters, Teleport(p)
      PROVE  ActionInv'
    <2>1. \/ action' = Slept(action, p) /\ UNCHANGED actionClears
          \/ Refuse(ScheduleClear(p, "Base", TRUE)) \/ Refuse(ScheduleClear(p, "Base", FALSE))
        BY <1>5 DEF Teleport
    <2>2. UNCHANGED rider
        BY <1>5 DEF Teleport
    <2>3. ScheduleClear(p, "Base", TRUE) \in SUBSET ClearRows /\ ScheduleClear(p, "Base", FALSE) \in SUBSET ClearRows
        BY <1>1, ClearsType
    <2>. QED
        BY <2>1, <2>2, <2>3, AskKeeps, SleepKeeps DEF Refuse
<1>6. ASSUME NEW p \in Fighters, ServerTeleportPlayer(p) \/ Sleep(p)
      PROVE  ActionInv'
    <2>1. action' \in {Slept(action, p), action} /\ UNCHANGED <<actionClears, rider>>
        BY <1>6 DEF ServerTeleportPlayer, Sleep, inPlace, fightVars
    <2>. QED
        BY <2>1, SleepKeeps
<1>7. CASE PlayerElevatorArrive
    BY <1>7, RideEnds DEF PlayerElevatorArrive
<1>. QED
    BY <1>2, <1>3, <1>4, <1>5, <1>6, <1>7 DEF Escape

(***************************************************************************)
(* Everything that players and enemies may do, without regard to scenes.   *)
(***************************************************************************)
AnyFight ==
    \/ Fight(Fighters, Fighting) \/ ComeAndGo(Fighters) \/ Herd(Fighters) \/ Recover(Fighters)
    \/ Aim(Fighters) \/ Escape(Fighters) \/ Gesture(Fighters) \/ Cast(Fighters) \/ Challenge

LEMMA ActionsAreKept ==
    ASSUME ActionInv, CallsInv, AnyFight
    PROVE  ActionInv'
<1>1. ASSUME UNCHANGED <<actionVars, rider>> PROVE ActionInv'
    BY <1>1 DEF ActionInv, actionVars
<1>2. CASE Fight(Fighters, Fighting)
    <2>1. ASSUME AttackImpact \/ \E x \in Fighting : RespawnSecondsPass(x) PROVE ActionInv'
        BY <1>1, <2>1 DEF AttackImpact, RespawnSecondsPass
    <2>2. CASE PlayerDeathStart
        <3>1. PICK p \in deathTimers : StartAction(p, "Death", Nothing, TRUE) /\ UNCHANGED rider
            BY <2>2 DEF PlayerDeathStart
        <3>2. p \in Fighters /\ "Death" \in ActionTypes \ {"UseElevator"}
            BY DEF CallsInv, ActionTypes
        <3>. QED
            BY <3>1, <3>2, StartActionKeeps
    <2>3. CASE PlayerClearActionState /\ UNCHANGED inPlace
        BY <2>3, ClearArrives DEF inPlace, fightVars
    <2>. QED
        BY <1>2, <2>1, <2>2, <2>3, FightKeepsActions DEF Fight
<1>3. CASE ComeAndGo(Fighters)
    <2>1. ASSUME NEW p \in Fighters, PlayerRespawn(p) PROVE ActionInv'
        <3>1. action' \in {Slept(action, p), action} \/ action' = ClearedByEntityId(p)
            BY <2>1 DEF PlayerRespawn
        <3>2. UNCHANGED <<actionClears, rider>>
            BY <2>1 DEF PlayerRespawn
        <3>. QED
            BY <3>1, <3>2, SleepKeeps, ClearedKeeps
    <2>2. ASSUME NEW p \in Fighters, PlayerSignOut(p) PROVE ActionInv'
        BY <2>2, SignOutKeepsActions DEF PlayerSignOut
    <2>3. ASSUME NEW p \in Fighters, PlayerSignIn(p) PROVE ActionInv'
        BY <1>1, <2>3 DEF PlayerSignIn
    <2>. QED
        BY <1>3, <2>1, <2>2, <2>3 DEF ComeAndGo
<1>4. CASE Herd(Fighters)
    BY <1>1, <1>4 DEF Herd, EnemySpawn, EnemyDespawnFromMobMonitor, EnemyClearAggro, EnemyAttackStart,
                      AttackScheduled, EnemyDespawn, despawnUnchanged
<1>5. CASE Recover(Fighters)
    BY <1>1, <1>5 DEF Recover, EnemyRegen, PlayerRegen, Starve, healthUnchanged
<1>6. CASE Aim(Fighters)
    BY <1>1, <1>6 DEF Aim, TargetDropped, TargetUpdate
<1>7. CASE Escape(Fighters)
    BY <1>7, EscapeKeepsActions
<1>8. CASE Gesture(Fighters)
    <2>1. PICK p \in Fighters :
              /\ \/ EmoteStart(p, Alive(p)) \/ Emote(p, Alive(p)) \/ PlayerActionCancel(p)
                 \/ ResetMobileEntityPosition(p) \/ PlayerMove(p)
              /\ UNCHANGED inPlace
        BY <1>8 DEF Gesture
    <2>2. UNCHANGED rider
        BY <2>1 DEF inPlace, fightVars
    <2>. QED
        BY <2>1, <2>2, GestureKeeps
<1>9. CASE Cast(Fighters)
    <2>1. PICK p \in Fighters, e \in Enemies : AbilityCustomStart(p, e) \/ AbilityCustom(p, e)
        BY <1>9 DEF Cast
    <2>2. "AbilityCustom" \in ActionTypes \ {"UseElevator"} /\ e \in Fighting /\ "Base" \in Layers
        BY DEF ActionTypes, Fighting, Layers
    <2>3. CASE AbilityCustomStart(p, e)
        <3>1. PICK ok : StartAction(p, "AbilityCustom", e, ok)
            BY <2>3 DEF AbilityCustomStart
        <3>2. UNCHANGED rider
            BY <2>3 DEF AbilityCustomStart, inPlace, fightVars
        <3>. QED
            BY <2>2, <3>1, <3>2, StartActionKeeps
    <2>4. CASE AbilityCustom(p, e)
        <3>1. UNCHANGED actionVars \/ Refuse(FailTiming(p, "AbilityCustom"))
            BY <2>4 DEF AbilityCustom
        <3>2. UNCHANGED rider
            BY <2>4 DEF AbilityCustom
        <3>3. FailTiming(p, "AbilityCustom") \in SUBSET ClearRows
            BY <2>2, ClearsType
        <3>. QED
            BY <1>1, <3>1, <3>2, <3>3, AskKeeps DEF Refuse
    <2>. QED
        BY <2>1, <2>3, <2>4
<1>10. CASE Challenge
    BY <1>1, <1>10 DEF Challenge, fightVars
<1>. QED
    BY <1>2, <1>3, <1>4, <1>5, <1>6, <1>7, <1>8, <1>9, <1>10 DEF AnyFight

-----------------------------------------------------------------------------
(***************************************************************************)
(* Duels.  A duel is decided together with its timer, by a death or by the *)
(* agent; whatever else happens leaves both alone.                         *)
(***************************************************************************)
LEMMA SetLosersKeeps ==
    ASSUME DuelInv, NEW loserOf, SetLosers(loserOf), UNCHANGED <<votes, lastDuel>>,
           DOMAIN loserOf \subseteq DOMAIN duels
    PROVE  DuelInv'
<1>1. DOMAIN duels' = DOMAIN duels /\ duelTimers' = duelTimers \cup DOMAIN loserOf
    BY DEF SetLosers
<1>2. ASSUME NEW d \in DOMAIN duels
      PROVE  /\ duels'[d] \in DuelRows
             /\ d \notin DOMAIN loserOf => duels'[d] = duels[d]
    <2>. DEFINE v == Opponent(d, loserOf[d])
    <2>1. v \in Duelists /\ duels[d] \in DuelRows
        BY DEF DuelInv, DuelRows, Opponent
    <2>2. duels'[d] = IF d \in DOMAIN loserOf THEN [duels[d] EXCEPT !.victor = v] ELSE duels[d]
        BY DEF SetLosers
    <2>. HIDE DEF v
    <2>. QED
        BY <2>1, <2>2 DEF DuelRows
<1>3. \A d \in DOMAIN duels' : duels'[d].victor \in Duelists \cup {NoVictor}
    BY <1>1, <1>2 DEF DuelRows
<1>. QED
    BY <1>1, <1>2, <1>3 DEF DuelInv, DuelsTypeOK, DuelsEnd

LEMMA DeathLosesDuels ==
    ASSUME DuelInv, NEW p, LosesByDeath(p)
    PROVE  DuelInv'
BY SetLosersKeeps DEF LosesByDeath, DuelsOf, InitiatorOf, AcceptorOf

LEMMA DuelsUnchanged == ASSUME DuelInv, UNCHANGED duelVars PROVE DuelInv'
BY DEF DuelInv, duelVars, DuelsTypeOK, DuelsEnd

LEMMA ChallengeKeepsDuels ==
    ASSUME DuelInv, CallsInv, Challenge
    PROVE  DuelInv'
<1>1. signedIn \subseteq Duelists /\ lastDuel \in Nat /\ MaxDuels \in Nat /\ lastDuel <= MaxDuels
    BY FightersAssumption, DuelsAssumption DEF CallsInv, DuelInv, DuelsTypeOK
<1>2. ASSUME NEW p \in signedIn, NEW q \in signedIn, PlayerDuelInitiate(p, q)
      PROVE  DuelInv'
    <2>1. UNCHANGED <<duels, duelTimers>> /\ lastDuel' = lastDuel + 1 /\ lastDuel' \in DuelIds
        BY <1>1, <1>2 DEF PlayerDuelInitiate, DuelIds
    <2>2. /\ DOMAIN votes' = DOMAIN votes \cup {lastDuel + 1}
          /\ \A v \in DOMAIN votes' : votes'[v] \in [initiator : Duelists, acceptor : Duelists, over : BOOLEAN]
        BY <1>1, <1>2 DEF PlayerDuelInitiate, DuelInv, DuelsTypeOK
    <2>. QED
        BY <1>1, <2>1, <2>2 DEF DuelInv, DuelsTypeOK, DuelsEnd, DuelIds
<1>3. ASSUME NEW v \in DOMAIN votes, NEW p \in signedIn, PlayerVoteAnswer(p, v)
      PROVE  DuelInv'
    <2>. DEFINE VoteRows == [initiator : Duelists, acceptor : Duelists, over : BOOLEAN]
    <2>1. votes[v] \in VoteRows
        BY DEF DuelInv, DuelsTypeOK
    <2>2. [votes[v] EXCEPT !.over = TRUE] \in VoteRows
        BY <2>1
    <2>3. votes' = [votes EXCEPT ![v] = [votes[v] EXCEPT !.over = TRUE]] /\ UNCHANGED duelTimers
        BY <1>3 DEF PlayerVoteAnswer
    <2>4. DOMAIN votes' \subseteq DuelIds /\ \A w \in DOMAIN votes' : votes'[w] \in VoteRows
        BY <2>2, <2>3 DEF DuelInv, DuelsTypeOK
    <2>. DEFINE p1 == votes[v].initiator
                p2 == votes[v].acceptor
    <2>5. p1 \in Duelists /\ p2 \in Duelists
        BY <2>1
    <2>6. \/ UNCHANGED <<duels, lastDuel>>
          \/ /\ lastDuel < MaxDuels /\ lastDuel' = lastDuel + 1
             /\ duels' = [d \in DOMAIN duels \cup {lastDuel + 1} |->
                             IF d \in DOMAIN duels THEN duels[d] ELSE Duel(p1, p2)]
        BY <1>3 DEF PlayerVoteAnswer, Initiated
    <2>7. Duel(p1, p2) \in DuelRows /\ Duel(p1, p2).victor = NoVictor
        BY <2>5 DEF Duel, DuelRows
    <2>. HIDE DEF p1, p2
    <2>8. lastDuel' \in 0 .. MaxDuels /\ DOMAIN duels' \subseteq DuelIds
        BY <1>1, <2>6 DEF DuelInv, DuelsTypeOK, DuelIds
    <2>9. \A d \in DOMAIN duels' : \/ d \in DOMAIN duels /\ duels'[d] = duels[d]
                                   \/ duels'[d] = Duel(p1, p2)
        BY <2>6
    <2>10. \A d \in DOMAIN duels' : duels'[d] \in DuelRows
        BY <2>7, <2>9 DEF DuelInv
    <2>11. \A d \in DOMAIN duels' : duels'[d].victor \in Duelists \cup {NoVictor}
        BY <2>10 DEF DuelRows
    <2>12. DuelsEnd'
        BY <2>3, <2>7, <2>9 DEF DuelInv, DuelsEnd
    <2>13. duelTimers' \subseteq DuelIds
        BY <2>3 DEF DuelInv, DuelsTypeOK
    <2>. QED
        BY <2>4, <2>8, <2>10, <2>11, <2>12, <2>13 DEF DuelInv, DuelsTypeOK
<1>4. ASSUME NEW v \in DOMAIN votes, PlayerVoteConclude(v)
      PROVE  DuelInv'
    BY <1>4 DEF PlayerVoteConclude, Without, DuelInv, DuelsTypeOK, DuelsEnd
<1>5. CASE DuelDespawn
    BY <1>5 DEF DuelDespawn, Without, DuelInv, DuelsTypeOK, DuelsEnd
<1>6. CASE DuelAgentTimerLoop({p \in Fighters : ~Ready(p)})
    <2>1. PICK loserOf : /\ SetLosers([d \in {d \in DOMAIN duels : loserOf[d] # NoVictor} |-> loserOf[d]])
                         /\ UNCHANGED <<votes, lastDuel>>
        BY <1>6 DEF DuelAgentTimerLoop
    <2>. QED
        BY <2>1, SetLosersKeeps
<1>. QED
    BY <1>2, <1>3, <1>4, <1>5, <1>6 DEF Challenge

-----------------------------------------------------------------------------
(***************************************************************************)
(* Threat.  A row of an enemy against a player goes only together with the *)
(* row of the player, except in the death of the enemy, whose timer is     *)
(* then running; and whose rows change is scaled anew.                     *)
(***************************************************************************)
SamePeople == DOMAIN health' = DOMAIN health /\ spawned' = spawned /\ despawnTimers \subseteq despawnTimers'

LEMMA SamePresent == SamePeople => Present' = Present /\ Known' = Known
BY DEF SamePeople, Present, Known

LEMMA ScaledFollows ==
    ASSUME ThreatInv, SamePeople, NEW S, Scaled(S, threat'),
           \A e \in Present \ despawnTimers' : e \in S \/ Owned(threat', e) = Owned(threat, e)
    PROVE  DOMAIN scaling' = Present' /\ ScalingFollowsThreat'
<1>1. Present' = Present
    BY SamePresent
<1>2. scaling' = [e \in Present |-> IF e \in S THEN Cardinality(Owned(threat', e)) ELSE scaling[e]]
    BY DEF Scaled
<1>3. \A e \in Present \ despawnTimers' : scaling[e] = Cardinality(Owned(threat, e))
    BY DEF ThreatInv, ScalingFollowsThreat, SamePeople
<1>4. \A e \in Present \ despawnTimers' : scaling'[e] = Cardinality(Owned(threat', e))
    BY <1>2, <1>3
<1>. QED
    BY <1>1, <1>2, <1>4 DEF ScalingFollowsThreat, Owned

\* rows are as they were in what is not about scaling and not about war being mutual
LEMMA RowsKeep ==
    ASSUME ThreatInv, SamePeople, NEW made,
           threat' \subseteq threat \cup made, \A r \in made : Opposed(r),
           \A r \in threat' \ haunted' : r \in threat \ haunted \/ {r[1], r[2]} \subseteq DOMAIN health,
           \A r \in contribution' : r \in contribution \/ (r \in Fighters \X Enemies /\ r[2] \in Present)
    PROVE  /\ \A r \in threat' : Opposed(r)'
           /\ contribution' \subseteq Fighters \X Enemies
           /\ GoneIsForgotten' /\ ContributionHasEnemy'
<1>1. Present' = Present /\ Known' = Known
    BY SamePresent
<1>2. \A r : Opposed(r)' <=> Opposed(r)
    BY <1>1 DEF Opposed
<1>3. GoneIsForgotten'
    BY DEF ThreatInv, GoneIsForgotten, SamePeople
<1>. QED
    BY <1>1, <1>2, <1>3 DEF ThreatInv, ContributionHasEnemy

LEMMA ThreatUnchanged ==
    ASSUME ThreatInv, SamePeople, UNCHANGED <<threat, scaling, contribution, haunted>>
    PROVE  ThreatInv'
<1>1. Present' = Present /\ Known' = Known
    BY SamePresent
<1>. QED
    BY <1>1 DEF ThreatInv, SamePeople, Opposed, HuntedIsInCombat, GoneIsForgotten, ContributionHasEnemy,
                ScalingFollowsThreat, Owned

LEMMA OpposedPair == ASSUME NEW r, Opposed(r) PROVE r = <<r[1], r[2]>>
BY DEF Opposed

LEMMA ClearAllKeeps ==
    ASSUME ThreatInv, SamePeople, NEW x, ClearAll(x)
    PROVE  ThreatInv'
<1>1. /\ threat' = ThreatWithout(x) /\ haunted' = haunted \cap threat'
      /\ Scaled({r[1] : r \in Against(threat, x)} \cup {x}, threat') /\ Reset(x)
    BY DEF ClearAll
<1>2. \A r : r \in threat' <=> r \in threat /\ r[1] # x /\ r[2] # x
    BY <1>1 DEF ThreatWithout, Owned, Against
<1>3. \A e : e \in {r[1] : r \in Against(threat, x)} \cup {x} \/ Owned(threat', e) = Owned(threat, e)
    <2>. SUFFICES ASSUME NEW e, e # x, e \notin {r[1] : r \in Against(threat, x)}
                  PROVE  Owned(threat', e) = Owned(threat, e)
        OBVIOUS
    <2>1. \A r \in threat : r[1] = e => r[2] # x
        BY DEF Against
    <2>. QED
        BY <1>2, <2>1 DEF Owned
<1>4. DOMAIN scaling' = Present' /\ ScalingFollowsThreat'
    BY <1>1, <1>3, ScaledFollows
<1>5. contribution' \subseteq contribution
    BY <1>1 DEF Reset
<1>6. /\ \A r \in threat' : Opposed(r)'
      /\ contribution' \subseteq Fighters \X Enemies
      /\ GoneIsForgotten' /\ ContributionHasEnemy'
    <2>. DEFINE none == {}
    <2>1. threat' \subseteq threat \cup none /\ \A r \in none : Opposed(r)
        BY <1>1, <1>2
    <2>2. \A r \in threat' \ haunted' : r \in threat \ haunted \/ {r[1], r[2]} \subseteq DOMAIN health
        BY <1>1, <1>2
    <2>3. \A r \in contribution' : r \in contribution \/ (r \in Fighters \X Enemies /\ r[2] \in Present)
        BY <1>5
    <2>. HIDE DEF none
    <2>. QED
        BY <2>1, <2>2, <2>3, RowsKeep
<1>7. HuntedIsInCombat'
    <2>1. Present' = Present
        BY SamePresent
    <2>2. ASSUME NEW p \in Fighters, NEW e \in Present' \ despawnTimers', <<e, p>> \in threat'
          PROVE  <<p, e>> \in threat'
        <3>1. <<e, p>> \in threat /\ e # x /\ p # x
            BY <1>2, <2>2
        <3>2. <<p, e>> \in threat
            BY <2>1, <3>1 DEF ThreatInv, HuntedIsInCombat, SamePeople
        <3>. QED
            BY <1>2, <3>1, <3>2
    <2>. QED
        BY <2>2 DEF HuntedIsInCombat
<1>. QED
    BY <1>4, <1>6, <1>7 DEF ThreatInv

LEMMA ClearPairKeeps ==
    ASSUME ThreatInv, SamePeople, NEW e \in Enemies, NEW p \in Fighters, ClearPair(e, p)
    PROVE  ThreatInv'
<1>1. threat' = threat \ {<<e, p>>, <<p, e>>} /\ haunted' = haunted \cap threat' /\ e # p
    BY FightersAssumption DEF ClearPair, BothWays
<1>2. Present' = Present
    BY SamePresent
<1>3. contribution' \subseteq contribution
    BY DEF ClearPair
<1>4. /\ \A r \in threat' : Opposed(r)'
      /\ contribution' \subseteq Fighters \X Enemies
      /\ GoneIsForgotten' /\ ContributionHasEnemy'
    <2>. DEFINE none == {}
    <2>1. threat' \subseteq threat \cup none /\ \A r \in none : Opposed(r)
        BY <1>1
    <2>2. \A r \in threat' \ haunted' : r \in threat \ haunted \/ {r[1], r[2]} \subseteq DOMAIN health
        BY <1>1
    <2>3. \A r \in contribution' : r \in contribution \/ (r \in Fighters \X Enemies /\ r[2] \in Present)
        BY <1>3
    <2>. HIDE DEF none
    <2>. QED
        BY <2>1, <2>2, <2>3, RowsKeep
<1>5. \A f \in Enemies \ {e} : Owned(threat', f) = Owned(threat, f)
    BY <1>1, FightersAssumption DEF Owned
<1>6. DOMAIN scaling' = Present' /\ ScalingFollowsThreat'
    <2>1. CASE <<p, e>> \in threat
        <3>1. Scaled({e}, threat')
            BY <2>1 DEF ClearPair
        <3>. QED
            BY <1>5, <3>1, ScaledFollows DEF Present
    <2>2. CASE <<p, e>> \notin threat
        <3>1. scaling' = scaling
            BY <2>2 DEF ClearPair
        <3>2. ASSUME NEW f \in Present \ despawnTimers'
              PROVE  Owned(threat', f) = Owned(threat, f)
            <4>1. CASE f # e
                BY <1>5, <4>1 DEF Present
            <4>2. CASE f = e
                <5>1. <<e, p>> \notin threat
                    BY <2>2, <4>2 DEF ThreatInv, HuntedIsInCombat, SamePeople
                <5>. QED
                    BY <1>1, <2>2, <5>1
            <4>. QED
                BY <4>1, <4>2
        <3>3. \A f \in Present \ despawnTimers' : scaling[f] = Cardinality(Owned(threat, f))
            BY DEF ThreatInv, ScalingFollowsThreat, SamePeople
        <3>4. \A f \in Present \ despawnTimers' : scaling'[f] = Cardinality(Owned(threat', f))
            BY <3>1, <3>2, <3>3
        <3>. QED
            BY <1>2, <3>1, <3>4 DEF ThreatInv, ScalingFollowsThreat, Owned
    <2>. QED
        BY <2>1, <2>2
<1>7. HuntedIsInCombat'
    BY <1>1, <1>2 DEF ThreatInv, HuntedIsInCombat, SamePeople
<1>. QED
    BY <1>4, <1>6, <1>7 DEF ThreatInv

Mutual(rows) == \A p \in Fighters, e \in Enemies : <<e, p>> \in rows => <<p, e>> \in rows

ContributionMayGrow ==
    \A r \in contribution' : r \in contribution \/ (r \in Fighters \X Enemies /\ r[2] \in Present)

LEMMA RowsAdded ==
    ASSUME ThreatInv, SamePeople, ContributionMayGrow,
           NEW rows, \A r \in rows : Opposed(r), Mutual(rows),
           NEW left \in SUBSET threat, threat' = left \cup rows,
           NEW S, Scaled(S, threat'), \A r \in rows \ left : r[1] \in S,
           \A e \in Present \ despawnTimers' : e \in S \/ Owned(left, e) = Owned(threat, e),
           \A p \in Fighters, e \in Present \ despawnTimers' : <<e, p>> \in left => <<p, e>> \in left,
           haunted' = (haunted \cap left) \cup {r \in rows \ left : ~({r[1], r[2]} \subseteq DOMAIN health)}
    PROVE  ThreatInv'
<1>1. /\ \A r \in threat' : Opposed(r)'
      /\ contribution' \subseteq Fighters \X Enemies
      /\ GoneIsForgotten' /\ ContributionHasEnemy'
    <2>1. threat' \subseteq threat \cup rows
        OBVIOUS
    <2>2. \A r \in threat' \ haunted' : r \in threat \ haunted \/ {r[1], r[2]} \subseteq DOMAIN health
        OBVIOUS
    <2>. QED
        BY <2>1, <2>2, RowsKeep DEF ContributionMayGrow
<1>2. \A e \in Present \ despawnTimers' : e \in S \/ Owned(threat', e) = Owned(threat, e)
    <2>. SUFFICES ASSUME NEW e \in Present \ despawnTimers', e \notin S
                  PROVE  Owned(threat', e) = Owned(threat, e)
        OBVIOUS
    <2>1. Owned(left, e) = Owned(threat, e) /\ \A r \in rows : r[1] = e => r \in left
        OBVIOUS
    <2>2. Owned(threat', e) = Owned(left, e)
        BY <2>1 DEF Owned
    <2>. QED
        BY <2>1, <2>2
<1>3. DOMAIN scaling' = Present' /\ ScalingFollowsThreat'
    BY <1>2, ScaledFollows
<1>4. HuntedIsInCombat'
    <2>1. Present' = Present
        BY SamePresent
    <2>. SUFFICES ASSUME NEW p \in Fighters, NEW e \in Present \ despawnTimers', <<e, p>> \in threat'
                  PROVE  <<p, e>> \in threat'
        BY <2>1 DEF HuntedIsInCombat
    <2>. QED
        BY DEF Mutual, Present
<1>. QED
    BY <1>1, <1>3, <1>4 DEF ThreatInv

LEMMA AddThreatKeeps ==
    ASSUME ThreatInv, SamePeople, NEW rows, \A r \in rows : Opposed(r), Mutual(rows),
           AddThreat(rows), UNCHANGED contribution
    PROVE  ThreatInv'
<1>. DEFINE S == {r[1] : r \in rows \ threat}
<1>1. /\ threat' = threat \cup rows /\ Scaled(S, threat')
      /\ haunted' = haunted \cup {r \in rows \ threat : ~({r[1], r[2]} \subseteq DOMAIN health)}
    BY DEF AddThreat
<1>2. \A r \in rows \ threat : r[1] \in S
    OBVIOUS
<1>. HIDE DEF S
<1>3. \A p \in Fighters, e \in Present \ despawnTimers' : <<e, p>> \in threat => <<p, e>> \in threat
    BY DEF ThreatInv, HuntedIsInCombat, SamePeople
<1>4. /\ \A r \in threat' : Opposed(r)'
      /\ contribution' \subseteq Fighters \X Enemies
      /\ GoneIsForgotten' /\ ContributionHasEnemy'
    <2>1. threat' \subseteq threat \cup rows
        BY <1>1
    <2>2. \A r \in threat' \ haunted' : r \in threat \ haunted \/ {r[1], r[2]} \subseteq DOMAIN health
        BY <1>1
    <2>3. \A r \in contribution' : r \in contribution \/ (r \in Fighters \X Enemies /\ r[2] \in Present)
        OBVIOUS
    <2>. QED
        BY <2>1, <2>2, <2>3, RowsKeep
<1>5. \A e \in Present \ despawnTimers' : e \in S \/ Owned(threat', e) = Owned(threat, e)
    BY <1>1, <1>2 DEF Owned
<1>6. DOMAIN scaling' = Present' /\ ScalingFollowsThreat'
    BY <1>1, <1>5, ScaledFollows
<1>7. HuntedIsInCombat'
    <2>1. Present' = Present
        BY SamePresent
    <2>. SUFFICES ASSUME NEW p \in Fighters, NEW e \in Present \ despawnTimers', <<e, p>> \in threat'
                  PROVE  <<p, e>> \in threat'
        BY <2>1 DEF HuntedIsInCombat
    <2>. QED
        BY <1>1, <1>3 DEF Mutual, Present
<1>. QED
    BY <1>4, <1>6, <1>7 DEF ThreatInv

LEMMA ThreatThenKeeps ==
    ASSUME ThreatInv, SamePeople, ContributionMayGrow, NEW x \in Fighting, NEW h,
           NEW rows, \A r \in rows : Opposed(r), Mutual(rows), ThreatThen(x, h, rows),
           Dies(x, h) /\ x \in Enemies => x \in despawnTimers'
    PROVE  ThreatInv'
<1>. DEFINE left == ThreatAfter(x, h)
            slayers == IF Dies(x, h) /\ x \in Fighters THEN {r[1] : r \in Against(threat, x)} ELSE {}
            S == {r[1] : r \in rows \ left} \cup slayers
<1>1. /\ threat' = left \cup rows /\ Scaled(S, threat')
      /\ haunted' = (haunted \cap left) \cup {r \in rows \ left : ~({r[1], r[2]} \subseteq DOMAIN health)}
    BY DEF ThreatThen
<1>2. \A r \in rows \ left : r[1] \in S
    OBVIOUS
<1>3. left \in SUBSET threat
    BY DEF ThreatAfter, ThreatWithout
<1>4. \A e \in Present \ despawnTimers' : e \in S \/ Owned(left, e) = Owned(threat, e)
    <2>. SUFFICES ASSUME NEW e \in Present \ despawnTimers', e \notin S
                  PROVE  Owned(left, e) = Owned(threat, e)
        OBVIOUS
    <2>1. CASE ~Dies(x, h)
        BY <2>1 DEF ThreatAfter
    <2>2. CASE Dies(x, h) /\ x \in Fighters
        <3>1. left = ThreatWithout(x) /\ e \notin {r[1] : r \in Against(threat, x)} /\ e # x
            BY <2>2, FightersAssumption DEF ThreatAfter, Present
        <3>2. \A r \in threat : r[1] = e => r[2] # x
            BY <3>1 DEF Against
        <3>. HIDE DEF left
        <3>. QED
            BY <3>1, <3>2 DEF Owned, ThreatWithout, Against
    <2>3. CASE Dies(x, h) /\ x \notin Fighters
        <3>1. left = threat \ Against(threat, x) /\ x \in Enemies /\ e # x /\ e \in Enemies
            BY <2>3 DEF ThreatAfter, Fighting, Present
        <3>2. \A r \in threat : r[1] = e => r[2] # x
            BY <3>1 DEF ThreatInv, Opposed
        <3>. HIDE DEF left
        <3>. QED
            BY <3>1, <3>2 DEF Owned, Against
    <2>. QED
        BY <2>1, <2>2, <2>3
<1>5. \A p \in Fighters, e \in Present \ despawnTimers' : <<e, p>> \in left => <<p, e>> \in left
    <2>. SUFFICES ASSUME NEW p \in Fighters, NEW e \in Present \ despawnTimers', <<e, p>> \in left
                  PROVE  <<p, e>> \in left
        OBVIOUS
    <2>1. <<e, p>> \in threat /\ <<p, e>> \in threat
        BY <1>3 DEF ThreatInv, HuntedIsInCombat, SamePeople
    <2>2. e # x \/ ~Dies(x, h)
        BY DEF Present
    <2>. QED
        BY <2>1, <2>2, FightersAssumption DEF ThreatAfter, ThreatWithout, Owned, Against
<1>. HIDE DEF left, S
<1>. QED
    BY <1>1, <1>2, <1>3, <1>4, <1>5, RowsAdded

LEMMA SpawnKeepsThreat ==
    ASSUME ThreatInv, HerdInv, NEW e \in Enemies, EnemySpawn(e)
    PROVE  ThreatInv'
<1>1. /\ e \notin spawned /\ spawned' = spawned \cup {e}
      /\ UNCHANGED <<threat, contribution, despawnTimers, haunted>>
      /\ DOMAIN health' = DOMAIN health \cup {e}
      /\ scaling' = [x \in Present \cup {e} |-> IF x = e THEN 0 ELSE scaling[x]]
    BY DEF EnemySpawn
<1>2. e \notin Known /\ Present' = Present \cup {e} /\ Known \subseteq Known' /\ e \notin Present
    BY <1>1, FightersAssumption DEF HerdInv, Known, Present
<1>3. \A r \in threat : Opposed(r)'
    BY <1>2 DEF ThreatInv, Opposed
<1>4. \A r \in threat : r[1] # e /\ r[2] # e
    BY <1>2 DEF ThreatInv, Opposed
<1>5. HuntedIsInCombat'
    <2>1. \A p : <<e, p>> \notin threat
        BY <1>4
    <2>. QED
        BY <1>1, <1>2, <2>1 DEF ThreatInv, HuntedIsInCombat
<1>6. GoneIsForgotten' /\ ContributionHasEnemy'
    BY <1>1, <1>2 DEF ThreatInv, GoneIsForgotten, ContributionHasEnemy
<1>7. ScalingFollowsThreat'
    <2>1. Owned(threat', e) = {}
        BY <1>1, <1>4 DEF Owned
    <2>2. Cardinality(Owned(threat', e)) = 0
        BY <2>1, FS_EmptySet
    <2>. QED
        BY <1>1, <1>2, <2>2 DEF ThreatInv, ScalingFollowsThreat, Owned
<1>. QED
    BY <1>1, <1>2, <1>3, <1>5, <1>6, <1>7 DEF ThreatInv

\* the rows of an enemy go with it, so that its timer may be gone as well
LEMMA DespawnKeepsThreat ==
    ASSUME ThreatInv, NEW e \in Enemies, Despawned(e), spawned' = spawned,
           despawnTimers \ {e} \subseteq despawnTimers'
    PROVE  ThreatInv'
<1>0. Known' = Known
    BY DEF Known
<1>1. CASE e \notin Present
    <2>1. UNCHANGED <<threat, scaling, contribution, haunted, health>>
        BY <1>1 DEF Despawned
    <2>2. Present' = Present /\ Present' \ despawnTimers' \subseteq Present \ despawnTimers
        BY <1>1, <2>1 DEF Present
    <2>. QED
        BY <1>0, <2>1, <2>2 DEF ThreatInv, Opposed, HuntedIsInCombat, GoneIsForgotten, ContributionHasEnemy,
                                ScalingFollowsThreat, Owned
<1>2. CASE e \in Present
    <2>1. /\ threat' = ThreatWithout(e) /\ scaling' = Without(scaling, e)
          /\ contribution' = contribution \ Against(contribution, e)
          /\ haunted' = haunted \cap threat' /\ health' = Without(health, e)
        BY <1>2 DEF Despawned
    <2>2. DOMAIN health' = DOMAIN health \ {e} /\ Present' = Present \ {e}
        BY <2>1 DEF Without, Present
    <2>3. \A r : r \in threat' <=> r \in threat /\ r[1] # e /\ r[2] # e
        BY <2>1 DEF ThreatWithout, Owned, Against
    <2>4. \A r \in threat' : Opposed(r)'
        BY <1>0, <2>3 DEF ThreatInv, Opposed
    <2>5. HuntedIsInCombat'
        <3>. SUFFICES ASSUME NEW p \in Fighters, NEW f \in Present' \ despawnTimers', <<f, p>> \in threat'
                      PROVE  <<p, f>> \in threat'
            BY DEF HuntedIsInCombat
        <3>1. f \in Present \ despawnTimers /\ <<f, p>> \in threat /\ f # e /\ p # e
            BY <2>2, <2>3, FightersAssumption
        <3>2. <<p, f>> \in threat
            BY <3>1 DEF ThreatInv, HuntedIsInCombat
        <3>. QED
            BY <2>3, <3>1, <3>2
    <2>6. GoneIsForgotten' /\ ContributionHasEnemy' /\ contribution' \subseteq Fighters \X Enemies
        <3>1. GoneIsForgotten'
            BY <2>1, <2>2, <2>3 DEF ThreatInv, GoneIsForgotten
        <3>. QED
            BY <2>1, <2>2, <3>1 DEF ThreatInv, ContributionHasEnemy, Against
    <2>7. DOMAIN scaling' = Present'
        BY <2>1, <2>2 DEF Without, ThreatInv
    <2>8. ScalingFollowsThreat'
        <3>. SUFFICES ASSUME NEW f \in Present' \ despawnTimers'
                      PROVE  scaling'[f] = Cardinality(Owned(threat', f))
            BY DEF ScalingFollowsThreat, Owned
        <3>1. f \in Present \ despawnTimers /\ f # e /\ f \in Enemies
            BY <2>2 DEF Present
        <3>2. scaling'[f] = Cardinality(Owned(threat, f))
            BY <2>1, <3>1 DEF ThreatInv, ScalingFollowsThreat, Without
        <3>3. \A r \in threat : r[1] = f => r[2] # e
            BY <3>1 DEF ThreatInv, Opposed
        <3>4. Owned(threat', f) = Owned(threat, f)
            BY <2>3, <3>1, <3>3 DEF Owned
        <3>. QED
            BY <3>2, <3>4
    <2>. QED
        BY <2>4, <2>5, <2>6, <2>7, <2>8 DEF ThreatInv
<1>. QED
    BY <1>1, <1>2

-----------------------------------------------------------------------------
(***************************************************************************)
(* The herd, everybody's health, and targets.                              *)
(***************************************************************************)
LEMMA MaxHealthType == \A x \in Fighting : MaxHealth[x] \in Nat /\ MaxHealth[x] > 0
BY HealthAssumption DEF Fighting

\* everybody's health is in its range, and the same people are there
LEMMA HealthKeeps ==
    ASSUME HerdInv, SamePeople, UNCHANGED population,
           \A x \in DOMAIN health : health'[x] \in 0 .. MaxHealth[x],
           justDied' \subseteq Known,
           \A x \in justDied' \cap DOMAIN health : ~Alive(x)' \/ x \in withered',
           \A e \in Present \ withered' : health'[e] = 0 => e \in despawnTimers'
    PROVE  HerdInv'
<1>1. Present' = Present /\ Known' = Known
    BY SamePresent
<1>2. SlainDespawn' /\ HerdIsCounted'
    BY <1>1 DEF HerdInv, SlainDespawn, HerdIsCounted
<1>. QED
    BY <1>1, <1>2 DEF HerdInv, SamePeople

LEMMA HerdUnchanged ==
    ASSUME HerdInv, SamePeople, UNCHANGED <<health, population, justDied, withered>>
    PROVE  HerdInv'
<1>1. \A x : Alive(x)' <=> Alive(x)
    BY DEF Alive
<1>. QED
    BY <1>1, HealthKeeps DEF HerdInv, SlainDespawn, SamePeople

LEMMA SlainKeepsHerd ==
    ASSUME HerdInv, NEW x, Alive(x), NEW h \in 0 .. MaxHealth[x], NEW byAttack \in BOOLEAN,
           byAttack \/ x \in Fighters, Slain(x, h, byAttack), UNCHANGED <<spawned, population, withered>>
    PROVE  HerdInv' /\ SamePeople /\ (Dies(x, h) /\ x \in Enemies => x \in despawnTimers')
<1>1. x \in DOMAIN health /\ x \in Known /\ x \in Fighting /\ health[x] > 0
    BY DEF Alive, HerdInv, Known, Fighting
<1>2. health' \in {health, [health EXCEPT ![x] = h]} /\ DOMAIN health' = DOMAIN health
    BY DEF Slain, Hurt
<1>3. justDied' = IF Dies(x, h) THEN justDied \cup {x} ELSE justDied
    BY DEF Slain
<1>4. despawnTimers' = IF Dies(x, h) /\ byAttack THEN despawnTimers \cup ({x} \cap Enemies)
                       ELSE despawnTimers
    BY DEF Slain
<1>5. SamePeople
    BY <1>2, <1>4 DEF SamePeople
<1>6. Dies(x, h) /\ x \in Enemies => x \in despawnTimers'
    BY <1>4, FightersAssumption
<1>7. \A y \in DOMAIN health \ {x} : health'[y] = health[y]
    BY <1>2
<1>8. Dies(x, h) => health'[x] = 0
    BY <1>1 DEF Slain, Hurt, Dies
<1>9. \A y \in DOMAIN health : health'[y] \in 0 .. MaxHealth[y]
    BY <1>1, <1>2 DEF HerdInv
<1>10. justDied' \subseteq Known
    BY <1>1, <1>3 DEF HerdInv
<1>11. ASSUME NEW y \in justDied' \cap DOMAIN health
       PROVE  ~Alive(y)' \/ y \in withered'
    <2>1. CASE y # x
        BY <1>3, <1>7, <1>11, <2>1 DEF HerdInv, Alive
    <2>2. CASE y = x /\ x \in justDied
        BY <1>1, <2>2 DEF HerdInv
    <2>3. CASE y = x /\ x \notin justDied
        BY <1>3, <1>8, <1>11, <2>3 DEF Alive
    <2>. QED
        BY <2>1, <2>2, <2>3
<1>12. ASSUME NEW e \in Present \ withered', health'[e] = 0
       PROVE  e \in despawnTimers'
    <2>1. CASE e # x
        BY <1>5, <1>7, <1>12, <2>1 DEF HerdInv, SlainDespawn, Present, SamePeople
    <2>2. CASE e = x
        <3>1. x \in Enemies /\ x \notin withered /\ ~CannotDie(x)
            BY <2>2, FightersAssumption DEF Present, CannotDie
        <3>2. x \notin justDied
            BY <1>1, <3>1 DEF HerdInv
        <3>3. health' = [health EXCEPT ![x] = h]
            BY <3>1 DEF Slain, Hurt
        <3>4. h = 0
            BY <1>1, <1>12, <2>2, <3>3
        <3>. QED
            BY <1>6, <2>2, <3>1, <3>2, <3>4 DEF Dies
    <2>. QED
        BY <2>1, <2>2
<1>13. HerdInv'
    BY <1>5, <1>9, <1>10, <1>11, <1>12, HealthKeeps
<1>. QED
    BY <1>5, <1>6, <1>13

LEMMA SlainKeepsTargets ==
    ASSUME HerdInv, TargetsInv, NEW x, Alive(x), NEW h \in 0 .. MaxHealth[x], NEW byAttack,
           Slain(x, h, byAttack), UNCHANGED <<spawned, withered>>
    PROVE  TargetsInv'
<1>1. x \in DOMAIN health
    BY DEF Alive
<1>2. health' \in {health, [health EXCEPT ![x] = h]} /\ DOMAIN health' = DOMAIN health
    BY DEF Slain, Hurt
<1>3. targets' = IF Dies(x, h) THEN Untargeted(x) ELSE targets
    BY DEF Slain
<1>4. /\ DOMAIN targets' \subseteq DOMAIN targets
      /\ \A p \in DOMAIN targets' : targets'[p] = targets[p] /\ (Dies(x, h) => targets'[p] # x)
    BY <1>3 DEF Untargeted
<1>5. Alive(x)' \/ x \in withered \/ Dies(x, h)
    <2>1. CASE h # 0
        <3>1. h \in Nat \/ h \in Int
            OBVIOUS
        <3>. QED
            BY <1>1, <2>1, <3>1 DEF Slain, Hurt, Alive
    <2>2. CASE h = 0 /\ x \in justDied
        BY <1>1, <2>2 DEF HerdInv
    <2>3. CASE h = 0 /\ x \notin justDied /\ CannotDie(x)
        BY <1>1, <2>3 DEF Slain, Hurt, Alive
    <2>. QED
        BY <2>1, <2>2, <2>3 DEF Dies
<1>6. ASSUME NEW p \in DOMAIN targets', NEW y \in DOMAIN health', targets'[p] = y
      PROVE  Alive(y)' \/ y \in withered'
    <2>1. CASE y = x
        BY <1>4, <1>5, <1>6, <2>1
    <2>2. CASE y # x
        <3>1. Alive(y) \/ y \in withered
            BY <1>2, <1>4, <1>6 DEF TargetsInv, TargetsLive
        <3>2. Alive(y) => Alive(y)'
            BY <1>2, <1>4, <2>2 DEF Alive
        <3>. QED
            BY <1>4, <3>1, <3>2
    <2>. QED
        BY <2>1, <2>2
<1>7. DOMAIN targets' \subseteq Known'
    BY <1>4 DEF TargetsInv, Known
<1>. QED
    BY <1>6, <1>7 DEF TargetsInv, TargetsLive, Alive

\* nobody who was alive is dead now, and fewer aim
LEMMA TargetsKeep ==
    ASSUME TargetsInv, Known \subseteq Known', DOMAIN targets' \subseteq DOMAIN targets,
           \A p \in DOMAIN targets' : targets'[p] = targets[p],
           \A x \in DOMAIN health' : \/ x \in DOMAIN health /\ (Alive(x) => Alive(x)' \/ x \in withered')
                                     \/ Alive(x)' \/ x \in withered',
           \A x \in withered : x \in withered' \/ x \notin DOMAIN health'
    PROVE  TargetsInv'
<1>1. DOMAIN targets' \subseteq Known'
    BY DEF TargetsInv
<1>2. ASSUME NEW p \in DOMAIN targets', NEW y \in DOMAIN health', targets'[p] = y
      PROVE  Alive(y)' \/ y \in withered'
    <2>1. y \in DOMAIN health => Alive(y) \/ y \in withered
        BY <1>2 DEF TargetsInv, TargetsLive
    <2>. QED
        BY <1>2, <2>1
<1>. QED
    BY <1>1, <1>2 DEF TargetsInv, TargetsLive, Alive

LEMMA TargetsUnchanged ==
    ASSUME TargetsInv, Known \subseteq Known', DOMAIN targets' \subseteq DOMAIN targets,
           \A p \in DOMAIN targets' : targets'[p] = targets[p], UNCHANGED <<health, withered>>
    PROVE  TargetsInv'
BY TargetsKeep DEF Alive

LEMMA UntargetedIsLess ==
    ASSUME NEW x
    PROVE  DOMAIN Untargeted(x) \subseteq DOMAIN targets
           /\ \A p \in DOMAIN Untargeted(x) : Untargeted(x)[p] = targets[p]
BY DEF Untargeted

-----------------------------------------------------------------------------
(***************************************************************************)
(* Every action.                                                           *)
(***************************************************************************)
LEMMA BothWaysOpposed ==
    ASSUME NEW r, Opposed(r)
    PROVE  (\A s \in BothWays(r[1], r[2]) : Opposed(s)) /\ Mutual(BothWays(r[1], r[2]))
BY DEF Opposed, BothWays, Mutual

LEMMA CallsKeep ==
    ASSUME CallsInv, spawned \subseteq spawned', \A r \in impacts' \ impacts : Opposed(r),
           windups' \subseteq windups \cup (spawned \X Fighters),
           deathTimers' \subseteq deathTimers \cup Fighters, signedIn' \subseteq signedIn \cup Fighters,
           cargo' \subseteq cargo
    PROVE  CallsInv'
<1>1. \A r \in impacts' : Opposed(r)'
    BY DEF CallsInv, Opposed, Known
<1>. QED
    BY <1>1 DEF CallsInv

LEMMA SlainStep ==
    ASSUME FightInv, NEW x, Alive(x), NEW h \in 0 .. MaxHealth[x], NEW byAttack \in BOOLEAN,
           byAttack \/ x \in Fighters, Slain(x, h, byAttack), UNCHANGED <<spawned, population, withered>>,
           NEW rows, \A r \in rows : Opposed(r), Mutual(rows), ThreatThen(x, h, rows),
           ContributionMayGrow
    PROVE  DuelInv' /\ HerdInv' /\ ThreatInv' /\ TargetsInv'
           /\ deathTimers' \subseteq deathTimers \cup Fighters
<1>1. x \in Fighting
    BY DEF Alive, FightInv, HerdInv, Known, Fighting
<1>2. DuelInv'
    BY DeathLosesDuels, DuelsUnchanged DEF Slain, FightInv
<1>3. HerdInv' /\ SamePeople /\ (Dies(x, h) /\ x \in Enemies => x \in despawnTimers')
    BY SlainKeepsHerd DEF FightInv
<1>4. TargetsInv'
    BY SlainKeepsTargets DEF FightInv
<1>5. ThreatInv'
    BY <1>1, <1>3, ThreatThenKeeps DEF FightInv
<1>6. deathTimers' \subseteq deathTimers \cup Fighters
    BY DEF Slain
<1>. QED
    BY <1>2, <1>3, <1>4, <1>5, <1>6

LEMMA ImpactKeeps == ASSUME FightInv, AttackImpact PROVE FightInv'
<1>1. PICK i \in impacts :
        /\ impacts' = impacts \ {i}
        /\ \/ Alive(i[2]) /\ Landed(i[1], i[2])
           \/ (i[1] \in Fighters \/ ~Alive(i[2])) /\ NotLanded
        /\ UNCHANGED <<actionVars, spawned, population, windups, signedIn, cargo, rider, withered>>
    BY DEF AttackImpact
<1>. DEFINE a == i[1]
            d == i[2]
<1>2. Opposed(i)
    BY DEF FightInv, CallsInv
<1>3. CASE NotLanded
    <2>1. SamePeople /\ UNCHANGED duelVars
        BY <1>1, <1>3 DEF NotLanded, SamePeople
    <2>2. HerdInv' /\ ThreatInv'
        BY <1>1, <1>3, <2>1, HerdUnchanged, ThreatUnchanged DEF NotLanded, FightInv
    <2>3. TargetsInv'
        BY <1>1, <1>3, TargetsUnchanged DEF NotLanded, FightInv, Known
    <2>4. CallsInv'
        BY <1>1, <1>3, CallsKeep DEF NotLanded, FightInv
    <2>. QED
        BY <2>1, <2>2, <2>3, <2>4, DuelsUnchanged DEF FightInv
<1>4. CASE Alive(d) /\ Landed(a, d)
    <2>1. PICK damage \in Outcome(a) :
              /\ Slain(d, Remaining(d, damage), TRUE)
              /\ Contributed(a, d, damage)
              /\ ThreatThen(d, Remaining(d, damage), BothWays(a, d))
        BY <1>4 DEF Landed
    <2>. DEFINE h == Remaining(d, damage)
    <2>2. damage \in Nat
        BY HealthAssumption DEF Outcome
    <2>3. d \in DOMAIN health /\ health[d] \in 0 .. MaxHealth[d] /\ d \in Fighting
        BY <1>4 DEF Alive, FightInv, HerdInv, Known, Fighting
    <2>4. h \in 0 .. MaxHealth[d]
        <3>1. MaxHealth[d] \in Nat
            BY <2>3, MaxHealthType
        <3>. QED
            BY <2>2, <2>3, <3>1 DEF Remaining
    <2>5. ContributionMayGrow
        BY <2>1, <2>3, PrizedAssumption DEF Contributed, ContributionMayGrow, Present
    <2>6. (\A r \in BothWays(a, d) : Opposed(r)) /\ Mutual(BothWays(a, d))
        BY <1>2, BothWaysOpposed
    <2>. DEFINE rows == BothWays(a, d)
    <2>7. Slain(d, h, TRUE) /\ ThreatThen(d, h, rows)
        BY <2>1
    <2>. HIDE DEF h, rows
    <2>8. /\ DuelInv' /\ HerdInv' /\ ThreatInv' /\ TargetsInv'
          /\ deathTimers' \subseteq deathTimers \cup Fighters
        BY <1>1, <1>4, <2>4, <2>5, <2>6, <2>7, SlainStep DEF rows
    <2>9. CallsInv'
        BY <1>1, <2>8, CallsKeep DEF FightInv
    <2>. QED
        BY <2>8, <2>9 DEF FightInv
<1>. QED
    BY <1>1, <1>3, <1>4

LEMMA RecoverKeeps == ASSUME FightInv, Recover(Fighters) PROVE FightInv'
<1>1. ASSUME NEW p \in Fighters, NEW h \in 0 .. MaxHealth[p], Ready(p), Slain(p, h, FALSE),
             ThreatThen(p, h, {}), UNCHANGED healthUnchanged
      PROVE  FightInv'
    <2>. DEFINE none == {}
    <2>1. Alive(p) /\ UNCHANGED <<spawned, population, withered, contribution>>
          /\ UNCHANGED <<windups, impacts, signedIn, cargo>>
        BY <1>1 DEF Ready, healthUnchanged
    <2>2. (\A r \in none : Opposed(r)) /\ Mutual(none) /\ ContributionMayGrow
        BY <2>1 DEF Mutual, ContributionMayGrow
    <2>3. ThreatThen(p, h, none)
        BY <1>1
    <2>. HIDE DEF none
    <2>4. /\ DuelInv' /\ HerdInv' /\ ThreatInv' /\ TargetsInv'
          /\ deathTimers' \subseteq deathTimers \cup Fighters
        BY <1>1, <2>1, <2>2, <2>3, SlainStep
    <2>5. CallsInv'
        BY <2>1, <2>4, CallsKeep DEF FightInv
    <2>. QED
        BY <2>4, <2>5 DEF FightInv
<1>2. ASSUME NEW p \in Fighters, PlayerRegen(p)
      PROVE  FightInv'
    BY <1>1, <1>2 DEF PlayerRegen
<1>3. ASSUME NEW p \in Fighters, Starve(p)
      PROVE  FightInv'
    <2>1. health[p] \in 0 .. MaxHealth[p] /\ health[p] > 0 /\ MaxHealth[p] \in Nat
        BY <1>3, MaxHealthType DEF Starve, Ready, Alive, FightInv, HerdInv, Fighting
    <2>2. health[p] - 1 \in 0 .. MaxHealth[p]
        BY <2>1
    <2>. QED
        BY <1>1, <1>3, <2>2 DEF Starve
<1>4. ASSUME NEW e \in Enemies, EnemyRegen(e)
      PROVE  FightInv'
    <2>1. PICK h \in 0 .. MaxHealth[e] :
              /\ health' = [health EXCEPT ![e] = h]
              /\ withered' = IF h = 0 \/ ~Alive(e) THEN withered \cup {e} ELSE withered
        BY <1>4 DEF EnemyRegen
    <2>2. /\ e \in Present
          /\ UNCHANGED <<duelVars, spawned, population, threat, contribution, scaling, targets, windups,
                         impacts, despawnTimers, deathTimers, justDied, signedIn, cargo, haunted>>
        BY <1>4 DEF EnemyRegen
    <2>3. SamePeople
        BY <2>1, <2>2 DEF SamePeople
    <2>4. e \in DOMAIN health /\ \A x \in DOMAIN health \ {e} : health'[x] = health[x]
        BY <2>1, <2>2 DEF Present
    <2>5. health'[e] = h /\ withered \subseteq withered'
        BY <2>1, <2>4
    <2>6. HerdInv'
        <3>1. \A x \in DOMAIN health : health'[x] \in 0 .. MaxHealth[x]
            BY <2>4, <2>5 DEF FightInv, HerdInv
        <3>2. justDied' \subseteq Known
            BY <2>2 DEF FightInv, HerdInv
        <3>3. \A x \in justDied' \cap DOMAIN health : ~Alive(x)' \/ x \in withered'
            <4>. SUFFICES ASSUME NEW x \in justDied \cap DOMAIN health
                          PROVE  ~Alive(x)' \/ x \in withered'
                BY <2>2
            <4>1. ~Alive(x) \/ x \in withered
                BY DEF FightInv, HerdInv
            <4>. QED
                BY <2>1, <2>4, <2>5, <4>1 DEF Alive
        <3>4. \A x \in Present \ withered' : health'[x] = 0 => x \in despawnTimers'
            <4>. SUFFICES ASSUME NEW x \in Present \ withered', health'[x] = 0
                          PROVE  x \in despawnTimers'
                OBVIOUS
            <4>1. x # e
                BY <2>1, <2>5
            <4>. QED
                BY <2>2, <2>4, <2>5, <4>1 DEF FightInv, HerdInv, SlainDespawn, Present
        <3>. QED
            BY <2>2, <2>3, <3>1, <3>2, <3>3, <3>4, HealthKeeps DEF FightInv
    <2>7. ThreatInv'
        BY <2>2, <2>3, ThreatUnchanged DEF FightInv
    <2>8. TargetsInv'
        <3>1. \A x \in DOMAIN health' : x \in DOMAIN health /\ (Alive(x) => Alive(x)' \/ x \in withered')
            BY <2>1, <2>4, <2>5 DEF Alive, FightInv, HerdInv
        <3>2. Known \subseteq Known' /\ \A x \in withered : x \in withered'
            BY <2>2, <2>5 DEF Known
        <3>. QED
            BY <2>2, <3>1, <3>2, TargetsKeep DEF FightInv
    <2>9. CallsInv' /\ DuelInv'
        BY <2>2, CallsKeep, DuelsUnchanged DEF FightInv
    <2>. QED
        BY <2>6, <2>7, <2>8, <2>9 DEF FightInv
<1>. QED
    BY <1>2, <1>3, <1>4 DEF Recover

LEMMA SpawnKeeps == ASSUME FightInv, NEW e \in Enemies, EnemySpawn(e) PROVE FightInv'
<1>1. /\ e \notin spawned /\ spawned' = spawned \cup {e} /\ population' = population + 1
      /\ health' = [x \in DOMAIN health \cup {e} |-> IF x = e THEN MaxHealth[e] ELSE health[x]]
      /\ UNCHANGED <<duelVars, targets, windups, impacts, despawnTimers, deathTimers, justDied,
                     signedIn, cargo, withered>>
    BY DEF EnemySpawn
<1>2. e \notin Known /\ Known' = Known \cup {e}
    BY <1>1, FightersAssumption DEF Known, FightInv, HerdInv
<1>3. DOMAIN health' = DOMAIN health \cup {e} /\ e \notin DOMAIN health /\ health'[e] = MaxHealth[e]
      /\ \A x \in DOMAIN health : health'[x] = health[x]
    BY <1>1, <1>2 DEF FightInv, HerdInv
<1>4. Present' = Present \cup {e} /\ e \notin Present
    BY <1>3 DEF Present
<1>5. MaxHealth[e] \in Nat /\ MaxHealth[e] > 0
    BY MaxHealthType DEF Fighting
<1>6. \A x \in DOMAIN health : Alive(x)' <=> Alive(x)
    BY <1>3 DEF Alive
<1>7. HerdInv'
    <2>1. IsFiniteSet(Present') /\ Cardinality(Present') = Cardinality(Present) + 1
        BY <1>4, FS_AddElement DEF FightInv, HerdInv
    <2>2. HerdIsCounted'
        BY <1>1, <2>1 DEF FightInv, HerdInv, HerdIsCounted
    <2>3. \A x \in DOMAIN health' : health'[x] \in 0 .. MaxHealth[x]
        BY <1>3, <1>5 DEF FightInv, HerdInv
    <2>4. \A x \in justDied' \cap DOMAIN health' : ~Alive(x)' \/ x \in withered'
        BY <1>1, <1>2, <1>3, <1>6 DEF FightInv, HerdInv
    <2>5. SlainDespawn'
        BY <1>1, <1>3, <1>4, <1>5 DEF FightInv, HerdInv, SlainDespawn, Present
    <2>. QED
        BY <1>1, <1>2, <1>3, <2>1, <2>2, <2>3, <2>4, <2>5 DEF FightInv, HerdInv
<1>8. ThreatInv'
    BY SpawnKeepsThreat DEF FightInv
<1>9. TargetsInv'
    <2>1. Alive(e)'
        BY <1>3, <1>5 DEF Alive
    <2>2. \A x \in DOMAIN health' : \/ x \in DOMAIN health /\ (Alive(x) => Alive(x)' \/ x \in withered')
                                    \/ Alive(x)' \/ x \in withered'
        BY <1>3, <1>6, <2>1
    <2>. QED
        BY <1>1, <1>2, <2>2, TargetsKeep DEF FightInv
<1>10. CallsInv' /\ DuelInv'
    BY <1>1, CallsKeep, DuelsUnchanged DEF FightInv
<1>. QED
    BY <1>7, <1>8, <1>9, <1>10 DEF FightInv

LEMMA DespawnKeeps ==
    ASSUME FightInv, NEW e \in Enemies, Despawned(e), UNCHANGED despawnUnchanged,
           despawnTimers' \in {despawnTimers, despawnTimers \ {e}}
    PROVE  FightInv'
<1>1. UNCHANGED <<duelVars, spawned, windups, impacts, deathTimers, signedIn, cargo>>
    BY DEF despawnUnchanged
<1>2. Known' = Known
    BY <1>1 DEF Known
<1>3. ThreatInv'
    BY <1>1, DespawnKeepsThreat DEF FightInv
<1>4. CallsInv' /\ DuelInv'
    BY <1>1, CallsKeep, DuelsUnchanged DEF FightInv
<1>5. CASE e \notin Present
    <2>1. UNCHANGED <<population, health, targets, justDied, withered>>
        BY <1>5 DEF Despawned
    <2>2. Present' = Present /\ \A x : Alive(x)' <=> Alive(x)
        BY <2>1 DEF Present, Alive
    <2>3. SlainDespawn' /\ HerdIsCounted'
        BY <1>5, <2>1, <2>2 DEF FightInv, HerdInv, SlainDespawn, HerdIsCounted
    <2>4. HerdInv'
        BY <1>1, <1>2, <2>1, <2>2, <2>3 DEF FightInv, HerdInv
    <2>5. TargetsInv'
        BY <1>2, <2>1, TargetsUnchanged DEF FightInv
    <2>. QED
        BY <1>3, <1>4, <2>4, <2>5 DEF FightInv
<1>6. CASE e \in Present
    <2>1. /\ population' = population - 1 /\ health' = Without(health, e)
          /\ targets' = Without(targets, e)
          /\ justDied' = justDied \ {e} /\ withered' = withered \ {e}
        BY <1>6 DEF Despawned
    <2>2. DOMAIN health' = DOMAIN health \ {e} /\ Present' = Present \ {e}
          /\ \A x \in DOMAIN health' : health'[x] = health[x] /\ (Alive(x)' <=> Alive(x))
        BY <2>1 DEF Without, Present, Alive
    <2>3. /\ IsFiniteSet(Present') /\ Cardinality(Present') = Cardinality(Present) - 1
        BY <1>6, <2>2, FS_RemoveElement DEF FightInv, HerdInv
    <2>4. HerdIsCounted'
        BY <2>1, <2>3 DEF FightInv, HerdInv, HerdIsCounted
    <2>5. Fighters \subseteq DOMAIN health'
        BY <2>2, FightersAssumption DEF FightInv, HerdInv
    <2>6. SlainDespawn'
        BY <2>1, <2>2 DEF FightInv, HerdInv, SlainDespawn, Present
    <2>7. \A x \in justDied' \cap DOMAIN health' : ~Alive(x)' \/ x \in withered'
        BY <2>1, <2>2 DEF FightInv, HerdInv
    <2>8. HerdInv'
        BY <1>1, <1>2, <2>1, <2>2, <2>3, <2>4, <2>5, <2>6, <2>7 DEF FightInv, HerdInv
    <2>9. DOMAIN targets' \subseteq DOMAIN targets /\ \A p \in DOMAIN targets' : targets'[p] = targets[p]
        BY <2>1 DEF Without
    <2>10. TargetsInv'
        BY <1>2, <2>1, <2>2, <2>9, TargetsKeep DEF FightInv
    <2>. QED
        BY <1>3, <1>4, <2>8, <2>10 DEF FightInv
<1>. QED
    BY <1>5, <1>6

\* only calls, or what no invariant is about, changes
LEMMA QuietKeeps ==
    ASSUME FightInv, UNCHANGED <<duelVars, health, spawned, population, threat, contribution, scaling,
                                 targets, despawnTimers, justDied, withered, haunted>>,
           \A r \in impacts' \ impacts : Opposed(r),
           windups' \subseteq windups \cup (spawned \X Fighters),
           deathTimers' \subseteq deathTimers \cup Fighters, signedIn' \subseteq signedIn \cup Fighters,
           cargo' \subseteq cargo
    PROVE  FightInv'
<1>1. SamePeople /\ Known' = Known
    BY DEF SamePeople, Known
<1>2. HerdInv' /\ ThreatInv'
    BY <1>1, HerdUnchanged, ThreatUnchanged DEF FightInv
<1>3. TargetsInv'
    BY <1>1, TargetsUnchanged DEF FightInv
<1>4. CallsInv' /\ DuelInv'
    BY CallsKeep, DuelsUnchanged DEF FightInv
<1>. QED
    BY <1>2, <1>3, <1>4 DEF FightInv

\* somebody's rows and whoever aims at him are cleared; he may have been revived
LEMMA WithdrawalKeeps ==
    ASSUME FightInv, NEW x, ClearAll(x) \/ UNCHANGED <<threat, scaling, contribution, haunted>>,
           UNCHANGED <<duelVars, spawned, population, windups, impacts, despawnTimers, justDied, withered>>,
           DOMAIN targets' \subseteq DOMAIN targets, \A p \in DOMAIN targets' : targets'[p] = targets[p],
           \/ UNCHANGED health
           \/ \E p \in Fighters \ justDied : \E h \in 1 .. MaxHealth[p] : health' = [health EXCEPT ![p] = h],
           deathTimers' \subseteq deathTimers \cup Fighters, signedIn' \subseteq signedIn \cup Fighters,
           cargo' \subseteq cargo
    PROVE  FightInv'
<1>1. SamePeople /\ Known' = Known
    BY DEF SamePeople, Known
<1>2. ThreatInv'
    BY <1>1, ClearAllKeeps, ThreatUnchanged DEF FightInv
<1>3. CallsInv' /\ DuelInv'
    BY CallsKeep, DuelsUnchanged DEF FightInv
<1>4. CASE UNCHANGED health
    <2>1. HerdInv' /\ TargetsInv'
        BY <1>1, <1>4, HerdUnchanged, TargetsUnchanged DEF FightInv
    <2>. QED
        BY <1>2, <1>3, <2>1 DEF FightInv
<1>5. ASSUME NEW p \in Fighters \ justDied, NEW h \in 1 .. MaxHealth[p],
             health' = [health EXCEPT ![p] = h]
      PROVE  FightInv'
    <2>1. p \in DOMAIN health /\ p \notin Present /\ health'[p] = h /\ h > 0 /\ MaxHealth[p] \in Nat
        BY <1>5, FightersAssumption, MaxHealthType DEF FightInv, HerdInv, Present, Fighting
    <2>2. \A y \in DOMAIN health : y # p => health'[y] = health[y] /\ (Alive(y)' <=> Alive(y))
        BY <1>5 DEF Alive
    <2>3. Alive(p)'
        BY <1>5, <2>1 DEF Alive
    <2>4. \A y \in DOMAIN health : health'[y] \in 0 .. MaxHealth[y]
        BY <2>1, <2>2 DEF FightInv, HerdInv
    <2>5. \A y \in justDied' \cap DOMAIN health : ~Alive(y)' \/ y \in withered'
        BY <2>2 DEF FightInv, HerdInv
    <2>6. \A e \in Present \ withered' : health'[e] = 0 => e \in despawnTimers'
        BY <2>1, <2>2 DEF FightInv, HerdInv, SlainDespawn, Present
    <2>7. HerdInv'
        <3>1. justDied' \subseteq Known /\ UNCHANGED population
            BY DEF FightInv, HerdInv
        <3>. QED
            BY <1>1, <2>4, <2>5, <2>6, <3>1, HealthKeeps DEF FightInv
    <2>8. \A y \in DOMAIN health' : \/ y \in DOMAIN health /\ (Alive(y) => Alive(y)' \/ y \in withered')
                                    \/ Alive(y)' \/ y \in withered'
        BY <1>5, <2>2, <2>3
    <2>9. TargetsInv'
        BY <1>1, <2>8, TargetsKeep DEF FightInv
    <2>. QED
        BY <1>2, <1>3, <2>7, <2>9 DEF FightInv
<1>. QED
    BY <1>4, <1>5

LEMMA HerdKeeps == ASSUME FightInv, Herd(Fighters) PROVE FightInv'
<1>1. ASSUME NEW e \in Enemies, EnemyDespawnFromMobMonitor(e) PROVE FightInv'
    <2>1. Despawned(e) /\ UNCHANGED despawnUnchanged /\ despawnTimers' = despawnTimers
        BY <1>1 DEF EnemyDespawnFromMobMonitor
    <2>. QED
        BY <2>1, DespawnKeeps
<1>2. ASSUME NEW e \in Enemies, EnemyClearAggro(e) PROVE FightInv'
    <2>1. /\ ClearAll(e) \/ \E p \in Fighters : ClearPair(e, p)
          /\ UNCHANGED <<duelVars, health, spawned, population, targets, windups, impacts,
                         despawnTimers, deathTimers, justDied, signedIn, cargo, withered>>
        BY <1>2 DEF EnemyClearAggro
    <2>2. SamePeople /\ Known' = Known
        BY <2>1 DEF SamePeople, Known
    <2>3. ThreatInv'
        BY <2>1, <2>2, ClearAllKeeps, ClearPairKeeps DEF FightInv
    <2>4. HerdInv'
        BY <2>1, <2>2, HerdUnchanged DEF FightInv
    <2>5. TargetsInv'
        BY <2>1, <2>2, TargetsUnchanged DEF FightInv
    <2>6. CallsInv' /\ DuelInv'
        BY <2>1, CallsKeep, DuelsUnchanged DEF FightInv
    <2>. QED
        BY <2>3, <2>4, <2>5, <2>6 DEF FightInv
<1>3. ASSUME NEW e \in Enemies, NEW p \in Fighters, EnemyAttackStart(e, p) PROVE FightInv'
    <2>1. e \in spawned
        BY <1>3, FightersAssumption DEF EnemyAttackStart, BaseChecks, Alive, FightInv, HerdInv, Known
    <2>. QED
        BY <1>3, <2>1, QuietKeeps DEF EnemyAttackStart
<1>4. CASE AttackScheduled
    <2>1. PICK w \in windups :
            /\ windups' = windups \ {w}
            /\ \E hit \in SUBSET ({w[2]} \cup Targetable(w[1], w[2])) :
                  /\ \A x \in hit : BaseChecks(w[1], x)
                  /\ impacts' = impacts \cup {<<w[1], x>> : x \in hit}
            /\ UNCHANGED <<actionVars, duelVars, health, spawned, population, threat, contribution,
                           scaling, targets, despawnTimers, deathTimers, justDied, signedIn, cargo,
                           rider, withered, haunted>>
        BY <1>4 DEF AttackScheduled
    <2>2. w[1] \in spawned /\ w[1] \in Enemies /\ w[2] \in Fighters
        BY DEF FightInv, CallsInv, HerdInv
    <2>3. w[1] \notin Fighters
        BY <2>2, FightersAssumption
    <2>4. {w[2]} \cup Targetable(w[1], w[2]) \subseteq Fighters
        BY <2>2, <2>3 DEF Targetable, Living, FightInv, CallsInv
    <2>5. \A x \in Fighters : Opposed(<<w[1], x>>)
        BY <2>2, FightersAssumption DEF Opposed, Known
    <2>6. \A r \in impacts' \ impacts : Opposed(r)
        BY <2>1, <2>4, <2>5
    <2>. QED
        BY <2>1, <2>6, QuietKeeps
<1>5. CASE EnemyDespawn
    <2>1. PICK e \in despawnTimers : despawnTimers' = despawnTimers \ {e} /\ Despawned(e)
                                     /\ UNCHANGED despawnUnchanged
        BY <1>5 DEF EnemyDespawn
    <2>2. CASE e \in Enemies
        BY <2>1, <2>2, DespawnKeeps
    <2>3. CASE e \notin Enemies
        <3>1. UNCHANGED <<threat, scaling, contribution, haunted, population, health, targets,
                          justDied, withered>>
            BY <2>1, <2>3 DEF Despawned, Present
        <3>2. UNCHANGED <<duelVars, spawned, windups, impacts, deathTimers, signedIn, cargo>>
            BY <2>1 DEF despawnUnchanged
        <3>3. Present' = Present /\ Known' = Known /\ Present' \ despawnTimers' = Present \ despawnTimers
              /\ \A x : Alive(x)' <=> Alive(x)
            BY <2>1, <2>3, <3>1, <3>2 DEF Present, Known, Alive
        <3>4. HerdInv'
            <4>1. SlainDespawn' /\ HerdIsCounted'
                BY <2>1, <2>3, <3>1, <3>3 DEF FightInv, HerdInv, SlainDespawn, HerdIsCounted, Present
            <4>. QED
                BY <3>1, <3>2, <3>3, <4>1 DEF FightInv, HerdInv
        <3>5. ThreatInv'
            BY <3>1, <3>2, <3>3 DEF FightInv, ThreatInv, Opposed, HuntedIsInCombat, GoneIsForgotten,
                                    ContributionHasEnemy, ScalingFollowsThreat, Owned
        <3>6. TargetsInv'
            BY <3>1, <3>3, TargetsUnchanged DEF FightInv
        <3>7. CallsInv' /\ DuelInv'
            BY <3>2, CallsKeep, DuelsUnchanged DEF FightInv
        <3>. QED
            BY <3>4, <3>5, <3>6, <3>7 DEF FightInv
    <2>. QED
        BY <2>2, <2>3
<1>. QED
    BY <1>1, <1>2, <1>3, <1>4, <1>5, SpawnKeeps DEF Herd

LEMMA ComeAndGoKeeps == ASSUME FightInv, ComeAndGo(Fighters) PROVE FightInv'
<1>1. ASSUME NEW p \in Fighters, PlayerRespawn(p) PROVE FightInv'
    <2>1. p \notin justDied
          /\ UNCHANGED <<duelVars, spawned, population, windups, impacts, despawnTimers, deathTimers,
                         justDied, cargo, withered, signedIn>>
        BY <1>1 DEF PlayerRespawn, movedUnchanged
    <2>2. /\ ClearAll(p) \/ UNCHANGED <<threat, scaling, contribution, haunted>>
          /\ targets' = Untargeted(p) \/ targets' = targets
          /\ \/ health' = [health EXCEPT ![p] = 1]
             \/ health' = [health EXCEPT ![p] = MaxHealth[p]]
        BY <1>1 DEF PlayerRespawn, Withdraw
    <2>3. 1 \in 1 .. MaxHealth[p] /\ MaxHealth[p] \in 1 .. MaxHealth[p]
        BY MaxHealthType DEF Fighting
    <2>4. PICK h \in 1 .. MaxHealth[p] : health' = [health EXCEPT ![p] = h]
        BY <2>2, <2>3
    <2>5. DOMAIN targets' \subseteq DOMAIN targets /\ \A q \in DOMAIN targets' : targets'[q] = targets[q]
        BY <2>2, UntargetedIsLess
    <2>6. \E q \in Fighters \ justDied : \E g \in 1 .. MaxHealth[q] : health' = [health EXCEPT ![q] = g]
        BY <2>1, <2>4
    <2>7. deathTimers' \subseteq deathTimers \cup Fighters /\ signedIn' \subseteq signedIn \cup Fighters
          /\ cargo' \subseteq cargo
        BY <2>1
    <2>8. UNCHANGED <<duelVars, spawned, population, windups, impacts, despawnTimers, justDied, withered>>
        BY <2>1
    <2>. QED
        BY <2>2, <2>5, <2>6, <2>7, <2>8, WithdrawalKeeps
<1>2. ASSUME NEW p \in Fighters, PlayerSignOut(p) PROVE FightInv'
    <2>1. /\ ClearAll(p) /\ targets' = Without(Untargeted(p), p) /\ signedIn' \subseteq signedIn
          /\ UNCHANGED <<duelVars, spawned, population, windups, impacts, despawnTimers, deathTimers,
                         justDied, cargo, withered, health>>
        BY <1>2 DEF PlayerSignOut, movedUnchanged
    <2>2. DOMAIN targets' \subseteq DOMAIN targets /\ \A q \in DOMAIN targets' : targets'[q] = targets[q]
        BY <2>1, UntargetedIsLess DEF Without
    <2>3. deathTimers' \subseteq deathTimers \cup Fighters /\ signedIn' \subseteq signedIn \cup Fighters
          /\ cargo' \subseteq cargo
        BY <2>1
    <2>. QED
        BY <2>1, <2>2, <2>3, WithdrawalKeeps
<1>3. ASSUME NEW p \in Fighters, PlayerSignIn(p) PROVE FightInv'
    <2>1. signedIn' \subseteq signedIn \cup Fighters
          /\ UNCHANGED <<duelVars, spawned, population, windups, impacts, despawnTimers, deathTimers,
                         justDied, cargo, withered, health, threat, contribution, scaling, targets, haunted>>
        BY <1>3 DEF PlayerSignIn, movedUnchanged
    <2>. QED
        BY <2>1, QuietKeeps
<1>. QED
    BY <1>1, <1>2, <1>3 DEF ComeAndGo

LEMMA AimKeeps == ASSUME FightInv, Aim(Fighters) PROVE FightInv'
<1>1. ASSUME NEW x, TargetDropped(x) PROVE FightInv'
    <2>1. /\ targets' = Without(targets, x)
          /\ UNCHANGED <<duelVars, health, spawned, population, threat, contribution, scaling, windups,
                         impacts, despawnTimers, deathTimers, justDied, signedIn, cargo, withered, haunted>>
        BY <1>1 DEF TargetDropped
    <2>2. DOMAIN targets' \subseteq DOMAIN targets /\ \A q \in DOMAIN targets' : targets'[q] = targets[q]
        BY <2>1 DEF Without
    <2>3. deathTimers' \subseteq deathTimers \cup Fighters /\ signedIn' \subseteq signedIn \cup Fighters
          /\ cargo' \subseteq cargo
        BY <2>1
    <2>. QED
        BY <2>1, <2>2, <2>3, WithdrawalKeeps
<1>2. ASSUME NEW x, NEW y, NEW aggro \in BOOLEAN, ~(x \in Enemies /\ y \in Enemies), TargetUpdate(x, y, aggro)
      PROVE FightInv'
    <2>1. /\ {x, y} \subseteq spawned \cup Fighters
          /\ y \in DOMAIN health => health[y] # 0
          /\ IF aggro THEN AddThreat(BothWays(x, y)) ELSE UNCHANGED <<threat, scaling, haunted>>
          /\ targets' = [z \in DOMAIN targets \cup {x} |-> IF z = x THEN y ELSE targets[z]]
          /\ UNCHANGED <<duelVars, health, spawned, population, contribution, windups, impacts,
                         despawnTimers, deathTimers, justDied, signedIn, cargo, withered>>
        BY <1>2 DEF TargetUpdate
    <2>2. SamePeople /\ Known' = Known
        BY <2>1 DEF SamePeople, Known
    <2>3. Opposed(<<x, y>>)
        BY <1>2, <2>1 DEF Opposed, Known
    <2>4. (\A s \in BothWays(x, y) : Opposed(s)) /\ Mutual(BothWays(x, y))
        BY <2>3, BothWaysOpposed
    <2>5. ThreatInv'
        <3>1. CASE aggro
            BY <2>1, <2>2, <2>4, <3>1, AddThreatKeeps DEF FightInv
        <3>2. CASE ~aggro
            BY <2>1, <2>2, <3>2, ThreatUnchanged DEF FightInv
        <3>. QED
            BY <3>1, <3>2
    <2>6. HerdInv'
        BY <2>1, <2>2, HerdUnchanged DEF FightInv
    <2>7. CallsInv' /\ DuelInv'
        BY <2>1, CallsKeep, DuelsUnchanged DEF FightInv
    <2>8. y \in DOMAIN health => Alive(y)
        BY <2>1 DEF Alive, FightInv, HerdInv
    <2>9. TargetsInv'
        BY <2>1, <2>2, <2>8 DEF FightInv, TargetsInv, TargetsLive, Alive, Known
    <2>. QED
        BY <2>5, <2>6, <2>7, <2>9 DEF FightInv
<1>3. ASSUME NEW p \in Fighters, NEW e \in Enemies,
             TargetUpdate(p, e, FALSE) \/ TargetUpdate(e, p, TRUE)
      PROVE  FightInv'
    BY <1>2, <1>3, FightersAssumption
<1>. QED
    BY <1>1, <1>3 DEF Aim

LEMMA EscapeKeeps == ASSUME FightInv, Escape(Fighters) PROVE FightInv'
<1>1. ASSUME UNCHANGED inPlace PROVE FightInv'
    <2>1. UNCHANGED <<duelVars, spawned, population, windups, impacts, despawnTimers, deathTimers, signedIn,
                      justDied, cargo, withered, health, threat, contribution, scaling, targets, haunted>>
        BY <1>1 DEF inPlace, fightVars
    <2>. QED
        BY <2>1, QuietKeeps
<1>2. ASSUME NEW p, Withdraw(p) \/ UNCHANGED <<threat, scaling, contribution, haunted, targets>>,
             UNCHANGED <<health, signedIn, movedUnchanged>>
      PROVE  FightInv'
    <2>1. /\ ClearAll(p) \/ UNCHANGED <<threat, scaling, contribution, haunted>>
          /\ targets' = Untargeted(p) \/ targets' = targets
        BY <1>2 DEF Withdraw
    <2>2. UNCHANGED <<duelVars, spawned, population, windups, impacts, despawnTimers, deathTimers, signedIn,
                      justDied, cargo, withered, health>>
        BY <1>2 DEF movedUnchanged
    <2>3. DOMAIN targets' \subseteq DOMAIN targets /\ \A q \in DOMAIN targets' : targets'[q] = targets[q]
        BY <2>1, UntargetedIsLess
    <2>4. deathTimers' \subseteq deathTimers \cup Fighters /\ signedIn' \subseteq signedIn \cup Fighters
          /\ cargo' \subseteq cargo
        BY <2>2
    <2>. QED
        BY <2>1, <2>2, <2>3, <2>4, WithdrawalKeeps
<1>3. ASSUME NEW p \in Fighters, ClimbStart(p) \/ Climb(p) \/ TeleportStart(p) \/ Sleep(p) PROVE FightInv'
    <2>1. UNCHANGED inPlace
        BY <1>3 DEF ClimbStart, Climb, TeleportStart, Sleep
    <2>. QED
        BY <1>1, <2>1
<1>4. ASSUME NEW p \in Fighters, PlayerUseElevator(p) \/ Teleport(p) \/ ServerTeleportPlayer(p)
      PROVE  FightInv'
    <2>1. /\ Withdraw(p) \/ UNCHANGED <<threat, scaling, contribution, haunted, targets>>
          /\ UNCHANGED <<health, signedIn, movedUnchanged>>
        BY <1>4 DEF PlayerUseElevator, Teleport, ServerTeleportPlayer
    <2>. QED
        BY <1>2, <2>1
<1>5. CASE PlayerElevatorArrive
    <2>1. /\ UNCHANGED <<threat, scaling, contribution, haunted, targets>>
          /\ UNCHANGED <<health, signedIn, movedUnchanged>>
        BY <1>5 DEF PlayerElevatorArrive
    <2>. QED
        BY <1>2, <2>1
<1>. QED
    BY <1>3, <1>4, <1>5 DEF Escape

LEMMA CastKeeps == ASSUME FightInv, Cast(Fighters) PROVE FightInv'
<1>1. PICK p \in Fighters, e \in Enemies : AbilityCustomStart(p, e) \/ AbilityCustom(p, e)
    BY DEF Cast
<1>2. ASSUME UNCHANGED fightVars, UNCHANGED duelVars PROVE FightInv'
    <2>1. UNCHANGED <<duelVars, spawned, population, windups, impacts, despawnTimers, deathTimers, signedIn,
                      justDied, cargo, withered, health, threat, contribution, scaling, targets, haunted>>
        BY <1>2 DEF fightVars
    <2>. QED
        BY <2>1, QuietKeeps
<1>3. CASE AbilityCustomStart(p, e)
    BY <1>2, <1>3 DEF AbilityCustomStart, inPlace
<1>4. CASE AbilityCustom(p, e)
    <2>1. /\ e \in Present
          /\ UNCHANGED <<duelVars, spawned, population, contribution, targets, windups, impacts,
                         despawnTimers, deathTimers, justDied, signedIn, cargo>>
        BY <1>4 DEF AbilityCustom
    <2>2. CASE UNCHANGED <<health, withered, threat, scaling, haunted>>
        BY <2>1, <2>2, QuietKeeps
    <2>3. CASE /\ health' = [health EXCEPT ![e] = Remaining(e, 1)]
               /\ withered' = IF Alive(e) /\ health'[e] = 0 THEN withered \cup {e} ELSE withered
               /\ AddThreat({<<p, e>>})
        <3>. DEFINE h == Remaining(e, 1)
                    rows == {<<p, e>>}
        <3>1. e \in DOMAIN health /\ health[e] \in 0 .. MaxHealth[e] /\ MaxHealth[e] \in Nat
            BY <2>1, MaxHealthType DEF FightInv, HerdInv, Present, Fighting
        <3>2. h \in 0 .. MaxHealth[e] /\ (health[e] = 0 => h = 0)
            BY <3>1 DEF Remaining
        <3>3. SamePeople /\ Known' = Known
            BY <2>1, <2>3 DEF SamePeople, Known
        <3>4. health'[e] = h /\ \A x \in DOMAIN health : x # e => health'[x] = health[x]
            BY <2>3, <3>1
        <3>5. AddThreat(rows)
            BY <2>3
        <3>6. (\A r \in rows : Opposed(r)) /\ Mutual(rows)
            <4>1. e \in spawned
                BY <2>1, FightersAssumption DEF Present, FightInv, HerdInv, Known
            <4>. QED
                BY <4>1, FightersAssumption DEF Opposed, Known, Mutual
        <3>. HIDE DEF h, rows
        <3>7. ThreatInv'
            BY <2>1, <3>3, <3>5, <3>6, AddThreatKeeps DEF FightInv
        <3>8. withered \subseteq withered' /\ (Alive(e) => Alive(e)' \/ e \in withered')
            BY <2>3, <3>1, <3>2, <3>4 DEF Alive
        <3>9. HerdInv'
            <4>1. \A x \in DOMAIN health : health'[x] \in 0 .. MaxHealth[x]
                BY <3>2, <3>4 DEF FightInv, HerdInv
            <4>2. \A x \in justDied' \cap DOMAIN health : ~Alive(x)' \/ x \in withered'
                <5>. SUFFICES ASSUME NEW x \in justDied \cap DOMAIN health PROVE ~Alive(x)' \/ x \in withered'
                    BY <2>1
                <5>1. ~Alive(x) \/ x \in withered
                    BY DEF FightInv, HerdInv
                <5>2. ~Alive(e) => ~Alive(e)'
                    BY <3>1, <3>2, <3>4 DEF Alive
                <5>. QED
                    BY <3>4, <3>8, <5>1, <5>2 DEF Alive
            <4>3. \A x \in Present \ withered' : health'[x] = 0 => x \in despawnTimers'
                <5>. SUFFICES ASSUME NEW x \in Present \ withered', health'[x] = 0
                              PROVE  x \in despawnTimers'
                    OBVIOUS
                <5>1. health[x] = 0
                    BY <3>1, <3>4, <3>8 DEF Alive, Present
                <5>. QED
                    BY <2>1, <3>8, <5>1 DEF FightInv, HerdInv, SlainDespawn
            <4>4. justDied' \subseteq Known /\ UNCHANGED population
                BY <2>1 DEF FightInv, HerdInv
            <4>. QED
                BY <3>3, <4>1, <4>2, <4>3, <4>4, HealthKeeps DEF FightInv
        <3>10. TargetsInv'
            <4>1. \A x \in DOMAIN health' : x \in DOMAIN health /\ (Alive(x) => Alive(x)' \/ x \in withered')
                BY <2>3, <3>4, <3>8 DEF Alive
            <4>2. \A x \in withered : x \in withered' \/ x \notin DOMAIN health'
                BY <3>8
            <4>. QED
                BY <2>1, <3>3, <4>1, <4>2, TargetsKeep DEF FightInv
        <3>11. CallsInv' /\ DuelInv'
            BY <2>1, CallsKeep, DuelsUnchanged DEF FightInv
        <3>. QED
            BY <3>7, <3>9, <3>10, <3>11 DEF FightInv
    <2>. QED
        BY <1>4, <2>2, <2>3 DEF AbilityCustom
<1>. QED
    BY <1>1, <1>3, <1>4

LEMMA InPlaceKeeps == ASSUME FightInv, UNCHANGED inPlace PROVE FightInv'
<1>1. UNCHANGED <<duelVars, spawned, population, windups, impacts, despawnTimers, deathTimers, signedIn,
                  justDied, cargo, withered, health, threat, contribution, scaling, targets, haunted>>
    BY DEF inPlace, fightVars
<1>. QED
    BY <1>1, QuietKeeps

LEMMA FightKeeps == ASSUME FightInv, Fight(Fighters, Fighting) PROVE FightInv'
<1>1. ASSUME NEW p \in Fighters, NEW d \in Fighting, AttackStart(p, d) PROVE FightInv'
    BY <1>1, InPlaceKeeps DEF AttackStart, inPlace
<1>2. ASSUME NEW p \in Fighters, NEW d \in Fighting, Attack(p, d) PROVE FightInv'
    <2>1. UNCHANGED <<duelVars, health, spawned, population, threat, contribution, scaling, targets,
                      windups, despawnTimers, deathTimers, justDied, signedIn, cargo, withered, haunted>>
        BY <1>2 DEF Attack
    <2>2. PICK more \in SUBSET Targetable(p, d) :
              \/ BaseChecks(p, d) /\ impacts' = impacts \cup {<<p, x>> : x \in more \cup {d}}
              \/ UNCHANGED impacts
        BY <1>2 DEF Attack
    <2>3. \A x : Alive(x) => Opposed(<<p, x>>)
        BY FightersAssumption DEF Opposed, Alive, FightInv, HerdInv, Known
    <2>4. \A x \in more : Alive(x)
        BY <2>2 DEF Targetable, Living
    <2>5. \A r \in impacts' \ impacts : Opposed(r)
        BY <2>2, <2>3, <2>4 DEF BaseChecks
    <2>6. windups' \subseteq windups \cup (spawned \X Fighters)
          /\ deathTimers' \subseteq deathTimers \cup Fighters /\ signedIn' \subseteq signedIn \cup Fighters
          /\ cargo' \subseteq cargo
        BY <2>1
    <2>. QED
        BY <2>1, <2>5, <2>6, QuietKeeps
<1>3. CASE PlayerDeathStart
    <2>1. PICK p \in deathTimers :
            /\ deathTimers' = deathTimers \ {p}
            /\ Withdraw(p)
            /\ cargo' = cargo \ {p}
            /\ UNCHANGED <<duelVars, health, spawned, population, windups, impacts, despawnTimers,
                           justDied, signedIn, withered>>
        BY <1>3 DEF PlayerDeathStart
    <2>2. DOMAIN targets' \subseteq DOMAIN targets /\ \A q \in DOMAIN targets' : targets'[q] = targets[q]
        BY <2>1, UntargetedIsLess DEF Withdraw
    <2>3. deathTimers' \subseteq deathTimers \cup Fighters /\ signedIn' \subseteq signedIn \cup Fighters
          /\ cargo' \subseteq cargo
        BY <2>1
    <2>4. ClearAll(p)
        BY <2>1 DEF Withdraw
    <2>5. UNCHANGED <<duelVars, spawned, population, windups, impacts, despawnTimers, justDied, withered>>
          /\ UNCHANGED health
        BY <2>1
    <2>. QED
        BY <2>2, <2>3, <2>4, <2>5, WithdrawalKeeps
<1>4. ASSUME NEW x, RespawnSecondsPass(x) PROVE FightInv'
    <2>1. /\ justDied' = justDied \ {x}
          /\ UNCHANGED <<duelVars, health, spawned, population, threat, contribution, scaling,
                         targets, windups, impacts, despawnTimers, deathTimers, signedIn, cargo,
                         withered, haunted>>
        BY <1>4 DEF RespawnSecondsPass
    <2>2. SamePeople /\ Known' = Known
        BY <2>1 DEF SamePeople, Known
    <2>3. HerdInv'
        <3>1. \A y \in DOMAIN health : health'[y] \in 0 .. MaxHealth[y]
            BY <2>1 DEF FightInv, HerdInv
        <3>2. justDied' \subseteq Known /\ UNCHANGED population
            BY <2>1 DEF FightInv, HerdInv
        <3>3. \A y \in justDied' \cap DOMAIN health : ~Alive(y)' \/ y \in withered'
            BY <2>1 DEF FightInv, HerdInv, Alive
        <3>4. \A e \in Present \ withered' : health'[e] = 0 => e \in despawnTimers'
            BY <2>1 DEF FightInv, HerdInv, SlainDespawn
        <3>. QED
            BY <2>2, <3>1, <3>2, <3>3, <3>4, HealthKeeps DEF FightInv
    <2>4. ThreatInv'
        BY <2>1, <2>2, ThreatUnchanged DEF FightInv
    <2>5. TargetsInv'
        BY <2>1, <2>2, TargetsUnchanged DEF FightInv
    <2>6. CallsInv' /\ DuelInv'
        BY <2>1, CallsKeep, DuelsUnchanged DEF FightInv
    <2>. QED
        BY <2>3, <2>4, <2>5, <2>6 DEF FightInv
<1>. QED
    BY <1>1, <1>2, <1>3, <1>4, ImpactKeeps, InPlaceKeeps DEF Fight

LEMMA ChallengeKeeps == ASSUME FightInv, Challenge PROVE FightInv'
<1>1. UNCHANGED <<spawned, population, windups, impacts, despawnTimers, deathTimers, signedIn,
                  justDied, cargo, withered, health, threat, contribution, scaling, targets, haunted>>
    BY DEF Challenge, fightVars
<1>2. SamePeople /\ Known' = Known
    BY <1>1 DEF SamePeople, Known
<1>3. HerdInv' /\ ThreatInv'
    BY <1>1, <1>2, HerdUnchanged, ThreatUnchanged DEF FightInv
<1>4. TargetsInv'
    BY <1>1, <1>2, TargetsUnchanged DEF FightInv
<1>5. CallsInv' /\ DuelInv'
    BY <1>1, CallsKeep, ChallengeKeepsDuels DEF FightInv
<1>. QED
    BY <1>3, <1>4, <1>5 DEF FightInv

LEMMA CombatInvNext == CombatInv /\ [AnyFight]_combatVars => CombatInv'
<1>. SUFFICES ASSUME CombatInv, [AnyFight]_combatVars PROVE CombatInv'
    OBVIOUS
<1>1. CASE AnyFight
    <2>1. ActionInv'
        BY <1>1, ActionsAreKept DEF CombatInv, FightInv
    <2>2. ASSUME Gesture(Fighters) PROVE FightInv'
        BY <2>2, InPlaceKeeps DEF Gesture, CombatInv
    <2>3. FightInv'
        BY <1>1, <2>2, FightKeeps, ComeAndGoKeeps, HerdKeeps, RecoverKeeps, AimKeeps, EscapeKeeps, CastKeeps,
           ChallengeKeeps DEF AnyFight, CombatInv
    <2>. QED
        BY <2>1, <2>3 DEF CombatInv
<1>2. CASE UNCHANGED combatVars
    <2>1. UNCHANGED <<actionVars, rider>> /\ UNCHANGED inPlace
        BY <1>2 DEF combatVars, fightVars, inPlace
    <2>2. ActionInv'
        BY <2>1 DEF CombatInv, ActionInv, actionVars
    <2>. QED
        BY <2>1, <2>2, InPlaceKeeps DEF CombatInv
<1>. QED
    BY <1>1, <1>2

(***************************************************************************)
(* Whatever is done in fights, by any number of players and enemies, in    *)
(* every order: no account of them is left half done (Combat.tla).         *)
(***************************************************************************)
THEOREM FightsStayInOrder == CombatInit /\ [][AnyFight]_combatVars => []CombatInOrder
<1>1. CombatInit /\ [][AnyFight]_combatVars => []CombatInv
    BY CombatInvInit, CombatInvNext, PTL
<1>. QED
    BY <1>1, CombatInvIsEnough, PTL

LEMMA ScenesAreFights == [Next]_regionVars => [AnyFight]_combatVars
<1>. SUFFICES ASSUME [Next]_regionVars PROVE [AnyFight]_combatVars
    OBVIOUS
<1>1. Hero \in Fighters
    BY HeroAssumption DEF Hero
<1>2. ASSUME UNCHANGED combatVars PROVE [AnyFight]_combatVars
    BY <1>2
<1>3. ASSUME NEW D \in SUBSET Fighting, Fight({Hero}, D) PROVE Fight(Fighters, Fighting)
    BY <1>1, <1>3 DEF Fight
<1>4. Herd({Hero}) => Herd(Fighters)
    BY <1>1 DEF Herd
<1>5. Recover({Hero}) => Recover(Fighters)
    BY <1>1 DEF Recover
<1>6. Aim({Hero}) => Aim(Fighters)
    BY <1>1 DEF Aim
<1>7. Escape({Hero}) => Escape(Fighters)
    BY <1>1 DEF Escape
<1>8. ComeAndGo({Hero}) => ComeAndGo(Fighters)
    BY <1>1 DEF ComeAndGo
<1>9. Gesture({Hero}) => Gesture(Fighters)
    BY <1>1 DEF Gesture
<1>10. Cast({Hero}) => Cast(Fighters)
    BY <1>1 DEF Cast
<1>11. PlayerRespawn(Hero) \/ PlayerSignOut(Hero) => ComeAndGo(Fighters)
    BY <1>1 DEF ComeAndGo
<1>12. Enemies \subseteq Fighting /\ Fighters \subseteq Fighting
    BY DEF Fighting
<1>13. ASSUME FightScene PROVE AnyFight
    BY <1>3, <1>4, <1>5, <1>6, <1>7, <1>8, <1>9, <1>10, <1>11, <1>12, <1>13 DEF FightScene, HeroFights, AnyFight
<1>. QED
    BY <1>2, <1>13 DEF Next, QueueScene, MessagesScene, regionVars

\* Likewise in every scene of the region that TLC checks.
THEOREM RegionFightsStayInOrder == Spec => []CombatInOrder
<1>1. Init => CombatInit
    BY DEF Init
<1>2. [Next]_regionVars => [AnyFight]_combatVars
    BY ScenesAreFights
<1>. QED
    BY <1>1, <1>2, FightsStayInOrder, PTL DEF Spec

=============================================================================
