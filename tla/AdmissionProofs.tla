-------------------------- MODULE AdmissionProofs --------------------------
(***************************************************************************)
(* Lemmas about the functions of Admission: what they do to the types of   *)
(* the tables, and to who is in the region and signed in.                  *)
(***************************************************************************)
EXTENDS Admission, FiniteSetTheorems, TLAPS

TablesOK(r) == r \in Tables /\ UniqueRows(r)

-----------------------------------------------------------------------------
(***************************************************************************)
(* What the functions of Admission do to the types.                        *)
(***************************************************************************)

LEMMA QueueReplaced ==
    ASSUME NEW r, TablesOK(r), NEW q \in Seq(Players),
           \A i, j \in 1 .. Len(q) : q[i] = q[j] => i = j
    PROVE  TablesOK([r EXCEPT !.queue = q])
<1>. DEFINE s == [r EXCEPT !.queue = q]
<1>1. s \in Tables
    BY DEF TablesOK, Tables
<1>2. s.queue = q
    BY DEF TablesOK, Tables
<1>. QED
    BY <1>1, <1>2 DEF TablesOK, UniqueRows

LEMMA TimerReplaced ==
    ASSUME NEW r, TablesOK(r), NEW p \in Players, NEW t \in GracePeriodType \cup {"none"}
    PROVE  TablesOK([r EXCEPT !.timer[p] = t])
BY DEF TablesOK, UniqueRows, Tables

LEMMA PermissionReplaced ==
    ASSUME NEW r, TablesOK(r), NEW p \in Players, NEW t \in GracePeriodType \cup {"none"},
           NEW canSignIn \in SUBSET Players
    PROVE  TablesOK([r EXCEPT !.canSignIn = canSignIn, !.timer[p] = t])
BY DEF TablesOK, UniqueRows, Tables

LEMMA PlayerRemoved ==
    ASSUME NEW r, TablesOK(r), NEW p \in Players,
           NEW users \in SUBSET Players, NEW canSignIn \in SUBSET Players,
           NEW signedIn \in SUBSET Players
    PROVE  TablesOK([r EXCEPT !.users = users, !.canSignIn = canSignIn,
                              !.signedIn = signedIn, !.timer[p] = "none"])
BY DEF TablesOK, UniqueRows, Tables

LEMMA PlayerInserted ==
    ASSUME NEW r, TablesOK(r), NEW users \in SUBSET Players,
           NEW canSignIn \in SUBSET Players, NEW previous \in SUBSET Players
    PROVE  TablesOK([r EXCEPT !.users = users, !.canSignIn = canSignIn, !.previous = previous])
BY DEF TablesOK, UniqueRows, Tables

LEMMA StartGracePeriodType ==
    ASSUME NEW r, TablesOK(r), NEW p \in Players, NEW type \in GracePeriodType
    PROVE  TablesOK(StartGracePeriod(r, p, type))
BY DEF TablesOK, UniqueRows, Tables, StartGracePeriod

LEMMA AllowType ==
    ASSUME NEW r, TablesOK(r), NEW admitted \in SUBSET Players
    PROVE  TablesOK(Allow(r, admitted))
BY DEF TablesOK, UniqueRows, Tables, Allow, GracePeriodType

LEMMA EnqueueType ==
    ASSUME NEW r, TablesOK(r), NEW p \in Players
    PROVE  TablesOK(Enqueue(r, p))
<1>. CASE InQueue(r, p)
    BY DEF Enqueue
<1>. CASE ~InQueue(r, p)
    <2>. DEFINE q == Append(r.queue, p)
    <2>1. r.queue \in Seq(Players)
        BY DEF TablesOK, Tables
    <2>2. q \in Seq(Players) /\ Len(q) = Len(r.queue) + 1 /\ q[Len(q)] = p
          /\ \A i \in 1 .. Len(r.queue) : q[i] = r.queue[i]
        BY <2>1
    <2>3. \A i, j \in 1 .. Len(q) : q[i] = q[j] => i = j
        BY <2>1, <2>2 DEF TablesOK, UniqueRows, InQueue
    <2>4. Enqueue(r, p) = [r EXCEPT !.queue = q]
        BY DEF Enqueue
    <2>. HIDE DEF q
    <2>. QED
        BY <2>2, <2>3, <2>4, QueueReplaced
<1>. QED
    OBVIOUS

LEMMA DequeueType ==
    ASSUME NEW r, TablesOK(r), NEW p \in Players
    PROVE  TablesOK(Dequeue(r, p))
<1>. CASE ~InQueue(r, p)
    BY DEF Dequeue
<1>. CASE InQueue(r, p)
    <2>. DEFINE n == Len(r.queue)
               k == Position(r, p)
               q == [i \in 1 .. n - 1 |-> IF i < k THEN r.queue[i] ELSE r.queue[i + 1]]
    <2>1. k \in 1 .. n
        BY DEF Position, InQueue
    <2>2. r.queue \in Seq(Players) /\ n \in Nat
        BY DEF TablesOK, Tables
    <2>3. q \in Seq(Players) /\ Len(q) = n - 1
        <3>1. \A i \in 1 .. n : r.queue[i] \in Players
            BY <2>2
        <3>2. \A i \in 1 .. n - 1 : i \in 1 .. n /\ i + 1 \in 1 .. n
            BY <2>1, <2>2
        <3>3. q \in [1 .. n - 1 -> Players]
            BY <3>1, <3>2
        <3>4. n - 1 \in Nat
            BY <2>1, <2>2
        <3>. HIDE DEF q
        <3>. QED
            BY <3>3, <3>4
    <2>4. \A i, j \in 1 .. n - 1 : q[i] = q[j] => i = j
        <3>1. \A i, j \in 1 .. n : r.queue[i] = r.queue[j] => i = j
            BY DEF TablesOK, UniqueRows
        <3>. HIDE DEF k
        <3>2. SUFFICES ASSUME NEW i \in 1 .. n - 1, NEW j \in 1 .. n - 1, q[i] = q[j]
                       PROVE  i = j
            OBVIOUS
        <3>3. /\ q[i] = r.queue[IF i < k THEN i ELSE i + 1]
              /\ q[j] = r.queue[IF j < k THEN j ELSE j + 1]
            OBVIOUS
        <3>4. /\ (IF i < k THEN i ELSE i + 1) \in 1 .. n
              /\ (IF j < k THEN j ELSE j + 1) \in 1 .. n
            BY <2>1, <2>2
        <3>5. (IF i < k THEN i ELSE i + 1) = (IF j < k THEN j ELSE j + 1)
            BY <3>1, <3>2, <3>3, <3>4
        <3>. QED
            BY <2>1, <2>2, <3>5
    <2>5. Dequeue(r, p) = [r EXCEPT !.queue = q]
        BY DEF Dequeue
    <2>6. TablesOK([r EXCEPT !.queue = q])
        <3>. HIDE DEF q
        <3>. QED
            BY <2>3, <2>4, QueueReplaced
    <2>. QED
        BY <2>5, <2>6
<1>. QED
    OBVIOUS

LEMMA CountsAreNaturals ==
    ASSUME NEW r, TablesOK(r)
    PROVE  /\ IsFiniteSet(r.signedIn) /\ IsFiniteSet(InGracePeriod(r))
           /\ Cardinality(r.signedIn) \in Nat /\ Cardinality(InGracePeriod(r)) \in Nat
           /\ SignedInCount(r) \in Nat
<1>1. r.signedIn \in SUBSET Players /\ InGracePeriod(r) \in SUBSET Players
    BY DEF TablesOK, Tables, InGracePeriod
<1>2. IsFiniteSet(r.signedIn) /\ IsFiniteSet(InGracePeriod(r))
    BY <1>1, FS_Subset, PlayersAssumption
<1>3. Cardinality(r.signedIn) \in Nat /\ Cardinality(InGracePeriod(r)) \in Nat
    BY <1>2, FS_CardinalityType
<1>. QED
    BY <1>2, <1>3 DEF SignedInCount

LEMMA ServedInRange ==
    ASSUME NEW r, TablesOK(r), NEW par \in RegionSignInParameters, FreeSlots(r, par) >= 1
    PROVE  /\ FreeSlots(r, par) \in Nat
           /\ Served(r, par) \in 0 .. Len(r.queue)
           /\ r.queue \in Seq(Players)
           /\ Admitted(r, par) \in SUBSET Players
<1>1. SignedInCount(r) \in Nat /\ par.maxSignedIn \in Nat
    BY CountsAreNaturals DEF RegionSignInParameters
<1>2. r.queue \in Seq(Players) /\ Len(r.queue) \in Nat /\ r.users \in SUBSET Players
    BY DEF TablesOK, Tables
<1>3. FreeSlots(r, par) \in Nat
    BY <1>1 DEF FreeSlots
<1>. QED
    BY <1>2, <1>3 DEF Served, Admitted

LEMMA ProcessQueueType ==
    ASSUME NEW r, TablesOK(r), NEW par \in RegionSignInParameters
    PROVE  TablesOK(ProcessQueue(r, par))
<1>. CASE FreeSlots(r, par) < 1
    BY DEF ProcessQueue
<1>. CASE ~(FreeSlots(r, par) < 1)
    <2>. DEFINE n == Served(r, par)
               s == Allow(r, Admitted(r, par))
               rest == SubSeq(s.queue, n + 1, Len(s.queue))
    <2>0. FreeSlots(r, par) >= 1
        BY CountsAreNaturals DEF FreeSlots, RegionSignInParameters
    <2>1. n \in 0 .. Len(r.queue) /\ r.queue \in Seq(Players) /\ Admitted(r, par) \in SUBSET Players
        BY <2>0, ServedInRange
    <2>2. TablesOK(s)
        BY <2>1, AllowType
    <2>3. s.queue = r.queue
        BY DEF Allow, TablesOK, Tables
    <2>4. rest \in Seq(Players) /\ Len(rest) = Len(r.queue) - n
        BY <2>1, <2>3
    <2>5. ASSUME NEW i \in 1 .. Len(rest)
          PROVE  rest[i] = r.queue[n + i] /\ n + i \in 1 .. Len(r.queue)
        <3>1. rest = SubSeq(r.queue, n + 1, Len(r.queue))
            BY <2>3
        <3>. HIDE DEF n
        <3>2. i \in 1 .. Len(r.queue) - n /\ n \in 0 .. Len(r.queue) /\ Len(r.queue) \in Nat
            BY <2>1, <2>4
        <3>. QED
            BY <3>1, <3>2, <2>1, <2>4
    <2>6. ASSUME NEW i \in 1 .. Len(rest), NEW j \in 1 .. Len(rest), rest[i] = rest[j]
          PROVE  i = j
        <3>1. n + i \in 1 .. Len(r.queue) /\ n + j \in 1 .. Len(r.queue)
              /\ r.queue[n + i] = r.queue[n + j]
            BY <2>5, <2>6
        <3>2. n + i = n + j
            BY <3>1 DEF TablesOK, UniqueRows
        <3>. HIDE DEF n, rest
        <3>. QED
            BY <3>2, <2>1, <2>4
    <2>7. ProcessQueue(r, par) = [s EXCEPT !.queue = rest]
        BY DEF ProcessQueue
    <2>. HIDE DEF rest, s
    <2>. QED
        BY <2>2, <2>4, <2>6, <2>7, QueueReplaced
<1>. QED
    OBVIOUS

LEMMA SignOutType ==
    ASSUME NEW r, TablesOK(r), NEW players \in SUBSET Players, NEW grace \in BOOLEAN
    PROVE  TablesOK(SignOut(r, players, grace))
BY DEF TablesOK, UniqueRows, Tables, SignOut, GracePeriodAfter, GracePeriodType

LEMMA GraceEndsType ==
    ASSUME NEW r, TablesOK(r), NEW par \in RegionSignInParameters, NEW p \in Players
    PROVE  TablesOK(GraceEnds(r, par, p))
<1>1. TablesOK([r EXCEPT !.timer[p] = "none"])
    BY DEF TablesOK, UniqueRows, Tables
<1>2. TablesOK([Dequeue(r, p) EXCEPT !.timer[p] = "none"])
    BY DequeueType, TimerReplaced
<1>3. TablesOK(SignInGraceEnds(r, par, p))
    <2>. DEFINE s == ProcessQueue(r, par)
               replaced == FreeSlots(r, par) >= 1 /\ p \in Admitted(r, par)
    <2>1. TablesOK(s)
        BY ProcessQueueType
    <2>2. SignInGraceEnds(r, par, p) =
            [s EXCEPT !.canSignIn = @ \ {p}, !.timer[p] = IF replaced THEN @ ELSE "none"]
        BY DEF SignInGraceEnds
    <2>. DEFINE t == IF replaced THEN s.timer[p] ELSE "none"
                c == s.canSignIn \ {p}
    <2>3. SignInGraceEnds(r, par, p) = [s EXCEPT !.canSignIn = c, !.timer[p] = t]
        BY <2>2
    <2>4. t \in GracePeriodType \cup {"none"} /\ c \in SUBSET Players
        BY <2>1 DEF TablesOK, Tables
    <2>5. TablesOK([s EXCEPT !.canSignIn = c, !.timer[p] = t])
        <3>. HIDE DEF s, t, c
        <3>. QED
            BY <2>1, <2>4, PermissionReplaced
    <2>. QED
        BY <2>3, <2>5
<1>. QED
    BY <1>1, <1>2, <1>3 DEF GraceEnds

LEMMA TransferTypes ==
    ASSUME NEW r, TablesOK(r), NEW par \in RegionSignInParameters, NEW p \in Players
    PROVE  /\ TablesOK(Depart(r, par, p))
           /\ \A canSignIn, allowCancel \in BOOLEAN : TablesOK(Arrive(r, p, canSignIn, allowCancel))
<1>1. TablesOK(Depart(r, par, p))
    <2>. DEFINE s == SignOut(r, {p}, FALSE)
               left == [s EXCEPT !.users = @ \ {p}, !.canSignIn = @ \ {p},
                                 !.signedIn = @ \ {p}, !.timer[p] = "none"]
    <2>1. TablesOK(s)
        BY SignOutType
    <2>2. TablesOK(left)
        <3>. HIDE DEF s
        <3>1. s.users \in SUBSET Players /\ s.canSignIn \in SUBSET Players
              /\ s.signedIn \in SUBSET Players
            BY <2>1 DEF TablesOK, Tables
        <3>. QED
            BY <2>1, <3>1, PlayerRemoved
    <2>. QED
        BY <2>2, ProcessQueueType DEF Depart
<1>2. ASSUME NEW canSignIn \in BOOLEAN, NEW allowCancel \in BOOLEAN
      PROVE  TablesOK(Arrive(r, p, canSignIn, allowCancel))
    <2>. DEFINE users == r.users \cup {p}
               can == IF canSignIn THEN r.canSignIn \cup {p} ELSE r.canSignIn \ {p}
               before == IF allowCancel THEN r.previous \cup {p} ELSE r.previous
    <2>1. users \in SUBSET Players /\ can \in SUBSET Players /\ before \in SUBSET Players
        BY DEF TablesOK, Tables
    <2>2. Arrive(r, p, canSignIn, allowCancel)
            = [r EXCEPT !.users = users, !.canSignIn = can, !.previous = before]
        BY DEF Arrive
    <2>3. TablesOK([r EXCEPT !.users = users, !.canSignIn = can, !.previous = before])
        <3>. HIDE DEF users, can, before
        <3>. QED
            BY <2>1, PlayerInserted
    <2>. QED
        BY <2>2, <2>3
<1>. QED
    BY <1>1, <1>2

LEMMA QueueJoinType ==
    ASSUME NEW p \in Players, NEW r, TablesOK(r), NEW par, NEW skips
    PROVE  TablesOK(QueueJoin(r, par, p, skips))
<1>1. TablesOK([r EXCEPT !.timer[p] = "none"])
    BY DEF TablesOK, UniqueRows, Tables
<1>2. TablesOK(StartGracePeriod(r, p, "SignIn"))
    BY StartGracePeriodType DEF GracePeriodType
<1>3. TablesOK(AllowSignIn(r, p))
    BY AllowType DEF AllowSignIn
<1>4. TablesOK(Enqueue(r, p))
    BY EnqueueType
<1>. QED
    BY <1>1, <1>2, <1>3, <1>4 DEF QueueJoin

-----------------------------------------------------------------------------
(***************************************************************************)
(* Who is signed in, whatever happens to the region: only sign_in adds to  *)
(* signed_in_player_state, and whoever loses the last connection or leaves *)
(* the region is taken out, provided that the table has players of this    *)
(* region only.                                                            *)
(***************************************************************************)
SamePresence(r, s) == s.users = r.users /\ s.signedIn = r.signedIn
FewerPresent(r, s) == s.users = r.users /\ s.signedIn \subseteq r.signedIn

LEMMA AllowPresence ==
    ASSUME NEW r \in Tables, NEW admitted
    PROVE  SamePresence(r, Allow(r, admitted))
BY DEF SamePresence, Allow, Tables

LEMMA DequeuePresence ==
    ASSUME NEW r \in Tables, NEW p
    PROVE  SamePresence(r, Dequeue(r, p))
BY DEF SamePresence, Dequeue, Tables

LEMMA ProcessQueuePresence ==
    ASSUME NEW r \in Tables, NEW par
    PROVE  SamePresence(r, ProcessQueue(r, par))
BY DEF SamePresence, ProcessQueue, Allow, Tables

LEMMA QueueJoinPresence ==
    ASSUME NEW r \in Tables, NEW par, NEW p, NEW skips
    PROVE  SamePresence(r, QueueJoin(r, par, p, skips))
<1>1. SamePresence(r, StartGracePeriod(r, p, "SignIn")) /\ SamePresence(r, [r EXCEPT !.timer[p] = "none"])
  BY DEF SamePresence, StartGracePeriod, Tables
<1>2. SamePresence(r, AllowSignIn(r, p)) /\ SamePresence(r, Enqueue(r, p)) /\ SamePresence(r, r)
  BY AllowPresence DEF AllowSignIn, Enqueue, SamePresence, Tables
<1> QED BY <1>1, <1>2 DEF QueueJoin

LEMMA GraceEndsPresence ==
    ASSUME NEW r, TablesOK(r), NEW par \in RegionSignInParameters, NEW p \in Players
    PROVE  SamePresence(r, GraceEnds(r, par, p))
<1>1. SamePresence(r, [r EXCEPT !.timer[p] = "none"])
  BY DEF SamePresence, TablesOK, Tables
<1>2. SamePresence(r, [Dequeue(r, p) EXCEPT !.timer[p] = "none"])
  <2>1. Dequeue(r, p) \in Tables /\ SamePresence(r, Dequeue(r, p))
    BY DequeueType, DequeuePresence DEF TablesOK
  <2> QED BY <2>1 DEF SamePresence, Tables
<1>3. SamePresence(r, SignInGraceEnds(r, par, p))
  <2>1. ProcessQueue(r, par) \in Tables /\ SamePresence(r, ProcessQueue(r, par))
    BY ProcessQueueType, ProcessQueuePresence DEF TablesOK
  <2> QED BY <2>1 DEF SamePresence, SignInGraceEnds, Tables
<1> QED BY <1>1, <1>2, <1>3 DEF GraceEnds

LEMMA SignOutPresence ==
    ASSUME NEW r \in Tables, NEW players, NEW grace \in BOOLEAN
    PROVE  /\ FewerPresent(r, SignOut(r, players, grace))
           /\ SignOut(r, players, grace).signedIn \cap players \cap r.users = {}
BY DEF FewerPresent, SignOut, Tables

LEMMA DepartPresence ==
    ASSUME NEW r, TablesOK(r), NEW par, NEW p \in Players
    PROVE  LET s == Depart(r, par, p)
           IN  s.users = r.users \ {p} /\ s.signedIn \subseteq r.signedIn \ {p}
<1> DEFINE s == SignOut(r, {p}, FALSE)
           left == [s EXCEPT !.users = @ \ {p}, !.canSignIn = @ \ {p},
                             !.signedIn = @ \ {p}, !.timer[p] = "none"]
<1>1. FewerPresent(r, s) /\ TablesOK(s) /\ s \in Tables
  BY SignOutPresence, SignOutType DEF TablesOK
<1> HIDE DEF s
<1>2. left.users = s.users \ {p} /\ left.signedIn = s.signedIn \ {p}
  BY <1>1 DEF Tables
<1>3. left \in Tables
  BY <1>1 DEF Tables
<1>4. Depart(r, par, p) = ProcessQueue(left, par)
  BY DEF Depart, s
<1> HIDE DEF left
<1>5. SamePresence(left, ProcessQueue(left, par))
  BY <1>3, ProcessQueuePresence
<1> QED BY <1>1, <1>2, <1>4, <1>5 DEF SamePresence, FewerPresent

-----------------------------------------------------------------------------
(***************************************************************************)
(* Who holds a slot of the region: the players signed in, those who may    *)
(* sign in and those in a grace period are players of the region, whatever *)
(* happens there, and only an arrival adds to the players who have a       *)
(* previous region.                                                        *)
(***************************************************************************)
SlotsOfResidents(r) == r.signedIn \cup r.canSignIn \cup InGracePeriod(r) \subseteq r.users

Settled(r, s) ==
    /\ s.users = r.users
    /\ s.previous \subseteq r.previous
    /\ SlotsOfResidents(r) => SlotsOfResidents(s)

LEMMA SlotsByPlayer ==
    ASSUME NEW r \in Tables
    PROVE  SlotsOfResidents(r) <=>
             \A p \in Players : p \in r.signedIn \/ p \in r.canSignIn \/ r.timer[p] = "SignIn"
                                  => p \in r.users
BY DEF SlotsOfResidents, InGracePeriod, Tables

LEMMA TimerStopped ==
    ASSUME NEW r, TablesOK(r), NEW p \in Players, NEW t \in {"none", "QueueJoin"}
    PROVE  Settled(r, [r EXCEPT !.timer[p] = t])
BY DEF TablesOK, Tables, Settled, SlotsOfResidents, InGracePeriod

LEMMA AllowSettled ==
    ASSUME NEW r, TablesOK(r), NEW admitted \in SUBSET r.users
    PROVE  Settled(r, Allow(r, admitted))
<1>1. r \in Tables /\ Allow(r, admitted) \in Tables
  BY AllowType DEF TablesOK, Tables
<1>2. /\ Allow(r, admitted).users = r.users
      /\ Allow(r, admitted).signedIn = r.signedIn
      /\ Allow(r, admitted).canSignIn = r.canSignIn \cup admitted
      /\ Allow(r, admitted).previous = r.previous \ admitted
      /\ \A p \in Players : Allow(r, admitted).timer[p] =
            IF p \in admitted THEN "SignIn" ELSE r.timer[p]
  BY <1>1 DEF Allow, Tables
<1> QED BY <1>1, <1>2, SlotsByPlayer DEF Settled

LEMMA QueueSettled ==
    ASSUME NEW r, TablesOK(r), NEW q
    PROVE  Settled(r, [r EXCEPT !.queue = q])
BY DEF TablesOK, Tables, Settled, SlotsOfResidents, InGracePeriod

LEMMA ProcessQueueSettled ==
    ASSUME NEW r, TablesOK(r), NEW par \in RegionSignInParameters
    PROVE  Settled(r, ProcessQueue(r, par))
<1>1. CASE FreeSlots(r, par) < 1
  BY <1>1 DEF ProcessQueue, Settled
<1>2. CASE ~(FreeSlots(r, par) < 1)
  <2> DEFINE s == Allow(r, Admitted(r, par))
             rest == SubSeq(s.queue, Served(r, par) + 1, Len(s.queue))
  <2>1. Admitted(r, par) \in SUBSET r.users /\ Admitted(r, par) \in SUBSET Players
    BY DEF Admitted, TablesOK, Tables
  <2>2. TablesOK(s) /\ Settled(r, s)
    BY <2>1, AllowType, AllowSettled
  <2>3. ProcessQueue(r, par) = [s EXCEPT !.queue = rest]
    BY <1>2 DEF ProcessQueue
  <2> HIDE DEF s, rest
  <2>4. Settled(s, ProcessQueue(r, par))
    BY <2>2, <2>3, QueueSettled
  <2> QED BY <2>2, <2>4 DEF Settled
<1> QED BY <1>1, <1>2

LEMMA QueueJoinSettled ==
    ASSUME NEW r, TablesOK(r), NEW par, NEW p \in r.users, NEW skips
    PROVE  Settled(r, QueueJoin(r, par, p, skips))
<1>1. p \in Players
  BY DEF TablesOK, Tables
<1>2. Settled(r, StartGracePeriod(r, p, "SignIn"))
  BY <1>1 DEF TablesOK, Tables, Settled, SlotsOfResidents, InGracePeriod, StartGracePeriod
<1>3. Settled(r, [r EXCEPT !.timer[p] = "none"])
  BY <1>1, TimerStopped
<1>4. Settled(r, AllowSignIn(r, p))
  BY <1>1, AllowSettled DEF AllowSignIn
<1>5. Settled(r, Enqueue(r, p)) /\ Settled(r, r)
  BY QueueSettled DEF Enqueue, Settled
<1> QED BY <1>2, <1>3, <1>4, <1>5 DEF QueueJoin

LEMMA DequeueSettled ==
    ASSUME NEW r, TablesOK(r), NEW p
    PROVE  Settled(r, Dequeue(r, p))
<1>1. \A q : Settled(r, [r EXCEPT !.queue = q])
  BY QueueSettled
<1>2. Settled(r, r)
  BY DEF Settled
<1> QED BY <1>1, <1>2 DEF Dequeue

LEMMA SignedInSettled ==
    ASSUME NEW r, TablesOK(r), NEW p \in r.users
    PROVE  TablesOK(SignedIn(r, p)) /\ Settled(r, SignedIn(r, p))
<1>1. r \in Tables /\ UniqueRows(r) /\ p \in Players
  BY DEF TablesOK, Tables
<1>2. SignedIn(r, p) \in Tables /\ SignedIn(r, p).queue = r.queue
  BY <1>1 DEF SignedIn, Tables
<1>3. /\ SignedIn(r, p).users = r.users /\ SignedIn(r, p).canSignIn = r.canSignIn
      /\ SignedIn(r, p).previous = r.previous
      /\ SignedIn(r, p).signedIn = r.signedIn \cup {p}
      /\ \A q \in Players : SignedIn(r, p).timer[q] = IF q = p THEN "none" ELSE r.timer[q]
  BY <1>1 DEF SignedIn, Tables
<1> QED BY <1>1, <1>2, <1>3, SlotsByPlayer DEF Settled, TablesOK, UniqueRows

LEMMA SignOutSettled ==
    ASSUME NEW r, TablesOK(r), NEW players \in SUBSET Players, NEW grace \in BOOLEAN
    PROVE  Settled(r, SignOut(r, players, grace))
<1> DEFINE s == SignOut(r, players, grace)
           leaving == players \cap r.users \cap r.signedIn
<1>1. r \in Tables /\ s \in Tables
  BY SignOutType DEF TablesOK
<1>2. /\ s.users = r.users /\ s.previous = r.previous
      /\ s.signedIn \subseteq r.signedIn /\ s.canSignIn \subseteq r.canSignIn
      /\ \A p \in Players : p \notin leaving => s.timer[p] = r.timer[p]
  BY <1>1 DEF SignOut, Tables
<1>3. leaving \subseteq r.users
  OBVIOUS
<1> HIDE DEF s, leaving
<1> QED BY <1>1, <1>2, <1>3, SlotsByPlayer DEF Settled, s

LEMMA GraceEndsSettled ==
    ASSUME NEW r, TablesOK(r), NEW par \in RegionSignInParameters, NEW p \in Players
    PROVE  Settled(r, GraceEnds(r, par, p))
<1>1. Settled(r, [r EXCEPT !.timer[p] = "none"])
  BY TimerStopped
<1>2. Settled(r, [Dequeue(r, p) EXCEPT !.timer[p] = "none"])
  <2>1. TablesOK(Dequeue(r, p)) /\ Settled(r, Dequeue(r, p))
    BY DequeueType, DequeueSettled
  <2>2. Settled(Dequeue(r, p), [Dequeue(r, p) EXCEPT !.timer[p] = "none"])
    BY <2>1, TimerStopped
  <2> QED BY <2>1, <2>2 DEF Settled
<1>3. Settled(r, SignInGraceEnds(r, par, p))
  <2> DEFINE s == ProcessQueue(r, par)
             t == IF FreeSlots(r, par) >= 1 /\ p \in Admitted(r, par) THEN s.timer[p] ELSE "none"
             c == s.canSignIn \ {p}
             next == [s EXCEPT !.canSignIn = c, !.timer[p] = t]
  <2>1. TablesOK(s) /\ Settled(r, s) /\ s \in Tables
    BY ProcessQueueType, ProcessQueueSettled DEF TablesOK
  <2>2. SignInGraceEnds(r, par, p) = next
    BY DEF SignInGraceEnds
  <2>3. t = s.timer[p] \/ t = "none"
    OBVIOUS
  <2>4. c \subseteq s.canSignIn
    OBVIOUS
  <2> HIDE DEF s, t, c
  <2>5. Settled(s, next)
    BY <2>1, <2>3, <2>4 DEF Tables, Settled, SlotsOfResidents, InGracePeriod
  <2> QED BY <2>1, <2>2, <2>5 DEF Settled
<1> QED BY <1>1, <1>2, <1>3 DEF GraceEnds

LEMMA DepartSettled ==
    ASSUME NEW r, TablesOK(r), NEW par \in RegionSignInParameters, NEW p \in Players
    PROVE  LET s == Depart(r, par, p)
           IN  /\ s.users = r.users \ {p}
               /\ s.previous \subseteq r.previous
               /\ SlotsOfResidents(r) => SlotsOfResidents(s)
<1> DEFINE out == SignOut(r, {p}, FALSE)
           left == [out EXCEPT !.users = @ \ {p}, !.canSignIn = @ \ {p},
                               !.signedIn = @ \ {p}, !.timer[p] = "none"]
<1>1. TablesOK(out) /\ Settled(r, out) /\ out \in Tables
  BY SignOutType, SignOutSettled DEF TablesOK
<1> HIDE DEF out
<1>2. /\ left.users = out.users \ {p} /\ left.previous = out.previous
      /\ left.signedIn = out.signedIn \ {p} /\ left.canSignIn = out.canSignIn \ {p}
      /\ \A q \in Players : left.timer[q] = IF q = p THEN "none" ELSE out.timer[q]
  BY <1>1 DEF Tables
<1>3. TablesOK(left) /\ left \in Tables
  <2>1. out.users \ {p} \in SUBSET Players /\ out.canSignIn \ {p} \in SUBSET Players
        /\ out.signedIn \ {p} \in SUBSET Players
    BY <1>1 DEF Tables
  <2> QED BY <1>1, <2>1, PlayerRemoved DEF TablesOK
<1>4. Depart(r, par, p) = ProcessQueue(left, par)
  BY DEF Depart, out
<1> HIDE DEF left
<1>5. SlotsOfResidents(out) => SlotsOfResidents(left)
  BY <1>1, <1>2, <1>3, SlotsByPlayer
<1>6. Settled(left, ProcessQueue(left, par))
  BY <1>3, ProcessQueueSettled
<1> QED BY <1>1, <1>2, <1>4, <1>5, <1>6 DEF Settled

LEMMA ArriveSettled ==
    ASSUME NEW r, TablesOK(r), NEW p \in Players,
           NEW canSignIn \in BOOLEAN, NEW allowCancel \in BOOLEAN
    PROVE  LET s == Arrive(r, p, canSignIn, allowCancel)
           IN  /\ s.users = r.users \cup {p}
               /\ s.previous = IF allowCancel THEN r.previous \cup {p} ELSE r.previous
               /\ SlotsOfResidents(r) => SlotsOfResidents(s)
<1> DEFINE s == Arrive(r, p, canSignIn, allowCancel)
<1>1. r \in Tables /\ s \in Tables
  <2>1. \E par : par \in RegionSignInParameters
    <3>1. [blocked |-> FALSE, maxSignedIn |-> 0, maxQueue |-> 0] \in RegionSignInParameters
      BY DEF RegionSignInParameters
    <3> QED BY <3>1
  <2> QED BY <2>1, TransferTypes DEF TablesOK
<1>2. /\ s.users = r.users \cup {p} /\ s.signedIn = r.signedIn /\ s.timer = r.timer
      /\ s.canSignIn \subseteq r.canSignIn \cup {p}
      /\ s.previous = IF allowCancel THEN r.previous \cup {p} ELSE r.previous
  BY <1>1 DEF Arrive, Tables
<1> HIDE DEF s
<1>3. SlotsOfResidents(r) => SlotsOfResidents(s)
  BY <1>1, <1>2, SlotsByPlayer
<1> QED BY <1>2, <1>3 DEF s

=============================================================================
