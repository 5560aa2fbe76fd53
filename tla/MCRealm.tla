------------------------------- MODULE MCRealm -------------------------------
(***************************************************************************)
(* What regions and the global module do together, one scene at a time:    *)
(* what one module's transactions leave in its outbox; two empires that    *)
(* expand, or are at war, on a strip of three chunks; the life of an       *)
(* empire without towers; a submission in the middle of a siege; and a     *)
(* foundry.                                                                *)
(***************************************************************************)
EXTENDS SharedTransaction, Empires

CONSTANTS
    Scenes,                                    \* of the scenes, those that are looked at
    e1, e2, t1, t2, t3, b1, b2, p1, p2, f1     \* the empires, and what they are made of

VARIABLE scene

realmVars == <<scene, stVars, empireVars>>

\* a table is like another
TablesAreAlike == Permutations(Tables)

TheChunks == {<<0, 0>>, <<1, 0>>, <<2, 0>>}
TheSites == (t1 :> <<0, 0>>) @@ (t2 :> <<2, 0>>) @@ (t3 :> <<0, 0>>)
ThePlaces == (b1 :> <<0, 0>>) @@ (b2 :> <<2, 0>>)
Supplies == 2
TheLimits == [n \in 0 .. 3 |-> IF n = 0 THEN 0 ELSE 1]

Capitals == (e1 :> <<0, 0>>) @@ (e2 :> <<2, 0>>)
Settlers == [e \in Empires |-> {Capitals[e]}]
Neighbours == Created(Created(Wilderness(Settlers, Capitals), e1, t1, Site[t1]), e2, t2, Site[t2])

(***************************************************************************)
(* The court opens before any empire is founded; elsewhere there are two.  *)
(***************************************************************************)
Founded(b) == [capital |-> b, treasury |-> 1, threshold |-> 1, claims |-> 1]

Court ==
    IF scene = "court"
    THEN empires = << >> /\ ranks = << >> /\ alignment = [b \in Buildings |-> NoEmpire]
    ELSE /\ empires = (e1 :> Founded(b1)) @@ (e2 :> Founded(b2))
         /\ ranks = (p1 :> NewMember(e1, Emperor)) @@ (p2 :> NewMember(e2, Emperor))
         /\ alignment = (b1 :> e1) @@ (b2 :> e2)

Init ==
    /\ scene \in Scenes
    /\ STInit
    /\ calls = <<>>
    /\ front = IF scene \in {"expansion", "war", "submission"} THEN Neighbours
               ELSE Wilderness([e \in Empires |-> {}], Capitals)
    /\ capsules = [e \in Empires |-> 1]
    /\ Court
    /\ promoters = [e \in Empires |-> {Emperor}]
    /\ owners = (b1 :> p1) @@ (b2 :> IF scene = "submission" THEN p1 ELSE p2)
    /\ purses = [p \in Players |-> 1]
    /\ votes = {}
    /\ foundries = << >>
    /\ craftTimers = [f \in Foundries |-> 0]
    /\ supplies = Supplies
    /\ requests = <<>>

SharedScene == scene = "shared" /\ STNext /\ UNCHANGED empireVars
TowersScene ==
    /\ \/ scene = "expansion" /\ ExpansionNext
       \/ scene = "war" /\ SiegeNext
    /\ UNCHANGED <<courtVars, foundryVars, stVars>>
CourtScene == scene = "court" /\ CourtNext /\ UNCHANGED stVars
SubmissionScene == scene = "submission" /\ SubmissionNext /\ UNCHANGED stVars
FoundryScene ==
    /\ scene = "foundry"
    /\ \/ FoundryNext
       \/ \E p \in Players : EmpireDismantle(p)
       \/ \E p \in Players, b \in Buildings : MoveCapital(p, b)
    /\ UNCHANGED stVars

Next ==
    (SharedScene \/ TowersScene \/ CourtScene \/ SubmissionScene \/ FoundryScene) /\ UNCHANGED scene

Spec == Init /\ [][Next]_realmVars

-----------------------------------------------------------------------------

(***************************************************************************)
(* However towers are built, besieged, starved, converted and deleted, and *)
(* whatever is unmarked or merged in between: stamps are those of towers,  *)
(* an attack meets a defence, and, while no empire ends, crowns are worth  *)
(* what their wearers hold.                                                *)
(***************************************************************************)
TowersInOrder ==
    /\ TowersTypeOK
    /\ NoGhostInfluence /\ OneTowerPerChunk /\ SilentIsEmpty /\ AttackMeetsDefence
    /\ scene \in {"expansion", "war"} => CrownFitsTerritory /\ OwnTowersUnmarked

(***************************************************************************)
(* Through founding, promotion, submission and the loss of its capital, an *)
(* empire has one emperor and what it owns goes when it goes; a foundry    *)
(* with work has one timer, and no capsule is made of nothing.             *)
(***************************************************************************)
EmpireInOrder ==
    /\ EmpireTypeOK /\ OneEmperor /\ NoneOfGoneEmpires /\ CapitalIsAligned /\ NoblesAreNoble
    /\ FoundryWorks
    /\ scene = "foundry" => Hexite <= Supplies + Cardinality(Empires)

=============================================================================
