------------------------------ MODULE MCRegion ------------------------------
(***************************************************************************)
(* A region, one scene at a time: its queue with everything that may       *)
(* happen to it, its messages to the global module with several under way, *)
(* and the fights of its players: one player and an enemy, with regrowing  *)
(* health, with ways out of the fight, with an ability, with other things  *)
(* done meanwhile; two players and an enemy; two players and their duel.   *)
(***************************************************************************)
EXTENDS PlayerQueue, InterModule, Combat

CONSTANT Scenes

ASSUME HeroAssumption == Fighters # {}

VARIABLE scene

regionVars == <<scene, queueVars, imVars, combatVars>>

OneSlot == [blocked |-> FALSE, maxSignedIn |-> 1, maxQueue |-> 2]
AnyParameters ==
    {OneSlot, [OneSlot EXCEPT !.maxSignedIn = 2], [OneSlot EXCEPT !.maxQueue = 1],
     [OneSlot EXCEPT !.blocked = TRUE]}

Healths == [x \in Fighting |-> IF x \in Enemies THEN 2 ELSE 1]

Hero == CHOOSE p \in Fighters : TRUE
FightsAlone == {"hunt", "escape", "cast", "gesture"}

Init ==
    /\ scene \in Scenes
    /\ QInit /\ IMInit /\ CombatInit
    /\ scene # "queue" => parameters = OneSlot
    /\ cargo \subseteq IF scene = "escape" THEN {Hero} ELSE {}
    /\ signedIn = IF scene \in FightsAlone THEN {Hero} ELSE Fighters

QueueScene == scene = "queue" /\ QNext /\ UNCHANGED <<imVars, combatVars>>
MessagesScene == scene = "messages" /\ IMNext /\ UNCHANGED <<queueVars, combatVars>>

HeroFights == Fight({Hero}, Enemies) \/ Herd({Hero})

FightScene ==
    /\ \/ scene = "hunt" /\ (HeroFights \/ Recover({Hero}) \/ Aim({Hero}))
       \/ scene = "escape" /\ (HeroFights \/ PlayerRespawn(Hero) \/ Escape({Hero}))
       \/ scene = "cast" /\ (HeroFights \/ Cast({Hero}))
       \/ scene = "gesture" /\ (HeroFights \/ ComeAndGo({Hero}) \/ Gesture({Hero}))
       \/ scene = "pair" /\ (Fight({Hero}, Enemies) \/ Herd(Fighters) \/ PlayerSignOut(Hero))
       \/ scene = "duel" /\ (Fight({Hero}, Fighters) \/ Challenge \/ PlayerSignOut(Hero))
    /\ UNCHANGED <<queueVars, imVars>>

Next == (QueueScene \/ MessagesScene \/ FightScene) /\ UNCHANGED scene

Spec == Init /\ [][Next]_regionVars

=============================================================================
