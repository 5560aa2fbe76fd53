------------------------------- MODULE Combat -------------------------------
(***************************************************************************)
(* Fights of players with the enemies of a herd and with one another.  An  *)
(* attack is begun, launched and lands in three transactions, and anything *)
(* may happen between them: its attacker or its target may die, despawn,   *)
(* sign out, teleport, climb or ride an elevator.  Who fights whom is kept *)
(* in pairs of threat rows, who deserves the loot of an enemy in           *)
(* contribution rows, how strong an enemy is in a row that follows the     *)
(* number of its threat rows.                                              *)
(*                                                                         *)
(* Distances, cooldowns, stamina, weapons and the amounts of threat and    *)
(* contribution are left out: an attack may fail for a reason that is not  *)
(* modelled, and an impact may do any damage.  Deployables are left out.   *)
(***************************************************************************)
EXTENDS PlayerActions, Duels

CONSTANTS
    Enemies,
    MaxHealth,      \* of each player and enemy
    Damages,        \* damage that an impact may do
    Prized,         \* enemies for which contribution applies
    Debuffs,        \* buffs that change the health of enemies are active
    NoElevator      \* there is no elevator

\* whoever fights is a player or an enemy, and it is players who duel
ASSUME FightersAssumption == Duelists = Fighters /\ Fighters \cap Enemies = {}
ASSUME HealthAssumption == MaxHealth \in [Fighters \cup Enemies -> Nat \ {0}] /\ Damages \subseteq Nat
ASSUME PrizedAssumption == Prized \subseteq Enemies

VARIABLES
    health,         \* health_state of players and of the enemies that there are
    spawned,        \* enemies that have ever spawned
    population,     \* herd_state.current_population
    threat,         \* threat_state: <<owner, target>>
    contribution,   \* contribution_state: <<player, enemy>>
    scaling,        \* enemy_scaling_state, as the number of attackers it is for
    targets,        \* target_state
    windups,        \* attack_timer, of enemies
    impacts,        \* attack_impact_timer_migrated
    despawnTimers,  \* enemy_despawn_timer
    deathTimers,    \* player_death_timer
    justDied,       \* whose died_timestamp is less than respawn_seconds ago
    signedIn,       \* signed_in_player_state
    cargo,          \* players who carry cargo
    rider,          \* player_use_elevator_timer, of the one elevator
    withered,       \* ghost: enemies whose last health a buff has taken or given back
    haunted         \* ghost: pairs of threat rows made when one of the two was gone

fightVars == <<health, spawned, population, threat, contribution, scaling, targets, windups,
               impacts, despawnTimers, deathTimers, justDied, signedIn, cargo, rider, withered,
               haunted>>
combatVars == <<actionVars, duelVars, fightVars>>

Fighting == Fighters \cup Enemies
Alive(x) == x \in DOMAIN health /\ health[x] > 0
Living(S) == {x \in S : Alive(x)}
Present == Enemies \cap DOMAIN health      \* enemy_state
InCombat(x) == \E y \in Fighting : <<x, y>> \in threat

CombatTypeOK ==
    /\ ActionsTypeOK /\ DuelsTypeOK
    /\ Fighters \subseteq DOMAIN health /\ DOMAIN health \subseteq Fighting
    /\ \A x \in DOMAIN health : health[x] \in 0 .. MaxHealth[x]
    /\ threat \subseteq Fighting \X Fighting
    /\ contribution \subseteq Fighters \X Enemies
    /\ DOMAIN scaling = Present
    /\ DOMAIN targets \subseteq Fighting
    /\ deathTimers \subseteq Fighters /\ signedIn \subseteq Fighters /\ cargo \subseteq Fighters

CombatInit ==
    /\ ActionsInit /\ DuelsInit
    /\ health = [p \in Fighters |-> MaxHealth[p]] /\ spawned = {} /\ population = 0
    /\ threat = {} /\ contribution = {} /\ scaling = <<>> /\ targets = <<>>
    /\ windups = {} /\ impacts = {}
    /\ despawnTimers = {} /\ deathTimers = {} /\ justDied = {}
    /\ signedIn \in SUBSET Fighters /\ cargo \in SUBSET Fighters /\ rider = {}
    /\ withered = {} /\ haunted = {}

Ready(p) == p \in signedIn /\ Alive(p)

-----------------------------------------------------------------------------
(***************************************************************************)
(* ThreatState, ContributionState and EnemyScalingState.  Each of these    *)
(* says what becomes of the three tables.                                  *)
(***************************************************************************)
Owned(rows, x) == {r \in rows : r[1] = x}
Against(rows, x) == {r \in rows : r[2] = x}

\* EnemyScalingState::update, of the enemies in S
Scaled(S, rows) ==
    scaling' = [e \in Present |-> IF e \in S THEN Cardinality(Owned(rows, e)) ELSE scaling[e]]

BothWays(x, y) == IF x = y THEN {} ELSE {<<x, y>>, <<y, x>>}

\* idle_reset looks for rows of x, which are deleted after it
Reset(x) ==
    contribution' = IF x \in Present /\ ~InCombat(x)
                    THEN contribution \ Against(contribution, x) ELSE contribution

ThreatWithout(x) == threat \ (Owned(threat, x) \cup Against(threat, x))

ClearOwned(x) ==
    /\ threat' = threat \ Owned(threat, x)
    /\ Scaled({x}, threat') /\ Reset(x)
    /\ haunted' = haunted \cap threat'

ClearAll(x) ==
    /\ threat' = ThreatWithout(x)
    /\ Scaled({r[1] : r \in Against(threat, x)} \cup {x}, threat')
    /\ Reset(x)
    /\ haunted' = haunted \cap threat'

\* clear: here the rows are deleted first, but only the second deletion is about e
ClearPair(e, p) ==
    /\ threat' = threat \ BothWays(e, p)
    /\ IF <<p, e>> \in threat
       THEN /\ Scaled({e}, threat')
            /\ contribution' = IF e \in Present /\ Owned(threat', e) = {}
                               THEN contribution \ Against(contribution, e) ELSE contribution
       ELSE UNCHANGED <<scaling, contribution>>
    /\ haunted' = haunted \cap threat'

Untargeted(x) == [p \in {q \in DOMAIN targets : targets[q] # x} |-> targets[p]]

-----------------------------------------------------------------------------
(***************************************************************************)
(* update_health_and_check_death: x is left with h by attacker, if any.    *)
(***************************************************************************)
CannotDie(p) ==
    p \in Fighters /\ \E l \in Layers : action[p][l].type \in {"Climb", "UseElevator"}

Dies(x, h) == h = 0 /\ x \notin justDied /\ ~CannotDie(x)

\* the health is written unless the death is put off, and then nothing is
Hurt(x, h) ==
    health' = IF h = 0 /\ x \notin justDied /\ CannotDie(x) THEN health
              ELSE [health EXCEPT ![x] = h]

\* what a death does but to the threat rows
Slain(x, h, byAttack) ==
    LET dies == Dies(x, h) IN
    /\ Hurt(x, h)
    /\ justDied' = IF dies THEN justDied \cup {x} ELSE justDied
    /\ targets' = IF dies THEN Untargeted(x) ELSE targets
    /\ deathTimers' = IF dies THEN deathTimers \cup ({x} \cap Fighters) ELSE deathTimers
    /\ despawnTimers' = IF dies /\ byAttack THEN despawnTimers \cup ({x} \cap Enemies)
                        ELSE despawnTimers
    /\ IF dies /\ x \in Fighters THEN LosesByDeath(x) ELSE UNCHANGED duelVars

\* clear_all for a player, clear_others, which does not look at the enemies, for an enemy
ThreatAfter(x, h) ==
    IF ~Dies(x, h) THEN threat
    ELSE IF x \in Fighters THEN ThreatWithout(x) ELSE threat \ Against(threat, x)

\* and then rows are added
ThreatThen(x, h, rows) ==
    LET left == ThreatAfter(x, h)
        made == rows \ left
    IN  /\ threat' = left \cup rows
        /\ Scaled({r[1] : r \in made}
                     \cup (IF Dies(x, h) /\ x \in Fighters
                           THEN {r[1] : r \in Against(threat, x)} ELSE {}), threat')
        /\ haunted' = (haunted \cap left)
                          \cup {r \in made : ~({r[1], r[2]} \subseteq DOMAIN health)}

AddThreat(rows) ==
    /\ threat' = threat \cup rows
    /\ Scaled({r[1] : r \in rows \ threat}, threat')
    /\ haunted' = haunted \cup {r \in rows \ threat : ~({r[1], r[2]} \subseteq DOMAIN health)}

-----------------------------------------------------------------------------
(***************************************************************************)
(* attack_start, attack and attack_impact.                                 *)
(***************************************************************************)
CanAttack(a, d) ==
    \/ a \in Enemies /\ d \in Fighters
    \/ a \in Fighters /\ d \in Enemies
    \/ AreDueling(a, d)

BaseChecks(a, d) == Alive(a) /\ Alive(d) /\ CanAttack(a, d)

AttackStart(p, d) ==
    /\ Ready(p)
    /\ \E ok \in {FALSE, BaseChecks(p, d)} : StartAction(p, "Attack", d, ok)
    /\ UNCHANGED <<duelVars, fightVars>>

EnemyAttackStart(e, p) ==
    /\ BaseChecks(e, p)
    /\ windups' = windups \cup {<<e, p>>}
    /\ UNCHANGED <<actionVars, duelVars, health, spawned, population, threat, contribution, scaling,
                   targets, impacts, despawnTimers, deathTimers, justDied, signedIn, cargo, rider,
                   withered, haunted>>

Targetable(a, d) == IF a \in Fighters THEN Living(Present) \ {d} ELSE Living(signedIn) \ {d}

\* of a player all targets are attacked or none
Attack(p, d) ==
    /\ Ready(p)
    /\ \E more \in SUBSET Targetable(p, d) :
          LET layer == LayerOf("Attack")
              hit == ScheduleClear(p, layer, TRUE)
              miss == ScheduleClear(p, layer, FALSE)
          IN \/ /\ BaseChecks(p, d) /\ Validated(p, "Attack", d)
                /\ impacts' = impacts \cup {<<p, x>> : x \in more \cup {d}}
                /\ Ask(hit) /\ UNCHANGED action
             \/ /\ Refuse(IF more = {} THEN miss ELSE hit \cup miss)
                /\ UNCHANGED impacts
    /\ UNCHANGED <<duelVars, health, spawned, population, threat, contribution, scaling, targets,
                   windups, despawnTimers, deathTimers, justDied, signedIn, cargo, rider, withered,
                   haunted>>

\* attack_scheduled: an enemy attacks those that it still can
AttackScheduled ==
    \E w \in windups :
        /\ windups' = windups \ {w}
        /\ \E hit \in SUBSET ({w[2]} \cup Targetable(w[1], w[2])) :
              /\ \A x \in hit : BaseChecks(w[1], x)
              /\ impacts' = impacts \cup {<<w[1], x>> : x \in hit}
        /\ UNCHANGED <<actionVars, duelVars, health, spawned, population, threat, contribution,
                       scaling, targets, despawnTimers, deathTimers, justDied, signedIn, cargo,
                       rider, withered, haunted>>

\* no damage: it was evaded, or the attacker is gone
Outcome(a) == IF Alive(a) \/ a \in DOMAIN health THEN Damages \cup {0} ELSE {0}
Remaining(d, damage) == IF damage >= health[d] THEN 0 ELSE health[d] - damage

Contributed(a, d, damage) ==
    contribution' = IF damage > 0 /\ a \in Fighters /\ d \in Prized
                    THEN contribution \cup {<<a, d>>} ELSE contribution

Landed(a, d) ==
    \E damage \in Outcome(a) :
        LET h == Remaining(d, damage) IN
        /\ Slain(d, h, TRUE)
        /\ Contributed(a, d, damage)
        /\ ThreatThen(d, h, BothWays(a, d))

\* of a player whose weapon is no longer in hand the transaction fails
NotLanded == UNCHANGED <<health, justDied, targets, deathTimers, despawnTimers, duelVars,
                         contribution, threat, scaling, haunted>>

AttackImpact ==
    \E i \in impacts :
        /\ impacts' = impacts \ {i}
        /\ \/ Alive(i[2]) /\ Landed(i[1], i[2])
           \/ (i[1] \in Fighters \/ ~Alive(i[2])) /\ NotLanded
        /\ UNCHANGED <<actionVars, spawned, population, windups, signedIn, cargo, rider, withered>>

-----------------------------------------------------------------------------
(***************************************************************************)
(* The herd, its enemies, and the monitor that moves and despawns them.    *)
(***************************************************************************)
EnemySpawn(e) ==
    /\ e \in Enemies \ spawned
    /\ spawned' = spawned \cup {e}
    /\ population' = population + 1
    /\ health' = [x \in DOMAIN health \cup {e} |-> IF x = e THEN MaxHealth[e] ELSE health[x]]
    /\ scaling' = [x \in Present \cup {e} |-> IF x = e THEN 0 ELSE scaling[x]]
    /\ UNCHANGED <<actionVars, duelVars, threat, contribution, targets, windups, impacts,
                   despawnTimers, deathTimers, justDied, signedIn, cargo, rider, withered, haunted>>

\* whoever asks first despawns the enemy; the contributors are paid from what is left
Despawned(e) ==
    IF e \notin Present
    THEN UNCHANGED <<threat, scaling, contribution, haunted, population, health, targets,
                     justDied, withered>>
    ELSE /\ threat' = ThreatWithout(e)
         /\ scaling' = Without(scaling, e)
         /\ contribution' = contribution \ Against(contribution, e)
         /\ haunted' = haunted \cap threat'
         /\ population' = population - 1
         /\ health' = Without(health, e)
         /\ targets' = Without(targets, e)
         /\ justDied' = justDied \ {e} /\ withered' = withered \ {e}

despawnUnchanged == <<actionVars, duelVars, spawned, windups, impacts, deathTimers, signedIn, cargo,
                      rider>>

EnemyDespawn ==
    \E e \in despawnTimers :
        /\ despawnTimers' = despawnTimers \ {e}
        /\ Despawned(e)
        /\ UNCHANGED despawnUnchanged

EnemyDespawnFromMobMonitor(e) ==
    e \in spawned /\ Despawned(e) /\ UNCHANGED <<despawnTimers, despawnUnchanged>>

EnemyClearAggro(e) ==
    /\ ClearAll(e) \/ \E p \in Fighters : ClearPair(e, p)
    /\ UNCHANGED <<actionVars, duelVars, health, spawned, population, targets, windups, impacts,
                   despawnTimers, deathTimers, justDied, signedIn, cargo, rider, withered>>

\* a target that is gone is not refused
TargetUpdate(x, y, aggro) ==
    /\ x # y /\ {x, y} \subseteq spawned \cup Fighters
    /\ x \in Fighters => x \in signedIn
    /\ y \in DOMAIN health => health[y] # 0
    /\ IF aggro THEN AddThreat(BothWays(x, y)) ELSE UNCHANGED <<threat, scaling, haunted>>
    /\ targets' = [z \in DOMAIN targets \cup {x} |-> IF z = x THEN y ELSE targets[z]]
    /\ UNCHANGED <<actionVars, duelVars, health, spawned, population, contribution, windups, impacts,
                   despawnTimers, deathTimers, justDied, signedIn, cargo, rider, withered>>

TargetDropped(x) ==
    /\ x \in Fighters => x \in signedIn
    /\ targets' = Without(targets, x)
    /\ UNCHANGED <<actionVars, duelVars, health, spawned, population, threat, contribution, scaling,
                   windups, impacts, despawnTimers, deathTimers, justDied, signedIn, cargo, rider,
                   withered, haunted>>

\* regen_health: a debuff may take the last health, a buff may give some to the dead
EnemyRegen(e) ==
    /\ e \in Present
    /\ \E h \in 0 .. MaxHealth[e] :
          /\ h # health[e]
          /\ \/ Debuffs /\ h \in {health[e] - 1, health[e] + 1}
             \/ Alive(e) /\ ~InCombat(e) /\ h = health[e] + 1
          /\ health' = [health EXCEPT ![e] = h]
          /\ withered' = IF h = 0 \/ ~Alive(e) THEN withered \cup {e} ELSE withered
    /\ UNCHANGED <<actionVars, duelVars, spawned, population, threat, contribution, scaling, targets,
                   windups, impacts, despawnTimers, deathTimers, justDied, signedIn, cargo, rider,
                   haunted>>

-----------------------------------------------------------------------------
(***************************************************************************)
(* The health of players: regeneration, starving, death, respawning.       *)
(***************************************************************************)
healthUnchanged == <<actionVars, spawned, population, contribution, windups, impacts, signedIn, cargo,
                     rider, withered>>

PlayerRegen(p) ==
    /\ Ready(p)
    /\ \E h \in (0 .. MaxHealth[p]) \cap ({health[p] + 1} \cup (IF Debuffs THEN {health[p] - 1} ELSE {})) :
          Slain(p, h, FALSE) /\ ThreatThen(p, h, {})
    /\ UNCHANGED healthUnchanged

Starve(p) ==
    /\ Ready(p)
    /\ Slain(p, health[p] - 1, FALSE) /\ ThreatThen(p, health[p] - 1, {})
    /\ UNCHANGED healthUnchanged

RespawnSecondsPass(x) ==
    /\ x \in justDied
    /\ justDied' = justDied \ {x}
    /\ UNCHANGED <<actionVars, duelVars, health, spawned, population, threat, contribution, scaling,
                   targets, windups, impacts, despawnTimers, deathTimers, signedIn, cargo, rider,
                   withered, haunted>>

\* what ends every fight of p, here and in the actions below
Withdraw(p) == ClearAll(p) /\ targets' = Untargeted(p)

PlayerDeathStart ==
    \E p \in deathTimers :
        /\ deathTimers' = deathTimers \ {p}
        /\ StartAction(p, "Death", Nothing, TRUE)
        /\ Withdraw(p)
        /\ cargo' = cargo \ {p}
        /\ UNCHANGED <<duelVars, health, spawned, population, windups, impacts, despawnTimers,
                       justDied, signedIn, rider, withered>>

movedUnchanged == <<duelVars, spawned, population, windups, impacts, despawnTimers, deathTimers,
                    justDied, cargo, withered>>

\* respawned at home, where there may be a bed, or on the spot
PlayerRespawn(p) ==
    /\ p \in signedIn /\ ~Alive(p) /\ p \notin justDied
    /\ \/ /\ health' = [health EXCEPT ![p] = MaxHealth[p]]
          /\ Withdraw(p)
          /\ action' \in {Slept(action, p), action}
       \/ /\ health' = [health EXCEPT ![p] = 1]
          /\ action' = ClearedByEntityId(p)
          /\ UNCHANGED <<threat, scaling, contribution, haunted, targets>>
    /\ UNCHANGED <<actionClears, signedIn, rider, movedUnchanged>>

PlayerSignOut(p) ==
    /\ p \in signedIn
    /\ signedIn' = signedIn \ {p}
    /\ ClearAll(p) /\ targets' = Without(Untargeted(p), p)
    /\ action' = [action EXCEPT ![p] = [l \in Layers |-> [action[p][l] EXCEPT !.type = "None",
                                                                          !.result = "Cancel"]]]
    /\ UNCHANGED <<actionClears, health, rider, movedUnchanged>>

PlayerSignIn(p) ==
    /\ p \notin signedIn /\ signedIn' = signedIn \cup {p}
    /\ UNCHANGED <<actionVars, health, threat, contribution, scaling, targets, rider, haunted,
                   movedUnchanged>>

-----------------------------------------------------------------------------
(***************************************************************************)
(* Ways out of a fight: climbing, an elevator, teleports.                  *)
(***************************************************************************)
inPlace == <<duelVars, fightVars>>

ClimbStart(p) ==
    /\ p \in signedIn
    /\ \E ok \in {FALSE, Alive(p)} : StartAction(p, "Climb", Nothing, ok)
    /\ UNCHANGED inPlace

Climb(p) ==
    /\ p \in signedIn
    /\ LET ok == Alive(p) /\ Validated(p, "Climb", Nothing)
           late == ScheduleClear(p, "Base", FALSE)
       IN \/ Refuse(ScheduleClear(p, "Base", ok))
          \/ ok /\ MayBeTooQuick(p, "Climb") /\ Refuse(FailTiming(p, "Climb") \cup late)
    /\ UNCHANGED inPlace

PlayerUseElevator(p) ==
    /\ ~NoElevator
    /\ Ready(p) /\ ~Doing(p, "UseElevator") /\ rider = {}
    /\ Withdraw(p)
    /\ StartAction(p, "UseElevator", Nothing, TRUE)
    /\ rider' = {p}
    /\ UNCHANGED <<health, signedIn, movedUnchanged>>

PlayerElevatorArrive ==
    \E p \in rider, ok \in BOOLEAN :
        /\ rider' = {}
        /\ Refuse(ScheduleClear(p, "Base", ok))
        /\ UNCHANGED <<health, threat, contribution, scaling, targets, signedIn, haunted,
                       movedUnchanged>>

MayTeleport(p) == Alive(p) /\ ~InCombat(p) /\ p \notin cargo

\* only the way home asks what the player is doing
TeleportStart(p) ==
    /\ p \in signedIn
    /\ \E home \in BOOLEAN :
          LET ok == MayTeleport(p) /\ (home => action[p]["Base"].type \in {"None", "PlayerMove"})
          IN StartAction(p, "Teleport", Nothing, ok)
    /\ UNCHANGED inPlace

\* a player who wakes up in a bed is not asked to stop
Teleport(p) ==
    /\ p \in signedIn
    /\ \/ /\ MayTeleport(p) /\ Validated(p, "Teleport", Nothing)
          /\ Withdraw(p)
          /\ \/ action' = Slept(action, p) /\ UNCHANGED actionClears
             \/ Refuse(ScheduleClear(p, "Base", TRUE))
       \/ /\ ~(MayTeleport(p) /\ Validated(p, "Teleport", Nothing))
          /\ Refuse(ScheduleClear(p, "Base", FALSE))
          /\ UNCHANGED <<threat, scaling, contribution, haunted, targets>>
    /\ UNCHANGED <<health, signedIn, rider, movedUnchanged>>

ServerTeleportPlayer(p) ==
    /\ Withdraw(p)
    /\ action' \in {action} \cup (IF Alive(p) THEN {Slept(action, p)} ELSE {})
    /\ UNCHANGED <<actionClears, health, signedIn, rider, movedUnchanged>>

\* ability_custom_activate: its damage kills without a death, its threat is one-sided
AbilityCustomStart(p, e) ==
    /\ p \in signedIn
    /\ \E ok \in {FALSE, (e \in Present)} : StartAction(p, "AbilityCustom", e, ok)
    /\ UNCHANGED inPlace

AbilityCustom(p, e) ==
    /\ p \in signedIn /\ e \in Present /\ Validated(p, "AbilityCustom", e)
    /\ \/ /\ health' = [health EXCEPT ![e] = Remaining(e, 1)]
          /\ withered' = IF Alive(e) /\ health'[e] = 0 THEN withered \cup {e} ELSE withered
          /\ AddThreat({<<p, e>>})
          /\ UNCHANGED actionVars
       \/ /\ MayBeTooQuick(p, "AbilityCustom") /\ Refuse(FailTiming(p, "AbilityCustom"))
          /\ UNCHANGED <<health, withered, threat, scaling, haunted>>
    /\ UNCHANGED <<duelVars, spawned, population, contribution, targets, windups, impacts,
                   despawnTimers, deathTimers, justDied, signedIn, cargo, rider>>

\* the reducer of a player who asks for it
Sleep(p) ==
    /\ Ready(p)
    /\ action' = Slept(action, p)
    /\ UNCHANGED <<actionClears, inPlace>>

-----------------------------------------------------------------------------
(***************************************************************************)
(* Three views of it: a hunt, the ways out of it, and duels.               *)
(***************************************************************************)
Fight(P, D) ==
    \/ \E p \in P, d \in D : AttackStart(p, d) \/ Attack(p, d)
    \/ AttackImpact
    \/ PlayerDeathStart
    \/ \E x \in Fighting : RespawnSecondsPass(x)
    \/ PlayerClearActionState /\ UNCHANGED inPlace

ComeAndGo(P) == \E p \in P : PlayerRespawn(p) \/ PlayerSignOut(p) \/ PlayerSignIn(p)

Herd(P) ==
    \/ \E e \in Enemies :
          \/ EnemySpawn(e) \/ EnemyDespawnFromMobMonitor(e) \/ EnemyClearAggro(e)
          \/ \E p \in P : EnemyAttackStart(e, p)
    \/ AttackScheduled
    \/ EnemyDespawn

Recover(P) ==
    \/ \E e \in Enemies : EnemyRegen(e)
    \/ \E p \in P : PlayerRegen(p) \/ Starve(p)

Aim(P) ==
    \E p \in P :
        \/ TargetDropped(p)
        \/ \E e \in Enemies : TargetUpdate(p, e, FALSE) \/ TargetUpdate(e, p, TRUE)

Escape(P) ==
    \/ \E p \in P :
          \/ ClimbStart(p) \/ Climb(p) \/ PlayerUseElevator(p) \/ TeleportStart(p) \/ Teleport(p)
          \/ ServerTeleportPlayer(p) \/ Sleep(p)
    \/ PlayerElevatorArrive

Gesture(P) ==
    \E p \in P \cap signedIn :
        /\ \/ EmoteStart(p, Alive(p)) \/ Emote(p, Alive(p)) \/ PlayerActionCancel(p)
           \/ ResetMobileEntityPosition(p) \/ (Alive(p) /\ PlayerMove(p))
        /\ UNCHANGED inPlace

Cast(P) == \E p \in P, e \in Enemies : AbilityCustomStart(p, e) \/ AbilityCustom(p, e)

Challenge ==
    /\ \/ \E p, q \in signedIn : PlayerDuelInitiate(p, q)
       \/ \E v \in DOMAIN votes : PlayerVoteConclude(v) \/ \E p \in signedIn : PlayerVoteAnswer(p, v)
       \/ DuelDespawn
       \/ DuelAgentTimerLoop({p \in Fighters : ~Ready(p)})
    /\ UNCHANGED <<actionVars, fightVars>>

-----------------------------------------------------------------------------
(***************************************************************************)
(* Whatever is left half done of a fight: the herd counts the enemies that *)
(* there are, an enemy at war with a player is one that the player is at   *)
(* war with, unless it is dying, nobody is at war with somebody who was    *)
(* gone before, nobody aims at the dead, an enemy is as strong as its      *)
(* attackers are many, one that was slain despawns, and so does a duel     *)
(* that is decided; a player in an elevator arrives (threat_state.rs,      *)
(* health_helpers.rs, enemy_despawn.rs, duel_state.rs).                    *)
(***************************************************************************)
HerdIsCounted == population = Cardinality(Present)

HuntedIsInCombat ==
    \A p \in Fighters, e \in Present \ despawnTimers :
        <<e, p>> \in threat => <<p, e>> \in threat

GoneIsForgotten == \A r \in threat \ haunted : {r[1], r[2]} \subseteq DOMAIN health
ContributionHasEnemy == \A r \in contribution : r[2] \in Present

TargetsLive ==
    \A p \in DOMAIN targets :
        targets[p] \in DOMAIN health => Alive(targets[p]) \/ targets[p] \in withered

ScalingFollowsThreat ==
    \A e \in Present \ despawnTimers : scaling[e] = Cardinality(Owned(threat, e))

SlainDespawn == \A e \in Present \ withered : health[e] = 0 => e \in despawnTimers

ElevatorLetsGo ==
    \A p \in Fighters :
        Doing(p, "UseElevator") => p \in rider \/ \E c \in actionClears : c.player = p

CombatInOrder ==
    /\ CombatTypeOK
    /\ HerdIsCounted /\ HuntedIsInCombat /\ GoneIsForgotten /\ ContributionHasEnemy /\ TargetsLive
    /\ ScalingFollowsThreat /\ SlainDespawn /\ DuelsEnd /\ ElevatorLetsGo

(***************************************************************************)
(* "Contribution resets as soon as the target is out of combat"            *)
(* (contribution_state.rs, idle_reset).                                    *)
(***************************************************************************)
ContributionEndsWithCombat == \A r \in contribution : InCombat(r[2])

=============================================================================
