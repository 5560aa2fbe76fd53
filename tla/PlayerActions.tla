--------------------------- MODULE PlayerActions ---------------------------
(***************************************************************************)
(* What a player is doing, on each of two layers.  A start reducer writes  *)
(* the action, a second reducer finishes it, and nearly every reducer that *)
(* ends or refuses an action asks for player_clear_action_state: such a    *)
(* call survives a transaction that is rolled back and arrives later, in   *)
(* no order that the code relies on, whatever the player does by then.     *)
(***************************************************************************)
EXTENDS Integers, FiniteSets

CONSTANTS
    Fighters,
    UpperBody,    \* action types of the upper layer
    Compatible,   \* base actions during which those are allowed
    MaxClears     \* bound: calls of player_clear_action_state under way

ASSUME LayersAssumption == "UseElevator" \notin UpperBody

VARIABLES
    action,        \* player_action_state, by player and layer
    actionClears   \* calls of player_clear_action_state that are under way

actionVars == <<action, actionClears>>

ActionTypes ==
    {"None", "PlayerMove", "Attack", "AbilityCustom", "Climb", "UseElevator", "Teleport", "Sleep",
     "StationaryEmote", "Death"}
Layers == {"Base", "UpperBody"}
LayerOf(type) == IF type \in UpperBody THEN "UpperBody" ELSE "Base"

Row(type, result, target) == [type |-> type, result |-> result, target |-> target]
Nothing == "nothing"

ActionsTypeOK ==
    /\ \A p \in Fighters, l \in Layers : action[p][l].type \in ActionTypes
    /\ \A c \in actionClears :
        c.player \in Fighters /\ c.layer \in Layers /\ c.type \in ActionTypes

ActionsInit ==
    /\ action = [p \in Fighters |-> [l \in Layers |-> Row("None", "None", Nothing)]]
    /\ actionClears = {}

Doing(p, type) == action[p][LayerOf(type)].type = type

-----------------------------------------------------------------------------
(***************************************************************************)
(* player_action_helpers.                                                  *)
(***************************************************************************)
Clear(p, type, layer, result) ==
    [player |-> p, type |-> type, layer |-> layer, result |-> result]

FailAction(p, layer) == {Clear(p, "None", layer, "Fail")}
FailTiming(p, type) == {Clear(p, type, LayerOf(type), "TimingFail")}
ScheduleClear(p, layer, ok) == {Clear(p, "None", layer, IF ok THEN "Success" ELSE "Fail")}

Ask(clears) ==
    /\ Cardinality(actionClears \cup clears) <= MaxClears
    /\ actionClears' = actionClears \cup clears

\* the reducer is rolled back, the call it has asked for is not
Refuse(clears) == Ask(clears) /\ UNCHANGED action

Success(actions, p, type, target) ==
    [actions EXCEPT ![p][LayerOf(type)] = Row(type, "Success", target)]

BlockedByBase(p, type) ==
    /\ type \in UpperBody
    /\ action[p]["Base"].type \notin Compatible \cup {"None"}
    /\ action[p]["Base"].result = "Success"

\* a base action ends an action of the upper layer that it is not compatible with
Interrupting(p, type) ==
    IF type \notin UpperBody \cup Compatible /\ action[p]["UpperBody"].type # "None"
    THEN [action EXCEPT ![p]["UpperBody"].type = "None", ![p]["UpperBody"].result = "Cancel"]
    ELSE action

StartAction(p, type, target, ok) ==
    IF ok /\ ~BlockedByBase(p, type)
    THEN action' = Success(Interrupting(p, type), p, type, target) /\ UNCHANGED actionClears
    ELSE Refuse(FailAction(p, LayerOf(type)))

(***************************************************************************)
(* validate_action_timing: an action that failed or was cancelled is not   *)
(* timed; the client's timestamp decides, within limits, about the others. *)
(***************************************************************************)
Validated(p, type, target) ==
    action[p][LayerOf(type)].type = type /\ action[p][LayerOf(type)].target = target

MayBeTooQuick(p, type) == action[p][LayerOf(type)].result \notin {"Fail", "Cancel"}

-----------------------------------------------------------------------------
(***************************************************************************)
(* player_clear_action_state, whenever it arrives.                         *)
(***************************************************************************)
PlayerClearActionState ==
    \E c \in actionClears :
        /\ actionClears' = actionClears \ {c}
        /\ action' = [action EXCEPT ![c.player][c.layer].type = c.type,
                                    ![c.player][c.layer].result = c.result]

ClearedByEntityId(p) ==
    [action EXCEPT ![p] = [l \in Layers |-> Row("None", "Fail", Nothing)]]

\* reset_mobile_entity_position, after a move that was not valid
ResetMobileEntityPosition(p) == action' = ClearedByEntityId(p) /\ UNCHANGED actionClears

PlayerActionCancel(p) ==
    /\ action[p]["Base"].type \notin {"Climb", "UseElevator", "None"}
    /\ action' = [action EXCEPT ![p]["Base"].result = "Cancel"]
    /\ UNCHANGED actionClears

PlayerMove(p) ==
    /\ \E type \in {"PlayerMove", "None"} :
        action' = [action EXCEPT ![p]["Base"] = Row(type, "Success", Nothing)]
    /\ UNCHANGED actionClears

EmoteAllowed(p, alive) == alive /\ ~Doing(p, "Climb")

EmoteStart(p, alive) ==
    \E ok \in {FALSE, EmoteAllowed(p, alive)} : StartAction(p, "StationaryEmote", Nothing, ok)

Emote(p, alive) ==
    LET ok == EmoteAllowed(p, alive) /\ Validated(p, "StationaryEmote", Nothing) IN
    Refuse(ScheduleClear(p, LayerOf("StationaryEmote"), ok))

\* sleep::reduce, where there is a bed
Slept(actions, p) == Success(actions, p, "Sleep", Nothing)

=============================================================================
