------------------------------- MODULE Duels -------------------------------
(***************************************************************************)
(* Duels.  A player asks another one, who answers a query; the duel then   *)
(* lasts until an agent, or a death, finds a loser, and a timer removes    *)
(* the row.  The query is removed by a timer of its own.                   *)
(***************************************************************************)
EXTENDS Integers, FiniteSets, Rows

CONSTANTS
    Duelists,
    MaxDuels    \* bound: queries and duels that are ever made

ASSUME DuelsAssumption == MaxDuels \in Nat

VARIABLES
    votes,       \* player_vote_state of duels
    duels,       \* duel_state
    duelTimers,  \* duel_despawn_timer
    lastDuel     \* number of the last query or duel

duelVars == <<votes, duels, duelTimers, lastDuel>>

NoVictor == "none"
DuelIds == 1 .. MaxDuels

DuelsTypeOK ==
    /\ DOMAIN votes \subseteq DuelIds /\ DOMAIN duels \subseteq DuelIds
    /\ \A v \in DOMAIN votes : votes[v] \in [initiator : Duelists, acceptor : Duelists, over : BOOLEAN]
    /\ \A d \in DOMAIN duels : duels[d].victor \in Duelists \cup {NoVictor}
    /\ duelTimers \subseteq DuelIds /\ lastDuel \in 0 .. MaxDuels

DuelsInit == votes = <<>> /\ duels = <<>> /\ duelTimers = {} /\ lastDuel = 0

-----------------------------------------------------------------------------
(***************************************************************************)
(* DuelState.  A player may be the initiator of one duel and the acceptor  *)
(* of another; the first is the one that is looked at.                     *)
(***************************************************************************)
InitiatorOf(p) == {d \in DOMAIN duels : duels[d].initiator = p}
AcceptorOf(p) == {d \in DOMAIN duels : duels[d].acceptor = p}
DuelsOf(p) == IF InitiatorOf(p) # {} THEN InitiatorOf(p) ELSE AcceptorOf(p)

Duelling(p) == InitiatorOf(p) \cup AcceptorOf(p) # {}
AreDueling(p, q) == \E d \in DuelsOf(p) : q \in {duels[d].initiator, duels[d].acceptor}

Opponent(d, p) == IF duels[d].initiator = p THEN duels[d].acceptor ELSE duels[d].initiator

\* set_loser, for every duel of lost whose loser is loserOf[d]
SetLosers(loserOf) ==
    /\ duels' = [d \in DOMAIN duels |->
                    IF d \in DOMAIN loserOf
                    THEN [duels[d] EXCEPT !.victor = Opponent(d, loserOf[d])] ELSE duels[d]]
    /\ duelTimers' = duelTimers \cup DOMAIN loserOf

LosesByDeath(p) == SetLosers([d \in DuelsOf(p) |-> p]) /\ UNCHANGED <<votes, lastDuel>>

Duel(p, q) == [initiator |-> p, acceptor |-> q, victor |-> NoVictor]

\* initiate: the unique columns refuse it, and that is ignored
Initiated(p, q) ==
    IF InitiatorOf(p) = {} /\ AcceptorOf(q) = {}
    THEN duels' = [d \in DOMAIN duels \cup {lastDuel + 1} |->
                       IF d \in DOMAIN duels THEN duels[d] ELSE Duel(p, q)]
         /\ lastDuel' = lastDuel + 1
    ELSE UNCHANGED <<duels, lastDuel>>

-----------------------------------------------------------------------------
PlayerDuelInitiate(p, q) ==
    /\ p # q /\ lastDuel < MaxDuels
    /\ ~Duelling(p) /\ ~Duelling(q)
    /\ lastDuel' = lastDuel + 1
    /\ votes' = [v \in DOMAIN votes \cup {lastDuel + 1} |->
                    IF v \in DOMAIN votes THEN votes[v]
                    ELSE [initiator |-> p, acceptor |-> q, over |-> FALSE]]
    /\ UNCHANGED <<duels, duelTimers>>

\* a Yes of the initiator changes nothing; any No ends the query
PlayerVoteAnswer(p, v) ==
    /\ ~votes[v].over
    /\ votes' = [votes EXCEPT ![v].over = TRUE]
    /\ \/ /\ p = votes[v].acceptor /\ lastDuel < MaxDuels
          /\ Initiated(votes[v].initiator, votes[v].acceptor)
       \/ p \in {votes[v].initiator, votes[v].acceptor} /\ UNCHANGED <<duels, lastDuel>>
    /\ UNCHANGED duelTimers

\* the timer of 30 seconds, or the one of a second after the answer
PlayerVoteConclude(v) == votes' = Without(votes, v) /\ UNCHANGED <<duels, duelTimers, lastDuel>>

DuelDespawn ==
    \E d \in duelTimers :
        /\ duelTimers' = duelTimers \ {d}
        /\ duels' = Without(duels, d)
        /\ UNCHANGED <<votes, lastDuel>>

(***************************************************************************)
(* The agent looks at every duel, decided or not: the first of its two     *)
(* players who is gone, dead or has been too far away for too long loses.  *)
(***************************************************************************)
DuelAgentTimerLoop(unfit) ==
    \E loserOf \in [DOMAIN duels -> Duelists \cup {NoVictor}] :
        LET lost == {d \in DOMAIN duels : loserOf[d] # NoVictor} IN
        /\ \A d \in DOMAIN duels :
              /\ loserOf[d] \in {duels[d].initiator, duels[d].acceptor, NoVictor}
              /\ duels[d].initiator \in unfit => loserOf[d] = duels[d].initiator
              /\ duels[d].acceptor \in unfit => d \in lost
        /\ SetLosers([d \in lost |-> loserOf[d]])
        /\ UNCHANGED <<votes, lastDuel>>

-----------------------------------------------------------------------------
(***************************************************************************)
(* A duel that is decided is removed: whoever has won it, by whichever of  *)
(* the ways to lose, its timer is running (set_loser).                     *)
(***************************************************************************)
DuelsEnd == \A d \in DOMAIN duels : duels[d].victor # NoVictor => d \in duelTimers

=============================================================================
