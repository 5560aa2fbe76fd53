---------------------------- MODULE InterModule ----------------------------
(***************************************************************************)
(* The protocol that carries messages between the modules of a world: the  *)
(* outbox table inter_module_message_v4, the external relay that forwards  *)
(* its rows, process_inter_module_message on the destination with its      *)
(* per-sender counter and its table of errors, and                         *)
(* on_inter_module_message_processed back on the sender.                   *)
(*                                                                         *)
(* Every reducer is one transaction: it commits as a whole, or, when it    *)
(* returns Err or panics, changes nothing.  What a message asks for is     *)
(* left open here ("contents"); whether its handler succeeds is a          *)
(* nondeterministic choice.  PlayerTransfer gives the handlers a meaning.  *)
(***************************************************************************)
EXTENDS Destinations, FiniteSets

CONSTANTS
    Contents,           \* what a message can ask for
    Senders,            \* the modules whose messages are followed
    Window,             \* rows per destination the relay forwards before the first is resolved
    OrphansRun,         \* TRUE: calls the relay submitted before it restarted still run
    StickyFailures,     \* TRUE: a message whose handler failed once fails again
    MaxMessages,        \* bound: outbox ids per sender
    MaxRelayRestarts,   \* bound: restarts of the relay
    MaxModuleRestarts,  \* bound: restarts of modules
    MaxPanics           \* bound: panics of the sender's handlers for a result

ASSUME SendersAssumption == Senders \subseteq Modules
ASSUME WindowAssumption == Window \in Nat \ {0}
ASSUME FlagsAssumption == OrphansRun \in BOOLEAN /\ StickyFailures \in BOOLEAN
ASSUME BoundsAssumption ==
    /\ MaxMessages \in Nat
    /\ MaxRelayRestarts \in Nat
    /\ MaxModuleRestarts \in Nat
    /\ MaxPanics \in Nat

VARIABLES
    outbox,          \* outbox[s]: rows of inter_module_message_v4 of module s
    addressee,       \* addressee[s][id]: the module to which message id of s was addressed
    counter,         \* counter[d][s]: last_processed_message_id at d for sender s, 0 if no row
    errors,          \* errors[d]: rows of inter_module_message_errors at d
    saves,           \* saves[d]: scheduled, volatile calls of save_inter_module_message_error
    calls,           \* calls[s][d]: submitted calls of process_inter_module_message
    results,         \* outcomes of those calls that the relay has not passed on yet
    responses,       \* responses[s]: submitted calls of on_inter_module_message_processed
    forwarded,       \* forwarded[s]: ids the relay has forwarded and not seen resolved
    failed,          \* ghost: messages whose handler has failed at least once
    applied,         \* ghost: applied[d]: messages whose effect was committed at d, in order
    resolved,        \* ghost: resolved[s]: what s was told about its messages
    relayRestarts, moduleRestarts, panics

outboxVars == <<outbox, addressee>>
destinationVars == <<counter, errors, saves, failed, applied>>
relayVars == <<results, forwarded>>
boundVars == <<relayRestarts, moduleRestarts, panics>>
imVars == <<outboxVars, destinationVars, relayVars, boundVars, calls, responses, resolved>>

-----------------------------------------------------------------------------

Results == {"Ok", "Err"}
Ids == 1 .. MaxMessages
InterModuleMessage == [id : Ids, to : Modules, contents : Contents]
Call == [id : Ids, contents : Contents, live : BOOLEAN]
Message == [sender : Modules, id : Ids]
Response == [id : Ids, result : Results, live : BOOLEAN]

IMTypeOK ==
    /\ outbox \in [Modules -> SUBSET InterModuleMessage]
    /\ addressee \in [Modules -> Seq(Modules)]
    /\ \A s \in Modules : Len(addressee[s]) <= MaxMessages
    /\ counter \in [Modules -> [Modules -> 0 .. MaxMessages]]
    /\ errors \in [Modules -> SUBSET Message]
    /\ saves \in [Modules -> SUBSET Message]
    /\ calls \in [Modules -> [Modules -> Seq(Call)]]
    /\ results \subseteq [sender : Modules, id : Ids, result : Results]
    /\ responses \in [Modules -> Seq(Response)]
    /\ forwarded \in [Modules -> SUBSET Ids]
    /\ failed \subseteq Message
    /\ applied \in [Modules -> Seq(Message)]
    /\ resolved \in [Modules -> SUBSET [id : Ids, result : Results]]
    /\ relayRestarts \in 0 .. MaxRelayRestarts
    /\ moduleRestarts \in 0 .. MaxModuleRestarts
    /\ panics \in 0 .. MaxPanics

IMInit ==
    /\ outbox = [s \in Modules |-> {}]
    /\ addressee = [s \in Modules |-> <<>>]
    /\ counter = [d \in Modules |-> [s \in Modules |-> 0]]
    /\ errors = [d \in Modules |-> {}]
    /\ saves = [d \in Modules |-> {}]
    /\ calls = [s \in Modules |-> [d \in Modules |-> <<>>]]
    /\ results = {}
    /\ responses = [s \in Modules |-> <<>>]
    /\ forwarded = [s \in Modules |-> {}]
    /\ failed = {}
    /\ applied = [d \in Modules |-> <<>>]
    /\ resolved = [s \in Modules |-> {}]
    /\ relayRestarts = 0
    /\ moduleRestarts = 0
    /\ panics = 0

-----------------------------------------------------------------------------
(***************************************************************************)
(* The sender.                                                             *)
(***************************************************************************)

(***************************************************************************)
(* The outbox rows one transaction of s inserts, as a sequence of          *)
(* [to, contents] in insertion order; auto_inc numbers them on from the    *)
(* last id it gave out.  "kept" are the rows the transaction leaves in the *)
(* table.                                                                  *)
(***************************************************************************)
LastId(s) == Len(addressee[s])

Copies(s, dst, c) ==
    [i \in DOMAIN Recipients(s, dst) |-> [to |-> Recipients(s, dst)[i], contents |-> c]]

\* mutant of Numbered: a transaction's first row gets the id given out last
NumberedFromLast(s, rows) ==
    {[id |-> LastId(s) + i - 1, to |-> rows[i].to, contents |-> rows[i].contents] :
        i \in DOMAIN rows}
Numbered(s, rows) ==
    {[id |-> LastId(s) + i, to |-> rows[i].to, contents |-> rows[i].contents] :
        i \in DOMAIN rows}

Post(s, kept, rows) ==
    /\ LastId(s) + Len(rows) <= MaxMessages
    /\ outbox' = [outbox EXCEPT ![s] = kept \cup Numbered(s, rows)]
    /\ addressee' = [addressee EXCEPT ![s] = @ \o [i \in DOMAIN rows |-> rows[i].to]]

(***************************************************************************)
(* A reducer of s that commits and sends one message.                      *)
(***************************************************************************)
Send(s, dst, c) ==
    /\ CanSend(s, dst)
    /\ Post(s, outbox[s], Copies(s, dst, c))
    /\ UNCHANGED <<destinationVars, relayVars, boundVars, calls, responses, resolved>>

-----------------------------------------------------------------------------
(***************************************************************************)
(* The relay, which is not part of the repository.  It sees the public     *)
(* outbox tables, forwards each destination's rows by ascending id, holds  *)
(* at most Window unresolved rows per destination, and passes the outcome  *)
(* of every call back to the sender.                                       *)
(***************************************************************************)

Backlog(s, d) == {m \in outbox[s] : m.to = d /\ m.id \notin forwarded[s]}
Unresolved(s, d) == {m \in outbox[s] : m.to = d /\ m.id \in forwarded[s]}

RelayForward(s, d) ==
    /\ Cardinality(Unresolved(s, d)) < Window
    /\ \E m \in Backlog(s, d) :
        /\ \A other \in Backlog(s, d) : m.id <= other.id
        /\ calls' = [calls EXCEPT ![s][d] =
                        Append(@, [id |-> m.id, contents |-> m.contents, live |-> TRUE])]
        /\ forwarded' = [forwarded EXCEPT ![s] = @ \cup {m.id}]
    /\ UNCHANGED <<outboxVars, destinationVars, boundVars, results, responses, resolved>>

RelayRespond ==
    /\ \E r \in results :
        /\ responses' = [responses EXCEPT ![r.sender] =
                            Append(@, [id |-> r.id, result |-> r.result, live |-> TRUE])]
        /\ results' = results \ {r}
    /\ UNCHANGED <<outboxVars, destinationVars, boundVars, calls, forwarded, resolved>>

-----------------------------------------------------------------------------
(***************************************************************************)
(* The destination.  Calls of one sender run in the order they were        *)
(* submitted.  The outcome reaches the relay if it still runs the session  *)
(* that submitted the call.                                                *)
(***************************************************************************)

NextCall(s, d) == Head(calls[s][d])
NextMessage(s, d) == [sender |-> s, id |-> NextCall(s, d).id]

Answer(s, d, r) ==
    /\ calls' = [calls EXCEPT ![s][d] = Tail(@)]
    /\ results' = IF NextCall(s, d).live
                  THEN results \cup {[sender |-> s, id |-> NextCall(s, d).id, result |-> r]}
                  ELSE results

IsNewOrLast(s, d) == counter[d][s] <= NextCall(s, d).id \* mutant of IsNew
IsNew(s, d) == counter[d][s] < NextCall(s, d).id

(***************************************************************************)
(* The counter says that the message was processed: the stored error is    *)
(* returned if there is one for this message, and Ok if there is none.     *)
(***************************************************************************)
AnyErrorOfSender(s, d) == \E row \in errors[d] : row.sender = s \* mutant of StoredError
StoredError(s, d) == NextMessage(s, d) \in errors[d]

ProcessDuplicate(s, d) ==
    /\ calls[s][d] # <<>> /\ ~IsNew(s, d)
    /\ Answer(s, d, IF StoredError(s, d) THEN "Err" ELSE "Ok")
    /\ UNCHANGED <<outboxVars, destinationVars, boundVars, responses, forwarded, resolved>>

(***************************************************************************)
(* The handler returns Ok: the counter, its effect and the messages it     *)
(* sends ("rows") commit together.                                         *)
(***************************************************************************)
ProcessOk(s, d, rows) ==
    /\ calls[s][d] # <<>> /\ IsNew(s, d)
    /\ StickyFailures => NextMessage(s, d) \notin failed
    /\ Answer(s, d, "Ok")
    /\ counter' = [counter EXCEPT ![d][s] = NextCall(s, d).id]
    /\ applied' = [applied EXCEPT ![d] = Append(@, NextMessage(s, d))]
    /\ Post(d, outbox[d], rows)
    /\ UNCHANGED <<boundVars, errors, saves, failed, responses, forwarded, resolved>>

(***************************************************************************)
(* The handler returns Err: the transaction is rolled back, the counter    *)
(* with it; only the volatile call that saves the error remains.           *)
(***************************************************************************)
\* mutant of ProcessErr: the counter is not rolled back
ErrKeepsCounter(s, d) ==
    /\ calls[s][d] # <<>> /\ IsNew(s, d)
    /\ Answer(s, d, "Err")
    /\ counter' = [counter EXCEPT ![d][s] = NextCall(s, d).id]
    /\ saves' = [saves EXCEPT ![d] = @ \cup {NextMessage(s, d)}]
    /\ failed' = failed \cup {NextMessage(s, d)}
    /\ UNCHANGED <<outboxVars, boundVars, errors, applied, responses, forwarded, resolved>>
ProcessErr(s, d) ==
    /\ calls[s][d] # <<>> /\ IsNew(s, d)
    /\ Answer(s, d, "Err")
    /\ saves' = [saves EXCEPT ![d] = @ \cup {NextMessage(s, d)}]
    /\ failed' = failed \cup {NextMessage(s, d)}
    /\ UNCHANGED <<outboxVars, boundVars, counter, errors, applied, responses, forwarded, resolved>>

(***************************************************************************)
(* The handler panics: rolled back, and no error is saved either.          *)
(***************************************************************************)
ProcessPanic(s, d) ==
    /\ calls[s][d] # <<>> /\ IsNew(s, d)
    /\ Answer(s, d, "Err")
    /\ failed' = failed \cup {NextMessage(s, d)}
    /\ UNCHANGED <<outboxVars, boundVars, counter, errors, saves, applied,
                   responses, forwarded, resolved>>

(***************************************************************************)
(* save_inter_module_message_error.  The primary key of the error table is *)
(* sender_module_id alone, so the insert panics when d already holds an    *)
(* error of this sender, and the call changes nothing.                     *)
(***************************************************************************)
StoreError(rows, m) ==
    IF \E row \in rows : row.sender = m.sender THEN rows ELSE rows \cup {m}

SaveError(d) ==
    /\ \E m \in saves[d] :
        /\ errors' = [errors EXCEPT ![d] = StoreError(@, m)]
        /\ saves' = [saves EXCEPT ![d] = @ \ {m}]
    /\ UNCHANGED <<outboxVars, relayVars, boundVars, counter, failed, applied,
                   calls, responses, resolved>>

-----------------------------------------------------------------------------
(***************************************************************************)
(* The sender again: on_inter_module_message_processed runs the handler    *)
(* for the result, which may send messages ("rows"), and deletes the      *)
(* outbox row.                                                             *)
(***************************************************************************)

RowsWithId(s, id) == {m \in outbox[s] : m.id = id}

\* mutant of Answered: the row of a message that failed is not deleted
AnsweredIfOk(s, r) == IF r.result = "Ok" THEN RowsWithId(s, r.id) ELSE {}
Answered(s, r) == RowsWithId(s, r.id)

OnProcessed(s, rows) ==
    /\ responses[s] # <<>>
    /\ LET r == Head(responses[s]) IN
        /\ RowsWithId(s, r.id) # {}
        /\ Post(s, outbox[s] \ Answered(s, r), rows)
        /\ resolved' = [resolved EXCEPT ![s] = @ \cup {[id |-> r.id, result |-> r.result]}]
        /\ forwarded' = [forwarded EXCEPT ![s] = @ \ {r.id}]
        /\ responses' = [responses EXCEPT ![s] = Tail(@)]
    /\ UNCHANGED <<destinationVars, boundVars, calls, results>>

(***************************************************************************)
(* The handler for the result panics: nothing changes at s, the row stays, *)
(* and the relay sees that its call failed and forwards the row again.     *)
(***************************************************************************)
OnProcessedPanic(s) ==
    /\ responses[s] # <<>>
    /\ panics < MaxPanics
    /\ panics' = panics + 1
    /\ RowsWithId(s, Head(responses[s]).id) # {}
    /\ responses' = [responses EXCEPT ![s] = Tail(@)]
    /\ forwarded' = [forwarded EXCEPT ![s] = @ \ {Head(responses[s]).id}]
    /\ UNCHANGED <<outboxVars, destinationVars, calls, results, resolved,
                   relayRestarts, moduleRestarts>>

(***************************************************************************)
(* The row is gone (an earlier answer deleted it): the unwrap panics.      *)
(***************************************************************************)
OnProcessedGone(s) ==
    /\ responses[s] # <<>>
    /\ RowsWithId(s, Head(responses[s]).id) = {}
    /\ responses' = [responses EXCEPT ![s] = Tail(@)]
    /\ UNCHANGED <<outboxVars, destinationVars, relayVars, boundVars, calls, resolved>>

-----------------------------------------------------------------------------
(***************************************************************************)
(* Failures.  The relay forgets everything when it restarts and starts     *)
(* again from the outbox tables.  A module that restarts keeps its tables  *)
(* and loses the calls that had not run, the volatile ones included; the   *)
(* relay sees the connection break and submits those calls again.          *)
(***************************************************************************)

Orphan(queue) == [i \in DOMAIN queue |-> [queue[i] EXCEPT !.live = FALSE]]
LiveIds(queue) == {queue[i].id : i \in {j \in DOMAIN queue : queue[j].live}}

RelayRestart ==
    /\ relayRestarts < MaxRelayRestarts
    /\ relayRestarts' = relayRestarts + 1
    /\ results' = {}
    /\ forwarded' = [s \in Modules |-> {}]
    /\ calls' = [s \in Modules |-> [d \in Modules |->
                    IF OrphansRun THEN Orphan(calls[s][d]) ELSE <<>>]]
    /\ responses' = [s \in Modules |->
                        IF OrphansRun THEN Orphan(responses[s]) ELSE <<>>]
    /\ UNCHANGED <<outboxVars, destinationVars, resolved, moduleRestarts, panics>>

ModuleRestart(d) ==
    /\ moduleRestarts < MaxModuleRestarts
    /\ moduleRestarts' = moduleRestarts + 1
    /\ saves' = [saves EXCEPT ![d] = {}]
    /\ calls' = [s \in Modules |-> [calls[s] EXCEPT ![d] = <<>>]]
    /\ responses' = [responses EXCEPT ![d] = <<>>]
    /\ forwarded' = [s \in Modules |->
                        IF s = d THEN forwarded[s] \ LiveIds(responses[d])
                                 ELSE forwarded[s] \ LiveIds(calls[s][d])]
    /\ UNCHANGED <<outboxVars, counter, errors, failed, applied, results, resolved,
                   relayRestarts, panics>>

-----------------------------------------------------------------------------

\* without panics of the handlers for a result
SteadyNext ==
    \/ \E s \in Senders, dst \in InterModuleDestination, c \in Contents : Send(s, dst, c)
    \/ \E s, d \in Modules : RelayForward(s, d)
    \/ RelayRespond
    \/ \E s, d \in Modules : ProcessDuplicate(s, d)
    \/ \E s, d \in Modules : ProcessOk(s, d, <<>>)
    \/ \E s, d \in Modules : ProcessErr(s, d)
    \/ \E s, d \in Modules : ProcessPanic(s, d)
    \/ \E d \in Modules : SaveError(d)
    \/ \E s \in Modules : OnProcessed(s, <<>>)
    \/ \E s \in Modules : OnProcessedGone(s)
    \/ RelayRestart
    \/ \E d \in Modules : ModuleRestart(d)

IMNext == SteadyNext \/ \E s \in Modules : OnProcessedPanic(s)

IMSpec == IMInit /\ [][IMNext]_imVars

(***************************************************************************)
(* Fairness.  The relay keeps forwarding and answering, and a module runs  *)
(* the reducer calls it was sent.  Which of its outcomes a handler has is  *)
(* not constrained.                                                        *)
(***************************************************************************)
Process(s, d) ==
    \/ ProcessDuplicate(s, d)
    \/ ProcessOk(s, d, <<>>)
    \/ ProcessErr(s, d)
    \/ ProcessPanic(s, d)

Resolve(s) == OnProcessed(s, <<>>) \/ OnProcessedGone(s)

IMFairness ==
    /\ \A s, d \in Modules : WF_imVars(RelayForward(s, d)) /\ WF_imVars(Process(s, d))
    /\ \A s \in Modules : WF_imVars(Resolve(s))
    /\ WF_imVars(RelayRespond)

IMFairSpec == IMInit /\ [][SteadyNext]_imVars /\ IMFairness

-----------------------------------------------------------------------------
(***************************************************************************)
(* Safety.  The messages of one sender take effect at a module in the      *)
(* order of their ids and none takes effect twice, whatever the relay      *)
(* resends and whoever restarts (the counter of                            *)
(* process_inter_module_message).                                          *)
(***************************************************************************)
InOrderOnce ==
    \A d \in Modules : \A i, j \in 1 .. Len(applied[d]) :
        i < j /\ applied[d][i].sender = applied[d][j].sender
            => applied[d][i].id < applied[d][j].id

(***************************************************************************)
(* A sender that is told Ok can rely on it: the message took effect        *)
(* (handle_destination_result_on_sender keeps what it gave up).            *)
(***************************************************************************)
TookEffect(s, id) ==
    \E d \in Modules : \E i \in 1 .. Len(applied[d]) :
        applied[d][i] = [sender |-> s, id |-> id]

SuccessIsReal ==
    \A s \in Modules : \A r \in resolved[s] : r.result = "Ok" => TookEffect(s, r.id)

(***************************************************************************)
(* A sender that is told of an error can undo what it did                  *)
(* (handle_destination_result_on_sender gives back): the message has not   *)
(* taken and never takes effect.                                           *)
(***************************************************************************)
FailureIsReal ==
    \A s \in Modules : \A r \in resolved[s] : r.result = "Err" => ~TookEffect(s, r.id)

(***************************************************************************)
(* Liveness: every row leaves the outbox, that is, its sender learns an    *)
(* outcome (on_inter_module_message_processed deletes it).                 *)
(***************************************************************************)
EveryMessageResolved ==
    \A s \in Modules : \A id \in Ids :
        RowsWithId(s, id) # {} ~> RowsWithId(s, id) = {}

-----------------------------------------------------------------------------
(***************************************************************************)
(* What the protocol promises to the handlers is RemoteCall.  A message is *)
(* seen there by how often it took effect and what its sender was told.    *)
(***************************************************************************)
EffectsAt(d, m) == {<<d, i>> : i \in {j \in 1 .. Len(applied[d]) : applied[d][j] = m}}
Effects(m) == Cardinality(UNION {EffectsAt(d, m) : d \in Modules})

AnswerTo(m) ==
    IF [id |-> m.id, result |-> "Ok"] \in resolved[m.sender] THEN "Ok"
    ELSE IF [id |-> m.id, result |-> "Err"] \in resolved[m.sender] THEN "Err"
    ELSE "none"

StatusOf(m) ==
    [sent |-> m.id <= LastId(m.sender), effects |-> Effects(m), answer |-> AnswerTo(m)]
CallStatus == [m \in Message |-> StatusOf(m)]

Abstract == INSTANCE RemoteCall WITH Requests <- Message, status <- CallStatus

ImplementsRemoteCall == Abstract!Spec

=============================================================================
