------------------------ MODULE PlayerTransferProofs ------------------------
(***************************************************************************)
(* Proofs about the messages between modules and about the transfer of a   *)
(* player that is made of them.  The first half is about InterModule, for  *)
(* every number of regions, every window of the relay and every bound on   *)
(* messages and restarts, and for a relay that forwards one row per        *)
(* destination at a time (Window = 1): it makes the protocol a remote      *)
(* call.  Everything there is proved for ProtocolNext, so that             *)
(* specifications which give the handlers a meaning may use it.  The       *)
(* second half is about PlayerTransfer, whose steps are steps of the       *)
(* protocol; what the functions of Admission do to one region is in        *)
(* AdmissionProofs.                                                        *)
(***************************************************************************)
EXTENDS PlayerTransfer, SequenceTheorems, AdmissionProofs

-----------------------------------------------------------------------------
(***************************************************************************)
(* A function on 1 .. n is a sequence of length n.                         *)
(***************************************************************************)
LEMMA FunctionIsSeq ==
    ASSUME NEW S, NEW n \in Nat, NEW f \in [1 .. n -> S]
    PROVE  f \in Seq(S) /\ Len(f) = n
<1>1. f \in Seq(S)
  BY SeqDef
<1>2. 1 .. Len(f) = 1 .. n /\ Len(f) \in Nat
  BY <1>1, LenProperties
<1> QED BY <1>1, <1>2

(***************************************************************************)
(* The elements of a concatenation, by position.                           *)
(***************************************************************************)
LEMMA ConcatElements ==
    ASSUME NEW S, NEW p \in Seq(S), NEW q \in Seq(S)
    PROVE  /\ Len(p \o q) = Len(p) + Len(q)
           /\ \A i \in 1 .. Len(p) : (p \o q)[i] = p[i]
           /\ \A i \in 1 .. Len(q) : (p \o q)[Len(p) + i] = q[i]
<1>1. Len(p) \in Nat /\ Len(q) \in Nat
  BY LenProperties
<1>2. /\ Len(p \o q) = Len(p) + Len(q)
      /\ \A i \in 1 .. Len(p) + Len(q) :
            (p \o q)[i] = IF i <= Len(p) THEN p[i] ELSE q[i - Len(p)]
  BY ConcatProperties
<1>3. ASSUME NEW i \in 1 .. Len(p)
      PROVE  (p \o q)[i] = p[i]
  <2>1. i \in 1 .. Len(p) + Len(q) /\ i <= Len(p)
    BY <1>1
  <2> QED BY <1>2, <2>1
<1>4. ASSUME NEW i \in 1 .. Len(q)
      PROVE  (p \o q)[Len(p) + i] = q[i]
  <2>1. PICK j \in 1 .. Len(p) + Len(q) : j = Len(p) + i
    BY <1>1
  <2>2. ~(j <= Len(p)) /\ j - Len(p) = i
    BY <1>1, <2>1
  <2>3. (p \o q)[j] = q[j - Len(p)]
    BY <1>2, <2>2
  <2> QED BY <2>1, <2>2, <2>3
<1> QED BY <1>2, <1>3, <1>4

(***************************************************************************)
(* Every recipient of a message that can be sent is a module.              *)
(***************************************************************************)
LEMMA RecipientsType ==
    ASSUME NEW s \in Modules, NEW dst \in InterModuleDestination, CanSend(s, dst)
    PROVE  Recipients(s, dst) \in Seq(Modules)
<1> USE RegionCountAssumption
<1>1. OtherRegions(s) \in Seq(Modules)
  <2>1. CASE s = Global
    <3>1. [i \in 1 .. RegionCount |-> i] \in [1 .. RegionCount -> Modules]
      BY DEF Modules, Regions
    <3> QED BY <2>1, <3>1, FunctionIsSeq DEF OtherRegions, Regions
  <2>2. CASE s # Global
    <3>1. s \in 1 .. RegionCount
      BY <2>2 DEF Modules, Regions, Global
    <3>2. [i \in 1 .. RegionCount - 1 |-> IF i < s THEN i ELSE i + 1]
            \in [1 .. RegionCount - 1 -> Modules]
      BY <3>1 DEF Modules, Regions
    <3> QED BY <2>2, <3>2, FunctionIsSeq DEF OtherRegions
  <2> QED BY <2>1, <2>2
<1>2. Global \in Modules /\ dst.variant = "Region" => dst.region \in Modules
  BY DEF CanSend, Modules
<1>3. <<Global>> \in Seq(Modules) /\ <<Global>> \o OtherRegions(s) \in Seq(Modules)
  BY <1>1 DEF Modules
<1>4. dst.variant \in {"Global", "AllOtherRegions", "GlobalAndAllOtherRegions", "Region"}
  BY DEF InterModuleDestination, Broadcasts, ToRegions
<1> QED BY <1>1, <1>2, <1>3, <1>4 DEF Recipients

(***************************************************************************)
(* The copies of a message are rows addressed to modules.                  *)
(***************************************************************************)
Row == [to : Modules, contents : Contents]

LEMMA CopiesType ==
    ASSUME NEW s \in Modules, NEW dst \in InterModuleDestination, CanSend(s, dst),
           NEW c \in Contents
    PROVE  Copies(s, dst, c) \in Seq(Row)
<1>1. Recipients(s, dst) \in Seq(Modules)
  BY RecipientsType
<1>2. Copies(s, dst, c) \in [1 .. Len(Recipients(s, dst)) -> Row]
  BY <1>1 DEF Copies, Row
<1> QED BY <1>1, <1>2, FunctionIsSeq, LenProperties

(***************************************************************************)
(* What a step of the protocol may be, whatever the handlers of messages   *)
(* and results send: the steps of IMNext, and those of a specification     *)
(* that composes the protocol with its handlers.                           *)
(***************************************************************************)
Transacts(s) ==
    \E rows \in Seq(Row) :
        /\ Post(s, outbox[s], rows)
        /\ UNCHANGED <<destinationVars, relayVars, boundVars, calls, responses, resolved>>

Succeeds(s, d) == \E rows \in Seq(Row) : ProcessOk(s, d, rows)

Concludes(s) == \E rows \in Seq(Row) : OnProcessed(s, rows)

ProtocolNext ==
    \/ \E s \in Modules : Transacts(s)
    \/ \E s, d \in Modules : RelayForward(s, d)
    \/ RelayRespond
    \/ \E s, d \in Modules : ProcessDuplicate(s, d)
    \/ \E s, d \in Modules : Succeeds(s, d)
    \/ \E s, d \in Modules : ProcessErr(s, d)
    \/ \E s, d \in Modules : ProcessPanic(s, d)
    \/ \E d \in Modules : SaveError(d)
    \/ \E s \in Modules : Concludes(s)
    \/ \E s \in Modules : OnProcessedPanic(s)
    \/ \E s \in Modules : OnProcessedGone(s)
    \/ RelayRestart
    \/ \E d \in Modules : ModuleRestart(d)

LEMMA StepsOfProtocol == [IMNext]_imVars => [ProtocolNext]_imVars
<1>1. ASSUME NEW s \in Senders, NEW dst \in InterModuleDestination, NEW c \in Contents,
             Send(s, dst, c)
      PROVE  s \in Modules /\ Transacts(s)
  <2>1. s \in Modules
    BY SendersAssumption
  <2>2. Copies(s, dst, c) \in Seq(Row)
    BY <1>1, <2>1, CopiesType DEF Send
  <2> QED BY <1>1, <2>1, <2>2 DEF Send, Transacts
<1>2. <<>> \in Seq(Row)
  BY EmptySeq
<1>3. \A s, d \in Modules : ProcessOk(s, d, <<>>) => Succeeds(s, d)
  BY <1>2 DEF Succeeds
<1>4. \A s \in Modules : OnProcessed(s, <<>>) => Concludes(s)
  BY <1>2 DEF Concludes
<1> QED BY <1>1, <1>3, <1>4 DEF IMNext, SteadyNext, ProtocolNext

(***************************************************************************)
(* A transaction that inserts well-formed rows keeps the outbox tables     *)
(* well-formed.                                                            *)
(***************************************************************************)
LEMMA PostType ==
    ASSUME IMTypeOK, NEW s \in Modules, NEW kept \in SUBSET InterModuleMessage,
           NEW rows \in Seq(Row), Post(s, kept, rows)
    PROVE  /\ outbox' \in [Modules -> SUBSET InterModuleMessage]
           /\ addressee' \in [Modules -> Seq(Modules)]
           /\ \A t \in Modules : Len(addressee'[t]) <= MaxMessages
<1> DEFINE tos == [i \in DOMAIN rows |-> rows[i].to]
<1>a. DOMAIN rows = 1 .. Len(rows) /\ Len(rows) \in Nat /\ \A i \in 1 .. Len(rows) : rows[i] \in Row
  BY LenProperties, ElementOfSeq
<1>b. tos \in [1 .. Len(rows) -> Modules]
  BY <1>a DEF Row
<1>1. tos \in Seq(Modules) /\ Len(tos) = Len(rows)
  BY <1>a, <1>b, FunctionIsSeq
<1>2. addressee[s] \in Seq(Modules) /\ addressee[s] \o tos \in Seq(Modules)
  BY <1>1 DEF IMTypeOK
<1>3. Len(addressee[s] \o tos) <= MaxMessages
  <2>1. Len(addressee[s] \o tos) = Len(addressee[s]) + Len(tos)
    BY <1>1, <1>2, ConcatProperties
  <2>2. Len(addressee[s]) + Len(rows) <= MaxMessages
    BY DEF Post, LastId
  <2> QED BY <1>1, <2>1, <2>2
<1>4. Numbered(s, rows) \subseteq InterModuleMessage
  <2> SUFFICES ASSUME NEW i \in 1 .. Len(rows)
               PROVE  [id |-> LastId(s) + i, to |-> rows[i].to,
               contents |-> rows[i].contents]
                        \in InterModuleMessage
    BY <1>a DEF Numbered
  <2>1. LastId(s) \in Nat /\ LastId(s) + Len(rows) <= MaxMessages
    BY <1>2 DEF Post, LastId
  <2>2. LastId(s) + i \in Ids
    BY <2>1, <1>a, BoundsAssumption DEF Ids
  <2> QED BY <2>2, <1>a DEF InterModuleMessage, Row
<1>5. outbox' = [outbox EXCEPT ![s] = kept \cup Numbered(s, rows)]
      /\ addressee' = [addressee EXCEPT ![s] = @ \o tos]
  BY DEF Post
<1> QED BY <1>2, <1>3, <1>4, <1>5 DEF IMTypeOK

(***************************************************************************)
(* Marking calls as orphans leaves a queue of calls.                       *)
(***************************************************************************)
LEMMA OrphanCalls ==
    ASSUME NEW q \in Seq(Call)
    PROVE  /\ Orphan(q) \in Seq(Call) /\ Len(Orphan(q)) = Len(q)
           /\ \A i \in 1 .. Len(q) : Orphan(q)[i].id = q[i].id
<1>a. DOMAIN q = 1 .. Len(q) /\ Len(q) \in Nat /\ \A i \in 1 .. Len(q) : q[i] \in Call
  BY LenProperties, ElementOfSeq
<1>1. Orphan(q) \in [1 .. Len(q) -> Call] /\ \A i \in 1 .. Len(q) : Orphan(q)[i].id = q[i].id
  BY <1>a DEF Orphan, Call
<1> QED BY <1>a, <1>1, FunctionIsSeq

LEMMA OrphanResponses ==
    ASSUME NEW q \in Seq(Response)
    PROVE  /\ Orphan(q) \in Seq(Response) /\ Len(Orphan(q)) = Len(q)
           /\ \A i \in 1 .. Len(q) :
                Orphan(q)[i].id = q[i].id /\ Orphan(q)[i].result = q[i].result
<1>a. DOMAIN q = 1 .. Len(q) /\ Len(q) \in Nat /\ \A i \in 1 .. Len(q) : q[i] \in Response
  BY LenProperties, ElementOfSeq
<1>1. /\ Orphan(q) \in [1 .. Len(q) -> Response]
      /\ \A i \in 1 .. Len(q) :
            Orphan(q)[i].id = q[i].id /\ Orphan(q)[i].result = q[i].result
  BY <1>a DEF Orphan, Response
<1> QED BY <1>a, <1>1, FunctionIsSeq

(***************************************************************************)
(* Changing one entry of a table of tables.                                *)
(***************************************************************************)
LEMMA EntryReplaced ==
    ASSUME NEW A, NEW B, NEW T, NEW f \in [A -> [B -> T]],
           NEW a \in A, NEW b \in B, NEW v \in T
    PROVE  [f EXCEPT ![a][b] = v] \in [A -> [B -> T]]
<1>1. [f[a] EXCEPT ![b] = v] \in [B -> T]
  OBVIOUS
<1>2. [f EXCEPT ![a][b] = v] = [f EXCEPT ![a] = [f[a] EXCEPT ![b] = v]]
  OBVIOUS
<1> QED BY <1>1, <1>2

(***************************************************************************)
(* The call a module runs next is a call, and answering it leaves queues   *)
(* of calls.                                                               *)
(***************************************************************************)
LEMMA NextCallType ==
    ASSUME IMTypeOK, NEW s \in Modules, NEW d \in Modules, calls[s][d] # <<>>
    PROVE  /\ NextCall(s, d) \in Call /\ NextCall(s, d).id \in Ids
           /\ NextMessage(s, d) \in Message
           /\ calls[s][d] \in Seq(Call) /\ Tail(calls[s][d]) \in Seq(Call)
<1>1. calls[s][d] \in Seq(Call)
  BY DEF IMTypeOK
<1>2. Head(calls[s][d]) \in Call /\ Tail(calls[s][d]) \in Seq(Call)
  BY <1>1, HeadTailProperties
<1> QED BY <1>1, <1>2 DEF NextCall, NextMessage, Call, Message

LEMMA AnswerType ==
    ASSUME IMTypeOK, NEW s \in Modules, NEW d \in Modules, calls[s][d] # <<>>,
           NEW r \in Results, Answer(s, d, r)
    PROVE  /\ calls' \in [Modules -> [Modules -> Seq(Call)]]
           /\ results' \subseteq [sender : Modules, id : Ids, result : Results]
<1>1. /\ NextCall(s, d).id \in Ids /\ Tail(calls[s][d]) \in Seq(Call)
  BY NextCallType
<1>2. calls' \in [Modules -> [Modules -> Seq(Call)]]
  <2>1. calls' = [calls EXCEPT ![s][d] = Tail(calls[s][d])]
    BY DEF Answer
  <2>2. calls \in [Modules -> [Modules -> Seq(Call)]]
    BY DEF IMTypeOK
  <2> QED BY <1>1, <2>1, <2>2, EntryReplaced
<1>3. results' \subseteq [sender : Modules, id : Ids, result : Results]
  <2> DEFINE outcome == [sender |-> s, id |-> NextCall(s, d).id, result |-> r]
  <2>1. outcome \in [sender : Modules, id : Ids, result : Results]
    BY <1>1
  <2>2. results \subseteq [sender : Modules, id : Ids, result : Results]
    BY DEF IMTypeOK
  <2>3. results' \subseteq results \cup {outcome}
    BY DEF Answer
  <2> HIDE DEF outcome
  <2> QED BY <2>1, <2>2, <2>3
<1> QED BY <1>2, <1>3

LEMMA NextResponseType ==
    ASSUME IMTypeOK, NEW s \in Modules, responses[s] # <<>>
    PROVE  /\ Head(responses[s]) \in Response
           /\ responses[s] \in Seq(Response) /\ Tail(responses[s]) \in Seq(Response)
<1>1. responses[s] \in Seq(Response)
  BY DEF IMTypeOK
<1> QED BY <1>1, HeadTailProperties

-----------------------------------------------------------------------------
(***************************************************************************)
(* Type correctness is inductive.                                          *)
(***************************************************************************)
LEMMA InitType == IMInit => IMTypeOK
<1> SUFFICES ASSUME IMInit PROVE IMTypeOK
  OBVIOUS
<1>1. /\ calls \in [Modules -> [Modules -> Seq(Call)]]
      /\ responses \in [Modules -> Seq(Response)]
      /\ applied \in [Modules -> Seq(Message)]
      /\ addressee \in [Modules -> Seq(Modules)]
      /\ \A s \in Modules : Len(addressee[s]) <= MaxMessages
  BY EmptySeq, BoundsAssumption DEF IMInit
<1> QED BY <1>1, BoundsAssumption DEF IMInit, IMTypeOK, Modules

LEMMA NextType ==
    ASSUME IMTypeOK, [ProtocolNext]_imVars
    PROVE  IMTypeOK'
<1>1. CASE UNCHANGED imVars
  BY <1>1 DEF IMTypeOK, imVars, outboxVars, destinationVars, relayVars, boundVars
<1>2. ASSUME NEW s \in Modules, Transacts(s)
      PROVE  IMTypeOK'
  <2>1. outbox[s] \in SUBSET InterModuleMessage
    BY DEF IMTypeOK
  <2>3. /\ outbox' \in [Modules -> SUBSET InterModuleMessage]
        /\ addressee' \in [Modules -> Seq(Modules)]
        /\ \A t \in Modules : Len(addressee'[t]) <= MaxMessages
    BY <1>2, <2>1, PostType DEF Transacts
  <2> QED BY <1>2, <2>3 DEF Transacts, IMTypeOK, destinationVars, relayVars, boundVars
<1>3. ASSUME NEW s \in Modules, NEW d \in Modules, RelayForward(s, d)
      PROVE  IMTypeOK'
  <2>1. PICK m \in outbox[s] :
            /\ calls' = [calls EXCEPT ![s][d] =
                            Append(@, [id |-> m.id, contents |-> m.contents,
                            live |-> TRUE])]
            /\ forwarded' = [forwarded EXCEPT ![s] = @ \cup {m.id}]
    BY <1>3 DEF RelayForward, Backlog
  <2>2. m \in InterModuleMessage
    BY DEF IMTypeOK
  <2>3. [id |-> m.id, contents |-> m.contents, live |-> TRUE] \in Call
    BY <2>2 DEF InterModuleMessage, Call
  <2>4. Append(calls[s][d], [id |-> m.id, contents |-> m.contents,
  live |-> TRUE]) \in Seq(Call)
    BY <2>3, AppendProperties DEF IMTypeOK
  <2>5. calls' \in [Modules -> [Modules -> Seq(Call)]]
    BY <2>1, <2>4 DEF IMTypeOK
  <2>6. forwarded' \in [Modules -> SUBSET Ids]
    BY <2>1, <2>2 DEF IMTypeOK, InterModuleMessage
  <2> QED BY <1>3, <2>5, <2>6
          DEF RelayForward, IMTypeOK, outboxVars, destinationVars, boundVars
<1>4. ASSUME RelayRespond
      PROVE  IMTypeOK'
  <2>1. PICK r \in results :
            /\ responses' = [responses EXCEPT ![r.sender] =
                                Append(@, [id |-> r.id, result |-> r.result,
                                live |-> TRUE])]
            /\ results' = results \ {r}
    BY <1>4 DEF RelayRespond
  <2>2. r \in [sender : Modules, id : Ids, result : Results]
    BY DEF IMTypeOK
  <2>3. [id |-> r.id, result |-> r.result, live |-> TRUE] \in Response
    BY <2>2 DEF Response
  <2>4. Append(responses[r.sender], [id |-> r.id, result |-> r.result, live |-> TRUE])
            \in Seq(Response)
    BY <2>2, <2>3, AppendProperties DEF IMTypeOK
  <2>5. responses' \in [Modules -> Seq(Response)]
    BY <2>1, <2>4 DEF IMTypeOK
  <2> QED BY <1>4, <2>1, <2>5
          DEF RelayRespond, IMTypeOK, outboxVars, destinationVars, boundVars
<1>5. ASSUME NEW s \in Modules, NEW d \in Modules, ProcessDuplicate(s, d)
      PROVE  IMTypeOK'
  <2>1. /\ calls' \in [Modules -> [Modules -> Seq(Call)]]
        /\ results' \subseteq [sender : Modules, id : Ids, result : Results]
    BY <1>5, AnswerType DEF ProcessDuplicate, Results
  <2> QED BY <1>5, <2>1
          DEF ProcessDuplicate, IMTypeOK, outboxVars, destinationVars, boundVars
<1>6. ASSUME NEW s \in Modules, NEW d \in Modules, Succeeds(s, d)
      PROVE  IMTypeOK'
  <2>1. /\ calls' \in [Modules -> [Modules -> Seq(Call)]]
        /\ results' \subseteq [sender : Modules, id : Ids, result : Results]
    BY <1>6, AnswerType DEF Succeeds, ProcessOk, Results
  <2>2. NextCall(s, d).id \in Ids /\ NextMessage(s, d) \in Message
    BY <1>6, NextCallType DEF Succeeds, ProcessOk
  <2>3. /\ outbox' \in [Modules -> SUBSET InterModuleMessage]
        /\ addressee' \in [Modules -> Seq(Modules)]
        /\ \A t \in Modules : Len(addressee'[t]) <= MaxMessages
    <3>1. outbox[d] \in SUBSET InterModuleMessage
      BY DEF IMTypeOK
    <3> QED BY <1>6, <3>1, PostType DEF Succeeds, ProcessOk
  <2>4. counter' \in [Modules -> [Modules -> 0 .. MaxMessages]]
    <3>1. counter' = [counter EXCEPT ![d][s] = NextCall(s, d).id]
      BY <1>6 DEF Succeeds, ProcessOk
    <3>2. counter \in [Modules -> [Modules -> 0 .. MaxMessages]]
      BY DEF IMTypeOK
    <3>3. NextCall(s, d).id \in 0 .. MaxMessages
      BY <2>2 DEF Ids
    <3> QED BY <3>1, <3>2, <3>3, EntryReplaced
  <2>5. Append(applied[d], NextMessage(s, d)) \in Seq(Message)
    BY <2>2, AppendProperties DEF IMTypeOK
  <2>6. applied' \in [Modules -> Seq(Message)]
    BY <1>6, <2>5 DEF Succeeds, ProcessOk, IMTypeOK
  <2> QED BY <1>6, <2>1, <2>3, <2>4, <2>6 DEF Succeeds, ProcessOk, IMTypeOK, boundVars
<1>7. ASSUME NEW s \in Modules, NEW d \in Modules, ProcessErr(s, d)
      PROVE  IMTypeOK'
  <2>1. /\ calls' \in [Modules -> [Modules -> Seq(Call)]]
        /\ results' \subseteq [sender : Modules, id : Ids, result : Results]
    BY <1>7, AnswerType DEF ProcessErr, Results
  <2>2. NextMessage(s, d) \in Message
    BY <1>7, NextCallType DEF ProcessErr
  <2>3. saves' \in [Modules -> SUBSET Message] /\ failed' \subseteq Message
    BY <1>7, <2>2 DEF ProcessErr, IMTypeOK
  <2> QED BY <1>7, <2>1, <2>3 DEF ProcessErr, IMTypeOK, outboxVars, boundVars
<1>8. ASSUME NEW s \in Modules, NEW d \in Modules, ProcessPanic(s, d)
      PROVE  IMTypeOK'
  <2>1. /\ calls' \in [Modules -> [Modules -> Seq(Call)]]
        /\ results' \subseteq [sender : Modules, id : Ids, result : Results]
    BY <1>8, AnswerType DEF ProcessPanic, Results
  <2>2. NextMessage(s, d) \in Message
    BY <1>8, NextCallType DEF ProcessPanic
  <2> QED BY <1>8, <2>1, <2>2 DEF ProcessPanic, IMTypeOK, outboxVars, boundVars
<1>9. ASSUME NEW d \in Modules, SaveError(d)
      PROVE  IMTypeOK'
  <2>1. PICK m \in saves[d] :
            /\ errors' = [errors EXCEPT ![d] = StoreError(errors[d], m)]
            /\ saves' = [saves EXCEPT ![d] = saves[d] \ {m}]
    BY <1>9 DEF SaveError
  <2>2. errors[d] \in SUBSET Message /\ saves[d] \in SUBSET Message
    BY DEF IMTypeOK
  <2>3. StoreError(errors[d], m) \in SUBSET Message /\ saves[d] \ {m} \in SUBSET Message
    BY <2>2 DEF StoreError
  <2>4. errors' \in [Modules -> SUBSET Message] /\ saves' \in [Modules -> SUBSET Message]
    BY <2>1, <2>3 DEF IMTypeOK
  <2> QED BY <1>9, <2>4 DEF SaveError, IMTypeOK, outboxVars, relayVars, boundVars
<1>10. ASSUME NEW s \in Modules, Concludes(s)
       PROVE  IMTypeOK'
  <2>1. Head(responses[s]) \in Response /\ Tail(responses[s]) \in Seq(Response)
    BY <1>10, NextResponseType DEF Concludes, OnProcessed
  <2>2. outbox[s] \ Answered(s, Head(responses[s])) \in SUBSET InterModuleMessage
    BY DEF IMTypeOK
  <2>3. /\ outbox' \in [Modules -> SUBSET InterModuleMessage]
        /\ addressee' \in [Modules -> Seq(Modules)]
        /\ \A t \in Modules : Len(addressee'[t]) <= MaxMessages
    BY <1>10, <2>2, PostType DEF Concludes, OnProcessed
  <2>4. /\ resolved' \in [Modules -> SUBSET [id : Ids, result : Results]]
        /\ responses' \in [Modules -> Seq(Response)]
        /\ forwarded' \in [Modules -> SUBSET Ids]
    <3> DEFINE r == Head(responses[s])
    <3>1. [id |-> r.id, result |-> r.result] \in [id : Ids, result : Results]
      BY <2>1 DEF Response
    <3>2. /\ resolved' = [resolved EXCEPT ![s] = @ \cup {[id |-> r.id, result |-> r.result]}]
          /\ forwarded' = [forwarded EXCEPT ![s] = @ \ {r.id}]
          /\ responses' = [responses EXCEPT ![s] = Tail(@)]
      BY <1>10 DEF Concludes, OnProcessed
    <3> HIDE DEF r
    <3>3. resolved' \in [Modules -> SUBSET [id : Ids, result : Results]]
      BY <3>1, <3>2 DEF IMTypeOK
    <3> QED BY <2>1, <3>2, <3>3 DEF IMTypeOK
  <2>5. UNCHANGED <<destinationVars, boundVars, calls, results>>
    BY <1>10 DEF Concludes, OnProcessed
  <2> QED BY <2>3, <2>4, <2>5 DEF IMTypeOK, destinationVars, boundVars
<1>11. ASSUME NEW s \in Modules, OnProcessedPanic(s)
       PROVE  IMTypeOK'
  <2>1. Tail(responses[s]) \in Seq(Response)
    BY <1>11, NextResponseType DEF OnProcessedPanic
  <2> QED BY <1>11, <2>1, BoundsAssumption
          DEF OnProcessedPanic, IMTypeOK, outboxVars, destinationVars
<1>12. ASSUME NEW s \in Modules, OnProcessedGone(s)
       PROVE  IMTypeOK'
  <2>1. Tail(responses[s]) \in Seq(Response)
    BY <1>12, NextResponseType DEF OnProcessedGone
  <2> QED BY <1>12, <2>1
          DEF OnProcessedGone, IMTypeOK, outboxVars, destinationVars, relayVars, boundVars
<1>13. ASSUME RelayRestart
       PROVE  IMTypeOK'
  <2>1. calls' \in [Modules -> [Modules -> Seq(Call)]]
    BY <1>13, OrphanCalls, EmptySeq DEF RelayRestart, IMTypeOK
  <2>2. responses' \in [Modules -> Seq(Response)]
    BY <1>13, OrphanResponses, EmptySeq DEF RelayRestart, IMTypeOK
  <2>3. relayRestarts' \in 0 .. MaxRelayRestarts
    BY <1>13, BoundsAssumption DEF RelayRestart, IMTypeOK
  <2> QED BY <1>13, <2>1, <2>2, <2>3 DEF RelayRestart, IMTypeOK, outboxVars, destinationVars
<1>14. ASSUME NEW d \in Modules, ModuleRestart(d)
       PROVE  IMTypeOK'
  <2>1. calls' \in [Modules -> [Modules -> Seq(Call)]]
    BY <1>14, EmptySeq DEF ModuleRestart, IMTypeOK
  <2>2. responses' \in [Modules -> Seq(Response)]
    BY <1>14, EmptySeq DEF ModuleRestart, IMTypeOK
  <2>3. moduleRestarts' \in 0 .. MaxModuleRestarts
    BY <1>14, BoundsAssumption DEF ModuleRestart, IMTypeOK
  <2>4. forwarded' \in [Modules -> SUBSET Ids] /\ saves' \in [Modules -> SUBSET Message]
    BY <1>14 DEF ModuleRestart, IMTypeOK
  <2> QED BY <1>14, <2>1, <2>2, <2>3, <2>4 DEF ModuleRestart, IMTypeOK, outboxVars
<1> QED BY <1>1, <1>2, <1>3, <1>4, <1>5, <1>6, <1>7, <1>8, <1>9, <1>10, <1>11, <1>12,
           <1>13, <1>14 DEF ProtocolNext

(***************************************************************************)
(* The tables, queues and ghosts of the protocol keep their types: ids     *)
(* stay within what auto_inc gave out, every row of the error table names  *)
(* a message, and so on, in every module of every world.                   *)
(***************************************************************************)
THEOREM TypeCorrect == IMSpec => []IMTypeOK
<1>1. IMInit => IMTypeOK
  BY InitType
<1>2. IMTypeOK /\ [IMNext]_imVars => IMTypeOK'
  BY StepsOfProtocol, NextType
<1> QED BY <1>1, <1>2, PTL DEF IMSpec

-----------------------------------------------------------------------------
(***************************************************************************)
(* The counter of a sender at a module is at least the id of every message *)
(* of that sender that took effect there.  Together with InOrderOnce it is *)
(* inductive: a call runs its handler only above the counter.              *)
(***************************************************************************)
CounterCovers ==
    \A d \in Modules : \A i \in 1 .. Len(applied[d]) :
        applied[d][i].id <= counter[d][applied[d][i].sender]

(***************************************************************************)
(* Only a handler that returns Ok moves the counters and what has been     *)
(* applied.                                                                *)
(***************************************************************************)
LEMMA OnlyProcessOkApplies ==
    ASSUME [ProtocolNext]_imVars,
           ~ \E s, d \in Modules : Succeeds(s, d)
    PROVE  UNCHANGED <<counter, applied>>
<1> USE DEF destinationVars
<1>1. CASE UNCHANGED imVars
  BY <1>1 DEF imVars
<1>2. CASE ProtocolNext
  <2>1. ASSUME NEW s \in Modules, Transacts(s)
        PROVE  UNCHANGED <<counter, applied>>
    BY <2>1 DEF Transacts
  <2>2. ASSUME NEW s \in Modules, NEW d \in Modules,
               RelayForward(s, d) \/ ProcessDuplicate(s, d) \/ ProcessErr(s, d)
                 \/ ProcessPanic(s, d)
        PROVE  UNCHANGED <<counter, applied>>
    BY <2>2 DEF RelayForward, ProcessDuplicate, ProcessErr, ProcessPanic
  <2>3. ASSUME NEW d \in Modules,
               SaveError(d) \/ Concludes(d) \/ OnProcessedPanic(d)
                 \/ OnProcessedGone(d) \/ ModuleRestart(d)
        PROVE  UNCHANGED <<counter, applied>>
    BY <2>3 DEF SaveError, Concludes, OnProcessed, OnProcessedPanic, OnProcessedGone,
                ModuleRestart
  <2>4. RelayRespond \/ RelayRestart => UNCHANGED <<counter, applied>>
    BY DEF RelayRespond, RelayRestart
  <2> QED BY <1>2, <2>1, <2>2, <2>3, <2>4 DEF ProtocolNext
<1> QED BY <1>1, <1>2

LEMMA AppliedElements ==
    ASSUME IMTypeOK, NEW d \in Modules, NEW i \in 1 .. Len(applied[d])
    PROVE  applied[d][i] \in Message
<1>1. applied[d] \in Seq(Message)
  BY DEF IMTypeOK
<1> QED BY <1>1, ElementOfSeq

LEMMA NextCallIsFirst ==
    ASSUME IMTypeOK, NEW s \in Modules, NEW d \in Modules, calls[s][d] # <<>>
    PROVE  1 \in 1 .. Len(calls[s][d]) /\ NextCall(s, d) = calls[s][d][1]
<1>1. calls[s][d] \in Seq(Call) /\ Len(calls[s][d]) \in Nat \ {0}
  BY EmptySeq DEF IMTypeOK
<1>2. Head(calls[s][d]) = calls[s][d][1]
  BY <1>1
<1> QED BY <1>1, <1>2 DEF NextCall

(***************************************************************************)
(* A handler that returns Ok adds its message at the end of what its       *)
(* module has applied, and nothing anywhere else.                          *)
(***************************************************************************)
LEMMA ProcessOkApplies ==
    ASSUME IMTypeOK, NEW s \in Modules, NEW d \in Modules, Succeeds(s, d),
           NEW e \in Modules, NEW i \in 1 .. Len(applied'[e])
    PROVE  \/ i \in 1 .. Len(applied[e]) /\ applied'[e][i] = applied[e][i]
           \/ e = d /\ applied'[e][i] = NextMessage(s, d)
<1> DEFINE m == NextMessage(s, d)
<1>1. m \in Message /\ applied' = [applied EXCEPT ![d] = Append(@, m)]
  BY NextCallType DEF Succeeds, ProcessOk
<1> HIDE DEF m
<1>2. applied[d] \in Seq(Message) /\ Len(applied[d]) \in Nat
  BY LenProperties DEF IMTypeOK
<1>3. CASE e # d
  BY <1>1, <1>3 DEF IMTypeOK
<1>4. CASE e = d
  <2>1. applied'[d] = Append(applied[d], m)
    BY <1>1 DEF IMTypeOK
  <2>2. /\ Len(applied'[d]) = Len(applied[d]) + 1
        /\ \A j \in 1 .. Len(applied[d]) : applied'[d][j] = applied[d][j]
        /\ applied'[d][Len(applied[d]) + 1] = m
    BY <1>1, <1>2, <2>1, AppendProperties
  <2>3. i \in 1 .. Len(applied[d]) \/ i = Len(applied[d]) + 1
    BY <1>2, <1>4, <2>2
  <2> QED BY <1>4, <2>2, <2>3 DEF m
<1> QED BY <1>3, <1>4

LEMMA NextInOrder ==
    ASSUME IMTypeOK, InOrderOnce, CounterCovers, [ProtocolNext]_imVars
    PROVE  InOrderOnce' /\ CounterCovers'
<1>1. CASE UNCHANGED <<counter, applied>>
  BY <1>1 DEF InOrderOnce, CounterCovers
<1>2. ASSUME NEW s \in Modules, NEW d \in Modules, Succeeds(s, d)
      PROVE  InOrderOnce' /\ CounterCovers'
  <2> DEFINE n == Len(applied[d])
             m == NextMessage(s, d)
  <2>1. m \in Message /\ m.sender = s /\ m.id = NextCall(s, d).id /\ m.id \in Nat
    BY <1>2, NextCallType, BoundsAssumption DEF Succeeds, ProcessOk, NextMessage, Ids,
                                                Message
  <2>2. counter[d][s] < m.id
    BY <1>2, <2>1 DEF Succeeds, ProcessOk, IsNew
  <2>3. /\ counter' = [counter EXCEPT ![d][s] = m.id]
        /\ applied' = [applied EXCEPT ![d] = Append(@, m)]
    BY <1>2, <2>1 DEF Succeeds, ProcessOk
  <2> HIDE DEF m
  <2>4. applied[d] \in Seq(Message) /\ n \in Nat
    BY LenProperties DEF IMTypeOK
  <2>5. /\ Len(applied'[d]) = n + 1 /\ applied'[d][n + 1] = m
        /\ \A i \in 1 .. n : applied'[d][i] = applied[d][i]
        /\ \A e \in Modules \ {d} : applied'[e] = applied[e]
    BY <2>1, <2>3, <2>4, AppendProperties DEF IMTypeOK
  <2>6. /\ counter'[d][s] = m.id
        /\ \A t \in Modules \ {s} : counter'[d][t] = counter[d][t]
        /\ \A e \in Modules \ {d} : counter'[e] = counter[e]
    BY <2>3 DEF IMTypeOK
  <2>7. \A e \in Modules : \A i \in 1 .. Len(applied[e]) :
            /\ applied[e][i].sender \in Modules /\ applied[e][i].id \in Nat
            /\ counter[e][applied[e][i].sender] \in Nat
    <3> SUFFICES ASSUME NEW e \in Modules, NEW i \in 1 .. Len(applied[e])
                 PROVE  /\ applied[e][i].sender \in Modules /\ applied[e][i].id \in Nat
                        /\ counter[e][applied[e][i].sender] \in Nat
      OBVIOUS
    <3>1. applied[e] \in Seq(Message)
      BY DEF IMTypeOK
    <3>2. applied[e][i] \in Message
      BY <3>1, ElementOfSeq
    <3>3. counter[e][applied[e][i].sender] \in 0 .. MaxMessages
      BY <3>2 DEF IMTypeOK, Message
    <3> QED BY <3>2, <3>3, BoundsAssumption DEF Message, Ids
  <2>8. \A i \in 1 .. n : applied[d][i].sender = s => applied[d][i].id < m.id
    <3> SUFFICES ASSUME NEW i \in 1 .. n, applied[d][i].sender = s
                 PROVE  applied[d][i].id < m.id
      OBVIOUS
    <3>1. applied[d][i].id <= counter[d][s]
      BY DEF CounterCovers
    <3> QED BY <3>1, <2>1, <2>2, <2>7
  <2>9. CounterCovers'
    <3> SUFFICES ASSUME NEW e \in Modules, NEW i \in 1 .. Len(applied'[e])
                 PROVE  applied'[e][i].id <= counter'[e][applied'[e][i].sender]
      BY DEF CounterCovers
    <3>1. CASE e # d
      BY <3>1, <2>5, <2>6 DEF CounterCovers
    <3>2. CASE e = d /\ i = n + 1
      BY <3>2, <2>1, <2>5, <2>6
    <3>3. CASE e = d /\ i # n + 1
      <4>1. i \in 1 .. n /\ applied'[d][i] = applied[d][i]
        BY <3>3, <2>4, <2>5
      <4>2. applied[d][i].id <= counter[d][applied[d][i].sender]
        BY <4>1 DEF CounterCovers
      <4>3. CASE applied[d][i].sender = s
        BY <3>3, <4>1, <4>3, <2>1, <2>6, <2>7, <2>8
      <4>4. CASE applied[d][i].sender # s
        BY <3>3, <4>1, <4>2, <4>4, <2>6, <2>7
      <4> QED BY <4>3, <4>4
    <3> QED BY <3>1, <3>2, <3>3
  <2>10. InOrderOnce'
    <3> SUFFICES ASSUME NEW e \in Modules,
                        NEW i \in 1 .. Len(applied'[e]), NEW j \in 1 .. Len(applied'[e]),
                        i < j, applied'[e][i].sender = applied'[e][j].sender
                 PROVE  applied'[e][i].id < applied'[e][j].id
      BY DEF InOrderOnce
    <3>1. CASE e # d
      BY <3>1, <2>5 DEF InOrderOnce
    <3>2. CASE e = d /\ j = n + 1
      <4>1. i \in 1 .. n /\ applied'[d][i] = applied[d][i] /\ applied'[d][j] = m
        BY <3>2, <2>4, <2>5
      <4> QED BY <3>2, <4>1, <2>1, <2>8
    <3>3. CASE e = d /\ j # n + 1
      <4>1. /\ i \in 1 .. n /\ applied'[d][i] = applied[d][i]
            /\ j \in 1 .. n /\ applied'[d][j] = applied[d][j]
        BY <3>3, <2>4, <2>5
      <4> QED BY <3>3, <4>1 DEF InOrderOnce
    <3> QED BY <3>1, <3>2, <3>3
  <2> QED BY <2>9, <2>10
<1> QED BY <1>1, <1>2, OnlyProcessOkApplies

(***************************************************************************)
(* Whatever the relay resends and reorders between senders, however often  *)
(* it or the modules restart, the messages of one sender take effect at a  *)
(* module in ascending order of their ids, each at most once.              *)
(***************************************************************************)
THEOREM AppliedInOrderOnce == IMSpec => []InOrderOnce
<1>1. IMInit => InOrderOnce /\ CounterCovers
  <2> SUFFICES ASSUME IMInit PROVE \A d \in Modules : applied[d] = <<>>
    BY EmptySeq DEF InOrderOnce, CounterCovers
  <2> QED BY DEF IMInit
<1>2. IMTypeOK /\ InOrderOnce /\ CounterCovers /\ [IMNext]_imVars
        => InOrderOnce' /\ CounterCovers'
  BY StepsOfProtocol, NextInOrder
<1> QED BY <1>1, <1>2, TypeCorrect, PTL DEF IMSpec

-----------------------------------------------------------------------------
(***************************************************************************)
(* Where a message can be: its row, the calls that carry it and its effect *)
(* are all at the one module it was addressed to.                          *)
(***************************************************************************)
AddressedTo(s, id, d) == id \in 1 .. LastId(s) /\ addressee[s][id] = d

RowsAddressed == \A s \in Modules : \A m \in outbox[s] : AddressedTo(s, m.id, m.to)

CallsAddressed ==
    \A s, d \in Modules : \A i \in 1 .. Len(calls[s][d]) :
        AddressedTo(s, calls[s][d][i].id, d)

EffectsAddressed ==
    \A d \in Modules : \A i \in 1 .. Len(applied[d]) :
        AddressedTo(applied[d][i].sender, applied[d][i].id, d)

(***************************************************************************)
(* An answer Err, stored, on its way or received, stands for a failure.    *)
(***************************************************************************)
ErrorsAreFailures ==
    /\ \A d \in Modules : errors[d] \cup saves[d] \subseteq failed
    /\ \A r \in results : r.result = "Err" => [sender |-> r.sender, id |-> r.id] \in failed
    /\ \A s \in Modules : \A i \in 1 .. Len(responses[s]) :
          responses[s][i].result = "Err" => [sender |-> s,
          id |-> responses[s][i].id] \in failed
    /\ \A s \in Modules : \A r \in resolved[s] :
          r.result = "Err" => [sender |-> s, id |-> r.id] \in failed

FailuresTakeNoEffect ==
    \A d \in Modules : \A i \in 1 .. Len(applied[d]) : applied[d][i] \notin failed

(***************************************************************************)
(* The outbox tables change only by transactions that insert rows (maybe   *)
(* none) and delete rows; what was sent to whom never changes, and every   *)
(* new row goes to the module it is addressed to.                          *)
(***************************************************************************)
LEMMA OnlyPostsChangeOutboxes ==
    ASSUME IMTypeOK, [ProtocolNext]_imVars
    PROVE  \/ UNCHANGED outboxVars
           \/ \E s \in Modules : \E kept \in SUBSET outbox[s] : \E rows \in Seq(Row) :
                Post(s, kept, rows)
<1> DEFINE Posts == \E s \in Modules : \E kept \in SUBSET outbox[s] : \E rows \in Seq(Row) :
                        Post(s, kept, rows)
<1>1. CASE UNCHANGED imVars
  BY <1>1 DEF imVars
<1>2. ASSUME NEW s \in Modules, Transacts(s)
      PROVE  Posts
  <2>1. PICK rows \in Seq(Row) : Post(s, outbox[s], rows)
    BY <1>2 DEF Transacts
  <2> QED BY <2>1
<1>4. ASSUME NEW s \in Modules, NEW d \in Modules, Succeeds(s, d)
      PROVE  Posts
  <2>1. PICK rows \in Seq(Row) : Post(d, outbox[d], rows)
    BY <1>4 DEF Succeeds, ProcessOk
  <2> QED BY <2>1
<1>5. ASSUME NEW s \in Modules, Concludes(s)
      PROVE  Posts
  <2>1. PICK rows \in Seq(Row) : Post(s, outbox[s] \ Answered(s, Head(responses[s])), rows)
    BY <1>5 DEF Concludes, OnProcessed
  <2> QED BY <2>1
<1>6. ASSUME NEW s \in Modules, NEW d \in Modules,
             RelayForward(s, d) \/ ProcessDuplicate(s, d) \/ ProcessErr(s, d)
               \/ ProcessPanic(s, d)
      PROVE  UNCHANGED outboxVars
  BY <1>6 DEF RelayForward, ProcessDuplicate, ProcessErr, ProcessPanic
<1>7. ASSUME NEW d \in Modules,
             SaveError(d) \/ OnProcessedPanic(d) \/ OnProcessedGone(d) \/ ModuleRestart(d)
      PROVE  UNCHANGED outboxVars
  BY <1>7 DEF SaveError, OnProcessedPanic, OnProcessedGone, ModuleRestart
<1>8. RelayRespond \/ RelayRestart => UNCHANGED outboxVars
  BY DEF RelayRespond, RelayRestart
<1> QED BY <1>1, <1>2, <1>4, <1>5, <1>6, <1>7, <1>8 DEF ProtocolNext

LEMMA NextAddresses ==
    ASSUME IMTypeOK, [ProtocolNext]_imVars
    PROVE  /\ \A s \in Modules : \A id, d : AddressedTo(s, id, d) => AddressedTo(s, id, d)'
           /\ \A s \in Modules : \A m \in outbox'[s] :
                m \in outbox[s] \/ AddressedTo(s, m.id, m.to)'
<1>1. CASE UNCHANGED outboxVars
  BY <1>1 DEF outboxVars, AddressedTo, LastId
<1>2. ASSUME NEW s \in Modules, NEW kept \in SUBSET outbox[s], NEW rows \in Seq(Row),
             Post(s, kept, rows)
      PROVE  /\ \A t \in Modules : \A id, d : AddressedTo(t, id, d) => AddressedTo(t, id, d)'
             /\ \A t \in Modules : \A m \in outbox'[t] :
                    m \in outbox[t] \/ AddressedTo(t, m.id, m.to)'
  <2> DEFINE tos == [i \in DOMAIN rows |-> rows[i].to]
             n == Len(addressee[s])
  <2>1. /\ DOMAIN rows = 1 .. Len(rows) /\ Len(rows) \in Nat
        /\ \A i \in 1 .. Len(rows) : rows[i] \in Row
    BY LenProperties, ElementOfSeq
  <2>2. tos \in [1 .. Len(rows) -> Modules]
    BY <2>1 DEF Row
  <2>3. tos \in Seq(Modules) /\ Len(tos) = Len(rows)
    BY <2>1, <2>2, FunctionIsSeq
  <2>4. addressee[s] \in Seq(Modules) /\ n \in Nat
    BY LenProperties DEF IMTypeOK
  <2>a. /\ addressee' = [addressee EXCEPT ![s] = @ \o tos]
        /\ outbox' = [outbox EXCEPT ![s] = kept \cup Numbered(s, rows)]
    BY <1>2 DEF Post
  <2> HIDE DEF tos
  <2>5. addressee'[s] = addressee[s] \o tos
        /\ \A t \in Modules \ {s} : addressee'[t] = addressee[t]
    BY <2>a DEF IMTypeOK
  <2>6. /\ Len(addressee'[s]) = n + Len(rows)
        /\ \A i \in 1 .. n : addressee'[s][i] = addressee[s][i]
        /\ \A i \in 1 .. Len(rows) : addressee'[s][n + i] = tos[i]
    <3>1. Len(addressee[s] \o tos) = Len(addressee[s]) + Len(tos)
      BY <2>3, <2>4, ConcatElements
    <3>2. ASSUME NEW i \in 1 .. Len(addressee[s])
          PROVE  (addressee[s] \o tos)[i] = addressee[s][i]
      BY <2>3, <2>4, ConcatElements
    <3>3. ASSUME NEW i \in 1 .. Len(tos)
          PROVE  (addressee[s] \o tos)[Len(addressee[s]) + i] = tos[i]
      BY <2>3, <2>4, ConcatElements
    <3> HIDE DEF n
    <3>4. n = Len(addressee[s])
      BY DEF n
    <3>5. Len(addressee'[s]) = n + Len(rows)
      BY <2>3, <2>5, <3>1, <3>4
    <3>6. \A i \in 1 .. n : addressee'[s][i] = addressee[s][i]
      BY <2>5, <3>2, <3>4
    <3>7. \A i \in 1 .. Len(rows) : addressee'[s][n + i] = tos[i]
      BY <2>3, <2>5, <3>3, <3>4
    <3> QED BY <3>5, <3>6, <3>7
  <2>7. ASSUME NEW t \in Modules, NEW id, NEW d, AddressedTo(t, id, d)
        PROVE  AddressedTo(t, id, d)'
    <3>1. CASE t = s
      <4>1. id \in 1 .. n /\ addressee[s][id] = d
        BY <2>7, <3>1 DEF AddressedTo, LastId
      <4>2. id \in 1 .. Len(addressee'[s]) /\ addressee'[s][id] = d
        BY <2>1, <2>4, <2>6, <4>1
      <4> QED BY <3>1, <4>2 DEF AddressedTo, LastId
    <3>2. CASE t # s
      BY <2>5, <2>7, <3>2 DEF AddressedTo, LastId
    <3> QED BY <3>1, <3>2
  <2>8. ASSUME NEW t \in Modules, NEW m \in outbox'[t], m \notin outbox[t]
        PROVE  AddressedTo(t, m.id, m.to)'
    <3>1. t = s /\ m \in Numbered(s, rows)
      BY <2>8, <2>a DEF IMTypeOK
    <3>2. PICK i \in 1 .. Len(rows) : m.id = n + i /\ m.to = rows[i].to
      BY <3>1, <2>1 DEF Numbered, LastId
    <3>3. m.id \in 1 .. Len(addressee'[s])
      BY <3>2, <2>1, <2>4, <2>6
    <3>4. addressee'[s][m.id] = rows[i].to
      BY <3>2, <2>1, <2>6 DEF tos
    <3> QED BY <3>1, <3>2, <3>3, <3>4 DEF AddressedTo, LastId
  <2> QED BY <2>7, <2>8
<1> QED BY <1>1, <1>2, OnlyPostsChangeOutboxes

(***************************************************************************)
(* A call in a queue was there before the step, or carries an outbox row.  *)
(***************************************************************************)
LEMMA NextCalls ==
    ASSUME IMTypeOK, [ProtocolNext]_imVars, NEW s \in Modules, NEW d \in Modules,
           NEW i \in 1 .. Len(calls'[s][d])
    PROVE  \/ \E j \in 1 .. Len(calls[s][d]) : calls'[s][d][i].id = calls[s][d][j].id
           \/ \E m \in outbox[s] : m.to = d /\ calls'[s][d][i].id = m.id
<1> DEFINE Old == \E j \in 1 .. Len(calls[s][d]) : calls'[s][d][i].id = calls[s][d][j].id
           OfRow == \E m \in outbox[s] : m.to = d /\ calls'[s][d][i].id = m.id
<1>a. calls[s][d] \in Seq(Call) /\ Len(calls[s][d]) \in Nat
  BY LenProperties DEF IMTypeOK
<1>1. CASE calls'[s][d] = calls[s][d]
  BY <1>1
<1>2. ASSUME NEW t \in Modules, NEW e \in Modules, RelayForward(t, e)
      PROVE  Old \/ OfRow
  <2>1. CASE t # s \/ e # d
    <3>1. PICK m : calls' = [calls EXCEPT ![t][e] =
                        Append(@, [id |-> m.id, contents |-> m.contents, live |-> TRUE])]
      BY <1>2 DEF RelayForward
    <3>2. calls'[s][d] = calls[s][d]
      BY <2>1, <3>1 DEF IMTypeOK
    <3> QED BY <1>1, <3>2
  <2>2. CASE t = s /\ e = d
    <3>1. PICK m \in outbox[s] :
            /\ m.to = d
            /\ calls' = [calls EXCEPT ![s][d] =
                            Append(@, [id |-> m.id, contents |-> m.contents,
                            live |-> TRUE])]
      BY <1>2, <2>2 DEF RelayForward, Backlog
    <3> DEFINE c == [id |-> m.id, contents |-> m.contents, live |-> TRUE]
    <3>2. c \in Call /\ c.id = m.id
      <4>1. m \in InterModuleMessage
        BY DEF IMTypeOK
      <4> QED BY <4>1 DEF InterModuleMessage, Call
    <3>3. calls'[s][d] = Append(calls[s][d], c)
      BY <3>1 DEF IMTypeOK
    <3> HIDE DEF c
    <3>4. /\ Len(calls'[s][d]) = Len(calls[s][d]) + 1
          /\ \A j \in 1 .. Len(calls[s][d]) : calls'[s][d][j] = calls[s][d][j]
          /\ calls'[s][d][Len(calls[s][d]) + 1] = c
      BY <1>a, <3>2, <3>3, AppendProperties
    <3>5. CASE i = Len(calls[s][d]) + 1
      BY <3>1, <3>2, <3>4, <3>5
    <3>6. CASE i # Len(calls[s][d]) + 1
      <4>1. i \in 1 .. Len(calls[s][d])
        BY <1>a, <3>4, <3>6
      <4> QED BY <3>4, <4>1
    <3> QED BY <3>5, <3>6
  <2> QED BY <2>1, <2>2
<1>3. ASSUME NEW t \in Modules, NEW e \in Modules, calls[t][e] # <<>>,
             NEW r, Answer(t, e, r)
      PROVE  Old
  <2>1. CASE t # s \/ e # d
    BY <1>1, <1>3, <2>1 DEF Answer, IMTypeOK
  <2>2. CASE t = s /\ e = d
    <3>1. calls'[s][d] = Tail(calls[s][d])
      BY <1>3, <2>2 DEF Answer, IMTypeOK
    <3>2. /\ Len(calls'[s][d]) = Len(calls[s][d]) - 1
          /\ \A j \in 1 .. Len(calls'[s][d]) : calls'[s][d][j] = calls[s][d][j + 1]
      BY <1>a, <1>3, <2>2, <3>1, HeadTailProperties
    <3>3. i + 1 \in 1 .. Len(calls[s][d])
      BY <1>a, <3>2
    <3> QED BY <3>2, <3>3
  <2> QED BY <2>1, <2>2
<1>4. ASSUME NEW t \in Modules, NEW e \in Modules,
             ProcessDuplicate(t, e) \/ Succeeds(t, e) \/ ProcessErr(t, e)
               \/ ProcessPanic(t, e)
      PROVE  Old
  <2>1. PICK r : calls[t][e] # <<>> /\ Answer(t, e, r)
    BY <1>4 DEF ProcessDuplicate, Succeeds, ProcessOk, ProcessErr, ProcessPanic
  <2> QED BY <1>3, <2>1
<1>5. ASSUME RelayRestart
      PROVE  Old
  <2>1. calls'[s][d] = IF OrphansRun THEN Orphan(calls[s][d]) ELSE <<>>
    BY <1>5 DEF RelayRestart
  <2>2. /\ Len(Orphan(calls[s][d])) = Len(calls[s][d])
        /\ \A j \in 1 .. Len(calls[s][d]) : Orphan(calls[s][d])[j].id = calls[s][d][j].id
    BY <1>a, OrphanCalls
  <2> QED BY <2>1, <2>2, EmptySeq
<1>6. ASSUME NEW e \in Modules, ModuleRestart(e)
      PROVE  Old
  <2>1. calls'[s][d] = calls[s][d] \/ calls'[s][d] = <<>>
    BY <1>6 DEF ModuleRestart, IMTypeOK
  <2> QED BY <1>1, <2>1, EmptySeq
<1>7. ASSUME \/ UNCHANGED imVars
             \/ \E t \in Modules : Transacts(t)
             \/ RelayRespond
             \/ \E t \in Modules : SaveError(t) \/ Concludes(t)
                                     \/ OnProcessedPanic(t) \/ OnProcessedGone(t)
      PROVE  Old
  BY <1>1, <1>7 DEF imVars, Transacts, RelayRespond, SaveError, Concludes, OnProcessed,
                    OnProcessedPanic,
                    OnProcessedGone
<1> QED BY <1>2, <1>4, <1>5, <1>6, <1>7 DEF ProtocolNext

(***************************************************************************)
(* Failures are remembered; only a handler that fails adds one.            *)
(***************************************************************************)
LEMMA FailedGrows ==
    ASSUME [ProtocolNext]_imVars
    PROVE  /\ failed \subseteq failed'
           /\ \/ failed' = failed
              \/ \E s, d \in Modules : /\ ProcessErr(s, d) \/ ProcessPanic(s, d)
                                       /\ failed' = failed \cup {NextMessage(s, d)}
<1>1. ASSUME NEW s \in Modules, NEW d \in Modules, ProcessErr(s, d) \/ ProcessPanic(s, d)
      PROVE  failed' = failed \cup {NextMessage(s, d)}
  BY <1>1 DEF ProcessErr, ProcessPanic
<1>2. ASSUME \/ UNCHANGED imVars
             \/ \E s \in Modules : Transacts(s)
             \/ \E s \in Modules : \E d \in Modules : RelayForward(s, d)
                                        \/ ProcessDuplicate(s, d) \/ Succeeds(s, d)
             \/ RelayRespond
             \/ \E d \in Modules : SaveError(d) \/ Concludes(d) \/ OnProcessedPanic(d)
                                     \/ OnProcessedGone(d) \/ ModuleRestart(d)
             \/ RelayRestart
      PROVE  failed' = failed
  BY <1>2 DEF imVars, destinationVars, Transacts, RelayForward, ProcessDuplicate,
              Succeeds, ProcessOk,
              RelayRespond, SaveError, Concludes, OnProcessed, OnProcessedPanic,
              OnProcessedGone,
              ModuleRestart, RelayRestart
<1> QED BY <1>1, <1>2 DEF ProtocolNext

LEMMA NextAddressed ==
    ASSUME IMTypeOK, RowsAddressed, CallsAddressed, EffectsAddressed, [ProtocolNext]_imVars
    PROVE  RowsAddressed' /\ CallsAddressed' /\ EffectsAddressed'
<1>1. RowsAddressed'
  BY NextAddresses DEF RowsAddressed
<1>2. CallsAddressed'
  <2> SUFFICES ASSUME NEW s \in Modules, NEW d \in Modules, NEW i \in 1 .. Len(calls'[s][d]),
                      NEW id, id = calls'[s][d][i].id
               PROVE  AddressedTo(s, id, d)'
    BY DEF CallsAddressed
  <2>1. AddressedTo(s, id, d)
    BY NextCalls DEF CallsAddressed, RowsAddressed
  <2> QED BY <2>1, NextAddresses
<1>3. ASSUME UNCHANGED applied
      PROVE  EffectsAddressed'
  <2> SUFFICES ASSUME NEW d \in Modules, NEW i \in 1 .. Len(applied[d]),
                      NEW m, m = applied[d][i]
               PROVE  AddressedTo(m.sender, m.id, d)'
    BY <1>3 DEF EffectsAddressed
  <2>1. AddressedTo(m.sender, m.id, d)
    BY DEF EffectsAddressed
  <2>2. m.sender \in Modules
    BY AppliedElements DEF Message
  <2> QED BY <2>1, <2>2, NextAddresses
<1>4. ASSUME NEW s \in Modules, NEW d \in Modules, Succeeds(s, d)
      PROVE  EffectsAddressed'
  <2> SUFFICES ASSUME NEW e \in Modules, NEW i \in 1 .. Len(applied'[e]),
                      NEW m, m = applied'[e][i]
               PROVE  AddressedTo(m.sender, m.id, e)'
    BY DEF EffectsAddressed
  <2>1. CASE i \in 1 .. Len(applied[e]) /\ m = applied[e][i]
    <3>1. m \in Message /\ AddressedTo(m.sender, m.id, e)
      BY <2>1, AppliedElements DEF EffectsAddressed
    <3> QED BY <3>1, NextAddresses DEF Message
  <2>2. CASE e = d /\ m = NextMessage(s, d)
    <3>1. m.sender = s /\ m.id = calls[s][d][1].id /\ 1 \in 1 .. Len(calls[s][d])
      BY <1>4, <2>2, NextCallIsFirst DEF Succeeds, ProcessOk, NextMessage
    <3>2. AddressedTo(m.sender, m.id, e)
      BY <2>2, <3>1 DEF CallsAddressed
    <3> QED BY <3>1, <3>2, NextAddresses
  <2> QED BY <1>4, <2>1, <2>2, ProcessOkApplies
<1> QED BY <1>1, <1>2, <1>3, <1>4, OnlyProcessOkApplies

(***************************************************************************)
(* What is answered Err has failed, before the step or in it.              *)
(***************************************************************************)
LEMMA NextResults ==
    ASSUME IMTypeOK, ErrorsAreFailures, [ProtocolNext]_imVars,
           NEW r \in results', r.result = "Err"
    PROVE  [sender |-> r.sender, id |-> r.id] \in failed'
<1>1. failed \subseteq failed'
  BY FailedGrows
<1>2. CASE r \in results
  BY <1>1, <1>2 DEF ErrorsAreFailures
<1>3. ASSUME NEW s \in Modules, NEW d \in Modules, NEW a, Answer(s, d, a), r \notin results
      PROVE  r = [sender |-> s, id |-> NextCall(s, d).id, result |-> a]
  BY <1>3 DEF Answer
<1>4. ASSUME NEW s \in Modules, NEW d \in Modules, ProcessDuplicate(s, d)
      PROVE  [sender |-> r.sender, id |-> r.id] \in failed'
  <2>1. CASE StoredError(s, d)
    BY <1>1, <1>2, <1>3, <1>4, <2>1
       DEF ProcessDuplicate, StoredError, ErrorsAreFailures, NextMessage
  <2>2. CASE ~StoredError(s, d)
    <3>1. Answer(s, d, "Ok")
      BY <1>4, <2>2 DEF ProcessDuplicate
    <3> QED BY <1>2, <1>3, <3>1
  <2> QED BY <2>1, <2>2
<1>5. ASSUME NEW s \in Modules, NEW d \in Modules, Succeeds(s, d)
      PROVE  [sender |-> r.sender, id |-> r.id] \in failed'
  <2>1. Answer(s, d, "Ok")
    BY <1>5 DEF Succeeds, ProcessOk
  <2> QED BY <1>2, <1>3, <2>1
<1>6. ASSUME NEW s \in Modules, NEW d \in Modules, ProcessErr(s, d) \/ ProcessPanic(s, d)
      PROVE  [sender |-> r.sender, id |-> r.id] \in failed'
  BY <1>2, <1>3, <1>6 DEF ProcessErr, ProcessPanic, NextMessage
<1>7. ASSUME \/ UNCHANGED imVars
             \/ \E s \in Modules : Transacts(s)
             \/ \E s \in Modules : \E d \in Modules : RelayForward(s, d)
             \/ RelayRespond
             \/ \E d \in Modules : SaveError(d) \/ Concludes(d) \/ OnProcessedPanic(d)
                                     \/ OnProcessedGone(d) \/ ModuleRestart(d)
             \/ RelayRestart
      PROVE  results' \subseteq results
  BY <1>7 DEF imVars, relayVars, Transacts, RelayForward, RelayRespond, SaveError,
              Concludes, OnProcessed,
              OnProcessedPanic, OnProcessedGone, ModuleRestart, RelayRestart
<1> QED BY <1>2, <1>4, <1>5, <1>6, <1>7 DEF ProtocolNext

LEMMA NextStoredErrors ==
    ASSUME IMTypeOK, ErrorsAreFailures, [ProtocolNext]_imVars, NEW e \in Modules
    PROVE  errors'[e] \cup saves'[e] \subseteq failed'
<1>1. failed \subseteq failed'
  BY FailedGrows
<1>2. CASE errors'[e] \cup saves'[e] \subseteq errors[e] \cup saves[e]
  BY <1>1, <1>2 DEF ErrorsAreFailures
<1>3. ASSUME NEW s \in Modules, NEW d \in Modules, ProcessErr(s, d)
      PROVE  errors'[e] \cup saves'[e] \subseteq failed'
  <2>1. /\ errors' = errors /\ NextMessage(s, d) \in failed'
        /\ saves' = [saves EXCEPT ![d] = @ \cup {NextMessage(s, d)}]
    BY <1>3 DEF ProcessErr
  <2>2. saves'[e] \subseteq saves[e] \cup {NextMessage(s, d)}
    BY <2>1 DEF IMTypeOK
  <2> QED BY <1>1, <2>1, <2>2 DEF ErrorsAreFailures
<1>4. ASSUME NEW d \in Modules, SaveError(d)
      PROVE  errors'[e] \cup saves'[e] \subseteq errors[e] \cup saves[e]
  <2>1. PICK m \in saves[d] : /\ errors' = [errors EXCEPT ![d] = StoreError(@, m)]
                              /\ saves' = [saves EXCEPT ![d] = @ \ {m}]
    BY <1>4 DEF SaveError
  <2> QED BY <2>1 DEF StoreError, IMTypeOK
<1>5. ASSUME NEW d \in Modules, ModuleRestart(d)
      PROVE  errors'[e] \cup saves'[e] \subseteq errors[e] \cup saves[e]
  BY <1>5 DEF ModuleRestart, IMTypeOK
<1>6. ASSUME \/ UNCHANGED imVars
             \/ \E s \in Modules : Transacts(s)
             \/ \E s \in Modules : \E d \in Modules : RelayForward(s, d)
                    \/ ProcessDuplicate(s, d) \/ Succeeds(s, d) \/ ProcessPanic(s, d)
             \/ RelayRespond
             \/ \E d \in Modules : Concludes(d) \/ OnProcessedPanic(d)
                                     \/ OnProcessedGone(d)
             \/ RelayRestart
      PROVE  UNCHANGED <<errors, saves>>
  <2>1. ASSUME UNCHANGED imVars
        PROVE  UNCHANGED <<errors, saves>>
    BY <2>1 DEF imVars, destinationVars
  <2>2. ASSUME NEW s \in Modules, Transacts(s)
        PROVE  UNCHANGED <<errors, saves>>
    BY <2>2 DEF Transacts, destinationVars
  <2>3. ASSUME NEW s \in Modules, NEW d \in Modules,
               RelayForward(s, d) \/ ProcessDuplicate(s, d)
        PROVE  UNCHANGED <<errors, saves>>
    BY <2>3 DEF RelayForward, ProcessDuplicate, destinationVars
  <2>4. ASSUME NEW s \in Modules, NEW d \in Modules,
               Succeeds(s, d) \/ ProcessPanic(s, d)
        PROVE  UNCHANGED <<errors, saves>>
    BY <2>4 DEF Succeeds, ProcessOk, ProcessPanic, destinationVars
  <2>5. ASSUME NEW d \in Modules,
               Concludes(d) \/ OnProcessedPanic(d) \/ OnProcessedGone(d)
        PROVE  UNCHANGED <<errors, saves>>
    BY <2>5 DEF Concludes, OnProcessed, OnProcessedPanic, OnProcessedGone, destinationVars
  <2>6. ASSUME RelayRespond \/ RelayRestart
        PROVE  UNCHANGED <<errors, saves>>
    BY <2>6 DEF RelayRespond, RelayRestart, destinationVars
  <2> QED BY <1>6, <2>1, <2>2, <2>3, <2>4, <2>5, <2>6, Zenon
<1> QED BY <1>2, <1>3, <1>4, <1>5, <1>6 DEF ProtocolNext

(***************************************************************************)
(* A response in a queue was there before the step, or passes a result on. *)
(***************************************************************************)
LEMMA NextResponses ==
    ASSUME IMTypeOK, [ProtocolNext]_imVars, NEW s \in Modules, NEW i \in 1 .. Len(responses'[s])
    PROVE  \/ \E j \in 1 .. Len(responses[s]) :
                /\ responses'[s][i].id = responses[s][j].id
                /\ responses'[s][i].result = responses[s][j].result
           \/ \E r \in results : /\ r.sender = s
                                 /\ responses'[s][i].id = r.id
                                 /\ responses'[s][i].result = r.result
<1> DEFINE Old == \E j \in 1 .. Len(responses[s]) :
                    /\ responses'[s][i].id = responses[s][j].id
                    /\ responses'[s][i].result = responses[s][j].result
           OfResult == \E r \in results : /\ r.sender = s
                                          /\ responses'[s][i].id = r.id
                                          /\ responses'[s][i].result = r.result
<1>a. responses[s] \in Seq(Response) /\ Len(responses[s]) \in Nat
  BY LenProperties DEF IMTypeOK
<1>1. CASE responses'[s] = responses[s] \/ responses'[s] = <<>>
  BY <1>1, EmptySeq
<1>2. ASSUME RelayRespond
      PROVE  Old \/ OfResult
  <2>1. PICK r \in results :
            responses' = [responses EXCEPT ![r.sender] =
                            Append(@, [id |-> r.id, result |-> r.result, live |-> TRUE])]
    BY <1>2 DEF RelayRespond
  <2>2. CASE r.sender # s
    BY <1>1, <2>1, <2>2 DEF IMTypeOK
  <2>3. CASE r.sender = s
    <3> DEFINE a == [id |-> r.id, result |-> r.result, live |-> TRUE]
    <3>1. a \in Response /\ a.id = r.id /\ a.result = r.result
      <4>1. r \in [sender : Modules, id : Ids, result : Results]
        BY DEF IMTypeOK
      <4> QED BY <4>1 DEF Response
    <3>2. responses'[s] = Append(responses[s], a)
      BY <2>1, <2>3 DEF IMTypeOK
    <3> HIDE DEF a
    <3>3. /\ Len(responses'[s]) = Len(responses[s]) + 1
          /\ \A j \in 1 .. Len(responses[s]) : responses'[s][j] = responses[s][j]
          /\ responses'[s][Len(responses[s]) + 1] = a
      BY <1>a, <3>1, <3>2, AppendProperties
    <3>4. i \in 1 .. Len(responses[s]) \/ i = Len(responses[s]) + 1
      BY <1>a, <3>3
    <3> QED BY <2>3, <3>1, <3>3, <3>4
  <2> QED BY <2>2, <2>3
<1>3. ASSUME NEW t \in Modules, responses[t] # <<>>,
             responses' = [responses EXCEPT ![t] = Tail(@)]
      PROVE  Old
  <2>1. CASE t # s
    BY <1>1, <1>3, <2>1 DEF IMTypeOK
  <2>2. CASE t = s
    <3>1. responses'[s] = Tail(responses[s])
      BY <1>3, <2>2 DEF IMTypeOK
    <3>2. /\ Len(responses'[s]) = Len(responses[s]) - 1
          /\ \A j \in 1 .. Len(responses'[s]) : responses'[s][j] = responses[s][j + 1]
      BY <1>a, <1>3, <2>2, <3>1, HeadTailProperties
    <3>3. i + 1 \in 1 .. Len(responses[s])
      BY <1>a, <3>2
    <3> QED BY <3>2, <3>3
  <2> QED BY <2>1, <2>2
<1>4. ASSUME NEW t \in Modules,
             Concludes(t) \/ OnProcessedPanic(t) \/ OnProcessedGone(t)
      PROVE  Old
  <2>1. responses[t] # <<>> /\ responses' = [responses EXCEPT ![t] = Tail(@)]
    BY <1>4 DEF Concludes, OnProcessed, OnProcessedPanic, OnProcessedGone
  <2> QED BY <1>3, <2>1
<1>5. ASSUME RelayRestart
      PROVE  Old
  <2>1. responses'[s] = IF OrphansRun THEN Orphan(responses[s]) ELSE <<>>
    BY <1>5 DEF RelayRestart
  <2>2. /\ Len(Orphan(responses[s])) = Len(responses[s])
        /\ \A j \in 1 .. Len(responses[s]) :
              /\ Orphan(responses[s])[j].id = responses[s][j].id
              /\ Orphan(responses[s])[j].result = responses[s][j].result
    BY <1>a, OrphanResponses
  <2> QED BY <2>1, <2>2, EmptySeq
<1>6. ASSUME NEW d \in Modules, ModuleRestart(d)
      PROVE  Old
  <2>1. responses'[s] = responses[s] \/ responses'[s] = <<>>
    BY <1>6 DEF ModuleRestart, IMTypeOK
  <2> QED BY <1>1, <2>1
<1>7. ASSUME \/ UNCHANGED imVars
             \/ \E t \in Modules : Transacts(t)
             \/ \E t \in Modules : \E d \in Modules :
                    RelayForward(t, d) \/ ProcessDuplicate(t, d) \/ Succeeds(t, d)
                      \/ ProcessErr(t, d) \/ ProcessPanic(t, d)
             \/ \E t \in Modules : SaveError(t)
      PROVE  Old
  BY <1>1, <1>7 DEF imVars, Transacts, RelayForward, ProcessDuplicate, Succeeds,
                    ProcessOk, ProcessErr,
                    ProcessPanic, SaveError
<1> QED BY <1>2, <1>4, <1>5, <1>6, <1>7 DEF ProtocolNext

(***************************************************************************)
(* What a sender is told is the result of the response it runs.            *)
(***************************************************************************)
LEMMA NextResolved ==
    ASSUME IMTypeOK, [ProtocolNext]_imVars, NEW s \in Modules, NEW r \in resolved'[s],
           r \notin resolved[s]
    PROVE  \E i \in 1 .. Len(responses[s]) :
              r.id = responses[s][i].id /\ r.result = responses[s][i].result
<1>1. ASSUME NEW t \in Modules, Concludes(t)
      PROVE  \E i \in 1 .. Len(responses[s]) :
                r.id = responses[s][i].id /\ r.result = responses[s][i].result
  <2> DEFINE h == Head(responses[t])
  <2>1. resolved' = [resolved EXCEPT ![t] = @ \cup {[id |-> h.id, result |-> h.result]}]
    BY <1>1 DEF Concludes, OnProcessed
  <2> HIDE DEF h
  <2>2. t = s /\ r = [id |-> h.id, result |-> h.result]
    BY <2>1 DEF IMTypeOK
  <2>3. responses[s] \in Seq(Response) /\ Len(responses[s]) \in Nat \ {0}
    BY <1>1, <2>2, EmptySeq DEF Concludes, OnProcessed, IMTypeOK
  <2>4. h = responses[s][1] /\ 1 \in 1 .. Len(responses[s])
    BY <2>2, <2>3 DEF h
  <2> QED BY <2>2, <2>4
<1>2. ASSUME \/ UNCHANGED imVars
             \/ \E t \in Modules : Transacts(t)
             \/ \E t \in Modules : \E d \in Modules :
                    RelayForward(t, d) \/ ProcessDuplicate(t, d) \/ Succeeds(t, d)
                      \/ ProcessErr(t, d) \/ ProcessPanic(t, d)
             \/ RelayRespond
             \/ \E t \in Modules : SaveError(t) \/ OnProcessedPanic(t) \/ OnProcessedGone(t)
                                     \/ ModuleRestart(t)
             \/ RelayRestart
      PROVE  resolved' = resolved
  BY <1>2 DEF imVars, Transacts, RelayForward, ProcessDuplicate, Succeeds, ProcessOk,
              ProcessErr,
              ProcessPanic, RelayRespond, SaveError, OnProcessedPanic, OnProcessedGone,
              ModuleRestart, RelayRestart
<1> QED BY <1>1, <1>2 DEF ProtocolNext

LEMMA NextErrors ==
    ASSUME IMTypeOK, ErrorsAreFailures, [ProtocolNext]_imVars
    PROVE  ErrorsAreFailures'
<1>1. failed \subseteq failed'
  BY FailedGrows
<1>2. \A s \in Modules : \A i \in 1 .. Len(responses[s]) :
        responses[s][i].result = "Err" => [sender |-> s,
        id |-> responses[s][i].id] \in failed'
  BY <1>1 DEF ErrorsAreFailures
<1>3. ASSUME NEW s \in Modules, NEW i \in 1 .. Len(responses'[s]),
             responses'[s][i].result = "Err"
      PROVE  [sender |-> s, id |-> responses'[s][i].id] \in failed'
  <2>1. \A r \in results : r.result = "Err" => [sender |-> r.sender,
  id |-> r.id] \in failed'
    BY <1>1 DEF ErrorsAreFailures
  <2> QED BY <1>2, <1>3, <2>1, NextResponses
<1>4. ASSUME NEW s \in Modules, NEW r \in resolved'[s], r.result = "Err"
      PROVE  [sender |-> s, id |-> r.id] \in failed'
  <2>1. CASE r \in resolved[s]
    BY <1>1, <1>4, <2>1 DEF ErrorsAreFailures
  <2>2. CASE r \notin resolved[s]
    BY <1>2, <1>4, <2>2, NextResolved
  <2> QED BY <2>1, <2>2
<1> QED BY <1>3, <1>4, NextStoredErrors, NextResults DEF ErrorsAreFailures

(***************************************************************************)
(* If a message that failed fails again whenever it is redelivered, no     *)
(* message both fails and takes effect.                                    *)
(***************************************************************************)
LEMMA NextFailures ==
    ASSUME StickyFailures, IMTypeOK, CounterCovers, CallsAddressed, EffectsAddressed,
           FailuresTakeNoEffect, [ProtocolNext]_imVars
    PROVE  FailuresTakeNoEffect'
<1>1. CASE UNCHANGED <<applied, failed>>
  BY <1>1 DEF FailuresTakeNoEffect
<1>2. ASSUME NEW s \in Modules, NEW d \in Modules, Succeeds(s, d)
      PROVE  FailuresTakeNoEffect'
  <2>1. failed' = failed /\ NextMessage(s, d) \notin failed
    BY <1>2 DEF Succeeds, ProcessOk
  <2> QED BY <1>2, <2>1, ProcessOkApplies DEF FailuresTakeNoEffect
<1>3. ASSUME NEW s \in Modules, NEW d \in Modules,
             ProcessErr(s, d) \/ ProcessPanic(s, d)
      PROVE  FailuresTakeNoEffect'
  <2>1. /\ applied' = applied /\ failed' = failed \cup {NextMessage(s, d)}
        /\ calls[s][d] # <<>> /\ IsNew(s, d)
    BY <1>3 DEF ProcessErr, ProcessPanic
  <2> SUFFICES ASSUME NEW e \in Modules, NEW i \in 1 .. Len(applied[e]),
                      applied[e][i] = NextMessage(s, d)
               PROVE  FALSE
    BY <2>1 DEF FailuresTakeNoEffect
  <2>2. applied[e][i].sender = s /\ applied[e][i].id = NextCall(s, d).id
    BY DEF NextMessage
  <2>3. AddressedTo(s, NextCall(s, d).id, d)
    BY <2>1, NextCallIsFirst DEF CallsAddressed
  <2>4. AddressedTo(s, NextCall(s, d).id, e)
    BY <2>2 DEF EffectsAddressed
  <2>5. e = d
    BY <2>3, <2>4 DEF AddressedTo
  <2>6. NextCall(s, d).id <= counter[d][s]
    BY <2>2, <2>5 DEF CounterCovers
  <2>7. counter[d][s] < NextCall(s, d).id
    BY <2>1 DEF IsNew
  <2>8. counter[d][s] \in 0 .. MaxMessages /\ NextCall(s, d).id \in 1 .. MaxMessages
    BY <2>1, NextCallType DEF IMTypeOK, Ids
  <2> QED BY <2>6, <2>7, <2>8, BoundsAssumption
<1> QED BY <1>1, <1>2, <1>3, FailedGrows, OnlyProcessOkApplies

(***************************************************************************)
(* What makes FailureIsReal inductive.                                     *)
(***************************************************************************)
FailureInv ==
    /\ IMTypeOK
    /\ InOrderOnce /\ CounterCovers
    /\ RowsAddressed /\ CallsAddressed /\ EffectsAddressed
    /\ ErrorsAreFailures
    /\ FailuresTakeNoEffect

LEMMA InitFailureInv == IMInit => FailureInv
<1> SUFFICES ASSUME IMInit PROVE FailureInv
  OBVIOUS
<1>1. \A d \in Modules : applied[d] = <<>> /\ responses[d] = <<>> /\ outbox[d] = {}
  BY DEF IMInit
<1>2. \A s, d \in Modules : calls[s][d] = <<>>
  BY DEF IMInit
<1>3. InOrderOnce /\ CounterCovers /\ CallsAddressed /\ EffectsAddressed
      /\ RowsAddressed /\ FailuresTakeNoEffect
  BY <1>1, <1>2, EmptySeq
     DEF InOrderOnce, CounterCovers, CallsAddressed, EffectsAddressed, RowsAddressed,
         FailuresTakeNoEffect
<1>4. ErrorsAreFailures
  BY <1>1, EmptySeq DEF IMInit, ErrorsAreFailures
<1> QED BY <1>3, <1>4, InitType DEF FailureInv

(***************************************************************************)
(* When the failures of handlers are permanent, a sender that is told of   *)
(* an error may undo what it did, for every window of the relay and        *)
(* whatever restarts: neither a lost or missing row of the error table nor *)
(* a row kept too long ever turns a success into an error.                 *)
(***************************************************************************)
THEOREM PermanentFailuresAreReal ==
    ASSUME StickyFailures
    PROVE  IMSpec => []FailureIsReal
<1>1. FailureInv /\ [IMNext]_imVars => FailureInv'
  BY StepsOfProtocol, NextType, NextInOrder, NextAddressed, NextErrors,
       NextFailures DEF FailureInv
<1>2. FailureInv => FailureIsReal
  BY DEF FailureInv, ErrorsAreFailures, FailuresTakeNoEffect, FailureIsReal, TookEffect
<1> QED BY <1>1, <1>2, InitFailureInv, PTL DEF IMSpec

-----------------------------------------------------------------------------
(***************************************************************************)
(* What makes one row at a time safe.  The rows of a sender have           *)
(* different ids, and no row is behind a call, nor a call behind the       *)
(* counter: the calls in a queue are in ascending order, and carry ids no  *)
(* greater than those of the rows that are left.                           *)
(***************************************************************************)
RowsUnique == \A s \in Modules : \A m, n \in outbox[s] : m.id = n.id => m = n

CallsOrdered ==
    \A s, d \in Modules : \A i, j \in 1 .. Len(calls[s][d]) :
        i < j => calls[s][d][i].id <= calls[s][d][j].id

CallsBeforeRows ==
    \A s, d \in Modules : \A i \in 1 .. Len(calls[s][d]) : \A m \in outbox[s] :
        m.to = d => calls[s][d][i].id <= m.id

CounterBeforeCalls ==
    \A s, d \in Modules : \A i \in 1 .. Len(calls[s][d]) : counter[d][s] <= calls[s][d][i].id

CounterBeforeRows ==
    \A s, d \in Modules : \A m \in outbox[s] : m.to = d => counter[d][s] <= m.id

CounterApplied ==
    \A s, d \in Modules : counter[d][s] # 0 =>
        \E i \in 1 .. Len(applied[d]) : applied[d][i] = [sender |-> s, id |-> counter[d][s]]

SuccessesTookEffect ==
    /\ \A r \in results : r.result = "Ok" => TookEffect(r.sender, r.id)
    /\ \A s \in Modules : \A i \in 1 .. Len(responses[s]) :
          responses[s][i].result = "Ok" => TookEffect(s, responses[s][i].id)
    /\ SuccessIsReal

(***************************************************************************)
(* A message is either in the outbox or resolved, never both.              *)
(***************************************************************************)
RowsAreUnresolved ==
    /\ \A s \in Modules : \A id \in 1 .. LastId(s) :
          RowsWithId(s, id) = {} => \E r \in resolved[s] : r.id = id
    /\ \A s \in Modules : \A r \in resolved[s] :
          r.id \in 1 .. LastId(s) /\ RowsWithId(s, r.id) = {}

CallsCarryRows ==
    \A s, d \in Modules : \A i \in 1 .. Len(calls[s][d]) : \A m \in outbox[s] :
        m.id = calls[s][d][i].id => m.contents = calls[s][d][i].contents

-----------------------------------------------------------------------------
(***************************************************************************)
(* What a step does to an outbox: it inserts rows, numbered on from the    *)
(* last id, and either keeps the rows that are there and what its module   *)
(* was told, or deletes the rows with one id and tells its module the      *)
(* outcome of that message.                                                *)
(***************************************************************************)
Inserts(s, kept, rows) ==
    /\ outbox'[s] = kept \cup Numbered(s, rows)
    /\ Len(addressee'[s]) = LastId(s) + Len(rows)

Told(s) == [id |-> Head(responses[s]).id, result |-> Head(responses[s]).result]

Keeps(s) == \E rows \in Seq(Row) : Inserts(s, outbox[s], rows) /\ resolved'[s] = resolved[s]

Hears(s) ==
    \E rows \in Seq(Row) :
        /\ responses[s] # <<>>
        /\ RowsWithId(s, Told(s).id) # {}
        /\ Inserts(s, outbox[s] \ RowsWithId(s, Told(s).id), rows)
        /\ resolved'[s] = resolved[s] \cup {Told(s)}

LEMMA PostInserts ==
    ASSUME IMTypeOK, NEW s \in Modules, NEW kept, NEW rows \in Seq(Row), Post(s, kept, rows)
    PROVE  /\ Inserts(s, kept, rows)
           /\ \A t \in Modules \ {s} : outbox'[t] = outbox[t] /\ addressee'[t] = addressee[t]
<1> DEFINE tos == [i \in DOMAIN rows |-> rows[i].to]
<1>1. /\ DOMAIN rows = 1 .. Len(rows) /\ Len(rows) \in Nat
      /\ \A i \in 1 .. Len(rows) : rows[i] \in Row
  BY LenProperties, ElementOfSeq
<1>2. tos \in [1 .. Len(rows) -> Modules]
  BY <1>1 DEF Row
<1>3. tos \in Seq(Modules) /\ Len(tos) = Len(rows)
  BY <1>1, <1>2, FunctionIsSeq
<1>4. /\ addressee' = [addressee EXCEPT ![s] = @ \o tos]
      /\ outbox' = [outbox EXCEPT ![s] = kept \cup Numbered(s, rows)]
  BY DEF Post
<1> HIDE DEF tos
<1>5. addressee[s] \in Seq(Modules)
  BY DEF IMTypeOK
<1>6. Len(addressee[s] \o tos) = Len(addressee[s]) + Len(rows)
  <2>1. Len(addressee[s] \o tos) = Len(addressee[s]) + Len(tos)
    BY <1>3, <1>5, ConcatElements
  <2> QED BY <1>3, <2>1
<1>7. addressee'[s] = addressee[s] \o tos /\ outbox'[s] = kept \cup Numbered(s, rows)
  BY <1>4 DEF IMTypeOK
<1> QED BY <1>4, <1>6, <1>7 DEF Inserts, LastId, IMTypeOK

LEMMA NothingInserted ==
    ASSUME IMTypeOK, NEW s \in Modules, outbox'[s] = outbox[s], addressee'[s] = addressee[s],
           resolved'[s] = resolved[s]
    PROVE  Keeps(s)
<1>1. <<>> \in Seq(Row) /\ Len(<<>>) = 0 /\ Numbered(s, <<>>) = {}
  BY EmptySeq DEF Numbered
<1>2. LastId(s) \in Nat /\ Len(addressee'[s]) = LastId(s)
  BY LenProperties DEF IMTypeOK, LastId
<1>3. Inserts(s, outbox[s], <<>>)
  BY <1>1, <1>2 DEF Inserts
<1> QED BY <1>1, <1>3 DEF Keeps

LEMMA NextOutbox ==
    ASSUME IMTypeOK, [ProtocolNext]_imVars, NEW s \in Modules
    PROVE  Keeps(s) \/ Hears(s)
<1>1. ASSUME UNCHANGED outboxVars, resolved' = resolved
      PROVE  Keeps(s)
  BY <1>1, NothingInserted DEF outboxVars
<1>2. ASSUME NEW t \in Modules, NEW rows \in Seq(Row), Post(t, outbox[t], rows),
             resolved' = resolved
      PROVE  Keeps(s)
  <2>1. CASE s = t
    BY <1>2, <2>1, PostInserts DEF Keeps
  <2>2. CASE s # t
    BY <1>2, <2>2, PostInserts, NothingInserted
  <2> QED BY <2>1, <2>2
<1>3. ASSUME NEW t \in Modules, Transacts(t)
      PROVE  Keeps(s)
  BY <1>2, <1>3 DEF Transacts
<1>4. ASSUME NEW t \in Modules, NEW d \in Modules, Succeeds(t, d)
      PROVE  Keeps(s)
  BY <1>2, <1>4 DEF Succeeds, ProcessOk
<1>5. ASSUME NEW t \in Modules, Concludes(t)
      PROVE  Keeps(s) \/ Hears(s)
  <2> DEFINE h == Head(responses[t])
  <2>1. PICK rows \in Seq(Row) :
            /\ responses[t] # <<>> /\ RowsWithId(t, h.id) # {}
            /\ Post(t, outbox[t] \ RowsWithId(t, h.id), rows)
            /\ resolved' = [resolved EXCEPT ![t] = @ \cup {[id |-> h.id, result |-> h.result]}]
    BY <1>5 DEF Concludes, OnProcessed, Answered
  <2>2. CASE s = t
    <3>1. resolved'[s] = resolved[s] \cup {Told(s)}
      BY <2>1, <2>2 DEF IMTypeOK, Told
    <3>2. Inserts(s, outbox[s] \ RowsWithId(s, h.id), rows)
      BY <2>1, <2>2, PostInserts
    <3> QED BY <2>1, <2>2, <3>1, <3>2 DEF Hears, Told
  <2>3. CASE s # t
    <3>1. resolved'[s] = resolved[s]
      BY <2>1, <2>3 DEF IMTypeOK
    <3> HIDE DEF h
    <3>2. outbox'[s] = outbox[s] /\ addressee'[s] = addressee[s]
      BY <2>1, <2>3, PostInserts
    <3> QED BY <3>1, <3>2, NothingInserted
  <2> QED BY <2>2, <2>3
<1>6. ASSUME \/ UNCHANGED imVars
             \/ RelayRespond \/ RelayRestart
             \/ \E t \in Modules : SaveError(t) \/ OnProcessedPanic(t) \/ OnProcessedGone(t)
                                     \/ ModuleRestart(t)
             \/ \E t, d \in Modules : RelayForward(t, d) \/ ProcessDuplicate(t, d)
                                        \/ ProcessErr(t, d) \/ ProcessPanic(t, d)
      PROVE  UNCHANGED outboxVars /\ resolved' = resolved
  BY <1>6 DEF imVars, RelayRespond, RelayRestart, SaveError, OnProcessedPanic,
              OnProcessedGone, ModuleRestart, RelayForward, ProcessDuplicate, ProcessErr,
              ProcessPanic
<1> QED BY <1>1, <1>3, <1>4, <1>5, <1>6 DEF ProtocolNext

LEMMA NumberedRows ==
    ASSUME IMTypeOK, NEW s \in Modules, NEW rows \in Seq(Row)
    PROVE  /\ LastId(s) \in Nat /\ Len(rows) \in Nat
           /\ \A m \in Numbered(s, rows) : m.id \in LastId(s) + 1 .. LastId(s) + Len(rows)
           /\ \A m, n \in Numbered(s, rows) : m.id = n.id => m = n
           /\ \A id \in LastId(s) + 1 .. LastId(s) + Len(rows) :
                \E m \in Numbered(s, rows) : m.id = id
<1>1. LastId(s) \in Nat
  BY LenProperties DEF IMTypeOK, LastId
<1>2. DOMAIN rows = 1 .. Len(rows) /\ Len(rows) \in Nat
  BY LenProperties
<1>3. \A m \in Numbered(s, rows) : m.id \in LastId(s) + 1 .. LastId(s) + Len(rows)
  BY <1>1, <1>2 DEF Numbered
<1>4. ASSUME NEW m \in Numbered(s, rows), NEW n \in Numbered(s, rows), m.id = n.id
      PROVE  m = n
  <2>1. PICK i \in 1 .. Len(rows) :
            m = [id |-> LastId(s) + i, to |-> rows[i].to, contents |-> rows[i].contents]
    BY <1>2 DEF Numbered
  <2>2. PICK j \in 1 .. Len(rows) :
            n = [id |-> LastId(s) + j, to |-> rows[j].to, contents |-> rows[j].contents]
    BY <1>2 DEF Numbered
  <2>3. i = j
    BY <1>1, <1>4, <2>1, <2>2
  <2> QED BY <2>1, <2>2, <2>3
<1>5. ASSUME NEW id \in LastId(s) + 1 .. LastId(s) + Len(rows)
      PROVE  \E m \in Numbered(s, rows) : m.id = id
  <2>1. PICK i \in 1 .. Len(rows) : id = LastId(s) + i
    <3>1. id - LastId(s) \in 1 .. Len(rows) /\ id = LastId(s) + (id - LastId(s))
      BY <1>1, <1>2
    <3> QED BY <3>1
  <2> DEFINE m == [id |-> LastId(s) + i, to |-> rows[i].to, contents |-> rows[i].contents]
  <2>2. m \in Numbered(s, rows) /\ m.id = id
    BY <1>2, <2>1 DEF Numbered
  <2> QED BY <2>2
<1> QED BY <1>1, <1>2, <1>3, <1>4, <1>5

(***************************************************************************)
(* The rows of an outbox after a step, and their ids.                      *)
(***************************************************************************)
LEMMA NextRows ==
    ASSUME IMTypeOK, RowsAddressed, [ProtocolNext]_imVars, NEW s \in Modules
    PROVE  /\ LastId(s) \in Nat /\ Len(addressee'[s]) \in Nat /\ LastId(s) <= Len(addressee'[s])
           /\ \A m \in outbox'[s] : m \in outbox[s] \/ m.id \in LastId(s) + 1 .. Len(addressee'[s])
           /\ \A m \in outbox[s] : m.id \in 1 .. LastId(s)
           /\ \A m, n \in outbox'[s] : m.id = n.id =>
                m = n \/ (m \in outbox[s] /\ n \in outbox[s])
<1>1. PICK rows \in Seq(Row), kept \in SUBSET outbox[s] : Inserts(s, kept, rows)
  BY NextOutbox DEF Keeps, Hears
<1>2. \A m \in outbox[s] : m.id \in 1 .. LastId(s)
  BY DEF RowsAddressed, AddressedTo
<1>3. outbox'[s] = kept \cup Numbered(s, rows) /\ Len(addressee'[s]) = LastId(s) + Len(rows)
  BY <1>1 DEF Inserts
<1>4. LastId(s) \in Nat /\ Len(rows) \in Nat
  BY NumberedRows
<1>5. \A m \in Numbered(s, rows) : m.id \in LastId(s) + 1 .. LastId(s) + Len(rows)
  BY NumberedRows
<1>6. \A m, n \in Numbered(s, rows) : m.id = n.id => m = n
  BY NumberedRows
<1>7. ASSUME NEW m \in outbox'[s], NEW n \in outbox'[s], m.id = n.id
      PROVE  m = n \/ (m \in outbox[s] /\ n \in outbox[s])
  <2>1. ASSUME NEW a \in outbox[s], NEW b \in Numbered(s, rows) PROVE a.id # b.id
    BY <1>2, <1>4, <1>5
  <2> QED BY <1>3, <1>6, <1>7, <2>1
<1> QED BY <1>2, <1>3, <1>4, <1>5, <1>7

LEMMA NextRowsUnique ==
    ASSUME IMTypeOK, RowsAddressed, RowsUnique, [ProtocolNext]_imVars
    PROVE  RowsUnique'
BY NextRows DEF RowsUnique

LEMMA NextRowsUnresolved ==
    ASSUME IMTypeOK, RowsAddressed, RowsAreUnresolved, [ProtocolNext]_imVars
    PROVE  RowsAreUnresolved'
<1> SUFFICES ASSUME NEW s \in Modules
             PROVE  /\ \A id \in 1 .. Len(addressee'[s]) :
                        (\A m \in outbox'[s] : m.id # id) => \E r \in resolved'[s] : r.id = id
                    /\ \A r \in resolved'[s] :
                        /\ r.id \in 1 .. Len(addressee'[s])
                        /\ \A m \in outbox'[s] : m.id # r.id
  BY DEF RowsAreUnresolved, RowsWithId, LastId
<1>1. /\ \A id \in 1 .. LastId(s) :
            (\A m \in outbox[s] : m.id # id) => \E r \in resolved[s] : r.id = id
      /\ \A r \in resolved[s] : r.id \in 1 .. LastId(s) /\ \A m \in outbox[s] : m.id # r.id
  BY DEF RowsAreUnresolved, RowsWithId
<1>2. \A m \in outbox[s] : m.id \in 1 .. LastId(s)
  BY DEF RowsAddressed, AddressedTo
<1>3. ASSUME NEW rows \in Seq(Row)
      PROVE  /\ LastId(s) \in Nat /\ Len(rows) \in Nat
             /\ \A m \in Numbered(s, rows) : m.id \in LastId(s) + 1 .. LastId(s) + Len(rows)
             /\ \A id \in LastId(s) + 1 .. LastId(s) + Len(rows) :
                    \E m \in Numbered(s, rows) : m.id = id
  BY NumberedRows
<1>4. CASE Keeps(s)
  <2>1. PICK rows \in Seq(Row) : Inserts(s, outbox[s], rows) /\ resolved'[s] = resolved[s]
    BY <1>4 DEF Keeps
  <2>2. /\ outbox'[s] = outbox[s] \cup Numbered(s, rows)
        /\ Len(addressee'[s]) = LastId(s) + Len(rows)
    BY <2>1 DEF Inserts
  <2>3. ASSUME NEW id \in 1 .. Len(addressee'[s]), \A m \in outbox'[s] : m.id # id
        PROVE  id \in 1 .. LastId(s)
    BY <1>3, <2>2, <2>3
  <2>4. ASSUME NEW r \in resolved[s], NEW m \in outbox'[s]
        PROVE  m.id # r.id
    BY <1>1, <1>3, <2>2
  <2>5. \A id \in 1 .. Len(addressee'[s]) :
            (\A m \in outbox'[s] : m.id # id) => \E r \in resolved'[s] : r.id = id
    BY <1>1, <2>1, <2>2, <2>3
  <2>6. 1 .. LastId(s) \subseteq 1 .. Len(addressee'[s])
    BY <1>3, <2>2
  <2> QED BY <1>1, <2>1, <2>4, <2>5, <2>6
<1>5. CASE Hears(s)
  <2>1. PICK rows \in Seq(Row) :
            /\ RowsWithId(s, Told(s).id) # {}
            /\ Inserts(s, outbox[s] \ RowsWithId(s, Told(s).id), rows)
            /\ resolved'[s] = resolved[s] \cup {Told(s)}
    BY <1>5 DEF Hears
  <2> DEFINE id0 == Told(s).id
  <2>2. /\ outbox'[s] = {m \in outbox[s] : m.id # id0} \cup Numbered(s, rows)
        /\ Len(addressee'[s]) = LastId(s) + Len(rows)
    BY <2>1 DEF Inserts, RowsWithId
  <2>3. id0 \in 1 .. LastId(s)
    BY <1>2, <2>1 DEF RowsWithId
  <2>4. \A r \in resolved'[s] : r \in resolved[s] \/ r.id = id0
    BY <2>1
  <2>5. \E r \in resolved'[s] : r.id = id0
    BY <2>1
  <2> HIDE DEF id0
  <2>6. ASSUME NEW id \in 1 .. Len(addressee'[s]), \A m \in outbox'[s] : m.id # id
        PROVE  \E r \in resolved'[s] : r.id = id
    <3>1. id \in 1 .. LastId(s)
      BY <1>3, <2>2, <2>6
    <3>2. CASE id = id0
      BY <2>5, <3>2
    <3>3. CASE id # id0
      <4>1. \A m \in outbox[s] : m.id # id
        BY <2>2, <2>6, <3>3
      <4> QED BY <1>1, <2>1, <3>1, <4>1
    <3> QED BY <3>2, <3>3
  <2>7. ASSUME NEW r \in resolved'[s]
        PROVE  r.id \in 1 .. Len(addressee'[s]) /\ \A m \in outbox'[s] : m.id # r.id
    <3>1. r.id \in 1 .. LastId(s)
      BY <1>1, <2>3, <2>4
    <3>2. \A m \in outbox'[s] : m.id # r.id
      BY <1>1, <1>3, <2>2, <2>4, <3>1
    <3> QED BY <1>3, <2>2, <3>1, <3>2
  <2> QED BY <2>6, <2>7
<1> QED BY <1>4, <1>5, NextOutbox

-----------------------------------------------------------------------------
(***************************************************************************)
(* What a step does to a queue of calls.  A relay that forwards one row at *)
(* a time adds the call of the first row there is.                         *)
(***************************************************************************)
Alike(c, e) == c.id = e.id /\ c.contents = e.contents

Carries(c, m) == c.id = m.id /\ c.contents = m.contents

FirstRow(s, d, m) ==
    m \in outbox[s] /\ m.to = d /\ \A n \in outbox[s] : n.to = d => m.id <= n.id

QueueKept(s, d) ==
    /\ Len(calls'[s][d]) = Len(calls[s][d])
    /\ \A i \in 1 .. Len(calls[s][d]) : Alike(calls'[s][d][i], calls[s][d][i])

QueueServed(s, d) ==
    /\ calls[s][d] # <<>>
    /\ Len(calls'[s][d]) = Len(calls[s][d]) - 1
    /\ \A i \in 1 .. Len(calls'[s][d]) : Alike(calls'[s][d][i], calls[s][d][i + 1])

QueueExtended(s, d) ==
    \E m : /\ FirstRow(s, d, m)
           /\ Len(calls'[s][d]) = Len(calls[s][d]) + 1
           /\ \A i \in 1 .. Len(calls[s][d]) : Alike(calls'[s][d][i], calls[s][d][i])
           /\ Carries(calls'[s][d][Len(calls[s][d]) + 1], m)

(***************************************************************************)
(* With one row at a time, the row that is forwarded is the first.         *)
(***************************************************************************)
LEMMA NothingUnresolved ==
    ASSUME IMTypeOK, RowsUnique, Window = 1, NEW s \in Modules, NEW d \in Modules,
           Cardinality(Unresolved(s, d)) < Window
    PROVE  Backlog(s, d) = {m \in outbox[s] : m.to = d}
<1> DEFINE U == Unresolved(s, d)
           f == [m \in U |-> m.id]
<1>1. U \subseteq outbox[s] /\ \A m \in U : m.id \in Ids
  BY DEF Unresolved, IMTypeOK, InterModuleMessage
<1>2. f \in Injection(U, Ids)
  BY <1>1 DEF RowsUnique, Injection, IsInjective
<1>3. IsFiniteSet(Ids)
  BY FS_Interval, BoundsAssumption DEF Ids
<1>4. IsFiniteSet(U)
  BY <1>2, <1>3, FS_Injection
<1>5. Cardinality(U) \in Nat /\ Cardinality(U) < 1
  BY <1>4, FS_CardinalityType
<1>6. Cardinality(U) = 0
  BY <1>5
<1>7. U = {}
  BY <1>4, <1>6, FS_EmptySet
<1> QED BY <1>7 DEF Unresolved, Backlog

LEMMA ForwardExtends ==
    ASSUME IMTypeOK, RowsUnique, Window = 1, NEW s \in Modules, NEW d \in Modules,
           RelayForward(s, d)
    PROVE  /\ QueueExtended(s, d)
           /\ \A t, e \in Modules : t # s \/ e # d => calls'[t][e] = calls[t][e]
<1>1. PICK m \in Backlog(s, d) :
        /\ \A other \in Backlog(s, d) : m.id <= other.id
        /\ calls' = [calls EXCEPT ![s][d] =
                        Append(@, [id |-> m.id, contents |-> m.contents, live |-> TRUE])]
  BY DEF RelayForward
<1>2. FirstRow(s, d, m)
  BY <1>1, NothingUnresolved DEF FirstRow, RelayForward
<1> DEFINE c == [id |-> m.id, contents |-> m.contents, live |-> TRUE]
<1>3. c \in Call /\ Carries(c, m)
  <2>1. m \in InterModuleMessage
    BY <1>2 DEF FirstRow, IMTypeOK
  <2> QED BY <2>1 DEF InterModuleMessage, Call, Carries
<1>4. calls' = [calls EXCEPT ![s][d] = Append(@, c)]
  BY <1>1
<1> HIDE DEF c
<1>5. calls[s][d] \in Seq(Call) /\ calls'[s][d] = Append(calls[s][d], c)
  BY <1>4 DEF IMTypeOK
<1>6. /\ Len(calls'[s][d]) = Len(calls[s][d]) + 1
      /\ \A i \in 1 .. Len(calls[s][d]) : calls'[s][d][i] = calls[s][d][i]
      /\ calls'[s][d][Len(calls[s][d]) + 1] = c
  BY <1>3, <1>5, AppendProperties
<1>7. QueueExtended(s, d)
  BY <1>2, <1>3, <1>6 DEF QueueExtended, Alike
<1> QED BY <1>4, <1>7 DEF IMTypeOK

LEMMA AnswerServes ==
    ASSUME IMTypeOK, NEW s \in Modules, NEW d \in Modules, calls[s][d] # <<>>,
           NEW r, Answer(s, d, r)
    PROVE  /\ QueueServed(s, d)
           /\ \A t, e \in Modules : t # s \/ e # d => calls'[t][e] = calls[t][e]
<1>1. calls' = [calls EXCEPT ![s][d] = Tail(@)]
  BY DEF Answer
<1>2. calls[s][d] \in Seq(Call) /\ calls'[s][d] = Tail(calls[s][d])
  BY <1>1 DEF IMTypeOK
<1>3. /\ Len(calls'[s][d]) = Len(calls[s][d]) - 1
      /\ \A i \in 1 .. Len(calls'[s][d]) : calls'[s][d][i] = calls[s][d][i + 1]
  BY <1>2, HeadTailProperties
<1> QED BY <1>1, <1>3 DEF QueueServed, Alike, IMTypeOK

LEMMA NextQueues ==
    ASSUME IMTypeOK, RowsUnique, Window = 1, [ProtocolNext]_imVars,
           NEW s \in Modules, NEW d \in Modules
    PROVE  \/ QueueKept(s, d) \/ QueueServed(s, d) \/ QueueExtended(s, d)
           \/ calls'[s][d] = <<>>
<1>1. calls'[s][d] = calls[s][d] => QueueKept(s, d)
  BY DEF QueueKept, Alike
<1>2. ASSUME NEW t \in Modules, NEW e \in Modules, RelayForward(t, e)
      PROVE  QueueKept(s, d) \/ QueueExtended(s, d)
  BY <1>1, <1>2, ForwardExtends
<1>3. ASSUME NEW t \in Modules, NEW e \in Modules,
             ProcessDuplicate(t, e) \/ Succeeds(t, e) \/ ProcessErr(t,
             e) \/ ProcessPanic(t, e)
      PROVE  QueueKept(s, d) \/ QueueServed(s, d)
  <2>1. PICK r : calls[t][e] # <<>> /\ Answer(t, e, r)
    BY <1>3 DEF ProcessDuplicate, Succeeds, ProcessOk, ProcessErr, ProcessPanic
  <2> QED BY <1>1, <2>1, AnswerServes
<1>4. ASSUME RelayRestart
      PROVE  QueueKept(s, d) \/ calls'[s][d] = <<>>
  <2>1. calls'[s][d] = IF OrphansRun THEN Orphan(calls[s][d]) ELSE <<>>
    BY <1>4 DEF RelayRestart
  <2>2. calls[s][d] \in Seq(Call)
    BY DEF IMTypeOK
  <2>3. /\ Len(Orphan(calls[s][d])) = Len(calls[s][d])
        /\ \A i \in 1 .. Len(calls[s][d]) : Alike(Orphan(calls[s][d])[i], calls[s][d][i])
    <3>1. /\ DOMAIN calls[s][d] = 1 .. Len(calls[s][d])
          /\ \A i \in 1 .. Len(calls[s][d]) : calls[s][d][i] \in Call
      BY <2>2, LenProperties, ElementOfSeq
    <3> QED BY <2>2, <3>1, OrphanCalls DEF Orphan, Alike, Call
  <2> QED BY <2>1, <2>3 DEF QueueKept
<1>5. ASSUME NEW e \in Modules, ModuleRestart(e)
      PROVE  QueueKept(s, d) \/ calls'[s][d] = <<>>
  BY <1>1, <1>5 DEF ModuleRestart, IMTypeOK
<1>6. ASSUME \/ UNCHANGED imVars
             \/ RelayRespond
             \/ \E t \in Modules : \/ Transacts(t) \/ SaveError(t) \/ Concludes(t)
                                   \/ OnProcessedPanic(t) \/ OnProcessedGone(t)
      PROVE  QueueKept(s, d)
  BY <1>1, <1>6 DEF imVars, RelayRespond, Transacts, SaveError, Concludes, OnProcessed,
                    OnProcessedPanic, OnProcessedGone
<1> QED BY <1>2, <1>3, <1>4, <1>5, <1>6 DEF ProtocolNext

(***************************************************************************)
(* A call in a queue after a step is like one in the queue before it, or   *)
(* carries the first row.                                                  *)
(***************************************************************************)
LEMMA NextCallOrigins ==
    ASSUME IMTypeOK, RowsUnique, Window = 1, [ProtocolNext]_imVars,
           NEW s \in Modules, NEW d \in Modules, NEW i \in 1 .. Len(calls'[s][d])
    PROVE  \/ \E j \in 1 .. Len(calls[s][d]) : Alike(calls'[s][d][i], calls[s][d][j])
           \/ \E m : FirstRow(s, d, m) /\ Carries(calls'[s][d][i], m)
<1>1. Len(calls[s][d]) \in Nat
  BY LenProperties DEF IMTypeOK
<1>2. CASE QueueKept(s, d)
  BY <1>1, <1>2 DEF QueueKept
<1>3. CASE QueueServed(s, d)
  <2>1. i + 1 \in 1 .. Len(calls[s][d]) /\ Alike(calls'[s][d][i], calls[s][d][i + 1])
    BY <1>1, <1>3 DEF QueueServed
  <2> QED BY <2>1
<1>4. CASE QueueExtended(s, d)
  <2>1. i \in 1 .. Len(calls[s][d]) \/ i = Len(calls[s][d]) + 1
    BY <1>1, <1>4 DEF QueueExtended
  <2> QED BY <1>4, <2>1 DEF QueueExtended
<1>5. CASE calls'[s][d] = <<>>
  BY <1>5, EmptySeq
<1> QED BY <1>2, <1>3, <1>4, <1>5, NextQueues

LEMMA NextCallBounds ==
    ASSUME IMTypeOK, RowsUnique, Window = 1, RowsAddressed, CallsAddressed, CallsBeforeRows,
           [ProtocolNext]_imVars,
           NEW s \in Modules, NEW d \in Modules, NEW i \in 1 .. Len(calls'[s][d])
    PROVE  /\ calls'[s][d][i].id \in 1 .. LastId(s)
           /\ \A m \in outbox[s] : m.to = d => calls'[s][d][i].id <= m.id
<1>1. ASSUME NEW j \in 1 .. Len(calls[s][d]), Alike(calls'[s][d][i], calls[s][d][j])
      PROVE  /\ calls'[s][d][i].id \in 1 .. LastId(s)
             /\ \A m \in outbox[s] : m.to = d => calls'[s][d][i].id <= m.id
  BY <1>1 DEF Alike, CallsAddressed, CallsBeforeRows, AddressedTo
<1>2. ASSUME NEW n, FirstRow(s, d, n), Carries(calls'[s][d][i], n)
      PROVE  /\ calls'[s][d][i].id \in 1 .. LastId(s)
             /\ \A m \in outbox[s] : m.to = d => calls'[s][d][i].id <= m.id
  BY <1>2 DEF FirstRow, Carries, RowsAddressed, AddressedTo
<1> QED BY <1>1, <1>2, NextCallOrigins

LEMMA NextCallsBeforeRows ==
    ASSUME IMTypeOK, RowsUnique, Window = 1, RowsAddressed, CallsAddressed, CallsBeforeRows,
           [ProtocolNext]_imVars
    PROVE  CallsBeforeRows'
<1> SUFFICES ASSUME NEW s \in Modules, NEW d \in Modules, NEW i \in 1 .. Len(calls'[s][d]),
                    NEW m \in outbox'[s], m.to = d
             PROVE  calls'[s][d][i].id <= m.id
  BY DEF CallsBeforeRows
<1>1. /\ calls'[s][d][i].id \in 1 .. LastId(s)
      /\ m \in outbox[s] => calls'[s][d][i].id <= m.id
  BY NextCallBounds
<1>2. LastId(s) \in Nat /\ (m \in outbox[s] \/ m.id \in LastId(s) + 1 .. Len(addressee'[s]))
  BY NextRows
<1>3. LastId(s) \in Nat
  BY NextRows
<1> QED BY <1>1, <1>2, <1>3

LEMMA NextCallsCarryRows ==
    ASSUME IMTypeOK, RowsUnique, Window = 1, RowsAddressed, CallsAddressed, CallsBeforeRows,
           CallsCarryRows, [ProtocolNext]_imVars
    PROVE  CallsCarryRows'
<1> SUFFICES ASSUME NEW s \in Modules, NEW d \in Modules, NEW i \in 1 .. Len(calls'[s][d]),
                    NEW m \in outbox'[s], m.id = calls'[s][d][i].id
             PROVE  m.contents = calls'[s][d][i].contents
  BY DEF CallsCarryRows
<1>1. m.id \in 1 .. LastId(s)
  BY NextCallBounds
<1>2. LastId(s) \in Nat
  BY NextRows
<1>3. m \in outbox[s] \/ m.id \in LastId(s) + 1 .. Len(addressee'[s])
  BY NextRows
<1>4. m \in outbox[s]
  BY <1>1, <1>2, <1>3
<1> QED BY <1>4, NextCallOrigins DEF Alike, FirstRow, Carries, CallsCarryRows, RowsUnique

LEMMA NextCallsOrdered ==
    ASSUME IMTypeOK, RowsUnique, Window = 1, CallsOrdered, CallsBeforeRows,
           [ProtocolNext]_imVars
    PROVE  CallsOrdered'
<1> SUFFICES ASSUME NEW s \in Modules, NEW d \in Modules,
                    NEW i \in 1 .. Len(calls'[s][d]), NEW j \in 1 .. Len(calls'[s][d]),
                    i < j
             PROVE  calls'[s][d][i].id <= calls'[s][d][j].id
  BY DEF CallsOrdered
<1>1. Len(calls[s][d]) \in Nat
  BY LenProperties DEF IMTypeOK
<1>2. CASE QueueKept(s, d)
  BY <1>1, <1>2 DEF QueueKept, Alike, CallsOrdered
<1>3. CASE QueueServed(s, d)
  <2>1. /\ i + 1 \in 1 .. Len(calls[s][d]) /\ j + 1 \in 1 .. Len(calls[s][d]) /\ i + 1 < j + 1
        /\ calls'[s][d][i].id = calls[s][d][i + 1].id
        /\ calls'[s][d][j].id = calls[s][d][j + 1].id
    BY <1>1, <1>3 DEF QueueServed, Alike
  <2> QED BY <2>1 DEF CallsOrdered
<1>4. CASE QueueExtended(s, d)
  <2>1. i \in 1 .. Len(calls[s][d]) /\ (j \in 1 .. Len(calls[s][d]) \/ j = Len(calls[s][d]) + 1)
    BY <1>1, <1>4 DEF QueueExtended
  <2>2. CASE j \in 1 .. Len(calls[s][d])
    BY <1>4, <2>1, <2>2 DEF QueueExtended, Alike, CallsOrdered
  <2>3. CASE j = Len(calls[s][d]) + 1
    BY <1>4, <2>1, <2>3 DEF QueueExtended, Alike, Carries, FirstRow, CallsBeforeRows
  <2> QED BY <2>1, <2>2, <2>3
<1>5. CASE calls'[s][d] = <<>>
  BY <1>5, EmptySeq
<1> QED BY <1>2, <1>3, <1>4, <1>5, NextQueues

-----------------------------------------------------------------------------
(***************************************************************************)
(* The counters: one moves to the id of the call that is served, which has *)
(* then taken effect.                                                      *)
(***************************************************************************)
CounterMoves(s, d) ==
    /\ QueueServed(s, d)
    /\ counter'[d][s] = calls[s][d][1].id
    /\ \E i \in 1 .. Len(applied'[d]) : applied'[d][i] = [sender |-> s, id |-> counter'[d][s]]

LEMMA EffectsRemain ==
    ASSUME IMTypeOK, [ProtocolNext]_imVars, NEW d \in Modules
    PROVE  \A i \in 1 .. Len(applied[d]) :
                i \in 1 .. Len(applied'[d]) /\ applied'[d][i] = applied[d][i]
<1>1. applied[d] \in Seq(Message) /\ Len(applied[d]) \in Nat
  BY LenProperties DEF IMTypeOK
<1>2. CASE UNCHANGED applied
  BY <1>2
<1>3. ASSUME NEW s \in Modules, NEW e \in Modules, Succeeds(s, e)
      PROVE  \A i \in 1 .. Len(applied[d]) :
                i \in 1 .. Len(applied'[d]) /\ applied'[d][i] = applied[d][i]
  <2> DEFINE m == NextMessage(s, e)
  <2>1. m \in Message /\ applied' = [applied EXCEPT ![e] = Append(@, m)]
    BY <1>3, NextCallType DEF Succeeds, ProcessOk
  <2> HIDE DEF m
  <2>2. applied'[d] = applied[d] \/ applied'[d] = Append(applied[d], m)
    BY <2>1 DEF IMTypeOK
  <2>3. /\ Len(Append(applied[d], m)) = Len(applied[d]) + 1
        /\ \A i \in 1 .. Len(applied[d]) : Append(applied[d], m)[i] = applied[d][i]
    BY <1>1, <2>1, AppendProperties
  <2> QED BY <1>1, <2>2, <2>3
<1> QED BY <1>2, <1>3, OnlyProcessOkApplies

\* the message has taken effect after the step
HasEffect(s, id) ==
    \E d \in Modules : \E i \in 1 .. Len(applied'[d]) :
        applied'[d][i] = [sender |-> s, id |-> id]

LEMMA NextTookEffect ==
    ASSUME IMTypeOK, [ProtocolNext]_imVars, NEW s, NEW id, TookEffect(s, id)
    PROVE  HasEffect(s, id)
BY EffectsRemain DEF TookEffect, HasEffect

LEMMA SuccessMovesCounter ==
    ASSUME IMTypeOK, NEW s \in Modules, NEW d \in Modules, Succeeds(s, d)
    PROVE  /\ CounterMoves(s, d)
           /\ \A t, e \in Modules : t # s \/ e # d => counter'[e][t] = counter[e][t]
<1>1. /\ calls[s][d] # <<>> /\ Answer(s, d, "Ok")
      /\ counter' = [counter EXCEPT ![d][s] = NextCall(s, d).id]
      /\ applied' = [applied EXCEPT ![d] = Append(@, NextMessage(s, d))]
  BY DEF Succeeds, ProcessOk
<1>2. NextCall(s, d) = calls[s][d][1] /\ NextMessage(s, d) \in Message
  BY <1>1, NextCallIsFirst, NextCallType
<1>3. QueueServed(s, d)
  BY <1>1, AnswerServes
<1> DEFINE c == NextCall(s, d).id
           m == NextMessage(s, d)
<1>4. counter' = [counter EXCEPT ![d][s] = c]
  BY <1>1
<1>5. m = [sender |-> s, id |-> c]
  BY DEF NextMessage
<1>6. c = calls[s][d][1].id
  BY <1>2
<1> HIDE DEF c, m
<1>7. counter'[d][s] = c /\ \A t, e \in Modules : t # s \/ e # d => counter'[e][t] = counter[e][t]
  BY <1>4 DEF IMTypeOK
<1>8. applied[d] \in Seq(Message) /\ applied'[d] = Append(applied[d], m) /\ m \in Message
  BY <1>1, <1>2 DEF IMTypeOK, m
<1>9. Len(applied[d]) + 1 \in 1 .. Len(applied'[d]) /\ applied'[d][Len(applied[d]) + 1] = m
  <2>1. Len(applied[d]) \in Nat
    BY <1>8, LenProperties
  <2> QED BY <1>8, <2>1, AppendProperties
<1> QED BY <1>3, <1>5, <1>6, <1>7, <1>9 DEF CounterMoves

LEMMA NextCounters ==
    ASSUME IMTypeOK, [ProtocolNext]_imVars, NEW s \in Modules, NEW d \in Modules
    PROVE  counter'[d][s] = counter[d][s] \/ CounterMoves(s, d)
BY OnlyProcessOkApplies, SuccessMovesCounter

LEMMA NextCounterApplied ==
    ASSUME IMTypeOK, CounterApplied, [ProtocolNext]_imVars
    PROVE  CounterApplied'
<1> SUFFICES ASSUME NEW s \in Modules, NEW d \in Modules, counter'[d][s] # 0
             PROVE  \E i \in 1 .. Len(applied'[d]) :
                        applied'[d][i] = [sender |-> s, id |-> counter'[d][s]]
  BY DEF CounterApplied
<1>1. CASE CounterMoves(s, d)
  BY <1>1 DEF CounterMoves
<1>2. CASE counter'[d][s] = counter[d][s]
  <2>1. PICK i \in 1 .. Len(applied[d]) :
            applied[d][i] = [sender |-> s, id |-> counter[d][s]]
    BY <1>2 DEF CounterApplied
  <2>2. i \in 1 .. Len(applied'[d]) /\ applied'[d][i] = applied[d][i]
    BY EffectsRemain
  <2> QED BY <1>2, <2>1, <2>2
<1> QED BY <1>1, <1>2, NextCounters

(***************************************************************************)
(* No counter is ahead of the ids its sender has given out.                *)
(***************************************************************************)
LEMMA CountersGivenOut ==
    ASSUME IMTypeOK, CounterApplied, EffectsAddressed, NEW s \in Modules, NEW d \in Modules
    PROVE  counter[d][s] \in Nat /\ counter[d][s] <= LastId(s)
<1>1. counter[d][s] \in Nat
  <2>1. counter[d][s] \in 0 .. MaxMessages
    BY DEF IMTypeOK
  <2> QED BY <2>1, BoundsAssumption
<1>2. LastId(s) \in Nat
  BY LenProperties DEF IMTypeOK, LastId
<1>3. CASE counter[d][s] # 0
  <2>1. PICK i \in 1 .. Len(applied[d]) :
            applied[d][i] = [sender |-> s, id |-> counter[d][s]]
    BY <1>3 DEF CounterApplied
  <2>2. applied[d][i].sender = s /\ applied[d][i].id = counter[d][s]
    BY <2>1
  <2>3. AddressedTo(s, counter[d][s], d)
    BY <2>2 DEF EffectsAddressed
  <2> QED BY <1>1, <1>2, <2>3 DEF AddressedTo
<1> QED BY <1>1, <1>2, <1>3

LEMMA NextCounterBehind ==
    ASSUME IMTypeOK, RowsUnique, Window = 1, RowsAddressed, CallsAddressed, EffectsAddressed,
           CounterApplied, CallsOrdered, CallsBeforeRows, CounterBeforeCalls,
           CounterBeforeRows, [ProtocolNext]_imVars
    PROVE  CounterBeforeCalls' /\ CounterBeforeRows'
<1>1. ASSUME NEW s \in Modules, NEW d \in Modules
      PROVE  counter[d][s] \in Nat /\ counter[d][s] <= LastId(s) /\ LastId(s) \in Nat
  BY CountersGivenOut, NextRows
<1>2. ASSUME NEW s \in Modules, NEW d \in Modules, NEW i \in 1 .. Len(calls'[s][d])
      PROVE  counter'[d][s] <= calls'[s][d][i].id
  <2>1. CASE counter'[d][s] = counter[d][s]
    <3>1. \A j \in 1 .. Len(calls[s][d]) : counter[d][s] <= calls[s][d][j].id
      BY DEF CounterBeforeCalls
    <3>2. \A m : FirstRow(s, d, m) => counter[d][s] <= m.id
      BY DEF CounterBeforeRows, FirstRow
    <3> QED BY <2>1, <3>1, <3>2, NextCallOrigins DEF Alike, Carries
  <2>2. CASE CounterMoves(s, d)
    <3>1. Len(calls[s][d]) \in Nat
      BY LenProperties DEF IMTypeOK
    <3>2. /\ 1 \in 1 .. Len(calls[s][d]) /\ i + 1 \in 1 .. Len(calls[s][d]) /\ 1 < i + 1
          /\ calls'[s][d][i].id = calls[s][d][i + 1].id
      BY <2>2, <3>1 DEF CounterMoves, QueueServed, Alike
    <3>3. calls[s][d][1].id <= calls[s][d][i + 1].id
      BY <3>2 DEF CallsOrdered
    <3> QED BY <2>2, <3>2, <3>3 DEF CounterMoves
  <2> QED BY <2>1, <2>2, NextCounters
<1>3. ASSUME NEW s \in Modules, NEW d \in Modules, NEW m \in outbox'[s], m.to = d
      PROVE  counter'[d][s] <= m.id
  <2>1. m \in outbox[s] \/ m.id \in LastId(s) + 1 .. Len(addressee'[s])
    BY NextRows
  <2>2. CASE counter'[d][s] = counter[d][s]
    <3>1. m \in outbox[s] => counter[d][s] <= m.id
      BY <1>3 DEF CounterBeforeRows
    <3> QED BY <1>1, <2>1, <2>2, <3>1
  <2>3. CASE CounterMoves(s, d)
    <3>1. Len(calls[s][d]) \in Nat /\ calls[s][d] # <<>>
      BY <2>3, LenProperties DEF IMTypeOK, CounterMoves, QueueServed
    <3>2. 1 \in 1 .. Len(calls[s][d])
      BY <3>1, NextCallIsFirst
    <3>3. calls[s][d][1].id \in 1 .. LastId(s)
      BY <3>2 DEF CallsAddressed, AddressedTo
    <3>4. m \in outbox[s] => calls[s][d][1].id <= m.id
      BY <1>3, <3>2 DEF CallsBeforeRows
    <3>5. counter'[d][s] = calls[s][d][1].id
      BY <2>3 DEF CounterMoves
    <3> QED BY <1>1, <2>1, <3>3, <3>4, <3>5
  <2> QED BY <2>2, <2>3, NextCounters
<1> QED BY <1>2, <1>3 DEF CounterBeforeCalls, CounterBeforeRows

-----------------------------------------------------------------------------
(***************************************************************************)
(* What is answered Ok has taken effect, before the step or in it: a call  *)
(* is not new only if the counter stands at its id.                        *)
(***************************************************************************)
LEMMA DuplicateTookEffect ==
    ASSUME IMTypeOK, CounterBeforeCalls, CounterApplied,
           NEW s \in Modules, NEW d \in Modules, ProcessDuplicate(s, d)
    PROVE  TookEffect(s, NextCall(s, d).id)
<1>1. calls[s][d] # <<>> /\ ~(counter[d][s] < NextCall(s, d).id)
  BY DEF ProcessDuplicate, IsNew
<1>2. counter[d][s] <= NextCall(s, d).id
  BY <1>1, NextCallIsFirst DEF CounterBeforeCalls
<1>3. counter[d][s] \in 0 .. MaxMessages /\ NextCall(s, d).id \in 1 .. MaxMessages
  BY <1>1, NextCallType DEF IMTypeOK, Ids
<1>4. counter[d][s] = NextCall(s, d).id /\ counter[d][s] # 0
  BY <1>1, <1>2, <1>3, BoundsAssumption
<1> QED BY <1>4 DEF CounterApplied, TookEffect

LEMMA NextSuccessResults ==
    ASSUME IMTypeOK, CounterBeforeCalls, CounterApplied, SuccessesTookEffect,
           [ProtocolNext]_imVars, NEW r \in results', r.result = "Ok"
    PROVE  HasEffect(r.sender, r.id)
<1>1. ASSUME r \in results
      PROVE  HasEffect(r.sender, r.id)
  BY <1>1, NextTookEffect DEF SuccessesTookEffect
<1>2. ASSUME NEW s \in Modules, NEW d \in Modules, NEW a, Answer(s, d, a), r \notin results
      PROVE  r = [sender |-> s, id |-> NextCall(s, d).id, result |-> a]
  BY <1>2 DEF Answer
<1>3. ASSUME NEW s \in Modules, NEW d \in Modules, ProcessDuplicate(s, d), r \notin results
      PROVE  HasEffect(r.sender, r.id)
  <2>1. TookEffect(s, NextCall(s, d).id)
    BY <1>3, DuplicateTookEffect
  <2>2. r.sender = s /\ r.id = NextCall(s, d).id
    BY <1>2, <1>3 DEF ProcessDuplicate
  <2> QED BY <2>1, <2>2, NextTookEffect
<1>4. ASSUME NEW s \in Modules, NEW d \in Modules, Succeeds(s, d), r \notin results
      PROVE  HasEffect(r.sender, r.id)
  <2>1. Answer(s, d, "Ok") /\ calls[s][d] # <<>>
    BY <1>4 DEF Succeeds, ProcessOk
  <2>2. r.sender = s /\ r.id = NextCall(s, d).id
    BY <1>2, <1>4, <2>1
  <2>3. r.id = calls[s][d][1].id
    BY <2>1, <2>2, NextCallIsFirst
  <2>4. CounterMoves(s, d)
    BY <1>4, SuccessMovesCounter
  <2>5. \E i \in 1 .. Len(applied'[d]) : applied'[d][i] = [sender |-> s, id |-> r.id]
    BY <2>3, <2>4 DEF CounterMoves
  <2> QED BY <2>2, <2>5 DEF HasEffect
<1>5. ASSUME NEW s \in Modules, NEW d \in Modules, ProcessErr(s, d) \/ ProcessPanic(s, d)
      PROVE  r \in results
  <2>1. Answer(s, d, "Err")
    BY <1>5 DEF ProcessErr, ProcessPanic
  <2> QED BY <1>2, <2>1
<1>6. ASSUME \/ UNCHANGED imVars
             \/ \E s \in Modules : Transacts(s)
             \/ \E s \in Modules : \E d \in Modules : RelayForward(s, d)
             \/ RelayRespond
             \/ \E d \in Modules : SaveError(d) \/ Concludes(d) \/ OnProcessedPanic(d)
                                     \/ OnProcessedGone(d) \/ ModuleRestart(d)
             \/ RelayRestart
      PROVE  results' \subseteq results
  BY <1>6 DEF imVars, relayVars, Transacts, RelayForward, RelayRespond, SaveError,
              Concludes,
              OnProcessed, OnProcessedPanic, OnProcessedGone, ModuleRestart, RelayRestart
<1> QED BY <1>1, <1>3, <1>4, <1>5, <1>6 DEF ProtocolNext

LEMMA NextSuccesses ==
    ASSUME IMTypeOK, CounterBeforeCalls, CounterApplied, SuccessesTookEffect,
           [ProtocolNext]_imVars
    PROVE  SuccessesTookEffect'
<1>1. \A s \in Modules : \A i \in 1 .. Len(responses[s]) :
        responses[s][i].result = "Ok" => HasEffect(s, responses[s][i].id)
  BY NextTookEffect DEF SuccessesTookEffect
<1>2. ASSUME NEW s \in Modules, NEW i \in 1 .. Len(responses'[s]),
             responses'[s][i].result = "Ok"
      PROVE  HasEffect(s, responses'[s][i].id)
  <2>1. \A r \in results : r.result = "Ok" => HasEffect(r.sender, r.id)
    BY NextTookEffect DEF SuccessesTookEffect
  <2> QED BY <1>1, <1>2, <2>1, NextResponses
<1>3. ASSUME NEW s \in Modules, NEW r \in resolved'[s], r.result = "Ok"
      PROVE  HasEffect(s, r.id)
  <2>1. CASE r \in resolved[s]
    BY <1>3, <2>1, NextTookEffect DEF SuccessesTookEffect, SuccessIsReal
  <2>2. CASE r \notin resolved[s]
    BY <1>1, <1>3, <2>2, NextResolved
  <2> QED BY <2>1, <2>2
<1>4. \A r \in results' : r.result = "Ok" => HasEffect(r.sender, r.id)
  BY NextSuccessResults
<1> QED BY <1>2, <1>3, <1>4 DEF SuccessesTookEffect, SuccessIsReal, TookEffect, HasEffect

-----------------------------------------------------------------------------
(***************************************************************************)
(* The inductive invariant of a relay that forwards one row at a time.     *)
(***************************************************************************)
WindowInv ==
    /\ IMTypeOK /\ InOrderOnce /\ CounterCovers
    /\ RowsAddressed /\ CallsAddressed /\ EffectsAddressed
    /\ RowsUnique /\ RowsAreUnresolved
    /\ CallsOrdered /\ CallsBeforeRows /\ CallsCarryRows
    /\ CounterBeforeCalls /\ CounterBeforeRows /\ CounterApplied
    /\ SuccessesTookEffect

LEMMA InitWindowInv == IMInit => WindowInv
<1> SUFFICES ASSUME IMInit PROVE WindowInv
  OBVIOUS
<1>1. /\ \A d \in Modules : /\ applied[d] = <<>> /\ responses[d] = <<>> /\ outbox[d] = {}
                            /\ addressee[d] = <<>> /\ resolved[d] = {}
      /\ \A s, d \in Modules : calls[s][d] = <<>> /\ counter[d][s] = 0
      /\ results = {}
  BY DEF IMInit
<1>2. RowsUnique /\ RowsAreUnresolved /\ CounterBeforeRows /\ CounterApplied
  BY <1>1, EmptySeq DEF RowsUnique, RowsAreUnresolved, CounterBeforeRows, CounterApplied,
                        LastId
<1>3. CallsOrdered /\ CallsBeforeRows /\ CallsCarryRows /\ CounterBeforeCalls
  BY <1>1, EmptySeq DEF CallsOrdered, CallsBeforeRows, CallsCarryRows, CounterBeforeCalls
<1>4. SuccessesTookEffect
  BY <1>1, EmptySeq DEF SuccessesTookEffect, SuccessIsReal
<1> QED BY <1>2, <1>3, <1>4, InitFailureInv DEF WindowInv, FailureInv

LEMMA NextWindowInv ==
    ASSUME Window = 1, WindowInv, [ProtocolNext]_imVars
    PROVE  WindowInv'
<1>1. IMTypeOK' /\ InOrderOnce' /\ CounterCovers'
  BY NextType, NextInOrder DEF WindowInv
<1>2. RowsAddressed' /\ CallsAddressed' /\ EffectsAddressed'
  BY NextAddressed DEF WindowInv
<1>3. RowsUnique' /\ RowsAreUnresolved'
  BY NextRowsUnique, NextRowsUnresolved DEF WindowInv
<1>4. CallsOrdered' /\ CallsBeforeRows' /\ CallsCarryRows'
  BY NextCallsOrdered, NextCallsBeforeRows, NextCallsCarryRows DEF WindowInv
<1>5. CounterBeforeCalls' /\ CounterBeforeRows' /\ CounterApplied'
  BY NextCounterBehind, NextCounterApplied DEF WindowInv
<1>6. SuccessesTookEffect'
  BY NextSuccesses DEF WindowInv
<1> QED BY <1>1, <1>2, <1>3, <1>4, <1>5, <1>6 DEF WindowInv

(***************************************************************************)
(* If the relay forwards one row at a time, a sender that is told Ok can   *)
(* rely on it, whatever is resent, whoever restarts and even if calls of   *)
(* an earlier session of the relay still run.  With a larger window a      *)
(* message that panicked is answered Ok when it is resent after a later    *)
(* one has moved the counter.                                              *)
(***************************************************************************)
THEOREM SuccessesAreReal ==
    ASSUME Window = 1
    PROVE  IMSpec => []SuccessIsReal
<1>1. WindowInv /\ [IMNext]_imVars => WindowInv'
  BY StepsOfProtocol, NextWindowInv
<1>2. WindowInv => SuccessIsReal
  BY DEF WindowInv, SuccessesTookEffect
<1> QED BY <1>1, <1>2, InitWindowInv, PTL DEF IMSpec

-----------------------------------------------------------------------------
(***************************************************************************)
(* The refinement.  The abstract status of a message is read off the       *)
(* ghosts; what links it to the protocol is the invariant of one row at a  *)
(* time together with that of permanent failures.                          *)
(***************************************************************************)
RemoteInv == WindowInv /\ ErrorsAreFailures /\ FailuresTakeNoEffect

LEMMA NextRemoteInv ==
    ASSUME StickyFailures, Window = 1, RemoteInv, [ProtocolNext]_imVars
    PROVE  RemoteInv'
<1>1. WindowInv'
  BY NextWindowInv DEF RemoteInv
<1>2. ErrorsAreFailures' /\ FailuresTakeNoEffect'
  BY NextErrors, NextFailures DEF RemoteInv, WindowInv
<1> QED BY <1>1, <1>2 DEF RemoteInv

LEMMA InitRemoteInv == IMInit => RemoteInv
BY InitWindowInv, InitFailureInv DEF RemoteInv, FailureInv

(***************************************************************************)
(* A message takes effect at one place, once.                              *)
(***************************************************************************)
LEMMA EffectsCounted ==
    RemoteInv => \A m \in Message :
        Effects(m) = IF TookEffect(m.sender, m.id) THEN 1 ELSE 0
<1> SUFFICES ASSUME RemoteInv, NEW m \in Message
             PROVE  Effects(m) = IF TookEffect(m.sender, m.id) THEN 1 ELSE 0
  OBVIOUS
<1> DEFINE places == UNION {EffectsAt(d, m) : d \in Modules}
<1>1. IMTypeOK /\ InOrderOnce /\ EffectsAddressed
  BY DEF RemoteInv, WindowInv
<1>2. m = [sender |-> m.sender, id |-> m.id] /\ m.id \in Nat
  BY BoundsAssumption DEF Message, Ids
<1>3. CASE TookEffect(m.sender, m.id)
  <2>1. PICK d \in Modules : \E i \in 1 .. Len(applied[d]) : applied[d][i] = m
    BY <1>2, <1>3 DEF TookEffect
  <2>2. PICK i \in 1 .. Len(applied[d]) : applied[d][i] = m
    BY <2>1
  <2>3. <<d, i>> \in places
    BY <2>2 DEF EffectsAt
  <2>4. ASSUME NEW e \in Modules, NEW j \in 1 .. Len(applied[e]), applied[e][j] = m
        PROVE  <<e, j>> = <<d, i>>
    <3>1. AddressedTo(m.sender, m.id, d) /\ AddressedTo(m.sender, m.id, e)
      BY <1>1, <2>2, <2>4 DEF EffectsAddressed
    <3>2. e = d
      BY <3>1 DEF AddressedTo
    <3>3. ~(i < j) /\ ~(j < i)
      <4>1. \A k, l \in 1 .. Len(applied[d]) :
                k < l /\ applied[d][k] = m /\ applied[d][l] = m => m.id < m.id
        BY <1>1 DEF InOrderOnce
      <4> QED BY <1>2, <2>2, <2>4, <3>2, <4>1
    <3>4. i \in Nat /\ j \in Nat
      OBVIOUS
    <3> QED BY <3>2, <3>3, <3>4
  <2>5. places \subseteq {<<d, i>>}
    BY <2>4 DEF EffectsAt
  <2>6. places = {<<d, i>>}
    BY <2>3, <2>5
  <2> HIDE DEF places
  <2>7. Cardinality(places) = 1
    BY <2>6, FS_Singleton
  <2> QED BY <1>3, <2>7 DEF Effects, places
<1>4. CASE ~TookEffect(m.sender, m.id)
  <2>1. places = {}
    BY <1>2, <1>4 DEF EffectsAt, TookEffect
  <2> HIDE DEF places
  <2>2. Cardinality(places) = 0
    BY <2>1, FS_EmptySet
  <2> QED BY <1>4, <2>2 DEF Effects, places
<1> QED BY <1>3, <1>4

(***************************************************************************)
(* The status of a message in the three situations it can be in.           *)
(***************************************************************************)
Issued(m) == m.id <= LastId(m.sender)

StatusRead(m) ==
    /\ ~Issued(m) => StatusOf(m) = [sent |-> FALSE, effects |-> 0, answer |-> "none"]
    /\ Issued(m) /\ ~TookEffect(m.sender, m.id)
         => StatusOf(m) = [sent |-> TRUE, effects |-> 0, answer |-> AnswerTo(m)]
    /\ Issued(m) /\ TookEffect(m.sender, m.id)
         => StatusOf(m) = [sent |-> TRUE, effects |-> 1, answer |-> AnswerTo(m)]

StatusesRead == \A m \in Message : StatusRead(m)

LEMMA StatusReads == RemoteInv => StatusesRead
<1> SUFFICES ASSUME RemoteInv, NEW m \in Message
             PROVE  StatusRead(m)
  BY DEF StatusesRead
<1>1. IMTypeOK /\ EffectsAddressed /\ RowsAreUnresolved
  BY DEF RemoteInv, WindowInv
<1>2. m.sender \in Modules /\ m.id \in Nat /\ LastId(m.sender) \in Nat
  BY <1>1, LenProperties, BoundsAssumption DEF Message, Ids, IMTypeOK, LastId
<1>3. StatusOf(m) = [sent |-> Issued(m), effects |-> Effects(m), answer |-> AnswerTo(m)]
  BY DEF StatusOf, Issued
<1>4. Issued(m) \in BOOLEAN
  BY DEF Issued
<1>5. /\ TookEffect(m.sender, m.id) => Effects(m) = 1
      /\ ~TookEffect(m.sender, m.id) => Effects(m) = 0
  BY EffectsCounted
<1>6. ASSUME ~Issued(m) PROVE ~TookEffect(m.sender, m.id) /\ AnswerTo(m) = "none"
  <2>1. \A r \in resolved[m.sender] : r.id # m.id
    BY <1>1, <1>2, <1>6 DEF RowsAreUnresolved, Issued
  <2>2. AnswerTo(m) = "none"
    BY <2>1 DEF AnswerTo
  <2>3. ASSUME NEW d \in Modules, NEW i \in 1 .. Len(applied[d]),
               applied[d][i] = [sender |-> m.sender, id |-> m.id]
        PROVE  FALSE
    <3>1. AddressedTo(applied[d][i].sender, applied[d][i].id, d)
      BY <1>1 DEF EffectsAddressed
    <3>2. m.id \in 1 .. LastId(m.sender)
      BY <2>3, <3>1 DEF AddressedTo
    <3> QED BY <1>2, <1>6, <3>2 DEF Issued
  <2> QED BY <2>2, <2>3 DEF TookEffect
<1>7. Issued(m) => Issued(m) = TRUE
  BY <1>4
<1>8. ~Issued(m) => Issued(m) = FALSE
  BY <1>4
<1> QED BY <1>3, <1>5, <1>6, <1>7, <1>8, Zenon DEF StatusRead

LEMMA NextStatusReads == RemoteInv' => StatusesRead'
BY StatusReads, PTL

LEMMA IssuedRemain ==
    ASSUME IMTypeOK, RowsAddressed, [ProtocolNext]_imVars, NEW m \in Message, Issued(m)
    PROVE  Issued(m)'
<1>1. m.sender \in Modules /\ m.id \in Nat
  BY BoundsAssumption DEF Message, Ids
<1>2. LastId(m.sender) \in Nat /\ Len(addressee'[m.sender]) \in Nat
      /\ LastId(m.sender) <= Len(addressee'[m.sender])
  BY <1>1, NextRows
<1> QED BY <1>1, <1>2 DEF Issued, LastId

(***************************************************************************)
(* A step that applies nothing and tells nobody anything issues messages,  *)
(* maybe none.                                                             *)
(***************************************************************************)
LEMMA IssuingRequests ==
    ASSUME RemoteInv, RemoteInv', [ProtocolNext]_imVars, UNCHANGED <<applied, resolved>>
    PROVE  \E sent \in SUBSET Message : Abstract!Request(sent)
<1> DEFINE sent == {m \in Message : ~Issued(m) /\ Issued(m)'}
<1>1. IMTypeOK /\ RowsAddressed
  BY DEF RemoteInv, WindowInv
<1>2. ASSUME NEW m \in Message
      PROVE  /\ (TookEffect(m.sender, m.id))' <=> TookEffect(m.sender, m.id)
             /\ AnswerTo(m)' = AnswerTo(m)
             /\ Issued(m) => Issued(m)'
  BY <1>1, IssuedRemain DEF TookEffect, AnswerTo
<1>3. ASSUME NEW m \in sent
      PROVE  CallStatus[m] = Abstract!Unsent /\ StatusOf(m)' = Abstract!Pending
  <2>1. m \in Message /\ ~Issued(m) /\ Issued(m)'
    OBVIOUS
  <2>2. ~TookEffect(m.sender, m.id) /\ AnswerTo(m) = "none"
    <3>1. ~TookEffect(m.sender, m.id)
      <4>1. ASSUME NEW d \in Modules, NEW i \in 1 .. Len(applied[d]),
                   applied[d][i] = [sender |-> m.sender, id |-> m.id]
            PROVE  FALSE
        <5>1. m.id \in 1 .. LastId(m.sender)
          BY <4>1 DEF RemoteInv, WindowInv, EffectsAddressed, AddressedTo
        <5>2. LastId(m.sender) \in Nat
          BY <1>1, <2>1, NextRows DEF Message
        <5> QED BY <2>1, <5>1, <5>2 DEF Issued
      <4> QED BY <4>1 DEF TookEffect
    <3>2. StatusOf(m).answer = "none"
      BY <2>1, StatusReads DEF StatusesRead, StatusRead
    <3> QED BY <3>1, <3>2 DEF StatusOf
  <2>3. StatusOf(m) = Abstract!Unsent
    BY <2>1, StatusReads DEF StatusesRead, StatusRead, Abstract!Unsent
  <2>4. StatusOf(m)' = [sent |-> TRUE, effects |-> 0, answer |-> AnswerTo(m)']
    BY <1>2, <2>1, <2>2, NextStatusReads DEF StatusesRead, StatusRead
  <2> QED BY <1>2, <2>1, <2>2, <2>3, <2>4 DEF CallStatus, Abstract!Pending
<1>4. ASSUME NEW m \in Message, m \notin sent
      PROVE  StatusOf(m)' = CallStatus[m]
  <2>1. Issued(m)' <=> Issued(m)
    BY <1>2, <1>4
  <2>2. StatusOf(m)' = StatusOf(m)
    BY <1>2, <2>1, StatusReads, NextStatusReads DEF StatusesRead, StatusRead
  <2> QED BY <2>2 DEF CallStatus
<1>5. CallStatus' = [m \in Message |-> IF m \in sent THEN Abstract!Pending ELSE CallStatus[m]]
  <2>1. CallStatus' = [m \in Message |-> StatusOf(m)']
    BY DEF CallStatus
  <2> HIDE DEF sent
  <2> QED BY <1>3, <1>4, <2>1
<1>6. sent \in SUBSET Message
  OBVIOUS
<1> HIDE DEF sent
<1>7. Abstract!Request(sent)
  BY <1>3, <1>5 DEF Abstract!Request
<1> QED BY <1>6, <1>7

-----------------------------------------------------------------------------
(***************************************************************************)
(* A call whose message is new and has not failed: its row is still in the *)
(* outbox of the sender, unanswered, and it took no effect so far.         *)
(***************************************************************************)
LEMMA NewCallHasRow ==
    ASSUME RemoteInv, NEW s \in Modules, NEW d \in Modules, calls[s][d] # <<>>, IsNew(s, d),
           NextMessage(s, d) \notin failed
    PROVE  /\ NextCall(s, d).id \in 1 .. LastId(s)
           /\ ~TookEffect(s, NextCall(s, d).id)
           /\ \A r \in resolved[s] : r.id # NextCall(s, d).id
           /\ \E m \in outbox[s] : /\ m.id = NextCall(s, d).id
                                   /\ m.to = d
                                   /\ m.contents = NextCall(s, d).contents
<1> DEFINE id == NextCall(s, d).id
<1>1. /\ IMTypeOK /\ CounterCovers /\ RowsAddressed /\ CallsAddressed /\ EffectsAddressed
      /\ RowsAreUnresolved /\ CallsCarryRows /\ SuccessIsReal /\ ErrorsAreFailures
  BY DEF RemoteInv, WindowInv, SuccessesTookEffect
<1>2. /\ 1 \in 1 .. Len(calls[s][d]) /\ NextCall(s, d) = calls[s][d][1]
      /\ NextMessage(s, d) = [sender |-> s, id |-> id]
  BY <1>1, NextCallIsFirst DEF NextMessage
<1>3. AddressedTo(s, id, d)
  BY <1>1, <1>2 DEF CallsAddressed
<1>4. ~TookEffect(s, id)
  <2>1. SUFFICES ASSUME NEW e \in Modules, NEW i \in 1 .. Len(applied[e]),
                        applied[e][i] = [sender |-> s, id |-> id]
                 PROVE  FALSE
    BY DEF TookEffect
  <2>2. AddressedTo(s, id, e)
    BY <1>1, <2>1 DEF EffectsAddressed
  <2>3. e = d
    BY <1>3, <2>2 DEF AddressedTo
  <2>4. id <= counter[d][s]
    BY <1>1, <2>1, <2>3 DEF CounterCovers
  <2>5. counter[d][s] < id
    BY DEF IsNew
  <2>6. counter[d][s] \in 0 .. MaxMessages
    BY <1>1 DEF IMTypeOK
  <2>7. id \in 1 .. MaxMessages
    BY <1>1, NextCallType DEF Ids
  <2> HIDE DEF id
  <2> QED BY <2>4, <2>5, <2>6, <2>7, BoundsAssumption
<1>5. \A r \in resolved[s] : r.id # id
  <2>1. SUFFICES ASSUME NEW r \in resolved[s], r.id = id
                 PROVE  FALSE
    OBVIOUS
  <2>2. CASE r.result = "Ok"
    BY <1>1, <1>4, <2>1, <2>2 DEF SuccessIsReal
  <2>3. CASE r.result = "Err"
    BY <1>1, <1>2, <2>1, <2>3 DEF ErrorsAreFailures
  <2>4. r.result \in {"Ok", "Err"}
    BY <1>1 DEF IMTypeOK, Results
  <2> QED BY <2>2, <2>3, <2>4
<1>6. id \in 1 .. LastId(s)
  BY <1>3 DEF AddressedTo
<1>7. PICK m \in outbox[s] : m.id = id
  BY <1>1, <1>5, <1>6 DEF RowsAreUnresolved, RowsWithId
<1>8. m.to = d
  BY <1>1, <1>3, <1>7 DEF RowsAddressed, AddressedTo
<1>9. m.contents = NextCall(s, d).contents
  BY <1>1, <1>2, <1>7 DEF CallsCarryRows
<1> QED BY <1>4, <1>5, <1>6, <1>7, <1>8, <1>9

(***************************************************************************)
(* What a sender is told of a row it still has is the truth, and the first *)
(* it is told.                                                             *)
(***************************************************************************)
LEMMA AnswersAreTrue ==
    ASSUME RemoteInv, NEW s \in Modules, responses[s] # <<>>,
           RowsWithId(s, Told(s).id) # {}
    PROVE  /\ Told(s).id \in Ids /\ Told(s).id \in 1 .. LastId(s)
           /\ Told(s).result \in {"Ok", "Err"}
           /\ Told(s).result = "Ok" => TookEffect(s, Told(s).id)
           /\ Told(s).result = "Err" => ~TookEffect(s, Told(s).id)
           /\ \A r \in resolved[s] : r.id # Told(s).id
<1>1. /\ IMTypeOK /\ RowsAddressed /\ RowsAreUnresolved /\ SuccessesTookEffect
      /\ ErrorsAreFailures /\ FailuresTakeNoEffect
  BY DEF RemoteInv, WindowInv
<1>2. /\ 1 \in 1 .. Len(responses[s])
      /\ Head(responses[s]) = responses[s][1] /\ Head(responses[s]) \in Response
  <2>1. responses[s] \in Seq(Response) /\ responses[s] # <<>>
    BY <1>1 DEF IMTypeOK
  <2>2. Len(responses[s]) \in Nat \ {0}
    BY <2>1, EmptySeq
  <2> QED BY <2>1, <2>2, ElementOfSeq
<1>3. Told(s).id = responses[s][1].id /\ Told(s).result = responses[s][1].result
  BY <1>2 DEF Told
<1>4. Told(s).id \in Ids /\ Told(s).result \in {"Ok", "Err"}
  BY <1>2 DEF Told, Response, Results
<1>5. Told(s).result = "Ok" => TookEffect(s, Told(s).id)
  BY <1>1, <1>2, <1>3 DEF SuccessesTookEffect
<1>6. Told(s).result = "Err" => ~TookEffect(s, Told(s).id)
  <2>1. Told(s).result = "Err" => [sender |-> s, id |-> Told(s).id] \in failed
    BY <1>1, <1>2, <1>3 DEF ErrorsAreFailures
  <2> QED BY <1>1, <2>1 DEF FailuresTakeNoEffect, TookEffect
<1>7. Told(s).id \in 1 .. LastId(s)
  BY <1>1 DEF RowsAddressed, RowsWithId, AddressedTo
<1>8. \A r \in resolved[s] : r.id # Told(s).id
  BY <1>1 DEF RowsAreUnresolved
<1> QED BY <1>4, <1>5, <1>6, <1>7, <1>8

(***************************************************************************)
(* A step changes the status of one message when it applies it or tells    *)
(* its sender the outcome.                                                 *)
(***************************************************************************)
LEMMA OneStatusChanges ==
    ASSUME NEW m \in Message, NEW value, StatusOf(m)' = value,
           \A n \in Message \ {m} : StatusOf(n)' = StatusOf(n)
    PROVE  Abstract!Becomes(m, value)
<1>1. CallStatus' = [n \in Message |-> StatusOf(n)']
  BY DEF CallStatus
<1>2. CallStatus = [n \in Message |-> StatusOf(n)]
  BY DEF CallStatus
<1>3. CallStatus' = [CallStatus EXCEPT ![m] = value]
  BY <1>1, <1>2
<1> QED BY <1>3 DEF Abstract!Becomes

(***************************************************************************)
(* A handler that returns Ok adds the effect of its message, and no other. *)
(***************************************************************************)
LEMMA EffectAdded ==
    ASSUME IMTypeOK, NEW s \in Modules, NEW d \in Modules, Succeeds(s, d)
    PROVE  \A t, id : HasEffect(t, id)
                        <=> TookEffect(t, id) \/ (t = s /\ id = NextCall(s, d).id)
<1>1. [ProtocolNext]_imVars
  BY DEF ProtocolNext
<1>2. calls[s][d] # <<>>
  BY DEF Succeeds, ProcessOk
<1>3. HasEffect(s, NextCall(s, d).id)
  <2>1. calls[s][d][1] = NextCall(s, d) /\ CounterMoves(s, d)
    BY <1>2, NextCallIsFirst, SuccessMovesCounter
  <2>2. \E i \in 1 .. Len(applied'[d]) :
            applied'[d][i] = [sender |-> s, id |-> NextCall(s, d).id]
    BY <2>1 DEF CounterMoves
  <2> QED BY <2>2 DEF HasEffect
<1>4. ASSUME NEW t, NEW id, HasEffect(t, id), ~TookEffect(t, id)
      PROVE  t = s /\ id = NextCall(s, d).id
  <2>1. PICK e \in Modules : \E i \in 1 .. Len(applied'[e]) :
            applied'[e][i] = [sender |-> t, id |-> id]
    BY <1>4 DEF HasEffect
  <2>2. PICK i \in 1 .. Len(applied'[e]) : applied'[e][i] = [sender |-> t, id |-> id]
    BY <2>1
  <2>3. applied'[e][i] = NextMessage(s, d)
    BY <1>4, <2>2, ProcessOkApplies DEF TookEffect
  <2> QED BY <2>2, <2>3 DEF NextMessage
<1> QED BY <1>1, <1>3, <1>4, NextTookEffect

(***************************************************************************)
(* A handler that returns Ok and sends nothing: the request takes effect.  *)
(***************************************************************************)
LEMMA HandlersTakeEffect ==
    ASSUME StickyFailures, RemoteInv, RemoteInv', NEW s \in Modules, NEW d \in Modules,
           ProcessOk(s, d, <<>>)
    PROVE  \E m \in Message : Abstract!TakeEffect(m)
<1>1. Succeeds(s, d) /\ [ProtocolNext]_imVars
  BY EmptySeq DEF Succeeds, ProtocolNext
<1>2. /\ calls[s][d] # <<>> /\ IsNew(s, d) /\ NextMessage(s, d) \notin failed
      /\ resolved' = resolved /\ addressee' = [addressee EXCEPT ![d] = @ \o <<>>]
      /\ applied' = [applied EXCEPT ![d] = Append(@, NextMessage(s, d))]
  <2>1. [i \in DOMAIN <<>> |-> <<>>[i].to] = <<>>
    OBVIOUS
  <2> QED BY <2>1 DEF ProcessOk, Post
<1>3. IMTypeOK /\ IMTypeOK'
  BY DEF RemoteInv, WindowInv
<1>4. PICK m \in Message : m = NextMessage(s, d)
  BY <1>2, <1>3, NextCallType
<1>5. m.sender = s /\ m.id = NextCall(s, d).id
  BY <1>4 DEF NextMessage
<1>6. m.id \in 1 .. LastId(s) /\ ~TookEffect(s, m.id) /\ \A r \in resolved[s] : r.id # m.id
  BY <1>2, <1>4, <1>5, NewCallHasRow
<1>7. addressee' = addressee
  <2>1. addressee[d] \in Seq(Modules)
    BY <1>3 DEF IMTypeOK
  <2>2. addressee[d] \o <<>> = addressee[d]
    BY <2>1, EmptySeq, ConcatEmptySeq
  <2> QED BY <1>2, <1>3, <2>2 DEF IMTypeOK
<1>8. ASSUME NEW n \in Message
      PROVE  (Issued(n)' <=> Issued(n)) /\ AnswerTo(n)' = AnswerTo(n)
  BY <1>2, <1>7 DEF Issued, LastId, AnswerTo
<1>9. Issued(m) /\ AnswerTo(m) = "none"
  BY <1>3, <1>4, <1>5, <1>6 DEF Issued, AnswerTo
<1>10. CallStatus[m] = Abstract!Pending
  <2>1. StatusOf(m) = [sent |-> TRUE, effects |-> 0, answer |-> "none"]
    BY <1>4, <1>5, <1>6, <1>9, StatusReads DEF StatusesRead, StatusRead
  <2> QED BY <1>4, <1>5, <2>1 DEF CallStatus, Abstract!Pending
<1>11. ASSUME NEW n \in Message
       PROVE  TookEffect(n.sender, n.id)' <=> TookEffect(n.sender, n.id) \/ n = m
  <2>1. HasEffect(n.sender, n.id) <=> TookEffect(n.sender, n.id) \/ n = m
    <3>1. n = m <=> n.sender = s /\ n.id = NextCall(s, d).id
      BY <1>4, <1>5 DEF Message
    <3> QED BY <1>1, <1>3, <3>1, EffectAdded
  <2> QED BY <2>1 DEF HasEffect, TookEffect
<1>12. StatusOf(m)' = Abstract!Effective
  <2>1. Issued(m)' /\ TookEffect(m.sender, m.id)' /\ AnswerTo(m)' = "none"
    BY <1>4, <1>5, <1>8, <1>9, <1>11
  <2> QED BY <1>4, <1>5, <2>1, NextStatusReads DEF StatusesRead, StatusRead,
                                                    Abstract!Effective
<1>13. ASSUME NEW n \in Message \ {m}
       PROVE  StatusOf(n)' = StatusOf(n)
  BY <1>8, <1>11, StatusReads, NextStatusReads DEF StatusesRead, StatusRead
<1>14. Abstract!Becomes(m, Abstract!Effective)
  BY <1>4, <1>5, <1>12, <1>13, OneStatusChanges
<1> QED BY <1>10, <1>14 DEF Abstract!TakeEffect

(***************************************************************************)
(* A sender that is told an outcome it had not been told: the request is   *)
(* confirmed or refused.                                                   *)
(***************************************************************************)
LEMMA OutcomesAreAnswers ==
    ASSUME RemoteInv, RemoteInv', NEW s \in Modules, OnProcessed(s, <<>>)
    PROVE  \E m \in Message : Abstract!Confirm(m) \/ Abstract!Refuse(m)
<1>1. Concludes(s) /\ [ProtocolNext]_imVars
  BY EmptySeq DEF Concludes, ProtocolNext
<1>2. IMTypeOK /\ IMTypeOK'
  BY DEF RemoteInv, WindowInv
<1>3. /\ responses[s] # <<>> /\ RowsWithId(s, Told(s).id) # {}
      /\ applied' = applied /\ addressee' = [addressee EXCEPT ![s] = @ \o <<>>]
      /\ resolved' = [resolved EXCEPT ![s] = @ \cup {Told(s)}]
  <2>1. [i \in DOMAIN <<>> |-> <<>>[i].to] = <<>>
    OBVIOUS
  <2> QED BY <2>1 DEF OnProcessed, Post, Told, destinationVars
<1>4. /\ Told(s).id \in Ids /\ Told(s).id \in 1 .. LastId(s)
      /\ Told(s).result \in {"Ok", "Err"}
      /\ Told(s).result = "Ok" => TookEffect(s, Told(s).id)
      /\ Told(s).result = "Err" => ~TookEffect(s, Told(s).id)
      /\ \A r \in resolved[s] : r.id # Told(s).id
  BY <1>3, AnswersAreTrue
<1>5. PICK m \in Message : m.sender = s /\ m.id = Told(s).id
  <2>1. [sender |-> s, id |-> Told(s).id] \in Message
    BY <1>4 DEF Message
  <2> QED BY <2>1
<1>6. PICK a \in {"Ok", "Err"} : a = Told(s).result
  BY <1>4
<1>7. Told(s) = [id |-> m.id, result |-> a]
  BY <1>5, <1>6 DEF Told
<1>8. addressee' = addressee
  <2>1. addressee[s] \in Seq(Modules)
    BY <1>2 DEF IMTypeOK
  <2>2. addressee[s] \o <<>> = addressee[s]
    BY <2>1, EmptySeq, ConcatEmptySeq
  <2> QED BY <1>2, <1>3, <2>2 DEF IMTypeOK
<1>9. ASSUME NEW n \in Message
      PROVE  /\ Issued(n)' <=> Issued(n)
             /\ TookEffect(n.sender, n.id)' <=> TookEffect(n.sender, n.id)
  BY <1>3, <1>8 DEF Issued, LastId, TookEffect
<1>10. Issued(m) /\ AnswerTo(m) = "none"
  BY <1>2, <1>4, <1>5 DEF Issued, AnswerTo
<1>11. resolved'[s] = resolved[s] \cup {[id |-> m.id, result |-> a]}
  BY <1>2, <1>3, <1>7 DEF IMTypeOK
<1>12. AnswerTo(m)' = a
  <2>1. \A b : [id |-> m.id, result |-> b] \in resolved'[s] <=> b = a
    BY <1>4, <1>5, <1>11
  <2> QED BY <1>5, <2>1 DEF AnswerTo
<1>13. ASSUME NEW n \in Message \ {m}
       PROVE  AnswerTo(n)' = AnswerTo(n)
  <2>1. CASE n.sender = s
    <3>1. n.id # m.id
      BY <1>5, <2>1 DEF Message
    <3>2. \A b : [id |-> n.id, result |-> b] \in resolved'[s]
                    <=> [id |-> n.id, result |-> b] \in resolved[s]
      BY <1>11, <3>1
    <3> QED BY <2>1, <3>2 DEF AnswerTo
  <2>2. CASE n.sender # s
    <3>1. n.sender \in Modules
      BY DEF Message
    <3>2. resolved'[n.sender] = resolved[n.sender]
      BY <1>2, <1>3, <2>2, <3>1 DEF IMTypeOK
    <3> QED BY <3>2 DEF AnswerTo
  <2> QED BY <2>1, <2>2
<1>14. ASSUME NEW n \in Message \ {m}
       PROVE  StatusOf(n)' = StatusOf(n)
  BY <1>9, <1>13, StatusReads, NextStatusReads DEF StatusesRead, StatusRead
<1>15. CASE a = "Ok"
  <2>1. TookEffect(m.sender, m.id)
    BY <1>4, <1>5, <1>6, <1>15
  <2>2. CallStatus[m] = Abstract!Effective
    <3>1. StatusOf(m) = [sent |-> TRUE, effects |-> 1, answer |-> "none"]
      BY <1>10, <2>1, StatusReads DEF StatusesRead, StatusRead
    <3> QED BY <3>1 DEF CallStatus, Abstract!Effective
  <2>3. StatusOf(m)' = Abstract!Confirmed
    <3>1. Issued(m)' /\ TookEffect(m.sender, m.id)' /\ AnswerTo(m)' = "Ok"
      BY <1>9, <1>10, <1>12, <1>15, <2>1
    <3> QED BY <3>1, NextStatusReads DEF StatusesRead, StatusRead, Abstract!Confirmed
  <2>4. Abstract!Becomes(m, Abstract!Confirmed)
    BY <1>14, <2>3, OneStatusChanges
  <2> QED BY <2>2, <2>4 DEF Abstract!Confirm
<1>16. CASE a = "Err"
  <2>1. ~TookEffect(m.sender, m.id)
    BY <1>4, <1>5, <1>6, <1>16
  <2>2. CallStatus[m] = Abstract!Pending
    <3>1. StatusOf(m) = [sent |-> TRUE, effects |-> 0, answer |-> "none"]
      BY <1>10, <2>1, StatusReads DEF StatusesRead, StatusRead
    <3> QED BY <3>1 DEF CallStatus, Abstract!Pending
  <2>3. StatusOf(m)' = Abstract!Refused
    <3>1. Issued(m)' /\ ~TookEffect(m.sender, m.id)' /\ AnswerTo(m)' = "Err"
      BY <1>9, <1>10, <1>12, <1>16, <2>1
    <3> QED BY <3>1, NextStatusReads DEF StatusesRead, StatusRead, Abstract!Refused
  <2>4. Abstract!Becomes(m, Abstract!Refused)
    BY <1>14, <2>3, OneStatusChanges
  <2> QED BY <2>2, <2>4 DEF Abstract!Refuse
<1> QED BY <1>15, <1>16

(***************************************************************************)
(* Every other step issues requests, maybe none.                           *)
(***************************************************************************)
LEMMA StepsOfRemoteCall ==
    ASSUME StickyFailures, RemoteInv, RemoteInv', [IMNext]_imVars
    PROVE  [Abstract!RCNext]_CallStatus
<1>1. [ProtocolNext]_imVars
  BY StepsOfProtocol
<1>2. ASSUME NEW s \in Modules, NEW d \in Modules, ProcessOk(s, d, <<>>)
      PROVE  Abstract!RCNext
  BY <1>2, HandlersTakeEffect DEF Abstract!RCNext
<1>3. ASSUME NEW s \in Modules, OnProcessed(s, <<>>)
      PROVE  Abstract!RCNext
  BY <1>3, OutcomesAreAnswers DEF Abstract!RCNext
<1>4. ASSUME ~ \E s, d \in Modules : ProcessOk(s, d, <<>>),
             ~ \E s \in Modules : OnProcessed(s, <<>>)
      PROVE  UNCHANGED <<applied, resolved>>
  <2> USE DEF destinationVars, relayVars
  <2>1. ASSUME NEW s \in Modules, NEW d \in Modules,
               RelayForward(s, d) \/ ProcessDuplicate(s, d) \/ ProcessErr(s, d)
                 \/ ProcessPanic(s, d)
        PROVE  UNCHANGED <<applied, resolved>>
    BY <2>1 DEF RelayForward, ProcessDuplicate, ProcessErr, ProcessPanic
  <2>2. ASSUME NEW s \in Modules,
               SaveError(s) \/ OnProcessedPanic(s) \/ OnProcessedGone(s) \/ ModuleRestart(s)
        PROVE  UNCHANGED <<applied, resolved>>
    BY <2>2 DEF SaveError, OnProcessedPanic, OnProcessedGone, ModuleRestart
  <2>3. ASSUME NEW s, NEW dst, NEW c, Send(s, dst, c)
        PROVE  UNCHANGED <<applied, resolved>>
    BY <2>3 DEF Send
  <2>4. CASE RelayRespond \/ RelayRestart
    BY <2>4 DEF RelayRespond, RelayRestart
  <2>5. CASE UNCHANGED imVars
    BY <2>5 DEF imVars
  <2> QED BY <1>4, <2>1, <2>2, <2>3, <2>4, <2>5 DEF IMNext, SteadyNext
<1>5. ASSUME UNCHANGED <<applied, resolved>>
      PROVE  Abstract!RCNext
  BY <1>1, <1>5, IssuingRequests DEF Abstract!RCNext
<1> QED BY <1>2, <1>3, <1>4, <1>5

LEMMA InitOfRemoteCall == IMInit => Abstract!RCInit
<1> SUFFICES ASSUME IMInit PROVE Abstract!RCInit
  OBVIOUS
<1>1. RemoteInv
  BY InitRemoteInv
<1>2. ASSUME NEW m \in Message
      PROVE  StatusOf(m) = Abstract!Unsent
  <2>1. addressee[m.sender] = <<>> /\ m.id \in 1 .. MaxMessages
    BY DEF IMInit, Message, Ids
  <2>2. ~Issued(m)
    BY <2>1, EmptySeq, BoundsAssumption DEF Issued, LastId
  <2> QED BY <1>1, <2>2, StatusReads DEF StatusesRead, StatusRead, Abstract!Unsent
<1> QED BY <1>2 DEF CallStatus, Abstract!RCInit

(***************************************************************************)
(* The protocol is a remote call: whatever the relay repeats and whoever   *)
(* restarts, a message takes effect at most once, its sender is told Ok    *)
(* only after it did, and Err only if it did not and never will, provided  *)
(* the relay forwards one row per destination at a time and a handler that *)
(* failed on a message fails on it again.                                  *)
(***************************************************************************)
THEOREM ProtocolIsRemoteCall ==
    ASSUME StickyFailures, Window = 1
    PROVE  IMSpec => ImplementsRemoteCall
<1>1. RemoteInv /\ [IMNext]_imVars => RemoteInv'
  BY StepsOfProtocol, NextRemoteInv
<1>2. RemoteInv /\ RemoteInv' /\ [IMNext]_imVars => [Abstract!RCNext]_CallStatus
  BY StepsOfRemoteCall
<1> QED BY <1>1, <1>2, InitRemoteInv, InitOfRemoteCall, PTL
        DEF IMSpec, ImplementsRemoteCall, Abstract!Spec

-----------------------------------------------------------------------------
(***************************************************************************)
(*                        The transfer of a player                         *)
(***************************************************************************)

(***************************************************************************)
(* The two messages.                                                       *)
(***************************************************************************)
LEMMA RequestTypes ==
    ASSUME NEW c \in Contents
    PROVE  /\ c.type = "TransferPlayerRequest"
                => c.player \in Players /\ c.allowCancel \in BOOLEAN
           /\ c.type = "UserUpdateRegionRequest"
                => c.player \in Players /\ c.region \in Regions
BY ContentsAssumption DEF MessageContents, TransferPlayerRequests, UserUpdateRegionRequests

LEMMA MessagesAreRows ==
    /\ \A r, p, to : r \in Regions /\ p \in Players /\ to \in Regions =>
          <<[to |-> to, contents |-> TransferRequest(r, p)]>> \in Seq(Row)
    /\ \A d \in Regions, p \in Players : <<UserUpdateRegion(d, p)>> \in Seq(Row)
<1>1. Regions \subseteq Modules /\ Global \in Modules
  BY DEF Modules
<1>2. ASSUME NEW r \in Regions, NEW p \in Players, NEW to \in Regions
      PROVE  <<[to |-> to, contents |-> TransferRequest(r, p)]>> \in Seq(Row)
  <2>1. TransferRequest(r, p) \in Contents
    BY ContentsAssumption DEF TransferRequest, MessageContents, TransferPlayerRequests
  <2>2. [to |-> to, contents |-> TransferRequest(r, p)] \in Row
    BY <1>1, <2>1 DEF Row
  <2> QED BY <2>2
<1>3. ASSUME NEW d \in Regions, NEW p \in Players
      PROVE  <<UserUpdateRegion(d, p)>> \in Seq(Row)
  <2>1. [type |-> "UserUpdateRegionRequest", player |-> p, region |-> d] \in Contents
    BY ContentsAssumption DEF MessageContents, UserUpdateRegionRequests
  <2>2. UserUpdateRegion(d, p) \in Row
    BY <1>1, <2>1 DEF Row, UserUpdateRegion
  <2> QED BY <2>2
<1> QED BY <1>2, <1>3

LEMMA NextContents ==
    ASSUME IMTypeOK, NEW s \in Modules, NEW d \in Modules, calls[s][d] # <<>>
    PROVE  NextCall(s, d).contents \in Contents
BY NextCallType DEF Call

-----------------------------------------------------------------------------
(***************************************************************************)
(* The inductive invariant of the regions: type correctness, no row twice  *)
(* in a queue, slots of players of the region only, and a region to go     *)
(* back to for whoever may still cancel.                                   *)
(***************************************************************************)
ResidenceInv ==
    /\ PTTypeOK
    /\ \A r \in Regions : TablesOK(tables[r]) /\ SlotsOfResidents(tables[r])
    /\ \A r \in Regions : \A p \in tables[r].previous : previousRegion[r][p] \in Regions

LEMMA TransferIsProtocol ==
    ASSUME ResidenceInv, [PTNext]_ptVars
    PROVE  [ProtocolNext]_imVars
<1>1. IMTypeOK /\ Regions \subseteq Modules /\ Global \in Modules
  BY DEF ResidenceInv, PTTypeOK, Modules
<1>2. CASE UNCHANGED ptVars
  BY <1>2 DEF ptVars
<1>3. ASSUME NEW r \in Regions, NEW p \in Players, InRegion(r, p)
      PROVE  UNCHANGED imVars
  BY <1>3 DEF InRegion, JoinQueue, LeaveQueue, EnterRegion, LeaveRegion, GracePeriodOver,
              Act,
              PlayerRegionCrossover, PlayerCancelRegionTransfer
<1>4. ASSUME NEW r \in Regions, TransferPlayerDelayed(r)
      PROVE  [ProtocolNext]_imVars
  <2>1. PICK t \in transferTimers[r] :
            /\ IF t.player \in tables[r].users
               THEN Post(r, outbox[r],
                         <<[to |-> t.to, contents |-> TransferRequest(r, t.player)]>>)
               ELSE UNCHANGED outboxVars
            /\ UNCHANGED <<destinationVars, relayVars, boundVars, calls, responses, resolved>>
    BY <1>4 DEF TransferPlayerDelayed
  <2>2. t.player \in Players /\ t.to \in Regions
    BY DEF ResidenceInv, PTTypeOK, TransferPlayerTimer
  <2>3. <<[to |-> t.to, contents |-> TransferRequest(r, t.player)]>> \in Seq(Row)
    BY <2>2, MessagesAreRows
  <2>4. CASE t.player \in tables[r].users
    BY <1>1, <2>1, <2>3, <2>4 DEF Transacts, ProtocolNext
  <2>5. CASE t.player \notin tables[r].users
    BY <2>1, <2>5 DEF imVars
  <2> QED BY <2>4, <2>5
<1>5. ASSUME NEW s \in Regions, NEW d \in Regions, ProcessTransferPlayer(s, d)
      PROVE  ProtocolNext
  <2>1. /\ calls[s][d] # <<>> /\ NextCall(s, d).contents.type = "TransferPlayerRequest"
        /\ ProcessOk(s, d, <<UserUpdateRegion(d, NextCall(s, d).contents.player)>>)
    BY <1>5 DEF ProcessTransferPlayer, Announcement
  <2>2. NextCall(s, d).contents.player \in Players
    BY <1>1, <2>1, NextContents, RequestTypes
  <2>3. Succeeds(s, d)
    BY <2>1, <2>2, MessagesAreRows DEF Succeeds
  <2> QED BY <1>1, <2>3 DEF ProtocolNext
<1>6. ASSUME NEW s \in Regions, ProcessUserUpdateRegion(s)
      PROVE  ProtocolNext
  <2>1. Succeeds(s, Global)
    BY <1>6, EmptySeq DEF ProcessUserUpdateRegion, Succeeds
  <2> QED BY <1>1, <2>1 DEF ProtocolNext
<1>7. ASSUME NEW s \in Modules, HandleResult(s)
      PROVE  ProtocolNext
  <2>1. Concludes(s)
    BY <1>7, EmptySeq DEF HandleResult, Concludes
  <2> QED BY <2>1 DEF ProtocolNext
<1>8. ASSUME NEW s \in Modules, NEW d \in Modules,
             NoResult(s) \/ Forward(s, d) \/ Duplicate(s, d) \/ FailToInsert(s,
             d) \/ Respond
                \/ Restart
      PROVE  ProtocolNext
  BY <1>8 DEF NoResult, Forward, Duplicate, FailToInsert, Respond, Restart, ProtocolNext
<1> QED BY <1>1, <1>2, <1>3, <1>4, <1>5, <1>6, <1>7, <1>8 DEF PTNext

-----------------------------------------------------------------------------
(***************************************************************************)
(* What a step may do to the tables of a region.  Players who are there    *)
(* already do whatever they want: the region stays as it is, or one of its *)
(* players acts, departs or arrives.                                       *)
(***************************************************************************)
Acts(r, t) == TablesOK(t) /\ Settled(tables[r], t)

LEMMA TableReplaced ==
    ASSUME ResidenceInv, NEW r \in Regions, NEW t, TablesOK(t),
           tables' = [tables EXCEPT ![r] = t]
    PROVE  /\ tables' \in [Regions -> Tables] /\ tables'[r] = t
           /\ \A q \in Regions \ {r} : tables'[q] = tables[q]
           /\ \A q \in Regions : TablesOK(tables'[q])
<1>1. tables \in [Regions -> Tables] /\ t \in Tables
  BY DEF ResidenceInv, PTTypeOK, TablesOK
<1>2. tables'[r] = t /\ \A q \in Regions \ {r} : tables'[q] = tables[q]
  BY <1>1
<1> QED BY <1>1, <1>2 DEF ResidenceInv

(***************************************************************************)
(* Nobody comes and nobody goes.                                           *)
(***************************************************************************)
AllSettled ==
    /\ tables' \in [Regions -> Tables]
    /\ \A r \in Regions : TablesOK(tables'[r]) /\ Settled(tables[r], tables'[r])

LEMMA ActSettles ==
    ASSUME ResidenceInv, NEW r \in Regions, NEW t, Acts(r, t),
           tables' = [tables EXCEPT ![r] = t]
    PROVE  AllSettled
<1>1. \A q : Settled(q, q)
  BY DEF Settled
<1> QED BY <1>1, TableReplaced DEF Acts, AllSettled

LEMMA StaySettles ==
    ASSUME ResidenceInv, tables' = tables
    PROVE  AllSettled
BY DEF ResidenceInv, PTTypeOK, AllSettled, Settled

LEMMA InRegionSettles ==
    ASSUME ResidenceInv, NEW r \in Regions, NEW p \in Players, InRegion(r, p)
    PROVE  /\ AllSettled
           /\ UNCHANGED <<imVars, previousRegion, userRegion>>
           /\ transferTimers' \in [Regions -> SUBSET TransferPlayerTimer]
           /\ cancelled' \in SUBSET Players
<1>1. /\ TablesOK(tables[r]) /\ Parameters[r] \in RegionSignInParameters
      /\ transferTimers \in [Regions -> SUBSET TransferPlayerTimer]
      /\ cancelled \in SUBSET Players
  BY ParametersAssumption DEF ResidenceInv, PTTypeOK
<1>2. ASSUME NEW t, Acts(r, t), Act(r, t)
      PROVE  /\ AllSettled
             /\ UNCHANGED <<imVars, previousRegion, userRegion>>
             /\ transferTimers' \in [Regions -> SUBSET TransferPlayerTimer]
             /\ cancelled' \in SUBSET Players
  BY <1>1, <1>2, ActSettles DEF Act
<1>3. CASE JoinQueue(r, p)
  <2>1. Acts(r, QueueJoin(tables[r], Parameters[r], p, FALSE))
    BY <1>1, <1>3, QueueJoinType, QueueJoinSettled DEF JoinQueue, Acts
  <2> QED BY <1>2, <1>3, <2>1 DEF JoinQueue
<1>4. CASE LeaveQueue(r, p)
  <2>1. Acts(r, Dequeue(tables[r], p))
    BY <1>1, DequeueType, DequeueSettled DEF Acts
  <2> QED BY <1>2, <1>4, <2>1 DEF LeaveQueue
<1>5. CASE EnterRegion(r, p)
  <2>1. Acts(r, SignedIn(tables[r], p))
    BY <1>1, <1>5, SignedInSettled DEF EnterRegion, Acts
  <2> QED BY <1>2, <1>5, <2>1 DEF EnterRegion
<1>6. CASE LeaveRegion(r, p)
  <2>1. Acts(r, SignOut(tables[r], {p}, TRUE))
    BY <1>1, SignOutType, SignOutSettled DEF Acts
  <2> QED BY <1>2, <1>6, <2>1 DEF LeaveRegion
<1>7. CASE GracePeriodOver(r, p)
  <2>1. Acts(r, GraceEnds(tables[r], Parameters[r], p))
    BY <1>1, GraceEndsType, GraceEndsSettled DEF Acts
  <2> QED BY <1>2, <1>7, <2>1 DEF GracePeriodOver
<1>8. ASSUME NEW to \in Regions, ScheduleTransfer(r, p, to)
      PROVE  transferTimers' \in [Regions -> SUBSET TransferPlayerTimer]
  <2>1. [player |-> p, to |-> to] \in TransferPlayerTimer
    BY DEF TransferPlayerTimer
  <2> QED BY <1>1, <1>8, <2>1 DEF ScheduleTransfer
<1>9. ASSUME NEW to \in Regions, PlayerRegionCrossover(r, p, to)
      PROVE  /\ AllSettled
             /\ UNCHANGED <<imVars, previousRegion, userRegion>>
             /\ transferTimers' \in [Regions -> SUBSET TransferPlayerTimer]
             /\ cancelled' \in SUBSET Players
  BY <1>1, <1>8, <1>9, StaySettles DEF PlayerRegionCrossover
<1>10. CASE PlayerCancelRegionTransfer(r, p)
  <2> DEFINE before == tables[r].previous \ {p}
             t == [tables[r] EXCEPT !.previous = before]
  <2>1. /\ p \in tables[r].previous
        /\ ScheduleTransfer(r, p, previousRegion[r][p])
        /\ tables' = [tables EXCEPT ![r] = t]
        /\ cancelled' = cancelled \cup {p}
        /\ UNCHANGED <<imVars, previousRegion, userRegion>>
    BY <1>10 DEF PlayerCancelRegionTransfer
  <2>2. previousRegion[r][p] \in Regions
    BY <2>1 DEF ResidenceInv
  <2>3. before \subseteq tables[r].previous /\ before \in SUBSET Players
    BY <1>1 DEF TablesOK, Tables
  <2>4. Acts(r, t)
    <3> HIDE DEF before
    <3> QED BY <1>1, <2>3 DEF Acts, TablesOK, UniqueRows, Tables, Settled, SlotsOfResidents,
                              InGracePeriod
  <2> HIDE DEF t
  <2>5. AllSettled
    BY <2>1, <2>4, ActSettles
  <2> QED BY <1>1, <1>8, <2>1, <2>2, <2>5
<1> QED BY <1>3, <1>4, <1>5, <1>6, <1>7, <1>9, <1>10 DEF InRegion

LEMMA SettledKeepsInv ==
    ASSUME ResidenceInv, AllSettled, IMTypeOK', UNCHANGED previousRegion,
           transferTimers' \in [Regions -> SUBSET TransferPlayerTimer],
           userRegion' \in [Players -> Regions], cancelled' \in SUBSET Players
    PROVE  ResidenceInv'
<1>1. PTTypeOK'
  BY DEF ResidenceInv, PTTypeOK, AllSettled
<1>2. \A r \in Regions : TablesOK(tables'[r]) /\ SlotsOfResidents(tables'[r])
  BY DEF ResidenceInv, AllSettled, Settled
<1>3. \A r \in Regions : \A p \in tables'[r].previous : previousRegion'[r][p] \in Regions
  BY DEF ResidenceInv, AllSettled, Settled
<1> QED BY <1>1, <1>2, <1>3 DEF ResidenceInv

(***************************************************************************)
(* A player departs from r, or arrives there.                              *)
(***************************************************************************)
LEMMA DepartureKeepsInv ==
    ASSUME ResidenceInv, IMTypeOK', NEW r \in Regions, NEW p \in Players,
           tables' = [tables EXCEPT ![r] = Departing(r, p)],
           UNCHANGED <<previousRegion, userRegion, cancelled>>,
           transferTimers' \in [Regions -> SUBSET TransferPlayerTimer]
    PROVE  /\ ResidenceInv'
           /\ tables'[r].users = tables[r].users \ {p}
           /\ \A q \in Regions \ {r} : tables'[q] = tables[q]
<1> DEFINE t == Depart(tables[r], Parameters[r], p)
<1>1. TablesOK(tables[r]) /\ Parameters[r] \in RegionSignInParameters
  BY ParametersAssumption DEF ResidenceInv
<1>2. /\ TablesOK(t) /\ t.users = tables[r].users \ {p} /\ t.previous \subseteq tables[r].previous
      /\ SlotsOfResidents(tables[r]) => SlotsOfResidents(t)
  BY <1>1, TransferTypes, DepartSettled
<1>3. tables' = [tables EXCEPT ![r] = t]
  BY DEF Departing
<1> HIDE DEF t
<1>4. /\ tables' \in [Regions -> Tables] /\ tables'[r] = t
      /\ \A q \in Regions \ {r} : tables'[q] = tables[q]
      /\ \A q \in Regions : TablesOK(tables'[q])
  BY <1>2, <1>3, TableReplaced
<1>5. PTTypeOK'
  BY <1>4 DEF ResidenceInv, PTTypeOK
<1>6. \A q \in Regions : SlotsOfResidents(tables'[q])
  BY <1>2, <1>4 DEF ResidenceInv
<1>7. \A q \in Regions : \A n \in tables'[q].previous : previousRegion'[q][n] \in Regions
  BY <1>2, <1>4 DEF ResidenceInv
<1> QED BY <1>2, <1>4, <1>5, <1>6, <1>7 DEF ResidenceInv

LEMMA ArrivalKeepsInv ==
    ASSUME ResidenceInv, IMTypeOK', NEW r \in Regions, NEW p \in Players,
           NEW canSignIn \in BOOLEAN, NEW allowCancel \in BOOLEAN, NEW s \in Regions,
           tables' = [tables EXCEPT ![r] = Arrive(tables[r], p, canSignIn, allowCancel)],
           previousRegion' = IF allowCancel THEN [previousRegion EXCEPT ![r][p] = s]
                             ELSE previousRegion,
           transferTimers' = transferTimers, userRegion' = userRegion,
           cancelled' \in SUBSET Players
    PROVE  /\ ResidenceInv'
           /\ tables'[r].users = tables[r].users \cup {p}
           /\ \A q \in Regions \ {r} : tables'[q] = tables[q]
<1> DEFINE t == Arrive(tables[r], p, canSignIn, allowCancel)
<1>1. TablesOK(tables[r]) /\ Parameters[r] \in RegionSignInParameters
  BY ParametersAssumption DEF ResidenceInv
<1>2. /\ TablesOK(t) /\ t.users = tables[r].users \cup {p}
      /\ t.previous = IF allowCancel THEN tables[r].previous \cup {p} ELSE tables[r].previous
      /\ SlotsOfResidents(tables[r]) => SlotsOfResidents(t)
  <2>1. TablesOK(t)
    BY <1>1, TransferTypes, Zenon
  <2>2. /\ t.users = tables[r].users \cup {p}
        /\ t.previous = IF allowCancel THEN tables[r].previous \cup {p}
                         ELSE tables[r].previous
        /\ SlotsOfResidents(tables[r]) => SlotsOfResidents(t)
    BY <1>1, ArriveSettled
  <2> QED BY <2>1, <2>2
<1> HIDE DEF t
<1>4. /\ tables' \in [Regions -> Tables] /\ tables'[r] = t
      /\ \A q \in Regions \ {r} : tables'[q] = tables[q]
      /\ \A q \in Regions : TablesOK(tables'[q])
  BY <1>2, TableReplaced DEF t
<1>5. previousRegion \in [Regions -> [Players -> Modules]] /\ Regions \subseteq Modules
  BY DEF ResidenceInv, PTTypeOK, Modules
<1>6. previousRegion' \in [Regions -> [Players -> Modules]]
  <2>1. [previousRegion EXCEPT ![r][p] = s] \in [Regions -> [Players -> Modules]]
    BY <1>5
  <2>2. CASE allowCancel
    BY <2>1, <2>2
  <2>3. CASE ~allowCancel
    BY <1>5, <2>3
  <2> QED BY <2>2, <2>3
<1>7. PTTypeOK'
  BY <1>4, <1>6 DEF ResidenceInv, PTTypeOK
<1>8. \A q \in Regions : SlotsOfResidents(tables'[q])
  BY <1>2, <1>4 DEF ResidenceInv
<1>9. ASSUME NEW q \in Regions, NEW n \in tables'[q].previous
      PROVE  previousRegion'[q][n] \in Regions
  <2>1. n \in Players
    BY <1>4 DEF Tables
  <2>2. CASE q = r /\ n = p /\ allowCancel
    BY <1>5, <2>2
  <2>3. CASE ~(q = r /\ n = p /\ allowCancel)
    <3>1. previousRegion'[q][n] = previousRegion[q][n]
      BY <1>5, <2>1, <2>3
    <3>2. n \in tables[q].previous
      BY <1>2, <1>4, <2>3
    <3> QED BY <3>1, <3>2 DEF ResidenceInv
  <2> QED BY <2>2, <2>3
<1> QED BY <1>2, <1>4, <1>7, <1>8, <1>9 DEF ResidenceInv

(***************************************************************************)
(* The effects of the handlers, with their messages typed.                 *)
(***************************************************************************)
LEMMA HandlersArrive ==
    ASSUME ResidenceInv, IMTypeOK', NEW s \in Regions, NEW d \in Regions,
           ProcessTransferPlayer(s, d),
           NEW p, p = NextCall(s, d).contents.player
    PROVE  /\ ResidenceInv'
           /\ p \in Players
           /\ tables'[d].users = tables[d].users \cup {p}
           /\ \A q \in Regions \ {d} : tables'[q] = tables[q]
<1>1. PICK c \in Contents : c = NextCall(s, d).contents
  BY NextContents DEF ResidenceInv, PTTypeOK, Modules, ProcessTransferPlayer
<1>2. /\ c.type = "TransferPlayerRequest"
      /\ tables' = [tables EXCEPT ![d] = Arrive(@, c.player, ~c.allowCancel, c.allowCancel)]
      /\ previousRegion' = IF c.allowCancel THEN [previousRegion EXCEPT ![d][c.player] = s]
                           ELSE previousRegion
      /\ cancelled' = cancelled \ {c.player}
      /\ transferTimers' = transferTimers /\ userRegion' = userRegion
  BY <1>1 DEF ProcessTransferPlayer
<1>3. c.player \in Players /\ c.allowCancel \in BOOLEAN
  BY <1>2, RequestTypes
<1>4. PICK canSignIn \in BOOLEAN : canSignIn = ~c.allowCancel
  OBVIOUS
<1>5. PICK allowCancel \in BOOLEAN : allowCancel = c.allowCancel
  BY <1>3
<1>6. p \in Players /\ p = c.player
  BY <1>1, <1>3
<1>7. tables' = [tables EXCEPT ![d] = Arrive(tables[d], p, canSignIn, allowCancel)]
  BY <1>2, <1>4, <1>5, <1>6 DEF ResidenceInv, PTTypeOK
<1>8. previousRegion' = IF allowCancel THEN [previousRegion EXCEPT ![d][p] = s]
                        ELSE previousRegion
  BY <1>2, <1>5, <1>6
<1>9. /\ cancelled' \in SUBSET Players
      /\ transferTimers' = transferTimers /\ userRegion' = userRegion
  BY <1>2 DEF ResidenceInv, PTTypeOK
<1>10. /\ ResidenceInv'
       /\ tables'[d].users = tables[d].users \cup {p}
       /\ \A q \in Regions \ {d} : tables'[q] = tables[q]
  BY <1>6, <1>7, <1>8, <1>9, ArrivalKeepsInv
<1> QED BY <1>6, <1>10, Zenon

LEMMA RowTypes ==
    ASSUME IMTypeOK, NEW s \in Modules, NEW m \in outbox[s]
    PROVE  m \in InterModuleMessage /\ m.contents \in Contents /\ m.id \in Ids
<1>1. outbox \in [Modules -> SUBSET InterModuleMessage]
  BY Zenon DEF IMTypeOK
<1>2. m \in InterModuleMessage
  BY <1>1
<1> QED BY <1>2 DEF InterModuleMessage

(***************************************************************************)
(* A player whose journey failed is back where he set out; otherwise the   *)
(* result changes nothing.                                                 *)
(***************************************************************************)
LEMMA ResultsRestore ==
    ASSUME ResidenceInv, IMTypeOK', NEW s \in Modules, HandleResult(s)
    PROVE  /\ ResidenceInv'
           /\ \E m \in RowsWithId(s, Told(s).id) :
                /\ m.contents.type = "TransferPlayerRequest" => m.contents.player \in Players
                /\ IF s \in Regions /\ Refused(Told(s), m)
                   THEN /\ tables'[s].users = tables[s].users \cup {m.contents.player}
                        /\ \A q \in Regions \ {s} : tables'[q] = tables[q]
                   ELSE tables' = tables
<1>1. PICK m \in RowsWithId(s, Head(responses[s]).id) :
          tables' = Restored(s, Head(responses[s]), m)
  BY DEF HandleResult
<1>2. /\ UNCHANGED <<previousRegion, transferTimers, userRegion, cancelled>>
      /\ Told(s).id = Head(responses[s]).id /\ Told(s).result = Head(responses[s]).result
  BY DEF HandleResult, Told
<1>3. Refused(Head(responses[s]), m) <=> Refused(Told(s), m)
  BY <1>2 DEF Refused
<1>4. IMTypeOK /\ tables \in [Regions -> Tables] /\ cancelled \in SUBSET Players
  BY DEF ResidenceInv, PTTypeOK
<1>5. m.contents \in Contents
  BY <1>4, RowTypes DEF RowsWithId
<1>6. m.contents.type = "TransferPlayerRequest"
        => m.contents.player \in Players /\ m.contents.allowCancel \in BOOLEAN
  BY <1>5, RequestTypes
<1>7. CASE s \in Regions /\ Refused(Told(s), m)
  <2>1. PICK p \in Players : p = m.contents.player
    BY <1>6, <1>7 DEF Refused
  <2>2. PICK canSignIn \in BOOLEAN : canSignIn = ~m.contents.allowCancel
    BY <1>6, <1>7 DEF Refused
  <2>3. tables' = [tables EXCEPT ![s] = Arrive(tables[s], p, canSignIn, FALSE)]
    BY <1>1, <1>3, <1>4, <1>7, <2>1, <2>2 DEF Restored
  <2>4. /\ ResidenceInv'
        /\ tables'[s].users = tables[s].users \cup {p}
        /\ \A q \in Regions \ {s} : tables'[q] = tables[q]
    BY <1>2, <1>4, <1>7, <2>3, ArrivalKeepsInv
  <2> QED BY <1>1, <1>2, <1>6, <1>7, <2>1, <2>4
<1>8. CASE ~(s \in Regions /\ Refused(Told(s), m))
  <2>1. tables' = tables
    BY <1>1, <1>3, <1>4, <1>8 DEF Restored
  <2>2. ResidenceInv'
    BY <1>2, <2>1, StaySettles, SettledKeepsInv DEF ResidenceInv, PTTypeOK
  <2> QED BY <1>1, <1>2, <1>6, <1>8, <2>1, <2>2
<1> QED BY <1>7, <1>8

LEMMA InitResidence == PTInit => ResidenceInv
<1> SUFFICES ASSUME PTInit PROVE ResidenceInv
  OBVIOUS
<1>1. IMTypeOK /\ Home \in [Players -> Regions] /\ Global \in Modules
  BY InitType, HomeAssumption DEF PTInit, Modules
<1>2. ASSUME NEW users \in SUBSET Players
      PROVE  /\ TablesOK(EmptyTables(users)) /\ SlotsOfResidents(EmptyTables(users))
             /\ EmptyTables(users).previous = {}
  <2>1. EmptyTables(users) \in Tables
    BY DEF EmptyTables, Tables
  <2>2. /\ EmptyTables(users).queue = <<>> /\ EmptyTables(users).signedIn = {}
        /\ EmptyTables(users).canSignIn = {} /\ EmptyTables(users).previous = {}
        /\ \A p \in Players : EmptyTables(users).timer[p] = "none"
    BY DEF EmptyTables
  <2>3. UniqueRows(EmptyTables(users))
    BY <2>2, EmptySeq DEF UniqueRows
  <2>4. SlotsOfResidents(EmptyTables(users))
    BY <2>2 DEF SlotsOfResidents, InGracePeriod
  <2> QED BY <2>1, <2>2, <2>3, <2>4 DEF TablesOK
<1>3. ASSUME NEW r \in Regions
      PROVE  TablesOK(tables[r]) /\ SlotsOfResidents(tables[r]) /\ tables[r].previous = {}
  <2>1. tables[r] = EmptyTables({p \in Players : Home[p] = r})
    BY DEF PTInit
  <2>2. {p \in Players : Home[p] = r} \in SUBSET Players
    OBVIOUS
  <2> QED BY <1>2, <2>1, <2>2
<1>4. tables \in [Regions -> Tables]
  BY <1>3 DEF PTInit, TablesOK
<1>5. PTTypeOK
  BY <1>1, <1>4 DEF PTInit, PTTypeOK
<1> QED BY <1>3, <1>5 DEF ResidenceInv

LEMMA NextResidence ==
    ASSUME ResidenceInv, [PTNext]_ptVars
    PROVE  ResidenceInv'
<1>1. IMTypeOK'
  BY TransferIsProtocol, NextType DEF ResidenceInv, PTTypeOK
<1>2. /\ transferTimers \in [Regions -> SUBSET TransferPlayerTimer]
      /\ userRegion \in [Players -> Regions] /\ cancelled \in SUBSET Players
      /\ Regions \subseteq Modules /\ Global \in Modules /\ IMTypeOK
  BY DEF ResidenceInv, PTTypeOK, Modules
<1>3. ASSUME UNCHANGED playerVars
      PROVE  ResidenceInv'
  BY <1>1, <1>2, <1>3, StaySettles, SettledKeepsInv DEF playerVars
<1>4. ASSUME NEW r \in Regions, NEW p \in Players, InRegion(r, p)
      PROVE  ResidenceInv'
  BY <1>1, <1>2, <1>4, InRegionSettles, SettledKeepsInv
<1>5. ASSUME NEW r \in Regions, TransferPlayerDelayed(r)
      PROVE  ResidenceInv'
  <2>1. PICK t \in transferTimers[r] :
            /\ transferTimers' = [transferTimers EXCEPT ![r] = @ \ {t}]
            /\ IF t.player \in tables[r].users
               THEN tables' = [tables EXCEPT ![r] = Departing(r, t.player)]
               ELSE UNCHANGED tables
            /\ UNCHANGED <<previousRegion, userRegion, cancelled>>
    BY <1>5 DEF TransferPlayerDelayed
  <2>2. transferTimers' \in [Regions -> SUBSET TransferPlayerTimer]
    BY <1>2, <2>1
  <2>3. t.player \in Players
    BY <1>2 DEF TransferPlayerTimer
  <2>4. CASE t.player \in tables[r].users
    BY <1>1, <2>1, <2>2, <2>3, <2>4, DepartureKeepsInv
  <2>5. CASE t.player \notin tables[r].users
    BY <1>1, <1>2, <2>1, <2>2, <2>5, StaySettles, SettledKeepsInv
  <2> QED BY <2>4, <2>5
<1>6. ASSUME NEW s \in Regions, NEW d \in Regions, ProcessTransferPlayer(s, d)
      PROVE  ResidenceInv'
  BY <1>1, <1>6, HandlersArrive
<1>7. ASSUME NEW s \in Regions, ProcessUserUpdateRegion(s)
      PROVE  ResidenceInv'
  <2>1. PICK c \in Contents : c = NextCall(s, Global).contents
    BY <1>2, <1>7, NextContents DEF ProcessUserUpdateRegion
  <2>2. /\ c.type = "UserUpdateRegionRequest"
        /\ userRegion' = [userRegion EXCEPT ![c.player] = c.region]
        /\ UNCHANGED <<tables, previousRegion, transferTimers, cancelled>>
    BY <1>7, <2>1 DEF ProcessUserUpdateRegion
  <2>3. userRegion' \in [Players -> Regions]
    BY <1>2, <2>2, RequestTypes
  <2> QED BY <1>1, <1>2, <2>2, <2>3, StaySettles, SettledKeepsInv
<1>8. ASSUME NEW s \in Modules, HandleResult(s)
      PROVE  ResidenceInv'
  BY <1>1, <1>8, ResultsRestore
<1>9. ASSUME NEW s \in Modules, NEW d \in Modules,
             \/ NoResult(s) \/ Forward(s, d) \/ Duplicate(s, d) \/ FailToInsert(s, d)
             \/ Respond \/ Restart \/ UNCHANGED ptVars
      PROVE  UNCHANGED playerVars
  BY <1>9 DEF NoResult, Forward, Duplicate, FailToInsert, Respond, Restart, ptVars
<1> QED BY <1>2, <1>3, <1>4, <1>5, <1>6, <1>7, <1>8, <1>9 DEF PTNext

(***************************************************************************)
(* The tables of every region keep their types, and the region a player    *)
(* may go back to is one.                                                  *)
(***************************************************************************)
THEOREM TransferTypeCorrect == PTSpec => []PTTypeOK
<1>1. ResidenceInv => PTTypeOK
  BY DEF ResidenceInv
<1> QED BY <1>1, InitResidence, NextResidence, PTL DEF PTSpec

(***************************************************************************)
(* A player who has left a region holds none of its slots and no           *)
(* permission there, whatever the relay does with his journey.             *)
(***************************************************************************)
THEOREM NoSlotsLeftBehind == PTSpec => []DepartedHoldsNoSlot
<1>1. ResidenceInv => DepartedHoldsNoSlot
  BY DEF ResidenceInv, DepartedHoldsNoSlot, SlotsOfResidents
<1> QED BY <1>1, InitResidence, NextResidence, PTL DEF PTSpec

-----------------------------------------------------------------------------
(***************************************************************************)
(* Where a player is.  His journey, if he is on one, is known by the row   *)
(* of the outbox that carries him.                                         *)
(***************************************************************************)
TakesAlong(m, p) == m.contents.type = "TransferPlayerRequest" /\ m.contents.player = p

Key(s, id) == [sender |-> s, id |-> id]

InOnePlace(p) ==
    \/ (\E r \in Regions : Residences(p) = {r}) /\ Journeys(p) = {}
    \/ Residences(p) = {} /\ \E j : Journeys(p) = {j}

WhereaboutsInv == \A p \in Players : InOnePlace(p)

LEMMA JourneyRows ==
    ASSUME NEW p, NEW j
    PROVE  j \in Journeys(p) <=>
             \E s \in Regions : \E m \in outbox[s] :
                 j = Key(s, m.id) /\ TakesAlong(m, p) /\ ~TookEffect(s, m.id)
BY DEF Journeys, TakesAlong, Key

LEMMA NextJourneyRows ==
    ASSUME NEW p, NEW j
    PROVE  j \in Journeys(p)' <=>
             \E s \in Regions : \E m \in outbox'[s] :
                 j = Key(s, m.id) /\ TakesAlong(m, p) /\ ~HasEffect(s, m.id)
<1>1. ASSUME NEW s, NEW id
      PROVE  TookEffect(s, id)' <=> HasEffect(s, id)
  BY DEF TookEffect, HasEffect
<1> QED BY <1>1 DEF Journeys, TakesAlong, Key

LEMMA OnePlaceCounts ==
    ASSUME NEW p, InOnePlace(p)
    PROVE  Cardinality(Residences(p)) + Cardinality(Journeys(p)) = 1
<1>1. \A x : Cardinality({x}) = 1
  BY FS_Singleton
<1>2. Cardinality({}) = 0
  BY FS_EmptySet
<1>3. CASE (\E r \in Regions : Residences(p) = {r}) /\ Journeys(p) = {}
  <2>1. Cardinality(Residences(p)) = 1 /\ Cardinality(Journeys(p)) = 0
    BY <1>1, <1>2, <1>3
  <2> QED BY <2>1
<1>4. CASE Residences(p) = {} /\ \E j : Journeys(p) = {j}
  <2>1. Cardinality(Residences(p)) = 0 /\ Cardinality(Journeys(p)) = 1
    BY <1>1, <1>2, <1>4
  <2> QED BY <2>1
<1> QED BY <1>3, <1>4 DEF InOnePlace

(***************************************************************************)
(* What a step does to a player: nothing, or he sets out, or his journey   *)
(* ends.                                                                   *)
(***************************************************************************)
LEMMA StaysPut ==
    ASSUME NEW p, InOnePlace(p), Residences(p)' = Residences(p), Journeys(p)' = Journeys(p)
    PROVE  InOnePlace(p)'
BY DEF InOnePlace

LEMMA SetsOut ==
    ASSUME NEW p, InOnePlace(p), NEW r \in Regions, NEW j, r \in Residences(p),
           Residences(p)' = Residences(p) \ {r}, Journeys(p)' = Journeys(p) \cup {j}
    PROVE  InOnePlace(p)'
<1>1. Residences(p) = {r} /\ Journeys(p) = {}
  BY DEF InOnePlace
<1> QED BY <1>1 DEF InOnePlace

LEMMA JourneyEnds ==
    ASSUME NEW p, InOnePlace(p), NEW r \in Regions, NEW j \in Journeys(p),
           Residences(p)' = Residences(p) \cup {r}, Journeys(p)' = Journeys(p) \ {j}
    PROVE  InOnePlace(p)'
<1>1. Residences(p) = {} /\ Journeys(p) = {j}
  BY DEF InOnePlace
<1>2. Residences(p)' = {r} /\ Journeys(p)' = {}
  BY <1>1
<1> QED BY <1>2 DEF InOnePlace

(***************************************************************************)
(* What the steps do to the journeys.                                      *)
(***************************************************************************)
LEMMA NoJourneyChanges ==
    ASSUME NEW p, outbox' = outbox, applied' = applied
    PROVE  Journeys(p)' = Journeys(p)
BY DEF Journeys, TookEffect

LEMMA DepartureRows ==
    ASSUME NEW p, NEW r \in Regions, NEW m, applied' = applied, ~TookEffect(r, m.id),
           outbox'[r] = outbox[r] \cup {m},
           \A q \in Regions \ {r} : outbox'[q] = outbox[q]
    PROVE  Journeys(p)' = IF TakesAlong(m, p) THEN Journeys(p) \cup {Key(r, m.id)}
                          ELSE Journeys(p)
<1>1. \A t, id : HasEffect(t, id) <=> TookEffect(t, id)
  BY DEF HasEffect, TookEffect
<1>2. \A j : j \in Journeys(p)' <=> j \in Journeys(p) \/ (TakesAlong(m, p) /\ j = Key(r, m.id))
  BY <1>1, JourneyRows, NextJourneyRows
<1> QED BY <1>2

LEMMA EffectRows ==
    ASSUME NEW p, NEW s \in Regions, NEW id,
           \A t, i : HasEffect(t, i) <=> TookEffect(t, i) \/ (t = s /\ i = id),
           \A q \in Regions : outbox[q] \subseteq outbox'[q],
           \A q \in Regions : \A m \in outbox'[q] \ outbox[q] : ~TakesAlong(m, p)
    PROVE  Journeys(p)' = Journeys(p) \ {Key(s, id)}
<1>1. \A t, i : Key(t, i) = Key(s, id) <=> t = s /\ i = id
  BY DEF Key
<1>2. \A j : j \in Journeys(p)' <=> j \in Journeys(p) /\ j # Key(s, id)
  BY <1>1, JourneyRows, NextJourneyRows
<1> QED BY <1>2

LEMMA AnsweredRows ==
    ASSUME NEW p, NEW s \in Modules, NEW id, applied' = applied,
           outbox'[s] = outbox[s] \ RowsWithId(s, id),
           \A q \in Modules \ {s} : outbox'[q] = outbox[q]
    PROVE  Journeys(p)' = Journeys(p) \ {Key(s, id)}
<1>1. \A t, i : Key(t, i) = Key(s, id) <=> t = s /\ i = id
  BY DEF Key
<1>2. \A t, i : HasEffect(t, i) <=> TookEffect(t, i)
  BY DEF HasEffect, TookEffect
<1>3. Regions \subseteq Modules
  BY DEF Modules
<1>4. \A m : m \in outbox'[s] <=> m \in outbox[s] /\ m.id # id
  BY DEF RowsWithId
<1>5. \A j : j \in Journeys(p)' <=> j \in Journeys(p) /\ j # Key(s, id)
  <2> SUFFICES ASSUME NEW j
               PROVE  j \in Journeys(p)' <=> j \in Journeys(p) /\ j # Key(s, id)
    OBVIOUS
  <2>1. ASSUME j \in Journeys(p)'
        PROVE  j \in Journeys(p) /\ j # Key(s, id)
    <3>1. PICK t \in Regions : \E m \in outbox'[t] :
              j = Key(t, m.id) /\ TakesAlong(m, p) /\ ~HasEffect(t, m.id)
      BY <2>1, NextJourneyRows
    <3>2. PICK m \in outbox'[t] : j = Key(t, m.id) /\ TakesAlong(m, p) /\ ~HasEffect(t, m.id)
      BY <3>1
    <3>3. m \in outbox[t] /\ (t = s => m.id # id)
      BY <1>3, <1>4, <3>2
    <3> QED BY <1>1, <1>2, <3>2, <3>3, JourneyRows
  <2>2. ASSUME j \in Journeys(p), j # Key(s, id)
        PROVE  j \in Journeys(p)'
    <3>1. PICK t \in Regions : \E m \in outbox[t] :
              j = Key(t, m.id) /\ TakesAlong(m, p) /\ ~TookEffect(t, m.id)
      BY <2>2, JourneyRows
    <3>2. PICK m \in outbox[t] : j = Key(t, m.id) /\ TakesAlong(m, p) /\ ~TookEffect(t, m.id)
      BY <3>1
    <3>3. m \in outbox'[t]
      BY <1>1, <1>3, <1>4, <2>2, <3>2
    <3> QED BY <1>2, <3>2, <3>3, NextJourneyRows
  <2> QED BY <2>1, <2>2
<1> QED BY <1>5

-----------------------------------------------------------------------------
(***************************************************************************)
(* The outbox after a transaction that inserts one row, or none.           *)
(***************************************************************************)
LEMMA OneRowPosted ==
    ASSUME IMTypeOK, NEW r \in Modules, NEW row \in Row, Post(r, outbox[r], <<row>>)
    PROVE  /\ outbox'[r] = outbox[r] \cup
                {[id |-> LastId(r) + 1, to |-> row.to, contents |-> row.contents]}
           /\ \A q \in Modules \ {r} : outbox'[q] = outbox[q]
<1>1. <<row>> \in Seq(Row) /\ DOMAIN <<row>> = {1} /\ <<row>>[1] = row
  OBVIOUS
<1>2. Numbered(r, <<row>>) = {[id |-> LastId(r) + 1, to |-> row.to, contents |-> row.contents]}
  BY <1>1 DEF Numbered
<1>3. PICK rows \in Seq(Row) : rows = <<row>>
  BY <1>1
<1>4. Inserts(r, outbox[r], rows) /\ \A q \in Modules \ {r} : outbox'[q] = outbox[q]
  BY <1>3, PostInserts
<1> QED BY <1>2, <1>3, <1>4 DEF Inserts

LEMMA NoRowPosted ==
    ASSUME IMTypeOK, NEW r \in Modules, NEW kept, Post(r, kept, <<>>)
    PROVE  /\ outbox'[r] = kept
           /\ \A q \in Modules \ {r} : outbox'[q] = outbox[q]
<1>1. <<>> \in Seq(Row) /\ Numbered(r, <<>>) = {}
  BY EmptySeq DEF Numbered
<1>2. PICK rows \in Seq(Row) : rows = <<>>
  BY <1>1
<1>3. Inserts(r, kept, rows) /\ \A q \in Modules \ {r} : outbox'[q] = outbox[q]
  BY <1>2, PostInserts
<1> QED BY <1>1, <1>2, <1>3 DEF Inserts

LEMMA NothingNumberedYet ==
    ASSUME IMTypeOK, EffectsAddressed, NEW r \in Modules
    PROVE  ~TookEffect(r, LastId(r) + 1)
<1>1. LastId(r) \in Nat
  BY LenProperties DEF IMTypeOK, LastId
<1>2. \A e \in Modules : ~AddressedTo(r, LastId(r) + 1, e)
  BY <1>1 DEF AddressedTo
<1> QED BY <1>2 DEF EffectsAddressed, TookEffect

(***************************************************************************)
(* The message of a call that runs is still on its way: the journey of the *)
(* player it carries, if it carries one, and of nobody else.               *)
(***************************************************************************)
LEMMA CallIsJourney ==
    ASSUME StickyFailures, RemoteInv, NEW s \in Regions, NEW d \in Modules, NEW rows,
           ProcessOk(s, d, rows), NEW p \in Players
    PROVE  Key(s, NextCall(s, d).id) \in Journeys(p) <=> TakesAlong(NextCall(s, d), p)
<1>1. /\ calls[s][d] # <<>> /\ IsNew(s, d) /\ NextMessage(s, d) \notin failed /\ s \in Modules
      /\ RowsUnique
  BY DEF ProcessOk, RemoteInv, WindowInv, Modules
<1>2. /\ ~TookEffect(s, NextCall(s, d).id)
      /\ \E m \in outbox[s] : /\ m.id = NextCall(s, d).id
                              /\ m.to = d
                              /\ m.contents = NextCall(s, d).contents
  BY <1>1, NewCallHasRow
<1>3. PICK m \in outbox[s] : m.id = NextCall(s, d).id /\ m.contents = NextCall(s, d).contents
  BY <1>2
<1>4. ASSUME TakesAlong(NextCall(s, d), p)
      PROVE  Key(s, NextCall(s, d).id) \in Journeys(p)
  BY <1>2, <1>3, <1>4, JourneyRows DEF TakesAlong
<1>5. ASSUME Key(s, NextCall(s, d).id) \in Journeys(p)
      PROVE  TakesAlong(NextCall(s, d), p)
  <2>1. PICK t \in Regions : \E n \in outbox[t] :
            Key(s, NextCall(s, d).id) = Key(t, n.id) /\ TakesAlong(n, p)
    BY <1>5, JourneyRows
  <2>2. PICK n \in outbox[t] :
            Key(s, NextCall(s, d).id) = Key(t, n.id) /\ TakesAlong(n, p)
    BY <2>1
  <2>3. t = s /\ n.id = m.id
    BY <1>3, <2>2 DEF Key
  <2>4. n = m
    BY <1>1, <2>3 DEF RowsUnique
  <2> QED BY <1>3, <2>2, <2>4 DEF TakesAlong
<1> QED BY <1>4, <1>5

(***************************************************************************)
(* A player sets out.                                                      *)
(***************************************************************************)
LEMMA DepartureWhereabouts ==
    ASSUME RemoteInv, ResidenceInv, WhereaboutsInv, NEW r \in Regions, TransferPlayerDelayed(r),
           IMTypeOK', NEW p \in Players
    PROVE  InOnePlace(p)'
<1>1. PICK t \in transferTimers[r] :
          /\ transferTimers' = [transferTimers EXCEPT ![r] = @ \ {t}]
          /\ IF t.player \in tables[r].users
             THEN /\ Post(r, outbox[r],
                          <<[to |-> t.to, contents |-> TransferRequest(r, t.player)]>>)
                  /\ tables' = [tables EXCEPT ![r] = Departing(r, t.player)]
             ELSE UNCHANGED <<outboxVars, tables>>
          /\ UNCHANGED <<destinationVars, previousRegion, userRegion, cancelled>>
  BY DEF TransferPlayerDelayed
<1>2. /\ t.player \in Players /\ t.to \in Regions /\ IMTypeOK /\ EffectsAddressed
      /\ Regions \subseteq Modules /\ applied' = applied
      /\ transferTimers' \in [Regions -> SUBSET TransferPlayerTimer]
  BY <1>1 DEF ResidenceInv, PTTypeOK, TransferPlayerTimer, RemoteInv, WindowInv, Modules,
              destinationVars
<1>3. InOnePlace(p)
  BY DEF WhereaboutsInv
<1>4. CASE t.player \notin tables[r].users
  <2>1. outbox' = outbox /\ tables' = tables
    BY <1>1, <1>4 DEF outboxVars
  <2>2. Residences(p)' = Residences(p)
    BY <2>1 DEF Residences
  <2> QED BY <1>2, <1>3, <2>1, <2>2, NoJourneyChanges, StaysPut
<1>5. CASE t.player \in tables[r].users
  <2> DEFINE row == [to |-> t.to, contents |-> TransferRequest(r, t.player)]
             m == [id |-> LastId(r) + 1, to |-> row.to, contents |-> row.contents]
  <2>1. row \in Row
    <3>1. TransferRequest(r, t.player) \in Contents
      BY <1>2, ContentsAssumption DEF TransferRequest, MessageContents,
                                      TransferPlayerRequests
    <3> QED BY <1>2, <3>1 DEF Row
  <2>2. Post(r, outbox[r], <<row>>)
    BY <1>1, <1>5
  <2>3. outbox'[r] = outbox[r] \cup {m} /\ \A q \in Modules \ {r} : outbox'[q] = outbox[q]
    <3> HIDE DEF row
    <3> QED BY <1>2, <2>1, <2>2, OneRowPosted
  <2>4. /\ tables'[r].users = tables[r].users \ {t.player}
        /\ \A q \in Regions \ {r} : tables'[q] = tables[q]
    BY <1>1, <1>2, <1>5, DepartureKeepsInv
  <2>5. TakesAlong(m, p) <=> p = t.player
    BY DEF TakesAlong, TransferRequest
  <2>6. ~TookEffect(r, m.id)
    BY <1>2, NothingNumberedYet
  <2> HIDE DEF m, row
  <2>7. Journeys(p)' = IF TakesAlong(m, p) THEN Journeys(p) \cup {Key(r, m.id)} ELSE Journeys(p)
    BY <1>2, <2>3, <2>6, DepartureRows
  <2>8. CASE p = t.player
    <3>1. r \in Residences(p) /\ Residences(p)' = Residences(p) \ {r}
      BY <1>5, <2>4, <2>8 DEF Residences
    <3> QED BY <1>3, <2>5, <2>7, <2>8, <3>1, SetsOut
  <2>9. CASE p # t.player
    <3>1. Residences(p)' = Residences(p)
      BY <2>4, <2>9 DEF Residences
    <3> QED BY <1>3, <2>5, <2>7, <2>9, <3>1, StaysPut
  <2> QED BY <2>8, <2>9
<1> QED BY <1>4, <1>5

(***************************************************************************)
(* A player arrives.                                                       *)
(***************************************************************************)
LEMMA ArrivalWhereabouts ==
    ASSUME StickyFailures, RemoteInv, ResidenceInv, WhereaboutsInv, IMTypeOK',
           NEW s \in Regions, NEW d \in Regions, ProcessTransferPlayer(s, d),
           NEW p \in Players
    PROVE  InOnePlace(p)'
<1>1. PICK c \in Contents : c = NextCall(s, d).contents
  BY NextContents DEF ResidenceInv, PTTypeOK, Modules, ProcessTransferPlayer
<1>2. PICK id : id = NextCall(s, d).id
  OBVIOUS
<1>3. c.type = "TransferPlayerRequest" /\ ProcessOk(s, d, <<UserUpdateRegion(d, c.player)>>)
  BY <1>1 DEF ProcessTransferPlayer, Announcement
<1>4. /\ c.player \in Players
      /\ tables'[d].users = tables[d].users \cup {c.player}
      /\ \A q \in Regions \ {d} : tables'[q] = tables[q]
  BY <1>1, HandlersArrive
<1>5. s \in Modules /\ d \in Modules /\ IMTypeOK /\ Regions \subseteq Modules
  BY DEF Modules, ResidenceInv, PTTypeOK
<1>6. UserUpdateRegion(d, c.player) \in Row /\ <<UserUpdateRegion(d, c.player)>> \in Seq(Row)
  <2>1. [type |-> "UserUpdateRegionRequest", player |-> c.player, region |-> d] \in Contents
    BY <1>4, ContentsAssumption DEF MessageContents, UserUpdateRegionRequests
  <2>2. UserUpdateRegion(d, c.player) \in Row
    BY <2>1 DEF Row, UserUpdateRegion, Modules
  <2> QED BY <2>2
<1>7. \A t, i : HasEffect(t, i) <=> TookEffect(t, i) \/ (t = s /\ i = id)
  <2>1. Succeeds(s, d)
    BY <1>3, <1>6 DEF Succeeds
  <2> QED BY <1>2, <1>5, <2>1, EffectAdded
<1>8. /\ \A q \in Regions : outbox[q] \subseteq outbox'[q]
      /\ \A q \in Regions : \A m \in outbox'[q] \ outbox[q] : ~TakesAlong(m, p)
  <2> DEFINE row == UserUpdateRegion(d, c.player)
             new == [id |-> LastId(d) + 1, to |-> row.to, contents |-> row.contents]
  <2>1. Post(d, outbox[d], <<row>>)
    BY <1>3 DEF ProcessOk
  <2>2. outbox'[d] = outbox[d] \cup {new} /\ \A q \in Modules \ {d} : outbox'[q] = outbox[q]
    BY <1>5, <1>6, <2>1, OneRowPosted
  <2>3. ~TakesAlong(new, p)
    BY DEF TakesAlong, UserUpdateRegion
  <2> HIDE DEF new
  <2> QED BY <1>5, <2>2, <2>3
<1>9. Journeys(p)' = Journeys(p) \ {Key(s, id)}
  BY <1>7, <1>8, EffectRows
<1>10. Key(s, id) \in Journeys(p) <=> p = c.player
  BY <1>1, <1>2, <1>3, <1>5, CallIsJourney DEF TakesAlong
<1>11. InOnePlace(p)
  BY DEF WhereaboutsInv
<1>12. CASE p = c.player
  <2>1. Residences(p)' = Residences(p) \cup {d}
    BY <1>4, <1>12 DEF Residences
  <2> QED BY <1>9, <1>10, <1>11, <1>12, <2>1, JourneyEnds
<1>13. CASE p # c.player
  <2>1. Residences(p)' = Residences(p)
    BY <1>4, <1>13 DEF Residences
  <2>2. Journeys(p)' = Journeys(p)
    BY <1>9, <1>10, <1>13
  <2> QED BY <1>11, <2>1, <2>2, StaysPut
<1> QED BY <1>12, <1>13

(***************************************************************************)
(* The global module learns where a player is.                             *)
(***************************************************************************)
LEMMA UpdateWhereabouts ==
    ASSUME StickyFailures, RemoteInv, ResidenceInv, WhereaboutsInv,
           NEW s \in Regions, ProcessUserUpdateRegion(s), NEW p \in Players
    PROVE  InOnePlace(p)'
<1>1. /\ NextCall(s, Global).contents.type = "UserUpdateRegionRequest"
      /\ ProcessOk(s, Global, <<>>) /\ tables' = tables
  BY DEF ProcessUserUpdateRegion
<1>2. s \in Modules /\ Global \in Modules /\ IMTypeOK /\ Regions \subseteq Modules
  BY DEF Modules, ResidenceInv, PTTypeOK
<1>3. PICK id : id = NextCall(s, Global).id
  OBVIOUS
<1>4. \A t, i : HasEffect(t, i) <=> TookEffect(t, i) \/ (t = s /\ i = id)
  <2>1. Succeeds(s, Global)
    BY <1>1, EmptySeq DEF Succeeds
  <2> QED BY <1>2, <1>3, <2>1, EffectAdded
<1>5. \A q \in Regions : outbox'[q] = outbox[q]
  <2>1. Post(Global, outbox[Global], <<>>)
    BY <1>1 DEF ProcessOk
  <2> QED BY <1>2, <2>1, NoRowPosted
<1>6. Journeys(p)' = Journeys(p) \ {Key(s, id)}
  BY <1>4, <1>5, EffectRows
<1>7. Key(s, id) \notin Journeys(p)
  BY <1>1, <1>2, <1>3, CallIsJourney DEF TakesAlong
<1>8. Journeys(p)' = Journeys(p) /\ Residences(p)' = Residences(p)
  BY <1>1, <1>6, <1>7 DEF Residences
<1> QED BY <1>8, StaysPut DEF WhereaboutsInv

(***************************************************************************)
(* The region that sent a player hears how it went: he arrived, or he is   *)
(* back.                                                                   *)
(***************************************************************************)
LEMMA ResultWhereabouts ==
    ASSUME RemoteInv, ResidenceInv, WhereaboutsInv, IMTypeOK',
           NEW s \in Modules, HandleResult(s), NEW p \in Players
    PROVE  InOnePlace(p)'
<1>1. /\ IMTypeOK /\ RowsUnique /\ Regions \subseteq Modules
  BY DEF RemoteInv, WindowInv, Modules
<1>2. PICK m \in RowsWithId(s, Told(s).id) :
          /\ m.contents.type = "TransferPlayerRequest" => m.contents.player \in Players
          /\ IF s \in Regions /\ Refused(Told(s), m)
             THEN /\ tables'[s].users = tables[s].users \cup {m.contents.player}
                  /\ \A q \in Regions \ {s} : tables'[q] = tables[q]
             ELSE tables' = tables
  BY ResultsRestore
<1>3. /\ responses[s] # <<>> /\ RowsWithId(s, Told(s).id) # {}
      /\ Post(s, outbox[s] \ RowsWithId(s, Told(s).id), <<>>) /\ applied' = applied
  BY <1>2 DEF HandleResult, OnProcessed, Answered, Told, destinationVars
<1>4. PICK id : id = Told(s).id
  OBVIOUS
<1>5. /\ Told(s).result \in {"Ok", "Err"}
      /\ Told(s).result = "Ok" => TookEffect(s, id)
      /\ Told(s).result = "Err" => ~TookEffect(s, id)
  BY <1>3, <1>4, AnswersAreTrue
<1>6. /\ outbox'[s] = outbox[s] \ RowsWithId(s, id)
      /\ \A q \in Modules \ {s} : outbox'[q] = outbox[q]
  BY <1>1, <1>3, <1>4, NoRowPosted
<1>7. Journeys(p)' = Journeys(p) \ {Key(s, id)}
  BY <1>3, <1>6, AnsweredRows
<1>8. m \in outbox[s] /\ m.id = id
  BY <1>2, <1>4 DEF RowsWithId
<1>9. Key(s, id) \in Journeys(p)
          <=> s \in Regions /\ TakesAlong(m, p) /\ ~TookEffect(s, id)
  <2>1. ASSUME Key(s, id) \in Journeys(p)
        PROVE  s \in Regions /\ TakesAlong(m, p) /\ ~TookEffect(s, id)
    <3>1. PICK t \in Regions : \E n \in outbox[t] :
              Key(s, id) = Key(t, n.id) /\ TakesAlong(n, p) /\ ~TookEffect(t, n.id)
      BY <2>1, JourneyRows
    <3>2. PICK n \in outbox[t] :
              Key(s, id) = Key(t, n.id) /\ TakesAlong(n, p) /\ ~TookEffect(t, n.id)
      BY <3>1
    <3>3. t = s /\ n.id = id
      BY <3>2 DEF Key
    <3>4. n = m
      BY <1>1, <1>8, <3>3 DEF RowsUnique
    <3> QED BY <3>2, <3>3, <3>4
  <2>2. ASSUME s \in Regions, TakesAlong(m, p), ~TookEffect(s, id)
        PROVE  Key(s, id) \in Journeys(p)
    BY <1>8, <2>2, JourneyRows
  <2> QED BY <2>1, <2>2
<1>10. InOnePlace(p)
  BY DEF WhereaboutsInv
<1>11. CASE Key(s, id) \in Journeys(p)
  <2>1. s \in Regions /\ TakesAlong(m, p) /\ Told(s).result = "Err"
    BY <1>5, <1>9, <1>11
  <2>2. Refused(Told(s), m) /\ m.contents.player = p
    BY <2>1 DEF Refused, TakesAlong
  <2>3. Residences(p)' = Residences(p) \cup {s}
    BY <1>2, <2>1, <2>2 DEF Residences
  <2> QED BY <1>7, <1>10, <1>11, <2>1, <2>3, JourneyEnds
<1>12. CASE Key(s, id) \notin Journeys(p)
  <2>1. ~(s \in Regions /\ Refused(Told(s), m) /\ m.contents.player = p)
    BY <1>5, <1>9, <1>12 DEF Refused, TakesAlong
  <2>2. Residences(p)' = Residences(p)
    BY <1>2, <2>1 DEF Residences
  <2>3. Journeys(p)' = Journeys(p)
    BY <1>7, <1>12
  <2> QED BY <1>10, <2>2, <2>3, StaysPut
<1> QED BY <1>11, <1>12

LEMMA NextWhereabouts ==
    ASSUME StickyFailures, RemoteInv, ResidenceInv, WhereaboutsInv, [PTNext]_ptVars
    PROVE  WhereaboutsInv'
<1> SUFFICES ASSUME NEW p \in Players
             PROVE  InOnePlace(p)'
  BY DEF WhereaboutsInv
<1>1. IMTypeOK'
  BY NextResidence DEF ResidenceInv, PTTypeOK
<1>2. InOnePlace(p)
  BY DEF WhereaboutsInv
<1>3. ASSUME NEW r \in Regions, NEW q \in Players, InRegion(r, q)
      PROVE  InOnePlace(p)'
  <2>1. AllSettled /\ outbox' = outbox /\ applied' = applied
    BY <1>3, InRegionSettles DEF imVars, outboxVars, destinationVars
  <2>2. Residences(p)' = Residences(p)
    BY <2>1 DEF AllSettled, Settled, Residences
  <2> QED BY <1>2, <2>1, <2>2, NoJourneyChanges, StaysPut
<1>4. ASSUME NEW s \in Modules, NEW d \in Modules,
             \/ NoResult(s) \/ Forward(s, d) \/ Duplicate(s, d) \/ FailToInsert(s, d)
             \/ Respond \/ Restart \/ UNCHANGED ptVars
      PROVE  InOnePlace(p)'
  <2>1. ASSUME NEW e \in Modules, ModuleRestart(e)
        PROVE  outbox' = outbox /\ applied' = applied
    BY <2>1 DEF ModuleRestart, outboxVars
  <2>2. outbox' = outbox /\ applied' = applied /\ tables' = tables
    BY <1>4, <2>1 DEF NoResult, Forward, Duplicate, FailToInsert, Respond, Restart, ptVars,
                      imVars, outboxVars, destinationVars, playerVars, OnProcessedPanic,
                      OnProcessedGone, RelayForward, ProcessDuplicate, ProcessPanic,
                      RelayRespond, RelayRestart
  <2>3. Residences(p)' = Residences(p)
    BY <2>2 DEF Residences
  <2> QED BY <1>2, <2>2, <2>3, NoJourneyChanges, StaysPut
<1>5. Global \in Modules
  BY DEF Modules
<1> QED BY <1>1, <1>3, <1>4, <1>5, DepartureWhereabouts, ArrivalWhereabouts,
           UpdateWhereabouts, ResultWhereabouts DEF PTNext

LEMMA InitWhereabouts == PTInit => WhereaboutsInv
<1> SUFFICES ASSUME PTInit, NEW p \in Players PROVE InOnePlace(p)
  BY DEF WhereaboutsInv
<1>1. Residences(p) = {Home[p]} /\ Home[p] \in Regions
  BY HomeAssumption DEF PTInit, Residences, EmptyTables
<1>2. Journeys(p) = {}
  BY DEF PTInit, IMInit, Journeys, Modules
<1> QED BY <1>1, <1>2 DEF InOnePlace

(***************************************************************************)
(* A player is in one place, in the tables of one region or in one message *)
(* that has not taken effect: relay, regions and global module may         *)
(* restart, calls be repeated and outlive the relay, and handlers fail,    *)
(* and he is neither lost nor doubled, provided the relay forwards one row *)
(* per destination at a time and a player who could not be inserted cannot *)
(* be inserted later from the same message.                                *)
(***************************************************************************)
THEOREM PlayersAreInOnePlace ==
    ASSUME StickyFailures, Window = 1
    PROVE  PTSpec => []ExactlyOnePlace
<1>1. PTInit => RemoteInv /\ ResidenceInv /\ WhereaboutsInv
  BY InitRemoteInv, InitResidence, InitWhereabouts DEF PTInit
<1>2. ResidenceInv /\ RemoteInv /\ [PTNext]_ptVars => RemoteInv'
  BY TransferIsProtocol, NextRemoteInv
<1>3. ResidenceInv /\ [PTNext]_ptVars => ResidenceInv'
  BY NextResidence
<1>4. RemoteInv /\ ResidenceInv /\ WhereaboutsInv /\ [PTNext]_ptVars => WhereaboutsInv'
  BY NextWhereabouts
<1>5. WhereaboutsInv => ExactlyOnePlace
  BY OnePlaceCounts DEF WhereaboutsInv, ExactlyOnePlace
<1> QED BY <1>1, <1>2, <1>3, <1>4, <1>5, PTL DEF PTSpec

=============================================================================
