---------------------- MODULE SharedTransactionProofs ----------------------
(***************************************************************************)
(* Proofs about SharedTransaction, for every number of regions, every      *)
(* module and every bound: the variables keep their form, the outbox has   *)
(* nothing but what committed transactions asked for, and all of it, in    *)
(* the order in which they asked for it.                                   *)
(***************************************************************************)
EXTENDS SharedTransaction, SequenceTheorems, TLAPS

(***************************************************************************)
(* Sequences: a function on 1 .. n is one, and one over a set is one over  *)
(* a larger set.                                                           *)
(***************************************************************************)
LEMMA FunctionIsSeq ==
    ASSUME NEW S, NEW n \in Nat, NEW f \in [1 .. n -> S]
    PROVE  f \in Seq(S) /\ Len(f) = n
<1>1. f \in Seq(S)
  BY SeqDef
<1>2. 1 .. Len(f) = 1 .. n /\ Len(f) \in Nat
  BY <1>1, LenProperties
<1> QED BY <1>1, <1>2

LEMMA AppendLast ==
    ASSUME NEW S, NEW q \in Seq(S), NEW e \in S
    PROVE  Len(Append(q, e)) = Len(q) + 1 /\ Append(q, e)[Len(q) + 1] = e
BY AppendProperties

LEMMA SeqOfMore ==
    ASSUME NEW S, NEW T, S \subseteq T, NEW q \in Seq(S)
    PROVE  q \in Seq(T)
<1>1. q \in [1 .. Len(q) -> S] /\ Len(q) \in Nat
  BY LenProperties
<1>2. q \in [1 .. Len(q) -> T]
  BY <1>1
<1> QED BY <1>1, <1>2, FunctionIsSeq

(***************************************************************************)
(* The modules a broadcast is addressed to.                                *)
(***************************************************************************)
LEMMA OtherRegionsAreSeq == OtherRegions(Self) \in Seq(Modules)
<1>1. CASE Self = Global
  <2>1. [i \in 1 .. RegionCount |-> i] \in [1 .. RegionCount -> Modules]
    BY DEF Modules, Regions
  <2> QED BY <1>1, <2>1, FunctionIsSeq, RegionCountAssumption DEF OtherRegions, Regions
<1>2. CASE Self # Global
  <2>1. Self \in 1 .. RegionCount
    BY <1>2, SelfAssumption DEF Modules, Regions, Global
  <2>2. [i \in 1 .. RegionCount - 1 |-> IF i < Self THEN i ELSE i + 1]
          \in [1 .. RegionCount - 1 -> Modules]
    BY <2>1, RegionCountAssumption DEF Modules, Regions
  <2> QED BY <1>2, <2>2, FunctionIsSeq, RegionCountAssumption DEF OtherRegions
<1> QED BY <1>1, <1>2

LEMMA RecipientsAreSeq ==
    ASSUME NEW dst \in InterModuleDestination, dst.variant # "Region" \/ CanSend(Self, dst)
    PROVE  Recipients(Self, dst) \in Seq(Modules)
<1>1. dst.variant = "Region" => dst.region \in Modules
  BY DEF CanSend, Modules
<1>2. <<Global>> \in Seq(Modules) /\ <<Global>> \o OtherRegions(Self) \in Seq(Modules)
  BY OtherRegionsAreSeq DEF Modules
<1>3. dst.variant \in {"Global", "AllOtherRegions", "GlobalAndAllOtherRegions", "Region"}
  BY DEF InterModuleDestination, Broadcasts, ToRegions
<1> QED BY <1>1, <1>2, <1>3, OtherRegionsAreSeq DEF Recipients

LEMMA AddresseesAreModules ==
    ASSUME NEW dst \in InterModuleDestination, dst.variant # "Region" \/ CanSend(Self, dst)
    PROVE  Addressees(dst) \in SUBSET Modules
BY RecipientsAreSeq DEF Addressees

LEMMA OtherRegionsAreAll ==
    ASSUME NEW d \in Modules \ {Global, Self}
    PROVE  \E i \in DOMAIN OtherRegions(Self) : OtherRegions(Self)[i] = d
<1>1. d \in 1 .. RegionCount
  BY DEF Modules, Regions
<1>2. CASE Self = Global
  BY <1>1, <1>2 DEF OtherRegions, Regions
<1>3. CASE Self # Global
  <2>1. Self \in 1 .. RegionCount
    BY <1>3, SelfAssumption DEF Modules, Regions, Global
  <2>2. CASE d < Self
    <3>1. d \in 1 .. RegionCount - 1
      BY <1>1, <2>1, <2>2, RegionCountAssumption
    <3> QED BY <1>3, <2>2, <3>1 DEF OtherRegions
  <2>3. CASE d > Self
    <3>1. d - 1 \in 1 .. RegionCount - 1 /\ ~(d - 1 < Self) /\ (d - 1) + 1 = d
      BY <1>1, <2>1, <2>3, RegionCountAssumption
    <3> QED BY <1>3, <3>1 DEF OtherRegions
  <2> QED BY <1>1, <2>1, <2>2, <2>3
<1> QED BY <1>2, <1>3

LEMMA BroadcastsReachAll ==
    ASSUME NEW dst \in InterModuleDestination
    PROVE  /\ ToGlobal(dst) => Global \in Addressees(dst)
           /\ ToOthers(dst) => \A d \in Modules \ {Global, Self} : d \in Addressees(dst)
<1> DEFINE others == OtherRegions(Self)
           all == <<Global>> \o others
<1>1. others \in Seq(Modules) /\ Global \in Modules
  BY OtherRegionsAreSeq DEF Modules
<1>a. \A d \in Modules \ {Global, Self} : \E i \in DOMAIN others : others[i] = d
  BY OtherRegionsAreAll
<1> HIDE DEF others
<1>2. /\ DOMAIN all = 1 .. 1 + Len(others) /\ Len(others) \in Nat
      /\ all[1] = Global
      /\ \A i \in 1 .. Len(others) : all[1 + i] = others[i]
  BY <1>1
<1>3. DOMAIN others = 1 .. Len(others)
  BY <1>1
<1>4. 1 \in DOMAIN all
  BY <1>2
<1>5. ASSUME NEW d \in Modules \ {Global, Self}
      PROVE  \E i \in DOMAIN all : all[i] = d
  <2>1. PICK i \in 1 .. Len(others) : others[i] = d
    BY <1>a, <1>3
  <2>2. 1 + i \in DOMAIN all /\ all[1 + i] = d
    BY <1>2, <2>1
  <2> QED BY <2>2
<1>6. CASE dst.variant = "Global"
  <2>1. Recipients(Self, dst) = <<Global>>
    BY <1>6 DEF Recipients
  <2> QED BY <1>6, <2>1 DEF Addressees, ToGlobal, ToOthers
<1>7. CASE dst.variant = "AllOtherRegions"
  <2>1. Recipients(Self, dst) = others
    BY <1>7 DEF Recipients, others
  <2> QED BY <1>7, <1>a, <2>1 DEF Addressees, ToGlobal, ToOthers
<1>8. CASE dst.variant = "GlobalAndAllOtherRegions"
  <2>1. Recipients(Self, dst) = all
    BY <1>8 DEF Recipients, others
  <2> HIDE DEF all
  <2> QED BY <1>2, <1>4, <1>5, <2>1 DEF Addressees
<1> QED BY <1>6, <1>7, <1>8 DEF ToGlobal, ToOthers

(***************************************************************************)
(* A table operation is addressed to the global module, to the other       *)
(* regions or to all of them.                                              *)
(***************************************************************************)
LEMMA OthersAreOther ==
    ASSUME NEW i \in DOMAIN OtherRegions(Self)
    PROVE  OtherRegions(Self)[i] # Global /\ OtherRegions(Self)[i] # Self
<1>1. CASE Self = Global
  BY <1>1, RegionCountAssumption DEF OtherRegions, Regions, Global
<1>2. CASE Self # Global
  <2>1. Self \in 1 .. RegionCount
    BY <1>2, SelfAssumption DEF Modules, Regions, Global
  <2> QED BY <1>2, <2>1, RegionCountAssumption DEF OtherRegions, Global
<1> QED BY <1>1, <1>2

LEMMA AddresseesOfUpdate ==
    ASSUME NEW dst \in InterModuleDestination, dst.variant # "Region", NEW d \in Addressees(dst)
    PROVE  (d = Global /\ ToGlobal(dst)) \/ (d # Global /\ d # Self /\ ToOthers(dst))
<1> DEFINE others == OtherRegions(Self)
           all == <<Global>> \o others
<1>1. others \in Seq(Modules) /\ DOMAIN others = 1 .. Len(others) /\ Len(others) \in Nat
      /\ Global \in Modules
  BY OtherRegionsAreSeq, LenProperties DEF Modules
<1>2. \A i \in 1 .. Len(others) : others[i] # Global /\ others[i] # Self
  BY <1>1, OthersAreOther
<1> HIDE DEF others
<1>3. /\ DOMAIN all = 1 .. 1 + Len(others)
      /\ all[1] = Global
      /\ \A i \in 1 .. Len(others) : all[1 + i] = others[i]
  BY <1>1
<1>4. dst.variant \in {"Global", "AllOtherRegions", "GlobalAndAllOtherRegions"}
  BY DEF InterModuleDestination, Broadcasts, ToRegions
<1>5. CASE dst.variant = "Global"
  <2>1. Recipients(Self, dst) = <<Global>>
    BY <1>5 DEF Recipients
  <2>2. d = Global
    BY <2>1 DEF Addressees
  <2> QED BY <1>5, <2>2 DEF ToGlobal
<1>6. CASE dst.variant = "AllOtherRegions"
  <2>1. Recipients(Self, dst) = others
    BY <1>6 DEF Recipients, others
  <2>2. PICK i \in 1 .. Len(others) : d = others[i]
    BY <1>1, <2>1 DEF Addressees
  <2> QED BY <1>2, <1>6, <2>2 DEF ToOthers
<1>7. CASE dst.variant = "GlobalAndAllOtherRegions"
  <2>1. Recipients(Self, dst) = all
    BY <1>7 DEF Recipients, others
  <2> HIDE DEF all
  <2>2. PICK i \in 1 .. 1 + Len(others) : d = all[i]
    BY <1>3, <2>1 DEF Addressees
  <2>3. CASE i = 1
    BY <1>3, <1>7, <2>2, <2>3 DEF ToGlobal
  <2>4. CASE i # 1
    <3>1. i - 1 \in 1 .. Len(others) /\ 1 + (i - 1) = i
      BY <1>1, <2>4
    <3>2. d = others[i - 1]
      BY <1>3, <2>2, <3>1
    <3> QED BY <1>2, <1>7, <3>1, <3>2 DEF ToOthers
  <2> QED BY <2>3, <2>4
<1> QED BY <1>4, <1>5, <1>6, <1>7

-----------------------------------------------------------------------------
(***************************************************************************)
(* What waits for a module, by channel: operations in the accumulators,    *)
(* delayed messages.                                                       *)
(***************************************************************************)
Waiting(d) == [c \in Channels |-> IF c = Message THEN delayed[d] ELSE Updates(d)[c]]
EmptyRow == [c \in Channels |-> <<>>]

LEMMA ChannelKinds ==
    /\ Message \in Channels /\ Message \notin Tables
    /\ \A c \in Channels : c # Message => c \in Tables
    /\ \A t \in Tables : t \in Channels
BY TablesAssumption DEF Channels, Message

LEMMA UpdatesType ==
    ASSUME STTypeOK, NEW d \in Modules
    PROVE  Updates(d) \in [Tables -> Seq(Items)]
BY EmptySeq DEF STTypeOK, Updates, InterModuleAccumulator, InterModuleTableUpdates, NoUpdates

LEMMA WaitingType ==
    ASSUME STTypeOK, NEW d \in Modules
    PROVE  Waiting(d) \in Row
BY UpdatesType, ChannelKinds DEF STTypeOK, Waiting, Row

LEMMA MessageRowType ==
    ASSUME NEW n \in Items
    PROVE  MessageRow(n) \in Row /\ MessageRow(n)[Message] = <<n>>
           /\ \A t \in Tables : MessageRow(n)[t] = <<>>
<1>1. <<n>> \in Seq(Items) /\ <<>> \in Seq(Items)
  OBVIOUS
<1> QED BY <1>1, ChannelKinds DEF MessageRow, Row

(***************************************************************************)
(* What one more operation or message adds is well-formed.                 *)
(***************************************************************************)
LEMMA IssueType ==
    ASSUME STTypeOK, NEW dst \in InterModuleDestination, NEW channel \in Channels,
           dst.variant # "Region" \/ CanSend(Self, dst), Issue(channel, dst)
    PROVE  /\ NextItem \in Items /\ Addressees(dst) \in SUBSET Modules
           /\ issued' \subseteq Item /\ lastItem' \in 0 .. MaxItems
<1>1. NextItem \in Items /\ lastItem' \in 0 .. MaxItems
  BY MaxItemsAssumption DEF Issue, NextItem, Items, STTypeOK
<1>2. Addressees(dst) \in SUBSET Modules
  BY AddresseesAreModules
<1>3. Stranded \in BOOLEAN
  BY DEF Stranded
<1>4. NewItem(channel, dst) \in Item
  BY <1>1, <1>2, <1>3 DEF Item, NewItem
<1> QED BY <1>1, <1>2, <1>4 DEF Issue, STTypeOK

LEMMA CollectType ==
    ASSUME NEW a \in InterModuleAccumulator, NEW table \in Tables, NextItem \in Items
    PROVE  /\ Collect(a, table) \in InterModuleAccumulator
           /\ Collect(a, table).open = a.open
           /\ Collect(a, table).updates
                = [a.updates EXCEPT ![table] = Append(a.updates[table], NextItem)]
<1>1. a.updates \in [Tables -> Seq(Items)] /\ a.open \in BOOLEAN
  BY DEF InterModuleAccumulator, InterModuleTableUpdates
<1>2. Append(a.updates[table], NextItem) \in Seq(Items)
  BY <1>1, AppendProperties
<1>3. [a.updates EXCEPT ![table] = Append(a.updates[table], NextItem)] \in [Tables -> Seq(Items)]
  BY <1>1, <1>2
<1>4. Collect(a, table)
        = [a EXCEPT !.updates = [a.updates EXCEPT ![table] = Append(a.updates[table], NextItem)]]
  BY DEF Collect
<1> QED BY <1>1, <1>3, <1>4 DEF InterModuleAccumulator, InterModuleTableUpdates

LEMMA AddedType ==
    ASSUME NEW S, NEW queues \in [Modules -> Seq(S)], NEW dst, NEW entry \in S
    PROVE  Added(queues, dst, entry) \in [Modules -> Seq(S)]
<1> SUFFICES ASSUME NEW d \in Modules
             PROVE  Append(queues[d], entry) \in Seq(S) /\ queues[d] \in Seq(S)
  BY DEF Added
<1> QED BY AppendProperties

-----------------------------------------------------------------------------
(***************************************************************************)
(* A flush: behind the rows there already are, one row with the operations *)
(* if there are any, then one for each delayed message.                    *)
(***************************************************************************)
LEMMA ConcatParts ==
    ASSUME NEW S, NEW p \in Seq(S), NEW q \in Seq(S)
    PROVE  /\ p \o q \in Seq(S) /\ Len(p) \in Nat /\ Len(q) \in Nat
           /\ Len(p \o q) = Len(p) + Len(q)
           /\ \A i \in 1 .. Len(p) : (p \o q)[i] = p[i]
           /\ \A i \in 1 .. Len(q) : (p \o q)[Len(p) + i] = q[i]
BY ConcatProperties, LenProperties

LEMMA UpdateRowsShape ==
    ASSUME STTypeOK, NEW d \in Modules
    PROVE  /\ UpdateRows(d) \in Seq(Row)
           /\ \/ Len(UpdateRows(d)) = 0 /\ Updates(d) = NoUpdates
              \/ Len(UpdateRows(d)) = 1 /\ UpdateRows(d)[1] = UpdateRow(d)
<1>1. UpdateRow(d) \in Row
  BY UpdatesType, ChannelKinds, EmptySeq DEF UpdateRow, Row
<1> DEFINE r == UpdateRow(d)
<1> HIDE DEF r, Row
<1>2. r \in Row
  BY <1>1 DEF r
<1>3. <<r>> \in Seq(Row) /\ Len(<<r>>) = 1 /\ <<r>>[1] = r /\ <<>> \in Seq(Row) /\ Len(<<>>) = 0
  BY <1>2
<1> QED BY <1>3 DEF UpdateRows, r

LEMMA DelayedRowsShape ==
    ASSUME STTypeOK, NEW d \in Modules
    PROVE  /\ DelayedRows(d) \in Seq(Row) /\ Len(DelayedRows(d)) = Len(delayed[d])
           /\ \A i \in 1 .. Len(delayed[d]) :
                delayed[d][i] \in Items /\ DelayedRows(d)[i] = MessageRow(delayed[d][i])
<1>1. delayed[d] \in Seq(Items)
  BY DEF STTypeOK
<1>2. /\ DOMAIN delayed[d] = 1 .. Len(delayed[d]) /\ Len(delayed[d]) \in Nat
      /\ \A i \in 1 .. Len(delayed[d]) : delayed[d][i] \in Items
  BY <1>1, LenProperties, ElementOfSeq
<1>3. \A n \in Items : MessageRow(n) \in Row
  BY MessageRowType
<1> HIDE DEF Row
<1>4. DelayedRows(d) \in [1 .. Len(delayed[d]) -> Row]
  BY <1>2, <1>3 DEF DelayedRows
<1>5. DelayedRows(d) \in Seq(Row) /\ Len(DelayedRows(d)) = Len(delayed[d])
  BY <1>2, <1>4, FunctionIsSeq
<1> QED BY <1>2, <1>5 DEF DelayedRows

FlushShape(d, u) ==
    /\ Flushed[d] \in Seq(Row)
    /\ Len(rows[d]) \in Nat /\ Len(delayed[d]) \in Nat
    /\ Len(Flushed[d]) = Len(rows[d]) + u + Len(delayed[d])
    /\ \A i \in 1 .. Len(rows[d]) : Flushed[d][i] = rows[d][i]
    /\ u = 1 => Flushed[d][Len(rows[d]) + 1] = UpdateRow(d)
    /\ u = 0 => Updates(d) = NoUpdates
    /\ \A i \in 1 .. Len(delayed[d]) :
            /\ delayed[d][i] \in Items
            /\ Flushed[d][Len(rows[d]) + u + i] = MessageRow(delayed[d][i])

LEMMA FlushedShape ==
    ASSUME STTypeOK, NEW d \in Modules
    PROVE  \E u \in {0, 1} : FlushShape(d, u)
<1> DEFINE p == rows[d]
           v == UpdateRows(d)
           w == DelayedRows(d)
<1>1. p \in Seq(Row)
  BY DEF STTypeOK
<1>2. /\ v \in Seq(Row)
      /\ \/ Len(v) = 0 /\ Updates(d) = NoUpdates
         \/ Len(v) = 1 /\ v[1] = UpdateRow(d)
  BY UpdateRowsShape
<1>3. /\ w \in Seq(Row) /\ Len(w) = Len(delayed[d])
      /\ \A i \in 1 .. Len(w) : delayed[d][i] \in Items /\ w[i] = MessageRow(delayed[d][i])
  BY DelayedRowsShape
<1>a. w \in Seq(Row)
  BY <1>3
<1>4. Flushed[d] = (p \o v) \o w
  BY DEF Flushed
<1> HIDE DEF p, v, w, Row
<1>5. /\ p \o v \in Seq(Row) /\ Len(p) \in Nat /\ Len(v) \in Nat
      /\ Len(p \o v) = Len(p) + Len(v)
      /\ \A i \in 1 .. Len(p) : (p \o v)[i] = p[i]
      /\ \A i \in 1 .. Len(v) : (p \o v)[Len(p) + i] = v[i]
  BY <1>1, <1>2, ConcatParts
<1>6. PICK pv \in Seq(Row) : pv = p \o v
  BY <1>5
<1>7. /\ pv \o w \in Seq(Row) /\ Len(w) \in Nat
      /\ Len(pv \o w) = Len(pv) + Len(w)
      /\ \A i \in 1 .. Len(pv) : (pv \o w)[i] = pv[i]
      /\ \A i \in 1 .. Len(w) : (pv \o w)[Len(pv) + i] = w[i]
  BY <1>a, <1>6, ConcatParts
<1>8. PICK f : f = pv \o w
  OBVIOUS
<1>9. /\ f \in Seq(Row) /\ Len(f) = Len(p) + Len(v) + Len(w)
      /\ \A i \in 1 .. Len(p) : f[i] = p[i]
      /\ Len(v) = 1 => f[Len(p) + 1] = v[1]
      /\ \A i \in 1 .. Len(w) : f[Len(p) + Len(v) + i] = w[i]
  BY <1>5, <1>6, <1>7, <1>8
<1>10. f = Flushed[d]
  BY <1>4, <1>6, <1>8
<1>11. /\ Len(v) \in {0, 1}
       /\ Len(v) = 1 => f[Len(p) + 1] = UpdateRow(d)
       /\ Len(v) = 0 => Updates(d) = NoUpdates
  BY <1>2, <1>9
<1>12. ASSUME NEW i \in 1 .. Len(delayed[d])
       PROVE  delayed[d][i] \in Items /\ f[Len(p) + Len(v) + i] = MessageRow(delayed[d][i])
  <2>1. i \in 1 .. Len(w)
    BY <1>3
  <2> QED BY <1>3, <1>9, <2>1
<1> QED BY <1>3, <1>5, <1>7, <1>9, <1>10, <1>11, <1>12 DEF p, FlushShape

LEMMA FlushedType ==
    ASSUME STTypeOK
    PROVE  Flushed \in [Modules -> Seq(Row)]
<1>1. \A d \in Modules : Flushed[d] \in Seq(Row)
  BY FlushedShape DEF FlushShape
<1>2. DOMAIN Flushed = Modules /\ Flushed = [d \in Modules |-> Flushed[d]]
  BY DEF Flushed
<1> HIDE DEF Row
<1> QED BY <1>1, <1>2

-----------------------------------------------------------------------------
(***************************************************************************)
(* Type correctness.                                                       *)
(***************************************************************************)
LEMMA NothingType == ASSUME NEW S PROVE Nothing \in [Modules -> Seq(S)]
BY EmptySeq DEF Nothing

LEMMA ClosedTypes ==
    None \in InterModuleAccumulator /\ Uninitialized \in InterModuleAccumulator
BY EmptySeq DEF None, Uninitialized, InterModuleAccumulator, InterModuleTableUpdates, NoUpdates

LEMMA InitTypes == STInit => STTypeOK
<1> SUFFICES ASSUME STInit PROVE STTypeOK
  OBVIOUS
<1> QED BY NothingType, ClosedTypes, EmptySeq, MaxItemsAssumption DEF STInit, STTypeOK

LEMMA NextTypes == STTypeOK /\ [STNext]_stVars => STTypeOK'
<1> SUFFICES ASSUME STTypeOK, [STNext]_stVars
             PROVE  STTypeOK'
  OBVIOUS
<1>a. ASSUME BeginSharedTransaction
      PROVE  /\ globalUpdates' \in InterModuleAccumulator
             /\ regionUpdates' \in InterModuleAccumulator
             /\ delayed' \in [Modules -> Seq(Items)]
  BY <1>a, NothingType, ClosedTypes DEF BeginSharedTransaction
<1>b. ASSUME CloseAccumulators
      PROVE  /\ globalUpdates' \in InterModuleAccumulator
             /\ regionUpdates' \in InterModuleAccumulator
             /\ delayed' \in [Modules -> Seq(Items)]
  BY <1>b, NothingType, ClosedTypes DEF CloseAccumulators
<1>c. ASSUME EndTransaction
      PROVE  /\ stack' \in Seq(BOOLEAN) /\ rows' \in [Modules -> Seq(Row)]
             /\ issued' \subseteq Item /\ lastItem' \in 0 .. MaxItems
  BY <1>c, NothingType, EmptySeq DEF EndTransaction, STTypeOK
<1>1. ASSUME NEW shared \in BOOLEAN, CallReducer(shared)
      PROVE  STTypeOK'
  <2>1. <<shared>> \in Seq(BOOLEAN)
    OBVIOUS
  <2> QED BY <1>1, <1>a, <2>1 DEF CallReducer, STTypeOK, instanceVars
<1>2. ASSUME CallNested
      PROVE  STTypeOK'
  <2>1. Append(stack, TRUE) \in Seq(BOOLEAN)
    BY AppendProperties DEF STTypeOK
  <2> QED BY <1>2, <1>a, <2>1 DEF CallNested, STTypeOK
<1>3. ASSUME NEW dst \in InterModuleDestination, NEW table \in Tables, TableOperation(table, dst)
      PROVE  STTypeOK'
  <2>1. NextItem \in Items /\ issued' \subseteq Item /\ lastItem' \in 0 .. MaxItems
    BY <1>3, ChannelKinds, IssueType DEF TableOperation
  <2>2. globalUpdates' \in InterModuleAccumulator /\ regionUpdates' \in InterModuleAccumulator
    BY <1>3, <2>1, CollectType DEF TableOperation, STTypeOK
  <2> QED BY <1>3, <2>1, <2>2 DEF TableOperation, STTypeOK
<1>4. ASSUME NEW dst \in InterModuleDestination, SendMessage(dst)
      PROVE  STTypeOK'
  <2>1. NextItem \in Items /\ issued' \subseteq Item /\ lastItem' \in 0 .. MaxItems
    BY <1>4, ChannelKinds, IssueType DEF SendMessage
  <2>2. MessageRow(NextItem) \in Row
    BY <2>1, MessageRowType
  <2>3. delayed \in [Modules -> Seq(Items)] /\ rows \in [Modules -> Seq(Row)]
    BY DEF STTypeOK
  <2>4. /\ Added(delayed, dst, NextItem) \in [Modules -> Seq(Items)]
        /\ Added(rows, dst, MessageRow(NextItem)) \in [Modules -> Seq(Row)]
    BY <2>1, <2>2, <2>3, AddedType
  <2>5. delayed' \in [Modules -> Seq(Items)] /\ rows' \in [Modules -> Seq(Row)]
    BY <1>4, <2>3, <2>4 DEF SendMessage
  <2> QED BY <1>4, <2>1, <2>5 DEF SendMessage, STTypeOK
<1>5. ASSUME ReturnNested
      PROVE  STTypeOK'
  <2>1. SubSeq(stack, 1, 1) \in Seq(BOOLEAN)
    <3>1. stack \in Seq(BOOLEAN) /\ Len(stack) = 2
      BY <1>5 DEF ReturnNested, STTypeOK
    <3> QED BY <3>1, SubSeqProperties
  <2> QED BY <1>5, <1>b, <2>1, FlushedType DEF ReturnNested, STTypeOK
<1>6. ASSUME Commit
      PROVE  STTypeOK'
  <2>1. RowsOnReturn \in [Modules -> Seq(Row)]
    BY FlushedType DEF RowsOnReturn, STTypeOK
  <2>2. \A d \in Modules : outbox[d] \o RowsOnReturn[d] \in Seq(Row)
    BY <2>1, ConcatProperties DEF STTypeOK
  <2>3. outbox' \in [Modules -> Seq(Row)] /\ committed' \subseteq Item
    BY <1>6, <2>2 DEF Commit, STTypeOK
  <2> QED BY <1>6, <1>b, <1>c, <2>3 DEF Commit, Return, STTypeOK, instanceVars
<1>7. ASSUME Fail
      PROVE  STTypeOK'
  BY <1>7, <1>b, <1>c DEF Fail, Return, STTypeOK, instanceVars
<1>8. ASSUME Panic
      PROVE  STTypeOK'
  BY <1>8, <1>b, <1>c DEF Panic, STTypeOK, instanceVars
<1>9. CASE UNCHANGED stVars
  BY <1>9 DEF stVars, instanceVars, STTypeOK
<1> QED BY <1>1, <1>2, <1>3, <1>4, <1>5, <1>6, <1>7, <1>8, <1>9 DEF STNext

(***************************************************************************)
(* The accumulators, the rows and the outbox of a module keep their form,  *)
(* whatever its reducers do and however they end.                          *)
(***************************************************************************)
THEOREM TypeCorrect == STSpec => []STTypeOK
<1>1. STInit => STTypeOK
  BY InitTypes
<1>2. STTypeOK /\ [STNext]_stVars => STTypeOK'
  BY NextTypes
<1> QED BY <1>1, <1>2, PTL DEF STSpec

-----------------------------------------------------------------------------
(***************************************************************************)
(* What all that follows rests on: the second function on the stack is a   *)
(* shared one, nothing waits in an instance whose accumulators are closed, *)
(* and between transactions nothing has been asked for.                    *)
(***************************************************************************)
StackOK == Len(stack) <= 2 /\ (Len(stack) = 2 => stack[2])
ClosedIsEmpty ==
    ~regionUpdates.open => globalUpdates = None /\ regionUpdates = None /\ delayed = Nothing
NothingBetween == stack = <<>> => issued = {}

STBase == STTypeOK /\ StackOK /\ ClosedIsEmpty /\ NothingBetween

LEMMA NestedIsShared ==
    ASSUME STTypeOK, CallNested
    PROVE  Len(stack') = 2 /\ stack'[2]
<1>1. stack \in Seq(BOOLEAN) /\ Len(stack) = 1 /\ stack' = Append(stack, TRUE)
  BY DEF CallNested, STTypeOK
<1> DEFINE q == stack
<1>2. q \in Seq(BOOLEAN) /\ TRUE \in BOOLEAN
  BY <1>1
<1> HIDE DEF q
<1>3. Len(Append(q, TRUE)) = Len(q) + 1 /\ Append(q, TRUE)[Len(q) + 1] = TRUE
  BY <1>2, AppendLast
<1>4. Len(q) = 1 /\ stack' = Append(q, TRUE)
  BY <1>1 DEF q
<1>5. Len(q) + 1 = 2
  BY <1>4
<1> QED BY <1>3, <1>4, <1>5

LEMMA StackSteps ==
    ASSUME STTypeOK, StackOK, [STNext]_stVars
    PROVE  StackOK'
<1>a. stack \in Seq(BOOLEAN) /\ Len(stack) \in Nat
  BY LenProperties DEF STTypeOK
<1>1. ASSUME NEW shared \in BOOLEAN, CallReducer(shared)
      PROVE  StackOK'
  <2>1. stack' = <<shared>> /\ Len(<<shared>>) = 1
    BY <1>1 DEF CallReducer
  <2> QED BY <2>1 DEF StackOK
<1>2. ASSUME CallNested
      PROVE  StackOK'
  <2>1. Len(stack') = 2 /\ stack'[2]
    BY <1>2, NestedIsShared
  <2> QED BY <2>1 DEF StackOK
<1>3. ASSUME ReturnNested
      PROVE  StackOK'
  <2>1. Len(stack) = 2 /\ stack' = SubSeq(stack, 1, 1)
    BY <1>3 DEF ReturnNested
  <2>2. Len(stack') = 1
    BY <1>a, <2>1
  <2> QED BY <2>2 DEF StackOK
<1>4. ASSUME Commit \/ Fail \/ Panic
      PROVE  StackOK'
  <2>1. stack' = <<>>
    BY <1>4 DEF Commit, Fail, Panic, Return, EndTransaction
  <2>2. Len(stack') = 0
    BY <2>1
  <2> QED BY <2>2 DEF StackOK
<1>5. ASSUME NEW dst \in InterModuleDestination,
             (\E table \in Tables : TableOperation(table, dst)) \/ SendMessage(dst)
      PROVE  StackOK'
  BY <1>5 DEF TableOperation, SendMessage, StackOK
<1>6. CASE UNCHANGED stVars
  BY <1>6 DEF stVars, StackOK
<1> QED BY <1>1, <1>2, <1>3, <1>4, <1>5, <1>6 DEF STNext

LEMMA NothingWaits ==
    ASSUME NEW d \in Modules
    PROVE  /\ BeginSharedTransaction \/ CloseAccumulators => Waiting(d)' = EmptyRow
           /\ ClosedIsEmpty /\ ~regionUpdates.open => Waiting(d) = EmptyRow
<1>1. ASSUME BeginSharedTransaction \/ CloseAccumulators
      PROVE  Waiting(d)' = EmptyRow
  BY <1>1, ChannelKinds
     DEF BeginSharedTransaction, CloseAccumulators, Waiting, EmptyRow, Updates, None,
         Uninitialized, Nothing, NoUpdates
<1>2. ASSUME ClosedIsEmpty, ~regionUpdates.open
      PROVE  Waiting(d) = EmptyRow
  BY <1>2, ChannelKinds
     DEF ClosedIsEmpty, Waiting, EmptyRow, Updates, None, Nothing, NoUpdates
<1> QED BY <1>1, <1>2

(***************************************************************************)
(* What a step does that asks for one more item on channel c: the item     *)
(* waits for each of its addressees or, if it is a message and no          *)
(* accumulator is open, it is a row for each of them.                      *)
(***************************************************************************)
Waits(d, c) ==
    regionUpdates.open /\ rows'[d] = rows[d]
        /\ Waiting(d)' = [Waiting(d) EXCEPT ![c] = Append(Waiting(d)[c], NextItem)]
IsSent(d, c) ==
    /\ c = Message /\ ~regionUpdates.open
    /\ rows'[d] = Append(rows[d], MessageRow(NextItem)) /\ Waiting(d)' = Waiting(d)
IsSpared(d) == rows'[d] = rows[d] /\ Waiting(d)' = Waiting(d)

Asks(c, dst) ==
    /\ c \in Channels /\ NextItem \in Items /\ stack # <<>>
    /\ issued' = issued \cup {NewItem(c, dst)} /\ lastItem' = NextItem
    /\ regionUpdates'.open = regionUpdates.open
    /\ UNCHANGED <<stack, outbox, committed>>
    /\ \A d \in Modules :
         IF d \in Addressees(dst) THEN Waits(d, c) \/ IsSent(d, c) ELSE IsSpared(d)

LEMMA OperationAsks ==
    ASSUME STBase, NEW dst \in InterModuleDestination, NEW table \in Tables,
           TableOperation(table, dst)
    PROVE  Asks(table, dst) /\ regionUpdates.open
<1>1. /\ UNCHANGED <<delayed, stack, rows, outbox, committed>>
      /\ dst.variant # "Region" /\ Issue(table, dst)
      /\ ToGlobal(dst) => globalUpdates.open
      /\ ToOthers(dst) => regionUpdates.open
      /\ globalUpdates' = IF ToGlobal(dst) THEN Collect(globalUpdates, table) ELSE globalUpdates
      /\ regionUpdates' = IF ToOthers(dst) THEN Collect(regionUpdates, table) ELSE regionUpdates
  BY DEF TableOperation
<1>2. STTypeOK /\ table \in Channels /\ table # Message
  BY ChannelKinds DEF STBase
<1>3. NextItem \in Items
  BY <1>1, <1>2, IssueType
<1>4. globalUpdates \in InterModuleAccumulator /\ regionUpdates \in InterModuleAccumulator
  BY <1>2 DEF STTypeOK
<1>5. \A a \in InterModuleAccumulator :
        /\ Collect(a, table).open = a.open
        /\ Collect(a, table).updates
             = [a.updates EXCEPT ![table] = Append(a.updates[table], NextItem)]
  BY <1>3, CollectType
<1>6. regionUpdates.open /\ regionUpdates'.open = regionUpdates.open
  <2>1. ToGlobal(dst) \/ ToOthers(dst)
    BY <1>1 DEF InterModuleDestination, Broadcasts, ToRegions, ToGlobal, ToOthers
  <2>2. globalUpdates.open => regionUpdates.open
    BY <1>2 DEF STBase, ClosedIsEmpty, None
  <2> QED BY <1>1, <1>4, <1>5, <2>1, <2>2
<1>7. ASSUME NEW d \in Modules
      PROVE  IF d \in Addressees(dst) THEN Waits(d, table) ELSE IsSpared(d)
  <2>1. Updates(d) \in [Tables -> Seq(Items)]
    BY <1>2, UpdatesType
  <2>2. CASE d \in Addressees(dst)
    <3>1. (d = Global /\ ToGlobal(dst)) \/ (d # Global /\ d # Self /\ ToOthers(dst))
      BY <1>1, <2>2, AddresseesOfUpdate
    <3>2. Updates(d)' = [Updates(d) EXCEPT ![table] = Append(Updates(d)[table], NextItem)]
      BY <1>1, <1>4, <1>5, <3>1 DEF Updates
    <3>3. Waiting(d)' = [Waiting(d) EXCEPT ![table] = Append(Waiting(d)[table], NextItem)]
      BY <1>1, <1>2, <2>1, <3>2, ChannelKinds DEF Waiting
    <3> QED BY <1>1, <1>6, <2>2, <3>3 DEF Waits
  <2>3. CASE d \notin Addressees(dst)
    <3>1. (d = Global => ~ToGlobal(dst)) /\ (d # Global /\ d # Self => ~ToOthers(dst))
      BY <2>3, BroadcastsReachAll
    <3>2. Updates(d)' = Updates(d)
      BY <1>1, <3>1 DEF Updates
    <3> QED BY <1>1, <2>3, <3>2 DEF IsSpared, Waiting
  <2> QED BY <2>2, <2>3
<1> QED BY <1>1, <1>2, <1>3, <1>6, <1>7 DEF Asks, Issue

LEMMA MessageAsks ==
    ASSUME STBase, NEW dst \in InterModuleDestination, SendMessage(dst)
    PROVE  Asks(Message, dst)
<1>1. /\ UNCHANGED <<globalUpdates, regionUpdates, stack, outbox, committed>>
      /\ CanSend(Self, dst) /\ Issue(Message, dst)
      /\ IF regionUpdates.open
         THEN delayed' = Added(delayed, dst, NextItem) /\ UNCHANGED rows
         ELSE rows' = Added(rows, dst, MessageRow(NextItem)) /\ UNCHANGED delayed
  BY DEF SendMessage, MessagesWait
<1>2. STTypeOK /\ NextItem \in Items
  BY <1>1, ChannelKinds, IssueType DEF STBase
<1>3. ASSUME NEW d \in Modules
      PROVE  IF d \in Addressees(dst) THEN Waits(d, Message) \/ IsSent(d, Message)
                                      ELSE IsSpared(d)
  <2>1. Updates(d)' = Updates(d)
    BY <1>1 DEF Updates
  <2>2. CASE regionUpdates.open
    <3>1. /\ rows' = rows
          /\ delayed'[d] = IF d \in Addressees(dst) THEN Append(delayed[d], NextItem)
                                                    ELSE delayed[d]
      BY <1>1, <2>2 DEF Added
    <3>2. Waiting(d)' = IF d \in Addressees(dst)
                        THEN [Waiting(d) EXCEPT ![Message] = Append(Waiting(d)[Message], NextItem)]
                        ELSE Waiting(d)
      BY <2>1, <3>1, ChannelKinds DEF Waiting
    <3> QED BY <2>2, <3>1, <3>2 DEF Waits, IsSpared
  <2>3. CASE ~regionUpdates.open
    <3>1. /\ delayed' = delayed
          /\ rows'[d] = IF d \in Addressees(dst) THEN Append(rows[d], MessageRow(NextItem))
                                                 ELSE rows[d]
      BY <1>1, <2>3 DEF Added
    <3>2. Waiting(d)' = Waiting(d)
      BY <2>1, <3>1 DEF Waiting
    <3> QED BY <2>3, <3>1, <3>2 DEF IsSent, IsSpared
  <2> QED BY <2>2, <2>3
<1> QED BY <1>1, <1>2, <1>3, ChannelKinds DEF Asks, Issue

LEMMA BaseInit == STInit => STBase
<1> SUFFICES ASSUME STInit PROVE STBase
  OBVIOUS
<1>1. stack = <<>> /\ Len(stack) = 0
  BY DEF STInit
<1> QED BY <1>1, InitTypes DEF STBase, StackOK, ClosedIsEmpty, NothingBetween, STInit

LEMMA BaseNext == STBase /\ [STNext]_stVars => STBase'
<1> SUFFICES ASSUME STBase, [STNext]_stVars
             PROVE  STBase'
  OBVIOUS
<1>1. STTypeOK' /\ StackOK'
  BY NextTypes, StackSteps DEF STBase
<1>a. ASSUME BeginSharedTransaction \/ CloseAccumulators
      PROVE  ClosedIsEmpty'
  BY <1>a DEF BeginSharedTransaction, CloseAccumulators, ClosedIsEmpty, None, Uninitialized, Nothing
<1>b. ASSUME UNCHANGED instanceVars
      PROVE  ClosedIsEmpty'
  BY <1>b DEF instanceVars, STBase, ClosedIsEmpty, None, Nothing
<1>2. ClosedIsEmpty'
  <2>1. CASE (\E shared \in BOOLEAN : CallReducer(shared)) \/ CallNested
    BY <1>a, <1>b, <2>1 DEF CallReducer, CallNested
  <2>2. ASSUME NEW dst \in InterModuleDestination, NEW table \in Tables, TableOperation(table, dst)
        PROVE  ClosedIsEmpty'
    <3>1. regionUpdates'.open /\ regionUpdates.open
      BY <2>2, OperationAsks DEF Asks
    <3> QED BY <3>1 DEF ClosedIsEmpty
  <2>3. ASSUME NEW dst \in InterModuleDestination, SendMessage(dst)
        PROVE  ClosedIsEmpty'
    BY <2>3 DEF SendMessage, MessagesWait, STBase, ClosedIsEmpty, None, Nothing
  <2>4. CASE ReturnNested \/ Commit \/ Fail \/ Panic
    BY <1>a, <1>b, <2>4 DEF ReturnNested, Commit, Fail, Panic, Return
  <2>5. CASE UNCHANGED stVars
    BY <1>b, <2>5 DEF stVars
  <2> QED BY <2>1, <2>2, <2>3, <2>4, <2>5 DEF STNext
<1>3. NothingBetween'
  <2>1. CASE (\E shared \in BOOLEAN : CallReducer(shared)) \/ CallNested
    BY <2>1 DEF CallReducer, CallNested, STBase, NothingBetween
  <2>2. ASSUME NEW dst \in InterModuleDestination,
               (\E table \in Tables : TableOperation(table, dst)) \/ SendMessage(dst)
        PROVE  NothingBetween'
    BY <2>2 DEF TableOperation, SendMessage, Issue, NothingBetween
  <2>3. CASE ReturnNested
    <3>1. stack \in Seq(BOOLEAN) /\ Len(stack) = 2 /\ stack' = SubSeq(stack, 1, 1)
      BY <2>3 DEF ReturnNested, STBase, STTypeOK
    <3>2. Len(stack') = 1 /\ Len(<<>>) = 0
      BY <3>1
    <3>3. stack' # <<>>
      BY <3>2
    <3> QED BY <3>3 DEF NothingBetween
  <2>4. CASE Commit \/ Fail \/ Panic
    BY <2>4 DEF Commit, Fail, Panic, Return, EndTransaction, NothingBetween
  <2>5. CASE UNCHANGED stVars
    BY <2>5 DEF stVars, STBase, NothingBetween
  <2> QED BY <2>1, <2>2, <2>3, <2>4, <2>5 DEF STNext
<1> QED BY <1>1, <1>2, <1>3 DEF STBase

-----------------------------------------------------------------------------
(***************************************************************************)
(* The invariant.                                                          *)
(*                                                                         *)
(* Own: what the running transaction has put into its rows, and, while one *)
(* of its functions is a shared one, what waits, was asked for by it, on   *)
(* the channel and for the module it is kept for.  While no shared         *)
(* function runs anything may wait: it is overwritten before it is taken.  *)
(*                                                                         *)
(* Kept: whatever it has asked for, and is not stranded, is in its rows or *)
(* waits in a shared function, which will flush it.                        *)
(*                                                                         *)
(* Ordering: numbers grow, the rows have what they carry on a channel in   *)
(* the order of the numbers, and what waits is later than the rows.        *)
(*                                                                         *)
(* Following: a row with a message has the rows of earlier operations      *)
(* before it.                                                              *)
(***************************************************************************)
Holds(s, n) == \E k \in 1 .. Len(s) : s[k] = n
CarriedIn(q, item) == \E i \in 1 .. Len(q) : Carries(q[i], item)
Increasing(s) == \A k, l \in 1 .. Len(s) : k < l => s[k] < s[l]
Before(s, t) == \A k \in 1 .. Len(s), l \in 1 .. Len(t) : s[k] < t[l]

IsOwn(s, d, c, X) ==
    \A k \in 1 .. Len(s) : \E item \in X : item.n = s[k] /\ item.channel = c /\ d \in item.to
RowsOwn(q, d, X) == \A i \in 1 .. Len(q) : \A c \in Channels : IsOwn(q[i][c], d, c, X)
WaitOwn(d) == \A c \in Channels : IsOwn(Waiting(d)[c], d, c, issued)

Own ==
    /\ \A d \in Modules : RowsOwn(outbox[d], d, committed) /\ RowsOwn(rows[d], d, issued)
    /\ SharedRuns => \A d \in Modules : WaitOwn(d)

Kept(d, item) ==
    CarriedIn(rows[d], item) \/ (SharedRuns /\ Holds(Waiting(d)[item.channel], item.n))
IssuedIsKept == \A item \in issued : ~item.stranded => \A d \in item.to : Kept(d, item)

InOrder(c, q) ==
    /\ \A i \in 1 .. Len(q) : Increasing(q[i][c])
    /\ \A i, j \in 1 .. Len(q) : i < j => Before(q[i][c], q[j][c])
AllBefore(c, q, s) == \A i \in 1 .. Len(q) : Before(q[i][c], s)
WaitsInOrder(d) ==
    \A c \in Channels : Increasing(Waiting(d)[c]) /\ AllBefore(c, rows[d], Waiting(d)[c])

Numbered ==
    /\ \A item \in issued \cup committed : item.n <= lastItem
    /\ \A old \in committed, item \in issued : old.n < item.n
Ordering ==
    /\ \A d \in Modules : \A c \in Channels : InOrder(c, outbox[d]) /\ InOrder(c, rows[d])
    /\ SharedRuns => \A d \in Modules : WaitsInOrder(d)

ComesFirst(u, d, m) == u.channel \in Tables /\ d \in u.to /\ ~u.stranded /\ u.n < m
FollowsIn(q, d, X) ==
    \A j \in 1 .. Len(q) : \A k \in 1 .. Len(q[j][Message]) : \A u \in X :
        ComesFirst(u, d, q[j][Message][k]) => \E i \in 1 .. j - 1 : Carries(q[i], u)
Following ==
    \A d \in Modules : FollowsIn(outbox[d], d, committed) /\ FollowsIn(rows[d], d, issued)

STParts == Own /\ NothingIsLost /\ IssuedIsKept /\ Numbered /\ Ordering /\ Following
STInv == STBase /\ STParts

-----------------------------------------------------------------------------
(***************************************************************************)
(* Rows that a transaction may leave to a module: its own, all that it     *)
(* asked for, in order.                                                    *)
(***************************************************************************)
RowsComplete(q, d) ==
    \A item \in issued : ~item.stranded /\ d \in item.to => CarriedIn(q, item)
RowsGood(q, d) ==
    /\ q \in Seq(Row) /\ RowsOwn(q, d, issued) /\ RowsComplete(q, d)
    /\ \A c \in Channels : InOrder(c, q)
    /\ FollowsIn(q, d, issued)

LEMMA RowsAreGood ==
    ASSUME STInv, ~SharedRuns, NEW d \in Modules
    PROVE  RowsGood(rows[d], d)
<1>1. rows[d] \in Seq(Row)
  BY DEF STInv, STBase, STTypeOK
<1>2. RowsComplete(rows[d], d)
  BY DEF STInv, STParts, IssuedIsKept, Kept, RowsComplete
<1> QED BY <1>1, <1>2 DEF STInv, STParts, Own, Ordering, Following, RowsGood

\* where a flush puts what it adds to L rows: u updates, then D messages
Positions(L, u, D, F) ==
    /\ F \in Nat /\ L <= F
    /\ \A i \in 1 .. L : i \in 1 .. F
    /\ \A i \in 1 .. F : i \notin 1 .. L =>
            (u = 1 /\ i = L + 1) \/ (i - (L + u) \in 1 .. D /\ i = L + u + (i - (L + u)))
    /\ \A k \in 1 .. D : L + u + k \in 1 .. F
    /\ u = 1 => L + 1 \in 1 .. F

LEMMA PositionsOfFlush ==
    ASSUME NEW L \in Nat, NEW u \in {0, 1}, NEW D \in Nat, NEW F, F = L + u + D
    PROVE  Positions(L, u, D, F)
BY DEF Positions

LEMMA FlushPositions ==
    ASSUME NEW d \in Modules, NEW u \in {0, 1}, FlushShape(d, u)
    PROVE  Positions(Len(rows[d]), u, Len(delayed[d]), Len(Flushed[d]))
<1>1. PICK L : L = Len(rows[d])
  OBVIOUS
<1>2. PICK D : D = Len(delayed[d])
  OBVIOUS
<1>3. L \in Nat /\ D \in Nat /\ Len(Flushed[d]) = L + u + D
  BY <1>1, <1>2 DEF FlushShape
<1>4. PICK F : F = Len(Flushed[d])
  OBVIOUS
<1>5. Positions(L, u, D, F)
  BY <1>3, <1>4, PositionsOfFlush
<1> QED BY <1>1, <1>2, <1>4, <1>5

\* a row that a flush adds carries the operations, or one message
LEMMA FlushedTail ==
    ASSUME STTypeOK, NEW d \in Modules, NEW u \in {0, 1}, FlushShape(d, u),
           NEW i \in 1 .. Len(Flushed[d]), i \notin 1 .. Len(rows[d])
    PROVE  \/ u = 1 /\ i = Len(rows[d]) + 1 /\ Flushed[d][i] = UpdateRow(d)
           \/ \E j \in 1 .. Len(delayed[d]) : /\ i = Len(rows[d]) + u + j
                                              /\ Flushed[d][i] = MessageRow(delayed[d][j])
<1>1. \/ u = 1 /\ i = Len(rows[d]) + 1
      \/ /\ i - (Len(rows[d]) + u) \in 1 .. Len(delayed[d])
         /\ i = Len(rows[d]) + u + (i - (Len(rows[d]) + u))
  BY FlushPositions DEF Positions
<1>2. CASE u = 1 /\ i = Len(rows[d]) + 1
  BY <1>2 DEF FlushShape
<1>3. ASSUME NEW j \in 1 .. Len(delayed[d]), i = Len(rows[d]) + u + j
      PROVE  Flushed[d][i] = MessageRow(delayed[d][j])
  BY <1>3 DEF FlushShape
<1> QED BY <1>1, <1>2, <1>3

\* ... on each channel, some of what waits
LEMMA FlushedEntry ==
    ASSUME STTypeOK, NEW d \in Modules, NEW u \in {0, 1}, FlushShape(d, u),
           NEW i \in 1 .. Len(Flushed[d]), i \notin 1 .. Len(rows[d]), NEW c \in Channels
    PROVE  \/ Flushed[d][i][c] = <<>>
           \/ u = 1 /\ i = Len(rows[d]) + 1 /\ c # Message /\ Flushed[d][i][c] = Waiting(d)[c]
           \/ c = Message /\ \E j \in 1 .. Len(Waiting(d)[c]) :
                i = Len(rows[d]) + u + j /\ Flushed[d][i][c] = <<Waiting(d)[c][j]>>
<1>1. CASE u = 1 /\ i = Len(rows[d]) + 1 /\ Flushed[d][i] = UpdateRow(d)
  BY <1>1 DEF UpdateRow, Waiting
<1>2. ASSUME NEW j \in 1 .. Len(delayed[d]), i = Len(rows[d]) + u + j,
             Flushed[d][i] = MessageRow(delayed[d][j])
      PROVE  \/ Flushed[d][i][c] = <<>>
             \/ c = Message /\ \E n \in 1 .. Len(Waiting(d)[c]) :
                  i = Len(rows[d]) + u + n /\ Flushed[d][i][c] = <<Waiting(d)[c][n]>>
  BY <1>2 DEF MessageRow, Waiting
<1> QED BY <1>1, <1>2, FlushedTail

LEMMA OneEntry ==
    ASSUME NEW n
    PROVE  /\ Len(<<n>>) = 1 /\ <<n>>[1] = n /\ Len(<<>>) = 0
           /\ Holds(<<n>>, n) /\ Increasing(<<n>>) /\ Increasing(<<>>)
           /\ \A s : Before(s, <<>>) /\ Before(<<>>, s)
<1>1. Len(<<n>>) = 1 /\ <<n>>[1] = n /\ Len(<<>>) = 0
  OBVIOUS
<1>2. 1 .. Len(<<n>>) = {1} /\ 1 .. Len(<<>>) = {}
  BY <1>1
<1> QED BY <1>1, <1>2 DEF Holds, Increasing, Before

\* whatever waits is in a flush; operations are in its first new row
LEMMA FlushedHolds ==
    ASSUME STTypeOK, NEW d \in Modules, NEW u \in {0, 1}, FlushShape(d, u),
           NEW c \in Channels, NEW n, Holds(Waiting(d)[c], n)
    PROVE  \E i \in 1 .. Len(Flushed[d]) :
             /\ Holds(Flushed[d][i][c], n)
             /\ c # Message => u = 1 /\ i = Len(rows[d]) + 1
<1>1. Positions(Len(rows[d]), u, Len(delayed[d]), Len(Flushed[d]))
  BY FlushPositions
<1>2. CASE c # Message
  <2>1. Waiting(d)[c] = Updates(d)[c] /\ c \in Tables
    BY <1>2, ChannelKinds DEF Waiting
  <2>2. Updates(d) # NoUpdates
    BY <2>1, OneEntry DEF Holds, NoUpdates
  <2>3. u = 1 /\ Flushed[d][Len(rows[d]) + 1] = UpdateRow(d)
    BY <2>2 DEF FlushShape
  <2>4. Flushed[d][Len(rows[d]) + 1][c] = Waiting(d)[c]
    BY <1>2, <2>1, <2>3 DEF UpdateRow
  <2>6. Len(rows[d]) + 1 \in 1 .. Len(Flushed[d])
    BY <1>1, <2>3 DEF Positions
  <2> QED BY <2>3, <2>4, <2>6
<1>3. CASE c = Message
  <2>1. PICK k \in 1 .. Len(delayed[d]) : delayed[d][k] = n
    BY <1>3 DEF Waiting, Holds
  <2>2. Flushed[d][Len(rows[d]) + u + k] = MessageRow(n)
    BY <2>1 DEF FlushShape
  <2>3. MessageRow(n)[c] = <<n>>
    BY <1>3 DEF MessageRow
  <2>4. Len(rows[d]) + u + k \in 1 .. Len(Flushed[d])
    BY <1>1 DEF Positions
  <2>5. Holds(Flushed[d][Len(rows[d]) + u + k][c], n)
    BY <2>2, <2>3, OneEntry
  <2> QED BY <1>3, <2>4, <2>5
<1> QED BY <1>2, <1>3

LEMMA FlushedIsGood ==
    ASSUME STInv, SharedRuns, NEW d \in Modules
    PROVE  RowsGood(Flushed[d], d)
<1>a. STTypeOK /\ WaitOwn(d) /\ WaitsInOrder(d)
  BY DEF STInv, STBase, STParts, Own, Ordering
<1>b. PICK u \in {0, 1} : FlushShape(d, u)
  BY <1>a, FlushedShape
<1> DEFINE f == Flushed[d]
           L == Len(rows[d])
<1>c. /\ f \in Seq(Row) /\ L \in Nat /\ Len(f) \in Nat /\ L <= Len(f)
      /\ \A i \in 1 .. L : i \in 1 .. Len(f) /\ f[i] = rows[d][i]
  <2>1. /\ f \in Seq(Row) /\ L \in Nat
        /\ \A i \in 1 .. L : f[i] = rows[d][i]
    BY <1>b DEF FlushShape
  <2>2. Positions(L, u, Len(delayed[d]), Len(f))
    BY <1>b, FlushPositions
  <2> QED BY <2>1, <2>2 DEF Positions
<1>d. ASSUME NEW i \in 1 .. Len(f), i \notin 1 .. L, NEW c \in Channels
      PROVE  \A k \in 1 .. Len(f[i][c]) : Holds(Waiting(d)[c], f[i][c][k])
  <2>1. CASE f[i][c] = <<>>
    BY <2>1, OneEntry
  <2>2. CASE f[i][c] = Waiting(d)[c]
    BY <2>2 DEF Holds
  <2>3. ASSUME NEW j \in 1 .. Len(Waiting(d)[c]), f[i][c] = <<Waiting(d)[c][j]>>
        PROVE  \A k \in 1 .. Len(f[i][c]) : Holds(Waiting(d)[c], f[i][c][k])
    BY <2>3, OneEntry DEF Holds
  <2> QED BY <1>a, <1>b, <1>d, <2>1, <2>2, <2>3, FlushedEntry
<1>e. ASSUME NEW i \in 1 .. Len(f), i \notin 1 .. L, NEW c \in Channels
      PROVE  \/ f[i][c] = <<>>
             \/ u = 1 /\ i = L + 1 /\ c # Message /\ f[i][c] = Waiting(d)[c]
             \/ c = Message /\ \E m \in 1 .. Len(Waiting(d)[c]) :
                  i = L + u + m /\ f[i][c] = <<Waiting(d)[c][m]>>
  BY <1>a, <1>b, <1>e, FlushedEntry
<1>1. RowsOwn(f, d, issued)
  <2> SUFFICES ASSUME NEW i \in 1 .. Len(f), NEW c \in Channels, NEW k \in 1 .. Len(f[i][c])
               PROVE  \E item \in issued : item.n = f[i][c][k] /\ item.channel = c /\ d \in item.to
    BY DEF RowsOwn, IsOwn
  <2>1. CASE i \in 1 .. L
    <3>1. RowsOwn(rows[d], d, issued)
      BY DEF STInv, STParts, Own
    <3> QED BY <1>c, <2>1, <3>1 DEF RowsOwn, IsOwn
  <2>2. CASE i \notin 1 .. L
    BY <1>a, <1>d, <2>2 DEF Holds, WaitOwn, IsOwn
  <2> QED BY <2>1, <2>2
<1>2. RowsComplete(f, d)
  <2> SUFFICES ASSUME NEW item \in issued, ~item.stranded, d \in item.to
               PROVE  CarriedIn(f, item)
    BY DEF RowsComplete
  <2>1. Kept(d, item) /\ item.channel \in Channels
    BY DEF STInv, STBase, STParts, IssuedIsKept, STTypeOK, Item
  <2>2. CASE CarriedIn(rows[d], item)
    BY <1>c, <2>2 DEF CarriedIn
  <2>3. CASE Holds(Waiting(d)[item.channel], item.n)
    <3>1. PICK i \in 1 .. Len(f) : Holds(f[i][item.channel], item.n)
      BY <1>a, <1>b, <2>1, <2>3, FlushedHolds
    <3> QED BY <3>1 DEF CarriedIn, Carries, Holds
  <2> QED BY <2>1, <2>2, <2>3 DEF Kept
<1>3. ASSUME NEW c \in Channels
      PROVE  InOrder(c, f)
  <2>1. InOrder(c, rows[d]) /\ Increasing(Waiting(d)[c]) /\ AllBefore(c, rows[d], Waiting(d)[c])
    BY <1>a DEF STInv, STParts, Ordering, WaitsInOrder
  <2>2. ASSUME NEW i \in 1 .. Len(f)
        PROVE  Increasing(f[i][c])
    <3>1. CASE i \in 1 .. L
      BY <1>c, <2>1, <3>1 DEF InOrder
    <3>2. CASE i \notin 1 .. L
      <4>1. ASSUME NEW k \in 1 .. Len(Waiting(d)[c]), f[i][c] = <<Waiting(d)[c][k]>>
            PROVE  Increasing(f[i][c])
        BY <4>1, OneEntry
      <4>2. f[i][c] = <<>> => Increasing(f[i][c])
        BY OneEntry
      <4> QED BY <1>e, <2>1, <3>2, <4>1, <4>2
    <3> QED BY <3>1, <3>2
  <2>3. ASSUME NEW i \in 1 .. Len(f), NEW j \in 1 .. Len(f), i < j
        PROVE  Before(f[i][c], f[j][c])
    <3>1. CASE j \in 1 .. L
      <4>1. i \in 1 .. L
        BY <1>c, <2>3, <3>1
      <4> QED BY <1>c, <2>1, <2>3, <3>1, <4>1 DEF InOrder
    <3>2. CASE i \in 1 .. L /\ j \notin 1 .. L
      <4>1. Before(rows[d][i][c], Waiting(d)[c])
        BY <2>1, <3>2 DEF AllBefore
      <4>2. f[i] = rows[d][i] /\ \A l \in 1 .. Len(f[j][c]) : Holds(Waiting(d)[c], f[j][c][l])
        BY <1>c, <1>d, <3>2
      <4>3. Before(rows[d][i][c], f[j][c])
        BY <4>1, <4>2 DEF Before, Holds
      <4> QED BY <4>2, <4>3
    <3>3. CASE i \notin 1 .. L /\ j \notin 1 .. L
      <4>1. CASE f[i][c] = <<>> \/ f[j][c] = <<>>
        BY <4>1, OneEntry
      <4>2. CASE c # Message /\ f[i][c] # <<>> /\ f[j][c] # <<>>
        <5>1. i = L + 1 /\ j = L + 1
          BY <1>e, <3>3, <4>2
        <5> QED BY <1>c, <2>3, <5>1
      <4>3. CASE c = Message /\ f[i][c] # <<>> /\ f[j][c] # <<>>
        <5>1. PICK k \in 1 .. Len(Waiting(d)[c]) :
                i = L + u + k /\ f[i][c] = <<Waiting(d)[c][k]>>
          BY <1>e, <3>3, <4>3
        <5>2. PICK l \in 1 .. Len(Waiting(d)[c]) :
                j = L + u + l /\ f[j][c] = <<Waiting(d)[c][l]>>
          BY <1>e, <3>3, <4>3
        <5>3. k < l
          BY <1>c, <2>3, <5>1, <5>2
        <5>4. Waiting(d)[c][k] < Waiting(d)[c][l]
          BY <2>1, <5>3 DEF Increasing
        <5> QED BY <5>1, <5>2, <5>4, OneEntry DEF Before
      <4> QED BY <4>1, <4>2, <4>3
    <3> QED BY <1>c, <2>3, <3>1, <3>2, <3>3
  <2> QED BY <2>2, <2>3 DEF InOrder
<1>4. FollowsIn(f, d, issued)
  <2> SUFFICES ASSUME NEW j \in 1 .. Len(f), NEW k \in 1 .. Len(f[j][Message]), NEW v \in issued,
                      ComesFirst(v, d, f[j][Message][k])
               PROVE  \E i \in 1 .. j - 1 : Carries(f[i], v)
    BY DEF FollowsIn
  <2>1. CASE j \in 1 .. L
    <3>1. FollowsIn(rows[d], d, issued)
      BY DEF STInv, STParts, Following
    <3>2. f[j] = rows[d][j]
      BY <1>c, <2>1
    <3>3. PICK i \in 1 .. j - 1 : Carries(rows[d][i], v)
      BY <2>1, <3>1, <3>2 DEF FollowsIn
    <3>4. i \in 1 .. L /\ f[i] = rows[d][i]
      BY <1>c, <2>1
    <3> QED BY <3>3, <3>4
  <2>2. CASE j \notin 1 .. L
    <3>1. Kept(d, v) /\ v.channel \in Channels /\ v.channel # Message
      BY ChannelKinds DEF STInv, STParts, IssuedIsKept, ComesFirst
    <3>2. CASE CarriedIn(rows[d], v)
      <4>1. PICK i \in 1 .. L : Carries(rows[d][i], v)
        BY <3>2 DEF CarriedIn
      <4>2. i \in 1 .. j - 1 /\ f[i] = rows[d][i]
        BY <1>c, <2>2
      <4> QED BY <4>1, <4>2
    <3>3. CASE Holds(Waiting(d)[v.channel], v.n)
      <4>1. PICK i \in 1 .. Len(f) : Holds(f[i][v.channel], v.n) /\ u = 1 /\ i = L + 1
        BY <1>a, <1>b, <3>1, <3>3, FlushedHolds
      <4>2. PICK m \in 1 .. Len(Waiting(d)[Message]) : j = L + u + m
        <5>1. f[j][Message] # <<>>
          BY OneEntry
        <5>2. Message \in Channels
          BY ChannelKinds
        <5> QED BY <1>e, <2>2, <5>1, <5>2
      <4>3. i \in 1 .. j - 1
        BY <1>c, <4>1, <4>2
      <4> QED BY <4>1, <4>3 DEF Carries, Holds
    <3> QED BY <3>1, <3>2, <3>3 DEF Kept
  <2> QED BY <2>1, <2>2
<1> QED BY <1>c, <1>1, <1>2, <1>3, <1>4 DEF RowsGood

-----------------------------------------------------------------------------
(***************************************************************************)
(* What one more number does to a sequence, and one more row to a list of  *)
(* rows.                                                                   *)
(***************************************************************************)
LEMMA AppendParts ==
    ASSUME NEW S, NEW q \in Seq(S), NEW e \in S
    PROVE  /\ Len(q) \in Nat /\ Len(Append(q, e)) = Len(q) + 1
           /\ \A i \in 1 .. Len(q) : i \in 1 .. Len(Append(q, e)) /\ Append(q, e)[i] = q[i]
           /\ Len(q) + 1 \in 1 .. Len(Append(q, e)) /\ Append(q, e)[Len(q) + 1] = e
           /\ \A i \in 1 .. Len(Append(q, e)) :
                i \in 1 .. Len(q) \/ (i = Len(q) + 1 /\ Append(q, e)[i] = e)
<1>1. /\ Len(q) \in Nat /\ Len(Append(q, e)) = Len(q) + 1
      /\ \A i \in 1 .. Len(q) : Append(q, e)[i] = q[i]
      /\ Append(q, e)[Len(q) + 1] = e
  BY AppendProperties, LenProperties
<1> DEFINE a == Append(q, e)
           L == Len(q)
<1>2. L \in Nat /\ Len(a) = L + 1 /\ a[L + 1] = e
  BY <1>1
<1> HIDE DEF a, L
<1>3. /\ \A i \in 1 .. L : i \in 1 .. Len(a)
      /\ L + 1 \in 1 .. Len(a)
      /\ \A i \in 1 .. Len(a) : i \in 1 .. L \/ (i = L + 1 /\ a[i] = e)
  BY <1>2
<1> QED BY <1>1, <1>3 DEF a, L

LEMMA AppendHolds ==
    ASSUME NEW S, NEW q \in Seq(S), NEW e \in S
    PROVE  Holds(Append(q, e), e) /\ \A n : Holds(q, n) => Holds(Append(q, e), n)
BY AppendParts DEF Holds

LEMMA AppendOwn ==
    ASSUME NEW S, NEW q \in Seq(S), NEW n \in S, NEW d, NEW c, NEW X, NEW Y, X \subseteq Y,
           NEW e \in Y, e.n = n, e.channel = c, d \in e.to, IsOwn(q, d, c, X)
    PROVE  IsOwn(Append(q, n), d, c, Y)
<1> DEFINE a == Append(q, n)
<1>1. \A i \in 1 .. Len(q) : a[i] = q[i]
  BY AppendParts
<1>2. \A i \in 1 .. Len(a) : i \in 1 .. Len(q) \/ a[i] = n
  BY AppendParts
<1> HIDE DEF a
<1>3. IsOwn(a, d, c, Y)
  BY <1>1, <1>2 DEF IsOwn
<1> QED BY <1>3 DEF a

LEMMA AppendIncreasing ==
    ASSUME NEW q \in Seq(Nat), NEW e \in Nat, Increasing(q), \A k \in 1 .. Len(q) : q[k] < e
    PROVE  Increasing(Append(q, e))
<1> DEFINE a == Append(q, e)
<1>1. /\ Len(q) \in Nat /\ Len(a) = Len(q) + 1
      /\ \A i \in 1 .. Len(q) : a[i] = q[i]
      /\ \A i \in 1 .. Len(a) : i \in 1 .. Len(q) \/ (i = Len(q) + 1 /\ a[i] = e)
  BY AppendParts
<1> HIDE DEF a
<1> SUFFICES ASSUME NEW k \in 1 .. Len(a), NEW l \in 1 .. Len(a), k < l
             PROVE  a[k] < a[l]
  BY DEF Increasing, a
<1>2. k \in 1 .. Len(q) /\ a[k] = q[k]
  BY <1>1
<1>3. CASE l \in 1 .. Len(q)
  BY <1>1, <1>2, <1>3 DEF Increasing
<1>4. CASE a[l] = e
  BY <1>2, <1>4
<1> QED BY <1>1, <1>3, <1>4

LEMMA AppendBefore ==
    ASSUME NEW t \in Seq(Nat), NEW e \in Nat, NEW s, Before(s, t),
           \A k \in 1 .. Len(s) : s[k] < e
    PROVE  Before(s, Append(t, e))
<1> DEFINE a == Append(t, e)
<1>1. /\ \A i \in 1 .. Len(t) : a[i] = t[i]
      /\ \A i \in 1 .. Len(a) : i \in 1 .. Len(t) \/ (i = Len(t) + 1 /\ a[i] = e)
  BY AppendParts
<1> HIDE DEF a
<1>2. Before(s, a)
  BY <1>1 DEF Before
<1> QED BY <1>2 DEF a

LEMMA AppendRow ==
    ASSUME NEW S, NEW q \in Seq(S), NEW r \in S
    PROVE  /\ \A d, X : RowsOwn(q, d, X) /\ (\A c \in Channels : IsOwn(r[c], d, c, X))
                => RowsOwn(Append(q, r), d, X)
           /\ \A u : CarriedIn(q, u) \/ Carries(r, u) => CarriedIn(Append(q, r), u)
           /\ \A c : InOrder(c, q) /\ Increasing(r[c]) /\ AllBefore(c, q, r[c])
                => InOrder(c, Append(q, r))
<1> DEFINE a == Append(q, r)
           L == Len(q)
<1>1. /\ L \in Nat /\ Len(a) = L + 1
      /\ \A i \in 1 .. L : i \in 1 .. Len(a) /\ a[i] = q[i]
      /\ L + 1 \in 1 .. Len(a) /\ a[L + 1] = r
      /\ \A i \in 1 .. Len(a) : i \in 1 .. L \/ (i = L + 1 /\ a[i] = r)
  BY AppendParts
<1> HIDE DEF a
<1>2. \A d, X : RowsOwn(q, d, X) /\ (\A c \in Channels : IsOwn(r[c], d, c, X))
        => RowsOwn(a, d, X)
  BY <1>1 DEF RowsOwn
<1>3. \A u : CarriedIn(q, u) \/ Carries(r, u) => CarriedIn(a, u)
  BY <1>1 DEF CarriedIn
<1>4. ASSUME NEW c, InOrder(c, q), Increasing(r[c]), AllBefore(c, q, r[c])
      PROVE  InOrder(c, a)
  <2>1. \A i \in 1 .. Len(a) : Increasing(a[i][c])
    BY <1>1, <1>4 DEF InOrder
  <2>2. ASSUME NEW i \in 1 .. Len(a), NEW j \in 1 .. Len(a), i < j
        PROVE  Before(a[i][c], a[j][c])
    <3>1. i \in 1 .. L /\ a[i] = q[i]
      BY <1>1, <2>2
    <3>2. CASE j \in 1 .. L
      BY <1>1, <1>4, <2>2, <3>1, <3>2 DEF InOrder
    <3>3. CASE a[j] = r
      BY <1>4, <3>1, <3>3 DEF AllBefore
    <3> QED BY <1>1, <3>2, <3>3
  <2> QED BY <2>1, <2>2 DEF InOrder
<1> QED BY <1>2, <1>3, <1>4 DEF a

LEMMA AppendFollows ==
    ASSUME NEW S, NEW q \in Seq(S), NEW r \in S, NEW d, NEW X, FollowsIn(q, d, X),
           \A k \in 1 .. Len(r[Message]), u \in X :
                ComesFirst(u, d, r[Message][k]) => CarriedIn(q, u)
    PROVE  FollowsIn(Append(q, r), d, X)
<1> DEFINE a == Append(q, r)
           L == Len(q)
<1>1. /\ L \in Nat
      /\ \A i \in 1 .. L : a[i] = q[i]
      /\ \A i \in 1 .. Len(a) : i \in 1 .. L \/ (i = L + 1 /\ a[i] = r)
  BY AppendParts
<1> HIDE DEF a
<1>2. ASSUME NEW j \in 1 .. Len(a), NEW k \in 1 .. Len(a[j][Message]), NEW u \in X,
             ComesFirst(u, d, a[j][Message][k])
      PROVE  \E i \in 1 .. j - 1 : Carries(a[i], u)
  <2>1. CASE j \in 1 .. L
    <3>1. PICK i \in 1 .. j - 1 : Carries(q[i], u)
      BY <1>1, <1>2, <2>1 DEF FollowsIn
    <3>2. i \in 1 .. L
      BY <1>1, <2>1
    <3> QED BY <1>1, <3>1, <3>2
  <2>2. CASE j = L + 1 /\ a[j] = r
    <3>1. PICK i \in 1 .. L : Carries(q[i], u)
      BY <1>2, <2>2 DEF CarriedIn
    <3>2. i \in 1 .. j - 1
      BY <1>1, <2>2
    <3> QED BY <1>1, <3>1, <3>2
  <2> QED BY <1>1, <2>1, <2>2
<1>3. FollowsIn(a, d, X)
  BY <1>2 DEF FollowsIn
<1> QED BY <1>3 DEF a

-----------------------------------------------------------------------------
(***************************************************************************)
(* A step that asks for one more item.  Its number is later than all there *)
(* are.                                                                    *)
(***************************************************************************)
Below(s, n) == \A k \in 1 .. Len(s) : s[k] < n

LEMMA ItemNumbers ==
    ASSUME STInv
    PROVE  /\ lastItem \in Nat /\ NextItem = lastItem + 1
           /\ issued \subseteq Item /\ committed \subseteq Item
           /\ \A item \in issued \cup committed : item.n \in Nat /\ item.n < NextItem
<1>1. STTypeOK /\ Numbered
  BY DEF STInv, STBase, STParts
<1>2. lastItem \in Nat /\ NextItem = lastItem + 1
  BY <1>1, MaxItemsAssumption DEF STTypeOK, NextItem
<1>3. issued \subseteq Item /\ committed \subseteq Item
  BY <1>1 DEF STTypeOK
<1>4. ASSUME NEW item \in issued \cup committed
      PROVE  item.n \in Nat /\ item.n < NextItem
  <2>1. item.n \in Nat
    BY <1>3, MaxItemsAssumption DEF Item, Items
  <2>2. item.n <= lastItem
    BY <1>1 DEF Numbered
  <2> QED BY <1>2, <2>1, <2>2
<1> QED BY <1>2, <1>3, <1>4

LEMMA OwnIsBelow ==
    ASSUME STInv, NEW s, NEW d, NEW c, IsOwn(s, d, c, issued)
    PROVE  Below(s, NextItem)
BY ItemNumbers DEF IsOwn, Below

LEMMA RowIsBelow ==
    ASSUME STInv, NEW d \in Modules, NEW c \in Channels, NEW i \in 1 .. Len(rows[d])
    PROVE  Below(rows[d][i][c], NextItem)
<1>1. IsOwn(rows[d][i][c], d, c, issued)
  BY DEF STInv, STParts, Own, RowsOwn
<1> QED BY <1>1, OwnIsBelow

LEMMA WaitingIsBelow ==
    ASSUME STInv, SharedRuns, NEW d \in Modules, NEW c \in Channels
    PROVE  Below(Waiting(d)[c], NextItem)
<1>1. IsOwn(Waiting(d)[c], d, c, issued)
  BY DEF STInv, STParts, Own, WaitOwn
<1> QED BY <1>1, OwnIsBelow

LEMMA BeforeNext ==
    ASSUME NEW s, NEW n, Below(s, n)
    PROVE  Before(s, <<n>>) /\ Before(s, <<>>)
BY OneEntry DEF Before, Below

LEMMA RowOfMessage ==
    ASSUME NEW n \in Items
    PROVE  /\ MessageRow(n) \in Row /\ MessageRow(n)[Message] = <<n>>
           /\ \A c \in Channels : c # Message => MessageRow(n)[c] = <<>>
BY MessageRowType, ChannelKinds

LEMMA MoreOwn ==
    ASSUME NEW X, NEW Y, X \subseteq Y
    PROVE  /\ \A s, d, c : IsOwn(s, d, c, X) => IsOwn(s, d, c, Y)
           /\ \A q, d : RowsOwn(q, d, X) => RowsOwn(q, d, Y)
BY DEF IsOwn, RowsOwn

\* the new item, and the step, for the lemmas that follow
AskedOf(c, dst, e) ==
    /\ e.n = NextItem /\ e.channel = c /\ e.to = Addressees(dst) /\ e.stranded = Stranded
    /\ c \in Channels /\ NextItem \in Items /\ NextItem \in Nat
    /\ issued \subseteq issued' /\ e \in issued' /\ \A item \in issued' : item \in issued \/ item = e
    /\ UNCHANGED <<outbox, committed>> /\ SharedRuns' = SharedRuns
    /\ \A d \in Modules : (d \in Addressees(dst) /\ (Waits(d, c) \/ IsSent(d, c))) \/ IsSpared(d)
    /\ \A d \in Addressees(dst) \cap Modules : Waits(d, c) \/ IsSent(d, c)

LEMMA AskedItem ==
    ASSUME NEW c, NEW dst, Asks(c, dst)
    PROVE  \E e : AskedOf(c, dst, e)
<1>1. PICK e : e = NewItem(c, dst)
  OBVIOUS
<1>2. issued' = issued \cup {e}
  BY <1>1 DEF Asks
<1>3. /\ c \in Channels /\ NextItem \in Items /\ UNCHANGED <<stack, outbox, committed>>
      /\ \A d \in Modules :
           IF d \in Addressees(dst) THEN Waits(d, c) \/ IsSent(d, c) ELSE IsSpared(d)
  BY DEF Asks
<1>4. e.n = NextItem /\ e.channel = c /\ e.to = Addressees(dst) /\ e.stranded = Stranded
  BY <1>1 DEF NewItem
<1>5. NextItem \in Nat
  BY <1>3, MaxItemsAssumption DEF Items
<1>6. SharedRuns' = SharedRuns
  BY <1>3 DEF SharedRuns
<1> QED BY <1>2, <1>3, <1>4, <1>5, <1>6 DEF AskedOf

LEMMA AskOwn ==
    ASSUME STInv, NEW c, NEW dst, NEW e, AskedOf(c, dst, e)
    PROVE  Own'
<1>1. STTypeOK /\ Own
  BY DEF STInv, STBase, STParts
<1>2. /\ e \in issued' /\ e.n = NextItem /\ e.channel = c /\ e.to = Addressees(dst)
      /\ c \in Channels /\ NextItem \in Items
      /\ \A d \in Modules : (d \in Addressees(dst) /\ (Waits(d, c) \/ IsSent(d, c))) \/ IsSpared(d)
      /\ outbox' = outbox /\ committed' = committed /\ SharedRuns' = SharedRuns
  BY DEF AskedOf
<1>3. issued \subseteq issued'
  BY DEF AskedOf
<1>4. \A d \in Modules : RowsOwn(outbox'[d], d, committed')
  BY <1>1, <1>2 DEF Own
<1>5. ASSUME NEW d \in Modules
      PROVE  RowsOwn(rows'[d], d, issued')
  <2>1. RowsOwn(rows[d], d, issued')
    BY <1>1, <1>3, MoreOwn DEF Own
  <2>2. ASSUME IsSent(d, c), d \in Addressees(dst)
        PROVE  RowsOwn(rows'[d], d, issued')
    <3>1. PICK r \in Row : /\ r = MessageRow(NextItem) /\ r[Message] = <<NextItem>>
                           /\ \A b \in Channels : b # Message => r[b] = <<>>
      BY <1>2, RowOfMessage
    <3>2. rows'[d] = Append(rows[d], r) /\ c = Message
      BY <2>2, <3>1 DEF IsSent
    <3>3. ASSUME NEW b \in Channels
          PROVE  IsOwn(r[b], d, b, issued')
      <4>1. CASE b = Message
        BY <1>2, <2>2, <3>1, <3>2, <4>1, OneEntry DEF IsOwn
      <4>2. CASE b # Message
        BY <3>1, <4>2, OneEntry DEF IsOwn
      <4> QED BY <4>1, <4>2
    <3>4. rows[d] \in Seq(Row)
      BY <1>1 DEF STTypeOK
    <3>5. RowsOwn(Append(rows[d], r), d, issued')
      BY <2>1, <3>3, <3>4, AppendRow
    <3> QED BY <3>2, <3>5
  <2> QED BY <1>2, <2>1, <2>2 DEF Waits, IsSpared
<1>6. ASSUME SharedRuns, NEW d \in Modules, NEW b \in Channels
      PROVE  IsOwn(Waiting(d)'[b], d, b, issued')
  <2>1. IsOwn(Waiting(d)[b], d, b, issued)
    BY <1>1, <1>6 DEF Own, WaitOwn
  <2>2. IsOwn(Waiting(d)[b], d, b, issued')
    BY <1>3, <2>1, MoreOwn
  <2>3. Waiting(d) \in [Channels -> Seq(Items)]
    BY <1>1, WaitingType DEF Row
  <2>4. ASSUME Waits(d, c), d \in Addressees(dst), b = c
        PROVE  IsOwn(Waiting(d)'[b], d, b, issued')
    <3>1. PICK s \in Seq(Items) : s = Waiting(d)[b]
      BY <2>3
    <3>2. Waiting(d)'[b] = Append(s, NextItem)
      BY <2>3, <2>4, <3>1 DEF Waits
    <3>3. IsOwn(Append(s, NextItem), d, b, issued')
      BY <1>2, <1>3, <2>1, <2>4, <3>1, AppendOwn
    <3> QED BY <3>2, <3>3
  <2>5. ASSUME Waits(d, c), b # c
        PROVE  Waiting(d)'[b] = Waiting(d)[b]
    BY <2>3, <2>5 DEF Waits
  <2> QED BY <1>2, <2>2, <2>4, <2>5 DEF IsSent, IsSpared
<1>7. SharedRuns' => \A d \in Modules : WaitOwn(d)'
  BY <1>2, <1>6 DEF WaitOwn
<1> QED BY <1>4, <1>5, <1>7 DEF Own

LEMMA AskKept ==
    ASSUME STInv, NEW c, NEW dst, NEW e, AskedOf(c, dst, e), Addressees(dst) \subseteq Modules
    PROVE  IssuedIsKept'
<1>1. STTypeOK /\ IssuedIsKept
  BY DEF STInv, STBase, STParts
<1>2. /\ e.n = NextItem /\ e.channel = c /\ e.to = Addressees(dst) /\ e.stranded = Stranded
      /\ c \in Channels /\ NextItem \in Items
      /\ \A d \in Modules : (d \in Addressees(dst) /\ (Waits(d, c) \/ IsSent(d, c))) \/ IsSpared(d)
      /\ \A d \in Addressees(dst) \cap Modules : Waits(d, c) \/ IsSent(d, c)
      /\ SharedRuns' = SharedRuns /\ \A item \in issued' : item \in issued \/ item = e
  BY DEF AskedOf
<1>3. ASSUME NEW d \in Modules, IsSent(d, c)
      PROVE  /\ \A item : CarriedIn(rows[d], item) => CarriedIn(rows'[d], item)
             /\ CarriedIn(rows'[d], e) /\ Waiting(d)' = Waiting(d)
  <2>1. PICK r \in Row : r = MessageRow(NextItem) /\ r[Message] = <<NextItem>>
    BY <1>2, RowOfMessage
  <2>2. rows'[d] = Append(rows[d], r) /\ c = Message /\ Waiting(d)' = Waiting(d)
    BY <1>3, <2>1 DEF IsSent
  <2>3. Carries(r, e)
    <3>1. Holds(<<NextItem>>, NextItem)
      BY OneEntry
    <3>2. r[e.channel] = <<NextItem>> /\ e.n = NextItem
      BY <1>2, <2>1, <2>2
    <3>3. Holds(r[e.channel], e.n)
      BY <3>1, <3>2
    <3> QED BY <3>3 DEF Carries, Holds
  <2>4. rows[d] \in Seq(Row)
    BY <1>1 DEF STTypeOK
  <2>5. PICK q \in Seq(Row) : q = rows[d]
    BY <2>4
  <2> HIDE DEF Row
  <2>6. \A item : CarriedIn(q, item) \/ Carries(r, item) => CarriedIn(Append(q, r), item)
    BY <2>5, AppendRow
  <2> QED BY <2>2, <2>3, <2>5, <2>6
<1>4. ASSUME NEW d \in Modules, Waits(d, c)
      PROVE  /\ rows'[d] = rows[d]
             /\ \A b \in Channels : \A n : Holds(Waiting(d)[b], n) => Holds(Waiting(d)'[b], n)
             /\ Holds(Waiting(d)'[c], NextItem)
  <2>1. Waiting(d) \in [Channels -> Seq(Items)]
    BY <1>1, WaitingType DEF Row
  <2>2. /\ rows'[d] = rows[d]
        /\ Waiting(d)' = [Waiting(d) EXCEPT ![c] = Append(Waiting(d)[c], NextItem)]
    BY <1>4 DEF Waits
  <2>3. PICK s \in Seq(Items) : s = Waiting(d)[c]
    BY <1>2, <2>1
  <2>4. Waiting(d)'[c] = Append(s, NextItem) /\ \A b \in Channels \ {c} : Waiting(d)'[b] = Waiting(d)[b]
    BY <1>2, <2>1, <2>2, <2>3
  <2>5. Holds(Append(s, NextItem), NextItem) /\ \A n : Holds(s, n) => Holds(Append(s, NextItem), n)
    BY <1>2, AppendHolds
  <2> QED BY <2>2, <2>3, <2>4, <2>5
<1>5. ASSUME NEW item \in issued', ~item.stranded, NEW d \in item.to
      PROVE  CarriedIn(rows'[d], item) \/ (SharedRuns /\ Holds(Waiting(d)'[item.channel], item.n))
  <2>1. CASE item = e
    <3>1. d \in Modules /\ (Waits(d, c) \/ IsSent(d, c)) /\ ~Stranded
      BY <1>2, <1>5, <2>1
    <3>2. CASE IsSent(d, c)
      BY <1>3, <2>1, <3>1, <3>2
    <3>3. CASE Waits(d, c)
      <4>1. SharedRuns
        BY <3>1, <3>3 DEF Waits, Stranded
      <4> QED BY <1>2, <1>4, <2>1, <3>1, <3>3, <4>1
    <3> QED BY <3>1, <3>2, <3>3
  <2>2. CASE item \in issued
    <3>1. item.channel \in Channels /\ d \in Modules
      BY <1>1, <2>2, <1>5 DEF STTypeOK, Item
    <3>2. CarriedIn(rows[d], item) \/ (SharedRuns /\ Holds(Waiting(d)[item.channel], item.n))
      BY <1>1, <1>5, <2>2 DEF IssuedIsKept, Kept
    <3>3. IsSent(d, c) \/ Waits(d, c) \/ IsSpared(d)
      BY <1>2, <3>1
    <3>4. CASE IsSent(d, c)
      BY <1>3, <3>1, <3>2, <3>4
    <3>5. CASE Waits(d, c)
      BY <1>4, <3>1, <3>2, <3>5
    <3>6. CASE IsSpared(d)
      BY <3>2, <3>6 DEF IsSpared
    <3> QED BY <3>3, <3>4, <3>5, <3>6
  <2> QED BY <1>2, <2>1, <2>2
<1> QED BY <1>2, <1>5 DEF IssuedIsKept, Kept

LEMMA AskNumbered ==
    ASSUME STInv, NEW c, NEW dst, NEW e, AskedOf(c, dst, e), lastItem' = NextItem
    PROVE  Numbered'
<1>1. /\ \A item \in issued \cup committed : item.n \in Nat /\ item.n < NextItem
      /\ lastItem \in Nat /\ NextItem = lastItem + 1
  BY ItemNumbers
<1>2. /\ \A item \in issued' : item \in issued \/ item = e
      /\ committed' = committed /\ e.n = NextItem
  BY DEF AskedOf
<1>3. \A old \in committed, item \in issued : old.n < item.n
  BY DEF STInv, STParts, Numbered
<1>4. \A item \in issued' \cup committed' : item.n <= lastItem'
  BY <1>1, <1>2
<1>5. \A old \in committed', item \in issued' : old.n < item.n
  BY <1>1, <1>2, <1>3
<1> QED BY <1>4, <1>5 DEF Numbered

\* a row of one message is in order behind rows with earlier numbers
LEMMA MessageInOrder ==
    ASSUME STInv, NEW d \in Modules, NEW r, r = MessageRow(NextItem), NextItem \in Items,
           NEW b \in Channels
    PROVE  InOrder(b, Append(rows[d], r)) /\ \A i \in 1 .. Len(rows[d]) : Before(rows[d][i][b], r[b])
<1>1. /\ r \in Row /\ r[Message] = <<NextItem>>
      /\ \A a \in Channels : a # Message => r[a] = <<>>
  BY RowOfMessage
<1>2. r[b] = <<>> \/ r[b] = <<NextItem>>
  BY <1>1
<1>3. Increasing(r[b])
  BY <1>2, OneEntry
<1>4. ASSUME NEW i \in 1 .. Len(rows[d])
      PROVE  Before(rows[d][i][b], r[b])
  <2>1. Below(rows[d][i][b], NextItem)
    BY RowIsBelow
  <2> QED BY <1>2, <2>1, BeforeNext
<1>5. PICK q \in Seq(Row) : q = rows[d]
  BY DEF STInv, STBase, STTypeOK
<1>6. AllBefore(b, q, r[b]) /\ InOrder(b, q)
  BY <1>4, <1>5 DEF AllBefore, STInv, STParts, Ordering
<1> HIDE DEF Row
<1>7. InOrder(b, Append(q, r))
  BY <1>1, <1>3, <1>5, <1>6, AppendRow
<1> QED BY <1>4, <1>5, <1>7

LEMMA AskOrdering ==
    ASSUME STInv, NEW c, NEW dst, NEW e, AskedOf(c, dst, e)
    PROVE  Ordering'
<1>1. STTypeOK /\ Ordering /\ ClosedIsEmpty
  BY DEF STInv, STBase, STParts
<1>2. /\ c \in Channels /\ NextItem \in Items /\ NextItem \in Nat
      /\ \A d \in Modules : (d \in Addressees(dst) /\ (Waits(d, c) \/ IsSent(d, c))) \/ IsSpared(d)
      /\ outbox' = outbox /\ SharedRuns' = SharedRuns
  BY DEF AskedOf
<1>3. ASSUME NEW d \in Modules, NEW b \in Channels
      PROVE  InOrder(b, outbox'[d]) /\ InOrder(b, rows'[d])
  <2>1. InOrder(b, outbox[d]) /\ InOrder(b, rows[d])
    BY <1>1 DEF Ordering
  <2>2. CASE IsSent(d, c)
    <3>1. PICK r : r = MessageRow(NextItem)
      OBVIOUS
    <3>2. InOrder(b, Append(rows[d], r))
      BY <1>2, <3>1, MessageInOrder
    <3> QED BY <1>2, <2>1, <2>2, <3>1, <3>2 DEF IsSent
  <2> QED BY <1>2, <2>1, <2>2 DEF Waits, IsSpared
<1>4. ASSUME SharedRuns, NEW d \in Modules, NEW b \in Channels
      PROVE  Increasing(Waiting(d)'[b]) /\ AllBefore(b, rows'[d], Waiting(d)'[b])
  <2>1. Increasing(Waiting(d)[b]) /\ AllBefore(b, rows[d], Waiting(d)[b])
    BY <1>1, <1>4 DEF Ordering, WaitsInOrder
  <2>2. CASE IsSpared(d)
    BY <2>1, <2>2 DEF IsSpared
  <2>3. CASE IsSent(d, c)
    <3>1. Waiting(d)' = Waiting(d) /\ Waiting(d) = EmptyRow
      BY <1>1, <2>3, NothingWaits DEF IsSent
    <3>2. Waiting(d)'[b] = <<>>
      BY <3>1 DEF EmptyRow
    <3> QED BY <3>2, OneEntry DEF AllBefore
  <2>4. CASE Waits(d, c) /\ b # c
    <3>1. Waiting(d) \in [Channels -> Seq(Items)]
      BY <1>1, WaitingType DEF Row
    <3>2. Waiting(d)'[b] = Waiting(d)[b] /\ rows'[d] = rows[d]
      BY <2>4, <3>1 DEF Waits
    <3> QED BY <2>1, <3>2
  <2>5. CASE Waits(d, c) /\ b = c
    <3>1. Waiting(d) \in [Channels -> Seq(Items)] /\ \A s \in Seq(Items) : s \in Seq(Nat)
      BY <1>1, WaitingType, MaxItemsAssumption, SeqOfMore DEF Row, Items
    <3>2. PICK s \in Seq(Nat) : s = Waiting(d)[b]
      BY <3>1
    <3>3. Waiting(d)'[b] = Append(s, NextItem) /\ rows'[d] = rows[d]
      BY <2>5, <3>1, <3>2 DEF Waits
    <3>4. Below(s, NextItem)
      BY <1>4, <3>2, WaitingIsBelow
    <3>5. Increasing(Append(s, NextItem))
      BY <1>2, <2>1, <3>2, <3>4, AppendIncreasing DEF Below
    <3>6. ASSUME NEW i \in 1 .. Len(rows[d])
          PROVE  Before(rows[d][i][b], Append(s, NextItem))
      <4>1. Below(rows[d][i][b], NextItem)
        BY RowIsBelow
      <4>2. Before(rows[d][i][b], s)
        BY <2>1, <3>2 DEF AllBefore
      <4> QED BY <1>2, <4>1, <4>2, AppendBefore DEF Below
    <3> QED BY <3>3, <3>5, <3>6 DEF AllBefore
  <2> QED BY <1>2, <2>2, <2>3, <2>4, <2>5
<1>5. SharedRuns' => \A d \in Modules : WaitsInOrder(d)'
  BY <1>2, <1>4 DEF WaitsInOrder
<1> QED BY <1>3, <1>5 DEF Ordering

LEMMA AskFollowing ==
    ASSUME STInv, NEW c, NEW dst, NEW e, AskedOf(c, dst, e)
    PROVE  Following'
<1>1. STTypeOK /\ Following /\ IssuedIsKept /\ ClosedIsEmpty
  BY DEF STInv, STBase, STParts
<1>2. /\ c \in Channels /\ NextItem \in Items /\ NextItem \in Nat /\ e.n = NextItem
      /\ \A d \in Modules : (d \in Addressees(dst) /\ (Waits(d, c) \/ IsSent(d, c))) \/ IsSpared(d)
      /\ outbox' = outbox /\ committed' = committed
      /\ \A item \in issued' : item \in issued \/ item = e
  BY DEF AskedOf
<1>3. ASSUME NEW d \in Modules
      PROVE  FollowsIn(rows[d], d, issued')
  <2>1. FollowsIn(rows[d], d, issued)
    BY <1>1 DEF Following
  <2> SUFFICES ASSUME NEW j \in 1 .. Len(rows[d]), NEW k \in 1 .. Len(rows[d][j][Message]),
                      NEW v \in issued', ComesFirst(v, d, rows[d][j][Message][k])
               PROVE  \E i \in 1 .. j - 1 : Carries(rows[d][i], v)
    BY DEF FollowsIn
  <2>2. v # e
    <3>1. Message \in Channels
      BY ChannelKinds
    <3>2. Below(rows[d][j][Message], NextItem)
      BY <3>1, RowIsBelow
    <3>3. rows[d][j][Message][k] \in Nat
      <4>1. rows[d][j] \in Row
        <5>1. rows[d] \in Seq(Row)
          BY <1>1 DEF STTypeOK
        <5> QED BY <5>1, ElementOfSeq
      <4>2. rows[d][j][Message] \in Seq(Items)
        BY <3>1, <4>1 DEF Row
      <4>3. rows[d][j][Message][k] \in Items
        BY <4>2, ElementOfSeq
      <4> QED BY <4>3, MaxItemsAssumption DEF Items
    <3>4. rows[d][j][Message][k] < NextItem
      BY <3>2 DEF Below
    <3>5. v.n < rows[d][j][Message][k]
      BY DEF ComesFirst
    <3> QED BY <1>2, <3>3, <3>4, <3>5
  <2>3. v \in issued
    BY <1>2, <2>2
  <2> QED BY <2>1, <2>3 DEF FollowsIn
<1>4. ASSUME NEW d \in Modules, IsSent(d, c)
      PROVE  FollowsIn(rows'[d], d, issued')
  <2>1. PICK r \in Row : r = MessageRow(NextItem) /\ r[Message] = <<NextItem>>
    BY <1>2, RowOfMessage
  <2>2. rows'[d] = Append(rows[d], r) /\ ~regionUpdates.open
    BY <1>4, <2>1 DEF IsSent
  <2>3. PICK q \in Seq(Row) : q = rows[d]
    BY <1>1 DEF STTypeOK
  <2>4. ASSUME NEW k \in 1 .. Len(r[Message]), NEW v \in issued', ComesFirst(v, d, r[Message][k])
        PROVE  CarriedIn(q, v)
    <3>1. r[Message][k] = NextItem
      BY <2>1, OneEntry
    <3>2. v \in issued /\ d \in v.to /\ ~v.stranded /\ v.channel \in Channels
      BY <1>2, <2>4, <3>1, ChannelKinds DEF ComesFirst
    <3>3. CarriedIn(rows[d], v) \/ Holds(Waiting(d)[v.channel], v.n)
      BY <1>1, <3>2 DEF IssuedIsKept, Kept
    <3>4. Waiting(d) = EmptyRow
      BY <1>1, <2>2, NothingWaits
    <3>5. ~Holds(Waiting(d)[v.channel], v.n)
      <4>1. Waiting(d)[v.channel] = <<>>
        BY <3>2, <3>4 DEF EmptyRow
      <4> QED BY <4>1, OneEntry DEF Holds
    <3> QED BY <2>3, <3>3, <3>5
  <2>5. FollowsIn(q, d, issued')
    BY <1>3, <2>3
  <2> HIDE DEF Row
  <2>6. FollowsIn(Append(q, r), d, issued')
    BY <2>4, <2>5, AppendFollows
  <2> QED BY <2>2, <2>3, <2>6
<1>5. ASSUME NEW d \in Modules
      PROVE  FollowsIn(outbox'[d], d, committed') /\ FollowsIn(rows'[d], d, issued')
  BY <1>1, <1>2, <1>3, <1>4 DEF Following, Waits, IsSpared
<1> QED BY <1>5 DEF Following

LEMMA AskKeepsParts ==
    ASSUME STInv, NEW dst \in InterModuleDestination, NEW c, Asks(c, dst),
           dst.variant # "Region" \/ CanSend(Self, dst)
    PROVE  STParts'
<1>1. PICK e : AskedOf(c, dst, e)
  BY AskedItem
<1>2. Addressees(dst) \subseteq Modules
  BY AddresseesAreModules
<1>3. lastItem' = NextItem /\ outbox' = outbox /\ committed' = committed
  BY DEF Asks
<1>4. NothingIsLost'
  BY <1>3 DEF STInv, STParts, NothingIsLost, SentTo
<1> QED BY <1>1, <1>2, <1>3, <1>4, AskOwn, AskKept, AskNumbered, AskOrdering, AskFollowing
    DEF STParts

-----------------------------------------------------------------------------
(***************************************************************************)
(* The steps after which nothing has been asked for: calls, a transaction  *)
(* that is rolled back.                                                    *)
(***************************************************************************)
LEMMA NoRows ==
    ASSUME NEW d, NEW X
    PROVE  /\ RowsOwn(<<>>, d, X) /\ FollowsIn(<<>>, d, X)
           /\ \A c : InOrder(c, <<>>)
<1>1. 1 .. Len(<<>>) = {}
  OBVIOUS
<1> QED BY <1>1 DEF RowsOwn, FollowsIn, InOrder

LEMMA NothingWaitsInOrder ==
    ASSUME NEW d, Waiting(d)' = EmptyRow
    PROVE  WaitOwn(d)' /\ WaitsInOrder(d)'
<1>1. \A c \in Channels : Waiting(d)'[c] = <<>>
  BY DEF EmptyRow
<1>2. \A c \in Channels :
        IsOwn(Waiting(d)'[c], d, c, issued') /\ Increasing(Waiting(d)'[c])
  <2>1. 1 .. Len(<<>>) = {}
    OBVIOUS
  <2>2. ASSUME NEW c \in Channels, NEW s, s = <<>>
        PROVE  IsOwn(s, d, c, issued') /\ Increasing(s)
    BY <2>1, <2>2 DEF IsOwn, Increasing
  <2> QED BY <1>1, <2>2
<1>3. \A c \in Channels : AllBefore(c, rows'[d], Waiting(d)'[c])
  BY <1>1, OneEntry DEF AllBefore
<1> QED BY <1>2, <1>3 DEF WaitOwn, WaitsInOrder

LEMMA Afresh ==
    ASSUME STInv, issued' = {}, UNCHANGED <<outbox, committed, lastItem>>,
           (rows' = rows /\ issued = {}) \/ rows' = Nothing,
           SharedRuns' => \A d \in Modules : Waiting(d)' = EmptyRow
    PROVE  STParts'
<1>1. Own /\ NothingIsLost /\ Numbered /\ Ordering /\ Following
  BY DEF STInv, STParts
<1>2. ASSUME NEW d \in Modules
      PROVE  /\ RowsOwn(rows'[d], d, issued') /\ FollowsIn(rows'[d], d, issued')
             /\ \A c \in Channels : InOrder(c, rows'[d])
  <2>1. CASE rows' = rows /\ issued = {}
    BY <1>1, <2>1 DEF Own, Ordering, Following
  <2>2. CASE rows' = Nothing
    <3>1. rows'[d] = <<>>
      BY <2>2 DEF Nothing
    <3> QED BY <3>1, NoRows
  <2> QED BY <2>1, <2>2
<1>3. SharedRuns' => \A d \in Modules : WaitOwn(d)' /\ WaitsInOrder(d)'
  BY NothingWaitsInOrder
<1>4. Own' /\ Ordering' /\ Following'
  BY <1>1, <1>2, <1>3 DEF Own, Ordering, Following
<1>5. NothingIsLost'
  BY <1>1 DEF NothingIsLost, SentTo
<1>6. IssuedIsKept' /\ Numbered'
  BY <1>1 DEF IssuedIsKept, Numbered
<1> QED BY <1>4, <1>5, <1>6 DEF STParts

LEMMA CallKeepsParts ==
    ASSUME STInv, CallNested \/ \E shared \in BOOLEAN : CallReducer(shared)
    PROVE  STParts'
<1>1. issued = {} /\ UNCHANGED <<rows, outbox, issued, committed, lastItem>>
  BY DEF STInv, STBase, NothingBetween, CallNested, CallReducer
<1>2. SharedRuns' => BeginSharedTransaction
  <2>1. ASSUME NEW shared \in BOOLEAN, CallReducer(shared), SharedRuns'
        PROVE  BeginSharedTransaction
    <3>1. stack' = <<shared>>
      BY <2>1 DEF CallReducer
    <3>2. shared
      BY <2>1, <3>1 DEF SharedRuns
    <3> QED BY <2>1, <3>2 DEF CallReducer
  <2> QED BY <2>1 DEF CallNested
<1>3. SharedRuns' => \A d \in Modules : Waiting(d)' = EmptyRow
  BY <1>2, NothingWaits
<1> QED BY <1>1, <1>3, Afresh

LEMMA EndKeepsParts ==
    ASSUME STInv, Fail \/ Panic
    PROVE  STParts'
<1>1. issued' = {} /\ rows' = Nothing /\ stack' = <<>> /\ UNCHANGED <<outbox, committed, lastItem>>
  BY DEF Fail, Panic, Return, EndTransaction
<1>2. ~SharedRuns'
  BY <1>1 DEF SharedRuns
<1> QED BY <1>1, <1>2, Afresh

(***************************************************************************)
(* A nested function returns: its flush is what the reducer has now.       *)
(***************************************************************************)
LEMMA ReturnNestedKeepsParts ==
    ASSUME STInv, ReturnNested
    PROVE  STParts'
<1>1. /\ UNCHANGED <<outbox, issued, committed, lastItem>> /\ rows' = Flushed
      /\ CloseAccumulators /\ Len(stack) = 2
  BY DEF ReturnNested
<1>2. Own /\ NothingIsLost /\ Numbered /\ Ordering /\ Following /\ STTypeOK
  BY DEF STInv, STBase, STParts
<1>3. SharedRuns
  <2>1. stack[2] /\ 2 \in 1 .. Len(stack)
    BY <1>1 DEF STInv, STBase, StackOK
  <2> QED BY <2>1 DEF SharedRuns
<1>4. \A d \in Modules : RowsGood(rows'[d], d)
  BY <1>1, <1>3, FlushedIsGood
<1>5. \A d \in Modules : WaitOwn(d)' /\ WaitsInOrder(d)'
  BY <1>1, NothingWaits, NothingWaitsInOrder
<1>6. Own' /\ Ordering' /\ Following'
  BY <1>1, <1>2, <1>4, <1>5 DEF Own, Ordering, Following, RowsGood
<1>7. NothingIsLost' /\ Numbered'
  BY <1>1, <1>2 DEF NothingIsLost, SentTo, Numbered
<1>8. IssuedIsKept'
  <2> SUFFICES ASSUME NEW item \in issued, ~item.stranded, NEW d \in item.to
               PROVE  CarriedIn(rows'[d], item)
    BY <1>1 DEF IssuedIsKept, Kept
  <2>1. d \in Modules
    BY <1>2 DEF STTypeOK, Item
  <2> QED BY <1>4, <2>1 DEF RowsGood, RowsComplete
<1> QED BY <1>6, <1>7, <1>8 DEF STParts

(***************************************************************************)
(* The transaction commits: its rows go behind those in the outbox.        *)
(***************************************************************************)
LEMMA ConcatShape ==
    ASSUME NEW S, NEW p \in Seq(S), NEW q \in Seq(S)
    PROVE  /\ Len(p) \in Nat
           /\ \A i \in 1 .. Len(p) : i \in 1 .. Len(p \o q) /\ (p \o q)[i] = p[i]
           /\ \A i \in 1 .. Len(q) : Len(p) + i \in 1 .. Len(p \o q) /\ (p \o q)[Len(p) + i] = q[i]
           /\ \A i \in 1 .. Len(p \o q) :
                i \in 1 .. Len(p) \/ (i - Len(p) \in 1 .. Len(q) /\ (p \o q)[i] = q[i - Len(p)])
<1> DEFINE a == p \o q
           L == Len(p)
           M == Len(q)
<1>1. /\ L \in Nat /\ M \in Nat /\ Len(a) = L + M
      /\ \A i \in 1 .. L : a[i] = p[i]
      /\ \A i \in 1 .. M : a[L + i] = q[i]
  BY ConcatParts
<1> HIDE DEF a, L, M
<1>2. ASSUME NEW i \in 1 .. Len(a), i \notin 1 .. L
      PROVE  i - L \in 1 .. M /\ a[i] = q[i - L]
  <2>1. i - L \in 1 .. M /\ L + (i - L) = i
    BY <1>1, <1>2
  <2> QED BY <1>1, <2>1
<1>3. /\ \A i \in 1 .. L : i \in 1 .. Len(a)
      /\ \A i \in 1 .. M : L + i \in 1 .. Len(a)
  BY <1>1
<1> QED BY <1>1, <1>2, <1>3 DEF a, L, M

LEMMA ConcatRows ==
    ASSUME NEW S, NEW p \in Seq(S), NEW q \in Seq(S)
    PROVE  /\ \A d, X : RowsOwn(p, d, X) /\ RowsOwn(q, d, X) => RowsOwn(p \o q, d, X)
           /\ \A u : CarriedIn(p, u) \/ CarriedIn(q, u) => CarriedIn(p \o q, u)
           /\ \A c : /\ InOrder(c, p) /\ InOrder(c, q)
                     /\ \A i \in 1 .. Len(p), j \in 1 .. Len(q) : Before(p[i][c], q[j][c])
                => InOrder(c, p \o q)
           /\ \A d, X : /\ FollowsIn(p, d, X)
                        /\ \A j \in 1 .. Len(q) : \A k \in 1 .. Len(q[j][Message]) : \A u \in X :
                             ComesFirst(u, d, q[j][Message][k]) =>
                                CarriedIn(p, u) \/ \E i \in 1 .. j - 1 : Carries(q[i], u)
                => FollowsIn(p \o q, d, X)
<1> DEFINE a == p \o q
           L == Len(p)
<1>1. /\ L \in Nat
      /\ \A i \in 1 .. L : i \in 1 .. Len(a) /\ a[i] = p[i]
      /\ \A i \in 1 .. Len(q) : L + i \in 1 .. Len(a) /\ a[L + i] = q[i]
      /\ \A i \in 1 .. Len(a) : i \in 1 .. L \/ (i - L \in 1 .. Len(q) /\ a[i] = q[i - L])
  BY ConcatShape
<1> HIDE DEF a
<1>2. \A d, X : RowsOwn(p, d, X) /\ RowsOwn(q, d, X) => RowsOwn(a, d, X)
  BY <1>1 DEF RowsOwn
<1>3. \A u : CarriedIn(p, u) \/ CarriedIn(q, u) => CarriedIn(a, u)
  BY <1>1 DEF CarriedIn
<1>4. ASSUME NEW c, InOrder(c, p), InOrder(c, q),
             \A i \in 1 .. Len(p), j \in 1 .. Len(q) : Before(p[i][c], q[j][c])
      PROVE  InOrder(c, a)
  <2>1. \A i \in 1 .. Len(a) : Increasing(a[i][c])
    BY <1>1, <1>4 DEF InOrder
  <2>2. ASSUME NEW i \in 1 .. Len(a), NEW j \in 1 .. Len(a), i < j
        PROVE  Before(a[i][c], a[j][c])
    <3>1. CASE j \in 1 .. L
      <4>1. i \in 1 .. L
        BY <1>1, <2>2, <3>1
      <4> QED BY <1>1, <1>4, <2>2, <3>1, <4>1 DEF InOrder
    <3>2. CASE j \notin 1 .. L /\ i \in 1 .. L
      BY <1>1, <1>4, <3>2
    <3>3. CASE j \notin 1 .. L /\ i \notin 1 .. L
      <4>1. i - L < j - L
        BY <1>1, <2>2
      <4> QED BY <1>1, <1>4, <3>3, <4>1 DEF InOrder
    <3> QED BY <3>1, <3>2, <3>3
  <2> QED BY <2>1, <2>2 DEF InOrder
<1>5. ASSUME NEW d, NEW X, FollowsIn(p, d, X),
             \A j \in 1 .. Len(q) : \A k \in 1 .. Len(q[j][Message]) : \A u \in X :
                ComesFirst(u, d, q[j][Message][k]) =>
                    CarriedIn(p, u) \/ \E i \in 1 .. j - 1 : Carries(q[i], u)
      PROVE  FollowsIn(a, d, X)
  <2> SUFFICES ASSUME NEW j \in 1 .. Len(a), NEW k \in 1 .. Len(a[j][Message]), NEW u \in X,
                      ComesFirst(u, d, a[j][Message][k])
               PROVE  \E i \in 1 .. j - 1 : Carries(a[i], u)
    BY DEF FollowsIn
  <2>1. CASE j \in 1 .. L
    <3>1. PICK i \in 1 .. j - 1 : Carries(p[i], u)
      BY <1>1, <1>5, <2>1 DEF FollowsIn
    <3>2. i \in 1 .. L
      BY <1>1, <2>1
    <3> QED BY <1>1, <3>1, <3>2
  <2>2. CASE j \notin 1 .. L
    <3>1. PICK m \in 1 .. Len(q) : m = j - L /\ a[j] = q[m]
      BY <1>1, <2>2
    <3>2. CASE CarriedIn(p, u)
      <4>1. PICK i \in 1 .. L : Carries(p[i], u)
        BY <3>2 DEF CarriedIn
      <4>2. i \in 1 .. j - 1
        BY <1>1, <2>2
      <4> QED BY <1>1, <4>1, <4>2
    <3>3. ASSUME NEW i \in 1 .. m - 1, Carries(q[i], u)
          PROVE  \E n \in 1 .. j - 1 : Carries(a[n], u)
      <4>1. i \in 1 .. Len(q) /\ L + i \in 1 .. j - 1
        BY <1>1, <3>1
      <4> QED BY <1>1, <3>3, <4>1
    <3> QED BY <1>5, <3>1, <3>2, <3>3
  <2> QED BY <2>1, <2>2
<1> QED BY <1>2, <1>3, <1>4, <1>5 DEF a

LEMMA ReturnedRowsAreGood ==
    ASSUME STInv, Len(stack) = 1, NEW d \in Modules
    PROVE  RowsGood(RowsOnReturn[d], d)
<1>1. CASE stack[1]
  <2>1. SharedRuns
    BY <1>1 DEF SharedRuns
  <2> QED BY <1>1, <2>1, FlushedIsGood DEF RowsOnReturn
<1>2. CASE ~stack[1]
  <2>1. ~SharedRuns
    BY <1>2 DEF SharedRuns
  <2> QED BY <1>2, <2>1, RowsAreGood DEF RowsOnReturn
<1> QED BY <1>1, <1>2

LEMMA CommitAt ==
    ASSUME STInv, Commit, NEW d \in Modules
    PROVE  /\ RowsOwn(outbox'[d], d, committed') /\ FollowsIn(outbox'[d], d, committed')
           /\ \A c \in Channels : InOrder(c, outbox'[d])
           /\ \A item \in committed' : ~item.stranded /\ d \in item.to => CarriedIn(outbox'[d], item)
<1>1. Len(stack) = 1 /\ outbox'[d] = outbox[d] \o RowsOnReturn[d] /\ committed' = committed \cup issued
  BY DEF Commit, Return
<1>2. PICK q : q = RowsOnReturn[d]
  OBVIOUS
<1>3. RowsGood(q, d)
  BY <1>1, <1>2, ReturnedRowsAreGood
<1>4. PICK p : p = outbox[d]
  OBVIOUS
<1>5. Own /\ NothingIsLost /\ Numbered /\ Ordering /\ Following /\ STTypeOK
  BY DEF STInv, STBase, STParts
<1>6. /\ p \in Seq(Row) /\ RowsOwn(p, d, committed) /\ FollowsIn(p, d, committed)
      /\ \A c \in Channels : InOrder(c, p)
  BY <1>4, <1>5 DEF STTypeOK, Own, Following, Ordering
<1>7. /\ q \in Seq(Row) /\ RowsOwn(q, d, issued) /\ FollowsIn(q, d, issued)
      /\ \A c \in Channels : InOrder(c, q)
  BY <1>3 DEF RowsGood
<1>8. PICK a : a = p \o q
  OBVIOUS
<1>9. outbox'[d] = a
  BY <1>1, <1>2, <1>4, <1>8
<1>10. /\ \A item \in issued \cup committed : item.n \in Nat
       /\ \A old \in committed, item \in issued : old.n < item.n
  BY <1>5, ItemNumbers DEF Numbered
<1>11. p \in Seq(Row) /\ q \in Seq(Row)
  BY <1>6, <1>7
<1> HIDE DEF Row
<1>12. RowsOwn(a, d, committed')
  <2>1. RowsOwn(p, d, committed') /\ RowsOwn(q, d, committed')
    BY <1>1, <1>6, <1>7, MoreOwn
  <2> QED BY <1>8, <1>11, <2>1, ConcatRows
<1>13. ASSUME NEW c \in Channels
       PROVE  InOrder(c, a)
  <2>1. ASSUME NEW i \in 1 .. Len(p), NEW j \in 1 .. Len(q)
        PROVE  Before(p[i][c], q[j][c])
    <3> SUFFICES ASSUME NEW k \in 1 .. Len(p[i][c]), NEW l \in 1 .. Len(q[j][c])
                 PROVE  p[i][c][k] < q[j][c][l]
      BY DEF Before
    <3>1. PICK old \in committed : old.n = p[i][c][k]
      BY <1>6 DEF RowsOwn, IsOwn
    <3>2. PICK item \in issued : item.n = q[j][c][l]
      BY <1>7 DEF RowsOwn, IsOwn
    <3> QED BY <1>10, <3>1, <3>2
  <2> QED BY <1>6, <1>7, <1>8, <1>11, <2>1, ConcatRows
<1>14. ASSUME NEW u \in committed, ~u.stranded, d \in u.to
       PROVE  CarriedIn(p, u)
  BY <1>4, <1>5, <1>14 DEF NothingIsLost, SentTo, CarriedIn
<1>15. FollowsIn(a, d, committed')
  <2>1. FollowsIn(p, d, committed')
    <3> SUFFICES ASSUME NEW j \in 1 .. Len(p), NEW k \in 1 .. Len(p[j][Message]), NEW u \in committed',
                        ComesFirst(u, d, p[j][Message][k])
                 PROVE  \E i \in 1 .. j - 1 : Carries(p[i], u)
      BY DEF FollowsIn
    <3>1. PICK old \in committed : old.n = p[j][Message][k]
      BY <1>6, ChannelKinds DEF RowsOwn, IsOwn
    <3>2. u \notin issued
      BY <1>10, <3>1 DEF ComesFirst
    <3>3. u \in committed
      BY <1>1, <3>2
    <3> QED BY <1>6, <3>3 DEF FollowsIn
  <2>2. ASSUME NEW j \in 1 .. Len(q), NEW k \in 1 .. Len(q[j][Message]), NEW u \in committed',
               ComesFirst(u, d, q[j][Message][k])
        PROVE  CarriedIn(p, u) \/ \E i \in 1 .. j - 1 : Carries(q[i], u)
    <3>1. CASE u \in committed
      BY <1>14, <2>2, <3>1 DEF ComesFirst
    <3>2. CASE u \in issued
      BY <1>7, <2>2, <3>2 DEF FollowsIn
    <3> QED BY <1>1, <3>1, <3>2
  <2> QED BY <1>8, <1>11, <2>1, <2>2, ConcatRows
<1>16. ASSUME NEW item \in committed', ~item.stranded, d \in item.to
       PROVE  CarriedIn(a, item)
  <2>1. CarriedIn(p, item) \/ CarriedIn(q, item)
    BY <1>1, <1>3, <1>14, <1>16 DEF RowsGood, RowsComplete
  <2> QED BY <1>8, <1>11, <2>1, ConcatRows
<1> QED BY <1>9, <1>12, <1>13, <1>15, <1>16

LEMMA CommitKeepsParts ==
    ASSUME STInv, Commit
    PROVE  STParts'
<1>1. /\ stack' = <<>> /\ rows' = Nothing /\ issued' = {} /\ lastItem' = lastItem
      /\ committed' = committed \cup issued
  BY DEF Commit, Return, EndTransaction
<1>2. ~SharedRuns'
  BY <1>1 DEF SharedRuns
<1>3. ASSUME NEW d \in Modules
      PROVE  /\ RowsOwn(rows'[d], d, issued') /\ FollowsIn(rows'[d], d, issued')
             /\ \A c \in Channels : InOrder(c, rows'[d])
  <2>1. rows'[d] = <<>>
    BY <1>1 DEF Nothing
  <2> QED BY <2>1, NoRows
<1>4. Own' /\ Ordering' /\ Following'
  BY <1>2, <1>3, CommitAt DEF Own, Ordering, Following
<1>5. NothingIsLost'
  <2> SUFFICES ASSUME NEW item \in committed', ~item.stranded, NEW d \in item.to
               PROVE  CarriedIn(outbox'[d], item)
    BY DEF NothingIsLost, SentTo, CarriedIn
  <2>1. d \in Modules
    BY <1>1 DEF STInv, STBase, STTypeOK, Item
  <2> QED BY <2>1, CommitAt
<1>6. IssuedIsKept' /\ Numbered'
  BY <1>1 DEF IssuedIsKept, Numbered, STInv, STParts
<1> QED BY <1>4, <1>5, <1>6 DEF STParts

LEMMA UnchangedKeepsParts ==
    ASSUME STInv, UNCHANGED stVars
    PROVE  STParts'
<1>1. UNCHANGED <<globalUpdates, regionUpdates, delayed, stack, rows, outbox, issued, committed, lastItem>>
  BY DEF stVars, instanceVars
<1>2. SharedRuns' = SharedRuns /\ \A d \in Modules : Waiting(d)' = Waiting(d)
  BY <1>1 DEF SharedRuns, Waiting, Updates
<1>3. Own' /\ Ordering' /\ Following' /\ IssuedIsKept' /\ Numbered' /\ NothingIsLost'
  BY <1>1, <1>2
     DEF STInv, STBase, STTypeOK, Item, STParts, Own, Ordering, Following, IssuedIsKept, Numbered,
         NothingIsLost, SentTo, WaitOwn, WaitsInOrder, Kept
<1> QED BY <1>3 DEF STParts

-----------------------------------------------------------------------------
LEMMA InvInit == STInit => STInv
<1> SUFFICES ASSUME STInit PROVE STInv
  OBVIOUS
<1>1. STBase
  BY BaseInit
<1>2. /\ issued = {} /\ committed = {} /\ stack = <<>> /\ rows = Nothing /\ outbox = Nothing
  BY DEF STInit
<1>3. ~SharedRuns
  BY <1>2 DEF SharedRuns
<1>4. ASSUME NEW d \in Modules
      PROVE  /\ RowsOwn(rows[d], d, issued) /\ FollowsIn(rows[d], d, issued)
             /\ RowsOwn(outbox[d], d, committed) /\ FollowsIn(outbox[d], d, committed)
             /\ \A c \in Channels : InOrder(c, rows[d]) /\ InOrder(c, outbox[d])
  <2>1. rows[d] = <<>> /\ outbox[d] = <<>>
    BY <1>2 DEF Nothing
  <2> QED BY <2>1, NoRows
<1>5. Own /\ Ordering /\ Following
  BY <1>3, <1>4 DEF Own, Ordering, Following
<1>6. NothingIsLost /\ IssuedIsKept /\ Numbered
  BY <1>2 DEF NothingIsLost, IssuedIsKept, Numbered
<1> QED BY <1>1, <1>5, <1>6 DEF STInv, STParts

LEMMA InvNext == STInv /\ [STNext]_stVars => STInv'
<1> SUFFICES ASSUME STInv, [STNext]_stVars
             PROVE  STInv'
  OBVIOUS
<1>1. STBase'
  BY BaseNext DEF STInv
<1>2. ASSUME NEW dst \in InterModuleDestination,
             (\E table \in Tables : TableOperation(table, dst)) \/ SendMessage(dst)
      PROVE  STParts'
  <2>1. ASSUME NEW table \in Tables, TableOperation(table, dst)
        PROVE  STParts'
    <3>1. Asks(table, dst)
      BY <2>1, OperationAsks DEF STInv
    <3>2. dst.variant # "Region"
      BY <2>1 DEF TableOperation
    <3> QED BY <3>1, <3>2, AskKeepsParts
  <2>2. ASSUME SendMessage(dst)
        PROVE  STParts'
    <3>1. Asks(Message, dst)
      BY <2>2, MessageAsks DEF STInv
    <3>2. CanSend(Self, dst)
      BY <2>2 DEF SendMessage
    <3> QED BY <3>1, <3>2, AskKeepsParts
  <2> QED BY <1>2, <2>1, <2>2
<1>3. STParts'
  BY <1>2, CallKeepsParts, EndKeepsParts, ReturnNestedKeepsParts, CommitKeepsParts,
     UnchangedKeepsParts DEF STNext
<1> QED BY <1>1, <1>3 DEF STInv

(***************************************************************************)
(* The outbox has nothing but what committed transactions asked for, for   *)
(* the modules they asked for, even when an instance is used again after a *)
(* panic with its accumulators still open (begin_shared_transaction).      *)
(***************************************************************************)
THEOREM NothingForeignIsSent == STSpec => []NothingForeign
<1>1. STInit => STInv
  BY InvInit
<1>2. STInv /\ [STNext]_stVars => STInv'
  BY InvNext
<1>3. STInv => NothingForeign
  BY DEF STInv, STParts, Own, RowsOwn, IsOwn, NothingForeign
<1> QED BY <1>1, <1>2, <1>3, PTL DEF STSpec

(***************************************************************************)
(* Whatever a committed transaction asked for is in the outbox for every   *)
(* module it concerns (send_shared_transaction), whether its functions     *)
(* nest or not and whatever panics have left in the instance; but for what *)
(* a reducer that is not a shared one asks for after such a panic.         *)
(***************************************************************************)
THEOREM NothingGetsLost == STSpec => []NothingIsLost
<1>1. STInit => STInv
  BY InvInit
<1>2. STInv /\ [STNext]_stVars => STInv'
  BY InvNext
<1>3. STInv => NothingIsLost
  BY DEF STInv, STParts
<1> QED BY <1>1, <1>2, <1>3, PTL DEF STSpec

(***************************************************************************)
(* The operations on one table for one module, and the messages for it,    *)
(* are in the outbox in the order in which they were asked for and once    *)
(* each, and a message is behind the operations made before it, whether    *)
(* messages wait behind the updates of one shared function, of two nested  *)
(* ones or of none (send_inter_module_message, send_shared_transaction),   *)
(* and whatever a panic has left in an instance.                           *)
(***************************************************************************)
THEOREM OutboxKeepsOrder == STSpec => []OutboxInOrder
<1>1. STInit => STInv
  BY InvInit
<1>2. STInv /\ [STNext]_stVars => STInv'
  BY InvNext
<1>3. STInv => OutboxInOrder
  <2>1. STInv => ChannelsInOrder
    <3>1. ASSUME NEW d \in Modules, NEW c \in Channels, InOrder(c, outbox[d]),
                 NEW i \in 1 .. Len(outbox[d]), NEW j \in 1 .. Len(outbox[d])
          PROVE  /\ Increasing(outbox[d][i][c])
                 /\ i < j => Before(outbox[d][i][c], outbox[d][j][c])
      BY <3>1 DEF InOrder
    <3>2. STInv => \A d \in Modules : \A c \in Channels : InOrder(c, outbox[d])
      BY DEF STInv, STParts, Ordering
    <3> QED BY <3>1, <3>2 DEF ChannelsInOrder, Increasing, Before
  <2>2. STInv => MessagesFollowUpdates
    BY DEF STInv, STParts, Following, FollowsIn, ComesFirst, MessagesFollowUpdates
  <2> QED BY <2>1, <2>2 DEF OutboxInOrder
<1> QED BY <1>1, <1>2, <1>3, PTL DEF STSpec

=============================================================================
