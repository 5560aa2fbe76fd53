------------------------- MODULE SharedTransaction -------------------------
(***************************************************************************)
(* What a reducer sends to other modules leaves in its transaction.  The   *)
(* operations on shared tables are collected in accumulators, variables of *)
(* the WASM instance; messages wait behind them; when a function with      *)
(* #[shared_table_reducer] returns, everything becomes rows of the outbox. *)
(* The transaction commits those rows or rolls them back, but it does not  *)
(* roll back the variables of the instance.                                *)
(*                                                                         *)
(* The rows are kept per addressed module here, in the order of their ids. *)
(* A row of the outbox is an update, which carries a list of operations    *)
(* for every shared table (InterModuleTableUpdates), or a message.  So a   *)
(* row is a sequence for each channel, the tables and the messages.        *)
(* Operations and messages are numbered in the order in which reducers ask *)
(* for them.                                                               *)
(***************************************************************************)
EXTENDS Destinations

CONSTANTS
    Self,                    \* the module
    Tables,                  \* the tables with #[shared_table]
    NestedCalls,             \* TRUE: such functions call each other
    InstanceSurvivesPanic,   \* TRUE: an instance may be used again after a panic
    MaxItems                 \* bound: operations and messages

ASSUME SelfAssumption == Self \in Modules
ASSUME TablesAssumption == "message" \notin Tables
ASSUME SwitchesAssumption == NestedCalls \in BOOLEAN /\ InstanceSurvivesPanic \in BOOLEAN
ASSUME MaxItemsAssumption == MaxItems \in Nat

VARIABLES
    globalUpdates,   \* TABLE_UPDATES_GLOBAL
    regionUpdates,   \* TABLE_UPDATES_OTHER_REGIONS
    delayed,         \* delayed[d]: DELAYED_MESSAGES for module d
    stack,           \* the functions being run: has each #[shared_table_reducer]?
    rows,            \* rows[d]: rows for module d that the transaction has inserted
    outbox,          \* outbox[d]: committed rows for module d
    issued,          \* ghost: what the transaction has asked for
    committed,       \* ghost: what committed transactions have asked for
    lastItem         \* number of the last operation or message

instanceVars == <<globalUpdates, regionUpdates, delayed>>
stVars == <<instanceVars, stack, rows, outbox, issued, committed, lastItem>>

-----------------------------------------------------------------------------

Items == 1 .. MaxItems
Message == "message"
Channels == Tables \cup {Message}

(***************************************************************************)
(* An item is stranded if no shared function runs and yet the accumulators *)
(* are open: a panic left them so, in an instance that is used again.      *)
(***************************************************************************)
Item == [n : Items, channel : Channels, to : SUBSET Modules, stranded : BOOLEAN]
Row == [Channels -> Seq(Items)]

(***************************************************************************)
(* InterModuleAccumulator: None is closed; Uninitialized is open and       *)
(* empty; Initialized is open and has operations.                          *)
(***************************************************************************)
InterModuleTableUpdates == [Tables -> Seq(Items)]
NoUpdates == [t \in Tables |-> <<>>]

InterModuleAccumulator == [open : BOOLEAN, updates : InterModuleTableUpdates]
None == [open |-> FALSE, updates |-> NoUpdates]
Uninitialized == [open |-> TRUE, updates |-> NoUpdates]

STTypeOK ==
    /\ globalUpdates \in InterModuleAccumulator
    /\ regionUpdates \in InterModuleAccumulator
    /\ delayed \in [Modules -> Seq(Items)]
    /\ stack \in Seq(BOOLEAN)
    /\ rows \in [Modules -> Seq(Row)]
    /\ outbox \in [Modules -> Seq(Row)]
    /\ issued \subseteq Item
    /\ committed \subseteq Item
    /\ lastItem \in 0 .. MaxItems

Nothing == [d \in Modules |-> <<>>]

STInit ==
    /\ globalUpdates = None
    /\ regionUpdates = None
    /\ delayed = Nothing
    /\ stack = <<>>
    /\ rows = Nothing
    /\ outbox = Nothing
    /\ issued = {}
    /\ committed = {}
    /\ lastItem = 0

-----------------------------------------------------------------------------
(***************************************************************************)
(* begin_shared_transaction overwrites what the instance holds.  The       *)
(* global module has no accumulator for itself.                            *)
(***************************************************************************)
\* mutant of BeginSharedTransaction: what the instance holds is kept
BeginAgain ==
    /\ globalUpdates' = [globalUpdates EXCEPT !.open = Self # Global]
    /\ regionUpdates' = [regionUpdates EXCEPT !.open = TRUE]
    /\ UNCHANGED delayed
BeginSharedTransaction ==
    /\ globalUpdates' = IF Self = Global THEN None ELSE Uninitialized
    /\ regionUpdates' = Uninitialized
    /\ delayed' = Nothing

(***************************************************************************)
(* A transaction starts with the call of a reducer; that reducer may call  *)
(* a function with #[shared_table_reducer] before it asks for anything     *)
(* itself (empire_player_join, player_housing_enter).                      *)
(***************************************************************************)
CallReducer(shared) ==
    /\ stack = <<>>
    /\ stack' = <<shared>>
    /\ IF shared THEN BeginSharedTransaction ELSE UNCHANGED instanceVars
    /\ UNCHANGED <<rows, outbox, issued, committed, lastItem>>

CallNested ==
    /\ NestedCalls /\ Len(stack) = 1 /\ issued = {}
    /\ stack' = Append(stack, TRUE)
    /\ BeginSharedTransaction
    /\ UNCHANGED <<rows, outbox, issued, committed, lastItem>>

-----------------------------------------------------------------------------

Addressees(dst) == {Recipients(Self, dst)[i] : i \in DOMAIN Recipients(Self, dst)}

\* mutant of NextItem: the number is not advanced
SameItem == lastItem
NextItem == lastItem + 1

SharedRuns == \E i \in 1 .. Len(stack) : stack[i]
Stranded == ~SharedRuns /\ regionUpdates.open

NewItem(channel, dst) ==
    [n |-> NextItem, channel |-> channel, to |-> Addressees(dst), stranded |-> Stranded]

Issue(channel, dst) ==
    /\ stack # <<>>
    /\ lastItem < MaxItems
    /\ lastItem' = NextItem
    /\ issued' = issued \cup {NewItem(channel, dst)}

\* one more operation on one table; the table's list is made with its first one
Collect(accumulator, table) ==
    [accumulator EXCEPT !.updates[table] = Append(@, NextItem)]

ToGlobal(dst) == dst.variant \in {"Global", "GlobalAndAllOtherRegions"}
ToOthers(dst) == dst.variant \in {"AllOtherRegions", "GlobalAndAllOtherRegions"}

(***************************************************************************)
(* insert_shared or delete_shared.  A table operation cannot be sent to    *)
(* one region, and it needs the accumulators open: otherwise it panics.    *)
(***************************************************************************)
TableOperation(table, dst) ==
    /\ dst.variant # "Region"
    /\ ToGlobal(dst) => globalUpdates.open
    /\ ToOthers(dst) => regionUpdates.open
    /\ Issue(table, dst)
    /\ globalUpdates' = IF ToGlobal(dst) THEN Collect(globalUpdates, table) ELSE globalUpdates
    /\ regionUpdates' = IF ToOthers(dst) THEN Collect(regionUpdates, table) ELSE regionUpdates
    /\ UNCHANGED <<delayed, stack, rows, outbox, committed>>

MessageRow(n) == [c \in Channels |-> IF c = Message THEN <<n>> ELSE <<>>]

\* one more entry for every addressee
Added(queues, dst, entry) ==
    [d \in Modules |-> IF d \in Addressees(dst) THEN Append(queues[d], entry) ELSE queues[d]]

(***************************************************************************)
(* send_inter_module_message: the message waits if the accumulator for the *)
(* regions is open, whoever opened it.  A message that cannot be sent      *)
(* panics, at the latest when it has waited long enough: that is Panic.    *)
(***************************************************************************)
MessagesWait == regionUpdates.open

SendMessage(dst) ==
    /\ CanSend(Self, dst)
    /\ Issue(Message, dst)
    /\ IF MessagesWait
       THEN delayed' = Added(delayed, dst, NextItem) /\ UNCHANGED rows
       ELSE rows' = Added(rows, dst, MessageRow(NextItem)) /\ UNCHANGED delayed
    /\ UNCHANGED <<globalUpdates, regionUpdates, stack, outbox, committed>>

-----------------------------------------------------------------------------
(***************************************************************************)
(* send_shared_transaction, on return from a shared function: one update   *)
(* row for every module with operations, then the delayed messages.        *)
(***************************************************************************)
\* mutant of Updates: the regions end at the module's own
UpdatesOfOthersForgotten(d) ==
    IF d = Global THEN globalUpdates.updates
    ELSE IF d < Self THEN regionUpdates.updates ELSE NoUpdates
Updates(d) ==
    IF d = Global THEN globalUpdates.updates
    ELSE IF d # Self THEN regionUpdates.updates ELSE NoUpdates

UpdateRow(d) == [c \in Channels |-> IF c = Message THEN <<>> ELSE Updates(d)[c]]
UpdateRows(d) == IF Updates(d) = NoUpdates THEN <<>> ELSE <<UpdateRow(d)>>

DelayedRows(d) == [i \in DOMAIN delayed[d] |-> MessageRow(delayed[d][i])]

\* mutant of Flushed: the delayed messages go first
FlushedMessagesFirst == [d \in Modules |-> rows[d] \o DelayedRows(d) \o UpdateRows(d)]
Flushed == [d \in Modules |-> rows[d] \o UpdateRows(d) \o DelayedRows(d)]

CloseAccumulators ==
    /\ globalUpdates' = None
    /\ regionUpdates' = None
    /\ delayed' = Nothing

ReturnNested ==
    /\ Len(stack) = 2
    /\ stack' = SubSeq(stack, 1, 1)
    /\ rows' = Flushed
    /\ CloseAccumulators
    /\ UNCHANGED <<outbox, issued, committed, lastItem>>

(***************************************************************************)
(* The reducer returns Ok and the transaction commits, or Err and it is    *)
(* rolled back.  In both cases the accumulators have been emptied if the   *)
(* reducer is a shared one.                                                *)
(***************************************************************************)
RowsOnReturn == IF stack[1] THEN Flushed ELSE rows

EndTransaction ==
    /\ stack' = <<>>
    /\ rows' = Nothing
    /\ issued' = {}
    /\ UNCHANGED lastItem

Return ==
    /\ Len(stack) = 1
    /\ IF stack[1] THEN CloseAccumulators ELSE UNCHANGED instanceVars
    /\ EndTransaction

Commit ==
    /\ Return
    /\ outbox' = [d \in Modules |-> outbox[d] \o RowsOnReturn[d]]
    /\ committed' = committed \cup issued

Fail == Return /\ UNCHANGED <<outbox, committed>>

(***************************************************************************)
(* The reducer panics: rolled back, and no destructor runs.  Its instance  *)
(* goes with it, or is used again as it is.                                *)
(***************************************************************************)
Panic ==
    /\ stack # <<>>
    /\ EndTransaction
    /\ \/ InstanceSurvivesPanic /\ UNCHANGED instanceVars
       \/ CloseAccumulators
    /\ UNCHANGED <<outbox, committed>>

STNext ==
    \/ \E shared \in BOOLEAN : CallReducer(shared)
    \/ CallNested
    \/ \E dst \in InterModuleDestination :
            (\E table \in Tables : TableOperation(table, dst)) \/ SendMessage(dst)
    \/ ReturnNested
    \/ Commit
    \/ Fail
    \/ Panic

STSpec == STInit /\ [][STNext]_stVars

-----------------------------------------------------------------------------

Carries(row, item) == \E k \in 1 .. Len(row[item.channel]) : row[item.channel][k] = item.n
SentTo(d, item) == \E i \in 1 .. Len(outbox[d]) : Carries(outbox[d][i], item)

(***************************************************************************)
(* Whatever a committed transaction did to shared tables, and whatever it  *)
(* sent, is in the outbox for every module it concerns: no replica and no  *)
(* message is forgotten (send_shared_transaction).  The exception are the  *)
(* messages of a reducer that is not a shared one, in an instance a panic  *)
(* left with open accumulators: they wait for a flush that does not come.  *)
(***************************************************************************)
NothingIsLost ==
    \A item \in committed : ~item.stranded => \A d \in item.to : SentTo(d, item)

(***************************************************************************)
(* The outbox has nothing but what committed transactions asked for, for   *)
(* the modules they asked for: what a rolled-back transaction has left in  *)
(* the instance is never sent in another one's name                        *)
(* (begin_shared_transaction clears it).                                   *)
(***************************************************************************)
NothingForeign ==
    \A d \in Modules : \A i \in 1 .. Len(outbox[d]) : \A c \in Channels :
        \A k \in 1 .. Len(outbox[d][i][c]) :
            \E item \in committed : /\ item.n = outbox[d][i][c][k]
                                    /\ item.channel = c /\ d \in item.to

(***************************************************************************)
(* The operations on one table, and the messages, for one module leave in  *)
(* the order in which they were asked for, and each of them once.          *)
(* Operations on different tables do not: a transaction's are sent table   *)
(* by table.                                                               *)
(***************************************************************************)
ChannelsInOrder ==
    \A d \in Modules : \A c \in Channels : \A i, j \in 1 .. Len(outbox[d]) :
        LET a == outbox[d][i][c]
            b == outbox[d][j][c]
        IN /\ \A k, l \in 1 .. Len(a) : k < l => a[k] < a[l]
           /\ i < j => \A k \in 1 .. Len(a), l \in 1 .. Len(b) : a[k] < b[l]

(***************************************************************************)
(* A message finds at its destination the table operations that were made  *)
(* before it was sent, by its own reducer too: they are in rows with lower *)
(* ids (messages wait behind the updates).                                 *)
(***************************************************************************)
MessagesFollowUpdates ==
    \A d \in Modules : \A j \in 1 .. Len(outbox[d]) : \A k \in 1 .. Len(outbox[d][j][Message]) :
        \A u \in committed :
            u.channel \in Tables /\ d \in u.to /\ ~u.stranded /\ u.n < outbox[d][j][Message][k]
                => \E i \in 1 .. j - 1 : Carries(outbox[d][i], u)

(***************************************************************************)
(* What leaves, leaves in order: within a channel, and messages after what *)
(* they are about.                                                         *)
(***************************************************************************)
OutboxInOrder == ChannelsInOrder /\ MessagesFollowUpdates

=============================================================================
