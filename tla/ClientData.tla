----------------------------- MODULE ClientData -----------------------------
(***************************************************************************)
(* What the client keeps of the module's tables: the subscriptions, the    *)
(* cache of every table, the batch of updates for the program, and the     *)
(* loader of the static data.  SubscriptionManager passes on the events of *)
(* the SDK's tables; TableManager, the batch and the loads listen to it.   *)
(*                                                                         *)
(* As in Connection, a function of one task maps the state, d, to the      *)
(* state after it.  Connections overlap: one that is replaced, given up or *)
(* told to close still reports until its socket has closed.  The SDK's     *)
(* side of a connection, rows, is external: it holds what the server has   *)
(* sent, and tells whoever listens.  A row is a version under its id.      *)
(***************************************************************************)
EXTENDS Integers, FiniteSets, SequencesExt

CONSTANTS
    Batches,            \* STATIC_DATA_TABLES, cut into sequences of BATCH_SIZE
    RowIds,
    MaxSubscriptions,   \* MAX_SUBSCRIPTIONS
    MaxCacheSize,       \* MAX_CACHE_SIZE_PER_TABLE
    MaxRetries,         \* MAX_RETRIES
    MaxSessions,        \* bound: connections
    MaxSubscribes,      \* bound: calls of subscribe()
    MaxLoads,           \* bound: calls of load() that do load
    MaxRowChanges,      \* bound: rows that the server inserts, changes or deletes
    MaxMeasurements,    \* maxMeasurements
    Latencies           \* that are measured

StaticTables == UNION {ToSet(Batches[i]) : i \in DOMAIN Batches}

ASSUME BatchesAssumption ==
    /\ Batches # <<>> /\ Batches \in Seq(Seq(StaticTables))
    /\ \A i, j \in DOMAIN Batches : i # j => ToSet(Batches[i]) \cap ToSet(Batches[j]) = {}
ASSUME RetriesAssumption == MaxRetries \in Nat \ {0} /\ MaxLoads \in Nat
ASSUME SizesAssumption == MaxCacheSize \in Nat \ {0} /\ MaxMeasurements \in Nat \ {0}
ASSUME DataBoundsAssumption ==
    IsFiniteSet(RowIds) /\ MaxSessions \in Nat /\ MaxSubscribes \in Nat /\ MaxRowChanges \in Nat

Sessions == 1 .. MaxSessions
LoadIds == 1 .. MaxLoads

VARIABLES
    data,
    changes,   \* of rows, so far
    latency    \* the LatencyMonitor

dataVars == <<data, changes, latency>>

Absent == 0
NoRows == [t \in StaticTables |-> [id \in RowIds |-> Absent]]

Versions == 0 .. MaxRowChanges
Entries == [id : RowIds, version : Versions]
Waits == [phase : {"later", "waiting", "sleeping", "loaded", "failed"},
          retries : 0 .. MaxRetries, handle : Nat]
LoadRecords == [batch : 0 .. Len(Batches) + 1, of : [StaticTables -> Waits]]

DataRecords ==
    [db : 0 .. MaxSessions,                     \* dbConnection, 0 if null
     opened : 0 .. MaxSessions,                 \* connections so far
     connectionState : {"disconnected", "connecting", "connected", "failed"},
     socket : [Sessions -> {"opening", "open", "closed"}],
     pending : SUBSET Sessions,                 \* whose connect() has not settled
     rows : [Sessions -> [StaticTables -> [RowIds -> Versions]]],
     listening : [Sessions -> SUBSET StaticTables],      \* _listenersSetUp
     snapshots : Seq(Sessions \X StaticTables),  \* timers, in the order they fire
     subscriptions : SUBSET Nat,
     nextSubscriptionId : Nat,
     tables : [StaticTables -> Seq(Entries)],   \* of TableManager, oldest row first
     evicted : SUBSET StaticTables,             \* ghost: tables that had no room
     disturbed : SUBSET StaticTables,           \* ghost: changed by another than db
     state : {"idle", "loading", "loaded"},
     cache : SUBSET StaticTables,
     failedTables : SUBSET StaticTables,
     cleared : BOOLEAN,                         \* ghost: clear() during a load
     loads : [LoadIds -> LoadRecords],
     pendingUpdates : BOOLEAN,
     updateTimer : BOOLEAN]

DTypeOK ==
    /\ data \in DataRecords
    /\ changes \in Versions
    /\ latency.measurements \in BoundedSeq(Latencies, MaxMeasurements)

DInit ==
    /\ data = [db |-> 0, opened |-> 0, connectionState |-> "disconnected",
               socket |-> [s \in Sessions |-> "closed"], pending |-> {},
               rows |-> [s \in Sessions |-> NoRows],
               listening |-> [s \in Sessions |-> {}], snapshots |-> <<>>,
               subscriptions |-> {}, nextSubscriptionId |-> 1,
               tables |-> [t \in StaticTables |-> <<>>], evicted |-> {}, disturbed |-> {},
               state |-> "idle", cache |-> {}, failedTables |-> {}, cleared |-> FALSE,
               loads |-> [l \in LoadIds |->
                   [batch |-> 0,
                    of |-> [t \in StaticTables |-> [phase |-> "later", retries |-> 0, handle |-> 0]]]],
               pendingUpdates |-> FALSE, updateTimer |-> FALSE]
    /\ changes = 0
    /\ latency = [measurements |-> <<>>, sortedCache |-> <<>>, cached |-> FALSE]

-----------------------------------------------------------------------------
(***************************************************************************)
(* TableAccessor.  A Map keeps its keys in the order of their insertion.   *)
(***************************************************************************)
Entry(id, version) == [id |-> id, version |-> version]
IdsIn(table) == {table[i].id : i \in DOMAIN table}

Upserted(table, entry) ==
    IF entry.id \in IdsIn(table)
    THEN [i \in DOMAIN table |-> IF table[i].id = entry.id THEN entry ELSE table[i]]
    ELSE Append(IF Len(table) >= MaxCacheSize THEN Tail(table) ELSE table, entry)

Deleted(table, id) ==
    IF id \notin IdsIn(table) THEN table
    ELSE LET at == CHOOSE i \in DOMAIN table : table[i].id = id
         IN [i \in 1 .. Len(table) - 1 |-> table[IF i < at THEN i ELSE i + 1]]

AllOf(rows) ==
    LET present == {id \in RowIds : rows[id] # Absent}
    IN [i \in 1 .. Cardinality(present) |->
           Entry(SetToSeq(present)[i], rows[SetToSeq(present)[i]])]

(***************************************************************************)
(* recordUpdate: the first update of a batch starts the timer.             *)
(***************************************************************************)
Recorded(d) == [d EXCEPT !.pendingUpdates = TRUE, !.updateTimer = TRUE]

-----------------------------------------------------------------------------
(***************************************************************************)
(* subscribe(): the listeners of a table are set up once for a connection, *)
(* with a timer for the snapshot; a second subscription gets none.         *)
(***************************************************************************)
CanSubscribe(d) == Cardinality(d.subscriptions) < MaxSubscriptions /\ d.db # 0

\* mutant of Subscribed: the flag of the listeners is not one of the connection
SubscribedOnce(d, t) ==
    LET known == \E s \in Sessions : t \in d.listening[s] IN
    [d EXCEPT !.subscriptions = @ \cup {d.nextSubscriptionId},
              !.nextSubscriptionId = @ + 1,
              !.listening[d.db] = @ \cup {t},
              !.snapshots = IF known THEN @ ELSE Append(@, <<d.db, t>>)]
Subscribed(d, t) ==
    [d EXCEPT !.subscriptions = @ \cup {d.nextSubscriptionId},
              !.nextSubscriptionId = @ + 1,
              !.listening[d.db] = @ \cup {t},
              !.snapshots = IF t \in d.listening[d.db] THEN @ ELSE Append(@, <<d.db, t>>)]

Unsubscribed(d, handle) == [d EXCEPT !.subscriptions = @ \ {handle}]

-----------------------------------------------------------------------------
(***************************************************************************)
(* load(): the batches one after the other, the tables of a batch at once. *)
(* A table is subscribed to and waits for a snapshot; if there is none in  *)
(* time, or no subscription, it sleeps and tries again, or has failed.     *)
(***************************************************************************)
Running(load) == load.batch \in DOMAIN Batches
Ended(phase) == phase \in {"loaded", "failed"}

Marked(d, l, t, wait) == [d EXCEPT !.loads[l].of[t] = wait]

Retried(d, l, t) ==
    LET wait == d.loads[l].of[t] IN
    IF wait.retries < MaxRetries
    THEN Marked(d, l, t, [wait EXCEPT !.phase = "sleeping", !.retries = @ + 1])
    ELSE Marked(d, l, t, [wait EXCEPT !.phase = "failed"])

Attempted(d, l, t) ==
    IF CanSubscribe(d)
    THEN Marked(Subscribed(d, t), l, t, [phase |-> "waiting", retries |-> d.loads[l].of[t].retries,
                                      handle |-> d.nextSubscriptionId])
    ELSE Retried(d, l, t)

Attempt(d, at) == Attempted(d, at[1], at[2])

BatchBegun(d, l) ==
    LET batch == Batches[d.loads[l].batch]
    IN FoldLeft(Attempt, d, [i \in DOMAIN batch |-> <<l, batch[i]>>])

\* the end of Promise.all, of the last batch or of another
Awaited(d, l) ==
    LET load == d.loads[l]
        next == [d EXCEPT !.loads[l].batch = @ + 1]
    IN IF \E t \in ToSet(Batches[load.batch]) : ~Ended(load.of[t].phase) THEN d
       ELSE IF load.batch < Len(Batches) THEN BatchBegun(next, l)
       ELSE [next EXCEPT
               !.state = "loaded",
               !.failedTables = {t \in StaticTables : load.of[t].phase = "failed"}]

TableLoaded(d, l, t) ==
    LET wait == d.loads[l].of[t]
        kept == [Unsubscribed(d, wait.handle) EXCEPT !.cache = @ \cup {t}]
    IN Awaited(Marked(kept, l, t, [wait EXCEPT !.phase = "loaded"]), l)

Waiting(d, t) == {l \in LoadIds : d.loads[l].of[t].phase = "waiting"}

Cleared(d) ==
    [d EXCEPT !.cache = {}, !.failedTables = {}, !.state = "idle",
              !.cleared = @ \/ \E l \in LoadIds : Running(d.loads[l])]

IsCached(d) == d.cache # {} /\ d.state = "loaded"

\* the guards of get(), getAll() and query()
CanGet(d, t) == d.state = "loaded" /\ t \in d.cache

FreeLoads(d) == {l \in LoadIds : d.loads[l].batch = 0}

Loaded(d) ==
    LET l == CHOOSE k \in FreeLoads(d) : \A j \in FreeLoads(d) : k <= j
        alone == \A k \in LoadIds : ~Running(d.loads[k])
    IN IF d.connectionState # "connected" \/ IsCached(d) THEN d
       ELSE BatchBegun([d EXCEPT !.state = "loading", !.loads[l].batch = 1,
                                 !.cleared = @ /\ ~alone], l)

-----------------------------------------------------------------------------
(***************************************************************************)
(* connect() builds a connection, with the bindings at hand; that a call   *)
(* is overtaken while it loads them is Connection's matter.  Its socket    *)
(* opens, or the call is given up and the socket may open all the same.    *)
(***************************************************************************)
SessionBuilt ==
    /\ data.connectionState \in {"disconnected", "failed"} /\ data.opened < MaxSessions
    /\ LET s == data.opened + 1
       IN data' = [data EXCEPT !.db = s, !.opened = s, !.connectionState = "connecting",
                               !.socket[s] = "opening", !.pending = @ \cup {s}]
    /\ UNCHANGED <<changes, latency>>

SessionOpened(s) ==
    /\ data.socket[s] = "opening"
    /\ data' = [data EXCEPT
                   !.socket[s] = "open", !.pending = @ \ {s},
                   !.connectionState = IF s \in data.pending THEN "connected" ELSE @]
    /\ UNCHANGED <<changes, latency>>

SessionGivenUp(s) ==
    /\ s \in data.pending
    /\ data' = [data EXCEPT !.pending = @ \ {s}, !.connectionState = "failed"]
    /\ UNCHANGED <<changes, latency>>

(***************************************************************************)
(* onDisconnect, of whichever connection, leaves dbConnection as it is.    *)
(***************************************************************************)
SessionLost(s) ==
    /\ data.socket[s] = "open"
    /\ data' = [data EXCEPT !.socket[s] = "closed", !.connectionState = "disconnected"]
    /\ UNCHANGED <<changes, latency>>

(***************************************************************************)
(* The client's disconnect() forgets the subscriptions and the tables, but *)
(* no timer and no load, and leaves the connection object where it is if   *)
(* the state says disconnected already.  A socket it closes is SessionLost *)
(* later.                                                                  *)
(***************************************************************************)
ClientDisconnect ==
    /\ data' = [data EXCEPT
                   !.subscriptions = {}, !.tables = [t \in StaticTables |-> <<>>],
                   !.evicted = {}, !.disturbed = StaticTables,
                   !.db = IF data.connectionState = "disconnected" THEN @ ELSE 0,
                   !.connectionState = "disconnected"]
    /\ UNCHANGED <<changes, latency>>

(***************************************************************************)
(* The program calls subscribe(), unsubscribe(), load(), forceReload() and *)
(* clear().                                                                *)
(***************************************************************************)
Room(calls) == data.nextSubscriptionId + calls <= MaxSubscribes + 1   \* MaxSubscribes is not reached
RoomForBatches(loads) == Room(loads * Len(Batches[1]))   \* the first is the longest

Subscribe(t) ==
    /\ CanSubscribe(data) /\ Room(1)
    /\ data' = Subscribed(data, t)
    /\ UNCHANGED <<changes, latency>>

Unsubscribe(handle) ==
    /\ handle \in data.subscriptions
    /\ data' = Unsubscribed(data, handle)
    /\ UNCHANGED <<changes, latency>>

Load ==
    /\ FreeLoads(data) # {} /\ RoomForBatches(1)
    /\ data' = Loaded(data)
    /\ UNCHANGED <<changes, latency>>

ForceReload ==
    /\ FreeLoads(data) # {} /\ RoomForBatches(1)
    /\ data' = Loaded(Cleared(data))
    /\ UNCHANGED <<changes, latency>>

Clear ==
    /\ data' = Cleared(data)
    /\ UNCHANGED <<changes, latency>>

-----------------------------------------------------------------------------
(***************************************************************************)
(* The server sends a row of a table that was subscribed to, or its end,   *)
(* over any connection that is open; the listeners do not say which.       *)
(***************************************************************************)
Told(d, s, t, id, version) ==
    LET table == d.tables[t]
        full == id \notin IdsIn(table) /\ Len(table) >= MaxCacheSize /\ version # Absent
    IN Recorded([d EXCEPT
         !.tables[t] = IF version = Absent THEN Deleted(@, id)
                       ELSE Upserted(@, Entry(id, version)),
         !.evicted = IF full THEN @ \cup {t} ELSE @,
         !.disturbed = IF s = d.db THEN @ ELSE @ \cup {t}])

RowChange(s, t, id) ==
    /\ data.socket[s] = "open" /\ t \in data.listening[s] /\ changes < MaxRowChanges
    /\ UNCHANGED latency
    /\ changes' = changes + 1
    /\ \E version \in {changes + 1, Absent} :
        /\ version # data.rows[s][t][id]
        /\ data' = Told([data EXCEPT !.rows[s][t][id] = version], s, t, id, version)

(***************************************************************************)
(* The timer of a snapshot: the rows go to TableManager, to the batch and  *)
(* to every load that waits for the table, whatever has become of the      *)
(* connection they are of.                                                 *)
(***************************************************************************)
TellLoad(d, at) == TableLoaded(d, at[1], at[2])

Snapshot(d, s, t) ==
    LET shown == Recorded([d EXCEPT
                     !.tables[t] = AllOf(d.rows[s][t]), !.evicted = @ \ {t},
                     !.disturbed = IF s = d.db THEN @ \ {t} ELSE @ \cup {t}])
        waiting == SetToSeq(Waiting(d, t))
    IN FoldLeft(TellLoad, shown, [i \in DOMAIN waiting |-> <<waiting[i], t>>])

SnapshotTimer ==
    /\ data.snapshots # <<>>
    /\ LET first == Head(data.snapshots)
       IN /\ RoomForBatches(Cardinality(Waiting(data, first[2])))
          /\ data' = Snapshot([data EXCEPT !.snapshots = Tail(@)], first[1], first[2])
    /\ UNCHANGED <<changes, latency>>

(***************************************************************************)
(* A load has waited TABLE_TIMEOUT_MS, much longer than SNAPSHOT_DELAY_MS, *)
(* or has slept between two attempts.                                      *)
(***************************************************************************)
TableTimeout(l, t) ==
    /\ data.loads[l].of[t].phase = "waiting"
    /\ \A i \in DOMAIN data.snapshots : data.snapshots[i][2] # t
    /\ RoomForBatches(1)
    /\ data' = Awaited(Retried(data, l, t), l)
    /\ UNCHANGED <<changes, latency>>

RetryTimer(l, t) ==
    /\ data.loads[l].of[t].phase = "sleeping"
    /\ RoomForBatches(1)
    /\ data' = Awaited(Attempted(data, l, t), l)
    /\ UNCHANGED <<changes, latency>>

FlushUpdates ==
    /\ data.updateTimer
    /\ data' = [data EXCEPT !.pendingUpdates = FALSE, !.updateTimer = FALSE]
    /\ UNCHANGED <<changes, latency>>

-----------------------------------------------------------------------------
(***************************************************************************)
(* LatencyMonitor: a rolling window, and the window sorted, which is made  *)
(* when it is asked for and forgotten when the window moves.               *)
(***************************************************************************)
\* mutant of RecordLatency: the sorted window is not forgotten
RecordKeepingStats(ms) ==
    /\ latency' = [latency EXCEPT !.measurements =
                      IF Len(@) = MaxMeasurements THEN Append(Tail(@), ms) ELSE Append(@, ms)]
    /\ UNCHANGED <<data, changes>>
RecordLatency(ms) ==
    LET longer == Append(latency.measurements, ms)
    IN /\ latency' = [measurements |->
                         IF Len(longer) > MaxMeasurements THEN Tail(longer) ELSE longer,
                       sortedCache |-> <<>>, cached |-> FALSE]
       /\ UNCHANGED <<data, changes>>

GetStats ==
    /\ latency.measurements # <<>>
    /\ latency' = [measurements |-> latency.measurements,
                   sortedCache |-> IF latency.cached THEN latency.sortedCache
                                   ELSE SortSeq(latency.measurements, <),
                   cached |-> TRUE]
    /\ UNCHANGED <<data, changes>>

ClearLatency ==
    /\ latency' = [measurements |-> <<>>, sortedCache |-> <<>>, cached |-> FALSE]
    /\ UNCHANGED <<data, changes>>

\* in hundredths, interpolated between the two measurements next to percent
Percentile(sorted, percent) ==
    LET target == (Len(sorted) - 1) * percent
        lower == target \div 100
        upper == IF target % 100 = 0 THEN lower ELSE lower + 1
        weight == target % 100
    IN sorted[lower + 1] * (100 - weight) + sorted[upper + 1] * weight

LatencyNext == GetStats \/ ClearLatency \/ \E ms \in Latencies : RecordLatency(ms)

-----------------------------------------------------------------------------
SessionNext ==
    \/ SessionBuilt \/ ClientDisconnect \/ SnapshotTimer
    \/ \E s \in Sessions : SessionOpened(s) \/ SessionLost(s)
    \/ \E t \in StaticTables : Subscribe(t)

TablesNext ==
    \/ FlushUpdates
    \/ \E s \in Sessions :
        SessionGivenUp(s) \/ \E t \in StaticTables, id \in RowIds : RowChange(s, t, id)

LoaderNext ==
    \/ Load \/ ForceReload \/ Clear
    \/ \E handle \in data.subscriptions : Unsubscribe(handle)
    \/ \E l \in LoadIds, t \in StaticTables : TableTimeout(l, t) \/ RetryTimer(l, t)

-----------------------------------------------------------------------------
(***************************************************************************)
(* Once its snapshot has come, the cache of a table holds the rows of the  *)
(* connection in dbConnection, in their last version, and all of them      *)
(* unless there was no room: no late snapshot of an earlier connection is  *)
(* left in it (setupTableListeners, TableManager).  The exceptions: since  *)
(* then an earlier connection that is still open has sent a row of the     *)
(* table, to the same listeners, or disconnect() has emptied the tables of *)
(* a connection it did not close.                                          *)
(***************************************************************************)
CacheMirrorsTable ==
    \A t \in StaticTables \ data.disturbed :
        /\ data.db # 0
        /\ t \in data.listening[data.db]
        /\ <<data.db, t>> \notin ToSet(data.snapshots)
        => LET rows == data.rows[data.db][t]
               table == data.tables[t]
           IN /\ \A i \in DOMAIN table : table[i].version = rows[table[i].id]
              /\ t \notin data.evicted => IdsIn(table) = {id \in RowIds : rows[id] # Absent}

(***************************************************************************)
(* Static data that are loaded have every table, but for those reported as *)
(* failed: unless clear() came between, no table is forgotten, whatever    *)
(* loads ran beside each other (load, guardTableExists).                   *)
(***************************************************************************)
LoadedIsAccounted ==
    data.state = "loaded" /\ ~data.cleared =>
        \A t \in StaticTables : CanGet(data, t) \/ t \in data.failedTables

(***************************************************************************)
(* An update that is pending has a timer that will deliver it.             *)
(***************************************************************************)
UpdatesAreDelivered == data.pendingUpdates => data.updateTimer

(***************************************************************************)
(* The statistics are those of the measurements in the window, whatever    *)
(* was asked before, and the percentiles are in order (getStats).          *)
(***************************************************************************)
StatsAreOfTheWindow ==
    LET sorted == latency.sortedCache
        Stat(percent) == Percentile(sorted, percent)
    IN latency.cached =>
         /\ sorted = SortSeq(latency.measurements, <)
         /\ sorted[1] * 100 <= Stat(50)
         /\ Stat(50) <= Stat(95) /\ Stat(95) <= Stat(99)
         /\ Stat(99) <= sorted[Len(sorted)] * 100

DataInOrder == DTypeOK /\ CacheMirrorsTable /\ LoadedIsAccounted /\ UpdatesAreDelivered

=============================================================================
