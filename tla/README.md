# BitCraft: TLA+ specifications, checks and proofs

This directory specifies the parts of BitCraft that are hard to get right by
testing: what happens between several modules, several transactions, several
timers. It holds TLA+ modules, the configurations with which TLC explores them on
small instances, and proofs of the most important theorems, checked by TLAPS.
Section 2 says which module stands for which part of the code, section 3 what is
checked, section 4 what is proved and how, section 5 where the code disagrees with
what it says, section 6 what is left out.

Paths below are relative to the repository, with these abbreviations:

| abbreviation | directory |
| --- | --- |
| `game/` | `BitCraftServer/packages/game/src/` (the module of a region) |
| `global/` | `BitCraftServer/packages/global_module/src/` (the global module) |
| `client/` | `packages/client/src/` (the TypeScript client) |

## 1. The system

BitCraft is a massively multiplayer game. Its server is a set of SpacetimeDB
databases, each with a WebAssembly module: one **global module** (empires,
premium shop, chat, the record of where every player is) and several **regions**
(the map and everything on it). A module consists of tables and *reducers*. A
reducer is a transaction: it commits as a whole when it returns `Ok`, and leaves
nothing behind when it returns `Err` or panics. Reducers are called by clients,
by timers (rows of *scheduled* tables), on connection and disconnection, and by
an external relay. There is no other concurrency inside a module. The hard
behaviour is what happens *between* transactions.

| part | state it keeps | operations | interacts with |
| --- | --- | --- | --- |
| Inter-module messages: `game/inter_module/reducers.rs`, `game/messages/inter_module.rs` | outbox `inter_module_message_v4`, counters `inter_module_message_counter`, table of errors | `process_inter_module_message`, `on_inter_module_message_processed`, `save_inter_module_message_error` | every handler; the relay |
| Relay (`docs/architecture.md` §8.3; not in the repository) | what it has forwarded and not seen answered | forward a row, pass the result back | all modules |
| Shared transactions: `game/inter_module/mod.rs`, the macro `shared_table_reducer` | thread-local accumulators of table updates and delayed messages | `begin_shared_transaction`, `send_shared_transaction`, `send_inter_module_message`, `insert_shared`, ... | every reducer that changes a shared table |
| Replication: `_autogen.rs` of both modules | copies of shared tables | `apply_updates` | messages `TableUpdate` |
| Sign-in and queue: `game/game/handlers/queue`, `.../player/sign_in.rs`, `sign_out.rs`, `game/lib.rs` | `user_state`, `signed_in_player_state`, `player_queue_state`, `end_grace_period_timer`, `user_previous_region_state` | connect, disconnect, join, leave, sign in, sign out, end of a grace period, automatic log-out, administrators' sign-outs | clients, timers, transfers |
| Transfer of players: `game/inter_module/transfer_player.rs`, `user_update_region.rs` | the player's rows, `transfer_player_timer`, the global `user_region_state` | cross a border, cancel, the delayed transfer, insertion, re-insertion after an error | messages, queue |
| Other inter-module handlers: housing, deployables, empires, shop | rows of the tables they are about | request, effect, give back after an error | messages |
| Empires: `global/game/handlers/empires`, `empire_*_agent.rs`, the regions' handlers | towers, stamps of influence, sieges; empires, ranks, votes, foundries | build, supply, besiege, decay; found, join, promote, submit, dismantle, craft capsules | regions call the global module and refund when it refuses |
| Goods: `game/game/entities/inventory_state.rs`, `.../inventory`, `.../player_trade`, `dropped_inventory_state.rs` | inventories, piles and their timers, trade sessions | move, swap, split, sort, drop, pick up; offer, accept, finalize, cancel | sign-outs, agents |
| Settlement: `.../claim`, `.../rentals`, barter stalls, `order_*.rs`, `npc_ai_agent.rs` | members and ranks, supplies, treasury, research, rents, eviction timers, shops and their orders, market orders and listings | join, promote, leave, take over, fund, research, rent, evict, barter, post, edit, collect | agents, scheduled calls |
| Land: `hex_coordinates.rs`, `claim_helper.rs`, `building_helpers.rs`, `.../player_craft`, `resource_*`, `prospect.rs` | tiles and counters of claims, project sites, crafts and their slots, deposits, trails | claim, build, move, delete; craft, queue, collect; extract, regrow, prospect | agents, timers |
| Fights: `.../attack.rs`, `threat_state.rs`, `health_helpers.rs`, `duel_*.rs`, `player_action_state.rs` | actions, threat, contribution, targets, health, herds, duels | start, launch and land an attack; die, despawn, flee, sign out; ask, accept, end a duel | timers, volatile calls |
| Housing, deployables, quests, chat, shop, permissions | game tables | | not modelled |
| Client: `client/spacetimedb/` | connection, reconnection manager, subscriptions, caches, static data, latencies | connect, disconnect, reconnect, retry, cancel, subscribe, load | one module |
| Proxy, terminal client, MCP server | none, or stubs | | |

`PROJECT.json` ("components") lists all of them with their files, also those that
are not modelled, with the reason.

### Where the difficulties are

* **The relay may die at any moment, and so may a module.** A call may have run
  although the relay that submitted it never sees its result; it is submitted
  again. An error that a handler returns is saved by a *second* transaction,
  scheduled and volatile (it does not survive a restart).
* **A player who travels exists only in a message** from the deletion in the
  region he leaves until the insertion in the other one, or, after an error, in
  the first one again.
* **The accumulators of a shared transaction are variables of the WASM
  instance**, which a rollback does not restore.
* **Slots of a full region** are held by the signed-in players and by *grace
  periods*, timers that are started by sign-outs and lost connections and ended by
  sign-ins, joins and departures, in any order. Whoever frees a slot must hand it
  to the first who waits; some paths do so and some do not.
* **The client** gives up calls and sockets without cancelling them; they
  report later, to the same object, while timers of the manager run. Its caches
  hear of a table only through subscriptions that may fail, time out or outlive
  their connection.
* **What is counted apart from what it counts**: the counters of a claim, the stamps
  and crowns of empires, the population of a herd, the count of a resource. Each is
  kept by additions and subtractions in a dozen reducers that must agree.
* **What is promised now and taken later**: offers of a trade, orders of a shop, market
  orders, rents paid in advance, supplies queued at a foundry. Between promise and
  delivery the goods move, the other party leaves, the building goes.
* **What arrives late**: an attack lands after its attacker is gone; a call that clears
  an action finds another one; a timer of one tenant meets the next.

### What makes each part correct

* Messages: effects in order, each at most once; `Ok` only after the effect; no
  effect after `Err`; every row is answered in the end.
* Shared transactions: what a committed transaction asked for is sent to every
  module it concerns, once, in order, updates before the messages that may
  speak of them; what a failed one asked for is not.
* Queue: never more slots than the region admits; no free slot while somebody
  waits; permission to sign in exactly while a slot is held; the first who comes
  is the first served; everyone is served in the end.
* Transfers: a player is always in exactly one place; he arrives; he leaves no
  slot behind; the global module learns where he is.
* Client: what the connection reports is true; one reconnection loop; no more
  attempts than configured; a loss is repaired or reported.
* Empires: stamps are those of towers that stand; an attack meets a defence; crowns
  are worth the land; one emperor; nothing of an empire outlives it.
* Goods: no item is made or lost but by decay; a trade hands over what both accepted;
  a pile has one timer.
* Settlement: ranks come from above; renters are dispossessed only as the rules say;
  offers go with those who make them; orders can be paid; coins and wares are conserved.
* Land: counters agree with tiles and buildings; claims hang together and stay apart;
  crafts take the work and material they cost; deposits do not overlap, and a prize is
  for those who found it.
* Fights: the herd counts its enemies, war is mutual, the dead are nobody's target, what
  is slain goes, a duel ends.
* Client data: caches mirror the tables they are subscribed to; no table is forgotten.

## 2. The modules

```
Destinations ─┬► InterModule ─(refines)─► RemoteCall
              └► SharedTransaction
Admission ──► PlayerQueue          InterModule + Admission ──► PlayerTransfer
PlayerActions + Duels ──► Combat
MCRegion        = PlayerQueue + InterModule + Combat
MCRealm         = SharedTransaction + Empires,       Empires = Watchtowers + ...
MCSettlement    = Rentals + BarterStall + MarketOrders,
                  Rentals = Claims + ...,  BarterStall = Claims + Travelers + ...
MCGoods         = TradeSession = Inventories + ... = DroppedPiles + ... = Pockets + ...
MCLand          = RingIter + ClaimTerritory (over HexGrid) + Crafting + Deposits
MCClient        = Reconnection (over Connection) + ClientData
MCPlayerQueue, MCPlayerTransfer: constants for PlayerQueue, PlayerTransfer
```

`+` and `──►` are EXTENDS. `Rows` has the two operations on a table, a function from
keys to rows. `PROJECT.json` ("map") gives, for every definition, the lines of code it
stands for.

**Composites and scenes.** The last modules put the components of one place together. A
behaviour of such a module stays in the *scene* it begins in: `scene` is a variable
that never changes, every disjunct of the next-state relation is guarded by it and
leaves the variables of the other components alone. A scene decides which components
act and what they begin with, so that one run explores each with the initial state and
the events that make it interesting. Where components really interact (players
and messages in `PlayerTransfer`, membership and rent, shops, claims and travelers,
inventories and trades, towers and empires, actions and fights, the connection and its
manager) they act on shared variables in the same scene.

A reducer is a transaction, so **an action is a whole reducer**: its guard is
the conjunction of the checks after which the reducer does anything, and everything it
changes, helper functions included, is in the one step. A reducer that returns
`Err` early is no step. Where a failing call does leave something behind (the
relay's view of it, a volatile call) the failure is an action of its own.
Helper functions that change tables map the tables before to the tables after.

### `Destinations`

`InterModuleDestination` and the rows that one call of
`send_inter_module_message` inserts: `Recipients(s, dst)`, in the order of the
code's loops (the global module first, regions by index without the own one).
`CanSend` holds the cases that do not panic.

### `InterModule`: the protocol (`game/inter_module/reducers.rs`)

| state | code |
| --- | --- |
| `outbox[s]` | table `inter_module_message_v4` of module `s` (`_v3` in the global module, which differs only in its contents) |
| `addressee[s]` | the sequence behind `auto_inc`: ids that were given out, with their addressee |
| `counter[d][s]` | `inter_module_message_counter` |
| `errors[d]` | `inter_module_message_errors`, primary key `sender_module_id` |
| `saves[d]` | calls of `save_inter_module_message_error` scheduled with `volatile_nonatomic_schedule_immediate!` |
| `calls`, `responses` | calls of the two reducers that have been submitted and have not run |
| `results`, `forwarded` | the relay's memory |
| `failed`, `applied`, `resolved` | ghosts for the properties |

`process_inter_module_message` is four actions, one for each way it can end:
`ProcessDuplicate` (the counter says the message was processed),
`ProcessOk`, `ProcessErr` (rolled back; the volatile save remains),
`ProcessPanic` (rolled back, nothing saved). `on_inter_module_message_processed`
is `OnProcessed`, `OnProcessedPanic`, and `OnProcessedGone` (the row has been deleted:
`unwrap` panics). `SaveError` keeps the first error of a sender and, as the primary
key makes the insert panic, drops the second. What messages ask for is left open,
and whether a handler succeeds is a free choice (`StickyFailures` restricts it:
once failed, always failed).

The **relay is not in the repository**. What is known of it comes from
`docs/architecture.md` (it watches the outbox tables, calls the destination, and passes
the result back) and from what the reducers are prepared for (repeated calls of
the last messages). `RelayForward`, `RelayRespond`, `RelayRestart` model it, marked
external in the map, with two parameters for what is not known: `Window`, the
number of unresolved rows per destination it works on at a time, and `OrphansRun`,
whether calls that it had submitted before it restarted still run.

### `RemoteCall`: what the protocol promises

The abstract specification: a request takes effect at most once; `Ok` is answered
only after the effect, `Err` only if there is none, and then there never is one.
`InterModule!ImplementsRemoteCall` is the refinement (one request per message; its
effects are counted in `applied`, its answer read from `resolved`).

### `SharedTransaction`: accumulators (`game/inter_module/mod.rs`, `bitcraft-macro/src/lib.rs`)

`globalUpdates`, `regionUpdates` and `delayed` are the three thread-local
variables; an accumulator has one list of operations per table, as `InterModuleTableUpdates`
has one `Option<Vec<..>>` per table, so that the order between operations on different tables is lost, in
the model as in the code. `rows` is what the running transaction has inserted into the outbox, `outbox`
what is committed: a row is an update, which carries the lists of all tables, or a message; `stack` the functions being run, each with or without
`#[shared_table_reducer]`. `CallReducer`, `CallNested`, `TableOperation`
(`insert_shared`, `delete_shared`, ...), `SendMessage`, `ReturnNested`, `Commit`,
`Fail` and `Panic` follow one transaction after another in one instance. The
attribute's accumulator is flushed by `Drop`, that is, on `Ok` and on `Err`, but not
on a panic. Whether the host uses an instance again after a panic is not visible in
the repository, hence the constant `InstanceSurvivesPanic`, `TRUE` in the run: the accumulators may then be found open, with what
the panicked reducer left. What a reducer without the attribute sends in such an instance is *stranded* among the delayed messages;
`NothingIsLost` exempts it by name. Outbox and delayed
messages are kept per addressee, the only order the destination can see. Shared
functions that shared reducers call are called before the outer one has asked for
anything, as in `empire_player_join` and `player_housing_enter`.

### `Admission` and `PlayerQueue`: signing in to a region

`Admission` holds the tables (`users`, `canSignIn`, `signedIn`, `queue`, `timer`,
`previous`) and the code's functions as functions of them: `QueueJoin`, `SignedIn`,
`SignOut` (`sign_out_internal`), `ProcessQueue`, `GraceEnds`, `Depart`, `Arrive`, ...
The details on which the behaviour hangs are kept: `process_queue` counts one grace period
less than there are; `end_grace_period` reads the user's row before it processes
the queue and writes it back afterwards; signing out without grace period does not
process the queue; a row of the queue takes a slot even if its player has gone.

`PlayerQueue` makes actions of them, for one region: connections (an identity may
have several), the reducers of clients, the timers, and under the constant `Events`
what may happen besides: an administrator signs players out, `PlayerSkipQueue`
arrives, the parameters are replaced, roles change, players leave and arrive, a
client joins the queue although it is signed in.

### `PlayerTransfer`: players between regions

Composes the two: `InterModule` carries the messages, one set of `Admission`'s tables
per region is what the handlers work on. A crossing (or cancelling in the queue)
inserts a row of `transfer_player_timer`; `TransferPlayerDelayed` deletes the player
and posts the message in one step; `ProcessTransferPlayer` inserts him and posts
`UserUpdateRegionRequest` to the global module; `HandleResult` inserts him again where
he came from after an error. The forty tables a player consists of are one row.

### `Connection` and `Reconnection`: the client

`Connection` is `client/spacetimedb/connection.ts`: one state field, and one socket
per call of `connect()`, each with a life of its own. `Reconnection` is the
`ReconnectionManager` over it. JavaScript is single-threaded: an action is one task
(an event of a socket, a timer, a call by the program), with all the promise
continuations that run in it. An async loop is what it is suspended on:
`reconnectTimer`, `otherTimers` (timers whose handle was overwritten), `awaited`
(calls of `connect()` it waits for), `starts` (start delays). Delays, their jitter,
metrics and the recovery of subscriptions are left out. (The recovery finds
none, as the connection has no field `subscriptions`.)

### `Watchtowers` and `Empires` (`global/game/handlers/empires`, the agents, the regions' handlers)

`front` is the record of the global module's rows about towers: `nodes`
(`empire_node_state`), `influence` (the stamps of `empire_chunk_state`, counted instead of
listed), `sieges`, `engines`, `expansions`, `settled`, `capital` and the `crown` that
the emperor was last given. `calls` are the region's messages, first to last. The
operators are the methods (`Stamp`, `Unstamp`, `Activated`, `Convert`, `DeleteTower`, `EndSiege`,
`CancelSiege`, `UpdateUpkeep`), as maps from rows to rows; the actions are what players ask for in a
region, where the checks are made and the capsule is taken, `Answer` at the global
module, which checks again or does not, and the two agents (`SiegeTick`, `DecayTick`).
`Empires` adds founding, ranks, donations, votes, the submission of one empire to another
(`MergeInto`, in the order of the code: the towers first, then the sieges), the end of an
empire, the capital and the foundry.

### `Pockets`, `Inventories`, `DroppedPiles`, `TradeSession`

`Pockets` has the algorithms of `InventoryState` as operators: adding to stacks, then to
empty pockets, taking from the last, combining, sorting. `Inventories` makes the players'
reducers of them, `DroppedPiles` the piles with their ownership and despawn timers,
`TradeSession` the session: offers name pockets, lock them, and are looked up again when the
exchange is made. The ghost `acceptedOffers` remembers what a party has accepted.

### `Claims`, `Rentals`, `Travelers`, `BarterStall`, `MarketOrders`

One claim with its members and ranks, supplies, treasury and research; the interiors it
rents out, with the collecting agent and the bag of eviction timers; the agent that
moves travelers between ruins, its loop as a fold over the npcs in their order; shops that
offer from storage, treasury or nothing; and the market: an order is matched with the
standing ones, best price first and then oldest, in one fold (`BuyFrom`, `SellTo`), and what
is left stands or is returned. `Matching` says what the code's sort yields: a sequence
of all matching orders in that order. Coins are `I32`: what the code multiplies or adds without a check is
`Wrapped`, what it does with `checked_mul` and `checked_add` is a guard (`fits`, `DeltaFits`). The ghost `wrapped` of a
buy order says that the price of the whole was no i32 when it was posted.

### `HexGrid`, `RingIter`, `ClaimTerritory`, `Crafting`, `Deposits`

`HexGrid` has the arithmetic of coordinates as operators, next to reference definitions of
distance and rings; `RingIter` is the iterator as a state machine, one step per `next()`.
`ClaimTerritory` follows tiles, project sites and buildings with the counters of the
claims; `Crafting` active crafts (progress, locks, public crafts, the timing of the
player's action) and passive ones (slots, queue, timers); `Deposits` extraction, growth,
respawning, the agent that fills the world, claims and buildings in the way, and trails.
Who begins to prospect joins a trail that is `near`, within its join radius, and lays a new one only if
none of those can be joined: which trails are near is left open, so trails may lie side by side.

### `PlayerActions`, `Duels`, `Combat`

The action of a player on two layers with the volatile calls that clear it
(`actionClears`, a set in no order); queries and duels with their timers; and
fights: an attack is three transactions (start, timer, impact), between which anything
may happen. `threat`, `contribution`, `scaling`, `targets`, `population` are the tables;
`haunted` and `withered` are ghosts for two ways in which the code leaves rows
behind (section 5).

### `ClientData` (`client/spacetimedb/subscriptions.ts`, `tables.ts`, `static-data-loader.ts`, `latency.ts`)

What the SDK holds of each table (external), the listeners, the caches and their
batch, and the loader of the static data: subscribe a batch, wait for its snapshot or
a time-out, retry, go on. As in `Connection`, an action is one task. Connections overlap, as in the code:
a loss changes the state and leaves `dbConnection` (`connection.ts:250`), so that `subscribe()` on
a dead connection succeeds; a connection that was replaced, given up or told to close goes on
telling the same listeners until its socket has closed (`RowChange` of any open socket). The ghost `disturbed`
holds the tables whose cache was written by another connection than the one in `dbConnection` since the
latter's snapshot.

## 3. What is checked

Each row is a configuration `<run>.cfg`; the number is that of distinct states.

| run | states | what it shows |
| --- | --- | --- |
| `im_remote_call` | 24,196 | one row at a time: the protocol **is a remote call** (`ImplementsRemoteCall`), also to several modules at once, through restarts and calls that outlive the relay that made them; under fairness every row is answered (`EveryMessageResolved`) |
| `region` | 932,564 | the queue with every event: only the connected are signed in (`SignedInIsConnected`); two rows in flight, restarts, panics: effects in order, none twice (`InOrderOnce`), an error is never wrong (`FailureIsReal`); fights, flights, abilities, deaths and duels (`CombatInOrder`) |
| `queue_ordinary` | 15,174 | four players, ordinary clients: `WithinCapacity`, `NobodyWaitsForNothing`, `PermissionIsSlot`, `FirstComeFirstServed`, and under fairness `EveryoneIsServed` |
| `transfer_live` | 94,420 | the destination is full, a player waits, cancels and returns; relay and modules restart, handlers panic: `ExactlyOnePlace`, `DepartedHoldsNoSlot`, and under fairness `TravellersArrive` and `RegionIsLearned` |
| `realm` | 2,319,943 | transactions that commit, fail and panic: `NothingIsLost`, `NothingForeign`, `OutboxInOrder`; empires that expand, make war, are founded, dissolved, merged and destroyed, and their foundry: `TowersInOrder`, `EmpireInOrder` |
| `client_live` | 8,848 | the manager alone, late and failing sockets: `OneLoop`, `AttemptLimit`, and under fairness `LossIsHandled` |
| `client_everything` | 5,326,877 | every call of the program: `ConnectedIsOpen`; tables, static data and latencies over connections that come, overlap and go: `DataInOrder`, `StatsAreOfTheWindow` |
| `goods` | 87,269 | what players do with inventories, piles and trades: `GoodsInOrder`; nothing is made or lost but by decay and by the doubling of section 5 (`GoodsAreKept`); a trade hands over what both accepted (`FairExchange`) |
| `settlement` | 343,171 | a claim, its rentals, research, shops, travelers, market: `TownInOrder`, `OffersAreBacked`, `RanksAreBestowed`, `NotDispossessed`, `NothingMadeOrLost`, and under fairness `EvictionsEnd` |
| `land` | 380,249 | `GridIsExact`, `ClaimsAddUp`, `ClaimsKeepShape`, `CraftsInOrder`, `WildsInOrder` |
| `market_surplus`, `contribution_outlasts` | | the two disagreements of section 5 |

Properties whose names end in `InOrder` are conjunctions of a type invariant and named
parts, which stand with the components: `GoodsInOrder` is `PileTypeOK`, `OneTimerPerPile`,
`StacksInPlace`, `OneSessionPerPlayer`, `AcceptedAsOffered`; `CombatInOrder` is `HerdIsCounted`,
`HuntedIsInCombat`, `GoneIsForgotten`, `TargetsLive`, `ScalingFollowsThreat`, `SlainDespawn`, `DuelsEnd`,
`ElevatorLetsGo`, ...; and so on.

Every property of these runs is violated by at least one listed mutation of a
mapped definition (`PROJECT.json`, "mutants"; the mutated forms stand before the
definitions, marked `\* mutant of`): a check that cannot fail would say nothing.

### Bounds, and why they are enough

* *Messages*: two or three ids per sender. Order and duplication are relations
  between two messages; the third makes an overtaken middle possible. One region and the
  global module are enough for order, two for a broadcast with two addressees. In
  `PlayerTransfer` two ids per module are a journey and a return, or a journey and
  its announcement.
* *Failures*: one restart of the relay, one of a module and one panic, which can
  fall between any two steps and with each other. A second restart meets the state
  that the first one leaves.
* *Players*: four in `queue_ordinary`: with one slot and a queue of two, someone
  holds the slot, two wait and one is turned away; with two slots two change places.
  Two connections let an old one end after the new one has begun. `region`
  has two players and all events. Transfers follow one player: the tables of
  different players only meet in the slots, which the queue's runs and the proofs
  cover. Players, messages and calls are not interchangeable here (there are ordered
  queues and liveness properties), so no symmetry is used.
* *Shared transactions*: four operations and messages on two tables, spread over one to four
  transactions; the items of two transactions, of a nested call and of a panicked reducer can meet. The two tables are
  interchangeable in every action and every property, hence the symmetry `TablesAreAlike`.
* *Empires*: two, with three towers on a strip of three chunks, so that influence
  overlaps, a tower has a neighbour of its own and one of the other empire, and one
  place is contested; one call under way, two requests; one upkeep period.
* *Goods*: one piece to two pieces of each of four kinds (a coin without volume, an ore, a tool
  that wears out, a cargo), three pockets; a wallet that is doubled to four coins (`MaxCoins`); two piles; one item and one cargo offered by either side, two sessions.
* *Settlement*: two members and one stranger; one interior, whose renter changes; two technologies; three
  ruins with two npcs; three orders at prices up to three: enough for a partial fill, an
  edit in between and a third order that meets both; one, two or seven pieces. `HalfRange` is 8 in place of 2^31: the price of
  seven pieces at three wraps to 5, at two to a negative number, so that orders with too few coins stand, are filled, edited and
  cancelled.
* *Land*: rings up to radius 4; two totems on a strip, with a building on the border
  and one that can be moved; three crafts of two crafters at one workshop; a world
  of two tiles with up to three deposits, one kind of them two tiles wide and placed by the agent
  too; buildings on these tiles and beside them; two trails of two crumbs, in and out of each
  other's join radius (two that are hidden, or one hidden and one revealed).
* *Fights*: one enemy of two health, two players, or two duellists; two calls under way that clear an action.
* *Client*: eight calls of `connect()` that are pending or have a socket, two
  attempts, three losses; with the program's calls, three sockets, two losses and three
  calls. Two connections that may overlap, four subscriptions of which two fit, two loads of two batches.
  `RoomToConnect` is the name of the bound in the guards.

In all models but `InterModule`'s proofs the system stops at a bound (message ids,
restarts, calls, crafts), so the configurations say `CHECK_DEADLOCK FALSE`. That nothing
waits for ever is what the liveness properties say.

### Fairness, and why the code justifies it

* `IMFairness`: the relay keeps forwarding the next row and passing on results,
  and a module runs the reducer calls that were submitted to it. The first is what
  the relay is for; the second is the SpacetimeDB host's scheduling. *Which* outcome a
  handler has is never constrained. `IMFairSpec` runs `SteadyNext`, without panics of
  the handler of a *result*: such a row stays for ever, in the code as well.
* `QFairSpec`: a timer whose time has come fires (scheduled tables). A player who
  joins again and again restarts his own grace period; the fairness assumes he
  does not do so for ever. `EveryoneIsServed` says on its left-hand side what else is
  needed: no player keeps a slot for good. It is about `OrdinaryNext`, what clients
  and timers do; `QNext` adds administrators, parameters and transfers.
* `PTFairSpec`: the protocol's fairness and nothing about players, so that
  `TravellersArrive` does not depend on what they do.
* `RFairSpec`: JavaScript timers fire, and the import of the bindings ends, one way
  or the other. Sockets need never open. `UnattendedNext` is the client without calls of
  the program.
* `EvictFairness`: the eviction timers fire (scheduled tables).

## 4. What is proved

TLAPS checks these for **every value of the constants** that satisfies the
modules' ASSUMEs: any number of regions and players, any window, any bound.

| theorem | statement |
| --- | --- |
| `PlayerTransferProofs!TypeCorrect` | `IMSpec => []IMTypeOK` |
| `PlayerTransferProofs!AppliedInOrderOnce` | `IMSpec => []InOrderOnce` |
| `PlayerTransferProofs!PermanentFailuresAreReal` | with `StickyFailures`: `IMSpec => []FailureIsReal` |
| `PlayerTransferProofs!SuccessesAreReal` | with `Window = 1`: `IMSpec => []SuccessIsReal` |
| `PlayerTransferProofs!ProtocolIsRemoteCall` | with both: `IMSpec => ImplementsRemoteCall`, the refinement |
| `RegionProofs!QueueTypeCorrect` | `QSpec => []QTypeOK`, all events included |
| `RegionProofs!SignedInAreConnected` | `QSpec => []SignedInIsConnected`, all events included |
| `RegionProofs!CapacityIsKept` | with `OnlyOrdinaryClients`: `QSpec => []WithinCapacity` |
| `RegionProofs!SlotsAreHandedOn` | likewise `NobodyWaitsForNothing` |
| `RegionProofs!PermissionsAreSlots` | likewise `PermissionIsSlot` |
| `RegionProofs!QueueIsFair` | likewise `QSpec => FirstComeFirstServed` |
| `RegionProofs!FightsStayInOrder` | `CombatInit /\ [][AnyFight]_combatVars => []CombatInOrder` |
| `RegionProofs!RegionFightsStayInOrder` | `Spec => []CombatInOrder`, of `MCRegion` |
| `PlayerTransferProofs!TransferTypeCorrect` | `PTSpec => []PTTypeOK` |
| `PlayerTransferProofs!NoSlotsLeftBehind` | `PTSpec => []DepartedHoldsNoSlot` |
| `PlayerTransferProofs!PlayersAreInOnePlace` | with `StickyFailures`, `Window = 1`: `PTSpec => []ExactlyOnePlace` |
| `SharedTransactionProofs!TypeCorrect` | `STSpec => []STTypeOK` |
| `SharedTransactionProofs!NothingForeignIsSent` | `STSpec => []NothingForeign`, also if instances survive panics |
| `SharedTransactionProofs!NothingGetsLost` | `STSpec => []NothingIsLost`, whatever survives a panic |
| `SharedTransactionProofs!OutboxKeepsOrder` | `STSpec => []OutboxInOrder` |
| `ClientProofs!ReconnectionTypeCorrect` | `RSpec => []RTypeOK` |
| `ClientProofs!ConnectedHasOpenSocket`, `ClientIsTruthful` | `RSpec => []ConnectedIsOpen`, every call of the program included; `Spec => []ConnectedIsOpen`, of `MCClient` |
| `ClientProofs!OneLoopRuns` | `RFairSpec => []OneLoop` |
| `ClientProofs!AttemptsAreLimited` | `RFairSpec => []AttemptLimit` |
| `ClientProofs!DataStaysInOrder` | `Spec => []DataInOrder` |
| `LandProofs!CraftsStayInOrder` | `Spec => []CraftsInOrder`, of `MCLand` |
| `LandProofs!GridStaysExact` | `Spec => []GridIsExact`, of `MCLand`, for every radius |
| `LandProofs!ClaimsStayExact` | `Spec => []ClaimsAddUp`, of `MCLand` |
| `LandProofs!ClaimsStayInShape` | `Spec => []ClaimsKeepShape`, of `MCLand` |
| `SettlementProofs!TownStaysInOrder` | `Spec => []TownInOrder` |
| `SettlementProofs!NobodyRisesAlone` | `Spec => RanksAreBestowed` |
| `SettlementProofs!NobodyIsDispossessed` | `Spec => NotDispossessed` |
| `SettlementProofs!OffersHaveTheirTraveler` | `Spec => []OffersHaveTraveler`, with the types of shops and npcs |
| `SettlementProofs!OrdersAreCovered` | `Spec => []BuyOrdersAreCovered` (orders whose price was not wrapped), with the type of the market |
| `SettlementProofs!OffersStayBacked` | with `OneMarket`: `Spec => []OffersAreBacked` |

The hypotheses are conditions on constants that some of the runs satisfy.
`Window = 1` and `StickyFailures` are what the code needs of the relay and of the
handlers: `region` shows with a window of 2 that order holds without them, and a success
that was never one is found at once if they are dropped.

**Order and duplication.** `InOrderOnce` is not inductive: nothing in it says that the
next call is newer than what was applied. `CounterCovers` does: whatever was
applied at `d` for `s` has an id of at most `counter[d][s]`. Only `ProcessOk`
appends, and only above the counter, which it raises in the same transaction. The
proof uses nothing of the relay: it holds for any order and repetition of calls.

**Errors.** `FailureIsReal` needs to know where an error can come from. `FailureInv`
says: rows, calls and effects belong to the module the id was addressed to
(`RowsAddressed`, `CallsAddressed`, `EffectsAddressed`), every error that is stored,
on its way to be stored, on its way to the sender or with the sender is that of a message
whose handler has failed (`ErrorsAreFailures`), and such a message has no effect
(`FailuresTakeNoEffect`, where `StickyFailures` enters). Without addresses the same
pair of sender and id could have an effect at another module. The assumption is needed:
a handler that fails once and then succeeds takes effect, and the stored error is
answered to a third call.

**Success and the remote call.** `SuccessIsReal` rests on `WindowInv`: with one row per
destination in the relay's hands, whatever is in flight is the oldest unresolved
row (of this session of the relay or an earlier one), the counter is never above it
unless it has been processed, and a result that says `Ok` belongs to a message that took effect. For the
refinement, `RemoteInv` joins `WindowInv` and `FailureInv` and adds that resolved rows are gone
and that no call is left that could still change the fate of a resolved message.
`StepsOfRemoteCall` then takes every action in turn: sending is `Request`, `ProcessOk` is the effect,
a result is the answer, and everything that the relay repeats, loses or restarts is a
stutter. The proofs about the protocol are stated for `ProtocolNext`, in which handlers
may send further messages, so that `PlayerTransferProofs` can cite them for *its* steps.

**Slots.** `OnlyOrdinaryClients == Events = {} /\ Skippers = {}`. The inductive
invariant `SlotInv` is about the code's own bookkeeping: everyone's permission is
exactly a place in `signed_in_player_state` or a grace period of type `SignIn`, never both
(`SlotsMatchPermission`), so that the code's count of slots, a *sum*, is a cardinality; and slots are
full while somebody waits, who has none himself (`SlotsAreUsed`). The hard step is
`end_grace_period`: the discount in `process_queue` is right exactly there, because the expired
row is still in the table. The queue has at least one free place then, so the
first who waits takes it (`FirstIsServed`). `FirstComeFirstServed` follows from the same invariant and
the fact that every operation lets in at most the first of the queue
(`OnlyFirstIsLetIn`). `SignedInIsConnected` needs less and holds with all events: `PresenceInv` says
that whoever is signed in, or may be by the end of a step, has a connection or a timer
that waits for him. The lemmas about the operators of `Admission` are in `AdmissionProofs`,
which transfers use as well.

**Fights.** TLC takes one scene at a time; the theorem is about `AnyFight`, in which any number of players
and enemies may do everything that is modelled, in any order. `CombatInv` has a part for each set of tables that
the reducers write together. `ThreatInv` adds to what is checked that a row is never between two enemies, nor about one
that has not spawned yet: the death of an enemy deletes the rows *against* it and scales nobody, which is right only
because these are players' rows. `HerdInv` adds that whoever has died a moment ago is
dead or has been revived by a buff, since a second blow within `respawn_seconds` writes the health and skips
the death: an enemy at zero health would stay. For the elevator, the call that ends a ride has to be
one about the base layer (`ActionInv`); a call about the other layer arrives as well and ends nothing.

**Transfers.** `ResidenceInv`: whoever has a slot, a permission or a grace period in a region is a
resident there, a timer of a transfer is that of a resident. `WhereaboutsInv` says where
a player is: in the tables of exactly one region and no message, or in none and in
exactly one row of one outbox that has neither taken effect nor been given back. The row, not
the calls made of it, is what carries him: that a row carries him once is `ExactlyOnePlace`,
that it takes effect once and is given back only if it did not is `RemoteInv`.

**Shared transactions.** One invariant, `STInv`, for all three theorems. `Own`: the transaction's rows, and *while a
shared function runs* also what waits, hold only what this transaction asked for. While none runs anything may wait, and
does, if an instance survives a panic: no reducer without the attribute ever takes
anything out, and the next shared one overwrites it first. `IssuedIsKept`: what was asked for and is not stranded is in the rows, or waits
in a shared function, which will flush it. `Ordering`: on each channel the rows ascend, and what waits is later than the rows. `Following`:
rows with messages have the rows of earlier operations before them, which a message without accumulators needs as well: then nothing
waits (`ClosedIsEmpty`), so that whatever was asked for is in the rows.
`FlushedIsGood` is the lemma on `send_shared_transaction`: what an invariant state flushes is complete and in order.
`BroadcastsReachAll` and `AddresseesOfUpdate` relate the variants of a destination
to the loops over region indices.

**The client.** `RInv` is about one step of JavaScript at a time, in any order: a state of
"connected" belongs to the socket of the last call that succeeded, and no other
socket's events change it. Of a client left to itself, `UInv` says that what is pending
is *tidy*: one loop, suspended on exactly one of its timer, its call or its start delay, with a
count of attempts that agrees; late sockets and time-outs belong to calls that nobody awaits.

**The client's data.** `DataInv` is about connections that come, overlap and go, with any tables, rows and batches and with loads
beside each other. For the tables: timers of snapshots are in the order of the connections that set them, and none of an
older connection is behind one of the present (`PresentIsLast`, `TimersInOrder`), so that a table whose snapshot has come is
not overwritten by that of a connection that was replaced; a table mirrors the rows of `dbConnection` unless one found no room, or an earlier
connection that is still open has sent a row since (`TablesMirror`). For the
loads: of a load that runs, the tables of earlier batches have ended, those that wait are of the present batch (`EarlierEnded`,
`WaitsForItsBatch`), and what it has loaded stays cached unless `clear()` was called (`LoadedIsKept`). The callbacks
of one snapshot are a fold over the loads that wait, the subscriptions of a batch one over its tables, both instances of
`FoldLemmas`. Assumed of the constants: batches are disjoint and there is one, caches have room for a row, rows are finitely many.

**Settlements.** `SettlementInv` is `TownInv` and `ShopInv`. `TownInv` adds to `TownInOrder` that what is
researched is not learned and that rents are rates the fee is known for. `Bestowed` and `GivenUp` are
the two action properties as predicates of one step, proved for each operation of `Claims` and
`Rentals`. For travelers, the npcs' agent is a *loop* over them, a fold in the model.
`FoldLemmas` is a module with an operator and a choice as CONSTANTS; its theorems (an
invariant of every step is one of the fold; a fold is a run with a first and a
last step; sums over a set change with one of its members) are proved once by induction over the cardinality of the set and
instantiated for each fold, which avoids the induction theorems with an operator parameter. `LoopOK` is the invariant of the
agent's loop: offers have their traveler, although in the middle of it the
cache and the npcs disagree. It needs that a ruin with a traveler stands.

**The market.** `MarketInv` says that standing orders want at least one piece, and that a buy order holds
the coins for all it wants unless it is `wrapped`; its coins are an i32 in any case. `WrappedIsSame`, `WrappedFits` and
`WrappedSum` are what is needed of the arithmetic of i32 (a sum of two whose first is not negative, and that is not
negative when wrapped, was not wrapped). A new order is matched in a fold over the matching
orders *in the order of price and age*. `SetsAreSorted` shows that there is such a sequence;
`BuysAreARun` and `SalesAreARun` that the fold is a run along it; `PurchaseOK` and `SaleOK` are the
invariants of the run: what was passed is filled, what is to come is untouched, the coins that are
left pay for what is still wanted if the purchase is `sure`, that is, not of a wrapped price. At its end, either nothing is wanted any more or no matching order is left
(`Unmatched`). `NothingLeftToMatch` holds only within one market, hence `OneMarket`: an order may be edited at a
building of another claim, and is then matched there but stays in its own.

**Crafting.** `CraftingInv` adds to `CraftsInOrder` that both tables hold ids that were given out, that progress never exceeds what
the size of a craft asks for, that who has a slot has a timer and a slot no other has, and that of queued crafts one is being processed
unless the building was changed in haste (`PassiveTable`). The units are sums over functions whose domains the reducers
change: `HandedOut` is the lemma about the loss of a building, where the units of *all* its crafts go to their owners
at once, a sum over groups. `SlotIsHandedOn` is the queue: a slot that becomes free is taken by one who waits. Sums of functions
are folds of the community modules, hence instances of `FoldLemmas`.

**The grid.** `RingInv` says of the iterator that the `n`-th tile it has given is the `n`-th of the ring (`RingPoint`), and on which of the six sides
it is. Rings of all radii do not overlap; from this `AroundInclusive` is the hexagon of all tiles within a radius, in which `1 + 3r(r + 1)` tiles
have the number of neighbors that `num_neighbors_in_radius` computes, for every `r`; TLC compares them only up to a small one. Neighbors, distance and the
place of a tile in its large tile are arithmetic on pairs of integers.

**Territories.** `TerritoryInv` adds to the counters and the shape what relates the tables. `SitesAreNoted`: a site,
built or not, is noted for the claim whose tiles it stands on, or for one that is gone; without this, the maintenance that the code adds and subtracts as
buildings come and go is not the sum over those that stand. `TotemsStand`: the totem of a claim is built and belongs to it.
A tile that is added or removed changes the count of neighbors of its claim by twice the number of its neighbors (`Adjacent`), which is the code's arithmetic; that
a removal leaves the claim in one piece is the code's search, `Reached`. It is a recursive function on sets of tiles: `ReachedUnfolds` shows, by
well-founded induction, that there is such a function and what it satisfies. Assumed is that a totem's footprint lies in the first tiles of its claim (static data).

**What the proofs changed.** The model of `order_post_*` now says what the sort
yields instead of naming a sorting function, and its steps carry the parties in the
accumulator; rows are inserted by `With`, upkeep and neighbors of a claim are sums of functions (`SumFunction`).
`Crafting` says which craft is older by an order on ids (`lockOrder`) instead of a sequence of touched rows. Proving found a mistake in the bookkeeping
of `InterModule` (`Effects` counted positions only up to `MaxMessages`, too few for
several senders), and that `NothingLeftToMatch` does not hold across claims.

**Only model-checked**:
* all liveness (`EveryMessageResolved`, `EveryoneIsServed`, `TravellersArrive`, `RegionIsLearned`,
  `LossIsHandled`, `EvictionsEnd`), which is beyond the prover;
* `NothingMadeOrLost`, `GoodsAreKept`, `FairExchange` and `GoodsInOrder`: sums over tables and over the
  pockets of inventories, which are sorted with `SortSeq`, a definition of TLC's that the
  prover cannot open;
* `StatsAreOfTheWindow`, for the same reason;
* `TowersInOrder`, `EmpireInOrder`, `WildsInOrder`: to be done.

The relay is an assumption of the last kind: its behaviour is a model, not code.

## 5. Where the code disagrees with what it says

1. **Coins from nothing** (`market_surplus`, `StoredIsUnsold`). `order_edit_buy_order.rs:94`
   stores in a raised order what it had less what it spent by being matched, and lists
   the difference of price as well; `order_post_buy_order.rs:112` says that an order
   stores the "unsold portion of the order". `NothingMadeOrLost` admits this case: the
   surplus is the difference. The other case that it admits is the overflow of a price, below.
2. **A share in the loot for those who left** (`contribution_outlasts`,
   `ContributionEndsWithCombat`). `clear_all` (`threat_state.rs:109`) resets the contribution to an
   enemy *before* it deletes the enemy's last threat row, so that nothing is reset;
   `contribution_state.rs:51` says "Contribution resets as soon as the target is out of combat".

### Observations without a run of their own

*Messages, queue, transfers.*

* With a window above 1 a failed message is answered `Ok` once a later one has
  been processed (`SuccessIsReal` fails): the code needs a relay that waits. The second error of
  one sender is dropped; harmless with window 1.
* `transfer_player_delayed` calls `process_queue` after a departure (`transfer_player.rs:314`), where there is
  no expired row to discount (`player_queue.rs:102`): with every slot taken, one more is admitted. New parameters do the same.
* `player_cancel_region_transfer.rs:31` deletes the row from which the timer would learn that the
  player returns: he arrives without `can_sign_in`, against the comment at `transfer_player.rs:100`.
* A player who waits and disconnects keeps his place (`sign_out.rs:34` returns
  first), and is given a slot in his absence until that grace period ends. A queue row outlives the
  departure of its player and takes a slot when it is its turn.
* A player who joins while signed in (`player_queue.rs:28`), or an administrator's sign-out, can leave a
  free slot while others wait, until the next grace period ends.
* Under `docs/architecture.md` a player is deleted after the destination has
  confirmed; the code deletes him before it sends the message.
* A reducer that asks for a table operation after a nested shared function has
  returned panics, for the accumulators are closed; its messages go out at once. So `empire_player_join` of one who is in an
  empire panics (`empires.rs:267`, `:280`): `PlayerJoin` asks that he is in none.

*Client.*

* `markManualDisconnect` (`reconnection-manager.ts:419`) sets a flag that `connect()` does not clear: after
  `disconnect()` and `connect()` the next loss is ignored. Cancel and retry during an attempt start a second loop; a retry
  resets the count of attempts of a running one (`:458`); the delayed start of a reconnection is not
  cancelled by `disconnect()` (`:165`); a `disconnect()` during the import of the bindings leaves a
  socket that opens later (`connection.ts:214`).
* `forceReload` or a retry on the same connection never gets a second snapshot: all tables
  time out and the state becomes `loaded` with an empty cache. Failed tables leak subscriptions up to the limit. The
  snapshot timer of an old connection fills cleared caches. Caches are stale after an automatic reconnect until they
  are subscribed to again.
* Listeners do not say which connection they are of (`subscriptions.ts:244`): one that was given up, or lost to the state only,
  and still has its socket writes its rows over those of its successor, until the table is subscribed to anew. `disconnect()` after a
  loss clears the caches and leaves `dbConnection` (`connection.ts:280`). These are the exceptions of `CacheMirrorsTable`.

*Empires.*

* Unmarking during a siege deletes the attacker's row, and the agent's `unwrap` panics at every tick.
  `merge_into` panics when the submitting empire defends against a third one. `start_siege` at the global module does
  not ask for a siege in progress.
* `convert()` of a silent tower takes off stamps of a neighbour. After a merge, a mark that the absorbing empire had on a tower
  of the other blocks its supply for ever.
* `empire_move_capital` does not update `empire.location` (comment at `empires.rs:1105`). A delayed end of an empire
  ends one whose capital has just moved; a capital moved to a totem that is being destroyed leaves an empire without one.
* The acceptor of a submission may have left: the merge goes to the empire he is in, even the submitting one.
* `num_claims` is not reduced when a totem is destroyed; joining does not recalculate upkeep.
* Nobles of a merged empire become citizens who never become nobles again.

*Settlements and goods.*

* Two travelers may come to one ruin (`npc_ai_agent.rs:114`). If a stall's storage has some coins but too few, the treasury pays
  all of the price and those in the storage are lost (`barter_stall_order_accept.rs:283`). Orders of a deconstructed stall stay.
* The fee of an eviction is received by nobody; a stale eviction timer evicts the next renter, or panics where there is none
  (`rentals.rs`); not only debtors are evicted at once (comment at `rentals.rs:219`).
* The price of a new buy order, quantity times unit price, is an i32 that nothing checks
  (`order_post_buy_order.rs:33`, `:112`; the release profile of `game/Cargo.toml:27` has no `overflow-checks`); "Integer overflow"
  (`:99`) is returned for negative results only. 641 pieces at 6,700,417 cost one coin. Sellers to such an order
  are paid in full (`order_post_sell_order.rs:108`) out of coins that it does not have, and `stored_coins` becomes negative;
  `order_edit_buy_order.rs:70` then refuses an edit, and a cancelled order closes in a negative listing. `BuyOrdersAreCovered`, `NothingLeftToMatch` and
  `CoinsAreKept` except orders that are `wrapped`, and say so; there are no other exceptions than these.
* `post_sell` with `persist_order = FALSE` loses the unsold wares. An order may be edited at another claim's building.
* Coins are doubled by `item_stack_move_all` from a wallet to another inventory of its owner: the target is replaced by the wallet
  (`item_stack_move_all.rs:66`; the comment at `:65` says "from a non-wallet source") and its row, to which they were added, is written
  over that from which they were taken (`:143`). `GoodsAreKept` admits exactly this (`WalletDoubled`); `MaxCoins` bounds it.
* The locks of offered pockets are respected by `inventory_sort` only; the exchange takes what is in the pockets then.
  Swapping two tools of a kind copies durability. A wallet takes any item by `item_stack_move`.

*Land.*

* `delete_all_claim_tiles` frees finished buildings only: project sites keep the claim that is gone. Two totems whose projects are started
  at once may end too close to each other. `ring_iter` with radius 0 never ends (`hex_coordinates.rs:476`).
* `passive_craft_collect` does not look at the status; more crafts may be active than there are slots, when a suspended one is
  continued; crafts of destroyed buildings without the category `Crafting` vanish.
* The count of a resource drifts: up with growth, down with displaced deposits. `CountIsExact` names those for which it is exact. A clump refused at the edge of a
  building is spawned all the same. A prospector without a contribution may gather once from the prize (`extract.rs:133`).

*Fights.*

* A late impact from or at a despawned enemy adds threat rows again (ghost `haunted`). Food, abilities and regeneration bring health to 0
  without a death (ghost `withered`). A late `player_clear_action_state` ends a newer action, or `Death`.
* Two accepted votes put a player in two duels; a second loser makes the first the victor.
* `calculate_hit_outcome` panics if the weapon was put away between attack and impact.

## 6. What is not modelled, and the plan

`PROJECT.json` names every component with its reason. Generated code
(`_autogen.rs`, `_delete_entity.rs`), world generation, terrain and statistics are data or
arithmetic without interleaving. The proxy, the terminal
client and the MCP server have no behaviour yet. Player housing, deployables and their recovery, permissions, quests, chat and
the shop are not modelled; the transfer of a house (`transfer_player_housing.rs:60`: the destination destroys the
old interior before the sender has created the new one) and the recovery of a deployable (`recover_deployable.rs:43`: it exists only in a second message)
are the two hazards without a property. In what is modelled, these are
left out: contents of messages other than transfers, what signing in does to the player's
body, wall-clock time (a timer may fire at any moment after it was set), distances, costs and
amounts that only decide whether a call is refused, chat, logging and metrics.

What is left to do:

1. Theorems: `TowersInOrder` with the machinery of `FoldLemmas`; `EmpireInOrder`; the parts of
   `NothingMadeOrLost`, from the lemmas about sums; `WildsInOrder`.
2. `DeployableRecovery` and `HousingTransfer`, over `InterModule` as `PlayerTransfer` is. Properties: exactly one place;
   nothing is destroyed unless it was created elsewhere.
3. Replication: copies of shared tables converge although several modules write.

## 7. Running

```
tlc -workers 2 -config realm.cfg MCRealm
tlapm SettlementProofs.tla
```

Runs take from a few seconds to about three minutes; `SettlementProofs` and `RegionProofs`
take some minutes, the other proofs less than two each.
