# hl_monitor: TLA+ models, checks and proofs

`hl_monitor` watches Hyperliquid addresses over WebSocket, aggregates the fills of
every order, and publishes one trading signal per order to NATS when the order ends or
after five minutes. It keeps order aggregations and position snapshots in MySQL. This
directory models its concurrent core and the part of the Hyperliquid SDK kept in the
repository, checks them with TLC and proves their main safety properties with TLAPS.

## 1. Inventory

The path of a fill: WebSocket connection (`ws.Client`) → `ws.Dispatcher` (a pool of
goroutines) → `manager.SubscriptionManager` callback → `processor.MessageQueue` →
`processor.OrderProcessor` → flush pool → NATS, with rows going through
`processor.BatchWriter` to MySQL.

| Part | State | Operations | Talks to |
|---|---|---|---|
| `processor/message_queue.go` | bounded channel, `done` | `Enqueue` (falls back to the caller's goroutine when full), `worker`, `Stop` | callbacks in, `HandleMessage` out |
| `processor/order_processor.go` | `pendingOrders`, `flushChan`, pool | `handleOrderFill`, `UpdateStatus`, `triggerFlush`, `flushProcessor`, `flushOrder`, `timeoutScanner`, `Stop` | deduper, tracker, NATS, batch writer, position cache |
| `processor/status_tracker.go` | order → final status, 10 min TTL | `MarkStatus`, `GetStatus`, `Remove` | order processor |
| `cache/dedup_cache.go`, `manager/deduper.go` | signalled keys, 30 min TTL | `IsSeen`, `Mark`, `LoadFromDB` | order processor, subscription manager, MySQL |
| `processor/batch_writer.go`, `pkg/concurrent/map.go` | queue, keyed buffer with a counter | `Add`, `receiveLoop`, `flushLoop`, `flush`, `Stop`, `GracefulShutdown` | MySQL |
| `cmd/hl_monitor/main.go`, `pkg/sigproc` | process lifetime | start, signal callback, `os.Exit` after 30 s | everything |
| `manager/subscription_manager.go` | `addresses`, `subs`, `oidToAddress` | `SubscribeAddress`, `UnsubscribeAddress`, fills and updates callbacks, `Close` | pool manager, message queue |
| `address/loader.go` | `lastAddrs`, `pendingRemove` | `loadAndSync` on a ticker | subscribers, MySQL |
| `ws/pool_manager.go`, `client.go`, `dispatcher.go` | connections, subscriptions, callbacks | `Subscribe`, `unsubscribe`, `handleDisconnect`, `repairConnections`, `migrateAndResubscribe`, `Dispatch` | the exchange, managers |
| `manager/position_manager.go`, `cache/position_cache.go`, `processor/position_processor.go` | four maps per address, subscriptions | webData2 callback, `Set`, `Delete` | `buildSignal`, batch writer |
| `cleaner/cleaner.go` | – | hourly deletion of old rows | MySQL |
| `symbol/`, `cache/symbol_cache.go`, `cache/pair_category_cache.go` | lookup tables | periodic reload | order processor |
| `pkg/go-hyperliquid` (exchange, orders, signing, client) | `lastNonce`, `expiresAfter`, vault | `nextNonce`, sign, `postAction`, one method per exchange action, `SetExpiresAfter` | the exchange, over HTTP |
| `pkg/go-hyperliquid` (types, `*_easyjson.go`, info) | – | generated encoders and decoders, one query per `Info` method | the exchange, over HTTP |
| `config/`, `monitor/`, `nats/`, `pkg/logger`, `pkg/goplus` | configuration, metrics, connection | – | – |

What is hard here, and what correctness means:

* **Order processing.** Several goroutines share an order without a lock: the queue
  worker, callbacks that handle messages themselves when the queue is full, up to 30
  pool goroutines and the scanner. Correct means: no aggregated order is lost, every
  order is signalled eventually and once, a trade counts once, an order that left
  `pendingOrders` is in the deduper, a status that comes before the fills still
  triggers, `Stop` finishes what it says it finishes.
* **Batch writer.** Two loops, `Stop` and a timed-out `GracefulShutdown` flush one
  buffer. Correct means: the newest state of a key reaches its row and is never
  overwritten by an older one, `Stop` leaves nothing behind of what was added before it
  (producers go on meanwhile), failures do not stall it.
* **Shutdown and restart.** What is not written when the process ends decides whether an
  order is signalled again.
* **Subscriptions** (pool manager, loader, managers). Correct means: an address that is
  wanted has live subscriptions after any sequence of disconnects, repairs, failures
  and changes of the table, and one that is not wanted has none.

* **Positions.** Callbacks of one address run at once, store four maps one after the other
  and outlive the subscription; three places name coins each in its own way. Correct
  means: a signal has the rates that the newest document gives.
* **SDK.** Goroutines share an `Exchange`; what is signed, what is posted and what the
  answer says have to agree, and documents come with fields missing, added or reordered.

`PROJECT.json` lists every component with its status and every hazard with its line.

## 2. Plan

Done, in this order, the most important behaviour first:

1. `OrderProcessor` and `OrderProcessorProofs`: aggregation, flushing, publication;
   `OrderSignals` is what the processor promises of each order.
2. `BatchWriter` and `BatchWriterProofs`: rows, with the process shutdown that drives it.
3. `PoolManager` and `PoolManagerProofs`: connections, disconnects, repair, migration;
   `SubscriptionRegistry` is the pool as its callers see it.
4. `AddressLoader` and `AddressLoaderProofs`: which addresses are watched.
5. `Ingest` and `IngestProofs`: dispatcher, callbacks, `oidToAddress`, the split of
   reversed orders.
6. `SignalPipeline` and `SignalPipelineProofs`: age limit, deduper, rows, cleaner and
   restarts, composed around an atomic order processor and batch writer.

7. `NonceSource`, `Exchange`, `ExchangeProofs`: the signed calls of the SDK, and the
   abstract source of nonces that `nextNonce` implements.
8. `EasyJson`, `ApiTypes`, `WsTypes`, `ActionTypes`, `ExchangeMethods`, `Codec`: the
   documents of the SDK; `Sdk` composes them with `Exchange`.
9. `Positions` and `PositionsProofs`: the webData2 callback, the position cache and rows, the symbol loader and
   what `buildSignal` reads of them.

Left:

10. `SignalMath`: weighted average price and the sizes of a split reversed order, against
    reference definitions over bounded inputs.

## 3. Modules

### OrderProcessor

Every goroutine is a process with a program counter; one step is one access to state
that another goroutine can see. `h[c]` is the `HandleMessage` call of the worker or of a
callback goroutine, `f[w]` the `flushOrder` call of a pool goroutine. A `PendingOrder` is
an object number `o` with its fields in functions of `o`, because goroutines keep using
it after it left `pendingOrders`. Sizes and prices are abstracted to the sequence of
trade ids in `fills`; `counted` is the sequence the totals were last computed from, and
a published signal carries it. `raced` is history: the objects that two handlers were adding
to at once.

| Actions | Code |
|---|---|
| `Enqueue`, `WorkerReceive` | `MessageQueue.Enqueue`, `worker` |
| `FillSeen`, `FillStatus`, `FillStore`, `FillCheck`, `FillTid`, `FillAppend`, `FillCalc`, `FillTotal`, `FillTrigger` | `handleOrderFill`, in its order; `FillTid` reads the slice that `FillAppend` writes back, `FillCalc` the one whose totals `FillTotal` assigns |
| `UpdateMark`, `UpdateDir`, `StatusRemove` | `UpdateStatus` and its loop over directions |
| `StatusExpire` | the TTL of the status tracker |
| `FlushSubmit`, `FlushGet`, `FlushBuild`, `FlushPublish`, `FlushPublishFail`, `FlushSetSent`, `FlushMark`, `FlushDelete`, `FlushClear` | `flushProcessor`, `flushOrder` |
| `Timeout`, `ScanStart`, `ScanKey` | five minutes pass; `scanTimeoutOrders` |
| `WriteBack` | the batch writer as its caller sees it |
| `Close` | `SubscriptionManager.Close`: queue, then processor |

`OrderSignals` is the promise, with no goroutines, objects or channels: an order is opened,
signalled (first while it is open, and never without trades), then marked in the deduper,
and only then let go. It allows what the code allows: a second signal of a signalled order
(`op_duplicate`) and the re-opening of one that was let go (section 6). `OpenOrders`,
`SentSignals` and the deduper are its three variables.

Left out: prices, sizes and symbols; metrics and logging; the 30-minute expiry of the
deduper (fills older than that are refused by the subscription manager, which is not in
this module); the insert into `hl_address_signals`, whose failure is only logged.

### BatchWriter

`made[k]` counts the states a producer made of key `k`; an item carries the number of
its state. A position item is a snapshot, an order item is a pointer, so its content is
read when the statement is built (`Content`). `fl[p]` is the `flushAll` call of
`receiveLoop`, `flushLoop`, `Stop` and `GracefulShutdown`: it visits the buffer key by
key, upserts table by table and deletes what it collected. `Map.Store` on a present key
is two steps (`Receive`, `Swap`), and the counter is a variable of its own (`length`).
`Shutdown` and `Exit` are the signal callback of `main.go` and the end of the process:
`cancel()` comes early in the callback, and `main` waits for nothing else. `Add` looks at no
flag, and the pool of flushes is released without waiting for it, so producers go on while
`Stop` runs and after it returned. `early` is history: how many items at the head of the queue
were there when `Stop` closed `done`.

### PoolManager

One goroutine subscribes and unsubscribes (the address loader, through the managers);
`op` is its call, one step per critical section or network call (`Call`). A link breaks
(`Break`), its read pump notices (`ReadFails`), and every notice starts
`handleDisconnect`, which gives up when another holds `reconnectMu` (`HandleDisconnect`);
`repair` is the one that does not (`Repair`: back-off, snapshot of the disconnected
wrappers, dial, swap, migration key by key). `Cancel` and `Close` are the shutdown;
`Cancel` closes the first connection, the only one dialled under the process's context.
`remote` is what the exchange serves, the only thing here that is not in the code.
`connections` never grows beyond the connection that `Start` made: a connection
`acquireConnection` makes is used and not appended. Back-off times and jitter are
abstracted: a sleeping repair wakes up.

`SubscriptionRegistry` is the pool without connections, network and repairs: callbacks per
key, the handles that were returned, and the first subscription of a key under way
(`Trying`). A call joins a subscribed key or tries to subscribe one; a failed try takes back
its own callback and no other, and so does the cancellation of a handle, as the design
documents have it. The code's `unsubscribe` deletes the key with all its callbacks; that step is
not the registry's, and `ImplementsRegistry` allows it by name (`DropsOthers`, beside the lines
of the documents that say otherwise). Disconnect, repair, migration and shutdown do not occur
in it.

### AddressLoader

`LoadAndSync` is a successful load and its comparison with `lastAddrs` and
`pendingRemove`; the calls it leads to follow one by one (`NextAdd`, `NextUnsubscribe`),
each in the steps of the managers' `SubscribeAddress` and `UnsubscribeAddress`, with the
pool failing anywhere. A failed load changes nothing and is no action. `pending` and
`unseen` hold ages, which stop at `Grace`, so that time is unbounded. `CloseManager` is
the `Close` of a manager, possibly during a call.

### Ingest

The exchange sends userFills messages (to the callback of their user) and orderUpdates
messages (to the callback of every address). The dispatcher turns each callback into a
task; tasks run in any order and interleave at every access to `oidToAddress`, the
deduper or the queue. `SubscribeAddress`, `UnsubscribeAddress` (with the clearing of the
mapping) and the marks of the order processor happen at any moment. The order inside the
queue is abstracted, since the tasks already come in any order; a full pool only delays a
task. `calm` and the field `mapped` are history.

### SignalPipeline

What keeps a fill from being signalled twice across restarts: `HandleFill` (age limit,
deduper, aggregation), `FlushOrder` (publication, mark, row into the buffer),
`BatchUpsert` and `RowLost` (the row is written later or never), `Clean` (the hourly
deletion), `Crash`, `Start`, `LoadFromDB` and `LoadFails` (which `main` only warns
about). The order processor and the batch writer are atomic, as their callers see them;
`OrderProcessor` and `BatchWriter` have the steps inside. A fill is handled in the unit
of time it arrives in. `written` and `lost` are history: which signals' rows reached the
table, and which the process forgot by dying first or by a failed load.

### Positions

One address; its webData2 messages are numbered as they arrive. A callback (`tasks[c]`) is
submitted (`Receive`), stores the spot prices (`SetSpotPrice`), computes totals, balances
and positions from the symbol and price tables of that moment (`Process`), enqueues the
row (`EnqueueRow`, or hands it on itself when the queue is full) and stores the four maps
one by one (`Set`). `cache[k]` is the number of the update a map holds, `data[n]` what was
computed from update `n`, as the maps hold pointers to it. A document without
`clearinghouseState` ends the callback in a nil dereference that the goroutine pool
recovers, with the prices stored. `Unsubscribe` stops new callbacks, not running ones, and
is followed by `Delete`, map by map. `SpotMeta`, `PerpMeta`, `PerpMetaFails`,
`SetPerpClean`, `SetPerpName` are the loader; a first load has to succeed before anything
else starts. `Fill` converts the symbol of an order, `SignalRate` and `SignalClose` are the
two reads of `buildSignal`. Coins are pairs of dex and name, symbols pairs of coin and
quote, so that prefixes, aliases and suffixes are what they are in the code without
strings being put together. The metadata are lists, read in their order: of two pairs with one
name the last is kept. Amounts are integers and a rate is a fraction. Messages that do not
parse or name another user only count. The batch writer is the last row handed to it.

What a signal should say is computed from the document alone: `TrueTotal` (a coin at the price
of its first market in USDC, USDT, USDH, the order of `position_manager.go:194`), `TrueHeld`
and `TrueClose`. The code names coins in three places without comparing them, so the rates can
only be demanded where names mean one thing, and the conditions are about the newest document
and the order at hand: `Priced` (for the rate of a spot order: each balance has at most one
market per quote, and the one that counts has a price in the document), `NamesOne` and
`HeldOnce` (for a close: the order names one listed coin, which the document has at most
once). `TrueClose` is 0 where the code never gives anything else, for the close of a short
and for a pair that is not quoted in USDC (`NotRated`).

### Exchange, NonceSource

`pc[c]` is the call of goroutine `c`: the query some methods make first (`Quote`), the loop
of `nextNonce` in its two atomic accesses (`LoadNonce` with the clock, `CompareAndSwap`),
`Sign`, `Post` and `Attach` (the two reads of `expiresAfter` in `postAction`; a nil between
them is a panic), `Reply`. Signing may return an error (`SignFails`, the nonce is gone) and
hashing may panic (`SignPanics`); an answer may be unusable, null or an object, and `Order`
dereferences the nil that a null answer leaves (`ReplyPanics`). A panic ends the process: only
`Restart` follows. The clock reads anything up to `MaxTime`, in any order.
`Restart` is a new `Exchange` that resumes with `SetLastNonce`. What the methods do with
an answer is in `Fails`. `NonceSource` is the promise: each nonce handed out is larger than
all before. Hashing and signing are abstracted to the values they cover.

### EasyJson, ApiTypes, WsTypes, ActionTypes, ExchangeMethods, Codec, Sdk

The generated code is one routine repeated for every type: a loop over keys with a
case per field. `EasyJson` has the routine once, as `Encode` and `Decode` over the kind of
a type; `ApiTypes`, `WsTypes` and `ActionTypes` give the kinds of the 133 types, field by
field with their keys, `omitempty` and nesting, as the generated code has them. Encoder and
decoder share a table because the generated ones have the same keys in every type; the fields
neither has are marked in it, and `Codec!NotRestored` names them once more as what
`DecodeRestores` does not demand (two of `SpotAssetCtx`). `ActionTypes` also has the msgpack forms that are signed. `ExchangeMethods` has one line
per method of `Exchange`: what it signs with, what it sends, how it reads the answer.
`Codec` follows one document: `Marshal`, `Arrive` (the other side reorders keys, adds
unknown ones, omits some or makes them null), `Unmarshal`, `Return`.

## 4. Runs

| Run | Instance | Shows |
|---|---|---|
| `op_worker` | a reversed order (two directions), a trade that may be redelivered, three messages, two pool goroutines, one-slot flush channel, `Close` at any moment | the safety properties and `OrderSignals`, with all messages handled by the worker |
| `op_sync` | one order, two trades, queue of one, one callback goroutine, one pool goroutine, batch writer, publishing may fail | with a callback handling messages concurrently with the worker: an order that no two handlers added to at once has all its trades in fills and totals, no trade id is twice in a pending order after the first fill, a row says sent only after the publication, every order is eventually signalled |
| `op_duplicate` | as `op_worker` | **violated** `AtMostOneSignal`: two overlapping flushes publish twice |
| `bw_shutdown` | both loops, `Stop` and `GracefulShutdown` flush, producers go on, the database fails, `main` may return | a row goes back only under overlapping flushes; what was added before `Stop` leaves queue and buffer, and is gone from both when `Stop` returns |
| `bw_newest` | two keys, no failures | **violated** `RestRowIsNewest`: a newer state is deleted unwritten |
| `pm_pool` | two keys, one subscription per connection, a break, a failing dial, shutdown | a subscription that looks alive is served, a repair finds every key it has to move and ends with the connection replaced, the pool implements `SubscriptionRegistry` but for `DropsOthers` |
| `pm_recover` | the same, dials succeed, no shutdown | **violated** `AutoReconnect`: a subscribed key stays on a dead connection |
| `al_sync` | two addresses, grace period of two, unbounded time, failing pool, `Close` | managers and loader agree, no subscription is orphaned, the grace period is honoured, the watched set follows the table |
| `in_callbacks` | two addresses, a reversed order and one in a foreign coin, three messages | a broadcast status is queued once and for its owner, accepted fills are queued under all directions, a status sent after the fills is not dropped |
| `sp_window` | one order, time 0 to 6, windows 2, 2 and 3, two fills, two signals | a fill is signalled once, an order again only after the window, over any crashes and restarts |
| `pos_signals` | two updates of three kinds, two callbacks, queue of one, an aliased perp listed after the start, pairs in two quotes, six orders with closes of a long and of a short | updates hide each other only when they overlap, only a late callback leaves an entry of a dropped address, an undisturbed signal has the rates of the newest document, a short's close 0 |
| `sdk_clients` | two goroutines, three calls, clock 0 to 2, every kind of method, signing that fails, every kind of answer; every type, with sample values and every damage of one key | nonces are fresh and implement `NonceSource`, signatures cover what is posted, no error means accepted, decoding restores, the signed form is the posted one |

The violated properties are statements of the repository's documents and tests, quoted in
`PROJECT.json` under findings.

**Bounds.** Three messages are enough for the hard cases of one order: create, append and
redeliver; status before, between and after fills; creation after deletion; two
concurrent appends to an existing order. One order is enough because orders only share
the bounded channels, which are one slot here, and the two keys of a reversed order
exercise that sharing in `op_worker`. Two pool goroutines give every overlap of two
flushes. In `op_sync` the second trade only comes last (`SecondTradeLast`): with it the order
has been created, appended to or redelivered before, and either handler can be in the middle
of that. In `BatchWriter` two or three versions of a key give every order of collect,
store and delete; more keys only repeat it. In `PoolManager` two calls of `Subscribe`
(of one key or of two) meet one broken link, and the shutdown's cancellation is a second
disconnect, so that repairs overlap with calls, with each other's notices and with
`Close`. In `Ingest` three messages let the fills of an order, its status and a
redelivery or a status of another order interleave under two addresses. In
`AddressLoader` two addresses give a load that adds one and drops the other, and ages
that saturate leave time unbounded. In `SignalPipeline` keys are independent; seven units
with windows of two let a window pass twice, and rows kept one unit longer than the
window exercise the cleaner; the theorems remove these bounds. In `Positions` two updates
give every overlap of two callbacks, with the deletion and with a signal; no property
speaks of what the constraint `Explored` leaves out (what follows a finished signal,
reloads together with overlapping updates, orders of an address that is not watched). In
`Exchange` three calls of two goroutines lose a race and try again, with a clock that
stands still and goes back; `ExchangeProofs` removes the bounds. A document and a call
share no state, so `Sdk` follows documents before the first call only.

**Fairness.** `OrderProcessor!Fairness`: goroutines that can run do (Go scheduler), the
ticker fires, five minutes pass, a call to NATS returns, and a publication retried for
ever succeeds for ever (strong fairness of `FlushPublish`; the NATS client reconnects
without limit). No fairness on `Enqueue`: nobody promises another message.
`BatchWriter!Fairness`: both loops and the flushes they are in run, the ticker ticks, and
a shutdown that began goes on. Upserts may fail for ever.
`PoolManager!Fairness`: a call, a repair and a waiting `handleDisconnect` go on, a read on
a broken link fails in the end (the read deadline), dials fail a bounded number of times.
`AddressLoader!FairSpec`: the loader's goroutine runs, its ticker fires with loads that
succeed again and again, time passes. Nothing forces the table to change or a manager to
close.

**Deadlock** is not checked where the system may really stop: after `Close` or the
shutdown (`op_worker`, `bw_shutdown`, `pm_pool`, `al_sync`), and when the
environment has sent all the messages, breaks or units of time of its bound and nothing
is left to do (`pm_recover`, `in_callbacks`, `sp_window`, `pos_signals`).

## 5. Proofs

`OrderProcessorProofs` proves for every set of orders, directions, trade ids and
messages, any number of callback and pool goroutines, any channel capacities and any
bound on messages, from `ConstantsAssumption` only (directions and statuses are what they
are named, capacities are positive):

| Theorem | Property |
|---|---|
| `TypeCorrect` | `TypeOK` |
| `NoOrderIsLost` | `NoOrderLost` |
| `ProcessorKeepsPromise` | `ImplementsOrderSignals` (the refinement) |
| `RemovedOrdersAreMarked` | a signalled order that is not pending is in the deduper (`RemovedIsMarked`) |
| `SentRowsWerePublished` | `SentRowWasPublished` |
| `PublishedOncePerFlusher` | `OncePerFlusher` |
| `PendingTailsAreUnique` | `PendingTailUnique` |
| `StopAbandonsOnlyScans` | `StopDrainsFlushes`, while the queue has room |
| `StatusesAreNotStranded` | `StatusNotStranded`, while the queue has room |
| `TradesAreCounted` | `TradesCounted` |
| `RoomyQueueHasOneHandler` | a queue with a place for every message always has room |

None of the properties is inductive. The argument is in layers, each an inductive
invariant relative to the ones before it:

1. *Shape*: `TypeOK` with what every goroutine's local state may hold at each program
   counter (`HandlersOK`, `FlushersOK`), and that `pendingOrders` and the writer's buffer
   lead to objects of their own key (`ObjectsOK`).
2. *Delivery*: how far a flush has come is visible outside it (`SentOK`): past the
   publication there is a signal for its key, past the mark its key is in the deduper, and
   an object is `signalSent` only if its key was signalled. With that the deletion of a key
   can only remove an order that was signalled and marked, which gives `NoOrderLost`,
   `RemovedIsMarked` and, since rows copy `signalSent`, `SentRowWasPublished`. With
   `CountedOK`, that every order and every signal about to be sent has trades, it also
   gives the refinement: `FillStore` is `Open`, `FlushPublish` is `Signal` (its order is
   pending, or an earlier signal was what let it go), `FlushMark` is `Mark`, `FlushDelete`
   is `Remove`, and every other step is a stutter.
3. *Once*: a published signal's flush is about to set `SignalSent`, or it is set
   (`PublishedOK`); so a goroutine that passed the check holds an object it has not
   published.
4. *Tails*: why no trade id is twice in a pending order after the first fill, also with
   concurrent appends that lose one another (`TailOK`): ids after the first are in
   `seenTids`, which is cleared only for an object that is no longer pending, and a
   handler about to append owns its id (`OwnsTid`).
5. *Whole*: an order that no two handlers were adding to at once has each trade it accepted
   in its fills or in the hands of the one handler that is adding to it, whose copy of the
   slice is still the order's (`WholeOK`). It needs no hypothesis on the queue: the exception
   is in the property, `raced`.
6. *One handler*: `Enqueue` runs a message in the calling goroutine when the channel is
   full, and then `StopDrainsFlushes` and `StatusNotStranded` are false. Their theorems assume
   `[]WorkerOnly`, that no callback is handling a message; `RoomyQueueHasOneHandler` shows
   that this follows from a large enough queue, so the hypothesis is satisfiable, and
   `op_worker` has such a queue. `CloseOK`: the worker leaves before the flush processor,
   so the drained channel only gets requests of the scanner. `StrandedOK`: a status in the
   tracker and an unsent order of one key exist together only while the worker is on its
   way to bring them together. It needs that order updates carry no direction, which is
   how `handleWsOrderUpdates` sends them (`subscription_manager.go:300`).
   `StatusesAreNotStranded` says no more than that a status does not sit in the tracker,
   between messages, beside an unsent order it applies to. It does not say that the order
   was flushed: a trigger that was dropped, or that was for the other direction of the order,
   removes the status as well, and the order then waits for the scan.

`BatchWriterProofs` proves for every set of keys, every channel capacity and batch size
and every choice of the failure switches, from `BatchWriterAssumption`:

| Theorem | Property |
|---|---|
| `TypeCorrect` | `TypeOK` |
| `StopDrainsEverything` | `StopDrains` |
| `RowsNeverGoBack` | `RowNeverGoesBack` (an action property) |

`FlushesOK` says which flushes can run together and what the exit of a loop means: the
flush of `Stop` runs only after both loops, and `receiveLoop` leaves nothing in the queue of
what was there when `done` was closed. Nothing is assumed of the producers. `StopOK` follows that flush: what the buffer holds it has still to visit or has read and
has still to delete. `RowsOK` orders the copies of a position: row, snapshot of the flush,
buffer, item in hand and queue hold ever newer versions, and each snapshot under way is at
least as new as the row; it holds until two flushes overlap (`contended`).

`PoolManagerProofs` proves for every set of keys, any limits and any number of calls,
breaks and failed dials, from `PoolManagerAssumption`:

| Theorem | Property |
|---|---|
| `TypeCorrect` | `TypeOK` |
| `PoolIsARegistry` | `ImplementsRegistry` (the refinement) |
| `NoCallbackIsStale` | a registered callback belongs to a handle or to the call under way |
| `KeysAreRecordedAtHome` | `RecordedAtHome` |
| `KeysAreServedWhenUp` | `ServedWhenUp` |
| `PoolNeverGrows` | at most the connection of `Start` is in `connections` |

`Shape` ties the locals of the call and of the repair to their program counters: above all
that the connection in hand was dialled. `CallbacksOK` adds that a key without a
subscription has no callback, and that a call between its checks and its store finds the
key still free, there being one caller. `SubscribedOK` is `RecordedAtHome` and
`ServedWhenUp` with the exceptions of the steps in the middle: the call that stored the
key and has still to write and record it, or the migration that moved it and has still to
add it to the new wrapper.

The refinement needs `RegistryOK` besides. `RegisteredOK`: a subscribed key has a callback,
and one whose first call is under way has that call's only, so that `Rollback`, which deletes
the whole entry, takes back nothing else. `NumberedOK`: `callbackIDSeq` is ahead of every id
in use, so that each call registers a fresh one. Then `Subscribe` of a subscribed key is
`Join`, `StoreSubscription` is `Try` (its second check for the key never succeeds, there being
one caller), `RecordSubscription` is `Succeed`, `Rollback` is `Fail`, `Unsubscribe` is `Cancel`
if the handle's callback is the key's only one and `DropsOthers` if not, and every other step
is a stutter.

`IngestProofs` proves for every set of addresses and orders, every assignment of orders to
owners and any number of messages, from `IngestAssumption`:

| Theorem | Property |
|---|---|
| `TypeCorrect` | `TypeOK` |
| `StatusIsQueuedOnce` | `StatusOncePerUpdate` |
| `FillsAreQueued` | `FillsReachQueue` |
| `MappedStatusIsQueued` | `MappedStatusReachesQueue` |

The properties speak of the moments when callbacks have finished; the invariant follows
the ones at work. `TasksOK`: past the load an update's callback is the owner's, there is
one per address and message, and it has queued the status exactly when only the deletion
of the mapping is left. `FillsOK`: a fill that has to be queued and is not is
before a callback. `StatusOK`: until an unsubscription (`calm`) a final status whose order
was mapped when it was sent is queued, or the owner's callback carries it and the mapping
it needs is there, or another final status of the order, which removed the mapping, is
queued. `CalmOK` is why no callback of an address that is not watched can be in between.

`PositionsProofs` proves for any number of callback goroutines and updates, any documents,
orders and metadata and any queue capacity, from `PositionsAssumption`, `ListsAssumption`
(metadata come as lists) and `DocsAssumption` (amounts are integers):

| Theorem | Property |
|---|---|
| `NewerUpdatesWin` | `StaleOnlyIfOverlapping` |
| `DroppedIsForgotten` | `ForgottenUnlessLate` |
| `SignalsFollowUpdates` | `SignalFollowsUpdate` |

`OverlapOK`: an update still in a callback overlaps with every later one. `StoredOK` and
`RowOK` extend the property from finished updates to those whose callback has passed the
map, or the row queue, in question: each map, and the last row on its way, holds something
that hides them rightly. `LateOK`: while the address is not subscribed, what is stored, or
will be, and not yet deleted comes from callbacks that were running when it was dropped.

`SignalsFollowUpdates` follows a value from the document to the signal, and `SignalInv` has a
part for each place it passes: the loader's tables (`SymbolsOK`, and `StartedOK`, nobody reads
them before the first load), the price table (`PricesOK`: an update that overlaps with no
other finds its own prices), what a callback computed (`DataOK`: it is what the document
says, coins under their clean names), the four maps (`CacheOK`, `NewestOK`, and `StoredOK` from
above: between callbacks they hold the newest update), the order's symbol (`OrderOK`) and the
rates read (`QuietOK`). A total is a sum over the elements of a document; it is compared
with the expected one as the sum of the same function over the same set, so that no
induction is needed. There is no hypothesis on pairs, perps or names: `SymbolsOK` says of any
metadata that an entry of the perp table leads to a perp with that name among its `Names`, and
of the spot tables that they have the last pair of each name (`LastIn`: a non-empty set of
positions in a list has a largest one). The conditions of the property on the document and the
order then leave one coin that the entry can be.

`AddressLoaderProofs` proves for every set of addresses and every grace period, from
`AddressLoaderAssumption`:

| Theorem | Property |
|---|---|
| `TypeCorrect` | `TypeOK` |
| `ManagersFollowLoader` | `ManagersMatchLoader` |
| `NoSubscriptionIsOrphaned` | `NoOrphanSubscription` |
| `GraceIsHonoured` | `GraceHonoured` |

`ManagersMatchLoader` speaks of the moments between loads only, so the invariant follows
the calls: `CallsOK` says which address a call under way may be about, `BooksOK` that
each manager's addresses are `lastAddrs` without the ones still to be added to it and
with the ones still to be dropped, and `HandlesOK` that a pool subscription without a
handle belongs to the call under way, at a step that is about to keep or to cancel it.

`SignalPipelineProofs` proves for every set of orders, every number of fills, signals and
units of time and every choice of the three windows with `MaxAge <= TTL <= Keep`, which
is what `SignalPipelineAssumption` asks for:

| Theorem | Property |
|---|---|
| `TypeCorrect` | `TypeOK` |
| `OrdersResignalledAfterWindow` | `ResignalGap` |
| `FillsSignalledOnce` | `FillSignalledOnce` |

The last two are not inductive, since a signal is remembered in two places that both forget. The
invariant says that they forget late enough. `WindowOK` holds of every signal that is not
`lost`, until `TTL` after its last fill: a running process has it in the deduper, marked
not before that fill (`Remembered`); once its row was written the row can be read back,
and a process that is not running has written it (`Recorded`); and whatever is pending or
buffered for its order is the signal itself or was created after the window (`Later`).
`FreshOK` bounds ages: an order is created at most `MaxAge` after each of its fills.
`TTL <= Keep` is needed so that the cleaner deletes no row a restart still has to read;
`MaxAge <= TTL` so that a fill in an order created after the window comes after every
fill of the former signal.

`ExchangeProofs` proves for every set of goroutines and methods, every vault and expiry,
any clock and any number of calls, from the assumptions of `Exchange` (there is a method,
nil is an expiry, the bounds are numbers):

| Theorem | Property |
|---|---|
| `TypeCorrect` | `TypeOK` |
| `NoncesAreFresh` | `NonceIsFresh` |
| `NextNonceIsASource` | `ImplementsNonceSource` (the refinement) |
| `SignaturesCoverPayloads` | `SignatureCoversPayload` |
| `NoErrorAccepted` | `NoErrorMeansAccepted` |

`NonceIsFresh` is not inductive: a goroutine between the load and the swap has a candidate
that may already be taken. `NonceInv` says that everything handed out is at most
`lastNonce`, that every nonce used was handed out, that a goroutine about to swap has a
candidate larger than what it loaded, that the nonces held were handed out, and
`NonceIsFresh` itself; the swap
succeeds only if what was loaded still is `lastNonce`, so the candidate is larger than
everything handed out. The same facts make each successful swap a step of `NonceSource`
and every other step a stutter. `NoErrorAccepted` is about `Order` and the cancel methods.
It covers null answers: the cancel methods return an error for nil and `Order` panics.

Only model-checked: the liveness properties (`EveryOrderSignalled`, `BuffersDrain`,
`DisconnectedIsReplaced`, `Converges`), which are out of the prover's reach, and
`DecodeRestores` and `SignedAsPosted`, since `EasyJson` is recursive.

## 6. Not modelled

See the components with status `not_modelled` in `PROJECT.json`. Beyond the plan above:
configuration, metrics, health endpoints, logging, the pair category cache and the
generated query code, which hold no protocol of their own; the SDK's websocket client,
which the monitor does not use; hashing and elliptic-curve signing.

Behaviour met while modelling. Stated by a property, as an exception of what it demands:

* Two handlers that append to one order without a lock, which the full queue allows, lose a
  fill or leave it out of the totals (`order_processor.go:264`; `raced` in `TradesCounted`).
* `pool.Release` does not wait for running flushes (`order_processor.go:639`), so rows are added
  during and after `Stop`; one that comes after `receiveLoop` returned is lost (`StopDrains`
  is about what was queued before).
* `unsubscribe` deletes a key although other callbacks remain (`pool_manager.go:231`;
  `DropsOthers` in `ImplementsRegistry`).
* A close of a short position always has rate 0, its size being negative
  (`order_processor.go:588`), and so has the sale of a pair that is not quoted in USDC, of
  whose symbol only "USDC" is stripped (`:582`), where `README.md:19` and `nats/signal.go:20`
  promise the closed size over the position (`NotRated` in `SignalFollowsUpdate`).
* Two fields of `SpotAssetCtx` are unknown to the generated code (`types.go:118`, `:124`;
  `NotRestored` in `DecodeRestores`).
* `Order` dereferences the nil of a null answer (`exchange_orders.go:123`; `ReplyPanics`).

Stated by none:

* Order processing. A deduper answer read before a
  flush and used after it re-creates a signalled order (`:180`). A redelivered first fill
  is counted twice, its trade id not being recorded (`:214`). The queue worker leaves with
  messages still queued (`message_queue.go:48`). A trigger for one direction of a reversed
  order removes the status of both, and the other direction waits for the scan.
* Rows and restarts. `receiveLoop` and `flushLoop` can write an older state over a newer
  one (`batch_writer.go:117`). The counter of the concurrent map can drift below the
  number of its keys (`map.go:39`). The process ends without waiting for the batch writer
  (`main.go:151`). A process that dies between publication and row write signals the order
  again after its restart (`order_processor.go:454`; `main.go:108` names the load as the
  protection), as does one whose load failed, which is only a warning. Pending orders are
  written but not read back at start.
* Callbacks. A status that comes before the first fill of its order is handled is dropped
  (`subscription_manager.go:245`). `UnsubscribeAddress` clears the mapping of every
  address, its loop variable shadowing the argument (`:143`).
* Subscriptions. An address whose pool subscription failed stays in `addresses` and
  `lastAddrs` and is not tried again (`subscription_manager.go:115`, `loader.go:129`). A
  connection made by `acquireConnection` is not appended, so that it is neither counted
  against `max_connections` nor repaired (`pool_manager.go:257`). A disconnect that finds
  `reconnectMu` taken is dropped (`:315`). An unsubscription during a migration leaves the
  key subscribed at the exchange.
* Positions. A callback that outlives the unsubscription leaves an entry that nothing
  deletes (`position_manager.go:323`). The loader names a pair
  with the raw quote token ("BTCUSDT0"), the valuation looks for "BTCUSDT"
  (`loader.go:108`, `position_manager.go:195`). A coin of the dex "xyz" and one of the main
  dex with one name share a symbol, and the first position found is taken for both. With
  the queue full the row of a newer update is written before an older one still queued
  (`message_queue.go:55`).
* SDK. `triggerPx` is a number in the signed form and a string in the posted one;
  `BuilderInfo` and `PerpDexSchemaInput` have no msgpack tags; `newOrderTypeWire` drops
  trigger price and tpsl. An unknown coin is asset 0 (`NameToAsset`). `BulkOrders` returns
  no error for status err, `ModifyOrder` and `BulkModifyOrders` ignore errors of items,
  methods with a plain result ignore the status. Methods that sign with the empty vault
  still post `e.vault`. `SetExpiresAfter` between signing and posting makes the request
  differ from what was signed, and nil between the two reads of `postAction` panics. A
  restart without `SetLastNonce` relies on the clock not being set back.
