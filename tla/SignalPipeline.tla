--------------------------- MODULE SignalPipeline ---------------------------
(***************************************************************************)
(* What keeps a trade from being signalled twice across restarts: the age  *)
(* limit for fills (subscription_manager.go), the deduper with its TTL     *)
(* (dedup_cache.go, deduper.go), the rows it is reloaded from when the     *)
(* process starts (main.go, order_aggregation.go) and the cleaner that     *)
(* deletes them (cleaner.go).                                              *)
(*                                                                         *)
(* The order processor and the batch writer appear as their callers see    *)
(* them: a fill is handled, and an order flushed, in one step; a row is    *)
(* written later, or never.  Module OrderProcessor has the steps inside.   *)
(* Time counts units; a fill is handled in the unit in which it arrives.   *)
(***************************************************************************)
EXTENDS Integers, Sequences, FiniteSets

CONSTANTS
    Orders,    \* order keys: address, oid and direction
    NoAgg,     \* no aggregation, no row
    MaxAge,    \* age above which handleWsOrderFills skips a fill (30 minutes)
    TTL,       \* of the deduper, and the window LoadFromDB reads (30 minutes)
    Keep,      \* age above which the cleaner deletes a row (2 hours)
    MaxTime,   \* bound: units of time
    MaxTrades, \* bound: fills of an order
    MaxSignals \* bound: signals

ASSUME SignalPipelineAssumption ==
    /\ MaxAge \in Nat /\ TTL \in Nat /\ Keep \in Nat
    /\ MaxTime \in Nat /\ MaxTrades \in Nat /\ MaxSignals \in Nat
    /\ MaxAge <= TTL /\ TTL <= Keep

VARIABLES
    now,     \* the clock
    trades,  \* order -> times of its fills at the exchange, which name them
    process, \* "down", "starting" (before LoadFromDB), "running"
    pending, \* pendingOrders
    dedup,   \* order -> time of its Mark, or NotMarked
    buffer,  \* the batch writer: order -> what it will write
    rows,    \* hl_order_aggregation
    signals, \* signals published, in order
    written, \* history: signals whose row, with signal_sent, was written
    lost     \* history: signals a crash or a failed load made the process forget

vars == <<now, trades, process, pending, dedup, buffer, rows, signals, written, lost>>

NotMarked == -1
Times     == 0 .. now

\* The fields of OrderAggregation (and of the PendingOrder around it) that
\* matter here; sig is the number of the signal, 0 as long as SignalSent is
\* FALSE.
Agg(fills, tids, created, last, updated, sig) ==
    [fills |-> fills, seenTids |-> tids, created |-> created,
     lastFillTime |-> last, updatedAt |-> updated, sig |-> sig]

Init ==
    /\ now = 0 /\ trades = [o \in Orders |-> {}] /\ process = "down"
    /\ pending = [o \in Orders |-> NoAgg] /\ dedup = [o \in Orders |-> NotMarked]
    /\ buffer = [o \in Orders |-> NoAgg] /\ rows = [o \in Orders |-> NoAgg]
    /\ signals = <<>> /\ written = {} /\ lost = {}

-----------------------------------------------------------------------------
(* The world *)

Tick ==
    /\ now < MaxTime
    /\ now' = now + 1
    /\ UNCHANGED <<trades, process, pending, dedup, buffer, rows, signals, written, lost>>

Trade(o) ==
    /\ Cardinality(trades[o]) < MaxTrades
    /\ trades' = [trades EXCEPT ![o] = @ \cup {now}]
    /\ UNCHANGED <<now, process, pending, dedup, buffer, rows, signals, written, lost>>

-----------------------------------------------------------------------------
(* A fill, new or sent again, from handleWsOrderFills to the batch writer *)

\* Mutant of TooOld: an age limit in other units than the deduper's TTL.
TooOldLate(t) == now - t > 2 * MaxAge

TooOld(t) == now - t > MaxAge

\* IsSeen: go-cache drops an entry only after its expiration time.
IsSeen(o) == dedup[o] # NotMarked /\ now <= dedup[o] + TTL

\* The aggregation with one more fill.
Appended(agg, t) ==
    Agg(agg.fills \cup {t}, agg.seenTids \cup {t}, agg.created, now, now, 0)

\* A fill that is skipped changes nothing and is no step.
HandleFill(o, t) ==
    /\ process = "running"
    /\ ~TooOld(t) /\ ~IsSeen(o)
    /\ \/ /\ pending[o] = NoAgg
          /\ pending' = [pending EXCEPT ![o] = Agg({t}, {}, now, now, now, 0)]
       \/ /\ pending[o] # NoAgg /\ t \notin pending[o].seenTids
          /\ pending' = [pending EXCEPT ![o] = Appended(pending[o], t)]
    /\ buffer' = [buffer EXCEPT ![o] = pending'[o]]
    /\ UNCHANGED <<now, trades, process, dedup, rows, signals, written, lost>>

Mark(o) == [dedup EXCEPT ![o] = now]

\* Mutant of Removed: the order stays among the pending ones.
RemovedNot(o) == pending

Removed(o) == [pending EXCEPT ![o] = NoAgg]

\* flushOrder after a final status or the timeout.  A publication that fails
\* changes nothing.
FlushOrder(o) ==
    /\ process = "running" /\ pending[o] # NoAgg /\ Len(signals) < MaxSignals
    /\ LET agg == pending[o] IN
       /\ signals' = Append(signals, [order |-> o, fills |-> agg.fills, created |-> agg.created,
                                      lastFillTime |-> agg.lastFillTime])
       /\ buffer' = [buffer EXCEPT ![o] = Agg(agg.fills, agg.seenTids, agg.created,
                                              agg.lastFillTime, now, Len(signals) + 1)]
    /\ dedup' = Mark(o)
    /\ pending' = Removed(o)
    /\ UNCHANGED <<now, trades, process, rows, written, lost>>

-----------------------------------------------------------------------------
(* Rows *)

BatchUpsert(o) ==
    /\ process # "down" /\ buffer[o] # NoAgg
    /\ rows' = [rows EXCEPT ![o] = buffer[o]]
    /\ buffer' = [buffer EXCEPT ![o] = NoAgg]
    /\ written' = IF buffer[o].sig = 0 THEN written ELSE written \cup {buffer[o].sig}
    /\ UNCHANGED <<now, trades, process, pending, dedup, signals, lost>>

\* Add is refused, or the statement fails and the item is dropped.
RowLost(o) ==
    /\ buffer[o] # NoAgg
    /\ buffer' = [buffer EXCEPT ![o] = NoAgg]
    /\ UNCHANGED <<now, trades, process, pending, dedup, rows, signals, written, lost>>

DeleteOld == {o \in Orders : rows[o] # NoAgg /\ rows[o].updatedAt < now - Keep}

\* The cleaner, at the start and every hour.
Clean ==
    /\ process # "down" /\ DeleteOld # {}
    /\ rows' = [o \in Orders |-> IF o \in DeleteOld THEN NoAgg ELSE rows[o]]
    /\ UNCHANGED <<now, trades, process, pending, dedup, buffer, signals, written, lost>>

-----------------------------------------------------------------------------
(* Start and end of the process *)

Start ==
    /\ process = "down"
    /\ process' = "starting"
    /\ UNCHANGED <<now, trades, pending, dedup, buffer, rows, signals, written, lost>>

\* Mutant of GetSentOrdersSince: the boundary of the window is left out.
GetSentOrdersAfter(since) ==
    {o \in Orders : rows[o] # NoAgg /\ rows[o].sig # 0 /\ rows[o].lastFillTime > since}

GetSentOrdersSince(since) ==
    {o \in Orders : rows[o] # NoAgg /\ rows[o].sig # 0 /\ rows[o].lastFillTime >= since}

\* Every order that is found is marked anew; only then are addresses subscribed.
LoadFromDB ==
    /\ process = "starting"
    /\ process' = "running"
    /\ dedup' = [o \in Orders |-> IF o \in GetSentOrdersSince(now - TTL) THEN now ELSE NotMarked]
    /\ UNCHANGED <<now, trades, pending, buffer, rows, signals, written, lost>>

\* An error is logged and the process goes on with an empty deduper.
LoadFails ==
    /\ process = "starting"
    /\ process' = "running"
    /\ lost' = 1 .. Len(signals)
    /\ UNCHANGED <<now, trades, pending, dedup, buffer, rows, signals, written>>

\* The process ends at any moment, or after a shutdown whose writes are the
\* BatchUpsert steps before it.
Crash ==
    /\ process # "down"
    /\ process' = "down"
    /\ pending' = [o \in Orders |-> NoAgg] /\ dedup' = [o \in Orders |-> NotMarked]
    /\ buffer' = [o \in Orders |-> NoAgg]
    /\ lost' = lost \cup (1 .. Len(signals) \ written)
    /\ UNCHANGED <<now, trades, rows, signals, written>>

-----------------------------------------------------------------------------
Next ==
    \/ Tick \/ Clean \/ Start \/ LoadFromDB \/ LoadFails \/ Crash
    \/ \E o \in Orders :
          \/ Trade(o) \/ FlushOrder(o) \/ BatchUpsert(o) \/ RowLost(o)
          \/ \E t \in trades[o] : HandleFill(o, t)

Spec == Init /\ [][Next]_vars

-----------------------------------------------------------------------------
(* Properties *)

Aggs == [fills : SUBSET Times, seenTids : SUBSET Times, created : Times,
         lastFillTime : Times, updatedAt : Times, sig : 0 .. Len(signals)]

Signals == [order : Orders, fills : SUBSET Times, created : Times, lastFillTime : Times]

\* An aggregation whose times are in their order.
AggOK(agg) ==
    /\ agg \in Aggs
    /\ \A t \in agg.fills : t <= agg.lastFillTime
    /\ agg.created <= agg.lastFillTime /\ agg.lastFillTime <= agg.updatedAt

AggMap(f) == \A o \in Orders : f[o] = NoAgg \/ AggOK(f[o])

\* Types; times are in their order; a pending order is not signalled and not
\* marked; a process that is not running has nothing in memory.
TypeOK ==
    /\ now \in 0 .. MaxTime /\ trades \in [Orders -> SUBSET Times]
    /\ process \in {"down", "starting", "running"}
    /\ \A f \in {pending, buffer, rows} : f \in [Orders -> Aggs \cup {NoAgg}] /\ AggMap(f)
    /\ dedup \in [Orders -> Times \cup {NotMarked}]
    /\ signals \in Seq(Signals)
    /\ written \subseteq 1 .. Len(signals) /\ lost \subseteq 1 .. Len(signals)
    /\ \A o \in Orders : pending[o] # NoAgg => pending[o].sig = 0 /\ ~IsSeen(o)
    /\ process # "running" =>
          \A o \in Orders : pending[o] = NoAgg /\ buffer[o] = NoAgg /\ dedup[o] = NotMarked

\* Two signals of one order, the first of which was not forgotten.
Successive(i, j) ==
    i < j /\ i \notin lost /\ signals[i].order = signals[j].order

\* No fill is in two signals, over any number of restarts, redeliveries and
\* cleanings, unless the process died before the first signal's row was written
\* or could not read the rows when it started.
FillSignalledOnce ==
    \A i, j \in 1 .. Len(signals) : Successive(i, j) => signals[i].fills \cap signals[j].fills = {}

\* An order is aggregated anew, and signalled again, only after the window that
\* starts with the last fill of its former signal has passed; a restart does
\* not shorten it.
ResignalGap ==
    \A i, j \in 1 .. Len(signals) :
        Successive(i, j) => signals[j].created > signals[i].lastFillTime + TTL
=============================================================================
