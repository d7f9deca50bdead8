--------------------------- MODULE OrderProcessor ---------------------------
(***************************************************************************)
(* The order aggregation core of hl_monitor: the message queue             *)
(* (processor/message_queue.go), the fill and status handlers, the flush   *)
(* channel, the flush pool and the timeout scanner                         *)
(* (processor/order_processor.go), the status tracker                      *)
(* (processor/status_tracker.go) and the deduper (cache/dedup_cache.go).   *)
(*                                                                         *)
(* Every goroutine is a process.  One step of a process is one access to   *)
(* state it shares with the others, so that the interleavings are those    *)
(* of the running program.  A PendingOrder is an object with an identity   *)
(* o, and its fields are functions of o: goroutines keep pointers to it    *)
(* after it left pendingOrders.                                            *)
(*                                                                         *)
(* Prices and sizes are abstracted: an object keeps the sequence of trade  *)
(* ids (tids) in fills, and in counted the fills from which TotalSize and  *)
(* WeightedAvgPx were last computed.                                       *)
(***************************************************************************)
EXTENDS Integers, Sequences, FiniteSets

CONSTANTS
    Orders,         \* (address, oid) pairs
    Dirs,           \* the fill directions that can arrive
    KnownDirs,      \* the directions UpdateStatus and buildSignal know
    Tids,           \* trade ids
    Statuses,       \* terminal order statuses
    OpenStatuses,   \* "open" and "triggered"
    NoStatus,       \* no status recorded
    NoDir,          \* the empty direction of an order update
    Filled,         \* the status a timeout flush writes
    Msgs,           \* the messages that may be delivered
    Worker,         \* the goroutine of MessageQueue.worker
    Callers,        \* websocket callback goroutines, which call Enqueue
    Flushers,       \* goroutines of the flush pool
    QueueCap,       \* capacity of MessageQueue.queue
    FlushCap,       \* capacity of flushChan, plus one for a blocked Submit
    MaxMsgs,        \* bound: messages delivered in one behaviour
    HasBatchWriter, \* FALSE: batchWriter is nil and nothing is persisted
    CanStop         \* TRUE: SubscriptionManager.Close may be called

FillMsgs == [type : {"fill"}, order : Orders, dir : Dirs, tid : Tids]

UpdateMsgs == [type : {"update"}, order : Orders, dir : Dirs \cup {NoDir},
               status : Statuses \cup OpenStatuses]

ASSUME ConstantsAssumption ==
    /\ KnownDirs \subseteq Dirs
    /\ NoDir \notin Dirs
    /\ NoStatus \notin Statuses \cup OpenStatuses
    /\ Statuses \cap OpenStatuses = {}
    /\ Filled \in Statuses
    /\ Msgs \subseteq FillMsgs \cup UpdateMsgs
    /\ Worker \notin Callers
    /\ QueueCap \in Nat \ {0}
    /\ FlushCap \in Nat \ {0}
    /\ MaxMsgs \in Nat
    /\ HasBatchWriter \in BOOLEAN
    /\ CanStop \in BOOLEAN

VARIABLES
    queue,      \* MessageQueue.queue
    offered,    \* number of messages delivered so far (bound only)
    h,          \* handler goroutines: the HandleMessage call each is in
    pending,    \* pendingOrders: key -> object, 0 when absent
    nobj,       \* number of PendingOrder objects allocated; their fields:
    okey, fills, counted, seenTids, signalSent, orderStatus,
    raced,      \* history: objects two handlers were adding a fill to at once
    timedOut,   \* FirstFillTime is older than the timeout
    tracker,    \* statusTracker: order -> status
    deduper,    \* keys marked in the dedup cache
    flushChan,  \* flushChan, with the request flushProcessor is submitting
    f,          \* pool goroutines: the flushOrder call each is in
    published,  \* signals accepted by NATS, in order
    writes,     \* BatchWriter: key -> object to be written, 0 when none
    db,         \* hl_order_aggregation rows
    scan,       \* keys scanTimeoutOrders has still to visit
    phase,      \* progress of SubscriptionManager.Close
    exited      \* background goroutines that returned

inVars    == <<queue, offered>>
fillVars  == <<fills, counted, seenTids, raced>>
objVars   == <<nobj, okey, fillVars, signalSent, orderStatus, timedOut>>
orderVars == <<pending, objVars>>
cacheVars == <<tracker, deduper>>
storeVars == <<writes, db>>
ctlVars   == <<scan, phase, exited>>
vars == <<inVars, h, orderVars, cacheVars, flushChan, f, published, storeVars, ctlVars>>

-----------------------------------------------------------------------------
Handlers  == Callers \cup {Worker}
Keys      == Orders \X Dirs
Objs      == 1 .. MaxMsgs
AnyStatus == Statuses \cup {NoStatus}

\* A flush request.  The trigger label only feeds a metric and is left out.
Requests == [key : Keys, status : Statuses]

\* "Nothing here" for a key, a message and a flush request.
NoKey == <<>>
NoMsg == <<>>
NoReq == <<>>

\* A row of hl_order_aggregation; no fills means there is no row.
Rows  == [sent : BOOLEAN, status : AnyStatus, fills : Seq(Tids)]
NoRow == [sent |-> FALSE, status |-> NoStatus, fills |-> <<>>]
RowOf(o) == [sent |-> signalSent[o], status |-> orderStatus[o], fills |-> fills[o]]

\* The local variables of a HandleMessage call: st is the status it carries
\* (preMarkedStatus for a fill), obj the *PendingOrder it holds, snap the slice
\* it appends to or sums up, todo the directions its loop has still to visit.
HandlerPc == {"idle", "seen", "status", "store", "check", "tid", "append", "calc",
              "total", "trigger", "mark", "dirs", "remove"}
HandlerState ==
    [pc : HandlerPc, msg : Msgs \cup {NoMsg}, st : AnyStatus, obj : 0 .. MaxMsgs,
     snap : Seq(Tids), todo : SUBSET Dirs]
Handling(pc, m, st, o) ==
    [pc |-> pc, msg |-> m, st |-> st, obj |-> o, snap |-> <<>>, todo |-> {}]
Holding(pc, m, st, o, s) ==
    [pc |-> pc, msg |-> m, st |-> st, obj |-> o, snap |-> s, todo |-> {}]
Visiting(pc, m, st, S) ==
    [pc |-> pc, msg |-> m, st |-> st, obj |-> 0, snap |-> <<>>, todo |-> S]
HIdle == Handling("idle", NoMsg, NoStatus, 0)

\* The local variables of a flushOrder call: counted is the size and price of
\* the signal it built.
FlusherPc == {"idle", "get", "build", "publish", "sent", "dedup", "delete", "clear"}
FlusherState ==
    [pc : FlusherPc, req : Requests \cup {NoReq}, obj : 0 .. MaxMsgs,
     counted : Seq(Tids)]
Flushing(pc, req, o, s) == [pc |-> pc, req |-> req, obj |-> o, counted |-> s]
FIdle == Flushing("idle", NoReq, 0, <<>>)

Signals == [key : Keys, obj : Objs, by : Flushers, counted : Seq(Tids)]
Goroutines == {"worker", "flushProcessor", "timeoutScanner"}

Init ==
    /\ queue = <<>> /\ offered = 0
    /\ h = [c \in Handlers |-> HIdle]
    /\ pending = [k \in Keys |-> 0]
    /\ nobj = 0 /\ okey = [o \in Objs |-> NoKey]
    /\ fills = [o \in Objs |-> <<>>] /\ counted = [o \in Objs |-> <<>>]
    /\ seenTids = [o \in Objs |-> {}] /\ signalSent = [o \in Objs |-> FALSE]
    /\ orderStatus = [o \in Objs |-> NoStatus] /\ timedOut = [o \in Objs |-> FALSE]
    /\ raced = {}
    /\ tracker = [r \in Orders |-> NoStatus]
    /\ deduper = {}
    /\ flushChan = <<>>
    /\ f = [w \in Flushers |-> FIdle]
    /\ published = <<>>
    /\ writes = [k \in Keys |-> 0]
    /\ db = [k \in Keys |-> NoRow]
    /\ scan = {} /\ phase = "running" /\ exited = {}

-----------------------------------------------------------------------------
(* The message queue *)

\* HandleMessage called with m, up to its first access to shared state:
\* UpdateStatus returns at once for "open" and "triggered".
Begin(m) ==
    IF m.type = "fill" THEN Handling("seen", m, NoStatus, 0)
    ELSE IF m.status \in OpenStatuses THEN HIdle
    ELSE Handling("mark", m, m.status, 0)

\* A callback goroutine hands over a message: queued, or, when the queue is
\* full, handled in the calling goroutine.
Enqueue(c, m) ==
    /\ offered < MaxMsgs
    /\ h[c].pc = "idle"
    /\ offered' = offered + 1
    /\ \/ /\ Len(queue) < QueueCap
          /\ queue' = Append(queue, m)
          /\ UNCHANGED h
       \/ /\ Len(queue) = QueueCap
          /\ h' = [h EXCEPT ![c] = Begin(m)]
          /\ UNCHANGED queue
    /\ UNCHANGED <<orderVars, cacheVars, flushChan, f, published, storeVars, ctlVars>>

\* The worker receives the next message and starts to handle it.
WorkerReceive ==
    /\ "worker" \notin exited
    /\ h[Worker].pc = "idle"
    /\ queue # <<>>
    /\ queue' = Tail(queue)
    /\ h' = [h EXCEPT ![Worker] = Begin(Head(queue))]
    /\ UNCHANGED <<offered, orderVars, cacheVars, flushChan, f, published, storeVars, ctlVars>>

-----------------------------------------------------------------------------
(* handleOrderFill *)

KeyOf(m) == <<m.order, m.dir>>

\* persistOrder of the object o of key k: the pointer goes to the batch writer,
\* whose buffer keeps the latest pointer of a key; when its queue is full the
\* write is dropped.  Only WriteBack reads `writes', so the hand-over is taken
\* together with the step before it.
PersistOrder(k, o) ==
    IF HasBatchWriter
    THEN \E x \in {o, writes[k]} : writes' = [writes EXCEPT ![k] = x]
    ELSE UNCHANGED writes

\* The end of handleOrderFill on object o: a pre-marked status asks for a flush.
Stored(c, o) ==
    IF h[c].st = NoStatus THEN HIdle ELSE Handling("trigger", h[c].msg, h[c].st, o)

\* 1. The deduper says a signal was sent: skip the fill.
FillSeen(c) ==
    /\ h[c].pc = "seen"
    /\ h' = [h EXCEPT ![c] = IF KeyOf(h[c].msg) \in deduper
                             THEN HIdle ELSE Handling("status", h[c].msg, NoStatus, 0)]
    /\ UNCHANGED <<inVars, orderVars, cacheVars, flushChan, f, published, storeVars, ctlVars>>

\* Mutant of GetStatus: the entry is never found.
GetStatusMiss(r) == NoStatus

\* statusTracker.GetStatus.
GetStatus(r) == tracker[r]

\* 2. A terminal status recorded before the fill.
FillStatus(c) ==
    /\ h[c].pc = "status"
    /\ h' = [h EXCEPT ![c] = Handling("store", h[c].msg, GetStatus(h[c].msg.order), 0)]
    /\ UNCHANGED <<inVars, orderVars, cacheVars, flushChan, f, published, storeVars, ctlVars>>

\* pendingOrders.LoadOrStore.  A new object has the fill in Fills and status
\* "open" (NoStatus); its tid is not in seenTids.
FillStore(c) ==
    LET k == KeyOf(h[c].msg)  o == nobj + 1 IN
    /\ h[c].pc = "store"
    /\ \/ /\ pending[k] = 0
          /\ nobj < MaxMsgs
          /\ nobj' = o
          /\ okey' = [okey EXCEPT ![o] = k]
          /\ fills' = [fills EXCEPT ![o] = <<h[c].msg.tid>>]
          /\ counted' = [counted EXCEPT ![o] = <<h[c].msg.tid>>]
          /\ pending' = [pending EXCEPT ![k] = o]
          /\ PersistOrder(k, o)
          /\ h' = [h EXCEPT ![c] = Stored(c, o)]
          /\ UNCHANGED <<seenTids, raced, signalSent, orderStatus, timedOut>>
       \/ /\ pending[k] # 0
          /\ h' = [h EXCEPT ![c] = Handling("check", h[c].msg, h[c].st, pending[k])]
          /\ UNCHANGED <<orderVars, writes>>
    /\ UNCHANGED <<inVars, cacheVars, flushChan, f, published, db, ctlVars>>

\* The order that was there is already sent: skip the fill.
FillCheck(c) ==
    /\ h[c].pc = "check"
    /\ h' = [h EXCEPT ![c] = IF signalSent[h[c].obj] THEN HIdle
                             ELSE Handling("tid", h[c].msg, h[c].st, h[c].obj)]
    /\ UNCHANGED <<inVars, orderVars, cacheVars, flushChan, f, published, storeVars, ctlVars>>

\* Mutant of TidStored: Load in place of LoadOrStore.
TidNotStored(S, t) == S

\* What seenTids.LoadOrStore leaves in the set.
TidStored(S, t) == S \cup {t}

\* Handler c is adding a fill to object o: between seenTids.LoadOrStore and the
\* assignment of the totals.
Adding(c, o) == h[c].pc \in {"append", "calc", "total"} /\ h[c].obj = o

\* seenTids.LoadOrStore: a tid already there is a duplicate.  Otherwise the
\* handler reads the slice it is about to append to.
FillTid(c) ==
    LET o == h[c].obj  t == h[c].msg.tid IN
    /\ h[c].pc = "tid"
    /\ \/ /\ t \in seenTids[o]
          /\ h' = [h EXCEPT ![c] = HIdle]
          /\ UNCHANGED <<seenTids, raced>>
       \/ /\ t \notin seenTids[o]
          /\ seenTids' = [seenTids EXCEPT ![o] = TidStored(seenTids[o], t)]
          /\ h' = [h EXCEPT ![c] = Holding("append", h[c].msg, h[c].st, o, fills[o])]
          /\ raced' = IF \E d \in Handlers : Adding(d, o) THEN raced \cup {o} ELSE raced
    /\ UNCHANGED <<pending, nobj, okey, fills, counted, signalSent, orderStatus, timedOut>>
    /\ UNCHANGED <<inVars, cacheVars, flushChan, f, published, storeVars, ctlVars>>

AppendFill(s, t) == Append(s, t)

\* Fills = append(Fills, fill): the read and the write are not one step, and no
\* lock is held.
FillAppend(c) ==
    /\ h[c].pc = "append"
    /\ fills' = [fills EXCEPT ![h[c].obj] = AppendFill(h[c].snap, h[c].msg.tid)]
    /\ h' = [h EXCEPT ![c] = Handling("calc", h[c].msg, h[c].st, h[c].obj)]
    /\ UNCHANGED <<pending, nobj, okey, counted, seenTids, raced, signalSent, orderStatus, timedOut>>
    /\ UNCHANGED <<inVars, cacheVars, flushChan, f, published, storeVars, ctlVars>>

\* calculateWeightedAvg(Fills) sums up the slice as it is now ...
FillCalc(c) ==
    /\ h[c].pc = "calc"
    /\ h' = [h EXCEPT ![c] = Holding("total", h[c].msg, h[c].st, h[c].obj, fills[h[c].obj])]
    /\ UNCHANGED <<inVars, orderVars, cacheVars, flushChan, f, published, storeVars, ctlVars>>

\* Mutant of Totals: the totals are left as they were.
TotalsKept(o, s) == counted[o]

\* What TotalSize and WeightedAvgPx of object o become after the sum over s.
Totals(o, s) == s

\* ... and TotalSize, WeightedAvgPx are assigned later, then persistOrder.
FillTotal(c) ==
    LET o == h[c].obj IN
    /\ h[c].pc = "total"
    /\ counted' = [counted EXCEPT ![o] = Totals(o, h[c].snap)]
    /\ PersistOrder(okey[o], o)
    /\ h' = [h EXCEPT ![c] = Stored(c, o)]
    /\ UNCHANGED <<pending, nobj, okey, fills, seenTids, raced, signalSent, orderStatus, timedOut>>
    /\ UNCHANGED <<inVars, cacheVars, flushChan, f, published, db, ctlVars>>

\* triggerFlush: a request that finds the channel full is dropped.
TriggerFlush(k, st) ==
    flushChan' = IF Len(flushChan) < FlushCap
                 THEN Append(flushChan, [key |-> k, status |-> st])
                 ELSE flushChan

\* 3. The status was recorded before the fill: flush now unless already sent.
FillTrigger(c) ==
    /\ h[c].pc = "trigger"
    /\ \/ /\ signalSent[h[c].obj]
          /\ h' = [h EXCEPT ![c] = HIdle]
          /\ UNCHANGED flushChan
       \/ /\ ~signalSent[h[c].obj]
          /\ TriggerFlush(KeyOf(h[c].msg), h[c].st)
          /\ h' = [h EXCEPT ![c] = Visiting("remove", h[c].msg, h[c].st, {})]
    /\ UNCHANGED <<inVars, orderVars, cacheVars, f, published, storeVars, ctlVars>>

-----------------------------------------------------------------------------
(* UpdateStatus *)

\* Mutant of DirsOf: the empty direction is taken as a direction.
DirsOfAsGiven(m) == {m.dir}

\* The directions UpdateStatus looks at: the six it lists, or the one it is given.
DirsOf(m) == IF m.dir = NoDir THEN KnownDirs ELSE {m.dir}

\* A handler whose loop has the directions S left.
Looping(c, S) ==
    IF S = {} THEN HIdle ELSE Visiting("dirs", h[c].msg, h[c].st, S)

\* statusTracker.MarkStatus, whether or not the order is pending.
UpdateMark(c) ==
    /\ h[c].pc = "mark"
    /\ tracker' = [tracker EXCEPT ![h[c].msg.order] = h[c].st]
    /\ h' = [h EXCEPT ![c] = Looping(c, DirsOf(h[c].msg))]
    /\ UNCHANGED <<inVars, orderVars, deduper, flushChan, f, published, storeVars, ctlVars>>

\* One iteration: a pending order of that direction is flushed.
UpdateDir(c, d) ==
    LET k == <<h[c].msg.order, d>> IN
    /\ h[c].pc = "dirs"
    /\ d \in h[c].todo
    /\ \/ /\ pending[k] = 0
          /\ h' = [h EXCEPT ![c] = Looping(c, h[c].todo \ {d})]
          /\ UNCHANGED flushChan
       \/ /\ pending[k] # 0
          /\ TriggerFlush(k, h[c].st)
          /\ h' = [h EXCEPT ![c] = Visiting("remove", h[c].msg, h[c].st, h[c].todo \ {d})]
    /\ UNCHANGED <<inVars, orderVars, cacheVars, f, published, storeVars, ctlVars>>

\* statusTracker.Remove, after a trigger of either handler.
StatusRemove(c) ==
    /\ h[c].pc = "remove"
    /\ tracker' = [tracker EXCEPT ![h[c].msg.order] = NoStatus]
    /\ h' = [h EXCEPT ![c] = Looping(c, h[c].todo)]
    /\ UNCHANGED <<inVars, orderVars, deduper, flushChan, f, published, storeVars, ctlVars>>

\* The tracker's entry outlives its ten minutes.
StatusExpire(r) ==
    /\ tracker[r] # NoStatus
    /\ tracker' = [tracker EXCEPT ![r] = NoStatus]
    /\ UNCHANGED <<inVars, h, orderVars, deduper, flushChan, f, published, storeVars, ctlVars>>

-----------------------------------------------------------------------------
(* flushProcessor and flushOrder *)

\* flushProcessor receives a request; pool.Submit returns once a goroutine is
\* free.  A request waiting in Submit counts as one more slot of the channel.
FlushSubmit(w) ==
    /\ "flushProcessor" \notin exited
    /\ flushChan # <<>>
    /\ f[w].pc = "idle"
    /\ f' = [f EXCEPT ![w] = Flushing("get", Head(flushChan), 0, <<>>)]
    /\ flushChan' = Tail(flushChan)
    /\ UNCHANGED <<inVars, h, orderVars, cacheVars, published, storeVars, ctlVars>>

FlushGet(w) ==
    LET o == pending[f[w].req.key] IN
    /\ f[w].pc = "get"
    /\ f' = [f EXCEPT ![w] = IF o = 0 THEN FIdle
                             ELSE Flushing("build", f[w].req, o, <<>>)]
    /\ UNCHANGED <<inVars, h, orderVars, cacheVars, flushChan, published, storeVars, ctlVars>>

\* The SignalSent check, then buildSignal, which returns nil for a direction it
\* does not know and for an order without fills.
FlushBuild(w) ==
    LET o == f[w].obj IN
    /\ f[w].pc = "build"
    /\ f' = [f EXCEPT ![w] =
                IF signalSent[o] \/ okey[o][2] \notin KnownDirs \/ fills[o] = <<>>
                THEN FIdle ELSE Flushing("publish", f[w].req, o, counted[o])]
    /\ UNCHANGED <<inVars, h, orderVars, cacheVars, flushChan, published, storeVars, ctlVars>>

\* Mutants: a flush that returns once NATS has the signal, and one that goes on
\* after an error.
ReturnAfterPublish(w) == FIdle
IgnorePublishError(w) == Flushing("sent", f[w].req, f[w].obj, <<>>)

\* Where flushOrder is after PublishAddressSignal succeeded, and after it failed:
\* then the order stays pending for the next scan.
AfterPublish(w) == Flushing("sent", f[w].req, f[w].obj, <<>>)
AfterPublishError(w) == FIdle

\* 1. PublishAddressSignal.
FlushPublish(w) ==
    /\ f[w].pc = "publish"
    /\ published' = Append(published, [key |-> okey[f[w].obj], obj |-> f[w].obj,
                                       by |-> w, counted |-> f[w].counted])
    /\ f' = [f EXCEPT ![w] = AfterPublish(w)]
    /\ UNCHANGED <<inVars, h, orderVars, cacheVars, flushChan, storeVars, ctlVars>>

FlushPublishFail(w) ==
    /\ f[w].pc = "publish"
    /\ f' = [f EXCEPT ![w] = AfterPublishError(w)]
    /\ UNCHANGED <<inVars, h, orderVars, cacheVars, flushChan, published, storeVars, ctlVars>>

\* 2. SignalSent = true, OrderStatus = status.
FlushSetSent(w) ==
    /\ f[w].pc = "sent"
    /\ signalSent' = [signalSent EXCEPT ![f[w].obj] = TRUE]
    /\ orderStatus' = [orderStatus EXCEPT ![f[w].obj] = f[w].req.status]
    /\ f' = [f EXCEPT ![w] = Flushing("dedup", f[w].req, f[w].obj, <<>>)]
    /\ UNCHANGED <<inVars, h, pending, nobj, okey, fillVars, timedOut, cacheVars, flushChan, published, storeVars, ctlVars>>

\* Mutant of Mark: nothing is recorded.
MarkNothing(k) == UNCHANGED deduper

\* deduper.Mark.
Mark(k) == deduper' = deduper \cup {k}

\* 3. deduper.Mark, then persistOrder.
FlushMark(w) ==
    LET k == okey[f[w].obj] IN
    /\ f[w].pc = "dedup"
    /\ Mark(k)
    /\ PersistOrder(k, f[w].obj)
    /\ f' = [f EXCEPT ![w] = Flushing("delete", f[w].req, f[w].obj, <<>>)]
    /\ UNCHANGED <<inVars, h, orderVars, tracker, flushChan, published, db, ctlVars>>

\* 4. pendingOrders.Delete(key): whatever object is stored under the key.
FlushDelete(w) ==
    /\ f[w].pc = "delete"
    /\ pending' = [pending EXCEPT ![f[w].req.key] = 0]
    /\ f' = [f EXCEPT ![w] = Flushing("clear", f[w].req, f[w].obj, <<>>)]
    /\ UNCHANGED <<inVars, h, objVars, cacheVars, flushChan, published, storeVars, ctlVars>>

\* 5. seenTids.Clear.  The insert into hl_address_signals that follows is read by
\* nothing but the cleaner, and its failure is only logged.
FlushClear(w) ==
    /\ f[w].pc = "clear"
    /\ seenTids' = [seenTids EXCEPT ![f[w].obj] = {}]
    /\ f' = [f EXCEPT ![w] = FIdle]
    /\ UNCHANGED <<pending, nobj, okey, fills, counted, raced, signalSent, orderStatus, timedOut>>
    /\ UNCHANGED <<inVars, h, cacheVars, flushChan, published, storeVars, ctlVars>>

-----------------------------------------------------------------------------
(* The timeout scanner *)

\* Five minutes since the order's first fill have passed.
Timeout(o) ==
    /\ o <= nobj
    /\ ~timedOut[o]
    /\ timedOut' = [timedOut EXCEPT ![o] = TRUE]
    /\ UNCHANGED <<inVars, h, pending, nobj, okey, fillVars, signalSent, orderStatus, cacheVars, flushChan, f, published, storeVars, ctlVars>>

\* The ticker fires and Range starts on the orders pending now.
ScanStart ==
    /\ "timeoutScanner" \notin exited
    /\ scan = {}
    /\ scan' = {k \in Keys : pending[k] # 0}
    /\ UNCHANGED <<inVars, h, orderVars, cacheVars, flushChan, f, published, storeVars, phase, exited>>

\* Mutant of Expired: After for Before.
ExpiredYoung(k) ==
    /\ pending[k] # 0
    /\ ~signalSent[pending[k]]
    /\ ~timedOut[pending[k]]

\* Unsent and older than the timeout.
Expired(k) ==
    /\ pending[k] # 0
    /\ ~signalSent[pending[k]]
    /\ timedOut[pending[k]]

\* Range visits one order.
ScanKey(k) ==
    /\ k \in scan
    /\ scan' = scan \ {k}
    /\ IF Expired(k) THEN TriggerFlush(k, Filled) ELSE UNCHANGED flushChan
    /\ UNCHANGED <<inVars, h, orderVars, cacheVars, f, published, storeVars, phase, exited>>

-----------------------------------------------------------------------------
(* The batch writer, as its caller sees it: module BatchWriter has the detail. *)

\* The row is taken from the object the pointer leads to when it is written; a
\* failed upsert is logged and the write is gone.  Two flushes of the writer may
\* hold the pointer, so that it is written more than once.
WriteBack(k) ==
    /\ writes[k] # 0
    /\ db' \in {db, [db EXCEPT ![k] = RowOf(writes[k])]}
    /\ writes' \in {writes, [writes EXCEPT ![k] = 0]}
    /\ UNCHANGED <<inVars, h, orderVars, cacheVars, flushChan, f, published, ctlVars>>

-----------------------------------------------------------------------------
(* SubscriptionManager.Close: the queue first, then the processor *)

Leave(g) == exited' = exited \cup {g} /\ UNCHANGED <<scan, phase>>
Advance(from, to) == phase = from /\ phase' = to /\ UNCHANGED <<scan, exited>>

\* Mutant of Drained: flushProcessor returns with requests in the channel.
DrainedNever == TRUE

\* On done, flushProcessor submits what is left in the channel before it returns.
Drained == flushChan = <<>>

Close ==
    /\ \/ CanStop /\ Advance("running", "closingQueue")
       \/ phase # "running" /\ h[Worker].pc = "idle" /\ "worker" \notin exited /\ Leave("worker")
       \/ "worker" \in exited /\ Advance("closingQueue", "closingProcessor")
       \/ /\ phase = "closingProcessor" /\ "flushProcessor" \notin exited /\ Drained
          /\ Leave("flushProcessor")
       \/ /\ phase = "closingProcessor" /\ "timeoutScanner" \notin exited /\ scan = {}
          /\ Leave("timeoutScanner")
       \/ exited = Goroutines /\ Advance("closingProcessor", "closed")
    /\ UNCHANGED <<inVars, h, orderVars, cacheVars, flushChan, f, published, storeVars>>

-----------------------------------------------------------------------------
HandlerStep(c) ==
    \/ FillSeen(c) \/ FillStatus(c) \/ FillStore(c) \/ FillCheck(c) \/ FillTid(c)
    \/ FillAppend(c) \/ FillCalc(c) \/ FillTotal(c) \/ FillTrigger(c)
    \/ UpdateMark(c) \/ (\E d \in Dirs : UpdateDir(c, d)) \/ StatusRemove(c)

\* The steps of a flushOrder call that do not depend on NATS answering.
FlusherStep(w) ==
    \/ FlushGet(w) \/ FlushBuild(w) \/ FlushSetSent(w) \/ FlushMark(w)
    \/ FlushDelete(w) \/ FlushClear(w)

Next ==
    \/ \E c \in Callers, m \in Msgs : Enqueue(c, m)
    \/ WorkerReceive
    \/ \E c \in Handlers : HandlerStep(c)
    \/ \E r \in Orders : StatusExpire(r)
    \/ \E w \in Flushers :
          FlushSubmit(w) \/ FlusherStep(w) \/ FlushPublish(w) \/ FlushPublishFail(w)
    \/ \E o \in Objs : Timeout(o)
    \/ ScanStart
    \/ \E k \in Keys : ScanKey(k) \/ WriteBack(k)
    \/ Close

Spec == Init /\ [][Next]_vars

(***************************************************************************)
(* Fairness: goroutines that can run are run, timers fire, and a           *)
(* PublishAddressSignal that is retried for ever succeeds for ever.        *)
(***************************************************************************)
Fairness ==
    /\ WF_vars(WorkerReceive)
    /\ \A c \in Handlers : WF_vars(HandlerStep(c))
    /\ WF_vars(\E w \in Flushers : FlushSubmit(w))
    /\ \A w \in Flushers : /\ WF_vars(FlusherStep(w))
                           /\ WF_vars(FlushPublish(w) \/ FlushPublishFail(w))
                           /\ SF_vars(FlushPublish(w))
    /\ \A o \in Objs : WF_vars(Timeout(o))
    /\ WF_vars(ScanStart)
    /\ \A k \in Keys : WF_vars(ScanKey(k))

FairSpec == Spec /\ Fairness

-----------------------------------------------------------------------------
(* Properties *)

TypeOK ==
    /\ queue \in Seq(Msgs) /\ Len(queue) <= QueueCap
    /\ offered \in 0 .. MaxMsgs
    /\ h \in [Handlers -> HandlerState]
    /\ pending \in [Keys -> 0 .. MaxMsgs]
    /\ nobj \in 0 .. MaxMsgs
    /\ okey \in [Objs -> Keys \cup {NoKey}]
    /\ fills \in [Objs -> Seq(Tids)]
    /\ counted \in [Objs -> Seq(Tids)]
    /\ seenTids \in [Objs -> SUBSET Tids] /\ raced \subseteq Objs
    /\ signalSent \in [Objs -> BOOLEAN]
    /\ orderStatus \in [Objs -> AnyStatus]
    /\ timedOut \in [Objs -> BOOLEAN]
    /\ tracker \in [Orders -> AnyStatus]
    /\ deduper \subseteq Keys
    /\ flushChan \in Seq(Requests) /\ Len(flushChan) <= FlushCap
    /\ f \in [Flushers -> FlusherState]
    /\ published \in Seq(Signals)
    /\ writes \in [Keys -> 0 .. MaxMsgs]
    /\ db \in [Keys -> Rows]
    /\ scan \subseteq Keys
    /\ phase \in {"running", "closingQueue", "closingProcessor", "closed"}
    /\ exited \subseteq Goroutines

Known(k) == \E o \in 1 .. nobj : okey[o] = k
Signalled(k) == \E i \in 1 .. Len(published) : published[i].key = k

\* handleOrderFill, flushOrder: an order that was aggregated is never dropped
\* unsignalled: it is pending, or NATS accepted a signal for it.
NoOrderLost == \A k \in Keys : Known(k) => pending[k] # 0 \/ Signalled(k)

\* handleOrderFill: while an order is pending its fills hold each tid at most
\* once, the first fill apart (its tid is never entered in seenTids), however
\* handlers and flushes interleave.
PendingTailUnique ==
    \A k \in Keys : pending[k] # 0 =>
        LET s == fills[pending[k]] IN
        \A i, j \in 2 .. Len(s) : s[i] = s[j] => i = j

\* handleOrderFill, flushOrder: while no handler is adding to it, a pending order has
\* every trade it accepted, the tids in seenTids, in its fills, and its totals are over
\* all of them.  The append and the totals are read and written back without a lock: the
\* exception, an order two handlers were adding to at once, is where a trade is lost or
\* left out of the signal's size and price.
TailTids(s) == {s[i] : i \in 2 .. Len(s)}
TradesCounted ==
    \A k \in Keys : LET o == pending[k] IN
        o # 0 /\ o \notin raced /\ (\A c \in Handlers : ~Adding(c, o)) =>
            TailTids(fills[o]) = seenTids[o] /\ counted[o] = fills[o]

\* flushOrder: a pool goroutine never publishes the same order object twice, so
\* an order has more than one signal only if two flushes of it overlap.
OncePerFlusher ==
    \A i, j \in 1 .. Len(published) :
        published[i].obj = published[j].obj /\ published[i].by = published[j].by => i = j

\* flushOrder and persistOrder share the aggregation with the batch writer: a row
\* never says signal_sent before NATS accepted the signal (a restart reloads the
\* deduper from such rows and would suppress the order).
SentRowWasPublished == \A k \in Keys : db[k].sent => Signalled(k)

\* With every message handled by the worker: between two messages a terminal
\* status does not sit in the tracker while an unsent order it applies to waits.
StatusNotStranded ==
    (\A c \in Handlers : h[c].pc = "idle") =>
        \A r \in Orders, d \in KnownDirs :
            tracker[r] # NoStatus /\ pending[<<r, d>>] # 0 => signalSent[pending[<<r, d>>]]

\* With every message handled by the worker: Close stops the queue before the
\* processor, so the only flush requests it abandons are the scanner's.
StopDrainsFlushes ==
    "flushProcessor" \in exited =>
        \A i \in 1 .. Len(flushChan) :
            \E o \in Objs : okey[o] = flushChan[i].key /\ timedOut[o]

\* timeoutScanner, flushOrder: where every direction is one buildSignal knows, every
\* order is eventually signalled, also when publishing fails for a while, its flush
\* requests are dropped on a full channel or no status update ever arrives.
EveryOrderSignalled ==
    \A k \in Orders \X KnownDirs : pending[k] # 0 ~> Signalled(k)

\* handleOrderFill, flushOrder: what all goroutines do to an order together is what
\* OrderSignals allows.  Between the check of a flush and its publication, its mark and
\* its deletion others may do the same or store the order anew; yet the first signal of
\* an order is of a pending one and has trades, only a signalled order is marked, and no
\* order leaves pendingOrders before the deduper has it.
OpenOrders  == {k \in Keys : pending[k] # 0}
SentSignals == {[key |-> published[i].key, trades |-> published[i].counted] : i \in 1 .. Len(published)}
Promise == INSTANCE OrderSignals WITH open <- OpenOrders, signals <- SentSignals, marked <- deduper
ImplementsOrderSignals == Promise!Spec

-----------------------------------------------------------------------------
(* The inductive invariant behind the safety properties: what every goroutine *)
(* may rely on at each of its steps.                                          *)

FillPcs == {"seen", "status", "store", "check", "tid", "append", "calc", "total", "trigger"}

\* What a handler in local state x relies on: the kind of its message, and that
\* the object it holds is one of its own key.
HandlerOK(x) ==
    /\ x.pc \in FillPcs => x.msg \in FillMsgs /\ x.todo = {}
    /\ x.pc \in {"mark", "dirs"} => x.msg \in UpdateMsgs /\ x.st \in Statuses
    /\ x.pc = "trigger" => x.st \in Statuses
    /\ x.pc = "remove" =>
          /\ x.msg \in FillMsgs \cup UpdateMsgs
          /\ x.todo # {} => x.msg \in UpdateMsgs /\ x.st \in Statuses
    /\ x.pc \in {"check", "tid", "append", "calc", "total", "trigger"} =>
          x.obj \in 1 .. nobj /\ okey[x.obj] = KeyOf(x.msg)
HandlersOK == \A c \in Handlers : HandlerOK(h[c])

\* A flush in local state x holds the object of the key it was asked for.
FlusherOK(x) ==
    /\ x.pc # "idle" => x.req \in Requests
    /\ x.pc \notin {"idle", "get"} => x.obj \in 1 .. nobj /\ okey[x.obj] = x.req.key
FlushersOK == \A w \in Flushers : FlusherOK(f[w])

\* pendingOrders and the batch writer's buffer lead to objects of the right key.
ObjectsOK ==
    /\ \A o \in 1 .. nobj : okey[o] \in Keys
    /\ \A k \in Keys : /\ pending[k] # 0 => pending[k] \in 1 .. nobj /\ okey[pending[k]] = k
                       /\ writes[k] # 0 => writes[k] \in 1 .. nobj /\ okey[writes[k]] = k

\* An order leaves pendingOrders only after its key is in the deduper, so there is no
\* moment at which a late fill finds neither.
RemovedIsMarked == \A k \in Keys : Known(k) /\ pending[k] = 0 => k \in deduper

\* No order is without fills, and no total or signal is made from none.
CountedOK ==
    /\ \A o \in 1 .. nobj : fills[o] # <<>> /\ counted[o] # <<>>
    /\ \A c \in Handlers : h[c].pc = "total" => h[c].snap # <<>>
    /\ \A w \in Flushers : f[w].pc = "publish" => f[w].counted # <<>>

\* How far a flush got is visible in the published signals and in the deduper.
SentOK ==
    /\ \A o \in Objs : signalSent[o] => o <= nobj /\ Signalled(okey[o])
    /\ \A w \in Flushers :
          /\ f[w].pc \in {"sent", "dedup", "delete", "clear"} => Signalled(f[w].req.key)
          /\ f[w].pc \in {"delete", "clear"} => f[w].req.key \in deduper

\* A signal's flush is still on its way to set SignalSent, or it is set; a flush
\* about to publish has not published that object before.
PublishedOK ==
    /\ \A i \in 1 .. Len(published) :
          LET p == published[i] IN
          signalSent[p.obj] \/ (f[p.by].pc = "sent" /\ f[p.by].obj = p.obj)
    /\ \A w \in Flushers : f[w].pc = "publish" =>
          \A i \in 1 .. Len(published) : published[i].by = w => published[i].obj # f[w].obj

\* Why a pending order counts no tid twice after its first fill.  The tids after
\* the first are in seenTids, and seenTids is cleared only when the object is no
\* longer pending; a handler about to append owns its tid.
Live(o) == pending[okey[o]] = o
TailUnique(s) == \A i, j \in 2 .. Len(s) : s[i] = s[j] => i = j
\* The handler c at "append" owns its tid: no other append in progress, and none
\* that finished, can add it.
OwnsTid(c) ==
    /\ h[c].msg.tid \in seenTids[h[c].obj] \ TailTids(fills[h[c].obj])
    /\ h[c].snap # <<>> /\ TailUnique(h[c].snap)
    /\ TailTids(h[c].snap) \subseteq seenTids[h[c].obj]
    /\ \A d \in Handlers : h[d].pc = "append" /\ h[d].obj = h[c].obj =>
          /\ h[c].msg.tid \notin TailTids(h[d].snap)
          /\ d # c => h[c].msg.tid # h[d].msg.tid
TailOK ==
    /\ \A o \in 1 .. nobj : Live(o) =>
          fills[o] # <<>> /\ TailUnique(fills[o]) /\ TailTids(fills[o]) \subseteq seenTids[o]
    /\ \A c \in Handlers : h[c].pc = "append" /\ Live(h[c].obj) => OwnsTid(c)
    /\ \A w \in Flushers : f[w].pc = "clear" => ~Live(f[w].obj)

-----------------------------------------------------------------------------
(* What the repository's documents say, and the code does not guarantee *)

\* "Atomic check + SignalSent mark" keeps a signal from being sent twice
\* (docs/plans/2026-01-15-order-aggregation-design.md:377).
AtMostOneSignal ==
    \A i, j \in 1 .. Len(published) : published[i].key = published[j].key => i = j
=============================================================================
