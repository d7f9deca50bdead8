---------------------------- MODULE BatchWriter ----------------------------
(***************************************************************************)
(* The batch writer (processor/batch_writer.go) with the map it buffers in *)
(* (pkg/concurrent/map.go), the upserts (dao) and the way the process      *)
(* shuts it down (cmd/hl_monitor/main.go, pkg/sigproc/graceful.go).        *)
(*                                                                         *)
(* Two goroutines flush: receiveLoop, when the buffer holds BatchSize      *)
(* keys, and flushLoop, on every tick; Stop and GracefulShutdown flush as  *)
(* well.  A flush ranges over the buffer, upserts table by table, and then *)
(* deletes the keys it saw.                                                *)
(*                                                                         *)
(* The content of an item is its version: the n-th state its producer made *)
(* of that key.  A position item carries a snapshot; an order aggregation  *)
(* item carries a pointer, so an upsert writes the state of that moment.   *)
(***************************************************************************)
EXTENDS Integers, Sequences, FiniteSets

CONSTANTS
    Positions,    \* dedup keys "pc:address"
    Aggregations, \* dedup keys "oa:oid:address:direction"
    MaxVer,       \* bound: how many versions are made of each key
    MaxQueueSize, \* capacity of the queue
    BatchSize,    \* buffered keys at which receiveLoop flushes
    DBFails,      \* TRUE: an upsert may fail
    CanStop,      \* TRUE: the process may be told to shut down
    Graceful,     \* TRUE: through GracefulShutdown, whose timeout may expire
    MainReturns   \* TRUE: main goes on when its context is cancelled

ASSUME BatchWriterAssumption ==
    /\ Positions \cap Aggregations = {}
    /\ MaxVer \in [Positions \cup Aggregations -> Nat \ {0}]
    /\ MaxQueueSize \in Nat \ {0} /\ BatchSize \in Nat \ {0}
    /\ DBFails \in BOOLEAN /\ CanStop \in BOOLEAN
    /\ Graceful \in BOOLEAN /\ MainReturns \in BOOLEAN

VARIABLES
    made,     \* key -> newest version its producer made
    queue,    \* BatchWriter.queue
    buffers,  \* BatchWriter.buffers: key -> version, 0 when absent
    length,   \* the length counter of the concurrent map
    r,        \* receiveLoop
    ticker,   \* flushLoop: "run", "last" (the flush on done), "exited"
    fl,       \* the flushAll call of each goroutine
    db,       \* key -> version in its row, 0 when there is no row
    phase,    \* progress of the shutdown
    timeout,  \* the timeout of GracefulShutdown has expired
    contended,\* history: receiveLoop and flushLoop, or a forced flush, flushed at once
    early     \* history: queued items that were there when Stop closed done

vars == <<made, queue, buffers, length, r, ticker, fl, db, phase, timeout, contended, early>>

Keys     == Positions \cup Aggregations
Versions == UNION {0 .. MaxVer[k] : k \in Keys}
Tables   == {"hl_position_cache", "hl_order_aggregation"}
KeysOf(t) == IF t = "hl_position_cache" THEN Positions ELSE Aggregations

\* The goroutines that call flushAll: receiveLoop, flushLoop, Stop, and
\* GracefulShutdown after its timeout.
Procs == {"receive", "tick", "stop", "force"}

Items == [key : Keys, ver : Versions \ {0}]
NoItem == <<>>

\* receiveLoop: pc "swap" is between the two accesses of Map.Store, "len"
\* before the check of the batch size; draining once it saw done.
ReceiveState ==
    [pc : {"idle", "swap", "len", "flush", "exited"}, item : Items \cup {NoItem}, draining : BOOLEAN]
Receiving(pc, item, d) == [pc |-> pc, item |-> item, draining |-> d]

\* A flushAll call: the keys Range has still to visit, what it collected, the
\* tables left to upsert, and the one whose statement is being executed.
FlushState ==
    [pc : {"idle", "range", "tables", "commit", "delete"}, todo : SUBSET Keys,
     got : [Keys -> Versions], tables : SUBSET Tables, table : Tables]
Nothing == [k \in Keys |-> 0]
FlushAt(pc, todo, got, tables, t) ==
    [pc |-> pc, todo |-> todo, got |-> got, tables |-> tables, table |-> t]
FlushIdle == FlushAt("idle", {}, Nothing, {}, "hl_position_cache")
FlushAll  == FlushAt("range", Keys, Nothing, {}, "hl_position_cache")

Init ==
    /\ made = Nothing /\ queue = <<>>
    /\ buffers = Nothing /\ length = 0
    /\ r = Receiving("idle", NoItem, FALSE) /\ ticker = "run"
    /\ fl = [p \in Procs |-> FlushIdle]
    /\ db = Nothing
    /\ phase = "running" /\ timeout = FALSE /\ contended = FALSE
    /\ early = 0

Alive == phase # "exited"

-----------------------------------------------------------------------------
(* Add *)

\* Mutant of HasRoom: one item too many.
HasRoomForOneMore == Len(queue) <= MaxQueueSize

\* The select of Add: the channel takes the item, or default.
HasRoom == Len(queue) < MaxQueueSize

\* A producer makes the next state of key k and hands it over; ErrQueueFull is
\* only logged.  Add does not look at done, and closing the managers does not wait
\* for the flushes of the order processor's pool: producers may go on during Stop,
\* and after it returned.
Add(k) ==
    /\ Alive
    /\ made[k] < MaxVer[k]
    /\ made' = [made EXCEPT ![k] = made[k] + 1]
    /\ queue' = IF HasRoom
                THEN Append(queue, [key |-> k, ver |-> made[k] + 1]) ELSE queue
    /\ UNCHANGED <<buffers, length, r, ticker, fl, db, phase, timeout, contended, early>>

-----------------------------------------------------------------------------
(* receiveLoop *)

\* The step after the item is stored: the drain loop does not look at the size.
AfterStore(item) ==
    IF r.draining THEN Receiving("idle", NoItem, TRUE) ELSE Receiving("len", item, FALSE)

\* Receive an item and begin Map.Store: LoadOrStore, and the counter, if the key
\* is new.
Receive ==
    /\ Alive /\ r.pc = "idle" /\ queue # <<>>
    /\ queue' = Tail(queue)
    /\ LET item == Head(queue)  k == item.key IN
       \/ /\ buffers[k] = 0
          /\ buffers' = [buffers EXCEPT ![k] = item.ver]
          /\ length' = length + 1
          /\ r' = AfterStore(item)
       \/ /\ buffers[k] # 0
          /\ r' = Receiving("swap", item, r.draining)
          /\ UNCHANGED <<buffers, length>>
    /\ early' = IF early > 0 THEN early - 1 ELSE 0
    /\ UNCHANGED <<made, ticker, fl, db, phase, timeout, contended>>

\* The second half of Map.Store for a key that was there.
Swap ==
    /\ Alive /\ r.pc = "swap"
    /\ buffers' = [buffers EXCEPT ![r.item.key] = r.item.ver]
    /\ r' = AfterStore(r.item)
    /\ UNCHANGED <<made, queue, length, ticker, fl, db, phase, timeout, contended, early>>

\* buffers.Len() >= BatchSize: flushAll in this goroutine.
CheckSize ==
    /\ Alive /\ r.pc = "len"
    /\ \/ /\ length >= BatchSize
          /\ r' = Receiving("flush", NoItem, FALSE)
          /\ fl' = [fl EXCEPT !["receive"] = FlushAll]
          /\ contended' = (contended \/ fl["tick"].pc # "idle")
       \/ /\ length < BatchSize
          /\ r' = Receiving("idle", NoItem, FALSE)
          /\ UNCHANGED <<fl, contended>>
    /\ UNCHANGED <<made, queue, buffers, length, ticker, db, phase, timeout, early>>

ReceiveFlushed ==
    /\ Alive /\ r.pc = "flush" /\ fl["receive"].pc = "idle"
    /\ r' = Receiving("idle", NoItem, FALSE)
    /\ UNCHANGED <<made, queue, buffers, length, ticker, fl, db, phase, timeout, contended, early>>

Done == phase \in {"stopping", "final", "stopped"}

\* Mutant of DrainEnds: return as soon as done is seen.
DrainAtOnce == TRUE

\* for len(w.queue) > 0
DrainEnds == queue = <<>>

\* select picks done: drain the queue, then return.
ReceiveDone ==
    /\ Alive /\ Done /\ r.pc = "idle"
    /\ \/ ~r.draining /\ r' = Receiving("idle", NoItem, TRUE)
       \/ r.draining /\ DrainEnds /\ r' = Receiving("exited", NoItem, TRUE)
    /\ UNCHANGED <<made, queue, buffers, length, ticker, fl, db, phase, timeout, contended, early>>

-----------------------------------------------------------------------------
(* flushLoop *)

\* A tick, the flush on done, and the return.
Tick ==
    /\ Alive /\ fl["tick"].pc = "idle"
    /\ contended' = (contended \/ (ticker # "last" /\ fl["receive"].pc # "idle"))
    /\ \/ ticker = "run" /\ fl' = [fl EXCEPT !["tick"] = FlushAll] /\ UNCHANGED ticker
       \/ ticker = "run" /\ Done /\ fl' = [fl EXCEPT !["tick"] = FlushAll] /\ ticker' = "last"
       \/ ticker = "last" /\ ticker' = "exited" /\ UNCHANGED fl
    /\ UNCHANGED <<made, queue, buffers, length, r, db, phase, timeout, early>>

-----------------------------------------------------------------------------
(* flush *)

\* The tables that have a collected item.
Grouped(got) == {t \in Tables : \E k \in KeysOf(t) : got[k] # 0}

\* Range visits key k.
FlushRange(p, k) ==
    /\ Alive /\ fl[p].pc = "range" /\ k \in fl[p].todo
    /\ LET got  == [fl[p].got EXCEPT ![k] = buffers[k]]
           todo == fl[p].todo \ {k}
       IN fl' = [fl EXCEPT ![p] =
                    IF todo # {} THEN FlushAt("range", todo, got, {}, fl[p].table)
                    ELSE IF Grouped(got) = {} THEN FlushIdle
                    ELSE FlushAt("tables", {}, got, Grouped(got), fl[p].table)]
    /\ UNCHANGED <<made, queue, buffers, length, r, ticker, db, phase, timeout, contended, early>>

\* What the statement holds for key k: an aggregation is read through its
\* pointer, a position is the snapshot that was collected.
Content(p, k) ==
    IF fl[p].got[k] # 0 /\ k \in Aggregations THEN made[k] ELSE fl[p].got[k]

\* batchUpsert of one table: build the statement from the items ...
FlushBuild(p, t) ==
    /\ Alive /\ fl[p].pc = "tables" /\ t \in fl[p].tables
    /\ LET got == [k \in Keys |-> IF k \in KeysOf(t) THEN Content(p, k) ELSE fl[p].got[k]]
       IN fl' = [fl EXCEPT ![p] = FlushAt("commit", {}, got, fl[p].tables \ {t}, t)]
    /\ UNCHANGED <<made, queue, buffers, length, r, ticker, db, phase, timeout, contended, early>>

\* ... and execute it.  A failure is logged, and the items count as flushed.
FlushCommit(p) ==
    /\ Alive /\ fl[p].pc = "commit"
    /\ \/ db' = [k \in Keys |-> IF k \in KeysOf(fl[p].table) /\ fl[p].got[k] # 0
                                THEN fl[p].got[k] ELSE db[k]]
       \/ DBFails /\ UNCHANGED db
    /\ fl' = [fl EXCEPT ![p] =
                FlushAt(IF fl[p].tables = {} THEN "delete" ELSE "tables", {},
                        fl[p].got, fl[p].tables, fl[p].table)]
    /\ UNCHANGED <<made, queue, buffers, length, r, ticker, phase, timeout, contended, early>>

\* Mutant of Removed: the key stays in the buffer.
RemovedNot(k) == buffers

\* buffers.Delete(key): whatever is stored under the key by now.
Removed(k) == [buffers EXCEPT ![k] = 0]

\* Delete the collected keys, one by one.
FlushDelete(p, k) ==
    /\ Alive /\ fl[p].pc = "delete" /\ fl[p].got[k] # 0
    /\ buffers' = Removed(k)
    /\ length' = IF buffers[k] # 0 THEN length - 1 ELSE length
    /\ LET got == [fl[p].got EXCEPT ![k] = 0]
       IN fl' = [fl EXCEPT ![p] = IF got = Nothing THEN FlushIdle
                                  ELSE FlushAt("delete", {}, got, {}, fl[p].table)]
    /\ UNCHANGED <<made, queue, r, ticker, db, phase, timeout, contended, early>>

-----------------------------------------------------------------------------
(* Shutdown *)

\* Mutant of LoopsExited: Stop without wg.Wait.
LoopsNotAwaited == TRUE

\* wg.Wait.
LoopsExited == r.pc = "exited" /\ ticker = "exited"

\* The signal handler's goroutine: cancel the context, close the managers, Stop:
\* close(done), wait for both loops, flushAll.
Shutdown ==
    /\ Alive
    /\ \/ CanStop /\ phase = "running" /\ phase' = "cancelled" /\ UNCHANGED fl
       \/ phase = "cancelled" /\ phase' = "stopping" /\ UNCHANGED fl
       \/ /\ phase = "stopping" /\ LoopsExited
          /\ phase' = "final" /\ fl' = [fl EXCEPT !["stop"] = FlushAll]
       \/ phase = "final" /\ fl["stop"].pc = "idle" /\ phase' = "stopped" /\ UNCHANGED fl
    /\ early' = IF phase = "cancelled" THEN Len(queue) ELSE early
    /\ UNCHANGED <<made, queue, buffers, length, r, ticker, db, timeout, contended>>

\* GracefulShutdown: its timeout expires while Stop is running, and it flushes as
\* well.
ForceFlush ==
    /\ Graceful /\ ~timeout
    /\ phase \in {"stopping", "final"}
    /\ timeout' = TRUE
    /\ contended' = TRUE
    /\ fl' = [fl EXCEPT !["force"] = FlushAll]
    /\ UNCHANGED <<made, queue, buffers, length, r, ticker, db, phase, early>>

\* main waits for its context only: once it is cancelled the process ends.  The
\* os.Exit after 30 seconds is the same event.
Exit ==
    /\ MainReturns
    /\ phase \in {"cancelled", "stopping", "final", "stopped"}
    /\ phase' = "exited"
    /\ UNCHANGED <<made, queue, buffers, length, r, ticker, fl, db, timeout, contended, early>>

-----------------------------------------------------------------------------
FlushStep(p) ==
    \/ \E k \in Keys : FlushRange(p, k) \/ FlushDelete(p, k)
    \/ \E t \in Tables : FlushBuild(p, t)
    \/ FlushCommit(p)

Next ==
    \/ \E k \in Keys : Add(k)
    \/ Receive \/ Swap \/ CheckSize \/ ReceiveFlushed \/ ReceiveDone
    \/ Tick
    \/ \E p \in Procs : FlushStep(p)
    \/ Shutdown \/ ForceFlush \/ Exit

Spec == Init /\ [][Next]_vars

\* Both loops and the flushes they are in keep running, the ticker keeps ticking,
\* and a shutdown that has begun goes on.
Fairness ==
    /\ WF_vars(Receive \/ Swap \/ CheckSize \/ ReceiveFlushed \/ ReceiveDone)
    /\ WF_vars(Tick)
    /\ WF_vars(phase # "running" /\ Shutdown)
    /\ \A p \in Procs : WF_vars(FlushStep(p))

FairSpec == Spec /\ Fairness
-----------------------------------------------------------------------------
(* Properties *)

TypeOK ==
    /\ made \in [Keys -> Versions]
    /\ queue \in Seq(Items) /\ Len(queue) <= MaxQueueSize
    /\ buffers \in [Keys -> Versions]
    /\ length \in Int
    /\ r \in ReceiveState
    /\ ticker \in {"run", "last", "exited"}
    /\ fl \in [Procs -> FlushState]
    /\ db \in [Keys -> Versions]
    /\ phase \in {"running", "cancelled", "stopping", "final", "stopped", "exited"}
    /\ timeout \in BOOLEAN /\ contended \in BOOLEAN
    /\ early \in 0 .. Len(queue)

\* No item waits in the queue, those apart that were added after Stop closed done.
Received == IF Done THEN early = 0 ELSE queue = <<>>

\* Stop: when it returns, nothing that was added before it is left in the queue or in
\* the buffer, however the two loops saw done and whoever else is adding or flushing.
\* What is added after receiveLoop returned stays in the queue and is lost with the
\* process: the exception is no more than that.
StopDrains == phase = "stopped" => buffers = Nothing /\ Received

\* flush, Stop: as long as receiveLoop and flushLoop have not flushed at the same
\* time and no flush was forced, a row is never overwritten by an older state of
\* its key, also by the flushes of a Stop that comes at any moment.
RowNeverGoesBack == [][~contended => \A k \in Keys : db[k] <= db'[k]]_vars

\* receiveLoop, flushLoop: with the producers at rest, what was added leaves the
\* queue and the buffer for good, also when the database keeps failing, unless the
\* process ends first, or it was added when Stop had begun.
BuffersDrain ==
    <>[](phase = "exited" \/ (buffers = Nothing /\ Received))

(* What the repository says, and the code does not guarantee *)

AtRest ==
    /\ queue = <<>> /\ buffers = Nothing /\ r.pc = "idle"
    /\ \A p \in Procs : fl[p].pc = "idle"

\* "The value after the update" (internal/processor/batch_writer_test.go:299): the
\* database ends up with the newest state that was added.
RestRowIsNewest == AtRest => db = made
=============================================================================
