------------------------- MODULE BatchWriterProofs -------------------------
(* Proofs about BatchWriter, for any keys, any number of versions of each,    *)
(* any queue and batch size, with a database that may fail and shutdowns of   *)
(* every kind.                                                                *)
EXTENDS BatchWriter, TLAPS

USE BatchWriterAssumption

\* A flushAll call, and the versions it may hold.
LEMMA VersionFacts ==
  /\ Versions \subseteq Nat
  /\ \A k \in Keys : 0 \in Versions /\ MaxVer[k] \in Nat \ {0}
  /\ \A k \in Keys, n \in Nat : n <= MaxVer[k] => n \in Versions
  /\ Nothing \in [Keys -> Versions]
<1>1. \A k \in Keys : MaxVer[k] \in Nat \ {0} BY DEF Keys
<1>2. Versions \subseteq Nat BY <1>1 DEF Versions
<1>3. \A k \in Keys, n \in Nat : n <= MaxVer[k] => n \in Versions BY <1>1 DEF Versions
<1> QED BY <1>1, <1>2, <1>3 DEF Nothing

LEMMA FlushAtType ==
  ASSUME NEW pc \in {"idle", "range", "tables", "commit", "delete"}, NEW todo \in SUBSET Keys,
         NEW got \in [Keys -> Versions], NEW tables \in SUBSET Tables, NEW t \in Tables
  PROVE  FlushAt(pc, todo, got, tables, t) \in FlushState
BY DEF FlushAt, FlushState

LEMMA FlushStartType == FlushIdle \in FlushState /\ FlushAll \in FlushState
BY FlushAtType, VersionFacts DEF FlushIdle, FlushAll, Tables

LEMMA GroupedType == \A got : Grouped(got) \in SUBSET Tables
BY DEF Grouped

LEMMA ReceivingType ==
  ASSUME NEW pc \in {"idle", "swap", "len", "flush", "exited"}, NEW item \in Items \cup {NoItem}
  PROVE  /\ Receiving(pc, item, TRUE) \in ReceiveState /\ Receiving(pc, item, FALSE) \in ReceiveState
         /\ Receiving(pc, item, TRUE).pc = pc /\ Receiving(pc, item, FALSE).pc = pc
BY DEF Receiving, ReceiveState

LEMMA TypeInit == Init => TypeOK
<1> SUFFICES ASSUME Init PROVE TypeOK OBVIOUS
<1>1. fl \in [Procs -> FlushState] BY FlushStartType DEF Init
<1>2. r \in ReceiveState BY ReceivingType DEF Init
<1>3. queue \in Seq(Items) /\ Len(queue) <= MaxQueueSize /\ early \in 0 .. Len(queue) BY DEF Init
<1>4. made \in [Keys -> Versions] /\ buffers \in [Keys -> Versions] /\ db \in [Keys -> Versions]
  BY VersionFacts DEF Init
<1>5. timeout \in BOOLEAN /\ contended \in BOOLEAN BY Zenon DEF Init
<1>6. length \in Int /\ ticker = "run" /\ phase = "running" BY DEF Init
<1> QED BY <1>1, <1>2, <1>3, <1>4, <1>5, <1>6 DEF TypeOK

LEMMA AfterStoreType ==
  ASSUME TypeOK, NEW item \in Items PROVE AfterStore(item) \in ReceiveState
BY DEF TypeOK, AfterStore, Receiving, ReceiveState

LEMMA FlushStepType ==
  ASSUME TypeOK, NEW p \in Procs, FlushStep(p)
  PROVE  TypeOK'
<1> USE DEF TypeOK
<1>0. fl[p] \in FlushState /\ fl[p].todo \in SUBSET Keys /\ fl[p].got \in [Keys -> Versions]
      /\ fl[p].tables \in SUBSET Tables /\ fl[p].table \in Tables
  BY DEF FlushState
<1>1. ASSUME NEW k \in Keys, FlushRange(p, k) PROVE TypeOK'
  <2> DEFINE got == [fl[p].got EXCEPT ![k] = buffers[k]]
             todo == fl[p].todo \ {k}
  <2>1. got \in [Keys -> Versions] /\ todo \in SUBSET Keys BY <1>0
  <2>2. /\ FlushAt("range", todo, got, {}, fl[p].table) \in FlushState
        /\ FlushAt("tables", {}, got, Grouped(got), fl[p].table) \in FlushState
    BY <1>0, <2>1, FlushAtType, GroupedType
  <2> HIDE DEF got, todo
  <2>3. fl' \in [Procs -> FlushState]
    BY <1>1, <2>2, FlushStartType DEF FlushRange, got, todo
  <2> QED BY <1>1, <2>3 DEF FlushRange
<1>2. ASSUME NEW k \in Keys, FlushDelete(p, k) PROVE TypeOK'
  <2> DEFINE got == [fl[p].got EXCEPT ![k] = 0]
  <2>1. got \in [Keys -> Versions] BY <1>0, VersionFacts
  <2>2. FlushAt("delete", {}, got, {}, fl[p].table) \in FlushState BY <1>0, <2>1, FlushAtType
  <2>3. fl' \in [Procs -> FlushState] BY <1>2, <2>2, FlushStartType DEF FlushDelete
  <2>4. buffers' \in [Keys -> Versions] BY <1>2, VersionFacts DEF FlushDelete, Removed
  <2>5. length' \in Int BY <1>2 DEF FlushDelete
  <2> QED BY <1>2, <2>3, <2>4, <2>5 DEF FlushDelete
<1>3. ASSUME NEW t \in Tables, FlushBuild(p, t) PROVE TypeOK'
  <2> DEFINE got == [k \in Keys |-> IF k \in KeysOf(t) THEN Content(p, k) ELSE fl[p].got[k]]
  <2>1. got \in [Keys -> Versions] BY <1>0 DEF Content
  <2>2. FlushAt("commit", {}, got, fl[p].tables \ {t}, t) \in FlushState BY <1>0, <2>1, FlushAtType
  <2>3. fl' \in [Procs -> FlushState] BY <1>3, <2>2 DEF FlushBuild
  <2> QED BY <1>3, <2>3 DEF FlushBuild
<1>4. CASE FlushCommit(p)
  <2>1. FlushAt(IF fl[p].tables = {} THEN "delete" ELSE "tables", {}, fl[p].got, fl[p].tables,
                fl[p].table) \in FlushState
    BY <1>0, FlushAtType
  <2>2. fl' \in [Procs -> FlushState] BY <1>4, <2>1 DEF FlushCommit
  <2>3. db' \in [Keys -> Versions] BY <1>4, <1>0 DEF FlushCommit
  <2> QED BY <1>4, <2>2, <2>3 DEF FlushCommit
<1> QED BY <1>1, <1>2, <1>3, <1>4 DEF FlushStep

\* Map.Store is given an item.
SwapHasItem == r.pc = "swap" => r.item \in Items

LEMMA TypeStep == TypeOK /\ SwapHasItem /\ [Next]_vars => TypeOK' /\ SwapHasItem'
<1> SUFFICES ASSUME TypeOK, SwapHasItem, [Next]_vars PROVE TypeOK' /\ SwapHasItem' OBVIOUS
<1> USE DEF TypeOK
<1>0. r \in ReceiveState /\ (r.pc = "swap" => r.item \in Items) BY DEF SwapHasItem
<1>1. CASE UNCHANGED vars BY <1>1, <1>0 DEF vars, SwapHasItem
<1>2. ASSUME NEW k \in Keys, Add(k) PROVE TypeOK' /\ SwapHasItem'
  <2>0. made[k] \in Nat /\ MaxVer[k] \in Nat BY VersionFacts
  <2>1. made[k] + 1 <= MaxVer[k] BY <1>2, <2>0 DEF Add
  <2>2. made[k] + 1 \in Versions \ {0} BY <2>0, <2>1, VersionFacts
  <2>3. [key |-> k, ver |-> made[k] + 1] \in Items BY <2>2 DEF Items
  <2>4. queue' \in Seq(Items) /\ Len(queue') <= MaxQueueSize BY <1>2, <2>3 DEF Add, HasRoom
  <2> QED BY <1>0, <1>2, <2>2, <2>4 DEF Add, SwapHasItem
<1>3. CASE Receive
  <2>1. Head(queue) \in Items /\ Tail(queue) \in Seq(Items) /\ Len(Tail(queue)) <= MaxQueueSize
    BY <1>3 DEF Receive
  <2>2. Head(queue).key \in Keys /\ Head(queue).ver \in Versions BY <2>1 DEF Items
  <2>3. Receiving("swap", Head(queue), r.draining) \in ReceiveState
    BY <2>1, <1>0 DEF Receiving, ReceiveState
  <2>4. r' \in ReceiveState BY <1>3, <2>1, <2>3, AfterStoreType DEF Receive
  <2>5. buffers' \in [Keys -> Versions] /\ length' \in Int BY <1>3, <2>2 DEF Receive
  <2>6. SwapHasItem' BY <1>3, <2>1 DEF Receive, SwapHasItem, AfterStore, Receiving
  <2> QED BY <1>3, <2>1, <2>4, <2>5, <2>6 DEF Receive
<1>4. CASE Swap
  <2>1. r.item \in Items /\ r.item.key \in Keys /\ r.item.ver \in Versions
    BY <1>0, <1>4 DEF Swap, Items
  <2>2. r' \in ReceiveState BY <1>4, <2>1, AfterStoreType DEF Swap
  <2>3. buffers' \in [Keys -> Versions] BY <1>4, <2>1 DEF Swap
  <2>4. SwapHasItem' BY <1>4 DEF Swap, SwapHasItem, AfterStore, Receiving
  <2> QED BY <1>4, <2>2, <2>3, <2>4 DEF Swap
<1>5. CASE CheckSize
  <2>0. NoItem \in Items \cup {NoItem} OBVIOUS
  <2>1. r' \in ReceiveState /\ SwapHasItem'
    BY <1>5, <2>0, ReceivingType DEF CheckSize, SwapHasItem
  <2>2. fl' \in [Procs -> FlushState] BY <1>5, FlushStartType DEF CheckSize
  <2>3. contended' \in BOOLEAN BY <1>5 DEF CheckSize
  <2> QED BY <1>5, <2>1, <2>2, <2>3 DEF CheckSize
<1>6. CASE ReceiveFlushed \/ ReceiveDone
  <2>0. NoItem \in Items \cup {NoItem} OBVIOUS
  <2>1. r' \in ReceiveState /\ SwapHasItem'
    BY <1>6, <2>0, ReceivingType DEF ReceiveFlushed, ReceiveDone, SwapHasItem
  <2> QED BY <1>6, <2>1 DEF ReceiveFlushed, ReceiveDone
<1>7. CASE Tick
  <2>1. fl' \in [Procs -> FlushState] BY <1>7, FlushStartType DEF Tick
  <2>2. contended' \in BOOLEAN BY <1>7 DEF Tick
  <2> QED BY <1>0, <1>7, <2>1, <2>2 DEF Tick, SwapHasItem
<1>8. ASSUME NEW p \in Procs, FlushStep(p) PROVE TypeOK' /\ SwapHasItem'
  <2>1. UNCHANGED r BY <1>8 DEF FlushStep, FlushRange, FlushDelete, FlushBuild, FlushCommit
  <2> QED BY <1>0, <1>8, <2>1, FlushStepType DEF SwapHasItem
<1>9. CASE Shutdown \/ ForceFlush \/ Exit
  <2>1. fl' \in [Procs -> FlushState] BY <1>9, FlushStartType DEF Shutdown, ForceFlush, Exit
  <2>2. UNCHANGED queue /\ early' \in 0 .. Len(queue) BY <1>9 DEF Shutdown, ForceFlush, Exit
  <2>3. timeout' \in BOOLEAN /\ contended' \in BOOLEAN BY <1>9 DEF Shutdown, ForceFlush, Exit
  <2>4. phase' \in {"running", "cancelled", "stopping", "final", "stopped", "exited"}
    BY <1>9 DEF Shutdown, ForceFlush, Exit
  <2> QED BY <1>0, <1>9, <2>1, <2>2, <2>3, <2>4 DEF Shutdown, ForceFlush, Exit, SwapHasItem
<1> QED BY <1>1, <1>2, <1>3, <1>4, <1>5, <1>6, <1>7, <1>8, <1>9 DEF Next

LEMMA TypeInvariant == Spec => [](TypeOK /\ SwapHasItem)
<1>1. Init => TypeOK /\ SwapHasItem BY TypeInit DEF Init, SwapHasItem, Receiving
<1> QED BY <1>1, TypeStep, PTL DEF Spec

\* TypeOK: no sequence of flushes, failures and shutdowns leads out of the declared
\* states, and the queue never outgrows the channel.
THEOREM TypeCorrect == Spec => []TypeOK
BY TypeInvariant, PTL
-----------------------------------------------------------------------------
(* Stop, and the order of the rows *)

\* Nothing is newer than what its producer made.
VersionsOK ==
    /\ \A k \in Keys : buffers[k] <= made[k] /\ db[k] <= made[k]
    /\ \A p \in Procs, k \in Keys : fl[p].got[k] <= made[k]
    /\ \A i \in 1 .. Len(queue) : queue[i].ver <= made[queue[i].key]
    /\ r.pc = "swap" => r.item.ver <= made[r.item.key]

\* Which flushes can be under way together, and what an exit of a loop means.
FlushesOK ==
    /\ \A p \in Procs : fl[p].pc = "idle" => fl[p] = FlushIdle
    /\ fl["receive"].pc # "idle" => r.pc = "flush"
    /\ ticker = "exited" => fl["tick"].pc = "idle"
    /\ fl["stop"].pc # "idle" => r.pc = "exited" /\ ticker = "exited"
    /\ fl["force"].pc # "idle" => contended
    /\ ~contended => fl["receive"].pc = "idle" \/ fl["tick"].pc = "idle"
    /\ r.pc = "exited" => early = 0 /\ phase \notin {"running", "cancelled"}
    /\ phase \in {"final", "stopped"} => r.pc = "exited" /\ ticker = "exited"

\* The flush of Stop has still to visit or to delete what the buffer holds.
StopOK ==
    /\ phase = "final" =>
         \A k \in Keys : buffers[k] # 0 =>
             k \in fl["stop"].todo \/ fl["stop"].got[k] # 0
    /\ phase = "stopped" => buffers = Nothing
    /\ \A p \in Procs : fl[p].pc # "range" => fl[p].todo = {}

\* A position moves from the queue to the row through the buffer, newer versions
\* behind older ones; an aggregation is read when the statement is built.
OrderOK(k) ==
    /\ \A i \in 1 .. Len(queue) : queue[i].key = k =>
         /\ db[k] < queue[i].ver /\ buffers[k] < queue[i].ver
         /\ r.pc = "swap" /\ r.item.key = k => r.item.ver < queue[i].ver
         /\ \A j \in 1 .. (i - 1) : queue[j].key = k => queue[j].ver < queue[i].ver
    /\ r.pc = "swap" /\ r.item.key = k => db[k] < r.item.ver /\ buffers[k] < r.item.ver
    /\ buffers[k] # 0 => db[k] <= buffers[k]
    /\ \A p \in Procs : fl[p].got[k] # 0 => db[k] <= fl[p].got[k] /\ fl[p].got[k] <= buffers[k]

RowsOK ==
    ~contended =>
        /\ \A k \in Positions : OrderOK(k)
        /\ \A p \in Procs : fl[p].pc = "commit" =>
             \A k \in KeysOf(fl[p].table) : fl[p].got[k] # 0 => db[k] <= fl[p].got[k]

Inv == TypeOK /\ SwapHasItem /\ VersionsOK /\ FlushesOK /\ StopOK /\ RowsOK

\* The types of what the parts compare.
LEMMA NatFacts ==
  ASSUME TypeOK, SwapHasItem
  PROVE  /\ \A k \in Keys : made[k] \in Nat /\ buffers[k] \in Nat /\ db[k] \in Nat
         /\ \A p \in Procs, k \in Keys : fl[p].got[k] \in Nat
         /\ \A p \in Procs : fl[p] \in FlushState /\ fl[p].got \in [Keys -> Versions] /\ fl[p].table \in Tables
         /\ Len(queue) \in Nat
         /\ \A i \in 1 .. Len(queue) : queue[i] \in Items /\ queue[i].key \in Keys /\ queue[i].ver \in Nat \ {0}
         /\ r.pc = "swap" => r.item \in Items /\ r.item.key \in Keys /\ r.item.ver \in Nat \ {0}
<1> USE DEF TypeOK
<1>1. \A k \in Keys : made[k] \in Nat /\ buffers[k] \in Nat /\ db[k] \in Nat BY VersionFacts
<1>2. \A p \in Procs : fl[p] \in FlushState /\ fl[p].got \in [Keys -> Versions] /\ fl[p].table \in Tables
  BY DEF FlushState
<1>3. \A p \in Procs, k \in Keys : fl[p].got[k] \in Nat BY <1>2, VersionFacts
<1>4. \A x \in Items : x.key \in Keys /\ x.ver \in Nat \ {0} BY VersionFacts DEF Items
<1>5. Len(queue) \in Nat /\ \A i \in 1 .. Len(queue) : queue[i] \in Items OBVIOUS
<1> QED BY <1>1, <1>2, <1>3, <1>4, <1>5 DEF SwapHasItem

\* What a queue holds after an item is received.
LEMMA TailFacts ==
  ASSUME TypeOK, Receive
  PROVE  /\ Len(queue') = Len(queue) - 1 /\ Len(queue) > 0 /\ Head(queue) = queue[1]
         /\ \A i \in 1 .. Len(queue') : queue'[i] = queue[i + 1] /\ i + 1 \in 1 .. Len(queue)
BY DEF TypeOK, Receive

\* What it holds after one is added.
LEMMA AppendFacts ==
  ASSUME TypeOK, NEW k \in Keys, Add(k)
  PROVE  /\ Len(queue') \in Len(queue) .. (Len(queue) + 1)
         /\ \A i \in 1 .. Len(queue) : queue'[i] = queue[i]
         /\ \A i \in 1 .. Len(queue') : i > Len(queue) =>
              i = Len(queue) + 1 /\ queue'[i] = [key |-> k, ver |-> made[k] + 1]
<1>1. queue \in Seq(Items) /\ Len(queue) \in Nat BY DEF TypeOK
<1>2. CASE queue' = queue BY <1>1, <1>2
<1>3. CASE queue' = Append(queue, [key |-> k, ver |-> made[k] + 1]) BY <1>1, <1>3
<1> QED BY <1>2, <1>3 DEF Add

\* A flush step of p changes the flush of p, the buffer and the rows at most.
LEMMA FlushFrame ==
  ASSUME TypeOK, NEW p \in Procs, FlushStep(p)
  PROVE  /\ UNCHANGED <<made, queue, early, r, ticker, phase, timeout, contended>>
         /\ Alive /\ fl[p].pc # "idle"
         /\ \A q \in Procs : q # p => fl'[q] = fl[q]
<1> USE DEF TypeOK
<1>1. ASSUME NEW k \in Keys, FlushRange(p, k) \/ FlushDelete(p, k)
      PROVE  /\ UNCHANGED <<made, queue, early, r, ticker, phase, timeout, contended>>
             /\ Alive /\ fl[p].pc # "idle"
             /\ \A q \in Procs : q # p => fl'[q] = fl[q]
  BY <1>1 DEF FlushRange, FlushDelete
<1>2. ASSUME NEW t \in Tables, FlushBuild(p, t)
      PROVE  /\ UNCHANGED <<made, queue, early, r, ticker, phase, timeout, contended>>
             /\ Alive /\ fl[p].pc # "idle"
             /\ \A q \in Procs : q # p => fl'[q] = fl[q]
  BY <1>2 DEF FlushBuild
<1>3. CASE FlushCommit(p) BY <1>3 DEF FlushCommit
<1> QED BY <1>1, <1>2, <1>3 DEF FlushStep

LEMMA VersionsStep == TypeOK /\ SwapHasItem /\ VersionsOK /\ [Next]_vars => VersionsOK'
<1> SUFFICES ASSUME TypeOK, SwapHasItem, VersionsOK, [Next]_vars PROVE VersionsOK' OBVIOUS
<1>n. /\ \A k \in Keys : made[k] \in Nat /\ buffers[k] \in Nat /\ db[k] \in Nat
      /\ \A p \in Procs, k \in Keys : fl[p].got[k] \in Nat
      /\ \A i \in 1 .. Len(queue) : queue[i].key \in Keys /\ queue[i].ver \in Nat \ {0}
      /\ r.pc = "swap" => r.item.key \in Keys /\ r.item.ver \in Nat \ {0}
  BY NatFacts
<1>f. made \in [Keys -> Versions] /\ buffers \in [Keys -> Versions] /\ fl \in [Procs -> FlushState]
  BY DEF TypeOK
<1>i. \A k \in Keys : FlushIdle.got[k] = 0 /\ FlushAll.got[k] = 0
  BY DEF FlushIdle, FlushAll, FlushAt, Nothing
<1>1. CASE UNCHANGED vars BY <1>1 DEF vars, VersionsOK
<1>2. ASSUME NEW k \in Keys, Add(k) PROVE VersionsOK'
  <2>1. \A j \in Keys : made'[j] >= made[j] /\ made'[k] = made[k] + 1 /\ made'[j] \in Nat
    BY <1>2, <1>n, <1>f DEF Add
  <2>2. \A i \in 1 .. Len(queue') : queue'[i].ver <= made'[queue'[i].key]
    <3> TAKE i \in 1 .. Len(queue')
    <3>1. CASE i > Len(queue)
      <4>1. queue'[i] = [key |-> k, ver |-> made[k] + 1] BY <1>2, <3>1, AppendFacts
      <4> QED BY <2>1, <4>1, <1>n
    <3>2. CASE i \in 1 .. Len(queue)
      <4>1. queue'[i] = queue[i] BY <1>2, <3>2, AppendFacts
      <4>2. queue[i].key \in Keys /\ queue[i].ver \in Nat /\ queue[i].ver <= made[queue[i].key]
        BY <1>n, <3>2 DEF VersionsOK
      <4>3. made[queue[i].key] \in Nat /\ made'[queue[i].key] \in Nat
            /\ made'[queue[i].key] >= made[queue[i].key]
        BY <1>n, <2>1, <4>2
      <4> QED BY <4>1, <4>2, <4>3
    <3>3. Len(queue) \in Nat /\ Len(queue') \in Nat BY <1>2, NatFacts, AppendFacts
    <3> QED BY <3>1, <3>2, <3>3
  <2> QED BY <1>2, <1>n, <2>1, <2>2 DEF VersionsOK, Add
<1>3. CASE Receive
  <2>1. \A i \in 1 .. Len(queue') : queue'[i].ver <= made'[queue'[i].key]
    BY <1>3, TailFacts DEF VersionsOK, Receive
  <2>2. Head(queue).ver <= made[Head(queue).key] /\ Head(queue).key \in Keys
    BY <1>3, <1>n, TailFacts DEF VersionsOK, TypeOK
  <2>3. \A k \in Keys : buffers'[k] <= made[k] BY <1>3, <1>f, <2>2 DEF VersionsOK, Receive
  <2>4. r'.pc = "swap" => r'.item = Head(queue) BY <1>3 DEF Receive, AfterStore, Receiving
  <2> QED BY <1>3, <2>1, <2>2, <2>3, <2>4 DEF VersionsOK, Receive
<1>4. CASE Swap
  <2>1. \A k \in Keys : buffers'[k] <= made[k] BY <1>4, <1>n, <1>f DEF VersionsOK, Swap
  <2>2. r'.pc # "swap" BY <1>4 DEF Swap, AfterStore, Receiving
  <2> QED BY <1>4, <2>1, <2>2 DEF VersionsOK, Swap
<1>5. CASE CheckSize
  <2>1. r'.pc # "swap" BY <1>5 DEF CheckSize, Receiving
  <2>0. \A p \in Procs : fl'[p] \in {fl[p], FlushAll} BY <1>5, <1>f DEF CheckSize
  <2>2. \A p \in Procs, k \in Keys : fl'[p].got[k] <= made[k] BY <2>0, <1>n, <1>i DEF VersionsOK
  <2> QED BY <1>5, <2>1, <2>2 DEF CheckSize, VersionsOK
<1>6. CASE ReceiveFlushed \/ ReceiveDone
  <2>1. r'.pc # "swap" BY <1>6 DEF ReceiveFlushed, ReceiveDone, Receiving
  <2> QED BY <1>6, <2>1 DEF ReceiveFlushed, ReceiveDone, VersionsOK
<1>7. CASE Tick \/ Shutdown \/ ForceFlush \/ Exit
  <2>0. \A p \in Procs : fl'[p] \in {fl[p], FlushAll}
    BY <1>7, <1>f DEF Tick, Shutdown, ForceFlush, Exit
  <2>1. \A p \in Procs, k \in Keys : fl'[p].got[k] <= made[k] BY <2>0, <1>n, <1>i DEF VersionsOK
  <2> QED BY <1>7, <2>1 DEF Tick, Shutdown, ForceFlush, Exit, VersionsOK
<1>8. ASSUME NEW p \in Procs, FlushStep(p) PROVE VersionsOK'
  <2>1. /\ \A k \in Keys : buffers'[k] <= made[k] /\ db'[k] <= made[k]
        /\ \A k \in Keys : fl'[p].got[k] <= made[k]
    <3>1. ASSUME NEW k \in Keys, FlushRange(p, k)
          PROVE  \A j \in Keys : fl'[p].got[j] <= made[j] /\ buffers'[j] <= made[j] /\ db'[j] <= made[j]
      <4>1. \A j \in Keys : [fl[p].got EXCEPT ![k] = buffers[k]][j] <= made[j]
        BY <1>n, NatFacts DEF VersionsOK
      <4> QED BY <3>1, <4>1, <1>f, <1>i, <1>n DEF FlushRange, FlushAt, VersionsOK
    <3>2. ASSUME NEW k \in Keys, FlushDelete(p, k)
          PROVE  \A j \in Keys : fl'[p].got[j] <= made[j] /\ buffers'[j] <= made[j] /\ db'[j] <= made[j]
      <4>1. \A j \in Keys : [fl[p].got EXCEPT ![k] = 0][j] <= made[j]
        BY <1>n, NatFacts DEF VersionsOK
      <4>2. \A j \in Keys : buffers'[j] <= made[j] BY <3>2, <1>f, <1>n DEF FlushDelete, Removed, VersionsOK
      <4> QED BY <3>2, <4>1, <4>2, <1>f, <1>i, <1>n DEF FlushDelete, FlushAt, VersionsOK
    <3>3. ASSUME NEW t \in Tables, FlushBuild(p, t)
          PROVE  \A j \in Keys : fl'[p].got[j] <= made[j] /\ buffers'[j] <= made[j] /\ db'[j] <= made[j]
      BY <3>3, <1>f, <1>n DEF FlushBuild, FlushAt, Content, VersionsOK
    <3>4. CASE FlushCommit(p)
      BY <3>4, <1>f, <1>n DEF FlushCommit, FlushAt, VersionsOK
    <3> QED BY <1>8, <3>1, <3>2, <3>3, <3>4 DEF FlushStep
  <2> QED BY <1>8, <2>1, FlushFrame DEF VersionsOK
<1> QED BY <1>1, <1>2, <1>3, <1>4, <1>5, <1>6, <1>7, <1>8 DEF Next

\* A flush step leaves idle only as FlushIdle, and todo is empty after the range.
LEMMA FlushPhases ==
  ASSUME TypeOK, NEW p \in Procs, FlushStep(p)
  PROVE  /\ fl'[p].pc = "idle" => fl'[p] = FlushIdle
         /\ fl'[p].pc # "range" => fl'[p].todo = {}
<1> USE DEF TypeOK, FlushAt, FlushIdle
<1>1. ASSUME NEW k \in Keys, FlushRange(p, k)
      PROVE  (fl'[p].pc = "idle" => fl'[p] = FlushIdle) /\ (fl'[p].pc # "range" => fl'[p].todo = {})
  BY <1>1 DEF FlushRange
<1>2. ASSUME NEW k \in Keys, FlushDelete(p, k)
      PROVE  (fl'[p].pc = "idle" => fl'[p] = FlushIdle) /\ (fl'[p].pc # "range" => fl'[p].todo = {})
  BY <1>2 DEF FlushDelete
<1>3. ASSUME NEW t \in Tables, FlushBuild(p, t)
      PROVE  (fl'[p].pc = "idle" => fl'[p] = FlushIdle) /\ (fl'[p].pc # "range" => fl'[p].todo = {})
  BY <1>3 DEF FlushBuild
<1>4. CASE FlushCommit(p) BY <1>4 DEF FlushCommit
<1> QED BY <1>1, <1>2, <1>3, <1>4 DEF FlushStep

LEMMA FlushesStep == TypeOK /\ FlushesOK /\ [Next]_vars => FlushesOK'
<1> SUFFICES ASSUME TypeOK, FlushesOK, [Next]_vars PROVE FlushesOK' OBVIOUS
<1> USE DEF Procs
<1>f. fl \in [Procs -> FlushState] /\ contended \in BOOLEAN BY DEF TypeOK
<1>i. FlushAll.pc = "range" /\ FlushIdle.pc = "idle" BY DEF FlushAll, FlushIdle, FlushAt
<1>1. CASE UNCHANGED vars BY <1>1 DEF vars, FlushesOK
<1>2. ASSUME NEW k \in Keys, Add(k) PROVE FlushesOK' BY <1>2 DEF Add, FlushesOK
<1>3. CASE Receive \/ Swap
  <2>1. r.pc \notin {"flush", "exited"} /\ r'.pc \notin {"flush", "exited"}
    BY <1>3 DEF Receive, Swap, AfterStore, Receiving
  <2> QED BY <1>3, <2>1 DEF Receive, Swap, FlushesOK
<1>4. CASE CheckSize
  <2>1. CASE length >= BatchSize
    <3>1. /\ r'.pc = "flush" /\ fl'["receive"] = FlushAll
          /\ \A p \in Procs : p # "receive" => fl'[p] = fl[p]
          /\ r.pc = "len"
          /\ UNCHANGED <<early, ticker, phase>>
      BY <1>4, <2>1, <1>f DEF CheckSize, Receiving, TypeOK
    <3>2. (contended => contended') /\ (fl["tick"].pc # "idle" => contended')
      <4>1. ~(length < BatchSize) BY <2>1 DEF TypeOK
      <4> QED BY <1>4, <4>1, Zenon DEF CheckSize
    <3> QED BY <3>1, <3>2, <1>i DEF FlushesOK
  <2>2. CASE length < BatchSize
    <3>1. r'.pc = "idle" /\ r.pc = "len" /\ UNCHANGED <<early, ticker, phase, fl, contended>>
      BY <1>4, <2>2 DEF CheckSize, Receiving, TypeOK
    <3> QED BY <3>1 DEF FlushesOK
  <2> QED BY <2>1, <2>2 DEF TypeOK
<1>5. CASE ReceiveFlushed
  <2>1. r'.pc = "idle" BY <1>5 DEF ReceiveFlushed, Receiving
  <2> QED BY <1>5, <2>1 DEF ReceiveFlushed, FlushesOK
<1>6. CASE ReceiveDone
  <2>1. r.pc = "idle" /\ r'.pc \in {"idle", "exited"} /\ (r'.pc = "exited" => early = 0)
        /\ phase \notin {"running", "cancelled"} /\ UNCHANGED <<early, ticker, phase, fl, contended>>
    BY <1>6 DEF ReceiveDone, Receiving, Done, DrainEnds, TypeOK
  <2> QED BY <2>1 DEF FlushesOK
<1>7. CASE Tick
  <2>1. /\ contended => contended'
        /\ ticker # "last" /\ fl["receive"].pc # "idle" => contended'
    BY <1>7 DEF Tick
  <2>2. /\ UNCHANGED <<early, r, phase>> /\ fl["tick"].pc = "idle"
        /\ \A p \in Procs : p # "tick" => fl'[p] = fl[p]
        /\ ticker \in {"run", "last"}
        /\ fl'["tick"] \in {FlushAll, fl["tick"]}
        /\ fl'["tick"] = FlushAll => ticker = "run" /\ ticker' # "exited"
        /\ ticker' = "exited" => fl'["tick"] = fl["tick"]
    BY <1>7, <1>f, <1>i DEF Tick
  <2> QED BY <2>1, <2>2, <1>i DEF FlushesOK
<1>8. ASSUME NEW p \in Procs, FlushStep(p) PROVE FlushesOK'
  <2>1. /\ UNCHANGED <<early, r, ticker, phase, contended>> /\ fl[p].pc # "idle"
        /\ \A q \in Procs : q # p => fl'[q] = fl[q]
    BY <1>8, FlushFrame
  <2>2. fl'[p].pc = "idle" => fl'[p] = FlushIdle BY <1>8, FlushPhases
  <2> QED BY <2>1, <2>2 DEF FlushesOK
<1>9. CASE Shutdown
  <2>0. r.pc = "exited" => early' = early BY <1>9 DEF Shutdown, FlushesOK
  <2>1. CASE UNCHANGED fl BY <1>9, <2>0, <2>1 DEF Shutdown, LoopsExited, FlushesOK
  <2>2. CASE phase = "stopping" /\ LoopsExited /\ phase' = "final" /\ fl' = [fl EXCEPT !["stop"] = FlushAll]
    <3>1. fl'["stop"] = FlushAll /\ \A q \in Procs : q # "stop" => fl'[q] = fl[q] BY <2>2, <1>f
    <3>2. r.pc = "exited" /\ ticker = "exited" BY <2>2 DEF LoopsExited
    <3> QED BY <1>9, <2>0, <2>2, <3>1, <3>2, <1>i DEF Shutdown, FlushesOK
  <2> QED BY <1>9, <2>1, <2>2 DEF Shutdown
<1>10. CASE ForceFlush
  <2>1. fl'["force"] = FlushAll /\ \A q \in Procs : q # "force" => fl'[q] = fl[q]
    BY <1>10, <1>f DEF ForceFlush
  <2>2. contended' BY <1>10 DEF ForceFlush
  <2>3. UNCHANGED <<early, r, ticker, phase>> BY <1>10 DEF ForceFlush
  <2> QED BY <2>1, <2>2, <2>3, <1>i DEF FlushesOK
<1>11. CASE Exit BY <1>11 DEF Exit, FlushesOK
<1> QED BY <1>1, <1>2, <1>3, <1>4, <1>5, <1>6, <1>7, <1>8, <1>9, <1>10, <1>11 DEF Next

\* No version is grouped when nothing was collected.
LEMMA NotGrouped ==
  ASSUME NEW got, Grouped(got) = {} PROVE \A k \in Keys : got[k] = 0
BY DEF Grouped, Tables, KeysOf, Keys

\* While Stop flushes, its flush loses no key of the buffer.
LEMMA StopFlushStep ==
  ASSUME TypeOK, SwapHasItem, VersionsOK, StopOK, phase = "final", FlushStep("stop")
  PROVE  \A k \in Keys : buffers'[k] # 0 => k \in fl'["stop"].todo \/ fl'["stop"].got[k] # 0
<1> DEFINE f == fl["stop"]
<1>n. /\ \A k \in Keys : buffers[k] \in Nat /\ made[k] \in Nat /\ f.got[k] \in Nat
      /\ fl \in [Procs -> FlushState] /\ f.got \in [Keys -> Versions] /\ "stop" \in Procs
  BY NatFacts DEF TypeOK, Procs
<1>o. \A k \in Keys : buffers[k] # 0 => k \in f.todo \/ f.got[k] # 0 BY DEF StopOK
<1>t. f.pc # "range" => f.todo = {} BY <1>n DEF StopOK
<1>1. ASSUME NEW k \in Keys, FlushRange("stop", k)
      PROVE  \A j \in Keys : buffers'[j] # 0 => j \in fl'["stop"].todo \/ fl'["stop"].got[j] # 0
  <2> DEFINE got == [f.got EXCEPT ![k] = buffers[k]]
             todo == f.todo \ {k}
  <2>1. \A j \in Keys : buffers[j] # 0 => j \in todo \/ got[j] # 0 BY <1>n, <1>o
  <2>2. \/ fl'["stop"] = FlushAt("range", todo, got, {}, f.table)
        \/ fl'["stop"] = FlushIdle /\ todo = {} /\ Grouped(got) = {}
        \/ fl'["stop"] = FlushAt("tables", {}, got, Grouped(got), f.table) /\ todo = {}
    BY <1>1, <1>n DEF FlushRange
  <2>3. Grouped(got) = {} => \A j \in Keys : got[j] = 0 BY NotGrouped
  <2>4. UNCHANGED buffers BY <1>1 DEF FlushRange
  <2> HIDE DEF got, todo
  <2> QED BY <2>1, <2>2, <2>3, <2>4 DEF FlushAt
<1>2. ASSUME NEW k \in Keys, FlushDelete("stop", k)
      PROVE  \A j \in Keys : buffers'[j] # 0 => j \in fl'["stop"].todo \/ fl'["stop"].got[j] # 0
  <2> DEFINE got == [f.got EXCEPT ![k] = 0]
  <2>1. buffers' = [buffers EXCEPT ![k] = 0] /\ buffers \in [Keys -> Versions]
    BY <1>2 DEF FlushDelete, Removed, TypeOK
  <2>2. \A j \in Keys : buffers'[j] # 0 => got[j] # 0
    BY <1>2, <1>n, <1>o, <1>t, <2>1 DEF FlushDelete
  <2>3. \/ fl'["stop"] = FlushIdle /\ got = Nothing
        \/ fl'["stop"] = FlushAt("delete", {}, got, {}, f.table)
    BY <1>2, <1>n DEF FlushDelete
  <2> HIDE DEF got
  <2> QED BY <2>2, <2>3 DEF FlushAt, Nothing
<1>3. ASSUME NEW t \in Tables, FlushBuild("stop", t)
      PROVE  \A j \in Keys : buffers'[j] # 0 => j \in fl'["stop"].todo \/ fl'["stop"].got[j] # 0
  <2>1. \A j \in Keys : f.got[j] # 0 => Content("stop", j) # 0
    BY <1>n DEF Content, VersionsOK
  <2>2. \A j \in Keys : f.got[j] # 0 => fl'["stop"].got[j] # 0
    BY <1>3, <1>n, <2>1 DEF FlushBuild, FlushAt
  <2>3. f.todo = {} /\ UNCHANGED buffers BY <1>3, <1>t DEF FlushBuild
  <2> QED BY <1>o, <2>2, <2>3
<1>4. CASE FlushCommit("stop")
  <2>1. fl'["stop"].got = f.got /\ f.todo = {} /\ UNCHANGED buffers
    BY <1>4, <1>n, <1>t DEF FlushCommit, FlushAt
  <2> QED BY <1>o, <2>1
<1> QED BY <1>1, <1>2, <1>3, <1>4 DEF FlushStep

\* The buffer only shrinks once receiveLoop has returned.
LEMMA BufferShrinks ==
  ASSUME TypeOK, NEW p \in Procs, FlushStep(p)
  PROVE  \A k \in Keys : buffers'[k] \in {0, buffers[k]}
<1>1. ASSUME NEW k \in Keys, FlushDelete(p, k) PROVE \A j \in Keys : buffers'[j] \in {0, buffers[j]}
  BY <1>1 DEF FlushDelete, Removed, TypeOK
<1>2. ASSUME UNCHANGED buffers PROVE \A j \in Keys : buffers'[j] \in {0, buffers[j]} BY <1>2
<1> QED BY <1>1, <1>2 DEF FlushStep, FlushRange, FlushBuild, FlushCommit

LEMMA StopStep ==
  TypeOK /\ SwapHasItem /\ VersionsOK /\ FlushesOK /\ StopOK /\ [Next]_vars => StopOK'
<1> SUFFICES ASSUME TypeOK, SwapHasItem, VersionsOK, FlushesOK, StopOK, [Next]_vars PROVE StopOK' OBVIOUS
<1>f. fl \in [Procs -> FlushState] /\ buffers \in [Keys -> Versions] BY DEF TypeOK
<1>p. "stop" \in Procs BY DEF Procs
<1>i. FlushAll.pc = "range" /\ FlushAll.todo = Keys BY DEF FlushAll, FlushAt
<1>1. CASE UNCHANGED vars BY <1>1 DEF vars, StopOK
<1>2. ASSUME NEW k \in Keys, Add(k) PROVE StopOK' BY <1>2 DEF Add, StopOK
<1>3. CASE Receive \/ Swap
  <2>1. phase \notin {"final", "stopped"} BY <1>3 DEF Receive, Swap, FlushesOK
  <2> QED BY <1>3, <2>1 DEF Receive, Swap, StopOK
<1>4. CASE CheckSize
  <2>1. phase \notin {"final", "stopped"} BY <1>4 DEF CheckSize, FlushesOK
  <2>2. \A p \in Procs : fl'[p] \in {fl[p], FlushAll} BY <1>4, <1>f DEF CheckSize
  <2>3. UNCHANGED phase BY <1>4 DEF CheckSize
  <2> QED BY <2>1, <2>2, <2>3, <1>i DEF StopOK
<1>5. CASE ReceiveFlushed \/ ReceiveDone \/ Exit BY <1>5 DEF ReceiveFlushed, ReceiveDone, Exit, StopOK
<1>6. CASE Tick \/ ForceFlush
  <2>1. \A p \in Procs : fl'[p] \in {fl[p], FlushAll} BY <1>6, <1>f DEF Tick, ForceFlush
  <2>2. fl'["stop"] = fl["stop"] /\ UNCHANGED <<phase, buffers>> BY <1>6, <1>f, <1>p DEF Tick, ForceFlush
  <2> QED BY <2>1, <2>2, <1>i DEF StopOK
<1>7. ASSUME NEW p \in Procs, FlushStep(p) PROVE StopOK'
  <2>1. \A q \in Procs : fl'[q].pc # "range" => fl'[q].todo = {}
    BY <1>7, FlushPhases, FlushFrame DEF StopOK
  <2>2. UNCHANGED phase BY <1>7, FlushFrame
  <2>3. phase = "final" => \A k \in Keys : buffers'[k] # 0 => k \in fl'["stop"].todo \/ fl'["stop"].got[k] # 0
    <3>1. CASE p = "stop" BY <1>7, <3>1, StopFlushStep
    <3>2. CASE p # "stop"
      <4>1. fl'["stop"] = fl["stop"] BY <1>7, <3>2, <1>p, FlushFrame
      <4> QED BY <1>7, <4>1, BufferShrinks DEF StopOK
    <3> QED BY <3>1, <3>2
  <2>4. phase = "stopped" => buffers' = Nothing
    <3> SUFFICES ASSUME phase = "stopped" PROVE buffers' = Nothing OBVIOUS
    <3>1. \A k \in Keys : buffers'[k] = 0 BY <1>7, BufferShrinks DEF StopOK, Nothing
    <3>2. buffers' \in [Keys -> Versions] BY <1>7, FlushStepType DEF TypeOK
    <3> QED BY <3>1, <3>2 DEF Nothing
  <2> QED BY <2>1, <2>2, <2>3, <2>4 DEF StopOK
<1>8. CASE Shutdown
  <2>1. CASE phase \in {"running", "cancelled"}
    BY <1>8, <2>1 DEF Shutdown, StopOK
  <2>2. CASE phase = "stopping"
    <3>1. fl'["stop"] = FlushAll /\ \A q \in Procs : q # "stop" => fl'[q] = fl[q]
      BY <1>8, <2>2, <1>f, <1>p DEF Shutdown
    <3> QED BY <1>8, <2>2, <3>1, <1>i DEF Shutdown, StopOK
  <2>3. CASE phase = "final"
    <3>1. fl["stop"] = FlushIdle /\ phase' = "stopped" /\ UNCHANGED <<buffers, fl>>
      BY <1>8, <2>3, <1>p DEF Shutdown, FlushesOK
    <3>2. \A k \in Keys : buffers[k] = 0
      BY <2>3, <3>1 DEF StopOK, FlushIdle, FlushAt, Nothing
    <3>3. buffers' = Nothing BY <1>f, <3>1, <3>2 DEF Nothing
    <3> QED BY <3>1, <3>3 DEF StopOK
  <2> QED BY <1>8, <2>1, <2>2, <2>3 DEF Shutdown
<1> QED BY <1>1, <1>2, <1>3, <1>4, <1>5, <1>6, <1>7, <1>8 DEF Next

LEMMA ContendedStays == TypeOK /\ [Next]_vars => (contended => contended')
<1> SUFFICES ASSUME TypeOK, [Next]_vars, contended PROVE contended' OBVIOUS
<1>1. CASE UNCHANGED contended BY <1>1
<1>2. CASE CheckSize BY <1>2, Zenon DEF CheckSize
<1>3. CASE Tick BY <1>3, Zenon DEF Tick
<1>4. CASE ForceFlush BY <1>4 DEF ForceFlush
<1>5. ASSUME NEW p \in Procs, FlushStep(p) PROVE UNCHANGED contended BY <1>5, FlushFrame
<1> QED BY <1>1, <1>2, <1>3, <1>4, <1>5 DEF Next, Add, Receive, Swap, ReceiveFlushed, ReceiveDone, Shutdown, Exit, vars

\* At most one flush is under way.
LEMMA OneFlush ==
  ASSUME FlushesOK, ~contended, NEW p \in Procs, NEW q \in Procs, fl[p].pc # "idle", fl[q].pc # "idle"
  PROVE  p = q
BY DEF FlushesOK, Procs

\* The commit part, for a step that is not of a flush.
LEMMA CommitQuiet ==
  ASSUME RowsOK, ~contended, UNCHANGED db, \A p \in Procs : fl'[p] \in {fl[p], FlushAll, FlushIdle}
  PROVE  \A p \in Procs : fl'[p].pc = "commit" =>
             \A k \in KeysOf(fl'[p].table) : fl'[p].got[k] # 0 => db'[k] <= fl'[p].got[k]
<1>1. FlushAll.pc # "commit" /\ FlushIdle.pc # "commit" BY DEF FlushAll, FlushIdle, FlushAt
<1> QED BY <1>1 DEF RowsOK

\* A step that only begins flushes.
LEMMA OrderQuiet ==
  ASSUME NEW k \in Positions, OrderOK(k), UNCHANGED <<db, buffers, queue>>,
         r'.pc = "swap" => r' = r, \A p \in Procs : fl'[p] \in {fl[p], FlushAll, FlushIdle}
  PROVE  OrderOK(k)'
<1>1. FlushAll.got[k] = 0 /\ FlushIdle.got[k] = 0
  BY DEF FlushAll, FlushIdle, FlushAt, Nothing, Keys
<1>2. \A p \in Procs : fl'[p].got[k] # 0 => db'[k] <= fl'[p].got[k] /\ fl'[p].got[k] <= buffers'[k]
  BY <1>1 DEF OrderOK
<1> QED BY <1>2 DEF OrderOK

LEMMA AddRows ==
  ASSUME TypeOK, SwapHasItem, VersionsOK, NEW k \in Positions, OrderOK(k), NEW a \in Keys, Add(a)
  PROVE  OrderOK(k)'
<1>k. k \in Keys BY DEF Keys
<1>n. /\ made[k] \in Nat /\ buffers[k] \in Nat /\ db[k] \in Nat /\ Len(queue) \in Nat
      /\ \A i \in 1 .. Len(queue) : queue[i].key \in Keys /\ queue[i].ver \in Nat
      /\ r.pc = "swap" => r.item.key \in Keys /\ r.item.ver \in Nat
  BY <1>k, NatFacts
<1>u. UNCHANGED <<db, buffers, r, fl>> BY DEF Add
<1>1. ASSUME NEW i \in 1 .. Len(queue'), queue'[i].key = k
      PROVE  /\ db[k] < queue'[i].ver /\ buffers[k] < queue'[i].ver
             /\ r.pc = "swap" /\ r.item.key = k => r.item.ver < queue'[i].ver
             /\ \A j \in 1 .. (i - 1) : queue'[j].key = k => queue'[j].ver < queue'[i].ver
  <2>1. CASE i \in 1 .. Len(queue)
    <3>0. \A j \in 1 .. (i - 1) : j \in 1 .. Len(queue) BY <2>1, <1>n
    <3>1. queue'[i] = queue[i] /\ \A j \in 1 .. (i - 1) : queue'[j] = queue[j] BY <2>1, <3>0, AppendFacts
    <3> QED BY <1>1, <2>1, <3>1 DEF OrderOK
  <2>2. CASE i > Len(queue)
    <3>1. queue'[i] = [key |-> a, ver |-> made[a] + 1] /\ i = Len(queue) + 1 BY <2>2, AppendFacts
    <3>2. a = k /\ queue'[i].ver = made[k] + 1 BY <1>1, <3>1
    <3>3. \A j \in 1 .. (i - 1) : j \in 1 .. Len(queue) /\ queue'[j] = queue[j]
      BY <1>n, <3>1, AppendFacts
    <3>4. /\ db[k] <= made[k] /\ buffers[k] <= made[k]
          /\ r.pc = "swap" /\ r.item.key = k => r.item.ver <= made[k]
          /\ \A j \in 1 .. (i - 1) : queue'[j].key = k => queue'[j].ver <= made[k] /\ queue'[j].ver \in Nat
      BY <1>k, <1>n, <3>3 DEF VersionsOK
    <3>5. db[k] < queue'[i].ver /\ buffers[k] < queue'[i].ver BY <1>n, <3>2, <3>4
    <3>6. r.pc = "swap" /\ r.item.key = k => r.item.ver < queue'[i].ver BY <1>n, <3>2, <3>4
    <3>7. ASSUME NEW j \in 1 .. (i - 1), queue'[j].key = k PROVE queue'[j].ver < queue'[i].ver
      <4>1. queue'[j].ver <= made[k] /\ queue'[j].ver \in Nat BY <3>4, <3>7
      <4> QED BY <1>n, <3>2, <4>1
    <3> QED BY <3>5, <3>6, <3>7
  <2>3. Len(queue') \in Nat BY <1>n, AppendFacts
  <2> QED BY <1>n, <2>1, <2>2, <2>3
<1> QED BY <1>u, <1>1 DEF OrderOK

LEMMA ReceiveRows ==
  ASSUME TypeOK, SwapHasItem, NEW k \in Positions, OrderOK(k), Receive
  PROVE  OrderOK(k)'
<1>k. k \in Keys BY DEF Keys
<1>n. /\ buffers[k] \in Nat /\ db[k] \in Nat /\ Len(queue) \in Nat
      /\ \A i \in 1 .. Len(queue) : queue[i].key \in Keys /\ queue[i].ver \in Nat \ {0}
      /\ \A p \in Procs : fl[p].got[k] \in Nat
  BY <1>k, NatFacts
<1>u. UNCHANGED <<db, fl>> /\ r.pc = "idle" /\ buffers \in [Keys -> Versions] BY DEF Receive, TypeOK
<1>t. /\ Len(queue') = Len(queue) - 1 /\ Len(queue) > 0 /\ Head(queue) = queue[1] /\ 1 \in 1 .. Len(queue)
      /\ \A i \in 1 .. Len(queue') : queue'[i] = queue[i + 1] /\ i + 1 \in 1 .. Len(queue)
  BY <1>n, TailFacts
<1> DEFINE item == queue[1]
<1>1. ASSUME NEW i \in 1 .. Len(queue'), queue'[i].key = k
      PROVE  /\ db[k] < queue'[i].ver /\ buffers[k] < queue'[i].ver
             /\ item.key = k => item.ver < queue'[i].ver
             /\ \A j \in 1 .. (i - 1) : queue'[j].key = k => queue'[j].ver < queue'[i].ver
  <2>1. queue'[i] = queue[i + 1] /\ i + 1 \in 1 .. Len(queue) BY <1>t
  <2>2. 1 \in 1 .. ((i + 1) - 1) BY <1>n
  <2>3. \A j \in 1 .. (i - 1) : queue'[j] = queue[j + 1] /\ j + 1 \in 1 .. ((i + 1) - 1) BY <1>n, <1>t
  <2> QED BY <1>1, <2>1, <2>2, <2>3 DEF OrderOK
<1>2. CASE buffers[item.key] = 0 /\ buffers' = [buffers EXCEPT ![item.key] = item.ver] /\ r' = AfterStore(item)
  <2>1. r'.pc # "swap" BY <1>2 DEF AfterStore, Receiving
  <2>2. CASE item.key = k
    <3>1. buffers'[k] = item.ver /\ db[k] < item.ver /\ item.ver \in Nat \ {0}
      BY <1>2, <1>k, <1>n, <1>t, <1>u, <2>2 DEF OrderOK
    <3>2. \A p \in Procs : fl[p].got[k] = 0 BY <1>2, <1>n, <2>2 DEF OrderOK
    <3>3. db[k] <= item.ver BY <1>n, <3>1
    <3> HIDE DEF item
    <3> QED BY <1>1, <1>u, <2>1, <2>2, <3>1, <3>2, <3>3 DEF OrderOK
  <2>3. CASE item.key # k
    <3>1. buffers'[k] = buffers[k] BY <1>2, <1>k, <1>u, <2>3
    <3> QED BY <1>1, <1>u, <2>1, <3>1 DEF OrderOK
  <2> QED BY <2>2, <2>3
<1>3. CASE UNCHANGED buffers /\ r' = Receiving("swap", item, r.draining)
  <2>1. r'.item = item BY <1>3 DEF Receiving
  <2>2. item.key = k => db[k] < item.ver /\ buffers[k] < item.ver BY <1>t DEF OrderOK
  <2> HIDE DEF item
  <2> QED BY <1>1, <1>3, <1>u, <2>1, <2>2 DEF OrderOK
<1> QED BY <1>2, <1>3, <1>t DEF Receive

LEMMA SwapRows ==
  ASSUME TypeOK, SwapHasItem, NEW k \in Positions, OrderOK(k), Swap
  PROVE  OrderOK(k)'
<1>k. k \in Keys BY DEF Keys
<1>n. /\ buffers[k] \in Nat /\ db[k] \in Nat /\ buffers \in [Keys -> Versions]
      /\ \A p \in Procs : fl[p].got[k] \in Nat
      /\ r.item.key \in Keys /\ r.item.ver \in Nat \ {0}
  BY <1>k, NatFacts DEF Swap, TypeOK
<1>u. UNCHANGED <<db, fl, queue>> /\ r'.pc # "swap" /\ r.pc = "swap" BY DEF Swap, AfterStore, Receiving
<1>1. CASE r.item.key = k
  <2>1. buffers'[k] = r.item.ver BY <1>1, <1>k, <1>n DEF Swap
  <2>2. db[k] <= r.item.ver /\ buffers[k] <= r.item.ver BY <1>1, <1>u, <1>n DEF OrderOK
  <2>3. \A p \in Procs : fl[p].got[k] # 0 => fl[p].got[k] <= r.item.ver BY <1>n, <2>2 DEF OrderOK
  <2> QED BY <1>1, <1>u, <2>1, <2>2, <2>3 DEF OrderOK
<1>2. CASE r.item.key # k
  <2>1. buffers'[k] = buffers[k] BY <1>2, <1>k, <1>n DEF Swap
  <2> QED BY <1>u, <2>1 DEF OrderOK
<1> QED BY <1>1, <1>2

\* A flush step while no other flush is under way.
LEMMA FlushRows ==
  ASSUME TypeOK, SwapHasItem, VersionsOK, FlushesOK, RowsOK, ~contended, NEW p \in Procs, FlushStep(p)
  PROVE  /\ \A k \in Positions : OrderOK(k)'
         /\ \A q \in Procs : fl'[q].pc = "commit" =>
              \A k \in KeysOf(fl'[q].table) : fl'[q].got[k] # 0 => db'[k] <= fl'[q].got[k]
         /\ \A k \in Keys : db[k] <= db'[k]
<1> DEFINE f == fl[p]
           g == fl'[p]
<1>k. Positions \subseteq Keys /\ \A t \in Tables : KeysOf(t) \subseteq Keys BY DEF Keys, KeysOf
<1>n. /\ \A k \in Keys : buffers[k] \in Nat /\ db[k] \in Nat /\ made[k] \in Nat /\ f.got[k] \in Nat
      /\ fl \in [Procs -> FlushState] /\ f.got \in [Keys -> Versions] /\ f.table \in Tables
      /\ buffers \in [Keys -> Versions]
  BY NatFacts DEF TypeOK
<1>u. UNCHANGED <<made, queue, r>> /\ f.pc # "idle" /\ \A q \in Procs : q # p => fl'[q] = fl[q] BY FlushFrame
<1>o. \A q \in Procs : q # p => fl[q].pc = "idle" /\ fl[q] = FlushIdle BY <1>u, OneFlush DEF FlushesOK
<1>i. FlushIdle.pc = "idle" /\ \A k \in Keys : FlushIdle.got[k] = 0
  BY DEF FlushIdle, FlushAt, Nothing
\* What is left to show is about the flush of p.
<1>s. ASSUME \A k \in Positions : buffers'[k] \in {0, buffers[k]} /\ db[k] <= db'[k],
             \A k \in Positions : db'[k] = db[k] \/ (db'[k] = f.got[k] /\ f.got[k] # 0),
             \A k \in Positions : g.got[k] # 0 => db'[k] <= g.got[k] /\ g.got[k] <= buffers'[k],
             \A k \in Positions : buffers'[k] # 0 => db'[k] <= buffers'[k]
      PROVE  \A k \in Positions : OrderOK(k)'
  <2> TAKE k \in Positions
  <2>1. k \in Keys /\ OrderOK(k) BY <1>k DEF RowsOK
  <2>2. f.got[k] # 0 => f.got[k] <= buffers[k] BY <2>1 DEF OrderOK
  <2>3. \A q \in Procs : fl'[q].got[k] # 0 => db'[k] <= fl'[q].got[k] /\ fl'[q].got[k] <= buffers'[k]
    BY <1>s, <1>u, <1>o, <1>i, <2>1
  <2>4. db'[k] <= db[k] \/ db'[k] <= buffers[k] BY <1>s, <1>n, <2>1, <2>2
  <2>5. db'[k] \in Nat /\ buffers'[k] \in Nat BY <1>s, <1>n, <2>1
  <2>6. \A i \in 1 .. Len(queue) : queue[i].ver \in Nat BY NatFacts
  <2>7. ASSUME NEW i \in 1 .. Len(queue), queue[i].key = k
        PROVE  db'[k] < queue[i].ver /\ buffers'[k] < queue[i].ver
    <3>1. db[k] < queue[i].ver /\ buffers[k] < queue[i].ver BY <2>1, <2>7 DEF OrderOK
    <3>2. queue[i].ver \in Nat /\ db[k] \in Nat /\ buffers[k] \in Nat BY <1>n, <2>1, <2>6
    <3>3. buffers'[k] = 0 \/ buffers'[k] = buffers[k] BY <1>s
    <3> QED BY <2>4, <2>5, <3>1, <3>2, <3>3
  <2>8. r.pc = "swap" /\ r.item.key = k => db'[k] < r.item.ver /\ buffers'[k] < r.item.ver
    BY <1>s, <1>n, <2>1, <2>4, <2>5, NatFacts DEF OrderOK
  <2> QED BY <1>s, <1>u, <2>1, <2>3, <2>7, <2>8 DEF OrderOK
<1>c. ASSUME g.pc = "commit" => \A k \in KeysOf(g.table) : g.got[k] # 0 => db'[k] <= g.got[k]
      PROVE  \A q \in Procs : fl'[q].pc = "commit" =>
              \A k \in KeysOf(fl'[q].table) : fl'[q].got[k] # 0 => db'[k] <= fl'[q].got[k]
  BY <1>c, <1>u, <1>o, <1>i
<1>r. \A k \in Positions : /\ buffers[k] # 0 => db[k] <= buffers[k]
                           /\ f.got[k] # 0 => db[k] <= f.got[k] /\ f.got[k] <= buffers[k]
  BY DEF RowsOK, OrderOK
<1>1. ASSUME NEW k \in Keys, FlushRange(p, k)
      PROVE  /\ \A j \in Positions : OrderOK(j)'
             /\ g.pc # "commit" /\ UNCHANGED db
  <2>1. UNCHANGED <<db, buffers>> /\ g.pc # "commit"
    BY <1>1, <1>n DEF FlushRange, FlushAt, FlushIdle
  <2>2. g = FlushIdle \/ g.got = [f.got EXCEPT ![k] = buffers[k]]
    BY <1>1, <1>n DEF FlushRange, FlushAt
  <2>3. \A j \in Positions : g.got[j] # 0 => db[j] <= g.got[j] /\ g.got[j] <= buffers[j]
    <3> TAKE j \in Positions
    <3>1. j \in Keys BY <1>k
    <3>2. CASE g = FlushIdle BY <1>i, <3>1, <3>2
    <3>3. CASE g.got = [f.got EXCEPT ![k] = buffers[k]] /\ j = k
      BY <1>n, <1>r, <3>1, <3>3
    <3>4. CASE g.got = [f.got EXCEPT ![k] = buffers[k]] /\ j # k
      <4>1. g.got[j] = f.got[j] BY <1>n, <3>1, <3>4
      <4> QED BY <1>r, <4>1
    <3> QED BY <2>2, <3>2, <3>3, <3>4
  <2> HIDE DEF f, g
  <2>4. \A j \in Positions : db[j] <= db[j] BY <1>n, <1>k
  <2>5. \A j \in Positions : buffers'[j] \in {0, buffers[j]} /\ db[j] <= db'[j] BY <2>1, <2>4
  <2>6. \A j \in Positions : db'[j] = db[j] \/ (db'[j] = f.got[j] /\ f.got[j] # 0) BY <2>1
  <2>7. \A j \in Positions : g.got[j] # 0 => db'[j] <= g.got[j] /\ g.got[j] <= buffers'[j] BY <2>1, <2>3
  <2>8. \A j \in Positions : buffers'[j] # 0 => db'[j] <= buffers'[j] BY <1>r, <2>1
  <2>9. \A j \in Positions : OrderOK(j)' BY <1>s, <2>5, <2>6, <2>7, <2>8
  <2> QED BY <2>1, <2>9
<1>2. ASSUME NEW k \in Keys, FlushDelete(p, k)
      PROVE  /\ \A j \in Positions : OrderOK(j)'
             /\ g.pc # "commit" /\ UNCHANGED db
  <2>1. UNCHANGED db /\ g.pc # "commit" /\ buffers' = [buffers EXCEPT ![k] = 0]
    BY <1>2, <1>n DEF FlushDelete, Removed, FlushAt, FlushIdle
  <2>2. g = FlushIdle \/ g.got = [f.got EXCEPT ![k] = 0]
    BY <1>2, <1>n DEF FlushDelete, FlushAt
  <2>3. \A j \in Positions : /\ buffers'[j] \in {0, buffers[j]}
                             /\ g.got[j] # 0 => db[j] <= g.got[j] /\ g.got[j] <= buffers'[j]
    <3> TAKE j \in Positions
    <3>1. j \in Keys BY <1>k
    <3>0. buffers'[j] = IF j = k THEN 0 ELSE buffers[j] BY <1>n, <2>1, <3>1
    <3>2. CASE g = FlushIdle BY <1>i, <3>0, <3>1, <3>2
    <3>3. CASE g.got = [f.got EXCEPT ![k] = 0]
      <4>1. g.got[j] = IF j = k THEN 0 ELSE f.got[j] BY <1>n, <3>1, <3>3
      <4> QED BY <1>r, <3>0, <4>1
    <3> QED BY <2>2, <3>2, <3>3
  <2> HIDE DEF f, g
  <2>4. \A j \in Positions : db[j] <= db[j] BY <1>n, <1>k
  <2>5. \A j \in Positions : buffers'[j] \in {0, buffers[j]} /\ db[j] <= db'[j] BY <2>1, <2>3, <2>4
  <2>6. \A j \in Positions : db'[j] = db[j] \/ (db'[j] = f.got[j] /\ f.got[j] # 0) BY <2>1
  <2>7. \A j \in Positions : g.got[j] # 0 => db'[j] <= g.got[j] /\ g.got[j] <= buffers'[j] BY <2>1, <2>3
  <2>8. \A j \in Positions : buffers'[j] # 0 => db'[j] <= buffers'[j] BY <1>r, <2>1, <2>3
  <2>9. \A j \in Positions : OrderOK(j)' BY <1>s, <2>5, <2>6, <2>7, <2>8
  <2> QED BY <2>1, <2>9
<1>3. ASSUME NEW t \in Tables, FlushBuild(p, t)
      PROVE  /\ \A j \in Positions : OrderOK(j)'
             /\ g.pc = "commit" => \A k \in KeysOf(g.table) : g.got[k] # 0 => db'[k] <= g.got[k]
             /\ UNCHANGED db
  <2>1. UNCHANGED <<db, buffers>> /\ g.table = t
        /\ g.got = [k \in Keys |-> IF k \in KeysOf(t) THEN Content(p, k) ELSE f.got[k]]
    BY <1>3, <1>n DEF FlushBuild, FlushAt
  <2>2. \A j \in Positions : g.got[j] = f.got[j]
    BY <2>1, <1>k DEF Content
  <2>3. \A k \in KeysOf(t) : g.got[k] # 0 => db[k] <= g.got[k]
    <3> TAKE k \in KeysOf(t)
    <3>1. k \in Keys /\ (k \in Positions \/ k \in Aggregations) BY <1>k DEF Keys
    <3>2. CASE k \in Positions BY <1>r, <2>2, <3>2
    <3>3. CASE k \in Aggregations
      <4>1. g.got[k] # 0 => g.got[k] = made[k] BY <2>1, <3>1, <3>3 DEF Content
      <4> QED BY <4>1, <3>1 DEF VersionsOK
    <3> QED BY <3>1, <3>2, <3>3
  <2> HIDE DEF f, g
  <2>4. \A j \in Positions : db[j] <= db[j] BY <1>n, <1>k
  <2>5. \A j \in Positions : buffers'[j] \in {0, buffers[j]} /\ db[j] <= db'[j] BY <2>1, <2>4
  <2>6. \A j \in Positions : db'[j] = db[j] \/ (db'[j] = f.got[j] /\ f.got[j] # 0) BY <2>1
  <2>7. \A j \in Positions : g.got[j] # 0 => db'[j] <= g.got[j] /\ g.got[j] <= buffers'[j] BY <1>r, <2>1, <2>2
  <2>8. \A j \in Positions : buffers'[j] # 0 => db'[j] <= buffers'[j] BY <1>r, <2>1
  <2>9. \A j \in Positions : OrderOK(j)' BY <1>s, <2>5, <2>6, <2>7, <2>8
  <2> QED BY <2>1, <2>3, <2>9
<1>4. ASSUME FlushCommit(p)
      PROVE  /\ \A j \in Positions : OrderOK(j)'
             /\ g.pc # "commit" /\ \A k \in Keys : db[k] <= db'[k]
  <2>1. UNCHANGED buffers /\ g.got = f.got /\ g.pc # "commit" /\ f.pc = "commit"
    BY <1>4, <1>n DEF FlushCommit, FlushAt
  <2>2. \A k \in KeysOf(f.table) : f.got[k] # 0 => db[k] <= f.got[k] BY <2>1 DEF RowsOK
  <2>3. \A k \in Keys : db'[k] = db[k] \/ (db'[k] = f.got[k] /\ f.got[k] # 0 /\ k \in KeysOf(f.table))
    BY <1>4 DEF FlushCommit
  <2>4. \A k \in Keys : db[k] <= db'[k] BY <1>n, <2>2, <2>3
  <2>5. \A k \in Positions : g.got[k] # 0 => db'[k] <= g.got[k] /\ g.got[k] <= buffers'[k]
    BY <1>k, <1>n, <1>r, <2>1, <2>3
  <2>6. \A k \in Positions : buffers'[k] # 0 => db'[k] <= buffers'[k]
    BY <1>k, <1>n, <1>r, <2>1, <2>3
  <2> HIDE DEF f, g
  <2>7. \A k \in Positions : buffers'[k] \in {0, buffers[k]} /\ db[k] <= db'[k] BY <1>k, <2>1, <2>4
  <2>8. \A k \in Positions : db'[k] = db[k] \/ (db'[k] = f.got[k] /\ f.got[k] # 0) BY <1>k, <2>3
  <2>9. \A k \in Positions : OrderOK(k)' BY <1>s, <2>5, <2>6, <2>7, <2>8
  <2> QED BY <2>1, <2>4, <2>9
<1> HIDE DEF f, g
<1>5. \A k \in Keys : UNCHANGED db => db[k] <= db'[k] BY <1>n
<1> QED BY <1>1, <1>2, <1>3, <1>4, <1>5, <1>c DEF FlushStep

LEMMA RowsStep ==
  TypeOK /\ SwapHasItem /\ VersionsOK /\ FlushesOK /\ RowsOK /\ [Next]_vars => RowsOK'
<1> SUFFICES ASSUME TypeOK, SwapHasItem, VersionsOK, FlushesOK, RowsOK, [Next]_vars, ~contended'
             PROVE  /\ \A k \in Positions : OrderOK(k)'
                    /\ (\A p \in Procs : fl[p].pc = "commit" =>
                         \A k \in KeysOf(fl[p].table) : fl[p].got[k] # 0 => db[k] <= fl[p].got[k])'
  BY DEF RowsOK
<1>0. ~contended BY ContendedStays
<1>f. fl \in [Procs -> FlushState] BY DEF TypeOK
<1>o. \A k \in Positions : OrderOK(k) BY <1>0 DEF RowsOK
<1>1. CASE UNCHANGED vars
  BY <1>1, <1>0, <1>o, CommitQuiet, OrderQuiet DEF vars
<1>2. ASSUME NEW a \in Keys, Add(a)
      PROVE  (\A k \in Positions : OrderOK(k)') /\ UNCHANGED <<db, fl>>
  BY <1>2, <1>o, AddRows DEF Add
<1>3. CASE Receive
  BY <1>3, <1>0, <1>o, ReceiveRows, CommitQuiet DEF Receive
<1>4. CASE Swap
  BY <1>4, <1>0, <1>o, SwapRows, CommitQuiet DEF Swap
<1>5. CASE CheckSize \/ ReceiveFlushed \/ ReceiveDone \/ Tick \/ Shutdown \/ ForceFlush \/ Exit
  <2>1. \A p \in Procs : fl'[p] \in {fl[p], FlushAll, FlushIdle}
    BY <1>5, <1>f DEF CheckSize, ReceiveFlushed, ReceiveDone, Tick, Shutdown, ForceFlush, Exit
  <2>2. UNCHANGED <<db, buffers, queue>>
    BY <1>5 DEF CheckSize, ReceiveFlushed, ReceiveDone, Tick, Shutdown, ForceFlush, Exit
  <2>3. r'.pc = "swap" => r' = r
    BY <1>5 DEF CheckSize, ReceiveFlushed, ReceiveDone, Tick, Shutdown, ForceFlush, Exit, Receiving
  <2> QED BY <1>0, <1>o, <2>1, <2>2, <2>3, CommitQuiet, OrderQuiet
<1>6. CASE \E p \in Procs : FlushStep(p) BY <1>0, <1>6, FlushRows
<1>7. CASE \E a \in Keys : Add(a) BY <1>0, <1>2, <1>7, CommitQuiet
<1> QED BY <1>1, <1>3, <1>4, <1>5, <1>6, <1>7 DEF Next

LEMMA InvInit == Init => Inv
<1> SUFFICES ASSUME Init PROVE Inv OBVIOUS
<1>1. TypeOK /\ SwapHasItem BY TypeInit DEF Init, SwapHasItem, Receiving
<1>i. FlushIdle.pc = "idle" /\ FlushIdle.todo = {} /\ \A k \in Keys : FlushIdle.got[k] = 0
  BY DEF FlushIdle, FlushAt, Nothing
<1>j. /\ r.pc = "idle" /\ Len(queue) = 0 /\ \A p \in Procs : fl[p] = FlushIdle
      /\ \A k \in Keys : made[k] = 0 /\ buffers[k] = 0 /\ db[k] = 0
      /\ ticker = "run" /\ phase = "running"
  BY DEF Init, Receiving, Nothing
<1>2. VersionsOK BY <1>i, <1>j DEF VersionsOK
<1>3. FlushesOK BY <1>i, <1>j DEF FlushesOK, Procs
<1>4. StopOK BY <1>i, <1>j DEF StopOK
<1>5. RowsOK BY <1>i, <1>j DEF RowsOK, OrderOK, Keys
<1> QED BY <1>1, <1>2, <1>3, <1>4, <1>5 DEF Inv

LEMMA InvStep == Inv /\ [Next]_vars => Inv'
BY TypeStep, VersionsStep, FlushesStep, StopStep, RowsStep DEF Inv

LEMMA InvInvariant == Spec => []Inv
BY InvInit, InvStep, PTL DEF Spec

\* StopDrains: when Stop returns, the buffer is empty and of what was added before it
\* closed done nothing is in the queue, for any number of keys, whoever else is adding or
\* flushing meanwhile and whatever the database did.
THEOREM StopDrainsEverything == Spec => []StopDrains
<1>1. Inv => StopDrains BY DEF Inv, FlushesOK, StopOK, StopDrains, Received, Done
<1> QED BY <1>1, InvInvariant, PTL

\* RowNeverGoesBack: a row is overwritten by an older state of its key only after
\* receiveLoop and flushLoop flushed at once, or a flush was forced.
THEOREM RowsNeverGoBack == Spec => RowNeverGoesBack
<1>1. Inv /\ [Next]_vars => [~contended => \A k \in Keys : db[k] <= db'[k]]_vars
  <2> SUFFICES ASSUME Inv, Next, ~contended PROVE \A k \in Keys : db[k] <= db'[k] OBVIOUS
  <2>1. CASE \E p \in Procs : FlushStep(p) BY <2>1, FlushRows DEF Inv
  <2>2. CASE UNCHANGED db
    <3>1. \A k \in Keys : db[k] \in Nat BY NatFacts DEF Inv
    <3> QED BY <2>2, <3>1
  <2> QED BY <2>1, <2>2 DEF Next, Add, Receive, Swap, CheckSize, ReceiveFlushed, ReceiveDone, Tick, Shutdown, ForceFlush, Exit
<1> QED BY <1>1, InvInvariant, PTL DEF Spec, RowNeverGoesBack
=============================================================================
