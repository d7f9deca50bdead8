-------------------------- MODULE PositionsProofs --------------------------
(* Proofs about Positions, for any documents, symbols, number of callbacks    *)
(* and capacity of the queue.                                                 *)
EXTENDS Positions, SequenceTheorems, WellFoundedInduction, TLAPS

USE PositionsAssumption

-----------------------------------------------------------------------------
(* The inductive invariant *)

Maps  == 1 .. 4
CtxNames == UNION {DOMAIN doc.ctxs : doc \in Docs}
Tasks == [pc : {"idle", "price", "row", "set"}, n : Nat, todo : SUBSET (CtxNames \cup Maps)]

\* The types; a callback stores the maps in order, a cache is deleted from only while
\* the address is not subscribed.
Shape ==
    /\ subscribed \in BOOLEAN /\ overflow \in BOOLEAN
    /\ docs \in Seq(Docs) /\ since \in Nat
    /\ tasks \in [Callbacks -> Tasks]
    /\ \A c \in Callbacks :
         /\ IF tasks[c].pc = "idle" THEN tasks[c].n = 0 ELSE tasks[c].n \in 1 .. Len(docs)
         /\ tasks[c].pc = "set" => \E k \in Maps : tasks[c].todo = k .. 4
    /\ cache \in [Maps -> Nat] /\ queue \in Seq(Nat) /\ row \in Nat
    /\ deleted \subseteq Maps /\ (deleted # {} => ~subscribed)
    /\ finished \subseteq 1 .. Len(docs)

\* The update of a callback at work overlaps with every later one.
OverlapOK ==
    \A c \in Callbacks : tasks[c].n # 0 =>
        \A m \in 1 .. Len(docs) : m > tasks[c].n => {tasks[c].n, m} \in overlap

\* Update x hides m rightly.
Hides(x, m) == x # 0 /\ (x < m => {x, m} \in overlap)

\* A map holds what hides every update that was stored in it,
Stored(m, k) ==
    \/ m \in finished
    \/ \E c \in Callbacks : tasks[c].pc = "set" /\ tasks[c].n = m /\ k \notin tasks[c].todo
StoredOK ==
    subscribed => \A m \in 1 .. Len(docs), k \in Maps : m > since /\ Stored(m, k) => Hides(cache[k], m)

\* and the last row on its way what hides every update that was queued.
LastRow == IF queue = <<>> THEN row ELSE queue[Len(queue)]
Queued(m) == m \in finished \/ \E c \in Callbacks : tasks[c].pc = "set" /\ tasks[c].n = m
RowOK == ~overflow => \A m \in 1 .. Len(docs) : Queued(m) => Hides(LastRow, m)

\* While the address is not subscribed, only the callbacks that were running when it was
\* dropped can store, and Delete has still to come where anything else is.
LateOK ==
    ~subscribed =>
        /\ \A c \in Callbacks : tasks[c].n # 0 => tasks[c].n \in late
        /\ \A k \in Maps : k \in deleted \/ cache[k] \in {0} \cup late

Inv == Shape /\ OverlapOK /\ StoredOK /\ RowOK /\ LateOK

-----------------------------------------------------------------------------
(* Minima, and the last element of a queue *)

LEMMA MinFacts ==
  ASSUME NEW S \in SUBSET Maps, S # {}
  PROVE  Min(S) \in S /\ \A y \in S : Min(S) <= y
<1>1. \E x \in S : \A y \in S : x <= y
  <2>1. CASE 1 \in S
    BY <2>1 DEF Maps
  <2>2. CASE 1 \notin S /\ 2 \in S
    BY <2>2 DEF Maps
  <2>3. CASE 1 \notin S /\ 2 \notin S /\ 3 \in S
    BY <2>3 DEF Maps
  <2>4. CASE 1 \notin S /\ 2 \notin S /\ 3 \notin S
    <3>1. \A y \in S : y = 4
      BY <2>4 DEF Maps
    <3> QED
      BY <3>1
  <2> QED
    BY <2>1, <2>2, <2>3, <2>4
<1> QED
  BY <1>1 DEF Min

LEMMA MinOfTail ==
  ASSUME NEW k \in Maps
  PROVE  /\ Min(k .. 4) = k
         /\ k # 4 => k + 1 \in Maps /\ (k .. 4) \ {k} = k + 1 .. 4
<1>1. k .. 4 \in SUBSET Maps /\ k .. 4 # {}
  BY DEF Maps
<1>2. Min(k .. 4) \in k .. 4 /\ Min(k .. 4) <= k
  BY <1>1, MinFacts DEF Maps
<1> QED
  BY <1>2 DEF Maps

-----------------------------------------------------------------------------
(* What the loader and the signals leave alone *)

positions == <<subscribed, docs, tasks, cache, deleted, queue, row, finished, overlap, late, since,
               overflow>>

LEMMA InitInv == Init => Inv
<1> SUFFICES ASSUME Init PROVE Inv
  OBVIOUS
<1>1. /\ docs = <<>> /\ Len(docs) = 0 /\ tasks = [c \in Callbacks |-> IdleTask]
      /\ cache = [k \in Maps |-> 0] /\ deleted = {} /\ queue = <<>> /\ row = 0
      /\ finished = {} /\ since = 0
  BY DEF Init, Maps
<1>2. subscribed \in BOOLEAN /\ overflow \in BOOLEAN
  BY Zenon DEF Init
<1>3. IdleTask \in Tasks /\ IdleTask.pc = "idle" /\ IdleTask.n = 0
  BY DEF IdleTask, Tasks
<1>4. Shape
  BY <1>1, <1>2, <1>3 DEF Shape
<1>5. OverlapOK /\ StoredOK /\ RowOK
  BY <1>1 DEF OverlapOK, StoredOK, RowOK
<1>6. LateOK
  BY <1>1, <1>3 DEF LateOK
<1> QED
  BY <1>4, <1>5, <1>6 DEF Inv

LEMMA SamePositions ==
  ASSUME Inv, UNCHANGED positions
  PROVE  Inv'
<1> USE DEF Inv, positions
<1>1. Shape'
  BY DEF Shape
<1>2. OverlapOK'
  BY DEF OverlapOK
<1>3. StoredOK'
  BY DEF StoredOK, Stored, Hides
<1>4. RowOK'
  BY DEF RowOK, Queued, Hides, LastRow
<1>5. LateOK'
  BY DEF LateOK
<1> QED
  BY <1>1, <1>2, <1>3, <1>4, <1>5

LEMMA LoadStep == ASSUME Inv, Load PROVE Inv'
<1>1. UNCHANGED positions
  BY DEF Load, SpotMeta, PerpMeta, PerpMetaFails, Loaded, SetPerpClean, SetPerpName, Loads, history,
         positions
<1> QED
  BY <1>1, SamePositions

LEMMA SignalStep ==
  ASSUME Inv, (\E o \in Orders : Fill(o)) \/ SignalRate \/ SignalClose
  PROVE  Inv'
<1>1. UNCHANGED positions
  BY DEF Fill, SignalRate, SignalClose, history, positions
<1> QED
  BY <1>1, SamePositions

-----------------------------------------------------------------------------
(* Subscribing, and forgetting an address *)

LEMMA SubscribeStep == ASSUME Inv, Subscribe PROVE Inv'
<1>1. /\ deleted = {} /\ since' = Len(docs)
      /\ UNCHANGED <<docs, tasks, cache, deleted, queue, row, finished, overlap, overflow>>
  BY DEF Subscribe
<1>2. subscribed' /\ subscribed' \in BOOLEAN
  BY Zenon DEF Subscribe
<1>3. Len(docs) \in Nat
  BY DEF Inv, Shape
<1>4. Shape'
  BY <1>1, <1>2, <1>3 DEF Inv, Shape
<1>5. OverlapOK'
  BY <1>1 DEF Inv, OverlapOK
<1>6. StoredOK'
  BY <1>1, <1>3 DEF StoredOK
<1>7. RowOK'
  BY <1>1 DEF Inv, RowOK, Queued, Hides, LastRow
<1>8. LateOK'
  BY <1>2 DEF LateOK
<1> QED
  BY <1>4, <1>5, <1>6, <1>7, <1>8 DEF Inv

LEMMA UnsubscribeStep == ASSUME Inv, Unsubscribe PROVE Inv'
<1>1. /\ deleted' = Maps /\ late' = Active
      /\ UNCHANGED <<docs, tasks, cache, queue, row, finished, overlap, since, overflow>>
  BY DEF Unsubscribe, MapsToDelete, Maps
<1>2. ~subscribed' /\ subscribed' \in BOOLEAN
  BY Zenon DEF Unsubscribe
<1>3. Shape'
  BY <1>1, <1>2 DEF Inv, Shape
<1>4. OverlapOK'
  BY <1>1 DEF Inv, OverlapOK
<1>5. StoredOK'
  BY <1>2 DEF StoredOK
<1>6. RowOK'
  BY <1>1 DEF Inv, RowOK, Queued, Hides, LastRow
<1>7. LateOK'
  BY <1>1 DEF LateOK, Active
<1> QED
  BY <1>3, <1>4, <1>5, <1>6, <1>7 DEF Inv

LEMMA DeleteStep == ASSUME Inv, Delete PROVE Inv'
<1>1. PICK k : k = Min(deleted)
  OBVIOUS
<1>2. /\ cache' = [cache EXCEPT ![k] = 0] /\ deleted' = deleted \ {k} /\ deleted # {}
      /\ UNCHANGED <<subscribed, docs, tasks, queue, row, finished, overlap, late, since, overflow>>
  BY <1>1 DEF Delete, history
<1>3. k \in Maps /\ ~subscribed
  BY <1>1, <1>2, MinFacts DEF Inv, Shape
<1>4. Shape'
  BY <1>2, <1>3 DEF Inv, Shape
<1>5. OverlapOK'
  BY <1>2 DEF Inv, OverlapOK
<1>6. StoredOK'
  BY <1>2, <1>3 DEF StoredOK
<1>7. RowOK'
  BY <1>2 DEF Inv, RowOK, Queued, Hides, LastRow
<1>8. LateOK'
  BY <1>2, <1>3 DEF Inv, LateOK, Shape
<1> QED
  BY <1>4, <1>5, <1>6, <1>7, <1>8 DEF Inv

-----------------------------------------------------------------------------
(* The callbacks *)

\* Facts about tasks.
LEMMA TaskFacts ==
  ASSUME Inv, NEW c \in Callbacks
  PROVE  /\ tasks[c] \in Tasks /\ tasks[c].n \in Nat /\ tasks[c].todo \subseteq CtxNames \cup Maps
         /\ tasks[c].pc # "idle" => tasks[c].n \in 1 .. Len(docs) /\ tasks[c].n # 0
         /\ Len(docs) \in Nat
  BY DEF Inv, Shape, Tasks

LEMMA ReceiveStep == ASSUME Inv, NEW c \in Callbacks, NEW doc \in Docs, Receive(c, doc) PROVE Inv'
<1>1. PICK N : N = Len(docs')
  OBVIOUS
<1>2. PICK r : r = At("price", N, DOMAIN doc.ctxs)
  OBVIOUS
<1>3. /\ docs' = Append(docs, doc) /\ tasks' = [tasks EXCEPT ![c] = r] /\ tasks[c] = IdleTask
      /\ overlap' = overlap \cup {{n, N} : n \in Active}
      /\ UNCHANGED <<cache, deleted, queue, row, finished, late, since, overflow>>
  BY <1>1, <1>2 DEF Receive
<1>4. subscribed /\ UNCHANGED subscribed
  BY DEF Receive
<1>5. docs' \in Seq(Docs) /\ Len(docs) \in Nat /\ N = Len(docs) + 1
  BY <1>1, <1>3 DEF Inv, Shape
<1>6. r \in Tasks /\ r.pc = "price" /\ r.n = N
  <2>1. DOMAIN doc.ctxs \subseteq CtxNames
    BY DEF CtxNames
  <2> QED
    BY <1>2, <1>5, <2>1 DEF At, Tasks
<1>7. /\ tasks'[c] = r /\ \A d \in Callbacks : d # c => tasks'[d] = tasks[d]
      /\ tasks' \in [Callbacks -> Tasks] /\ tasks[c].pc = "idle"
  BY <1>3, <1>6 DEF Inv, Shape, IdleTask
<1>8. Shape'
  <2>1. \A d \in Callbacks :
         /\ IF tasks'[d].pc = "idle" THEN tasks'[d].n = 0 ELSE tasks'[d].n \in 1 .. Len(docs')
         /\ tasks'[d].pc = "set" => \E k \in Maps : tasks'[d].todo = k .. 4
    BY <1>1, <1>5, <1>6, <1>7 DEF Inv, Shape
  <2>2. finished' \subseteq 1 .. Len(docs')
    BY <1>1, <1>3, <1>5 DEF Inv, Shape
  <2> QED
    BY <1>3, <1>4, <1>5, <1>7, <2>1, <2>2 DEF Inv, Shape
<1>9. OverlapOK'
  <2> SUFFICES ASSUME NEW d \in Callbacks, tasks'[d].n # 0, NEW m \in 1 .. Len(docs'),
                      m > tasks'[d].n
               PROVE  {tasks'[d].n, m} \in overlap'
    BY DEF OverlapOK
  <2>1. d # c /\ tasks'[d] = tasks[d]
    BY <1>1, <1>5, <1>6, <1>7
  <2>2. CASE m = N
    <3>1. tasks[d].n \in Active
      BY <2>1 DEF Active
    <3> QED
      BY <1>3, <2>1, <2>2, <3>1
  <2>3. CASE m \in 1 .. Len(docs)
    BY <1>3, <2>1, <2>3 DEF Inv, OverlapOK
  <2> QED
    BY <1>1, <1>5, <2>2, <2>3
<1>10. \A m : Queued(m)' => Queued(m)
  BY <1>3, <1>6, <1>7 DEF Queued
<1>11. \A m, k : Stored(m, k)' => Stored(m, k)
  BY <1>3, <1>6, <1>7 DEF Stored
<1>12. \A m : Queued(m) => m \in 1 .. Len(docs)
  BY TaskFacts DEF Inv, Shape, Queued
<1>13. \A m, k : Stored(m, k) => m \in 1 .. Len(docs)
  BY TaskFacts DEF Inv, Shape, Stored
<1>15. StoredOK'
  <2> SUFFICES ASSUME NEW m, NEW k \in Maps, m > since, Stored(m, k)'
               PROVE  Hides(cache[k], m)'
    BY <1>3 DEF StoredOK
  <2>1. Hides(cache[k], m)
    BY <1>4, <1>11, <1>13 DEF Inv, StoredOK
  <2> QED
    BY <1>3, <2>1 DEF Hides
<1>16. RowOK'
  <2> SUFFICES ASSUME ~overflow, NEW m, Queued(m)'
               PROVE  Hides(LastRow, m)'
    BY <1>3 DEF RowOK
  <2>1. Hides(LastRow, m)
    BY <1>10, <1>12 DEF Inv, RowOK
  <2> QED
    BY <1>3, <2>1 DEF Hides, LastRow
<1>17. LateOK'
  BY <1>4 DEF LateOK
<1> QED
  BY <1>8, <1>9, <1>15, <1>16, <1>17 DEF Inv

\* A callback that has stored nothing yet moves on, or ends.
LEMMA EarlyMove ==
  ASSUME Inv, NEW c \in Callbacks, NEW r \in Tasks, tasks' = [tasks EXCEPT ![c] = r],
         tasks[c].pc \in {"price", "row"},
         \/ r.pc \in {"price", "row"} /\ r.n = tasks[c].n
         \/ r.pc = "idle" /\ r.n = 0,
         UNCHANGED <<subscribed, docs, cache, deleted, queue, row, finished, overlap, late, since,
                     overflow>>
  PROVE  Inv'
<1>1. /\ tasks'[c] = r /\ \A d \in Callbacks : d # c => tasks'[d] = tasks[d]
      /\ tasks' \in [Callbacks -> Tasks]
  BY DEF Inv, Shape
<1>2. tasks[c].n \in 1 .. Len(docs)
  BY TaskFacts
<1>3. Shape'
  <2>1. \A d \in Callbacks :
         /\ IF tasks'[d].pc = "idle" THEN tasks'[d].n = 0 ELSE tasks'[d].n \in 1 .. Len(docs)
         /\ tasks'[d].pc = "set" => \E k \in Maps : tasks'[d].todo = k .. 4
    BY <1>1, <1>2 DEF Inv, Shape
  <2> QED
    BY <1>1, <2>1 DEF Inv, Shape
<1>4. \A d \in Callbacks : tasks'[d].n # 0 => tasks'[d].n = tasks[d].n
  BY <1>1
<1>5. OverlapOK'
  BY <1>4 DEF Inv, OverlapOK
<1>6. \A m, k : Stored(m, k)' => Stored(m, k)
  BY <1>1 DEF Stored
<1>7. \A m : Queued(m)' => Queued(m)
  BY <1>1 DEF Queued
<1>8. StoredOK'
  BY <1>6 DEF Inv, StoredOK, Hides
<1>9. RowOK'
  BY <1>7 DEF Inv, RowOK, Hides, LastRow
<1>10. LateOK'
  BY <1>4 DEF Inv, LateOK
<1> QED
  BY <1>3, <1>5, <1>8, <1>9, <1>10 DEF Inv

LEMMA SetSpotPriceStep ==
  ASSUME Inv, NEW c \in Callbacks, NEW name, SetSpotPrice(c, name)
  PROVE  Inv'
<1>1. PICK r : r = [tasks[c] EXCEPT !.todo = @ \ {name}]
  OBVIOUS
<1>2. /\ tasks[c].pc = "price" /\ tasks' = [tasks EXCEPT ![c] = r]
      /\ UNCHANGED <<subscribed, docs, cache, deleted, queue, row, finished, overlap, late, since,
                     overflow>>
  BY <1>1 DEF SetSpotPrice, history
<1>3. r \in Tasks /\ r.pc = "price" /\ r.n = tasks[c].n
  BY <1>1, <1>2, TaskFacts DEF Tasks
<1> QED
  BY <1>2, <1>3, EarlyMove

LEMMA ProcessStep == ASSUME Inv, NEW c \in Callbacks, Process(c) PROVE Inv'
<1>1. /\ tasks[c].pc = "price"
      /\ UNCHANGED <<subscribed, docs, cache, deleted, queue, row, finished, overlap, late, since,
                     overflow>>
  BY DEF Process, history
<1>2. CASE tasks' = [tasks EXCEPT ![c].pc = "row"]
  <2>1. PICK r : r = [tasks[c] EXCEPT !.pc = "row"]
    OBVIOUS
  <2>2. r \in Tasks /\ r.pc = "row" /\ r.n = tasks[c].n
    BY <2>1, TaskFacts DEF Tasks
  <2>3. tasks' = [tasks EXCEPT ![c] = r]
    BY <1>2, <2>1
  <2> QED
    BY <1>1, <2>2, <2>3, EarlyMove
<1>3. CASE tasks' = [tasks EXCEPT ![c] = IdleTask]
  <2>1. IdleTask \in Tasks /\ IdleTask.pc = "idle" /\ IdleTask.n = 0
    BY DEF IdleTask, Tasks
  <2> QED
    BY <1>1, <1>3, <2>1, EarlyMove
<1> QED
  BY <1>2, <1>3 DEF Process, Goes

\* The callback of update n hides what is stored already: whatever is newer overlaps.
LEMMA NewestHides ==
  ASSUME Inv, NEW c \in Callbacks, tasks[c].pc # "idle", UNCHANGED <<docs, overlap>>
  PROVE  \A m \in 1 .. Len(docs) : Hides(tasks[c].n, m)
  BY TaskFacts DEF Inv, OverlapOK, Hides

LEMMA EnqueueRowStep == ASSUME Inv, NEW c \in Callbacks, EnqueueRow(c) PROVE Inv'
<1>1. PICK n : n = tasks[c].n
  OBVIOUS
<1>2. PICK r : r = At("set", n, Maps)
  OBVIOUS
<1>3. /\ tasks[c].pc = "row" /\ tasks' = [tasks EXCEPT ![c] = r]
      /\ UNCHANGED <<subscribed, docs, cache, deleted, finished, overlap, late, since>>
  BY <1>1, <1>2 DEF EnqueueRow, Maps
<1>4. n \in 1 .. Len(docs) /\ n # 0 /\ n \in Nat /\ Len(docs) \in Nat
  BY <1>1, <1>3, TaskFacts
<1>5. r \in Tasks /\ r.pc = "set" /\ r.n = n /\ r.todo = Maps
  BY <1>2, <1>4 DEF At, Tasks
<1>6. /\ tasks'[c] = r /\ \A d \in Callbacks : d # c => tasks'[d] = tasks[d]
      /\ tasks' \in [Callbacks -> Tasks]
  BY <1>3, <1>5 DEF Inv, Shape
<1>7. \/ overflow' = overflow /\ row' = row /\ queue' = Append(queue, n)
      \/ overflow' /\ overflow' \in BOOLEAN /\ row' = n /\ queue' = queue
  <2>1. CASE Len(queue) < QueueCap
    BY <1>1, <2>1 DEF EnqueueRow
  <2>2. CASE ~(Len(queue) < QueueCap)
    <3>1. overflow' = TRUE
      BY <2>2, Zenon DEF EnqueueRow
    <3>2. overflow' /\ overflow' \in BOOLEAN
      BY <3>1, Zenon
    <3> QED
      BY <1>1, <2>2, <3>2 DEF EnqueueRow
  <2> QED
    BY <2>1, <2>2
<1>8. Shape'
  <2>1. \A d \in Callbacks :
         /\ IF tasks'[d].pc = "idle" THEN tasks'[d].n = 0 ELSE tasks'[d].n \in 1 .. Len(docs)
         /\ tasks'[d].pc = "set" => \E k \in Maps : tasks'[d].todo = k .. 4
    <3>1. 1 \in Maps /\ r.todo = 1 .. 4
      BY <1>5 DEF Maps
    <3> SUFFICES ASSUME NEW d \in Callbacks
                 PROVE  /\ IF tasks'[d].pc = "idle" THEN tasks'[d].n = 0
                           ELSE tasks'[d].n \in 1 .. Len(docs)
                        /\ tasks'[d].pc = "set" => \E k \in Maps : tasks'[d].todo = k .. 4
      OBVIOUS
    <3>2. CASE d = c
      BY <1>4, <1>5, <1>6, <3>1, <3>2
    <3>3. CASE d # c
      BY <1>6, <3>3 DEF Inv, Shape
    <3> QED
      BY <3>2, <3>3
  <2>2. row' \in Nat /\ queue' \in Seq(Nat)
    <3>1. (row' = row /\ queue' = Append(queue, n)) \/ (row' = n /\ queue' = queue)
      BY <1>7, Zenon
    <3>2. row \in Nat /\ queue \in Seq(Nat)
      BY DEF Inv, Shape
    <3>3. Append(queue, n) \in Seq(Nat)
      BY <1>4, <3>2, AppendProperties
    <3> QED
      BY <1>4, <3>1, <3>2, <3>3, Zenon
  <2>3. overflow' \in BOOLEAN
    <3>1. overflow \in BOOLEAN
      BY DEF Inv, Shape
    <3> QED
      BY <1>7, <3>1, Zenon
  <2> QED
    BY <1>3, <1>6, <2>1, <2>2, <2>3 DEF Inv, Shape
<1>9. \A d \in Callbacks : tasks'[d].n = tasks[d].n
  BY <1>1, <1>5, <1>6
<1>10. OverlapOK'
  BY <1>3, <1>9 DEF Inv, OverlapOK
<1>11. StoredOK'
  <2>1. \A m : \A k \in Maps : Stored(m, k)' => Stored(m, k)
    BY <1>3, <1>5, <1>6 DEF Stored
  <2> QED
    BY <1>3, <2>1 DEF Inv, StoredOK, Hides
<1>12. RowOK'
  <2> SUFFICES ASSUME ~overflow', NEW m \in 1 .. Len(docs), Queued(m)'
               PROVE  Hides(LastRow, m)'
    BY <1>3 DEF RowOK
  <2>1. LastRow' = n
    <3>1. queue' = Append(queue, n) /\ queue \in Seq(Nat)
      BY <1>7 DEF Inv, Shape
    <3>2. queue' # <<>> /\ queue'[Len(queue')] = n
      <4>1. n \in Nat BY <1>4
      <4>2. Len(queue) \in Nat /\ Len(queue') = Len(queue) + 1 BY <3>1, <4>1
      <4>3. queue'[Len(queue) + 1] = n BY <3>1, <4>1, <4>2
      <4> QED BY <4>2, <4>3
    <3> QED
      BY <3>2 DEF LastRow
  <2>2. Hides(n, m)
    BY <1>1, <1>3, NewestHides
  <2> QED
    BY <1>3, <2>1, <2>2 DEF Hides
<1>13. LateOK'
  BY <1>3, <1>9 DEF Inv, LateOK
<1> QED
  BY <1>8, <1>10, <1>11, <1>12, <1>13 DEF Inv

\* The worker moves the rows on; the last of them stays the last.
LEMMA HandleRowStep == ASSUME Inv, HandleRow PROVE Inv'
<1>1. /\ queue # <<>> /\ row' = Head(queue) /\ queue' = Tail(queue)
      /\ UNCHANGED <<subscribed, docs, tasks, cache, deleted, finished, overlap, late, since, overflow>>
  BY DEF HandleRow, history
<1>2. queue \in Seq(Nat)
  BY DEF Inv, Shape
<1>3. row' \in Nat /\ queue' \in Seq(Nat)
  BY <1>1, <1>2
<1>4. LastRow' = LastRow
  <2>1. CASE Len(queue) = 1
    BY <1>1, <1>2, <2>1 DEF LastRow
  <2>2. CASE Len(queue) # 1
    <3>1. Len(queue) \in Nat /\ Len(queue) > 1 /\ Len(queue') = Len(queue) - 1
      <4>1. Len(queue) \in Nat \ {0}
        BY <1>1, <1>2, EmptySeq
      <4>2. Len(queue') = Len(queue) - 1
        BY <1>1, <1>2, HeadTailProperties
      <4> QED
        BY <2>2, <4>1, <4>2
    <3>2. queue' # <<>> /\ queue'[Len(queue')] = queue[Len(queue)]
      <4>1. queue'[Len(queue')] = queue[Len(queue)]
        BY <1>1, <1>2, <3>1, HeadTailProperties
      <4>2. queue' # <<>>
        BY <3>1, EmptySeq
      <4> QED
        BY <4>1, <4>2
    <3> QED
      BY <1>1, <3>2 DEF LastRow
  <2> QED
    BY <2>1, <2>2
<1>5. Shape'
  BY <1>1, <1>3 DEF Inv, Shape
<1>6. OverlapOK'
  BY <1>1 DEF Inv, OverlapOK
<1>7. StoredOK'
  BY <1>1 DEF Inv, StoredOK, Stored, Hides
<1>8. RowOK'
  BY <1>1, <1>4 DEF Inv, RowOK, Queued, Hides
<1>9. LateOK'
  BY <1>1 DEF Inv, LateOK
<1> QED
  BY <1>5, <1>6, <1>7, <1>8, <1>9 DEF Inv

LEMMA SetStep == ASSUME Inv, NEW c \in Callbacks, Set(c) PROVE Inv'
<1>1. PICK n : n = tasks[c].n
  OBVIOUS
<1>2. tasks[c].pc = "set"
  BY DEF Set
<1>3. PICK k \in Maps : tasks[c].todo = k .. 4
  BY <1>2 DEF Inv, Shape
<1>4. Min(tasks[c].todo) = k /\ (k # 4 => k + 1 \in Maps /\ (k .. 4) \ {k} = k + 1 .. 4)
  BY <1>3, MinOfTail
<1>5. PICK r : r = IF k = 4 THEN IdleTask ELSE [tasks[c] EXCEPT !.todo = k + 1 .. 4]
  OBVIOUS
<1>6. /\ cache' = [cache EXCEPT ![k] = n] /\ tasks' = [tasks EXCEPT ![c] = r]
      /\ finished' = IF k = 4 THEN finished \cup {n} ELSE finished
      /\ UNCHANGED <<subscribed, docs, deleted, queue, row, overlap, late, since, overflow>>
  <2>1. CASE k = 4
    BY <1>1, <1>3, <1>4, <1>5, <2>1 DEF Set, StoredIn
  <2>2. CASE k # 4
    BY <1>1, <1>3, <1>4, <1>5, <2>2 DEF Set, StoredIn
  <2> QED
    BY <2>1, <2>2
<1>7. n \in 1 .. Len(docs) /\ n # 0 /\ n \in Nat /\ Len(docs) \in Nat
  BY <1>1, <1>2, TaskFacts
<1>8. /\ r \in Tasks
      /\ k = 4 => r.pc = "idle" /\ r.n = 0
      /\ k # 4 => r.pc = "set" /\ r.n = n /\ r.todo = k + 1 .. 4
  <2>1. CASE k = 4
    BY <1>5, <2>1 DEF IdleTask, Tasks
  <2>2. CASE k # 4
    BY <1>1, <1>2, <1>4, <1>5, <2>2, TaskFacts DEF Tasks, Maps
  <2> QED
    BY <2>1, <2>2
<1>9. /\ tasks'[c] = r /\ \A d \in Callbacks : d # c => tasks'[d] = tasks[d]
      /\ tasks' \in [Callbacks -> Tasks]
  BY <1>6, <1>8 DEF Inv, Shape
<1>10. /\ cache' \in [Maps -> Nat] /\ cache'[k] = n
       /\ \A j \in Maps : j # k => cache'[j] = cache[j]
  BY <1>6, <1>7 DEF Inv, Shape
<1>11. Shape'
  <2>1. \A d \in Callbacks :
         /\ IF tasks'[d].pc = "idle" THEN tasks'[d].n = 0 ELSE tasks'[d].n \in 1 .. Len(docs)
         /\ tasks'[d].pc = "set" => \E j \in Maps : tasks'[d].todo = j .. 4
    <3> TAKE d \in Callbacks
    <3>2. CASE d # c BY <1>9, <3>2 DEF Inv, Shape
    <3>3. CASE d = c /\ k = 4 BY <1>8, <1>9, <3>3
    <3>4. CASE d = c /\ k # 4
      <4>1. tasks'[d].pc = "set" /\ tasks'[d].n = n /\ tasks'[d].todo = k + 1 .. 4 BY <1>8, <1>9, <3>4
      <4>2. k + 1 \in Maps BY <1>4, <3>4
      <4> QED BY <1>7, <4>1, <4>2
    <3> QED BY <3>2, <3>3, <3>4
  <2>2. finished' \subseteq 1 .. Len(docs)
    BY <1>6, <1>7 DEF Inv, Shape
  <2> QED
    BY <1>6, <1>9, <1>10, <2>1, <2>2 DEF Inv, Shape
<1>12. \A d \in Callbacks : tasks'[d].n # 0 => tasks'[d].n = tasks[d].n
  BY <1>1, <1>8, <1>9
<1>13. OverlapOK'
  BY <1>6, <1>12 DEF Inv, OverlapOK
<1>14. StoredOK'
  <2> SUFFICES ASSUME subscribed, NEW m \in 1 .. Len(docs), NEW j \in Maps, m > since, Stored(m, j)'
               PROVE  Hides(cache[j], m)'
    BY <1>6 DEF StoredOK
  <2>1. CASE j = k
    <3>1. Hides(n, m)
      BY <1>1, <1>2, <1>6, NewestHides
    <3> QED
      BY <1>6, <1>10, <2>1, <3>1 DEF Hides
  <2>2. CASE j # k
    <3>1. Stored(m, j)
      <4>1. CASE m = n /\ j \notin k .. 4
        BY <1>1, <1>2, <1>3, <4>1 DEF Stored
      <4>2. CASE m = n /\ j \in k .. 4
        <5>1. k # 4 /\ j \in k + 1 .. 4
          BY <2>2, <4>2 DEF Maps
        <5> QED
          BY <1>1, <1>6, <1>8, <1>9, <4>2, <5>1 DEF Stored
      <4>3. CASE m # n
        BY <1>1, <1>6, <1>8, <1>9, <4>3 DEF Stored
      <4> QED
        BY <4>1, <4>2, <4>3
    <3>2. Hides(cache[j], m)
      BY <3>1 DEF Inv, StoredOK
    <3> QED
      BY <1>6, <1>10, <2>2, <3>2 DEF Hides
  <2> QED
    BY <2>1, <2>2
<1>15. RowOK'
  <2>1. \A m : Queued(m)' => Queued(m)
    BY <1>1, <1>2, <1>6, <1>8, <1>9 DEF Queued
  <2> QED
    BY <1>6, <2>1 DEF Inv, RowOK, Hides, LastRow
<1>16. LateOK'
  <2>1. ~subscribed => n \in late
    BY <1>1, <1>7 DEF Inv, LateOK
  <2> QED
    BY <1>6, <1>10, <1>12, <2>1 DEF Inv, LateOK
<1> QED
  BY <1>11, <1>13, <1>14, <1>15, <1>16 DEF Inv

-----------------------------------------------------------------------------
(* The invariant, and the theorems *)

LEMMA InvStep == Inv /\ [Next]_vars => Inv'
<1> SUFFICES ASSUME Inv, [Next]_vars PROVE Inv'
  OBVIOUS
<1>1. CASE Load
  BY <1>1, LoadStep
<1>2. CASE Subscribe \/ Unsubscribe \/ Delete
  BY <1>2, SubscribeStep, UnsubscribeStep, DeleteStep
<1>3. CASE \E c \in Callbacks : Callback(c)
  BY <1>3, ReceiveStep, SetSpotPriceStep, ProcessStep, EnqueueRowStep, SetStep DEF Callback
<1>4. CASE HandleRow
  BY <1>4, HandleRowStep
<1>5. CASE (\E o \in Orders : Fill(o)) \/ SignalRate \/ SignalClose
  BY <1>5, SignalStep
<1>6. CASE UNCHANGED vars
  <2>1. UNCHANGED positions
    BY <1>6 DEF vars, history, positions
  <2> QED
    BY <2>1, SamePositions
<1> QED
  BY <1>1, <1>2, <1>3, <1>4, <1>5, <1>6 DEF Next

LEMMA Invariance == Spec => []Inv
  BY InitInv, InvStep, PTL DEF Spec

\* PositionBalanceCache.Set and the row queue, run by any number of concurrent callbacks,
\* let an older update hide a finished one only if the two were handled at the same time.
THEOREM NewerUpdatesWin == Spec => []StaleOnlyIfOverlapping
<1>1. Inv => StaleOnlyIfOverlapping
  <2> SUFFICES ASSUME Inv, NEW m \in finished
               PROVE  /\ subscribed /\ m > since =>
                           \A k \in 1 .. 4 : cache[k] # 0 /\ (cache[k] < m => {cache[k], m} \in overlap)
                      /\ queue = <<>> /\ ~overflow => row # 0 /\ (row < m => {row, m} \in overlap)
    BY DEF StaleOnlyIfOverlapping
  <2>1. m \in 1 .. Len(docs)
    BY DEF Inv, Shape
  <2>2. subscribed /\ m > since => \A k \in Maps : Hides(cache[k], m)
    BY <2>1 DEF Inv, StoredOK, Stored
  <2>3. queue = <<>> /\ ~overflow => Hides(row, m)
    BY <2>1 DEF Inv, RowOK, Queued, LastRow
  <2> QED
    BY <2>2, <2>3 DEF Hides, Maps
<1> QED
  BY <1>1, Invariance, PTL

\* Once PositionBalanceCache.Delete is done, only a callback that was running when the
\* address was unsubscribed can have left an entry.
THEOREM DroppedIsForgotten == Spec => []ForgottenUnlessLate
<1>1. Inv => ForgottenUnlessLate
  BY DEF Inv, LateOK, ForgottenUnlessLate, Maps
<1> QED
  BY <1>1, Invariance, PTL

-----------------------------------------------------------------------------
(* What a signal says *)

\* No other update was handled together with m.
Isolated(m) == \A n \in 1 .. Len(docs) : {n, m} \notin overlap \/ n = m

\* The tables hold what they should; a perp that shares no name with another is found
\* under its own name as soon as under its clean one, but for the one the loader is at.
SymbolsOK ==
    /\ loader.pc \in {"idle", "spot", "perp", "name"} /\ loader.todo \in Seq(Perps)
    /\ loader.pc = "name" => loader.todo # <<>>
    /\ IF started \/ loader.pc # "idle"
       THEN spotNameToSymbol = SpotNames /\ spotSymbolToName = SpotSymbols
       ELSE DOMAIN spotNameToSymbol = {} /\ DOMAIN spotSymbolToName = {}
    /\ \A x \in DOMAIN perpNameToSymbol :
         \E p \in Perps : x \in Names(p) /\ perpNameToSymbol[x] = <<CleanName(p), "USDC">>
    /\ \A p \in Perps : Alone(p) /\ CleanName(p) \in DOMAIN perpNameToSymbol =>
         p \in DOMAIN perpNameToSymbol \/ (loader.pc = "name" /\ p = Head(loader.todo))

\* Nobody reads the tables before the first load has ended.
StartedOK ==
    subscribed \/ (\E c \in Callbacks : tasks[c].pc # "idle") \/ order.pc # "idle" => started

\* An isolated update finds its own prices.
PricesOK ==
    \A c \in Callbacks : tasks[c].pc = "price" /\ Isolated(tasks[c].n) =>
        \A x \in DOMAIN docs[tasks[c].n].ctxs \ tasks[c].todo :
            x \in DOMAIN prices /\ prices[x] = SpotPrice(docs[tasks[c].n].ctxs[x])

\* What a callback computed is what its update says, positions under the symbol of a perp
\* with their clean name.
NamedItem(doc, d, i) ==
    /\ d.positions[i].amount = doc.positions[i].amount
    /\ IF CleanName(doc.positions[i].coin) \in d.resolved
       THEN \E p \in Perps : /\ CleanName(doc.positions[i].coin) \in Names(p)
                             /\ d.positions[i].coin = <<CleanName(p), "USDC">>
       ELSE d.positions[i].coin = <<CleanName(doc.positions[i].coin), "">>
FaithfulTo(doc, d) ==
    /\ d.account = AccountValue(doc) /\ d.balances = Balances(doc)
    /\ DOMAIN d.positions = Watched(doc) /\ \A i \in Watched(doc) : NamedItem(doc, d, i)
HasData(n) ==
    n \in finished \/ \E c \in Callbacks : tasks[c].n = n /\ tasks[c].pc \in {"row", "set"}
DataOK ==
    \A n \in 1 .. Len(docs) : HasData(n) =>
        /\ n \in DOMAIN data /\ FaithfulTo(docs[n], data[n])
        /\ Isolated(n) /\ Priced(docs[n]) => data[n].spotTotal = SpotValue(docs[n])

\* What is stored comes from a callback, and there is a newest finished update.
CacheOK ==
    \A k \in Maps : \/ cache[k] \in {0} \cup finished
                    \/ \E c \in Callbacks : tasks[c].pc = "set" /\ tasks[c].n = cache[k]
NewestOK == finished # {} => \E m \in finished : \A n \in finished : n <= m

\* The symbol an order got, and the rates it got while nothing was being handled.
OrderOK ==
    /\ order = [pc |-> order.pc, o |-> order.o, symbol |-> order.symbol, known |-> order.known,
                rate |-> order.rate, close |-> order.close]
    /\ order.pc # "idle" =>
        /\ order.o \in Orders
        /\ IsSpotDir(order.o) /\ NamesOne(order.o) => order.symbol = SpotNames[order.o.name[2]]
        /\ ~IsSpotDir(order.o) /\ NamesOne(order.o) /\ order.known =>
             order.symbol = <<CleanName(order.o.name), "USDC">>
QuietOK ==
    quiet => /\ subscribed /\ Active = {} /\ order.pc \in {"rated", "built"}
             /\ order.rate = PositionRate(order.o)
             /\ order.pc = "built" => order.close = CloseRate(order.o, Held(order.o, order.symbol))

SignalInv ==
    /\ SymbolsOK /\ StartedOK /\ PricesOK /\ DataOK /\ CacheOK /\ NewestOK /\ OrderOK /\ QuietOK

\* The tables of the symbol loader.

LEMMA LastIn ==
  ASSUME NEW n \in Nat, NEW I \in SUBSET (1 .. n), I # {}
  PROVE  \E i \in I : \A j \in I : i >= j
<1> DEFINE T == {n - i : i \in I}
<1>1. (\A i \in I : i \in Nat /\ n - i \in Nat) /\ T \subseteq Nat /\ T # {}
  <2>1. \A i \in I : i \in 1 .. n
    OBVIOUS
  <2>2. \A i \in I : i \in Nat /\ n - i \in Nat
    BY <2>1
  <2> QED
    BY <2>2
<1>2. PICK x \in T : \A y \in T : <<y, x>> \notin OpToRel(<, Nat)
  BY <1>1, NatLessThanWellFounded, WFMin
<1>3. \A y \in T : ~(y < x)
  BY <1>1, <1>2 DEF OpToRel
<1>4. PICK i \in I : x = n - i
  OBVIOUS
<1>5. \A j \in I : ~(n - j < n - i)
  BY <1>3, <1>4
<1>6. \A j \in I : i >= j
  BY <1>1, <1>5
<1> QED
  BY <1>6

LEMMA LatestFacts ==
  ASSUME NEW p \in Range(SpotPairs), NEW P, P = {p}
  PROVE  Latest(P) = p
<1> DEFINE I == {j \in DOMAIN SpotPairs : SpotPairs[j] \in P}
<1>1. DOMAIN SpotPairs = 1 .. Len(SpotPairs) /\ Len(SpotPairs) \in Nat
  BY ListsAssumption
<1>2. I \in SUBSET (1 .. Len(SpotPairs)) /\ I # {}
  BY <1>1 DEF Range
<1>3. Max(I) \in I
  <2>1. \E i \in I : \A j \in I : i >= j
    BY <1>1, <1>2, LastIn
  <2> QED
    BY <2>1 DEF Max
<1> QED
  BY <1>3 DEF Latest

LEMMA OverFacts ==
  /\ \A old : old = SpotNames \/ DOMAIN old = {} => Over(SpotNames, old) = SpotNames
  /\ \A old : old = SpotSymbols \/ DOMAIN old = {} => Over(SpotSymbols, old) = SpotSymbols
  BY DEF Over, SpotNames, SpotSymbols

\* A perp is stored under its clean name, or under its own.
LEMMA StorePerp ==
  ASSUME SymbolsOK, NEW p \in Perps, NEW x \in Names(p),
         perpNameToSymbol' = Put(perpNameToSymbol, x, <<CleanName(p), "USDC">>)
  PROVE  /\ DOMAIN perpNameToSymbol' = {x} \cup DOMAIN perpNameToSymbol
         /\ \A y \in DOMAIN perpNameToSymbol' :
              \E q \in Perps : y \in Names(q) /\ perpNameToSymbol'[y] = <<CleanName(q), "USDC">>
<1>1. /\ DOMAIN perpNameToSymbol' = {x} \cup DOMAIN perpNameToSymbol
      /\ perpNameToSymbol'[x] = <<CleanName(p), "USDC">>
      /\ \A y \in DOMAIN perpNameToSymbol : y # x => perpNameToSymbol'[y] = perpNameToSymbol[y]
  BY DEF Put
<1> QED
  BY <1>1 DEF SymbolsOK

LEMMA SetPerpCleanSymbols == ASSUME SymbolsOK, SetPerpClean PROVE SymbolsOK'
<1>1. /\ loader.pc = "perp" /\ loader.todo # <<>> /\ loader' = [loader EXCEPT !.pc = "name"]
      /\ UNCHANGED <<spotNameToSymbol, spotSymbolToName, started>>
  BY DEF SetPerpClean
<1>2. loader'.pc = "name" /\ loader'.todo = loader.todo
  BY <1>1 DEF SymbolsOK
<1>3. PICK p \in Perps : p = Head(loader.todo)
  BY <1>1 DEF SymbolsOK
<1>4. perpNameToSymbol' = Put(perpNameToSymbol, CleanName(p), <<CleanName(p), "USDC">>)
  BY <1>3 DEF SetPerpClean
<1>5. /\ DOMAIN perpNameToSymbol' = {CleanName(p)} \cup DOMAIN perpNameToSymbol
      /\ \A y \in DOMAIN perpNameToSymbol' :
           \E q \in Perps : y \in Names(q) /\ perpNameToSymbol'[y] = <<CleanName(q), "USDC">>
  BY <1>4, StorePerp DEF Names
<1>6. \A q \in Perps : Alone(q) /\ CleanName(q) \in DOMAIN perpNameToSymbol' =>
                         q \in DOMAIN perpNameToSymbol' \/ q = p
  BY <1>1, <1>5 DEF SymbolsOK, Alone, Names
<1> QED
  BY <1>1, <1>2, <1>3, <1>5, <1>6 DEF SymbolsOK

LEMMA SetPerpNameSymbols == ASSUME SymbolsOK, SetPerpName PROVE SymbolsOK'
<1>1. /\ loader.pc = "name" /\ loader' = [pc |-> "perp", todo |-> Tail(loader.todo)]
      /\ UNCHANGED <<spotNameToSymbol, spotSymbolToName, started>>
  BY DEF SetPerpName
<1>2. loader.todo # <<>> /\ loader.todo \in Seq(Perps)
  BY <1>1 DEF SymbolsOK
<1>3. PICK p \in Perps : p = Head(loader.todo)
  BY <1>2
<1>4. loader'.pc = "perp" /\ loader'.todo \in Seq(Perps)
  BY <1>1, <1>2
<1>5. /\ \A y \in DOMAIN perpNameToSymbol' :
           \E q \in Perps : y \in Names(q) /\ perpNameToSymbol'[y] = <<CleanName(q), "USDC">>
      /\ \A q \in Perps : Alone(q) /\ CleanName(q) \in DOMAIN perpNameToSymbol' =>
                            q \in DOMAIN perpNameToSymbol'
  <2>1. CASE NamedApart(p)
    <3>1. perpNameToSymbol' = Put(perpNameToSymbol, p, <<CleanName(p), "USDC">>)
      BY <1>3, <2>1 DEF SetPerpName
    <3>2. /\ DOMAIN perpNameToSymbol' = {p} \cup DOMAIN perpNameToSymbol
          /\ \A y \in DOMAIN perpNameToSymbol' :
               \E q \in Perps : y \in Names(q) /\ perpNameToSymbol'[y] = <<CleanName(q), "USDC">>
      BY <3>1, StorePerp DEF Names
    <3>3. \A q \in Perps : Alone(q) /\ CleanName(q) = p => q = p
      BY DEF Alone, Names
    <3> QED
      BY <1>3, <3>2, <3>3 DEF SymbolsOK
  <2>2. CASE ~NamedApart(p)
    <3>1. perpNameToSymbol' = perpNameToSymbol /\ p = CleanName(p)
      BY <1>3, <2>2 DEF SetPerpName, NamedApart
    <3> QED
      BY <1>3, <3>1 DEF SymbolsOK
  <2> QED
    BY <2>1, <2>2
<1> QED
  BY <1>1, <1>4, <1>5 DEF SymbolsOK

LEMMA LoadSymbols == ASSUME SymbolsOK, Load PROVE SymbolsOK'
<1>1. CASE SpotMeta
  <2>1. /\ loader.pc = "idle" /\ loader' = [pc |-> "spot", todo |-> <<>>]
        /\ spotNameToSymbol' = SpotNames /\ spotSymbolToName' = SpotSymbols
        /\ UNCHANGED <<perpNameToSymbol, started>>
    BY <1>1, OverFacts DEF SpotMeta, SymbolsOK
  <2>2. loader'.pc = "spot" /\ loader'.todo \in Seq(Perps)
    BY <2>1
  <2> QED
    BY <2>1, <2>2 DEF SymbolsOK
<1>2. CASE PerpMeta \/ PerpMetaFails \/ Loaded
  <2>1. PICK todo \in Seq(Perps) : todo = FirstPerps \o (IF started THEN LaterPerps ELSE <<>>)
    <3>1. Range(FirstPerps) \subseteq Perps /\ Range(LaterPerps) \subseteq Perps
      BY DEF Perps
    <3>2. FirstPerps \in Seq(Perps) /\ LaterPerps \in Seq(Perps) /\ <<>> \in Seq(Perps)
      BY <3>1, ListsAssumption
    <3>3. FirstPerps \o LaterPerps \in Seq(Perps) /\ FirstPerps \o <<>> \in Seq(Perps)
      BY <3>2
    <3> QED
      BY <3>3
  <2>2. /\ loader.pc \in {"spot", "perp"}
        /\ \/ loader' = [pc |-> "perp", todo |-> todo] /\ started' = started
           \/ loader' = [pc |-> "idle", todo |-> <<>>] /\ started'
        /\ UNCHANGED <<spotNameToSymbol, spotSymbolToName, perpNameToSymbol>>
    BY <1>2, <2>1 DEF PerpMeta, PerpMetaFails, Loaded
  <2>3. loader'.pc \in {"perp", "idle"} /\ loader'.todo \in Seq(Perps)
    <3>1. todo \in Seq(Perps) /\ <<>> \in Seq(Perps)
      BY <2>1
    <3>2. CASE loader' = [pc |-> "perp", todo |-> todo]
      BY <3>1, <3>2
    <3>3. CASE loader' = [pc |-> "idle", todo |-> <<>>]
      BY <3>1, <3>3
    <3> QED
      BY <2>2, <3>2, <3>3
  <2>4. started' \/ loader'.pc # "idle"
    BY <2>2
  <2> QED
    BY <2>2, <2>3, <2>4 DEF SymbolsOK
<1> QED
  BY <1>1, <1>2, SetPerpCleanSymbols, SetPerpNameSymbols DEF Load

LEMMA SymbolsStep == ASSUME SymbolsOK, [Next]_vars PROVE SymbolsOK'
<1>1. CASE UNCHANGED symbols
  BY <1>1 DEF SymbolsOK, symbols
<1> QED
  BY <1>1, LoadSymbols
  DEF Next, Subscribe, Unsubscribe, Delete, Callback, Receive, SetSpotPrice, Process, EnqueueRow, Set,
      HandleRow, Fill, SignalRate, SignalClose, vars

\* What a callback computes from a document.

LEMMA MarketFacts ==
  ASSUME NEW doc, Priced(doc), NEW i \in NonZero(doc),
         NEW coin, coin = doc.balances[i].coin, Alias[coin] \notin StableCoins,
         spotSymbolToName = SpotSymbols,
         \A x \in DOMAIN doc.ctxs : x \in DOMAIN prices /\ prices[x] = SpotPrice(doc.ctxs[x])
  PROVE  MarketPrice(Alias[coin]) = TruePrice(doc, coin)
<1> DEFINE symbol(q) == <<Plain(Alias[coin]), q>>
           known     == {j \in 1 .. 3 : symbol(Quotes[j]) \in DOMAIN spotSymbolToName}
<1>1. /\ \A p \in Valid : Alias[p.base] = Alias[coin] => Markets(coin, p.quote) = {p}
      /\ MarketQuotes(coin) # {} => Market(coin).name \in DOMAIN doc.ctxs
  BY DEF Priced
<1>2. \A q : {p \in Valid : SpotSymbol(p) = symbol(q)} = Markets(coin, q)
  <2>1. \A p \in Valid : \A q : SpotSymbol(p) = symbol(q) <=> Alias[p.base] = Alias[coin] /\ p.quote = q
    BY DEF SpotSymbol, Plain
  <2> QED
    BY <1>1, <2>1 DEF Markets
<1>3. \A q : symbol(q) \in DOMAIN spotSymbolToName <=> Markets(coin, q) # {}
  BY <1>2 DEF SpotSymbols
<1>4. known = MarketQuotes(coin)
  BY <1>3 DEF MarketQuotes
<1>5. MarketPrice(Alias[coin]) =
        IF known = {} THEN 0
        ELSE LET name == spotSymbolToName[symbol(Quotes[Min(known)])]
             IN  IF name \in DOMAIN prices THEN prices[name] ELSE 0
  BY DEF MarketPrice
<1>6. CASE known = {}
  BY <1>4, <1>5, <1>6 DEF TruePrice
<1>7. CASE known # {}
  <2>1. PICK j \in known : j = Min(known)
    <3>1. known \in SUBSET Maps
      BY DEF Maps
    <3> QED
      BY <1>7, <3>1, MinFacts
  <2>2. PICK p \in Markets(coin, Quotes[j]) : Market(coin) = p
    BY <1>3, <1>4, <2>1 DEF Market
  <2>3. p \in Valid /\ Markets(coin, Quotes[j]) = {p}
    BY <1>1, <2>2 DEF Markets
  <2>4. SpotSymbols[symbol(Quotes[j])] = Latest({q \in Valid : SpotSymbol(q) = symbol(Quotes[j])}).name
    BY <2>1 DEF SpotSymbols
  <2>5. Latest({q \in Valid : SpotSymbol(q) = symbol(Quotes[j])}) = p
    BY <1>2, <2>3, LatestFacts DEF Valid
  <2>6. spotSymbolToName[symbol(Quotes[Min(known)])] = Market(coin).name
    BY <2>1, <2>2, <2>4, <2>5
  <2>7. MarketPrice(Alias[coin]) = SpotPrice(doc.ctxs[Market(coin).name])
    BY <1>1, <1>4, <1>5, <1>7, <2>6
  <2> QED
    BY <1>4, <1>7, <2>7 DEF TruePrice
<1> QED
  BY <1>6, <1>7

LEMMA ComputedTotal ==
  ASSUME NEW doc, Priced(doc), spotSymbolToName = SpotSymbols,
         \A x \in DOMAIN doc.ctxs : x \in DOMAIN prices /\ prices[x] = SpotPrice(doc.ctxs[x])
  PROVE  Computed(doc).spotTotal = SpotValue(doc)
<1>1. ASSUME NEW i \in NonZero(doc)
      PROVE  Worth(Balances(doc)[i]) = doc.balances[i].amount * TruePrice(doc, doc.balances[i].coin)
  <2>1. /\ Balances(doc)[i].coin = Alias[doc.balances[i].coin]
        /\ Balances(doc)[i].amount = doc.balances[i].amount /\ i \in DOMAIN doc.balances
    BY DEF Balances, NonZero
  <2>2. CASE Alias[doc.balances[i].coin] \in StableCoins
    BY <2>1, <2>2 DEF Worth, TruePrice
  <2>3. CASE Alias[doc.balances[i].coin] \notin StableCoins
    <3>1. MarketPrice(Alias[doc.balances[i].coin]) = TruePrice(doc, doc.balances[i].coin)
      BY <2>1, <2>3, MarketFacts
    <3> QED
      BY <2>1, <2>3, <3>1 DEF Worth
  <2> QED
    BY <2>2, <2>3
<1>2. DOMAIN Balances(doc) = NonZero(doc)
  BY DEF Balances
<1>3. [i \in DOMAIN Balances(doc) |-> Worth(Balances(doc)[i])] =
        [i \in NonZero(doc) |-> doc.balances[i].amount * TruePrice(doc, doc.balances[i].coin)]
  BY <1>1, <1>2
<1>4. Computed(doc).spotTotal = SumFunction([i \in DOMAIN Balances(doc) |-> Worth(Balances(doc)[i])])
  BY DEF Computed
<1> QED
  BY <1>3, <1>4 DEF SpotValue

LEMMA ComputedFaithful ==
  ASSUME NEW doc, SymbolsOK
  PROVE  FaithfulTo(doc, Computed(doc))
<1>1. /\ Computed(doc).account = AccountValue(doc) /\ Computed(doc).balances = Balances(doc)
      /\ Computed(doc).positions = FuturesItems(doc)
      /\ Computed(doc).resolved = DOMAIN perpNameToSymbol
  BY DEF Computed
<1>2. DOMAIN FuturesItems(doc) = Watched(doc)
  BY DEF FuturesItems
<1>3. ASSUME NEW i \in Watched(doc) PROVE NamedItem(doc, Computed(doc), i)
  <2>1. /\ FuturesItems(doc)[i].coin = PositionSymbol(doc.positions[i].coin)
        /\ FuturesItems(doc)[i].amount = doc.positions[i].amount
    BY DEF FuturesItems
  <2> QED
    BY <1>1, <2>1 DEF NamedItem, PositionSymbol, SymbolsOK
<1> QED
  BY <1>1, <1>2, <1>3 DEF FaithfulTo

\* What the steps that are not a callback's leave alone.

handling == <<docs, tasks, prices, data, finished, overlap>>

LEMMA OtherSteps ==
  ASSUME [Next]_vars, ~\E c \in Callbacks : Callback(c)
  PROVE  UNCHANGED handling
  BY DEF Next, Load, SpotMeta, PerpMeta, PerpMetaFails, Loaded, SetPerpClean, SetPerpName, Loads,
         Subscribe, Unsubscribe, Delete, HandleRow, Fill, SignalRate, SignalClose, history, vars, handling

\* The moves of a callback: where it stands, and where it goes.
LEMMA CallbackFacts ==
  ASSUME Inv, NEW c \in Callbacks, Callback(c)
  PROVE  /\ tasks' \in [Callbacks -> Tasks]
         /\ \A e \in Callbacks : e # c => tasks'[e] = tasks[e]
         /\ \/ \E doc \in Docs : /\ subscribed /\ docs' = Append(docs, doc)
                                 /\ tasks'[c] = At("price", Len(docs'), DOMAIN doc.ctxs)
                                 /\ overlap \subseteq overlap'
                                 /\ UNCHANGED <<prices, data, finished, cache>>
            \/ /\ tasks[c].pc # "idle" /\ tasks[c].n \in 1 .. Len(docs)
               /\ UNCHANGED <<docs, overlap>>
               /\ \/ \E name \in tasks[c].todo :
                       /\ tasks[c].pc = "price" /\ tasks'[c].pc = "price" /\ tasks'[c].n = tasks[c].n
                       /\ tasks'[c].todo = tasks[c].todo \ {name}
                       /\ prices' = Put(prices, name, SpotPrice(docs[tasks[c].n].ctxs[name]))
                       /\ UNCHANGED <<data, finished, cache>>
                  \/ /\ tasks[c].pc = "price" /\ tasks[c].todo = {} /\ docs[tasks[c].n].state
                     /\ tasks'[c].pc = "row" /\ tasks'[c].n = tasks[c].n
                     /\ data' = Put(data, tasks[c].n, Computed(docs[tasks[c].n]))
                     /\ UNCHANGED <<prices, finished, cache>>
                  \/ /\ tasks[c].pc = "price" /\ tasks'[c].pc = "idle" /\ tasks'[c].n = 0
                     /\ UNCHANGED <<prices, data, finished, cache>>
                  \/ /\ tasks[c].pc = "row" /\ tasks'[c].pc = "set" /\ tasks'[c].n = tasks[c].n
                     /\ UNCHANGED <<prices, data, finished, cache>>
                  \/ /\ tasks[c].pc = "set" /\ UNCHANGED <<prices, data>>
                     /\ \E k \in Maps : cache' = [cache EXCEPT ![k] = tasks[c].n]
                     /\ \/ /\ tasks'[c].pc = "set" /\ tasks'[c].n = tasks[c].n /\ UNCHANGED finished
                        \/ tasks'[c].pc = "idle" /\ tasks'[c].n = 0 /\ finished' = finished \cup {tasks[c].n}
<1>1. tasks \in [Callbacks -> Tasks] /\ (tasks[c].pc # "idle" => tasks[c].n \in 1 .. Len(docs))
  BY DEF Inv, Shape
<1>2. tasks' \in [Callbacks -> Tasks]
  <2>1. Inv'
    BY InvStep DEF Next
  <2> QED
    BY <2>1 DEF Inv, Shape
<1>3. CASE \E doc \in Docs : Receive(c, doc)
  BY <1>1, <1>2, <1>3 DEF Receive
<1>4. CASE \E name \in tasks[c].todo : SetSpotPrice(c, name)
  <2>1. PICK name \in tasks[c].todo : SetSpotPrice(c, name) BY <1>4
  <2>2. /\ tasks[c].pc = "price" /\ tasks[c].n \in 1 .. Len(docs)
        /\ prices' = Put(prices, name, SpotPrice(docs[tasks[c].n].ctxs[name]))
        /\ UNCHANGED <<docs, overlap, data, finished, cache>>
    BY <1>1, <2>1 DEF SetSpotPrice, history
  <2>3. tasks' = [tasks EXCEPT ![c].todo = @ \ {name}] BY <2>1 DEF SetSpotPrice
  <2>4. tasks[c] \in Tasks /\ tasks'[c] = [tasks[c] EXCEPT !.todo = @ \ {name}] BY <1>1, <2>3
  <2>5. tasks'[c].pc = tasks[c].pc /\ tasks'[c].n = tasks[c].n /\ tasks'[c].todo = tasks[c].todo \ {name}
    BY <2>4 DEF Tasks
  <2>6. \A e \in Callbacks : e # c => tasks'[e] = tasks[e] BY <1>1, <2>3
  <2> QED BY <1>2, <2>2, <2>5, <2>6
<1>5. CASE Process(c)
  <2>1. /\ tasks[c].pc = "price" /\ tasks[c].todo = {} /\ tasks[c].n \in 1 .. Len(docs)
        /\ UNCHANGED <<docs, overlap, prices, finished, cache>>
    BY <1>1, <1>5 DEF Process, history
  <2>2. CASE docs[tasks[c].n].state
    <3>1. /\ data' = Put(data, tasks[c].n, Computed(docs[tasks[c].n]))
          /\ tasks' = [tasks EXCEPT ![c].pc = "row"]
      BY <1>5, <2>2 DEF Process, Goes
    <3>2. tasks[c] \in Tasks /\ tasks'[c] = [tasks[c] EXCEPT !.pc = "row"] BY <1>1, <3>1
    <3>3. tasks'[c].pc = "row" /\ tasks'[c].n = tasks[c].n BY <3>2 DEF Tasks
    <3>4. \A e \in Callbacks : e # c => tasks'[e] = tasks[e] BY <1>1, <3>1
    <3> QED BY <1>2, <2>1, <2>2, <3>1, <3>3, <3>4
  <2>3. CASE ~docs[tasks[c].n].state
    <3>1. tasks' = [tasks EXCEPT ![c] = IdleTask] /\ UNCHANGED data
      BY <1>5, <2>3 DEF Process
    <3>2. tasks'[c] = IdleTask /\ \A e \in Callbacks : e # c => tasks'[e] = tasks[e] BY <1>1, <3>1
    <3>3. tasks'[c].pc = "idle" /\ tasks'[c].n = 0 BY <3>2 DEF IdleTask
    <3> QED BY <1>2, <2>1, <3>1, <3>2, <3>3
  <2> QED BY <2>2, <2>3
<1>6. CASE EnqueueRow(c)
  BY <1>1, <1>2, <1>6 DEF EnqueueRow, At
<1>7. CASE Set(c)
  <2>1. PICK k \in Maps : tasks[c].todo = k .. 4
    BY <1>7 DEF Set, Inv, Shape
  <2>2. Min(tasks[c].todo) = k
    BY <2>1, MinOfTail
  <2>3. /\ tasks[c].pc = "set" /\ cache' = [cache EXCEPT ![k] = tasks[c].n]
        /\ IF k = 4 THEN /\ tasks' = [tasks EXCEPT ![c] = IdleTask]
                         /\ finished' = finished \cup {tasks[c].n}
                    ELSE tasks' = [tasks EXCEPT ![c].todo = @ \ {k}] /\ UNCHANGED finished
        /\ UNCHANGED <<docs, overlap, prices, data>>
    BY <1>7, <2>2 DEF Set, StoredIn
  <2>4. CASE k = 4
    <3>1. tasks'[c] = IdleTask /\ \A e \in Callbacks : e # c => tasks'[e] = tasks[e]
      BY <1>1, <2>3, <2>4
    <3>2. tasks'[c].pc = "idle" /\ tasks'[c].n = 0 /\ finished' = finished \cup {tasks[c].n}
      BY <2>3, <2>4, <3>1 DEF IdleTask
    <3>3. /\ tasks[c].pc = "set" /\ UNCHANGED <<docs, overlap, prices, data>>
          /\ \E j \in Maps : cache' = [cache EXCEPT ![j] = tasks[c].n]
      BY <2>3
    <3> QED
      BY <1>1, <1>2, <3>1, <3>2, <3>3
  <2>5. CASE k # 4
    <3>1. /\ tasks'[c].pc = tasks[c].pc /\ tasks'[c].n = tasks[c].n
          /\ \A e \in Callbacks : e # c => tasks'[e] = tasks[e]
      BY <1>1, <2>3, <2>5 DEF Tasks
    <3> QED
      BY <1>1, <1>2, <2>3, <2>5, <3>1
  <2> QED
    BY <2>4, <2>5
<1> QED
  BY <1>3, <1>4, <1>5, <1>6, <1>7 DEF Callback

LEMMA StartedStep == ASSUME Inv, StartedOK, [Next]_vars PROVE StartedOK'
<1>1. started => started'
  BY DEF Next, Load, SpotMeta, PerpMeta, PerpMetaFails, Loaded, SetPerpClean, SetPerpName,
         Subscribe, Unsubscribe, Delete, Callback, Receive, SetSpotPrice, Process, EnqueueRow, Set,
         HandleRow, Fill, SignalRate, SignalClose, symbols, vars
<1>2. CASE \E c \in Callbacks : Callback(c)
  <2>1. PICK c \in Callbacks : Callback(c)
    BY <1>2
  <2>2. subscribed \/ tasks[c].pc # "idle"
    BY <2>1, CallbackFacts
  <2> QED
    BY <1>1, <2>2 DEF StartedOK
<1>3. CASE ~\E c \in Callbacks : Callback(c)
  <2>1. UNCHANGED tasks
    BY <1>3, OtherSteps DEF handling
  <2>2. CASE Subscribe \/ \E o \in Orders : Fill(o)
    BY <1>1, <2>2 DEF Subscribe, Fill, StartedOK
  <2>3. CASE SignalRate \/ SignalClose
    BY <1>1, <2>3 DEF SignalRate, SignalClose, StartedOK
  <2>4. CASE Unsubscribe
    BY <1>1, <2>1, <2>4 DEF Unsubscribe, StartedOK
  <2>5. CASE Load \/ Delete \/ HandleRow \/ UNCHANGED vars
    <3>1. UNCHANGED <<subscribed, order>>
      BY <2>5 DEF Load, SpotMeta, PerpMeta, PerpMetaFails, Loaded, SetPerpClean, SetPerpName, Loads,
                  Delete, HandleRow, vars
    <3> QED
      BY <1>1, <2>1, <3>1 DEF StartedOK
  <2> QED
    BY <1>3, <2>2, <2>3, <2>4, <2>5 DEF Next
<1> QED
  BY <1>2, <1>3

\* Two updates that are being handled overlap.
LEMMA OverlapFacts ==
  ASSUME Inv, NEW c \in Callbacks, NEW e \in Callbacks, tasks[c].n # tasks[e].n,
         tasks[c].n \in 1 .. Len(docs), tasks[e].n \in 1 .. Len(docs)
  PROVE  {tasks[c].n, tasks[e].n} \in overlap
<1>1. CASE tasks[c].n < tasks[e].n
  BY <1>1 DEF Inv, OverlapOK
<1>2. CASE tasks[e].n < tasks[c].n
  <2>1. {tasks[e].n, tasks[c].n} = {tasks[c].n, tasks[e].n}
    OBVIOUS
  <2> QED
    BY <1>2, <2>1 DEF Inv, OverlapOK
<1>3. tasks[c].n < tasks[e].n \/ tasks[e].n < tasks[c].n
  OBVIOUS
<1> QED
  BY <1>1, <1>2, <1>3

\* An update that is isolated was so before.
LEMMA IsolatedBefore ==
  ASSUME Inv, NEW n \in 1 .. Len(docs), overlap \subseteq overlap',
         docs' = docs \/ \E doc \in Docs : docs' = Append(docs, doc)
  PROVE  docs'[n] = docs[n] /\ (Isolated(n)' => Isolated(n))
<1>1. docs \in Seq(Docs) /\ Len(docs) \in Nat
  BY DEF Inv, Shape
<1>2. docs'[n] = docs[n] /\ 1 .. Len(docs) \subseteq 1 .. Len(docs')
  BY <1>1
<1> QED
  BY <1>2 DEF Isolated

LEMMA PricesStep == ASSUME Inv, PricesOK, [Next]_vars PROVE PricesOK'
<1>1. CASE ~\E c \in Callbacks : Callback(c)
  BY <1>1, OtherSteps DEF handling, PricesOK, Isolated
<1>2. ASSUME NEW c \in Callbacks, Callback(c) PROVE PricesOK'
  <2> SUFFICES ASSUME NEW e \in Callbacks, tasks'[e].pc = "price", Isolated(tasks[e].n)',
                      NEW x \in DOMAIN docs'[tasks'[e].n].ctxs \ tasks'[e].todo
               PROVE  x \in DOMAIN prices' /\ prices'[x] = SpotPrice(docs'[tasks'[e].n].ctxs[x])
    BY DEF PricesOK
  <2> DEFINE n == tasks[e].n
  <2>1. /\ \A d \in Callbacks : d # c => tasks'[d] = tasks[d]
        /\ tasks[e].pc # "idle" => n \in 1 .. Len(docs)
    BY <1>2, CallbackFacts DEF Inv, Shape
  <2>2. ASSUME NEW doc \in Docs, docs' = Append(docs, doc), UNCHANGED prices, overlap \subseteq overlap',
               tasks'[c] = At("price", Len(docs'), DOMAIN doc.ctxs)
        PROVE  x \in DOMAIN prices' /\ prices'[x] = SpotPrice(docs'[tasks'[e].n].ctxs[x])
    <3>1. CASE e = c
      <4>1. docs'[Len(docs')] = doc
        BY <2>2 DEF Inv, Shape
      <4> QED
        BY <2>2, <3>1, <4>1 DEF At
    <3>2. CASE e # c
      <4>1. tasks'[e] = tasks[e] /\ n \in 1 .. Len(docs)
        BY <2>1, <3>2
      <4>2. docs'[n] = docs[n] /\ Isolated(n)
        BY <2>2, <4>1, IsolatedBefore
      <4> QED
        BY <2>2, <4>1, <4>2 DEF PricesOK
    <3> QED
      BY <3>1, <3>2
  <2>3. ASSUME NEW name \in tasks[c].todo, tasks[c].pc = "price", tasks[c].n \in 1 .. Len(docs),
               tasks'[c].n = tasks[c].n, tasks'[c].todo = tasks[c].todo \ {name},
               prices' = Put(prices, name, SpotPrice(docs[tasks[c].n].ctxs[name])),
               UNCHANGED <<docs, overlap>>
        PROVE  x \in DOMAIN prices' /\ prices'[x] = SpotPrice(docs'[tasks'[e].n].ctxs[x])
    <3>1. tasks[e].pc = "price" /\ tasks'[e].n = n /\ n \in 1 .. Len(docs)
      BY <2>1, <2>3
    <3>2. Isolated(n)
      BY <2>3, <3>1 DEF Isolated
    <3>3. n = tasks[c].n
      <4>1. n # tasks[c].n => {n, tasks[c].n} \in overlap
        BY <2>3, <3>1, OverlapFacts
      <4> QED
        BY <2>3, <3>2, <4>1 DEF Isolated
    <3>4. CASE x = name
      BY <2>3, <3>1, <3>3, <3>4 DEF Put
    <3>5. CASE x # name
      <4>1. x \in DOMAIN docs[n].ctxs \ tasks[e].todo
        BY <2>1, <2>3, <3>1, <3>5
      <4>2. x \in DOMAIN prices /\ prices[x] = SpotPrice(docs[n].ctxs[x])
        BY <3>1, <3>2, <4>1 DEF PricesOK
      <4> QED
        BY <2>3, <3>1, <3>5, <4>2 DEF Put
    <3> QED
      BY <3>4, <3>5
  <2>4. CASE tasks'[c].pc # "price" /\ UNCHANGED <<docs, overlap, prices>>
    <3>1. tasks'[e] = tasks[e]
      BY <2>1, <2>4
    <3> QED
      BY <2>4, <3>1 DEF PricesOK, Isolated
  <2> QED
    BY <1>2, <2>2, <2>3, <2>4, CallbackFacts
<1> QED
  BY <1>1, <1>2

LEMMA DataStep ==
  ASSUME Inv, SymbolsOK, StartedOK, PricesOK, DataOK, [Next]_vars
  PROVE  DataOK'
<1>1. CASE ~\E c \in Callbacks : Callback(c)
  BY <1>1, OtherSteps DEF handling, DataOK, HasData, Isolated
<1>2. ASSUME NEW c \in Callbacks, Callback(c) PROVE DataOK'
  <2>1. /\ \A d \in Callbacks : d # c => tasks'[d] = tasks[d]
        /\ finished \subseteq 1 .. Len(docs)
        /\ \A d \in Callbacks : tasks[d].pc # "idle" => tasks[d].n \in 1 .. Len(docs)
    BY <1>2, CallbackFacts DEF Inv, Shape
  <2>2. ASSUME NEW n \in 1 .. Len(docs), HasData(n), n \in DOMAIN data', data'[n] = data[n],
               overlap \subseteq overlap', docs' = docs \/ \E doc \in Docs : docs' = Append(docs, doc)
        PROVE  /\ n \in DOMAIN data' /\ FaithfulTo(docs'[n], data'[n])
               /\ Isolated(n)' /\ Priced(docs'[n]) => data'[n].spotTotal = SpotValue(docs'[n])
    <3>1. docs'[n] = docs[n] /\ (Isolated(n)' => Isolated(n))
      BY <2>2, IsolatedBefore
    <3>2. /\ n \in DOMAIN data /\ FaithfulTo(docs[n], data[n])
          /\ Isolated(n) /\ Priced(docs[n]) => data[n].spotTotal = SpotValue(docs[n])
      BY <2>2 DEF DataOK
    <3> QED
      BY <2>2, <3>1, <3>2
  <2>3. CASE /\ UNCHANGED data /\ overlap \subseteq overlap'
             /\ docs' = docs \/ \E doc \in Docs : docs' = Append(docs, doc)
             /\ \A n : HasData(n)' => HasData(n)
    <3>1. \A n : HasData(n) => n \in 1 .. Len(docs)
      BY <2>1 DEF HasData
    <3>2. \A n : HasData(n) => n \in DOMAIN data
      BY <3>1 DEF DataOK
    <3> QED
      BY <2>2, <2>3, <3>1, <3>2 DEF DataOK
  <2>4. ASSUME tasks[c].pc = "price", tasks[c].todo = {}, tasks[c].n \in 1 .. Len(docs),
               tasks'[c].pc = "row", tasks'[c].n = tasks[c].n, UNCHANGED <<docs, overlap, finished>>,
               data' = Put(data, tasks[c].n, Computed(docs[tasks[c].n]))
        PROVE  DataOK'
    <3> DEFINE m == tasks[c].n
               doc == docs[m]
    <3>1. doc \in Docs
      BY <2>4 DEF Inv, Shape
    <3>2. m \in DOMAIN data' /\ data'[m] = Computed(doc) /\ docs'[m] = doc
      BY <2>4 DEF Put
    <3>3. FaithfulTo(doc, Computed(doc))
      BY ComputedFaithful
    <3>4. Isolated(m)' /\ Priced(doc) => Computed(doc).spotTotal = SpotValue(doc)
      <4> SUFFICES ASSUME Isolated(m)', Priced(doc) PROVE Computed(doc).spotTotal = SpotValue(doc)
        OBVIOUS
      <4>1. Isolated(m)
        BY <2>4 DEF Isolated
      <4>2. \A x \in DOMAIN doc.ctxs : x \in DOMAIN prices /\ prices[x] = SpotPrice(doc.ctxs[x])
        BY <2>4, <4>1 DEF PricesOK
      <4>3. spotSymbolToName = SpotSymbols
        BY <2>4 DEF StartedOK, SymbolsOK
      <4> QED
        BY <4>2, <4>3, ComputedTotal
    <3>5. ASSUME NEW n \in 1 .. Len(docs), HasData(n)', n # m
          PROVE  HasData(n) /\ n \in DOMAIN data' /\ data'[n] = data[n]
      <4>1. HasData(n)
        BY <2>1, <2>4, <3>5 DEF HasData
      <4> QED
        BY <2>4, <3>5, <4>1 DEF DataOK, Put
    <3> HIDE DEF doc
    <3>6. ASSUME NEW n \in 1 .. Len(docs), HasData(n)'
          PROVE  /\ n \in DOMAIN data' /\ FaithfulTo(docs'[n], data'[n])
                 /\ Isolated(n)' /\ Priced(docs'[n]) => data'[n].spotTotal = SpotValue(docs'[n])
      <4>1. CASE n = m
        BY <2>4, <3>2, <3>3, <3>4, <4>1
      <4>2. CASE n # m
        BY <2>2, <2>4, <3>5, <3>6, <4>2
      <4> QED
        BY <4>1, <4>2
    <3> QED
      BY <2>4, <3>6 DEF DataOK
  <2>5. CASE /\ UNCHANGED <<docs, overlap, data>>
             /\ \/ tasks[c].pc = "price" /\ tasks'[c].pc \in {"price", "idle"} /\ UNCHANGED finished
                \/ tasks[c].pc = "row" /\ tasks'[c].pc = "set" /\ tasks'[c].n = tasks[c].n /\ UNCHANGED finished
                \/ tasks[c].pc = "set" /\ tasks'[c].pc = "set" /\ tasks'[c].n = tasks[c].n /\ UNCHANGED finished
                \/ tasks[c].pc = "set" /\ tasks'[c].pc = "idle" /\ finished' = finished \cup {tasks[c].n}
    <3>1. \A n : HasData(n)' => HasData(n)
      BY <2>1, <2>5 DEF HasData
    <3> QED
      BY <2>3, <2>5, <3>1
  <2>6. ASSUME NEW doc \in Docs, docs' = Append(docs, doc), UNCHANGED <<data, finished>>,
               overlap \subseteq overlap', tasks'[c] = At("price", Len(docs'), DOMAIN doc.ctxs)
        PROVE  DataOK'
    <3>1. \A n : HasData(n)' => HasData(n)
      BY <2>1, <2>6 DEF HasData, At
    <3> QED
      BY <2>3, <2>6, <3>1
  <2> QED
    BY <1>2, <2>4, <2>5, <2>6, CallbackFacts
<1> QED
  BY <1>1, <1>2

LEMMA CacheStep == ASSUME Inv, CacheOK, [Next]_vars PROVE CacheOK'
<1>1. CASE \E c \in Callbacks : Callback(c)
  <2>1. PICK c \in Callbacks : Callback(c)
    BY <1>1
  <2>2. /\ \A d \in Callbacks : d # c => tasks'[d] = tasks[d]
        /\ cache \in [Maps -> Nat]
    BY <2>1, CallbackFacts DEF Inv, Shape
  <2>3. CASE tasks[c].pc # "set" /\ UNCHANGED <<cache, finished>>
    BY <2>2, <2>3 DEF CacheOK
  <2>4. CASE /\ tasks[c].pc = "set"
             /\ \E k \in Maps : cache' = [cache EXCEPT ![k] = tasks[c].n]
             /\ \/ tasks'[c].pc = "set" /\ tasks'[c].n = tasks[c].n /\ UNCHANGED finished
                \/ finished' = finished \cup {tasks[c].n}
    <3> SUFFICES ASSUME NEW k \in Maps
                 PROVE  \/ cache'[k] \in {0} \cup finished'
                        \/ \E e \in Callbacks : tasks'[e].pc = "set" /\ tasks'[e].n = cache'[k]
      BY DEF CacheOK
    <3>1. cache'[k] = cache[k] \/ cache'[k] = tasks[c].n
      BY <2>2, <2>4
    <3>2. \/ tasks[c].n \in finished'
          \/ tasks'[c].pc = "set" /\ tasks'[c].n = tasks[c].n
      BY <2>4
    <3>3. finished \subseteq finished'
      BY <2>4
    <3>4. CASE cache'[k] = tasks[c].n
      BY <3>2, <3>4
    <3>5. CASE cache'[k] = cache[k] /\ cache[k] # tasks[c].n
      BY <2>2, <3>3, <3>5 DEF CacheOK
    <3> QED
      BY <3>1, <3>4, <3>5
  <2>5. CASE \E doc \in Docs : /\ docs' = Append(docs, doc) /\ UNCHANGED <<cache, finished>>
                               /\ tasks'[c] = At("price", Len(docs'), DOMAIN doc.ctxs)
    <3>1. tasks[c].pc # "set"
      <4>1. CASE \E doc \in Docs : Receive(c, doc)
        BY <4>1 DEF Receive, IdleTask
      <4>2. Len(docs') = Len(docs) + 1 /\ Len(docs) \in Nat
        BY <2>5 DEF Inv, Shape
      <4>3. docs' # docs
        BY <4>2
      <4> QED
        BY <2>1, <4>1, <4>3 DEF Callback, SetSpotPrice, Process, EnqueueRow, Set
    <3> QED
      BY <2>3, <2>5, <3>1
  <2> QED
    BY <2>1, <2>3, <2>4, <2>5, CallbackFacts
<1>2. CASE ~\E c \in Callbacks : Callback(c)
  <2>1. UNCHANGED <<tasks, finished>>
    BY <1>2, OtherSteps DEF handling
  <2>2. CASE Delete
    <3>1. \A k \in Maps : cache'[k] \in {0, cache[k]}
      BY <2>2 DEF Delete, Inv, Shape
    <3> QED
      BY <2>1, <3>1 DEF CacheOK
  <2>3. CASE UNCHANGED cache
    BY <2>1, <2>3 DEF CacheOK
  <2> QED
    BY <1>2, <2>2, <2>3
    DEF Next, Load, SpotMeta, PerpMeta, PerpMetaFails, Loaded, SetPerpClean, SetPerpName, Loads,
        Subscribe, Unsubscribe, HandleRow, Fill, SignalRate, SignalClose, vars
<1> QED
  BY <1>1, <1>2

LEMMA NewestStep == ASSUME Inv, NewestOK, [Next]_vars PROVE NewestOK'
<1>1. CASE UNCHANGED finished
  BY <1>1 DEF NewestOK
<1>2. ASSUME NEW n \in 1 .. Len(docs), finished' = finished \cup {n} PROVE NewestOK'
  <2>1. finished \subseteq Nat /\ n \in Nat
    BY DEF Inv, Shape
  <2>2. CASE finished = {}
    BY <1>2, <2>1, <2>2 DEF NewestOK
  <2>3. CASE finished # {}
    <3>1. PICK m \in finished : \A x \in finished : x <= m
      BY <2>3 DEF NewestOK
    <3>2. CASE n <= m
      BY <1>2, <3>1, <3>2 DEF NewestOK
    <3>3. CASE ~(n <= m)
      <4>1. \A x \in finished \cup {n} : x <= n
        BY <2>1, <3>1, <3>3
      <4> QED
        BY <1>2, <4>1 DEF NewestOK
    <3> QED
      BY <3>2, <3>3
  <2> QED
    BY <2>2, <2>3
<1>3. CASE ~\E c \in Callbacks : Callback(c)
  BY <1>1, <1>3, OtherSteps DEF handling
<1>4. ASSUME NEW c \in Callbacks, Callback(c) PROVE NewestOK'
  BY <1>1, <1>2, <1>4, CallbackFacts
<1> QED
  BY <1>3, <1>4

\* What a signal reads.

LEMMA FillSymbol ==
  ASSUME SymbolsOK, NEW o, NamesOne(o), started
  PROVE  /\ IsSpotDir(o) => ConvertSymbol(o) = SpotNames[o.name[2]]
         /\ ~IsSpotDir(o) /\ loader.pc = "idle" /\ CleanName(o.name) \in DOMAIN perpNameToSymbol
              => ConvertSymbol(o) = <<CleanName(o.name), "USDC">>
<1>1. CASE IsSpotDir(o)
  <2>1. spotNameToSymbol = SpotNames
    BY DEF SymbolsOK
  <2>2. o.name[2] \in DOMAIN SpotNames
    <3>1. PICK p \in Valid : {q \in Range(SpotPairs) : q.name = o.name[2]} = {p}
      BY <1>1 DEF NamesOne
    <3>2. p.name = o.name[2]
      BY <3>1
    <3> QED
      BY <3>2 DEF SpotNames
  <2> QED
    BY <1>1, <2>1, <2>2 DEF ConvertSymbol
<1>2. ASSUME ~IsSpotDir(o), loader.pc = "idle", CleanName(o.name) \in DOMAIN perpNameToSymbol
      PROVE  ConvertSymbol(o) = <<CleanName(o.name), "USDC">>
  <2>1. /\ Alone(o.name)
        /\ o.name[1] = "" \/ (o.name[1] = "xyz" /\ CleanName(o.name) = Plain(o.name[2]))
    BY <1>2 DEF NamesOne
  <2>2. \A x \in DOMAIN perpNameToSymbol \cap Names(o.name) :
          o.name \in Perps /\ perpNameToSymbol[x] = <<CleanName(o.name), "USDC">>
    <3>1. TAKE x \in DOMAIN perpNameToSymbol \cap Names(o.name)
    <3>2. PICK p \in Perps : x \in Names(p) /\ perpNameToSymbol[x] = <<CleanName(p), "USDC">>
      BY DEF SymbolsOK
    <3>3. x \in Names(o.name) \cap Names(p)
      BY <3>2
    <3>4. p = o.name
      BY <2>1, <3>3 DEF Alone
    <3> QED
      BY <3>2, <3>4
  <2>3. CASE o.name[1] = "xyz" /\ CleanName(o.name) = Plain(o.name[2])
    <3>1. ConvertSymbol(o) = perpNameToSymbol[CleanName(o.name)]
      BY <1>2, <2>3 DEF ConvertSymbol
    <3> QED
      BY <1>2, <2>2, <3>1 DEF Names
  <2>4. CASE o.name[1] = ""
    <3>1. o.name \in DOMAIN perpNameToSymbol
      BY <1>2, <2>1, <2>2 DEF SymbolsOK, Names
    <3>2. ConvertSymbol(o) = perpNameToSymbol[o.name]
      BY <1>2, <2>4, <3>1 DEF ConvertSymbol
    <3> QED
      BY <2>2, <3>1, <3>2 DEF Names
  <2> QED
    BY <2>1, <2>3, <2>4
<1> QED
  BY <1>1, <1>2

LEMMA OrderStep == ASSUME SymbolsOK, OrderOK, [Next]_vars PROVE OrderOK'
<1>1. CASE UNCHANGED order
  BY <1>1 DEF OrderOK
<1>2. ASSUME NEW o \in Orders, Fill(o) PROVE OrderOK'
  <2>1. /\ order'.pc = "filled" /\ order'.o = o /\ order'.symbol = ConvertSymbol(o)
        /\ order'.known = (IsSpotDir(o) \/
                             (loader.pc = "idle" /\ CleanName(o.name) \in DOMAIN perpNameToSymbol))
        /\ order' = [pc |-> order'.pc, o |-> order'.o, symbol |-> order'.symbol, known |-> order'.known,
                     rate |-> order'.rate, close |-> order'.close]
        /\ started
    BY <1>2 DEF Fill, IdleOrder
  <2> QED
    BY <2>1, FillSymbol DEF OrderOK
<1>3. CASE SignalRate \/ SignalClose
  <2>1. /\ order'.o = order.o /\ order'.symbol = order.symbol /\ order'.known = order.known
        /\ order' = [pc |-> order'.pc, o |-> order'.o, symbol |-> order'.symbol, known |-> order'.known,
                     rate |-> order'.rate, close |-> order'.close]
        /\ order.pc # "idle"
    BY <1>3 DEF SignalRate, SignalClose, OrderOK
  <2> QED
    BY <2>1 DEF OrderOK
<1> QED
  BY <1>1, <1>2, <1>3
  DEF Next, Load, SpotMeta, PerpMeta, PerpMetaFails, Loaded, SetPerpClean, SetPerpName, Loads,
      Subscribe, Unsubscribe, Delete, Callback, Receive, SetSpotPrice, Process, EnqueueRow, Set,
      HandleRow, vars

LEMMA QuietStep == ASSUME Inv, OrderOK, QuietOK, [Next]_vars PROVE QuietOK'
<1>1. CASE ~quiet'
  BY <1>1 DEF QuietOK
<1>2. CASE quiet /\ UNCHANGED <<quiet, subscribed, tasks, order, cache, data>>
  BY <1>2 DEF QuietOK, Active, PositionRate, Held
<1>3. CASE SignalRate
  <2>1. /\ quiet' = (subscribed /\ Active = {}) /\ UNCHANGED <<subscribed, tasks, cache, data>>
        /\ order'.pc = "rated" /\ order'.rate = PositionRate(order.o) /\ order'.o = order.o
    BY <1>3 DEF SignalRate, OrderOK
  <2> QED
    BY <2>1 DEF QuietOK, Active, PositionRate
<1>4. CASE SignalClose
  <2>1. /\ UNCHANGED <<quiet, subscribed, tasks, cache, data>>
        /\ order'.pc = "built" /\ order'.rate = order.rate /\ order'.o = order.o
        /\ order'.symbol = order.symbol
        /\ order'.close = CloseRate(order.o, Held(order.o, order.symbol))
    BY <1>4 DEF SignalClose, OrderOK, history
  <2> QED
    BY <2>1 DEF QuietOK, Active, PositionRate, Held
<1>5. CASE \E c \in Callbacks : Callback(c)
  <2>1. PICK c \in Callbacks : Callback(c)
    BY <1>5
  <2>2. CASE \E doc \in Docs : Receive(c, doc)
    BY <1>1, <2>2 DEF Receive
  <2>3. CASE ~\E doc \in Docs : Receive(c, doc)
    <3>1. tasks[c].pc # "idle" /\ UNCHANGED quiet
      BY <2>1, <2>3 DEF Callback, SetSpotPrice, Process, EnqueueRow, Set, history
    <3>2. tasks[c].n \in 1 .. Len(docs)
      BY <3>1 DEF Inv, Shape
    <3>3. tasks[c].n \in Active
      BY <3>2 DEF Active
    <3> QED
      BY <3>1, <3>3 DEF QuietOK
  <2> QED
    BY <2>2, <2>3
<1>6. CASE Subscribe \/ Unsubscribe \/ Delete \/ \E o \in Orders : Fill(o)
  <2>1. ~quiet' \/ (~subscribed /\ quiet' = quiet)
    BY <1>6 DEF Subscribe, Unsubscribe, Delete, Fill, history, Inv, Shape
  <2> QED
    BY <1>1, <2>1 DEF QuietOK
<1>7. CASE Load \/ HandleRow \/ UNCHANGED vars
  <2>1. UNCHANGED <<quiet, subscribed, tasks, order, cache, data>>
    BY <1>7 DEF Load, SpotMeta, PerpMeta, PerpMetaFails, Loaded, SetPerpClean, SetPerpName, Loads,
                HandleRow, history, vars
  <2> QED
    BY <1>1, <1>2, <2>1
<1> QED
  BY <1>3, <1>4, <1>5, <1>6, <1>7 DEF Next

LEMMA SignalInit == Init => SignalInv
<1> SUFFICES ASSUME Init PROVE SignalInv
  OBVIOUS
<1>1. /\ spotNameToSymbol = <<>> /\ spotSymbolToName = <<>> /\ perpNameToSymbol = <<>>
      /\ loader = [pc |-> "idle", todo |-> <<>>] /\ docs = <<>> /\ ~started /\ ~subscribed /\ ~quiet
      /\ tasks = [c \in Callbacks |-> IdleTask] /\ cache = [k \in Maps |-> 0]
      /\ finished = {} /\ order = IdleOrder
  BY DEF Init, Maps
<1>2. SymbolsOK
  <2>1. DOMAIN spotNameToSymbol = {} /\ DOMAIN spotSymbolToName = {} /\ DOMAIN perpNameToSymbol = {}
    BY <1>1
  <2>2. loader.pc = "idle" /\ loader.todo \in Seq(Perps)
    BY <1>1
  <2> QED
    BY <1>1, <2>1, <2>2 DEF SymbolsOK
<1>3. \A c \in Callbacks : tasks[c].pc = "idle"
  BY <1>1 DEF IdleTask
<1>4. StartedOK /\ PricesOK
  BY <1>1, <1>3 DEF StartedOK, PricesOK, IdleOrder
<1>5. DataOK /\ CacheOK /\ NewestOK
  BY <1>1, <1>3 DEF DataOK, CacheOK, NewestOK
<1>6. OrderOK /\ QuietOK
  BY <1>1 DEF OrderOK, QuietOK, IdleOrder
<1> QED
  BY <1>2, <1>4, <1>5, <1>6 DEF SignalInv

LEMMA AmountFacts ==
  ASSUME NEW list, NEW coin, NEW i \in DOMAIN list, i \in Nat, list[i].coin = coin,
         \A j \in DOMAIN list : list[j].coin = coin => j = i
  PROVE  Amount(list, coin) = list[i].amount
<1>1. {j \in DOMAIN list : list[j].coin = coin} = {i}
  OBVIOUS
<1>2. Min({i}) = i
  BY DEF Min
<1> QED
  BY <1>1, <1>2 DEF Amount

\* The last isolated update is the one in the cache.
LEMMA CacheIsNewest ==
  ASSUME Inv, SignalInv, quiet, NEW m \in finished, \A n \in finished : n <= m, m > since, Isolated(m)
  PROVE  \A k \in Maps : cache[k] = m
<1> SUFFICES ASSUME NEW k \in Maps PROVE cache[k] = m
  OBVIOUS
<1>1. subscribed /\ Active = {}
  BY DEF SignalInv, QuietOK
<1>2. m \in 1 .. Len(docs) /\ finished \subseteq 1 .. Len(docs)
  BY DEF Inv, Shape
<1>3. Hides(cache[k], m)
  BY <1>1, <1>2 DEF Inv, StoredOK, Stored
<1>4. ASSUME NEW c \in Callbacks PROVE tasks[c].pc # "set"
  <2>1. tasks[c].n = 0
    BY <1>1 DEF Active
  <2> QED
    BY <2>1 DEF Inv, Shape
<1>5. cache[k] \in finished
  BY <1>3, <1>4 DEF SignalInv, CacheOK, Hides
<1>6. cache[k] \in 1 .. Len(docs) /\ cache[k] <= m
  BY <1>2, <1>5
<1>7. {cache[k], m} \notin overlap \/ cache[k] = m
  BY <1>6 DEF Isolated
<1> QED
  BY <1>2, <1>3, <1>6, <1>7 DEF Hides

\* What is held of the coin of an order.
LEMMA SpotHeldFacts ==
  ASSUME NEW doc \in Docs, NEW d, FaithfulTo(doc, d), NEW o, IsSpotDir(o), NamesOne(o), HeldOnce(doc, o),
         NEW symbol, symbol = SpotNames[o.name[2]]
  PROVE  /\ symbol[2] = Pair(o).quote
         /\ \/ TrueHeld(doc, o) \in Int /\ Amount(d.balances, symbol[1][2]) = TrueHeld(doc, o)
            \/ TrueHeld(doc, o) \in {None, 0} /\ Amount(d.balances, symbol[1][2]) = None
<1>1. PICK p \in Valid : {q \in Range(SpotPairs) : q.name = o.name[2]} = {p}
  BY DEF NamesOne
<1>2. p \in Range(SpotPairs) /\ p.name = o.name[2] /\ Pair(o) = p
  BY <1>1 DEF Pair
<1>3. SpotNames[o.name[2]] = SpotSymbol(p)
  <2>1. o.name[2] \in {q.name : q \in Valid} /\ {q \in Valid : q.name = o.name[2]} = {p}
    BY <1>1, <1>2 DEF Valid
  <2>2. Latest({q \in Valid : q.name = o.name[2]}) = p
    BY <1>2, <2>1, LatestFacts
  <2> QED
    BY <2>1, <2>2 DEF SpotNames
<1>4. symbol[2] = p.quote /\ symbol[1][2] = Alias[p.base]
  <2>1. symbol = <<<<"", Alias[p.base]>>, p.quote>>
    BY <1>3 DEF SpotSymbol, Plain
  <2> QED
    BY ONLY <2>1
<1>5. TrueHeld(doc, o) = Amount(doc.balances, p.base)
  BY <1>2 DEF TrueHeld
<1>6. \A i, j \in DOMAIN doc.balances :
        Alias[doc.balances[i].coin] = Alias[p.base] =>
            doc.balances[i].coin = p.base /\ (doc.balances[j].coin = p.base => i = j)
  BY <1>2 DEF HeldOnce
<1>7. /\ DOMAIN d.balances = NonZero(doc)
      /\ \A j \in NonZero(doc) : /\ d.balances[j].coin = Alias[doc.balances[j].coin]
                                 /\ d.balances[j].amount = doc.balances[j].amount
  BY DEF FaithfulTo, Balances
<1>8. CASE \A i \in DOMAIN doc.balances : doc.balances[i].coin # p.base
  <2>1. TrueHeld(doc, o) = None
    BY <1>5, <1>8 DEF Amount
  <2>2. \A j \in DOMAIN d.balances : d.balances[j].coin # Alias[p.base]
    BY <1>6, <1>7, <1>8 DEF NonZero
  <2>3. Amount(d.balances, Alias[p.base]) = None
    BY <2>2 DEF Amount
  <2> QED
    BY <1>2, <1>4, <2>1, <2>3
<1>9. ASSUME NEW i \in DOMAIN doc.balances, doc.balances[i].coin = p.base
      PROVE  \/ TrueHeld(doc, o) \in Int /\ Amount(d.balances, Alias[p.base]) = TrueHeld(doc, o)
             \/ TrueHeld(doc, o) \in {None, 0} /\ Amount(d.balances, Alias[p.base]) = None
  <2>1. \A j \in DOMAIN doc.balances : Alias[doc.balances[j].coin] = Alias[p.base] => j = i
    BY <1>6, <1>9
  <2>2. i \in Nat /\ doc.balances[i].amount \in Int
    BY DocsAssumption
  <2>3. TrueHeld(doc, o) = doc.balances[i].amount
    BY <1>5, <1>9, <2>1, <2>2, AmountFacts
  <2>4. CASE i \in NonZero(doc)
    <3>1. i \in DOMAIN d.balances /\ d.balances[i].coin = Alias[p.base]
      BY <1>7, <1>9, <2>4
    <3>2. \A j \in DOMAIN d.balances : d.balances[j].coin = Alias[p.base] => j = i
      BY <1>7, <2>1 DEF NonZero
    <3>3. Amount(d.balances, Alias[p.base]) = d.balances[i].amount
      BY <2>2, <3>1, <3>2, AmountFacts
    <3> QED
      BY <1>7, <2>2, <2>3, <2>4, <3>3
  <2>5. CASE i \notin NonZero(doc)
    <3>1. TrueHeld(doc, o) = 0
      BY <2>3, <2>5 DEF NonZero
    <3>2. \A j \in DOMAIN d.balances : d.balances[j].coin # Alias[p.base]
      BY <1>7, <2>1, <2>5 DEF NonZero
    <3>3. Amount(d.balances, Alias[p.base]) = None
      BY <3>2 DEF Amount
    <3> QED
      BY <3>1, <3>3
  <2> QED
    BY <2>4, <2>5
<1> QED
  BY <1>2, <1>4, <1>8, <1>9

LEMMA PerpHeldFacts ==
  ASSUME NEW doc \in Docs, NEW d, FaithfulTo(doc, d), NEW o, ~IsSpotDir(o), NamesOne(o), HeldOnce(doc, o),
         CleanName(o.name) \in d.resolved, NEW symbol, symbol = <<CleanName(o.name), "USDC">>
  PROVE  \/ TrueHeld(doc, o) \in Int /\ Amount(d.positions, symbol) = TrueHeld(doc, o)
         \/ TrueHeld(doc, o) = None /\ Amount(d.positions, symbol) = None
<1>1. TrueHeld(doc, o) = Amount(doc.positions, o.name)
  BY DEF TrueHeld
<1>2. Alone(o.name) /\ o.name[1] \in {"", "xyz"}
  BY DEF NamesOne
<1>3. \A i, j \in DOMAIN doc.positions :
        CleanName(doc.positions[i].coin) \in Names(o.name) =>
            doc.positions[i].coin = o.name /\ (doc.positions[j].coin = o.name => i = j)
  BY DEF HeldOnce
<1>4. DOMAIN d.positions = Watched(doc) /\ \A i \in Watched(doc) : NamedItem(doc, d, i)
  BY DEF FaithfulTo
<1>5. ASSUME NEW j \in Watched(doc), d.positions[j].coin = symbol
      PROVE  doc.positions[j].coin = o.name
  <2>1. PICK p \in Perps : /\ CleanName(doc.positions[j].coin) \in Names(p)
                           /\ d.positions[j].coin = <<CleanName(p), "USDC">>
    <3>1. NamedItem(doc, d, j) /\ d.positions[j].coin = <<CleanName(o.name), "USDC">>
      BY <1>4, <1>5
    <3>2. CASE CleanName(doc.positions[j].coin) \in d.resolved
      BY <3>1, <3>2 DEF NamedItem
    <3>3. CASE CleanName(doc.positions[j].coin) \notin d.resolved
      <4>1. d.positions[j].coin = <<CleanName(doc.positions[j].coin), "">>
        BY <3>1, <3>3 DEF NamedItem
      <4>2. d.positions[j].coin[2] = ""
        <5>1. ASSUME NEW x, NEW y PROVE <<x, y>>[2] = y
          OBVIOUS
        <5> QED
          BY ONLY <4>1, <5>1
      <4>3. d.positions[j].coin[2] = "USDC"
        BY <3>1
      <4> QED
        BY <4>2, <4>3
    <3> QED
      BY <3>2, <3>3
  <2>2. CleanName(p) = CleanName(o.name)
    BY <1>5, <2>1
  <2>3. p = o.name
    BY <1>2, <2>2 DEF Alone, Names
  <2> QED
    BY <1>3, <2>1, <2>3 DEF Watched
<1>6. CASE \A i \in DOMAIN doc.positions : doc.positions[i].coin # o.name
  <2>1. \A j \in DOMAIN d.positions : d.positions[j].coin # symbol
    BY <1>4, <1>5, <1>6 DEF Watched
  <2> QED
    BY <1>1, <1>6, <2>1 DEF Amount
<1>7. ASSUME NEW i \in DOMAIN doc.positions, doc.positions[i].coin = o.name
      PROVE  TrueHeld(doc, o) \in Int /\ Amount(d.positions, symbol) = TrueHeld(doc, o)
  <2>1. \A j \in DOMAIN doc.positions : doc.positions[j].coin = o.name => j = i
    BY <1>3, <1>7 DEF Names
  <2>2. i \in Nat /\ doc.positions[i].amount \in Int
    BY DocsAssumption
  <2>3. TrueHeld(doc, o) = doc.positions[i].amount
    BY <1>1, <1>7, <2>1, <2>2, AmountFacts
  <2>4. i \in Watched(doc)
    BY <1>2, <1>7 DEF Watched
  <2>5. d.positions[i].amount = doc.positions[i].amount /\ d.positions[i].coin = symbol
    <3>1. PICK p \in Perps : CleanName(o.name) \in Names(p) /\ d.positions[i].coin = <<CleanName(p), "USDC">>
      BY <1>4, <1>7, <2>4 DEF NamedItem
    <3>2. p = o.name
      BY <1>2, <3>1 DEF Alone, Names
    <3> QED
      BY <1>4, <2>4, <3>1, <3>2 DEF NamedItem
  <2>6. \A j \in DOMAIN d.positions : d.positions[j].coin = symbol => j = i
    BY <1>4, <1>5, <2>1 DEF Watched
  <2>7. Amount(d.positions, symbol) = d.positions[i].amount
    BY <1>4, <2>2, <2>4, <2>5, <2>6, AmountFacts
  <2> QED
    BY <2>2, <2>3, <2>5, <2>7
<1> QED
  BY <1>6, <1>7

\* SignalFollowsUpdate: the rates of a signal are those of the newest update, for any
\* documents, symbols, orders and reloads and any number of callbacks, whenever no
\* update was handled while the signal was built, the document prices its balances
\* and the order names one coin, held once; closes of a short and of a pair that is
\* not quoted in USDC have rate 0.
THEOREM SignalsFollowUpdates == Spec => []SignalFollowsUpdate
<1>1. Inv /\ SignalInv /\ [Next]_vars => SignalInv'
  BY SymbolsStep, StartedStep, PricesStep, DataStep, CacheStep, NewestStep, OrderStep, QuietStep
  DEF SignalInv
<1>2. Inv /\ SignalInv => SignalFollowsUpdate
  <2> SUFFICES ASSUME Inv, SignalInv, order.pc = "built", quiet, finished # {},
                      NEW m, m = Max(finished), m > since, Isolated(m), NEW o, o = order.o
               PROVE  /\ (IsSpotDir(o) => Priced(docs[m]))
                         => order.rate = IF TrueTotal(docs[m], o) > 0
                                         THEN <<Price * Size * 100, TrueTotal(docs[m], o)>> ELSE <<100, 1>>
                      /\ /\ order.known /\ (~IsSpotDir(o) => CleanName(o.name) \in data[m].resolved)
                         /\ NamesOne(o) /\ HeldOnce(docs[m], o)
                         => order.close = TrueClose(docs[m], o)
    BY DEF SignalFollowsUpdate, Isolated
  <2>1. m \in finished /\ \A n \in finished : n <= m
    <3>1. PICK x \in finished : \A n \in finished : n <= x
      BY DEF SignalInv, NewestOK
    <3>2. \A n \in finished : x >= n
      BY <3>1 DEF Inv, Shape
    <3>3. m \in finished /\ \A n \in finished : m >= n
      BY <3>2 DEF Max
    <3> QED
      BY <3>3 DEF Inv, Shape
  <2>2. \A k \in Maps : cache[k] = m
    BY <2>1, CacheIsNewest
  <2>3. m \in 1 .. Len(docs) /\ m # 0 /\ docs[m] \in Docs
    BY <2>1 DEF Inv, Shape
  <2>4. /\ FaithfulTo(docs[m], data[m])
        /\ Priced(docs[m]) => data[m].spotTotal = SpotValue(docs[m])
    BY <2>1, <2>3 DEF SignalInv, DataOK, HasData
  <2>5. /\ order.rate = PositionRate(o) /\ order.close = CloseRate(o, Held(o, order.symbol))
        /\ NamesOne(o) /\ IsSpotDir(o) => order.symbol = SpotNames[o.name[2]]
        /\ NamesOne(o) /\ ~IsSpotDir(o) /\ order.known => order.symbol = <<CleanName(o.name), "USDC">>
    BY DEF SignalInv, OrderOK, QuietOK
  <2>6. /\ cache[SpotTotals] = m /\ cache[AccountValues] = m
        /\ cache[SpotBalances] = m /\ cache[FuturesPositions] = m
    BY <2>2 DEF Maps, SpotTotals, AccountValues, SpotBalances, FuturesPositions
  <2>7. ASSUME IsSpotDir(o) => Priced(docs[m])
        PROVE  order.rate = IF TrueTotal(docs[m], o) > 0
                            THEN <<Price * Size * 100, TrueTotal(docs[m], o)>> ELSE <<100, 1>>
    BY <2>3, <2>4, <2>5, <2>6, <2>7 DEF PositionRate, TrueTotal, FaithfulTo
  <2>8. ASSUME order.known, ~IsSpotDir(o) => CleanName(o.name) \in data[m].resolved,
               NamesOne(o), HeldOnce(docs[m], o)
        PROVE  order.close = TrueClose(docs[m], o)
    <3>1. CASE IsSpotDir(o)
      <4>1. /\ order.symbol[2] = Pair(o).quote
            /\ \/ /\ TrueHeld(docs[m], o) \in Int
                  /\ Amount(data[m].balances, order.symbol[1][2]) = TrueHeld(docs[m], o)
               \/ /\ TrueHeld(docs[m], o) \in {None, 0}
                  /\ Amount(data[m].balances, order.symbol[1][2]) = None
        BY <2>3, <2>4, <2>5, <2>8, <3>1, SpotHeldFacts
      <4>2. Held(o, order.symbol) = IF Pair(o).quote = "USDC"
                                    THEN Amount(data[m].balances, order.symbol[1][2]) ELSE None
        BY <2>3, <2>6, <3>1, <4>1 DEF Held
      <4> QED
        BY <2>5, <3>1, <4>1, <4>2 DEF CloseRate, TrueClose, NotRated
    <3>2. CASE ~IsSpotDir(o)
      <4>1. \/ /\ TrueHeld(docs[m], o) \in Int
               /\ Amount(data[m].positions, order.symbol) = TrueHeld(docs[m], o)
            \/ TrueHeld(docs[m], o) = None /\ Amount(data[m].positions, order.symbol) = None
        <5>1. /\ docs[m] \in Docs /\ FaithfulTo(docs[m], data[m])
              /\ CleanName(o.name) \in data[m].resolved /\ order.symbol = <<CleanName(o.name), "USDC">>
              /\ ~IsSpotDir(o) /\ NamesOne(o) /\ HeldOnce(docs[m], o)
          BY <2>3, <2>4, <2>5, <2>8, <3>2
        <5> QED
          BY ONLY <5>1, PerpHeldFacts
      <4>2. Held(o, order.symbol) = Amount(data[m].positions, order.symbol)
        BY <2>3, <2>6, <3>2 DEF Held
      <4> QED
        BY <2>5, <3>2, <4>1, <4>2 DEF CloseRate, TrueClose, NotRated
    <3> QED
      BY <3>1, <3>2
  <2> QED
    BY <2>7, <2>8
<1> QED
  BY <1>1, <1>2, Invariance, SignalInit, PTL DEF Spec
=============================================================================
