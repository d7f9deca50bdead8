------------------------ MODULE OrderProcessorProofs ------------------------
(* Proofs about OrderProcessor, for any number of orders, directions, trades, *)
(* handlers, pool goroutines and messages.                                    *)
EXTENDS OrderProcessor, TLAPS

\* The types, and which object every pointer leads to.
Shape == TypeOK /\ HandlersOK /\ FlushersOK /\ ObjectsOK

USE DEF Keys, Objs, Handlers, AnyStatus, HIdle, FIdle, Handling, Holding, Visiting, Flushing,
        inVars, fillVars, objVars, orderVars, cacheVars, storeVars, ctlVars

LEMMA ShapeInit == Init => Shape
  BY ConstantsAssumption DEF Init, Shape, TypeOK, HandlersOK, HandlerOK, FlushersOK, FlusherOK, ObjectsOK, HandlerState,
     HandlerPc, FlusherState, FlusherPc, Rows, NoRow, FillPcs, Goroutines

\* No object is freed and no object changes its key.
Grows == nobj <= nobj' /\ \A o \in 1 .. nobj : okey'[o] = okey[o]

\* A step of handler c alone that leaves it in local state x.
LEMMA HandlerFrame ==
  ASSUME Shape, NEW c \in Handlers, NEW x \in HandlerState, h' = [h EXCEPT ![c] = x],
         nobj' \in Nat, Grows, HandlerOK(x)'
  PROVE  h' \in [Handlers -> HandlerState] /\ HandlersOK'
<1>1. h \in [Handlers -> HandlerState] /\ nobj \in Nat BY ConstantsAssumption DEF Shape, TypeOK
<1>2. h'[c] = x /\ \A d \in Handlers : d # c => h'[d] = h[d] BY <1>1
<1>3. ASSUME NEW d \in Handlers, d # c PROVE HandlerOK(h[d])'
  <2>1. HandlerOK(h[d]) BY DEF Shape, HandlersOK
  <2>2. \A o \in 1 .. nobj : o \in 1 .. nobj' /\ okey'[o] = okey[o] BY <1>1 DEF Grows
  <2>3. h'[d] = h[d] BY <1>2, <1>3
  <2> QED BY <2>1, <2>2, <2>3 DEF HandlerOK, KeyOf
<1> QED BY <1>1, <1>2, <1>3 DEF HandlersOK, HandlerOK

\* A step of pool goroutine w alone that leaves it in local state x.
LEMMA FlusherFrame ==
  ASSUME Shape, NEW w \in Flushers, NEW x \in FlusherState, f' = [f EXCEPT ![w] = x],
         UNCHANGED <<nobj, okey>>, FlusherOK(x)
  PROVE  f' \in [Flushers -> FlusherState] /\ FlushersOK'
<1>1. f \in [Flushers -> FlusherState] BY DEF Shape, TypeOK
<1>2. f'[w] = x /\ \A d \in Flushers : d # w => f'[d] = f[d] BY <1>1
<1>3. ASSUME NEW d \in Flushers, d # w PROVE FlusherOK(f[d])'
  BY <1>2, <1>3 DEF Shape, FlushersOK, FlusherOK
<1> QED BY <1>1, <1>2, <1>3 DEF FlushersOK, FlusherOK

\* What a step keeps when it leaves the goroutines' local states alone.
LEMMA HandlersUnchanged ==
  ASSUME Shape, UNCHANGED h, UNCHANGED <<nobj, okey>> PROVE HandlersOK'
  BY DEF Shape, HandlersOK, HandlerOK, KeyOf

LEMMA FlushersUnchanged ==
  ASSUME Shape, UNCHANGED f, nobj' \in Nat, Grows PROVE FlushersOK'
<1>1. nobj \in Nat BY ConstantsAssumption DEF Shape, TypeOK
<1> QED BY <1>1 DEF Shape, FlushersOK, FlusherOK, Grows

LEMMA GrowsUnchanged ==
  ASSUME Shape, UNCHANGED <<nobj, okey>> PROVE Grows /\ nobj' \in Nat
  BY ConstantsAssumption DEF Shape, TypeOK, Grows

LEMMA HIdleOK == HIdle \in HandlerState /\ HandlerOK(HIdle) /\ HandlerOK(HIdle)'
  BY ConstantsAssumption DEF HandlerState, HandlerPc, HandlerOK, FillPcs

LEMMA FIdleOK == FIdle \in FlusherState /\ FlusherOK(FIdle)
  BY ConstantsAssumption DEF FlusherState, FlusherPc, FlusherOK

LEMMA BeginOK ==
  ASSUME NEW m \in Msgs PROVE Begin(m) \in HandlerState /\ HandlerOK(Begin(m))'
  BY ConstantsAssumption DEF Begin, HandlerState, HandlerPc, HandlerOK, FillMsgs, UpdateMsgs, FillPcs

LEMMA EnqueueShape ==
  ASSUME Shape, NEW c \in Callers, NEW m \in Msgs, Enqueue(c, m)
  PROVE  Shape'
<1>1. UNCHANGED <<orderVars, cacheVars, flushChan, f, published, storeVars, ctlVars>> BY DEF Enqueue
<1>2. h' \in [Handlers -> HandlerState] /\ HandlersOK'
  <2>1. CASE UNCHANGED h
    BY <1>1, <2>1, HandlersUnchanged DEF Shape, TypeOK
  <2>2. CASE h' = [h EXCEPT ![c] = Begin(m)]
    BY <1>1, <2>2, BeginOK, GrowsUnchanged, HandlerFrame
  <2> QED BY <2>1, <2>2 DEF Enqueue
<1>3. queue' \in Seq(Msgs) /\ Len(queue') <= QueueCap
  <2>1. QueueCap \in Nat BY ConstantsAssumption
  <2>2. queue \in Seq(Msgs) /\ Len(queue) <= QueueCap BY DEF Shape, TypeOK
  <2>3. queue' = queue \/ (Len(queue) < QueueCap /\ queue' = Append(queue, m)) BY DEF Enqueue
  <2> QED BY <2>1, <2>2, <2>3
<1>4. offered' \in 0 .. MaxMsgs
  BY ConstantsAssumption DEF Shape, TypeOK, Enqueue
<1>5. TypeOK' BY <1>1, <1>2, <1>3, <1>4 DEF Shape, TypeOK
<1>6. FlushersOK' BY <1>1, GrowsUnchanged, FlushersUnchanged
<1>7. ObjectsOK' BY <1>1 DEF Shape, ObjectsOK
<1> QED BY <1>2, <1>5, <1>6, <1>7 DEF Shape

LEMMA WorkerReceiveShape ==
  ASSUME Shape, WorkerReceive
  PROVE  Shape'
<1>1. UNCHANGED <<offered, orderVars, cacheVars, flushChan, f, published, storeVars, ctlVars>>
  BY DEF WorkerReceive
<1>2. Head(queue) \in Msgs /\ queue' \in Seq(Msgs) /\ Len(queue') <= QueueCap
  <2>1. QueueCap \in Nat BY ConstantsAssumption
  <2>2. queue \in Seq(Msgs) /\ Len(queue) <= QueueCap BY DEF Shape, TypeOK
  <2>3. queue # <<>> /\ queue' = Tail(queue) BY DEF WorkerReceive
  <2> QED BY <2>1, <2>2, <2>3
<1>3. h' \in [Handlers -> HandlerState] /\ HandlersOK'
  <2>1. h' = [h EXCEPT ![Worker] = Begin(Head(queue))] /\ Worker \in Handlers BY DEF WorkerReceive
  <2> QED BY <1>1, <1>2, <2>1, BeginOK, GrowsUnchanged, HandlerFrame
<1>4. TypeOK' BY <1>1, <1>2, <1>3 DEF Shape, TypeOK
<1>5. FlushersOK' BY <1>1, GrowsUnchanged, FlushersUnchanged
<1>6. ObjectsOK' BY <1>1 DEF Shape, ObjectsOK
<1> QED BY <1>3, <1>4, <1>5, <1>6 DEF Shape

\* The facts a handler in the middle of a fill starts from.
LEMMA FillFacts ==
  ASSUME Shape, NEW c \in Handlers, h[c].pc \in FillPcs
  PROVE  /\ h[c].msg \in FillMsgs /\ h[c].msg \in Msgs \cup {NoMsg}
         /\ h[c].st \in AnyStatus /\ h[c].obj \in 0 .. MaxMsgs /\ h[c].snap \in Seq(Tids)
         /\ KeyOf(h[c].msg) \in Keys /\ h[c].msg.tid \in Tids /\ h[c].msg.order \in Orders
         /\ h[c].pc \in {"check", "tid", "append", "calc", "total", "trigger"} =>
               /\ h[c].obj \in 1 .. nobj /\ h[c].obj \in Objs /\ okey[h[c].obj] = KeyOf(h[c].msg)
<1>1. h[c] \in HandlerState /\ HandlerOK(h[c]) /\ nobj \in 0 .. MaxMsgs /\ MaxMsgs \in Nat
  BY ConstantsAssumption DEF Shape, TypeOK, HandlersOK
<1>2. h[c].msg \in FillMsgs BY <1>1 DEF HandlerOK
<1> QED BY <1>1, <1>2 DEF HandlerOK, HandlerState, KeyOf, FillMsgs

\* A step in which handler c only moves to local state x.
LEMMA HandlerOnlyShape ==
  ASSUME Shape, NEW c \in Handlers, NEW x \in HandlerState, h' = [h EXCEPT ![c] = x], HandlerOK(x),
         UNCHANGED <<inVars, orderVars, cacheVars, flushChan, f, published, storeVars, ctlVars>>
  PROVE  Shape'
<1>1. HandlerOK(x)' BY DEF HandlerOK
<1>2. h' \in [Handlers -> HandlerState] /\ HandlersOK' BY <1>1, GrowsUnchanged, HandlerFrame
<1>3. TypeOK' BY <1>2 DEF Shape, TypeOK
<1>4. FlushersOK' BY GrowsUnchanged, FlushersUnchanged
<1>5. ObjectsOK' BY DEF Shape, ObjectsOK
<1> QED BY <1>2, <1>3, <1>4, <1>5 DEF Shape

LEMMA FillSeenShape ==
  ASSUME Shape, NEW c \in Handlers, FillSeen(c)
  PROVE  Shape'
<1>1. Handling("status", h[c].msg, NoStatus, 0) \in HandlerState /\ HandlerOK(Handling("status", h[c].msg, NoStatus, 0))
  BY FillFacts, ConstantsAssumption DEF FillSeen, FillPcs, HandlerState, HandlerPc, HandlerOK
<1> QED BY <1>1, HIdleOK, HandlerOnlyShape DEF FillSeen

LEMMA FillStatusShape ==
  ASSUME Shape, NEW c \in Handlers, FillStatus(c)
  PROVE  Shape'
<1> DEFINE x == Handling("store", h[c].msg, GetStatus(h[c].msg.order), 0)
<1>1. GetStatus(h[c].msg.order) \in AnyStatus
  BY FillFacts DEF FillStatus, FillPcs, GetStatus, Shape, TypeOK
<1>2. x \in HandlerState /\ HandlerOK(x)
  BY <1>1, FillFacts, ConstantsAssumption DEF FillStatus, FillPcs, HandlerState, HandlerPc, HandlerOK
<1> QED BY <1>2, HandlerOnlyShape DEF FillStatus

LEMMA FillCheckShape ==
  ASSUME Shape, NEW c \in Handlers, FillCheck(c)
  PROVE  Shape'
<1> DEFINE x == Handling("tid", h[c].msg, h[c].st, h[c].obj)
<1>1. x \in HandlerState /\ HandlerOK(x)
  BY FillFacts, ConstantsAssumption DEF FillCheck, FillPcs, HandlerState, HandlerPc, HandlerOK
<1> QED BY <1>1, HIdleOK, HandlerOnlyShape DEF FillCheck

LEMMA PersistOrderType ==
  ASSUME Shape, NEW k \in Keys, NEW o \in Objs, PersistOrder(k, o)
  PROVE  /\ writes' \in [Keys -> 0 .. MaxMsgs]
         /\ \A q \in Keys : writes'[q] = writes[q] \/ (q = k /\ writes'[q] = o)
<1>1. writes \in [Keys -> 0 .. MaxMsgs] /\ o \in 0 .. MaxMsgs
  BY ConstantsAssumption DEF Shape, TypeOK
<1>2. writes' = writes \/ \E x \in {o, writes[k]} : writes' = [writes EXCEPT ![k] = x]
  BY DEF PersistOrder
<1> QED BY <1>1, <1>2

\* The local state a fill handler is left in once its order is stored.
LEMMA StoredOK ==
  ASSUME Shape, NEW c \in Handlers, h[c].pc \in FillPcs, NEW o \in Objs
  PROVE  /\ Stored(c, o) \in HandlerState
         /\ o \in 1 .. nobj' /\ okey'[o] = KeyOf(h[c].msg) =>
               \A x : x = Stored(c, o) => HandlerOK(x)'
<1>1. o \in 0 .. MaxMsgs BY ConstantsAssumption
<1>2. Stored(c, o) \in HandlerState
  BY <1>1, FillFacts, ConstantsAssumption DEF Stored, HandlerState, HandlerPc
<1>3. CASE h[c].st = NoStatus
  BY <1>2, <1>3, HIdleOK DEF Stored, HandlerOK, FillPcs
<1>4. CASE h[c].st # NoStatus
  BY <1>2, <1>4, FillFacts DEF Stored, HandlerOK, FillPcs
<1> QED BY <1>2, <1>3, <1>4

\* The disjunct of FillStore that creates an order.
LEMMA FillStoreNew ==
  ASSUME Shape, NEW c \in Handlers, FillStore(c), pending[KeyOf(h[c].msg)] = 0
  PROVE  Shape'
<1> DEFINE k == KeyOf(h[c].msg)
           o == nobj + 1
<1>1. /\ nobj < MaxMsgs /\ nobj' = o
      /\ okey' = [okey EXCEPT ![o] = k]
      /\ fills' = [fills EXCEPT ![o] = <<h[c].msg.tid>>]
      /\ counted' = [counted EXCEPT ![o] = <<h[c].msg.tid>>]
      /\ pending' = [pending EXCEPT ![k] = o]
      /\ PersistOrder(k, o)
      /\ h' = [h EXCEPT ![c] = Stored(c, o)]
      /\ UNCHANGED <<seenTids, raced, signalSent, orderStatus, timedOut, inVars, cacheVars, flushChan, f, published, db, ctlVars>>
  BY DEF FillStore
<1>2. h[c].pc \in FillPcs /\ k \in Keys /\ h[c].msg.tid \in Tids BY FillFacts DEF FillStore, FillPcs
<1>3. nobj \in 0 .. MaxMsgs /\ MaxMsgs \in Nat BY ConstantsAssumption DEF Shape, TypeOK
<1>4. o \in Objs /\ o \in 0 .. MaxMsgs /\ nobj' \in 0 .. MaxMsgs /\ nobj' \in Nat BY <1>1, <1>3
<1>5. /\ writes' \in [Keys -> 0 .. MaxMsgs]
      /\ \A q \in Keys : writes'[q] = writes[q] \/ (q = k /\ writes'[q] = o)
  <2>1. PersistOrder(k, o) BY <1>1
  <2> HIDE DEF k, o
  <2> QED BY <1>2, <1>4, <2>1, PersistOrderType
<1> HIDE DEF k
<1>6. okey' \in [Objs -> Keys \cup {NoKey}] /\ okey'[o] = k /\ \A x \in Objs : x # o => okey'[x] = okey[x]
  BY <1>1, <1>2, <1>4 DEF Shape, TypeOK
<1>7. Grows /\ o \in 1 .. nobj' /\ \A x \in 1 .. nobj' : x \in 1 .. nobj \/ x = o
  BY <1>1, <1>3, <1>6 DEF Grows
<1>8. h' \in [Handlers -> HandlerState] /\ HandlersOK'
  BY <1>1, <1>2, <1>4, <1>6, <1>7, StoredOK, HandlerFrame DEF k
<1> HIDE DEF o
<1>9. TypeOK'
  <2>1. pending' \in [Keys -> 0 .. MaxMsgs] BY <1>1, <1>2, <1>4 DEF Shape, TypeOK
  <2>2. <<h[c].msg.tid>> \in Seq(Tids) BY <1>2
  <2>3. fills' \in [Objs -> Seq(Tids)] /\ counted' \in [Objs -> Seq(Tids)]
    BY <1>1, <1>4, <2>2 DEF Shape, TypeOK
  <2> QED BY <1>1, <1>4, <1>5, <1>6, <1>8, <2>1, <2>3 DEF Shape, TypeOK
<1>10. FlushersOK' BY <1>1, <1>4, <1>7, FlushersUnchanged
<1>11. ObjectsOK'
  <2>1. \A x \in 1 .. nobj' : okey'[x] \in Keys
    BY <1>2, <1>6, <1>7 DEF Shape, ObjectsOK, Grows
  <2>2. \A x \in 1 .. nobj : x \in 1 .. nobj' /\ okey'[x] = okey[x]
    BY <1>3, <1>4, <1>7 DEF Grows
  <2>3. \A q \in Keys : pending'[q] = pending[q] \/ (q = k /\ pending'[q] = o)
    BY <1>1, <1>2 DEF Shape, TypeOK
  <2>4. \A q \in Keys : pending'[q] # 0 => pending'[q] \in 1 .. nobj' /\ okey'[pending'[q]] = q
    BY <1>6, <1>7, <2>2, <2>3 DEF Shape, ObjectsOK
  <2>5. \A q \in Keys : writes'[q] # 0 => writes'[q] \in 1 .. nobj' /\ okey'[writes'[q]] = q
    BY <1>5, <1>6, <1>7, <2>2 DEF Shape, ObjectsOK
  <2> QED BY <2>1, <2>4, <2>5 DEF ObjectsOK
<1> QED BY <1>8, <1>9, <1>10, <1>11 DEF Shape

LEMMA FillStoreShape ==
  ASSUME Shape, NEW c \in Handlers, FillStore(c)
  PROVE  Shape'
<1> DEFINE k == KeyOf(h[c].msg)
           x == Handling("check", h[c].msg, h[c].st, pending[k])
<1>1. CASE pending[k] # 0
  <2>1. k \in Keys /\ h[c].pc \in FillPcs BY FillFacts DEF FillStore, FillPcs
  <2>2. pending[k] \in 1 .. nobj /\ okey[pending[k]] = k /\ pending[k] \in 0 .. MaxMsgs
    BY <1>1, <2>1 DEF Shape, TypeOK, ObjectsOK
  <2>3. x \in HandlerState /\ HandlerOK(x)
    BY <2>1, <2>2, FillFacts, ConstantsAssumption DEF FillPcs, HandlerState, HandlerPc, HandlerOK
  <2>4. /\ h' = [h EXCEPT ![c] = x]
        /\ UNCHANGED <<inVars, orderVars, cacheVars, flushChan, f, published, storeVars, ctlVars>>
    BY <1>1 DEF FillStore
  <2> HIDE DEF x
  <2> QED BY <2>3, <2>4, HandlerOnlyShape
<1> QED BY <1>1, FillStoreNew

\* A step in which handler c moves to local state x and no object is created or
\* changes its key or its place.
LEMMA HandlerStepShape ==
  ASSUME Shape, NEW c \in Handlers, NEW x \in HandlerState, h' = [h EXCEPT ![c] = x], HandlerOK(x),
         UNCHANGED <<nobj, okey, pending, writes, f>>
  PROVE  h' \in [Handlers -> HandlerState] /\ HandlersOK' /\ FlushersOK' /\ ObjectsOK'
<1>1. HandlerOK(x)' BY DEF HandlerOK
<1>2. h' \in [Handlers -> HandlerState] /\ HandlersOK' BY <1>1, GrowsUnchanged, HandlerFrame
<1>3. FlushersOK' BY GrowsUnchanged, FlushersUnchanged
<1>4. ObjectsOK' BY DEF Shape, ObjectsOK
<1> QED BY <1>2, <1>3, <1>4

LEMMA FillTidShape ==
  ASSUME Shape, NEW c \in Handlers, FillTid(c)
  PROVE  Shape'
<1> DEFINE o == h[c].obj
           x == Holding("append", h[c].msg, h[c].st, o, fills[o])
<1>1. h[c].pc \in FillPcs /\ o \in Objs /\ h[c].msg.tid \in Tids BY FillFacts DEF FillTid, FillPcs
<1>2. fills[o] \in Seq(Tids) /\ seenTids[o] \subseteq Tids BY <1>1 DEF Shape, TypeOK
<1>3. x \in HandlerState /\ HandlerOK(x)
  BY <1>1, <1>2, FillFacts, ConstantsAssumption DEF FillTid, FillPcs, HandlerState, HandlerPc, HandlerOK
<1>4. /\ UNCHANGED <<pending, nobj, okey, fills, counted, signalSent, orderStatus, timedOut>>
      /\ UNCHANGED <<inVars, cacheVars, flushChan, f, published, storeVars, ctlVars>>
  BY DEF FillTid
<1>5. seenTids' \in [Objs -> SUBSET Tids]
  <2>1. seenTids \in [Objs -> SUBSET Tids] BY DEF Shape, TypeOK
  <2>2. seenTids' = seenTids \/ seenTids' = [seenTids EXCEPT ![o] = seenTids[o] \cup {h[c].msg.tid}]
    BY DEF FillTid, TidStored
  <2>3. seenTids[o] \cup {h[c].msg.tid} \in SUBSET Tids BY <1>1, <1>2
  <2> QED BY <1>1, <2>1, <2>2, <2>3
<1>a. raced' \subseteq Objs BY <1>1 DEF FillTid, Shape, TypeOK
<1>6. \E y \in {x, HIdle} : h' = [h EXCEPT ![c] = y] BY DEF FillTid
<1> HIDE DEF x
<1>7. h' \in [Handlers -> HandlerState] /\ HandlersOK' /\ FlushersOK' /\ ObjectsOK'
  BY <1>3, <1>4, <1>6, HIdleOK, HandlerStepShape
<1>8. TypeOK' BY <1>4, <1>5, <1>a, <1>7 DEF Shape, TypeOK
<1> QED BY <1>7, <1>8 DEF Shape

LEMMA FillAppendShape ==
  ASSUME Shape, NEW c \in Handlers, FillAppend(c)
  PROVE  Shape'
<1> DEFINE x == Handling("calc", h[c].msg, h[c].st, h[c].obj)
<1>1. h[c].pc \in FillPcs /\ h[c].obj \in Objs /\ h[c].msg.tid \in Tids /\ h[c].snap \in Seq(Tids)
  BY FillFacts DEF FillAppend, FillPcs
<1>2. x \in HandlerState /\ HandlerOK(x)
  BY <1>1, FillFacts, ConstantsAssumption DEF FillAppend, FillPcs, HandlerState, HandlerPc, HandlerOK
<1>3. /\ UNCHANGED <<pending, nobj, okey, counted, seenTids, raced, signalSent, orderStatus, timedOut>>
      /\ UNCHANGED <<inVars, cacheVars, flushChan, f, published, storeVars, ctlVars>>
      /\ h' = [h EXCEPT ![c] = x]
  BY DEF FillAppend
<1>4. AppendFill(h[c].snap, h[c].msg.tid) \in Seq(Tids) BY <1>1 DEF AppendFill
<1>5. fills' \in [Objs -> Seq(Tids)] BY <1>1, <1>4 DEF FillAppend, Shape, TypeOK
<1> HIDE DEF x
<1>6. h' \in [Handlers -> HandlerState] /\ HandlersOK' /\ FlushersOK' /\ ObjectsOK'
  BY <1>2, <1>3, HandlerStepShape
<1>7. TypeOK' BY <1>3, <1>5, <1>6 DEF Shape, TypeOK
<1> QED BY <1>6, <1>7 DEF Shape

LEMMA FillCalcShape ==
  ASSUME Shape, NEW c \in Handlers, FillCalc(c)
  PROVE  Shape'
<1> DEFINE x == Holding("total", h[c].msg, h[c].st, h[c].obj, fills[h[c].obj])
<1>1. h[c].pc \in FillPcs /\ h[c].obj \in Objs BY FillFacts DEF FillCalc, FillPcs
<1>2. fills[h[c].obj] \in Seq(Tids) BY <1>1 DEF Shape, TypeOK
<1>3. x \in HandlerState /\ HandlerOK(x)
  BY <1>1, <1>2, FillFacts, ConstantsAssumption DEF FillCalc, FillPcs, HandlerState, HandlerPc, HandlerOK
<1>4. /\ h' = [h EXCEPT ![c] = x]
      /\ UNCHANGED <<inVars, orderVars, cacheVars, flushChan, f, published, storeVars, ctlVars>>
  BY DEF FillCalc
<1> HIDE DEF x
<1> QED BY <1>3, <1>4, HandlerOnlyShape

LEMMA FillTotalShape ==
  ASSUME Shape, NEW c \in Handlers, FillTotal(c)
  PROVE  Shape'
<1> DEFINE o == h[c].obj
<1>1. /\ h[c].pc \in FillPcs /\ o \in Objs /\ o \in 1 .. nobj /\ okey[o] = KeyOf(h[c].msg)
      /\ okey[o] \in Keys /\ h[c].snap \in Seq(Tids)
  BY FillFacts DEF FillTotal, FillPcs
<1>2. /\ UNCHANGED <<pending, nobj, okey, fills, seenTids, raced, signalSent, orderStatus, timedOut>>
      /\ UNCHANGED <<inVars, cacheVars, flushChan, f, published, db, ctlVars>>
      /\ h' = [h EXCEPT ![c] = Stored(c, o)] /\ PersistOrder(okey[o], o)
      /\ counted' = [counted EXCEPT ![o] = h[c].snap]
  BY DEF FillTotal, Totals
<1>3. counted' \in [Objs -> Seq(Tids)] BY <1>1, <1>2 DEF Shape, TypeOK
<1>4. /\ writes' \in [Keys -> 0 .. MaxMsgs]
      /\ \A q \in Keys : writes'[q] = writes[q] \/ (q = okey[o] /\ writes'[q] = o)
  BY <1>1, <1>2, PersistOrderType
<1>5. h' \in [Handlers -> HandlerState] /\ HandlersOK'
  BY <1>1, <1>2, StoredOK, GrowsUnchanged, HandlerFrame
<1>6. TypeOK' BY <1>2, <1>3, <1>4, <1>5 DEF Shape, TypeOK
<1>7. FlushersOK' BY <1>2, GrowsUnchanged, FlushersUnchanged
<1>8. ObjectsOK' BY <1>1, <1>2, <1>4 DEF Shape, ObjectsOK
<1> QED BY <1>5, <1>6, <1>7, <1>8 DEF Shape

LEMMA TriggerFlushType ==
  ASSUME Shape, NEW k \in Keys, NEW st \in Statuses, TriggerFlush(k, st)
  PROVE  flushChan' \in Seq(Requests) /\ Len(flushChan') <= FlushCap
<1>1. FlushCap \in Nat BY ConstantsAssumption
<1>2. flushChan \in Seq(Requests) /\ Len(flushChan) <= FlushCap BY DEF Shape, TypeOK
<1>3. [key |-> k, status |-> st] \in Requests BY DEF Requests
<1>4. flushChan' = flushChan
      \/ (Len(flushChan) < FlushCap /\ flushChan' = Append(flushChan, [key |-> k, status |-> st]))
  BY DEF TriggerFlush
<1>5. CASE flushChan' = flushChan BY <1>2, <1>5
<1>6. CASE Len(flushChan) < FlushCap /\ flushChan' = Append(flushChan, [key |-> k, status |-> st])
  <2>1. PICK r \in Requests : r = [key |-> k, status |-> st] BY <1>3
  <2>2. flushChan' \in Seq(Requests) /\ Len(flushChan') = Len(flushChan) + 1 BY <1>2, <1>6, <2>1
  <2>3. Len(flushChan) \in Nat BY <1>2
  <2> QED BY <1>1, <1>6, <2>2, <2>3
<1> QED BY <1>4, <1>5, <1>6

LEMMA FillTriggerShape ==
  ASSUME Shape, NEW c \in Handlers, FillTrigger(c)
  PROVE  Shape'
<1> DEFINE x == Visiting("remove", h[c].msg, h[c].st, {})
<1>1. h[c].pc \in FillPcs /\ h[c].msg \in FillMsgs /\ KeyOf(h[c].msg) \in Keys
  BY FillFacts DEF FillTrigger, FillPcs
<1>2. h[c].st \in Statuses BY DEF FillTrigger, Shape, HandlersOK, HandlerOK
<1>3. x \in HandlerState /\ HandlerOK(x)
  BY <1>1, <1>2, FillFacts, ConstantsAssumption DEF FillPcs, HandlerState, HandlerPc, HandlerOK
<1>4. UNCHANGED <<inVars, orderVars, cacheVars, f, published, storeVars, ctlVars>> BY DEF FillTrigger
<1>5. flushChan' \in Seq(Requests) /\ Len(flushChan') <= FlushCap
  <2>1. UNCHANGED flushChan \/ TriggerFlush(KeyOf(h[c].msg), h[c].st) BY DEF FillTrigger
  <2> QED BY <1>1, <1>2, <2>1, TriggerFlushType DEF Shape, TypeOK
<1>6. \E y \in {x, HIdle} : h' = [h EXCEPT ![c] = y] BY DEF FillTrigger
<1> HIDE DEF x
<1>7. h' \in [Handlers -> HandlerState] /\ HandlersOK' /\ FlushersOK' /\ ObjectsOK'
  BY <1>3, <1>4, <1>6, HIdleOK, HandlerStepShape
<1>8. TypeOK' BY <1>4, <1>5, <1>7 DEF Shape, TypeOK
<1> QED BY <1>7, <1>8 DEF Shape

\* The facts a handler in the middle of UpdateStatus starts from.
LEMMA UpdateFacts ==
  ASSUME Shape, NEW c \in Handlers, h[c].pc \in {"mark", "dirs"} \/ (h[c].pc = "remove" /\ h[c].todo # {})
  PROVE  /\ h[c].msg \in UpdateMsgs /\ h[c].msg \in Msgs \cup {NoMsg}
         /\ h[c].st \in Statuses /\ h[c].msg.order \in Orders
         /\ h[c].todo \subseteq Dirs /\ DirsOf(h[c].msg) \subseteq Dirs
<1>1. h[c] \in HandlerState /\ HandlerOK(h[c]) BY DEF Shape, TypeOK, HandlersOK
<1>2. h[c].msg \in UpdateMsgs /\ h[c].st \in Statuses BY <1>1 DEF HandlerOK
<1>3. h[c].msg \in Msgs \cup {NoMsg} /\ h[c].todo \subseteq Dirs BY <1>1 DEF HandlerState
<1>4. h[c].msg.order \in Orders /\ h[c].msg.dir \in Dirs \cup {NoDir} BY <1>2 DEF UpdateMsgs
<1>5. DirsOf(h[c].msg) \subseteq Dirs BY <1>4, ConstantsAssumption DEF DirsOf
<1> QED BY <1>2, <1>3, <1>4, <1>5

LEMMA LoopingOK ==
  ASSUME Shape, NEW c \in Handlers, NEW S \in SUBSET Dirs,
         S # {} => h[c].pc \in {"mark", "dirs"} \/ (h[c].pc = "remove" /\ h[c].todo # {})
  PROVE  Looping(c, S) \in HandlerState /\ \A x : x = Looping(c, S) => HandlerOK(x)
<1>1. CASE S = {}
  BY <1>1, HIdleOK DEF Looping
<1>2. CASE S # {}
  <2>1. Looping(c, S) = Visiting("dirs", h[c].msg, h[c].st, S) BY <1>2 DEF Looping
  <2>2. MaxMsgs \in Nat BY ConstantsAssumption
  <2> QED BY <1>2, <2>1, <2>2, UpdateFacts DEF HandlerState, HandlerPc, HandlerOK, FillPcs
<1> QED BY <1>1, <1>2

LEMMA UpdateMarkShape ==
  ASSUME Shape, NEW c \in Handlers, UpdateMark(c)
  PROVE  Shape'
<1>1. h[c].pc = "mark" /\ h[c].st \in AnyStatus /\ h[c].msg.order \in Orders /\ DirsOf(h[c].msg) \in SUBSET Dirs
  BY UpdateFacts DEF UpdateMark
<1> DEFINE x == Looping(c, DirsOf(h[c].msg))
<1>2. x \in HandlerState /\ HandlerOK(x) BY <1>1, LoopingOK
<1>3. /\ UNCHANGED <<inVars, orderVars, deduper, flushChan, f, published, storeVars, ctlVars>>
      /\ h' = [h EXCEPT ![c] = x]
  BY DEF UpdateMark
<1>4. tracker' \in [Orders -> AnyStatus] BY <1>1 DEF UpdateMark, Shape, TypeOK
<1> HIDE DEF x
<1>5. h' \in [Handlers -> HandlerState] /\ HandlersOK' /\ FlushersOK' /\ ObjectsOK'
  BY <1>2, <1>3, HandlerStepShape
<1>6. TypeOK' BY <1>3, <1>4, <1>5 DEF Shape, TypeOK
<1> QED BY <1>5, <1>6 DEF Shape

LEMMA UpdateDirShape ==
  ASSUME Shape, NEW c \in Handlers, NEW d \in Dirs, UpdateDir(c, d)
  PROVE  Shape'
<1> DEFINE S == h[c].todo \ {d}
           x == Visiting("remove", h[c].msg, h[c].st, S)
<1>1. /\ h[c].pc = "dirs" /\ h[c].msg \in UpdateMsgs /\ h[c].msg \in Msgs \cup {NoMsg} /\ h[c].st \in Statuses
      /\ <<h[c].msg.order, d>> \in Keys /\ S \in SUBSET Dirs
  BY UpdateFacts DEF UpdateDir
<1>2. x \in HandlerState /\ HandlerOK(x)
  BY <1>1, ConstantsAssumption DEF HandlerState, HandlerPc, HandlerOK, FillPcs
<1>3. Looping(c, S) \in HandlerState /\ HandlerOK(Looping(c, S)) BY <1>1, LoopingOK
<1>4. UNCHANGED <<inVars, orderVars, cacheVars, f, published, storeVars, ctlVars>> BY DEF UpdateDir
<1>5. flushChan' \in Seq(Requests) /\ Len(flushChan') <= FlushCap
  <2>1. UNCHANGED flushChan \/ TriggerFlush(<<h[c].msg.order, d>>, h[c].st) BY DEF UpdateDir
  <2> QED BY <1>1, <2>1, TriggerFlushType DEF Shape, TypeOK
<1>6. h' = [h EXCEPT ![c] = x] \/ h' = [h EXCEPT ![c] = Looping(c, S)] BY DEF UpdateDir
<1> HIDE DEF x, S
<1>7. h' \in [Handlers -> HandlerState] /\ HandlersOK' /\ FlushersOK' /\ ObjectsOK'
  BY <1>2, <1>3, <1>4, <1>6, HandlerStepShape
<1>8. TypeOK' BY <1>4, <1>5, <1>7 DEF Shape, TypeOK
<1> QED BY <1>7, <1>8 DEF Shape

LEMMA StatusRemoveShape ==
  ASSUME Shape, NEW c \in Handlers, StatusRemove(c)
  PROVE  Shape'
<1> DEFINE x == Looping(c, h[c].todo)
<1>1. h[c].pc = "remove" /\ h[c].todo \in SUBSET Dirs
  BY DEF StatusRemove, Shape, TypeOK, HandlerState
<1>2. x \in HandlerState /\ HandlerOK(x) BY <1>1, LoopingOK
<1>3. h[c].msg.order \in Orders
  BY <1>1 DEF Shape, HandlersOK, HandlerOK, FillMsgs, UpdateMsgs
<1>4. /\ UNCHANGED <<inVars, orderVars, deduper, flushChan, f, published, storeVars, ctlVars>>
      /\ h' = [h EXCEPT ![c] = x]
  BY DEF StatusRemove
<1>5. tracker' \in [Orders -> AnyStatus] BY <1>3 DEF StatusRemove, Shape, TypeOK
<1> HIDE DEF x
<1>6. h' \in [Handlers -> HandlerState] /\ HandlersOK' /\ FlushersOK' /\ ObjectsOK'
  BY <1>2, <1>4, HandlerStepShape
<1>7. TypeOK' BY <1>4, <1>5, <1>6 DEF Shape, TypeOK
<1> QED BY <1>6, <1>7 DEF Shape

\* A step in which pool goroutine w moves to local state x and no object is
\* created or changes its key or its place.
LEMMA FlusherStepShape ==
  ASSUME Shape, NEW w \in Flushers, NEW x \in FlusherState, f' = [f EXCEPT ![w] = x], FlusherOK(x),
         UNCHANGED <<nobj, okey, pending, writes, h>>
  PROVE  f' \in [Flushers -> FlusherState] /\ HandlersOK' /\ FlushersOK' /\ ObjectsOK'
<1>1. f' \in [Flushers -> FlusherState] /\ FlushersOK' BY FlusherFrame
<1>2. HandlersOK' BY HandlersUnchanged
<1>3. ObjectsOK' BY DEF Shape, ObjectsOK
<1> QED BY <1>1, <1>2, <1>3

\* The facts a flush that holds an object starts from.
LEMMA FlushFacts ==
  ASSUME Shape, NEW w \in Flushers, f[w].pc # "idle"
  PROVE  /\ f[w].req \in Requests /\ f[w].req.key \in Keys /\ f[w].req.status \in Statuses
         /\ f[w].obj \in 0 .. MaxMsgs /\ f[w].counted \in Seq(Tids)
         /\ f[w].pc # "get" =>
              f[w].obj \in 1 .. nobj /\ f[w].obj \in Objs /\ okey[f[w].obj] = f[w].req.key
<1>1. f[w] \in FlusherState /\ FlusherOK(f[w]) /\ nobj \in 0 .. MaxMsgs /\ MaxMsgs \in Nat
  BY ConstantsAssumption DEF Shape, TypeOK, FlushersOK
<1>2. f[w].req \in Requests BY <1>1 DEF FlusherOK
<1> QED BY <1>1, <1>2 DEF FlusherOK, FlusherState, Requests

LEMMA FlushSubmitShape ==
  ASSUME Shape, NEW w \in Flushers, FlushSubmit(w)
  PROVE  Shape'
<1>1. Head(flushChan) \in Requests /\ flushChan' \in Seq(Requests) /\ Len(flushChan') <= FlushCap
  <2>1. FlushCap \in Nat BY ConstantsAssumption
  <2>2. flushChan \in Seq(Requests) /\ Len(flushChan) <= FlushCap BY DEF Shape, TypeOK
  <2>3. flushChan # <<>> /\ flushChan' = Tail(flushChan) BY DEF FlushSubmit
  <2> QED BY <2>1, <2>2, <2>3
<1> DEFINE x == Flushing("get", Head(flushChan), 0, <<>>)
<1>2. x \in FlusherState /\ FlusherOK(x)
  BY <1>1, ConstantsAssumption DEF FlusherState, FlusherPc, FlusherOK
<1>3. /\ UNCHANGED <<inVars, h, orderVars, cacheVars, published, storeVars, ctlVars>>
      /\ f' = [f EXCEPT ![w] = x]
  BY DEF FlushSubmit
<1> HIDE DEF x
<1>4. f' \in [Flushers -> FlusherState] /\ HandlersOK' /\ FlushersOK' /\ ObjectsOK'
  BY <1>2, <1>3, FlusherStepShape
<1>5. TypeOK' BY <1>1, <1>3, <1>4 DEF Shape, TypeOK
<1> QED BY <1>4, <1>5 DEF Shape

\* A step in which pool goroutine w only moves to local state x.
LEMMA FlusherOnlyShape ==
  ASSUME Shape, NEW w \in Flushers, NEW x \in FlusherState, f' = [f EXCEPT ![w] = x], FlusherOK(x),
         UNCHANGED <<inVars, h, orderVars, cacheVars, flushChan, published, storeVars, ctlVars>>
  PROVE  Shape'
<1>1. f' \in [Flushers -> FlusherState] /\ HandlersOK' /\ FlushersOK' /\ ObjectsOK'
  BY FlusherStepShape
<1>2. TypeOK' BY <1>1 DEF Shape, TypeOK
<1> QED BY <1>1, <1>2 DEF Shape

LEMMA FlushGetShape ==
  ASSUME Shape, NEW w \in Flushers, FlushGet(w)
  PROVE  Shape'
<1> DEFINE o == pending[f[w].req.key]
           x == Flushing("build", f[w].req, o, <<>>)
<1>1. /\ UNCHANGED <<inVars, h, orderVars, cacheVars, flushChan, published, storeVars, ctlVars>>
      /\ f' = [f EXCEPT ![w] = IF o = 0 THEN FIdle ELSE x] /\ f[w].pc = "get"
  BY DEF FlushGet
<1>2. CASE o = 0 BY <1>1, <1>2, FIdleOK, FlusherOnlyShape
<1>3. CASE o # 0
  <2>1. o \in 0 .. MaxMsgs /\ o \in 1 .. nobj /\ okey[o] = f[w].req.key /\ f[w].req \in Requests
    BY <1>1, <1>3, FlushFacts DEF Shape, TypeOK, ObjectsOK
  <2>2. x \in FlusherState /\ FlusherOK(x) BY <2>1 DEF FlusherState, FlusherPc, FlusherOK
  <2> HIDE DEF x
  <2> QED BY <1>1, <1>3, <2>2, FlusherOnlyShape
<1> QED BY <1>2, <1>3

LEMMA FlushBuildShape ==
  ASSUME Shape, NEW w \in Flushers, FlushBuild(w)
  PROVE  Shape'
<1> DEFINE x == Flushing("publish", f[w].req, f[w].obj, counted[f[w].obj])
<1>1. f[w].pc = "build" /\ \E y \in {x, FIdle} : f' = [f EXCEPT ![w] = y] BY DEF FlushBuild
<1>2. counted[f[w].obj] \in Seq(Tids) BY <1>1, FlushFacts DEF Shape, TypeOK
<1>3. x \in FlusherState /\ FlusherOK(x)
  BY <1>1, <1>2, FlushFacts DEF FlusherState, FlusherPc, FlusherOK
<1>4. UNCHANGED <<inVars, h, orderVars, cacheVars, flushChan, published, storeVars, ctlVars>>
  BY DEF FlushBuild
<1> HIDE DEF x
<1> QED BY <1>1, <1>3, <1>4, FIdleOK, FlusherOnlyShape

LEMMA FlushPublishShape ==
  ASSUME Shape, NEW w \in Flushers, FlushPublish(w)
  PROVE  Shape'
<1> DEFINE p == [key |-> okey[f[w].obj], obj |-> f[w].obj, by |-> w, counted |-> f[w].counted]
           x == Flushing("sent", f[w].req, f[w].obj, <<>>)
<1>1. /\ UNCHANGED <<inVars, h, orderVars, cacheVars, flushChan, storeVars, ctlVars>>
      /\ f' = [f EXCEPT ![w] = x] /\ published' = Append(published, p) /\ f[w].pc = "publish"
  BY DEF FlushPublish, AfterPublish
<1>2. p \in Signals BY <1>1, FlushFacts DEF Signals
<1>3. x \in FlusherState /\ FlusherOK(x) BY <1>1, FlushFacts DEF FlusherState, FlusherPc, FlusherOK
<1> HIDE DEF p, x
<1>4. published' \in Seq(Signals) BY <1>1, <1>2 DEF Shape, TypeOK
<1>5. f' \in [Flushers -> FlusherState] /\ HandlersOK' /\ FlushersOK' /\ ObjectsOK'
  BY <1>1, <1>3, FlusherStepShape
<1>6. TypeOK' BY <1>1, <1>4, <1>5 DEF Shape, TypeOK
<1> QED BY <1>5, <1>6 DEF Shape

LEMMA FlushPublishFailShape ==
  ASSUME Shape, NEW w \in Flushers, FlushPublishFail(w)
  PROVE  Shape'
  BY FIdleOK, FlusherOnlyShape DEF FlushPublishFail, AfterPublishError

LEMMA FlushSetSentShape ==
  ASSUME Shape, NEW w \in Flushers, FlushSetSent(w)
  PROVE  Shape'
<1> DEFINE x == Flushing("dedup", f[w].req, f[w].obj, <<>>)
<1>1. /\ UNCHANGED <<inVars, h, pending, nobj, okey, fillVars, timedOut, cacheVars, flushChan, published, storeVars, ctlVars>>
      /\ f' = [f EXCEPT ![w] = x] /\ f[w].pc = "sent"
      /\ signalSent' = [signalSent EXCEPT ![f[w].obj] = TRUE]
      /\ orderStatus' = [orderStatus EXCEPT ![f[w].obj] = f[w].req.status]
  BY DEF FlushSetSent
<1>2. signalSent' \in [Objs -> BOOLEAN]
  <2>1. signalSent \in [Objs -> BOOLEAN] BY DEF Shape, TypeOK
  <2> QED BY <1>1, <2>1, Zenon
<1>3. orderStatus' \in [Objs -> AnyStatus] BY <1>1, FlushFacts DEF Shape, TypeOK
<1>4. f' \in [Flushers -> FlusherState] /\ HandlersOK' /\ FlushersOK' /\ ObjectsOK'
  <2>1. x \in FlusherState /\ FlusherOK(x) BY <1>1, FlushFacts DEF FlusherState, FlusherPc, FlusherOK
  <2> HIDE DEF x
  <2> QED BY <1>1, <2>1, FlusherStepShape
<1>5. TypeOK' BY <1>1, <1>2, <1>3, <1>4 DEF Shape, TypeOK
<1> QED BY <1>4, <1>5 DEF Shape

LEMMA FlushMarkShape ==
  ASSUME Shape, NEW w \in Flushers, FlushMark(w)
  PROVE  Shape'
<1> DEFINE o == f[w].obj
           x == Flushing("delete", f[w].req, o, <<>>)
<1>1. /\ UNCHANGED <<inVars, h, orderVars, tracker, flushChan, published, db, ctlVars>>
      /\ f' = [f EXCEPT ![w] = x] /\ f[w].pc = "dedup"
      /\ deduper' = deduper \cup {okey[o]} /\ PersistOrder(okey[o], o)
  BY DEF FlushMark, Mark
<1>2. o \in Objs /\ o \in 1 .. nobj /\ okey[o] \in Keys BY <1>1, FlushFacts
<1>3. deduper' \subseteq Keys BY <1>1, <1>2 DEF Shape, TypeOK
<1>4. /\ writes' \in [Keys -> 0 .. MaxMsgs]
      /\ \A q \in Keys : writes'[q] = writes[q] \/ (q = okey[o] /\ writes'[q] = o)
  BY ZenonT(60), <1>1, <1>2, PersistOrderType
<1>5. f' \in [Flushers -> FlusherState] /\ FlushersOK'
  <2>1. x \in FlusherState /\ FlusherOK(x) BY <1>1, FlushFacts DEF FlusherState, FlusherPc, FlusherOK
  <2> HIDE DEF x
  <2> QED BY <1>1, <2>1, FlusherFrame
<1>6. HandlersOK' BY <1>1, HandlersUnchanged
<1>7. ObjectsOK' BY <1>1, <1>2, <1>4 DEF Shape, ObjectsOK
<1>8. TypeOK' BY <1>1, <1>3, <1>4, <1>5 DEF Shape, TypeOK
<1> QED BY <1>5, <1>6, <1>7, <1>8 DEF Shape

LEMMA FlushDeleteShape ==
  ASSUME Shape, NEW w \in Flushers, FlushDelete(w)
  PROVE  Shape'
<1> DEFINE x == Flushing("clear", f[w].req, f[w].obj, <<>>)
<1>1. /\ UNCHANGED <<inVars, h, objVars, cacheVars, flushChan, published, storeVars, ctlVars>>
      /\ f' = [f EXCEPT ![w] = x] /\ f[w].pc = "delete"
      /\ pending' = [pending EXCEPT ![f[w].req.key] = 0]
  BY DEF FlushDelete
<1>2. pending' \in [Keys -> 0 .. MaxMsgs] /\ \A q \in Keys : pending'[q] = pending[q] \/ pending'[q] = 0
  <2>1. pending \in [Keys -> 0 .. MaxMsgs] /\ 0 \in 0 .. MaxMsgs BY ConstantsAssumption DEF Shape, TypeOK
  <2> QED BY <1>1, <2>1
<1>3. f' \in [Flushers -> FlusherState] /\ FlushersOK'
  <2>1. x \in FlusherState /\ FlusherOK(x) BY <1>1, FlushFacts DEF FlusherState, FlusherPc, FlusherOK
  <2> HIDE DEF x
  <2> QED BY <1>1, <2>1, FlusherFrame
<1>4. HandlersOK' BY <1>1, HandlersUnchanged
<1>5. ObjectsOK' BY <1>1, <1>2 DEF Shape, ObjectsOK
<1>6. TypeOK' BY <1>1, <1>2, <1>3 DEF Shape, TypeOK
<1> QED BY <1>3, <1>4, <1>5, <1>6 DEF Shape

LEMMA FlushClearShape ==
  ASSUME Shape, NEW w \in Flushers, FlushClear(w)
  PROVE  Shape'
<1>1. /\ UNCHANGED <<pending, nobj, okey, fills, counted, raced, signalSent, orderStatus, timedOut>>
      /\ UNCHANGED <<inVars, h, cacheVars, flushChan, published, storeVars, ctlVars>>
      /\ f' = [f EXCEPT ![w] = FIdle] /\ seenTids' = [seenTids EXCEPT ![f[w].obj] = {}]
  BY DEF FlushClear
<1>2. seenTids' \in [Objs -> SUBSET Tids] BY <1>1 DEF Shape, TypeOK
<1>3. f' \in [Flushers -> FlusherState] /\ HandlersOK' /\ FlushersOK' /\ ObjectsOK'
  BY <1>1, FIdleOK, FlusherStepShape
<1>4. TypeOK' BY <1>1, <1>2, <1>3 DEF Shape, TypeOK
<1> QED BY <1>3, <1>4 DEF Shape

\* A step that leaves the goroutines and the place and key of every object alone.
LEMMA QuietShape ==
  ASSUME Shape, UNCHANGED <<h, f, nobj, okey, pending, writes>>
  PROVE  HandlersOK' /\ FlushersOK' /\ ObjectsOK'
<1>1. HandlersOK' BY HandlersUnchanged
<1>2. FlushersOK' BY GrowsUnchanged, FlushersUnchanged
<1>3. ObjectsOK' BY DEF Shape, ObjectsOK
<1> QED BY <1>1, <1>2, <1>3

LEMMA StatusExpireShape ==
  ASSUME Shape, NEW r \in Orders, StatusExpire(r)
  PROVE  Shape'
<1>1. UNCHANGED <<inVars, h, orderVars, deduper, flushChan, f, published, storeVars, ctlVars>>
  BY DEF StatusExpire
<1>2. tracker' \in [Orders -> AnyStatus] BY DEF StatusExpire, Shape, TypeOK
<1>3. TypeOK' BY <1>1, <1>2 DEF Shape, TypeOK
<1> QED BY <1>1, <1>3, QuietShape DEF Shape

LEMMA TimeoutShape ==
  ASSUME Shape, NEW o \in Objs, Timeout(o)
  PROVE  Shape'
<1>1. /\ UNCHANGED <<inVars, h, pending, nobj, okey, fillVars, signalSent, orderStatus, cacheVars, flushChan, f, published, storeVars, ctlVars>>
      /\ timedOut' = [timedOut EXCEPT ![o] = TRUE]
  BY DEF Timeout
<1>2. timedOut' \in [Objs -> BOOLEAN]
  <2>1. timedOut \in [Objs -> BOOLEAN] BY DEF Shape, TypeOK
  <2> QED BY <1>1, <2>1, Zenon
<1>3. TypeOK' BY <1>1, <1>2 DEF Shape, TypeOK
<1> QED BY <1>1, <1>3, QuietShape DEF Shape

LEMMA ScanStartShape ==
  ASSUME Shape, ScanStart
  PROVE  Shape'
<1>1. UNCHANGED <<inVars, h, orderVars, cacheVars, flushChan, f, published, storeVars, phase, exited>>
  BY DEF ScanStart
<1>2. scan' \subseteq Keys BY DEF ScanStart
<1>3. TypeOK' BY <1>1, <1>2 DEF Shape, TypeOK
<1> QED BY <1>1, <1>3, QuietShape DEF Shape

LEMMA ScanKeyShape ==
  ASSUME Shape, NEW k \in Keys, ScanKey(k)
  PROVE  Shape'
<1>1. UNCHANGED <<inVars, h, orderVars, cacheVars, f, published, storeVars, phase, exited>>
  BY DEF ScanKey
<1>2. scan' \subseteq Keys BY DEF ScanKey, Shape, TypeOK
<1>3. flushChan' \in Seq(Requests) /\ Len(flushChan') <= FlushCap
  <2>1. UNCHANGED flushChan \/ TriggerFlush(k, Filled) BY DEF ScanKey
  <2> QED BY <2>1, ConstantsAssumption, TriggerFlushType DEF Shape, TypeOK
<1>4. TypeOK' BY <1>1, <1>2, <1>3 DEF Shape, TypeOK
<1> QED BY <1>1, <1>4, QuietShape DEF Shape

LEMMA WriteBackShape ==
  ASSUME Shape, NEW k \in Keys, WriteBack(k)
  PROVE  Shape'
<1>1. /\ UNCHANGED <<inVars, h, orderVars, cacheVars, flushChan, f, published, ctlVars>>
      /\ writes[k] # 0 /\ (writes' = writes \/ writes' = [writes EXCEPT ![k] = 0])
      /\ db' = db \/ db' = [db EXCEPT ![k] = RowOf(writes[k])]
  BY DEF WriteBack
<1>2. writes' \in [Keys -> 0 .. MaxMsgs] /\ \A q \in Keys : writes'[q] = writes[q] \/ writes'[q] = 0
  <2>1. writes \in [Keys -> 0 .. MaxMsgs] /\ 0 \in 0 .. MaxMsgs BY ConstantsAssumption DEF Shape, TypeOK
  <2> QED BY <1>1, <2>1
<1>3. RowOf(writes[k]) \in Rows
  <2>1. writes[k] \in Objs BY <1>1, ConstantsAssumption DEF Shape, TypeOK
  <2>2. signalSent[writes[k]] \in BOOLEAN
    <3>1. signalSent \in [Objs -> BOOLEAN] BY DEF Shape, TypeOK
    <3> QED BY <2>1, <3>1, Zenon
  <2>3. orderStatus[writes[k]] \in AnyStatus /\ fills[writes[k]] \in Seq(Tids)
    BY <2>1 DEF Shape, TypeOK
  <2> QED BY <2>2, <2>3, Zenon DEF RowOf, Rows
<1>4. db' \in [Keys -> Rows]
  <2>1. db \in [Keys -> Rows] BY DEF Shape, TypeOK
  <2> QED BY <1>1, <1>3, <2>1
<1>5. TypeOK' BY <1>1, <1>2, <1>4 DEF Shape, TypeOK
<1>6. HandlersOK' /\ FlushersOK' BY <1>1, HandlersUnchanged, GrowsUnchanged, FlushersUnchanged
<1>7. ObjectsOK' BY <1>1, <1>2 DEF Shape, ObjectsOK
<1> QED BY <1>5, <1>6, <1>7 DEF Shape

LEMMA CloseShape ==
  ASSUME Shape, Close
  PROVE  Shape'
<1>1. UNCHANGED <<inVars, h, orderVars, cacheVars, flushChan, f, published, storeVars>> BY DEF Close
<1>2. /\ scan' \subseteq Keys /\ exited' \subseteq Goroutines
      /\ phase' \in {"running", "closingQueue", "closingProcessor", "closed"}
  BY DEF Close, Leave, Advance, Goroutines, Shape, TypeOK
<1>3. TypeOK' BY <1>1, <1>2 DEF Shape, TypeOK
<1> QED BY <1>1, <1>3, QuietShape DEF Shape

LEMMA ShapeStep == Shape /\ [Next]_vars => Shape'
<1> SUFFICES ASSUME Shape, [Next]_vars PROVE Shape' OBVIOUS
<1>1. CASE UNCHANGED vars
  <2>1. UNCHANGED <<inVars, h, orderVars, cacheVars, flushChan, f, published, storeVars, ctlVars>>
    BY <1>1 DEF vars
  <2>2. TypeOK' BY <2>1 DEF Shape, TypeOK
  <2> QED BY <2>1, <2>2, QuietShape DEF Shape
<1>2. ASSUME NEW c \in Callers, NEW m \in Msgs, Enqueue(c, m) PROVE Shape'
  BY <1>2, EnqueueShape
<1>3. ASSUME NEW c \in Handlers, HandlerStep(c) PROVE Shape'
  BY <1>3, FillSeenShape, FillStatusShape, FillStoreShape, FillCheckShape, FillTidShape,
     FillAppendShape, FillCalcShape, FillTotalShape, FillTriggerShape, UpdateMarkShape, UpdateDirShape,
     StatusRemoveShape DEF HandlerStep
<1>4. ASSUME NEW w \in Flushers,
             FlushSubmit(w) \/ FlusherStep(w) \/ FlushPublish(w) \/ FlushPublishFail(w)
      PROVE  Shape'
  BY <1>4, FlushSubmitShape, FlushGetShape, FlushBuildShape, FlushPublishShape,
     FlushPublishFailShape, FlushSetSentShape, FlushMarkShape, FlushDeleteShape, FlushClearShape
     DEF FlusherStep
<1>5. CASE WorkerReceive \/ ScanStart \/ Close
  BY <1>5, WorkerReceiveShape, ScanStartShape, CloseShape
<1>6. ASSUME NEW k \in Keys, ScanKey(k) \/ WriteBack(k) PROVE Shape'
  BY <1>6, ScanKeyShape, WriteBackShape
<1>7. CASE (\E r \in Orders : StatusExpire(r)) \/ (\E o \in Objs : Timeout(o))
  BY <1>7, StatusExpireShape, TimeoutShape
<1> QED BY <1>1, <1>2, <1>3, <1>4, <1>5, <1>6, <1>7 DEF Next

LEMMA ShapeInvariant == Spec => []Shape
  BY ShapeInit, ShapeStep, PTL DEF Spec

\* Every variable of the processor keeps its type, for any number of goroutines
\* and messages; the pointers that make it so are the rest of Shape: goroutines,
\* pendingOrders and the batch writer's buffer hold objects of their own key.
THEOREM TypeCorrect == Spec => []TypeOK
<1>1. Shape => TypeOK BY DEF Shape
<1> QED BY <1>1, ShapeInvariant, PTL

-----------------------------------------------------------------------------
(* No order is lost: the safety argument for flushOrder. *)

Delivery == SentOK /\ NoOrderLost /\ RemovedIsMarked /\ SentRowWasPublished

deliveryVars == <<nobj, okey, pending, signalSent, deduper, published, db>>

LEMMA SignalledGrows ==
  ASSUME Shape, NEW p \in Signals, published' = Append(published, p)
  PROVE  \A k : Signalled(k) \/ k = p.key => Signalled(k)'
<1>1. published \in Seq(Signals) BY DEF Shape, TypeOK
<1>2. /\ Len(published') = Len(published) + 1 /\ Len(published) \in Nat
      /\ \A i \in 1 .. Len(published) : published'[i] = published[i]
      /\ published'[Len(published) + 1] = p
  BY <1>1
<1> QED BY <1>2 DEF Signalled

LEMMA DeliveryInit == Init => Delivery
  BY DEF Init, Delivery, SentOK, NoOrderLost, RemovedIsMarked, SentRowWasPublished, Known, NoRow

\* Steps that touch neither the orders' places nor what was sent or marked.
LEMMA DeliveryQuiet ==
  ASSUME Delivery, UNCHANGED <<deliveryVars, f>>
  PROVE  Delivery'
  BY DEF deliveryVars, Delivery, SentOK, NoOrderLost, RemovedIsMarked, SentRowWasPublished, Known, Signalled

\* A flush moves to a step before the publication, or returns.
LEMMA DeliveryBefore ==
  ASSUME Shape, Delivery, NEW w \in Flushers, NEW x, f' = [f EXCEPT ![w] = x],
         x.pc \notin {"sent", "dedup", "delete", "clear"}, UNCHANGED deliveryVars
  PROVE  Delivery'
<1>1. f'[w] = x /\ \A d \in Flushers : d # w => f'[d] = f[d] BY DEF Shape, TypeOK
<1>2. SentOK' BY <1>1 DEF deliveryVars, Delivery, SentOK, Signalled
<1> QED BY <1>2 DEF deliveryVars, Delivery, NoOrderLost, RemovedIsMarked, SentRowWasPublished, Known, Signalled

LEMMA FillStoreDelivery ==
  ASSUME Shape, Delivery, NEW c \in Handlers, FillStore(c)
  PROVE  Delivery'
<1> DEFINE k == KeyOf(h[c].msg)
           o == nobj + 1
<1>1. CASE pending[k] # 0
  BY <1>1, DeliveryQuiet DEF FillStore, deliveryVars
<1>2. CASE pending[k] = 0
  <2>1. /\ nobj < MaxMsgs /\ nobj' = o
        /\ okey' = [okey EXCEPT ![o] = k]
        /\ pending' = [pending EXCEPT ![k] = o]
        /\ UNCHANGED <<signalSent, deduper, published, db, f>>
    BY <1>2 DEF FillStore
  <2>2. k \in Keys BY FillFacts DEF FillStore, FillPcs
  <2>3. nobj \in 0 .. MaxMsgs /\ MaxMsgs \in Nat BY ConstantsAssumption DEF Shape, TypeOK
  <2>4. o \in Objs /\ o # 0 BY <2>1, <2>3
  <2>5. pending'[k] = o /\ \A q \in Keys : q # k => pending'[q] = pending[q]
    BY <2>1, <2>2 DEF Shape, TypeOK
  <2>6. okey'[o] = k /\ \A x \in 1 .. nobj : okey'[x] = okey[x]
    BY <2>1, <2>3, <2>4 DEF Shape, TypeOK
  <2>7. \A x \in 1 .. nobj' : x \in 1 .. nobj \/ x = o BY <2>1, <2>3
  <2> HIDE DEF k
  <2>8. \A q \in Keys : Known(q)' => Known(q) \/ q = k
    BY <2>6, <2>7 DEF Known
  <2> HIDE DEF o
  <2>9. NoOrderLost' BY <2>1, <2>4, <2>5, <2>8 DEF Delivery, NoOrderLost, Signalled
  <2>10. RemovedIsMarked' BY <2>1, <2>4, <2>5, <2>8 DEF Delivery, RemovedIsMarked
  <2>11. SentRowWasPublished' BY <2>1 DEF Delivery, SentRowWasPublished, Signalled
  <2>12. \A x \in Objs : signalSent[x] => x <= nobj' /\ okey'[x] = okey[x]
    BY <2>1, <2>3, <2>6 DEF Delivery, SentOK, o
  <2>13. SentOK'
    BY <2>1, <2>12 DEF Delivery, SentOK, Signalled
  <2> QED BY <2>9, <2>10, <2>11, <2>13 DEF Delivery
<1> QED BY <1>1, <1>2

LEMMA FlushPublishDelivery ==
  ASSUME Shape, Delivery, NEW w \in Flushers, FlushPublish(w)
  PROVE  Delivery'
<1> DEFINE p == [key |-> okey[f[w].obj], obj |-> f[w].obj, by |-> w, counted |-> f[w].counted]
           x == Flushing("sent", f[w].req, f[w].obj, <<>>)
<1>1. /\ UNCHANGED <<nobj, okey, pending, signalSent, deduper, db>>
      /\ f' = [f EXCEPT ![w] = x] /\ published' = Append(published, p) /\ f[w].pc = "publish"
  BY DEF FlushPublish, AfterPublish
<1>2. p \in Signals /\ p.key = f[w].req.key BY <1>1, FlushFacts DEF Signals
<1>3. x.pc = "sent" /\ x.req.key = f[w].req.key OBVIOUS
<1> HIDE DEF p, x
<1>4. \A k : Signalled(k) \/ k = f[w].req.key => Signalled(k)'
  BY <1>1, <1>2, SignalledGrows
<1>5. f'[w] = x /\ \A d \in Flushers : d # w => f'[d] = f[d] BY <1>1 DEF Shape, TypeOK
<1>6. SentOK' BY <1>1, <1>3, <1>4, <1>5 DEF Delivery, SentOK
<1>7. NoOrderLost' /\ RemovedIsMarked' /\ SentRowWasPublished'
  BY <1>1, <1>4 DEF Delivery, NoOrderLost, RemovedIsMarked, SentRowWasPublished, Known
<1> QED BY <1>6, <1>7 DEF Delivery

LEMMA FlushSetSentDelivery ==
  ASSUME Shape, Delivery, NEW w \in Flushers, FlushSetSent(w)
  PROVE  Delivery'
<1> DEFINE x == Flushing("dedup", f[w].req, f[w].obj, <<>>)
           o == f[w].obj
<1>1. /\ UNCHANGED <<nobj, okey, pending, deduper, published, db>>
      /\ f' = [f EXCEPT ![w] = x] /\ f[w].pc = "sent"
      /\ signalSent' = [signalSent EXCEPT ![o] = TRUE]
  BY DEF FlushSetSent
<1>2. x.pc = "dedup" /\ x.req.key = f[w].req.key OBVIOUS
<1> HIDE DEF x
<1>3. f'[w] = x /\ \A d \in Flushers : d # w => f'[d] = f[d] BY <1>1 DEF Shape, TypeOK
<1>4. Signalled(f[w].req.key) /\ okey[o] = f[w].req.key BY <1>1, FlushFacts DEF Delivery, SentOK
<1>5. o \in 1 .. nobj /\ \A q \in Objs : q # o => signalSent'[q] = signalSent[q]
  <2>1. signalSent \in [Objs -> BOOLEAN] /\ o \in 1 .. nobj
    BY <1>1, FlushFacts DEF Shape, TypeOK
  <2> QED BY <1>1, <2>1
<1>6. SentOK' BY <1>1, <1>2, <1>3, <1>4, <1>5 DEF Delivery, SentOK, Signalled
<1>7. NoOrderLost' /\ RemovedIsMarked' /\ SentRowWasPublished'
  BY <1>1 DEF Delivery, NoOrderLost, RemovedIsMarked, SentRowWasPublished, Known, Signalled
<1> QED BY <1>6, <1>7 DEF Delivery

LEMMA FlushMarkDelivery ==
  ASSUME Shape, Delivery, NEW w \in Flushers, FlushMark(w)
  PROVE  Delivery'
<1> DEFINE x == Flushing("delete", f[w].req, f[w].obj, <<>>)
<1>1. /\ UNCHANGED <<nobj, okey, pending, signalSent, published, db>>
      /\ f' = [f EXCEPT ![w] = x] /\ f[w].pc = "dedup"
      /\ deduper' = deduper \cup {okey[f[w].obj]}
  BY DEF FlushMark, Mark
<1>2. x.pc = "delete" /\ x.req.key = f[w].req.key /\ okey[f[w].obj] = f[w].req.key BY <1>1, FlushFacts
<1> HIDE DEF x
<1>3. f'[w] = x /\ \A d \in Flushers : d # w => f'[d] = f[d] BY <1>1 DEF Shape, TypeOK
<1>4. SentOK' BY <1>1, <1>2, <1>3 DEF Delivery, SentOK, Signalled
<1>5. NoOrderLost' /\ RemovedIsMarked' /\ SentRowWasPublished'
  BY <1>1 DEF Delivery, NoOrderLost, RemovedIsMarked, SentRowWasPublished, Known, Signalled
<1> QED BY <1>4, <1>5 DEF Delivery

LEMMA FlushDeleteDelivery ==
  ASSUME Shape, Delivery, NEW w \in Flushers, FlushDelete(w)
  PROVE  Delivery'
<1> DEFINE x == Flushing("clear", f[w].req, f[w].obj, <<>>)
           k == f[w].req.key
<1>1. /\ UNCHANGED <<nobj, okey, signalSent, deduper, published, db>>
      /\ f' = [f EXCEPT ![w] = x] /\ f[w].pc = "delete"
      /\ pending' = [pending EXCEPT ![k] = 0]
  BY DEF FlushDelete
<1>2. x.pc = "clear" /\ x.req.key = k OBVIOUS
<1>3. Signalled(k) /\ k \in deduper BY <1>1 DEF Delivery, SentOK
<1> HIDE DEF x, k
<1>4. f'[w] = x /\ \A d \in Flushers : d # w => f'[d] = f[d] BY <1>1 DEF Shape, TypeOK
<1>5. SentOK' BY <1>1, <1>2, <1>3, <1>4 DEF Delivery, SentOK, Signalled
<1>6. \A q \in Keys : q # k => pending'[q] = pending[q] BY <1>1 DEF Shape, TypeOK
<1>7. NoOrderLost' /\ RemovedIsMarked' BY <1>1, <1>3, <1>6 DEF Delivery, NoOrderLost, RemovedIsMarked, Known, Signalled
<1>8. SentRowWasPublished' BY <1>1 DEF Delivery, SentRowWasPublished, Signalled
<1> QED BY <1>5, <1>7, <1>8 DEF Delivery

LEMMA WriteBackDelivery ==
  ASSUME Shape, Delivery, NEW k \in Keys, WriteBack(k)
  PROVE  Delivery'
<1>1. /\ UNCHANGED <<nobj, okey, pending, signalSent, deduper, published, f>> /\ writes[k] # 0
      /\ db' = db \/ db' = [db EXCEPT ![k] = RowOf(writes[k])]
  BY DEF WriteBack
<1>2. writes[k] \in 1 .. nobj /\ okey[writes[k]] = k BY <1>1 DEF Shape, ObjectsOK
<1>3. RowOf(writes[k]).sent => Signalled(k)
  <2>1. writes[k] \in Objs BY <1>2, ConstantsAssumption DEF Shape, TypeOK
  <2> QED BY <1>2, <2>1 DEF RowOf, Delivery, SentOK
<1>4. SentRowWasPublished'
  <2>1. \A q \in Keys : db'[q] = db[q] \/ (q = k /\ db'[q] = RowOf(writes[k]))
    BY <1>1 DEF Shape, TypeOK
  <2> QED BY <1>1, <1>3, <2>1 DEF Delivery, SentRowWasPublished, Signalled
<1>5. SentOK' /\ NoOrderLost' /\ RemovedIsMarked'
  BY <1>1 DEF Delivery, SentOK, NoOrderLost, RemovedIsMarked, Known, Signalled
<1> QED BY <1>4, <1>5 DEF Delivery

LEMMA HandlerDelivery ==
  ASSUME Shape, Delivery, NEW c \in Handlers, HandlerStep(c)
  PROVE  Delivery'
<1>1. CASE FillStore(c) BY <1>1, FillStoreDelivery
<1>2. CASE FillSeen(c) \/ FillStatus(c) \/ FillCheck(c)
  BY <1>2, DeliveryQuiet DEF deliveryVars, FillSeen, FillStatus, FillCheck
<1>3. CASE FillTid(c) \/ FillAppend(c) \/ FillCalc(c) \/ FillTotal(c) \/ FillTrigger(c)
  BY <1>3, DeliveryQuiet DEF deliveryVars, FillTid, FillAppend, FillCalc, FillTotal, FillTrigger
<1>4. CASE UpdateMark(c) \/ (\E d \in Dirs : UpdateDir(c, d)) \/ StatusRemove(c)
  BY <1>4, DeliveryQuiet DEF deliveryVars, UpdateMark, UpdateDir, StatusRemove
<1> QED BY <1>1, <1>2, <1>3, <1>4 DEF HandlerStep

LEMMA FlusherDelivery ==
  ASSUME Shape, Delivery, NEW w \in Flushers,
         FlushSubmit(w) \/ FlusherStep(w) \/ FlushPublish(w) \/ FlushPublishFail(w)
  PROVE  Delivery'
<1>1. CASE FlushSubmit(w)
  BY <1>1, DeliveryBefore DEF FlushSubmit, deliveryVars
<1>2. CASE FlushGet(w)
  <2>1. \E y \in {FIdle, Flushing("build", f[w].req, pending[f[w].req.key], <<>>)} : f' = [f EXCEPT ![w] = y]
    BY <1>2 DEF FlushGet
  <2> QED BY <1>2, <2>1, DeliveryBefore DEF FlushGet, deliveryVars
<1>3. CASE FlushBuild(w)
  <2>1. \E y \in {FIdle, Flushing("publish", f[w].req, f[w].obj, counted[f[w].obj])} : f' = [f EXCEPT ![w] = y]
    BY <1>3 DEF FlushBuild
  <2> QED BY <1>3, <2>1, DeliveryBefore DEF FlushBuild, deliveryVars
<1>4. CASE FlushPublishFail(w) \/ FlushClear(w)
  BY <1>4, DeliveryBefore DEF FlushPublishFail, AfterPublishError, FlushClear, deliveryVars
<1>5. CASE FlushPublish(w) BY <1>5, FlushPublishDelivery
<1>6. CASE FlushSetSent(w) BY <1>6, FlushSetSentDelivery
<1>7. CASE FlushMark(w) BY <1>7, FlushMarkDelivery
<1>8. CASE FlushDelete(w) BY <1>8, FlushDeleteDelivery
<1> QED BY <1>1, <1>2, <1>3, <1>4, <1>5, <1>6, <1>7, <1>8 DEF FlusherStep

LEMMA DeliveryStep == Shape /\ Delivery /\ [Next]_vars => Delivery'
<1> SUFFICES ASSUME Shape, Delivery, [Next]_vars PROVE Delivery' OBVIOUS
<1>1. CASE UNCHANGED vars \/ WorkerReceive \/ ScanStart \/ Close
  BY <1>1, DeliveryQuiet DEF vars, deliveryVars, WorkerReceive, ScanStart, Close
<1>2. CASE \E c \in Callers, m \in Msgs : Enqueue(c, m)
  BY <1>2, DeliveryQuiet DEF deliveryVars, Enqueue
<1>3. CASE \E c \in Handlers : HandlerStep(c) BY <1>3, HandlerDelivery
<1>4. CASE \E w \in Flushers :
             FlushSubmit(w) \/ FlusherStep(w) \/ FlushPublish(w) \/ FlushPublishFail(w)
  BY <1>4, FlusherDelivery
<1>5. CASE \E k \in Keys : ScanKey(k) BY <1>5, DeliveryQuiet DEF deliveryVars, ScanKey
<1>6. CASE \E k \in Keys : WriteBack(k) BY <1>6, WriteBackDelivery
<1>7. CASE (\E r \in Orders : StatusExpire(r)) \/ (\E o \in Objs : Timeout(o))
  BY <1>7, DeliveryQuiet DEF deliveryVars, StatusExpire, Timeout
<1> QED BY <1>1, <1>2, <1>3, <1>4, <1>5, <1>6, <1>7 DEF Next

LEMMA DeliveryInvariant == Spec => []Delivery
  BY ShapeInvariant, DeliveryInit, DeliveryStep, PTL DEF Spec

\* Whatever the interleaving of handlers, flushes, drops on a full channel,
\* failures of NATS and shutdown, an aggregated order is pending or signalled.
THEOREM NoOrderIsLost == Spec => []NoOrderLost
<1>1. Delivery => NoOrderLost BY DEF Delivery
<1> QED BY <1>1, DeliveryInvariant, PTL

\* An order that left pendingOrders is in the deduper.
THEOREM RemovedOrdersAreMarked == Spec => []RemovedIsMarked
<1>1. Delivery => RemovedIsMarked BY DEF Delivery
<1> QED BY <1>1, DeliveryInvariant, PTL

\* A row that says signal_sent is one whose signal NATS accepted, although the
\* batch writer reads the aggregation while flushes change it.
THEOREM SentRowsWerePublished == Spec => []SentRowWasPublished
<1>1. Delivery => SentRowWasPublished BY DEF Delivery
<1> QED BY <1>1, DeliveryInvariant, PTL

-----------------------------------------------------------------------------
(* The processor implements OrderSignals. *)

LEMMA CountedInit == Init => CountedOK
  BY DEF Init, CountedOK

LEMMA CountedQuiet ==
  ASSUME CountedOK, UNCHANGED <<nobj, fills, counted, f, h>> PROVE CountedOK'
  BY DEF CountedOK

\* Handler c moves to local state x.
LEMMA CountedHandler ==
  ASSUME Shape, CountedOK, NEW c \in Handlers, NEW x, h' = [h EXCEPT ![c] = x],
         x.pc = "total" => x.snap # <<>>, UNCHANGED <<nobj, fills, counted, f>>
  PROVE  CountedOK'
<1>1. h'[c] = x /\ \A d \in Handlers : d # c => h'[d] = h[d] BY DEF Shape, TypeOK
<1> QED BY <1>1 DEF CountedOK

\* A step of pool goroutine w that leaves it in local state x.
LEMMA CountedFlusher ==
  ASSUME Shape, CountedOK, NEW w \in Flushers, NEW x, f' = [f EXCEPT ![w] = x],
         x.pc = "publish" => x.counted # <<>>, UNCHANGED <<nobj, fills, counted, h>>
  PROVE  CountedOK'
<1>1. f'[w] = x /\ \A d \in Flushers : d # w => f'[d] = f[d] BY DEF Shape, TypeOK
<1> QED BY <1>1 DEF CountedOK

\* A step of a handler that sets the fills or the totals of object o.
LEMMA CountedObject ==
  ASSUME Shape, CountedOK, NEW o \in Objs, UNCHANGED f, nobj' \in Nat,
         \A x \in 1 .. nobj' : x \in 1 .. nobj \/ x = o, NEW s, NEW t, s # <<>>, t # <<>>,
         fills' = [fills EXCEPT ![o] = s], counted' = [counted EXCEPT ![o] = t],
         NEW c \in Handlers, NEW y, h' = [h EXCEPT ![c] = y], y.pc # "total"
  PROVE  CountedOK'
<1>0. h'[c] = y /\ \A d \in Handlers : d # c => h'[d] = h[d] BY DEF Shape, TypeOK
<1>1. \A x \in Objs : IF x = o THEN fills'[x] = s /\ counted'[x] = t
                      ELSE fills'[x] = fills[x] /\ counted'[x] = counted[x]
  BY DEF Shape, TypeOK
<1>2. 1 .. nobj \subseteq Objs BY ConstantsAssumption DEF Shape, TypeOK
<1> QED BY <1>0, <1>1, <1>2 DEF CountedOK

LEMMA HandlerCounted ==
  ASSUME Shape, CountedOK, NEW c \in Handlers, HandlerStep(c)
  PROVE  CountedOK'
<1>1. CASE FillStore(c)
  <2>1. CASE pending[KeyOf(h[c].msg)] # 0
    BY <1>1, <2>1, CountedHandler DEF FillStore
  <2>2. CASE pending[KeyOf(h[c].msg)] = 0
    <3> DEFINE s == <<h[c].msg.tid>>
    <3>1. /\ nobj < MaxMsgs /\ nobj' = nobj + 1 /\ UNCHANGED f
          /\ fills' = [fills EXCEPT ![nobj + 1] = s] /\ counted' = [counted EXCEPT ![nobj + 1] = s]
          /\ h' = [h EXCEPT ![c] = Stored(c, nobj + 1)]
      BY <1>1, <2>2 DEF FillStore
    <3>2. nobj \in 0 .. MaxMsgs /\ MaxMsgs \in Nat BY ConstantsAssumption DEF Shape, TypeOK
    <3>3. /\ nobj + 1 \in Objs /\ nobj' \in Nat
          /\ \A x \in 1 .. nobj' : x \in 1 .. nobj \/ x = nobj + 1
      BY <3>1, <3>2
    <3>4. s # <<>> /\ Stored(c, nobj + 1).pc # "total" BY DEF Stored
    <3> HIDE DEF s
    <3> QED BY <3>1, <3>3, <3>4, CountedObject
  <2> QED BY <2>1, <2>2
<1>2. CASE FillAppend(c)
  <2>1. h[c].obj \in Objs /\ h[c].obj \in 1 .. nobj /\ h[c].snap \in Seq(Tids) /\ h[c].msg.tid \in Tids
    BY <1>2, FillFacts DEF FillAppend, FillPcs
  <2> DEFINE o == h[c].obj
             s == Append(h[c].snap, h[c].msg.tid)
             y == Handling("calc", h[c].msg, h[c].st, o)
  <2>2. s # <<>> BY <2>1
  <2>6. y.pc # "total" OBVIOUS
  <2>3. /\ fills' = [fills EXCEPT ![o] = s] /\ UNCHANGED <<nobj, counted, f>>
        /\ h' = [h EXCEPT ![c] = y]
    BY <1>2 DEF FillAppend, AppendFill
  <2> HIDE DEF s, y
  <2>4. counted' = [counted EXCEPT ![o] = counted[o]] /\ counted[o] # <<>>
    BY <2>1, <2>3 DEF CountedOK, Shape, TypeOK
  <2>5. nobj' \in Nat BY <2>3, ConstantsAssumption DEF Shape, TypeOK
  <2> QED BY <2>1, <2>2, <2>3, <2>4, <2>5, <2>6, CountedObject
<1>3. CASE FillTotal(c)
  <2>1. h[c].obj \in Objs /\ h[c].obj \in 1 .. nobj
    BY <1>3, FillFacts DEF FillTotal, FillPcs
  <2> DEFINE o == h[c].obj
  <2>2. /\ counted' = [counted EXCEPT ![o] = h[c].snap] /\ UNCHANGED <<nobj, fills, f>>
        /\ h' = [h EXCEPT ![c] = Stored(c, o)]
    BY <1>3 DEF FillTotal, Totals
  <2>3. fills' = [fills EXCEPT ![o] = fills[o]] /\ fills[o] # <<>> /\ h[c].snap # <<>>
    BY <1>3, <2>1, <2>2 DEF CountedOK, Shape, TypeOK, FillTotal
  <2>5. Stored(c, o).pc # "total" BY DEF Stored
  <2>4. nobj' \in Nat BY <2>2, ConstantsAssumption DEF Shape, TypeOK
  <2> QED BY <2>1, <2>2, <2>3, <2>4, <2>5, CountedObject
<1>a. CASE FillCalc(c)
  <2>1. fills[h[c].obj] # <<>> BY <1>a, FillFacts DEF FillCalc, FillPcs, CountedOK
  <2> QED BY <1>a, <2>1, CountedHandler DEF FillCalc
<1>4. CASE FillSeen(c) \/ FillStatus(c) \/ FillCheck(c) \/ FillTrigger(c)
  <2>1. \E y : h' = [h EXCEPT ![c] = y] /\ y.pc # "total"
    BY <1>4 DEF FillSeen, FillStatus, FillCheck, FillTrigger
  <2> QED BY <1>4, <2>1, CountedHandler DEF FillSeen, FillStatus, FillCheck, FillTrigger
<1>b. CASE FillTid(c)
  <2>1. \E y : h' = [h EXCEPT ![c] = y] /\ y.pc # "total" BY <1>b DEF FillTid
  <2> QED BY <1>b, <2>1, CountedHandler DEF FillTid
<1>c. \A S : Looping(c, S).pc # "total" BY DEF Looping
<1>5. CASE UpdateMark(c) \/ (\E d \in Dirs : UpdateDir(c, d)) \/ StatusRemove(c)
  <2>1. \E y : h' = [h EXCEPT ![c] = y] /\ y.pc # "total"
    BY <1>5, <1>c DEF UpdateMark, UpdateDir, StatusRemove
  <2> QED BY <1>5, <2>1, CountedHandler DEF UpdateMark, UpdateDir, StatusRemove
<1> QED BY <1>1, <1>2, <1>3, <1>a, <1>4, <1>b, <1>5 DEF HandlerStep

LEMMA FlusherCounted ==
  ASSUME Shape, CountedOK, NEW w \in Flushers,
         FlushSubmit(w) \/ FlusherStep(w) \/ FlushPublish(w) \/ FlushPublishFail(w)
  PROVE  CountedOK'
<1>1. CASE FlushBuild(w)
  <2>1. \/ f' = [f EXCEPT ![w] = FIdle]
        \/ f' = [f EXCEPT ![w] = Flushing("publish", f[w].req, f[w].obj, counted[f[w].obj])]
    BY <1>1 DEF FlushBuild
  <2>2. counted[f[w].obj] # <<>>
    BY <1>1, FlushFacts DEF FlushBuild, CountedOK
  <2> QED BY <1>1, <2>1, <2>2, CountedFlusher DEF FlushBuild
<1>2. CASE FlushGet(w)
  <2>1. \E y \in {FIdle, Flushing("build", f[w].req, pending[f[w].req.key], <<>>)} : f' = [f EXCEPT ![w] = y]
    BY <1>2 DEF FlushGet
  <2> QED BY <1>2, <2>1, CountedFlusher DEF FlushGet
<1>3. CASE FlushSubmit(w) \/ FlushPublish(w) \/ FlushPublishFail(w)
  BY <1>3, CountedFlusher DEF FlushSubmit, FlushPublish, AfterPublish, FlushPublishFail, AfterPublishError
<1>4. CASE FlushSetSent(w) \/ FlushMark(w) \/ FlushDelete(w) \/ FlushClear(w)
  BY <1>4, CountedFlusher DEF FlushSetSent, FlushMark, FlushDelete, FlushClear
<1> QED BY <1>1, <1>2, <1>3, <1>4 DEF FlusherStep

LEMMA CountedStep == Shape /\ CountedOK /\ [Next]_vars => CountedOK'
<1> SUFFICES ASSUME Shape, CountedOK, [Next]_vars PROVE CountedOK' OBVIOUS
<1>a. \A m : Begin(m).pc # "total" BY DEF Begin
<1>0. CASE WorkerReceive BY <1>0, <1>a, CountedHandler DEF WorkerReceive
<1>1. CASE UNCHANGED vars \/ ScanStart \/ Close
  BY <1>1, CountedQuiet DEF vars, ScanStart, Close
<1>2. CASE \E c \in Callers, m \in Msgs : Enqueue(c, m)
  BY <1>2, <1>a, CountedQuiet, CountedHandler DEF Enqueue
<1>3. CASE \E c \in Handlers : HandlerStep(c) BY <1>3, HandlerCounted
<1>4. CASE \E w \in Flushers :
             FlushSubmit(w) \/ FlusherStep(w) \/ FlushPublish(w) \/ FlushPublishFail(w)
  BY <1>4, FlusherCounted
<1>5. CASE \E k \in Keys : ScanKey(k) \/ WriteBack(k)
  BY <1>5, CountedQuiet DEF ScanKey, WriteBack
<1>6. CASE (\E r \in Orders : StatusExpire(r)) \/ (\E o \in Objs : Timeout(o))
  BY <1>6, CountedQuiet DEF StatusExpire, Timeout
<1> QED BY <1>0, <1>1, <1>2, <1>3, <1>4, <1>5, <1>6 DEF Next

promiseVars == <<OpenOrders, SentSignals, deduper>>

\* A signalled key in the sense of OrderSignals is a signalled key.
LEMMA PromiseSignalled == \A k : Promise!Signalled(k) <=> Signalled(k)
<1> DEFINE sent(i) == [key |-> published[i].key, trades |-> published[i].counted]
<1>1. \A i : sent(i).key = published[i].key OBVIOUS
<1>2. SentSignals = {sent(i) : i \in 1 .. Len(published)} BY DEF SentSignals
<1> HIDE DEF sent
<1> QED BY <1>1, <1>2, Zenon DEF Promise!Signalled, Signalled

LEMMA PromiseQuiet ==
  ASSUME UNCHANGED <<pending, published, deduper>> PROVE UNCHANGED promiseVars
  BY DEF promiseVars, OpenOrders, SentSignals

LEMMA FillStorePromise ==
  ASSUME Shape, NEW c \in Handlers, FillStore(c)
  PROVE  [Promise!Next]_promiseVars
<1> DEFINE k == KeyOf(h[c].msg)
<1>1. CASE pending[k] # 0
  BY <1>1, PromiseQuiet DEF FillStore
<1>2. CASE pending[k] = 0
  <2>1. pending' = [pending EXCEPT ![k] = nobj + 1] /\ UNCHANGED <<published, deduper>>
    BY <1>2 DEF FillStore
  <2>2. k \in Keys /\ nobj + 1 # 0
    <3>1. h[c].pc \in FillPcs BY DEF FillStore, FillPcs
    <3>2. k \in Keys BY <3>1, FillFacts
    <3>3. nobj \in 0 .. MaxMsgs BY DEF Shape, TypeOK
    <3>4. nobj + 1 # 0 BY <3>3
    <3> QED BY <3>2, <3>4
  <2> HIDE DEF k
  <2>3. OpenOrders' = OpenOrders \cup {k} /\ k \notin OpenOrders /\ UNCHANGED SentSignals
    BY <1>2, <2>1, <2>2 DEF OpenOrders, SentSignals, Shape, TypeOK
  <2>4. Promise!Open(k)
    BY <2>1, <2>3 DEF Promise!Open
  <2> QED BY <2>3, <2>4 DEF Promise!Next
<1> QED BY <1>1, <1>2

LEMMA FlushPublishPromise ==
  ASSUME Shape, Delivery, CountedOK, NEW w \in Flushers, FlushPublish(w)
  PROVE  [Promise!Next]_promiseVars
<1> DEFINE p == [key |-> okey[f[w].obj], obj |-> f[w].obj, by |-> w, counted |-> f[w].counted]
           s == [key |-> p.key, trades |-> p.counted]
           k == f[w].req.key
<1>1. published' = Append(published, p) /\ UNCHANGED <<pending, deduper>> /\ f[w].pc = "publish"
  BY DEF FlushPublish
<1>2. /\ k \in Keys /\ f[w].obj \in 1 .. nobj /\ okey[f[w].obj] = k /\ p \in Signals
      /\ s.key = k /\ s.trades = f[w].counted
  BY <1>1, FlushFacts DEF Signals
<1>3. s.trades # <<>>
  BY <1>1, <1>2 DEF CountedOK
<1>4. k \in OpenOrders \/ Promise!Signalled(k)
  <2>1. Known(k) BY <1>2 DEF Known
  <2> QED BY <1>2, <2>1, PromiseSignalled DEF Delivery, NoOrderLost, OpenOrders
<1> HIDE DEF p
<1>5. SentSignals' = SentSignals \cup {s}
  <2>1. published \in Seq(Signals) BY DEF Shape, TypeOK
  <2>2. /\ Len(published') = Len(published) + 1 /\ Len(published) \in Nat
        /\ \A i \in 1 .. Len(published) : published'[i] = published[i]
        /\ published'[Len(published) + 1] = p
    BY <1>1, <1>2, <2>1
  <2>3. 1 .. Len(published') = (1 .. Len(published)) \cup {Len(published) + 1}
    BY <2>2
  <2> QED BY <2>2, <2>3 DEF SentSignals
<1>6. UNCHANGED OpenOrders
  BY <1>1 DEF OpenOrders
<1> HIDE DEF s
<1>7. Promise!Signal(s)
  BY <1>1, <1>2, <1>3, <1>4, <1>5, <1>6 DEF Promise!Signal
<1> QED BY <1>5, <1>7 DEF Promise!Next

LEMMA FlusherPromise ==
  ASSUME Shape, Delivery, CountedOK, NEW w \in Flushers,
         FlushSubmit(w) \/ FlusherStep(w) \/ FlushPublish(w) \/ FlushPublishFail(w)
  PROVE  [Promise!Next]_promiseVars
<1>1. CASE FlushPublish(w) BY <1>1, FlushPublishPromise
<1>2. CASE FlushMark(w)
  <2> DEFINE k == f[w].req.key
  <2>1. f[w].pc = "dedup" /\ deduper' = deduper \cup {k} /\ UNCHANGED <<pending, published>>
    BY <1>2, FlushFacts DEF FlushMark, Mark
  <2>2. Promise!Signalled(k)
    BY <2>1, PromiseSignalled DEF Delivery, SentOK
  <2>3. UNCHANGED <<OpenOrders, SentSignals>>
    BY <2>1 DEF OpenOrders, SentSignals
  <2> HIDE DEF k
  <2> QED BY <2>1, <2>2, <2>3 DEF Promise!Next, Promise!Mark
<1>3. CASE FlushDelete(w)
  <2> DEFINE k == f[w].req.key
  <2>1. f[w].pc = "delete" /\ pending' = [pending EXCEPT ![k] = 0] /\ UNCHANGED <<published, deduper>>
    BY <1>3 DEF FlushDelete
  <2>2. k \in deduper /\ k \in Keys
    BY <2>1, FlushFacts DEF Delivery, SentOK
  <2> HIDE DEF k
  <2>3. OpenOrders' = OpenOrders \ {k} /\ UNCHANGED SentSignals
    BY <2>1, <2>2 DEF OpenOrders, SentSignals, Shape, TypeOK
  <2>4. Promise!Remove(k)
    BY <2>1, <2>2, <2>3 DEF Promise!Remove
  <2>5. CASE k \in OpenOrders BY <2>4, <2>5 DEF Promise!Next
  <2>6. CASE k \notin OpenOrders BY <2>1, <2>3, <2>6 DEF promiseVars
  <2> QED BY <2>5, <2>6
<1>4. CASE FlushSubmit(w) \/ FlushGet(w) \/ FlushBuild(w) \/ FlushPublishFail(w) \/ FlushSetSent(w) \/ FlushClear(w)
  BY <1>4, PromiseQuiet
  DEF FlushSubmit, FlushGet, FlushBuild, FlushPublishFail, FlushSetSent, FlushClear
<1> QED BY <1>1, <1>2, <1>3, <1>4 DEF FlusherStep

LEMMA PromiseStep == Shape /\ Delivery /\ CountedOK /\ [Next]_vars => [Promise!Next]_promiseVars
<1> SUFFICES ASSUME Shape, Delivery, CountedOK, [Next]_vars PROVE [Promise!Next]_promiseVars OBVIOUS
<1>1. CASE UNCHANGED vars \/ WorkerReceive \/ ScanStart \/ Close
  BY <1>1, PromiseQuiet DEF vars, WorkerReceive, ScanStart, Close
<1>2. CASE \E c \in Callers, m \in Msgs : Enqueue(c, m)
  BY <1>2, PromiseQuiet DEF Enqueue
<1>3. ASSUME NEW c \in Handlers, HandlerStep(c) PROVE [Promise!Next]_promiseVars
  <2>1. CASE FillStore(c) BY <2>1, FillStorePromise
  <2>2. CASE ~FillStore(c)
    BY <1>3, <2>2, PromiseQuiet
    DEF HandlerStep, FillSeen, FillStatus, FillCheck, FillTid, FillAppend, FillCalc, FillTotal,
        FillTrigger, UpdateMark, UpdateDir, StatusRemove
  <2> QED BY <2>1, <2>2
<1>4. CASE \E w \in Flushers :
             FlushSubmit(w) \/ FlusherStep(w) \/ FlushPublish(w) \/ FlushPublishFail(w)
  BY <1>4, FlusherPromise
<1>5. CASE \E k \in Keys : ScanKey(k) \/ WriteBack(k)
  BY <1>5, PromiseQuiet DEF ScanKey, WriteBack
<1>6. CASE (\E r \in Orders : StatusExpire(r)) \/ (\E o \in Objs : Timeout(o))
  BY <1>6, PromiseQuiet DEF StatusExpire, Timeout
<1> QED BY <1>1, <1>2, <1>3, <1>4, <1>5, <1>6 DEF Next

LEMMA PromiseInit == Init => Promise!Init
  BY DEF Init, Promise!Init, OpenOrders, SentSignals

\* The goroutines of the processor together implement OrderSignals: each step of a handler,
\* of a flush, of the scanner or of Close opens, signals, marks or removes one order as
\* OrderSignals allows, or does nothing that OrderSignals sees.
THEOREM ProcessorKeepsPromise == Spec => ImplementsOrderSignals
<1> QED BY ShapeInvariant, DeliveryInvariant, CountedInit, CountedStep, PromiseInit, PromiseStep, PTL
        DEF Spec, ImplementsOrderSignals, Promise!Spec, promiseVars

-----------------------------------------------------------------------------
(* No pool goroutine publishes an order object twice. *)

Once == OncePerFlusher /\ PublishedOK

LEMMA PublishedTypes ==
  ASSUME Shape, NEW i \in 1 .. Len(published)
  PROVE  published[i] \in Signals /\ published[i].by \in Flushers /\ published[i].obj \in Objs
<1>1. published[i] \in Signals
  <2>1. published \in Seq(Signals) BY DEF Shape, TypeOK
  <2> QED BY <2>1
<1> QED BY <1>1 DEF Signals

LEMMA OnceInit == Init => Once
  BY DEF Init, Once, OncePerFlusher, PublishedOK

LEMMA OnceQuiet ==
  ASSUME Once, UNCHANGED <<published, signalSent, f>>
  PROVE  Once'
  BY DEF Once, OncePerFlusher, PublishedOK

\* A flush that is not at "sent" moves to a step other than "publish".
LEMMA OnceMove ==
  ASSUME Shape, Once, NEW w \in Flushers, NEW x, f' = [f EXCEPT ![w] = x],
         f[w].pc \notin {"sent"}, x.pc \notin {"publish"}, UNCHANGED <<published, signalSent>>
  PROVE  Once'
<1>1. f'[w] = x /\ \A d \in Flushers : d # w => f'[d] = f[d] BY DEF Shape, TypeOK
<1>2. \A i \in 1 .. Len(published) : published[i].by \in Flushers
  BY PublishedTypes
<1>3. PublishedOK' BY <1>1, <1>2 DEF Once, PublishedOK
<1> QED BY <1>3 DEF Once, OncePerFlusher

LEMMA FlushBuildOnce ==
  ASSUME Shape, Once, NEW w \in Flushers, FlushBuild(w)
  PROVE  Once'
<1> DEFINE o == f[w].obj
           x == Flushing("publish", f[w].req, o, counted[o])
<1>1. /\ f[w].pc = "build" /\ UNCHANGED <<published, signalSent>>
      /\ f' = [f EXCEPT ![w] = FIdle] \/ (f' = [f EXCEPT ![w] = x] /\ ~signalSent[o])
  BY DEF FlushBuild
<1>2. CASE f' = [f EXCEPT ![w] = FIdle] BY <1>1, <1>2, OnceMove
<1>3. CASE f' = [f EXCEPT ![w] = x] /\ ~signalSent[o]
  <2>1. f'[w] = x /\ \A d \in Flushers : d # w => f'[d] = f[d] BY <1>3 DEF Shape, TypeOK
  <2>2. \A i \in 1 .. Len(published) : published[i].by \in Flushers
    BY PublishedTypes
  <2>3. \A i \in 1 .. Len(published) : published[i].by = w => published[i].obj # o
    BY <1>1, <1>3 DEF Once, PublishedOK
  <2>4. x.obj = o /\ x.pc = "publish" OBVIOUS
  <2> HIDE DEF x, o
  <2>5. PublishedOK' BY <1>1, <2>1, <2>2, <2>3, <2>4 DEF Once, PublishedOK
  <2> QED BY <1>1, <2>5 DEF Once, OncePerFlusher
<1> QED BY <1>1, <1>2, <1>3

LEMMA FlushPublishOnce ==
  ASSUME Shape, Once, NEW w \in Flushers, FlushPublish(w)
  PROVE  Once'
<1> DEFINE p == [key |-> okey[f[w].obj], obj |-> f[w].obj, by |-> w, counted |-> f[w].counted]
           x == Flushing("sent", f[w].req, f[w].obj, <<>>)
           n == Len(published)
<1>1. /\ f' = [f EXCEPT ![w] = x] /\ published' = Append(published, p) /\ f[w].pc = "publish"
      /\ UNCHANGED signalSent
  BY DEF FlushPublish, AfterPublish
<1>2. p \in Signals /\ p.obj = f[w].obj /\ p.by = w BY <1>1, FlushFacts DEF Signals
<1>3. x.pc = "sent" /\ x.obj = f[w].obj OBVIOUS
<1> HIDE DEF p, x
<1>4. f'[w] = x /\ \A d \in Flushers : d # w => f'[d] = f[d] BY <1>1 DEF Shape, TypeOK
<1>5. /\ n \in Nat /\ Len(published') = n + 1 /\ published'[n + 1] = p
      /\ \A i \in 1 .. n : published'[i] = published[i] /\ published[i].by \in Flushers
  <2>1. published \in Seq(Signals) BY DEF Shape, TypeOK
  <2>2. \A i \in 1 .. n : published[i].by \in Flushers BY PublishedTypes
  <2> QED BY <1>1, <1>2, <2>1, <2>2
<1> HIDE DEF n
<1>6. \A i \in 1 .. n : ~(published[i].by = w /\ published[i].obj = p.obj)
  BY <1>1, <1>2 DEF Once, PublishedOK, n
<1>7. OncePerFlusher'
  <2>1. \A i \in 1 .. n + 1 : i \in 1 .. n \/ i = n + 1 BY <1>5
  <2> QED BY <1>2, <1>5, <1>6, <2>1 DEF Once, OncePerFlusher, n
<1>8. PublishedOK'
  <2>1. \A i \in 1 .. n + 1 : i \in 1 .. n \/ i = n + 1 BY <1>5
  <2> QED BY <1>1, <1>2, <1>3, <1>4, <1>5, <1>6, <2>1 DEF Once, PublishedOK, n
<1> QED BY <1>7, <1>8 DEF Once

LEMMA FlushSetSentOnce ==
  ASSUME Shape, Once, NEW w \in Flushers, FlushSetSent(w)
  PROVE  Once'
<1> DEFINE x == Flushing("dedup", f[w].req, f[w].obj, <<>>)
           o == f[w].obj
<1>1. /\ UNCHANGED published /\ f' = [f EXCEPT ![w] = x] /\ f[w].pc = "sent"
      /\ signalSent' = [signalSent EXCEPT ![o] = TRUE]
  BY DEF FlushSetSent
<1>2. x.pc = "dedup" /\ o \in Objs BY <1>1, FlushFacts
<1> HIDE DEF x, o
<1>3. f'[w] = x /\ \A d \in Flushers : d # w => f'[d] = f[d] BY <1>1 DEF Shape, TypeOK
<1>4. signalSent'[o] /\ \A q \in Objs : signalSent[q] => signalSent'[q]
  <2>1. signalSent \in [Objs -> BOOLEAN] BY DEF Shape, TypeOK
  <2> QED BY <1>1, <1>2, <2>1
<1>5. \A i \in 1 .. Len(published) : published[i].by \in Flushers /\ published[i].obj \in Objs
  BY PublishedTypes
<1>6. PublishedOK' BY <1>1, <1>2, <1>3, <1>4, <1>5 DEF Once, PublishedOK, o
<1> QED BY <1>1, <1>6 DEF Once, OncePerFlusher

LEMMA FlusherOnce ==
  ASSUME Shape, Once, NEW w \in Flushers,
         FlushSubmit(w) \/ FlusherStep(w) \/ FlushPublish(w) \/ FlushPublishFail(w)
  PROVE  Once'
<1>1. CASE FlushSubmit(w) BY <1>1, OnceMove DEF FlushSubmit
<1>2. CASE FlushGet(w)
  <2>1. \E y \in {FIdle, Flushing("build", f[w].req, pending[f[w].req.key], <<>>)} : f' = [f EXCEPT ![w] = y]
    BY <1>2 DEF FlushGet
  <2> QED BY <1>2, <2>1, OnceMove DEF FlushGet
<1>3. CASE FlushBuild(w) BY <1>3, FlushBuildOnce
<1>4. CASE FlushPublishFail(w) \/ FlushClear(w)
  BY <1>4, OnceMove DEF FlushPublishFail, AfterPublishError, FlushClear
<1>5. CASE FlushPublish(w) BY <1>5, FlushPublishOnce
<1>6. CASE FlushSetSent(w) BY <1>6, FlushSetSentOnce
<1>7. CASE FlushMark(w) BY <1>7, OnceMove DEF FlushMark
<1>8. CASE FlushDelete(w) BY <1>8, OnceMove DEF FlushDelete
<1> QED BY <1>1, <1>2, <1>3, <1>4, <1>5, <1>6, <1>7, <1>8 DEF FlusherStep

LEMMA OnceStep == Shape /\ Once /\ [Next]_vars => Once'
<1> SUFFICES ASSUME Shape, Once, [Next]_vars PROVE Once' OBVIOUS
<1>1. CASE UNCHANGED vars \/ WorkerReceive \/ ScanStart \/ Close
  BY <1>1, OnceQuiet DEF vars, WorkerReceive, ScanStart, Close
<1>2. CASE \E c \in Callers, m \in Msgs : Enqueue(c, m)
  BY <1>2, OnceQuiet DEF Enqueue
<1>3. ASSUME NEW c \in Handlers, HandlerStep(c) PROVE UNCHANGED <<published, signalSent, f>>
  <2>1. CASE FillSeen(c) \/ FillStatus(c) \/ FillStore(c) \/ FillCheck(c)
    BY <2>1 DEF FillSeen, FillStatus, FillStore, FillCheck
  <2>2. CASE FillTid(c) \/ FillAppend(c) \/ FillCalc(c) \/ FillTotal(c) \/ FillTrigger(c)
    BY <2>2 DEF FillTid, FillAppend, FillCalc, FillTotal, FillTrigger
  <2>3. CASE UpdateMark(c) \/ (\E d \in Dirs : UpdateDir(c, d)) \/ StatusRemove(c)
    BY <2>3 DEF UpdateMark, UpdateDir, StatusRemove
  <2> QED BY <1>3, <2>1, <2>2, <2>3 DEF HandlerStep
<1>4. CASE \E c \in Handlers : HandlerStep(c) BY <1>3, <1>4, OnceQuiet
<1>5. CASE \E w \in Flushers :
             FlushSubmit(w) \/ FlusherStep(w) \/ FlushPublish(w) \/ FlushPublishFail(w)
  BY <1>5, FlusherOnce
<1>6. CASE \E k \in Keys : ScanKey(k) \/ WriteBack(k) BY <1>6, OnceQuiet DEF ScanKey, WriteBack
<1>7. CASE (\E r \in Orders : StatusExpire(r)) \/ (\E o \in Objs : Timeout(o))
  BY <1>7, OnceQuiet DEF StatusExpire, Timeout
<1> QED BY <1>1, <1>2, <1>4, <1>5, <1>6, <1>7 DEF Next

\* An order object is published at most once by each pool goroutine.
THEOREM PublishedOncePerFlusher == Spec => []OncePerFlusher
<1>1. Once => OncePerFlusher BY DEF Once
<1> QED BY <1>1, ShapeInvariant, OnceInit, OnceStep, PTL DEF Spec

-----------------------------------------------------------------------------
(* No trade is counted twice after the first fill of a pending order. *)

LEMMA TailAppend ==
  ASSUME NEW s \in Seq(Tids), s # <<>>, NEW t \in Tids
  PROVE  /\ Append(s, t) # <<>> /\ TailTids(Append(s, t)) = TailTids(s) \cup {t}
         /\ TailUnique(s) /\ t \notin TailTids(s) => TailUnique(Append(s, t))
<1> DEFINE a == Append(s, t)
           n == Len(s)
<1>1. n \in Nat /\ n >= 1 BY DEF n
<1>2. Len(a) = n + 1 /\ a[n + 1] = t /\ \A i \in 1 .. n : a[i] = s[i] BY DEF a, n
<1> HIDE DEF a, n
<1>3. 2 .. n + 1 = (2 .. n) \cup {n + 1} /\ \A i \in 2 .. n : i \in 1 .. n BY <1>1
<1>4. TailTids(a) = TailTids(s) \cup {t} BY <1>2, <1>3 DEF TailTids, n
<1>5. TailUnique(s) /\ t \notin TailTids(s) => TailUnique(a)
  BY <1>2, <1>3 DEF TailTids, TailUnique, n
<1>6. a # <<>> BY <1>1, <1>2
<1> QED BY <1>4, <1>5, <1>6 DEF a

LEMMA TailOKInit == Init => TailOK
  BY ConstantsAssumption DEF Init, TailOK, OwnsTid

tailVars == <<nobj, okey, pending, fills, seenTids>>

LEMMA TailQuiet ==
  ASSUME TailOK, UNCHANGED <<tailVars, h, f>>
  PROVE  TailOK'
  BY DEF tailVars, TailOK, OwnsTid, Live

\* A handler moves to a step other than "append".
LEMMA TailHandler ==
  ASSUME Shape, TailOK, NEW c \in Handlers, NEW x, h' = [h EXCEPT ![c] = x], x.pc \notin {"append"},
         UNCHANGED <<tailVars, f>>
  PROVE  TailOK'
<1>1. h'[c] = x /\ \A d \in Handlers : d # c => h'[d] = h[d] BY DEF Shape, TypeOK
<1>2. \A d \in Handlers : h'[d].pc = "append" => d # c /\ h'[d] = h[d] BY <1>1
<1> QED BY <1>2 DEF tailVars, TailOK, OwnsTid, Live

\* A flush moves to a step other than "clear".
LEMMA TailFlusher ==
  ASSUME Shape, TailOK, NEW w \in Flushers, NEW x, f' = [f EXCEPT ![w] = x], x.pc \notin {"clear"},
         UNCHANGED <<tailVars, h>>
  PROVE  TailOK'
<1>1. f'[w] = x /\ \A d \in Flushers : d # w => f'[d] = f[d] BY DEF Shape, TypeOK
<1>2. \A d \in Flushers : f'[d].pc = "clear" => d # w /\ f'[d] = f[d] BY <1>1
<1> QED BY <1>2 DEF tailVars, TailOK, OwnsTid, Live

LEMMA FillStoreTail ==
  ASSUME Shape, TailOK, NEW c \in Handlers, FillStore(c)
  PROVE  TailOK'
<1> DEFINE k == KeyOf(h[c].msg)
           o == nobj + 1
<1>1. CASE pending[k] # 0
  BY <1>1, TailHandler DEF FillStore, tailVars
<1>2. CASE pending[k] = 0
  <2>1. /\ nobj < MaxMsgs /\ nobj' = o
        /\ okey' = [okey EXCEPT ![o] = k]
        /\ fills' = [fills EXCEPT ![o] = <<h[c].msg.tid>>]
        /\ pending' = [pending EXCEPT ![k] = o]
        /\ h' = [h EXCEPT ![c] = Stored(c, o)]
        /\ UNCHANGED <<seenTids, f>>
    BY <1>2 DEF FillStore
  <2>2. k \in Keys /\ nobj \in 0 .. MaxMsgs /\ MaxMsgs \in Nat
    BY FillFacts, ConstantsAssumption DEF FillStore, FillPcs, Shape, TypeOK
  <2>3. o \in Objs BY <2>1, <2>2
  <2>4. /\ okey'[o] = k /\ fills'[o] = <<h[c].msg.tid>>
        /\ \A x \in 1 .. nobj : okey'[x] = okey[x] /\ fills'[x] = fills[x]
    BY <2>1, <2>2, <2>3 DEF Shape, TypeOK
  <2>5. pending'[k] = o /\ \A q \in Keys : q # k => pending'[q] = pending[q]
    BY <2>1, <2>2 DEF Shape, TypeOK
  <2>6. Stored(c, o).pc \notin {"append"} BY DEF Stored
  <2>7. \A d \in Handlers : h'[d].pc = "append" => d # c /\ h'[d] = h[d] /\ h[d].obj \in 1 .. nobj
    <3>1. h'[c] = Stored(c, o) /\ \A d \in Handlers : d # c => h'[d] = h[d]
      BY <2>1 DEF Shape, TypeOK
    <3>2. \A d \in Handlers : h[d].pc = "append" => h[d].obj \in 1 .. nobj
      BY DEF Shape, HandlersOK, HandlerOK
    <3> QED BY <2>6, <3>1, <3>2
  <2>8. \A x \in 1 .. nobj : Live(x)' => Live(x)
    <3>1. \A x \in 1 .. nobj : okey[x] \in Keys /\ x # o BY <2>2 DEF Shape, ObjectsOK
    <3> HIDE DEF k, o
    <3> QED BY <2>4, <2>5, <3>1 DEF Live
  <2>9. \A x \in 1 .. nobj' : x \in 1 .. nobj \/ x = o BY <2>1, <2>2
  <2>10. fills'[o] # <<>> /\ TailUnique(fills'[o]) /\ TailTids(fills'[o]) \subseteq seenTids[o]
    <3>1. Len(fills'[o]) = 1 BY <2>4
    <3>2. 2 .. 1 = {} OBVIOUS
    <3> QED BY <2>4, <3>1, <3>2 DEF TailUnique, TailTids
  <2> HIDE DEF o, k
  <2>11. \A x \in 1 .. nobj' : Live(x)' =>
            fills'[x] # <<>> /\ TailUnique(fills'[x]) /\ TailTids(fills'[x]) \subseteq seenTids[x]
    BY <2>4, <2>8, <2>9, <2>10 DEF TailOK, OwnsTid
  <2>12. \A w \in Flushers : f[w].pc = "clear" => f[w].obj \in 1 .. nobj
    BY DEF Shape, FlushersOK, FlusherOK
  <2>13. \A d \in Handlers : h'[d].pc = "append" /\ Live(h[d].obj)' =>
            d # c /\ h'[d] = h[d] /\ Live(h[d].obj) /\ fills'[h[d].obj] = fills[h[d].obj]
    BY <2>4, <2>7, <2>8 DEF Live
  <2>14. \A w \in Flushers : f'[w].pc = "clear" => ~Live(f[w].obj)'
    BY <2>1, <2>8, <2>12 DEF TailOK, OwnsTid, Live
  <2>15. ASSUME NEW e \in Handlers, h'[e].pc = "append", Live(h[e].obj)'
         PROVE  OwnsTid(e)'
    <3>1. h[e].pc = "append" /\ h'[e] = h[e] /\ Live(h[e].obj) /\ fills'[h[e].obj] = fills[h[e].obj]
      BY <2>13, <2>15
    <3>2. \A d \in Handlers : h'[d].pc = "append" => h'[d] = h[d] BY <2>7
    <3>3. seenTids' = seenTids BY <2>1
    <3>4. /\ h[e].msg.tid \in seenTids[h[e].obj] \ TailTids(fills[h[e].obj])
          /\ h[e].snap # <<>> /\ TailUnique(h[e].snap)
          /\ TailTids(h[e].snap) \subseteq seenTids[h[e].obj]
          /\ \A d \in Handlers : h[d].pc = "append" /\ h[d].obj = h[e].obj =>
                /\ h[e].msg.tid \notin TailTids(h[d].snap)
                /\ d # e => h[e].msg.tid # h[d].msg.tid
      BY <3>1 DEF TailOK, OwnsTid
    <3> QED BY <3>1, <3>2, <3>3, <3>4 DEF OwnsTid
  <2> QED BY <2>1, <2>11, <2>14, <2>15 DEF TailOK, OwnsTid
<1> QED BY <1>1, <1>2

LEMMA FillTidTail ==
  ASSUME Shape, TailOK, NEW c \in Handlers, FillTid(c)
  PROVE  TailOK'
<1> DEFINE o == h[c].obj
           t == h[c].msg.tid
           x == Holding("append", h[c].msg, h[c].st, o, fills[o])
<1>1. h[c].pc = "tid" /\ UNCHANGED <<nobj, okey, pending, fills, f>> BY DEF FillTid
<1>2. o \in 1 .. nobj /\ o \in Objs BY <1>1, FillFacts DEF FillPcs
<1>3. CASE t \in seenTids[o]
  BY <1>1, <1>3, TailHandler DEF FillTid, tailVars
<1>4. CASE t \notin seenTids[o]
  <2>1. seenTids' = [seenTids EXCEPT ![o] = seenTids[o] \cup {t}] /\ h' = [h EXCEPT ![c] = x]
    BY <1>4 DEF FillTid, TidStored
  <2>2. x.pc = "append" /\ x.obj = o /\ x.msg.tid = t /\ x.snap = fills[o] OBVIOUS
  <2> HIDE DEF x, t
  <2>3. h'[c] = x /\ \A d \in Handlers : d # c => h'[d] = h[d] BY <2>1 DEF Shape, TypeOK
  <2>4. seenTids'[o] = seenTids[o] \cup {t} /\ \A q \in Objs : q # o => seenTids'[q] = seenTids[q]
    BY <1>2, <2>1 DEF Shape, TypeOK
  <2> HIDE DEF o
  <2>5. \A q \in Objs : seenTids[q] \subseteq seenTids'[q] BY <2>4
  <2>6. 1 .. nobj \subseteq Objs BY ConstantsAssumption DEF Shape, TypeOK
  <2>7. \A d \in Handlers : h[d].pc = "append" => h[d].obj \in 1 .. nobj
    BY DEF Shape, HandlersOK, HandlerOK
  <2>8. \A q \in 1 .. nobj : Live(q)' =>
            fills'[q] # <<>> /\ TailUnique(fills'[q]) /\ TailTids(fills'[q]) \subseteq seenTids'[q]
    BY <1>1, <2>5, <2>6 DEF TailOK, OwnsTid, Live
  <2>9. ASSUME Live(o), NEW d \in Handlers, d # c, h[d].pc = "append", h[d].obj = o
        PROVE  /\ h[d].msg.tid # t /\ t \notin TailTids(h[d].snap)
               /\ h[d].msg.tid \notin TailTids(fills[o])
    BY <1>4, <2>9 DEF TailOK, OwnsTid
  <2>10. ASSUME NEW e \in Handlers, h'[e].pc = "append", Live(h[e].obj)'
         PROVE  OwnsTid(e)'
    <3>1. CASE e = c
      <4>1. Live(o) /\ fills[o] # <<>> /\ TailUnique(fills[o]) /\ TailTids(fills[o]) \subseteq seenTids[o]
        BY <1>1, <1>2, <2>2, <2>3, <2>10, <3>1 DEF TailOK, OwnsTid, Live
      <4> QED BY <1>1, <1>4, <2>2, <2>3, <2>4, <2>9, <3>1, <4>1 DEF OwnsTid
    <3>2. CASE e # c
      <4>1. h'[e] = h[e] /\ Live(h[e].obj) /\ h[e].obj \in Objs
        BY <1>1, <2>3, <2>6, <2>7, <2>10, <3>2 DEF Live
      <4>2. /\ h[e].msg.tid \in seenTids'[h[e].obj] \ TailTids(fills'[h[e].obj])
            /\ h[e].snap # <<>> /\ TailUnique(h[e].snap)
            /\ TailTids(h[e].snap) \subseteq seenTids'[h[e].obj]
        BY <1>1, <2>5, <2>10, <4>1 DEF TailOK, OwnsTid
      <4>3. ASSUME NEW d \in Handlers, h'[d].pc = "append", h'[d].obj = h'[e].obj
            PROVE  /\ h[e].msg.tid \notin TailTids(h'[d].snap)
                   /\ d # e => h[e].msg.tid # h'[d].msg.tid
        <5>1. CASE d = c BY <2>2, <2>3, <2>9, <2>10, <3>2, <4>1, <4>3, <5>1
        <5>2. CASE d # c BY <2>3, <2>10, <4>1, <4>3, <5>2 DEF TailOK, OwnsTid
        <5> QED BY <5>1, <5>2
      <4> QED BY <4>1, <4>2, <4>3 DEF OwnsTid
    <3> QED BY <3>1, <3>2
  <2>11. \A w \in Flushers : f'[w].pc = "clear" => ~Live(f[w].obj)'
    BY <1>1 DEF TailOK, OwnsTid, Live
  <2> QED BY <1>1, <2>8, <2>10, <2>11 DEF TailOK, OwnsTid, Live
<1> QED BY <1>3, <1>4

LEMMA FillAppendTail ==
  ASSUME Shape, TailOK, NEW c \in Handlers, FillAppend(c)
  PROVE  TailOK'
<1> DEFINE o == h[c].obj
           t == h[c].msg.tid
           s == h[c].snap
           x == Handling("calc", h[c].msg, h[c].st, o)
<1>1. /\ h[c].pc = "append" /\ UNCHANGED <<nobj, okey, pending, seenTids, f>>
      /\ fills' = [fills EXCEPT ![o] = Append(s, t)] /\ h' = [h EXCEPT ![c] = x]
  BY DEF FillAppend, AppendFill
<1>2. o \in 1 .. nobj /\ o \in Objs /\ t \in Tids /\ s \in Seq(Tids) BY <1>1, FillFacts DEF FillPcs
<1>3. x.pc = "calc" OBVIOUS
<1> HIDE DEF x
<1>4. \A d \in Handlers : h'[d].pc = "append" => d # c /\ h'[d] = h[d]
  <2>1. h'[c] = x /\ \A d \in Handlers : d # c => h'[d] = h[d] BY <1>1 DEF Shape, TypeOK
  <2> QED BY <1>3, <2>1
<1>5. fills'[o] = Append(s, t) /\ \A q \in Objs : q # o => fills'[q] = fills[q]
  BY <1>1, <1>2 DEF Shape, TypeOK
<1>6. 1 .. nobj \subseteq Objs BY ConstantsAssumption DEF Shape, TypeOK
<1>7. \A d \in Handlers : h[d].pc = "append" => h[d].obj \in 1 .. nobj
  BY DEF Shape, HandlersOK, HandlerOK
<1>8. Live(o) => /\ s # <<>> /\ TailUnique(s) /\ TailTids(s) \subseteq seenTids[o] /\ t \in seenTids[o]
                 /\ t \notin TailTids(s)
  BY <1>1 DEF TailOK, OwnsTid
<1>9. Live(o) => /\ fills'[o] # <<>> /\ TailUnique(fills'[o]) /\ TailTids(fills'[o]) = TailTids(s) \cup {t}
  BY <1>2, <1>5, <1>8, TailAppend
<1>10. \A d \in Handlers : h[d].pc = "append" /\ d # c /\ h[d].obj = o /\ Live(o) =>
          h[d].msg.tid \notin TailTids(s) \cup {t}
  BY <1>1 DEF TailOK, OwnsTid
<1> HIDE DEF o, t, s
<1>11. \A q \in 1 .. nobj : Live(q)' =>
          fills'[q] # <<>> /\ TailUnique(fills'[q]) /\ TailTids(fills'[q]) \subseteq seenTids'[q]
  BY <1>1, <1>5, <1>6, <1>8, <1>9 DEF TailOK, OwnsTid, Live
<1>12. \A d \in Handlers : h'[d].pc = "append" /\ Live(h[d].obj)' =>
          h'[d].msg.tid \notin TailTids(fills'[h'[d].obj])
  BY <1>1, <1>4, <1>5, <1>6, <1>7, <1>9, <1>10 DEF TailOK, OwnsTid, Live
<1>13. ASSUME NEW d \in Handlers, h'[d].pc = "append", Live(h[d].obj)' PROVE OwnsTid(d)'
  <2>1. h'[d] = h[d] /\ h[d].pc = "append" /\ seenTids' = seenTids BY <1>1, <1>4, <1>13
  <2>2. Live(h[d].obj) BY <1>1, <1>13, <2>1 DEF Live
  <2>3. OwnsTid(d) BY <2>1, <2>2 DEF TailOK
  <2>4. h'[d].msg.tid \notin TailTids(fills'[h'[d].obj]) BY <1>12, <1>13
  <2>5. \A e \in Handlers : h'[e].pc = "append" => h'[e] = h[e] /\ h[e].pc = "append" BY <1>4
  <2> QED BY <2>1, <2>3, <2>4, <2>5 DEF OwnsTid
<1>14. \A v \in Flushers : f'[v].pc = "clear" => ~Live(f[v].obj)' BY <1>1 DEF TailOK, Live
<1> QED BY <1>1, <1>11, <1>13, <1>14 DEF TailOK

LEMMA FlushDeleteTail ==
  ASSUME Shape, TailOK, NEW w \in Flushers, FlushDelete(w)
  PROVE  TailOK'
<1> DEFINE x == Flushing("clear", f[w].req, f[w].obj, <<>>)
           k == f[w].req.key
<1>1. /\ UNCHANGED <<nobj, okey, fills, seenTids, h>> /\ f' = [f EXCEPT ![w] = x] /\ f[w].pc = "delete"
      /\ pending' = [pending EXCEPT ![k] = 0]
  BY DEF FlushDelete
<1>2. x.obj = f[w].obj OBVIOUS
<1>a. f[w].pc # "idle" /\ f[w].pc # "get" BY <1>1
<1>b. k \in Keys /\ f[w].obj \in 1 .. nobj /\ okey[f[w].obj] = k BY <1>a, FlushFacts
<1>c. nobj \in Nat BY ConstantsAssumption DEF Shape, TypeOK
<1>3. k \in Keys /\ f[w].obj \in 1 .. nobj /\ okey[f[w].obj] = k /\ f[w].obj # 0
  BY <1>b, <1>c
<1> HIDE DEF x, k
<1>4. f'[w] = x /\ \A d \in Flushers : d # w => f'[d] = f[d] BY <1>1 DEF Shape, TypeOK
<1>5. pending'[k] = 0 /\ \A q \in Keys : q # k => pending'[q] = pending[q]
  BY <1>1, <1>3 DEF Shape, TypeOK
<1>6. \A q \in 1 .. nobj : okey[q] \in Keys /\ q # 0
  BY ConstantsAssumption DEF Shape, TypeOK, ObjectsOK
<1>7. \A q \in 1 .. nobj : Live(q)' => Live(q) BY <1>1, <1>5, <1>6 DEF Live
<1>8. \A d \in Handlers : h[d].pc = "append" => h[d].obj \in 1 .. nobj
  BY DEF Shape, HandlersOK, HandlerOK
<1>9. \A d \in Handlers : h[d].pc = "append" /\ Live(h[d].obj)' => Live(h[d].obj)
  BY <1>1, <1>7, <1>8 DEF Live
<1>10. \A d \in Flushers : f[d].pc = "clear" => f[d].obj \in 1 .. nobj
  BY DEF Shape, FlushersOK, FlusherOK
<1>11. ASSUME NEW d \in Flushers, f'[d].pc = "clear" PROVE ~Live(f[d].obj)'
  <2>1. CASE d = w BY <1>1, <1>2, <1>3, <1>4, <1>5, <2>1 DEF Live
  <2>2. CASE d # w
    <3>1. f'[d] = f[d] /\ f[d].obj \in 1 .. nobj /\ ~Live(f[d].obj)
      BY <1>4, <1>10, <1>11, <2>2 DEF TailOK, OwnsTid
    <3> QED BY <1>7, <3>1 DEF Live
  <2> QED BY <2>1, <2>2
<1> QED BY <1>1, <1>7, <1>9, <1>11 DEF TailOK, OwnsTid

LEMMA FlushClearTail ==
  ASSUME Shape, TailOK, NEW w \in Flushers, FlushClear(w)
  PROVE  TailOK'
<1> DEFINE o == f[w].obj
<1>1. /\ UNCHANGED <<nobj, okey, pending, fills, h>> /\ f' = [f EXCEPT ![w] = FIdle]
      /\ seenTids' = [seenTids EXCEPT ![o] = {}] /\ f[w].pc = "clear"
  BY DEF FlushClear
<1>2. ~Live(o) BY <1>1 DEF TailOK, OwnsTid
<1>3. 1 .. nobj \subseteq Objs BY ConstantsAssumption DEF Shape, TypeOK
<1>4. \A q \in Objs : q # o => seenTids'[q] = seenTids[q] BY <1>1 DEF Shape, TypeOK
<1> HIDE DEF o
<1>5. \A d \in Flushers : f'[d].pc = "clear" => f'[d] = f[d]
  <2>1. f'[w] = FIdle /\ \A d \in Flushers : d # w => f'[d] = f[d] BY <1>1 DEF Shape, TypeOK
  <2> QED BY <2>1
<1>6. \A q : Live(q)' <=> Live(q) BY <1>1 DEF Live
<1>7. \A d \in Handlers : h[d].pc = "append" => h[d].obj \in 1 .. nobj
  BY DEF Shape, HandlersOK, HandlerOK
<1>8. \A q \in 1 .. nobj : Live(q) => seenTids'[q] = seenTids[q] BY <1>2, <1>3, <1>4
<1>9. \A q \in 1 .. nobj : Live(q)' =>
          fills'[q] # <<>> /\ TailUnique(fills'[q]) /\ TailTids(fills'[q]) \subseteq seenTids'[q]
  BY <1>1, <1>6, <1>8 DEF TailOK, OwnsTid
<1>10. \A d \in Handlers : h[d].pc = "append" /\ Live(h[d].obj)' =>
          Live(h[d].obj) /\ seenTids'[h[d].obj] = seenTids[h[d].obj]
  BY <1>1, <1>6, <1>7, <1>8 DEF Live
<1>11. \A d \in Flushers : f'[d].pc = "clear" => ~Live(f[d].obj)'
  BY <1>1, <1>5, <1>6 DEF TailOK, OwnsTid, Live
<1>12. ASSUME NEW d \in Handlers, h'[d].pc = "append", Live(h[d].obj)' PROVE OwnsTid(d)'
  <2>1. h[d].pc = "append" /\ Live(h[d].obj) /\ seenTids'[h[d].obj] = seenTids[h[d].obj]
    BY <1>1, <1>10, <1>12
  <2>2. OwnsTid(d) BY <2>1 DEF TailOK
  <2> QED BY <1>1, <2>1, <2>2 DEF OwnsTid
<1> QED BY <1>1, <1>9, <1>11, <1>12 DEF TailOK

LEMMA HandlerTail ==
  ASSUME Shape, TailOK, NEW c \in Handlers, HandlerStep(c)
  PROVE  TailOK'
<1>1. CASE FillStore(c) BY <1>1, FillStoreTail
<1>2. CASE FillTid(c) BY <1>2, FillTidTail
<1>3. CASE FillAppend(c) BY <1>3, FillAppendTail
<1>4. CASE FillSeen(c)
  <2>1. \E y \in {HIdle, Handling("status", h[c].msg, NoStatus, 0)} : h' = [h EXCEPT ![c] = y]
    BY <1>4 DEF FillSeen
  <2> QED BY <1>4, <2>1, TailHandler DEF tailVars, FillSeen
<1>5. CASE FillCheck(c)
  <2>1. \E y \in {HIdle, Handling("tid", h[c].msg, h[c].st, h[c].obj)} : h' = [h EXCEPT ![c] = y]
    BY <1>5 DEF FillCheck
  <2> QED BY <1>5, <2>1, TailHandler DEF tailVars, FillCheck
<1>6. CASE FillStatus(c) BY <1>6, TailHandler DEF tailVars, FillStatus
<1>7. CASE FillTotal(c)
  <2>1. \E y \in {HIdle, Handling("trigger", h[c].msg, h[c].st, h[c].obj)} : h' = [h EXCEPT ![c] = y]
    BY <1>7 DEF FillTotal, Stored
  <2> QED BY <1>7, <2>1, TailHandler DEF tailVars, FillTotal
<1>a. CASE FillCalc(c) BY <1>a, TailHandler DEF tailVars, FillCalc
<1>8. CASE FillTrigger(c) BY <1>8, TailHandler DEF tailVars, FillTrigger
<1>9. \A S : Looping(c, S).pc \notin {"append"} BY DEF Looping
<1>10. CASE UpdateMark(c) \/ StatusRemove(c)
  BY <1>9, <1>10, TailHandler DEF tailVars, UpdateMark, StatusRemove
<1>11. CASE \E d \in Dirs : UpdateDir(c, d)
  BY <1>9, <1>11, TailHandler DEF tailVars, UpdateDir
<1> QED BY <1>1, <1>2, <1>3, <1>4, <1>5, <1>6, <1>7, <1>a, <1>8, <1>10, <1>11 DEF HandlerStep

LEMMA FlusherTail ==
  ASSUME Shape, TailOK, NEW w \in Flushers,
         FlushSubmit(w) \/ FlusherStep(w) \/ FlushPublish(w) \/ FlushPublishFail(w)
  PROVE  TailOK'
<1>1. CASE FlushSubmit(w) BY <1>1, TailFlusher DEF FlushSubmit, tailVars
<1>2. CASE FlushGet(w)
  <2>1. \E y \in {FIdle, Flushing("build", f[w].req, pending[f[w].req.key], <<>>)} : f' = [f EXCEPT ![w] = y]
    BY <1>2 DEF FlushGet
  <2> QED BY <1>2, <2>1, TailFlusher DEF FlushGet, tailVars
<1>3. CASE FlushBuild(w)
  <2>1. \E y \in {FIdle, Flushing("publish", f[w].req, f[w].obj, counted[f[w].obj])} : f' = [f EXCEPT ![w] = y]
    BY <1>3 DEF FlushBuild
  <2> QED BY <1>3, <2>1, TailFlusher DEF FlushBuild, tailVars
<1>4. CASE FlushPublish(w) \/ FlushPublishFail(w)
  BY <1>4, TailFlusher DEF FlushPublish, AfterPublish, FlushPublishFail, AfterPublishError, tailVars
<1>5. CASE FlushSetSent(w) \/ FlushMark(w)
  BY <1>5, TailFlusher DEF FlushSetSent, FlushMark, tailVars
<1>6. CASE FlushDelete(w) BY <1>6, FlushDeleteTail
<1>7. CASE FlushClear(w) BY <1>7, FlushClearTail
<1> QED BY <1>1, <1>2, <1>3, <1>4, <1>5, <1>6, <1>7 DEF FlusherStep

LEMMA TailStep == Shape /\ TailOK /\ [Next]_vars => TailOK'
<1> SUFFICES ASSUME Shape, TailOK, [Next]_vars PROVE TailOK' OBVIOUS
<1>1. CASE UNCHANGED vars \/ ScanStart \/ Close
  BY <1>1, TailQuiet DEF vars, tailVars, ScanStart, Close
<1>2. \A m : Begin(m).pc \notin {"append"} BY DEF Begin
<1>3. CASE \E c \in Callers, m \in Msgs : Enqueue(c, m)
  BY <1>2, <1>3, TailQuiet, TailHandler DEF tailVars, Enqueue
<1>4. CASE WorkerReceive
  BY <1>2, <1>4, TailHandler DEF tailVars, WorkerReceive
<1>5. CASE \E c \in Handlers : HandlerStep(c) BY <1>5, HandlerTail
<1>6. CASE \E w \in Flushers :
             FlushSubmit(w) \/ FlusherStep(w) \/ FlushPublish(w) \/ FlushPublishFail(w)
  BY <1>6, FlusherTail
<1>7. CASE \E k \in Keys : ScanKey(k) \/ WriteBack(k)
  BY <1>7, TailQuiet DEF tailVars, ScanKey, WriteBack
<1>8. CASE (\E r \in Orders : StatusExpire(r)) \/ (\E o \in Objs : Timeout(o))
  BY <1>8, TailQuiet DEF tailVars, StatusExpire, Timeout
<1> QED BY <1>1, <1>3, <1>4, <1>5, <1>6, <1>7, <1>8 DEF Next

\* While an order is pending, no trade id occurs twice among its fills after the
\* first one.
THEOREM PendingTailsAreUnique == Spec => []PendingTailUnique
<1>1. Shape /\ TailOK => PendingTailUnique
  BY DEF Shape, ObjectsOK, TailOK, OwnsTid, TailUnique, Live, PendingTailUnique
<1> QED BY <1>1, ShapeInvariant, TailOKInit, TailStep, PTL DEF Spec


-----------------------------------------------------------------------------
(* The trades of an order that no two handlers were adding to at once. *)

\* Object o has every trade it accepted: in its fills, or in the hands of the one handler
\* that is adding to it, which holds the slice as it is.
Whole(o) ==
    /\ \A t \in seenTids[o] :
          \/ t \in TailTids(fills[o])
          \/ \E c \in Handlers : h[c].pc = "append" /\ h[c].obj = o /\ h[c].msg.tid = t
    /\ (\A c \in Handlers : ~Adding(c, o)) => counted[o] = fills[o]
    /\ \A c \in Handlers : Adding(c, o) =>
          /\ \A d \in Handlers : Adding(d, o) => d = c
          /\ h[c].pc \in {"append", "total"} => h[c].snap = fills[o]
WholeOK ==
    /\ \A o \in 1 .. nobj : Live(o) /\ o \notin raced => Whole(o)
    /\ \A o \in Objs : o > nobj => seenTids[o] = {}

LEMMA WholeInit == Init => WholeOK
  BY ConstantsAssumption DEF Init, WholeOK

AddPcs == {"append", "calc", "total"}

\* A step in which nobody adds to an object, and no object becomes pending.
LEMMA WholeFrame ==
  ASSUME Shape, WholeOK, UNCHANGED <<nobj, okey, fills, counted, raced>>,
         \A o \in 1 .. nobj : Live(o)' => Live(o) /\ seenTids'[o] = seenTids[o],
         \A o \in Objs : seenTids'[o] = seenTids[o] \/ seenTids'[o] = {},
         \A c \in Handlers : h'[c] = h[c] \/ (h[c].pc \notin AddPcs /\ h'[c].pc \notin AddPcs)
  PROVE  WholeOK'
<1>1. \A c \in Handlers : \A o : Adding(c, o)' <=> Adding(c, o) BY DEF Adding, AddPcs
<1>2. \A c \in Handlers : h[c].pc \in AddPcs \/ h'[c].pc \in AddPcs => h'[c] = h[c] OBVIOUS
<1>3. ASSUME NEW o \in 1 .. nobj, Live(o)', o \notin raced PROVE Whole(o)'
  <2>1. Whole(o) /\ seenTids'[o] = seenTids[o] BY <1>3 DEF WholeOK
  <2>2. \A t \in seenTids'[o] :
           \/ t \in TailTids(fills'[o])
           \/ \E c \in Handlers : h'[c].pc = "append" /\ h'[c].obj = o /\ h'[c].msg.tid = t
    BY <1>2, <2>1 DEF Whole, AddPcs
  <2>3. (\A c \in Handlers : ~Adding(c, o)') => counted'[o] = fills'[o] BY <1>1, <2>1 DEF Whole
  <2>4. \A c \in Handlers : Adding(c, o) =>
           /\ h'[c] = h[c]
           /\ \A d \in Handlers : Adding(d, o) => d = c
           /\ h[c].pc \in {"append", "total"} => h[c].snap = fills[o]
    BY <1>2, <2>1 DEF Whole, Adding, AddPcs
  <2> QED BY <1>1, <2>2, <2>3, <2>4 DEF Whole
<1>4. \A o \in Objs : o > nobj => seenTids'[o] = {} BY DEF WholeOK
<1> QED BY <1>3, <1>4 DEF WholeOK

\* A step of a handler that is not adding and does not begin to.
LEMMA WholeHandler ==
  ASSUME Shape, WholeOK, NEW c \in Handlers, NEW x, h' = [h EXCEPT ![c] = x],
         h[c].pc \notin AddPcs, x.pc \notin AddPcs, UNCHANGED <<tailVars, counted, raced>>
  PROVE  WholeOK'
<1>1. h'[c] = x /\ \A d \in Handlers : d # c => h'[d] = h[d] BY DEF Shape, TypeOK
<1>2. \A o : Live(o)' <=> Live(o) BY DEF Live, tailVars
<1> QED BY <1>1, <1>2, WholeFrame DEF tailVars

LEMMA WholeQuiet ==
  ASSUME Shape, WholeOK, UNCHANGED <<tailVars, counted, raced, h>>
  PROVE  WholeOK'
<1>1. \A o : Live(o)' <=> Live(o) BY DEF Live, tailVars
<1> QED BY <1>1, WholeFrame DEF tailVars

\* A new object has its first fill, and no trade in seenTids.
LEMMA FillStoreWhole ==
  ASSUME Shape, WholeOK, NEW c \in Handlers, FillStore(c)
  PROVE  WholeOK'
<1>a. PICK k : k = KeyOf(h[c].msg) OBVIOUS
<1>b. PICK o : o = nobj + 1 OBVIOUS
<1>1. CASE pending[k] # 0
  BY <1>1, <1>a, WholeHandler DEF FillStore, tailVars, AddPcs
<1>2. CASE pending[k] = 0
  <2>1. /\ nobj < MaxMsgs /\ nobj' = o /\ okey' = [okey EXCEPT ![o] = k]
        /\ fills' = [fills EXCEPT ![o] = <<h[c].msg.tid>>]
        /\ counted' = [counted EXCEPT ![o] = <<h[c].msg.tid>>]
        /\ pending' = [pending EXCEPT ![k] = o]
        /\ h' = [h EXCEPT ![c] = Stored(c, o)] /\ h[c].pc = "store"
        /\ UNCHANGED <<seenTids, raced>>
    BY <1>2, <1>a, <1>b DEF FillStore
  <2>2. k \in Keys /\ nobj \in 0 .. MaxMsgs /\ MaxMsgs \in Nat
    BY <1>a, FillFacts, ConstantsAssumption DEF FillStore, FillPcs, Shape, TypeOK
  <2>3. o \in Objs BY <1>b, <2>1, <2>2
  <2>4. /\ fills'[o] = counted'[o]
        /\ \A x \in 1 .. nobj : okey'[x] = okey[x] /\ fills'[x] = fills[x] /\ counted'[x] = counted[x]
    <3>1. \A x \in 1 .. nobj : x \in Objs /\ x # o BY <1>b, <2>2
    <3>2. DOMAIN fills = Objs /\ DOMAIN counted = Objs /\ DOMAIN okey = Objs BY DEF Shape, TypeOK
    <3> QED BY <2>1, <2>3, <3>1, <3>2
  <2>5. pending'[k] = o /\ \A q \in Keys : q # k => pending'[q] = pending[q]
    BY <2>1, <2>2 DEF Shape, TypeOK
  <2>6. Stored(c, o).pc \notin AddPcs BY DEF Stored, AddPcs
  <2>7. \A d \in Handlers : h'[d] = h[d] \/ (h[d].pc \notin AddPcs /\ h'[d].pc \notin AddPcs)
    <3>1. h'[c] = Stored(c, o) /\ \A d \in Handlers : d # c => h'[d] = h[d]
      BY <2>1 DEF Shape, TypeOK
    <3> QED BY <2>1, <2>6, <3>1 DEF AddPcs
  <2>8. \A x \in 1 .. nobj : Live(x)' => Live(x)
    <3>1. \A x \in 1 .. nobj : okey[x] \in Keys /\ x # o BY <1>b, <2>2 DEF Shape, ObjectsOK
    <3> QED BY <2>4, <2>5, <3>1 DEF Live
  <2>9. \A x \in 1 .. nobj' : x \in 1 .. nobj \/ x = o BY <1>b, <2>1, <2>2
  <2>10. \A d \in Handlers : h[d].pc \in AddPcs => h[d].obj # o
    BY <1>b, <2>2 DEF Shape, HandlersOK, HandlerOK, AddPcs
  <2>11. seenTids[o] = {} BY <1>b, <2>2, <2>3 DEF WholeOK
  <2>12. \A x \in Objs : x > o => seenTids'[x] = {} BY <1>b, <2>1, <2>2 DEF WholeOK
  <2>13. \A d \in Handlers : ~Adding(d, o)' BY <2>7, <2>10 DEF Adding, AddPcs
  <2>14. Whole(o)' BY <2>1, <2>4, <2>11, <2>13 DEF Whole
  <2>15. ASSUME NEW x \in 1 .. nobj, Live(x)', x \notin raced PROVE Whole(x)'
    <3>1. Whole(x) /\ seenTids'[x] = seenTids[x] /\ fills'[x] = fills[x] /\ counted'[x] = counted[x]
      BY <2>1, <2>4, <2>8, <2>15 DEF WholeOK
    <3>2. \A d \in Handlers : Adding(d, x)' <=> Adding(d, x) BY <2>7 DEF Adding, AddPcs
    <3>3. \A d \in Handlers : h[d].pc \in AddPcs \/ h'[d].pc \in AddPcs => h'[d] = h[d] BY <2>7
    <3>4. \A t \in seenTids'[x] :
             \/ t \in TailTids(fills'[x])
             \/ \E d \in Handlers : h'[d].pc = "append" /\ h'[d].obj = x /\ h'[d].msg.tid = t
      BY <3>1, <3>3 DEF Whole, AddPcs
    <3>5. \A d \in Handlers : Adding(d, x) =>
             /\ h'[d] = h[d] /\ \A e \in Handlers : Adding(e, x) => e = d
             /\ h[d].pc \in {"append", "total"} => h[d].snap = fills[x]
      BY <3>1, <3>3 DEF Whole, Adding, AddPcs
    <3> QED BY <3>1, <3>2, <3>4, <3>5 DEF Whole
  <2> QED BY <2>1, <2>9, <2>12, <2>14, <2>15 DEF WholeOK
<1> QED BY <1>1, <1>2

\* Handler c, which holds object o, moves to local state x and changes nothing but o.
LEMMA WholeObject ==
  ASSUME Shape, WholeOK, NEW c \in Handlers, NEW x, h' = [h EXCEPT ![c] = x],
         NEW o \in 1 .. nobj, h[c].obj = o, x.pc \in AddPcs => x.obj = o,
         UNCHANGED <<nobj, okey, pending>>,
         \A p \in Objs : p # o => /\ fills'[p] = fills[p] /\ counted'[p] = counted[p]
                                 /\ seenTids'[p] = seenTids[p],
         \A p : p # o => (p \in raced' <=> p \in raced),
         Live(o) /\ o \notin raced' => Whole(o)'
  PROVE  WholeOK'
<1>1. h'[c] = x /\ \A d \in Handlers : d # c => h'[d] = h[d] BY DEF Shape, TypeOK
<1>2. \A p : Live(p)' <=> Live(p) BY DEF Live
<1>3. \A p \in 1 .. nobj : p \in Objs BY ConstantsAssumption DEF Shape, TypeOK
<1>4. ASSUME NEW p \in 1 .. nobj, Live(p), p \notin raced', p # o PROVE Whole(p)'
  <2>1. /\ Whole(p) /\ fills'[p] = fills[p] /\ counted'[p] = counted[p] /\ seenTids'[p] = seenTids[p]
    BY <1>3, <1>4 DEF WholeOK
  <2>2. \A d \in Handlers : Adding(d, p) \/ Adding(d, p)' => d # c
    BY <1>1, <1>4 DEF Adding, AddPcs
  <2>3. \A d \in Handlers : Adding(d, p)' <=> Adding(d, p) BY <1>1, <2>2 DEF Adding
  <2>4. \A t \in seenTids'[p] :
           \/ t \in TailTids(fills'[p])
           \/ \E d \in Handlers : h'[d].pc = "append" /\ h'[d].obj = p /\ h'[d].msg.tid = t
    BY <1>1, <1>4, <2>1 DEF Whole
  <2>5. \A d \in Handlers : Adding(d, p) =>
           /\ h'[d] = h[d] /\ \A e \in Handlers : Adding(e, p) => e = d
           /\ h[d].pc \in {"append", "total"} => h[d].snap = fills[p]
    BY <1>1, <2>1, <2>2 DEF Whole
  <2> QED BY <2>1, <2>3, <2>4, <2>5 DEF Whole
<1>5. \A p \in Objs : p > nobj => p # o /\ seenTids[p] = {}
  BY ConstantsAssumption DEF Shape, TypeOK, WholeOK
<1> QED BY <1>2, <1>4, <1>5 DEF WholeOK

\* The handler becomes the only one that is adding, or the object counts as raced.
LEMMA FillTidWhole ==
  ASSUME Shape, TailOK, WholeOK, NEW c \in Handlers, FillTid(c)
  PROVE  WholeOK'
<1>a. PICK o : o = h[c].obj OBVIOUS
<1>b. PICK t : t = h[c].msg.tid OBVIOUS
<1>c. PICK x : x = Holding("append", h[c].msg, h[c].st, o, fills[o]) OBVIOUS
<1>1. h[c].pc = "tid" /\ UNCHANGED <<nobj, okey, pending, fills, counted>> BY DEF FillTid
<1>2. o \in 1 .. nobj /\ o \in Objs BY <1>a, <1>1, FillFacts DEF FillPcs
<1>3. CASE t \in seenTids[o]
  BY <1>a, <1>b, <1>1, <1>3, WholeHandler DEF FillTid, tailVars, AddPcs
<1>4. CASE t \notin seenTids[o]
  <2>1. /\ seenTids' = [seenTids EXCEPT ![o] = seenTids[o] \cup {t}] /\ h' = [h EXCEPT ![c] = x]
        /\ raced' = IF \E d \in Handlers : Adding(d, o) THEN raced \cup {o} ELSE raced
    BY <1>a, <1>b, <1>c, <1>4 DEF FillTid, TidStored
  <2>2. x.pc = "append" /\ x.obj = o /\ x.msg.tid = t /\ x.snap = fills[o] BY <1>a, <1>b, <1>c
  <2>3. h'[c] = x /\ \A d \in Handlers : d # c => h'[d] = h[d] BY <2>1 DEF Shape, TypeOK
  <2>4. seenTids'[o] = seenTids[o] \cup {t} /\ \A q \in Objs : q # o => seenTids'[q] = seenTids[q]
    BY <1>2, <2>1 DEF Shape, TypeOK
  <2>5. ASSUME Live(o), o \notin raced' PROVE Whole(o)'
    <3>1. o \notin raced /\ \A d \in Handlers : ~Adding(d, o) BY <2>1, <2>5
    <3>2. Whole(o) BY <1>2, <2>5, <3>1 DEF WholeOK
    <3>3. \A q \in seenTids[o] : q \in TailTids(fills[o]) BY <3>1, <3>2 DEF Whole, Adding
    <3>4. \A q \in seenTids'[o] :
             \/ q \in TailTids(fills'[o])
             \/ \E d \in Handlers : h'[d].pc = "append" /\ h'[d].obj = o /\ h'[d].msg.tid = q
      BY <1>1, <2>2, <2>3, <2>4, <3>3
    <3>5. Adding(c, o)' /\ \A d \in Handlers : Adding(d, o)' => d = c
      BY <2>2, <2>3, <3>1 DEF Adding
    <3> QED BY <1>1, <2>2, <2>3, <3>4, <3>5 DEF Whole
  <2>6. \A q : q # o => (q \in raced' <=> q \in raced) BY <2>1
  <2>7. x.pc \in AddPcs => x.obj = o BY <2>2
  <2>8. \A q \in Objs : q # o => /\ fills'[q] = fills[q] /\ counted'[q] = counted[q]
                                 /\ seenTids'[q] = seenTids[q]
    BY <1>1, <2>4
  <2>9. Live(o) /\ o \notin raced' => Whole(o)' BY <2>5
  <2>10. h' = [h EXCEPT ![c] = x] /\ h[c].obj = o BY <1>a, <2>1
  <2> QED BY <1>1, <1>2, <2>6, <2>7, <2>8, <2>9, <2>10, WholeObject
<1> QED BY <1>3, <1>4

\* The slice it appends to is the order's, since nobody else is adding.
LEMMA FillAppendWhole ==
  ASSUME Shape, TailOK, WholeOK, NEW c \in Handlers, FillAppend(c)
  PROVE  WholeOK'
<1>a. PICK o : o = h[c].obj OBVIOUS
<1>b. PICK t : t = h[c].msg.tid OBVIOUS
<1>c. PICK x : x = Handling("calc", h[c].msg, h[c].st, o) OBVIOUS
<1>1. /\ h[c].pc = "append" /\ UNCHANGED <<nobj, okey, pending, counted, seenTids, raced>>
      /\ fills' = [fills EXCEPT ![o] = Append(h[c].snap, t)] /\ h' = [h EXCEPT ![c] = x]
  BY <1>a, <1>b, <1>c DEF FillAppend, AppendFill
<1>2. o \in 1 .. nobj /\ o \in Objs /\ t \in Tids /\ h[c].snap \in Seq(Tids)
  BY <1>a, <1>b, <1>1, FillFacts DEF FillPcs
<1>3. x.pc = "calc" /\ x.obj = o BY <1>c
<1>4. h'[c] = x /\ \A d \in Handlers : d # c => h'[d] = h[d] BY <1>1 DEF Shape, TypeOK
<1>5. fills'[o] = Append(h[c].snap, t) /\ \A q \in Objs : q # o => fills'[q] = fills[q]
  BY <1>1, <1>2 DEF Shape, TypeOK
<1>6. ASSUME Live(o), o \notin raced' PROVE Whole(o)'
  <2>1. Whole(o) BY <1>1, <1>2, <1>6 DEF WholeOK
  <2>2. Adding(c, o) BY <1>a, <1>1 DEF Adding
  <2>3. h[c].snap = fills[o] /\ \A d \in Handlers : Adding(d, o) => d = c
    BY <1>1, <2>1, <2>2 DEF Whole
  <2>4. h[c].snap # <<>> BY <1>a, <1>1, <1>6 DEF TailOK, OwnsTid
  <2>5. TailTids(fills'[o]) = TailTids(fills[o]) \cup {t} BY <1>2, <1>5, <2>3, <2>4, TailAppend
  <2>6. \A q \in seenTids[o] : q \in TailTids(fills[o]) \/ q = t
    <3>1. \A d \in Handlers : h[d].pc = "append" /\ h[d].obj = o => d = c BY <2>3 DEF Adding
    <3> QED BY <1>b, <2>1, <3>1 DEF Whole
  <2>7. Adding(c, o)' /\ \A d \in Handlers : Adding(d, o)' => d = c
    BY <1>3, <1>4, <2>3 DEF Adding
  <2> QED BY <1>1, <1>3, <1>4, <2>5, <2>6, <2>7 DEF Whole
<1>7. \A q : q # o => (q \in raced' <=> q \in raced) BY <1>1
<1> QED BY <1>a, <1>1, <1>2, <1>3, <1>5, <1>6, <1>7, WholeObject

LEMMA FillCalcWhole ==
  ASSUME Shape, WholeOK, NEW c \in Handlers, FillCalc(c)
  PROVE  WholeOK'
<1>a. PICK o : o = h[c].obj OBVIOUS
<1>b. PICK x : x = Holding("total", h[c].msg, h[c].st, o, fills[o]) OBVIOUS
<1>1. /\ h[c].pc = "calc" /\ h' = [h EXCEPT ![c] = x]
      /\ UNCHANGED <<nobj, okey, pending, fills, counted, seenTids, raced>>
  BY <1>a, <1>b DEF FillCalc
<1>2. o \in 1 .. nobj /\ o \in Objs BY <1>a, <1>1, FillFacts DEF FillPcs
<1>3. x.pc = "total" /\ x.obj = o /\ x.snap = fills[o] BY <1>b
<1>4. h'[c] = x /\ \A d \in Handlers : d # c => h'[d] = h[d] BY <1>1 DEF Shape, TypeOK
<1>5. ASSUME Live(o), o \notin raced' PROVE Whole(o)'
  <2>1. Whole(o) BY <1>1, <1>2, <1>5 DEF WholeOK
  <2>2. Adding(c, o) BY <1>a, <1>1 DEF Adding
  <2>3. \A d \in Handlers : Adding(d, o) => d = c BY <2>1, <2>2 DEF Whole
  <2>4. Adding(c, o)' /\ \A d \in Handlers : Adding(d, o)' => d = c
    BY <1>3, <1>4, <2>3 DEF Adding
  <2>5. \A t \in seenTids[o] : t \in TailTids(fills[o])
    <3>1. \A d \in Handlers : ~(h[d].pc = "append" /\ h[d].obj = o) BY <1>1, <2>3 DEF Adding
    <3> QED BY <2>1, <3>1 DEF Whole
  <2> QED BY <1>1, <1>3, <1>4, <2>4, <2>5 DEF Whole
<1>6. \A q : q # o => (q \in raced' <=> q \in raced) BY <1>1
<1> QED BY <1>a, <1>1, <1>2, <1>3, <1>5, <1>6, WholeObject

\* The sum it assigns is over the fills the order still has.
LEMMA FillTotalWhole ==
  ASSUME Shape, WholeOK, NEW c \in Handlers, FillTotal(c)
  PROVE  WholeOK'
<1>a. PICK o : o = h[c].obj OBVIOUS
<1>b. PICK x : x = Stored(c, o) OBVIOUS
<1>1. /\ h[c].pc = "total" /\ h' = [h EXCEPT ![c] = x]
      /\ counted' = [counted EXCEPT ![o] = h[c].snap]
      /\ UNCHANGED <<nobj, okey, pending, fills, seenTids, raced>>
  BY <1>a, <1>b DEF FillTotal, Totals
<1>2. o \in 1 .. nobj /\ o \in Objs BY <1>a, <1>1, FillFacts DEF FillPcs
<1>3. x.pc \notin AddPcs BY <1>b DEF Stored, AddPcs
<1>4. h'[c] = x /\ \A d \in Handlers : d # c => h'[d] = h[d] BY <1>1 DEF Shape, TypeOK
<1>5. counted'[o] = h[c].snap /\ \A q \in Objs : q # o => counted'[q] = counted[q]
  BY <1>1, <1>2 DEF Shape, TypeOK
<1>6. ASSUME Live(o), o \notin raced' PROVE Whole(o)'
  <2>1. Whole(o) BY <1>1, <1>2, <1>6 DEF WholeOK
  <2>2. Adding(c, o) BY <1>a, <1>1 DEF Adding
  <2>3. h[c].snap = fills[o] /\ \A d \in Handlers : Adding(d, o) => d = c
    BY <1>1, <2>1, <2>2 DEF Whole
  <2>4. \A d \in Handlers : ~Adding(d, o)' BY <1>3, <1>4, <2>3 DEF Adding, AddPcs
  <2>5. \A t \in seenTids[o] : t \in TailTids(fills[o])
    <3>1. \A d \in Handlers : ~(h[d].pc = "append" /\ h[d].obj = o) BY <1>1, <2>3 DEF Adding
    <3> QED BY <2>1, <3>1 DEF Whole
  <2> QED BY <1>1, <1>5, <2>3, <2>4, <2>5 DEF Whole
<1>7. \A q : q # o => (q \in raced' <=> q \in raced) BY <1>1
<1> QED BY <1>a, <1>1, <1>2, <1>3, <1>5, <1>6, <1>7, WholeObject

\* A deletion makes no object pending.
LEMMA FlushDeleteWhole ==
  ASSUME Shape, WholeOK, NEW w \in Flushers, FlushDelete(w)
  PROVE  WholeOK'
<1>a. PICK k : k = f[w].req.key OBVIOUS
<1>1. /\ UNCHANGED <<nobj, okey, fills, counted, raced, seenTids, h>> /\ f[w].pc = "delete"
      /\ pending' = [pending EXCEPT ![k] = 0]
  BY <1>a DEF FlushDelete, objVars, fillVars
<1>b. f[w].pc # "idle" /\ f[w].pc # "get" BY <1>1
<1>2. k \in Keys BY <1>a, <1>b, FlushFacts
<1>3. pending'[k] = 0 /\ \A q \in Keys : q # k => pending'[q] = pending[q]
  BY <1>1, <1>2 DEF Shape, TypeOK
<1>4. \A q \in 1 .. nobj : okey[q] \in Keys /\ q # 0
  BY ConstantsAssumption DEF Shape, TypeOK, ObjectsOK
<1>5. \A q \in 1 .. nobj : Live(q)' => Live(q) BY <1>1, <1>3, <1>4 DEF Live
<1> QED BY <1>1, <1>5, WholeFrame

\* seenTids is cleared when the object is no longer pending.
LEMMA FlushClearWhole ==
  ASSUME Shape, TailOK, WholeOK, NEW w \in Flushers, FlushClear(w)
  PROVE  WholeOK'
<1>a. PICK o : o = f[w].obj OBVIOUS
<1>1. /\ UNCHANGED <<nobj, okey, pending, fills, counted, raced, h>>
      /\ seenTids' = [seenTids EXCEPT ![o] = {}] /\ f[w].pc = "clear"
  BY <1>a DEF FlushClear
<1>2. ~Live(o) BY <1>a, <1>1 DEF TailOK
<1>3. 1 .. nobj \subseteq Objs BY ConstantsAssumption DEF Shape, TypeOK
<1>4. \A q \in Objs : seenTids'[q] = IF q = o THEN {} ELSE seenTids[q]
  BY <1>1 DEF Shape, TypeOK
<1>5. \A q : Live(q)' <=> Live(q) BY <1>1 DEF Live
<1>6. \A q \in 1 .. nobj : Live(q)' => Live(q) /\ seenTids'[q] = seenTids[q]
  BY <1>2, <1>3, <1>4, <1>5
<1>7. \A q \in Objs : seenTids'[q] = seenTids[q] \/ seenTids'[q] = {} BY <1>4
<1> QED BY <1>1, <1>6, <1>7, WholeFrame

LEMMA HandlerWhole ==
  ASSUME Shape, TailOK, WholeOK, NEW c \in Handlers, HandlerStep(c)
  PROVE  WholeOK'
<1>1. CASE FillStore(c) BY <1>1, FillStoreWhole
<1>2. CASE FillTid(c) BY <1>2, FillTidWhole
<1>3. CASE FillAppend(c) BY <1>3, FillAppendWhole
<1>4. CASE FillCalc(c) BY <1>4, FillCalcWhole
<1>5. CASE FillTotal(c) BY <1>5, FillTotalWhole
<1>6. CASE FillSeen(c)
  <2>1. \E y \in {HIdle, Handling("status", h[c].msg, NoStatus, 0)} : h' = [h EXCEPT ![c] = y]
    BY <1>6 DEF FillSeen
  <2> QED BY <1>6, <2>1, WholeHandler DEF tailVars, FillSeen, orderVars, objVars, fillVars, AddPcs
<1>7. CASE FillCheck(c)
  <2>1. \E y \in {HIdle, Handling("tid", h[c].msg, h[c].st, h[c].obj)} : h' = [h EXCEPT ![c] = y]
    BY <1>7 DEF FillCheck
  <2> QED BY <1>7, <2>1, WholeHandler DEF tailVars, FillCheck, orderVars, objVars, fillVars, AddPcs
<1>8. CASE FillStatus(c)
  BY <1>8, WholeHandler DEF tailVars, FillStatus, orderVars, objVars, fillVars, AddPcs
<1>9. CASE FillTrigger(c)
  BY <1>9, WholeHandler DEF tailVars, FillTrigger, orderVars, objVars, fillVars, AddPcs
<1>10. \A S : Looping(c, S).pc \notin AddPcs BY DEF Looping, AddPcs
<1>11. CASE UpdateMark(c)
  BY <1>10, <1>11, WholeHandler DEF tailVars, UpdateMark, orderVars, objVars, fillVars, AddPcs
<1>12. CASE StatusRemove(c)
  BY <1>10, <1>12, WholeHandler DEF tailVars, StatusRemove, orderVars, objVars, fillVars, AddPcs
<1>13. CASE \E d \in Dirs : UpdateDir(c, d)
  BY <1>10, <1>13, WholeHandler DEF tailVars, UpdateDir, orderVars, objVars, fillVars, AddPcs
<1> QED BY <1>1, <1>2, <1>3, <1>4, <1>5, <1>6, <1>7, <1>8, <1>9, <1>11, <1>12, <1>13 DEF HandlerStep

LEMMA FlusherWhole ==
  ASSUME Shape, TailOK, WholeOK, NEW w \in Flushers,
         FlushSubmit(w) \/ FlusherStep(w) \/ FlushPublish(w) \/ FlushPublishFail(w)
  PROVE  WholeOK'
<1> USE DEF tailVars, orderVars, objVars, fillVars
<1>1. CASE FlushSubmit(w) \/ FlushGet(w) \/ FlushBuild(w)
  BY <1>1, WholeQuiet DEF FlushSubmit, FlushGet, FlushBuild
<1>2. CASE FlushPublish(w) \/ FlushPublishFail(w)
  BY <1>2, WholeQuiet DEF FlushPublish, FlushPublishFail
<1>3. CASE FlushSetSent(w) \/ FlushMark(w)
  BY <1>3, WholeQuiet DEF FlushSetSent, FlushMark
<1>4. CASE FlushDelete(w) BY <1>4, FlushDeleteWhole
<1>5. CASE FlushClear(w) BY <1>5, FlushClearWhole
<1> QED BY <1>1, <1>2, <1>3, <1>4, <1>5 DEF FlusherStep

LEMMA WholeStep == Shape /\ TailOK /\ WholeOK /\ [Next]_vars => WholeOK'
<1> SUFFICES ASSUME Shape, TailOK, WholeOK, [Next]_vars PROVE WholeOK' OBVIOUS
<1> USE DEF tailVars, orderVars, objVars, fillVars
<1>1. CASE UNCHANGED vars \/ ScanStart \/ Close
  BY <1>1, WholeQuiet DEF vars, ScanStart, Close
<1>2. \A m : Begin(m).pc \notin AddPcs BY DEF Begin, AddPcs
<1>3. CASE \E c \in Callers, m \in Msgs : Enqueue(c, m)
  BY <1>2, <1>3, WholeQuiet, WholeHandler DEF Enqueue, AddPcs, Handlers
<1>4. CASE WorkerReceive
  BY <1>2, <1>4, WholeHandler DEF WorkerReceive, AddPcs, Handlers
<1>5. CASE \E c \in Handlers : HandlerStep(c) BY <1>5, HandlerWhole
<1>6. CASE \E w \in Flushers :
             FlushSubmit(w) \/ FlusherStep(w) \/ FlushPublish(w) \/ FlushPublishFail(w)
  BY <1>6, FlusherWhole
<1>7. CASE \E k \in Keys : ScanKey(k) \/ WriteBack(k)
  BY <1>7, WholeQuiet DEF ScanKey, WriteBack
<1>8. CASE (\E r \in Orders : StatusExpire(r)) \/ (\E o \in Objs : Timeout(o))
  BY <1>8, WholeQuiet DEF StatusExpire, Timeout
<1> QED BY <1>1, <1>3, <1>4, <1>5, <1>6, <1>7, <1>8 DEF Next

\* A pending order that no two handlers were adding to at once, and that none is adding to
\* now, has every trade handleOrderFill accepted in its fills, and TotalSize and
\* WeightedAvgPx are over all of them: with any number of callbacks handling messages
\* beside the worker, a trade can only be lost, or left out of the totals, when two
\* handlers are between seenTids.LoadOrStore and the totals of the same order.
THEOREM TradesAreCounted == Spec => []TradesCounted
<1>1. ASSUME Shape, TailOK, WholeOK PROVE TradesCounted
  <2> SUFFICES ASSUME NEW k \in Keys, pending[k] # 0, pending[k] \notin raced,
                      \A c \in Handlers : ~Adding(c, pending[k])
               PROVE  /\ TailTids(fills[pending[k]]) = seenTids[pending[k]]
                      /\ counted[pending[k]] = fills[pending[k]]
    BY DEF TradesCounted
  <2>a. PICK o : o = pending[k] OBVIOUS
  <2>1. o \in 1 .. nobj /\ Live(o) BY <1>1, <2>a DEF Shape, ObjectsOK, Live
  <2>2. Whole(o) BY <1>1, <2>a, <2>1 DEF WholeOK
  <2>3. TailTids(fills[o]) \subseteq seenTids[o] BY <1>1, <2>1 DEF TailOK
  <2>4. \A t \in seenTids[o] : t \in TailTids(fills[o])
    BY <2>2, <2>a DEF Whole, Adding
  <2>5. counted[o] = fills[o] BY <2>2, <2>a DEF Whole
  <2>6. TailTids(fills[o]) = seenTids[o] BY <2>3, <2>4
  <2> QED BY <2>a, <2>5, <2>6
<1> QED BY <1>1, ShapeInvariant, TailOKInit, TailStep, WholeInit, WholeStep, PTL DEF Spec

-----------------------------------------------------------------------------
(* What holds while the queue has room, so that no callback handles a message  *)
(* itself and the worker is the only handler.                                  *)

WorkerOnly == \A c \in Callers : h[c].pc = "idle"

\* A queue as large as the number of messages always has room.
RoomOK == WorkerOnly /\ Len(queue) <= offered

\* The worker is idle for good once it has returned, and the flush processor outlives it.
CloseOK ==
    /\ phase \in {"closingProcessor", "closed"} => "worker" \in exited
    /\ "flushProcessor" \in exited => "worker" \in exited
    /\ "worker" \in exited => h[Worker].pc = "idle"
    /\ StopDrainsFlushes

\* A status that waits for an unsent order is in the hands of the worker: it has still to
\* visit the direction, or to remove the status, or it has just stored the order.
Stranded(r, d) ==
    tracker[r] # NoStatus /\ pending[<<r, d>>] # 0 /\ ~signalSent[pending[<<r, d>>]]
Rescues(x, r, d) ==
    /\ x.msg.order = r
    /\ \/ x.pc = "dirs" /\ d \in x.todo
       \/ x.pc = "remove"
       \/ x.pc = "trigger" /\ x.msg.dir = d /\ x.obj = pending[<<r, d>>]
StrandedOK ==
    /\ \A r \in Orders, d \in KnownDirs : Stranded(r, d) => Rescues(h[Worker], r, d)
    /\ h[Worker].pc = "store" /\ tracker[h[Worker].msg.order] # NoStatus => h[Worker].st # NoStatus

\* A handler that steps is not idle: it is the worker.
LEMMA HandlerIsWorker ==
  ASSUME Shape, WorkerOnly, NEW c \in Handlers, HandlerStep(c)
  PROVE  c = Worker /\ h[Worker].pc # "idle" /\ UNCHANGED ctlVars
<1>1. h[c].pc # "idle" /\ UNCHANGED ctlVars
  BY DEF HandlerStep, FillSeen, FillStatus, FillStore, FillCheck, FillTid, FillAppend, FillCalc,
         FillTotal, FillTrigger, UpdateMark, UpdateDir, StatusRemove
<1> QED BY <1>1 DEF WorkerOnly

LEMMA EnqueueElsewhere ==
  ASSUME Shape, NEW c \in Callers, NEW m \in Msgs, Enqueue(c, m)
  PROVE  h'[Worker] = h[Worker]
  BY ConstantsAssumption DEF Enqueue, Shape, TypeOK

-----------------------------------------------------------------------------
(* Close *)

LEMMA CloseQuiet ==
  ASSUME CloseOK, h'[Worker] = h[Worker], UNCHANGED <<phase, exited, okey, timedOut>>,
         "flushProcessor" \in exited => UNCHANGED flushChan
  PROVE  CloseOK'
  BY DEF CloseOK, StopDrainsFlushes

\* While the worker runs, the flush processor does too.
LEMMA CloseWorker ==
  ASSUME CloseOK, "worker" \notin exited, UNCHANGED <<phase, exited>>
  PROVE  CloseOK'
  BY DEF CloseOK, StopDrainsFlushes

LEMMA TimeoutClose ==
  ASSUME Shape, CloseOK, NEW o \in Objs, Timeout(o)
  PROVE  CloseOK'
<1>1. UNCHANGED <<h, phase, exited, okey, flushChan>> BY DEF Timeout
<1>2. \A p \in Objs : timedOut[p] => timedOut'[p]
  <2>1. timedOut \in [Objs -> BOOLEAN] /\ timedOut' = [timedOut EXCEPT ![o] = TRUE]
    BY DEF Timeout, Shape, TypeOK
  <2> QED BY <2>1, Zenon
<1> QED BY <1>1, <1>2 DEF CloseOK, StopDrainsFlushes

LEMMA ScanKeyClose ==
  ASSUME Shape, CloseOK, NEW k \in Keys, ScanKey(k)
  PROVE  CloseOK'
<1>1. UNCHANGED <<h, phase, exited, okey, timedOut>> BY DEF ScanKey
<1>2. CASE ~Expired(k) BY <1>1, <1>2, CloseQuiet DEF ScanKey
<1>3. CASE Expired(k)
  <2>1. PICK o \in Objs : okey[o] = k /\ timedOut[o]
    <3>1. pending[k] \in 1 .. nobj /\ okey[pending[k]] = k /\ timedOut[pending[k]]
      BY <1>3 DEF Expired, Shape, ObjectsOK
    <3>2. 1 .. nobj \subseteq Objs BY ConstantsAssumption DEF Shape, TypeOK
    <3> QED BY <3>1, <3>2
  <2>2. PICK q : q = [key |-> k, status |-> Filled] OBVIOUS
  <2>3. q.key = k /\ q \in Requests BY <2>2, ConstantsAssumption DEF Requests
  <2>4. flushChan \in Seq(Requests) BY DEF Shape, TypeOK
  <2>5. flushChan' = flushChan \/ flushChan' = Append(flushChan, q)
    BY <1>3, <2>2 DEF ScanKey, TriggerFlush
  <2>6. \A i \in 1 .. Len(flushChan') :
          flushChan'[i].key = k \/ (i \in 1 .. Len(flushChan) /\ flushChan'[i] = flushChan[i])
    BY <2>3, <2>4, <2>5
  <2>7. StopDrainsFlushes'
    <3> SUFFICES ASSUME "flushProcessor" \in exited, NEW i \in 1 .. Len(flushChan')
                 PROVE  \E p \in Objs : okey[p] = flushChan'[i].key /\ timedOut[p]
      BY <1>1 DEF StopDrainsFlushes
    <3>1. CASE flushChan'[i].key = k BY <2>1, <3>1
    <3>2. CASE i \in 1 .. Len(flushChan) /\ flushChan'[i] = flushChan[i]
      BY <3>2 DEF CloseOK, StopDrainsFlushes
    <3> QED BY <2>6, <3>1, <3>2
  <2> QED BY <1>1, <2>7 DEF CloseOK
<1> QED BY <1>2, <1>3

LEMMA CloseClose ==
  ASSUME Shape, CloseOK, Close
  PROVE  CloseOK'
<1>1. UNCHANGED <<h, okey, timedOut, flushChan>> BY DEF Close
<1>2. CASE \E g \in Goroutines : Leave(g) /\ g # "flushProcessor" /\ (g = "worker" => h[Worker].pc = "idle")
  BY <1>1, <1>2 DEF Leave, CloseOK, StopDrainsFlushes, Goroutines
<1>3. CASE phase = "closingProcessor" /\ Drained /\ Leave("flushProcessor")
  <2>1. StopDrainsFlushes' BY <1>1, <1>3 DEF Drained, StopDrainsFlushes
  <2> QED BY <1>1, <1>3, <2>1 DEF Leave, CloseOK
<1>4. CASE Advance("running", "closingQueue") BY <1>1, <1>4 DEF Advance, CloseOK, StopDrainsFlushes
<1>5. CASE "worker" \in exited /\ Advance("closingQueue", "closingProcessor")
  BY <1>1, <1>5 DEF Advance, CloseOK, StopDrainsFlushes
<1>6. CASE Advance("closingProcessor", "closed") BY <1>1, <1>6 DEF Advance, CloseOK, StopDrainsFlushes
<1> QED BY <1>2, <1>3, <1>4, <1>5, <1>6 DEF Close, Goroutines

LEMMA CloseInit == Init => CloseOK
  BY DEF Init, CloseOK, StopDrainsFlushes

LEMMA CloseStep == Shape /\ WorkerOnly /\ CloseOK /\ [Next]_vars => CloseOK'
<1> SUFFICES ASSUME Shape, WorkerOnly, CloseOK, [Next]_vars PROVE CloseOK' OBVIOUS
<1>1. CASE UNCHANGED vars \/ ScanStart
  BY <1>1, CloseQuiet DEF vars, ScanStart
<1>2. CASE \E c \in Callers, m \in Msgs : Enqueue(c, m)
  BY <1>2, EnqueueElsewhere, CloseQuiet DEF Enqueue
<1>3. CASE WorkerReceive BY <1>3, CloseWorker DEF WorkerReceive
<1>4. CASE \E c \in Handlers : HandlerStep(c)
  <2>1. "worker" \notin exited /\ UNCHANGED <<phase, exited>>
    BY <1>4, HandlerIsWorker DEF CloseOK
  <2> QED BY <2>1, CloseWorker
<1>5. CASE \E w \in Flushers :
             FlushSubmit(w) \/ FlusherStep(w) \/ FlushPublish(w) \/ FlushPublishFail(w)
  <2>1. UNCHANGED <<h, phase, exited, okey, timedOut>> /\ ("flushProcessor" \in exited => UNCHANGED flushChan)
    BY <1>5 DEF FlushSubmit, FlusherStep, FlushGet, FlushBuild, FlushPublish, FlushPublishFail,
                FlushSetSent, FlushMark, FlushDelete, FlushClear
  <2> QED BY <2>1, CloseQuiet
<1>6. CASE \E o \in Objs : Timeout(o) BY <1>6, TimeoutClose
<1>7. CASE \E k \in Keys : ScanKey(k) BY <1>7, ScanKeyClose
<1>8. CASE \E k \in Keys : WriteBack(k) BY <1>8, CloseQuiet DEF WriteBack
<1>9. CASE \E r \in Orders : StatusExpire(r) BY <1>9, CloseQuiet DEF StatusExpire
<1>10. CASE Close BY <1>10, CloseClose
<1> QED BY <1>1, <1>2, <1>3, <1>4, <1>5, <1>6, <1>7, <1>8, <1>9, <1>10 DEF Next

\* As long as the message queue has room: Close stops the queue before the processor, and
\* the flush processor drains its channel, so that only requests of the timeout scanner
\* can be abandoned there.
THEOREM StopAbandonsOnlyScans == Spec /\ []WorkerOnly => []StopDrainsFlushes
<1>1. CloseOK => StopDrainsFlushes BY DEF CloseOK
<1> QED BY <1>1, ShapeInvariant, CloseInit, CloseStep, PTL DEF Spec

-----------------------------------------------------------------------------
(* Statuses and orders meet *)

\* A step that leaves the worker alone strands no status.
LEMMA StrandedElsewhere ==
  ASSUME StrandedOK, h'[Worker] = h[Worker],
         \A r \in Orders, d \in KnownDirs :
            Stranded(r, d)' => Stranded(r, d) /\ pending'[<<r, d>>] = pending[<<r, d>>],
         \A r : tracker'[r] # NoStatus => tracker[r] # NoStatus
  PROVE  StrandedOK'
  BY DEF StrandedOK, Rescues

LEMMA StrandedQuiet ==
  ASSUME StrandedOK, h'[Worker] = h[Worker], UNCHANGED <<tracker, pending, signalSent>>
  PROVE  StrandedOK'
  BY StrandedElsewhere DEF Stranded

\* A worker in the middle of a fill finds no status stranded.
LEMMA NoneStranded ==
  ASSUME StrandedOK, h[Worker].pc \notin {"dirs", "remove", "trigger"}
  PROVE  \A r \in Orders, d \in KnownDirs : ~Stranded(r, d)
  BY DEF StrandedOK, Rescues

LEMMA WorkerMoves ==
  ASSUME Shape, NEW x, h' = [h EXCEPT ![Worker] = x]
  PROVE  h'[Worker] = x
  BY DEF Shape, TypeOK

LEMMA WorkerOnFill ==
  ASSUME Shape, StrandedOK, h[Worker].pc \notin {"dirs", "remove", "trigger"},
         NEW x, h' = [h EXCEPT ![Worker] = x], x.pc # "store",
         UNCHANGED <<tracker, pending, signalSent>>
  PROVE  StrandedOK'
<1>1. \A r \in Orders, d \in KnownDirs : ~Stranded(r, d)' BY NoneStranded DEF Stranded
<1> QED BY <1>1, WorkerMoves DEF StrandedOK

LEMMA WorkerReceiveStranded ==
  ASSUME Shape, StrandedOK, WorkerReceive
  PROVE  StrandedOK'
<1>1. Begin(Head(queue)).pc # "store" BY DEF Begin
<1> QED BY <1>1, WorkerOnFill DEF WorkerReceive

LEMMA FillStatusStranded ==
  ASSUME Shape, StrandedOK, FillStatus(Worker)
  PROVE  StrandedOK'
<1>1. h'[Worker] = Handling("store", h[Worker].msg, tracker[h[Worker].msg.order], 0)
  BY WorkerMoves DEF FillStatus, GetStatus
<1>2. \A r \in Orders, d \in KnownDirs : ~Stranded(r, d)'
  BY NoneStranded DEF FillStatus, Stranded
<1> QED BY <1>1, <1>2 DEF StrandedOK, FillStatus

\* The order is new: if a status waits for it, the worker has read that status.
LEMMA FillStoreStranded ==
  ASSUME Shape, StrandedOK, FillStore(Worker)
  PROVE  StrandedOK'
<1>1. Worker \in Handlers /\ h[Worker].pc = "store" BY DEF FillStore
<1>2. CASE pending[KeyOf(h[Worker].msg)] # 0
  <2>1. PICK x : x = Handling("check", h[Worker].msg, h[Worker].st, pending[KeyOf(h[Worker].msg)])
    OBVIOUS
  <2>2. h' = [h EXCEPT ![Worker] = x] /\ UNCHANGED <<tracker, pending, signalSent>>
    BY <1>2, <2>1 DEF FillStore
  <2>3. x.pc # "store" BY <2>1
  <2> QED BY <1>1, <2>2, <2>3, WorkerOnFill
<1>3. CASE pending[KeyOf(h[Worker].msg)] = 0
  <2>1. PICK k : k = KeyOf(h[Worker].msg) OBVIOUS
  <2>2. PICK o : o = nobj + 1 OBVIOUS
  <2>3. /\ pending' = [pending EXCEPT ![k] = o] /\ h' = [h EXCEPT ![Worker] = Stored(Worker, o)]
        /\ UNCHANGED <<tracker, signalSent>>
    BY <1>3, <2>1, <2>2 DEF FillStore
  <2>4. k \in Keys /\ k = <<h[Worker].msg.order, h[Worker].msg.dir>>
    BY <1>1, <2>1, FillFacts DEF FillPcs, KeyOf
  <2>5. pending'[k] = o /\ \A q \in Keys : q # k => pending'[q] = pending[q]
    BY <2>3, <2>4 DEF Shape, TypeOK
  <2>6. h'[Worker] = Stored(Worker, o) BY <2>3, WorkerMoves
  <2>7. ASSUME NEW r \in Orders, NEW d \in KnownDirs, Stranded(r, d)'
        PROVE  Rescues(h[Worker], r, d)'
    <3>1. <<r, d>> \in Keys BY ConstantsAssumption
    <3>2. <<r, d>> = k
      <4>1. ~Stranded(r, d) BY <1>1, NoneStranded
      <4> QED BY <2>3, <2>5, <2>7, <3>1, <4>1 DEF Stranded
    <3>3. r = h[Worker].msg.order /\ d = h[Worker].msg.dir BY <2>4, <3>2
    <3>4. h[Worker].st # NoStatus
      BY <1>1, <2>3, <2>7, <3>3 DEF Stranded, StrandedOK
    <3>5. h'[Worker] = Handling("trigger", h[Worker].msg, h[Worker].st, o)
      BY <2>6, <3>4 DEF Stored
    <3> QED BY <2>5, <3>2, <3>3, <3>5 DEF Rescues
  <2>8. h'[Worker].pc # "store" BY <2>6 DEF Stored
  <2> QED BY <2>7, <2>8 DEF StrandedOK
<1> QED BY <1>2, <1>3

LEMMA FillTriggerStranded ==
  ASSUME Shape, StrandedOK, FillTrigger(Worker)
  PROVE  StrandedOK'
<1>1. h[Worker].pc = "trigger" /\ UNCHANGED <<tracker, pending, signalSent>> BY DEF FillTrigger
<1>2. CASE signalSent[h[Worker].obj]
  <2>1. \A r \in Orders, d \in KnownDirs : ~Stranded(r, d)
    BY <1>1, <1>2 DEF StrandedOK, Rescues, Stranded
  <2>2. h'[Worker] = HIdle BY <1>2, WorkerMoves DEF FillTrigger
  <2> QED BY <1>1, <2>1, <2>2 DEF StrandedOK, Stranded
<1>3. CASE ~signalSent[h[Worker].obj]
  <2>1. h'[Worker] = Visiting("remove", h[Worker].msg, h[Worker].st, {})
    BY <1>3, WorkerMoves DEF FillTrigger
  <2> QED BY <1>1, <2>1 DEF StrandedOK, Stranded, Rescues
<1> QED BY <1>2, <1>3

\* orderUpdates carry no direction (handleWsOrderUpdates leaves it empty): every
\* direction that buildSignal knows is visited.
LEMMA UpdateMarkStranded ==
  ASSUME Shape, StrandedOK, \A m \in Msgs : m.type = "update" => m.dir = NoDir, UpdateMark(Worker)
  PROVE  StrandedOK'
<1>1. h[Worker].pc = "mark" /\ UNCHANGED <<pending, signalSent>> /\ Worker \in Handlers
  BY DEF UpdateMark
<1>2. /\ h[Worker].msg \in UpdateMsgs /\ h[Worker].msg \in Msgs \cup {NoMsg}
      /\ h[Worker].msg.order \in Orders
  BY <1>1, UpdateFacts
<1>3. DirsOf(h[Worker].msg) = KnownDirs
  <2>1. h[Worker].msg # NoMsg
    BY <1>2 DEF UpdateMsgs, NoMsg
  <2> QED BY <1>2, <2>1 DEF DirsOf, UpdateMsgs
<1>4. h'[Worker] = Looping(Worker, KnownDirs) BY <1>3, WorkerMoves DEF UpdateMark
<1>5. \A r \in Orders : r # h[Worker].msg.order => tracker'[r] = tracker[r]
  BY DEF UpdateMark, Shape, TypeOK
<1>6. ASSUME NEW r \in Orders, NEW d \in KnownDirs, Stranded(r, d)'
      PROVE  Rescues(h[Worker], r, d)'
  <2>1. r = h[Worker].msg.order
    <3>1. ~Stranded(r, d) BY <1>1, NoneStranded
    <3> QED BY <1>1, <1>5, <1>6, <3>1 DEF Stranded
  <2>2. h'[Worker] = Visiting("dirs", h[Worker].msg, h[Worker].st, KnownDirs)
    BY <1>4 DEF Looping
  <2> QED BY <2>1, <2>2 DEF Rescues
<1>7. h'[Worker].pc # "store" BY <1>4 DEF Looping
<1> QED BY <1>6, <1>7 DEF StrandedOK

LEMMA UpdateDirStranded ==
  ASSUME Shape, StrandedOK, NEW d \in Dirs, UpdateDir(Worker, d)
  PROVE  StrandedOK'
<1>1. h[Worker].pc = "dirs" /\ UNCHANGED <<tracker, pending, signalSent>> BY DEF UpdateDir
<1>2. CASE pending[<<h[Worker].msg.order, d>>] = 0
  <2>1. h'[Worker] = Looping(Worker, h[Worker].todo \ {d}) BY <1>2, WorkerMoves DEF UpdateDir
  <2>2. ASSUME NEW r \in Orders, NEW e \in KnownDirs, Stranded(r, e)'
        PROVE  Rescues(h[Worker], r, e)'
    <3>1. Stranded(r, e) BY <1>1, <2>2 DEF Stranded
    <3>2. h[Worker].msg.order = r /\ e \in h[Worker].todo BY <1>1, <3>1 DEF StrandedOK, Rescues
    <3>3. e # d BY <1>2, <3>1, <3>2 DEF Stranded
    <3>4. h'[Worker] = Visiting("dirs", h[Worker].msg, h[Worker].st, h[Worker].todo \ {d})
      BY <2>1, <3>2, <3>3 DEF Looping
    <3> QED BY <3>2, <3>3, <3>4 DEF Rescues
  <2>3. h'[Worker].pc # "store" BY <2>1 DEF Looping
  <2> QED BY <2>2, <2>3 DEF StrandedOK
<1>3. CASE pending[<<h[Worker].msg.order, d>>] # 0
  <2>1. h'[Worker] = Visiting("remove", h[Worker].msg, h[Worker].st, h[Worker].todo \ {d})
    BY <1>3, WorkerMoves DEF UpdateDir
  <2> QED BY <1>1, <2>1 DEF StrandedOK, Stranded, Rescues
<1> QED BY <1>2, <1>3

LEMMA StatusRemoveStranded ==
  ASSUME Shape, StrandedOK, StatusRemove(Worker)
  PROVE  StrandedOK'
<1>1. h[Worker].pc = "remove" /\ UNCHANGED <<pending, signalSent>> BY DEF StatusRemove
<1>2. \A r \in Orders : IF r = h[Worker].msg.order THEN tracker'[r] = NoStatus
                        ELSE tracker'[r] = tracker[r]
  BY DEF StatusRemove, Shape, TypeOK
<1>3. \A r \in Orders, d \in KnownDirs : ~Stranded(r, d)'
  BY <1>1, <1>2 DEF StrandedOK, Rescues, Stranded
<1>4. h'[Worker].pc # "store" BY WorkerMoves DEF StatusRemove, Looping
<1> QED BY <1>3, <1>4 DEF StrandedOK

LEMMA WorkerStranded ==
  ASSUME Shape, StrandedOK, \A m \in Msgs : m.type = "update" => m.dir = NoDir, HandlerStep(Worker)
  PROVE  StrandedOK'
<1>1. CASE FillSeen(Worker) \/ FillCheck(Worker) \/ FillAppend(Worker) \/ FillCalc(Worker)
  BY <1>1, WorkerOnFill DEF FillSeen, FillCheck, FillAppend, FillCalc
<1>2. CASE FillTid(Worker)
  BY <1>2, WorkerOnFill DEF FillTid
<1>3. CASE FillTotal(Worker)
  <2>1. Stored(Worker, h[Worker].obj).pc # "store" BY DEF Stored
  <2> QED BY <1>3, <2>1, WorkerOnFill DEF FillTotal
<1>4. CASE FillStatus(Worker) BY <1>4, FillStatusStranded
<1>5. CASE FillStore(Worker) BY <1>5, FillStoreStranded
<1>6. CASE FillTrigger(Worker) BY <1>6, FillTriggerStranded
<1>7. CASE UpdateMark(Worker) BY <1>7, UpdateMarkStranded
<1>8. CASE \E d \in Dirs : UpdateDir(Worker, d) BY <1>8, UpdateDirStranded
<1>9. CASE StatusRemove(Worker) BY <1>9, StatusRemoveStranded
<1> QED BY <1>1, <1>2, <1>3, <1>4, <1>5, <1>6, <1>7, <1>8, <1>9 DEF HandlerStep

LEMMA FlusherStranded ==
  ASSUME Shape, StrandedOK, NEW w \in Flushers,
         FlushSubmit(w) \/ FlusherStep(w) \/ FlushPublish(w) \/ FlushPublishFail(w)
  PROVE  StrandedOK'
<1>1. CASE FlushSubmit(w) \/ FlushGet(w) \/ FlushBuild(w) \/ FlushPublish(w) \/ FlushPublishFail(w)
  BY <1>1, StrandedQuiet DEF FlushSubmit, FlushGet, FlushBuild, FlushPublish, FlushPublishFail
<1>2. CASE FlushMark(w) \/ FlushClear(w)
  BY <1>2, StrandedQuiet DEF FlushMark, FlushClear
<1>3. CASE FlushSetSent(w)
  <2>1. UNCHANGED <<h, tracker, pending>> BY <1>3 DEF FlushSetSent
  <2>2. \A o \in Objs : signalSent[o] => signalSent'[o]
    <3>1. signalSent \in [Objs -> BOOLEAN] /\ signalSent' = [signalSent EXCEPT ![f[w].obj] = TRUE]
      BY <1>3 DEF FlushSetSent, Shape, TypeOK
    <3> QED BY <3>1, Zenon
  <2>3. \A r \in Orders, d \in KnownDirs : pending[<<r, d>>] # 0 => pending[<<r, d>>] \in Objs
    BY ConstantsAssumption DEF Shape, TypeOK
  <2>4. \A r \in Orders, d \in KnownDirs : Stranded(r, d)' => Stranded(r, d)
    BY <2>1, <2>2, <2>3 DEF Stranded
  <2> QED BY <2>1, <2>4, StrandedElsewhere
<1>4. CASE FlushDelete(w)
  <2>1. UNCHANGED <<h, tracker, signalSent>> /\ pending' = [pending EXCEPT ![f[w].req.key] = 0]
    BY <1>4 DEF FlushDelete
  <2>2. \A k \in Keys : pending'[k] = 0 \/ pending'[k] = pending[k] BY <2>1 DEF Shape, TypeOK
  <2>3. \A r \in Orders, d \in KnownDirs : <<r, d>> \in Keys BY ConstantsAssumption
  <2>4. \A r \in Orders, d \in KnownDirs :
          Stranded(r, d)' => Stranded(r, d) /\ pending'[<<r, d>>] = pending[<<r, d>>]
    BY <2>1, <2>2, <2>3 DEF Stranded
  <2> QED BY <2>1, <2>4, StrandedElsewhere
<1> QED BY <1>1, <1>2, <1>3, <1>4 DEF FlusherStep

LEMMA StatusExpireStranded ==
  ASSUME Shape, StrandedOK, NEW r \in Orders, StatusExpire(r)
  PROVE  StrandedOK'
<1>1. UNCHANGED <<h, pending, signalSent>> /\ tracker' = [tracker EXCEPT ![r] = NoStatus]
  BY DEF StatusExpire
<1>2. \A q : tracker'[q] # NoStatus => tracker[q] # NoStatus BY <1>1 DEF Shape, TypeOK
<1>3. \A q \in Orders, d \in KnownDirs : Stranded(q, d)' => Stranded(q, d)
  BY <1>1, <1>2 DEF Stranded
<1> QED BY <1>1, <1>2, <1>3, StrandedElsewhere

LEMMA StrandedInit == Init => StrandedOK
  BY ConstantsAssumption DEF Init, StrandedOK, Stranded

LEMMA StrandedStep ==
  ASSUME \A m \in Msgs : m.type = "update" => m.dir = NoDir
  PROVE  Shape /\ WorkerOnly /\ StrandedOK /\ [Next]_vars => StrandedOK'
<1> SUFFICES ASSUME Shape, WorkerOnly, StrandedOK, [Next]_vars PROVE StrandedOK' OBVIOUS
<1>1. CASE UNCHANGED vars \/ ScanStart \/ Close
  BY <1>1, StrandedQuiet DEF vars, ScanStart, Close
<1>2. CASE \E c \in Callers, m \in Msgs : Enqueue(c, m)
  BY <1>2, EnqueueElsewhere, StrandedQuiet DEF Enqueue
<1>3. CASE WorkerReceive BY <1>3, WorkerReceiveStranded
<1>4. CASE \E c \in Handlers : HandlerStep(c) BY <1>4, HandlerIsWorker, WorkerStranded
<1>5. CASE \E w \in Flushers :
             FlushSubmit(w) \/ FlusherStep(w) \/ FlushPublish(w) \/ FlushPublishFail(w)
  BY <1>5, FlusherStranded
<1>6. CASE \E o \in Objs : Timeout(o) BY <1>6, StrandedQuiet DEF Timeout
<1>7. CASE \E k \in Keys : ScanKey(k) \/ WriteBack(k)
  BY <1>7, StrandedQuiet DEF ScanKey, WriteBack
<1>8. CASE \E r \in Orders : StatusExpire(r) BY <1>8, StatusExpireStranded
<1> QED BY <1>1, <1>2, <1>3, <1>4, <1>5, <1>6, <1>7, <1>8 DEF Next

\* As long as the message queue has room, and for order updates as handleWsOrderUpdates
\* sends them: between two messages no terminal status is left in the tracker beside an
\* unsent order it applies to.  Whether the order was flushed is another matter: a trigger
\* that was dropped, or was for the other direction, took the status with it.
THEOREM StatusesAreNotStranded ==
  ASSUME \A m \in Msgs : m.type = "update" => m.dir = NoDir
  PROVE  Spec /\ []WorkerOnly => []StatusNotStranded
<1>1. StrandedOK => StatusNotStranded
  BY DEF StrandedOK, Stranded, Rescues, StatusNotStranded
<1> QED BY <1>1, ShapeInvariant, StrandedInit, StrandedStep, PTL DEF Spec

-----------------------------------------------------------------------------
(* When the queue has room *)

LEMMA RoomStep ==
  ASSUME MaxMsgs <= QueueCap
  PROVE  Shape /\ RoomOK /\ [Next]_vars => RoomOK'
<1> SUFFICES ASSUME Shape, RoomOK, [Next]_vars PROVE RoomOK' OBVIOUS
<1>1. /\ queue \in Seq(Msgs) /\ Len(queue) \in Nat /\ offered \in Nat /\ MaxMsgs \in Nat
      /\ QueueCap \in Nat /\ h \in [Handlers -> HandlerState]
  BY ConstantsAssumption DEF Shape, TypeOK
<1>2. CASE \E c \in Callers, m \in Msgs : Enqueue(c, m)
  <2>1. PICK c \in Callers, m \in Msgs : Enqueue(c, m) BY <1>2
  <2>2. Len(queue) < QueueCap BY <1>1, <2>1 DEF RoomOK, Enqueue
  <2>3. queue' = Append(queue, m) /\ offered' = offered + 1 /\ UNCHANGED h
    BY <2>1, <2>2 DEF Enqueue
  <2> QED BY <1>1, <2>3 DEF RoomOK, WorkerOnly
<1>3. CASE WorkerReceive
  <2>1. /\ queue' = Tail(queue) /\ queue # <<>> /\ UNCHANGED offered
        /\ h' = [h EXCEPT ![Worker] = Begin(Head(queue))]
    BY <1>3 DEF WorkerReceive
  <2>2. Len(queue') <= Len(queue) /\ Len(queue') \in Nat BY <1>1, <2>1
  <2>3. \A c \in Callers : h'[c] = h[c] BY <1>1, <2>1, ConstantsAssumption
  <2> QED BY <1>1, <2>1, <2>2, <2>3 DEF RoomOK, WorkerOnly
<1>4. CASE \E c \in Handlers : HandlerStep(c)
  <2>1. HandlerStep(Worker) BY <1>4, HandlerIsWorker DEF RoomOK
  <2>2. UNCHANGED <<queue, offered>> /\ \E x : h' = [h EXCEPT ![Worker] = x]
    BY <2>1 DEF HandlerStep, FillSeen, FillStatus, FillStore, FillCheck, FillTid, FillAppend,
                FillCalc, FillTotal, FillTrigger, UpdateMark, UpdateDir, StatusRemove
  <2>3. \A c \in Callers : h'[c] = h[c] BY <1>1, <2>2, ConstantsAssumption
  <2> QED BY <2>2, <2>3 DEF RoomOK, WorkerOnly
<1>5. CASE UNCHANGED <<queue, offered, h>> BY <1>5 DEF RoomOK, WorkerOnly
<1>6. CASE \E w \in Flushers :
             FlushSubmit(w) \/ FlusherStep(w) \/ FlushPublish(w) \/ FlushPublishFail(w)
  <2>1. UNCHANGED <<queue, offered, h>>
    BY <1>6 DEF FlushSubmit, FlusherStep, FlushGet, FlushBuild, FlushPublish, FlushPublishFail,
                FlushSetSent, FlushMark, FlushDelete, FlushClear
  <2> QED BY <1>5, <2>1
<1>7. CASE \/ UNCHANGED vars \/ ScanStart \/ Close \/ (\E o \in Objs : Timeout(o))
           \/ (\E k \in Keys : ScanKey(k) \/ WriteBack(k)) \/ (\E r \in Orders : StatusExpire(r))
  BY <1>5, <1>7 DEF vars, ScanStart, Close, Timeout, ScanKey, WriteBack, StatusExpire
<1> QED BY <1>2, <1>3, <1>4, <1>6, <1>7 DEF Next

\* A queue that can hold every message delivered never overflows: MessageQueue.Enqueue
\* never falls back to handling a message in the calling goroutine.
THEOREM RoomyQueueHasOneHandler == ASSUME MaxMsgs <= QueueCap PROVE Spec => []WorkerOnly
<1>1. Init => RoomOK BY ConstantsAssumption DEF Init, RoomOK, WorkerOnly
<1>2. RoomOK => WorkerOnly BY DEF RoomOK
<1> QED BY <1>1, <1>2, ShapeInvariant, RoomStep, PTL DEF Spec
=============================================================================
