------------------------ MODULE SignalPipelineProofs ------------------------
(* Proofs about SignalPipeline, for any orders, any windows with               *)
(* MaxAge <= TTL <= Keep, and any bounds on time, fills and signals.           *)
EXTENDS SignalPipeline, TLAPS

USE SignalPipelineAssumption

\* Time and the list of signals only grow, and the list keeps its entries.
Grows ==
    /\ now \in Nat /\ now' \in Nat /\ now <= now'
    /\ signals \in Seq(Signals) /\ Len(signals) \in Nat /\ Len(signals') \in Nat
    /\ Len(signals) <= Len(signals')

\* What was a well-formed aggregation stays one.
LEMMA AggGrows ==
  ASSUME Grows PROVE \A a : AggOK(a) => AggOK(a)'
<1> SUFFICES ASSUME NEW a, AggOK(a) PROVE AggOK(a)' OBVIOUS
<1>1. Times \subseteq Times' /\ 0 .. Len(signals) \subseteq (0 .. Len(signals))' BY DEF Grows, Times
<1>2. Aggs \subseteq Aggs' BY <1>1 DEF Aggs
<1> QED BY <1>2 DEF AggOK

LEMMA SignalGrows ==
  ASSUME Grows PROVE Signals \subseteq Signals'
<1>1. Times \subseteq Times' BY DEF Grows, Times
<1> QED BY <1>1 DEF Signals

LEMMA TypeInit == Init => TypeOK
  BY DEF Init, TypeOK, AggMap, AggOK, Times, NotMarked, IsSeen

LEMMA TypeGrows ==
  ASSUME TypeOK, [Next]_vars PROVE Grows
<1>1. now \in Nat /\ signals \in Seq(Signals) /\ Len(signals) \in Nat BY DEF TypeOK
<1>2. CASE UNCHANGED vars BY <1>1, <1>2 DEF Grows, vars
<1>3. CASE Tick BY <1>1, <1>3 DEF Grows, Tick
<1>4. CASE \E o \in Orders : FlushOrder(o) BY <1>1, <1>4 DEF Grows, FlushOrder
<1>5. CASE UNCHANGED <<now, signals>> BY <1>1, <1>5 DEF Grows
<1> QED BY <1>2, <1>3, <1>4, <1>5 DEF Next, Clean, Start, LoadFromDB, LoadFails, Crash, Trade, BatchUpsert, RowLost, HandleFill

\* The step leaves an entry of pending, buffer or rows alone, deletes it, moves
\* it from one map to another or makes it a well-formed aggregation.
Changes(f) ==
    /\ f' = [d \in Orders |-> f'[d]]
    /\ \A d \in Orders : f'[d] \in {f[d], pending[d], buffer[d], rows[d], NoAgg} \/ AggOK(f[d])'

LEMMA MapStep ==
  ASSUME Grows, TypeOK, Changes(pending), Changes(buffer), Changes(rows)
  PROVE  (\A f \in {pending, buffer, rows} : f \in [Orders -> Aggs \cup {NoAgg}] /\ AggMap(f))'
<1>1. \A d \in Orders :
        /\ pending[d] = NoAgg \/ AggOK(pending[d])
        /\ buffer[d] = NoAgg \/ AggOK(buffer[d])
        /\ rows[d] = NoAgg \/ AggOK(rows[d])
  BY DEF TypeOK, AggMap
<1>2. \A a : AggOK(a) => AggOK(a)' BY AggGrows
<1>3. \A d \in Orders :
        /\ (pending[d] = NoAgg \/ AggOK(pending[d]))'
        /\ (buffer[d] = NoAgg \/ AggOK(buffer[d]))'
        /\ (rows[d] = NoAgg \/ AggOK(rows[d]))'
  BY <1>1, <1>2, Zenon DEF Changes
<1>4. (AggMap(pending) /\ AggMap(buffer) /\ AggMap(rows))' BY <1>3 DEF AggMap
<1>5. \A a : AggOK(a)' => a \in Aggs' BY DEF AggOK
<1>6. /\ pending' \in [Orders -> Aggs' \cup {NoAgg}]
      /\ buffer' \in [Orders -> Aggs' \cup {NoAgg}]
      /\ rows' \in [Orders -> Aggs' \cup {NoAgg}]
  BY <1>3, <1>5 DEF Changes
<1> QED BY <1>4, <1>6

\* The rest of the types, for a step that keeps the clock and the signals.
LEMMA TypeFrame ==
  ASSUME TypeOK, Grows, UNCHANGED <<now, signals>>, trades' \in [Orders -> SUBSET Times],
         process' \in {"down", "starting", "running"}, dedup' \in [Orders -> Times \cup {NotMarked}],
         written' \subseteq 1 .. Len(signals), lost' \subseteq 1 .. Len(signals),
         Changes(pending), Changes(buffer), Changes(rows),
         \A o \in Orders : pending'[o] # NoAgg => pending'[o].sig = 0 /\ ~IsSeen(o)',
         process' # "running" =>
            \A o \in Orders : pending'[o] = NoAgg /\ buffer'[o] = NoAgg /\ dedup'[o] = NotMarked
  PROVE  TypeOK'
<1>1. Times' = Times /\ Signals' = Signals BY DEF Times, Signals
<1>2. (\A f \in {pending, buffer, rows} : f \in [Orders -> Aggs \cup {NoAgg}] /\ AggMap(f))'
  BY MapStep
<1> QED BY <1>1, <1>2 DEF TypeOK

LEMMA TypeStep == TypeOK /\ [Next]_vars => TypeOK'
<1> SUFFICES ASSUME TypeOK, [Next]_vars PROVE TypeOK' OBVIOUS
<1> USE DEF NotMarked
<1>g. Grows BY TypeGrows
<1>m. /\ UNCHANGED pending => Changes(pending)
      /\ UNCHANGED buffer => Changes(buffer)
      /\ UNCHANGED rows => Changes(rows)
      /\ pending \in [Orders -> Aggs \cup {NoAgg}] /\ buffer \in [Orders -> Aggs \cup {NoAgg}]
      /\ rows \in [Orders -> Aggs \cup {NoAgg}]
  BY DEF TypeOK, Changes
<1>t. /\ now \in Nat /\ now \in Times /\ trades \in [Orders -> SUBSET Times]
      /\ dedup \in [Orders -> Times \cup {-1}]
      /\ Len(signals) \in Nat /\ written \subseteq 1 .. Len(signals) /\ lost \subseteq 1 .. Len(signals)
  BY DEF TypeOK, Times
<1>1. CASE UNCHANGED vars
  BY <1>1, <1>g, <1>m, <1>t, TypeFrame DEF vars, TypeOK, IsSeen
<1>2. CASE Tick
  <2>1. (\A f \in {pending, buffer, rows} : f \in [Orders -> Aggs \cup {NoAgg}] /\ AggMap(f))'
    BY <1>2, <1>g, <1>m, MapStep DEF Tick
  <2>2. signals' \in Seq(Signals') BY <1>2, <1>g, SignalGrows DEF Tick, TypeOK
  <2>3. Times \subseteq Times' /\ now' \in 0 .. MaxTime BY <1>2, <1>t DEF Times, Tick
  <2>4. \A o \in Orders : pending'[o] # NoAgg => pending'[o].sig = 0 /\ ~IsSeen(o)'
    BY <1>2, <1>t DEF Tick, TypeOK, IsSeen, Times
  <2> QED BY <1>2, <1>t, <2>1, <2>2, <2>3, <2>4 DEF Tick, TypeOK
<1>3. CASE Clean
  <2>1. Changes(rows) BY <1>3, <1>m DEF Clean, Changes
  <2> QED BY <1>3, <1>g, <1>m, <1>t, <2>1, TypeFrame DEF Clean, TypeOK, IsSeen
<1>4. CASE Start
  BY <1>4, <1>g, <1>m, <1>t, TypeFrame DEF Start, TypeOK, IsSeen
<1>5. CASE LoadFromDB
  <2>1. dedup' \in [Orders -> Times \cup {-1}] BY <1>5, <1>t DEF LoadFromDB
  <2>2. \A o \in Orders : pending'[o] = NoAgg BY <1>5 DEF LoadFromDB, TypeOK
  <2> QED BY <1>5, <1>g, <1>m, <1>t, <2>1, <2>2, TypeFrame DEF LoadFromDB
<1>6. CASE LoadFails
  BY <1>6, <1>g, <1>m, <1>t, TypeFrame DEF LoadFails, TypeOK, IsSeen
<1>7. CASE Crash
  <2>1. Changes(pending) /\ Changes(buffer) BY <1>7 DEF Crash, Changes
  <2>2. dedup' \in [Orders -> Times \cup {-1}] BY <1>7 DEF Crash
  <2> QED BY <1>7, <1>g, <1>m, <1>t, <2>1, <2>2, TypeFrame DEF Crash
<1>8. ASSUME NEW o \in Orders, Trade(o) PROVE TypeOK'
  <2>1. trades' \in [Orders -> SUBSET Times] BY <1>8, <1>t DEF Trade
  <2> QED BY <1>8, <1>g, <1>m, <1>t, <2>1, TypeFrame DEF Trade, TypeOK, IsSeen
<1>9. ASSUME NEW o \in Orders, BatchUpsert(o) PROVE TypeOK'
  <2>1. Changes(buffer) /\ Changes(rows) BY <1>9, <1>m DEF BatchUpsert, Changes
  <2>2. AggOK(buffer[o]) BY <1>9 DEF BatchUpsert, TypeOK, AggMap
  <2>3. written' \subseteq 1 .. Len(signals) BY <1>9, <1>t, <2>2 DEF BatchUpsert, AggOK, Aggs
  <2> QED BY <1>9, <1>g, <1>m, <1>t, <2>1, <2>3, TypeFrame DEF BatchUpsert, TypeOK, IsSeen
<1>10. ASSUME NEW o \in Orders, RowLost(o) PROVE TypeOK'
  <2>1. Changes(buffer) BY <1>10, <1>m DEF RowLost, Changes
  <2> QED BY <1>10, <1>g, <1>m, <1>t, <2>1, TypeFrame DEF RowLost, TypeOK, IsSeen
<1>11. ASSUME NEW o \in Orders, NEW t \in trades[o], HandleFill(o, t) PROVE TypeOK'
  <2>1. AggOK(pending[o])' /\ pending'[o].sig = 0
    <3>1. t \in Times BY <1>t
    <3>2. CASE pending[o] = NoAgg
      BY <1>11, <1>m, <1>t, <3>1, <3>2 DEF HandleFill, Agg, AggOK, Aggs, Times
    <3>3. CASE pending[o] # NoAgg
      <4>1. AggOK(pending[o]) BY <3>3 DEF TypeOK, AggMap
      <4>2. pending'[o] = Appended(pending[o], t) BY <1>11, <1>m, <3>3 DEF HandleFill
      <4> QED BY <1>11, <1>t, <3>1, <4>1, <4>2 DEF HandleFill, Appended, Agg, AggOK, Aggs, Times
    <3> QED BY <3>2, <3>3
  <2>2. \A d \in Orders : d # o => pending'[d] = pending[d] /\ buffer'[d] = buffer[d]
    BY <1>11, <1>m DEF HandleFill
  <2>3. buffer'[o] = pending'[o] BY <1>11, <1>m DEF HandleFill
  <2>4. pending' = [d \in Orders |-> pending'[d]] /\ buffer' = [d \in Orders |-> buffer'[d]]
    BY <1>11, <1>m DEF HandleFill
  <2>5. Changes(pending) /\ Changes(buffer) BY <2>1, <2>2, <2>3, <2>4 DEF Changes
  <2>6. \A d \in Orders : pending'[d] # NoAgg => pending'[d].sig = 0 /\ ~IsSeen(d)'
    BY <1>11, <2>1, <2>2 DEF HandleFill, TypeOK, IsSeen
  <2> QED BY <1>11, <1>g, <1>m, <1>t, <2>5, <2>6, TypeFrame DEF HandleFill
<1>12. ASSUME NEW o \in Orders, FlushOrder(o) PROVE TypeOK'
  <2>1. AggOK(pending[o]) /\ signals \in Seq(Signals) BY <1>12 DEF FlushOrder, TypeOK, AggMap
  <2>2. Times' = Times /\ Signals' = Signals BY <1>12 DEF FlushOrder, Times, Signals
  <2>3. AggOK(buffer[o])'
    BY <1>12, <1>m, <1>t, <2>1 DEF FlushOrder, Agg, AggOK, Aggs, Times
  <2>4. Changes(pending) /\ Changes(buffer)
    BY <1>12, <1>m, <2>3 DEF FlushOrder, Removed, Changes
  <2>5. (\A f \in {pending, buffer, rows} : f \in [Orders -> Aggs \cup {NoAgg}] /\ AggMap(f))'
    BY <1>12, <1>g, <1>m, <2>4, MapStep DEF FlushOrder
  <2>6. signals' \in Seq(Signals) BY <1>12, <2>1 DEF FlushOrder, Signals, AggOK, Aggs
  <2>7. dedup' \in [Orders -> Times \cup {-1}] BY <1>12, <1>t DEF FlushOrder, Mark
  <2>8. \A d \in Orders : pending'[d] # NoAgg => pending'[d].sig = 0 /\ ~IsSeen(d)'
    BY <1>12, <1>m, <1>t DEF FlushOrder, Removed, Mark, TypeOK, IsSeen
  <2>9. written' \subseteq (1 .. Len(signals))' /\ lost' \subseteq (1 .. Len(signals))'
    BY <1>12, <1>t, <1>g DEF FlushOrder, Grows
  <2> QED BY <1>12, <1>t, <2>2, <2>5, <2>6, <2>7, <2>8, <2>9 DEF FlushOrder, TypeOK
<1> QED
  BY <1>1, <1>2, <1>3, <1>4, <1>5, <1>6, <1>7, <1>8, <1>9, <1>10, <1>11, <1>12 DEF Next

\* Types and the order of times are invariant (the state of the deduper, the
\* pending orders, the batch writer and the rows over restarts).
THEOREM TypeCorrect == Spec => []TypeOK
<1>1. Init => TypeOK BY TypeInit
<1>2. TypeOK /\ [Next]_vars => TypeOK' BY TypeStep
<1> QED BY <1>1, <1>2, PTL DEF Spec

-----------------------------------------------------------------------------
\* How old a fill may be: an order is created at most MaxAge after each of its
\* fills, a signal has only fills handled before its last one, and a row to be
\* written as sent belongs to the signal it names.
FreshOK ==
    /\ \A o \in Orders : pending[o] # NoAgg =>
          \A t \in pending[o].fills : pending[o].created <= t + MaxAge
    /\ \A i \in 1 .. Len(signals) : \A t \in signals[i].fills :
          signals[i].created <= t + MaxAge /\ t <= signals[i].lastFillTime
    /\ \A o \in Orders : buffer[o] # NoAgg /\ buffer[o].sig # 0 =>
          /\ signals[buffer[o].sig].order = o
          /\ signals[buffer[o].sig].lastFillTime = buffer[o].lastFillTime

\* The window of signal i has passed.
Passed(i) == now > signals[i].lastFillTime + TTL

\* While it runs, the process remembers signal i until its window has passed.
Remembered(i) ==
    process = "running" =>
        Passed(i) \/ (dedup[signals[i].order] # NotMarked
                        /\ dedup[signals[i].order] >= signals[i].lastFillTime)

\* A signal whose row was written can be read back until its window has passed,
\* and only such signals are not forgotten by a process that is not running.
Recorded(i) ==
    /\ process # "running" => i \in written
    /\ i \in written =>
          Passed(i) \/ (rows[signals[i].order] # NoAgg /\ rows[signals[i].order].sig # 0
                          /\ rows[signals[i].order].lastFillTime >= signals[i].lastFillTime)

\* What is aggregated after signal i was created after its window.
Later(i) ==
    LET o == signals[i].order IN
    /\ pending[o] # NoAgg => pending[o].created > signals[i].lastFillTime + TTL
    /\ buffer[o] # NoAgg => buffer[o].sig = i \/ buffer[o].created > signals[i].lastFillTime + TTL

WindowOK == \A i \in 1 .. Len(signals) : i \notin lost => Remembered(i) /\ Recorded(i) /\ Later(i)

LEMMA WindowInit == Init => FreshOK /\ WindowOK /\ ResignalGap
  BY DEF Init, FreshOK, WindowOK, ResignalGap

\* A step that keeps the signals and what is made of them.
LEMMA FreshFrame ==
  ASSUME FreshOK, UNCHANGED <<signals, pending>>,
         \A o \in Orders : buffer'[o] \in {buffer[o], NoAgg}
  PROVE  FreshOK'
  BY DEF FreshOK

LEMMA FreshStep == TypeOK /\ FreshOK /\ [Next]_vars => FreshOK'
<1> SUFFICES ASSUME TypeOK, FreshOK, [Next]_vars PROVE FreshOK' OBVIOUS
<1>m. /\ pending \in [Orders -> Aggs \cup {NoAgg}] /\ buffer \in [Orders -> Aggs \cup {NoAgg}]
      /\ now \in Nat /\ signals \in Seq(Signals) /\ Len(signals) \in Nat
  BY DEF TypeOK
<1>1. CASE UNCHANGED <<signals, pending, buffer>> BY <1>1, FreshFrame
<1>2. CASE Crash BY <1>2 DEF Crash, FreshOK
<1>3. ASSUME NEW o \in Orders, BatchUpsert(o) \/ RowLost(o) PROVE FreshOK'
  BY <1>3, <1>m, FreshFrame DEF BatchUpsert, RowLost
<1>4. ASSUME NEW o \in Orders, NEW t \in trades[o], HandleFill(o, t) PROVE FreshOK'
  <2>1. t \in Nat /\ now - t <= MaxAge /\ t <= now BY <1>4 DEF HandleFill, TooOld, TypeOK, Times
  <2>2. \A d \in Orders : d # o => pending'[d] = pending[d] /\ buffer'[d] = buffer[d]
    BY <1>4, <1>m DEF HandleFill
  <2>3. buffer'[o].sig = 0 /\ \A u \in pending'[o].fills : pending'[o].created <= u + MaxAge
    <3>1. CASE pending[o] = NoAgg BY <1>4, <1>m, <2>1, <3>1 DEF HandleFill, Agg
    <3>2. CASE pending[o] # NoAgg
      <4>1. AggOK(pending[o]) BY <3>2 DEF TypeOK, AggMap
      <4>2. pending[o].created <= now /\ pending[o].created \in Nat BY <4>1, <1>m DEF AggOK, Aggs, Times
      <4> QED BY <1>4, <1>m, <2>1, <3>2, <4>2 DEF HandleFill, Appended, Agg, FreshOK
    <3> QED BY <3>1, <3>2
  <2> QED BY <1>4, <2>2, <2>3 DEF HandleFill, FreshOK
<1>5. ASSUME NEW o \in Orders, FlushOrder(o) PROVE FreshOK'
  <2>1. AggOK(pending[o]) BY <1>5 DEF FlushOrder, TypeOK, AggMap
  <2>2. /\ Len(signals') = Len(signals) + 1
        /\ \A i \in 1 .. Len(signals) : signals'[i] = signals[i]
        /\ signals'[Len(signals) + 1] =
              [order |-> o, fills |-> pending[o].fills, created |-> pending[o].created,
               lastFillTime |-> pending[o].lastFillTime]
    BY <1>5, <1>m DEF FlushOrder
  <2>3. \A i \in 1 .. Len(signals') : \A t \in signals'[i].fills :
          signals'[i].created <= t + MaxAge /\ t <= signals'[i].lastFillTime
    BY <1>5, <1>m, <2>1, <2>2 DEF FlushOrder, FreshOK, AggOK
  <2>4. \A d \in Orders : d # o => buffer'[d] = buffer[d] BY <1>5, <1>m DEF FlushOrder
  <2>5. buffer'[o].sig = Len(signals) + 1 /\ buffer'[o].lastFillTime = pending[o].lastFillTime
    BY <1>5, <1>m DEF FlushOrder, Agg
  <2>6. \A d \in Orders : buffer'[d] # NoAgg /\ buffer'[d].sig # 0 =>
          /\ signals'[buffer'[d].sig].order = d
          /\ signals'[buffer'[d].sig].lastFillTime = buffer'[d].lastFillTime
    <3>1. ASSUME NEW d \in Orders, d # o, buffer[d] # NoAgg, buffer[d].sig # 0
          PROVE  buffer[d].sig \in 1 .. Len(signals)
      BY <3>1, <1>m DEF Aggs
    <3> QED BY <2>2, <2>4, <2>5, <3>1 DEF FreshOK
  <2>7. \A d \in Orders : pending'[d] # NoAgg => pending'[d] = pending[d]
    BY <1>5, <1>m DEF FlushOrder, Removed
  <2> QED BY <2>3, <2>6, <2>7 DEF FreshOK
<1> QED
  BY <1>1, <1>2, <1>3, <1>4, <1>5
  DEF Next, vars, Tick, Clean, Start, LoadFromDB, LoadFails, Trade

\* The facts about signal i that the steps below use.
LEMMA SignalFacts ==
  ASSUME TypeOK, NEW i \in 1 .. Len(signals)
  PROVE  /\ signals[i].order \in Orders /\ signals[i].lastFillTime \in Nat
         /\ signals[i].lastFillTime <= now /\ now \in Nat
<1>1. signals[i] \in Signals BY DEF TypeOK
<1> QED BY <1>1 DEF Signals, Times, TypeOK

LEMMA WindowStep == TypeOK /\ FreshOK /\ WindowOK /\ [Next]_vars => WindowOK'
<1> SUFFICES ASSUME TypeOK, FreshOK, WindowOK, [Next]_vars,
                    NEW i \in 1 .. Len(signals'), i \notin lost'
             PROVE  (Remembered(i) /\ Recorded(i) /\ Later(i))'
  BY DEF WindowOK
<1> USE DEF NotMarked
<1>m. /\ pending \in [Orders -> Aggs \cup {NoAgg}] /\ buffer \in [Orders -> Aggs \cup {NoAgg}]
      /\ rows \in [Orders -> Aggs \cup {NoAgg}] /\ dedup \in [Orders -> Times \cup {-1}]
      /\ now \in Nat /\ signals \in Seq(Signals) /\ Len(signals) \in Nat
  BY DEF TypeOK
<1> DEFINE o == signals[i].order
           L == signals[i].lastFillTime
<1>f. ASSUME UNCHANGED signals, lost \subseteq lost'
      PROVE  /\ o \in Orders /\ L \in Nat /\ L <= now
             /\ Remembered(i) /\ Recorded(i) /\ Later(i)
  BY <1>f, SignalFacts DEF WindowOK
<1>1. CASE UNCHANGED <<now, process, pending, dedup, buffer, rows, signals, written, lost>>
  BY <1>1, <1>f DEF Remembered, Recorded, Later, Passed
<1>2. CASE Tick
  <2>1. L \in Nat /\ Remembered(i) /\ Recorded(i) /\ Later(i) BY <1>2, <1>f DEF Tick
  <2>2. Passed(i) => Passed(i)' BY <1>2, <1>m, <2>1 DEF Tick, Passed
  <2> QED BY <1>2, <2>1, <2>2 DEF Tick, Remembered, Recorded, Later
<1>3. CASE Clean
  <2>1. o \in Orders /\ L \in Nat /\ Remembered(i) /\ Recorded(i) /\ Later(i) BY <1>3, <1>f DEF Clean
  <2>2. rows'[o] = rows[o] \/ (rows[o] # NoAgg /\ rows[o].updatedAt < now - Keep)
    BY <1>3, <2>1 DEF Clean, DeleteOld
  <2>3. rows[o] # NoAgg => /\ rows[o].lastFillTime <= rows[o].updatedAt
                           /\ rows[o].lastFillTime \in Nat /\ rows[o].updatedAt \in Nat
    BY <2>1 DEF TypeOK, AggMap, AggOK, Aggs, Times
  <2>4. Recorded(i)' BY <1>3, <1>m, <2>1, <2>2, <2>3 DEF Clean, Recorded, Passed
  <2> QED BY <1>3, <2>1, <2>4 DEF Clean, Remembered, Later, Passed
<1>4. CASE Start
  BY <1>4, <1>f DEF Start, Remembered, Recorded, Later, Passed
<1>5. CASE LoadFromDB
  <2>1. o \in Orders /\ L \in Nat /\ L <= now /\ Recorded(i) /\ Later(i) BY <1>5, <1>f DEF LoadFromDB
  <2>2. rows[o] # NoAgg => rows[o].lastFillTime \in Nat BY <1>m, <2>1 DEF Aggs, Times
  <2>3. dedup'[o] = IF rows[o] # NoAgg /\ rows[o].sig # 0 /\ rows[o].lastFillTime >= now - TTL
                    THEN now ELSE -1
    BY <1>5, <2>1 DEF LoadFromDB, GetSentOrdersSince
  <2>4. Passed(i) \/ (rows[o] # NoAgg /\ rows[o].sig # 0 /\ rows[o].lastFillTime >= L)
    BY <1>5, <2>1 DEF LoadFromDB, Recorded
  <2>5. Remembered(i)' BY <1>5, <1>m, <2>1, <2>2, <2>3, <2>4 DEF LoadFromDB, Remembered, Passed
  <2> QED BY <1>5, <2>1, <2>5 DEF LoadFromDB, Recorded, Later, Passed
<1>6. CASE LoadFails
  BY <1>6 DEF LoadFails
<1>7. CASE Crash
  BY <1>7, <1>f DEF Crash, Remembered, Recorded, Later, Passed
<1>8. ASSUME NEW d \in Orders, BatchUpsert(d) PROVE (Remembered(i) /\ Recorded(i) /\ Later(i))'
  <2>1. o \in Orders /\ L \in Nat /\ Remembered(i) /\ Recorded(i) /\ Later(i) BY <1>8, <1>f DEF BatchUpsert
  <2>2. CASE d # o
    BY <1>8, <1>m, <2>1, <2>2 DEF BatchUpsert, Remembered, Recorded, Later, Passed, FreshOK
  <2>3. CASE d = o
    <3>1. AggOK(buffer[o]) BY <1>8, <2>3 DEF BatchUpsert, TypeOK, AggMap
    <3>2. /\ buffer[o].created <= now /\ buffer[o].created \in Nat
          /\ buffer[o].lastFillTime \in Nat
      BY <3>1, <1>m DEF AggOK, Aggs, Times
    <3>3. rows'[o] = buffer[o] /\ buffer'[o] = NoAgg BY <1>8, <1>m, <2>1, <2>3 DEF BatchUpsert
    <3>4. CASE buffer[o].sig = i
      <4>1. buffer[o].lastFillTime = L BY <1>8, <2>3, <3>4 DEF FreshOK, BatchUpsert
      <4> QED BY <1>8, <1>m, <2>1, <2>3, <3>2, <3>3, <3>4, <4>1
              DEF BatchUpsert, Remembered, Recorded, Later, Passed
    <3>5. CASE buffer[o].sig # i
      <4>1. Passed(i) BY <1>8, <1>m, <2>1, <2>3, <3>2, <3>5 DEF BatchUpsert, Later, Passed
      <4> QED BY <1>8, <2>1, <2>3, <3>3, <4>1 DEF BatchUpsert, Remembered, Recorded, Later, Passed
    <3> QED BY <3>4, <3>5
  <2> QED BY <2>2, <2>3
<1>9. ASSUME NEW d \in Orders, RowLost(d) PROVE (Remembered(i) /\ Recorded(i) /\ Later(i))'
  <2>1. o \in Orders /\ Remembered(i) /\ Recorded(i) /\ Later(i) BY <1>9, <1>f DEF RowLost
  <2>2. buffer'[o] = buffer[o] \/ buffer'[o] = NoAgg BY <1>9, <1>m, <2>1 DEF RowLost
  <2>3. Later(i)' BY <1>9, <2>1, <2>2 DEF RowLost, Later
  <2> QED BY <1>9, <2>1, <2>3 DEF RowLost, Remembered, Recorded, Passed
<1>10. ASSUME NEW d \in Orders, NEW t \in trades[d], HandleFill(d, t)
       PROVE (Remembered(i) /\ Recorded(i) /\ Later(i))'
  <2>1. /\ o \in Orders /\ L \in Nat /\ L <= now /\ Remembered(i) /\ Recorded(i) /\ Later(i)
        /\ o' = o /\ L' = L
    BY <1>10, <1>f DEF HandleFill
  <2>2. (Remembered(i) /\ Recorded(i))'
    BY <1>10, <2>1 DEF HandleFill, Remembered, Recorded, Passed
  <2>3. CASE d # o
    <3>1. pending'[o] = pending[o] /\ buffer'[o] = buffer[o] BY <1>10, <1>m, <2>1, <2>3 DEF HandleFill
    <3> QED BY <1>10, <2>1, <2>2, <3>1 DEF Later
  <2>4. CASE d = o
    <3>1. buffer'[o] = pending'[o] BY <1>10, <1>m, <2>1, <2>4 DEF HandleFill
    <3>2. CASE pending[o] = NoAgg
      <4>1. pending'[o].created = now BY <1>10, <1>m, <2>4, <3>2 DEF HandleFill, Agg
      <4>2. dedup[o] \in Nat \cup {-1} BY <1>m, <2>1 DEF Times
      <4>3. now > L + TTL
        BY <1>10, <1>m, <2>1, <2>4, <4>2 DEF HandleFill, IsSeen, Remembered, Passed
      <4> QED BY <2>1, <2>2, <3>1, <4>1, <4>3 DEF Later
    <3>3. CASE pending[o] # NoAgg
      <4>1. pending'[o].created = pending[o].created
        BY <1>10, <1>m, <2>4, <3>3 DEF HandleFill, Appended, Agg
      <4> QED BY <2>1, <2>2, <3>1, <3>3, <4>1 DEF Later
    <3> QED BY <3>2, <3>3
  <2> QED BY <2>3, <2>4
<1>11. ASSUME NEW d \in Orders, FlushOrder(d) PROVE (Remembered(i) /\ Recorded(i) /\ Later(i))'
  <2>1. AggOK(pending[d]) /\ process = "running" BY <1>11 DEF FlushOrder, TypeOK, AggMap
  <2>2. /\ Len(signals') = Len(signals) + 1
        /\ \A k \in 1 .. Len(signals) : signals'[k] = signals[k]
        /\ signals'[Len(signals) + 1] =
              [order |-> d, fills |-> pending[d].fills, created |-> pending[d].created,
               lastFillTime |-> pending[d].lastFillTime]
    BY <1>11, <1>m DEF FlushOrder
  <2>3. pending[d].lastFillTime <= now /\ pending[d].lastFillTime \in Nat
    BY <2>1, <1>m DEF AggOK, Aggs, Times
  <2>4. /\ pending'[d] = NoAgg /\ dedup'[d] = now
        /\ buffer'[d].sig = Len(signals) + 1 /\ buffer'[d].created = pending[d].created
    BY <1>11, <1>m DEF FlushOrder, Removed, Mark, Agg
  <2>5. \A e \in Orders : e # d => /\ pending'[e] = pending[e] /\ buffer'[e] = buffer[e]
                                    /\ dedup'[e] = dedup[e]
    BY <1>11, <1>m DEF FlushOrder, Removed, Mark
  <2>6. CASE i = Len(signals) + 1
    <3>1. i \notin written BY <1>m, <2>6 DEF TypeOK
    <3> QED BY <1>11, <1>m, <2>1, <2>2, <2>3, <2>4, <2>6, <3>1
            DEF FlushOrder, Remembered, Recorded, Later
  <2>7. CASE i # Len(signals) + 1
    <3>1. i \in 1 .. Len(signals) /\ signals'[i] = signals[i] BY <1>m, <2>2, <2>7
    <3>2. i \notin lost BY <1>11 DEF FlushOrder
    <3>3. o \in Orders /\ L \in Nat /\ L <= now /\ Remembered(i) /\ Recorded(i) /\ Later(i)
      BY <3>1, <3>2, SignalFacts DEF WindowOK
    <3>4. Recorded(i)' BY <1>11, <2>1, <3>1, <3>3 DEF FlushOrder, Recorded, Passed
    <3>5. CASE o # d
      BY <1>11, <2>1, <2>5, <3>1, <3>3, <3>4, <3>5 DEF FlushOrder, Remembered, Later, Passed
    <3>6. CASE o = d
      BY <1>11, <1>m, <2>1, <2>4, <3>1, <3>3, <3>4, <3>6 DEF FlushOrder, Remembered, Later, Passed
    <3> QED BY <3>5, <3>6
  <2> QED BY <2>6, <2>7
<1> QED
  BY <1>1, <1>2, <1>3, <1>4, <1>5, <1>6, <1>7, <1>8, <1>9, <1>10, <1>11 DEF Next, vars, Trade

LEMMA GapStep == TypeOK /\ WindowOK /\ ResignalGap /\ [Next]_vars => ResignalGap'
<1> SUFFICES ASSUME TypeOK, WindowOK, ResignalGap, [Next]_vars,
                    NEW i \in 1 .. Len(signals'), NEW j \in 1 .. Len(signals'), Successive(i, j)'
             PROVE  (signals[j].created > signals[i].lastFillTime + TTL)'
  BY DEF ResignalGap
<1>m. signals \in Seq(Signals) /\ Len(signals) \in Nat /\ lost \subseteq 1 .. Len(signals) BY DEF TypeOK
<1>1. ASSUME UNCHANGED signals, lost \subseteq lost'
      PROVE  (signals[j].created > signals[i].lastFillTime + TTL)'
  BY <1>1 DEF ResignalGap, Successive
<1>2. ASSUME NEW o \in Orders, FlushOrder(o)
      PROVE  (signals[j].created > signals[i].lastFillTime + TTL)'
  <2>1. /\ Len(signals') = Len(signals) + 1 /\ lost' = lost
        /\ \A k \in 1 .. Len(signals) : signals'[k] = signals[k]
        /\ signals'[Len(signals) + 1].order = o
        /\ signals'[Len(signals) + 1].created = pending[o].created
    BY <1>2, <1>m DEF FlushOrder
  <2>2. i \in 1 .. Len(signals) /\ i \notin lost BY <1>m, <2>1 DEF Successive
  <2>3. CASE j = Len(signals) + 1
    BY <1>2, <2>1, <2>2, <2>3 DEF FlushOrder, Successive, WindowOK, Later
  <2>4. CASE j # Len(signals) + 1
    BY <1>m, <2>1, <2>2, <2>4 DEF ResignalGap, Successive
  <2> QED BY <2>3, <2>4
<1>3. CASE LoadFails BY <1>3 DEF LoadFails, Successive
<1> QED
  BY <1>1, <1>2, <1>3
  DEF Next, vars, Tick, Clean, Start, LoadFromDB, Crash, Trade, BatchUpsert, RowLost, HandleFill

\* Because fills older than MaxAge are refused, an order created after the window
\* has none of the former signal's fills.
LEMMA GapSeparates == TypeOK /\ FreshOK /\ ResignalGap => FillSignalledOnce
<1> SUFFICES ASSUME TypeOK, FreshOK, ResignalGap,
                    NEW i \in 1 .. Len(signals), NEW j \in 1 .. Len(signals), Successive(i, j),
                    NEW t \in signals[i].fills, t \in signals[j].fills
             PROVE  FALSE
  BY DEF FillSignalledOnce
<1>1. signals[i] \in Signals /\ signals[j] \in Signals /\ now \in Nat BY DEF TypeOK
<1>2. t \in Nat /\ signals[i].lastFillTime \in Nat /\ signals[j].created \in Nat
  BY <1>1 DEF Signals, Times
<1>3. t <= signals[i].lastFillTime /\ signals[j].created <= t + MaxAge BY DEF FreshOK
<1>4. signals[j].created > signals[i].lastFillTime + TTL BY DEF ResignalGap
<1> QED BY <1>2, <1>3, <1>4

\* An order is signalled again only after the window of its former signal, over
\* any number of crashes and restarts: the deduper of a running process, the
\* rows LoadFromDB reads and the cleaner's age limit fit together for all
\* values with TTL <= Keep.
THEOREM OrdersResignalledAfterWindow == Spec => []ResignalGap
<1>1. Init => TypeOK /\ FreshOK /\ WindowOK /\ ResignalGap BY TypeInit, WindowInit
<1>2. TypeOK /\ FreshOK /\ WindowOK /\ ResignalGap /\ [Next]_vars
        => (TypeOK /\ FreshOK /\ WindowOK /\ ResignalGap)'
  BY TypeStep, FreshStep, WindowStep, GapStep
<1> QED BY <1>1, <1>2, PTL DEF Spec

\* No fill is in two signals, whatever is redelivered, written late, lost,
\* cleaned or restarted, unless the process died before the first signal's row
\* was written or could not read the rows; for all values with MaxAge <= TTL.
THEOREM FillsSignalledOnce == Spec => []FillSignalledOnce
<1>1. Init => TypeOK /\ FreshOK /\ WindowOK /\ ResignalGap BY TypeInit, WindowInit
<1>2. TypeOK /\ FreshOK /\ WindowOK /\ ResignalGap /\ [Next]_vars
        => (TypeOK /\ FreshOK /\ WindowOK /\ ResignalGap)'
  BY TypeStep, FreshStep, WindowStep, GapStep
<1>3. TypeOK /\ FreshOK /\ ResignalGap => FillSignalledOnce BY GapSeparates
<1> QED BY <1>1, <1>2, <1>3, PTL DEF Spec
=============================================================================
