------------------------- MODULE PoolManagerProofs -------------------------
(* Proofs about PoolManager, for any keys and limits, any number of calls,    *)
(* breaks and failed dials.                                                   *)
EXTENDS PoolManager, FiniteSetTheorems, TLAPS

USE PoolManagerAssumption DEF None

-----------------------------------------------------------------------------
(* The inductive invariant *)

\* The pool never grows: acquireConnection dials, and nobody appends what it dialled.
\* A subscribed key is on a connection that was dialled.
PoolShape ==
    /\ Len(connections) <= 1
    /\ link[1] # "none"
    /\ \A k \in Keys : subscriptions[k] # None => link[subscriptions[k]] # "none"

CallSteps == {"check", "write", "rollback", "record"}

OpShape ==
    /\ op.pc # "idle" => op.key \in Keys
    /\ op.pc \in {"acquire", "store"} \cup CallSteps => op.id \in Ids
    /\ op.pc \notin {"idle", "acquire"} => op.conn \in Conns /\ link[op.conn] # "none"

RepairShape ==
    /\ repair.pc \in {"dial", "replace", "keys", "migrate", "add", "write"} =>
         repair.i \in DOMAIN repair.snap
    /\ repair.pc = "visit" => repair.i \in Nat \ {0}
    /\ repair.pc \in {"replace", "keys", "migrate", "add", "write"} =>
         repair.new \in Conns /\ link[repair.new] # "none"
    /\ IF repair.pc \in {"add", "write"} THEN repair.key \in Keys ELSE repair.key = NoKey

\* A callback that is registered belongs to a handle, or to the call that registers it.
CallbacksOK ==
    /\ \A k \in Keys : subscriptions[k] = None => callbacks[k] = {}
    /\ op.pc \in {"acquire", "store", "unsubcheck", "unsubwrite"} => subscriptions[op.key] = None
    /\ \A k \in Keys : \A id \in callbacks[k] :
         <<id, k>> \in handles \/ (op.pc \in CallSteps /\ op.id = id /\ op.key = k)

\* A subscribed key is recorded at its connection, and served there while that is up,
\* or the call or the migration that has put it there has still to do so.
SubscribedOK ==
    \A k \in Keys : subscriptions[k] # None =>
        /\ \/ k \in wsubs[subscriptions[k]]
           \/ op.key = k /\ op.pc \in CallSteps /\ subscriptions[k] = op.conn
           \/ repair.key = k /\ repair.pc = "add" /\ subscriptions[k] = repair.new
        /\ link[subscriptions[k]] = "up" =>
           \/ k \in remote[subscriptions[k]]
           \/ op.key = k /\ op.pc \in {"check", "write"} /\ subscriptions[k] = op.conn
           \/ repair.key = k /\ repair.pc \in {"add", "write"} /\ subscriptions[k] = repair.new

Shape == TypeOK /\ PoolShape /\ OpShape /\ RepairShape
Inv == Shape /\ CallbacksOK /\ SubscribedOK

-----------------------------------------------------------------------------
(* Types and shapes *)

LEMMA ConnsFacts ==
  /\ Conns \subseteq Nat /\ 1 \in Conns /\ 0 \notin Conns /\ IsFiniteSet(Conns)
  /\ Ids \subseteq Nat /\ 0 \notin Ids
<1>1. 3 + MaxCalls + MaxBreaks \in Nat /\ 3 + MaxCalls + MaxBreaks >= 1 OBVIOUS
<1>2. IsFiniteSet(Conns) BY <1>1, FS_Interval DEF Conns
<1> QED BY <1>1, <1>2 DEF Conns, Ids

LEMMA OpAtType ==
  ASSUME NEW pc \in {"idle", "acquire", "store", "check", "write", "rollback", "record",
                     "unsubcheck", "unsubwrite"},
         NEW k \in Keys \cup {NoKey}, NEW id \in Ids \cup {None}, NEW c \in Conns \cup {None}
  PROVE  /\ OpAt(pc, k, id, c) \in OpState /\ OpAt(pc, k, id, c).pc = pc
         /\ OpAt(pc, k, id, c).key = k /\ OpAt(pc, k, id, c).id = id /\ OpAt(pc, k, id, c).conn = c
BY DEF OpAt, OpState

LEMMA OpIdleType == OpIdle \in OpState /\ OpIdle.pc = "idle" /\ OpIdle.key = NoKey
BY DEF OpIdle, OpAt, OpState

LEMMA RepairAtType ==
  ASSUME NEW pc \in {"idle", "sleep", "visit", "dial", "replace", "keys", "migrate", "add", "write"},
         NEW snap \in Seq(Conns), NEW i \in Nat, NEW new \in Conns \cup {None},
         NEW todo \in SUBSET Keys, NEW k \in Keys \cup {NoKey}
  PROVE  /\ RepairAt(pc, snap, i, new, todo, k) \in RepairState
         /\ RepairAt(pc, snap, i, new, todo, k).pc = pc /\ RepairAt(pc, snap, i, new, todo, k).snap = snap
         /\ RepairAt(pc, snap, i, new, todo, k).i = i /\ RepairAt(pc, snap, i, new, todo, k).new = new
         /\ RepairAt(pc, snap, i, new, todo, k).todo = todo /\ RepairAt(pc, snap, i, new, todo, k).key = k
BY DEF RepairAt, RepairState

LEMMA RepairIdleType ==
  /\ RepairIdle \in RepairState /\ RepairIdle.pc = "idle" /\ RepairIdle.key = NoKey
  /\ RepairSleep \in RepairState /\ RepairSleep.pc = "sleep" /\ RepairSleep.key = NoKey
<1>1. <<>> \in Seq(Conns) /\ 0 \in Nat /\ {} \in SUBSET Keys OBVIOUS
<1> QED BY <1>1 DEF RepairIdle, RepairSleep, RepairAt, RepairState

\* The fields of the call and of the repair.
LEMMA Fields ==
  ASSUME TypeOK
  PROVE  /\ op.key \in Keys \cup {NoKey} /\ op.id \in Ids \cup {None} /\ op.conn \in Conns \cup {None}
         /\ repair.snap \in Seq(Conns) /\ repair.i \in Nat /\ repair.new \in Conns \cup {None}
         /\ repair.todo \in SUBSET Keys /\ repair.key \in Keys \cup {NoKey}
         /\ \A j \in DOMAIN repair.snap : repair.snap[j] \in Conns /\ j \in Nat \ {0}
         /\ \A j \in DOMAIN connections : connections[j] \in Conns
BY DEF TypeOK, OpState, RepairState

\* A connection that was dialled stays dialled, and is never up again once it was not.
LinksAge ==
    \A c \in Conns : link[c] # "none" => link'[c] # "none" /\ (link'[c] = "up" => link[c] = "up")

LEMMA Aging ==
  ASSUME TypeOK, [Next]_vars PROVE LinksAge
<1>f. link \in [Conns -> Links] BY DEF TypeOK
<1>1. ASSUME NEW c \in Conns, Connect(c) PROVE LinksAge
  BY <1>1, <1>f DEF Connect, Undialled, LinksAge
<1>2. ASSUME NEW c \in Conns, Break(c) \/ ReadFails(c) PROVE LinksAge
  BY <1>2, <1>f DEF Break, ReadFails, LinksAge
<1>3. ASSUME NEW C, CloseClients(C) PROVE LinksAge
  BY <1>3, <1>f DEF CloseClients, LinksAge
<1>4. CASE UNCHANGED link BY <1>4 DEF LinksAge
<1>5. CASE AcquireConnection BY <1>1, <1>4, <1>5 DEF AcquireConnection, ConnectFails
<1>6. CASE RepairDial BY <1>1, <1>4, <1>6 DEF RepairDial, ConnectFails
<1>7. CASE Cancel \/ Close BY <1>3, <1>7 DEF Cancel, Close
<1>8. CASE Call
  BY <1>4, <1>5, <1>8 DEF Call, StoreSubscription, CheckConnected, WriteSubscribe, Rollback, RecordSubscription, UnsubscribeCheck, UnsubscribeWrite, pool
<1>9. CASE Repair
  BY <1>4, <1>6, <1>9 DEF Repair, RepairSnapshot, RepairVisit, RepairReplace, MigrateKeys, MigrateKey, MigrateAdd, MigrateWrite, MigrateEnds, pool
<1>10. CASE (\E k \in Keys : Subscribe(k)) \/ (\E h \in handles : Unsubscribe(h)) \/ HandleDisconnect \/ UNCHANGED vars
  BY <1>4, <1>10 DEF Subscribe, Unsubscribe, HandleDisconnect, pool, vars
<1> QED BY <1>2, <1>7, <1>8, <1>9, <1>10 DEF Next

LEMMA ShapeInit == Init => Shape
<1> SUFFICES ASSUME Init PROVE Shape OBVIOUS
<1>1. connections \in Seq(Conns) /\ Len(connections) = 1 /\ DOMAIN connections = {1} /\ connections[1] = 1
  BY ConnsFacts DEF Init
<1>2. link \in [Conns -> Links] /\ link[1] = "up" BY ConnsFacts DEF Init, Links
<1>3. wsubs \in [Conns -> SUBSET Keys] /\ remote \in [Conns -> SUBSET Keys]
      /\ subscriptions \in [Keys -> Conns \cup {None}] /\ callbacks \in [Keys -> SUBSET Ids]
  BY DEF Init
<1>4. calls \in 0 .. MaxCalls /\ breaks \in 0 .. MaxBreaks /\ fails \in 0 .. MaxDialFails /\ notices \in Nat
  BY DEF Init
<1>5. TypeOK BY <1>1, <1>2, <1>3, <1>4, OpIdleType, RepairIdleType DEF Init, TypeOK
<1>6. PoolShape BY <1>1, <1>2 DEF Init, PoolShape
<1>7. OpShape /\ RepairShape BY OpIdleType, RepairIdleType DEF Init, OpShape, RepairShape, CallSteps
<1> QED BY <1>5, <1>6, <1>7 DEF Shape

\* Parts of the shape that a step leaves alone.
LEMMA OpKeeps ==
  ASSUME TypeOK, OpShape, LinksAge, UNCHANGED op PROVE OpShape'
BY DEF OpShape, LinksAge

LEMMA RepairKeeps ==
  ASSUME TypeOK, RepairShape, LinksAge, UNCHANGED repair PROVE RepairShape'
BY DEF RepairShape, LinksAge

LEMMA PoolKeeps ==
  ASSUME TypeOK, PoolShape, LinksAge, UNCHANGED <<connections, subscriptions>>
  PROVE  PoolShape' /\ (\A i \in DOMAIN connections : link[connections[i]] # "none")'
<1>1. \A k \in Keys : subscriptions[k] # None => subscriptions[k] \in Conns BY DEF TypeOK
<1>2. \A i \in DOMAIN connections : connections[i] \in Conns /\ link[connections[i]] # "none"
  BY Fields DEF TypeOK
<1> QED BY <1>1, <1>2, ConnsFacts DEF PoolShape, LinksAge

\* With one connection at most, the choices of acquireConnection are of that one.
LEMMA Choices ==
  ASSUME TypeOK, PoolShape
  PROVE  /\ Roomy # {} => FirstRoomy \in Conns /\ link[FirstRoomy] # "none"
         /\ Len(connections) >= MaxConnections =>
              LeastLoadedConnection \in Conns /\ link[LeastLoadedConnection] # "none"
<1>1. DOMAIN connections \subseteq {1} /\ (Len(connections) >= MaxConnections => 1 \in DOMAIN connections)
  BY DEF TypeOK, PoolShape
<1>2. \A i \in DOMAIN connections : connections[i] \in Conns /\ link[connections[i]] # "none"
  BY Fields DEF TypeOK
<1>3. ASSUME Roomy # {} PROVE FirstRoomy \in Conns /\ link[FirstRoomy] # "none"
  <2>1. Roomy = {1} /\ 1 \in DOMAIN connections BY <1>1, <1>3 DEF Roomy
  <2>2. (CHOOSE i \in Roomy : \A j \in Roomy : i <= j) = 1 BY <2>1
  <2> QED BY <1>2, <2>1, <2>2 DEF FirstRoomy
<1>4. ASSUME Len(connections) >= MaxConnections
      PROVE  LeastLoadedConnection \in Conns /\ link[LeastLoadedConnection] # "none"
  <2> DEFINE up == {i \in DOMAIN connections : IsConnected(connections[i])}
             load(i) == Cardinality(wsubs[connections[i]])
             best == CHOOSE i \in up : \A j \in up : load(i) < load(j) \/ (load(i) = load(j) /\ i <= j)
  <2>1. up \subseteq {1} /\ 1 \in DOMAIN connections BY <1>1, <1>4
  <2>2. up # {} => best = 1
    <3> SUFFICES ASSUME up # {} PROVE best = 1 OBVIOUS
    <3>1. up = {1} BY <2>1
    <3>2. load(1) = load(1) /\ 1 <= 1 OBVIOUS
    <3> HIDE DEF up, load
    <3>3. \A i \in up : i = 1 BY <3>1
    <3>4. \E i \in up : \A j \in up : load(i) < load(j) \/ (load(i) = load(j) /\ i <= j)
      BY <3>1, <3>2
    <3>5. best \in up BY <3>4
    <3> QED BY <3>3, <3>5
  <2>3. LeastLoadedConnection = connections[1]
    BY <2>2 DEF LeastLoadedConnection
  <2> QED BY <1>2, <2>1, <2>3
<1> QED BY <1>3, <1>4

LEMMA SubscribeShape ==
  ASSUME Shape, NEW k \in Keys, Subscribe(k), LinksAge PROVE Shape'
<1> USE DEF Shape
<1>1. calls + 1 \in Ids /\ calls + 1 \in 0 .. MaxCalls BY DEF Subscribe, TypeOK, Ids
<1>2. callbacks' \in [Keys -> SUBSET Ids] /\ handles' \subseteq Ids \X Keys BY <1>1 DEF Subscribe, TypeOK
<1>3. op' \in OpState /\ OpShape'
  <2>1. CASE UNCHANGED op BY <2>1, OpKeeps DEF TypeOK
  <2>2. CASE op' = OpAt("acquire", k, calls + 1, None) BY <1>1, <2>2, OpAtType DEF OpShape, CallSteps
  <2> QED BY <2>1, <2>2 DEF Subscribe
<1>4. PoolShape' /\ (\A i \in DOMAIN connections : link[connections[i]] # "none")' BY PoolKeeps DEF Subscribe
<1>5. RepairShape' BY RepairKeeps DEF Subscribe
<1>6. TypeOK' BY <1>1, <1>2, <1>3, <1>4 DEF Subscribe, TypeOK
<1> QED BY <1>3, <1>4, <1>5, <1>6

LEMMA AcquireShape ==
  ASSUME Shape, AcquireConnection, LinksAge PROVE Shape'
<1> USE DEF Shape
<1>0. op.key \in Keys /\ op.id \in Ids BY DEF AcquireConnection, OpShape
<1>1. op' \in OpState /\ OpShape' /\ link' \in [Conns -> Links] /\ fails' \in 0 .. MaxDialFails
  <2>1. ASSUME NEW c \in Conns, link[c] # "none", op' = OpAt("store", op.key, op.id, c)
        PROVE  op' \in OpState /\ OpShape'
    BY <1>0, <2>1, OpAtType DEF OpShape, CallSteps, LinksAge
  <2>2. CASE Roomy # {} \/ Len(connections) >= MaxConnections
    <3>1. CASE UNCHANGED <<link, fails>> /\ op' = OpAt("store", op.key, op.id, IF Roomy # {} THEN FirstRoomy ELSE LeastLoadedConnection)
      BY <2>1, <2>2, <3>1, Choices DEF TypeOK
    <3> QED BY <2>2, <3>1 DEF AcquireConnection, TypeOK, PoolShape
  <2>3. ASSUME NEW c \in Conns, Connect(c), op' = OpAt("store", op.key, op.id, c)
        PROVE  op' \in OpState /\ OpShape' /\ link' \in [Conns -> Links] /\ fails' \in 0 .. MaxDialFails
    <3>1. link' \in [Conns -> Links] /\ fails' \in 0 .. MaxDialFails /\ link'[c] = "up"
      BY <2>3 DEF Connect, TypeOK, Links
    <3> QED BY <1>0, <2>3, <3>1, OpAtType DEF OpShape, CallSteps
  <2>4. CASE ConnectFails /\ op' = OpIdle
    BY <2>4, OpIdleType DEF ConnectFails, TypeOK, OpShape, CallSteps
  <2> QED BY <2>2, <2>3, <2>4 DEF AcquireConnection
<1>4. PoolShape' /\ (\A i \in DOMAIN connections : link[connections[i]] # "none")' BY PoolKeeps DEF AcquireConnection
<1>5. RepairShape' BY RepairKeeps DEF AcquireConnection
<1>6. TypeOK' BY <1>1, <1>4 DEF AcquireConnection, TypeOK
<1> QED BY <1>1, <1>4, <1>5, <1>6

\* The steps of a call that is under way, but for the dial.
LEMMA CallShape ==
  ASSUME Shape, LinksAge,
         \/ StoreSubscription \/ CheckConnected \/ WriteSubscribe \/ Rollback
         \/ RecordSubscription \/ UnsubscribeCheck \/ UnsubscribeWrite
  PROVE  Shape'
<1> USE DEF Shape
<1>0. op.key \in Keys /\ op.conn \in Conns /\ link[op.conn] # "none"
      /\ (op.pc \in {"store"} \cup CallSteps => op.id \in Ids)
  BY DEF OpShape, CallSteps, StoreSubscription, CheckConnected, WriteSubscribe, Rollback, RecordSubscription, UnsubscribeCheck, UnsubscribeWrite
<1>1. UNCHANGED <<connections, link, calls, notices, repair, closing, breaks, fails>>
  BY DEF StoreSubscription, CheckConnected, WriteSubscribe, Rollback, RecordSubscription, UnsubscribeCheck, UnsubscribeWrite, pool
<1>2. \/ op' = OpIdle
      \/ op' = OpAt("unsubwrite", op.key, None, op.conn)
      \/ op.id \in Ids /\ \E pc \in CallSteps : op' = OpAt(pc, op.key, op.id, op.conn)
  BY <1>0 DEF CallSteps, StoreSubscription, CheckConnected, WriteSubscribe, Rollback, RecordSubscription, UnsubscribeCheck, UnsubscribeWrite
<1>3. op' \in OpState /\ OpShape'
  <2>1. CASE op' = OpIdle BY <2>1, OpIdleType DEF OpShape, CallSteps
  <2>2. CASE op' = OpAt("unsubwrite", op.key, None, op.conn)
    BY <1>0, <1>1, <2>2 DEF OpAt, OpState, OpShape, CallSteps
  <2>3. ASSUME op.id \in Ids, NEW pc \in CallSteps, op' = OpAt(pc, op.key, op.id, op.conn)
        PROVE  op' \in OpState /\ OpShape'
    BY <1>0, <1>1, <2>3, OpAtType DEF OpShape, CallSteps
  <2> QED BY <1>2, <2>1, <2>2, <2>3
<1>4. subscriptions' \in [Keys -> Conns \cup {None}] /\ \A k \in Keys : subscriptions'[k] \in {subscriptions[k], op.conn, None}
  BY <1>0 DEF TypeOK, StoreSubscription, CheckConnected, WriteSubscribe, Rollback, RecordSubscription, UnsubscribeCheck, UnsubscribeWrite, pool
<1>5. callbacks' \in [Keys -> SUBSET Ids]
  BY <1>0 DEF CallSteps, TypeOK, StoreSubscription, CheckConnected, WriteSubscribe, Rollback, RecordSubscription, UnsubscribeCheck, UnsubscribeWrite, pool
<1>6. handles' \subseteq Ids \X Keys
  BY <1>0 DEF CallSteps, TypeOK, StoreSubscription, CheckConnected, WriteSubscribe, Rollback, RecordSubscription, UnsubscribeCheck, UnsubscribeWrite, pool
<1>7. wsubs' \in [Conns -> SUBSET Keys] /\ remote' \in [Conns -> SUBSET Keys]
  BY <1>0 DEF Served, TypeOK, StoreSubscription, CheckConnected, WriteSubscribe, Rollback, RecordSubscription, UnsubscribeCheck, UnsubscribeWrite, pool
<1>8. PoolShape' BY <1>0, <1>1, <1>4 DEF PoolShape
<1>9. RepairShape' BY <1>1, RepairKeeps
<1>10. TypeOK' BY <1>1, <1>3, <1>4, <1>5, <1>6, <1>7 DEF TypeOK
<1> QED BY <1>3, <1>8, <1>9, <1>10

LEMMA UnsubscribeShape ==
  ASSUME Shape, LinksAge, NEW h \in handles, Unsubscribe(h) PROVE Shape'
<1> USE DEF Shape
<1>0. h[2] \in Keys /\ subscriptions[h[2]] \in Conns \cup {None} BY DEF TypeOK
<1>1. op' \in OpState /\ OpShape'
  <2>1. CASE UNCHANGED op BY <2>1, OpKeeps DEF TypeOK
  <2>2. CASE subscriptions[h[2]] # None /\ op' = OpAt("unsubcheck", h[2], None, subscriptions[h[2]])
    <3>1. link'[subscriptions[h[2]]] # "none" BY <1>0, <2>2 DEF PoolShape, LinksAge
    <3> QED BY <1>0, <2>2, <3>1, OpAtType DEF OpShape, CallSteps
  <2> QED BY <2>1, <2>2 DEF Unsubscribe
<1>2. subscriptions' \in [Keys -> Conns \cup {None}] /\ \A k \in Keys : subscriptions'[k] \in {subscriptions[k], None}
  BY <1>0 DEF Unsubscribe, TypeOK
<1>3. callbacks' \in [Keys -> SUBSET Ids] BY <1>0 DEF Unsubscribe, TypeOK
<1>4. UNCHANGED <<connections, link>> BY DEF Unsubscribe
<1>5. PoolShape' BY <1>2, <1>4 DEF PoolShape
<1>6. RepairShape' BY RepairKeeps DEF Unsubscribe
<1>7. TypeOK' BY <1>1, <1>2, <1>3 DEF Unsubscribe, TypeOK
<1> QED BY <1>1, <1>5, <1>6, <1>7

LEMMA NetworkShape ==
  ASSUME Shape, LinksAge, (\E c \in Conns : Break(c) \/ ReadFails(c)) \/ HandleDisconnect PROVE Shape'
<1> USE DEF Shape
<1>1. UNCHANGED <<connections, subscriptions, wsubs, callbacks, handles, calls, op, closing, fails>>
  BY DEF Break, ReadFails, HandleDisconnect, pool
<1>2. link' \in [Conns -> Links] /\ remote' \in [Conns -> SUBSET Keys]
  BY DEF Break, ReadFails, HandleDisconnect, pool, TypeOK, Links
<1>3. notices' \in Nat /\ breaks' \in 0 .. MaxBreaks BY DEF Break, ReadFails, HandleDisconnect, TypeOK
<1>4. repair' \in RepairState /\ RepairShape'
  <2>1. CASE UNCHANGED repair BY <2>1, RepairKeeps DEF TypeOK
  <2>2. CASE repair' = RepairSleep BY <2>2, RepairIdleType DEF RepairShape
  <2> QED BY <2>1, <2>2 DEF Break, ReadFails, HandleDisconnect
<1>5. PoolShape' /\ (\A i \in DOMAIN connections : link[connections[i]] # "none")' BY <1>1, PoolKeeps
<1>6. OpShape' BY <1>1, OpKeeps
<1>7. TypeOK' BY <1>1, <1>2, <1>3, <1>4, <1>5 DEF TypeOK
<1> QED BY <1>4, <1>5, <1>6, <1>7

LEMMA CloseShape ==
  ASSUME Shape, LinksAge, Cancel \/ Close PROVE Shape'
<1> USE DEF Shape
<1>1. PICK C : CloseClients(C) /\ C \subseteq Conns
  <2>1. Range(connections) \subseteq Conns BY Fields DEF Range
  <2> QED BY <2>1, ConnsFacts DEF Cancel, Close
<1>2. link' \in [Conns -> Links] /\ remote' \in [Conns -> SUBSET Keys] BY <1>1 DEF CloseClients, TypeOK, Links
<1>3. notices' \in Nat
  <2> DEFINE D == {c \in C : IsConnected(c)}
  <2>1. D \subseteq Conns BY <1>1
  <2>2. IsFiniteSet(D) BY <2>1, ConnsFacts, FS_Subset
  <2>3. Cardinality(D) \in Nat BY <2>2, FS_CardinalityType
  <2> QED BY <1>1, <2>3 DEF CloseClients, TypeOK
<1>4. UNCHANGED <<subscriptions, wsubs, callbacks, handles, calls, op, repair, breaks, fails>>
  BY DEF Cancel, Close
<1>5. connections' \in {connections, <<>>} /\ closing' \in {"cancelled", "closed"}
      /\ (closing' = "closed" => connections' = <<>>)
  BY DEF Cancel, Close
<1>6. PoolShape' /\ (\A i \in DOMAIN connections : link[connections[i]] # "none")'
      /\ connections' \in Seq(Conns) /\ Len(connections') <= MaxConnections
  <2>1. CASE UNCHANGED connections BY <1>4, <2>1, PoolKeeps DEF TypeOK
  <2>2. CASE connections' = <<>>
    <3>1. \A k \in Keys : subscriptions[k] # None => link'[subscriptions[k]] # "none"
      BY DEF PoolShape, LinksAge, TypeOK
    <3>2. link'[1] # "none" BY ConnsFacts DEF PoolShape, LinksAge
    <3> QED BY <1>4, <2>2, <3>1, <3>2 DEF PoolShape
  <2> QED BY <1>5, <2>1, <2>2
<1>7. OpShape' /\ RepairShape' BY <1>4, OpKeeps, RepairKeeps
<1>8. TypeOK' BY <1>2, <1>3, <1>4, <1>5, <1>6 DEF TypeOK
<1> QED BY <1>6, <1>7, <1>8

\* The steps of a repair, but for the dial and the exchange of the connection.
LEMMA RepairStepShape ==
  ASSUME Shape, LinksAge,
         \/ RepairSnapshot \/ RepairVisit \/ MigrateKeys \/ MigrateAdd \/ MigrateWrite \/ MigrateEnds
         \/ \E k \in Keys : MigrateKey(k)
  PROVE  Shape'
<1> USE DEF Shape
<1>f. /\ repair.snap \in Seq(Conns) /\ repair.i \in Nat /\ repair.new \in Conns \cup {None}
      /\ repair.todo \in SUBSET Keys /\ connections \in Seq(Conns)
      /\ \A j \in DOMAIN repair.snap : repair.snap[j] \in Conns
  BY Fields DEF TypeOK
<1>1. UNCHANGED <<connections, link, callbacks, handles, calls, op, notices, closing, breaks, fails>>
  BY DEF RepairSnapshot, RepairVisit, MigrateKeys, MigrateAdd, MigrateWrite, MigrateEnds, MigrateKey, pool
<1>2. repair' \in RepairState /\ RepairShape'
  <2> USE DEF RepairShape, RepairAt, RepairState
  <2>1. CASE RepairSnapshot BY <1>f, <2>1 DEF RepairSnapshot
  <2>2. CASE RepairVisit
    <3>1. CASE repair' = RepairIdle BY <3>1, RepairIdleType
    <3>2. CASE repair' = RepairAt("visit", repair.snap, repair.i + 1, None, {}, NoKey)
      BY <1>f, <3>2
    <3>3. CASE repair.i <= Len(repair.snap) /\ repair' = RepairAt("dial", repair.snap, repair.i, None, {}, NoKey)
      <4>1. repair.i \in DOMAIN repair.snap BY <1>f, <2>2, <3>3 DEF RepairVisit
      <4> QED BY <1>f, <3>3, <4>1
    <3> QED BY <1>f, <2>2, <3>1, <3>2, <3>3 DEF RepairVisit
  <2>3. CASE MigrateKeys
    <3>1. wsubs[Old] \in SUBSET Keys BY <1>f, <2>3 DEF MigrateKeys, Old, TypeOK
    <3> QED BY <1>f, <1>1, <2>3, <3>1 DEF MigrateKeys
  <2>4. CASE MigrateAdd BY <1>f, <1>1, <2>4 DEF MigrateAdd
  <2>5. CASE MigrateWrite BY <1>f, <1>1, <2>5 DEF MigrateWrite
  <2>6. CASE MigrateEnds
    <3>1. repair.i + 1 \in Nat \ {0} BY <1>f
    <3> QED BY <1>f, <2>6, <3>1 DEF MigrateEnds
  <2>7. ASSUME NEW k \in Keys, MigrateKey(k) PROVE repair' \in RepairState /\ RepairShape'
    BY <1>f, <1>1, <2>7 DEF MigrateKey
  <2> QED BY <2>1, <2>2, <2>3, <2>4, <2>5, <2>6, <2>7
<1>3. /\ subscriptions' \in [Keys -> Conns \cup {None}]
      /\ \A k \in Keys : subscriptions'[k] = subscriptions[k]
                         \/ (subscriptions'[k] = repair.new /\ repair.new \in Conns /\ link[repair.new] # "none")
  <2>1. CASE UNCHANGED subscriptions BY <2>1 DEF TypeOK
  <2>2. ASSUME NEW k \in Keys, MigrateKey(k)
        PROVE  /\ subscriptions' \in [Keys -> Conns \cup {None}]
               /\ \A j \in Keys : subscriptions'[j] = subscriptions[j]
                                  \/ (subscriptions'[j] = repair.new /\ repair.new \in Conns /\ link[repair.new] # "none")
    <3>1. repair.new \in Conns /\ link[repair.new] # "none" BY <2>2 DEF MigrateKey, RepairShape
    <3> QED BY <2>2, <3>1 DEF MigrateKey, TypeOK
  <2> QED BY <2>1, <2>2 DEF RepairSnapshot, RepairVisit, MigrateKeys, MigrateAdd, MigrateWrite, MigrateEnds, pool
<1>4. wsubs' \in [Conns -> SUBSET Keys] /\ remote' \in [Conns -> SUBSET Keys]
  <2>1. CASE MigrateAdd
    BY <2>1 DEF MigrateAdd, AddMigrated, RepairShape, TypeOK
  <2>2. CASE MigrateWrite
    BY <2>2 DEF MigrateWrite, Resubscribed, Served, RepairShape, TypeOK
  <2>3. CASE UNCHANGED <<wsubs, remote>> BY <2>3 DEF TypeOK
  <2> QED BY <2>1, <2>2, <2>3 DEF RepairSnapshot, RepairVisit, MigrateKeys, MigrateKey, MigrateEnds, pool
<1>5. PoolShape' BY <1>1, <1>3 DEF PoolShape
<1>6. OpShape' BY <1>1, OpKeeps
<1>7. TypeOK' BY <1>1, <1>2, <1>3, <1>4 DEF TypeOK
<1> QED BY <1>2, <1>5, <1>6, <1>7

LEMMA RepairDialShape ==
  ASSUME Shape, LinksAge, RepairDial PROVE Shape'
<1> USE DEF Shape
<1>f. repair.snap \in Seq(Conns) /\ repair.i \in Nat /\ repair.i \in DOMAIN repair.snap
  BY Fields DEF RepairDial, RepairShape
<1>1. link' \in [Conns -> Links] /\ fails' \in 0 .. MaxDialFails /\ repair' \in RepairState /\ RepairShape'
  <2>1. ASSUME NEW c \in Conns, Connect(c), repair' = RepairAt("replace", repair.snap, repair.i, c, {}, NoKey)
        PROVE  link' \in [Conns -> Links] /\ fails' \in 0 .. MaxDialFails /\ repair' \in RepairState /\ RepairShape'
    <3>1. link' \in [Conns -> Links] /\ fails' \in 0 .. MaxDialFails /\ link'[c] = "up"
      BY <2>1 DEF Connect, TypeOK, Links
    <3> QED BY <1>f, <2>1, <3>1 DEF RepairAt, RepairState, RepairShape
  <2>2. CASE ConnectFails /\ repair' = RepairSleep
    BY <2>2, RepairIdleType DEF ConnectFails, TypeOK, RepairShape
  <2> QED BY <2>1, <2>2 DEF RepairDial, AfterDialFails
<1>2. PoolShape' /\ (\A i \in DOMAIN connections : link[connections[i]] # "none")' BY PoolKeeps DEF RepairDial
<1>3. OpShape' BY OpKeeps DEF RepairDial
<1>4. TypeOK' BY <1>1, <1>2 DEF RepairDial, TypeOK
<1> QED BY <1>1, <1>2, <1>3, <1>4

LEMMA RepairReplaceShape ==
  ASSUME Shape, LinksAge, RepairReplace PROVE Shape'
<1> USE DEF Shape
<1>f. /\ repair.snap \in Seq(Conns) /\ repair.i \in Nat \ {0} /\ repair.i \in DOMAIN repair.snap
      /\ repair.new \in Conns /\ link[repair.new] # "none"
  BY Fields DEF RepairReplace, RepairShape
<1>1. /\ connections' \in Seq(Conns) /\ Len(connections') = Len(connections)
      /\ \A i \in DOMAIN connections' : link[connections'[i]] # "none"
      /\ closing = "closed" => connections' = <<>>
  <2>1. CASE repair.i <= Len(connections)
    <3>1. repair.i \in 1 .. Len(connections) BY <1>f, <2>1 DEF TypeOK
    <3>2. connections' = [connections EXCEPT ![repair.i] = repair.new] BY <2>1 DEF RepairReplace, Replaced
    <3>3. closing # "closed" BY <3>1 DEF TypeOK
    <3> QED BY <1>f, <3>1, <3>2, <3>3 DEF TypeOK
  <2>2. CASE connections' = connections BY <2>2 DEF TypeOK
  <2> QED BY <2>1, <2>2 DEF RepairReplace, Replaced
<1>2. repair' \in RepairState /\ RepairShape'
  BY <1>f DEF RepairReplace, RepairAt, RepairState, RepairShape
<1>3. PoolShape' BY <1>1 DEF PoolShape, RepairReplace
<1>4. OpShape' BY OpKeeps DEF RepairReplace
<1>5. TypeOK' BY <1>1, <1>2 DEF RepairReplace, TypeOK
<1> QED BY <1>2, <1>3, <1>4, <1>5

LEMMA ShapeStep == Shape /\ [Next]_vars => Shape'
<1> SUFFICES ASSUME Shape, [Next]_vars PROVE Shape' OBVIOUS
<1>a. LinksAge BY Aging DEF Shape
<1>1. CASE UNCHANGED vars BY <1>1 DEF vars, Shape, TypeOK, PoolShape, OpShape, RepairShape
<1>2. CASE \E k \in Keys : Subscribe(k) BY <1>a, <1>2, SubscribeShape
<1>3. CASE \E h \in handles : Unsubscribe(h) BY <1>a, <1>3, UnsubscribeShape
<1>4. CASE Call BY <1>a, <1>4, AcquireShape, CallShape DEF Call
<1>5. CASE Repair BY <1>a, <1>5, RepairStepShape, RepairDialShape, RepairReplaceShape DEF Repair
<1>6. CASE Cancel \/ Close BY <1>a, <1>6, CloseShape
<1>7. CASE (\E c \in Conns : Break(c) \/ ReadFails(c)) \/ HandleDisconnect BY <1>a, <1>7, NetworkShape
<1> QED BY <1>1, <1>2, <1>3, <1>4, <1>5, <1>6, <1>7 DEF Next

LEMMA ShapeInvariant == Spec => []Shape
BY ShapeInit, ShapeStep, PTL DEF Spec

\* TypeOK, with what it says of the pool: as many connections as allowed, all of them
\* dialled, none after Close, for every number of keys, calls, breaks and failed dials.
THEOREM TypeCorrect == Spec => []TypeOK
<1>1. Shape => TypeOK BY DEF Shape
<1> QED BY <1>1, ShapeInvariant, PTL

-----------------------------------------------------------------------------
(* Callbacks *)

LEMMA CallbacksStep == Shape /\ CallbacksOK /\ [Next]_vars => CallbacksOK'
<1> SUFFICES ASSUME Shape, CallbacksOK, [Next]_vars PROVE CallbacksOK' OBVIOUS
<1> USE DEF CallSteps
<1>f. /\ callbacks \in [Keys -> SUBSET Ids] /\ subscriptions \in [Keys -> Conns \cup {None}]
      /\ handles \subseteq Ids \X Keys
  BY DEF Shape, TypeOK
<1>1. CASE UNCHANGED <<subscriptions, callbacks, handles, op>> BY <1>1 DEF CallbacksOK
<1>2. ASSUME NEW k \in Keys, Subscribe(k) PROVE CallbacksOK'
  <2>1. CASE subscriptions[k] # None
    <3>1. UNCHANGED <<subscriptions, op>> /\ op.pc = "idle"
      BY <1>2, <2>1, OpIdleType DEF Subscribe
    <3>2. handles' = handles \cup {<<calls + 1, k>>}
          /\ callbacks' = [callbacks EXCEPT ![k] = @ \cup {calls + 1}]
      BY <1>2, <2>1 DEF Subscribe
    <3> QED BY <1>f, <2>1, <3>1, <3>2 DEF CallbacksOK
  <2>2. CASE subscriptions[k] = None
    <3>1. UNCHANGED <<subscriptions, callbacks, handles>> /\ op.pc = "idle" /\ op'.pc = "acquire" /\ op'.key = k
      BY <1>2, <2>2, OpIdleType DEF Subscribe, OpAt
    <3> QED BY <2>2, <3>1 DEF CallbacksOK
  <2> QED BY <2>1, <2>2
<1>3. ASSUME NEW h \in handles, Unsubscribe(h) PROVE CallbacksOK'
  <2>1. h = <<h[1], h[2]>> /\ h[2] \in Keys BY <1>f
  <2>2. op.pc = "idle" /\ handles' = handles \ {h} BY <1>3, OpIdleType DEF Unsubscribe
  <2>3. CASE subscriptions[h[2]] = None
    <3>1. UNCHANGED <<subscriptions, callbacks, op>> BY <1>3, <2>3 DEF Unsubscribe
    <3>2. callbacks[h[2]] = {} BY <2>1, <2>3 DEF CallbacksOK
    <3>3. \A k \in Keys, id \in Ids : <<id, k>> = h => k = h[2] OBVIOUS
    <3> QED BY <1>f, <2>1, <2>2, <3>1, <3>2, <3>3 DEF CallbacksOK
  <2>4. CASE subscriptions[h[2]] # None
    <3>1. /\ subscriptions' = [subscriptions EXCEPT ![h[2]] = None]
          /\ callbacks' = [callbacks EXCEPT ![h[2]] = {}]
          /\ op'.pc = "unsubcheck" /\ op'.key = h[2]
      BY <1>3, <2>4 DEF Unsubscribe, OpAt
    <3>3. \A k \in Keys, id \in Ids : <<id, k>> = h => k = h[2] OBVIOUS
    <3> QED BY <1>f, <2>1, <2>2, <3>1, <3>3 DEF CallbacksOK
  <2> QED BY <2>3, <2>4
<1>4. CASE AcquireConnection
  <2>1. UNCHANGED <<subscriptions, callbacks, handles>> /\ op.pc = "acquire" BY <1>4 DEF AcquireConnection
  <2>2. op'.pc \in {"idle", "store"} /\ (op'.pc = "store" => op'.key = op.key)
    BY <1>4, OpIdleType DEF AcquireConnection, OpAt
  <2> QED BY <2>1, <2>2 DEF CallbacksOK
<1>5. CASE StoreSubscription
  <2>1. op.key \in Keys /\ op.id \in Ids /\ op.conn \in Conns /\ op.conn # None /\ subscriptions[op.key] = None
    BY <1>5, ConnsFacts DEF StoreSubscription, Shape, OpShape, CallbacksOK
  <2>2. /\ subscriptions' = [subscriptions EXCEPT ![op.key] = op.conn]
        /\ callbacks' = [callbacks EXCEPT ![op.key] = @ \cup {op.id}]
        /\ op'.pc = "check" /\ op'.key = op.key /\ op'.id = op.id /\ op.pc = "store" /\ handles' = handles
    BY <1>5, <2>1 DEF StoreSubscription, OpAt
  <2> QED BY <1>f, <2>1, <2>2 DEF CallbacksOK
<1>6. CASE CheckConnected \/ WriteSubscribe
  <2>1. UNCHANGED <<subscriptions, callbacks, handles>> /\ op.pc \in CallSteps /\ op'.pc \in CallSteps
        /\ op'.key = op.key /\ op'.id = op.id
    BY <1>6 DEF CheckConnected, WriteSubscribe, OpAt, pool
  <2> QED BY <2>1 DEF CallbacksOK
<1>7. CASE Rollback
  <2>1. op.key \in Keys BY <1>7 DEF Rollback, Shape, OpShape
  <2>2. /\ subscriptions' = [subscriptions EXCEPT ![op.key] = None]
        /\ callbacks' = [callbacks EXCEPT ![op.key] = {}]
        /\ op'.pc = "idle" /\ handles' = handles
    BY <1>7, OpIdleType DEF Rollback
  <2> QED BY <1>f, <2>1, <2>2 DEF CallbacksOK
<1>8. CASE RecordSubscription
  <2>1. UNCHANGED <<subscriptions, callbacks>> /\ op'.pc = "idle" /\ handles' = handles \cup {<<op.id, op.key>>}
    BY <1>8, OpIdleType DEF RecordSubscription
  <2> QED BY <2>1 DEF CallbacksOK
<1>9. CASE UnsubscribeCheck \/ UnsubscribeWrite
  <2>1. /\ UNCHANGED <<subscriptions, callbacks, handles>> /\ op.pc \in {"unsubcheck", "unsubwrite"}
        /\ op'.pc = "idle" \/ (op'.pc = "unsubwrite" /\ op'.key = op.key)
    BY <1>9, OpIdleType DEF UnsubscribeCheck, UnsubscribeWrite, OpAt, pool
  <2> QED BY <2>1 DEF CallbacksOK
<1>10. ASSUME NEW k \in Keys, MigrateKey(k) PROVE CallbacksOK'
  <2>1. UNCHANGED <<callbacks, handles, op>> BY <1>10 DEF MigrateKey
  <2>2. \A j \in Keys : (subscriptions[j] = None) <=> (subscriptions'[j] = None)
    BY <1>10, <1>f, Fields, ConnsFacts DEF MigrateKey, Shape, RepairShape, Old
  <2>3. op.pc # "idle" => op.key \in Keys BY DEF Shape, OpShape
  <2> QED BY <2>1, <2>2, <2>3 DEF CallbacksOK
<1>11. CASE Repair
  BY <1>1, <1>10, <1>11 DEF Repair, RepairSnapshot, RepairVisit, RepairDial, RepairReplace, MigrateKeys, MigrateAdd, MigrateWrite, MigrateEnds, pool
<1>12. CASE UNCHANGED vars \/ HandleDisconnect \/ Cancel \/ Close \/ (\E c \in Conns : Break(c) \/ ReadFails(c))
  BY <1>1, <1>12 DEF vars, HandleDisconnect, Cancel, Close, Break, ReadFails, pool
<1> QED BY <1>2, <1>3, <1>4, <1>5, <1>6, <1>7, <1>8, <1>9, <1>11, <1>12 DEF Next, Call

-----------------------------------------------------------------------------
(* Where a key is recorded and served *)

\* What the two parts of SubscribedOK say of a key.
Recorded(k) ==
    \/ k \in wsubs[subscriptions[k]]
    \/ op.key = k /\ op.pc \in CallSteps /\ subscriptions[k] = op.conn
    \/ repair.key = k /\ repair.pc = "add" /\ subscriptions[k] = repair.new
ServedOrDue(k) ==
    \/ k \in remote[subscriptions[k]]
    \/ op.key = k /\ op.pc \in {"check", "write"} /\ subscriptions[k] = op.conn
    \/ repair.key = k /\ repair.pc \in {"add", "write"} /\ subscriptions[k] = repair.new

LEMMA SubscribedParts ==
  /\ SubscribedOK <=> \A k \in Keys : subscriptions[k] # None =>
                         Recorded(k) /\ (link[subscriptions[k]] = "up" => ServedOrDue(k))
  /\ SubscribedOK' <=> \A k \in Keys : subscriptions'[k] # None =>
                         Recorded(k)' /\ (link'[subscriptions'[k]] = "up" => ServedOrDue(k)')
BY DEF SubscribedOK, Recorded, ServedOrDue

LEMMA SubscribedStep == Shape /\ CallbacksOK /\ SubscribedOK /\ [Next]_vars => SubscribedOK'
<1> SUFFICES ASSUME Shape, CallbacksOK, SubscribedOK, [Next]_vars,
                    NEW k \in Keys, subscriptions'[k] # None
             PROVE  Recorded(k)' /\ (link'[subscriptions'[k]] = "up" => ServedOrDue(k)')
  BY SubscribedParts
<1> USE DEF CallSteps
<1>f. /\ wsubs \in [Conns -> SUBSET Keys] /\ remote \in [Conns -> SUBSET Keys]
      /\ subscriptions \in [Keys -> Conns \cup {None}] /\ link \in [Conns -> Links]
      /\ NoKey # k
  BY DEF Shape, TypeOK
<1>a. LinksAge BY Aging DEF Shape
<1>s. subscriptions[k] # None =>
        /\ Recorded(k) /\ (link[subscriptions[k]] = "up" => ServedOrDue(k))
        /\ subscriptions[k] \in Conns /\ link[subscriptions[k]] # "none"
        /\ link'[subscriptions[k]] = "up" => link[subscriptions[k]] = "up"
  <2>1. subscriptions[k] # None => subscriptions[k] \in Conns /\ link[subscriptions[k]] # "none"
    BY <1>f DEF Shape, PoolShape
  <2> QED BY <1>a, <2>1, SubscribedParts DEF LinksAge
\* A step that changes neither the call nor the repair nor a key.
<1>1. ASSUME UNCHANGED <<subscriptions, op, repair, wsubs>>,
             \A c \in Conns : link'[c] = "up" /\ link[c] = "up" => remote'[c] = remote[c]
      PROVE  Recorded(k)' /\ (link'[subscriptions'[k]] = "up" => ServedOrDue(k)')
  BY <1>1, <1>s DEF Recorded, ServedOrDue
<1>2. CASE \E j \in Keys : Subscribe(j)
  <2>1. UNCHANGED <<subscriptions, repair, wsubs, remote, link>> /\ op.pc = "idle"
    BY <1>2, OpIdleType DEF Subscribe
  <2> QED BY <1>s, <2>1 DEF Recorded, ServedOrDue
<1>3. ASSUME NEW h \in handles, Unsubscribe(h)
      PROVE  Recorded(k)' /\ (link'[subscriptions'[k]] = "up" => ServedOrDue(k)')
  <2>1. UNCHANGED <<repair, wsubs, remote, link>> /\ op.pc = "idle" BY <1>3, OpIdleType DEF Unsubscribe
  <2>2. subscriptions'[k] = subscriptions[k] BY <1>3, <1>f DEF Unsubscribe
  <2> QED BY <1>s, <2>1, <2>2 DEF Recorded, ServedOrDue
<1>4. CASE AcquireConnection
  <2>1. UNCHANGED <<subscriptions, repair, wsubs, remote>> /\ op.pc = "acquire" BY <1>4 DEF AcquireConnection
  <2> QED BY <1>s, <2>1 DEF Recorded, ServedOrDue
<1>5. CASE StoreSubscription
  <2>1. op.key \in Keys /\ op.conn \in Conns /\ op.conn # None /\ subscriptions[op.key] = None
    BY <1>5, ConnsFacts DEF StoreSubscription, Shape, OpShape, CallbacksOK
  <2>2. /\ subscriptions' = [subscriptions EXCEPT ![op.key] = op.conn]
        /\ op'.pc = "check" /\ op'.key = op.key /\ op'.conn = op.conn /\ op.pc = "store"
        /\ UNCHANGED <<repair, wsubs, remote, link>>
    BY <1>5, <2>1 DEF StoreSubscription, OpAt
  <2>3. CASE k = op.key BY <1>f, <2>2, <2>3 DEF Recorded, ServedOrDue
  <2>4. CASE k # op.key BY <1>f, <1>s, <2>2, <2>4 DEF Recorded, ServedOrDue
  <2> QED BY <2>3, <2>4
<1>6. CASE CheckConnected
  <2>1. /\ UNCHANGED <<subscriptions, repair, wsubs, remote, link>>
        /\ op.pc = "check" /\ op'.key = op.key /\ op'.conn = op.conn
        /\ op'.pc = "write" \/ (op'.pc = "record" /\ link[op.conn] # "up")
    BY <1>6 DEF CheckConnected, OpAt, IsConnected, pool
  <2> QED BY <1>s, <2>1 DEF Recorded, ServedOrDue
<1>7. CASE WriteSubscribe
  <2>1. /\ UNCHANGED <<subscriptions, repair, wsubs, link>>
        /\ op.pc = "write" /\ op'.key = op.key /\ op'.conn = op.conn
        /\ op'.pc \in {"record", "rollback"} /\ op.conn \in Conns
    BY <1>7 DEF WriteSubscribe, OpAt, Shape, OpShape
  <2>2. \A c \in Conns : remote[c] \subseteq remote'[c] /\ (c = op.conn /\ link[c] = "up" => op.key \in remote'[c])
    BY <1>7, <1>f, <2>1 DEF WriteSubscribe, Served
  <2> QED BY <1>s, <2>1, <2>2 DEF Recorded, ServedOrDue
<1>8. CASE Rollback
  <2>1. UNCHANGED <<repair, wsubs, remote, link>> /\ op.pc = "rollback" /\ op.key \in Keys
        /\ subscriptions' = [subscriptions EXCEPT ![op.key] = None]
    BY <1>8 DEF Rollback, Shape, OpShape
  <2>2. k # op.key /\ subscriptions'[k] = subscriptions[k] BY <1>f, <2>1
  <2> QED BY <1>s, <2>1, <2>2 DEF Recorded, ServedOrDue
<1>9. CASE RecordSubscription
  <2>1. UNCHANGED <<subscriptions, repair, remote, link>> /\ op.pc = "record" /\ op.conn \in Conns
        /\ wsubs' = [wsubs EXCEPT ![op.conn] = @ \cup {op.key}]
    BY <1>9 DEF RecordSubscription, Shape, OpShape
  <2>2. \A c \in Conns : wsubs[c] \subseteq wsubs'[c] /\ (c = op.conn => op.key \in wsubs'[c]) BY <1>f, <2>1
  <2> QED BY <1>s, <2>1, <2>2 DEF Recorded, ServedOrDue
<1>10. CASE UnsubscribeCheck \/ UnsubscribeWrite
  <2>1. UNCHANGED <<subscriptions, repair, link>> /\ op.pc \in {"unsubcheck", "unsubwrite"}
        /\ op.conn \in Conns /\ subscriptions[op.key] = None
    BY <1>10 DEF UnsubscribeCheck, UnsubscribeWrite, Shape, OpShape, CallbacksOK, pool
  <2>2. k # op.key BY <2>1
  <2>3. \A c \in Conns : (k \in wsubs[c] => k \in wsubs'[c]) /\ (k \in remote[c] => k \in remote'[c])
    BY <1>10, <1>f, <2>1, <2>2 DEF UnsubscribeCheck, UnsubscribeWrite, pool
  <2> QED BY <1>s, <2>1, <2>2, <2>3 DEF Recorded, ServedOrDue
<1>11. CASE Repair
  <2>u. UNCHANGED op
    BY <1>11 DEF Repair, RepairSnapshot, RepairVisit, RepairDial, RepairReplace, MigrateKeys, MigrateKey, MigrateAdd, MigrateWrite, MigrateEnds
  <2>1. CASE RepairSnapshot \/ RepairVisit \/ RepairDial \/ RepairReplace \/ MigrateKeys \/ MigrateEnds
    <3>1. UNCHANGED <<subscriptions, wsubs, remote>> /\ repair.pc \notin {"add", "write"}
      BY <2>1 DEF RepairSnapshot, RepairVisit, RepairDial, RepairReplace, MigrateKeys, MigrateEnds, pool
    <3> QED BY <1>s, <2>u, <3>1 DEF Recorded, ServedOrDue
  <2>2. ASSUME NEW j \in Keys, MigrateKey(j)
        PROVE  Recorded(k)' /\ (link'[subscriptions'[k]] = "up" => ServedOrDue(k)')
    <3>1. UNCHANGED <<wsubs, remote, link>> /\ repair.pc = "migrate" BY <2>2 DEF MigrateKey
    <3>2. CASE j = k /\ subscriptions[j] = Old
      <4>1. subscriptions'[k] = repair.new /\ repair'.pc = "add" /\ repair'.key = k /\ repair'.new = repair.new
        BY <1>f, <2>2, <3>2 DEF MigrateKey, RepairAt
      <4> QED BY <4>1 DEF Recorded, ServedOrDue
    <3>3. CASE subscriptions'[k] = subscriptions[k]
      BY <1>s, <2>u, <3>1, <3>3 DEF Recorded, ServedOrDue
    <3> QED BY <1>f, <2>2, <3>2, <3>3 DEF MigrateKey
  <2>3. CASE MigrateAdd
    <3>1. /\ UNCHANGED <<subscriptions, remote, link>> /\ repair.pc = "add" /\ repair.new \in Conns
          /\ repair'.pc = "write" /\ repair'.key = repair.key /\ repair'.new = repair.new
          /\ wsubs' = [wsubs EXCEPT ![repair.new] = @ \cup {repair.key}]
      BY <2>3 DEF MigrateAdd, AddMigrated, RepairAt, Shape, RepairShape
    <3>2. \A c \in Conns : wsubs[c] \subseteq wsubs'[c] /\ (c = repair.new => repair.key \in wsubs'[c])
      BY <1>f, <3>1
    <3> QED BY <1>s, <2>u, <3>1, <3>2 DEF Recorded, ServedOrDue
  <2>4. CASE MigrateWrite
    <3>1. UNCHANGED <<subscriptions, wsubs, link>> /\ repair.pc = "write" /\ repair.new \in Conns
      BY <2>4 DEF MigrateWrite, Shape, RepairShape
    <3>2. \A c \in Conns : /\ remote[c] \subseteq remote'[c]
                           /\ c = repair.new /\ link[c] = "up" => repair.key \in remote'[c]
      BY <1>f, <2>4, <3>1 DEF MigrateWrite, Resubscribed, Served
    <3> QED BY <1>s, <2>u, <3>1, <3>2 DEF Recorded, ServedOrDue
  <2> QED BY <1>11, <2>1, <2>2, <2>3, <2>4 DEF Repair
<1>12. CASE HandleDisconnect
  <2>1. UNCHANGED <<subscriptions, op, wsubs, remote, link>> BY <1>12 DEF HandleDisconnect, pool
  <2>2. repair' = repair \/ repair.pc = "idle" BY <1>12 DEF HandleDisconnect
  <2> QED BY <1>s, <2>1, <2>2 DEF Recorded, ServedOrDue
<1>13. CASE \E c \in Conns : Break(c) \/ ReadFails(c)
  <2>1. \A c \in Conns : link'[c] = "up" /\ link[c] = "up" => remote'[c] = remote[c]
    BY <1>13, <1>f DEF Break, ReadFails
  <2> QED BY <1>1, <1>13, <2>1 DEF Break, ReadFails
<1>14. CASE Cancel \/ Close
  <2>1. \A c \in Conns : link'[c] = "up" /\ link[c] = "up" => remote'[c] = remote[c]
    BY <1>14, <1>f DEF Cancel, Close, CloseClients
  <2> QED BY <1>1, <1>14, <2>1 DEF Cancel, Close
<1>15. CASE UNCHANGED vars BY <1>1, <1>15 DEF vars
<1> QED BY <1>2, <1>3, <1>4, <1>5, <1>6, <1>7, <1>8, <1>9, <1>10, <1>11, <1>12, <1>13, <1>14, <1>15 DEF Next, Call

-----------------------------------------------------------------------------

LEMMA InvInit == Init => Inv
<1> SUFFICES ASSUME Init PROVE Inv OBVIOUS
<1>1. \A k \in Keys : subscriptions[k] = None /\ callbacks[k] = {} BY DEF Init
<1>2. op.pc = "idle" BY OpIdleType DEF Init
<1> QED BY <1>1, <1>2, ShapeInit DEF Inv, CallbacksOK, SubscribedOK

LEMMA InvInvariant == Spec => []Inv
<1>1. Inv /\ [Next]_vars => Inv' BY ShapeStep, CallbacksStep, SubscribedStep DEF Inv
<1> QED BY <1>1, InvInit, PTL DEF Spec

\* acquireConnection dials connections that nobody appends to connections: the pool
\* never holds more than the one of Start, and so a repair, which walks the pool, can only
\* ever reach that one.
THEOREM PoolNeverGrows == Spec => [](Len(connections) <= 1 /\ Len(connections) <= MaxConnections)
<1>1. Inv => Len(connections) <= 1 /\ Len(connections) <= MaxConnections
  BY DEF Inv, Shape, PoolShape, TypeOK
<1> QED BY <1>1, InvInvariant, PTL

\* A callback the dispatcher would call belongs to a handle its owner still
\* holds or is about to get: neither a failed nor a cancelled subscription
\* leaves its callback behind.
NoStaleCallback ==
    \A k \in Keys : \A id \in callbacks[k] :
        <<id, k>> \in handles \/ (op.id = id /\ op.key = k)

\* NoStaleCallback: a registered callback belongs to a handle that its owner holds or is
\* about to get, whatever subscriptions fail, are cancelled or migrate.
THEOREM NoCallbackIsStale == Spec => []NoStaleCallback
<1>1. Inv => NoStaleCallback BY DEF Inv, CallbacksOK, NoStaleCallback
<1> QED BY <1>1, InvInvariant, PTL

\* RecordedAtHome: the wrapper of a key's connection has the key, so that a repair of
\* that connection finds it, in every interleaving of calls, repairs and breaks.
THEOREM KeysAreRecordedAtHome == Spec => []RecordedAtHome
<1>1. Inv => RecordedAtHome
  BY DEF Inv, SubscribedOK, RecordedAtHome, Pending, CallSteps
<1> QED BY <1>1, InvInvariant, PTL

\* ServedWhenUp: a subscribed key whose connection is up is served by the exchange.
THEOREM KeysAreServedWhenUp == Spec => []ServedWhenUp
<1>1. Inv => ServedWhenUp
  BY DEF Inv, SubscribedOK, ServedWhenUp, Pending, CallSteps
<1> QED BY <1>1, InvInvariant, PTL

-----------------------------------------------------------------------------
(* The pool implements SubscriptionRegistry *)

\* A subscribed key has a callback; one whose first call is under way has that call's only.
RegisteredOK ==
    /\ \A k \in Keys : subscriptions[k] # None => callbacks[k] # {}
    /\ op.pc \in CallSteps => callbacks[op.key] = {op.id}

\* callbackIDSeq is ahead of every id in use, and the call that has taken the last one
\* is its only owner.
UsedId(id) == (\E k \in Keys : id \in callbacks[k]) \/ (\E h \in handles : h[1] = id)
NumberedOK ==
    /\ \A id \in Ids : UsedId(id) => id <= calls
    /\ op.pc \in {"acquire", "store"} => op.id <= calls /\ ~UsedId(op.id)
    /\ op.pc \in CallSteps => op.id <= calls

RegistryOK == RegisteredOK /\ NumberedOK

LEMMA RegistryInit == Init => RegistryOK
BY OpIdleType DEF Init, RegistryOK, RegisteredOK, NumberedOK, UsedId, CallSteps

\* A step that adds no id of its own keeps NumberedOK.
LEMMA NumberedKeeps ==
  ASSUME NumberedOK, calls' = calls, \A id \in Ids : UsedId(id)' => UsedId(id),
         \/ op'.pc \notin {"acquire", "store"} \cup CallSteps
         \/ op.pc \in {"acquire", "store"} /\ op'.pc \in {"acquire", "store"} /\ op'.id = op.id /\ op.id \in Ids
         \/ op.pc \in CallSteps /\ op'.pc \in CallSteps /\ op'.id = op.id
  PROVE  NumberedOK'
BY DEF NumberedOK, CallSteps

LEMMA RegistryStep == Shape /\ CallbacksOK /\ RegistryOK /\ [Next]_vars => RegistryOK'
<1> SUFFICES ASSUME Shape, CallbacksOK, RegistryOK, [Next]_vars PROVE RegisteredOK' /\ NumberedOK'
  BY DEF RegistryOK
<1> USE DEF CallSteps
<1>f. /\ callbacks \in [Keys -> SUBSET Ids] /\ subscriptions \in [Keys -> Conns \cup {None}]
      /\ handles \subseteq Ids \X Keys /\ calls \in 0 .. MaxCalls /\ Ids \subseteq Nat
      /\ \A h \in handles : h[1] \in Ids /\ h[2] \in Keys
  BY ConnsFacts DEF Shape, TypeOK
<1>r. RegisteredOK /\ NumberedOK BY DEF RegistryOK
<1>o. /\ op.pc # "idle" => op.key \in Keys
      /\ op.pc \in {"acquire", "store"} \cup CallSteps => op.id \in Ids
  BY DEF Shape, OpShape
<1>1. CASE UNCHANGED <<subscriptions, callbacks, handles, op, calls>>
  BY <1>1, <1>r DEF RegisteredOK, NumberedOK, UsedId
<1>2. ASSUME NEW k \in Keys, Subscribe(k) PROVE RegisteredOK' /\ NumberedOK'
  <2>0. calls + 1 \in Ids /\ ~UsedId(calls + 1) /\ calls' = calls + 1 /\ op.pc = "idle"
    BY <1>2, <1>f, <1>r, OpIdleType DEF Subscribe, NumberedOK, Ids
  <2>1. CASE subscriptions[k] # None
    <3>1. UNCHANGED <<subscriptions, op>> BY <1>2, <2>1 DEF Subscribe
    <3>2. handles' = handles \cup {<<calls + 1, k>>}
          /\ callbacks' = [callbacks EXCEPT ![k] = @ \cup {calls + 1}]
      BY <1>2, <2>1 DEF Subscribe
    <3>3. RegisteredOK' BY <1>f, <1>r, <2>0, <3>1, <3>2 DEF RegisteredOK
    <3>4. \A id \in Ids : UsedId(id)' => UsedId(id) \/ id = calls + 1
      BY <1>f, <3>2 DEF UsedId
    <3>5. NumberedOK' BY <1>f, <1>r, <2>0, <3>1, <3>4 DEF NumberedOK
    <3> QED BY <3>3, <3>5
  <2>2. CASE subscriptions[k] = None
    <3>1. /\ UNCHANGED <<subscriptions, callbacks, handles>>
          /\ op'.pc = "acquire" /\ op'.key = k /\ op'.id = calls + 1
      BY <1>2, <2>2 DEF Subscribe, OpAt
    <3>2. \A id \in Ids : UsedId(id)' <=> UsedId(id) BY <3>1 DEF UsedId
    <3>3. NumberedOK' BY <1>f, <1>r, <2>0, <3>1, <3>2 DEF NumberedOK
    <3> QED BY <1>r, <3>1, <3>3 DEF RegisteredOK
  <2> QED BY <2>1, <2>2
<1>3. ASSUME NEW h \in handles, Unsubscribe(h) PROVE RegisteredOK' /\ NumberedOK'
  <2>1. h[2] \in Keys /\ op.pc = "idle" /\ handles' = handles \ {h} /\ calls' = calls
    BY <1>3, <1>f, OpIdleType DEF Unsubscribe
  <2>2. CASE subscriptions[h[2]] = None
    <3>1. UNCHANGED <<subscriptions, callbacks, op>> BY <1>3, <2>2 DEF Unsubscribe
    <3>2. \A id \in Ids : UsedId(id)' => UsedId(id) BY <2>1, <3>1 DEF UsedId
    <3> QED BY <1>r, <2>1, <3>1, <3>2, NumberedKeeps DEF RegisteredOK
  <2>3. CASE subscriptions[h[2]] # None
    <3>1. /\ subscriptions' = [subscriptions EXCEPT ![h[2]] = None]
          /\ callbacks' = [callbacks EXCEPT ![h[2]] = {}]
          /\ op'.pc = "unsubcheck"
      BY <1>3, <2>3 DEF Unsubscribe, OpAt
    <3>2. \A id \in Ids : UsedId(id)' => UsedId(id) BY <1>f, <2>1, <3>1 DEF UsedId
    <3> QED BY <1>f, <1>r, <2>1, <3>1, <3>2, NumberedKeeps DEF RegisteredOK
  <2> QED BY <2>2, <2>3
<1>4. CASE AcquireConnection
  <2>1. UNCHANGED <<subscriptions, callbacks, handles, calls>> /\ op.pc = "acquire" BY <1>4 DEF AcquireConnection
  <2>2. op'.pc \in {"idle", "store"} /\ (op'.pc = "store" => op'.id = op.id)
    BY <1>4, OpIdleType DEF AcquireConnection, OpAt
  <2>3. \A id \in Ids : UsedId(id)' => UsedId(id) BY <2>1 DEF UsedId
  <2> QED BY <1>o, <1>r, <2>1, <2>2, <2>3, NumberedKeeps DEF RegisteredOK
<1>5. CASE StoreSubscription
  <2>1. op.key \in Keys /\ op.id \in Ids /\ op.pc = "store" /\ subscriptions[op.key] = None /\ callbacks[op.key] = {}
    BY <1>5, <1>o DEF StoreSubscription, CallbacksOK
  <2>2. /\ subscriptions' = [subscriptions EXCEPT ![op.key] = op.conn]
        /\ callbacks' = [callbacks EXCEPT ![op.key] = @ \cup {op.id}]
        /\ op'.pc = "check" /\ op'.key = op.key /\ op'.id = op.id /\ UNCHANGED <<handles, calls>>
    BY <1>5, <2>1 DEF StoreSubscription, OpAt
  <2>3. \A id \in Ids : UsedId(id)' => UsedId(id) \/ id = op.id BY <1>f, <2>1, <2>2 DEF UsedId
  <2>4. NumberedOK' BY <1>r, <2>1, <2>2, <2>3 DEF NumberedOK
  <2> QED BY <1>f, <1>r, <2>1, <2>2, <2>4 DEF RegisteredOK
<1>6. CASE CheckConnected \/ WriteSubscribe
  <2>1. UNCHANGED <<subscriptions, callbacks, handles, calls>> /\ op.pc \in CallSteps /\ op'.pc \in CallSteps
        /\ op'.key = op.key /\ op'.id = op.id
    BY <1>6 DEF CheckConnected, WriteSubscribe, OpAt, pool
  <2>2. \A id \in Ids : UsedId(id)' => UsedId(id) BY <2>1 DEF UsedId
  <2> QED BY <1>r, <2>1, <2>2, NumberedKeeps DEF RegisteredOK
<1>7. CASE Rollback
  <2>1. /\ subscriptions' = [subscriptions EXCEPT ![op.key] = None]
        /\ callbacks' = [callbacks EXCEPT ![op.key] = {}]
        /\ op'.pc = "idle" /\ UNCHANGED <<handles, calls>> /\ op.key \in Keys
    BY <1>7, <1>o, OpIdleType DEF Rollback
  <2>2. \A id \in Ids : UsedId(id)' => UsedId(id) BY <1>f, <2>1 DEF UsedId
  <2> QED BY <1>f, <1>r, <2>1, <2>2, NumberedKeeps DEF RegisteredOK
<1>8. CASE RecordSubscription
  <2>1. /\ UNCHANGED <<subscriptions, callbacks, calls>> /\ op'.pc = "idle"
        /\ handles' = handles \cup {<<op.id, op.key>>} /\ op.key \in Keys /\ op.pc = "record"
    BY <1>8, <1>o, OpIdleType DEF RecordSubscription
  <2>2. op.id \in callbacks[op.key] BY <1>r, <2>1 DEF RegisteredOK
  <2>3. \A id \in Ids : UsedId(id)' => UsedId(id) BY <2>1, <2>2 DEF UsedId
  <2> QED BY <1>r, <2>1, <2>3, NumberedKeeps DEF RegisteredOK
<1>9. CASE UnsubscribeCheck \/ UnsubscribeWrite
  <2>1. UNCHANGED <<subscriptions, callbacks, handles, calls>> /\ op'.pc \in {"idle", "unsubwrite"}
    BY <1>9, OpIdleType DEF UnsubscribeCheck, UnsubscribeWrite, OpAt, pool
  <2>2. \A id \in Ids : UsedId(id)' => UsedId(id) BY <2>1 DEF UsedId
  <2> QED BY <1>r, <2>1, <2>2, NumberedKeeps DEF RegisteredOK
<1>10. ASSUME NEW k \in Keys, MigrateKey(k) PROVE RegisteredOK' /\ NumberedOK'
  <2>1. UNCHANGED <<callbacks, handles, op, calls>> BY <1>10 DEF MigrateKey
  <2>2. \A j \in Keys : (subscriptions[j] = None) <=> (subscriptions'[j] = None)
    BY <1>10, <1>f, Fields, ConnsFacts DEF MigrateKey, Shape, RepairShape, Old
  <2>3. NumberedOK' BY <1>r, <2>1 DEF NumberedOK, UsedId
  <2> QED BY <1>r, <2>1, <2>2, <2>3 DEF RegisteredOK
<1>11. CASE Repair
  BY <1>1, <1>10, <1>11 DEF Repair, RepairSnapshot, RepairVisit, RepairDial, RepairReplace, MigrateKeys, MigrateAdd, MigrateWrite, MigrateEnds, pool
<1>12. CASE UNCHANGED vars \/ HandleDisconnect \/ Cancel \/ Close \/ (\E c \in Conns : Break(c) \/ ReadFails(c))
  BY <1>1, <1>12 DEF vars, HandleDisconnect, Cancel, Close, Break, ReadFails, pool
<1> QED BY <1>2, <1>3, <1>4, <1>5, <1>6, <1>7, <1>8, <1>9, <1>11, <1>12 DEF Next, Call

LEMMA RegistryInvariant == Spec => [](Inv /\ RegistryOK)
<1>1. Inv /\ RegistryOK /\ [Next]_vars => RegistryOK' BY RegistryStep DEF Inv
<1> QED BY <1>1, InvInvariant, RegistryInit, PTL DEF Spec

Seen == <<callbacks, handles, Trying>>

\* Every step of the pool is a step of the registry, or drops the other callbacks of a
\* cancelled handle's key, or changes nothing the registry shows.
LEMMA RegistrySimulates ==
  Inv /\ RegistryOK /\ [Next]_vars => [Registry!Next \/ DropsOthers]_Seen
<1> SUFFICES ASSUME Inv, RegistryOK, [Next]_vars
             PROVE  Registry!Next \/ DropsOthers \/ UNCHANGED Seen
  OBVIOUS
<1> USE DEF CallSteps
<1>f. /\ callbacks \in [Keys -> SUBSET Ids] /\ handles \subseteq Ids \X Keys
      /\ calls \in 0 .. MaxCalls /\ Ids \subseteq Nat
      /\ \A h \in handles : h[1] \in Ids /\ h[2] \in Keys
  BY ConnsFacts DEF Inv, Shape, TypeOK
<1>r. RegisteredOK /\ NumberedOK /\ CallbacksOK BY DEF RegistryOK, Inv
<1>o. /\ op.pc # "idle" => op.key \in Keys
      /\ op.pc \in {"acquire", "store"} \cup CallSteps => op.id \in Ids
  BY DEF Inv, Shape, OpShape
<1>t. /\ op.pc \in CallSteps => Trying = <<op.id, op.key>> /\ Trying # <<>>
      /\ op.pc \notin CallSteps => Trying = <<>>
      /\ op'.pc \in CallSteps => Trying' = <<op'.id, op'.key>>
      /\ op'.pc \notin CallSteps => Trying' = <<>>
  BY DEF Trying
<1>u. \A id : UsedId(id) <=> Registry!Used(id) BY DEF UsedId, Registry!Used
<1>1. CASE UNCHANGED <<callbacks, handles, op>> BY <1>1 DEF Seen, Trying
<1>2. ASSUME NEW k \in Keys, Subscribe(k) PROVE Registry!Next \/ UNCHANGED Seen
  <2>0. calls + 1 \in Ids /\ ~UsedId(calls + 1) /\ op.pc = "idle"
    BY <1>2, <1>f, <1>r, OpIdleType DEF Subscribe, NumberedOK, Ids
  <2>1. CASE subscriptions[k] # None
    <3>1. /\ UNCHANGED op /\ handles' = handles \cup {<<calls + 1, k>>}
          /\ callbacks' = [callbacks EXCEPT ![k] = @ \cup {calls + 1}]
      BY <1>2, <2>1 DEF Subscribe
    <3>2. callbacks[k] # {} BY <1>r, <2>1 DEF RegisteredOK
    <3>3. Registry!Join(calls + 1, k)
      BY <1>t, <1>u, <2>0, <3>1, <3>2 DEF Registry!Join, Registry!NoCall
    <3>4. calls + 1 \in callbacks'[k] BY <1>f, <3>1
    <3> QED BY <3>3, <3>4 DEF Registry!Next
  <2>2. CASE subscriptions[k] = None
    <3>1. UNCHANGED <<callbacks, handles>> /\ op'.pc = "acquire" BY <1>2, <2>2 DEF Subscribe, OpAt
    <3> QED BY <1>t, <2>0, <3>1 DEF Seen
  <2> QED BY <2>1, <2>2
<1>3. ASSUME NEW h \in handles, Unsubscribe(h) PROVE Registry!Next \/ DropsOthers
  <2>1. h[2] \in Keys /\ op.pc = "idle" /\ handles' = handles \ {h}
    BY <1>3, <1>f, OpIdleType DEF Unsubscribe
  <2>2. callbacks' = [callbacks EXCEPT ![h[2]] = {}]
    <3>1. CASE subscriptions[h[2]] = None
      BY <1>3, <1>f, <1>r, <2>1, <3>1 DEF Unsubscribe, CallbacksOK
    <3>2. CASE subscriptions[h[2]] # None BY <1>3, <3>2 DEF Unsubscribe
    <3> QED BY <3>1, <3>2
  <2>3. op'.pc \notin CallSteps BY <1>3, <2>1 DEF Unsubscribe, OpAt
  <2>4. CASE callbacks[h[2]] \ {h[1]} = {}
    <3>1. Registry!Cancel(h) BY <1>t, <2>1, <2>2, <2>3, <2>4 DEF Registry!Cancel, Registry!NoCall
    <3> QED BY <3>1 DEF Registry!Next
  <2>5. CASE callbacks[h[2]] \ {h[1]} # {} BY <2>1, <2>2, <2>5 DEF DropsOthers
  <2> QED BY <2>4, <2>5
<1>5. CASE StoreSubscription
  <2>1. op.key \in Keys /\ op.id \in Ids /\ op.pc = "store" /\ subscriptions[op.key] = None /\ callbacks[op.key] = {}
    BY <1>5, <1>o, <1>r DEF StoreSubscription, CallbacksOK
  <2>2. /\ callbacks' = [callbacks EXCEPT ![op.key] = {op.id}]
        /\ op'.pc = "check" /\ op'.key = op.key /\ op'.id = op.id /\ UNCHANGED handles
    BY <1>5, <1>f, <2>1 DEF StoreSubscription, OpAt
  <2>3. ~UsedId(op.id) BY <1>r, <2>1 DEF NumberedOK
  <2>4. Registry!Try(op.id, op.key)
    BY <1>t, <1>u, <2>1, <2>2, <2>3 DEF Registry!Try, Registry!NoCall
  <2>5. op.id \in callbacks'[op.key] BY <1>f, <2>1, <2>2
  <2> QED BY <2>1, <2>4, <2>5 DEF Registry!Next
<1>6. CASE CheckConnected \/ WriteSubscribe
  <2>1. UNCHANGED <<callbacks, handles>> /\ op.pc \in CallSteps /\ op'.pc \in CallSteps
        /\ op'.key = op.key /\ op'.id = op.id
    BY <1>6 DEF CheckConnected, WriteSubscribe, OpAt, pool
  <2> QED BY <1>t, <2>1 DEF Seen
<1>7. CASE Rollback
  <2>1. /\ callbacks' = [callbacks EXCEPT ![op.key] = {}] /\ UNCHANGED handles
        /\ op'.pc = "idle" /\ op.pc = "rollback"
    BY <1>7, OpIdleType DEF Rollback
  <2>2. callbacks[op.key] = {op.id} /\ op.key \in Keys BY <1>o, <1>r, <2>1 DEF RegisteredOK
  <2>3. Trying = <<op.id, op.key>> /\ Trying # <<>> /\ Trying' = <<>> BY <1>t, <2>1
  <2>4. callbacks' = [callbacks EXCEPT ![Trying[2]] = @ \ {Trying[1]}] BY <1>f, <2>1, <2>2, <2>3
  <2>5. Registry!Fail BY <2>1, <2>3, <2>4 DEF Registry!Fail, Registry!NoCall
  <2> QED BY <2>5 DEF Registry!Next
<1>8. CASE RecordSubscription
  <2>1. /\ UNCHANGED callbacks /\ op'.pc = "idle" /\ op.pc = "record"
        /\ handles' = handles \cup {<<op.id, op.key>>}
    BY <1>8, OpIdleType DEF RecordSubscription
  <2>2. Registry!Succeed BY <1>t, <2>1 DEF Registry!Succeed, Registry!NoCall
  <2> QED BY <2>2 DEF Registry!Next
<1>9. CASE AcquireConnection \/ UnsubscribeCheck \/ UnsubscribeWrite
  <2>1. UNCHANGED <<callbacks, handles>> /\ op.pc \notin CallSteps /\ op'.pc \notin CallSteps
    BY <1>9, OpIdleType DEF AcquireConnection, UnsubscribeCheck, UnsubscribeWrite, OpAt, pool
  <2> QED BY <1>t, <2>1 DEF Seen
<1>10. CASE Repair
  BY <1>1, <1>10 DEF Repair, RepairSnapshot, RepairVisit, RepairDial, RepairReplace, MigrateKeys, MigrateKey, MigrateAdd, MigrateWrite, MigrateEnds, pool
<1>11. CASE UNCHANGED vars \/ HandleDisconnect \/ Cancel \/ Close \/ (\E c \in Conns : Break(c) \/ ReadFails(c))
  BY <1>1, <1>11 DEF vars, HandleDisconnect, Cancel, Close, Break, ReadFails, pool
<1> QED BY <1>2, <1>3, <1>5, <1>6, <1>7, <1>8, <1>9, <1>10, <1>11 DEF Next, Call

\* The refinement: for any keys, limits, calls, breaks and failed dials, what happens to
\* callbacks and handles follows from the calls of Subscribe and Unsubscribe alone;
\* disconnects, repair, migration and shutdown change neither.  The only step that is not
\* one of the registry is the cancellation of a handle whose key has other callbacks.
THEOREM PoolIsARegistry == Spec => ImplementsRegistry
<1>1. Init => Registry!Init
  BY OpIdleType DEF Init, Registry!Init, Registry!NoCall, Trying
<1>2. Inv /\ RegistryOK /\ [Next]_vars => [Registry!Next \/ DropsOthers]_<<callbacks, handles, Trying>>
  BY RegistrySimulates DEF Seen
<1> QED BY <1>1, <1>2, RegistryInvariant, PTL DEF Spec, ImplementsRegistry
=============================================================================
