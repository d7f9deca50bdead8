---------------------------- MODULE PoolManager ----------------------------
(***************************************************************************)
(* The WebSocket pool: PoolManager (ws/pool_manager.go), the connections   *)
(* it wraps (ws/pool.go) and their clients (ws/client.go).                 *)
(*                                                                         *)
(* One goroutine subscribes and unsubscribes (the address loader, through  *)
(* the managers); a read pump per connection notices that its link broke;  *)
(* every notice starts handleDisconnect, and the one that gets             *)
(* reconnectMu repairs the pool.  A step is one critical section or one    *)
(* network call.  What the exchange knows is in remote.                    *)
(***************************************************************************)
EXTENDS Integers, Sequences, FiniteSets, Functions

CONSTANTS
    Keys, NoKey,      \* subscription keys, "channel:user"; none of them
    MaxConnections,   \* maxConnections
    MaxSubscriptions, \* maxSubscriptions, of one connection
    MaxCalls,         \* bound: calls of Subscribe
    MaxBreaks,        \* bound: links that break
    MaxDialFails,     \* bound: dials that fail
    CanClose          \* TRUE: the process may shut down

ASSUME PoolManagerAssumption ==
    /\ NoKey \notin Keys
    /\ MaxConnections \in Nat \ {0} /\ MaxSubscriptions \in Nat \ {0}
    /\ MaxCalls \in Nat /\ MaxBreaks \in Nat /\ MaxDialFails \in Nat
    /\ CanClose \in BOOLEAN

VARIABLES
    connections,   \* PoolManager.connections
    link,          \* connection -> state of its Client
    wsubs,         \* connection -> ConnectionWrapper.subscriptions
    remote,        \* connection -> keys the exchange serves on it
    subscriptions, \* key -> subscriptionInfo.connection, None when absent
    callbacks,     \* key -> ids in subscriptionInfo.callbacks
    handles,       \* SubscriptionHandles returned and not yet cancelled
    calls,         \* callbackIDSeq
    op,            \* the Subscribe or unsubscribe call in progress
    notices,       \* handleDisconnect goroutines before their TryLock
    repair,        \* the handleDisconnect that holds reconnectMu
    closing,       \* progress of the shutdown
    breaks, fails  \* links that broke, dials that failed

pool == <<connections, link, wsubs, remote, subscriptions, callbacks>>
vars == <<connections, link, wsubs, remote, subscriptions, callbacks, handles, calls,
          op, notices, repair, closing, breaks, fails>>

\* Every connection ever dialled: the first, one for each call that finds no
\* room, and one for each that broke or was closed.
Conns == 1 .. (3 + MaxCalls + MaxBreaks)
None  == 0
Ids   == 1 .. MaxCalls

\* "none": not dialled; "up"; "broken": the link is gone, the read pump has not
\* noticed; "closed": Client.conn is nil.
Links == {"none", "up", "broken", "closed"}
IsConnected(c) == link[c] \in {"up", "broken"}

OpState ==
    [pc   : {"idle", "acquire", "store", "check", "write", "rollback", "record",
             "unsubcheck", "unsubwrite"},
     key  : Keys \cup {NoKey}, id : Ids \cup {None}, conn : Conns \cup {None}]
OpAt(pc, k, id, c) == [pc |-> pc, key |-> k, id |-> id, conn |-> c]
OpIdle == OpAt("idle", NoKey, None, None)

\* repairConnections at position i of its snapshot: old is being replaced by
\* new, todo are the keys still to migrate, key the one being migrated.
RepairState ==
    [pc   : {"idle", "sleep", "visit", "dial", "replace", "keys", "migrate", "add", "write"},
     snap : Seq(Conns), i : Nat, new : Conns \cup {None},
     todo : SUBSET Keys, key : Keys \cup {NoKey}]
RepairAt(pc, snap, i, new, todo, k) ==
    [pc |-> pc, snap |-> snap, i |-> i, new |-> new, todo |-> todo, key |-> k]
RepairIdle  == RepairAt("idle", <<>>, 0, None, {}, NoKey)
RepairSleep == RepairAt("sleep", <<>>, 0, None, {}, NoKey)
Old == repair.snap[repair.i]

\* After Start.
Init ==
    /\ connections = <<1>>
    /\ link = [c \in Conns |-> IF c = 1 THEN "up" ELSE "none"]
    /\ wsubs = [c \in Conns |-> {}] /\ remote = [c \in Conns |-> {}]
    /\ subscriptions = [k \in Keys |-> None] /\ callbacks = [k \in Keys |-> {}]
    /\ handles = {} /\ calls = 0 /\ op = OpIdle
    /\ notices = 0 /\ repair = RepairIdle
    /\ closing = "no" /\ breaks = 0 /\ fails = 0

-----------------------------------------------------------------------------
(* Connect, and what a write does *)

\* Dial the next connection the model has not used.
Undialled(c) == link[c] = "none" /\ \A d \in 1 .. (c - 1) : link[d] # "none"
Connect(c) == Undialled(c) /\ link' = [link EXCEPT ![c] = "up"] /\ UNCHANGED fails
ConnectFails == fails < MaxDialFails /\ fails' = fails + 1 /\ UNCHANGED link

\* The outcomes of Client.Subscribe on c: an error only when the link is gone,
\* and on a broken link the write may still look successful.
WriteOutcomes(c) ==
    CASE link[c] = "up"     -> {TRUE}
      [] link[c] = "broken" -> {TRUE, FALSE}
      [] OTHER              -> {FALSE}
Served(c, k) == [remote EXCEPT ![c] = IF link[c] = "up" THEN @ \cup {k} ELSE @]

-----------------------------------------------------------------------------
(* Subscribe *)

\* Steps 1: an existing subscription gets one more callback.
Subscribe(k) ==
    /\ op = OpIdle /\ calls < MaxCalls
    /\ calls' = calls + 1
    /\ \/ /\ subscriptions[k] # None
          /\ callbacks' = [callbacks EXCEPT ![k] = @ \cup {calls + 1}]
          /\ handles' = handles \cup {<<calls + 1, k>>}
          /\ UNCHANGED op
       \/ /\ subscriptions[k] = None
          /\ op' = OpAt("acquire", k, calls + 1, None)
          /\ UNCHANGED <<callbacks, handles>>
    /\ UNCHANGED <<connections, link, wsubs, remote, subscriptions,
                   notices, repair, closing, breaks, fails>>

\* Step 2, acquireConnection.  Positions of connections with room for a key.
Roomy == {i \in DOMAIN connections :
            IsConnected(connections[i]) /\ Cardinality(wsubs[connections[i]]) < MaxSubscriptions}
FirstRoomy == connections[CHOOSE i \in Roomy : \A j \in Roomy : i <= j]

\* The first of the connected ones with the fewest keys; the very first
\* connection when none is connected.
LeastLoadedConnection ==
    LET up == {i \in DOMAIN connections : IsConnected(connections[i])}
        load(i) == Cardinality(wsubs[connections[i]])
    IN  IF up = {} THEN connections[1]
        ELSE connections[CHOOSE i \in up : \A j \in up :
                           load(i) < load(j) \/ (load(i) = load(j) /\ i <= j)]

\* The caller does not append the connection it gets to connections.
AcquireConnection ==
    /\ op.pc = "acquire"
    /\ \/ /\ Roomy # {} \/ Len(connections) >= MaxConnections
          /\ op' = OpAt("store", op.key, op.id,
                        IF Roomy # {} THEN FirstRoomy ELSE LeastLoadedConnection)
          /\ UNCHANGED <<link, fails>>
       \/ /\ Roomy = {} /\ Len(connections) < MaxConnections
          /\ \/ \E c \in Conns : Connect(c) /\ op' = OpAt("store", op.key, op.id, c)
             \/ ConnectFails /\ op' = OpIdle
    /\ UNCHANGED <<connections, wsubs, remote, subscriptions, callbacks, handles, calls,
                   notices, repair, closing, breaks>>

\* Step 3: the pending subscription, unless the key was subscribed meanwhile.
StoreSubscription ==
    /\ op.pc = "store"
    /\ LET exists == subscriptions[op.key] # None IN
       /\ subscriptions' = [subscriptions EXCEPT ![op.key] = IF exists THEN @ ELSE op.conn]
       /\ callbacks' = [callbacks EXCEPT ![op.key] = @ \cup {op.id}]
       /\ handles' = IF exists THEN handles \cup {<<op.id, op.key>>} ELSE handles
       /\ op' = IF exists THEN OpIdle ELSE OpAt("check", op.key, op.id, op.conn)
    /\ UNCHANGED <<connections, link, wsubs, remote, calls, notices, repair, closing, breaks, fails>>

\* Step 4: the key is sent only on a connection that is connected.
CheckConnected ==
    /\ op.pc = "check"
    /\ op' = OpAt(IF IsConnected(op.conn) THEN "write" ELSE "record", op.key, op.id, op.conn)
    /\ UNCHANGED <<pool, handles, calls, notices, repair, closing, breaks, fails>>

WriteSubscribe ==
    /\ op.pc = "write"
    /\ remote' = Served(op.conn, op.key)
    /\ \E ok \in WriteOutcomes(op.conn) :
          op' = OpAt(IF ok THEN "record" ELSE "rollback", op.key, op.id, op.conn)
    /\ UNCHANGED <<connections, link, wsubs, subscriptions, callbacks, handles, calls,
                   notices, repair, closing, breaks, fails>>

\* Mutant of Rollback: Subscribe does not return after it.
RollbackFallsThrough ==
    /\ op.pc = "rollback"
    /\ subscriptions' = [subscriptions EXCEPT ![op.key] = None]
    /\ callbacks' = [callbacks EXCEPT ![op.key] = {}]
    /\ op' = OpAt("record", op.key, op.id, op.conn)
    /\ UNCHANGED <<connections, link, wsubs, remote, handles, calls,
                   notices, repair, closing, breaks, fails>>

Rollback ==
    /\ op.pc = "rollback"
    /\ subscriptions' = [subscriptions EXCEPT ![op.key] = None]
    /\ callbacks' = [callbacks EXCEPT ![op.key] = {}]
    /\ op' = OpIdle
    /\ UNCHANGED <<connections, link, wsubs, remote, handles, calls,
                   notices, repair, closing, breaks, fails>>

\* AddSubscription on the connection acquired in step 2; the handle is returned.
RecordSubscription ==
    /\ op.pc = "record"
    /\ wsubs' = [wsubs EXCEPT ![op.conn] = @ \cup {op.key}]
    /\ handles' = handles \cup {<<op.id, op.key>>}
    /\ op' = OpIdle
    /\ UNCHANGED <<connections, link, remote, subscriptions, callbacks, calls,
                   notices, repair, closing, breaks, fails>>

-----------------------------------------------------------------------------
(* unsubscribe *)

\* The key goes with its first cancelled handle, whatever callbacks are left.
Unsubscribe(h) ==
    LET k == h[2] IN
    /\ op = OpIdle /\ h \in handles
    /\ handles' = handles \ {h}
    /\ \/ /\ subscriptions[k] = None
          /\ UNCHANGED <<subscriptions, callbacks, op>>
       \/ /\ subscriptions[k] # None
          /\ subscriptions' = [subscriptions EXCEPT ![k] = None]
          /\ callbacks' = [callbacks EXCEPT ![k] = {}]
          /\ op' = OpAt("unsubcheck", k, None, subscriptions[k])
    /\ UNCHANGED <<connections, link, wsubs, remote, calls, notices, repair, closing, breaks, fails>>

UnsubscribeCheck ==
    /\ op.pc = "unsubcheck"
    /\ op' = IF IsConnected(op.conn) THEN OpAt("unsubwrite", op.key, None, op.conn) ELSE OpIdle
    /\ UNCHANGED <<pool, handles, calls, notices, repair, closing, breaks, fails>>

\* The outcome of the write is ignored.
UnsubscribeWrite ==
    /\ op.pc = "unsubwrite"
    /\ remote' = [remote EXCEPT ![op.conn] = @ \ {op.key}]
    /\ wsubs' = [wsubs EXCEPT ![op.conn] = @ \ {op.key}]
    /\ op' = OpIdle
    /\ UNCHANGED <<connections, link, subscriptions, callbacks, handles, calls,
                   notices, repair, closing, breaks, fails>>

-----------------------------------------------------------------------------
(* Disconnects *)

\* The network or the exchange drops a connection, and what it served with it.
Break(c) ==
    /\ link[c] = "up" /\ breaks < MaxBreaks
    /\ link' = [link EXCEPT ![c] = "broken"]
    /\ remote' = [remote EXCEPT ![c] = {}]
    /\ breaks' = breaks + 1
    /\ UNCHANGED <<connections, wsubs, subscriptions, callbacks, handles, calls,
                   op, notices, repair, closing, fails>>

\* readPump: ReadMessage fails (at the latest after pongWait), the client is
\* closed and the callback starts handleDisconnect.
ReadFails(c) ==
    /\ link[c] = "broken"
    /\ link' = [link EXCEPT ![c] = "closed"]
    /\ notices' = notices + 1
    /\ UNCHANGED <<connections, wsubs, remote, subscriptions, callbacks, handles, calls,
                   op, repair, closing, breaks, fails>>

\* TryLock of reconnectMu: a notice that finds a repair running is dropped.
HandleDisconnect ==
    /\ notices > 0
    /\ notices' = notices - 1
    /\ repair' = IF repair.pc = "idle" THEN RepairSleep ELSE repair
    /\ UNCHANGED <<pool, handles, calls, op, closing, breaks, fails>>

-----------------------------------------------------------------------------
(* repairConnections *)

\* After the backoff: a copy of connections.
RepairSnapshot ==
    /\ repair.pc = "sleep"
    /\ repair' = RepairAt("visit", connections, 1, None, {}, NoKey)
    /\ UNCHANGED <<pool, handles, calls, op, notices, closing, breaks, fails>>

\* Skip a connected connection; close and replace another one (its Client is
\* nil already); after the last one reconnectMu is released.
RepairVisit ==
    /\ repair.pc = "visit"
    /\ repair' = IF repair.i > Len(repair.snap) THEN RepairIdle
                 ELSE IF IsConnected(Old)
                      THEN RepairAt("visit", repair.snap, repair.i + 1, None, {}, NoKey)
                      ELSE RepairAt("dial", repair.snap, repair.i, None, {}, NoKey)
    /\ UNCHANGED <<pool, handles, calls, op, notices, closing, breaks, fails>>

\* Mutant of AfterDialFails: repairConnections swallows the error.
AfterDialSwallowed == RepairIdle

\* repairConnections returns the error and handleDisconnect tries again.
AfterDialFails == RepairSleep

RepairDial ==
    /\ repair.pc = "dial"
    /\ \/ \E c \in Conns :
             Connect(c) /\ repair' = RepairAt("replace", repair.snap, repair.i, c, {}, NoKey)
       \/ ConnectFails /\ repair' = AfterDialFails
    /\ UNCHANGED <<connections, wsubs, remote, subscriptions, callbacks, handles, calls,
                   op, notices, closing, breaks>>

\* Mutant of Replaced: a slot that is gone is made again.
ReplacedOrAppended ==
    IF repair.i <= Len(connections) THEN [connections EXCEPT ![repair.i] = repair.new]
    ELSE Append(connections, repair.new)

\* The slice may have become shorter (Close).
Replaced ==
    IF repair.i <= Len(connections) THEN [connections EXCEPT ![repair.i] = repair.new]
    ELSE connections

RepairReplace ==
    /\ repair.pc = "replace"
    /\ connections' = Replaced
    /\ repair' = RepairAt("keys", repair.snap, repair.i, repair.new, {}, NoKey)
    /\ UNCHANGED <<link, wsubs, remote, subscriptions, callbacks, handles, calls,
                   op, notices, closing, breaks, fails>>

\* migrateAndResubscribe: GetSubscriptionKeys of the old connection.
MigrateKeys ==
    /\ repair.pc = "keys"
    /\ repair' = RepairAt("migrate", repair.snap, repair.i, repair.new, wsubs[Old], NoKey)
    /\ UNCHANGED <<pool, handles, calls, op, notices, closing, breaks, fails>>

\* A key that is still the old connection's moves to the new one.
MigrateKey(k) ==
    /\ repair.pc = "migrate" /\ k \in repair.todo
    /\ LET moves == subscriptions[k] = Old IN
       /\ subscriptions' = [subscriptions EXCEPT ![k] = IF moves THEN repair.new ELSE @]
       /\ repair' = IF moves
                    THEN RepairAt("add", repair.snap, repair.i, repair.new, repair.todo \ {k}, k)
                    ELSE RepairAt("migrate", repair.snap, repair.i, repair.new, repair.todo \ {k}, NoKey)
    /\ UNCHANGED <<connections, link, wsubs, remote, callbacks, handles, calls,
                   op, notices, closing, breaks, fails>>

\* Mutant of AddMigrated: the key is sent, and not recorded.
AddMigratedNot == wsubs

\* AddSubscription on the new connection.
AddMigrated == [wsubs EXCEPT ![repair.new] = @ \cup {repair.key}]

MigrateAdd ==
    /\ repair.pc = "add"
    /\ wsubs' = AddMigrated
    /\ repair' = RepairAt("write", repair.snap, repair.i, repair.new, repair.todo, repair.key)
    /\ UNCHANGED <<connections, link, remote, subscriptions, callbacks, handles, calls,
                   op, notices, closing, breaks, fails>>

\* Mutant of Resubscribed: a migrated key is not sent to the exchange.
ResubscribedNot == remote

Resubscribed == Served(repair.new, repair.key)

\* A failed write is only logged.
MigrateWrite ==
    /\ repair.pc = "write"
    /\ remote' = Resubscribed
    /\ repair' = RepairAt("migrate", repair.snap, repair.i, repair.new, repair.todo, NoKey)
    /\ UNCHANGED <<connections, link, wsubs, subscriptions, callbacks, handles, calls,
                   op, notices, closing, breaks, fails>>

MigrateEnds ==
    /\ repair.pc = "migrate" /\ repair.todo = {}
    /\ repair' = RepairAt("visit", repair.snap, repair.i + 1, None, {}, NoKey)
    /\ UNCHANGED <<pool, handles, calls, op, notices, closing, breaks, fails>>

Repair ==
    \/ RepairSnapshot \/ RepairVisit \/ RepairDial \/ RepairReplace
    \/ MigrateKeys \/ MigrateAdd \/ MigrateWrite \/ MigrateEnds
    \/ \E k \in Keys : MigrateKey(k)

-----------------------------------------------------------------------------
(* Shutdown *)

\* Client.Close on every connection in C: their read pumps end and notify.
CloseClients(C) ==
    /\ link' = [c \in Conns |-> IF c \in C THEN "closed" ELSE link[c]]
    /\ remote' = [c \in Conns |-> IF c \in C THEN {} ELSE remote[c]]
    /\ notices' = notices + Cardinality({c \in C : IsConnected(c)})

\* main cancels the context that Start gave to the first connection.
Cancel ==
    /\ CanClose /\ closing = "no"
    /\ closing' = "cancelled"
    /\ CloseClients({1})
    /\ UNCHANGED <<connections, wsubs, subscriptions, callbacks, handles, calls,
                   op, repair, breaks, fails>>

\* PoolManager.Close.
Close ==
    /\ closing = "cancelled"
    /\ closing' = "closed"
    /\ CloseClients(Range(connections))
    /\ connections' = <<>>
    /\ UNCHANGED <<wsubs, subscriptions, callbacks, handles, calls, op, repair, breaks, fails>>

-----------------------------------------------------------------------------
Call ==
    \/ AcquireConnection \/ StoreSubscription \/ CheckConnected \/ WriteSubscribe
    \/ Rollback \/ RecordSubscription \/ UnsubscribeCheck \/ UnsubscribeWrite

Next ==
    \/ \E k \in Keys : Subscribe(k)
    \/ \E h \in handles : Unsubscribe(h)
    \/ Call \/ HandleDisconnect \/ Repair \/ Cancel \/ Close
    \/ \E c \in Conns : Break(c) \/ ReadFails(c)

Spec == Init /\ [][Next]_vars

\* Goroutines that can run do; a read on a broken link fails in the end; dials
\* fail only MaxDialFails times.  Nobody has to call, break or shut down.
Fairness ==
    /\ WF_vars(Call) /\ WF_vars(HandleDisconnect) /\ WF_vars(Repair)
    /\ WF_vars(\E c \in Conns : ReadFails(c))
FairSpec == Spec /\ Fairness

-----------------------------------------------------------------------------
(* Properties *)

\* Types; no more connections than the limit are pooled, all were dialled, and
\* a repair that outlives Close does not put one into the closed pool.
TypeOK ==
    /\ connections \in Seq(Conns) /\ Len(connections) <= MaxConnections
    /\ closing = "closed" => connections = <<>>
    /\ \A i \in DOMAIN connections : link[connections[i]] # "none"
    /\ link \in [Conns -> Links]
    /\ wsubs \in [Conns -> SUBSET Keys] /\ remote \in [Conns -> SUBSET Keys]
    /\ subscriptions \in [Keys -> Conns \cup {None}]
    /\ callbacks \in [Keys -> SUBSET Ids] /\ handles \subseteq Ids \X Keys
    /\ calls \in 0 .. MaxCalls /\ op \in OpState
    /\ notices \in Nat /\ repair \in RepairState
    /\ closing \in {"no", "cancelled", "closed"}
    /\ breaks \in 0 .. MaxBreaks /\ fails \in 0 .. MaxDialFails

\* A key whose Subscribe, or whose migration, is under way.
Pending(k) ==
    \/ op.key = k /\ op.pc \in {"check", "write", "rollback", "record"}
    \/ repair.key = k

\* repairConnections finds the keys of a broken connection in its wrapper: a
\* subscribed key is recorded at the connection it belongs to, or no repair
\* would ever restore it (AddSubscription in Subscribe and in migration).
RecordedAtHome ==
    \A k \in Keys :
        subscriptions[k] # None /\ ~Pending(k) => k \in wsubs[subscriptions[k]]

\* A subscribed key whose connection is up is served by the exchange: no
\* interleaving of Subscribe, unsubscribe, disconnect and migration leaves a
\* subscription that looks alive and receives nothing.
ServedWhenUp ==
    \A k \in Keys :
        /\ subscriptions[k] # None /\ ~Pending(k)
        /\ link[subscriptions[k]] = "up"
        => k \in remote[subscriptions[k]]

Trying == IF op.pc \in {"check", "write", "rollback", "record"} THEN <<op.id, op.key>> ELSE <<>>
Registry == INSTANCE SubscriptionRegistry WITH held <- handles, trying <- Trying

\* The one thing unsubscribe does beyond the registry: a key with other callbacks goes
\* with all of them, and their handles stay.  "There are other callbacks, remove the
\* current subscription only" (docs/plans/2026-01-21-custom-websocket-implementation.md:1510)
\* and "if there is no callback left, cancel the server's subscription"
\* (2026-01-22-ws-optimization-design.md:637) say otherwise.
DropsOthers ==
    \E h \in handles :
        /\ callbacks[h[2]] \ {h[1]} # {}
        /\ callbacks' = [callbacks EXCEPT ![h[2]] = {}]
        /\ handles' = handles \ {h}

\* What Subscribe, unsubscribe, disconnects, repair, migration and shutdown do to the
\* callbacks together is what SubscriptionRegistry allows: a call registers a fresh id, a
\* failed or cancelled one takes back its own callback and no other, and nothing but a
\* call changes which callbacks a key has or which handles are valid.  The exception is
\* the cancellation of a handle whose key has other callbacks, which the documents
\* promise to keep and the code drops.
ImplementsRegistry ==
    /\ Registry!Init
    /\ [][Registry!Next \/ DropsOthers]_<<callbacks, handles, Trying>>

\* A pooled connection whose disconnect is known to a waiting handleDisconnect,
\* or to one before its snapshot, is eventually replaced, although dials fail
\* and other connections break meanwhile.
DisconnectedIsReplaced ==
    \A c \in Conns :
        (/\ c \in Range(connections) /\ link[c] = "closed"
         /\ repair.pc = "sleep" \/ (repair.pc = "idle" /\ notices > 0))
        ~> (c \notin Range(connections))

\* Once links stop breaking every subscribed key is on a live connection again
\* ("自动重连", automatic reconnection), unless the pool is shutting down.
AutoReconnect ==
    <>[](closing = "no" =>
            \A k \in Keys : subscriptions[k] # None => link[subscriptions[k]] = "up")
=============================================================================
