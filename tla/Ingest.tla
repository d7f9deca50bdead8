------------------------------- MODULE Ingest ------------------------------
(***************************************************************************)
(* How exchange messages become queue messages: the dispatcher             *)
(* (ws/dispatcher.go), which runs every callback as a task of a goroutine  *)
(* pool, and the callbacks of SubscriptionManager                          *)
(* (manager/subscription_manager.go) with the oid-to-address mapping that  *)
(* tells whose order an orderUpdates message is about.                     *)
(*                                                                         *)
(* userFills messages go to the callback of their user, orderUpdates       *)
(* messages carry no user and go to the callback of every address.  Tasks  *)
(* run concurrently and in any order; a task step is one access to a       *)
(* shared map or one Enqueue.                                              *)
(***************************************************************************)
EXTENDS Integers, Sequences, FiniteSets

CONSTANTS
    Addrs, NoAddr, \* addresses; none of them
    Oids, NoOid,   \* orders; none of them
    Owner,         \* order -> its address
    Reversed,      \* orders whose fills turn a position around
    Foreign,       \* orders in a coin "x:..." other than "xyz:..."
    MaxMsgs        \* bound: messages the exchange sends

ASSUME IngestAssumption ==
    /\ NoAddr \notin Addrs /\ NoOid \notin Oids
    /\ Owner \in [Oids -> Addrs]
    /\ Reversed \subseteq Oids /\ Foreign \subseteq Oids
    /\ MaxMsgs \in Nat

VARIABLES
    addresses,    \* SubscriptionManager.addresses
    callbacks,    \* addresses whose two callbacks the pool has
    call,         \* the SubscribeAddress or UnsubscribeAddress under way
    oidToAddress, \* SubscriptionManager.oidToAddress
    seen,         \* the deduper: orders and directions signalled
    sent,         \* the messages of the exchange so far
    tasks,        \* callbacks submitted to the dispatcher's pool
    fillQueue,    \* fills enqueued: message, order, direction
    statusQueue,  \* message -> addresses its status was enqueued for
    calm          \* history: no address has been unsubscribed

vars == <<addresses, callbacks, call, oidToAddress, seen, sent, tasks, fillQueue, statusQueue,
          calm>>
subscription == <<addresses, callbacks, call, calm>>

Msgs == 1 .. MaxMsgs
Dirs == {"Open Long", "Close Short"}

\* Mutant of SplitReversedOrder: only the closing part of a reversed order.
SplitOnlyClose(o) == IF o \in Reversed THEN {"Close Short"} ELSE {"Open Long"}

\* splitReversedOrder: the directions the fills of an order are queued under.
\* "Short > Long" becomes a closing and an opening part.
SplitReversedOrder(o) == IF o \in Reversed THEN {"Close Short", "Open Long"} ELSE {"Open Long"}

\* A userFills message has fills of orders of one user, some older than 30
\* minutes; an orderUpdates message the status of one order (mapped is history:
\* the order's fills had been handled before the status was sent).
FillsMsgs  == [kind : {"fills"}, user : Addrs, oids : SUBSET Oids, old : SUBSET Oids]
UpdateMsgs == [kind : {"update"}, oid : Oids, status : {"open", "filled"}, mapped : BOOLEAN]

\* A callback at work: a fills task has orders left to do and, for the present
\* one, directions left; an updates task has the address it found.
FillTasks   == [kind : {"fills"}, msg : Msgs, user : Addrs, todo : SUBSET Oids,
                oid : Oids \cup {NoOid}, dirs : SUBSET Dirs]
UpdateTasks == [kind : {"update"}, msg : Msgs, user : Addrs, oid : Oids,
                pc : {"load", "check", "enqueue", "delete"}]
FillTask(n, u, todo, o, dirs) ==
    [kind |-> "fills", msg |-> n, user |-> u, todo |-> todo, oid |-> o, dirs |-> dirs]
UpdateTask(n, u, o, pc) == [kind |-> "update", msg |-> n, user |-> u, oid |-> o, pc |-> pc]

Calls == [step : {"idle", "subscribe", "cancel", "clear"}, addr : Addrs \cup {NoAddr}]
At(step, a) == [step |-> step, addr |-> a]
Idle == At("idle", NoAddr)

Init ==
    /\ addresses = {} /\ callbacks = {} /\ call = Idle
    /\ oidToAddress = [o \in Oids |-> NoAddr]
    /\ seen = {} /\ sent = <<>> /\ tasks = {}
    /\ fillQueue = {} /\ statusQueue = [n \in Msgs |-> <<>>] /\ calm = TRUE

-----------------------------------------------------------------------------
(* SubscribeAddress and UnsubscribeAddress *)

SubscribeAddress(a) ==
    /\ call = Idle /\ a \notin addresses
    /\ addresses' = addresses \cup {a}
    /\ call' = At("subscribe", a)
    /\ UNCHANGED <<callbacks, oidToAddress, seen, sent, tasks, fillQueue, statusQueue, calm>>

PoolSubscribed ==
    /\ call.step = "subscribe"
    /\ callbacks' = callbacks \cup {call.addr}
    /\ call' = Idle
    /\ UNCHANGED <<addresses, oidToAddress, seen, sent, tasks, fillQueue, statusQueue, calm>>

UnsubscribeAddress(a) ==
    /\ call = Idle /\ a \in addresses
    /\ addresses' = addresses \ {a}
    /\ call' = At("cancel", a) /\ calm' = FALSE
    /\ UNCHANGED <<callbacks, oidToAddress, seen, sent, tasks, fillQueue, statusQueue>>

PoolUnsubscribed ==
    /\ call.step = "cancel"
    /\ callbacks' = callbacks \ {call.addr}
    /\ call' = At("clear", call.addr)
    /\ UNCHANGED <<addresses, oidToAddress, seen, sent, tasks, fillQueue, statusQueue, calm>>

\* Range over oidToAddress: the closure's parameter hides the address, and
\* every entry is deleted.
ClearMapping ==
    /\ call.step = "clear"
    /\ oidToAddress' = [o \in Oids |-> NoAddr]
    /\ call' = Idle
    /\ UNCHANGED <<addresses, callbacks, seen, sent, tasks, fillQueue, statusQueue, calm>>

-----------------------------------------------------------------------------
(* The exchange, and Dispatch *)

\* Mutant of Accepted: fills of any age.
AcceptedAnyAge(msg) == msg.oids \ Foreign

\* Orders whose fills the handler takes: not too old, not in a foreign coin.
Accepted(msg) == (msg.oids \ msg.old) \ Foreign

\* The exchange sends fills of user u (again, after a resubscription); Dispatch
\* submits the callback of that user.
SendFills(u, S, old) ==
    /\ Len(sent) < MaxMsgs /\ u \in callbacks
    /\ S # {} /\ \A o \in S : Owner[o] = u
    /\ LET msg == [kind |-> "fills", user |-> u, oids |-> S, old |-> old] IN
       /\ sent' = Append(sent, msg)
       /\ tasks' = tasks \cup {FillTask(Len(sent'), u, Accepted(msg), NoOid, {})}
    /\ UNCHANGED <<subscription, oidToAddress, seen, fillQueue, statusQueue>>

\* A status of an order of a served user; broadcastToChannel submits the
\* callback of every address.  Messages in foreign coins, and those not final,
\* leave the handler early.
SendUpdate(o, status) ==
    /\ Len(sent) < MaxMsgs /\ Owner[o] \in callbacks
    /\ sent' = Append(sent, [kind |-> "update", oid |-> o, status |-> status,
                            mapped |-> oidToAddress[o] # NoAddr])
    /\ tasks' = IF o \in Foreign THEN tasks
                ELSE tasks \cup {UpdateTask(Len(sent'), u, o, "load") : u \in callbacks}
    /\ UNCHANGED <<subscription, oidToAddress, seen, fillQueue, statusQueue>>

\* The order processor signals an order and marks it.
MarkSeen(o, d) ==
    /\ <<o, d>> \notin seen
    /\ \E n \in Msgs : <<n, o, d>> \in fillQueue
    /\ seen' = seen \cup {<<o, d>>}
    /\ UNCHANGED <<subscription, oidToAddress, sent, tasks, fillQueue, statusQueue>>

-----------------------------------------------------------------------------
(* handleWsOrderFills *)

\* The next order group: the mapping is stored, the fills are split.
StoreMapping(t, o) ==
    /\ t.kind = "fills" /\ t.oid = NoOid /\ o \in t.todo
    /\ oidToAddress' = [oidToAddress EXCEPT ![o] = t.user]
    /\ tasks' = (tasks \ {t}) \cup {FillTask(t.msg, t.user, t.todo \ {o}, o, SplitReversedOrder(o))}
    /\ UNCHANGED <<subscription, seen, sent, fillQueue, statusQueue>>

\* The fill of one direction: skipped if that direction was signalled.
EnqueueFill(t, d) ==
    /\ t.kind = "fills" /\ t.oid # NoOid /\ d \in t.dirs
    /\ fillQueue' = IF <<t.oid, d>> \in seen THEN fillQueue
                    ELSE fillQueue \cup {<<t.msg, t.oid, d>>}
    /\ tasks' = (tasks \ {t}) \cup
                  {FillTask(t.msg, t.user, t.todo, IF t.dirs = {d} THEN NoOid ELSE t.oid, t.dirs \ {d})}
    /\ UNCHANGED <<subscription, oidToAddress, seen, sent, statusQueue>>

FillsDone(t) ==
    /\ t.kind = "fills" /\ t.oid = NoOid /\ t.todo = {}
    /\ tasks' = tasks \ {t}
    /\ UNCHANGED <<subscription, oidToAddress, seen, sent, fillQueue, statusQueue>>

-----------------------------------------------------------------------------
(* handleWsOrderUpdates *)

\* Mutant of IsOwnOrder: the callback's own address does not matter.
IsSomeOrder(t) == oidToAddress[t.oid] # NoAddr

\* The mapping names the address this callback was made for.
IsOwnOrder(t) == oidToAddress[t.oid] = t.user

\* Mutant of LoadMapping: LoadAndDelete instead of Load.
LoadAndDeleteMapping(t) ==
    /\ t.kind = "update" /\ t.pc = "load"
    /\ tasks' = (tasks \ {t}) \cup
                  (IF IsOwnOrder(t) /\ sent[t.msg].status = "filled"
                   THEN {UpdateTask(t.msg, t.user, t.oid, "check")} ELSE {})
    /\ oidToAddress' = [oidToAddress EXCEPT ![t.oid] = NoAddr]
    /\ UNCHANGED <<subscription, seen, sent, fillQueue, statusQueue>>

\* Load the mapping: an order without one, of another address or without a
\* final status is skipped.
LoadMapping(t) ==
    /\ t.kind = "update" /\ t.pc = "load"
    /\ tasks' = (tasks \ {t}) \cup
                  (IF IsOwnOrder(t) /\ sent[t.msg].status = "filled"
                   THEN {UpdateTask(t.msg, t.user, t.oid, "check")} ELSE {})
    /\ UNCHANGED <<subscription, oidToAddress, seen, sent, fillQueue, statusQueue>>

CheckSubscribed(t) ==
    /\ t.kind = "update" /\ t.pc = "check"
    /\ tasks' = (tasks \ {t}) \cup
                  (IF t.user \in addresses THEN {UpdateTask(t.msg, t.user, t.oid, "enqueue")} ELSE {})
    /\ UNCHANGED <<subscription, oidToAddress, seen, sent, fillQueue, statusQueue>>

EnqueueStatus(t) ==
    /\ t.kind = "update" /\ t.pc = "enqueue"
    /\ statusQueue' = [statusQueue EXCEPT ![t.msg] = Append(@, t.user)]
    /\ tasks' = (tasks \ {t}) \cup {UpdateTask(t.msg, t.user, t.oid, "delete")}
    /\ UNCHANGED <<subscription, oidToAddress, seen, sent, fillQueue>>

DeleteMapping(t) ==
    /\ t.kind = "update" /\ t.pc = "delete"
    /\ oidToAddress' = [oidToAddress EXCEPT ![t.oid] = NoAddr]
    /\ tasks' = tasks \ {t}
    /\ UNCHANGED <<subscription, seen, sent, fillQueue, statusQueue>>

-----------------------------------------------------------------------------
Task ==
    \E t \in tasks :
        \/ \E o \in Oids : StoreMapping(t, o)
        \/ \E d \in Dirs : EnqueueFill(t, d)
        \/ FillsDone(t)
        \/ LoadMapping(t) \/ CheckSubscribed(t) \/ EnqueueStatus(t) \/ DeleteMapping(t)

Exchange ==
    \/ \E u \in Addrs, S \in SUBSET Oids : \E old \in SUBSET S : SendFills(u, S, old)
    \/ \E o \in Oids, status \in {"open", "filled"} : SendUpdate(o, status)

Next ==
    \/ \E a \in Addrs : SubscribeAddress(a) \/ UnsubscribeAddress(a)
    \/ PoolSubscribed \/ PoolUnsubscribed \/ ClearMapping
    \/ Exchange
    \/ \E o \in Oids, d \in Dirs : MarkSeen(o, d)
    \/ Task

Spec == Init /\ [][Next]_vars

-----------------------------------------------------------------------------
(* Properties *)

\* Types; a mapping entry names the owner of its order, so that no status can be
\* taken for an order of another address; no fill that is too old or of a
\* foreign coin is queued.
TypeOK ==
    /\ addresses \subseteq Addrs /\ callbacks \subseteq Addrs /\ call \in Calls
    /\ oidToAddress \in [Oids -> Addrs \cup {NoAddr}]
    /\ \A o \in Oids : oidToAddress[o] \in {NoAddr, Owner[o]}
    /\ seen \subseteq Oids \X Dirs
    /\ sent \in Seq(FillsMsgs \cup UpdateMsgs)
    /\ tasks \subseteq FillTasks \cup UpdateTasks
    /\ fillQueue \subseteq Msgs \X Oids \X Dirs
    /\ \A q \in fillQueue : q[2] \notin Foreign \cup sent[q[1]].old
    /\ statusQueue \in [Msgs -> Seq(Addrs)] /\ calm \in BOOLEAN

\* An orderUpdates message goes to the callback of every address, concurrently;
\* its status is enqueued at most once, and for the owner of the order.
StatusOncePerUpdate ==
    \A n \in 1 .. Len(sent) :
        statusQueue[n] # <<>> =>
            /\ sent[n].kind = "update" /\ sent[n].status = "filled"
            /\ statusQueue[n] = <<Owner[sent[n].oid]>>

\* The directions under which a fill of o has to be queued.
MustQueue(o) == IF o \in Reversed THEN Dirs ELSE {"Open Long"}

\* When all callbacks have finished, every fill that was not too old and not of
\* a foreign coin is queued under each of its directions, or that direction was
\* signalled; both parts of a reversed order included.
FillsReachQueue ==
    tasks = {} =>
        \A n \in 1 .. Len(sent) :
            sent[n].kind = "fills" =>
                \A o \in sent[n].oids \ (sent[n].old \cup Foreign) : \A d \in MustQueue(o) :
                    <<n, o, d>> \in fillQueue \/ <<o, d>> \in seen

\* A final status that the exchange sends after the order's fills were handled
\* is not dropped: when all callbacks have finished, it or another final status
\* of the order is queued, whatever the callbacks of other addresses and of
\* redelivered fills did to the mapping meanwhile.  Only an unsubscription,
\* which clears the mapping of every address, breaks this.
MappedStatusReachesQueue ==
    tasks = {} /\ calm =>
        \A n \in 1 .. Len(sent) :
            sent[n].kind = "update" /\ sent[n].status = "filled" /\ sent[n].mapped
                => \E j \in 1 .. Len(sent) : statusQueue[j] # <<>> /\ sent[j].oid = sent[n].oid
=============================================================================
