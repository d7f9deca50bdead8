--------------------------- MODULE AddressLoader ---------------------------
(***************************************************************************)
(* Which addresses are watched: the address loader (address/loader.go) and *)
(* the two managers it drives, SubscriptionManager and PositionManager     *)
(* (SubscribeAddress, UnsubscribeAddress and Close of each), against a     *)
(* pool that is a set of subscribed keys and whose Subscribe may fail.     *)
(*                                                                         *)
(* One goroutine loads the table and makes the calls it leads to; the      *)
(* shutdown closes the managers while it may be in the middle of them.     *)
(* Times are ages: they grow with TimePasses up to Grace.                  *)
(***************************************************************************)
EXTENDS Integers, FiniteSets

CONSTANTS
    Addrs, NoAddr, \* addresses; none of them
    Grace,         \* removeGrace
    PoolFails,     \* TRUE: PoolManager.Subscribe may return an error
    CanStop        \* TRUE: the process may shut down

ASSUME AddressLoaderAssumption ==
    /\ NoAddr \notin Addrs
    /\ Grace \in Nat /\ PoolFails \in BOOLEAN /\ CanStop \in BOOLEAN

VARIABLES
    table,     \* addresses in hl_active_addresses
    lastAddrs, \* AddressLoader.lastAddrs
    pending,   \* pendingRemove: address -> age of its entry, or NotPending
    unseen,    \* address -> time since a load last contained it
    toAdd, toUnsubscribe, \* calls loadAndSync still has to make
    call,      \* the call being made
    addresses, \* manager -> its addresses
    subs,      \* keys whose handle a manager keeps
    pool,      \* keys subscribed in the PoolManager
    stopped    \* managers that are closed

vars == <<table, lastAddrs, pending, unseen, toAdd, toUnsubscribe, call,
          addresses, subs, pool, stopped>>
loader == <<lastAddrs, pending, toAdd, toUnsubscribe>>
env    == <<table, unseen, stopped>>

NotPending == -1
Ages       == 0 .. Grace
Managers   == {"orders", "positions"}
Channels   == {"userFills", "orderUpdates", "webData2"}
Key(ch, a) == <<ch, a>>
KeysOf(a)  == Channels \X {a}

Calls == [step : {"idle", "add", "fills", "updates", "dropfills", "keep", "addpos", "webdata2",
                  "keeppos", "drop", "droporders", "droppos", "droppool"},
          addr : Addrs \cup {NoAddr}]
At(step, a) == [step |-> step, addr |-> a]
Idle == At("idle", NoAddr)

Init ==
    /\ table \in SUBSET Addrs
    /\ lastAddrs = {} /\ pending = [a \in Addrs |-> NotPending]
    /\ unseen = [a \in Addrs |-> Grace]
    /\ toAdd = {} /\ toUnsubscribe = {} /\ call = Idle
    /\ addresses = [s \in Managers |-> {}] /\ subs = {} /\ pool = {}
    /\ stopped = {}

Running == stopped = {}

-----------------------------------------------------------------------------
(* The world *)

TableChanges(a) ==
    /\ Running
    /\ table' = IF a \in table THEN table \ {a} ELSE table \cup {a}
    /\ UNCHANGED <<loader, unseen, call, addresses, subs, pool, stopped>>

Aged(n) == IF n < Grace THEN n + 1 ELSE n

TimePasses ==
    /\ unseen' = [a \in Addrs |-> Aged(unseen[a])]
    /\ pending' = [a \in Addrs |-> IF pending[a] = NotPending THEN NotPending ELSE Aged(pending[a])]
    /\ UNCHANGED <<table, lastAddrs, toAdd, toUnsubscribe, call, addresses, subs, pool, stopped>>

-----------------------------------------------------------------------------
(* loadAndSync *)

\* Mutant of Marked: the time an address was missed is set anew by every load.
MarkedAnew(a) ==
    IF a \in table THEN NotPending ELSE IF a \in lastAddrs THEN 0 ELSE pending[a]

\* pendingRemove after the first two loops: an address that is in the table is
\* not pending, one that vanished is pending from now on.
Marked(a) ==
    IF a \in table THEN NotPending
    ELSE IF a \in lastAddrs /\ pending[a] = NotPending THEN 0
    ELSE pending[a]

\* Mutant of Expired: the grace period ends one unit early.
ExpiredEarly == {a \in Addrs : Marked(a) # NotPending /\ Marked(a) + 1 >= Grace}

Expired == {a \in Addrs : Marked(a) # NotPending /\ Marked(a) >= Grace}

\* Mutant of Known: an address in its grace period is forgotten.
KnownInTable == table

\* The new lastAddrs: the table and the addresses still in their grace period.
Known == table \cup {a \in Addrs : Marked(a) # NotPending /\ a \notin Expired}

\* The critical section.  A load that fails changes nothing.
LoadAndSync ==
    /\ Running
    /\ call = Idle /\ toAdd = {} /\ toUnsubscribe = {}
    /\ toAdd' = table \ lastAddrs
    /\ toUnsubscribe' = Expired
    /\ pending' = [a \in Addrs |-> IF a \in Expired THEN NotPending ELSE Marked(a)]
    /\ lastAddrs' = Known
    /\ unseen' = [a \in Addrs |-> IF a \in table THEN 0 ELSE unseen[a]]
    /\ UNCHANGED <<table, call, addresses, subs, pool, stopped>>

\* The calls: first every addition, then every removal.  Stop does not end them.
NextAdd(a) ==
    /\ call = Idle /\ a \in toAdd
    /\ toAdd' = toAdd \ {a}
    /\ call' = At("add", a)
    /\ UNCHANGED <<lastAddrs, pending, toUnsubscribe, env, addresses, subs, pool>>

NextUnsubscribe(a) ==
    /\ call = Idle /\ toAdd = {} /\ a \in toUnsubscribe
    /\ toUnsubscribe' = toUnsubscribe \ {a}
    /\ call' = At("drop", a)
    /\ UNCHANGED <<lastAddrs, pending, toAdd, env, addresses, subs, pool>>

-----------------------------------------------------------------------------
(* SubscribeAddress of both managers; errors are only logged *)

\* PoolManager.Subscribe for the key of channel ch: the next step of the call.
PoolSubscribe(ch, onSuccess, onError) ==
    \/ /\ pool' = pool \cup {Key(ch, call.addr)}
       /\ call' = onSuccess
    \/ /\ PoolFails
       /\ call' = onError
       /\ UNCHANGED pool

\* SubscriptionManager: LoadOrStore comes first, and stays when the rest fails.
AddOrders ==
    /\ call.step = "add"
    /\ addresses' = [addresses EXCEPT !["orders"] = @ \cup {call.addr}]
    /\ call' = At(IF call.addr \in addresses["orders"] THEN "addpos" ELSE "fills", call.addr)
    /\ UNCHANGED <<loader, env, subs, pool>>

SubscribeFills ==
    /\ call.step = "fills"
    /\ PoolSubscribe("userFills", At("updates", call.addr), At("addpos", call.addr))
    /\ UNCHANGED <<loader, env, addresses, subs>>

SubscribeUpdates ==
    /\ call.step = "updates"
    /\ PoolSubscribe("orderUpdates", At("keep", call.addr), At("dropfills", call.addr))
    /\ UNCHANGED <<loader, env, addresses, subs>>

\* Mutant of UndoFills: a failed second subscription leaves the first one.
UndoFillsNot == pool

UndoFills == pool \ {Key("userFills", call.addr)}

DropFills ==
    /\ call.step = "dropfills"
    /\ pool' = UndoFills
    /\ call' = At("addpos", call.addr)
    /\ UNCHANGED <<loader, env, addresses, subs>>

KeepOrders ==
    /\ call.step = "keep"
    /\ subs' = subs \cup {Key("userFills", call.addr), Key("orderUpdates", call.addr)}
    /\ call' = At("addpos", call.addr)
    /\ UNCHANGED <<loader, env, addresses, pool>>

\* PositionManager.
AddPositions ==
    /\ call.step = "addpos"
    /\ addresses' = [addresses EXCEPT !["positions"] = @ \cup {call.addr}]
    /\ call' = IF call.addr \in addresses["positions"] THEN Idle ELSE At("webdata2", call.addr)
    /\ UNCHANGED <<loader, env, subs, pool>>

SubscribePositions ==
    /\ call.step = "webdata2"
    /\ PoolSubscribe("webData2", At("keeppos", call.addr), Idle)
    /\ UNCHANGED <<loader, env, addresses, subs>>

KeepPositions ==
    /\ call.step = "keeppos"
    /\ subs' = subs \cup {Key("webData2", call.addr)}
    /\ call' = Idle
    /\ UNCHANGED <<loader, env, addresses, pool>>

-----------------------------------------------------------------------------
(* UnsubscribeAddress of both managers *)

DropOrders ==
    /\ call.step = "drop"
    /\ addresses' = [addresses EXCEPT !["orders"] = @ \ {call.addr}]
    /\ call' = At(IF call.addr \in addresses["orders"] THEN "droporders" ELSE "droppos", call.addr)
    /\ UNCHANGED <<loader, env, subs, pool>>

\* Both handles under the manager's lock.
CancelOrders ==
    /\ call.step = "droporders"
    /\ LET kept == subs \cap {Key("userFills", call.addr), Key("orderUpdates", call.addr)} IN
       subs' = subs \ kept /\ pool' = pool \ kept
    /\ call' = At("droppos", call.addr)
    /\ UNCHANGED <<loader, env, addresses>>

\* Mutant of DropPositions: only the first manager is told.
DropPositionsNot ==
    /\ call.step = "droppos"
    /\ call' = Idle
    /\ UNCHANGED <<loader, env, addresses, subs, pool>>

DropPositions ==
    /\ call.step = "droppos"
    /\ addresses' = [addresses EXCEPT !["positions"] = @ \ {call.addr}]
    /\ LET k == Key("webData2", call.addr) IN
       /\ subs' = IF call.addr \in addresses["positions"] THEN subs \ {k} ELSE subs
       /\ call' = IF call.addr \in addresses["positions"] /\ k \in subs
                  THEN At("droppool", call.addr) ELSE Idle
    /\ UNCHANGED <<loader, env, pool>>

CancelPositions ==
    /\ call.step = "droppool"
    /\ pool' = pool \ {Key("webData2", call.addr)}
    /\ call' = Idle
    /\ UNCHANGED <<loader, env, addresses, subs>>

-----------------------------------------------------------------------------
(* Shutdown *)

\* Keys whose handles manager s keeps.
KeptBy(s) == {k \in subs : (k[1] = "webData2") <=> (s = "positions")}

\* The order of main's callback: the loader's context, then the managers.
CloseManager(s) ==
    /\ CanStop /\ s \notin stopped
    /\ s = "positions" => "orders" \in stopped
    /\ stopped' = stopped \cup {s}
    /\ subs' = subs \ KeptBy(s)
    /\ pool' = pool \ KeptBy(s)
    /\ UNCHANGED <<table, unseen, loader, call, addresses>>

-----------------------------------------------------------------------------
Step ==
    \/ \E a \in Addrs : NextAdd(a) \/ NextUnsubscribe(a)
    \/ AddOrders \/ SubscribeFills \/ SubscribeUpdates \/ DropFills \/ KeepOrders
    \/ AddPositions \/ SubscribePositions \/ KeepPositions
    \/ DropOrders \/ CancelOrders \/ DropPositions \/ CancelPositions

Next ==
    \/ Step \/ LoadAndSync \/ TimePasses
    \/ \E a \in Addrs : TableChanges(a)
    \/ \E s \in Managers : CloseManager(s)

Spec == Init /\ [][Next]_vars

\* The ticker fires and loads succeed again and again, the loader's goroutine
\* runs, time passes.
FairSpec == Spec /\ WF_vars(Step) /\ WF_vars(LoadAndSync) /\ WF_vars(TimePasses)

-----------------------------------------------------------------------------
(* Properties *)

\* Types; an address is in its grace period only while the loader still counts
\* it as watched, and is never to be added and removed by one load.
TypeOK ==
    /\ table \subseteq Addrs /\ lastAddrs \subseteq Addrs
    /\ pending \in [Addrs -> Ages \cup {NotPending}] /\ unseen \in [Addrs -> Ages]
    /\ toAdd \subseteq Addrs /\ toUnsubscribe \subseteq Addrs
    /\ toAdd \cap toUnsubscribe = {}
    /\ call \in Calls
    /\ addresses \in [Managers -> SUBSET Addrs]
    /\ subs \subseteq Channels \X Addrs /\ pool \subseteq Channels \X Addrs
    /\ stopped \subseteq Managers
    /\ \A a \in Addrs : pending[a] # NotPending => a \in lastAddrs

\* Between two loads both managers watch exactly the addresses the loader
\* believes they watch, whatever vanished, came back or failed meanwhile:
\* otherwise it would never correct them.
ManagersMatchLoader ==
    call = Idle /\ toAdd = {} /\ toUnsubscribe = {}
        => \A s \in Managers : addresses[s] = lastAddrs

\* Every subscription in the pool has a handle some manager keeps, except those
\* of the call under way: an error after the first of two subscriptions, or a
\* Close during a call, leaves none that nobody can cancel.
NoOrphanSubscription ==
    /\ subs \subseteq pool
    /\ \A k \in pool \ subs : k[2] = call.addr

\* loadAndSync gives an address up only when no load of the last Grace time
\* units contained it.
GraceHonoured ==
    [][\A a \in lastAddrs \ lastAddrs' : unseen[a] >= Grace]_vars

\* An address that stays in the table ends up watched by both managers, one
\* that stays out of it ends up without a subscription.
Converges ==
    \A a \in Addrs :
        /\ <>[](Running /\ a \in table)
              => <>[](\A s \in Managers : a \in addresses[s])
        /\ <>[](Running /\ a \notin table)
              => <>[](pool \cap KeysOf(a) = {})
=============================================================================
