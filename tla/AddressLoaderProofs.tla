------------------------ MODULE AddressLoaderProofs ------------------------
(* Proofs about AddressLoader, for any addresses and any grace period, with   *)
(* pool subscriptions that fail and managers that are closed at any moment.   *)
EXTENDS AddressLoader, TLAPS

USE AddressLoaderAssumption DEF NotPending, Ages, Managers, Key, At, Idle

AddSteps  == {"add", "fills", "updates", "dropfills", "keep", "addpos"}
DropSteps == {"drop", "droporders", "droppos"}

\* The calls that a load leads to: additions are of watched addresses, removals
\* of addresses that are watched no more, and none is made twice.  An address
\* has been missed at least as long as it is pending.
CallsOK ==
    /\ toAdd \subseteq lastAddrs /\ toUnsubscribe \cap lastAddrs = {}
    /\ call.step = "idle" <=> call.addr = NoAddr
    /\ call.step \in AddSteps => call.addr \in lastAddrs \ toAdd
    /\ call.step \in DropSteps => call.addr \notin lastAddrs \cup toUnsubscribe
    /\ \A a \in Addrs : pending[a] # NotPending => unseen[a] >= pending[a]

\* Addresses manager s has not yet been told to add, or to drop.
StillToAdd(s) ==
    toAdd \cup (IF call.step = "add" \/ (s = "positions" /\ call.step \in AddSteps) THEN {call.addr} ELSE {})
StillToDrop(s) ==
    toUnsubscribe \cup (IF call.step = "drop" \/ (s = "positions" /\ call.step \in DropSteps) THEN {call.addr} ELSE {})

\* During a sync: what a manager watches, in terms of what the loader believes.
BooksOK ==
    \A s \in Managers : addresses[s] = (lastAddrs \ StillToAdd(s)) \cup StillToDrop(s)

LEMMA TypeInit == Init => TypeOK /\ CallsOK /\ BooksOK
<1> SUFFICES ASSUME Init PROVE TypeOK /\ CallsOK /\ BooksOK OBVIOUS
<1>1. TypeOK BY DEF Init, TypeOK, Calls
<1>2. CallsOK BY DEF Init, CallsOK, AddSteps, DropSteps
<1>3. BooksOK BY DEF Init, BooksOK, StillToAdd, StillToDrop, AddSteps, DropSteps
<1> QED BY <1>1, <1>2, <1>3

\* The steps inside a call leave the loader, the table and the clock alone.
CallStep ==
    \/ AddOrders \/ SubscribeFills \/ SubscribeUpdates \/ DropFills \/ KeepOrders
    \/ AddPositions \/ SubscribePositions \/ KeepPositions
    \/ DropOrders \/ CancelOrders \/ DropPositions \/ CancelPositions

LEMMA CallStepFrame ==
  ASSUME TypeOK, CallsOK, CallStep
  PROVE  /\ UNCHANGED <<loader, env>> /\ call \in Calls /\ call.addr \in Addrs /\ call' \in Calls
         /\ call' = Idle \/ call'.addr = call.addr
         /\ call'.step \in AddSteps => call.step \in AddSteps
         /\ call'.step \in DropSteps => call.step \in DropSteps
         /\ call'.step = "idle" <=> call'.addr = NoAddr
<1>1. UNCHANGED <<loader, env>>
  BY DEF CallStep, AddOrders, SubscribeFills, SubscribeUpdates, DropFills, KeepOrders, AddPositions, SubscribePositions, KeepPositions, DropOrders, CancelOrders, DropPositions, CancelPositions
<1>2. call \in Calls BY DEF TypeOK
<1>3. call.step # "idle" BY DEF CallStep, AddOrders, SubscribeFills, SubscribeUpdates, DropFills, KeepOrders, AddPositions, SubscribePositions, KeepPositions, DropOrders, CancelOrders, DropPositions, CancelPositions
<1>4. call.addr \in Addrs BY <1>2, <1>3 DEF CallsOK, Calls
<1>5. call' = Idle \/ \E st \in {"fills", "updates", "dropfills", "keep", "addpos", "webdata2",
                                "keeppos", "droporders", "droppos", "droppool"} :
                       /\ call' = At(st, call.addr)
                       /\ st \in AddSteps => call.step \in AddSteps
                       /\ st \in DropSteps => call.step \in DropSteps
  BY DEF CallStep, PoolSubscribe, AddSteps, DropSteps, AddOrders, SubscribeFills, SubscribeUpdates, DropFills, KeepOrders, AddPositions, SubscribePositions, KeepPositions, DropOrders, CancelOrders, DropPositions, CancelPositions
<1>6. call' \in Calls BY <1>4, <1>5 DEF Calls
<1> QED BY <1>1, <1>2, <1>4, <1>5, <1>6 DEF AddSteps, DropSteps

LEMMA TypeStep == TypeOK /\ CallsOK /\ [Next]_vars => TypeOK' /\ CallsOK'
<1> SUFFICES ASSUME TypeOK, CallsOK, [Next]_vars PROVE TypeOK' /\ CallsOK' OBVIOUS
<1> USE DEF loader, env
<1>1. CASE UNCHANGED vars BY <1>1 DEF vars, TypeOK, CallsOK
<1>2. CASE CallStep
  <2>1. /\ UNCHANGED <<loader, env>> /\ call' \in Calls
        /\ call' = Idle \/ call'.addr = call.addr
        /\ call'.step \in AddSteps => call.step \in AddSteps
        /\ call'.step \in DropSteps => call.step \in DropSteps
        /\ call'.step = "idle" <=> call'.addr = NoAddr
        /\ call.addr \in Addrs
    BY <1>2, CallStepFrame
  <2>2. addresses' \in [Managers -> SUBSET Addrs]
    BY <1>2, <2>1 DEF TypeOK, CallStep, AddOrders, SubscribeFills, SubscribeUpdates, DropFills, KeepOrders, AddPositions, SubscribePositions, KeepPositions, DropOrders, CancelOrders, DropPositions, CancelPositions
  <2>3. subs' \subseteq Channels \X Addrs /\ pool' \subseteq Channels \X Addrs
    BY <1>2, <2>1 DEF TypeOK, CallStep, PoolSubscribe, UndoFills, Channels, AddOrders, SubscribeFills, SubscribeUpdates, DropFills, KeepOrders, AddPositions, SubscribePositions, KeepPositions, DropOrders, CancelOrders, DropPositions, CancelPositions
  <2>4. TypeOK' BY <2>1, <2>2, <2>3 DEF TypeOK
  <2>5. CallsOK' BY <2>1 DEF CallsOK, AddSteps, DropSteps
  <2> QED BY <2>4, <2>5
<1>3. ASSUME NEW a \in Addrs, NextAdd(a) PROVE TypeOK' /\ CallsOK'
  BY <1>3 DEF NextAdd, TypeOK, CallsOK, Calls, AddSteps, DropSteps
<1>4. ASSUME NEW a \in Addrs, NextUnsubscribe(a) PROVE TypeOK' /\ CallsOK'
  BY <1>4 DEF NextUnsubscribe, TypeOK, CallsOK, Calls, AddSteps, DropSteps
<1>5. CASE LoadAndSync
  <2>1. TypeOK' BY <1>5 DEF LoadAndSync, Known, Expired, Marked, TypeOK
  <2>2. CallsOK' BY <1>5 DEF LoadAndSync, Known, Expired, Marked, TypeOK, CallsOK, AddSteps, DropSteps
  <2> QED BY <2>1, <2>2
<1>6. CASE TimePasses
  <2>1. TypeOK' BY <1>6 DEF TimePasses, Aged, TypeOK
  <2>2. CallsOK' BY <1>6 DEF TimePasses, Aged, TypeOK, CallsOK
  <2> QED BY <2>1, <2>2
<1>7. ASSUME NEW a \in Addrs, TableChanges(a) PROVE TypeOK' /\ CallsOK'
  BY <1>7 DEF TableChanges, TypeOK, CallsOK
<1>8. ASSUME NEW s \in Managers, CloseManager(s) PROVE TypeOK' /\ CallsOK'
  BY <1>8 DEF CloseManager, TypeOK, CallsOK
<1> QED BY <1>1, <1>2, <1>3, <1>4, <1>5, <1>6, <1>7, <1>8 DEF Next, Step, CallStep

LEMMA BooksStep == TypeOK /\ CallsOK /\ BooksOK /\ [Next]_vars => BooksOK'
<1> SUFFICES ASSUME TypeOK, CallsOK, BooksOK, [Next]_vars PROVE BooksOK' OBVIOUS
<1> USE DEF loader, env, AddSteps, DropSteps
<1>1. CASE UNCHANGED <<lastAddrs, toAdd, toUnsubscribe, call, addresses>>
  BY <1>1 DEF BooksOK, StillToAdd, StillToDrop
<1>2. CASE AddOrders
  BY <1>2 DEF AddOrders, TypeOK, CallsOK, BooksOK, StillToAdd, StillToDrop
<1>3. CASE AddPositions
  BY <1>3 DEF AddPositions, TypeOK, CallsOK, BooksOK, StillToAdd, StillToDrop
<1>4. CASE DropOrders
  BY <1>4 DEF DropOrders, TypeOK, CallsOK, BooksOK, StillToAdd, StillToDrop
<1>5. CASE DropPositions
  BY <1>5 DEF DropPositions, TypeOK, CallsOK, BooksOK, StillToAdd, StillToDrop
<1>6. CASE SubscribeFills \/ SubscribeUpdates \/ DropFills \/ KeepOrders \/ CancelOrders
  BY <1>6 DEF SubscribeFills, SubscribeUpdates, DropFills, KeepOrders, CancelOrders, PoolSubscribe,
     TypeOK, CallsOK, BooksOK, StillToAdd, StillToDrop
<1>7. CASE SubscribePositions \/ KeepPositions \/ CancelPositions
  BY <1>7 DEF SubscribePositions, KeepPositions, CancelPositions, PoolSubscribe,
     TypeOK, CallsOK, BooksOK, StillToAdd, StillToDrop
<1>8. ASSUME NEW a \in Addrs, NextAdd(a) \/ NextUnsubscribe(a) PROVE BooksOK'
  BY <1>8 DEF NextAdd, NextUnsubscribe, TypeOK, CallsOK, BooksOK, StillToAdd, StillToDrop
<1>9. CASE LoadAndSync
  BY <1>9 DEF LoadAndSync, Known, Expired, Marked, TypeOK, CallsOK, BooksOK, StillToAdd, StillToDrop
<1> QED
  BY <1>1, <1>2, <1>3, <1>4, <1>5, <1>6, <1>7, <1>8, <1>9
  DEF Next, Step, vars, TimePasses, TableChanges, CloseManager

-----------------------------------------------------------------------------
OrderKeys(a) == {<<"userFills", a>>, <<"orderUpdates", a>>}

\* Keys that the call under way has subscribed and not yet given a handle, or
\* whose handle it has taken and not yet used.
Open ==
    CASE call.step \in {"updates", "dropfills"} -> {<<"userFills", call.addr>>}
      [] call.step = "keep" -> OrderKeys(call.addr)
      [] call.step \in {"keeppos", "droppool"} -> {<<"webData2", call.addr>>}
      [] OTHER -> {}

\* Handles are only kept for watched addresses and for the one that is being
\* dropped, and not for a key the call is still working on.
HandlesOK ==
    /\ subs \subseteq pool /\ pool \ subs \subseteq Open /\ Open \cap subs = {}
    /\ call.step \in {"updates", "keep", "keeppos"} => Open \subseteq pool
    /\ \A a \in Addrs :
          /\ <<"webData2", a>> \in subs => a \in addresses["positions"]
          /\ subs \cap OrderKeys(a) # {} =>
                a \in addresses["orders"] \/ call = At("droporders", a)
    /\ call.step \in {"fills", "updates", "dropfills", "keep"} =>
          call.addr \in addresses["orders"] /\ subs \cap OrderKeys(call.addr) = {}
    /\ call.step \in {"webdata2", "keeppos"} => call.addr \in addresses["positions"]
    /\ call.step \in {"webdata2", "keeppos", "droppool"} => <<"webData2", call.addr>> \notin subs

LEMMA HandlesInit == Init => HandlesOK
  BY DEF Init, HandlesOK, Open

LEMMA HandlesStep == TypeOK /\ CallsOK /\ HandlesOK /\ [Next]_vars => HandlesOK'
<1> SUFFICES ASSUME TypeOK, CallsOK, HandlesOK, [Next]_vars PROVE HandlesOK' OBVIOUS
<1> USE DEF loader, env, OrderKeys, Open
<1>t. call \in Calls /\ addresses \in [Managers -> SUBSET Addrs] /\ subs \subseteq Channels \X Addrs
  BY DEF TypeOK
<1>1. CASE UNCHANGED <<call, addresses, subs, pool>>
  BY <1>1 DEF HandlesOK
<1>2. ASSUME NEW a \in Addrs, NextAdd(a) \/ NextUnsubscribe(a) PROVE HandlesOK'
  BY <1>2 DEF NextAdd, NextUnsubscribe, HandlesOK
<1>3. CASE AddOrders
  <2>1. call.step = "add" /\ call.addr \in Addrs /\ UNCHANGED <<subs, pool>>
    BY <1>3, <1>t DEF AddOrders, CallsOK, Calls
  <2>2. addresses'["orders"] = addresses["orders"] \cup {call.addr}
        /\ addresses'["positions"] = addresses["positions"]
    BY <1>3, <1>t DEF AddOrders
  <2>3. call.addr \notin addresses["orders"] => subs \cap OrderKeys(call.addr) = {}
    <3>1. call # [step |-> "droporders", addr |-> call.addr] BY <2>1
    <3> QED BY <2>1, <3>1, Zenon DEF HandlesOK
  <2>4. call' = At("addpos", call.addr)
        \/ (call' = At("fills", call.addr) /\ call.addr \notin addresses["orders"])
    BY <1>3 DEF AddOrders
  <2> QED BY <2>1, <2>2, <2>3, <2>4 DEF HandlesOK
<1>4. CASE SubscribeFills
  BY <1>4, <1>t DEF SubscribeFills, PoolSubscribe, HandlesOK
<1>5. CASE SubscribeUpdates
  BY <1>5, <1>t DEF SubscribeUpdates, PoolSubscribe, HandlesOK
<1>6. CASE DropFills
  BY <1>6, <1>t DEF DropFills, UndoFills, HandlesOK
<1>7. CASE KeepOrders
  BY <1>7, <1>t DEF KeepOrders, HandlesOK
<1>8. CASE AddPositions
  BY <1>8, <1>t DEF AddPositions, HandlesOK
<1>9. CASE SubscribePositions
  BY <1>9, <1>t DEF SubscribePositions, PoolSubscribe, HandlesOK
<1>10. CASE KeepPositions
  BY <1>10, <1>t DEF KeepPositions, HandlesOK
<1>11. CASE DropOrders
  BY <1>11, <1>t DEF DropOrders, HandlesOK
<1>12. CASE CancelOrders
  BY <1>12, <1>t DEF CancelOrders, HandlesOK
<1>13. CASE DropPositions
  BY <1>13, <1>t DEF DropPositions, HandlesOK
<1>14. CASE CancelPositions
  BY <1>14, <1>t DEF CancelPositions, HandlesOK
<1>15. ASSUME NEW s \in Managers, CloseManager(s) PROVE HandlesOK'
  BY <1>15 DEF CloseManager, KeptBy, HandlesOK
<1> QED
  BY <1>1, <1>2, <1>3, <1>4, <1>5, <1>6, <1>7, <1>8, <1>9, <1>10, <1>11, <1>12, <1>13, <1>14, <1>15
  DEF Next, Step, vars, TimePasses, TableChanges, LoadAndSync

-----------------------------------------------------------------------------
IInv == TypeOK /\ CallsOK /\ BooksOK /\ HandlesOK

LEMMA Inductive == Spec => []IInv
<1>1. Init => IInv BY TypeInit, HandlesInit DEF IInv
<1>2. IInv /\ [Next]_vars => IInv' BY TypeStep, BooksStep, HandlesStep DEF IInv
<1> QED BY <1>1, <1>2, PTL DEF Spec

\* loadAndSync and the calls it makes keep their types, and an address is in its
\* grace period only while it counts as watched.
THEOREM TypeCorrect == Spec => []TypeOK
<1>1. IInv => TypeOK BY DEF IInv
<1> QED BY <1>1, Inductive, PTL

\* Between two loads SubscriptionManager and PositionManager watch exactly what
\* the loader believes they watch.
THEOREM ManagersFollowLoader == Spec => []ManagersMatchLoader
<1>1. IInv => ManagersMatchLoader
  <2> SUFFICES ASSUME IInv, call = Idle, toAdd = {}, toUnsubscribe = {}, NEW s \in Managers
               PROVE  addresses[s] = lastAddrs
    BY DEF ManagersMatchLoader
  <2>1. call.step = "idle" OBVIOUS
  <2>2. StillToAdd(s) = {} /\ StillToDrop(s) = {} BY <2>1 DEF StillToAdd, StillToDrop, AddSteps, DropSteps
  <2> QED BY <2>2 DEF IInv, BooksOK
<1> QED BY <1>1, Inductive, PTL

\* Failing subscriptions and managers closed in the middle of a call leave no
\* subscription in the pool that no handle can cancel.
THEOREM NoSubscriptionIsOrphaned == Spec => []NoOrphanSubscription
<1>1. IInv => NoOrphanSubscription
  BY DEF IInv, HandlesOK, Open, OrderKeys, NoOrphanSubscription
<1> QED BY <1>1, Inductive, PTL

\* loadAndSync gives up no address that a load of the last Grace time units
\* contained.
THEOREM GraceIsHonoured == Spec => GraceHonoured
<1>1. IInv /\ [Next]_vars => [\A a \in lastAddrs \ lastAddrs' : unseen[a] >= Grace]_vars
  <2> SUFFICES ASSUME IInv, Next, NEW a \in lastAddrs, a \notin lastAddrs' PROVE unseen[a] >= Grace
    OBVIOUS
  <2>1. a \in Addrs /\ unseen[a] \in Nat /\ pending[a] \in Int
    BY DEF IInv, TypeOK
  <2>2. LoadAndSync
    BY CallStepFrame DEF IInv, Next, Step, CallStep, loader, TimePasses, TableChanges, CloseManager, NextAdd, NextUnsubscribe
  <2>3. a \notin table /\ Marked(a) >= Grace BY <2>1, <2>2 DEF LoadAndSync, Known, Expired, Marked
  <2>4. pending[a] # -1 => unseen[a] >= pending[a] BY <2>1 DEF IInv, CallsOK
  <2> QED BY <2>1, <2>3, <2>4 DEF Marked
<1> QED BY <1>1, Inductive, PTL DEF Spec, GraceHonoured
=============================================================================
