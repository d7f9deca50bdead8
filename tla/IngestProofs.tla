---------------------------- MODULE IngestProofs ---------------------------
(* Proofs about Ingest, for any addresses, orders, owners and number of       *)
(* messages.                                                                  *)
EXTENDS Ingest, TLAPS

USE IngestAssumption

-----------------------------------------------------------------------------
(* The inductive invariant *)

\* What a callback works on: orders of its user, of a message that was sent.
FillTaskOK(t) ==
    /\ t.msg \in 1 .. Len(sent) /\ sent[t.msg].kind = "fills"
    /\ \A o \in Oids : o \in t.todo \/ o = t.oid =>
         Owner[o] = t.user /\ o \notin Foreign \cup sent[t.msg].old

\* Only the callback of the owner gets past the mapping, and it is the one that has
\* queued the status.
UpdateTaskOK(t) ==
    /\ t.msg \in 1 .. Len(sent) /\ sent[t.msg].kind = "update" /\ sent[t.msg].oid = t.oid
    /\ t.pc # "load" => t.user = Owner[t.oid] /\ sent[t.msg].status = "filled"
    /\ t.user = Owner[t.oid] => (t.pc = "delete" <=> statusQueue[t.msg] # <<>>)

\* One callback per address and orderUpdates message.
OneCallback ==
    \A t, u \in tasks :
        t.kind = "update" /\ u.kind = "update" /\ t.msg = u.msg /\ t.user = u.user => t = u

TasksOK ==
    /\ \A t \in tasks : t.kind = "fills" => FillTaskOK(t)
    /\ \A t \in tasks : t.kind = "update" => UpdateTaskOK(t)
    /\ OneCallback

\* Nothing is queued for a message that was not sent, and no foreign order is mapped.
QueuesOK ==
    /\ Len(sent) <= MaxMsgs
    /\ \A n \in Msgs : n > Len(sent) => statusQueue[n] = <<>>
    /\ \A q \in fillQueue : q[1] \in 1 .. Len(sent)
    /\ \A o \in Foreign : oidToAddress[o] = NoAddr

\* A fill that has to be queued and is not is still before a callback.
Due(t, n, o, d) == t.kind = "fills" /\ t.msg = n /\ (o \in t.todo \/ (o = t.oid /\ d \in t.dirs))
Handled(n, o, d) ==
    <<n, o, d>> \in fillQueue \/ <<o, d>> \in seen \/ \E t \in tasks : Due(t, n, o, d)
FillsOK ==
    \A n \in 1 .. Len(sent) : sent[n].kind = "fills" =>
        \A o \in sent[n].oids \ (sent[n].old \cup Foreign) : \A d \in MustQueue(o) : Handled(n, o, d)

\* A call that is under way has an address.
CallOK == call.step # "idle" => call.addr \in Addrs

\* Until an address is unsubscribed, every callback is of a watched address.
CalmOK ==
    calm =>
        /\ callbacks \subseteq addresses /\ call.step \notin {"cancel", "clear"}
        /\ call.step = "subscribe" => call.addr \in addresses
        /\ \A t \in tasks : t.user \in addresses

\* A final status of order o is queued,
StatusQueued(o) == \E j \in 1 .. Len(sent) : statusQueue[j] # <<>> /\ sent[j].oid = o

\* or the callback of the owner is on its way to queue the one of message n.
Carries(t, n) ==
    /\ t.kind = "update" /\ t.msg = n /\ t.user = Owner[sent[n].oid]
    /\ t.pc \in {"load", "check", "enqueue"}
    /\ t.pc = "load" => oidToAddress[sent[n].oid] = t.user
Final(n) == sent[n].kind = "update" /\ sent[n].status = "filled" /\ sent[n].mapped
StatusOK ==
    calm => \A n \in 1 .. Len(sent) :
        Final(n) => StatusQueued(sent[n].oid) \/ \E t \in tasks : Carries(t, n)

Inv == /\ TypeOK /\ StatusOncePerUpdate /\ TasksOK /\ QueuesOK /\ FillsOK /\ CallOK /\ CalmOK
       /\ StatusOK

-----------------------------------------------------------------------------
(* Messages and tasks *)

LEMMA AppendFacts ==
  ASSUME NEW S, NEW s \in Seq(S), NEW m \in S
  PROVE  /\ Append(s, m) \in Seq(S) /\ Len(Append(s, m)) = Len(s) + 1
         /\ \A n \in 1 .. Len(s) : Append(s, m)[n] = s[n]
         /\ Append(s, m)[Len(s) + 1] = m
  OBVIOUS

\* The kind of a message or of a task tells its fields.
LEMMA MsgFacts ==
  ASSUME NEW m \in FillsMsgs \cup UpdateMsgs
  PROVE  /\ m.kind = "fills" => m.user \in Addrs /\ m.oids \subseteq Oids /\ m.old \subseteq Oids
         /\ m.kind = "update" => m.oid \in Oids /\ m.status \in {"open", "filled"}
         /\ m.kind \in {"fills", "update"}
  BY DEF FillsMsgs, UpdateMsgs

LEMMA TaskFacts ==
  ASSUME NEW t \in FillTasks \cup UpdateTasks
  PROVE  /\ t.kind \in {"fills", "update"} /\ t.msg \in Msgs /\ t.user \in Addrs
         /\ t.kind = "fills" => /\ t.todo \subseteq Oids /\ t.oid \in Oids \cup {NoOid}
                                /\ t.dirs \subseteq Dirs
         /\ t.kind = "update" => /\ t.oid \in Oids
                                 /\ t.pc \in {"load", "check", "enqueue", "delete"}
  BY DEF FillTasks, UpdateTasks

LEMMA UpdateTaskFacts ==
  ASSUME NEW n \in Msgs, NEW u \in Addrs, NEW o \in Oids,
         NEW pc \in {"load", "check", "enqueue", "delete"}
  PROVE  LET t == UpdateTask(n, u, o, pc) IN
         /\ t \in FillTasks \cup UpdateTasks
         /\ t.kind = "update" /\ t.msg = n /\ t.user = u /\ t.oid = o /\ t.pc = pc
  BY DEF UpdateTasks, UpdateTask

LEMMA SplitFacts ==
  ASSUME NEW o \in Oids
  PROVE  /\ SplitReversedOrder(o) = MustQueue(o) /\ MustQueue(o) \in SUBSET Dirs
  BY DEF SplitReversedOrder, MustQueue, Dirs

\* The two record constructors of the exchange.
FillsMsg(u, S, old) == [kind |-> "fills", user |-> u, oids |-> S, old |-> old]
UpdateMsg(o, status) ==
    [kind |-> "update", oid |-> o, status |-> status, mapped |-> oidToAddress[o] # NoAddr]

LEMMA UpdateMsgFacts ==
  ASSUME NEW o \in Oids, NEW status \in {"open", "filled"}
  PROVE  /\ UpdateMsg(o, status) \in FillsMsgs \cup UpdateMsgs
         /\ UpdateMsg(o, status).kind = "update" /\ UpdateMsg(o, status).oid = o
         /\ UpdateMsg(o, status).status = status
         /\ UpdateMsg(o, status).mapped => oidToAddress[o] # NoAddr
<1>1. (oidToAddress[o] # NoAddr) \in BOOLEAN
  BY Zenon
<1>2. \A b \in BOOLEAN :
        [kind |-> "update", oid |-> o, status |-> status, mapped |-> b] \in UpdateMsgs
  BY DEF UpdateMsgs
<1>3. UpdateMsg(o, status) \in UpdateMsgs
  BY <1>1, <1>2, Zenon DEF UpdateMsg
<1> QED
  BY <1>3 DEF UpdateMsg

-----------------------------------------------------------------------------
(* The calls of SubscribeAddress and UnsubscribeAddress *)

traffic == <<oidToAddress, seen, sent, tasks, fillQueue, statusQueue>>

LEMMA InitInv == Init => Inv
<1> SUFFICES ASSUME Init PROVE Inv
  OBVIOUS
<1>1. TypeOK
  BY DEF Init, TypeOK, Idle, At, Calls
<1>2. Len(sent) = 0
  BY DEF Init
<1>3. TasksOK /\ OneCallback
  BY DEF Init, TasksOK, OneCallback
<1>4. QueuesOK
  BY <1>2 DEF Init, QueuesOK
<1>5. CalmOK /\ CallOK
  BY DEF Init, CalmOK, CallOK, Idle, At
<1>6. StatusOncePerUpdate /\ FillsOK /\ StatusOK
  BY <1>2 DEF StatusOncePerUpdate, FillsOK, StatusOK
<1> QED
  BY <1>1, <1>3, <1>4, <1>5, <1>6 DEF Inv

\* FillsOK stays when its messages do, and what was handled stays handled.
LEMMA FillsStay ==
  ASSUME Inv, UNCHANGED sent,
         \A n \in 1 .. Len(sent), o \in Oids : \A d \in MustQueue(o) :
            Handled(n, o, d) => Handled(n, o, d)'
  PROVE  FillsOK'
<1>1. \A n \in 1 .. Len(sent) : sent[n].kind = "fills" => sent[n].oids \subseteq Oids
  BY MsgFacts DEF Inv, TypeOK
<1> SUFFICES ASSUME NEW n \in 1 .. Len(sent), sent[n].kind = "fills",
                    NEW o \in sent[n].oids \ (sent[n].old \cup Foreign), NEW d \in MustQueue(o)
             PROVE  Handled(n, o, d)'
  BY DEF FillsOK, MustQueue
<1>2. Handled(n, o, d) /\ o \in Oids
  BY <1>1 DEF Inv, FillsOK
<1> QED
  BY <1>2

LEMMA SameHandled ==
  ASSUME UNCHANGED <<tasks, fillQueue>>, seen \subseteq seen'
  PROVE  \A n, o, d : Handled(n, o, d) => Handled(n, o, d)'
  BY DEF Handled, Due

\* What depends on the traffic alone stays while it does.
LEMMA SameTraffic ==
  ASSUME Inv, UNCHANGED traffic
  PROVE  StatusOncePerUpdate' /\ TasksOK' /\ QueuesOK' /\ FillsOK'
<1> USE DEF Inv, traffic
<1>1. StatusOncePerUpdate'
  BY DEF StatusOncePerUpdate
<1>2. TasksOK'
  BY DEF TasksOK, FillTaskOK, UpdateTaskOK, OneCallback
<1>3. QueuesOK'
  BY DEF QueuesOK
<1>4. FillsOK'
  BY FillsStay, SameHandled
<1> QED
  BY <1>1, <1>2, <1>3, <1>4

LEMMA SameTrafficStatus ==
  ASSUME StatusOK, UNCHANGED traffic, calm' => calm
  PROVE  StatusOK'
  BY DEF StatusOK, StatusQueued, Carries, Final, traffic

LEMMA SubscribeStep ==
  ASSUME Inv, NEW a \in Addrs, SubscribeAddress(a)
  PROVE  Inv'
<1>1. UNCHANGED traffic /\ UNCHANGED calm
  BY DEF SubscribeAddress, traffic
<1>2. TypeOK'
  BY DEF Inv, TypeOK, SubscribeAddress, At, Calls
<1>3. CalmOK' /\ CallOK'
  BY DEF Inv, CalmOK, CallOK, SubscribeAddress, At
<1> QED
  BY <1>1, <1>2, <1>3, SameTraffic, SameTrafficStatus DEF Inv

LEMMA PoolSubscribedStep ==
  ASSUME Inv, PoolSubscribed
  PROVE  Inv'
<1>1. UNCHANGED traffic /\ UNCHANGED calm
  BY DEF PoolSubscribed, traffic
<1>2. TypeOK'
  <2>1. call.addr \in Addrs
    BY DEF Inv, CallOK, PoolSubscribed
  <2> QED
    BY <2>1 DEF Inv, TypeOK, PoolSubscribed, At, Idle, Calls
<1>3. CalmOK' /\ CallOK'
  BY DEF Inv, CalmOK, CallOK, PoolSubscribed, At, Idle
<1> QED
  BY <1>1, <1>2, <1>3, SameTraffic, SameTrafficStatus DEF Inv

LEMMA UnsubscribeStep ==
  ASSUME Inv, NEW a \in Addrs, UnsubscribeAddress(a)
  PROVE  Inv'
<1>1. UNCHANGED traffic
  BY DEF UnsubscribeAddress, traffic
<1>2. ~calm'
  BY Zenon DEF UnsubscribeAddress
<1>3. TypeOK'
  <2>1. calm' \in BOOLEAN
    BY Zenon DEF UnsubscribeAddress
  <2> QED
    BY <2>1 DEF Inv, TypeOK, UnsubscribeAddress, At, Calls
<1>4. CalmOK' /\ StatusOK'
  BY <1>2 DEF CalmOK, StatusOK
<1>5. CallOK'
  BY DEF UnsubscribeAddress, CallOK, At
<1> QED
  BY <1>1, <1>3, <1>4, <1>5, SameTraffic DEF Inv

LEMMA PoolUnsubscribedStep ==
  ASSUME Inv, PoolUnsubscribed
  PROVE  Inv'
<1>1. UNCHANGED traffic /\ UNCHANGED calm
  BY DEF PoolUnsubscribed, traffic
<1>2. TypeOK'
  BY DEF Inv, TypeOK, PoolUnsubscribed, At, Calls
<1>3. ~calm
  BY DEF Inv, CalmOK, PoolUnsubscribed
<1>4. CalmOK' /\ StatusOK'
  BY <1>1, <1>3 DEF CalmOK, StatusOK
<1>5. CallOK'
  BY DEF Inv, PoolUnsubscribed, CallOK, At
<1> QED
  BY <1>1, <1>2, <1>4, <1>5, SameTraffic DEF Inv

\* The mapping of every address is lost: calm is over.
LEMMA ClearMappingStep ==
  ASSUME Inv, ClearMapping
  PROVE  Inv'
<1> USE DEF Inv, ClearMapping
<1>1. TypeOK'
  BY DEF TypeOK, Idle, At, Calls
<1>2. ~calm'
  BY DEF CalmOK
<1>3. CalmOK' /\ StatusOK'
  BY <1>2 DEF CalmOK, StatusOK
<1>4. StatusOncePerUpdate'
  BY DEF StatusOncePerUpdate
<1>5. TasksOK'
  BY DEF TasksOK, FillTaskOK, UpdateTaskOK, OneCallback
<1>6. QueuesOK'
  BY DEF QueuesOK
<1>7. FillsOK'
  BY FillsStay, SameHandled
<1>8. CallOK'
  BY DEF CallOK, Idle, At
<1> QED
  BY <1>1, <1>3, <1>4, <1>5, <1>6, <1>7, <1>8

-----------------------------------------------------------------------------
(* The exchange *)

\* A message is appended: what was said of the earlier ones stays.
LEMMA SendFacts ==
  ASSUME Inv, NEW m \in FillsMsgs \cup UpdateMsgs, Len(sent) < MaxMsgs, sent' = Append(sent, m),
         UNCHANGED <<fillQueue, statusQueue, oidToAddress>>
  PROVE  /\ sent' \in Seq(FillsMsgs \cup UpdateMsgs)
         /\ Len(sent) \in Nat /\ Len(sent') = Len(sent) + 1 /\ Len(sent') \in Msgs
         /\ \A n \in 1 .. Len(sent) : sent'[n] = sent[n]
         /\ sent'[Len(sent')] = m
         /\ statusQueue[Len(sent')] = <<>>
         /\ StatusOncePerUpdate' /\ QueuesOK'
         /\ \A q \in fillQueue : q[2] \notin Foreign \cup sent'[q[1]].old
<1>1. /\ sent' \in Seq(FillsMsgs \cup UpdateMsgs)
      /\ Len(sent) \in Nat /\ Len(sent') = Len(sent) + 1
      /\ \A n \in 1 .. Len(sent) : sent'[n] = sent[n]
      /\ sent'[Len(sent')] = m
  BY AppendFacts DEF Inv, TypeOK
<1>2. Len(sent') \in Msgs
  BY <1>1 DEF Msgs
<1>3. statusQueue[Len(sent')] = <<>>
  BY <1>1, <1>2 DEF Inv, QueuesOK
<1>4. StatusOncePerUpdate'
  BY <1>1, <1>3 DEF Inv, StatusOncePerUpdate
<1>5. QueuesOK'
  BY <1>1 DEF Inv, QueuesOK, Msgs
<1>6. \A q \in fillQueue : q[2] \notin Foreign \cup sent'[q[1]].old
  BY <1>1 DEF Inv, QueuesOK, TypeOK
<1> QED
  BY <1>1, <1>2, <1>3, <1>4, <1>5, <1>6

\* The tasks that were there keep what was said of them, and new ones are added.
LEMMA SendTasks ==
  ASSUME Inv, tasks \subseteq tasks', UNCHANGED statusQueue, Len(sent) \in Nat,
         Len(sent') = Len(sent) + 1, \A n \in 1 .. Len(sent) : sent'[n] = sent[n],
         \A r \in tasks' \ tasks : r.msg = Len(sent'),
         \A r \in tasks' \ tasks : r.kind = "fills" => FillTaskOK(r)',
         \A r \in tasks' \ tasks : r.kind = "update" => UpdateTaskOK(r)',
         \A r, u \in tasks' \ tasks :
            r.kind = "update" /\ u.kind = "update" /\ r.user = u.user => r = u
  PROVE  TasksOK'
<1>1. \A t \in tasks : t.kind = "fills" => FillTaskOK(t)'
  BY DEF Inv, TasksOK, FillTaskOK
<1>2. \A t \in tasks : t.kind = "update" => UpdateTaskOK(t)'
  BY DEF Inv, TasksOK, UpdateTaskOK
<1>3. OneCallback'
  <2>1. \A t \in tasks : t.kind = "update" => t.msg # Len(sent')
    BY DEF Inv, TasksOK, UpdateTaskOK
  <2> QED
    BY <2>1 DEF Inv, TasksOK, OneCallback
<1> QED
  BY <1>1, <1>2, <1>3 DEF TasksOK

LEMMA SendStatus ==
  ASSUME Inv, tasks \subseteq tasks', UNCHANGED <<statusQueue, oidToAddress, calm>>,
         NEW N, N = Len(sent'), Len(sent) \in Nat, N = Len(sent) + 1,
         \A n \in 1 .. Len(sent) : sent'[n] = sent[n],
         Final(N)' => \E t \in tasks' : Carries(t, N)'
  PROVE  StatusOK'
<1> SUFFICES ASSUME calm, NEW n \in 1 .. N, Final(n)'
             PROVE  StatusQueued(sent[n].oid)' \/ \E t \in tasks' : Carries(t, n)'
  BY DEF StatusOK
<1>1. CASE n = N
  BY <1>1
<1>2. CASE n \in 1 .. Len(sent)
  <2>1. sent'[n] = sent[n] /\ Final(n)
    BY <1>2 DEF Final
  <2>2. CASE StatusQueued(sent[n].oid)
    <3>1. PICK j \in 1 .. Len(sent) : statusQueue[j] # <<>> /\ sent[j].oid = sent[n].oid
      BY <2>2 DEF StatusQueued
    <3>2. j \in 1 .. Len(sent') /\ sent'[j] = sent[j]
      OBVIOUS
    <3> QED
      BY <2>1, <3>1, <3>2 DEF StatusQueued
  <2>3. CASE \E t \in tasks : Carries(t, n)
    BY <2>1, <2>3 DEF Carries
  <2> QED
    BY <1>2, <2>1, <2>2, <2>3 DEF Inv, StatusOK
<1> QED
  BY <1>1, <1>2

LEMMA SendFillsStep ==
  ASSUME Inv, NEW u \in Addrs, NEW S \in SUBSET Oids, NEW old \in SUBSET S, SendFills(u, S, old)
  PROVE  Inv'
<1>a. PICK N : N = Len(sent')
  OBVIOUS
<1>b. PICK m : m = FillsMsg(u, S, old)
  OBVIOUS
<1>c. PICK r : r = FillTask(N, u, (S \ old) \ Foreign, NoOid, {})
  OBVIOUS
<1>2. /\ m \in FillsMsgs \cup UpdateMsgs /\ m.kind = "fills" /\ m.oids = S /\ m.old = old
      /\ Accepted(m) = (S \ old) \ Foreign
  BY <1>b DEF FillsMsg, FillsMsgs, Accepted
<1>1. /\ sent' = Append(sent, m) /\ tasks' = tasks \cup {r} /\ Len(sent) < MaxMsgs
      /\ u \in callbacks /\ \A o \in S : Owner[o] = u
      /\ UNCHANGED <<fillQueue, statusQueue, oidToAddress, seen, calm>>
      /\ UNCHANGED <<addresses, callbacks, call>>
  BY <1>2, <1>a, <1>b, <1>c, Zenon DEF SendFills, FillsMsg, subscription
<1>3. /\ sent' \in Seq(FillsMsgs \cup UpdateMsgs)
      /\ Len(sent) \in Nat /\ N = Len(sent) + 1 /\ N \in Msgs
      /\ \A n \in 1 .. Len(sent) : sent'[n] = sent[n]
      /\ sent'[N] = m
      /\ StatusOncePerUpdate' /\ QueuesOK'
      /\ \A q \in fillQueue : q[2] \notin Foreign \cup sent'[q[1]].old
  BY <1>a, <1>1, <1>2, SendFacts
<1>4. /\ r \in FillTasks \cup UpdateTasks /\ r.kind = "fills" /\ r.msg = N /\ r.user = u
      /\ r.todo = (S \ old) \ Foreign /\ r.oid = NoOid /\ r.dirs = {}
  BY <1>c, <1>3 DEF FillTask, FillTasks
<1>5. TypeOK'
  BY <1>1, <1>3, <1>4 DEF Inv, TypeOK
<1>6. TasksOK'
  <2>1. FillTaskOK(r)'
    <3>1. \A o \in Oids : o \in r.todo \/ o = r.oid => Owner[o] = u /\ o \notin Foreign \cup old
      BY <1>1, <1>4
    <3> QED
      BY <1>a, <1>2, <1>3, <1>4, <3>1 DEF FillTaskOK
  <2> QED
    BY <1>a, <1>1, <1>3, <1>4, <2>1, SendTasks
<1>7. FillsOK'
  <2> SUFFICES ASSUME NEW n \in 1 .. Len(sent'), sent'[n].kind = "fills",
                      NEW o \in sent'[n].oids \ (sent'[n].old \cup Foreign), NEW d \in MustQueue(o)
               PROVE  Handled(n, o, d)'
    BY DEF FillsOK, MustQueue
  <2>1. CASE n = N
    <3>1. o \in r.todo
      BY <1>2, <1>3, <1>4, <2>1
    <3> QED
      BY <1>1, <1>4, <2>1, <3>1 DEF Handled, Due
  <2>2. CASE n \in 1 .. Len(sent)
    <3>1. Handled(n, o, d)
      BY <1>3, <2>2 DEF Inv, FillsOK
    <3> QED
      BY <1>1, <3>1 DEF Handled, Due
  <2> QED
    BY <1>a, <1>3, <2>1, <2>2
<1>8. CalmOK' /\ CallOK'
  BY <1>1, <1>4 DEF Inv, CalmOK, CallOK
<1>9. StatusOK'
  <2>1. ~Final(N)'
    BY <1>2, <1>3 DEF Final
  <2> QED
    BY <1>a, <1>1, <1>3, <2>1, SendStatus
<1> QED
  BY <1>3, <1>5, <1>6, <1>7, <1>8, <1>9 DEF Inv

LEMMA SendUpdateStep ==
  ASSUME Inv, NEW o \in Oids, NEW status \in {"open", "filled"}, SendUpdate(o, status)
  PROVE  Inv'
<1>a. PICK N : N = Len(sent')
  OBVIOUS
<1>b. PICK m : m = UpdateMsg(o, status)
  OBVIOUS
<1>c. PICK R : R = IF o \in Foreign THEN {} ELSE {UpdateTask(N, u, o, "load") : u \in callbacks}
  OBVIOUS
<1>1. /\ sent' = Append(sent, m) /\ tasks' = tasks \cup R /\ Len(sent) < MaxMsgs
      /\ Owner[o] \in callbacks
      /\ UNCHANGED <<fillQueue, statusQueue, oidToAddress, seen, calm>>
      /\ UNCHANGED <<addresses, callbacks, call>>
  <2>1. sent' = Append(sent, m)
    BY <1>b, Zenon DEF SendUpdate, UpdateMsg
  <2>2. tasks' = tasks \cup R
    <3>1. tasks' = IF o \in Foreign THEN tasks
                   ELSE tasks \cup {UpdateTask(N, u, o, "load") : u \in callbacks}
      BY <1>a, Zenon DEF SendUpdate
    <3> QED
      BY <1>c, <3>1
  <2> QED
    BY <2>1, <2>2 DEF SendUpdate, subscription
<1>2. /\ m \in FillsMsgs \cup UpdateMsgs /\ m.kind = "update" /\ m.oid = o /\ m.status = status
      /\ m.mapped => oidToAddress[o] # NoAddr
  BY <1>b, UpdateMsgFacts
<1>3. /\ sent' \in Seq(FillsMsgs \cup UpdateMsgs)
      /\ Len(sent) \in Nat /\ N = Len(sent) + 1 /\ N \in Msgs
      /\ \A n \in 1 .. Len(sent) : sent'[n] = sent[n]
      /\ sent'[N] = m
      /\ statusQueue[N] = <<>>
      /\ StatusOncePerUpdate' /\ QueuesOK'
      /\ \A q \in fillQueue : q[2] \notin Foreign \cup sent'[q[1]].old
  BY <1>a, <1>1, <1>2, SendFacts
<1>4. \A u \in callbacks :
        LET r == UpdateTask(N, u, o, "load") IN
        /\ r \in FillTasks \cup UpdateTasks /\ r.kind = "update" /\ r.msg = N /\ r.user = u
        /\ r.oid = o /\ r.pc = "load"
  BY <1>3, UpdateTaskFacts DEF Inv, TypeOK
<1>5. \A r \in R :
        /\ r \in FillTasks \cup UpdateTasks /\ r.kind = "update" /\ r.msg = N
        /\ r.user \in callbacks /\ r.oid = o /\ r.pc = "load"
        /\ r = UpdateTask(N, r.user, o, "load")
  BY <1>4, <1>c
<1>6. o \notin Foreign => \E r \in R : r.user = Owner[o]
  BY <1>1, <1>4, <1>c
<1>7. TypeOK'
  BY <1>1, <1>3, <1>5 DEF Inv, TypeOK
<1>8. TasksOK'
  <2>1. \A r \in R : UpdateTaskOK(r)'
    BY <1>a, <1>1, <1>2, <1>3, <1>5 DEF UpdateTaskOK
  <2>2. \A r, u \in R : r.user = u.user => r = u
    BY <1>5
  <2>3. \A r \in R : r.msg = Len(sent') /\ r.kind # "fills"
    BY <1>a, <1>5
  <2> QED
    BY <1>a, <1>1, <1>3, <2>1, <2>2, <2>3, SendTasks
<1>9. FillsOK'
  <2> SUFFICES ASSUME NEW n \in 1 .. Len(sent'), sent'[n].kind = "fills",
                      NEW x \in sent'[n].oids \ (sent'[n].old \cup Foreign), NEW d \in MustQueue(x)
               PROVE  Handled(n, x, d)'
    BY DEF FillsOK, MustQueue
  <2>1. n \in 1 .. Len(sent) /\ sent'[n] = sent[n]
    BY <1>a, <1>2, <1>3
  <2>2. Handled(n, x, d)
    BY <2>1 DEF Inv, FillsOK
  <2> QED
    BY <1>1, <2>2 DEF Handled, Due
<1>10. CalmOK' /\ CallOK'
  BY <1>1, <1>5 DEF Inv, CalmOK, CallOK
<1>11. StatusOK'
  <2>1. Final(N)' => \E t \in tasks' : Carries(t, N)'
    <3> SUFFICES ASSUME Final(N)'
                 PROVE  \E t \in tasks' : Carries(t, N)'
      OBVIOUS
    <3>0. m.mapped
      BY <1>3 DEF Final
    <3>1. oidToAddress[o] = Owner[o] /\ o \notin Foreign
      BY <1>2, <3>0 DEF Inv, TypeOK, QueuesOK
    <3> QED
      BY <1>1, <1>2, <1>3, <1>5, <1>6, <3>1 DEF Carries
  <2> QED
    BY <1>a, <1>1, <1>3, <2>1, SendStatus
<1> QED
  BY <1>3, <1>7, <1>8, <1>9, <1>10, <1>11 DEF Inv

LEMMA MarkSeenStep ==
  ASSUME Inv, NEW o \in Oids, NEW d \in Dirs, MarkSeen(o, d)
  PROVE  Inv'
<1> USE DEF Inv, MarkSeen, subscription
<1>1. TypeOK'
  BY DEF TypeOK
<1>2. StatusOncePerUpdate'
  BY DEF StatusOncePerUpdate
<1>3. TasksOK'
  BY DEF TasksOK, FillTaskOK, UpdateTaskOK, OneCallback
<1>4. QueuesOK'
  BY DEF QueuesOK
<1>5. FillsOK'
  BY FillsStay, SameHandled
<1>6. CalmOK'
  BY DEF CalmOK
<1>8. CallOK'
  BY DEF CallOK
<1>7. StatusOK'
  BY DEF StatusOK, StatusQueued, Carries, Final
<1> QED
  BY <1>1, <1>2, <1>3, <1>4, <1>5, <1>6, <1>7, <1>8

-----------------------------------------------------------------------------
(* The steps of the callbacks *)

\* What is known of the task of a step.
LEMMA FillTaskKnown ==
  ASSUME Inv, NEW t \in tasks, t.kind = "fills"
  PROVE  /\ t.msg \in Msgs /\ t.user \in Addrs /\ t.todo \in SUBSET Oids
         /\ t.oid \in Oids \cup {NoOid} /\ t.dirs \in SUBSET Dirs
         /\ FillTaskOK(t)
  BY TaskFacts DEF Inv, TypeOK, TasksOK

LEMMA UpdateTaskKnown ==
  ASSUME Inv, NEW t \in tasks, t.kind = "update"
  PROVE  /\ t.msg \in Msgs /\ t.user \in Addrs /\ t.oid \in Oids
         /\ t.pc \in {"load", "check", "enqueue", "delete"}
         /\ UpdateTaskOK(t)
  BY TaskFacts DEF Inv, TypeOK, TasksOK

\* A callback moves on: one task at most takes its place, of the same message and user.
LEMMA TaskMoves ==
  ASSUME Inv, NEW t \in tasks, UNCHANGED <<sent, statusQueue>>,
         \A r \in tasks' : \/ r \in tasks \ {t}
                           \/ /\ r.kind = t.kind /\ r.msg = t.msg /\ r.user = t.user
                              /\ r.kind = "fills" => FillTaskOK(r)'
                              /\ r.kind = "update" => UpdateTaskOK(r)',
         \A r, u \in tasks' : r \notin tasks \ {t} /\ u \notin tasks \ {t} => r = u
  PROVE  TasksOK'
<1>1. \A r \in tasks' : r.kind = "fills" => FillTaskOK(r)'
  BY DEF Inv, TasksOK, FillTaskOK
<1>2. \A r \in tasks' : r.kind = "update" => UpdateTaskOK(r)'
  BY DEF Inv, TasksOK, UpdateTaskOK
<1>3. OneCallback'
  <2>1. \A r, u \in tasks : r.kind = "update" /\ u.kind = "update" /\ r.msg = u.msg
                              /\ r.user = u.user => r = u
    BY DEF Inv, TasksOK, OneCallback
  <2> QED
    BY <2>1 DEF OneCallback
<1> QED
  BY <1>1, <1>2, <1>3 DEF TasksOK

LEMMA StatusStays ==
  ASSUME StatusOK, UNCHANGED <<sent, calm>>,
         \A n \in 1 .. Len(sent) : calm /\ Final(n) =>
            /\ StatusQueued(sent[n].oid) => StatusQueued(sent[n].oid)'
            /\ \A t \in tasks : Carries(t, n) =>
                  StatusQueued(sent[n].oid)' \/ \E u \in tasks' : Carries(u, n)'
  PROVE  StatusOK'
<1> SUFFICES ASSUME calm', NEW n \in 1 .. Len(sent'), Final(n)'
             PROVE  StatusQueued(sent[n].oid)' \/ \E t \in tasks' : Carries(t, n)'
  BY DEF StatusOK
<1>1. calm /\ Final(n) /\ n \in 1 .. Len(sent)
  BY DEF Final
<1> QED
  BY <1>1 DEF StatusOK

LEMMA SameStatusQueue ==
  ASSUME UNCHANGED <<sent, statusQueue>>, NEW n, StatusQueued(sent[n].oid)
  PROVE  StatusQueued(sent[n].oid)'
  BY DEF StatusQueued

LEMMA StoreMappingStep ==
  ASSUME Inv, NEW t \in tasks, NEW o \in Oids, StoreMapping(t, o)
  PROVE  Inv'
<1>1. /\ t.kind = "fills" /\ t.oid = NoOid /\ o \in t.todo
      /\ oidToAddress' = [oidToAddress EXCEPT ![o] = t.user]
      /\ UNCHANGED <<addresses, callbacks, call, calm>>
      /\ UNCHANGED <<seen, sent, fillQueue, statusQueue>>
  BY DEF StoreMapping, subscription
<1>2. /\ t.msg \in Msgs /\ t.user \in Addrs /\ t.todo \in SUBSET Oids /\ FillTaskOK(t)
  BY <1>1, FillTaskKnown
<1>3. PICK r : r = FillTask(t.msg, t.user, t.todo \ {o}, o, MustQueue(o))
  OBVIOUS
<1>4. tasks' = (tasks \ {t}) \cup {r}
  BY <1>3, SplitFacts DEF StoreMapping
<1>5. /\ r \in FillTasks \cup UpdateTasks /\ r.kind = "fills" /\ r.msg = t.msg /\ r.user = t.user
      /\ r.todo = t.todo \ {o} /\ r.oid = o /\ r.dirs = MustQueue(o)
  BY <1>2, <1>3, SplitFacts DEF FillTask, FillTasks
<1>6. Owner[o] = t.user /\ o \notin Foreign
  BY <1>1, <1>2 DEF FillTaskOK
<1>7. TypeOK'
  BY <1>1, <1>2, <1>4, <1>5, <1>6 DEF Inv, TypeOK
<1>8. StatusOncePerUpdate'
  BY <1>1 DEF Inv, StatusOncePerUpdate
<1>9. TasksOK'
  <2>1. FillTaskOK(r)'
    BY <1>1, <1>2, <1>5 DEF FillTaskOK
  <2> QED
    BY <1>1, <1>4, <1>5, <2>1, TaskMoves
<1>10. QueuesOK'
  BY <1>1, <1>6 DEF Inv, QueuesOK, TypeOK
<1>11. FillsOK'
  <2>1. ASSUME NEW n, NEW x \in Oids, NEW d \in MustQueue(x), Handled(n, x, d)
        PROVE  Handled(n, x, d)'
    <3>1. CASE Due(t, n, x, d)
      <4>1. Due(r, n, x, d)
        BY <1>1, <1>5, <3>1 DEF Due
      <4> QED
        BY <1>4, <4>1 DEF Handled, Due
    <3>2. CASE ~Due(t, n, x, d)
      BY <1>1, <1>4, <2>1, <3>2 DEF Handled, Due
    <3> QED
      BY <3>1, <3>2
  <2> QED
    BY <1>1, <2>1, FillsStay
<1>12. CalmOK' /\ CallOK'
  BY <1>1, <1>4, <1>5 DEF Inv, CalmOK, CallOK
<1>13. StatusOK'
  <2>1. ASSUME NEW n \in 1 .. Len(sent), NEW u \in tasks, Carries(u, n)
        PROVE  \E v \in tasks' : Carries(v, n)'
    <3>1. u \in tasks'
      BY <1>1, <1>4, <2>1 DEF Carries
    <3>2. Carries(u, n)'
      BY <1>1, <1>6, <2>1 DEF Carries, Inv, TypeOK
    <3> QED
      BY <3>1, <3>2
  <2> QED
    BY <1>1, <2>1, StatusStays, SameStatusQueue DEF Inv
<1> QED
  BY <1>7, <1>8, <1>9, <1>10, <1>11, <1>12, <1>13 DEF Inv

LEMMA EnqueueFillStep ==
  ASSUME Inv, NEW t \in tasks, NEW d \in Dirs, EnqueueFill(t, d)
  PROVE  Inv'
<1>1. /\ t.kind = "fills" /\ t.oid # NoOid /\ d \in t.dirs
      /\ fillQueue' = IF <<t.oid, d>> \in seen THEN fillQueue ELSE fillQueue \cup {<<t.msg, t.oid, d>>}
      /\ UNCHANGED <<addresses, callbacks, call, calm>>
      /\ UNCHANGED <<oidToAddress, seen, sent, statusQueue>>
  BY DEF EnqueueFill, subscription
<1>2. /\ t.msg \in Msgs /\ t.user \in Addrs /\ t.todo \in SUBSET Oids /\ t.oid \in Oids
      /\ t.dirs \in SUBSET Dirs /\ FillTaskOK(t)
  BY <1>1, FillTaskKnown
<1>3. PICK r : r = FillTask(t.msg, t.user, t.todo, IF t.dirs = {d} THEN NoOid ELSE t.oid, t.dirs \ {d})
  OBVIOUS
<1>4. tasks' = (tasks \ {t}) \cup {r}
  BY <1>3 DEF EnqueueFill
<1>5. /\ r \in FillTasks \cup UpdateTasks /\ r.kind = "fills" /\ r.msg = t.msg /\ r.user = t.user
      /\ r.todo = t.todo /\ r.oid = (IF t.dirs = {d} THEN NoOid ELSE t.oid) /\ r.dirs = t.dirs \ {d}
  BY <1>2, <1>3 DEF FillTask, FillTasks
<1>6. /\ t.oid \notin Foreign \cup sent[t.msg].old /\ t.msg \in 1 .. Len(sent)
  BY <1>2 DEF FillTaskOK
<1>7. TypeOK'
  BY <1>1, <1>2, <1>4, <1>5, <1>6 DEF Inv, TypeOK
<1>8. StatusOncePerUpdate'
  BY <1>1 DEF Inv, StatusOncePerUpdate
<1>9. TasksOK'
  <2>1. FillTaskOK(r)'
    BY <1>1, <1>2, <1>5 DEF FillTaskOK
  <2> QED
    BY <1>1, <1>4, <1>5, <2>1, TaskMoves
<1>10. QueuesOK'
  BY <1>1, <1>6 DEF Inv, QueuesOK
<1>11. FillsOK'
  <2>1. ASSUME NEW n, NEW x \in Oids, NEW e \in MustQueue(x), Handled(n, x, e)
        PROVE  Handled(n, x, e)'
    <3>1. CASE Due(t, n, x, e) /\ x = t.oid /\ e = d
      BY <1>1, <3>1 DEF Handled, Due
    <3>2. CASE Due(t, n, x, e) /\ ~(x = t.oid /\ e = d)
      <4>1. Due(r, n, x, e)
        BY <1>1, <1>5, <3>2 DEF Due
      <4> QED
        BY <1>4, <4>1 DEF Handled, Due
    <3>3. CASE ~Due(t, n, x, e)
      BY <1>1, <1>4, <2>1, <3>3 DEF Handled, Due
    <3> QED
      BY <3>1, <3>2, <3>3
  <2> QED
    BY <1>1, <2>1, FillsStay
<1>12. CalmOK' /\ CallOK'
  BY <1>1, <1>4, <1>5 DEF Inv, CalmOK, CallOK
<1>13. StatusOK'
  <2>1. ASSUME NEW n \in 1 .. Len(sent), NEW u \in tasks, Carries(u, n)
        PROVE  \E v \in tasks' : Carries(v, n)'
    BY <1>1, <1>4, <2>1 DEF Carries
  <2> QED
    BY <1>1, <2>1, StatusStays, SameStatusQueue DEF Inv
<1> QED
  BY <1>7, <1>8, <1>9, <1>10, <1>11, <1>12, <1>13 DEF Inv

LEMMA FillsDoneStep ==
  ASSUME Inv, NEW t \in tasks, FillsDone(t)
  PROVE  Inv'
<1>1. /\ t.kind = "fills" /\ t.oid = NoOid /\ t.todo = {} /\ tasks' = tasks \ {t}
      /\ UNCHANGED <<addresses, callbacks, call, calm>>
      /\ UNCHANGED <<oidToAddress, seen, sent, fillQueue, statusQueue>>
  BY DEF FillsDone, subscription
<1>2. TypeOK'
  BY <1>1 DEF Inv, TypeOK
<1>3. StatusOncePerUpdate'
  BY <1>1 DEF Inv, StatusOncePerUpdate
<1>4. TasksOK'
  BY <1>1, TaskMoves
<1>5. QueuesOK'
  BY <1>1 DEF Inv, QueuesOK
<1>6. FillsOK'
  <2>1. ASSUME NEW n, NEW x \in Oids, NEW d \in MustQueue(x), Handled(n, x, d)
        PROVE  Handled(n, x, d)'
    <3>1. ~Due(t, n, x, d)
      BY <1>1 DEF Due
    <3> QED
      BY <1>1, <2>1, <3>1 DEF Handled, Due
  <2> QED
    BY <1>1, <2>1, FillsStay
<1>7. CalmOK' /\ CallOK'
  BY <1>1 DEF Inv, CalmOK, CallOK
<1>8. StatusOK'
  <2>1. ASSUME NEW n \in 1 .. Len(sent), NEW u \in tasks, Carries(u, n)
        PROVE  \E v \in tasks' : Carries(v, n)'
    BY <1>1, <2>1 DEF Carries
  <2> QED
    BY <1>1, <2>1, StatusStays, SameStatusQueue DEF Inv
<1> QED
  BY <1>2, <1>3, <1>4, <1>5, <1>6, <1>7, <1>8 DEF Inv

\* A step of an updates callback handles no fills.
LEMMA UpdateFills ==
  ASSUME Inv, NEW t \in tasks, t.kind = "update", tasks \ {t} \subseteq tasks',
         UNCHANGED <<sent, seen, fillQueue>>
  PROVE  FillsOK'
<1>1. ASSUME NEW n, NEW x \in Oids, NEW d \in MustQueue(x), Handled(n, x, d)
      PROVE  Handled(n, x, d)'
  <2>1. ~Due(t, n, x, d)
    BY DEF Due
  <2> QED
    BY <1>1, <2>1 DEF Handled, Due
<1> QED
  BY <1>1, FillsStay

LEMMA LoadMappingStep ==
  ASSUME Inv, NEW t \in tasks, LoadMapping(t)
  PROVE  Inv'
<1>1. /\ t.kind = "update" /\ t.pc = "load"
      /\ UNCHANGED <<addresses, callbacks, call, calm>>
      /\ UNCHANGED <<oidToAddress, seen, sent, fillQueue, statusQueue>>
  BY DEF LoadMapping, subscription
<1>2. /\ t.msg \in Msgs /\ t.user \in Addrs /\ t.oid \in Oids /\ UpdateTaskOK(t)
  BY <1>1, UpdateTaskKnown
<1>3. PICK r : r = UpdateTask(t.msg, t.user, t.oid, "check")
  OBVIOUS
<1>4. /\ r \in FillTasks \cup UpdateTasks /\ r.kind = "update" /\ r.msg = t.msg /\ r.user = t.user
      /\ r.oid = t.oid /\ r.pc = "check"
  BY <1>2, <1>3 DEF UpdateTask, UpdateTasks
<1>5. PICK own \in BOOLEAN : own <=> oidToAddress[t.oid] = t.user /\ sent[t.msg].status = "filled"
  BY Zenon
<1>6. tasks' = (tasks \ {t}) \cup (IF own THEN {r} ELSE {})
  BY <1>3, <1>5 DEF LoadMapping, IsOwnOrder
<1>7. own => t.user = Owner[t.oid]
  BY <1>2, <1>5 DEF Inv, TypeOK
<1>8. TypeOK'
  BY <1>1, <1>4, <1>6 DEF Inv, TypeOK
<1>9. StatusOncePerUpdate'
  BY <1>1 DEF Inv, StatusOncePerUpdate
<1>10. TasksOK'
  <2>1. own => UpdateTaskOK(r)'
    BY <1>1, <1>2, <1>4, <1>5, <1>7 DEF UpdateTaskOK
  <2> QED
    BY <1>1, <1>4, <1>6, <2>1, TaskMoves
<1>11. QueuesOK'
  BY <1>1 DEF Inv, QueuesOK
<1>12. FillsOK'
  BY <1>1, <1>6, UpdateFills
<1>13. CalmOK' /\ CallOK'
  BY <1>1, <1>4, <1>6 DEF Inv, CalmOK, CallOK
<1>14. StatusOK'
  <2>1. ASSUME NEW n \in 1 .. Len(sent), Final(n), NEW u \in tasks, Carries(u, n)
        PROVE  \E v \in tasks' : Carries(v, n)'
    <3>1. CASE u = t
      <4>1. own
        BY <1>1, <1>2, <1>5, <2>1, <3>1 DEF Carries, Final, UpdateTaskOK
      <4>2. Carries(r, n)'
        BY <1>1, <1>4, <2>1, <3>1 DEF Carries
      <4> QED
        BY <1>6, <4>1, <4>2
    <3>2. CASE u # t
      BY <1>1, <1>6, <2>1, <3>2 DEF Carries
    <3> QED
      BY <3>1, <3>2
  <2> QED
    BY <1>1, <2>1, StatusStays, SameStatusQueue DEF Inv
<1> QED
  BY <1>8, <1>9, <1>10, <1>11, <1>12, <1>13, <1>14 DEF Inv

LEMMA CheckSubscribedStep ==
  ASSUME Inv, NEW t \in tasks, CheckSubscribed(t)
  PROVE  Inv'
<1>1. /\ t.kind = "update" /\ t.pc = "check"
      /\ UNCHANGED <<addresses, callbacks, call, calm>>
      /\ UNCHANGED <<oidToAddress, seen, sent, fillQueue, statusQueue>>
  BY DEF CheckSubscribed, subscription
<1>2. /\ t.msg \in Msgs /\ t.user \in Addrs /\ t.oid \in Oids /\ UpdateTaskOK(t)
  BY <1>1, UpdateTaskKnown
<1>3. PICK r : r = UpdateTask(t.msg, t.user, t.oid, "enqueue")
  OBVIOUS
<1>4. /\ r \in FillTasks \cup UpdateTasks /\ r.kind = "update" /\ r.msg = t.msg /\ r.user = t.user
      /\ r.oid = t.oid /\ r.pc = "enqueue"
  BY <1>2, <1>3 DEF UpdateTask, UpdateTasks
<1>5. tasks' = (tasks \ {t}) \cup (IF t.user \in addresses THEN {r} ELSE {})
  BY <1>3 DEF CheckSubscribed
<1>6. TypeOK'
  BY <1>1, <1>4, <1>5 DEF Inv, TypeOK
<1>7. StatusOncePerUpdate'
  BY <1>1 DEF Inv, StatusOncePerUpdate
<1>8. TasksOK'
  <2>1. UpdateTaskOK(r)'
    BY <1>1, <1>2, <1>4 DEF UpdateTaskOK
  <2> QED
    BY <1>1, <1>4, <1>5, <2>1, TaskMoves
<1>9. QueuesOK'
  BY <1>1 DEF Inv, QueuesOK
<1>10. FillsOK'
  BY <1>1, <1>5, UpdateFills
<1>11. CalmOK' /\ CallOK'
  BY <1>1, <1>4, <1>5 DEF Inv, CalmOK, CallOK
<1>12. StatusOK'
  <2>1. ASSUME calm, NEW n \in 1 .. Len(sent), NEW u \in tasks, Carries(u, n)
        PROVE  \E v \in tasks' : Carries(v, n)'
    <3>1. CASE u = t
      <4>1. r \in tasks'
        BY <1>5, <2>1 DEF Inv, CalmOK
      <4>2. Carries(r, n)'
        BY <1>1, <1>4, <2>1, <3>1 DEF Carries
      <4> QED
        BY <4>1, <4>2
    <3>2. CASE u # t
      BY <1>1, <1>5, <2>1, <3>2 DEF Carries
    <3> QED
      BY <3>1, <3>2
  <2> QED
    BY <1>1, <2>1, StatusStays, SameStatusQueue DEF Inv
<1> QED
  BY <1>6, <1>7, <1>8, <1>9, <1>10, <1>11, <1>12 DEF Inv

\* The status is queued for the owner, and no other callback of the message can do so.
LEMMA EnqueueStatusStep ==
  ASSUME Inv, NEW t \in tasks, EnqueueStatus(t)
  PROVE  Inv'
<1>1. /\ t.kind = "update" /\ t.pc = "enqueue"
      /\ statusQueue' = [statusQueue EXCEPT ![t.msg] = Append(@, t.user)]
      /\ UNCHANGED <<addresses, callbacks, call, calm>>
      /\ UNCHANGED <<oidToAddress, seen, sent, fillQueue>>
  BY DEF EnqueueStatus, subscription
<1>2. /\ t.msg \in Msgs /\ t.user \in Addrs /\ t.oid \in Oids /\ UpdateTaskOK(t)
  BY <1>1, UpdateTaskKnown
<1>3. /\ t.msg \in 1 .. Len(sent) /\ sent[t.msg].kind = "update" /\ sent[t.msg].oid = t.oid
      /\ t.user = Owner[t.oid] /\ sent[t.msg].status = "filled" /\ statusQueue[t.msg] = <<>>
  BY <1>1, <1>2 DEF UpdateTaskOK
<1>4. PICK r : r = UpdateTask(t.msg, t.user, t.oid, "delete")
  OBVIOUS
<1>5. /\ r \in FillTasks \cup UpdateTasks /\ r.kind = "update" /\ r.msg = t.msg /\ r.user = t.user
      /\ r.oid = t.oid /\ r.pc = "delete"
  BY <1>2, <1>4 DEF UpdateTask, UpdateTasks
<1>6. tasks' = (tasks \ {t}) \cup {r}
  BY <1>4 DEF EnqueueStatus
<1>7. /\ statusQueue' \in [Msgs -> Seq(Addrs)] /\ statusQueue'[t.msg] = <<t.user>>
      /\ \A n \in Msgs : n # t.msg => statusQueue'[n] = statusQueue[n]
  BY <1>1, <1>2, <1>3 DEF Inv, TypeOK
<1>8. TypeOK'
  BY <1>1, <1>5, <1>6, <1>7 DEF Inv, TypeOK
<1>9. 1 .. Len(sent) \subseteq Msgs
  BY DEF Inv, QueuesOK, TypeOK, Msgs
<1>10. StatusOncePerUpdate'
  BY <1>1, <1>3, <1>7, <1>9 DEF Inv, StatusOncePerUpdate
<1>11. TasksOK'
  <2>1. \A u \in tasks : u.kind = "fills" => FillTaskOK(u)'
    BY <1>1 DEF Inv, TasksOK, FillTaskOK
  <2>2. \A u \in tasks \ {t} : u.kind = "update" => UpdateTaskOK(u)'
    <3> SUFFICES ASSUME NEW u \in tasks \ {t}, u.kind = "update" PROVE UpdateTaskOK(u)'
      OBVIOUS
    <3>1. UpdateTaskOK(u)
      BY DEF Inv, TasksOK
    <3>2. CASE u.msg = t.msg
      <4>1. u.user # Owner[u.oid]
        BY <1>1, <1>3, <3>1, <3>2 DEF Inv, TasksOK, OneCallback, UpdateTaskOK
      <4> QED
        BY <1>1, <3>1, <4>1 DEF UpdateTaskOK
    <3>3. CASE u.msg # t.msg
      BY <1>1, <1>7, <1>9, <3>1, <3>3 DEF UpdateTaskOK
    <3> QED
      BY <3>2, <3>3
  <2>3. UpdateTaskOK(r)'
    BY <1>1, <1>3, <1>5, <1>7 DEF UpdateTaskOK
  <2>4. OneCallback'
    <3>1. \A u, v \in tasks : u.kind = "update" /\ v.kind = "update" /\ u.msg = v.msg
                                /\ u.user = v.user => u = v
      BY DEF Inv, TasksOK, OneCallback
    <3> QED
      BY <1>1, <1>5, <1>6, <3>1 DEF OneCallback
  <2> QED
    BY <1>5, <1>6, <2>1, <2>2, <2>3, <2>4 DEF TasksOK
<1>12. QueuesOK'
  <2>1. \A n \in Msgs : n > Len(sent) => n # t.msg
    BY <1>3 DEF Inv, TypeOK
  <2> QED
    BY <1>1, <1>7, <2>1 DEF Inv, QueuesOK
<1>13. FillsOK'
  BY <1>1, <1>6, UpdateFills
<1>14. CalmOK' /\ CallOK'
  BY <1>1, <1>5, <1>6 DEF Inv, CalmOK, CallOK
<1>15. StatusOK'
  <2>1. ASSUME NEW n \in 1 .. Len(sent), StatusQueued(sent[n].oid)
        PROVE  StatusQueued(sent[n].oid)'
    <3>1. PICK j \in 1 .. Len(sent) : statusQueue[j] # <<>> /\ sent[j].oid = sent[n].oid
      BY <2>1 DEF StatusQueued
    <3>2. CASE j # t.msg
      BY <1>1, <1>7, <1>9, <3>1, <3>2 DEF StatusQueued
    <3>3. CASE j = t.msg
      <4>1. statusQueue'[t.msg] # <<>>
        BY <1>7
      <4> QED
        BY <1>1, <3>1, <3>3, <4>1 DEF StatusQueued
    <3> QED
      BY <3>2, <3>3
  <2>2. ASSUME NEW n \in 1 .. Len(sent), NEW u \in tasks, Carries(u, n)
        PROVE  StatusQueued(sent[n].oid)' \/ \E v \in tasks' : Carries(v, n)'
    <3>1. CASE u = t
      <4>1. sent[n].oid = sent[t.msg].oid /\ statusQueue'[t.msg] # <<>>
        BY <1>7, <2>2, <3>1 DEF Carries
      <4> QED
        BY <1>1, <1>3, <4>1 DEF StatusQueued
    <3>2. CASE u # t
      BY <1>1, <1>6, <2>2, <3>2 DEF Carries
    <3> QED
      BY <3>1, <3>2
  <2> QED
    BY <1>1, <2>1, <2>2, StatusStays DEF Inv
<1> QED
  BY <1>8, <1>10, <1>11, <1>12, <1>13, <1>14, <1>15 DEF Inv

\* The mapping goes only after a status of the order is queued.
LEMMA DeleteMappingStep ==
  ASSUME Inv, NEW t \in tasks, DeleteMapping(t)
  PROVE  Inv'
<1>1. /\ t.kind = "update" /\ t.pc = "delete"
      /\ oidToAddress' = [oidToAddress EXCEPT ![t.oid] = NoAddr] /\ tasks' = tasks \ {t}
      /\ UNCHANGED <<addresses, callbacks, call, calm>>
      /\ UNCHANGED <<seen, sent, fillQueue, statusQueue>>
  BY DEF DeleteMapping, subscription
<1>2. /\ t.msg \in Msgs /\ t.user \in Addrs /\ t.oid \in Oids /\ UpdateTaskOK(t)
  BY <1>1, UpdateTaskKnown
<1>3. t.msg \in 1 .. Len(sent) /\ statusQueue[t.msg] # <<>> /\ sent[t.msg].oid = t.oid
  BY <1>1, <1>2 DEF UpdateTaskOK
<1>4. TypeOK'
  BY <1>1, <1>2 DEF Inv, TypeOK
<1>5. StatusOncePerUpdate'
  BY <1>1 DEF Inv, StatusOncePerUpdate
<1>6. TasksOK'
  BY <1>1, TaskMoves
<1>7. QueuesOK'
  BY <1>1, <1>2 DEF Inv, QueuesOK, TypeOK
<1>8. FillsOK'
  BY <1>1, UpdateFills
<1>9. CalmOK' /\ CallOK'
  BY <1>1 DEF Inv, CalmOK, CallOK
<1>10. StatusOK'
  <2>1. ASSUME NEW n \in 1 .. Len(sent), NEW u \in tasks, Carries(u, n)
        PROVE  StatusQueued(sent[n].oid)' \/ \E v \in tasks' : Carries(v, n)'
    <3>1. CASE sent[n].oid = t.oid
      BY <1>1, <1>3, <3>1 DEF StatusQueued
    <3>2. CASE sent[n].oid # t.oid
      <4>1. u \in tasks'
        BY <1>1, <2>1 DEF Carries
      <4>2. oidToAddress'[sent[n].oid] = oidToAddress[sent[n].oid] \/ sent[n].oid \notin Oids
        BY <1>1, <3>2 DEF Inv, TypeOK
      <4>3. sent[n].oid \in Oids
        <5>1. u.kind = "update" /\ u.msg = n
          BY <2>1 DEF Carries
        <5>2. UpdateTaskOK(u) /\ u.oid \in Oids
          BY <5>1, UpdateTaskKnown
        <5> QED
          BY <5>1, <5>2 DEF UpdateTaskOK
      <4>4. Carries(u, n)'
        BY <1>1, <2>1, <4>2, <4>3 DEF Carries
      <4> QED
        BY <4>1, <4>4
    <3> QED
      BY <3>1, <3>2
  <2> QED
    BY <1>1, <2>1, StatusStays, SameStatusQueue DEF Inv
<1> QED
  BY <1>4, <1>5, <1>6, <1>7, <1>8, <1>9, <1>10 DEF Inv

-----------------------------------------------------------------------------
(* The invariant, and the theorems *)

LEMMA InvStep == Inv /\ [Next]_vars => Inv'
<1> SUFFICES ASSUME Inv, [Next]_vars PROVE Inv'
  OBVIOUS
<1>1. CASE \E a \in Addrs : SubscribeAddress(a) \/ UnsubscribeAddress(a)
  BY <1>1, SubscribeStep, UnsubscribeStep
<1>2. CASE PoolSubscribed \/ PoolUnsubscribed \/ ClearMapping
  BY <1>2, PoolSubscribedStep, PoolUnsubscribedStep, ClearMappingStep
<1>3. CASE Exchange
  BY <1>3, SendFillsStep, SendUpdateStep, Zenon DEF Exchange
<1>4. CASE \E o \in Oids, d \in Dirs : MarkSeen(o, d)
  BY <1>4, MarkSeenStep
<1>5. CASE Task
  BY <1>5, StoreMappingStep, EnqueueFillStep, FillsDoneStep, LoadMappingStep, CheckSubscribedStep,
     EnqueueStatusStep, DeleteMappingStep DEF Task
<1>6. CASE UNCHANGED vars
  <2>1. UNCHANGED traffic /\ UNCHANGED <<addresses, callbacks, call, calm>>
    BY <1>6 DEF vars, traffic
  <2>2. TypeOK' /\ CalmOK' /\ CallOK'
    BY <2>1 DEF Inv, TypeOK, CalmOK, CallOK, traffic
  <2> QED
    BY <2>1, <2>2, SameTraffic, SameTrafficStatus DEF Inv
<1> QED
  BY <1>1, <1>2, <1>3, <1>4, <1>5, <1>6 DEF Next

LEMMA Invariance == Spec => []Inv
  BY InitInv, InvStep, PTL DEF Spec

\* Types; a mapping entry names the owner of its order, and no fill that is too old or
\* of a foreign coin is queued, whatever the callbacks interleave.
THEOREM TypeCorrect == Spec => []TypeOK
  BY Invariance, PTL DEF Inv

\* The status of an orderUpdates message, which is broadcast to the callbacks of all
\* addresses, is enqueued at most once, and for the owner of the order.
THEOREM StatusIsQueuedOnce == Spec => []StatusOncePerUpdate
  BY Invariance, PTL DEF Inv

\* When all callbacks have finished, every fill that handleWsOrderFills accepts is queued
\* under each of its directions, or that direction had been signalled.
THEOREM FillsAreQueued == Spec => []FillsReachQueue
<1>1. Inv => FillsReachQueue
  BY DEF Inv, FillsOK, Handled, FillsReachQueue
<1> QED
  BY <1>1, Invariance, PTL

\* Until an address is unsubscribed, a final status that is sent after the fills of its
\* order were handled is queued, or another final status of the order is.
THEOREM MappedStatusIsQueued == Spec => []MappedStatusReachesQueue
<1>1. Inv => MappedStatusReachesQueue
  BY DEF Inv, StatusOK, Final, StatusQueued, MappedStatusReachesQueue
<1> QED
  BY <1>1, Invariance, PTL
=============================================================================
