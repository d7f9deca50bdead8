----------------------------- MODULE Positions -----------------------------
(***************************************************************************)
(* What a signal says about an account: the webData2 callbacks of          *)
(* PositionManager (manager/position_manager.go) fill the position cache   *)
(* (cache/position_cache.go) and the rows of hl_position_cache, the symbol *)
(* loader (symbol/loader.go) fills the tables that name coins, and         *)
(* buildSignal (processor/order_processor.go) reads both.                  *)
(*                                                                         *)
(* One address.  Callbacks are tasks of the dispatcher's goroutine pool:   *)
(* they run concurrently, and one that was submitted still runs after the  *)
(* address is unsubscribed.  Each store to one of the four maps of the     *)
(* cache is a step.  Updates are numbered as they arrive; the maps hold    *)
(* the number of the update they were stored from, and data what its       *)
(* callback computed.  Messages that do not parse or name another user     *)
(* change nothing but a counter.  Amounts are integers, a rate is a pair   *)
(* of numerator and denominator.                                           *)
(***************************************************************************)
EXTENDS Integers, SequencesExt

CONSTANTS
    Docs,        \* webData2 messages
    SpotPairs,   \* the spot universe, a sequence: name, base and quote token, valid
    FirstPerps,  \* perps <<dex, coin>> listed when the process starts, a sequence
    LaterPerps,  \* perps listed later, a sequence
    Alias,       \* MainnetToAlias: coin -> coin, itself when it has no alias
    Orders,      \* orders a signal is built for: dir and the name of the coin
    Size, Price, \* of each of them
    None,        \* a missing field, an unknown name
    Callbacks,   \* goroutines that run callbacks
    QueueCap,    \* capacity of the message queue
    MaxUpdates   \* bound: messages received

ASSUME PositionsAssumption ==
    /\ QueueCap \in Nat /\ MaxUpdates \in Nat
    /\ Size \in Nat \ {0} /\ Price \in Nat

ASSUME ListsAssumption == \A list \in {SpotPairs, FirstPerps, LaterPerps} : list \in Seq(Range(list))

ASSUME DocsAssumption ==
    \A doc \in Docs :
        /\ {doc.cross, doc.margin} \subseteq {None} \cup Int
        /\ \A list \in {doc.balances, doc.positions} :
             \A i \in DOMAIN list : i \in Nat /\ list[i].amount \in Int

VARIABLES
    spotNameToSymbol, spotSymbolToName, perpNameToSymbol, \* SymbolCache
    loader,     \* the symbol loader: what it has still to store
    started,    \* the first load has succeeded
    prices,     \* PriceCache.spotCache
    subscribed, \* the pool has the callback of the address
    docs,       \* updates received
    tasks,      \* callback -> the update it handles and where it is
    data,       \* update -> what its callback computed
    cache,      \* the four maps: update stored, or 0 for no entry
    deleted,    \* maps that UnsubscribeAddress has still to delete from
    queue, row, \* PositionManager.messageQueue; the row of the address
    order,      \* the order being signalled
    finished,   \* history: updates whose callback stored everything
    overlap,    \* history: updates that were handled at the same time
    late,       \* history: updates being handled when the address was dropped
    since,      \* history: updates received before the present subscription
    overflow,   \* history: the queue was full
    quiet       \* history: no update came since the signal read the balance

symbols == <<spotNameToSymbol, spotSymbolToName, perpNameToSymbol, loader, started>>
history == <<finished, overlap, late, since, overflow, quiet>>
vars == <<symbols, prices, subscribed, docs, tasks, data, cache, deleted, queue, row, order, history>>

\* The maps of the cache, in the order Set stores them.
SpotTotals == 1
AccountValues == 2
SpotBalances == 3
FuturesPositions == 4

\* A coin is a dex ("" for none) and a name, a symbol a coin and the quote that
\* is appended to it ("" for a coin that was not converted).
Plain(c) == <<"", c>>

\* A map after a store; a map with another stored over it.
Put(m, x, v) == [y \in {x} \cup DOMAIN m |-> IF y = x THEN v ELSE m[y]]
Over(m, old) == [x \in DOMAIN m \cup DOMAIN old |-> IF x \in DOMAIN m THEN m[x] ELSE old[x]]

\* The first item of a list for coin.
Amount(list, coin) ==
    LET I == {i \in DOMAIN list : list[i].coin = coin}
    IN  IF I = {} THEN None ELSE list[Min(I)].amount

IdleTask  == [pc |-> "idle", n |-> 0, todo |-> {}]
IdleOrder == [pc |-> "idle", o |-> None, symbol |-> None, known |-> FALSE,
              rate |-> <<0, 1>>, close |-> <<0, 1>>]
Active    == {tasks[c].n : c \in Callbacks} \ {0}

Init ==
    /\ spotNameToSymbol = <<>> /\ spotSymbolToName = <<>> /\ perpNameToSymbol = <<>>
    /\ loader = [pc |-> "idle", todo |-> <<>>] /\ started = FALSE
    /\ prices = <<>> /\ subscribed = FALSE /\ docs = <<>>
    /\ tasks = [c \in Callbacks |-> IdleTask] /\ data = <<>>
    /\ cache = [k \in 1 .. 4 |-> 0] /\ deleted = {}
    /\ queue = <<>> /\ row = 0 /\ order = IdleOrder
    /\ finished = {} /\ overlap = {} /\ late = {} /\ since = 0 /\ overflow = FALSE
    /\ quiet = FALSE

-----------------------------------------------------------------------------
(* The symbol loader; only it writes the tables, and nothing is ever removed *)

\* What the loader leaves alone.
Loads == UNCHANGED <<prices, subscribed, docs, tasks, data, cache, deleted, queue, row, order, history>>

\* The pairs whose tokens are there.
Valid == {p \in Range(SpotPairs) : p.valid}
SpotSymbol(p) == <<Plain(Alias[p.base]), p.quote>>

\* The tables after the loop over the universe: the last pair with a name, or with a
\* symbol, is what stays.
Latest(P)   == SpotPairs[Max({i \in DOMAIN SpotPairs : SpotPairs[i] \in P})]
SpotNames   == [x \in {p.name : p \in Valid} |-> SpotSymbol(Latest({p \in Valid : p.name = x}))]
SpotSymbols == [x \in {SpotSymbol(p) : p \in Valid} |-> Latest({p \in Valid : SpotSymbol(p) = x}).name]

\* The reload ticker, and buildSpotCache; a SpotMeta that fails changes nothing.
\* The loop is one step: the spot universe is the same at every load, and nobody
\* reads the tables before the first has ended.  Reloads are left out when there is
\* nothing new to load.
SpotMeta ==
    /\ loader.pc = "idle" /\ ~(Range(LaterPerps) \subseteq DOMAIN perpNameToSymbol)
    /\ spotNameToSymbol' = Over(SpotNames, spotNameToSymbol)
    /\ spotSymbolToName' = Over(SpotSymbols, spotSymbolToName)
    /\ loader' = [pc |-> "spot", todo |-> <<>>]
    /\ UNCHANGED <<perpNameToSymbol, started>> /\ Loads

\* The exchange lists the later perps after the start of the process.
PerpMeta ==
    /\ loader.pc = "spot"
    /\ loader' = [pc |-> "perp", todo |-> FirstPerps \o (IF started THEN LaterPerps ELSE <<>>)]
    /\ UNCHANGED <<spotNameToSymbol, spotSymbolToName, perpNameToSymbol, started>> /\ Loads

\* The spot part of the load stays.  A first load that fails ends the process.
PerpMetaFails ==
    /\ started /\ loader.pc = "spot"
    /\ loader' = [pc |-> "idle", todo |-> <<>>]
    /\ UNCHANGED <<spotNameToSymbol, spotSymbolToName, perpNameToSymbol, started>> /\ Loads

\* The name without the prefix "xyz:", under its alias.  A name of another dex
\* keeps its prefix, and has no alias.
CleanName(p) == IF p[1] \in {"", "xyz"} THEN Plain(Alias[p[2]]) ELSE p

\* buildPerpCache: first the clean name,
SetPerpClean ==
    /\ loader.pc = "perp" /\ loader.todo # <<>>
    /\ LET clean == CleanName(Head(loader.todo)) IN
       perpNameToSymbol' = Put(perpNameToSymbol, clean, <<clean, "USDC">>)
    /\ loader' = [loader EXCEPT !.pc = "name"]
    /\ UNCHANGED <<spotNameToSymbol, spotSymbolToName, started>> /\ Loads

\* Mutant of NamedApart: only the clean name is stored.
NamedApartNever(p) == FALSE

NamedApart(p) == p # CleanName(p)

\* then the name itself, when it differs.
SetPerpName ==
    /\ loader.pc = "name"
    /\ LET p == Head(loader.todo) IN
       perpNameToSymbol' = IF NamedApart(p)
                           THEN Put(perpNameToSymbol, p, <<CleanName(p), "USDC">>)
                           ELSE perpNameToSymbol
    /\ loader' = [pc |-> "perp", todo |-> Tail(loader.todo)]
    /\ UNCHANGED <<spotNameToSymbol, spotSymbolToName, started>> /\ Loads

Loaded ==
    /\ loader = [pc |-> "perp", todo |-> <<>>]
    /\ loader' = [pc |-> "idle", todo |-> <<>>]
    /\ started' = TRUE
    /\ UNCHANGED <<spotNameToSymbol, spotSymbolToName, perpNameToSymbol>> /\ Loads

-----------------------------------------------------------------------------
(* SubscribeAddress and UnsubscribeAddress *)

Subscribe ==
    /\ started /\ ~subscribed /\ deleted = {}
    /\ subscribed' = TRUE /\ since' = Len(docs) /\ late' = {}
    /\ UNCHANGED <<symbols, prices, docs, tasks, data, cache, deleted, queue, row, order,
                   finished, overlap, overflow, quiet>>

\* Mutant of MapsToDelete: Delete forgets the account value.
MapsToDeleteButOne == {1, 3, 4}

MapsToDelete == 1 .. 4

\* handle.Unsubscribe: no callback is submitted any more.
Unsubscribe ==
    /\ subscribed
    /\ subscribed' = FALSE /\ deleted' = MapsToDelete
    /\ late' = Active /\ quiet' = FALSE
    /\ UNCHANGED <<symbols, prices, docs, tasks, data, cache, queue, row, order, finished, overlap,
                   since, overflow>>

\* PositionBalanceCache.Delete, one map after the other.
Delete ==
    /\ deleted # {}
    /\ LET k == Min(deleted) IN
       /\ cache' = [cache EXCEPT ![k] = 0]
       /\ deleted' = deleted \ {k}
    /\ UNCHANGED <<symbols, prices, subscribed, docs, tasks, data, queue, row, order, history>>

-----------------------------------------------------------------------------
(* The callback: handleWebData2 and processPositionCache *)

At(pc, n, todo) == [pc |-> pc, n |-> n, todo |-> todo]
Goes(c, pc) == tasks' = [tasks EXCEPT ![c].pc = pc]

\* A message arrives; Dispatch submits the callback.
Receive(c, doc) ==
    /\ subscribed /\ Len(docs) < MaxUpdates /\ tasks[c] = IdleTask
    /\ docs' = Append(docs, doc)
    /\ tasks' = [tasks EXCEPT ![c] = At("price", Len(docs'), DOMAIN doc.ctxs)]
    /\ overlap' = overlap \cup {{n, Len(docs')} : n \in Active}
    /\ quiet' = FALSE
    /\ UNCHANGED <<symbols, prices, subscribed, data, cache, deleted, queue, row, order, finished,
                   late, since, overflow>>

\* The mid price, or the mark price when there is none.
SpotPrice(ctx) == IF ctx.mid # None THEN ctx.mid ELSE ctx.mark

SetSpotPrice(c, name) ==
    /\ tasks[c].pc = "price" /\ name \in tasks[c].todo
    /\ prices' = Put(prices, name, SpotPrice(docs[tasks[c].n].ctxs[name]))
    /\ tasks' = [tasks EXCEPT ![c].todo = @ \ {name}]
    /\ UNCHANGED <<symbols, subscribed, docs, data, cache, deleted, queue, row, order, history>>

StableCoins == {"USDC", "USDH", "USDT"}
Quotes      == <<"USDC", "USDT", "USDH">>

\* The price of the first market that is known, 0 if it has none.
MarketPrice(coin) ==
    LET known == {i \in 1 .. 3 : <<Plain(coin), Quotes[i]>> \in DOMAIN spotSymbolToName}
        name  == spotSymbolToName[<<Plain(coin), Quotes[Min(known)]>>]
    IN  IF known = {} THEN 0 ELSE IF name \in DOMAIN prices THEN prices[name] ELSE 0

Worth(item) ==
    item.amount * (IF item.coin \in StableCoins THEN 1 ELSE MarketPrice(item.coin))

\* The items of a list that are kept stay at their places in it, and the others are
\* left out.  The balances that are not zero, under their alias.
NonZero(doc) == {i \in DOMAIN doc.balances : doc.balances[i].amount # 0}
Balances(doc) ==
    [i \in NonZero(doc) |-> [coin   |-> Alias[doc.balances[i].coin],
                             amount |-> doc.balances[i].amount]]

\* An unknown coin is not converted.
PositionSymbol(coin) ==
    IF CleanName(coin) \in DOMAIN perpNameToSymbol THEN perpNameToSymbol[CleanName(coin)]
    ELSE <<CleanName(coin), "">>

\* The positions on the main dex and on xyz.
Watched(doc) == {i \in DOMAIN doc.positions : doc.positions[i].coin[1] \in {"", "xyz"}}
FuturesItems(doc) ==
    [i \in Watched(doc) |-> [coin   |-> PositionSymbol(doc.positions[i].coin),
                             amount |-> doc.positions[i].amount]]

\* The cross margin summary, or the margin summary, or an empty one.
AccountValue(doc) ==
    IF doc.cross # None THEN doc.cross
    ELSE IF doc.margin # None THEN doc.margin ELSE 0

\* What the callback computes; resolved is history: the names that were known.
Computed(doc) ==
    LET items == Balances(doc) IN
    [spotTotal |-> SumFunction([i \in DOMAIN items |-> Worth(items[i])]),
     account   |-> AccountValue(doc),
     balances  |-> items,
     positions |-> FuturesItems(doc),
     resolved  |-> DOMAIN perpNameToSymbol]

\* An update without a clearinghouseState dereferences nil: the pool recovers
\* the panic, and the callback ends with the prices set.
Process(c) ==
    /\ tasks[c].pc = "price" /\ tasks[c].todo = {}
    /\ LET n == tasks[c].n IN
       IF docs[n].state
       THEN /\ data' = Put(data, n, Computed(docs[n]))
            /\ Goes(c, "row")
       ELSE /\ tasks' = [tasks EXCEPT ![c] = IdleTask]
            /\ UNCHANGED data
    /\ UNCHANGED <<symbols, prices, subscribed, docs, cache, deleted, queue, row, order, history>>

\* messageQueue.Enqueue: with the queue full the callback hands the row to the
\* batch writer itself.
EnqueueRow(c) ==
    /\ tasks[c].pc = "row"
    /\ IF Len(queue) < QueueCap
       THEN /\ queue' = Append(queue, tasks[c].n)
            /\ UNCHANGED <<row, overflow>>
       ELSE /\ row' = tasks[c].n /\ overflow' = TRUE
            /\ UNCHANGED queue
    /\ tasks' = [tasks EXCEPT ![c] = At("set", @.n, 1 .. 4)]
    /\ UNCHANGED <<symbols, prices, subscribed, docs, data, cache, deleted, order, finished,
                   overlap, late, since, quiet>>

\* The queue's worker: PositionProcessor.HandleMessage, BatchWriter.Add.
HandleRow ==
    /\ queue # <<>>
    /\ row' = Head(queue) /\ queue' = Tail(queue)
    /\ UNCHANGED <<symbols, prices, subscribed, docs, tasks, data, cache, deleted, order, history>>

\* Mutant of StoredIn: the balances are not stored when there are none.
StoredInSome(n, k) == k # SpotBalances \/ data[n].balances # <<>>

\* Every map is stored to, also with an empty list.
StoredIn(n, k) == TRUE

\* PositionBalanceCache.Set, one map after the other.
Set(c) ==
    /\ tasks[c].pc = "set"
    /\ LET n == tasks[c].n
           k == Min(tasks[c].todo)
       IN  /\ cache' = IF StoredIn(n, k) THEN [cache EXCEPT ![k] = n] ELSE cache
           /\ IF k = 4
              THEN tasks' = [tasks EXCEPT ![c] = IdleTask] /\ finished' = finished \cup {n}
              ELSE tasks' = [tasks EXCEPT ![c].todo = @ \ {k}] /\ UNCHANGED finished
    /\ UNCHANGED <<symbols, prices, subscribed, docs, data, deleted, queue, row, order, overlap,
                   late, since, overflow, quiet>>

-----------------------------------------------------------------------------
(* An order is filled, and its signal built *)

\* The asset and the direction that buildSignal gives an order.
IsSpotDir(o) == o.dir \in {"Buy", "Sell"}
Closes(o)    == o.dir \in {"Close Long", "Close Short", "Sell"}

\* convertSymbol, with the coin itself when it is unknown; known is history: the
\* coin had been loaded when the order was filled.
ConvertSymbol(o) ==
    LET table == IF IsSpotDir(o) THEN spotNameToSymbol ELSE perpNameToSymbol
        name  == IF IsSpotDir(o) THEN o.name[2]
                 ELSE IF o.name[1] = "xyz" THEN Plain(o.name[2]) ELSE o.name
    IN  IF name \in DOMAIN table THEN table[name] ELSE <<o.name, "">>

Fill(o) ==
    /\ started /\ order.pc = "idle"
    /\ order' = [IdleOrder EXCEPT
                    !.pc = "filled", !.o = o, !.symbol = ConvertSymbol(o),
                    !.known = IsSpotDir(o) \/
                              (loader.pc = "idle" /\ CleanName(o.name) \in DOMAIN perpNameToSymbol)]
    /\ quiet' = FALSE
    /\ UNCHANGED <<symbols, prices, subscribed, docs, tasks, data, cache, deleted, queue, row,
                   finished, overlap, late, since, overflow>>

\* calculatePositionRate: 100% when there is no positive balance.
PositionRate(o) ==
    LET n     == cache[IF IsSpotDir(o) THEN SpotTotals ELSE AccountValues]
        total == IF n = 0 THEN 0
                 ELSE IF IsSpotDir(o) THEN data[n].spotTotal ELSE data[n].account
    IN  IF total > 0 THEN <<Price * Size * 100, total>> ELSE <<100, 1>>

SignalRate ==
    /\ order.pc = "filled"
    /\ order' = [order EXCEPT !.pc = "rated", !.rate = PositionRate(order.o)]
    /\ quiet' = (subscribed /\ Active = {})
    /\ UNCHANGED <<symbols, prices, subscribed, docs, tasks, data, cache, deleted, queue, row,
                   finished, overlap, late, since, overflow>>

\* What is held of a symbol: a spot symbol is stripped of "USDC" only.
Held(o, symbol) ==
    LET n == cache[IF IsSpotDir(o) THEN SpotBalances ELSE FuturesPositions]
    IN  IF n = 0 THEN None
        ELSE IF ~IsSpotDir(o) THEN Amount(data[n].positions, symbol)
        ELSE IF symbol[2] = "USDC" THEN Amount(data[n].balances, symbol[1][2]) ELSE None

\* calculateCloseRate: 0 when nothing positive is held, at most 1.
CloseRate(o, held) ==
    IF ~Closes(o) \/ held = None THEN <<0, 1>>
    ELSE IF held <= 0 THEN <<0, 1>>
    ELSE IF Size > held THEN <<1, 1>> ELSE <<Size, held>>

SignalClose ==
    /\ order.pc = "rated"
    /\ order' = [order EXCEPT !.pc = "built", !.close = CloseRate(order.o, Held(order.o, order.symbol))]
    /\ UNCHANGED <<symbols, prices, subscribed, docs, tasks, data, cache, deleted, queue, row, history>>

-----------------------------------------------------------------------------
Load ==
    \/ SpotMeta \/ PerpMeta \/ PerpMetaFails \/ Loaded
    \/ SetPerpClean \/ SetPerpName

Callback(c) ==
    \/ \E doc \in Docs : Receive(c, doc)
    \/ \E name \in tasks[c].todo : SetSpotPrice(c, name)
    \/ Process(c) \/ EnqueueRow(c) \/ Set(c)

Next ==
    \/ Load
    \/ Subscribe \/ Unsubscribe \/ Delete
    \/ \E c \in Callbacks : Callback(c)
    \/ HandleRow
    \/ \E o \in Orders : Fill(o)
    \/ SignalRate \/ SignalClose

Spec == Init /\ [][Next]_vars

-----------------------------------------------------------------------------
(* Properties *)

\* An older update hides a finished one only if the two were handled at the
\* same time: once the callback of an update has finished, and as long as the
\* address stays subscribed, each of the four maps has an entry, and it is of
\* that update, of a later one or of one that overlapped with it.  The same holds
\* for the row, once the queue is empty, if the queue has never been full.
StaleOnlyIfOverlapping ==
    \A m \in finished :
        /\ subscribed /\ m > since =>
             \A k \in 1 .. 4 : cache[k] # 0 /\ (cache[k] < m => {cache[k], m} \in overlap)
        /\ queue = <<>> /\ ~overflow => row # 0 /\ (row < m => {row, m} \in overlap)

\* An address that is not watched any more is forgotten: once Delete is done, an
\* entry of the cache can only come from a callback that was already running
\* when the address was unsubscribed.
ForgottenUnlessLate ==
    ~subscribed /\ deleted = {} => \A k \in 1 .. 4 : cache[k] \in {0} \cup late

\* What a document says of an order.  The total is its account value, or the worth of
\* its balances: a coin is priced in the document by the market against the first of
\* the quotes that it has one against.
Markets(coin, quote) == {p \in Valid : p.base = coin /\ p.quote = quote}
MarketQuotes(coin)   == {i \in 1 .. 3 : Markets(coin, Quotes[i]) # {}}
Market(coin)         == CHOOSE p \in Markets(coin, Quotes[Min(MarketQuotes(coin))]) : TRUE
TruePrice(doc, coin) ==
    IF Alias[coin] \in StableCoins THEN 1
    ELSE IF MarketQuotes(coin) = {} THEN 0
    ELSE SpotPrice(doc.ctxs[Market(coin).name])
SpotValue(doc) ==
    SumFunction([i \in NonZero(doc) |->
                    doc.balances[i].amount * TruePrice(doc, doc.balances[i].coin)])
TrueTotal(doc, o) == IF IsSpotDir(o) THEN SpotValue(doc) ELSE AccountValue(doc)

\* What is held is the amount of the order's own coin.
Pair(o) == CHOOSE p \in Range(SpotPairs) : p.name = o.name[2]
TrueHeld(doc, o) ==
    IF IsSpotDir(o) THEN Amount(doc.balances, Pair(o).base) ELSE Amount(doc.positions, o.name)

\* The closes that are signalled with 0 although something is held: of a short, whose
\* size is negative, and of a pair that is not quoted in USDC.  README.md:19 and
\* nats/signal.go:20 say closed size / size of the position of every close.
NotRated(doc, o) == TrueHeld(doc, o) < 0 \/ (IsSpotDir(o) /\ Pair(o).quote # "USDC")
TrueClose(doc, o) ==
    LET held == TrueHeld(doc, o) IN
    IF ~Closes(o) \/ held = None \/ held = 0 THEN <<0, 1>>
    ELSE IF NotRated(doc, o) THEN <<0, 1>>
    ELSE IF Size > held THEN <<1, 1>> ELSE <<Size, held>>

\* When the document prices a balance: no other base has its alias, it has one market
\* at most against a quote, and the document has the price in the market that counts.
Priced(doc) ==
    \A i \in NonZero(doc) :
        LET coin == doc.balances[i].coin IN
        \/ Alias[coin] \in StableCoins
        \/ /\ \A p \in Valid : Alias[p.base] = Alias[coin] => Markets(coin, p.quote) = {p}
           /\ MarketQuotes(coin) # {} => Market(coin).name \in DOMAIN doc.ctxs

\* When an order names one coin.  A perp is stored under its name and its clean name:
\* no other perp that is listed has one of the two, and one of xyz has no alias, as
\* convertSymbol does not look for it.  A spot name is that of one pair.
Perps    == Range(FirstPerps) \cup Range(LaterPerps)
Names(p) == {p, CleanName(p)}
Alone(p) == \A q \in Perps : Names(p) \cap Names(q) # {} => q = p
NamesOne(o) ==
    IF IsSpotDir(o) THEN \E p \in Valid : {q \in Range(SpotPairs) : q.name = o.name[2]} = {p}
    ELSE Alone(o.name) /\ (o.name[1] = "" \/ (o.name[1] = "xyz" /\ CleanName(o.name) = Plain(o.name[2])))

\* When the document has the coin of an order at most once, and no other under its name.
HeldOnce(doc, o) ==
    IF IsSpotDir(o)
    THEN \A i, j \in DOMAIN doc.balances :
            Alias[doc.balances[i].coin] = Alias[Pair(o).base] =>
                doc.balances[i].coin = Pair(o).base /\ (doc.balances[j].coin = Pair(o).base => i = j)
    ELSE \A i, j \in DOMAIN doc.positions :
            CleanName(doc.positions[i].coin) \in Names(o.name) =>
                doc.positions[i].coin = o.name /\ (doc.positions[j].coin = o.name => i = j)

\* A signal says what the exchange said last.  If no update was being handled
\* while the signal was built and the newest update overlapped with no other, then
\* the position rate is that of that very document (for a spot order, one that
\* prices its balances; 100% if there is no positive total), and so is the close
\* rate of an order whose coin was known when the update and the order's fill were
\* handled, and that names one coin, held once: the order path, the position path and the
\* symbol loader name the coin alike, prefixes and aliases included, through
\* reloads that fail half way, and the balance and the position are of one update.
\* A close of a short, and of a pair that is not quoted in USDC, is signalled
\* with 0 (order_processor.go:588 and :582), contrary to README.md:19.
SignalFollowsUpdate ==
    order.pc = "built" /\ quiet /\ finished # {} =>
        LET m     == Max(finished)
            doc   == docs[m]
            o     == order.o
            total == TrueTotal(doc, o)
        IN  m > since /\ (\A n \in 1 .. Len(docs) : {n, m} \notin overlap \/ n = m) =>
            /\ (IsSpotDir(o) => Priced(doc))
               => order.rate = IF total > 0 THEN <<Price * Size * 100, total>> ELSE <<100, 1>>
            /\ /\ order.known /\ (~IsSpotDir(o) => CleanName(o.name) \in data[m].resolved)
               /\ NamesOne(o) /\ HeldOnce(doc, o)
               => order.close = TrueClose(doc, o)
=============================================================================
