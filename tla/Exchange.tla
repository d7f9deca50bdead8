------------------------------- MODULE Exchange -------------------------------
(***************************************************************************)
(* Signed calls of the SDK (pkg/go-hyperliquid: exchange.go, signing.go,   *)
(* exchange_orders*.go, exchange_others.go).  Goroutines share one          *)
(* Exchange.  A call takes a nonce from nextNonce, signs its action with    *)
(* the vault and expiry it reads then, posts it with the vault and expiry   *)
(* postAction reads, and turns the answer into a result or an error.        *)
(*                                                                         *)
(* A method is a record: signs says which vault it hands to SignL1Action,   *)
(* quotes whether it queries Info first, result how it reads the answer.    *)
(***************************************************************************)
EXTENDS Integers

CONSTANTS
    Callers,   \* goroutines that use the Exchange
    Methods,   \* the methods they call
    Vault,     \* e.vault
    NoVault,   \* the empty vault address
    Expiries,  \* values of e.expiresAfter
    NoExpiry,  \* e.expiresAfter = nil
    MaxTime,   \* bound: the wall clock reads 0 .. MaxTime
    MaxCalls   \* bound: calls made

ASSUME MethodAssumption == Methods # {}
ASSUME ExpiryAssumption == NoExpiry \in Expiries
ASSUME BoundAssumption == MaxTime \in Nat /\ MaxCalls \in Nat

VARIABLES
    lastNonce,     \* Exchange.lastNonce
    expiresAfter,  \* Exchange.expiresAfter
    handed,        \* history: nonces nextNonce has returned
    used,          \* history: nonces posted
    pc,            \* caller -> where its call is
    method,        \* caller -> the method it called
    last, nonce,   \* caller -> nextNonce's last; its candidate, then the call's nonce
    signed,        \* caller -> vault and expiry under the signature
    payload,       \* caller -> vault and expiry of the request
    swapped,       \* history: expiresAfter was set after the call was signed
    misled,        \* history: the last call returned no error, and was not accepted
    calls          \* calls made

nonceVars == <<lastNonce, handed, last, nonce>>
wireVars  == <<signed, payload, swapped>>
vars == <<lastNonce, expiresAfter, handed, used, pc, method, last, nonce, signed, payload,
          swapped, misled, calls>>

Envelope == [vault : {Vault, NoVault}, expires : Expiries]
Steps == {"idle", "quote", "load", "cas", "sign", "post", "attach", "reply", "panicked"}
Blank == [vault |-> NoVault, expires |-> NoExpiry]

\* What can come back: nothing usable (no connection, HTTP 400 or more, no JSON), null, a
\* status that is not ok, ok without response.data, or ok with items: none, all good, or
\* some that hold an error.
Answer(body, ok, data, items) ==
    [body |-> body, ok |-> ok, data |-> data, items |-> items]
Answers ==
    {Answer(body, FALSE, FALSE, "none") : body \in {"unusable", "null", "object"}}
        \cup {Answer("object", TRUE, FALSE, "none")}
        \cup {Answer("object", TRUE, TRUE, items) : items \in {"none", "good", "bad"}}

Init ==
    /\ lastNonce = 0 /\ expiresAfter = NoExpiry
    /\ handed = {} /\ used = {}
    /\ pc = [c \in Callers |-> "idle"]
    /\ method = [c \in Callers |-> CHOOSE m \in Methods : TRUE]
    /\ last = [c \in Callers |-> 0] /\ nonce = [c \in Callers |-> 0]
    /\ signed = [c \in Callers |-> Blank] /\ payload = [c \in Callers |-> Blank]
    /\ swapped = [c \in Callers |-> FALSE]
    /\ misled = [c \in Callers |-> FALSE]
    /\ calls = 0

-----------------------------------------------------------------------------
(* A call *)

\* A method is called.  MarketOpen and MarketClose ask for a price or a position first.
Call(c, m) ==
    /\ pc[c] = "idle" /\ calls < MaxCalls
    /\ method' = [method EXCEPT ![c] = m]
    /\ pc' = [pc EXCEPT ![c] = IF m.quotes THEN "quote" ELSE "load"]
    /\ misled' = [misled EXCEPT ![c] = FALSE]
    /\ calls' = calls + 1
    /\ UNCHANGED <<expiresAfter, used, nonceVars, wireVars>>

\* SlippagePrice and MarketClose's UserState: a failed query or a position that is not
\* there ends the call before it has a nonce.
Quote(c, found) ==
    /\ pc[c] = "quote"
    /\ pc' = [pc EXCEPT ![c] = IF found THEN "load" ELSE "idle"]
    /\ UNCHANGED <<expiresAfter, used, nonceVars, wireVars, method, misled, calls>>

\* Mutant of Candidate: the clock alone decides.
CandidateClock(prev, t) == t

\* nextNonce: the time in milliseconds, or one more than the last nonce.
Candidate(prev, t) == IF t <= prev THEN prev + 1 ELSE t

\* nextNonce: lastNonce.Load and the wall clock, which may have been set back.
LoadNonce(c, t) ==
    /\ pc[c] = "load"
    /\ last' = [last EXCEPT ![c] = lastNonce]
    /\ nonce' = [nonce EXCEPT ![c] = Candidate(lastNonce, t)]
    /\ pc' = [pc EXCEPT ![c] = "cas"]
    /\ UNCHANGED <<lastNonce, handed, expiresAfter, used, wireVars, method, misled, calls>>

\* Mutant of CompareAndSwap: the candidate is stored without comparing.
StoreNonce(c) ==
    /\ pc[c] = "cas"
    /\ lastNonce' = nonce[c] /\ handed' = handed \cup {nonce[c]}
    /\ pc' = [pc EXCEPT ![c] = "sign"]
    /\ UNCHANGED <<last, nonce, expiresAfter, used, wireVars, method, misled, calls>>

\* nextNonce: lastNonce.CompareAndSwap; whoever loses starts over.
CompareAndSwap(c) ==
    /\ pc[c] = "cas"
    /\ IF lastNonce = last[c]
       THEN /\ lastNonce' = nonce[c] /\ handed' = handed \cup {nonce[c]}
            /\ pc' = [pc EXCEPT ![c] = "sign"]
       ELSE pc' = [pc EXCEPT ![c] = "load"] /\ UNCHANGED <<lastNonce, handed>>
    /\ UNCHANGED <<last, nonce, expiresAfter, used, wireVars, method, misled, calls>>

\* SignL1Action: actionHash covers the packed action, the nonce, the vault the method
\* passes and the expiry.
Sign(c) ==
    /\ pc[c] = "sign"
    /\ signed' = [signed EXCEPT ![c] =
          [vault |-> IF method[c].signs = "own" THEN Vault ELSE NoVault,
           expires |-> expiresAfter]]
    /\ swapped' = [swapped EXCEPT ![c] = FALSE]
    /\ pc' = [pc EXCEPT ![c] = "post"]
    /\ UNCHANGED <<payload, expiresAfter, used, nonceVars, method, misled, calls>>

\* A call ends: its locals are gone.
Ends(c) ==
    /\ pc' = [pc EXCEPT ![c] = "idle"]
    /\ last' = [last EXCEPT ![c] = 0] /\ nonce' = [nonce EXCEPT ![c] = 0]
    /\ signed' = [signed EXCEPT ![c] = Blank] /\ payload' = [payload EXCEPT ![c] = Blank]
    /\ swapped' = [swapped EXCEPT ![c] = FALSE]

\* signInner cannot hash or sign: an error, and the nonce is gone.
SignFails(c) ==
    /\ pc[c] = "sign" /\ Ends(c)
    /\ UNCHANGED <<lastNonce, handed, expiresAfter, used, method, misled, calls>>

\* A call panics, and with it the process.
Panics == pc' = [d \in Callers |-> "panicked"]

\* actionHash panics: msgpack cannot pack the action, or the expiry is negative.
SignPanics(c) ==
    /\ pc[c] = "sign" /\ Panics
    /\ UNCHANGED <<expiresAfter, used, nonceVars, wireVars, method, misled, calls>>

\* Mutant of VaultOf: the special case of the maps is applied to every action.
VaultOfNone(m) == NoVault

\* postAction's vaultAddress: the Exchange's vault, whatever the signature covers.  No
\* method passes usdClassTransfer as a map, the one case that would leave it out.
VaultOf(m) == Vault

\* postAction up to its test of expiresAfter: without one the request leaves.
Post(c) ==
    /\ pc[c] = "post"
    /\ payload' = [payload EXCEPT ![c] = [vault |-> VaultOf(method[c]), expires |-> NoExpiry]]
    /\ IF expiresAfter = NoExpiry
       THEN pc' = [pc EXCEPT ![c] = "reply"] /\ used' = used \cup {nonce[c]}
       ELSE pc' = [pc EXCEPT ![c] = "attach"] /\ UNCHANGED used
    /\ UNCHANGED <<signed, swapped, expiresAfter, nonceVars, method, misled, calls>>

\* postAction reads expiresAfter a second time to dereference it: set to nil in between,
\* the call panics.
Attach(c) ==
    /\ pc[c] = "attach"
    /\ payload' = [payload EXCEPT ![c].expires = expiresAfter]
    /\ IF expiresAfter = NoExpiry
       THEN Panics /\ UNCHANGED used
       ELSE pc' = [pc EXCEPT ![c] = "reply"] /\ used' = used \cup {nonce[c]}
    /\ UNCHANGED <<signed, swapped, expiresAfter, nonceVars, method, misled, calls>>

-----------------------------------------------------------------------------
(* The answer *)

\* APIResponse.UnmarshalJSON: a status other than ok is a result, not an error; ok
\* without response.data is an error.
UnmarshalFails(a) == a.ok /\ ~a.data

\* executeAction, before the method looks at the result.  For null there is no error: a
\* result that is a pointer is nil then, any other is as for a status that is not ok.
ExecuteFails(a) == a.body = "unusable" \/ UnmarshalFails(a)

\* BulkOrders: an item's error is reported; a status of err, or nil, is left to the caller.
BulkOrdersFails(a) == ExecuteFails(a) \/ (a.ok /\ a.items = "bad")

\* Mutant of OrderFails: the items are not looked at.
OrderFailsOk(a) == ExecuteFails(a) \/ ~a.ok

\* Order: through BulkOrders, then the status and an empty list.
OrderFails(a) == BulkOrdersFails(a) \/ ~a.ok \/ a.items = "none"

\* ModifyOrder and BulkModifyOrders: the items' errors are handed on inside the result.
ModifyFails(a) == ExecuteFails(a) \/ ~a.ok \/ a.items = "none"

\* BulkCancel and BulkCancelByCloids: nil or the status, then MixedArray.FirstError, which finds
\* none in an empty list.
CancelFails(a) == ExecuteFails(a) \/ ~a.ok \/ a.items = "bad"

\* Every other method decodes the answer into its result and looks no further.
PlainFails(a) == a.body = "unusable"

Fails(m, a) ==
    CASE m.result = "order" -> OrderFails(a)
      [] m.result = "bulkOrders" -> BulkOrdersFails(a)
      [] m.result = "modify" -> ModifyFails(a)
      [] m.result = "cancel" -> CancelFails(a)
      [] OTHER -> PlainFails(a)

\* The exchange did what it was asked.
Accepted(a) == a.ok /\ a.items # "bad"

\* Order dereferences the nil that BulkOrders returns for null.
Dereferences(m, a) == m.result = "order" /\ a.body = "null"

\* Client.post returns and the method reads the answer.
Reply(c, a) ==
    /\ pc[c] = "reply" /\ ~Dereferences(method[c], a)
    /\ Ends(c)
    /\ misled' = [misled EXCEPT ![c] = ~Fails(method[c], a) /\ ~Accepted(a)]
    /\ UNCHANGED <<lastNonce, handed, expiresAfter, used, method, calls>>

ReplyPanics(c, a) ==
    /\ pc[c] = "reply" /\ Dereferences(method[c], a) /\ Panics
    /\ UNCHANGED <<expiresAfter, used, nonceVars, wireVars, method, misled, calls>>

-----------------------------------------------------------------------------
(* The application *)

\* SetExpiresAfter, while calls are under way.
SetExpiresAfter(e) ==
    /\ e # expiresAfter /\ \A c \in Callers : pc[c] # "panicked"
    /\ expiresAfter' = e
    /\ swapped' = [c \in Callers |-> swapped[c] \/ pc[c] \in {"post", "attach"}]
    /\ UNCHANGED <<used, nonceVars, signed, payload, pc, method, misled, calls>>

\* The process ends; the next one builds an Exchange and resumes with SetLastNonce from
\* a nonce that was stored, not below any that was handed out.
Restart(n) ==
    /\ \A k \in handed : k <= n
    /\ lastNonce' = n
    /\ expiresAfter' = NoExpiry
    /\ pc' = [c \in Callers |-> "idle"]
    /\ misled' = [c \in Callers |-> FALSE]
    /\ method' = [c \in Callers |-> CHOOSE m \in Methods : TRUE]
    /\ last' = [c \in Callers |-> 0] /\ nonce' = [c \in Callers |-> 0]
    /\ signed' = [c \in Callers |-> Blank] /\ payload' = [c \in Callers |-> Blank]
    /\ swapped' = [c \in Callers |-> FALSE]
    /\ UNCHANGED <<handed, used, calls>>

Next ==
    \/ \E c \in Callers :
          \/ \E m \in Methods : Call(c, m)
          \/ \E found \in BOOLEAN : Quote(c, found)
          \/ \E t \in 0 .. MaxTime : LoadNonce(c, t)
          \/ CompareAndSwap(c) \/ Sign(c) \/ SignFails(c) \/ SignPanics(c) \/ Post(c) \/ Attach(c)
          \/ \E a \in Answers : Reply(c, a) \/ ReplyPanics(c, a)
    \/ \E e \in Expiries : SetExpiresAfter(e)
    \/ \E n \in {lastNonce} \cup 0 .. MaxTime : Restart(n)

Spec == Init /\ [][Next]_vars

-----------------------------------------------------------------------------
(* Properties *)

\* Every variable keeps its type.
TypeOK ==
    /\ lastNonce \in Nat /\ handed \in SUBSET Nat /\ used \in SUBSET Nat
    /\ expiresAfter \in Expiries
    /\ pc \in [Callers -> Steps] /\ method \in [Callers -> Methods]
    /\ last \in [Callers -> Nat] /\ nonce \in [Callers -> Nat]
    /\ signed \in [Callers -> Envelope] /\ payload \in [Callers -> Envelope]
    /\ swapped \in [Callers -> BOOLEAN]
    /\ misled \in [Callers -> BOOLEAN]
    /\ calls \in Nat

Holding(c) == pc[c] \in {"sign", "post", "attach"}

\* Hyperliquid refuses a nonce it has seen.  However the calls of several goroutines,
\* the lost races of nextNonce, a clock that is set back and restarts interleave, a call
\* that is about to be posted holds a nonce that no other call holds and none has posted.
NonceIsFresh ==
    \A c \in Callers : Holding(c) =>
        /\ nonce[c] \notin used
        /\ \A d \in Callers \ {c} : Holding(d) => nonce[d] # nonce[c]

\* The vault and expiry of a posted request are the ones its signature covers: always the
\* expiry, unless SetExpiresAfter ran between signing and posting, and the vault for the
\* methods that sign with it.
SignatureCoversPayload ==
    \A c \in Callers : pc[c] = "reply" =>
        /\ ~swapped[c] => payload[c].expires = signed[c].expires
        /\ method[c].signs = "own" => payload[c].vault = signed[c].vault

\* Order and the cancel methods return without an error only for what the exchange has
\* accepted: an answer that is lost, malformed, refused as a whole or for an item is
\* always an error.  For an answer that is null Order does not return: it panics.
NoErrorMeansAccepted ==
    \A c \in Callers : misled[c] => method[c].result \notin {"order", "cancel"}

\* nextNonce with its load, clock and compare-and-swap implements NonceSource: the nonces
\* handed out only grow, over restarts too.
Source == INSTANCE NonceSource WITH last <- lastNonce, handed <- handed
ImplementsNonceSource == Source!Spec
=============================================================================
