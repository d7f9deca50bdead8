---------------------------- MODULE ExchangeProofs ----------------------------
(* Proofs about Exchange, for any number of goroutines, any methods, and a clock  *)
(* that reads anything.                                                           *)
EXTENDS Exchange, TLAPS

USE MethodAssumption, ExpiryAssumption, BoundAssumption DEF nonceVars, wireVars, Ends, Panics

-----------------------------------------------------------------------------
(* Types *)

LEMMA TypeInit == Init => TypeOK
BY DEF Init, TypeOK, Envelope, Blank, Steps

LEMMA TypeStep == TypeOK /\ [Next]_vars => TypeOK'
<1> SUFFICES ASSUME TypeOK, [Next]_vars PROVE TypeOK' OBVIOUS
<1> USE DEF TypeOK
<1>1. ASSUME NEW c \in Callers, NEW m \in Methods, Call(c, m) PROVE TypeOK'
  BY <1>1 DEF Call, Envelope, Blank, Steps, Candidate, VaultOf
<1>2. ASSUME NEW c \in Callers, NEW found \in BOOLEAN, Quote(c, found) PROVE TypeOK'
  BY <1>2 DEF Quote, Envelope, Blank, Steps, Candidate, VaultOf
<1>3. ASSUME NEW c \in Callers, NEW t \in 0 .. MaxTime, LoadNonce(c, t) PROVE TypeOK'
  BY <1>3 DEF LoadNonce, Envelope, Blank, Steps, Candidate, VaultOf
<1>4. ASSUME NEW c \in Callers, CompareAndSwap(c) PROVE TypeOK'
  <2>1. CASE lastNonce = last[c]
    <3>1. nonce[c] \in Nat /\ handed \cup {nonce[c]} \in SUBSET Nat OBVIOUS
    <3>2. [pc EXCEPT ![c] = "sign"] \in [Callers -> Steps] BY DEF Steps
    <3> QED BY <1>4, <2>1, <3>1, <3>2 DEF CompareAndSwap
  <2>2. CASE lastNonce # last[c] BY <1>4, <2>2 DEF CompareAndSwap, Steps
  <2> QED BY <2>1, <2>2
<1>5. ASSUME NEW c \in Callers, Sign(c) PROVE TypeOK'
  BY <1>5 DEF Sign, Envelope, Blank, Steps, Candidate, VaultOf
<1>6. ASSUME NEW c \in Callers, Post(c) PROVE TypeOK'
  <2>1. payload' \in [Callers -> Envelope] BY <1>6 DEF Post, Envelope, VaultOf
  <2>2. pc' \in [Callers -> Steps] /\ used' \in SUBSET Nat
    <3>1. CASE expiresAfter = NoExpiry
      <4>1. nonce[c] \in Nat /\ used \cup {nonce[c]} \in SUBSET Nat OBVIOUS
      <4>2. [pc EXCEPT ![c] = "reply"] \in [Callers -> Steps] BY DEF Steps
      <4> QED BY <1>6, <3>1, <4>1, <4>2 DEF Post
    <3>2. CASE expiresAfter # NoExpiry BY <1>6, <3>2 DEF Post, Steps
    <3> QED BY <3>1, <3>2
  <2> QED BY <1>6, <2>1, <2>2 DEF Post
<1>7. ASSUME NEW c \in Callers, Attach(c) PROVE TypeOK'
  <2>1. payload' \in [Callers -> Envelope] BY <1>7 DEF Attach, Envelope
  <2>2. pc' \in [Callers -> Steps] /\ used' \in SUBSET Nat
    <3>1. CASE expiresAfter = NoExpiry BY <1>7, <3>1 DEF Attach, Steps
    <3>2. CASE expiresAfter # NoExpiry
      <4>1. nonce[c] \in Nat /\ used \cup {nonce[c]} \in SUBSET Nat OBVIOUS
      <4>2. [pc EXCEPT ![c] = "reply"] \in [Callers -> Steps] BY DEF Steps
      <4> QED BY <1>7, <3>2, <4>1, <4>2 DEF Attach
    <3> QED BY <3>1, <3>2
  <2> QED BY <1>7, <2>1, <2>2 DEF Attach
<1>8. ASSUME NEW c \in Callers, NEW a \in Answers, Reply(c, a) PROVE TypeOK'
  BY <1>8 DEF Reply, Envelope, Blank, Steps, Candidate, VaultOf
<1>9. ASSUME NEW e \in Expiries, SetExpiresAfter(e) PROVE TypeOK'
  BY <1>9 DEF SetExpiresAfter, Envelope, Blank, Steps, Candidate, VaultOf
<1>10. ASSUME NEW n \in {lastNonce} \cup 0 .. MaxTime, Restart(n) PROVE TypeOK'
  BY <1>10 DEF Restart, Envelope, Blank, Steps, Candidate, VaultOf
<1>11. ASSUME NEW c \in Callers, SignFails(c) PROVE TypeOK'
  BY <1>11 DEF SignFails, Envelope, Blank, Steps
<1>12. ASSUME NEW c \in Callers, SignPanics(c) PROVE TypeOK'
  BY <1>12 DEF SignPanics, Envelope, Blank, Steps
<1>13. ASSUME NEW c \in Callers, NEW a \in Answers, ReplyPanics(c, a) PROVE TypeOK'
  BY <1>13 DEF ReplyPanics, Envelope, Blank, Steps
<1>14. CASE UNCHANGED vars
  BY <1>14 DEF vars, Envelope, Blank, Steps, Candidate, VaultOf
<1> QED BY <1>1, <1>2, <1>3, <1>4, <1>5, <1>6, <1>7, <1>8, <1>9, <1>10, <1>11,
           <1>12, <1>13, <1>14 DEF Next

\* Every variable keeps its type (Exchange and the locals of its calls).
THEOREM TypeCorrect == Spec => []TypeOK
<1> QED BY TypeInit, TypeStep, PTL DEF Spec

-----------------------------------------------------------------------------
(* Nonces *)

\* lastNonce is above everything handed out, and only what was handed out is posted.  A
\* candidate is above the value its compare-and-swap expects, so that a swap that succeeds
\* hands out a nonce above all the others.
NonceInv ==
    /\ \A k \in handed : k <= lastNonce
    /\ used \subseteq handed
    /\ \A c \in Callers : pc[c] = "cas" => nonce[c] > last[c]
    /\ \A c \in Callers : Holding(c) => nonce[c] \in handed
    /\ NonceIsFresh

LEMMA NonceInit == Init => NonceInv
BY DEF Init, NonceInv, NonceIsFresh, Holding

LEMMA NonceStep == TypeOK /\ NonceInv /\ [Next]_vars => NonceInv'
<1> SUFFICES ASSUME TypeOK, NonceInv, [Next]_vars PROVE NonceInv' OBVIOUS
<1> USE DEF TypeOK
<1>1. ASSUME NEW c \in Callers, NEW m \in Methods, Call(c, m) PROVE NonceInv'
  BY <1>1 DEF Call, NonceInv, NonceIsFresh, Holding, Candidate, Steps
<1>2. ASSUME NEW c \in Callers, NEW found \in BOOLEAN, Quote(c, found) PROVE NonceInv'
  BY <1>2 DEF Quote, NonceInv, NonceIsFresh, Holding, Candidate, Steps
<1>3. ASSUME NEW c \in Callers, NEW t \in 0 .. MaxTime, LoadNonce(c, t) PROVE NonceInv'
  BY <1>3 DEF LoadNonce, NonceInv, NonceIsFresh, Holding, Candidate, Steps
<1>4. ASSUME NEW c \in Callers, CompareAndSwap(c) PROVE NonceInv'
  <2>1. CASE lastNonce = last[c]
    <3>1. \A k \in handed : k < nonce[c] BY <1>4, <2>1 DEF CompareAndSwap, NonceInv
    <3>2. nonce[c] \notin handed BY <3>1
    <3>3. /\ lastNonce' = nonce[c] /\ handed' = handed \cup {nonce[c]}
          /\ pc' = [pc EXCEPT ![c] = "sign"] /\ UNCHANGED <<nonce, last, used>>
      BY <1>4, <2>1 DEF CompareAndSwap
    <3>4. \A d \in Callers : Holding(d)' => d = c \/ (Holding(d) /\ d # c /\ nonce[d] # nonce[c])
      BY <1>4, <3>2, <3>3 DEF Holding, NonceInv
    <3>5. NonceIsFresh' BY <3>2, <3>3, <3>4 DEF NonceInv, NonceIsFresh
    <3>6. \A k \in handed' : k <= lastNonce' BY <3>1, <3>3
    <3>7. \A d \in Callers : pc'[d] = "cas" => nonce'[d] > last'[d] BY <3>3 DEF NonceInv
    <3> QED BY <3>3, <3>4, <3>5, <3>6, <3>7 DEF NonceInv
  <2>2. CASE lastNonce # last[c]
    <3>1. pc' = [pc EXCEPT ![c] = "load"] /\ UNCHANGED <<lastNonce, handed, nonce, last, used>>
      BY <1>4, <2>2 DEF CompareAndSwap
    <3>2. \A d \in Callers : /\ pc'[d] = "cas" => pc[d] = "cas"
                             /\ Holding(d)' => Holding(d)
      BY <3>1 DEF Holding
    <3>3. NonceIsFresh' BY <3>1, <3>2 DEF NonceInv, NonceIsFresh
    <3> QED BY <3>1, <3>2, <3>3 DEF NonceInv
  <2> QED BY <2>1, <2>2
<1>5. ASSUME NEW c \in Callers, Sign(c) PROVE NonceInv'
  BY <1>5 DEF Sign, NonceInv, NonceIsFresh, Holding, Candidate, Steps
<1>6. ASSUME NEW c \in Callers, Post(c) PROVE NonceInv'
  <2>1. CASE expiresAfter = NoExpiry
    <3>1. /\ pc' = [pc EXCEPT ![c] = "reply"] /\ used' = used \cup {nonce[c]}
          /\ UNCHANGED <<lastNonce, handed, nonce, last>>
      BY <1>6, <2>1 DEF Post
    <3>2. Holding(c) BY <1>6 DEF Post, Holding
    <3>3. \A d \in Callers : Holding(d)' => Holding(d) /\ d # c BY <3>1 DEF Holding
    <3>4. NonceIsFresh' BY <3>1, <3>2, <3>3 DEF NonceInv, NonceIsFresh
    <3> QED BY <3>1, <3>2, <3>3, <3>4 DEF NonceInv
  <2>2. CASE expiresAfter # NoExpiry
    BY <1>6, <2>2 DEF Post, NonceInv, NonceIsFresh, Holding
  <2> QED BY <2>1, <2>2
<1>7. ASSUME NEW c \in Callers, Attach(c) PROVE NonceInv'
  BY <1>7 DEF Attach, NonceInv, NonceIsFresh, Holding, Candidate, Steps
<1>8. ASSUME NEW c \in Callers, NEW a \in Answers, Reply(c, a) PROVE NonceInv'
  BY <1>8 DEF Reply, NonceInv, NonceIsFresh, Holding, Candidate, Steps
<1>9. ASSUME NEW e \in Expiries, SetExpiresAfter(e) PROVE NonceInv'
  BY <1>9 DEF SetExpiresAfter, NonceInv, NonceIsFresh, Holding, Candidate, Steps
<1>10. ASSUME NEW n \in {lastNonce} \cup 0 .. MaxTime, Restart(n) PROVE NonceInv'
  BY <1>10 DEF Restart, NonceInv, NonceIsFresh, Holding, Candidate, Steps
<1>11. ASSUME NEW c \in Callers, SignFails(c) PROVE NonceInv'
  BY <1>11 DEF SignFails, NonceInv, NonceIsFresh, Holding, Steps
<1>12. ASSUME NEW c \in Callers, SignPanics(c) PROVE NonceInv'
  BY <1>12 DEF SignPanics, NonceInv, NonceIsFresh, Holding, Steps
<1>13. ASSUME NEW c \in Callers, NEW a \in Answers, ReplyPanics(c, a) PROVE NonceInv'
  BY <1>13 DEF ReplyPanics, NonceInv, NonceIsFresh, Holding, Steps
<1>14. CASE UNCHANGED vars
  BY <1>14 DEF vars, NonceInv, NonceIsFresh, Holding, Candidate, Steps
<1> QED BY <1>1, <1>2, <1>3, <1>4, <1>5, <1>6, <1>7, <1>8, <1>9, <1>10, <1>11,
           <1>12, <1>13, <1>14 DEF Next

\* No two calls hold one nonce, and none holds a nonce that was posted, whatever the
\* goroutines' races in nextNonce, the clock and restarts do.
THEOREM NoncesAreFresh == Spec => []NonceIsFresh
<1>1. NonceInv => NonceIsFresh BY DEF NonceInv
<1> QED BY <1>1, TypeInit, TypeStep, NonceInit, NonceStep, PTL DEF Spec

LEMMA SourceInit == Init => Source!Init
BY DEF Init, Source!Init

LEMMA SourceStep == TypeOK /\ NonceInv /\ [Next]_vars => [Source!Next]_<<lastNonce, handed>>
<1> SUFFICES ASSUME TypeOK, NonceInv, [Next]_vars PROVE [Source!Next]_<<lastNonce, handed>>
  OBVIOUS
<1> USE DEF TypeOK
<1>1. ASSUME NEW c \in Callers, NEW m \in Methods, Call(c, m) PROVE [Source!Next]_<<lastNonce, handed>>
  BY <1>1 DEF Call, Source!Next, Source!Issue, Source!Resume, NonceInv
<1>2. ASSUME NEW c \in Callers, NEW found \in BOOLEAN, Quote(c, found) PROVE [Source!Next]_<<lastNonce, handed>>
  BY <1>2 DEF Quote, Source!Next, Source!Issue, Source!Resume, NonceInv
<1>3. ASSUME NEW c \in Callers, NEW t \in 0 .. MaxTime, LoadNonce(c, t) PROVE [Source!Next]_<<lastNonce, handed>>
  BY <1>3 DEF LoadNonce, Source!Next, Source!Issue, Source!Resume, NonceInv
<1>4. ASSUME NEW c \in Callers, CompareAndSwap(c) PROVE [Source!Next]_<<lastNonce, handed>>
  BY <1>4 DEF CompareAndSwap, Source!Next, Source!Issue, Source!Resume, NonceInv
<1>5. ASSUME NEW c \in Callers, Sign(c) PROVE [Source!Next]_<<lastNonce, handed>>
  BY <1>5 DEF Sign, Source!Next, Source!Issue, Source!Resume, NonceInv
<1>6. ASSUME NEW c \in Callers, Post(c) PROVE [Source!Next]_<<lastNonce, handed>>
  BY <1>6 DEF Post, Source!Next, Source!Issue, Source!Resume, NonceInv
<1>7. ASSUME NEW c \in Callers, Attach(c) PROVE [Source!Next]_<<lastNonce, handed>>
  BY <1>7 DEF Attach, Source!Next, Source!Issue, Source!Resume, NonceInv
<1>8. ASSUME NEW c \in Callers, NEW a \in Answers, Reply(c, a) PROVE [Source!Next]_<<lastNonce, handed>>
  BY <1>8 DEF Reply, Source!Next, Source!Issue, Source!Resume, NonceInv
<1>9. ASSUME NEW e \in Expiries, SetExpiresAfter(e) PROVE [Source!Next]_<<lastNonce, handed>>
  BY <1>9 DEF SetExpiresAfter, Source!Next, Source!Issue, Source!Resume, NonceInv
<1>10. ASSUME NEW n \in {lastNonce} \cup 0 .. MaxTime, Restart(n) PROVE [Source!Next]_<<lastNonce, handed>>
  BY <1>10 DEF Restart, Source!Next, Source!Issue, Source!Resume, NonceInv
<1>11. ASSUME NEW c \in Callers, SignFails(c) PROVE [Source!Next]_<<lastNonce, handed>>
  BY <1>11 DEF SignFails, Source!Next, Source!Issue, Source!Resume
<1>12. ASSUME NEW c \in Callers, SignPanics(c) PROVE [Source!Next]_<<lastNonce, handed>>
  BY <1>12 DEF SignPanics, Source!Next, Source!Issue, Source!Resume
<1>13. ASSUME NEW c \in Callers, NEW a \in Answers, ReplyPanics(c, a) PROVE [Source!Next]_<<lastNonce, handed>>
  BY <1>13 DEF ReplyPanics, Source!Next, Source!Issue, Source!Resume
<1>14. CASE UNCHANGED vars
  BY <1>14 DEF vars, Source!Next, Source!Issue, Source!Resume, NonceInv
<1> QED BY <1>1, <1>2, <1>3, <1>4, <1>5, <1>6, <1>7, <1>8, <1>9, <1>10, <1>11,
           <1>12, <1>13, <1>14 DEF Next

\* Exchange.nextNonce implements NonceSource: load, clock and compare-and-swap together
\* are one step that hands out a larger nonce, or none.
THEOREM NextNonceIsASource == Spec => ImplementsNonceSource
<1> QED BY TypeInit, TypeStep, NonceInit, NonceStep, SourceInit, SourceStep, PTL
        DEF Spec, ImplementsNonceSource, Source!Spec

-----------------------------------------------------------------------------
(* Signatures *)

\* While a call is under way after it was signed, its signature covers the vault its method
\* signs with, and the Exchange's expiry unless that was set since.
SignedInv ==
    \A c \in Callers :
        /\ pc[c] \in {"post", "attach"} => swapped[c] \/ signed[c].expires = expiresAfter
        /\ pc[c] \in {"post", "attach", "reply"} /\ method[c].signs = "own" => signed[c].vault = Vault
        /\ pc[c] \in {"attach", "reply"} => payload[c].vault = Vault

LEMMA SignedInit == Init => SignedInv /\ SignatureCoversPayload
BY DEF Init, SignedInv, SignatureCoversPayload

LEMMA SignedStep ==
    TypeOK /\ SignedInv /\ SignatureCoversPayload /\ [Next]_vars
        => SignedInv' /\ SignatureCoversPayload'
<1> SUFFICES ASSUME TypeOK, SignedInv, SignatureCoversPayload, [Next]_vars
             PROVE  SignedInv' /\ SignatureCoversPayload'
  OBVIOUS
<1> USE DEF TypeOK
<1>1. ASSUME NEW c \in Callers, NEW m \in Methods, Call(c, m) PROVE SignedInv' /\ SignatureCoversPayload'
  BY <1>1 DEF Call, SignedInv, SignatureCoversPayload, VaultOf, Envelope, Blank, Steps
<1>2. ASSUME NEW c \in Callers, NEW found \in BOOLEAN, Quote(c, found) PROVE SignedInv' /\ SignatureCoversPayload'
  BY <1>2 DEF Quote, SignedInv, SignatureCoversPayload, VaultOf, Envelope, Blank, Steps
<1>3. ASSUME NEW c \in Callers, NEW t \in 0 .. MaxTime, LoadNonce(c, t) PROVE SignedInv' /\ SignatureCoversPayload'
  BY <1>3 DEF LoadNonce, SignedInv, SignatureCoversPayload, VaultOf, Envelope, Blank, Steps
<1>4. ASSUME NEW c \in Callers, CompareAndSwap(c) PROVE SignedInv' /\ SignatureCoversPayload'
  BY <1>4 DEF CompareAndSwap, SignedInv, SignatureCoversPayload, VaultOf, Envelope, Blank, Steps
<1>5. ASSUME NEW c \in Callers, Sign(c) PROVE SignedInv' /\ SignatureCoversPayload'
  BY <1>5 DEF Sign, SignedInv, SignatureCoversPayload, VaultOf, Envelope, Blank, Steps
<1>6. ASSUME NEW c \in Callers, Post(c) PROVE SignedInv' /\ SignatureCoversPayload'
  BY <1>6 DEF Post, SignedInv, SignatureCoversPayload, VaultOf, Envelope, Blank, Steps
<1>7. ASSUME NEW c \in Callers, Attach(c) PROVE SignedInv' /\ SignatureCoversPayload'
  BY <1>7 DEF Attach, SignedInv, SignatureCoversPayload, VaultOf, Envelope, Blank, Steps
<1>8. ASSUME NEW c \in Callers, NEW a \in Answers, Reply(c, a) PROVE SignedInv' /\ SignatureCoversPayload'
  BY <1>8 DEF Reply, SignedInv, SignatureCoversPayload, VaultOf, Envelope, Blank, Steps
<1>9. ASSUME NEW e \in Expiries, SetExpiresAfter(e) PROVE SignedInv' /\ SignatureCoversPayload'
  BY <1>9 DEF SetExpiresAfter, SignedInv, SignatureCoversPayload, VaultOf, Envelope, Blank, Steps
<1>10. ASSUME NEW n \in {lastNonce} \cup 0 .. MaxTime, Restart(n) PROVE SignedInv' /\ SignatureCoversPayload'
  BY <1>10 DEF Restart, SignedInv, SignatureCoversPayload, VaultOf, Envelope, Blank, Steps
<1>11. ASSUME NEW c \in Callers, SignFails(c) PROVE SignedInv' /\ SignatureCoversPayload'
  BY <1>11 DEF SignFails, SignedInv, SignatureCoversPayload, Envelope, Blank, Steps
<1>12. ASSUME NEW c \in Callers, SignPanics(c) PROVE SignedInv' /\ SignatureCoversPayload'
  BY <1>12 DEF SignPanics, SignedInv, SignatureCoversPayload, Envelope, Blank, Steps
<1>13. ASSUME NEW c \in Callers, NEW a \in Answers, ReplyPanics(c, a) PROVE SignedInv' /\ SignatureCoversPayload'
  BY <1>13 DEF ReplyPanics, SignedInv, SignatureCoversPayload, Envelope, Blank, Steps
<1>14. CASE UNCHANGED vars
  BY <1>14 DEF vars, SignedInv, SignatureCoversPayload, VaultOf, Envelope, Blank, Steps
<1> QED BY <1>1, <1>2, <1>3, <1>4, <1>5, <1>6, <1>7, <1>8, <1>9, <1>10, <1>11,
           <1>12, <1>13, <1>14 DEF Next

\* What is posted is what was signed, for any methods: the expiry unless SetExpiresAfter
\* came between, the vault for the methods that sign with it.
THEOREM SignaturesCoverPayloads == Spec => []SignatureCoversPayload
<1> QED BY TypeInit, TypeStep, SignedInit, SignedStep, PTL DEF Spec

-----------------------------------------------------------------------------
(* Answers *)

LEMMA AnswerInit == Init => NoErrorMeansAccepted
BY DEF Init, NoErrorMeansAccepted

LEMMA AnswerStep == TypeOK /\ NoErrorMeansAccepted /\ [Next]_vars => NoErrorMeansAccepted'
<1> SUFFICES ASSUME TypeOK, NoErrorMeansAccepted, [Next]_vars PROVE NoErrorMeansAccepted'
  OBVIOUS
<1> USE DEF TypeOK
<1>1. ASSUME NEW c \in Callers, NEW m \in Methods, Call(c, m) PROVE NoErrorMeansAccepted'
  BY <1>1 DEF Call, NoErrorMeansAccepted, Steps, Fails, OrderFails, CancelFails, BulkOrdersFails, ExecuteFails, UnmarshalFails, Accepted, Answers, Answer
<1>2. ASSUME NEW c \in Callers, NEW found \in BOOLEAN, Quote(c, found) PROVE NoErrorMeansAccepted'
  BY <1>2 DEF Quote, NoErrorMeansAccepted, Steps, Fails, OrderFails, CancelFails, BulkOrdersFails, ExecuteFails, UnmarshalFails, Accepted, Answers, Answer
<1>3. ASSUME NEW c \in Callers, NEW t \in 0 .. MaxTime, LoadNonce(c, t) PROVE NoErrorMeansAccepted'
  BY <1>3 DEF LoadNonce, NoErrorMeansAccepted, Steps, Fails, OrderFails, CancelFails, BulkOrdersFails, ExecuteFails, UnmarshalFails, Accepted, Answers, Answer
<1>4. ASSUME NEW c \in Callers, CompareAndSwap(c) PROVE NoErrorMeansAccepted'
  BY <1>4 DEF CompareAndSwap, NoErrorMeansAccepted, Steps, Fails, OrderFails, CancelFails, BulkOrdersFails, ExecuteFails, UnmarshalFails, Accepted, Answers, Answer
<1>5. ASSUME NEW c \in Callers, Sign(c) PROVE NoErrorMeansAccepted'
  BY <1>5 DEF Sign, NoErrorMeansAccepted, Steps, Fails, OrderFails, CancelFails, BulkOrdersFails, ExecuteFails, UnmarshalFails, Accepted, Answers, Answer
<1>6. ASSUME NEW c \in Callers, Post(c) PROVE NoErrorMeansAccepted'
  BY <1>6 DEF Post, NoErrorMeansAccepted, Steps, Fails, OrderFails, CancelFails, BulkOrdersFails, ExecuteFails, UnmarshalFails, Accepted, Answers, Answer
<1>7. ASSUME NEW c \in Callers, Attach(c) PROVE NoErrorMeansAccepted'
  BY <1>7 DEF Attach, NoErrorMeansAccepted, Steps, Fails, OrderFails, CancelFails, BulkOrdersFails, ExecuteFails, UnmarshalFails, Accepted, Answers, Answer
<1>8. ASSUME NEW c \in Callers, NEW a \in Answers, Reply(c, a) PROVE NoErrorMeansAccepted'
  BY <1>8 DEF Reply, NoErrorMeansAccepted, Steps, Fails, OrderFails, CancelFails, BulkOrdersFails, ExecuteFails, UnmarshalFails, Accepted, Answers, Answer
<1>9. ASSUME NEW e \in Expiries, SetExpiresAfter(e) PROVE NoErrorMeansAccepted'
  BY <1>9 DEF SetExpiresAfter, NoErrorMeansAccepted, Steps, Fails, OrderFails, CancelFails, BulkOrdersFails, ExecuteFails, UnmarshalFails, Accepted, Answers, Answer
<1>10. ASSUME NEW n \in {lastNonce} \cup 0 .. MaxTime, Restart(n) PROVE NoErrorMeansAccepted'
  BY <1>10 DEF Restart, NoErrorMeansAccepted, Steps, Fails, OrderFails, CancelFails, BulkOrdersFails, ExecuteFails, UnmarshalFails, Accepted, Answers, Answer
<1>11. ASSUME NEW c \in Callers, SignFails(c) PROVE NoErrorMeansAccepted'
  BY <1>11 DEF SignFails, NoErrorMeansAccepted
<1>12. ASSUME NEW c \in Callers, SignPanics(c) PROVE NoErrorMeansAccepted'
  BY <1>12 DEF SignPanics, NoErrorMeansAccepted
<1>13. ASSUME NEW c \in Callers, NEW a \in Answers, ReplyPanics(c, a) PROVE NoErrorMeansAccepted'
  BY <1>13 DEF ReplyPanics, NoErrorMeansAccepted
<1>14. CASE UNCHANGED vars
  BY <1>14 DEF vars, NoErrorMeansAccepted, Steps, Fails, OrderFails, CancelFails, BulkOrdersFails, ExecuteFails, UnmarshalFails, Accepted, Answers, Answer
<1> QED BY <1>1, <1>2, <1>3, <1>4, <1>5, <1>6, <1>7, <1>8, <1>9, <1>10, <1>11,
           <1>12, <1>13, <1>14 DEF Next

\* Order, MarketOpen, MarketClose and the cancel methods return no error only for what
\* the exchange accepted.
THEOREM NoErrorAccepted == Spec => []NoErrorMeansAccepted
<1> QED BY TypeInit, TypeStep, AnswerInit, AnswerStep, PTL DEF Spec
=============================================================================
