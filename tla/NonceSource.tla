----------------------------- MODULE NonceSource -----------------------------
(***************************************************************************)
(* What Exchange.nextNonce promises its callers, with no atomics and no     *)
(* clock: every nonce it hands out is larger than all before it.  A source  *)
(* that resumes after a restart may only skip ahead.                        *)
(***************************************************************************)
EXTENDS Integers

VARIABLES
    last,    \* the highest nonce in use
    handed   \* nonces handed out

Init == last = 0 /\ handed = {}

\* nextNonce returns.
Issue ==
    /\ last' \in Nat /\ last' > last
    /\ handed' = handed \cup {last'}

\* NewExchange and SetLastNonce with a persisted nonce.
Resume ==
    /\ last' \in Nat /\ \A n \in handed : n <= last'
    /\ UNCHANGED handed

Next == Issue \/ Resume

Spec == Init /\ [][Next]_<<last, handed>>
=============================================================================
