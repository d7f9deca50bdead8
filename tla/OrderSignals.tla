---------------------------- MODULE OrderSignals ----------------------------
(***************************************************************************)
(* What the order processor promises about each order (address, oid and    *)
(* direction), with no goroutines, objects, channels or retries: an order  *)
(* is opened, signalled, remembered, and only then let go.                 *)
(*                                                                         *)
(* The promise has two gaps, which are the code's.  A signalled order may  *)
(* be signalled again, and one that was let go may be opened again, by a   *)
(* handler that asked the deduper before the order was remembered.         *)
(***************************************************************************)
VARIABLES
    open,      \* orders that are pending
    signals,   \* signals NATS accepted: an order and the trades it sums up
    marked     \* orders the deduper remembers

Signalled(k) == \E s \in signals : s.key = k

Init == open = {} /\ signals = {} /\ marked = {}

\* The first fill.
Open(k) ==
    /\ k \notin open
    /\ open' = open \cup {k}
    /\ UNCHANGED <<signals, marked>>

\* A signal sums up at least one trade, and the first of an order comes while the
\* order is pending.
Signal(s) ==
    /\ s.key \in open \/ Signalled(s.key)
    /\ s.trades # <<>>
    /\ signals' = signals \cup {s}
    /\ UNCHANGED <<open, marked>>

\* Only a signalled order is remembered,
Mark(k) ==
    /\ Signalled(k)
    /\ marked' = marked \cup {k}
    /\ UNCHANGED <<open, signals>>

\* and only a remembered one is let go.
Remove(k) ==
    /\ k \in marked
    /\ open' = open \ {k}
    /\ UNCHANGED <<signals, marked>>

Next ==
    \/ \E k \in open' : Open(k)
    \/ \E s \in signals' : Signal(s)
    \/ \E k \in marked' : Mark(k)
    \/ \E k \in open : Remove(k)

Spec == Init /\ [][Next]_<<open, signals, marked>>
=============================================================================
