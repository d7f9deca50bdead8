------------------------ MODULE SubscriptionRegistry ------------------------
(***************************************************************************)
(* What the WebSocket pool promises the managers and the dispatcher about  *)
(* callbacks, with no connections, no network and no repairs: which        *)
(* callbacks a key has follows from the calls of Subscribe and Unsubscribe *)
(* alone.  Cancelling a handle takes back its own callback, as the design  *)
(* documents have it (docs/plans/2026-01-22-ws-optimization-design.md:637);*)
(* where the code does more, PoolManager!DropsOthers names it.             *)
(***************************************************************************)
CONSTANT Keys

VARIABLES
    callbacks,   \* key -> callbacks the dispatcher calls
    held,        \* handles <<id, key>> returned and not yet cancelled
    trying       \* the first subscription of a key under way, or NoCall

NoCall == <<>>
Used(id) == (\E k \in Keys : id \in callbacks[k]) \/ (\E h \in held : h[1] = id)

Init == callbacks = [k \in Keys |-> {}] /\ held = {} /\ trying = NoCall

\* Subscribe for a key that is subscribed.
Join(id, k) ==
    /\ trying = NoCall /\ callbacks[k] # {} /\ ~Used(id)
    /\ callbacks' = [callbacks EXCEPT ![k] = @ \cup {id}]
    /\ held' = held \cup {<<id, k>>}
    /\ UNCHANGED trying

\* Subscribe for one that is not: the callback is there before the outcome is known.
Try(id, k) ==
    /\ trying = NoCall /\ callbacks[k] = {} /\ ~Used(id)
    /\ callbacks' = [callbacks EXCEPT ![k] = {id}]
    /\ trying' = <<id, k>>
    /\ UNCHANGED held

Succeed ==
    /\ trying # NoCall
    /\ held' = held \cup {trying}
    /\ trying' = NoCall
    /\ UNCHANGED callbacks

\* A failed subscription takes its own callback back, and no other.
Fail ==
    /\ trying # NoCall
    /\ callbacks' = [callbacks EXCEPT ![trying[2]] = @ \ {trying[1]}]
    /\ trying' = NoCall
    /\ UNCHANGED held

\* The handle's own callback goes, and the key with its last one.
Cancel(h) ==
    /\ trying = NoCall
    /\ held' = held \ {h}
    /\ callbacks' = [callbacks EXCEPT ![h[2]] = @ \ {h[1]}]
    /\ UNCHANGED trying

Next ==
    \/ \E k \in Keys : \E id \in callbacks'[k] : Join(id, k) \/ Try(id, k)
    \/ Succeed \/ Fail
    \/ \E h \in held : Cancel(h)

Spec == Init /\ [][Next]_<<callbacks, held, trying>>
=============================================================================
