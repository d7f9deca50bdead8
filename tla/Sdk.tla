--------------------------------- MODULE Sdk ---------------------------------
(***************************************************************************)
(* The SDK as its users see it: the signed calls of Exchange, with the      *)
(* methods of ExchangeMethods, and the documents of Codec.  The two share   *)
(* no state, so a document is followed before the first call only: their    *)
(* steps commute, and interleaving them would add states but no outcomes.   *)
(***************************************************************************)
EXTENDS Exchange, Codec

Untouched == calls = 0 /\ lastNonce = 0 /\ expiresAfter = NoExpiry

SdkInit == Init /\ CodecInit

SdkNext ==
    \/ stage = "idle" /\ Next /\ UNCHANGED codecVars
    \/ Untouched /\ CodecNext /\ UNCHANGED vars

SdkSpec == SdkInit /\ [][SdkNext]_<<vars, codecVars>>
=============================================================================
