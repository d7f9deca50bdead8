-------------------------------- MODULE Codec --------------------------------
(***************************************************************************)
(* Documents between the SDK and Hyperliquid.  One side marshals a value,   *)
(* the document arrives with its keys in another order, with a key the SDK  *)
(* does not know, with a field that is null or missing, or unchanged, and   *)
(* the other side unmarshals it into a zero value of the type, as           *)
(* Client.post, the Info methods and the websocket handlers do.             *)
(***************************************************************************)
EXTENDS WsTypes, ExchangeMethods
LOCAL INSTANCE SequencesExt

\* What the Info methods unmarshal, by the name of the method.
OpenOrders          == List(OpenOrder)
FrontendOpenOrders  == List(FrontendOpenOrder)
AllMidsQuery        == Map(Str)
UserFills           == List(Fill)
UserFillsByTime     == List(Fill)
FundingHistoryQuery == List(FundingHistory)
UserFundingHistoryQuery == List(UserFundingHistory)
L2Snapshot          == L2Book
CandlesSnapshot     == List(Candle)
UserStakingSummary  == StakingSummary
UserStakingDelegations == List(StakingDelegation)
UserStakingRewards  == List(StakingReward)
QueryOrderByOid     == OrderQueryResult
QueryOrderByCloid   == OrderQueryResult
QueryReferralState  == ReferralState
QuerySubAccounts    == List(SubAccount)
QueryUserToMultiSigSigners == List(MultiSigSigner)
PerpDexs            == List(Str)
UserStateQuery      == UserState
SpotUserStateQuery  == SpotUserState
UserFeesQuery       == UserFees
UserActiveAssetDataQuery == UserActiveAssetData
SpotMetaQuery       == SpotMeta

InfoKinds ==
    {OpenOrders, FrontendOpenOrders, AllMidsQuery, UserFills, UserFillsByTime,
     FundingHistoryQuery, UserFundingHistoryQuery, L2Snapshot, CandlesSnapshot,
     UserStakingSummary, UserStakingDelegations, UserStakingRewards, QueryOrderByOid,
     QueryOrderByCloid, QueryReferralState, QuerySubAccounts, QueryUserToMultiSigSigners,
     PerpDexs, UserStateQuery, SpotUserStateQuery, UserFeesQuery,
     UserActiveAssetDataQuery, SpotMetaQuery}

-----------------------------------------------------------------------------
(* Values to send *)

\* A value with nothing empty in it.
RECURSIVE Full(_)
Full(k) ==
    CASE k.is \in Scalars -> 1
      [] k.is = "Obj" -> [key \in KeysOf(k.fields) |-> Full(FieldOf(k.fields, key).kind)]
      [] k.is = "Ptr" -> <<Full(k.of)>>
      [] k.is = "List" -> <<<<Full(k.of), Zero(k.of)>>>>
      [] k.is = "Map" -> <<[key \in {"BTC"} |-> Full(k.of)]>>
      [] k.is \in {"Iface", "Raw"} -> <<<<"number", 1>>>>

\* Zero, full, a slice or map that is empty but not nil, and a pointer to a zero value.
Variants(k) ==
    {Zero(k), Full(k)}
        \cup (IF k.is = "List" THEN {<<<<>>>>} ELSE {})
        \cup (IF k.is = "Map" THEN {<<[key \in {} |-> Full(k.of)]>>} ELSE {})
        \cup (IF k.is = "Ptr" THEN {<<Zero(k.of)>>} ELSE {})

\* The variants, and for a struct those with one field changed.
Samples(k) ==
    IF k.is = "Obj"
    THEN UNION {{[v EXCEPT ![f.key] = x] : v \in {Zero(k), Full(k)}, x \in Variants(f.kind)}
                   : f \in Range(k.fields)}
    ELSE Variants(k)

\* What arrives of a document j of kind k, and which key of it was lost, if any.
Damages(k, j) ==
    {[wire |-> j, lost |-> {}]} \cup
    (IF k.is # "Obj" THEN {} ELSE
        {[wire |-> <<"object", Reverse(j[2])>>, lost |-> {}],
         [wire |-> <<"object", <<<<"unknown", j>>>> \o j[2]>>, lost |-> {}]}
        \cup {[wire |-> <<"object", [j[2] EXCEPT ![i] = <<@[1], Null>>]>>, lost |-> {j[2][i][1]}]
                 : i \in 1 .. Len(j[2])}
        \cup {[wire |-> <<"object", SubSeq(j[2], 1, i - 1) \o SubSeq(j[2], i + 1, Len(j[2]))>>,
               lost |-> {j[2][i][1]}]
                 : i \in 1 .. Len(j[2])})

-----------------------------------------------------------------------------
VARIABLES
    stage,   \* "idle", "sent", "arrived" or "read"
    kind,    \* the type of the document
    value,   \* the value that was marshalled
    wire,    \* the document
    lost,    \* keys that were null or missing when it arrived
    out      \* the value that was unmarshalled, <<>> when the lexer reported an error

codecVars == <<stage, kind, value, wire, lost, out>>

Kinds == ApiKinds \cup WsKinds \cup ActionKinds \cup InfoKinds \cup MethodKinds

CodecInit ==
    /\ stage = "idle" /\ kind = Str /\ value = 0 /\ wire = Null /\ lost = {} /\ out = <<>>

\* MarshalJSON of a value.
Marshal(k, v) ==
    /\ stage = "idle" /\ stage' = "sent"
    /\ kind' = k /\ value' = v
    /\ wire' = Encode(k, v)
    /\ UNCHANGED <<lost, out>>

\* The document travels.
Arrive(d) ==
    /\ stage = "sent" /\ stage' = "arrived"
    /\ wire' = d.wire /\ lost' = d.lost
    /\ UNCHANGED <<kind, value, out>>

\* UnmarshalJSON into a new value.
Unmarshal ==
    /\ stage = "arrived" /\ stage' = "read"
    /\ out' = IF Accepts(kind, wire) THEN <<Decode(kind, Zero(kind), wire)>> ELSE <<>>
    /\ UNCHANGED <<kind, value, wire, lost>>

\* The caller has its value; the next document is another one.
Return ==
    /\ stage = "read" /\ stage' = "idle"
    /\ kind' = Str /\ value' = 0 /\ wire' = Null /\ lost' = {} /\ out' = <<>>

CodecNext ==
    \/ stage = "idle" /\ \E k \in Kinds : \E v \in Samples(k) : Marshal(k, v)
    \/ stage = "sent" /\ \E d \in Damages(kind, wire) : Arrive(d)
    \/ Unmarshal
    \/ Return

-----------------------------------------------------------------------------
(* Properties *)

\* The fields that are lost on the way.  SpotAssetCtx declares these two with a json tag
\* (types.go:118 and :124); neither the encoder nor the decoder in types_easyjson.go has
\* them.
NotRestored(k) == IF k = SpotAssetCtx THEN {"dayBaseVlm", "totalSupply"} ELSE {}

\* A value as it should be after a journey, these fields apart: a slice or map that
\* omitempty left out is nil.
RECURSIVE Normal(_, _)
Normal(k, v) ==
    CASE k.is \in Scalars \cup {"Iface", "Raw"} -> v
      [] k.is = "Obj" ->
            [key \in KeysOf(k.fields) |->
                LET f == FieldOf(k.fields, key)
                IN IF key \in NotRestored(k) THEN Zero(f.kind)
                   ELSE IF f.omit /\ f.kind.is \in {"List", "Map"} /\ v[key] # Nil
                           /\ DOMAIN v[key][1] = {} THEN Nil
                   ELSE Normal(f.kind, v[key])]
      [] k.is \in {"Ptr", "List", "Map"} ->
            IF v = Nil THEN Nil
            ELSE IF k.is = "Ptr" THEN <<Normal(k.of, v[1])>>
            ELSE <<[i \in DOMAIN v[1] |-> Normal(k.of, v[1][i])]>>

\* For every type of the SDK and whatever the other side does to a document short of
\* changing a value, unmarshalling succeeds and restores every field, except
\* dayBaseVlm and totalSupply of a SpotAssetCtx, which are always lost: by key, not by
\* position, past keys it does not know, keeping the difference between a pointer to zero
\* and nil, and a field that is null or missing costs that field alone.
DecodeRestores ==
    stage = "read" =>
        /\ out # <<>>
        /\ LET restored == Normal(kind, value)
           IN out[1] = IF lost = {} THEN restored
                       ELSE [key \in DOMAIN restored |->
                               IF key \in lost THEN Zero(FieldOf(kind.fields, key).kind)
                               ELSE restored[key]]

\* A document without the two fields whose msgpack and JSON forms differ.
RECURSIVE Common(_)
Common(j) ==
    CASE j[1] = "object" ->
            LET Shared(p) == p[1] \notin {"triggerPx", "builder"}
                kept == SelectSeq(j[2], Shared)
            IN <<"object", [i \in 1 .. Len(kept) |-> <<kept[i][1], Common(kept[i][2])>>]>>
      [] j[1] = "array" -> <<"array", [i \in 1 .. Len(j[2]) |-> Common(j[2][i])]>>
      [] OTHER -> j

\* An order the signature of which covers something else than what is posted is refused.
\* The packed action and the posted one have the same fields in the same order, with the
\* same ones left out, except for a trigger price and the builder, which differ.
SignedAsPosted ==
    stage = "sent" /\ kind \in {OrderAction, ModifyAction, BatchModifyAction}
        /\ (kind = OrderAction => value["builder"] = Nil)
        => Common(Encode(Packed(kind), value)) = Common(wire)
=============================================================================
