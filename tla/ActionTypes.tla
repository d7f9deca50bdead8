---------------------------- MODULE ActionTypes -----------------------------
(***************************************************************************)
(* The actions an Exchange signs and posts (actions.go): as actions_easyjson.go*)
(* writes them into the request, and as the msgpack tags say they are packed for*)
(* the signature, where the two differ.                                    *)
(***************************************************************************)
EXTENDS ApiTypes

orderWireTypeTrigger == Obj(
    <<F("triggerPx", Float64Str), F("isMarket", Bool), F("tpsl", Str)>>)
orderWireTypeLimit == Obj(<<F("tif", Str)>>)
orderWireType == Obj(
    <<O("limit", Ptr(orderWireTypeLimit)), O("trigger", Ptr(orderWireTypeTrigger))>>)
WithdrawFromBridgeAction == Obj(
    Fs(Str, <<"type", "destination", "amount">>) \o <<F("time", Int64)>>)
VaultUsdTransferAction == Obj(
    Fs(Str, <<"type", "vaultAddress">>) \o <<F("isDeposit", Bool), F("usd", Int64)>>)
VaultModifyAction == Obj(
    Fs(Str, <<"type", "vaultAddress">>)
    \o Fs(Bool, <<"allowDeposits", "alwaysCloseOnWithdraw">>))
VaultDistributeAction == Obj(Fs(Str, <<"type", "vaultAddress">>) \o <<F("usd", Int64)>>)
UseBigBlocksAction == Obj(<<F("type", Str), F("usingBigBlocks", Bool)>>)
UsdTransferAction == Obj(
    Fs(Str, <<"type", "destination", "amount">>) \o <<F("time", Int64)>>)
UsdClassTransferAction == Obj(
    Fs(Str, <<"type", "amount">>) \o <<F("toPerp", Bool), F("nonce", Int64)>>)
UpdateLeverageAction == Obj(
    <<F("type", Str), F("asset", Int64), F("isCross", Bool), F("leverage", Int64)>>)
UpdateIsolatedMarginAction == Obj(
    <<F("type", Str), F("asset", Int64), F("isBuy", Bool), F("ntli", Float64)>>)
TokenDelegateAction == Obj(
    Fs(Str, <<"type", "validator">>)
    \o <<F("wei", Int64), F("isUndelegate", Bool), F("nonce", Int64)>>)
SubAccountTransferAction == Obj(
    Fs(Str, <<"type", "subAccountUser">>) \o <<F("isDeposit", Bool), F("usd", Int64)>>)
SubAccountSpotTransferAction == Obj(
    Fs(Str, <<"type", "subAccountUser">>)
    \o <<F("isDeposit", Bool), F("token", Str), F("amount", Float64)>>)
SpotTransferAction == Obj(
    Fs(Str, <<"type", "destination", "amount", "token">>) \o <<F("time", Int64)>>)
SetReferrerAction == Obj(Fs(Str, <<"type", "code">>))
ScheduleCancelAction == Obj(<<F("type", Str), O("time", Ptr(Int64))>>)
PerpDexClassTransferAction == Obj(
    Fs(Str, <<"type", "dex", "token">>) \o <<F("amount", Float64), F("toPerp", Bool)>>)

\* Mutant of OrderWire: cloid is written without omitempty.
OrderWireKeepsCloid == Obj(
    <<F("a", Int64), F("b", Bool)>> \o Fs(Str, <<"p", "s">>)
    \o <<F("r", Bool), F("t", orderWireType), F("c", Ptr(Str))>>)

OrderWire == Obj(
    <<F("a", Int64), F("b", Bool)>> \o Fs(Str, <<"p", "s">>)
    \o <<F("r", Bool), F("t", orderWireType), O("c", Ptr(Str))>>)
OrderAction == Obj(
    <<F("type", Str), F("orders", List(OrderWire)), F("grouping", Str),
        O("builder", Ptr(BuilderInfo))>>)
MultiSigAction == Obj(
    <<F("type", Str), F("action", Map(Iface))>> \o Fs(List(Str), <<"signers", "signatures">>))
ModifyAction == Obj(<<O("type", Str), F("oid", Iface), F("order", OrderWire)>>)
CreateVaultAction == Obj(
    Fs(Str, <<"type", "name", "description">>) \o <<F("initialUsd", Int64)>>)
CreateSubAccountAction == Obj(Fs(Str, <<"type", "name">>))
ConvertToMultiSigUserAction == Obj(Fs(Str, <<"type", "signers">>) \o <<F("nonce", Int64)>>)
CancelOrderWire == Obj(Fs(Int64, <<"a", "o">>))
CancelByCloidWire == Obj(<<F("asset", Int64), F("cloid", Str)>>)
CancelByCloidAction == Obj(<<F("type", Str), F("cancels", List(CancelByCloidWire))>>)
CancelAction == Obj(<<F("type", Str), F("cancels", List(CancelOrderWire))>>)
BatchModifyAction == Obj(<<F("type", Str), F("modifies", List(ModifyAction))>>)
ApproveBuilderFeeAction == Obj(
    Fs(Str, <<"type", "builder", "maxFeeRate">>) \o <<F("nonce", Int64)>>)
ApproveAgentAction == Obj(
    Fs(Str, <<"type", "agentAddress">>) \o <<O("agentName", Ptr(Str)), F("nonce", Int64)>>)

ActionKinds ==
    {orderWireTypeTrigger, orderWireTypeLimit, orderWireType, WithdrawFromBridgeAction,
     VaultUsdTransferAction, VaultModifyAction, VaultDistributeAction, UseBigBlocksAction,
     UsdTransferAction, UsdClassTransferAction, UpdateLeverageAction,
     UpdateIsolatedMarginAction, TokenDelegateAction, SubAccountTransferAction,
     SubAccountSpotTransferAction, SpotTransferAction, SetReferrerAction,
     ScheduleCancelAction, PerpDexClassTransferAction, OrderWire, OrderAction,
     MultiSigAction, ModifyAction, CreateVaultAction, CreateSubAccountAction,
     ConvertToMultiSigUserAction, CancelOrderWire, CancelByCloidWire, CancelByCloidAction,
     CancelAction, BatchModifyAction, ApproveBuilderFeeAction, ApproveAgentAction}

-----------------------------------------------------------------------------
(* The same actions under their msgpack tags.  triggerPx is packed as a number, and
   BuilderInfo has no tags, so that its keys are the names of its fields; every other
   action has the same tags in both encodings. *)

packedBuilderInfo == Obj(<<F("Builder", Str), F("Fee", Int64)>>)
packedTrigger == Obj(<<F("triggerPx", Float64), F("isMarket", Bool), F("tpsl", Str)>>)
packedOrderType == Obj(
    <<O("limit", Ptr(orderWireTypeLimit)), O("trigger", Ptr(packedTrigger))>>)
packedOrderWire == Obj(
    <<F("a", Int64), F("b", Bool)>> \o Fs(Str, <<"p", "s">>)
    \o <<F("r", Bool), F("t", packedOrderType), O("c", Ptr(Str))>>)
packedOrderAction == Obj(
    <<F("type", Str), F("orders", List(packedOrderWire)), F("grouping", Str),
        O("builder", Ptr(packedBuilderInfo))>>)
packedModifyAction == Obj(<<O("type", Str), F("oid", Iface), F("order", packedOrderWire)>>)
packedBatchModifyAction == Obj(
    <<F("type", Str), F("modifies", List(packedModifyAction))>>)

\* What the signature covers of an action.
Packed(k) ==
    CASE k = OrderAction -> packedOrderAction
      [] k = ModifyAction -> packedModifyAction
      [] k = BatchModifyAction -> packedBatchModifyAction
      [] OTHER -> k
=============================================================================
