------------------------------ MODULE ApiTypes ------------------------------
(***************************************************************************)
(* The types of the REST API (types.go, errors.go) as the code generated in*)
(* types_easyjson.go and errors_easyjson.go reads and writes them: the keys in*)
(* the order they are written, the kind of each, and omitempty.            *)
(***************************************************************************)
EXTENDS EasyJson

WsMsg == Obj(<<F("channel", Str), F("data", Map(Iface))>>)
ValidatorResponse == Obj(<<F("status", Str)>> \o Os(Str, <<"txHash", "error">>))
VIPTier == Obj(Fs(Str, <<"add", "cross", "ntlCutoff">>))
UserVolume == Obj(Fs(Str, <<"date", "exchange", "userAdd", "userCross">>))
Leverage == Obj(<<F("type", Str), F("value", Int64), O("rawUsd", Ptr(Str))>>)
Position == Obj(
    <<F("coin", Str), F("entryPx", Ptr(Str)), F("leverage", Leverage),
        F("liquidationPx", Ptr(Str))>>
    \o Fs(Str, <<"marginUsed", "positionValue", "returnOnEquity", "szi", "unrealizedPnl">>))
AssetPosition == Obj(<<F("position", Position), F("type", Str)>>)
MarginSummary == Obj(
    Fs(Str, <<"accountValue", "totalMarginUsed", "totalNtlPos", "totalRawUsd">>))
UserState == Obj(
    <<F("assetPositions", List(AssetPosition))>>
    \o Fs(MarginSummary, <<"crossMarginSummary", "marginSummary">>)
    \o <<F("withdrawable", Str)>>)
UserFundingHistory == Obj(
    Fs(Str, <<"user", "type">>) \o Fs(Int64, <<"startTime", "endTime">>))
MMTier == Obj(Fs(Str, <<"add", "makerFractionCutoff">>))
Tiers == Obj(<<F("mm", List(MMTier)), F("vip", List(VIPTier))>>)
FeeSchedule == Obj(Fs(Str, <<"add", "cross", "referralDiscount">>) \o <<F("tiers", Tiers)>>)
UserFees == Obj(
    <<F("activeReferralDiscount", Str), F("dailyUserVlm", List(UserVolume)),
        F("feeSchedule", FeeSchedule)>>
    \o Fs(Str, <<"userAddRate", "userCrossRate", "userSpotCrossRate", "userSpotAddRate">>))
UserActiveAssetData == Obj(
    Fs(Str, <<"user", "coin">>) \o <<F("leverage", Leverage)>>
    \o Fs(List(Str), <<"maxTradeSzs", "availableToTrade">>) \o <<F("markPx", Str)>>)
TxStatus == Obj(Fs(Str, <<"coin", "status">>))
TriggerOrderType == Obj(<<F("triggerPx", Float64), F("isMarket", Bool), F("tpsl", Str)>>)
TransferResponse == Obj(<<F("status", Str)>> \o Os(Str, <<"txHash", "error">>))
SubAccount == Obj(Fs(Str, <<"name", "user">>) \o <<F("permissions", List(Str))>>)
StakingSummary == Obj(
    Fs(Str, <<"delegated", "undelegated", "totalPendingWithdrawal">>)
    \o <<F("nPendingWithdrawals", Int64)>>)
StakingReward == Obj(<<F("time", Int64)>> \o Fs(Str, <<"source", "totalAmount">>))
StakingDelegation == Obj(
    Fs(Str, <<"validator", "amount">>) \o <<F("lockedUntilTimestamp", Int64)>>)
SpotBalance == Obj(
    <<F("coin", Str), F("token", Int64)>> \o Fs(Str, <<"hold", "total", "entryNtl">>))
SpotUserState == Obj(<<F("balances", List(SpotBalance))>>)
EvmContract == Obj(<<F("address", Str), F("evm_extra_wei_decimals", Int64)>>)
SpotTokenInfo == Obj(
    <<F("name", Str)>> \o Fs(Int64, <<"szDecimals", "weiDecimals", "index">>)
    \o <<F("tokenId", Str), F("isCanonical", Bool), F("evmContract", Ptr(EvmContract)),
        F("fullName", Ptr(Str))>>)
SpotAssetInfo == Obj(
    <<F("name", Str), F("tokens", List(Int64)), F("index", Int64), F("isCanonical", Bool)>>)
SpotMeta == Obj(<<F("universe", List(SpotAssetInfo)), F("tokens", List(SpotTokenInfo))>>)
SpotAssetCtx == Obj(
    Fs(Str, <<"dayNtlVlm", "markPx">>) \o <<F("midPx", Ptr(Str))>>
    \o Fs(Str, <<"prevDayPx", "circulatingSupply", "coin">>)
    \o <<Uncoded("dayBaseVlm", Str), Uncoded("totalSupply", Str)>>)
SpotMetaAndAssetCtxs == Obj(<<F("Meta", SpotMeta), F("Ctxs", List(SpotAssetCtx))>>)
SpotDeployResponse == Obj(<<F("status", Str)>> \o Os(Str, <<"txHash", "error">>))
SetReferrerResponse == Obj(<<F("status", Str), O("error", Str)>>)
ScheduleCancelResponse == Obj(<<F("status", Str), O("error", Str)>>)
ReferralState == Obj(
    Fs(Str, <<"referralCode", "referrer">>) \o <<F("referred", List(Str))>>)
QueriedOrder == Obj(
    Fs(Str, <<"coin", "side", "limitPx", "sz">>) \o Fs(Int64, <<"oid", "timestamp">>)
    \o <<F("triggerCondition", Str), F("isTrigger", Bool), F("triggerPx", Str)>>
    \o Fs(Bool, <<"isPositionTpsl", "reduceOnly">>)
    \o Fs(Str, <<"orderType", "origSz", "tif">>) \o <<F("cloid", Ptr(Str))>>)
PerpDexSchemaInput == Obj(
    <<F("fullName", Str), F("collateralToken", Int64), F("oracleUpdater", Ptr(Str))>>)
PerpDeployData == Obj(<<F("statuses", List(TxStatus))>>)
PerpDeployResponse == Obj(<<F("status", Str), F("data", PerpDeployData)>>)
LimitOrderType == Obj(<<F("tif", Str)>>)
OrderType == Obj(<<O("limit", Ptr(LimitOrderType)), O("trigger", Ptr(TriggerOrderType))>>)
OrderQueryResponse == Obj(
    <<F("order", QueriedOrder), F("status", Str), F("statusTimestamp", Int64)>>)
OrderQueryResult == Obj(<<F("status", Str), O("order", OrderQueryResponse)>>)
OpenOrder == Obj(
    <<F("coin", Str), F("limitPx", Float64Str), F("oid", Int64), F("side", Str),
        F("sz", Float64Str), F("timestamp", Int64)>>)
MultiSigSigner == Obj(<<F("user", Str), F("threshold", Int64)>>)
MultiSigResponse == Obj(<<F("status", Str)>> \o Os(Str, <<"txHash", "error">>))
MultiSigConversionResponse == Obj(<<F("status", Str)>> \o Os(Str, <<"txHash", "error">>))
OrderStatusResting == Obj(<<F("oid", Int64), F("cloid", Ptr(Str)), F("status", Str)>>)
OrderStatusFilled == Obj(Fs(Str, <<"totalSz", "avgPx">>) \o <<F("oid", Int64)>>)
OrderStatus == Obj(
    <<O("resting", Ptr(OrderStatusResting)), O("filled", Ptr(OrderStatusFilled)),
        O("error", Ptr(Str))>>)
ModifyResponse == Obj(<<F("status", Str), O("data", List(OrderStatus)), O("error", Str)>>)
AssetCtx == Obj(
    Fs(Str, <<"funding", "openInterest", "prevDayPx", "dayNtlVlm", "premium", "oraclePx",
        "markPx">>) \o <<O("midPx", Str), F("impactPxs", List(Str)), O("dayBaseVlm", Str)>>)
AssetInfo == Obj(
    <<F("name", Str)>> \o Fs(Int64, <<"szDecimals", "maxLeverage", "marginTableId">>)
    \o Fs(Bool, <<"onlyIsolated", "isDelisted">>))
MarginTier == Obj(<<F("lowerBound", Str), F("maxLeverage", Int64)>>)
MarginTable == Obj(
    <<F("ID", Int64), F("description", Str), F("marginTiers", List(MarginTier))>>)
MetaAndAssetCtxs == Obj(
    <<F("Ctxs", List(AssetCtx)), F("universe", List(AssetInfo)),
        F("marginTables", List(MarginTable))>>)
Meta == Obj(<<F("universe", List(AssetInfo)), F("marginTables", List(MarginTable))>>)
FundingHistory == Obj(Fs(Str, <<"coin", "fundingRate", "premium">>) \o <<F("time", Int64)>>)
FrontendOpenOrder == Obj(
    <<F("coin", Str)>> \o Fs(Bool, <<"isPositionTpsl", "isTrigger">>)
    \o <<F("limitPx", Float64Str), F("oid", Int64), F("orderType", Str),
        F("origSz", Float64Str), F("reduceOnly", Bool), F("side", Str),
        F("sz", Float64Str), F("timestamp", Int64)>>
    \o Fs(Str, <<"triggerCondition", "triggerPx">>))
Fill == Obj(
    Fs(Str, <<"closedPnl", "coin">>) \o <<F("crossed", Bool)>> \o Fs(Str, <<"dir", "hash">>)
    \o <<F("oid", Int64)>> \o Fs(Str, <<"px", "side", "startPosition", "sz">>)
    \o <<F("time", Int64)>> \o Fs(Str, <<"fee", "feeToken">>)
    \o <<O("builderFee", Str), F("tid", Int64)>>)
CreateVaultResponse == Obj(<<F("status", Str)>> \o Os(Str, <<"data", "error">>))
CreateSubAccountResponse == Obj(
    <<F("status", Str), O("data", Ptr(SubAccount)), O("error", Str)>>)
Cloid == Obj(<<F("Value", Str)>>)
CancelResponse == Obj(<<F("status", Str), O("data", Ptr(OpenOrder)), O("error", Str)>>)
CancelRequest == Obj(<<F("coin", Str), F("oid", Int64)>>)
CancelByCloidRequest == Obj(Fs(Str, <<"coin", "cloid">>))
BulkOrderResponse == Obj(
    <<F("status", Str), O("data", List(OrderStatus)), O("error", Str)>>)
BulkCancelResponse == Obj(<<F("status", Str), O("data", List(OpenOrder)), O("error", Str)>>)
BuilderInfo == Obj(<<F("b", Str), F("f", Int64)>>)
ApprovalResponse == Obj(<<F("status", Str)>> \o Os(Str, <<"txHash", "error">>))
AgentApprovalResponse == Obj(<<F("status", Str)>> \o Os(Str, <<"txHash", "error">>))
ValidationError == Obj(Fs(Str, <<"Field", "Message">>))
APIError == Obj(<<F("code", Int64), F("msg", Str), O("data", Iface)>>)

ApiKinds ==
    {WsMsg, ValidatorResponse, VIPTier, UserVolume, Leverage, Position, AssetPosition,
     MarginSummary, UserState, UserFundingHistory, MMTier, Tiers, FeeSchedule, UserFees,
     UserActiveAssetData, TxStatus, TriggerOrderType, TransferResponse, SubAccount,
     StakingSummary, StakingReward, StakingDelegation, SpotBalance, SpotUserState,
     EvmContract, SpotTokenInfo, SpotAssetInfo, SpotMeta, SpotAssetCtx,
     SpotMetaAndAssetCtxs, SpotDeployResponse, SetReferrerResponse, ScheduleCancelResponse,
     ReferralState, QueriedOrder, PerpDexSchemaInput, PerpDeployData, PerpDeployResponse,
     LimitOrderType, OrderType, OrderQueryResponse, OrderQueryResult, OpenOrder,
     MultiSigSigner, MultiSigResponse, MultiSigConversionResponse, OrderStatusResting,
     OrderStatusFilled, OrderStatus, ModifyResponse, AssetCtx, AssetInfo, MarginTier,
     MarginTable, MetaAndAssetCtxs, Meta, FundingHistory, FrontendOpenOrder, Fill,
     CreateVaultResponse, CreateSubAccountResponse, Cloid, CancelResponse, CancelRequest,
     CancelByCloidRequest, BulkOrderResponse, BulkCancelResponse, BuilderInfo,
     ApprovalResponse, AgentApprovalResponse, ValidationError, APIError}
=============================================================================
