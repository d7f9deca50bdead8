------------------------------ MODULE WsTypes -------------------------------
(***************************************************************************)
(* The messages of the websocket (ws_types.go) and the subscription requests*)
(* (ws_types_remote.go), as ws_types_easyjson.go and ws_types_remote_easyjson.go*)
(* read and write them.                                                    *)
(***************************************************************************)
EXTENDS ApiTypes

wsMessage == Obj(<<F("channel", Str), F("data", Raw)>>)
wsCommand == Obj(<<F("method", Str), O("subscription", Iface)>>)
FillLiquidation == Obj(<<O("liquidatedUser", Ptr(Str))>> \o Fs(Str, <<"markPx", "method">>))
WsOrderFill == Obj(
    Fs(Str, <<"coin", "px", "sz", "side">>) \o <<F("time", Int64)>>
    \o Fs(Str, <<"startPosition", "dir", "closedPnl", "hash">>)
    \o <<F("oid", Int64), F("crossed", Bool), F("fee", Str), F("tid", Int64),
        O("liquidation", Ptr(FillLiquidation)), F("feeToken", Str),
        O("builderFee", Ptr(Str))>>)
WsOrderFills == Obj(
    <<F("isSnapshot", Bool), F("user", Str), F("fills", List(WsOrderFill))>>)
WsBasicOrder == Obj(
    Fs(Str, <<"coin", "side", "limitPx", "sz">>) \o Fs(Int64, <<"oid", "timestamp">>)
    \o <<F("origSz", Str), F("cloid", Ptr(Str))>>)
WsOrder == Obj(<<F("order", WsBasicOrder), F("status", Str), F("statusTimestamp", Int64)>>)
WebData2MarginTier == Obj(<<O("lowerBound", Str), O("maxLeverage", Int64)>>)
WebData2MarginTable == Obj(
    <<O("description", Str), O("marginTiers", List(WebData2MarginTier))>>)
WebData2AssetInfo == Obj(
    <<O("szDecimals", Int64), O("name", Str)>>
    \o Os(Int64, <<"maxLeverage", "marginTableId">>)
    \o Os(Bool, <<"isDelisted", "onlyIsolated">>))
Trade == Obj(
    Fs(Str, <<"coin", "side", "px", "sz">>)
    \o <<F("time", Int64), F("hash", Str), F("tid", Int64), F("users", List(Str))>>)
SpotState == Obj(<<O("balances", List(SpotBalance))>>)
Notification == Obj(<<F("notification", Str)>>)
Level == Obj(<<F("n", Int64)>> \o Fs(Float64Str, <<"px", "sz">>))
L2Book == Obj(<<F("coin", Str), F("levels", List(List(Level))), F("time", Int64)>>)
ClearinghouseState == Obj(
    Os(Ptr(MarginSummary), <<"marginSummary", "crossMarginSummary">>)
    \o Os(Str, <<"crossMaintenanceMarginUsed", "withdrawable">>)
    \o <<O("assetPositions", List(AssetPosition)), O("time", Int64)>>)
Candle == Obj(
    <<F("T", Int64)>> \o Fs(Str, <<"c", "h", "i", "l">>) \o <<F("n", Int64)>>
    \o Fs(Str, <<"o", "s">>) \o <<F("t", Int64), F("v", Str)>>)
Bbo == Obj(<<F("coin", Str), F("time", Int64), F("bbo", List(Level))>>)
AllMids == Obj(<<F("mids", Map(Str))>>)
remoteWebData2SubscriptionPayload == Obj(Fs(Str, <<"type", "user">>))
remoteTradesSubscriptionPayload == Obj(Fs(Str, <<"type", "coin">>))
remoteOrderUpdatesSubscriptionPayload == Obj(Fs(Str, <<"type", "user">>))
remoteOrderFillsSubscriptionPayload == Obj(Fs(Str, <<"type", "user">>))
remoteNotificationSubscriptionPayload == Obj(Fs(Str, <<"type", "user">>))
remoteL2BookSubscriptionPayload == Obj(
    Fs(Str, <<"type", "coin">>) \o Os(Int64, <<"nSigFigs", "mantissa">>))
remoteCandlesSubscriptionPayload == Obj(Fs(Str, <<"type", "coin", "interval">>))
remoteBboSubscriptionPayload == Obj(Fs(Str, <<"type", "coin">>))
remoteAllMidsSubscriptionPayload == Obj(<<F("type", Str), O("dex", Ptr(Str))>>)

WsKinds ==
    {wsMessage, wsCommand, FillLiquidation, WsOrderFill, WsOrderFills, WsBasicOrder,
     WsOrder, WebData2MarginTier, WebData2MarginTable, WebData2AssetInfo, Trade, SpotState,
     Notification, Level, L2Book, ClearinghouseState, Candle, Bbo, AllMids,
     remoteWebData2SubscriptionPayload, remoteTradesSubscriptionPayload,
     remoteOrderUpdatesSubscriptionPayload, remoteOrderFillsSubscriptionPayload,
     remoteNotificationSubscriptionPayload, remoteL2BookSubscriptionPayload,
     remoteCandlesSubscriptionPayload, remoteBboSubscriptionPayload,
     remoteAllMidsSubscriptionPayload}
=============================================================================
