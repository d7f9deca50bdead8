--------------------------- MODULE ExchangeMethods ---------------------------
(***************************************************************************)
(* The methods of Exchange, one line each: the action it signs and posts,   *)
(* whether it signs with the Exchange's vault (Own) or with none (Bare),    *)
(* and the type it unmarshals the answer into.                              *)
(***************************************************************************)
EXTENDS ActionTypes

Own(action, reads) ==
    [action |-> action, reads |-> reads, signs |-> "own", quotes |-> FALSE,
     result |-> "plain"]
Bare(action, reads) == [Own(action, reads) EXCEPT !.signs = "none"]
Checked(m, result) == [m EXCEPT !.result = result]
Quoted(m) == [m EXCEPT !.quotes = TRUE]

(* exchange_others.go *)
UpdateLeverage == Own(UpdateLeverageAction, UserState)
UpdateIsolatedMargin == Own(UpdateIsolatedMarginAction, UserState)
ScheduleCancel == Own(ScheduleCancelAction, ScheduleCancelResponse)
SetReferrer == Bare(SetReferrerAction, SetReferrerResponse)
CreateSubAccount == Bare(CreateSubAccountAction, CreateSubAccountResponse)
UsdClassTransfer == Own(UsdClassTransferAction, TransferResponse)
SubAccountTransfer == Bare(SubAccountTransferAction, TransferResponse)
VaultUsdTransfer == Bare(VaultUsdTransferAction, TransferResponse)
CreateVault == Bare(CreateVaultAction, CreateVaultResponse)
VaultModify == Bare(VaultModifyAction, TransferResponse)
VaultDistribute == Bare(VaultDistributeAction, TransferResponse)
UsdTransfer == Own(UsdTransferAction, TransferResponse)
SpotTransfer == Own(SpotTransferAction, TransferResponse)
UseBigBlocks == Bare(UseBigBlocksAction, ApprovalResponse)
PerpDexClassTransfer == Own(PerpDexClassTransferAction, TransferResponse)
SubAccountSpotTransfer == Own(SubAccountSpotTransferAction, TransferResponse)
TokenDelegate == Own(TokenDelegateAction, TransferResponse)
WithdrawFromBridge == Own(WithdrawFromBridgeAction, TransferResponse)
ApproveAgent == Own(ApproveAgentAction, AgentApprovalResponse)
ApproveBuilderFee == Own(ApproveBuilderFeeAction, ApprovalResponse)
ConvertToMultiSigUser == Own(ConvertToMultiSigUserAction, MultiSigConversionResponse)
SpotDeployRegisterToken == Bare(Map(Iface), SpotDeployResponse)
SpotDeployUserGenesis == Own(Map(Iface), SpotDeployResponse)
SpotDeployEnableFreezePrivilege == Own(Map(Iface), SpotDeployResponse)
SpotDeployFreezeUser == Own(Map(Iface), SpotDeployResponse)
SpotDeployRevokeFreezePrivilege == Own(Map(Iface), SpotDeployResponse)
SpotDeployGenesis == Own(Map(Iface), SpotDeployResponse)
SpotDeployRegisterSpot == Own(Map(Iface), SpotDeployResponse)
SpotDeployRegisterHyperliquidity == Own(Map(Iface), SpotDeployResponse)
SpotDeploySetDeployerTradingFeeShare == Own(Map(Iface), SpotDeployResponse)
PerpDeployRegisterAsset == Own(Map(Iface), PerpDeployResponse)
PerpDeploySetOracle == Own(Map(Iface), SpotDeployResponse)
CSignerUnjailSelf == Own(Map(Iface), ValidatorResponse)
CSignerJailSelf == Own(Map(Iface), ValidatorResponse)
CSignerInner == Own(Map(Iface), ValidatorResponse)
CValidatorRegister == Own(Map(Iface), ValidatorResponse)
CValidatorChangeProfile == Own(Map(Iface), ValidatorResponse)
CValidatorUnregister == Own(Map(Iface), ValidatorResponse)
MultiSig == Own(Map(Iface), MultiSigResponse)

(* exchange_orders.go and exchange_orders_cancel.go *)
OrderResponse == Obj(<<F("statuses", List(OrderStatus))>>)
CancelOrderResponse == Obj(<<F("statuses", List(Raw))>>)
BulkOrders == Checked(Own(OrderAction, OrderResponse), "bulkOrders")
Order == Checked(BulkOrders, "order")
ModifyOrder == Checked(Own(ModifyAction, OrderResponse), "modify")
BulkModifyOrders == Checked(Own(BatchModifyAction, OrderResponse), "modify")
MarketOpen == Quoted(Order)
MarketClose == Quoted(Order)
BulkCancel == Checked(Own(CancelAction, CancelOrderResponse), "cancel")
Cancel == BulkCancel
BulkCancelByCloids == Checked(Own(CancelByCloidAction, CancelOrderResponse), "cancel")
CancelByCloid == BulkCancelByCloids

ExchangeMethods ==
    {UpdateLeverage, UpdateIsolatedMargin, ScheduleCancel, SetReferrer, CreateSubAccount,
     UsdClassTransfer, SubAccountTransfer, VaultUsdTransfer, CreateVault, VaultModify,
     VaultDistribute, UsdTransfer, SpotTransfer, UseBigBlocks, PerpDexClassTransfer,
     SubAccountSpotTransfer, TokenDelegate, WithdrawFromBridge, ApproveAgent,
     ApproveBuilderFee, ConvertToMultiSigUser, SpotDeployRegisterToken,
     SpotDeployUserGenesis, SpotDeployEnableFreezePrivilege, SpotDeployFreezeUser,
     SpotDeployRevokeFreezePrivilege, SpotDeployGenesis, SpotDeployRegisterSpot,
     SpotDeployRegisterHyperliquidity, SpotDeploySetDeployerTradingFeeShare,
     PerpDeployRegisterAsset, PerpDeploySetOracle, CSignerUnjailSelf, CSignerJailSelf,
     CSignerInner, CValidatorRegister, CValidatorChangeProfile, CValidatorUnregister,
     MultiSig, BulkOrders, Order, ModifyOrder, BulkModifyOrders, MarketOpen, MarketClose,
     Cancel, BulkCancel, CancelByCloid, BulkCancelByCloids}

\* What Exchange distinguishes of a method.
MethodShapes ==
    {[signs |-> m.signs, quotes |-> m.quotes, result |-> m.result] : m \in ExchangeMethods}

\* The types that actions and answers of these methods are written and read as.
MethodKinds == UNION {{m.action, m.reads} : m \in ExchangeMethods}
=============================================================================
