-------------------------------- MODULE Services --------------------------------
(***************************************************************************)
(* The small services beside the accounts and the ledger, and the path of  *)
(* a request, side by side.  They share no state: a behaviour exercises    *)
(* one of them, its scope, and leaves the others where they start.         *)
(***************************************************************************)
EXTENDS RateLimit, AssetCatalogue, CoinCatalogue, Paging, Wallets, MarketData, TransactionEntry,
        Holdings, History, RequestPath

VARIABLE scope

Scopes == {"market", "limit", "assets", "coins", "paging", "wallet", "entry", "holdings", "history",
           "requests"}

vars == <<scope, marketVars, limitVars, assetVars, coinVars, pagingVars, walletVars, entryVars,
          holdingVars, historyVars, requestVars>>

Init ==
  /\ scope \in Scopes
  /\ MarketInit /\ LimitInit /\ AssetInit /\ CoinInit /\ PagingInit /\ WalletInit /\ EntryInit
  /\ HoldingInit /\ HistoryInit /\ RequestInit

Still(s, vs) == IF scope = s THEN TRUE ELSE UNCHANGED vs

\* The others stay where they start.
Frame ==
  /\ UNCHANGED scope
  /\ Still("market", marketVars)
  /\ Still("limit", limitVars)
  /\ Still("assets", assetVars)
  /\ Still("coins", coinVars)
  /\ Still("paging", pagingVars)
  /\ Still("wallet", walletVars)
  /\ Still("entry", entryVars)
  /\ Still("holdings", holdingVars)
  /\ Still("history", historyVars)
  /\ Still("requests", requestVars)

MarketStep == scope = "market" /\ MarketNext /\ Frame
LimitStep == scope = "limit" /\ LimitNext /\ Frame
AssetStep == scope = "assets" /\ AssetNext /\ Frame
CoinStep == scope = "coins" /\ CoinNext /\ Frame
PagingStep == scope = "paging" /\ PagingNext /\ Frame
WalletStep == scope = "wallet" /\ WalletNext /\ Frame
EntryStep == scope = "entry" /\ EntryNext /\ Frame
HoldingStep == scope = "holdings" /\ HoldingNext /\ Frame
HistoryStep == scope = "history" /\ HistoryNext /\ Frame
RequestStep == scope = "requests" /\ RequestNext /\ Frame

Next ==
  \/ MarketStep \/ LimitStep \/ AssetStep \/ CoinStep \/ PagingStep \/ WalletStep \/ EntryStep
  \/ HoldingStep \/ HistoryStep \/ RequestStep

Spec == Init /\ [][Next]_vars

\* The service at work keeps its types.
TypesOK ==
  /\ scope = "market" => MarketTypeOK
  /\ scope = "limit" => LimitTypeOK
  /\ scope = "assets" => AssetTypeOK
  /\ scope = "coins" => CoinTypeOK
  /\ scope = "paging" => PagingTypeOK
  /\ scope = "wallet" => WalletTypeOK
  /\ scope = "entry" => EntryTypeOK
  /\ scope = "holdings" => HoldingTypeOK
  /\ scope = "history" => HistoryTypeOK
  /\ scope = "requests" => RequestTypeOK

\* What is let through at the door: the budgets of the limits, and the requests.
AdmissionSound == LimitsSound /\ RequestsSound
=============================================================================
