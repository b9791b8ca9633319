-------------------------------- MODULE Routes --------------------------------
(***************************************************************************)
(* The HTTP routes: what each controller declares of its handlers, as the  *)
(* marks the guards read.                                                  *)
(*                                                                         *)
(* "write" is a method that is not safe; "public" @Public, "no csrf"       *)
(* @SkipCsrf, "limited" @RateLimit, "owner" @Roles(OWNER), and a           *)
(* permission is one of @RequirePermissions.                               *)
(***************************************************************************)
EXTENDS FiniteSets

(* The permissions, and those that only the owner has. *)

OwnerOnly ==
  {"ADMIN_READ", "ADMIN_INVITE", "ADMIN_UPDATE", "ADMIN_DELETE", "ADMIN_STATUS",
   "ROLE_ASSIGN", "ROLE_READ", "ROLE_CREATE", "ROLE_UPDATE", "ROLE_DELETE"}

Permissions ==
  OwnerOnly \cup {"USER_READ", "USER_CREATE", "USER_UPDATE", "USER_DELETE", "USER_SUSPEND",
                  "USER_UNSUSPEND", "AUDIT_READ", "SYSTEM_SETTINGS"}

(* A handler and what it declares. *)

Get           == {}
Write         == {"write"}
OpenPost      == {"write", "public", "no csrf"}
ReadsWith(p)  == {p}
WritesWith(p) == {"write", p}

\* What a class declares holds for a handler that does not declare the same.
Kinds == {{"write"}, {"public"}, {"no csrf"}, {"limited"}, {"owner"}, Permissions}
Declared(own, class) ==
  UNION {IF own \cap kind # {} THEN own \cap kind ELSE class \cap kind : kind \in Kinds}

(* The controllers. *)

AuthController ==
  [registerUser |-> OpenPost \cup {"limited"}, loginUser |-> OpenPost \cup {"limited"},
   verifyEmail |-> OpenPost \cup {"limited"}, resendVerification |-> OpenPost \cup {"limited"},
   refreshTokens |-> OpenPost \cup {"limited"}, changeUserPassword |-> Write \cup {"limited"}]

SessionsController ==
  [listSessions |-> Get, revokeSession |-> Write, terminateOtherSessions |-> Write,
   revokeOneSession |-> Write]

UsersController == [getProfile |-> Get, changeProfile |-> Write, deleteAccount |-> Write]

AdminUsersController ==
  [listUsers |-> ReadsWith("USER_READ"), getStatistics |-> ReadsWith("USER_READ"),
   getUser |-> ReadsWith("USER_READ"), suspendUser |-> WritesWith("USER_SUSPEND"),
   unsuspendUser |-> WritesWith("USER_UNSUSPEND")]

AdminAccountsController ==
  [listAdmins |-> ReadsWith("ADMIN_READ"), getSelf |-> Get, getAdmin |-> ReadsWith("ADMIN_READ"),
   deleteAdmin |-> WritesWith("ADMIN_DELETE"), updateAdmin |-> WritesWith("ADMIN_UPDATE"),
   activateAdmin |-> WritesWith("ADMIN_STATUS"), deactivateAdmin |-> WritesWith("ADMIN_STATUS"),
   suspendAdmin |-> WritesWith("ADMIN_STATUS"), unsuspendAdmin |-> WritesWith("ADMIN_STATUS"),
   grantPermissions |-> WritesWith("ROLE_ASSIGN"), revokePermissions |-> WritesWith("ROLE_ASSIGN")]

AdminInvitationsController ==
  [acceptInvitation |-> OpenPost, inviteAdmin |-> WritesWith("ADMIN_INVITE"),
   listInvitations |-> ReadsWith("ADMIN_INVITE"), revokeInvitation |-> WritesWith("ADMIN_INVITE")]

PermissionsController == [myPermissions |-> Get, listPermissions |-> ReadsWith("ADMIN_READ")]

RolesController ==
  [listRoles |-> ReadsWith("ROLE_READ"), getRole |-> ReadsWith("ROLE_READ"),
   createRole |-> WritesWith("ROLE_CREATE"), updateRole |-> WritesWith("ROLE_UPDATE"),
   deleteRole |-> WritesWith("ROLE_DELETE"), setRolePermissions |-> WritesWith("ROLE_UPDATE")]

UserRolesController ==
  [listRoles |-> ReadsWith("ROLE_READ"), assignRole |-> WritesWith("ROLE_ASSIGN"),
   unassignRole |-> WritesWith("ROLE_ASSIGN")]

LogsController == [listAuditLogs |-> Get, listSystemLogs |-> Get]

UserActivityController == [listActivity |-> Get]

AssetsController == [listAssets |-> Get, getAsset |-> Get]

AssetSyncController == [syncAssets |-> Write \cup {"owner", "limited"}]

CoinsController == [listCoins |-> Get]

PriceAlertsController ==
  [createPriceAlert |-> Write, listPriceAlerts |-> Get, updatePriceAlert |-> Write,
   cancelPriceAlert |-> Write]

WalletsController ==
  [createWallet |-> Write, listWallets |-> Get, updateWallet |-> Write, deleteWallet |-> Write]

PortfoliosController ==
  [createPortfolio |-> Write, listPortfolios |-> Get, getPortfolio |-> Get,
   updatePortfolio |-> Write, deletePortfolio |-> Write, getPortfolioValuation |-> Get]

HoldingsController ==
  [createHolding |-> Write, listHoldings |-> Get, updateHolding |-> Write,
   deleteHolding |-> Write]

PortfolioTransactionsController ==
  [createTransaction |-> Write, listTransactions |-> Get, getTransaction |-> Get,
   updateTransaction |-> Write, deleteTransaction |-> Write]

PortfolioOpeningBalancesController ==
  [setOpeningBalance |-> Write, listOpeningBalances |-> Get]

PortfolioPnlController     == [getPortfolioPnl |-> Get]
MarketOverviewController   == [getOverview |-> Get]
BitcoinMarketController    == [getBitcoin |-> Get]
EthereumMarketController   == [getEthereum |-> Get]
UsdtTomanController        == [getUsdtToman |-> Get]
MarketSentimentController  == [getFearGreed |-> Get]

Controllers ==
  [auth |-> AuthController, sessions |-> SessionsController, user |-> UsersController,
   adminUsers |-> AdminUsersController, administrators |-> AdminAccountsController,
   invitations |-> AdminInvitationsController, permissions |-> PermissionsController,
   roles |-> RolesController, userRoles |-> UserRolesController, logs |-> LogsController,
   activity |-> UserActivityController, assets |-> AssetsController,
   assetSync |-> AssetSyncController, coins |-> CoinsController,
   priceAlerts |-> PriceAlertsController, wallets |-> WalletsController,
   portfolios |-> PortfoliosController, holdings |-> HoldingsController,
   transactions |-> PortfolioTransactionsController,
   openingBalances |-> PortfolioOpeningBalancesController, pnl |-> PortfolioPnlController,
   overview |-> MarketOverviewController, bitcoin |-> BitcoinMarketController,
   ethereum |-> EthereumMarketController, toman |-> UsdtTomanController,
   sentiment |-> MarketSentimentController]

\* What the classes declare: the logs are the owner's, price alerts are limited.
OfClass(controller) ==
  CASE controller = "logs"        -> {"owner"}
    [] controller = "priceAlerts" -> {"limited"}
    [] OTHER                      -> {}

AllRoutes == UNION {{<<c, h>> : h \in DOMAIN Controllers[c]} : c \in DOMAIN Controllers}
Marks == [route \in AllRoutes |-> Declared(Controllers[route[1]][route[2]], OfClass(route[1]))]

Login  == <<"auth", "loginUser">>
Rotate == <<"auth", "refreshTokens">>
Logout == <<"sessions", "revokeSession">>
===============================================================================
