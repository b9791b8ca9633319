------------------------------ MODULE MCServices ------------------------------
(***************************************************************************)
(* The small services in one run, with their values.                       *)
(***************************************************************************)
EXTENDS Services, TLC

CONSTANTS v, w \* model values

\* A service that is not at work starts in one way only.
SmallInit ==
  /\ scope \in Scopes
  /\ MarketInit /\ LimitInit /\ AssetInit /\ CoinInit /\ WalletInit /\ EntryInit
  /\ PagingInit
  /\ scope # "paging" => listing = (CHOOSE l \in Listing : TRUE) /\ Shown = {}
  /\ HoldingInit
  /\ \A at \in Place : balance[at] # Unopened => scope = "holdings" /\ at[2] = "a"
  /\ \A a \in HeldAsset : quote[a].price # Unpriced => scope = "holdings" /\ a = "a"
  /\ scope # "holdings" => \A p \in Portfolio : portfolio[p] = "stored"
  /\ HistoryInit
  /\ scope # "history" => script = LoginTells
  /\ RequestInit
  /\ scope # "requests" => \A a \in Account : account[a].role = "OWNER"

SmallSpec == SmallInit /\ [][Next]_vars

(* Values. *)

Feeds  == {"toman"}
Venues == [toman |-> <<"nobitex", "wallex">>]

Bodies == {[ip |-> "a", email |-> "x", device |-> "d"], [ip |-> "b", email |-> Nothing, device |-> "d"]}
PerRule(i, e, d) == [rule \in Rule |-> CASE rule[2] = "ip" -> i [] rule[2] = "email" -> e [] OTHER -> d]
Limits  == PerRule(1, 1, 2)
Windows == PerRule(2, 2, 1)
Blocks  == PerRule(0, 2, 1)

Reads(c, quoted) == [coin |-> c, quoted |-> quoted]
Pages == {<<Malformed>>, <<Reads("a", TRUE), Reads("b", TRUE), Reads("c", TRUE)>>,
          <<Reads("c", FALSE), Reads("a", TRUE)>>}
Faults == [jobs \in 0..2 |-> IF jobs = 2 THEN 0 ELSE 2]
Lists == {{}, {"a"}, {"a", "b"}, {"b", "c"}}
Set(btc, eth) == [btc |-> btc, eth |-> eth]
Sets == {Set(Blank, Blank), Set("a", Blank), Set("b", "a")}

Only(fields) == fields @@ [type |-> "omitted", price |-> Omitted, fee |-> FALSE, currency |-> "omitted"]
Patches == {Only([currency |-> "USD"]), Only([currency |-> "TOMAN"]), Only([fee |-> TRUE]),
            Only([type |-> "BUY"]), Only([type |-> "TRANSFER_IN", price |-> Null])}

Is(r, works, held) == [role |-> r, active |-> works, holds |-> held]
Ranks == [a |-> {Is("OWNER", TRUE, {}), Is("ADMIN", TRUE, {"ROLE_CREATE"}), Is("ADMIN", FALSE, {})}]
Asks  == [left |-> {Login, Rotate}, right |-> {Logout, <<"roles", "createRole">>}]

\* The requests, workers, replicas, clients and sessions of a scope are interchangeable.
Symmetry == Permutations({v, w})

Listings == {Activities, AuditLogs, SystemLogs, Transactions, Sessions, Coins, CoinsDown, Assets,
             Alerts, Invitations, Accounts, Users}
===============================================================================
