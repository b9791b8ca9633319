------------------------------- MODULE Holdings -------------------------------
(***************************************************************************)
(* Portfolios, the holdings a user enters by hand, and what the list of    *)
(* holdings and the valuation of a portfolio say (features/portfolio).     *)
(*                                                                         *)
(* A position is derived from the ledger and the opening balance of an     *)
(* asset; the row entered by hand counts only while there is neither.      *)
(* A request for the positions reads the three tables side by side and     *)
(* then each derived asset by itself, while all of them may change.        *)
(***************************************************************************)
EXTENDS Integers, FiniteSets, FiniteSetsExt, Sequences, SequencesExt

CONSTANTS
  Portfolio,   \* ids of portfolios, all of one user
  HeldAsset,
  Investor,    \* requests that change holdings and portfolios
  Viewer,      \* requests for the positions of a portfolio
  Amount,      \* amounts of a holding, a trade or an opening balance
  MarketPrice,
  MaxTrades,   \* bound: ledger entries of an asset
  MaxHoldings, \* bound: ids of rows entered by hand
  MaxPriceSync,\* bound: instants of price synchronisations
  MaxChanges   \* bound: changes of the tables in a behaviour

ASSUME HoldingsAssumption ==
  /\ Amount \subseteq Nat \ {0} /\ MarketPrice \subseteq Nat \ {0}
  /\ {MaxTrades, MaxHoldings, MaxPriceSync, MaxChanges} \subseteq Nat
  /\ IsFiniteSet(HeldAsset)

NoHolding == [id |-> 0, amount |-> 0]
Unopened  == -1
Unpriced  == -1
Tables    == {"transaction", "opening", "holding"}
NoQuote   == [price |-> Unpriced, at |-> 0]
NoCall    == [kind |-> "none"]

VARIABLES
  portfolio, \* "unborn", "stored", "renamed" or "deleted"
  holding,   \* the row entered by hand, of a portfolio and an asset
  entries,     \* the ledger, in the order of occurredAt
  balance,   \* the opening balance
  quote,     \* the price of an asset and the instant of its last synchronisation
  call,      \* what a request is doing and has read
  settled,    \* history: the assets that have not changed since it began
  changes    \* bound: changes made so far

holdingVars == <<portfolio, holding, entries, balance, quote, call, settled, changes>>

Place == Portfolio \X HeldAsset

heldRows == <<portfolio, holding, entries, balance, quote>>

HoldingInit ==
  /\ portfolio \in [Portfolio -> {"unborn", "stored"}]
  /\ holding = [at \in Place |-> NoHolding]
  /\ entries   = [at \in Place |-> <<>>]
  /\ balance \in [Place -> Amount \cup {Unopened}]
  /\ \A at \in Place : portfolio[at[1]] = "unborn" => balance[at] = Unopened
  /\ quote \in [HeldAsset -> {[price |-> p, at |-> 0] : p \in MarketPrice \cup {Unpriced}}]
  /\ call    = [c \in Investor \cup Viewer |-> NoCall]
  /\ settled  = [c \in Viewer |-> {}]
  /\ changes = 0

Changed(assets) ==
  /\ changes < MaxChanges
  /\ changes' = changes + 1
  /\ settled' = [c \in Viewer |-> settled[c] \ assets]

-----------------------------------------------------------------------------
(* Portfolios *)

Alive(p) == portfolio[p] \in {"stored", "renamed"}

CreatePortfolio(p) ==
  /\ portfolio[p] = "unborn"
  /\ portfolio' = [portfolio EXCEPT ![p] = "stored"]
  /\ Changed({})
  /\ UNCHANGED <<holding, entries, balance, quote, call>>

\* The foreign keys of the three tables are NO ACTION: while a row is left the DELETE
\* fails, and the request with it. The portfolio's checkpoints, deleted afterwards,
\* have gone with it by the cascade of their own key.
DeletePortfolio(p) ==
  /\ Alive(p)
  /\ \A a \in HeldAsset : holding[<<p, a>>] = NoHolding /\ entries[<<p, a>>] = <<>> /\ balance[<<p, a>>] = Unopened
  /\ portfolio' = [portfolio EXCEPT ![p] = "deleted"]
  /\ Changed({})
  /\ UNCHANGED <<holding, entries, balance, quote, call>>

-----------------------------------------------------------------------------
(* Holdings entered by hand *)

Goes(c, state) == call' = [call EXCEPT ![c] = state]

\* Ids are never used again, not by a row and not by a request that has read one.
UnusedIds ==
  (1..MaxHoldings) \ ({holding[at].id : at \in Place}
                       \cup {call[c].id : c \in {d \in Investor : call[d].kind = "update"}})

\* CreateHoldingUseCase: the portfolio, then the row of the asset, then the insertion.
CreateHolding(c, at, amount) ==
  /\ call[c] = NoCall /\ Alive(at[1])
  /\ Goes(c, [kind |-> "create", at |-> at, amount |-> amount, step |-> "find"])
  /\ UNCHANGED <<heldRows, settled, changes>>

FindHolding(c) ==
  /\ call[c].kind = "create" /\ call[c].step = "find"
  /\ Goes(c, IF holding[call[c].at] = NoHolding THEN [call[c] EXCEPT !.step = "insert"] ELSE NoCall)
  /\ UNCHANGED <<heldRows, settled, changes>>

\* The unique index and the foreign key decide again.
InsertHolding(c) ==
  LET at == call[c].at IN
  /\ call[c].kind = "create" /\ call[c].step = "insert"
  /\ Goes(c, NoCall)
  /\ IF holding[at] = NoHolding /\ Alive(at[1])
     THEN /\ UnusedIds # {}
          /\ holding' = [holding EXCEPT ![at] = [id |-> Min(UnusedIds), amount |-> call[c].amount]]
          /\ Changed({at[2]})
     ELSE UNCHANGED <<holding, settled, changes>>
  /\ UNCHANGED <<portfolio, entries, balance, quote>>

\* UpdateHoldingUseCase and UpdatePortfolioUseCase: found, written by id, found again.
UpdateHolding(c, at, amount) ==
  /\ call[c] = NoCall /\ holding[at] # NoHolding
  /\ Goes(c, [kind |-> "update", at |-> at, id |-> holding[at].id, amount |-> amount, step |-> "write"])
  /\ UNCHANGED <<heldRows, settled, changes>>

WriteHolding(c) ==
  LET at == call[c].at IN
  /\ call[c].kind = "update" /\ call[c].step = "write"
  /\ IF holding[at].id = call[c].id
     THEN /\ holding' = [holding EXCEPT ![at] = [@ EXCEPT !.amount = call[c].amount]]
          /\ Changed({at[2]})
     ELSE UNCHANGED <<holding, settled, changes>>
  /\ Goes(c, [call[c] EXCEPT !.step = "reread"])
  /\ UNCHANGED <<portfolio, entries, balance, quote>>

UpdatePortfolio(c, p) ==
  /\ call[c] = NoCall /\ Alive(p)
  /\ Goes(c, [kind |-> "rename", portfolio |-> p, step |-> "write"])
  /\ UNCHANGED <<heldRows, settled, changes>>

WritePortfolio(c) ==
  LET p == call[c].portfolio IN
  /\ call[c].kind = "rename" /\ call[c].step = "write"
  /\ IF Alive(p)
     THEN /\ portfolio' = [portfolio EXCEPT ![p] = "renamed"]
          /\ Changed({})
     ELSE UNCHANGED <<portfolio, settled, changes>>
  /\ Goes(c, [call[c] EXCEPT !.step = "reread"])
  /\ UNCHANGED <<holding, entries, balance, quote>>

\* The answer is the row as it is by then, or that there is none.
FindUpdated(c) ==
  /\ call[c].kind \in {"update", "rename"} /\ call[c].step = "reread"
  /\ Goes(c, NoCall)
  /\ UNCHANGED <<heldRows, settled, changes>>

DeleteHolding(at) ==
  /\ holding[at] # NoHolding
  /\ holding' = [holding EXCEPT ![at] = NoHolding]
  /\ Changed({at[2]})
  /\ UNCHANGED <<portfolio, entries, balance, quote, call>>

-----------------------------------------------------------------------------
(* The ledger, the opening balances and the prices, as their own modules have them *)

RecordTrade(at, kind, amount) ==
  /\ Alive(at[1]) /\ Len(entries[at]) < MaxTrades
  /\ \E i \in 1..Len(entries[at]) + 1 :
       entries' = [entries EXCEPT ![at] = InsertAt(@, i, [kind |-> kind, amount |-> amount])]
  /\ Changed({at[2]})
  /\ UNCHANGED <<portfolio, holding, balance, quote, call>>

RemoveTrade(at) ==
  /\ \E i \in DOMAIN entries[at] : entries' = [entries EXCEPT ![at] = RemoveAt(@, i)]
  /\ Changed({at[2]})
  /\ UNCHANGED <<portfolio, holding, balance, quote, call>>

SetOpening(at, amount) ==
  /\ Alive(at[1])
  /\ balance' = [balance EXCEPT ![at] = amount]
  /\ Changed({at[2]})
  /\ UNCHANGED <<portfolio, holding, entries, quote, call>>

\* A report without a price leaves the old one and is a new instant.
SyncPrice(a) ==
  LET now == Max({quote[b].at : b \in HeldAsset}) + 1 IN
  /\ now <= MaxPriceSync
  /\ \E p \in MarketPrice \cup {quote[a].price} : quote' = [quote EXCEPT ![a] = [price |-> p, at |-> now]]
  /\ Changed({a})
  /\ UNCHANGED <<portfolio, holding, entries, balance, call>>

-----------------------------------------------------------------------------
(* The positions of a portfolio *)

\* HoldingsCalculator: a disposal takes no more than there is.
QuantityAfter(quantity, t) ==
  IF t.kind = "in" THEN quantity + t.amount ELSE quantity - Min({quantity, t.amount})

Quantity(trades, opening) ==
  FoldLeft(QuantityAfter, IF opening = Unopened THEN 0 ELSE opening, trades)

AskPositions(c, p, kind) ==
  /\ call[c] = NoCall
  /\ kind = "valuation" => Alive(p)
  /\ Goes(c, [kind |-> "positions", portfolio |-> p, left |-> Tables,
              entries |-> [a \in HeldAsset |-> <<>>], opening |-> [a \in HeldAsset |-> Unopened],
              holding |-> [a \in HeldAsset |-> NoHolding], quote |-> [a \in HeldAsset |-> NoQuote],
              fetched |-> {}])
  /\ settled' = [settled EXCEPT ![c] = HeldAsset]
  /\ UNCHANGED <<heldRows, changes>>

Asking(c) == call[c].kind = "positions"

\* The rows of the portfolio; those entered by hand come with the quote of their asset.
ReadTable(c, table) ==
  LET Of(f) == [a \in HeldAsset |-> f[<<call[c].portfolio, a>>]] IN
  /\ Asking(c) /\ table \in call[c].left
  /\ LET r == [call[c] EXCEPT !.left = @ \ {table}] IN
     \/ table = "transaction" /\ Goes(c, [r EXCEPT !.entries = Of(entries)])
     \/ table = "opening" /\ Goes(c, [r EXCEPT !.opening = Of(balance)])
     \/ table = "holding" /\ Goes(c, [r EXCEPT !.holding = Of(holding), !.quote = quote])
  /\ UNCHANGED <<heldRows, settled, changes>>

Derived(r) == {a \in HeldAsset : r.entries[a] # <<>> \/ r.opening[a] # Unopened}

\* Mutant: a row entered by hand counts beside the ledger.
AllByHand(r) == {a \in HeldAsset : r.holding[a] # NoHolding}
ByHand(r) == {a \in HeldAsset : r.holding[a] # NoHolding} \ Derived(r)

\* AssetRepository.findById, for each derived asset by itself.
FindAsset(c, a) ==
  /\ Asking(c) /\ call[c].left = {} /\ a \in Derived(call[c]) \ call[c].fetched
  /\ Goes(c, [call[c] EXCEPT !.quote = [@ EXCEPT ![a] = quote[a]], !.fetched = @ \cup {a}])
  /\ UNCHANGED <<heldRows, settled, changes>>

Item(a, amount, q) == [asset |-> a, amount |-> amount, price |-> q.price, at |-> q.at]

\* What has been sold in full is no position any more.
Items(r) ==
  {i \in {Item(a, Quantity(r.entries[a], r.opening[a]), r.quote[a]) : a \in Derived(r)}
         \cup {Item(a, r.holding[a].amount, r.quote[a]) : a \in ByHand(r)} : i.amount # 0}

Valued(r) == {i \in Items(r) : i.price # Unpriced}

TotalValue(r) == SumFunction([i \in Valued(r) |-> i.amount * i.price])

PricedAt(r) == Min({i.at : i \in Valued(r)})

ValuationStatus(r) ==
  IF Items(r) = {} THEN "EMPTY"
  ELSE IF Valued(r) = Items(r) THEN "COMPLETE"
  ELSE IF Valued(r) = {} THEN "UNAVAILABLE"
  ELSE "PARTIAL"

AnswerPositions(c) ==
  /\ Asking(c) /\ call[c].left = {} /\ call[c].fetched = Derived(call[c])
  /\ Goes(c, NoCall)
  /\ UNCHANGED <<heldRows, settled, changes>>

HoldingNext ==
  \/ \E p \in Portfolio : CreatePortfolio(p) \/ DeletePortfolio(p)
  \/ \E at \in Place : DeleteHolding(at) \/ RemoveTrade(at)
  \/ \E at \in Place, amount \in Amount :
       \/ SetOpening(at, amount)
       \/ \E kind \in {"in", "out"} : RecordTrade(at, kind, amount)
       \/ \E c \in Investor : CreateHolding(c, at, amount) \/ UpdateHolding(c, at, amount)
  \/ \E a \in HeldAsset : SyncPrice(a)
  \/ \E c \in Investor :
       \/ FindHolding(c) \/ InsertHolding(c) \/ WriteHolding(c) \/ WritePortfolio(c) \/ FindUpdated(c)
       \/ \E p \in Portfolio : UpdatePortfolio(c, p)
  \/ \E c \in Viewer :
       \/ \E p \in Portfolio, kind \in {"valuation", "list"} : AskPositions(c, p, kind)
       \/ \E table \in Tables : ReadTable(c, table)
       \/ \E a \in HeldAsset : FindAsset(c, a)
       \/ AnswerPositions(c)

HoldingSpec == HoldingInit /\ [][HoldingNext]_holdingVars

-----------------------------------------------------------------------------
(* Properties *)

HoldingTypeOK ==
  /\ portfolio \in [Portfolio -> {"unborn", "stored", "renamed", "deleted"}]
  /\ holding \in [Place -> {NoHolding} \cup [id : 1..MaxHoldings, amount : Amount]]
  /\ DOMAIN entries = Place /\ \A at \in Place : Len(entries[at]) <= MaxTrades
  /\ balance \in [Place -> Amount \cup {Unopened}]
  /\ quote \in [HeldAsset -> [price : MarketPrice \cup {Unpriced}, at : 0..MaxPriceSync]]
  /\ settled \in [Viewer -> SUBSET HeldAsset]
  /\ changes \in 0..MaxChanges

HeldNow(p, a) ==
  IF entries[<<p, a>>] = <<>> /\ balance[<<p, a>>] = Unopened THEN holding[<<p, a>>].amount
  ELSE Quantity(entries[<<p, a>>], balance[<<p, a>>])

\* A position is counted once however the tables change between the three reads; one
\* that did not change while they were read is what the tables say, at its price; and the
\* age of a valuation is never younger than a price in it (holdings.service.ts:151-248,
\* get-portfolio-valuation.use-case.ts:40-135).
PositionsSound ==
  [][\A c \in Viewer : AnswerPositions(c) =>
       LET r     == call[c]
           Of(a) == {i \in Items(r) : i.asset = a}
           kept  == {a \in settled[c] : HeldNow(r.portfolio, a) > 0}
       IN
       /\ \A i, j \in Items(r) : i.asset = j.asset => i = j
       /\ \A a \in kept : Of(a) = {Item(a, HeldNow(r.portfolio, a), quote[a])}
       /\ \A a \in settled[c] \ kept : Of(a) = {}
       /\ \A i \in Valued(r) : PricedAt(r) <= quote[i.asset].at
       /\ TotalValue(r) >= SumFunction([a \in {b \in kept : quote[b].price # Unpriced}
                                         |-> HeldNow(r.portfolio, a) * quote[a].price])
       /\ ValuationStatus(r) = "COMPLETE" => \A a \in kept : quote[a].price # Unpriced
  ]_holdingVars
=============================================================================
