------------------------------- MODULE CostBasis -------------------------------
(***************************************************************************)
(* The portfolio calculation engine: holdings, and cost basis with         *)
(* realised profit by the strategies AVERAGE, FIFO and LIFO                *)
(* (portfolio/domain/calculation).  Pure functions of a chronological      *)
(* sequence of transactions and an opening position.                       *)
(*                                                                         *)
(* Decimals are integers: quantities in their smallest part, prices in     *)
(* theirs, costs and unit costs in Unit parts of a price's, so that the    *)
(* one inexact operation, the quotient cut off after                       *)
(* CALCULATION_DIVISION_MAX_FRACTION_DIGITS, is \div (a finite expansion    *)
(* longer than that is kept by the code and cut off here: the difference   *)
(* is less than one part).  Fees take no part in the calculation.          *)
(***************************************************************************)
EXTENDS Integers, SequencesExt

CONSTANT Unit   \* parts of the cost in the smallest part of a price

ASSUME UnitAssumption == Unit \in Nat \ {0}

Strategies == {"AVERAGE", "FIFO", "LIFO"}
Acquiring  == {"BUY", "TRANSFER_IN"}
Disposing  == {"SELL", "TRANSFER_OUT"}
Priced     == {"BUY", "SELL"}
NoPrice    == 0
Kind       == Acquiring \cup Disposing

Lot   == [quantity : Nat, unitCost : Nat]
Event == [amount : Nat, proceeds : Nat, basis : Nat]

\* The state of a calculation; lots in the order of their acquisition, the
\* realised events in the order of the sales.
Position == [quantity : Nat, cost : Nat, lots : Seq(Lot), events : Seq(Event)]

\* The calculation throws.
Failed == [quantity |-> -1, cost |-> 0, lots |-> <<>>, events |-> <<>>]

ByLots(strategy) == strategy # "AVERAGE"

-----------------------------------------------------------------------------
(* Decimals *)

Smaller(a, b) == IF a < b THEN a ELSE b

UnguardedQuotient(cost, quantity) == cost

\* divideDecimals, of a cost by a quantity.
Quotient(cost, quantity) == cost \div quantity

-----------------------------------------------------------------------------
(* Holdings *)

UnclampedDisposal(held, amount) == amount

\* clampDisposal: what exceeds the holding is ignored.
Clamped(held, amount) == Smaller(held, amount)

Moved(held, tx) ==
  IF tx.kind \in Acquiring THEN held + tx.amount ELSE held - Clamped(held, tx.amount)

\* HoldingsCalculator.calculateQuantity.
HeldAfter(opening, txs) == FoldLeft(Moved, opening, txs)

\* validateSell.
CanSell(held, amount) == held >= amount

-----------------------------------------------------------------------------
(* Lots *)

\* What consume does at one lot, as long as something remains to be consumed.
TakeFrom(rest, lot) ==
  LET consumed == Smaller(lot.quantity, rest.remaining) IN
  [remaining |-> rest.remaining - consumed,
   released  |-> rest.released + consumed * lot.unitCost,
   lots      |-> IF consumed = lot.quantity THEN rest.lots
                 ELSE Append(rest.lots, [lot EXCEPT !.quantity = @ - consumed])]

\* From the end that the strategy consumes.
FromOldest(strategy, lots) == lots
FromItsEnd(strategy, lots) == IF strategy = "LIFO" THEN Reverse(lots) ELSE lots

\* LotStore.consume: the remaining lots and the basis released.
Consumed(strategy, lots, amount) ==
  LET rest == FoldLeft(TakeFrom, [remaining |-> amount, released |-> 0, lots |-> <<>>],
                       FromItsEnd(strategy, lots))
  IN [lots |-> FromItsEnd(strategy, rest.lots), released |-> rest.released]

-----------------------------------------------------------------------------
(* The strategies *)

Acquire(strategy, s, amount, unitCost) ==
  [s EXCEPT !.quantity = @ + amount,
            !.cost     = @ + amount * unitCost,
            !.lots     = IF ByLots(strategy)
                           THEN Append(@, [quantity |-> amount, unitCost |-> unitCost]) ELSE @]

\* releaseProportionalBasis.
PooledBasis(s, amount) ==
  IF s.cost = 0 \/ amount = 0 THEN 0 ELSE amount * Quotient(s.cost, s.quantity)

Release(strategy, s, amount) ==
  IF ByLots(strategy) THEN Consumed(strategy, s.lots, amount)
  ELSE [lots |-> <<>>, released |-> PooledBasis(s, amount)]

\* AVERAGE clamps a disposal, the lots refuse one that exceeds them (assertAvailable).
Dispose(strategy, s, tx) ==
  LET amount == Clamped(s.quantity, tx.amount)
      out    == Release(strategy, s, amount)
      event  == [amount |-> amount, proceeds |-> amount * tx.price * Unit,
                 basis |-> out.released]
  IN IF ByLots(strategy) /\ tx.amount > s.quantity THEN Failed
     ELSE [quantity |-> s.quantity - amount,
           cost     |-> s.cost - out.released,
           lots     |-> out.lots,
           events   |-> IF tx.kind = "SELL" THEN Append(s.events, event) ELSE s.events]

\* One transaction; a transfer brings quantity without cost, and a purchase or sale
\* without a price is refused (requirePrice).
Applied(strategy, s, tx) ==
  IF s = Failed \/ (tx.kind \in Priced /\ tx.price = NoPrice) THEN Failed
  ELSE CASE tx.kind = "BUY"         -> Acquire(strategy, s, tx.amount, tx.price * Unit)
         [] tx.kind = "TRANSFER_IN" -> Acquire(strategy, s, tx.amount, 0)
         [] tx.kind \in Disposing   -> Dispose(strategy, s, tx)

\* The lots that a calculation starts from: those it is given, else the opening
\* position as one lot at its average cost.
OpeningLots(strategy, s) ==
  IF ~ByLots(strategy) \/ s.lots # <<>> \/ s.quantity <= 0 THEN s.lots
  ELSE <<[quantity |-> s.quantity, unitCost |-> Quotient(s.cost, s.quantity)]>>

Averaged(strategy, s) ==
  IF ~ByLots(strategy) \/ s.quantity <= 0 THEN s.lots
  ELSE <<[quantity |-> s.quantity, unitCost |-> Quotient(s.cost, s.quantity)]>>

Opened(balance) ==
  [quantity |-> balance.quantity, cost |-> balance.cost * Unit, lots |-> <<>>, events |-> <<>>]

\* PortfolioCalculationEngine.calculate, on transactions in their order.
Calculated(strategy, s, txs) ==
  FoldLeft(LAMBDA state, tx : Applied(strategy, state, tx),
           [s EXCEPT !.lots = OpeningLots(strategy, s)], txs)

-----------------------------------------------------------------------------
(* What a position says *)

Realized(s) == FoldLeft(LAMBDA sum, e : sum + e.proceeds - e.basis, 0, s.events)

\* buildPosition, at a market price.
TotalPnl(s, price) == Realized(s) + (s.quantity * price * Unit - s.cost)

-----------------------------------------------------------------------------
(* What the strategies promise, for an opening balance and a sequence of      *)
(* transactions.                                                              *)

\* No disposal exceeds what is held, and nothing that needs a price lacks it.
Acceptable(balance, txs) ==
  \A i \in DOMAIN txs :
    /\ txs[i].kind \in Priced => txs[i].price # NoPrice
    /\ txs[i].kind \in Disposing =>
         CanSell(HeldAfter(balance.quantity, SubSeq(txs, 1, i - 1)), txs[i].amount)

\* A calculation taken up again from the state at any transaction, its lots included,
\* ends as one from the beginning.
Resumable(strategy, balance, txs) ==
  \A n \in 0..Len(txs) :
    LET reached == Calculated(strategy, Opened(balance), SubSeq(txs, 1, n)) IN
    Calculated(strategy, reached, SubSeq(txs, n + 1, Len(txs)))
      = Calculated(strategy, Opened(balance), txs)

\* The quantity is the one that the holdings endpoint shows.
QuantityAgrees(strategy, balance, txs) ==
  LET s == Calculated(strategy, Opened(balance), txs) IN
  Acceptable(balance, txs) =>
    s # Failed /\ s.quantity = HeldAfter(balance.quantity, txs)

\* Reference for the lots: the units held, one by one, each with its cost.
UnitsOf(amount, cost) == [u \in 1..amount |-> cost]

UnitsAfter(strategy, units, tx) ==
  CASE tx.kind = "BUY"         -> units \o UnitsOf(tx.amount, tx.price * Unit)
    [] tx.kind = "TRANSFER_IN" -> units \o UnitsOf(tx.amount, 0)
    [] tx.kind \in Disposing  -> IF strategy = "FIFO" THEN SubSeq(units, tx.amount + 1, Len(units))
                                  ELSE SubSeq(units, 1, Len(units) - tx.amount)

UnitsHeld(strategy, balance, txs) ==
  FoldLeft(LAMBDA units, tx : UnitsAfter(strategy, units, tx),
           IF balance.quantity = 0 THEN <<>>
           ELSE UnitsOf(balance.quantity, Quotient(balance.cost * Unit, balance.quantity)), txs)

\* FIFO releases the oldest units and LIFO the newest, each at its own cost, and the
\* cost of a position is that of its units and what the first quotient cut off.
UnitsAreRight(strategy, balance, txs) ==
  LET s     == Calculated(strategy, Opened(balance), txs)
      units == FlattenSeq([i \in DOMAIN s.lots |-> UnitsOf(s.lots[i].quantity, s.lots[i].unitCost)])
      first == UnitsHeld(strategy, balance, <<>>)
      Total(seq) == FoldLeft(LAMBDA sum, u : sum + u, 0, seq)
  IN ByLots(strategy) /\ Acceptable(balance, txs) =>
       /\ units = UnitsHeld(strategy, balance, txs)
       /\ s.cost - Total(units) = balance.cost * Unit - Total(first)

\* What is made of an asset in all does not depend on the strategy, unless units leave
\* it without a sale.
ProfitAgrees(balance, txs) ==
  (\A i \in DOMAIN txs : txs[i].kind # "TRANSFER_OUT") /\ Acceptable(balance, txs) =>
    \A strategy \in Strategies, price \in 0..2 :
      TotalPnl(Calculated(strategy, Opened(balance), txs), price)
        = TotalPnl(Calculated("AVERAGE", Opened(balance), txs), price)
=============================================================================
