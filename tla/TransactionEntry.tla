--------------------------- MODULE TransactionEntry ---------------------------
(***************************************************************************)
(* One transaction of the ledger as it is entered and edited: its price is *)
(* sent in dollars or Toman and stored in dollars, beside the price as     *)
(* entered and the rate of the conversion (the create and update use cases *)
(* and TransactionPriceNormalizerService).                                 *)
(*                                                                         *)
(* An edit reads the row, may ask for the market's rate, and writes later, *)
(* so another edit can fall between.  The fee goes the way of the price    *)
(* and is left out but for the fact that it was sent.                      *)
(*                                                                         *)
(* What a column keeps is counted in its last digit, Unit of which make a  *)
(* dollar or a Toman: numeric(30,8) rounds what is written to it, so what  *)
(* the conversion gives is not yet what is stored.                         *)
(***************************************************************************)
EXTENDS Integers

CONSTANTS Editor,   \* edits that may be running at once
          Unit,         \* 10^8: the scale of the columns
          SentPrice,    \* prices of a creation (the DTO allows the column's digits)
          Patch,    \* what edits send: fields, some of them omitted
          TomanRate,\* rates the market may be at: the venues quote no finer
                    \* than the column keeps
          MaxPrice  \* bound: dollar prices

Omitted == -2
Null    == -1

TradeType    == {"BUY", "TRANSFER_IN"}
Currency     == {"USD", "TOMAN"}
Priced(type) == type = "BUY"   \* and SELL

NoTrade == [type |-> "none", price |-> Null, currency |-> "USD", entered |-> Null, rate |-> Null]

ASSUME EntryAssumption ==
  /\ Unit \in Nat \ {0}
  /\ SentPrice \subseteq Nat \ {0} /\ TomanRate \subseteq Nat \ {0} /\ MaxPrice \in Nat
  /\ Patch \subseteq [type : TradeType \cup {"omitted"}, price : Nat \cup {Null, Omitted},
                     fee : BOOLEAN, currency : Currency \cup {"omitted"}]

NoEdit == [at |-> "idle", patch |-> <<>>, existing |-> NoTrade, pricing |-> NoTrade, raced |-> FALSE]

VARIABLES
  trade,  \* the row
  edit,   \* what an edit has read and worked out; history: whether the row has
          \* been written since
  muddled \* history: the row was created with a null price, or last written by
          \* an edit that had been raced

entryVars == <<trade, edit, muddled>>

EntryInit ==
  /\ trade = NoTrade
  /\ edit = [e \in Editor |-> NoEdit]
  /\ muddled = FALSE

(***************************************************************************)
(* normalizeTransactionPrice.                                              *)
(***************************************************************************)

\* What a column makes of n parts of 1/d of its last digit: the nearest.
Column(n, d) == IF n = Null THEN Null ELSE (2 * n + d) \div (2 * d)

\* A number of digits as a number the conversions take, in 1/Unit of a digit.
Exact(price) == IF price = Null THEN Null ELSE price * Unit

\* n/d has finitely many decimals: d in lowest terms is made of twos and fives.
Finite(n, d) ==
  \E q \in 1..d : /\ (n * q) % d = 0
                 /\ \A p \in 2..q : q % p = 0 => p % 2 = 0 \/ p % 5 = 0

\* divideDecimals gives a finite quotient with all its digits, which the column
\* rounds, and cuts any other off after the digits the column keeps.
TomanToUsd(value, rate) ==
  IF value = Null THEN Null
  ELSE IF Finite(value, rate) THEN Column(value, rate) ELSE value \div rate
\* The product is exact.
UsdToToman(price, rate) == IF price = Null THEN Null ELSE price * rate

\* The row of a value that is worked out; the columns take it in.
NormalizedPrice(type, value, currency, rate) ==
  IF currency = "USD"
    THEN [type |-> type, price |-> Column(value, Unit), currency |-> currency,
          entered |-> Null, rate |-> Null]
    ELSE [type |-> type, price |-> TomanToUsd(value, rate), currency |-> currency,
          entered |-> Column(value, Unit), rate |-> rate]

\* A currency is for what has a price.
Convertible(type, currency) == currency = "TOMAN" => Priced(type)

\* The check constraints of the table, and the bound.
Storable(row) == row.price # 0 /\ row.entered # 0 /\ row.price <= MaxPrice

Race == [e \in Editor |-> [edit[e] EXCEPT !.raced = edit[e].at # "idle"]]

(***************************************************************************)
(* CreatePortfolioTransactionUseCase.                                      *)
(***************************************************************************)

\* The price of a purchase may not be left out; an explicit null passes.
Create(type, price, currency, rate) ==
  LET row == NormalizedPrice(type, Exact(IF price = Omitted THEN Null ELSE price), currency, rate) IN
  /\ trade = NoTrade
  /\ Priced(type) => price # Omitted
  /\ Convertible(type, currency) /\ Storable(row)
  /\ trade' = row
  /\ muddled' = (Priced(type) /\ price = Null)
  /\ edit' = Race

(***************************************************************************)
(* UpdatePortfolioTransactionUseCase.                                      *)
(***************************************************************************)

Or(sent, omitted, stored) == IF sent = omitted THEN stored ELSE sent

ReadExisting(e, patch) ==
  /\ edit[e].at = "idle" /\ trade # NoTrade
  /\ patch.type # "omitted" \/ patch.price # Omitted \/ patch.fee \/ patch.currency # "omitted"
  /\ Priced(Or(patch.type, "omitted", trade.type)) => Or(patch.price, Omitted, trade.price) # Null
  /\ edit' = [edit EXCEPT ![e] = [NoEdit EXCEPT !.at = "read", !.patch = patch, !.existing = trade]]
  /\ UNCHANGED <<trade, muddled>>

NewType(e)     == Or(edit[e].patch.type, "omitted", edit[e].existing.type)
NewCurrency(e) == Or(edit[e].patch.currency, "omitted", edit[e].existing.currency)
Monetary(e)    == edit[e].patch.price # Omitted \/ edit[e].patch.fee \/ edit[e].patch.currency # "omitted"

\* The price that was sent, or the one entered, or the stored one converted.
Reinterpreted(e, rate) ==
  LET existing == edit[e].existing
  IN Exact(Or(edit[e].patch.price, Omitted, Or(existing.entered, Null, existing.price)))
Carried(e, rate) ==
  LET existing == edit[e].existing IN
  IF edit[e].patch.price # Omitted THEN Exact(edit[e].patch.price)
  ELSE IF NewCurrency(e) = existing.currency THEN Exact(Or(existing.entered, Null, existing.price))
  ELSE IF NewCurrency(e) = "USD" THEN Exact(existing.price)
  ELSE UsdToToman(existing.price, rate)

\* The market's rate is asked for when it is needed; without one the edit fails.
NormalizeUpdate(e, rate) ==
  /\ edit[e].at = "read"
  /\ Monetary(e) => Convertible(NewType(e), NewCurrency(e))
  /\ edit' = [edit EXCEPT
       ![e].at = "priced", ![e].existing = NoTrade,
       ![e].pricing = IF Monetary(e)
                        THEN NormalizedPrice(NewType(e), Carried(e, rate), NewCurrency(e), rate)
                        ELSE NoTrade]
  /\ UNCHANGED <<trade, muddled>>

\* Only the columns the edit is about; the monetary ones as a set.
Updated(e) ==
  LET type == Or(edit[e].patch.type, "omitted", trade.type)
  IN IF Monetary(e) THEN [edit[e].pricing EXCEPT !.type = type] ELSE [trade EXCEPT !.type = type]

UpdateTrade(e) ==
  /\ edit[e].at = "priced"
  /\ IF trade = NoTrade THEN UNCHANGED <<trade, muddled>>
     ELSE /\ Storable(Updated(e))
          /\ trade' = Updated(e)
          /\ muddled' = edit[e].raced
  /\ edit' = [Race EXCEPT ![e] = NoEdit]

\* Refused, no rate, a constraint, or a request that is gone.
GiveUp(e) ==
  /\ edit[e].at # "idle"
  /\ edit' = [edit EXCEPT ![e] = NoEdit]
  /\ UNCHANGED <<trade, muddled>>

DeleteTrade ==
  /\ trade # NoTrade
  /\ trade' = NoTrade
  /\ edit' = Race
  /\ muddled' = FALSE

EntryNext ==
  \/ \E type \in TradeType, price \in SentPrice \cup {Null, Omitted}, currency \in Currency,
        rate \in TomanRate : Create(type, price, currency, rate)
  \/ \E e \in Editor : \/ \E patch \in Patch : ReadExisting(e, patch)
                       \/ \E rate \in TomanRate : NormalizeUpdate(e, rate)
                       \/ UpdateTrade(e) \/ GiveUp(e)
  \/ DeleteTrade

EntrySpec == EntryInit /\ [][EntryNext]_entryVars
-------------------------------------------------------------------------------
(***************************************************************************)
(* Properties.                                                             *)
(***************************************************************************)

EntryTypeOK ==
  /\ trade.type \in TradeType \cup {"none"} /\ trade.price \in {Null} \cup 1..MaxPrice
  /\ muddled \in BOOLEAN
  /\ \A e \in Editor : edit[e].at \in {"idle", "read", "priced"}

\* Whatever edits meet on a row, its columns tell one story: of a Toman price
\* and its dollars each is the other at the rate that is stored, up to what the
\* column of one of them does not keep; a dollar price has neither; and what is
\* bought has a price, which the cost basis cannot do without, but for a
\* creation with a null and edits that raced.
EntriesSound ==
  /\ IF trade.currency = "USD" THEN trade.entered = Null /\ trade.rate = Null
     ELSE /\ trade.rate # Null
          /\ \/ trade.price = TomanToUsd(Exact(trade.entered), trade.rate)
             \/ trade.entered = Column(UsdToToman(trade.price, trade.rate), Unit)
  /\ Priced(trade.type) /\ trade.price = Null => muddled

\* An edit that met no other keeps what it was not about: a price that was not
\* sent stays the same dollars when the currency is switched ("the same trade in
\* the other currency"), and the same Toman when it is not.
OnlyWhatWasSent ==
  [][\A e \in Editor :
       edit[e].at = "priced" /\ trade' # trade /\ ~edit[e].raced /\ trade' # NoTrade
         /\ edit'[e] = NoEdit =>
           /\ edit[e].patch.type = "omitted" => trade'.type = trade.type
           /\ edit[e].patch.price = Omitted =>
                IF trade.currency = "TOMAN" /\ trade'.currency = "TOMAN"
                  THEN trade'.entered = trade.entered
                  ELSE trade'.price = trade.price]_entryVars

\* The columns of a row agree with each other and with what was sent.
EntrySound == []EntriesSound /\ OnlyWhatWasSent
===============================================================================
