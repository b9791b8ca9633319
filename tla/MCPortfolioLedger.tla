--------------------------- MODULE MCPortfolioLedger ---------------------------
(* Values for the constants of PortfolioLedger in TLC's runs. *)
EXTENDS PortfolioLedger

CONSTANTS w1, w2, p1, p2

OneWriter  == {w1}
TwoWriters == {w1, w2}
NoReader   == {}
TwoReaders == {p1, p2}

SomeEntries == {[kind |-> "BUY", amount |-> 2, price |-> 3, at |-> 2],
                [kind |-> "SELL", amount |-> 1, price |-> 4, at |-> 1],
                [kind |-> "BUY", amount |-> 1, price |-> NoPrice, at |-> 3],
                [kind |-> "BUY", amount |-> 1, price |-> Omitted, at |-> 3]}
SomeEdits   == {[kind |-> "TRANSFER_OUT", amount |-> Keep, price |-> NoPrice, at |-> 1],
                [kind |-> "keep", amount |-> 3, price |-> Omitted, at |-> Keep]}

AnyKind     == {[kind |-> "BUY", amount |-> 1, price |-> 2, at |-> 3],
                [kind |-> "SELL", amount |-> 2, price |-> 1, at |-> 3],
                [kind |-> "TRANSFER_IN", amount |-> 2, price |-> NoPrice, at |-> 3],
                [kind |-> "TRANSFER_OUT", amount |-> 4, price |-> NoPrice, at |-> 3]}
OneOpening  == {[quantity |-> 3, cost |-> 2]}

\* P&L requests differ only in their names.
ReaderSymmetry == Permutations(Reader)
=============================================================================
