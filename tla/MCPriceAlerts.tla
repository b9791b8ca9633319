----------------------------- MODULE MCPriceAlerts -----------------------------
(* Values for the constants of PriceAlerts in TLC's runs. *)
EXTENDS PriceAlerts, TLC

CONSTANTS c1, c2, o1

TwoCheckers == {c1, c2}
OneOwner    == {o1}
Prices      == {1, 2}

Rising  == [status |-> "ACTIVE", direction |-> "SELL", target |-> 2, mode |-> "ONCE",
            expires |-> 3, last |-> NoPrice, lastAt |-> Never]
Falling == [Rising EXCEPT !.direction = "BUY", !.target = 1, !.mode = "REPEAT",
                          !.expires = Never]

SomeAlerts == {Rising, Falling}

TurnedRound == [direction |-> "BUY", target |-> 1, mode |-> "ONCE"]
SomeEdits   == {TurnedRound}

\* Instances differ only in their names.
CheckerSymmetry == Permutations(TwoCheckers)
=============================================================================
