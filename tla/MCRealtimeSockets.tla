--------------------------- MODULE MCRealtimeSockets ---------------------------
(* Values for the constants of RealtimeSockets and LoginSessions in TLC's runs. *)
EXTENDS RealtimeSockets, TLC

CONSTANTS l1, l2, l3

TwoLogins   == {l1, l2}
ThreeLogins == {l1, l2, l3}

\* Logins differ only in their names.
LoginSymmetry == Permutations(Login)
=============================================================================
