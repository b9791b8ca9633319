---------------------------- MODULE MCRegistration ----------------------------
(* Values for the constants of Registration in TLC's runs. *)
EXTENDS Registration, TLC

CONSTANTS v1, v2, r1, r2, a1

OneVerifier  == {v1}
TwoVerifiers == {v1, v2}
OneResender  == {r1}
TwoResenders == {r1, r2}
OneAdmin     == {a1}
NoOne        == {}

\* Requests of one kind differ only in their names.
RequestSymmetry == Permutations(Verifier) \cup Permutations(Resender)
=============================================================================
