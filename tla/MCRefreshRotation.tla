--------------------------- MODULE MCRefreshRotation ---------------------------
(* Values for the constants of RefreshRotation in TLC's runs. *)
EXTENDS RefreshRotation

CONSTANTS r1, r2, r3, root, none

ThreeRequests == {r1, r2, r3}
=============================================================================
