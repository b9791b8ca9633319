------------------------------- MODULE Cooldown -------------------------------
(***************************************************************************)
(* What SET key NX EX promises of cooldowns: whoever finds no key is       *)
(* granted and leaves one that lives for the period; nobody else is, and   *)
(* nobody prolongs it.                                                     *)
(***************************************************************************)
EXTENDS Integers, Sequences

CONSTANTS Key,
          Period   \* per key

VARIABLES ttl,      \* what a key has left, 0 without it
          granted   \* per key, the ages of the grants of the last period

cooldownVars == <<ttl, granted>>

Init ==
  /\ ttl = [k \in Key |-> 0]
  /\ granted = [k \in Key |-> <<>>]

Grant(k) ==
  /\ ttl[k] = 0
  /\ ttl' = [ttl EXCEPT ![k] = Period[k]]
  /\ granted' = [granted EXCEPT ![k] = <<0>>]

\* The key is set, but whoever set it does not learn so.
Waste(k) ==
  /\ ttl[k] = 0
  /\ ttl' = [ttl EXCEPT ![k] = Period[k]]
  /\ granted' = granted

\* Time passes for all keys.
Lapse ==
  /\ ttl' = [k \in Key |-> IF ttl[k] > 0 THEN ttl[k] - 1 ELSE 0]
  /\ granted' = [k \in Key |-> IF ttl[k] > 1 /\ granted[k] # <<>>
                                 THEN <<granted[k][1] + 1>> ELSE <<>>]

Clear(keys) ==
  /\ ttl' = [k \in Key |-> IF k \in keys THEN 0 ELSE ttl[k]]
  /\ granted' = [k \in Key |-> IF k \in keys THEN <<>> ELSE granted[k]]

Next ==
  \/ \E keys \in SUBSET Key : Clear(keys)
  \/ \E k \in Key : Grant(k) \/ Waste(k)
  \/ Lapse

Spec == Init /\ [][Next]_cooldownVars
===============================================================================
