------------------------------ MODULE TokenLineage ------------------------------
(***************************************************************************)
(* What refresh-token rotation promises, without locks, rows or caches.    *)
(*                                                                         *)
(* A session owns one linear family of refresh tokens.  The newest token   *)
(* may be consumed once, which makes its successor the newest.  A request  *)
(* is admitted with the token it presents only while the session is not    *)
(* revoked, and whatever pair it is answered with is the successor of that *)
(* token: never an older generation, never a second successor.             *)
(***************************************************************************)
EXTENDS Integers

CONSTANTS Request,  \* refresh requests, each of which mints the token named after it
          Root,     \* the token login handed out
          None      \* no token

Token == Request \cup {Root}

Unborn == -1        \* generation of a token that never became part of the family

VARIABLES gen,      \* generation of every token, Unborn when it has none
          current,  \* the newest token
          revoked,  \* the session was revoked
          asked,    \* the token an admitted request presented, None before
          given     \* the refresh token a request was answered with, None before

lineageVars == <<gen, current, revoked, asked, given>>

Init ==
  /\ gen = [t \in Token |-> IF t = Root THEN 0 ELSE Unborn]
  /\ current = Root
  /\ revoked = FALSE
  /\ asked = [r \in Request |-> None]
  /\ given = [r \in Request |-> None]

\* An admitted request presents a token that is or was part of the family.
Ask(r, t) ==
  /\ ~revoked
  /\ asked[r] = None
  /\ gen[t] # Unborn
  /\ asked' = [asked EXCEPT ![r] = t]
  /\ UNCHANGED <<gen, current, revoked, given>>

\* The newest token is consumed by a request that presented it.
Consume(r) ==
  /\ asked[r] = current
  /\ gen[r] = Unborn
  /\ gen' = [gen EXCEPT ![r] = gen[current] + 1]
  /\ current' = r
  /\ UNCHANGED <<revoked, asked, given>>

\* A request is answered with the successor of the token it presented.
Answer(r, n) ==
  /\ asked[r] # None
  /\ given[r] = None
  /\ gen[n] = gen[asked[r]] + 1
  /\ given' = [given EXCEPT ![r] = n]
  /\ UNCHANGED <<gen, current, revoked, asked>>

Revoke ==
  /\ revoked' = TRUE
  /\ UNCHANGED <<gen, current, asked, given>>

Next ==
  \/ \E r \in Request : \/ \E t \in Token : Ask(r, t)
                        \/ Consume(r)
                        \/ \E n \in Token : Answer(r, n)
  \/ Revoke

Spec == Init /\ [][Next]_lineageVars
=============================================================================
