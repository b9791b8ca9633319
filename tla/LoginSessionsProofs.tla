-------------------------- MODULE LoginSessionsProofs --------------------------
(***************************************************************************)
(* Machine-checked facts about LoginSessions, and about RealtimeSockets,   *)
(* which composes it, for any number of logins, any session limit, any     *)
(* lifetime of a session and any number of password changes.               *)
(*                                                                         *)
(* What ends with a password change or a suspension depends on the logins  *)
(* still in flight: IInv records that such a login proved the current      *)
(* password of a live account, or straddled the change (InFlightAccounted).*)
(***************************************************************************)
EXTENDS RealtimeSockets, FiniteSetTheorems, TLAPS

\* A login that has checked its credentials proved the current password of an
\* account in good standing, unless the account changed under it.
InFlightAccounted ==
  \A l \in Login : pc[l] \in {"issue", "select", "commit", "save"} /\ l \notin straddled =>
    /\ typed[l] = user.hash.password
    /\ user.status = "ACTIVATE"
    /\ ~user.deleted

\* A session row exists once its login has committed the issue transaction.
RowsFollowLogins == \A l \in Login : pc[l] \in {"idle", "issue", "select", "commit"} =>
  ~sess[l].exists /\ ~sess[l].revoked

\* The hash a login migrates is a hash of the password it submitted.
MigratesOwnPassword ==
  \A l \in Login : oldHash[l] # NoHash =>
    pc[l] # "idle" /\ oldHash[l].password = typed[l]

Holds(l) == pc[l] \in {"select", "commit"}

\* One issue transaction is open at a time; what it has to end is its own, and
\* it chooses among rows that exist and the one it inserts.
OneIssue ==
  /\ \A k, l \in Login : Holds(k) /\ Holds(l) => k = l
  /\ (\A l \in Login : ~Holds(l)) => excess = 0
  /\ (\A l \in Login : pc[l] # "commit") => chosen = {}
  /\ \A s \in chosen : sess[s].exists \/ pc[s] = "commit"

IInv ==
  /\ TypeOK
  /\ InFlightAccounted
  /\ RowsFollowLogins
  /\ MigratesOwnPassword
  /\ OneIssue
  /\ OldPasswordSessionsEnd
  /\ NoSessionWithoutAccount

\* Setting isRevoked changes nothing else of a row.
LEMMA RowUpdate ==
  ASSUME NEW row \in Row, NEW b \in BOOLEAN
  PROVE  /\ [row EXCEPT !.revoked = b] \in Row
         /\ [row EXCEPT !.revoked = b].revoked = b
         /\ [row EXCEPT !.revoked = b].exists = row.exists
         /\ [row EXCEPT !.revoked = b].expires = row.expires
         /\ [row EXCEPT !.revoked = b].lastUsed = row.lastUsed
  BY DEF Row

\* What an UPDATE ... SET isRevoked = true does to each row.
LEMMA RevokedRows ==
  ASSUME TypeOK, NEW T
  PROVE  /\ Revoked(T) \in [Login -> Row]
         /\ \A s \in Login : /\ Revoked(T)[s].exists = sess[s].exists
                             /\ Revoked(T)[s].revoked = (sess[s].revoked \/ s \in T)
                             /\ Revoked(T)[s].expires = sess[s].expires
                             /\ Revoked(T)[s].lastUsed = sess[s].lastUsed
<1>1. sess \in [Login -> Row]
  BY DEF TypeOK
<1>2. ASSUME NEW s \in Login
      PROVE  /\ Revoked(T)[s] \in Row
             /\ Revoked(T)[s].exists = sess[s].exists
             /\ Revoked(T)[s].revoked = (sess[s].revoked \/ s \in T)
             /\ Revoked(T)[s].expires = sess[s].expires
             /\ Revoked(T)[s].lastUsed = sess[s].lastUsed
  <2>1. sess[s] \in Row
    BY <1>1
  <2>2. CASE s \in T
    <3>1. Revoked(T)[s] = [sess[s] EXCEPT !.revoked = TRUE]
      BY <2>2 DEF Revoked
    <3>2. QED
      BY <2>1, <2>2, <3>1, RowUpdate
  <2>3. CASE s \notin T
    BY <2>1, <2>3 DEF Row, Revoked
  <2>4. QED
    BY <2>2, <2>3
<1>3. Revoked(T) \in [Login -> Row]
  BY <1>2 DEF Revoked
<1>4. QED
  BY <1>2, <1>3

LEMMA RevokeRowsEffect ==
  ASSUME TypeOK, NEW S, RevokeRows(S)
  PROVE  /\ sess' \in [Login -> Row]
         /\ revokedOnce' \subseteq Login
         /\ back' = back /\ moved' = moved
         /\ \A s \in Login : /\ sess'[s].exists = sess[s].exists
                             /\ sess'[s].revoked = (sess[s].revoked \/ s \in S \cap Unrevoked)
                             /\ sess'[s].expires = sess[s].expires
                             /\ sess'[s].lastUsed = sess[s].lastUsed
<1>1. sess' = Revoked(S \cap Unrevoked) /\ UNCHANGED <<back, moved>>
  BY DEF RevokeRows
<1>2. revokedOnce' \subseteq Login
  BY DEF RevokeRows, Unrevoked, TypeOK
<1>3. QED
  BY <1>1, <1>2, RevokedRows

\* What the commit of an issue transaction does to each row.
LEMMA CommitEffect ==
  ASSUME TypeOK, NEW l \in Login, Commit(l)
  PROVE  /\ sess' \in [Login -> Row]
         /\ sess'[l] = NewRow(l)
         /\ \A s \in Login \ {l} : /\ sess'[s].exists = sess[s].exists
                                   /\ sess'[s].revoked = (sess[s].revoked \/ s \in chosen)
                                   /\ sess'[s].expires = sess[s].expires
                                   /\ sess'[s].lastUsed = sess[s].lastUsed
<1>1. stamp[l] \in Clock /\ ExpiresAt(stamp[l]) \in Nat
  BY LoginAssumption DEF TypeOK, Clock, ExpiresAt
<1>2. NewRow(l) \in Row
  <2>1. (l \in chosen) \in BOOLEAN
    OBVIOUS
  <2>2. QED
    BY <1>1, <2>1 DEF NewRow, Row
<1>3. sess' = [Revoked(chosen) EXCEPT ![l] = NewRow(l)]
  BY DEF Commit
<1>4. Revoked(chosen) \in [Login -> Row]
  BY RevokedRows
<1>5. sess' \in [Login -> Row] /\ sess'[l] = NewRow(l) /\ \A s \in Login \ {l} : sess'[s] = Revoked(chosen)[s]
  BY <1>2, <1>3, <1>4
<1>6. QED
  BY <1>5, RevokedRows

\* What a rotation does to each row.
LEMMA RotatesEffect ==
  ASSUME TypeOK, NEW c \in Login, Rotates(c)
  PROVE  /\ sess' \in [Login -> Row]
         /\ \A s \in Login : /\ sess'[s].exists = sess[s].exists
                             /\ sess'[s].revoked = sess[s].revoked
         /\ \A s \in Login \ {c} : sess'[s] = sess[s]
         /\ sess'[c].lastUsed = reading[c]
<1>1. sess[c] \in Row /\ reading[c] \in Clock /\ ExpiresAt(reading[c]) \in Nat
  BY LoginAssumption DEF TypeOK, Rotates, Clock, ExpiresAt
<1> DEFINE row == [sess[c] EXCEPT !.lastUsed = reading[c], !.expires = ExpiresAt(reading[c])]
<1>2. /\ row \in Row /\ row.exists = sess[c].exists /\ row.revoked = sess[c].revoked
      /\ row.lastUsed = reading[c]
  BY <1>1 DEF Row
<1>3. sess' = [sess EXCEPT ![c] = row]
  BY DEF Rotates, TypeOK
<1> HIDE DEF row
<1>4. QED
  BY <1>2, <1>3 DEF TypeOK

\* What the late save of a login does to each row.
LEMMA SaveEffect ==
  ASSUME TypeOK, NEW l \in Login, Save(l)
  PROVE  /\ sess' \in [Login -> Row]
         /\ \A s \in Login \ {l} : sess'[s] = sess[s]
         /\ sess'[l].exists = sess[l].exists
         /\ sess'[l].revoked = FALSE
         /\ sess'[l].expires = sess[l].expires
         /\ sess'[l].lastUsed = sess[l].lastUsed
<1>1. sess[l] \in Row
  BY DEF TypeOK
<1>2. sess' = [sess EXCEPT ![l] = [sess[l] EXCEPT !.revoked = FALSE]]
  BY DEF Save, TypeOK
<1> DEFINE row == [sess[l] EXCEPT !.revoked = FALSE]
<1>3. row \in Row /\ row.exists = sess[l].exists /\ row.revoked = FALSE
      /\ row.expires = sess[l].expires /\ row.lastUsed = sess[l].lastUsed
  BY <1>1, RowUpdate
<1> HIDE DEF row
<1>4. sess' = [sess EXCEPT ![l] = row]
  BY <1>2 DEF row
<1>5. QED
  BY <1>3, <1>4 DEF TypeOK

\* The initial states satisfy the inductive invariant.
LEMMA InitIInv == Init => IInv
<1> SUFFICES ASSUME Init PROVE IInv
  OBVIOUS
<1> USE LoginAssumption DEF Init, NoRow, NoHash
<1>1. TypeOK
  <2>1. NoRow \in Row
    BY DEF Row, Clock
  <2>2. /\ 0 \in Password
        /\ user \in [status : {"ACTIVATE", "SUSPEND"}, deleted : BOOLEAN, hash : Hash]
    <3>1. 0 \in Password
      BY DEF Password
    <3>2. [password : {0}, algo : FirstAlgo] \subseteq Hash
      BY <3>1 DEF Hash
    <3>3. QED
      BY <3>1, <3>2
  <2>3. /\ sess \in [Login -> Row]
        /\ typed \in [Login -> Password]
        /\ oldHash \in [Login -> Hash \cup {NoHash}]
    BY <2>1, <2>2
  <2>4. QED
    BY <2>2, <2>3 DEF TypeOK, Clock, Label
<1>2. InFlightAccounted
  BY DEF InFlightAccounted
<1>3. RowsFollowLogins
  BY DEF RowsFollowLogins
<1>4. MigratesOwnPassword
  BY DEF MigratesOwnPassword
<1>5. OneIssue
  BY DEF OneIssue, Holds
<1>6. OldPasswordSessionsEnd
  BY DEF OldPasswordSessionsEnd, Unrevoked
<1>7. NoSessionWithoutAccount
  BY DEF NoSessionWithoutAccount, Unrevoked
<1>8. QED
  BY <1>1, <1>2, <1>3, <1>4, <1>5, <1>6, <1>7 DEF IInv

\* CheckCredentials preserves the inductive invariant.
LEMMA CheckCredentialsIInv ==
  ASSUME IInv, NEW l \in Login, NEW p \in Password, CheckCredentials(l, p)
  PROVE  IInv'
<1> USE LoginAssumption DEF IInv, NoHash, issuing, account, requests, history, CheckCredentials, Goto, SnapshotNow
<1>1. TypeOK'
  BY DEF TypeOK, Clock, Password, Hash, Label
<1>2. InFlightAccounted'
  BY DEF TypeOK, InFlightAccounted
<1>3. RowsFollowLogins'
  BY DEF TypeOK, RowsFollowLogins, OneIssue, Holds, Unrevoked
<1>4. MigratesOwnPassword'
  BY DEF TypeOK, MigratesOwnPassword
<1>5. OneIssue'
  BY DEF TypeOK, OneIssue, Holds
<1>6. OldPasswordSessionsEnd'
  BY DEF TypeOK, OldPasswordSessionsEnd, Unrevoked, InFlightAccounted, RowsFollowLogins
<1>7. NoSessionWithoutAccount'
  BY DEF TypeOK, NoSessionWithoutAccount, Unrevoked, InFlightAccounted, RowsFollowLogins
<1>8. QED
  BY <1>1, <1>2, <1>3, <1>4, <1>5, <1>6, <1>7

\* Migrate preserves the inductive invariant.
LEMMA MigrateIInv ==
  ASSUME IInv, NEW l \in Login, Migrate(l)
  PROVE  IInv'
<1> USE LoginAssumption DEF IInv, NoHash, issuing, account, requests, history, Migrate, MigrationMatches
<1>1. TypeOK'
  BY DEF TypeOK, Clock, Password, Hash, Label
<1>2. InFlightAccounted'
  BY DEF TypeOK, InFlightAccounted, MigratesOwnPassword
<1>3. RowsFollowLogins'
  BY DEF TypeOK, RowsFollowLogins, OneIssue, Holds, Unrevoked
<1>4. MigratesOwnPassword'
  BY DEF TypeOK, MigratesOwnPassword
<1>5. OneIssue'
  BY DEF TypeOK, OneIssue, Holds
<1>6. OldPasswordSessionsEnd'
  BY DEF TypeOK, OldPasswordSessionsEnd, Unrevoked, InFlightAccounted, RowsFollowLogins, MigratesOwnPassword
<1>7. NoSessionWithoutAccount'
  BY DEF TypeOK, NoSessionWithoutAccount, Unrevoked, InFlightAccounted, RowsFollowLogins, MigratesOwnPassword
<1>8. QED
  BY <1>1, <1>2, <1>3, <1>4, <1>5, <1>6, <1>7

\* Count preserves the inductive invariant.
LEMMA CountIInv ==
  ASSUME IInv, NEW l \in Login, Count(l)
  PROVE  IInv'
<1> USE LoginAssumption DEF IInv, NoHash, issuing, account, requests, history, Goto, UserLocked
<1>0. /\ pc[l] = "issue"
      /\ \A k \in Login : ~Holds(k)
      /\ \/ pc' = [pc EXCEPT ![l] = "done"] /\ excess' = excess
         \/ pc' = [pc EXCEPT ![l] = "select"] /\ excess' \in Nat
         \/ pc' = [pc EXCEPT ![l] = "commit"] /\ excess' = excess
      /\ UNCHANGED <<sess, clock, stamp, reading, chosen, account, requests, history>>
  <2>1. Cardinality(Candidates(l)) \in Nat
    BY FS_Subset, FS_CardinalityType DEF Candidates, Live, Unrevoked
  <2>2. QED
    BY <2>1 DEF Count, Holds
<1> USE <1>0
<1>1. TypeOK'
  BY DEF TypeOK, Clock, Password, Hash, Label
<1>2. InFlightAccounted'
  BY DEF TypeOK, InFlightAccounted
<1>3. RowsFollowLogins'
  BY DEF TypeOK, RowsFollowLogins, OneIssue, Holds, Unrevoked
<1>4. MigratesOwnPassword'
  BY DEF TypeOK, MigratesOwnPassword
<1>5. OneIssue'
  BY DEF TypeOK, OneIssue, Holds
<1>6. OldPasswordSessionsEnd'
  BY DEF TypeOK, OldPasswordSessionsEnd, Unrevoked, InFlightAccounted, RowsFollowLogins
<1>7. NoSessionWithoutAccount'
  BY DEF TypeOK, NoSessionWithoutAccount, Unrevoked, InFlightAccounted, RowsFollowLogins
<1>8. QED
  BY <1>1, <1>2, <1>3, <1>4, <1>5, <1>6, <1>7

\* Select preserves the inductive invariant.
LEMMA SelectIInv ==
  ASSUME IInv, NEW l \in Login, Select(l)
  PROVE  IInv'
<1> USE LoginAssumption DEF IInv, NoHash, issuing, account, requests, history, Goto
<1>0. /\ pc[l] = "select" /\ pc' = [pc EXCEPT ![l] = "commit"]
      /\ chosen' \subseteq Candidates(l) /\ chosen' \subseteq Login
      /\ UNCHANGED <<sess, clock, stamp, reading, excess, account, requests, history>>
  BY DEF Select, Candidates, Live, Unrevoked
<1> USE <1>0
<1>1. TypeOK'
  BY DEF TypeOK, Clock, Password, Hash, Label
<1>2. InFlightAccounted'
  BY DEF TypeOK, InFlightAccounted
<1>3. RowsFollowLogins'
  BY DEF TypeOK, RowsFollowLogins, OneIssue, Holds, Unrevoked
<1>4. MigratesOwnPassword'
  BY DEF TypeOK, MigratesOwnPassword
<1>5. OneIssue'
  BY DEF TypeOK, OneIssue, Holds, Candidates, Live, Unrevoked
<1>6. OldPasswordSessionsEnd'
  BY DEF TypeOK, OldPasswordSessionsEnd, Unrevoked, InFlightAccounted, RowsFollowLogins
<1>7. NoSessionWithoutAccount'
  BY DEF TypeOK, NoSessionWithoutAccount, Unrevoked, InFlightAccounted, RowsFollowLogins
<1>8. QED
  BY <1>1, <1>2, <1>3, <1>4, <1>5, <1>6, <1>7

\* Commit preserves the inductive invariant.
LEMMA CommitIInv ==
  ASSUME IInv, NEW l \in Login, Commit(l)
  PROVE  IInv'
<1> USE LoginAssumption DEF IInv, NoHash, issuing, account, requests, history, Goto, NewRow
<1>0. /\ sess' \in [Login -> Row]
      /\ sess'[l] = NewRow(l)
      /\ \A s \in Login \ {l} : /\ sess'[s].exists = sess[s].exists
                                /\ sess'[s].revoked = (sess[s].revoked \/ s \in chosen)
  BY CommitEffect
<1>u. /\ pc[l] = "commit" /\ pc' = [pc EXCEPT ![l] = "save"]
      /\ chosen' = {} /\ excess' = 0 /\ moved' = {}
      /\ revokedOnce' = revokedOnce \cup chosen
      /\ stamp' = [stamp EXCEPT ![l] = 0]
      /\ UNCHANGED <<clock, reading, back, account, requests>>
  BY DEF Commit
<1> USE <1>0, <1>u
<1>1. TypeOK'
  BY DEF TypeOK, Clock, Password, Hash, Label
<1>2. InFlightAccounted'
  BY DEF TypeOK, InFlightAccounted
<1>3. RowsFollowLogins'
  BY DEF TypeOK, RowsFollowLogins, OneIssue, Holds, Unrevoked
<1>4. MigratesOwnPassword'
  BY DEF TypeOK, MigratesOwnPassword
<1>5. OneIssue'
  BY DEF TypeOK, OneIssue, Holds
<1>6. OldPasswordSessionsEnd'
  BY DEF TypeOK, OldPasswordSessionsEnd, Unrevoked, InFlightAccounted, RowsFollowLogins
<1>7. NoSessionWithoutAccount'
  BY DEF TypeOK, NoSessionWithoutAccount, Unrevoked, InFlightAccounted, RowsFollowLogins
<1>8. QED
  BY <1>1, <1>2, <1>3, <1>4, <1>5, <1>6, <1>7

\* Save preserves the inductive invariant.
LEMMA SaveIInv ==
  ASSUME IInv, NEW l \in Login, Save(l)
  PROVE  IInv'
<1> USE LoginAssumption DEF IInv, NoHash, issuing, account, requests, history, Save, Goto
<1>0. /\ sess' \in [Login -> Row]
      /\ \A s \in Login \ {l} : sess'[s] = sess[s]
      /\ sess'[l].exists = sess[l].exists
      /\ sess'[l].revoked = FALSE
  BY SaveEffect
<1> USE <1>0
<1>1. TypeOK'
  BY DEF TypeOK, Clock, Password, Hash, Label
<1>2. InFlightAccounted'
  BY DEF TypeOK, InFlightAccounted
<1>3. RowsFollowLogins'
  BY DEF TypeOK, RowsFollowLogins, OneIssue, Holds, Unrevoked
<1>4. MigratesOwnPassword'
  BY DEF TypeOK, MigratesOwnPassword
<1>5. OneIssue'
  BY DEF TypeOK, OneIssue, Holds
<1>6. OldPasswordSessionsEnd'
  BY DEF TypeOK, OldPasswordSessionsEnd, Unrevoked, InFlightAccounted, RowsFollowLogins
<1>7. NoSessionWithoutAccount'
  BY DEF TypeOK, NoSessionWithoutAccount, Unrevoked, InFlightAccounted, RowsFollowLogins
<1>8. QED
  BY <1>1, <1>2, <1>3, <1>4, <1>5, <1>6, <1>7

\* ResetLimit preserves the inductive invariant.
LEMMA ResetLimitIInv ==
  ASSUME IInv, NEW l \in Login, ResetLimit(l)
  PROVE  IInv'
<1> USE LoginAssumption DEF IInv, NoHash, issuing, account, requests, history, ResetLimit, Goto
<1>1. TypeOK'
  BY DEF TypeOK, Clock, Password, Hash, Label
<1>2. InFlightAccounted'
  BY DEF TypeOK, InFlightAccounted
<1>3. RowsFollowLogins'
  BY DEF TypeOK, RowsFollowLogins, OneIssue, Holds, Unrevoked
<1>4. MigratesOwnPassword'
  BY DEF TypeOK, MigratesOwnPassword
<1>5. OneIssue'
  BY DEF TypeOK, OneIssue, Holds
<1>6. OldPasswordSessionsEnd'
  BY DEF TypeOK, OldPasswordSessionsEnd, Unrevoked, InFlightAccounted, RowsFollowLogins
<1>7. NoSessionWithoutAccount'
  BY DEF TypeOK, NoSessionWithoutAccount, Unrevoked, InFlightAccounted, RowsFollowLogins
<1>8. QED
  BY <1>1, <1>2, <1>3, <1>4, <1>5, <1>6, <1>7

\* Authenticate preserves the inductive invariant.
LEMMA AuthenticateIInv ==
  ASSUME IInv, NEW s \in Login, Authenticate(s)
  PROVE  IInv'
<1> USE LoginAssumption DEF IInv, NoHash, issuing, account, requests, history, Authenticate
<1>1. TypeOK'
  BY DEF TypeOK, Clock, Password, Hash, Label
<1>2. InFlightAccounted'
  BY DEF TypeOK, InFlightAccounted
<1>3. RowsFollowLogins'
  BY DEF TypeOK, RowsFollowLogins, OneIssue, Holds, Unrevoked
<1>4. MigratesOwnPassword'
  BY DEF TypeOK, MigratesOwnPassword
<1>5. OneIssue'
  BY DEF TypeOK, OneIssue, Holds
<1>6. OldPasswordSessionsEnd'
  BY DEF TypeOK, OldPasswordSessionsEnd, Unrevoked, InFlightAccounted, RowsFollowLogins
<1>7. NoSessionWithoutAccount'
  BY DEF TypeOK, NoSessionWithoutAccount, Unrevoked, InFlightAccounted, RowsFollowLogins
<1>8. QED
  BY <1>1, <1>2, <1>3, <1>4, <1>5, <1>6, <1>7

\* Refuse preserves the inductive invariant.
LEMMA RefuseIInv ==
  ASSUME IInv, NEW s \in Login, Refuse(s)
  PROVE  IInv'
<1> USE LoginAssumption DEF IInv, NoHash, issuing, account, requests, history, Refuse, EndRequest, Quiet
<1>1. TypeOK'
  BY DEF TypeOK, Clock, Password, Hash, Label
<1>2. InFlightAccounted'
  BY DEF TypeOK, InFlightAccounted
<1>3. RowsFollowLogins'
  BY DEF TypeOK, RowsFollowLogins, OneIssue, Holds, Unrevoked
<1>4. MigratesOwnPassword'
  BY DEF TypeOK, MigratesOwnPassword
<1>5. OneIssue'
  BY DEF TypeOK, OneIssue, Holds
<1>6. OldPasswordSessionsEnd'
  BY DEF TypeOK, OldPasswordSessionsEnd, Unrevoked, InFlightAccounted, RowsFollowLogins
<1>7. NoSessionWithoutAccount'
  BY DEF TypeOK, NoSessionWithoutAccount, Unrevoked, InFlightAccounted, RowsFollowLogins
<1>8. QED
  BY <1>1, <1>2, <1>3, <1>4, <1>5, <1>6, <1>7

\* Logout preserves the inductive invariant.
LEMMA LogoutIInv ==
  ASSUME IInv, NEW s \in Login, Logout(s)
  PROVE  IInv'
<1> USE LoginAssumption DEF IInv, NoHash, issuing, account, requests, history, Logout, EndRequest, Quiet
<1>0. /\ sess' \in [Login -> Row]
      /\ revokedOnce' \subseteq Login
      /\ back' = back /\ moved' = moved
      /\ \A x \in Login : /\ sess'[x].exists = sess[x].exists
                          /\ sess'[x].revoked = (sess[x].revoked \/ x \in {s} \cap Unrevoked)
  <2>1. RevokeRows({s})
    BY DEF Logout
  <2>2. QED
    BY <2>1, RevokeRowsEffect
<1> USE <1>0
<1>1. TypeOK'
  BY DEF TypeOK, Clock, Password, Hash, Label
<1>2. InFlightAccounted'
  BY DEF TypeOK, InFlightAccounted
<1>3. RowsFollowLogins'
  BY DEF TypeOK, RowsFollowLogins, OneIssue, Holds, Unrevoked
<1>4. MigratesOwnPassword'
  BY DEF TypeOK, MigratesOwnPassword
<1>5. OneIssue'
  BY DEF TypeOK, OneIssue, Holds
<1>6. OldPasswordSessionsEnd'
  BY DEF TypeOK, OldPasswordSessionsEnd, Unrevoked, InFlightAccounted, RowsFollowLogins
<1>7. NoSessionWithoutAccount'
  BY DEF TypeOK, NoSessionWithoutAccount, Unrevoked, InFlightAccounted, RowsFollowLogins
<1>8. QED
  BY <1>1, <1>2, <1>3, <1>4, <1>5, <1>6, <1>7

\* RevokeOwned preserves the inductive invariant.
LEMMA RevokeOwnedIInv ==
  ASSUME IInv, NEW s \in Login, NEW target \in Login, RevokeOwned(s, target)
  PROVE  IInv'
<1> USE LoginAssumption DEF IInv, NoHash, issuing, account, requests, history, RevokeOwned, EndRequest, Quiet
<1>0. /\ sess' \in [Login -> Row]
      /\ revokedOnce' \subseteq Login
      /\ back' = back /\ moved' = moved
      /\ \A x \in Login : /\ sess'[x].exists = sess[x].exists
                          /\ sess'[x].revoked = (sess[x].revoked \/ x \in {target} \cap Unrevoked)
  <2>1. RevokeRows({target})
    BY DEF RevokeOwned
  <2>2. QED
    BY <2>1, RevokeRowsEffect
<1> USE <1>0
<1>1. TypeOK'
  BY DEF TypeOK, Clock, Password, Hash, Label
<1>2. InFlightAccounted'
  BY DEF TypeOK, InFlightAccounted
<1>3. RowsFollowLogins'
  BY DEF TypeOK, RowsFollowLogins, OneIssue, Holds, Unrevoked
<1>4. MigratesOwnPassword'
  BY DEF TypeOK, MigratesOwnPassword
<1>5. OneIssue'
  BY DEF TypeOK, OneIssue, Holds
<1>6. OldPasswordSessionsEnd'
  BY DEF TypeOK, OldPasswordSessionsEnd, Unrevoked, InFlightAccounted, RowsFollowLogins
<1>7. NoSessionWithoutAccount'
  BY DEF TypeOK, NoSessionWithoutAccount, Unrevoked, InFlightAccounted, RowsFollowLogins
<1>8. QED
  BY <1>1, <1>2, <1>3, <1>4, <1>5, <1>6, <1>7

\* TerminateOthers preserves the inductive invariant.
LEMMA TerminateOthersIInv ==
  ASSUME IInv, NEW s \in Login, TerminateOthers(s)
  PROVE  IInv'
<1> USE LoginAssumption DEF IInv, NoHash, issuing, account, requests, history, TerminateOthers, EndRequest, Quiet, Others
<1>0. /\ sess' \in [Login -> Row]
      /\ revokedOnce' \subseteq Login
      /\ back' = back /\ moved' = moved
      /\ \A x \in Login : /\ sess'[x].exists = sess[x].exists
                          /\ sess'[x].revoked = (sess[x].revoked \/ x \in Others(s) \cap Unrevoked)
  <2>1. RevokeRows(Others(s))
    BY DEF TerminateOthers
  <2>2. QED
    BY <2>1, RevokeRowsEffect
<1> USE <1>0
<1>1. TypeOK'
  BY DEF TypeOK, Clock, Password, Hash, Label
<1>2. InFlightAccounted'
  BY DEF TypeOK, InFlightAccounted
<1>3. RowsFollowLogins'
  BY DEF TypeOK, RowsFollowLogins, OneIssue, Holds, Unrevoked
<1>4. MigratesOwnPassword'
  BY DEF TypeOK, MigratesOwnPassword
<1>5. OneIssue'
  BY DEF TypeOK, OneIssue, Holds
<1>6. OldPasswordSessionsEnd'
  BY DEF TypeOK, OldPasswordSessionsEnd, Unrevoked, InFlightAccounted, RowsFollowLogins
<1>7. NoSessionWithoutAccount'
  BY DEF TypeOK, NoSessionWithoutAccount, Unrevoked, InFlightAccounted, RowsFollowLogins
<1>8. QED
  BY <1>1, <1>2, <1>3, <1>4, <1>5, <1>6, <1>7

\* ChangePassword preserves the inductive invariant.
LEMMA ChangePasswordIInv ==
  ASSUME IInv, NEW s \in Login, ChangePassword(s)
  PROVE  IInv'
<1> USE LoginAssumption DEF IInv, NoHash, issuing, account, requests, history, ChangePassword, EndRequest, Quiet, Others, InFlight
<1>0. /\ sess' \in [Login -> Row]
      /\ revokedOnce' \subseteq Login
      /\ back' = back /\ moved' = moved
      /\ \A x \in Login : /\ sess'[x].exists = sess[x].exists
                          /\ sess'[x].revoked = (sess[x].revoked \/ x \in Others(s) \cap Unrevoked)
  <2>1. RevokeRows(Others(s))
    BY DEF ChangePassword
  <2>2. QED
    BY <2>1, RevokeRowsEffect
<1> USE <1>0
<1>1. TypeOK'
  <2>1. user' \in [status : {"ACTIVATE", "SUSPEND"}, deleted : BOOLEAN, hash : Hash]
    <3>1. [password |-> user.hash.password + 1, algo |-> Argon] \in Hash
      BY DEF TypeOK, Hash, Password, Changes
    <3>2. QED
      BY <3>1 DEF TypeOK
  <2>2. cutter' \subseteq Login /\ straddled' \subseteq Login
    BY DEF TypeOK
  <2>3. request' \subseteq Login
    BY DEF TypeOK
  <2>4. QED
    BY <2>1, <2>2, <2>3 DEF TypeOK
<1>2. InFlightAccounted'
  BY DEF TypeOK, InFlightAccounted
<1>3. RowsFollowLogins'
  BY DEF TypeOK, RowsFollowLogins, OneIssue, Holds, Unrevoked
<1>4. MigratesOwnPassword'
  BY DEF TypeOK, MigratesOwnPassword
<1>5. OneIssue'
  BY DEF TypeOK, OneIssue, Holds
<1>6. OldPasswordSessionsEnd'
  BY DEF TypeOK, OldPasswordSessionsEnd, Unrevoked, InFlightAccounted, RowsFollowLogins
<1>7. NoSessionWithoutAccount'
  BY DEF TypeOK, NoSessionWithoutAccount, Unrevoked, InFlightAccounted, RowsFollowLogins
<1>8. QED
  BY <1>1, <1>2, <1>3, <1>4, <1>5, <1>6, <1>7

\* RefreshReads preserves the inductive invariant.
LEMMA RefreshReadsIInv ==
  ASSUME IInv, NEW s \in Login, RefreshReads(s)
  PROVE  IInv'
<1> USE LoginAssumption DEF IInv, NoHash, issuing, account, requests, history, RefreshReads
<1>1. TypeOK'
  BY DEF TypeOK, Clock, Password, Hash, Label
<1>2. InFlightAccounted'
  BY DEF TypeOK, InFlightAccounted
<1>3. RowsFollowLogins'
  BY DEF TypeOK, RowsFollowLogins, OneIssue, Holds, Unrevoked
<1>4. MigratesOwnPassword'
  BY DEF TypeOK, MigratesOwnPassword
<1>5. OneIssue'
  BY DEF TypeOK, OneIssue, Holds
<1>6. OldPasswordSessionsEnd'
  BY DEF TypeOK, OldPasswordSessionsEnd, Unrevoked, InFlightAccounted, RowsFollowLogins
<1>7. NoSessionWithoutAccount'
  BY DEF TypeOK, NoSessionWithoutAccount, Unrevoked, InFlightAccounted, RowsFollowLogins
<1>8. QED
  BY <1>1, <1>2, <1>3, <1>4, <1>5, <1>6, <1>7

\* Rotates preserves the inductive invariant.
LEMMA RotatesIInv ==
  ASSUME IInv, NEW s \in Login, Rotates(s)
  PROVE  IInv'
<1> USE LoginAssumption DEF IInv, NoHash, issuing, account, requests, history, Rotates
<1>0. /\ sess' \in [Login -> Row]
      /\ \A x \in Login : /\ sess'[x].exists = sess[x].exists
                          /\ sess'[x].revoked = sess[x].revoked
  BY RotatesEffect
<1> USE <1>0
<1>1. TypeOK'
  BY DEF TypeOK, Clock, Password, Hash, Label
<1>2. InFlightAccounted'
  BY DEF TypeOK, InFlightAccounted
<1>3. RowsFollowLogins'
  BY DEF TypeOK, RowsFollowLogins, OneIssue, Holds, Unrevoked
<1>4. MigratesOwnPassword'
  BY DEF TypeOK, MigratesOwnPassword
<1>5. OneIssue'
  BY DEF TypeOK, OneIssue, Holds
<1>6. OldPasswordSessionsEnd'
  BY DEF TypeOK, OldPasswordSessionsEnd, Unrevoked, InFlightAccounted, RowsFollowLogins
<1>7. NoSessionWithoutAccount'
  BY DEF TypeOK, NoSessionWithoutAccount, Unrevoked, InFlightAccounted, RowsFollowLogins
<1>8. QED
  BY <1>1, <1>2, <1>3, <1>4, <1>5, <1>6, <1>7

\* RevokesReused preserves the inductive invariant.
LEMMA RevokesReusedIInv ==
  ASSUME IInv, NEW s \in Login, RevokesReused(s)
  PROVE  IInv'
<1> USE LoginAssumption DEF IInv, NoHash, issuing, account, requests, history, RevokesReused
<1>0. /\ sess' \in [Login -> Row]
      /\ revokedOnce' \subseteq Login
      /\ back' = back /\ moved' = moved
      /\ \A x \in Login : /\ sess'[x].exists = sess[x].exists
                          /\ sess'[x].revoked = (sess[x].revoked \/ x \in {s} \cap Unrevoked)
  <2>1. RevokeRows({s})
    BY DEF RevokesReused
  <2>2. QED
    BY <2>1, RevokeRowsEffect
<1> USE <1>0
<1>1. TypeOK'
  BY DEF TypeOK, Clock, Password, Hash, Label
<1>2. InFlightAccounted'
  BY DEF TypeOK, InFlightAccounted
<1>3. RowsFollowLogins'
  BY DEF TypeOK, RowsFollowLogins, OneIssue, Holds, Unrevoked
<1>4. MigratesOwnPassword'
  BY DEF TypeOK, MigratesOwnPassword
<1>5. OneIssue'
  BY DEF TypeOK, OneIssue, Holds
<1>6. OldPasswordSessionsEnd'
  BY DEF TypeOK, OldPasswordSessionsEnd, Unrevoked, InFlightAccounted, RowsFollowLogins
<1>7. NoSessionWithoutAccount'
  BY DEF TypeOK, NoSessionWithoutAccount, Unrevoked, InFlightAccounted, RowsFollowLogins
<1>8. QED
  BY <1>1, <1>2, <1>3, <1>4, <1>5, <1>6, <1>7

\* Suspend preserves the inductive invariant.
LEMMA SuspendIInv ==
  ASSUME IInv, Suspend
  PROVE  IInv'
<1> USE LoginAssumption DEF IInv, NoHash, issuing, account, requests, history, Suspend, Quiet, RevokedWithAccount, InFlight
<1>0. /\ sess' \in [Login -> Row]
      /\ revokedOnce' \subseteq Login
      /\ back' = back /\ moved' = moved
      /\ \A x \in Login : /\ sess'[x].exists = sess[x].exists
                          /\ sess'[x].revoked = (sess[x].revoked \/ x \in RevokedWithAccount \cap Unrevoked)
  <2>1. RevokeRows(RevokedWithAccount)
    BY DEF Suspend
  <2>2. QED
    BY <2>1, RevokeRowsEffect
<1> USE <1>0
<1>1. TypeOK'
  BY DEF TypeOK, Clock, Password, Hash, Label
<1>2. InFlightAccounted'
  BY DEF TypeOK, InFlightAccounted
<1>3. RowsFollowLogins'
  BY DEF TypeOK, RowsFollowLogins, OneIssue, Holds, Unrevoked
<1>4. MigratesOwnPassword'
  BY DEF TypeOK, MigratesOwnPassword
<1>5. OneIssue'
  BY DEF TypeOK, OneIssue, Holds
<1>6. OldPasswordSessionsEnd'
  BY DEF TypeOK, OldPasswordSessionsEnd, Unrevoked, InFlightAccounted, RowsFollowLogins
<1>7. NoSessionWithoutAccount'
  BY DEF TypeOK, NoSessionWithoutAccount, Unrevoked, InFlightAccounted, RowsFollowLogins
<1>8. QED
  BY <1>1, <1>2, <1>3, <1>4, <1>5, <1>6, <1>7

\* Unsuspend preserves the inductive invariant.
LEMMA UnsuspendIInv ==
  ASSUME IInv, Unsuspend
  PROVE  IInv'
<1> USE LoginAssumption DEF IInv, NoHash, issuing, account, requests, history, Unsuspend, Quiet
<1>1. TypeOK'
  BY DEF TypeOK, Clock, Password, Hash, Label
<1>2. InFlightAccounted'
  BY DEF TypeOK, InFlightAccounted
<1>3. RowsFollowLogins'
  BY DEF TypeOK, RowsFollowLogins, OneIssue, Holds, Unrevoked
<1>4. MigratesOwnPassword'
  BY DEF TypeOK, MigratesOwnPassword
<1>5. OneIssue'
  BY DEF TypeOK, OneIssue, Holds
<1>6. OldPasswordSessionsEnd'
  BY DEF TypeOK, OldPasswordSessionsEnd, Unrevoked, InFlightAccounted, RowsFollowLogins
<1>7. NoSessionWithoutAccount'
  BY DEF TypeOK, NoSessionWithoutAccount, Unrevoked, InFlightAccounted, RowsFollowLogins
<1>8. QED
  BY <1>1, <1>2, <1>3, <1>4, <1>5, <1>6, <1>7

\* Delete preserves the inductive invariant.
LEMMA DeleteIInv ==
  ASSUME IInv, Delete
  PROVE  IInv'
<1> USE LoginAssumption DEF IInv, NoHash, issuing, account, requests, history, Delete, Quiet, RevokedWithAccount, InFlight
<1>0. /\ sess' \in [Login -> Row]
      /\ revokedOnce' \subseteq Login
      /\ back' = back /\ moved' = moved
      /\ \A x \in Login : /\ sess'[x].exists = sess[x].exists
                          /\ sess'[x].revoked = (sess[x].revoked \/ x \in RevokedWithAccount \cap Unrevoked)
  <2>1. RevokeRows(RevokedWithAccount)
    BY DEF Delete
  <2>2. QED
    BY <2>1, RevokeRowsEffect
<1> USE <1>0
<1>1. TypeOK'
  BY DEF TypeOK, Clock, Password, Hash, Label
<1>2. InFlightAccounted'
  BY DEF TypeOK, InFlightAccounted
<1>3. RowsFollowLogins'
  BY DEF TypeOK, RowsFollowLogins, OneIssue, Holds, Unrevoked
<1>4. MigratesOwnPassword'
  BY DEF TypeOK, MigratesOwnPassword
<1>5. OneIssue'
  BY DEF TypeOK, OneIssue, Holds
<1>6. OldPasswordSessionsEnd'
  BY DEF TypeOK, OldPasswordSessionsEnd, Unrevoked, InFlightAccounted, RowsFollowLogins
<1>7. NoSessionWithoutAccount'
  BY DEF TypeOK, NoSessionWithoutAccount, Unrevoked, InFlightAccounted, RowsFollowLogins
<1>8. QED
  BY <1>1, <1>2, <1>3, <1>4, <1>5, <1>6, <1>7

\* Tick preserves the inductive invariant.
LEMMA TickIInv ==
  ASSUME IInv, Tick
  PROVE  IInv'
<1> USE LoginAssumption DEF IInv, NoHash, issuing, account, requests, history, Tick
<1>1. TypeOK'
  BY DEF TypeOK, Clock, Password, Hash, Label
<1>2. InFlightAccounted'
  BY DEF TypeOK, InFlightAccounted
<1>3. RowsFollowLogins'
  BY DEF TypeOK, RowsFollowLogins, OneIssue, Holds, Unrevoked
<1>4. MigratesOwnPassword'
  BY DEF TypeOK, MigratesOwnPassword
<1>5. OneIssue'
  BY DEF TypeOK, OneIssue, Holds
<1>6. OldPasswordSessionsEnd'
  BY DEF TypeOK, OldPasswordSessionsEnd, Unrevoked, InFlightAccounted, RowsFollowLogins
<1>7. NoSessionWithoutAccount'
  BY DEF TypeOK, NoSessionWithoutAccount, Unrevoked, InFlightAccounted, RowsFollowLogins
<1>8. QED
  BY <1>1, <1>2, <1>3, <1>4, <1>5, <1>6, <1>7

\* Every step preserves the inductive invariant.
LEMMA NextIInv == IInv /\ [Next]_vars => IInv'
<1> SUFFICES ASSUME IInv, [Next]_vars PROVE IInv'
  OBVIOUS
<1>1. CASE Next
  BY <1>1, CheckCredentialsIInv, MigrateIInv, CountIInv, SelectIInv, CommitIInv, SaveIInv,
     ResetLimitIInv, AuthenticateIInv, LogoutIInv, RevokeOwnedIInv, TerminateOthersIInv,
     RefuseIInv, ChangePasswordIInv, RefreshReadsIInv, RotatesIInv, RevokesReusedIInv,
     SuspendIInv, UnsuspendIInv, DeleteIInv, TickIInv DEF Next, LoginStep
<1>2. CASE UNCHANGED vars
  BY <1>2 DEF vars, issuing, account, requests, history, IInv, TypeOK, InFlightAccounted,
              RowsFollowLogins, MigratesOwnPassword, OneIssue, Holds, OldPasswordSessionsEnd,
              NoSessionWithoutAccount, Unrevoked
<1>3. QED
  BY <1>1, <1>2

\* The inductive invariant holds throughout.
THEOREM Invariance == Spec => []IInv
<1>1. Init => IInv
  BY InitIInv
<1>2. IInv /\ [Next]_vars => IInv'
  BY NextIInv
<1>3. QED
  BY <1>1, <1>2, PTL DEF Spec

\* Every variable keeps its type.
THEOREM TypeCorrect == Spec => []TypeOK
<1>1. IInv => TypeOK
  BY DEF IInv
<1>2. QED
  BY <1>1, Invariance, PTL

\* A password change ends every session opened with an older password, except
\* the changer's own and those of logins in flight.
THEOREM PasswordChangeEndsSessions == Spec => []OldPasswordSessionsEnd
<1>1. IInv => OldPasswordSessionsEnd
  BY DEF IInv
<1>2. QED
  BY <1>1, Invariance, PTL

\* Suspension and deletion end every session but those of logins in flight.
THEOREM SuspensionEndsSessions == Spec => []NoSessionWithoutAccount
<1>1. IInv => NoSessionWithoutAccount
  BY DEF IInv
<1>2. QED
  BY <1>1, Invariance, PTL

\* The steps that write session rows are few.
LEMMA RowWriters ==
  ASSUME Next
  PROVE  \/ UNCHANGED sess
         \/ \E S : RevokeRows(S)
         \/ \E l \in Login : Commit(l) \/ Save(l) \/ Rotates(l)
<1> USE DEF account, requests, history
<1>1. ASSUME NEW l \in Login, NEW p \in Password, CheckCredentials(l, p) PROVE UNCHANGED sess
  BY <1>1 DEF CheckCredentials
<1>2. ASSUME NEW l \in Login, Migrate(l) \/ Count(l) \/ Select(l) \/ ResetLimit(l)
      PROVE  UNCHANGED sess
  BY <1>2 DEF Migrate, Count, Select, ResetLimit
<1>3. ASSUME NEW s \in Login, Authenticate(s) \/ Refuse(s) \/ RefreshReads(s)
      PROVE  UNCHANGED sess
  BY <1>3 DEF Authenticate, Refuse, RefreshReads
<1>4. ASSUME NEW s \in Login, \/ Logout(s) \/ TerminateOthers(s) \/ ChangePassword(s)
                              \/ RevokesReused(s)
                              \/ \E target \in Login : RevokeOwned(s, target)
      PROVE  \E S : RevokeRows(S)
  BY <1>4 DEF Logout, TerminateOthers, ChangePassword, RevokesReused, RevokeOwned
<1>5. ASSUME Suspend \/ Delete PROVE \E S : RevokeRows(S)
  BY <1>5 DEF Suspend, Delete
<1>6. ASSUME Unsuspend \/ Tick PROVE UNCHANGED sess
  BY <1>6 DEF Unsuspend, Tick
<1>7. QED
  BY <1>1, <1>2, <1>3, <1>4, <1>5, <1>6 DEF Next, LoginStep

\* Only the save of a login in progress can bring a revoked session back.
THEOREM RevocationStands == Spec => RevocationPermanent
<1>1. IInv /\ [Next]_vars =>
        [\A s \in Login : sess[s].revoked /\ pc[s] # "save" => sess'[s].revoked]_vars
  <2> SUFFICES ASSUME IInv, Next, NEW s \in Login, sess[s].revoked, pc[s] # "save"
               PROVE  sess'[s].revoked
    BY DEF vars
  <2>1. TypeOK
    BY DEF IInv
  <2>2. ASSUME NEW S, RevokeRows(S) PROVE sess'[s].revoked
    BY <2>1, <2>2, RevokeRowsEffect
  <2>3. ASSUME NEW l \in Login, Commit(l) PROVE sess'[s].revoked
    <3>1. s # l
      BY <2>3 DEF IInv, RowsFollowLogins, Commit
    <3>2. QED
      BY <2>1, <2>3, <3>1, CommitEffect
  <2>4. ASSUME NEW l \in Login, Save(l) PROVE sess'[s].revoked
    <3>1. s # l
      BY <2>4 DEF Save
    <3>2. QED
      BY <2>1, <2>4, <3>1, SaveEffect
  <2>5. ASSUME NEW c \in Login, Rotates(c) PROVE sess'[s].revoked
    BY <2>1, <2>5, RotatesEffect
  <2>6. QED
    BY <2>2, <2>3, <2>4, <2>5, RowWriters
<1>2. QED
  BY <1>1, Invariance, PTL DEF Spec, RevocationPermanent

\* The bcrypt to Argon2id migration rewrites the hash of the same password only.
THEOREM MigrationSafe == Spec => MigrationKeepsPassword
<1>1. IInv => [\A l \in Login : Migrate(l) => user'.hash.password = user.hash.password]_vars
  BY DEF IInv, TypeOK, MigratesOwnPassword, Migrate, MigrationMatches
<1>2. QED
  BY <1>1, Invariance, PTL DEF MigrationKeepsPassword

\* Neither of the two late writes of a login undoes what came before it.
THEOREM LateWrites == Spec => LateWritesContained
BY RevocationStands, MigrationSafe, PTL DEF LateWritesContained

-----------------------------------------------------------------------------
(***************************************************************************)
(* Eviction.                                                               *)
(*                                                                         *)
(* Count, query and update each see what was committed before them.  What  *)
(* ties them together: sessions only leave the set that was counted, but   *)
(* for those that came back (Counted), so the query's choice removes       *)
(* enough of it, or removes sessions that came back instead.               *)
(***************************************************************************)

\* A session that came back was complete, and a refresh in progress is of a
\* session whose login was answered.
Complete ==
  /\ \A s \in answered : pc[s] = "done"
  /\ \A s \in Login : reading[s] # NotReading => s \in answered
  /\ \A s \in back : pc[s] \in {"reset", "done"}

\* No stamp is of the future, and a refresh stamps no session back in time.
Timely ==
  /\ \A l \in Login : stamp[l] <= clock
  /\ \A s \in Login : sess[s].lastUsed <= clock
  /\ \A s \in Login : reading[s] # NotReading =>
       sess[s].lastUsed <= reading[s] /\ reading[s] <= clock

\* Where a session that came back has been revoked, another may stand for it.
Bounded == Cardinality(Active \ back) <= MaxActive + Cardinality(back \ Unrevoked)

\* C is the set that the open transaction counted.
CountedBy(l, C) ==
  /\ l \in C
  /\ Cardinality(C) <= MaxActive + excess
  /\ Live(stamp[l]) \subseteq C \cup back
  /\ chosen \subseteq C \cup back
  /\ pc[l] = "commit" => \/ Cardinality(chosen) >= excess
                         \/ l \in chosen /\ Live(stamp[l]) \subseteq chosen \cup back

Counted == \A l \in Login : Holds(l) => \E C \in SUBSET Login : CountedBy(l, C)

\* The chosen sessions are the least recently used, as long as they are not used.
ChosenOldest == \A l \in Login : pc[l] = "commit" =>
  \A s \in chosen \ moved, t \in (Candidates(l) \ chosen) \ back :
    LastUsed(l, s) <= LastUsed(l, t)

EvictionInv ==
  /\ IInv
  /\ Complete
  /\ Timely
  /\ Bounded
  /\ Counted
  /\ ChosenOldest

\* Subsets of Login are finite.
LEMMA Finite ==
  ASSUME NEW S, S \subseteq Login
  PROVE  IsFiniteSet(S) /\ Cardinality(S) \in Nat
  BY LoginAssumption, FS_Subset, FS_CardinalityType

\* A larger set has at least as many elements.
LEMMA FewerIn ==
  ASSUME NEW T, T \subseteq Login, NEW S, S \subseteq T
  PROVE  Cardinality(S) <= Cardinality(T) /\ Cardinality(S) \in Nat /\ Cardinality(T) \in Nat
<1>1. IsFiniteSet(T)
  BY Finite
<1>2. QED
  BY <1>1, FS_Subset, FS_CardinalityType

\* Removing E, chosen partly outside C, leaves C with no more than the excess of
\* the choice covers.
LEMMA Remaining ==
  ASSUME NEW C, C \subseteq Login, NEW E, E \subseteq Login
  PROVE  Cardinality(C \ E) + Cardinality(E) = Cardinality(C) + Cardinality(E \ C)
<1>1. /\ IsFiniteSet(C) /\ IsFiniteSet(E) /\ IsFiniteSet(C \cap E)
      /\ IsFiniteSet(C \ E) /\ IsFiniteSet(E \ C)
  BY Finite
<1>2. /\ Cardinality(C) \in Nat /\ Cardinality(E) \in Nat /\ Cardinality(C \cap E) \in Nat
      /\ Cardinality(C \ E) \in Nat /\ Cardinality(E \ C) \in Nat
  BY <1>1, FS_CardinalityType
<1>3. Cardinality(C \ E) = Cardinality(C) - Cardinality(C \cap E)
  BY <1>1, FS_Difference
<1>4. Cardinality(E \ C) = Cardinality(E) - Cardinality(E \cap C)
  BY <1>1, FS_Difference
<1>5. E \cap C = C \cap E
  OBVIOUS
<1>6. QED
  BY <1>2, <1>3, <1>4, <1>5

\* A step beside the open transaction, if any: sessions end or come back, and
\* what was chosen stays as it was unless it is refreshed.
Beside ==
  /\ \A t \in Nat : t <= clock => Live(t)' \subseteq Live(t) \cup back'
  /\ back \subseteq back'
  /\ back \ Unrevoked \subseteq (back \ Unrevoked)'
  /\ \A l \in Login : Holds(l)' => Holds(l) /\ pc'[l] = pc[l] /\ stamp'[l] = stamp[l]
  /\ excess' = excess /\ chosen' = chosen /\ moved \subseteq moved'
  /\ \A s \in Login : /\ sess'[s].lastUsed >= sess[s].lastUsed
                      /\ s \in chosen \ moved' => sess'[s].lastUsed = sess[s].lastUsed
  /\ clock <= clock'

LEMMA BesideBounded ==
  ASSUME IInv, IInv', Timely, Bounded, Beside
  PROVE  Bounded'
<1>1. clock \in Nat /\ clock' \in Nat /\ sess' \in [Login -> Row]
  BY LoginAssumption DEF IInv, TypeOK, Clock
<1>2. Active' \subseteq {s \in Login : (sess'[s].exists /\ ~sess'[s].revoked)
                                        /\ sess'[s].expires > clock}
  <2>1. \A s \in Login : sess'[s].expires \in Nat
    BY <1>1 DEF Row
  <2>2. clock <= clock'
    BY DEF Beside
  <2>3. QED
    BY <1>1, <2>1, <2>2 DEF Active, Live, Unrevoked
<1>3. (Active \ back)' \subseteq Active \ back
  <2> DEFINE now == clock
  <2>1. \A t \in Nat : t <= clock => {s \in Login : (sess'[s].exists /\ ~sess'[s].revoked)
                                        /\ sess'[s].expires > t} \subseteq Live(t) \cup back'
    BY DEF Beside, Live, Unrevoked
  <2>2. {s \in Login : (sess'[s].exists /\ ~sess'[s].revoked) /\ sess'[s].expires > now}
          \subseteq Live(now) \cup back'
    <3> HIDE DEF now
    <3>1. now \in Nat /\ now <= clock
      BY <1>1 DEF now
    <3>2. QED
      BY <2>1, <3>1
  <2>3. back \subseteq back'
    BY DEF Beside
  <2>4. QED
    BY <1>2, <2>2, <2>3 DEF Active
<1>4. /\ Active \ back \subseteq Login /\ (back \ Unrevoked)' \subseteq Login
      /\ back \ Unrevoked \subseteq (back \ Unrevoked)'
  BY DEF Active, Live, Unrevoked, IInv, TypeOK, Beside
<1> DEFINE A == Active \ back
           B == back \ Unrevoked
           A1 == (Active \ back)'
           B1 == (back \ Unrevoked)'
<1>5. A1 \subseteq A /\ A \subseteq Login /\ B \subseteq B1 /\ B1 \subseteq Login
  BY <1>3, <1>4
<1>6. Cardinality(A) <= MaxActive + Cardinality(B)
  BY DEF Bounded
<1>7. MaxActive \in Nat
  BY LoginAssumption
<1> HIDE DEF A, B, A1, B1
<1>8. Cardinality(A1) <= MaxActive + Cardinality(B1)
  <2>1. Cardinality(A1) <= Cardinality(A) /\ Cardinality(A1) \in Nat /\ Cardinality(A) \in Nat
    BY <1>5, FewerIn
  <2>2. Cardinality(B) <= Cardinality(B1) /\ Cardinality(B) \in Nat /\ Cardinality(B1) \in Nat
    BY <1>5, FewerIn
  <2>3. QED
    BY <1>6, <1>7, <2>1, <2>2
<1>9. QED
  BY <1>8 DEF A1, B1, Bounded

LEMMA BesideCounted ==
  ASSUME IInv, IInv', Timely, Counted, Beside
  PROVE  Counted'
<1> SUFFICES ASSUME NEW l \in Login, Holds(l)'
             PROVE  \E C \in SUBSET Login : CountedBy(l, C)'
  BY DEF Counted
<1>1. Holds(l) /\ pc'[l] = pc[l] /\ stamp'[l] = stamp[l]
  BY DEF Beside
<1>2. PICK C \in SUBSET Login : CountedBy(l, C)
  BY <1>1 DEF Counted
<1>3. stamp[l] \in Nat /\ stamp[l] <= clock
  BY LoginAssumption DEF IInv, TypeOK, Clock, Timely
<1>4. Live(stamp[l])' \subseteq Live(stamp[l]) \cup back'
  <2>1. \A s \in Live(stamp[l])' : s \in Login /\ sess'[s].expires > stamp[l]
                                   /\ sess'[s].exists /\ ~sess'[s].revoked
    BY <1>1 DEF Live, Unrevoked
  <2> DEFINE now == stamp[l]
  <2>2. \A t \in Nat : t <= clock => {s \in Login : (sess'[s].exists /\ ~sess'[s].revoked)
                                        /\ sess'[s].expires > t} \subseteq Live(t) \cup back'
    BY DEF Beside, Live, Unrevoked
  <2>3. {s \in Login : (sess'[s].exists /\ ~sess'[s].revoked) /\ sess'[s].expires > now}
          \subseteq Live(now) \cup back'
    <3> HIDE DEF now
    <3>1. now \in Nat /\ now <= clock
      BY <1>3 DEF now
    <3>2. QED
      BY <2>2, <3>1
  <2>4. QED
    BY <2>1, <2>3
<1>5. back \subseteq back' /\ excess' = excess /\ chosen' = chosen
  BY DEF Beside
<1>6. CountedBy(l, C)'
  BY <1>1, <1>2, <1>4, <1>5 DEF CountedBy
<1>7. QED
  BY <1>6

LEMMA BesideOldest ==
  ASSUME IInv, IInv', Timely, ChosenOldest, Beside
  PROVE  ChosenOldest'
<1> SUFFICES ASSUME NEW l \in Login, pc'[l] = "commit",
                    NEW s \in chosen' \ moved',
                    NEW t \in ((Candidates(l) \ chosen) \ back)'
             PROVE  LastUsed(l, s)' <= LastUsed(l, t)'
  BY DEF ChosenOldest
<1>1. pc[l] = "commit" /\ stamp'[l] = stamp[l] /\ chosen' = chosen
      /\ back \subseteq back' /\ moved \subseteq moved'
  BY DEF Beside, Holds
<1>2. stamp[l] \in Nat /\ stamp[l] <= clock
  BY LoginAssumption DEF IInv, TypeOK, Clock, Timely
<1>3. s \in chosen \ moved /\ s \in Login /\ t \in Login
  BY <1>1 DEF IInv, TypeOK, Candidates, Live, Unrevoked
<1>4. t \in (Candidates(l) \ chosen) \ back
  <2>1. CASE t = l
    BY <1>1, <2>1 DEF Candidates
  <2>2. CASE t # l
    <3> DEFINE now == stamp[l]
    <3>1. (sess'[t].exists /\ ~sess'[t].revoked) /\ sess'[t].expires > now
      BY <1>1, <2>2 DEF Candidates, Live, Unrevoked
    <3>2. \A u \in Nat : u <= clock => {x \in Login : (sess'[x].exists /\ ~sess'[x].revoked)
                                          /\ sess'[x].expires > u} \subseteq Live(u) \cup back'
      BY DEF Beside, Live, Unrevoked
    <3>3. t \in Live(now)
      <4> HIDE DEF now
      <4>1. now \in Nat /\ now <= clock
        BY <1>2 DEF now
      <4>2. QED
        BY <1>3, <3>1, <3>2, <4>1
    <3>4. QED
      BY <1>1, <3>3 DEF Candidates
  <2>3. QED
    BY <2>1, <2>2
<1>5. LastUsed(l, s) <= LastUsed(l, t)
  BY <1>1, <1>3, <1>4 DEF ChosenOldest
<1>6. /\ sess'[s].lastUsed = sess[s].lastUsed
      /\ sess'[t].lastUsed >= sess[t].lastUsed
  BY <1>1, <1>3 DEF Beside
<1>7. \A x \in Login : sess[x].lastUsed \in Nat /\ sess'[x].lastUsed \in Nat
  BY LoginAssumption DEF IInv, TypeOK, Row, Clock
<1>8. QED
  BY <1>1, <1>2, <1>3, <1>5, <1>6, <1>7 DEF LastUsed

LEMMA BesideInv ==
  ASSUME EvictionInv, IInv', Beside
  PROVE  Bounded' /\ Counted' /\ ChosenOldest'
  BY BesideBounded, BesideCounted, BesideOldest DEF EvictionInv

\* Revocations only end sessions.
LEMMA RevokeBeside ==
  ASSUME TypeOK, NEW S, RevokeRows(S), UNCHANGED <<clock, pc, stamp, issuing>>
  PROVE  Beside
<1> USE DEF issuing
<1>1. /\ back' = back /\ moved' = moved
      /\ \A s \in Login : /\ sess'[s].exists = sess[s].exists
                          /\ sess[s].revoked => sess'[s].revoked
                          /\ sess'[s].expires = sess[s].expires
                          /\ sess'[s].lastUsed = sess[s].lastUsed
  BY RevokeRowsEffect
<1>2. Unrevoked' \subseteq Unrevoked /\ \A t \in Nat : Live(t)' \subseteq Live(t)
  BY <1>1 DEF Live, Unrevoked
<1>3. \A s \in Login : sess[s].lastUsed \in Nat
  BY LoginAssumption DEF TypeOK, Row, Clock
<1>4. clock \in Nat
  BY LoginAssumption DEF TypeOK, Clock
<1>5. QED
  BY <1>1, <1>2, <1>3, <1>4 DEF Beside, Holds

\* Steps that leave the rows and the transaction alone.
LEMMA IdleBeside ==
  ASSUME TypeOK, UNCHANGED <<sess, issuing, back, moved>>, clock' = clock \/ clock' = clock + 1,
         \A l \in Login : Holds(l)' => Holds(l) /\ pc'[l] = pc[l] /\ stamp'[l] = stamp[l]
  PROVE  Beside
<1>1. \A s \in Login : sess[s].lastUsed \in Nat
  BY LoginAssumption DEF TypeOK, Row, Clock
<1>2. clock \in Nat
  BY LoginAssumption DEF TypeOK, Clock
<1>3. \A t \in Nat : Live(t)' = Live(t)
  BY DEF Live, Unrevoked
<1>4. Unrevoked' = Unrevoked
  BY DEF Unrevoked
<1>5. QED
  BY <1>1, <1>2, <1>3, <1>4 DEF Beside, issuing

\* A save brings back only its own session.
LEMMA SaveBeside ==
  ASSUME TypeOK, Complete, NEW l \in Login, Save(l)
  PROVE  Beside
<1> USE DEF issuing
<1>1. /\ \A s \in Login \ {l} : sess'[s] = sess[s]
      /\ sess'[l].exists = sess[l].exists
      /\ sess'[l].revoked = FALSE
      /\ sess'[l].expires = sess[l].expires
      /\ sess'[l].lastUsed = sess[l].lastUsed
  BY SaveEffect
<1>2. /\ pc[l] = "save" /\ pc' = [pc EXCEPT ![l] = "reset"]
      /\ back' = IF sess[l].revoked THEN back \cup {l} ELSE back
      /\ UNCHANGED <<clock, stamp, moved, excess, chosen>>
  BY DEF Save, Goto
<1>3. l \notin back
  BY <1>2 DEF Complete
<1>4. \A t \in Nat : Live(t)' \subseteq Live(t) \cup back'
  BY <1>1, <1>2 DEF Live, Unrevoked
<1>5. back \ Unrevoked \subseteq (back \ Unrevoked)'
  BY <1>1, <1>2, <1>3 DEF Unrevoked
<1>6. \A s \in Login : sess[s].lastUsed \in Nat
  BY LoginAssumption DEF TypeOK, Row, Clock
<1>7. \A k \in Login : Holds(k)' => Holds(k) /\ pc'[k] = pc[k]
  BY <1>2 DEF Holds, TypeOK
<1>8. clock \in Nat
  BY LoginAssumption DEF TypeOK, Clock
<1>9. QED
  BY <1>1, <1>2, <1>4, <1>5, <1>6, <1>7, <1>8 DEF Beside

\* A refresh that writes after the expiry brings its session back, and one that
\* refreshes a chosen session is recorded.
LEMMA RotatesBeside ==
  ASSUME TypeOK, Timely, NEW c \in Login, Rotates(c)
  PROVE  Beside
<1> USE DEF issuing
<1>1. /\ \A s \in Login : /\ sess'[s].exists = sess[s].exists
                          /\ sess'[s].revoked = sess[s].revoked
      /\ \A s \in Login \ {c} : sess'[s] = sess[s]
      /\ sess'[c].lastUsed = reading[c]
  BY RotatesEffect
<1>2. /\ reading[c] # NotReading
      /\ back' = IF c \in Unrevoked \ Active THEN back \cup {c} ELSE back
      /\ moved' = moved \cup ({c} \cap chosen)
      /\ UNCHANGED <<clock, pc, stamp, excess, chosen>>
  BY DEF Rotates
<1>3. clock \in Nat /\ \A s \in Login : sess[s].lastUsed \in Nat /\ sess[s].expires \in Nat
  BY LoginAssumption DEF TypeOK, Row, Clock
<1>4. sess[c].lastUsed <= reading[c] /\ reading[c] \in Nat
  BY <1>2, LoginAssumption DEF Timely, TypeOK, Clock
<1>5. ASSUME NEW t \in Nat, t <= clock, NEW s \in Live(t)' PROVE s \in Live(t) \cup back'
  <2>1. s \in Unrevoked /\ s \in Login
    BY <1>1 DEF Live, Unrevoked
  <2>2. CASE s # c
    BY <1>1, <2>1, <2>2 DEF Live, Unrevoked
  <2>3. CASE s = c /\ c \in Active
    BY <1>3, <1>5, <2>1, <2>3 DEF Active, Live
  <2>4. CASE s = c /\ c \notin Active
    BY <1>2, <2>1, <2>4
  <2>5. QED
    BY <2>2, <2>3, <2>4
<1>6. back \ Unrevoked \subseteq (back \ Unrevoked)' /\ back \subseteq back'
  BY <1>1, <1>2 DEF Unrevoked
<1>7. \A s \in Login : /\ sess'[s].lastUsed >= sess[s].lastUsed
                       /\ s \in chosen \ moved' => sess'[s].lastUsed = sess[s].lastUsed
  BY <1>1, <1>2, <1>3, <1>4
<1>8. QED
  BY <1>2, <1>3, <1>5, <1>6, <1>7 DEF Beside, Holds

\* The count fixes the set; what it counts beyond the limit is to be ended.
LEMMA CountEviction ==
  ASSUME EvictionInv, IInv', NEW l \in Login, Count(l)
  PROVE  Bounded' /\ Counted' /\ ChosenOldest'
<1> USE DEF EvictionInv, IInv, issuing, account, requests, history
<1> DEFINE n == Cardinality(Candidates(l))
<1>1. /\ pc[l] = "issue" /\ (\A k \in Login : ~Holds(k)) /\ excess = 0 /\ chosen = {}
      /\ UNCHANGED <<sess, clock, stamp, chosen, back, moved>>
      /\ \/ pc' = [pc EXCEPT ![l] = "done"] /\ excess' = excess
         \/ n > MaxActive /\ pc' = [pc EXCEPT ![l] = "select"] /\ excess' = n - MaxActive
         \/ ~(n > MaxActive) /\ pc' = [pc EXCEPT ![l] = "commit"] /\ excess' = excess
  BY DEF Count, Goto, UserLocked, OneIssue, Holds
<1>2. Candidates(l) \in SUBSET Login /\ n \in Nat
  BY Finite DEF Candidates, Live, Unrevoked
<1>3. Bounded'
  <2>1. Active' = Active /\ Unrevoked' = Unrevoked
    BY <1>1 DEF Active, Live, Unrevoked
  <2>2. QED
    BY <1>1, <2>1 DEF Bounded
<1>4. Counted'
  <2> SUFFICES ASSUME NEW k \in Login, Holds(k)' PROVE \E C \in SUBSET Login : CountedBy(k, C)'
    BY DEF Counted
  <2>1. k = l /\ pc'[l] \in {"select", "commit"}
    BY <1>1 DEF Holds, TypeOK
  <2>2. n <= MaxActive + excess' /\ (pc'[l] = "commit" => excess' = 0)
    BY <1>1, <1>2, <2>1, LoginAssumption DEF TypeOK
  <2>3. Live(stamp[l])' \subseteq Candidates(l)
    BY <1>1 DEF Live, Unrevoked, Candidates
  <2>4. Cardinality(chosen') = 0
    BY <1>1, FS_EmptySet
  <2>5. l \in Candidates(l) /\ chosen' = {} /\ stamp' = stamp
    BY <1>1 DEF Candidates
  <2> DEFINE K == Candidates(l)
  <2> HIDE DEF K
  <2>6. CountedBy(l, K)'
    <3>1. l \in K /\ Live(stamp[l])' \subseteq K \cup back' /\ chosen' \subseteq K \cup back'
      BY <2>3, <2>5 DEF K
    <3>2. Cardinality(K) <= MaxActive + excess'
      BY <2>2 DEF K
    <3>3. K' = K
      BY <1>1 DEF K, Candidates, Live, Unrevoked
    <3>4. pc'[l] = "commit" => Cardinality(chosen') >= excess'
      BY <2>2, <2>4
    <3>5. Cardinality(K') <= MaxActive + excess'
      BY <3>2, <3>3
    <3>6. QED
      BY <3>1, <3>3, <3>4, <3>5 DEF CountedBy
  <2>7. K' = K /\ K \in SUBSET Login
    BY <1>1, <1>2 DEF K, Candidates, Live, Unrevoked
  <2>8. QED
    BY <2>1, <2>6, <2>7
<1>5. ChosenOldest'
  BY <1>1 DEF ChosenOldest
<1>6. QED
  BY <1>3, <1>4, <1>5

\* The query chooses enough of the sessions it sees, the oldest first.
LEMMA SelectEviction ==
  ASSUME EvictionInv, IInv', NEW l \in Login, Select(l)
  PROVE  Bounded' /\ Counted' /\ ChosenOldest'
<1> USE DEF EvictionInv, IInv, issuing, account, requests, history
<1>1. PICK S \in SUBSET Candidates(l) : Limited(l, S) /\ OldestFirst(l, S) /\ chosen' = S
  BY DEF Select
<1>2. /\ pc[l] = "select" /\ pc' = [pc EXCEPT ![l] = "commit"]
      /\ UNCHANGED <<sess, clock, stamp, excess, back, moved>>
  BY DEF Select, Goto
<1>3. \A k \in Login : Holds(k)' => k = l
  BY <1>2 DEF Holds, OneIssue, TypeOK
<1>4. Active' = Active /\ Unrevoked' = Unrevoked /\ Candidates(l)' = Candidates(l)
      /\ Live(stamp[l])' = Live(stamp[l])
  BY <1>2 DEF Active, Live, Unrevoked, Candidates
<1>5. Bounded'
  BY <1>2, <1>4 DEF Bounded
<1>6. PICK C \in SUBSET Login : CountedBy(l, C)
  BY <1>2 DEF Counted, Holds
<1>7. excess \in Nat
  BY DEF TypeOK
<1>8. CountedBy(l, C)'
  <2>1. chosen' \subseteq C \cup back
    BY <1>1, <1>6 DEF CountedBy, Candidates
  <2>2. Cardinality(chosen') >= excess \/ chosen' = Candidates(l)
    BY <1>1, <1>7 DEF Limited
  <2>3. chosen' = Candidates(l) => l \in chosen' /\ Live(stamp[l]) \subseteq chosen'
    BY DEF Candidates
  <2>4. QED
    BY <1>2, <1>4, <1>6, <2>1, <2>2, <2>3 DEF CountedBy
<1>9. Counted'
  BY <1>3, <1>8 DEF Counted
<1>10. ChosenOldest'
  <2> SUFFICES ASSUME NEW k \in Login, pc'[k] = "commit",
                      NEW s \in chosen' \ moved', NEW t \in ((Candidates(k) \ chosen) \ back)'
               PROVE  LastUsed(k, s)' <= LastUsed(k, t)'
    BY DEF ChosenOldest
  <2>1. k = l
    BY <1>3 DEF Holds
  <2>2. s \in S /\ t \in Candidates(l) \ S
    BY <1>1, <1>4, <2>1
  <2>3. LastUsed(l, s) <= LastUsed(l, t)
    BY <1>1, <2>2 DEF OldestFirst
  <2>4. QED
    BY <1>2, <2>1, <2>3 DEF LastUsed
<1>11. QED
  BY <1>5, <1>9, <1>10

\* The commit ends what was chosen: what is left of the counted set is within the
\* limit, give or take sessions that came back and were chosen in its place.
LEMMA CommitEviction ==
  ASSUME EvictionInv, IInv', NEW l \in Login, Commit(l)
  PROVE  /\ Bounded' /\ Counted' /\ ChosenOldest'
         /\ Active' \ back \subseteq Candidates(l) \ chosen
<1> USE DEF EvictionInv, IInv, account, requests
<1>1. /\ pc[l] = "commit" /\ pc' = [pc EXCEPT ![l] = "save"]
      /\ chosen' = {} /\ UNCHANGED <<clock, back>>
  BY DEF Commit, Goto
<1>2. /\ sess'[l] = NewRow(l)
      /\ \A s \in Login \ {l} : /\ sess'[s].exists = sess[s].exists
                                /\ sess'[s].revoked = (sess[s].revoked \/ s \in chosen)
                                /\ sess'[s].expires = sess[s].expires
  BY CommitEffect
<1>3. ASSUME NEW s \in Active' PROVE s \in Candidates(l) \ chosen
  <2>1. CASE s = l
    <3>1. ~sess'[l].revoked
      BY <2>1 DEF Active, Live, Unrevoked
    <3>2. sess'[l].revoked = (l \in chosen)
      BY <1>2 DEF NewRow
    <3>3. QED
      BY <2>1, <3>1, <3>2 DEF Candidates
  <2>2. CASE s # l
    <3>1. stamp[l] \in Nat /\ clock \in Nat /\ stamp[l] <= clock /\ sess[s].expires \in Nat
      BY LoginAssumption DEF TypeOK, Clock, Timely, Row, Active, Live, Unrevoked
    <3>2. s \in Login /\ sess[s].exists /\ ~sess[s].revoked /\ s \notin chosen
          /\ sess[s].expires > clock
      BY <1>1, <1>2, <2>2 DEF Active, Live, Unrevoked
    <3>3. s \in Live(stamp[l])
      BY <3>1, <3>2 DEF Live, Unrevoked
    <3>4. QED
      BY <3>2, <3>3 DEF Candidates
  <2>3. QED
    BY <2>1, <2>2
<1>4. \A k \in Login : ~Holds(k)'
  BY <1>1 DEF Holds, OneIssue, TypeOK
<1>5. Counted' /\ ChosenOldest'
  BY <1>1, <1>4 DEF Counted, ChosenOldest
<1>6. PICK C \in SUBSET Login : CountedBy(l, C)
  BY <1>1 DEF Counted, Holds
<1>7. Bounded'
  <2> DEFINE A1 == Active' \ back
             B1 == back \ Unrevoked'
  <2>1. A1 \subseteq Login /\ B1 \subseteq Login /\ chosen \subseteq Login
    BY DEF Active, Live, Unrevoked, TypeOK
  <2>2. A1 \subseteq C \ chosen
    BY <1>3, <1>6 DEF CountedBy, Candidates
  <2>3. chosen \ C \subseteq B1
    <3>1. ASSUME NEW s \in chosen \ C PROVE s \in back /\ s \notin Unrevoked'
      <4>1. s \in back /\ s # l /\ s \in Login
        BY <1>6, <2>1 DEF CountedBy
      <4>2. sess'[s].revoked
        BY <1>2, <4>1
      <4>3. QED
        BY <4>1, <4>2 DEF Unrevoked
    <3>2. QED
      BY <3>1
  <2>4. MaxActive \in Nat /\ excess \in Nat
    BY LoginAssumption DEF TypeOK
  <2>5. Cardinality(C) <= MaxActive + excess
    BY <1>6 DEF CountedBy
  <2>6. CASE Cardinality(chosen) >= excess
    <3> HIDE DEF A1, B1
    <3>1. Cardinality(A1) <= Cardinality(C \ chosen) /\ Cardinality(A1) \in Nat
          /\ Cardinality(C \ chosen) \in Nat
      BY <2>2, FewerIn
    <3>2. Cardinality(chosen \ C) <= Cardinality(B1) /\ Cardinality(B1) \in Nat
          /\ Cardinality(chosen \ C) \in Nat
      BY <2>1, <2>3, FewerIn
    <3>3. Cardinality(C \ chosen) + Cardinality(chosen) = Cardinality(C) + Cardinality(chosen \ C)
      BY <2>1, Remaining
    <3>4. Cardinality(chosen) \in Nat /\ Cardinality(C) \in Nat
      BY <2>1, Finite
    <3>5. Cardinality(A1) <= MaxActive + Cardinality(B1)
      BY <2>4, <2>5, <2>6, <3>1, <3>2, <3>3, <3>4
    <3>6. QED
      BY <1>1, <3>5 DEF A1, B1, Bounded
  <2>7. CASE l \in chosen /\ Live(stamp[l]) \subseteq chosen \cup back
    <3>1. A1 = {}
      BY <1>3, <2>7 DEF Candidates
    <3>2. Cardinality(A1) = 0 /\ Cardinality(B1) \in Nat
      BY <2>1, <3>1, Finite, FS_EmptySet
    <3>3. Cardinality(A1) <= MaxActive + Cardinality(B1)
      BY <2>4, <3>2
    <3>4. QED
      BY <1>1, <3>3 DEF Bounded
  <2>8. QED
    BY <1>1, <1>6, <2>6, <2>7 DEF CountedBy
<1>8. QED
  BY <1>3, <1>5, <1>7

\* Complete and Timely are preserved by every step.
LEMMA NextComplete ==
  ASSUME EvictionInv, Next
  PROVE  Complete'
<1> USE DEF EvictionInv, IInv, TypeOK, Complete, issuing, account, requests, history
<1>1. ASSUME NEW l \in Login, NEW p \in Password, CheckCredentials(l, p) PROVE Complete'
  BY <1>1 DEF CheckCredentials, Goto
<1>2. ASSUME NEW l \in Login, Migrate(l) PROVE Complete'
  BY <1>2 DEF Migrate
<1>3. ASSUME NEW l \in Login, Count(l) PROVE Complete'
  BY <1>3 DEF Count, Goto
<1>4. ASSUME NEW l \in Login, Select(l) PROVE Complete'
  BY <1>4 DEF Select, Goto
<1>5. ASSUME NEW l \in Login, Commit(l) PROVE Complete'
  BY <1>5 DEF Commit, Goto
<1>6. ASSUME NEW l \in Login, Save(l) PROVE Complete'
  BY <1>6 DEF Save, Goto
<1>7. ASSUME NEW l \in Login, ResetLimit(l) PROVE Complete'
  BY <1>7 DEF ResetLimit, Goto
<1>8. ASSUME NEW s \in Login, Authenticate(s) \/ Refuse(s) PROVE Complete'
  BY <1>8 DEF Authenticate, Refuse, EndRequest, Quiet
<1>9. ASSUME NEW s \in Login, \/ Logout(s) \/ TerminateOthers(s) \/ ChangePassword(s)
                              \/ \E target \in Login : RevokeOwned(s, target)
      PROVE  Complete'
  BY <1>9 DEF Logout, TerminateOthers, ChangePassword, RevokeOwned, EndRequest, Quiet, RevokeRows
<1>10. ASSUME NEW s \in Login, RefreshReads(s) PROVE Complete'
  BY <1>10 DEF RefreshReads
<1>11. ASSUME NEW s \in Login, Rotates(s) PROVE Complete'
  BY <1>11 DEF Rotates
<1>12. ASSUME NEW s \in Login, RevokesReused(s) PROVE Complete'
  BY <1>12 DEF RevokesReused, RevokeRows
<1>13. ASSUME Suspend \/ Delete PROVE Complete'
  BY <1>13 DEF Suspend, Delete, Quiet, RevokeRows
<1>14. ASSUME Unsuspend \/ Tick PROVE Complete'
  BY <1>14 DEF Unsuspend, Quiet, Tick
<1>15. QED
  BY <1>1, <1>2, <1>3, <1>4, <1>5, <1>6, <1>7, <1>8, <1>9, <1>10, <1>11, <1>12, <1>13, <1>14
     DEF Next, LoginStep

LEMMA NextTimely ==
  ASSUME EvictionInv, Next
  PROVE  Timely'
<1> USE DEF EvictionInv, IInv, issuing, account, requests, history
<1>0. /\ clock \in Nat /\ 0 <= clock
      /\ \A s \in Login : stamp[s] \in Nat /\ sess[s].lastUsed \in Nat /\ reading[s] \in Int
  BY LoginAssumption DEF TypeOK, Clock, Row, NotReading
<1>a. stamp \in [Login -> Clock] /\ reading \in [Login -> Clock \cup {NotReading}]
  BY DEF TypeOK
<1>b. ASSUME UNCHANGED <<clock, reading>>, stamp' = stamp,
             \A s \in Login : sess'[s].lastUsed = sess[s].lastUsed
      PROVE  Timely'
  BY <1>b DEF Timely
<1>1. ASSUME NEW l \in Login, NEW p \in Password, CheckCredentials(l, p) PROVE Timely'
  BY <1>0, <1>a, <1>1 DEF CheckCredentials, SnapshotNow, Timely
<1>2. ASSUME NEW l \in Login, Migrate(l) \/ Count(l) \/ Select(l) \/ ResetLimit(l) PROVE Timely'
  BY <1>2, <1>b DEF Migrate, Count, Select, ResetLimit
<1>3. ASSUME NEW l \in Login, Commit(l) PROVE Timely'
  <2>1. /\ stamp' = [stamp EXCEPT ![l] = 0] /\ UNCHANGED <<clock, reading>> /\ pc[l] = "commit"
    BY <1>3 DEF Commit
  <2>a. /\ sess'[l] = NewRow(l)
        /\ \A s \in Login \ {l} : sess'[s].lastUsed = sess[s].lastUsed
    BY <1>3, CommitEffect
  <2>2. sess'[l].lastUsed = stamp[l] /\ \A s \in Login \ {l} : sess'[s].lastUsed = sess[s].lastUsed
    BY <2>a DEF NewRow
  <2>3. reading[l] = NotReading
    BY <2>1 DEF Complete
  <2>4. QED
    BY <1>0, <1>a, <2>1, <2>2, <2>3 DEF Timely
<1>4. ASSUME NEW l \in Login, Save(l) PROVE Timely'
  <2>1. \A s \in Login : sess'[s].lastUsed = sess[s].lastUsed
    BY <1>4, SaveEffect
  <2>2. QED
    BY <1>4, <1>b, <2>1 DEF Save
<1>5. ASSUME NEW S, RevokeRows(S), UNCHANGED <<clock, stamp>>,
             \A s \in Login : reading'[s] \in {reading[s], NotReading}
      PROVE  Timely'
  <2>1. \A s \in Login : sess'[s].lastUsed = sess[s].lastUsed
    BY <1>5, RevokeRowsEffect
  <2>2. QED
    BY <1>5, <2>1 DEF Timely
<1>6. ASSUME NEW s \in Login, Authenticate(s) \/ Refuse(s) PROVE Timely'
  BY <1>6, <1>b DEF Authenticate, Refuse, Quiet
<1>7. ASSUME NEW s \in Login, Logout(s) \/ TerminateOthers(s) \/ ChangePassword(s) PROVE Timely'
  BY <1>7, <1>5 DEF Logout, TerminateOthers, ChangePassword, Quiet
<1>8. ASSUME NEW s \in Login, NEW target \in Login, RevokeOwned(s, target) PROVE Timely'
  BY <1>8, <1>5 DEF RevokeOwned, Quiet
<1>9. ASSUME NEW s \in Login, RefreshReads(s) PROVE Timely'
  BY <1>0, <1>a, <1>9 DEF RefreshReads, Timely
<1>10. ASSUME NEW c \in Login, Rotates(c) PROVE Timely'
  <2>1. /\ sess'[c].lastUsed = reading[c] /\ \A s \in Login \ {c} : sess'[s] = sess[s]
    BY <1>10, RotatesEffect
  <2>2. /\ reading' = [reading EXCEPT ![c] = NotReading] /\ UNCHANGED <<clock, stamp>>
        /\ reading[c] # NotReading
    BY <1>10 DEF Rotates
  <2>3. reading[c] <= clock
    BY <2>2 DEF Timely
  <2>4. QED
    BY <1>0, <1>a, <2>1, <2>2, <2>3 DEF Timely
<1>11. ASSUME NEW s \in Login, RevokesReused(s) PROVE Timely'
  BY <1>a, <1>11, <1>5 DEF RevokesReused
<1>12. ASSUME Suspend \/ Delete PROVE Timely'
  BY <1>12, <1>5 DEF Suspend, Delete, Quiet
<1>13. ASSUME Unsuspend PROVE Timely'
  BY <1>13, <1>b DEF Unsuspend, Quiet
<1>14. ASSUME Tick PROVE Timely'
  BY <1>0, <1>14 DEF Tick, Timely
<1>15. QED
  BY <1>1, <1>2, <1>3, <1>4, <1>6, <1>7, <1>8, <1>9, <1>10, <1>11, <1>12, <1>13, <1>14
     DEF Next, LoginStep

\* Every step preserves the eviction invariant.
LEMMA NextEvictionInv == EvictionInv /\ [Next]_vars => EvictionInv'
<1> SUFFICES ASSUME EvictionInv, [Next]_vars PROVE EvictionInv'
  OBVIOUS
<1>1. IInv' /\ TypeOK /\ Complete /\ Timely
  BY NextIInv DEF EvictionInv, IInv
<1>2. CASE UNCHANGED vars
  BY <1>1, <1>2
     DEF EvictionInv, vars, issuing, account, requests, history, Complete, Timely, Bounded,
         Counted, CountedBy, ChosenOldest, Holds, Candidates, LastUsed, Active, Live, Unrevoked
<1>3. CASE Next
  <2> DEFINE Goal == Bounded' /\ Counted' /\ ChosenOldest'
  <2>0. Beside => Goal
    BY <1>1, BesideInv
  <2> HIDE DEF Goal
  <2>1. ASSUME NEW l \in Login, NEW p \in Password, CheckCredentials(l, p) PROVE Goal
    BY <1>1, <2>0, <2>1, IdleBeside
       DEF CheckCredentials, issuing, history, Goto, Holds, TypeOK
  <2>2. ASSUME NEW l \in Login, Migrate(l) PROVE Goal
    BY <1>1, <2>0, <2>2, IdleBeside DEF Migrate, issuing, history, Holds
  <2>3. ASSUME NEW l \in Login, Count(l) PROVE Goal
    BY <1>1, <2>3, CountEviction DEF Goal
  <2>4. ASSUME NEW l \in Login, Select(l) PROVE Goal
    BY <1>1, <2>4, SelectEviction DEF Goal
  <2>5. ASSUME NEW l \in Login, Commit(l) PROVE Goal
    BY <1>1, <2>5, CommitEviction DEF Goal
  <2>6. ASSUME NEW l \in Login, Save(l) PROVE Goal
    BY <1>1, <2>0, <2>6, SaveBeside
  <2>7. ASSUME NEW l \in Login, ResetLimit(l) PROVE Goal
    BY <1>1, <2>0, <2>7, IdleBeside DEF ResetLimit, issuing, history, Goto, Holds, TypeOK
  <2>8. ASSUME NEW s \in Login, Authenticate(s) \/ Refuse(s) \/ RefreshReads(s) PROVE Goal
    BY <1>1, <2>0, <2>8, IdleBeside
       DEF Authenticate, Refuse, RefreshReads, Quiet, issuing, history, Holds
  <2>9. ASSUME NEW s \in Login, \/ Logout(s) \/ TerminateOthers(s) \/ ChangePassword(s)
                                \/ RevokesReused(s)
                                \/ \E target \in Login : RevokeOwned(s, target)
        PROVE  Goal
    <3>1. (\E S : RevokeRows(S)) /\ UNCHANGED <<clock, pc, stamp, issuing>>
      BY <2>9 DEF Logout, TerminateOthers, ChangePassword, RevokesReused, RevokeOwned, Quiet
    <3>2. QED
      BY <1>1, <2>0, <3>1, RevokeBeside
  <2>10. ASSUME NEW s \in Login, Rotates(s) PROVE Goal
    BY <1>1, <2>0, <2>10, RotatesBeside
  <2>11. ASSUME Suspend \/ Delete PROVE Goal
    <3>1. (\E S : RevokeRows(S)) /\ UNCHANGED <<clock, pc, stamp, issuing>>
      BY <2>11 DEF Suspend, Delete, Quiet
    <3>2. QED
      BY <1>1, <2>0, <3>1, RevokeBeside
  <2>12. ASSUME Unsuspend \/ Tick PROVE Goal
    BY <1>1, <2>0, <2>12, IdleBeside DEF Unsuspend, Tick, Quiet, issuing, history, Holds
  <2>13. Goal
    BY <1>3, <2>1, <2>2, <2>3, <2>4, <2>5, <2>6, <2>7, <2>8, <2>9, <2>10, <2>11, <2>12
       DEF Next, LoginStep
  <2>14. Complete' /\ Timely'
    BY <1>3, NextComplete, NextTimely
  <2>15. QED
    BY <1>1, <2>13, <2>14 DEF EvictionInv, Goal
<1>4. QED
  BY <1>2, <1>3

\* Nothing has been issued at the start.
LEMMA InitEvictionInv == Init => EvictionInv
<1> SUFFICES ASSUME Init PROVE EvictionInv
  OBVIOUS
<1>1. IInv
  BY InitIInv
<1>2. Active = {} /\ back = {} /\ \A l \in Login : pc[l] = "idle"
  BY DEF Init, NoRow, Active, Live, Unrevoked
<1>3. Complete /\ Timely /\ Counted /\ ChosenOldest
  BY <1>2 DEF Init, NoRow, NotReading, Complete, Timely, Counted, ChosenOldest, Holds
<1>4. Bounded
  <2>1. Active \ back = {} /\ back \ Unrevoked = {}
    BY <1>2
  <2>2. Cardinality({}) = 0
    BY FS_EmptySet
  <2>3. QED
    BY <2>1, <2>2, LoginAssumption DEF Bounded
<1>5. QED
  BY <1>1, <1>3, <1>4 DEF EvictionInv

\* The eviction invariant holds throughout.
THEOREM EvictionInvariance == Spec => []EvictionInv
  BY InitEvictionInv, NextEvictionInv, PTL DEF Spec

\* An account has no more active sessions than MAX_ACTIVE_SESSIONS, apart from one
\* for each session that had ended and came back.
THEOREM LimitKept == Spec => []WithinLimitUnlessBack
<1>1. EvictionInv => WithinLimitUnlessBack
  <2> SUFFICES ASSUME EvictionInv PROVE WithinLimitUnlessBack
    OBVIOUS
  <2> DEFINE A == Active
             B == back
             U == back \ Unrevoked
  <2>1. A \subseteq Login /\ B \subseteq Login /\ U \subseteq Login
    BY DEF EvictionInv, IInv, TypeOK, Active, Live, Unrevoked
  <2>2. Cardinality(A \ B) <= MaxActive + Cardinality(U)
    BY DEF EvictionInv, Bounded
  <2>3. A \cap B \subseteq B \ U /\ U \subseteq B
    BY DEF Active, Live
  <2> HIDE DEF A, B, U
  <2>4. /\ IsFiniteSet(A) /\ IsFiniteSet(B) /\ IsFiniteSet(U) /\ IsFiniteSet(A \cap B)
        /\ IsFiniteSet(B \cap U)
    BY <2>1, Finite
  <2>5. Cardinality(A \ B) = Cardinality(A) - Cardinality(A \cap B)
    BY <2>4, FS_Difference
  <2>6. Cardinality(B \ U) = Cardinality(B) - Cardinality(B \cap U)
    BY <2>4, FS_Difference
  <2>7. Cardinality(B \cap U) = Cardinality(U)
    <3>1. B \cap U = U
      BY <2>3
    <3>2. QED
      BY <3>1
  <2>8. Cardinality(A \cap B) <= Cardinality(B \ U)
    <3>1. B \ U \subseteq Login
      BY <2>1
    <3>2. QED
      BY <2>3, <3>1, FewerIn
  <2>9. /\ Cardinality(A) \in Nat /\ Cardinality(B) \in Nat /\ Cardinality(U) \in Nat
        /\ Cardinality(A \cap B) \in Nat /\ Cardinality(B \ U) \in Nat /\ Cardinality(A \ B) \in Nat
    BY <2>1, Finite
  <2>10. Cardinality(A) <= MaxActive + Cardinality(B)
    BY <2>2, <2>5, <2>6, <2>7, <2>8, <2>9, LoginAssumption
  <2>11. QED
    BY <2>10 DEF A, B, WithinLimitUnlessBack
<1>2. QED
  BY <1>1, EvictionInvariance, PTL

\* The commit of an issue ends the least recently used sessions.
THEOREM LeastRecentlyUsedGoFirst == Spec => EvictsLeastRecentlyUsed
<1>1. EvictionInv /\ [Next]_vars =>
        [\A l \in Login : Commit(l) =>
           \A s \in chosen \ moved, t \in Active' \ back :
             sess'[s].lastUsed <= sess'[t].lastUsed]_vars
  <2> SUFFICES ASSUME EvictionInv, Next, NEW l \in Login, Commit(l),
                      NEW s \in chosen \ moved, NEW t \in Active' \ back
               PROVE  sess'[s].lastUsed <= sess'[t].lastUsed
    BY DEF vars
  <2>1. TypeOK /\ IInv'
    BY NextIInv DEF EvictionInv, IInv
  <2>2. t \in (Candidates(l) \ chosen) \ back
    BY <2>1, CommitEviction
  <2>3. LastUsed(l, s) <= LastUsed(l, t)
    BY <2>2 DEF EvictionInv, ChosenOldest, Commit
  <2>4. s \in Login /\ t \in Login
    BY <2>1, <2>2 DEF TypeOK, Candidates, Live, Unrevoked
  <2>5. /\ sess'[l] = NewRow(l)
        /\ \A x \in Login \ {l} : sess'[x].lastUsed = sess[x].lastUsed
    BY <2>1, CommitEffect
  <2>6. \A x \in Login : sess'[x].lastUsed = LastUsed(l, x)
    BY <2>5 DEF LastUsed, NewRow
  <2>7. QED
    BY <2>3, <2>4, <2>6
<1>2. QED
  BY <1>1, EvictionInvariance, PTL DEF Spec, EvictsLeastRecentlyUsed

\* The limit is kept, at the expense of the least recently used session.
THEOREM EvictionRules == Spec => EvictionSound
BY LimitKept, LeastRecentlyUsedGoFirst, PTL DEF EvictionSound

\* Sessions follow the account through password changes, suspension and deletion.
THEOREM AccountRules == Spec => []SessionsFollowAccount
<1>1. IInv => SessionsFollowAccount
  BY DEF IInv, SessionsFollowAccount
<1>2. QED
  BY <1>1, Invariance, PTL
-----------------------------------------------------------------------------
(***************************************************************************)
(* The sockets beside the sessions.                                        *)
(*                                                                         *)
(* The composition takes only steps of LoginSessions, so what is proved    *)
(* above holds beside the sockets too.  That sockets end with their        *)
(* session needs two more facts: which sockets are left once a transaction *)
(* has sent its disconnect (LeftOpen), and whom it spares (Spared).        *)
(***************************************************************************)


\* Every step of the composition is a step of LoginSessions, or none.
LEMMA StepsOfLogin == SocketNext => [Next]_vars
<1> SUFFICES ASSUME SocketNext PROVE Next \/ UNCHANGED vars
  OBVIOUS
<1>1. CASE QuietStep
  BY <1>1 DEF QuietStep, Free, Waiting, Next, LoginStep
<1>2. ASSUME NEW s \in Login, SocketStep(s) PROVE UNCHANGED vars
  BY <1>2 DEF SocketStep, Handshake, JoinUserRoom, JoinSessionRoom, Leave
<1>3. ASSUME NEW s \in Login, Revocation(s) PROVE Next
  BY <1>3 DEF Revocation, LogoutDisconnects, RevokeOwnedDisconnects, TerminateOthersDisconnects,
              ReuseDisconnects, CommitEvicts, Next, LoginStep
<1>4. CASE Transaction
  BY <1>4 DEF Transaction, BeginSuspend, CommitSuspend, BeginDelete, CommitDelete, Rollback,
              BeginChange, CommitChange, RollbackChange, Begin, Next
<1>5. QED
  BY <1>1, <1>2, <1>3, <1>4 DEF SocketNext

\* What holds of the sessions alone holds of them beside their sockets.
THEOREM ComposesLogin == SocketSpec => Spec
<1>1. SocketInit => Init
  BY DEF SocketInit
<1>2. [SocketNext]_allVars => [Next]_vars
  BY StepsOfLogin DEF allVars
<1>3. QED
  BY <1>1, <1>2, PTL DEF SocketSpec, Spec

-----------------------------------------------------------------------------

\* A socket belongs to a session nothing has revoked, or its revocation passed it
\* by.
Accounted == \A s \in Login : socket[s] # "none" => Standing(s) \/ s \in missed \cup evicted

\* After its disconnect an open transaction leaves no socket but the caller's and
\* those it missed.
LeftOpen == tx # "none" =>
  \A s \in Login : socket[s] # "none" /\ s \notin by => s \in missed \cup evicted

\* Only a password change spares a session.
Spared ==
  /\ tx \in {"none", "suspend", "delete"} => by = {}
  /\ tx = "change" => \E s \in Login : by = {s}

SocketInv == SocketTypeOK /\ Accounted /\ LeftOpen /\ Spared

\* Closing sockets keeps the types.
LEMMA DisconnectTypes ==
  ASSUME SocketTypeOK, NEW S
  PROVE  /\ DisconnectUserExcept(S) =>
              /\ socket' \in [Login -> SocketStage]
              /\ missed' \subseteq Login /\ evicted' \subseteq Login
         /\ \A s \in Login : DisconnectSession(s) =>
              /\ socket' \in [Login -> SocketStage]
              /\ missed' \subseteq Login /\ evicted' \subseteq Login
  BY DEF SocketTypeOK, SocketStage, DisconnectUserExcept, DisconnectSession, Close, Reached,
         InUserRoom, Entering

\* What disconnectUserExcept leaves: the excepted session's socket, and sockets
\* that were not in the room or had been missed before.
LEMMA UserDisconnected ==
  ASSUME SocketTypeOK, NEW S, DisconnectUserExcept(S), NEW s \in Login, socket'[s] # "none"
  PROVE  /\ socket[s] # "none"
         /\ s \notin S => s \in missed'
         /\ s \in missed \cup evicted => s \in missed' \cup evicted'
  BY DEF SocketTypeOK, SocketStage, DisconnectUserExcept, Close, Reached, InUserRoom, Entering

\* What disconnectSession leaves.
LEMMA SessionDisconnected ==
  ASSUME SocketTypeOK, NEW t \in Login, DisconnectSession(t), NEW s \in Login,
         socket'[s] # "none"
  PROVE  /\ socket[s] # "none"
         /\ s = t => s \in missed'
         /\ s \in missed \cup evicted => s \in missed' \cup evicted'
  BY DEF SocketTypeOK, SocketStage, DisconnectSession, Close, Entering

\* A revocation ends exactly the sessions it names.
LEMMA StaysStanding ==
  ASSUME TypeOK, NEW S, RevokeRows(S), answered' = answered, user' = user,
         NEW s \in Login, s \notin S, Standing(s)
  PROVE  Standing(s)'
  BY RevokeRowsEffect DEF Standing, Unrevoked

\* Handshakes and joins preserve the invariant.
LEMMA SocketStepInv ==
  ASSUME SocketInv, NEW s \in Login, SocketStep(s)
  PROVE  SocketInv'
<1> USE DEF SocketInv
<1>a. UNCHANGED vars /\ UNCHANGED <<tx, by>>
  BY DEF SocketStep, Handshake, JoinUserRoom, JoinSessionRoom, Leave
<1>b. TypeOK' /\ \A t \in Login : Standing(t)' = Standing(t)
  BY <1>a DEF SocketTypeOK, TypeOK, vars, issuing, account, requests, history, Standing, Unrevoked
<1>c. Accepted(s) => Standing(s)
  BY DEF Accepted, Standing, Active, Live
<1>1. CASE Handshake(s)
  BY <1>a, <1>b, <1>c, <1>1 DEF Handshake, Stage, SocketTypeOK, SocketStage, Accounted, LeftOpen, Spared
<1>2. CASE JoinUserRoom(s) \/ JoinSessionRoom(s)
  BY <1>a, <1>b, <1>2 DEF JoinUserRoom, JoinSessionRoom, Stage, SocketTypeOK, SocketStage,
                          Accounted, LeftOpen, Spared
<1>3. CASE Leave(s)
  BY <1>a, <1>b, <1>3 DEF Leave, Close, SocketTypeOK, SocketStage, Accounted, LeftOpen, Spared
<1>4. QED
  BY <1>1, <1>2, <1>3 DEF SocketStep

\* Steps without a disconnect end no accepted session.
LEMMA QuietStepInv ==
  ASSUME SocketInv, IInv', QuietStep
  PROVE  SocketInv'
<1> USE DEF SocketInv
<1>1. UNCHANGED socketVars /\ TypeOK' /\ TypeOK
  BY DEF QuietStep, IInv, SocketTypeOK
<1>2. ASSUME NEW s \in Login, Standing(s) PROVE Standing(s)'
  <2> USE DEF Standing, Unrevoked, account, requests
  <2>1. ASSUME NEW l \in Login, NEW p \in Password, CheckCredentials(l, p) PROVE Standing(s)'
    BY <1>2, <2>1 DEF CheckCredentials
  <2>2. ASSUME NEW l \in Login, Select(l) \/ Count(l) \/ ResetLimit(l) PROVE Standing(s)'
    BY <1>2, <2>2 DEF Select, Count, ResetLimit
  <2>3. ASSUME NEW t \in Login, Authenticate(t) \/ Refuse(t) \/ RefreshReads(t) PROVE Standing(s)'
    BY <1>2, <2>3 DEF Authenticate, Refuse, RefreshReads, EndRequest
  <2>4. ASSUME NEW l \in Login, Migrate(l) PROVE Standing(s)'
    BY <1>1, <1>2, <2>4 DEF Migrate, TypeOK
  <2>5. ASSUME NEW l \in Login, Save(l) PROVE Standing(s)'
    BY <1>1, <1>2, <2>5, SaveEffect DEF Save
  <2>6. ASSUME NEW t \in Login, Rotates(t) PROVE Standing(s)'
    BY <1>1, <1>2, <2>6, RotatesEffect DEF Rotates
  <2>7. ASSUME Unsuspend PROVE Standing(s)'
    BY <1>1, <1>2, <2>7 DEF Unsuspend, TypeOK
  <2>8. ASSUME Tick PROVE Standing(s)'
    BY <1>2, <2>8 DEF Tick
  <2>9. by \subseteq Login
    BY DEF SocketTypeOK
  <2>10. QED
    BY <2>1, <2>2, <2>3, <2>4, <2>5, <2>6, <2>7, <2>8, <2>9 DEF QuietStep, Free, Waiting
<1>3. QED
  BY <1>1, <1>2 DEF SocketTypeOK, Accounted, LeftOpen, Spared, socketVars

\* Revocations that disconnect after they commit preserve the invariant, and so
\* does an eviction, whose sockets are counted as evicted.
LEMMA RevocationInv ==
  ASSUME SocketInv, IInv, IInv', NEW s \in Login, Revocation(s)
  PROVE  SocketInv'
<1> USE DEF SocketInv
<1>1. TypeOK /\ TypeOK' /\ tx = "none" /\ UNCHANGED <<tx, by>> /\ LeftOpen' /\ Spared'
  BY DEF Revocation, LogoutDisconnects, RevokeOwnedDisconnects, TerminateOthersDisconnects,
         ReuseDisconnects, CommitEvicts, IInv, SocketTypeOK, LeftOpen, Spared
<1>2. ASSUME NEW t \in Login, RevokeRows({t}), answered' = answered, user' = user,
             DisconnectSession(t)
      PROVE  SocketInv'
  <2>1. SocketTypeOK'
    BY <1>1, <1>2, DisconnectTypes DEF SocketTypeOK
  <2>2. Accounted'
    BY <1>1, <1>2, SessionDisconnected, StaysStanding DEF Accounted
  <2>3. QED
    BY <1>1, <2>1, <2>2
<1>3. CASE LogoutDisconnects(s)
  BY <1>2, <1>3 DEF LogoutDisconnects, Logout, EndRequest, account
<1>4. ASSUME NEW target \in Login, RevokeOwnedDisconnects(s, target) PROVE SocketInv'
  BY <1>2, <1>4 DEF RevokeOwnedDisconnects, RevokeOwned, EndRequest, account
<1>r. CASE ReuseDisconnects(s)
  BY <1>2, <1>r DEF ReuseDisconnects, RevokesReused, account, requests
<1>5. CASE TerminateOthersDisconnects(s)
  <2>1. /\ RevokeRows(Others(s)) /\ answered' = answered /\ user' = user
        /\ DisconnectUserExcept({s})
    BY <1>5 DEF TerminateOthersDisconnects, TerminateOthers, EndRequest, account
  <2>2. SocketTypeOK'
    BY <1>1, <2>1, DisconnectTypes DEF SocketTypeOK
  <2>3. Accounted'
    BY <1>1, <2>1, UserDisconnected, StaysStanding DEF Accounted, Others
  <2>4. QED
    BY <1>1, <2>2, <2>3
<1>6. CASE CommitEvicts(s)
  <2>1. /\ Commit(s) /\ UNCHANGED <<user, answered, socket, missed>>
        /\ evicted' = evicted \cup {t \in chosen : socket[t] # "none"}
        /\ pc[s] = "commit"
    BY <1>6 DEF CommitEvicts, Commit, account, requests
  <2>2. SocketTypeOK'
    BY <1>1, <2>1 DEF SocketTypeOK, TypeOK
  <2>3. Accounted'
    <3> SUFFICES ASSUME NEW t \in Login, socket[t] # "none", Standing(t), t \notin chosen
                 PROVE  Standing(t)'
      BY <2>1 DEF Accounted
    <3>1. t # s
      BY <2>1 DEF Standing, Unrevoked, IInv, RowsFollowLogins
    <3>2. sess'[t].exists = sess[t].exists /\ sess'[t].revoked = sess[t].revoked
      BY <1>1, <2>1, <3>1, CommitEffect DEF TypeOK, Row
    <3>3. QED
      BY <2>1, <3>2 DEF Standing, Unrevoked
  <2>4. QED
    BY <1>1, <2>2, <2>3
<1>7. QED
  BY <1>3, <1>4, <1>5, <1>6, <1>r DEF Revocation

\* Transactions preserve the invariant: the disconnect leaves only what it
\* missed, and the commit ends only sessions whose sockets it had to leave.
LEMMA TransactionInv ==
  ASSUME SocketInv, IInv', Transaction
  PROVE  SocketInv'
<1> USE DEF SocketInv
<1>1. TypeOK /\ TypeOK'
  BY DEF IInv, SocketTypeOK
<1>2. ASSUME NEW kind \in {"suspend", "delete", "change"}, NEW S \in SUBSET Login,
             Begin(kind, S), kind = "change" => \E s \in Login : S = {s},
             kind # "change" => S = {}
      PROVE  SocketInv'
  <2>1. SocketTypeOK'
    BY <1>1, <1>2, DisconnectTypes DEF SocketTypeOK, Begin
  <2>2. \A t \in Login : Standing(t)' = Standing(t)
    BY <1>2 DEF Begin, vars, account, requests, Standing, Unrevoked
  <2>3. Accounted'
    BY <1>2, <2>2, UserDisconnected DEF Begin, Accounted
  <2>4. LeftOpen'
    BY <1>2, UserDisconnected DEF Begin, LeftOpen
  <2>5. Spared'
    BY <1>2 DEF Begin, Spared
  <2>6. QED
    BY <2>1, <2>3, <2>4, <2>5
<1>3. ASSUME EndTx, \A t \in by : Standing(t) => Standing(t)', tx # "none" PROVE SocketInv'
  BY <1>1, <1>3 DEF EndTx, SocketTypeOK, Accounted, LeftOpen, Spared
<1>4. CASE BeginSuspend \/ BeginDelete
  BY <1>2, <1>4 DEF BeginSuspend, BeginDelete
<1>5. ASSUME NEW s \in Login, BeginChange(s) PROVE SocketInv'
  BY <1>2, <1>5 DEF BeginChange
<1>6. CASE CommitSuspend \/ CommitDelete
  <2>1. by = {} /\ EndTx /\ tx # "none"
    BY <1>6 DEF CommitSuspend, CommitDelete, Spared
  <2>2. QED
    BY <1>3, <2>1
<1>7. ASSUME NEW s \in Login, CommitChange(s) PROVE SocketInv'
  <2>1. by = {s} /\ EndTx /\ tx # "none"
    BY <1>7 DEF CommitChange, Spared
  <2>2. Standing(s) => Standing(s)'
    <3>1. RevokeRows(Others(s)) /\ answered' = answered /\ user'.status = user.status
          /\ user'.deleted = user.deleted
      BY <1>1, <1>7 DEF CommitChange, ChangePassword, EndRequest, TypeOK
    <3>2. sess'[s].exists = sess[s].exists /\ sess'[s].revoked = sess[s].revoked
      BY <1>1, <3>1, RevokeRowsEffect DEF Others, TypeOK, Row
    <3>3. QED
      BY <3>1, <3>2 DEF Standing, Unrevoked
  <2>3. QED
    BY <1>3, <2>1, <2>2
<1>8. CASE Rollback
  BY <1>3, <1>8 DEF Rollback, vars, account, requests, Standing, Unrevoked
<1>9. ASSUME NEW s \in Login, RollbackChange(s) PROVE SocketInv'
  <2>1. UNCHANGED <<user, sess, answered>> /\ EndTx /\ tx # "none"
    BY <1>9 DEF RollbackChange, Refuse, EndRequest, account
  <2>2. QED
    BY <1>3, <2>1 DEF Standing, Unrevoked
<1>10. QED
  BY <1>4, <1>5, <1>6, <1>7, <1>8, <1>9 DEF Transaction

\* The invariant holds throughout.
THEOREM SocketInvariance == SocketSpec => []SocketInv
<1>1. SocketInit => SocketInv
  <2> SUFFICES ASSUME SocketInit PROVE SocketInv
    OBVIOUS
  <2>1. TypeOK
    BY InitIInv DEF SocketInit, IInv
  <2>2. QED
    BY <2>1 DEF SocketInit, SocketInv, SocketTypeOK, SocketStage, Accounted, LeftOpen, Spared
<1>2. SocketInv /\ IInv /\ IInv' /\ [SocketNext]_allVars => SocketInv'
  <2> SUFFICES ASSUME SocketInv, IInv, IInv', [SocketNext]_allVars PROVE SocketInv'
    OBVIOUS
  <2>1. CASE SocketNext
    BY <2>1, SocketStepInv, QuietStepInv, RevocationInv, TransactionInv DEF SocketNext
  <2>2. CASE UNCHANGED allVars
    BY <2>2 DEF allVars, vars, socketVars, SocketInv, SocketTypeOK, TypeOK, Accounted, LeftOpen,
                Spared, Standing, Unrevoked, issuing, account, requests, history
  <2>3. QED
    BY <2>1, <2>2
<1>3. QED
  BY <1>1, <1>2, ComposesLogin, Invariance, PTL DEF SocketSpec

\* Every variable of the composition keeps its type.
THEOREM SocketTypeCorrect == SocketSpec => []SocketTypeOK
<1>1. SocketInv => SocketTypeOK
  BY DEF SocketInv
<1>2. QED
  BY <1>1, SocketInvariance, PTL

\* A socket outlives the revocation of its session only by an overlapping
\* handshake or an eviction.
THEOREM SocketsEnd == SocketSpec => []SocketsEndWithSession
<1>1. SocketInv => SocketsEndWithSession
  BY DEF SocketInv, Accounted, SocketsEndWithSession
<1>2. QED
  BY <1>1, SocketInvariance, PTL
=============================================================================
