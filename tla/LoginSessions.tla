----------------------------- MODULE LoginSessions -----------------------------
(***************************************************************************)
(* The sessions of one account: Login.login, SessionIssueUseCase and       *)
(* everything that revokes a session (logout, revocation of another        *)
(* device, password change, suspension, deletion).                         *)
(*                                                                         *)
(* A login is several awaits long: it checks the credentials, issues the   *)
(* session in a transaction that locks the user row (count, query, then    *)
(* update), signs the tokens and saves the session entity once more to     *)
(* store the hash.  The save is TypeORM's: it writes every column in which *)
(* the entity, read when the row was inserted, differs from the row,       *)
(* isRevoked included.                                                     *)
(*                                                                         *)
(* The user row serialises issue transactions with one another and with    *)
(* suspend, delete and change password, each of which is one step.  It     *)
(* does not hold back logouts, refreshes or late saves: those fall between *)
(* the statements of an issue.  A session is named after its login.        *)
(***************************************************************************)
EXTENDS Integers, FiniteSets

CONSTANTS Login,      \* login attempts
          MaxActive,  \* MAX_ACTIVE_SESSIONS
          SessionLife,\* instants until a session expires, unless refreshed
          MaxClock,   \* bound: the last instant of the clock
          MaxChanges, \* bound: password changes and suspensions together
          MaxRequests, MaxRefreshes, \* bounds: how many are in progress at a time
          FirstAlgo   \* algorithms the stored hash may start with

Bcrypt == "bcrypt"
Argon  == "argon2id"

ASSUME LoginAssumption ==
  /\ IsFiniteSet(Login)
  /\ FirstAlgo \subseteq {Bcrypt, Argon}
  /\ MaxActive \in Nat \ {0}
  /\ SessionLife \in Nat \ {0}
  /\ {MaxClock, MaxChanges, MaxRequests, MaxRefreshes} \subseteq Nat

Password == 0..MaxChanges
Clock    == 0..MaxClock

VARIABLES
  user,     \* the user row: status, deletion, password hash
  suspensions, \* how often the account has been suspended
  sess,     \* the session rows
  clock,
  pc,       \* the next await of each login
  typed,    \* the password each login submitted
  stamp,    \* nowDate, taken before the transaction opens
  excess,   \* how many sessions the open issue transaction has to end
  chosen,   \* the sessions it has selected for that
  reading,  \* instant at which a refresh read each session, or NotReading
  oldHash,  \* bcrypt hash a login migrates in the background, or NoHash
  request,  \* sessions with an authenticated request in progress
  answered, \* logins that were answered with tokens
  revokedOnce, \* history: sessions that were revoked at some time
  cutter,      \* history: sessions whose owner changed the password with them
  straddled,   \* history: logins in flight across an account-wide revocation
  back,        \* history: sessions that had ended and came back
  moved        \* history: sessions refreshed after they were chosen

issuing  == <<excess, chosen>>
account  == <<user, suspensions, typed, oldHash, cutter, straddled>>
requests == <<request, answered>>
history  == <<revokedOnce, back, moved>>
vars == <<sess, clock, pc, stamp, reading, issuing, account, requests, history>>

Hash     == [password : Password, algo : {Bcrypt, Argon}]
NoHash   == [password |-> -1, algo |-> "none"]
Row      == [exists : BOOLEAN, revoked : BOOLEAN, lastUsed : Clock, expires : Nat]
NoRow    == [exists |-> FALSE, revoked |-> FALSE, lastUsed |-> 0, expires |-> 0]
NotReading == -1

Label == {"idle", "issue", "select", "commit", "save", "reset", "done"}

TypeOK ==
  /\ user \in [status : {"ACTIVATE", "SUSPEND"}, deleted : BOOLEAN, hash : Hash]
  /\ suspensions \in Nat
  /\ sess \in [Login -> Row]
  /\ clock \in Clock
  /\ pc \in [Login -> Label]
  /\ typed \in [Login -> Password]
  /\ stamp \in [Login -> Clock]
  /\ excess \in Nat
  /\ chosen \subseteq Login
  /\ reading \in [Login -> Clock \cup {NotReading}]
  /\ oldHash \in [Login -> Hash \cup {NoHash}]
  /\ request \subseteq Login
  /\ answered \subseteq Login
  /\ revokedOnce \subseteq Login
  /\ cutter \subseteq Login
  /\ straddled \subseteq Login
  /\ back \subseteq Login
  /\ moved \subseteq Login

Init ==
  /\ user \in [status : {"ACTIVATE"}, deleted : {FALSE},
               hash : [password : {0}, algo : FirstAlgo]]
  /\ suspensions = 0
  /\ sess = [l \in Login |-> NoRow]
  /\ clock = 0
  /\ pc = [l \in Login |-> "idle"]
  /\ typed = [l \in Login |-> 0]
  /\ stamp = [l \in Login |-> 0]
  /\ excess = 0
  /\ chosen = {}
  /\ reading = [s \in Login |-> NotReading]
  /\ oldHash = [l \in Login |-> NoHash]
  /\ request = {}
  /\ answered = {}
  /\ revokedOnce = {}
  /\ cutter = {}
  /\ straddled = {}
  /\ back = {}
  /\ moved = {}

Goto(l, label) == pc' = [pc EXCEPT ![l] = label]

\* Rows that no revocation has ended; they may have expired.
Unrevoked == {s \in Login : sess[s].exists /\ ~sess[s].revoked}

\* isRevoked = false AND expiresAt > t.
Live(t) == {s \in Unrevoked : sess[s].expires > t}
Active  == Live(clock)

\* UPDATE session SET isRevoked = true for the sessions in S.
Revoked(S) == [s \in Login |-> IF s \in S THEN [sess[s] EXCEPT !.revoked = TRUE] ELSE sess[s]]

RevokeRows(S) ==
  /\ sess' = Revoked(S \cap Unrevoked)
  /\ revokedOnce' = revokedOnce \cup (S \cap Unrevoked)
  /\ UNCHANGED <<back, moved>>

InFlight == {l \in Login : pc[l] \in {"issue", "select", "commit", "save"}}

\* An issue transaction holds the user row from its first statement to its commit.
UserLocked == \E l \in Login : pc[l] \in {"select", "commit"}

-----------------------------------------------------------------------------
(* Login *)

SnapshotLate == clock + MaxClock + 1

\* ClockService.snapshot: now, and expiresAt one lifetime later.
SnapshotNow == clock
ExpiresAt(now) == now + SessionLife

\* Credentials and status are read once, before anything is locked.  A bcrypt
\* hash is rehashed in the background.
CheckCredentials(l, p) ==
  /\ pc[l] = "idle"
  /\ IF ~user.deleted /\ user.hash.password = p /\ user.status = "ACTIVATE"
       THEN /\ typed' = [typed EXCEPT ![l] = p]
            /\ stamp' = [stamp EXCEPT ![l] = SnapshotNow]
            /\ oldHash' = [oldHash EXCEPT ![l] =
                             IF user.hash.algo = Bcrypt THEN user.hash ELSE NoHash]
            /\ Goto(l, "issue")
       ELSE Goto(l, "done") /\ UNCHANGED <<typed, stamp, oldHash>>
  /\ UNCHANGED <<user, suspensions, sess, clock, reading, cutter, straddled, issuing, requests,
                 history>>

MigrationAlwaysWrites(l) == TRUE

\* updatePasswordHashConditional: only while the hash is still the one compared.
MigrationMatches(l) == user.hash = oldHash[l]

Migrate(l) ==
  /\ oldHash[l] # NoHash
  /\ ~UserLocked
  /\ user' = IF MigrationMatches(l)
               THEN [user EXCEPT !.hash = [password |-> typed[l], algo |-> Argon]]
               ELSE user
  /\ oldHash' = [oldHash EXCEPT ![l] = NoHash]
  /\ UNCHANGED <<suspensions, sess, clock, pc, typed, stamp, reading, cutter, straddled, issuing,
                 requests, history>>

\* The sessions the issue transaction of l counts and selects from: those live at
\* the stamp taken before it opened, and its own row, which only it sees.
Candidates(l) == Live(stamp[l]) \cup {l}

\* SELECT ... FOR UPDATE of the user, INSERT, COUNT.
Count(l) ==
  /\ pc[l] = "issue"
  /\ ~UserLocked
  /\ IF user.deleted
       THEN /\ Goto(l, "done")
            /\ UNCHANGED excess
       ELSE LET n == Cardinality(Candidates(l))
            IN IF n > MaxActive
                 THEN Goto(l, "select") /\ excess' = n - MaxActive
                 ELSE Goto(l, "commit") /\ UNCHANGED excess
  /\ UNCHANGED <<sess, clock, stamp, reading, chosen, account, requests, history>>

\* lastUsedAt of a candidate; the new row's is the stamp.
LastUsed(l, s) == IF s = l THEN stamp[l] ELSE sess[s].lastUsed

NewestFirst(l, S) ==
  \A s \in S, t \in Candidates(l) \ S : LastUsed(l, s) >= LastUsed(l, t)

\* ORDER BY lastUsedAt ASC; createdAt and id decide ties, which are left open here.
OldestFirst(l, S) ==
  \A s \in S, t \in Candidates(l) \ S : LastUsed(l, s) <= LastUsed(l, t)

\* LIMIT excess.
Limited(l, S) == Cardinality(S) = excess \/ (Cardinality(S) < excess /\ S = Candidates(l))

\* The query runs on what has been committed since the count.
Select(l) ==
  /\ pc[l] = "select"
  /\ \E S \in SUBSET Candidates(l) :
       /\ Limited(l, S)
       /\ OldestFirst(l, S)
       /\ chosen' = S
  /\ Goto(l, "commit")
  /\ UNCHANGED <<sess, clock, stamp, reading, excess, account, requests, history>>

NewRow(l) == [exists |-> TRUE, revoked |-> l \in chosen,
              lastUsed |-> stamp[l], expires |-> ExpiresAt(stamp[l])]

\* The chosen rows are revoked by id, whatever became of them since the query.
Commit(l) ==
  /\ pc[l] = "commit"
  /\ sess' = [Revoked(chosen) EXCEPT ![l] = NewRow(l)]
  /\ revokedOnce' = revokedOnce \cup chosen
  /\ chosen' = {} /\ excess' = 0 /\ moved' = {}
  /\ stamp' = [stamp EXCEPT ![l] = 0]
  /\ Goto(l, "save")
  /\ UNCHANGED <<clock, reading, back, account, requests>>

\* issuePair and saveHash: the entity still says isRevoked = false.
Save(l) ==
  /\ pc[l] = "save"
  /\ sess' = [sess EXCEPT ![l].revoked = FALSE]
  /\ back' = IF sess[l].revoked THEN back \cup {l} ELSE back
  /\ Goto(l, "reset")
  /\ UNCHANGED <<clock, stamp, reading, revokedOnce, moved, issuing, account, requests>>

\* The rate-limit counter is reset; when Redis is down the login fails after all.
ResetLimit(l) ==
  /\ pc[l] = "reset"
  /\ answered' \in {answered, answered \cup {l}}
  /\ Goto(l, "done")
  /\ UNCHANGED <<sess, clock, stamp, reading, request, issuing, account, history>>

-----------------------------------------------------------------------------
(* Requests of a signed-in client *)

Changes == user.hash.password + suspensions

\* TokenValidationService.validate.
Accepted(s) ==
  /\ s \in answered
  /\ s \in Active
  /\ user.status = "ACTIVATE"
  /\ ~user.deleted

\* The guard lets a request through; what it asks for happens later.
Authenticate(s) ==
  /\ s \notin request /\ Cardinality(request) < MaxRequests
  /\ Accepted(s)
  /\ request' = request \cup {s}
  /\ UNCHANGED <<sess, clock, pc, stamp, reading, answered, issuing, account, history>>

EndRequest(s) == s \in request /\ request' = request \ {s} /\ UNCHANGED answered

Quiet == UNCHANGED <<clock, pc, stamp, reading, issuing>>

\* Refused later on, as by a current password that does not match.
Refuse(s) == EndRequest(s) /\ Quiet /\ UNCHANGED <<sess, account, history>>

Logout(s) == EndRequest(s) /\ RevokeRows({s}) /\ Quiet /\ UNCHANGED account

\* Only another session that is active when it is looked up.
RevokeOwned(s, target) ==
  /\ EndRequest(s)
  /\ target # s /\ target \in Active
  /\ RevokeRows({target})
  /\ Quiet /\ UNCHANGED account

\* revokeSessionsExceptCurrent.
Others(s) == Login \ {s}

TerminateOthers(s) == EndRequest(s) /\ RevokeRows(Others(s)) /\ Quiet /\ UNCHANGED account

\* The current password is compared before the transaction opens; the
\* transaction writes the new hash and ends every other session.
ChangePassword(s) ==
  /\ EndRequest(s)
  /\ ~UserLocked
  /\ Changes < MaxChanges
  /\ user' = [user EXCEPT !.hash = [password |-> user.hash.password + 1, algo |-> Argon]]
  /\ RevokeRows(Others(s))
  /\ cutter' = cutter \cup {s}
  /\ straddled' = straddled \cup InFlight
  /\ Quiet /\ UNCHANGED <<suspensions, typed, oldHash>>

\* Refresh finds the session active and takes its snapshot; only the session is
\* read, not the account.
RefreshReads(s) ==
  /\ s \in answered
  /\ s \in Active
  /\ Cardinality({t \in Login \ {s} : reading[t] # NotReading}) < MaxRefreshes
  /\ reading' = [reading EXCEPT ![s] = clock]
  /\ UNCHANGED <<sess, clock, pc, stamp, issuing, account, requests, history>>

\* rotateRefreshToken: an UPDATE by id, hash and version, which looks at neither
\* isRevoked nor expiresAt.
Rotates(s) ==
  /\ reading[s] # NotReading
  /\ sess' = [sess EXCEPT ![s].lastUsed = reading[s], ![s].expires = ExpiresAt(reading[s])]
  /\ reading' = [reading EXCEPT ![s] = NotReading]
  /\ back' = IF s \in Unrevoked \ Active THEN back \cup {s} ELSE back
  /\ moved' = moved \cup ({s} \cap chosen)
  /\ UNCHANGED <<clock, pc, stamp, revokedOnce, issuing, account, requests>>

\* A refresh with a token that is not the current one ends the session.
RevokesReused(s) ==
  /\ reading[s] # NotReading
  /\ RevokeRows({s})
  /\ reading' = [reading EXCEPT ![s] = NotReading]
  /\ UNCHANGED <<clock, pc, stamp, issuing, account, requests>>

-----------------------------------------------------------------------------
(* The account *)

SuspendedKeepingSessions == {}

\* revokeAllSessionsForUser.
RevokedWithAccount == Login

Suspend ==
  /\ user.status = "ACTIVATE" /\ ~user.deleted /\ ~UserLocked
  /\ Changes < MaxChanges
  /\ suspensions' = suspensions + 1
  /\ user' = [user EXCEPT !.status = "SUSPEND"]
  /\ RevokeRows(RevokedWithAccount)
  /\ straddled' = straddled \cup InFlight
  /\ Quiet /\ UNCHANGED <<typed, oldHash, cutter, requests>>

Unsuspend ==
  /\ user.status = "SUSPEND" /\ ~user.deleted /\ ~UserLocked
  /\ user' = [user EXCEPT !.status = "ACTIVATE"]
  /\ Quiet /\ UNCHANGED <<suspensions, sess, typed, oldHash, cutter, straddled, requests, history>>

Delete ==
  /\ ~user.deleted /\ ~UserLocked
  /\ user' = [user EXCEPT !.deleted = TRUE]
  /\ RevokeRows(RevokedWithAccount)
  /\ straddled' = straddled \cup InFlight
  /\ Quiet /\ UNCHANGED <<suspensions, typed, oldHash, cutter, requests>>

Tick ==
  /\ clock < MaxClock
  /\ clock' = clock + 1
  /\ UNCHANGED <<sess, pc, stamp, reading, issuing, account, requests, history>>

-----------------------------------------------------------------------------

LoginStep(l) == Count(l) \/ Select(l) \/ Commit(l) \/ Save(l) \/ ResetLimit(l)

Next ==
  \/ \E l \in Login : \/ \E p \in Password : CheckCredentials(l, p)
                      \/ Migrate(l)
                      \/ LoginStep(l)
  \/ \E s \in Login : \/ Authenticate(s) \/ Refuse(s)
                      \/ Logout(s)
                      \/ \E target \in Login : RevokeOwned(s, target)
                      \/ TerminateOthers(s)
                      \/ ChangePassword(s)
                      \/ RefreshReads(s) \/ Rotates(s) \/ RevokesReused(s)
  \/ Suspend \/ Unsuspend \/ Delete
  \/ Tick

Spec == Init /\ [][Next]_vars

-----------------------------------------------------------------------------
(* Properties *)

\* An account has no more active sessions than MAX_ACTIVE_SESSIONS, and one more
\* for each session that had ended and came back: by a login's own save over a
\* revocation, or by a refresh that read the session before it expired.
WithinLimitUnlessBack == Cardinality(Active) <= MaxActive + Cardinality(back)

\* Eviction takes the least recently used: no session survives one used later,
\* save that a session refreshed between the query and the update is still
\* evicted, and one that comes back in between is not looked at.
EvictsLeastRecentlyUsed ==
  [][\A l \in Login : Commit(l) =>
       \A s \in chosen \ moved, t \in Active' \ back :
         sess'[s].lastUsed <= sess'[t].lastUsed]_vars

\* The limit is kept by ending the session that has been idle longest, also when
\* sign-ins, refreshes, revocations and their late writes cross.
EvictionSound == []WithinLimitUnlessBack /\ EvictsLeastRecentlyUsed

\* Once a session's hash has been stored, nothing makes it active again.
RevocationPermanent ==
  [][\A s \in Login : sess[s].revoked /\ pc[s] # "save" => sess'[s].revoked]_vars

\* After a password change every session that was opened with an older password
\* is over, except the one that changed it and logins in flight at that moment.
OldPasswordSessionsEnd ==
  \A s \in Unrevoked :
    typed[s] = user.hash.password \/ s \in cutter \cup straddled

\* A suspended or deleted account has no session but those of logins that were
\* in flight when it was suspended or deleted.
NoSessionWithoutAccount ==
  user.status = "SUSPEND" \/ user.deleted => Unrevoked \subseteq straddled

\* Sessions follow the account: neither an old password nor a suspension or a
\* deletion leaves one behind.
SessionsFollowAccount == OldPasswordSessionsEnd /\ NoSessionWithoutAccount

\* The background rehash never undoes a password change.
MigrationKeepsPassword ==
  [][\A l \in Login : Migrate(l) => user'.hash.password = user.hash.password]_vars

\* What a login writes after its session exists undoes neither a revocation, once
\* its hash is stored, nor a password change.
LateWritesContained == RevocationPermanent /\ MigrationKeepsPassword

\* The comment on performRevoke: a revoked session's next HTTP request would be
\* rejected by TokenValidationService.
RevokedIsRejected == \A s \in revokedOnce : ~Accepted(s)
=============================================================================
