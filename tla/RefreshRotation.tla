---------------------------- MODULE RefreshRotation ----------------------------
(***************************************************************************)
(* POST /auth/refresh on one session: Refresh.refresh with the Redis lock, *)
(* the session row, the compare-and-swap rotation and the grace-window     *)
(* record of RefreshReplayService.                                         *)
(*                                                                         *)
(* Every await of the use case ends a step, so requests interleave at each *)
(* call to Redis or PostgreSQL.  The lock is advisory: its 5 s TTL may run *)
(* out while its owner is still working.  A request mints the token named  *)
(* after it (each refresh JWT carries a random jti, so no two are equal),  *)
(* and a retry is another request.  SHA-256 digests are represented by the *)
(* token they are the digest of.                                           *)
(***************************************************************************)
EXTENDS Integers

CONSTANTS Request,        \* refresh requests
          Root,           \* the token that login handed out
          None,           \* absent token, request or record
          LockCanExpire,  \* a request may outlive the TTL of REFRESH_LOCK
          GraceCanExpire, \* a request may arrive after the grace window
          CanFail         \* instances crash, Redis and PostgreSQL calls throw

Token == Request \cup {Root}

ASSUME RotationAssumption ==
  /\ Root \notin Request
  /\ None \notin Token
  /\ {LockCanExpire, GraceCanExpire, CanFail} \subseteq BOOLEAN

Unborn == -1

VARIABLES
  row,       \* the session row: [hash, version, revoked, expired]
  lock,      \* the request whose lock token the Redis key holds, or None
  replay,    \* consumed token -> [token, version] it rotated into, or NoRecord
  pc,        \* the next await of each request
  presented, \* the token each request carries
  snap,      \* the [hash, version] each request read, NoSnap before
  outcome,   \* what each request will answer, or has answered
  given,     \* the refresh token in that answer
  held,      \* tokens that have reached a client
  gen,       \* history: the generation at which a token was committed
  disturbed  \* history: something failed, or a deadline of Redis passed

vars == <<row, lock, replay, pc, presented, snap, outcome, given, held, gen, disturbed>>

history == <<gen, disturbed>>

NoSnap   == [hash |-> None, version |-> 0]
NoRecord == [token |-> None, version |-> 0]

Working  == {"read", "lookup", "revoke", "rotate", "remember"}
Outcome  == {"none", "tokens", "limited", "expired", "reuse", "conflict", "error"}

TypeOK ==
  /\ row \in [hash : Token, version : Nat, revoked : BOOLEAN, expired : BOOLEAN]
  /\ lock \in Request \cup {None}
  /\ replay \in [Token -> [token : Token \cup {None}, version : Nat]]
  /\ pc \in [Request -> Working \cup {"idle", "release", "done"}]
  /\ presented \in [Request -> Token \cup {None}]
  /\ snap \in [Request -> [hash : Token \cup {None}, version : Nat]]
  /\ outcome \in [Request -> Outcome]
  /\ given \in [Request -> Token \cup {None}]
  /\ held \subseteq Token
  /\ gen \in [Token -> Nat \cup {Unborn}]
  /\ disturbed \in BOOLEAN

Init ==
  /\ row = [hash |-> Root, version |-> 0, revoked |-> FALSE, expired |-> FALSE]
  /\ lock = None
  /\ replay = [t \in Token |-> NoRecord]
  /\ pc = [r \in Request |-> "idle"]
  /\ presented = [r \in Request |-> None]
  /\ snap = [r \in Request |-> NoSnap]
  /\ outcome = [r \in Request |-> "none"]
  /\ given = [r \in Request |-> None]
  /\ held = {Root}
  /\ gen = [t \in Token |-> IF t = Root THEN 0 ELSE Unborn]
  /\ disturbed = FALSE

Goto(r, label) == pc' = [pc EXCEPT ![r] = label]

\* try/finally: the answer is decided, the lock is still to be released.
Decide(r, what, token) ==
  /\ outcome' = [outcome EXCEPT ![r] = what]
  /\ given' = [given EXCEPT ![r] = token]
  /\ Goto(r, "release")

-----------------------------------------------------------------------------
(* The request *)

\* SET NX EX on refresh:lock; a held lock answers 429 without reading anything.
Acquire(r, t) ==
  /\ pc[r] = "idle"
  /\ t \in held
  /\ presented' = [presented EXCEPT ![r] = t]
  /\ IF lock = None
       THEN /\ lock' = r
            /\ Goto(r, "read")
            /\ UNCHANGED outcome
       ELSE /\ outcome' = [outcome EXCEPT ![r] = "limited"]
            /\ Goto(r, "done")
            /\ UNCHANGED lock
  /\ UNCHANGED <<row, replay, snap, given, held, history>>

SessionActive == ~row.revoked /\ ~row.expired

\* findActive, and the comparison with the presented token that follows it.
Read(r) ==
  /\ pc[r] = "read"
  /\ IF SessionActive
       THEN /\ snap' = [snap EXCEPT ![r] = [hash |-> row.hash, version |-> row.version]]
            /\ Goto(r, IF presented[r] = row.hash THEN "rotate" ELSE "lookup")
            /\ UNCHANGED <<outcome, given>>
       ELSE /\ Decide(r, "expired", None)
            /\ UNCHANGED snap
  /\ UNCHANGED <<row, lock, replay, presented, held, history>>

RacedAnyGeneration(r) == replay[presented[r]] # NoRecord

RacedSameVersion(r) ==
  replay[presented[r]] # NoRecord /\ replay[presented[r]].version = snap[r].version

\* RefreshReplayService.find: a record exactly one generation behind the row read.
Raced(r) ==
  LET record == replay[presented[r]] IN
  /\ record # NoRecord
  /\ record.version = snap[r].version - 1

Lookup(r) ==
  /\ pc[r] = "lookup"
  /\ IF Raced(r)
       THEN Decide(r, "tokens", replay[presented[r]].token)
       ELSE Goto(r, "revoke") /\ UNCHANGED <<outcome, given>>
  /\ UNCHANGED <<row, lock, replay, presented, snap, held, history>>

RevokeReused(r) ==
  /\ pc[r] = "revoke"
  /\ row' = [row EXCEPT !.revoked = TRUE]
  /\ Decide(r, "reuse", None)
  /\ UNCHANGED <<lock, replay, presented, snap, held, history>>

\* The WHERE clause of rotateRefreshToken, which does not look at isRevoked.
RotationMatches(r) == row.hash = snap[r].hash /\ row.version = snap[r].version

RotatedBackwards(r) == [row EXCEPT !.hash = r, !.version = @ - 1, !.expired = FALSE]

RotatedReviving(r) ==
  [hash |-> r, version |-> row.version + 1, revoked |-> FALSE, expired |-> FALSE]

\* Its SET clause: new hash, new expiresAt, version + 1.
Rotated(r) ==
  [row EXCEPT !.hash = r, !.version = @ + 1, !.expired = FALSE]

Rotate(r) ==
  /\ pc[r] = "rotate"
  /\ IF RotationMatches(r)
       THEN /\ row' = Rotated(r)
            /\ gen' = [gen EXCEPT ![r] = row.version + 1]
            /\ Goto(r, "remember")
            /\ UNCHANGED <<outcome, given>>
       ELSE /\ Decide(r, "conflict", None)
            /\ UNCHANGED <<row, gen>>
  /\ UNCHANGED <<lock, replay, presented, snap, held, disturbed>>

\* RefreshReplayService.remember, keyed by the consumed token.
ReplayRecord(r) == [token |-> r, version |-> snap[r].version]

Remember(r) ==
  /\ pc[r] = "remember"
  /\ replay' = [replay EXCEPT ![presented[r]] = ReplayRecord(r)]
  /\ Decide(r, "tokens", r)
  /\ UNCHANGED <<row, lock, presented, snap, held, history>>

\* compareAndDelete: only the owner's lock token deletes the key.
LockReleased(r) == IF lock = r THEN None ELSE lock

\* The finally block and the response, which the network may lose.
Release(r) ==
  /\ pc[r] = "release"
  /\ lock' = LockReleased(r)
  /\ Goto(r, "done")
  /\ held' \in {held} \cup {held \cup {t} : t \in {given[r]} \ {None}}
  /\ UNCHANGED <<row, replay, presented, snap, outcome, given, history>>

-----------------------------------------------------------------------------
(* The environment *)

\* An await throws before taking effect; the finally block still runs.
Fail(r) ==
  /\ CanFail
  /\ pc[r] \in Working
  /\ Decide(r, "error", None)
  /\ disturbed' = TRUE
  /\ UNCHANGED <<row, lock, replay, presented, snap, held, gen>>

\* The instance dies, or the release itself throws: the key stays, no answer.
Crash(r) ==
  /\ CanFail
  /\ pc[r] \in Working \cup {"release"}
  /\ outcome' = [outcome EXCEPT ![r] = "error"]
  /\ given' = [given EXCEPT ![r] = None]
  /\ Goto(r, "done")
  /\ disturbed' = TRUE
  /\ UNCHANGED <<row, lock, replay, presented, snap, held, gen>>

LockLastsForever == FALSE /\ UNCHANGED vars

\* The TTL of the lock runs out; only a dead owner's lock when requests are fast.
LockExpires ==
  /\ lock # None
  /\ LockCanExpire \/ pc[lock] = "done"
  /\ lock' = None
  /\ disturbed' = TRUE
  /\ UNCHANGED <<row, replay, pc, presented, snap, outcome, given, held, gen>>

GraceExpires(t) ==
  /\ GraceCanExpire
  /\ replay[t] # NoRecord
  /\ replay' = [replay EXCEPT ![t] = NoRecord]
  /\ disturbed' = TRUE
  /\ UNCHANGED <<row, lock, pc, presented, snap, outcome, given, held, gen>>

\* Logout, revocation from another device, password change, suspension...
RevokedElsewhere ==
  /\ ~row.revoked
  /\ row' = [row EXCEPT !.revoked = TRUE]
  /\ UNCHANGED <<lock, replay, pc, presented, snap, outcome, given, held, history>>

\* expiresAt passes; a rotation that read the row before extends it again.
SessionExpires ==
  /\ ~row.expired
  /\ row' = [row EXCEPT !.expired = TRUE]
  /\ UNCHANGED <<lock, replay, pc, presented, snap, outcome, given, held, history>>

-----------------------------------------------------------------------------

Step(r) == Read(r) \/ Lookup(r) \/ RevokeReused(r) \/ Rotate(r) \/ Remember(r) \/ Release(r)

Next ==
  \/ \E r \in Request : \/ \E t \in Token : Acquire(r, t)
                        \/ Step(r)
                        \/ Fail(r)
                        \/ Crash(r)
  \/ \E t \in Token : GraceExpires(t)
  \/ LockExpires
  \/ RevokedElsewhere
  \/ SessionExpires

Spec == Init /\ [][Next]_vars

\* A running request keeps running unless its instance dies; Redis expires keys.
Fairness == (\A r \in Request : WF_vars(Step(r))) /\ WF_vars(LockExpires)

FairSpec == Spec /\ Fairness

-----------------------------------------------------------------------------
(* Properties *)

\* The committed tokens form one line: one token per generation, the row holds
\* the newest at its own version, and tokens of losing requests stay outside.
LineageLinear ==
  /\ gen[row.hash] = row.version
  /\ \A t \in Token : gen[t] <= row.version
  /\ \A t, u \in Token : gen[t] = gen[u] /\ gen[t] # Unborn => t = u

\* Requests that race with one token and succeed receive the same pair ("One
\* logical rotation, no second generation"), whatever happened to the lock.
OnePairPerToken ==
  \A r, q \in Request :
    presented[r] = presented[q] /\ given[r] # None /\ given[q] # None
      => given[r] = given[q]

\* One rotation after the other: the committed tokens form one line, and those
\* who race with one of them all get the one that follows it.
OneLine == LineageLinear /\ OnePairPerToken

\* A grace record maps a consumed token to the token of the very next
\* generation ("One generation only" in RefreshReplayService), also when its
\* writer was overtaken after losing the lock.
ReplayFaithful ==
  \A t \in Token : replay[t] # NoRecord =>
    /\ replay[t].token \in Token
    /\ gen[t] = replay[t].version
    /\ gen[replay[t].token] = replay[t].version + 1

\* Whatever a refresh answers is the immediate successor of the token it was
\* called with; nothing older and nothing uncommitted reaches a client.
AnswersAreSuccessors ==
  \A r \in Request : given[r] # None =>
    /\ gen[presented[r]] # Unborn
    /\ gen[given[r]] = gen[presented[r]] + 1

\* "R1 after R2 has already rotated to R3 ... is refused": an answered pair was
\* the newest one, or newer, when the request read the session.
AnswersAreCurrent ==
  \A r \in Request : given[r] # None => gen[given[r]] >= snap[r].version

\* No answer branches off, falls behind or skips a generation, neither by the
\* compare-and-swap nor through the grace window.
AnswersSound == OneLine /\ ReplayFaithful /\ AnswersAreSuccessors /\ AnswersAreCurrent

\* Revocation is final: rotation, which ignores isRevoked, does not undo it, and
\* a request that has not read the session by then never gets tokens.
RevocationIsFinal ==
  [][row.revoked =>
       /\ row'.revoked
       /\ \A r \in Request : snap[r] = NoSnap => snap'[r] = NoSnap /\ given'[r] = None]_vars

\* While instances, calls and deadlines hold out, a session is revoked for reuse
\* only by a token at least two generations old: racing clients stay logged in.
GraceWindowSound ==
  ~disturbed => \A r \in Request :
    outcome[r] = "reuse" => gen[presented[r]] + 2 <= snap[r].version

\* Every request that took the lock is answered or dies, and the key it leaves
\* behind never locks the session for good.
Answered ==
  \A r \in Request : /\ pc[r] # "idle" ~> pc[r] = "done"
                     /\ lock = r ~> lock # r

-----------------------------------------------------------------------------
(* Refinement: a request is admitted when it read an active session, and its *)
(* answer exists once it is past the finally block.                          *)

Lineage == INSTANCE TokenLineage WITH
  current <- row.hash,
  revoked <- row.revoked,
  asked   <- [r \in Request |-> IF snap[r] = NoSnap THEN None ELSE presented[r]],
  given   <- [r \in Request |-> IF pc[r] = "done" THEN given[r] ELSE None]

\* Rotation implements the single-use token family.
ImplementsLineage == Lineage!Spec
=============================================================================
