----------------------------- MODULE Registration -----------------------------
(***************************************************************************)
(* The life of one account from registration to a verified, suspended or   *)
(* deactivated one: InitiateRegistration, VerifyEmail, ResendVerification, *)
(* the login of a pending account, the clean-up job and the administrator's*)
(* suspend and unsuspend.                                                  *)
(*                                                                         *)
(* Every use case reads the account, awaits other things, and then writes  *)
(* a status with an UPDATE that names the account only (updateStatus).     *)
(* Codes are numbered in the order they are stored.  Counters live in      *)
(* Redis: consume answers with a degraded result when Redis fails, reset   *)
(* throws.                                                                 *)
(***************************************************************************)
EXTENDS Integers, FiniteSets

CONSTANTS Verifier,     \* verify-email requests
          Resender,     \* resend requests and logins of the pending account
          Admin,        \* administrators' suspend and unsuspend requests
          MaxCode,      \* bound: how many codes are stored
          AttemptLimit, \* VerificationAttempts.limit
          HourlyLimit,  \* ResendHourly.limit
          RedisMayFail, \* bound: whether Redis calls fail
          MayGetOld     \* bound: whether the account lives to its 24th hour

ASSUME RegistrationAssumption ==
  /\ MaxCode \in Nat \ {0}
  /\ AttemptLimit \in Nat \ {0}
  /\ HourlyLimit \in Nat \ {0}
  /\ RedisMayFail \in BOOLEAN
  /\ MayGetOld \in BOOLEAN
  /\ IsFiniteSet(Resender)

Pending == "PENDING_VERIFICATION"
Status  == {Pending, "ACTIVATE", "SUSPEND", "DEACTIVATE"}
Code    == 1..MaxCode
NoCode  == 0

VARIABLES
  status,   \* the account's status
  overdue,  \* 24 hours have passed since it registered
  code,     \* the code rows: unused number, open, or verifiedAt set
  expired,  \* codes past their three minutes
  mailed,   \* codes handed to the mail queue
  attempts, \* counter auth.verify.attempts
  hourly,   \* counter auth.resend.hourly
  cooling,  \* auth.resend.cooldown is running
  verify,   \* each verify request: next await
  typed,    \* the code it submitted, or NoCode for a code that was never sent
  row,      \* the code row it read
  resend,   \* each resend or pending login: next await
  stored,   \* the code a resend stored
  admin,    \* each administrator's request: next await
  sweep,    \* the clean-up job's next await
  proven,       \* history: a verification with the newest code was committed
  unsuspended,  \* history: an administrator reactivated the account
  thisHour,     \* history: resends admitted in the running hour
  overrun,      \* history: the cooldown ran out under a resend in progress
  degraded      \* history: Redis failed

codeVars    == <<code, expired, mailed>>
counterVars == <<attempts, hourly, cooling>>
history     == <<proven, unsuspended, thisHour, overrun, degraded>>
verifyVars  == <<verify, typed, row>>
vars == <<status, overdue, codeVars, counterVars, verifyVars, resend, stored, admin,
          sweep, history>>

VerifyStage == {"idle", "read", "miss", "void", "commit", "clear", "done"}
ResendStage == {"idle", "hourly", "cooldown", "invalidate", "clear", "store", "publish",
                "deactivate", "done"}

TypeOK ==
  /\ status \in Status
  /\ overdue \in BOOLEAN
  /\ code \in [Code -> {"none", "open", "spent"}]
  /\ expired \subseteq Code
  /\ mailed \subseteq Code
  /\ attempts \in Nat
  /\ hourly \in Nat
  /\ cooling \in BOOLEAN
  /\ verify \in [Verifier -> VerifyStage]
  /\ typed \in [Verifier -> Code \cup {NoCode}]
  /\ row \in [Verifier -> Code \cup {NoCode}]
  /\ resend \in [Resender -> ResendStage]
  /\ stored \in [Resender -> Code \cup {NoCode}]
  /\ admin \in [Admin -> {"idle", "suspend", "unsuspend"}]
  /\ sweep \in {"idle", "void", "deactivate"}
  /\ proven \in BOOLEAN
  /\ unsuspended \in BOOLEAN
  /\ thisHour \subseteq Resender
  /\ overrun \in BOOLEAN
  /\ degraded \in BOOLEAN

\* The transaction of InitiateRegistration has inserted the account and code 1.
Init ==
  /\ status = Pending
  /\ overdue = FALSE
  /\ code = [c \in Code |-> IF c = 1 THEN "open" ELSE "none"]
  /\ expired = {} /\ mailed = {}
  /\ attempts = 0 /\ hourly = 0 /\ cooling = FALSE
  /\ verify = [v \in Verifier |-> "idle"]
  /\ typed = [v \in Verifier |-> NoCode]
  /\ row = [v \in Verifier |-> NoCode]
  /\ resend = [r \in Resender |-> "idle"]
  /\ stored = [r \in Resender |-> NoCode]
  /\ admin = [a \in Admin |-> "idle"]
  /\ sweep = "idle"
  /\ proven = FALSE /\ unsuspended = FALSE /\ thisHour = {}
  /\ overrun = FALSE /\ degraded = FALSE

Open == {c \in Code : code[c] = "open"}

\* findLatestByUserId: the newest row whose verifiedAt is null.
Newest(c) == c \in Open /\ \A d \in Open : d <= c

\* invalidatePreviousCodes.
AllSpent == [c \in Code |-> IF code[c] = "open" THEN "spent" ELSE code[c]]

RedisFails == RedisMayFail /\ degraded' = TRUE
RedisWorks == UNCHANGED degraded

-----------------------------------------------------------------------------
(* Registration's mail, after the commit; a crash loses it. *)

PublishFirst ==
  /\ 1 \notin mailed
  /\ mailed' = mailed \cup {1}
  /\ UNCHANGED <<status, overdue, code, expired, counterVars, verifyVars, resend, stored, admin,
                 sweep, history>>

-----------------------------------------------------------------------------
(* VerifyEmailUseCase *)

At(v, label) == verify' = [verify EXCEPT ![v] = label]

VerifyStart(v, c) ==
  /\ verify[v] = "idle"
  /\ c \in mailed \cup {NoCode}
  /\ typed' = [typed EXCEPT ![v] = c]
  /\ At(v, IF status = Pending THEN "read" ELSE "done")
  /\ UNCHANGED <<status, overdue, codeVars, counterVars, row, resend, stored, admin, sweep, history>>

MatchesAnyMailed(v, c) == typed[v] # NoCode

\* validate: bcrypt against the newest open code.
Matches(v, c) == typed[v] = c

VerifyRead(v) ==
  /\ verify[v] = "read"
  /\ \/ /\ \A c \in Open : Newest(c) => c \in expired
        /\ At(v, "done")
        /\ UNCHANGED row
     \/ \E c \in Open \ expired :
          /\ Newest(c)
          /\ row' = [row EXCEPT ![v] = c]
          /\ At(v, IF Matches(v, c) THEN "commit" ELSE "miss")
  /\ UNCHANGED <<status, overdue, codeVars, counterVars, typed, resend, stored, admin, sweep, history>>

\* remaining = 0.
Exhausted(count) == count >= AttemptLimit

\* consume(VerificationAttempts).  The degraded result also says remaining = 0.
VerifyMiss(v) ==
  /\ verify[v] = "miss"
  /\ \/ /\ RedisWorks
        /\ attempts' = attempts + 1
        /\ At(v, IF Exhausted(attempts + 1) THEN "void" ELSE "done")
     \/ /\ RedisFails
        /\ At(v, "void")
        /\ UNCHANGED attempts
  /\ UNCHANGED <<typed, row, status, overdue, codeVars, hourly, cooling, resend, stored, admin, sweep,
                 proven, unsuspended, thisHour, overrun>>

VerifyVoid(v) ==
  /\ verify[v] = "void"
  /\ code' = AllSpent
  /\ At(v, "clear")
  /\ UNCHANGED <<typed, row, status, overdue, expired, mailed, counterVars, resend, stored, admin, sweep,
                 history>>

VerifiedUnknownStatus == "VERIFIED"

\* UserStatus.ACTIVATE; updateStatus takes any string.
VerifiedStatus == "ACTIVATE"

\* The transaction: markVerified and updateStatus(ACTIVATE).
VerifyCommit(v) ==
  /\ verify[v] = "commit"
  /\ code' = [code EXCEPT ![row[v]] = "spent"]
  /\ status' = VerifiedStatus
  /\ proven' = (proven \/ typed[v] = row[v])
  /\ At(v, "clear")
  /\ UNCHANGED <<typed, row, overdue, expired, mailed, counterVars, resend, stored, admin, sweep,
                 unsuspended, thisHour, overrun, degraded>>

\* reset(VerificationAttempts), after a void or a success.
VerifyClear(v) ==
  /\ verify[v] = "clear"
  /\ \/ RedisWorks /\ attempts' = 0
     \/ RedisFails /\ UNCHANGED attempts
  /\ At(v, "done")
  /\ UNCHANGED <<typed, row, status, overdue, codeVars, hourly, cooling, resend, stored, admin, sweep,
                 proven, unsuspended, thisHour, overrun>>

-----------------------------------------------------------------------------
(* ResendVerificationUseCase, also reached from the login of a pending account *)

Go(r, label) == resend' = [resend EXCEPT ![r] = label]

ResendStart(r) ==
  /\ resend[r] = "idle"
  /\ Go(r, IF status = Pending THEN "hourly" ELSE "done")
  /\ UNCHANGED <<status, overdue, codeVars, counterVars, verifyVars, stored, admin, sweep, history>>

HourlyAllows(count) == count <= HourlyLimit

\* consume(ResendHourly), failOpen.
ResendHourly(r) ==
  /\ resend[r] = "hourly"
  /\ \/ /\ RedisWorks
        /\ hourly' = hourly + 1
        /\ IF HourlyAllows(hourly + 1)
             THEN Go(r, "cooldown") /\ thisHour' = thisHour \cup {r}
             ELSE Go(r, "done") /\ UNCHANGED thisHour
     \/ /\ RedisFails
        /\ Go(r, "cooldown")
        /\ thisHour' = thisHour \cup {r}
        /\ UNCHANGED hourly
  /\ UNCHANGED <<status, overdue, codeVars, attempts, cooling, verifyVars, stored, admin, sweep,
                 proven, unsuspended, overrun>>

CooldownAlwaysAllows == TRUE

CooldownAllows == ~cooling

\* consume(ResendCooldown), failOpen: the first call of a window arms it.
ResendCooldown(r) ==
  /\ resend[r] = "cooldown"
  /\ \/ /\ RedisWorks
        /\ cooling' = TRUE
        /\ Go(r, IF CooldownAllows THEN "invalidate" ELSE "done")
     \/ /\ RedisFails
        /\ Go(r, "invalidate")
        /\ UNCHANGED cooling
  /\ UNCHANGED <<status, overdue, codeVars, attempts, hourly, verifyVars, stored, admin, sweep,
                 proven, unsuspended, thisHour, overrun>>

ResendInvalidate(r) ==
  /\ resend[r] = "invalidate"
  /\ code' = AllSpent
  /\ Go(r, "clear")
  /\ UNCHANGED <<status, overdue, expired, mailed, counterVars, verifyVars, stored, admin, sweep,
                 history>>

\* reset(VerificationAttempts); when it throws the resend ends without a code.
ResendClear(r) ==
  /\ resend[r] = "clear"
  /\ \/ RedisWorks /\ attempts' = 0 /\ Go(r, "store")
     \/ RedisFails /\ Go(r, "done") /\ UNCHANGED attempts
  /\ UNCHANGED <<status, overdue, codeVars, hourly, cooling, verifyVars, stored, admin, sweep,
                 proven, unsuspended, thisHour, overrun>>

ResendStore(r, c) ==
  /\ resend[r] = "store"
  /\ code[c] = "none" /\ \A d \in Code : d < c => code[d] # "none"
  /\ code' = [code EXCEPT ![c] = "open"]
  /\ stored' = [stored EXCEPT ![r] = c]
  /\ Go(r, "publish")
  /\ UNCHANGED <<status, overdue, expired, mailed, counterVars, verifyVars, admin, sweep, history>>

\* publish may fail, which fails the request only.
ResendPublish(r) ==
  /\ resend[r] = "publish"
  /\ mailed' \in {mailed, mailed \cup {stored[r]}}
  /\ Go(r, "done")
  /\ UNCHANGED <<status, overdue, code, expired, counterVars, verifyVars, stored, admin, sweep,
                 history>>

\* Login of a pending account whose window has passed.
LoginTooLate(r) ==
  /\ resend[r] = "idle"
  /\ status = Pending /\ overdue
  /\ Go(r, "deactivate")
  /\ UNCHANGED <<status, overdue, codeVars, counterVars, verifyVars, stored, admin, sweep, history>>

LoginDeactivate(r) ==
  /\ resend[r] = "deactivate"
  /\ status' = "DEACTIVATE"
  /\ Go(r, "done")
  /\ UNCHANGED <<overdue, codeVars, counterVars, verifyVars, stored, admin, sweep, history>>

-----------------------------------------------------------------------------
(* CleanupPendingUsersUseCase, every half hour *)

NotYetOverdue == status = Pending /\ ~overdue

\* findPendingOlderThan(cutoff).
SweepFinds == status = Pending /\ overdue

SweepSelect ==
  /\ sweep = "idle"
  /\ SweepFinds
  /\ sweep' = "void"
  /\ UNCHANGED <<status, overdue, codeVars, counterVars, verifyVars, resend, stored, admin, history>>

SweepVoid ==
  /\ sweep = "void"
  /\ code' = AllSpent
  /\ sweep' = "deactivate"
  /\ UNCHANGED <<status, overdue, expired, mailed, counterVars, verifyVars, resend, stored, admin,
                 history>>

SweepDeactivate ==
  /\ sweep = "deactivate"
  /\ status' = "DEACTIVATE"
  /\ sweep' = "idle"
  /\ UNCHANGED <<overdue, codeVars, counterVars, verifyVars, resend, stored, admin, history>>

\* An error ends the run; the scheduler logs it.
SweepFails ==
  /\ sweep # "idle"
  /\ sweep' = "idle"
  /\ UNCHANGED <<status, overdue, codeVars, counterVars, verifyVars, resend, stored, admin, history>>

-----------------------------------------------------------------------------
(* SuspendUserUseCase and UnsuspendUserUseCase: read, then an UPDATE by id *)

SuspendRead(a) ==
  /\ admin[a] = "idle"
  /\ status # "SUSPEND"
  /\ admin' = [admin EXCEPT ![a] = "suspend"]
  /\ UNCHANGED <<status, overdue, codeVars, counterVars, verifyVars, resend, stored, sweep, history>>

UnsuspendRead(a) ==
  /\ admin[a] = "idle"
  /\ status = "SUSPEND"
  /\ admin' = [admin EXCEPT ![a] = "unsuspend"]
  /\ UNCHANGED <<status, overdue, codeVars, counterVars, verifyVars, resend, stored, sweep, history>>

Suspend(a) ==
  /\ admin[a] = "suspend"
  /\ status' = "SUSPEND"
  /\ admin' = [admin EXCEPT ![a] = "idle"]
  /\ UNCHANGED <<overdue, codeVars, counterVars, verifyVars, resend, stored, sweep, history>>

Unsuspend(a) ==
  /\ admin[a] = "unsuspend"
  /\ status' = "ACTIVATE"
  /\ unsuspended' = TRUE
  /\ admin' = [admin EXCEPT ![a] = "idle"]
  /\ UNCHANGED <<overdue, codeVars, counterVars, verifyVars, resend, stored, sweep,
                 proven, thisHour, overrun, degraded>>

-----------------------------------------------------------------------------
(* Time *)

DayPasses ==
  /\ MayGetOld /\ ~overdue
  /\ overdue' = TRUE
  /\ UNCHANGED <<status, codeVars, counterVars, verifyVars, resend, stored, admin, sweep, history>>

CodeExpires(c) ==
  /\ code[c] = "open" /\ c \notin expired
  /\ expired' = expired \cup {c}
  /\ UNCHANGED <<status, overdue, code, mailed, counterVars, verifyVars, resend, stored, admin,
                 sweep, history>>

AttemptsExpire ==
  /\ attempts > 0
  /\ attempts' = 0
  /\ UNCHANGED <<status, overdue, codeVars, hourly, cooling, verifyVars, resend, stored, admin,
                 sweep, history>>

HourPasses ==
  /\ hourly > 0
  /\ hourly' = 0 /\ thisHour' = {}
  /\ UNCHANGED <<status, overdue, codeVars, attempts, cooling, verifyVars, resend, stored, admin,
                 sweep, proven, unsuspended, overrun, degraded>>

CooldownExpires ==
  /\ cooling
  /\ cooling' = FALSE
  /\ overrun' = (overrun \/ \E r \in Resender : resend[r] \in {"invalidate", "clear", "store"})
  /\ UNCHANGED <<status, overdue, codeVars, attempts, hourly, verifyVars, resend, stored, admin,
                 sweep, proven, unsuspended, thisHour, degraded>>

-----------------------------------------------------------------------------

VerifyNext(v) ==
  \/ \E c \in Code \cup {NoCode} : VerifyStart(v, c)
  \/ VerifyRead(v) \/ VerifyMiss(v) \/ VerifyVoid(v) \/ VerifyCommit(v) \/ VerifyClear(v)

ResendNext(r) ==
  \/ ResendStart(r) \/ ResendHourly(r) \/ ResendCooldown(r) \/ ResendInvalidate(r)
  \/ ResendClear(r) \/ (\E c \in Code : ResendStore(r, c)) \/ ResendPublish(r)
  \/ LoginTooLate(r) \/ LoginDeactivate(r)

SweepNext == SweepSelect \/ SweepVoid \/ SweepDeactivate \/ SweepFails

AdminNext(a) == SuspendRead(a) \/ UnsuspendRead(a) \/ Suspend(a) \/ Unsuspend(a)

TimePasses ==
  \/ DayPasses \/ (\E c \in Code : CodeExpires(c))
  \/ AttemptsExpire \/ HourPasses \/ CooldownExpires

Next ==
  \/ PublishFirst
  \/ \E v \in Verifier : VerifyNext(v)
  \/ \E r \in Resender : ResendNext(r)
  \/ \E a \in Admin : AdminNext(a)
  \/ SweepNext
  \/ TimePasses

Spec == Init /\ [][Next]_vars

\* The scheduler keeps running the job, and it does not fail every time.
FairSpec ==
  /\ Spec
  /\ WF_vars(SweepSelect)
  /\ SF_vars(SweepVoid)
  /\ SF_vars(SweepDeactivate)

-----------------------------------------------------------------------------
(* Properties *)

\* An active account has proved its newest code, or an administrator lifted a
\* suspension.
ActiveIsProven == status = "ACTIVATE" => proven \/ unsuspended

\* Resends that overlap leave a single code open, as long as Redis answers and
\* the cooldown outlasts the resend that armed it.
OneOpenCode == ~overrun /\ ~degraded => Cardinality(Open) <= 1

\* No more codes are sent in an hour than the hourly limit, while Redis answers.
ResendBudget == ~degraded => Cardinality(thisHour) <= HourlyLimit

\* When the counter of failed attempts stands at its limit, a request is about to
\* invalidate the code or has just done so.
LimitInvalidates ==
  ~degraded /\ attempts >= AttemptLimit =>
    \E v \in Verifier : verify[v] \in {"void", "clear"}

\* Verifications and resends, however they overlap, keep to one open code, to the
\* hourly limit and to the limit of attempts.
CodesSound == OneOpenCode /\ ResendBudget /\ LimitInvalidates

\* An account does not stay unverified for ever once its day has passed.
StalePendingResolved == (status = Pending /\ overdue) ~> (status # Pending)
=============================================================================
