-------------------------------- MODULE History --------------------------------
(***************************************************************************)
(* What the program writes about itself in MongoDB: a user's activities,   *)
(* the audit log and the system log (features/activity, infrastructure/    *)
(* logging). Every write is sent off without being waited for, between two *)
(* waits of a use case; a use case may fail or die after any wait.         *)
(*                                                                         *)
(* One use case runs in a behaviour: the records of two have nothing in    *)
(* common. What it does is reduced to its waits, in their order, each with *)
(* the records sent when it is over.                                       *)
(***************************************************************************)
EXTENDS Naturals, Sequences, FiniteSets

CONSTANTS Retention, \* days that an activity is kept
          MaxDay     \* bound: days

ASSUME HistoryAssumption == Retention \in Nat /\ MaxDay \in Nat

(* Records *)

Activity(category, action) == [store |-> "activity", category |-> category, action |-> action]
Audit(action)    == [store |-> "audit", action |-> action, success |-> TRUE]
AuditOf(resource, action) ==
  [store |-> "audit", resource |-> resource, action |-> action, success |-> TRUE]
AuditFailure(action) == [store |-> "audit", action |-> action, success |-> FALSE]
System(event)    == [store |-> "system", action |-> event]

\* A wait: what it does to the tables, what is sent when it has ended well and what
\* when the request is refused.
Wait(does, tells)    == [does |-> does, tells |-> tells, refused |-> {}]
Looks                == Wait("nothing", {})
Works(tells)         == Wait("nothing", tells)
Commits(tells)       == Wait("commit", tells)

ACTIVITY_CATALOG == [
  SECURITY    |-> {"LOGIN", "LOGOUT", "PASSWORD_CHANGED", "SESSION_CREATED", "SESSION_REVOKED"},
  PORTFOLIO   |-> {"CREATED", "UPDATED", "DELETED"},
  TRANSACTION |-> {"CREATED", "UPDATED", "DELETED"},
  PRICE_ALERT |-> {"CREATED", "UPDATED", "DELETED", "ENABLED", "DISABLED"},
  ACCOUNT     |-> {"PROFILE_UPDATED", "SETTINGS_UPDATED"}]

-----------------------------------------------------------------------------
(* The use cases *)

SessionCreated == Activity("SECURITY", "SESSION_CREATED")

LoginRefused == {AuditFailure("USER_LOGIN")}
Credentials  == [Looks EXCEPT !.refused = LoginRefused]

LoginTells ==
  <<Credentials, Commits({SessionCreated}), Looks,
    Works({Audit("USER_LOGIN"), Activity("SECURITY", "LOGIN")})>>

\* The sign-in of an account that waits for its code: it is past its day and deactivated,
\* or a code is sent again. Both are answered with a refusal.
OverdueLoginTells == <<Credentials, Commits(LoginRefused)>>
PendingLoginTells ==
  <<Credentials, Commits({}), Works({Audit("RESEND_VERIFICATION_CODE")} \cup LoginRefused)>>
PendingLogins == {OverdueLoginTells, PendingLoginTells}

\* The sessions are ended inside the transaction, and so is the activity of it sent.
SignedOutElsewhere == Activity("SECURITY", "SESSION_REVOKED")

ChangePasswordTells ==
  <<Looks, Works({SignedOutElsewhere}),
    Commits({Audit("PASSWORD_CHANGE"), Activity("SECURITY", "PASSWORD_CHANGED")})>>

TerminateOthersTells == <<Commits({SignedOutElsewhere})>>
\* Mutant: told before the transaction.
RevokeOwnedToldEarly ==
  <<Works({Audit("USER_LOGOUT"), Activity("SECURITY", "SESSION_REVOKED")}), Commits({})>>
RevokeOwnedTells ==
  <<Looks, Commits({Audit("USER_LOGOUT"), Activity("SECURITY", "SESSION_REVOKED")})>>
RevokeTells == <<Commits({Audit("USER_LOGOUT"), Activity("SECURITY", "LOGOUT")})>>

InitiateRegistrationTells == <<Looks, Commits({}), Works({Audit("USER_REGISTER")})>>
VerifyEmailTells   == <<Looks, Commits({}), Works({Audit("EMAIL_VERIFICATION")})>>
ResendTells        == <<Looks, Commits({}), Works({Audit("RESEND_VERIFICATION_CODE")})>>
ResendSkippedTells == <<Looks>>
UpdateProfileTells == <<Looks, Commits({Activity("ACCOUNT", "PROFILE_UPDATED")})>>
DeleteAccountTells == <<Looks, Commits({Audit("ACCOUNT_DELETED")})>>

Deed(resource, action) == {AuditOf(resource, action), Activity(resource, action)}

CreatePortfolioTells == <<Commits(Deed("PORTFOLIO", "CREATED"))>>
UpdatePortfolioTells == <<Looks, Commits({}), Works(Deed("PORTFOLIO", "UPDATED"))>>
DeletePortfolioTells == <<Commits({}), Works(Deed("PORTFOLIO", "DELETED"))>>
CreateHoldingTells   == <<Looks, Commits({AuditOf("HOLDING", "CREATED")})>>
UpdateHoldingTells   == <<Looks, Commits({}), Works({AuditOf("HOLDING", "UPDATED")})>>
DeleteHoldingTells   == <<Commits({AuditOf("HOLDING", "DELETED")})>>
CreateTransactionTells == <<Looks, Commits(Deed("TRANSACTION", "CREATED"))>>
UpdateTransactionTells == <<Looks, Commits(Deed("TRANSACTION", "UPDATED"))>>
DeleteTransactionTells == <<Looks, Commits(Deed("TRANSACTION", "DELETED"))>>
CreateAlertTells == <<Looks, Commits({Activity("PRICE_ALERT", "CREATED")})>>
UpdateAlertTells == <<Looks, Commits({}), Works({Activity("PRICE_ALERT", "UPDATED")})>>
CancelAlertTells == <<Looks, Commits({Activity("PRICE_ALERT", "DELETED")})>>

UseCases == PendingLogins \cup
  {LoginTells, ResendSkippedTells, ChangePasswordTells, TerminateOthersTells, RevokeOwnedTells, RevokeTells,
   InitiateRegistrationTells, VerifyEmailTells, ResendTells, UpdateProfileTells, DeleteAccountTells,
   CreatePortfolioTells, UpdatePortfolioTells, DeletePortfolioTells,
   CreateHoldingTells, UpdateHoldingTells, DeleteHoldingTells,
   CreateTransactionTells, UpdateTransactionTells, DeleteTransactionTells,
   CreateAlertTells, UpdateAlertTells, CancelAlertTells}

-----------------------------------------------------------------------------
VARIABLES
  script,    \* the waits of the use case
  reached,   \* how many of them are over
  outcome,   \* "running", "done", "refused", "broken" or "crashed"
  committed,
  flight,    \* records on their way to MongoDB, with the day they were sent
  stored,
  lost,      \* history: records that MongoDB did not take
  day

historyVars == <<script, reached, outcome, committed, flight, stored, lost, day>>

HistoryInit ==
  /\ script \in UseCases
  /\ reached = 0 /\ outcome = "running" /\ committed = FALSE
  /\ flight = {} /\ stored = {} /\ lost = {} /\ day = 0

\* UserActivityRecorderService drops a pair that the catalogue does not have.
Recordable(r) == r.store = "activity" => r.action \in ACTIVITY_CATALOG[r.category]

Send(records) ==
  flight' = flight \cup {[what |-> r, at |-> day] : r \in {s \in records : Recordable(s)}}

Current == script[reached + 1]

\* A wait is over: the rest of the use case up to the next one runs without a pause.
Proceed ==
  /\ outcome = "running"
  /\ reached' = reached + 1
  /\ outcome' = IF reached' = Len(script) THEN "done" ELSE "running"
  /\ committed' = (committed \/ Current.does = "commit")
  /\ Send(Current.tells)
  /\ UNCHANGED <<script, stored, lost, day>>

\* An AppError below 500.
Refusal ==
  /\ outcome = "running"
  /\ outcome' = "refused"
  /\ Send(Current.refused)
  /\ UNCHANGED <<script, reached, committed, stored, lost, day>>

\* Anything else: the exception filter answers 5xx and keeps a system log.
Breaks ==
  /\ outcome = "running"
  /\ outcome' = "broken"
  /\ Send({System("UNHANDLED_EXCEPTION")})
  /\ UNCHANGED <<script, reached, committed, stored, lost, day>>

\* The process dies, with what it was sending, before or after the database has done
\* what it was waiting for.
Dies ==
  /\ outcome = "running"
  /\ outcome' = "crashed"
  /\ committed' \in {committed, committed \/ Current.does = "commit"}
  /\ flight' = {} /\ lost' = lost \cup flight
  /\ UNCHANGED <<script, reached, stored, day>>

Lands(r) ==
  /\ r \in flight
  /\ flight' = flight \ {r} /\ stored' = stored \cup {r}
  /\ UNCHANGED <<script, reached, outcome, committed, lost, day>>

\* A failed write is logged and swallowed.
GoesAstray(r) ==
  /\ r \in flight
  /\ flight' = flight \ {r} /\ lost' = lost \cup {r}
  /\ UNCHANGED <<script, reached, outcome, committed, stored, day>>

ExpiresAt(r) == r.at + Retention

\* The TTL index of the activities; the other collections have none.
RunsOut(r) ==
  /\ r \in stored /\ r.what.store = "activity" /\ ExpiresAt(r) < day
  /\ stored' = stored \ {r}
  /\ UNCHANGED <<script, reached, outcome, committed, flight, lost, day>>

NextDay ==
  /\ day < MaxDay /\ day' = day + 1
  /\ UNCHANGED <<script, reached, outcome, committed, flight, stored, lost>>

HistoryNext ==
  \/ Proceed \/ Refusal \/ Breaks \/ Dies \/ NextDay
  \/ \E r \in flight : Lands(r) \/ GoesAstray(r)
  \/ \E r \in stored : RunsOut(r)

HistorySpec == HistoryInit /\ [][HistoryNext]_historyVars

-----------------------------------------------------------------------------
(* Properties *)

HistoryTypeOK ==
  /\ script \in UseCases /\ reached \in 0..Len(script) /\ committed \in BOOLEAN
  /\ outcome \in {"running", "done", "refused", "broken", "crashed"}
  /\ day \in 0..MaxDay
  /\ \A r \in flight \cup stored \cup lost : r.at \in 0..day

Known == flight \cup stored \cup lost

Told == {r.what : r \in flight \cup stored}

Succeeded(r) == r.store = "activity" \/ (r.store = "audit" /\ r.success)

\* A history never tells of what has not happened: what it says succeeded is committed
\* (user-activity-recorder.service.ts:17-20), and a sign-in is told only if it was
\* answered. What is told as refused has committed nothing, but for the sign-in of an
\* account that waits for its code. The sign-out of the other devices by a change of the
\* password is told before its transaction has ended.
TellsWhatHappened ==
  \A r \in Told :
    /\ Succeeded(r) => committed \/ (script = ChangePasswordTells /\ r = SignedOutElsewhere)
    /\ r = Activity("SECURITY", "LOGIN") => outcome = "done"
    /\ r.store = "audit" /\ ~r.success => ~committed \/ script \in PendingLogins

\* What was answered as done is told in full, but for what MongoDB has not taken and
\* activities past their days; what was answered as broken has its system log.
TellsAll ==
  /\ outcome = "done" =>
       \A i \in DOMAIN script : \A r \in script[i].tells :
         \/ r \in {k.what : k \in Known}
         \/ r.store = "activity" /\ day > Retention
  /\ outcome = "broken" => System("UNHANDLED_EXCEPTION") \in {k.what : k \in Known}

HistorySound == TellsWhatHappened /\ TellsAll

=============================================================================
