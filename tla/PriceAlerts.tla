------------------------------ MODULE PriceAlerts ------------------------------
(***************************************************************************)
(* One price alert: the check that runs every minute on each instance, one *)
(* at a time under a Redis lock with a TTL (PriceCheckScheduler and        *)
(* PriceCheckService), and the owner who edits and cancels it.             *)
(*                                                                         *)
(* A check expires alerts, fetches prices, reads a page of active alerts   *)
(* and then works through the rows it has read; its writes are conditional *)
(* on the status only, the owner's writes on nothing.  The e-mail queue is *)
(* its publishing side: jobs by de-duplication key, the alert and the      *)
(* instant of the check.  A publish that misses its deadline is reported   *)
(* as failed although the job may be added later.                          *)
(*                                                                         *)
(* The clock counts the checks that have started.                          *)
(***************************************************************************)
EXTENDS Integers, FiniteSets

CONSTANTS Checker,   \* instances of the program
          NoChecker, \* holder of a free lock
          Owner,     \* requests of the owner
          Price,     \* bound: the prices the market quotes
          Cooldown,  \* notificationCooldownMinutes, in checks
          Alerts,    \* bound: the alerts that are created
          Edits,     \* bound: the updates that are requested
          MaxClock   \* bound: how many checks are started

NoPrice == -1
Never   == 0
Keep    == "keep"

Status    == {"ACTIVE", "TRIGGERED", "EXPIRED", "CANCELLED"}
Direction == {"SELL", "BUY"}
Mode      == {"ONCE", "REPEAT"}
Instant   == 0..MaxClock

\* expires = Never: the alert does not expire.
Alert == [status : Status, direction : Direction, target : Price, mode : Mode,
          expires : Nat, last : Price \cup {NoPrice}, lastAt : Instant]

Edit == [direction : Direction \cup {Keep}, target : Price \cup {NoPrice},
         mode : Mode \cup {Keep}]

ASSUME AlertAssumption ==
  /\ NoChecker \notin Checker
  /\ Price \subseteq Nat
  /\ Cooldown \in Nat \ {0}
  /\ MaxClock \in Nat
  /\ Alerts \subseteq {a \in Alert : a.status = "ACTIVE" /\ a.last = NoPrice /\ a.lastAt = Never}
  /\ Edits \subseteq Edit

NoEdit    == [direction |-> Keep, target |-> NoPrice, mode |-> Keep]

VARIABLES
  alert,     \* the row
  clock,
  ownerGone, \* the owner's account is deleted
  lock,      \* the checker whose token PRICE_CHECK_LOCK holds
  pc,        \* each checker's next await
  now,       \* the instant its check carries
  quote,     \* the price it has fetched
  mode,      \* the trigger mode of the row its page has
  request,   \* each owner request: what it is about to write
  edit,      \* the fields of an update
  queued,    \* instants whose mail has been added to the queue
  late,      \* instants whose add is still on its way after the deadline
  marked,    \* history: instants at which the alert was marked as triggered
  near,      \* history: the recorded price has been short of the target
  ended,     \* history: the instant at which the alert left ACTIVE
  modeEdited,\* history: the trigger mode was changed
  fault      \* history: the worst that went wrong with a check

checkVars == <<now, quote, mode>>
ownerVars == <<request, edit>>
mailVars  == <<queued, late>>
history   == <<near, ended>>
vars == <<alert, clock, ownerGone, lock, pc, checkVars, ownerVars, mailVars, marked,
          history, modeEdited, fault>>

TypeOK ==
  /\ alert \in Alert
  /\ clock \in Instant
  /\ ownerGone \in BOOLEAN
  /\ lock \in Checker \cup {NoChecker}
  /\ pc \in [Checker -> {"idle", "expire", "fetch", "page", "record", "notify", "mark", "release"}]
  /\ now \in [Checker -> Instant]
  /\ quote \in [Checker -> Price \cup {NoPrice}]
  /\ mode \in [Checker -> Mode]
  /\ request \in [Owner -> {"none", "edit", "expire", "cancel"}]
  /\ edit \in [Owner -> Edits \cup {NoEdit}]
  /\ queued \subseteq Instant
  /\ late \subseteq Instant
  /\ marked \subseteq Instant
  /\ near \in BOOLEAN
  /\ ended \in Instant
  /\ modeEdited \in BOOLEAN
  /\ fault \in {"none", "crash", "error", "overrun"}

Init ==
  /\ alert \in Alerts
  /\ clock = 0
  /\ ownerGone = FALSE
  /\ lock = NoChecker
  /\ pc = [c \in Checker |-> "idle"]
  /\ now = [c \in Checker |-> 0]
  /\ quote = [c \in Checker |-> NoPrice]
  /\ mode = [c \in Checker |-> "ONCE"]
  /\ request = [o \in Owner |-> "none"]
  /\ edit = [o \in Owner |-> NoEdit]
  /\ queued = {} /\ late = {} /\ marked = {}
  /\ near = FALSE /\ ended = 0
  /\ modeEdited = FALSE /\ fault = "none"

Goto(c, label) == pc' = [pc EXCEPT ![c] = label]

Short(direction, price, target) ==
  IF direction = "SELL" THEN price < target ELSE price > target

\* The recorded price has yet to reach the target.
NearSide(a) == a.last # NoPrice /\ Short(a.direction, a.last, a.target)
FarSide(a)  == a.last # NoPrice /\ ~Short(a.direction, a.last, a.target)

\* The check has nothing more to write; what it carried is forgotten.
Leave(c, label) ==
  /\ Goto(c, label)
  /\ now' = [now EXCEPT ![c] = 0]
  /\ quote' = [quote EXCEPT ![c] = NoPrice]
  /\ mode' = [mode EXCEPT ![c] = "ONCE"]

\* A crash leaves worse faults standing, an overrun tops them all.
Faulty(kind) ==
  fault' = IF fault = "overrun" \/ (kind = "crash" /\ fault = "error") THEN fault ELSE kind

\* Every write of the row, with the history that goes with it.
Write(row) ==
  /\ alert' = row
  /\ near' = ((near /\ row.last # NoPrice) \/ NearSide(row))
  /\ ended' = IF alert.status = "ACTIVE" /\ row.status # "ACTIVE" THEN clock ELSE ended

-----------------------------------------------------------------------------
(* The check *)

\* handleCheck: SET NX EX; a check that finds the lock taken does nothing.
Start(c) ==
  /\ pc[c] = "idle"
  /\ lock = NoChecker
  /\ clock < MaxClock
  /\ lock' = c
  /\ clock' = clock + 1
  /\ now' = [now EXCEPT ![c] = clock + 1]
  /\ Goto(c, "expire")
  /\ UNCHANGED <<alert, ownerGone, quote, mode, ownerVars, mailVars, marked, history,
                 modeEdited, fault>>

Expired(a, t) == a.expires # Never /\ a.expires < t

\* expireActiveAlerts.
Expire(c) ==
  /\ pc[c] = "expire"
  /\ Goto(c, "fetch")
  /\ IF alert.status = "ACTIVE" /\ Expired(alert, now[c])
       THEN Write([alert EXCEPT !.status = "EXPIRED"])
       ELSE UNCHANGED <<alert, history>>
  /\ UNCHANGED <<clock, ownerGone, lock, checkVars, ownerVars, mailVars, marked, modeEdited, fault>>

\* fetchPricesInBatches: a price, or none for an inactive or unknown coin.
Fetch(c, p) ==
  /\ pc[c] = "fetch"
  /\ quote' = [quote EXCEPT ![c] = p]
  /\ Goto(c, "page")
  /\ UNCHANGED <<alert, clock, ownerGone, lock, now, mode, ownerVars, mailVars, marked,
                 history, modeEdited, fault>>

\* hasCrossed: the first price only sets the baseline.
HasCrossed(a, p) == NearSide(a) /\ ~Short(a.direction, p, a.target)

\* isCooldownExpired.
CooldownExpired(a, t) == a.lastAt = Never \/ t - a.lastAt >= Cooldown

\* The WHERE clause of findActiveAlertsForScheduler.
OnPage == alert.status = "ACTIVE"

NextStep(c) ==
  IF quote[c] = NoPrice THEN "release"
  ELSE IF HasCrossed(alert, quote[c]) /\ CooldownExpired(alert, now[c]) /\ ~ownerGone
    THEN "notify" ELSE "record"

\* findActiveAlertsForScheduler, and what processAlert makes of the row.
Page(c) ==
  /\ pc[c] = "page"
  /\ mode' = [mode EXCEPT ![c] = alert.mode]
  /\ Goto(c, IF OnPage THEN NextStep(c) ELSE "release")
  /\ UNCHANGED <<alert, clock, ownerGone, lock, now, quote, ownerVars, mailVars, marked,
                 history, modeEdited, fault>>

\* updateLastCheckedPrice.
Record(c) ==
  /\ pc[c] = "record"
  /\ Leave(c, "release")
  /\ IF alert.status = "ACTIVE"
       THEN Write([alert EXCEPT !.last = quote[c]])
       ELSE UNCHANGED <<alert, history>>
  /\ UNCHANGED <<clock, ownerGone, lock, ownerVars, mailVars, marked, modeEdited, fault>>

\* sendEmail: the job is added before the alert is marked.
Notify(c) ==
  /\ pc[c] = "notify"
  /\ queued' = queued \cup {now[c]}
  /\ Goto(c, "mark")
  /\ UNCHANGED <<alert, clock, ownerGone, lock, checkVars, ownerVars, late, marked, history,
                 modeEdited, fault>>

NotifyFailedStep == "mark"

\* throwOnQueueFailure: the alert stays as it is for the next check.
AfterFailedPublish == "release"

NotifyRejected(c) ==
  /\ pc[c] = "notify"
  /\ Goto(c, AfterFailedPublish)
  /\ UNCHANGED <<alert, clock, ownerGone, lock, checkVars, ownerVars, mailVars, marked, history,
                 modeEdited, fault>>

\* withPublishTimeout: the deadline wins, the command stays buffered.
NotifyTimedOut(c) ==
  /\ pc[c] = "notify"
  /\ late' = late \cup {now[c]}
  /\ Faulty("error")
  /\ Goto(c, AfterFailedPublish)
  /\ UNCHANGED <<alert, clock, ownerGone, lock, checkVars, ownerVars, queued, marked, history,
                 modeEdited>>

LateAdd(k) ==
  /\ k \in late
  /\ late' = late \ {k}
  /\ queued' = queued \cup {k}
  /\ UNCHANGED <<alert, clock, ownerGone, lock, pc, checkVars, ownerVars, marked, history,
                 modeEdited, fault>>

MarkMatchesAlways == TRUE

\* The WHERE clause of markTriggered.
MarkMatches == alert.status = "ACTIVE"

\* The mode is the one the page had.
StatusAfter(c) == IF mode[c] = "ONCE" THEN "TRIGGERED" ELSE "ACTIVE"

MarkedInSeconds(c) ==
  [alert EXCEPT !.status = StatusAfter(c), !.last = quote[c], !.lastAt = 60 * now[c]]

MarkedRow(c) ==
  [alert EXCEPT !.status = StatusAfter(c), !.last = quote[c], !.lastAt = now[c]]

\* markTriggered.
Mark(c) ==
  /\ pc[c] = "mark"
  /\ Leave(c, "release")
  /\ IF MarkMatches
       THEN Write(MarkedRow(c)) /\ marked' = marked \cup {now[c]}
       ELSE UNCHANGED <<alert, history, marked>>
  /\ UNCHANGED <<clock, ownerGone, lock, ownerVars, mailVars, modeEdited, fault>>

\* compareAndDelete; or the release fails and the TTL has to do it.
Release(c) ==
  /\ pc[c] = "release"
  /\ lock' \in {lock, IF lock = c THEN NoChecker ELSE lock}
  /\ Leave(c, "idle")
  /\ UNCHANGED <<alert, clock, ownerGone, ownerVars, mailVars, marked, history,
                 modeEdited, fault>>

\* A database or provider call throws.
Fail(c) ==
  /\ pc[c] \in {"expire", "fetch", "page", "record", "mark"}
  /\ Leave(c, "release")
  /\ IF pc[c] = "mark" THEN Faulty("error") ELSE UNCHANGED fault
  /\ UNCHANGED <<alert, clock, ownerGone, lock, ownerVars, mailVars, marked, history, modeEdited>>

Crash(c) ==
  /\ pc[c] # "idle"
  /\ Leave(c, "idle")
  /\ IF pc[c] = "mark" THEN Faulty("crash") ELSE UNCHANGED fault
  /\ UNCHANGED <<alert, clock, ownerGone, lock, ownerVars, mailVars, marked, history, modeEdited>>

\* The TTL of five minutes runs out, over a dead check or a slow one.
LockExpires ==
  /\ lock # NoChecker
  /\ lock' = NoChecker
  /\ IF pc[lock] # "idle" THEN Faulty("overrun") ELSE UNCHANGED fault
  /\ UNCHANGED <<alert, clock, ownerGone, pc, checkVars, ownerVars, mailVars, marked, history,
                 modeEdited>>

-----------------------------------------------------------------------------
(* The owner: UpdatePriceAlertUseCase and CancelPriceAlertUseCase *)

\* The row is read and judged; the write follows.  An alert that expires before the
\* next check may have expired already.
UpdateRead(o, e) ==
  /\ request[o] = "none"
  /\ alert.status = "ACTIVE"
  /\ \E t \in {clock, clock + 1} :
       /\ request' = [request EXCEPT ![o] = IF Expired(alert, t) THEN "expire" ELSE "edit"]
       /\ edit' = [edit EXCEPT ![o] = IF Expired(alert, t) THEN NoEdit ELSE e]
  /\ UNCHANGED <<alert, clock, ownerGone, lock, pc, checkVars, mailVars, marked, history,
                 modeEdited, fault>>

CancelRead(o) ==
  /\ request[o] = "none"
  /\ alert.status \in {"ACTIVE", "TRIGGERED"}
  /\ request' = [request EXCEPT ![o] = "cancel"]
  /\ UNCHANGED <<alert, clock, ownerGone, lock, pc, checkVars, edit, mailVars, marked, history,
                 modeEdited, fault>>

EditedKeepingBaseline(e) ==
  [alert EXCEPT !.direction = IF e.direction = Keep THEN @ ELSE e.direction,
                !.target = IF e.target = NoPrice THEN @ ELSE e.target,
                !.mode = IF e.mode = Keep THEN @ ELSE e.mode]

\* toUpdateData: a new condition forgets the price it was last compared with.
Edited(e) ==
  [alert EXCEPT !.direction = IF e.direction = Keep THEN @ ELSE e.direction,
                !.target = IF e.target = NoPrice THEN @ ELSE e.target,
                !.mode = IF e.mode = Keep THEN @ ELSE e.mode,
                !.last = IF e.direction = Keep /\ e.target = NoPrice THEN @ ELSE NoPrice]

Answered(o) ==
  /\ request' = [request EXCEPT ![o] = "none"]
  /\ edit' = [edit EXCEPT ![o] = NoEdit]

\* updateOwned: by id and owner, whatever the status has become.
UpdateWrite(o) ==
  /\ request[o] = "edit"
  /\ Write(Edited(edit[o]))
  /\ modeEdited' = (modeEdited \/ edit[o].mode \notin {Keep, alert.mode})
  /\ Answered(o)
  /\ UNCHANGED <<clock, ownerGone, lock, pc, checkVars, mailVars, marked, fault>>

ExpireWrite(o) ==
  /\ request[o] = "expire"
  /\ Write([alert EXCEPT !.status = "EXPIRED"])
  /\ Answered(o)
  /\ UNCHANGED <<clock, ownerGone, lock, pc, checkVars, mailVars, marked, modeEdited, fault>>

CancelWrite(o) ==
  /\ request[o] = "cancel"
  /\ Write([alert EXCEPT !.status = "CANCELLED"])
  /\ Answered(o)
  /\ UNCHANGED <<clock, ownerGone, lock, pc, checkVars, mailVars, marked, modeEdited, fault>>

OwnerDeleted ==
  /\ ~ownerGone
  /\ ownerGone' = TRUE
  /\ UNCHANGED <<alert, clock, lock, pc, checkVars, ownerVars, mailVars, marked, history,
                 modeEdited, fault>>

-----------------------------------------------------------------------------

CheckNext(c) ==
  \/ Start(c) \/ Expire(c) \/ (\E p \in Price \cup {NoPrice} : Fetch(c, p)) \/ Page(c)
  \/ Record(c) \/ Notify(c) \/ NotifyRejected(c) \/ NotifyTimedOut(c) \/ Mark(c)
  \/ Release(c) \/ Fail(c) \/ Crash(c)

OwnerNext(o) ==
  \/ (\E e \in Edits : UpdateRead(o, e)) \/ CancelRead(o)
  \/ UpdateWrite(o) \/ ExpireWrite(o) \/ CancelWrite(o)

Next ==
  \/ \E c \in Checker : CheckNext(c)
  \/ \E o \in Owner : OwnerNext(o)
  \/ \E k \in Instant : LateAdd(k)
  \/ LockExpires
  \/ OwnerDeleted

Spec == Init /\ [][Next]_vars

-----------------------------------------------------------------------------
(* Properties *)

\* An alert that is no longer active never becomes active again, although checks
\* and edits write to it on the strength of rows they read while it was.
EndedForGood == [][alert.status # "ACTIVE" => alert'.status # "ACTIVE"]_vars

\* No check that starts after the alert has left ACTIVE puts a mail in the queue,
\* neither at once nor by an add that was delayed.
EndedStaysQuiet ==
  alert.status # "ACTIVE" => \A k \in queued \cup late : k <= ended

\* PriceCheckService hands the notification over before markTriggered, so that a
\* notification that was never sent is never recorded: every instant the row was
\* marked with has its mail in the queue.
MarkedHasMail == marked \subseteq queued

\* What was mailed and what was recorded agree: no mail of an ended alert, and no
\* mark without its mail.
MailsMatchMarks == EndedStaysQuiet /\ MarkedHasMail

\* While no check was cut short between mail and mark, overran its lock or missed
\* the publish deadline, an alert that was ONCE all the time is notified once.
OnceNotifiesOnce ==
  fault = "none" /\ ~modeEdited /\ alert.mode = "ONCE" => Cardinality(queued) <= 1

\* Under the same conditions two mails of a repeating alert are a cooldown apart.
CooldownKept ==
  fault = "none" => \A j, k \in queued : j < k => k - j >= Cooldown

\* Neither overlapping checks nor the owner's edits notify too often.
NotTooOften == OnceNotifiesOnce /\ CooldownKept

\* An alert that fires once never lets a crossing pass: after a recorded price short
\* of the target, the next one beyond it has triggered it.
NoMissedCrossing ==
  ~( /\ alert.status = "ACTIVE" /\ alert.mode = "ONCE" /\ ~modeEdited
     /\ fault # "overrun" /\ ~ownerGone
     /\ near /\ FarSide(alert) )

\* A crossing is notified once, and none is lost.
CrossingsNotified == NotTooOften /\ NoMissedCrossing
=============================================================================
