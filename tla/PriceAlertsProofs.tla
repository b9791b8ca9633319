--------------------------- MODULE PriceAlertsProofs ---------------------------
(***************************************************************************)
(* Theorems of PriceAlerts, for any number of instances and owner requests *)
(* and any alerts, edits, prices and cooldown.  What holds of ended alerts *)
(* and of mails and marks does not assume that the lock holds: it rests on *)
(* the status each write tests and on the order of mail and mark.  That no *)
(* crossing is mailed twice or lost needs the lock, and says so.           *)
(***************************************************************************)
EXTENDS PriceAlerts, FiniteSetTheorems, TLAPS

\* A row edit of well-formed fields gives a row.
LEMMA EditedType ==
  ASSUME alert \in Alert, NEW e \in Edits \cup {NoEdit}
  PROVE  Edited(e) \in Alert /\ Edited(e).status = alert.status
<1>1. e \in Edit
  BY AlertAssumption DEF NoEdit, Edit
<1>2. /\ e.direction \in Direction \cup {Keep}
      /\ e.target \in Price \cup {NoPrice}
      /\ e.mode \in Mode \cup {Keep}
  BY <1>1 DEF Edit
<1>3. /\ (IF e.direction = Keep THEN alert.direction ELSE e.direction) \in Direction
      /\ (IF e.target = NoPrice THEN alert.target ELSE e.target) \in Price
      /\ (IF e.mode = Keep THEN alert.mode ELSE e.mode) \in Mode
      /\ alert.last \in Price \cup {NoPrice}
  BY <1>2 DEF Alert
<1> QED BY <1>3 DEF Edited, Alert

\* What a write does to the row is what it does to the history.
LEMMA WriteType ==
  ASSUME TypeOK, NEW row \in Alert, Write(row)
  PROVE  alert' \in Alert /\ near' \in BOOLEAN /\ ended' \in Instant
<1>1. alert' \in Alert
  BY DEF Write
<1>2. near' \in BOOLEAN
  BY DEF Write, TypeOK, NearSide, Short
<1>3. ended' \in Instant
  BY DEF Write, TypeOK, Instant
<1> QED BY <1>1, <1>2, <1>3

LEMMA LeaveType ==
  ASSUME TypeOK, NEW c \in Checker, NEW label \in {"idle", "release"}, Leave(c, label)
  PROVE  /\ pc' \in [Checker -> {"idle", "expire", "fetch", "page", "record", "notify", "mark",
                                 "release"}]
         /\ now' \in [Checker -> Instant]
         /\ quote' \in [Checker -> Price \cup {NoPrice}]
         /\ mode' \in [Checker -> Mode]
BY AlertAssumption DEF TypeOK, Leave, Goto, Instant, Mode

LEMMA FaultType ==
  ASSUME TypeOK, NEW kind \in {"crash", "error", "overrun"}, Faulty(kind)
  PROVE  fault' \in {"none", "crash", "error", "overrun"}
BY DEF TypeOK, Faulty

-----------------------------------------------------------------------------
(* Types *)

LEMMA TypeInit == Init => TypeOK
<1> SUFFICES ASSUME Init
             PROVE  TypeOK
  OBVIOUS
<1>1. alert \in Alert
  BY AlertAssumption DEF Init
<1>2. 0 \in Instant
  BY AlertAssumption DEF Instant
<1> QED BY <1>1, <1>2 DEF Init, TypeOK, Mode

LEMMA TypeCheck ==
  ASSUME TypeOK, NEW c \in Checker, CheckNext(c)
  PROVE  TypeOK'
<1> USE DEF TypeOK
<1>1. CASE Start(c)
  BY <1>1, AlertAssumption DEF Start, Goto, Instant, checkVars, ownerVars, mailVars, history
<1>2. CASE Expire(c)
  <2>1. [alert EXCEPT !.status = "EXPIRED"] \in Alert
    BY DEF Alert, Status
  <2>2. alert' \in Alert /\ near' \in BOOLEAN /\ ended' \in Instant
    BY <1>2, <2>1, WriteType DEF Expire, history
  <2> QED BY <1>2, <2>2 DEF Expire, Goto, checkVars, ownerVars, mailVars
<1>3. ASSUME NEW p \in Price \cup {NoPrice}, Fetch(c, p)
      PROVE  TypeOK'
  BY <1>3 DEF Fetch, Goto, ownerVars, mailVars, history
<1>4. CASE Page(c)
  <2>1. NextStep(c) \in {"release", "notify", "record"}
    BY DEF NextStep
  <2> QED BY <1>4, <2>1 DEF Page, Goto, Alert, ownerVars, mailVars, history
<1>5. CASE Record(c)
  <2>1. quote[c] \in Price \cup {NoPrice}
    OBVIOUS
  <2>2. [alert EXCEPT !.last = quote[c]] \in Alert
    BY <2>1 DEF Alert
  <2>3. alert' \in Alert /\ near' \in BOOLEAN /\ ended' \in Instant
    BY <1>5, <2>2, WriteType DEF Record, history
  <2> QED BY <1>5, <2>3, LeaveType DEF Record, ownerVars, mailVars
<1>6. CASE Notify(c)
  BY <1>6 DEF Notify, Goto, checkVars, ownerVars, history
<1>7. CASE NotifyRejected(c)
  BY <1>7 DEF NotifyRejected, AfterFailedPublish, Goto, checkVars, ownerVars, mailVars, history
<1>8. CASE NotifyTimedOut(c)
  BY <1>8, FaultType DEF NotifyTimedOut, AfterFailedPublish, Goto, checkVars, ownerVars, history
<1>9. CASE Mark(c)
  <2>1. quote[c] \in Price \cup {NoPrice} /\ now[c] \in Instant /\ StatusAfter(c) \in Status
    BY DEF StatusAfter, Status
  <2>2. MarkedRow(c) \in Alert
    BY <2>1 DEF MarkedRow, Alert
  <2>3. alert' \in Alert /\ near' \in BOOLEAN /\ ended' \in Instant /\ marked' \subseteq Instant
    BY <1>9, <2>1, <2>2, WriteType DEF Mark, history
  <2> QED BY <1>9, <2>3, LeaveType DEF Mark, ownerVars, mailVars
<1>10. CASE Release(c)
  BY <1>10, LeaveType DEF Release, ownerVars, mailVars, history
<1>11. CASE Fail(c)
  BY <1>11, LeaveType, FaultType DEF Fail, ownerVars, mailVars, history
<1>12. CASE Crash(c)
  BY <1>12, LeaveType, FaultType DEF Crash, ownerVars, mailVars, history
<1> QED
  BY <1>1, <1>2, <1>3, <1>4, <1>5, <1>6, <1>7, <1>8, <1>9, <1>10, <1>11, <1>12 DEF CheckNext

LEMMA TypeOwner ==
  ASSUME TypeOK, NEW o \in Owner, OwnerNext(o)
  PROVE  TypeOK'
<1> USE DEF TypeOK
<1>1. ASSUME NEW e \in Edits, UpdateRead(o, e)
      PROVE  TypeOK'
  <2>1. PICK t \in {clock, clock + 1} :
           /\ request' = [request EXCEPT ![o] = IF Expired(alert, t) THEN "expire" ELSE "edit"]
           /\ edit' = [edit EXCEPT ![o] = IF Expired(alert, t) THEN NoEdit ELSE e]
    BY <1>1 DEF UpdateRead
  <2> QED BY <1>1, <2>1 DEF UpdateRead, checkVars, mailVars, history
<1>2. CASE CancelRead(o)
  BY <1>2 DEF CancelRead, checkVars, mailVars, history
<1>3. CASE UpdateWrite(o)
  <2>1. edit[o] \in Edits \cup {NoEdit}
    OBVIOUS
  <2>2. Edited(edit[o]) \in Alert
    BY <2>1, EditedType
  <2>3. alert' \in Alert /\ near' \in BOOLEAN /\ ended' \in Instant
    BY <1>3, <2>2, WriteType DEF UpdateWrite
  <2>4. modeEdited' \in BOOLEAN
    BY <1>3 DEF UpdateWrite
  <2> QED BY <1>3, <2>3, <2>4 DEF UpdateWrite, Answered, checkVars, mailVars
<1>4. CASE ExpireWrite(o)
  <2>1. [alert EXCEPT !.status = "EXPIRED"] \in Alert
    BY DEF Alert, Status
  <2>2. alert' \in Alert /\ near' \in BOOLEAN /\ ended' \in Instant
    BY <1>4, <2>1, WriteType DEF ExpireWrite
  <2> QED BY <1>4, <2>2 DEF ExpireWrite, Answered, checkVars, mailVars
<1>5. CASE CancelWrite(o)
  <2>1. [alert EXCEPT !.status = "CANCELLED"] \in Alert
    BY DEF Alert, Status
  <2>2. alert' \in Alert /\ near' \in BOOLEAN /\ ended' \in Instant
    BY <1>5, <2>1, WriteType DEF CancelWrite
  <2> QED BY <1>5, <2>2 DEF CancelWrite, Answered, checkVars, mailVars
<1> QED BY <1>1, <1>2, <1>3, <1>4, <1>5 DEF OwnerNext

LEMMA TypeStep == TypeOK /\ [Next]_vars => TypeOK'
<1> SUFFICES ASSUME TypeOK, [Next]_vars
             PROVE  TypeOK'
  OBVIOUS
<1>1. ASSUME NEW k \in Instant, LateAdd(k)
      PROVE  TypeOK'
  BY <1>1 DEF TypeOK, LateAdd, checkVars, ownerVars, history
<1>2. CASE LockExpires
  BY <1>2, FaultType DEF TypeOK, LockExpires, checkVars, ownerVars, mailVars, history
<1>3. CASE OwnerDeleted
  BY <1>3 DEF TypeOK, OwnerDeleted, checkVars, ownerVars, mailVars, history
<1>4. CASE UNCHANGED vars
  BY <1>4 DEF TypeOK, vars, checkVars, ownerVars, mailVars, history
<1> QED BY <1>1, <1>2, <1>3, <1>4, TypeCheck, TypeOwner DEF Next

\* Rows, clocks, steps and keys keep their types under every interleaving.
THEOREM TypeCorrect == Spec => []TypeOK
BY TypeInit, TypeStep, PTL DEF Spec

-----------------------------------------------------------------------------
(* What has ended stays ended *)

\* Three kinds of write leave an ended alert as it is: those that test for ACTIVE,
\* those that store another status, and an update, which keeps the status it finds.
LEMMA EndedStep == TypeOK /\ [Next]_vars => (alert.status # "ACTIVE" => alert'.status # "ACTIVE")
<1> SUFFICES ASSUME TypeOK, [Next]_vars, alert.status # "ACTIVE"
             PROVE  alert'.status # "ACTIVE"
  OBVIOUS
<1>0. alert \in Alert
  BY DEF TypeOK
<1>1. ASSUME NEW c \in Checker, CheckNext(c)
      PROVE  alert' = alert
  BY <1>1 DEF CheckNext, Start, Expire, Fetch, Page, Record, Notify, NotifyRejected,
              NotifyTimedOut, Mark, MarkMatches, Release, Fail, Crash
<1>2. ASSUME NEW o \in Owner, UpdateWrite(o)
      PROVE  alert'.status = alert.status
  <2>1. edit[o] \in Edits \cup {NoEdit}
    BY DEF TypeOK
  <2> QED BY <1>0, <1>2, <2>1, EditedType DEF UpdateWrite, Write
<1>3. ASSUME NEW o \in Owner, ExpireWrite(o) \/ CancelWrite(o)
      PROVE  alert'.status # "ACTIVE"
  BY <1>0, <1>3 DEF ExpireWrite, CancelWrite, Write, Alert
<1>4. ASSUME NEW o \in Owner, CancelRead(o) \/ \E e \in Edits : UpdateRead(o, e)
      PROVE  alert' = alert
  BY <1>4 DEF CancelRead, UpdateRead
<1>5. ASSUME LockExpires \/ OwnerDeleted \/ \E k \in Instant : LateAdd(k)
      PROVE  alert' = alert
  BY <1>5 DEF LockExpires, OwnerDeleted, LateAdd
<1> QED BY <1>1, <1>2, <1>3, <1>4, <1>5 DEF Next, OwnerNext, vars

\* An alert that has left ACTIVE never returns to it, although checks and edits
\* write on the strength of rows they read before.
THEOREM EndedAlertsStayEnded == Spec => EndedForGood
<1>1. TypeOK /\ [Next]_vars => [alert.status # "ACTIVE" => alert'.status # "ACTIVE"]_vars
  BY EndedStep
<1> QED BY <1>1, TypeCorrect, PTL DEF Spec, EndedForGood

-----------------------------------------------------------------------------
(* Mail before mark *)

\* A check about to mark the alert has its mail in the queue.
MailBeforeMark == \A c \in Checker : pc[c] = "mark" => now[c] \in queued

MailInv == TypeOK /\ MailBeforeMark /\ MarkedHasMail

LEMMA MailStep == MailInv /\ [Next]_vars => MailInv'
<1> SUFFICES ASSUME MailInv, [Next]_vars
             PROVE  MailInv'
  OBVIOUS
<1> USE DEF MailInv, MailBeforeMark, MarkedHasMail
<1>0. TypeOK'
  BY TypeStep
<1>1. queued \subseteq queued'
  BY DEF Next, CheckNext, OwnerNext, Start, Expire, Fetch, Page, Record, Notify, NotifyRejected,
         NotifyTimedOut, Mark, Release, Fail, Crash, LateAdd, LockExpires, OwnerDeleted,
         UpdateRead, CancelRead, UpdateWrite, ExpireWrite, CancelWrite, vars, mailVars
<1>2. ASSUME NEW c \in Checker, CheckNext(c)
      PROVE  MailBeforeMark' /\ MarkedHasMail'
  <2>0. \A d \in Checker \ {c} : pc'[d] = pc[d] /\ now'[d] = now[d]
    BY <1>2 DEF CheckNext, Start, Expire, Fetch, Page, Record, Notify, NotifyRejected,
                NotifyTimedOut, Mark, Release, Fail, Crash, Goto, Leave, checkVars, TypeOK
  <2>1. pc'[c] = "mark" => now'[c] \in queued'
    <3>1. CASE Notify(c)
      BY <3>1 DEF Notify, checkVars
    <3>2. CASE Start(c) \/ Expire(c) \/ \E p \in Price \cup {NoPrice} : Fetch(c, p)
      BY <3>2 DEF Start, Expire, Fetch, Goto, TypeOK
    <3>3. CASE Page(c)
      BY <3>3 DEF Page, NextStep, Goto, TypeOK
    <3>4. CASE Record(c) \/ Mark(c) \/ Release(c) \/ Fail(c) \/ Crash(c)
      BY <3>4 DEF Record, Mark, Release, Fail, Crash, Leave, Goto, TypeOK
    <3>5. CASE NotifyRejected(c) \/ NotifyTimedOut(c)
      BY <3>5 DEF NotifyRejected, NotifyTimedOut, AfterFailedPublish, Goto, TypeOK
    <3> QED BY <1>2, <3>1, <3>2, <3>3, <3>4, <3>5 DEF CheckNext
  <2>2. marked' \subseteq queued'
    <3>1. CASE Mark(c)
      BY <1>1, <3>1 DEF Mark
    <3>2. CASE ~Mark(c)
      BY <1>1, <1>2, <3>2 DEF CheckNext, Start, Expire, Fetch, Page, Record, Notify,
           NotifyRejected, NotifyTimedOut, Release, Fail, Crash
    <3> QED BY <3>1, <3>2
  <2> QED BY <1>1, <2>0, <2>1, <2>2
<1>3. ASSUME UNCHANGED <<pc, now, marked>>
      PROVE  MailBeforeMark' /\ MarkedHasMail'
  BY <1>1, <1>3
<1>4. ASSUME NEW o \in Owner, OwnerNext(o)
      PROVE  UNCHANGED <<pc, now, marked>>
  BY <1>4 DEF OwnerNext, UpdateRead, CancelRead, UpdateWrite, ExpireWrite, CancelWrite, checkVars
<1>5. ASSUME LockExpires \/ OwnerDeleted \/ (\E k \in Instant : LateAdd(k)) \/ UNCHANGED vars
      PROVE  UNCHANGED <<pc, now, marked>>
  BY <1>5 DEF LockExpires, OwnerDeleted, LateAdd, vars, checkVars
<1> QED BY <1>0, <1>2, <1>3, <1>4, <1>5 DEF Next

\* The row never records a notification whose mail is not in the queue.
THEOREM NothingUnsentIsRecorded == Spec => []MarkedHasMail
<1>1. Init => MailInv
  BY TypeInit DEF Init, MailInv, MailBeforeMark, MarkedHasMail
<1>2. MailInv => MarkedHasMail
  BY DEF MailInv
<1> QED BY <1>1, <1>2, MailStep, PTL DEF Spec

-----------------------------------------------------------------------------
(* An ended alert is quiet *)

\* No instant lies ahead of the clock.
Fresh ==
  /\ \A c \in Checker : now[c] <= clock
  /\ \A k \in queued \cup late : k <= clock

\* A check that is about to notify started before the alert ended.
PendingQuiet ==
  alert.status # "ACTIVE" => \A c \in Checker : pc[c] = "notify" => now[c] <= ended

QuietInv == TypeOK /\ Fresh /\ PendingQuiet /\ EndedStaysQuiet

\* The instant of the end is taken when the alert leaves ACTIVE and never again.
LEMMA EndIsRecorded ==
  ASSUME TypeOK, [Next]_vars, alert'.status # "ACTIVE"
  PROVE  /\ alert.status # "ACTIVE" => ended' = ended
         /\ alert.status = "ACTIVE" => ended' = clock /\ clock' = clock
<1>1. CASE \E row : Write(row) /\ UNCHANGED clock
  BY <1>1 DEF Write
<1>2. CASE UNCHANGED <<alert, ended>>
  BY <1>2
<1> QED BY <1>1, <1>2 DEF Next, CheckNext, OwnerNext, Start, Expire, Fetch, Page, Record, Notify,
     NotifyRejected,
         NotifyTimedOut, Mark, Release, Fail, Crash, LateAdd, LockExpires, OwnerDeleted,
         UpdateRead, CancelRead, UpdateWrite, ExpireWrite, CancelWrite, vars, history

LEMMA FreshStep ==
  ASSUME TypeOK, Fresh, [Next]_vars
  PROVE  Fresh'
<1> USE DEF Fresh
<1>1. clock \in Int /\ clock' \in Int /\ clock <= clock' /\ 0 <= clock
  <2>1. clock' = clock \/ clock' = clock + 1
    BY DEF Next, CheckNext, OwnerNext, Start, Expire, Fetch, Page, Record, Notify, NotifyRejected,
         NotifyTimedOut, Mark, Release, Fail, Crash, LateAdd, LockExpires, OwnerDeleted,
         UpdateRead, CancelRead, UpdateWrite, ExpireWrite, CancelWrite, vars
  <2> QED BY <2>1, AlertAssumption DEF TypeOK, Instant
<1>2. \A c \in Checker : now'[c] \in {now[c], 0, clock'}
  BY DEF Next, CheckNext, OwnerNext, Start, Expire, Fetch, Page, Record, Notify, NotifyRejected,
         NotifyTimedOut, Mark, Release, Fail, Crash, LateAdd, LockExpires, OwnerDeleted,
         UpdateRead, CancelRead, UpdateWrite, ExpireWrite, CancelWrite, vars,
         Leave, checkVars, TypeOK
<1>3. \A k \in queued' \cup late' : k \in queued \cup late \/ \E c \in Checker : k = now[c]
  BY DEF Next, CheckNext, OwnerNext, Start, Expire, Fetch, Page, Record, Notify, NotifyRejected,
         NotifyTimedOut, Mark, Release, Fail, Crash, LateAdd, LockExpires, OwnerDeleted,
         UpdateRead, CancelRead, UpdateWrite, ExpireWrite, CancelWrite, vars, mailVars
<1>4. (\A c \in Checker : now[c] \in Int) /\ queued \cup late \subseteq Int
  BY DEF TypeOK, Instant
<1>5. \A c \in Checker : now'[c] <= clock'
  BY <1>1, <1>2, <1>4
<1>6. \A k \in queued' \cup late' : k <= clock'
  BY <1>1, <1>3, <1>4
<1> QED BY <1>5, <1>6

\* Only a page read while the alert is active leads to a notification, and only
\* a notification adds to the mails or to those on their way.
LEMMA NotifySource ==
  ASSUME TypeOK, [Next]_vars, alert.status # "ACTIVE"
  PROVE  /\ \A c \in Checker : pc'[c] = "notify" => pc[c] = "notify" /\ now'[c] = now[c]
         /\ \A k \in queued' \cup late' :
              k \in queued \cup late \/ \E c \in Checker : pc[c] = "notify" /\ k = now[c]
<1>1. \A c \in Checker : pc'[c] = "notify" => pc[c] = "notify" /\ now'[c] = now[c]
  <2>1. ASSUME NEW c \in Checker, CheckNext(c)
        PROVE  pc'[c] # "notify" /\ \A d \in Checker \ {c} : pc'[d] = pc[d] /\ now'[d] = now[d]
    BY <2>1 DEF CheckNext, Start, Expire, Fetch, Page, OnPage, Record, Notify, NotifyRejected,
         NotifyTimedOut, AfterFailedPublish, Mark, Release, Fail, Crash, Goto, Leave, checkVars,
         TypeOK
  <2>2. CASE UNCHANGED <<pc, now>>
    BY <2>2
  <2>3. (\E c \in Checker : CheckNext(c)) \/ UNCHANGED <<pc, now>>
    BY DEF Next, OwnerNext, UpdateRead, CancelRead, UpdateWrite, ExpireWrite, CancelWrite,
         LateAdd, LockExpires, OwnerDeleted, vars, checkVars
  <2> QED BY <2>1, <2>2, <2>3
<1>2. \A k \in queued' \cup late' :
         k \in queued \cup late \/ \E c \in Checker : pc[c] = "notify" /\ k = now[c]
  BY DEF Next, CheckNext, OwnerNext, Start, Expire, Fetch, Page, Record, Notify, NotifyRejected,
         NotifyTimedOut, Mark, Release, Fail, Crash, LateAdd, LockExpires, OwnerDeleted,
         UpdateRead, CancelRead, UpdateWrite, ExpireWrite, CancelWrite, vars, mailVars
<1> QED BY <1>1, <1>2

LEMMA QuietStep == QuietInv /\ [Next]_vars => QuietInv'
<1> SUFFICES ASSUME QuietInv, [Next]_vars
             PROVE  QuietInv'
  OBVIOUS
<1> USE DEF QuietInv
<1>1. TypeOK' /\ Fresh'
  BY TypeStep, FreshStep
<1>2. ASSUME alert'.status # "ACTIVE", alert.status = "ACTIVE"
      PROVE  PendingQuiet' /\ EndedStaysQuiet'
  <2>1. ended' = clock'
    BY <1>2, EndIsRecorded
  <2> QED BY <1>1, <2>1 DEF Fresh, PendingQuiet, EndedStaysQuiet
<1>3. ASSUME alert'.status # "ACTIVE", alert.status # "ACTIVE"
      PROVE  PendingQuiet' /\ EndedStaysQuiet'
  <2>1. ended' = ended
    BY <1>3, EndIsRecorded
  <2>2. PendingQuiet'
    BY <1>3, <2>1, NotifySource DEF PendingQuiet
  <2>3. EndedStaysQuiet'
    BY <1>3, <2>1, NotifySource DEF PendingQuiet, EndedStaysQuiet
  <2> QED BY <2>2, <2>3
<1>4. ASSUME alert'.status = "ACTIVE"
      PROVE  PendingQuiet' /\ EndedStaysQuiet'
  BY <1>4 DEF PendingQuiet, EndedStaysQuiet
<1> QED BY <1>1, <1>2, <1>3, <1>4

\* No check that starts after the alert has ended puts a mail in the queue, be the
\* add delayed and the lock overrun.
THEOREM EndedAlertsStayQuiet == Spec => []EndedStaysQuiet
<1>1. Init => QuietInv
  <2>1. ASSUME Init
        PROVE  Fresh /\ PendingQuiet /\ EndedStaysQuiet
    BY <2>1 DEF Init, Fresh, PendingQuiet, EndedStaysQuiet
  <2> QED BY <2>1, TypeInit DEF QuietInv
<1>2. QuietInv => EndedStaysQuiet
  BY DEF QuietInv
<1> QED BY <1>1, <1>2, QuietStep, PTL DEF Spec

\* Mails and marks agree: no mail of an ended alert, no mark without its mail.
THEOREM MailsAndMarksAgree == Spec => []MailsMatchMarks
<1>1. EndedStaysQuiet /\ MarkedHasMail => MailsMatchMarks
  BY DEF MailsMatchMarks
<1> QED BY <1>1, EndedAlertsStayQuiet, NothingUnsentIsRecorded, PTL

-----------------------------------------------------------------------------
(* A crossing is notified once, and none is lost *)

\* While no check overran the lock, the one at work is the one that holds it, and
\* its instant is the latest.
Alone ==
  fault # "overrun" =>
    \A c \in Checker :
      /\ pc[c] # "idle" => lock = c
      /\ pc[c] \notin {"idle", "release"} => now[c] = clock

\* The mode a check works with is the row's, and an alert that fires once has not
\* been marked while it is active.
SameMode ==
  ~modeEdited =>
    /\ \A c \in Checker : pc[c] \in {"record", "notify", "mark"} => mode[c] = alert.mode
    /\ alert.status = "ACTIVE" /\ alert.mode = "ONCE" => alert.lastAt = Never

\* c is the check whose mail of instant k is not recorded yet.
Unrecorded(c, k) == pc[c] = "mark" /\ now[c] = k

\* As long as nothing went wrong, the row accounts for every mail, bar the one that
\* is about to be recorded.
Recorded ==
  fault = "none" =>
    /\ late = {}
    /\ alert.status = "ACTIVE" =>
         \A k \in queued : k <= alert.lastAt \/ \E c \in Checker : Unrecorded(c, k)

\* The mail a check is about to send keeps its distance.
Spaced ==
  fault = "none" =>
    \A c \in Checker : pc[c] = "notify" =>
      /\ \A k \in queued : now[c] - k >= Cooldown
      /\ ~modeEdited /\ alert.mode = "ONCE" => queued = {}

\* No check has the instant at which the clock stood before the first one, as long
\* as it can still send a mail.
Numbered ==
  /\ \A c \in Checker : pc[c] \notin {"idle", "release"} => now[c] # Never
  /\ Never \notin queued \cup late

\* The row has not been marked at an instant to come.
Dated == alert.lastAt <= clock

SpacingInv ==
  TypeOK /\ Fresh /\ Numbered /\ Dated /\ Alone /\ SameMode /\ Recorded /\ Spaced /\ NotTooOften

\* An active alert that always fired once, of an owner who is there.
Watched ==
  /\ alert.status = "ACTIVE" /\ alert.mode = "ONCE" /\ ~modeEdited
  /\ fault # "overrun" /\ ~ownerGone

\* The recorded price has come near only if there is one, and a price that is about
\* to be recorded leaves a near alert near.
StaysNear ==
  /\ NearSide(alert) => near
  /\ near => alert.last # NoPrice
  /\ Watched /\ near =>
       \A c \in Checker : pc[c] = "record" => Short(alert.direction, quote[c], alert.target)

CrossingInv == SpacingInv /\ StaysNear /\ NoMissedCrossing
-----------------------------------------------------------------------------
(* The steps of one check leave the others alone *)

LEMMA OthersKept ==
  ASSUME TypeOK, NEW c \in Checker, CheckNext(c), NEW d \in Checker, d # c
  PROVE  pc'[d] = pc[d] /\ now'[d] = now[d] /\ quote'[d] = quote[d] /\ mode'[d] = mode[d]
BY DEF CheckNext, Start, Expire, Fetch, Page, Record, Notify, NotifyRejected, NotifyTimedOut,
       Mark, Release, Fail, Crash, Goto, Leave, checkVars, TypeOK

\* What neither the owner nor the environment touches.
LEMMA ChecksKept ==
  ASSUME [Next]_vars, \A c \in Checker : ~CheckNext(c)
  PROVE  UNCHANGED <<pc, now, quote, mode, clock, marked>> /\ (lock' = lock \/ LockExpires)
BY DEF Next, OwnerNext, UpdateRead, CancelRead, UpdateWrite, ExpireWrite, CancelWrite, LateAdd,
       LockExpires, OwnerDeleted, vars, checkVars

\* Faults, an edited mode and a deleted owner are never taken back.
LEMMA HistoryStays ==
  ASSUME TypeOK, [Next]_vars
  PROVE  /\ fault' = "none" => fault = "none"
         /\ fault' # "overrun" => fault # "overrun"
         /\ ~modeEdited' => ~modeEdited
         /\ ~ownerGone' => ~ownerGone
<1>1. fault' = fault \/ \E kind \in {"crash", "error", "overrun"} : Faulty(kind)
  <2>1. ASSUME NEW c \in Checker, CheckNext(c)
        PROVE  fault' = fault \/ \E kind \in {"crash", "error", "overrun"} : Faulty(kind)
    BY <2>1 DEF CheckNext, Start, Expire, Fetch, Page, Record, Notify, NotifyRejected,
         NotifyTimedOut, Mark, Release, Fail, Crash
  <2>2. ASSUME NEW o \in Owner, OwnerNext(o)
        PROVE  fault' = fault
    BY <2>2 DEF OwnerNext, UpdateRead, CancelRead, UpdateWrite, ExpireWrite, CancelWrite
  <2>3. ASSUME LockExpires \/ OwnerDeleted \/ (\E k \in Instant : LateAdd(k)) \/ UNCHANGED vars
        PROVE  fault' = fault \/ \E kind \in {"crash", "error", "overrun"} : Faulty(kind)
    BY <2>3 DEF LockExpires, OwnerDeleted, LateAdd, vars
  <2> QED BY <2>1, <2>2, <2>3 DEF Next
<1>2. (fault' = "none" => fault = "none") /\ (fault' # "overrun" => fault # "overrun")
  BY <1>1 DEF Faulty
<1>3. ASSUME NEW c \in Checker, CheckNext(c)
      PROVE  UNCHANGED <<modeEdited, ownerGone>>
  BY <1>3 DEF CheckNext, Start, Expire, Fetch, Page, Record, Notify, NotifyRejected,
       NotifyTimedOut, Mark, Release, Fail, Crash
<1>4. ASSUME NEW o \in Owner, OwnerNext(o)
      PROVE  ownerGone' = ownerGone /\ (~modeEdited' => ~modeEdited)
  <2>1. CASE UpdateWrite(o)
    BY <2>1 DEF UpdateWrite
  <2>2. CASE UNCHANGED <<modeEdited, ownerGone>>
    BY <2>2
  <2> QED
    BY <1>4, <2>1, <2>2 DEF OwnerNext, UpdateRead, CancelRead, ExpireWrite, CancelWrite
<1>5. ASSUME LockExpires \/ OwnerDeleted \/ (\E k \in Instant : LateAdd(k)) \/ UNCHANGED vars
      PROVE  modeEdited' = modeEdited /\ (~ownerGone' => ~ownerGone)
  BY <1>5 DEF LockExpires, OwnerDeleted, LateAdd, vars
<1> QED BY <1>2, <1>3, <1>4, <1>5 DEF Next

\* The check writes the trigger mode of no row, the owner only what counts as an edit.
LEMMA ModeStays ==
  ASSUME TypeOK, [Next]_vars, ~modeEdited'
  PROVE  alert'.mode = alert.mode
<1>0. alert \in Alert
  BY DEF TypeOK
<1>1. ASSUME NEW o \in Owner, UpdateWrite(o)
      PROVE  alert'.mode = alert.mode
  <2>1. edit[o].mode \in {Keep, alert.mode} /\ alert' = Edited(edit[o])
    BY <1>1 DEF UpdateWrite, Write
  <2> QED BY <1>0, <2>1 DEF Edited, Alert
<1>2. ASSUME NEW o \in Owner, ExpireWrite(o) \/ CancelWrite(o)
      PROVE  alert'.mode = alert.mode
  BY <1>0, <1>2 DEF ExpireWrite, CancelWrite, Write, Alert
<1>3. ASSUME NEW c \in Checker, Expire(c) \/ Record(c) \/ Mark(c)
      PROVE  alert'.mode = alert.mode
  BY <1>0, <1>3 DEF Expire, Record, Mark, MarkedRow, Write, Alert
<1>4. ASSUME UNCHANGED alert
      PROVE  alert'.mode = alert.mode
  BY <1>4
<1> QED
  BY <1>1, <1>2, <1>3, <1>4 DEF Next, CheckNext, OwnerNext, Start, Fetch, Page, Notify,
     NotifyRejected, NotifyTimedOut, Release, Fail, Crash, LateAdd, LockExpires, OwnerDeleted,
     UpdateRead, CancelRead, vars

LEMMA AloneStep ==
  ASSUME TypeOK, Alone, [Next]_vars
  PROVE  Alone'
<1> SUFFICES ASSUME fault' # "overrun", NEW c \in Checker
             PROVE  /\ pc'[c] # "idle" => lock' = c
                    /\ pc'[c] \notin {"idle", "release"} => now'[c] = clock'
  BY DEF Alone
<1>0. fault # "overrun" /\ \A d \in Checker :
         /\ pc[d] # "idle" => lock = d
         /\ pc[d] \notin {"idle", "release"} => now[d] = clock
  BY HistoryStays DEF Alone
<1>1. ASSUME NEW d \in Checker, CheckNext(d), d # c
      PROVE  pc'[c] = "idle"
  <2>1. pc'[c] = pc[c]
    BY <1>1, OthersKept
  <2>2. pc[d] # "idle" \/ lock = NoChecker
    BY <1>1 DEF CheckNext, Start, Expire, Fetch, Page, Record, Notify, NotifyRejected,
                NotifyTimedOut, Mark, Release, Fail, Crash
  <2> QED BY <1>0, <1>1, <2>1, <2>2, AlertAssumption
<1>2. CASE CheckNext(c)
  <2>1. CASE Start(c)
    BY <2>1 DEF Start, Goto, TypeOK
  <2>2. CASE Expire(c) \/ (\E p \in Price \cup {NoPrice} : Fetch(c, p)) \/ Notify(c)
    BY <1>0, <2>2 DEF Expire, Fetch, Notify, Goto, checkVars, TypeOK
  <2>3. CASE Page(c)
    BY <1>0, <2>3 DEF Page, NextStep, Goto, checkVars, TypeOK
  <2>4. CASE NotifyRejected(c) \/ NotifyTimedOut(c)
    BY <1>0, <2>4 DEF NotifyRejected, NotifyTimedOut, AfterFailedPublish, Goto, TypeOK
  <2>5. CASE Record(c) \/ Mark(c) \/ Fail(c)
    BY <1>0, <2>5 DEF Record, Mark, Fail, Leave, Goto, TypeOK
  <2>6. CASE Release(c) \/ Crash(c)
    BY <2>6 DEF Release, Crash, Leave, Goto, TypeOK
  <2> QED BY <1>2, <2>1, <2>2, <2>3, <2>4, <2>5, <2>6 DEF CheckNext
<1>3. CASE \A d \in Checker : ~CheckNext(d)
  <2>1. UNCHANGED <<pc, now, clock>> /\ (lock' = lock \/ LockExpires)
    BY <1>3, ChecksKept
  <2>2. CASE LockExpires
    BY <1>0, <2>1, <2>2 DEF LockExpires, Faulty
  <2> QED BY <1>0, <2>1, <2>2
<1> QED BY <1>1, <1>2, <1>3

\* Outside an overrun a check that acts finds the others idle.
LEMMA OthersIdle ==
  ASSUME Alone, fault # "overrun", NEW c \in Checker, pc[c] # "idle", NEW d \in Checker, d # c
  PROVE  pc[d] = "idle"
BY DEF Alone

-----------------------------------------------------------------------------
(* What the row says of its marks *)

LEMMA SameModeStep ==
  ASSUME TypeOK, SameMode, [Next]_vars
  PROVE  SameMode'
<1> SUFFICES ASSUME ~modeEdited'
             PROVE  /\ \A c \in Checker :
                         pc'[c] \in {"record", "notify", "mark"} => mode'[c] = alert'.mode
                    /\ alert'.status = "ACTIVE" /\ alert'.mode = "ONCE" => alert'.lastAt = Never
  BY DEF SameMode
<1>0. /\ ~modeEdited /\ alert'.mode = alert.mode /\ alert \in Alert
      /\ alert'.status = "ACTIVE" => alert.status = "ACTIVE"
  BY HistoryStays, ModeStays, EndedStep DEF TypeOK
<1>1. ASSUME NEW c \in Checker
      PROVE  pc'[c] \in {"record", "notify", "mark"} => mode'[c] = alert'.mode
  <2>1. ASSUME NEW d \in Checker, CheckNext(d), d # c
        PROVE  pc'[c] = pc[c] /\ mode'[c] = mode[c]
    BY <2>1, OthersKept
  <2>2. CASE Start(c) \/ Expire(c) \/ (\E p \in Price \cup {NoPrice} : Fetch(c, p))
    BY <2>2 DEF Start, Expire, Fetch, Goto, TypeOK
  <2>3. CASE Page(c)
    BY <1>0, <2>3 DEF Page, TypeOK
  <2>4. CASE Record(c) \/ Mark(c) \/ Release(c) \/ Fail(c) \/ Crash(c)
    BY <2>4 DEF Record, Mark, Release, Fail, Crash, Leave, Goto, TypeOK
  <2>5. CASE Notify(c) \/ NotifyRejected(c) \/ NotifyTimedOut(c)
    BY <1>0, <2>5 DEF SameMode, Notify, NotifyRejected, NotifyTimedOut, AfterFailedPublish, Goto,
                      checkVars, TypeOK
  <2>6. CASE \A d \in Checker : ~CheckNext(d)
    BY <1>0, <2>6, ChecksKept DEF SameMode
  <2> QED BY <1>0, <2>1, <2>2, <2>3, <2>4, <2>5, <2>6 DEF CheckNext, SameMode
<1>2. ASSUME alert'.status = "ACTIVE", alert'.mode = "ONCE"
      PROVE  alert'.lastAt = Never
  <2>0. alert.lastAt = Never
    BY <1>0, <1>2 DEF SameMode
  <2>1. ASSUME NEW c \in Checker, Mark(c)
        PROVE  alert' = alert
    <3>1. mode[c] = "ONCE"
      BY <1>0, <1>2, <2>1 DEF SameMode, Mark
    <3>2. MarkedRow(c).status = "TRIGGERED"
      BY <1>0, <3>1 DEF MarkedRow, StatusAfter, Alert
    <3> QED BY <1>2, <2>1, <3>2 DEF Mark, Write
  <2>2. ASSUME NEW c \in Checker, CheckNext(c), ~Mark(c)
        PROVE  alert'.lastAt = alert.lastAt
    BY <1>0, <2>2 DEF CheckNext, Start, Expire, Fetch, Page, Record, Notify, NotifyRejected,
         NotifyTimedOut, Release, Fail, Crash, Write, Alert
  <2>3. ASSUME \A c \in Checker : ~CheckNext(c)
        PROVE  alert'.lastAt = alert.lastAt
    BY <1>0, <2>3 DEF Next, OwnerNext, UpdateRead, CancelRead, UpdateWrite, ExpireWrite,
         CancelWrite, LateAdd, LockExpires, OwnerDeleted, vars, Write, Edited, Alert
  <2> QED BY <2>0, <2>1, <2>2, <2>3
<1> QED BY <1>1, <1>2

\* A mark brings the row to the instant of its check, nothing else moves that.
LEMMA LastAtStep ==
  ASSUME TypeOK, [Next]_vars
  PROVE  \/ alert'.lastAt = alert.lastAt
         \/ \E c \in Checker : Mark(c) /\ alert'.lastAt = now[c]
<1>0. alert \in Alert
  BY DEF TypeOK
<1>1. ASSUME NEW c \in Checker, Mark(c)
      PROVE  alert'.lastAt \in {alert.lastAt, now[c]}
  BY <1>0, <1>1 DEF Mark, Write, MarkedRow, Alert
<1>2. ASSUME NEW c \in Checker, CheckNext(c), ~Mark(c)
      PROVE  alert'.lastAt = alert.lastAt
  BY <1>0, <1>2 DEF CheckNext, Start, Expire, Fetch, Page, Record, Notify, NotifyRejected,
       NotifyTimedOut, Release, Fail, Crash, Write, Alert
<1>3. ASSUME \A c \in Checker : ~CheckNext(c)
      PROVE  alert'.lastAt = alert.lastAt
  BY <1>0, <1>3 DEF Next, OwnerNext, UpdateRead, CancelRead, UpdateWrite, ExpireWrite,
       CancelWrite, LateAdd, LockExpires, OwnerDeleted, vars, Write, Edited, Alert
<1> QED BY <1>1, <1>2, <1>3

LEMMA NumberedStep ==
  ASSUME TypeOK, Numbered, [Next]_vars
  PROVE  Numbered'
<1>1. ASSUME NEW c \in Checker, CheckNext(c)
      PROVE  Numbered'
  <2>0. \A d \in Checker \ {c} : pc'[d] = pc[d] /\ now'[d] = now[d]
    BY <1>1, OthersKept
  <2>1. pc'[c] \notin {"idle", "release"} => now'[c] # Never
    <3>1. CASE Start(c)
      BY <3>1 DEF Start, Goto, TypeOK, Instant, Never
    <3>2. CASE ~Start(c)
      BY <1>1, <3>2 DEF Numbered, CheckNext, Expire, Fetch, Page, Record, Notify, NotifyRejected,
           NotifyTimedOut, AfterFailedPublish, Mark, Release, Fail, Crash, Goto, Leave, checkVars,
           TypeOK
    <3> QED BY <3>1, <3>2
  <2>2. Never \notin queued' \cup late'
    BY <1>1 DEF Numbered, CheckNext, Start, Expire, Fetch, Page, Record, Notify, NotifyRejected,
         NotifyTimedOut, Mark, Release, Fail, Crash, mailVars
  <2> QED BY <2>0, <2>1, <2>2 DEF Numbered
<1>2. ASSUME \A c \in Checker : ~CheckNext(c)
      PROVE  Numbered'
  <2>1. UNCHANGED <<pc, now>>
    BY <1>2, ChecksKept
  <2>2. Never \notin queued' \cup late'
    BY <1>2 DEF Numbered, Next, OwnerNext, UpdateRead, CancelRead, UpdateWrite, ExpireWrite,
         CancelWrite, LateAdd, LockExpires, OwnerDeleted, vars, mailVars
  <2> QED BY <2>1, <2>2 DEF Numbered
<1> QED BY <1>1, <1>2

LEMMA DatedStep ==
  ASSUME TypeOK, Fresh, Dated, [Next]_vars
  PROVE  Dated'
<1>1. clock <= clock' /\ clock \in Int /\ clock' \in Int
  <2>1. clock' = clock \/ clock' = clock + 1
    BY DEF Next, CheckNext, OwnerNext, Start, Expire, Fetch, Page, Record, Notify, NotifyRejected,
         NotifyTimedOut, Mark, Release, Fail, Crash, LateAdd, LockExpires, OwnerDeleted,
         UpdateRead, CancelRead, UpdateWrite, ExpireWrite, CancelWrite, vars
  <2> QED BY <2>1 DEF TypeOK, Instant
<1>2. alert.lastAt \in Int /\ \A c \in Checker : now[c] \in Int
  BY DEF TypeOK, Alert, Instant
<1> QED BY <1>1, <1>2, LastAtStep DEF Dated, Fresh

-----------------------------------------------------------------------------
(* Mails keep their distance *)

\* Without a fault only a notification adds a mail, and none is on its way.
LEMMA MailsGrow ==
  ASSUME TypeOK, Recorded, [Next]_vars, fault' = "none"
  PROVE  /\ late' = {}
         /\ \/ queued' = queued
            \/ \E c \in Checker : Notify(c) /\ queued' = queued \cup {now[c]}
<1>0. fault = "none" /\ late = {}
  BY HistoryStays DEF Recorded
<1>1. ASSUME NEW c \in Checker, NotifyTimedOut(c)
      PROVE  FALSE
  BY <1>0, <1>1 DEF NotifyTimedOut, Faulty
<1>2. ASSUME NEW k \in Instant, LateAdd(k)
      PROVE  FALSE
  BY <1>0, <1>2 DEF LateAdd
<1>3. ASSUME NEW c \in Checker, Notify(c)
      PROVE  late' = {} /\ queued' = queued \cup {now[c]}
  BY <1>0, <1>3 DEF Notify
<1>4. ASSUME UNCHANGED <<queued, late>>
      PROVE  late' = {} /\ queued' = queued
  BY <1>0, <1>4
<1> QED
  BY <1>1, <1>2, <1>3, <1>4 DEF Next, CheckNext, OwnerNext, Start, Expire, Fetch, Page, Record,
     NotifyRejected, Mark, Release, Fail, Crash, LockExpires, OwnerDeleted, UpdateRead,
     CancelRead, UpdateWrite, ExpireWrite, CancelWrite, vars, mailVars

\* A mail leaves the open ones only when it is marked.
LEMMA OpenUntilMarked ==
  ASSUME TypeOK, [Next]_vars, fault' = "none", NEW c \in Checker, pc[c] = "mark"
  PROVE  (pc'[c] = "mark" /\ now'[c] = now[c]) \/ Mark(c)
<1>1. ASSUME NEW d \in Checker, CheckNext(d), d # c
      PROVE  pc'[c] = pc[c] /\ now'[c] = now[c]
  BY <1>1, OthersKept
<1>2. ASSUME CheckNext(c)
      PROVE  Mark(c)
  BY <1>2, HistoryStays DEF CheckNext, Start, Expire, Fetch, Page, Record, Notify,
       NotifyRejected, NotifyTimedOut, Release, Fail, Crash, Faulty
<1>3. ASSUME \A d \in Checker : ~CheckNext(d)
      PROVE  pc'[c] = pc[c] /\ now'[c] = now[c]
  BY <1>3, ChecksKept
<1> QED BY <1>1, <1>2, <1>3

LEMMA RecordedStep ==
  ASSUME TypeOK, Fresh, Dated, Alone, Recorded, [Next]_vars
  PROVE  Recorded'
<1> SUFFICES ASSUME fault' = "none"
             PROVE  /\ late' = {}
                    /\ alert'.status = "ACTIVE" =>
                         \A k \in queued' :
                            k <= alert'.lastAt \/ \E c \in Checker : Unrecorded(c, k)'
  BY DEF Recorded
<1>1. late' = {}
  BY MailsGrow
<1>2. ASSUME alert'.status = "ACTIVE", NEW k \in queued'
      PROVE  k <= alert'.lastAt \/ \E c \in Checker : Unrecorded(c, k)'
  <2>0. /\ fault = "none" /\ alert.status = "ACTIVE" /\ alert \in Alert
        /\ clock \in Int /\ alert.lastAt \in Int /\ queued \subseteq Int
    BY <1>2, HistoryStays, EndedStep DEF TypeOK, Alert, Instant
  <2>1. ASSUME NEW c \in Checker, Notify(c), k = now[c]
        PROVE  Unrecorded(c, k)'
    BY <2>1 DEF Notify, Goto, checkVars, TypeOK, Unrecorded
  <2>2. ASSUME NEW c \in Checker, Mark(c), k \in queued
        PROVE  k <= alert'.lastAt
    <3>1. now[c] = clock
      BY <2>0, <2>2 DEF Alone, Mark
    <3>2. alert'.lastAt = now[c]
      BY <2>0, <2>2 DEF Mark, MarkMatches, Write, MarkedRow, Alert
    <3> QED BY <2>2, <3>1, <3>2 DEF Fresh
  <2>3. ASSUME k \in queued, \A c \in Checker : ~Mark(c)
        PROVE  k <= alert'.lastAt \/ \E c \in Checker : Unrecorded(c, k)'
    <3>1. CASE k <= alert.lastAt
      BY <2>3, <3>1, LastAtStep
    <3>2. ASSUME NEW c \in Checker, Unrecorded(c, k)
          PROVE  Unrecorded(c, k)'
      BY <2>3, <3>2, OpenUntilMarked DEF Unrecorded
    <3> QED BY <2>0, <2>3, <3>1, <3>2 DEF Recorded
  <2> QED BY <1>2, <2>1, <2>2, <2>3, MailsGrow
<1> QED BY <1>1, <1>2

LEMMA SpacedStep ==
  ASSUME TypeOK, Fresh, Numbered, Dated, Alone, SameMode, Recorded, Spaced, [Next]_vars
  PROVE  Spaced'
<1> SUFFICES ASSUME fault' = "none", NEW c \in Checker, pc'[c] = "notify"
             PROVE  /\ \A k \in queued' : now'[c] - k >= Cooldown
                    /\ ~modeEdited' /\ alert'.mode = "ONCE" => queued' = {}
  BY DEF Spaced
<1>0. fault = "none" /\ (~modeEdited' => ~modeEdited /\ alert'.mode = alert.mode)
  BY HistoryStays, ModeStays
<1>1. CASE Page(c)
  <2>1. /\ alert.status = "ACTIVE" /\ CooldownExpired(alert, now[c])
        /\ now'[c] = now[c] /\ queued' = queued
    BY <1>1 DEF Page, NextStep, OnPage, Goto, mailVars, TypeOK
  <2>2. \A k \in queued : k <= alert.lastAt
    <3>1. \A d \in Checker : pc[d] # "mark"
      BY <1>0, <1>1, OthersIdle DEF Page
    <3> QED BY <1>0, <2>1, <3>1 DEF Recorded, Unrecorded
  <2>3. now[c] \in Int /\ alert.lastAt \in Nat /\ queued \subseteq Nat /\ Cooldown \in Int
    BY AlertAssumption DEF TypeOK, Alert, Instant
  <2>4. ASSUME NEW k \in queued
        PROVE  now[c] - k >= Cooldown
    <3>1. alert.lastAt # Never
      BY <2>2, <2>3, <2>4 DEF Numbered, Never
    <3>2. k <= alert.lastAt /\ now[c] - alert.lastAt >= Cooldown
      BY <2>1, <2>2, <3>1 DEF CooldownExpired
    <3> QED BY <2>3, <3>2
  <2>5. ASSUME ~modeEdited', alert'.mode = "ONCE"
        PROVE  queued = {}
    <3>1. alert.lastAt = Never
      BY <1>0, <2>1, <2>5 DEF SameMode
    <3> QED BY <2>2, <2>3, <3>1 DEF Numbered, Never
  <2> QED BY <2>1, <2>4, <2>5
<1>2. CASE ~Page(c)
  <2>1. pc[c] = "notify" /\ now'[c] = now[c]
    <3>1. ASSUME NEW d \in Checker, CheckNext(d), d # c
          PROVE  pc'[c] = pc[c] /\ now'[c] = now[c]
      BY <3>1, OthersKept
    <3>2. ~CheckNext(c)
      BY <1>2 DEF CheckNext, Start, Expire, Fetch, Record, Notify, NotifyRejected, NotifyTimedOut,
           AfterFailedPublish, Mark, Release, Fail, Crash, Goto, Leave, TypeOK
    <3>3. ASSUME \A d \in Checker : ~CheckNext(d)
          PROVE  pc'[c] = pc[c] /\ now'[c] = now[c]
      BY <3>3, ChecksKept
    <3> QED BY <3>1, <3>2, <3>3
  <2>2. queued' = queued
    <3>1. ASSUME NEW d \in Checker, Notify(d)
          PROVE  FALSE
      <4>1. d = c
        BY <1>0, <2>1, <3>1, OthersIdle DEF Notify
      <4>2. pc'[c] = "mark"
        BY <3>1, <4>1 DEF Notify, Goto, TypeOK
      <4> QED BY <4>2
    <3> QED BY <3>1, MailsGrow
  <2> QED BY <1>0, <2>1, <2>2 DEF Spaced
<1> QED BY <1>1, <1>2

LEMMA NotTooOftenStep ==
  ASSUME TypeOK, Fresh, Alone, Recorded, Spaced, NotTooOften, [Next]_vars
  PROVE  NotTooOften'
<1>0. ASSUME fault' = "none"
      PROVE  fault = "none" /\ (~modeEdited' => ~modeEdited /\ alert'.mode = alert.mode)
  BY <1>0, HistoryStays, ModeStays
<1>1. OnceNotifiesOnce'
  <2> SUFFICES ASSUME fault' = "none", ~modeEdited', alert'.mode = "ONCE"
               PROVE  Cardinality(queued') <= 1
    BY DEF OnceNotifiesOnce
  <2>1. CASE queued' = queued
    BY <1>0, <2>1 DEF NotTooOften, OnceNotifiesOnce
  <2>2. ASSUME NEW c \in Checker, Notify(c), queued' = queued \cup {now[c]}
        PROVE  Cardinality(queued') <= 1
    <3>1. queued = {}
      BY <1>0, <2>2 DEF Spaced, Notify
    <3>2. queued' = {now[c]}
      BY <2>2, <3>1
    <3>3. Cardinality({now[c]}) = 1
      BY FS_Singleton
    <3> QED BY <3>2, <3>3
  <2> QED BY <2>1, <2>2, MailsGrow
<1>2. CooldownKept'
  <2> SUFFICES ASSUME fault' = "none", NEW j \in queued', NEW k \in queued', j < k
               PROVE  k - j >= Cooldown
    BY DEF CooldownKept
  <2>0. queued \subseteq Int
    BY DEF TypeOK, Instant
  <2>1. CASE j \in queued /\ k \in queued
    BY <1>0, <2>1 DEF NotTooOften, CooldownKept
  <2>2. ASSUME NEW c \in Checker, Notify(c), queued' = queued \cup {now[c]}
        PROVE  k - j >= Cooldown
    <3>1. now[c] = clock /\ now[c] \in Int /\ \A i \in queued : now[c] - i >= Cooldown
      BY <1>0, <2>2 DEF Alone, Spaced, Notify, TypeOK, Instant
    <3>2. k \in queued => k <= now[c]
      BY <3>1 DEF Fresh
    <3>3. ASSUME j = now[c], k \in queued
          PROVE  FALSE
      <4>1. j \in Int /\ k \in Int /\ k <= j
        BY <2>0, <3>1, <3>2, <3>3
      <4> QED BY <4>1
    <3> QED BY <2>1, <2>2, <3>1, <3>3
  <2> QED BY <2>1, <2>2, MailsGrow
<1> QED BY <1>1, <1>2 DEF NotTooOften

LEMMA SpacingStep == SpacingInv /\ [Next]_vars => SpacingInv'
<1> SUFFICES ASSUME SpacingInv, [Next]_vars
             PROVE  SpacingInv'
  OBVIOUS
<1> USE DEF SpacingInv
<1>1. TypeOK' /\ Fresh' /\ Numbered' /\ Dated' /\ Alone' /\ SameMode'
  BY TypeStep, FreshStep, NumberedStep, DatedStep, AloneStep, SameModeStep
<1>2. Recorded' /\ Spaced' /\ NotTooOften'
  BY RecordedStep, SpacedStep, NotTooOftenStep
<1> QED BY <1>1, <1>2

-----------------------------------------------------------------------------
(* No crossing is lost *)

\* A write that leaves the condition and the recorded price as they are leaves the
\* history of the price as it is; one that forgets the price forgets that too.
LEMMA NearKept ==
  ASSUME TypeOK, NearSide(alert) => near, near => alert.last # NoPrice,
         NEW row \in Alert, Write(row)
  PROVE  /\ NearSide(alert') => near'
         /\ near' => alert'.last # NoPrice
         /\ row.last = NoPrice => ~near'
         /\ row.last = alert.last /\ row.target = alert.target /\ row.direction = alert.direction
              => near' = near
BY DEF TypeOK, Write, NearSide

\* The part of the invariant that follows the recorded price.
NearInv == (NearSide(alert) => near) /\ (near => alert.last # NoPrice)

LEMMA EditNear ==
  ASSUME TypeOK, NearInv, NEW o \in Owner, UpdateWrite(o)
  PROVE  /\ NearInv'
         /\ near' => /\ near /\ alert'.last = alert.last
                     /\ alert'.target = alert.target /\ alert'.direction = alert.direction
<1>1. edit[o] \in Edits \cup {NoEdit} /\ alert \in Alert
  BY DEF TypeOK
<1>2. Edited(edit[o]) \in Alert /\ Write(Edited(edit[o]))
  BY <1>1, EditedType DEF UpdateWrite
<1>3. \/ Edited(edit[o]).last = NoPrice
      \/ /\ Edited(edit[o]).last = alert.last
         /\ Edited(edit[o]).target = alert.target /\ Edited(edit[o]).direction = alert.direction
  BY <1>1 DEF Edited, Alert
<1>4. alert' = Edited(edit[o])
  BY <1>2 DEF Write
<1> QED BY <1>2, <1>3, <1>4, NearKept DEF NearInv

\* A change of the status alone.
LEMMA StatusNear ==
  ASSUME TypeOK, NearInv, NEW s \in Status, Write([alert EXCEPT !.status = s])
  PROVE  /\ NearInv' /\ near' = near /\ alert'.status = s
         /\ alert'.last = alert.last /\ alert'.target = alert.target
         /\ alert'.direction = alert.direction
<1>1. [alert EXCEPT !.status = s] \in Alert /\ alert' = [alert EXCEPT !.status = s]
  BY DEF TypeOK, Alert, Write
<1>2. /\ alert'.status = s /\ alert'.last = alert.last /\ alert'.target = alert.target
      /\ alert'.direction = alert.direction
  BY <1>1 DEF TypeOK, Alert
<1> QED BY <1>1, <1>2, NearKept DEF NearInv


\* What a check about to record has seen leaves a near alert near.
LEMMA RecordNear ==
  ASSUME SpacingInv, StaysNear, NoMissedCrossing, [Next]_vars, Watched', near',
         NEW c \in Checker, Record(c)
  PROVE  ~FarSide(alert')
<1>1. TypeOK /\ alert \in Alert
  BY DEF SpacingInv, TypeOK
<1>2. /\ ~modeEdited /\ fault # "overrun" /\ ~ownerGone
      /\ alert.status = "ACTIVE" /\ alert.mode = "ONCE"
  BY <1>1, HistoryStays, ModeStays, EndedStep DEF Watched
<1>3. alert' = [alert EXCEPT !.last = quote[c]] /\ Write(alert')
  BY <1>2 DEF Record, Write
<1>4. CASE near
  <2>1. Short(alert.direction, quote[c], alert.target)
    BY <1>2, <1>4 DEF StaysNear, Watched, Record
  <2> QED BY <1>1, <1>3, <2>1 DEF FarSide, Alert
<1>5. CASE ~near
  <2>1. NearSide(alert')
    BY <1>3, <1>5 DEF Write
  <2> QED BY <2>1 DEF NearSide, FarSide
<1> QED BY <1>4, <1>5

\* Every step keeps what the near history says of the recorded price; where the row
\* keeps its condition and its price, the history is kept too.
LEMMA NearStep ==
  ASSUME TypeOK, NearInv, [Next]_vars
  PROVE  /\ NearInv'
         /\ \/ near' => /\ near /\ alert'.last = alert.last
                        /\ alert'.target = alert.target /\ alert'.direction = alert.direction
            \/ \E c \in Checker : Record(c) \/ Mark(c)
<1>0. alert \in Alert
  BY DEF TypeOK
<1>1. ASSUME NEW o \in Owner, UpdateWrite(o)
      PROVE  /\ NearInv'
             /\ near' => /\ near /\ alert'.last = alert.last
                         /\ alert'.target = alert.target /\ alert'.direction = alert.direction
  BY <1>1, EditNear
<1>2. ASSUME NEW s \in Status, Write([alert EXCEPT !.status = s])
      PROVE  /\ NearInv'
             /\ near' => /\ near /\ alert'.last = alert.last
                         /\ alert'.target = alert.target /\ alert'.direction = alert.direction
  BY <1>2, StatusNear
<1>3. ASSUME NEW c \in Checker, Record(c) \/ Mark(c)
      PROVE  NearInv'
  <2>1. CASE UNCHANGED <<alert, near>>
    BY <2>1 DEF NearInv, NearSide
  <2>2. ASSUME NEW row \in Alert, Write(row)
        PROVE  NearInv'
    BY <2>2, NearKept DEF NearInv
  <2>3. quote[c] \in Price \cup {NoPrice} /\ now[c] \in Instant /\ StatusAfter(c) \in Status
    BY DEF StatusAfter, Status, TypeOK
  <2>4. MarkedRow(c) \in Alert /\ [alert EXCEPT !.last = quote[c]] \in Alert
    BY <1>0, <2>3 DEF MarkedRow, Alert
  <2> QED BY <1>3, <2>1, <2>2, <2>4 DEF Record, Mark, history
<1>4. ASSUME UNCHANGED <<alert, near>>
      PROVE  NearInv' /\ near' = near
  BY <1>4 DEF NearInv, NearSide
<1>5. "EXPIRED" \in Status /\ "CANCELLED" \in Status
  BY DEF Status
<1> QED
  BY <1>1, <1>2, <1>3, <1>4, <1>5 DEF Next, CheckNext, OwnerNext, Start, Expire, Fetch, Page,
     Notify, NotifyRejected, NotifyTimedOut, Release, Fail, Crash, LateAdd, LockExpires,
     OwnerDeleted, UpdateRead, CancelRead, ExpireWrite, CancelWrite, vars, history

LEMMA StaysNearStep ==
  ASSUME SpacingInv, StaysNear, NoMissedCrossing, [Next]_vars
  PROVE  StaysNear'
<1>0. TypeOK /\ NearInv /\ Alone /\ SameMode /\ alert \in Alert
  BY DEF SpacingInv, StaysNear, NearInv, TypeOK
<1>1. NearInv'
  BY <1>0, NearStep
<1>2. ASSUME Watched', near', NEW c \in Checker, pc'[c] = "record"
      PROVE  Short(alert'.direction, quote'[c], alert'.target)
  <2>0. /\ ~modeEdited /\ fault # "overrun" /\ ~ownerGone
        /\ alert.status = "ACTIVE" /\ alert.mode = "ONCE"
    BY <1>0, <1>2, HistoryStays, ModeStays, EndedStep DEF Watched
  <2>1. CASE Page(c)
    <3>1. /\ near' = near /\ alert' = alert /\ quote' = quote
          /\ NextStep(c) = "record"
      BY <1>0, <1>2, <2>1 DEF Page, Goto, history, TypeOK
    <3>2. alert.lastAt = Never
      BY <1>0, <2>0 DEF SameMode
    <3>3. ~HasCrossed(alert, quote[c])
      BY <2>0, <3>1, <3>2 DEF NextStep, CooldownExpired
    <3>4. NearSide(alert)
      BY <1>0, <1>2, <2>0, <3>1 DEF NearInv, NearSide, FarSide, NoMissedCrossing
    <3> QED BY <3>1, <3>3, <3>4 DEF HasCrossed
  <2>2. CASE ~Page(c)
    <3>1. ~CheckNext(c)
      BY <1>0, <1>2, <2>2 DEF CheckNext, Start, Expire, Fetch, Record, Notify, NotifyRejected,
           NotifyTimedOut, AfterFailedPublish, Mark, Release, Fail, Crash, Goto, Leave, TypeOK
    <3>2. pc[c] = "record" /\ quote'[c] = quote[c]
      <4>1. ASSUME NEW d \in Checker, CheckNext(d)
            PROVE  pc'[c] = pc[c] /\ quote'[c] = quote[c]
        BY <1>0, <3>1, <4>1, OthersKept
      <4>2. CASE \A d \in Checker : ~CheckNext(d)
        BY <1>2, <4>2, ChecksKept
      <4> QED BY <1>2, <4>1, <4>2
    <3>3. ASSUME NEW d \in Checker, Record(d) \/ Mark(d)
          PROVE  FALSE
      <4>1. d = c
        BY <1>0, <2>0, <3>2, <3>3, OthersIdle DEF Record, Mark
      <4> QED BY <3>1, <3>3, <4>1 DEF CheckNext
    <3>4. near /\ alert'.target = alert.target /\ alert'.direction = alert.direction
      BY <1>0, <1>2, <3>3, NearStep
    <3> QED BY <2>0, <3>2, <3>4 DEF StaysNear, Watched
  <2> QED BY <2>1, <2>2
<1> QED BY <1>1, <1>2 DEF NearInv, StaysNear

LEMMA NoMissedStep ==
  ASSUME SpacingInv, StaysNear, NoMissedCrossing, [Next]_vars
  PROVE  NoMissedCrossing'
<1> SUFFICES ASSUME Watched', near'
             PROVE  ~FarSide(alert')
  BY DEF NoMissedCrossing, Watched
<1>0. TypeOK /\ NearInv /\ SameMode /\ alert \in Alert
  BY DEF SpacingInv, StaysNear, NearInv, TypeOK
<1>1. /\ ~modeEdited /\ fault # "overrun" /\ ~ownerGone
      /\ alert.status = "ACTIVE" /\ alert.mode = "ONCE"
  BY <1>0, HistoryStays, ModeStays, EndedStep DEF Watched
<1>2. ASSUME NEW c \in Checker, Record(c)
      PROVE  ~FarSide(alert')
  BY <1>2, RecordNear
<1>3. ASSUME NEW c \in Checker, Mark(c)
      PROVE  FALSE
  <2>1. StatusAfter(c) = "TRIGGERED"
    BY <1>0, <1>1, <1>3 DEF SameMode, Mark, StatusAfter
  <2>2. alert'.status = "TRIGGERED"
    BY <1>0, <1>1, <1>3, <2>1 DEF Mark, MarkMatches, Write, MarkedRow, Alert
  <2> QED BY <2>2 DEF Watched
<1>4. CASE \A c \in Checker : ~Record(c) /\ ~Mark(c)
  <2>1. /\ near /\ alert'.last = alert.last
        /\ alert'.target = alert.target /\ alert'.direction = alert.direction
    BY <1>0, <1>4, NearStep
  <2>2. ~FarSide(alert)
    BY <1>1, <2>1 DEF NoMissedCrossing
  <2> QED BY <2>1, <2>2 DEF FarSide
<1> QED BY <1>2, <1>3, <1>4

\* Outside the faults named, an alert that always fired once is notified once and a
\* repeating one a cooldown apart, and an alert that fires once lets no crossing pass:
\* for any instances, owners, prices and alerts, while the owner edits and cancels.
THEOREM CrossingsAreNotified == Spec => []CrossingsNotified
<1>1. Init => CrossingInv
  <2> SUFFICES ASSUME Init
               PROVE  CrossingInv
    OBVIOUS
  <2>1. alert.last = NoPrice /\ alert.lastAt = Never
    BY AlertAssumption DEF Init
  <2>2. Fresh /\ Numbered /\ Dated /\ Alone /\ SameMode /\ Recorded /\ Spaced
    BY <2>1 DEF Init, Fresh, Numbered, Dated, Alone, SameMode, Recorded, Spaced, Never
  <2>3. NotTooOften
    <3>1. Cardinality(queued) <= 1
      BY FS_EmptySet DEF Init
    <3> QED BY <3>1 DEF Init, NotTooOften, OnceNotifiesOnce, CooldownKept
  <2>4. StaysNear /\ NoMissedCrossing
    BY <2>1 DEF Init, StaysNear, NoMissedCrossing, NearSide
  <2> QED BY <2>2, <2>3, <2>4, TypeInit DEF CrossingInv, SpacingInv
<1>2. CrossingInv /\ [Next]_vars => CrossingInv'
  BY SpacingStep, StaysNearStep, NoMissedStep DEF CrossingInv
<1>3. CrossingInv => CrossingsNotified
  BY DEF CrossingInv, SpacingInv, CrossingsNotified
<1> QED BY <1>1, <1>2, <1>3, PTL DEF Spec
=============================================================================
