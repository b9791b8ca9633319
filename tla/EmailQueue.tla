------------------------------ MODULE EmailQueue ------------------------------
(***************************************************************************)
(* The e-mail queue: publishing under a deadline, jobs that are known by   *)
(* the occasion they announce, workers that deliver them over SMTP, and    *)
(* retries, stalled jobs and retention as BullMQ does them                 *)
(* (infrastructure/email, infrastructure/queue).                           *)
(*                                                                         *)
(* Every slot of a worker process stands for a process of its own.         *)
(***************************************************************************)
EXTENDS Integers, Sequences, FiniteSets

CONSTANTS Key,           \* job ids: one per occasion
          Caller,        \* use cases that may be publishing at once
          Worker,        \* slots of the worker processes
          Attempts,      \* EMAIL_QUEUE_ATTEMPTS
          MaxStalled,    \* times a job may be reclaimed
          KeepCompleted, \* EMAIL_QUEUE_KEEP_COMPLETED
          KeepFailed,    \* EMAIL_QUEUE_KEEP_FAILED
          MessageOf,     \* what the occasion announces
          MaxPublish,    \* bound: calls of publish
          MaxFaults      \* bound: crashes and locks that run out

(***************************************************************************)
(* Messages.  A field is the kind of its JSON value.                       *)
(***************************************************************************)

Text    == {"text", "iso", "plain", "exponent", "BUY", "SELL"}
Value   == Text \cup {"empty", "null", "positive", "zero", "missing"}

\* The readers of the validator, by what they let through.
Accepts ==
  [ string          |-> Text,
    nullableString  |-> Text \cup {"empty", "null"},
    positiveInteger |-> {"positive"},
    isoTimestamp    |-> {"iso"},
    decimal         |-> {"plain"},
    direction       |-> {"BUY", "SELL"} ]

\* What parseMessage reads, by type.
Shape ==
  [ verification     |-> [code |-> "string", expiresInMinutes |-> "positiveInteger"],
    adminInvitation  |-> [token |-> "string", expiresInHours |-> "positiveInteger"],
    suspension       |-> [displayName |-> "nullableString", reason |-> "string",
                          suspendedAt |-> "isoTimestamp"],
    unsuspension     |-> [displayName |-> "nullableString", unsuspendedAt |-> "isoTimestamp"],
    priceAlert       |-> [coinName |-> "string", coinSymbol |-> "string",
                          direction |-> "direction", targetPrice |-> "decimal",
                          currentPrice |-> "decimal", triggeredAt |-> "isoTimestamp"] ]

Deliverable(m) ==
  /\ m.to = "address"
  /\ m.type \in DOMAIN Shape
  /\ \A f \in DOMAIN Shape[m.type] :
       f \in DOMAIN m.data /\ m.data[f] \in Accepts[Shape[m.type][f]]

\* What the application publishes.  A quote is written as JavaScript writes a
\* number: with an exponent when it is below 1e-6.
Sent(type, data) == [type |-> type, to |-> "address", data |-> data]
Verification    == Sent("verification", [code |-> "text", expiresInMinutes |-> "positive"])
Invitation      == Sent("adminInvitation", [token |-> "text", expiresInHours |-> "positive"])
Suspension(n)   == Sent("suspension", [displayName |-> n, reason |-> "text",
                                       suspendedAt |-> "iso"])
Unsuspension(n) == Sent("unsuspension", [displayName |-> n, unsuspendedAt |-> "iso"])
PriceAlert(d, quote) ==
  Sent("priceAlert", [coinName |-> "text", coinSymbol |-> "text", direction |-> d,
                      targetPrice |-> "plain", currentPrice |-> quote, triggeredAt |-> "iso"])

Published ==
  {Verification, Invitation}
  \cup {Suspension(n) : n \in {"text", "null"}} \cup {Unsuspension(n) : n \in {"text", "null"}}
  \cup {PriceAlert(d, quote) : d \in {"BUY", "SELL"}, quote \in {"plain", "exponent"}}

\* These are published without a key: the queue makes up an id.
Keyless(k) == MessageOf[k].type \in {"suspension", "unsuspension"}

ASSUME QueueAssumption ==
  /\ Attempts \in Nat \ {0} /\ MaxStalled \in Nat
  /\ KeepCompleted \in Nat /\ KeepFailed \in Nat
  /\ MaxPublish \in Nat /\ MaxFaults \in Nat
  /\ \A k \in Key : MessageOf[k].type \in STRING

(***************************************************************************)
(* State.                                                                  *)
(***************************************************************************)

None == "none"
ASSUME NoneAssumption == None \notin Worker /\ None \notin Key

Pending == {"waiting", "active", "delayed"}
Ended   == {"completed", "failed"}
JobRow  == [state : Pending \cup Ended \cup {"absent"}, made : 0..Attempts,
            stalled : 0..MaxStalled + 1, owner : Worker \cup {None}]
NoJob   == [state |-> "absent", made |-> 0, stalled |-> 0, owner |-> None]
NewJob  == [NoJob EXCEPT !.state = "waiting"]

\* A slot works on its copy of the job, so it counts from what it has read.
Slot    == [at : {"idle", "taken", "sending", "replied"}, key : Key \cup {None},
            made : 0..Attempts, outcome : {None, "sent", "transient", "permanent"}]
Free    == [at |-> "idle", key |-> None, made |-> 0, outcome |-> None]

VARIABLES
  call,      \* per caller: idle, adding, or late: answered, the command still buffered
  job,       \* the job hashes in Redis
  wait,      \* the jobs to take, in order
  kept,      \* completed and failed jobs, oldest first
  slot,      \* the slots of the workers
  published, \* calls so far
  faults,    \* faults so far
  count      \* history, per key: what the provider took, and what may have
             \* made it take more than one: locks lost, replies lost, jobs
             \* forgotten; and of the present job: attempts started, taken by
             \* the provider, failure reported, last refused for good

vars == <<call, job, wait, kept, slot, published, faults, count>>

Count  == [accepted : Nat, lost : Nat, unclear : Nat, forgotten : Nat,
           started : Nat, mailed : BOOLEAN, reported : BOOLEAN, refused : BOOLEAN]
NoCount == [accepted |-> 0, lost |-> 0, unclear |-> 0, forgotten |-> 0,
            started |-> 0, mailed |-> FALSE, reported |-> FALSE, refused |-> FALSE]

TypeOK ==
  /\ call \in [Caller -> [at : {"idle", "adding", "late"}, key : Key \cup {None}]]
  /\ job \in [Key -> JobRow]
  /\ wait \in Seq(Key)
  /\ kept \in [Ended -> Seq(Key)]
  /\ slot \in [Worker -> Slot]
  /\ published \in 0..MaxPublish
  /\ faults \in 0..MaxFaults
  /\ count \in [Key -> Count]
  /\ \A k \in Key : (\E i \in 1..Len(wait) : wait[i] = k) <=> job[k].state = "waiting"

Init ==
  /\ call = [c \in Caller |-> [at |-> "idle", key |-> None]]
  /\ job = [k \in Key |-> NoJob]
  /\ wait = <<>>
  /\ kept = [e \in Ended |-> <<>>]
  /\ slot = [w \in Worker |-> Free]
  /\ published = 0
  /\ faults = 0
  /\ count = [k \in Key |-> NoCount]

(***************************************************************************)
(* Publishing.                                                             *)
(***************************************************************************)

Quiet == UNCHANGED <<job, wait, kept, slot, faults, count>>

Publish(c, k) ==
  /\ call[c].at = "idle" /\ published < MaxPublish
  /\ Keyless(k) => count[k] = NoCount /\ job[k] = NoJob /\ \A d \in Caller : call[d].key # k
  /\ call' = [call EXCEPT ![c] = [at |-> "adding", key |-> k]]
  /\ published' = published + 1
  /\ Quiet

\* A job id that the queue still holds is the job it already holds.
Forgetful(k) == FALSE
Known(k)     == job[k].state # "absent"

\* The command reaches Redis, before the deadline or after it.
Add(c) ==
  LET k == call[c].key IN
  /\ call[c].at \in {"adding", "late"}
  /\ call' = [call EXCEPT ![c] = [at |-> "idle", key |-> None]]
  /\ IF Known(k) THEN UNCHANGED <<job, wait, count>>
     ELSE /\ job' = [job EXCEPT ![k] = NewJob]
          /\ wait' = Append(wait, k)
          /\ count' = [count EXCEPT ![k].started = 0, ![k].mailed = FALSE, ![k].reported = FALSE,
                                   ![k].refused = FALSE]
  /\ UNCHANGED <<kept, slot, published, faults>>

AddFails(c) ==
  /\ call[c].at \in {"adding", "late"}
  /\ call' = [call EXCEPT ![c] = [at |-> "idle", key |-> None]]
  /\ UNCHANGED published /\ Quiet

\* withPublishTimeout: the caller is answered, the command stays buffered.
Deadline(c) ==
  /\ call[c].at = "adding"
  /\ call' = [call EXCEPT ![c].at = "late"]
  /\ UNCHANGED published /\ Quiet

(***************************************************************************)
(* Delivery.                                                               *)
(***************************************************************************)

Still == UNCHANGED <<call, published>>

Take(w) ==
  /\ slot[w].at = "idle" /\ wait # <<>>
  /\ LET k == Head(wait) IN
       /\ job' = [job EXCEPT ![k].state = "active", ![k].owner = w]
       /\ slot' = [slot EXCEPT ![w] = [at |-> "taken", key |-> k, made |-> job[k].made,
                                       outcome |-> None]]
       /\ count' = [count EXCEPT ![k].started = @ + 1]
  /\ wait' = Tail(wait)
  /\ Still /\ UNCHANGED <<kept, faults>>

Parse(w) ==
  LET k == slot[w].key IN
  /\ slot[w].at = "taken"
  /\ IF Deliverable(MessageOf[k])
       THEN slot' = [slot EXCEPT ![w].at = "sending"] /\ UNCHANGED count
       ELSE /\ slot' = [slot EXCEPT ![w].at = "replied", ![w].outcome = "permanent"]
            /\ count' = [count EXCEPT ![k].reported = TRUE, ![k].refused = TRUE]
  /\ Still /\ UNCHANGED <<job, wait, kept, faults>>

\* What the processor takes BullMQ to do with the failure.
CountsLate(made) == made < Attempts
WillRetry(made)  == made + 1 < Attempts

\* What nodemailer reports of a failure: the server's reply, if there was one,
\* and a code of the transport.
Failure == [reply : {"4xx", "5xx", None}, code : {"EENVELOPE", "EMESSAGE", "EAUTH", "ESOCKET"}]
FailureOf(cause) ==
  CASE cause = "greylisted"  -> [reply : {"4xx"}, code : {"EENVELOPE"}]
    [] cause = "noMailbox"   -> [reply : {"5xx"}, code : {"EENVELOPE"}]
    [] cause = "badAddress"  -> [reply : {None}, code : {"EENVELOPE"}]
    [] cause = "tooLarge"    -> [reply : {"5xx", None}, code : {"EMESSAGE"}]
    [] cause = "badLogin"    -> [reply : {"5xx", None}, code : {"EAUTH"}]
    [] cause = "unreachable" -> [reply : {None}, code : {"ESOCKET"}]
Passing == {"greylisted", "unreachable"}
Lasting == {"noMailbox", "badAddress", "tooLarge", "badLogin"}

\* A reply of the server wins over the code of the transport.
PermanentCode == {"EENVELOPE", "EMESSAGE", "EAUTH"}
IsPermanent(f) == IF f.reply # None THEN f.reply = "5xx" ELSE f.code \in PermanentCode

OutcomeOf(f) == IF IsPermanent(f) THEN "permanent" ELSE "transient"

Replied(w, outcome, arrived, lasting) ==
  LET k == slot[w].key
      final == \/ outcome = "permanent"
               \/ outcome = "transient" /\ ~WillRetry(slot[w].made)
  IN /\ slot' = [slot EXCEPT ![w].at = "replied", ![w].outcome = outcome]
     /\ count' = [count EXCEPT
          ![k].accepted = IF arrived THEN @ + 1 ELSE @,
          ![k].mailed   = @ \/ arrived,
          ![k].unclear  = IF arrived /\ outcome # "sent" THEN @ + 1 ELSE @,
          ![k].reported = @ \/ final,
          ![k].refused  = lasting]
     /\ Still /\ UNCHANGED <<job, wait, kept, faults>>

\* The server answers.
Reply(w) ==
  /\ slot[w].at = "sending"
  /\ \/ Replied(w, "sent", TRUE, FALSE)
     \/ \E cause \in Passing \cup Lasting : \E f \in FailureOf(cause) :
          Replied(w, OutcomeOf(f), FALSE, cause \in Lasting)

\* The connection hangs or breaks: the message may have been taken.
Hangs(w) == FALSE
TimeOut(w) ==
  /\ slot[w].at = "sending"
  /\ \E arrived \in BOOLEAN : Replied(w, "transient", arrived, FALSE)

\* The retention drops the oldest; its id is free again.
Keep(e) == IF e = "completed" THEN KeepCompleted ELSE KeepFailed
End(k, e, row) ==
  LET list    == Append(kept[e], k)
      dropped == IF Len(list) > Keep(e) THEN {Head(list)} ELSE {}
  IN /\ kept' = [kept EXCEPT ![e] = IF dropped = {} THEN list ELSE Tail(list)]
     /\ job' = [j \in Key |-> IF j \in dropped THEN NoJob
                              ELSE IF j = k THEN [row EXCEPT !.state = e, !.owner = None]
                              ELSE job[j]]
     /\ count' = [j \in Key |-> IF j \in dropped THEN [count[j] EXCEPT !.forgotten = @ + 1]
                                ELSE count[j]]

\* The job is moved on only by the slot that holds its lock.
Holds(w) == job[slot[w].key].owner = w

Finish(w) ==
  LET k   == slot[w].key
      row == [job[k] EXCEPT !.made = slot[w].made + 1]
  IN /\ slot[w].at = "replied"
     /\ slot' = [slot EXCEPT ![w] = Free]
     /\ CASE ~Holds(w) -> UNCHANGED <<job, kept, count>>
          [] Holds(w) /\ slot[w].outcome = "sent" -> End(k, "completed", row)
          [] Holds(w) /\ slot[w].outcome = "transient" /\ slot[w].made + 1 < Attempts ->
               /\ job' = [job EXCEPT ![k] = [row EXCEPT !.state = "delayed", !.owner = None]]
               /\ UNCHANGED <<kept, count>>
          [] OTHER -> End(k, "failed", row)
     /\ Still /\ UNCHANGED <<wait, faults>>

\* The back-off is over.
Promote(k) ==
  /\ job[k].state = "delayed"
  /\ job' = [job EXCEPT ![k].state = "waiting"]
  /\ wait' = Append(wait, k)
  /\ Still /\ UNCHANGED <<kept, slot, faults, count>>

(***************************************************************************)
(* Faults.                                                                 *)
(***************************************************************************)

LosesLock(w) ==
  /\ slot[w].at # "idle" /\ Holds(w) /\ faults < MaxFaults
  /\ faults' = faults + 1
  /\ job' = [job EXCEPT ![slot[w].key].owner = None]
  /\ count' = [count EXCEPT ![slot[w].key].lost = @ + 1]
  /\ Still /\ UNCHANGED <<wait, kept>>

\* The process stands still for longer than the lock lives, and goes on.
Block(w) == LosesLock(w) /\ UNCHANGED slot
Crash(w) == LosesLock(w) /\ slot' = [slot EXCEPT ![w] = Free]

\* The check for stalled jobs: first in the line again, or failed.
Reclaim(k) ==
  LET row == [job[k] EXCEPT !.stalled = @ + 1] IN
  /\ job[k].state = "active" /\ job[k].owner = None
  /\ IF row.stalled > MaxStalled
       THEN End(k, "failed", row) /\ UNCHANGED wait
       ELSE /\ job' = [job EXCEPT ![k] = [row EXCEPT !.state = "waiting"]]
            /\ wait' = <<k>> \o wait
            /\ UNCHANGED <<kept, count>>
  /\ Still /\ UNCHANGED <<slot, faults>>

\* The loop of a worker.
Works(w) == Take(w) \/ Parse(w) \/ TimeOut(w) \/ Finish(w)

Next ==
  \/ \E c \in Caller : (\E k \in Key : Publish(c, k)) \/ Add(c) \/ AddFails(c) \/ Deadline(c)
  \/ \E w \in Worker : Works(w) \/ Reply(w) \/ Block(w) \/ Crash(w)
  \/ \E k \in Key : Promote(k) \/ Reclaim(k)

\* Timers fire and the workers' loops run; neither Redis nor the mail server
\* need ever answer.
Fairness ==
  /\ \A c \in Caller : WF_vars(Deadline(c))
  /\ \A w \in Worker : WF_vars(Works(w))
  /\ \A k \in Key : WF_vars(Promote(k)) /\ WF_vars(Reclaim(k))

Spec == Init /\ [][Next]_vars /\ Fairness

(***************************************************************************)
(* Properties.                                                             *)
(***************************************************************************)

\* An occasion is mailed once, but for a lock that was lost, a reply that was
\* lost, and a key that the retention has forgotten.
MailedOnce ==
  \A k \in Key : count[k].accepted <= 1 + count[k].lost + count[k].unclear + count[k].forgotten

\* What the processor reports is what the queue does: a job leaves it in the
\* provider's hands or as a reported failure, only one that was reclaimed too
\* often goes without a word; and a failure reported as the last word is, unless
\* another slot has taken the job over in the meantime.
ReportsAgree ==
  [][\A k \in Key :
       /\ job[k].state \in Pending /\ job'[k].state \notin Pending
            => \/ count[k].mailed \/ count[k].reported
               \/ job[k].owner = None /\ job[k].stalled = MaxStalled
       /\ count[k].reported /\ count[k].lost = 0
            => count'[k].started <= count[k].started]_vars

\* A mail is given up on before its attempts are spent for a cause that lasts,
\* and only then: greylisting and lost connections are waited out, and what
\* cannot succeed is not tried again.
GivenUpForCause ==
  [][\A k \in Key :
       job[k].owner # None /\ job'[k].owner = None /\ ~count[k].mailed /\ count'[k].lost = 0
         => (job'[k].state = "delayed" <=> ~count[k].refused /\ job[k].made + 1 < Attempts)]_vars

\* Each way out of the queue is the right one and is the one that is reported.
OutcomesSound == ReportsAgree /\ GivenUpForCause

\* No occasion is mailed twice without cause, and none is dropped without a word.
MailsSound == []MailedOnce /\ OutcomesSound

\* A job that is taken on leaves the queue, whatever the mail server does.
JobsEnd == \A k \in Key : job[k].state \in Pending ~> job[k].state \notin Pending

\* A use case is answered, whatever Redis does.
CallsReturn == \A c \in Caller : call[c].at = "adding" ~> call[c].at # "adding"

\* Nothing waits for ever: neither the job nor the use case that published it.
NothingHangs == JobsEnd /\ CallsReturn

\* The validator is a tripwire against a corrupt or hand-edited job: what the
\* application has published is never discarded by it.  The code does not
\* keep this for a quote below 1e-6.
OnlyCorruptDiscarded ==
  \A w \in Worker :
    slot[w].at = "replied" /\ MessageOf[slot[w].key] \in Published
      => Deliverable(MessageOf[slot[w].key])
===============================================================================
