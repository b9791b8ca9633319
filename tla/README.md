# A formal model of the backend

This directory holds TLA+ modules that model parts of this NestJS backend, the TLC
configurations that check them on small instances, and theorems about them whose proofs
TLAPS checks for every value of the constants. The program is TypeScript on PostgreSQL
(TypeORM, READ COMMITTED), Redis (locks, counters, caches, BullMQ) and MongoDB (logs). It
runs as several instances; within one, Node interleaves requests at every `await`. So the
unit of atomicity in every module is what happens between two awaits: one SQL statement, one
transaction that takes a row lock first, one Redis command or script. Everything else can
come in between.

Run a check with `tlc -config MCX.cfg MCModule`, a proof with `tlapm XProofs.tla`.

| module | models | checked by | proved in |
|---|---|---|---|
| `RefreshRotation` | `POST /auth/refresh` on one session | `MCRefreshRotation` | `RefreshRotationProofs` |
| `TokenLineage` | the abstract promise of refresh-token rotation | refinement target | `RefreshRotationProofs` |
| `LoginSessions` | sign-in and everything that revokes a session | `MCRealtimeSockets` | `LoginSessionsProofs` |
| `RealtimeSockets` | sockets and rooms, composed with `LoginSessions` | `MCRealtimeSockets` | `LoginSessionsProofs` |
| `Registration` | an account's status, its codes and counters | `MCRegistration` | `RegistrationProofs` |
| `PortfolioLedger` | an asset's ledger, its P&L request and checkpoint | `MCPortfolioLedger` | `PortfolioLedgerProofs` |
| `CostBasis` | the calculators AVERAGE, FIFO and LIFO | `MCPortfolioLedger` | `PortfolioLedgerProofs` |
| `PriceAlerts` | one alert, the minutely check, its owner | `MCPriceAlerts` | `PriceAlertsProofs` |
| `Administration` | invitations, administrators, roles, grants | `MCAdministration` | `AdministrationProofs` |
| `EmailQueue` | publishers, BullMQ, workers, the mail server | `MCEmailQueue` | `EmailQueueProofs` |
| `RateLimit` | counters, windows and blocks of a policy | `MCServices` | `ServicesProofs` |
| `Cooldown` | the abstract promise of a one-shot window | refinement target | `ServicesProofs` |
| `MarketData` | a read-through cache and its chain of venues | `MCServices` | `ServicesProofs` |
| `AssetCatalogue` | the asset synchronisation jobs | `MCServices` | `ServicesProofs` |
| `CoinCatalogue` | the coin synchronisation of several replicas | `MCServices` | `ServicesProofs` |
| `Paging` | a keyset walk through any list of the program | `MCServices` | `ServicesProofs` |
| `Wallets` | one wallet, its addresses, the transfers that name it | `MCServices` | `ServicesProofs` |
| `TransactionEntry` | prices and currencies of a transaction row | `MCServices` | `ServicesProofs` |
| `Holdings` | portfolios, hand-entered holdings, valuation | `MCServices` | `ServicesProofs` |
| `History` | activities, audit log and system log | `MCServices` | `ServicesProofs` |
| `Routes` | the HTTP routes and what their controllers declare | `MCServices` | `ServicesProofs` |
| `RequestPath` | a browser's cookies and pages, the guards in their order | `MCServices` | `ServicesProofs` |
| `Services` | the ten services from `RateLimit` on, side by side | `MCServices` | `ServicesProofs` |

---

## 1. Inventory of the system

State, operations, interactions, hard behaviour and what makes each part correct. The list
of parts with their source files is in `PROJECT.json` under `components`; every hazard, with
its line and the properties that would catch it, under `hazards`.

### Authentication and sessions

* **Refresh rotation** (`auth/application/use-cases/refresh.use-case.ts`,
  `refresh-replay.service.ts`, `session-rotation.use-case.ts`, `redis-lock.service.ts`).
  *State*: session row (`refreshTokenHash`, `rotationVersion`, `isRevoked`, `expiresAt`);
  Redis key `REFRESH_LOCK` with a TTL of 5 s; a grace record per consumed token (10 s).
  *Operations*: acquire, read, look the token up in the grace window, revoke on reuse,
  compare-and-swap rotation, store the grace record, compare-and-delete the lock. *Hard*:
  the lock expires under a slow owner, crashes between rotation and record, lost answers,
  retries. *Correct when* tokens form one line, each consumed once, no client gets an older
  or a losing pair, and a revoked session issues nothing.
* **Login, sessions, password** (`login.use-case.ts`, `session-issue.use-case.ts`,
  `session-revocation.use-case.ts`, `change-password.use-case.ts`,
  `token-validation.service.ts`). *State*: `sessions` rows, the user's password hash and
  status. *Operations*: issue with eviction of the least recently used session, save of the
  hash, logout, revocation of one or of all other sessions, password change, background
  rehash from bcrypt to Argon2. *Hard*: credentials are verified long before the session is
  inserted; the entity is saved once more after signing; `lastUsedAt` is taken before a lock
  is waited for. *Correct when* at most `MAX_ACTIVE_SESSIONS` are active, the least recently used goes
  first, revocation is
  final, and nothing outlives a password change, suspension or deletion.
* **Realtime gateway**: a handshake that validates a session and then joins rooms;
  revocations disconnect rooms, some before their transaction has committed. *Correct when*
  no socket outlives a revocation, but for one whose handshake overlapped it.
* **The request path: guards, CSRF, cookies** (`security/guards`, `security/csrf`,
  `auth-cookie.service.ts`, the two interceptors that clear cookies, every controller's
  decorators). *State*: the three cookies in a browser, what the guards have put on a
  request so far, the session and account rows they read. *Operations*: `JwtGuard`,
  `RateLimitGuard`, `RolesGuard`, `PermissionGuard`, `CsrfGuard`, then a handler that may
  issue or clear cookies. *Hard*: cookies change between a page's reading of the CSRF token
  and its sending; answers are late, lost or overtaken; a browser restarts; standings change
  between two guards. *Correct when* a change is made for the session it was composed under,
  a browser that is signed in can make one, a refresh token is taken from it only when spent,
  and what is reserved to the owner has the owner as its caller. Device detection and the
  signatures of JWTs are checks without state.
* **Rate limiting** (`security/rate-limit`): fixed windows and blocks in Redis, changed by
  Lua scripts; rules are evaluated in order and fail fast; when Redis fails the store
  answers with a degraded result. *Hard*: a window that ends under a block; what degraded
  answers mean to callers. *Correct when* a bucket admits no more than its limit within a
  window, refusals extend nothing, and a client told to wait is let in after the wait.

### Users and authorization

* **Registration and account status** (`users/application/use-cases/*`,
  `verification-code.repository.ts`). *State*: `users.status`, `email_verification_codes`,
  three Redis counters. *Operations*: initiate, verify, resend, login of a pending account,
  clean-up job, suspend and unsuspend. *Interaction*: all of them read the account, await,
  and write a status with an UPDATE by id. *Hard*: each write can be late; several resends
  and several wrong codes overlap; Redis fails between two statements. *Correct when* no
  account is active unproven, one code is open, limits hold, and stale accounts go away.
* **Administrators and invitations, roles and permissions** (`authorization/`): invitations
  with a status and a token, role assignments, direct grants. *Hard*: status read, password
  hashed, status overwritten; count-then-delete and delete-then-insert under READ COMMITTED;
  the guard's two queries. *Correct when* an address has one outstanding invitation and each
  gives one account, a role is replaced and deleted whole, and what the guard allows was held.
* **Profiles, user administration**: single-row writes.
* **Activity, audit and system logs**: fire-and-forget writes to MongoDB, between two awaits
  of a use case. *Hard*: the use case may fail, be refused or die after any await, and the
  write may be lost. *Correct when* no success is told that was not committed.

### Portfolios and markets

* **Transaction ledger and P&L** (`portfolio/application/use-cases/*`,
  `portfolio-calculation-checkpoint.repository.ts`, `holdings.service.ts`, calculators).
  *State*: transactions, opening balance, one checkpoint per portfolio, asset and strategy.
  *Operations*: four mutations that validate, then write under an advisory lock and delete
  the checkpoint; a P&L request that reads twice, resumes from the checkpoint and saves a
  new one if the ledger has not moved. *Hard*: everything a P&L request has read may be
  stale when it saves; a validation may be stale when its mutation commits. *Correct when* a
  checkpoint is the full replay of the ledger it stands for.
* **Calculators** (FIFO, LIFO, AVERAGE, price normalisation, decimals): pure. *Hard*: the
  quotients are truncated; lots are consumed from one end; a calculation is taken up again
  from its state. *Correct when* they agree with a reference and no cost appears.
* **Portfolios, holdings, valuation**: rows entered by hand beside positions derived from
  the ledger. *Hard*: three tables are read side by side while they change. *Correct when* a
  position is counted once, at its price, and a valuation is no younger than it says.
* **Wallets**: CRUD, with count-then-delete and read-then-replace sequences.
* **Price alerts** (`coin-tracker/`). *State*: `price_alerts` rows, `PRICE_CHECK_LOCK`.
  *Operations*: a check every minute on every instance (expire, fetch, page, then per alert
  record, or notify and mark), and create, edit, cancel. *Hard*: pages are stale when worked
  through; mail and mark are two systems; the lock's TTL; a publish that times out and lands
  later. *Correct when* an ended alert is quiet, nothing unsent is recorded, one crossing is
  one mail.
* **Coin catalogue and asset synchronisation**: a transaction under a lock that expires; a
  de-duplicated BullMQ job that upserts in batches, whose stalled run goes on beside the next.
* **Market overview, USDT/TOMAN, sentiment**: caches with a fresh and a stale part, retries,
  a failover between two exchanges. *Hard*: concurrent misses, late answers. *Correct when*
  an answer not marked stale is recent and the last known answer is not lost.
* **Lists**: every list is a keyset walk over rows that change between its pages.

### Platform

* **E-mail queue** (`infrastructure/queue/email`): publish with a deadline, de-duplication
  while a job is retained, at-least-once processing with permanent and temporary failures.
  *Correct when* a key is mailed once but for a crash or a stall between mail and record, no
  job is given up without a cause, and everything ends.
* **Configuration, clock, database and HTTP wiring**: no behaviour of its own.

How the parts interact: use cases call each other inside one transaction by passing the
entity manager (password change → revocation), share rows without locks (login, clean-up,
administrators → `users.status`), share Redis keys (instances → locks; verify and resend →
counters), hand over to a queue (registration, alerts → e-mail), call back into sockets
(revocation → realtime) and send records off (all of them → history).

---

## 2. The modules

`PROJECT.json`, `map`, names the lines behind every definition. What follows is how to read
each module.

### RefreshRotation and TokenLineage

One session; a request is a process whose `pc` names its next await: `read` (session),
`lookup` (grace window), `revoke`, `rotate`, `remember`, `release`. `row`, `lock` and
`replay` are the three shared stores. A request mints the token named after it (each JWT
carries a random `jti`); a digest is represented by the token. A retry is another request.
`LockExpires` and `GraceExpires` are the two TTLs, `Fail(r)` a call that throws (to the
`finally` block), `Crash(r)` an instance that dies (nothing more runs), `RevokedElsewhere`
and `SessionExpires` the other ways a session ends. A client may not receive an answer.

`TokenLineage` is the promise without locks and caches: a family of tokens, `Ask`,
`Consume`, `Answer`, `Revoke`. `RefreshRotation!Lineage` is the refinement mapping: a
request is *asked* when it has read an active session, *given* once it is past the
`finally`.

History: `gen` (generation at which a token was committed), `disturbed` (a failure or an
expired deadline), which `GraceWindowSound` needs because the code promises that racing
clients stay logged in only while its deadlines hold.

### LoginSessions and RealtimeSockets

One account; a session is named after its login. A login is
`CheckCredentials`, then the issue transaction in three steps, `Count` (lock of the user row,
insert, count), `Select` (the query for the least recently used) and `Commit` (the update by
id), then `Save` and `ResetLimit`. One issue holds the user row at a time (`UserLocked`),
but refreshes, logouts and late saves fall between its statements. `Save` is TypeORM's
`save(entity)`: it writes the columns in which the entity differs from the row *at that
moment*, so it also writes back `isRevoked = false`. Requests of a session: logout, revoke
one, revoke the others, change the password (two steps: verify, then the transaction).
A refresh reads the session and its clock (`RefreshReads`) and rotates by id, hash and
version later, without looking at `isRevoked` or `expiresAt` (`Rotates`), or ends a session
on reuse (`RevokesReused`); `RefreshRotation` has its inside. Suspension, deletion and
migration of the hash are actions. Sessions expire as the clock passes (`Live`); a rotation
gives them a new lifetime. The deletion and the deactivation of an administrator
(`delete-admin.use-case.ts`, `change-admin-status.use-case.ts`) revoke in another order and
are not among the paths here.

`RealtimeSockets` EXTENDS it and composes: each step of `LoginSessions` that revokes is
taken together with the disconnects the code sends at that point, and a step of its own
where the code disconnects before the commit. Nothing is disconnected when a session expires. A handshake validates, joins the rooms one
after the other, and may be overtaken between any two of these.

History: `revokedOnce`, `cutter` (the session that changed the password is meant to survive
it), `straddled` (logins in flight across an account-wide revocation, which the code cannot
see; the properties except exactly these), `back` (sessions that had ended and came back, by
a save over a revocation or a rotation over an expiry), `moved` (sessions refreshed after an
issue chose them), and for sockets `missed` (handshakes that
overlapped a revocation of their session).

### Registration

One account, with its codes numbered in the order they are stored. `verify`, `resend`,
`admin` and `sweep` are the next awaits of verifications, resends (and logins of the pending
account, which send a code too), administrators and the clean-up job. A consume of a counter
may answer degraded, a reset may throw. Every status write is unconditional, as
`updateStatus` is.

History: `proven`, `unsuspended`, `thisHour`, `overrun` (the cooldown ended under a resend
in progress), `degraded` (Redis failed). The last two guard the parts of `CodesSound`: with
a Redis that fails, or a resend slower than its cooldown, the code does leave two codes open
or void one early; the `hazards` say so.

### PortfolioLedger and CostBasis

One asset and one strategy, a constant. `Validate` reads and decides, `Commit…` writes under
the advisory lock and invalidates the checkpoint; a mutation may be abandoned. A P&L request
is `ReadLedger` and `ReadOpening` in either order, `Load` (checkpoint and computation),
`Save` (the guarded upsert) or `SkipSave`. The several reads of one validation are one step.
A checkpoint holds the full state of the calculation, lots and realised events included; the
lots and events as they are (`jsonb`), the cost rounded to the scale of its column
(`Stored`). Rounded down, it may be less than what the lots give back, and the next request
fails (`Presented`): such positions are the `Loose` ones of the proofs. A price may be
omitted or null, which the guard of a creation tells apart.

`CostBasis` is the calculation engine as functions: quantities and prices are integers,
costs and unit costs are in `Unit` parts of a price's smallest part, so that the truncated
quotient of `divideDecimals` is `\div`. A whole `Unit` is also what the column of a cost
keeps at least. Fees take no part. `UnitsHeld` is the reference the
lots are compared with: the units held one by one, each with its own cost.

History: `restored` (the ledger had moved away from what a request has read, and was changed
back to it before the request saved). Such a request passes the comparison under the lock
although it may have resumed from a checkpoint of the ledger in between; every other edit,
deletion, insertion and change of the opening balance under a request is covered.
`AnswersFromOneLedger` also leaves out requests that were `Overtaken`: they have read
transactions that come after what is now the last, and continue its checkpoint with them.

### PriceAlerts

One alert; the clock counts checks. A check's steps are `Start` (SET NX EX), `Expire`,
`Fetch`, `Page`, then `Record`, or `Notify` and `Mark`, then `Release`. `NotifyTimedOut` and
`LateAdd` are the two halves of `withPublishTimeout`: the deadline rejects, the buffered
command lands later. `Fail`, `Crash` and `LockExpires` (over a dead check or a live one) are
the faults. The owner's requests read, then write by id. The quote of each check is
arbitrary, or missing. A job's key is (alert, instant of the check), so the queue is the set
of instants. An alert that expires before the next check may be found expired by its owner
already.

The branch of `processAlert` that expires an alert (lines 147-163) is not an action: all
rows with `expiresAt < now` were expired at the start of the same check with the same `now`,
and edits store later instants only.

History: `marked`, `near`, `ended`, `modeEdited`, `fault` (the worst fault of a check so
far: an overrun of the lock outranks an error between mail and mark or a missed publish
deadline, which outranks a crash there). `ended` is the clock when the alert left ACTIVE;
`near` tells that a price short of the target has been recorded since the last reset of the
baseline.

### Administration

The tables of `authorization/`: accounts, invitations, direct grants, roles with their
contents and assignments. A request (`req`) is a chain of awaits; use cases check what they
have read and then write unconditionally, so what holds over the interleavings is held by
the partial unique index on outstanding invitations, the unique index on addresses and the
foreign keys, which are guards of the writing actions. A replacement of a role's permissions
is its transaction in two statements under READ COMMITTED: the delete does not see rows that
an overlapping transaction is still inserting. The guard's evaluation is two queries in
either order. Only the owner manages; acceptance is public. `Seeds` are the tables to start
from.

History: `overlap` (what replacements of the same role have committed since a request began
its own) and `held` (what an account has held at some moment since an evaluation began).

### EmailQueue

A publisher's `add` under its deadline (`Deadline`: the caller is answered, the buffered
command may still land), job hashes, the waiting list and the retained jobs in Redis, the
slots of the workers, and the SMTP server behind them. `Works` is a slot's next step: take,
send, record. A slot may crash, hang, lose its lock; `Reclaim` is BullMQ's stalled check,
`Promote` the end of a backoff. Messages have the kinds of the JSON values of their fields,
since `email-job.validator.ts` decides by these. BullMQ and the mail server are external.

History: `count` (per key, what the provider took and what may have excused another mail).

### The services side by side

`Services` EXTENDS ten modules that share no state. In a behaviour one of them, the
`scope`, is at work and the others stay where they start (`Frame`, `Still`); `MCServices`
gives all of them their values and starts the services that are not at work in one way only,
so one run of TLC checks them all in the sum, not the product, of their sizes. The proofs
are about each module's own specification; `ServicesApart` carries them over to the whole.

* **RateLimit, Cooldown.** A bucket has a counter key and a block key, with the time they
  have left: time is what Redis has. The Lua scripts are single steps. A request (`caller`)
  passes the rules of its group one after the other and fails fast; `Degrade` is the answer
  when Redis fails; `Serve` ends with the explicit reset of a successful sign-in. History:
  `recent`, the ages of the admissions. `Cooldown` is the promise of `SET key NX EX`; each
  bucket whose rule has limit 1 refines it (`ImplementsCooldown`).
* **MarketData.** One cache per feed and a chain of venues; a request asks, the venue
  computes its answer (`VenueAnswers`), the answer arrives (`AnswerArrives`) or the call
  times out first, is refused for good or is retried after a backoff. Overview, coins and
  sentiment are feeds with one venue, USDT/Toman has two, in the configured order. Misses
  are not collapsed. History: `start`, `given`.
* **AssetCatalogue.** Repeated and manual jobs, de-duplication of the pending manual one,
  attempts with a backoff (`delayed`, then `Promote` to the end of the line), workers that
  take the first in line, stalled runs, which are put first in line again or, when a job has
  stalled more than `MaxStalled` times (BullMQ's default is 1), fail; a run pages through the provider, whose `Page` is arbitrary (coins
  twice, malformed records, no price), then upserts batch by batch.
* **CoinCatalogue.** Replicas compete for a lock that runs out; the transaction of the
  winner deactivates all and marks the listed ones, each statement under the row locks of
  READ COMMITTED. History: `stray`, `shown`.
* **Paging.** `Listing` describes the list: ORDER BY and cursor condition are separate
  texts, per repository; the `LOWER` of the coins' ORDER BY and the `toLowerCase` of their
  cursor (`coin-cursor.service.ts:18`) are taken to agree. A walk takes page after page while rows appear, vanish and move.
  History: `times`, `steady`, `present`.
* **Wallets.** One wallet; an update reads the stored addresses, deletes, inserts and
  updates by what it read, in one transaction under row locks; a deletion counts the
  transfers first and is judged by the foreign key. History: `kept`.
* **TransactionEntry.** One row's type, price, currency, entered price and rate; an edit
  reads, may ask for the rate, writes. Amounts are counted in the last digit of their
  `numeric` column: what is computed is finer, and `Column` rounds it. A finite quotient
  keeps all its digits until then, any other is cut off (`TomanToUsd`); the product of
  `UsdToToman` is exact and rounded as well. Rates are taken to have no more digits than
  their column keeps, as the venues quote them. History: `muddled`.
* **Holdings.** Portfolios and rows entered by hand, each use case as its reads and its
  write; the ledger as sequences of in and out, balances and prices as far as positions
  depend on them. A request for positions reads three tables in any order and then each
  derived asset. History: `settled` (the assets that have not changed since it began).
* **History.** A use case is the sequence of its waits, each with the records it sends when
  it is over or refused; 22 use cases, three of which have a second course (the sign-in of an
  account that waits for its code, overdue or not, and a resend that is skipped), one per
  behaviour, since the records of two have
  nothing in common. It may be refused, break or die at any wait; a record may be lost.
* **Routes, RequestPath.** `Routes` has every route with the marks its decorators put on it;
  a handler's own mark overrides that of its class. `RequestPath` has one browser whose
  pages share a cookie jar. The pages are the frontend, which is not in the repository: a
  page copies the CSRF cookie into its header (`CopyToken`) and sends (`Sends`), and the
  browser attaches the cookies it has by then. The guards follow in the order of their
  registration; the two rows `JwtGuard` awaits together are read in either order, the
  permissions when `PermissionGuard` asks for them. Signing in, refreshing and signing out
  are one step each: `LoginSessions` and `RefreshRotation` have their inside. Answers arrive
  in any order or are lost (`Receive`, `Loses`), the browser is closed (`CloseBrowser`),
  cookies run out (`Ticks`), and sessions end and standings change from elsewhere.

---

## 3. Runs

| run | instance | shows |
|---|---|---|
| `refresh` | 3 requests, both TTLs may run out, failures and crashes | the grace window, sound answers, refinement of `TokenLineage`, `Answered` |
| `login` | 2 logins, limit 1, clock 0..2, sessions that live 2, 1 password change or suspension, 1 request, refresh and socket at a time | session limit and eviction, password and status, revocation, sockets |
| `login_revived` | 2 logins, limit 1 | violation, finding 1 |
| `registration_codes` | 2 verifiers, 2 resenders, 3 codes, limits 2 and 1 | codes and counters |
| `registration_status` | 1 verifier, 1 resender, 1 administrator, job, Redis fails | status, clean-up |
| `portfolio_pnl` | 1 writer, 2 P&L requests, 2 transactions, LIFO, `Unit` 1000 | checkpoints, answers, calculators |
| `portfolio_oversell` | 2 writers | violation, finding 2 |
| `price_alerts` | 2 instances, 1 owner request at a time, 4 checks, cooldown 3 | alerts and mails |
| `administration` | 3 requests, 2 accounts, 2 invitations, 1 role, 2 addresses | invitations, roles, the guard |
| `email_queue` | 2 keys, 2 callers, 2 workers, 2 attempts, 1 reclaim, 2 faults | delivery, outcomes, `NothingHangs` |
| `email_tiny_quote` | 1 key with a price mail | violation, finding 3 |
| `services` | see the bounds below | the ten services |

Bounds and why they are enough:

* Three refreshes are two that race and one that follows a generation later, the least for
  reuse to be told from a retry; the lock can be overtaken by a third owner.
* Two logins with a limit of one make eviction choose; two instants suffice for a tie and
  for a `lastUsedAt` that enters out of order, and a third lets a session of two instants
  expire under a refresh that has read it. One password change or suspension separates a
  login before it from one after; the proofs are for any number of each. One request, one
  refresh and one socket at a time beside two logins are enough for each to fall between the
  statements of an issue.
* Three codes are a first one and two resends that overlap; an attempt limit of 2 lets two
  wrong codes be the one before and the one at the limit. `RedisMayFail` and `MayGetOld`
  turn off, in `registration_codes`, faults that its properties exclude anyway.
* Two transactions are one before and one after a checkpoint; their dates are such that the
  second may precede the first, and an edit may move, change or restore either. Two P&L requests are a slow and a fast one. One change of
  the opening balance is one new `updatedAt`. The calculators are tried on every ledger that
  is reached and on its continuations by the transactions in `Further`, under all strategies.
* Four checks and a cooldown of three are the least in which a repeating alert crosses,
  falls back, crosses again one check too soon. Two prices are the two sides of a target.
  One edit that turns condition and mode round meets one alert of each mode.
* Three requests on the administration are two that race and one that reads both; one role
  replaced by two requests is the least in which a union can remain.
* Two attempts are a last and a last-but-one; one retained failure and no retained success
  let a key be forgotten while its late `add` is still on its way; two faults let a stalled
  job be reclaimed and its first slot come back.
* `services`: two callers and limits of 1, 1 and 2 with windows and blocks of up to two
  ticks; two venues, one retry, an entry that lives one tick; three coins in one page of
  three and batches of two, so that a page crosses a batch; two replicas and four lists;
  three rows and a page size of one, so that every boundary between rows is one between
  pages; two networks and three address sets; two edits of five kinds, rates that divide
  some amounts finitely and others not; two jobs, of which the second meets no further fault,
  with two attempts and one stall; two assets, one
  trade, two changes while a request reads; a day after the retention; two pages, of which
  one signs in or refreshes while the other signs out or creates a role, one account with
  three standings, two sessions, two issues of tokens, two instants with an access token
  that lives one and a refresh token that lives two, so that the first ends before the
  second and a late answer can be of an older session.

Bounds appear as guards (`clock < MaxClock`) or as the sets of requests. Deadlock is not
checked because every system here may stop: all requests answered and all bounds used up.
Symmetry is used only for sets whose members differ by name alone (logins, requests of one
kind, readers, checkers), and never in a run with a liveness property.

**Fairness.** `refresh`: weak fairness of each request's steps and of `LockExpires`. Node
runs the continuation of a settled promise, each call settles or throws (drivers have
time-outs), and Redis expires keys; nothing is assumed of clients, and a crash ends the
obligation since `Crash` leads to `done`. `registration_status`: weak fairness of
`SweepSelect`, because the scheduler starts the job again and again, and strong fairness of
its two writes, because a database error ends one run of the job but not every run.
`email_queue`: weak fairness of each caller's `Deadline`, each slot's `Works`, each job's
`Promote` and `Reclaim`: these are timers and the loop of a worker; Redis and the mail
server need never answer. All other runs check safety only.

**Properties.** Each is stated in words above its definition. Several group others, each of
which has its own comment: `AnswersSound` (refresh) is `OneLine`, `ReplayFaithful`,
`AnswersAreSuccessors` and `AnswersAreCurrent`; `EvictionSound` is the session limit and the
order of eviction; `SessionsFollowAccount` is `OldPasswordSessionsEnd` and
`NoSessionWithoutAccount`; `LateWritesContained` is `RevocationPermanent` and
`MigrationKeepsPassword`; `CodesSound` is `OneOpenCode`, `ResendBudget` and
`LimitInvalidates`; `CheckpointSound` is `CheckpointCurrent` and `CheckpointFaithful`;
`MailsMatchMarks` is `EndedStaysQuiet` and `MarkedHasMail`; `CrossingsNotified` is
`NotTooOften` and `NoMissedCrossing`; `InvitationsSound` is `OneOutstanding` and
`AccountPerInvitation`; `RolesChangeWhole` is `ReplacesWhole` and `DeletionTakesNothing`;
`MailsSound` is `MailedOnce` and `OutcomesSound`; `NothingHangs` is `JobsEnd` and
`CallsReturn`; `MarketSound` is the soundness of answers and `FallbackInOrder`; `EntrySound`
is `EntriesSound` and `OnlyWhatWasSent`; `AssetsSound` is `RunsWriteWhatTheyRead` and
`RowsMoveForward`; `AdmissionSound` is `LimitsSound` and `RequestsSound`, which is
`MeantIsServed`, `SignedInCanAct`, `ClearedIsSpent` and `ReservedToOwner`; `HistorySound` is `TellsWhatHappened` and `TellsAll`. `PROJECT.json`,
`mutants`, names for every property a plausible bug of the code that breaks it.

---

## 4. Findings

Each is a run that TLC ends with a counterexample to what a comment or a document says.

1. `login_revived`: a session revoked between its insertion and the save of its hash becomes
   active again.
2. `portfolio_oversell`: a disposal is compared with the holding before the asset lock is
   taken and is not compared again under it.
3. `email_tiny_quote`: the price check writes a quote with `String(number)`, which has an
   exponent below 1e-6; `email-job.validator.ts` knows digits and a point only and discards
   the job as corrupt.

### Behaviours that are not findings

The models reach them, nothing in the repository promises otherwise, and the properties name
them as exceptions, by a history variable or by their wording:

* a login whose credentials were verified before a suspension, deletion or password change
  still gets its session (`straddled`);
* lifting a suspension activates an account that was never verified (`unsuspended`), and two
  administrators write what they computed from the same status;
* the clean-up job deactivates an account that was verified after the job read its list;
* refused resends use up the hourly budget; a degraded counter voids a code after one wrong
  attempt, and a reset that throws leaves the account without an open code (`degraded`); a
  resend slower than its cooldown leaves two codes open (`overrun`);
* a session that has expired is active again when a refresh that read it before rotates it
  (`back`), and one refreshed between an eviction's query and its update is evicted although
  it is the most recently used by then (`moved`);
* a P&L request that has read transactions deleted or moved since continues a checkpoint of
  the new ledger with them (`Overtaken`); updates of `occurredAt` and deletions of purchases are not validated again, so
  later disposals are clamped (AVERAGE) or refused (FIFO and LIFO);
* an edit of an alert's trigger mode is ignored by a check in progress (`modeEdited`);
* a socket whose handshake overlaps the revocation of its session stays (`missed`).

### Known divergences

Smaller disagreements between the code and what is said of it, met while modelling. They are
not runs, because they are about wording, about single steps or about rows a model would
only restate; where a model reaches them its properties say so.

*Sessions and accounts.* (a) `refresh.use-case.ts:136-148` tells the loser of a
compare-and-swap to retry because the grace window resolves it; once the lock has run out
the winner may not have stored its record yet, and the retry is taken for reuse.
(b) `verify-email.use-case.ts:86` writes ACTIVATE over a suspension or deactivation made
meanwhile (`docs/authentication.md:95`). (c) Eviction disconnects no socket
(`docs/api.md:883-884`), and `revokeAll` and the `terminateOthers` of a password change
disconnect before they commit; no socket is disconnected when its session expires, and it
receives events until its client leaves. (d) `docs/sessions.md` 67 and 137-141 describe a lost
compare-and-swap as a revocation where the code answers with a conflict. (e) An answer that clears cookies
names no session: a refresh that failed terminally, or a sign-out, whose answer is late
clears the cookies of a session signed in meanwhile. `docs/authentication.md:162` says that
the CSRF cookie has no `maxAge` (it has that of the refresh token), `docs/api.md:117` that a
refresh needs the CSRF header (its route skips the check), `docs/api.md:984` that a sign-out
clears the CSRF cookie only (it clears all three).

*Alerts and mails.* (f) `email-notification.service.ts:48-52` builds the de-duplication key
from the check's own instant, so after a crash between mail and mark the next check sends a
second mail.

*Authorization.* (g) An invitation revoked while its acceptance hashes the password still
creates an account (`docs/authorization.md`). (h) `change-admin-status.use-case.ts:52-62`
can lift a suspension made between its read and its write; the permissions of a role
replaced by two requests at once are the union (`role.repository.ts:69`); the roles of a
deleted administrator stay assigned, and a grant that races the deletion leaves rows.
(i) `docs/api.md` and `docs/authorization.md` list neither the roles routes nor the
statistics; `docs/authorization.md:360` calls the acceptance of an invitation the single
public route without a CSRF check, which all public authentication routes are; the comment
of `permission.enum.ts:10-12` reserves to the owner `ADMIN_*` and `ROLE_ASSIGN`, the catalog
every other `ROLE_*` too; no route demands `USER_UPDATE`.

*Portfolio.* (j) Every mutation deletes the checkpoint, so the resumption that
`get-portfolio-pnl.use-case.ts:57-60` describes is reached only when a row is edited or
deleted under a request. (k) The checkpoint's `totalCost` is `numeric(60,26)` although the
entity calls it the full calculation state: a pooled cost has up to 44 fractional digits and
is rounded, so a position taken up from a checkpoint can differ from the full replay in the
last digits, or be refused when lots give back more than the rounded cost. A ledger that is
changed and brought back under a request passes the comparison
(`get-portfolio-pnl.use-case.ts:278-283`: "Any difference … means the checkpoint is stale and
must not be saved"), and what is saved may have been resumed from the ledger in between
(`restored`). (l) `update-portfolio-transaction.request.dto.ts:64`
says an omitted currency is USD; the normaliser keeps the row's (`:115`). An edit to a
transfer leaves the currency TOMAN on it; racing edits can leave a priced row without a
price, on which P&L throws; an edit of the fee alone overwrites a price changed meanwhile;
a creation with `price: null` passes the guard of BUY and SELL
(`create-portfolio-transaction.use-case.ts:97-103`), and its comment at 133-135 says that a
transfer's price is dropped, which is stored. (m) A Toman price below the USD scale converts
to 0 and meets the CHECK constraint. `transaction-price.ts:11-15` says that the value the
conversion produces is the one PostgreSQL stores, and truncated; a finite quotient keeps all
its digits and the column rounds it (123456.789 at 64000 is stored as 1.92901233), and so
does the column of a Toman price worked out from dollars. (n) `docs/api.md:611-616` and comments of the list and
the valuation say that the holding table is never read, which `holdings.service.ts:190-240`
does; `docs/api.md:523` speaks of a cascade where the foreign keys are NO ACTION;
`listForValuation` filters by portfolio only; `delete-portfolio.use-case.ts:51` deletes
checkpoints outside the lock.

*Logs.* (o) `user-activity-recorder.service.ts:17-20` takes the caller's transaction as
committed, which the record of `terminateOthers` inside a password change is not.

*Rate limits.* (p) `rate-limit.config.ts:23-25` gives the order IP, device, body where a
sign-in has IP, e-mail, device; the reset of an earlier successful sign-in lifts a block that
"lasts exactly blockMs" (`rate-limit-store.service.ts:33-35`); the degraded answer says that
nothing remains, and verification then voids a code after one wrong attempt (`:174`).

*Catalogues, markets, lists, wallets.* (q) Concurrent cache misses all ask upstream.
(r) `coingecko.provider.ts:79` judges the last page after `normalize` has dropped records
(`:162-163`), so a malformed record ends the paging early; the comments of
`asset.repository.ts:40-53` on stale rows do not fit `lastSyncedAt`; one over-long symbol or
name fails its batch; the OR conditions of `cursorCondition` (167-177) have no parentheses
of their own. (s) Concurrent updates of a wallet can store a mixture although
`wallet.repository.ts:117` says that the stored set matches `next` exactly; a deletion that
loses against a transfer surfaces as a foreign-key error.

Hazards not listed in `PROJECT.json` for want of room: truncated quotients as such
(`decimal.util.ts:226`), the reactivation of an administrator over a suspension
(`change-admin-status.use-case.ts:62`), the evaluator's fail-fast order
(`rate-limit-evaluator.service.ts:51`); and three that properties cover all the same: the
boundary of an alert's cooldown (`CrossingsNotified`), the order of the two exchanges
(`MarketSound`), a checkpoint that a slow request saves after a mutation has invalidated it
(`CheckpointSound`).

---

## 5. Proofs

All theorems hold for any values of the constants that the named assumption of each module
allows (`RotationAssumption`, `LoginAssumption`, …). The assumptions say that null values
are not members, that bounds are natural numbers, that sets a property counts are finite,
that configured numbers are in the ranges the program's configuration accepts, and that the
given rows, pages, lists and edits are well formed; TLC evaluates them in every run.

* **RefreshRotationProofs**: `TypeCorrect`, `SingleLine`, `SoundAnswers`,
  `RevocationStands`, `RacersStayLoggedIn`, `Refinement`. The inductive invariant `IInv`
  says where in the line each token in transit lies: a request past `read` holds a snapshot
  at or below the row's version, one that rotated is the generation after its snapshot, a
  lost swap leaves no trace. The refinement maps `Read` of an active session to `Ask`, a
  successful swap to `Consume`, the end of a request with tokens to `Answer`, all other
  steps to stutters or `Revoke`. Nothing in these proofs, except `RacersStayLoggedIn`, uses
  the lock: the line rests on the compare-and-swap alone. `RacersStayLoggedIn` adds that
  while nothing is disturbed whoever works holds the lock, what it has read is still the
  row, and every consumed token has its grace record or the request that is storing it
  (`Calm`).
* **LoginSessionsProofs**: `TypeCorrect`, `AccountRules`, `LimitKept`,
  `LeastRecentlyUsedGoFirst`, `EvictionRules`, `LateWrites`, and for the composition with
  sockets `ComposesLogin`, `SocketTypeCorrect`, `SocketsEnd`. The invariant ties each
  login's submitted password and progress to the user row: a login in flight across a
  revocation is `straddled`, and any other session that stands has the present password.
  `EvictionInv` follows the open issue from statement to statement: what it counted covers
  all that is live by its stamp but what came back since (`CountedBy`), what it has chosen is
  used no later than what it has not, but for what moved (`ChosenOldest`), no stamp is of the
  future (`Timely`), and so its commit restores the limit (`Bounded`).
  `SocketInv` accounts for each socket: it belongs to a session that nothing has revoked, or
  has been left open by an eviction or an overlapping revocation, or is spared.
* **RegistrationProofs**: `TypeCorrect`, `ActivationProven`, `CodesStaySound`. That one code
  is open rests on the cooldown as a lock: while it runs under one resend no other is past
  it (`ResendsExclusive`, `StoresAlone`). `HourBudget` bounds the set of admitted resends by
  the counter.
* **PortfolioLedgerProofs**: `CheckpointsSound`, `AnswersAreOfOneLedger`, `TypeCorrect`, `CalculatorsAgree`,
  `CalculatorsStaySound`. The
  first needs that every mutation deletes the checkpoint in the step that writes and, by
  `OpeningSeen`, `IdsAreNew` and `AnswerMatches`, that the position of a request is, once
  stored, the full replay of the present ledger whenever the comparison lets it through,
  whatever was inserted, edited and deleted meanwhile; `SameRows` says that the rows compared
  are all a replay depends on, `StoredIs` that rounding twice is rounding once. The second
  adds that a request that nothing overtook takes a checkpoint up where it ends
  (`FromCheckpoint`, `ComputedFromOneLedger`).
  The calculators are compared unit by unit. `Laid` lays out lots as the units that they
  stand for; consuming lots takes away the first of them, or the last (`Took`, `Staying`,
  `ConsumedIs`). A position is `Whole` when its lots hold its quantity and cost no more than
  it does; every transaction leads from a whole position to a whole one or fails, and a whole
  position is taken up again as it is, which makes resuming exact (`TakenUp`, `Continued`).
  A transaction that fits what is held does to a position what the reference does to its
  units, and turns cost into profit by what is paid and nothing else (`Follows`); by
  induction over the transactions the position is `Right`. `CalculatorsAgree` says so of all
  balances, transactions and prices, not of the reached ledgers only. `TypeInv` keeps
  what comes out of the table: `Loose` positions, whose cost was rounded and may be less than
  what the lots give back.
* **PriceAlertsProofs**: `TypeCorrect`, `EndedAlertsStayEnded`, `MailsAndMarksAgree`,
  `CrossingsAreNotified`. The first three do not assume that the lock holds. `MailInv` adds
  that a check about to mark has its mail in the queue; `QuietInv` that no instant lies
  ahead of the clock and that a check about to notify started before the alert ended. The
  last is about what happens while no check outlives its lock: the one at work holds it and
  has the latest instant (`Alone`), the row accounts for every mail but the one about to be
  recorded (`Recorded`), mails are a cooldown apart (`Spaced`), and the recorded price stays
  near the target until a crossing is notified (`StaysNear`).
* **AdministrationProofs**: `Typed`, `InvitationsSoundHolds`, `AllowedWasHeldHolds`,
  `RolesChangeWholeHolds`. `InvitationInv` follows each acceptance to the row it will write;
  `Judged` says that what an evaluation has read was held; `ReplacementInv` that what a
  replacement leaves of the old contents it still has to delete or an overlapping
  replacement has inserted (`Spares`).
* **EmailQueueProofs**: `TypeCorrect`, `MailedAtMostOnce`, `MailsStaySound`. The invariant is
  per key (`KeySound`): where a job is placed, how often it may still be tried, who holds its
  lock, and that what the provider took balances what has been told and what excuses more.
* **ServicesProofs**. Rate limits: `LimitsTyped`, `LimitsHold`, `CooldownsHold`; the ages of
  a bucket's admissions are paced by its counter (`Paced`). Assets: `AssetsTyped`,
  `AssetsStaySound`; what a run has still to write is ahead of the rows (`Ahead`), and the
  line holds each waiting job once (`LineSound`). Coins:
  `CoinsTyped`, `ActiveListIsOneReport`; locks guard the statements and a run that is alone
  has seen all rows (`LockGuards`, `AloneSeesAll`). Paging: `PagingTyped`, `WalksShowAll`;
  the page is the least rows after the cursor, in order, and the walk has shown what lies
  before it. Wallets: `WalletsTyped`, `WalletsStaySound`. Markets: `MarketTyped`,
  `MarketAnswersSound`. Entries: `EntriesTyped`, `EntriesStaySound`. Positions:
  `HoldingsTyped`, `PositionsStaySound`; what a request has read of an asset that has not
  changed is what the tables say (`ReadIsCurrent`), and totals are compared term by term.
  Histories: `HistoriesTyped`, `HistoriesStaySound`; what was sent is traced to a wait that
  is over, and every use case is `Honest`: it tells of a success after its commit and of a
  refusal before it, but for the sign-in of a pending account.
  Requests: `RequestsTyped`, `RequestsStaySound`; the invariant (`RequestInv`) says what the
  guards have established at each stage of a request (`Guards`), that a browser holds access
  and CSRF cookie as a pair of one session of which the second does not end first
  (`PairKept`, and `PairSent` of an answer under way), and that session rows only begin and
  end (`Grown`), so that a spent token stays spent while its answer travels.
  `ServicesApart` and `ServicesTyped` put the ten side by side, and `AdmissionHolds` joins
  what limits and guards promise.

The library's induction theorems take an operator as a parameter, which these provers cannot
instantiate. Where a proof needs induction (sums, sequences sorted from sets, folds) it takes
a least counterexample: a non-empty set of natural numbers has a least member
(`LeastNatural`, from the well-foundedness of `<`). The folds of the community modules are
reasoned about by proving that the function they choose exists and is the only one.

Proving changed the models in a few places. `Paging`, `CostBasis` and `Holdings` had CASE
expressions with overlapping guards, of which TLC takes the first and TLA+ any: they are
conditionals now. `Ordered` says by
counting what a library operator sorted, which the provers cannot see into.

What is only model-checked: the liveness properties (`Answered`, `StalePendingResolved`,
`NothingHangs`), because `ENABLED` and fairness are beyond the provers; and the three runs
that end in a counterexample. Every invariant and every action property that a run checks
is also a theorem, for all values of the constants.

---

## 6. Not modelled, and the plan

* Device identification and detection, hashes, signatures and the HTTP wiring have no state
  of their own (a token is its session, its issue and its expiry); configuration is read
  once; pages of several browsers meet only in the rows, which end and change at any time
  (`EndsElsewhere`, `ChangesStanding`). Mail texts, swagger documents, formatting and the texts of logs are left out: no
  property is about them.
* Left out of the modelled parts: edits of an alert's expiry and channels, the SMS channel
  (which only logs), paging of the check over several alerts; purging of old code rows;
  renaming of a role; names, labels and address formats of wallets; notes of holdings; fees
  of transactions; what the administration records in the logs; decimals are integers of a
  fixed scale.

Next, in this order:

1. The configuration schema, as the ranges the assumptions on the constants rely on.
2. Device detection and identification, as the inputs of sign-in and of its rate limits.
