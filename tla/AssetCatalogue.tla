---------------------------- MODULE AssetCatalogue ----------------------------
(***************************************************************************)
(* The asset catalogue (features/assets): jobs of the asset-sync queue,    *)
(* scheduled or asked for by an owner, each of which pages through the     *)
(* market data of CoinGecko and then upserts the rows batch by batch,      *)
(* without a transaction around the batches.                               *)
(*                                                                         *)
(* The provider's ranking moves between two pages, so a coin may come      *)
(* twice or not at all; a job is run again after a failure, and beside its *)
(* first run when the worker of that has lost its lock.                    *)
(***************************************************************************)
EXTENDS Integers, Sequences, FiniteSets

CONSTANTS Asset,      \* what the provider knows
          Worker,    \* the replicas' workers, one slot each
          Attempts,  \* ASSET_SYNC_QUEUE_ATTEMPTS
          MaxStalled,  \* how often a job may be reclaimed: BullMQ's default
          PageRetries,   \* extra requests for a page
          PageSize,
          MaxPages,
          Page,      \* what a request may be answered with
          BatchSize, \* ASSET_UPSERT_BATCH_SIZE
          MaxJobs,   \* bound: jobs created
          MaxSyncClock,  \* bound: the clock
          MaxFaults  \* bound: crashes and locks lost, by the number of jobs created

ASSUME CatalogueAssumption ==
  /\ Attempts \in Nat \ {0} /\ PageRetries \in Nat
  /\ PageSize \in Nat \ {0} /\ MaxPages \in Nat \ {0} /\ BatchSize \in Nat \ {0}
  /\ MaxStalled \in Nat /\ MaxJobs \in Nat /\ MaxSyncClock \in Nat
  /\ MaxFaults \in [0..MaxJobs -> Nat]

Job  == 1..MaxJobs
Never == -1

(***************************************************************************)
(* What a page holds: records with a coin and maybe a price, or records    *)
(* without the required fields.                                            *)
(***************************************************************************)

Malformed == [coin |-> "", quoted |-> FALSE]
Record    == [coin : Asset, quoted : BOOLEAN] \cup {Malformed}

ASSUME PageAssumption ==
  \A page \in Page : /\ page \in Seq(Record) /\ Len(page) <= PageSize
                     /\ \A i, k \in DOMAIN page :
                          page[i].coin = page[k].coin => i = k \/ page[i] = Malformed

\* The places of a list that are kept, in order.
Nth(places, n) == CHOOSE i \in places : Cardinality({k \in places : k <= i}) = n

\* A reading is a record and when it was taken; what is malformed is skipped.
Normalized(page, time) ==
  LET usable == {i \in DOMAIN page : page[i] # Malformed}
  IN [n \in 1..Cardinality(usable) |->
        [coin |-> page[Nth(usable, n)].coin, quoted |-> page[Nth(usable, n)].quoted,
         at |-> time]]

\* One reading per coin: the last, at the place of the first.
Occurs(coin, readings) == {i \in DOMAIN readings : readings[i].coin = coin}
FirstOf(places) == CHOOSE i \in places : \A k \in places : i <= k
LastOf(places)  == CHOOSE i \in places : \A k \in places : k <= i
Unique(readings) ==
  LET firsts == {FirstOf(Occurs(readings[i].coin, readings)) : i \in DOMAIN readings}
  IN [n \in 1..Cardinality(firsts) |->
        readings[LastOf(Occurs(readings[Nth(firsts, n)].coin, readings))]]

(***************************************************************************)
(* State.                                                                  *)
(***************************************************************************)

NoWorker  == "none"
ASSUME NoWorkerAssumption == NoWorker \notin Worker
NoJob == [kind |-> NoWorker, state |-> "absent", made |-> 0, owner |-> NoWorker, refused |-> FALSE,
          stalled |-> 0]
Free  == [at |-> "idle", job |-> 0, page |-> 0, attempt |-> 0, read |-> <<>>, todo |-> <<>>,
          stamp |-> Never, alone |-> FALSE]
NoRow == [price |-> Never, data |-> Never, stamp |-> Never]

VARIABLES job,     \* the jobs of the queue: attempts made, how often stalled
          line,    \* those that may be taken, in order
          worker,  \* what a slot is doing: its page and attempt, the readings,
                   \* the rows still to write and their stamp; history:
                   \* nobody else ran meanwhile
          asset,   \* rows: when the price they hold was read, and the other
                   \* columns, and lastSyncedAt
          syncClock,
          faults

assetVars == <<job, line, worker, asset, syncClock, faults>>

AssetInit ==
  /\ job = [j \in Job |-> NoJob]
  /\ line = <<>>
  /\ worker = [w \in Worker |-> Free]
  /\ asset = [c \in Asset |-> NoRow]
  /\ syncClock = 0
  /\ faults = 0

(***************************************************************************)
(* The queue.                                                              *)
(***************************************************************************)

Pending(j) == job[j].state \in {"waiting", "active", "delayed"}
NextJob(j) == job[j] = NoJob /\ \A k \in Job : k < j => job[k] # NoJob

Add(j, kind) ==
  /\ NextJob(j)
  /\ faults <= MaxFaults[j]
  /\ job' = [job EXCEPT ![j] = [NoJob EXCEPT !.kind = kind, !.state = "waiting"]]
  /\ line' = Append(line, j)
  /\ UNCHANGED <<worker, asset, syncClock, faults>>

Created == Cardinality({j \in Job : job[j] # NoJob})

\* A request of an owner: one that is pending or running is used again.
EnqueueManualSync(j) ==
  /\ ~\E k \in Job : Pending(k) /\ job[k].kind = "manual"
  /\ Add(j, "manual")

\* The repeating job: its next run is due whatever the last one does.
Repeat(j) ==
  /\ ~\E k \in Job : job[k].kind = "scheduled" /\ job[k].state = "waiting"
  /\ Add(j, "scheduled")

Take(w, j) ==
  /\ worker[w] = Free
  /\ line # <<>> /\ Head(line) = j
  /\ line' = Tail(line)
  /\ job' = [job EXCEPT ![j].state = "active", ![j].owner = w]
  /\ worker' = [v \in Worker |->
       IF v = w THEN [Free EXCEPT !.at = "fetching", !.job = j, !.page = 1, !.attempt = 1,
                                  !.alone = \A u \in Worker : worker[u] = Free]
                ELSE [worker[v] EXCEPT !.alone = FALSE]]
  /\ UNCHANGED <<asset, syncClock, faults>>

Owns(w) == job[worker[w].job].owner = w

\* The run of w has thrown: the job is failed, or put off (the backoff), which
\* lets those behind it pass.  What a worker without its lock reports is ignored.
Throw(w, permanent) ==
  LET j == worker[w].job
      made == job[j].made + 1
  IN /\ worker' = [worker EXCEPT ![w] = Free]
     /\ job' = IF ~Owns(w) THEN job
               ELSE [job EXCEPT ![j].made = made, ![j].owner = NoWorker, ![j].refused = permanent,
                                ![j].state = IF permanent \/ made >= Attempts THEN "failed"
                                                                              ELSE "delayed"]
     /\ UNCHANGED <<line, asset, syncClock, faults>>

\* The delay is over: last in the line.
Promote(j) ==
  /\ job[j].state = "delayed"
  /\ job' = [job EXCEPT ![j].state = "waiting"]
  /\ line' = Append(line, j)
  /\ UNCHANGED <<worker, asset, syncClock, faults>>

(***************************************************************************)
(* Paging.                                                                 *)
(***************************************************************************)

LastPage(w, readings) == Len(readings) < PageSize \/ worker[w].page = MaxPages

FetchPage(w, page) ==
  LET readings == Normalized(page, syncClock)
  IN /\ worker[w].at = "fetching"
     /\ worker' = [worker EXCEPT
          ![w].read = @ \o readings,
          ![w].at = IF LastPage(w, readings) THEN "fetched" ELSE "fetching",
          ![w].page = IF LastPage(w, readings) THEN @ ELSE @ + 1,
          ![w].attempt = 1]
     /\ UNCHANGED <<job, line, asset, syncClock, faults>>

\* Rate limited, timed out, 5xx, no answer: asked again, a bounded number of times.
FetchFails(w) ==
  /\ worker[w].at = "fetching"
  /\ IF worker[w].attempt <= PageRetries
       THEN /\ worker' = [worker EXCEPT ![w].attempt = @ + 1]
            /\ UNCHANGED <<job, line, asset, syncClock, faults>>
       ELSE Throw(w, FALSE)

\* Another 4xx, or a body that is no list.
FetchRefused(w) ==
  /\ worker[w].at = "fetching"
  /\ Throw(w, TRUE)

(***************************************************************************)
(* Writing.                                                                *)
(***************************************************************************)

ToSyncData(w) ==
  /\ worker[w].at = "fetched"
  /\ worker[w].read # <<>>
  /\ worker' = [worker EXCEPT ![w].at = "writing", ![w].todo = Unique(worker[w].read),
                              ![w].stamp = syncClock]
  /\ UNCHANGED <<job, line, asset, syncClock, faults>>

EmptySync(w) ==
  /\ worker[w].at = "fetched"
  /\ worker[w].read = <<>>
  /\ Throw(w, FALSE)

Batch(w) == SubSeq(worker[w].todo, 1, IF Len(worker[w].todo) < BatchSize THEN Len(worker[w].todo)
                                                                        ELSE BatchSize)

\* Every column is replaced, but a price only by a price.
Replaced(row, reading, stamp) ==
  [price |-> IF reading.quoted THEN reading.at ELSE Never, data |-> reading.at, stamp |-> stamp]
Merged(row, reading, stamp) ==
  [price |-> IF reading.quoted THEN reading.at ELSE row.price, data |-> reading.at, stamp |-> stamp]

UpsertBatch(w) ==
  /\ worker[w].at = "writing"
  /\ asset' = [c \in Asset |->
       LET rows == {i \in DOMAIN Batch(w) : Batch(w)[i].coin = c}
       IN IF rows = {} THEN asset[c]
          ELSE Merged(asset[c], Batch(w)[CHOOSE i \in rows : TRUE], worker[w].stamp)]
  /\ worker' = [worker EXCEPT ![w].todo = SubSeq(@, Len(Batch(w)) + 1, Len(@)),
                              ![w].at = IF Len(Batch(w)) = Len(worker[w].todo) THEN "done" ELSE @]
  /\ UNCHANGED <<job, line, syncClock, faults>>

\* The statement fails; those before it stay.
UpsertFails(w) ==
  /\ worker[w].at = "writing"
  /\ Throw(w, FALSE)

Complete(w) ==
  /\ worker[w].at = "done"
  /\ worker' = [worker EXCEPT ![w] = Free]
  /\ job' = IF Owns(w) THEN [job EXCEPT ![worker[w].job].state = "completed",
                                        ![worker[w].job].owner = NoWorker]
                       ELSE job
  /\ UNCHANGED <<line, asset, syncClock, faults>>

(***************************************************************************)
(* Faults and time.                                                        *)
(***************************************************************************)

WorkerCrash(w) ==
  /\ worker[w] # Free
  /\ faults < MaxFaults[Created]
  /\ faults' = faults + 1
  /\ worker' = [worker EXCEPT ![w] = Free]
  /\ UNCHANGED <<job, line, asset, syncClock>>

\* The lock of a running job is gone: the job is first in the line again, or
\* failed when that has happened too often (BullMQ; asset-sync.processor.ts
\* sets no maxStalledCount).
Reclaim(j) ==
  LET stalled == job[j].stalled + 1 IN
  /\ job[j].state = "active"
  /\ \/ worker[job[j].owner].job # j /\ faults' = faults
     \/ worker[job[j].owner].job = j /\ faults < MaxFaults[Created] /\ faults' = faults + 1
  /\ job' = [job EXCEPT ![j].stalled = stalled, ![j].owner = NoWorker,
                        ![j].state = IF stalled > MaxStalled THEN "failed" ELSE "waiting"]
  /\ line' = IF stalled > MaxStalled THEN line ELSE <<j>> \o line
  /\ UNCHANGED <<worker, asset, syncClock>>

SyncTick ==
  /\ syncClock < MaxSyncClock
  /\ syncClock' = syncClock + 1
  /\ UNCHANGED <<job, line, worker, asset, faults>>

AssetNext ==
  \/ \E j \in Job : EnqueueManualSync(j) \/ Repeat(j) \/ Promote(j) \/ Reclaim(j)
                     \/ \E w \in Worker : Take(w, j)
  \/ \E w \in Worker : \/ \E page \in Page : FetchPage(w, page)
                       \/ FetchFails(w) \/ FetchRefused(w) \/ ToSyncData(w) \/ EmptySync(w)
                       \/ UpsertBatch(w) \/ UpsertFails(w) \/ Complete(w) \/ WorkerCrash(w)
  \/ SyncTick

AssetSpec == AssetInit /\ [][AssetNext]_assetVars
--------------------------------------------------------------------------------
(***************************************************************************)
(* Properties.                                                             *)
(***************************************************************************)

\* At most one sync that an owner asked for is pending, and a row's columns are
\* no younger than its stamp.
AssetTypeOK ==
  /\ \A j \in Job : /\ job[j].state \in {"absent", "waiting", "active", "delayed", "completed",
                                         "failed"}
                    /\ job[j].made \in 0..Attempts /\ job[j].stalled \in 0..MaxStalled + 1
                    /\ job[j].owner \in Worker \cup {NoWorker}
  /\ Cardinality({j \in Job : Pending(j) /\ job[j].kind = "manual"}) <= 1
  /\ \A c \in Asset : /\ asset[c].price <= syncClock
                     /\ asset[c].data <= asset[c].stamp /\ asset[c].stamp <= syncClock

\* Whatever the ranking does between two pages, no statement names a row twice
\* (PostgreSQL would refuse it), a run that is through has left the last
\* reading it took of every coin, under its own stamp, and a job is given up
\* only when the provider has refused it, its attempts are used up, or its
\* workers were lost more often than the queue allows (SyncAssetsUseCase.toSyncData, AssetRepository.upsertMany).
RunsWriteWhatTheyRead ==
  /\ \A w \in Worker : \A i, k \in DOMAIN Batch(w) : Batch(w)[i].coin = Batch(w)[k].coin => i = k
  /\ \A w \in Worker : worker[w].at = "done" /\ worker[w].alone =>
       \A i \in DOMAIN worker[w].read :
         LET c == worker[w].read[i].coin
             last == worker[w].read[LastOf(Occurs(c, worker[w].read))]
         IN asset[c].data = last.at /\ asset[c].stamp = worker[w].stamp
  /\ \A j \in Job : job[j].state = "failed" =>
       job[j].refused \/ job[j].made = Attempts \/ job[j].stalled > MaxStalled

\* A price that is known is never lost, and while only one run is under way the
\* catalogue moves forward: no column goes back to an older reading, retries,
\* crashes and half-written runs included.
RowsMoveForward ==
  [][\A c \in Asset :
       /\ asset[c].price # Never => asset'[c].price # Never
       /\ asset'[c] # asset[c] =>
            \A w \in Worker : worker'[w].todo # worker[w].todo /\ worker[w].alone =>
              /\ asset'[c].price >= asset[c].price
              /\ asset'[c].data >= asset[c].data /\ asset'[c].stamp >= asset[c].stamp]_assetVars

\* The catalogue is what its runs have read, and it does not go back.
AssetsSound == []RunsWriteWhatTheyRead /\ RowsMoveForward
================================================================================
