---------------------------- MODULE PortfolioLedger ----------------------------
(***************************************************************************)
(* The transaction ledger of one asset in one portfolio and the P&L        *)
(* checkpoint computed from it, for one cost-basis strategy.               *)
(*                                                                         *)
(* Mutations (create, update and delete a transaction, set the opening     *)
(* balance) validate first and then write under withAssetLock, which holds *)
(* an advisory lock for the whole transaction: the commit is one step.     *)
(* A P&L request reads transactions and opening balance in two queries,    *)
(* then the checkpoint, computes, and saves a new checkpoint under the     *)
(* same lock if the ledger still reads as it did.                          *)
(*                                                                         *)
(* CostBasis is the calculation; rows are in USD and without fees.  What   *)
(* it takes for one part, the smallest amount at the smallest price, is    *)
(* Unit parts of a cost, and the least that the checkpoint's column holds: *)
(* a saved cost is rounded to it.                                          *)
(***************************************************************************)
EXTENDS CostBasis, FiniteSets

CONSTANTS Strategy,  \* the strategy whose checkpoint this is
          Writer,    \* requests that change the ledger
          Reader,    \* P&L requests
          MaxTx,     \* bound: how many transactions are ever created
          Entries,   \* bound: the transactions that are created
          Edits,     \* bound: the updates that are requested
          Openings,  \* bound: the opening balances that are set
          MaxStamp,  \* bound: how often the opening balance is set
          Further    \* bound: with which transactions the calculators are tried further

Tx    == 1..MaxTx
Entry == [kind : Kind, amount : Nat \ {0}, price : Nat, at : Nat]
Keep    == 0
Omitted == -1   \* undefined, where NoPrice is null
Offer   == [kind : Kind, amount : Nat \ {0}, price : Nat \cup {Omitted}, at : Nat]
Edit    == [kind : Kind \cup {"keep"}, amount : Nat, price : Nat \cup {Omitted}, at : Nat]
Balance == [quantity : Nat, cost : Nat]

ASSUME LedgerAssumption ==
  /\ MaxTx \in Nat
  /\ MaxStamp \in Nat
  /\ Entries \subseteq Offer
  /\ Further \subseteq Entry
  /\ Edits \subseteq Edit
  /\ Openings \subseteq Balance
  /\ Strategy \in Strategies

VARIABLES
  ledger,     \* transaction rows by id; ids are random, never reused
  opening,    \* the opening balance row and its updatedAt
  checkpoint, \* the saved checkpoint, or NoCheckpoint
  write,      \* the validated mutation each writer is about to commit
  read,       \* the next await of each P&L request
  seen,       \* the transactions it has read
  seenOpening, \* the opening balance it has read
  answer,     \* the position it has computed, or NoPosition
  restored    \* history: what a request read and computed, and that was changed since,
              \* was brought back under it

snap == <<seen, seenOpening>>
vars == <<ledger, opening, checkpoint, write, read, snap, answer, restored>>

Unused  == [kind |-> "unused", amount |-> 0, price |-> 0, at |-> 0]
Deleted == [kind |-> "deleted", amount |-> 0, price |-> 0, at |-> 0]
Ledger  == [Tx -> Entry \cup {Unused, Deleted}]
Opening == [balance : Balance, stamp : 0..MaxStamp]

NoPosition   == [Failed EXCEPT !.quantity = -2]
NoCheckpoint == [last |-> 0, stamp |-> 0, state |-> NoPosition]

Request ==
       [op : {"create"}, tx : {0}, data : Entries]
  \cup [op : {"update"}, tx : Tx, data : Edits]
  \cup [op : {"delete"}, tx : Tx, data : {0}]
  \cup [op : {"open"}, tx : {0}, data : Openings]
NoRequest == [op |-> "none", tx |-> 0, data |-> 0]

TypeOK ==
  /\ ledger \in Ledger
  /\ opening \in Opening
  /\ checkpoint \in [last : 0..MaxTx, stamp : 0..MaxStamp, state : Position \cup {NoPosition}]
  /\ write \in [Writer -> Request \cup {NoRequest}]
  /\ read \in [Reader -> {"idle", "ledger", "opening", "load", "save", "done"}]
  /\ seen \in [Reader -> Ledger]
  /\ seenOpening \in [Reader -> Opening]
  /\ answer \in [Reader -> Position \cup {NoPosition, Failed}]
  /\ restored \in BOOLEAN

NoOpening == [balance |-> [quantity |-> 0, cost |-> 0], stamp |-> 0]
NoLedger  == [t \in Tx |-> Unused]

Init ==
  /\ ledger = NoLedger
  /\ opening = NoOpening
  /\ checkpoint = NoCheckpoint
  /\ write = [w \in Writer |-> NoRequest]
  /\ read = [r \in Reader |-> "idle"]
  /\ seen = [r \in Reader |-> NoLedger]
  /\ seenOpening = [r \in Reader |-> NoOpening]
  /\ answer = [r \in Reader |-> NoPosition]
  /\ restored = FALSE

-----------------------------------------------------------------------------
(* The calculation *)

Live(L) == {t \in Tx : L[t].kind \in Kind}

\* ORDER BY occurredAt, id.
Before(L, t, u) == L[t].at < L[u].at \/ (L[t].at = L[u].at /\ t < u)

Place(L) == [t \in Live(L) |-> Cardinality({u \in Live(L) : Before(L, u, t)})]
Ordered(L) ==
  [n \in 1..Cardinality(Live(L)) |-> CHOOSE t \in Live(L) : Place(L)[t] = n - 1]

IsLast(L, t) == t \in Live(L) /\ \A u \in Live(L) \ {t} : Before(L, u, t)

\* The transactions after the first n.
Suffix(L, n) ==
  LET order == Ordered(L) IN [i \in 1..(Len(order) - n) |-> L[order[n + i]]]

\* engine.calculate from a state with the transactions after the first n.
Resume(L, n, state) == Calculated(Strategy, state, Suffix(L, n))

Replay(L, o) == Resume(L, 0, Opened(o.balance))

\* Round half up to the column's least part, as numeric(60,26) does; the lots and the
\* events are kept as they are, in jsonb.
Nearest(cost) == Unit * ((cost + Unit \div 2) \div Unit)
Stored(s) == [s EXCEPT !.cost = Nearest(@)]

SuffixFromStart(L, last) == 0

\* resolveCheckpoint: one past the last transaction the checkpoint covers.
SuffixStart(L, last) == Cardinality({t \in Live(L) : ~Before(L, last, t)})

Usable(L, o, cp) ==
  /\ cp # NoCheckpoint
  /\ cp.stamp = o.stamp
  /\ cp.last \in Live(L)

\* computePosition.
Computed(L, o, cp) ==
  IF ~Usable(L, o, cp) THEN Replay(L, o)
  ELSE IF SuffixStart(L, cp.last) = Cardinality(Live(L)) THEN cp.state
  ELSE Resume(L, SuffixStart(L, cp.last), cp.state)

\* buildPosition refuses a cost below zero: lots give back their exact cost also where
\* the pool was rounded down.
Presented(s) == IF s.cost < 0 THEN Failed ELSE s

-----------------------------------------------------------------------------
(* Mutations *)

\* getAssetQuantity and getAssetQuantityExcluding.
Held(L, o) == HeldAfter(o.balance.quantity, Suffix(L, 0))

Without(L, t) == [L EXCEPT ![t] = Deleted]

MergedBlindly(old, e) == e

\* The fields that the request gives are written, the others stay as they are.
Merged(old, e) ==
  [kind   |-> IF e.kind = "keep" THEN old.kind ELSE e.kind,
   amount |-> IF e.amount = Keep THEN old.amount ELSE e.amount,
   price  |-> IF e.price = Omitted THEN old.price ELSE e.price,
   at     |-> IF e.at = Keep THEN old.at ELSE e.at]

\* The row of a creation: a transfer has no price.
Recorded(offer) ==
  [offer EXCEPT !.price = IF offer.kind \in Priced /\ @ # Omitted THEN @ ELSE NoPrice]

\* What each use case checks before it takes the lock.  A creation is refused without a
\* price, not with null for one; an update is refused with neither.
ValidCreate(q) ==
  /\ q.data.kind \in Priced => q.data.price # Omitted
  /\ q.data.kind \in Disposing => CanSell(Held(ledger, opening), q.data.amount)

ValidUpdate(q) ==
  LET new == Merged(ledger[q.tx], q.data) IN
  /\ q.tx \in Live(ledger)
  /\ new.kind \in Priced => new.price # NoPrice
  /\ new.kind \in Disposing /\ (q.data.kind # "keep" \/ q.data.amount # Keep) =>
       CanSell(Held(Without(ledger, q.tx), opening), new.amount)

ValidDelete(q) == q.tx \in Live(ledger)

Validate(w, q) ==
  /\ write[w] = NoRequest
  /\ q.op = "create" => ValidCreate(q)
  /\ q.op = "update" => ValidUpdate(q)
  /\ q.op = "delete" => ValidDelete(q)
  /\ write' = [write EXCEPT ![w] = q]
  /\ UNCHANGED <<ledger, opening, checkpoint, read, snap, answer, restored>>

Rows(L) == [t \in Live(L) |-> L[t]]

\* ledgerMatches, for a ledger.
Matches(r, L) ==
  /\ Rows(L) = Rows(seen[r])
  /\ opening.stamp = seenOpening[r].stamp

BringsBack(L) == \E r \in Reader : read[r] = "save" /\ ~Matches(r, ledger) /\ Matches(r, L)

\* deleteByPortfolioAndAsset, in the transaction of the mutation.
Invalidated == NoCheckpoint

Finish(w) ==
  /\ checkpoint' = Invalidated
  /\ write' = [write EXCEPT ![w] = NoRequest]

CommitCreate(w, t) ==
  /\ write[w].op = "create"
  /\ ledger[t] = Unused
  /\ ledger' = [ledger EXCEPT ![t] = Recorded(write[w].data)]
  /\ Finish(w)
  /\ UNCHANGED <<opening, read, snap, answer, restored>>

\* UPDATE and DELETE by id: a row that is gone by now is not touched.
Changed(t, entry) ==
  /\ ledger' = IF t \in Live(ledger) THEN [ledger EXCEPT ![t] = entry] ELSE ledger
  /\ restored' = (restored \/ BringsBack(ledger'))

CommitUpdate(w) ==
  /\ write[w].op = "update"
  /\ Changed(write[w].tx, Merged(ledger[write[w].tx], write[w].data))
  /\ Finish(w)
  /\ UNCHANGED <<opening, read, snap, answer>>

CommitDelete(w) ==
  /\ write[w].op = "delete"
  /\ Changed(write[w].tx, Deleted)
  /\ Finish(w)
  /\ UNCHANGED <<opening, read, snap, answer>>

\* The upsert gives the row a new updatedAt.
CommitOpening(w) ==
  /\ write[w].op = "open"
  /\ opening.stamp < MaxStamp
  /\ opening' = [balance |-> write[w].data, stamp |-> opening.stamp + 1]
  /\ Finish(w)
  /\ UNCHANGED <<ledger, read, snap, answer, restored>>

\* The transaction rolls back, or a later check refuses the request.
Abandon(w) ==
  /\ write[w] # NoRequest
  /\ write' = [write EXCEPT ![w] = NoRequest]
  /\ UNCHANGED <<ledger, opening, checkpoint, read, snap, answer, restored>>

-----------------------------------------------------------------------------
(* GetPortfolioPnlUseCase *)

Goto(r, label) == read' = [read EXCEPT ![r] = label]

\* listForPnl of both repositories, in either order.
ReadLedger(r) ==
  /\ read[r] \in {"idle", "ledger"}
  /\ seen' = [seen EXCEPT ![r] = ledger]
  /\ Goto(r, IF read[r] = "idle" THEN "opening" ELSE "load")
  /\ UNCHANGED <<ledger, opening, checkpoint, write, seenOpening, answer, restored>>

ReadOpening(r) ==
  /\ read[r] \in {"idle", "opening"}
  /\ seenOpening' = [seenOpening EXCEPT ![r] = opening]
  /\ Goto(r, IF read[r] = "idle" THEN "ledger" ELSE "load")
  /\ UNCHANGED <<ledger, opening, checkpoint, write, seen, answer, restored>>

\* groupByAsset finds nothing to report on.
NoGroup(r) == Live(seen[r]) = {} /\ seenOpening[r].stamp = 0

\* The request ends and forgets what it has read.
Forget(r) ==
  /\ seen' = [seen EXCEPT ![r] = NoLedger]
  /\ seenOpening' = [seenOpening EXCEPT ![r] = NoOpening]

\* findByScope and computePosition; a calculation that throws ends the request, and
\* without a transaction there is nothing to anchor a checkpoint on.
Load(r) ==
  LET result == IF NoGroup(r) THEN NoPosition
                ELSE Presented(Computed(seen[r], seenOpening[r], checkpoint))
  IN /\ read[r] = "load"
     /\ answer' = [answer EXCEPT ![r] = result]
     /\ IF Live(seen[r]) = {} \/ result = Failed
          THEN Goto(r, "done") /\ Forget(r)
          ELSE Goto(r, "save") /\ UNCHANGED snap
     /\ UNCHANGED <<ledger, opening, checkpoint, write, restored>>

LastMatches(r) ==
  /\ \E t \in Tx : IsLast(ledger, t) /\ IsLast(seen[r], t)
  /\ opening.stamp = seenOpening[r].stamp

LedgerMatches(r) == Matches(r, ledger)

Respond(r) ==
  /\ Goto(r, "done")
  /\ Forget(r)
  /\ answer' = [answer EXCEPT ![r] = NoPosition]

\* saveCheckpointIfCurrent; an error is logged and forgotten.
Save(r, t) ==
  /\ read[r] = "save"
  /\ IsLast(seen[r], t)
  /\ LedgerMatches(r)
  /\ checkpoint' = [last |-> t, stamp |-> seenOpening[r].stamp, state |-> Stored(answer[r])]
  /\ Respond(r)
  /\ UNCHANGED <<ledger, opening, write, restored>>

SkipSave(r) ==
  /\ read[r] = "save"
  /\ Respond(r)
  /\ UNCHANGED <<ledger, opening, checkpoint, write, restored>>

-----------------------------------------------------------------------------

WriteNext(w) ==
  \/ \E q \in Request : Validate(w, q)
  \/ \E t \in Tx : CommitCreate(w, t)
  \/ CommitUpdate(w) \/ CommitDelete(w) \/ CommitOpening(w)
  \/ Abandon(w)

ReadNext(r) ==
  \/ ReadLedger(r) \/ ReadOpening(r) \/ Load(r)
  \/ (\E t \in Tx : Save(r, t)) \/ SkipSave(r)

Next == (\E w \in Writer : WriteNext(w)) \/ (\E r \in Reader : ReadNext(r))

Spec == Init /\ [][Next]_vars

-----------------------------------------------------------------------------
(* Properties *)

\* A checkpoint in the table is one of the present ledger: it ends at the last
\* transaction and carries the present opening balance, so no mutation that was
\* committed before it is missing from it.
CheckpointCurrent ==
  checkpoint # NoCheckpoint =>
    IsLast(ledger, checkpoint.last) /\ checkpoint.stamp = opening.stamp

\* A checkpoint records the full state of the calculation on the present ledger, with
\* the cost rounded to its column, whatever was created, edited and deleted while the
\* request computed it.  What the comparison under the lock cannot see is a ledger that
\* was changed after it was read and brought back before the save.
CheckpointFaithful ==
  checkpoint # NoCheckpoint /\ ~restored =>
    checkpoint.state = Stored(Replay(ledger, opening))

\* What a later request resumes from is neither out of date nor wrong.
CheckpointSound == CheckpointCurrent /\ CheckpointFaithful

\* The calculators agree with each other, with the holdings and with a reference that
\* counts units, on every ledger that is reached and on its continuations: resuming from
\* a checkpoint's state is exact, whatever the strategy; lots leave in their order and at
\* their cost; no cost appears or disappears.
CalculatorsSound ==
  (\A w \in Writer : write[w] = NoRequest) /\ (\A r \in Reader : read[r] = "idle") =>
    \A entry \in Further :
      LET txs     == Append(Suffix(ledger, 0), entry)
          balance == opening.balance
      IN /\ \A s \in Strategies :
              /\ Resumable(s, balance, txs)
              /\ QuantityAgrees(s, balance, txs)
              /\ UnitsAreRight(s, balance, txs)
         /\ ProfitAgrees(balance, txs)

\* The request has read transactions after the one that is the last by now: they were
\* deleted or moved since.
Overtaken(r) ==
  \E t \in Live(seen[r]), last \in Live(seen[r]) :
    IsLast(ledger, last) /\ Before(seen[r], last, t)

\* A request answers with the position of what it read, or with that of the present
\* ledger with its cost as the column holds it, also when rows were edited and deleted
\* under it.  Only one that was overtaken continues a checkpoint with transactions that
\* are no longer there.
AnswersFromOneLedger ==
  [][\A r \in Reader :
       read[r] = "load" /\ read'[r] # "load" /\ ~NoGroup(r) /\ ~restored /\ ~Overtaken(r) =>
       answer'[r] \in {Replay(seen[r], seenOpening[r]), Stored(Replay(ledger, opening))}]_vars

\* A disposal is covered when it is committed.  The comment in
\* CreatePortfolioTransactionUseCase: a position can only leave the portfolio if the
\* ledger says it is there.
CoveredAtCommit ==
  [][\A w \in Writer, t \in Tx : CommitCreate(w, t) => ValidCreate(write[w])]_vars
=============================================================================
