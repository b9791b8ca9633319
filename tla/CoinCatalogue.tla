---------------------------- MODULE CoinCatalogue ----------------------------
(***************************************************************************)
(* The coin catalogue of the price alerts (features/coin-tracker): once a  *)
(* day every replica asks for a lock, and the one that gets it reads the   *)
(* coin list and replaces the active coins in one transaction.             *)
(*                                                                         *)
(* The lock lives for half an hour whatever its owner does, and the coin   *)
(* list is asked for without a deadline, so a second run may begin beside  *)
(* the first; then only the row locks of READ COMMITTED order the two.     *)
(***************************************************************************)
EXTENDS Integers, FiniteSets

CONSTANTS Replica,
          Coin,
          Report   \* the lists the provider may answer with, without duplicates
                   \* and records it cannot use

NoReplica == "none"
ASSUME CoinAssumption ==
  /\ Report \subseteq SUBSET Coin
  /\ NoReplica \notin Replica

Idle == [at |-> "idle", list |-> {}, seen |-> {}, locked |-> {}, met |-> FALSE]

VARIABLES lock,    \* who holds it
          run,     \* per replica: what its run is at, the list, and of its
                   \* transaction the rows its first statement saw active and
                   \* the rows it has locked; history: another transaction
                   \* was open meanwhile
          active,  \* the active coins, as committed
          stray,   \* history: replicas whose lock ran out under them
          shown    \* history: the list of the last commit, and whether its
                   \* transaction had met another

coinVars == <<lock, run, active, stray, shown>>

CoinInit ==
  /\ lock = NoReplica
  /\ run = [r \in Replica |-> Idle]
  /\ active = {}
  /\ stray = {}
  /\ shown = [list |-> {}, mixed |-> FALSE]

Running(r)  == run[r].at # "idle"
Open(r)     == run[r].at \in {"deactivating", "deactivated", "upserted"}
Others(r)   == Replica \ {r}
InWay(r, coins) == \E o \in Others(r) : run[o].locked \cap coins # {}

(***************************************************************************)
(* The schedule and its lock.                                              *)
(***************************************************************************)

\* Without the lock the run of this day is skipped.
AcquireAnyway(r) ==
  /\ ~Running(r)
  /\ lock' = r
  /\ run' = [run EXCEPT ![r].at = "fetching"]
  /\ stray' = stray \ {r}
  /\ UNCHANGED <<active, shown>>
Acquire(r) ==
  /\ ~Running(r)
  /\ lock = NoReplica
  /\ lock' = r
  /\ run' = [run EXCEPT ![r].at = "fetching"]
  /\ stray' = stray \ {r}
  /\ UNCHANGED <<active, shown>>

\* Released by whoever set it only; a release that fails leaves the lock to run out.
Leave(r, released) ==
  /\ run' = [run EXCEPT ![r] = Idle]
  /\ stray' = stray \ {r}
  /\ lock' = IF released /\ lock = r THEN NoReplica ELSE lock

LockRunsOut ==
  /\ lock # NoReplica
  /\ lock' = NoReplica
  /\ stray' = IF Running(lock) THEN stray \cup {lock} ELSE stray
  /\ UNCHANGED <<run, active, shown>>

\* A process that dies takes its transaction with it and leaves its lock behind.
Crash(r) ==
  /\ Running(r)
  /\ Leave(r, FALSE)
  /\ UNCHANGED <<active, shown>>

(***************************************************************************)
(* SyncCoinsUseCase.execute.                                               *)
(***************************************************************************)

GetCoins(r, list) ==
  /\ run[r].at = "fetching" /\ list # {}
  /\ run' = [run EXCEPT ![r].at = "begun", ![r].list = list]
  /\ UNCHANGED <<lock, active, stray, shown>>

\* No answer, an empty list, or a transaction that fails: nothing is written.
Fail(r) ==
  /\ Running(r)
  /\ \E released \in BOOLEAN : Leave(r, released)
  /\ UNCHANGED <<active, shown>>

\* UPDATE ... WHERE "isActive": the rows active when the statement began.
StartDeactivating(r) ==
  /\ run[r].at = "begun"
  /\ run' = [o \in Replica |->
       IF o = r THEN [run[r] EXCEPT !.at = "deactivating", !.seen = active,
                                    !.met = \E p \in Others(r) : Open(p)]
                ELSE [run[o] EXCEPT !.met = Open(o)]]
  /\ UNCHANGED <<lock, active, stray, shown>>

\* It waits for rows that another transaction has written, and looks at them again.
DeactivateAll(r) ==
  /\ run[r].at = "deactivating"
  /\ ~InWay(r, run[r].seen)
  /\ run' = [run EXCEPT ![r].at = "deactivated", ![r].locked = run[r].seen \cap active,
                        ![r].seen = @ \cap active]
  /\ UNCHANGED <<lock, active, stray, shown>>

UpsertMany(r) ==
  /\ run[r].at = "deactivated"
  /\ ~InWay(r, run[r].list)
  /\ run' = [run EXCEPT ![r].at = "upserted", ![r].locked = @ \cup run[r].list]
  /\ UNCHANGED <<lock, active, stray, shown>>

Commit(r) ==
  /\ run[r].at = "upserted"
  /\ active' = (active \ run[r].seen) \cup run[r].list
  /\ shown' = [list |-> run[r].list, mixed |-> run[r].met]
  /\ run' = [run EXCEPT ![r] = [Idle EXCEPT !.at = "committed"]]
  /\ UNCHANGED <<lock, stray>>

Release(r) ==
  /\ run[r].at = "committed"
  /\ \E released \in BOOLEAN : Leave(r, released)
  /\ UNCHANGED <<active, shown>>

CoinNext ==
  \/ \E r \in Replica : \/ Acquire(r) \/ \E list \in Report : GetCoins(r, list)
                        \/ Fail(r) \/ StartDeactivating(r) \/ DeactivateAll(r) \/ UpsertMany(r)
                        \/ Commit(r) \/ Release(r) \/ Crash(r)
  \/ LockRunsOut

CoinSpec == CoinInit /\ [][CoinNext]_coinVars
--------------------------------------------------------------------------------
(***************************************************************************)
(* Properties.                                                             *)
(***************************************************************************)

\* Two transactions never hold the same row.
CoinTypeOK ==
  /\ lock \in Replica \cup {NoReplica}
  /\ active \subseteq Coin /\ stray \subseteq Replica
  /\ \A r \in Replica : /\ run[r].list \subseteq Coin /\ run[r].seen \subseteq Coin
                        /\ ~InWay(r, run[r].locked)

\* Two transactions are open at once only when the lock has run out under one
\* of them, and but for that what readers find active is one list the provider
\* has given: never the catalogue between the two statements, never two lists
\* mixed.  The next run that meets no other heals a mixture.
ActiveIsOneReport ==
  /\ \A r \in Replica : \A o \in Others(r) : Open(r) /\ Open(o) => {r, o} \cap stray # {}
  /\ ~shown.mixed => active = shown.list
================================================================================
