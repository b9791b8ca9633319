-------------------------------- MODULE Wallets --------------------------------
(***************************************************************************)
(* A user's wallet (features/wallets): its addresses, at most one per      *)
(* network, are replaced by one transaction of several statements, and it  *)
(* is deleted only while no ledger transaction names it, which is counted  *)
(* first and left to the foreign key in the end.                           *)
(*                                                                         *)
(* Transactions are READ COMMITTED: a statement sees what is committed     *)
(* when it runs, waits for a row that another transaction has written, and *)
(* then looks at it again.                                                 *)
(***************************************************************************)
EXTENDS Integers, FiniteSets

CONSTANTS Client,  \* requests that may be running at once
          Network,
          AddressSet, \* the sets of addresses that requests send: one or Blank
                   \* per network
          MaxNamed \* bound: ledger transactions that name the wallet

Blank   == "none"

ASSUME WalletAssumption ==
  /\ \A set \in AddressSet : set = [n \in Network |-> set[n]]
  /\ IsFiniteSet(Client)
  /\ MaxNamed \in Nat

\* A row, no row, and a network that a transaction has not written.
Row(id, where) == [id |-> id, address |-> where]
Vacant     == Row(0, Blank)
Untouched  == Row(-1, Blank)
NoRows     == [n \in Network |-> Vacant]

NoUpdate == [at |-> "idle", rename |-> FALSE, next |-> [n \in Network |-> Blank],
             found |-> NoRows, todo |-> {}, wrote |-> [n \in Network |-> Untouched],
             met |-> FALSE]

VARIABLES
  wallet,  \* "none", "stored" or "deleted"
  address, \* the committed row of a network
  named,   \* how many ledger transactions name the wallet
  request, \* what a request is at; of an update, the set it was sent, the rows
           \* its transaction has found, the networks still to write and what
           \* it wrote; history: another has committed since it looked
  kept     \* history: the set of the last commit, and whether it had met another

walletVars == <<wallet, address, named, request, kept>>

AsSet(rows) == [n \in Network |-> rows[n].address]

WalletInit ==
  /\ wallet = "none"
  /\ address = NoRows
  /\ named = 0
  /\ request = [c \in Client |-> NoUpdate]
  /\ kept = [set |-> AsSet(NoRows), mixed |-> FALSE]

CreateWallet(set) ==
  /\ wallet = "none"
  /\ wallet' = "stored"
  /\ address' = [n \in Network |-> IF set[n] = Blank THEN Vacant ELSE Row(1, set[n])]
  /\ kept' = [set |-> set, mixed |-> FALSE]
  /\ UNCHANGED <<named, request>>

(***************************************************************************)
(* WalletRepository.update.                                                *)
(***************************************************************************)

InUpdate(c)        == request[c].at \in {"found", "writing"}
Writes(c, n)       == InUpdate(c) /\ request[c].wrote[n] # Untouched
Waits(c, networks) == \E d \in Client \ {c} : \E n \in networks : Writes(d, n)

\* The wallet is the caller's.
BeginUpdate(c, set, rename) ==
  /\ request[c].at = "idle" /\ wallet = "stored"
  /\ request' = [request EXCEPT ![c].at = "owned", ![c].next = set, ![c].rename = rename]
  /\ UNCHANGED <<wallet, address, named, kept>>

\* A new name is written first, which makes others with a new name wait.
FindExisting(c) ==
  /\ request[c].at = "owned"
  /\ request[c].rename /\ wallet = "stored" => \A d \in Client : ~(InUpdate(d) /\ request[d].rename)
  /\ request' = [request EXCEPT ![c].at = "found", ![c].found = address]
  /\ UNCHANGED <<wallet, address, named, kept>>

Listed(c, n)  == request[c].next[n] # Blank
Existed(c, n) == request[c].found[n] # Vacant
RemovesNone(c) == {}
Removed(c)    == {n \in Network : Existed(c, n) /\ ~Listed(c, n)}
Stands(c, n)  == address[n].id = request[c].found[n].id

DeleteRemoved(c) ==
  /\ request[c].at = "found"
  /\ ~Waits(c, Removed(c))
  /\ LET gone == {n \in Removed(c) : Stands(c, n)} IN
     request' = [request EXCEPT
       ![c].at = "writing",
       ![c].wrote = [n \in Network |-> IF n \in gone THEN Vacant ELSE Untouched],
       ![c].todo = {n \in Network : Listed(c, n) /\ request[c].next[n] # request[c].found[n].address}]
  /\ UNCHANGED <<wallet, address, named, kept>>

\* An id that no row of the network has, and none that was found had.
FreshId(n) ==
  LET known == {address[n].id} \cup {request[c].found[n].id : c \in Client}
  IN CHOOSE id \in 1..Cardinality(known) + 1 : id \notin known

Wrote(c, n, row) ==
  /\ request' = [request EXCEPT ![c].wrote[n] = row, ![c].todo = @ \ {n}]
  /\ UNCHANGED <<wallet, address, named, kept>>

Turn(c, n) == request[c].at = "writing" /\ n \in request[c].todo /\ ~Waits(c, {n})

\* A row of that network, or no wallet, and the statement fails.
InsertAddress(c, n) ==
  /\ Turn(c, n) /\ ~Existed(c, n)
  /\ address[n] = Vacant /\ wallet = "stored"
  /\ Wrote(c, n, Row(FreshId(n), request[c].next[n]))

\* By the id that was found; without that row, nothing is updated.
UpdateAddress(c, n) ==
  /\ Turn(c, n) /\ Existed(c, n)
  /\ Wrote(c, n, IF Stands(c, n) THEN Row(address[n].id, request[c].next[n]) ELSE Untouched)

Ended(c) == [request EXCEPT ![c] = NoUpdate]

StoreWallet(c) ==
  /\ request[c].at = "writing" /\ request[c].todo = {}
  /\ address' = [n \in Network |-> IF Writes(c, n) THEN request[c].wrote[n] ELSE address[n]]
  /\ kept' = [set |-> request[c].next, mixed |-> request[c].met]
  /\ request' = [d \in Client |-> IF d # c /\ InUpdate(d) THEN [request[d] EXCEPT !.met = TRUE]
                                                         ELSE Ended(c)[d]]
  /\ UNCHANGED <<wallet, named>>

\* A statement fails, as a deadlock's victim or otherwise: all of it is undone.
RollBack(c) ==
  /\ InUpdate(c)
  /\ request' = Ended(c)
  /\ UNCHANGED <<wallet, address, named, kept>>

(***************************************************************************)
(* DeleteWalletUseCase, and the ledger.                                    *)
(***************************************************************************)

\* One that is named is refused.
CountReferences(c) ==
  /\ request[c].at = "idle" /\ wallet = "stored"
  /\ named = 0
  /\ request' = [request EXCEPT ![c].at = "counted"]
  /\ UNCHANGED <<wallet, address, named, kept>>

\* ON DELETE NO ACTION.
Deletable == named = 0

DeleteWallet(c) ==
  /\ request[c].at = "counted"
  /\ \A d \in Client : InUpdate(d) => ~request[d].rename /\ \A n \in Network : ~Writes(d, n)
  /\ IF wallet = "stored" /\ Deletable
       THEN wallet' = "deleted" /\ address' = NoRows
       ELSE UNCHANGED <<wallet, address>>
  /\ request' = Ended(c)
  /\ UNCHANGED <<named, kept>>

\* A transfer to the wallet, which is looked up first.
FindWallet(c) ==
  /\ request[c].at = "idle" /\ wallet = "stored"
  /\ request' = [request EXCEPT ![c].at = "naming"]
  /\ UNCHANGED <<wallet, address, named, kept>>

RecordTransfer(c) ==
  /\ request[c].at = "naming"
  /\ named < MaxNamed
  /\ named' = IF wallet = "stored" THEN named + 1 ELSE named
  /\ request' = Ended(c)
  /\ UNCHANGED <<wallet, address, kept>>

DeleteTransfer ==
  /\ named > 0
  /\ named' = named - 1
  /\ UNCHANGED <<wallet, address, request, kept>>

WalletNext ==
  \/ \E set \in AddressSet : CreateWallet(set)
  \/ \E c \in Client :
       \/ \E set \in AddressSet, rename \in BOOLEAN : BeginUpdate(c, set, rename)
       \/ FindExisting(c) \/ DeleteRemoved(c) \/ StoreWallet(c) \/ RollBack(c)
       \/ \E n \in Network : InsertAddress(c, n) \/ UpdateAddress(c, n)
       \/ CountReferences(c) \/ DeleteWallet(c) \/ FindWallet(c) \/ RecordTransfer(c)
  \/ DeleteTransfer

WalletSpec == WalletInit /\ [][WalletNext]_walletVars
--------------------------------------------------------------------------------
(***************************************************************************)
(* Properties.                                                             *)
(***************************************************************************)

\* Two transactions have never written the same network, and those that
\* change the name of a wallet that is there have run one after the other.
WalletTypeOK ==
  /\ wallet \in {"none", "stored", "deleted"}
  /\ named \in 0..MaxNamed
  /\ \A c \in Client : /\ request[c].todo \subseteq Network
                       /\ ~Waits(c, {n \in Network : Writes(c, n)})
                       /\ InUpdate(c) /\ request[c].rename /\ wallet = "stored" =>
                            \A d \in Client \ {c} : ~(InUpdate(d) /\ request[d].rename)

\* A wallet that the ledger names is not deleted under it, whatever was counted
\* before; and its addresses are one set a request has asked for, whole, unless
\* the last update looked before another one committed: the next update that
\* meets no other heals that ("the write is a reconciliation").
WalletsSound ==
  /\ named > 0 => wallet = "stored"
  /\ wallet = "stored" /\ ~kept.mixed => AsSet(address) = kept.set
================================================================================
