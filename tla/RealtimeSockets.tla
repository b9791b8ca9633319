---------------------------- MODULE RealtimeSockets ----------------------------
(***************************************************************************)
(* The sockets of one account beside its sessions: RealtimeGateway's       *)
(* handshake and RealtimeService's disconnects, composed with every        *)
(* revocation of LoginSessions.                                            *)
(*                                                                         *)
(* A handshake validates the session and then joins two rooms, one await   *)
(* after the other.  A disconnect reaches only the sockets that are in the *)
(* room at that moment.  revokeAll, and the terminateOthers of a password  *)
(* change, run inside the caller's transaction: their disconnect goes out  *)
(* before the revocation is committed, while readers still see the old     *)
(* rows and writers of those rows wait.                                    *)
(*                                                                         *)
(* Nothing disconnects a socket when its session expires.                  *)
(*                                                                         *)
(* One socket per session is followed; a session's next socket is a new    *)
(* handshake.                                                              *)
(***************************************************************************)
EXTENDS LoginSessions

CONSTANT MaxSockets  \* bound: how many sockets are open at a time

ASSUME SocketAssumption == MaxSockets \in Nat

VARIABLES
  socket,  \* stage of each session's socket
  tx,      \* the account transaction that has sent its disconnect, if any
  by,      \* the session that asked for it: spared by the disconnect
  missed,  \* history: sockets in their handshake while their session was revoked
  evicted  \* history: sockets of sessions evicted by another login

socketVars == <<socket, tx, by, missed, evicted>>
allVars    == <<vars, socketVars>>

SocketStage == {"none", "validated", "user", "joined"}

SocketTypeOK ==
  /\ TypeOK
  /\ socket \in [Login -> SocketStage]
  /\ tx \in {"none", "suspend", "delete", "change"}
  /\ by \subseteq Login
  /\ missed \subseteq Login
  /\ evicted \subseteq Login

SocketInit ==
  /\ Init
  /\ socket = [s \in Login |-> "none"]
  /\ tx = "none"
  /\ by = {} /\ missed = {} /\ evicted = {}

-----------------------------------------------------------------------------
(* RealtimeGateway.handleConnection *)

Stage(s, stage) == socket' = [socket EXCEPT ![s] = stage]

\* The session is validated against committed rows, also while a transaction
\* that ends it is open.
Handshake(s) ==
  /\ socket[s] = "none"
  /\ Cardinality({t \in Login : socket[t] # "none"}) < MaxSockets
  /\ Accepted(s)
  /\ Stage(s, "validated")
  /\ missed' = IF tx # "none" /\ s \notin by THEN missed \cup {s} ELSE missed
  /\ UNCHANGED <<vars, tx, by, evicted>>

JoinUserRoom(s) ==
  /\ socket[s] = "validated"
  /\ Stage(s, "user")
  /\ UNCHANGED <<vars, tx, by, missed, evicted>>

JoinSessionRoom(s) ==
  /\ socket[s] = "user"
  /\ Stage(s, "joined")
  /\ UNCHANGED <<vars, tx, by, missed, evicted>>

Close(S) ==
  /\ socket' = [s \in Login |-> IF s \in S THEN "none" ELSE socket[s]]
  /\ evicted' = evicted \ S

\* The client goes away.
Leave(s) ==
  /\ socket[s] # "none"
  /\ Close({s})
  /\ missed' = missed \ {s}
  /\ UNCHANGED <<vars, tx, by>>

-----------------------------------------------------------------------------
(* RealtimeService *)

\* Sockets that are on their way into the rooms.
Entering == {s \in Login : socket[s] \in {"validated", "user"}}

\* disconnectSession(s).
DisconnectSession(s) ==
  LET reached == {t \in {s} : socket[t] = "joined"}
  IN /\ Close(reached)
     /\ missed' = (missed \ reached) \cup ({s} \cap Entering)

InUserRoom == {s \in Login : socket[s] \in {"user", "joined"}}

ReachedOnlyExcepted(except) ==
  {s \in InUserRoom : s \in except /\ socket[s] = "joined"}

\* The user's room without the room of the excepted session.
Reached(except) ==
  {s \in InUserRoom : ~(s \in except /\ socket[s] = "joined")}

\* disconnectUser is the case without an exception.
DisconnectUserExcept(except) ==
  /\ Close(Reached(except))
  /\ missed' = (missed \ Reached(except)) \cup ((Entering \ InUserRoom) \ except)

-----------------------------------------------------------------------------
(* Revocations that commit first and disconnect afterwards *)

LogoutDisconnects(s) ==
  /\ tx = "none"
  /\ Logout(s)
  /\ DisconnectSession(s)
  /\ UNCHANGED <<tx, by>>

ReuseDisconnects(s) ==
  /\ tx = "none"
  /\ RevokesReused(s)
  /\ DisconnectSession(s)
  /\ UNCHANGED <<tx, by>>

RevokeOwnedDisconnects(s, target) ==
  /\ tx = "none"
  /\ RevokeOwned(s, target)
  /\ DisconnectSession(target)
  /\ UNCHANGED <<tx, by>>

TerminateOthersDisconnects(s) ==
  /\ tx = "none"
  /\ TerminateOthers(s)
  /\ DisconnectUserExcept({s})
  /\ UNCHANGED <<tx, by>>

\* The issue transaction revokes what it evicts and disconnects nobody.  It is
\* never open together with a transaction of the account: both hold the user row.
CommitEvicts(l) ==
  /\ tx = "none"
  /\ Commit(l)
  /\ evicted' = evicted \cup {s \in chosen : socket[s] # "none"}
  /\ UNCHANGED <<socket, tx, by, missed>>

-----------------------------------------------------------------------------
(* Transactions that disconnect before they commit *)

Begin(kind, S) ==
  /\ tx = "none" /\ ~UserLocked
  /\ tx' = kind /\ by' = S
  /\ DisconnectUserExcept(S)
  /\ UNCHANGED vars

BeginSuspend ==
  /\ user.status = "ACTIVATE" /\ ~user.deleted /\ Changes < MaxChanges
  /\ Begin("suspend", {})
BeginDelete  == ~user.deleted /\ Begin("delete", {})
BeginChange(s) ==
  /\ s \in request
  /\ Changes < MaxChanges
  /\ Begin("change", {s})

EndTx == tx' = "none" /\ by' = {} /\ UNCHANGED <<socket, missed, evicted>>

CommitSuspend   == tx = "suspend" /\ Suspend /\ EndTx
CommitDelete    == tx = "delete" /\ Delete /\ EndTx
CommitChange(s) == tx = "change" /\ s \in by /\ ChangePassword(s) /\ EndTx

\* The sockets stay closed when the transaction rolls back.
Rollback       == tx \in {"suspend", "delete"} /\ UNCHANGED vars /\ EndTx
RollbackChange(s) == tx = "change" /\ s \in by /\ Refuse(s) /\ EndTx

-----------------------------------------------------------------------------
(* Steps of LoginSessions without a disconnect *)

\* Reads, and writes of other rows.
Free ==
  \/ \E l \in Login : (\E p \in Password : CheckCredentials(l, p)) \/ Select(l) \/ ResetLimit(l)
  \/ \E s \in Login : Authenticate(s) \/ (s \notin by /\ Refuse(s)) \/ RefreshReads(s)
                      \/ (s \in by /\ Rotates(s))
  \/ Tick

\* Writes, and locking reads, of the rows an open transaction has locked.
Waiting ==
  \/ \E l \in Login : Migrate(l) \/ Count(l) \/ Save(l)
  \/ \E s \in Login : Rotates(s)
  \/ Unsuspend

QuietStep ==
  /\ Free \/ (tx = "none" /\ Waiting)
  /\ UNCHANGED socketVars

-----------------------------------------------------------------------------

SocketStep(s) == Handshake(s) \/ JoinUserRoom(s) \/ JoinSessionRoom(s) \/ Leave(s)

Revocation(s) ==
  \/ LogoutDisconnects(s) \/ ReuseDisconnects(s)
  \/ \E target \in Login : RevokeOwnedDisconnects(s, target)
  \/ TerminateOthersDisconnects(s)
  \/ CommitEvicts(s)

Transaction ==
  \/ BeginSuspend \/ CommitSuspend
  \/ BeginDelete \/ CommitDelete
  \/ Rollback
  \/ \E s \in Login : BeginChange(s) \/ CommitChange(s) \/ RollbackChange(s)

SocketNext ==
  \/ QuietStep
  \/ \E s \in Login : SocketStep(s) \/ Revocation(s)
  \/ Transaction

SocketSpec == SocketInit /\ [][SocketNext]_allVars

-----------------------------------------------------------------------------
(* Properties *)

\* Nothing has ended the session but, possibly, its expiry.
Standing(s) == s \in answered \cap Unrevoked /\ user.status = "ACTIVATE" /\ ~user.deleted

\* A socket outlives the revocation of its session, by logout, from another
\* device, or with the password or the account, only if its handshake overlapped
\* the revocation, or if the session was evicted.  Expiry ends no socket.
SocketsEndWithSession ==
  \A s \in Login : socket[s] = "joined" => Standing(s) \/ s \in missed \cup evicted
=============================================================================
