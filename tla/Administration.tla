---------------------------- MODULE Administration ----------------------------
(***************************************************************************)
(* Administrators: invitations and their acceptance, direct grants, named  *)
(* roles, and the evaluation of a permission (features/authorization).     *)
(*                                                                         *)
(* A request is a chain of awaits over tables that other requests change   *)
(* in between.  The use cases check what they have read and then write     *)
(* unconditionally; what holds over the interleavings is held by indexes   *)
(* and foreign keys.  Every managing route needs a permission that is      *)
(* reserved to the owner, so its requests are the owner's; acceptance is   *)
(* public and the token stands for the invitation's row.                   *)
(*                                                                         *)
(* Identifiers are numbers and 0 is none.                                  *)
(***************************************************************************)
EXTENDS Integers, FiniteSets

CONSTANTS Req,            \* requests that may be under way at once
          Permission,
          Reserved,       \* ownerOnly permissions of PERMISSION_CATALOG
          Seeds,          \* bound: the states of the tables to start from
          MaxAccounts,    \* bound: accounts
          MaxInvitations, \* bound: invitations
          MaxRoles,       \* bound: custom roles
          MaxEmails,      \* bound: addresses
          MaxRequests     \* bound: requests that are started

None       == 0
Email      == 1..MaxEmails
Account    == 1..MaxAccounts
Invitation == 1..MaxInvitations
Role       == 1..MaxRoles
Delegable  == Permission \ Reserved
Source     == {"direct", "roles"}

\* A row of user: the tier, the address, whether it may sign in, and
\* whether it is soft-deleted.
AccountRow == [tier : {"none", "USER", "ADMIN"}, email : Email \cup {None},
               active : BOOLEAN, deleted : BOOLEAN]
NoAccount  == [tier |-> "none", email |-> None, active |-> FALSE, deleted |-> FALSE]

\* A row of admin_invitation; account = acceptedUserId.
InvitationRow == [email : Email \cup {None}, permissions : SUBSET Delegable,
                  account : Account \cup {None}, revoked : BOOLEAN, expired : BOOLEAN]
NoInvitation  == [email |-> None, permissions |-> {}, account |-> None,
                  revoked |-> FALSE, expired |-> FALSE]

RoleState == {"unused", "present", "deleted"}

Stage == {"idle", "invite.find", "invite.save", "accept", "revoke", "grant", "ungrant",
          "delete", "activate", "deactivate", "assign", "unassign", "role.count",
          "role.delete", "set.delete", "set.blocked", "set.insert", "check", "allowed"}

\* What a request carries over its awaits; a stage names what it works on.
Request ==
  {q \in [at : Stage, email : Email \cup {None}, account : Account \cup {None},
          invitation : Invitation \cup {None}, role : Role \cup {None},
          permissions : SUBSET Delegable, found : SUBSET Permission,
          waits : SUBSET Permission, stale : SUBSET Invitation, left : SUBSET Source] :
     /\ q.at \in {"set.delete", "set.blocked", "set.insert", "role.count", "role.delete", "assign"}
          => q.role \in Role
     /\ q.at = "accept" => q.invitation \in Invitation /\ q.email \in Email
     /\ q.at \in {"invite.find", "invite.save"} => q.email \in Email
     /\ q.at = "check" => q.account \in Account}
Idle == [at |-> "idle", email |-> None, account |-> None, invitation |-> None,
         role |-> None, permissions |-> {}, found |-> {}, waits |-> {}, stale |-> {}, left |-> {}]

ASSUME AdministrationAssumption ==
  /\ MaxAccounts \in Nat /\ MaxInvitations \in Nat /\ MaxRoles \in Nat
  /\ MaxEmails \in Nat /\ MaxRequests \in Nat
  /\ Reserved \subseteq Permission
  /\ Seeds \subseteq [account : [Account -> AccountRow], invitation : [Invitation -> InvitationRow],
                      role : [Role -> RoleState], contents : [Role -> SUBSET Delegable]]

\* A seed is a state the tables can be in: an address has one account, an
\* administrator has his invitation, an address has one outstanding
\* invitation, and only a role that exists has permissions.
ASSUME SeedAssumption ==
  \A s \in Seeds :
    /\ \A a \in Account : s.account[a].tier = "none" <=> s.account[a].email = None
    /\ \A a, b \in Account :
         s.account[a].email # None /\ s.account[a].email = s.account[b].email => a = b
    /\ \A a \in Account : s.account[a].tier = "ADMIN" =>
         \E i \in Invitation :
           s.invitation[i].account = a /\ s.invitation[i].email = s.account[a].email
    /\ \A i, j \in Invitation :
         /\ s.invitation[i].email # None /\ s.invitation[i].email = s.invitation[j].email
         /\ \A k \in {i, j} : s.invitation[k].account = None /\ ~s.invitation[k].revoked
         => i = j
    /\ \A x \in Role : s.role[x] # "present" => s.contents[x] = {}

VARIABLES
  account,    \* user
  invitation, \* admin_invitation
  grant,      \* admin_permission, per account
  role,       \* role: each identifier is used once
  contents,   \* role_permission, per role
  holds,      \* user_role_assignment, per account
  req,        \* the requests under way
  begun,      \* requests started so far
  overlap,    \* history: what replacements of the same role committed since
              \* this one's transaction began
  held        \* history: what the account has held at some moment since its
              \* check began

tables == <<account, invitation, grant, role, contents, holds>>
vars == <<tables, req, begun, overlap, held>>

TypeOK ==
  /\ account \in [Account -> AccountRow]
  /\ invitation \in [Invitation -> InvitationRow]
  /\ grant \in [Account -> SUBSET Delegable]
  /\ role \in [Role -> RoleState]
  /\ contents \in [Role -> SUBSET Delegable]
  /\ holds \in [Account -> SUBSET Role]
  /\ req \in [Req -> Request]
  /\ begun \in 0..MaxRequests
  /\ overlap \in [Req -> SUBSET Permission]
  /\ held \in [Req -> SUBSET Permission]

Init ==
  /\ \E seed \in Seeds :
       /\ account = seed.account
       /\ invitation = seed.invitation
       /\ role = seed.role
       /\ contents = seed.contents
  /\ grant = [a \in Account |-> {}]
  /\ holds = [a \in Account |-> {}]
  /\ req = [r \in Req |-> Idle]
  /\ begun = 0
  /\ overlap = [r \in Req |-> {}]
  /\ held = [r \in Req |-> {}]

(***************************************************************************)
(* The history follows every step.                                         *)
(***************************************************************************)

Replacing(q) == q.at \in {"set.blocked", "set.insert"}

Observe ==
  /\ overlap' = [r \in Req |->
       IF ~Replacing(req'[r]) THEN {}
       ELSE overlap[r] \cup UNION {req[o].permissions : o \in {p \in Req \ {r} :
              req[p].at = "set.insert" /\ req'[p].at = "idle" /\ req[p].role = req'[r].role}}]
  /\ held' = [r \in Req |->
       IF req'[r].at \notin {"check", "allowed"} THEN {}
       ELSE LET a == req'[r].account IN
            req'[r].permissions \cap (held[r] \cup grant'[a] \cup UNION {contents'[x] : x \in holds'[a]})]

(***************************************************************************)
(* Requests.                                                               *)
(***************************************************************************)

Start(r, first) ==
  /\ req[r].at = "idle" /\ begun < MaxRequests
  /\ begun' = begun + 1
  /\ req' = [req EXCEPT ![r] = first]
  /\ Observe

Goto(r, next) ==
  /\ begun' = begun
  /\ req' = [req EXCEPT ![r] = next]
  /\ Observe

Finish(r) == Goto(r, Idle)

\* assertCanDelegate for the owner: only the reservation can refuse.
AnyPermission == SUBSET Permission
Delegated     == SUBSET Delegable

(***************************************************************************)
(* The tables.                                                             *)
(***************************************************************************)

\* Soft-deleted rows are invisible to findUserForAdmin.
Live(a)  == account[a].tier # "none" /\ ~account[a].deleted
Admin(a) == Live(a) /\ account[a].tier = "ADMIN"

\* The unique e-mail, which soft-deleted rows keep.
Unregistered(e)     == \A a \in Account : account[a].email # e
UnregisteredLive(e) == \A a \in Account : Live(a) => account[a].email # e

Free(e) == Unregistered(e)

Issued(i)      == invitation[i].email # None
Outstanding(i) == Issued(i) /\ invitation[i].account = None /\ ~invitation[i].revoked

\* uq_admin_invitation_pending_email, once the stale ones are revoked.
NoIndex(e, stale)         == TRUE
NoneOutstanding(e, stale) == \A i \in Invitation \ stale : Outstanding(i) => invitation[i].email # e

NextAccount(a) ==
  account[a] = NoAccount /\ \A b \in Account : account[b] = NoAccount => a <= b
NextInvitation(i) == ~Issued(i) /\ \A j \in Invitation : ~Issued(j) => i <= j

Present(x) == role[x] = "present"

\* heldPermissions: both sources, as the two queries read them now.
Direct(a)    == grant[a]
ViaRoles(a)  == UNION {contents[x] : x \in holds[a]}
Effective(a) == Direct(a) \cup ViaRoles(a)

(***************************************************************************)
(* Invitations.                                                            *)
(***************************************************************************)

InviteLookup(r, e, P) ==
  /\ P \in Delegated
  /\ UnregisteredLive(e)
  /\ UNCHANGED tables
  /\ Start(r, [Idle EXCEPT !.at = "invite.find", !.email = e, !.permissions = P])

\* findPendingByEmail runs on its own connection, not in the transaction.
InviteFind(r) ==
  /\ req[r].at = "invite.find"
  /\ UNCHANGED tables
  /\ Goto(r, [req[r] EXCEPT !.at = "invite.save",
       !.stale = {i \in Invitation : Outstanding(i) /\ invitation[i].email = req[r].email}])

InviteSave(r) ==
  /\ req[r].at = "invite.save"
  /\ IF NoneOutstanding(req[r].email, req[r].stale)
       THEN \E i \in Invitation :
              /\ NextInvitation(i)
              /\ invitation' = [j \in Invitation |->
                   IF j = i THEN [NoInvitation EXCEPT !.email = req[r].email,
                                                      !.permissions = req[r].permissions]
                   ELSE [invitation[j] EXCEPT !.revoked = @ \/ j \in req[r].stale]]
       ELSE UNCHANGED invitation
  /\ UNCHANGED <<account, grant, role, contents, holds>>
  /\ Finish(r)

\* findByTokenHash and assertAcceptable; the row as read goes on.
AcceptCheck(r, i) ==
  /\ Outstanding(i) /\ ~invitation[i].expired
  /\ UNCHANGED tables
  /\ Start(r, [Idle EXCEPT !.at = "accept", !.invitation = i,
                           !.email = invitation[i].email,
                           !.permissions = invitation[i].permissions])

\* The transaction after the password has been hashed.
AcceptCommit(r) ==
  LET i == req[r].invitation IN
  /\ req[r].at = "accept"
  /\ Free(req[r].email)
  /\ \E a \in Account :
       /\ NextAccount(a)
       /\ account' = [account EXCEPT ![a] = [tier |-> "ADMIN", email |-> req[r].email,
                                             active |-> TRUE, deleted |-> FALSE]]
       /\ grant' = [grant EXCEPT ![a] = req[r].permissions]
       /\ invitation' = [invitation EXCEPT ![i].account = a]
  /\ UNCHANGED <<role, contents, holds>>
  /\ Finish(r)

\* A unique violation, of the e-mail or of the user name: all is rolled back.
AcceptFails(r) ==
  /\ req[r].at = "accept"
  /\ UNCHANGED tables
  /\ Finish(r)

RevokeCheck(r, i) ==
  /\ Outstanding(i)
  /\ UNCHANGED tables
  /\ Start(r, [Idle EXCEPT !.at = "revoke", !.invitation = i])

RevokeMark(r) ==
  /\ req[r].at = "revoke"
  /\ invitation' = [invitation EXCEPT ![req[r].invitation].revoked = TRUE]
  /\ UNCHANGED <<account, grant, role, contents, holds>>
  /\ Finish(r)

\* The oldest invitation is the first to expire.
Expire(i) ==
  /\ Issued(i) /\ ~invitation[i].expired
  /\ \A j \in Invitation : j < i => invitation[j].expired
  /\ invitation' = [invitation EXCEPT ![i].expired = TRUE]
  /\ UNCHANGED <<account, grant, role, contents, holds, req, begun>>
  /\ Observe

\* Registration of an ordinary user, at the address of an invitation or not.
Register(e) ==
  /\ Unregistered(e)
  /\ \E a \in Account :
       /\ NextAccount(a)
       /\ account' = [account EXCEPT ![a] = [tier |-> "USER", email |-> e,
                                             active |-> TRUE, deleted |-> FALSE]]
  /\ UNCHANGED <<invitation, grant, role, contents, holds, req, begun>>
  /\ Observe

(***************************************************************************)
(* Administrator accounts.                                                 *)
(***************************************************************************)

\* loadManageableAdmin, and what the operation asks of the row it returns.
LoadAdmin(r, a, label, P) ==
  /\ Admin(a)
  /\ label = "activate" => ~account[a].active
  /\ label = "deactivate" => account[a].active
  /\ UNCHANGED tables
  /\ Start(r, [Idle EXCEPT !.at = label, !.account = a, !.permissions = P])

GrantPermissions(r) ==
  /\ req[r].at = "grant"
  /\ grant' = [grant EXCEPT ![req[r].account] = @ \cup req[r].permissions]
  /\ UNCHANGED <<account, invitation, role, contents, holds>>
  /\ Finish(r)

RevokePermissions(r) ==
  /\ req[r].at = "ungrant"
  /\ grant' = [grant EXCEPT ![req[r].account] = @ \ req[r].permissions]
  /\ UNCHANGED <<account, invitation, role, contents, holds>>
  /\ Finish(r)

\* Direct grants go with the account, assignments of roles stay.
DeleteAdmin(r) ==
  /\ req[r].at = "delete"
  /\ grant' = [grant EXCEPT ![req[r].account] = {}]
  /\ account' = [account EXCEPT ![req[r].account].deleted = TRUE]
  /\ UNCHANGED <<invitation, role, contents, holds>>
  /\ Finish(r)

ChangeStatus(r) ==
  /\ req[r].at \in {"activate", "deactivate"}
  /\ account' = [account EXCEPT ![req[r].account].active = req[r].at = "activate"]
  /\ UNCHANGED <<invitation, grant, role, contents, holds>>
  /\ Finish(r)

(***************************************************************************)
(* Roles.                                                                  *)
(***************************************************************************)

CreateRole(r, x) ==
  /\ role[x] = "unused" /\ \A y \in Role : role[y] = "unused" => x <= y
  /\ role' = [role EXCEPT ![x] = "present"]
  /\ UNCHANGED <<account, invitation, grant, contents, holds>>
  /\ Start(r, Idle)

DeleteRoleLoad(r, x) ==
  /\ Present(x)
  /\ UNCHANGED tables
  /\ Start(r, [Idle EXCEPT !.at = "role.count", !.role = x])

Assigned(x) == \E a \in Account : x \in holds[a]

DeleteRoleCount(r) ==
  /\ req[r].at = "role.count"
  /\ UNCHANGED tables
  /\ IF Assigned(req[r].role) THEN Finish(r) ELSE Goto(r, [req[r] EXCEPT !.at = "role.delete"])

\* The foreign keys of user_role_assignment: RESTRICT, or what CASCADE would do.
Cascades(x) == TRUE
Restrict(x) == ~Assigned(x)

DeleteRole(r) ==
  LET x == req[r].role IN
  /\ req[r].at = "role.delete"
  /\ IF Present(x) /\ Restrict(x)
       THEN /\ role' = [role EXCEPT ![x] = "deleted"]
            /\ contents' = [contents EXCEPT ![x] = {}]
            /\ holds' = [a \in Account |-> holds[a] \ {x}]
       ELSE UNCHANGED <<role, contents, holds>>
  /\ UNCHANGED <<account, invitation, grant>>
  /\ Finish(r)

\* Rows of role x that other open transactions have deleted.
LockedRows(r, x) ==
  UNION {req[o].found : o \in {p \in Req \ {r} : Replacing(req[p]) /\ req[p].role = x}}

\* The cascade to role_permission and a replacement that has deleted rows wait
\* for each other; the database may choose this one to give way.
DeleteRoleAborted(r) ==
  /\ req[r].at = "role.delete"
  /\ LockedRows(r, req[r].role) # {}
  /\ UNCHANGED tables
  /\ Finish(r)

SetLoad(r, x, P) ==
  /\ P \in Delegated /\ P # {}
  /\ Present(x)
  /\ UNCHANGED tables
  /\ Start(r, [Idle EXCEPT !.at = "set.delete", !.role = x, !.permissions = P])

DeletedRows(x) == contents[x]

\* DELETE takes the rows its snapshot shows and waits for those that another
\* transaction holds.
SetDelete(r) ==
  LET x      == req[r].role
      locked == DeletedRows(x) \cap LockedRows(r, x)
  IN /\ req[r].at = "set.delete"
     /\ UNCHANGED tables
     /\ Goto(r, [req[r] EXCEPT !.at = IF locked = {} THEN "set.insert" ELSE "set.blocked",
                               !.found = DeletedRows(x) \ locked, !.waits = locked])

\* The rows it has waited for are gone; rows inserted since are not in its
\* snapshot and stay.
SetUnblock(r) ==
  /\ req[r].at = "set.blocked"
  /\ req[r].waits \cap LockedRows(r, req[r].role) = {}
  /\ UNCHANGED tables
  /\ Goto(r, [req[r] EXCEPT !.at = "set.insert", !.waits = {}])

\* INSERT .. ON CONFLICT DO NOTHING, and the commit; a foreign key violation
\* if the role is gone.
SetInsert(r) ==
  LET x == req[r].role IN
  /\ req[r].at = "set.insert"
  /\ contents' = IF Present(x)
       THEN [contents EXCEPT ![x] = (@ \ req[r].found) \cup req[r].permissions]
       ELSE contents
  /\ UNCHANGED <<account, invitation, grant, role, holds>>
  /\ Finish(r)

AssignLoad(r, a, x, label) ==
  /\ Live(a)
  /\ label = "assign" => Present(x) /\ contents[x] \in Delegated
  /\ UNCHANGED tables
  /\ Start(r, [Idle EXCEPT !.at = label, !.account = a, !.role = x])

\* An insert that ignores duplicates and fails if the role is gone.
AssignRole(r) ==
  /\ req[r].at = "assign"
  /\ holds' = [holds EXCEPT ![req[r].account] = @ \cup (IF Present(req[r].role) THEN {req[r].role} ELSE {})]
  /\ UNCHANGED <<account, invitation, grant, role, contents>>
  /\ Finish(r)

UnassignRole(r) ==
  /\ req[r].at = "unassign"
  /\ holds' = [holds EXCEPT ![req[r].account] = @ \ {req[r].role}]
  /\ UNCHANGED <<account, invitation, grant, role, contents>>
  /\ Finish(r)

(***************************************************************************)
(* The evaluation of a requirement: PermissionGuard and `can'.             *)
(***************************************************************************)

CheckStart(r, a, P) ==
  /\ Live(a) /\ P # {} /\ P \cap Reserved = {}
  /\ UNCHANGED tables
  /\ Start(r, [Idle EXCEPT !.at = "check", !.account = a, !.permissions = P,
                           !.left = Source])

SatisfiedBySome(required, found) == required \cap found # {}
Satisfied(required, found)       == required \subseteq found

\* The two queries of Promise.all, in either order, and the verdict.
CheckRead(r, source) ==
  LET a     == req[r].account
      found == req[r].found \cup (IF source = "direct" THEN Direct(a) ELSE ViaRoles(a))
      left  == req[r].left \ {source}
  IN /\ req[r].at = "check" /\ source \in req[r].left
     /\ UNCHANGED tables
     /\ IF left # {} THEN Goto(r, [req[r] EXCEPT !.found = found, !.left = left])
        ELSE IF Satisfied(req[r].permissions, found)
          THEN Goto(r, [req[r] EXCEPT !.at = "allowed", !.found = {}, !.left = {}])
          ELSE Finish(r)

Proceed(r) == req[r].at = "allowed" /\ UNCHANGED tables /\ Finish(r)

InvitationStep(r) ==
  \/ \E e \in Email, P \in Delegated : InviteLookup(r, e, P)
  \/ InviteFind(r) \/ InviteSave(r)
  \/ \E i \in Invitation : AcceptCheck(r, i) \/ RevokeCheck(r, i)
  \/ AcceptCommit(r) \/ AcceptFails(r) \/ RevokeMark(r)

AdminStep(r) ==
  \/ \E a \in Account :
       \/ \E label \in {"grant", "ungrant"}, P \in Delegated \ {{}} : LoadAdmin(r, a, label, P)
       \/ \E label \in {"delete", "activate", "deactivate"} : LoadAdmin(r, a, label, {})
  \/ GrantPermissions(r) \/ RevokePermissions(r) \/ DeleteAdmin(r) \/ ChangeStatus(r)

RoleStep(r) ==
  \/ \E x \in Role :
       \/ CreateRole(r, x) \/ DeleteRoleLoad(r, x)
       \/ \E P \in Delegated : SetLoad(r, x, P)
       \/ \E a \in Account, label \in {"assign", "unassign"} : AssignLoad(r, a, x, label)
  \/ DeleteRoleCount(r) \/ DeleteRole(r) \/ DeleteRoleAborted(r)
  \/ SetDelete(r) \/ SetUnblock(r) \/ SetInsert(r)
  \/ AssignRole(r) \/ UnassignRole(r)

CheckStep(r) ==
  \/ \E a \in Account, P \in SUBSET Permission : CheckStart(r, a, P)
  \/ \E source \in Source : CheckRead(r, source)
  \/ Proceed(r)

Next ==
  \/ \E r \in Req : InvitationStep(r) \/ AdminStep(r) \/ RoleStep(r) \/ CheckStep(r)
  \/ \E i \in Invitation : Expire(i)
  \/ \E e \in Email : Register(e)

Spec == Init /\ [][Next]_vars

(***************************************************************************)
(* Properties.                                                             *)
(***************************************************************************)

\* At most one invitation may be outstanding per address, although the
\* invite looks for the others outside its transaction.
OneOutstanding ==
  \A i, j \in Invitation :
    Outstanding(i) /\ Outstanding(j) /\ invitation[i].email = invitation[j].email => i = j

\* An administrator comes from an invitation to his address, which names him
\* for good: however many requests accept it at once, one account results.
AccountPerInvitation ==
  \A a \in Account : account[a].tier = "ADMIN" =>
    /\ \E i \in Invitation : invitation[i].account = a /\ invitation[i].email = account[a].email
    /\ \A b \in Account : account[b].email = account[a].email => b = a

\* Concurrent invitations and acceptances neither invite nor admit twice.
InvitationsSound == OneOutstanding /\ AccountPerInvitation

\* A replaced set holds what was asked for, and besides that only what an
\* overlapping replacement asked for: nothing of the old set survives.
ReplacesWhole ==
  [][\A r \in Req :
       req[r].at = "set.insert" /\ req'[r].at = "idle" /\ Present(req[r].role)
         => contents'[req[r].role] \subseteq req[r].permissions \cup overlap[r]]_vars

\* Deleting a role never takes a permission away from an account, not even
\* from one that was given the role after the assignments were counted.
DeletionTakesNothing ==
  [][\A x \in Role : role'[x] = "deleted" /\ role[x] # "deleted" =>
       \A a \in Account : Effective(a)' = Effective(a)]_vars

\* Overlapping changes of roles neither leave behind what they replace nor take
\* away what they do not name.
RolesChangeWhole == ReplacesWhole /\ DeletionTakesNothing

\* A request is let through only with permissions its account has held while
\* it was being judged, each of those the route requires.
AllowedWasHeld ==
  \A r \in Req : req[r].at = "allowed" => req[r].permissions \subseteq held[r] \ Reserved
===============================================================================
