------------------------- MODULE AdministrationProofs -------------------------
(***************************************************************************)
(* Theorems of Administration, for any number of requests, accounts,       *)
(* invitations, roles and permissions, from any consistent tables.         *)
(***************************************************************************)
EXTENDS Administration, TLAPS

-----------------------------------------------------------------------------
(* Types *)

LEMMA IdleType == Idle \in Request /\ Idle.at = "idle"
BY DEF Idle, Request, Stage

\* The history of a well-typed step is well-typed.
LEMMA ObserveType ==
  ASSUME TypeOK, req' \in [Req -> Request], Observe
  PROVE  overlap' \in [Req -> SUBSET Permission] /\ held' \in [Req -> SUBSET Permission]
<1>1. ASSUME NEW r \in Req
      PROVE  req[r].permissions \subseteq Permission /\ req'[r].permissions \subseteq Permission
  BY <1>1 DEF TypeOK, Request, Delegable
<1>2. overlap' \in [Req -> SUBSET Permission]
  BY <1>1 DEF Observe, TypeOK
<1>3. held' \in [Req -> SUBSET Permission]
  BY <1>1 DEF Observe
<1> QED BY <1>2, <1>3

LEMMA StartType ==
  ASSUME TypeOK, NEW r \in Req, NEW first \in Request, Start(r, first)
  PROVE  /\ req' \in [Req -> Request] /\ begun' \in 0..MaxRequests
         /\ overlap' \in [Req -> SUBSET Permission] /\ held' \in [Req -> SUBSET Permission]
<1>1. req' \in [Req -> Request] /\ begun' \in 0..MaxRequests
  BY AdministrationAssumption DEF Start, TypeOK
<1> QED BY <1>1, ObserveType DEF Start

LEMMA GotoType ==
  ASSUME TypeOK, NEW r \in Req, NEW next \in Request, Goto(r, next)
  PROVE  /\ req' \in [Req -> Request] /\ begun' \in 0..MaxRequests
         /\ overlap' \in [Req -> SUBSET Permission] /\ held' \in [Req -> SUBSET Permission]
<1>1. req' \in [Req -> Request] /\ begun' \in 0..MaxRequests
  BY DEF Goto, TypeOK
<1> QED BY <1>1, ObserveType DEF Goto

LEMMA FinishType ==
  ASSUME TypeOK, NEW r \in Req, Finish(r)
  PROVE  /\ req' \in [Req -> Request] /\ begun' \in 0..MaxRequests
         /\ overlap' \in [Req -> SUBSET Permission] /\ held' \in [Req -> SUBSET Permission]
BY GotoType, IdleType DEF Finish

\* What the tables must be for the step to be well-typed.
TablesOK ==
  /\ account \in [Account -> AccountRow]
  /\ invitation \in [Invitation -> InvitationRow]
  /\ grant \in [Account -> SUBSET Delegable]
  /\ role \in [Role -> RoleState]
  /\ contents \in [Role -> SUBSET Delegable]
  /\ holds \in [Account -> SUBSET Role]

LEMMA InvitationType ==
  ASSUME TypeOK, NEW r \in Req, InvitationStep(r)
  PROVE  TypeOK'
<1>i. invitation \in [Invitation -> InvitationRow]
  BY DEF TypeOK
<1>q. req[r] \in Request
  BY DEF TypeOK
<1>1. ASSUME NEW e \in Email, NEW P \in Delegated, InviteLookup(r, e, P)
      PROVE  TypeOK'
  <2>1. [Idle EXCEPT !.at = "invite.find", !.email = e, !.permissions = P] \in Request
    BY <1>1 DEF Delegated, Idle, Request, Stage
  <2> QED BY <1>1, <2>1, StartType DEF InviteLookup, TypeOK, tables
<1>2. CASE InviteFind(r)
  <2>1. ASSUME NEW S \in SUBSET Invitation
        PROVE  [req[r] EXCEPT !.at = "invite.save", !.stale = S] \in Request
    BY <1>2, <1>q DEF InviteFind, Request, Stage
  <2>2. {i \in Invitation : Outstanding(i) /\ invitation[i].email = req[r].email}
          \in SUBSET Invitation
    OBVIOUS
  <2> QED BY <1>2, <2>1, <2>2, GotoType DEF InviteFind, TypeOK, tables
<1>3. CASE InviteSave(r)
  <2>1. ASSUME NEW i \in Invitation
        PROVE  [j \in Invitation |->
                   IF j = i THEN [NoInvitation EXCEPT !.email = req[r].email,
                                                      !.permissions = req[r].permissions]
                   ELSE [invitation[j] EXCEPT !.revoked = @ \/ j \in req[r].stale]]
                 \in [Invitation -> InvitationRow]
    <3>1. [NoInvitation EXCEPT !.email = req[r].email, !.permissions = req[r].permissions]
            \in InvitationRow
      BY <1>q DEF NoInvitation, InvitationRow, Request
    <3>2. ASSUME NEW j \in Invitation
          PROVE  [invitation[j] EXCEPT !.revoked = @ \/ j \in req[r].stale] \in InvitationRow
      <4>1. invitation[j] \in InvitationRow
        BY DEF TypeOK
      <4> QED BY <4>1 DEF InvitationRow
    <3> QED BY <3>1, <3>2
  <2>2. invitation' \in [Invitation -> InvitationRow]
    BY <1>3, <2>1 DEF InviteSave, TypeOK
  <2> QED BY <1>3, <2>2, FinishType DEF InviteSave, TypeOK
<1>4. ASSUME NEW i \in Invitation, AcceptCheck(r, i)
      PROVE  TypeOK'
  <2>1. [Idle EXCEPT !.at = "accept", !.invitation = i, !.email = invitation[i].email,
                     !.permissions = invitation[i].permissions] \in Request
    <3>1. invitation[i].email \in Email /\ invitation[i].permissions \subseteq Delegable
      BY <1>4 DEF AcceptCheck, Outstanding, Issued, TypeOK, InvitationRow
    <3> QED BY <3>1 DEF Idle, Request, Stage
  <2> QED BY <1>4, <2>1, StartType DEF AcceptCheck, TypeOK, tables
<1>5. ASSUME NEW i \in Invitation, RevokeCheck(r, i)
      PROVE  TypeOK'
  <2>1. [Idle EXCEPT !.at = "revoke", !.invitation = i] \in Request
    BY DEF Idle, Request, Stage
  <2> QED BY <1>5, <2>1, StartType DEF RevokeCheck, TypeOK, tables
<1>6. CASE AcceptCommit(r)
  <2>1. PICK a \in Account :
          /\ account' = [account EXCEPT ![a] = [tier |-> "ADMIN", email |-> req[r].email,
                                                active |-> TRUE, deleted |-> FALSE]]
          /\ grant' = [grant EXCEPT ![a] = req[r].permissions]
          /\ invitation' = [invitation EXCEPT ![req[r].invitation].account = a]
    BY <1>6 DEF AcceptCommit
  <2>2. account' \in [Account -> AccountRow]
    BY <1>q, <2>1 DEF TypeOK, AccountRow, Request
  <2>3. grant' \in [Account -> SUBSET Delegable]
    BY <1>q, <2>1 DEF TypeOK, Request, Delegable
  <2>4. invitation' \in [Invitation -> InvitationRow]
    <3>1. ASSUME NEW j \in Invitation
          PROVE  [invitation[j] EXCEPT !.account = a] \in InvitationRow
      BY <1>i DEF InvitationRow
    <3> QED BY <2>1, <3>1, <1>i
  <2> QED BY <1>6, <2>2, <2>3, <2>4, FinishType DEF AcceptCommit, TypeOK
<1>7. CASE AcceptFails(r)
  BY <1>7, FinishType DEF AcceptFails, TypeOK, tables
<1>8. CASE RevokeMark(r)
  <2>1. ASSUME NEW j \in Invitation
        PROVE  [invitation[j] EXCEPT !.revoked = TRUE] \in InvitationRow
    BY <1>i DEF InvitationRow
  <2>2. invitation' \in [Invitation -> InvitationRow]
    BY <1>8, <1>i, <2>1 DEF RevokeMark
  <2> QED BY <1>8, <2>2, FinishType DEF RevokeMark, TypeOK
<1> QED BY <1>1, <1>2, <1>3, <1>4, <1>5, <1>6, <1>7, <1>8 DEF InvitationStep

LEMMA AdminType ==
  ASSUME TypeOK, NEW r \in Req, AdminStep(r)
  PROVE  TypeOK'
<1>q. req[r] \in Request
  BY DEF TypeOK
<1>1. ASSUME NEW a \in Account, NEW P \in SUBSET Delegable,
             NEW label \in {"grant", "ungrant", "delete", "activate", "deactivate"},
             LoadAdmin(r, a, label, P)
      PROVE  TypeOK'
  <2>1. [Idle EXCEPT !.at = label, !.account = a, !.permissions = P] \in Request
    BY DEF Idle, Request, Stage
  <2> QED BY <1>1, <2>1, StartType DEF LoadAdmin, TypeOK, tables
<1>2. CASE GrantPermissions(r)
  <2>1. grant' \in [Account -> SUBSET Delegable]
    BY <1>2, <1>q DEF GrantPermissions, TypeOK, Request, Delegable
  <2> QED BY <1>2, <2>1, FinishType DEF GrantPermissions, TypeOK
<1>3. CASE RevokePermissions(r)
  <2>1. grant' \in [Account -> SUBSET Delegable]
    BY <1>3, <1>q DEF RevokePermissions, TypeOK
  <2> QED BY <1>3, <2>1, FinishType DEF RevokePermissions, TypeOK
<1>4. CASE DeleteAdmin(r)
  <2>1. grant' \in [Account -> SUBSET Delegable] /\ account' \in [Account -> AccountRow]
    BY <1>4 DEF DeleteAdmin, TypeOK, AccountRow
  <2> QED BY <1>4, <2>1, FinishType DEF DeleteAdmin, TypeOK
<1>5. CASE ChangeStatus(r)
  <2>1. PICK on \in BOOLEAN : account' = [account EXCEPT ![req[r].account].active = on]
    BY <1>5 DEF ChangeStatus
  <2>2. account' \in [Account -> AccountRow]
    BY <2>1 DEF TypeOK, AccountRow
  <2> QED BY <1>5, <2>2, FinishType DEF ChangeStatus, TypeOK
<1> QED BY <1>1, <1>2, <1>3, <1>4, <1>5 DEF AdminStep, Delegated

LEMMA RoleType ==
  ASSUME TypeOK, NEW r \in Req, RoleStep(r)
  PROVE  TypeOK'
<1>q. req[r] \in Request
  BY DEF TypeOK
<1>1. ASSUME NEW x \in Role, CreateRole(r, x)
      PROVE  TypeOK'
  <2>1. role' \in [Role -> RoleState]
    BY <1>1 DEF CreateRole, TypeOK, RoleState
  <2> QED BY <1>1, <2>1, StartType, IdleType DEF CreateRole, TypeOK
<1>2. ASSUME NEW x \in Role, DeleteRoleLoad(r, x)
      PROVE  TypeOK'
  <2>1. [Idle EXCEPT !.at = "role.count", !.role = x] \in Request
    BY DEF Idle, Request, Stage
  <2> QED BY <1>2, <2>1, StartType DEF DeleteRoleLoad, TypeOK, tables
<1>3. ASSUME NEW x \in Role, NEW P \in Delegated, SetLoad(r, x, P)
      PROVE  TypeOK'
  <2>1. [Idle EXCEPT !.at = "set.delete", !.role = x, !.permissions = P] \in Request
    BY DEF Idle, Request, Stage, Delegated
  <2> QED BY <1>3, <2>1, StartType DEF SetLoad, TypeOK, tables
<1>4. ASSUME NEW x \in Role, NEW a \in Account, NEW label \in {"assign", "unassign"},
             AssignLoad(r, a, x, label)
      PROVE  TypeOK'
  <2>1. [Idle EXCEPT !.at = label, !.account = a, !.role = x] \in Request
    BY DEF Idle, Request, Stage
  <2> QED BY <1>4, <2>1, StartType DEF AssignLoad, TypeOK, tables
<1>5. CASE DeleteRoleCount(r)
  <2>1. [req[r] EXCEPT !.at = "role.delete"] \in Request
    BY <1>5, <1>q DEF DeleteRoleCount, Request, Stage
  <2> QED BY <1>5, <2>1, FinishType, GotoType DEF DeleteRoleCount, TypeOK, tables
<1>6. CASE DeleteRole(r)
  <2>1. /\ role' \in [Role -> RoleState]
        /\ contents' \in [Role -> SUBSET Delegable]
        /\ holds' \in [Account -> SUBSET Role]
    BY <1>6 DEF DeleteRole, TypeOK, RoleState
  <2> QED BY <1>6, <2>1, FinishType DEF DeleteRole, TypeOK
<1>7. CASE DeleteRoleAborted(r)
  BY <1>7, FinishType DEF DeleteRoleAborted, TypeOK, tables
<1>8. CASE SetDelete(r)
  <2>1. ASSUME NEW S \in SUBSET Permission, NEW W \in SUBSET Permission,
               NEW label \in {"set.insert", "set.blocked"}
        PROVE  [req[r] EXCEPT !.at = label, !.found = S, !.waits = W] \in Request
    BY <1>8, <1>q DEF SetDelete, Request, Stage
  <2>2. DeletedRows(req[r].role) \in SUBSET Permission
    <3>1. req[r].role \in Role
      BY <1>8, <1>q DEF SetDelete, Request
    <3> QED BY <3>1 DEF TypeOK, DeletedRows, Delegable
  <2> QED BY <1>8, <2>1, <2>2, GotoType DEF SetDelete, TypeOK, tables
<1>9. CASE SetUnblock(r)
  <2>1. [req[r] EXCEPT !.at = "set.insert", !.waits = {}] \in Request
    BY <1>9, <1>q DEF SetUnblock, Request, Stage
  <2> QED BY <1>9, <2>1, GotoType DEF SetUnblock, TypeOK, tables
<1>10. CASE SetInsert(r)
  <2>1. contents' \in [Role -> SUBSET Delegable]
    BY <1>10, <1>q DEF SetInsert, TypeOK, Request, Delegable
  <2> QED BY <1>10, <2>1, FinishType DEF SetInsert, TypeOK
<1>11. CASE AssignRole(r)
  <2>1. req[r].role \in Role
    BY <1>11, <1>q DEF AssignRole, Request
  <2>2. holds' \in [Account -> SUBSET Role]
    BY <1>11, <2>1 DEF AssignRole, TypeOK
  <2> QED BY <1>11, <2>2, FinishType DEF AssignRole, TypeOK
<1>12. CASE UnassignRole(r)
  <2>1. holds' \in [Account -> SUBSET Role]
    BY <1>12 DEF UnassignRole, TypeOK
  <2> QED BY <1>12, <2>1, FinishType DEF UnassignRole, TypeOK
<1> QED BY <1>1, <1>2, <1>3, <1>4, <1>5, <1>6, <1>7, <1>8, <1>9, <1>10, <1>11, <1>12
        DEF RoleStep

LEMMA CheckType ==
  ASSUME TypeOK, NEW r \in Req, CheckStep(r)
  PROVE  TypeOK'
<1>q. req[r] \in Request
  BY DEF TypeOK
<1>1. ASSUME NEW a \in Account, NEW P \in SUBSET Permission, CheckStart(r, a, P)
      PROVE  TypeOK'
  <2>1. [Idle EXCEPT !.at = "check", !.account = a, !.permissions = P, !.left = Source]
          \in Request
    BY <1>1 DEF CheckStart, Idle, Request, Stage, Delegable
  <2> QED BY <1>1, <2>1, StartType DEF CheckStart, TypeOK, tables
<1>2. ASSUME NEW source \in Source, CheckRead(r, source)
      PROVE  TypeOK'
  <2>1. /\ req[r].account \in Account /\ req[r].found \subseteq Permission
        /\ req[r].left \subseteq Source
    BY <1>2, <1>q DEF CheckRead, Request
  <2>2. Direct(req[r].account) \subseteq Permission /\ ViaRoles(req[r].account) \subseteq Permission
    BY <2>1 DEF TypeOK, Direct, ViaRoles, Delegable
  <2>3. ASSUME NEW S \in SUBSET Permission, NEW L \in SUBSET Source
        PROVE  [req[r] EXCEPT !.found = S, !.left = L] \in Request
    BY <1>2, <1>q DEF CheckRead, Request, Stage
  <2>4. [req[r] EXCEPT !.at = "allowed", !.found = {}, !.left = {}] \in Request
    BY <1>2, <1>q DEF CheckRead, Request, Stage
  <2>5. ASSUME NEW next \in Request, Goto(r, next), UNCHANGED tables
        PROVE  TypeOK'
    BY <2>5, GotoType DEF TypeOK, tables
  <2>6. UNCHANGED tables
    BY <1>2 DEF CheckRead
  <2> DEFINE found == req[r].found \cup
                      (IF source = "direct" THEN Direct(req[r].account) ELSE ViaRoles(req[r].account))
             left  == req[r].left \ {source}
  <2>7. \/ Goto(r, [req[r] EXCEPT !.found = found, !.left = left])
        \/ Goto(r, [req[r] EXCEPT !.at = "allowed", !.found = {}, !.left = {}])
        \/ Goto(r, Idle)
    BY <1>2 DEF CheckRead, Finish
  <2>8. found \in SUBSET Permission /\ left \in SUBSET Source
    BY <2>1, <2>2
  <2>9. [req[r] EXCEPT !.found = found, !.left = left] \in Request
    BY <2>3, <2>8
  <2> QED BY <2>4, <2>5, <2>6, <2>7, <2>9, IdleType
<1>3. CASE Proceed(r)
  BY <1>3, FinishType DEF Proceed, TypeOK, tables
<1> QED BY <1>1, <1>2, <1>3 DEF CheckStep

LEMMA TypeInit == Init => TypeOK
<1> SUFFICES ASSUME Init
             PROVE  TypeOK
  OBVIOUS
<1>1. PICK s \in Seeds : /\ account = s.account /\ invitation = s.invitation
                         /\ role = s.role /\ contents = s.contents
  BY DEF Init
<1>2. /\ account \in [Account -> AccountRow] /\ invitation \in [Invitation -> InvitationRow]
      /\ role \in [Role -> RoleState] /\ contents \in [Role -> SUBSET Delegable]
  BY <1>1, AdministrationAssumption DEF Delegable
<1>3. 0 \in 0..MaxRequests
  BY AdministrationAssumption
<1> QED BY <1>2, <1>3, IdleType DEF Init, TypeOK

LEMMA TypeStep == TypeOK /\ [Next]_vars => TypeOK'
<1> SUFFICES ASSUME TypeOK, [Next]_vars
             PROVE  TypeOK'
  OBVIOUS
<1>1. CASE \E r \in Req : InvitationStep(r) \/ AdminStep(r) \/ RoleStep(r) \/ CheckStep(r)
  BY <1>1, InvitationType, AdminType, RoleType, CheckType
<1>2. ASSUME NEW i \in Invitation, Expire(i)
      PROVE  TypeOK'
  <2>1. invitation' \in [Invitation -> InvitationRow]
    BY <1>2 DEF Expire, TypeOK, InvitationRow
  <2> QED BY <1>2, <2>1, ObserveType DEF Expire, TypeOK
<1>3. ASSUME NEW e \in Email, Register(e)
      PROVE  TypeOK'
  <2>1. account' \in [Account -> AccountRow]
    BY <1>3 DEF Register, TypeOK, AccountRow
  <2> QED BY <1>3, <2>1, ObserveType DEF Register, TypeOK
<1>4. CASE UNCHANGED vars
  BY <1>4 DEF vars, tables, TypeOK
<1> QED BY <1>1, <1>2, <1>3, <1>4 DEF Next

\* Every row, every request and what it carries stay of their types, from any
\* consistent tables.
THEOREM Typed == Spec => []TypeOK
<1>1. Init => TypeOK
  BY TypeInit
<1>2. TypeOK /\ [Next]_vars => TypeOK'
  BY TypeStep
<1> QED BY <1>1, <1>2, PTL DEF Spec

-----------------------------------------------------------------------------
(* Invitations and the accounts that come of them *)

\* The acceptance that is under way carries its invitation's address.
AcceptSound ==
  \A r \in Req : req[r].at = "accept" =>
    req[r].email = invitation[req[r].invitation].email

AccountRows == \A a \in Account : account[a].tier = "none" <=> account[a].email = None

UniqueEmail ==
  \A a, b \in Account :
    account[a].email # None /\ account[a].email = account[b].email => a = b

Backed ==
  \A a \in Account : account[a].tier = "ADMIN" =>
    \E i \in Invitation : invitation[i].account = a /\ invitation[i].email = account[a].email

InvitationInv == TypeOK /\ AcceptSound /\ AccountRows /\ UniqueEmail /\ Backed /\ OneOutstanding

\* Neither table changes in what the invariant reads, except that an
\* invitation may be revoked.
Quiet ==
  /\ \A a \in Account : account'[a].tier = account[a].tier /\ account'[a].email = account[a].email
  /\ \A i \in Invitation : /\ invitation'[i].email = invitation[i].email
                           /\ invitation'[i].account = invitation[i].account
                           /\ invitation[i].revoked => invitation'[i].revoked

\* An acceptance begins with the address of its invitation, or goes on.
AcceptKept ==
  \A q \in Req : req'[q].at = "accept" =>
    \/ req'[q] = req[q]
    \/ req'[q].email = invitation[req'[q].invitation].email

\* A step of a role or of a check starts, continues and ends no acceptance.
LEMMA NoAcceptance ==
  ASSUME TypeOK, NEW r \in Req, RoleStep(r) \/ CheckStep(r)
  PROVE  req'[r].at # "accept"
<1>i. Idle.at = "idle"
  BY IdleType
<1>2. ASSUME NEW x \in Role, CreateRole(r, x) \/ DeleteRoleLoad(r, x)
      PROVE  req'[r].at # "accept"
  BY <1>2, <1>i DEF TypeOK, CreateRole, DeleteRoleLoad, Start, Idle
<1>3. ASSUME NEW x \in Role, NEW P \in Delegated, SetLoad(r, x, P)
      PROVE  req'[r].at # "accept"
  BY <1>3, <1>i DEF TypeOK, SetLoad, Start, Idle
<1>4. ASSUME NEW x \in Role, NEW a \in Account, NEW label \in {"assign", "unassign"},
             AssignLoad(r, a, x, label)
      PROVE  req'[r].at # "accept"
  BY <1>4, <1>i DEF TypeOK, AssignLoad, Start, Idle
<1>f. ASSUME Finish(r)
      PROVE  req'[r].at # "accept"
  <2>1. req' = [req EXCEPT ![r] = Idle]
    BY <1>f DEF Finish, Goto
  <2> QED BY <2>1, <1>i DEF TypeOK
<1>q. req[r] \in Request
  BY DEF TypeOK
<1>5. CASE DeleteRoleCount(r)
  <2>1. CASE Finish(r)
    BY <2>1, <1>f
  <2>2. CASE Goto(r, [req[r] EXCEPT !.at = "role.delete"])
    <3>1. req' = [req EXCEPT ![r] = [req[r] EXCEPT !.at = "role.delete"]]
      BY <2>2 DEF Goto
    <3> QED BY <3>1, <1>q DEF TypeOK, Request
  <2> QED BY <1>5, <2>1, <2>2 DEF DeleteRoleCount
<1>6. CASE SetDelete(r)
  <2>1. PICK label \in {"set.insert", "set.blocked"}, S \in SUBSET (DeletedRows(req[r].role)),
             W \in SUBSET (DeletedRows(req[r].role)) :
          req' = [req EXCEPT ![r] = [req[r] EXCEPT !.at = label, !.found = S, !.waits = W]]
    BY <1>6 DEF SetDelete, Goto
  <2> QED BY <2>1, <1>q DEF TypeOK, Request
<1>7. CASE SetUnblock(r)
  <2>1. req' = [req EXCEPT ![r] = [req[r] EXCEPT !.at = "set.insert", !.waits = {}]]
    BY <1>7 DEF SetUnblock, Goto
  <2> QED BY <2>1, <1>q DEF TypeOK, Request
<1>8. CASE DeleteRole(r) \/ DeleteRoleAborted(r) \/ SetInsert(r) \/ AssignRole(r) \/ UnassignRole(r)
           \/ Proceed(r)
  <2>1. Finish(r)
    BY <1>8 DEF DeleteRole, DeleteRoleAborted, SetInsert, AssignRole, UnassignRole, Proceed
  <2> QED BY <2>1, <1>f
<1>9. ASSUME NEW a \in Account, NEW P \in SUBSET Permission, CheckStart(r, a, P)
      PROVE  req'[r].at # "accept"
  BY <1>9, <1>i DEF TypeOK, CheckStart, Start, Idle
<1>10. ASSUME NEW source \in Source, CheckRead(r, source)
       PROVE  req'[r].at # "accept"
  <2> DEFINE found == req[r].found \cup
                      (IF source = "direct" THEN Direct(req[r].account)
                                            ELSE ViaRoles(req[r].account))
             more    == [req[r] EXCEPT !.found = found, !.left = req[r].left \ {source}]
             granted == [req[r] EXCEPT !.at = "allowed", !.found = {}, !.left = {}]
  <2>1. Goto(r, more) \/ Goto(r, granted) \/ Finish(r)
    BY <1>10 DEF CheckRead
  <2>2. more.at # "accept" /\ granted.at # "accept"
    BY <1>10, <1>q DEF CheckRead, Request
  <2> HIDE DEF more, granted
  <2>3. CASE Goto(r, more)
    BY <2>2, <2>3 DEF Goto, TypeOK
  <2>4. CASE Goto(r, granted)
    BY <2>2, <2>4 DEF Goto, TypeOK
  <2> QED BY <2>1, <2>3, <2>4, <1>f
<1> QED BY <1>2, <1>3, <1>4, <1>5, <1>6, <1>7, <1>8, <1>9, <1>10 DEF RoleStep, CheckStep

LEMMA Changes ==
  ASSUME TypeOK, [Next]_vars
  PROVE  /\ AcceptKept
         /\ \/ Quiet
            \/ \E r \in Req : InviteSave(r) \/ AcceptCommit(r)
            \/ \E e \in Email : Register(e)
<1>i. Idle.at = "idle"
  BY IdleType
<1>1. ASSUME NEW r \in Req, InvitationStep(r)
      PROVE  AcceptKept /\ (Quiet \/ InviteSave(r) \/ AcceptCommit(r))
  <2> USE DEF TypeOK
  <2>1. ASSUME NEW e \in Email, NEW P \in Delegated, InviteLookup(r, e, P)
        PROVE  AcceptKept /\ Quiet
    BY <2>1 DEF InviteLookup, Start, AcceptKept, Quiet, tables, Idle
  <2>2. CASE InviteFind(r)
    BY <2>2 DEF InviteFind, Goto, AcceptKept, Quiet, tables, Request
  <2>3. CASE InviteSave(r)
    BY <2>3, <1>i DEF InviteSave, Finish, Goto, AcceptKept
  <2>4. ASSUME NEW i \in Invitation, AcceptCheck(r, i)
        PROVE  AcceptKept /\ Quiet
    BY <2>4 DEF AcceptCheck, Start, AcceptKept, Quiet, tables, Idle
  <2>5. ASSUME NEW i \in Invitation, RevokeCheck(r, i)
        PROVE  AcceptKept /\ Quiet
    BY <2>5 DEF RevokeCheck, Start, AcceptKept, Quiet, tables, Idle
  <2>6. CASE AcceptCommit(r)
    BY <2>6, <1>i DEF AcceptCommit, Finish, Goto, AcceptKept
  <2>7. CASE AcceptFails(r)
    BY <2>7, <1>i DEF AcceptFails, Finish, Goto, AcceptKept, Quiet, tables
  <2>8. CASE RevokeMark(r)
    <3>1. AcceptKept
      BY <2>8, <1>i DEF RevokeMark, Finish, Goto, AcceptKept
    <3>2. Quiet
      BY <2>8 DEF RevokeMark, Quiet, InvitationRow
    <3> QED BY <3>1, <3>2
  <2> QED BY <1>1, <2>1, <2>2, <2>3, <2>4, <2>5, <2>6, <2>7, <2>8 DEF InvitationStep
<1>2. ASSUME NEW r \in Req, AdminStep(r)
      PROVE  AcceptKept /\ Quiet
  <2> USE DEF TypeOK
  <2>1. ASSUME NEW a \in Account, NEW P \in SUBSET Delegable,
               NEW label \in {"grant", "ungrant", "delete", "activate", "deactivate"},
               LoadAdmin(r, a, label, P)
        PROVE  AcceptKept /\ Quiet
    BY <2>1 DEF LoadAdmin, Start, AcceptKept, Quiet, tables, Idle
  <2>2. CASE GrantPermissions(r)
    BY <2>2, <1>i DEF GrantPermissions, Finish, Goto, AcceptKept, Quiet
  <2>3. CASE RevokePermissions(r)
    BY <2>3, <1>i DEF RevokePermissions, Finish, Goto, AcceptKept, Quiet
  <2>4. CASE DeleteAdmin(r)
    BY <2>4, <1>i DEF DeleteAdmin, Finish, Goto, AcceptKept, Quiet, AccountRow
  <2>5. CASE ChangeStatus(r)
    BY <2>5, <1>i DEF ChangeStatus, Finish, Goto, AcceptKept, Quiet, AccountRow
  <2> QED BY <1>2, <2>1, <2>2, <2>3, <2>4, <2>5 DEF AdminStep, Delegated
<1>3. ASSUME NEW r \in Req, RoleStep(r) \/ CheckStep(r)
      PROVE  AcceptKept /\ Quiet
  <2>1. UNCHANGED <<account, invitation>>
    BY <1>3 DEF RoleStep, CreateRole, DeleteRoleLoad, SetLoad, AssignLoad, DeleteRoleCount,
       DeleteRole, DeleteRoleAborted, SetDelete, SetUnblock, SetInsert, AssignRole, UnassignRole,
       CheckStep, CheckStart, CheckRead, Proceed, tables
  <2>2. \A q \in Req \ {r} : req'[q] = req[q]
    BY <1>3 DEF RoleStep, CreateRole, DeleteRoleLoad, SetLoad, AssignLoad, DeleteRoleCount,
       DeleteRole, DeleteRoleAborted, SetDelete, SetUnblock, SetInsert, AssignRole, UnassignRole,
       CheckStep, CheckStart, CheckRead, Proceed, Start, Finish, Goto, TypeOK
  <2>3. req'[r].at # "accept"
    BY <1>3, NoAcceptance
  <2> QED BY <2>1, <2>2, <2>3 DEF AcceptKept, Quiet, TypeOK
<1>4. ASSUME NEW i \in Invitation, Expire(i)
      PROVE  AcceptKept /\ Quiet
  BY <1>4 DEF Expire, AcceptKept, Quiet, TypeOK, InvitationRow
<1>5. ASSUME NEW e \in Email, Register(e)
      PROVE  AcceptKept
  BY <1>5 DEF Register, AcceptKept
<1>6. CASE UNCHANGED vars
  BY <1>6 DEF vars, tables, AcceptKept, Quiet
<1> QED BY <1>1, <1>2, <1>3, <1>4, <1>5, <1>6 DEF Next

LEMMA InvitationInit == Init => InvitationInv
<1> SUFFICES ASSUME Init
             PROVE  InvitationInv
  OBVIOUS
<1>1. PICK s \in Seeds : account = s.account /\ invitation = s.invitation
  BY DEF Init
<1>2. AcceptSound
  BY IdleType DEF Init, AcceptSound
<1>3. AccountRows /\ UniqueEmail /\ Backed
  BY <1>1, SeedAssumption DEF AccountRows, UniqueEmail, Backed
<1>4. OneOutstanding
  BY <1>1, SeedAssumption DEF OneOutstanding, Outstanding, Issued
<1> QED BY <1>2, <1>3, <1>4, TypeInit DEF InvitationInv

\* The address of an issued invitation never changes.
LEMMA AddressKept ==
  ASSUME InvitationInv, [Next]_vars, NEW i \in Invitation, Issued(i)
  PROVE  invitation'[i].email = invitation[i].email
<1>1. CASE Quiet
  BY <1>1 DEF Quiet
<1>2. ASSUME NEW r \in Req, InviteSave(r)
      PROVE  invitation'[i].email = invitation[i].email
  <2>1. CASE invitation' = invitation
    BY <2>1
  <2>2. ASSUME NEW n \in Invitation, NextInvitation(n),
               invitation' = [j \in Invitation |->
                   IF j = n THEN [NoInvitation EXCEPT !.email = req[r].email,
                                                      !.permissions = req[r].permissions]
                   ELSE [invitation[j] EXCEPT !.revoked = @ \/ j \in req[r].stale]]
        PROVE  invitation'[i].email = invitation[i].email
    <3>1. i # n
      BY <2>2 DEF NextInvitation
    <3> QED BY <2>2, <3>1 DEF InvitationInv, TypeOK, InvitationRow
  <2> QED BY <1>2, <2>1, <2>2 DEF InviteSave
<1>3. ASSUME NEW r \in Req, AcceptCommit(r)
      PROVE  invitation'[i].email = invitation[i].email
  BY <1>3 DEF AcceptCommit, InvitationInv, TypeOK, InvitationRow
<1>4. ASSUME NEW e \in Email, Register(e)
      PROVE  invitation'[i].email = invitation[i].email
  BY <1>4 DEF Register
<1> QED BY <1>1, <1>2, <1>3, <1>4, Changes DEF InvitationInv

LEMMA AcceptStep ==
  ASSUME InvitationInv, [Next]_vars
  PROVE  AcceptSound'
<1> SUFFICES ASSUME NEW r \in Req, req'[r].at = "accept"
             PROVE  req'[r].email = invitation'[req'[r].invitation].email
  BY DEF AcceptSound
<1>1. req'[r].email = invitation[req'[r].invitation].email
  BY Changes DEF AcceptKept, InvitationInv, AcceptSound
<1>2. req'[r].invitation \in Invitation /\ req'[r].email \in Email
  BY TypeStep DEF InvitationInv, TypeOK, Request
<1>3. Issued(req'[r].invitation)
  BY <1>1, <1>2, AdministrationAssumption DEF Issued, Email, None
<1> QED BY <1>1, <1>2, <1>3, AddressKept

\* A new row takes an address nobody has.
LEMMA NewAccount ==
  ASSUME InvitationInv, NEW a \in Account, NextAccount(a), NEW e \in Email, Unregistered(e),
         NEW row \in AccountRow, row.email = e, row.tier # "none",
         account' = [account EXCEPT ![a] = row]
  PROVE  AccountRows' /\ UniqueEmail'
<1>1. e # None
  BY DEF Email, None
<1>2. AccountRows'
  BY <1>1 DEF AccountRows, InvitationInv, TypeOK
<1>3. UniqueEmail'
  BY <1>1 DEF UniqueEmail, Unregistered, InvitationInv, TypeOK
<1> QED BY <1>2, <1>3

LEMMA AccountStep ==
  ASSUME InvitationInv, [Next]_vars
  PROVE  AccountRows' /\ UniqueEmail' /\ Backed'
<1>1. CASE Quiet
  <2>1. AccountRows' /\ UniqueEmail'
    BY <1>1 DEF Quiet, InvitationInv, AccountRows, UniqueEmail
  <2>2. Backed'
    BY <1>1 DEF Quiet, InvitationInv, Backed
  <2> QED BY <2>1, <2>2
<1>2. ASSUME NEW r \in Req, InviteSave(r)
      PROVE  AccountRows' /\ UniqueEmail' /\ Backed'
  <2>1. UNCHANGED account
    BY <1>2 DEF InviteSave
  <2>2. ASSUME NEW i \in Invitation, invitation[i].email # None
        PROVE  invitation'[i].account = invitation[i].account
    <3>1. CASE invitation' = invitation
      BY <3>1
    <3>2. ASSUME NEW n \in Invitation, NextInvitation(n),
                 invitation' = [j \in Invitation |->
                     IF j = n THEN [NoInvitation EXCEPT !.email = req[r].email,
                                                        !.permissions = req[r].permissions]
                     ELSE [invitation[j] EXCEPT !.revoked = @ \/ j \in req[r].stale]]
          PROVE  invitation'[i].account = invitation[i].account
      <4>1. i # n
        BY <2>2, <3>2 DEF NextInvitation, Issued
      <4> QED BY <3>2, <4>1 DEF InvitationInv, TypeOK, InvitationRow
    <3> QED BY <1>2, <3>1, <3>2 DEF InviteSave
  <2>3. Backed'
    <3> SUFFICES ASSUME NEW a \in Account, account[a].tier = "ADMIN"
                 PROVE  \E i \in Invitation :
                          invitation'[i].account = a /\ invitation'[i].email = account[a].email
      BY <2>1 DEF Backed
    <3>1. PICK i \in Invitation : invitation[i].account = a /\ invitation[i].email = account[a].email
      BY DEF InvitationInv, Backed
    <3>2. invitation[i].email # None
      BY <3>1 DEF InvitationInv, AccountRows
    <3> QED BY <3>1, <3>2, <2>2, AddressKept DEF Issued
  <2> QED BY <2>1, <2>3 DEF InvitationInv, AccountRows, UniqueEmail
<1>3. ASSUME NEW r \in Req, AcceptCommit(r)
      PROVE  AccountRows' /\ UniqueEmail' /\ Backed'
  <2> DEFINE i == req[r].invitation
             row == [tier |-> "ADMIN", email |-> req[r].email, active |-> TRUE, deleted |-> FALSE]
  <2>1. PICK a \in Account : /\ NextAccount(a) /\ account' = [account EXCEPT ![a] = row]
                             /\ invitation' = [invitation EXCEPT ![i].account = a]
    BY <1>3 DEF AcceptCommit
  <2>2. i \in Invitation /\ req[r].email \in Email /\ req[r].email = invitation[i].email
    BY <1>3 DEF AcceptCommit, InvitationInv, TypeOK, Request, AcceptSound
  <2>3. Unregistered(req[r].email)
    BY <1>3 DEF AcceptCommit, Free
  <2>4. row \in AccountRow /\ row.email = req[r].email /\ row.tier = "ADMIN"
    BY <2>2 DEF AccountRow
  <2>5. AccountRows' /\ UniqueEmail'
    BY <2>1, <2>2, <2>3, <2>4, NewAccount
  <2>6. Backed'
    <3> SUFFICES ASSUME NEW b \in Account, account'[b].tier = "ADMIN"
                 PROVE  \E j \in Invitation :
                          invitation'[j].account = b /\ invitation'[j].email = account'[b].email
      BY DEF Backed
    <3>1. CASE b = a
      <4>1. account'[b].email = req[r].email
        BY <2>1, <3>1 DEF InvitationInv, TypeOK
      <4>2. invitation'[i].account = a /\ invitation'[i].email = invitation[i].email
        BY <2>1, <2>2 DEF InvitationInv, TypeOK, InvitationRow
      <4> QED BY <3>1, <4>1, <4>2, <2>2
    <3>2. CASE b # a
      <4>1. account'[b] = account[b]
        BY <2>1, <3>2 DEF InvitationInv, TypeOK
      <4>2. PICK j \in Invitation : invitation[j].account = b /\ invitation[j].email = account[b].email
        BY <4>1 DEF InvitationInv, Backed
      <4>3. j # i
        BY <4>2, <2>2, <2>3 DEF Unregistered
      <4>4. invitation'[j] = invitation[j]
        BY <2>1, <4>3 DEF InvitationInv, TypeOK
      <4> QED BY <4>1, <4>2, <4>4
    <3> QED BY <3>1, <3>2
  <2> QED BY <2>5, <2>6
<1>4. ASSUME NEW e \in Email, Register(e)
      PROVE  AccountRows' /\ UniqueEmail' /\ Backed'
  <2> DEFINE row == [tier |-> "USER", email |-> e, active |-> TRUE, deleted |-> FALSE]
  <2>1. PICK a \in Account : NextAccount(a) /\ account' = [account EXCEPT ![a] = row]
    BY <1>4 DEF Register
  <2>2. row \in AccountRow /\ row.email = e /\ row.tier = "USER"
    BY DEF AccountRow
  <2>3. AccountRows' /\ UniqueEmail'
    BY <1>4, <2>1, <2>2, NewAccount DEF Register
  <2>4. Backed'
    BY <1>4, <2>1 DEF Register, Backed, InvitationInv, TypeOK
  <2> QED BY <2>3, <2>4
<1> QED BY <1>1, <1>2, <1>3, <1>4, Changes DEF InvitationInv

LEMMA OutstandingStep ==
  ASSUME InvitationInv, [Next]_vars
  PROVE  OneOutstanding'
<1>1. ASSUME \A i \in Invitation : invitation'[i].email = invitation[i].email,
             \A i \in Invitation : Outstanding(i)' => Outstanding(i)
      PROVE  OneOutstanding'
  BY <1>1 DEF InvitationInv, OneOutstanding
<1>2. CASE Quiet
  BY <1>2, <1>1 DEF Quiet, Outstanding, Issued
<1>3. ASSUME NEW r \in Req, AcceptCommit(r)
      PROVE  OneOutstanding'
  <2>1. PICK a \in Account : invitation' = [invitation EXCEPT ![req[r].invitation].account = a]
    BY <1>3 DEF AcceptCommit
  <2>2. \A i \in Invitation : /\ invitation'[i].email = invitation[i].email
                              /\ invitation'[i].revoked = invitation[i].revoked
                              /\ invitation'[i].account \in {invitation[i].account, a}
    BY <2>1 DEF InvitationInv, TypeOK, InvitationRow
  <2>3. a # None
    BY DEF Account, None
  <2> QED BY <1>1, <2>2, <2>3 DEF Outstanding, Issued
<1>4. ASSUME NEW e \in Email, Register(e)
      PROVE  OneOutstanding'
  BY <1>4, <1>1 DEF Register, Outstanding, Issued
<1>5. ASSUME NEW r \in Req, InviteSave(r)
      PROVE  OneOutstanding'
  <2>1. CASE invitation' = invitation
    BY <2>1, <1>1 DEF Outstanding, Issued
  <2>2. ASSUME NEW n \in Invitation, NextInvitation(n),
               NoneOutstanding(req[r].email, req[r].stale),
               invitation' = [j \in Invitation |->
                   IF j = n THEN [NoInvitation EXCEPT !.email = req[r].email,
                                                      !.permissions = req[r].permissions]
                   ELSE [invitation[j] EXCEPT !.revoked = @ \/ j \in req[r].stale]]
        PROVE  OneOutstanding'
    <3>1. invitation'[n].email = req[r].email
      BY <2>2 DEF NoInvitation
    <3>2. ASSUME NEW j \in Invitation, j # n
          PROVE  /\ invitation'[j].email = invitation[j].email
                 /\ invitation'[j].account = invitation[j].account
                 /\ invitation'[j].revoked <=> invitation[j].revoked \/ j \in req[r].stale
      BY <2>2, <3>2 DEF InvitationInv, TypeOK, InvitationRow
    <3>3. ASSUME NEW j \in Invitation, j # n, Outstanding(j)'
          PROVE  Outstanding(j) /\ j \notin req[r].stale /\ invitation'[j].email # invitation'[n].email
      <4>1. Outstanding(j) /\ j \notin req[r].stale
        BY <3>2, <3>3 DEF Outstanding, Issued
      <4> QED BY <2>2, <3>1, <3>2, <3>3, <4>1 DEF NoneOutstanding
    <3> QED BY <3>2, <3>3 DEF OneOutstanding, InvitationInv
  <2> QED BY <1>5, <2>1, <2>2 DEF InviteSave
<1> QED BY <1>2, <1>3, <1>4, <1>5, Changes DEF InvitationInv

LEMMA InvitationInvariant == Spec => []InvitationInv
<1>1. InvitationInv /\ [Next]_vars => InvitationInv'
  BY TypeStep, AcceptStep, AccountStep, OutstandingStep DEF InvitationInv
<1> QED BY <1>1, InvitationInit, PTL DEF Spec

\* An address never has two outstanding invitations, and however many requests
\* accept one at once, one account comes of it, which the invitation names for
\* good.
THEOREM InvitationsSoundHolds == Spec => []InvitationsSound
<1>1. InvitationInv => OneOutstanding
  BY DEF InvitationInv
<1>2. InvitationInv => AccountPerInvitation
  BY DEF InvitationInv, AccountPerInvitation, Backed, UniqueEmail, AccountRows
<1>3. InvitationInv => InvitationsSound
  BY <1>1, <1>2 DEF InvitationsSound
<1> QED BY <1>3, InvitationInvariant, PTL

-----------------------------------------------------------------------------
(* Roles *)

\* Only the transaction of a deletion, past its foreign key, ends a role.
LEMMA EndOfRole ==
  ASSUME TypeOK, [Next]_vars, NEW x \in Role, role'[x] = "deleted", role[x] # "deleted"
  PROVE  \E r \in Req : DeleteRole(r) /\ req[r].role = x /\ Restrict(x)
<1>1. role' # role
  OBVIOUS
<1>2. ASSUME NEW r \in Req, NEW y \in Role
      PROVE  ~CreateRole(r, y)
  BY DEF CreateRole, TypeOK
<1>3. PICK r \in Req : DeleteRole(r)
  <2>1. PICK r \in Req : RoleStep(r)
    BY <1>1 DEF Next, vars, tables, InvitationStep, InviteLookup, InviteFind, InviteSave,
       AcceptCheck, AcceptCommit, AcceptFails, RevokeCheck, RevokeMark, AdminStep, LoadAdmin,
       GrantPermissions, RevokePermissions, DeleteAdmin, ChangeStatus, CheckStep, CheckStart,
       CheckRead, Proceed, Expire, Register
  <2>2. DeleteRole(r)
    BY <1>1, <1>2, <2>1 DEF RoleStep, DeleteRoleLoad, SetLoad, AssignLoad, DeleteRoleCount,
       DeleteRoleAborted, SetDelete, SetUnblock, SetInsert, AssignRole, UnassignRole, tables
  <2> QED BY <2>2
<1>4. req[r].role = x /\ Restrict(x)
  BY <1>3 DEF DeleteRole, TypeOK
<1> QED BY <1>3, <1>4

\* Whatever is assigned between the count and the deletion, the foreign key
\* lets no role go that an account holds.
THEOREM DeletionTakesNothingHolds == Spec => DeletionTakesNothing
<1> DEFINE Takes == \A x \in Role : role'[x] = "deleted" /\ role[x] # "deleted" =>
                      \A a \in Account : Effective(a)' = Effective(a)
<1>1. TypeOK /\ [Next]_vars => [Takes]_vars
  <2> SUFFICES ASSUME TypeOK, [Next]_vars, NEW x \in Role,
                      role'[x] = "deleted", role[x] # "deleted", NEW a \in Account
               PROVE  Effective(a)' = Effective(a)
    OBVIOUS
  <2>1. PICK r \in Req : DeleteRole(r) /\ req[r].role = x /\ Restrict(x)
    BY EndOfRole
  <2>2. /\ holds' = [b \in Account |-> holds[b] \ {x}]
        /\ contents' = [contents EXCEPT ![x] = {}]
        /\ grant' = grant
    BY <2>1 DEF DeleteRole
  <2>3. x \notin holds[a]
    BY <2>1 DEF Restrict, Assigned
  <2>4. holds'[a] = holds[a]
    BY <2>2, <2>3 DEF TypeOK
  <2>5. \A y \in holds[a] : contents'[y] = contents[y]
    BY <2>2, <2>3 DEF TypeOK
  <2>6. (UNION {contents[y] : y \in holds[a]})' = UNION {contents[y] : y \in holds[a]}
    BY <2>4, <2>5
  <2> QED BY <2>2, <2>6 DEF Effective, Direct, ViaRoles
<1> QED BY <1>1, Typed, PTL DEF Spec, DeletionTakesNothing

-----------------------------------------------------------------------------
(* The evaluation of a requirement *)

\* A step of another kind starts no judgement and continues none.
LEMMA NoJudgement ==
  ASSUME TypeOK, NEW r \in Req, InvitationStep(r) \/ AdminStep(r) \/ RoleStep(r)
  PROVE  req'[r].at \notin {"check", "allowed"}
<1>q. req[r] \in Request /\ Idle.at = "idle"
  BY IdleType DEF TypeOK
<1>3. CASE InvitationStep(r)
  <2>1. ASSUME NEW e \in Email, NEW P \in Delegated, InviteLookup(r, e, P)
        PROVE  req'[r].at \notin {"check", "allowed"}
    BY <2>1 DEF InviteLookup, Start, Idle, TypeOK
  <2>2. ASSUME NEW i \in Invitation, AcceptCheck(r, i) \/ RevokeCheck(r, i)
        PROVE  req'[r].at \notin {"check", "allowed"}
    BY <2>2 DEF AcceptCheck, RevokeCheck, Start, Idle, TypeOK
  <2>3. CASE InviteFind(r)
    BY <2>3, <1>q DEF InviteFind, Goto, TypeOK, Request
  <2>4. CASE InviteSave(r) \/ AcceptCommit(r) \/ AcceptFails(r) \/ RevokeMark(r)
    <3>1. req' = [req EXCEPT ![r] = Idle]
      BY <2>4 DEF InviteSave, AcceptCommit, AcceptFails, RevokeMark, Finish, Goto
    <3> QED BY <3>1, <1>q DEF TypeOK
  <2> QED BY <1>3, <2>1, <2>2, <2>3, <2>4 DEF InvitationStep
<1>4. CASE AdminStep(r)
  <2>1. ASSUME NEW a \in Account, NEW P,
               NEW label \in {"grant", "ungrant", "delete", "activate", "deactivate"},
               LoadAdmin(r, a, label, P)
        PROVE  req'[r].at \notin {"check", "allowed"}
    BY <2>1 DEF LoadAdmin, Start, Idle, TypeOK
  <2>2. CASE GrantPermissions(r) \/ RevokePermissions(r) \/ DeleteAdmin(r) \/ ChangeStatus(r)
    <3>1. req' = [req EXCEPT ![r] = Idle]
      BY <2>2 DEF GrantPermissions, RevokePermissions, DeleteAdmin, ChangeStatus, Finish, Goto
    <3> QED BY <3>1, <1>q DEF TypeOK
  <2> QED BY <1>4, <2>1, <2>2 DEF AdminStep
<1>5. CASE RoleStep(r)
  <2>1. ASSUME NEW x \in Role, CreateRole(r, x) \/ DeleteRoleLoad(r, x)
        PROVE  req'[r].at \notin {"check", "allowed"}
    <3>1. CASE CreateRole(r, x)
      BY <3>1, <1>q DEF CreateRole, Start, TypeOK
    <3>2. CASE DeleteRoleLoad(r, x)
      BY <3>2 DEF DeleteRoleLoad, Start, Idle, TypeOK
    <3> QED BY <2>1, <3>1, <3>2
  <2>2. ASSUME NEW x \in Role, NEW P \in Delegated, SetLoad(r, x, P)
        PROVE  req'[r].at \notin {"check", "allowed"}
    BY <2>2 DEF SetLoad, Start, Idle, TypeOK
  <2>3. ASSUME NEW x \in Role, NEW a \in Account, NEW label \in {"assign", "unassign"},
               AssignLoad(r, a, x, label)
        PROVE  req'[r].at \notin {"check", "allowed"}
    BY <2>3 DEF AssignLoad, Start, Idle, TypeOK
  <2>4. CASE DeleteRoleCount(r)
    BY <2>4, <1>q DEF DeleteRoleCount, Finish, Goto, TypeOK, Request
  <2>5. CASE SetDelete(r)
    <3>1. PICK label \in {"set.insert", "set.blocked"}, S \in SUBSET (DeletedRows(req[r].role)),
               W \in SUBSET (DeletedRows(req[r].role)) :
            req' = [req EXCEPT ![r] = [req[r] EXCEPT !.at = label, !.found = S, !.waits = W]]
      BY <2>5 DEF SetDelete, Goto
    <3> QED BY <3>1, <1>q DEF TypeOK, Request
  <2>6. CASE SetUnblock(r)
    BY <2>6, <1>q DEF SetUnblock, Goto, TypeOK, Request
  <2>7. CASE DeleteRole(r) \/ DeleteRoleAborted(r) \/ SetInsert(r) \/ AssignRole(r) \/ UnassignRole(r)
    <3>1. req' = [req EXCEPT ![r] = Idle]
      BY <2>7 DEF DeleteRole, DeleteRoleAborted, SetInsert, AssignRole, UnassignRole, Finish, Goto
    <3> QED BY <3>1, <1>q DEF TypeOK
  <2> QED BY <1>5, <2>1, <2>2, <2>3, <2>4, <2>5, <2>6, <2>7 DEF RoleStep
<1> QED BY <1>3, <1>4, <1>5

\* What a judgement has collected, its account has held since it began.
Judged(r) ==
  /\ req[r].at \in {"check", "allowed"} => req[r].permissions \cap Reserved = {}
  /\ req[r].at = "check" => req[r].permissions \cap req[r].found \subseteq held[r]
  /\ req[r].at = "allowed" => req[r].permissions \subseteq held[r]

\* A request that a step leaves alone loses nothing of what it has seen.
LEMMA JudgedKept ==
  ASSUME TypeOK, NEW r \in Req, Judged(r), req'[r] = req[r], Observe
  PROVE  Judged(r)'
<1>1. req'[r].at \in {"check", "allowed"} =>
        req[r].permissions \cap held[r] \subseteq held'[r]
  BY DEF Observe
<1> QED BY <1>1 DEF Judged

\* A query collects what the tables show at its moment, and the verdict asks
\* that nothing be missing.
LEMMA JudgedStep ==
  ASSUME TypeOK, NEW r \in Req, Judged(r), CheckStep(r)
  PROVE  Judged(r)'
<1>q. req[r] \in Request /\ Idle.at = "idle"
  BY IdleType DEF TypeOK
<1>1. ASSUME NEW a \in Account, NEW P \in SUBSET Permission, CheckStart(r, a, P)
      PROVE  Judged(r)'
  BY <1>1 DEF CheckStart, Start, Idle, Judged, TypeOK
<1>2. ASSUME NEW source \in Source, CheckRead(r, source)
      PROVE  Judged(r)'
  <2> DEFINE a     == req[r].account
             new   == IF source = "direct" THEN Direct(a) ELSE ViaRoles(a)
             found == req[r].found \cup new
             left  == req[r].left \ {source}
             seen  == held[r] \cup grant'[a] \cup UNION {contents'[x] : x \in holds'[a]}
  <2>1. req[r].permissions \cap found \subseteq req[r].permissions \cap seen
    <3>1. new \subseteq seen
      BY <1>2 DEF CheckRead, tables, Direct, ViaRoles
    <3>2. req[r].permissions \cap req[r].found \subseteq seen
      BY <1>2 DEF CheckRead, Judged
    <3> HIDE DEF new, seen
    <3> QED BY <3>1, <3>2
  <2>2. ASSUME req'[r].at \in {"check", "allowed"}, req'[r].account = a,
               req'[r].permissions = req[r].permissions
        PROVE  held'[r] = req[r].permissions \cap seen
    <3>1. Observe
      BY <1>2 DEF CheckRead, Goto, Finish
    <3> QED BY <2>2, <3>1 DEF Observe
  <2>3. req[r].permissions \cap Reserved = {}
    BY <1>2 DEF CheckRead, Judged
  <2> DEFINE more    == [req[r] EXCEPT !.found = found, !.left = left]
             granted == [req[r] EXCEPT !.at = "allowed", !.found = {}, !.left = {}]
  <2>4. \/ req' = [req EXCEPT ![r] = more]
        \/ req' = [req EXCEPT ![r] = granted] /\ req[r].permissions \subseteq found
        \/ req' = [req EXCEPT ![r] = Idle]
    BY <1>2 DEF CheckRead, Goto, Finish, Satisfied
  <2>5. req[r].at = "check"
    BY <1>2 DEF CheckRead
  <2> HIDE DEF seen, found, left, new
  <2>6. CASE req' = [req EXCEPT ![r] = more]
    <3>1. /\ req'[r].at = "check" /\ req'[r].account = a
          /\ req'[r].permissions = req[r].permissions /\ req'[r].found = found
      BY <2>5, <2>6, <1>q DEF TypeOK, Request
    <3>2. held'[r] = req[r].permissions \cap seen
      BY <2>2, <3>1
    <3> QED BY <2>1, <2>3, <3>1, <3>2 DEF Judged
  <2>7. CASE req' = [req EXCEPT ![r] = granted] /\ req[r].permissions \subseteq found
    <3>1. /\ req'[r].at = "allowed" /\ req'[r].account = a
          /\ req'[r].permissions = req[r].permissions
      BY <2>7, <1>q DEF TypeOK, Request
    <3>2. held'[r] = req[r].permissions \cap seen
      BY <2>2, <3>1
    <3> QED BY <2>1, <2>3, <2>7, <3>1, <3>2 DEF Judged
  <2>8. CASE req' = [req EXCEPT ![r] = Idle]
    <3>1. req'[r].at = "idle"
      BY <2>8, <1>q DEF TypeOK
    <3> QED BY <3>1 DEF Judged
  <2> QED BY <2>4, <2>6, <2>7, <2>8
<1>3. CASE Proceed(r)
  <2>1. req'[r].at = "idle"
    BY <1>3, <1>q DEF Proceed, Finish, Goto, TypeOK
  <2> QED BY <2>1 DEF Judged
<1> QED BY <1>1, <1>2, <1>3 DEF CheckStep

\* A request is let through only with permissions that its account has held
\* since it was first looked at, however grants, roles and assignments change.
THEOREM AllowedWasHeldHolds == Spec => []AllowedWasHeld
<1> DEFINE AllJudged == \A r \in Req : Judged(r)
<1>1. Init => AllJudged
  BY IdleType DEF Init, Judged
<1>2. TypeOK /\ AllJudged /\ [Next]_vars => AllJudged'
  <2> SUFFICES ASSUME TypeOK, AllJudged, [Next]_vars, NEW r \in Req
               PROVE  Judged(r)'
    OBVIOUS
  <2>1. CASE UNCHANGED vars
    BY <2>1 DEF vars, Judged
  <2>2. ASSUME NEW q \in Req, InvitationStep(q) \/ AdminStep(q) \/ RoleStep(q) \/ CheckStep(q)
        PROVE  Judged(r)'
    <3>1. Observe /\ \A p \in Req \ {q} : req'[p] = req[p]
      BY <2>2 DEF TypeOK, InvitationStep, InviteLookup, InviteFind, InviteSave,
       AcceptCheck, AcceptCommit, AcceptFails, RevokeCheck, RevokeMark, AdminStep, LoadAdmin,
       GrantPermissions, RevokePermissions, DeleteAdmin, ChangeStatus, CheckStep, CheckStart,
       CheckRead, Proceed, RoleStep, CreateRole, DeleteRoleLoad, SetLoad, AssignLoad,
       DeleteRoleCount, DeleteRole, DeleteRoleAborted, SetDelete, SetUnblock, SetInsert,
       AssignRole, UnassignRole, Start, Finish, Goto
    <3>2. CASE r # q
      BY <3>1, <3>2, JudgedKept
    <3>3. CASE r = q /\ CheckStep(q)
      BY <3>3, JudgedStep
    <3>4. CASE r = q /\ ~CheckStep(q)
      <4>1. req'[r].at \notin {"check", "allowed"}
        BY <2>2, <3>4, NoJudgement
      <4> QED BY <4>1 DEF Judged
    <3> QED BY <3>2, <3>3, <3>4
  <2>3. CASE (\E i \in Invitation : Expire(i)) \/ (\E e \in Email : Register(e))
    <3>1. Observe /\ req' = req
      BY <2>3 DEF Expire, Register
    <3> QED BY <3>1, JudgedKept
  <2> QED BY <2>1, <2>2, <2>3 DEF Next
<1>3. AllJudged => AllowedWasHeld
  BY DEF Judged, AllowedWasHeld
<1> HIDE DEF AllJudged
<1> QED BY <1>1, <1>2, <1>3, Typed, PTL DEF Spec

-----------------------------------------------------------------------------
(* The replacement of a role's permissions *)

\* A role that is not there has no permissions.
AbsentIsEmpty == \A x \in Role : ~Present(x) => contents[x] = {}

\* What a replacement will not take away when it inserts: rows it has not deleted
\* itself, which it waits for or which an overlapping replacement inserted.
Spares(r) ==
  contents[req[r].role] \ req[r].found
    \subseteq (req[r].waits \cap LockedRows(r, req[r].role)) \cup overlap[r]

Replacements ==
  /\ \A r \in Req : Replacing(req[r]) => Spares(r)
  /\ \A r \in Req : req[r].at = "set.insert" => req[r].waits = {}

ReplacementInv == TypeOK /\ AbsentIsEmpty /\ Replacements

\* A step that takes no part in a replacement.
Aside ==
  /\ \A r \in Req : Replacing(req[r]) \/ Replacing(req'[r]) => req'[r] = req[r]
  /\ \A x \in Role : contents'[x] \subseteq contents[x]

\* A step that is no part of a replacement neither enters nor leaves one.
LEMMA NoReplacement ==
  ASSUME TypeOK, NEW r \in Req,
         InvitationStep(r) \/ AdminStep(r) \/ RoleStep(r) \/ CheckStep(r),
         ~SetDelete(r), ~SetUnblock(r), ~SetInsert(r)
  PROVE  ~Replacing(req[r]) /\ ~Replacing(req'[r])
<1>q. req[r] \in Request /\ Idle.at = "idle"
  BY IdleType DEF TypeOK
<1>1. ~Replacing(req[r])
  BY DEF InvitationStep, InviteLookup, InviteFind, InviteSave,
       AcceptCheck, AcceptCommit, AcceptFails, RevokeCheck, RevokeMark, AdminStep, LoadAdmin,
       GrantPermissions, RevokePermissions, DeleteAdmin, ChangeStatus, CheckStep, CheckStart,
       CheckRead, Proceed, RoleStep, CreateRole, DeleteRoleLoad, SetLoad, AssignLoad,
       DeleteRoleCount, DeleteRole, DeleteRoleAborted, AssignRole, UnassignRole, Start, Replacing
<1> SUFFICES req'[r].at \notin {"set.blocked", "set.insert"}
  BY <1>1 DEF Replacing
<1>2. ASSUME NEW first, Start(r, first), first.at \notin {"set.blocked", "set.insert"}
      PROVE  req'[r].at \notin {"set.blocked", "set.insert"}
  BY <1>2 DEF Start, TypeOK
<1>3. ASSUME Finish(r)
      PROVE  req'[r].at \notin {"set.blocked", "set.insert"}
  BY <1>3, <1>q DEF Finish, Goto, TypeOK, Replacing
<1>4. CASE InvitationStep(r)
  <2>1. ASSUME NEW e \in Email, NEW P \in Delegated, InviteLookup(r, e, P)
        PROVE  req'[r].at \notin {"set.blocked", "set.insert"}
    BY <2>1, <1>2 DEF InviteLookup, Idle, Replacing
  <2>2. ASSUME NEW i \in Invitation, AcceptCheck(r, i) \/ RevokeCheck(r, i)
        PROVE  req'[r].at \notin {"set.blocked", "set.insert"}
    BY <2>2, <1>2 DEF AcceptCheck, RevokeCheck, Idle, Replacing
  <2>3. CASE InviteFind(r)
    BY <2>3, <1>q DEF InviteFind, Goto, TypeOK, Request, Replacing
  <2>4. CASE InviteSave(r) \/ AcceptCommit(r) \/ AcceptFails(r) \/ RevokeMark(r)
    BY <2>4, <1>3 DEF InviteSave, AcceptCommit, AcceptFails, RevokeMark
  <2> QED BY <1>4, <2>1, <2>2, <2>3, <2>4 DEF InvitationStep
<1>5. CASE AdminStep(r)
  <2>1. ASSUME NEW a \in Account, NEW P,
               NEW label \in {"grant", "ungrant", "delete", "activate", "deactivate"},
               LoadAdmin(r, a, label, P)
        PROVE  req'[r].at \notin {"set.blocked", "set.insert"}
    BY <2>1, <1>2 DEF LoadAdmin, Idle, Replacing
  <2>2. CASE GrantPermissions(r) \/ RevokePermissions(r) \/ DeleteAdmin(r) \/ ChangeStatus(r)
    BY <2>2, <1>3 DEF GrantPermissions, RevokePermissions, DeleteAdmin, ChangeStatus
  <2> QED BY <1>5, <2>1, <2>2 DEF AdminStep
<1>6. CASE RoleStep(r)
  <2>1. ASSUME NEW x \in Role, CreateRole(r, x) \/ DeleteRoleLoad(r, x)
        PROVE  req'[r].at \notin {"set.blocked", "set.insert"}
    BY <2>1, <1>2 DEF CreateRole, DeleteRoleLoad, Idle, Replacing
  <2>2. ASSUME NEW x \in Role, NEW P \in Delegated, SetLoad(r, x, P)
        PROVE  req'[r].at \notin {"set.blocked", "set.insert"}
    BY <2>2, <1>2 DEF SetLoad, Idle, Replacing
  <2>3. ASSUME NEW x \in Role, NEW a \in Account, NEW label \in {"assign", "unassign"},
               AssignLoad(r, a, x, label)
        PROVE  req'[r].at \notin {"set.blocked", "set.insert"}
    BY <2>3, <1>2 DEF AssignLoad, Idle, Replacing
  <2>4. CASE DeleteRoleCount(r)
    BY <2>4, <1>q, <1>3 DEF DeleteRoleCount, Goto, TypeOK, Request, Replacing
  <2>5. CASE DeleteRole(r) \/ DeleteRoleAborted(r) \/ AssignRole(r) \/ UnassignRole(r)
    BY <2>5, <1>3 DEF DeleteRole, DeleteRoleAborted, AssignRole, UnassignRole
  <2> QED BY <1>6, <2>1, <2>2, <2>3, <2>4, <2>5 DEF RoleStep
<1>7. CASE CheckStep(r)
  <2>1. ASSUME NEW a \in Account, NEW P \in SUBSET Permission, CheckStart(r, a, P)
        PROVE  req'[r].at \notin {"set.blocked", "set.insert"}
    BY <2>1, <1>2 DEF CheckStart, Idle, Replacing
  <2>2. ASSUME NEW source \in Source, CheckRead(r, source)
        PROVE  req'[r].at \notin {"set.blocked", "set.insert"}
    <3> DEFINE found == req[r].found \cup
                          (IF source = "direct" THEN Direct(req[r].account) ELSE ViaRoles(req[r].account))
               left  == req[r].left \ {source}
    <3>1. \/ req' = [req EXCEPT ![r] = [req[r] EXCEPT !.found = found, !.left = left]]
          \/ req' = [req EXCEPT ![r] = [req[r] EXCEPT !.at = "allowed", !.found = {}, !.left = {}]]
          \/ Finish(r)
      BY <2>2 DEF CheckRead, Goto
    <3>2. req[r].at = "check"
      BY <2>2 DEF CheckRead
    <3> HIDE DEF found, left
    <3>3. CASE req' = [req EXCEPT ![r] = [req[r] EXCEPT !.found = found, !.left = left]]
      BY <3>2, <3>3, <1>q DEF TypeOK, Request
    <3>4. CASE req' = [req EXCEPT ![r] = [req[r] EXCEPT !.at = "allowed", !.found = {}, !.left = {}]]
      BY <3>4, <1>q DEF TypeOK, Request
    <3> QED BY <3>1, <3>3, <3>4, <1>3
  <2>3. CASE Proceed(r)
    BY <2>3, <1>3 DEF Proceed
  <2> QED BY <1>7, <2>1, <2>2, <2>3 DEF CheckStep
<1> QED BY <1>4, <1>5, <1>6, <1>7

\* What is not a step of a replacement takes no part in one.
LEMMA ReplacementSteps ==
  ASSUME TypeOK, [Next]_vars
  PROVE  \/ UNCHANGED vars
         \/ Observe /\ (Aside \/ \E r \in Req : SetDelete(r) \/ SetUnblock(r) \/ SetInsert(r))
<1>1. ASSUME NEW q \in Req, InvitationStep(q) \/ AdminStep(q) \/ RoleStep(q) \/ CheckStep(q)
      PROVE  Observe /\ (Aside \/ SetDelete(q) \/ SetUnblock(q) \/ SetInsert(q))
  <2>1. Observe /\ \A p \in Req \ {q} : req'[p] = req[p]
    BY <1>1 DEF TypeOK, InvitationStep, InviteLookup, InviteFind, InviteSave,
       AcceptCheck, AcceptCommit, AcceptFails, RevokeCheck, RevokeMark, AdminStep, LoadAdmin,
       GrantPermissions, RevokePermissions, DeleteAdmin, ChangeStatus, CheckStep, CheckStart,
       CheckRead, Proceed, RoleStep, CreateRole, DeleteRoleLoad, SetLoad, AssignLoad,
       DeleteRoleCount, DeleteRole, DeleteRoleAborted, SetDelete, SetUnblock, SetInsert,
       AssignRole, UnassignRole, Start, Finish, Goto
  <2>2. ASSUME ~SetDelete(q), ~SetUnblock(q), ~SetInsert(q)
        PROVE  Aside
    <3>1. ~Replacing(req[q]) /\ ~Replacing(req'[q])
      BY <1>1, <2>2, NoReplacement
    <3>2. contents' = contents \/ DeleteRole(q)
      BY <1>1, <2>2 DEF InvitationStep, InviteLookup, InviteFind, InviteSave,
       AcceptCheck, AcceptCommit, AcceptFails, RevokeCheck, RevokeMark, AdminStep, LoadAdmin,
       GrantPermissions, RevokePermissions, DeleteAdmin, ChangeStatus, CheckStep, CheckStart,
       CheckRead, Proceed, RoleStep, CreateRole, DeleteRoleLoad, SetLoad, AssignLoad,
       DeleteRoleCount, DeleteRoleAborted, AssignRole, UnassignRole, tables
    <3>3. \A x \in Role : contents'[x] \subseteq contents[x]
      BY <3>2 DEF DeleteRole, TypeOK
    <3> QED BY <2>1, <3>1, <3>3 DEF Aside
  <2> QED BY <2>1, <2>2
<1>2. ASSUME (\E i \in Invitation : Expire(i)) \/ (\E e \in Email : Register(e))
      PROVE  Observe /\ Aside
  BY <1>2 DEF Expire, Register, Aside
<1> QED BY <1>1, <1>2 DEF Next

\* What an overlapping replacement adds, the history of a replacement has.
LEMMA OverlapGrows ==
  ASSUME TypeOK, Observe, NEW r \in Req, Replacing(req'[r])
  PROVE  /\ overlap[r] \subseteq overlap'[r]
         /\ \A o \in Req \ {r} :
              req[o].at = "set.insert" /\ req'[o].at = "idle" /\ req[o].role = req'[r].role
                => req[o].permissions \subseteq overlap'[r]
<1> DEFINE Others == {p \in Req \ {r} :
               req[p].at = "set.insert" /\ req'[p].at = "idle" /\ req[p].role = req'[r].role}
<1>1. overlap'[r] = overlap[r] \cup UNION {req[o].permissions : o \in Others}
  BY DEF Observe
<1>2. \A o \in Others : req[o].permissions \subseteq UNION {req[p].permissions : p \in Others}
  OBVIOUS
<1> HIDE DEF Others
<1>3. /\ overlap[r] \subseteq overlap'[r]
      /\ \A o \in Others : req[o].permissions \subseteq overlap'[r]
  BY <1>1, <1>2
<1> QED BY <1>3 DEF Others

\* The rows others hold, spelt out.
LEMMA RowsLocked ==
  ASSUME NEW r \in Req, NEW x, NEW k
  PROVE  k \in LockedRows(r, x)
           <=> \E o \in Req \ {r} : Replacing(req[o]) /\ req[o].role = x /\ k \in req[o].found
BY DEF LockedRows

LEMMA RowsLockedNext ==
  ASSUME NEW r \in Req, NEW x, NEW k
  PROVE  k \in LockedRows(r, x)'
           <=> \E o \in Req \ {r} : Replacing(req'[o]) /\ req'[o].role = x /\ k \in req'[o].found
BY DEF LockedRows, Replacing

\* What a replacement spares stays accounted for while another request moves: rows
\* that the others no longer hold are gone, or they have been inserted meanwhile.
LEMMA SparesKept ==
  ASSUME ReplacementInv, Observe, NEW r \in Req, Replacing(req[r]), req'[r] = req[r],
         \/ Aside
         \/ \E o \in Req \ {r} : SetDelete(o) \/ SetUnblock(o) \/ SetInsert(o)
  PROVE  Spares(r)'
<1>x. PICK x : x = req[r].role
  OBVIOUS
<1>0. TypeOK /\ Spares(r) /\ x \in Role /\ req[r] \in Request
  BY <1>x DEF ReplacementInv, Replacements, TypeOK, Request, Replacing
<1>1. SUFFICES ASSUME NEW k \in contents'[x], k \notin req[r].found, k \notin overlap'[r]
               PROVE  k \in req[r].waits /\ k \in LockedRows(r, x)'
  BY <1>x DEF Spares
<1>2. overlap[r] \subseteq overlap'[r]
  BY <1>0, OverlapGrows
<1>3. ASSUME k \in contents[x],
             \A o \in Req \ {r} : Replacing(req[o]) /\ req[o].role = x /\ k \in req[o].found =>
               Replacing(req'[o]) /\ req'[o].role = x /\ k \in req'[o].found
      PROVE  k \in req[r].waits /\ k \in LockedRows(r, x)'
  <2>1. k \in req[r].waits /\ k \in LockedRows(r, x)
    BY <1>x, <1>0, <1>1, <1>2, <1>3 DEF Spares
  <2> QED BY <1>3, <2>1, RowsLocked, RowsLockedNext
<1>4. CASE Aside
  BY <1>x, <1>0, <1>1, <1>3, <1>4 DEF Aside
<1>5. ASSUME NEW o \in Req \ {r}, SetDelete(o)
      PROVE  k \in req[r].waits /\ k \in LockedRows(r, x)'
  <2>1. ~Replacing(req[o]) /\ contents' = contents
    BY <1>5 DEF SetDelete, Replacing, tables
  <2>2. \A p \in Req \ {o} : req'[p] = req[p]
    BY <1>0, <1>5 DEF SetDelete, Goto, TypeOK
  <2> QED BY <1>1, <1>3, <2>1, <2>2
<1>6. ASSUME NEW o \in Req \ {r}, SetUnblock(o)
      PROVE  k \in req[r].waits /\ k \in LockedRows(r, x)'
  <2>1. contents' = contents /\ req' = [req EXCEPT ![o] = [req[o] EXCEPT !.at = "set.insert", !.waits = {}]]
    BY <1>6 DEF SetUnblock, Goto, tables
  <2>2. req[o] \in Request
    BY <1>0, <1>6 DEF TypeOK
  <2>3. req'[o].at = "set.insert" /\ req'[o].role = req[o].role /\ req'[o].found = req[o].found
    BY <1>0, <2>1, <2>2 DEF TypeOK, Request
  <2>4. \A p \in Req \ {o} : req'[p] = req[p]
    BY <1>0, <2>1 DEF TypeOK
  <2> QED BY <1>1, <1>3, <2>1, <2>3, <2>4 DEF Replacing
<1>7. ASSUME NEW o \in Req \ {r}, SetInsert(o)
      PROVE  k \in req[r].waits /\ k \in LockedRows(r, x)'
  <2>1. /\ req[o].at = "set.insert" /\ req' = [req EXCEPT ![o] = Idle]
        /\ contents' = IF Present(req[o].role)
             THEN [contents EXCEPT ![req[o].role] = (@ \ req[o].found) \cup req[o].permissions]
             ELSE contents
    BY <1>7 DEF SetInsert, Finish, Goto
  <2>2. req'[o].at = "idle" /\ \A p \in Req \ {o} : req'[p] = req[p]
    BY <1>0, <2>1, IdleType DEF TypeOK
  <2>3. CASE req[o].role # x
    <3>1. contents'[x] = contents[x]
      BY <1>0, <2>1, <2>3 DEF TypeOK
    <3> QED BY <1>1, <1>3, <2>2, <2>3, <3>1
  <2>4. CASE req[o].role = x /\ ~Present(x)
    BY <1>0, <1>1, <2>1, <2>4 DEF ReplacementInv, AbsentIsEmpty
  <2>5. CASE req[o].role = x /\ Present(x)
    <3>1. contents'[x] = (contents[x] \ req[o].found) \cup req[o].permissions
      BY <1>0, <2>1, <2>5 DEF TypeOK
    <3>2. req[o].permissions \subseteq overlap'[r]
      BY <1>0, <2>1, <2>2, <2>5, <1>x, OverlapGrows
    <3>3. k \in contents[x] /\ k \notin req[o].found
      BY <1>1, <3>1, <3>2
    <3> QED BY <1>1, <1>3, <2>2, <3>3
  <2> QED BY <2>3, <2>4, <2>5
<1> QED BY <1>4, <1>5, <1>6, <1>7

LEMMA AbsentStep ==
  ASSUME TypeOK, AbsentIsEmpty, [Next]_vars
  PROVE  AbsentIsEmpty'
<1> SUFFICES ASSUME NEW x \in Role, role'[x] # "present"
             PROVE  contents'[x] = {}
  BY DEF AbsentIsEmpty, Present
<1>1. ASSUME NEW r \in Req, SetInsert(r)
      PROVE  contents'[x] = {}
  <2>1. role' = role /\ contents[x] = {}
    BY <1>1 DEF SetInsert, AbsentIsEmpty, Present
  <2>2. contents'[x] = contents[x]
    BY <1>1, <2>1 DEF SetInsert, Present, TypeOK
  <2> QED BY <2>1, <2>2
<1>2. ASSUME NEW r \in Req, DeleteRole(r)
      PROVE  contents'[x] = {}
  BY <1>2 DEF DeleteRole, AbsentIsEmpty, Present, TypeOK
<1>3. ASSUME contents' = contents, role[x] # "present"
      PROVE  contents'[x] = {}
  BY <1>3 DEF AbsentIsEmpty, Present
<1>4. ASSUME NEW r \in Req, NEW y \in Role, CreateRole(r, y)
      PROVE  contents' = contents /\ role[x] # "present"
  BY <1>4 DEF CreateRole, TypeOK
<1>5. ASSUME NEW r \in Req, InvitationStep(r) \/ AdminStep(r) \/ CheckStep(r)
      PROVE  contents' = contents /\ role[x] # "present"
  BY <1>5 DEF InvitationStep, InviteLookup, InviteFind, InviteSave,
       AcceptCheck, AcceptCommit, AcceptFails, RevokeCheck, RevokeMark, AdminStep, LoadAdmin,
       GrantPermissions, RevokePermissions, DeleteAdmin, ChangeStatus, CheckStep, CheckStart,
       CheckRead, Proceed, tables
<1>6. ASSUME NEW r \in Req, RoleStep(r)
      PROVE  \/ contents' = contents /\ role[x] # "present"
             \/ SetInsert(r) \/ DeleteRole(r)
  BY <1>4, <1>6 DEF RoleStep, DeleteRoleLoad, SetLoad, AssignLoad, DeleteRoleCount,
       DeleteRoleAborted, SetDelete, SetUnblock, AssignRole, UnassignRole, tables
<1>7. ASSUME (\E i \in Invitation : Expire(i)) \/ (\E e \in Email : Register(e)) \/ UNCHANGED vars
      PROVE  contents' = contents /\ role[x] # "present"
  BY <1>7 DEF Expire, Register, vars, tables
<1> QED BY <1>1, <1>2, <1>3, <1>5, <1>6, <1>7 DEF Next

\* The request that moves enters a replacement with all it has not deleted counted
\* as waited for, and goes on to insert when nothing of that is left.
LEMMA SparesStep ==
  ASSUME ReplacementInv, Observe, NEW r \in Req, SetDelete(r) \/ SetUnblock(r) \/ SetInsert(r)
  PROVE  /\ Replacing(req'[r]) => Spares(r)'
         /\ req'[r].at = "set.insert" => req'[r].waits = {}
<1>0. TypeOK /\ req[r] \in Request /\ Idle.at = "idle"
  BY IdleType DEF ReplacementInv, TypeOK
<1>1. CASE SetDelete(r)
  <2> DEFINE locked == DeletedRows(req[r].role) \cap LockedRows(r, req[r].role)
             label  == IF locked = {} THEN "set.insert" ELSE "set.blocked"
  <2>1. /\ req' = [req EXCEPT ![r] = [req[r] EXCEPT !.at = label,
                     !.found = DeletedRows(req[r].role) \ locked, !.waits = locked]]
        /\ contents' = contents
    BY <1>1 DEF SetDelete, Goto, tables
  <2>2. /\ req'[r].at = label /\ req'[r].role = req[r].role
        /\ req'[r].found = contents[req[r].role] \ locked /\ req'[r].waits = locked
        /\ \A p \in Req \ {r} : req'[p] = req[p]
    BY <1>0, <2>1 DEF TypeOK, Request, DeletedRows
  <2>3. ASSUME NEW k \in locked
        PROVE  k \in LockedRows(r, req[r].role)'
    BY <2>2, <2>3, RowsLocked, RowsLockedNext
  <2> HIDE DEF locked
  <2>4. Spares(r)'
    BY <2>1, <2>2, <2>3 DEF Spares
  <2> QED BY <2>2, <2>4
<1>2. CASE SetUnblock(r)
  <2>1. /\ req' = [req EXCEPT ![r] = [req[r] EXCEPT !.at = "set.insert", !.waits = {}]]
        /\ contents' = contents
        /\ req[r].waits \cap LockedRows(r, req[r].role) = {}
        /\ req[r].at = "set.blocked"
    BY <1>2 DEF SetUnblock, Goto, tables
  <2>2. /\ req'[r].at = "set.insert" /\ req'[r].role = req[r].role
        /\ req'[r].found = req[r].found /\ req'[r].waits = {}
    BY <1>0, <2>1 DEF TypeOK, Request
  <2>3. overlap[r] \subseteq overlap'[r]
    BY <1>0, <2>2, OverlapGrows DEF Replacing
  <2>4. contents[req[r].role] \ req[r].found \subseteq overlap[r]
    BY <2>1 DEF ReplacementInv, Replacements, Replacing, Spares
  <2>5. Spares(r)'
    BY <2>1, <2>2, <2>3, <2>4 DEF Spares
  <2> QED BY <2>2, <2>5
<1>3. CASE SetInsert(r)
  <2>1. req'[r].at = "idle"
    BY <1>0, <1>3 DEF SetInsert, Finish, Goto, TypeOK
  <2> QED BY <2>1 DEF Replacing
<1> QED BY <1>1, <1>2, <1>3

LEMMA ReplacementStep == ReplacementInv /\ [Next]_vars => ReplacementInv'
<1> SUFFICES ASSUME ReplacementInv, [Next]_vars
             PROVE  ReplacementInv'
  OBVIOUS
<1>0. TypeOK /\ TypeOK' /\ AbsentIsEmpty'
  BY TypeStep, AbsentStep DEF ReplacementInv
<1>1. CASE UNCHANGED vars
  BY <1>0, <1>1 DEF ReplacementInv, Replacements, Spares, Replacing, LockedRows, vars, tables
<1>2. ASSUME Observe, Aside, NEW r \in Req
      PROVE  /\ Replacing(req'[r]) => Spares(r)'
             /\ req'[r].at = "set.insert" => req'[r].waits = {}
  <2>1. ASSUME Replacing(req'[r])
        PROVE  Replacing(req[r]) /\ req'[r] = req[r]
    BY <1>2, <2>1 DEF Aside
  <2> QED BY <1>2, <2>1, SparesKept DEF ReplacementInv, Replacements, Replacing
<1>3. ASSUME Observe, NEW o \in Req, SetDelete(o) \/ SetUnblock(o) \/ SetInsert(o), NEW r \in Req
      PROVE  /\ Replacing(req'[r]) => Spares(r)'
             /\ req'[r].at = "set.insert" => req'[r].waits = {}
  <2>1. CASE r = o
    BY <1>3, <2>1, SparesStep
  <2>2. CASE r # o
    <3>1. req'[r] = req[r]
      BY <1>0, <1>3, <2>2 DEF SetDelete, SetUnblock, SetInsert, Finish, Goto, TypeOK
    <3>2. Replacing(req[r]) => Spares(r)'
      BY <1>3, <2>2, <3>1, SparesKept
    <3> QED BY <3>1, <3>2 DEF ReplacementInv, Replacements
  <2> QED BY <2>1, <2>2
<1>4. ASSUME \A r \in Req : /\ Replacing(req'[r]) => Spares(r)'
                            /\ req'[r].at = "set.insert" => req'[r].waits = {}
      PROVE  Replacements'
  BY <1>4 DEF Replacements, Replacing
<1>5. CASE Observe /\ Aside
  BY <1>0, <1>2, <1>4, <1>5 DEF ReplacementInv
<1>6. CASE Observe /\ \E o \in Req : SetDelete(o) \/ SetUnblock(o) \/ SetInsert(o)
  BY <1>0, <1>3, <1>4, <1>6 DEF ReplacementInv
<1> QED BY <1>0, <1>1, <1>5, <1>6, ReplacementSteps

LEMMA ReplacementInit == Init => ReplacementInv
<1> SUFFICES ASSUME Init
             PROVE  ReplacementInv
  OBVIOUS
<1>1. AbsentIsEmpty
  BY SeedAssumption DEF Init, AbsentIsEmpty, Present
<1>2. Replacements
  BY IdleType DEF Init, Replacements, Replacing
<1> QED BY <1>1, <1>2, TypeInit DEF ReplacementInv

\* However many replacements of a role overlap, with deletions of rows that wait for
\* each other, a role that is still there ends with what was asked for and with what
\* an overlapping replacement asked for.
THEOREM ReplacementsAreWhole == Spec => ReplacesWhole
<1> DEFINE Whole == \A r \in Req :
              req[r].at = "set.insert" /\ req'[r].at = "idle" /\ Present(req[r].role)
                => contents'[req[r].role] \subseteq req[r].permissions \cup overlap[r]
<1>1. ReplacementInv /\ [Next]_vars => [Whole]_vars
  <2> SUFFICES ASSUME ReplacementInv, [Next]_vars, NEW r \in Req,
                      req[r].at = "set.insert", req'[r].at = "idle", Present(req[r].role)
               PROVE  contents'[req[r].role] \subseteq req[r].permissions \cup overlap[r]
    OBVIOUS
  <2>0. TypeOK /\ req[r] \in Request /\ req[r].role \in Role
    BY DEF ReplacementInv, TypeOK, Request
  <2>1. SetInsert(r)
    <3>1. Replacing(req[r]) /\ req'[r] # req[r]
      BY DEF Replacing
    <3>2. PICK o \in Req : SetDelete(o) \/ SetUnblock(o) \/ SetInsert(o)
      BY <2>0, <3>1, ReplacementSteps DEF Aside, vars
    <3>3. o = r
      BY <2>0, <3>1, <3>2 DEF SetDelete, SetUnblock, SetInsert, Finish, Goto, TypeOK
    <3> QED BY <3>2, <3>3 DEF SetDelete, SetUnblock
  <2>2. contents'[req[r].role] = (contents[req[r].role] \ req[r].found) \cup req[r].permissions
    BY <2>0, <2>1 DEF SetInsert, TypeOK
  <2>3. contents[req[r].role] \ req[r].found \subseteq overlap[r]
    BY DEF ReplacementInv, Replacements, Replacing, Spares
  <2> QED BY <2>2, <2>3
<1>2. Spec => []ReplacementInv
  BY ReplacementInit, ReplacementStep, PTL DEF Spec
<1> QED BY <1>1, <1>2, PTL DEF Spec, ReplacesWhole

\* Overlapping changes of roles neither leave behind what they replace nor take away
\* what they do not name.
THEOREM RolesChangeWholeHolds == Spec => RolesChangeWhole
BY ReplacementsAreWhole, DeletionTakesNothingHolds, PTL DEF RolesChangeWhole
===============================================================================
