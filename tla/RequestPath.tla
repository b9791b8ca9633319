------------------------------ MODULE RequestPath ------------------------------
(***************************************************************************)
(* The path of a request (features/security, the cookies of features/auth):*)
(* a browser with one cookie jar and several pages, the guards every       *)
(* request passes in their order, and the answers that set and clear the   *)
(* cookies.                                                                *)
(*                                                                         *)
(* The pages are the frontend, which is not here: a page copies the CSRF   *)
(* cookie into its header and then sends, and what other pages receive in  *)
(* between changes the jar.  Signing in, refreshing and signing out are    *)
(* one step each: LoginSessions and RefreshRotation have their inside.     *)
(***************************************************************************)
EXTENDS Routes, Integers

CONSTANTS Tab,          \* requests of the browser that may be open at once
          Account,      \* who may sign in here
          SessionId,    \* the sessions they may start
          Standings,    \* per account, the standings others may give it
          Taken,        \* bound: the routes a page asks for
          AccessLife,   \* instants an access token lives,
          RefreshLife,  \* and a refresh token, a session and a CSRF token
          MaxInstant,   \* bound: the last instant
          MaxIssues     \* bound: how often tokens are issued

AtClose   == 0  \* no maxAge: the cookie lasts until the browser is closed
Nobody    == "nobody"
NoSession == "none"
Unread    == "unread"
Role      == {"OWNER", "ADMIN", "USER"}
Standing  == [role : Role, active : BOOLEAN, holds : SUBSET Permissions]

ASSUME RequestAssumption ==
  /\ Standings \in [Account -> SUBSET Standing]
  /\ \A a \in Account : Standings[a] # {}
  /\ Nobody \notin Account /\ NoSession \notin SessionId
  /\ Taken \in [Tab -> SUBSET AllRoutes]
  /\ AccessLife \in Nat \ {0} /\ RefreshLife \in Nat /\ AccessLife <= RefreshLife
  /\ MaxInstant \in Nat /\ MaxIssues \in Nat

(***************************************************************************)
(* State.                                                                  *)
(***************************************************************************)

CookieName == {"access", "refresh", "csrf"}

\* A cookie: the session and the issue its token is of, when the token expires,
\* and when the browser drops it (in an answer, its maxAge).
Cookie(s, issue, exp, age) == [session |-> s, issue |-> issue, exp |-> exp, age |-> age]
NoCookie == Cookie(NoSession, 0, 0, AtClose)
NoJar    == [n \in CookieName |-> NoCookie]

NotStarted == [owner |-> Nobody, over |-> FALSE, until |-> 0, issue |-> 0, last |-> 0, at |-> 0]

\* The Set-Cookie headers of an answer: the cookies it sets and the names it clears.
Silent  == [set |-> NoJar, clear |-> {}]
NoVisit == [at |-> "idle", route |-> Login, header |-> NoCookie, cookies |-> NoJar,
            role |-> Unread, session |-> NoSession, reply |-> Silent]

VARIABLES jar,      \* the cookies of the browser
          visit,    \* the request of a page: how far it is, what it carries, and
                    \* what the guards put on it
          session,  \* the session rows
          account,  \* the standing of an account
          issues,   \* how often tokens were issued
          instant   \* the time

requestVars == <<jar, visit, session, account, issues, instant>>

RequestInit ==
  /\ jar = NoJar
  /\ visit = [p \in Tab |-> NoVisit]
  /\ session = [s \in SessionId |-> NotStarted]
  /\ account \in {f \in [Account -> UNION {Standings[a] : a \in Account}] :
                    \A a \in Account : f[a] \in Standings[a]}
  /\ issues = 0
  /\ instant = 1

(***************************************************************************)
(* The pages.                                                              *)
(***************************************************************************)

Reaches(p, at)  == visit' = [visit EXCEPT ![p].at = at]
Dropped(p)      == visit' = [visit EXCEPT ![p] = NoVisit]
OnlyVisit       == UNCHANGED <<jar, session, account, issues, instant>>
MarksOf(p)      == Marks[visit[p].route]
Presented(p, n) == visit[p].cookies[n]
Needs(p)        == MarksOf(p) \cap Permissions

\* What of the browser's cookies a route looks at.
Guarded(route) == "public" \notin Marks[route]
Checked(route) == "write" \in Marks[route] /\ "no csrf" \notin Marks[route]
Attached(route)   == (IF Guarded(route) THEN {"access"} ELSE {})
                    \cup (IF Checked(route) THEN {"csrf"} ELSE {})
                    \cup (IF route = Rotate THEN {"refresh"} ELSE {})

\* A page reads document.cookie for the header of the request it is about to send.
CopyToken(p, route) ==
  /\ visit[p].at = "idle"
  /\ visit' = [visit EXCEPT ![p] = [NoVisit EXCEPT !.at = "ready", !.route = route,
                 !.header = IF Checked(route) THEN jar["csrf"] ELSE NoCookie]]
  /\ OnlyVisit

\* The browser adds the cookies it has by then.
Sends(p) ==
  /\ visit[p].at = "ready"
  /\ visit' = [visit EXCEPT ![p].at = "sent", ![p].cookies =
                 [n \in CookieName |-> IF n \in Attached(visit[p].route) THEN jar[n] ELSE NoCookie]]
  /\ OnlyVisit

(***************************************************************************)
(* The guards, in the order they are registered.                           *)
(***************************************************************************)

Counts(token)   == token # NoCookie /\ token.exp > instant
Active(s)       == session[s].owner # Nobody /\ ~session[s].over /\ session[s].until > instant
Subject(p)      == session[Presented(p, "access").session].owner

\* JwtGuard.  Both rows are read at once, so either may come first.
VerifyAccess(p) ==
  /\ visit[p].at = "sent"
  /\ IF ~Guarded(visit[p].route) THEN Reaches(p, "known")
     ELSE IF Counts(Presented(p, "access")) THEN Reaches(p, "reading")
     ELSE Dropped(p)
  /\ OnlyVisit

ReadUser(p) ==
  /\ visit[p].at = "reading" /\ visit[p].role = Unread
  /\ IF account[Subject(p)].active
     THEN visit' = [visit EXCEPT ![p].role = account[Subject(p)].role,
                                 ![p].at = IF visit[p].session = NoSession THEN @ ELSE "known"]
     ELSE Dropped(p)
  /\ OnlyVisit

ReadSession(p) ==
  /\ visit[p].at = "reading" /\ visit[p].session = NoSession
  /\ IF Active(Presented(p, "access").session)
     THEN visit' = [visit EXCEPT ![p].session = Presented(p, "access").session,
                                 ![p].at = IF visit[p].role = Unread THEN @ ELSE "known"]
     ELSE Dropped(p)
  /\ OnlyVisit

\* RateLimitGuard lets it through, or refuses; then RolesGuard, which waits for nothing.
RoleSuffices(p) == "owner" \in MarksOf(p) => visit[p].role = "OWNER"
LimitAndRole(p) ==
  /\ visit[p].at = "known"
  /\ \/ RoleSuffices(p) /\ Reaches(p, "ranked")
     \/ ~RoleSuffices(p) /\ Dropped(p)
     \/ "limited" \in MarksOf(p) /\ Dropped(p)
  /\ OnlyVisit

\* PermissionGuard: what the account holds is read now, but for the owner.
Can(p) ==
  \/ Needs(p) = {} \/ visit[p].role = "OWNER"
  \/ /\ visit[p].role # Unread
     /\ Needs(p) \cap OwnerOnly = {}
     /\ Needs(p) \subseteq account[Subject(p)].holds

\* CsrfGuard: the header repeats the cookie, and the cookie is of this session.
Matches(p) == visit[p].header = Presented(p, "csrf")
CsrfValid(p) ==
  /\ Counts(Presented(p, "csrf")) /\ Matches(p)
  /\ visit[p].session = Presented(p, "csrf").session
CsrfPasses(p) == Checked(visit[p].route) => CsrfValid(p)

Authorise(p) ==
  /\ visit[p].at = "ranked"
  /\ IF Can(p) /\ CsrfPasses(p) THEN Reaches(p, "handled") ELSE Dropped(p)
  /\ OnlyVisit

\* Something on the way does not answer: an error, and no cookie.
Breaks5xx(p) ==
  /\ visit[p].at \in {"sent", "reading", "known", "ranked", "handled"}
  /\ Dropped(p)
  /\ OnlyVisit

(***************************************************************************)
(* The handlers, and the cookies of their answers.                         *)
(***************************************************************************)

\* Mutant: the CSRF cookie goes with the browser.
UntilClosed == [access |-> AccessLife, refresh |-> RefreshLife, csrf |-> AtClose]
MaxAge == [access |-> AccessLife, refresh |-> RefreshLife, csrf |-> RefreshLife]

Answer(p, reply) ==
  visit' = [visit EXCEPT ![p].at = "answered", ![p].reply = reply, ![p].header = NoCookie,
                         ![p].role = Unread]

\* AuthCookieService.set: the pair, and a CSRF token issued now for its session.
Tokens(s, issue, issuedAt, now, nonce) ==
  [access  |-> Cookie(s, issue, issuedAt + AccessLife, MaxAge["access"]),
   refresh |-> Cookie(s, issue, issuedAt + RefreshLife, MaxAge["refresh"]),
   csrf    |-> Cookie(s, nonce, now + RefreshLife, MaxAge["csrf"])]
Brings(tokens) == [set |-> tokens, clear |-> {}]
Clears(names) == [set |-> NoJar, clear |-> names]

NewTokens(s) == Brings(Tokens(s, issues + 1, instant, instant, issues + 1))

SignIn(p, a, s) ==
  /\ visit[p].at = "handled" /\ visit[p].route = Login
  /\ account[a].active /\ session[s] = NotStarted /\ issues < MaxIssues
  /\ session' = [session EXCEPT ![s] = [owner |-> a, over |-> FALSE,
                                        until |-> instant + RefreshLife, issue |-> issues + 1,
                                        last |-> 0, at |-> instant]]
  /\ issues' = issues + 1
  /\ Answer(p, NewTokens(s))
  /\ UNCHANGED <<jar, account, instant>>

\* The refresh token of a request that refreshes, and what its session makes of it.
Offered(p)     == Presented(p, "refresh")
Refreshes(p) == visit[p].at = "handled" /\ visit[p].route = Rotate
Backed(p)    == Counts(Offered(p)) /\ Active(Offered(p).session)

Rotates(p) ==
  LET s == Offered(p).session IN
  /\ Refreshes(p) /\ Backed(p) /\ Offered(p).issue = session[s].issue /\ issues < MaxIssues
  /\ session' = [session EXCEPT ![s].until = instant + RefreshLife, ![s].issue = issues + 1,
                                ![s].last = Offered(p).issue, ![s].at = instant]
  /\ issues' = issues + 1
  /\ Answer(p, NewTokens(s))
  /\ UNCHANGED <<jar, account, instant>>

\* The grace window, less than an instant: the tokens of the rotation that won,
\* and a CSRF token with a nonce of its own.
Nonce(s) == MaxIssues + session[s].issue
Replays(p) ==
  LET s == Offered(p).session IN
  /\ Refreshes(p) /\ Backed(p) /\ Offered(p).issue = session[s].last /\ session[s].at = instant
  /\ Answer(p, Brings(Tokens(s, session[s].issue, session[s].at, instant, Nonce(s))))
  /\ OnlyVisit

\* A spent token: the session is revoked and the cookie cleared.
ReusesToken(p) ==
  /\ Refreshes(p) /\ Backed(p) /\ Offered(p).issue # session[Offered(p).session].issue
  /\ session' = [session EXCEPT ![Offered(p).session].over = TRUE]
  /\ Answer(p, Clears({"refresh"}))
  /\ UNCHANGED <<jar, account, issues, instant>>

\* No token, an expired one, or none of a live session.
RefusesToken(p) ==
  /\ Refreshes(p) /\ ~Backed(p)
  /\ Answer(p, Clears({"refresh"}))
  /\ OnlyVisit

SignOut(p) ==
  /\ visit[p].at = "handled" /\ visit[p].route = Logout
  /\ session' = [session EXCEPT ![visit[p].session].over = TRUE]
  /\ Answer(p, Clears(CookieName))
  /\ UNCHANGED <<jar, account, issues, instant>>

\* Any other handler: it sets no cookie.
Serves(p) ==
  /\ visit[p].at = "handled" /\ visit[p].route \notin {Login, Rotate, Logout}
  /\ Dropped(p)
  /\ OnlyVisit

(***************************************************************************)
(* The answers, in any order, and what happens meanwhile.                  *)
(***************************************************************************)

Stored(c) == IF c.age = AtClose THEN c ELSE [c EXCEPT !.age = instant + @]

Receive(p) ==
  /\ visit[p].at = "answered"
  /\ jar' = [n \in CookieName |->
               IF n \in visit[p].reply.clear THEN NoCookie
               ELSE IF visit[p].reply.set[n] # NoCookie THEN Stored(visit[p].reply.set[n])
               ELSE jar[n]]
  /\ Dropped(p)
  /\ UNCHANGED <<session, account, issues, instant>>

\* The connection or the page is gone before the answer is.
Loses(p) ==
  /\ visit[p].at = "answered"
  /\ Dropped(p)
  /\ OnlyVisit

\* Closed and opened again: cookies without a maxAge are gone.  Answers under way
\* may be lost, or come in time for the browser to have stored them.
CloseBrowser ==
  /\ visit' = [p \in Tab |-> IF visit[p].at = "ready" THEN NoVisit ELSE visit[p]]
  /\ jar' = [n \in CookieName |-> IF jar[n].age = AtClose THEN NoCookie ELSE jar[n]]
  /\ UNCHANGED <<session, account, issues, instant>>

\* Another handler, an eviction or a suspension ends a session.
EndsElsewhere(s) ==
  /\ Active(s)
  /\ session' = [session EXCEPT ![s].over = TRUE]
  /\ UNCHANGED <<jar, visit, account, issues, instant>>

\* An administrator changes what an account may do, but for the owner's.
ChangesStanding(a) ==
  /\ account[a].role # "OWNER"
  /\ \E standing \in Standings[a] \ {account[a]} :
       standing.role # "OWNER" /\ account' = [account EXCEPT ![a] = standing]
  /\ UNCHANGED <<jar, visit, session, issues, instant>>

\* Cookies whose maxAge has run out are dropped.
Ticks ==
  /\ instant < MaxInstant
  /\ instant' = instant + 1
  /\ jar' = [n \in CookieName |-> IF jar[n].age # AtClose /\ jar[n].age <= instant'
                                  THEN NoCookie ELSE jar[n]]
  /\ UNCHANGED <<visit, session, account, issues>>

RequestNext ==
  \/ \E p \in Tab :
       \/ \E route \in Taken[p] : CopyToken(p, route)
       \/ Sends(p) \/ VerifyAccess(p) \/ ReadUser(p) \/ ReadSession(p)
       \/ LimitAndRole(p) \/ Authorise(p) \/ Breaks5xx(p)
       \/ \E a \in Account, s \in SessionId : SignIn(p, a, s)
       \/ Rotates(p) \/ Replays(p) \/ ReusesToken(p) \/ RefusesToken(p) \/ SignOut(p) \/ Serves(p)
       \/ Receive(p) \/ Loses(p)
  \/ CloseBrowser \/ Ticks
  \/ \E s \in SessionId : EndsElsewhere(s)
  \/ \E a \in Account : ChangesStanding(a)

RequestSpec == RequestInit /\ [][RequestNext]_requestVars
--------------------------------------------------------------------------------
(***************************************************************************)
(* Properties.                                                             *)
(***************************************************************************)

\* Cookies, requests, rows and standings are what they are stored as.
CookieType ==
  {NoCookie} \cup [session : SessionId, issue : 0..(2 * MaxIssues), exp : Nat, age : Nat]
VisitType ==
  [at : {"idle", "ready", "sent", "reading", "known", "ranked", "handled", "answered"},
   route : AllRoutes, header : CookieType, cookies : [CookieName -> CookieType],
   role : Role \cup {Unread}, session : SessionId \cup {NoSession},
   reply : [set : [CookieName -> CookieType], clear : SUBSET CookieName]]
RowType ==
  [owner : Account \cup {Nobody}, over : BOOLEAN, until : Nat, issue : 0..MaxIssues,
   last : 0..MaxIssues, at : Nat]
RequestTypeOK ==
  /\ jar \in [CookieName -> CookieType]
  /\ visit \in [Tab -> VisitType]
  /\ session \in [SessionId -> RowType]
  /\ account \in [Account -> Standing]
  /\ issues \in 0..MaxIssues /\ instant \in 1..(MaxInstant + 1)

\* What a page composed under one session is never done under another, whatever
\* the other pages received between the copy of the token and the sending: a
\* handler that changes something for the caller has the session the page had
\* read (CsrfGuard, and the routes that skip it).
MeantIsServed ==
  \A p \in Tab :
    /\ visit[p].at = "handled" /\ "write" \in MarksOf(p) /\ "public" \notin MarksOf(p)
    => visit[p].session = visit[p].header.session

\* A browser whose access token still counts has the CSRF token of that very
\* session, and it counts too: after a refresh, a lost answer, answers out of
\* order and a restart of the browser (the comment of CSRF_TOKEN_COOKIE_MAX_AGE_MS
\* and the token lifetimes of docs/authentication.md).
SignedInCanAct ==
  Counts(jar["access"]) => /\ Counts(jar["csrf"])
                          /\ jar["csrf"].session = jar["access"].session

\* An answer takes the refresh token from the browser only when the session of
\* the token that was presented is over, or that token is (the comments of
\* TERMINAL_REFRESH_ERROR_CODES and of ClearAuthCookiesInterceptor).
SpentToken(token) == ~Counts(token) \/ ~Active(token.session)
ClearedIsSpent ==
  \A p \in Tab :
    visit[p].at = "answered" /\ visit[p].reply.clear # {} =>
      IF visit[p].route = Logout THEN ~Active(visit[p].session) ELSE SpentToken(Offered(p))

\* A handler whose permission is reserved to the owner has an owner as its
\* caller, whatever is granted meanwhile (the comment of AdminAccountsController).
ReservedToOwner ==
  \A p \in Tab :
    visit[p].at = "handled" /\ Needs(p) \cap OwnerOnly # {} => visit[p].role = "OWNER"

RequestsSound == MeantIsServed /\ SignedInCanAct /\ ClearedIsSpent /\ ReservedToOwner
================================================================================
