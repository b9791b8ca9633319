------------------------------- MODULE RateLimit -------------------------------
(***************************************************************************)
(* The rate limiter (features/security/rate-limit): a guarded route has a  *)
(* group of rules, each rule keeps a fixed window and maybe a block per    *)
(* value of its dimension in Redis, and a request passes when every rule   *)
(* of the group lets it, asked one after the other.                        *)
(*                                                                         *)
(* Redis runs a script as one step and expires keys by itself, so time is  *)
(* what the keys have left; a refused caller is told how long to wait.     *)
(***************************************************************************)
EXTENDS Integers, Sequences

CONSTANTS Route,    \* the routes (or use cases) that are limited here
          Caller,   \* requests that may be running at once
          Body,     \* what requests carry: a value or Nothing per dimension
          Limit,    \* per rule, the requests of one window,
          Window,   \* its length,
          Block,    \* and the length of a block, 0 without one
          Second,   \* ticks of a second, the unit of Retry-After
          MaxCount  \* bound: what a counter is driven to

(***************************************************************************)
(* The configured rules.  A rule is a route and a dimension.               *)
(***************************************************************************)

AuthGroup ==
  [register |-> <<"ip", "device">>,
   login    |-> <<"ip", "email", "device">>,
   verify   |-> <<"ip", "device", "email", "code">>,
   resend   |-> <<"ip", "device", "email">>]

UserGroup ==
  [refresh  |-> <<"ip", "device">>,
   password |-> <<"ip", "user">>,
   alert    |-> <<"ip", "user">>,
   sync     |-> <<"ip", "user">>]

\* Consumed by a use case that wants to react, not by the guard.
Imperative ==
  [attempts |-> <<"user">>, hourly |-> <<"user">>, cooldown |-> <<"email">>]

Rules(route) ==
  CASE route \in DOMAIN AuthGroup -> AuthGroup[route]
    [] route \in DOMAIN UserGroup -> UserGroup[route]
    [] OTHER                      -> Imperative[route]

FailsClosed ==
  {<<"login", "ip">>, <<"login", "email">>, <<"login", "device">>,
   <<"verify", "code">>, <<"resend", "email">>}

Blocking == {<<"login", "email">>, <<"login", "device">>}

\* What a served request gives back: a sign-in clears its address.
Cleared == {<<"login", "email">>, <<"attempts", "user">>}

\* A dimension that resolves whatever the request looks like.
AlwaysResolvable == {"ip", "device", "route"}

Rule    == UNION {{<<route, Rules(route)[i]>> : i \in 1..Len(Rules(route))} : route \in Route}
Nothing == "none"
Bucket  == {<<rule, body[rule[2]]>> : rule \in Rule, body \in Body} \ (Rule \X {Nothing})
NoBucket == <<<<Nothing, Nothing>>, Nothing>>

ASSUME RateLimitAssumption ==
  /\ Route \subseteq DOMAIN AuthGroup \cup DOMAIN UserGroup \cup DOMAIN Imperative
  /\ \A body \in Body : \A rule \in Rule :
       /\ rule[2] \in DOMAIN body
       /\ rule[2] \in AlwaysResolvable => body[rule[2]] # Nothing
  /\ Limit \in [Rule -> Nat \ {0}]
  /\ Window \in [Rule -> Nat \ {0}]
  /\ Block \in [Rule -> Nat]
  /\ \A rule \in Rule : IF rule \in Blocking THEN Block[rule] >= Window[rule] ELSE Block[rule] = 0
  /\ Second \in Nat \ {0}
  /\ MaxCount \in Nat
  /\ \A rule \in Rule : Limit[rule] <= MaxCount

(***************************************************************************)
(* State.                                                                  *)
(***************************************************************************)

Absent == [count |-> 0, ttl |-> 0]
NoRequest   == [at |-> "idle", route |-> Nothing, body |-> <<>>, next |-> 0,
           by |-> NoBucket, wait |-> 0]

VARIABLES counter,  \* the counter key of a bucket
          block,    \* what its block key has left, 0 without one
          caller,   \* a request: the rule it is at; once refused, the bucket
                    \* that did so, as long as that window or block stands,
                    \* and how long it waits yet
          recent    \* history: the ages of the admissions a bucket has made
                    \* since it was last cleared, those of one window

limitVars == <<counter, block, caller, recent>>

LimitInit ==
  /\ counter = [b \in Bucket |-> Absent]
  /\ block = [b \in Bucket |-> 0]
  /\ caller = [c \in Caller |-> NoRequest]
  /\ recent = [b \in Bucket |-> <<>>]

(***************************************************************************)
(* One script run against a bucket.                                        *)
(***************************************************************************)

Held(b)   == block[b] > 0
Count(b)  == counter[b].count + 1

\* The expiry is attached by the first hit only.
Slid(b)   == Window[b[1]]
Unset(b)  == counter[b].ttl
Ttl(b)    == IF counter[b].ttl = 0 THEN Window[b[1]] ELSE counter[b].ttl
Hit(b)    == [count |-> Count(b), ttl |-> Ttl(b)]
Over(b)   == Count(b) > Limit[b[1]]
Trips(b)  == Over(b) /\ Block[b[1]] > 0

Consume(b) ==
  \/ Held(b) /\ UNCHANGED <<counter, block>>
  \/ /\ ~Held(b) /\ ~Trips(b)
     /\ counter' = [counter EXCEPT ![b] = Hit(b)]
     /\ UNCHANGED block
  \/ /\ ~Held(b) /\ Trips(b)
     /\ block' = [block EXCEPT ![b] = Block[b[1]]]
     /\ counter' = [counter EXCEPT ![b] = Absent]

Allows(b)    == ~Held(b) /\ ~Over(b)
LastsFor(b)  == IF Held(b) THEN block[b] ELSE IF Trips(b) THEN Block[b[1]] ELSE Ttl(b)

\* Seconds, rounded up, in ticks.
RoundedDown(ticks) == (ticks \div Second) * Second
RetryAfter(ticks) == ((ticks + Second - 1) \div Second) * Second

(***************************************************************************)
(* The guard: rule after rule, until one refuses.                          *)
(***************************************************************************)

At(c)     == <<caller[c].route, Rules(caller[c].route)[caller[c].next]>>
Value(c)  == caller[c].body[At(c)[2]]
Asked(c)  == <<At(c), Value(c)>>
AtRule(c) == caller[c].at = "asked" /\ caller[c].next <= Len(Rules(caller[c].route))

Arrive(c, route, body) ==
  /\ caller[c].at = "idle"
  /\ caller' = [caller EXCEPT ![c] = [NoRequest EXCEPT !.at = "asked", !.route = route,
                                                  !.body = body, !.next = 1]]
  /\ UNCHANGED <<counter, block, recent>>

ToNext(c) == [caller EXCEPT ![c].next = @ + 1]
Refused(c, b) == [caller EXCEPT ![c] = [NoRequest EXCEPT !.by = b, !.wait = RetryAfter(LastsFor(b))]]
Turned(c)     == [caller EXCEPT ![c] = NoRequest]

\* Nothing to count by: the rule is skipped.
Skip(c) ==
  /\ AtRule(c) /\ Value(c) = Nothing
  /\ caller' = ToNext(c)
  /\ UNCHANGED <<counter, block, recent>>

Pass(c) ==
  /\ AtRule(c) /\ Value(c) # Nothing
  /\ Allows(Asked(c))
  /\ Consume(Asked(c))
  /\ caller' = ToNext(c)
  /\ recent' = [recent EXCEPT ![Asked(c)] = <<0>> \o @]

Refuse(c) ==
  /\ AtRule(c) /\ Value(c) # Nothing
  /\ ~Allows(Asked(c))
  /\ Trips(Asked(c)) \/ Count(Asked(c)) <= MaxCount
  /\ Consume(Asked(c))
  /\ caller' = Refused(c, Asked(c))
  /\ UNCHANGED recent

\* Redis does not answer, whether or not the script ran: the rule decides.
Degrade(c) ==
  /\ AtRule(c) /\ Value(c) # Nothing
  /\ Trips(Asked(c)) \/ Count(Asked(c)) <= MaxCount
  /\ Consume(Asked(c)) \/ UNCHANGED <<counter, block>>
  /\ caller' = IF At(c) \in FailsClosed THEN Turned(c) ELSE ToNext(c)
  /\ UNCHANGED recent

\* The keys of these buckets are gone: a refusal by one of them no longer stands.
Released(callers, gone) ==
  [c \in Caller |-> IF callers[c].by \in gone THEN NoRequest ELSE callers[c]]

\* Every rule has passed.  The request may succeed, which clears what the
\* route clears, or not.
Serve(c) ==
  /\ caller[c].at = "asked" /\ ~AtRule(c)
  /\ \E cleared \in {{}, {b \in Bucket : /\ b[1] \in Cleared /\ b[1][1] = caller[c].route
                                         /\ b[2] = caller[c].body[b[1][2]]}} :
       /\ counter' = [b \in Bucket |-> IF b \in cleared THEN Absent ELSE counter[b]]
       /\ block' = [b \in Bucket |-> IF b \in cleared THEN 0 ELSE block[b]]
       /\ recent' = [b \in Bucket |-> IF b \in cleared THEN <<>> ELSE recent[b]]
       /\ caller' = Released(Turned(c), cleared)

Down(ticks) == IF ticks > 0 THEN ticks - 1 ELSE 0

\* A tick: keys that have run out are gone.
Lasting(b)  == counter[b].ttl > 1
Gone        == {b \in Bucket : IF Held(b) THEN block[b] = 1 ELSE ~Lasting(b)}
\* Ages are kept newest first, so those still within the window lead.
Older(ages, b) == [i \in {j \in DOMAIN ages : ages[j] + 1 < Window[b[1]]} |-> ages[i] + 1]

Elapse ==
  /\ counter' = [b \in Bucket |->
                   IF Lasting(b) THEN [counter[b] EXCEPT !.ttl = @ - 1] ELSE Absent]
  /\ block' = [b \in Bucket |-> Down(block[b])]
  /\ caller' = LET waiting == [c \in Caller |-> [caller[c] EXCEPT !.wait = Down(@)]]
               IN Released(waiting, Gone)
  /\ recent' = [b \in Bucket |-> Older(recent[b], b)]

LimitNext ==
  \/ \E c \in Caller : \/ \E route \in Route, body \in Body : Arrive(c, route, body)
                       \/ Skip(c) \/ Pass(c) \/ Refuse(c) \/ Degrade(c) \/ Serve(c)
  \/ Elapse

LimitSpec == LimitInit /\ [][LimitNext]_limitVars
--------------------------------------------------------------------------------
(***************************************************************************)
(* Properties.                                                             *)
(***************************************************************************)

\* Keys that count have time left, and a bucket that is held counts nothing.
LimitTypeOK ==
  /\ \A b \in Bucket :
       /\ counter[b].count \in 0..MaxCount /\ counter[b].ttl \in 0..Window[b[1]]
       /\ counter[b].count = 0 <=> counter[b].ttl = 0
       /\ block[b] \in 0..Block[b[1]]
       /\ Held(b) => counter[b] = Absent
  /\ \A c \in Caller : /\ caller[c].at \in {"idle", "asked"} /\ caller[c].wait \in Nat
                       /\ caller[c].by \in Bucket \cup {NoBucket}

\* A fixed window lets a bucket that is not cleared admit its limit at the end
\* of one window and at the start of the next, never more: no interval shorter
\* than the window holds 2 * limit admissions, whoever asks and however the
\* counter, its expiry and a block lapse in between (CONSUME_SCRIPT).
BurstsBounded == \A b \in Bucket : Len(recent[b]) < 2 * Limit[b[1]]

\* The wait a refused caller is told ends no sooner than the window or the
\* block that refused it, whatever others do to the bucket meanwhile: nobody
\* slides a window or prolongs a block (the comments of CONSUME_SCRIPT and of
\* toRetryAfterSeconds).
WaitIsEnough ==
  \A c \in Caller :
    LET b == caller[c].by
    IN b # NoBucket => (IF Held(b) THEN block[b] ELSE counter[b].ttl) <= caller[c].wait

\* A bucket is neither too lax nor too strict.
LimitsSound == BurstsBounded /\ WaitIsEnough

\* A rule of limit 1 without a block is SET NX EX (the comment of
\* ResendCooldown): the abstract cooldown, for every bucket of such a rule.
Single == {b \in Bucket : Limit[b[1]] = 1 /\ b[1] \notin Blocking}
Cool   == INSTANCE Cooldown
            WITH Key     <- Single,
                 Period  <- [b \in Single |-> Window[b[1]]],
                 ttl     <- [b \in Single |-> counter[b].ttl],
                 granted <- [b \in Single |-> recent[b]]
ImplementsCooldown == Cool!Spec
================================================================================
