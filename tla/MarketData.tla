------------------------------ MODULE MarketData ------------------------------
(***************************************************************************)
(* The market widgets: each feed is read through a cache of the replica,   *)
(* and on a miss from the first of its venues that answers, with retries;  *)
(* an outage of all of them is bridged by the last value that was cached   *)
(* (market-overview, market-sentiment).                                    *)
(*                                                                         *)
(* The global overview, the coin tickers and the fear and greed index have *)
(* one venue each, the USDT/Toman rate has two.  Misses are not collapsed: *)
(* every request that finds no live entry asks upstream.                   *)
(***************************************************************************)
EXTENDS Integers, Sequences

CONSTANTS Feed,      \* what has a cache of its own
          Order,     \* per feed, its venues as declared
          Preferred, \* USDT_TOMAN_PROVIDER
          Request,   \* requests that may be running at once
          Retries,   \* extra attempts at a venue
          EntryTtl,       \* how long an entry is served
          Timeout,   \* of one call
          MaxClock   \* bound: the clock

VenuesOf(f) == {Order[f][i] : i \in 1..Len(Order[f])}
Venue       == UNION {VenuesOf(f) : f \in Feed}

ASSUME MarketAssumption ==
  /\ \A f \in Feed : /\ Order[f] \in Seq(VenuesOf(f)) /\ Len(Order[f]) > 0
                     /\ \A i, j \in DOMAIN Order[f] : Order[f][i] = Order[f][j] => i = j
  /\ Retries \in Nat /\ EntryTtl \in Nat \ {0} /\ Timeout \in Nat /\ MaxClock \in Nat

\* The preferred venue first, the others as declared.
Chain(f) ==
  IF Preferred \in VenuesOf(f)
    THEN LET place == CHOOSE i \in DOMAIN Order[f] : Order[f][i] = Preferred IN
         [i \in DOMAIN Order[f] |-> IF i = 1 THEN Preferred
                                   ELSE Order[f][IF i <= place THEN i - 1 ELSE i]]
    ELSE Order[f]

(***************************************************************************)
(* What a venue may answer, and what the adapter makes of it.              *)
(***************************************************************************)

\* The rate itself, in Toman, moves with the clock.
Rate(time) == time + 1

\* Nobitex quotes Rial.
RialPerToman == 10
QuotedPerToman(v) == IF v = "nobitex" THEN RialPerToman ELSE 1
Quote(v, time)    == Rate(time) * QuotedPerToman(v)

\* The fields an adapter insists on, by what it takes for one.  A missing
\* change of the last day is a zero, so it is not among them.
Kind == {"number", "numeral", "words", "exponent", "negative", "absent"}
TomanFields    == [price |-> {"number", "numeral"}]
TickerFields   == [usd |-> {"number", "negative"}, last_updated_at |-> {"number", "negative"}]
OverviewFields == [total_market_cap |-> {"number", "negative"}, btc |-> {"number", "negative"},
                   eth |-> {"number", "negative"}, updated_at |-> {"number", "negative"}]
IndexFields    == [value |-> {"number", "numeral", "exponent", "negative"},
                   value_classification |-> {"numeral", "words", "exponent"},
                   timestamp |-> {"number", "numeral", "exponent", "negative"}]

Fields(f) == CASE f = "toman"     -> TomanFields
               [] f = "overview"  -> OverviewFields
               [] f = "fearGreed" -> IndexFields
               [] OTHER           -> TickerFields

Usable(f, payload) == \A field \in DOMAIN Fields(f) : payload[field] \in Fields(f)[field]
Payload(f)         == [DOMAIN Fields(f) -> Kind]
Readings           == [f \in Feed |-> {Usable(f, payload) : payload \in Payload(f)}]

Normal(v, quote) == quote \div QuotedPerToman(v)

\* Failures of a call: the status of the reply, or none.
Fault      == {"429", "4xx", "5xx", "timeout", "network"}
Permanent(fault) == fault = "4xx"

(***************************************************************************)
(* State.                                                                  *)
(***************************************************************************)

NoEntry  == [read |-> -1, price |-> 0, fetchedAt |-> -1, expiresAt |-> -1, venue |-> "none"]
Entry == [read : 0..MaxClock, price : 1..MaxClock + 1, fetchedAt : 0..MaxClock,
          expiresAt : EntryTtl..MaxClock + EntryTtl, venue : Venue]
Unasked  == [at |-> "idle", feed |-> "none", index |-> 0, attempt |-> 0, asked |-> -1,
          read |-> -1]

VARIABLES
  clock,
  cache,   \* per feed
  req,     \* requests: asking, replied (the answer is under way), backoff
  answer,  \* what the last step has answered, if it has answered a request
  start,   \* history, per running request: when the cached value had been fetched
  given    \* history, per running request and venue: the failures it has met

marketVars == <<clock, cache, req, answer, start, given>>

NothingGiven == [v \in Venue |-> [transient |-> 0, permanent |-> FALSE]]

MarketTypeOK ==
  /\ clock \in 0..MaxClock
  /\ cache \in [Feed -> Entry \cup {NoEntry}]
  /\ \A r \in Request :
       \/ req[r] = Unasked /\ start[r] = -1 /\ given[r] = NothingGiven
       \/ /\ req[r].at \in {"asking", "replied", "backoff"}
          /\ req[r].feed \in Feed
          /\ req[r].index \in 1..Len(Chain(req[r].feed))
          /\ req[r].attempt \in 1..Retries + 1
          /\ req[r].asked \in 0..MaxClock
          /\ req[r].read \in -1..MaxClock
  /\ answer.kind \in {"none", "live", "cached", "stale", "failed"}
  /\ answer.entry \in Entry \cup {NoEntry}
  /\ start \in [Request -> -1..MaxClock]
  /\ given \in [Request -> [Venue -> [transient : 0..Retries + 1, permanent : BOOLEAN]]]

NoAnswer == [kind |-> "none", entry |-> NoEntry]

MarketInit ==
  /\ clock = 0
  /\ cache = [f \in Feed |-> NoEntry]
  /\ req = [r \in Request |-> Unasked]
  /\ answer = NoAnswer
  /\ start = [r \in Request |-> -1]
  /\ given = [r \in Request |-> NothingGiven]

(***************************************************************************)
(* The cache.                                                              *)
(***************************************************************************)

Live(f)  == cache[f] # NoEntry /\ cache[f].expiresAt > clock
Bridgeable(f) == cache[f] # NoEntry

Fresh(v, read) == [read |-> read, price |-> Normal(v, Quote(v, read)), fetchedAt |-> clock,
                   expiresAt |-> clock + EntryTtl, venue |-> v]

(***************************************************************************)
(* A request.                                                              *)
(***************************************************************************)

VenueOf(r) == Chain(req[r].feed)[req[r].index]

Give(r, kind, entry) ==
  /\ req' = [req EXCEPT ![r] = Unasked]
  /\ answer' = [kind |-> kind, entry |-> entry]
  /\ start' = [start EXCEPT ![r] = -1]
  /\ given' = [given EXCEPT ![r] = NothingGiven]

Ask(r, f, index, attempt) ==
  /\ req' = [req EXCEPT ![r] = [at |-> "asking", feed |-> f, index |-> index,
                                attempt |-> attempt, asked |-> clock, read |-> -1]]
  /\ answer' = NoAnswer

Start(r, f) ==
  /\ req[r] = Unasked
  /\ IF Live(f) THEN Give(r, "cached", cache[f])
     ELSE /\ Ask(r, f, 1, 1)
          /\ start' = [start EXCEPT ![r] = cache[f].fetchedAt]
          /\ UNCHANGED given
  /\ UNCHANGED <<clock, cache>>

\* The venue computes its answer; it arrives later, or never.
VenueAnswers(r) ==
  /\ req[r].at = "asking"
  /\ req' = [req EXCEPT ![r].at = "replied", ![r].read = clock]
  /\ answer' = NoAnswer
  /\ UNCHANGED <<clock, cache, start, given>>

\* Every venue has failed: the last value, marked, or the error.
Exhausted(r) ==
  LET f == req[r].feed IN
  IF Bridgeable(f) THEN Give(r, "stale", cache[f]) ELSE Give(r, "failed", NoEntry)

\* The failures that a request has met, the present one included.
Met(r, permanent) ==
  [given EXCEPT ![r][VenueOf(r)] = [transient |-> @.transient + (IF permanent THEN 0 ELSE 1),
                                    permanent |-> @.permanent \/ permanent]]

\* Another attempt at the venue, or the next venue of the chain.
NeverRetried(r, permanent) == FALSE
Retried(r, permanent) == ~permanent /\ req[r].attempt <= Retries

Fails(r, permanent) ==
  /\ \/ /\ Retried(r, permanent)
        /\ req' = [req EXCEPT ![r].at = "backoff", ![r].read = -1]
        /\ given' = Met(r, permanent)
        /\ answer' = NoAnswer
        /\ UNCHANGED start
     \/ /\ ~Retried(r, permanent) /\ req[r].index < Len(Chain(req[r].feed))
        /\ Ask(r, req[r].feed, req[r].index + 1, 1)
        /\ given' = Met(r, permanent)
        /\ UNCHANGED start
     \/ /\ ~Retried(r, permanent) /\ req[r].index = Len(Chain(req[r].feed))
        /\ Exhausted(r)
  /\ UNCHANGED <<clock, cache>>

AnswerArrives(r) ==
  /\ req[r].at = "replied" /\ clock - req[r].asked <= Timeout
  /\ \E usable \in Readings[req[r].feed] :
       IF usable
         THEN LET entry == Fresh(VenueOf(r), req[r].read) IN
              /\ cache' = [cache EXCEPT ![req[r].feed] = entry]
              /\ Give(r, "live", entry)
              /\ UNCHANGED clock
         ELSE Fails(r, TRUE)

VenueRefuses(r) ==
  /\ req[r].at = "asking"
  /\ \E permanent \in {Permanent(fault) : fault \in Fault \ {"timeout"}} : Fails(r, permanent)

VenueTimesOut(r) ==
  /\ req[r].at \in {"asking", "replied"}
  /\ Fails(r, Permanent("timeout"))

Retry(r) ==
  /\ req[r].at = "backoff"
  /\ Ask(r, req[r].feed, req[r].index, req[r].attempt + 1)
  /\ UNCHANGED <<clock, cache, start, given>>

Tick ==
  /\ clock < MaxClock
  /\ clock' = clock + 1
  /\ answer' = NoAnswer
  /\ UNCHANGED <<cache, req, start, given>>

MarketNext ==
  \/ Tick
  \/ \E r \in Request : (\E f \in Feed : Start(r, f)) \/ VenueAnswers(r) \/ AnswerArrives(r) \/ VenueRefuses(r)
                        \/ VenueTimesOut(r) \/ Retry(r)

MarketSpec == MarketInit /\ [][MarketNext]_marketVars

(***************************************************************************)
(* Properties.                                                             *)
(***************************************************************************)

Answers(r) == req[r] # Unasked /\ req'[r] = Unasked

\* What is not marked stale is recent: the venue computed it no longer ago
\* than an entry lives and a call lasts.
NotStaleIsRecent ==
  answer'.kind \in {"live", "cached"} /\ answer' # answer
    => clock - answer'.entry.read < EntryTtl + Timeout

\* A value that was known when the request came is not lost to it: it gets
\* that one or one fetched later, and only a request with no cached value at
\* all fails.
NothingLost ==
  \A r \in Request : Answers(r) /\ start[r] >= 0
    => answer'.kind # "failed" /\ answer'.entry.fetchedAt >= start[r]

\* The rate is Toman, whichever venue answered.
InToman == answer'.entry # NoEntry => answer'.entry.price = Rate(answer'.entry.read)

AnswersSound == [][NotStaleIsRecent /\ NothingLost /\ InToman]_marketVars

\* A venue is done with after all its attempts or for good.  It is asked once
\* the ones before it are done with, and a stale value or an error is given
\* once all are.
Spent(failures) == failures.permanent \/ failures.transient = Retries + 1

FallbackInOrder ==
  [][\A r \in Request : req[r] # Unasked =>
       LET chain == Chain(req[r].feed) IN
          /\ \A i \in 1..req[r].index - 1 : Spent(given[r][chain[i]])
          /\ Answers(r) /\ answer'.kind \in {"stale", "failed"} => req[r].index = Len(chain)
          /\ ~Answers(r) /\ req'[r].index # req[r].index => Spent(given'[r][VenueOf(r)])]_marketVars

\* What a caller is told, and when a venue is passed over for it.
MarketSound == AnswersSound /\ FallbackInOrder
===============================================================================
