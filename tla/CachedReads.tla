----------------------------- MODULE CachedReads ----------------------------
(***************************************************************************)
(* The reads one server process shares between its requests: the market    *)
(* data of the four providers (spot, chart bars, realized volatility), the *)
(* status answer and the address lookup table (app/lib/*-market-data.ts,   *)
(* *-market-bars.ts, ttl-cache.ts, vsol-server.ts).  All follow one        *)
(* protocol - a fresh entry, else a recent failure, else the request under *)
(* way, else a new one - and differ in what the records below say.         *)
(*                                                                         *)
(* A behaviour is about one cache and one key; what is cached is the time  *)
(* it was published upstream.  Callers take the time once, when they ask,  *)
(* and a fetch takes as long as it likes.                                  *)
(***************************************************************************)
EXTENDS Naturals

CONSTANTS
  Callers,
  SNAPSHOT_TTL, UNIVERSE_TTL, PAIR_TTL, BARS_TTL, STALE_BARS_TTL,
  VOLATILITY_TTL, STATUS_TTL, LOOKUP_TABLE_TTL,
  SNAPSHOT_BACKOFF, BARS_BACKOFF,
  LastClock          \* bound on the clock

\* Bars that are not live are kept longer than live ones (15 s, 5 min).
ASSUME CacheDurationsAssumption ==
  /\ {SNAPSHOT_TTL, UNIVERSE_TTL, PAIR_TTL, BARS_TTL, STALE_BARS_TTL, VOLATILITY_TTL,
      STATUS_TTL, LOOKUP_TABLE_TTL} \subseteq Nat
  /\ BARS_TTL <= STALE_BARS_TTL

VARIABLES
  clock,
  cache,             \* the kind of read this behaviour is about
  entry,             \* the cached value and when it expires
  failure,           \* the remembered failure and when it expires
  fetching,          \* the requests under way; "current" is the one callers may join
  caller,            \* the callers: when they asked, what they got
  visits             \* bound: how often each caller has asked

cacheVars == <<clock, cache, entry, failure, fetching, caller, visits>>

----------------------------------------------------------------------------
(* What the caches differ in.                                              *)
(*   ttl      how long an entry is fresh,                                  *)
(*   staleTtl the same for an entry whose data is not live (chart bars),   *)
(*   backoff  how long a failure is remembered, 0 for not at all,          *)
(*   expiry   whether ttl runs from the request or from its completion,    *)
(*   age      whether the reported age is the one at completion ("frozen") *)
(*            or the caller's own ("asked"),                               *)
(*   dated    whether upstream dates its data or the fetch does,           *)
(*   shared   whether callers join a request under way,                    *)
(*   replaces whether a failure takes the place of the entry.              *)

Ticker == [ttl |-> SNAPSHOT_TTL, staleTtl |-> SNAPSHOT_TTL, backoff |-> SNAPSHOT_BACKOFF,
           expiry |-> "completion", age |-> "frozen", dated |-> "upstream",
           shared |-> TRUE, replaces |-> FALSE]
getCoinbaseSnapshot == Ticker
getPythSnapshot == Ticker

Undated(ttl) == [Ticker EXCEPT !.ttl = ttl, !.staleTtl = ttl, !.expiry = "request",
                               !.age = "asked", !.dated = "fetch"]
getHyperliquidUniverse == Undated(UNIVERSE_TTL)
getPreIpoPair == Undated(PAIR_TTL)

Bars == [Ticker EXCEPT !.ttl = BARS_TTL, !.staleTtl = STALE_BARS_TTL, !.backoff = BARS_BACKOFF,
                       !.expiry = "request"]
getCoinbaseMarketBars == Bars
getPythMarketBars == Bars
getHyperliquidMarketBars == Bars
getPreIpoMarketBars == Bars

\* Computed from the daily bars, which may come from their own cache: the time
\* that counts here is that of the bars.
Volatility == [Ticker EXCEPT !.ttl = VOLATILITY_TTL, !.staleTtl = VOLATILITY_TTL, !.backoff = 0,
                             !.shared = FALSE]
getCoinbaseRealizedVolatility == Volatility
getPythRealizedVolatility == Volatility
getHyperliquidRealizedVolatility == Volatility
getPreIpoRealizedVolatility == Volatility

statusCache == [Ticker EXCEPT !.ttl = STATUS_TTL, !.staleTtl = STATUS_TTL, !.backoff = 0]

getVsolAddressLookupTableAccount ==
  [Undated(LOOKUP_TABLE_TTL) EXCEPT !.backoff = LOOKUP_TABLE_TTL, !.shared = FALSE,
                                    !.replaces = TRUE]

\* The provider of a market, by its category; crypto follows the deployment.
getMarketSnapshot(category) ==
  CASE category = "pre-ipo" -> {getPreIpoPair}
    [] category = "stocks" -> {getHyperliquidUniverse}
    [] category = "crypto" -> {getCoinbaseSnapshot, getPythSnapshot}
getMarketBars(category) ==
  CASE category = "pre-ipo" -> {getPreIpoMarketBars}
    [] category = "stocks" -> {getHyperliquidMarketBars}
    [] category = "crypto" -> {getCoinbaseMarketBars, getPythMarketBars}
getMarketRealizedVolatility(category) ==
  CASE category = "pre-ipo" -> {getPreIpoRealizedVolatility}
    [] category = "stocks" -> {getHyperliquidRealizedVolatility}
    [] category = "crypto" -> {getCoinbaseRealizedVolatility, getPythRealizedVolatility}

Categories == {"crypto", "stocks", "pre-ipo"}
Providers ==
  UNION {getMarketSnapshot(c) \union getMarketBars(c) \union getMarketRealizedVolatility(c) :
           c \in Categories}
Caches == Providers \union {statusCache, getVsolAddressLookupTableAccount}

----------------------------------------------------------------------------
NoEntry == [expiresAt |-> 0, fetchedAt |-> 0, publishTime |-> 0, age |-> 0, trueTime |-> 0]
Away == [at |-> "away", asked |-> 0, age |-> 0, trueTime |-> 0]

CacheInit ==
  /\ clock = 1
  /\ cache \in Caches
  /\ entry = NoEntry
  /\ failure = 0
  /\ fetching = {}
  /\ caller = [c \in Callers |-> Away]
  /\ visits = [c \in Callers |-> 0]

CacheTick ==
  /\ clock < LastClock
  /\ clock' = clock + 1
  /\ UNCHANGED <<cache, entry, failure, fetching, caller, visits>>

IsFresh(e, now) == e.expiresAt > now

ClaimedAge_Frozen(e, now) == e.age \* mutant: every cache hit repeats the age of the first

\* The age a caller reads off a value, and the true age of the data then.
ClaimedAge(e, now) == IF cache.age = "frozen" THEN e.age
                      ELSE IF now > e.fetchedAt THEN now - e.fetchedAt ELSE 0

Answered(asked, e) ==
  [at |-> "answered", asked |-> asked, age |-> ClaimedAge(e, asked), trueTime |-> e.trueTime]

Joinable == {request \in fetching : cache.shared /\ request.current}

\* A caller asks: it is answered, refused, joins a request, or starts one.
Get(c) ==
  /\ caller[c].at # "waiting" /\ visits[c] < 2
  /\ visits' = [visits EXCEPT ![c] = @ + 1]
  /\ IF IsFresh(entry, clock)
     THEN /\ caller' = [caller EXCEPT ![c] = Answered(clock, entry)]
          /\ UNCHANGED fetching
     ELSE IF failure > clock
     THEN /\ caller' = [caller EXCEPT ![c] = Away]
          /\ UNCHANGED fetching
     ELSE /\ caller' = [caller EXCEPT ![c] = [at |-> "waiting", asked |-> clock, age |-> 0, trueTime |-> 0]]
          /\ fetching' = IF Joinable # {}
                         THEN (fetching \ Joinable) \union
                                {[request EXCEPT !.waiters = @ \union {c}] : request \in Joinable}
                         ELSE fetching \union {[now |-> clock, waiters |-> {c}, current |-> TRUE]}
  /\ UNCHANGED <<clock, cache, entry, failure>>

\* Whichever request ends, and when the cache is invalidated, no request under
\* way can be joined from then on; those dropped still run to their end.
DropInFlight(left) == fetching' = {[request EXCEPT !.current = FALSE] : request \in left}

\* The request is answered with data published at publishTime: it is cached,
\* the remembered failure forgotten, and everyone waiting for it answered.
Complete(request, publishTime, isLive) ==
  LET ttl == IF isLive THEN cache.ttl ELSE cache.staleTtl
      value == [expiresAt |-> (IF cache.expiry = "completion" THEN clock ELSE request.now) + ttl,
                fetchedAt |-> request.now,
                publishTime |-> publishTime,
                age |-> clock - publishTime,
                trueTime |-> IF cache.dated = "upstream" THEN publishTime ELSE clock]
  IN /\ request \in fetching
     /\ entry' = value
     /\ failure' = 0
     /\ DropInFlight(fetching \ {request})
     /\ caller' = [c \in Callers |-> IF c \in request.waiters THEN Answered(caller[c].asked, value)
                                     ELSE caller[c]]
     /\ UNCHANGED <<clock, cache, visits>>

\* The request fails: remembered for the backoff, never cached as a value; a
\* lookup table that could not be read is "no table" from then on.
Fail(request) ==
  /\ request \in fetching
  /\ failure' = IF cache.backoff = 0 THEN failure
                ELSE (IF cache.expiry = "completion" THEN clock ELSE request.now) + cache.backoff
  /\ DropInFlight(fetching \ {request})
  /\ entry' = IF cache.replaces THEN NoEntry ELSE entry
  /\ caller' = [c \in Callers |-> IF c \in request.waiters THEN Away ELSE caller[c]]
  /\ UNCHANGED <<clock, cache, visits>>

\* The value and the request under way are dropped, so that the next caller
\* computes anew; a dropped request writes its value all the same.
Invalidate ==
  /\ cache = statusCache
  /\ entry' = NoEntry
  /\ DropInFlight(fetching)
  /\ UNCHANGED <<clock, cache, failure, caller, visits>>

CacheNext ==
  \/ CacheTick \/ Invalidate
  \/ \E c \in Callers : Get(c)
  \/ \E request \in fetching :
       \/ Fail(request)
       \/ \E publishTime \in 0..clock, isLive \in BOOLEAN : Complete(request, publishTime, isLive)

CacheSpec == CacheInit /\ [][CacheNext]_cacheVars

----------------------------------------------------------------------------
(* The age of a price decides the gap risk a quote charges                 *)
(* (hyperliquid-market-data.ts:141-146, "an honest measure of how live the *)
(* price is").  A price without a date of its own is never older, when     *)
(* asked for, than its reported age; one with a date, whose age is fixed   *)
(* at completion, is older by less than the time it may be cached.         *)
AgesAreHonest ==
  \A c \in Callers : caller[c].at = "answered" =>
    LET slack == IF cache.age = "frozen" THEN cache.staleTtl ELSE 0
    IN caller[c].asked <= caller[c].trueTime + caller[c].age + slack
=============================================================================
