----------------------------- MODULE QuoteIssue -----------------------------
(***************************************************************************)
(* POST /api/quotes: pricing a ticket ("indicative"), or listing its       *)
(* series, signing its fill and recording it ("execute").  Server          *)
(* instances run handlers at the same time and share only the database     *)
(* and the chain.                                                          *)
(*                                                                         *)
(* One series and one pool.  The ticket's validation and its price are     *)
(* left out (a refused ticket changes nothing), and so is the burst        *)
(* limiter, which each instance keeps to itself.  The chain is external:   *)
(* other fills move the pool, the keeper authorizes the series and the     *)
(* manager disables it.                                                    *)
(***************************************************************************)
EXTENDS Naturals, FiniteSets

CONSTANTS
  Users, QuoteHandlers, Payouts,
  MINUTE, HOUR,
  EXECUTABLE_QUOTES_PER_MINUTE_LIMIT, EXECUTABLE_QUOTES_PER_HOUR_LIMIT,
  QUOTE_TTL,          \* a row expires this long after the request
  ROW_RETENTION,      \* and is deleted this long after that
  LIMIT_WAIT,         \* the longest a request waits for the caller's rows
  MIN_FILL_TIME,      \* the least time a signed quote leaves the buyer
  CutoffAt,           \* lastTradeAt of the series
  BPS, MaxUtilizationBps, MaxPositionBps, PoolSize,
  LastQuoteTime       \* bound on the clock

\* A row is deleted a day and 30 seconds after its request (quotes/route.ts:459,
\* :465): long after the last request, however slow, that counts it in its hour.
ASSUME QuoteAssumption ==
  /\ IsFiniteSet(QuoteHandlers) /\ QuoteHandlers # {}
  /\ {MINUTE, HOUR, EXECUTABLE_QUOTES_PER_MINUTE_LIMIT, EXECUTABLE_QUOTES_PER_HOUR_LIMIT,
      QUOTE_TTL, ROW_RETENTION, LIMIT_WAIT, PoolSize} \subseteq Nat
  /\ MINUTE <= HOUR
  /\ LIMIT_WAIT + HOUR <= QUOTE_TTL + ROW_RETENTION

VARIABLES
  quoteTime,
  quoteRows,          \* rfq_quotes: whose, and when the request came in
  quoting,            \* the requests under way
  quotedSeries,       \* the series' two accounts and the pool
  issued              \* history: the executable quotes returned

quoteVars == <<quoteTime, quoteRows, quoting, quotedSeries, issued>>

NoRequest == [at |-> "free"]

QuoteInit ==
  /\ quoteTime = 0
  /\ quoteRows = {}
  /\ quoting = [h \in QuoteHandlers |-> NoRequest]
  /\ \E locked \in 0..PoolSize :
       quotedSeries = [market |-> "absent", binding |-> "absent",
                       assets |-> PoolSize - locked, locked |-> locked]
  /\ issued = {}

----------------------------------------------------------------------------
(* The pool's limits, as the server mirrors them (vsol-server.ts).         *)

calculateBpsLimit(amount, bps) == (amount * bps) \div BPS

Least(a, b) == IF a <= b THEN a ELSE b

\* The verdict on a payout, and the largest payout that would fit.
checkVsolPoolDepth(pool, maxPayout) ==
  LET total == pool.assets + pool.locked
      utilizationLimit == calculateBpsLimit(total, MaxUtilizationBps)
      positionLimit == calculateBpsLimit(total, MaxPositionBps)
      headroom == IF pool.locked >= utilizationLimit THEN 0 ELSE utilizationLimit - pool.locked
  IN [ok |-> /\ pool.locked + maxPayout <= utilizationLimit
             /\ maxPayout <= positionLimit
             /\ maxPayout <= pool.assets,
      maxFittingPayout |-> Least(headroom, Least(positionLimit, pool.assets))]

\* A series missing either account is planned; otherwise its state decides.
IsOffered ==
  \/ quotedSeries.market = "absent" \/ quotedSeries.binding = "absent"
  \/ quotedSeries.market = "open" /\ quotedSeries.binding = "enabled" /\ quoteTime < CutoffAt

----------------------------------------------------------------------------
(* The rows of the caller's last hour decide whether it may go on.         *)

\* The caller's rows of the last hour.
recentRows(user, requestedAt) ==
  {row \in quoteRows : row.user = user /\ row.createdAt + HOUR >= requestedAt}

checkExecutableQuoteRateLimit_OneMore(recent, requestedAt) ==
  LET within(window) == Cardinality({row \in recent : row.createdAt + window > requestedAt})
  IN [limited |-> \/ within(MINUTE) > EXECUTABLE_QUOTES_PER_MINUTE_LIMIT
                  \/ within(HOUR) > EXECUTABLE_QUOTES_PER_HOUR_LIMIT] \* mutant: off by one

checkExecutableQuoteRateLimit(recent, requestedAt) ==
  LET within(window) == Cardinality({row \in recent : row.createdAt + window > requestedAt})
  IN [limited |-> \/ within(MINUTE) >= EXECUTABLE_QUOTES_PER_MINUTE_LIMIT
                  \/ within(HOUR) >= EXECUTABLE_QUOTES_PER_HOUR_LIMIT]

\* A signed-in user asks for an executable quote; the request takes its time once.
Request(h, user, maxPayout) ==
  /\ quoting[h] = NoRequest
  /\ quoting' = [quoting EXCEPT ![h] =
       [at |-> "limit", user |-> user, maxPayout |-> maxPayout, requestedAt |-> quoteTime,
        missing |-> {}, pool |-> [assets |-> 0, locked |-> 0]]]
  /\ UNCHANGED <<quoteTime, quoteRows, quotedSeries, issued>>

Goto(h, step) == quoting' = [quoting EXCEPT ![h].at = step]
Stop(h) == quoting' = [quoting EXCEPT ![h] = NoRequest]

CheckLimit(h) ==
  /\ quoting[h].at = "limit"
  /\ IF checkExecutableQuoteRateLimit(recentRows(quoting[h].user, quoting[h].requestedAt),
                                      quoting[h].requestedAt).limited
     THEN Stop(h)
     ELSE Goto(h, "price")
  /\ UNCHANGED <<quoteTime, quoteRows, quotedSeries, issued>>

\* Readiness, the series, the price and the pool: the depth is checked on the
\* snapshot that buildVsolQuoteTransaction will be given.
PriceQuote(h) ==
  LET pool == [assets |-> quotedSeries.assets, locked |-> quotedSeries.locked]
  IN /\ quoting[h].at = "price"
     /\ IF IsOffered /\ checkVsolPoolDepth(pool, quoting[h].maxPayout).ok
        THEN quoting' = [quoting EXCEPT ![h].at = "list", ![h].pool = pool]
        ELSE Stop(h)
     /\ UNCHANGED <<quoteTime, quoteRows, quotedSeries, issued>>

----------------------------------------------------------------------------
(* Listing the series (listVsolSeriesOnChain).                             *)

\* Either account may be missing without the other.
ReadListing(h) ==
  LET missing == (IF quotedSeries.market = "absent" THEN {"market"} ELSE {})
                   \union (IF quotedSeries.binding = "absent" THEN {"binding"} ELSE {})
  IN /\ quoting[h].at = "list"
     /\ quoting' = [quoting EXCEPT ![h].at = IF missing = {} THEN "build" ELSE "send",
                                   ![h].missing = missing]
     /\ UNCHANGED <<quoteTime, quoteRows, quotedSeries, issued>>

\* One transaction creates what was missing when it was read, or nothing: it
\* fails when the market it creates exists.  An authorization that exists by
\* now is set again.
ListingLands(h) ==
  LET missing == quoting[h].missing
  IN /\ quoting[h].at = "send"
     /\ "market" \in missing => quotedSeries.market = "absent"
     /\ "binding" \in missing => quoteTime < CutoffAt
     /\ quotedSeries' = [quotedSeries EXCEPT !.market = IF "market" \in missing THEN "open" ELSE @,
                               !.binding = IF "binding" \in missing THEN "enabled" ELSE @]
     /\ Goto(h, "build")
     /\ UNCHANGED <<quoteTime, quoteRows, issued>>

\* The listing failed; it is taken for done when both accounts exist.
ListingFails(h) ==
  /\ quoting[h].at = "send"
  /\ IF quotedSeries.market # "absent" /\ quotedSeries.binding # "absent"
     THEN Goto(h, "build")
     ELSE Stop(h)
  /\ UNCHANGED <<quoteTime, quoteRows, quotedSeries, issued>>

----------------------------------------------------------------------------
(* Signing and recording.                                                  *)

quoteExpiry == Least(quoteTime + QUOTE_TTL, CutoffAt)

\* The fill is signed when the series is open, long enough before its cutoff,
\* and the payout fits the pool the caller read.
buildVsolQuoteTransaction(h) ==
  /\ quoting[h].at = "build"
  /\ IF /\ IsOffered
        /\ quoteExpiry > quoteTime + MIN_FILL_TIME
        /\ checkVsolPoolDepth(quoting[h].pool, quoting[h].maxPayout).ok
     THEN Goto(h, "record")
     ELSE Stop(h)
  /\ UNCHANGED <<quoteTime, quoteRows, quotedSeries, issued>>

isOld(row, requestedAt) == row.createdAt + QUOTE_TTL + ROW_RETENTION < requestedAt

\* Old rows are deleted, the quote's row inserted, and the quote returned.
InsertRow(h) ==
  LET row == [id |-> Cardinality(issued) + 1, user |-> quoting[h].user,
              createdAt |-> quoting[h].requestedAt]
  IN /\ quoting[h].at = "record"
     /\ quoteRows' = {r \in quoteRows : ~isOld(r, quoting[h].requestedAt)} \union {row}
     /\ issued' = issued \union {row}
     /\ Stop(h)
     /\ UNCHANGED <<quoteTime, quotedSeries>>

\* A read, the buyer's token account, or the database fails: no quote is
\* returned, whatever was listed or signed by then.
QuoteFails(h) ==
  /\ quoting[h].at \in {"limit", "price", "list", "build", "record"}
  /\ Stop(h)
  /\ UNCHANGED <<quoteTime, quoteRows, quotedSeries, issued>>

----------------------------------------------------------------------------
(* The surroundings.                                                       *)

\* A request has only its caller's rows to wait for before it counts them.
QuoteTick ==
  /\ quoteTime < LastQuoteTime
  /\ \A h \in QuoteHandlers :
       quoting[h].at = "limit" => quoteTime < quoting[h].requestedAt + LIMIT_WAIT
  /\ quoteTime' = quoteTime + 1
  /\ UNCHANGED <<quoteRows, quoting, quotedSeries, issued>>

\* Another fill locks collateral, or a settlement releases some.
PoolMoves ==
  /\ \E locked \in 0..PoolSize :
       /\ locked # quotedSeries.locked
       /\ quotedSeries' = [quotedSeries EXCEPT !.locked = locked, !.assets = PoolSize - locked]
  /\ UNCHANGED <<quoteTime, quoteRows, quoting, issued>>

\* The keeper lists the series, a half at a time; the manager disables it.
ListingMoves ==
  /\ \/ quotedSeries.market = "absent" /\ quotedSeries' = [quotedSeries EXCEPT !.market = "open"]
     \/ /\ quotedSeries.market = "open" /\ quotedSeries.binding = "absent"
        /\ quotedSeries' = [quotedSeries EXCEPT !.binding = "enabled"]
     \/ /\ quotedSeries.binding = "enabled"
        /\ quotedSeries' = [quotedSeries EXCEPT !.binding = "disabled"]
  /\ UNCHANGED <<quoteTime, quoteRows, quoting, issued>>

QuoteNext ==
  \/ QuoteTick \/ PoolMoves \/ ListingMoves
  \/ \E h \in QuoteHandlers, user \in Users, maxPayout \in Payouts :
       Request(h, user, maxPayout)
  \/ \E h \in QuoteHandlers :
       \/ CheckLimit(h) \/ PriceQuote(h) \/ ReadListing(h) \/ ListingLands(h) \/ ListingFails(h)
       \/ buildVsolQuoteTransaction(h) \/ InsertRow(h) \/ QuoteFails(h)

QuoteSpec == QuoteInit /\ [][QuoteNext]_quoteVars

----------------------------------------------------------------------------
\* The executable quotes a user was given for requests of one stretch of time.
QuotesDated(user, from, length) ==
  {q \in issued : q.user = user /\ q.createdAt \in from..(from + length - 1)}

(* The cap on executable quotes is checked on rows inserted only at the    *)
(* end of a request (quotes/route.ts:144-183, :463-469), so requests under *)
(* way together all pass it.  What is left of the promise: one user gets   *)
(* at most the limit and one more for each further request that runs       *)
(* beside, in any minute and in any hour.                                  *)
ExecutableQuotesAreBounded ==
  LET beside == Cardinality(QuoteHandlers) - 1
  IN \A user \in Users, from \in 0..quoteTime :
       /\ Cardinality(QuotesDated(user, from, MINUTE)) <= EXECUTABLE_QUOTES_PER_MINUTE_LIMIT + beside
       /\ Cardinality(QuotesDated(user, from, HOUR)) <= EXECUTABLE_QUOTES_PER_HOUR_LIMIT + beside
=============================================================================
