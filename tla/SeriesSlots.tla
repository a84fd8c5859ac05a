----------------------------- MODULE SeriesSlots ----------------------------
(***************************************************************************)
(* Which market a slot of the grid stands for (app/lib/series-resolver.ts) *)
(* and whether it can be traded (verifyVsolSeriesState and its callers in  *)
(* vsol-server.ts).  Two paths answer that: the catalog, which resolves    *)
(* every slot from one scan, one price per symbol and one batch of         *)
(* accounts, and the quote route, which resolves its one slot afresh.      *)
(*                                                                         *)
(* One symbol, any of them.  A market is its slot's expiry and a strike;   *)
(* its terms are the same otherwise.  The chain and the price are external *)
(* and move between the catalog's reads.                                   *)
(***************************************************************************)
EXTENDS ExpiryGrid, FiniteSets, FiniteSetsExt

CONSTANTS
  Codes,             \* the slots of the grid looked at
  Underlyings,       \* configured markets
  Tradable,          \* those that are live,
  IntradayEligible,  \* and those with a verified intraday feed
  Strikes,           \* strikes of the markets, on or off the ladder
  Spots,             \* prices of the underlying
  LADDER_STEP,
  TRADE_LOCK, TRADE_LOCK_LONG,   \* a listing of the server's stops trading so long before expiry
  MIN_LEAD,          \* and must trade for longer than this
  Leads,             \* bound: how long before expiry a binding may cut off, the keeper's earlier
  LastGridTime, MaxChanges

ASSUME SlotsAssumption ==
  Strikes \subseteq Nat /\ Spots \subseteq Nat /\ {TRADE_LOCK, TRADE_LOCK_LONG} \subseteq Nat

VARIABLES
  gridTime,
  symbol,            \* the one looked at
  chain,             \* the markets listed: their state and their binding to the pool
  spot,              \* what the price provider answers
  catalog,           \* the catalog request
  changes            \* bound: how often the chain has changed

slotVars == <<gridTime, symbol, chain, spot, catalog, changes>>

Unavailable == 0
NoSeries == [expiry |-> 0, strike |-> 0]
Absent == [pool |-> "absent", cutoff |-> 0]

SlotsInit ==
  /\ gridTime = 0
  /\ symbol \in Underlyings
  /\ chain = [m \in {} |-> Absent]
  /\ spot \in Spots \union {Unavailable}
  /\ catalog = [at |-> "away"]
  /\ changes = 0

-----------------------------------------------------------------------------
(* Resolving a slot against the markets found by a scan.                   *)

computeExpiryGrid(t) ==
  [code \in SeriesCodes |->
     CASE code = "15M" -> fifteen(t) [] code = "1H" -> oneHour(t) [] code = "EOD" -> eod(t)
       [] code = "7D" -> seven(t) [] code = "30D" -> thirty(t)]

tradeLock(code) == IF code \in {"7D", "30D"} THEN TRADE_LOCK_LONG ELSE TRADE_LOCK

\* A symbol that is not live has no slots, one without an intraday feed no
\* intraday slots, and a slot about to close is none.
slot(code, expiry, t) ==
  [expiry |-> expiry,
   available |-> /\ symbol \in Tradable
                 /\ code \in {"15M", "1H", "EOD"} => symbol \in IntradayEligible
                 /\ expiry - t > tradeLock(code)]

resolveExpiry(code, t) == slot(code, computeExpiryGrid(t)[code], t)

launchSeriesParams(resolved, code, t) ==
  [expiry |-> resolved.expiry, lastTradeAt |-> resolved.expiry - tradeLock(code),
   valid |-> resolved.available /\ resolved.expiry - tradeLock(code) > t + MIN_LEAD]

deriveLaunchSeriesParams(code, t) == launchSeriesParams(resolveExpiry(code, t), code, t)

matchesSlot(m, params) == params.valid /\ m.expiry = params.expiry

absDiff(x, y) == IF x > y THEN x - y ELSE y - x

\* The nearest strike, the lower of two; the lower median without a price.
pickAtTheMoney(candidates, price) ==
  LET below(m) == Cardinality({c \in candidates : c.strike < m.strike})
  IN IF price = Unavailable
     THEN CHOOSE m \in candidates : below(m) = (Cardinality(candidates) - 1) \div 2
     ELSE CHOOSE m \in candidates :
            \A c \in candidates \ {m} :
              \/ absDiff(m.strike, price) < absDiff(c.strike, price)
              \/ absDiff(m.strike, price) = absDiff(c.strike, price) /\ m.strike < c.strike

ladderStrike(price) ==
  LET rounded == ((price + LADDER_STEP \div 2) \div LADDER_STEP) * LADDER_STEP
  IN IF rounded < LADDER_STEP THEN LADDER_STEP ELSE rounded

resolution(candidates, price) ==
  IF candidates = {} THEN [kind |-> "none", series |-> NoSeries]
  ELSE [kind |-> "listed", series |-> pickAtTheMoney(candidates, price)]

resolveSlot(code, discovered, price, t) ==
  resolution({m \in discovered : matchesSlot(m, deriveLaunchSeriesParams(code, t))}, price)

\* Where a new listing would land.
deriveVsolSeriesCandidate(params, strike) == [expiry |-> params.expiry, strike |-> strike]

\* A listed market, a plan for one on the ladder if the slot is a valid one,
\* or nothing.
planUnlistedSlot(found, params, price) ==
  IF found.kind = "none" /\ price # Unavailable /\ params.valid
  THEN [kind |-> "planned", series |-> deriveVsolSeriesCandidate(params, ladderStrike(price))]
  ELSE found

resolveOrPlan(code, discovered, price, t) ==
  planUnlistedSlot(resolveSlot(code, discovered, price, t), deriveLaunchSeriesParams(code, t), price)

-----------------------------------------------------------------------------
(* Whether a series can be traded, from its accounts.                      *)

verifyVsolSeriesState(m, account, t) ==
  /\ account.state = "open"
  /\ account.binding.pool = "enabled"
  /\ t < account.binding.cutoff
  /\ t < m.expiry

\* The quote route: half a listing is repaired, so it counts as none.
stateOrPlan(found) ==
  [series |-> found.series,
   available |->
     CASE found.kind = "none" -> FALSE
       [] found.kind # "none" /\ found.series \in DOMAIN chain ->
            \/ chain[found.series].binding = Absent
            \/ verifyVsolSeriesState(found.series, chain[found.series], gridTime)
       [] found.kind # "none" /\ found.series \notin DOMAIN chain -> TRUE]

getVsolSeriesStateOrPlan(code) == stateOrPlan(resolveOrPlan(code, DOMAIN chain, spot, gridTime))

seriesState_BoundOnly(found, accounts, read) ==
  [series |-> found.series,
   available |->
     CASE found.kind = "none" -> FALSE
       [] found.kind = "planned" -> TRUE
       [] found.kind = "listed" /\ found.series \notin DOMAIN accounts -> FALSE
       [] found.kind = "listed" /\ found.series \in DOMAIN accounts -> \* mutant: a half listing is unavailable
            verifyVsolSeriesState(found.series, accounts[found.series], read)]

\* The catalog: "accounts" is the batch, "read" the one reading of the clock.
seriesState(found, accounts, read) ==
  [series |-> found.series,
   available |->
     CASE found.kind = "none" -> FALSE
       [] found.kind = "planned" -> TRUE
       [] found.kind = "listed" /\ found.series \notin DOMAIN accounts -> FALSE
       [] found.kind = "listed" /\ found.series \in DOMAIN accounts ->
            \/ accounts[found.series].binding = Absent
            \/ verifyVsolSeriesState(found.series, accounts[found.series], read)]

-----------------------------------------------------------------------------
(* The catalog request; "stale" says that something has moved since.       *)

Scan ==
  /\ catalog.at \in {"away", "done"}
  /\ catalog' = [at |-> "price", now |-> gridTime, discovered |-> DOMAIN chain, stale |-> FALSE]
  /\ UNCHANGED <<gridTime, symbol, chain, spot, changes>>

\* memoizeSpot: one lookup, whatever it answers, for every slot.
Price ==
  /\ catalog.at = "price"
  /\ catalog' = [at |-> "accounts", now |-> catalog.now, stale |-> catalog.stale,
                 found |-> [code \in Codes |->
                              resolveOrPlan(code, catalog.discovered, spot, catalog.now)]]
  /\ UNCHANGED <<gridTime, symbol, chain, spot, changes>>

getVsolSeriesStates ==
  /\ catalog.at = "accounts"
  /\ catalog' = [at |-> "done", stale |-> catalog.stale,
                 states |-> [code \in Codes |-> seriesState(catalog.found[code], chain, gridTime)]]
  /\ UNCHANGED <<gridTime, symbol, chain, spot, changes>>

-----------------------------------------------------------------------------
(* The surroundings.                                                       *)

Stale == catalog' = IF catalog.at = "away" THEN catalog ELSE [catalog EXCEPT !.stale = TRUE]

GridTick ==
  /\ gridTime < LastGridTime
  /\ gridTime' = gridTime + 1
  /\ Stale
  /\ UNCHANGED <<symbol, chain, spot, changes>>

SpotMoves ==
  /\ spot' \in (Spots \union {Unavailable}) \ {spot}
  /\ Stale
  /\ UNCHANGED <<gridTime, symbol, chain, changes>>

Change(listings) ==
  /\ changes < MaxChanges
  /\ changes' = changes + 1
  /\ chain' = listings
  /\ Stale
  /\ UNCHANGED <<gridTime, symbol, spot>>

\* Anyone lists a market for a slot, at any strike; the pool may not bind it.
ListMarket(code, strike) ==
  LET m == [expiry |-> computeExpiryGrid(gridTime)[code], strike |-> strike]
  IN /\ m \notin DOMAIN chain
     /\ Change([x \in DOMAIN chain \union {m} |->
                  IF x = m THEN [state |-> "open", binding |-> Absent] ELSE chain[x]])

\* The server authorizes with its own cutoff, the keeper with an earlier one;
\* the manager disables the binding.
BindMarket(m) ==
  \E pool \in {"enabled", "disabled"}, lead \in Leads :
    Change([chain EXCEPT ![m].binding = [pool |-> pool, cutoff |-> m.expiry - lead]])

\* The guardian disables a market, or it settles.
EndMarket(m) ==
  /\ chain[m].state = "open"
  /\ \E state \in {"disabled", "final"} : Change([chain EXCEPT ![m].state = state])

SlotsNext ==
  \/ Scan \/ Price \/ getVsolSeriesStates \/ GridTick \/ SpotMoves
  \/ \E code \in Codes, strike \in Strikes : ListMarket(code, strike)
  \/ \E m \in DOMAIN chain : BindMarket(m) \/ EndMarket(m)

SlotsSpec == SlotsInit /\ [][SlotsNext]_slotVars

-----------------------------------------------------------------------------
(* The catalog and the quote route agree on every slot, down to the strike,*)
(* when nothing has moved between them (vsol-server.ts:1026-1030, "nothing *)
(* here promises a trade the quote path would refuse", and :1068-1073, a   *)
(* rung reported unavailable that only a quote repairs is lost).           *)
CatalogAgreesWithQuotes ==
  catalog.at = "done" /\ ~catalog.stale =>
    \A code \in Codes : catalog.states[code] = getVsolSeriesStateOrPlan(code)
=============================================================================
