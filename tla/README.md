# A verification development for VSOL / tend-solana

VSOL is a Solana program that sells capped, fully collateralised options
("positions") out of a liquidity pool, and a set of off-chain services around
it. This directory holds TLA+ models of the system, the TLC runs that check
them on small instances, and TLAPS proofs of what can be proved for every
instance. Source paths are relative to `src/`; `lib.rs`, `math.rs`, `pyth.rs`
and `signature.rs` are those of `vsol/programs/vsol/src/`.

Contents: [1 the system](#1-the-system), [2 the modules](#2-the-modules),
[3 the runs](#3-the-runs), [4 the proofs](#4-the-proofs),
[5 what the code and its comments disagree on](#5-where-code-and-documentation-disagree),
[6 what is not modelled](#6-what-is-not-modelled), [7 what comes next](#7-what-comes-next).

## 1. The system

### Parts, state, operations

| part | where | state | operations |
|---|---|---|---|
| arithmetic | `math.rs`, `lib.rs` 3459-3499 | none | payoff, fee, shares, basis-point limits, rescaling of oracle values |
| market and settlement oracle | `lib.rs` 292-586 | `Market` (immutable terms, `enabled`), `SettlementOracle` (price, confidence, dates, `finalized`, `settled_from_stale_price`) | `create_market`, `publish_pyth_settlement`, `publish_custom_settlement`, `close_settled_market` |
| custom price feed | `lib.rs` 1886-2021 | `CustomPriceFeed` per symbol, `CustomSettlementObservation` per (symbol, expiry) | `init_custom_price_feed`, `update_custom_price_feed`, `capture_custom_settlement_observation` |
| pool: risk limits | `lib.rs` 588-893 | live and `pending_*` quote authority and caps | `initialize_liquidity_pool`, `update_liquidity_pool`, `apply_liquidity_pool_update`, `cancel_pending_pool_update` |
| pool: ledger | `lib.rs` 895-1064 | `total_shares`, `total_assets`, `locked_collateral`, `open_positions`, `LiquidityProvider.shares`, the pool's token account | `deposit_liquidity`, `withdraw_liquidity` |
| pool: bindings | `lib.rs` 633-743 | `LiquidityPoolMarket` (`enabled`, `last_trade_at`, `open_positions`) | `set_liquidity_pool_market` |
| positions | `lib.rs` 1066-1732 | `PoolPosition`, `PoolQuoteNonce`, a token vault each | `fill_pool_quote`, `settle_pool_position`, `refund_pool_position`, `close_pool_position` |
| config | `lib.rs` 179-290, 395-426 | fee, pause, eligibility, authorities, `domain_version` | `update_config`, `set_pause`, `set_market_enabled`, `set_eligibility` |
| oracle runner | `vsol/scripts/oracle-runner.ts`, `scripts/lib/*` | the pending boundary, a back-off, a process lease | boundary pass (update, capture, publish, settle, refund), heartbeat, cleanup |
| sweep, cranker | `scripts/lib/settlement-sweep.ts`, `settlement.ts`, `market-selection.ts`, `cranker.ts` | a snapshot of the chain per pass | search a print, publish, settle, refund, close a market |
| keeper | `scripts/keeper.ts`, `lib/expiry-grid.ts` | what a pass has scanned | list and authorize rungs |
| lookup tables | `scripts/create-lookup-table.ts`, `keeper.ts` 280-545 | tables on chain, the manifest file | create, extend, rotate, deactivate, close |
| bootstrap | `scripts/bootstrap.ts`, `init-heartbeat-feed.ts` | the manifest, a run's own accounts | set up, write the manifest, try the life of a position |
| RPC failover | `vsol/sdk/rpc-failover/` | cooldowns per endpoint and method | ordered attempts, polling confirmation |
| quote API | `app/api/quotes`, `app/lib/options.ts`, `vsol-server.ts`, `rate-limit.ts`, `custom-oracle-readiness.ts` | `rfq_quotes` rows, the pool read from the chain | check, price, list, sign a quote |
| series resolution | `app/lib/series-resolver.ts`, `expiries.ts`, `vsol-server.ts` 945-1120 | none: a scan, a price, a batch of accounts | choose the market of a slot, say whether it trades |
| fills | `vsol-server.ts` 1300-2080, `app/api/vsol/send`, `app/api/positions` | `transaction_simulations`, `positions` | compose, recognize, relay, record, list |
| close, launch, liquidity flows | `app/lib/vsol-close.ts`, `vsol-launch.ts`, `app/api/vsol/*` | a row prepared earlier | prepare, verify, simulate, send, confirm |
| sign-in | `app/api/auth/*`, `app/lib/session*.ts`, `siws.ts` | single-use nonces, session cookies | issue, sign, verify |
| cached reads | `app/lib/ttl-cache.ts`, `*-market-data.ts`, `*-market-bars.ts`, `app/api/vsol/status` | a value, a failure, requests under way | get, invalidate |
| trade ticket | `app/components/TendTerminal.tsx` | the ticket, a request number, the quote on screen | quote, refresh, review, sign |
| catalog, other views, database | `app/lib/markets.ts`, `chain-*.ts`, other components, `db/` | tables | decode, display |

### How they interact

The on-chain parts share accounts; an instruction runs to its end or not at
all, and transactions of different senders are ordered by the chain alone.
Publishing, settling, refunding and creating a market may be sent by anybody;
updates of the custom feed, quotes and buybacks need a particular key. The
instructions read the clock, so each races the deadlines:

    expiry        observation end   settlement deadline  tier 2 opens   final deadline
      |---- window -----|------- grace -------|-- priority --|-------------|
     tier-1 prints are dated here     refunds from here on
                                              |---------- staleness -------|
                                              |-- cleanup buffer (>= staleness) --> market may be closed

The pool meets the settlement side in one place: it reads the oracle's
`finalized` flag and price, and it depends on the market account not being
closed under an open position. The off-chain services drive the chain by
transactions that may fail, be repeated, or land after another process's.

### What is hard

* Two publishers and two tiers compete for one account; refund, publication and
  cleanup have three deadlines computed in different instructions.
* The custom observation is addressed by (symbol, expiry) and shared by markets
  that differ in strike, window or confidence bound.
* Three counters mirror the open positions by hand, in four instructions. A
  mismatch locks the pool, whose providers may only act when it is idle.
* A quote is single-use by way of an account that settlement and refund delete.
* Shares and assets are rounded in every conversion; the raw token balance can
  be raised by anyone.
* Limits, fee, oracle key and domain version change under signed quotes, open
  positions and pending proposals.
* Off chain: decisions from snapshots taken before an await, retries of what may
  have happened, scripts that overlap themselves, a manifest two scripts read and
  write back whole, a lane that skips what it missed.
* In the web application: handlers that overlap on one row, a limit checked before
  what it counts is written, a transaction that times out and lands, a catalog and
  a quote route that resolve the same slot from different reads, a browser whose
  requests overtake each other while its wallet changes.

`PROJECT.json` lists each hazard at its line, with the properties that guard it.

### What makes each part correct

* *Arithmetic*: a payout fits the collateral, a fee its amount; no round trip
  gains; roundings favour the pool; rescaling is conservative.
* *Oracle*: at most one price per market, dated and published as its tier
  allows, within its own market's confidence bound, never changed, never after
  cleanup; a captured observation can be published.
* *Risk limits*: nothing is live that was not announced for the whole timelock.
* *Pool*: counters equal the positions, the ledger equals the tokens, the cap
  bounds the locked collateral at all times, a quote is filled once, no escrow is
  stranded, every position ends.
* *Runner, cranker*: what was decided from a snapshot is still right when it is
  sent; a refund has a cause; every position ends; nothing is closed that owes
  anything; the search for a print returns one that is dated as the program asks and whose
  numbers it takes, unless the program's rounding decides, and passes over none.
* *Keeper, tables, bootstrap*: one strike per expiry as far as one pass can see,
  cutoffs that never move back, a published table that is alive unless a pass that
  another has overtaken publishes it again, a manifest that describes what is there.
* *Connection*: an answer is about the transaction and not about one endpoint, and
  every confirmation ends, as long as the bodies of the responses do.
* *Web*: a session is one signature, a recorded position one fill, a confirmed
  action one effect; a cap on signed quotes that holds up to the requests in
  flight; an age that is not understated; what is signed is what is shown; catalog
  and quotes agree; a quote is let out only if somebody can settle it.

## 2. The modules

| module | role |
|---|---|
| `VsolMath` | the arithmetic: value operators, each with an `...Ok` predicate that holds exactly when the Rust helper returns `Ok` |
| `MarketTerms` | a market's terms, the checks on them, the instants computed from them |
| `MarketOutcome` | abstract specification: what the settlement side promises, with no oracle in sight |
| `SettlementOracle` | both publishers, the feed, the observations; implements `MarketOutcome` |
| `PoolRiskLimits` | the timelocked risk configuration; `idle` is a variable of its environment |
| `LiquidityPool` | providers, bindings, fills and exits; instantiates `MarketOutcome` (the chain) and `PoolRiskLimits` (with `idle <- Idle`) and takes their actions as conjuncts of its own |
| `SettlementDecisions` | the pure predicates of `settlement.ts` and `market-selection.ts`, over `MarketTerms` |
| `OracleRunner` | the boundary lane and its pass, over `MarketOutcome` |
| `MarketCleanup` | a cranker run against a chain with several pools |
| `PrintSearch` | the walk back through Hermes: raw numbers tested by the search, rescaled ones by the program |
| `ExpiryGrid` | the rolling grid of expiries, in the scripts and in the app |
| `MarketKeeper` | overlapping passes that list and authorize rungs |
| `LookupTables` | creation, rotation and retirement of the address tables, by overlapping passes |
| `Bootstrap` | the set-up script and its repeated runs |
| `RpcFailover` | one connection over lagging endpoints, and both confirmation strategies |
| `ExecutionReadiness` | the heartbeat lane and the reader that gates quotes |
| `SeriesSlots` | the catalog and the quote route on the same slots |
| `FillTransactions` | the signed fill between the instance that composed it and the one that gets it |
| `QuoteIssue`, `FillRecords`, `PreparedActions`, `SignIn`, `CachedReads`, `TradeTicket` | one protocol of the web application each |
| `VsolMathProofs`, `PoolRiskLimitsProofs`, `SettlementOracleProofs`, `LiquidityPoolProofs`, `LiquidityPoolSafetyProofs`, `OracleRunnerProofs`, `MaintenanceProofs`, `WebProofs` | theorems and proofs |
| `MCSettlementOracle`, `MCOracle`, `MCLiquidityPool`, `MCPool`, `MCOracleRunner`, `MCResolution`, `MCMaintenance`, `MCWeb` | constants for TLC, and the parts that share a run |

### Correspondence with the code

* An action is one instruction with all that its handler does, account closing
  and token transfers included. Guards are the `require!`s, the account
  constraints that depend on state, and the checked arithmetic that can fail.
  `PROJECT.json` maps every definition to its lines.
* `now` is `Clock::unix_timestamp`. `Tick` is the only action that advances it,
  so any number of instructions, or none, run at one instant.
* A market's address hashes its terms, so a market *is* its terms here:
  `Terms[m]` is constant. The hash is assumed injective.
* `prints` is the set of all prints Pyth has signed; anyone may relay any of
  them at any time, in any order, as the program allows. The parsing and the
  verification level (`pyth.rs`) are the membership in that set.
* A position is keyed by (quote authority, nonce), the seeds of its nonce
  account; the vault and the position account derive from it. Deleting an
  account is going back to `NoPosition`, `FALSE` or 0.
* A signature is the guard `QuoteSigned`: the pool's current authority and the
  current domain version. `Quotes` is what the authority may ever sign;
  the environment may fill any of them, in any order.
* Tokens are counted: `poolToken`, `vault` and `wallet`. Anybody may send tokens
  to the pool's account (`Donate`). Nobody sends tokens to a position's vault:
  all three exits require the vault to hold exactly the escrow (`lib.rs`
  1326-1333, 1493-1496, 1642-1649), so the model's results about exits rest on
  this assumption.
* `fills`, `donated`, `announced` and `mandate` are history variables: the
  properties read them, no guard does except the bound of `Donate`.
* A buyback's signature is not tracked: `ClosePoolPosition` lets the authority
  have signed any amount of `Buybacks`, which is more than the code allows.
* Left out of `LiquidityPool`: rent, events, cumulative statistics, minimum outputs and
  deadlines of the providers (they only refuse), other pools, rotation of the
  treasury owner.

Off chain:

* An action is what a process does between two awaits; what it has read is kept in
  its own variable (`pass`, `cleaner[c]`, `keeper[k]`, `handler[h]`...) and may be
  stale by the next action. A process may stop between any two.
* The chain appears in each module as far as it matters there: whole
  (`MarketOutcome`) under the runner, as bindings and holdings under the cleanup, as
  accounts and a price under the series. Its guards are those of the instruction;
  the map of such an action names both the caller's lines and the program's.
* A transaction sent has landed, was refused, failed, or may land later, whatever
  its sender was told. Where the sender waits (`RpcFailover`), each endpoint
  answers from a snapshot of its own.
* `decidePositionAction`, `selectViableSettlementTier` and the others of
  `SettlementDecisions` take the clock reading as a parameter: the age of that
  reading is what the modules above them vary.
* A database row is read and written by separate actions unless the code uses one
  statement or one transaction; a unique index is a guard on the insert.
* `excused`, `straddled`, `handled` (`OracleRunner`), `contested` (`MarketKeeper`),
  `issued` (`QuoteIssue`), `lastUp` and `missed` (`ExecutionReadiness`), `overtaken` and
  `overwritten` (`LookupTables`), `opened` (`Bootstrap`) are history.
* Signed bytes are a shape and a market (`FillTransactions`), or the prepared
  transaction, the same instruction in another message, or another instruction
  (`PreparedActions`). Prices, names and row contents are small sets.

### The abstract specification

`MarketOutcome` has one variable, `outcome[m]`: absent, pending, final with a
price, closed. A market is opened ahead of its expiry, finalized at most once
and between its expiry and its final deadline, closed only after its cleanup
deadline, and never comes back. `SettlementOracle` implements it under the
mapping `Outcome` (checked and proved); `LiquidityPool` uses its
actions as the environment. So a result about the pool holds with the real
publishers underneath, except where the pool constrains the closing of a market
(`BindingDone`): there the pool's action is the conjunction of both sides.

## 3. The runs

Instances shrink the durations but keep their order: every interval of a time line
has an instant of its own. The clock of a run on the program goes past the cleanup
deadline, except in the parts "race" of `oracle` and "shares" of `pool`, which stop
where their questions end.

| run | states | shows |
|---|---|---|
| `oracle` | 369 thousand | Part "tiers": one market, Pyth only; up to two prints at any instants: a price that must be rounded, one whose confidence passes only if rounded down, one that leaves u64. Deadlines, age bound, rounding, finality, refinement. Part "race": two strikes of one series with different windows and confidence bounds, two oracle keys, feed and Pyth together; every capture and publication order. |
| `pool` | 506 thousand | Part "trading": three quotes that cannot all fit, every settlement price that matters (out of, in and deep in the money), partial and full buybacks, two sets of caps. Part "shares": two providers, three deposit sizes, donations, a fee update, a position in between. The buyer is the treasury. |
| `pool_resolution` | 245 thousand | fairness. Part "pool": pauses, disabled markets and fee updates at any time; a price may or may not come. Part "connection": two endpoints that lag, fail, refuse a method, lose an answer or stop in the middle of one; one transaction that lands, fails, is dropped with its fork or expires. |
| `runner_boundary` | 502 thousand | two expiries, a position each, two faults among failed calls, crashes and closed token accounts, another cranker and another publisher. |
| `maintenance` | 1.99 million | seven parts: keeper, cleanup, print search, fill transactions; two keeper passes and the rotation over one manifest and three tables; two runs of the bootstrap, each stopping anywhere, beside a cranker and the lane; the risk limits, with two authorities, every combination of two caps each (one pair invalid), two timelocks' worth of time, and a pool that becomes idle and busy at will. |
| `web` | 1.79 million | eight protocols, one per behaviour: sign-in, cached reads, quote issue, fill records, prepared actions, trade ticket, series slots, heartbeat. |
| `oracle_real_print`, `oracle_one_observation`, `pool_early_close`, `tables_overlapping_passes`, `tables_last_settlement`, `search_rounding_edge` | - | the first six disagreements of section 5 |

A run with several parts has a variable of its MC module ("part", "script") that picks
one at the start. The modules that share a run share no state: the actions of one alone are
taken, and the variables of the others stay at one beginning. The two parts of `oracle`, and
of `pool`, are one module under two sets of bounds, which are predicates on the next state
(`MCOracle`, `MCPool`). `MCResolution`, `MCMaintenance` and `MCWeb` extend their
modules, so that a run evaluates their assumptions and checks the very definitions the
theorems are about.

Deadlock is not checked where the system may stop: clocks are bounded, requests
come to an end, and a market that is over has nothing left to do. That something
must happen is stated as liveness instead.

### Bounds

`MaxTime` (`LastNow`, `LastClock`, ...) ends the clock; `MaxPrints`, `MaxVersions`,
`MaxDonations`, `MAX_FAULTS`, `MaxPasses`, `MaxOthers`, `MaxRuns`, `MaxChanges`,
`MaxStarts`, `MaxEdits` and their like count what an environment may do. Where the
code itself has a limit, the instance reaches it.

* *Program runs.* `MaxU64` is above every amount that arises, except in
  `oracle`, where one print leaves it when rescaled.
* `runner_boundary`: boundaries at 4, 8, 12; a capture window of two units, of which
  the wake-up offset takes one; a refund deadline before the next boundary's pass.
  Two faults fit one boundary or two. After `LAST_FAULT` passes take no time.
* `RpcFailover`: a last valid height of 1 and a cluster height of at most 2, so that
  every endpoint can be before, at and after expiry.
* `MarketKeeper`: two passes, two rungs, two strikes, and one act of somebody else
  between any two of their steps.
* `MarketCleanup`: one market, two pools, one position each, the instants before,
  in and after the market's life. No run lasts from before the last enabling of a
  binding to the cleanup deadline, a week and more apart in the program.
* `LookupTables`: two keeper passes, three tables, two markets of which one is in the
  manifest, each script stopping anywhere, and four instants: a table can be retired,
  wait out its deadline and its cooldown, and be closed, while a pass holds an older file.
  `OBSERVATION_SECONDS` and `STALENESS_SECONDS` are one unit each, the widest window
  `WindowWithinStaleness` allows.
* `PrintSearch`: six seconds of any feed, in which each second is dark or has one of three
  prints (`MCQuotations`: within the bound before and after rescaling, only before, neither),
  every clock reading the tiers allow, a stride that grows once and is then capped, and three
  probes.
* `Bootstrap`: two symbols, two rungs, one day, two runs, two sends of a smoke
  transaction in place of four. The smoke markets' clock only runs
  while a run looks at it.
* `FillTransactions`: one slot, two strikes, one cutoff (`Leads`), two tables of one
  address, two instances of successive builds; a copy of a table is any earlier content of it. The fill
  composed today always fits a packet, so `LegacyFits = FALSE` and the
  four-instruction form stand for the fallback and for earlier releases.
* `SignIn`: two wallets, nonces, attempts and handlers, and a clock of two instants,
  enough for a nonce and a session to expire. Requests are delivered any number of times.
* `CachedReads`: one key, two callers who each ask twice, every cache of the
  application in turn, with its lifetimes in their real order. The status cache, the one made
  by `ttl-cache.ts`, may be invalidated at any time, also during a computation; nothing in the
  application does so (`tests/ttl-cache.test.mjs` 79-87 does).
* `QuoteIssue`: one user, two handlers, a limit of one a minute and two an hour; a
  row lives one unit and is kept two more, so that old rows are deleted while requests
  that counted them are still under way. `LIMIT_WAIT` bounds how long a request waits
  for its caller's rows: one unit, with an hour of two, just fits the three a row is kept,
  as an hour and any wait fit the code's 24 hours and 30 seconds.
* `FillRecords`: one quote, two transactions that fill it, two handlers of each route.
* `PreparedActions`: two rows of one family (position, liquidity or launch), two send handlers, the
  cluster's clock before and after every deadline.
* `TradeTicket`: one edit, wallet switch, tier clamp and automatic refresh each, five
  requests.
* `SeriesSlots`: an intraday and a weekly slot, three symbols (live, daily only, not
  yet tradable), strikes on and off the ladder, three changes of the chain.
* `ExecutionReadiness`: units of 100 s; a pass and its transaction take at most one,
  one rotation of the key, two starts.

### What the properties are about

Each is stated in its module with the lines it is about. Those of the program need
several instructions of several senders to go wrong (`CapturesArePublishable`,
`LiveLimitsWereAnnounced`, `QuoteFilledOnce`, `UtilizationBounded`,
`OpenPositionsHaveMarkets`, `PositionsResolve`). Those off chain relate what a
process read to what is true when it acts:

* `DecisionsStayValid`, `RefundHasACause`, `PositionsResolveEventually`: the runner.
  A refund in place of a payout is always explained by a failure, by a late pass, by
  a pass that was still running at the next boundary, or by a second strike that used
  the observation up. The third is why "straddled" exists (section 5).
* `ClosedMarketsOweNothing`: the program looks at one binding, the cleanup at all of
  them. What makes the answer good although the scans are of different instants is
  that nobody can fill a position on a market that expired before the first of them.
* `OneStrikePerExpiry`, `CutoffsMoveForward`: hold of a pass that neither overlaps
  another nor follows a disabled market; the modules say what is excepted, and
  section 5 why.
* `ExecutableQuotesAreBounded` states what is left of the limit: one more
  for each request in flight.
* `ReportsAreTrue`: "expired" is true when height and status came from the same
  endpoint. (The ceiling of `confirm.ts` 209 throws the same error class without having
  asked; the model keeps it apart as "ceiling", and the property says nothing of it.)
  `ConfirmationsEnd` needs the ceiling on the loop, and responses whose bodies end.
* `SearchIsSound` compares two tests of one print: the search's, on the raw numbers, and the
  program's, on the rescaled ones. They agree when the market's scale expresses the print
  exactly, or when the raw confidence is within its bound by a unit of the scale.
* `PublishedTableIsAlive` excepts a table that a pass overtaken by another published again;
  `TablesOutliveTheirMarkets` measures by the program's deadlines, window included, and
  not by the script's.
* `CatalogAgreesWithQuotes` compares two code paths on one state. A catalog some of whose
  reads the chain moved under is excepted ("stale"): it is an answer about no instant.
* `HeartbeatIsHonest`: neither side errs: no quote on the word of a runner that is gone, or
  of a key that was retired, and no pause for one missed beat.

### Fairness

`pool_resolution`, part "pool": weak fairness of the clock, of settling and of
refunding each position. The two instructions need no signature of any party to
the position, and the sweep of the runner and of the cranker tries every open
position of every expired market on each pass (`settlement-sweep.ts` 140-190). Nothing
is assumed of the oracle, of the manager or of the buyer. The refund stays
enabled until the position ends, unless a price arrives, and then the settlement does.

`pool_resolution`, part "connection": weak fairness of the caller's next request, of the
caller's clock, and of an attempt up to the headers of its response, since that is what its
timer covers (`fetch.ts` 43-56 clears it when the headers arrive). That the body then ends is
left to the endpoint: no fairness is assumed of it, and `ConfirmationsEnd` has it as its
hypothesis (`BodiesEnd`). Section 5 says what happens without it. Nothing
else is assumed of the endpoints, and nothing of the cluster.

`runner_boundary`: weak fairness of the runner's own steps, restart included (a
supervisor starts it again), and strong fairness of the clock, which the model holds back
during a pass after `LAST_FAULT`. Nothing is assumed of the other cranker, nor that any
call succeeds while faults remain; that each call returns is assumed, on the same condition
as above. So `PositionsResolveEventually` discharges, for the runner, what
`pool_resolution` assumes.

The other runs check safety only.

## 4. The proofs

The theorems hold for every value of the constants that satisfies the named
`ASSUME`s: any set of markets and terms, any durations with
`MAX_SETTLEMENT_STALENESS <= MARKET_CLEANUP_BUFFER`, any finite set of
quotes, any prices, fees, amounts and limits.

*Powers and sums* (`VsolMathProofs`). The library's induction theorems cannot be used
here (they take an operator as a parameter), so the few facts about recursive functions
are proved from the well-founded order of the naturals: a least exponent, or a least
number of elements, at which the fact fails has a predecessor at which it holds.
From it come the type of a sum over a finite set, and what a sum becomes when an element leaves
or one value changes (`SumTyped`, `SumWithout`, `SumChanged`, `PowerPositive`). The set of
wallets is assumed finite for them.

*Arithmetic* (`VsolMathProofs`). From two lemmas that bound floor and ceiling
division: payouts fit the collateral, fees their amount, the escrow is split
with nothing left over, a deposit withdrawn at once gains nothing and loses less
than the price of one share, deposits and withdrawals never lower the worth of a
share, and a price rounded down with a confidence rounded up never pass a bound
the exact values fail (`NormalizationIsConservative`, for every scale and power of
ten).

*Risk limits* (`PoolRiskLimitsProofs`). `LiveLimitsWereAnnounced` is not
inductive: an application must know that the pending proposal is the one
announced, and that it was announced a whole timelock before its effective time.
`IInv` adds this link between `pending` and `announced`.

*Oracle* (`SettlementOracleProofs`). `IInv` is type correctness, the life cycle
(a finalized oracle belongs to a live market, a closed one is reset) and the
three safety invariants; each action is a lemma, most of them instances of two
facts: a fitting observation stays fitting as time passes, and a dated settlement
stays dated. From it follow the dating, confidence and publishability of
settlements, the slackness of the age bound, the finality of prices, and
`RefinementHolds`: every step of the oracle is a step of `MarketOutcome` or a
stutter. `RescalingNeverLoosens` needs of the power of ten only that it is positive.

*Pool, types and limits* (`LiquidityPoolProofs`). `AccountsTyped` (everything but
the limits) is inductive by itself. The three exits are shown to be instances of one
`Exit`, which splits an escrow into three non-negative parts (by
`PayoutWithinCollateral` and `FeeWithinAmount`), so each later proof treats them
once. Every step of the pool is then a step of `PoolRiskLimits`
(`RiskRefinementHolds`), whose inductive invariant carries over and gives
`PoolTypeCorrect` and `PoolTimelockHolds`.

*Pool, safety* (`LiquidityPoolSafetyProofs`).

* `UtilizationBounded` is inductive relative to `TypeOK`: a fill obeys the cap, an
  exit frees at least as much capacity as it can lose because the cap is below
  100%, and the caps change only when nothing is locked. `TradingNeverWipesOut`
  follows: with a cap of at most 80% some assets are not locked, and an exit takes
  none of those.
* `LedgerIsBacked` moves in step with the tokens; `SharesKeepTheirWorth` and
  `DepositsKeepTheirValue` lift the arithmetic theorems to the instructions,
  which need an idle pool.
* `QuoteFilledOnce` is strengthened to `FilledOnce`: a filled quote is past its
  market's expiry, or its nonce record still exists and the position under that
  nonce, if any, is the one it opened. The two exits that delete the record come
  after the expiry; the one that does not keeps it.
* `OpenPositionsHaveMarkets` is strengthened by `PositionsCounted`: both counters of
  open positions equal the cardinality of the set they count. Closing a market
  then needs an empty set.
* `FeeFixedAtFill` follows from the split each exit makes.
* `TokensAndSharesAddUp` and the collateral in `CountersMatchPositions` are sums over
  sets: of the wallets, the vaults, the providers, the open positions. Each instruction
  changes such a sum at one or two points, by amounts that cancel.

*Runner* (`OracleRunnerProofs`). The instants recomputed in TypeScript are the
program's (`InstantsAgree`). `DecisionsStayValid` is strengthened to `IInv`: the clock
reading of a pass is past, a price it saw is there for good, and each work list
follows from what was read, by the loop the pass is in. A step either leaves the
pass alone on a chain that only moves forward, or moves it to the next loop.

`RefundHasACause` adds `CauseInv`: no expiry lies between the clock and the boundary the lane waits
for (`Lane`); the scan has seen every position it could have (`Seen`); a market that is
owed a settlement without an excuse is still in time and its boundary is not behind the
lane (`OnTime`), and the pass that is about it has captured its observation or is about to
(`InHand`); what was refunded is explained. The theorem assumes that expiries lie on
the boundaries (`OnGrid`). `expiry-boundary.ts` 3-11 reports that this was sampled;
`GridOnBoundaries` proves it of the grid. The smoke markets of the bootstrap, which settles them
itself, are off it.

*Maintenance* (`MaintenanceProofs`). Every safety property of the scripts in the run
`maintenance` is proved, each from an invariant of its own module:

* `OneStrikePerExpiry`, `CutoffsMoveForward` (keeper): the grid is strictly increasing at
  every instant and for all cadences (`GridIncreases`), and its boundaries only move
  forward. A pass that overlaps no other has scanned every enabled market of a rung it has
  still to list. A market with the short cutoff is of the first rung of any schedule, so
  another rung of it never shortens a cutoff.
* `ClosedMarketsOweNothing` (cleanup): a run reads the clock, the bindings of either layout
  and the positions at different instants, in any order. `RunInv` says what is left of each:
  the bindings of the old layout are a set that never changes, and a current binding seen
  idle stays idle once it is too late to enable it. That a market the run finds closable was
  already too late for that when the run began is `CleanupAssumption`: no run takes longer
  than from the last instant a market can be enabled (`MIN_MARKET_LEAD` before its expiry) to
  its cleanup deadline, more than a week later in the program; a run takes minutes.
  Without it the property is false: a run that slept through a market's life would act on
  the bindings of before.
* `PublishedTableIsAlive`, `TablesOutliveTheirMarkets` (lookup tables): what is published, by
  the manifest or by the file of a pass that no other has overtaken, is an active table
  that is on no pass's list and not on its own (`Publishable`, `TablesInv`). A pass is
  overtaken when another finds the table its file names among those to retire; what it then
  writes is recorded in `overwritten`. Each retiring entry carries a deadline no earlier than
  that of any market that was live when it was retired (`OutliveIsPatient`), and that deadline
  is past the program's first one if the window is no longer than the staleness
  (`WindowWithinStaleness`, 30 s against a day).
* `SearchIsSound`: the walk never goes forward, what it has left behind is dark or was
  looked at, and each probe moves it back by at least a second, so a search that ran
  out of probes has left as many seconds behind. The tier open at the reading stays open
  (`FoundIsInTime`). The two tests are related by `VerdictsAgree`: what the program takes
  the search takes (`NormalizationIsConservative`); and what the search takes the program
  takes, because rescaling is exact for a scale that is a multiple of the power of ten
  (`MultipleDivides`, `ExactIsEnough`), and otherwise takes less than one unit from the price
  and adds less than one to the confidence (`OneUnitIsEnough`).
  `SearchAssumption`: the history covers the seconds of which a print may settle.
* `ManifestIsBacked` (bootstrap): `Behind` lists what each step of a run presupposes on chain,
  and which of its smoke positions the run has opened (`Tried`); nothing a later run does takes
  any of it away.
* `SignedFillsAreRecognized`: of any two manifests the later trusts every table the earlier
  did, unless it is closed, and the fill's table is one its composer trusted; a table's
  places never change (`ManifestsKnowTables`, `FillNamesItsMarket`). That nothing else is accepted
  rests on the accounts derived from the market, which a wrong place contradicts. The proof
  showed the property as first stated to be too strong: a four-instruction fill composed for
  the seven-day slot is refused once its expiry has become the end-of-day slot's, which has
  another cutoff. It now asks for the same cutoff. (No signed transaction lives that long:
  its blockhash expires after a minute or two, which is not modelled.)

* `ReportsAreTrue`: the sender knows the cluster only from snapshots, each as old as its
  endpoint likes. Two of them are final whatever the cluster does next: confirmed without
  an error, and past the last valid height without having succeeded (`Settled`,
  `Dead`; `ViewsAreFinal`). The second look at the status is what makes the two halves
  of `Dead` one endpoint's: a snapshot only moves forward, so its height is still past the
  last valid one when the status is read (`ConnectionInv`). The attempts enter by one fact,
  that a request under way has an endpoint left to try (`TurnUntried`). A list has a
  first endpoint (the manifest names one), which is the only assumption.

*Web* (`WebProofs`). Every invariant of the run `web` is proved, each from an invariant of
its own module:

* `SessionsAreProven`: a handler's request was sent and is signed by the wallet it
  names; a session's nonce was sent, so it is never issued again, and its row,
  while it exists, is used; a cookie's wallet has a session. The single update of
  `verify/route.ts` 59-63 makes the second of these inductive.
* `AgesAreHonest`: every entry stands for a value that was true at a known instant, and
  its age or its lifetime accounts for the time since. From the order of the lifetimes alone.
  An invalidation leaves computations that nobody may join and that store their value all the
  same: several may be under way, and each value is honest about itself.
* `ExecutableQuotesAreBounded`: in every stretch of a minute or an hour, the quotes
  issued and the requests past the check together are at most the limit and one less than the
  number of handlers. A request that passes counts only rows, so the proof needs that no
  row of the last hour has been deleted. The assumption is
  `LIMIT_WAIT + HOUR <= QUOTE_TTL + ROW_RETENTION`: a row is kept 24 hours after its 30
  seconds (`quotes/route.ts` 434-507), and no request waits 23 hours for a query.
* `RecordedPositionsAreFills`: a sender owns its row while it waits, a recorder's
  finding about a landed transaction stays true until it writes it.
* `ConfirmedActionsHappened`: what a confirmed row claims is of a kind that no later step
  undoes: a landed transaction, an added pool, a binding, a market.
* `SignedQuoteIsTheOneShown`: a request that carries the current number was made for
  the current inputs.
* `CatalogAgreesWithQuotes`: a catalog that nothing moved under has read the chain, the
  price and the accounts as they are. That a slot has at most one choice rests on the
  median strike, whose existence among finitely many markets is proved by counting.
* `HeartbeatIsHonest`: a feed's date is at most the time its publisher last ran, and a
  running lane publishes once in an interval and a pass. Two intervals and three
  passes must fit the age allowed: 10 of 15 minutes, for passes of at most 100 s.

Model-checked only: liveness (`PositionsResolve`, `PositionsResolveEventually`,
`ConfirmationsEnd`), which is beyond the prover. Every invariant and every action property
the runs check is also a theorem.

## 5. Where code and documentation disagree

Each of the first six has a run whose counterexample is a behaviour of the code.

1. `oracle_real_print`: `lib.rs` 509-512 calls tier 2 "unreachable for as long as
   any real print could still be published". The code opens it by the clock; a
   tier-1 print that nobody relayed in time can still be published next to it, and
   whichever comes first is final.
2. `oracle_one_observation`: `app/lib/coinbase-market-data.ts` 103 says the custom
   oracle retains the first validated observation of a window. A publication
   closes the account, and the authority may capture another for the next strike.
3. `pool_early_close`: `lib.rs` 1614-1618 says an early close is never more
   expensive to the pool than settlement. The fee on the premium comes on top of a
   buyback of up to the maximum payout.
4. `tables_overlapping_passes`: `keeper.ts` 61-63 says the keeper may run concurrently with
   itself and 452-455 that it never touches `addressLookupTable`. A pass writes the
   whole manifest back (521-523): read before a rotation and written after it, it publishes
   the old table again, which another pass has meanwhile deactivated. (The scheduled workflow
   lets one pass run at a time; a pass by hand is outside its group.)
5. `tables_last_settlement`: `lookup-table.ts` 147 calls expiry + grace + staleness the
   latest instant a settlement could land. The program's final deadline adds the
   observation window (`lib.rs` 3435-3447), and so does `settlement.ts` 262-301. A table may
   go for the last 30 s of the last-known-price tier. (Settling from the oracle's price and
   refunding do not need it; what is proved is that it outlives tier 1.)
6. `search_rounding_edge`: `settlement.ts` 749-753 says that the confidence test gives the
   same answer whichever scale it is made in, and 1036-1041 that what the search returns is
   never rejected for its numbers. The program rounds the price down and the confidence up
   first. At the edge of the bound the search returns a print the program refuses, and the
   next pass finds the same one. A scale that expresses the print exactly is not affected:
   the deployed 1e6 with exponents of -6 and more, not with -8.
7. With no run of its own, since `ConfirmationsEnd` states the condition: `constants.ts` 6-9
   limits how long an attempt may take, and `confirm.ts` 170-175 calls the ceiling on a
   confirmation hard, because "one hung confirmation would stall every later settlement". The
   timer of an attempt is cleared at the headers (`fetch.ts` 54), the body is read without
   one, and the ceiling is looked at between requests: a response that stops in its middle
   holds the confirmation for ever, ceiling or not.

Smaller ones, with no run: `lib.rs` 1630-1632 says the early-close fee is charged
as at settlement (there it is on the payout, here on the premium);
`vsol/SECURITY.md` 23 says a used nonce can never be recreated (settlement and
refund delete it; what prevents a second fill is the quote's expiry); the
comments of `final_settlement_deadline` and of `publish_pyth_settlement` name
`redeem_unresolved` and `refund_unsettled`, which no longer exist.

Met while modelling the scripts and the application, and stated by no run; where a
property had to make an exception for one, its comment says so.

*Runner and cranker.*

* `expiry-boundary.ts` 9-11 says that the lane never skips a boundary: a pass that
  ends after the next boundary's expiry arms the one after it
  (`oracle-runner.ts` 277, 312-316, 343); the markets in between wait for a restart, the cranker, or
  a refund. `straddled` records them.
* `settlement-sweep.ts` 131-133 and 166-167 call a position resolved by somebody else "a
  skip, not a failure"; the account is closed by then, so the call fails to load it and is
  counted (136, 170), and the pass is run again.
* `oracle-runner.ts` 60-63 says a stalled lane never starves another; the lanes start
  only when all three startup passes have ended (335-359), so a long catch-up lets the heartbeat age.
* Nothing in the repository disables a binding: only `enabled: true` is sent
  (`bootstrap.ts` 484, `keeper.ts` 840). The cleanup therefore closes no market
  unless the manager disables its bindings by hand.
* `settlement.ts` 1406-1412 says every binding written since carries the counter; a
  binding of the old layout that is written again keeps its 82 bytes and stays
  unknown for ever (`lib.rs` 2878-2890).
* The print search reports "confidence too wide" also for prints it refused for their
  date; and a newest tier-one print dated after the clock reading is refused
  although an earlier one would do.
* The cleanup's cap of 25 is applied before bindings are looked at, so 25 markets that are
  not idle can keep the others waiting.

*Keeper, tables, bootstrap.*

* Of two keeper passes that overlap (item 4), both may list a strike
  for one expiry, and the older can move a cutoff back.
* `keeper.ts` 760 and `vsol/README.md` 51: a new rung needs no idle pool. The check
  for a busy pool comes first and defers it.
* A market the guardian disabled is not seen by the next pass, which lists
  another for the same expiry.
* `create-lookup-table.ts` and the keeper write the manifest back whole: either may
  undo the other (item 4 is the case that hurts). A rotation seeds the new table with the manifest's markets only.
* The app's cutoffs differ from the keeper's for the middle rungs, so the
  keeper authorizes a rung the server listed again, earlier.
* `bootstrap.ts`: the replay check takes any error for a refusal; a fill that is
  retried after an ambiguous error throws although it landed; a run that meets
  open smoke positions throws.

*Connection and web.*

* `confirm.ts` 195-201: height and status may come from different endpoints, and a
  transaction that landed be reported expired.
* `quotes/route.ts` 144-183: the limit on signed quotes is checked long before the row
  is written, and a listing that happens in between costs its rent either way. The
  depth check uses the caller's snapshot of the pool ("can never revert on chain").
* `vsol-server.ts` 1026-1030: a disabled, unbound market is offered as one that can be
  listed on demand, since a slot is matched without looking at `enabled`.
* `vsol/send`: a fill whose confirmation timed out is recorded "failed"; it is neither sent
  again nor recorded as a position when it lands.
* `close/send`, `launch/send`, `liquidity/send`: rows are written without comparing,
  so the later of two handlers may overwrite "confirmed". A withdrawal's check takes
  an equal movement of wallet and pool by somebody else for its own.
* `vsol-launch.ts`: authorizing looks neither at an existing binding nor at open positions
  nor at `enabled`; the program does.
* `ttl-cache.ts`: an invalidated value can come back from a request under way. The
  pre-IPO volatility is kept per mint for 15 minutes.
* `TendTerminal.tsx`: a manual quote during a review leaves the review "loading"; the
  tier clamp does not renumber requests; between a wallet switch and its effect a
  response of the old wallet is taken. None of them reaches the wallet with anything but the quote
  on screen (`SignedQuoteIsTheOneShown`).
* Sign-in: a late answer about one wallet together with a late verification of another leaves the
  browser signed in as the one with a cookie for the other, until a request is refused.
* After the oracle key rotates, a symbol's feed keeps its old publisher until somebody
  writes it, and nothing does without an open position: quotes on it stay paused.

Two properties of the program a reader should know of: `close_settled_market`
checks the binding its caller supplies, so a market bound to several pools relies on
callers for the others (`MarketCleanup`); and when a share is worth less than
half a unit of the asset, a withdrawal that leaves one share behind can leave it no
assets, after which deposits fail with `PoolInsolvent`.

## 6. What is not modelled

* Byte layouts, account decoding and instruction-introspection offsets; PDA
  derivation and the SDK's encodings (`sdk/index.ts`, `chain-catalog.ts`,
  `chain-positions.ts`, `vsol-market-accounts.ts`); `target/types` is generated.
* The floating-point pricing of `options.ts`, the static catalog of `markets.ts`, and
  how third-party answers are reshaped: data with no state of its own.
* `PortfolioView`, `LaunchView`, `EarnView` and the rest of the interface: one request
  for one click; the routes behind them are modelled.
* The burst limiter (each process counts for itself), connection set-up, the
  reporting scripts, the development proxy and the smoke tests.
* The rotation of the treasury, the admin and the eligibility authority: checked assignments with
  nothing to interleave.
* A keeper without the pool, or without its manager's key (`keeper.ts` 744-757): it lists and
  skips every authorization (799), which a pass whose authorizations all fail does too.
* Creating a closed market again: its account is gone, but the lead that `create_market` asks
  for its expiry is long past, so the guard "absent" excludes nothing.
* In `pool_resolution` no buyback is offered; that an early close pays the fee of the fill is
  `FeeFixedAtFillHolds`, for every buyback.
* Out of the prover's reach and left to TLC: liveness under fairness, and modules that
  reach a recursive operator.

## 7. What comes next

1. **Program composition**: `SettlementOracle` and `LiquidityPool` in one state, two
   strikes of a series, so that a capture consumed by one strike and the fate of the
   other's positions are seen together. The pool's results carry over by
   `RefinementHolds`.
2. **Larger instances** of the keeper (three passes) and of the runner (three
   boundaries), if a run's time allows.
