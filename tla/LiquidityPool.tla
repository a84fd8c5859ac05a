---------------------------- MODULE LiquidityPool ---------------------------
(***************************************************************************)
(* One liquidity pool, the markets it is bound to, and the positions it    *)
(* writes.  Providers buy shares; buyers fill quotes the pool's authority  *)
(* signed; the pool escrows the maximum payout of every position next to   *)
(* its premium in a vault of the position's own.  A position leaves in one *)
(* of three ways: an early close at a signed buyback price before expiry,  *)
(* a settlement at the oracle's price, or a refund when no price came in   *)
(* time.  Settlement and refund may be sent by anyone.                     *)
(*                                                                         *)
(* Each action is one instruction: the Solana runtime runs an instruction  *)
(* to its end or not at all.  The settlement side of the program is its    *)
(* abstract specification, MarketOutcome; the risk configuration is        *)
(* PoolRiskLimits.  Rent, events and the cumulative statistics are left    *)
(* out, and only the program moves tokens out of or into a position vault. *)
(***************************************************************************)
EXTENDS MarketTerms, FiniteSets, Functions

CONSTANTS
  Providers, Buyers, Treasury,       \* owners of token accounts; Treasury may be a buyer
  Supply,                            \* Supply[w]: what each owner starts with
  Prices,                            \* settlement prices the environment may publish
  QuoteAuthorities, NoQuoteAuthority,\* keys that may sign quotes
  Quotes,                            \* quotes an authority may sign
  Buybacks,                          \* amounts an authority may sign a buyback for
  DepositAmounts,                    \* amounts a provider may deposit
  LimitChoices,                      \* risk configurations of the pool
  FeeChoices,                        \* protocol fees the admin may set
  Cutoffs,                           \* last_trade_at values the manager may set
  Switches,                          \* positions the pause and enable switches may be put in
  EligibilityChoices,                \* may the admin require eligibility?
  EligibleUntil,                     \* expiries of an eligibility
  POOL_UPDATE_TIMELOCK,
  MaxVersions,                       \* bound on update_config calls, for TLC
  MaxDonations,                      \* bound on donated tokens, for TLC
  MaxTime                            \* bound on the clock, for TLC

Wallets == Providers \cup Buyers \cup {Treasury}

QuoteRecord ==
  [authority : QuoteAuthorities, nonce : Nat, market : Markets, buyer : Buyers,
   direction : Direction, strike : U64, width : U64, premium : U64,
   maxPayout : U64, quoteExpiry : Nat, domainVersion : Nat]

ASSUME SupplyAssumption == Supply \in [Wallets -> Nat] /\ IsFiniteSet(Wallets)
ASSUME QuotesAssumption == Quotes \subseteq QuoteRecord /\ IsFiniteSet(Quotes)
ASSUME AmountsAssumption == Buybacks \subseteq U64 /\ DepositAmounts \subseteq U64
ASSUME FeeAssumption == FeeChoices \subseteq Nat
ASSUME CutoffsAssumption == Cutoffs \subseteq Nat /\ EligibleUntil \subseteq Nat
ASSUME SwitchesAssumption == Switches \subseteq BOOLEAN /\ EligibilityChoices \subseteq BOOLEAN
ASSUME PricesAssumption == Prices \subseteq Nat
ASSUME PoolBoundsAssumption ==
  MaxVersions \in Nat /\ MaxDonations \in Nat /\ MaxTime \in Nat

VARIABLES
  now, outcome,                      \* the chain, see MarketOutcome
  config,                            \* paused, feeBps, eligibilityRequired, domainVersion
  eligibility,                       \* eligibility[b]: can_trade and expires_at of a buyer
  marketEnabled,                     \* market.enabled
  limits, pending, announced, mandate, \* the risk configuration, see PoolRiskLimits
  pool,                              \* the LiquidityPool ledger
  poolMarket,                        \* poolMarket[m]: the LiquidityPoolMarket binding
  shares,                            \* shares[p]: LiquidityProvider.shares
  position,                          \* position[k]: the PoolPosition of a nonce
  nonceRecord,                       \* nonceRecord[k]: does the PoolQuoteNonce exist?
  vault,                             \* vault[k]: tokens in the position's vault
  poolToken,                         \* tokens in the pool's account
  wallet,                            \* wallet[w]: tokens of everyone else
  fills,                             \* history: how often a signed quote was filled
  donated                            \* history: tokens sent to poolToken unasked

chainVars == <<now, outcome>>
configVars == <<config, eligibility, marketEnabled>>
limitVars == <<limits, pending, announced, mandate>>
positionVars == <<position, nonceRecord, vault, fills>>
tokenVars == <<poolToken, wallet, donated>>

vars == <<chainVars, configVars, limitVars, pool, poolMarket, shares, positionVars, tokenVars>>

Idle == pool.openPositions = 0 /\ pool.lockedCollateral = 0

Chain == INSTANCE MarketOutcome
Risk == INSTANCE PoolRiskLimits WITH idle <- Idle

ASSUME RiskAssumption ==
  /\ NoQuoteAuthority \notin QuoteAuthorities
  /\ LimitChoices \subseteq Risk!LimitsRecord
  /\ POOL_UPDATE_TIMELOCK \in Nat \ {0}

(* The seeds of the nonce account, hence of the position and its vault.    *)
Key(q) == <<q.authority, q.nonce>>
Keys == {Key(q) : q \in Quotes}

NoPosition == [open |-> FALSE]
NoBinding == [exists |-> FALSE, enabled |-> FALSE, lastTradeAt |-> 0, openPositions |-> 0]

ConfigRecord ==
  [paused : BOOLEAN, feeBps : 0 .. MAX_FEE_BPS, eligibilityRequired : BOOLEAN,
   domainVersion : Nat \ {0}]

BindingRecord ==
  [exists : BOOLEAN, enabled : BOOLEAN, lastTradeAt : Nat, openPositions : Nat]

PositionRecord == [open : {TRUE}, quote : Quotes, feeBps : 0 .. MAX_FEE_BPS]

IsOpen(k) == position[k].open
MarketOf(k) == position[k].quote.market

(* What the vault of a position holds.                                     *)
Escrow(q) == q.premium + q.maxPayout

-----------------------------------------------------------------------------
(* The state initialize_config and initialize_liquidity_pool leave.        *)
Init ==
  /\ Chain!OutcomeInit
  /\ config \in [paused : {FALSE}, feeBps : {f \in FeeChoices : f <= MAX_FEE_BPS},
                 eligibilityRequired : EligibilityChoices, domainVersion : {1}]
  /\ eligibility = [b \in Buyers |-> [canTrade |-> FALSE, expiresAt |-> 0]]
  /\ marketEnabled = [m \in Markets |-> FALSE]
  /\ pool = [totalShares |-> 0, totalAssets |-> 0, lockedCollateral |-> 0, openPositions |-> 0]
  /\ Risk!Init
  /\ poolMarket = [m \in Markets |-> NoBinding]
  /\ shares = [p \in Providers |-> 0]
  /\ position = [k \in Keys |-> NoPosition]
  /\ nonceRecord = [k \in Keys |-> FALSE]
  /\ vault = [k \in Keys |-> 0]
  /\ poolToken = 0
  /\ wallet = Supply
  /\ fills = [q \in Quotes |-> 0]
  /\ donated = 0

-----------------------------------------------------------------------------
(* Administration.                                                         *)

FeeAllowed_Any(fee) == fee \in Nat                          \* mutant: no ceiling

FeeAllowed(fee) == fee <= MAX_FEE_BPS

(* update_config: every update starts a new domain version, so a quote     *)
(* signed before it no longer verifies.                                    *)
UpdateConfig(fee, eligible) ==
  /\ config.domainVersion <= MaxVersions
  /\ FeeAllowed(fee)
  /\ config' = [config EXCEPT !.feeBps = fee, !.eligibilityRequired = eligible,
                              !.domainVersion = @ + 1]
  /\ UNCHANGED <<chainVars, eligibility, marketEnabled, limitVars, pool, poolMarket,
                 shares, positionVars, tokenVars>>

SetPause(b) ==
  /\ b # config.paused
  /\ config' = [config EXCEPT !.paused = b]
  /\ UNCHANGED <<chainVars, eligibility, marketEnabled, limitVars, pool, poolMarket,
                 shares, positionVars, tokenVars>>

SetEligibility(b, canTrade, expiresAt) ==
  /\ expiresAt > now \/ ~canTrade
  /\ eligibility' = [eligibility EXCEPT ![b] = [canTrade |-> canTrade, expiresAt |-> expiresAt]]
  /\ UNCHANGED <<chainVars, config, marketEnabled, limitVars, pool, poolMarket,
                 shares, positionVars, tokenVars>>

CreateMarket(m) ==
  /\ ~config.paused
  /\ Chain!Open(m)
  /\ marketEnabled' = [marketEnabled EXCEPT ![m] = TRUE]
  /\ UNCHANGED <<config, eligibility, limitVars, pool, poolMarket, shares, positionVars,
                 tokenVars>>

SetMarketEnabled(m, b) ==
  /\ Chain!Exists(m)
  /\ b # marketEnabled[m]
  /\ marketEnabled' = [marketEnabled EXCEPT ![m] = b]
  /\ UNCHANGED <<chainVars, config, eligibility, limitVars, pool, poolMarket, shares,
                 positionVars, tokenVars>>

(* External to the pool: a publisher finalizes the market's oracle.        *)
FinalizeOracle(m, p) ==
  /\ Chain!Finalize(m, p)
  /\ UNCHANGED <<configVars, limitVars, pool, poolMarket, shares, positionVars, tokenVars>>

Tick ==
  /\ Chain!Tick
  /\ UNCHANGED <<configVars, limitVars, pool, poolMarket, shares, positionVars, tokenVars>>

-----------------------------------------------------------------------------
(* The manager.                                                            *)

ConfigureRisk ==
  /\ UNCHANGED <<outcome, configVars, pool, poolMarket, shares, positionVars, tokenVars>>
  /\ \/ \E l \in LimitChoices : Risk!UpdateLiquidityPool(l)
     \/ Risk!ApplyLiquidityPoolUpdate
     \/ Risk!CancelPendingPoolUpdate

(* The first authorization of a series needs no idle pool; any later       *)
(* change does, and keeps the counter of the existing record.              *)
SetLiquidityPoolMarket(m, cutoff, enable) ==
  /\ Chain!Exists(m)
  /\ (enable /\ ~poolMarket[m].exists) \/ Idle
  /\ enable => /\ marketEnabled[m]
               /\ now + MIN_MARKET_LEAD <= cutoff
               /\ cutoff < Expiry(m)
  /\ poolMarket' = [poolMarket EXCEPT ![m] =
       [exists |-> TRUE, enabled |-> enable, lastTradeAt |-> cutoff,
        openPositions |-> @.openPositions]]
  /\ UNCHANGED <<chainVars, configVars, limitVars, pool, shares, positionVars, tokenVars>>

BindingDone_Unchecked(m) == poolMarket[m].exists            \* mutant: trusts the caller

BindingDone(m) ==
  /\ poolMarket[m].exists
  /\ ~poolMarket[m].enabled
  /\ poolMarket[m].openPositions = 0

(* Closes the market, its oracle and the binding the caller supplies.      *)
CloseSettledMarket(m) ==
  /\ Chain!Close(m)
  /\ BindingDone(m)
  /\ poolMarket' = [poolMarket EXCEPT ![m] = NoBinding]
  /\ UNCHANGED <<configVars, limitVars, pool, shares, positionVars, tokenVars>>

-----------------------------------------------------------------------------
(* The providers.  Their minimum output and deadline only let them refuse  *)
(* a result; they are left out.                                            *)

SharesFor_OfBalance(amount) ==                 \* mutant: prices against the token balance
  DepositShares(amount, pool.totalShares, poolToken)

SharesFor(amount) == DepositShares(amount, pool.totalShares, pool.totalAssets)

DepositLiquidity(p, amount) ==
  /\ ~config.paused
  /\ Idle
  /\ DepositSharesOk(amount, pool.totalShares, pool.totalAssets)
  /\ wallet[p] >= amount
  /\ shares[p] + SharesFor(amount) <= MaxU64
  /\ pool.totalShares + SharesFor(amount) <= MaxU64
  /\ pool.totalAssets + amount <= MaxU64
  /\ shares' = [shares EXCEPT ![p] = @ + SharesFor(amount)]
  /\ pool' = [pool EXCEPT !.totalShares = @ + SharesFor(amount), !.totalAssets = @ + amount]
  /\ poolToken' = poolToken + amount
  /\ wallet' = [wallet EXCEPT ![p] = @ - amount]
  /\ UNCHANGED <<chainVars, configVars, limitVars, poolMarket, positionVars, donated>>

AmountFor(s) == WithdrawAmount(s, pool.totalShares, pool.totalAssets)

WithdrawLiquidity(p, s) ==
  /\ Idle
  /\ shares[p] >= s
  /\ WithdrawAmountOk(s, pool.totalShares, pool.totalAssets)
  /\ pool.totalAssets >= AmountFor(s)
  /\ poolToken >= AmountFor(s)
  /\ shares' = [shares EXCEPT ![p] = @ - s]
  /\ pool' = [pool EXCEPT !.totalShares = @ - s, !.totalAssets = @ - AmountFor(s)]
  /\ poolToken' = poolToken - AmountFor(s)
  /\ wallet' = [wallet EXCEPT ![p] = @ + AmountFor(s)]
  /\ UNCHANGED <<chainVars, configVars, limitVars, poolMarket, positionVars, donated>>

(* External: someone sends a token to the pool's account, unasked.         *)
Donate(w) ==
  /\ donated < MaxDonations
  /\ wallet[w] > 0
  /\ donated' = donated + 1
  /\ poolToken' = poolToken + 1
  /\ wallet' = [wallet EXCEPT ![w] = @ - 1]
  /\ UNCHANGED <<chainVars, configVars, limitVars, pool, poolMarket, shares, positionVars>>

-----------------------------------------------------------------------------
(* fill_pool_quote.                                                        *)

Eligible(b) ==
  config.eligibilityRequired => eligibility[b].canTrade /\ eligibility[b].expiresAt >= now

QuoteTimely(q) ==
  /\ now < Expiry(q.market)
  /\ now < poolMarket[q.market].lastTradeAt
  /\ now <= q.quoteExpiry
  /\ q.quoteExpiry <= poolMarket[q.market].lastTradeAt
  /\ q.quoteExpiry < Expiry(q.market)

QuoteWellFormed(q) ==
  q.premium > 0 /\ q.maxPayout > 0 /\ q.strike > 0 /\ q.width > 0

(* The authority's signature covers the domain version.                    *)
QuoteSigned(q) ==
  /\ q.authority = limits.quoteAuthority
  /\ q.domainVersion = config.domainVersion

WithinLimits_ThisPositionOnly(amount) ==       \* mutant: forgets what is locked already
  LET total == pool.totalAssets + pool.lockedCollateral IN
  /\ amount <= CalculateBpsLimit(total, limits.maxUtilizationBps)
  /\ amount <= CalculateBpsLimit(total, limits.maxPositionBps)
  /\ amount <= pool.totalAssets

WithinLimits(amount) ==
  LET total == pool.totalAssets + pool.lockedCollateral IN
  /\ total <= MaxU64
  /\ pool.lockedCollateral + amount <= CalculateBpsLimit(total, limits.maxUtilizationBps)
  /\ amount <= CalculateBpsLimit(total, limits.maxPositionBps)
  /\ amount <= pool.totalAssets

FillPoolQuote(q) ==
  LET k == Key(q) IN
  /\ ~config.paused
  /\ Chain!Exists(q.market)
  /\ marketEnabled[q.market]
  /\ poolMarket[q.market].exists
  /\ poolMarket[q.market].enabled
  /\ QuoteTimely(q)
  /\ QuoteWellFormed(q)
  /\ pool.totalShares > 0
  /\ Eligible(q.buyer)
  /\ QuoteSigned(q)
  /\ WithinLimits(q.maxPayout)
  /\ ~nonceRecord[k]
  /\ ~IsOpen(k)
  /\ wallet[q.buyer] >= q.premium
  /\ poolToken >= q.maxPayout
  /\ Escrow(q) <= MaxU64
  /\ position' = [position EXCEPT ![k] =
       [open |-> TRUE, quote |-> q, feeBps |-> config.feeBps]]
  /\ nonceRecord' = [nonceRecord EXCEPT ![k] = TRUE]
  /\ vault' = [vault EXCEPT ![k] = Escrow(q)]
  /\ fills' = [fills EXCEPT ![q] = @ + 1]
  /\ pool' = [pool EXCEPT !.lockedCollateral = @ + q.maxPayout,
                          !.openPositions = @ + 1,
                          !.totalAssets = @ - q.maxPayout]
  /\ poolMarket' = [poolMarket EXCEPT ![q.market].openPositions = @ + 1]
  /\ wallet' = [wallet EXCEPT ![q.buyer] = @ - q.premium]
  /\ poolToken' = poolToken - q.maxPayout
  /\ UNCHANGED <<chainVars, configVars, limitVars, shares, donated>>

-----------------------------------------------------------------------------
(* The three exits of a position.                                          *)

LedgerAfterExit_CollateralOnly(q, toPool) ==   \* mutant: books the collateral, not the proceeds
  [pool EXCEPT !.lockedCollateral = @ - q.maxPayout,
               !.openPositions = @ - 1,
               !.totalAssets = @ + q.maxPayout]

LedgerAfterExit_StaysLocked(q, toPool) ==      \* mutant: unlocks the proceeds, not the collateral
  [pool EXCEPT !.lockedCollateral = SaturatingSub(@, toPool),
               !.openPositions = @ - 1,
               !.totalAssets = @ + toPool]

LedgerAfterExit(q, toPool) ==
  [pool EXCEPT !.lockedCollateral = @ - q.maxPayout,
               !.openPositions = @ - 1,
               !.totalAssets = @ + toPool]

Credited_OneByOne(b, toBuyer, toTreasury) ==   \* mutant: two writes of one account
  [wallet EXCEPT ![b] = @ + toBuyer, ![Treasury] = wallet[Treasury] + toTreasury]

(* The buyer may be the treasury: then one transfer carries both amounts.  *)
Credited(b, toBuyer, toTreasury) ==
  [w \in Wallets |-> wallet[w] + (IF w = b THEN toBuyer ELSE 0)
                               + (IF w = Treasury THEN toTreasury ELSE 0)]

(* Every exit pays out the whole vault and closes position and vault; the  *)
(* subtractions are checked.                                               *)
PayOut(k, toBuyer, toTreasury, toPool) ==
  LET q == position[k].quote IN
  /\ poolMarket[q.market].exists
  /\ vault[k] = Escrow(q)
  /\ toBuyer + toTreasury + toPool = Escrow(q)
  /\ pool.lockedCollateral >= q.maxPayout
  /\ pool.openPositions >= 1
  /\ poolMarket[q.market].openPositions >= 1
  /\ pool.totalAssets + toPool <= MaxU64
  /\ pool' = LedgerAfterExit(q, toPool)
  /\ poolMarket' = [poolMarket EXCEPT ![q.market].openPositions = @ - 1]
  /\ wallet' = Credited(q.buyer, toBuyer, toTreasury)
  /\ poolToken' = poolToken + toPool
  /\ vault' = [vault EXCEPT ![k] = 0]
  /\ position' = [position EXCEPT ![k] = NoPosition]
  /\ UNCHANGED <<chainVars, configVars, limitVars, shares, fills, donated>>

FeeRate_OfConfig(k) == config.feeBps           \* mutant: the fee of the day

(* The fee snapshotted when the position was filled.                       *)
FeeRate(k) == position[k].feeBps

SettleTimely(k) ==
  /\ Chain!Finalized(MarketOf(k))
  /\ now >= Expiry(MarketOf(k))

PayoutOf(k) ==
  LET q == position[k].quote IN
  CalculatePayout(q.direction, q.strike, q.width, outcome[q.market].price, q.maxPayout)

(* The fee comes out of a winner's payout.  The nonce is closed: the quote *)
(* that opened the position has expired with its market.                   *)
SettlePoolPosition(k) ==
  LET q == position[k].quote
      payout == PayoutOf(k)
      fee == CalculateFee(payout, FeeRate(k)) IN
  /\ IsOpen(k)
  /\ SettleTimely(k)
  /\ PayoutOk(q.width, q.maxPayout)
  /\ PayOut(k, payout - fee, fee, q.maxPayout - payout + q.premium)
  /\ nonceRecord' = [nonceRecord EXCEPT ![k] = FALSE]

RefundTimely_UnlessPaused(k) ==                \* mutant: refunds stop during a pause
  /\ ~config.paused
  /\ Chain!Exists(MarketOf(k))
  /\ ~Chain!Finalized(MarketOf(k))
  /\ now > SettlementDeadline(MarketOf(k))

RefundTimely(k) ==
  /\ Chain!Exists(MarketOf(k))
  /\ ~Chain!Finalized(MarketOf(k))
  /\ now > SettlementDeadline(MarketOf(k))

RefundPoolPosition(k) ==
  /\ IsOpen(k)
  /\ RefundTimely(k)
  /\ PayOut(k, position[k].quote.premium, 0, position[k].quote.maxPayout)
  /\ nonceRecord' = [nonceRecord EXCEPT ![k] = FALSE]

EarlyTimely(k) ==
  /\ Chain!Exists(MarketOf(k))
  /\ ~Chain!Finalized(MarketOf(k))
  /\ now < Expiry(MarketOf(k))

NonceAfterEarlyClose_Freed(k) == [nonceRecord EXCEPT ![k] = FALSE]   \* mutant

(* The quote may still be fillable: the nonce stays.                       *)
NonceAfterEarlyClose(k) == nonceRecord

(* The buyer accepts a buyback the pool's current authority signed; the    *)
(* fee comes out of the premium.                                           *)
ClosePoolPosition(k, buyback) ==
  LET q == position[k].quote
      fee == CalculateFee(q.premium, FeeRate(k)) IN
  /\ IsOpen(k)
  /\ EarlyTimely(k)
  /\ buyback <= q.maxPayout
  /\ buyback + fee <= Escrow(q)
  /\ PayOut(k, buyback, fee, Escrow(q) - buyback - fee)
  /\ nonceRecord' = NonceAfterEarlyClose(k)

-----------------------------------------------------------------------------
Next ==
  \/ \E f \in FeeChoices, e \in EligibilityChoices : UpdateConfig(f, e)
  \/ \E b \in Switches : SetPause(b)
  \/ \E b \in Buyers, e \in BOOLEAN, t \in EligibleUntil : SetEligibility(b, e, t)
  \/ \E m \in Markets : CreateMarket(m) \/ CloseSettledMarket(m)
  \/ \E m \in Markets, b \in Switches : SetMarketEnabled(m, b)
  \/ \E m \in Markets, p \in Prices : FinalizeOracle(m, p)
  \/ \E m \in Markets, c \in Cutoffs, e \in BOOLEAN : SetLiquidityPoolMarket(m, c, e)
  \/ ConfigureRisk
  \/ \E p \in Providers, a \in DepositAmounts : DepositLiquidity(p, a)
  \/ \E p \in Providers : \E s \in 1 .. shares[p] : WithdrawLiquidity(p, s)
  \/ \E w \in Wallets : Donate(w)
  \/ \E q \in Quotes : FillPoolQuote(q)
  \/ \E k \in Keys : SettlePoolPosition(k) \/ RefundPoolPosition(k)
  \/ \E k \in Keys, b \in Buybacks : ClosePoolPosition(k, b)
  \/ Tick

Spec == Init /\ [][Next]_vars

(* Time passes, and somebody sends the two instructions anyone may send:   *)
(* the cranker tries every open position on every pass.                    *)
Fairness ==
  /\ WF_vars(Tick)
  /\ \A k \in Keys : WF_vars(SettlePoolPosition(k)) /\ WF_vars(RefundPoolPosition(k))

FairSpec == Spec /\ Fairness

-----------------------------------------------------------------------------
PoolTypeOK ==
  pool \in [totalShares : U64, totalAssets : U64, lockedCollateral : U64, openPositions : Nat]

AccountsTyped ==
  /\ Chain!OutcomeTypeOK
  /\ config \in ConfigRecord
  /\ eligibility \in [Buyers -> [canTrade : BOOLEAN, expiresAt : Nat]]
  /\ marketEnabled \in [Markets -> BOOLEAN]
  /\ PoolTypeOK
  /\ poolMarket \in [Markets -> BindingRecord]
  /\ shares \in [Providers -> U64]
  /\ position \in [Keys -> PositionRecord \cup {NoPosition}]
  /\ nonceRecord \in [Keys -> BOOLEAN]
  /\ vault \in [Keys -> U64]
  /\ poolToken \in Nat
  /\ wallet \in [Wallets -> Nat]
  /\ fills \in [Quotes -> Nat]
  /\ donated \in Nat

(* Type invariant: the ledger stays within u64, every account keeps the    *)
(* shape its creating instruction gives it, and the limits stay valid.     *)
TypeOK == AccountsTyped /\ Risk!TypeOK

OpenKeys == {k \in Keys : IsOpen(k)}
OpenIn(m) == {k \in OpenKeys : MarketOf(k) = m}

(* The three counters of open obligations agree with the positions that    *)
(* exist: locked_collateral, open_positions, and the binding's own         *)
(* open_positions, whichever of the three exits each position takes.       *)
CountersMatchPositions ==
  /\ pool.lockedCollateral = SumFunction([k \in OpenKeys |-> position[k].quote.maxPayout])
  /\ pool.openPositions = Cardinality(OpenKeys)
  /\ \A m \in Markets : poolMarket[m].openPositions = Cardinality(OpenIn(m))

(* LiquidityPool.total_assets: "pool_token.amount == total_assets +        *)
(* (cumulative donations)", and every vault holds exactly what its         *)
(* position escrowed, or is gone.                                          *)
LedgerIsBacked ==
  /\ poolToken = pool.totalAssets + donated
  /\ \A k \in Keys : vault[k] = IF IsOpen(k) THEN Escrow(position[k].quote) ELSE 0

(* No instruction mints, burns or strands a token, even when the buyer of  *)
(* a position is the treasury that collects its fee; and the provider      *)
(* records add up to the pool's shares.                                    *)
TokensAndSharesAddUp ==
  /\ poolToken + SumFunction(vault) + SumFunction(wallet) = SumFunction(Supply)
  /\ pool.totalShares = SumFunction(shares)

(* The utilization cap fill_pool_quote checks at one instant holds at every *)
(* later one: through payouts, early closes and fees that shrink the pool   *)
(* under positions still open, and through every change of the caps.        *)
UtilizationBounded ==
  pool.lockedCollateral * BPS_DENOMINATOR
    <= (pool.totalAssets + pool.lockedCollateral) * limits.maxUtilizationBps

(* A signed quote is filled at most once, although settlement and refund   *)
(* close the nonce account that recorded the fill, and an early close      *)
(* leaves a quote behind that has not expired.                             *)
QuoteFilledOnce == \A q \in Quotes : fills[q] <= 1

(* close_settled_market never strands an escrow: a position can only be    *)
(* settled or refunded while its market exists.                            *)
OpenPositionsHaveMarkets ==
  \A k \in OpenKeys : Chain!Exists(MarketOf(k)) /\ poolMarket[MarketOf(k)].exists

-----------------------------------------------------------------------------
(* What the pool is worth, locked collateral included.                     *)
Worth == pool.totalAssets + pool.lockedCollateral

(* Nothing but the exit of a position lowers the worth of a share: not a   *)
(* deposit, a withdrawal, a fill, nor their roundings.                     *)
SharesKeepTheirWorth ==
  [][pool'.openPositions >= pool.openPositions
       => (Worth + 1) * (pool'.totalShares + 1) <= (Worth' + 1) * (pool.totalShares + 1)]_vars

(* A depositor could take out at once what they put in, up to the price of *)
(* one share: donations to the pool's account do not move the price.       *)
DepositsKeepTheirValue ==
  [][\A p \in Providers : shares'[p] > shares[p] =>
       wallet[p] - wallet'[p]
         <= WithdrawAmount(shares'[p] - shares[p], pool'.totalShares, pool'.totalAssets)
              + CeilDiv(pool.totalAssets + 1, pool'.totalShares + 1)]_vars

(* Trading losses alone never leave shares without assets behind them, the *)
(* state that math.rs calls genuine insolvency: the utilization cap, the   *)
(* payout cap and the buyback cap see to it together.                      *)
TradingNeverWipesOut ==
  [][Worth > 0 /\ pool'.totalShares >= pool.totalShares => Worth' > 0]_vars

(* "governance cannot change that position's fee before settlement": what  *)
(* the treasury takes from an exit follows the rate in force at the fill,  *)
(* config updates in between notwithstanding.                              *)
FeeFixedAtFill ==
  [][\A k \in Keys : IsOpen(k) /\ ~(IsOpen(k))' /\ position[k].quote.buyer # Treasury
       => wallet'[Treasury] - wallet[Treasury] \in
            {0, CalculateFee(position[k].quote.premium, position[k].feeBps),
             CalculateFee(PayoutOf(k), position[k].feeBps)}]_vars

(* Every position is resolved, whatever becomes of the oracle, and pauses  *)
(* and disabled markets notwithstanding.                                   *)
PositionsResolve == \A k \in Keys : IsOpen(k) ~> ~IsOpen(k)

-----------------------------------------------------------------------------
(* The comment in close_pool_position: "early close can never be more      *)
(* expensive to the pool than letting the position run to settlement",     *)
(* where the worst settlement leaves the pool the whole premium.           *)
EarlyCloseNeverDearer ==
  [][\A k \in Keys, b \in Buybacks : ClosePoolPosition(k, b) =>
       poolToken' - poolToken >= position[k].quote.premium]_vars

=============================================================================
