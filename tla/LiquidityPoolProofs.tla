------------------------ MODULE LiquidityPoolProofs -------------------------
(***************************************************************************)
(* The liquidity pool, for any quotes, prices, fees and limits.            *)
(***************************************************************************)
EXTENDS LiquidityPool, VsolMathProofs, FiniteSetTheorems

USE TermsAssumption, SupplyAssumption, QuotesAssumption, AmountsAssumption, FeeAssumption,
    CutoffsAssumption, SwitchesAssumption, PricesAssumption, PoolBoundsAssumption,
    MaxU64Assumption

-----------------------------------------------------------------------------
(* The instants of a market are ordered naturals.                          *)
LEMMA Instants ==
  ASSUME NEW m \in Markets
  PROVE  /\ Expiry(m) \in Nat
         /\ SettlementDeadline(m) \in Nat
         /\ Expiry(m) < SettlementDeadline(m)
<1>1. Terms[m] \in TermsRecord OBVIOUS
<1>2. Terms[m].expiry \in Nat /\ Terms[m].window \in Nat \ {0} /\ Terms[m].grace \in Nat
  BY <1>1 DEF TermsRecord
<1>. QED BY <1>2 DEF Expiry, ObservationEnd, SettlementDeadline

(* A quote names a market and a buyer of the instance.                     *)
LEMMA QuoteTyped ==
  ASSUME NEW q \in Quotes
  PROVE  /\ q \in QuoteRecord
         /\ Key(q) \in Keys
         /\ q.market \in Markets /\ q.buyer \in Buyers /\ q.direction \in Direction
         /\ q.strike \in Nat /\ q.width \in Nat /\ q.premium \in Nat /\ q.maxPayout \in Nat
<1>1. q \in QuoteRecord OBVIOUS
<1>2. Key(q) \in Keys BY DEF Keys
<1>. QED BY <1>1, <1>2 DEF QuoteRecord, U64

(* Only the counter of a binding changes when a position opens or closes.  *)
LEMMA CountBinding ==
  ASSUME NEW r \in BindingRecord, NEW n \in Nat
  PROVE  [r EXCEPT !.openPositions = n] \in BindingRecord
BY DEF BindingRecord

(* An open position carries a quote and a fee rate.                        *)
LEMMA OpenPosition ==
  ASSUME AccountsTyped, NEW k \in Keys, IsOpen(k)
  PROVE  /\ position[k].quote \in Quotes
         /\ position[k].feeBps \in 0 .. MAX_FEE_BPS
         /\ position[k].feeBps \in 0 .. BPS_DENOMINATOR
         /\ MarketOf(k) \in Markets
<1>1. position[k] \in PositionRecord \cup {NoPosition} BY DEF AccountsTyped
<1>2. position[k] # NoPosition BY DEF IsOpen, NoPosition
<1>3. position[k] \in PositionRecord BY <1>1, <1>2
<1>4. position[k].quote \in Quotes /\ position[k].feeBps \in 0 .. MAX_FEE_BPS
  BY <1>3 DEF PositionRecord
<1>5. \A f \in 0 .. MAX_FEE_BPS : f \in 0 .. BPS_DENOMINATOR
  BY SMT DEF MAX_FEE_BPS, BPS_DENOMINATOR
<1>. QED BY <1>4, <1>5, QuoteTyped DEF MarketOf

-----------------------------------------------------------------------------
(* What an exit does, whichever of the three it is: it pays out of the     *)
(* vault to the buyer, the treasury and the pool.                          *)
Exit(k, toBuyer, toTreasury, toPool) ==
  /\ IsOpen(k)
  /\ PayOut(k, toBuyer, toTreasury, toPool)
  /\ nonceRecord' \in {nonceRecord, [nonceRecord EXCEPT ![k] = FALSE]}

(* Settlement: the payout fits the collateral, so nothing goes negative.   *)
LEMMA SettleExits ==
  ASSUME AccountsTyped, NEW k \in Keys, SettlePoolPosition(k)
  PROVE  \E toBuyer, toTreasury, toPool \in Nat :
           /\ Exit(k, toBuyer, toTreasury, toPool)
           /\ toTreasury = CalculateFee(PayoutOf(k), position[k].feeBps)
<1> DEFINE q == position[k].quote
           payout == PayoutOf(k)
           fee == CalculateFee(payout, FeeRate(k))
<1>1. /\ IsOpen(k) /\ SettleTimely(k) /\ PayoutOk(q.width, q.maxPayout)
      /\ PayOut(k, payout - fee, fee, q.maxPayout - payout + q.premium)
      /\ nonceRecord' = [nonceRecord EXCEPT ![k] = FALSE]
  BY DEF SettlePoolPosition
<1>2. q \in Quotes /\ position[k].feeBps \in 0 .. MAX_FEE_BPS
  BY <1>1, OpenPosition
<1>3. q.width \in Nat \ {0}
  BY <1>1, <1>2, QuoteTyped DEF PayoutOk
<1>4. outcome[q.market].price \in Nat
  <2>1. outcome[q.market] \in Chain!Outcomes
    BY <1>2, QuoteTyped DEF AccountsTyped, Chain!OutcomeTypeOK
  <2>2. \A o \in Chain!Outcomes : o.price \in Nat
    BY DEF Chain!Outcomes, Chain!Absent, Chain!Pending, Chain!Closed, Chain!Final
  <2>. QED BY <2>1, <2>2
<1>5. payout \in 0 .. q.maxPayout
  BY <1>2, <1>3, <1>4, QuoteTyped, PayoutWithinCollateral DEF PayoutOf
<1>6. /\ payout - fee \in Nat
      /\ fee \in Nat
      /\ q.maxPayout - payout + q.premium \in Nat
  <2>1. payout \in Nat /\ payout <= q.maxPayout /\ q.premium \in Nat /\ q.maxPayout \in Nat
    BY <1>2, <1>5, QuoteTyped
  <2>. HIDE DEF q, payout
  <2>. QED BY <1>2, <2>1, SettlementSplitsEscrow DEF FeeRate
<1>. QED BY <1>1, <1>6 DEF Exit, FeeRate

(* Refund: the premium goes back to the buyer, the collateral to the       *)
(* pool.                                                                   *)
LEMMA RefundExits ==
  ASSUME AccountsTyped, NEW k \in Keys, RefundPoolPosition(k)
  PROVE  \E toBuyer, toTreasury, toPool \in Nat :
           /\ Exit(k, toBuyer, toTreasury, toPool)
           /\ toTreasury = 0
<1>1. /\ IsOpen(k)
      /\ PayOut(k, position[k].quote.premium, 0, position[k].quote.maxPayout)
      /\ nonceRecord' = [nonceRecord EXCEPT ![k] = FALSE]
  BY DEF RefundPoolPosition
<1>2. position[k].quote.premium \in Nat /\ position[k].quote.maxPayout \in Nat
  BY <1>1, OpenPosition, QuoteTyped
<1>. QED BY <1>1, <1>2 DEF Exit

(* Early close: what is left of the escrow goes to the pool.               *)
LEMMA CloseExits ==
  ASSUME AccountsTyped, NEW k \in Keys, NEW buyback \in Buybacks, ClosePoolPosition(k, buyback)
  PROVE  \E toBuyer, toTreasury, toPool \in Nat :
           /\ Exit(k, toBuyer, toTreasury, toPool)
           /\ toTreasury = CalculateFee(position[k].quote.premium, position[k].feeBps)
<1> DEFINE q == position[k].quote
           fee == CalculateFee(q.premium, FeeRate(k))
<1>1. /\ IsOpen(k)
      /\ buyback + fee <= Escrow(q)
      /\ PayOut(k, buyback, fee, Escrow(q) - buyback - fee)
      /\ nonceRecord' = nonceRecord
  BY DEF ClosePoolPosition, NonceAfterEarlyClose
<1>2. q \in Quotes /\ position[k].feeBps \in 0 .. BPS_DENOMINATOR
  BY <1>1, OpenPosition
<1>3. q.premium \in Nat /\ Escrow(q) \in Nat
  BY <1>2, QuoteTyped DEF Escrow
<1>4. fee \in Nat
  <2>. HIDE DEF q
  <2>. QED BY <1>2, <1>3, FeeWithinAmount DEF FeeRate
<1>5. buyback \in Nat BY DEF U64
<1>6. Escrow(q) - buyback - fee \in Nat
  <2>. HIDE DEF q, fee
  <2>. QED BY <1>1, <1>3, <1>4, <1>5
<1>. QED BY <1>1, <1>4, <1>5, <1>6 DEF Exit, FeeRate

(* The ledger after an exit, in numbers.                                   *)
LEMMA ExitLedger ==
  ASSUME AccountsTyped, NEW k \in Keys, NEW toBuyer \in Nat, NEW toTreasury \in Nat,
         NEW toPool \in Nat, Exit(k, toBuyer, toTreasury, toPool)
  PROVE  /\ pool'.lockedCollateral = pool.lockedCollateral - position[k].quote.maxPayout
         /\ pool'.openPositions = pool.openPositions - 1
         /\ pool'.totalAssets = pool.totalAssets + toPool
         /\ pool'.totalShares = pool.totalShares
         /\ pool.lockedCollateral >= position[k].quote.maxPayout
         /\ pool.openPositions >= 1
         /\ PoolTypeOK'
<1>1. PayOut(k, toBuyer, toTreasury, toPool) /\ IsOpen(k) BY DEF Exit
<1>2. pool' = LedgerAfterExit(position[k].quote, toPool)
  BY <1>1 DEF PayOut
<1>3. /\ pool.lockedCollateral >= position[k].quote.maxPayout
      /\ pool.openPositions >= 1
      /\ pool.totalAssets + toPool <= MaxU64
  BY <1>1 DEF PayOut
<1>4. position[k].quote.maxPayout \in Nat BY <1>1, OpenPosition, QuoteTyped
<1>5. PoolTypeOK BY DEF AccountsTyped
<1>6. /\ pool'.lockedCollateral = pool.lockedCollateral - position[k].quote.maxPayout
      /\ pool'.openPositions = pool.openPositions - 1
      /\ pool'.totalAssets = pool.totalAssets + toPool
      /\ pool'.totalShares = pool.totalShares
  BY <1>2, <1>5 DEF LedgerAfterExit, PoolTypeOK
<1>7. PoolTypeOK'
  <2>1. /\ pool.totalShares \in U64
        /\ pool.totalAssets + toPool \in U64
        /\ pool.lockedCollateral - position[k].quote.maxPayout \in U64
        /\ pool.openPositions - 1 \in Nat
    BY <1>3, <1>4, <1>5 DEF PoolTypeOK, U64
  <2>. QED BY <1>2, <1>5, <2>1 DEF LedgerAfterExit, PoolTypeOK
<1>. QED BY <1>3, <1>6, <1>7

(* And the ledger after a fill.                                            *)
LEMMA FillLedger ==
  ASSUME AccountsTyped, NEW q \in Quotes, FillPoolQuote(q)
  PROVE  /\ pool'.lockedCollateral = pool.lockedCollateral + q.maxPayout
         /\ pool'.openPositions = pool.openPositions + 1
         /\ pool'.totalAssets = pool.totalAssets - q.maxPayout
         /\ pool'.totalShares = pool.totalShares
         /\ PoolTypeOK'
<1>1. /\ pool' = [pool EXCEPT !.lockedCollateral = @ + q.maxPayout,
                              !.openPositions = @ + 1,
                              !.totalAssets = @ - q.maxPayout]
      /\ WithinLimits(q.maxPayout)
  BY DEF FillPoolQuote
<1>2. PoolTypeOK BY DEF AccountsTyped
<1>3. q.maxPayout \in Nat BY QuoteTyped
<1>4. /\ pool.totalAssets + pool.lockedCollateral <= MaxU64
      /\ q.maxPayout <= pool.totalAssets
  BY <1>1 DEF WithinLimits
<1>5. /\ pool'.lockedCollateral = pool.lockedCollateral + q.maxPayout
      /\ pool'.openPositions = pool.openPositions + 1
      /\ pool'.totalAssets = pool.totalAssets - q.maxPayout
      /\ pool'.totalShares = pool.totalShares
  BY <1>1, <1>2 DEF PoolTypeOK
<1>6. PoolTypeOK'
  <2>1. /\ pool.totalShares \in U64
        /\ pool.totalAssets - q.maxPayout \in U64
        /\ pool.lockedCollateral + q.maxPayout \in U64
        /\ pool.openPositions + 1 \in Nat
    BY <1>2, <1>3, <1>4 DEF PoolTypeOK, U64
  <2>. QED BY <1>1, <1>2, <2>1 DEF PoolTypeOK
<1>. QED BY <1>5, <1>6

-----------------------------------------------------------------------------
(* Type correctness, the risk configuration apart.                         *)
LEMMA InitAccounts == Init => AccountsTyped
<1>. SUFFICES ASSUME Init PROVE AccountsTyped OBVIOUS
<1>. USE DEF Init
<1>1. Chain!OutcomeTypeOK
  BY DEF Chain!OutcomeInit, Chain!OutcomeTypeOK, Chain!Outcomes
<1>2. PoolTypeOK BY DEF PoolTypeOK, U64
<1>4. config \in ConfigRecord
  <2>1. \A f \in FeeChoices : f <= MAX_FEE_BPS => f \in 0 .. MAX_FEE_BPS
    BY SMT DEF MAX_FEE_BPS
  <2>2. {f \in FeeChoices : f <= MAX_FEE_BPS} \subseteq 0 .. MAX_FEE_BPS
    BY <2>1
  <2>3. {FALSE} \subseteq BOOLEAN /\ {1} \subseteq Nat \ {0} OBVIOUS
  <2>. QED BY <2>2, <2>3 DEF ConfigRecord
<1>5. poolMarket \in [Markets -> BindingRecord]
  BY DEF NoBinding, BindingRecord
<1>. QED BY <1>1, <1>2, <1>4, <1>5 DEF AccountsTyped, U64

(* The steps of the environment, the administration and the manager leave  *)
(* the ledger, the providers, the positions and the tokens alone.          *)
Quiet == UNCHANGED <<pool, shares, positionVars, tokenVars>>

(* Every step is quiet or one of the six that move tokens or shares.       *)
LEMMA QuietSteps ==
  ASSUME [Next]_vars
  PROVE  \/ Quiet
         \/ \E p \in Providers, a \in DepositAmounts : DepositLiquidity(p, a)
         \/ \E p \in Providers : \E s \in 1 .. shares[p] : WithdrawLiquidity(p, s)
         \/ \E w \in Wallets : Donate(w)
         \/ \E q \in Quotes : FillPoolQuote(q)
         \/ \E k \in Keys : SettlePoolPosition(k) \/ RefundPoolPosition(k)
         \/ \E k \in Keys, b \in Buybacks : ClosePoolPosition(k, b)
<1>1. CASE \E f \in FeeChoices, e \in EligibilityChoices : UpdateConfig(f, e)
  BY <1>1 DEF UpdateConfig, Quiet
<1>2. CASE \E b \in Switches : SetPause(b)
  BY <1>2 DEF SetPause, Quiet
<1>3. CASE \E b \in Buyers, e \in BOOLEAN, t \in EligibleUntil : SetEligibility(b, e, t)
  BY <1>3 DEF SetEligibility, Quiet
<1>4. CASE \E m \in Markets : CreateMarket(m) \/ CloseSettledMarket(m)
  BY <1>4 DEF CreateMarket, CloseSettledMarket, Quiet
<1>5. CASE \E m \in Markets, b \in Switches : SetMarketEnabled(m, b)
  BY <1>5 DEF SetMarketEnabled, Quiet
<1>6. CASE \E m \in Markets, p \in Prices : FinalizeOracle(m, p)
  BY <1>6 DEF FinalizeOracle, Quiet
<1>7. CASE \E m \in Markets, c \in Cutoffs, e \in BOOLEAN : SetLiquidityPoolMarket(m, c, e)
  BY <1>7 DEF SetLiquidityPoolMarket, Quiet
<1>8. CASE ConfigureRisk
  BY <1>8 DEF ConfigureRisk, Quiet
<1>9. CASE Tick
  BY <1>9 DEF Tick, Quiet
<1>10. CASE UNCHANGED vars
  BY <1>10 DEF vars, Quiet
<1>. QED
  BY <1>1, <1>2, <1>3, <1>4, <1>5, <1>6, <1>7, <1>8, <1>9, <1>10 DEF Next

(* An exit keeps every account well typed.                                 *)
LEMMA ExitAccounts ==
  ASSUME AccountsTyped, NEW k \in Keys, NEW toBuyer \in Nat, NEW toTreasury \in Nat,
         NEW toPool \in Nat, Exit(k, toBuyer, toTreasury, toPool)
  PROVE  AccountsTyped'
<1> DEFINE q == position[k].quote
<1>1. /\ IsOpen(k)
      /\ PayOut(k, toBuyer, toTreasury, toPool)
      /\ nonceRecord' \in {nonceRecord, [nonceRecord EXCEPT ![k] = FALSE]}
  BY DEF Exit
<1>2. PoolTypeOK' BY ExitLedger
<1>3. q \in Quotes /\ q.market \in Markets /\ q.buyer \in Buyers
  BY <1>1, OpenPosition, QuoteTyped
<1>4. poolMarket' \in [Markets -> BindingRecord]
  <2>1. /\ poolMarket' = [poolMarket EXCEPT ![q.market].openPositions = @ - 1]
        /\ poolMarket[q.market].openPositions >= 1
    BY <1>1 DEF PayOut
  <2>. HIDE DEF q
  <2>2. poolMarket[q.market].openPositions - 1 \in Nat
    BY <1>3, <2>1 DEF AccountsTyped, BindingRecord
  <2>. QED BY <1>3, <2>1, <2>2, CountBinding DEF AccountsTyped
<1>5. wallet' \in [Wallets -> Nat]
  <2>1. wallet' = Credited(q.buyer, toBuyer, toTreasury) BY <1>1 DEF PayOut
  <2>. HIDE DEF q
  <2>. QED BY <2>1 DEF Credited, AccountsTyped
<1>6. /\ poolToken' \in Nat
      /\ vault' \in [Keys -> U64]
      /\ position' \in [Keys -> PositionRecord \cup {NoPosition}]
      /\ nonceRecord' \in [Keys -> BOOLEAN]
  <2>1. /\ poolToken' = poolToken + toPool
        /\ vault' = [vault EXCEPT ![k] = 0]
        /\ position' = [position EXCEPT ![k] = NoPosition]
    BY <1>1 DEF PayOut
  <2>2. vault' \in [Keys -> U64] BY <2>1 DEF AccountsTyped, U64
  <2>3. position' \in [Keys -> PositionRecord \cup {NoPosition}]
    BY <2>1 DEF AccountsTyped
  <2>4. nonceRecord' \in [Keys -> BOOLEAN] BY <1>1 DEF AccountsTyped
  <2>5. poolToken' \in Nat BY <2>1 DEF AccountsTyped
  <2>. QED BY <2>2, <2>3, <2>4, <2>5
<1>7. UNCHANGED <<now, outcome, config, eligibility, marketEnabled, shares, fills, donated>>
  BY <1>1 DEF PayOut, chainVars, configVars
<1>. QED
  BY <1>2, <1>4, <1>5, <1>6, <1>7 DEF AccountsTyped, Chain!OutcomeTypeOK

(* So does a fill.                                                         *)
LEMMA FillAccounts ==
  ASSUME AccountsTyped, NEW q \in Quotes, FillPoolQuote(q)
  PROVE  AccountsTyped'
<1>1. PoolTypeOK' BY FillLedger
<1>2. /\ Key(q) \in Keys /\ q.market \in Markets /\ q.buyer \in Wallets
      /\ q.premium \in Nat /\ q.maxPayout \in Nat
  BY QuoteTyped DEF Wallets
<1>3. position' \in [Keys -> PositionRecord \cup {NoPosition}]
  <2>1. position' = [position EXCEPT ![Key(q)] =
                       [open |-> TRUE, quote |-> q, feeBps |-> config.feeBps]]
    BY DEF FillPoolQuote
  <2>2. [open |-> TRUE, quote |-> q, feeBps |-> config.feeBps] \in PositionRecord
    <3>1. config.feeBps \in 0 .. MAX_FEE_BPS BY DEF AccountsTyped, ConfigRecord
    <3>. QED BY <3>1 DEF PositionRecord
  <2>. QED BY <1>2, <2>1, <2>2 DEF AccountsTyped
<1>4. vault' \in [Keys -> U64]
  <2>1. /\ vault' = [vault EXCEPT ![Key(q)] = Escrow(q)]
        /\ Escrow(q) <= MaxU64
    BY DEF FillPoolQuote
  <2>2. Escrow(q) \in U64 BY <1>2, <2>1 DEF Escrow, U64
  <2>. QED BY <1>2, <2>1, <2>2 DEF AccountsTyped
<1>5. nonceRecord' \in [Keys -> BOOLEAN] /\ fills' \in [Quotes -> Nat]
  BY <1>2 DEF FillPoolQuote, AccountsTyped
<1>6. poolMarket' \in [Markets -> BindingRecord]
  <2>1. poolMarket' = [poolMarket EXCEPT ![q.market].openPositions = @ + 1]
    BY DEF FillPoolQuote
  <2>2. poolMarket[q.market].openPositions + 1 \in Nat
    BY <1>2 DEF AccountsTyped, BindingRecord
  <2>. QED BY <1>2, <2>1, <2>2, CountBinding DEF AccountsTyped
<1>7. wallet' \in [Wallets -> Nat] /\ poolToken' \in Nat
  <2>1. /\ wallet' = [wallet EXCEPT ![q.buyer] = @ - q.premium]
        /\ wallet[q.buyer] >= q.premium
        /\ poolToken' = poolToken - q.maxPayout
        /\ poolToken >= q.maxPayout
    BY DEF FillPoolQuote
  <2>2. wallet[q.buyer] - q.premium \in Nat BY <1>2, <2>1 DEF AccountsTyped
  <2>. QED BY <1>2, <2>1, <2>2 DEF AccountsTyped
<1>8. UNCHANGED <<now, outcome, config, eligibility, marketEnabled, shares, donated>>
  BY DEF FillPoolQuote, chainVars, configVars
<1>. QED
  BY <1>1, <1>3, <1>4, <1>5, <1>6, <1>7, <1>8 DEF AccountsTyped, Chain!OutcomeTypeOK

(* What a deposit does to the ledger.                                      *)
LEMMA DepositLedger ==
  ASSUME AccountsTyped, NEW p \in Providers, NEW amount \in DepositAmounts,
         DepositLiquidity(p, amount)
  PROVE  /\ amount \in Nat /\ SharesFor(amount) \in Nat \ {0}
         /\ pool'.totalShares = pool.totalShares + SharesFor(amount)
         /\ pool'.totalAssets = pool.totalAssets + amount
         /\ pool'.lockedCollateral = pool.lockedCollateral
         /\ pool'.openPositions = pool.openPositions
         /\ PoolTypeOK'
<1>1. /\ DepositSharesOk(amount, pool.totalShares, pool.totalAssets)
      /\ pool.totalShares + SharesFor(amount) <= MaxU64
      /\ pool.totalAssets + amount <= MaxU64
      /\ pool' = [pool EXCEPT !.totalShares = @ + SharesFor(amount), !.totalAssets = @ + amount]
  BY DEF DepositLiquidity
<1>2. amount \in Nat /\ SharesFor(amount) \in Nat \ {0}
  BY <1>1 DEF DepositSharesOk, SharesFor, U64
<1>3. PoolTypeOK BY DEF AccountsTyped
<1>4. /\ pool'.totalShares = pool.totalShares + SharesFor(amount)
      /\ pool'.totalAssets = pool.totalAssets + amount
      /\ pool'.lockedCollateral = pool.lockedCollateral
      /\ pool'.openPositions = pool.openPositions
  BY <1>1, <1>3 DEF PoolTypeOK
<1>5. /\ pool.totalShares + SharesFor(amount) \in U64
      /\ pool.totalAssets + amount \in U64
  BY <1>1, <1>2, <1>3 DEF PoolTypeOK, U64
<1>6. PoolTypeOK' BY <1>1, <1>3, <1>5 DEF PoolTypeOK
<1>. QED BY <1>2, <1>4, <1>6

(* And a withdrawal.                                                       *)
LEMMA WithdrawLedger ==
  ASSUME AccountsTyped, NEW p \in Providers, NEW s \in 1 .. shares[p],
         WithdrawLiquidity(p, s)
  PROVE  /\ s \in Nat \ {0} /\ s <= pool.totalShares /\ AmountFor(s) \in Nat
         /\ AmountFor(s) <= pool.totalAssets
         /\ pool'.totalShares = pool.totalShares - s
         /\ pool'.totalAssets = pool.totalAssets - AmountFor(s)
         /\ pool'.lockedCollateral = pool.lockedCollateral
         /\ pool'.openPositions = pool.openPositions
         /\ PoolTypeOK'
<1>1. /\ WithdrawAmountOk(s, pool.totalShares, pool.totalAssets)
      /\ pool.totalAssets >= AmountFor(s)
      /\ pool' = [pool EXCEPT !.totalShares = @ - s, !.totalAssets = @ - AmountFor(s)]
  BY DEF WithdrawLiquidity
<1>2. s \in Nat \ {0} /\ s <= pool.totalShares /\ AmountFor(s) \in Nat
  <2>1. shares[p] \in Nat BY DEF AccountsTyped, U64
  <2>2. s \in Nat \ {0} BY <2>1
  <2>. QED BY <1>1, <2>2 DEF WithdrawAmountOk, AmountFor
<1>3. PoolTypeOK BY DEF AccountsTyped
<1>4. /\ pool'.totalShares = pool.totalShares - s
      /\ pool'.totalAssets = pool.totalAssets - AmountFor(s)
      /\ pool'.lockedCollateral = pool.lockedCollateral
      /\ pool'.openPositions = pool.openPositions
  BY <1>1, <1>3 DEF PoolTypeOK
<1>5. /\ pool.totalShares - s \in U64
      /\ pool.totalAssets - AmountFor(s) \in U64
  <2>1. pool.totalShares \in U64 /\ pool.totalAssets \in U64 BY <1>3 DEF PoolTypeOK
  <2>. QED BY <1>1, <1>2, <2>1 DEF U64
<1>6. PoolTypeOK' BY <1>1, <1>3, <1>5 DEF PoolTypeOK
<1>. QED BY <1>1, <1>2, <1>4, <1>6

(* And so does every step.                                                 *)
LEMMA NextAccounts == AccountsTyped /\ [Next]_vars => AccountsTyped'
<1>. SUFFICES ASSUME AccountsTyped, [Next]_vars PROVE AccountsTyped' OBVIOUS
<1>1. ASSUME NEW f \in FeeChoices, NEW e \in EligibilityChoices, UpdateConfig(f, e)
      PROVE  AccountsTyped'
  <2>1. f \in 0 .. MAX_FEE_BPS
    BY <1>1, SMT DEF UpdateConfig, FeeAllowed, MAX_FEE_BPS
  <2>2. config' = [config EXCEPT !.feeBps = f, !.eligibilityRequired = e, !.domainVersion = @ + 1]
    BY <1>1 DEF UpdateConfig
  <2>3. config' \in ConfigRecord
    <3>1. e \in BOOLEAN /\ config \in ConfigRecord BY DEF AccountsTyped
    <3>2. config.domainVersion + 1 \in Nat \ {0} BY <3>1 DEF ConfigRecord
    <3>3. config' = [paused |-> config.paused, feeBps |-> f, eligibilityRequired |-> e,
                     domainVersion |-> config.domainVersion + 1]
      BY <2>2, <3>1 DEF ConfigRecord
    <3>4. config.paused \in BOOLEAN BY <3>1 DEF ConfigRecord
    <3>. QED BY <2>1, <3>1, <3>2, <3>3, <3>4 DEF ConfigRecord
  <2>. QED
    BY <1>1, <2>3 DEF UpdateConfig, AccountsTyped, chainVars, positionVars, tokenVars,
                      Chain!OutcomeTypeOK, PoolTypeOK
<1>2. ASSUME NEW b \in Switches, SetPause(b) PROVE AccountsTyped'
  <2>1. config' \in ConfigRecord
    <3>1. b \in BOOLEAN /\ config' = [config EXCEPT !.paused = b] BY <1>2 DEF SetPause
    <3>2. config \in ConfigRecord BY DEF AccountsTyped
    <3>. QED BY <3>1, <3>2 DEF ConfigRecord
  <2>. QED
    BY <1>2, <2>1 DEF SetPause, AccountsTyped, chainVars, positionVars, tokenVars,
                      Chain!OutcomeTypeOK, PoolTypeOK
<1>3. ASSUME NEW b \in Buyers, NEW e \in BOOLEAN, NEW t \in EligibleUntil, SetEligibility(b, e, t)
      PROVE  AccountsTyped'
  <2>1. eligibility' \in [Buyers -> [canTrade : BOOLEAN, expiresAt : Nat]]
    BY <1>3 DEF SetEligibility, AccountsTyped
  <2>. QED
    BY <1>3, <2>1 DEF SetEligibility, AccountsTyped, chainVars, positionVars, tokenVars,
                      Chain!OutcomeTypeOK, PoolTypeOK
<1>4. ASSUME NEW m \in Markets, CreateMarket(m) PROVE AccountsTyped'
  <2>1. /\ outcome' = [outcome EXCEPT ![m] = Chain!Pending] /\ UNCHANGED now
        /\ marketEnabled' = [marketEnabled EXCEPT ![m] = TRUE]
    BY <1>4 DEF CreateMarket, Chain!Open
  <2>2. Chain!OutcomeTypeOK'
    BY <2>1 DEF AccountsTyped, Chain!OutcomeTypeOK, Chain!Outcomes
  <2>. QED
    BY <1>4, <2>1, <2>2 DEF CreateMarket, AccountsTyped, positionVars, tokenVars, PoolTypeOK
<1>5. ASSUME NEW m \in Markets, NEW b \in Switches, SetMarketEnabled(m, b) PROVE AccountsTyped'
  BY <1>5 DEF SetMarketEnabled, AccountsTyped, chainVars, positionVars, tokenVars,
              Chain!OutcomeTypeOK, PoolTypeOK
<1>6. ASSUME NEW m \in Markets, NEW p \in Prices, FinalizeOracle(m, p) PROVE AccountsTyped'
  <2>1. outcome' = [outcome EXCEPT ![m] = Chain!Final(p)] /\ UNCHANGED now
    BY <1>6 DEF FinalizeOracle, Chain!Finalize
  <2>2. Chain!OutcomeTypeOK'
    BY <2>1 DEF AccountsTyped, Chain!OutcomeTypeOK, Chain!Outcomes
  <2>. QED
    BY <1>6, <2>2 DEF FinalizeOracle, AccountsTyped, configVars, positionVars, tokenVars,
                      PoolTypeOK
<1>7. ASSUME NEW m \in Markets, NEW c \in Cutoffs, NEW e \in BOOLEAN, SetLiquidityPoolMarket(m, c, e)
      PROVE  AccountsTyped'
  <2>1. poolMarket' = [poolMarket EXCEPT ![m] =
          [exists |-> TRUE, enabled |-> e, lastTradeAt |-> c, openPositions |-> @.openPositions]]
    BY <1>7 DEF SetLiquidityPoolMarket
  <2>2. poolMarket' \in [Markets -> BindingRecord]
    BY <2>1 DEF AccountsTyped, BindingRecord
  <2>. QED
    BY <1>7, <2>2 DEF SetLiquidityPoolMarket, AccountsTyped, chainVars, configVars,
                      positionVars, tokenVars, Chain!OutcomeTypeOK, PoolTypeOK
<1>8. ASSUME NEW m \in Markets, CloseSettledMarket(m) PROVE AccountsTyped'
  <2>1. /\ outcome' = [outcome EXCEPT ![m] = Chain!Closed] /\ UNCHANGED now
        /\ poolMarket' = [poolMarket EXCEPT ![m] = NoBinding]
    BY <1>8 DEF CloseSettledMarket, Chain!Close
  <2>2. Chain!OutcomeTypeOK'
    BY <2>1 DEF AccountsTyped, Chain!OutcomeTypeOK, Chain!Outcomes
  <2>3. poolMarket' \in [Markets -> BindingRecord]
    BY <2>1 DEF AccountsTyped, BindingRecord, NoBinding
  <2>. QED
    BY <1>8, <2>2, <2>3 DEF CloseSettledMarket, AccountsTyped, configVars, positionVars,
                            tokenVars, PoolTypeOK
<1>9. CASE ConfigureRisk
  <2>1. UNCHANGED now
    BY <1>9 DEF ConfigureRisk, Risk!UpdateLiquidityPool, Risk!ApplyLiquidityPoolUpdate,
                Risk!CancelPendingPoolUpdate
  <2>. QED
    BY <1>9, <2>1 DEF ConfigureRisk, AccountsTyped, configVars, positionVars, tokenVars,
                      Chain!OutcomeTypeOK, PoolTypeOK
<1>10. ASSUME NEW p \in Providers, NEW amount \in DepositAmounts, DepositLiquidity(p, amount)
       PROVE  AccountsTyped'
  <2>1. p \in Wallets BY DEF Wallets
  <2>2. /\ shares' = [shares EXCEPT ![p] = @ + SharesFor(amount)]
        /\ shares[p] + SharesFor(amount) <= MaxU64
        /\ poolToken' = poolToken + amount
        /\ wallet' = [wallet EXCEPT ![p] = @ - amount]
        /\ wallet[p] >= amount
    BY <1>10 DEF DepositLiquidity
  <2>3. amount \in Nat /\ SharesFor(amount) \in Nat /\ PoolTypeOK'
    BY <1>10, DepositLedger
  <2>4. shares' \in [Providers -> U64]
    BY <2>2, <2>3 DEF AccountsTyped, U64
  <2>5. poolToken' \in Nat /\ wallet' \in [Wallets -> Nat]
    BY <2>1, <2>2, <2>3 DEF AccountsTyped
  <2>. QED
    BY <1>10, <2>3, <2>4, <2>5 DEF DepositLiquidity, AccountsTyped, chainVars, configVars,
                                   positionVars, Chain!OutcomeTypeOK
<1>11. ASSUME NEW p \in Providers, NEW s \in 1 .. shares[p], WithdrawLiquidity(p, s)
       PROVE  AccountsTyped'
  <2>1. p \in Wallets BY DEF Wallets
  <2>2. /\ shares' = [shares EXCEPT ![p] = @ - s]
        /\ shares[p] >= s
        /\ poolToken' = poolToken - AmountFor(s)
        /\ poolToken >= AmountFor(s)
        /\ wallet' = [wallet EXCEPT ![p] = @ + AmountFor(s)]
    BY <1>11 DEF WithdrawLiquidity
  <2>3. s \in Nat /\ AmountFor(s) \in Nat /\ PoolTypeOK'
    BY <1>11, WithdrawLedger
  <2>4. shares' \in [Providers -> U64]
    BY <2>2, <2>3 DEF AccountsTyped, U64
  <2>5. poolToken' \in Nat /\ wallet' \in [Wallets -> Nat]
    BY <2>1, <2>2, <2>3 DEF AccountsTyped
  <2>. QED
    BY <1>11, <2>3, <2>4, <2>5 DEF WithdrawLiquidity, AccountsTyped, chainVars, configVars,
                                   positionVars, Chain!OutcomeTypeOK
<1>12. ASSUME NEW w \in Wallets, Donate(w) PROVE AccountsTyped'
  <2>1. donated' \in Nat /\ poolToken' \in Nat /\ wallet' \in [Wallets -> Nat]
    BY <1>12 DEF Donate, AccountsTyped
  <2>. QED
    BY <1>12, <2>1 DEF Donate, AccountsTyped, chainVars, configVars, positionVars,
                       Chain!OutcomeTypeOK, PoolTypeOK
<1>13. ASSUME NEW q \in Quotes, FillPoolQuote(q) PROVE AccountsTyped'
  BY <1>13, FillAccounts
<1>14. ASSUME NEW k \in Keys, SettlePoolPosition(k) \/ RefundPoolPosition(k) PROVE AccountsTyped'
  BY <1>14, SettleExits, RefundExits, ExitAccounts
<1>15. ASSUME NEW k \in Keys, NEW b \in Buybacks, ClosePoolPosition(k, b) PROVE AccountsTyped'
  BY <1>15, CloseExits, ExitAccounts
<1>16. CASE Tick
  <2>1. now' \in 0 .. MaxTime /\ UNCHANGED outcome
    BY <1>16 DEF Tick, Chain!Tick, AccountsTyped, Chain!OutcomeTypeOK
  <2>. QED
    BY <1>16, <2>1 DEF Tick, AccountsTyped, configVars, positionVars, tokenVars,
                       Chain!OutcomeTypeOK, PoolTypeOK
<1>17. CASE UNCHANGED vars
  BY <1>17 DEF vars, AccountsTyped, chainVars, configVars, positionVars, tokenVars,
               Chain!OutcomeTypeOK, PoolTypeOK
<1>. QED
  BY <1>1, <1>2, <1>3, <1>4, <1>5, <1>6, <1>7, <1>8, <1>9, <1>10, <1>11, <1>12, <1>13,
     <1>14, <1>15, <1>16, <1>17 DEF Next

(* Type correctness, the risk configuration apart.                         *)
LEMMA AccountsCorrect == Spec => []AccountsTyped
BY InitAccounts, NextAccounts, PTL DEF Spec

-----------------------------------------------------------------------------
(* The pool drives its risk configuration as PoolRiskLimits has it: what   *)
(* makes the pool idle or busy is the only thing that module left open.    *)
LEMMA IdleIsBoolean == Idle \in BOOLEAN /\ Idle' \in BOOLEAN
BY DEF Idle

(* The pool starts idle, as PoolRiskLimits does.                           *)
LEMMA InitRisk == Init => Risk!Init
<1>. SUFFICES ASSUME Init PROVE Risk!Init OBVIOUS
<1>1. Idle BY DEF Init, Idle
<1>. QED BY <1>1 DEF Init, Risk!Init

(* A step of the pool is one of the manager, a trade, the clock or a       *)
(* stutter.                                                                *)
LEMMA NextRisk == AccountsTyped /\ [Next]_vars => [Risk!Next]_(Risk!riskVars)
<1>. SUFFICES ASSUME AccountsTyped, [Next]_vars PROVE [Risk!Next]_(Risk!riskVars) OBVIOUS
<1>1. ASSUME UNCHANGED <<now, limitVars, pool>> PROVE UNCHANGED Risk!riskVars
  BY <1>1 DEF limitVars, Idle, Risk!riskVars
<1>2. ASSUME NEW f \in FeeChoices, NEW e \in EligibilityChoices, UpdateConfig(f, e)
      PROVE  UNCHANGED Risk!riskVars
  BY <1>1, <1>2 DEF UpdateConfig, chainVars
<1>3. ASSUME NEW b \in Switches, SetPause(b) PROVE UNCHANGED Risk!riskVars
  BY <1>1, <1>3 DEF SetPause, chainVars
<1>4. ASSUME NEW b \in Buyers, NEW e \in BOOLEAN, NEW t \in EligibleUntil, SetEligibility(b, e, t)
      PROVE  UNCHANGED Risk!riskVars
  BY <1>1, <1>4 DEF SetEligibility, chainVars
<1>5. ASSUME NEW m \in Markets, CreateMarket(m) PROVE UNCHANGED Risk!riskVars
  BY <1>1, <1>5 DEF CreateMarket, Chain!Open
<1>6. ASSUME NEW m \in Markets, CloseSettledMarket(m) PROVE UNCHANGED Risk!riskVars
  BY <1>1, <1>6 DEF CloseSettledMarket, Chain!Close
<1>7. ASSUME NEW m \in Markets, NEW b \in Switches, SetMarketEnabled(m, b)
      PROVE  UNCHANGED Risk!riskVars
  BY <1>1, <1>7 DEF SetMarketEnabled, chainVars
<1>8. ASSUME NEW m \in Markets, NEW p \in Prices, FinalizeOracle(m, p)
      PROVE  UNCHANGED Risk!riskVars
  BY <1>1, <1>8 DEF FinalizeOracle, Chain!Finalize
<1>9. ASSUME NEW m \in Markets, NEW c \in Cutoffs, NEW e \in BOOLEAN, SetLiquidityPoolMarket(m, c, e)
      PROVE  UNCHANGED Risk!riskVars
  BY <1>1, <1>9 DEF SetLiquidityPoolMarket, chainVars
<1>10. CASE ConfigureRisk
  BY <1>10 DEF ConfigureRisk, Risk!Next
<1>11. ASSUME UNCHANGED <<now, limitVars>>,
              pool'.lockedCollateral = pool.lockedCollateral,
              pool'.openPositions = pool.openPositions
       PROVE  UNCHANGED Risk!riskVars
  BY <1>11 DEF limitVars, Idle, Risk!riskVars
<1>12. ASSUME NEW p \in Providers, NEW amount \in DepositAmounts, DepositLiquidity(p, amount)
       PROVE  UNCHANGED Risk!riskVars
  BY <1>11, <1>12, DepositLedger DEF DepositLiquidity, chainVars
<1>13. ASSUME NEW p \in Providers, NEW s \in 1 .. shares[p], WithdrawLiquidity(p, s)
       PROVE  UNCHANGED Risk!riskVars
  BY <1>11, <1>13, WithdrawLedger DEF WithdrawLiquidity, chainVars
<1>14. ASSUME NEW w \in Wallets, Donate(w) PROVE UNCHANGED Risk!riskVars
  BY <1>1, <1>14 DEF Donate, chainVars
<1>15. ASSUME UNCHANGED <<now, limitVars>> PROVE Risk!OpenOrClose \/ UNCHANGED Risk!riskVars
  <2>1. CASE Idle' = Idle BY <1>15, <2>1 DEF limitVars, Risk!riskVars
  <2>2. CASE Idle' = ~Idle BY <1>15, <2>2 DEF limitVars, Risk!OpenOrClose
  <2>. QED BY <2>1, <2>2, IdleIsBoolean
<1>16. ASSUME NEW q \in Quotes, FillPoolQuote(q) PROVE Risk!OpenOrClose \/ UNCHANGED Risk!riskVars
  BY <1>15, <1>16 DEF FillPoolQuote, chainVars
<1>17. ASSUME NEW k \in Keys, NEW toBuyer \in Nat, NEW toTreasury \in Nat, NEW toPool \in Nat,
              Exit(k, toBuyer, toTreasury, toPool)
       PROVE  Risk!OpenOrClose \/ UNCHANGED Risk!riskVars
  BY <1>15, <1>17 DEF Exit, PayOut, chainVars
<1>18. ASSUME NEW k \in Keys, SettlePoolPosition(k) \/ RefundPoolPosition(k)
       PROVE  Risk!OpenOrClose \/ UNCHANGED Risk!riskVars
  BY <1>17, <1>18, SettleExits, RefundExits
<1>19. ASSUME NEW k \in Keys, NEW b \in Buybacks, ClosePoolPosition(k, b)
       PROVE  Risk!OpenOrClose \/ UNCHANGED Risk!riskVars
  BY <1>17, <1>19, CloseExits
<1>20. CASE Tick
  <2>1. UNCHANGED <<limitVars, pool>> /\ now < MaxTime /\ now' = now + 1
    BY <1>20 DEF Tick, Chain!Tick
  <2>2. Risk!Elapse BY <2>1 DEF limitVars, Risk!Elapse, Idle
  <2>. QED BY <2>2 DEF Risk!Next
<1>21. CASE UNCHANGED vars
  BY <1>1, <1>21 DEF vars, chainVars
<1>. QED
  BY <1>2, <1>3, <1>4, <1>5, <1>6, <1>7, <1>8, <1>9, <1>10, <1>12, <1>13, <1>14, <1>16,
     <1>18, <1>19, <1>20, <1>21 DEF Next, Risk!Next

(* Every behaviour of the pool is one of PoolRiskLimits.                   *)
THEOREM RiskRefinementHolds == Spec => Risk!Spec
BY InitRisk, NextRisk, AccountsCorrect, PTL DEF Spec, Risk!Spec

RiskProofs == INSTANCE PoolRiskLimitsProofs WITH idle <- Idle

(* The assumptions PoolRiskLimits makes on its constants.                  *)
LEMMA RiskConstants ==
  /\ NoQuoteAuthority \notin QuoteAuthorities
  /\ LimitChoices \subseteq RiskProofs!LimitsRecord
  /\ POOL_UPDATE_TIMELOCK \in Nat \ {0}
BY RiskAssumption DEF RiskProofs!LimitsRecord, Risk!LimitsRecord

(* The two instances of PoolRiskLimits, with proofs and without, agree.    *)
LEMMA SameRisk ==
  /\ Risk!Init <=> RiskProofs!Init
  /\ Risk!Next <=> RiskProofs!Next
  /\ Risk!riskVars = RiskProofs!riskVars
  /\ Risk!TypeOK <=> RiskProofs!TypeOK
  /\ Risk!LiveLimitsWereAnnounced <=> RiskProofs!LiveLimitsWereAnnounced
<1>. USE DEF Risk!NoPending, RiskProofs!NoPending, Risk!NoLimits, RiskProofs!NoLimits,
             Risk!NoAnnouncement, RiskProofs!NoAnnouncement,
             Risk!ValidLimits, RiskProofs!ValidLimits,
             Risk!ValidRiskLimits, RiskProofs!ValidRiskLimits,
             Risk!MAX_POOL_UTILIZATION_BPS, RiskProofs!MAX_POOL_UTILIZATION_BPS
<1>1. Risk!Init <=> RiskProofs!Init BY DEF Risk!Init, RiskProofs!Init
<1>2. Risk!Next <=> RiskProofs!Next
  <2>1. ASSUME NEW l PROVE Risk!UpdateLiquidityPool(l) <=> RiskProofs!UpdateLiquidityPool(l)
    BY DEF Risk!UpdateLiquidityPool, RiskProofs!UpdateLiquidityPool,
       Risk!TighteningOnly, RiskProofs!TighteningOnly, Risk!Acceptable, RiskProofs!Acceptable
  <2>2. Risk!ApplyLiquidityPoolUpdate <=> RiskProofs!ApplyLiquidityPoolUpdate
    BY DEF Risk!ApplyLiquidityPoolUpdate, RiskProofs!ApplyLiquidityPoolUpdate
  <2>3. Risk!CancelPendingPoolUpdate <=> RiskProofs!CancelPendingPoolUpdate
    BY DEF Risk!CancelPendingPoolUpdate, RiskProofs!CancelPendingPoolUpdate
  <2>4. Risk!OpenOrClose <=> RiskProofs!OpenOrClose BY DEF Risk!OpenOrClose, RiskProofs!OpenOrClose
  <2>5. Risk!Elapse <=> RiskProofs!Elapse BY DEF Risk!Elapse, RiskProofs!Elapse
  <2>. QED BY <2>1, <2>2, <2>3, <2>4, <2>5 DEF Risk!Next, RiskProofs!Next
<1>3. Risk!riskVars = RiskProofs!riskVars BY DEF Risk!riskVars, RiskProofs!riskVars
<1>4. Risk!TypeOK <=> RiskProofs!TypeOK
  BY DEF Risk!TypeOK, RiskProofs!TypeOK, Risk!LimitsRecord, RiskProofs!LimitsRecord
<1>5. Risk!LiveLimitsWereAnnounced <=> RiskProofs!LiveLimitsWereAnnounced
  BY DEF Risk!LiveLimitsWereAnnounced, RiskProofs!LiveLimitsWereAnnounced
<1>. QED BY <1>1, <1>2, <1>3, <1>4, <1>5

(* The invariant PoolRiskLimitsProofs is built on, in the pool's terms.    *)
LEMMA InitRiskInv == Init => RiskProofs!IInv
<1>1. RiskProofs!Init => RiskProofs!IInv
  BY RiskProofs!InitIInv, RiskConstants, PoolBoundsAssumption, MaxU64Assumption
<1>. QED BY <1>1, InitRisk, SameRisk

(* It is kept by every step of the pool.                                   *)
LEMMA NextRiskInv == AccountsTyped /\ RiskProofs!IInv /\ [Next]_vars => RiskProofs!IInv'
<1>1. RiskProofs!IInv /\ [RiskProofs!Next]_(RiskProofs!riskVars) => RiskProofs!IInv'
  BY RiskProofs!NextIInv, RiskConstants, PoolBoundsAssumption, MaxU64Assumption
<1>2. [Risk!Next]_(Risk!riskVars) => [RiskProofs!Next]_(RiskProofs!riskVars)
  <2>1. Risk!Next => RiskProofs!Next BY SameRisk
  <2>2. UNCHANGED Risk!riskVars => UNCHANGED RiskProofs!riskVars
    BY DEF Risk!riskVars, RiskProofs!riskVars
  <2>. QED BY <2>1, <2>2
<1>. QED BY <1>1, <1>2, NextRisk

(* And it has the two parts a reader wants.                                *)
LEMMA RiskOfIInv ==
  RiskProofs!IInv => Risk!TypeOK /\ Risk!LiveLimitsWereAnnounced
BY SameRisk DEF RiskProofs!IInv

(* Type correctness of the whole pool.                                     *)
THEOREM PoolTypeCorrect == Spec => []TypeOK
<1>1. TypeOK <=> AccountsTyped /\ Risk!TypeOK BY DEF TypeOK
<1>. QED BY <1>1, InitRiskInv, NextRiskInv, RiskOfIInv, AccountsCorrect, PTL DEF Spec

(* The timelock of PoolRiskLimits holds of the pool that drives it.        *)
THEOREM PoolTimelockHolds == Spec => []Risk!LiveLimitsWereAnnounced
BY InitRiskInv, NextRiskInv, RiskOfIInv, AccountsCorrect, PTL DEF Spec

=============================================================================
