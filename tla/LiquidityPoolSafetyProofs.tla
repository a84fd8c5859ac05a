---------------------- MODULE LiquidityPoolSafetyProofs ---------------------
(***************************************************************************)
(* What the pool guarantees its providers and its buyers, for any quotes,  *)
(* prices, fees and limits: first the ledger (the utilization cap, the     *)
(* backing of every claim, the worth of a share), then the life of a       *)
(* position (a quote is filled once, the fee is the one of the fill, an    *)
(* escrow is never stranded).  Type correctness is proved in               *)
(* LiquidityPoolProofs; every invariant here is inductive relative to it.  *)
(***************************************************************************)
EXTENDS LiquidityPoolProofs

USE TermsAssumption, SupplyAssumption, QuotesAssumption, AmountsAssumption, FeeAssumption,
    CutoffsAssumption, SwitchesAssumption, PricesAssumption, PoolBoundsAssumption,
    MaxU64Assumption

-----------------------------------------------------------------------------
(* The clock never goes back, and the limits change only while no position *)
(* is open.                                                                *)
LEMMA ClockAndLimits ==
  ASSUME AccountsTyped, [Next]_vars
  PROVE  /\ now \in Nat /\ now' \in Nat /\ now <= now'
         /\ UNCHANGED limits \/ Idle'
<1>1. now \in Nat BY DEF AccountsTyped, Chain!OutcomeTypeOK
<1>2. [Risk!Next]_(Risk!riskVars) BY NextRisk
<1>3. CASE \E l \in LimitChoices : Risk!UpdateLiquidityPool(l)
  BY <1>1, <1>3 DEF Risk!UpdateLiquidityPool
<1>4. CASE Risk!ApplyLiquidityPoolUpdate
  BY <1>1, <1>4 DEF Risk!ApplyLiquidityPoolUpdate
<1>5. CASE Risk!CancelPendingPoolUpdate \/ Risk!OpenOrClose
  BY <1>1, <1>5 DEF Risk!CancelPendingPoolUpdate, Risk!OpenOrClose
<1>6. CASE Risk!Elapse BY <1>1, <1>6 DEF Risk!Elapse
<1>7. CASE UNCHANGED Risk!riskVars BY <1>1, <1>7 DEF Risk!riskVars
<1>. QED BY <1>2, <1>3, <1>4, <1>5, <1>6, <1>7 DEF Risk!Next

(* The steps as the ledger sees them, the three exits made one.            *)
LEMMA LedgerSteps ==
  ASSUME AccountsTyped, [Next]_vars
  PROVE  \/ Quiet
         \/ \E p \in Providers, a \in DepositAmounts : DepositLiquidity(p, a)
         \/ \E p \in Providers : \E s \in 1 .. shares[p] : WithdrawLiquidity(p, s)
         \/ \E w \in Wallets : Donate(w)
         \/ \E q \in Quotes : FillPoolQuote(q)
         \/ \E k \in Keys, b, t, a \in Nat : Exit(k, b, t, a)
BY QuietSteps, SettleExits, RefundExits, CloseExits

(* The ledger holds naturals.                                              *)
LEMMA PoolNumbers ==
  ASSUME AccountsTyped
  PROVE  /\ pool.totalShares \in Nat /\ pool.totalAssets \in Nat
         /\ pool.lockedCollateral \in Nat /\ pool.openPositions \in Nat
BY DEF AccountsTyped, PoolTypeOK, U64

-----------------------------------------------------------------------------
(* The utilization cap.                                                    *)
LEMMA UtilizationAfterExit ==
  ASSUME NEW A \in Nat, NEW L \in Nat, NEW u \in 0 .. BPS_DENOMINATOR,
         NEW m \in Nat, m <= L, NEW toPool \in Nat,
         L * BPS_DENOMINATOR <= (A + L) * u
  PROVE  (L - m) * BPS_DENOMINATOR <= (A + toPool + (L - m)) * u
<1>1. m * u <= m * BPS_DENOMINATOR BY SMT DEF BPS_DENOMINATOR
<1>2. (A + toPool + (L - m)) * u = (A + L) * u + toPool * u - m * u BY SMT DEF BPS_DENOMINATOR
<1>3. toPool * u >= 0 BY SMT DEF BPS_DENOMINATOR
<1>4. (L - m) * BPS_DENOMINATOR = L * BPS_DENOMINATOR - m * BPS_DENOMINATOR
  BY SMT DEF BPS_DENOMINATOR
<1> DEFINE a == (A + L) * u
           b == toPool * u
           c == m * u
<1>5. a \in Nat /\ b \in Nat /\ c \in Nat BY SMT DEF BPS_DENOMINATOR
<1>. HIDE DEF a, b, c
<1>6. L * BPS_DENOMINATOR <= a /\ c <= m * BPS_DENOMINATOR /\ b >= 0 BY <1>1, <1>3 DEF a, b, c
<1>7. (A + toPool + (L - m)) * u = a + b - c BY <1>2 DEF a, b, c
<1>. QED BY <1>4, <1>5, <1>6, <1>7 DEF BPS_DENOMINATOR

(* A product of naturals is a natural.                                     *)
LEMMA NatProduct == ASSUME NEW x \in Nat, NEW y \in Nat PROVE x * y \in Nat
BY SMT

(* A valid cap is at most 80 percent.                                      *)
LEMMA CapRange ==
  ASSUME NEW l \in Risk!LimitsRecord, Risk!ValidLimits(l)
  PROVE  /\ l.maxUtilizationBps \in Nat /\ l.maxUtilizationBps <= 8000
         /\ l.maxUtilizationBps \in 0 .. BPS_DENOMINATOR
<1>1. l.maxUtilizationBps \in Nat BY DEF Risk!LimitsRecord
<1>2. l.maxUtilizationBps <= 8000
  BY DEF Risk!ValidLimits, Risk!ValidRiskLimits, Risk!MAX_POOL_UTILIZATION_BPS
<1>3. \A x \in Nat : x <= 8000 => x \in 0 .. BPS_DENOMINATOR
  BY SMTT(30) DEF BPS_DENOMINATOR
<1>. QED BY <1>1, <1>2, <1>3

(* A fill within the cap, and a pool with nothing locked.                  *)
LEMMA UtilizationAfterFill ==
  ASSUME NEW total \in Nat, NEW u \in Nat, NEW locked \in Nat,
         locked <= CalculateBpsLimit(total, u)
  PROVE  locked * BPS_DENOMINATOR <= total * u
<1> DEFINE n == total * u
           d == n \div BPS_DENOMINATOR
<1>1. n \in Nat BY NatProduct
<1>. HIDE DEF n
<1>2. BPS_DENOMINATOR * d <= n /\ d \in Nat
  BY <1>1, DivBounds DEF BPS_DENOMINATOR
<1>3. locked <= d BY DEF CalculateBpsLimit, n
<1>. HIDE DEF d
<1>4. locked * BPS_DENOMINATOR <= n BY <1>1, <1>2, <1>3 DEF BPS_DENOMINATOR
<1>. QED BY <1>4 DEF n

(* With limits fixed, fills obey the cap and exits only relieve it; they   *)
(* change only when nothing is locked.                                     *)
LEMMA NextUtilization ==
  TypeOK /\ TypeOK' /\ UtilizationBounded /\ [Next]_vars => UtilizationBounded'
<1>. SUFFICES ASSUME TypeOK, TypeOK', UtilizationBounded, [Next]_vars PROVE UtilizationBounded'
  OBVIOUS
<1> DEFINE A == pool.totalAssets
           L == pool.lockedCollateral
           u == limits.maxUtilizationBps
<1>1. AccountsTyped /\ AccountsTyped' /\ Risk!TypeOK /\ Risk!TypeOK' BY DEF TypeOK
<1>2. A \in Nat /\ L \in Nat /\ A' \in Nat /\ L' \in Nat
  BY <1>1 DEF AccountsTyped, PoolTypeOK, U64
<1>3. /\ u \in 0 .. BPS_DENOMINATOR /\ u' \in 0 .. BPS_DENOMINATOR
      /\ u \in Nat /\ u' \in Nat
  <2>1. limits \in Risk!LimitsRecord /\ Risk!ValidLimits(limits) BY <1>1 DEF Risk!TypeOK
  <2>2. limits' \in Risk!LimitsRecord /\ Risk!ValidLimits(limits') BY <1>1 DEF Risk!TypeOK
  <2>. QED BY <2>1, <2>2, CapRange
<1>4. L * BPS_DENOMINATOR <= (A + L) * u BY DEF UtilizationBounded
<1>5. SUFFICES L' * BPS_DENOMINATOR <= (A' + L') * u' BY DEF UtilizationBounded
<1>6. CASE L' = 0
  <2>1. A' + L' \in Nat /\ u' \in Nat BY <1>2, <1>3
  <2>2. (A' + L') * u' \in Nat BY <2>1, NatProduct
  <2>3. L' * BPS_DENOMINATOR = 0 BY <1>6 DEF BPS_DENOMINATOR
  <2>. QED BY <2>2, <2>3
<1>7. CASE L' # 0
  <2>1. UNCHANGED limits BY <1>1, <1>7, ClockAndLimits DEF Idle
  <2>2. u' = u BY <2>1
  <2>3. CASE UNCHANGED pool BY <1>4, <2>2, <2>3
  <2>4. ASSUME NEW p \in Providers, NEW amount \in DepositAmounts, DepositLiquidity(p, amount)
        PROVE  FALSE
    BY <1>1, <1>7, <2>4, DepositLedger DEF DepositLiquidity, Idle
  <2>5. ASSUME NEW p \in Providers, NEW s \in 1 .. shares[p], WithdrawLiquidity(p, s)
        PROVE  FALSE
    BY <1>1, <1>7, <2>5, WithdrawLedger DEF WithdrawLiquidity, Idle
  <2>6. ASSUME NEW q \in Quotes, FillPoolQuote(q) PROVE L' * BPS_DENOMINATOR <= (A' + L') * u'
    <3>1. /\ L' = L + q.maxPayout /\ A' = A - q.maxPayout /\ q.maxPayout \in Nat
      BY <1>1, <2>6, FillLedger, QuoteTyped
    <3>2. L + q.maxPayout <= CalculateBpsLimit(A + L, u)
      BY <2>6 DEF FillPoolQuote, WithinLimits
    <3>3. A + L \in Nat /\ u \in Nat /\ L + q.maxPayout \in Nat
      BY <1>2, <1>3, <3>1
    <3>4. A' + L' = A + L BY <1>2, <3>1
    <3>5. (L + q.maxPayout) * BPS_DENOMINATOR <= (A + L) * u
      BY <3>2, <3>3, UtilizationAfterFill
    <3>. QED BY <2>2, <3>1, <3>4, <3>5
  <2>7. ASSUME NEW k \in Keys, NEW b \in Nat, NEW t \in Nat, NEW a \in Nat, Exit(k, b, t, a)
        PROVE  L' * BPS_DENOMINATOR <= (A' + L') * u'
    <3> DEFINE m == position[k].quote.maxPayout
    <3>1. L' = L - m /\ A' = A + a /\ m <= L BY <1>1, <2>7, ExitLedger
    <3>2. m \in Nat BY <1>1, <2>7, OpenPosition, QuoteTyped DEF Exit
    <3>. HIDE DEF A, L, u, m
    <3>. QED BY <1>2, <1>3, <1>4, <2>2, <3>1, <3>2, UtilizationAfterExit
  <2>. QED
    BY <1>1, <2>3, <2>4, <2>5, <2>6, <2>7, LedgerSteps DEF Quiet, Donate
<1>. QED BY <1>6, <1>7

(* The utilization cap holds from the fill on, whatever later exits,       *)
(* deposits, withdrawals and updates of the caps do.                       *)
THEOREM UtilizationHolds == Spec => []UtilizationBounded
<1>1. Init => UtilizationBounded
  <2>. SUFFICES ASSUME Init PROVE UtilizationBounded OBVIOUS
  <2>1. pool.lockedCollateral = 0 /\ pool.totalAssets = 0 BY DEF Init
  <2>2. limits.maxUtilizationBps \in Nat
    BY RiskAssumption DEF Init, Risk!Init, Risk!LimitsRecord
  <2>. QED BY <2>1, <2>2 DEF UtilizationBounded, BPS_DENOMINATOR
<1>. QED BY <1>1, NextUtilization, PoolTypeCorrect, PTL DEF Spec

(* Exits alone never empty a pool that has shares: the cap leaves assets   *)
(* that are not locked, and an exit takes none of those.                   *)
THEOREM TradingNeverWipesOutHolds == Spec => TradingNeverWipesOut
<1> DEFINE Kept == Worth > 0 /\ pool'.totalShares >= pool.totalShares => Worth' > 0
<1>1. TypeOK /\ TypeOK' /\ UtilizationBounded /\ [Next]_vars => Kept
  <2>. SUFFICES ASSUME TypeOK, TypeOK', UtilizationBounded, [Next]_vars,
                       Worth > 0, pool'.totalShares >= pool.totalShares
                PROVE  Worth' > 0
    OBVIOUS
  <2> DEFINE A == pool.totalAssets
             L == pool.lockedCollateral
             u == limits.maxUtilizationBps
  <2>1. AccountsTyped /\ AccountsTyped' /\ Risk!TypeOK BY DEF TypeOK
  <2>2. A \in Nat /\ L \in Nat /\ A' \in Nat /\ L' \in Nat /\ pool.totalShares \in Nat
    BY <2>1 DEF AccountsTyped, PoolTypeOK, U64
  <2>3. Worth = A + L /\ Worth' = A' + L' BY DEF Worth
  <2>4. CASE UNCHANGED pool BY <2>4, <2>3
  <2>5. ASSUME NEW p \in Providers, NEW amount \in DepositAmounts, DepositLiquidity(p, amount)
        PROVE  Worth' > 0
    BY <2>1, <2>2, <2>3, <2>5, DepositLedger
  <2>6. ASSUME NEW p \in Providers, NEW s \in 1 .. shares[p], WithdrawLiquidity(p, s)
        PROVE  FALSE
    BY <2>1, <2>2, <2>6, WithdrawLedger
  <2>7. ASSUME NEW q \in Quotes, FillPoolQuote(q) PROVE Worth' > 0
    BY <2>1, <2>2, <2>3, <2>7, FillLedger, QuoteTyped
  <2>8. ASSUME NEW k \in Keys, NEW b \in Nat, NEW t \in Nat, NEW a \in Nat, Exit(k, b, t, a)
        PROVE  Worth' > 0
    <3>1. A' = A + a BY <2>1, <2>8, ExitLedger
    <3>2. u \in Nat /\ u <= 8000
      BY <2>1, CapRange DEF Risk!TypeOK
    <3>3. L * 10000 <= (A + L) * u BY DEF UtilizationBounded, BPS_DENOMINATOR
    <3>4. A > 0
      <4>. HIDE DEF A, L, u
      <4>1. SUFFICES ASSUME A = 0 PROVE FALSE BY <2>2
      <4>2. L > 0 BY <2>2, <2>3, <4>1
      <4>3. L * u <= L * 8000 BY <2>2, <3>2, SMT
      <4>4. L * 10000 <= L * u BY <2>2, <3>3, <4>1
      <4>5. L * u \in Int BY <2>2, <3>2, SMT
      <4>. QED BY <2>2, <4>2, <4>3, <4>4, <4>5
    <3>. QED BY <2>2, <2>3, <3>1, <3>4
  <2>. QED BY <2>1, <2>4, <2>5, <2>6, <2>7, <2>8, LedgerSteps DEF Quiet, Donate
<1>. QED BY <1>1, UtilizationHolds, PoolTypeCorrect, PTL DEF Spec, TradingNeverWipesOut

-----------------------------------------------------------------------------
(* Backing.                                                                *)
LEMMA InitBacked == Init => LedgerIsBacked
<1>. SUFFICES ASSUME Init PROVE LedgerIsBacked OBVIOUS
<1>1. poolToken = pool.totalAssets + donated BY DEF Init
<1>2. \A k \in Keys : vault[k] = 0 /\ ~IsOpen(k) BY DEF Init, IsOpen, NoPosition
<1>. QED BY <1>1, <1>2 DEF LedgerIsBacked

(* Tokens and recorded assets move together, escrows and vaults too.       *)
LEMMA NextBacked == AccountsTyped /\ LedgerIsBacked /\ [Next]_vars => LedgerIsBacked'
<1>. SUFFICES ASSUME AccountsTyped, LedgerIsBacked, [Next]_vars PROVE LedgerIsBacked' OBVIOUS
<1>1. poolToken = pool.totalAssets + donated /\ poolToken \in Nat /\ donated \in Nat
  BY DEF LedgerIsBacked, AccountsTyped
<1>2. \A k \in Keys : vault[k] = IF IsOpen(k) THEN Escrow(position[k].quote) ELSE 0
  BY DEF LedgerIsBacked
<1>3. pool.totalAssets \in Nat BY PoolNumbers
<1>4. ASSUME UNCHANGED <<position, vault>>, poolToken' = pool'.totalAssets + donated'
      PROVE  LedgerIsBacked'
  BY <1>2, <1>4 DEF LedgerIsBacked, IsOpen
<1>5. CASE Quiet BY <1>1, <1>4, <1>5 DEF Quiet, positionVars, tokenVars
<1>6. ASSUME NEW p \in Providers, NEW amount \in DepositAmounts, DepositLiquidity(p, amount)
      PROVE  LedgerIsBacked'
  <2>1. UNCHANGED <<position, vault, donated>> /\ poolToken' = poolToken + amount
    BY <1>6 DEF DepositLiquidity, positionVars
  <2>2. pool'.totalAssets = pool.totalAssets + amount /\ amount \in Nat BY <1>6, DepositLedger
  <2>. QED BY <1>1, <1>3, <1>4, <2>1, <2>2
<1>7. ASSUME NEW p \in Providers, NEW s \in 1 .. shares[p], WithdrawLiquidity(p, s)
      PROVE  LedgerIsBacked'
  <2>1. UNCHANGED <<position, vault, donated>> /\ poolToken' = poolToken - AmountFor(s)
    BY <1>7 DEF WithdrawLiquidity, positionVars
  <2>2. pool'.totalAssets = pool.totalAssets - AmountFor(s) /\ AmountFor(s) \in Nat
    BY <1>7, WithdrawLedger
  <2>. QED BY <1>1, <1>3, <1>4, <2>1, <2>2
<1>8. ASSUME NEW w \in Wallets, Donate(w) PROVE LedgerIsBacked'
  BY <1>1, <1>3, <1>4, <1>8 DEF Donate, positionVars
<1>9. ASSUME NEW q \in Quotes, FillPoolQuote(q) PROVE LedgerIsBacked'
  <2>1. /\ position' = [position EXCEPT ![Key(q)] =
                          [open |-> TRUE, quote |-> q, feeBps |-> config.feeBps]]
        /\ vault' = [vault EXCEPT ![Key(q)] = Escrow(q)]
        /\ poolToken' = poolToken - q.maxPayout /\ UNCHANGED donated
    BY <1>9 DEF FillPoolQuote
  <2>2. pool'.totalAssets = pool.totalAssets - q.maxPayout /\ q.maxPayout \in Nat
    BY <1>9, FillLedger, QuoteTyped
  <2>3. poolToken' = pool'.totalAssets + donated' BY <1>1, <1>3, <2>1, <2>2
  <2>4. ASSUME NEW k \in Keys
        PROVE  vault'[k] = IF IsOpen(k)' THEN Escrow(position'[k].quote) ELSE 0
    BY <1>2, <2>1 DEF IsOpen, AccountsTyped
  <2>. QED BY <2>3, <2>4 DEF LedgerIsBacked
<1>10. ASSUME NEW k0 \in Keys, NEW b \in Nat, NEW t \in Nat, NEW a \in Nat, Exit(k0, b, t, a)
       PROVE  LedgerIsBacked'
  <2>1. /\ position' = [position EXCEPT ![k0] = NoPosition]
        /\ vault' = [vault EXCEPT ![k0] = 0]
        /\ poolToken' = poolToken + a /\ UNCHANGED donated
    BY <1>10 DEF Exit, PayOut
  <2>2. pool'.totalAssets = pool.totalAssets + a BY <1>10, ExitLedger
  <2>3. poolToken' = pool'.totalAssets + donated' BY <1>1, <1>3, <2>1, <2>2
  <2>4. ASSUME NEW k \in Keys
        PROVE  vault'[k] = IF IsOpen(k)' THEN Escrow(position'[k].quote) ELSE 0
    BY <1>2, <2>1 DEF IsOpen, NoPosition, AccountsTyped
  <2>. QED BY <2>3, <2>4 DEF LedgerIsBacked
<1>. QED BY <1>5, <1>6, <1>7, <1>8, <1>9, <1>10, LedgerSteps

(* The pool's account holds its recorded assets and the donations, and     *)
(* every vault exactly its position's escrow.                              *)
THEOREM LedgerIsBackedHolds == Spec => []LedgerIsBacked
BY InitBacked, NextBacked, AccountsCorrect, PTL DEF Spec

-----------------------------------------------------------------------------
(* No step but an exit lowers the worth of a share.                        *)
THEOREM SharesKeepTheirWorthHolds == Spec => SharesKeepTheirWorth
<1> DEFINE Kept == pool'.openPositions >= pool.openPositions
                     => (Worth + 1) * (pool'.totalShares + 1) <= (Worth' + 1) * (pool.totalShares + 1)
<1>1. AccountsTyped /\ AccountsTyped' /\ [Next]_vars => Kept
  <2>. SUFFICES ASSUME AccountsTyped, AccountsTyped', [Next]_vars,
                       pool'.openPositions >= pool.openPositions
                PROVE  (Worth + 1) * (pool'.totalShares + 1) <= (Worth' + 1) * (pool.totalShares + 1)
    OBVIOUS
  <2>1. /\ pool.totalShares \in Nat /\ pool.totalAssets \in Nat
        /\ pool.lockedCollateral \in Nat /\ pool.openPositions \in Nat
    BY PoolNumbers
  <2>2. Worth \in Nat BY <2>1 DEF Worth
  <2>3. ASSUME Worth' = Worth, pool'.totalShares = pool.totalShares
        PROVE  (Worth + 1) * (pool'.totalShares + 1) <= (Worth' + 1) * (pool.totalShares + 1)
    <3>1. (Worth + 1) * (pool.totalShares + 1) \in Nat BY <2>1, <2>2, NatProduct
    <3>. QED BY <2>3, <3>1
  <2>4. CASE UNCHANGED pool BY <2>3, <2>4 DEF Worth
  <2>5. ASSUME NEW p \in Providers, NEW amount \in DepositAmounts, DepositLiquidity(p, amount)
        PROVE  (Worth + 1) * (pool'.totalShares + 1) <= (Worth' + 1) * (pool.totalShares + 1)
    <3>1. /\ amount \in Nat
          /\ pool'.totalShares = pool.totalShares + SharesFor(amount)
          /\ pool'.totalAssets = pool.totalAssets + amount
          /\ pool'.lockedCollateral = pool.lockedCollateral
      BY <2>5, DepositLedger
    <3>2. pool.lockedCollateral = 0 BY <2>5 DEF DepositLiquidity, Idle
    <3>3. Worth = pool.totalAssets /\ Worth' = pool.totalAssets + amount
      BY <2>1, <3>1, <3>2 DEF Worth
    <3>4. (pool.totalAssets + 1) * (pool.totalShares + SharesFor(amount) + 1)
            <= (pool.totalAssets + amount + 1) * (pool.totalShares + 1)
      BY <2>1, <3>1, DepositKeepsShareWorth DEF SharesFor
    <3>. QED BY <3>1, <3>3, <3>4
  <2>6. ASSUME NEW p \in Providers, NEW s \in 1 .. shares[p], WithdrawLiquidity(p, s)
        PROVE  (Worth + 1) * (pool'.totalShares + 1) <= (Worth' + 1) * (pool.totalShares + 1)
    <3>1. /\ s \in Nat \ {0} /\ s <= pool.totalShares
          /\ pool'.totalShares = pool.totalShares - s
          /\ pool'.totalAssets = pool.totalAssets - AmountFor(s)
          /\ pool'.lockedCollateral = pool.lockedCollateral
      BY <2>6, WithdrawLedger
    <3>2. pool.lockedCollateral = 0 BY <2>6 DEF WithdrawLiquidity, Idle
    <3>3. s \in 0 .. pool.totalShares BY <2>1, <3>1
    <3>4. /\ AmountFor(s) \in 0 .. pool.totalAssets
          /\ (pool.totalAssets + 1) * (pool.totalShares - s + 1)
               <= (pool.totalAssets - AmountFor(s) + 1) * (pool.totalShares + 1)
      BY <2>1, <3>3, WithdrawKeepsShareWorth DEF AmountFor
    <3>5. Worth = pool.totalAssets /\ Worth' = pool.totalAssets - AmountFor(s)
      BY <2>1, <3>1, <3>2, <3>4 DEF Worth
    <3>. QED BY <3>1, <3>4, <3>5
  <2>7. ASSUME NEW q \in Quotes, FillPoolQuote(q)
        PROVE  (Worth + 1) * (pool'.totalShares + 1) <= (Worth' + 1) * (pool.totalShares + 1)
    BY <2>1, <2>3, <2>7, FillLedger, QuoteTyped DEF Worth
  <2>8. ASSUME NEW k \in Keys, NEW b \in Nat, NEW t \in Nat, NEW a \in Nat, Exit(k, b, t, a)
        PROVE  FALSE
    BY <2>1, <2>8, ExitLedger
  <2>. QED BY <2>4, <2>5, <2>6, <2>7, <2>8, LedgerSteps DEF Quiet, Donate
<1>. QED BY <1>1, AccountsCorrect, PTL DEF Spec, SharesKeepTheirWorth

(* A depositor gets what they paid for: only a deposit of their own adds   *)
(* to a provider's shares, and it prices them by the recorded assets.      *)
THEOREM DepositsKeepTheirValueHolds == Spec => DepositsKeepTheirValue
<1> DEFINE Fair(p) == shares'[p] > shares[p] =>
      wallet[p] - wallet'[p]
        <= WithdrawAmount(shares'[p] - shares[p], pool'.totalShares, pool'.totalAssets)
             + CeilDiv(pool.totalAssets + 1, pool'.totalShares + 1)
<1>1. AccountsTyped /\ [Next]_vars => \A p \in Providers : Fair(p)
  <2>. SUFFICES ASSUME AccountsTyped, [Next]_vars, NEW p \in Providers, shares'[p] > shares[p]
                PROVE  Fair(p)
    OBVIOUS
  <2>1. shares \in [Providers -> U64] /\ shares[p] \in Nat /\ p \in Wallets
        /\ wallet \in [Wallets -> Nat]
    BY DEF AccountsTyped, Wallets, U64
  <2>2. shares' # shares BY <2>1
  <2>3. ASSUME NEW r \in Providers, NEW amount \in DepositAmounts, DepositLiquidity(r, amount)
        PROVE  Fair(p)
    <3>1. /\ shares' = [shares EXCEPT ![r] = @ + SharesFor(amount)]
          /\ wallet' = [wallet EXCEPT ![r] = @ - amount]
      BY <2>3 DEF DepositLiquidity
    <3>2. r = p BY <2>1, <3>1
    <3>3. /\ amount \in Nat /\ SharesFor(amount) \in Nat
          /\ pool'.totalShares = pool.totalShares + SharesFor(amount)
          /\ pool'.totalAssets = pool.totalAssets + amount
          /\ pool.totalShares \in Nat /\ pool.totalAssets \in Nat
      BY <2>3, DepositLedger, PoolNumbers
    <3>4. shares'[p] - shares[p] = SharesFor(amount) /\ wallet[p] - wallet'[p] = amount
      <4>1. wallet[p] \in Nat BY <2>1
      <4>2. shares'[p] = shares[p] + SharesFor(amount) BY <2>1, <3>1, <3>2
      <4>3. wallet'[p] = wallet[p] - amount BY <2>1, <3>1, <3>2
      <4>. QED BY <2>1, <3>3, <4>1, <4>2, <4>3
    <3> DEFINE back == WithdrawAmount(SharesFor(amount), pool.totalShares + SharesFor(amount),
                                      pool.totalAssets + amount)
               price == CeilDiv(pool.totalAssets + 1, pool.totalShares + SharesFor(amount) + 1)
    <3>5. amount - back <= price
      BY <3>3, RoundTripLosesAtMostAShare DEF SharesFor
    <3>6. back \in Nat
      <4>1. /\ SharesFor(amount) * (pool.totalAssets + amount + 1) \in Nat
            /\ pool.totalShares + SharesFor(amount) + 1 \in Nat \ {0}
        BY <3>3, NatProduct
      <4>. QED BY <4>1, DivBounds DEF WithdrawAmount
    <3>7. price \in Nat
      <4>1. /\ pool.totalAssets + 1 \in Nat
            /\ pool.totalShares + SharesFor(amount) + 1 \in Nat \ {0}
        BY <3>3
      <4>. QED BY <4>1, CeilDivBounds
    <3>. HIDE DEF back, price
    <3>8. amount <= back + price BY <3>3, <3>5, <3>6, <3>7
    <3>. QED BY <3>3, <3>4, <3>8 DEF back, price
  <2>4. ASSUME NEW r \in Providers, NEW s \in 1 .. shares[r], WithdrawLiquidity(r, s)
        PROVE  FALSE
    <3>1. shares' = [shares EXCEPT ![r] = @ - s] BY <2>4 DEF WithdrawLiquidity
    <3>2. s \in Nat \ {0} BY <2>4, WithdrawLedger
    <3>3. shares'[p] = shares[p] \/ shares'[p] = shares[p] - s BY <2>1, <3>1
    <3>. QED BY <2>1, <3>2, <3>3
  <2>5. ASSUME UNCHANGED shares PROVE FALSE BY <2>2, <2>5
  <2>6. CASE Quiet BY <2>5, <2>6 DEF Quiet
  <2>7. ASSUME NEW w \in Wallets, Donate(w) PROVE FALSE BY <2>5, <2>7 DEF Donate
  <2>8. ASSUME NEW q \in Quotes, FillPoolQuote(q) PROVE FALSE BY <2>5, <2>8 DEF FillPoolQuote
  <2>9. ASSUME NEW k \in Keys, NEW b \in Nat, NEW t \in Nat, NEW a \in Nat, Exit(k, b, t, a)
        PROVE  FALSE
    BY <2>5, <2>9 DEF Exit, PayOut
  <2>. QED BY <2>3, <2>4, <2>6, <2>7, <2>8, <2>9, LedgerSteps
<1>. QED BY <1>1, AccountsCorrect, PTL DEF Spec, DepositsKeepTheirValue

-----------------------------------------------------------------------------
(* The steps as the positions see them.                                    *)
LEMMA PositionSteps ==
  ASSUME [Next]_vars
  PROVE  \/ UNCHANGED positionVars
         \/ \E q \in Quotes : FillPoolQuote(q)
         \/ \E k \in Keys : SettlePoolPosition(k) \/ RefundPoolPosition(k)
         \/ \E k \in Keys, b \in Buybacks : ClosePoolPosition(k, b)
BY QuietSteps DEF Quiet, DepositLiquidity, WithdrawLiquidity, Donate

(* What a fill does to the records of the position it opens.               *)
LEMMA FillRecords ==
  ASSUME AccountsTyped, NEW q \in Quotes, FillPoolQuote(q)
  PROVE  /\ Key(q) \in Keys /\ ~nonceRecord[Key(q)] /\ ~IsOpen(Key(q))
         /\ position'[Key(q)] = [open |-> TRUE, quote |-> q, feeBps |-> config.feeBps]
         /\ nonceRecord'[Key(q)]
         /\ \A k \in Keys \ {Key(q)} : position'[k] = position[k]
                                       /\ nonceRecord'[k] = nonceRecord[k]
         /\ fills'[q] = fills[q] + 1
         /\ \A r \in Quotes \ {q} : fills'[r] = fills[r]
<1>1. Key(q) \in Keys BY QuoteTyped
<1>2. /\ position' = [position EXCEPT ![Key(q)] =
                        [open |-> TRUE, quote |-> q, feeBps |-> config.feeBps]]
      /\ nonceRecord' = [nonceRecord EXCEPT ![Key(q)] = TRUE]
      /\ fills' = [fills EXCEPT ![q] = @ + 1]
      /\ ~nonceRecord[Key(q)] /\ ~IsOpen(Key(q))
  BY DEF FillPoolQuote
<1>3. /\ position \in [Keys -> PositionRecord \cup {NoPosition}]
      /\ nonceRecord \in [Keys -> BOOLEAN]
      /\ fills \in [Quotes -> Nat]
  BY DEF AccountsTyped
<1>. HIDE DEF Key
<1>. QED BY <1>1, <1>2, <1>3

(* And an exit to the records of the one it closes.                        *)
LEMMA ExitRecords ==
  ASSUME AccountsTyped, NEW k \in Keys, NEW toBuyer, NEW toTreasury, NEW toPool,
         PayOut(k, toBuyer, toTreasury, toPool)
  PROVE  /\ position'[k] = NoPosition
         /\ \A j \in Keys \ {k} : position'[j] = position[j]
         /\ wallet' = Credited(position[k].quote.buyer, toBuyer, toTreasury)
         /\ UNCHANGED <<now, outcome, fills>>
BY DEF PayOut, AccountsTyped, chainVars

-----------------------------------------------------------------------------
(* A quote that has been filled cannot be filled again: either it has      *)
(* expired, since its market has, or the record of its nonce still exists, *)
(* and the position under that nonce can only be the one it opened.        *)
FilledOnce(q) ==
  \/ fills[q] = 0
  \/ /\ fills[q] = 1
     /\ \/ now >= Expiry(q.market)
        \/ /\ nonceRecord[Key(q)]
           /\ IsOpen(Key(q)) => position[Key(q)].quote = q

AllFilledOnce == \A q \in Quotes : FilledOnce(q)

(* An exit that frees the nonce comes after the market's expiry.           *)
LEMMA FreedAfterExpiry ==
  ASSUME AccountsTyped, NEW k \in Keys, SettlePoolPosition(k) \/ RefundPoolPosition(k)
  PROVE  /\ IsOpen(k) /\ now >= Expiry(MarketOf(k))
         /\ nonceRecord' = [nonceRecord EXCEPT ![k] = FALSE]
         /\ position'[k] = NoPosition
         /\ \A j \in Keys \ {k} : position'[j] = position[j]
         /\ UNCHANGED <<now, outcome, fills>>
<1>1. now \in Nat BY DEF AccountsTyped, Chain!OutcomeTypeOK
<1>2. CASE SettlePoolPosition(k)
  BY <1>2, ExitRecords DEF SettlePoolPosition, SettleTimely
<1>3. CASE RefundPoolPosition(k)
  <2>1. /\ IsOpen(k) /\ now > SettlementDeadline(MarketOf(k))
        /\ nonceRecord' = [nonceRecord EXCEPT ![k] = FALSE]
    BY <1>3 DEF RefundPoolPosition, RefundTimely
  <2>2. MarketOf(k) \in Markets BY <2>1, OpenPosition
  <2>3. now >= Expiry(MarketOf(k)) BY <1>1, <2>1, <2>2, Instants
  <2>. QED BY <1>3, <2>1, <2>3, ExitRecords DEF RefundPoolPosition
<1>. QED BY <1>2, <1>3

(* Every step keeps it: a fill needs a free nonce before the market's      *)
(* expiry.                                                                 *)
LEMMA NextFilledOnce ==
  AccountsTyped /\ AllFilledOnce /\ [Next]_vars => AllFilledOnce'
<1>. SUFFICES ASSUME AccountsTyped, AllFilledOnce, [Next]_vars, NEW q \in Quotes
              PROVE  FilledOnce(q)'
  BY DEF AllFilledOnce
<1> DEFINE k == Key(q)
<1>1. k \in Keys /\ q.market \in Markets BY QuoteTyped
<1>2. FilledOnce(q) BY DEF AllFilledOnce
<1>3. now \in Nat /\ now' \in Nat /\ now <= now' BY ClockAndLimits
<1>4. Expiry(q.market) \in Nat BY <1>1, Instants
<1>5. ASSUME fills'[q] = fills[q],
             now < Expiry(q.market) =>
               \/ nonceRecord'[k] = nonceRecord[k] /\ position'[k] = position[k]
               \/ nonceRecord'[k] = nonceRecord[k] /\ ~IsOpen(k)'
               \/ ~nonceRecord[k]
               \/ IsOpen(k) /\ position[k].quote # q
      PROVE  FilledOnce(q)'
  BY <1>2, <1>3, <1>4, <1>5 DEF FilledOnce, IsOpen
<1>6. CASE UNCHANGED positionVars BY <1>5, <1>6 DEF positionVars
<1>7. ASSUME NEW r \in Quotes, FillPoolQuote(r) PROVE FilledOnce(q)'
  <2>0. /\ ~nonceRecord[Key(r)]
        /\ position'[Key(r)] = [open |-> TRUE, quote |-> r, feeBps |-> config.feeBps]
        /\ nonceRecord'[Key(r)]
        /\ \A i \in Keys \ {Key(r)} : position'[i] = position[i]
                                      /\ nonceRecord'[i] = nonceRecord[i]
        /\ fills'[r] = fills[r] + 1
        /\ \A s \in Quotes \ {r} : fills'[s] = fills[s]
    BY <1>7, FillRecords
  <2>1. CASE r = q
    <3>1. now < Expiry(q.market) BY <1>7, <2>1 DEF FillPoolQuote, QuoteTimely
    <3>2. ~nonceRecord[k] BY <2>0, <2>1
    <3>3. fills[q] = 0 BY <1>2, <1>3, <1>4, <3>1, <3>2 DEF FilledOnce
    <3>4. fills'[q] = 1 BY <2>0, <2>1, <3>3
    <3>5. nonceRecord'[k] BY <2>0, <2>1
    <3>6. position'[k].quote = q BY <2>0, <2>1
    <3>. QED BY <3>4, <3>5, <3>6 DEF FilledOnce
  <2>2. CASE r # q /\ Key(r) = k
    <3>1. ~nonceRecord[k] BY <2>0, <2>2
    <3>2. fills'[q] = fills[q] BY <2>0, <2>2
    <3>. QED BY <1>5, <3>1, <3>2
  <2>3. CASE r # q /\ Key(r) # k
    <3>1. k \in Keys \ {Key(r)} BY <1>1, <2>3
    <3>2. nonceRecord'[k] = nonceRecord[k] /\ position'[k] = position[k] BY <2>0, <3>1
    <3>3. fills'[q] = fills[q] BY <2>0, <2>3
    <3>. QED BY <1>5, <3>2, <3>3
  <2>. QED BY <2>1, <2>2, <2>3
<1>8. ASSUME NEW j \in Keys, SettlePoolPosition(j) \/ RefundPoolPosition(j)
      PROVE  FilledOnce(q)'
  <2>1. /\ IsOpen(j) /\ now >= Expiry(MarketOf(j))
        /\ nonceRecord' = [nonceRecord EXCEPT ![j] = FALSE]
        /\ \A i \in Keys \ {j} : position'[i] = position[i]
        /\ fills' = fills
    BY <1>8, FreedAfterExpiry
  <2>2. CASE j = k
    <3>1. position[k].quote = q => now >= Expiry(q.market) BY <2>1, <2>2 DEF MarketOf
    <3>2. now < Expiry(q.market) => IsOpen(k) /\ position[k].quote # q
      BY <1>3, <1>4, <2>1, <2>2, <3>1
    <3>. QED BY <1>5, <2>1, <3>2
  <2>3. CASE j # k
    <3>1. nonceRecord'[k] = nonceRecord[k] /\ position'[k] = position[k]
      BY <1>1, <2>1, <2>3 DEF AccountsTyped
    <3>. QED BY <1>5, <2>1, <3>1
  <2>. QED BY <2>2, <2>3
<1>9. ASSUME NEW j \in Keys, NEW b \in Buybacks, ClosePoolPosition(j, b) PROVE FilledOnce(q)'
  <2>1. /\ nonceRecord' = nonceRecord /\ fills' = fills
        /\ position'[j] = NoPosition
        /\ \A i \in Keys \ {j} : position'[i] = position[i]
    BY <1>9, ExitRecords DEF ClosePoolPosition, NonceAfterEarlyClose
  <2>2. CASE j = k BY <1>5, <2>1, <2>2 DEF IsOpen, NoPosition
  <2>3. CASE j # k BY <1>1, <1>5, <2>1, <2>3
  <2>. QED BY <2>2, <2>3
<1>. QED BY <1>6, <1>7, <1>8, <1>9, PositionSteps

(* A signed quote is filled at most once.                                  *)
THEOREM QuoteFilledOnceHolds == Spec => []QuoteFilledOnce
<1>1. Init => AllFilledOnce
  BY DEF Init, AllFilledOnce, FilledOnce
<1>2. AccountsTyped /\ AllFilledOnce => QuoteFilledOnce
  BY DEF AllFilledOnce, FilledOnce, QuoteFilledOnce
<1>. QED BY <1>1, <1>2, NextFilledOnce, AccountsCorrect, PTL DEF Spec

-----------------------------------------------------------------------------
(* The fee an exit pays the treasury follows the rate the position was     *)
(* filled at.                                                              *)
THEOREM FeeFixedAtFillHolds == Spec => FeeFixedAtFill
<1> DEFINE Fixed(k) ==
      IsOpen(k) /\ ~(IsOpen(k))' /\ position[k].quote.buyer # Treasury
       => wallet'[Treasury] - wallet[Treasury] \in
            {0, CalculateFee(position[k].quote.premium, position[k].feeBps),
             CalculateFee(PayoutOf(k), position[k].feeBps)}
<1>1. AccountsTyped /\ [Next]_vars => \A k \in Keys : Fixed(k)
  <2>. SUFFICES ASSUME AccountsTyped, [Next]_vars, NEW k \in Keys,
                       IsOpen(k), ~(IsOpen(k))', position[k].quote.buyer # Treasury
                PROVE  wallet'[Treasury] - wallet[Treasury] \in
                         {0, CalculateFee(position[k].quote.premium, position[k].feeBps),
                          CalculateFee(PayoutOf(k), position[k].feeBps)}
    OBVIOUS
  <2>1. ASSUME NEW toBuyer \in Nat, NEW toTreasury \in Nat, NEW toPool \in Nat,
               Exit(k, toBuyer, toTreasury, toPool)
        PROVE  wallet'[Treasury] - wallet[Treasury] = toTreasury
    <3>1. wallet' = Credited(position[k].quote.buyer, toBuyer, toTreasury)
      BY <2>1, ExitRecords DEF Exit
    <3>2. Treasury \in Wallets /\ wallet[Treasury] \in Nat BY DEF Wallets, AccountsTyped
    <3>. QED BY <3>1, <3>2 DEF Credited
  <2>2. CASE SettlePoolPosition(k) BY <2>1, <2>2, SettleExits
  <2>3. CASE RefundPoolPosition(k) BY <2>1, <2>3, RefundExits
  <2>4. CASE \E b \in Buybacks : ClosePoolPosition(k, b) BY <2>1, <2>4, CloseExits
  <2>5. ASSUME NEW j \in Keys, NEW b \in Nat, NEW t \in Nat, NEW a \in Nat, Exit(j, b, t, a)
        PROVE  j = k
    BY <2>5, ExitRecords DEF Exit, IsOpen
  <2>6. ASSUME NEW q \in Quotes, FillPoolQuote(q) PROVE FALSE
    BY <2>6, FillRecords DEF IsOpen
  <2>7. ~ UNCHANGED positionVars BY DEF positionVars, IsOpen
  <2>8. ASSUME NEW j \in Keys, SettlePoolPosition(j) \/ RefundPoolPosition(j) PROVE j = k
    BY <2>5, <2>8, SettleExits, RefundExits
  <2>9. ASSUME NEW j \in Keys, NEW b \in Buybacks, ClosePoolPosition(j, b) PROVE j = k
    BY <2>5, <2>9, CloseExits
  <2>. QED BY <2>2, <2>3, <2>4, <2>6, <2>7, <2>8, <2>9, PositionSteps
<1>. QED BY <1>1, AccountsCorrect, PTL DEF Spec, FeeFixedAtFill

-----------------------------------------------------------------------------
(* The counters of open positions, and the market behind each of them.     *)
LEMMA KeysFinite ==
  /\ IsFiniteSet(Keys)
  /\ \A S \in SUBSET Keys : IsFiniteSet(S) /\ Cardinality(S) \in Nat
<1> DEFINE f == [q \in Quotes |-> Key(q)]
<1>1. f \in Surjection(Quotes, Keys) BY DEF Surjection, Keys
<1>2. IsFiniteSet(Quotes) OBVIOUS
<1>3. IsFiniteSet(Keys) BY <1>1, <1>2, FS_Surjection
<1>. QED BY <1>3, FS_Subset, FS_CardinalityType

PositionsCounted ==
  /\ pool.openPositions = Cardinality(OpenKeys)
  /\ \A m \in Markets : poolMarket[m].openPositions = Cardinality(OpenIn(m))

Served == PositionsCounted /\ OpenPositionsHaveMarkets

(* Sets of open positions are sets of keys.                                *)
LEMMA OpenSets ==
  /\ OpenKeys \in SUBSET Keys /\ OpenKeys' \in SUBSET Keys
  /\ \A m \in Markets : OpenIn(m) \in SUBSET Keys /\ OpenIn(m)' \in SUBSET Keys
BY DEF OpenKeys, OpenIn

(* No position is open at first.                                           *)
LEMMA InitServed == Init => Served
<1>. SUFFICES ASSUME Init PROVE Served OBVIOUS
<1>1. OpenKeys = {} BY DEF Init, OpenKeys, IsOpen, NoPosition
<1>2. \A m \in Markets : OpenIn(m) = {} BY <1>1 DEF OpenIn
<1>3. pool.openPositions = 0 /\ \A m \in Markets : poolMarket[m].openPositions = 0
  BY DEF Init, NoBinding
<1>4. Cardinality({}) = 0 BY FS_EmptySet
<1>. QED
  BY <1>1, <1>2, <1>3, <1>4 DEF Served, PositionsCounted, OpenPositionsHaveMarkets

(* A step that touches no position and no counter, and takes no market or  *)
(* binding away.                                                           *)
LEMMA ServedIdle ==
  ASSUME Served, UNCHANGED position, pool'.openPositions = pool.openPositions,
         \A m \in Markets : poolMarket'[m].openPositions = poolMarket[m].openPositions,
         \A k \in OpenKeys : Chain!Exists(MarketOf(k))' /\ poolMarket'[MarketOf(k)].exists
  PROVE  Served'
<1>1. OpenKeys' = OpenKeys BY DEF OpenKeys, IsOpen
<1>2. \A m \in Markets : OpenIn(m)' = OpenIn(m) BY <1>1 DEF OpenIn, MarketOf
<1>3. PositionsCounted' BY <1>1, <1>2 DEF Served, PositionsCounted
<1>4. OpenPositionsHaveMarkets' BY <1>1 DEF OpenPositionsHaveMarkets, MarketOf
<1>. QED BY <1>3, <1>4 DEF Served

(* A fill adds its position to the set and to the counters, in a live      *)
(* market.                                                                 *)
LEMMA ServedFill ==
  ASSUME AccountsTyped, Served, NEW q \in Quotes, FillPoolQuote(q)
  PROVE  Served'
<1> DEFINE k == Key(q)
<1>1. /\ k \in Keys /\ ~IsOpen(k) /\ q.market \in Markets
      /\ position'[k] = [open |-> TRUE, quote |-> q, feeBps |-> config.feeBps]
      /\ \A j \in Keys \ {k} : position'[j] = position[j]
  BY FillRecords, QuoteTyped
<1>2. /\ poolMarket' = [poolMarket EXCEPT ![q.market].openPositions = @ + 1]
      /\ Chain!Exists(q.market) /\ poolMarket[q.market].exists
      /\ UNCHANGED outcome
  BY DEF FillPoolQuote, chainVars
<1>3. pool'.openPositions = pool.openPositions + 1 BY FillLedger
<1>. HIDE DEF k
<1>4. IsOpen(k)' /\ MarketOf(k)' = q.market BY <1>1 DEF IsOpen, MarketOf
<1>5. \A j \in Keys \ {k} : IsOpen(j)' = IsOpen(j) /\ MarketOf(j)' = MarketOf(j)
  BY <1>1 DEF IsOpen, MarketOf
<1>6. OpenKeys' = OpenKeys \cup {k} BY <1>1, <1>4, <1>5 DEF OpenKeys
<1>7. k \notin OpenKeys BY <1>1 DEF OpenKeys
<1>8. OpenIn(q.market)' = OpenIn(q.market) \cup {k} /\ k \notin OpenIn(q.market)
  BY <1>4, <1>5, <1>6, <1>7 DEF OpenIn, OpenKeys
<1>9. \A m \in Markets \ {q.market} : OpenIn(m)' = OpenIn(m)
  BY <1>4, <1>5, <1>6, <1>7 DEF OpenIn, OpenKeys
<1>10. /\ poolMarket'[q.market].openPositions = poolMarket[q.market].openPositions + 1
       /\ \A m \in Markets \ {q.market} : poolMarket'[m] = poolMarket[m]
       /\ \A m \in Markets : poolMarket'[m].exists = poolMarket[m].exists
  BY <1>1, <1>2 DEF AccountsTyped, BindingRecord
<1>11. /\ Cardinality(OpenKeys \cup {k}) = Cardinality(OpenKeys) + 1
       /\ Cardinality(OpenIn(q.market) \cup {k}) = Cardinality(OpenIn(q.market)) + 1
  BY <1>1, <1>7, <1>8, OpenSets, KeysFinite, FS_AddElement
<1>12. PositionsCounted'
  <2>1. pool'.openPositions = Cardinality(OpenKeys')
    BY <1>3, <1>6, <1>11 DEF Served, PositionsCounted
  <2>2. ASSUME NEW m \in Markets PROVE poolMarket'[m].openPositions = Cardinality(OpenIn(m)')
    <3>1. poolMarket[m].openPositions = Cardinality(OpenIn(m)) BY DEF Served, PositionsCounted
    <3>2. CASE m = q.market BY <1>8, <1>10, <1>11, <3>1, <3>2
    <3>3. CASE m # q.market BY <1>9, <1>10, <3>1, <3>3
    <3>. QED BY <3>2, <3>3
  <2>. QED BY <2>1, <2>2 DEF PositionsCounted
<1>13. OpenPositionsHaveMarkets'
  <2>1. ASSUME NEW j \in OpenKeys' PROVE (Chain!Exists(MarketOf(j)) /\ poolMarket[MarketOf(j)].exists)'
    <3>1. CASE j = k BY <1>1, <1>2, <1>4, <1>10, <3>1 DEF Chain!Exists
    <3>2. CASE j # k
      <4>1. j \in OpenKeys /\ MarketOf(j)' = MarketOf(j)
        BY <1>5, <1>6, <2>1, <3>2 DEF OpenKeys
      <4>2. MarketOf(j) \in Markets BY <4>1, OpenPosition DEF OpenKeys
      <4>. QED
        BY <1>2, <1>10, <4>1, <4>2 DEF Served, OpenPositionsHaveMarkets, Chain!Exists
    <3>. QED BY <3>1, <3>2
  <2>. QED BY <2>1 DEF OpenPositionsHaveMarkets
<1>. QED BY <1>12, <1>13 DEF Served

(* An exit takes it out of both.                                           *)
LEMMA ServedExit ==
  ASSUME AccountsTyped, Served, NEW k \in Keys, NEW b \in Nat, NEW t \in Nat, NEW a \in Nat,
         Exit(k, b, t, a)
  PROVE  Served'
<1>. PICK m0 \in Markets : m0 = MarketOf(k) BY OpenPosition DEF Exit
<1>1. /\ IsOpen(k) /\ m0 \in Markets
      /\ position'[k] = NoPosition
      /\ \A j \in Keys \ {k} : position'[j] = position[j]
      /\ UNCHANGED outcome
  BY ExitRecords, OpenPosition DEF Exit
<1>2. poolMarket' = [poolMarket EXCEPT ![m0].openPositions = @ - 1]
  BY DEF Exit, PayOut, MarketOf
<1>3. pool'.openPositions = pool.openPositions - 1 BY ExitLedger
<1>4. ~IsOpen(k)' BY <1>1 DEF IsOpen, NoPosition
<1>5. \A j \in Keys \ {k} : IsOpen(j)' = IsOpen(j) /\ MarketOf(j)' = MarketOf(j)
  BY <1>1 DEF IsOpen, MarketOf
<1>6. OpenKeys' = OpenKeys \ {k} /\ k \in OpenKeys BY <1>1, <1>4, <1>5 DEF OpenKeys
<1>7. OpenIn(m0)' = OpenIn(m0) \ {k} /\ k \in OpenIn(m0)
  BY <1>5, <1>6 DEF OpenIn, OpenKeys
<1>8. \A m \in Markets \ {m0} : OpenIn(m)' = OpenIn(m)
  BY <1>5, <1>6 DEF OpenIn, OpenKeys
<1>9. /\ poolMarket'[m0].openPositions = poolMarket[m0].openPositions - 1
      /\ \A m \in Markets \ {m0} : poolMarket'[m] = poolMarket[m]
      /\ \A m \in Markets : poolMarket'[m].exists = poolMarket[m].exists
  BY <1>1, <1>2 DEF AccountsTyped, BindingRecord
<1>10. /\ Cardinality(OpenKeys \ {k}) = Cardinality(OpenKeys) - 1
       /\ Cardinality(OpenIn(m0) \ {k}) = Cardinality(OpenIn(m0)) - 1
  BY <1>1, <1>6, <1>7, OpenSets, KeysFinite, FS_RemoveElement
<1>11. PositionsCounted'
  <2>1. pool'.openPositions = Cardinality(OpenKeys')
    BY <1>3, <1>6, <1>10 DEF Served, PositionsCounted
  <2>2. ASSUME NEW m \in Markets PROVE poolMarket'[m].openPositions = Cardinality(OpenIn(m)')
    <3>1. poolMarket[m].openPositions = Cardinality(OpenIn(m)) BY DEF Served, PositionsCounted
    <3>2. CASE m = m0 BY <1>7, <1>9, <1>10, <3>1, <3>2
    <3>3. CASE m # m0 BY <1>8, <1>9, <3>1, <3>3
    <3>. QED BY <3>2, <3>3
  <2>. QED BY <2>1, <2>2 DEF PositionsCounted
<1>12. OpenPositionsHaveMarkets'
  <2>1. ASSUME NEW j \in OpenKeys' PROVE (Chain!Exists(MarketOf(j)) /\ poolMarket[MarketOf(j)].exists)'
    <3>1. j \in OpenKeys /\ MarketOf(j)' = MarketOf(j) BY <1>5, <1>6 DEF OpenKeys
    <3>2. MarketOf(j) \in Markets BY <3>1, OpenPosition DEF OpenKeys
    <3>. QED BY <1>1, <1>9, <3>1, <3>2 DEF Served, OpenPositionsHaveMarkets, Chain!Exists
  <2>. QED BY <2>1 DEF OpenPositionsHaveMarkets
<1>. QED BY <1>11, <1>12 DEF Served

(* A market with a binding at zero has no open position to strand.         *)
LEMMA NextServed == AccountsTyped /\ Served /\ [Next]_vars => Served'
<1>. SUFFICES ASSUME AccountsTyped, Served, [Next]_vars PROVE Served' OBVIOUS
<1>0. /\ \A k \in OpenKeys : MarketOf(k) \in Markets /\ Chain!Exists(MarketOf(k))
                             /\ poolMarket[MarketOf(k)].exists
      /\ outcome \in [Markets -> Chain!Outcomes]
      /\ poolMarket \in [Markets -> BindingRecord]
  BY OpenPosition DEF Served, OpenPositionsHaveMarkets, OpenKeys, AccountsTyped,
                      Chain!OutcomeTypeOK
<1>1. ASSUME UNCHANGED <<outcome, poolMarket, position, pool>> PROVE Served'
  <2>1. \A k \in OpenKeys : Chain!Exists(MarketOf(k))' /\ poolMarket'[MarketOf(k)].exists
    BY <1>0, <1>1 DEF Chain!Exists, MarketOf
  <2>. QED BY <1>1, <2>1, ServedIdle
<1>2. CASE \E f \in FeeChoices, e \in EligibilityChoices : UpdateConfig(f, e)
  BY <1>1, <1>2 DEF UpdateConfig, chainVars, positionVars
<1>3. CASE \E b \in Switches : SetPause(b)
  BY <1>1, <1>3 DEF SetPause, chainVars, positionVars
<1>4. CASE \E b \in Buyers, e \in BOOLEAN, t \in EligibleUntil : SetEligibility(b, e, t)
  BY <1>1, <1>4 DEF SetEligibility, chainVars, positionVars
<1>5. ASSUME NEW m \in Markets, CreateMarket(m) PROVE Served'
  <2>1. /\ outcome' = [outcome EXCEPT ![m] = Chain!Pending]
        /\ UNCHANGED <<poolMarket, position, pool>>
    BY <1>5 DEF CreateMarket, Chain!Open, positionVars
  <2>2. \A n \in Markets : Chain!Exists(n) => Chain!Exists(n)'
    BY <1>0, <2>1 DEF Chain!Exists, Chain!Pending
  <2>3. \A k \in OpenKeys : Chain!Exists(MarketOf(k))'
    BY <1>0, <2>1, <2>2 DEF MarketOf, Chain!Exists
  <2>. QED BY <1>0, <2>1, <2>3, ServedIdle
<1>6. ASSUME NEW m \in Markets, CloseSettledMarket(m) PROVE Served'
  <2>1. /\ outcome' = [outcome EXCEPT ![m] = Chain!Closed]
        /\ poolMarket' = [poolMarket EXCEPT ![m] = NoBinding]
        /\ poolMarket[m].openPositions = 0
        /\ UNCHANGED <<position, pool>>
    BY <1>6 DEF CloseSettledMarket, BindingDone, Chain!Close, positionVars
  <2>2. OpenIn(m) = {}
    BY <2>1, OpenSets, KeysFinite, FS_EmptySet DEF Served, PositionsCounted
  <2>3. \A k \in OpenKeys : MarketOf(k) # m BY <2>2 DEF OpenIn
  <2>4. \A k \in OpenKeys : Chain!Exists(MarketOf(k))' /\ poolMarket'[MarketOf(k)].exists
    BY <1>0, <2>1, <2>3 DEF Chain!Exists, MarketOf
  <2>5. \A n \in Markets : poolMarket'[n].openPositions = poolMarket[n].openPositions
    BY <1>0, <2>1 DEF NoBinding
  <2>. QED BY <2>1, <2>4, <2>5, ServedIdle
<1>7. CASE \E m \in Markets, b \in Switches : SetMarketEnabled(m, b)
  BY <1>1, <1>7 DEF SetMarketEnabled, chainVars, positionVars
<1>8. ASSUME NEW m \in Markets, NEW p \in Prices, FinalizeOracle(m, p) PROVE Served'
  <2>1. /\ outcome' = [outcome EXCEPT ![m] = Chain!Final(p)]
        /\ UNCHANGED <<poolMarket, position, pool>>
    BY <1>8 DEF FinalizeOracle, Chain!Finalize, positionVars
  <2>2. \A n \in Markets : Chain!Exists(n) => Chain!Exists(n)'
    BY <1>0, <2>1 DEF Chain!Exists, Chain!Final
  <2>3. \A k \in OpenKeys : Chain!Exists(MarketOf(k))'
    BY <1>0, <2>1, <2>2 DEF MarketOf, Chain!Exists
  <2>. QED BY <1>0, <2>1, <2>3, ServedIdle
<1>9. ASSUME NEW m \in Markets, NEW c \in Cutoffs, NEW e \in BOOLEAN, SetLiquidityPoolMarket(m, c, e)
      PROVE  Served'
  <2>1. /\ poolMarket' = [poolMarket EXCEPT ![m] =
             [exists |-> TRUE, enabled |-> e, lastTradeAt |-> c, openPositions |-> @.openPositions]]
        /\ UNCHANGED <<outcome, position, pool>>
    BY <1>9 DEF SetLiquidityPoolMarket, chainVars, positionVars
  <2>2. \A n \in Markets : /\ poolMarket'[n].openPositions = poolMarket[n].openPositions
                           /\ poolMarket[n].exists => poolMarket'[n].exists
    BY <1>0, <2>1 DEF BindingRecord
  <2>3. \A k \in OpenKeys : Chain!Exists(MarketOf(k))' /\ poolMarket'[MarketOf(k)].exists
    BY <1>0, <2>1, <2>2 DEF Chain!Exists, MarketOf
  <2>. QED BY <2>1, <2>2, <2>3, ServedIdle
<1>10. CASE ConfigureRisk
  BY <1>1, <1>10 DEF ConfigureRisk, positionVars
<1>11. ASSUME UNCHANGED <<outcome, poolMarket, position>>, pool'.openPositions = pool.openPositions
       PROVE  Served'
  <2>1. \A k \in OpenKeys : Chain!Exists(MarketOf(k))' /\ poolMarket'[MarketOf(k)].exists
    BY <1>0, <1>11 DEF Chain!Exists, MarketOf
  <2>. QED BY <1>11, <2>1, ServedIdle
<1>12. ASSUME NEW p \in Providers, NEW amount \in DepositAmounts, DepositLiquidity(p, amount)
       PROVE  Served'
  BY <1>11, <1>12, DepositLedger DEF DepositLiquidity, chainVars, positionVars
<1>13. ASSUME NEW p \in Providers, NEW s \in 1 .. shares[p], WithdrawLiquidity(p, s)
       PROVE  Served'
  BY <1>11, <1>13, WithdrawLedger DEF WithdrawLiquidity, chainVars, positionVars
<1>14. CASE \E w \in Wallets : Donate(w)
  BY <1>1, <1>14 DEF Donate, chainVars, positionVars
<1>15. ASSUME NEW q \in Quotes, FillPoolQuote(q) PROVE Served'
  BY <1>15, ServedFill
<1>16. ASSUME NEW k \in Keys, SettlePoolPosition(k) \/ RefundPoolPosition(k) PROVE Served'
  BY <1>16, SettleExits, RefundExits, ServedExit
<1>17. ASSUME NEW k \in Keys, NEW b \in Buybacks, ClosePoolPosition(k, b) PROVE Served'
  BY <1>17, CloseExits, ServedExit
<1>18. CASE Tick
  BY <1>1, <1>18 DEF Tick, Chain!Tick, positionVars
<1>19. CASE UNCHANGED vars
  BY <1>1, <1>19 DEF vars, chainVars, positionVars
<1>. QED
  BY <1>2, <1>3, <1>4, <1>5, <1>6, <1>7, <1>8, <1>9, <1>10, <1>12, <1>13, <1>14, <1>15,
     <1>16, <1>17, <1>18, <1>19 DEF Next

(* close_settled_market never strands an escrow.                           *)
THEOREM OpenPositionsHaveMarketsHolds == Spec => []OpenPositionsHaveMarkets
<1>1. Served => OpenPositionsHaveMarkets BY DEF Served
<1>. QED BY <1>1, InitServed, NextServed, AccountsCorrect, PTL DEF Spec

-----------------------------------------------------------------------------
(* What adds up.  The accounts that hold tokens are finitely many.         *)
LEMMA FiniteOwners ==
  /\ IsFiniteSet(Wallets) /\ IsFiniteSet(Providers)
  /\ Buyers \subseteq Wallets /\ Providers \subseteq Wallets /\ Treasury \in Wallets
<1>1. Buyers \subseteq Wallets /\ Providers \subseteq Wallets /\ Treasury \in Wallets
  BY DEF Wallets
<1>2. IsFiniteSet(Wallets) OBVIOUS
<1>. QED BY <1>1, <1>2, FS_Subset

(* The three sums are natural numbers.                                     *)
LEMMA SumsOfAccounts ==
  ASSUME AccountsTyped
  PROVE  /\ SumFunction(vault) \in Nat /\ SumFunction(wallet) \in Nat
         /\ SumFunction(shares) \in Nat /\ poolToken \in Nat
<1>1. /\ vault \in [Keys -> Nat] /\ wallet \in [Wallets -> Nat]
      /\ shares \in [Providers -> Nat] /\ poolToken \in Nat
  BY DEF AccountsTyped, U64
<1>. QED BY <1>1, SumTyped, FiniteOwners, KeysFinite

(* An account that changes changes the sum of its kind by as much.         *)
LEMMA WalletMoved ==
  ASSUME AccountsTyped, AccountsTyped', NEW w \in Wallets,
         \A y \in Wallets \ {w} : wallet'[y] = wallet[y]
  PROVE  SumFunction(wallet') = SumFunction(wallet) - wallet[w] + wallet'[w]
<1>1. wallet \in [Wallets -> Nat] /\ wallet' \in [Wallets -> Nat] /\ IsFiniteSet(Wallets)
  BY FiniteOwners DEF AccountsTyped
<1>. QED BY <1>1, SumChanged

LEMMA SharesMoved ==
  ASSUME AccountsTyped, AccountsTyped', NEW p \in Providers,
         \A y \in Providers \ {p} : shares'[y] = shares[y]
  PROVE  SumFunction(shares') = SumFunction(shares) - shares[p] + shares'[p]
<1>1. shares \in [Providers -> Nat] /\ shares' \in [Providers -> Nat] /\ IsFiniteSet(Providers)
  BY FiniteOwners DEF AccountsTyped, U64
<1>. QED BY <1>1, SumChanged

LEMMA VaultMoved ==
  ASSUME AccountsTyped, AccountsTyped', NEW k \in Keys,
         \A y \in Keys \ {k} : vault'[y] = vault[y]
  PROVE  SumFunction(vault') = SumFunction(vault) - vault[k] + vault'[k]
<1>1. vault \in [Keys -> Nat] /\ vault' \in [Keys -> Nat] /\ IsFiniteSet(Keys)
  BY KeysFinite DEF AccountsTyped, U64
<1>. QED BY <1>1, SumChanged

(* Both amounts of an exit arrive, even when one account takes both.       *)
LEMMA CreditedInFull ==
  ASSUME AccountsTyped, NEW b \in Wallets, NEW x \in Nat, NEW y \in Nat
  PROVE  SumFunction(Credited(b, x, y)) = SumFunction(wallet) + x + y
<1> DEFINE g == [w \in Wallets |-> wallet[w] + (IF w = b THEN x ELSE 0)]
           h == [w \in Wallets |-> wallet[w] + (IF w = b THEN x ELSE 0)
                                             + (IF w = Treasury THEN y ELSE 0)]
<1>1. wallet \in [Wallets -> Nat] /\ IsFiniteSet(Wallets) /\ Treasury \in Wallets
  BY FiniteOwners DEF AccountsTyped
<1>2. /\ g \in [Wallets -> Nat] /\ g[b] = wallet[b] + x
      /\ \A w \in Wallets \ {b} : g[w] = wallet[w]
  BY <1>1
<1>3. /\ h \in [Wallets -> Nat] /\ h[Treasury] = g[Treasury] + y
      /\ \A w \in Wallets \ {Treasury} : h[w] = g[w]
  BY <1>1
<1>4. Credited(b, x, y) = h BY DEF Credited
<1>5. wallet[b] \in Nat /\ g[Treasury] \in Nat BY <1>1, <1>2
<1>. HIDE DEF g, h
<1>6. SumFunction(g) = SumFunction(wallet) - wallet[b] + g[b] BY <1>1, <1>2, SumChanged
<1>7. SumFunction(h) = SumFunction(g) - g[Treasury] + h[Treasury] BY <1>1, <1>2, <1>3, SumChanged
<1>8. SumFunction(wallet) \in Nat BY SumsOfAccounts
<1>9. SumFunction(g) = SumFunction(wallet) + x BY <1>2, <1>5, <1>6, <1>8
<1>10. SumFunction(h) = SumFunction(g) + y BY <1>3, <1>5, <1>7, <1>8, <1>9
<1>. QED BY <1>4, <1>8, <1>9, <1>10

(* At first every token is in a wallet and nobody has a share.             *)
LEMMA InitAddUp == Init => TokensAndSharesAddUp
<1>. SUFFICES ASSUME Init PROVE TokensAndSharesAddUp OBVIOUS
<1>1. /\ vault = [k \in Keys |-> 0] /\ shares = [p \in Providers |-> 0]
      /\ wallet = Supply /\ poolToken = 0 /\ pool.totalShares = 0
  BY DEF Init
<1>2. SumFunction(vault) = 0 /\ SumFunction(shares) = 0
  BY <1>1, SumOfNothing, KeysFinite, FiniteOwners
<1>3. SumFunction(wallet) \in Nat BY InitAccounts, SumsOfAccounts
<1>. QED BY <1>1, <1>2, <1>3 DEF TokensAndSharesAddUp

(* Every step moves tokens from one account to another; a fill puts its    *)
(* escrow into a vault that was empty, an exit takes out all of it.        *)
LEMMA NextAddUp ==
  AccountsTyped /\ AccountsTyped' /\ LedgerIsBacked /\ TokensAndSharesAddUp /\ [Next]_vars
    => TokensAndSharesAddUp'
<1>. SUFFICES ASSUME AccountsTyped, AccountsTyped', LedgerIsBacked, TokensAndSharesAddUp, [Next]_vars
              PROVE  TokensAndSharesAddUp'
  OBVIOUS
<1> DEFINE V == SumFunction(vault)
           W == SumFunction(wallet)
<1>1. /\ vault \in [Keys -> Nat] /\ wallet \in [Wallets -> Nat] /\ shares \in [Providers -> Nat]
      /\ IsFiniteSet(Keys) /\ IsFiniteSet(Wallets) /\ IsFiniteSet(Providers)
  BY KeysFinite, FiniteOwners DEF AccountsTyped, U64
<1>2. V \in Nat /\ W \in Nat /\ SumFunction(shares) \in Nat /\ poolToken \in Nat
  BY SumsOfAccounts
<1>3. poolToken + V + W = SumFunction(Supply) /\ pool.totalShares = SumFunction(shares)
  BY DEF TokensAndSharesAddUp
<1>4. pool.totalShares \in Nat BY PoolNumbers
<1>. HIDE DEF V, W
<1>5. CASE Quiet
  BY <1>3, <1>5 DEF Quiet, positionVars, tokenVars, TokensAndSharesAddUp, V, W
<1>6. ASSUME NEW p \in Providers, NEW amount \in DepositAmounts, DepositLiquidity(p, amount)
      PROVE  TokensAndSharesAddUp'
  <2>1. /\ wallet[p] >= amount /\ UNCHANGED vault /\ poolToken' = poolToken + amount
        /\ wallet' = [wallet EXCEPT ![p] = wallet[p] - amount]
        /\ shares' = [shares EXCEPT ![p] = shares[p] + SharesFor(amount)]
    BY <1>6 DEF DepositLiquidity, positionVars
  <2>2. /\ amount \in Nat /\ SharesFor(amount) \in Nat
        /\ pool'.totalShares = pool.totalShares + SharesFor(amount)
    BY <1>6, DepositLedger
  <2>3. /\ p \in Wallets /\ wallet[p] \in Nat /\ shares[p] \in Nat
        /\ wallet[p] - amount \in Nat /\ shares[p] + SharesFor(amount) \in Nat
    BY <1>1, <2>1, <2>2 DEF Wallets
  <2>4. SumFunction(wallet') = W - wallet[p] + (wallet[p] - amount)
    <3>1. wallet'[p] = wallet[p] - amount /\ \A y \in Wallets \ {p} : wallet'[y] = wallet[y]
      BY <1>1, <2>1, <2>3
    <3>. QED BY <2>3, <3>1, WalletMoved DEF W
  <2>5. SumFunction(shares') = SumFunction(shares) - shares[p] + (shares[p] + SharesFor(amount))
    <3>1. /\ shares'[p] = shares[p] + SharesFor(amount)
          /\ \A y \in Providers \ {p} : shares'[y] = shares[y]
      BY <1>1, <2>1, <2>3
    <3>. QED BY <3>1, SharesMoved
  <2>6. SumFunction(vault') = V BY <2>1 DEF V
  <2>. QED BY <1>2, <1>3, <2>1, <2>2, <2>3, <2>4, <2>5, <2>6 DEF TokensAndSharesAddUp
<1>7. ASSUME NEW p \in Providers, NEW s \in 1 .. shares[p], WithdrawLiquidity(p, s)
      PROVE  TokensAndSharesAddUp'
  <2>1. /\ UNCHANGED vault /\ poolToken' = poolToken - AmountFor(s)
        /\ wallet' = [wallet EXCEPT ![p] = wallet[p] + AmountFor(s)]
        /\ shares' = [shares EXCEPT ![p] = shares[p] - s]
    BY <1>7 DEF WithdrawLiquidity, positionVars
  <2>2. /\ s \in Nat /\ AmountFor(s) \in Nat
        /\ pool'.totalShares = pool.totalShares - s
    BY <1>7, WithdrawLedger
  <2>3. /\ p \in Wallets /\ wallet[p] \in Nat /\ shares[p] \in Nat
        /\ wallet[p] + AmountFor(s) \in Nat /\ shares[p] - s \in Nat
    BY <1>1, <2>1, <2>2 DEF Wallets
  <2>4. SumFunction(wallet') = W - wallet[p] + (wallet[p] + AmountFor(s))
    <3>1. /\ wallet'[p] = wallet[p] + AmountFor(s)
          /\ \A y \in Wallets \ {p} : wallet'[y] = wallet[y]
      BY <1>1, <2>1, <2>3
    <3>. QED BY <2>3, <3>1, WalletMoved DEF W
  <2>5. SumFunction(shares') = SumFunction(shares) - shares[p] + (shares[p] - s)
    <3>1. shares'[p] = shares[p] - s /\ \A y \in Providers \ {p} : shares'[y] = shares[y]
      BY <1>1, <2>1, <2>3
    <3>. QED BY <3>1, SharesMoved
  <2>6. SumFunction(vault') = V BY <2>1 DEF V
  <2>. QED BY <1>2, <1>3, <2>1, <2>2, <2>3, <2>4, <2>5, <2>6 DEF TokensAndSharesAddUp
<1>8. ASSUME NEW w \in Wallets, Donate(w) PROVE TokensAndSharesAddUp'
  <2>1. /\ wallet[w] > 0 /\ UNCHANGED <<vault, shares, pool>> /\ poolToken' = poolToken + 1
        /\ wallet' = [wallet EXCEPT ![w] = wallet[w] - 1]
    BY <1>8 DEF Donate, positionVars
  <2>2. wallet[w] \in Nat /\ wallet[w] - 1 \in Nat BY <1>1, <2>1
  <2>3. SumFunction(wallet') = W - wallet[w] + (wallet[w] - 1)
    <3>1. wallet'[w] = wallet[w] - 1 /\ \A y \in Wallets \ {w} : wallet'[y] = wallet[y]
      BY <1>1, <2>1, <2>2
    <3>. QED BY <3>1, WalletMoved DEF W
  <2>4. SumFunction(vault') = V /\ SumFunction(shares') = SumFunction(shares) BY <2>1 DEF V
  <2>. QED BY <1>2, <1>3, <2>1, <2>2, <2>3, <2>4 DEF TokensAndSharesAddUp
<1>9. ASSUME NEW q \in Quotes, FillPoolQuote(q) PROVE TokensAndSharesAddUp'
  <2>1. /\ wallet[q.buyer] >= q.premium /\ ~IsOpen(Key(q))
        /\ poolToken' = poolToken - q.maxPayout /\ UNCHANGED shares
        /\ wallet' = [wallet EXCEPT ![q.buyer] = wallet[q.buyer] - q.premium]
        /\ vault' = [vault EXCEPT ![Key(q)] = q.premium + q.maxPayout]
    BY <1>9 DEF FillPoolQuote, Escrow
  <2>2. /\ Key(q) \in Keys /\ q.buyer \in Wallets /\ q.premium \in Nat /\ q.maxPayout \in Nat
    BY QuoteTyped, FiniteOwners
  <2>3. vault[Key(q)] = 0 BY <2>1, <2>2 DEF LedgerIsBacked
  <2>4. /\ wallet[q.buyer] \in Nat /\ wallet[q.buyer] - q.premium \in Nat
        /\ q.premium + q.maxPayout \in Nat
    BY <1>1, <2>1, <2>2
  <2>. HIDE DEF Key
  <2>5. SumFunction(wallet') = W - wallet[q.buyer] + (wallet[q.buyer] - q.premium)
    <3>1. /\ wallet'[q.buyer] = wallet[q.buyer] - q.premium
          /\ \A y \in Wallets \ {q.buyer} : wallet'[y] = wallet[y]
      BY <1>1, <2>1, <2>2
    <3>. QED BY <2>2, <3>1, WalletMoved DEF W
  <2>6. SumFunction(vault') = V - vault[Key(q)] + (q.premium + q.maxPayout)
    <3>1. /\ vault'[Key(q)] = q.premium + q.maxPayout
          /\ \A y \in Keys \ {Key(q)} : vault'[y] = vault[y]
      BY <1>1, <2>1, <2>2
    <3>. QED BY <2>2, <3>1, VaultMoved DEF V
  <2>7. pool'.totalShares = pool.totalShares BY <1>9, FillLedger
  <2>. QED BY <1>2, <1>3, <2>1, <2>2, <2>3, <2>4, <2>5, <2>6, <2>7 DEF TokensAndSharesAddUp
<1>10. ASSUME NEW k \in Keys, NEW b \in Nat, NEW t \in Nat, NEW a \in Nat, Exit(k, b, t, a)
       PROVE  TokensAndSharesAddUp'
  <2>1. /\ vault[k] = Escrow(position[k].quote) /\ b + t + a = Escrow(position[k].quote)
        /\ poolToken' = poolToken + a /\ UNCHANGED shares
        /\ wallet' = Credited(position[k].quote.buyer, b, t)
        /\ vault' = [vault EXCEPT ![k] = 0]
    BY <1>10 DEF Exit, PayOut
  <2>2. position[k].quote.buyer \in Wallets
    BY <1>10, OpenPosition, QuoteTyped, FiniteOwners DEF Exit
  <2>3. SumFunction(wallet') = W + b + t BY <2>1, <2>2, CreditedInFull DEF W
  <2>4. SumFunction(vault') = V - vault[k] + 0
    <3>1. vault'[k] = 0 /\ \A y \in Keys \ {k} : vault'[y] = vault[y] BY <1>1, <2>1
    <3>. QED BY <3>1, VaultMoved DEF V
  <2>5. pool'.totalShares = pool.totalShares BY <1>10, ExitLedger
  <2>6. vault[k] \in Nat BY <1>1
  <2>. QED BY <1>2, <1>3, <2>1, <2>3, <2>4, <2>5, <2>6 DEF TokensAndSharesAddUp
<1>. QED BY <1>5, <1>6, <1>7, <1>8, <1>9, <1>10, LedgerSteps

(* No token and no share appears or disappears, for any quotes, fees and   *)
(* donations, and whoever the treasury is.                                 *)
THEOREM TokensAndSharesAddUpHolds == Spec => []TokensAndSharesAddUp
BY InitAddUp, NextAddUp, AccountsCorrect, LedgerIsBackedHolds, PTL DEF Spec

-----------------------------------------------------------------------------
(* The collateral locked is the collateral of the open positions.          *)
Collateral == [k \in OpenKeys |-> position[k].quote.maxPayout]

CollateralCounted == pool.lockedCollateral = SumFunction(Collateral)

(* The collateral of every set of open positions has a sum.                *)
LEMMA CollateralTyped ==
  ASSUME AccountsTyped
  PROVE  /\ IsFiniteSet(OpenKeys) /\ Collateral \in [OpenKeys -> Nat]
         /\ SumFunction(Collateral) \in Nat
<1>1. IsFiniteSet(OpenKeys) BY OpenSets, KeysFinite
<1>2. \A k \in OpenKeys : position[k].quote.maxPayout \in Nat
  BY OpenPosition, QuoteTyped DEF OpenKeys
<1>3. Collateral \in [OpenKeys -> Nat] BY <1>2 DEF Collateral
<1>. QED BY <1>1, <1>3, SumTyped

(* A position that opens adds its own, one that closes takes it away.      *)
LEMMA NextCollateral ==
  AccountsTyped /\ AccountsTyped' /\ CollateralCounted /\ [Next]_vars => CollateralCounted'
<1>. SUFFICES ASSUME AccountsTyped, AccountsTyped', CollateralCounted, [Next]_vars
              PROVE  CollateralCounted'
  OBVIOUS
<1>1. /\ IsFiniteSet(OpenKeys) /\ Collateral \in [OpenKeys -> Nat]
      /\ SumFunction(Collateral) \in Nat
  BY CollateralTyped
<1>2. pool.lockedCollateral = SumFunction(Collateral) BY DEF CollateralCounted
<1>3. ASSUME UNCHANGED position, pool'.lockedCollateral = pool.lockedCollateral
      PROVE  CollateralCounted'
  BY <1>2, <1>3 DEF CollateralCounted, Collateral, OpenKeys, IsOpen
<1>4. ASSUME NEW q \in Quotes, FillPoolQuote(q) PROVE CollateralCounted'
  <2> DEFINE k == Key(q)
  <2>1. /\ k \in Keys /\ ~IsOpen(k)
        /\ position'[k] = [open |-> TRUE, quote |-> q, feeBps |-> config.feeBps]
        /\ \A j \in Keys \ {k} : position'[j] = position[j]
    BY <1>4, FillRecords
  <2>2. pool'.lockedCollateral = pool.lockedCollateral + q.maxPayout BY <1>4, FillLedger
  <2>3. q.maxPayout \in Nat BY QuoteTyped
  <2>. HIDE DEF k
  <2>4. OpenKeys' = OpenKeys \cup {k} /\ k \notin OpenKeys BY <2>1 DEF OpenKeys, IsOpen
  <2>5. /\ Collateral' = [j \in OpenKeys' |-> position'[j].quote.maxPayout]
        /\ Collateral'[k] = q.maxPayout
        /\ \A j \in OpenKeys : Collateral'[j] = Collateral[j]
    BY <2>1, <2>4 DEF Collateral, OpenKeys
  <2>6. IsFiniteSet(OpenKeys') BY <1>1, <2>4, FS_AddElement
  <2>7. Collateral' \in [OpenKeys' -> Nat] BY <1>1, <2>3, <2>4, <2>5
  <2>8. [j \in OpenKeys' \ {k} |-> Collateral'[j]] = Collateral
    <3>1. OpenKeys' \ {k} = OpenKeys BY <2>4
    <3>2. Collateral = [j \in OpenKeys |-> Collateral[j]] BY <1>1
    <3>. QED BY <2>5, <3>1, <3>2
  <2>9. SumFunction(Collateral') = q.maxPayout + SumFunction(Collateral)
    <3> DEFINE S == OpenKeys'
               f == Collateral'
    <3>1. IsFiniteSet(S) /\ f \in [S -> Nat] /\ k \in S BY <2>4, <2>6, <2>7
    <3>2. [j \in S \ {k} |-> f[j]] = Collateral /\ f[k] = q.maxPayout BY <2>5, <2>8
    <3>. HIDE DEF S, f
    <3>3. SumFunction(f) = f[k] + SumFunction([j \in S \ {k} |-> f[j]]) BY <3>1, SumWithout
    <3>. QED BY <3>2, <3>3 DEF f
  <2>. QED BY <1>1, <1>2, <2>2, <2>3, <2>9 DEF CollateralCounted
<1>5. ASSUME NEW k \in Keys, NEW b \in Nat, NEW t \in Nat, NEW a \in Nat, Exit(k, b, t, a)
      PROVE  CollateralCounted'
  <2>1. /\ IsOpen(k) /\ position'[k] = NoPosition
        /\ \A j \in Keys \ {k} : position'[j] = position[j]
    BY <1>5, ExitRecords DEF Exit
  <2>2. pool'.lockedCollateral = pool.lockedCollateral - position[k].quote.maxPayout
    BY <1>5, ExitLedger
  <2>3. OpenKeys' = OpenKeys \ {k} /\ k \in OpenKeys
    BY <2>1 DEF OpenKeys, IsOpen, NoPosition
  <2>4. Collateral' = [j \in OpenKeys \ {k} |-> Collateral[j]]
    <3>1. \A j \in OpenKeys \ {k} : position'[j].quote.maxPayout = Collateral[j]
      BY <2>1 DEF Collateral, OpenKeys
    <3>. QED BY <2>3, <3>1 DEF Collateral
  <2>5. SumFunction(Collateral) = Collateral[k] + SumFunction(Collateral')
    BY <1>1, <2>3, <2>4, SumWithout
  <2>6. Collateral[k] = position[k].quote.maxPayout BY <2>3 DEF Collateral
  <2>7. SumFunction(Collateral') \in Nat
    <3>1. IsFiniteSet(OpenKeys \ {k}) BY <1>1, FS_RemoveElement
    <3>2. Collateral' \in [OpenKeys \ {k} -> Nat] BY <1>1, <2>4
    <3>. QED BY <3>1, <3>2, SumTyped
  <2>8. Collateral[k] \in Nat BY <1>1, <2>3
  <2>. QED BY <1>2, <2>2, <2>5, <2>6, <2>7, <2>8 DEF CollateralCounted
<1>6. ASSUME NEW p \in Providers, NEW amount \in DepositAmounts, DepositLiquidity(p, amount)
      PROVE  CollateralCounted'
  BY <1>3, <1>6, DepositLedger DEF DepositLiquidity, positionVars
<1>7. ASSUME NEW p \in Providers, NEW s \in 1 .. shares[p], WithdrawLiquidity(p, s)
      PROVE  CollateralCounted'
  BY <1>3, <1>7, WithdrawLedger DEF WithdrawLiquidity, positionVars
<1>8. CASE Quiet \/ \E w \in Wallets : Donate(w)
  BY <1>3, <1>8 DEF Quiet, Donate, positionVars
<1>. QED BY <1>4, <1>5, <1>6, <1>7, <1>8, LedgerSteps

(* The three counters of open obligations agree with the positions.        *)
THEOREM CountersMatchPositionsHolds == Spec => []CountersMatchPositions
<1>1. Init => CollateralCounted
  <2>. SUFFICES ASSUME Init PROVE CollateralCounted OBVIOUS
  <2>1. OpenKeys = {} /\ pool.lockedCollateral = 0 BY DEF Init, OpenKeys, IsOpen, NoPosition
  <2>2. DOMAIN Collateral = {} BY <2>1 DEF Collateral
  <2>. QED BY <2>1, <2>2, SumEmpty DEF CollateralCounted
<1>2. CollateralCounted /\ Served => CountersMatchPositions
  BY DEF CollateralCounted, Collateral, Served, PositionsCounted, CountersMatchPositions
<1>. QED
  BY <1>1, <1>2, NextCollateral, InitServed, NextServed, AccountsCorrect, PTL DEF Spec

=============================================================================
