------------------------------ MODULE VsolMath ------------------------------
(***************************************************************************)
(* The integer arithmetic of the VSOL program: payoff, protocol fee, pool  *)
(* shares, basis-point limits, the risk-limit check and the rescaling of   *)
(* an oracle price.  The Rust helpers compute in u128 and convert the      *)
(* result to u64 or fail; here every helper is a value operator together   *)
(* with an ...Ok predicate that holds exactly when the helper returns Ok.  *)
(* The u128 products themselves cannot overflow: every factor is a u64     *)
(* (plus one).                                                             *)
(***************************************************************************)
EXTENDS Integers

CONSTANT MaxU64                      \* the largest u64; 2^64 - 1 in the program

ASSUME MaxU64Assumption == MaxU64 \in Nat \ {0}

BPS_DENOMINATOR == 10000
MAX_FEE_BPS == 1000
MAX_POOL_UTILIZATION_BPS == 8000

U64 == 0 .. MaxU64
Direction == {"up", "down"}

Smaller(a, b) == IF a <= b THEN a ELSE b
SaturatingSub(a, b) == IF a >= b THEN a - b ELSE 0
CeilDiv(a, b) == (a + (b - 1)) \div b

-----------------------------------------------------------------------------
(* How far the settlement price is in the money, capped by the width.      *)
Delta(direction, strike, width, price) ==
  Smaller(IF direction = "up" THEN SaturatingSub(price, strike)
                              ELSE SaturatingSub(strike, price),
          width)

(* The buyer's payout, rounded down: the pool keeps the dust.              *)
CalculatePayout(direction, strike, width, price, maxPayout) ==
  (maxPayout * Delta(direction, strike, width, price)) \div width

PayoutOk(width, maxPayout) == width > 0 /\ maxPayout > 0

(* The protocol fee on an amount, rounded up; 0 when either factor is 0.   *)
CalculateFee(amount, feeBps) == CeilDiv(amount * feeBps, BPS_DENOMINATOR)

CalculateBpsLimit(amount, bps) == (amount * bps) \div BPS_DENOMINATOR

-----------------------------------------------------------------------------
(* Pool shares.  One virtual share and one virtual asset enter every       *)
(* conversion, and both directions round in favour of the pool.            *)
DepositShares(amount, totalShares, totalAssets) ==
  (amount * (totalShares + 1)) \div (totalAssets + 1)

DepositSharesOk(amount, totalShares, totalAssets) ==
  /\ amount > 0
  /\ totalAssets > 0 \/ totalShares = 0               \* else PoolInsolvent
  /\ DepositShares(amount, totalShares, totalAssets) \in 1 .. MaxU64

WithdrawAmount_RoundsUp(shares, totalShares, totalAssets) ==   \* mutant: rounds for the provider
  CeilDiv(shares * (totalAssets + 1), totalShares + 1)

WithdrawAmount(shares, totalShares, totalAssets) ==
  (shares * (totalAssets + 1)) \div (totalShares + 1)

WithdrawAmountOk(shares, totalShares, totalAssets) ==
  /\ shares > 0
  /\ totalShares > 0
  /\ shares <= totalShares
  /\ WithdrawAmount(shares, totalShares, totalAssets) \in 1 .. MaxU64

-----------------------------------------------------------------------------
ValidRiskLimits(maxUtilizationBps, maxPositionBps) ==
  /\ maxUtilizationBps > 0
  /\ maxUtilizationBps <= MAX_POOL_UTILIZATION_BPS
  /\ maxPositionBps > 0
  /\ maxPositionBps <= maxUtilizationBps

(* 10u128.checked_pow.                                                     *)
PowerOfTen[n \in Nat] == IF n = 0 THEN 1 ELSE 10 * PowerOfTen[n - 1]

(* A Pyth value v x 10^exponent in units of 1/scale.  With a negative      *)
(* exponent the price is rounded down and the confidence up; power is      *)
(* 10^|exponent|.                                                          *)
NormalizeDown(value, exponent, scale, power) ==
  IF exponent >= 0 THEN value * scale * power ELSE (value * scale) \div power

NormalizeUp(value, exponent, scale, power) ==
  IF exponent >= 0 THEN value * scale * power ELSE CeilDiv(value * scale, power)

(* The confidence interval is at most maxConfidenceBps of the price.       *)
ConfidenceOk(price, confidence, maxConfidenceBps) ==
  confidence * BPS_DENOMINATOR <= price * maxConfidenceBps

=============================================================================
