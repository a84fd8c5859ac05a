--------------------------- MODULE VsolMathProofs ---------------------------
(***************************************************************************)
(* What the program's arithmetic guarantees for every input: no payout     *)
(* exceeds the collateral, no fee exceeds its base, no rounding favours    *)
(* the party that could exploit it.                                        *)
(***************************************************************************)
EXTENDS VsolMath, Functions, FiniteSetTheorems, WellFoundedInduction, TLAPS

-----------------------------------------------------------------------------
(* The defining bounds of integer division, which every rounding argument  *)
(* below rests on.                                                         *)
LEMMA DivBounds ==
  ASSUME NEW a \in Nat, NEW b \in Nat \ {0}
  PROVE  /\ a \div b \in Nat
         /\ b * (a \div b) <= a
         /\ a < b * (a \div b) + b
BY SMT

(* Division bounded from above by any factor of the divisor.               *)
LEMMA DivAtMost ==
  ASSUME NEW a \in Nat, NEW b \in Nat \ {0}, NEW c \in Nat, a <= b * c
  PROVE  a \div b <= c
<1> DEFINE d == a \div b
<1>1. d \in Nat /\ b * d <= a BY DivBounds
<1>2. SUFFICES ASSUME c < d PROVE FALSE BY <1>1
<1>3. b * (c + 1) <= b * d BY <1>1, <1>2, SMT
<1>4. b * (c + 1) = b * c + b BY SMT
<1>. HIDE DEF d
<1>. QED BY <1>1, <1>3, <1>4

(* Division rounded up is at least the quotient and less than one above.   *)
LEMMA CeilDivBounds ==
  ASSUME NEW a \in Nat, NEW b \in Nat \ {0}
  PROVE  /\ CeilDiv(a, b) \in Nat
         /\ a <= b * CeilDiv(a, b)
         /\ b * CeilDiv(a, b) < a + b
<1>1. a + (b - 1) \in Nat OBVIOUS
<1>. QED BY <1>1, DivBounds DEF CeilDiv

-----------------------------------------------------------------------------
(* calculate_payout: the payout is at most max_payout, so the escrow of a  *)
(* position always covers it.                                              *)
THEOREM PayoutWithinCollateral ==
  ASSUME NEW direction \in Direction, NEW strike \in Nat, NEW width \in Nat \ {0},
         NEW price \in Nat, NEW maxPayout \in Nat
  PROVE  CalculatePayout(direction, strike, width, price, maxPayout) \in 0 .. maxPayout
<1> DEFINE delta == Delta(direction, strike, width, price)
<1>1. delta \in Nat /\ delta <= width
  BY DEF Delta, Smaller, SaturatingSub
<1>. HIDE DEF delta
<1>2. maxPayout * delta \in Nat BY <1>1, SMT
<1>3. maxPayout * delta <= width * maxPayout BY <1>1, SMT
<1>4. (maxPayout * delta) \div width <= maxPayout BY <1>2, <1>3, DivAtMost
<1>5. (maxPayout * delta) \div width \in Nat BY <1>2, DivBounds
<1>. QED BY <1>4, <1>5 DEF CalculatePayout, delta

(* calculate_fee: a fee rate of at most 100% never takes more than the     *)
(* amount it is charged on, the rounding up included.                      *)
THEOREM FeeWithinAmount ==
  ASSUME NEW amount \in Nat, NEW feeBps \in 0 .. BPS_DENOMINATOR
  PROVE  CalculateFee(amount, feeBps) \in 0 .. amount
<1> DEFINE n == amount * feeBps
<1>1. n \in Nat /\ n <= amount * BPS_DENOMINATOR
  BY SMT DEF BPS_DENOMINATOR
<1>. HIDE DEF n
<1>2. CeilDiv(n, BPS_DENOMINATOR) \in Nat
  BY <1>1, CeilDivBounds DEF BPS_DENOMINATOR
<1>3. BPS_DENOMINATOR * CeilDiv(n, BPS_DENOMINATOR) < n + BPS_DENOMINATOR
  BY <1>1, CeilDivBounds DEF BPS_DENOMINATOR
<1>4. CeilDiv(n, BPS_DENOMINATOR) <= amount
  BY <1>1, <1>2, <1>3 DEF BPS_DENOMINATOR
<1>. QED BY <1>2, <1>4 DEF CalculateFee, n

(* calculate_fee: "a positive fee rate cannot be bypassed with dust        *)
(* quotes".                                                                *)
THEOREM FeeOnDustIsPositive ==
  ASSUME NEW amount \in Nat \ {0}, NEW feeBps \in Nat \ {0}
  PROVE  CalculateFee(amount, feeBps) >= 1
<1>1. amount * feeBps \in Nat /\ amount * feeBps >= 1 BY SMT
<1>. QED BY <1>1, SMT DEF CalculateFee, CeilDiv, BPS_DENOMINATOR

-----------------------------------------------------------------------------
(* calculate_deposit_shares and calculate_withdraw_amount: who deposits    *)
(* and withdraws at once never gains.                                      *)
THEOREM RoundTripNeverGains ==
  ASSUME NEW x \in Nat, NEW S \in Nat, NEW A \in Nat
  PROVE  LET s == DepositShares(x, S, A)
         IN  WithdrawAmount(s, S + s, A + x) <= x
<1> DEFINE s == DepositShares(x, S, A)
           y == WithdrawAmount(s, S + s, A + x)
<1>1. x * (S + 1) \in Nat BY SMT
<1>2. s \in Nat /\ s * (A + 1) <= x * (S + 1)
  <2>1. A + 1 \in Nat \ {0} OBVIOUS
  <2>2. s \in Nat /\ (A + 1) * s <= x * (S + 1)
    BY <1>1, <2>1, DivBounds DEF DepositShares
  <2>. QED BY <2>2, SMT
<1>3. s * (A + x + 1) <= (S + s + 1) * x
  BY <1>2, SMT
<1>4. s * (A + x + 1) \in Nat BY <1>2, SMT
<1>5. (s * (A + x + 1)) \div (S + s + 1) <= x
  BY <1>2, <1>3, <1>4, DivAtMost
<1>. QED BY <1>5 DEF WithdrawAmount

(* A deposit never lowers the worth of a share, whatever is locked.        *)
THEOREM DepositKeepsShareWorth ==
  ASSUME NEW x \in Nat, NEW S \in Nat, NEW A \in Nat
  PROVE  (A + 1) * (S + DepositShares(x, S, A) + 1) <= (A + x + 1) * (S + 1)
<1> DEFINE s == DepositShares(x, S, A)
<1>1. x * (S + 1) \in Nat BY SMT
<1>2. s \in Nat /\ s * (A + 1) <= x * (S + 1)
  <2>1. A + 1 \in Nat \ {0} OBVIOUS
  <2>2. s \in Nat /\ (A + 1) * s <= x * (S + 1)
    BY <1>1, <2>1, DivBounds DEF DepositShares
  <2>. QED BY <2>2, SMT
<1>. HIDE DEF s
<1>3. (A + 1) * (S + s + 1) = (A + 1) * (S + 1) + s * (A + 1) BY <1>2, SMT
<1>4. (A + x + 1) * (S + 1) = (A + 1) * (S + 1) + x * (S + 1) BY SMT
<1>5. (A + 1) * (S + s + 1) <= (A + x + 1) * (S + 1) BY <1>2, <1>3, <1>4, SMT
<1>. QED BY <1>5 DEF s

(* A withdrawal never lowers the worth of a remaining share, and the pool  *)
(* always has what it pays.                                                *)
THEOREM WithdrawKeepsShareWorth ==
  ASSUME NEW S \in Nat, NEW A \in Nat, NEW s \in 0 .. S
  PROVE  LET y == WithdrawAmount(s, S, A)
         IN  /\ y \in 0 .. A
             /\ (A + 1) * (S - s + 1) <= (A - y + 1) * (S + 1)
<1> DEFINE y == WithdrawAmount(s, S, A)
<1>1. s * (A + 1) \in Nat BY SMT
<1>2. y \in Nat /\ (S + 1) * y <= s * (A + 1)
  <2>1. S + 1 \in Nat \ {0} OBVIOUS
  <2>. QED BY <1>1, <2>1, DivBounds DEF WithdrawAmount
<1>. HIDE DEF y
<1>3. (A + 1) * (S - s + 1) = (A + 1) * (S + 1) - s * (A + 1) BY SMT
<1>4. (A - y + 1) * (S + 1) = (A + 1) * (S + 1) - (S + 1) * y BY <1>2, SMT
<1>5. (A + 1) * (S - s + 1) <= (A - y + 1) * (S + 1) BY <1>1, <1>2, <1>3, <1>4, SMT
<1>6. y <= A
  <2>1. SUFFICES ASSUME y >= A + 1 PROVE FALSE BY <1>2
  <2>2. (S + 1) * (A + 1) <= (S + 1) * y BY <1>2, <2>1, SMT
  <2>3. s * (A + 1) < (S + 1) * (A + 1) BY SMT
  <2>. QED BY <1>1, <1>2, <2>2, <2>3, SMT
<1>. QED BY <1>2, <1>5, <1>6 DEF y

(* And a depositor who withdraws at once loses less than the price of one  *)
(* share: what the two roundings cost is bounded, whoever else did what to *)
(* the pool's account before.                                              *)
THEOREM RoundTripLosesAtMostAShare ==
  ASSUME NEW x \in Nat, NEW S \in Nat, NEW A \in Nat
  PROVE  LET s == DepositShares(x, S, A)
         IN  x - WithdrawAmount(s, S + s, A + x) <= CeilDiv(A + 1, S + s + 1)
<1> DEFINE s == DepositShares(x, S, A)
           y == WithdrawAmount(s, S + s, A + x)
           c == CeilDiv(A + 1, S + s + 1)
<1>1. s \in Nat /\ x * (S + 1) < (A + 1) * s + (A + 1)
  <2>1. x * (S + 1) \in Nat /\ A + 1 \in Nat \ {0} BY SMT
  <2>. QED BY <2>1, DivBounds DEF DepositShares
<1>. HIDE DEF s
<1>2. y \in Nat /\ s * (A + x + 1) < (S + s + 1) * y + (S + s + 1)
  <2>1. s * (A + x + 1) \in Nat /\ S + s + 1 \in Nat \ {0} BY <1>1, SMT
  <2>. QED BY <1>1, <2>1, DivBounds DEF WithdrawAmount
<1>3. c \in Nat /\ A + 1 <= (S + s + 1) * c
  <2>1. A + 1 \in Nat /\ S + s + 1 \in Nat \ {0} BY <1>1
  <2>. QED BY <2>1, CeilDivBounds
<1>. HIDE DEF y, c
<1>4. SUFFICES ASSUME x >= y + c + 1 PROVE FALSE
  BY <1>1, <1>2, <1>3 DEF s, y, c
<1>5. (S + s + 1) * x >= (S + s + 1) * (y + c + 1) BY <1>1, <1>2, <1>3, <1>4, SMT
<1>6. (S + s + 1) * (y + c + 1) = (S + s + 1) * y + (S + s + 1) * c + (S + s + 1)
  BY <1>1, <1>2, <1>3, SMT
<1>7. (S + s + 1) * x = x * (S + 1) + s * x BY <1>1, SMT
<1>8. s * (A + x + 1) = (A + 1) * s + s * x BY <1>1, SMT
<1>. QED BY <1>1, <1>2, <1>3, <1>5, <1>6, <1>7, <1>8, SMT

-----------------------------------------------------------------------------
(* settle_pool_position: the three parts add up to the escrow, and none is *)
(* negative, so no checked subtraction of the handler can fail.            *)
THEOREM SettlementSplitsEscrow ==
  ASSUME NEW payout \in Nat, NEW maxPayout \in Nat, payout <= maxPayout,
         NEW premium \in Nat, NEW feeBps \in 0 .. MAX_FEE_BPS
  PROVE  LET fee == CalculateFee(payout, feeBps)
             toPool == maxPayout - payout + premium
         IN  /\ payout - fee \in Nat
             /\ fee \in Nat
             /\ toPool \in Nat /\ toPool >= premium
             /\ (payout - fee) + fee + toPool = premium + maxPayout
<1> DEFINE fee == CalculateFee(payout, feeBps)
<1>1. feeBps \in 0 .. BPS_DENOMINATOR BY DEF MAX_FEE_BPS, BPS_DENOMINATOR
<1>2. fee \in 0 .. payout BY <1>1, FeeWithinAmount
<1>. QED BY <1>2

(* publish_pyth_settlement: rounding the price down and the confidence up  *)
(* only makes the confidence check stricter, whatever the exponent.        *)
THEOREM NormalizationIsConservative ==
  ASSUME NEW price \in Nat, NEW confidence \in Nat, NEW exponent \in Int,
         NEW scale \in Nat \ {0}, NEW power \in Nat \ {0}, NEW maxBps \in Nat,
         ConfidenceOk(NormalizeDown(price, exponent, scale, power),
                      NormalizeUp(confidence, exponent, scale, power), maxBps)
  PROVE  ConfidenceOk(price, confidence, maxBps)
<1> DEFINE P == NormalizeDown(price, exponent, scale, power)
           C == NormalizeUp(confidence, exponent, scale, power)
<1>0. C * BPS_DENOMINATOR <= P * maxBps BY DEF ConfidenceOk
<1>1. CASE exponent >= 0
  <2> DEFINE f == scale * power
  <2>1. f \in Nat /\ f >= 1 BY SMT
  <2>2. P = price * f /\ C = confidence * f
    BY <1>1, SMT DEF NormalizeDown, NormalizeUp
  <2>. HIDE DEF f, P, C
  <2>3. (confidence * BPS_DENOMINATOR) * f <= (price * maxBps) * f
    BY <1>0, <2>1, <2>2, SMT DEF BPS_DENOMINATOR
  <2>4. confidence * BPS_DENOMINATOR <= price * maxBps
    BY <2>1, <2>3, SMT DEF BPS_DENOMINATOR
  <2>. QED BY <2>4 DEF ConfidenceOk
<1>2. CASE ~(exponent >= 0)
  <2>1. price * scale \in Nat /\ confidence * scale \in Nat BY SMT
  <2>2. P \in Nat /\ power * P <= price * scale
    BY <1>2, <2>1, DivBounds DEF NormalizeDown
  <2>3. C \in Nat /\ confidence * scale <= power * C
    BY <1>2, <2>1, CeilDivBounds DEF NormalizeUp
  <2>. HIDE DEF P, C
  <2>4. (power * C) * BPS_DENOMINATOR <= (power * P) * maxBps
    BY <1>0, <2>2, <2>3, SMT DEF BPS_DENOMINATOR
  <2>5. (confidence * scale) * BPS_DENOMINATOR <= (price * scale) * maxBps
    BY <2>1, <2>2, <2>3, <2>4, SMT DEF BPS_DENOMINATOR
  <2>6. confidence * BPS_DENOMINATOR <= price * maxBps
    BY <2>5, SMT DEF BPS_DENOMINATOR
  <2>. QED BY <2>6 DEF ConfidenceOk
<1>. QED BY <1>1, <1>2


-----------------------------------------------------------------------------
(* A set of natural numbers has a least element: induction over the        *)
(* numbers, as the absence of a least counterexample.                      *)
LEMMA LeastNatural ==
  ASSUME NEW T \in SUBSET Nat, T # {}
  PROVE  \E x \in T : \A y \in T : x <= y
<1> DEFINE R == OpToRel(<, Nat)
<1>1. IsWellFoundedOn(R, Nat) BY NatLessThanWellFounded
<1>2. \A x, y \in Nat : <<y, x>> \in R <=> y < x BY DEF OpToRel
<1>. HIDE DEF R
<1>3. PICK x \in T : \A y \in T : ~ (<<y, x>> \in R) BY <1>1, WFMin
<1>4. ASSUME NEW y \in T PROVE x <= y
  <2>1. x \in Nat /\ y \in Nat /\ ~(y < x) BY <1>2, <1>3
  <2>. QED BY <2>1
<1>. QED BY <1>4

(* The library's sum of a function takes the elements of its domain one by *)
(* one; AddUp is one step of that recursion, TheSums the function it       *)
(* defines on the subsets.                                                 *)
Pick(s) == CHOOSE x \in s : TRUE
AddUp(f, g, s) == IF s = {} THEN 0 ELSE f[Pick(s)] + g[s \ {Pick(s)}]
Summing(f, S, g) == g = [s \in SUBSET S |-> AddUp(f, g, s)]
TheSums(f, S) == CHOOSE g : Summing(f, S, g)

(* The element taken is one of the set.                                    *)
LEMMA PickIn == ASSUME NEW s, s # {} PROVE Pick(s) \in s
BY DEF Pick

(* The subsets of a finite set are counted.                                *)
LEMMA OneLess ==
  ASSUME NEW s, IsFiniteSet(s), NEW x \in s
  PROVE  /\ IsFiniteSet(s \ {x}) /\ Cardinality(s) \in Nat \ {0}
         /\ Cardinality(s \ {x}) = Cardinality(s) - 1
BY FS_RemoveElement, FS_CardinalityType, FS_EmptySet

(* The sum in terms of that recursion.                                     *)
LEMMA SumUnfolds ==
  ASSUME NEW f, NEW S
  PROVE  SumFunctionOnSet(f, S) = (CHOOSE g : Summing(f, S, g))[S]
BY DEF SumFunctionOnSet, FoldFunctionOnSet, MapThenFoldSet, Summing, AddUp, Pick

(* The recursion has a solution: by induction on the size of the subsets.  *)
UpTo(S, n) == {s \in SUBSET S : Cardinality(s) <= n}
SumsUpTo(f, S, n) == \E g : g = [s \in UpTo(S, n) |-> AddUp(f, g, s)]

LEMMA SumsExist ==
  ASSUME NEW f, NEW S, IsFiniteSet(S)
  PROVE  \E g : Summing(f, S, g)
<1> DEFINE T == {n \in Nat : ~ SumsUpTo(f, S, n)}
<1>0. \A s \in SUBSET S : IsFiniteSet(s) /\ Cardinality(s) \in Nat /\ Cardinality(s) <= Cardinality(S)
  BY FS_Subset, FS_CardinalityType
<1>1. SUFFICES ASSUME T # {} PROVE FALSE
  <2>1. SumsUpTo(f, S, Cardinality(S)) BY <1>1, FS_CardinalityType
  <2>2. UpTo(S, Cardinality(S)) = SUBSET S BY <1>0 DEF UpTo
  <2>. QED BY <2>1, <2>2 DEF SumsUpTo, Summing
<1>2. PICK m \in T : \A y \in T : m <= y BY <1>1, LeastNatural
<1>3. CASE m = 0
  <2> DEFINE g == [s \in UpTo(S, 0) |-> 0]
  <2>1. \A s \in UpTo(S, 0) : s = {}
    <3>1. \A s \in UpTo(S, 0) : Cardinality(s) = 0 /\ IsFiniteSet(s) BY <1>0 DEF UpTo
    <3>. QED BY <3>1, FS_EmptySet
  <2>2. g = [s \in UpTo(S, 0) |-> AddUp(f, g, s)] BY <2>1 DEF AddUp
  <2>. QED BY <1>3, <2>2 DEF SumsUpTo
<1>4. CASE m # 0
  <2>1. m \in Nat /\ m - 1 \in Nat /\ ~(m <= m - 1) BY <1>4
  <2>2. SumsUpTo(f, S, m - 1) BY <1>2, <2>1
  <2>3. PICK g : g = [s \in UpTo(S, m - 1) |-> AddUp(f, g, s)] BY <2>2 DEF SumsUpTo
  <2> DEFINE h == [s \in UpTo(S, m) |-> AddUp(f, g, s)]
  <2>4. ASSUME NEW s \in UpTo(S, m) PROVE AddUp(f, g, s) = AddUp(f, h, s)
    <3>1. CASE s = {} BY <3>1 DEF AddUp
    <3>2. CASE s # {}
      <4> DEFINE t == s \ {Pick(s)}
      <4>1. t \in UpTo(S, m - 1)
        <5>1. s \in SUBSET S /\ Cardinality(s) <= m BY DEF UpTo
        <5>2. Cardinality(t) = Cardinality(s) - 1 /\ Cardinality(s) \in Nat
          BY <1>0, <5>1, <3>2, PickIn, OneLess
        <5>. HIDE DEF t
        <5>3. Cardinality(t) <= m - 1 BY <5>1, <5>2, <2>1
        <5>4. t \in SUBSET S BY <5>1 DEF t
        <5>. QED BY <5>3, <5>4 DEF UpTo
      <4>2. t \in UpTo(S, m)
        <5>1. t \in SUBSET S /\ Cardinality(t) <= m - 1 /\ Cardinality(t) \in Nat BY <4>1, <1>0 DEF UpTo
        <5>2. Cardinality(t) <= m BY <5>1, <2>1
        <5>. QED BY <5>1, <5>2 DEF UpTo
      <4>3. g[t] = AddUp(f, g, t) BY <2>3, <4>1
      <4>4. h[t] = AddUp(f, g, t) BY <4>2
      <4>. QED BY <3>2, <4>3, <4>4 DEF AddUp
    <3>. QED BY <3>1, <3>2
  <2>5. h = [s \in UpTo(S, m) |-> AddUp(f, h, s)] BY <2>4
  <2>. QED BY <2>5 DEF SumsUpTo
<1>. QED BY <1>3, <1>4

(* So the sums do what the recursion says.                                 *)
LEMMA SumsAddUp ==
  ASSUME NEW f, NEW S, IsFiniteSet(S), NEW s \in SUBSET S
  PROVE  TheSums(f, S)[s] = AddUp(f, TheSums(f, S), s)
<1>1. Summing(f, S, TheSums(f, S)) BY SumsExist DEF TheSums
<1>. HIDE DEF TheSums
<1>. QED BY <1>1 DEF Summing

(* Strong induction over the subsets of a finite set, as a least           *)
(* counterexample.                                                         *)
LEMMA LeastSubset ==
  ASSUME NEW S, IsFiniteSet(S), NEW Bad \in SUBSET (SUBSET S), Bad # {}
  PROVE  \E s \in Bad : \A x \in s : s \ {x} \notin Bad
<1> DEFINE T == {Cardinality(s) : s \in Bad}
<1>1. \A s \in Bad : IsFiniteSet(s) /\ Cardinality(s) \in Nat BY FS_Subset, FS_CardinalityType
<1>2. T \in SUBSET Nat /\ T # {} BY <1>1
<1>3. PICK n \in T : \A y \in T : n <= y
  <2>. HIDE DEF T
  <2>. QED BY <1>2, LeastNatural
<1>4. PICK s \in Bad : Cardinality(s) = n BY <1>3
<1>5. ASSUME NEW x \in s, s \ {x} \in Bad PROVE FALSE
  <2>1. Cardinality(s \ {x}) = Cardinality(s) - 1 /\ Cardinality(s) \in Nat BY <1>1, OneLess
  <2>2. n <= Cardinality(s \ {x}) BY <1>3, <1>5
  <2>. QED BY <2>1, <2>2, <1>4
<1>. QED BY <1>5

(* Sums of two functions that agree on a set are equal.                    *)
LEMMA SumsAgree ==
  ASSUME NEW f, NEW S, IsFiniteSet(S), NEW h, NEW R, IsFiniteSet(R),
         NEW u, u \subseteq S, u \subseteq R, \A x \in u : f[x] = h[x]
  PROVE  TheSums(f, S)[u] = TheSums(h, R)[u]
<1> DEFINE Bad == {s \in SUBSET u : TheSums(f, S)[s] # TheSums(h, R)[s]}
<1>1. IsFiniteSet(u) BY FS_Subset
<1>2. SUFFICES ASSUME Bad # {} PROVE FALSE OBVIOUS
<1>3. PICK s \in Bad : \A x \in s : s \ {x} \notin Bad
  <2>1. Bad \in SUBSET (SUBSET u) OBVIOUS
  <2>. HIDE DEF Bad
  <2>. QED BY <1>1, <1>2, <2>1, LeastSubset
<1>4. s \in SUBSET S /\ s \in SUBSET R OBVIOUS
<1>5. TheSums(f, S)[s] = AddUp(f, TheSums(f, S), s) /\ TheSums(h, R)[s] = AddUp(h, TheSums(h, R), s)
  BY <1>4, SumsAddUp
<1>6. CASE s = {} BY <1>5, <1>6 DEF AddUp
<1>7. CASE s # {}
  <2>1. Pick(s) \in s BY <1>7, PickIn
  <2>2. f[Pick(s)] = h[Pick(s)] /\ TheSums(f, S)[s \ {Pick(s)}] = TheSums(h, R)[s \ {Pick(s)}]
    BY <2>1, <1>3
  <2>. QED BY <2>2, <1>5, <1>7 DEF AddUp
<1>. QED BY <1>6, <1>7

(* Sums of natural numbers are natural numbers.                            *)
LEMMA SumsTyped ==
  ASSUME NEW S, IsFiniteSet(S), NEW f, \A x \in S : f[x] \in Nat, NEW u \in SUBSET S
  PROVE  TheSums(f, S)[u] \in Nat
<1> DEFINE Bad == {s \in SUBSET S : TheSums(f, S)[s] \notin Nat}
<1>2. SUFFICES ASSUME Bad # {} PROVE FALSE OBVIOUS
<1>3. PICK s \in Bad : \A x \in s : s \ {x} \notin Bad
  <2>1. Bad \in SUBSET (SUBSET S) OBVIOUS
  <2>. HIDE DEF Bad
  <2>. QED BY <1>2, <2>1, LeastSubset
<1>5. TheSums(f, S)[s] = AddUp(f, TheSums(f, S), s) BY SumsAddUp
<1>6. CASE s = {} BY <1>5, <1>6 DEF AddUp
<1>7. CASE s # {}
  <2>1. Pick(s) \in s BY <1>7, PickIn
  <2>2. f[Pick(s)] \in Nat /\ TheSums(f, S)[s \ {Pick(s)}] \in Nat BY <2>1, <1>3
  <2>. QED BY <2>2, <1>5, <1>7 DEF AddUp
<1>. QED BY <1>6, <1>7

(* Any element may be taken out first.                                     *)
LEMMA SumsSplit ==
  ASSUME NEW S, IsFiniteSet(S), NEW f, \A x \in S : f[x] \in Nat, NEW u \in SUBSET S, NEW a \in u
  PROVE  TheSums(f, S)[u] = f[a] + TheSums(f, S)[u \ {a}]
<1> DEFINE g == TheSums(f, S)
<1> DEFINE Bad == {s \in SUBSET S : \E x \in s : g[s] # f[x] + g[s \ {x}]}
<1>2. SUFFICES ASSUME Bad # {} PROVE FALSE OBVIOUS
<1>3. PICK s \in Bad : \A x \in s : s \ {x} \notin Bad
  <2>1. Bad \in SUBSET (SUBSET S) OBVIOUS
  <2>. HIDE DEF Bad
  <2>. QED BY <1>2, <2>1, LeastSubset
<1>4. PICK x \in s : g[s] # f[x] + g[s \ {x}] OBVIOUS
<1> DEFINE c == Pick(s)
<1>5. c \in s /\ g[s] = f[c] + g[s \ {c}] BY SumsAddUp, PickIn DEF AddUp
<1>6. x # c BY <1>4, <1>5
<1>. HIDE DEF c, g
<1> DEFINE rest == (s \ {c}) \ {x}
<1>7. g[s \ {c}] = f[x] + g[rest]
  <2>1. s \ {c} \in SUBSET S /\ x \in s \ {c} BY <1>6
  <2>. QED BY <1>3, <1>5, <2>1
<1>8. g[s \ {x}] = f[c] + g[rest]
  <2>1. s \ {x} \in SUBSET S /\ c \in s \ {x} BY <1>5, <1>6
  <2>2. (s \ {x}) \ {c} = rest OBVIOUS
  <2>. QED BY <1>3, <2>1, <2>2
<1>9. f[x] \in Nat /\ f[c] \in Nat /\ g[rest] \in Nat BY <1>5, SumsTyped DEF g
<1>. HIDE DEF rest
<1>10. f[c] + (f[x] + g[rest]) = f[x] + (f[c] + g[rest]) BY <1>9
<1>11. f[c] + g[s \ {c}] = f[x] + g[s \ {x}] BY <1>7, <1>8, <1>10
<1>. QED BY <1>4, <1>5, <1>11

(* The same facts of SumFunction, as the proofs about the pool cite them.  *)
LEMMA SumTyped ==
  ASSUME NEW S, IsFiniteSet(S), NEW f \in [S -> Nat]
  PROVE  SumFunction(f) \in Nat
<1>1. DOMAIN f = S OBVIOUS
<1>2. SumFunction(f) = TheSums(f, S)[S] BY <1>1, SumUnfolds DEF SumFunction, TheSums
<1>. QED BY <1>2, SumsTyped

(* Taking one element out of a function's domain.                          *)
LEMMA SumWithout ==
  ASSUME NEW S, IsFiniteSet(S), NEW f \in [S -> Nat], NEW a \in S
  PROVE  SumFunction(f) = f[a] + SumFunction([x \in S \ {a} |-> f[x]])
<1> DEFINE h == [x \in S \ {a} |-> f[x]]
<1>0. IsFiniteSet(S \ {a}) BY FS_RemoveElement
<1>1. SumFunction(f) = TheSums(f, S)[S]
  <2>1. DOMAIN f = S OBVIOUS
  <2>. QED BY <2>1, SumUnfolds DEF SumFunction, TheSums
<1>2. SumFunction(h) = TheSums(h, S \ {a})[S \ {a}]
  <2>1. DOMAIN h = S \ {a} OBVIOUS
  <2>. HIDE DEF h
  <2>. QED BY <2>1, SumUnfolds DEF SumFunction, TheSums
<1>3. TheSums(f, S)[S] = f[a] + TheSums(f, S)[S \ {a}] BY SumsSplit
<1>4. TheSums(f, S)[S \ {a}] = TheSums(h, S \ {a})[S \ {a}]
  <2>1. \A x \in S \ {a} : f[x] = h[x] OBVIOUS
  <2>. HIDE DEF h
  <2>. QED BY <1>0, <2>1, SumsAgree
<1>. QED BY <1>1, <1>2, <1>3, <1>4

(* Changing the value at one element.                                      *)
LEMMA SumChanged ==
  ASSUME NEW S, IsFiniteSet(S), NEW f \in [S -> Nat], NEW h \in [S -> Nat], NEW a \in S,
         \A x \in S \ {a} : h[x] = f[x]
  PROVE  SumFunction(h) = SumFunction(f) - f[a] + h[a]
<1>1. SumFunction(f) = f[a] + SumFunction([x \in S \ {a} |-> f[x]]) BY SumWithout
<1>2. SumFunction(h) = h[a] + SumFunction([x \in S \ {a} |-> h[x]]) BY SumWithout
<1>3. [x \in S \ {a} |-> f[x]] = [x \in S \ {a} |-> h[x]] OBVIOUS
<1>4. SumFunction([x \in S \ {a} |-> f[x]]) \in Nat
  <2>1. IsFiniteSet(S \ {a}) /\ [x \in S \ {a} |-> f[x]] \in [S \ {a} -> Nat] BY FS_RemoveElement
  <2>. QED BY <2>1, SumTyped
<1>5. f[a] \in Nat /\ h[a] \in Nat OBVIOUS
<1>. QED BY <1>1, <1>2, <1>3, <1>4, <1>5

(* Nothing adds up to zero.                                                *)
LEMMA SumEmpty == ASSUME NEW f, DOMAIN f = {} PROVE SumFunction(f) = 0
<1>1. IsFiniteSet({}) BY FS_EmptySet
<1>2. SumFunction(f) = TheSums(f, {})[{}] BY SumUnfolds DEF SumFunction, TheSums
<1>. QED BY <1>1, <1>2, SumsAddUp DEF AddUp

(* A function that is zero everywhere.                                     *)
LEMMA SumOfNothing ==
  ASSUME NEW S, IsFiniteSet(S)
  PROVE  SumFunction([x \in S |-> 0]) = 0
<1> DEFINE f == [x \in S |-> 0]
<1> DEFINE Bad == {s \in SUBSET S : TheSums(f, S)[s] # 0}
<1>1. SumFunction(f) = TheSums(f, S)[S]
  <2>1. DOMAIN f = S OBVIOUS
  <2>. HIDE DEF f
  <2>. QED BY <2>1, SumUnfolds DEF SumFunction, TheSums
<1>2. SUFFICES ASSUME Bad # {} PROVE FALSE BY <1>1
<1>3. PICK s \in Bad : \A x \in s : s \ {x} \notin Bad
  <2>1. Bad \in SUBSET (SUBSET S) OBVIOUS
  <2>. HIDE DEF Bad
  <2>. QED BY <1>2, <2>1, LeastSubset
<1>4. TheSums(f, S)[s] = AddUp(f, TheSums(f, S), s) BY SumsAddUp
<1>5. s # {} BY <1>4 DEF AddUp
<1>6. Pick(s) \in s BY <1>5, PickIn
<1>7. f[Pick(s)] = 0 /\ TheSums(f, S)[s \ {Pick(s)}] = 0 BY <1>3, <1>6
<1>. HIDE DEF f
<1>. QED BY <1>3, <1>4, <1>5, <1>7 DEF AddUp

(* The powers of ten are what their recursion says, and positive.          *)
PowerStep(g, n) == IF n = 0 THEN 1 ELSE 10 * g[n - 1]
PowersUpTo(n) == \E g : g = [i \in 0 .. n |-> PowerStep(g, i)]

LEMMA PowersExist == \A n \in Nat : PowersUpTo(n)
<1> DEFINE T == {n \in Nat : ~ PowersUpTo(n)}
<1>1. SUFFICES ASSUME T # {} PROVE FALSE OBVIOUS
<1>2. PICK m \in T : \A y \in T : m <= y BY <1>1, LeastNatural
<1>3. CASE m = 0
  <2> DEFINE g == [i \in 0 .. 0 |-> 1]
  <2>1. g = [i \in 0 .. 0 |-> PowerStep(g, i)] BY DEF PowerStep
  <2>. QED BY <1>3, <2>1 DEF PowersUpTo
<1>4. CASE m # 0
  <2>1. m \in Nat /\ m - 1 \in Nat /\ ~(m <= m - 1) BY <1>4
  <2>2. PowersUpTo(m - 1) BY <1>2, <2>1
  <2>3. PICK g : g = [i \in 0 .. m - 1 |-> PowerStep(g, i)] BY <2>2 DEF PowersUpTo
  <2> DEFINE h == [i \in 0 .. m |-> PowerStep(g, i)]
  <2>4. ASSUME NEW i \in 0 .. m PROVE PowerStep(g, i) = PowerStep(h, i)
    <3>1. CASE i = 0 BY <3>1 DEF PowerStep
    <3>2. CASE i # 0
      <4>1. i - 1 \in 0 .. m - 1 /\ i - 1 \in 0 .. m BY <3>2, <2>1
      <4>2. g[i - 1] = PowerStep(g, i - 1) BY <2>3, <4>1
      <4>3. h[i - 1] = PowerStep(g, i - 1) BY <4>1
      <4>. QED BY <3>2, <4>2, <4>3 DEF PowerStep
    <3>. QED BY <3>1, <3>2
  <2>5. h = [i \in 0 .. m |-> PowerStep(h, i)] BY <2>4
  <2>. QED BY <2>5 DEF PowersUpTo
<1>. QED BY <1>3, <1>4

LEMMA PowerRecursion == PowerOfTen = [n \in Nat |-> PowerStep(PowerOfTen, n)]
<1> DEFINE G(n) == CHOOSE g : g = [i \in 0 .. n |-> PowerStep(g, i)]
<1>1. \A n \in Nat : G(n) = [i \in 0 .. n |-> PowerStep(G(n), i)] BY PowersExist DEF PowersUpTo
<1>. HIDE DEF G
<1>2. ASSUME NEW n \in Nat, NEW k \in Nat, n <= k PROVE G(n)[n] = G(k)[n]
  <2> DEFINE T == {i \in 0 .. n : G(n)[i] # G(k)[i]}
  <2>1. SUFFICES ASSUME T # {} PROVE FALSE OBVIOUS
  <2>2. T \in SUBSET Nat OBVIOUS
  <2>3. PICK m \in T : \A y \in T : m <= y
    <3>. HIDE DEF T
    <3>. QED BY <2>1, <2>2, LeastNatural
  <2>4. m \in 0 .. n /\ m \in 0 .. k BY <1>2
  <2>5. G(n)[m] = PowerStep(G(n), m) /\ G(k)[m] = PowerStep(G(k), m) BY <1>1, <2>4
  <2>6. CASE m = 0 BY <2>5, <2>6 DEF PowerStep
  <2>7. CASE m # 0
    <3>1. m - 1 \in 0 .. n /\ ~(m <= m - 1) BY <2>4, <2>7
    <3>2. G(n)[m - 1] = G(k)[m - 1] BY <2>3, <3>1
    <3>. QED BY <2>5, <2>7, <3>2 DEF PowerStep
  <2>. QED BY <2>6, <2>7
<1> DEFINE P == [n \in Nat |-> G(n)[n]]
<1>3. ASSUME NEW n \in Nat PROVE P[n] = PowerStep(P, n)
  <2>1. P[n] = PowerStep(G(n), n)
    <3>1. n \in 0 .. n OBVIOUS
    <3>. QED BY <1>1, <3>1
  <2>2. CASE n = 0 BY <2>1, <2>2 DEF PowerStep
  <2>3. CASE n # 0
    <3>1. n - 1 \in Nat /\ n - 1 <= n BY <2>3
    <3>2. G(n - 1)[n - 1] = G(n)[n - 1] BY <1>2, <3>1
    <3>. QED BY <2>1, <2>3, <3>1, <3>2 DEF PowerStep
  <2>. QED BY <2>2, <2>3
<1>4. P = [n \in Nat |-> PowerStep(P, n)] BY <1>3
<1>. HIDE DEF P
<1>. QED BY <1>4 DEF PowerOfTen, PowerStep

LEMMA PowerPositive == \A n \in Nat : PowerOfTen[n] \in Nat \ {0}
<1> DEFINE T == {n \in Nat : PowerOfTen[n] \notin Nat \ {0}}
<1>1. SUFFICES ASSUME T # {} PROVE FALSE OBVIOUS
<1>2. PICK m \in T : \A y \in T : m <= y BY <1>1, LeastNatural
<1>3. PowerOfTen[m] = PowerStep(PowerOfTen, m) BY PowerRecursion
<1>4. CASE m = 0 BY <1>3, <1>4 DEF PowerStep
<1>5. CASE m # 0
  <2>1. m - 1 \in Nat /\ ~(m <= m - 1) BY <1>5
  <2>2. PowerOfTen[m - 1] \in Nat \ {0} BY <1>2, <2>1
  <2>. QED BY <1>3, <1>5, <2>2 DEF PowerStep
<1>. QED BY <1>4, <1>5
=============================================================================
