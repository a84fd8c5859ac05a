--------------------------- MODULE MCOracleRunner ---------------------------
(***************************************************************************)
(* Instances of OracleRunner for TLC: boundaries at 4, 8 and 12, a capture *)
(* window of two units of which the wake-up offset takes one, and a refund *)
(* deadline that falls before the next boundary's pass.                    *)
(***************************************************************************)
EXTENDS OracleRunner

CONSTANTS nvda, m1, m2, p1, p2

BaseTerms ==
  [symbol |-> nvda, strike |-> 2, expiry |-> 4, window |-> 2, grace |-> 1,
   staleness |-> 3, maxConfidenceBps |-> 2000, priceScale |-> 1]

TwoBoundaries ==
  [m \in {m1, m2} |-> IF m = m1 THEN BaseTerms ELSE [BaseTerms EXCEPT !.expiry = 8]]

OnePositionEach == [p \in {p1, p2} |-> IF p = p1 THEN m1 ELSE m2]
=============================================================================
