-------------------------- MODULE MCSettlementOracle ------------------------
(***************************************************************************)
(* Instances of SettlementOracle for TLC.  A unit of time stands for the   *)
(* smallest duration that matters; the durations keep the order and the    *)
(* relations the program gives them.                                       *)
(***************************************************************************)
EXTENDS SettlementOracle

CONSTANTS nvda, m1, m2

BaseTerms ==
  [symbol |-> nvda, strike |-> 2, expiry |-> 3, window |-> 1, grace |-> 1,
   staleness |-> 3, maxConfidenceBps |-> 2000, priceScale |-> 1]

(* One market; its staleness is the cleanup buffer, the longest allowed.   *)
OneMarket == [m \in {m1} |-> BaseTerms]

(* Two strikes of one series: one (symbol, expiry), two windows and two    *)
(* confidence bounds.                                                      *)
TwoStrikes ==
  [m \in {m1, m2} |->
     IF m = m1
       THEN [BaseTerms EXCEPT !.staleness = 2]
       ELSE [BaseTerms EXCEPT !.strike = 3, !.window = 2, !.maxConfidenceBps = 1000]]

(* A price that must be rounded, one whose confidence is too wide but      *)
(* would pass if rounded down, one in the market's own scale, and one that *)
(* leaves u64 when it is rescaled.                                         *)
PythQuotations ==
  {[price |-> 59, confidence |-> 9, exponent |-> -1],
   [price |-> 59, confidence |-> 19, exponent |-> -1],
   [price |-> 7, confidence |-> 0, exponent |-> 0],
   [price |-> 2, confidence |-> 0, exponent |-> 1]}

(* The second is confident enough for the first strike only.               *)
FeedQuotations == {[price |-> 5, confidence |-> 0], [price |-> 7, confidence |-> 1]}

OneQuotation == {[price |-> 5, confidence |-> 0, exponent |-> 0]}
NoQuotations == {}
=============================================================================
