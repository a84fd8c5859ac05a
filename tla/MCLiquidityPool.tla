--------------------------- MODULE MCLiquidityPool --------------------------
(***************************************************************************)
(* Instances of LiquidityPool for TLC.  The durations keep the order and   *)
(* the relations the program gives them; amounts are small enough for      *)
(* every rounding to show.                                                 *)
(***************************************************************************)
EXTENDS LiquidityPool, TLC

CONSTANTS nvda, m1, alice, bob, carol, treasury, k1, k2

BaseTerms ==
  [symbol |-> nvda, strike |-> 2, expiry |-> 3, window |-> 1, grace |-> 1,
   staleness |-> 2, maxConfidenceBps |-> 2000, priceScale |-> 1]

OneMarket == [m \in {m1} |-> BaseTerms]

BaseQuote ==
  [authority |-> k1, nonce |-> 1, market |-> m1, buyer |-> bob, direction |-> "up",
   strike |-> 2, width |-> 2, premium |-> 1, maxPayout |-> 3, quoteExpiry |-> 2,
   domainVersion |-> 1]

SmallQuote == [BaseQuote EXCEPT !.nonce = 2, !.maxPayout = 1, !.direction = "down"]

OneQuote == {BaseQuote}

(* Two positions a pool of five tokens can carry at once.                  *)
TwoQuotes == {BaseQuote, SmallQuote}

(* And a third that fits next to the small one only.                       *)
ThreeQuotes == TwoQuotes \cup {[BaseQuote EXCEPT !.nonce = 3, !.maxPayout = 2]}

RichBuyer == (alice :> 5) @@ (bob :> 3) @@ (treasury :> 0)

Caps == [quoteAuthority |-> k1, maxUtilizationBps |-> 8000, maxPositionBps |-> 8000]
OneCap == {Caps}
TwoCaps == {Caps, [Caps EXCEPT !.maxUtilizationBps = 7000, !.maxPositionBps = 7000]}
=============================================================================
