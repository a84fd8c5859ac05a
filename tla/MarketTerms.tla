----------------------------- MODULE MarketTerms ----------------------------
(***************************************************************************)
(* The immutable terms of a market and the instants computed from them.    *)
(* A market's address is the hash of all its terms (market_id), so a       *)
(* market is identified with its terms: Terms[m] never changes, and two    *)
(* markets differ in at least one term.                                    *)
(*                                                                         *)
(*     expiry          observationEnd    deadline  tierTwoOpen  final      *)
(*   ----|----- window -----|---- grace ----|-- priority --|------|--->    *)
(*       tier-1 prints are dated here       refund opens    tier 2 opens   *)
(*                                          |------ staleness ----|        *)
(***************************************************************************)
EXTENDS VsolMath

CONSTANTS
  Markets,                           \* the markets of the instance
  Symbols,                           \* the underlyings
  Terms,                             \* Terms[m]: the arguments m is created with
  MIN_MARKET_LEAD,                   \* 15 s in the program
  MAX_OBSERVATION_WINDOW,            \* 3600 s
  MAX_SETTLEMENT_GRACE,              \* 604800 s
  MAX_SETTLEMENT_STALENESS,          \* 604800 s
  STALENESS_TO_WINDOW_RATIO,         \* 100
  SETTLEMENT_REFUND_PRIORITY,        \* 60 s
  MARKET_CLEANUP_BUFFER              \* 604800 s

TermsRecord ==
  [symbol : Symbols, strike : Nat \ {0}, expiry : Nat \ {0},
   window : Nat \ {0}, grace : Nat \ {0}, staleness : Nat \ {0},
   maxConfidenceBps : 1 .. 2000, priceScale : Nat \ {0}]

ASSUME TermsAssumption == Terms \in [Markets -> TermsRecord]

ASSUME TermsIdentifyMarkets ==
  \A m1, m2 \in Markets : Terms[m1] = Terms[m2] => m1 = m2

ASSUME DurationsAssumption ==
  /\ MIN_MARKET_LEAD \in Nat
  /\ MAX_OBSERVATION_WINDOW \in Nat
  /\ MAX_SETTLEMENT_GRACE \in Nat
  /\ MAX_SETTLEMENT_STALENESS \in Nat
  /\ STALENESS_TO_WINDOW_RATIO \in Nat
  /\ SETTLEMENT_REFUND_PRIORITY \in Nat
  /\ MARKET_CLEANUP_BUFFER \in Nat

(* Equal in the program; the code relies on this direction of it.          *)
ASSUME StalenessWithinCleanup ==
  MAX_SETTLEMENT_STALENESS <= MARKET_CLEANUP_BUFFER

-----------------------------------------------------------------------------
Expiry(m) == Terms[m].expiry

ObservationEnd(m) == Expiry(m) + Terms[m].window

(* After this instant an unsettled position may be refunded.               *)
SettlementDeadline(m) == ObservationEnd(m) + Terms[m].grace

(* After this instant the last-known-price tier may publish.               *)
TierTwoOpenAt(m) == SettlementDeadline(m) + SETTLEMENT_REFUND_PRIORITY

(* After this instant nothing may publish.                                 *)
FinalDeadline(m) == SettlementDeadline(m) + Terms[m].staleness

(* After this instant the market account may be closed.                    *)
CleanupDeadline(m) == SettlementDeadline(m) + MARKET_CLEANUP_BUFFER

(* The checks create_market makes on the terms alone.                      *)
ValidTerms(m) ==
  /\ Terms[m].window <= MAX_OBSERVATION_WINDOW
  /\ Terms[m].grace <= MAX_SETTLEMENT_GRACE
  /\ Terms[m].staleness <= MAX_SETTLEMENT_STALENESS
  /\ Terms[m].staleness <= (Terms[m].window + Terms[m].grace) * STALENESS_TO_WINDOW_RATIO

-----------------------------------------------------------------------------
(* A print's price and confidence in the market's price scale.             *)
PrintPower(p) == PowerOfTen[IF p.exponent >= 0 THEN p.exponent ELSE - p.exponent]

PrintPrice(m, p) ==
  NormalizeDown(p.price, p.exponent, Terms[m].priceScale, PrintPower(p))

PrintConfidence(m, p) ==
  NormalizeUp(p.confidence, p.exponent, Terms[m].priceScale, PrintPower(p))

(* What the program asks of a print's numbers, whatever its date.          *)
QuotationOk(m, p) ==
  /\ p.price > 0
  /\ PrintPrice(m, p) \in U64
  /\ PrintConfidence(m, p) \in U64
  /\ ConfidenceOk(PrintPrice(m, p), PrintConfidence(m, p), Terms[m].maxConfidenceBps)

=============================================================================
