------------------------- MODULE SettlementDecisions ------------------------
(***************************************************************************)
(* The pure half of vsol/scripts/lib/settlement.ts and market-selection.ts:*)
(* which market to publish, which position to settle or refund and which   *)
(* market to close, decided off chain from a snapshot and a clock reading  *)
(* t.  The instants are recomputed in TypeScript from the market account;  *)
(* OracleRunnerProofs shows that they are the program's own and that what  *)
(* is decided at t is still right at any later time.                       *)
(***************************************************************************)
EXTENDS MarketTerms

computeObservationEnd(m) == Terms[m].expiry + Terms[m].window

computeSettlementDeadline(m) == computeObservationEnd(m) + Terms[m].grace

computeTierTwoOpenAt(m) ==
  computeSettlementDeadline(m) + SETTLEMENT_REFUND_PRIORITY

computeFinalSettlementDeadline(m) ==
  computeSettlementDeadline(m) + Terms[m].staleness

computeMarketCloseDeadline(m) ==
  computeSettlementDeadline(m) + MARKET_CLEANUP_BUFFER

-----------------------------------------------------------------------------
(* Which publications, settlements and refunds are worth a transaction.    *)

decideMarketPublishAction(m, t, finalized) ==
  IF finalized \/ t < Terms[m].expiry \/ t > computeFinalSettlementDeadline(m)
    THEN "skip" ELSE "publish"

selectViableSettlementTier(m, t) ==
  CASE Terms[m].expiry <= t /\ t <= computeObservationEnd(m) -> "tier-one"
    [] computeTierTwoOpenAt(m) < t /\ t <= computeFinalSettlementDeadline(m) -> "tier-two"
    [] OTHER -> "none"

decidePositionAction_AtTheDeadline(m, t, finalized) ==
  CASE t < Terms[m].expiry -> "skip"
    [] t >= Terms[m].expiry /\ finalized -> "settle"
    [] t >= computeSettlementDeadline(m) /\ ~finalized -> "refund"
    [] OTHER -> "skip" \* mutant: the refund one second early

decidePositionAction(m, t, finalized) ==
  CASE t < Terms[m].expiry -> "skip"
    [] t >= Terms[m].expiry /\ finalized -> "settle"
    [] t > computeSettlementDeadline(m) /\ ~finalized -> "refund"
    [] OTHER -> "skip"

-----------------------------------------------------------------------------
(* The work lists.  "open" is the set of markets with an open position.    *)

selectMarketsNeedingSettlementAttempt(ms, t, finalized, open) ==
  {m \in ms : t >= Terms[m].expiry /\ m \notin finalized /\ m \in open}

selectMarketsAtBoundaryWithOpenInterest(ms, boundary, open) ==
  {m \in ms : Terms[m].expiry = boundary /\ m \in open}

selectExpiredMarketsWithOpenInterest(ms, t, open) ==
  {m \in ms : Terms[m].expiry <= t /\ m \in open}

selectMarketCloseCandidates(ms, t, open) ==
  {m \in ms : t > computeMarketCloseDeadline(m) /\ m \notin open}

(* A binding account as read: legacy accounts carry no position count.     *)
Binding(enabled, known, count) ==
  [enabled |-> enabled, openPositionsKnown |-> known, openPositions |-> count]

IsIdleBinding(b) == ~b.enabled /\ b.openPositionsKnown /\ b.openPositions = 0

selectIdlePoolBindingFor_AnyIdleOne(bindings) ==
  {q \in DOMAIN bindings : IsIdleBinding(bindings[q])} \* mutant: one idle binding is enough

(* The pools whose binding may be handed to close_settled_market: one of   *)
(* the market's bindings, and only when every one of them is idle.         *)
selectIdlePoolBindingFor(bindings) ==
  IF \A q \in DOMAIN bindings : IsIdleBinding(bindings[q]) THEN DOMAIN bindings ELSE {}

=============================================================================
