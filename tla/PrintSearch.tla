----------------------------- MODULE PrintSearch ----------------------------
(***************************************************************************)
(* How the cranker finds the Pyth print to settle a market with            *)
(* (fetchPythUpdateForSettlement, vsol/scripts/lib/settlement.ts): pick    *)
(* the tier the clock allows, start at the feed's newest print, and walk   *)
(* back until a print meets everything the program will ask of it.         *)
(*                                                                         *)
(* The feed is external: a print per second or none.  Asked for a second at*)
(* which nothing was published, Hermes answers with a print shortly after, *)
(* or 404.  The walk's clock reading is taken before it and not renewed,   *)
(* and it weighs a print's raw numbers where the program weighs them in the*)
(* market's price scale (QuotationOk).                                     *)
(***************************************************************************)
EXTENDS SettlementDecisions

CONSTANTS
  market,                            \* the market to settle
  Seconds,                           \* the seconds of the feed's history
  Quotations,                        \* what Pyth may print: price, confidence, exponent
  SLACK,                             \* how much later than asked Hermes' print may be
  GAP_STEP, GAP_GROWTH, GAP_MAX, MAX_PROBES

\* The history covers every second of which a print may settle the market.
ASSUME SearchAssumption ==
  /\ market \in Markets /\ Seconds \subseteq Int
  /\ (Terms[market].expiry - Terms[market].staleness) .. ObservationEnd(market) \subseteq Seconds
  /\ Quotations \subseteq [price : Nat \ {0}, confidence : Nat, exponent : -18 .. 18]
  /\ {SLACK, MAX_PROBES} \subseteq Nat /\ {GAP_STEP, GAP_GROWTH, GAP_MAX} \subseteq Nat \ {0}

VARIABLES
  feed,                              \* what was published, second by second
  readAt,                            \* the clock reading
  search                             \* where the search is

searchVars == <<feed, readAt, search>>

Dark == [price |-> 0, confidence |-> 0, exponent |-> 0]
Lower(a, b) == IF a <= b THEN a ELSE b

SearchInit ==
  /\ feed \in [Seconds -> {Dark} \union Quotations]
  /\ readAt \in Terms[market].expiry .. computeFinalSettlementDeadline(market)
  /\ search = [at |-> "select", tier |-> "none", anchor |-> 0, timestamp |-> 0,
               gapStep |-> GAP_STEP, probes |-> 0, seen |-> FALSE]

Upper == IF search.tier = "tier-one" THEN computeObservationEnd(market) ELSE Terms[market].expiry
Floor == Terms[market].expiry - (IF search.tier = "tier-one" THEN 0 ELSE Terms[market].staleness)

Select ==
  LET tier == selectViableSettlementTier(market, readAt)
  IN /\ search.at = "select"
     /\ search' = [search EXCEPT !.at = IF tier = "none" THEN "not viable" ELSE "anchor", !.tier = tier]
     /\ UNCHANGED <<feed, readAt>>

\* The newest print there is, or the tier's last second when Hermes cannot say.
Anchor ==
  /\ search.at = "anchor"
  /\ \E start \in {Upper} \union {Lower(Upper, t) : t \in
          {t \in Seconds : feed[t] # Dark /\ \A u \in Seconds : u > t => feed[u] = Dark}} :
       search' = [search EXCEPT !.at = "walk", !.anchor = start, !.timestamp = start]
  /\ UNCHANGED <<feed, readAt>>

isSettlementPrintAcceptable_AnyConfidence(publishTime) ==
  IF search.tier = "tier-one"
  THEN publishTime >= Terms[market].expiry /\ publishTime <= computeObservationEnd(market)
  ELSE /\ publishTime <= Terms[market].expiry
       /\ Terms[market].expiry - publishTime <= Terms[market].staleness \* mutant: judged by its time alone

isSettlementPrintAcceptable(publishTime) ==
  /\ IF search.tier = "tier-one"
     THEN publishTime >= Terms[market].expiry /\ publishTime <= computeObservationEnd(market)
     ELSE /\ publishTime <= Terms[market].expiry
          /\ Terms[market].expiry - publishTime <= Terms[market].staleness
  /\ ConfidenceOk(feed[publishTime].price, feed[publishTime].confidence, Terms[market].maxConfidenceBps)

\* Where a probe may land: on the second asked for, else shortly after it.
Prints(t) == {p \in Seconds : p >= t /\ p <= t + SLACK /\ feed[p] # Dark
                                /\ \A u \in Seconds : u >= t /\ u < p => feed[u] = Dark}

MayProbe == search.at = "walk" /\ search.timestamp >= Floor /\ search.probes < MAX_PROBES

\* 404: the walk leaps back, further each time.
ProbeAbsent ==
  /\ MayProbe
  /\ search.timestamp \notin Seconds \/ feed[search.timestamp] = Dark
  /\ search' = [search EXCEPT !.probes = @ + 1, !.timestamp = @ - search.gapStep,
                              !.gapStep = Lower(@ * GAP_GROWTH, GAP_MAX)]
  /\ UNCHANGED <<feed, readAt>>

\* Rejected: the next probe is at the second before the print.
stepBack(publishTime) ==
  IF publishTime - 1 < search.timestamp THEN publishTime - 1 ELSE search.timestamp - 1

\* An acceptable print ends the walk; it must not be later than the clock reading.
ProbePrint(publishTime) ==
  /\ MayProbe
  /\ publishTime \in Prints(search.timestamp)
  /\ search' =
       IF ~isSettlementPrintAcceptable(publishTime)
       THEN [search EXCEPT !.probes = @ + 1, !.seen = TRUE, !.gapStep = GAP_STEP,
                           !.timestamp = stepBack(publishTime)]
       ELSE IF search.tier = "tier-one" /\ publishTime > readAt
       THEN [search EXCEPT !.at = "too early"]
       ELSE [search EXCEPT !.at = "found", !.timestamp = publishTime]
  /\ UNCHANGED <<feed, readAt>>

\* Any other error is an error, never an absence.
ProbeFails ==
  /\ MayProbe
  /\ search' = [search EXCEPT !.at = "failed"]
  /\ UNCHANGED <<feed, readAt>>

GiveUp ==
  /\ search.at = "walk" /\ ~MayProbe
  /\ search' = [search EXCEPT !.at = IF search.seen THEN "confidence_too_wide" ELSE "no_print_available"]
  /\ UNCHANGED <<feed, readAt>>

SearchNext ==
  \/ Select \/ Anchor \/ ProbeAbsent \/ ProbeFails \/ GiveUp
  \/ \E publishTime \in Seconds : ProbePrint(publishTime)

SearchSpec == SearchInit /\ [][SearchNext]_searchVars

-----------------------------------------------------------------------------
(* Dated as publish_pyth_settlement asks it of a print published at t.     *)
InTime(publishTime, t) ==
  \/ /\ Expiry(market) <= publishTime /\ publishTime <= ObservationEnd(market)
     /\ publishTime <= t
  \/ /\ t > TierTwoOpenAt(market)
     /\ publishTime <= Expiry(market)
     /\ Expiry(market) - publishTime <= Terms[market].staleness

(* The raw confidence is within its bound, but by less than one unit of a  *)
(* price scale that does not express the print exactly, so that the        *)
(* program's rounding decides.                                             *)
AtRoundingEdge(q) ==
  LET scale == Terms[market].priceScale
      bound == Terms[market].maxConfidenceBps
  IN /\ q.exponent < 0 /\ PrintPower(q) * (scale \div PrintPower(q)) # scale
     /\ ConfidenceOk(q.price, q.confidence, bound)
     /\ ~ConfidenceOk(q.price * scale - PrintPower(q), q.confidence * scale + PrintPower(q), bound)

Representable(q) == PrintPrice(market, q) \in U64 /\ PrintConfidence(market, q) \in U64

(* The seconds from which every one up to the anchor has a print.          *)
Unbroken == {t \in Seconds : Floor <= t /\ t <= search.anchor
                               /\ \A u \in Seconds : t <= u /\ u <= search.anchor => feed[u] # Dark}

(* A found print is dated as the program asks when it is read and at any   *)
(* later time the program still publishes, and its numbers are those the   *)
(* program takes, unless they do not fit a u64 or its rounding decides; and*)
(* the walk passes over no print the program would take, except across a   *)
(* second in which nothing was published (settlement.ts:851-873), so a     *)
(* search that reports none had none within its probes.                    *)
SearchIsSound ==
  /\ search.at = "found" =>
       /\ \A t \in readAt .. FinalDeadline(market) : InTime(search.timestamp, t)
       /\ LET q == feed[search.timestamp]
          IN Representable(q) /\ ~AtRoundingEdge(q) => QuotationOk(market, q)
       /\ \A t \in Unbroken : t > search.timestamp => ~QuotationOk(market, feed[t])
  /\ search.at \in {"confidence_too_wide", "no_print_available"} =>
       \A t \in Unbroken : search.anchor - t < MAX_PROBES => ~QuotationOk(market, feed[t])

(* Without the exceptions: who posts what the search returns "can never hit*)
(* either kind of on-chain rejection" (settlement.ts:1036-1041).           *)
FoundPrintsAreTaken ==
  search.at = "found" =>
    /\ QuotationOk(market, feed[search.timestamp])
    /\ \A t \in readAt .. FinalDeadline(market) : InTime(search.timestamp, t)
=============================================================================
