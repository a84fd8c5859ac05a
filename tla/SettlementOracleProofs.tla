------------------------ MODULE SettlementOracleProofs ----------------------
(***************************************************************************)
(* What the two publishers guarantee for every set of markets, terms,      *)
(* keys, prints and feed values.                                           *)
(***************************************************************************)
EXTENDS SettlementOracle, VsolMathProofs, TLAPS

USE TermsAssumption, DurationsAssumption, MaxU64Assumption, AuthoritiesAssumption,
    QuotationsAssumption, CustomAgesAssumption, BoundsAssumption

-----------------------------------------------------------------------------
(* The terms of a market, field by field.                                  *)
LEMMA FieldsTyped ==
  ASSUME NEW m \in Markets
  PROVE  /\ Terms[m].symbol \in Symbols /\ Terms[m].expiry \in Nat
         /\ Terms[m].window \in Nat /\ Terms[m].grace \in Nat
         /\ Terms[m].staleness \in Nat /\ Terms[m].priceScale \in Nat
<1>1. Terms[m] \in TermsRecord OBVIOUS
<1>. QED BY <1>1 DEF TermsRecord

(* The instants of a market are natural numbers, in this order.            *)
LEMMA InstantsTyped ==
  ASSUME NEW m \in Markets
  PROVE  /\ Terms[m] \in TermsRecord
         /\ Expiry(m) \in Nat
         /\ ObservationEnd(m) \in Nat
         /\ SettlementDeadline(m) \in Nat
         /\ FinalDeadline(m) \in Nat
         /\ CleanupDeadline(m) \in Nat
         /\ Expiry(m) <= ObservationEnd(m)
         /\ ObservationEnd(m) <= SettlementDeadline(m)
         /\ SettlementDeadline(m) <= FinalDeadline(m)
<1>1. Terms[m] \in TermsRecord OBVIOUS
<1>3. Expiry(m) \in Nat /\ ObservationEnd(m) = Expiry(m) + Terms[m].window
  BY FieldsTyped DEF Expiry, ObservationEnd
<1>4. SettlementDeadline(m) = ObservationEnd(m) + Terms[m].grace
  BY DEF SettlementDeadline
<1>5. /\ FinalDeadline(m) = SettlementDeadline(m) + Terms[m].staleness
      /\ CleanupDeadline(m) = SettlementDeadline(m) + MARKET_CLEANUP_BUFFER
      /\ MARKET_CLEANUP_BUFFER \in Nat
  BY DEF FinalDeadline, CleanupDeadline
<1>. QED BY <1>1, <1>3, <1>4, <1>5, FieldsTyped

(* A market with valid terms can no longer be settled when it may be       *)
(* closed: what close_settled_market relies on.                            *)
LEMMA FinalBeforeCleanup ==
  ASSUME NEW m \in Markets, ValidTerms(m)
  PROVE  FinalDeadline(m) <= CleanupDeadline(m)
<1>1. Terms[m] \in TermsRecord OBVIOUS
<1>. QED
  BY <1>1, StalenessWithinCleanup
     DEF TermsRecord, ValidTerms, Expiry, ObservationEnd, SettlementDeadline,
         FinalDeadline, CleanupDeadline

LEMMA KeysTyped == \A m \in Markets : ObservationKey(m) \in ObservationKeys
BY DEF ObservationKey, ObservationKeys

LEMMA EmptyAccountsTyped ==
  /\ ZeroOracle \in OracleRecord
  /\ NoFeed \in FeedRecord
  /\ NoObservation \in ObservationRecord
BY DEF ZeroOracle, OracleRecord, NoFeed, FeedRecord, NoObservation, ObservationRecord, U64

-----------------------------------------------------------------------------
(* Type correctness.                                                       *)
LEMMA InitTypeOK == Init => TypeOK
<1>. SUFFICES ASSUME Init PROVE TypeOK OBVIOUS
<1>. USE DEF Init
<1>1. now \in 0 .. MaxTime /\ oracleAuthority \in Authorities
  OBVIOUS
<1>2. /\ paused \in BOOLEAN
      /\ market \in [Markets -> {"absent", "live", "closed"}]
      /\ prints \subseteq PrintRecord
  OBVIOUS
<1>3. /\ oracle \in [Markets -> OracleRecord]
      /\ feed \in [Symbols -> FeedRecord]
      /\ observation \in [ObservationKeys -> ObservationRecord]
  BY EmptyAccountsTyped
<1>. QED BY <1>1, <1>2, <1>3 DEF TypeOK

LEMMA NextTypeOK == TypeOK /\ [Next]_vars => TypeOK'
<1>. SUFFICES ASSUME TypeOK, [Next]_vars PROVE TypeOK' OBVIOUS
<1>. USE DEF TypeOK
<1>1. ASSUME NEW m \in Markets, CreateMarket(m) PROVE TypeOK'
  BY <1>1, EmptyAccountsTyped DEF CreateMarket
<1>2. ASSUME NEW m \in Markets, CaptureCustomSettlementObservation(m) PROVE TypeOK'
  <2>1. Terms[m] \in TermsRecord OBVIOUS
  <2>2. feed[Terms[m].symbol] \in FeedRecord BY FieldsTyped
  <2>. DEFINE f == feed[Terms[m].symbol]
              o == [exists |-> TRUE, priceScale |-> Terms[m].priceScale,
                    price |-> f.price, confidence |-> f.confidence,
                    observedAt |-> f.publishedAt, capturedAt |-> now, publisher |-> f.publisher]
  <2>3. o \in ObservationRecord
    <3>1. /\ f.price \in U64 /\ f.confidence \in U64 /\ f.publishedAt \in Nat
          /\ f.publisher \in Authorities \cup {NoAuthority}
      BY <2>2 DEF FeedRecord
    <3>2. Terms[m].priceScale \in Nat BY FieldsTyped
    <3>3. now \in Nat BY BoundsAssumption
    <3>. HIDE DEF f
    <3>. QED BY <3>1, <3>2, <3>3 DEF ObservationRecord
  <2>4. observation' = [observation EXCEPT ![ObservationKey(m)] = o]
    BY <1>2 DEF CaptureCustomSettlementObservation
  <2>. HIDE DEF o
  <2>5. observation' \in [ObservationKeys -> ObservationRecord] BY <2>3, <2>4, KeysTyped
  <2>. QED BY <1>2, <2>5 DEF CaptureCustomSettlementObservation
<1>3. ASSUME NEW m \in Markets, PublishCustomSettlement(m) PROVE TypeOK'
  <2>1. observation[ObservationKey(m)] \in ObservationRecord BY KeysTyped
  <2>2. oracle' \in [Markets -> OracleRecord]
    BY <1>3, <2>1 DEF PublishCustomSettlement, ObservationRecord, OracleRecord
  <2>3. observation' \in [ObservationKeys -> ObservationRecord]
    BY <1>3, EmptyAccountsTyped DEF PublishCustomSettlement
  <2>. QED BY <1>3, <2>2, <2>3 DEF PublishCustomSettlement
<1>4. ASSUME NEW m \in Markets, CloseSettledMarket(m) PROVE TypeOK'
  BY <1>4, EmptyAccountsTyped DEF CloseSettledMarket
<1>5. ASSUME NEW m \in Markets, NEW p \in prints, PublishPythSettlement(m, p) PROVE TypeOK'
  <2>1. p \in PrintRecord OBVIOUS
  <2>2. oracle' \in [Markets -> OracleRecord]
    BY <1>5, <2>1 DEF PublishPythSettlement, PrintUsable, QuotationOk, PrintRecord, OracleRecord
  <2>. QED BY <1>5, <2>2 DEF PublishPythSettlement
<1>6. ASSUME NEW s \in Symbols, NEW scale \in Scales, InitCustomPriceFeed(s, scale) PROVE TypeOK'
  <2>1. [NoFeed EXCEPT !.exists = TRUE, !.priceScale = scale] \in FeedRecord
    <3>1. scale \in Nat OBVIOUS
    <3>. QED BY <3>1, EmptyAccountsTyped DEF FeedRecord
  <2>. QED BY <1>6, <2>1 DEF InitCustomPriceFeed
<1>7. ASSUME NEW s \in Symbols, NEW q \in CustomQuotations, NEW t \in 0 .. now,
             UpdateCustomPriceFeed(s, q, t)
      PROVE  TypeOK'
  <2>1. feed[s] \in FeedRecord /\ q \in [price : U64, confidence : U64] OBVIOUS
  <2>2. [feed[s] EXCEPT !.price = q.price, !.confidence = q.confidence,
                        !.publishedAt = t, !.publisher = oracleAuthority] \in FeedRecord
    <3>1. t \in Nat /\ oracleAuthority \in Authorities OBVIOUS
    <3>. QED BY <2>1, <3>1 DEF FeedRecord
  <2>3. feed' \in [Symbols -> FeedRecord]
    BY <1>7, <2>2 DEF UpdateCustomPriceFeed
  <2>. QED BY <1>7, <2>3 DEF UpdateCustomPriceFeed
<1>8. ASSUME NEW s \in Symbols, NEW q \in Quotations, PythPrint(s, q) PROVE TypeOK'
  <2>1. q \in [price : Nat, confidence : Nat, exponent : -18 .. 18] OBVIOUS
  <2>2. prints' \subseteq PrintRecord
    BY <1>8, <2>1 DEF PythPrint, PrintRecord
  <2>. QED BY <1>8, <2>2 DEF PythPrint
<1>9. ASSUME NEW a \in Authorities, RotateOracleAuthority(a) PROVE TypeOK'
  BY <1>9 DEF RotateOracleAuthority
<1>10. ASSUME NEW b \in BOOLEAN, SetPause(b) PROVE TypeOK'
  BY <1>10 DEF SetPause
<1>11. CASE Tick
  BY <1>11 DEF Tick
<1>12. CASE UNCHANGED vars
  BY <1>12 DEF vars
<1>. QED
  BY <1>1, <1>2, <1>3, <1>4, <1>5, <1>6, <1>7, <1>8, <1>9, <1>10, <1>11, <1>12 DEF Next

(* Every account keeps its shape, and every settlement price is a u64.     *)
THEOREM OracleTypeCorrect == Spec => []TypeOK
BY InitTypeOK, NextTypeOK, PTL DEF Spec

-----------------------------------------------------------------------------
(* The life of a market's two accounts: a market that exists passed the    *)
(* checks of create_market, and only an existing one has a final oracle.   *)
Lifecycle ==
  \A m \in Markets :
    /\ market[m] # "absent" => ValidTerms(m)
    /\ oracle[m].finalized => market[m] = "live"

IInv ==
  /\ TypeOK
  /\ Lifecycle
  /\ SettlementsAreDated
  /\ SettlementsAreConfident
  /\ CapturesArePublishable

LEMMA InitIInv == Init => IInv
<1>. SUFFICES ASSUME Init PROVE IInv OBVIOUS
<1>1. TypeOK BY InitTypeOK
<1>2. \A m \in Markets : market[m] = "absent" /\ oracle[m].finalized = FALSE
  BY DEF Init, ZeroOracle
<1>3. CapturesArePublishable
  BY DEF Init, NoObservation, CapturesArePublishable
<1>. QED
  BY <1>1, <1>2, <1>3 DEF IInv, Lifecycle, SettlementsAreDated, SettlementsAreConfident

(* A finalized oracle stays dated while the clock runs.                    *)
LEMMA DatedIsStable ==
  ASSUME TypeOK, NEW m \in Markets, SettlementIsDated(m),
         oracle'[m] = oracle[m], now' \in Nat, now <= now'
  PROVE  SettlementIsDated(m)'
<1>1. oracle[m] \in OracleRecord BY DEF TypeOK
<1>2. now \in Nat BY BoundsAssumption DEF TypeOK
<1>. QED
  BY <1>1, <1>2, InstantsTyped DEF SettlementIsDated, OracleRecord, Expiry, ObservationEnd,
     SettlementDeadline, FinalDeadline, CleanupDeadline

(* So does the fit of an observation.                                      *)
LEMMA FitIsStable ==
  ASSUME TypeOK, NEW m \in Markets, ObservationFits(m),
         observation'[ObservationKey(m)] = observation[ObservationKey(m)],
         now' \in Nat, now <= now'
  PROVE  ObservationFits(m)'
<1>1. observation[ObservationKey(m)] \in ObservationRecord BY KeysTyped DEF TypeOK
<1>2. now \in Nat BY BoundsAssumption DEF TypeOK
<1>. QED
  BY <1>1, <1>2, InstantsTyped DEF ObservationFits, InsideWindow, ObservationRecord, Expiry,
     ObservationEnd, ObservationKey

(* What a step must do to keep the invariant when it leaves the clock, the *)
(* observations or the oracles alone.                                      *)
LEMMA ObservationsUntouched ==
  ASSUME IInv, TypeOK', observation' = observation, now <= now'
  PROVE  CapturesArePublishable'
<1>1. now' \in Nat BY BoundsAssumption DEF TypeOK
<1>. SUFFICES ASSUME NEW k \in ObservationKeys, observation[k].exists
              PROVE  \E m \in Markets : ObservationKey(m) = k /\ ObservationFits(m)'
  BY DEF CapturesArePublishable, ObservationKey, Expiry
<1>2. PICK m \in Markets : ObservationKey(m) = k /\ ObservationFits(m)
  BY DEF IInv, CapturesArePublishable
<1>3. ObservationFits(m)' BY <1>1, <1>2, FitIsStable DEF IInv
<1>. QED BY <1>2, <1>3

LEMMA OraclesUntouched ==
  ASSUME IInv, TypeOK', oracle' = oracle, market' = market, now <= now'
  PROVE  Lifecycle' /\ SettlementsAreDated' /\ SettlementsAreConfident'
<1>1. now' \in Nat BY BoundsAssumption DEF TypeOK
<1>2. Lifecycle' BY DEF IInv, Lifecycle, ValidTerms
<1>3. SettlementsAreDated'
  <2>. SUFFICES ASSUME NEW m \in Markets, oracle'[m].finalized PROVE SettlementIsDated(m)'
    BY DEF SettlementsAreDated
  <2>1. SettlementIsDated(m) BY DEF IInv, SettlementsAreDated
  <2>. QED BY <1>1, <2>1, DatedIsStable DEF IInv
<1>4. SettlementsAreConfident' BY DEF IInv, SettlementsAreConfident, ConfidenceOk
<1>. QED BY <1>2, <1>3, <1>4

(* Writing one oracle account, whatever the publisher.                     *)
LEMMA OracleWritten ==
  ASSUME IInv, NEW m \in Markets, NEW o,
         oracle' = [oracle EXCEPT ![m] = o], o.finalized \in BOOLEAN,
         o.finalized => /\ market[m] = "live"
                        /\ SettlementIsDated(m)'
                        /\ ConfidenceOk(o.price, o.confidence, Terms[m].maxConfidenceBps),
         \A n \in Markets : n # m => market'[n] = market[n],
         o.finalized => market' = market,
         market'[m] # "absent" => ValidTerms(m),
         now' = now
  PROVE  Lifecycle' /\ SettlementsAreDated' /\ SettlementsAreConfident'
<1>. USE DEF IInv
<1>0. oracle \in [Markets -> OracleRecord] /\ now \in Nat BY BoundsAssumption DEF TypeOK
<1>1. oracle'[m] = o /\ \A n \in Markets : n # m => oracle'[n] = oracle[n] BY <1>0
<1>2. Lifecycle'
  BY <1>1 DEF Lifecycle, ValidTerms
<1>3. SettlementsAreDated'
  <2>. SUFFICES ASSUME NEW n \in Markets, oracle'[n].finalized PROVE SettlementIsDated(n)'
    BY DEF SettlementsAreDated
  <2>1. CASE n = m BY <1>1, <2>1
  <2>2. CASE n # m
    <3>1. SettlementIsDated(n) BY <1>1, <2>2 DEF SettlementsAreDated
    <3>. QED BY <1>0, <1>1, <2>2, <3>1, DatedIsStable
  <2>. QED BY <2>1, <2>2
<1>4. SettlementsAreConfident'
  <2>. SUFFICES ASSUME NEW n \in Markets, oracle'[n].finalized
                PROVE  ConfidenceOk(oracle'[n].price, oracle'[n].confidence,
                                    Terms[n].maxConfidenceBps)
    BY DEF SettlementsAreConfident, ConfidenceOk
  <2>1. CASE n = m BY <1>1, <2>1
  <2>2. CASE n # m BY <1>1, <2>2 DEF SettlementsAreConfident
  <2>. QED BY <2>1, <2>2
<1>. QED BY <1>2, <1>3, <1>4

LEMMA PythPublishKeepsIInv ==
  ASSUME IInv, TypeOK', NEW m \in Markets, NEW p \in prints, PublishPythSettlement(m, p)
  PROVE  IInv'
<1>. USE DEF IInv
<1>. DEFINE o == [price |-> PrintPrice(m, p), confidence |-> PrintConfidence(m, p),
                  observedAt |-> p.publishTime, publishedAt |-> now,
                  finalized |-> TRUE, settledFromStalePrice |-> ~TierOneOk(m, p)]
<1>1. /\ PublicationOpen(m)
      /\ TierOneOk(m, p) \/ TierTwoOk(m, p)
      /\ PrintUsable(m, p)
      /\ oracle' = [oracle EXCEPT ![m] = o]
      /\ UNCHANGED <<now, market, observation>>
  BY DEF PublishPythSettlement
<1>2. p \in PrintRecord /\ now \in Nat /\ oracle \in [Markets -> OracleRecord]
  BY BoundsAssumption DEF TypeOK
<1>3. oracle'[m] = o BY <1>1, <1>2
<1>4. ValidTerms(m) /\ market[m] = "live" BY <1>1 DEF PublicationOpen, Lifecycle
<1>5. FinalDeadline(m) <= CleanupDeadline(m) BY <1>4, FinalBeforeCleanup
<1>6. Terms[m] \in TermsRecord OBVIOUS
<1>7. p.publishTime \in Nat BY <1>2 DEF PrintRecord
<1>8. SettlementIsDated(m)'
  <2>1. /\ oracle'[m].publishedAt = now
        /\ oracle'[m].observedAt = p.publishTime
        /\ oracle'[m].settledFromStalePrice = ~TierOneOk(m, p)
        /\ now' = now
    BY <1>1, <1>3
  <2>2. /\ Expiry(m) <= now
        /\ now <= FinalDeadline(m)
        /\ now <= CleanupDeadline(m)
    BY <1>1, <1>2, <1>5, InstantsTyped DEF PublicationOpen
  <2>3. CASE TierOneOk(m, p)
    <3>1. /\ p.publishTime <= now
          /\ Expiry(m) <= p.publishTime
          /\ p.publishTime <= ObservationEnd(m)
      BY <1>2, <1>7, <2>3, InstantsTyped DEF TierOneOk
    <3>2. oracle'[m].settledFromStalePrice = FALSE BY <2>1, <2>3
    <3>. QED
      BY <2>1, <2>2, <3>1, <3>2, <1>2
         DEF SettlementIsDated, Expiry, ObservationEnd, SettlementDeadline, FinalDeadline,
             CleanupDeadline
  <2>4. CASE ~TierOneOk(m, p)
    <3>1. /\ now > SettlementDeadline(m) + SETTLEMENT_REFUND_PRIORITY
          /\ p.publishTime <= Expiry(m)
          /\ Expiry(m) <= p.publishTime + Terms[m].staleness
      <4>1. /\ now > SettlementDeadline(m) + SETTLEMENT_REFUND_PRIORITY
            /\ p.publishTime <= Expiry(m)
            /\ Expiry(m) - p.publishTime <= Terms[m].staleness
        BY <1>1, <2>4 DEF TierTwoOk, TierTwoOpenAt
      <4>2. Terms[m].staleness \in Nat BY FieldsTyped
      <4>3. Expiry(m) \in Nat BY InstantsTyped
      <4>. QED BY <1>7, <4>1, <4>2, <4>3
    <3>2. p.publishTime < Expiry(m) /\ p.publishTime <= now
      BY <1>2, <1>7, <2>2, <2>4, <3>1, InstantsTyped DEF TierOneOk
    <3>3. oracle'[m].settledFromStalePrice = TRUE BY <2>1, <2>4
    <3>. QED
      BY <2>1, <2>2, <3>1, <3>2, <3>3, <1>2
         DEF SettlementIsDated, Expiry, ObservationEnd, SettlementDeadline, FinalDeadline,
             CleanupDeadline
  <2>. QED BY <2>3, <2>4
<1>9. ConfidenceOk(o.price, o.confidence, Terms[m].maxConfidenceBps)
  BY <1>1 DEF PrintUsable, QuotationOk
<1>10. o.finalized = TRUE OBVIOUS
<1>. HIDE DEF o
<1>11. Lifecycle' /\ SettlementsAreDated' /\ SettlementsAreConfident'
  BY <1>1, <1>4, <1>8, <1>9, <1>10, OracleWritten
<1>12. CapturesArePublishable'
  BY <1>1, <1>2, ObservationsUntouched
<1>. QED BY <1>11, <1>12

LEMMA CustomPublishKeepsIInv ==
  ASSUME IInv, TypeOK', NEW m \in Markets, PublishCustomSettlement(m)
  PROVE  IInv'
<1>. USE DEF IInv
<1>. DEFINE k == ObservationKey(m)
            o == [price |-> observation[k].price, confidence |-> observation[k].confidence,
                  observedAt |-> observation[k].observedAt, publishedAt |-> now,
                  finalized |-> TRUE, settledFromStalePrice |-> FALSE]
<1>1. /\ PublicationOpen(m)
      /\ ObservationFits(m)
      /\ oracle' = [oracle EXCEPT ![m] = o]
      /\ observation' = [observation EXCEPT ![k] = NoObservation]
      /\ UNCHANGED <<now, market>>
  BY DEF PublishCustomSettlement
<1>2. /\ now \in Nat /\ oracle \in [Markets -> OracleRecord]
      /\ observation \in [ObservationKeys -> ObservationRecord]
  BY BoundsAssumption DEF TypeOK
<1>3. oracle'[m] = o BY <1>1, <1>2
<1>4. ValidTerms(m) /\ market[m] = "live" BY <1>1 DEF PublicationOpen, Lifecycle
<1>5. FinalDeadline(m) <= CleanupDeadline(m) BY <1>4, FinalBeforeCleanup
<1>6. SettlementIsDated(m)'
  <2>1. /\ oracle'[m].publishedAt = now
        /\ oracle'[m].observedAt = observation[k].observedAt
        /\ oracle'[m].settledFromStalePrice = FALSE
        /\ now' = now
    BY <1>1, <1>3
  <2>2. /\ Expiry(m) <= now
        /\ now <= FinalDeadline(m)
        /\ now <= CleanupDeadline(m)
    BY <1>1, <1>2, <1>5, InstantsTyped DEF PublicationOpen
  <2>3. /\ Expiry(m) <= observation[k].observedAt
        /\ observation[k].observedAt <= ObservationEnd(m)
        /\ observation[k].observedAt <= now
    BY <1>1 DEF ObservationFits, InsideWindow
  <2>. QED
    BY <2>1, <2>2, <2>3, <1>2
       DEF SettlementIsDated, Expiry, ObservationEnd, SettlementDeadline, FinalDeadline,
           CleanupDeadline
<1>7. ConfidenceOk(o.price, o.confidence, Terms[m].maxConfidenceBps)
  BY <1>1 DEF ObservationFits
<1>8. o.finalized = TRUE OBVIOUS
<1>9. CapturesArePublishable'
  <2>. SUFFICES ASSUME NEW j \in ObservationKeys, observation'[j].exists
                PROVE  \E n \in Markets : ObservationKey(n) = j /\ ObservationFits(n)'
    BY DEF CapturesArePublishable, ObservationKey, Expiry
  <2>1. k \in ObservationKeys BY KeysTyped
  <2>2. j # k /\ observation'[j] = observation[j]
    BY <1>1, <1>2, <2>1 DEF NoObservation
  <2>3. PICK n \in Markets : ObservationKey(n) = j /\ ObservationFits(n)
    BY <2>2 DEF CapturesArePublishable
  <2>4. ObservationFits(n)' BY <1>1, <1>2, <2>2, <2>3, FitIsStable
  <2>. QED BY <2>3, <2>4
<1>. HIDE DEF o
<1>10. Lifecycle' /\ SettlementsAreDated' /\ SettlementsAreConfident'
  BY <1>1, <1>4, <1>6, <1>7, <1>8, OracleWritten
<1>. QED BY <1>9, <1>10

LEMMA CaptureKeepsIInv ==
  ASSUME IInv, TypeOK', NEW m \in Markets, CaptureCustomSettlementObservation(m)
  PROVE  IInv'
<1>. USE DEF IInv
<1>. DEFINE k == ObservationKey(m)
<1>1. oracle' = oracle /\ market' = market /\ now' = now
  BY DEF CaptureCustomSettlementObservation
<1>2. now \in Nat /\ observation \in [ObservationKeys -> ObservationRecord]
  BY BoundsAssumption DEF TypeOK
<1>3. k \in ObservationKeys BY KeysTyped
<1>4. ObservationFits(m)'
  <2>1. Terms[m] \in TermsRecord OBVIOUS
  <2>2. feed[Terms[m].symbol] \in FeedRecord BY FieldsTyped DEF TypeOK
  <2>. QED
    BY <1>1, <1>2, <1>3, <2>1, <2>2, InstantsTyped
       DEF CaptureCustomSettlementObservation, CaptureTimely, ObservationFits, InsideWindow,
           ObservationKey, Expiry, ObservationEnd, ConfidenceOk, FeedRecord
<1>5. CapturesArePublishable'
  <2>. SUFFICES ASSUME NEW j \in ObservationKeys, observation'[j].exists
                PROVE  \E n \in Markets : ObservationKey(n) = j /\ ObservationFits(n)'
    BY DEF CapturesArePublishable, ObservationKey, Expiry
  <2>1. CASE j = k BY <1>4, <2>1
  <2>2. CASE j # k
    <3>1. observation'[j] = observation[j]
      BY <1>2, <1>3, <2>2 DEF CaptureCustomSettlementObservation
    <3>2. PICK n \in Markets : ObservationKey(n) = j /\ ObservationFits(n)
      BY <3>1 DEF CapturesArePublishable
    <3>3. ObservationFits(n)' BY <1>1, <1>2, <3>1, <3>2, FitIsStable
    <3>. QED BY <3>2, <3>3
  <2>. QED BY <2>1, <2>2
<1>6. Lifecycle' /\ SettlementsAreDated' /\ SettlementsAreConfident'
  BY <1>1, <1>2, OraclesUntouched
<1>. QED BY <1>5, <1>6

(* create_market and close_settled_market leave a blank oracle behind.     *)
LEMMA ResetKeepsIInv ==
  ASSUME IInv, TypeOK', NEW m \in Markets, CreateMarket(m) \/ CloseSettledMarket(m)
  PROVE  IInv'
<1>. USE DEF IInv
<1>1. /\ oracle' = [oracle EXCEPT ![m] = ZeroOracle]
      /\ UNCHANGED <<now, observation>>
      /\ \A n \in Markets : n # m => market'[n] = market[n]
      /\ ValidTerms(m)
  BY DEF CreateMarket, CloseSettledMarket, TypeOK, Lifecycle
<1>2. now \in Nat BY BoundsAssumption DEF TypeOK
<1>3. ZeroOracle.finalized = FALSE BY DEF ZeroOracle
<1>4. Lifecycle' /\ SettlementsAreDated' /\ SettlementsAreConfident'
  BY <1>1, <1>3, OracleWritten
<1>5. CapturesArePublishable' BY <1>1, <1>2, ObservationsUntouched
<1>. QED BY <1>4, <1>5

LEMMA NextIInv == IInv /\ [Next]_vars => IInv'
<1>. SUFFICES ASSUME IInv, [Next]_vars PROVE IInv' OBVIOUS
<1>0. TypeOK' BY NextTypeOK DEF IInv
<1>1. now \in Nat BY BoundsAssumption DEF IInv, TypeOK
<1>2. ASSUME NEW m \in Markets, CreateMarket(m) \/ CloseSettledMarket(m) PROVE IInv'
  BY <1>0, <1>2, ResetKeepsIInv
<1>3. ASSUME NEW m \in Markets, CaptureCustomSettlementObservation(m) PROVE IInv'
  BY <1>0, <1>3, CaptureKeepsIInv
<1>4. ASSUME NEW m \in Markets, PublishCustomSettlement(m) PROVE IInv'
  BY <1>0, <1>4, CustomPublishKeepsIInv
<1>5. ASSUME NEW m \in Markets, NEW p \in prints, PublishPythSettlement(m, p) PROVE IInv'
  BY <1>0, <1>5, PythPublishKeepsIInv
<1>6. ASSUME UNCHANGED <<market, oracle, observation>>, now <= now' PROVE IInv'
  BY <1>0, <1>6, ObservationsUntouched, OraclesUntouched DEF IInv
<1>7. ASSUME NEW s \in Symbols, NEW scale \in Scales, InitCustomPriceFeed(s, scale) PROVE IInv'
  BY <1>1, <1>6, <1>7 DEF InitCustomPriceFeed
<1>8. ASSUME NEW s \in Symbols, NEW q \in CustomQuotations, NEW t \in 0 .. now,
             UpdateCustomPriceFeed(s, q, t)
      PROVE  IInv'
  BY <1>1, <1>6, <1>8 DEF UpdateCustomPriceFeed
<1>9. ASSUME NEW s \in Symbols, NEW q \in Quotations, PythPrint(s, q) PROVE IInv'
  BY <1>1, <1>6, <1>9 DEF PythPrint
<1>10. ASSUME NEW a \in Authorities, RotateOracleAuthority(a) PROVE IInv'
  BY <1>1, <1>6, <1>10 DEF RotateOracleAuthority
<1>11. ASSUME NEW b \in BOOLEAN, SetPause(b) PROVE IInv'
  BY <1>1, <1>6, <1>11 DEF SetPause
<1>12. CASE Tick
  BY <1>1, <1>6, <1>12 DEF Tick
<1>13. CASE UNCHANGED vars
  BY <1>1, <1>6, <1>13 DEF vars
<1>. QED
  BY <1>2, <1>3, <1>4, <1>5, <1>7, <1>8, <1>9, <1>10, <1>11, <1>12, <1>13 DEF Next

THEOREM InvHolds == Spec => []IInv
BY InitIInv, NextIInv, PTL DEF Spec

(* Every settlement obeys the two-tier rule and the deadlines of its       *)
(* market, whichever publisher got there first.                            *)
THEOREM DatedHolds == Spec => []SettlementsAreDated
BY InvHolds, PTL DEF IInv

(* Every settlement is within the confidence bound of its own market.      *)
THEOREM ConfidentHolds == Spec => []SettlementsAreConfident
BY InvHolds, PTL DEF IInv

(* No captured observation is left that none of its markets could publish. *)
THEOREM PublishableHolds == Spec => []CapturesArePublishable
BY InvHolds, PTL DEF IInv

-----------------------------------------------------------------------------
(* The age check never rejects what a tier accepts, in any state.          *)
LEMMA AgeBoundIsSlack == TypeOK => AgeBoundNeverBinds
<1>. SUFFICES ASSUME TypeOK, NEW m \in Markets, NEW p \in prints, PublicationOpen(m),
                     TierOneOk(m, p) \/ TierTwoOk(m, p)
              PROVE  PrintAgeOk(m, p)
  BY DEF AgeBoundNeverBinds
<1>1. Terms[m] \in TermsRecord /\ p \in PrintRecord /\ now \in Nat
  BY BoundsAssumption DEF TypeOK
<1>2. Expiry(m) <= p.publishTime + Terms[m].staleness
  <2>1. p.publishTime \in Nat BY <1>1 DEF PrintRecord
  <2>2. \/ Expiry(m) <= p.publishTime
        \/ Expiry(m) - p.publishTime <= Terms[m].staleness
    BY DEF TierOneOk, TierTwoOk
  <2>. QED BY <2>1, <2>2, FieldsTyped, InstantsTyped
<1>3. now <= FinalDeadline(m) BY DEF PublicationOpen
<1>. QED
  <2>1. p.publishTime \in Nat BY <1>1 DEF PrintRecord
  <2>. QED BY <1>1, <1>2, <1>3, <2>1, FieldsTyped
           DEF FinalDeadline, SettlementDeadline, ObservationEnd, Expiry, PrintAgeOk

(* The comment on maximum_age in publish_pyth_settlement is right: the     *)
(* check is secondary, and never defeats a legitimate print.               *)
THEOREM AgeBoundHolds == Spec => []AgeBoundNeverBinds
BY OracleTypeCorrect, AgeBoundIsSlack, PTL

(* What the rescaling reads of a market's terms and of a print is in range. *)
LEMMA TermsBounds ==
  ASSUME NEW t \in TermsRecord
  PROVE  t.priceScale \in Nat \ {0} /\ t.maxConfidenceBps \in Nat
<1>1. t.maxConfidenceBps \in Int /\ 1 <= t.maxConfidenceBps BY SMTT(60) DEF TermsRecord
<1>2. t.maxConfidenceBps \in Nat BY <1>1
<1>3. t.priceScale \in Nat \ {0} BY DEF TermsRecord
<1>. QED BY <1>2, <1>3

LEMMA PrintsTyped ==
  ASSUME NEW p \in PrintRecord
  PROVE  p.price \in Nat /\ p.confidence \in Nat /\ p.exponent \in Int
BY DEF PrintRecord

(* A print that passes the confidence check after rescaling passes it as   *)
(* Pyth signed it: the power of ten is positive, and normalization is      *)
(* conservative.                                                           *)
LEMMA RescalingIsConservative == TypeOK => RescalingNeverLoosens
<1>. SUFFICES ASSUME TypeOK, NEW m \in Markets, NEW p \in prints, PrintUsable(m, p)
              PROVE  ConfidenceOk(p.price, p.confidence, Terms[m].maxConfidenceBps)
  BY DEF RescalingNeverLoosens
<1>1. Terms[m] \in TermsRecord /\ p \in PrintRecord BY DEF TypeOK
<1>2. /\ Terms[m].priceScale \in Nat \ {0} /\ Terms[m].maxConfidenceBps \in Nat
      /\ p.price \in Nat /\ p.confidence \in Nat /\ p.exponent \in Int
  BY <1>1, TermsBounds, PrintsTyped, Zenon
<1>3. PrintPower(p) \in Nat \ {0}
  <2>1. (IF p.exponent >= 0 THEN p.exponent ELSE - p.exponent) \in Nat BY <1>2
  <2>. QED BY <2>1, PowerPositive DEF PrintPower
<1>4. ConfidenceOk(NormalizeDown(p.price, p.exponent, Terms[m].priceScale, PrintPower(p)),
                   NormalizeUp(p.confidence, p.exponent, Terms[m].priceScale, PrintPower(p)),
                   Terms[m].maxConfidenceBps)
  BY DEF PrintUsable, QuotationOk, PrintPrice, PrintConfidence
<1>. QED BY <1>2, <1>3, <1>4, NormalizationIsConservative

(* The confidence bound a market publishes binds the print as Pyth signed  *)
(* it, whatever its exponent and the market's price scale.                 *)
THEOREM RescalingNeverLoosensHolds == Spec => []RescalingNeverLoosens
BY OracleTypeCorrect, RescalingIsConservative, PTL

-----------------------------------------------------------------------------
(* What the steps may never do.                                            *)
LEMMA StepKeepsPrice ==
  ASSUME IInv, [Next]_vars, NEW m \in Markets
  PROVE  /\ oracle[m].finalized => oracle'[m] = oracle[m] \/ market'[m] = "closed"
         /\ market[m] = "closed" => market'[m] = "closed"
<1>. DEFINE Kept == /\ oracle[m].finalized => oracle'[m] = oracle[m] \/ market'[m] = "closed"
                    /\ market[m] = "closed" => market'[m] = "closed"
<1>1. /\ market \in [Markets -> {"absent", "live", "closed"}]
      /\ oracle \in [Markets -> OracleRecord]
      /\ oracle[m].finalized => market[m] = "live"
  BY DEF IInv, TypeOK, Lifecycle
<1>2. ASSUME NEW n \in Markets, CreateMarket(n) PROVE Kept
  BY <1>1, <1>2 DEF CreateMarket
<1>3. ASSUME NEW n \in Markets, CloseSettledMarket(n) PROVE Kept
  BY <1>1, <1>3 DEF CloseSettledMarket
<1>4. ASSUME NEW n \in Markets, PublishCustomSettlement(n) PROVE Kept
  BY <1>1, <1>4 DEF PublishCustomSettlement, PublicationOpen
<1>5. ASSUME NEW n \in Markets, NEW p \in prints, PublishPythSettlement(n, p) PROVE Kept
  BY <1>1, <1>5 DEF PublishPythSettlement, PublicationOpen
<1>6. ASSUME UNCHANGED <<market, oracle>> PROVE Kept
  BY <1>6
<1>7. ASSUME NEW n \in Markets, CaptureCustomSettlementObservation(n) PROVE Kept
  BY <1>6, <1>7 DEF CaptureCustomSettlementObservation
<1>8. ASSUME NEW s \in Symbols, NEW scale \in Scales, InitCustomPriceFeed(s, scale) PROVE Kept
  BY <1>6, <1>8 DEF InitCustomPriceFeed
<1>9. ASSUME NEW s \in Symbols, NEW q \in CustomQuotations, NEW t \in 0 .. now,
             UpdateCustomPriceFeed(s, q, t)
      PROVE  Kept
  BY <1>6, <1>9 DEF UpdateCustomPriceFeed
<1>10. ASSUME NEW s \in Symbols, NEW q \in Quotations, PythPrint(s, q) PROVE Kept
  BY <1>6, <1>10 DEF PythPrint
<1>11. ASSUME NEW a \in Authorities, RotateOracleAuthority(a) PROVE Kept
  BY <1>6, <1>11 DEF RotateOracleAuthority
<1>12. ASSUME NEW b \in BOOLEAN, SetPause(b) PROVE Kept
  BY <1>6, <1>12 DEF SetPause
<1>13. CASE Tick \/ UNCHANGED vars
  BY <1>6, <1>13 DEF Tick, vars
<1>. QED
  BY <1>2, <1>3, <1>4, <1>5, <1>7, <1>8, <1>9, <1>10, <1>11, <1>12, <1>13 DEF Next

(* A settlement price is final, and a closed market stays closed.          *)
THEOREM PriceIsFinalHolds == Spec => PriceIsFinal
<1>1. IInv /\ [Next]_vars =>
        [\A m \in Markets :
           /\ oracle[m].finalized => oracle'[m] = oracle[m] \/ market'[m] = "closed"
           /\ market[m] = "closed" => market'[m] = "closed"]_vars
  BY StepKeepsPrice
<1>. QED BY <1>1, InvHolds, PTL DEF Spec, PriceIsFinal

-----------------------------------------------------------------------------
(* The refinement: every instruction is a step of MarketOutcome or leaves  *)
(* what it speaks of unchanged.                                            *)
Abs(m) ==
  IF market[m] # "live"
    THEN [status |-> market[m], price |-> 0]
    ELSE IF oracle[m].finalized
      THEN [status |-> "final", price |-> oracle[m].price]
      ELSE [status |-> "pending", price |-> 0]

AbsOutcome == [m \in Markets |-> Abs(m)]

LEMMA SameInstants ==
  ASSUME NEW m \in Markets
  PROVE  /\ Outcome!ValidTerms(m) <=> ValidTerms(m)
         /\ Outcome!Expiry(m) = Expiry(m)
         /\ Outcome!FinalDeadline(m) = FinalDeadline(m)
         /\ Outcome!CleanupDeadline(m) = CleanupDeadline(m)
BY DEF Outcome!ValidTerms, ValidTerms, Outcome!Expiry, Expiry, Outcome!FinalDeadline,
       FinalDeadline, Outcome!SettlementDeadline, SettlementDeadline,
       Outcome!ObservationEnd, ObservationEnd, Outcome!CleanupDeadline, CleanupDeadline

(* One market's abstract state changes as its accounts do.                 *)
LEMMA AbsChangesAtOne ==
  ASSUME NEW m \in Markets,
         \A n \in Markets : n # m => market'[n] = market[n] /\ oracle'[n] = oracle[n]
  PROVE  AbsOutcome' = [AbsOutcome EXCEPT ![m] = Abs(m)']
BY DEF AbsOutcome, Abs

LEMMA AbsUnchanged ==
  ASSUME market' = market, oracle' = oracle
  PROVE  AbsOutcome' = AbsOutcome
BY DEF AbsOutcome, Abs

LEMMA InitMaps == Init => Outcome!OutcomeInit
BY DEF Init, Outcome!OutcomeInit, Outcome!Absent

LEMMA PublishMaps ==
  ASSUME IInv, TypeOK', NEW m \in Markets, PublicationOpen(m), now' = now, market' = market,
         NEW o, oracle' = [oracle EXCEPT ![m] = o], o.finalized = TRUE
  PROVE  Outcome!OutcomeNext
<1>1. oracle \in [Markets -> OracleRecord] /\ oracle' \in [Markets -> OracleRecord]
  BY DEF IInv, TypeOK
<1>2. o \in OracleRecord /\ o.price \in U64 BY <1>1 DEF OracleRecord
<1>3. AbsOutcome[m] = Outcome!Pending
  BY DEF AbsOutcome, Abs, PublicationOpen, Outcome!Pending
<1>4. AbsOutcome' = [AbsOutcome EXCEPT ![m] = Outcome!Final(o.price)]
  <2>1. Abs(m)' = Outcome!Final(o.price)
    BY <1>1 DEF Abs, PublicationOpen, Outcome!Final
  <2>2. \A n \in Markets : n # m => market'[n] = market[n] /\ oracle'[n] = oracle[n]
    BY <1>1
  <2>. QED BY <2>1, <2>2, AbsChangesAtOne
<1>5. Outcome!Finalize(m, o.price)
  BY <1>3, <1>4, SameInstants DEF Outcome!Finalize, AbsOutcome, Abs, PublicationOpen
<1>. QED BY <1>2, <1>5 DEF Outcome!OutcomeNext

LEMMA NextMaps == IInv /\ TypeOK' /\ [Next]_vars => [Outcome!OutcomeNext]_<<now, AbsOutcome>>
<1>. SUFFICES ASSUME IInv, TypeOK', Next
              PROVE  Outcome!OutcomeNext \/ (now' = now /\ AbsOutcome' = AbsOutcome)
  BY AbsUnchanged DEF vars
<1>1. /\ market \in [Markets -> {"absent", "live", "closed"}]
      /\ oracle \in [Markets -> OracleRecord]
  BY DEF IInv, TypeOK
<1>2. ASSUME NEW m \in Markets, CreateMarket(m) PROVE Outcome!OutcomeNext
  <2>1. AbsOutcome[m] = Outcome!Absent
    BY <1>2 DEF CreateMarket, AbsOutcome, Abs, Outcome!Absent
  <2>2. AbsOutcome' = [AbsOutcome EXCEPT ![m] = Outcome!Pending]
    <3>1. Abs(m)' = Outcome!Pending
      BY <1>1, <1>2 DEF CreateMarket, Abs, Outcome!Pending, ZeroOracle
    <3>2. \A n \in Markets : n # m => market'[n] = market[n] /\ oracle'[n] = oracle[n]
      BY <1>1, <1>2 DEF CreateMarket
    <3>. QED BY <3>1, <3>2, AbsChangesAtOne
  <2>3. Outcome!Open(m)
    BY <1>2, <2>1, <2>2, SameInstants DEF CreateMarket, Outcome!Open, AbsOutcome, Abs
  <2>. QED BY <2>3 DEF Outcome!OutcomeNext
<1>3. ASSUME NEW m \in Markets, CloseSettledMarket(m) PROVE Outcome!OutcomeNext
  <2>1. AbsOutcome[m].status \in {"pending", "final"}
    BY <1>3 DEF CloseSettledMarket, AbsOutcome, Abs
  <2>2. AbsOutcome' = [AbsOutcome EXCEPT ![m] = Outcome!Closed]
    <3>1. Abs(m)' = Outcome!Closed
      BY <1>1, <1>3 DEF CloseSettledMarket, Abs, Outcome!Closed
    <3>2. \A n \in Markets : n # m => market'[n] = market[n] /\ oracle'[n] = oracle[n]
      BY <1>1, <1>3 DEF CloseSettledMarket
    <3>. QED BY <3>1, <3>2, AbsChangesAtOne
  <2>3. Outcome!Close(m)
    BY <1>3, <2>1, <2>2, SameInstants
       DEF CloseSettledMarket, Outcome!Close, Outcome!Exists, AbsOutcome, Abs
  <2>. QED BY <2>3 DEF Outcome!OutcomeNext
<1>4. ASSUME NEW m \in Markets, PublishCustomSettlement(m) PROVE Outcome!OutcomeNext
  <2>. DEFINE k == ObservationKey(m)
              o == [price |-> observation[k].price, confidence |-> observation[k].confidence,
                    observedAt |-> observation[k].observedAt, publishedAt |-> now,
                    finalized |-> TRUE, settledFromStalePrice |-> FALSE]
  <2>1. /\ PublicationOpen(m) /\ now' = now /\ market' = market
        /\ oracle' = [oracle EXCEPT ![m] = o]
        /\ o.finalized = TRUE
    BY <1>4 DEF PublishCustomSettlement
  <2>. HIDE DEF o
  <2>. QED BY <2>1, PublishMaps
<1>5. ASSUME NEW m \in Markets, NEW p \in prints, PublishPythSettlement(m, p)
      PROVE  Outcome!OutcomeNext
  <2>. DEFINE o == [price |-> PrintPrice(m, p), confidence |-> PrintConfidence(m, p),
                    observedAt |-> p.publishTime, publishedAt |-> now,
                    finalized |-> TRUE, settledFromStalePrice |-> ~TierOneOk(m, p)]
  <2>1. /\ PublicationOpen(m) /\ now' = now /\ market' = market
        /\ oracle' = [oracle EXCEPT ![m] = o]
        /\ o.finalized = TRUE
    BY <1>5 DEF PublishPythSettlement
  <2>. HIDE DEF o
  <2>. QED BY <2>1, PublishMaps
<1>6. CASE Tick
  <2>1. AbsOutcome' = AbsOutcome BY <1>6, AbsUnchanged DEF Tick
  <2>2. Outcome!Tick BY <1>6, <2>1 DEF Tick, Outcome!Tick, AbsOutcome, Abs
  <2>. QED BY <2>2 DEF Outcome!OutcomeNext
<1>7. ASSUME UNCHANGED <<now, market, oracle>>
      PROVE  now' = now /\ AbsOutcome' = AbsOutcome
  BY <1>7, AbsUnchanged
<1>8. ASSUME NEW m \in Markets, CaptureCustomSettlementObservation(m)
      PROVE  now' = now /\ AbsOutcome' = AbsOutcome
  BY <1>7, <1>8 DEF CaptureCustomSettlementObservation
<1>9. ASSUME NEW s \in Symbols, NEW scale \in Scales, InitCustomPriceFeed(s, scale)
      PROVE  now' = now /\ AbsOutcome' = AbsOutcome
  BY <1>7, <1>9 DEF InitCustomPriceFeed
<1>10. ASSUME NEW s \in Symbols, NEW q \in CustomQuotations, NEW t \in 0 .. now,
              UpdateCustomPriceFeed(s, q, t)
       PROVE  now' = now /\ AbsOutcome' = AbsOutcome
  BY <1>7, <1>10 DEF UpdateCustomPriceFeed
<1>11. ASSUME NEW s \in Symbols, NEW q \in Quotations, PythPrint(s, q)
       PROVE  now' = now /\ AbsOutcome' = AbsOutcome
  BY <1>7, <1>11 DEF PythPrint
<1>12. ASSUME NEW a \in Authorities, RotateOracleAuthority(a)
       PROVE  now' = now /\ AbsOutcome' = AbsOutcome
  BY <1>7, <1>12 DEF RotateOracleAuthority
<1>13. ASSUME NEW b \in BOOLEAN, SetPause(b)
       PROVE  now' = now /\ AbsOutcome' = AbsOutcome
  BY <1>7, <1>13 DEF SetPause
<1>. QED
  BY <1>2, <1>3, <1>4, <1>5, <1>6, <1>8, <1>9, <1>10, <1>11, <1>12, <1>13 DEF Next

(* The oracle side of the program implements the promise the pool side is  *)
(* built on.                                                               *)
THEOREM RefinementHolds == Spec => ImplementsMarketOutcome
<1>1. [][Next]_vars /\ []IInv => [][Outcome!OutcomeNext]_<<now, AbsOutcome>>
  <2>1. IInv /\ IInv' /\ [Next]_vars => [Outcome!OutcomeNext]_<<now, AbsOutcome>>
    BY NextMaps DEF IInv
  <2>. QED BY <2>1, PTL
<1>2. Spec => Outcome!OutcomeInit /\ [][Outcome!OutcomeNext]_<<now, AbsOutcome>>
  BY <1>1, InitMaps, InvHolds, PTL DEF Spec
<1>3. [Outcome!OutcomeNext]_<<now, AbsOutcome>> => [Outcome!OutcomeNext]_(Outcome!outcomeVars)
  BY DEF Outcome!outcomeVars, AbsOutcome, Abs
<1>4. [][Outcome!OutcomeNext]_<<now, AbsOutcome>> => [][Outcome!OutcomeNext]_(Outcome!outcomeVars)
  BY <1>3, PTL
<1>. QED BY <1>2, <1>4, PTL DEF ImplementsMarketOutcome, Outcome!OutcomeSpec

=============================================================================
