--------------------------- MODULE SettlementOracle -------------------------
(***************************************************************************)
(* How a market gets its settlement price.  Two publishers write the same  *)
(* SettlementOracle account, each at most once per market:                 *)
(*                                                                         *)
(*  - publish_pyth_settlement relays a print Pyth signed.  Tier 1 takes a  *)
(*    print dated inside the observation window; tier 2, the last-known    *)
(*    price, takes an older one once the refund path had its head start.   *)
(*  - publish_custom_settlement consumes the observation the oracle        *)
(*    authority captured from the custom feed inside the window, and       *)
(*    closes the observation account.                                      *)
(*                                                                         *)
(* Anyone may call either.  The observation account is addressed by        *)
(* (symbol, expiry), so markets that differ only in strike or window       *)
(* compete for it.                                                         *)
(***************************************************************************)
EXTENDS MarketTerms, FiniteSets

CONSTANTS
  Authorities,                       \* keys that may become oracle_authority
  NoAuthority,                       \* Pubkey::default()
  Quotations,                        \* what Pyth may print: price, confidence, exponent
  CustomQuotations,                  \* what the authority may write: price, confidence
  Scales,                            \* price scales of the custom feeds
  CUSTOM_ORACLE_MAX_STALENESS,       \* 300 s
  CUSTOM_OBSERVATION_MAX_CAPTURE_AGE,\* 30 s
  MaxPrints,                         \* bound on Pyth prints, for TLC
  MaxTime                            \* bound on the clock, for TLC

ASSUME AuthoritiesAssumption ==
  NoAuthority \notin Authorities /\ Authorities # {}

ASSUME QuotationsAssumption ==
  /\ Quotations \subseteq [price : Nat, confidence : Nat, exponent : -18 .. 18]
  /\ CustomQuotations \subseteq [price : U64, confidence : U64]
  /\ Scales \subseteq Nat \ {0}

ASSUME CustomAgesAssumption ==
  /\ CUSTOM_ORACLE_MAX_STALENESS \in Nat
  /\ CUSTOM_OBSERVATION_MAX_CAPTURE_AGE \in Nat

ASSUME BoundsAssumption == MaxPrints \in Nat /\ MaxTime \in Nat

VARIABLES
  now,                               \* Clock::unix_timestamp
  paused,                            \* config.paused
  oracleAuthority,                   \* config.oracle_authority
  market,                            \* life of the Market/SettlementOracle pair
  oracle,                            \* the SettlementOracle account
  prints,                            \* prints Pyth has signed so far (external)
  feed,                              \* the CustomPriceFeed of a symbol
  observation                        \* the CustomSettlementObservation of <<symbol, expiry>>

vars == <<now, paused, oracleAuthority, market, oracle, prints, feed, observation>>

ObservationKeys == {<<Terms[m].symbol, Expiry(m)>> : m \in Markets}
ObservationKey(m) == <<Terms[m].symbol, Expiry(m)>>

ZeroOracle_NoStaleFlag ==                      \* mutant: one field left out
  [price |-> 0, confidence |-> 0, observedAt |-> 0, publishedAt |-> 0,
   finalized |-> FALSE]

ZeroOracle ==
  [price |-> 0, confidence |-> 0, observedAt |-> 0, publishedAt |-> 0,
   finalized |-> FALSE, settledFromStalePrice |-> FALSE]

OracleRecord ==
  [price : U64, confidence : U64, observedAt : Nat, publishedAt : Nat,
   finalized : BOOLEAN, settledFromStalePrice : BOOLEAN]

PrintRecord ==
  [symbol : Symbols, publishTime : Nat, price : Nat, confidence : Nat,
   exponent : -18 .. 18]

NoFeed ==
  [exists |-> FALSE, priceScale |-> 0, price |-> 0, confidence |-> 0,
   publishedAt |-> 0, publisher |-> NoAuthority]

FeedRecord ==
  [exists : BOOLEAN, priceScale : Nat, price : U64, confidence : U64,
   publishedAt : Nat, publisher : Authorities \cup {NoAuthority}]

NoObservation ==
  [exists |-> FALSE, priceScale |-> 0, price |-> 0, confidence |-> 0,
   observedAt |-> 0, capturedAt |-> 0, publisher |-> NoAuthority]

ObservationRecord ==
  [exists : BOOLEAN, priceScale : Nat, price : U64, confidence : U64,
   observedAt : Nat, capturedAt : Nat, publisher : Authorities \cup {NoAuthority}]

-----------------------------------------------------------------------------
Init ==
  /\ now = 0
  /\ paused = FALSE
  /\ oracleAuthority \in Authorities
  /\ market = [m \in Markets |-> "absent"]
  /\ oracle = [m \in Markets |-> ZeroOracle]
  /\ prints = {}
  /\ feed = [s \in Symbols |-> NoFeed]
  /\ observation = [k \in ObservationKeys |-> NoObservation]

(* create_market: permissionless, ahead of the expiry by the minimum lead. *)
CreateMarket(m) ==
  /\ ~paused
  /\ market[m] = "absent"
  /\ now + MIN_MARKET_LEAD <= Expiry(m)
  /\ ValidTerms(m)
  /\ market' = [market EXCEPT ![m] = "live"]
  /\ oracle' = [oracle EXCEPT ![m] = ZeroOracle]
  /\ UNCHANGED <<now, paused, oracleAuthority, prints, feed, observation>>

-----------------------------------------------------------------------------
TierOneOk(m, p) ==
  /\ p.publishTime >= Expiry(m)
  /\ p.publishTime <= ObservationEnd(m)
  /\ p.publishTime <= now

TierTwoOk_RightAfterWindow(m, p) ==            \* mutant: gated on the window's end
  /\ now > ObservationEnd(m)
  /\ p.publishTime <= Expiry(m)
  /\ Expiry(m) - p.publishTime <= Terms[m].staleness

TierTwoOk(m, p) ==
  /\ now > TierTwoOpenAt(m)
  /\ p.publishTime <= Expiry(m)
  /\ Expiry(m) - p.publishTime <= Terms[m].staleness

PrintAgeOk_OneStaleness(m, p) ==               \* mutant: counts the staleness once
  p.publishTime + Terms[m].window + Terms[m].grace + Terms[m].staleness >= now

(* The secondary bound on the gap between the print and its publication.   *)
PrintAgeOk(m, p) ==
  p.publishTime + Terms[m].window + Terms[m].grace + 2 * Terms[m].staleness >= now

PrintUsable(m, p) ==
  /\ p.symbol = Terms[m].symbol
  /\ QuotationOk(m, p)

PublicationOpen_Again(m) ==                    \* mutant: forgets oracle.finalized
  /\ market[m] = "live"
  /\ now >= Expiry(m)
  /\ now <= FinalDeadline(m)

PublicationOpen_Forever(m) ==                  \* mutant: no hard close
  /\ market[m] = "live"
  /\ ~oracle[m].finalized
  /\ now >= Expiry(m)

PublicationOpen(m) ==
  /\ market[m] = "live"
  /\ ~oracle[m].finalized
  /\ now >= Expiry(m)
  /\ now <= FinalDeadline(m)

PublishPythSettlement(m, p) ==
  /\ PublicationOpen(m)
  /\ TierOneOk(m, p) \/ TierTwoOk(m, p)
  /\ PrintAgeOk(m, p)
  /\ PrintUsable(m, p)
  /\ oracle' = [oracle EXCEPT ![m] =
       [price |-> PrintPrice(m, p), confidence |-> PrintConfidence(m, p),
        observedAt |-> p.publishTime, publishedAt |-> now,
        finalized |-> TRUE, settledFromStalePrice |-> ~TierOneOk(m, p)]]
  /\ UNCHANGED <<now, paused, oracleAuthority, market, prints, feed, observation>>

-----------------------------------------------------------------------------
InitCustomPriceFeed(s, scale) ==
  /\ ~feed[s].exists
  /\ feed' = [feed EXCEPT ![s] = [NoFeed EXCEPT !.exists = TRUE, !.priceScale = scale]]
  /\ UNCHANGED <<now, paused, oracleAuthority, market, oracle, prints, observation>>

(* Signed by the current oracle authority; timestamps strictly increase.   *)
UpdateCustomPriceFeed(s, q, observedAt) ==
  /\ feed[s].exists
  /\ q.price > 0
  /\ observedAt <= now
  /\ now - observedAt <= CUSTOM_ORACLE_MAX_STALENESS
  /\ observedAt > feed[s].publishedAt
  /\ feed' = [feed EXCEPT ![s] =
       [@ EXCEPT !.price = q.price, !.confidence = q.confidence,
                 !.publishedAt = observedAt, !.publisher = oracleAuthority]]
  /\ UNCHANGED <<now, paused, oracleAuthority, market, oracle, prints, observation>>

CaptureTimely_UntilDeadline(m, t) ==           \* mutant: keeps capturing in the grace
  /\ t <= now
  /\ now - t <= CUSTOM_OBSERVATION_MAX_CAPTURE_AGE
  /\ Expiry(m) <= t
  /\ t <= ObservationEnd(m)
  /\ now <= SettlementDeadline(m)

(* A feed value dated t may be captured for m now.                         *)
CaptureTimely(m, t) ==
  /\ t <= now
  /\ now - t <= CUSTOM_OBSERVATION_MAX_CAPTURE_AGE
  /\ Expiry(m) <= t
  /\ t <= ObservationEnd(m)
  /\ now <= ObservationEnd(m)

WrittenByAuthority_Anyone(s) == feed[s].publisher # NoAuthority   \* mutant: any past key

WrittenByAuthority(s) == feed[s].publisher = oracleAuthority

(* Signed by the current oracle authority; the feed must carry a value the *)
(* same key wrote, and the account must not exist yet.                     *)
CaptureCustomSettlementObservation(m) ==
  LET f == feed[Terms[m].symbol] IN
  /\ market[m] = "live"
  /\ f.exists
  /\ ~observation[ObservationKey(m)].exists
  /\ WrittenByAuthority(Terms[m].symbol)
  /\ f.priceScale = Terms[m].priceScale
  /\ f.price > 0
  /\ CaptureTimely(m, f.publishedAt)
  /\ ConfidenceOk(f.price, f.confidence, Terms[m].maxConfidenceBps)
  /\ observation' = [observation EXCEPT ![ObservationKey(m)] =
       [exists |-> TRUE, priceScale |-> Terms[m].priceScale,
        price |-> f.price, confidence |-> f.confidence,
        observedAt |-> f.publishedAt, capturedAt |-> now, publisher |-> f.publisher]]
  /\ UNCHANGED <<now, paused, oracleAuthority, market, oracle, prints, feed>>

InsideWindow(m, t) == Expiry(m) <= t /\ t <= ObservationEnd(m) /\ t <= now

ObservationFits_AsCaptured(m) ==               \* mutant: trusts the capture's checks
  LET o == observation[ObservationKey(m)] IN
  /\ o.exists
  /\ o.priceScale = Terms[m].priceScale
  /\ InsideWindow(m, o.observedAt)
  /\ InsideWindow(m, o.capturedAt)

(* The retained observation also satisfies the terms of m, which may not   *)
(* be the market it was captured for.                                      *)
ObservationFits(m) ==
  LET o == observation[ObservationKey(m)] IN
  /\ o.exists
  /\ o.priceScale = Terms[m].priceScale
  /\ InsideWindow(m, o.observedAt)
  /\ InsideWindow(m, o.capturedAt)
  /\ ConfidenceOk(o.price, o.confidence, Terms[m].maxConfidenceBps)

PublishCustomSettlement(m) ==
  LET o == observation[ObservationKey(m)] IN
  /\ PublicationOpen(m)
  /\ ObservationFits(m)
  /\ oracle' = [oracle EXCEPT ![m] =
       [price |-> o.price, confidence |-> o.confidence,
        observedAt |-> o.observedAt, publishedAt |-> now,
        finalized |-> TRUE, settledFromStalePrice |-> FALSE]]
  /\ observation' = [observation EXCEPT ![ObservationKey(m)] = NoObservation]
  /\ UNCHANGED <<now, paused, oracleAuthority, market, prints, feed>>

-----------------------------------------------------------------------------
(* update_config may rotate the oracle authority; set_pause flips paused.  *)
RotateOracleAuthority(a) ==
  /\ a # oracleAuthority
  /\ oracleAuthority' = a
  /\ UNCHANGED <<now, paused, market, oracle, prints, feed, observation>>

SetPause(b) ==
  /\ b # paused
  /\ paused' = b
  /\ UNCHANGED <<now, oracleAuthority, market, oracle, prints, feed, observation>>

(* close_settled_market, as far as the oracle is concerned: the pool-side  *)
(* conditions are in LiquidityPool.                                        *)
CloseSettledMarket(m) ==
  /\ market[m] = "live"
  /\ now > CleanupDeadline(m)
  /\ market' = [market EXCEPT ![m] = "closed"]
  /\ oracle' = [oracle EXCEPT ![m] = ZeroOracle]
  /\ UNCHANGED <<now, paused, oracleAuthority, prints, feed, observation>>

(* External: Pyth signs a print dated now.                                 *)
PythPrint(s, q) ==
  /\ Cardinality(prints) < MaxPrints
  /\ prints' = prints \cup
       {[symbol |-> s, publishTime |-> now, price |-> q.price,
         confidence |-> q.confidence, exponent |-> q.exponent]}
  /\ UNCHANGED <<now, paused, oracleAuthority, market, oracle, feed, observation>>

Tick ==
  /\ now < MaxTime
  /\ now' = now + 1
  /\ UNCHANGED <<paused, oracleAuthority, market, oracle, prints, feed, observation>>

Next ==
  \/ \E m \in Markets :
       \/ CreateMarket(m)
       \/ CaptureCustomSettlementObservation(m)
       \/ PublishCustomSettlement(m)
       \/ CloseSettledMarket(m)
  \/ \E m \in Markets, p \in prints : PublishPythSettlement(m, p)
  \/ \E s \in Symbols, scale \in Scales : InitCustomPriceFeed(s, scale)
  \/ \E s \in Symbols, q \in CustomQuotations, t \in 0 .. now : UpdateCustomPriceFeed(s, q, t)
  \/ \E s \in Symbols, q \in Quotations : PythPrint(s, q)
  \/ \E a \in Authorities : RotateOracleAuthority(a)
  \/ \E b \in BOOLEAN : SetPause(b)
  \/ Tick

Spec == Init /\ [][Next]_vars

-----------------------------------------------------------------------------
(* Type invariant: every account keeps the shape create_market,            *)
(* init_custom_price_feed and capture give it.                             *)
TypeOK ==
  /\ now \in 0 .. MaxTime
  /\ paused \in BOOLEAN
  /\ oracleAuthority \in Authorities
  /\ market \in [Markets -> {"absent", "live", "closed"}]
  /\ oracle \in [Markets -> OracleRecord]
  /\ prints \subseteq PrintRecord
  /\ feed \in [Symbols -> FeedRecord]
  /\ observation \in [ObservationKeys -> ObservationRecord]

(* A settlement price is dated and published when the two-tier rule of     *)
(* publish_pyth_settlement and the capture window of the custom path say:  *)
(* a fresh price is dated inside the window; a stale one is dated before   *)
(* the expiry, no further back than the staleness, and was published only  *)
(* after refunds had been open for the whole priority period.  Nothing is  *)
(* published after the final deadline, so nothing after the cleanup one.   *)
SettlementIsDated(m) ==
  LET o == oracle[m] IN
  /\ Expiry(m) <= o.publishedAt
  /\ o.publishedAt <= FinalDeadline(m)
  /\ o.publishedAt <= CleanupDeadline(m)
  /\ o.observedAt <= o.publishedAt
  /\ o.publishedAt <= now
  /\ IF o.settledFromStalePrice
       THEN /\ o.observedAt < Expiry(m)
            /\ Expiry(m) <= o.observedAt + Terms[m].staleness
            /\ o.publishedAt > SettlementDeadline(m) + SETTLEMENT_REFUND_PRIORITY
       ELSE /\ Expiry(m) <= o.observedAt
            /\ o.observedAt <= ObservationEnd(m)

SettlementsAreDated ==
  \A m \in Markets : oracle[m].finalized => SettlementIsDated(m)

(* Every settlement price respects the confidence bound of its own market, *)
(* whichever path published it.                                            *)
SettlementsAreConfident ==
  \A m \in Markets : oracle[m].finalized =>
    ConfidenceOk(oracle[m].price, oracle[m].confidence, Terms[m].maxConfidenceBps)

(* Rounding the price down and the confidence up in normalize_pyth_price   *)
(* never lets through a print whose own, unrounded confidence is too wide. *)
RescalingNeverLoosens ==
  \A m \in Markets, p \in prints :
    PrintUsable(m, p) => ConfidenceOk(p.price, p.confidence, Terms[m].maxConfidenceBps)

(* The age check of publish_pyth_settlement "must not defeat a legitimate  *)
(* tier-2 print": it never rejects a print either tier accepts.            *)
AgeBoundNeverBinds ==
  \A m \in Markets, p \in prints :
    PublicationOpen(m) /\ (TierOneOk(m, p) \/ TierTwoOk(m, p)) => PrintAgeOk(m, p)

(* A capture is never wasted by its own timing: the observation held for a *)
(* (symbol, expiry) fits at least one market with that address, whatever   *)
(* time passed and whatever key became the authority since.                *)
CapturesArePublishable ==
  \A k \in ObservationKeys : observation[k].exists =>
    \E m \in Markets : ObservationKey(m) = k /\ ObservationFits(m)

(* A settlement price never changes and is never withdrawn while the       *)
(* market exists, and a market that was closed never exists again:         *)
(* whatever order the two publishers, the creator and the cleaner act in.  *)
PriceIsFinal ==
  [][\A m \in Markets :
       /\ oracle[m].finalized => oracle'[m] = oracle[m] \/ market'[m] = "closed"
       /\ market[m] = "closed" => market'[m] = "closed"]_vars

(* Both publishers, the feed, the captures and the cleanup together keep   *)
(* the promise of MarketOutcome.                                           *)
Outcome == INSTANCE MarketOutcome WITH
  Prices <- U64,
  outcome <- [m \in Markets |->
    IF market[m] # "live"
      THEN [status |-> market[m], price |-> 0]
      ELSE IF oracle[m].finalized
        THEN [status |-> "final", price |-> oracle[m].price]
        ELSE [status |-> "pending", price |-> 0]]

ImplementsMarketOutcome == Outcome!OutcomeSpec

-----------------------------------------------------------------------------
(* The comment on tier 2 in publish_pyth_settlement: it "is now            *)
(* unreachable for as long as any real print could still be published".    *)
StaleOnlyWithoutRealPrint ==
  [][\A m \in Markets, p \in prints :
       /\ ~oracle[m].finalized
       /\ oracle'[m].finalized
       /\ oracle'[m].settledFromStalePrice
       => ~(TierOneOk(m, p) /\ PrintUsable(m, p))]_vars

(* The custom oracle "retains the first validated observation inside the   *)
(* expiry window": markets of one symbol and expiry that settle from the   *)
(* custom feed settle from one observation.  With no Pyth print around,    *)
(* every settlement is a custom one.                                       *)
OneObservationPerExpiry ==
  \A m1, m2 \in Markets :
    /\ prints = {}
    /\ ObservationKey(m1) = ObservationKey(m2)
    /\ oracle[m1].finalized
    /\ oracle[m2].finalized
    => oracle[m1].price = oracle[m2].price

=============================================================================
