---------------------------- MODULE MarketCleanup ---------------------------
(***************************************************************************)
(* vsol/scripts/cranker.ts: a run publishes what is missing a price, then  *)
(* settles or refunds every expired position, then closes the markets that *)
(* are long over and gives their rent back; the oracle runner's hourly lane*)
(* runs the last part alone.  Once a market's account is gone, a position  *)
(* still open on it can never be settled nor refunded, and the program     *)
(* looks at one pool's binding only, the one the caller names.             *)
(*                                                                         *)
(* The account scans of a phase are concurrent calls: each is a step.      *)
(* Several pools may be bound to a market; a binding of the old layout has *)
(* no position count, and never gets one.                                  *)
(***************************************************************************)
EXTENDS SettlementDecisions, FiniteSets

CONSTANTS
  Pools,
  Cleaners,                          \* processes that run the cleanup
  MAX_MARKETS_CLOSED_PER_RUN,
  MAX_RUN,                           \* bound on the time a run takes
  MaxPositions,                      \* bound on a pool's positions in a market, for TLC
  Instants                           \* the clock readings modelled, for TLC

\* No run lasts from before the last enabling of a market to the instant it may
\* be closed, a week and more later in the program.
ASSUME CleanupAssumption ==
  /\ Instants \subseteq Nat /\ MAX_RUN \in Nat
  /\ IsFiniteSet(Markets) /\ IsFiniteSet(Pools)
  /\ \A m \in Markets : MAX_RUN <= MIN_MARKET_LEAD + (CleanupDeadline(m) - Expiry(m)) + 1

VARIABLES
  time,
  live,                              \* markets whose account exists
  priced,                            \* markets whose oracle is finalized
  binding,                           \* binding[q][m]: a Binding or Unbound
  holdings,                          \* holdings[q][m]: positions open in fact
  cleaner                            \* cleaner[c]: where run c is and what it has read

cleanupChain == <<time, live, priced, binding, holdings>>
cleanupVars == <<cleanupChain, cleaner>>

Unbound == [enabled |-> FALSE, openPositionsKnown |-> FALSE, openPositions |-> -1]

PoolIdle(q) == \A m \in Markets : holdings[q][m] = 0

NoScan == [at |-> "idle", began |-> 0, due |-> {}, reads |-> {}, positions |-> {}, markets |-> {}, priced |-> {},
           bindings |-> [q \in Pools |-> [m \in Markets |-> Unbound]], clock |-> 0]

-----------------------------------------------------------------------------
(* The program as this run meets it.                                       *)

Later ==
  /\ \E t \in Instants :
       /\ t > time
       /\ \A c \in Cleaners : cleaner[c].at # "idle" => t <= cleaner[c].began + MAX_RUN
       /\ time' = t
  /\ UNCHANGED <<live, priced, binding, holdings, cleaner>>

(* set_liquidity_pool_market; a binding it creates counts from zero, one it*)
(* rewrites keeps its count, or the lack of one.                           *)
SetPoolMarket(q, m, enable) ==
  /\ m \in live
  /\ (enable /\ binding[q][m] = Unbound) \/ PoolIdle(q)
  /\ enable => time + MIN_MARKET_LEAD < Terms[m].expiry
  /\ binding' = [binding EXCEPT ![q][m] =
                   IF @ = Unbound THEN Binding(enable, TRUE, 0) ELSE [@ EXCEPT !.enabled = enable]]
  /\ UNCHANGED <<time, live, priced, holdings, cleaner>>

FillPosition(q, m) ==
  /\ m \in live
  /\ binding[q][m].enabled
  /\ time < Terms[m].expiry
  /\ holdings[q][m] < MaxPositions
  /\ holdings' = [holdings EXCEPT ![q][m] = @ + 1]
  /\ binding' = [binding EXCEPT ![q][m].openPositions =
                   IF binding[q][m].openPositionsKnown THEN @ + 1 ELSE @]
  /\ UNCHANGED <<time, live, priced, cleaner>>

(* publish_pyth_settlement: a print of the tier now open.                  *)
PublishAllowed(m) == m \in live /\ m \notin priced /\ selectViableSettlementTier(m, time) # "none"

SettleAllowed(q, m) == m \in live /\ holdings[q][m] > 0 /\ m \in priced

RefundAllowed(q, m) ==
  m \in live /\ holdings[q][m] > 0 /\ m \notin priced /\ time > computeSettlementDeadline(m)

CloseEarlyAllowed(q, m) ==
  m \in live /\ holdings[q][m] > 0 /\ m \notin priced /\ time < Terms[m].expiry

PositionLeaves(q, m) ==
  /\ holdings' = [holdings EXCEPT ![q][m] = @ - 1]
  /\ binding' = [binding EXCEPT ![q][m].openPositions =
                   IF binding[q][m].openPositionsKnown THEN @ - 1 ELSE @]

(* The buyers and the other crankers.                                      *)
ResolvePosition(q, m) ==
  /\ CloseEarlyAllowed(q, m) \/ SettleAllowed(q, m) \/ RefundAllowed(q, m)
  /\ PositionLeaves(q, m)
  /\ UNCHANGED <<time, live, priced, cleaner>>

\* The program decides on what is sent; a refusal changes nothing.
publishSettlementForMarket(m) ==
  /\ PublishAllowed(m)
  /\ priced' = priced \cup {m}

RivalPublishes(m) ==
  /\ publishSettlementForMarket(m)
  /\ UNCHANGED <<time, live, binding, holdings, cleaner>>

BoundPools(m) == [q \in {p \in Pools : binding[p][m] # Unbound} |-> binding[q][m]]

(* close_settled_market, for the binding it is handed.                     *)
CloseAllowed(q, m) ==
  /\ m \in live
  /\ time > CleanupDeadline(m)
  /\ binding[q][m] # Unbound
  /\ IsIdleBinding(binding[q][m])

(* Another process that ran the same cleanup to its end in the meantime.   *)
RivalCloses(q, m) ==
  /\ time > computeMarketCloseDeadline(m)
  /\ m \in live
  /\ q \in selectIdlePoolBindingFor(BoundPools(m))
  /\ live' = live \ {m}
  /\ binding' = [binding EXCEPT ![q][m] = Unbound]
  /\ UNCHANGED <<time, priced, holdings, cleaner>>

-----------------------------------------------------------------------------
(* The settlement phase of a run.                                          *)

BeginSettlement(c) ==
  /\ cleaner[c].at = "idle"
  /\ cleaner' = [cleaner EXCEPT ![c] = [NoScan EXCEPT !.at = "scan", !.began = time]]
  /\ UNCHANGED cleanupChain

Scans == {"positions", "markets", "clock"}

ScanForSettlement(c, read) ==
  LET r == [cleaner[c] EXCEPT !.reads = @ \cup {read}] IN
    /\ cleaner[c].at = "scan"
    /\ read \in Scans \ cleaner[c].reads
    /\ cleaner' = [cleaner EXCEPT ![c] =
         CASE read = "positions" ->
                [r EXCEPT !.positions = {p \in Pools \X Markets : holdings[p[1]][p[2]] > 0}]
           [] read = "markets" -> [r EXCEPT !.markets = live]
           [] read = "clock" -> [r EXCEPT !.clock = time]]
    /\ UNCHANGED cleanupChain

(* The expired positions of the markets that were read.                    *)
Expired(c) == {p \in cleaner[c].positions : /\ p[2] \in cleaner[c].markets
                                            /\ cleaner[c].clock >= Terms[p[2]].expiry}

(* The oracles are read after the markets; those of a closed market are    *)
(* gone, and its positions are left for another run.                       *)
FetchOracleStates(c) ==
  LET r == cleaner[c]
      readable == r.markets \cap live
      final == readable \cap priced
      publishable == selectMarketsNeedingSettlementAttempt(r.markets, r.clock, final,
                                                           {p[2] : p \in r.positions})
  IN /\ r.at = "scan" /\ r.reads = Scans
     /\ cleaner' = [cleaner EXCEPT ![c].at = "publish", ![c].priced = final,
                      ![c].positions = {p \in Expired(c) : p[2] \in readable},
                      ![c].due = (publishable \cup {p[2] : p \in Expired(c)}) \cap readable]
     /\ UNCHANGED cleanupChain

(* A publication may fail whatever the program thinks of it: there may be  *)
(* no print to send, or no provider.  That is only logged.                 *)
PublishOrSkip(c, m) ==
  /\ cleaner[c].at = "publish" /\ m \in cleaner[c].due
  /\ \/ /\ decideMarketPublishAction(m, cleaner[c].clock, m \in cleaner[c].priced) = "publish"
        /\ publishSettlementForMarket(m)
        /\ cleaner' = [cleaner EXCEPT ![c].priced = @ \cup {m}, ![c].due = @ \ {m}]
     \/ /\ cleaner' = [cleaner EXCEPT ![c].due = @ \ {m}]
        /\ UNCHANGED priced
  /\ UNCHANGED <<time, live, binding, holdings>>

(* By what the run has read, but the program decides; a refusal or failure *)
(* is only logged.                                                         *)
SettleOrRefund(c, q, m) ==
  LET decision == decidePositionAction(m, cleaner[c].clock, m \in cleaner[c].priced)
  IN /\ cleaner[c].at = "publish" /\ m \notin cleaner[c].due
     /\ <<q, m>> \in cleaner[c].positions
     /\ \/ /\ \/ decision = "settle" /\ SettleAllowed(q, m)
              \/ decision = "refund" /\ RefundAllowed(q, m)
           /\ PositionLeaves(q, m)
        \/ UNCHANGED <<binding, holdings>>
     /\ cleaner' = [cleaner EXCEPT ![c].positions = @ \ {<<q, m>>}]
     /\ UNCHANGED <<time, live, priced>>

-----------------------------------------------------------------------------
(* The cleanup, which reads everything again.                              *)

(* After the settlement phase, or alone; the operator may switch it off.   *)
BeginCleanup(c) ==
  /\ \/ cleaner[c].at = "idle"
     \/ cleaner[c].at = "publish" /\ cleaner[c].due = {} /\ cleaner[c].positions = {}
  /\ cleaner' = [cleaner EXCEPT ![c] = [NoScan EXCEPT !.at = "read", !.began = time]]
  /\ UNCHANGED cleanupChain

Stop(c) ==
  /\ cleaner[c].at = "publish" /\ cleaner[c].due = {} /\ cleaner[c].positions = {}
  /\ cleaner' = [cleaner EXCEPT ![c] = NoScan]
  /\ UNCHANGED cleanupChain

Reads == {"positions", "markets", "legacy bindings", "current bindings", "clock"}

MergeBindings(seen, isLegacy) ==
  [q \in Pools |-> [m \in Markets |->
     IF binding[q][m] # Unbound /\ binding[q][m].openPositionsKnown = ~isLegacy
       THEN binding[q][m] ELSE seen[q][m]]]

FetchAll(c, read) ==
  LET r == [cleaner[c] EXCEPT !.reads = @ \cup {read}] IN
    /\ cleaner[c].at = "read"
    /\ read \in Reads \ cleaner[c].reads
    /\ cleaner' = [cleaner EXCEPT ![c] =
         CASE read = "positions" ->
                [r EXCEPT !.positions = {m \in Markets : \E q \in Pools : holdings[q][m] > 0}]
           [] read = "markets" -> [r EXCEPT !.markets = live]
           [] read = "legacy bindings" -> [r EXCEPT !.bindings = MergeBindings(@, TRUE)]
           [] read = "current bindings" -> [r EXCEPT !.bindings = MergeBindings(@, FALSE)]
           [] read = "clock" -> [r EXCEPT !.clock = time]]
    /\ UNCHANGED cleanupChain

BindingsSeen(c, m) ==
  [q \in {p \in Pools : cleaner[c].bindings[p][m] # Unbound} |-> cleaner[c].bindings[q][m]]

(* At most so many candidates, in whatever order the scan returned them.   *)
SelectCandidates(c) ==
  /\ cleaner[c].at = "read"
  /\ cleaner[c].reads = Reads
  /\ LET all == selectMarketCloseCandidates(cleaner[c].markets, cleaner[c].clock,
                                            cleaner[c].positions)
     IN \E due \in SUBSET all :
          /\ Cardinality(due) = IF Cardinality(all) < MAX_MARKETS_CLOSED_PER_RUN
                                  THEN Cardinality(all) ELSE MAX_MARKETS_CLOSED_PER_RUN
          /\ cleaner' = [cleaner EXCEPT ![c].at = "close", ![c].due = due]
  /\ UNCHANGED cleanupChain

closeSettledMarket(c, q, m) ==
  /\ cleaner[c].at = "close"
  /\ m \in cleaner[c].due
  /\ q \in selectIdlePoolBindingFor(BindingsSeen(c, m))
  /\ IF CloseAllowed(q, m)
       THEN /\ live' = live \ {m}
            /\ binding' = [binding EXCEPT ![q][m] = Unbound]
       ELSE UNCHANGED <<live, binding>>
  /\ cleaner' = [cleaner EXCEPT ![c].due = @ \ {m}]
  /\ UNCHANGED <<time, priced, holdings>>

SkipMarket(c, m) ==
  /\ cleaner[c].at = "close"
  /\ m \in cleaner[c].due
  /\ selectIdlePoolBindingFor(BindingsSeen(c, m)) = {}
  /\ cleaner' = [cleaner EXCEPT ![c].due = @ \ {m}]
  /\ UNCHANGED cleanupChain

EndCleanup(c) ==
  /\ cleaner[c].at = "close" /\ cleaner[c].due = {}
  /\ cleaner' = [cleaner EXCEPT ![c] = NoScan]
  /\ UNCHANGED cleanupChain

-----------------------------------------------------------------------------
(* A pool starts unbound, or with a binding of the old layout.             *)
CleanupInit ==
  /\ time = 0
  /\ live = Markets
  /\ priced = {}
  /\ binding \in [Pools -> [Markets -> {Unbound, Binding(TRUE, FALSE, 0)}]]
  /\ holdings = [q \in Pools |-> [m \in Markets |-> 0]]
  /\ cleaner = [c \in Cleaners |-> NoScan]

CleanupStep(c) ==
  \/ BeginSettlement(c) \/ FetchOracleStates(c)
  \/ \E read \in Scans : ScanForSettlement(c, read)
  \/ \E m \in Markets : PublishOrSkip(c, m) \/ \E q \in Pools : SettleOrRefund(c, q, m)
  \/ BeginCleanup(c) \/ Stop(c) \/ SelectCandidates(c) \/ EndCleanup(c)
  \/ \E read \in Reads : FetchAll(c, read)
  \/ \E m \in Markets : SkipMarket(c, m) \/ \E q \in Pools : closeSettledMarket(c, q, m)

CleanupNext ==
  \/ Later
  \/ \E m \in Markets : RivalPublishes(m)
  \/ \E q \in Pools, m \in Markets :
       \/ FillPosition(q, m) \/ ResolvePosition(q, m) \/ RivalCloses(q, m)
       \/ \E enable \in BOOLEAN : SetPoolMarket(q, m, enable)
  \/ \E c \in Cleaners : CleanupStep(c)

CleanupSpec == CleanupInit /\ [][CleanupNext]_cleanupVars

-----------------------------------------------------------------------------
(* Nobody's position is stranded: a market is closed only when no pool has *)
(* a position on it, although the program checks one pool's binding and the*)
(* run decides from four scans that are not of the same instant.           *)
ClosedMarketsOweNothing ==
  \A m \in Markets \ live, q \in Pools : holdings[q][m] = 0
=============================================================================
