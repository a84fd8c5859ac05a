---------------------------- MODULE MarketKeeper ----------------------------
(***************************************************************************)
(* vsol/scripts/keeper.ts: passes that list the markets the rolling grid   *)
(* calls for and authorize them on the pool, run by a scheduled job and by *)
(* hand, against a chain where buyers trade, the guardian disables markets *)
(* and anyone may list.                                                    *)
(*                                                                         *)
(* A market is one listing's [expiry, strike]: everything else in its terms*)
(* is the same for every rung, and its address is the hash of its terms.   *)
(* Each await of a pass is a step.  One listing is modelled: the next one  *)
(* starts over with its own clock reading and its own markets.             *)
(***************************************************************************)
EXTENDS ExpiryGrid, Sequences, FiniteSets

CONSTANTS
  Keepers,                           \* passes that may run at the same time
  SpotStrikes,                       \* ladder strikes the spot price may round to
  KEEPER_MIN_LEAD,                   \* MIN_MARKET_LEAD_SECONDS, here and on chain
  CREATE_AUTHORIZE_MARGIN,
  RUNGS,                             \* bound: how many rungs of the schedule, for TLC
  MaxPasses,                         \* bound on the passes started, for TLC
  MaxOthers,                         \* bound on what everyone else does, for TLC
  MaxClock                           \* bound on the clock, for TLC

(* The grid has five rungs, and its first stops trading the latest before  *)
(* its expiry (expiry-grid.ts 61-67: 60 seconds against 300).              *)
ASSUME KeeperAssumption == RUNGS \in 1 .. 5 /\ CUTOFF_15M <= CUTOFF

VARIABLES
  clock,                             \* the cluster's clock
  listed,                            \* markets on chain
  disabled,                          \* those the guardian has disabled
  cutoffOf,                          \* lastTradeAt of the markets bound to the pool
  traded,                            \* markets with an open position
  keeper,                            \* keeper[k]: where pass k is and what it has read
  passes, others,                    \* passes started, and steps of everyone else
  contested                          \* history, see OneStrikePerExpiry

keeperChain == <<clock, listed, disabled, cutoffOf, traded>>
keeperVars == <<keeperChain, keeper, passes, others, contested>>

OthersAct == others < MaxOthers /\ others' = others + 1

Bound == DOMAIN cutoffOf
Bind(m, cutoff) ==
  [x \in Bound \cup {m} |-> IF x = m THEN cutoff ELSE cutoffOf[x]]

NoMarket == [expiry |-> 0, strike |-> 0]

IdlePass ==
  [at |-> "idle", schedule |-> <<>>, found |-> {}, poolBusy |-> FALSE, read |-> 0,
   rung |-> 1, market |-> NoMarket, overlapped |-> FALSE]

Running(k) == keeper[k].at # "idle"

isRungAuthorizable(t, rung, minLead) ==
  /\ rung.lastTradeAt >= t + minLead
  /\ rung.lastTradeAt < rung.expiry

-----------------------------------------------------------------------------
(* The program, and everyone who is not a keeper.                          *)

CreateAllowed(m) == m \notin listed /\ clock + KEEPER_MIN_LEAD <= m.expiry

(* set_liquidity_pool_market: a first authorization is additive, any other *)
(* one needs an idle pool.                                                 *)
FirstTime(m) == m \notin Bound
BindRefused_BusyOrNot(m, cutoff) ==
  CASE m \in disabled -> "MarketDisabled"
    [] m \notin disabled
         /\ ~isRungAuthorizable(clock, [expiry |-> m.expiry, lastTradeAt |-> cutoff],
                                KEEPER_MIN_LEAD) -> "InvalidLastTradeCutoff"
    [] OTHER -> "none" \* mutant: no idle pool asked for

BindRefused(m, cutoff) ==
  CASE ~FirstTime(m) /\ traded # {} -> "PoolHasOpenPositions"
    [] (FirstTime(m) \/ traded = {}) /\ m \in disabled -> "MarketDisabled"
    [] (FirstTime(m) \/ traded = {}) /\ m \notin disabled
         /\ ~isRungAuthorizable(clock, [expiry |-> m.expiry, lastTradeAt |-> cutoff],
                                KEEPER_MIN_LEAD) -> "InvalidLastTradeCutoff"
    [] OTHER -> "none"

PassClock ==
  /\ clock < MaxClock
  /\ clock' = clock + 1
  /\ UNCHANGED <<listed, disabled, cutoffOf, traded, keeper, passes, others, contested>>

Trade(m) ==
  /\ OthersAct
  /\ m \in Bound \ disabled
  /\ clock < cutoffOf[m]
  /\ traded' = traded \cup {m}
  /\ UNCHANGED <<clock, listed, disabled, cutoffOf, keeper, passes, contested>>

LastPositionLeaves(m) ==
  /\ OthersAct
  /\ m \in traded
  /\ traded' = traded \ {m}
  /\ UNCHANGED <<clock, listed, disabled, cutoffOf, keeper, passes, contested>>

DisableMarket(m) ==
  /\ OthersAct
  /\ m \in listed \ disabled
  /\ disabled' = disabled \cup {m}
  /\ contested' = contested \cup {m.expiry}
  /\ UNCHANGED <<clock, listed, cutoffOf, traded, keeper, passes>>

OtherLists(m) ==
  /\ OthersAct
  /\ CreateAllowed(m)
  /\ listed' = listed \cup {m}
  /\ contested' = contested \cup {m.expiry}
  /\ UNCHANGED <<clock, disabled, cutoffOf, traded, keeper, passes>>

-----------------------------------------------------------------------------
(* One pass: the schedule from one clock reading, one scan of the markets, *)
(* one look at the pool, then rung by rung.                                *)

To(k, at) == keeper' = [keeper EXCEPT ![k].at = at]

\* A new pass takes some free name: which one does not matter.
StartPass(k) ==
  /\ ~Running(k) /\ k = CHOOSE j \in Keepers : ~Running(j)
  /\ passes < MaxPasses
  /\ passes' = passes + 1
  /\ LET rivals == {j \in Keepers \ {k} : Running(j)} IN
       keeper' = [j \in Keepers |->
         IF j = k THEN [IdlePass EXCEPT !.at = "scan", !.overlapped = rivals # {},
                          !.schedule = SubSeq(rollingMarketSchedule(clock), 1, RUNGS)]
         ELSE [keeper[j] EXCEPT !.overlapped = @ \/ j \in rivals]]
  /\ UNCHANGED <<keeperChain, others, contested>>

ScanMarkets_BoundOnly(k) ==
  /\ keeper[k].at = "scan"
  /\ keeper' = [keeper EXCEPT ![k].found = Bound \ disabled, ![k].at = "pool"]
  /\ UNCHANGED <<keeperChain, passes, others, contested>> \* mutant: finds the authorized markets only

ScanMarkets(k) ==
  /\ keeper[k].at = "scan"
  /\ keeper' = [keeper EXCEPT ![k].found = listed \ disabled, ![k].at = "pool"]
  /\ UNCHANGED <<keeperChain, passes, others, contested>>

resolvePoolAuthorizationContext(k) ==
  /\ keeper[k].at = "pool"
  /\ keeper' = [keeper EXCEPT ![k].poolBusy = traded # {}, ![k].at = "clock"]
  /\ UNCHANGED <<keeperChain, passes, others, contested>>

ReadMarketClock(k) ==
  /\ keeper[k].at = "clock"
  /\ keeper' = [keeper EXCEPT ![k].read = clock, ![k].at = "rung"]
  /\ UNCHANGED <<keeperChain, passes, others, contested>>

Rung(k) == keeper[k].schedule[keeper[k].rung]

(* The next rung, or the end of the pass.                                  *)
Following(r) ==
  IF r.rung < Len(r.schedule)
    THEN [r EXCEPT !.rung = @ + 1, !.at = "rung", !.market = NoMarket]
    ELSE IdlePass

NextRung(k) == keeper' = [keeper EXCEPT ![k] = Following(keeper[k])]

(* A call that fails in a way nobody expected abandons the listing.        *)
Abandon(k) ==
  /\ keeper[k].at \in {"scan", "pool", "clock", "create", "bind", "read", "authorize"}
  /\ keeper' = [keeper EXCEPT ![k] = IdlePass]
  /\ UNCHANGED <<keeperChain, passes, others, contested>>

indexMarketsByExpiry(k, expiry) == {m \in keeper[k].found : m.expiry = expiry}

Discover(k) ==
  /\ keeper[k].at = "rung"
  /\ \E m \in indexMarketsByExpiry(k, Rung(k).expiry) :
       keeper' = [keeper EXCEPT ![k].market = m, ![k].at = "bind"]
  /\ UNCHANGED <<keeperChain, passes, others, contested>>

(* Too close to its cutoff to survive until it is authorized, or no spot.  *)
SkipRung(k) ==
  /\ keeper[k].at = "rung"
  /\ indexMarketsByExpiry(k, Rung(k).expiry) = {}
  /\ NextRung(k)
  /\ UNCHANGED <<keeperChain, passes, others, contested>>

LadderStrike(k) ==
  /\ keeper[k].at = "rung"
  /\ indexMarketsByExpiry(k, Rung(k).expiry) = {}
  /\ isRungAuthorizable(keeper[k].read, Rung(k), KEEPER_MIN_LEAD + CREATE_AUTHORIZE_MARGIN)
  /\ \E strike \in SpotStrikes :
       keeper' = [keeper EXCEPT ![k].at = "create",
                    ![k].market = [expiry |-> Rung(k).expiry, strike |-> strike]]
  /\ UNCHANGED <<keeperChain, passes, others, contested>>

(* The existence check and the creation; a lost race is a skip, and so is a*)
(* creation that landed although the call reported an error.               *)
CreateMarket(k) ==
  LET m == keeper[k].market IN
    /\ keeper[k].at = "create"
    /\ \/ /\ CreateAllowed(m)
          /\ listed' = listed \cup {m}
          /\ contested' = contested \cup
               (IF keeper[k].overlapped THEN {m.expiry} ELSE {})
       \/ /\ m \in listed
          /\ UNCHANGED <<listed, contested>>
    /\ To(k, "bind")
    /\ UNCHANGED <<clock, disabled, cutoffOf, traded, passes, others>>

(* authorizeRung, up to the clock reading before it sends.                 *)
Current(m, cutoff) == m \in Bound /\ cutoffOf[m] = cutoff

SkipBinding(k) ==
  LET m == keeper[k].market IN
    /\ keeper[k].at = "bind"
    /\ Current(m, Rung(k).lastTradeAt) \/ keeper[k].poolBusy
    /\ NextRung(k)
    /\ UNCHANGED <<keeperChain, passes, others, contested>>

FindBinding(k) ==
  /\ keeper[k].at = "bind"
  /\ ~Current(keeper[k].market, Rung(k).lastTradeAt)
  /\ ~keeper[k].poolBusy
  /\ To(k, "read")
  /\ UNCHANGED <<keeperChain, passes, others, contested>>

CheckCutoff(k) ==
  /\ keeper[k].at = "read"
  /\ IF isRungAuthorizable(clock, Rung(k), KEEPER_MIN_LEAD) THEN To(k, "authorize")
     ELSE NextRung(k)
  /\ UNCHANGED <<keeperChain, passes, others, contested>>

(* PoolHasOpenPositions, MarketDisabled and InvalidLastTradeCutoff are     *)
(* skips of this rung only.                                                *)
authorizeRung(k) ==
  LET m == keeper[k].market
      refused == BindRefused(m, Rung(k).lastTradeAt) IN
    /\ keeper[k].at = "authorize"
    /\ cutoffOf' = IF refused = "none" THEN Bind(m, Rung(k).lastTradeAt) ELSE cutoffOf
    /\ NextRung(k)
    /\ UNCHANGED <<clock, listed, disabled, traded, passes, others, contested>>

-----------------------------------------------------------------------------
KeeperInit ==
  /\ clock = 0
  /\ listed = {} /\ disabled = {} /\ cutoffOf = [m \in {} |-> 0] /\ traded = {}
  /\ keeper = [k \in Keepers |-> IdlePass]
  /\ passes = 0 /\ others = 0 /\ contested = {}

PassStep(k) ==
  \/ StartPass(k) \/ ScanMarkets(k) \/ resolvePoolAuthorizationContext(k)
  \/ ReadMarketClock(k) \/ Discover(k) \/ SkipRung(k) \/ LadderStrike(k)
  \/ CreateMarket(k) \/ SkipBinding(k) \/ FindBinding(k) \/ CheckCutoff(k)
  \/ authorizeRung(k) \/ Abandon(k)

GridMarkets == [expiry : {rollingMarketSchedule(clock)[i].expiry : i \in 1 .. RUNGS},
                strike : SpotStrikes]

KeeperNext ==
  \/ PassClock
  \/ \E m \in listed : Trade(m) \/ LastPositionLeaves(m) \/ DisableMarket(m)
  \/ \E m \in GridMarkets : OtherLists(m)
  \/ \E k \in Keepers : PassStep(k)

KeeperSpec == KeeperInit /\ [][KeeperNext]_keeperVars

-----------------------------------------------------------------------------
(* A listed expiry keeps its one strike: later passes find it and never    *)
(* list a second one at wherever the price has moved to, unless two passes *)
(* overlapped, somebody else listed, or the guardian disabled the first.   *)
OneStrikePerExpiry ==
  \A m1, m2 \in listed : m1.expiry = m2.expiry => m1 = m2 \/ m1.expiry \in contested

(* A rung keeps its market while its series changes (an hourly expiry turns*)
(* into the next quarter hour), and then its cutoff moves; it never moves  *)
(* to an earlier instant, which would close a market a buyer was told is   *)
(* open, nor while a position is open, except when passes overlap.         *)
CutoffsMoveForward ==
  [][\A m \in Bound :
       /\ m \in DOMAIN cutoffOf'
       /\ cutoffOf'[m] # cutoffOf[m] => traded = {}
       /\ cutoffOf'[m] < cutoffOf[m] => \E k \in Keepers : keeper[k].overlapped]_keeperVars
=============================================================================
