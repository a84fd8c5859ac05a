---------------------------- MODULE PoolRiskLimits --------------------------
(***************************************************************************)
(* The risk configuration of a liquidity pool: who signs its quotes and    *)
(* how much of it they may commit.  A change that only tightens the caps   *)
(* applies at once; any other waits out a timelock as a proposal that the  *)
(* manager may cancel or replace.  Proposing and applying need an idle     *)
(* pool; what makes the pool idle is the business of LiquidityPool, which  *)
(* instantiates this module.                                               *)
(*                                                                         *)
(* announced and mandate are history variables: the proposal that stands,  *)
(* and the announcement the live configuration rests on.                   *)
(***************************************************************************)
EXTENDS VsolMath

CONSTANTS
  QuoteAuthorities,                  \* keys that may sign quotes
  NoQuoteAuthority,                  \* Pubkey::default()
  LimitChoices,                      \* configurations a manager may ask for
  POOL_UPDATE_TIMELOCK,              \* 86400 s in the program
  MaxTime                            \* bound on the clock, for TLC

LimitsRecord ==
  [quoteAuthority : QuoteAuthorities \cup {NoQuoteAuthority},
   maxUtilizationBps : Nat, maxPositionBps : Nat]

ASSUME QuoteAuthoritiesAssumption == NoQuoteAuthority \notin QuoteAuthorities
ASSUME LimitChoicesAssumption == LimitChoices \subseteq LimitsRecord
ASSUME TimelockAssumption == POOL_UPDATE_TIMELOCK \in Nat \ {0}
ASSUME RiskBoundAssumption == MaxTime \in Nat

VARIABLES
  now,                               \* Clock::unix_timestamp
  idle,                              \* open_positions == 0 && locked_collateral == 0
  limits,                            \* the live configuration
  pending,                           \* the pending_* fields
  announced,                         \* history: the proposal that stands
  mandate                            \* history: what the live configuration rests on

riskVars == <<now, idle, limits, pending, announced, mandate>>

NoLimits == [quoteAuthority |-> NoQuoteAuthority, maxUtilizationBps |-> 0, maxPositionBps |-> 0]
NoPending == [limits |-> NoLimits, effectiveAt |-> 0]
NoAnnouncement == [limits |-> NoLimits, at |-> 0]

ValidLimits(l) ==
  /\ l.quoteAuthority # NoQuoteAuthority
  /\ ValidRiskLimits(l.maxUtilizationBps, l.maxPositionBps)

-----------------------------------------------------------------------------
(* The state initialize_liquidity_pool leaves.  Nobody is exposed before    *)
(* the pool exists, so its first configuration counts as announced.        *)
Init ==
  /\ now = 0
  /\ idle = TRUE
  /\ limits \in {l \in LimitChoices : ValidLimits(l)}
  /\ pending = NoPending
  /\ announced = NoAnnouncement
  /\ mandate = [limits |-> limits, at |-> - POOL_UPDATE_TIMELOCK]

TighteningOnly_CapsOnly(old, new) ==           \* mutant: forgets the authority
  /\ new.maxUtilizationBps <= old.maxUtilizationBps
  /\ new.maxPositionBps <= old.maxPositionBps

TighteningOnly(old, new) ==
  /\ new.quoteAuthority = old.quoteAuthority
  /\ new.maxUtilizationBps <= old.maxUtilizationBps
  /\ new.maxPositionBps <= old.maxPositionBps

Acceptable_AnyCaps(l) == l.quoteAuthority # NoQuoteAuthority   \* mutant: checks at apply only

Acceptable(l) == ValidLimits(l)

UpdateLiquidityPool(l) ==
  /\ idle
  /\ Acceptable(l)
  /\ IF TighteningOnly(limits, l)
       THEN /\ limits' = l
            /\ UNCHANGED <<pending, announced>>
       ELSE /\ pending' = [limits |-> l, effectiveAt |-> now + POOL_UPDATE_TIMELOCK]
            /\ announced' = [limits |-> l, at |-> now]
            /\ UNCHANGED limits
  /\ UNCHANGED <<now, idle, mandate>>

ApplyLiquidityPoolUpdate ==
  /\ idle
  /\ pending.effectiveAt # 0
  /\ now >= pending.effectiveAt
  /\ ValidRiskLimits(pending.limits.maxUtilizationBps, pending.limits.maxPositionBps)
  /\ limits' = pending.limits
  /\ pending' = NoPending
  /\ mandate' = announced
  /\ announced' = NoAnnouncement
  /\ UNCHANGED <<now, idle>>

CancelPendingPoolUpdate ==
  /\ pending.effectiveAt # 0
  /\ pending' = NoPending
  /\ announced' = NoAnnouncement
  /\ UNCHANGED <<now, idle, limits, mandate>>

(* External to this module: positions open and close.                      *)
OpenOrClose ==
  /\ idle' = ~idle
  /\ UNCHANGED <<now, limits, pending, announced, mandate>>

Elapse ==
  /\ now < MaxTime
  /\ now' = now + 1
  /\ UNCHANGED <<idle, limits, pending, announced, mandate>>

Next ==
  \/ \E l \in LimitChoices : UpdateLiquidityPool(l)
  \/ ApplyLiquidityPoolUpdate
  \/ CancelPendingPoolUpdate
  \/ OpenOrClose
  \/ Elapse

Spec == Init /\ [][Next]_riskVars

-----------------------------------------------------------------------------
(* Type invariant, with validate_pool_risk_limits: the live configuration  *)
(* passes the check whatever sequence of tightenings, proposals and        *)
(* applications led to it.                                                 *)
TypeOK ==
  /\ now \in 0 .. MaxTime
  /\ idle \in BOOLEAN
  /\ limits \in LimitsRecord /\ ValidLimits(limits)
  /\ pending \in [limits : LimitsRecord, effectiveAt : Nat]
  /\ announced \in [limits : LimitsRecord, at : Nat]
  /\ mandate \in [limits : LimitsRecord, at : Int]

(* The timelock of update_liquidity_pool: whatever the manager proposed,   *)
(* replaced, cancelled, tightened or applied in between, the providers are *)
(* never exposed beyond a configuration they could have read about for the *)
(* whole timelock, and never to one that was withdrawn or superseded.      *)
LiveLimitsWereAnnounced ==
  /\ limits.quoteAuthority = mandate.limits.quoteAuthority
  /\ limits.maxUtilizationBps <= mandate.limits.maxUtilizationBps
  /\ limits.maxPositionBps <= mandate.limits.maxPositionBps
  /\ mandate.at + POOL_UPDATE_TIMELOCK <= now

=============================================================================
