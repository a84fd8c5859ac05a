------------------------- MODULE PoolRiskLimitsProofs -----------------------
(***************************************************************************)
(* The timelock of a pool's risk configuration, for any set of keys,       *)
(* configurations and any length of the timelock.                          *)
(***************************************************************************)
EXTENDS PoolRiskLimits, TLAPS

USE QuoteAuthoritiesAssumption, LimitChoicesAssumption, TimelockAssumption,
    RiskBoundAssumption

-----------------------------------------------------------------------------
(* What stands as announced is what is pending, and it was announced one   *)
(* timelock before it takes effect: the link between the fields of the     *)
(* account and the history.  The authority it names was checked when it    *)
(* was proposed; apply_liquidity_pool_update looks at the caps only.       *)
PendingIsAnnounced ==
  pending.effectiveAt # 0 =>
    /\ pending.limits.quoteAuthority # NoQuoteAuthority
    /\ announced.limits = pending.limits
    /\ announced.at + POOL_UPDATE_TIMELOCK = pending.effectiveAt

IInv == TypeOK /\ PendingIsAnnounced /\ LiveLimitsWereAnnounced

LEMMA LimitsTyped == NoLimits \in LimitsRecord
BY DEF NoLimits, LimitsRecord

LEMMA InitIInv == Init => IInv
<1>. SUFFICES ASSUME Init PROVE IInv OBVIOUS
<1>. USE DEF Init
<1>1. TypeOK
  BY LimitsTyped DEF TypeOK, NoPending, NoAnnouncement
<1>2. PendingIsAnnounced
  BY DEF PendingIsAnnounced, NoPending
<1>3. LiveLimitsWereAnnounced
  <2>1. limits \in LimitsRecord BY <1>1 DEF TypeOK
  <2>. QED BY <2>1 DEF LiveLimitsWereAnnounced, LimitsRecord
<1>. QED BY <1>1, <1>2, <1>3 DEF IInv

LEMMA NextIInv == IInv /\ [Next]_riskVars => IInv'
<1>. SUFFICES ASSUME IInv, [Next]_riskVars PROVE IInv' OBVIOUS
<1>. USE DEF IInv
<1>1. ASSUME NEW l \in LimitChoices, UpdateLiquidityPool(l) PROVE IInv'
  <2>. l \in LimitsRecord OBVIOUS
  <2>. USE <1>1 DEF UpdateLiquidityPool, Acceptable
  <2>1. CASE TighteningOnly(limits, l)
    <3>1. limits' = l /\ UNCHANGED <<now, idle, pending, announced, mandate>>
      BY <2>1
    <3>2. TypeOK' BY <3>1 DEF TypeOK
    <3>3. PendingIsAnnounced' BY <3>1 DEF PendingIsAnnounced
    <3>4. LiveLimitsWereAnnounced'
      <4>1. limits \in LimitsRecord /\ mandate.limits \in LimitsRecord BY DEF TypeOK
      <4>. QED BY <2>1, <3>1, <4>1 DEF LiveLimitsWereAnnounced, TighteningOnly, LimitsRecord
    <3>. QED BY <3>2, <3>3, <3>4
  <2>2. CASE ~TighteningOnly(limits, l)
    <3>1. /\ pending' = [limits |-> l, effectiveAt |-> now + POOL_UPDATE_TIMELOCK]
          /\ announced' = [limits |-> l, at |-> now]
          /\ UNCHANGED <<now, idle, limits, mandate>>
      BY <2>2
    <3>2. TypeOK' BY <3>1 DEF TypeOK
    <3>3. PendingIsAnnounced' BY <3>1 DEF PendingIsAnnounced, ValidLimits
    <3>4. LiveLimitsWereAnnounced' BY <3>1 DEF LiveLimitsWereAnnounced
    <3>. QED BY <3>2, <3>3, <3>4
  <2>. QED BY <2>1, <2>2
<1>2. CASE ApplyLiquidityPoolUpdate
  <2>. USE <1>2 DEF ApplyLiquidityPoolUpdate
  <2>1. TypeOK'
    <3>1. pending.limits.quoteAuthority # NoQuoteAuthority
      BY DEF PendingIsAnnounced
    <3>. QED BY <3>1, LimitsTyped DEF TypeOK, NoPending, NoAnnouncement, ValidLimits
  <2>2. PendingIsAnnounced' BY DEF PendingIsAnnounced, NoPending
  <2>3. LiveLimitsWereAnnounced'
    BY DEF LiveLimitsWereAnnounced, PendingIsAnnounced, TypeOK, LimitsRecord
  <2>. QED BY <2>1, <2>2, <2>3
<1>3. CASE CancelPendingPoolUpdate
  <2>. USE <1>3 DEF CancelPendingPoolUpdate
  <2>1. TypeOK' BY LimitsTyped DEF TypeOK, NoPending, NoAnnouncement
  <2>2. PendingIsAnnounced' BY DEF PendingIsAnnounced, NoPending
  <2>3. LiveLimitsWereAnnounced' BY DEF LiveLimitsWereAnnounced
  <2>. QED BY <2>1, <2>2, <2>3
<1>4. CASE OpenOrClose
  BY <1>4 DEF OpenOrClose, TypeOK, PendingIsAnnounced, LiveLimitsWereAnnounced
<1>5. CASE Elapse
  BY <1>5 DEF Elapse, TypeOK, PendingIsAnnounced, LiveLimitsWereAnnounced
<1>6. CASE UNCHANGED riskVars
  BY <1>6 DEF riskVars, TypeOK, PendingIsAnnounced, LiveLimitsWereAnnounced
<1>. QED BY <1>1, <1>2, <1>3, <1>4, <1>5, <1>6 DEF Next

THEOREM InvHolds == Spec => []IInv
BY InitIInv, NextIInv, PTL DEF Spec

(* Type correctness of the risk configuration, and with it the validity of *)
(* the live caps.                                                          *)
THEOREM RiskTypeCorrect == Spec => []TypeOK
BY InvHolds, PTL DEF IInv

(* The timelock: at every instant the live configuration is covered by one *)
(* that was announced a whole timelock earlier and never withdrawn.        *)
THEOREM TimelockHolds == Spec => []LiveLimitsWereAnnounced
BY InvHolds, PTL DEF IInv

=============================================================================
