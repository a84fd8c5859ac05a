------------------------- MODULE OracleRunnerProofs -------------------------
(***************************************************************************)
(* What the runner decides off chain is what the program decides on chain, *)
(* and stays decided: for any markets, positions and durations, through    *)
(* any crashes, failed calls and races.                                    *)
(***************************************************************************)
EXTENDS OracleRunner, TLAPS

USE TermsAssumption, DurationsAssumption, RunnerAssumption

(* The five instants settlement.ts recomputes from a market account        *)
(* (lines 151-182) are the ones the program computes.                      *)
THEOREM InstantsAgree ==
  ASSUME NEW m \in Markets
  PROVE  /\ computeObservationEnd(m) = ObservationEnd(m)
         /\ computeSettlementDeadline(m) = SettlementDeadline(m)
         /\ computeTierTwoOpenAt(m) = TierTwoOpenAt(m)
         /\ computeFinalSettlementDeadline(m) = FinalDeadline(m)
         /\ computeMarketCloseDeadline(m) = CleanupDeadline(m)
BY DEF computeObservationEnd, computeSettlementDeadline, computeTierTwoOpenAt,
       computeFinalSettlementDeadline, computeMarketCloseDeadline, ObservationEnd,
       SettlementDeadline, TierTwoOpenAt, FinalDeadline, CleanupDeadline, Expiry

(* They are instants of the clock: the sums stay in Nat.                   *)
LEMMA InstantsTyped ==
  ASSUME NEW m \in Markets
  PROVE  Expiry(m) \in Nat /\ SettlementDeadline(m) \in Nat /\ FinalDeadline(m) \in Nat
<1>1. Terms[m].expiry \in Nat /\ Terms[m].window \in Nat /\ Terms[m].grace \in Nat
        /\ Terms[m].staleness \in Nat
  BY DEF TermsRecord
<1>. QED BY <1>1 DEF Expiry, SettlementDeadline, ObservationEnd, FinalDeadline

(* A refund is decided from a clock reading after the deadline, a          *)
(* settlement from a finalized price (settlement.ts decidePositionAction), *)
(* and nothing else is.                                                    *)
LEMMA DecisionMeans ==
  ASSUME NEW m \in Markets, NEW t \in Nat, NEW final
  PROVE  LET d == decidePositionAction(m, t, m \in final) IN
           /\ d \in {"skip", "settle", "refund"}
           /\ d = "settle" => m \in final
           /\ d = "refund" => t > SettlementDeadline(m)
<1>1. Terms[m].expiry \in Nat /\ computeSettlementDeadline(m) = SettlementDeadline(m)
        /\ SettlementDeadline(m) \in Nat
  BY InstantsAgree, InstantsTyped DEF Expiry
<1>. HIDE TermsAssumption, DurationsAssumption, RunnerAssumption
<1>. QED BY <1>1 DEF decidePositionAction

-----------------------------------------------------------------------------
(* What the pass in progress has read is still true: its clock reading is  *)
(* past, a price it saw is there for good.  What it has left to do, by the *)
(* loop it is in, follows from what it has read.                           *)
RunnerTyped ==
  /\ now \in Nat
  /\ outcome \in [Markets -> Outcomes]
  /\ position \in [Positions -> {"none", "open", "settled", "refunded"}]
  /\ pass \in [startup : BOOLEAN, now : Nat, positions : SUBSET Positions,
               finalized : SUBSET Markets, market : SUBSET Markets]

ReadingsArePast ==
  /\ pass.now <= now
  /\ \A m \in pass.finalized : Finalized(m)

WorkIsDue ==
  /\ pc \in {"observe", "publish"} => \A m \in todo : m \in Markets /\ Expiry(m) <= pass.now
  /\ \A m \in pass.market : Expiry(m) <= pass.now
  /\ pc = "positions" => \A p \in todo : p \in Positions /\ Decision(p) # "skip"

IInv == RunnerTyped /\ ReadingsArePast /\ WorkIsDue

(* Before the first pass the lane holds an empty snapshot.                 *)
LEMMA NoPassTyped ==
  NoPass \in [startup : BOOLEAN, now : Nat, positions : SUBSET Positions,
              finalized : SUBSET Markets, market : SUBSET Markets]
BY DEF NoPass

(* At the start nothing has been read and nothing is to be done.           *)
LEMMA InitIInv == Init => IInv
<1>. SUFFICES ASSUME Init PROVE IInv OBVIOUS
<1>1. RunnerTyped BY NoPassTyped DEF Init, RunnerTyped, Outcomes
<1>2. ReadingsArePast BY DEF Init, ReadingsArePast, NoPass
<1>3. WorkIsDue BY DEF Init, WorkIsDue, NoPass
<1>. QED BY <1>1, <1>2, <1>3 DEF IInv

(* The chain only moves forward: time, and a price once there.             *)
ChainMoves ==
  /\ now' \in Nat /\ now <= now'
  /\ outcome' \in [Markets -> Outcomes]
  /\ \A m \in Markets : Finalized(m) => Finalized(m)'
  /\ position' \in [Positions -> {"none", "open", "settled", "refunded"}]

(* A price that arrives only moves the chain forward.                      *)
LEMMA FinalizeMoves ==
  ASSUME RunnerTyped, NEW m \in Markets, Publish(m)
  PROVE  /\ UNCHANGED now
         /\ outcome' \in [Markets -> Outcomes]
         /\ \A x \in Markets : Finalized(x) => Finalized(x)'
<1>1. PICK price \in Prices : Finalize(m, price) BY DEF Publish
<1>2. outcome' = [outcome EXCEPT ![m] = Final(price)] /\ UNCHANGED now /\ outcome[m] = Pending
  BY <1>1 DEF Finalize
<1>3. Final(price) \in Outcomes BY DEF Outcomes
<1>4. Pending.status # "final" /\ Final(price).status = "final" BY DEF Pending, Final
<1>. QED BY <1>2, <1>3, <1>4 DEF RunnerTyped, Finalized

(* A step that leaves the chain alone moves it forward too.                *)
LEMMA ChainUnchanged == ASSUME RunnerTyped, UNCHANGED <<now, outcome, position>> PROVE ChainMoves
BY DEF RunnerTyped, ChainMoves, Finalized

(* A step that leaves the pass where it is, on a chain that moves on.      *)
LEMMA PassKept ==
  ASSUME IInv, ChainMoves, UNCHANGED <<pc, pass>>, todo' \subseteq todo
  PROVE  IInv'
<1>. USE DEF IInv
<1>1. RunnerTyped' BY DEF RunnerTyped, ChainMoves
<1>2. ReadingsArePast'
  BY DEF ReadingsArePast, ChainMoves, RunnerTyped
<1>3. WorkIsDue'
  BY DEF WorkIsDue, Decision
<1>. QED BY <1>1, <1>2, <1>3

(* A step to a place where nothing is left to do.                          *)
LEMMA PassMoves ==
  ASSUME IInv, ChainMoves, pc' \notin {"observe", "publish", "positions"},
         pass' \in [startup : BOOLEAN, now : Nat, positions : SUBSET Positions,
                    finalized : SUBSET Markets, market : SUBSET Markets],
         pass'.now <= now',
         pass'.finalized \subseteq pass.finalized, pass'.market = {}
  PROVE  IInv'
<1>. USE DEF IInv
<1>1. RunnerTyped' BY DEF RunnerTyped, ChainMoves
<1>2. ReadingsArePast'
  BY DEF ReadingsArePast, ChainMoves, RunnerTyped
<1>3. WorkIsDue' BY DEF WorkIsDue
<1>. QED BY <1>1, <1>2, <1>3

(* A step to the beginning of another loop, with nothing read anew.        *)
LEMMA QuietStep ==
  ASSUME IInv, ChainMoves, pass' = pass, pc' \notin {"observe", "publish", "positions"}
  PROVE  IInv'
<1>. USE DEF IInv
<1>1. RunnerTyped' BY DEF RunnerTyped, ChainMoves
<1>2. ReadingsArePast' BY DEF ReadingsArePast, ChainMoves, RunnerTyped
<1>3. WorkIsDue' BY DEF WorkIsDue, Expiry
<1>. QED BY <1>1, <1>2, <1>3

(* Every step of the runner, of another cranker, of a publisher, of a      *)
(* buyer and of the clock keeps the invariant.                             *)
LEMMA StepIInv == IInv /\ [Next]_vars => IInv'
<1>. SUFFICES ASSUME IInv, [Next]_vars PROVE IInv' OBVIOUS
<1>. USE DEF IInv
<1>a. pass \in [startup : BOOLEAN, now : Nat, positions : SUBSET Positions,
               finalized : SUBSET Markets, market : SUBSET Markets]
  BY DEF RunnerTyped
<1>b. pass.now \in Nat /\ pass.now <= now /\ now \in Nat
  BY <1>a DEF RunnerTyped, ReadingsArePast
<1>c. /\ NoPass.now = 0 /\ NoPass.finalized = {} /\ NoPass.market = {}
      /\ 0 <= now
  BY <1>b DEF NoPass
<1>d. ASSUME UNCHANGED <<now, outcome, position>> PROVE ChainMoves
  BY <1>d, ChainUnchanged
<1>1. CASE UNCHANGED vars
  BY <1>1, <1>d, PassKept DEF vars, chainVars, runnerVars
<1>2. CASE Time
  <2>1. ChainMoves
    BY <1>2 DEF Time, Tick, RunnerTyped, ChainMoves, Finalized
  <2>. QED BY <2>1, <1>2, PassKept DEF Time, runnerVars
<1>3. ASSUME NEW p \in Positions, Fill(p) PROVE IInv'
  <2>1. ChainMoves BY <1>3 DEF Fill, RunnerTyped, ChainMoves, Finalized
  <2>. QED BY <2>1, <1>3, PassKept DEF Fill, runnerVars
<1>4. ASSUME NEW p \in Positions, OtherResolves(p) PROVE IInv'
  <2>1. ChainMoves BY <1>4 DEF OtherResolves, RunnerTyped, ChainMoves, Finalized
  <2>. QED BY <2>1, <1>4, PassKept DEF OtherResolves, runnerVars
<1>5. ASSUME NEW p \in Positions, CloseTokenAccount(p) PROVE IInv'
  BY <1>5, <1>d, PassKept DEF CloseTokenAccount, runnerVars
<1>6. ASSUME NEW m \in Markets, OtherPublishes(m) PROVE IInv'
  <2>1. ChainMoves
    BY <1>6, FinalizeMoves DEF OtherPublishes, RunnerTyped, ChainMoves
  <2>. QED BY <2>1, <1>6, PassKept DEF OtherPublishes, runnerVars
<1>7. CASE Start
  <2>1. /\ UNCHANGED <<now, outcome, position>> /\ pc' = "clock"
        /\ pass' = [NoPass EXCEPT !.startup = TRUE]
    BY <1>7 DEF Start, chainVars
  <2>2. /\ pass' \in [startup : BOOLEAN, now : Nat, positions : SUBSET Positions,
                      finalized : SUBSET Markets, market : SUBSET Markets]
        /\ pass'.now = 0 /\ pass'.finalized = {} /\ pass'.market = {}
    BY <2>1 DEF NoPass
  <2>. QED BY <2>1, <2>2, <1>c, <1>d, PassMoves
<1>8. CASE Crash
  BY <1>8, <1>c, <1>d, NoPassTyped, PassMoves DEF Crash, chainVars
<1>9. CASE PassThrows
  BY <1>9, <1>c, <1>d, NoPassTyped, PassMoves DEF PassThrows, chainVars
<1>10. CASE EndPass
  BY <1>10, <1>c, <1>d, NoPassTyped, PassMoves DEF EndPass, chainVars
<1>11. CASE Arm
  <2>1. /\ pc' = "sleep" /\ UNCHANGED <<now, outcome, position, pass>>
    BY <1>11 DEF Arm, chainVars
  <2>. QED BY <2>1, <1>11, <1>d, QuietStep DEF Arm, chainVars
<1>12. CASE Wake
  BY <1>12, <1>d, QuietStep DEF Wake, chainVars
<1>13. CASE ReadClock
  <2>1. /\ pass' = [pass EXCEPT !.now = now] /\ pc' = "scan"
        /\ UNCHANGED <<now, outcome, position>>
    BY <1>13 DEF ReadClock, chainVars
  <2>2. /\ pass' \in [startup : BOOLEAN, now : Nat, positions : SUBSET Positions,
                      finalized : SUBSET Markets, market : SUBSET Markets]
        /\ pass'.now = now /\ pass'.finalized = pass.finalized /\ pass'.market = pass.market
    BY <2>1, <1>a, <1>b
  <2>3. RunnerTyped' BY <2>1, <2>2 DEF RunnerTyped
  <2>4. ReadingsArePast' BY <2>1, <2>2, <1>b DEF ReadingsArePast, Finalized
  <2>5. \A m \in pass'.market : Expiry(m) <= pass'.now
    <3>1. \A m \in pass.market : m \in Markets /\ Expiry(m) <= pass.now
      BY <1>a DEF WorkIsDue
    <3>. QED BY <3>1, <2>2, <1>b, InstantsTyped
  <2>6. WorkIsDue' BY <2>1, <2>5 DEF WorkIsDue, Expiry
  <2>. QED BY <2>3, <2>4, <2>6
<1>14. CASE Scan
  <2>1. /\ pass' = [pass EXCEPT !.positions = {p \in Positions : position[p] = "open"}]
        /\ pc' = "capture" /\ UNCHANGED <<now, outcome, position>>
    BY <1>14 DEF Scan, chainVars
  <2>2. /\ pass' \in [startup : BOOLEAN, now : Nat, positions : SUBSET Positions,
                      finalized : SUBSET Markets, market : SUBSET Markets]
        /\ pass'.now = pass.now /\ pass'.finalized = pass.finalized /\ pass'.market = pass.market
    BY <2>1, <1>a
  <2>3. RunnerTyped' BY <2>1, <2>2 DEF RunnerTyped
  <2>4. ReadingsArePast' BY <2>1, <2>2 DEF ReadingsArePast, Finalized
  <2>5. WorkIsDue' BY <2>1, <2>2 DEF WorkIsDue, Expiry
  <2>. QED BY <2>3, <2>4, <2>5
<1>15. ASSUME NEW m \in Markets, captureMarketAtBoundary(m) PROVE IInv'
  <2>1. UNCHANGED <<now, outcome, position, pc, pass>> /\ todo' \subseteq todo
    BY <1>15 DEF captureMarketAtBoundary
  <2>. QED BY <2>1, <1>d, PassKept
<1>16. CASE CapturesDone
  BY <1>16, <1>d, QuietStep DEF CapturesDone, chainVars
<1>17. CASE ReadOracles
  <2>. DEFINE final == {m \in Markets : Finalized(m)}
  <2>1. /\ pass' = [pass EXCEPT !.finalized = final]
        /\ todo' \subseteq selectMarketsNeedingSettlementAttempt(Markets, pass.now, final, OpenInPass)
        /\ pc' = "observe" /\ UNCHANGED <<now, outcome, position>>
    BY <1>17 DEF ReadOracles, chainVars
  <2>2. /\ pass' \in [startup : BOOLEAN, now : Nat, positions : SUBSET Positions,
                      finalized : SUBSET Markets, market : SUBSET Markets]
        /\ pass'.now = pass.now /\ pass'.finalized = final /\ pass'.market = pass.market
    BY <2>1, <1>a
  <2>3. \A m \in todo' : m \in Markets /\ Expiry(m) <= pass.now
    <3>1. \A m \in todo' : m \in Markets /\ pass.now >= Terms[m].expiry
      BY <2>1 DEF selectMarketsNeedingSettlementAttempt
    <3>. QED BY <3>1, <1>b, InstantsTyped DEF Expiry
  <2>4. RunnerTyped' BY <2>1, <2>2 DEF RunnerTyped
  <2>5. ReadingsArePast' BY <2>1, <2>2 DEF ReadingsArePast, Finalized
  <2>6. WorkIsDue' BY <2>1, <2>2, <2>3 DEF WorkIsDue, Expiry
  <2>. QED BY <2>4, <2>5, <2>6
<1>18. ASSUME NEW m \in Markets, LookForObservation(m) PROVE IInv'
  <2>1. /\ pc = "observe" /\ m \in todo /\ todo' \subseteq todo
        /\ UNCHANGED <<now, outcome, position>>
        /\ \/ pc' = "publish" /\ pass' = [pass EXCEPT !.market = {m}]
           \/ pc' = "observe" /\ pass' = pass
    BY <1>18 DEF LookForObservation, chainVars
  <2>2. \A x \in todo : x \in Markets /\ Expiry(x) <= pass.now
    BY <2>1 DEF WorkIsDue
  <2>3. /\ pass' \in [startup : BOOLEAN, now : Nat, positions : SUBSET Positions,
                      finalized : SUBSET Markets, market : SUBSET Markets]
        /\ pass'.now = pass.now /\ pass'.finalized = pass.finalized
        /\ pass'.market \in {{m}, pass.market}
    BY <2>1, <1>a
  <2>4. RunnerTyped' BY <2>1, <2>3 DEF RunnerTyped
  <2>5. ReadingsArePast' BY <2>1, <2>3 DEF ReadingsArePast, Finalized
  <2>6. \A x \in pass'.market : Expiry(x) <= pass.now
    BY <2>1, <2>2, <2>3 DEF WorkIsDue
  <2>7. WorkIsDue' BY <2>1, <2>2, <2>3, <2>6 DEF WorkIsDue, Expiry
  <2>. QED BY <2>4, <2>5, <2>7
<1>19. ASSUME NEW m \in Markets, publishCustomSettlement(m) PROVE IInv'
  <2>1. /\ pc = "publish" /\ pc' = "observe" /\ UNCHANGED <<position, todo>>
        /\ PublishLands(m) \/ PublishRejected(m) \/ PublishFails(m)
    BY <1>19 DEF publishCustomSettlement
  <2>2. ChainMoves
    <3>1. Publish(m) \/ UNCHANGED <<now, outcome>>
      BY <2>1 DEF PublishLands, PublishRejected, PublishFails
    <3>. QED BY <3>1, <2>1, <1>d, FinalizeMoves DEF RunnerTyped, ChainMoves
  <2>3. PublishLands(m) => Finalized(m)'
    <3>. SUFFICES ASSUME PublishLands(m) PROVE Finalized(m)' OBVIOUS
    <3>1. PICK price \in Prices : Finalize(m, price) BY DEF PublishLands, Publish
    <3>. QED BY <3>1 DEF Finalize, RunnerTyped, Finalized, Final
  <2>4. /\ pass' \in [startup : BOOLEAN, now : Nat, positions : SUBSET Positions,
                      finalized : SUBSET Markets, market : SUBSET Markets]
        /\ pass'.now = pass.now /\ pass'.market = {}
        /\ \A x \in pass'.finalized : x \in pass.finalized \/ (x = m /\ PublishLands(m))
    <3>1. \/ PublishLands(m) /\ pass' = [pass EXCEPT !.finalized = @ \cup {m}, !.market = {}]
          \/ pass' = [pass EXCEPT !.market = {}]
      BY <2>1 DEF PublishLands, PublishRejected, PublishFails
    <3>2. CASE PublishLands(m) /\ pass' = [pass EXCEPT !.finalized = @ \cup {m}, !.market = {}]
      <4>1. /\ pass'.now = pass.now /\ pass'.market = {}
            /\ pass'.finalized = pass.finalized \cup {m}
        BY <3>2, <1>a
      <4>2. pass' \in [startup : BOOLEAN, now : Nat, positions : SUBSET Positions,
                       finalized : SUBSET Markets, market : SUBSET Markets]
        BY <3>2, <1>a
      <4>. QED BY <3>2, <4>1, <4>2
    <3>3. CASE pass' = [pass EXCEPT !.market = {}] BY <3>3, <1>a
    <3>. QED BY <3>1, <3>2, <3>3
  <2>5. RunnerTyped' BY <2>2, <2>4 DEF RunnerTyped, ChainMoves
  <2>6. \A x \in pass'.finalized : Finalized(x)'
    BY <2>2, <2>3, <2>4, <1>a DEF ReadingsArePast, ChainMoves
  <2>7. pass'.now <= now' BY <2>2, <2>4, <1>b DEF ChainMoves
  <2>8. ReadingsArePast' BY <2>6, <2>7 DEF ReadingsArePast
  <2>9. WorkIsDue' BY <2>1, <2>4 DEF WorkIsDue, Expiry
  <2>. QED BY <2>5, <2>8, <2>9
<1>20. CASE PublishesDone
  <2>1. /\ pc' = "positions" /\ UNCHANGED <<now, outcome, position, pass>>
        /\ todo' = {p \in pass.positions : Decision(p) # "skip"}
    BY <1>20 DEF PublishesDone, chainVars, Decision
  <2>2. RunnerTyped' BY <2>1 DEF RunnerTyped
  <2>3. ReadingsArePast' BY <2>1 DEF ReadingsArePast, Finalized
  <2>4. WorkIsDue' BY <2>1, <1>a DEF WorkIsDue, Expiry, Decision
  <2>. QED BY <2>2, <2>3, <2>4
<1>21. ASSUME NEW p \in Positions, resolvePosition(p) PROVE IInv'
  <2>1. /\ UNCHANGED <<now, outcome, pc, pass>> /\ todo' \subseteq todo
        /\ SettleLands(p) \/ RefundLands(p) \/ ResolveRejected(p) \/ ResolveFails(p)
    BY <1>21 DEF resolvePosition
  <2>2. position' \in [Positions -> {"none", "open", "settled", "refunded"}]
    BY <2>1 DEF RunnerTyped, SettleLands, RefundLands, ResolveRejected, ResolveFails
  <2>3. ChainMoves BY <2>1, <2>2 DEF RunnerTyped, ChainMoves, Finalized
  <2>. QED BY <2>1, <2>3, PassKept
<1>22. CASE PositionsDone
  BY <1>22, <1>d, QuietStep DEF PositionsDone, chainVars
<1>23. PassStep => IInv'
  BY <1>10, <1>13, <1>14, <1>15, <1>16, <1>17, <1>18, <1>19, <1>20, <1>21, <1>22 DEF PassStep
<1>24. RunnerStep => IInv'
  BY <1>7, <1>11, <1>12, <1>23 DEF RunnerStep
<1>25. Environment => IInv'
  BY <1>2, <1>3, <1>4, <1>5, <1>6 DEF Environment
<1>. QED BY <1>1, <1>8, <1>9, <1>24, <1>25 DEF Next

(* Whatever the other actors, the crashes and the failures have done, the  *)
(* runner's view is of the past and its work follows from it.              *)
THEOREM RunnerInvHolds == Spec => []IInv
<1>. QED BY InitIInv, StepIInv, PTL DEF Spec

(* What a pass decided from its old clock reading and its old snapshot is  *)
(* still right when the transaction is sent (settlement-sweep.ts,          *)
(* oracle-runner.ts): for any number of markets and positions.             *)
THEOREM DecisionsStayValidHolds == Spec => []DecisionsStayValid
<1>1. IInv => DecisionsStayValid
  <2>. SUFFICES ASSUME IInv PROVE DecisionsStayValid OBVIOUS
  <2>. USE DEF IInv
  <2>a. /\ pass.now \in Nat /\ now \in Nat /\ pass.now <= now
        /\ pass.market \subseteq Markets /\ pass.finalized \subseteq Markets
    BY DEF RunnerTyped, ReadingsArePast
  <2>1. ASSUME pc = "positions", NEW p \in todo
        PROVE  IF Decision(p) = "settle" THEN Finalized(MarketOf[p])
                                         ELSE now > SettlementDeadline(MarketOf[p])
    <3>. DEFINE m == MarketOf[p]
    <3>1. p \in Positions /\ Decision(p) # "skip" /\ m \in Markets
      BY <2>1 DEF WorkIsDue
    <3>2. /\ Decision(p) \in {"skip", "settle", "refund"}
          /\ Decision(p) = "settle" => m \in pass.finalized
          /\ Decision(p) = "refund" => pass.now > SettlementDeadline(m)
      BY <3>1, <2>a, DecisionMeans DEF Decision
    <3>3. SettlementDeadline(m) \in Nat BY <3>1, InstantsTyped
    <3>. QED BY <3>1, <3>2, <3>3, <2>a DEF ReadingsArePast
  <2>2. ASSUME NEW m \in pass.market PROVE now >= Expiry(m)
    <3>1. Expiry(m) <= pass.now BY DEF WorkIsDue
    <3>2. Expiry(m) \in Nat BY <2>a, InstantsTyped
    <3>. QED BY <3>1, <3>2, <2>a
  <2>. QED BY <2>1, <2>2 DEF DecisionsStayValid
<1>. QED BY <1>1, RunnerInvHolds, PTL
-----------------------------------------------------------------------------
(* Why a buyer is refunded.  The lane wakes at the boundaries; the expiries*)
(* lie on them (expiry-boundary.ts 3-11), which MarketKeeperProofs proves  *)
(* of the grid that keeper, quotes and launches take their expiries from.  *)
OnGrid == \A m \in Markets : Expiry(m) % PERIOD = 0

(* No boundary is skipped between the clock and the next one.              *)
LEMMA NextBoundary ==
  ASSUME NEW t \in Nat, NEW e \in Nat, e % PERIOD = 0, e < nextFifteenMinuteBoundary(t)
  PROVE  e <= t
<1> DEFINE d == t \div PERIOD
           k == e \div PERIOD
<1>1. d \in Nat /\ k \in Nat /\ PERIOD * d <= t /\ e = PERIOD * k BY SMT
<1>2. e < (d + 1) * PERIOD BY DEF nextFifteenMinuteBoundary
<1>. HIDE DEF d, k
<1>3. k <= d
  <2>. SUFFICES ASSUME k >= d + 1 PROVE FALSE BY <1>1
  <2>1. PERIOD * k >= PERIOD * (d + 1) BY <1>1, SMT
  <2>2. PERIOD * (d + 1) = (d + 1) * PERIOD BY <1>1, SMT
  <2>. QED BY <1>1, <1>2, <2>1, <2>2
<1>4. PERIOD * k <= PERIOD * d BY <1>1, <1>3, SMT
<1>. QED BY <1>1, <1>4

LEMMA BoundaryTyped == ASSUME NEW t \in Nat PROVE nextFifteenMinuteBoundary(t) \in Nat
BY SMT DEF nextFifteenMinuteBoundary

(* Something explains a refund on m.                                       *)
Cause(m) == m \in excused \cup straddled \/ SharesObservation(m)

(* A market with an open position, without a price and without a cause:    *)
(* the runner must see to it in time.                                      *)
Owed(m) == OpenOnChain(m) /\ ~Finalized(m) /\ ~Cause(m)

InPass == pc \in {"scan", "capture", "oracles", "observe", "publish", "positions", "end"}

AfterCapture == pc \in {"oracles", "observe", "publish", "positions", "end"}

(* The pass in progress is about m.                                        *)
Due(m) == IF pass.startup THEN Expiry(m) <= pass.now ELSE Expiry(m) = pending

(* Where the lane is: it waits for a boundary with no expiry between the   *)
(* clock and it, a pass is about a boundary that is past, and it publishes *)
(* one market at a time.                                                   *)
Lane ==
  /\ pc \in {"down", "idle", "sleep", "clock"} \/ InPass
  /\ pending \in Nat /\ handled \in Nat /\ handled <= now
  /\ \A m \in Markets : Expiry(m) < pending => Expiry(m) <= now
  /\ (pc = "clock" \/ InPass) /\ ~pass.startup => pending <= now
  /\ InPass /\ ~pass.startup => pending <= pass.now
  /\ pc \in {"down", "idle", "sleep"} => pass = NoPass
  /\ pc = "down" \/ pass.startup => pending = 0
  /\ pc # "publish" => pass.market = {}
  /\ \A x, y \in pass.market : x = y
  /\ pc = "capture" => \A m \in todo : m \in Markets /\ Expiry(m) <= now

(* Nobody can open a position the scan has missed.                         *)
Seen ==
  InPass /\ pc # "scan" =>
    \A p \in Positions : position[p] = "open" /\ Due(MarketOf[p]) => p \in pass.positions

(* Nothing is too late for a market that is owed a settlement, and its     *)
(* boundary is not past the lane.                                          *)
OnTime(m) ==
  Owed(m) =>
    /\ now <= SettlementDeadline(m)
    /\ ObservationOf(m) \notin observations => now <= ObservationEnd(m)
    /\ pending <= Expiry(m)
    /\ handled < Expiry(m)

(* A pass about it has its observation once the captures are over, and has *)
(* it published before it turns to the positions.                          *)
InHand(m) ==
  Owed(m) /\ Due(m) =>
    /\ pc \notin {"positions", "end"}
    /\ (pc = "capture" /\ m \notin todo) \/ AfterCapture => ObservationOf(m) \in observations
    /\ pc \in {"observe", "publish"} => m \in todo \cup pass.market

Explained == \A p \in Positions : position[p] = "refunded" => Cause(MarketOf[p])

CauseInv == Lane /\ Seen /\ Explained /\ \A m \in Markets : OnTime(m) /\ InHand(m)

(* The instants again, as the passes use them.                             *)
LEMMA MarketInstants ==
  ASSUME NEW m \in Markets
  PROVE  /\ Expiry(m) \in Nat \ {0} /\ ObservationEnd(m) \in Nat
         /\ SettlementDeadline(m) \in Nat /\ FinalDeadline(m) \in Nat
         /\ Expiry(m) <= ObservationEnd(m) /\ ObservationEnd(m) <= SettlementDeadline(m)
         /\ SettlementDeadline(m) <= FinalDeadline(m)
<1>1. Terms[m].expiry \in Nat \ {0} /\ Terms[m].window \in Nat /\ Terms[m].grace \in Nat
        /\ Terms[m].staleness \in Nat
  BY DEF TermsRecord
<1>. QED BY <1>1 DEF Expiry, SettlementDeadline, ObservationEnd, FinalDeadline

(* What can make a market owed: nothing but a fill before its expiry.      *)
Settles ==
  /\ \A p \in Positions : position'[p] = "open" => position[p] = "open"
  /\ \A m \in Markets : Finalized(m) => Finalized(m)'
  /\ excused \subseteq excused' /\ straddled \subseteq straddled'

LEMMA OwedBefore ==
  ASSUME Settles, NEW m \in Markets, Owed(m)'
  PROVE  Owed(m) /\ m \notin excused' /\ m \notin straddled'
BY DEF Settles, Owed, OpenOnChain, Cause, SharesObservation, ObservationOf, Expiry

(* A publication takes the observation of its own market, or of one that   *)
(* shares it.                                                              *)
LEMMA ObservationKept ==
  ASSUME RunnerTyped, NEW m \in Markets, NEW n \in Markets, Publish(n), Owed(m)',
         ObservationOf(m) \in observations
  PROVE  ObservationOf(m) \in observations'
<1>1. PICK price \in Prices : Finalize(n, price) BY DEF Publish
<1>2. Finalized(n)' BY <1>1 DEF Finalize, RunnerTyped, Finalized, Final
<1>3. m # n BY <1>2 DEF Owed
<1>4. ~SharesObservation(m) BY DEF Owed, Cause, SharesObservation, ObservationOf, Expiry
<1>5. ObservationOf(n) # ObservationOf(m) BY <1>3, <1>4 DEF SharesObservation
<1>6. observations' = observations \ {ObservationOf(n)} BY DEF Publish
<1>. QED BY <1>5, <1>6

(* A cause stays one.                                                      *)
LEMMA StillExplained ==
  ASSUME Explained, excused \subseteq excused', straddled \subseteq straddled',
         \A p \in Positions : position'[p] = "refunded" => position[p] = "refunded"
  PROVE  Explained'
BY DEF Explained, Cause, SharesObservation, ObservationOf, Expiry

(* A step of another actor, or of the loop over the positions: the pass    *)
(* and the clock stand still.                                              *)
LEMMA PassStandsStill ==
  ASSUME CauseInv, Settles, UNCHANGED <<now, pc, pending, pass, handled>>, Explained',
         todo' = todo \/ (pc = "positions" /\ todo' \subseteq todo),
         \A m \in Markets : Owed(m)' /\ ObservationOf(m) \in observations
                              => ObservationOf(m) \in observations'
  PROVE  CauseInv'
<1>. USE DEF CauseInv
<1>1. Lane' BY DEF Lane, InPass, Expiry
<1>2. \A m \in Markets : Due(m)' = Due(m) BY DEF Due, Expiry
<1>3. Seen' BY <1>2 DEF Seen, InPass, Settles
<1>4. ASSUME NEW m \in Markets, Owed(m)'
      PROVE  OnTime(m)' /\ InHand(m)'
  <2>1. Owed(m) BY <1>4, OwedBefore
  <2>2. OnTime(m)' BY <1>4, <2>1 DEF OnTime, ObservationOf, Expiry, SettlementDeadline, ObservationEnd
  <2>3. InHand(m)' BY <1>2, <1>4, <2>1 DEF InHand, AfterCapture, ObservationOf, Expiry
  <2>. QED BY <2>2, <2>3
<1>5. \A m \in Markets : OnTime(m)' /\ InHand(m)' BY <1>4 DEF OnTime, InHand
<1>. QED BY <1>1, <1>3, <1>5

(* A step to a place where the pass has read nothing yet, or is over.      *)
LEMMA PassNotReading ==
  ASSUME CauseInv, UNCHANGED <<now, outcome, observations, position>>,
         excused \subseteq excused', straddled \subseteq straddled',
         Lane', pc' \in {"down", "idle", "sleep", "clock", "scan"},
         \A m \in Markets : Owed(m) /\ Owed(m)' => pending' <= Expiry(m) /\ handled' < Expiry(m)
  PROVE  CauseInv'
<1>. USE DEF CauseInv
<1>1. Seen' BY DEF Seen, InPass
<1>2. Explained' BY StillExplained
<1>3. Settles BY DEF Settles, Finalized
<1>4. ASSUME NEW m \in Markets, Owed(m)' PROVE OnTime(m)'
  <2>1. Owed(m) BY <1>3, <1>4, OwedBefore
  <2>2. pending' <= Expiry(m) /\ handled' < Expiry(m) BY <1>4, <2>1
  <2>. QED
    BY <1>4, <2>1, <2>2 DEF OnTime, ObservationOf, Expiry, SettlementDeadline, ObservationEnd
<1>5. \A m \in Markets : InHand(m)' BY DEF InHand, AfterCapture
<1>6. \A m \in Markets : OnTime(m)' BY <1>4 DEF OnTime
<1>. QED BY <1>1, <1>2, <1>5, <1>6

(* A step within a pass that only reads, and moves on.                     *)
LEMMA PassMovesOn ==
  ASSUME CauseInv, UNCHANGED <<now, outcome, observations, position, pending, handled,
                               excused, straddled>>,
         pass'.startup = pass.startup, pass'.now = pass.now,
         Lane', Seen', \A m \in Markets : Owed(m) /\ Due(m) => InHand(m)'
  PROVE  CauseInv'
<1>. USE DEF CauseInv
<1>1. \A m \in Markets : Owed(m)' = Owed(m) /\ Due(m)' = Due(m)
  BY DEF Owed, OpenOnChain, Finalized, Cause, SharesObservation, ObservationOf, Expiry, Due
<1>2. Explained' BY StillExplained
<1>3. \A m \in Markets : OnTime(m)'
  BY <1>1 DEF OnTime, ObservationOf, Expiry, SettlementDeadline, ObservationEnd
<1>4. \A m \in Markets : InHand(m)' BY <1>1 DEF InHand
<1>. QED BY <1>2, <1>3, <1>4

(* The clock: what is not done in time without the lane having passed it   *)
(* over is excused.                                                        *)
LEMMA TimeKeepsCause == ASSUME IInv, CauseInv, Time PROVE CauseInv'
<1>. USE DEF CauseInv
<1>1. /\ now' = now + 1 /\ now \in Nat
      /\ UNCHANGED <<outcome, observations, position, pc, pending, pass, todo, straddled, handled>>
      /\ excused' = excused \cup {m \in Markets : Unfinished(m) /\ ~Forgotten(m)}
  BY DEF Time, Tick, runnerVars, IInv, RunnerTyped
<1>2. Settles BY <1>1 DEF Settles, Finalized
<1>3. Lane'
  <2>1. \A m \in Markets : Expiry(m) \in Nat BY MarketInstants
  <2>. QED BY <1>1, <2>1 DEF Lane, InPass, Expiry
<1>4. \A m \in Markets : Due(m)' = Due(m) BY <1>1 DEF Due, Expiry
<1>5. Seen' BY <1>1, <1>4 DEF Seen, InPass
<1>6. Explained' BY <1>1, StillExplained
<1>7. ASSUME NEW m \in Markets, Owed(m)' PROVE OnTime(m)' /\ InHand(m)'
  <2>1. Owed(m) /\ m \notin excused' BY <1>2, <1>7, OwedBefore
  <2>2. /\ now <= SettlementDeadline(m)
        /\ ObservationOf(m) \notin observations => now <= ObservationEnd(m)
        /\ pending <= Expiry(m) /\ handled < Expiry(m)
    BY <2>1 DEF OnTime
  <2>3. ~Forgotten(m)
    BY <2>2, MarketInstants DEF Forgotten, Lane
  <2>4. ~Unfinished(m) /\ ~Finalized(m) BY <1>1, <2>1, <2>3 DEF Owed
  <2>5. now # SettlementDeadline(m) /\ (ObservationOf(m) \notin observations => now # ObservationEnd(m))
    BY <2>4 DEF Unfinished
  <2>6. /\ now' <= SettlementDeadline(m)
        /\ ObservationOf(m) \notin observations' => now' <= ObservationEnd(m)
    BY <1>1, <2>2, <2>5, MarketInstants
  <2>7. OnTime(m)'
    BY <1>1, <2>2, <2>6 DEF OnTime, ObservationOf, Expiry, SettlementDeadline, ObservationEnd
  <2>8. InHand(m)' BY <1>1, <1>4, <1>7, <2>1 DEF InHand, AfterCapture, ObservationOf, Expiry
  <2>. QED BY <2>7, <2>8
<1>8. \A m \in Markets : OnTime(m)' /\ InHand(m)' BY <1>7 DEF OnTime, InHand
<1>. QED BY <1>3, <1>5, <1>6, <1>8

(* A fill comes before the expiry, so no pass and no deadline is past it.  *)
LEMMA FillKeepsCause == ASSUME IInv, CauseInv, NEW p0 \in Positions, Fill(p0) PROVE CauseInv'
<1>. USE DEF CauseInv
<1>1. /\ now < Expiry(MarketOf[p0])
      /\ position' = [position EXCEPT ![p0] = "open"]
      /\ UNCHANGED <<now, outcome, observations, pc, pending, pass, todo, excused, straddled, handled>>
  BY DEF Fill, runnerVars, historyVars
<1>2. Lane' BY <1>1 DEF Lane, InPass, Expiry
<1>3. \A m \in Markets : Due(m)' = Due(m) BY <1>1 DEF Due, Expiry
<1>4. now \in Nat /\ pass.now \in Nat /\ pass.now <= now
      /\ position \in [Positions -> {"none", "open", "settled", "refunded"}]
  BY DEF IInv, RunnerTyped, ReadingsArePast
<1>5. ASSUME NEW m \in Markets, now < Expiry(m), InPass PROVE ~Due(m)
  <2>1. Expiry(m) \in Nat BY MarketInstants
  <2>2. ~pass.startup => pending <= now /\ pending \in Nat BY <1>5 DEF Lane
  <2>. QED BY <1>4, <1>5, <2>1, <2>2 DEF Due
<1>6. MarketOf[p0] \in Markets OBVIOUS
<1>7. Seen'
  BY <1>1, <1>3, <1>4, <1>5, <1>6 DEF Seen, InPass
<1>8. Explained'
  <2>1. \A p \in Positions : position'[p] = "refunded" => position[p] = "refunded"
    BY <1>1, <1>4
  <2>. QED BY <1>1, <2>1, StillExplained
<1>9. ASSUME NEW m \in Markets, Owed(m)' PROVE OnTime(m)' /\ InHand(m)'
  <2>1. CASE now < Expiry(m)
    <3>1. OnTime(m)'
      <4>1. pending <= Expiry(m) /\ handled < Expiry(m) /\ handled \in Nat
        BY <1>4, <2>1, MarketInstants DEF Lane
      <4>2. now <= SettlementDeadline(m) /\ now <= ObservationEnd(m)
        BY <1>4, <2>1, MarketInstants
      <4>. QED
        BY <1>1, <4>1, <4>2 DEF OnTime, Expiry, SettlementDeadline, ObservationEnd
    <3>2. InHand(m)' BY <1>1, <1>3, <1>5, <2>1 DEF InHand, InPass, AfterCapture
    <3>. QED BY <3>1, <3>2
  <2>2. CASE ~(now < Expiry(m))
    <3>1. MarketOf[p0] # m BY <1>1, <2>2
    <3>2. Owed(m)
      BY <1>1, <1>4, <1>9, <3>1
         DEF Owed, OpenOnChain, Finalized, Cause, SharesObservation, ObservationOf, Expiry
    <3>3. OnTime(m)'
      BY <1>1, <3>2 DEF OnTime, ObservationOf, Expiry, SettlementDeadline, ObservationEnd
    <3>4. InHand(m)' BY <1>1, <1>3, <3>2 DEF InHand, AfterCapture, ObservationOf, Expiry
    <3>. QED BY <3>3, <3>4
  <2>. QED BY <2>1, <2>2
<1>10. \A m \in Markets : OnTime(m)' /\ InHand(m)' BY <1>9 DEF OnTime, InHand
<1>. QED BY <1>2, <1>7, <1>8, <1>10

(* A settlement or a refund that lands, the runner's or another's: a       *)
(* market past its deadline with neither price nor cause has no open       *)
(* position left to refund.                                                *)
LEMMA ResolveKeepsCause ==
  ASSUME IInv, CauseInv, NEW p \in Positions,
         \/ UNCHANGED position
         \/ SettleAllowed(p) /\ position' = [position EXCEPT ![p] = "settled"]
         \/ RefundAllowed(p) /\ position' = [position EXCEPT ![p] = "refunded"],
         UNCHANGED <<now, outcome, observations, pc, pending, pass, straddled, handled>>,
         excused \subseteq excused',
         todo' = todo \/ (pc = "positions" /\ todo' \subseteq todo)
  PROVE  CauseInv'
<1>. USE DEF CauseInv
<1>1. position \in [Positions -> {"none", "open", "settled", "refunded"}] /\ now \in Nat
  BY DEF IInv, RunnerTyped
<1>2. Settles BY <1>1 DEF Settles, Finalized, SettleAllowed, RefundAllowed
<1>3. Explained'
  <2>1. CASE \A q \in Positions : position'[q] = "refunded" => position[q] = "refunded"
    BY <2>1, StillExplained
  <2>2. CASE RefundAllowed(p) /\ position' = [position EXCEPT ![p] = "refunded"]
    <3>1. /\ position[p] = "open" /\ ~Finalized(MarketOf[p])
          /\ now > SettlementDeadline(MarketOf[p]) /\ MarketOf[p] \in Markets
      BY <2>2 DEF RefundAllowed
    <3>2. ~Owed(MarketOf[p]) BY <1>1, <3>1, MarketInstants DEF OnTime
    <3>3. Cause(MarketOf[p]) BY <3>1, <3>2 DEF Owed, OpenOnChain
    <3>. QED
      BY <1>1, <2>2, <3>3 DEF Explained, Cause, SharesObservation, ObservationOf, Expiry
  <2>. QED BY <1>1, <2>1, <2>2
<1>. QED BY <1>2, <1>3, PassStandsStill

(* The lane between its passes.                                            *)
LEMMA ArmKeepsCause == ASSUME OnGrid, IInv, CauseInv, Arm PROVE CauseInv'
<1>. USE DEF CauseInv
<1>1. /\ pc = "idle" /\ pc' = "sleep" /\ pass = NoPass
      /\ UNCHANGED <<now, outcome, observations, position, pass, todo, excused>>
      /\ now \in Nat /\ pending \in Nat /\ handled \in Nat /\ handled <= now
      /\ straddled \subseteq straddled'
  BY DEF Arm, chainVars, Lane, IInv, RunnerTyped
<1>2. NoPass.startup = FALSE /\ NoPass.market = {} BY DEF NoPass
<1>3. CASE pending # 0
  <2>1. UNCHANGED <<pending, handled, straddled>> BY <1>3 DEF Arm
  <2>2. Lane' BY <1>1, <1>2, <2>1 DEF Lane, InPass, Expiry
  <2>3. \A m \in Markets : Owed(m) => pending' <= Expiry(m) /\ handled' < Expiry(m)
    BY <2>1 DEF OnTime
  <2>. QED BY <1>1, <2>1, <2>2, <2>3, PassNotReading
<1>4. CASE pending = 0
  <2>1. /\ pending' = nextFifteenMinuteBoundary(now) /\ handled' = 0
        /\ straddled' = straddled \cup
             {m \in Markets : /\ OpenOnChain(m) /\ ~Finalized(m)
                              /\ handled < Expiry(m) /\ Expiry(m) < pending'
                              /\ Expiry(m) <= now /\ now <= SettlementDeadline(m)}
    BY <1>4 DEF Arm
  <2>2. pending' \in Nat BY <1>1, <2>1, BoundaryTyped
  <2>3. \A m \in Markets : Expiry(m) < pending' => Expiry(m) <= now
    BY <1>1, <2>1, NextBoundary, MarketInstants DEF OnGrid
  <2>4. Lane' BY <1>1, <1>2, <2>1, <2>2, <2>3 DEF Lane, InPass, Expiry
  <2>5. ASSUME NEW m \in Markets, Owed(m), Owed(m)'
        PROVE  pending' <= Expiry(m) /\ handled' < Expiry(m)
    <3>1. m \notin straddled' BY <2>5 DEF Owed, Cause
    <3>2. handled < Expiry(m) /\ now <= SettlementDeadline(m) BY <2>5 DEF OnTime
    <3>3. ~(Expiry(m) < pending') BY <2>1, <2>3, <2>5, <3>1, <3>2 DEF Owed
    <3>. QED BY <2>1, <2>2, <3>3, MarketInstants
  <2>. QED BY <1>1, <2>4, <2>5, PassNotReading
<1>. QED BY <1>3, <1>4

LEMMA LaneKeepsCause ==
  ASSUME IInv, CauseInv, Start \/ Crash \/ Wake \/ ReadClock \/ PassThrows PROVE CauseInv'
<1>. USE DEF CauseInv
<1>1. /\ now \in Nat /\ pending \in Nat /\ handled \in Nat /\ handled <= now
      /\ pass \in [startup : BOOLEAN, now : Nat, positions : SUBSET Positions,
                   finalized : SUBSET Markets, market : SUBSET Markets]
  BY DEF Lane, IInv, RunnerTyped
<1>2. NoPass.startup = FALSE /\ NoPass.market = {} BY DEF NoPass
<1>3. \A m \in Markets : Owed(m) => pending <= Expiry(m) /\ handled < Expiry(m) BY DEF OnTime
<1>4. CASE Start
  <2>1. /\ pc = "down" /\ pc' = "clock" /\ pass' = [NoPass EXCEPT !.startup = TRUE]
        /\ UNCHANGED <<now, outcome, observations, position, pending, handled, excused, straddled>>
    BY <1>4 DEF Start, chainVars, historyVars
  <2>2. pass'.startup = TRUE /\ pass'.market = {} BY <2>1 DEF NoPass
  <2>3. Lane' BY <1>1, <2>1, <2>2 DEF Lane, InPass, Expiry
  <2>. QED BY <1>3, <2>1, <2>3, PassNotReading
<1>5. CASE Crash
  <2>1. /\ pc' = "down" /\ pending' = 0 /\ pass' = NoPass /\ handled' = 0
        /\ UNCHANGED <<now, outcome, observations, position, excused, straddled>>
    BY <1>5 DEF Crash, chainVars
  <2>2. \A m \in Markets : Expiry(m) \in Nat \ {0} BY MarketInstants
  <2>3. Lane' BY <1>1, <1>2, <2>1, <2>2 DEF Lane, InPass, Expiry
  <2>. QED BY <2>1, <2>2, <2>3, PassNotReading
<1>6. CASE Wake
  <2>1. /\ now >= pending + BOUNDARY_WAKE_OFFSET /\ pc = "sleep" /\ pc' = "clock"
        /\ UNCHANGED <<now, outcome, observations, position, pending, pass, handled, excused, straddled>>
    BY <1>6 DEF Wake, chainVars, historyVars
  <2>2. pending <= now BY <1>1, <2>1
  <2>3. Lane' BY <1>1, <1>2, <2>1, <2>2 DEF Lane, InPass, Expiry
  <2>. QED BY <1>3, <2>1, <2>3, PassNotReading
<1>7. CASE ReadClock
  <2>1. /\ pc = "clock" /\ pc' = "scan" /\ pass' = [pass EXCEPT !.now = now]
        /\ UNCHANGED <<now, outcome, observations, position, pending, handled, excused, straddled>>
    BY <1>7 DEF ReadClock, chainVars, historyVars
  <2>2. pass'.startup = pass.startup /\ pass'.market = pass.market /\ pass'.now = now
    BY <1>1, <2>1
  <2>3. Lane' BY <1>1, <2>1, <2>2 DEF Lane, InPass, Expiry
  <2>. QED BY <1>3, <2>1, <2>3, PassNotReading
<1>8. CASE PassThrows
  <2>1. /\ pc' = "idle" /\ pass' = NoPass /\ excused \subseteq excused'
        /\ UNCHANGED <<now, outcome, observations, position, pending, handled, straddled>>
    BY <1>8 DEF PassThrows, chainVars
  <2>2. Lane' BY <1>1, <1>2, <2>1 DEF Lane, InPass, Expiry
  <2>. QED BY <1>3, <2>1, <2>2, PassNotReading
<1>. QED BY <1>4, <1>5, <1>6, <1>7, <1>8

(* The end of a pass: a boundary counts as handled only when nothing is    *)
(* owed at it any more.                                                    *)
LEMMA EndKeepsCause == ASSUME IInv, CauseInv, EndPass PROVE CauseInv'
<1>. USE DEF CauseInv
<1>1. /\ pc = "end" /\ pc' = "idle" /\ pass' = NoPass
      /\ UNCHANGED <<now, outcome, observations, position, excused, straddled>>
  BY DEF EndPass, chainVars
<1>2. /\ now \in Nat /\ pending \in Nat /\ handled \in Nat /\ handled <= now
      /\ pass.now \in Nat /\ pass.now <= now
  BY DEF Lane, IInv, RunnerTyped, ReadingsArePast
<1>3. NoPass.startup = FALSE /\ NoPass.market = {} BY DEF NoPass
<1>4. \A m \in Markets : Owed(m) => ~Due(m) /\ pending <= Expiry(m) /\ handled < Expiry(m)
  BY <1>1 DEF InHand, OnTime
<1>5. \A m \in Markets : Expiry(m) \in Nat \ {0} BY MarketInstants
<1>6. CASE UNCHANGED <<pending, handled>>
  <2>1. Lane' BY <1>1, <1>2, <1>3, <1>6 DEF Lane, InPass, Expiry
  <2>. QED BY <1>1, <1>4, <1>6, <2>1, PassNotReading
<1>7. CASE pending' = 0 /\ handled' = IF pass.startup THEN pass.now ELSE pending
  <2>1. handled' \in Nat /\ handled' <= now BY <1>1, <1>2, <1>7 DEF Lane, InPass
  <2>2. Lane' BY <1>1, <1>2, <1>3, <1>5, <1>7, <2>1 DEF Lane, InPass, Expiry
  <2>3. ASSUME NEW m \in Markets, Owed(m) PROVE handled' < Expiry(m)
    BY <1>2, <1>4, <1>5, <1>7, <2>3 DEF Due
  <2>. QED BY <1>1, <1>5, <1>7, <2>2, <2>3, PassNotReading
<1>. QED BY <1>6, <1>7 DEF EndPass

(* The reading steps of a pass.                                            *)
LEMMA ScanKeepsCause == ASSUME IInv, CauseInv, Scan PROVE CauseInv'
<1>. USE DEF CauseInv
<1>1. /\ pc = "scan" /\ pc' = "capture"
      /\ pass' = [pass EXCEPT !.positions = {p \in Positions : position[p] = "open"}]
      /\ todo' = dueMarkets({m \in Markets : OpenOnChain(m)})
      /\ UNCHANGED <<now, outcome, observations, position, pending, handled, excused, straddled>>
  BY DEF Scan, chainVars, historyVars
<1>2. /\ now \in Nat /\ pass.now \in Nat /\ pass.now <= now
      /\ pass \in [startup : BOOLEAN, now : Nat, positions : SUBSET Positions,
                   finalized : SUBSET Markets, market : SUBSET Markets]
  BY DEF IInv, RunnerTyped, ReadingsArePast
<1>3. /\ pass'.startup = pass.startup /\ pass'.now = pass.now /\ pass'.market = pass.market
      /\ pass'.positions = {p \in Positions : position[p] = "open"}
  BY <1>1, <1>2
<1>4. /\ \A m \in todo' : m \in Markets /\ Expiry(m) <= now
      /\ \A m \in Markets : OpenOnChain(m) /\ Due(m) => m \in todo'
  <2>1. \A m \in Markets : Expiry(m) \in Nat /\ Expiry(m) = Terms[m].expiry
    BY MarketInstants DEF Expiry
  <2>2. CASE pass.startup
    <3>1. todo' = {m \in Markets : Expiry(m) <= now /\ OpenOnChain(m)}
      BY <1>1, <2>1, <2>2 DEF dueMarkets, selectExpiredMarketsWithOpenInterest
    <3>. QED BY <1>2, <2>1, <2>2, <3>1 DEF Due
  <2>3. CASE ~pass.startup
    <3>1. todo' = {m \in Markets : Expiry(m) = pending /\ OpenOnChain(m)}
      BY <1>1, <2>1, <2>3 DEF dueMarkets, selectMarketsAtBoundaryWithOpenInterest
    <3>2. pending <= now BY <1>1, <2>3 DEF Lane, InPass
    <3>. QED BY <2>3, <3>1, <3>2 DEF Due
  <2>. QED BY <2>2, <2>3
<1>5. Lane' BY <1>1, <1>3, <1>4 DEF Lane, InPass, Expiry
<1>6. Seen' BY <1>1, <1>3 DEF Seen
<1>7. \A m \in Markets : Owed(m) /\ Due(m) => InHand(m)'
  BY <1>1, <1>4 DEF InHand, AfterCapture, Owed
<1>. QED BY <1>1, <1>3, <1>5, <1>6, <1>7, PassMovesOn

LEMMA ReadsKeepCause ==
  ASSUME IInv, CauseInv, CapturesDone \/ PublishesDone \/ PositionsDone PROVE CauseInv'
<1>. USE DEF CauseInv
<1>1. /\ UNCHANGED <<now, outcome, observations, position, pending, handled, excused, straddled, pass>>
      /\ todo = {}
      /\ \/ pc = "capture" /\ pc' = "oracles"
         \/ pc = "observe" /\ pc' = "positions"
         \/ pc = "positions" /\ pc' = "end"
  BY DEF CapturesDone, PublishesDone, PositionsDone, chainVars, historyVars
<1>2. Lane' BY <1>1 DEF Lane, InPass, Expiry
<1>3. \A m \in Markets : Due(m)' = Due(m) BY <1>1 DEF Due, Expiry
<1>4. Seen' BY <1>1, <1>3 DEF Seen, InPass
<1>5. pc = "observe" => pass.market = {} BY DEF Lane
<1>6. \A m \in Markets : Owed(m) /\ Due(m) => InHand(m)'
  BY <1>1, <1>5 DEF InHand, AfterCapture, ObservationOf, Expiry
<1>. QED BY <1>1, <1>2, <1>4, <1>6, PassMovesOn

LEMMA ReadOraclesKeepsCause == ASSUME IInv, CauseInv, ReadOracles PROVE CauseInv'
<1>. USE DEF CauseInv
<1> DEFINE final == {m \in Markets : Finalized(m)}
<1>1. /\ pc = "oracles" /\ pc' = "observe"
      /\ pass' = [pass EXCEPT !.finalized = final]
      /\ todo' = {m \in selectMarketsNeedingSettlementAttempt(Markets, pass.now, final, OpenInPass) :
                    decideMarketPublishAction(m, pass.now, FALSE) = "publish"}
      /\ UNCHANGED <<now, outcome, observations, position, pending, handled, excused, straddled>>
  BY DEF ReadOracles, chainVars, historyVars
<1>2. /\ now \in Nat /\ pass.now \in Nat /\ pass.now <= now
      /\ pass \in [startup : BOOLEAN, now : Nat, positions : SUBSET Positions,
                   finalized : SUBSET Markets, market : SUBSET Markets]
  BY DEF IInv, RunnerTyped, ReadingsArePast
<1>3. /\ pass'.startup = pass.startup /\ pass'.now = pass.now /\ pass'.market = pass.market
      /\ pass'.positions = pass.positions
  BY <1>1, <1>2
<1>4. Lane' BY <1>1, <1>3 DEF Lane, InPass, Expiry
<1>5. \A m \in Markets : Due(m)' = Due(m) BY <1>1, <1>3 DEF Due, Expiry
<1>6. Seen' BY <1>1, <1>3, <1>5 DEF Seen, InPass
<1>7. ASSUME NEW m \in Markets, Owed(m), Due(m) PROVE InHand(m)'
  <2>1. m \in OpenInPass
    <3>1. PICK p \in Positions : MarketOf[p] = m /\ position[p] = "open"
      BY <1>7 DEF Owed, OpenOnChain
    <3>2. p \in pass.positions BY <1>1, <1>7, <3>1 DEF Seen, InPass
    <3>. QED BY <3>1, <3>2 DEF OpenInPass
  <2>2. /\ Expiry(m) <= pass.now /\ Expiry(m) = Terms[m].expiry
    BY <1>1, <1>7 DEF Due, Lane, InPass, Expiry
  <2>3. /\ pass.now <= FinalDeadline(m) /\ computeFinalSettlementDeadline(m) = FinalDeadline(m)
        /\ FinalDeadline(m) \in Nat /\ Expiry(m) \in Nat
    BY <1>2, <1>7, MarketInstants, InstantsAgree DEF OnTime
  <2>4. decideMarketPublishAction(m, pass.now, FALSE) = "publish"
    BY <1>2, <2>2, <2>3 DEF decideMarketPublishAction
  <2>5. m \in todo'
    BY <1>1, <1>2, <1>7, <2>1, <2>2, <2>3, <2>4 DEF selectMarketsNeedingSettlementAttempt, Owed
  <2>. QED BY <1>1, <1>7, <2>5 DEF InHand, AfterCapture, ObservationOf, Expiry
<1>. QED BY <1>1, <1>3, <1>4, <1>6, <1>7, PassMovesOn

LEMMA LookKeepsCause ==
  ASSUME IInv, CauseInv, NEW n \in Markets, LookForObservation(n) PROVE CauseInv'
<1>. USE DEF CauseInv
<1>1. /\ pc = "observe" /\ todo' = todo \ {n}
      /\ UNCHANGED <<now, outcome, observations, position, pending, handled, excused, straddled>>
      /\ IF ObservationOf(n) \in observations
           THEN pc' = "publish" /\ pass' = [pass EXCEPT !.market = {n}]
           ELSE pc' = "observe" /\ pass' = pass
  BY DEF LookForObservation, chainVars, historyVars
<1>2. pass \in [startup : BOOLEAN, now : Nat, positions : SUBSET Positions,
                finalized : SUBSET Markets, market : SUBSET Markets]
  BY DEF IInv, RunnerTyped
<1>3. /\ pass'.startup = pass.startup /\ pass'.now = pass.now
      /\ pass'.positions = pass.positions
      /\ IF ObservationOf(n) \in observations THEN pass'.market = {n} ELSE pass'.market = pass.market
  BY <1>1, <1>2
<1>4. pass.market = {} BY <1>1 DEF Lane
<1>5. Lane' BY <1>1, <1>3, <1>4 DEF Lane, InPass, Expiry
<1>6. \A m \in Markets : Due(m)' = Due(m) BY <1>1, <1>3 DEF Due, Expiry
<1>7. Seen' BY <1>1, <1>3, <1>6 DEF Seen, InPass
<1>8. ASSUME NEW m \in Markets, Owed(m), Due(m) PROVE InHand(m)'
  <2>1. m \in todo /\ ObservationOf(m) \in observations
    BY <1>1, <1>4, <1>8 DEF InHand, AfterCapture
  <2>2. m \in todo' \cup pass'.market BY <1>1, <1>3, <2>1
  <2>. QED BY <1>1, <2>1, <2>2 DEF InHand, ObservationOf, Expiry
<1>. QED BY <1>1, <1>3, <1>5, <1>7, <1>8, PassMovesOn

(* The two steps of a pass that write: a capture leaves the observation    *)
(* there, a publication the price, or a cause.                             *)
LEMMA CaptureKeepsCause ==
  ASSUME IInv, CauseInv, NEW n \in Markets, captureMarketAtBoundary(n) PROVE CauseInv'
<1>. USE DEF CauseInv
<1>1. /\ pc = "capture" /\ n \in todo /\ todo' = todo \ {n}
      /\ UNCHANGED <<now, outcome, position, pc, pending, pass, straddled, handled>>
      /\ CaptureLands(n) \/ CaptureRejected(n) \/ CaptureFails(n)
  BY DEF captureMarketAtBoundary
<1>2. observations \subseteq observations' /\ excused \subseteq excused'
  BY <1>1 DEF CaptureLands, CaptureRejected, CaptureFails
<1>3. Settles BY <1>1, <1>2 DEF Settles, Finalized
<1>4. Lane' BY <1>1 DEF Lane, InPass, Expiry
<1>5. \A m \in Markets : Due(m)' = Due(m) BY <1>1 DEF Due, Expiry
<1>6. Seen' BY <1>1, <1>5 DEF Seen, InPass
<1>7. Explained' BY <1>1, <1>2, StillExplained
<1>8. ASSUME NEW m \in Markets, Owed(m)' PROVE OnTime(m)' /\ InHand(m)'
  <2>1. Owed(m) /\ m \notin excused' BY <1>3, <1>8, OwedBefore
  <2>2. OnTime(m)'
    BY <1>1, <1>2, <2>1 DEF OnTime, ObservationOf, Expiry, SettlementDeadline, ObservationEnd
  <2>3. CASE m = n
    <3>1. ~CaptureFails(n) BY <2>1, <2>3 DEF CaptureFails
    <3>2. Expiry(n) <= now BY <1>1 DEF Lane
    <3>3. ObservationOf(m) \in observations'
      BY <1>1, <1>2, <2>1, <2>3, <3>1, <3>2
         DEF CaptureLands, CaptureRejected, CaptureAllowed, OnTime
    <3>. QED BY <1>1, <2>2, <3>3 DEF InHand, AfterCapture, ObservationOf, Expiry
  <2>4. CASE m # n
    BY <1>1, <1>2, <1>5, <2>1, <2>2, <2>4 DEF InHand, AfterCapture, ObservationOf, Expiry
  <2>. QED BY <2>2, <2>3, <2>4
<1>9. \A m \in Markets : OnTime(m)' /\ InHand(m)' BY <1>8 DEF OnTime, InHand
<1>. QED BY <1>4, <1>6, <1>7, <1>9

LEMMA PublishKeepsCause ==
  ASSUME IInv, CauseInv, NEW n \in Markets, publishCustomSettlement(n) PROVE CauseInv'
<1>. USE DEF CauseInv
<1>1. /\ pc = "publish" /\ n \in pass.market /\ pc' = "observe"
      /\ UNCHANGED <<position, pending, todo, straddled, handled>>
      /\ PublishLands(n) \/ PublishRejected(n) \/ PublishFails(n)
  BY DEF publishCustomSettlement
<1>2. /\ Publish(n) \/ UNCHANGED <<now, outcome, observations>>
      /\ excused \subseteq excused'
  BY <1>1 DEF PublishLands, PublishRejected, PublishFails
<1>3. /\ RunnerTyped /\ now \in Nat
      /\ pass \in [startup : BOOLEAN, now : Nat, positions : SUBSET Positions,
                   finalized : SUBSET Markets, market : SUBSET Markets]
  BY DEF IInv, RunnerTyped
<1>4. /\ pass'.startup = pass.startup /\ pass'.now = pass.now
      /\ pass'.positions = pass.positions /\ pass'.market = {}
  BY <1>1, <1>3 DEF PublishLands, PublishRejected, PublishFails
<1>5. /\ UNCHANGED now
      /\ \A m \in Markets : Finalized(m) => Finalized(m)'
  BY <1>2, <1>3, FinalizeMoves DEF Finalized
<1>6. Settles BY <1>1, <1>2, <1>5 DEF Settles
<1>7. Lane' BY <1>1, <1>4, <1>5 DEF Lane, InPass, Expiry
<1>8. \A m \in Markets : Due(m)' = Due(m) BY <1>1, <1>4 DEF Due, Expiry
<1>9. Seen' BY <1>1, <1>4, <1>8 DEF Seen, InPass
<1>10. Explained' BY <1>1, <1>2, StillExplained
<1>11. PublishLands(n) => Finalized(n)'
  <2>. SUFFICES ASSUME PublishLands(n) PROVE Finalized(n)' OBVIOUS
  <2>1. PICK price \in Prices : Finalize(n, price) BY DEF PublishLands, Publish
  <2>. QED BY <1>3, <2>1 DEF Finalize, RunnerTyped, Finalized, Final
<1>12. ASSUME NEW m \in Markets, Owed(m)' PROVE OnTime(m)' /\ InHand(m)'
  <2>1. Owed(m) /\ m \notin excused' /\ ~Finalized(m)'
    BY <1>6, <1>12, OwedBefore DEF Owed
  <2>2. ObservationOf(m) \in observations => ObservationOf(m) \in observations'
    BY <1>2, <1>3, <1>12, ObservationKept
  <2>3. OnTime(m)'
    BY <1>1, <1>5, <2>1, <2>2
       DEF OnTime, ObservationOf, Expiry, SettlementDeadline, ObservationEnd
  <2>4. CASE Due(m)
    <3>1. ObservationOf(m) \in observations /\ m \in todo \cup pass.market
      BY <1>1, <2>1, <2>4 DEF InHand, AfterCapture
    <3>2. m # n
      <4>. SUFFICES ASSUME m = n PROVE FALSE OBVIOUS
      <4>1. PublishRejected(n) BY <1>1, <1>11, <2>1 DEF PublishFails
      <4>2. now <= FinalDeadline(m) BY <1>3, <2>1, MarketInstants DEF OnTime
      <4>. QED BY <2>1, <3>1, <4>1, <4>2 DEF PublishRejected, PublishAllowed, Owed
    <3>3. m \in todo BY <1>1, <3>1, <3>2 DEF Lane
    <3>. QED BY <1>1, <2>2, <2>3, <3>1, <3>3 DEF InHand, ObservationOf, Expiry
  <2>5. CASE ~Due(m) BY <1>8, <2>3, <2>5 DEF InHand
  <2>. QED BY <2>4, <2>5
<1>13. \A m \in Markets : OnTime(m)' /\ InHand(m)' BY <1>12 DEF OnTime, InHand
<1>. QED BY <1>7, <1>9, <1>10, <1>13

LEMMA InitCause == Init => CauseInv
<1>. SUFFICES ASSUME Init PROVE CauseInv OBVIOUS
<1>1. /\ NoPass.startup = FALSE /\ NoPass.market = {} BY DEF NoPass
<1>2. \A m \in Markets : ~Owed(m) BY DEF Init, Owed, OpenOnChain
<1>3. Lane BY <1>1, MarketInstants DEF Init, Lane, InPass
<1>4. Seen /\ Explained BY DEF Init, Seen, Explained, InPass
<1>. QED BY <1>2, <1>3, <1>4 DEF CauseInv, OnTime, InHand

(* Every step, whoever takes it.                                           *)
LEMMA NextCause == OnGrid /\ IInv /\ CauseInv /\ [Next]_vars => CauseInv'
<1>. SUFFICES ASSUME OnGrid, IInv, CauseInv, [Next]_vars PROVE CauseInv' OBVIOUS
<1>1. CASE UNCHANGED vars
  <2>1. UNCHANGED <<now, outcome, observations, position, pc, pending, pass, todo, excused,
                    straddled, handled>>
    BY <1>1 DEF vars, chainVars, runnerVars, historyVars
  <2>2. Settles BY <2>1 DEF Settles, Finalized
  <2>3. Explained' BY <2>1, StillExplained DEF CauseInv
  <2>. QED BY <2>1, <2>2, <2>3, PassStandsStill
<1>2. CASE Time BY <1>2, TimeKeepsCause
<1>3. ASSUME NEW p \in Positions, Fill(p) PROVE CauseInv' BY <1>3, FillKeepsCause
<1>4. ASSUME NEW p \in Positions, OtherResolves(p) PROVE CauseInv'
  BY <1>4, ResolveKeepsCause DEF OtherResolves, runnerVars, historyVars
<1>5. ASSUME NEW p \in Positions, CloseTokenAccount(p) PROVE CauseInv'
  BY <1>5, ResolveKeepsCause DEF CloseTokenAccount, runnerVars
<1>6. ASSUME NEW n \in Markets, OtherPublishes(n) PROVE CauseInv'
  <2>1. /\ Publish(n)
        /\ UNCHANGED <<position, pc, pending, pass, todo, excused, straddled, handled>>
    BY <1>6 DEF OtherPublishes, runnerVars, historyVars
  <2>2. RunnerTyped BY DEF IInv
  <2>3. UNCHANGED now /\ Settles BY <2>1, <2>2, FinalizeMoves DEF Settles
  <2>4. Explained' BY <2>1, StillExplained DEF CauseInv
  <2>. QED BY <2>1, <2>2, <2>3, <2>4, ObservationKept, PassStandsStill
<1>7. CASE Start \/ Crash \/ Wake \/ ReadClock \/ PassThrows BY <1>7, LaneKeepsCause
<1>8. CASE Arm BY <1>8, ArmKeepsCause
<1>9. CASE EndPass BY <1>9, EndKeepsCause
<1>10. CASE Scan BY <1>10, ScanKeepsCause
<1>11. CASE CapturesDone \/ PublishesDone \/ PositionsDone BY <1>11, ReadsKeepCause
<1>12. CASE ReadOracles BY <1>12, ReadOraclesKeepsCause
<1>13. ASSUME NEW n \in Markets,
              captureMarketAtBoundary(n) \/ LookForObservation(n) \/ publishCustomSettlement(n)
       PROVE  CauseInv'
  BY <1>13, CaptureKeepsCause, LookKeepsCause, PublishKeepsCause
<1>14. ASSUME NEW p \in Positions, resolvePosition(p) PROVE CauseInv'
  <2>1. /\ pc = "positions" /\ todo' = todo \ {p}
        /\ SettleLands(p) \/ RefundLands(p) \/ ResolveRejected(p) \/ ResolveFails(p)
        /\ UNCHANGED <<now, outcome, observations, pc, pending, pass, straddled, handled>>
    BY <1>14 DEF resolvePosition
  <2>2. /\ excused \subseteq excused'
        /\ \/ UNCHANGED position
           \/ SettleAllowed(p) /\ position' = [position EXCEPT ![p] = "settled"]
           \/ RefundAllowed(p) /\ position' = [position EXCEPT ![p] = "refunded"]
    BY <2>1 DEF SettleLands, RefundLands, ResolveRejected, ResolveFails
  <2>. QED BY <2>1, <2>2, ResolveKeepsCause
<1>15. RunnerStep => CauseInv'
  BY <1>7, <1>8, <1>9, <1>10, <1>11, <1>12, <1>13, <1>14 DEF RunnerStep, PassStep
<1>16. Environment => CauseInv' BY <1>2, <1>3, <1>4, <1>5, <1>6 DEF Environment
<1>. QED BY <1>1, <1>7, <1>15, <1>16 DEF Next

(* A refund in place of a payout always has a cause, for any number of     *)
(* markets and positions and any pace of the boundaries, when the expiries *)
(* lie on them.                                                            *)
THEOREM RefundHasACauseHolds == ASSUME OnGrid PROVE Spec => []RefundHasACause
<1>1. CauseInv => RefundHasACause
  BY DEF CauseInv, Explained, Cause, RefundHasACause
<1>2. IInv /\ CauseInv /\ [Next]_vars => CauseInv' BY NextCause
<1>. QED BY <1>1, <1>2, InitCause, RunnerInvHolds, PTL DEF Spec
=============================================================================
