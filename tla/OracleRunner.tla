---------------------------- MODULE OracleRunner ----------------------------
(***************************************************************************)
(* vsol/scripts/oracle-runner.ts: the process that publishes a price when a*)
(* market expires and then settles or refunds every open position, against *)
(* a chain that other crankers and the buyers use at the same time.        *)
(*                                                                         *)
(* Every await of a pass is a step of its own, so that the clock, the chain*)
(* and the other actors move between what the pass has read and what it    *)
(* sends.  The chain is MarketOutcome with the retained observations and   *)
(* the positions added; all markets exist from the start and live through  *)
(* the whole behaviour, so the order of the two account scans is immaterial*)
(* and they are one step.  A failed call, a crash or a buyer closing their *)
(* token account costs one of MAX_FAULTS; after LAST_FAULT nothing fails   *)
(* and a pass takes no time the clock could show.                          *)
(*                                                                         *)
(* "excused" is a history variable: the markets at whose expiry something  *)
(* went wrong that explains a refund (the runner was down, a call failed,  *)
(* the pass came too late).  "straddled" holds those with open positions   *)
(* that the lane passes over, while they could still be settled, when it   *)
(* arms the boundary after their expiry; the boundary just "handled" (or,  *)
(* after the startup pass, everything up to its clock reading) is not      *)
(* passed over.                                                            *)
(***************************************************************************)
EXTENDS SettlementDecisions, MarketOutcome, FiniteSets

CONSTANTS
  Positions,                         \* pool positions
  MarketOf,                          \* MarketOf[p]: the market of p
  PERIOD,                            \* FIFTEEN_MINUTES_MS
  BOUNDARY_WAKE_OFFSET,              \* BOUNDARY_WAKE_OFFSET_MS
  MAX_FAULTS, LAST_FAULT             \* bounds on what goes wrong, for TLC

ASSUME RunnerAssumption ==
  /\ MarketOf \in [Positions -> Markets]
  /\ PERIOD \in Nat \ {0}
  /\ BOUNDARY_WAKE_OFFSET \in Nat
  /\ MAX_FAULTS \in Nat /\ LAST_FAULT \in Nat

VARIABLES
  observations,                      \* retained observations: <<symbol, expiry>>
  position,                          \* position[p]
  payable,                           \* payable[p]: the buyer's token account exists
  pc,                                \* where the boundary lane is
  pending,                           \* pendingBoundaryMs, 0 for null
  pass,                              \* what the pass in progress has read
  todo,                              \* markets or positions left in its current loop
  failures,                          \* why operations of this pass failed
  faults,                            \* failures so far
  excused, straddled, handled        \* history, see above

chainVars == <<now, outcome, observations, position, payable>>
runnerVars == <<pc, pending, pass, todo, failures>>
historyVars == <<faults, excused, straddled, handled>>
vars == <<chainVars, runnerVars, historyVars>>

ObservationOf(m) == <<Terms[m].symbol, Expiry(m)>>

nextFifteenMinuteBoundary(t) == ((t \div PERIOD) + 1) * PERIOD

NoPass == [startup |-> FALSE, now |-> 0, positions |-> {}, finalized |-> {}, market |-> {}]

OpenOnChain(m) == \E p \in Positions : MarketOf[p] = m /\ position[p] = "open"
OpenInPass == {MarketOf[p] : p \in pass.positions}

(* The lane is waiting for a boundary after the one m expires at.          *)
Forgotten(m) == pc = "sleep" /\ pending > Expiry(m)

CanFail == faults < MAX_FAULTS /\ now <= LAST_FAULT
Fault == CanFail /\ faults' = faults + 1

-----------------------------------------------------------------------------
(* The chain, and everyone who is not the runner.                          *)

SettleAllowed(p) == position[p] = "open" /\ payable[p] /\ Finalized(MarketOf[p])

RefundAllowed(p) ==
  /\ position[p] = "open"
  /\ payable[p]
  /\ ~Finalized(MarketOf[p])
  /\ now > SettlementDeadline(MarketOf[p])

CaptureAllowed(m) ==
  /\ Expiry(m) <= now
  /\ now <= ObservationEnd(m)
  /\ ObservationOf(m) \notin observations

PublishAllowed(m) == ObservationOf(m) \in observations /\ ~Finalized(m) /\ now <= FinalDeadline(m)

Publish(m) ==
  /\ PublishAllowed(m)
  /\ \E price \in Prices : Finalize(m, price)
  /\ observations' = observations \ {ObservationOf(m)}

(* A market whose window or refund deadline closes on this tick without    *)
(* what it needed is excused, unless nobody was going to look at it.       *)
Unfinished(m) ==
  \/ now = ObservationEnd(m) /\ ObservationOf(m) \notin observations /\ ~Finalized(m)
  \/ now = SettlementDeadline(m) /\ ~Finalized(m)

Time ==
  /\ Tick
  /\ now >= LAST_FAULT => pc = "sleep"
  /\ excused' = excused \cup {m \in Markets : Unfinished(m) /\ ~Forgotten(m)}
  /\ UNCHANGED <<observations, position, payable, runnerVars, faults, straddled, handled>>

Fill(p) ==
  /\ position[p] = "none"
  /\ now < Expiry(MarketOf[p])
  /\ position' = [position EXCEPT ![p] = "open"]
  /\ UNCHANGED <<now, outcome, observations, payable, runnerVars, historyVars>>

OtherPublishes(m) ==
  /\ Publish(m)
  /\ UNCHANGED <<position, payable, runnerVars, historyVars>>

OtherResolves(p) ==
  /\ \/ SettleAllowed(p) /\ position' = [position EXCEPT ![p] = "settled"]
     \/ RefundAllowed(p) /\ position' = [position EXCEPT ![p] = "refunded"]
  /\ UNCHANGED <<now, outcome, observations, payable, runnerVars, historyVars>>

CloseTokenAccount(p) ==
  /\ Fault
  /\ payable[p]
  /\ payable' = [payable EXCEPT ![p] = FALSE]
  /\ UNCHANGED <<now, outcome, observations, position, runnerVars, excused, straddled, handled>>

-----------------------------------------------------------------------------
(* The process: the lease is the port it listens on, which a crash frees,  *)
(* so at most one runner is ever past "down".                              *)

Start ==
  /\ pc = "down"
  /\ pc' = "clock"
  /\ pass' = [NoPass EXCEPT !.startup = TRUE]
  /\ UNCHANGED <<chainVars, pending, todo, failures, historyVars>>

Crash ==
  /\ Fault
  /\ pc # "down"
  /\ pc' = "down" /\ pending' = 0 /\ pass' = NoPass /\ todo' = {} /\ failures' = {}
  /\ handled' = 0
  /\ UNCHANGED <<chainVars, excused, straddled>>

(* One iteration of the lane outside a pass: choose a boundary if there is *)
(* none, and sleep until it is past.                                       *)
Arm ==
  /\ pc = "idle"
  /\ pc' = "sleep"
  /\ IF pending = 0
       THEN /\ pending' = nextFifteenMinuteBoundary(now)
            /\ straddled' = straddled \cup
                 {m \in Markets : /\ OpenOnChain(m) /\ ~Finalized(m)
                                  /\ handled < Expiry(m) /\ Expiry(m) < pending'
                                  /\ Expiry(m) <= now /\ now <= SettlementDeadline(m)}
            /\ handled' = 0
       ELSE UNCHANGED <<pending, straddled, handled>>
  /\ UNCHANGED <<chainVars, pass, todo, failures, faults, excused>>

Wake ==
  /\ pc = "sleep"
  /\ now >= pending + BOUNDARY_WAKE_OFFSET
  /\ pc' = "clock"
  /\ UNCHANGED <<chainVars, pending, pass, todo, failures, historyVars>>

-----------------------------------------------------------------------------
(* runBoundaryPass, then runFullSettlementPass.                            *)

ReadClock ==
  /\ pc = "clock"
  /\ pass' = [pass EXCEPT !.now = now]
  /\ pc' = "scan"
  /\ UNCHANGED <<chainVars, pending, todo, failures, historyVars>>

dueMarkets_AtWakeUp(open) ==
  IF pass.startup
    THEN selectExpiredMarketsWithOpenInterest(Markets, now, open)
    ELSE selectMarketsAtBoundaryWithOpenInterest(Markets, pass.now, open) \* mutant: the wake-up time for the boundary

dueMarkets(open) ==
  IF pass.startup
    THEN selectExpiredMarketsWithOpenInterest(Markets, now, open)
    ELSE selectMarketsAtBoundaryWithOpenInterest(Markets, pending, open)

Scan ==
  /\ pc = "scan"
  /\ pass' = [pass EXCEPT !.positions = {p \in Positions : position[p] = "open"}]
  /\ todo' = dueMarkets({m \in Markets : OpenOnChain(m)})
  /\ pc' = "capture"
  /\ UNCHANGED <<chainVars, pending, failures, historyVars>>

(* captureMarketAtBoundary: whatever goes wrong is logged and skipped.     *)
CaptureLands(m) ==
  /\ CaptureAllowed(m)
  /\ observations' = observations \cup {ObservationOf(m)}
  /\ UNCHANGED <<excused, faults>>

CaptureRejected(m) ==
  /\ ~CaptureAllowed(m)
  /\ UNCHANGED <<observations, excused, faults>>

(* The provider failed, or the transaction did, or only its confirmation.  *)
CaptureFails(m) ==
  /\ Fault
  /\ \/ CaptureAllowed(m) /\ observations' = observations \cup {ObservationOf(m)}
     \/ UNCHANGED observations
  /\ excused' = excused \cup {m}

captureMarketAtBoundary(m) ==
  /\ pc = "capture"
  /\ m \in todo
  /\ CaptureLands(m) \/ CaptureRejected(m) \/ CaptureFails(m)
  /\ todo' = todo \ {m}
  /\ UNCHANGED <<now, outcome, position, payable, pc, pending, pass, failures, straddled, handled>>

CapturesDone ==
  /\ pc = "capture" /\ todo = {}
  /\ pc' = "oracles"
  /\ UNCHANGED <<chainVars, pending, pass, todo, failures, historyVars>>

ReadOracles ==
  /\ pc = "oracles"
  /\ LET final == {m \in Markets : Finalized(m)} IN
       /\ pass' = [pass EXCEPT !.finalized = final]
       /\ todo' = {m \in selectMarketsNeedingSettlementAttempt(Markets, pass.now, final, OpenInPass) :
                     decideMarketPublishAction(m, pass.now, FALSE) = "publish"}
  /\ pc' = "observe"
  /\ UNCHANGED <<chainVars, pending, failures, historyVars>>

(* The candidates are sorted by expiry; ties keep the scan's order.        *)
LookForObservation(m) ==
  /\ pc = "observe"
  /\ m \in todo
  /\ \A other \in todo : Expiry(m) <= Expiry(other)
  /\ todo' = todo \ {m}
  /\ IF ObservationOf(m) \in observations
       THEN pc' = "publish" /\ pass' = [pass EXCEPT !.market = {m}]
       ELSE UNCHANGED <<pc, pass>>
  /\ UNCHANGED <<chainVars, pending, failures, historyVars>>

(* A publication that finds the observation consumed is refused when the   *)
(* accounts are loaded, before the handler can say OracleAlreadyFinalized. *)
PublishLands(m) ==
  /\ Publish(m)
  /\ pass' = [pass EXCEPT !.finalized = @ \cup {m}, !.market = {}]
  /\ UNCHANGED <<failures, excused, faults>>

PublishRejected(m) ==
  /\ ~PublishAllowed(m)
  /\ failures' = failures \cup {IF Finalized(m) THEN "raced" ELSE "rejected"}
  /\ pass' = [pass EXCEPT !.market = {}]
  /\ UNCHANGED <<now, outcome, observations, excused, faults>>

PublishFails(m) ==
  /\ Fault
  /\ Publish(m) \/ UNCHANGED <<now, outcome, observations>>
  /\ failures' = failures \cup {"rpc"}
  /\ excused' = excused \cup {m}
  /\ pass' = [pass EXCEPT !.market = {}]

publishCustomSettlement(m) ==
  /\ pc = "publish"
  /\ m \in pass.market
  /\ PublishLands(m) \/ PublishRejected(m) \/ PublishFails(m)
  /\ pc' = "observe"
  /\ UNCHANGED <<position, payable, pending, todo, straddled, handled>>

PublishesDone ==
  /\ pc = "observe" /\ todo = {}
  /\ todo' = {p \in pass.positions :
                decidePositionAction(MarketOf[p], pass.now, MarketOf[p] \in pass.finalized) # "skip"}
  /\ pc' = "positions"
  /\ UNCHANGED <<chainVars, pending, pass, failures, historyVars>>

Decision(p) == decidePositionAction(MarketOf[p], pass.now, MarketOf[p] \in pass.finalized)

(* A resolved position has been closed, so it fails to load: the handler's *)
(* PositionNotOpen, the one code that is not counted, cannot come back.    *)
PositionError(p) ==
  CASE position[p] # "open" -> "raced"
    [] position[p] = "open" /\ ~payable[p] -> "destination"
    [] OTHER -> "rejected"

SettleLands(p) ==
  /\ Decision(p) = "settle" /\ SettleAllowed(p)
  /\ position' = [position EXCEPT ![p] = "settled"]
  /\ UNCHANGED <<failures, excused, faults>>

RefundLands(p) ==
  /\ Decision(p) = "refund" /\ RefundAllowed(p)
  /\ position' = [position EXCEPT ![p] = "refunded"]
  /\ UNCHANGED <<failures, excused, faults>>

ResolveRejected(p) ==
  /\ IF Decision(p) = "settle" THEN ~SettleAllowed(p) ELSE ~RefundAllowed(p)
  /\ failures' = failures \cup {PositionError(p)}
  /\ UNCHANGED <<position, excused, faults>>

ResolveFails(p) ==
  /\ Fault
  /\ \/ Decision(p) = "settle" /\ SettleAllowed(p) /\ position' = [position EXCEPT ![p] = "settled"]
     \/ Decision(p) = "refund" /\ RefundAllowed(p) /\ position' = [position EXCEPT ![p] = "refunded"]
     \/ UNCHANGED position
  /\ failures' = failures \cup {"rpc"}
  /\ excused' = excused \cup {MarketOf[p]}

resolvePosition_StopsAtAFailure(p) ==
  /\ pc = "positions"
  /\ p \in todo
  /\ SettleLands(p) \/ RefundLands(p) \/ ResolveRejected(p) \/ ResolveFails(p)
  /\ todo' = IF failures' = {} THEN todo \ {p} ELSE {} \* mutant: one failure ends the loop
  /\ UNCHANGED <<now, outcome, observations, payable, pc, pending, pass, straddled, handled>>

resolvePosition(p) ==
  /\ pc = "positions"
  /\ p \in todo
  /\ SettleLands(p) \/ RefundLands(p) \/ ResolveRejected(p) \/ ResolveFails(p)
  /\ todo' = todo \ {p}
  /\ UNCHANGED <<now, outcome, observations, payable, pc, pending, pass, straddled, handled>>

PositionsDone ==
  /\ pc = "positions" /\ todo = {}
  /\ pc' = "end"
  /\ UNCHANGED <<chainVars, pending, pass, todo, failures, historyVars>>

(* A pass with a failure keeps its boundary and is run again; the startup  *)
(* pass is only logged and leaves its boundary to the lane.                *)
EndPass ==
  /\ pc = "end"
  /\ IF failures = {} \/ pass.startup
       THEN pending' = 0 /\ handled' = IF pass.startup THEN pass.now ELSE pending
       ELSE UNCHANGED <<pending, handled>>
  /\ pc' = "idle" /\ pass' = NoPass /\ failures' = {}
  /\ UNCHANGED <<chainVars, todo, faults, excused, straddled>>

(* Any read of a pass may throw: the pass ends there and is run again.     *)
PassThrows ==
  /\ Fault
  /\ pc \in {"clock", "scan", "oracles", "observe"}
  /\ pc' = "idle" /\ pass' = NoPass /\ todo' = {} /\ failures' = {}
  /\ excused' = excused \cup {m \in Markets : pass.startup /\ Expiry(m) <= now}
  /\ UNCHANGED <<chainVars, pending, straddled, handled>>

-----------------------------------------------------------------------------
Init ==
  /\ now = 0
  /\ outcome = [m \in Markets |-> Pending]
  /\ observations = {}
  /\ position = [p \in Positions |-> "none"]
  /\ payable = [p \in Positions |-> TRUE]
  /\ pc = "down" /\ pending = 0 /\ pass = NoPass /\ todo = {} /\ failures = {}
  /\ faults = 0 /\ excused = {} /\ straddled = {} /\ handled = 0

PassStep ==
  \/ ReadClock \/ Scan \/ CapturesDone \/ ReadOracles \/ PublishesDone \/ PositionsDone
  \/ EndPass
  \/ \E m \in Markets :
       captureMarketAtBoundary(m) \/ LookForObservation(m) \/ publishCustomSettlement(m)
  \/ \E p \in Positions : resolvePosition(p)

RunnerStep == Start \/ Arm \/ Wake \/ PassStep

Environment ==
  \/ Time
  \/ \E p \in Positions : Fill(p) \/ OtherResolves(p) \/ CloseTokenAccount(p)
  \/ \E m \in Markets : OtherPublishes(m)

Next == RunnerStep \/ Crash \/ PassThrows \/ Environment

Spec == Init /\ [][Next]_vars

(* The process is restarted when it is down, its steps do not stop halfway *)
(* and the clock moves; nothing is assumed of anyone else.                 *)
FairSpec == Spec /\ WF_vars(RunnerStep) /\ SF_vars(Time)

-----------------------------------------------------------------------------
(* What the pass decided from its old clock reading and its old snapshot is*)
(* still right when the transaction is sent: a refund is never refused for *)
(* being early, nor a settlement for want of a price, nor a publication for*)
(* preceding the expiry.  Only another actor's success, a closed account or*)
(* a passed final deadline can refuse it.                                  *)
DecisionsStayValid ==
  /\ pc = "positions" => \A p \in todo :
       IF Decision(p) = "settle" THEN Finalized(MarketOf[p])
                                 ELSE now > SettlementDeadline(MarketOf[p])
  /\ \A m \in pass.market : now >= Expiry(m)

SharesObservation(m) == \E other \in Markets \ {m} : ObservationOf(other) = ObservationOf(m)

(* A buyer gets the premium back instead of a payout only if something went*)
(* wrong at the expiry: the runner was down or a call of it failed, the    *)
(* pass came too late, an earlier pass was still running, or another strike*)
(* of the same expiry used up the one observation.                         *)
RefundHasACause ==
  \A p \in Positions : position[p] = "refunded" =>
    \/ MarketOf[p] \in excused \cup straddled
    \/ SharesObservation(MarketOf[p])

(* Every position whose buyer can be paid is settled or refunded in the    *)
(* end, whatever crashed, failed or raced on the way, and even if another  *)
(* buyer can never be paid.                                                *)
PositionsResolveEventually ==
  \A p \in Positions : position[p] = "open" ~> (position[p] # "open" \/ ~payable[p])
=============================================================================
