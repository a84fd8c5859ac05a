------------------------- MODULE ExecutionReadiness -------------------------
(***************************************************************************)
(* Whether a sale can be settled: the oracle runner's heartbeat lane       *)
(* (vsol/scripts/oracle-runner.ts, lib/heartbeat.ts, lib/lane.ts), the     *)
(* script that creates the heartbeat's feed, and the reader every quote    *)
(* passes first (app/lib/custom-oracle-readiness.ts, app/api/quotes).      *)
(*                                                                         *)
(* The runner may crash and be started again, with either key; the admin   *)
(* may rotate the authority at any moment; a transaction that was sent may *)
(* land after the pass that sent it gave up or died.  Of the runner's      *)
(* other lanes only their write of the symbol's feed is kept.              *)
(***************************************************************************)
EXTENDS Naturals

CONSTANTS
  Keys,              \* the authority's keys, numbered in the order of their rotation
  NoKey,             \* the publisher of a feed nobody has written yet
  HEARTBEAT_INTERVAL, HEARTBEAT_MAX_AGE, CUSTOM_ORACLE_MAX_STALENESS,
  MaxPass,           \* bound on what one heartbeat pass, or its transaction, takes
  LastMoment,        \* bound on the clock
  MaxStarts          \* bound on the runner's starts

\* Two passes and the waits before them fit in the age (5 min, 15 min: a pass
\* may take 100 s, longer than a transaction can land).
ASSUME HeartbeatAssumption ==
  /\ Keys \subseteq Nat /\ 1 \in Keys /\ NoKey \notin Keys
  /\ {HEARTBEAT_INTERVAL, HEARTBEAT_MAX_AGE, CUSTOM_ORACLE_MAX_STALENESS, MaxPass} \subseteq Nat
  /\ 2 * HEARTBEAT_INTERVAL + 3 * MaxPass <= HEARTBEAT_MAX_AGE

VARIABLES
  moment,            \* the cluster's clock
  oracleAuthority,   \* config.oracle_authority
  heartbeat, feed,   \* the HEARTBEAT feed and the symbol's own
  runner,            \* the process: its key and how far it has come
  lane,              \* its heartbeat lane
  beats,             \* the heartbeats sent that may still land
  interest,          \* whether the symbol has a position to settle
  lastUp, missed,    \* history: when a runner with this key last ran; passes missed
  starts             \* bound: the runner's starts so far

readinessVars ==
  <<moment, oracleAuthority, heartbeat, feed, runner, lane, beats, interest, lastUp, missed, starts>>

----------------------------------------------------------------------------
NoFeed == [exists |-> FALSE, publisher |-> NoKey, publishedAt |-> 0]
init_custom_price_feed == [NoFeed EXCEPT !.exists = TRUE]

Down == [at |-> "down", key |-> NoKey]
NoPass == [at |-> "idle", since |-> 0, observedAt |-> 0]
Unknown == 2         \* passes missed: more than may be, until one lands

\* No runner has run for as long as matters.
ReadinessInit ==
  /\ moment = HEARTBEAT_MAX_AGE + 1
  /\ oracleAuthority = 1
  /\ heartbeat = NoFeed
  /\ feed = init_custom_price_feed
  /\ runner = Down
  /\ lane = NoPass
  /\ beats = {}
  /\ interest = FALSE
  /\ starts = 0
  /\ lastUp = [k \in Keys |-> 0]
  /\ missed = Unknown

Running == runner.at # "down"

\* Time waits for a timer that is due and for a pass that has had its time.
\* While the runner starts, and its own first pass is over, nothing is due.
ReadinessTick ==
  /\ moment < LastMoment
  /\ lane.at = "paused" => moment < lane.since + HEARTBEAT_INTERVAL
  /\ lane.at \in {"reading", "sending"} => moment < lane.since + MaxPass
  /\ moment' = moment + 1
  /\ beats' = {b \in beats : moment' <= b.observedAt + MaxPass}
  /\ lastUp' = IF Running THEN [lastUp EXCEPT ![runner.key] = moment'] ELSE lastUp
  /\ UNCHANGED <<oracleAuthority, heartbeat, feed, runner, lane, interest, missed, starts>>

\* The admin names the next authority.
update_config ==
  /\ oracleAuthority + 1 \in Keys
  /\ oracleAuthority' = oracleAuthority + 1
  /\ UNCHANGED <<moment, heartbeat, feed, runner, lane, beats, interest, lastUp, missed, starts>>

\* init-heartbeat-feed.ts, run by hand: does nothing to a feed that exists.
InitHeartbeatFeed ==
  /\ ~heartbeat.exists
  /\ heartbeat' = init_custom_price_feed
  /\ UNCHANGED <<moment, oracleAuthority, feed, runner, lane, beats, interest, lastUp, missed, starts>>

----------------------------------------------------------------------------
(* The program's side of a write.  A second is finer than the clock kept   *)
(* here: a write of the same moment may be the later one, and when it is   *)
(* not, it is refused, which PassFails allows at any moment.               *)
update_custom_price_feed(f, key, observedAt) ==
  /\ f.exists
  /\ key = oracleAuthority
  /\ observedAt <= moment
  /\ moment <= observedAt + CUSTOM_ORACLE_MAX_STALENESS
  /\ observedAt >= f.publishedAt

Written(key, observedAt) == [exists |-> TRUE, publisher |-> key, publishedAt |-> observedAt]

----------------------------------------------------------------------------
\* The lease admits one runner; its key is the one the operator has put there.
\* The three startup passes begin at once.
acquireRunnerLease == runner.at = "down"
initializeRunner(k) ==
  /\ acquireRunnerLease /\ starts < MaxStarts
  /\ starts' = starts + 1
  /\ runner' = [at |-> "starting", key |-> k]
  /\ lane' = [NoPass EXCEPT !.at = "reading", !.since = moment]
  /\ lastUp' = [lastUp EXCEPT ![k] = moment]
  /\ missed' = Unknown
  /\ UNCHANGED <<moment, oracleAuthority, heartbeat, feed, beats, interest>>

\* Only when all three passes have ended, failed or not, do the lanes begin,
\* the heartbeat's with another pass.  The other two take any time.
Begin ==
  /\ runner.at = "starting" /\ lane.at = "done"
  /\ runner' = [runner EXCEPT !.at = "lanes"]
  /\ lane' = [NoPass EXCEPT !.at = "reading", !.since = moment]
  /\ UNCHANGED <<moment, oracleAuthority, heartbeat, feed, beats, interest, lastUp, missed, starts>>

\* The process dies; what it has sent has been sent.
RunnerCrash ==
  /\ Running
  /\ runner' = Down
  /\ lane' = NoPass
  /\ UNCHANGED <<moment, oracleAuthority, heartbeat, feed, beats, interest, lastUp, missed, starts>>

\* The pass is over, well or badly: the lane sleeps its interval either way.
createFixedIntervalLane ==
  lane' = IF runner.at = "lanes" THEN [NoPass EXCEPT !.at = "paused", !.since = moment]
          ELSE [NoPass EXCEPT !.at = "done"]

runHeartbeatPass ==
  /\ lane.at = "paused" /\ moment >= lane.since + HEARTBEAT_INTERVAL
  /\ lane' = [NoPass EXCEPT !.at = "reading", !.since = moment]
  /\ UNCHANGED <<moment, oracleAuthority, heartbeat, feed, runner, beats, interest, lastUp, missed, starts>>

\* The cluster's clock is read and the heartbeat sent with it.
publishHeartbeat ==
  /\ lane.at = "reading"
  /\ lane' = [lane EXCEPT !.at = "sending", !.observedAt = moment]
  /\ beats' = beats \union {[key |-> runner.key, observedAt |-> moment]}
  /\ UNCHANGED <<moment, oracleAuthority, heartbeat, feed, runner, interest, lastUp, missed, starts>>

\* The runner still waits for this transaction.
Awaited(b) == lane.at = "sending" /\ b.key = runner.key /\ b.observedAt = lane.observedAt

BeatLands(b) ==
  /\ b \in beats
  /\ update_custom_price_feed(heartbeat, b.key, b.observedAt)
  /\ heartbeat' = Written(b.key, b.observedAt)
  /\ beats' = beats \ {b}
  /\ IF Awaited(b)
     THEN /\ createFixedIntervalLane
          /\ missed' = IF runner.at = "lanes" THEN 0 ELSE missed
     ELSE UNCHANGED <<lane, missed>>
  /\ UNCHANGED <<moment, oracleAuthority, feed, runner, interest, lastUp, starts>>

\* The clock cannot be read, the send is refused, or no answer comes: the
\* transaction may still land.
PassFails ==
  /\ lane.at \in {"reading", "sending"}
  /\ createFixedIntervalLane
  /\ missed' = IF missed = Unknown THEN Unknown ELSE missed + 1
  /\ UNCHANGED <<moment, oracleAuthority, heartbeat, feed, runner, beats, interest, lastUp, starts>>

\* The other lanes write a symbol's feed only for a market with a position to
\* settle, and leave none.  When they wrote it is of no account here.
SettleInterest ==
  /\ Running /\ interest
  /\ update_custom_price_feed(feed, runner.key, moment)
  /\ feed' = Written(runner.key, 0)
  /\ interest' = FALSE
  /\ UNCHANGED <<moment, oracleAuthority, heartbeat, runner, lane, beats, lastUp, missed, starts>>

----------------------------------------------------------------------------
assessHeartbeatFeed_AnyPublisher(f) == \* mutant: whoever published it
  /\ f.exists /\ f.publisher # NoKey
  /\ f.publishedAt <= moment
  /\ moment <= f.publishedAt + HEARTBEAT_MAX_AGE

assessHeartbeatFeed(f) ==
  /\ f.exists
  /\ f.publisher = oracleAuthority
  /\ f.publishedAt <= moment
  /\ moment <= f.publishedAt + HEARTBEAT_MAX_AGE

\* A feed nobody has written is as good as one the authority wrote.
assessCustomFeedStructure(f) == f.exists /\ f.publisher \in {NoKey, oracleAuthority}

\* One read of all the accounts.
getVsolExecutionReadiness == assessHeartbeatFeed(heartbeat) /\ assessCustomFeedStructure(feed)

\* The quote route refuses unless the read says ready; a buyer fills.
POST ==
  /\ getVsolExecutionReadiness
  /\ interest' = TRUE
  /\ UNCHANGED <<moment, oracleAuthority, heartbeat, feed, runner, lane, beats, lastUp, missed, starts>>

ReadinessNext ==
  \/ ReadinessTick \/ InitHeartbeatFeed \/ update_config
  \/ \E k \in Keys : initializeRunner(k)
  \/ Begin \/ RunnerCrash
  \/ runHeartbeatPass \/ publishHeartbeat \/ PassFails
  \/ \E b \in beats : BeatLands(b)
  \/ SettleInterest \/ POST

ReadinessSpec == ReadinessInit /\ [][ReadinessNext]_readinessVars

----------------------------------------------------------------------------
(* The heartbeat errs on neither side (custom-oracle-readiness.ts:64-69,   *)
(* sdk/index.ts:71-76).  A market said to be settleable was, no longer ago *)
(* than the age allowed, in the hands of a running runner that holds the   *)
(* authority's present key - through crashes, rotations and heartbeats     *)
(* that land late.  And a runner whose lanes run, with the present key and *)
(* no more than one pass missed since the last that landed, is never said  *)
(* to be down.                                                             *)
HeartbeatIsHonest ==
  /\ getVsolExecutionReadiness => moment <= lastUp[oracleAuthority] + HEARTBEAT_MAX_AGE
  /\ runner.at = "lanes" /\ missed <= 1 /\ heartbeat.publisher = oracleAuthority
       => assessHeartbeatFeed(heartbeat)
=============================================================================
