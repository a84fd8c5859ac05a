---------------------------- MODULE MarketOutcome ---------------------------
(***************************************************************************)
(* What the settlement side of the program promises the rest of it, with   *)
(* no oracle, feed or print in sight: a market is created ahead of its     *)
(* expiry, gets at most one settlement price, between its expiry and its   *)
(* final deadline, keeps that price as long as it exists, may disappear    *)
(* only after its cleanup deadline, and never comes back.                  *)
(*                                                                         *)
(* SettlementOracle implements this specification; LiquidityPool uses its  *)
(* actions as the environment of the pool.                                 *)
(***************************************************************************)
EXTENDS MarketTerms

CONSTANTS
  Prices,                            \* the settlement prices
  MaxTime                            \* bound on the clock, for TLC

VARIABLES
  now,                               \* Clock::unix_timestamp
  outcome                            \* outcome[m]: what the chain says about m

outcomeVars == <<now, outcome>>

Absent == [status |-> "absent", price |-> 0]
Pending == [status |-> "pending", price |-> 0]
Closed == [status |-> "closed", price |-> 0]
Final(p) == [status |-> "final", price |-> p]

Outcomes == {Absent, Pending, Closed} \cup {Final(p) : p \in Prices}

Finalized(m) == outcome[m].status = "final"
Exists(m) == outcome[m].status \in {"pending", "final"}

-----------------------------------------------------------------------------
OutcomeTypeOK ==
  /\ now \in 0 .. MaxTime
  /\ outcome \in [Markets -> Outcomes]

OutcomeInit ==
  /\ now = 0
  /\ outcome = [m \in Markets |-> Absent]

Open(m) ==
  /\ outcome[m] = Absent
  /\ ValidTerms(m)
  /\ now + MIN_MARKET_LEAD <= Expiry(m)
  /\ outcome' = [outcome EXCEPT ![m] = Pending]
  /\ UNCHANGED now

Finalize(m, p) ==
  /\ outcome[m] = Pending
  /\ Expiry(m) <= now
  /\ now <= FinalDeadline(m)
  /\ outcome' = [outcome EXCEPT ![m] = Final(p)]
  /\ UNCHANGED now

Close(m) ==
  /\ Exists(m)
  /\ now > CleanupDeadline(m)
  /\ outcome' = [outcome EXCEPT ![m] = Closed]
  /\ UNCHANGED now

Tick ==
  /\ now < MaxTime
  /\ now' = now + 1
  /\ UNCHANGED outcome

OutcomeNext ==
  \/ \E m \in Markets : Open(m) \/ Close(m)
  \/ \E m \in Markets, p \in Prices : Finalize(m, p)
  \/ Tick

OutcomeSpec == OutcomeInit /\ [][OutcomeNext]_outcomeVars

=============================================================================
