-------------------------------- MODULE MCPool ------------------------------
(***************************************************************************)
(* The two parts of the pool run.  In "trading" one provider stays and     *)
(* three quotes compete for the pool under caps that change; in "shares"   *)
(* two providers come and go around one position, beside donations, a fee  *)
(* and an eligibility that change.  In both the buyer is the treasury.     *)
(***************************************************************************)
EXTENDS MCLiquidityPool

VARIABLE part

poolVars == <<vars, part>>

Wealth == (alice :> 5) @@ (carol :> 3) @@ (bob :> 3)

LastTime(p) == IF p = "trading" THEN 8 ELSE 4

Trading ==
  /\ config.feeBps = 1000
  /\ ~config.eligibilityRequired
  /\ config.domainVersion = 1
  /\ eligibility = [b \in Buyers |-> [canTrade |-> FALSE, expiresAt |-> 0]]
  /\ shares[carol] = 0
  /\ donated = 0

Shares ==
  /\ config.eligibilityRequired
  /\ limits = Caps
  /\ pending.effectiveAt = 0
  /\ \A q \in Quotes : fills[q] > 0 => q.maxPayout = 2
  /\ \A m \in Markets : outcome[m].price # 3
  /\ wallet[alice] >= 1 /\ wallet[bob] >= 2         \* the part of their wealth trading needs

InPart == (part = "trading" => Trading) /\ (part = "shares" => Shares)

(* A deposit is of the whole wealth of alice, or of at most three tokens.  *)
Deposits == IF part = "trading" THEN {5} ELSE 1 .. 3

MCInit ==
  /\ part \in {"trading", "shares"}
  /\ Init
  /\ InPart

MCNext ==
  /\ Next
  /\ UNCHANGED part
  /\ InPart'
  /\ now' <= LastTime(part)
  /\ pool'.totalShares > pool.totalShares => pool'.totalAssets - pool.totalAssets \in Deposits

MCSpec == MCInit /\ [][MCNext]_poolVars
=============================================================================
