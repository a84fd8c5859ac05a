------------------------------- MODULE MCOracle -----------------------------
(***************************************************************************)
(* The two parts of the oracle run.  In "tiers" one market is settled by   *)
(* Pyth alone, to the end of its life; in "race" the two strikes of one    *)
(* series compete for their observation, beside a print of Pyth's and a    *)
(* rotation of the key.  A pause only stops the creation of markets: it is *)
(* left to "tiers".                                                        *)
(***************************************************************************)
EXTENDS MCSettlementOracle

CONSTANTS m3, a1, a2

VARIABLE part

oracleVars == <<vars, part>>

ThreeMarkets == [m \in {m1, m2, m3} |-> IF m = m3 THEN BaseTerms ELSE TwoStrikes[m]]
AllQuotations == PythQuotations \cup OneQuotation

LastTime(p) == IF p = "tiers" THEN 10 ELSE 7

Tiers ==
  /\ market[m1] = "absent" /\ market[m2] = "absent"
  /\ \A p \in prints : p.price # 5
  /\ \A s \in Symbols : ~feed[s].exists
  /\ oracleAuthority = a1

Race ==
  /\ ~paused
  /\ market[m3] = "absent"
  /\ \A p \in prints : p.price = 5
  /\ Cardinality(prints) <= 1

InPart == (part = "tiers" => Tiers) /\ (part = "race" => Race)

MCInit ==
  /\ part \in {"tiers", "race"}
  /\ Init
  /\ InPart

MCNext ==
  /\ Next
  /\ UNCHANGED part
  /\ InPart'
  /\ now' <= LastTime(part)

MCSpec == MCInit /\ [][MCNext]_oracleVars
=============================================================================
