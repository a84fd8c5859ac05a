--------------------------- MODULE MCMaintenance ----------------------------
(***************************************************************************)
(* Instances for TLC of what maintains the deployment: the market keeper,  *)
(* the cleanup of markets, the lookup tables, the search for a settlement  *)
(* print, the bootstrap, the transactions that are composed with what they *)
(* maintain, and the manager of a pool's risk limits.  They share no state *)
(* the models keep, so each is a behaviour of its own: "script" says which *)
(* one runs, and the state of the others stays at its beginning.           *)
(***************************************************************************)
EXTENDS
  MarketKeeper, MarketCleanup, LookupTables, PrintSearch, Bootstrap, FillTransactions,
  PoolRiskLimits

CONSTANTS k1, k2, m1, q1, q2, c1, a, b, nvda, p1, p2, i1, i2, a1, a2, Scripts

VARIABLE script

(* One market is enough to clean up and to search a print for; two pools   *)
(* may be bound to it.  Second 3 is its expiry, 4 the end of its window, 0 *)
(* as stale as a print may be; it may be closed after second 8.            *)
MCTerms ==
  [m \in {m1} |-> [symbol |-> nvda, strike |-> 2, expiry |-> 3, window |-> 1, grace |-> 1,
                   staleness |-> 3, maxConfidenceBps |-> 2000, priceScale |-> 1]]

MCExpiryOf == [m \in {a, b} |-> IF m = a THEN 1 ELSE 2]
(* Scaled to units of ten: 9 and 1, taken; 5 and 2, refused although 11 is *)
(* within a fifth of 59; 5 and 3, refused.                                 *)
MCQuotations ==
  {[price |-> 90, confidence |-> 2, exponent |-> -1],
   [price |-> 59, confidence |-> 11, exponent |-> -1],
   [price |-> 50, confidence |-> 30, exponent |-> -1]}

MCListings == <<nvda, "other">>
MCRungs == <<"EOD", "30D">>

(* Two utilization caps and two position caps for each of two authorities; *)
(* of the combinations one is invalid.                                     *)
TwoAuthorities == {a1, a2}
AllLimits ==
  [quoteAuthority : TwoAuthorities, maxUtilizationBps : {4000, 8000},
   maxPositionBps : {2000, 5000}]

maintenanceVars ==
  <<keeperVars, cleanupVars, tableVars, searchVars, bootstrapVars, fillTransactionVars,
    riskVars, script>>

MCInit ==
  /\ script \in Scripts
  /\ script = "cleanup" \/ binding = [q \in Pools |-> [m \in {m1} |-> Unbound]]
  /\ script = "fills" \/ spot = 5
  /\ script = "prints" \/ (readAt = 3 /\ feed = [t \in Seconds |-> Dark])
  /\ \/ script = "limits"
     \/ limits = [quoteAuthority |-> a1, maxUtilizationBps |-> 8000, maxPositionBps |-> 5000]
  /\ KeeperInit
  /\ CleanupInit
  /\ TablesInit
  /\ SearchInit
  /\ BootstrapInit
  /\ FillTransactionInit
  /\ Init

MCNext ==
  \/ /\ script = "keeper"
     /\ KeeperNext
     /\ UNCHANGED <<cleanupVars, tableVars, searchVars, bootstrapVars, fillTransactionVars, riskVars, script>>
  \/ /\ script = "cleanup"
     /\ CleanupNext
     /\ UNCHANGED <<keeperVars, tableVars, searchVars, bootstrapVars, fillTransactionVars, riskVars, script>>
  \/ /\ script = "tables"
     /\ TablesNext
     /\ UNCHANGED <<keeperVars, cleanupVars, searchVars, bootstrapVars, fillTransactionVars, riskVars, script>>
  \/ /\ script = "prints"
     /\ SearchNext
     /\ UNCHANGED <<keeperVars, cleanupVars, tableVars, bootstrapVars, fillTransactionVars, riskVars, script>>
  \/ /\ script = "bootstrap"
     /\ BootstrapNext
     /\ UNCHANGED <<keeperVars, cleanupVars, tableVars, searchVars, fillTransactionVars, riskVars, script>>
  \/ /\ script = "fills"
     /\ FillTransactionNext
     /\ UNCHANGED <<keeperVars, cleanupVars, tableVars, searchVars, bootstrapVars, riskVars, script>>
  \/ /\ script = "limits"
     /\ Next
     /\ UNCHANGED <<keeperVars, cleanupVars, tableVars, searchVars, bootstrapVars, fillTransactionVars,
                    script>>

MCSpec == MCInit /\ [][MCNext]_maintenanceVars
=============================================================================
