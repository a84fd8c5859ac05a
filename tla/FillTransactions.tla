-------------------------- MODULE FillTransactions --------------------------
(***************************************************************************)
(* The transaction a buyer signs: composed with the quote                  *)
(* (buildVsolQuoteTransaction), and resolved and inspected by the instance *)
(* it is sent to, which knows it by nothing but its bytes                  *)
(* (resolveSignedVsolFillTransaction, inspectVsolFillTransaction).         *)
(*                                                                         *)
(* Between the two the price moves, series are listed and end, the grid    *)
(* rolls on, the lookup table is extended, rotated and closed, and         *)
(* instances are replaced by later builds, which carry a later manifest.     *)
(* A compressed transaction names its market by a place in a table, as the *)
(* composer's copy had it.                                                 *)
(*                                                                         *)
(* The composer's own fill is two instructions and never needs the table;  *)
(* that it might is kept (LegacyFits), and so is the four-instruction form *)
(* of earlier releases, which the inspection still takes.                  *)
(***************************************************************************)
EXTENDS SeriesSlots, Sequences

CONSTANTS
  Instances,
  LegacyFits,        \* whether a fill may fit the packet without a table
  LastTable,         \* bound on the tables
  MaxTableLength     \* bound on the addresses looked at

ASSUME FillTransactionAssumption == LastTable \in Nat \ {0}

VARIABLES
  deployment,        \* the deployment manifest: its release and its tables
  tables,            \* the tables on chain
  server,            \* per instance: the manifest built in
  fill               \* the transaction

fillTransactionVars == <<gridTime, symbol, chain, spot, catalog, changes, deployment, tables, server, fill>>

FillTables == 1..LastTable
Uncompressed == 0
Missing == [alive |-> FALSE, holds |-> <<>>]
NoFill == [at |-> "none"]
Refused == [expiry |-> 0, strike |-> 0]

TransactionInit ==
  /\ deployment = [release |-> 1, current |-> 1, retiring |-> {}]
  /\ tables = [t \in FillTables |-> IF t = 1 THEN [alive |-> TRUE, holds |-> <<>>] ELSE Missing]
  /\ server = [i \in Instances |-> deployment]
  /\ fill = NoFill

FillTransactionInit == SlotsInit /\ TransactionInit

\* getVsolAddressLookupTableAccount: a read may fail, and a copy is kept for a
\* while, so it is what the table held then; a table only grows.
Copies(t) ==
  IF t = Uncompressed THEN {Missing}
  ELSE {Missing} \union
         {[alive |-> TRUE, holds |-> SubSeq(tables[t].holds, 1, n)] : n \in 0..Len(tables[t].holds)}

-----------------------------------------------------------------------------
(* Composing.                                                              *)

\* Where a copy of a table has a market; 0 when it does not.
PlaceOf(m, copy) ==
  IF \E n \in DOMAIN copy.holds : copy.holds[n] = m
  THEN CHOOSE n \in DOMAIN copy.holds : copy.holds[n] = m
  ELSE 0

FillShape == <<"ed25519", "fill_pool_quote">>
MintAndFillShape == <<"create_market", "set_liquidity_pool_market">> \o FillShape

\* The accounts derived from the market and the quote's nonce.
fillAccounts(m) == [market |-> m, pool_market |-> <<m>>, position |-> <<"nonce">>]

\* What the buyer signs; "create_market" is its market, which only the longer
\* form creates.  With a table the market's account is a place in it, if it is there at all.
composeVsolFillTransaction(i, m, code, shape, table, copy) ==
  [at |-> "composed", shape |-> shape, table |-> table, place |-> PlaceOf(m, copy),
   accounts |-> fillAccounts(m), create_market |-> m,
   last_trade_at |-> deriveLaunchSeriesParams(code, gridTime).lastTradeAt,
   release |-> server[i].release, seen |-> Len(copy.holds)]

\* The series is listed and open by now.  Only a fill too long for a packet is
\* compressed, with the current table; without one the quote fails.
buildVsolQuoteTransaction(i, code) ==
  \E quoted \in {getVsolSeriesStateOrPlan(code)} :
     /\ fill = NoFill
     /\ quoted.available /\ quoted.series \in DOMAIN chain
     /\ chain[quoted.series].binding # Absent
     /\ \/ /\ TRUE \in LegacyFits
           /\ fill' = composeVsolFillTransaction(i, quoted.series, code, FillShape, Uncompressed, Missing)
        \/ /\ FALSE \in LegacyFits
           /\ \E copy \in Copies(server[i].current) :
                /\ copy.alive
                /\ fill' = composeVsolFillTransaction(i, quoted.series, code, FillShape,
                                                      server[i].current, copy)
     /\ UNCHANGED <<gridTime, symbol, chain, spot, catalog, changes, deployment, tables, server>>

\* An earlier release: the buyer lists the planned series in the same go.
ComposeMintAndFill(i, code) ==
  \E planned \in {resolveOrPlan(code, DOMAIN chain, spot, gridTime)} :
     /\ fill = NoFill
     /\ planned.kind = "planned"
     /\ fill' = composeVsolFillTransaction(i, planned.series, code, MintAndFillShape, Uncompressed, Missing)
     /\ UNCHANGED <<gridTime, symbol, chain, spot, catalog, changes, deployment, tables, server>>

\* The wallet signs what it was given, or adds an instruction of its own first.
Sign ==
  /\ fill.at = "composed"
  /\ fill' \in {[fill EXCEPT !.at = "signed"],
                [fill EXCEPT !.at = "signed", !.shape = <<"compute_budget">> \o @]}
  /\ UNCHANGED <<gridTime, symbol, chain, spot, catalog, changes, deployment, tables, server>>

-----------------------------------------------------------------------------
(* Resolving and inspecting.                                               *)

trustedLookupTables_Current(i) == {server[i].current} \* mutant: forgets the retiring ones

trustedLookupTables(i) == {server[i].current} \union server[i].retiring

verifySignatures == fill.at = "signed"

\* The accounts the transaction names; "copy" is what is read of its table.
resolveSignedVsolFillTransaction(i, copy) ==
  LET isLegacy == fill.table = Uncompressed
      isResolvable == fill.table \in trustedLookupTables(i) /\ copy.alive
  IN CASE verifySignatures /\ (isLegacy \/ (isResolvable /\ fill.place = 0)) -> fill.accounts
       [] verifySignatures /\ isResolvable /\ fill.place \in DOMAIN copy.holds ->
            [fill.accounts EXCEPT !.market = copy.holds[fill.place]]
       [] OTHER -> fillAccounts(Refused)

isVsolFillTransaction == fill.shape = FillShape
isVsolMintAndFillTransaction == fill.shape = MintAndFillShape

\* Every strike listed in a slot of the grid as it is now.
gridNow == {deriveLaunchSeriesParams(code, gridTime) : code \in Codes}

resolveAvailableVsolSeries ==
  {m \in DOMAIN chain : \E params \in gridNow : matchesSlot(m, params)}

\* The listings the server itself would make now.
SeriesCandidates ==
  IF spot = Unavailable THEN {}
  ELSE {deriveVsolSeriesCandidate(params, ladderStrike(spot)) :
          params \in {p \in gridNow : p.valid}}

\* The accounts are those of the verified series.
verifyFillInstruction(accounts, m) == accounts = fillAccounts(m)

verifyCreateMarketInstruction(m) == fill.create_market = m

verifyAuthorizeMarketInstruction(m) ==
  \E params \in gridNow :
    params.expiry = m.expiry /\ params.lastTradeAt = fill.last_trade_at

inspectVsolFillTransaction(accounts) ==
  LET m == accounts.market
  IN \/ /\ isVsolFillTransaction
        /\ m \in resolveAvailableVsolSeries
        /\ verifyFillInstruction(accounts, m)
     \/ /\ isVsolMintAndFillTransaction
        /\ m \in resolveAvailableVsolSeries \union SeriesCandidates
        /\ verifyCreateMarketInstruction(m)
        /\ verifyAuthorizeMarketInstruction(m)
        /\ verifyFillInstruction(accounts, m)

accepts(i, copy) == inspectVsolFillTransaction(resolveSignedVsolFillTransaction(i, copy))

\* The transaction is sent to an instance, and taken; what follows its
\* acceptance is not of this module.
Submit(i) ==
  /\ fill # NoFill
  /\ \E copy \in Copies(fill.table) : accepts(i, copy)
  /\ fill' = NoFill
  /\ UNCHANGED <<gridTime, symbol, chain, spot, catalog, changes, deployment, tables, server>>

-----------------------------------------------------------------------------
(* The tables and the builds.                                              *)

\* Another build is deployed to an instance, with the manifest of that time.
Deploy(i) ==
  /\ server[i] # deployment
  /\ server' = [server EXCEPT ![i] = deployment]
  /\ UNCHANGED <<gridTime, symbol, chain, spot, catalog, changes, deployment, tables, fill>>

\* The keeper appends the markets it has listed to the current table.
Extend(m) ==
  LET t == deployment.current
  IN /\ chain[m].binding # Absent
     /\ Len(tables[t].holds) < MaxTableLength
     /\ PlaceOf(m, tables[t]) = 0
     /\ tables' = [tables EXCEPT ![t].holds = Append(@, m)]
     /\ UNCHANGED <<gridTime, symbol, chain, spot, catalog, changes, deployment, server, fill>>

Rotate ==
  LET t == deployment.current + 1
  IN /\ t \in FillTables
     /\ tables' = [tables EXCEPT ![t] = [alive |-> TRUE, holds |-> <<>>]]
     /\ deployment' = [release |-> deployment.release + 1, current |-> t,
                     retiring |-> deployment.retiring \union {deployment.current}]
     /\ UNCHANGED <<gridTime, symbol, chain, spot, catalog, changes, server, fill>>

CloseTable(t) ==
  /\ t \in deployment.retiring
  /\ tables' = [tables EXCEPT ![t].alive = FALSE]
  /\ deployment' = [deployment EXCEPT !.retiring = @ \ {t}, !.release = @ + 1]
  /\ UNCHANGED <<gridTime, symbol, chain, spot, catalog, changes, server, fill>>

FillTransactionNext ==
  \/ (GridTick \/ SpotMoves) /\ UNCHANGED <<deployment, tables, server, fill>>
  \/ /\ \/ \E code \in Codes, strike \in Strikes : ListMarket(code, strike)
        \/ \E m \in DOMAIN chain : BindMarket(m) \/ EndMarket(m)
     /\ UNCHANGED <<deployment, tables, server, fill>>
  \/ Sign \/ Rotate
  \/ \E i \in Instances :
       \/ Submit(i) \/ Deploy(i)
       \/ \E code \in Codes : buildVsolQuoteTransaction(i, code) \/ ComposeMintAndFill(i, code)
  \/ \E m \in DOMAIN chain : Extend(m)
  \/ \E t \in FillTables : CloseTable(t)

FillTransactionSpec == FillTransactionInit /\ [][FillTransactionNext]_fillTransactionVars

-----------------------------------------------------------------------------
(* A fill signed as it was composed is accepted as long as its market is   *)
(* in the grid (listed, or for the four-instruction form still where, and  *)
(* with the cutoff with which, the server would list: an expiry first sold *)
(* as the thirty-day one changes its cutoff on its way to the end of day), *)
(* its table is alive, and the instance knows no less than the one that    *)
(* composed it: neither an older manifest nor an older copy of the table   *)
(* (vsol-server.ts:1929-1935, :1843-1846; series-resolver.ts:331-343).  A  *)
(* move of the price, another strike, a rotation or a new build refuse     *)
(* none.  And whatever is accepted is for that market, and was not added   *)
(* to.                                                                     *)
SignedFillsAreRecognized ==
  fill # NoFill =>
    \A i \in Instances, copy \in Copies(fill.table) :
      LET m == fill.create_market
          unchanged == fill.shape \in {FillShape, MintAndFillShape}
          inGrid == \E params \in gridNow : matchesSlot(m, params)
          wouldBeListed == spot # Unavailable /\ ladderStrike(spot) = m.strike
          sameCutoff == \E params \in gridNow :
                          matchesSlot(m, params) /\ params.lastTradeAt = fill.last_trade_at
          accepted == accepts(i, copy)
      IN /\ /\ fill.at = "signed" /\ unchanged /\ inGrid
            /\ m \in DOMAIN chain \/ (fill.shape = MintAndFillShape /\ wouldBeListed)
            /\ fill.shape = MintAndFillShape => sameCutoff
            /\ fill.table # Uncompressed =>
                 /\ server[i].release >= fill.release /\ tables[fill.table].alive
                 /\ copy.alive
                 /\ Len(copy.holds) >= fill.seen
            => accepted
         /\ accepted => /\ fill.at = "signed" /\ unchanged /\ inGrid
                        /\ resolveSignedVsolFillTransaction(i, copy).market = m
=============================================================================
