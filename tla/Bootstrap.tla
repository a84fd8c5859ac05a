------------------------------ MODULE Bootstrap -----------------------------
(***************************************************************************)
(* vsol/scripts/bootstrap.ts: lists the catalog, funds and authorizes the  *)
(* main pool, publishes a manifest of that, tries the whole life of a      *)
(* position on markets and a pool of its own, and publishes the manifest   *)
(* again with the outcome.  Any call may fail, which ends the run; the     *)
(* operator starts another, hours or days later, on whatever is there.     *)
(*                                                                         *)
(* A market is [symbol, rung, day, strike].  The oracle runner publishes,  *)
(* the cranker settles and refunds whatever they find meanwhile.  No       *)
(* market is old enough to be closed within the runs modelled.             *)
(***************************************************************************)
EXTENDS Naturals, Sequences, FiniteSets

CONSTANTS
  listings,          \* the symbols listed, the anchor first
  schedule,          \* the rungs, the anchor's UI market last
  Days,              \* days a run may start on
  LadderStrikes,     \* strikes the price of a symbol may round to
  MAX_ATTEMPTS,      \* sends of one smoke transaction
  MaxRuns

VARIABLES
  deployed,          \* the chain: accounts, markets, the disabled ones, the bound ones
  mainPool,          \* how far the main pool is: "none", "empty", "funded"
  smokePositions,    \* smoke positions that are open, with the run that opened them
  opened,            \* history: those that ever were
  smoke,             \* the last run's smoke markets: the clock, the prints, the fills
  published,         \* the manifest on disk
  run,               \* the run: its step and what it has in memory
  runs               \* how many runs were started

bootstrapVars == <<deployed, mainPool, smokePositions, opened, smoke, published, run, runs>>

NoUiMarket == [symbol |-> "none", rung |-> "none", day |-> 0, strike |-> 0]
NoManifest == [markets |-> {}, uiMarket |-> NoUiMarket, smokeStatus |-> "none", by |-> 0]
Stopped == [at |-> "stopped"]

\* Two markets of one expiry, only one of which will get a print, and a fresh pool.
NewSmoke == [clock |-> "trading", print |-> "none", refundPrint |-> FALSE, filled |-> {}]
SmokeExpired == smoke.clock # "trading"

BootstrapInit ==
  /\ deployed = [accounts |-> {}, markets |-> {}, disabled |-> {}, bound |-> {}]
  /\ mainPool = "none"
  /\ smokePositions = {} /\ opened = {}
  /\ smoke = NewSmoke
  /\ published = NoManifest
  /\ run = Stopped
  /\ runs = 0

Goto(step) == run' = [run EXCEPT !.at = step]
At(step) == run.at = step

\* The previous manifest and the keys on disk are read.
Start ==
  /\ run = Stopped /\ runs < MaxRuns
  /\ runs' = runs + 1
  /\ \E day \in Days :
       run' = [at |-> "funds", day |-> day, previous |-> published.uiMarket, listing |-> 1, rung |-> 1,
               strike |-> 0, catalog |-> {}, attempt |-> 1]
  /\ smoke' = NewSmoke
  /\ UNCHANGED <<deployed, mainPool, smokePositions, opened, published>>

\* Whatever fails outside the catalog's loop ends the run.
Throw ==
  /\ run # Stopped
  /\ run' = Stopped
  /\ UNCHANGED <<deployed, mainPool, smokePositions, opened, smoke, published, runs>>

\* Whatever an earlier run made, with the keys on disk, is used as it is.
Ensure(step, accounts, next) ==
  /\ At(step)
  /\ deployed' = [deployed EXCEPT !.accounts = @ \union {accounts}]
  /\ Goto(next)
  /\ UNCHANGED <<mainPool, smokePositions, opened, smoke, published, runs>>

ensureFunds == Ensure("funds", "funds", "config")
ensureConfig == Ensure("config", "config", "mints")
ensureMint == Ensure("mints", "mints", "balances")
ensureTokenBalance == Ensure("balances", "balances", "price")

-----------------------------------------------------------------------------
(* The catalog: one strike for all rungs of a listing.                     *)

MarketOf(r) == [symbol |-> listings[r.listing], rung |-> schedule[r.rung], day |-> r.day,
                strike |-> r.strike]

NextListing == run' = [run EXCEPT !.at = IF run.listing < Len(listings) THEN "price" ELSE "find",
                                  !.listing = @ + 1, !.rung = 1]

PriceListing ==
  /\ At("price")
  /\ \E strike \in LadderStrikes : run' = [run EXCEPT !.strike = strike, !.at = "create"]
  /\ UNCHANGED <<deployed, mainPool, smokePositions, opened, smoke, published, runs>>

\* A market that exists is used as it is.
createMarket ==
  LET m == MarketOf(run)
  IN /\ At("create")
     /\ deployed' = [deployed EXCEPT !.markets = @ \union {m}]
     /\ run' = IF run.rung < Len(schedule)
               THEN [run EXCEPT !.catalog = @ \union {m}, !.rung = @ + 1]
               ELSE [run EXCEPT !.catalog = @ \union {m}, !.listing = @ + 1, !.rung = 1,
                                !.at = IF run.listing < Len(listings) THEN "price" ELSE "find"]
     /\ UNCHANGED <<mainPool, smokePositions, opened, smoke, published, runs>>

\* A listing whose price or creation fails is skipped; its markets so far stay.
SkipListing ==
  /\ run.at \in {"price", "create"}
  /\ NextListing
  /\ UNCHANGED <<deployed, mainPool, smokePositions, opened, smoke, published, runs>>

uiSeries == {m \in run.catalog : m.symbol = listings[1] /\ m.rung = schedule[Len(schedule)]}

\* Without the anchor's last rung the run throws.
FindUiMarket ==
  /\ At("find")
  /\ run' = IF uiSeries = {} THEN Stopped ELSE [run EXCEPT !.at = "disable"]
  /\ UNCHANGED <<deployed, mainPool, smokePositions, opened, smoke, published, runs>>

\* The UI market of the previous manifest is disabled unless it is this one.
DisablePrevious ==
  /\ At("disable")
  /\ deployed' = IF run.previous # NoUiMarket /\ run.previous \notin uiSeries
                 THEN [deployed EXCEPT !.disabled = @ \union {run.previous}] ELSE deployed
  /\ Goto("pool")
  /\ UNCHANGED <<mainPool, smokePositions, opened, smoke, published, runs>>

-----------------------------------------------------------------------------
(* The main pool.                                                          *)

ensureLiquidityPool ==
  /\ At("pool")
  /\ mainPool' = IF mainPool = "none" THEN "empty" ELSE mainPool
  /\ Goto("deposit")
  /\ UNCHANGED <<deployed, smokePositions, opened, smoke, published, runs>>

\* The vault is topped up to its target; a busy pool takes no deposit
\* (the call then throws, like any other).
DepositToTarget ==
  /\ At("deposit")
  /\ mainPool' = "funded"
  /\ Goto("authorize")
  /\ UNCHANGED <<deployed, smokePositions, opened, smoke, published, runs>>

\* One market after the other; one the guardian or a run disabled is refused.
authorizePoolMarket ==
  /\ At("authorize")
  /\ \E m \in run.catalog \ deployed.bound :
       /\ m \notin deployed.disabled
       /\ deployed' = [deployed EXCEPT !.bound = @ \union {m}]
  /\ UNCHANGED <<mainPool, smokePositions, opened, smoke, published, run, runs>>

Manifest(smokeStatus) ==
  [markets |-> run.catalog, uiMarket |-> CHOOSE m \in uiSeries : TRUE,
   smokeStatus |-> smokeStatus, by |-> runs]

WriteManifest_Once ==
  /\ At("authorize") /\ run.catalog \subseteq deployed.bound
  /\ \/ published' = Manifest("skipped") /\ run' = Stopped
     \/ published' = Manifest("passed") /\ Goto("smoke")
  /\ UNCHANGED <<deployed, mainPool, smokePositions, opened, smoke, runs>> \* mutant: the outcome ahead of the evidence

\* Phase 1: the manifest of what is deployed, with no smoke outcome.
WriteManifest ==
  /\ At("authorize") /\ run.catalog \subseteq deployed.bound
  /\ \/ published' = Manifest("skipped") /\ run' = Stopped
     \/ published' = Manifest("not-run") /\ Goto("smoke")
  /\ UNCHANGED <<deployed, mainPool, smokePositions, opened, smoke, runs>>

-----------------------------------------------------------------------------
(* The smoke lifecycle, on markets and a pool made for it.                 *)

Position(name) == [name |-> name, by |-> runs]
IsOpen(name) == Position(name) \in smokePositions

CreateSmoke ==
  /\ At("smoke")
  /\ smoke' = NewSmoke
  /\ Goto("success fill")
  /\ UNCHANGED <<deployed, mainPool, smokePositions, opened, published, runs>>

\* A send is confirmed, fails in a way that is retried, or ends the run; one
\* that failed may have landed, and the program refuses it the second time.
sendAndConfirmWithRetry(step, refused, landed, filled, next) ==
  /\ At(step) /\ ~refused
  /\ \/ /\ smokePositions' = landed /\ opened' = opened \union landed
        /\ smoke' = [smoke EXCEPT !.filled = filled]
        /\ \/ run' = [run EXCEPT !.at = next, !.attempt = 1]
           \/ run' = [run EXCEPT !.attempt = @ + 1] /\ run.attempt < MAX_ATTEMPTS
           \/ run' = Stopped
     \/ /\ run.attempt < MAX_ATTEMPTS
        /\ run' = [run EXCEPT !.attempt = @ + 1]
        /\ UNCHANGED <<smokePositions, opened, smoke>>
  /\ UNCHANGED <<deployed, mainPool, published, runs>>

\* The nonce record of a fill outlives the position.
FillSmoke(name, step, next) ==
  sendAndConfirmWithRetry(step, name \in smoke.filled \/ (name # "early" /\ SmokeExpired),
    smokePositions \union {Position(name)}, smoke.filled \union {name}, next)

Fills ==
  \/ FillSmoke("success", "success fill", "refund fill")
  \/ FillSmoke("refund", "refund fill", "replay")

\* The first fill again, not retried, must fail, for whatever reason.
ReplayRejected ==
  /\ At("replay")
  /\ "success" \in smoke.filled
  /\ Goto("publish")
  /\ UNCHANGED <<deployed, mainPool, smokePositions, opened, smoke, published, runs>>

\* After the expiry, from the first update Pyth has of it; a market has one print.
publishPythSettlement ==
  /\ At("publish") /\ SmokeExpired
  /\ smoke.print = "none"
  /\ smoke' = [smoke EXCEPT !.print = "own"]
  /\ Goto("settle")
  /\ UNCHANGED <<deployed, mainPool, smokePositions, opened, published, runs>>

\* Settled or refunded by this run; the position's accounts must be gone.
ResolveSmoke(name, step, next) ==
  /\ At(step) /\ IsOpen(name)
  /\ smokePositions' = smokePositions \ {Position(name)}
  /\ Goto(next)
  /\ UNCHANGED <<opened, deployed, mainPool, smoke, published, runs>>

Resolutions ==
  \/ smoke.print # "none" /\ ResolveSmoke("success", "settle", "refund")
  \/ /\ smoke.clock = "refundable" /\ ~smoke.refundPrint
     /\ ResolveSmoke("refund", "refund", "obligations")

\* No position of the smoke pool is left, and its balance is what this run's
\* print makes of it.
CheckObligations ==
  /\ At("obligations")
  /\ \A p \in smokePositions : p.by # runs
  /\ smoke.print = "own"
  /\ Goto("early fill")
  /\ UNCHANGED <<deployed, mainPool, smokePositions, opened, smoke, published, runs>>

\* A third market, further away; its position is bought back before its expiry.
EarlyClose ==
  \/ FillSmoke("early", "early fill", "early close")
  \/ sendAndConfirmWithRetry("early close", ~IsOpen("early"),
       smokePositions \ {Position("early")}, smoke.filled, "withdraw")

\* The provider withdraws everything: refused while a position is open.
WithdrawSmoke ==
  /\ At("withdraw")
  /\ \A p \in smokePositions : p.by # runs
  /\ Goto("evidence")
  /\ UNCHANGED <<deployed, mainPool, smokePositions, opened, smoke, published, runs>>

\* Phase 2: the same manifest again, with the evidence.
WriteEvidence ==
  /\ At("evidence")
  /\ published' = Manifest("passed")
  /\ run' = Stopped
  /\ UNCHANGED <<deployed, mainPool, smokePositions, opened, smoke, runs>>

-----------------------------------------------------------------------------
(* Time and everyone else.                                                 *)

SmokeRuns == run # Stopped /\ smoke.filled # {} /\ run.at \notin {"withdraw", "evidence"}

\* Time is told by the smoke markets, and only while a run looks at them.
SmokeTime ==
  /\ SmokeRuns /\ smoke.clock # "refundable"
  /\ smoke' = [smoke EXCEPT !.clock = IF @ = "trading" THEN "observing" ELSE "refundable"]
  /\ UNCHANGED <<deployed, mainPool, smokePositions, opened, published, run, runs>>

\* The refund market's window is over when its refunds begin.
RunnerPublishes ==
  /\ SmokeRuns /\ SmokeExpired
  /\ \/ smoke.print = "none" /\ smoke' = [smoke EXCEPT !.print = "runner"]
     \/ /\ smoke.clock = "observing" /\ ~smoke.refundPrint
        /\ smoke' = [smoke EXCEPT !.refundPrint = TRUE]
  /\ UNCHANGED <<deployed, mainPool, smokePositions, opened, published, run, runs>>

\* The positions of a run that is over, and of this one when they are due.
CrankerDue(p) ==
  \/ run = Stopped
  \/ p.by = runs /\ p.name = "success" /\ smoke.print # "none"
  \/ p.by = runs /\ p.name = "refund" /\ (smoke.refundPrint \/ smoke.clock = "refundable")

CrankerResolves ==
  /\ \E p \in smokePositions : CrankerDue(p) /\ smokePositions' = smokePositions \ {p}
  /\ UNCHANGED <<opened, deployed, mainPool, smoke, published, run, runs>>

BootstrapNext ==
  \/ Start \/ Throw
  \/ ensureFunds \/ ensureConfig \/ ensureMint \/ ensureTokenBalance
  \/ PriceListing \/ createMarket \/ SkipListing \/ FindUiMarket \/ DisablePrevious
  \/ ensureLiquidityPool \/ DepositToTarget \/ authorizePoolMarket \/ WriteManifest
  \/ CreateSmoke \/ Fills \/ ReplayRejected \/ publishPythSettlement \/ Resolutions
  \/ CheckObligations \/ EarlyClose \/ WithdrawSmoke \/ WriteEvidence
  \/ SmokeTime \/ RunnerPublishes \/ CrankerResolves

BootstrapSpec == BootstrapInit /\ [][BootstrapNext]_bootstrapVars

-----------------------------------------------------------------------------
(* Whenever a run stops, and however many times it is started, the manifest*)
(* on disk is of a deployment that is there (bootstrap.ts:1004-1011): its  *)
(* markets are listed and authorized, the anchor's UI market is among them;*)
(* one that says "passed" was written by a run that opened all three smoke *)
(* positions and left none of them open.                                   *)
ManifestIsBacked ==
  published # NoManifest =>
    /\ published.markets \subseteq deployed.markets \intersect deployed.bound
    /\ published.uiMarket \in published.markets
    /\ mainPool = "funded" /\ deployed.accounts = {"funds", "config", "mints", "balances"}
    /\ published.smokeStatus = "passed" =>
         /\ \A name \in {"success", "refund", "early"} : [name |-> name, by |-> published.by] \in opened
         /\ \A p \in smokePositions : p.by # published.by
=============================================================================
