---------------------------- MODULE LookupTables ----------------------------
(***************************************************************************)
(* The address lookup table that fill transactions compress their accounts *)
(* with, its rotation (vsol/scripts/create-lookup-table.ts, run by hand)   *)
(* and its retirement (the last part of a pass of vsol/scripts/keeper.ts). *)
(* The two scripts share the deployment manifest, a file each of them reads*)
(* whole, keeps across its transactions and writes back whole, and either  *)
(* may stop between any two steps.  Passes of the keeper may overlap.       *)
(*                                                                         *)
(* The stable addresses every table holds are left out: a table is the set *)
(* of the markets in it.  Listed are the markets the manifest names, which *)
(* bootstrap wrote; the keeper adds the others to the table only.          *)
(***************************************************************************)
EXTENDS Integers, FiniteSets

CONSTANTS
  KeeperPasses,                      \* the keeper's, at once
  Series,                            \* markets
  Listed,                            \* those in the manifest's "markets"
  ExpiryOf,                          \* ExpiryOf[m]
  OBSERVATION_SECONDS,               \* 30 s
  GRACE_SECONDS,                     \* 900 s
  STALENESS_SECONDS,                 \* 86400 s
  ROTATION_ADDRESS_THRESHOLD,
  ALT_DEACTIVATION_COOLDOWN,
  TableCount,                        \* bound on the tables created, for TLC
  LastInstant                        \* bound on the clock (and the slot), for TLC

ASSUME TablesAssumption ==
  /\ IsFiniteSet(Listed) /\ Listed \subseteq Series
  /\ ExpiryOf \in [Series -> Nat]
  /\ {OBSERVATION_SECONDS, GRACE_SECONDS, STALENESS_SECONDS} \subseteq Nat
  /\ {ALT_DEACTIVATION_COOLDOWN, TableCount} \subseteq Nat

(* Of the markets the manifest lists (sdk/index.ts:35-51).                 *)
ASSUME WindowWithinStaleness == OBSERVATION_SECONDS <= STALENESS_SECONDS

VARIABLES
  instant,
  table,                             \* table[t]: on chain
  manifest,                          \* the file
  keeping,                           \* keeping[k]: a pass of the keeper
  rotating,                          \* the rotation
  overwritten                        \* history, see PublishedTableIsAlive

tableVars == <<instant, table, manifest, keeping, rotating, overwritten>>

Tables == 1 .. TableCount
NoTable == 0

Unborn == [status |-> "none", holds |-> {}, since |-> 0]

TablesOf(entries) == {entry.table : entry \in entries}

(* The latest instant a market of the table may still settle at, as the    *)
(* scripts compute it, over the manifest's markets that are not over yet.  *)
marketSettlementDeadline(m) == ExpiryOf[m] + GRACE_SECONDS + STALENESS_SECONDS

(* What the program goes by: from the first instant on, who cannot settle  *)
(* is refunded, and the last-known-price tier may publish until the second.*)
ProgramDeadline(m) == ExpiryOf[m] + OBSERVATION_SECONDS + GRACE_SECONDS
ProgramFinalDeadline(m) == ProgramDeadline(m) + STALENESS_SECONDS

liveMarkets(t) == {m \in Listed : ExpiryOf[m] > t}

latestLiveMarketOutliveDeadline_AtExpiry(t) ==
  IF liveMarkets(t) = {} THEN t ELSE LET due == {ExpiryOf[m] : m \in liveMarkets(t)} IN
                                       CHOOSE d \in due : \A e \in due : e <= d \* mutant: forgets the settlement

latestLiveMarketOutliveDeadline(t) ==
  IF liveMarkets(t) = {} THEN t ELSE LET due == {marketSettlementDeadline(m) : m \in liveMarkets(t)} IN
                                       CHOOSE d \in due : \A e \in due : e <= d

shouldRotateLookupTable(holds) == Cardinality(holds) >= ROTATION_ADDRESS_THRESHOLD

isLookupTableSafeToDeactivate(entry, t) == t > entry.outlive

isLookupTableReadyToClose(since, slot) == slot >= since + ALT_DEACTIVATION_COOLDOWN

Create(t) == table[t].status = "none" /\ \A u \in Tables : u < t => table[u].status # "none"

TimePasses ==
  /\ instant < LastInstant
  /\ instant' = instant + 1
  /\ UNCHANGED <<table, manifest, keeping, rotating, overwritten>>

-----------------------------------------------------------------------------
(* A keeper pass: the active table is read first, used for every market it *)
(* creates, and the manifest is read again for the retiring tables.        *)

NotKeeping == [at |-> "idle", active |-> NoTable, file |-> [active |-> NoTable, retiring |-> {}],
               todo |-> {}, remaining |-> {}, overtaken |-> FALSE]

readAddressLookupTable(k) ==
  /\ keeping[k].at = "idle"
  /\ keeping' = [keeping EXCEPT ![k] = [NotKeeping EXCEPT !.at = "extend", !.active = manifest.active]]
  /\ UNCHANGED <<instant, table, manifest, rotating, overwritten>>

(* Only an active table can be extended; anything else is a warning.       *)
extendLookupTableWithMarket(k, m) ==
  LET active == keeping[k].active IN
    /\ keeping[k].at = "extend"
    /\ active # NoTable
    /\ ExpiryOf[m] > instant
    /\ table[active].status = "active"
    /\ m \notin table[active].holds
    /\ table' = [table EXCEPT ![active].holds = @ \cup {m}]
    /\ UNCHANGED <<instant, manifest, keeping, rotating, overwritten>>

(* (History: a pass that holds an older file is overtaken by one that finds*)
(* the table it names as the active one among those to retire.)            *)
ReadRetiring(k) ==
  /\ keeping[k].at = "extend"
  /\ keeping' = [j \in KeeperPasses |->
       IF j = k THEN [keeping[k] EXCEPT !.at = "retire", !.file = manifest,
                                        !.todo = manifest.retiring]
       ELSE [keeping[j] EXCEPT !.overtaken = @ \/ keeping[j].file.active \in TablesOf(manifest.retiring)]]
  /\ UNCHANGED <<instant, table, manifest, rotating, overwritten>>

Keep(k, entry) ==
  keeping' = [keeping EXCEPT ![k].todo = @ \ {entry}, ![k].remaining = @ \cup {entry}]
Drop(k, entry) == keeping' = [keeping EXCEPT ![k].todo = @ \ {entry}]

processRetiringLookupTable(k, entry) ==
  LET t == entry.table IN
    /\ keeping[k].at = "retire"
    /\ entry \in keeping[k].todo
    /\ \/ /\ table[t].status = "closed"
          /\ Drop(k, entry)
          /\ UNCHANGED table
       \/ /\ table[t].status = "active"
          /\ isLookupTableSafeToDeactivate(entry, instant)
          /\ table' = [table EXCEPT ![t].status = "deactivated", ![t].since = instant]
          /\ Keep(k, entry)
       \/ /\ table[t].status = "deactivated"
          /\ isLookupTableReadyToClose(table[t].since, instant)
          /\ table' = [table EXCEPT ![t].status = "closed", ![t].holds = {}]
          /\ Drop(k, entry)
       \/ /\ table[t].status # "closed"          \* too early, or a call failed
          /\ Keep(k, entry)
          /\ UNCHANGED table
    /\ UNCHANGED <<instant, manifest, rotating, overwritten>>

WriteRetiring(k) ==
  LET writes == keeping[k].remaining # keeping[k].file.retiring IN
    /\ keeping[k].at = "retire" /\ keeping[k].todo = {}
    /\ manifest' = IF writes
                     THEN [keeping[k].file EXCEPT !.retiring = keeping[k].remaining] ELSE manifest
    /\ overwritten' = IF writes /\ keeping[k].overtaken
                        THEN overwritten \cup {keeping[k].file.active} ELSE overwritten
    /\ keeping' = [keeping EXCEPT ![k] = NotKeeping]
    /\ UNCHANGED <<instant, table, rotating>>

-----------------------------------------------------------------------------
(* create-lookup-table.ts.                                                 *)

NotRotating == [at |-> "idle", file |-> [active |-> NoTable, retiring |-> {}],
                table |-> NoTable, seeds |-> {}, entries |-> {}]

BeginRotation_RecordedFirst ==
  /\ rotating.at = "idle"
  /\ manifest.active # NoTable => shouldRotateLookupTable(table[manifest.active].holds)
  /\ LET entries == IF manifest.active = NoTable THEN {}
                    ELSE {[table |-> manifest.active, retiredAt |-> instant,
                           outlive |-> latestLiveMarketOutliveDeadline(instant)]} IN
       /\ manifest' = [manifest EXCEPT !.retiring = @ \cup entries]
       /\ rotating' = [NotRotating EXCEPT !.at = "create", !.file = manifest',
                         !.seeds = liveMarkets(instant)]
  /\ UNCHANGED <<instant, table, keeping, overwritten>> \* mutant: retires the old table before there is a new one

BeginRotation ==
  /\ rotating.at = "idle"
  /\ IF manifest.active = NoTable
       THEN rotating' = [NotRotating EXCEPT !.at = "create", !.file = manifest]
       ELSE /\ table[manifest.active].status # "closed"
            /\ shouldRotateLookupTable(table[manifest.active].holds)
            /\ rotating' = [NotRotating EXCEPT !.at = "create", !.file = manifest,
                 !.seeds = liveMarkets(instant),
                 !.entries = {[table |-> manifest.active, retiredAt |-> instant,
                               outlive |-> latestLiveMarketOutliveDeadline(instant)]}]
  /\ UNCHANGED <<instant, table, manifest, keeping, overwritten>>

CreateTable(t) ==
  /\ rotating.at = "create"
  /\ Create(t)
  /\ table' = [table EXCEPT ![t].status = "active"]
  /\ rotating' = [rotating EXCEPT !.at = "extend", !.table = t]
  /\ UNCHANGED <<instant, manifest, keeping, overwritten>>

ExtendInChunks ==
  /\ rotating.at = "extend"
  /\ table' = [table EXCEPT ![rotating.table].holds = @ \cup rotating.seeds]
  /\ rotating' = [rotating EXCEPT !.at = "write"]
  /\ UNCHANGED <<instant, manifest, keeping, overwritten>>

WriteRotation ==
  /\ rotating.at = "write"
  /\ manifest' = [active |-> rotating.table,
                  retiring |-> rotating.file.retiring \cup rotating.entries]
  /\ rotating' = NotRotating
  /\ UNCHANGED <<instant, table, keeping, overwritten>>

(* Either script stops: a call throws, the job times out, it is killed.    *)
ScriptStops ==
  /\ \/ \E k \in KeeperPasses :
          keeping[k].at # "idle" /\ keeping' = [keeping EXCEPT ![k] = NotKeeping] /\ UNCHANGED rotating
     \/ rotating.at # "idle" /\ rotating' = NotRotating /\ UNCHANGED keeping
  /\ UNCHANGED <<instant, table, manifest, overwritten>>

-----------------------------------------------------------------------------
TablesInit ==
  /\ instant = 0
  /\ table = [t \in Tables |-> Unborn]
  /\ manifest = [active |-> NoTable, retiring |-> {}]
  /\ keeping = [k \in KeeperPasses |-> NotKeeping]
  /\ rotating = NotRotating
  /\ overwritten = {}

TablesNext ==
  \/ TimePasses
  \/ \E k \in KeeperPasses :
       \/ readAddressLookupTable(k) \/ ReadRetiring(k) \/ WriteRetiring(k)
       \/ \E m \in Series : extendLookupTableWithMarket(k, m)
       \/ \E entry \in keeping[k].todo : processRetiringLookupTable(k, entry)
  \/ BeginRotation \/ ExtendInChunks \/ WriteRotation
  \/ \E t \in Tables : CreateTable(t)
  \/ ScriptStops

TablesSpec == TablesInit /\ [][TablesNext]_tableVars

-----------------------------------------------------------------------------
(* The table the manifest publishes can be used: it is never one that has  *)
(* been deactivated or closed, although a pass may write back a manifest it*)
(* read before a rotation and a rotation one it read before a pass, and    *)
(* each may stop halfway.  The exception is a table published again by a   *)
(* pass that another one had overtaken: that one retires what it published *)
(* (keeper.ts:459, 488-495, 521-523).                                      *)
PublishedTableIsAlive ==
  manifest.active \notin overwritten \cup {NoTable} => table[manifest.active].status = "active"

(* Without the exception: overlapping passes do no harm (keeper.ts:61-63), *)
(* and none ever changes which table is published (keeper.ts:452-455).     *)
PassesMayOverlap ==
  manifest.active # NoTable => table[manifest.active].status = "active"

(* A pass deactivates the table of an entry; and the markets it was to wait*)
(* for.                                                                    *)
Deactivated(k, entry) ==
  /\ entry \notin keeping'[k].todo
  /\ table[entry.table].status = "active"
  /\ table'[entry.table].status = "deactivated"

Served(entry) == {m \in Listed \cap table[entry.table].holds : ExpiryOf[m] > entry.retiredAt}

(* A table is not deactivated while tier 1 may still settle a market of the*)
(* manifest that it held and that was live when it was replaced, nor closed*)
(* before its cooldown.  The script's deadline leaves out the observation  *)
(* window, and the staleness it adds makes up for that.  (A market that had*)
(* just expired at the rotation is not waited for, nor is one the manifest *)
(* does not name.)                                                         *)
TablesOutliveTheirMarkets ==
  [][/\ \A k \in KeeperPasses : \A entry \in keeping[k].todo :
          Deactivated(k, entry) => \A m \in Served(entry) : instant > ProgramDeadline(m)
     /\ \A t \in Tables :
          table[t].status # "closed" /\ table'[t].status = "closed" =>
            /\ table[t].status = "deactivated"
            /\ instant >= table[t].since + ALT_DEACTIVATION_COOLDOWN]_tableVars

(* Nor while any settlement of it could still land: the script's deadline  *)
(* is "the latest instant its onchain settlement could still land"         *)
(* (lookup-table.ts:147-150).                                              *)
TablesOutliveSettlements ==
  [][\A k \in KeeperPasses : \A entry \in keeping[k].todo :
       Deactivated(k, entry) => \A m \in Served(entry) : instant > ProgramFinalDeadline(m)]_tableVars
=============================================================================
