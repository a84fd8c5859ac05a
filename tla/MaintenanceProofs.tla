------------------------- MODULE MaintenanceProofs --------------------------
(***************************************************************************)
(* The scripts that maintain the deployment, each a specification of its   *)
(* own: the lookup tables, the cleanup of markets, the bootstrap, the      *)
(* search for a settlement print, the transactions composed with what they *)
(* maintain, the connection all of them send and confirm through, and last *)
(* the market keeper.  Every safety property of theirs holds for any number*)
(* of actors, pools, markets, endpoints, runs and restarts, and any        *)
(* durations, from an invariant that says what each of them remembers of   *)
(* what it has read.                                                       *)
(***************************************************************************)
EXTENDS
  MarketKeeper, MarketCleanup, LookupTables, PrintSearch, Bootstrap, FillTransactions,
  RpcFailover, VsolMathProofs, SequenceTheorems, FiniteSetTheorems, WellFoundedInduction, TLAPS

-----------------------------------------------------------------------------
(* The lookup tables.                                                      *)

(* A finite set of naturals has a greatest: the member that the fewest     *)
(* others exceed.                                                          *)
LEMMA GreatestNatural ==
  ASSUME NEW S \in SUBSET Nat, IsFiniteSet(S), S # {}
  PROVE  \E d \in S : \A e \in S : e <= d
<1>. DEFINE above(d) == {e \in S : e > d}
            T == {Cardinality(above(d)) : d \in S}
<1>1. ASSUME NEW d \in S PROVE IsFiniteSet(above(d)) /\ Cardinality(above(d)) \in Nat
  <2>1. above(d) \subseteq S OBVIOUS
  <2>2. IsFiniteSet(above(d)) BY <2>1, FS_Subset
  <2>. QED BY <2>2, FS_CardinalityType
<1>2. T \in SUBSET Nat /\ T # {} BY <1>1
<1>3. PICK x \in T : \A y \in T : x <= y
  <2>. HIDE DEF T
  <2>. QED BY <1>2, LeastNatural
<1>4. PICK d \in S : x = Cardinality(above(d)) OBVIOUS
<1>5. ASSUME NEW e \in S PROVE e <= d
  <2>1. SUFFICES ASSUME e > d PROVE FALSE OBVIOUS
  <2>2. above(e) \subseteq above(d) /\ above(e) # above(d)
    <3>1. S \subseteq Nat OBVIOUS
    <3>2. \A i \in S : i > e => i > d BY <2>1, <3>1
    <3>3. e \in above(d) /\ e \notin above(e) BY <2>1, <3>1
    <3>. QED BY <3>2, <3>3
  <2>3. IsFiniteSet(above(d)) /\ Cardinality(above(d)) \in Nat /\ Cardinality(above(e)) \in Nat BY <1>1
  <2>4. Cardinality(above(e)) < Cardinality(above(d))
    <3>. HIDE DEF above
    <3>. QED BY <2>2, <2>3, FS_Subset
  <2>5. Cardinality(above(d)) <= Cardinality(above(e)) BY <1>3, <1>4
  <2>. HIDE DEF above
  <2>. QED BY <2>3, <2>4, <2>5
<1>. QED BY <1>5

-----------------------------------------------------------------------------
(* The lookup tables and the manifest that two scripts write back whole.   *)

Entry == [table : Tables, retiredAt : Nat, outlive : Nat]
File == [active : Tables \cup {NoTable}, retiring : SUBSET Entry]

PassRecord ==
  [at : {"idle", "extend", "retire"}, active : Tables \cup {NoTable},
   file : File, todo : SUBSET Entry, remaining : SUBSET Entry, overtaken : BOOLEAN]

RotationRecord ==
  [at : {"idle", "create", "extend", "write"}, file : File,
   table : Tables \cup {NoTable}, seeds : SUBSET Series, entries : SUBSET Entry]

TableRecord ==
  [status : {"none", "active", "deactivated", "closed"}, holds : SUBSET Series, since : Nat]

TablesTypeOK ==
  /\ instant \in Nat
  /\ table \in [Tables -> TableRecord]
  /\ manifest \in File
  /\ keeping \in [KeeperPasses -> PassRecord]
  /\ rotating \in RotationRecord
  /\ overwritten \subseteq Tables \cup {NoTable}

(* An entry waits for every market that was live at the rotation.          *)
Patient(entry) ==
  \A m \in Listed : ExpiryOf[m] > entry.retiredAt => marketSettlementDeadline(m) <= entry.outlive

(* What the rotation is about to write, its new table aside.               *)
ToRetire == rotating.file.retiring \cup rotating.entries

(* Every entry in a file, the published one or the copy a script holds, is *)
(* of a table that was created, and waits.                                 *)
SoundEntries(entries, chained) ==
  \A entry \in entries : chained[entry.table].status # "none" /\ Patient(entry)

(* A table a file may publish, given the chain and the tables published    *)
(* again behind the back of a pass: it is alive, and no pass retires it.   *)
Publishable(t, chained, passes_, again) ==
  t \notin again \cup {NoTable} =>
    /\ chained[t].status = "active"
    /\ \A k \in KeeperPasses : t \notin TablesOf(passes_[k].file.retiring)

(* The rotation's new table, from its creation to the manifest.            *)
Fresh(t) ==
  /\ t \in Tables
  /\ table[t].status = "active" /\ t # manifest.active
  /\ t \notin overwritten \cup TablesOf(manifest.retiring) \cup TablesOf(ToRetire)
  /\ \A k \in KeeperPasses : t # keeping[k].file.active /\ t \notin TablesOf(keeping[k].file.retiring)

(* What is published, by the manifest or by the file of a pass that no     *)
(* other has overtaken, is on no pass's list and not on its own.           *)
TablesInv ==
  /\ TablesTypeOK
  /\ SoundEntries(manifest.retiring, table) /\ SoundEntries(ToRetire, table)
  /\ \A k \in KeeperPasses :
       /\ SoundEntries(keeping[k].file.retiring, table)
       /\ keeping[k].todo \subseteq keeping[k].file.retiring
       /\ keeping[k].remaining \subseteq keeping[k].file.retiring
       /\ keeping[k].at # "retire" => keeping[k].todo = {} /\ keeping[k].remaining = {}
  /\ manifest.active # NoTable => table[manifest.active].status # "none"
  /\ \A k \in KeeperPasses : keeping[k].file.active # NoTable =>
       table[keeping[k].file.active].status # "none"
  /\ \A t \in overwritten \ {NoTable} : table[t].status # "none"
  /\ Publishable(manifest.active, table, keeping, overwritten)
  /\ manifest.active \notin overwritten => manifest.active \notin TablesOf(manifest.retiring)
  /\ \A k \in KeeperPasses : ~keeping[k].overtaken =>
       Publishable(keeping[k].file.active, table, keeping, overwritten)
  /\ rotating.at \in {"extend", "write"} => Fresh(rotating.table)

LEMMA TablesInitInv == TablesInit => TablesInv
BY DEF TablesInit, TablesInv, TablesTypeOK, SoundEntries, TablesOf, File, Entry, Unborn, TableRecord,
   PassRecord, RotationRecord, NotKeeping, NotRotating, NoTable, Tables, Fresh, ToRetire, Publishable

(* The latest deadline is one, and no live market's is later               *)
(* (latestLiveMarketOutliveDeadline).                                      *)
LEMMA OutliveIsPatient ==
  ASSUME NEW t \in Nat
  PROVE  /\ latestLiveMarketOutliveDeadline(t) \in Nat
         /\ \A m \in Listed : ExpiryOf[m] > t =>
              marketSettlementDeadline(m) <= latestLiveMarketOutliveDeadline(t)
<1>. DEFINE due == {marketSettlementDeadline(m) : m \in liveMarkets(t)}
<1>1. CASE liveMarkets(t) = {} BY <1>1 DEF latestLiveMarketOutliveDeadline, liveMarkets
<1>2. CASE liveMarkets(t) # {}
  <2>1. liveMarkets(t) \subseteq Listed /\ IsFiniteSet(liveMarkets(t))
    BY TablesAssumption, FS_Subset DEF liveMarkets
  <2>2. IsFiniteSet(due)
    <3>. DEFINE f == [m \in liveMarkets(t) |-> marketSettlementDeadline(m)]
    <3>1. f \in Surjection(liveMarkets(t), due) BY DEF Surjection
    <3>. HIDE DEF f, due
    <3>. QED BY <2>1, <3>1, FS_Surjection
  <2>3. due \in SUBSET Nat /\ due # {}
    BY <1>2, <2>1, TablesAssumption DEF marketSettlementDeadline
  <2>4. PICK d \in due : \A e \in due : e <= d
    <3>. HIDE DEF due
    <3>. QED BY <2>2, <2>3, GreatestNatural
  <2>5. latestLiveMarketOutliveDeadline(t) = CHOOSE x \in due : \A e \in due : e <= x
    BY <1>2 DEF latestLiveMarketOutliveDeadline
  <2>6. /\ latestLiveMarketOutliveDeadline(t) \in due
        /\ \A e \in due : e <= latestLiveMarketOutliveDeadline(t)
    <3>. HIDE DEF due
    <3>. QED BY <2>4, <2>5
  <2>. QED BY <2>3, <2>6 DEF liveMarkets
<1>. QED BY <1>1, <1>2

(* TypeOK is kept by every step.                                           *)
LEMMA TablesTypeNext == TablesTypeOK /\ [TablesNext]_tableVars => TablesTypeOK'
<1>1. SUFFICES ASSUME TablesTypeOK, [TablesNext]_tableVars PROVE TablesTypeOK' OBVIOUS
<1>. USE <1>1 DEF TablesTypeOK
<1>2. NotKeeping \in PassRecord /\ NotRotating \in RotationRecord
  BY DEF NotKeeping, NotRotating, PassRecord, RotationRecord, File, NoTable
<1>3. CASE TimePasses BY <1>3 DEF TimePasses
<1>4. ASSUME NEW k \in KeeperPasses PROVE keeping[k] \in PassRecord OBVIOUS
<1>5. ASSUME NEW k \in KeeperPasses, readAddressLookupTable(k) PROVE TablesTypeOK'
  <2>1. [NotKeeping EXCEPT !.at = "extend", !.active = manifest.active] \in PassRecord
    BY <1>2 DEF PassRecord, File
  <2>. QED BY <1>5, <2>1 DEF readAddressLookupTable
<1>6. ASSUME NEW k \in KeeperPasses, ReadRetiring(k) PROVE TablesTypeOK'
  <2>1. manifest.retiring \in SUBSET Entry BY DEF File
  <2>2. [keeping[k] EXCEPT !.at = "retire", !.file = manifest, !.todo = manifest.retiring] \in PassRecord
    BY <1>4, <2>1 DEF PassRecord
  <2>3. ASSUME NEW j \in KeeperPasses
        PROVE  [keeping[j] EXCEPT !.overtaken =
                  @ \/ keeping[j].file.active \in TablesOf(manifest.retiring)] \in PassRecord
    <3>. DEFINE o == keeping[j].overtaken \/ keeping[j].file.active \in TablesOf(manifest.retiring)
    <3>1. o \in BOOLEAN BY <1>4 DEF PassRecord
    <3>. HIDE DEF o
    <3>2. [keeping[j] EXCEPT !.overtaken = o] \in PassRecord BY <1>4, <3>1 DEF PassRecord
    <3>. QED BY <3>2 DEF o
  <2>4. keeping' \in [KeeperPasses -> PassRecord] BY <1>6, <2>2, <2>3 DEF ReadRetiring
  <2>. QED BY <1>6, <2>4 DEF ReadRetiring
<1>7. ASSUME NEW k \in KeeperPasses, WriteRetiring(k) PROVE TablesTypeOK'
  <2>1. keeping[k].file \in File /\ keeping[k].remaining \in SUBSET Entry BY <1>4 DEF PassRecord
  <2>2. [keeping[k].file EXCEPT !.retiring = keeping[k].remaining] \in File BY <2>1 DEF File
  <2>3. manifest' \in File BY <1>7, <2>2 DEF WriteRetiring
  <2>4. overwritten' \subseteq Tables \cup {NoTable} BY <1>7, <2>1 DEF WriteRetiring, File
  <2>. QED BY <1>2, <1>7, <2>3, <2>4 DEF WriteRetiring
<1>8. ASSUME NEW k \in KeeperPasses, NEW m \in Series, extendLookupTableWithMarket(k, m) PROVE TablesTypeOK'
  <2>1. keeping[k].active \in Tables BY <1>4, <1>8 DEF extendLookupTableWithMarket, PassRecord
  <2>. QED BY <1>8, <2>1 DEF extendLookupTableWithMarket, TableRecord
<1>9. ASSUME NEW k \in KeeperPasses, NEW entry \in keeping[k].todo, processRetiringLookupTable(k, entry)
      PROVE  TablesTypeOK'
  <2>1. entry \in Entry BY <1>4 DEF PassRecord
  <2>2. entry.table \in Tables BY <2>1 DEF Entry
  <2>3. UNCHANGED <<instant, manifest, rotating, overwritten>> BY <1>9 DEF processRetiringLookupTable
  <2>4. table' \in [Tables -> TableRecord]
    BY <1>9, <2>2 DEF processRetiringLookupTable, TableRecord
  <2>5. Keep(k, entry) \/ Drop(k, entry) BY <1>9 DEF processRetiringLookupTable
  <2>6. /\ keeping[k].todo \ {entry} \in SUBSET Entry
        /\ keeping[k].remaining \cup {entry} \in SUBSET Entry
    BY <1>4, <2>1 DEF PassRecord
  <2>7. CASE Keep(k, entry)
    <3>1. [keeping[k] EXCEPT !.todo = @ \ {entry}, !.remaining = @ \cup {entry}] \in PassRecord
      BY <1>4, <2>6 DEF PassRecord
    <3>2. keeping' = [keeping EXCEPT ![k] =
                        [keeping[k] EXCEPT !.todo = @ \ {entry}, !.remaining = @ \cup {entry}]]
      BY <2>7 DEF Keep
    <3>3. keeping' \in [KeeperPasses -> PassRecord] BY <3>1, <3>2
    <3>. QED BY <2>3, <2>4, <3>3
  <2>8. CASE Drop(k, entry)
    <3>1. [keeping[k] EXCEPT !.todo = @ \ {entry}] \in PassRecord BY <1>4, <2>6 DEF PassRecord
    <3>2. keeping' = [keeping EXCEPT ![k] = [keeping[k] EXCEPT !.todo = @ \ {entry}]]
      BY <2>8 DEF Drop
    <3>3. keeping' \in [KeeperPasses -> PassRecord] BY <3>1, <3>2
    <3>. QED BY <2>3, <2>4, <3>3
  <2>. QED BY <2>5, <2>7, <2>8
<1>10. CASE BeginRotation
  <2>1. latestLiveMarketOutliveDeadline(instant) \in Nat BY OutliveIsPatient
  <2>2. liveMarkets(instant) \subseteq Series BY TablesAssumption DEF liveMarkets
  <2>3. CASE manifest.active = NoTable
    <3>1. rotating' = [NotRotating EXCEPT !.at = "create", !.file = manifest]
      BY <1>10, <2>3 DEF BeginRotation
    <3>2. rotating' \in RotationRecord BY <1>2, <3>1 DEF RotationRecord
    <3>. QED BY <1>10, <3>2 DEF BeginRotation
  <2>4. CASE manifest.active # NoTable
    <3> DEFINE entry == [table |-> manifest.active, retiredAt |-> instant,
                         outlive |-> latestLiveMarketOutliveDeadline(instant)]
    <3>1. manifest.active \in Tables BY <2>4 DEF File
    <3>2. entry \in Entry BY <2>1, <3>1 DEF Entry
    <3>3. rotating' = [NotRotating EXCEPT !.at = "create", !.file = manifest,
                         !.seeds = liveMarkets(instant), !.entries = {entry}]
      BY <1>10, <2>4 DEF BeginRotation
    <3>. HIDE DEF entry
    <3>4. rotating' \in RotationRecord BY <1>2, <2>2, <3>2, <3>3 DEF RotationRecord
    <3>. QED BY <1>10, <3>4 DEF BeginRotation
  <2>. QED BY <2>3, <2>4
<1>11. CASE ExtendInChunks BY <1>11 DEF ExtendInChunks, RotationRecord, TableRecord
<1>12. CASE WriteRotation
  <2>1. manifest' \in File BY <1>12 DEF WriteRotation, RotationRecord, File
  <2>. QED BY <1>2, <1>12, <2>1 DEF WriteRotation
<1>13. ASSUME NEW t \in Tables, CreateTable(t) PROVE TablesTypeOK'
  BY <1>13 DEF CreateTable, RotationRecord, TableRecord
<1>14. CASE ScriptStops BY <1>2, <1>14 DEF ScriptStops
<1>15. CASE UNCHANGED tableVars BY <1>15 DEF tableVars
<1>. QED
  BY <1>1, <1>3, <1>5, <1>6, <1>7, <1>8, <1>9, <1>10, <1>11, <1>12, <1>13, <1>14, <1>15 DEF TablesNext

(* What the invariant says of a file is about tables, none of them NoTable.*)
LEMMA FilesAreOfTables ==
  ASSUME TablesTypeOK
  PROVE  /\ NoTable \notin Tables
         /\ TablesOf(manifest.retiring) \subseteq Tables /\ TablesOf(ToRetire) \subseteq Tables
         /\ \A k \in KeeperPasses : /\ keeping[k] \in PassRecord
                                    /\ TablesOf(keeping[k].file.retiring) \subseteq Tables
BY DEF TablesTypeOK, PassRecord, RotationRecord, File, Entry, TablesOf, ToRetire, NoTable, Tables

(* The steps of the clock, and what adds markets to a table.               *)
LEMMA StatusesStand ==
  ASSUME TablesInv, TablesTypeOK', UNCHANGED <<manifest, keeping, overwritten>>,
         \A t \in Tables : table'[t].status = table[t].status,
         ToRetire' = ToRetire,
         rotating'.at \in {"extend", "write"} =>
           rotating.at \in {"extend", "write"} /\ rotating'.table = rotating.table
  PROVE  TablesInv'
<1>1. TablesTypeOK BY DEF TablesInv
<1>2. /\ NoTable \notin Tables
      /\ \A e \in manifest.retiring \cup ToRetire : e.table \in Tables
      /\ \A k \in KeeperPasses : \A e \in keeping[k].file.retiring : e.table \in Tables
      /\ manifest.active \in Tables \cup {NoTable}
      /\ \A k \in KeeperPasses : keeping[k].file.active \in Tables \cup {NoTable}
      /\ overwritten \subseteq Tables \cup {NoTable}
  BY <1>1, FilesAreOfTables DEF TablesTypeOK, PassRecord, RotationRecord, File, TablesOf, ToRetire
<1>3. /\ SoundEntries(manifest.retiring, table)' /\ SoundEntries(ToRetire, table)'
      /\ \A k \in KeeperPasses : SoundEntries(keeping[k].file.retiring, table)'
  BY <1>2 DEF TablesInv, SoundEntries, Patient
<1>4. /\ Publishable(manifest.active, table, keeping, overwritten)'
      /\ \A k \in KeeperPasses : ~keeping'[k].overtaken =>
           Publishable(keeping[k].file.active, table, keeping, overwritten)'
  BY <1>2 DEF TablesInv, Publishable
<1>5. \A t : Fresh(t) => Fresh(t)' BY DEF Fresh
<1>. QED BY <1>2, <1>3, <1>4, <1>5 DEF TablesInv, Fresh

(* A pass forgets what it has read.                                        *)
LEMMA PassForgets ==
  ASSUME TablesInv, TablesTypeOK', NEW k \in KeeperPasses, NEW r,
         UNCHANGED <<table, manifest, rotating, overwritten>>,
         keeping' = [keeping EXCEPT ![k] = r],
         r.file = NotKeeping.file, r.todo = {}, r.remaining = {}
  PROVE  TablesInv'
<1>1. TablesTypeOK BY DEF TablesInv
<1>2. \A j \in KeeperPasses : keeping'[j] = IF j = k THEN r ELSE keeping[j] BY <1>1 DEF TablesTypeOK
<1>3. r.file.active = NoTable /\ r.file.retiring = {} /\ TablesOf({}) = {}
  BY DEF NotKeeping, TablesOf
<1>4. ToRetire' = ToRetire BY DEF ToRetire
<1>5. \A t : Publishable(t, table, keeping, overwritten) => Publishable(t, table, keeping, overwritten)'
  BY <1>2, <1>3 DEF Publishable
<1>6. /\ SoundEntries(manifest.retiring, table)' /\ SoundEntries(ToRetire, table)'
      /\ \A j \in KeeperPasses : SoundEntries(keeping[j].file.retiring, table)'
  BY <1>2, <1>3, <1>4 DEF TablesInv, SoundEntries, Patient
<1>7. \A j \in KeeperPasses : ~keeping'[j].overtaken =>
        Publishable(keeping[j].file.active, table, keeping, overwritten)'
  <2>1. \A c, p, o : Publishable(NoTable, c, p, o) BY DEF Publishable
  <2>. QED BY <1>2, <1>3, <1>5, <2>1 DEF TablesInv
<1>8. ASSUME NEW t, Fresh(t) PROVE Fresh(t)'
  <2>1. t # NoTable BY <1>1, <1>8, FilesAreOfTables DEF Fresh
  <2>2. \A j \in KeeperPasses : t # keeping'[j].file.active /\ t \notin TablesOf(keeping'[j].file.retiring)
    BY <1>2, <1>3, <1>8, <2>1 DEF Fresh
  <2>3. t \notin overwritten' \cup TablesOf(manifest'.retiring) \cup TablesOf(ToRetire')
    BY <1>4, <1>8 DEF Fresh
  <2>4. t \in Tables /\ table'[t].status = "active" /\ t # manifest'.active BY <1>8 DEF Fresh
  <2>. QED BY <2>2, <2>3, <2>4 DEF Fresh
<1>9. \A j \in KeeperPasses : /\ keeping'[j].todo \subseteq keeping'[j].file.retiring
                              /\ keeping'[j].remaining \subseteq keeping'[j].file.retiring
                              /\ keeping'[j].at # "retire" =>
                                   keeping'[j].todo = {} /\ keeping'[j].remaining = {}
                              /\ keeping'[j].file.active # NoTable =>
                                   table[keeping'[j].file.active].status # "none"
  BY <1>2, <1>3 DEF TablesInv
<1>10. rotating.at \in {"extend", "write"} => Fresh(rotating.table)' BY <1>8 DEF TablesInv
<1>. QED BY <1>5, <1>6, <1>7, <1>9, <1>10 DEF TablesInv

(* A pass takes a copy of the manifest: who holds an older one that names a*)
(* table on the new list is overtaken.                                     *)
LEMMA ReadRetiringKeeps ==
  ASSUME TablesInv, TablesTypeOK', NEW k \in KeeperPasses, ReadRetiring(k)
  PROVE  TablesInv'
<1>1. TablesTypeOK /\ UNCHANGED <<table, manifest, rotating, overwritten>> /\ ToRetire' = ToRetire
  BY DEF TablesInv, ReadRetiring, ToRetire
<1>2. /\ keeping'[k].file = manifest /\ keeping'[k].todo = manifest.retiring
      /\ keeping'[k].remaining = {} /\ keeping'[k].at = "retire"
  <2>1. keeping[k] \in PassRecord /\ keeping[k].at = "extend" BY <1>1, FilesAreOfTables DEF ReadRetiring
  <2>2. keeping'[k] = [keeping[k] EXCEPT !.at = "retire", !.file = manifest, !.todo = manifest.retiring]
    BY DEF ReadRetiring
  <2>3. keeping[k].remaining = {} BY <2>1 DEF TablesInv
  <2>. QED BY <2>1, <2>2, <2>3 DEF PassRecord
<1>3. ASSUME NEW j \in KeeperPasses \ {k}
      PROVE  /\ keeping'[j].at = keeping[j].at /\ keeping'[j].file = keeping[j].file
             /\ keeping'[j].todo = keeping[j].todo /\ keeping'[j].remaining = keeping[j].remaining
             /\ ~keeping'[j].overtaken =>
                  ~keeping[j].overtaken /\ keeping[j].file.active \notin TablesOf(manifest.retiring)
  <2>1. keeping[j] \in PassRecord BY <1>1, FilesAreOfTables
  <2>. DEFINE o == keeping[j].overtaken \/ keeping[j].file.active \in TablesOf(manifest.retiring)
  <2>2. keeping'[j] = [keeping[j] EXCEPT !.overtaken = o] BY DEF ReadRetiring
  <2>3. o \in BOOLEAN BY <2>1 DEF PassRecord
  <2>4. ~o => ~keeping[j].overtaken /\ keeping[j].file.active \notin TablesOf(manifest.retiring) OBVIOUS
  <2>. HIDE DEF o
  <2>. QED BY <2>1, <2>2, <2>3, <2>4 DEF PassRecord
<1>4. ASSUME NEW t, Publishable(t, table, keeping, overwritten), t \notin TablesOf(manifest.retiring)
      PROVE  Publishable(t, table, keeping, overwritten)'
  BY <1>1, <1>2, <1>3, <1>4 DEF Publishable
<1>5. Publishable(manifest.active, table, keeping, overwritten)'
  <2>1. CASE manifest.active \in overwritten BY <1>1, <2>1 DEF Publishable
  <2>2. CASE manifest.active \notin overwritten BY <1>1, <1>4, <2>2 DEF TablesInv
  <2>. QED BY <2>1, <2>2
<1>6. ASSUME NEW j \in KeeperPasses, ~keeping'[j].overtaken
      PROVE  Publishable(keeping[j].file.active, table, keeping, overwritten)'
  <2>1. CASE j = k BY <1>1, <1>2, <1>5, <2>1
  <2>2. CASE j # k
    <3>1. keeping'[j].file.active = keeping[j].file.active BY <1>3, <2>2
    <3>. QED BY <1>3, <1>4, <1>6, <2>2, <3>1 DEF TablesInv
  <2>. QED BY <2>1, <2>2
<1>7. \A j \in KeeperPasses : SoundEntries(keeping[j].file.retiring, table)'
  <2>1. ASSUME NEW j \in KeeperPasses PROVE SoundEntries(keeping'[j].file.retiring, table)
    BY <1>2, <1>3 DEF TablesInv
  <2>. QED BY <1>1, <2>1 DEF SoundEntries, Patient
<1>8. SoundEntries(manifest.retiring, table)' /\ SoundEntries(ToRetire, table)'
  BY <1>1 DEF TablesInv, SoundEntries, Patient
<1>9. ASSUME NEW t, Fresh(t) PROVE Fresh(t)'
  BY <1>1, <1>2, <1>3, <1>9 DEF Fresh
<1>10. \A j \in KeeperPasses : /\ keeping'[j].todo \subseteq keeping'[j].file.retiring
                               /\ keeping'[j].remaining \subseteq keeping'[j].file.retiring
                               /\ keeping'[j].at # "retire" =>
                                    keeping'[j].todo = {} /\ keeping'[j].remaining = {}
                               /\ keeping'[j].file.active # NoTable =>
                                    table[keeping'[j].file.active].status # "none"
  BY <1>2, <1>3 DEF TablesInv
<1>. QED BY <1>1, <1>5, <1>6, <1>7, <1>8, <1>9, <1>10 DEF TablesInv, Fresh

(* It writes its copy back: what that publishes is on no pass's list, or   *)
(* the pass was overtaken.                                                 *)
LEMMA WriteRetiringKeeps ==
  ASSUME TablesInv, TablesTypeOK', NEW k \in KeeperPasses, WriteRetiring(k)
  PROVE  TablesInv'
<1>. DEFINE f == keeping[k].file
            left == keeping[k].remaining
            k0 == [keeping EXCEPT ![k] = NotKeeping]
<1>1. /\ TablesTypeOK /\ UNCHANGED <<table, rotating>> /\ ToRetire' = ToRetire /\ keeping' = k0
  BY DEF TablesInv, WriteRetiring, ToRetire
<1>2. CASE left = f.retiring
  <2>1. UNCHANGED <<manifest, overwritten>> BY <1>2 DEF WriteRetiring
  <2>2. /\ NotKeeping.file = NotKeeping.file /\ NotKeeping.todo = {} /\ NotKeeping.remaining = {}
    BY DEF NotKeeping
  <2>. QED BY <1>1, <2>1, <2>2, PassForgets
<1>3. CASE left # f.retiring
  <2>1. /\ manifest' = [f EXCEPT !.retiring = left]
        /\ overwritten' = IF keeping[k].overtaken THEN overwritten \cup {f.active} ELSE overwritten
    BY <1>3 DEF WriteRetiring
  <2>2. keeping[k] \in PassRecord /\ f \in File /\ left \subseteq f.retiring
    BY <1>1, FilesAreOfTables DEF PassRecord, TablesInv
  <2>3. manifest'.active = f.active /\ manifest'.retiring = left BY <2>1, <2>2 DEF File
  <2>4. TablesOf(left) \subseteq TablesOf(f.retiring) BY <2>2 DEF TablesOf
  <2>5. ASSUME NEW j \in KeeperPasses
        PROVE  /\ j # k => keeping'[j] = keeping[j]
               /\ keeping'[k].file.active = NoTable /\ keeping'[k].file.retiring = {}
               /\ keeping'[k].todo = {} /\ keeping'[k].remaining = {}
               /\ TablesOf(keeping'[j].file.retiring) \subseteq TablesOf(keeping[j].file.retiring)
    BY <1>1 DEF TablesTypeOK, NotKeeping, TablesOf
  <2>6. ASSUME NEW t, Publishable(t, table, keeping, overwritten)
        PROVE  Publishable(t, table', keeping', overwritten')
    BY <1>1, <2>1, <2>5, <2>6 DEF Publishable
  <2>7. Publishable(f.active, table', keeping', overwritten')
    <3>1. CASE keeping[k].overtaken BY <2>1, <3>1 DEF Publishable
    <3>2. CASE ~keeping[k].overtaken BY <2>6, <3>2 DEF TablesInv
    <3>. QED BY <3>1, <3>2
  <2>8. f.active \notin overwritten' => f.active \notin TablesOf(left)
    <3>1. CASE f.active = NoTable BY <1>1, <2>4, <3>1, FilesAreOfTables
    <3>2. CASE f.active # NoTable /\ f.active \notin overwritten'
      <4>1. ~keeping[k].overtaken /\ f.active \notin overwritten BY <2>1, <3>2
      <4>. QED BY <2>4, <3>2, <4>1 DEF TablesInv, Publishable
    <3>. QED BY <3>1, <3>2
  <2>9. \A j \in KeeperPasses : ~keeping'[j].overtaken =>
          Publishable(keeping[j].file.active, table, keeping, overwritten)'
    <3>1. ASSUME NEW j \in KeeperPasses, j # k, ~keeping'[j].overtaken
          PROVE  Publishable(keeping[j].file.active, table, keeping, overwritten)'
      <4>1. keeping'[j] = keeping[j] BY <2>5, <3>1
      <4>2. Publishable(keeping[j].file.active, table, keeping, overwritten) BY <3>1, <4>1 DEF TablesInv
      <4>3. Publishable(keeping[j].file.active, table', keeping', overwritten') BY <2>6, <4>2
      <4>. QED BY <4>1, <4>3
    <3>2. Publishable(keeping[k].file.active, table, keeping, overwritten)' BY <2>5 DEF Publishable
    <3>. QED BY <3>1, <3>2
  <2>10. \A j \in KeeperPasses : SoundEntries(keeping'[j].file.retiring, table')
    BY <1>1, <2>5 DEF TablesInv, SoundEntries
  <2>11. SoundEntries(manifest'.retiring, table') /\ SoundEntries(ToRetire', table')
    BY <1>1, <2>2, <2>3 DEF TablesInv, SoundEntries
  <2>12. ASSUME NEW t, Fresh(t) PROVE Fresh(t)'
    <3>1. t # NoTable BY <1>1, <2>12, FilesAreOfTables DEF Fresh
    <3>2. t # f.active /\ t \notin TablesOf(left) BY <2>4, <2>12 DEF Fresh
    <3>. QED BY <1>1, <2>1, <2>3, <2>5, <2>12, <3>1, <3>2 DEF Fresh
  <2>13. \A j \in KeeperPasses : /\ keeping'[j].todo \subseteq keeping'[j].file.retiring
                                 /\ keeping'[j].remaining \subseteq keeping'[j].file.retiring
                                 /\ keeping'[j].at # "retire" =>
                                      keeping'[j].todo = {} /\ keeping'[j].remaining = {}
                                 /\ keeping'[j].file.active # NoTable =>
                                      table[keeping'[j].file.active].status # "none"
    BY <2>5 DEF TablesInv
  <2>14. /\ f.active # NoTable => table[f.active].status # "none"
         /\ \A t \in overwritten' \ {NoTable} : table[t].status # "none"
    BY <2>1 DEF TablesInv
  <2>. HIDE DEF f, left
  <2>15. rotating'.at \in {"extend", "write"} => Fresh(rotating.table)'
    BY <1>1, <2>12 DEF TablesInv
  <2>16. Publishable(manifest'.active, table', keeping', overwritten') BY <2>3, <2>7
  <2>17. manifest'.active # NoTable => table'[manifest'.active].status # "none"
    BY <1>1, <2>3, <2>14
  <2>18. manifest'.active \notin overwritten' => manifest'.active \notin TablesOf(manifest'.retiring)
    BY <2>3, <2>8
  <2>19. /\ \A j \in KeeperPasses : SoundEntries(keeping'[j].file.retiring, table')
         /\ SoundEntries(manifest'.retiring, table') /\ SoundEntries(ToRetire', table')
    BY <2>10, <2>11
  <2>. QED
    BY <1>1, <2>9, <2>13, <2>14, <2>15, <2>16, <2>17, <2>18, <2>19 DEF TablesInv, SoundEntries
<1>. QED BY <1>2, <1>3

(* It goes through its list: only tables nobody publishes die.             *)
LEMMA ProcessKeeps ==
  ASSUME TablesInv, TablesTypeOK', NEW k \in KeeperPasses, NEW entry \in keeping[k].todo,
         processRetiringLookupTable(k, entry)
  PROVE  TablesInv'
<1>. DEFINE t == entry.table
<1>1. TablesTypeOK /\ UNCHANGED <<manifest, rotating, overwritten>> /\ ToRetire' = ToRetire
  BY DEF TablesInv, processRetiringLookupTable, ToRetire
<1>2. entry \in keeping[k].file.retiring /\ t \in TablesOf(keeping[k].file.retiring) /\ t \in Tables
  BY <1>1, FilesAreOfTables DEF TablesInv, TablesOf
<1>3. /\ \A u \in Tables \ {t} : table'[u].status = table[u].status
      /\ table'[t].status # "none" \/ table'[t].status = table[t].status
  BY <1>1, <1>2 DEF processRetiringLookupTable, TablesTypeOK, TableRecord
<1>4. ASSUME NEW j \in KeeperPasses
      PROVE  /\ keeping'[j].file = keeping[j].file /\ keeping'[j].overtaken = keeping[j].overtaken
             /\ keeping'[j].at = keeping[j].at
             /\ keeping'[j].todo \subseteq keeping[j].todo
             /\ keeping'[j].remaining \subseteq keeping[j].remaining \cup (IF j = k THEN {entry} ELSE {})
  <2>1. keeping[j] \in PassRecord BY <1>1, FilesAreOfTables
  <2>2. CASE Keep(k, entry)
    BY <1>1, <2>1, <2>2 DEF Keep, PassRecord, TablesTypeOK
  <2>3. CASE Drop(k, entry)
    BY <1>1, <2>1, <2>3 DEF Drop, PassRecord, TablesTypeOK
  <2>. QED BY <2>2, <2>3 DEF processRetiringLookupTable
<1>5. keeping[k].at = "retire" BY DEF processRetiringLookupTable
<1>6. ASSUME NEW u \in Tables \cup {NoTable}, Publishable(u, table, keeping, overwritten)
      PROVE  Publishable(u, table, keeping, overwritten)'
  BY <1>1, <1>2, <1>3, <1>4, <1>6 DEF Publishable
<1>7. /\ manifest.active \in Tables \cup {NoTable}
      /\ \A j \in KeeperPasses : keeping[j].file.active \in Tables \cup {NoTable}
      /\ overwritten \subseteq Tables \cup {NoTable}
  BY <1>1 DEF TablesTypeOK, File, PassRecord
<1>8. \A u \in Tables : table[u].status # "none" => table'[u].status # "none" BY <1>2, <1>3
<1>9. ASSUME NEW entries, SoundEntries(entries, table), TablesOf(entries) \subseteq Tables
      PROVE  SoundEntries(entries, table')
  BY <1>8, <1>9 DEF SoundEntries, TablesOf
<1>10. /\ SoundEntries(manifest.retiring, table') /\ SoundEntries(ToRetire, table')
       /\ \A j \in KeeperPasses : SoundEntries(keeping[j].file.retiring, table')
  BY <1>1, <1>9, FilesAreOfTables DEF TablesInv
<1>11. ASSUME NEW u, Fresh(u) PROVE Fresh(u)'
  <2>1. u # t BY <1>2, <1>11 DEF Fresh
  <2>. QED BY <1>1, <1>3, <1>4, <1>11, <2>1 DEF Fresh
<1>12. \A j \in KeeperPasses : /\ keeping'[j].todo \subseteq keeping'[j].file.retiring
                               /\ keeping'[j].remaining \subseteq keeping'[j].file.retiring
                               /\ keeping'[j].at # "retire" =>
                                    keeping'[j].todo = {} /\ keeping'[j].remaining = {}
  BY <1>2, <1>4, <1>5 DEF TablesInv
<1>13. /\ Publishable(manifest.active, table, keeping, overwritten)'
       /\ \A j \in KeeperPasses : ~keeping'[j].overtaken =>
            Publishable(keeping[j].file.active, table, keeping, overwritten)'
  BY <1>1, <1>4, <1>6, <1>7 DEF TablesInv
<1>14. /\ manifest.active # NoTable => table'[manifest.active].status # "none"
       /\ \A j \in KeeperPasses : keeping[j].file.active # NoTable =>
            table'[keeping[j].file.active].status # "none"
       /\ \A u \in overwritten \ {NoTable} : table'[u].status # "none"
  BY <1>7, <1>8 DEF TablesInv
<1>. HIDE DEF t
<1>. QED BY <1>1, <1>4, <1>10, <1>11, <1>12, <1>13, <1>14 DEF TablesInv, Fresh, SoundEntries

LEMMA BeginRotationKeeps ==
  ASSUME TablesInv, TablesTypeOK', BeginRotation
  PROVE  TablesInv'
<1>1. TablesTypeOK /\ UNCHANGED <<table, manifest, keeping, overwritten>> /\ rotating'.at = "create"
  BY DEF TablesInv, BeginRotation, NotRotating
<1>2. SoundEntries(ToRetire', table)
  <2>1. CASE manifest.active = NoTable
    <3>1. ToRetire' = manifest.retiring BY <2>1 DEF BeginRotation, NotRotating, ToRetire
    <3>. QED BY <3>1 DEF TablesInv
  <2>2. CASE manifest.active # NoTable
    <3>. DEFINE entry == [table |-> manifest.active, retiredAt |-> instant,
                         outlive |-> latestLiveMarketOutliveDeadline(instant)]
    <3>1. ToRetire' = manifest.retiring \cup {entry} BY <2>2 DEF BeginRotation, NotRotating, ToRetire
    <3>2. Patient(entry) BY <1>1, OutliveIsPatient DEF Patient, TablesTypeOK
    <3>3. table[entry.table].status # "none" BY <2>2 DEF TablesInv
    <3>. HIDE DEF entry
    <3>. QED BY <3>1, <3>2, <3>3 DEF TablesInv, SoundEntries
  <2>. QED BY <2>1, <2>2
<1>3. /\ SoundEntries(manifest.retiring, table)'
      /\ \A k \in KeeperPasses : SoundEntries(keeping[k].file.retiring, table)'
      /\ Publishable(manifest.active, table, keeping, overwritten)'
      /\ \A k \in KeeperPasses : ~keeping'[k].overtaken =>
           Publishable(keeping[k].file.active, table, keeping, overwritten)'
  BY <1>1 DEF TablesInv, SoundEntries, Publishable, Patient
<1>. QED BY <1>1, <1>2, <1>3 DEF TablesInv, SoundEntries

LEMMA WriteRotationKeeps ==
  ASSUME TablesInv, TablesTypeOK', WriteRotation
  PROVE  TablesInv'
<1>1. Fresh(rotating.table) /\ TablesTypeOK BY DEF WriteRotation, TablesInv
<1>2. /\ manifest' = [active |-> rotating.table, retiring |-> ToRetire]
      /\ UNCHANGED <<table, keeping, overwritten>>
      /\ rotating'.at = "idle" /\ ToRetire' = {}
  BY DEF WriteRotation, ToRetire, NotRotating
<1>3. /\ SoundEntries(manifest'.retiring, table') /\ SoundEntries(ToRetire', table')
      /\ \A k \in KeeperPasses : SoundEntries(keeping'[k].file.retiring, table')
  BY <1>2 DEF TablesInv, SoundEntries
<1>4. Publishable(manifest.active, table, keeping, overwritten)'
  BY <1>1, <1>2 DEF Publishable, Fresh
<1>5. \A k \in KeeperPasses : ~keeping'[k].overtaken =>
        Publishable(keeping[k].file.active, table, keeping, overwritten)'
  BY <1>2 DEF TablesInv, Publishable
<1>6. /\ manifest'.active \notin TablesOf(manifest'.retiring)
      /\ table[manifest'.active].status # "none"
  BY <1>1, <1>2 DEF Fresh
<1>. QED BY <1>1, <1>2, <1>3, <1>4, <1>5, <1>6 DEF TablesInv, SoundEntries

LEMMA CreateTableKeeps ==
  ASSUME TablesInv, TablesTypeOK', NEW t \in Tables, CreateTable(t)
  PROVE  TablesInv'
<1>1. /\ TablesTypeOK
      /\ UNCHANGED <<manifest, keeping, overwritten>> /\ ToRetire' = ToRetire
      /\ table[t].status = "none" /\ table'[t].status = "active"
      /\ \A u \in Tables \ {t} : table'[u] = table[u]
      /\ rotating'.table = t
  BY DEF TablesInv, CreateTable, Create, ToRetire, TablesTypeOK, RotationRecord, TableRecord
<1>2. t # NoTable /\ \A u \in Tables : table[u].status # "none" => u # t /\ table'[u] = table[u]
  BY <1>1, FilesAreOfTables
<1>3. ASSUME NEW entries, SoundEntries(entries, table), TablesOf(entries) \subseteq Tables
      PROVE  SoundEntries(entries, table') /\ t \notin TablesOf(entries)
  <2>1. \A e \in entries : e.table \in Tables /\ table[e.table].status # "none"
    BY <1>3 DEF SoundEntries, TablesOf
  <2>. QED BY <1>2, <1>3, <2>1 DEF SoundEntries, TablesOf
<1>4. /\ SoundEntries(manifest.retiring, table') /\ t \notin TablesOf(manifest.retiring)
      /\ SoundEntries(ToRetire, table') /\ t \notin TablesOf(ToRetire)
      /\ \A k \in KeeperPasses : /\ SoundEntries(keeping[k].file.retiring, table')
                                 /\ t \notin TablesOf(keeping[k].file.retiring)
  BY <1>1, <1>3, FilesAreOfTables DEF TablesInv
<1>5. /\ manifest.active \in Tables \cup {NoTable}
      /\ \A k \in KeeperPasses : keeping[k].file.active \in Tables \cup {NoTable}
      /\ overwritten \subseteq Tables \cup {NoTable}
  BY <1>1 DEF TablesTypeOK, File, PassRecord
<1>6. /\ manifest.active # NoTable => t # manifest.active /\ table'[manifest.active].status # "none"
      /\ \A k \in KeeperPasses : keeping[k].file.active # NoTable =>
           t # keeping[k].file.active /\ table'[keeping[k].file.active].status # "none"
      /\ \A u \in overwritten \ {NoTable} : t # u /\ table'[u].status # "none"
  BY <1>2, <1>5 DEF TablesInv
<1>7. ASSUME NEW u \in Tables \cup {NoTable}, u # t, Publishable(u, table, keeping, overwritten)
      PROVE  Publishable(u, table, keeping, overwritten)'
  BY <1>1, <1>7 DEF Publishable
<1>8. /\ Publishable(manifest.active, table, keeping, overwritten)'
      /\ \A k \in KeeperPasses : ~keeping'[k].overtaken =>
           Publishable(keeping[k].file.active, table, keeping, overwritten)'
  BY <1>1, <1>2, <1>5, <1>6, <1>7 DEF TablesInv
<1>9. Fresh(t)' BY <1>1, <1>2, <1>4, <1>6 DEF Fresh
<1>. QED BY <1>1, <1>4, <1>6, <1>8, <1>9 DEF TablesInv, SoundEntries

LEMMA TablesInvNext == TablesInv /\ [TablesNext]_tableVars => TablesInv'
<1>. SUFFICES ASSUME TablesInv, [TablesNext]_tableVars PROVE TablesInv' OBVIOUS
<1>1. TablesTypeOK /\ TablesTypeOK' BY TablesTypeNext DEF TablesInv
<1>2. CASE TimePasses BY <1>1, <1>2, StatusesStand DEF TimePasses, ToRetire
<1>3. ASSUME NEW k \in KeeperPasses, readAddressLookupTable(k) PROVE TablesInv'
  <2>. DEFINE r == [NotKeeping EXCEPT !.at = "extend", !.active = manifest.active]
  <2>1. /\ UNCHANGED <<table, manifest, rotating, overwritten>>
        /\ keeping' = [keeping EXCEPT ![k] = r]
        /\ r.file = NotKeeping.file /\ r.todo = {} /\ r.remaining = {}
    BY <1>3 DEF readAddressLookupTable, NotKeeping
  <2>. HIDE DEF r
  <2>. QED BY <1>1, <2>1, PassForgets
<1>4. ASSUME NEW k \in KeeperPasses, NEW m \in Series, extendLookupTableWithMarket(k, m) PROVE TablesInv'
  <2>1. /\ \A t \in Tables : table'[t].status = table[t].status
        /\ UNCHANGED <<manifest, keeping, rotating, overwritten>>
    BY <1>1, <1>4 DEF extendLookupTableWithMarket, TablesTypeOK, TableRecord
  <2>. QED BY <1>1, <2>1, StatusesStand DEF ToRetire
<1>5. ASSUME NEW k \in KeeperPasses, NEW entry \in keeping[k].todo, processRetiringLookupTable(k, entry)
      PROVE  TablesInv'
  BY <1>1, <1>5, ProcessKeeps
<1>6. CASE ExtendInChunks
  <2>1. /\ \A t \in Tables : table'[t].status = table[t].status
        /\ UNCHANGED <<manifest, keeping, overwritten>> /\ ToRetire' = ToRetire
        /\ rotating.at = "extend" /\ rotating'.table = rotating.table
    BY <1>1, <1>6 DEF ExtendInChunks, ToRetire, TablesTypeOK, RotationRecord, TableRecord
  <2>. QED BY <1>1, <2>1, StatusesStand
<1>7. CASE ScriptStops
  <2>1. UNCHANGED <<table, manifest, overwritten>> BY <1>7 DEF ScriptStops
  <2>2. ASSUME NEW k \in KeeperPasses, keeping' = [keeping EXCEPT ![k] = NotKeeping], UNCHANGED rotating
        PROVE  TablesInv'
    <3>1. NotKeeping.file = NotKeeping.file /\ NotKeeping.todo = {} /\ NotKeeping.remaining = {}
      BY DEF NotKeeping
    <3>. QED BY <1>1, <2>1, <2>2, <3>1, PassForgets
  <2>3. CASE rotating' = NotRotating /\ UNCHANGED keeping
    <3>1. ToRetire' = {} /\ rotating'.at = "idle" BY <2>3 DEF ToRetire, NotRotating
    <3>2. /\ SoundEntries(manifest.retiring, table)' /\ SoundEntries(ToRetire, table)'
          /\ \A k \in KeeperPasses : SoundEntries(keeping[k].file.retiring, table)'
          /\ Publishable(manifest.active, table, keeping, overwritten)'
          /\ \A k \in KeeperPasses : ~keeping'[k].overtaken =>
               Publishable(keeping[k].file.active, table, keeping, overwritten)'
      BY <2>1, <2>3, <3>1 DEF TablesInv, SoundEntries, Publishable, Patient
    <3>. QED BY <1>1, <2>1, <2>3, <3>1, <3>2 DEF TablesInv
  <2>. QED BY <1>7, <2>2, <2>3 DEF ScriptStops
<1>8. CASE UNCHANGED tableVars BY <1>1, <1>8, StatusesStand DEF tableVars, ToRetire
<1>9. ASSUME NEW t \in Tables, CreateTable(t) PROVE TablesInv' BY <1>1, <1>9, CreateTableKeeps
<1>. QED
  BY <1>1, <1>2, <1>3, <1>4, <1>5, <1>6, <1>7, <1>8, <1>9, ReadRetiringKeeps, WriteRetiringKeeps,
     BeginRotationKeeps, WriteRotationKeeps DEF TablesNext

(* However many passes and rotations run, overlap, write back what they    *)
(* read long ago or stop halfway (create-lookup-table.ts, keeper.ts).      *)
THEOREM TablesInvHolds == TablesSpec => []TablesInv
BY TablesInitInv, TablesInvNext, PTL DEF TablesSpec

(* The table the manifest publishes is one that transactions can use,      *)
(* unless an overtaken pass published it again: with any number of passes  *)
(* at once, this is the only way to lose it.                               *)
THEOREM PublishedTableIsAliveHolds == TablesSpec => []PublishedTableIsAlive
<1>1. TablesInv => PublishedTableIsAlive BY DEF TablesInv, Publishable, PublishedTableIsAlive
<1>. QED BY <1>1, TablesInvHolds, PTL

LEMMA OnlyThePassRetires ==
  ASSUME TablesTypeOK, TablesNext, NEW t \in Tables,
         table'[t].status # table[t].status, table'[t].status # "active"
  PROVE  \E k \in KeeperPasses : \E e \in keeping[k].todo : processRetiringLookupTable(k, e)
<1>1. SUFFICES ASSUME \A k \in KeeperPasses : \A e \in keeping[k].todo : ~ processRetiringLookupTable(k, e)
               PROVE  FALSE
  OBVIOUS
<1>2. \/ UNCHANGED table
      \/ \E k \in KeeperPasses : \E m \in Series : extendLookupTableWithMarket(k, m)
      \/ ExtendInChunks
      \/ \E u \in Tables : CreateTable(u)
  BY <1>1 DEF TablesNext, TimePasses, readAddressLookupTable, ReadRetiring, WriteRetiring,
     BeginRotation, WriteRotation, ScriptStops
<1>3. ASSUME NEW k \in KeeperPasses, NEW m \in Series, extendLookupTableWithMarket(k, m) PROVE FALSE
  BY <1>3 DEF extendLookupTableWithMarket, TablesTypeOK, TableRecord
<1>4. CASE ExtendInChunks BY <1>4 DEF ExtendInChunks, TablesTypeOK, TableRecord
<1>5. ASSUME NEW u \in Tables, CreateTable(u) PROVE FALSE
  BY <1>5 DEF CreateTable, TablesTypeOK, TableRecord
<1>. QED BY <1>2, <1>3, <1>4, <1>5

(* The entry a pass has dealt with is the one whose table it deactivated.  *)
LEMMA DeactivationsWait ==
  ASSUME TablesInv, TablesNext, NEW k \in KeeperPasses, NEW entry \in keeping[k].todo,
         Deactivated(k, entry)
  PROVE  \A m \in Listed : ExpiryOf[m] > entry.retiredAt => instant > ProgramDeadline(m)
<1>1. /\ TablesTypeOK /\ keeping[k] \in PassRecord /\ entry \in keeping[k].file.retiring
      /\ entry \in Entry /\ entry.table \in Tables
  BY FilesAreOfTables DEF TablesInv, PassRecord, Entry
<1>2. table'[entry.table].status = "deactivated" /\ table[entry.table].status = "active"
      /\ entry \notin keeping'[k].todo
  BY DEF Deactivated
<1>3. PICK j \in KeeperPasses : \E d \in keeping[j].todo : processRetiringLookupTable(j, d)
  BY <1>1, <1>2, OnlyThePassRetires
<1>4. PICK e \in keeping[j].todo : processRetiringLookupTable(j, e) BY <1>3
<1>5. e \in keeping[j].todo /\ (Keep(j, e) \/ Drop(j, e)) /\ keeping[j] \in PassRecord
  BY <1>1, <1>4, FilesAreOfTables DEF processRetiringLookupTable
<1>6. j = k /\ e = entry
  BY <1>1, <1>2, <1>5 DEF Keep, Drop, PassRecord, TablesTypeOK
<1>7. isLookupTableSafeToDeactivate(entry, instant)
  BY <1>1, <1>2, <1>4, <1>6 DEF processRetiringLookupTable, TablesTypeOK, TableRecord
<1>8. Patient(entry) BY <1>1 DEF TablesInv, SoundEntries
<1>9. instant \in Nat /\ entry.outlive \in Nat BY <1>1 DEF TablesTypeOK, Entry
<1>10. ASSUME NEW m \in Listed, ExpiryOf[m] > entry.retiredAt
       PROVE  instant > ProgramDeadline(m)
  <2>1. marketSettlementDeadline(m) <= entry.outlive BY <1>8, <1>10 DEF Patient
  <2>2. /\ ExpiryOf[m] \in Nat /\ OBSERVATION_SECONDS \in Nat /\ GRACE_SECONDS \in Nat
        /\ STALENESS_SECONDS \in Nat
    BY TablesAssumption
  <2>. QED
    BY <1>7, <1>9, <2>1, <2>2, WindowWithinStaleness
    DEF marketSettlementDeadline, ProgramDeadline, isLookupTableSafeToDeactivate
<1>. QED BY <1>10

LEMMA ClosingsWait ==
  ASSUME TablesInv, TablesNext, NEW t \in Tables,
         table[t].status # "closed", table'[t].status = "closed"
  PROVE  table[t].status = "deactivated" /\ instant >= table[t].since + ALT_DEACTIVATION_COOLDOWN
<1>1. TablesTypeOK BY DEF TablesInv
<1>2. PICK k \in KeeperPasses : \E e \in keeping[k].todo : processRetiringLookupTable(k, e)
  BY <1>1, OnlyThePassRetires
<1>3. PICK e \in keeping[k].todo : processRetiringLookupTable(k, e) BY <1>2
<1>4. e.table \in Tables BY <1>1, FilesAreOfTables DEF TablesInv, TablesOf
<1>. QED
  BY <1>1, <1>3, <1>4 DEF processRetiringLookupTable, TablesTypeOK, TableRecord, isLookupTableReadyToClose

(* A table serves the markets it was replaced with for as long as the first*)
(* tier may settle them, for any terms whose staleness covers their window.*)
THEOREM TablesOutliveTheirMarketsHolds == TablesSpec => TablesOutliveTheirMarkets
<1>1. TablesInv /\ [TablesNext]_tableVars =>
        [/\ \A k \in KeeperPasses : \A entry \in keeping[k].todo :
              Deactivated(k, entry) => \A m \in Served(entry) : instant > ProgramDeadline(m)
         /\ \A t \in Tables :
              table[t].status # "closed" /\ table'[t].status = "closed" =>
                /\ table[t].status = "deactivated"
                /\ instant >= table[t].since + ALT_DEACTIVATION_COOLDOWN]_tableVars
  BY DeactivationsWait, ClosingsWait DEF Served
<1>. QED BY <1>1, TablesInvHolds, PTL DEF TablesSpec, TablesOutliveTheirMarkets

-----------------------------------------------------------------------------
(* The cleanup of markets.                                                 *)

BindingRecord == [enabled : BOOLEAN, openPositionsKnown : BOOLEAN, openPositions : Int]

RunRecord ==
  [at : {"idle", "scan", "publish", "read", "close"}, began : Nat, due : SUBSET Markets,
   reads : SUBSET (Scans \cup Reads), positions : SUBSET (Markets \cup (Pools \X Markets)),
   markets : SUBSET Markets, priced : SUBSET Markets,
   bindings : [Pools -> [Markets -> BindingRecord]], clock : Nat]

CleanupTypeOK ==
  /\ time \in Nat
  /\ live \subseteq Markets /\ priced \subseteq Markets
  /\ binding \in [Pools -> [Markets -> BindingRecord]]
  /\ holdings \in [Pools -> [Markets -> Nat]]
  /\ cleaner \in [Cleaners -> RunRecord]

(* What the program keeps: a count that is right where there is one, no    *)
(* position without a binding, none on a closed market.                    *)
Counted(q, m) ==
  /\ binding[q][m].openPositionsKnown => binding[q][m].openPositions = holdings[q][m]
  /\ ~binding[q][m].openPositionsKnown => binding[q][m] = Unbound \/ binding[q][m].openPositions = 0
  /\ binding[q][m] = Unbound => holdings[q][m] = 0

ChainInv ==
  /\ \A q \in Pools, m \in Markets : Counted(q, m)
  /\ ClosedMarketsOweNothing

Legacy(q, m) == binding[q][m] # Unbound /\ ~binding[q][m].openPositionsKnown

(* Nothing is open, and nothing can be opened until the binding is enabled.*)
Quiet(q, m) == holdings[q][m] = 0 /\ ~binding[q][m].enabled

TooLateToEnable(m, t) == t + MIN_MARKET_LEAD >= Expiry(m)

(* What a run may rely on of what it has read at different instants: the   *)
(* bindings of the old layout are a set that never changes, and the others,*)
(* seen idle or not at all, stay quiet once it is too late to enable any.  *)
RunInv(c) ==
  LET r == cleaner[c] IN
    /\ r.at = "idle" => r.reads = {}
    /\ r.at # "idle" => r.began <= time /\ time <= r.began + MAX_RUN
    /\ "clock" \in r.reads => r.clock <= time
    /\ r.at = "close" => r.reads = Reads /\ \A m \in r.due : r.clock > computeMarketCloseDeadline(m)
    /\ \A q \in Pools, m \in Markets :
         /\ "legacy bindings" \in r.reads /\ Legacy(q, m) =>
              r.bindings[q][m] # Unbound /\ ~r.bindings[q][m].openPositionsKnown
         /\ /\ "current bindings" \in r.reads
            /\ ~Legacy(q, m) /\ TooLateToEnable(m, r.began)
            /\ r.bindings[q][m] = Unbound \/ IsIdleBinding(r.bindings[q][m])
            => Quiet(q, m)

CleanupInv == CleanupTypeOK /\ ChainInv /\ \A c \in Cleaners : RunInv(c)

LEMMA UpdateTyped ==
  ASSUME NEW A, NEW B, NEW T, NEW f \in [A -> [B -> T]], NEW a \in A, NEW b \in B, NEW x \in T
  PROVE  [f EXCEPT ![a][b] = x] \in [A -> [B -> T]]
OBVIOUS

LEMMA UnboundType == Unbound \in BindingRecord /\ NoScan \in RunRecord
BY DEF Unbound, BindingRecord, NoScan, RunRecord

LEMMA CleanupInitInv == CleanupInit => CleanupInv
<1>1. SUFFICES ASSUME CleanupInit PROVE CleanupInv OBVIOUS
<1>2. Unbound \in BindingRecord /\ Binding(TRUE, FALSE, 0) \in BindingRecord
  BY DEF Unbound, Binding, BindingRecord
<1>3. CleanupTypeOK
  BY <1>1, <1>2, UnboundType DEF CleanupInit, CleanupTypeOK
<1>4. ChainInv
  <2>1. ClosedMarketsOweNothing BY <1>1 DEF CleanupInit, ClosedMarketsOweNothing
  <2>2. ASSUME NEW q \in Pools, NEW m \in Markets PROVE Counted(q, m)
    <3>1. binding[q][m] \in {Unbound, Binding(TRUE, FALSE, 0)} /\ holdings[q][m] = 0
      BY <1>1 DEF CleanupInit
    <3>2. CASE binding[q][m] = Unbound BY <3>1, <3>2 DEF Counted, Unbound
    <3>3. CASE binding[q][m] = Binding(TRUE, FALSE, 0) BY <3>1, <3>3 DEF Counted, Binding
    <3>. QED BY <3>1, <3>2, <3>3
  <2>. QED BY <2>1, <2>2 DEF ChainInv
<1>5. \A c \in Cleaners : RunInv(c)
  BY <1>1 DEF CleanupInit, RunInv, NoScan
<1>. QED BY <1>3, <1>4, <1>5 DEF CleanupInv

(* A run that finds a market closable began too late to see it enabled.    *)
LEMMA RunsAreShort ==
  ASSUME NEW m \in Markets, NEW began \in Nat, NEW clocked \in Nat, NEW t \in Nat,
         clocked > computeMarketCloseDeadline(m), clocked <= t, t <= began + MAX_RUN
  PROVE  TooLateToEnable(m, began)
<1>1. Terms[m] \in TermsRecord BY TermsAssumption
<1>2. Terms[m].expiry \in Nat /\ Terms[m].window \in Nat /\ Terms[m].grace \in Nat
  BY <1>1 DEF TermsRecord
<1>3. MIN_MARKET_LEAD \in Nat /\ MARKET_CLEANUP_BUFFER \in Nat /\ MAX_RUN \in Nat
  BY DurationsAssumption, CleanupAssumption
<1>4. MAX_RUN <= MIN_MARKET_LEAD + (CleanupDeadline(m) - Expiry(m)) + 1 BY CleanupAssumption
<1>. QED
  BY <1>2, <1>3, <1>4 DEF TooLateToEnable, computeMarketCloseDeadline, computeSettlementDeadline,
     computeObservationEnd, CleanupDeadline, SettlementDeadline, ObservationEnd, Expiry

-----------------------------------------------------------------------------
(* What every step of the program keeps, whoever takes it.                 *)
ChainStep ==
  /\ time' \in Nat /\ time <= time'
  /\ ChainInv'
  /\ \A q \in Pools, m \in Markets :
       /\ Legacy(q, m)' = Legacy(q, m)
       /\ Quiet(q, m) /\ TooLateToEnable(m, time) => Quiet(q, m)'

LEMMA PositionLeavesStep ==
  ASSUME CleanupTypeOK, ChainInv, NEW q \in Pools, NEW m \in Markets,
         holdings[q][m] > 0, PositionLeaves(q, m), UNCHANGED <<time, live>>
  PROVE  ChainStep /\ holdings' \in [Pools -> [Markets -> Nat]]
         /\ binding' \in [Pools -> [Markets -> BindingRecord]]
<1>1. binding[q][m] \in BindingRecord /\ holdings[q][m] \in Nat BY DEF CleanupTypeOK
<1>2. /\ holdings'[q][m] = holdings[q][m] - 1 /\ holdings'[q][m] \in Nat
      /\ \A p \in Pools, n \in Markets : p # q \/ n # m => holdings'[p][n] = holdings[p][n]
  BY <1>1 DEF PositionLeaves, CleanupTypeOK
<1>3. /\ binding'[q][m] = [binding[q][m] EXCEPT !.openPositions =
                             IF binding[q][m].openPositionsKnown THEN @ - 1 ELSE @]
      /\ \A p \in Pools, n \in Markets : p # q \/ n # m => binding'[p][n] = binding[p][n]
  BY DEF PositionLeaves, CleanupTypeOK
<1>4. binding'[q][m] \in BindingRecord BY <1>1, <1>3 DEF BindingRecord
<1>5. holdings' \in [Pools -> [Markets -> Nat]] /\ binding' \in [Pools -> [Markets -> BindingRecord]]
  BY <1>2, <1>4 DEF PositionLeaves, CleanupTypeOK
<1>6. Counted(q, m)' /\ Legacy(q, m)' = Legacy(q, m) /\ Quiet(q, m) = FALSE
  BY <1>1, <1>2, <1>3 DEF Counted, ChainInv, Legacy, Quiet, Unbound, BindingRecord
<1>7. ASSUME NEW p \in Pools, NEW n \in Markets, p # q \/ n # m
      PROVE  Counted(p, n)' /\ Legacy(p, n)' = Legacy(p, n) /\ Quiet(p, n)' = Quiet(p, n)
  BY <1>2, <1>3, <1>7 DEF Counted, ChainInv, Legacy, Quiet
<1>8. ClosedMarketsOweNothing'
  BY <1>1, <1>2 DEF ClosedMarketsOweNothing, ChainInv
<1>. QED BY <1>5, <1>6, <1>7, <1>8 DEF ChainStep, ChainInv, CleanupTypeOK

LEMMA MarketClosesStep ==
  ASSUME CleanupTypeOK, ChainInv, NEW q \in Pools, NEW m \in Markets,
         IsIdleBinding(binding[q][m]), \A p \in Pools : holdings[p][m] = 0,
         live' = live \ {m}, binding' = [binding EXCEPT ![q][m] = Unbound],
         UNCHANGED <<time, holdings>>
  PROVE  ChainStep /\ binding' \in [Pools -> [Markets -> BindingRecord]]
<1>1. binding' \in [Pools -> [Markets -> BindingRecord]] BY UnboundType DEF CleanupTypeOK
<1>2. /\ binding'[q][m] = Unbound
      /\ \A p \in Pools, n \in Markets : p # q \/ n # m => binding'[p][n] = binding[p][n]
  BY DEF CleanupTypeOK
<1>3. Counted(q, m)' /\ Legacy(q, m)' = Legacy(q, m) /\ Quiet(q, m)'
  BY <1>2 DEF Counted, Legacy, Quiet, Unbound, IsIdleBinding
<1>4. ASSUME NEW p \in Pools, NEW n \in Markets, p # q \/ n # m
      PROVE  Counted(p, n)' /\ Legacy(p, n)' = Legacy(p, n) /\ Quiet(p, n)' = Quiet(p, n)
  BY <1>2, <1>4 DEF Counted, ChainInv, Legacy, Quiet
<1>5. ClosedMarketsOweNothing'
  <2>1. \A n \in Markets \ live', p \in Pools : holdings[p][n] = 0 BY DEF ClosedMarketsOweNothing, ChainInv
  <2>. QED BY <2>1 DEF ClosedMarketsOweNothing
<1>. QED BY <1>1, <1>3, <1>4, <1>5 DEF ChainStep, ChainInv, CleanupTypeOK

LEMMA SetPoolMarketStep ==
  ASSUME CleanupTypeOK, ChainInv, NEW q \in Pools, NEW m \in Markets, NEW enable \in BOOLEAN,
         SetPoolMarket(q, m, enable)
  PROVE  ChainStep /\ binding' \in [Pools -> [Markets -> BindingRecord]]
<1>1. binding[q][m] \in BindingRecord BY DEF CleanupTypeOK
<1>2. /\ binding'[q][m] = IF binding[q][m] = Unbound THEN Binding(enable, TRUE, 0)
                          ELSE [binding[q][m] EXCEPT !.enabled = enable]
      /\ \A p \in Pools, n \in Markets : p # q \/ n # m => binding'[p][n] = binding[p][n]
  BY DEF SetPoolMarket, CleanupTypeOK
<1>3. binding'[q][m] \in BindingRecord BY <1>1, <1>2 DEF BindingRecord, Binding
<1>4. binding' \in [Pools -> [Markets -> BindingRecord]]
  BY <1>3 DEF SetPoolMarket, CleanupTypeOK
<1>5. UNCHANGED <<time, live, holdings>> /\ m \in live
      /\ (enable => ~TooLateToEnable(m, time))
  <2>1. Terms[m] \in TermsRecord BY TermsAssumption
  <2>2. Expiry(m) \in Nat /\ MIN_MARKET_LEAD \in Nat
    BY <2>1, DurationsAssumption DEF TermsRecord, Expiry
  <2>. QED BY <2>2 DEF SetPoolMarket, TooLateToEnable, Expiry, CleanupTypeOK
<1>6. Counted(q, m)' /\ Legacy(q, m)' = Legacy(q, m)
  <2>1. Counted(q, m) /\ holdings'[q][m] = holdings[q][m] BY <1>5 DEF ChainInv
  <2>2. CASE binding[q][m] = Unbound
    BY <1>2, <2>1, <2>2 DEF Counted, Legacy, Unbound, Binding
  <2>3. CASE binding[q][m] # Unbound
    <3>1. /\ binding'[q][m].openPositionsKnown = binding[q][m].openPositionsKnown
          /\ binding'[q][m].openPositions = binding[q][m].openPositions
      BY <1>1, <1>2, <2>3 DEF BindingRecord
    <3>. QED BY <1>1, <1>2, <2>1, <2>3, <3>1 DEF Counted, Legacy, Unbound, BindingRecord
  <2>. QED BY <2>2, <2>3
<1>7. ~enable => binding'[q][m].enabled = FALSE
  BY <1>1, <1>2 DEF BindingRecord, Binding
<1>8. Quiet(q, m) /\ TooLateToEnable(m, time) => Quiet(q, m)' BY <1>5, <1>7 DEF Quiet
<1>9. ASSUME NEW p \in Pools, NEW n \in Markets, p # q \/ n # m
      PROVE  Counted(p, n)' /\ Legacy(p, n)' = Legacy(p, n) /\ Quiet(p, n)' = Quiet(p, n)
  BY <1>2, <1>5, <1>9 DEF Counted, ChainInv, Legacy, Quiet
<1>10. ClosedMarketsOweNothing' BY <1>5 DEF ClosedMarketsOweNothing, ChainInv
<1>. QED BY <1>4, <1>5, <1>6, <1>8, <1>9, <1>10 DEF ChainStep, ChainInv, CleanupTypeOK

LEMMA FillPositionStep ==
  ASSUME CleanupTypeOK, ChainInv, NEW q \in Pools, NEW m \in Markets, FillPosition(q, m)
  PROVE  /\ ChainStep /\ holdings' \in [Pools -> [Markets -> Nat]]
         /\ binding' \in [Pools -> [Markets -> BindingRecord]]
<1>1. binding[q][m] \in BindingRecord /\ holdings[q][m] \in Nat BY DEF CleanupTypeOK
<1>2. /\ holdings'[q][m] = holdings[q][m] + 1 /\ holdings'[q][m] \in Nat
      /\ \A p \in Pools, n \in Markets : p # q \/ n # m => holdings'[p][n] = holdings[p][n]
  BY <1>1 DEF FillPosition, CleanupTypeOK
<1>3. /\ binding'[q][m] = [binding[q][m] EXCEPT !.openPositions =
                             IF binding[q][m].openPositionsKnown THEN @ + 1 ELSE @]
      /\ \A p \in Pools, n \in Markets : p # q \/ n # m => binding'[p][n] = binding[p][n]
  BY DEF FillPosition, CleanupTypeOK
<1>4. binding'[q][m] \in BindingRecord BY <1>1, <1>3 DEF BindingRecord
<1>5. holdings' \in [Pools -> [Markets -> Nat]] /\ binding' \in [Pools -> [Markets -> BindingRecord]]
  <2>1. holdings' \in [Pools -> [Markets -> Nat]] BY <1>2 DEF FillPosition, CleanupTypeOK
  <2>2. PICK b \in BindingRecord : binding' = [binding EXCEPT ![q][m] = b]
    BY <1>3, <1>4 DEF FillPosition, CleanupTypeOK
  <2>3. binding' \in [Pools -> [Markets -> BindingRecord]]
    BY <2>2, UpdateTyped DEF CleanupTypeOK
  <2>. QED BY <2>1, <2>3
<1>6. UNCHANGED <<time, live>> /\ m \in live /\ binding[q][m].enabled BY DEF FillPosition
<1>7. Counted(q, m)' /\ Legacy(q, m)' = Legacy(q, m) /\ Quiet(q, m) = FALSE
  BY <1>1, <1>2, <1>3, <1>6 DEF Counted, ChainInv, Legacy, Quiet, Unbound, BindingRecord
<1>8. ASSUME NEW p \in Pools, NEW n \in Markets, p # q \/ n # m
      PROVE  Counted(p, n)' /\ Legacy(p, n)' = Legacy(p, n) /\ Quiet(p, n)' = Quiet(p, n)
  BY <1>2, <1>3, <1>8 DEF Counted, ChainInv, Legacy, Quiet
<1>9. ClosedMarketsOweNothing'
  BY <1>2, <1>6 DEF ClosedMarketsOweNothing, ChainInv
<1>. QED BY <1>5, <1>6, <1>7, <1>8, <1>9 DEF ChainStep, ChainInv, CleanupTypeOK

LEMMA NoChange ==
  ASSUME CleanupTypeOK, ChainInv, UNCHANGED <<time, live, binding, holdings>>
  PROVE  ChainStep
BY DEF ChainStep, ChainInv, CleanupTypeOK, Counted, Legacy, Quiet, ClosedMarketsOweNothing

(* A run that does nothing but work off its list keeps what it may rely on *)
(* whatever step of the program comes between.                             *)
LEMMA RunKept ==
  ASSUME CleanupTypeOK, CleanupTypeOK', ChainStep, NEW c \in Cleaners, RunInv(c),
         cleaner'[c].at = cleaner[c].at, cleaner'[c].began = cleaner[c].began,
         cleaner'[c].reads = cleaner[c].reads, cleaner'[c].clock = cleaner[c].clock,
         cleaner'[c].bindings = cleaner[c].bindings, cleaner'[c].due \subseteq cleaner[c].due,
         cleaner[c].at # "idle" => time' <= cleaner[c].began + MAX_RUN
  PROVE  RunInv(c)'
<1> DEFINE r == cleaner[c]
<1>1. r \in RunRecord /\ time \in Nat /\ time' \in Nat /\ time <= time' BY DEF CleanupTypeOK, ChainStep
<1>2. r.began \in Nat /\ r.clock \in Nat BY <1>1 DEF RunRecord
<1>7. /\ r.at # "idle" => r.began <= time
      /\ "clock" \in r.reads => r.clock <= time
      /\ "current bindings" \in r.reads => r.began <= time
  BY DEF RunInv
<1>3. ASSUME NEW q \in Pools, NEW m \in Markets, "current bindings" \in r.reads,
             ~Legacy(q, m), TooLateToEnable(m, r.began),
             r.bindings[q][m] = Unbound \/ IsIdleBinding(r.bindings[q][m])
      PROVE  Quiet(q, m)'
  <2>1. Quiet(q, m) /\ r.began <= time BY <1>3, <1>7 DEF RunInv
  <2>2. Expiry(m) \in Nat /\ MIN_MARKET_LEAD \in Nat
    <3>1. Terms[m] \in TermsRecord BY TermsAssumption
    <3>. QED BY <3>1, DurationsAssumption DEF Expiry, TermsRecord
  <2>3. TooLateToEnable(m, time)
    <3>1. r.began + MIN_MARKET_LEAD >= Expiry(m) BY <1>3 DEF TooLateToEnable
    <3>. HIDE DEF r
    <3>2. time + MIN_MARKET_LEAD >= Expiry(m) BY <1>1, <1>2, <2>1, <2>2, <3>1
    <3>. QED BY <3>2 DEF TooLateToEnable
  <2>. QED BY <2>1, <2>3 DEF ChainStep
<1>4. \A q \in Pools, m \in Markets : Legacy(q, m)' = Legacy(q, m) BY DEF ChainStep
<1>5. r.at # "idle" => r.began <= time'
  <2>1. SUFFICES ASSUME r.began <= time PROVE r.began <= time' BY <1>7
  <2>. QED BY <1>1, <1>2, <2>1
<1>6. "clock" \in r.reads => r.clock <= time'
  <2>1. SUFFICES ASSUME r.clock <= time PROVE r.clock <= time' BY <1>7
  <2>. QED BY <1>1, <1>2, <2>1
<1>. HIDE DEF Legacy, Quiet
<1>. QED BY <1>3, <1>4, <1>5, <1>6 DEF RunInv

(* The lists of the runs, whatever is on them.                             *)
LEMMA ReadStep ==
  ASSUME CleanupInv, NEW c \in Cleaners, NEW read, FetchAll(c, read)
  PROVE  cleaner'[c] \in RunRecord /\ RunInv(c)'
<1> DEFINE r == cleaner[c]
<1>1. r \in RunRecord /\ time \in Nat /\ CleanupTypeOK /\ ChainInv /\ RunInv(c)
  BY DEF CleanupInv, CleanupTypeOK
<1>2. r.at = "read" /\ read \in Reads /\ read \notin r.reads /\ UNCHANGED cleanupChain
  BY DEF FetchAll
<1>3. \A isLegacy \in BOOLEAN : MergeBindings(r.bindings, isLegacy) \in [Pools -> [Markets -> BindingRecord]]
  BY <1>1 DEF MergeBindings, RunRecord, CleanupTypeOK
<1>4. PICK s \in RunRecord :
        /\ s = cleaner'[c]
        /\ s.at = "read" /\ s.began = r.began /\ s.reads = r.reads \cup {read}
        /\ s.clock = IF read = "clock" THEN time ELSE r.clock
        /\ s.bindings = CASE read = "legacy bindings" -> MergeBindings(r.bindings, TRUE)
                          [] read = "current bindings" -> MergeBindings(r.bindings, FALSE)
                          [] OTHER -> r.bindings
  <2>1. r.reads \cup {read} \in SUBSET (Scans \cup Reads) BY <1>1, <1>2 DEF RunRecord
  <2>2. CASE read = "positions"
    <3> DEFINE s == [r EXCEPT !.reads = @ \cup {read},
                       !.positions = {m \in Markets : \E q \in Pools : holdings[q][m] > 0}]
    <3>1. s = cleaner'[c] BY <1>1, <2>2 DEF FetchAll, CleanupTypeOK
    <3>2. s \in RunRecord BY <1>1, <2>1 DEF RunRecord
    <3>. QED BY <1>1, <1>2, <2>2, <3>1, <3>2 DEF RunRecord
  <2>3. CASE read = "markets"
    <3> DEFINE s == [r EXCEPT !.reads = @ \cup {read}, !.markets = live]
    <3>1. s = cleaner'[c] BY <1>1, <2>3 DEF FetchAll, CleanupTypeOK
    <3>2. s \in RunRecord BY <1>1, <2>1 DEF RunRecord, CleanupTypeOK
    <3>. QED BY <1>1, <1>2, <2>3, <3>1, <3>2 DEF RunRecord
  <2>4. CASE read = "legacy bindings"
    <3> DEFINE s == [r EXCEPT !.reads = @ \cup {read}, !.bindings = MergeBindings(@, TRUE)]
    <3>1. s = cleaner'[c] BY <1>1, <2>4 DEF FetchAll, CleanupTypeOK
    <3>2. s \in RunRecord BY <1>1, <1>3, <2>1 DEF RunRecord
    <3>. QED BY <1>1, <1>2, <2>4, <3>1, <3>2 DEF RunRecord
  <2>5. CASE read = "current bindings"
    <3> DEFINE s == [r EXCEPT !.reads = @ \cup {read}, !.bindings = MergeBindings(@, FALSE)]
    <3>1. s = cleaner'[c] BY <1>1, <2>5 DEF FetchAll, CleanupTypeOK
    <3>2. s \in RunRecord BY <1>1, <1>3, <2>1 DEF RunRecord
    <3>. QED BY <1>1, <1>2, <2>5, <3>1, <3>2 DEF RunRecord
  <2>6. CASE read = "clock"
    <3> DEFINE s == [r EXCEPT !.reads = @ \cup {read}, !.clock = time]
    <3>1. s = cleaner'[c] BY <1>1, <2>6 DEF FetchAll, CleanupTypeOK
    <3>2. s \in RunRecord BY <1>1, <2>1 DEF RunRecord
    <3>. QED BY <1>1, <1>2, <2>6, <3>1, <3>2 DEF RunRecord
  <2>. QED BY <1>2, <2>2, <2>3, <2>4, <2>5, <2>6 DEF Reads
<1>7. UNCHANGED <<time, binding, holdings>> BY <1>2 DEF cleanupChain
<1>8. \A q \in Pools, m \in Markets : Legacy(q, m)' = Legacy(q, m) /\ Quiet(q, m)' = Quiet(q, m)
  BY <1>7 DEF Legacy, Quiet
<1>9. ASSUME NEW q \in Pools, NEW m \in Markets
      PROVE  /\ "legacy bindings" \in s.reads /\ Legacy(q, m) =>
                  s.bindings[q][m] # Unbound /\ ~s.bindings[q][m].openPositionsKnown
             /\ /\ "current bindings" \in s.reads
                /\ ~Legacy(q, m) /\ TooLateToEnable(m, s.began)
                /\ s.bindings[q][m] = Unbound \/ IsIdleBinding(s.bindings[q][m])
                => Quiet(q, m)
  <2> DEFINE b == binding[q][m]
  <2>1. b \in BindingRecord /\ Counted(q, m) /\ holdings[q][m] \in Nat
    BY <1>1 DEF CleanupTypeOK, ChainInv
  <2>2. /\ read = "legacy bindings" =>
             s.bindings[q][m] = IF Legacy(q, m) THEN b ELSE r.bindings[q][m]
        /\ read = "current bindings" =>
             s.bindings[q][m] = IF b.openPositionsKnown THEN b ELSE r.bindings[q][m]
        /\ read \notin {"legacy bindings", "current bindings"} => s.bindings[q][m] = r.bindings[q][m]
    <3>1. b.openPositionsKnown => b # Unbound BY <2>1 DEF Unbound
    <3>2. b.openPositionsKnown \in BOOLEAN BY <2>1 DEF BindingRecord
    <3>. HIDE DEF r
    <3>3. MergeBindings(r.bindings, TRUE)[q][m] = IF Legacy(q, m) THEN b ELSE r.bindings[q][m]
      BY <3>1, <3>2 DEF MergeBindings, Legacy
    <3>4. MergeBindings(r.bindings, FALSE)[q][m] = IF b.openPositionsKnown THEN b ELSE r.bindings[q][m]
      BY <3>1, <3>2 DEF MergeBindings
    <3>. QED BY <1>4, <3>3, <3>4
  <2>3. /\ "legacy bindings" \in r.reads /\ Legacy(q, m) =>
             r.bindings[q][m] # Unbound /\ ~r.bindings[q][m].openPositionsKnown
        /\ /\ "current bindings" \in r.reads
           /\ ~Legacy(q, m) /\ TooLateToEnable(m, r.began)
           /\ r.bindings[q][m] = Unbound \/ IsIdleBinding(r.bindings[q][m])
           => Quiet(q, m)
    BY <1>1 DEF RunInv
  <2>4. b = Unbound \/ IsIdleBinding(b) => Quiet(q, m)
    BY <2>1 DEF Counted, Quiet, IsIdleBinding, Unbound
  <2>5. Legacy(q, m) => b # Unbound /\ ~b.openPositionsKnown BY DEF Legacy
  <2>6. ~Legacy(q, m) => b = Unbound \/ b.openPositionsKnown BY DEF Legacy
  <2>. HIDE DEF b, r, Legacy, Quiet, IsIdleBinding, Unbound
  <2>. QED BY <1>4, <2>2, <2>3, <2>4, <2>5, <2>6
<1>10. /\ s.began <= time /\ time <= s.began + MAX_RUN
       /\ "clock" \in s.reads => s.clock <= time
  <2>1. r.began <= time /\ time <= r.began + MAX_RUN /\ ("clock" \in r.reads => r.clock <= time)
    BY <1>1, <1>2 DEF RunInv
  <2>2. r.began \in Nat /\ r.clock \in Nat BY <1>1 DEF RunRecord
  <2>3. CASE read = "clock" BY <1>1, <1>4, <2>1, <2>3
  <2>4. CASE read # "clock" BY <1>4, <2>1, <2>4
  <2>. QED BY <2>3, <2>4
<1>11. RunInv(c)'
  <2>1. s.at = "read" BY <1>4
  <2>. HIDE DEF Legacy, Quiet, IsIdleBinding, Unbound
  <2>. QED BY <2>1, <1>4, <1>7, <1>8, <1>9, <1>10 DEF RunInv
<1>. QED BY <1>4, <1>11

(* A run that has just begun, or has ended, has read nothing.              *)
LEMMA FreshRun ==
  ASSUME CleanupInv, NEW c \in Cleaners, UNCHANGED cleanupChain,
         cleaner' = [cleaner EXCEPT ![c] = cleaner'[c]],
         \/ cleaner'[c] = NoScan
         \/ cleaner'[c] = [NoScan EXCEPT !.at = "scan", !.began = time]
         \/ cleaner'[c] = [NoScan EXCEPT !.at = "read", !.began = time]
  PROVE  cleaner'[c] \in RunRecord /\ RunInv(c)'
<1>1. time \in Nat /\ MAX_RUN \in Nat /\ time' = time
  BY CleanupAssumption DEF CleanupInv, CleanupTypeOK, cleanupChain
<1>2. CASE cleaner'[c] = NoScan
  BY <1>2, UnboundType DEF RunInv, NoScan
<1>3. ASSUME NEW at \in {"scan", "read"}, cleaner'[c] = [NoScan EXCEPT !.at = at, !.began = time]
      PROVE  cleaner'[c] \in RunRecord /\ RunInv(c)'
  <2>1. cleaner'[c] \in RunRecord BY <1>1, <1>3, UnboundType DEF RunRecord
  <2>2. cleaner'[c].at = at /\ cleaner'[c].began = time /\ cleaner'[c].reads = {}
    BY <1>3 DEF NoScan
  <2>. QED BY <1>1, <2>1, <2>2 DEF RunInv
<1>. QED BY <1>2, <1>3

LEMMA ScanStep ==
  ASSUME CleanupInv, NEW c \in Cleaners, NEW read, ScanForSettlement(c, read)
  PROVE  cleaner'[c] \in RunRecord /\ RunInv(c)'
<1> DEFINE r == cleaner[c]
<1>1. r \in RunRecord /\ time \in Nat /\ CleanupTypeOK /\ RunInv(c)
  BY DEF CleanupInv, CleanupTypeOK
<1>2. r.at = "scan" /\ read \in Scans /\ UNCHANGED <<time, live, priced, binding, holdings>>
  BY DEF ScanForSettlement, cleanupChain
<1>3. PICK s \in RunRecord :
        /\ s = cleaner'[c]
        /\ s.at = "scan" /\ s.began = r.began /\ s.reads = r.reads \cup {read}
        /\ s.clock = IF read = "clock" THEN time ELSE r.clock
        /\ s.bindings = r.bindings
  <2>1. r.reads \cup {read} \in SUBSET (Scans \cup Reads) BY <1>1, <1>2 DEF RunRecord
  <2>2. CASE read = "positions"
    <3> DEFINE s == [r EXCEPT !.reads = @ \cup {read},
                       !.positions = {p \in Pools \X Markets : holdings[p[1]][p[2]] > 0}]
    <3>1. s = cleaner'[c] BY <1>1, <2>2 DEF ScanForSettlement, CleanupTypeOK
    <3>2. s \in RunRecord BY <1>1, <2>1 DEF RunRecord
    <3>. QED BY <1>1, <1>2, <2>2, <3>1, <3>2 DEF RunRecord
  <2>3. CASE read = "markets"
    <3> DEFINE s == [r EXCEPT !.reads = @ \cup {read}, !.markets = live]
    <3>1. s = cleaner'[c] BY <1>1, <2>3 DEF ScanForSettlement, CleanupTypeOK
    <3>2. s \in RunRecord BY <1>1, <2>1 DEF RunRecord, CleanupTypeOK
    <3>. QED BY <1>1, <1>2, <2>3, <3>1, <3>2 DEF RunRecord
  <2>4. CASE read = "clock"
    <3> DEFINE s == [r EXCEPT !.reads = @ \cup {read}, !.clock = time]
    <3>1. s = cleaner'[c] BY <1>1, <2>4 DEF ScanForSettlement, CleanupTypeOK
    <3>2. s \in RunRecord BY <1>1, <2>1 DEF RunRecord
    <3>. QED BY <1>1, <1>2, <2>4, <3>1, <3>2 DEF RunRecord
  <2>. QED BY <1>2, <2>2, <2>3, <2>4 DEF Scans
<1>4. \A q \in Pools, m \in Markets : Legacy(q, m)' = Legacy(q, m) /\ Quiet(q, m)' = Quiet(q, m)
  BY <1>2 DEF Legacy, Quiet
<1>5. /\ "legacy bindings" \in s.reads <=> "legacy bindings" \in r.reads
      /\ "current bindings" \in s.reads <=> "current bindings" \in r.reads
  BY <1>2, <1>3 DEF Scans
<1>6. /\ s.began <= time /\ time <= s.began + MAX_RUN
      /\ "clock" \in s.reads => s.clock <= time
  <2>1. r.began <= time /\ time <= r.began + MAX_RUN /\ ("clock" \in r.reads => r.clock <= time)
    BY <1>1, <1>2 DEF RunInv
  <2>2. CASE read = "clock" BY <1>1, <1>3, <2>1, <2>2
  <2>3. CASE read # "clock" BY <1>3, <2>1, <2>3
  <2>. QED BY <2>2, <2>3
<1>7. RunInv(c)'
  <2>1. s.at = "scan" BY <1>3
  <2>. HIDE DEF Legacy, Quiet, IsIdleBinding, Unbound
  <2>. QED BY <2>1, <1>1, <1>2, <1>3, <1>4, <1>5, <1>6 DEF RunInv
<1>. QED BY <1>3, <1>7

(* Going on to the next part of a run adds no reads.                       *)
LEMMA TurnStep ==
  ASSUME CleanupInv, NEW c \in Cleaners, FetchOracleStates(c) \/ SelectCandidates(c)
  PROVE  cleaner'[c] \in RunRecord /\ RunInv(c)'
<1> DEFINE r == cleaner[c]
<1>1. r \in RunRecord /\ CleanupTypeOK /\ RunInv(c) BY DEF CleanupInv, CleanupTypeOK
<1>2. UNCHANGED <<time, live, priced, binding, holdings>>
  BY DEF FetchOracleStates, SelectCandidates, cleanupChain
<1>3. PICK s \in RunRecord :
        /\ s = cleaner'[c] /\ r.at # "idle"
        /\ s.began = r.began /\ s.reads = r.reads /\ s.clock = r.clock /\ s.bindings = r.bindings
        /\ s.at = "publish" \/ /\ s.at = "close" /\ r.reads = Reads
                               /\ \A m \in s.due : r.clock > computeMarketCloseDeadline(m)
  <2>1. CASE FetchOracleStates(c)
    <3> DEFINE readable == r.markets \cap live
               final == readable \cap priced
               publishable == selectMarketsNeedingSettlementAttempt(r.markets, r.clock, final,
                                                                    {p[2] : p \in r.positions})
               s == [r EXCEPT !.at = "publish", !.priced = final,
                              !.positions = {p \in Expired(c) : p[2] \in readable},
                              !.due = (publishable \cup {p[2] : p \in Expired(c)}) \cap readable]
    <3>1. s = cleaner'[c] BY <1>1, <2>1 DEF FetchOracleStates, CleanupTypeOK
    <3>2. /\ readable \subseteq Markets /\ final \subseteq Markets
          /\ {p \in Expired(c) : p[2] \in readable} \subseteq Markets \cup (Pools \X Markets)
          /\ (publishable \cup {p[2] : p \in Expired(c)}) \cap readable \subseteq Markets
      BY <1>1 DEF RunRecord, Expired
    <3>3. s \in RunRecord
      <4>. HIDE DEF readable, final, publishable
      <4>. QED BY <1>1, <3>2 DEF RunRecord
    <3>4. r.at = "scan" BY <2>1 DEF FetchOracleStates
    <3>5. s.at = "publish" /\ s.began = r.began /\ s.reads = r.reads /\ s.clock = r.clock
          /\ s.bindings = r.bindings
      <4>. HIDE DEF readable, final, publishable
      <4>. QED BY <1>1 DEF RunRecord
    <3>. HIDE DEF s
    <3>. QED BY <3>1, <3>3, <3>4, <3>5
  <2>2. CASE SelectCandidates(c)
    <3> DEFINE all == selectMarketCloseCandidates(r.markets, r.clock, r.positions)
    <3>1. PICK due \in SUBSET all : cleaner' = [cleaner EXCEPT ![c].at = "close", ![c].due = due]
      BY <2>2 DEF SelectCandidates
    <3>2. all \subseteq Markets /\ \A m \in all : r.clock > computeMarketCloseDeadline(m)
      BY <1>1 DEF selectMarketCloseCandidates, RunRecord
    <3> DEFINE s == [r EXCEPT !.at = "close", !.due = due]
    <3>3. s = cleaner'[c] BY <1>1, <3>1 DEF CleanupTypeOK
    <3>4. s \in RunRecord BY <1>1, <3>2 DEF RunRecord
    <3>5. r.at = "read" /\ r.reads = Reads BY <2>2 DEF SelectCandidates
    <3>6. s.at = "close" /\ s.due = due /\ s.began = r.began /\ s.reads = r.reads /\ s.clock = r.clock
          /\ s.bindings = r.bindings
      BY <1>1 DEF RunRecord
    <3>. HIDE DEF s, all
    <3>. QED BY <3>1, <3>2, <3>3, <3>4, <3>5, <3>6
  <2>. QED BY <2>1, <2>2
<1>4. \A q \in Pools, m \in Markets : Legacy(q, m)' = Legacy(q, m) /\ Quiet(q, m)' = Quiet(q, m)
  BY <1>2 DEF Legacy, Quiet
<1>5. RunInv(c)'
  <2>. HIDE DEF Legacy, Quiet, IsIdleBinding, Unbound
  <2>. QED BY <1>1, <1>2, <1>3, <1>4 DEF RunInv
<1>. QED BY <1>3, <1>5

(* All a run has read of a market, at whatever instants, amounts to this:  *)
(* no pool has a position on it now.                                       *)
LEMMA NothingIsLeft ==
  ASSUME CleanupInv, NEW c \in Cleaners, NEW q \in Pools, NEW m \in Markets,
         cleaner[c].at = "close", m \in cleaner[c].due,
         q \in selectIdlePoolBindingFor(BindingsSeen(c, m))
  PROVE  \A p \in Pools : holdings[p][m] = 0
<1> DEFINE r == cleaner[c]
<1>1. r \in RunRecord /\ time \in Nat /\ RunInv(c) BY DEF CleanupInv, CleanupTypeOK
<1>2. r.began \in Nat /\ r.clock \in Nat BY <1>1 DEF RunRecord
<1>3. r.clock > computeMarketCloseDeadline(m) /\ r.clock <= time /\ time <= r.began + MAX_RUN
      /\ r.reads = Reads
  BY <1>1 DEF RunInv, Reads
<1>4. TooLateToEnable(m, r.began) BY <1>1, <1>2, <1>3, RunsAreShort
<1>5. \A p \in Pools : r.bindings[p][m] = Unbound \/ IsIdleBinding(r.bindings[p][m])
  BY DEF selectIdlePoolBindingFor, BindingsSeen
<1>6. ASSUME NEW p \in Pools PROVE holdings[p][m] = 0
  <2>1. ~Legacy(p, m) BY <1>1, <1>3, <1>5 DEF RunInv, Reads, IsIdleBinding
  <2>. QED BY <1>1, <1>3, <1>4, <1>5, <2>1 DEF RunInv, Reads, Quiet
<1>. QED BY <1>6

(* A step of one run, on the program and on its own list.                  *)
LEMMA OneRunMoves ==
  ASSUME CleanupInv, NEW c \in Cleaners, cleaner' = [cleaner EXCEPT ![c] = cleaner'[c]],
         cleaner'[c] \in RunRecord, ChainStep, time' = time,
         live' \subseteq Markets, priced' \subseteq Markets,
         binding' \in [Pools -> [Markets -> BindingRecord]],
         holdings' \in [Pools -> [Markets -> Nat]],
         RunInv(c)' \/ /\ cleaner'[c].due \subseteq cleaner[c].due
                       /\ cleaner'[c].at = cleaner[c].at /\ cleaner'[c].began = cleaner[c].began
                       /\ cleaner'[c].reads = cleaner[c].reads /\ cleaner'[c].clock = cleaner[c].clock
                       /\ cleaner'[c].bindings = cleaner[c].bindings
  PROVE  CleanupInv'
<1>1. CleanupTypeOK /\ \A d \in Cleaners : RunInv(d) BY DEF CleanupInv
<1>2. CleanupTypeOK' BY <1>1 DEF CleanupTypeOK
<1>3. \A d \in Cleaners : cleaner[d].at # "idle" => time' <= cleaner[d].began + MAX_RUN
  BY <1>1 DEF RunInv
<1>4. ASSUME NEW d \in Cleaners, d # c PROVE RunInv(d)'
  <2>1. cleaner'[d] = cleaner[d] BY <1>1, <1>4 DEF CleanupTypeOK
  <2>. QED BY <1>1, <1>2, <1>3, <2>1, RunKept
<1>5. RunInv(c)' BY <1>1, <1>2, <1>3, RunKept
<1>. QED BY <1>2, <1>4, <1>5 DEF CleanupInv, ChainStep

(* A step of somebody else.                                                *)
LEMMA NoRunMoves ==
  ASSUME CleanupInv, UNCHANGED cleaner, ChainStep,
         \A c \in Cleaners : cleaner[c].at # "idle" => time' <= cleaner[c].began + MAX_RUN,
         live' \subseteq Markets, priced' \subseteq Markets,
         binding' \in [Pools -> [Markets -> BindingRecord]],
         holdings' \in [Pools -> [Markets -> Nat]]
  PROVE  CleanupInv'
<1>1. CleanupTypeOK /\ \A d \in Cleaners : RunInv(d) BY DEF CleanupInv
<1>2. CleanupTypeOK' BY <1>1 DEF CleanupTypeOK, ChainStep
<1>3. \A d \in Cleaners : RunInv(d)' BY <1>1, <1>2, RunKept
<1>. QED BY <1>2, <1>3 DEF CleanupInv, ChainStep

LEMMA OthersStep ==
  ASSUME CleanupInv,
         \/ Later
         \/ \E m \in Markets : RivalPublishes(m)
         \/ \E q \in Pools, m \in Markets :
              \/ FillPosition(q, m) \/ ResolvePosition(q, m) \/ RivalCloses(q, m)
              \/ \E enable \in BOOLEAN : SetPoolMarket(q, m, enable)
  PROVE  CleanupInv'
<1>1. CleanupTypeOK /\ ChainInv /\ \A c \in Cleaners : RunInv(c) BY DEF CleanupInv
<1>2. \A c \in Cleaners : cleaner[c].at # "idle" => time <= cleaner[c].began + MAX_RUN
  BY <1>1 DEF RunInv
<1>3. CASE Later
  <2>1. time \in Nat /\ time' \in Nat /\ time <= time' BY <1>1, <1>3, CleanupAssumption DEF Later, CleanupTypeOK
  <2>2. UNCHANGED <<live, priced, binding, holdings, cleaner>> BY <1>3 DEF Later
  <2>3. ChainStep
    BY <1>1, <2>1, <2>2 DEF ChainStep, ChainInv, Counted, Legacy, Quiet, ClosedMarketsOweNothing
  <2>4. \A c \in Cleaners : cleaner[c].at # "idle" => time' <= cleaner[c].began + MAX_RUN
    BY <1>3 DEF Later
  <2>. QED BY <1>1, <2>2, <2>3, <2>4, NoRunMoves DEF CleanupTypeOK
<1>4. ASSUME NEW m \in Markets, RivalPublishes(m) PROVE CleanupInv'
  <2>1. UNCHANGED <<time, live, binding, holdings, cleaner>> /\ priced' \subseteq Markets
    BY <1>1, <1>4 DEF RivalPublishes, publishSettlementForMarket, CleanupTypeOK
  <2>. QED BY <1>1, <1>2, <2>1, NoChange, NoRunMoves DEF CleanupTypeOK
<1>5. ASSUME NEW q \in Pools, NEW m \in Markets, FillPosition(q, m) PROVE CleanupInv'
  <2>1. UNCHANGED <<time, live, priced, cleaner>> BY <1>5 DEF FillPosition
  <2>. QED BY <1>1, <1>2, <1>5, <2>1, FillPositionStep, NoRunMoves DEF CleanupTypeOK
<1>6. ASSUME NEW q \in Pools, NEW m \in Markets, ResolvePosition(q, m) PROVE CleanupInv'
  <2>1. UNCHANGED <<time, live, priced, cleaner>> /\ PositionLeaves(q, m) /\ holdings[q][m] > 0
    BY <1>6 DEF ResolvePosition, CloseEarlyAllowed, SettleAllowed, RefundAllowed
  <2>. QED BY <1>1, <1>2, <2>1, PositionLeavesStep, NoRunMoves DEF CleanupTypeOK
<1>7. ASSUME NEW q \in Pools, NEW m \in Markets, RivalCloses(q, m) PROVE CleanupInv'
  <2>1. UNCHANGED <<time, priced, holdings, cleaner>> /\ live' = live \ {m}
        /\ binding' = [binding EXCEPT ![q][m] = Unbound]
    BY <1>7 DEF RivalCloses
  <2>2. q \in selectIdlePoolBindingFor(BoundPools(m)) BY <1>7 DEF RivalCloses
  <2>3. /\ IsIdleBinding(binding[q][m])
        /\ \A p \in Pools : binding[p][m] = Unbound \/ IsIdleBinding(binding[p][m])
    BY <2>2 DEF selectIdlePoolBindingFor, BoundPools
  <2>4. \A p \in Pools : holdings[p][m] = 0
    BY <1>1, <2>3 DEF ChainInv, Counted, IsIdleBinding
  <2>. QED BY <1>1, <1>2, <2>1, <2>3, <2>4, MarketClosesStep, NoRunMoves DEF CleanupTypeOK
<1>8. ASSUME NEW q \in Pools, NEW m \in Markets, NEW enable \in BOOLEAN, SetPoolMarket(q, m, enable)
      PROVE  CleanupInv'
  <2>1. UNCHANGED <<time, live, priced, holdings, cleaner>> BY <1>8 DEF SetPoolMarket
  <2>. QED BY <1>1, <1>2, <1>8, <2>1, SetPoolMarketStep, NoRunMoves DEF CleanupTypeOK
<1>. QED BY <1>3, <1>4, <1>5, <1>6, <1>7, <1>8

LEMMA RunStep == ASSUME CleanupInv, NEW c \in Cleaners, CleanupStep(c) PROVE CleanupInv'
<1> DEFINE r == cleaner[c]
<1>1. CleanupTypeOK /\ ChainInv /\ r \in RunRecord BY DEF CleanupInv, CleanupTypeOK
<1>2. ASSUME cleaner' = [cleaner EXCEPT ![c] = cleaner'[c]], UNCHANGED cleanupChain,
             cleaner'[c] \in RunRecord /\ RunInv(c)'
      PROVE  CleanupInv'
  BY <1>1, <1>2, NoChange, OneRunMoves DEF cleanupChain, CleanupTypeOK
<1>3. ASSUME BeginSettlement(c) \/ BeginCleanup(c) \/ Stop(c) \/ EndCleanup(c) PROVE CleanupInv'
  <2>1. /\ cleaner' = [cleaner EXCEPT ![c] = cleaner'[c]] /\ UNCHANGED cleanupChain
        /\ \/ cleaner'[c] = NoScan
           \/ cleaner'[c] = [NoScan EXCEPT !.at = "scan", !.began = time]
           \/ cleaner'[c] = [NoScan EXCEPT !.at = "read", !.began = time]
    BY <1>1, <1>3 DEF BeginSettlement, BeginCleanup, Stop, EndCleanup, CleanupTypeOK
  <2>. QED BY <1>2, <2>1, FreshRun
<1>4. ASSUME NEW read \in Scans, ScanForSettlement(c, read) PROVE CleanupInv'
  <2>1. UNCHANGED cleanupChain /\ \E s : cleaner' = [cleaner EXCEPT ![c] = s]
    BY <1>4, Zenon DEF ScanForSettlement
  <2>2. cleaner' = [cleaner EXCEPT ![c] = cleaner'[c]] BY <1>1, <2>1 DEF CleanupTypeOK
  <2>. QED BY <1>2, <1>4, <2>1, <2>2, ScanStep
<1>5. ASSUME NEW read \in Reads, FetchAll(c, read) PROVE CleanupInv'
  <2>1. UNCHANGED cleanupChain /\ \E s : cleaner' = [cleaner EXCEPT ![c] = s]
    BY <1>5, Zenon DEF FetchAll
  <2>2. cleaner' = [cleaner EXCEPT ![c] = cleaner'[c]] BY <1>1, <2>1 DEF CleanupTypeOK
  <2>. QED BY <1>2, <1>5, <2>1, <2>2, ReadStep
<1>6. ASSUME FetchOracleStates(c) \/ SelectCandidates(c) PROVE CleanupInv'
  <2>1. cleaner' = [cleaner EXCEPT ![c] = cleaner'[c]] /\ UNCHANGED cleanupChain
    BY <1>1, <1>6 DEF FetchOracleStates, SelectCandidates, CleanupTypeOK
  <2>. QED BY <1>2, <1>6, <2>1, TurnStep
<1>7. ASSUME NEW m \in Markets, SkipMarket(c, m) PROVE CleanupInv'
  <2>1. cleaner'[c] = [r EXCEPT !.due = @ \ {m}] /\ cleaner' = [cleaner EXCEPT ![c] = cleaner'[c]]
        /\ UNCHANGED <<time, live, priced, binding, holdings>>
    BY <1>1, <1>7 DEF SkipMarket, CleanupTypeOK, cleanupChain
  <2>2. /\ cleaner'[c] \in RunRecord /\ cleaner'[c].due \subseteq r.due
        /\ cleaner'[c].at = r.at /\ cleaner'[c].began = r.began /\ cleaner'[c].reads = r.reads
        /\ cleaner'[c].clock = r.clock /\ cleaner'[c].bindings = r.bindings
    BY <1>1, <2>1 DEF RunRecord
  <2>. QED BY <1>1, <2>1, <2>2, NoChange, OneRunMoves DEF CleanupTypeOK
<1>8. ASSUME NEW m \in Markets, PublishOrSkip(c, m) PROVE CleanupInv'
  <2>1. UNCHANGED <<time, live, binding, holdings>> /\ priced' \subseteq Markets
    BY <1>1, <1>8 DEF PublishOrSkip, publishSettlementForMarket, CleanupTypeOK
  <2>2. \/ cleaner' = [cleaner EXCEPT ![c].priced = @ \cup {m}, ![c].due = @ \ {m}]
        \/ cleaner' = [cleaner EXCEPT ![c].due = @ \ {m}]
    BY <1>8 DEF PublishOrSkip
  <2>3. /\ cleaner' = [cleaner EXCEPT ![c] = cleaner'[c]]
        /\ \/ cleaner'[c] = [r EXCEPT !.priced = @ \cup {m}, !.due = @ \ {m}]
           \/ cleaner'[c] = [r EXCEPT !.due = @ \ {m}]
    BY <1>1, <2>2 DEF CleanupTypeOK
  <2>4. /\ cleaner'[c] \in RunRecord /\ cleaner'[c].due \subseteq r.due
        /\ cleaner'[c].at = r.at /\ cleaner'[c].began = r.began /\ cleaner'[c].reads = r.reads
        /\ cleaner'[c].clock = r.clock /\ cleaner'[c].bindings = r.bindings
    <3>1. CASE cleaner'[c] = [r EXCEPT !.priced = @ \cup {m}, !.due = @ \ {m}]
      <4>1. r.priced \cup {m} \in SUBSET Markets /\ r.due \ {m} \in SUBSET Markets
        BY <1>1 DEF RunRecord
      <4>2. PICK ps \in SUBSET Markets, ds \in SUBSET Markets :
              ds \subseteq r.due /\ cleaner'[c] = [r EXCEPT !.priced = ps, !.due = ds]
        BY <3>1, <4>1
      <4>. QED BY <1>1, <4>2 DEF RunRecord
    <3>2. CASE cleaner'[c] = [r EXCEPT !.due = @ \ {m}] BY <1>1, <3>2 DEF RunRecord
    <3>. QED BY <2>3, <3>1, <3>2
  <2>. QED BY <1>1, <2>1, <2>3, <2>4, NoChange, OneRunMoves DEF CleanupTypeOK
<1>9. ASSUME NEW q \in Pools, NEW m \in Markets, SettleOrRefund(c, q, m) PROVE CleanupInv'
  <2>1. cleaner'[c] = [r EXCEPT !.positions = @ \ {<<q, m>>}] /\ cleaner' = [cleaner EXCEPT ![c] = cleaner'[c]]
        /\ UNCHANGED <<time, live, priced>>
    BY <1>1, <1>9 DEF SettleOrRefund, CleanupTypeOK
  <2>2. /\ cleaner'[c] \in RunRecord /\ cleaner'[c].due \subseteq r.due
        /\ cleaner'[c].at = r.at /\ cleaner'[c].began = r.began /\ cleaner'[c].reads = r.reads
        /\ cleaner'[c].clock = r.clock /\ cleaner'[c].bindings = r.bindings
    BY <1>1, <2>1 DEF RunRecord
  <2>3. \/ holdings[q][m] > 0 /\ PositionLeaves(q, m)
        \/ UNCHANGED <<binding, holdings>>
    BY <1>9 DEF SettleOrRefund, SettleAllowed, RefundAllowed
  <2>4. ChainStep /\ holdings' \in [Pools -> [Markets -> Nat]]
        /\ binding' \in [Pools -> [Markets -> BindingRecord]]
    BY <1>1, <2>1, <2>3, PositionLeavesStep, NoChange DEF CleanupTypeOK
  <2>. QED BY <1>1, <2>1, <2>2, <2>4, OneRunMoves DEF CleanupTypeOK
<1>10. ASSUME NEW q \in Pools, NEW m \in Markets, closeSettledMarket(c, q, m) PROVE CleanupInv'
  <2>1. cleaner'[c] = [r EXCEPT !.due = @ \ {m}] /\ cleaner' = [cleaner EXCEPT ![c] = cleaner'[c]]
        /\ UNCHANGED <<time, priced, holdings>>
    BY <1>1, <1>10 DEF closeSettledMarket, CleanupTypeOK
  <2>2. /\ cleaner'[c] \in RunRecord /\ cleaner'[c].due \subseteq r.due
        /\ cleaner'[c].at = r.at /\ cleaner'[c].began = r.began /\ cleaner'[c].reads = r.reads
        /\ cleaner'[c].clock = r.clock /\ cleaner'[c].bindings = r.bindings
    BY <1>1, <2>1 DEF RunRecord
  <2>3. \A p \in Pools : holdings[p][m] = 0
    BY <1>10, NothingIsLeft DEF closeSettledMarket
  <2>4. CASE CloseAllowed(q, m)
    <3>1. IsIdleBinding(binding[q][m]) /\ live' = live \ {m}
          /\ binding' = [binding EXCEPT ![q][m] = Unbound]
      BY <1>10, <2>4 DEF closeSettledMarket, CloseAllowed
    <3>2. ChainStep /\ binding' \in [Pools -> [Markets -> BindingRecord]]
      BY <1>1, <2>1, <2>3, <3>1, MarketClosesStep
    <3>. QED BY <1>1, <2>1, <2>2, <3>1, <3>2, OneRunMoves DEF CleanupTypeOK
  <2>5. CASE ~CloseAllowed(q, m)
    <3>1. UNCHANGED <<live, binding>> BY <1>10, <2>5 DEF closeSettledMarket
    <3>. QED BY <1>1, <2>1, <2>2, <3>1, NoChange, OneRunMoves DEF CleanupTypeOK
  <2>. QED BY <2>4, <2>5
<1>. QED BY <1>3, <1>4, <1>5, <1>6, <1>7, <1>8, <1>9, <1>10 DEF CleanupStep

(* The runs' reads of different instants, and the program that checks one  *)
(* pool only, never close a market that owes (cranker.ts,                  *)
(* close_settled_market), whatever the number of runs, pools and markets.  *)
THEOREM CleanupInvHolds == CleanupSpec => []CleanupInv
<1>1. CleanupInv /\ [CleanupNext]_cleanupVars => CleanupInv'
  <2>1. SUFFICES ASSUME CleanupInv, [CleanupNext]_cleanupVars PROVE CleanupInv' OBVIOUS
  <2>2. CASE UNCHANGED cleanupVars
    <3>1. UNCHANGED <<time, live, priced, binding, holdings, cleaner>>
      BY <2>2 DEF cleanupVars, cleanupChain
    <3>2. \A c \in Cleaners : cleaner[c].at # "idle" => time <= cleaner[c].began + MAX_RUN
      BY <2>1 DEF CleanupInv, RunInv
    <3>. QED BY <2>1, <3>1, <3>2, NoChange, NoRunMoves DEF CleanupInv, CleanupTypeOK
  <2>. QED BY <2>1, <2>2, OthersStep, RunStep DEF CleanupNext
<1>. QED BY <1>1, CleanupInitInv, PTL DEF CleanupSpec

(* Nobody's position is stranded on a closed market.                       *)
THEOREM ClosedMarketsOweNothingHolds == CleanupSpec => []ClosedMarketsOweNothing
<1>1. CleanupInv => ClosedMarketsOweNothing BY DEF CleanupInv, ChainInv
<1>. QED BY <1>1, CleanupInvHolds, PTL

-----------------------------------------------------------------------------
(* The bootstrap.                                                          *)

Preparation == {"funds", "config", "mints", "balances"}
SmokeSteps == {"smoke", "success fill", "refund fill", "replay", "publish", "settle", "refund",
               "obligations", "early fill", "early close", "withdraw", "evidence"}

Smoked == {"success", "refund", "early"}

(* The smoke positions a run must have opened to be at a step.             *)
Tried(step) ==
  CASE step = "refund" -> {"success"}
    [] step \in {"obligations", "early fill", "early close"} -> {"success", "refund"}
    [] step \in {"withdraw", "evidence"} -> Smoked
    [] OTHER -> {}

(* The records have their fields, whatever the values.                     *)
BootstrapShape ==
  /\ deployed = [accounts |-> deployed.accounts, markets |-> deployed.markets,
                 disabled |-> deployed.disabled, bound |-> deployed.bound]
  /\ run # Stopped =>
       run = [at |-> run.at, day |-> run.day, previous |-> run.previous, listing |-> run.listing,
              rung |-> run.rung, strike |-> run.strike, catalog |-> run.catalog,
              attempt |-> run.attempt]
  /\ runs \in Nat /\ published.by \in Nat /\ published.by <= runs
  /\ deployed.accounts \subseteq Preparation
  /\ smokePositions \subseteq opened

(* What a run has behind it at each of its steps.                          *)
Behind ==
  /\ run.at \in Preparation \cup SmokeSteps \cup
                {"price", "create", "find", "disable", "pool", "deposit", "authorize"}
  /\ run.at # "funds" => "funds" \in deployed.accounts
  /\ run.at \notin {"funds", "config"} => "config" \in deployed.accounts
  /\ run.at \notin {"funds", "config", "mints"} => "mints" \in deployed.accounts
  /\ run.at \notin Preparation => "balances" \in deployed.accounts
  /\ run.catalog \subseteq deployed.markets
  /\ run.at \in {"disable", "pool", "deposit", "authorize"} \cup SmokeSteps => uiSeries # {}
  /\ run.at \in {"authorize"} \cup SmokeSteps => mainPool = "funded"
  /\ run.at \in SmokeSteps => run.catalog \subseteq deployed.bound
  /\ run.at = "evidence" => \A p \in smokePositions : p.by # runs
  /\ \A name \in Tried(run.at) : Position(name) \in opened
  /\ published.smokeStatus = "passed" => published.by < runs

BootstrapInv ==
  /\ BootstrapShape
  /\ run # Stopped => Behind
  /\ ManifestIsBacked

LEMMA BootstrapInitInv == BootstrapInit => BootstrapInv
BY DEF BootstrapInit, BootstrapInv, BootstrapShape, ManifestIsBacked, NoManifest, Stopped

LEMMA StoppedIsNoStep == run.at # "stopped" => run # Stopped
BY DEF Stopped

(* Whatever keeps the deployment and adds to it keeps the manifest.        *)
LEMMA ManifestStays ==
  ASSUME BootstrapInv, UNCHANGED published, 
         deployed.markets \subseteq deployed'.markets, deployed.bound \subseteq deployed'.bound,
         deployed.accounts \subseteq deployed'.accounts, deployed'.accounts \subseteq Preparation,
         mainPool = "funded" => mainPool' = "funded", opened \subseteq opened',
         published.smokeStatus = "passed" => \A p \in smokePositions' :
            p \in smokePositions \/ p.by # published.by
  PROVE  ManifestIsBacked'
BY DEF BootstrapInv, BootstrapShape, ManifestIsBacked, Preparation

LEMMA SendStep ==
  ASSUME BootstrapInv, NEW step \in SmokeSteps, NEW next \in SmokeSteps, next # "evidence", step # "evidence",
         NEW refused, NEW landed, NEW filled,
         landed \subseteq smokePositions \cup {p \in landed : p.by = runs},
         \A name \in Tried(next) : name \in Tried(step) \/ Position(name) \in opened,
         sendAndConfirmWithRetry(step, refused, landed, filled, next)
  PROVE  BootstrapInv'
<1>1. run.at = step /\ run # Stopped
  BY StoppedIsNoStep DEF sendAndConfirmWithRetry, At, SmokeSteps
<1>2. UNCHANGED <<deployed, mainPool, published, runs>> BY DEF sendAndConfirmWithRetry
<1>3. \/ smokePositions' = landed /\ opened' = opened \cup landed
      \/ UNCHANGED <<smokePositions, opened>>
  BY DEF sendAndConfirmWithRetry
<1>4. \/ run' = [run EXCEPT !.at = next, !.attempt = 1]
      \/ run' = [run EXCEPT !.attempt = @ + 1]
      \/ run' = Stopped
  BY DEF sendAndConfirmWithRetry
<1>5. BootstrapShape /\ Behind BY <1>1 DEF BootstrapInv
<1>6. ManifestIsBacked'
  <2>1. \A p \in smokePositions' : p \in smokePositions \/ p.by = runs BY <1>3
  <2>2. published.smokeStatus = "passed" => published.by # runs BY <1>5 DEF Behind, BootstrapShape
  <2>3. opened \subseteq opened' BY <1>3
  <2>. QED BY <1>2, <1>5, <2>1, <2>2, <2>3, ManifestStays DEF BootstrapShape
<1>7. CASE run' = Stopped BY <1>2, <1>3, <1>5, <1>6, <1>7 DEF BootstrapInv, BootstrapShape
<1>8. CASE run' # Stopped
  <2>1. /\ run'.catalog = run.catalog /\ run'.at \in SmokeSteps /\ run'.at # "evidence"
        /\ run' = [at |-> run'.at, day |-> run'.day, previous |-> run'.previous, listing |-> run'.listing,
                   rung |-> run'.rung, strike |-> run'.strike, catalog |-> run'.catalog,
                   attempt |-> run'.attempt]
    BY <1>1, <1>4, <1>5, <1>8 DEF BootstrapShape
  <2>2. uiSeries' = uiSeries BY <2>1 DEF uiSeries
  <2>3. run'.at = step \/ run'.at = next BY <1>1, <1>4, <1>5, <1>8 DEF BootstrapShape
  <2>4. \A name \in Tried(step) : Position(name) \in opened BY <1>1, <1>5 DEF Behind
  <2>5. \A name : Position(name)' = Position(name) BY <1>2 DEF Position
  <2>6. Tried(run.at)' = Tried(run'.at) BY DEF Tried
  <2>7. \A name \in Tried(run.at)' : Position(name)' \in opened' BY <1>3, <2>3, <2>4, <2>5, <2>6
  <2>8. smokePositions' \subseteq opened' BY <1>3, <1>5 DEF BootstrapShape
  <2>9. BootstrapShape' BY <1>2, <1>5, <2>1, <2>8 DEF BootstrapShape
  <2>10. Behind'
    BY <1>1, <1>2, <1>5, <2>1, <2>2, <2>7 DEF Behind, BootstrapShape, Preparation, SmokeSteps
  <2>. QED BY <1>6, <2>9, <2>10 DEF BootstrapInv
<1>. QED BY <1>7, <1>8

(* A step of the run that leaves the manifest and the smoke positions alone.*)
LEMMA RunGoesOn ==
  ASSUME BootstrapInv, run # Stopped, UNCHANGED <<smokePositions, opened, published, runs>>,
         run' = Stopped \/ run' = [at |-> run'.at, day |-> run'.day, previous |-> run'.previous,
                                   listing |-> run'.listing, rung |-> run'.rung,
                                   strike |-> run'.strike, catalog |-> run'.catalog,
                                   attempt |-> run'.attempt],
         deployed' = [accounts |-> deployed'.accounts, markets |-> deployed'.markets,
                      disabled |-> deployed'.disabled, bound |-> deployed'.bound],
         deployed.markets \subseteq deployed'.markets, deployed.bound \subseteq deployed'.bound,
         deployed.accounts \subseteq deployed'.accounts, deployed'.accounts \subseteq Preparation,
         mainPool = "funded" => mainPool' = "funded",
         run' # Stopped => Behind'
  PROVE  BootstrapInv'
<1>1. ManifestIsBacked' BY ManifestStays
<1>. QED BY <1>1 DEF BootstrapInv, BootstrapShape

LEMMA EnsureStep ==
  ASSUME BootstrapInv, NEW step, NEW accounts, NEW next, Ensure(step, accounts, next),
         \/ step = "funds" /\ accounts = "funds" /\ next = "config"
         \/ step = "config" /\ accounts = "config" /\ next = "mints"
         \/ step = "mints" /\ accounts = "mints" /\ next = "balances"
         \/ step = "balances" /\ accounts = "balances" /\ next = "price"
  PROVE  BootstrapInv'
<1>1. run.at = step /\ run # Stopped BY StoppedIsNoStep DEF Ensure, At
<1>2. BootstrapShape /\ Behind BY <1>1 DEF BootstrapInv
<1>3. UNCHANGED <<mainPool, smokePositions, opened, smoke, published, runs>> BY DEF Ensure
<1>4. /\ run' = [at |-> next, day |-> run.day, previous |-> run.previous, listing |-> run.listing,
                 rung |-> run.rung, strike |-> run.strike, catalog |-> run.catalog,
                 attempt |-> run.attempt]
      /\ deployed' = [accounts |-> deployed.accounts \cup {accounts}, markets |-> deployed.markets,
                      disabled |-> deployed.disabled, bound |-> deployed.bound]
  BY <1>1, <1>2 DEF Ensure, Goto, BootstrapShape
<1>5. Behind' BY <1>1, <1>2, <1>3, <1>4 DEF Behind, Preparation, SmokeSteps, Tried
<1>. QED BY <1>1, <1>2, <1>3, <1>4, <1>5, RunGoesOn DEF BootstrapShape, Preparation

LEMMA CatalogBehind ==
  ASSUME run'.at \in {"create", "price", "find"}, run'.catalog \subseteq deployed'.markets,
         Preparation \subseteq deployed'.accounts,
         published'.smokeStatus = "passed" => published'.by < runs'
  PROVE  Behind'
<1>1. CASE run'.at = "create" BY <1>1 DEF Behind, Preparation, SmokeSteps, Tried
<1>2. CASE run'.at = "price" BY <1>2 DEF Behind, Preparation, SmokeSteps, Tried
<1>3. CASE run'.at = "find" BY <1>3 DEF Behind, Preparation, SmokeSteps, Tried
<1>. QED BY <1>1, <1>2, <1>3

LEMMA CatalogStep ==
  ASSUME BootstrapInv, PriceListing \/ createMarket \/ SkipListing \/ FindUiMarket \/ DisablePrevious
  PROVE  BootstrapInv'
<1>1. run # Stopped /\ run.at \in {"price", "create", "find", "disable"}
  BY StoppedIsNoStep DEF PriceListing, createMarket, SkipListing, FindUiMarket, DisablePrevious, At
<1>2. BootstrapShape /\ Behind BY <1>1 DEF BootstrapInv
<1>3. UNCHANGED <<mainPool, smokePositions, opened, published, runs>>
  BY DEF PriceListing, createMarket, SkipListing, FindUiMarket, DisablePrevious
<1> DEFINE m == MarketOf(run)
<1>4. CASE PriceListing
  <2>1. PICK strike : run' = [run EXCEPT !.strike = strike, !.at = "create"] BY <1>4 DEF PriceListing
  <2>2. run' = [at |-> "create", day |-> run.day, previous |-> run.previous, listing |-> run.listing,
                rung |-> run.rung, strike |-> strike, catalog |-> run.catalog, attempt |-> run.attempt]
    BY <1>1, <1>2, <2>1 DEF BootstrapShape
  <2>3. UNCHANGED deployed /\ run.at = "price" BY <1>4 DEF PriceListing, At
  <2>4. Behind' BY <1>2, <1>3, <2>2, <2>3 DEF Behind, Preparation, SmokeSteps, Tried
  <2>. QED BY <1>1, <1>2, <1>3, <2>2, <2>3, <2>4, RunGoesOn DEF BootstrapShape
<1>5. CASE createMarket
  <2>. HIDE DEF m
  <2>1. /\ run'.at \in {"create", "price", "find"}
        /\ run' = [at |-> run'.at, day |-> run.day, previous |-> run.previous, listing |-> run'.listing,
                   rung |-> run'.rung, strike |-> run.strike, catalog |-> run.catalog \cup {m},
                   attempt |-> run.attempt]
    <3>1. \/ run' = [run EXCEPT !.catalog = @ \cup {m}, !.rung = @ + 1]
          \/ run' = [run EXCEPT !.catalog = @ \cup {m}, !.listing = @ + 1, !.rung = 1, !.at = "price"]
          \/ run' = [run EXCEPT !.catalog = @ \cup {m}, !.listing = @ + 1, !.rung = 1, !.at = "find"]
      BY <1>5 DEF createMarket, m
    <3>2. run.at = "create" BY <1>5 DEF createMarket, At
    <3>. QED BY <1>1, <1>2, <3>1, <3>2 DEF BootstrapShape
  <2>2. deployed' = [accounts |-> deployed.accounts, markets |-> deployed.markets \cup {m},
                     disabled |-> deployed.disabled, bound |-> deployed.bound]
    BY <1>2, <1>5 DEF createMarket, BootstrapShape, m
  <2>3. run.at = "create" BY <1>5 DEF createMarket, At
  <2>4. Preparation \subseteq deployed.accounts BY <1>2, <2>3 DEF Behind, Preparation
  <2>5. run'.catalog \subseteq deployed'.markets BY <1>2, <2>1, <2>2 DEF Behind
  <2>6. Behind'
    <3>1. deployed'.accounts = deployed.accounts BY <2>2
    <3>. QED BY <1>2, <1>3, <2>1, <2>4, <2>5, <3>1, CatalogBehind DEF Behind
  <2>. QED BY <1>1, <1>2, <1>3, <2>1, <2>2, <2>6, RunGoesOn DEF BootstrapShape
<1>6. CASE SkipListing
  <2>1. /\ run'.at \in {"price", "find"}
        /\ run' = [at |-> run'.at, day |-> run.day, previous |-> run.previous, listing |-> run'.listing,
                   rung |-> 1, strike |-> run.strike, catalog |-> run.catalog, attempt |-> run.attempt]
    BY <1>1, <1>2, <1>6 DEF SkipListing, NextListing, BootstrapShape
  <2>2. UNCHANGED deployed /\ run.at \in {"price", "create"} BY <1>6 DEF SkipListing
  <2>3. Behind'
    <3>1. Preparation \subseteq deployed.accounts BY <1>2, <2>2 DEF Behind, Preparation
    <3>2. run'.catalog = run.catalog BY <2>1
    <3>. QED BY <1>2, <1>3, <2>1, <2>2, <3>1, <3>2, CatalogBehind DEF Behind
  <2>. QED BY <1>1, <1>2, <1>3, <2>1, <2>2, <2>3, RunGoesOn DEF BootstrapShape
<1>7. CASE FindUiMarket
  <2>1. UNCHANGED deployed /\ run.at = "find" BY <1>7 DEF FindUiMarket, At
  <2>2. CASE uiSeries = {}
    <3>1. run' = Stopped BY <1>7, <2>2 DEF FindUiMarket
    <3>. QED BY <1>1, <1>2, <1>3, <2>1, <3>1, RunGoesOn DEF BootstrapShape
  <2>3. CASE uiSeries # {}
    <3>1. run' = [at |-> "disable", day |-> run.day, previous |-> run.previous, listing |-> run.listing,
                  rung |-> run.rung, strike |-> run.strike, catalog |-> run.catalog,
                  attempt |-> run.attempt]
      BY <1>1, <1>2, <1>7, <2>3 DEF FindUiMarket, BootstrapShape
    <3>2. uiSeries' = uiSeries BY <3>1 DEF uiSeries
    <3>3. Behind' BY <1>2, <1>3, <2>1, <2>3, <3>1, <3>2 DEF Behind, Preparation, SmokeSteps, Tried
    <3>. QED BY <1>1, <1>2, <1>3, <2>1, <3>1, <3>3, RunGoesOn DEF BootstrapShape
  <2>. QED BY <2>2, <2>3
<1>8. CASE DisablePrevious
  <2>1. run' = [at |-> "pool", day |-> run.day, previous |-> run.previous, listing |-> run.listing,
                rung |-> run.rung, strike |-> run.strike, catalog |-> run.catalog,
                attempt |-> run.attempt]
    BY <1>1, <1>2, <1>8 DEF DisablePrevious, Goto, BootstrapShape
  <2>2. PICK stopped : deployed' = [accounts |-> deployed.accounts, markets |-> deployed.markets,
                                     disabled |-> stopped, bound |-> deployed.bound]
    BY <1>2, <1>8 DEF DisablePrevious, BootstrapShape
  <2>3. uiSeries' = uiSeries /\ run.at = "disable" BY <1>8, <2>1 DEF uiSeries, DisablePrevious, At
  <2>4. Behind' BY <1>2, <1>3, <2>1, <2>2, <2>3 DEF Behind, Preparation, SmokeSteps, Tried
  <2>. QED BY <1>1, <1>2, <1>3, <2>1, <2>2, <2>4, RunGoesOn DEF BootstrapShape
<1>. QED BY <1>4, <1>5, <1>6, <1>7, <1>8

LEMMA PoolStep ==
  ASSUME BootstrapInv, ensureLiquidityPool \/ DepositToTarget \/ authorizePoolMarket
  PROVE  BootstrapInv'
<1>1. run # Stopped /\ run.at \in {"pool", "deposit", "authorize"}
  BY StoppedIsNoStep DEF ensureLiquidityPool, DepositToTarget, authorizePoolMarket, At
<1>2. BootstrapShape /\ Behind BY <1>1 DEF BootstrapInv
<1>3. UNCHANGED <<smokePositions, opened, published, runs>> /\ (mainPool = "funded" => mainPool' = "funded")
  BY DEF ensureLiquidityPool, DepositToTarget, authorizePoolMarket
<1>4. CASE ensureLiquidityPool
  <2>1. run' = [at |-> "deposit", day |-> run.day, previous |-> run.previous, listing |-> run.listing,
                rung |-> run.rung, strike |-> run.strike, catalog |-> run.catalog,
                attempt |-> run.attempt]
    BY <1>1, <1>2, <1>4 DEF ensureLiquidityPool, Goto, BootstrapShape
  <2>2. UNCHANGED deployed /\ run.at = "pool" BY <1>4 DEF ensureLiquidityPool, At
  <2>3. uiSeries' = uiSeries BY <2>1 DEF uiSeries
  <2>4. Behind' BY <1>2, <1>3, <2>1, <2>2, <2>3 DEF Behind, Preparation, SmokeSteps, Tried
  <2>. QED BY <1>1, <1>2, <1>3, <2>1, <2>2, <2>4, RunGoesOn DEF BootstrapShape
<1>5. CASE DepositToTarget
  <2>1. run' = [at |-> "authorize", day |-> run.day, previous |-> run.previous, listing |-> run.listing,
                rung |-> run.rung, strike |-> run.strike, catalog |-> run.catalog,
                attempt |-> run.attempt]
    BY <1>1, <1>2, <1>5 DEF DepositToTarget, Goto, BootstrapShape
  <2>2. UNCHANGED deployed /\ run.at = "deposit" /\ mainPool' = "funded" BY <1>5 DEF DepositToTarget, At
  <2>3. uiSeries' = uiSeries BY <2>1 DEF uiSeries
  <2>4. Behind' BY <1>2, <1>3, <2>1, <2>2, <2>3 DEF Behind, Preparation, SmokeSteps, Tried
  <2>. QED BY <1>1, <1>2, <1>3, <2>1, <2>2, <2>4, RunGoesOn DEF BootstrapShape
<1>6. CASE authorizePoolMarket
  <2>1. PICK m : deployed' = [accounts |-> deployed.accounts, markets |-> deployed.markets,
                              disabled |-> deployed.disabled, bound |-> deployed.bound \cup {m}]
    BY <1>2, <1>6 DEF authorizePoolMarket, BootstrapShape
  <2>2. UNCHANGED <<run, mainPool>> /\ run.at = "authorize" BY <1>6 DEF authorizePoolMarket, At
  <2>3. uiSeries' = uiSeries BY <2>2 DEF uiSeries
  <2>4. Behind' BY <1>2, <1>3, <2>1, <2>2, <2>3 DEF Behind, Preparation, SmokeSteps, Tried
  <2>. QED BY <1>1, <1>2, <1>3, <2>1, <2>2, <2>4, RunGoesOn DEF BootstrapShape
<1>. QED BY <1>4, <1>5, <1>6

(* A manifest is written of what this run made sure of.                    *)
LEMMA PublishStep ==
  ASSUME BootstrapInv, run # Stopped, run.at \in {"authorize"} \cup SmokeSteps,
         run.catalog \subseteq deployed.bound, NEW status, published' = Manifest(status),
         status = "passed" =>
           /\ run' = Stopped /\ \A p \in smokePositions : p.by # runs
           /\ \A name \in Smoked : Position(name) \in opened,
         run' = Stopped \/ run' = [run EXCEPT !.at = "smoke"],
         UNCHANGED <<deployed, mainPool, smokePositions, opened, runs>>
  PROVE  BootstrapInv'
<1>1. BootstrapShape /\ Behind BY DEF BootstrapInv
<1>2. /\ published'.markets = run.catalog /\ published'.uiMarket \in uiSeries
      /\ published'.smokeStatus = status /\ published'.by = runs
  <2>1. uiSeries # {} BY <1>1 DEF Behind
  <2>. QED BY <2>1 DEF Manifest
<1>3. deployed.accounts = Preparation /\ mainPool = "funded" /\ uiSeries \subseteq run.catalog
  <2>1. run.at \notin Preparation BY DEF Preparation, SmokeSteps
  <2>2. Preparation \subseteq deployed.accounts BY <1>1, <2>1 DEF Behind, Preparation
  <2>3. mainPool = "funded" BY <1>1 DEF Behind
  <2>4. uiSeries \subseteq run.catalog BY DEF uiSeries
  <2>. QED BY <1>1, <2>2, <2>3, <2>4 DEF BootstrapShape
<1>4. ManifestIsBacked'
  <2>1. run.catalog \subseteq deployed.markets BY <1>1 DEF Behind
  <2>2. published'.smokeStatus = "passed" =>
          \A name \in Smoked : [name |-> name, by |-> published'.by] \in opened
    BY <1>2 DEF Position
  <2>. QED BY <1>2, <1>3, <2>1, <2>2 DEF ManifestIsBacked, Preparation, Smoked
<1>5. published'.by \in Nat /\ published'.by <= runs BY <1>1, <1>2 DEF BootstrapShape
<1>6. CASE run' = Stopped BY <1>1, <1>4, <1>5, <1>6 DEF BootstrapInv, BootstrapShape
<1>7. CASE run' = [run EXCEPT !.at = "smoke"] /\ run' # Stopped
  <2>1. run' = [at |-> "smoke", day |-> run.day, previous |-> run.previous, listing |-> run.listing,
                rung |-> run.rung, strike |-> run.strike, catalog |-> run.catalog,
                attempt |-> run.attempt]
    BY <1>1, <1>7 DEF BootstrapShape
  <2>2. uiSeries' = uiSeries BY <2>1 DEF uiSeries
  <2>3. uiSeries # {} /\ run.catalog \subseteq deployed.markets BY <1>1 DEF Behind
  <2>4. Behind' BY <1>2, <1>3, <1>7, <2>1, <2>2, <2>3 DEF Behind, Preparation, SmokeSteps, Tried
  <2>. QED BY <1>1, <1>4, <1>5, <2>1, <2>4 DEF BootstrapInv, BootstrapShape
<1>. QED BY <1>6, <1>7

(* The run goes on to another step of the smoke lifecycle.                 *)
LEMMA SmokeGoto ==
  ASSUME BootstrapInv, NEW next \in SmokeSteps, run.at \in SmokeSteps, Goto(next),
         smokePositions' \subseteq smokePositions,
         UNCHANGED <<deployed, mainPool, opened, published, runs>>,
         \A name \in Tried(next) : name \in Tried(run.at) \/ Position(name) \in opened,
         next = "evidence" => \A p \in smokePositions : p.by # runs
  PROVE  BootstrapInv'
<1>1. run # Stopped BY StoppedIsNoStep DEF SmokeSteps
<1>2. BootstrapShape /\ Behind BY <1>1 DEF BootstrapInv
<1>3. run' = [at |-> next, day |-> run.day, previous |-> run.previous, listing |-> run.listing,
              rung |-> run.rung, strike |-> run.strike, catalog |-> run.catalog,
              attempt |-> run.attempt]
  BY <1>1, <1>2 DEF Goto, BootstrapShape
<1>4. uiSeries' = uiSeries BY <1>3 DEF uiSeries
<1>5. /\ run.catalog \subseteq deployed.markets /\ run.catalog \subseteq deployed.bound
      /\ uiSeries # {} /\ mainPool = "funded" /\ Preparation \subseteq deployed.accounts
      /\ published.smokeStatus = "passed" => published.by < runs
  BY <1>2 DEF Behind, Preparation, SmokeSteps, Tried
<1>6. Behind'
  <2>1. run'.at = next /\ run'.catalog = run.catalog BY <1>3
  <2>2. \A name : Position(name)' = Position(name) BY DEF Position
  <2>3. Tried(run.at)' = Tried(next) BY <2>1 DEF Tried
  <2>4. \A name \in Tried(run.at)' : Position(name)' \in opened' BY <1>2, <2>2, <2>3 DEF Behind
  <2>. QED BY <1>4, <1>5, <2>1, <2>4 DEF Behind, Preparation, SmokeSteps
<1>7. ManifestIsBacked' BY <1>2, ManifestStays DEF BootstrapShape
<1>. QED BY <1>2, <1>3, <1>6, <1>7 DEF BootstrapInv, BootstrapShape

LEMMA SmokeStep ==
  ASSUME BootstrapInv,
         \/ CreateSmoke \/ Fills \/ ReplayRejected \/ publishPythSettlement \/ Resolutions
         \/ CheckObligations \/ EarlyClose \/ WithdrawSmoke
  PROVE  BootstrapInv'
<1>1. ASSUME NEW name, NEW step \in SmokeSteps, NEW next \in SmokeSteps,
             step # "evidence", next # "evidence", Tried(next) \subseteq Tried(step),
             FillSmoke(name, step, next)
      PROVE  BootstrapInv'
  <2> DEFINE landed == smokePositions \cup {Position(name)}
  <2>1. landed \subseteq smokePositions \cup {p \in landed : p.by = runs} BY DEF Position
  <2>2. PICK refused, filled : sendAndConfirmWithRetry(step, refused, landed, filled, next)
    BY <1>1 DEF FillSmoke
  <2>. HIDE DEF landed
  <2>. QED BY <1>1, <2>1, <2>2, SendStep
<1>2. CASE Fills BY <1>1, <1>2 DEF Fills, SmokeSteps, Tried
<1>3. CASE EarlyClose
  <2>1. CASE FillSmoke("early", "early fill", "early close") BY <1>1, <2>1 DEF SmokeSteps, Tried
  <2>2. CASE ~ FillSmoke("early", "early fill", "early close")
    <3> DEFINE landed == smokePositions \ {Position("early")}
    <3>1. sendAndConfirmWithRetry("early close", ~IsOpen("early"), landed, smoke.filled, "withdraw")
      BY <1>3, <2>2 DEF EarlyClose
    <3>2. landed \subseteq smokePositions \cup {p \in landed : p.by = runs} OBVIOUS
    <3>3. run.at = "early close" /\ IsOpen("early") BY <3>1 DEF sendAndConfirmWithRetry, At
    <3>4. BootstrapShape BY DEF BootstrapInv
    <3>5. Position("early") \in opened BY <3>3, <3>4 DEF IsOpen, BootstrapShape
    <3>6. \A name \in Tried("withdraw") : name \in Tried("early close") \/ Position(name) \in opened
      BY <3>5 DEF Tried, Smoked
    <3>. HIDE DEF landed
    <3>. QED BY <3>1, <3>2, <3>6, SendStep DEF SmokeSteps
  <2>. QED BY <2>1, <2>2
<1>4. ASSUME NEW name, NEW step \in SmokeSteps, NEW next \in SmokeSteps, next # "evidence",
             Tried(next) \subseteq Tried(step) \cup {name}, ResolveSmoke(name, step, next)
      PROVE  BootstrapInv'
  <2>1. run.at = step /\ IsOpen(name) BY <1>4 DEF ResolveSmoke, At
  <2>2. Position(name) \in opened BY <2>1 DEF IsOpen, BootstrapInv, BootstrapShape
  <2>. QED BY <1>4, <2>1, <2>2, SmokeGoto DEF ResolveSmoke
<1>5. CASE Resolutions BY <1>4, <1>5 DEF Resolutions, SmokeSteps, Tried
<1>6. CASE CreateSmoke BY <1>6, SmokeGoto DEF CreateSmoke, At, SmokeSteps, Tried
<1>7. CASE ReplayRejected BY <1>7, SmokeGoto DEF ReplayRejected, At, SmokeSteps, Tried
<1>8. CASE publishPythSettlement BY <1>8, SmokeGoto DEF publishPythSettlement, At, SmokeSteps, Tried
<1>9. CASE CheckObligations BY <1>9, SmokeGoto DEF CheckObligations, At, SmokeSteps, Tried
<1>10. CASE WithdrawSmoke BY <1>10, SmokeGoto DEF WithdrawSmoke, At, SmokeSteps, Tried
<1>. QED BY <1>2, <1>3, <1>5, <1>6, <1>7, <1>8, <1>9, <1>10

LEMMA WriteStep == ASSUME BootstrapInv, WriteManifest \/ WriteEvidence PROVE BootstrapInv'
<1>1. run # Stopped /\ run.at \in {"authorize", "evidence"}
  BY StoppedIsNoStep DEF WriteManifest, WriteEvidence, At
<1>2. Behind BY <1>1 DEF BootstrapInv
<1>3. CASE WriteManifest
  BY <1>1, <1>3, PublishStep DEF WriteManifest, Goto, SmokeSteps
<1>4. CASE WriteEvidence
  <2>1. run.at = "evidence" BY <1>4 DEF WriteEvidence, At
  <2>2. /\ run.catalog \subseteq deployed.bound /\ \A p \in smokePositions : p.by # runs
        /\ \A name \in Smoked : Position(name) \in opened
    BY <1>2, <2>1 DEF Behind, SmokeSteps, Tried
  <2>. QED BY <1>1, <1>4, <2>2, PublishStep DEF WriteEvidence, SmokeSteps
<1>. QED BY <1>3, <1>4

(* A run starts or fails, time passes, others publish and resolve.         *)
LEMMA SurroundingsStep ==
  ASSUME BootstrapInv, Start \/ Throw \/ SmokeTime \/ RunnerPublishes \/ CrankerResolves
  PROVE  BootstrapInv'
<1>1. BootstrapShape /\ (run # Stopped => Behind) BY DEF BootstrapInv
<1>2. CASE Start
  <2>1. /\ UNCHANGED <<deployed, mainPool, smokePositions, opened, published>>
        /\ runs' = runs + 1
        /\ run'.at = "funds" /\ run'.catalog = {}
        /\ run' = [at |-> run'.at, day |-> run'.day, previous |-> run'.previous, listing |-> run'.listing,
                   rung |-> run'.rung, strike |-> run'.strike, catalog |-> run'.catalog,
                   attempt |-> run'.attempt]
    BY <1>2 DEF Start
  <2>2. ManifestIsBacked' BY <1>1, <2>1, ManifestStays DEF BootstrapShape
  <2>3. published.by \in Nat /\ runs \in Nat /\ published.by < runs + 1 BY <1>1 DEF BootstrapShape
  <2>4. Behind' BY <2>1, <2>3 DEF Behind, Preparation, SmokeSteps, Tried
  <2>. QED BY <1>1, <2>1, <2>2, <2>3, <2>4 DEF BootstrapInv, BootstrapShape
<1>3. CASE Throw
  <2>1. run' = Stopped /\ UNCHANGED <<deployed, mainPool, smokePositions, opened, published, runs>>
    BY <1>3 DEF Throw
  <2>2. ManifestIsBacked' BY <1>1, <2>1, ManifestStays DEF BootstrapShape
  <2>. QED BY <1>1, <2>1, <2>2 DEF BootstrapInv, BootstrapShape
<1>4. CASE SmokeTime \/ RunnerPublishes \/ CrankerResolves
  <2>1. /\ UNCHANGED <<deployed, mainPool, opened, published, run, runs>>
        /\ smokePositions' \subseteq smokePositions
    BY <1>4 DEF SmokeTime, RunnerPublishes, CrankerResolves
  <2>2. ManifestIsBacked' BY <1>1, <2>1, ManifestStays DEF BootstrapShape
  <2>3. uiSeries' = uiSeries BY <2>1 DEF uiSeries
  <2>4. run # Stopped => Behind' BY <1>1, <2>1, <2>3 DEF Behind, Position, Tried
  <2>. QED BY <1>1, <2>1, <2>2, <2>4 DEF BootstrapInv, BootstrapShape
<1>. QED BY <1>2, <1>3, <1>4

(* However many runs there are, and wherever each of them ends.            *)
THEOREM BootstrapInvHolds == BootstrapSpec => []BootstrapInv
<1>1. BootstrapInv /\ [BootstrapNext]_bootstrapVars => BootstrapInv'
  <2>1. SUFFICES ASSUME BootstrapInv, [BootstrapNext]_bootstrapVars PROVE BootstrapInv' OBVIOUS
  <2>2. CASE UNCHANGED bootstrapVars
    <3>1. /\ UNCHANGED <<deployed, mainPool, opened, published, run, runs>>
          /\ smokePositions' \subseteq smokePositions
      BY <2>2 DEF bootstrapVars
    <3>2. uiSeries' = uiSeries BY <3>1 DEF uiSeries
    <3>3. ManifestIsBacked' BY <2>1, <3>1, ManifestStays DEF BootstrapInv, BootstrapShape
    <3>. QED BY <2>1, <3>1, <3>2, <3>3 DEF BootstrapInv, BootstrapShape, Behind, Position, Tried
  <2>3. CASE ensureFunds BY <2>1, <2>3, EnsureStep DEF ensureFunds
  <2>4. CASE ensureConfig BY <2>1, <2>4, EnsureStep DEF ensureConfig
  <2>5. CASE ensureMint BY <2>1, <2>5, EnsureStep DEF ensureMint
  <2>6. CASE ensureTokenBalance BY <2>1, <2>6, EnsureStep DEF ensureTokenBalance
  <2>. QED
    BY <2>1, <2>2, <2>3, <2>4, <2>5, <2>6, CatalogStep, PoolStep, SmokeStep, WriteStep, SurroundingsStep
    DEF BootstrapNext
<1>. QED BY <1>1, BootstrapInitInv, PTL DEF BootstrapSpec

(* The manifest on disk is of a deployment that is there (bootstrap.ts).   *)
THEOREM ManifestIsBackedHolds == BootstrapSpec => []ManifestIsBacked
<1>1. BootstrapInv => ManifestIsBacked BY DEF BootstrapInv
<1>. QED BY <1>1, BootstrapInvHolds, PTL

-----------------------------------------------------------------------------
(* The search for a settlement print.                                      *)

SearchRecord ==
  [at : {"select", "not viable", "anchor", "walk", "too early", "found", "failed",
         "confidence_too_wide", "no_print_available"},
   tier : {"none", "tier-one", "tier-two"}, anchor : Int, timestamp : Int,
   gapStep : Nat \ {0}, probes : Nat, seen : BOOLEAN]

SearchTypeOK ==
  /\ feed \in [Seconds -> {Dark} \union Quotations]
  /\ readAt \in Int
  /\ search \in SearchRecord

Walked == {"walk", "too early", "found", "failed", "confidence_too_wide", "no_print_available"}

(* The confidence of the print of a second is too wide, as the search sees it. *)
Rejected(t) ==
  ~ConfidenceOk(feed[t].price, feed[t].confidence, Terms[market].maxConfidenceBps)

(* The tier is the one that was open; a walk never goes forward, and what  *)
(* it left behind is either dark or was looked at.                         *)
SearchInv ==
  /\ SearchTypeOK
  /\ search.at \notin {"select", "not viable"} =>
       search.tier = selectViableSettlementTier(market, readAt) /\ search.tier # "none"
  /\ search.at \in Walked => search.anchor <= Upper
  /\ search.at \in {"select", "anchor"} => search.probes = 0
  /\ search.at = "walk" => search.timestamp <= search.anchor - search.probes
  /\ search.at \in {"walk", "found"} =>
       \A t \in Unbroken : t > search.timestamp => Rejected(t)
  /\ search.at = "found" =>
       /\ search.timestamp \in Seconds /\ isSettlementPrintAcceptable(search.timestamp)
       /\ feed[search.timestamp] # Dark
       /\ search.tier = "tier-one" => search.timestamp <= readAt
  /\ search.at \in {"confidence_too_wide", "no_print_available"} =>
       \A t \in Unbroken : search.anchor - t < MAX_PROBES => Rejected(t)

LEMMA MarketTyped ==
  /\ Terms[market].expiry \in Nat /\ Terms[market].window \in Nat
  /\ Terms[market].grace \in Nat /\ Terms[market].staleness \in Nat
BY TermsAssumption, SearchAssumption DEF TermsRecord

LEMMA BoundsTyped ==
  /\ Upper \in Int /\ Floor \in Int
  /\ \A t \in Int : Floor <= t /\ t <= Upper => t \in Seconds
<1>1. /\ ObservationEnd(market) = Terms[market].expiry + Terms[market].window
      /\ computeObservationEnd(market) = Terms[market].expiry + Terms[market].window
  BY DEF ObservationEnd, computeObservationEnd, Expiry
<1>2. \A t \in Int : Terms[market].expiry - Terms[market].staleness <= t
                     /\ t <= Terms[market].expiry + Terms[market].window => t \in Seconds
  BY <1>1, MarketTyped, SearchAssumption
<1>. QED BY <1>1, <1>2, MarketTyped DEF Upper, Floor

LEMMA SearchInitInv == SearchInit => SearchInv
<1>1. SUFFICES ASSUME SearchInit PROVE SearchInv OBVIOUS
<1>2. readAt \in Int
  BY <1>1, MarketTyped DEF SearchInit, computeFinalSettlementDeadline, computeSettlementDeadline, computeObservationEnd
<1>. QED BY <1>1, <1>2, SearchAssumption DEF SearchInit, SearchInv, Rejected, SearchTypeOK, SearchRecord, Walked

(* What may be walked to lies within the history: no second of it that is  *)
(* not past the anchor is behind a dark one.                               *)
LEMMA DarkBreaks ==
  ASSUME SearchInv, search.at = "walk", search.timestamp \notin Seconds \/ feed[search.timestamp] = Dark
  PROVE  \A t \in Unbroken : t > search.timestamp
<1>1. /\ search.timestamp \in Int /\ search.anchor \in Int /\ search.probes \in Nat
      /\ search.timestamp <= search.anchor - search.probes /\ search.anchor <= Upper
  BY DEF SearchInv, Rejected, SearchTypeOK, SearchRecord, Walked
<1>2. SUFFICES ASSUME NEW t \in Unbroken, t <= search.timestamp PROVE FALSE
  <2>1. \A t \in Unbroken : t \in Int BY SearchAssumption DEF Unbroken
  <2>. QED BY <1>1, <2>1
<1>3. /\ t \in Int /\ Floor <= t
      /\ \A u \in Seconds : t <= u /\ u <= search.anchor => feed[u] # Dark
  BY SearchAssumption DEF Unbroken
<1>4. search.timestamp \in Seconds BY <1>1, <1>2, <1>3, BoundsTyped
<1>. QED BY <1>1, <1>2, <1>3, <1>4

(* Growing gaps stay gaps.                                                 *)
LEMMA GapGrows ==
  ASSUME NEW g \in Nat \ {0}
  PROVE  Lower(g * GAP_GROWTH, GAP_MAX) \in Nat \ {0}
<1>1. g * GAP_GROWTH \in Nat \ {0}
  <2>1. GAP_GROWTH \in Nat \ {0} BY SearchAssumption
  <2>2. \A x, y \in Nat : x > 0 /\ y > 0 => x * y \in Nat /\ x * y > 0 BY SMT
  <2>. QED BY <2>1, <2>2
<1>. QED BY <1>1, SearchAssumption DEF Lower

(* A walk that starts at the anchor has left nothing behind.               *)
LEMMA AnchorWalks ==
  ASSUME SearchInv, search.at = "anchor", UNCHANGED <<feed, readAt>>, NEW start \in Int, start <= Upper,
         search' = [search EXCEPT !.at = "walk", !.anchor = start, !.timestamp = start]
  PROVE  SearchInv'
<1>1. search \in SearchRecord BY DEF SearchInv, SearchTypeOK
<1>2. search' \in SearchRecord BY <1>1 DEF SearchRecord
<1>3. /\ search'.at = "walk" /\ search'.anchor = start /\ search'.timestamp = start
      /\ search'.tier = search.tier /\ search'.probes = search.probes
  BY <1>1 DEF SearchRecord
<1>4. search.probes = 0 /\ search.tier = selectViableSettlementTier(market, readAt) /\ search.tier # "none"
  BY DEF SearchInv, Rejected
<1>5. selectViableSettlementTier(market, readAt)' = selectViableSettlementTier(market, readAt)
  BY DEF selectViableSettlementTier
<1>6. Upper' = Upper BY <1>3 DEF Upper
<1>7. \A t \in Unbroken' : ~(t > start) BY <1>3, SearchAssumption DEF Unbroken
<1>8. SearchTypeOK' BY <1>2 DEF SearchInv, SearchTypeOK
<1>9. search'.timestamp <= search'.anchor - search'.probes BY <1>3, <1>4
<1>10. search'.anchor <= Upper' BY <1>3, <1>6
<1>. QED BY <1>3, <1>4, <1>5, <1>7, <1>8, <1>9, <1>10 DEF SearchInv, Rejected

LEMMA SearchInvNext == SearchInv /\ [SearchNext]_searchVars => SearchInv'
<1>1. SUFFICES ASSUME SearchInv, [SearchNext]_searchVars PROVE SearchInv' OBVIOUS
<1>2. SearchTypeOK /\ UNCHANGED <<feed, readAt>>
  BY <1>1 DEF SearchInv, Rejected, SearchNext, Select, Anchor, ProbeAbsent, ProbeFails, GiveUp, ProbePrint, searchVars
<1>3. CASE UNCHANGED searchVars
  BY <1>1, <1>3 DEF searchVars, SearchInv, Rejected, SearchTypeOK, Walked, Upper, Floor, Unbroken,
     isSettlementPrintAcceptable
<1>4. CASE Select
  <2>1. selectViableSettlementTier(market, readAt) \in {"none", "tier-one", "tier-two"}
    BY DEF selectViableSettlementTier
  <2>2. /\ search.at = "select"
        /\ search' = [search EXCEPT !.at = IF selectViableSettlementTier(market, readAt) = "none"
                                          THEN "not viable" ELSE "anchor",
                                   !.tier = selectViableSettlementTier(market, readAt)]
    BY <1>4 DEF Select
  <2>3. search' \in SearchRecord BY <1>2, <2>1, <2>2 DEF SearchTypeOK, SearchRecord
  <2>4. /\ search'.at = IF selectViableSettlementTier(market, readAt) = "none"
                        THEN "not viable" ELSE "anchor"
        /\ search'.tier = selectViableSettlementTier(market, readAt)
        /\ search'.probes = search.probes
    BY <1>2, <2>2 DEF SearchTypeOK, SearchRecord
  <2>5. search.probes = 0 BY <1>1, <2>2 DEF SearchInv
  <2>6. selectViableSettlementTier(market, readAt)' = selectViableSettlementTier(market, readAt)
    BY <1>2 DEF selectViableSettlementTier
  <2>7. SearchTypeOK' BY <1>2, <2>3 DEF SearchTypeOK
  <2>8. search'.at \in {"not viable", "anchor"} BY <2>4
  <2>9. CASE selectViableSettlementTier(market, readAt) = "none"
    BY <2>4, <2>6, <2>7, <2>9 DEF SearchInv, Rejected, Walked
  <2>10. CASE selectViableSettlementTier(market, readAt) # "none"
    BY <2>4, <2>5, <2>6, <2>7, <2>10 DEF SearchInv, Rejected, Walked
  <2>. QED BY <2>9, <2>10
<1>5. CASE Anchor
  <2>1. PICK start \in {Upper} \union {Lower(Upper, t) : t \in
            {t \in Seconds : feed[t] # Dark /\ \A u \in Seconds : u > t => feed[u] = Dark}} :
          search' = [search EXCEPT !.at = "walk", !.anchor = start, !.timestamp = start]
    BY <1>5 DEF Anchor
  <2>2. start \in Int /\ start <= Upper
    <3>1. CASE start = Upper BY <3>1, BoundsTyped
    <3>2. CASE start # Upper
      <4>1. PICK t \in Seconds : start = Lower(Upper, t) BY <2>1, <3>2
      <4>2. t \in Int BY SearchAssumption
      <4>. QED BY <4>1, <4>2, BoundsTyped DEF Lower
    <3>. QED BY <3>1, <3>2
  <2>3. search.at = "anchor" BY <1>5 DEF Anchor
  <2>. QED BY <1>1, <1>2, <2>1, <2>2, <2>3, AnchorWalks
<1> DEFINE ts == search.timestamp
<1>6. /\ ts \in Int /\ search.anchor \in Int /\ search.probes \in Nat /\ search.gapStep \in Nat \ {0}
      /\ search.tier \in {"none", "tier-one", "tier-two"} /\ search \in SearchRecord
  BY <1>2 DEF SearchTypeOK, SearchRecord
<1>7. ASSUME NEW t \in Unbroken PROVE t \in Int /\ t \in Seconds /\ Floor <= t /\ t <= search.anchor
  BY SearchAssumption DEF Unbroken
<1>8. ASSUME MayProbe
      PROVE  /\ search.at = "walk" /\ Floor <= ts /\ ts <= search.anchor - search.probes
             /\ search.anchor <= Upper /\ (\A t \in Unbroken : t > ts => Rejected(t))
             /\ search.tier = selectViableSettlementTier(market, readAt) /\ search.tier # "none"
  BY <1>1, <1>8 DEF MayProbe, SearchInv, Rejected, Walked
<1>9. ASSUME search'.tier = search.tier, search'.anchor = search.anchor
      PROVE  Upper' = Upper /\ Floor' = Floor /\ Unbroken' = Unbroken
  BY <1>2, <1>9 DEF Upper, Floor, Unbroken
<1>10. CASE ProbeAbsent
  <2>1. /\ MayProbe /\ (ts \notin Seconds \/ feed[ts] = Dark)
        /\ search' = [search EXCEPT !.probes = @ + 1, !.timestamp = @ - search.gapStep,
                                    !.gapStep = Lower(@ * GAP_GROWTH, GAP_MAX)]
    BY <1>10 DEF ProbeAbsent
  <2>2. \A t \in Unbroken : t > ts BY <1>1, <1>8, <2>1, DarkBreaks
  <2>3. Lower(search.gapStep * GAP_GROWTH, GAP_MAX) \in Nat \ {0} BY <1>6, GapGrows
  <2>4. /\ search'.at = "walk" /\ search'.tier = search.tier /\ search'.anchor = search.anchor
        /\ search'.probes = search.probes + 1 /\ search'.timestamp = ts - search.gapStep
        /\ SearchTypeOK'
    <3>1. search.probes + 1 \in Nat /\ ts - search.gapStep \in Int BY <1>6
    <3>2. search' = [search EXCEPT !.probes = search.probes + 1, !.timestamp = ts - search.gapStep,
                                   !.gapStep = Lower(search.gapStep * GAP_GROWTH, GAP_MAX)]
      BY <2>1
    <3>3. search' \in SearchRecord BY <1>6, <2>3, <3>1, <3>2 DEF SearchRecord
    <3>4. /\ search'.at = search.at /\ search'.tier = search.tier /\ search'.anchor = search.anchor
          /\ search'.probes = search.probes + 1 /\ search'.timestamp = ts - search.gapStep
      BY <1>6, <3>2 DEF SearchRecord
    <3>. QED BY <1>2, <1>8, <2>1, <3>3, <3>4 DEF SearchTypeOK
  <2>5. search'.timestamp <= search'.anchor - search'.probes BY <1>6, <1>8, <2>1, <2>4
  <2>6. \A t \in Unbroken : Rejected(t) BY <1>8, <2>1, <2>2
  <2>. QED BY <1>2, <1>8, <1>9, <2>1, <2>4, <2>5, <2>6 DEF SearchInv, Rejected, Walked
<1>11. CASE ProbeFails
  BY <1>2, <1>8, <1>9, <1>11 DEF ProbeFails, SearchInv, Rejected, SearchTypeOK, SearchRecord, Walked
<1>12. CASE GiveUp
  <2>1. search.at = "walk" /\ ~MayProbe
        /\ search' = [search EXCEPT !.at = IF search.seen THEN "confidence_too_wide" ELSE "no_print_available"]
    BY <1>12 DEF GiveUp
  <2>2. ts < Floor \/ search.probes >= MAX_PROBES
    BY <1>6, <2>1, BoundsTyped, SearchAssumption DEF MayProbe
  <2>3. ts <= search.anchor - search.probes /\ \A t \in Unbroken : t > ts => Rejected(t)
    BY <1>1, <2>1 DEF SearchInv, Rejected
  <2>4. ASSUME NEW t \in Unbroken, search.anchor - t < MAX_PROBES PROVE Rejected(t)
    <3>1. t > ts BY <1>6, <1>7, <2>2, <2>3, <2>4, BoundsTyped, SearchAssumption
    <3>. QED BY <2>3, <3>1
  <2>5. /\ search'.at \in {"confidence_too_wide", "no_print_available"}
        /\ search'.tier = search.tier /\ search'.anchor = search.anchor /\ SearchTypeOK'
    BY <1>2, <2>1 DEF SearchTypeOK, SearchRecord
  <2>. QED BY <1>1, <1>2, <1>9, <2>1, <2>4, <2>5 DEF SearchInv, Rejected, Walked
<1>13. ASSUME NEW p \in Seconds, ProbePrint(p) PROVE SearchInv'
  <2>1. /\ MayProbe /\ p \in Prints(ts)
    BY <1>13 DEF ProbePrint
  <2>2. /\ p \in Int /\ p >= ts /\ feed[p] # Dark
        /\ \A u \in Seconds : u >= ts /\ u < p => feed[u] = Dark
    BY <2>1, SearchAssumption DEF Prints
  <2>3. CASE ~isSettlementPrintAcceptable(p)
    <3>1. search' = [search EXCEPT !.probes = @ + 1, !.seen = TRUE, !.gapStep = GAP_STEP,
                                   !.timestamp = stepBack(p)]
      BY <1>13, <2>3 DEF ProbePrint
    <3>2. stepBack(p) = ts - 1 BY <1>6, <2>2 DEF stepBack
    <3>3. /\ search'.at = "walk" /\ search'.tier = search.tier /\ search'.anchor = search.anchor
          /\ search'.probes = search.probes + 1 /\ search'.timestamp = ts - 1 /\ SearchTypeOK'
      <4>1. search.probes + 1 \in Nat /\ ts - 1 \in Int /\ GAP_STEP \in Nat \ {0}
        BY <1>6, SearchAssumption
      <4>2. search' = [search EXCEPT !.probes = search.probes + 1, !.seen = TRUE, !.gapStep = GAP_STEP,
                                     !.timestamp = ts - 1]
        BY <3>1, <3>2
      <4>3. search' \in SearchRecord BY <1>6, <4>1, <4>2 DEF SearchRecord
      <4>4. /\ search'.at = search.at /\ search'.tier = search.tier /\ search'.anchor = search.anchor
            /\ search'.probes = search.probes + 1 /\ search'.timestamp = ts - 1
        BY <1>6, <4>2 DEF SearchRecord
      <4>. QED BY <1>2, <1>8, <2>1, <4>3, <4>4 DEF SearchTypeOK
    <3>4. ASSUME NEW t \in Unbroken, t > ts - 1 PROVE Rejected(t)
      <4>1. CASE t > ts BY <1>8, <2>1, <4>1
      <4>2. CASE t = ts
        <5>1. feed[ts] # Dark /\ ts \in Seconds /\ ts <= search.anchor
          BY <1>7, <4>2 DEF Unbroken
        <5>2. p = ts BY <1>6, <2>2, <5>1
        <5>3. Floor <= ts /\ ts <= Upper BY <1>6, <1>8, <2>1, <5>1, BoundsTyped
        <5>4. search.tier = "tier-one" \/ search.tier = "tier-two" BY <1>6, <1>8, <2>1
        <5>. QED
          BY <1>6, <2>3, <4>2, <5>2, <5>3, <5>4, MarketTyped
          DEF isSettlementPrintAcceptable, Rejected, Floor, Upper
      <4>. QED BY <1>6, <1>7, <3>4, <4>1, <4>2
    <3>5. search'.timestamp <= search'.anchor - search'.probes BY <1>6, <1>8, <2>1, <3>3
    <3>. QED BY <1>2, <1>8, <1>9, <2>1, <3>3, <3>4, <3>5 DEF SearchInv, Rejected, Walked
  <2>4. CASE isSettlementPrintAcceptable(p) /\ search.tier = "tier-one" /\ p > readAt
    <3>1. search' = [search EXCEPT !.at = "too early"] BY <1>13, <2>4 DEF ProbePrint
    <3>. QED BY <1>2, <1>8, <1>9, <2>1, <3>1 DEF SearchInv, Rejected, SearchTypeOK, SearchRecord, Walked
  <2>5. CASE isSettlementPrintAcceptable(p) /\ ~(search.tier = "tier-one" /\ p > readAt)
    <3>1. search' = [search EXCEPT !.at = "found", !.timestamp = p] BY <1>13, <2>5 DEF ProbePrint
    <3>2. /\ search'.at = "found" /\ search'.tier = search.tier /\ search'.anchor = search.anchor
          /\ search'.timestamp = p /\ SearchTypeOK'
      BY <1>2, <2>2, <3>1 DEF SearchTypeOK, SearchRecord
    <3>3. \A t \in Unbroken : t > p => Rejected(t) BY <1>6, <1>7, <1>8, <2>1, <2>2
    <3>4. search.tier = "tier-one" => p <= readAt BY <1>2, <2>2, <2>5 DEF SearchTypeOK
    <3>5. isSettlementPrintAcceptable(search.timestamp)'
      <4>1. feed' = feed /\ search'.tier = search.tier BY <1>2, <3>2
      <4>2. isSettlementPrintAcceptable(p) BY <2>5
      <4>3. feed'[p].price = feed[p].price /\ feed'[p].confidence = feed[p].confidence BY <4>1
      <4>4. ConfidenceOk(feed'[p].price, feed'[p].confidence, Terms[market].maxConfidenceBps)
        BY <4>2, <4>3 DEF isSettlementPrintAcceptable
      <4>5. IF search'.tier = "tier-one"
            THEN p >= Terms[market].expiry /\ p <= computeObservationEnd(market)
            ELSE /\ p <= Terms[market].expiry
                 /\ Terms[market].expiry - p <= Terms[market].staleness
        BY <4>1, <4>2 DEF isSettlementPrintAcceptable
      <4>6. search'.timestamp = p BY <3>2
      <4>. QED BY <4>4, <4>5, <4>6 DEF isSettlementPrintAcceptable
    <3>6. search'.timestamp \in Seconds /\ feed'[search'.timestamp] # Dark BY <1>2, <2>2, <3>2
    <3>. QED BY <1>2, <1>8, <1>9, <2>1, <3>2, <3>3, <3>4, <3>5, <3>6 DEF SearchInv, Rejected, Walked
  <2>. QED BY <2>3, <2>4, <2>5
<1>. QED BY <1>1, <1>3, <1>4, <1>5, <1>10, <1>11, <1>12, <1>13 DEF SearchNext

(* One unit of the scale less of the price and one more of the confidence  *)
(* is more than rescaling takes and adds.                                  *)
LEMMA OneUnitIsEnough ==
  ASSUME NEW price \in Nat, NEW confidence \in Nat, NEW scale \in Nat \ {0}, NEW power \in Nat \ {0},
         NEW bound \in Nat, ConfidenceOk(price * scale - power, confidence * scale + power, bound)
  PROVE  ConfidenceOk((price * scale) \div power, CeilDiv(confidence * scale, power), bound)
<1> DEFINE x == price * scale
           y == confidence * scale
           P == x \div power
           C == CeilDiv(y, power)
<1>1. x \in Nat /\ y \in Nat BY SMT
<1>. HIDE DEF x, y
<1>2. P \in Nat /\ x < power * P + power BY <1>1, DivBounds
<1>3. C \in Nat /\ power * C < y + power BY <1>1, CeilDivBounds
<1>4. (y + power) * BPS_DENOMINATOR <= (x - power) * bound BY DEF ConfidenceOk, x, y
<1>5. BPS_DENOMINATOR \in Nat BY DEF BPS_DENOMINATOR
<1>. HIDE DEF P, C
<1>6. (power * C) * BPS_DENOMINATOR <= (y + power) * BPS_DENOMINATOR BY <1>1, <1>3, <1>5, SMT
<1>7. (x - power) * bound <= (power * P) * bound
  <2>1. x - power \in Int /\ power * P \in Int /\ x - power <= power * P BY <1>1, <1>2, SMT
  <2>2. \A a, b \in Int : a <= b => a * bound <= b * bound BY SMT
  <2>. QED BY <2>1, <2>2
<1>8. power * (C * BPS_DENOMINATOR) <= power * (P * bound)
  <2>1. (power * C) * BPS_DENOMINATOR = power * (C * BPS_DENOMINATOR) BY <1>3, <1>5, SMT
  <2>2. (power * P) * bound = power * (P * bound) BY <1>2, SMT
  <2>3. /\ (power * C) * BPS_DENOMINATOR \in Int /\ (y + power) * BPS_DENOMINATOR \in Int
        /\ (x - power) * bound \in Int /\ (power * P) * bound \in Int
    BY <1>1, <1>2, <1>3, <1>5, SMT
  <2>. QED BY <1>4, <1>6, <1>7, <2>1, <2>2, <2>3
<1>9. C * BPS_DENOMINATOR \in Nat /\ P * bound \in Nat BY <1>2, <1>3, <1>5, SMT
<1>10. \A a, b \in Nat : power * a <= power * b => a <= b BY SMT
<1>11. C * BPS_DENOMINATOR <= P * bound BY <1>8, <1>9, <1>10
<1>. QED BY <1>11 DEF ConfidenceOk, P, C, x, y

(* Where the rescaling is exact it keeps the verdict.                      *)
LEMMA ExactIsEnough ==
  ASSUME NEW price \in Nat, NEW confidence \in Nat, NEW k \in Nat, NEW bound \in Nat,
         ConfidenceOk(price, confidence, bound)
  PROVE  ConfidenceOk(price * k, confidence * k, bound)
<1>1. BPS_DENOMINATOR \in Nat BY DEF BPS_DENOMINATOR
<1>2. confidence * BPS_DENOMINATOR <= price * bound BY DEF ConfidenceOk
<1>3. confidence * BPS_DENOMINATOR \in Nat /\ price * bound \in Nat BY <1>1, SMT
<1>4. \A a, b \in Nat : a <= b => a * k <= b * k BY SMT
<1>5. (confidence * BPS_DENOMINATOR) * k <= (price * bound) * k BY <1>2, <1>3, <1>4
<1>6. (confidence * BPS_DENOMINATOR) * k = (confidence * k) * BPS_DENOMINATOR BY <1>1, SMT
<1>7. (price * bound) * k = (price * k) * bound BY SMT
<1>. QED BY <1>5, <1>6, <1>7 DEF ConfidenceOk

(* And it is exact by a power of ten that divides the scale.               *)
LEMMA MultipleDivides ==
  ASSUME NEW value \in Nat, NEW power \in Nat \ {0}, NEW k \in Nat
  PROVE  /\ (value * (power * k)) \div power = value * k
         /\ CeilDiv(value * (power * k), power) = value * k
<1> DEFINE n == value * k
           d == (power * n) \div power
           c == CeilDiv(power * n, power)
<1>1. n \in Nat /\ value * (power * k) = power * n BY SMT
<1>. HIDE DEF n
<1>2. power * n \in Nat BY <1>1, SMT
<1>3. d \in Nat /\ power * d <= power * n /\ power * n < power * d + power BY <1>2, DivBounds
<1>4. c \in Nat /\ power * n <= power * c /\ power * c < power * n + power BY <1>2, CeilDivBounds
<1>. HIDE DEF d, c
<1>5. \A a, b \in Nat : power * a < power * b + power => a <= b
  <2>1. ASSUME NEW a \in Nat, NEW b \in Nat, b < a PROVE power * b + power <= power * a
    <3>1. b + 1 <= a BY <2>1
    <3>2. power * (b + 1) <= power * a BY <3>1, SMT
    <3>. QED BY <3>2, SMT
  <2>2. \A a, b \in Nat : power * a \in Int /\ power * b + power \in Int BY SMT
  <2>. QED BY <2>1, <2>2
<1>6. \A a, b \in Nat : power * a <= power * b => a <= b BY SMT
<1>7. d <= n /\ n <= d BY <1>1, <1>3, <1>5, <1>6
<1>8. n <= c /\ c <= n BY <1>1, <1>4, <1>5, <1>6
<1>9. d = n /\ c = n BY <1>1, <1>3, <1>4, <1>7, <1>8
<1>. QED BY <1>1, <1>9 DEF n, d, c

LEMMA NumbersTyped ==
  ASSUME NEW t \in TermsRecord
  PROVE  t.priceScale \in Nat \ {0} /\ t.maxConfidenceBps \in Nat
<1>1. t.maxConfidenceBps \in Int /\ 1 <= t.maxConfidenceBps BY SMTT(60) DEF TermsRecord
<1>2. t.priceScale \in Nat \ {0} BY DEF TermsRecord
<1>. QED BY <1>1, <1>2

(* A print the program takes is one the search accepts; and the other way  *)
(* round, away from the edge.                                              *)
LEMMA VerdictsAgree ==
  ASSUME NEW q \in Quotations
  PROVE  /\ QuotationOk(market, q) =>
              ConfidenceOk(q.price, q.confidence, Terms[market].maxConfidenceBps)
         /\ /\ ConfidenceOk(q.price, q.confidence, Terms[market].maxConfidenceBps)
            /\ Representable(q) /\ ~AtRoundingEdge(q)
            => QuotationOk(market, q)
<1> DEFINE scale == Terms[market].priceScale
           bound == Terms[market].maxConfidenceBps
           power == PrintPower(q)
<1>1. /\ q.price \in Nat \ {0} /\ q.confidence \in Nat /\ q.exponent \in Int
      /\ scale \in Nat \ {0} /\ bound \in Nat
  <2>1. q \in [price : Nat \ {0}, confidence : Nat, exponent : -18 .. 18] BY SearchAssumption
  <2>2. market \in Markets BY SearchAssumption
  <2>3. Terms[market] \in TermsRecord BY <2>2, TermsAssumption
  <2>4. q.exponent \in -18 .. 18 BY <2>1
  <2>5. q.price \in Nat \ {0} /\ q.confidence \in Nat /\ q.exponent \in Int BY <2>1, <2>4
  <2>. QED BY <2>3, <2>5, NumbersTyped
<1>2. power \in Nat \ {0}
  <2>1. (IF q.exponent >= 0 THEN q.exponent ELSE - q.exponent) \in Nat BY <1>1
  <2>. QED BY <2>1, PowerPositive DEF PrintPower
<1>. HIDE DEF scale, bound, power
<1>3. /\ PrintPrice(market, q) = NormalizeDown(q.price, q.exponent, scale, power)
      /\ PrintConfidence(market, q) = NormalizeUp(q.confidence, q.exponent, scale, power)
  BY DEF PrintPrice, PrintConfidence, scale, power
<1>4. QuotationOk(market, q) <=>
        Representable(q) /\ ConfidenceOk(PrintPrice(market, q), PrintConfidence(market, q), bound)
  BY <1>1 DEF QuotationOk, Representable, bound
<1>5. QuotationOk(market, q) => ConfidenceOk(q.price, q.confidence, bound)
  BY <1>1, <1>2, <1>3, <1>4, NormalizationIsConservative
<1>6. ASSUME ConfidenceOk(q.price, q.confidence, bound), ~AtRoundingEdge(q)
      PROVE  ConfidenceOk(PrintPrice(market, q), PrintConfidence(market, q), bound)
  <2>1. CASE q.exponent >= 0
    <3>1. /\ PrintPrice(market, q) = q.price * (scale * power)
          /\ PrintConfidence(market, q) = q.confidence * (scale * power)
      <4>1. \A v \in Nat : v * scale * power = v * (scale * power) BY <1>1, <1>2, SMT
      <4>. QED BY <1>1, <1>3, <2>1, <4>1 DEF NormalizeDown, NormalizeUp
    <3>2. scale * power \in Nat BY <1>1, <1>2, SMT
    <3>. QED BY <1>1, <1>6, <3>1, <3>2, ExactIsEnough
  <2>2. CASE q.exponent < 0
    <3>1. /\ PrintPrice(market, q) = (q.price * scale) \div power
          /\ PrintConfidence(market, q) = CeilDiv(q.confidence * scale, power)
      BY <1>1, <1>3, <2>2 DEF NormalizeDown, NormalizeUp
    <3>2. \/ power * (scale \div power) = scale
          \/ ConfidenceOk(q.price * scale - power, q.confidence * scale + power, bound)
      BY <1>6, <2>2 DEF AtRoundingEdge, scale, bound, power
    <3>3. CASE power * (scale \div power) = scale
      <4> DEFINE k == scale \div power
      <4>1. k \in Nat /\ scale = power * k BY <1>1, <1>2, <3>3, DivBounds
      <4>. HIDE DEF k
      <4>2. /\ PrintPrice(market, q) = q.price * k /\ PrintConfidence(market, q) = q.confidence * k
        BY <1>1, <1>2, <3>1, <4>1, MultipleDivides
      <4>. QED BY <1>1, <1>6, <4>1, <4>2, ExactIsEnough
    <3>4. CASE ConfidenceOk(q.price * scale - power, q.confidence * scale + power, bound)
      BY <1>1, <1>2, <3>1, <3>4, OneUnitIsEnough
    <3>. QED BY <3>2, <3>3, <3>4
  <2>. QED BY <1>1, <2>1, <2>2
<1>. QED BY <1>4, <1>5, <1>6 DEF bound

(* What the tier allowed at the reading it still allows at any later time. *)
LEMMA FoundIsInTime ==
  ASSUME SearchInv, search.at = "found", NEW t \in readAt .. FinalDeadline(market)
  PROVE  InTime(search.timestamp, t)
<1>1. /\ search.timestamp \in Int /\ readAt \in Int
      /\ search.tier \in {"none", "tier-one", "tier-two"}
  BY DEF SearchInv, SearchTypeOK, SearchRecord
<1>2. FinalDeadline(market) \in Int
  BY MarketTyped, DurationsAssumption
  DEF FinalDeadline, TierTwoOpenAt, SettlementDeadline, ObservationEnd, Expiry
<1>3. t \in Int /\ readAt <= t BY <1>1, <1>2
<1>4. /\ search.tier # "none" /\ search.tier = selectViableSettlementTier(market, readAt)
      /\ isSettlementPrintAcceptable(search.timestamp)
      /\ search.tier = "tier-one" => search.timestamp <= readAt
  BY DEF SearchInv
<1>5. CASE search.tier = "tier-one"
  BY <1>1, <1>3, <1>4, <1>5, MarketTyped DEF isSettlementPrintAcceptable, InTime, ObservationEnd, Expiry, computeObservationEnd
<1>6. CASE search.tier = "tier-two"
  <2>1. computeTierTwoOpenAt(market) < readAt BY <1>4, <1>6 DEF selectViableSettlementTier
  <2>2. TierTwoOpenAt(market) = computeTierTwoOpenAt(market)
    BY DEF TierTwoOpenAt, SettlementDeadline, ObservationEnd, Expiry,
       computeTierTwoOpenAt, computeSettlementDeadline, computeObservationEnd
  <2>3. computeTierTwoOpenAt(market) \in Int
    BY MarketTyped, DurationsAssumption DEF computeTierTwoOpenAt, computeSettlementDeadline, computeObservationEnd
  <2>4. TierTwoOpenAt(market) < t BY <1>1, <1>3, <2>1, <2>2, <2>3
  <2>. QED BY <1>1, <1>4, <1>6, <2>4 DEF isSettlementPrintAcceptable, InTime, Expiry
<1>. QED BY <1>1, <1>4, <1>5, <1>6

(* The search finds prints dated as the program asks, with numbers it takes*)
(* wherever rounding does not decide, and passes over none it would have   *)
(* taken (settlement.ts), whatever the feed, its gaps, the market's scale  *)
(* and bound, the tolerances and the clock.                                *)
THEOREM SearchIsSoundHolds == SearchSpec => []SearchIsSound
<1>1. SearchInv => SearchIsSound
  <2>1. SUFFICES ASSUME SearchInv PROVE SearchIsSound OBVIOUS
  <2>2. SearchTypeOK BY <2>1 DEF SearchInv
  <2>3. ASSUME NEW t \in Unbroken PROVE Rejected(t) => ~QuotationOk(market, feed[t])
    <3>1. t \in Seconds /\ t <= search.anchor BY DEF Unbroken
    <3>2. t \in Int BY <3>1, SearchAssumption
    <3>3. \A u \in Seconds : t <= u /\ u <= search.anchor => feed[u] # Dark BY DEF Unbroken
    <3>4. t <= t BY <3>2
    <3>5. feed[t] # Dark BY <3>1, <3>3, <3>4
    <3>6. feed[t] \in Quotations BY <2>2, <3>1, <3>5 DEF SearchTypeOK
    <3>. QED BY <3>6, VerdictsAgree DEF Rejected
  <2>4. ASSUME search.at = "found"
        PROVE  LET q == feed[search.timestamp]
               IN  Representable(q) /\ ~AtRoundingEdge(q) => QuotationOk(market, q)
    <3>1. /\ search.timestamp \in Seconds /\ isSettlementPrintAcceptable(search.timestamp)
          /\ feed[search.timestamp] # Dark
      BY <2>1, <2>4 DEF SearchInv
    <3>2. feed[search.timestamp] \in Quotations BY <2>2, <3>1 DEF SearchTypeOK
    <3>3. ConfidenceOk(feed[search.timestamp].price, feed[search.timestamp].confidence,
                       Terms[market].maxConfidenceBps)
      BY <3>1 DEF isSettlementPrintAcceptable
    <3>. QED BY <3>2, <3>3, VerdictsAgree
  <2>. QED BY <2>1, <2>3, <2>4, FoundIsInTime DEF SearchInv, SearchIsSound
<1>. QED BY <1>1, SearchInitInv, SearchInvNext, PTL DEF SearchSpec

-----------------------------------------------------------------------------
(* The transaction a buyer signs.                                          *)

IsMarket(m) == m = [expiry |-> m.expiry, strike |-> m.strike]
IsFill(f) == f = [at |-> f.at, shape |-> f.shape, table |-> f.table, place |-> f.place,
                  accounts |-> f.accounts, create_market |-> f.create_market,
                  last_trade_at |-> f.last_trade_at, release |-> f.release, seen |-> f.seen]

Trusted(d) == {d.current} \union d.retiring
Known == {deployment} \union {server[i] : i \in Instances}

(* A table trusted in one manifest is trusted in every later one, or is    *)
(* closed.                                                                 *)
LaterTrustsIt(release, t) ==
  \A d \in Known : release <= d.release => t \in Trusted(d) \/ ~tables[t].alive

ManifestsKnowTables ==
  /\ deployment.current \in FillTables
  /\ \A d \in Known :
       /\ d.release <= deployment.release /\ Trusted(d) \subseteq 1 .. deployment.current
       /\ \A t \in Trusted(d) : LaterTrustsIt(d.release, t)

(* What the fill says of its market, alone and through the table.          *)
FillNamesItsMarket ==
  /\ IsFill(fill) /\ IsMarket(fill.create_market)
  /\ fill.accounts = fillAccounts(fill.create_market)
  /\ fill.table = Uncompressed => fill.place = 0
  /\ fill.table # Uncompressed =>
       /\ fill.table \in 1 .. deployment.current
       /\ fill.release \in Nat /\ fill.release <= deployment.release
       /\ LaterTrustsIt(fill.release, fill.table)
       /\ fill.place \in Nat /\ fill.seen \in Nat
       /\ fill.place <= fill.seen /\ fill.seen <= Len(tables[fill.table].holds)
       /\ fill.place # 0 => tables[fill.table].holds[fill.place] = fill.create_market

ManifestRecord == [release : Nat, current : Nat, retiring : SUBSET Nat]

FillTransactionInv ==
  /\ gridTime \in Nat
  /\ \A m \in DOMAIN chain : IsMarket(m)
  /\ deployment \in ManifestRecord /\ server \in [Instances -> ManifestRecord]
  /\ tables \in [FillTables -> [alive : BOOLEAN, holds : Seq(DOMAIN chain)]]
  /\ ManifestsKnowTables
  /\ fill # NoFill => FillNamesItsMarket

LEMMA FillTransactionInvInit == FillTransactionInit => FillTransactionInv
<1>1. SUFFICES ASSUME FillTransactionInit PROVE FillTransactionInv OBVIOUS
<1> DEFINE first == [release |-> 1, current |-> 1, retiring |-> {}]
<1>2. /\ gridTime = 0 /\ DOMAIN chain = {} /\ deployment = first /\ fill = NoFill
      /\ server = [i \in Instances |-> first]
      /\ tables = [t \in FillTables |-> IF t = 1 THEN [alive |-> TRUE, holds |-> <<>>] ELSE Missing]
  BY <1>1 DEF FillTransactionInit, SlotsInit, TransactionInit
<1>3. first \in ManifestRecord BY DEF ManifestRecord
<1>4. <<>> \in Seq(DOMAIN chain) OBVIOUS
<1>5. tables \in [FillTables -> [alive : BOOLEAN, holds : Seq(DOMAIN chain)]]
  BY <1>2, <1>4 DEF Missing
<1>6. 1 \in FillTables BY FillTransactionAssumption DEF FillTables
<1>7. \A d \in Known : d = first BY <1>2 DEF Known
<1>8. Trusted(first) = {1} BY DEF Trusted
<1>9. ManifestsKnowTables
  <2>1. first.release = 1 /\ first.current = 1 OBVIOUS
  <2>2. \A d \in Known : d.release <= first.release /\ Trusted(d) = {1} BY <1>7, <1>8, <2>1
  <2>3. \A d, e \in Known : \A t \in Trusted(d) : t \in Trusted(e) BY <2>2
  <2>. QED BY <1>2, <1>6, <2>1, <2>2, <2>3 DEF ManifestsKnowTables, LaterTrustsIt
<1>. QED BY <1>2, <1>3, <1>5, <1>9 DEF FillTransactionInv

(* A market's place in a copy of a table is its place in the table.        *)
LEMMA PlacesAreTrue ==
  ASSUME NEW S, NEW holds \in Seq(S), NEW n \in 0 .. Len(holds), NEW m,
         NEW copy, copy = [alive |-> TRUE, holds |-> SubSeq(holds, 1, n)]
  PROVE  /\ Len(copy.holds) = n /\ PlaceOf(m, copy) \in 0 .. n
         /\ PlaceOf(m, copy) # 0 => holds[PlaceOf(m, copy)] = m
<1>1. /\ n \in Nat /\ Len(holds) \in Nat /\ n <= Len(holds)
      /\ copy.holds = SubSeq(holds, 1, n)
  OBVIOUS
<1>2. /\ Len(SubSeq(holds, 1, n)) = n /\ SubSeq(holds, 1, n) \in Seq(S)
      /\ \A k \in 1 .. n : SubSeq(holds, 1, n)[k] = holds[k]
  BY <1>1
<1>3. DOMAIN copy.holds = 1 .. n BY <1>1, <1>2
<1>4. CASE \E k \in DOMAIN copy.holds : copy.holds[k] = m
  <2>1. /\ PlaceOf(m, copy) \in DOMAIN copy.holds /\ copy.holds[PlaceOf(m, copy)] = m
    BY <1>4 DEF PlaceOf
  <2>. QED BY <1>1, <1>2, <1>3, <2>1
<1>5. CASE ~\E k \in DOMAIN copy.holds : copy.holds[k] = m
  <2>1. PlaceOf(m, copy) = 0 BY <1>5 DEF PlaceOf
  <2>. QED BY <1>1, <1>2, <2>1
<1>. QED BY <1>4, <1>5

LEMMA NoPlaceInMissing ==
  ASSUME NEW m
  PROVE  PlaceOf(m, Missing) = 0
BY DEF PlaceOf, Missing

(* Copies of a table that answered.                                        *)
LEMMA LiveCopies ==
  ASSUME NEW t, NEW copy \in Copies(t), copy.alive
  PROVE  /\ t # Uncompressed
         /\ \E n \in 0 .. Len(tables[t].holds) : copy = [alive |-> TRUE, holds |-> SubSeq(tables[t].holds, 1, n)]
BY DEF Copies, Missing

(* A resolved slot is a market, if the listings are.                       *)
LEMMA ResolvedAreMarkets ==
  ASSUME NEW code, \A m \in DOMAIN chain : IsMarket(m)
  PROVE  /\ resolveOrPlan(code, DOMAIN chain, spot, gridTime).kind = "planned" =>
              IsMarket(resolveOrPlan(code, DOMAIN chain, spot, gridTime).series)
<1> DEFINE found == resolveSlot(code, DOMAIN chain, spot, gridTime)
<1>1. found.kind # "planned" BY DEF resolveSlot, resolution
<1>. HIDE DEF found
<1>. QED BY <1>1 DEF resolveOrPlan, planUnlistedSlot, deriveVsolSeriesCandidate, IsMarket, found

(* What is composed satisfies the invariant.                               *)
LEMMA ComposedFill ==
  ASSUME FillTransactionInv, NEW i \in Instances, NEW m, IsMarket(m), NEW code, NEW shape,
         NEW named, NEW copy, fill' = composeVsolFillTransaction(i, m, code, shape, named, copy),
         \/ named = Uncompressed /\ copy = Missing
         \/ named = server[i].current /\ copy \in Copies(named) /\ copy.alive,
         UNCHANGED <<gridTime, symbol, chain, spot, catalog, changes, deployment, tables, server>>
  PROVE  FillTransactionInv'
<1>1. /\ IsFill(fill') /\ fill'.create_market = m /\ fill'.accounts = fillAccounts(m)
      /\ fill'.table = named /\ fill'.place = PlaceOf(m, copy) /\ fill'.seen = Len(copy.holds)
      /\ fill'.release = server[i].release
  BY DEF composeVsolFillTransaction, IsFill
<1>2. /\ Known' = Known /\ ManifestsKnowTables'
      /\ \A r, t : LaterTrustsIt(r, t)' <=> LaterTrustsIt(r, t)
  BY DEF FillTransactionInv, ManifestsKnowTables, Known, LaterTrustsIt
<1>3. CASE named = Uncompressed /\ copy = Missing
  BY <1>1, <1>2, <1>3, NoPlaceInMissing DEF FillTransactionInv, FillNamesItsMarket, fillAccounts
<1>4. CASE named = server[i].current /\ copy \in Copies(named) /\ copy.alive
  <2>1. named # Uncompressed BY <1>4, LiveCopies
  <2>2. PICK n \in 0 .. Len(tables[named].holds) :
          copy = [alive |-> TRUE, holds |-> SubSeq(tables[named].holds, 1, n)]
    BY <1>4, LiveCopies
  <2>3. /\ server[i] \in Known /\ server[i] \in ManifestRecord /\ deployment \in ManifestRecord
        /\ deployment.current \in FillTables
    BY DEF FillTransactionInv, Known, ManifestsKnowTables
  <2>4. /\ server[i].release \in Nat /\ server[i].release <= deployment.release
        /\ named \in 1 .. deployment.current /\ LaterTrustsIt(server[i].release, named)
    BY <1>4, <2>3 DEF FillTransactionInv, ManifestsKnowTables, ManifestRecord, Trusted
  <2>5. named \in FillTables BY <2>3, <2>4, FillTransactionAssumption DEF FillTables
  <2>6. tables[named].holds \in Seq(DOMAIN chain) BY <2>5 DEF FillTransactionInv
  <2>7. /\ Len(copy.holds) = n /\ PlaceOf(m, copy) \in 0 .. n
        /\ PlaceOf(m, copy) # 0 => tables[named].holds[PlaceOf(m, copy)] = m
    <3> DEFINE S == DOMAIN chain
               holds == tables[named].holds
    <3>1. holds \in Seq(S) /\ n \in 0 .. Len(holds) /\ copy = [alive |-> TRUE, holds |-> SubSeq(holds, 1, n)]
      BY <2>2, <2>6
    <3>. HIDE DEF S, holds
    <3>2. /\ Len(copy.holds) = n /\ PlaceOf(m, copy) \in 0 .. n
          /\ PlaceOf(m, copy) # 0 => holds[PlaceOf(m, copy)] = m
      BY <3>1, PlacesAreTrue
    <3>. QED BY <3>2 DEF holds
  <2>8. /\ n \in Nat /\ n <= Len(tables[named].holds) /\ PlaceOf(m, copy) \in Nat /\ PlaceOf(m, copy) <= n
    BY <2>6, <2>7
  <2>9. FillNamesItsMarket'
    BY <1>1, <1>2, <2>1, <2>4, <2>7, <2>8 DEF FillNamesItsMarket, fillAccounts
  <2>. QED BY <1>2, <2>9 DEF FillTransactionInv
<1>. QED BY <1>3, <1>4
(* The chain's moves only add markets.                                     *)
LEMMA ChainGrows ==
  ASSUME FillTransactionInv, gridTime' \in Nat, DOMAIN chain \subseteq DOMAIN chain',
         \A m \in DOMAIN chain' : IsMarket(m), UNCHANGED <<deployment, tables, server, fill>>
  PROVE  FillTransactionInv'
<1>1. Seq(DOMAIN chain) \subseteq Seq(DOMAIN chain')
  <2>1. SUFFICES ASSUME NEW s \in Seq(DOMAIN chain) PROVE s \in Seq(DOMAIN chain') OBVIOUS
  <2>2. \A k \in 1 .. Len(s) : s[k] \in DOMAIN chain' OBVIOUS
  <2>. QED BY <2>2
<1>2. tables' \in [FillTables -> [alive : BOOLEAN, holds : Seq(DOMAIN chain')]]
  <2>1. tables \in [FillTables -> [alive : BOOLEAN, holds : Seq(DOMAIN chain)]] BY DEF FillTransactionInv
  <2>. QED BY <1>1, <2>1
<1>3. ManifestsKnowTables' /\ (fill # NoFill => FillNamesItsMarket')
  BY DEF FillTransactionInv, ManifestsKnowTables, FillNamesItsMarket, Known, LaterTrustsIt, fillAccounts
<1>. QED BY <1>2, <1>3 DEF FillTransactionInv

(* Tables that stay what they were, or are closed, keep what was known.    *)
LEMMA NamesKept ==
  ASSUME FillTransactionInv, fill # NoFill, UNCHANGED fill, deployment.current <= deployment'.current,
         deployment.release <= deployment'.release, deployment' \in ManifestRecord,
         \A t \in 1 .. deployment.current :
           /\ tables'[t].holds = tables[t].holds
           /\ \A r \in Nat : r <= deployment.release /\ LaterTrustsIt(r, t) => LaterTrustsIt(r, t)'
  PROVE  FillNamesItsMarket'
<1>1. FillNamesItsMarket /\ deployment \in ManifestRecord BY DEF FillTransactionInv
<1>2. /\ deployment.current \in Nat /\ deployment.release \in Nat
      /\ deployment'.current \in Nat /\ deployment'.release \in Nat
  BY <1>1 DEF ManifestRecord
<1>3. fill.accounts' = fillAccounts(fill.create_market)' /\ IsFill(fill)' /\ IsMarket(fill.create_market)'
  BY <1>1 DEF FillNamesItsMarket, fillAccounts, IsFill, IsMarket
<1>4. CASE fill.table = Uncompressed BY <1>1, <1>3, <1>4 DEF FillNamesItsMarket
<1>5. CASE fill.table # Uncompressed
  <2>1. /\ fill.table \in 1 .. deployment.current /\ fill.release \in Nat
        /\ fill.release <= deployment.release /\ LaterTrustsIt(fill.release, fill.table)
    BY <1>1, <1>5 DEF FillNamesItsMarket
  <2>2. /\ tables'[fill.table].holds = tables[fill.table].holds
        /\ LaterTrustsIt(fill.release, fill.table)'
    BY <2>1
  <2>3. fill'.table \in 1 .. deployment'.current /\ fill'.release <= deployment'.release
    BY <1>2, <2>1
  <2>. QED BY <1>1, <1>3, <1>5, <2>1, <2>2, <2>3 DEF FillNamesItsMarket
<1>. QED BY <1>4, <1>5

LEMMA FillTransactionInvNext ==
  FillTransactionInv /\ [FillTransactionNext]_fillTransactionVars => FillTransactionInv'
<1>1. SUFFICES ASSUME FillTransactionInv, [FillTransactionNext]_fillTransactionVars
               PROVE FillTransactionInv'
  OBVIOUS
<1>2. /\ gridTime \in Nat /\ \A m \in DOMAIN chain : IsMarket(m)
      /\ deployment \in ManifestRecord /\ server \in [Instances -> ManifestRecord]
      /\ tables \in [FillTables -> [alive : BOOLEAN, holds : Seq(DOMAIN chain)]]
      /\ ManifestsKnowTables /\ (fill # NoFill => FillNamesItsMarket)
  BY <1>1 DEF FillTransactionInv
<1>3. /\ deployment.current \in Nat /\ deployment.release \in Nat /\ deployment.retiring \subseteq Nat
      /\ deployment.current \in FillTables /\ 1 .. deployment.current \subseteq FillTables
      /\ deployment \in Known
  BY <1>2, FillTransactionAssumption DEF ManifestRecord, ManifestsKnowTables, FillTables, Known
<1>4. \A d \in Known :
        /\ d \in ManifestRecord /\ d.release \in Nat
        /\ d.release <= deployment.release /\ Trusted(d) \subseteq 1 .. deployment.current
        /\ \A t \in Trusted(d) : LaterTrustsIt(d.release, t)
  BY <1>2 DEF ManifestsKnowTables, Known, ManifestRecord
<1>5. CASE UNCHANGED fillTransactionVars
  BY <1>1, <1>2, <1>5, ChainGrows DEF fillTransactionVars
<1>6. CASE (GridTick \/ SpotMoves) /\ UNCHANGED <<deployment, tables, server, fill>>
  BY <1>1, <1>2, <1>6, ChainGrows DEF GridTick, SpotMoves
<1>7. ASSUME UNCHANGED <<deployment, tables, server, fill>>, NEW code \in Codes, NEW strike \in Strikes,
             ListMarket(code, strike)
      PROVE  FillTransactionInv'
  <2> DEFINE m == [expiry |-> computeExpiryGrid(gridTime)[code], strike |-> strike]
  <2>1. /\ chain' = [x \in DOMAIN chain \union {m} |->
                       IF x = m THEN [state |-> "open", binding |-> Absent] ELSE chain[x]]
        /\ gridTime' = gridTime
    BY <1>7 DEF ListMarket, Change
  <2>2. IsMarket(m) BY DEF IsMarket
  <2>3. DOMAIN chain' = DOMAIN chain \union {m} BY <2>1
  <2>. HIDE DEF m
  <2>. QED BY <1>1, <1>2, <1>7, <2>1, <2>2, <2>3, ChainGrows
<1>8. ASSUME UNCHANGED <<deployment, tables, server, fill>>, NEW m \in DOMAIN chain,
             BindMarket(m) \/ EndMarket(m)
      PROVE  FillTransactionInv'
  <2>1. DOMAIN chain' = DOMAIN chain /\ gridTime' = gridTime
    <3>1. CASE BindMarket(m) BY <3>1 DEF BindMarket, Change
    <3>2. CASE EndMarket(m) BY <3>2 DEF EndMarket, Change
    <3>. QED BY <1>8, <3>1, <3>2
  <2>. QED BY <1>1, <1>2, <1>8, <2>1, ChainGrows
<1>9. CASE Sign
  <2>1. fill # NoFill BY <1>9 DEF Sign, NoFill
  <2>2. IsFill(fill) BY <1>2, <2>1 DEF FillNamesItsMarket
  <2>3. /\ IsFill(fill') /\ fill'.create_market = fill.create_market /\ fill'.accounts = fill.accounts
        /\ fill'.table = fill.table /\ fill'.place = fill.place /\ fill'.seen = fill.seen
        /\ fill'.release = fill.release
    BY <1>9, <2>2 DEF Sign, IsFill
  <2>4. UNCHANGED <<gridTime, symbol, chain, spot, catalog, changes, deployment, tables, server>>
    BY <1>9 DEF Sign
  <2>5. ManifestsKnowTables' /\ (\A r, t : LaterTrustsIt(r, t)' <=> LaterTrustsIt(r, t))
    BY <1>2, <2>4 DEF ManifestsKnowTables, Known, LaterTrustsIt
  <2>6. FillNamesItsMarket'
    BY <1>2, <2>1, <2>3, <2>4, <2>5 DEF FillNamesItsMarket, fillAccounts
  <2>. QED BY <1>2, <2>4, <2>5, <2>6 DEF FillTransactionInv
<1>10. CASE Rotate
  <2> DEFINE t == deployment.current + 1
             next == [release |-> deployment.release + 1, current |-> t,
                      retiring |-> deployment.retiring \union {deployment.current}]
  <2>1. /\ t \in FillTables /\ tables' = [tables EXCEPT ![t] = [alive |-> TRUE, holds |-> <<>>]]
        /\ deployment' = next
        /\ UNCHANGED <<gridTime, symbol, chain, spot, catalog, changes, server, fill>>
    BY <1>10 DEF Rotate
  <2>2. /\ next.release = deployment.release + 1 /\ next.current = t
        /\ next.retiring = deployment.retiring \union {deployment.current} /\ next \in ManifestRecord
    BY <1>3 DEF ManifestRecord
  <2>. HIDE DEF next
  <2>3. Trusted(deployment) \subseteq Trusted(next) /\ Trusted(next) = Trusted(deployment) \union {t}
    BY <2>2 DEF Trusted
  <2>4. tables' \in [FillTables -> [alive : BOOLEAN, holds : Seq(DOMAIN chain')]]
    <3>1. <<>> \in Seq(DOMAIN chain) OBVIOUS
    <3>2. [alive |-> TRUE, holds |-> <<>>] \in [alive : BOOLEAN, holds : Seq(DOMAIN chain)] BY <3>1
    <3>. QED BY <1>2, <2>1, <3>2
  <2>5. ASSUME NEW u \in 1 .. deployment.current
        PROVE  tables'[u] = tables[u]
    <3>1. u # t /\ u \in FillTables BY <1>3
    <3>. QED BY <1>2, <2>1, <3>1
  <2>6. Known' \subseteq Known \union {next} BY <2>1 DEF Known
  <2>7. ASSUME NEW u \in 1 .. deployment.current, NEW r, LaterTrustsIt(r, u), r <= deployment.release
        PROVE  LaterTrustsIt(r, u)'
    <3>1. ASSUME NEW d \in Known', r <= d.release PROVE u \in Trusted(d) \/ ~tables'[u].alive
      <4>1. CASE d \in Known BY <2>5, <2>7, <3>1, <4>1 DEF LaterTrustsIt
      <4>2. CASE d = next BY <1>3, <2>3, <2>5, <2>7, <4>2 DEF LaterTrustsIt
      <4>. QED BY <2>6, <4>1, <4>2
    <3>. QED BY <3>1 DEF LaterTrustsIt, Trusted
  <2>8. ASSUME NEW d \in Known'
        PROVE  /\ d.release <= next.release /\ Trusted(d) \subseteq 1 .. next.current
               /\ \A u \in Trusted(d) : LaterTrustsIt(d.release, u)'
    <3>1. CASE d \in Known
      <4>1. /\ d.release \in Nat /\ d.release <= deployment.release
            /\ Trusted(d) \subseteq 1 .. deployment.current
            /\ \A u \in Trusted(d) : LaterTrustsIt(d.release, u)
        BY <1>4, <3>1
      <4>2. \A u \in Trusted(d) : LaterTrustsIt(d.release, u)' BY <2>7, <4>1
      <4>. QED BY <1>3, <2>2, <4>1, <4>2
    <3>2. CASE d = next
      <4>1. Trusted(next) \subseteq 1 .. next.current
        <5>1. Trusted(deployment) \subseteq 1 .. deployment.current BY <1>3, <1>4
        <5>2. 1 .. deployment.current \subseteq 1 .. t /\ t \in 1 .. t BY <1>3
        <5>. QED BY <2>2, <2>3, <5>1, <5>2
      <4>2. ASSUME NEW u \in Trusted(d) PROVE LaterTrustsIt(d.release, u)'
        <5>1. ASSUME NEW e \in Known', d.release <= e.release PROVE e = d
          <6>1. e \notin Known BY <1>3, <1>4, <2>2, <3>2, <5>1
          <6>. QED BY <2>6, <3>2, <6>1
        <5>. QED BY <4>2, <5>1 DEF LaterTrustsIt, Trusted
      <4>. QED BY <1>3, <2>2, <3>2, <4>1, <4>2
    <3>. QED BY <2>6, <3>1, <3>2
  <2>9. ManifestsKnowTables'
    BY <2>1, <2>2, <2>8 DEF ManifestsKnowTables, Trusted
  <2>10. fill # NoFill => FillNamesItsMarket'
    BY <1>1, <1>3, <2>1, <2>2, <2>5, <2>7, NamesKept
  <2>. QED BY <1>2, <2>1, <2>2, <2>4, <2>9, <2>10 DEF FillTransactionInv
<1>11. ASSUME NEW i \in Instances, Submit(i) PROVE FillTransactionInv'
  <2>1. /\ fill' = NoFill
        /\ UNCHANGED <<gridTime, symbol, chain, spot, catalog, changes, deployment, tables, server>>
    BY <1>11 DEF Submit
  <2>2. ManifestsKnowTables' BY <1>2, <2>1 DEF ManifestsKnowTables, Known, LaterTrustsIt
  <2>. QED BY <1>2, <2>1, <2>2 DEF FillTransactionInv
<1>12. ASSUME NEW i \in Instances, Deploy(i) PROVE FillTransactionInv'
  <2>1. /\ server' = [server EXCEPT ![i] = deployment]
        /\ UNCHANGED <<gridTime, symbol, chain, spot, catalog, changes, deployment, tables, fill>>
    BY <1>12 DEF Deploy
  <2>2. Known' \subseteq Known /\ server' \in [Instances -> ManifestRecord]
    BY <1>2, <2>1 DEF Known
  <2>3. \A r, t : LaterTrustsIt(r, t) => LaterTrustsIt(r, t)'
    BY <2>1, <2>2 DEF LaterTrustsIt, Trusted
  <2>4. ManifestsKnowTables'
    BY <1>2, <2>1, <2>2, <2>3 DEF ManifestsKnowTables, Trusted
  <2>5. fill # NoFill => FillNamesItsMarket'
    BY <1>1, <1>2, <1>3, <2>1, <2>3, NamesKept
  <2>. QED BY <1>2, <2>1, <2>2, <2>4, <2>5 DEF FillTransactionInv
<1>13. ASSUME NEW i \in Instances, NEW code \in Codes, buildVsolQuoteTransaction(i, code)
       PROVE  FillTransactionInv'
  <2> DEFINE m == getVsolSeriesStateOrPlan(code).series
  <2>1. /\ m \in DOMAIN chain
        /\ UNCHANGED <<gridTime, symbol, chain, spot, catalog, changes, deployment, tables, server>>
        /\ \/ fill' = composeVsolFillTransaction(i, m, code, FillShape, Uncompressed, Missing)
           \/ \E copy \in Copies(server[i].current) :
                /\ copy.alive
                /\ fill' = composeVsolFillTransaction(i, m, code, FillShape, server[i].current, copy)
    BY <1>13 DEF buildVsolQuoteTransaction
  <2>2. IsMarket(m) BY <1>2, <2>1
  <2>. HIDE DEF m
  <2>. QED BY <1>1, <2>1, <2>2, ComposedFill
<1>14. ASSUME NEW i \in Instances, NEW code \in Codes, ComposeMintAndFill(i, code)
       PROVE  FillTransactionInv'
  <2> DEFINE planned == resolveOrPlan(code, DOMAIN chain, spot, gridTime)
             m == planned.series
  <2>1. /\ planned.kind = "planned"
        /\ UNCHANGED <<gridTime, symbol, chain, spot, catalog, changes, deployment, tables, server>>
        /\ fill' = composeVsolFillTransaction(i, m, code, MintAndFillShape, Uncompressed, Missing)
    BY <1>14 DEF ComposeMintAndFill
  <2>2. IsMarket(m) BY <1>2, <2>1, ResolvedAreMarkets
  <2>. HIDE DEF m
  <2>. QED BY <1>1, <2>1, <2>2, ComposedFill
<1>15. ASSUME NEW m \in DOMAIN chain, Extend(m) PROVE FillTransactionInv'
  <2> DEFINE t == deployment.current
             holds == tables[t].holds
  <2>1. /\ tables' = [tables EXCEPT ![t].holds = Append(holds, m)]
        /\ UNCHANGED <<gridTime, symbol, chain, spot, catalog, changes, deployment, server, fill>>
    BY <1>15 DEF Extend
  <2>2. /\ holds \in Seq(DOMAIN chain) /\ Len(holds) \in Nat
        /\ Append(holds, m) \in Seq(DOMAIN chain) /\ Len(Append(holds, m)) = Len(holds) + 1
        /\ \A k \in 1 .. Len(holds) : Append(holds, m)[k] = holds[k]
    BY <1>2, <1>3, <1>15
  <2>3. /\ \A u \in FillTables : u # t => tables'[u] = tables[u]
        /\ tables'[t].alive = tables[t].alive /\ tables'[t].holds = Append(holds, m)
    BY <1>2, <1>3, <2>1
  <2>4. tables' \in [FillTables -> [alive : BOOLEAN, holds : Seq(DOMAIN chain')]]
    BY <1>2, <1>3, <2>1, <2>2
  <2>5. \A u \in FillTables : tables'[u].alive = tables[u].alive BY <2>3
  <2>6. Known' = Known BY <2>1 DEF Known
  <2>7. \A r : \A u \in FillTables : LaterTrustsIt(r, u) => LaterTrustsIt(r, u)'
    BY <2>5, <2>6 DEF LaterTrustsIt, Trusted
  <2>8. ManifestsKnowTables'
    <3>1. \A d \in Known : \A u \in Trusted(d) : LaterTrustsIt(d.release, u)'
      BY <1>3, <1>4, <2>7
    <3>. QED BY <1>2, <2>1, <2>6, <3>1 DEF ManifestsKnowTables, Trusted
  <2>9. ASSUME fill # NoFill PROVE FillNamesItsMarket'
    <3>1. FillNamesItsMarket BY <1>2, <2>9
    <3>2. CASE fill.table = Uncompressed
      BY <2>1, <3>1, <3>2 DEF FillNamesItsMarket, fillAccounts
    <3>3. CASE fill.table # Uncompressed
      <4>1. /\ fill.table \in 1 .. deployment.current /\ fill.table \in FillTables
            /\ fill.place \in Nat /\ fill.seen \in Nat /\ fill.place <= fill.seen
            /\ fill.seen <= Len(tables[fill.table].holds)
            /\ fill.place # 0 => tables[fill.table].holds[fill.place] = fill.create_market
        BY <1>3, <3>1, <3>3 DEF FillNamesItsMarket
      <4>2. /\ fill.seen <= Len(tables'[fill.table].holds)
            /\ fill.place # 0 => tables'[fill.table].holds[fill.place] = fill.create_market
        <5>1. CASE fill.table # t BY <2>3, <4>1, <5>1
        <5>2. CASE fill.table = t
          <6>1. fill.seen <= Len(holds) /\ (fill.place # 0 => fill.place \in 1 .. Len(holds))
            BY <2>2, <4>1, <5>2
          <6>2. CASE fill.place = 0 BY <2>2, <2>3, <4>1, <5>2, <6>1, <6>2
          <6>3. CASE fill.place # 0
            <7>1. /\ tables'[t].holds = Append(holds, m)
                  /\ holds[fill.place] = fill.create_market
              BY <2>3, <4>1, <5>2, <6>3
            <7>2. /\ Append(holds, m)[fill.place] = holds[fill.place]
                  /\ Len(Append(holds, m)) = Len(holds) + 1
              BY <2>2, <6>1, <6>3
            <7>3. fill.seen <= Len(holds) + 1 BY <2>2, <4>1, <6>1
            <7>. QED BY <5>2, <7>1, <7>2, <7>3
          <6>. QED BY <6>2, <6>3
        <5>. QED BY <5>1, <5>2
      <4>3. LaterTrustsIt(fill.release, fill.table)'
        BY <2>1, <2>7, <3>1, <3>3, <4>1 DEF FillNamesItsMarket
      <4>. QED BY <2>1, <3>1, <3>3, <4>2, <4>3 DEF FillNamesItsMarket, fillAccounts
    <3>. QED BY <3>2, <3>3
  <2>. QED BY <1>2, <2>1, <2>4, <2>8, <2>9 DEF FillTransactionInv
<1>16. ASSUME NEW t \in FillTables, CloseTable(t) PROVE FillTransactionInv'
  <2> DEFINE next == [deployment EXCEPT !.retiring = deployment.retiring \ {t},
                                        !.release = deployment.release + 1]
  <2>1. /\ tables' = [tables EXCEPT ![t].alive = FALSE] /\ deployment' = next
        /\ UNCHANGED <<gridTime, symbol, chain, spot, catalog, changes, server, fill>>
    BY <1>16 DEF CloseTable
  <2>2. /\ next.release = deployment.release + 1 /\ next.current = deployment.current
        /\ next.retiring = deployment.retiring \ {t} /\ next \in ManifestRecord
    <3>1. deployment.release + 1 \in Nat /\ deployment.retiring \ {t} \in SUBSET Nat BY <1>3
    <3>2. deployment \in [release : Nat, current : Nat, retiring : SUBSET Nat] BY <1>2 DEF ManifestRecord
    <3>3. /\ next.release = deployment.release + 1 /\ next.current = deployment.current
          /\ next.retiring = deployment.retiring \ {t}
      BY <3>2
    <3>. QED BY <3>1, <3>2, <3>3 DEF ManifestRecord
  <2>. HIDE DEF next
  <2>3. Trusted(next) \subseteq Trusted(deployment) /\ Trusted(deployment) \subseteq Trusted(next) \union {t}
    BY <2>2 DEF Trusted
  <2>4. tables' \in [FillTables -> [alive : BOOLEAN, holds : Seq(DOMAIN chain')]]
    BY <1>2, <2>1
  <2>5. /\ \A u \in FillTables : tables'[u].holds = tables[u].holds /\ (tables'[u].alive => tables[u].alive)
        /\ ~tables'[t].alive
    BY <1>2, <1>16, <2>1
  <2>6. Known' \subseteq Known \union {next} BY <2>1 DEF Known
  <2>7. ASSUME NEW u \in FillTables, NEW r, LaterTrustsIt(r, u), r <= deployment.release
        PROVE  LaterTrustsIt(r, u)'
    <3>1. ASSUME NEW d \in Known', r <= d.release PROVE u \in Trusted(d) \/ ~tables'[u].alive
      <4>1. CASE d \in Known BY <2>5, <2>7, <3>1, <4>1 DEF LaterTrustsIt
      <4>2. CASE d = next
        <5>1. u \in Trusted(deployment) \/ ~tables[u].alive BY <1>3, <2>7 DEF LaterTrustsIt
        <5>. QED BY <2>3, <2>5, <4>2, <5>1
      <4>. QED BY <2>6, <4>1, <4>2
    <3>. QED BY <3>1 DEF LaterTrustsIt, Trusted
  <2>8. ASSUME NEW d \in Known'
        PROVE  /\ d.release <= next.release /\ Trusted(d) \subseteq 1 .. next.current
               /\ \A u \in Trusted(d) : LaterTrustsIt(d.release, u)'
    <3>1. CASE d \in Known
      <4>1. /\ d.release \in Nat /\ d.release <= deployment.release
            /\ Trusted(d) \subseteq 1 .. deployment.current
            /\ \A u \in Trusted(d) : LaterTrustsIt(d.release, u)
        BY <1>4, <3>1
      <4>2. \A u \in Trusted(d) : LaterTrustsIt(d.release, u)' BY <1>3, <2>7, <4>1
      <4>. QED BY <1>3, <2>2, <4>1, <4>2
    <3>2. CASE d = next
      <4>1. Trusted(next) \subseteq 1 .. next.current BY <1>3, <1>4, <2>2, <2>3
      <4>2. ASSUME NEW u \in Trusted(d) PROVE LaterTrustsIt(d.release, u)'
        <5>1. ASSUME NEW e \in Known', d.release <= e.release PROVE e = d
          <6>1. e \notin Known BY <1>3, <1>4, <2>2, <3>2, <5>1
          <6>. QED BY <2>6, <3>2, <6>1
        <5>. QED BY <4>2, <5>1 DEF LaterTrustsIt, Trusted
      <4>. QED BY <1>3, <2>2, <3>2, <4>1, <4>2
    <3>. QED BY <2>6, <3>1, <3>2
  <2>9. ManifestsKnowTables'
    BY <1>2, <2>1, <2>2, <2>8 DEF ManifestsKnowTables, Trusted
  <2>10. fill # NoFill => FillNamesItsMarket'
    BY <1>1, <1>3, <2>1, <2>2, <2>5, <2>7, NamesKept
  <2>. QED BY <1>2, <2>1, <2>2, <2>4, <2>9, <2>10 DEF FillTransactionInv
<1>. QED
  BY <1>1, <1>5, <1>6, <1>7, <1>8, <1>9, <1>10, <1>11, <1>12, <1>13, <1>14, <1>15, <1>16
  DEF FillTransactionNext
(* No slot of the grid is the refused series.                              *)
LEMMA RefusedIsNoSlot ==
  ASSUME gridTime \in Nat
  PROVE  \A params \in gridNow : ~matchesSlot(Refused, params)
<1>1. SUFFICES ASSUME NEW code \in Codes, matchesSlot(Refused, deriveLaunchSeriesParams(code, gridTime))
               PROVE FALSE
  BY DEF gridNow
<1> DEFINE expiry == computeExpiryGrid(gridTime)[code]
<1>2. expiry = 0 /\ expiry - gridTime > tradeLock(code)
  BY <1>1 DEF matchesSlot, deriveLaunchSeriesParams, launchSeriesParams, resolveExpiry, slot, Refused
<1>. HIDE DEF expiry
<1>3. tradeLock(code) \in Nat BY SlotsAssumption DEF tradeLock
<1>. QED BY <1>2, <1>3

(* What the inspection takes is a market of the grid: a listed one, or one *)
(* the server would list.                                                  *)
LEMMA InspectedAreSlots ==
  ASSUME NEW accounts, inspectVsolFillTransaction(accounts)
  PROVE  /\ \E params \in gridNow : matchesSlot(accounts.market, params)
         /\ accounts = fillAccounts(accounts.market) /\ fill.shape \in {FillShape, MintAndFillShape}
<1>1. /\ accounts.market \in resolveAvailableVsolSeries \union SeriesCandidates
      /\ accounts = fillAccounts(accounts.market) /\ fill.shape \in {FillShape, MintAndFillShape}
  BY DEF inspectVsolFillTransaction, verifyFillInstruction, isVsolFillTransaction, isVsolMintAndFillTransaction
<1>2. CASE accounts.market \in resolveAvailableVsolSeries
  BY <1>1, <1>2 DEF resolveAvailableVsolSeries
<1>3. CASE accounts.market \in SeriesCandidates
  <2>1. PICK params \in gridNow :
          params.valid /\ accounts.market = deriveVsolSeriesCandidate(params, ladderStrike(spot))
    BY <1>3 DEF SeriesCandidates
  <2>2. accounts.market.expiry = params.expiry BY <2>1 DEF deriveVsolSeriesCandidate
  <2>. QED BY <1>1, <2>1, <2>2 DEF matchesSlot
<1>. QED BY <1>1, <1>2, <1>3

(* What the transaction resolves to.                                       *)
LEMMA ResolvesToSomeMarket ==
  ASSUME fill.accounts = fillAccounts(fill.create_market), NEW i, NEW copy,
         resolveSignedVsolFillTransaction(i, copy)
           = fillAccounts(resolveSignedVsolFillTransaction(i, copy).market),
         resolveSignedVsolFillTransaction(i, copy).market # Refused
  PROVE  /\ fill.at = "signed"
         /\ resolveSignedVsolFillTransaction(i, copy).market = fill.create_market
<1> DEFINE accounts == resolveSignedVsolFillTransaction(i, copy)
           inTable == copy.holds[fill.place]
<1>1. \/ accounts = fillAccounts(Refused)
      \/ verifySignatures /\ (accounts = fill.accounts \/ accounts = [fill.accounts EXCEPT !.market = inTable])
  BY Zenon DEF resolveSignedVsolFillTransaction
<1>2. accounts = fillAccounts(accounts.market) /\ accounts.market # Refused OBVIOUS
<1>S. SUFFICES fill.at = "signed" /\ accounts.market = fill.create_market OBVIOUS
<1>. HIDE DEF accounts, inTable
<1>3. accounts # fillAccounts(Refused) BY <1>2 DEF fillAccounts
<1>4. CASE accounts = fill.accounts BY <1>1, <1>3, <1>4 DEF fillAccounts, verifySignatures
<1>5. CASE accounts = [fill.accounts EXCEPT !.market = inTable]
  <2>1. accounts.market = inTable /\ accounts.pool_market = <<fill.create_market>>
    BY <1>5 DEF fillAccounts
  <2>2. accounts.pool_market = <<accounts.market>> BY <1>2 DEF fillAccounts
  <2>. QED BY <1>1, <1>3, <2>1, <2>2 DEF verifySignatures
<1>. QED BY <1>1, <1>3, <1>4, <1>5

(* A fill whose instance knows enough resolves to the market it was signed *)
(* for.                                                                    *)
LEMMA SignedFillResolves ==
  ASSUME FillTransactionInv, fill # NoFill, fill.at = "signed",
         NEW i \in Instances, NEW copy \in Copies(fill.table),
         fill.table # Uncompressed =>
           /\ server[i].release >= fill.release /\ tables[fill.table].alive
           /\ copy.alive /\ Len(copy.holds) >= fill.seen
  PROVE  resolveSignedVsolFillTransaction(i, copy) = fill.accounts
<1>1. FillNamesItsMarket /\ verifySignatures BY DEF FillTransactionInv, verifySignatures
<1>2. CASE fill.table = Uncompressed
  <2>1. fill.place = 0 /\ copy = Missing BY <1>1, <1>2 DEF FillNamesItsMarket, Copies
  <2>2. fill.place \notin DOMAIN copy.holds BY <2>1 DEF Missing
  <2>. QED BY <1>1, <1>2, <2>2 DEF resolveSignedVsolFillTransaction
<1>3. CASE fill.table # Uncompressed
  <2>1. /\ fill.table \in 1 .. deployment.current /\ fill.release \in Nat
        /\ LaterTrustsIt(fill.release, fill.table)
        /\ fill.place \in Nat /\ fill.seen \in Nat /\ fill.place <= fill.seen
        /\ fill.seen <= Len(tables[fill.table].holds)
        /\ fill.place # 0 => tables[fill.table].holds[fill.place] = fill.create_market
        /\ fill.accounts = fillAccounts(fill.create_market)
    BY <1>1, <1>3 DEF FillNamesItsMarket
  <2>2. server[i] \in Known /\ server[i].release \in Nat
    BY DEF Known, FillTransactionInv, ManifestRecord
  <2>3. fill.table \in Trusted(server[i]) BY <1>3, <2>1, <2>2 DEF LaterTrustsIt
  <2>4. fill.table \in trustedLookupTables(i) BY <2>3 DEF trustedLookupTables, Trusted
  <2>5. tables[fill.table].holds \in Seq(DOMAIN chain)
    BY <2>1, FillTransactionAssumption DEF FillTransactionInv, ManifestsKnowTables, FillTables
  <2>6. PICK n \in 0 .. Len(tables[fill.table].holds) :
          copy = [alive |-> TRUE, holds |-> SubSeq(tables[fill.table].holds, 1, n)]
    BY <1>3, LiveCopies
  <2>7. DOMAIN copy.holds = 1 .. n /\ Len(copy.holds) = n /\ n \in Nat
        /\ \A k \in 1 .. n : copy.holds[k] = tables[fill.table].holds[k]
    BY <2>5, <2>6
  <2>8. CASE fill.place = 0
    <3>1. fill.place \notin DOMAIN copy.holds BY <2>7, <2>8
    <3>. QED BY <1>1, <1>3, <2>4, <2>8, <3>1 DEF resolveSignedVsolFillTransaction
  <2>9. CASE fill.place # 0
    <3>1. fill.place \in DOMAIN copy.holds /\ copy.holds[fill.place] = fill.create_market
      BY <1>3, <2>1, <2>7, <2>9
    <3>2. [fill.accounts EXCEPT !.market = fill.create_market] = fill.accounts
      BY <2>1 DEF fillAccounts
    <3>3. resolveSignedVsolFillTransaction(i, copy) = [fill.accounts EXCEPT !.market = copy.holds[fill.place]]
      BY <1>1, <1>3, <2>4, <2>9, <3>1 DEF resolveSignedVsolFillTransaction
    <3>. QED BY <3>1, <3>2, <3>3
  <2>. QED BY <2>8, <2>9
<1>. QED BY <1>2, <1>3

(* A fill for a market of the grid passes the inspection.                  *)
LEMMA GridFillsAreInspected ==
  ASSUME NEW m, IsMarket(m), fill.create_market = m,
         fill.shape \in {FillShape, MintAndFillShape}, \E params \in gridNow : matchesSlot(m, params),
         m \in DOMAIN chain \/ (fill.shape = MintAndFillShape /\ spot # Unavailable /\ ladderStrike(spot) = m.strike),
         fill.shape = MintAndFillShape =>
           \E params \in gridNow : matchesSlot(m, params) /\ params.lastTradeAt = fill.last_trade_at
  PROVE  inspectVsolFillTransaction(fillAccounts(m))
<1> DEFINE accounts == fillAccounts(m)
<1>1. accounts.market = m /\ verifyFillInstruction(accounts, m) BY DEF fillAccounts, verifyFillInstruction
<1>. HIDE DEF accounts
<1>2. m \in DOMAIN chain => m \in resolveAvailableVsolSeries BY DEF resolveAvailableVsolSeries
<1>3. m \in DOMAIN chain \/ m \in SeriesCandidates
  <2>1. SUFFICES ASSUME spot # Unavailable, ladderStrike(spot) = m.strike PROVE m \in SeriesCandidates
    OBVIOUS
  <2>2. PICK params \in gridNow : params.valid /\ m.expiry = params.expiry BY DEF matchesSlot
  <2>3. m = deriveVsolSeriesCandidate(params, ladderStrike(spot))
    BY <2>1, <2>2 DEF deriveVsolSeriesCandidate, IsMarket
  <2>. QED BY <2>1, <2>2, <2>3 DEF SeriesCandidates
<1>4. CASE fill.shape = MintAndFillShape
  <2>1. verifyAuthorizeMarketInstruction(m) BY <1>4 DEF verifyAuthorizeMarketInstruction, matchesSlot
  <2>. QED
    BY <1>1, <1>2, <1>3, <1>4, <2>1
    DEF inspectVsolFillTransaction, isVsolMintAndFillTransaction, verifyCreateMarketInstruction, accounts
<1>5. CASE fill.shape = FillShape /\ m \in DOMAIN chain
  BY <1>1, <1>2, <1>5 DEF inspectVsolFillTransaction, isVsolFillTransaction, accounts
<1>. QED BY <1>4, <1>5

THEOREM FillTransactionInvHolds == FillTransactionSpec => []FillTransactionInv
BY FillTransactionInvInit, FillTransactionInvNext, PTL DEF FillTransactionSpec

(* Every instance with a manifest and a copy of the table no older than    *)
(* the composer's takes the fill it is sent, and takes it for the market   *)
(* its buyer signed for (vsol-server.ts), whatever the listings, builds,   *)
(* rotations and prices in between.                                        *)
THEOREM SignedFillsAreRecognizedHolds == FillTransactionSpec => []SignedFillsAreRecognized
<1>1. ASSUME FillTransactionInv PROVE SignedFillsAreRecognized
  <2>1. SUFFICES ASSUME fill # NoFill, NEW i \in Instances, NEW copy \in Copies(fill.table)
                 PROVE  LET m == fill.create_market
                            unchanged == fill.shape \in {FillShape, MintAndFillShape}
                            inGrid == \E params \in gridNow : matchesSlot(m, params)
                            wouldBeListed == spot # Unavailable /\ ladderStrike(spot) = m.strike
                            sameCutoff == \E params \in gridNow :
                                            matchesSlot(m, params) /\ params.lastTradeAt = fill.last_trade_at
                            accepted == accepts(i, copy)
                        IN /\ /\ fill.at = "signed" /\ unchanged /\ inGrid
                              /\ m \in DOMAIN chain \/ (fill.shape = MintAndFillShape /\ wouldBeListed)
                              /\ fill.shape = MintAndFillShape => sameCutoff
                              /\ fill.table # Uncompressed =>
                                   /\ server[i].release >= fill.release /\ tables[fill.table].alive
                                   /\ copy.alive
                                   /\ Len(copy.holds) >= fill.seen
                              => accepted
                           /\ accepted => /\ fill.at = "signed" /\ unchanged /\ inGrid
                                          /\ resolveSignedVsolFillTransaction(i, copy).market = m
    BY DEF SignedFillsAreRecognized
  <2> DEFINE m == fill.create_market
             accounts == resolveSignedVsolFillTransaction(i, copy)
  <2>2. /\ gridTime \in Nat /\ FillNamesItsMarket /\ IsMarket(m) /\ fill.accounts = fillAccounts(m)
    BY <1>1, <2>1 DEF FillTransactionInv, FillNamesItsMarket
  <2>3. ASSUME fill.at = "signed", fill.shape \in {FillShape, MintAndFillShape},
               \E params \in gridNow : matchesSlot(m, params),
               m \in DOMAIN chain \/ (fill.shape = MintAndFillShape /\ spot # Unavailable /\ ladderStrike(spot) = m.strike),
               fill.shape = MintAndFillShape =>
                 \E params \in gridNow : matchesSlot(m, params) /\ params.lastTradeAt = fill.last_trade_at,
               fill.table # Uncompressed =>
                 /\ server[i].release >= fill.release /\ tables[fill.table].alive
                 /\ copy.alive /\ Len(copy.holds) >= fill.seen
        PROVE  accepts(i, copy)
    <3>1. accounts = fill.accounts BY <1>1, <2>1, <2>3, SignedFillResolves
    <3>2. inspectVsolFillTransaction(fillAccounts(m)) BY <2>2, <2>3, GridFillsAreInspected
    <3>. QED BY <2>2, <3>1, <3>2 DEF accepts
  <2>4. ASSUME accepts(i, copy)
        PROVE  /\ fill.at = "signed" /\ fill.shape \in {FillShape, MintAndFillShape}
               /\ \E params \in gridNow : matchesSlot(m, params)
               /\ accounts.market = m
    <3>1. inspectVsolFillTransaction(accounts) BY <2>4 DEF accepts
    <3>2. /\ \E params \in gridNow : matchesSlot(accounts.market, params)
          /\ accounts = fillAccounts(accounts.market) /\ fill.shape \in {FillShape, MintAndFillShape}
      BY <3>1, InspectedAreSlots
    <3>3. accounts.market # Refused BY <2>2, <3>2, RefusedIsNoSlot
    <3>4. fill.at = "signed" /\ accounts.market = m BY <2>2, <3>2, <3>3, ResolvesToSomeMarket
    <3>. QED BY <3>2, <3>4
  <2>. HIDE DEF m, accounts
  <2>. QED BY <2>3, <2>4 DEF m, accounts
<1>. QED BY <1>1, FillTransactionInvHolds, PTL

-----------------------------------------------------------------------------
(* The connection.                                                         *)

Statuses == {Unknown, "processed", "confirmed"}

SnapshotType == [height : Nat, status : Statuses, err : BOOLEAN]

ClusterType == [height : Nat, delivered : BOOLEAN, status : Statuses, err : BOOLEAN]

RequestType ==
  [method : {"none", "send", "status", "height"}, preferred : SUBSET Places,
   untried : SUBSET Places, reading : BOOLEAN]

ConfirmationType ==
  [at : {"send", "status", "height", "recheck", "confirmed", "failed", "expired", "rejected",
         "ceiling", "timeout"},
   strategy : {"blockhash", "timeout"}, late : BOOLEAN, heightFrom : Urls, statusFrom : Urls]

ConnectionTyped ==
  /\ cluster \in ClusterType
  /\ view \in [Urls -> SnapshotType]
  /\ request \in RequestType
  /\ IsBusy => request.untried # {} /\ ~IsOver
  /\ confirmation \in ConfirmationType

(* The two fates that nothing undoes: confirmed without an error, and past *)
(* the last block that may hold the transaction without having succeeded.  *)
Settled(s) == s.status = "confirmed" /\ ~s.err
Dead(s) == s.height > LastValid /\ (s.status = Unknown \/ s.err)

(* A snapshot of either is of a cluster that still is: an endpoint may lag,*)
(* but not about these.                                                    *)
ViewsAreFinal ==
  \A url \in Urls : /\ view[url].height <= cluster.height
                    /\ Settled(view[url]) => Settled(cluster)
                    /\ Dead(view[url]) => Dead(cluster)

(* The second look at the status follows a height past the last valid one. *)
ConnectionInv ==
  /\ ConnectionTyped
  /\ ViewsAreFinal
  /\ confirmation.at = "recheck" => view[confirmation.heightFrom].height > LastValid
  /\ confirmation.at = "confirmed" => Settled(cluster)
  /\ confirmation.at = "expired" /\ confirmation.heightFrom = confirmation.statusFrom =>
       Dead(cluster)

LEMMA PlacesTyped ==
  /\ Places \in SUBSET Nat /\ 1 \in Places
  /\ \A n \in Places : endpoints[n] \in Urls
<1>1. /\ endpoints \in Seq(Urls) /\ endpoints # <<>>
  BY ConnectionAssumption DEF Urls, Places
<1>2. Len(endpoints) \in Nat /\ Places = 1..Len(endpoints) /\ Len(endpoints) # 0
  BY <1>1 DEF Places
<1>. QED BY <1>2 DEF Urls

(* The attempt under way is at an endpoint that was not tried before.      *)
LEMMA TurnUntried ==
  ASSUME ConnectionTyped, IsBusy
  PROVE  Turn \in request.untried /\ Turn \in Places /\ endpoints[Turn] \in Urls
<1>. DEFINE preferred == request.untried \intersect request.preferred
            places == IF preferred # {} THEN preferred ELSE request.untried
<1>1. request.untried \in SUBSET Places /\ request.untried # {} BY DEF ConnectionTyped, RequestType
<1>2. places \in SUBSET Nat /\ places # {} /\ places \subseteq request.untried
  BY <1>1, PlacesTyped
<1>. HIDE DEF places
<1>3. \E n \in places : \A m \in places : n <= m BY <1>2, LeastNatural
<1>4. First(places) \in places BY <1>3 DEF First
<1>5. Turn = First(places) BY DEF Turn, places
<1>. QED BY <1>1, <1>2, <1>4, <1>5, PlacesTyped

LEMMA ConnectionInit == RpcInit => ConnectionInv
<1>. SUFFICES ASSUME RpcInit PROVE ConnectionInv OBVIOUS
<1>. USE DEF Unknown
<1>1. endpoints[1] \in Urls BY PlacesTyped
<1>2. PICK strategy \in {"blockhash", "timeout"} :
        confirmation = [at |-> "send", strategy |-> strategy, late |-> FALSE,
                        heightFrom |-> endpoints[1], statusFrom |-> endpoints[1]]
  BY DEF RpcInit
<1>3. ConnectionTyped
  BY <1>1, <1>2 DEF ConnectionTyped, RpcInit, ClusterType, RequestType, ConfirmationType,
         SnapshotType, Statuses, IsBusy, NoRequest
<1>4. ViewsAreFinal BY ConnectionAssumption DEF RpcInit, ViewsAreFinal, Settled, Dead
<1>. QED BY <1>2, <1>3, <1>4 DEF ConnectionInv

(* What the cluster may do leaves both fates as they are.                  *)
LEMMA FatesAreFinal ==
  ASSUME ConnectionTyped,
         \/ NewBlock
         \/ \E err \in BOOLEAN : Land(err)
         \/ \E confirmed \in BOOLEAN : Decide(confirmed)
  PROVE  /\ cluster' \in ClusterType
         /\ cluster'.height >= cluster.height
         /\ Settled(cluster) => Settled(cluster)'
         /\ Dead(cluster) => Dead(cluster)'
         /\ UNCHANGED <<view, request, confirmation>>
<1>. USE ConnectionAssumption DEF ClusterType, Unknown, Statuses, Settled, Dead
<1>0. cluster \in ClusterType
  BY DEF ConnectionTyped
<1>1. CASE NewBlock
  <2>1. /\ cluster' = [cluster EXCEPT !.height = cluster.height + 1]
        /\ UNCHANGED <<view, request, confirmation>>
    BY <1>0, <1>1 DEF NewBlock
  <2>2. cluster.height \in Nat /\ LastValid \in Nat BY <1>0
  <2>3. /\ cluster' \in ClusterType /\ cluster'.height = cluster.height + 1
        /\ cluster'.status = cluster.status /\ cluster'.err = cluster.err
    BY <1>0, <2>1, <2>2
  <2>4. cluster.height + 1 >= cluster.height
          /\ (cluster.height > LastValid => cluster.height + 1 > LastValid)
    BY <2>2
  <2>. QED BY <2>1, <2>3, <2>4
<1>2. ASSUME NEW err \in BOOLEAN, Land(err)
      PROVE  /\ cluster' \in ClusterType
             /\ cluster'.height = cluster.height
             /\ ~Settled(cluster) /\ ~Dead(cluster)
             /\ UNCHANGED <<view, request, confirmation>>
  <2>1. /\ cluster' = [cluster EXCEPT !.status = "processed", !.err = err]
        /\ cluster.status = Unknown /\ cluster.height < LastValid
        /\ UNCHANGED <<view, request, confirmation>>
    BY <1>2 DEF Land
  <2>2. cluster' \in ClusterType /\ cluster'.height = cluster.height BY <1>0, <2>1
  <2>3. cluster.status # "confirmed" BY <2>1
  <2>4. ~(cluster.height > LastValid) BY <1>0, <2>1
  <2>. QED BY <2>1, <2>2, <2>3, <2>4
<1>3. CASE \E err \in BOOLEAN : Land(err)
  <2>1. PICK err \in BOOLEAN : Land(err) BY <1>3
  <2>. QED BY <1>0, <1>2, <2>1
<1>4. ASSUME NEW confirmed \in BOOLEAN, Decide(confirmed)
      PROVE  /\ cluster' \in ClusterType
             /\ cluster'.height = cluster.height
             /\ ~Settled(cluster)
             /\ Dead(cluster) => Dead(cluster)'
             /\ UNCHANGED <<view, request, confirmation>>
  <2>1. /\ cluster.status = "processed"
        /\ UNCHANGED <<view, request, confirmation>>
    BY <1>4 DEF Decide
  <2>2. CASE confirmed
    <3>1. cluster' = [cluster EXCEPT !.status = "confirmed"] BY <1>4, <2>2 DEF Decide
    <3>. QED BY <1>0, <2>1, <3>1
  <2>3. CASE ~confirmed
    <3>1. cluster' = [cluster EXCEPT !.status = Unknown, !.err = FALSE] BY <1>4, <2>3 DEF Decide
    <3>. QED BY <1>0, <2>1, <3>1
  <2>. QED BY <2>2, <2>3
<1>5. CASE \E confirmed \in BOOLEAN : Decide(confirmed)
  <2>1. PICK confirmed \in BOOLEAN : Decide(confirmed) BY <1>5
  <2>. QED BY <1>0, <1>4, <2>1
<1>. QED BY <1>1, <1>3, <1>5

(* A snapshot taken later shows no lower height.                           *)
LEMMA CatchUpKeeps ==
  ASSUME ConnectionInv, NEW url \in Urls, CatchUp(url)
  PROVE  ConnectionInv'
<1>. USE ConnectionAssumption
<1>1. /\ cluster \in ClusterType
      /\ view \in [Urls -> SnapshotType] /\ ConnectionTyped /\ ViewsAreFinal
  BY DEF ConnectionInv, ConnectionTyped
<1>. DEFINE seen == [height |-> cluster.height, status |-> cluster.status, err |-> cluster.err]
<1>2. /\ view' = [view EXCEPT ![url] = seen] /\ ~IsOver
      /\ UNCHANGED <<cluster, request, confirmation>>
  BY DEF CatchUp
<1>3. seen \in SnapshotType /\ seen.height = cluster.height
        /\ (Settled(seen) => Settled(cluster)) /\ (Dead(seen) => Dead(cluster))
  BY <1>1 DEF ClusterType, SnapshotType, Settled, Dead
<1>. HIDE DEF seen
<1>4. \A u \in Urls : view'[u] = IF u = url THEN seen ELSE view[u] BY <1>1, <1>2
<1>5. view' \in [Urls -> SnapshotType] BY <1>1, <1>2, <1>3
<1>6. ConnectionTyped' BY <1>1, <1>2, <1>5 DEF ConnectionTyped, IsBusy, IsOver
<1>7. ASSUME NEW u \in Urls
      PROVE  (/\ view[u].height <= cluster.height
              /\ Settled(view[u]) => Settled(cluster)
              /\ Dead(view[u]) => Dead(cluster))'
  <2>1. CASE u = url
    <3>1. view'[u] = seen BY <1>4, <2>1
    <3>2. cluster' = cluster /\ cluster.height \in Nat BY <1>1, <1>2 DEF ClusterType
    <3>. QED BY <1>3, <3>1, <3>2 DEF Settled, Dead
  <2>2. CASE u # url
    <3>1. view'[u] = view[u] /\ cluster' = cluster BY <1>2, <1>4, <2>2
    <3>. QED BY <1>1, <3>1 DEF ViewsAreFinal, Settled, Dead
  <2>. QED BY <2>1, <2>2
<1>8. ViewsAreFinal' BY <1>7 DEF ViewsAreFinal
<1>9. ASSUME confirmation.at = "recheck"
      PROVE  view'[confirmation.heightFrom].height > LastValid
  <2>1. confirmation.heightFrom \in Urls /\ view[confirmation.heightFrom].height > LastValid
    BY <1>9 DEF ConnectionInv, ConnectionTyped, ConfirmationType
  <2>2. view[url].height <= cluster.height BY <1>1 DEF ViewsAreFinal
  <2>3. view[url].height \in Nat /\ cluster.height \in Nat BY <1>1 DEF ClusterType, SnapshotType
  <2>. QED BY <1>3, <1>4, <2>1, <2>2, <2>3
<1>10. confirmation.at # "confirmed" /\ confirmation.at # "expired" BY <1>2 DEF IsOver
<1>. QED BY <1>2, <1>6, <1>8, <1>9, <1>10 DEF ConnectionInv

(* The other steps are the caller's and its attempts': the views stand     *)
(* still, and of the cluster at most that the transaction was delivered.   *)
OnlyDelivers ==
  /\ view' = view
  /\ cluster' \in ClusterType
  /\ cluster'.height = cluster.height /\ cluster'.status = cluster.status
  /\ cluster'.err = cluster.err

Justified(c) ==
  /\ c.at = "recheck" => view[c.heightFrom].height > LastValid
  /\ c.at = "confirmed" => Settled(cluster)
  /\ c.at = "expired" /\ c.heightFrom = c.statusFrom => Dead(cluster)

LEMMA CallerKeeps ==
  ASSUME ConnectionInv, OnlyDelivers,
         request' \in RequestType, IsBusy' => request'.untried # {} /\ ~IsOver',
         confirmation' \in ConfirmationType, Justified(confirmation')
  PROVE  ConnectionInv'
<1>1. ConnectionTyped' BY DEF ConnectionInv, ConnectionTyped, OnlyDelivers
<1>2. ViewsAreFinal'
  BY DEF ConnectionInv, ViewsAreFinal, OnlyDelivers, Settled, Dead
<1>3. Justified(confirmation)'
  BY DEF Justified, OnlyDelivers, Settled, Dead
<1>. QED BY <1>1, <1>2, <1>3 DEF ConnectionInv, Justified

LEMMA DeliveryOnly ==
  ASSUME ConnectionInv, NEW reached \in BOOLEAN, view' = view,
         cluster' = [cluster EXCEPT !.delivered = @ \/ reached]
  PROVE  OnlyDelivers
<1>1. cluster \in ClusterType BY DEF ConnectionInv, ConnectionTyped
<1>2. cluster.delivered \in BOOLEAN BY <1>1 DEF ClusterType
<1>3. (cluster.delivered \/ reached) \in BOOLEAN OBVIOUS
<1>4. cluster' = [cluster EXCEPT !.delivered = (cluster.delivered \/ reached)] BY <1>1 DEF ClusterType
<1>. DEFINE d == cluster.delivered \/ reached
<1>. HIDE DEF d
<1>5. d \in BOOLEAN /\ cluster' = [cluster EXCEPT !.delivered = d] BY <1>3, <1>4 DEF d
<1>. QED BY <1>1, <1>5 DEF OnlyDelivers, ClusterType

(* What a caller knows stays justified while the confirmation stands.      *)
LEMMA StillJustified ==
  ASSUME ConnectionInv PROVE confirmation \in ConfirmationType /\ Justified(confirmation)
BY DEF ConnectionInv, ConnectionTyped, Justified

LEMMA NoRequestTyped == NoRequest \in RequestType
BY DEF NoRequest, RequestType

LEMMA EndOfPassTyped ==
  ASSUME ConnectionInv, NEW expired \in {"ceiling", "timeout"}
  PROVE  LET c == EndOfPass(confirmation, expired)
         IN c \in ConfirmationType /\ c.at \in {"status", "ceiling", "timeout"}
BY PlacesTyped DEF EndOfPass, ConnectionInv, ConnectionTyped, ConfirmationType

LEMMA FailureKeeps ==
  ASSUME ConnectionInv, NEW method, OnFailure(method)
  PROVE  confirmation' \in ConfirmationType /\ Justified(confirmation')
<1>1. confirmation' = EndOfPass(confirmation, "ceiling")
        \/ confirmation' = [confirmation EXCEPT !.at = "rejected"]
  BY DEF OnFailure
<1>2. CASE confirmation' = EndOfPass(confirmation, "ceiling")
  BY <1>2, EndOfPassTyped DEF Justified
<1>3. CASE confirmation' = [confirmation EXCEPT !.at = "rejected"]
  BY <1>3, StillJustified DEF ConfirmationType, Justified
<1>. QED BY <1>1, <1>2, <1>3

(* An answer says what the snapshot says, and the caller draws from it     *)
(* only what it shows.                                                     *)
LEMMA AnswerKeeps ==
  ASSUME ConnectionInv, AttemptAnswers
  PROVE  ConnectionInv'
<1>. DEFINE url == endpoints[Turn]
            seen == view[url]
<1>1. /\ ConnectionTyped /\ ViewsAreFinal
      /\ confirmation \in ConfirmationType /\ Justified(confirmation)
  BY StillJustified DEF ConnectionInv
<1>2. /\ IsBusy /\ request' = NoRequest /\ view' = view
      /\ cluster' = [cluster EXCEPT !.delivered = @ \/ request.method = "send"]
  BY DEF AttemptAnswers
<1>3. url \in Urls BY <1>1, <1>2, TurnUntried
<1>4. seen \in SnapshotType BY <1>1, <1>3 DEF ConnectionTyped
<1>5. \/ confirmation.at = "send" /\ Proceed("status")
      \/ confirmation.at = "status" /\ OnStatus(seen)
      \/ confirmation.at = "height" /\ OnHeight(seen, url)
      \/ confirmation.at = "recheck" /\ OnRecheck(seen, url)
  BY <1>1, <1>2 DEF AttemptAnswers, ConnectionTyped, IsOver
<1>6. OnlyDelivers
  <2>. DEFINE reached == request.method = "send"
  <2>1. reached \in BOOLEAN OBVIOUS
  <2>2. cluster' = [cluster EXCEPT !.delivered = @ \/ reached] BY <1>2
  <2>. HIDE DEF reached
  <2>. QED BY <1>2, <2>1, <2>2, DeliveryOnly
<1>7. (Settled(seen) => Settled(cluster)) /\ (Dead(seen) => Dead(cluster))
  BY <1>1, <1>3 DEF ViewsAreFinal
<1>8. \A expired \in {"ceiling", "timeout"} :
        LET c == EndOfPass(confirmation, expired) IN c \in ConfirmationType /\ Justified(c)
  BY EndOfPassTyped DEF Justified
<1>. HIDE DEF url, seen
<1>9. ~IsBusy' BY <1>2 DEF IsBusy
<1>. SUFFICES confirmation' \in ConfirmationType /\ Justified(confirmation')
  BY <1>2, <1>6, <1>9, NoRequestTyped, CallerKeeps
<1>10. CASE confirmation.at = "send" /\ Proceed("status")
  BY <1>1, <1>10 DEF Proceed, ConfirmationType, Justified
<1>11. CASE confirmation.at = "status" /\ OnStatus(seen)
  <2>1. \/ confirmation' = [confirmation EXCEPT !.at = "failed"]
        \/ Settled(seen) /\ confirmation' = [confirmation EXCEPT !.at = "confirmed"]
        \/ confirmation' = [confirmation EXCEPT !.at = "height"]
        \/ confirmation' = EndOfPass(confirmation, "timeout")
    BY <1>11 DEF OnStatus, Settled, Unknown
  <2>. QED BY <1>1, <1>7, <1>8, <2>1 DEF ConfirmationType, Justified
<1>12. CASE confirmation.at = "height" /\ OnHeight(seen, url)
  <2>1. \/ /\ seen.height > LastValid
           /\ confirmation' = [confirmation EXCEPT !.at = "recheck", !.heightFrom = url]
        \/ confirmation' = EndOfPass(confirmation, "ceiling")
    BY <1>12 DEF OnHeight
  <2>. QED BY <1>1, <1>3, <1>8, <2>1 DEF ConfirmationType, Justified, seen
<1>13. CASE confirmation.at = "recheck" /\ OnRecheck(seen, url)
  <2>1. \/ /\ seen.status = Unknown \/ seen.err
           /\ confirmation' = [confirmation EXCEPT !.at = "expired", !.statusFrom = url]
        \/ confirmation' = EndOfPass(confirmation, "ceiling")
    BY <1>13 DEF OnRecheck
  <2>2. view[confirmation.heightFrom].height > LastValid BY <1>1, <1>13 DEF Justified
  <2>3. ASSUME seen.status = Unknown \/ seen.err, confirmation.heightFrom = url
        PROVE  Dead(cluster)
    BY <1>7, <2>2, <2>3 DEF Dead, seen
  <2>. QED BY <1>1, <1>3, <1>8, <2>1, <2>3 DEF ConfirmationType, Justified
<1>. QED BY <1>5, <1>10, <1>11, <1>12, <1>13

(* An attempt that fails leaves a place to try or ends the request.        *)
LEMMA FailedAttemptKeeps ==
  ASSUME ConnectionInv, NEW fault \in Faults, AttemptFails(fault)
  PROVE  ConnectionInv'
<1>1. ConnectionTyped /\ request \in RequestType
  BY DEF ConnectionInv, ConnectionTyped
<1>2. /\ IsBusy /\ view' = view
      /\ \E reached \in BOOLEAN : cluster' = [cluster EXCEPT !.delivered = @ \/ reached]
      /\ \/ /\ request.untried # {Turn}
            /\ request' = [request EXCEPT !.untried = @ \ {Turn}, !.reading = FALSE]
            /\ UNCHANGED confirmation
         \/ request' = NoRequest /\ OnFailure(request.method)
  BY DEF AttemptFails
<1>3. OnlyDelivers BY <1>2, DeliveryOnly
<1>4. CASE /\ request.untried # {Turn}
           /\ request' = [request EXCEPT !.untried = @ \ {Turn}, !.reading = FALSE]
           /\ UNCHANGED confirmation
  <2>1. Turn \in request.untried BY <1>1, <1>2, TurnUntried
  <2>2. request' \in RequestType /\ request'.untried # {} BY <1>1, <1>4, <2>1 DEF RequestType
  <2>4. ~IsOver' BY <1>1, <1>2, <1>4 DEF ConnectionTyped, IsOver
  <2>3. confirmation' \in ConfirmationType /\ Justified(confirmation') BY <1>4, StillJustified
  <2>. QED BY <1>3, <2>2, <2>3, <2>4, CallerKeeps
<1>5. CASE request' = NoRequest /\ OnFailure(request.method)
  <2>1. ~IsBusy' BY <1>5 DEF IsBusy
  <2>2. confirmation' \in ConfirmationType /\ Justified(confirmation') BY <1>5, FailureKeeps
  <2>. QED BY <1>3, <1>5, <2>1, <2>2, NoRequestTyped, CallerKeeps
<1>. QED BY <1>2, <1>4, <1>5

(* The headers of a response change what the timer covers, nothing else.   *)
LEMMA HeadersKeep ==
  ASSUME ConnectionInv, HeadersArrive
  PROVE  ConnectionInv'
<1>1. ConnectionTyped /\ request \in RequestType
  BY DEF ConnectionInv, ConnectionTyped
<1>2. /\ IsBusy /\ view' = view /\ UNCHANGED confirmation
      /\ request' = [request EXCEPT !.reading = TRUE]
      /\ \E reached \in BOOLEAN : cluster' = [cluster EXCEPT !.delivered = @ \/ reached]
  BY DEF HeadersArrive
<1>3. OnlyDelivers BY <1>2, DeliveryOnly
<1>4. request' \in RequestType /\ request'.untried # {} /\ ~IsOver'
  BY <1>1, <1>2 DEF ConnectionTyped, RequestType, IsOver
<1>5. confirmation' \in ConfirmationType /\ Justified(confirmation') BY <1>2, StillJustified
<1>. QED BY <1>3, <1>4, <1>5, CallerKeeps

LEMMA ConnectionNext == ConnectionInv /\ [RpcNext]_rpcVars => ConnectionInv'
<1>. SUFFICES ASSUME ConnectionInv, [RpcNext]_rpcVars PROVE ConnectionInv' OBVIOUS
<1>1. cluster \in ClusterType /\ request \in RequestType /\ (IsBusy => request.untried # {} /\ ~IsOver)
        /\ ConnectionTyped /\ ViewsAreFinal
  BY DEF ConnectionInv, ConnectionTyped
<1>2. confirmation \in ConfirmationType /\ Justified(confirmation) BY StillJustified
<1>3. CASE UNCHANGED <<cluster, view, request, confirmation>>
  <2>1. OnlyDelivers BY <1>1, <1>3 DEF OnlyDelivers
  <2>2. IsBusy' => request'.untried # {} /\ ~IsOver' BY <1>1, <1>3 DEF IsBusy, IsOver
  <2>. QED BY <1>1, <1>2, <1>3, <2>1, <2>2, CallerKeeps
<1>4. CASE \/ NewBlock
           \/ \E err \in BOOLEAN : Land(err)
           \/ \E confirmed \in BOOLEAN : Decide(confirmed)
  <2>1. /\ cluster' \in ClusterType /\ cluster'.height >= cluster.height
        /\ Settled(cluster) => Settled(cluster)'
        /\ Dead(cluster) => Dead(cluster)'
        /\ UNCHANGED <<view, request, confirmation>>
    BY <1>1, <1>4, FatesAreFinal
  <2>2. ConnectionTyped' BY <1>1, <2>1 DEF ConnectionTyped, IsBusy, IsOver
  <2>3. ASSUME NEW url \in Urls
        PROVE  /\ view[url].height <= cluster'.height
               /\ Settled(view[url]) => Settled(cluster)'
               /\ Dead(view[url]) => Dead(cluster)'
    <3>1. view[url].height \in Nat /\ cluster.height \in Nat /\ cluster'.height \in Nat
      BY <1>1, <2>1 DEF ConnectionTyped, SnapshotType, ClusterType
    <3>. QED BY <1>1, <2>1, <3>1 DEF ViewsAreFinal
  <2>4. ViewsAreFinal' BY <2>1, <2>3 DEF ViewsAreFinal, Settled, Dead
  <2>. QED BY <1>2, <2>1, <2>2, <2>4 DEF ConnectionInv, Justified
<1>5. CASE Request
  <2>1. /\ UNCHANGED <<cluster, view, confirmation>>
        /\ confirmation.at \in {"send", "status", "height", "recheck"}
        /\ request' = computeAttemptOrder(IF confirmation.at = "recheck" THEN "status"
                                          ELSE confirmation.at)
    BY <1>5 DEF Request, Ask, IsOver
  <2>2. request' \in RequestType /\ request'.untried # {}
    BY <2>1, PlacesTyped DEF computeAttemptOrder, RequestType
  <2>3. OnlyDelivers BY <1>1, <2>1 DEF OnlyDelivers
  <2>4. ~IsOver' BY <2>1 DEF IsOver
  <2>. QED BY <1>2, <2>1, <2>2, <2>3, <2>4, CallerKeeps
<1>6. CASE AttemptRefused
  <2>1. request' = NoRequest /\ OnFailure(request.method) /\ UNCHANGED <<cluster, view>>
    BY <1>6 DEF AttemptRefused
  <2>2. OnlyDelivers BY <1>1, <2>1 DEF OnlyDelivers
  <2>3. ~IsBusy' BY <2>1 DEF IsBusy
  <2>4. confirmation' \in ConfirmationType /\ Justified(confirmation') BY <2>1, FailureKeeps
  <2>. QED BY <2>1, <2>2, <2>3, <2>4, NoRequestTyped, CallerKeeps
<1>7. CASE Elapse
  <2>1. /\ UNCHANGED <<cluster, view, request>>
        /\ confirmation' = [confirmation EXCEPT !.late = TRUE]
    BY <1>7 DEF Elapse
  <2>2. OnlyDelivers BY <1>1, <2>1 DEF OnlyDelivers
  <2>3. confirmation' \in ConfirmationType /\ Justified(confirmation')
    BY <1>2, <2>1 DEF ConfirmationType, Justified
  <2>4. IsBusy' => request'.untried # {} /\ ~IsOver' BY <1>1, <1>2, <2>1 DEF IsBusy, IsOver, ConfirmationType
  <2>. QED BY <1>1, <2>1, <2>2, <2>3, <2>4, CallerKeeps
<1>8. CASE CooldownEnds BY <1>3, <1>8 DEF CooldownEnds
<1>9. CASE UNCHANGED rpcVars BY <1>3, <1>9 DEF rpcVars
<1>10. CASE AttemptAnswers BY <1>10, AnswerKeeps
<1>11. ASSUME NEW url \in Urls, CatchUp(url) PROVE ConnectionInv' BY <1>11, CatchUpKeeps
<1>12. ASSUME NEW fault \in Faults, AttemptFails(fault) PROVE ConnectionInv'
  BY <1>12, FailedAttemptKeeps
<1>13. CASE HeadersArrive BY <1>13, HeadersKeep
<1>. QED BY <1>4, <1>5, <1>6, <1>7, <1>8, <1>9, <1>10, <1>11, <1>12, <1>13 DEF RpcNext

(* What the sender is told is true of the cluster, for any number of       *)
(* endpoints however far each lags behind, any failures and any order of   *)
(* attempts: the code asks for the status again after the height, and a    *)
(* snapshot of either fate is final.                                       *)
THEOREM ReportsAreTrueHolds == RpcSpec => []ReportsAreTrue
<1>1. ConnectionInv => ReportsAreTrue
  BY DEF ConnectionInv, ReportsAreTrue, Settled, Dead, Unknown
<1>. QED BY <1>1, ConnectionInit, ConnectionNext, PTL DEF RpcSpec

-----------------------------------------------------------------------------
(* The market keeper: one strike per expiry, and no cutoff moved back.  The*)
(* grid is strictly increasing, and a pass that overlaps no other sees     *)
(* every market it did not list itself.                                    *)

USE GridAssumption, KeeperAssumption

-----------------------------------------------------------------------------
(* The defining bounds of integer division.                                *)
LEMMA QuotientBounds ==
  ASSUME NEW x \in Nat, NEW y \in Nat \ {0}
  PROVE  /\ x \div y \in Nat
         /\ y * (x \div y) <= x
         /\ x < y * (x \div y) + y
BY SMT

(* Division by a constant is monotone.                                     *)
LEMMA QuotientMonotone ==
  ASSUME NEW x \in Nat, NEW z \in Nat, NEW y \in Nat \ {0}, x <= z
  PROVE  (x \div y) * y <= (z \div y) * y
<1> DEFINE q == x \div y
<1> DEFINE r == z \div y
<1>1. q \in Nat /\ y * q <= x BY QuotientBounds
<1>2. r \in Nat /\ z < y * r + y BY QuotientBounds
<1>. HIDE DEF q, r
<1>3. q <= r
  <2>1. SUFFICES ASSUME r + 1 <= q PROVE FALSE BY <1>1, <1>2
  <2>2. y * (r + 1) <= y * q BY <2>1, <1>1, <1>2, SMT
  <2>3. y * (r + 1) = y * r + y BY <1>2, SMT
  <2>4. y * r \in Nat /\ y * q \in Nat BY <1>1, <1>2, SMT
  <2>. QED BY <1>1, <1>2, <2>2, <2>3, <2>4
<1>4. q * y <= r * y BY <1>1, <1>2, <1>3, SMT
<1>. QED BY <1>4 DEF q, r

(* A boundary is an instant, and it never moves back as time passes        *)
(* (expiry-grid.ts ceilTo, nextFixedBoundary).                             *)
LEMMA BoundaryAdvances ==
  ASSUME NEW t \in Nat, NEW u \in Nat, NEW cadence \in Nat \ {0}, t <= u
  PROVE  /\ nextFixedBoundary(t, cadence) \in Nat
         /\ nextFixedBoundary(t, cadence) <= nextFixedBoundary(u, cadence)
<1> DEFINE x == t + cadence + (cadence - 1)
<1> DEFINE z == u + cadence + (cadence - 1)
<1>1. x \in Nat /\ z \in Nat /\ x <= z OBVIOUS
<1>2. nextFixedBoundary(t, cadence) = (x \div cadence) * cadence
  BY DEF nextFixedBoundary, ceilTo
<1>3. nextFixedBoundary(u, cadence) = (z \div cadence) * cadence
  BY DEF nextFixedBoundary, ceilTo
<1>. HIDE DEF x, z
<1>4. x \div cadence \in Nat BY <1>1, QuotientBounds
<1>5. (x \div cadence) * cadence \in Nat BY <1>4, SMT
<1>. QED BY <1>1, <1>2, <1>3, <1>5, QuotientMonotone

(* Advancing a boundary puts it after the floor (advanceUntilAfter).       *)
LEMMA AdvancesPastFloor ==
  ASSUME NEW candidate \in Nat, NEW floor \in Nat, NEW step \in Nat \ {0}
  PROVE  /\ advanceUntilAfter(candidate, floor, step) \in Nat
         /\ advanceUntilAfter(candidate, floor, step) > floor
<1>1. CASE candidate > floor BY <1>1 DEF advanceUntilAfter
<1>2. CASE ~(candidate > floor)
  <2> DEFINE gap == floor - candidate
  <2> DEFINE q == gap \div step
  <2>1. gap \in Nat BY <1>2
  <2>2. q \in Nat /\ gap < step * q + step BY <2>1, QuotientBounds
  <2>3. advanceUntilAfter(candidate, floor, step) = candidate + (q + 1) * step
    BY <1>2 DEF advanceUntilAfter
  <2>. HIDE DEF q
  <2>4. (q + 1) * step = step * q + step BY <2>2, SMT
  <2>5. step * q \in Nat BY <2>2, SMT
  <2>. QED BY <2>2, <2>3, <2>4, <2>5
<1>. QED BY <1>1, <1>2

(* Midnight is an instant too.                                             *)
LEMMA MidnightTyped ==
  ASSUME NEW t \in Nat
  PROVE  nextUtcMidnightAfter(t) \in Nat
<1>1. t \div DAY \in Nat BY QuotientBounds
<1>. QED BY <1>1, SMT DEF nextUtcMidnightAfter

(* The five expiries of the grid are in strict order, whatever the instant *)
(* and the cadences.                                                       *)
THEOREM GridIncreases ==
  ASSUME NEW t \in Nat
  PROVE  /\ fifteen(t) \in Nat /\ oneHour(t) \in Nat /\ eod(t) \in Nat
         /\ seven(t) \in Nat /\ thirty(t) \in Nat
         /\ fifteen(t) < oneHour(t) /\ oneHour(t) < eod(t)
         /\ eod(t) < seven(t) /\ seven(t) < thirty(t)
<1>1. fifteen(t) \in Nat BY BoundaryAdvances DEF fifteen
<1>2. nextFixedBoundary(t, ONE_HOUR) \in Nat BY BoundaryAdvances
<1>3. oneHour(t) \in Nat /\ fifteen(t) < oneHour(t)
  BY <1>1, <1>2, AdvancesPastFloor DEF oneHour
<1>4. eod(t) \in Nat /\ oneHour(t) < eod(t)
  BY <1>3, MidnightTyped, AdvancesPastFloor DEF eod
<1>5. nextUtcMidnightAfter(t + 7 * DAY) \in Nat
  <2>1. t + 7 * DAY \in Nat OBVIOUS
  <2>. QED BY <2>1, MidnightTyped
<1>6. seven(t) \in Nat /\ eod(t) < seven(t)
  BY <1>4, <1>5, AdvancesPastFloor DEF seven
<1>7. nextUtcMidnightAfter(t + 30 * DAY) \in Nat
  <2>1. t + 30 * DAY \in Nat OBVIOUS
  <2>. QED BY <2>1, MidnightTyped
<1>8. thirty(t) \in Nat /\ seven(t) < thirty(t)
  BY <1>6, <1>7, AdvancesPastFloor DEF thirty
<1>. QED BY <1>1, <1>3, <1>4, <1>6, <1>8

(* All five expiries lie on quarter hours, at every instant and not only at*)
(* those expiry-boundary.ts 3-11 reports to have sampled: the boundary lane*)
(* that wakes once in a quarter hour misses no rung of the grid.           *)
Multiple(x, c) == \E k \in Nat : x = k * c

LEMMA MultipleOfMultiple ==
  ASSUME NEW c \in Nat, NEW d \in Nat, NEW x, Multiple(d, c), Multiple(x, d)
  PROVE  Multiple(x, c)
<1>1. PICK k \in Nat : d = k * c BY DEF Multiple
<1>2. PICK l \in Nat : x = l * d BY DEF Multiple
<1>3. x = (l * k) * c /\ l * k \in Nat BY <1>1, <1>2, SMT
<1>. QED BY <1>3 DEF Multiple

LEMMA SumOfMultiples ==
  ASSUME NEW c \in Nat, NEW x, NEW y, Multiple(x, c), Multiple(y, c)
  PROVE  Multiple(x + y, c)
<1>1. PICK k \in Nat : x = k * c BY DEF Multiple
<1>2. PICK l \in Nat : y = l * c BY DEF Multiple
<1>3. x + y = (k + l) * c /\ k + l \in Nat BY <1>1, <1>2, SMT
<1>. QED BY <1>3 DEF Multiple

LEMMA AdvancesOnItsCadence ==
  ASSUME NEW candidate \in Nat, NEW floor \in Nat, NEW step \in Nat \ {0}, Multiple(candidate, step)
  PROVE  Multiple(advanceUntilAfter(candidate, floor, step), step)
<1>1. CASE candidate > floor BY <1>1 DEF advanceUntilAfter
<1>2. CASE ~(candidate > floor)
  <2>1. floor - candidate \in Nat BY <1>2
  <2>2. (floor - candidate) \div step + 1 \in Nat BY <2>1, QuotientBounds
  <2>3. Multiple(((floor - candidate) \div step + 1) * step, step) BY <2>2 DEF Multiple
  <2>. QED BY <1>2, <2>3, SumOfMultiples DEF advanceUntilAfter
<1>. QED BY <1>1, <1>2

THEOREM GridOnBoundaries ==
  ASSUME NEW t \in Nat, Multiple(ONE_HOUR, FIFTEEN_MINUTES), Multiple(DAY, FIFTEEN_MINUTES)
  PROVE  \A x \in {fifteen(t), oneHour(t), eod(t), seven(t), thirty(t)} :
           Multiple(x, FIFTEEN_MINUTES)
<1>1. \A cadence \in Nat \ {0} : Multiple(nextFixedBoundary(t, cadence), cadence)
  <2>. SUFFICES ASSUME NEW cadence \in Nat \ {0}
                PROVE  Multiple(nextFixedBoundary(t, cadence), cadence)
    OBVIOUS
  <2>1. t + cadence + (cadence - 1) \in Nat OBVIOUS
  <2>2. (t + cadence + (cadence - 1)) \div cadence \in Nat BY <2>1, QuotientBounds
  <2>. QED BY <2>2 DEF nextFixedBoundary, ceilTo, Multiple
<1>2. \A u \in Nat : Multiple(nextUtcMidnightAfter(u), DAY)
  <2>. SUFFICES ASSUME NEW u \in Nat PROVE Multiple(nextUtcMidnightAfter(u), DAY) OBVIOUS
  <2>1. u \div DAY + 1 \in Nat BY QuotientBounds
  <2>. QED BY <2>1 DEF nextUtcMidnightAfter, Multiple
<1>3. /\ fifteen(t) \in Nat /\ oneHour(t) \in Nat /\ eod(t) \in Nat /\ seven(t) \in Nat
      /\ t + 7 * DAY \in Nat /\ t + 30 * DAY \in Nat
  BY GridIncreases
<1>4. /\ nextFixedBoundary(t, ONE_HOUR) \in Nat /\ nextUtcMidnightAfter(t) \in Nat
      /\ nextUtcMidnightAfter(t + 7 * DAY) \in Nat /\ nextUtcMidnightAfter(t + 30 * DAY) \in Nat
  <2>1. nextFixedBoundary(t, ONE_HOUR) \in Nat BY BoundaryAdvances
  <2>. QED BY <2>1, <1>3, MidnightTyped
<1>5. Multiple(fifteen(t), FIFTEEN_MINUTES) BY <1>1 DEF fifteen
<1>6. Multiple(oneHour(t), ONE_HOUR)
  BY <1>1, <1>3, <1>4, AdvancesOnItsCadence DEF oneHour
<1>7. Multiple(eod(t), DAY) BY <1>2, <1>3, <1>4, AdvancesOnItsCadence DEF eod
<1>8. Multiple(seven(t), DAY) BY <1>2, <1>3, <1>4, AdvancesOnItsCadence DEF seven
<1>9. Multiple(thirty(t), DAY) BY <1>2, <1>3, <1>4, AdvancesOnItsCadence DEF thirty
<1>. QED BY <1>5, <1>6, <1>7, <1>8, <1>9, MultipleOfMultiple

-----------------------------------------------------------------------------
(* What a pass may rely on in its schedule: rungs in strict order, of which*)
(* only the first has the short cutoff.                                    *)
RungSet == [code : SeriesCodes, expiry : Nat, lastTradeAt : Int]

Ladder(s) ==
  /\ \A i, j \in 1 .. Len(s) : i < j => s[i].expiry < s[j].expiry
  /\ \A i \in 1 .. Len(s) :
       s[i].lastTradeAt = s[i].expiry - (IF i = 1 THEN CUTOFF_15M ELSE CUTOFF)

GridRungs(t) == SubSeq(rollingMarketSchedule(t), 1, RUNGS)

(* Every schedule a pass starts with is such a ladder.                     *)
LEMMA ScheduleIsLadder ==
  ASSUME NEW t \in Nat
  PROVE  /\ GridRungs(t) \in Seq(RungSet)
         /\ Len(GridRungs(t)) = RUNGS
         /\ \A i \in 1 .. RUNGS : GridRungs(t)[i] = rollingMarketSchedule(t)[i]
         /\ Ladder(GridRungs(t))
         /\ GridRungs(t)[1].expiry = fifteen(t)
<1> DEFINE g == rollingMarketSchedule(t)
<1>1. /\ g \in Seq(RungSet) /\ Len(g) = 5
      /\ g[1] = series("15M", fifteen(t), CUTOFF_15M) /\ g[2] = series("1H", oneHour(t), CUTOFF)
      /\ g[3] = series("EOD", eod(t), CUTOFF) /\ g[4] = series("7D", seven(t), CUTOFF)
      /\ g[5] = series("30D", thirty(t), CUTOFF)
  <2>1. /\ series("15M", fifteen(t), CUTOFF_15M) \in RungSet
        /\ series("1H", oneHour(t), CUTOFF) \in RungSet /\ series("EOD", eod(t), CUTOFF) \in RungSet
        /\ series("7D", seven(t), CUTOFF) \in RungSet /\ series("30D", thirty(t), CUTOFF) \in RungSet
    BY GridIncreases DEF series, RungSet, SeriesCodes
  <2>. QED BY <2>1 DEF rollingMarketSchedule
<1>2. Ladder(g) /\ g[1].expiry = fifteen(t)
  <2>1. /\ g[1].expiry = fifteen(t) /\ g[2].expiry = oneHour(t) /\ g[3].expiry = eod(t)
        /\ g[4].expiry = seven(t) /\ g[5].expiry = thirty(t)
    BY <1>1 DEF series
  <2>2. /\ g[1].lastTradeAt = fifteen(t) - CUTOFF_15M /\ g[2].lastTradeAt = oneHour(t) - CUTOFF
        /\ g[3].lastTradeAt = eod(t) - CUTOFF /\ g[4].lastTradeAt = seven(t) - CUTOFF
        /\ g[5].lastTradeAt = thirty(t) - CUTOFF
    BY <1>1 DEF series
  <2>3. \A i, j \in 1 .. 5 : i < j => g[i].expiry < g[j].expiry
    BY <2>1, GridIncreases
  <2>4. \A i \in 1 .. 5 : g[i].lastTradeAt = g[i].expiry - (IF i = 1 THEN CUTOFF_15M ELSE CUTOFF)
    BY <2>1, <2>2
  <2>. QED BY <1>1, <2>1, <2>3, <2>4 DEF Ladder
<1>. HIDE DEF g
<1>3. /\ SubSeq(g, 1, RUNGS) \in Seq(RungSet)
      /\ Len(SubSeq(g, 1, RUNGS)) = RUNGS
      /\ \A i \in 1 .. RUNGS : SubSeq(g, 1, RUNGS)[i] = g[i]
  <2>1. 1 \in Int /\ RUNGS \in Int /\ 1 <= RUNGS OBVIOUS
  <2>a. \A i \in 1 .. RUNGS : g[i] \in RungSet
    <3>1. g \in Seq(RungSet) /\ Len(g) = 5 BY <1>1
    <3>2. \A i \in 1 .. Len(g) : g[i] \in RungSet BY <3>1, ElementOfSeq
    <3>. QED BY <3>1, <3>2
  <2>2. /\ SubSeq(g, 1, RUNGS) \in Seq(RungSet)
        /\ Len(SubSeq(g, 1, RUNGS)) = (IF 1 <= RUNGS THEN RUNGS - 1 + 1 ELSE 0)
        /\ \A i \in 1 .. RUNGS - 1 + 1 : SubSeq(g, 1, RUNGS)[i] = g[1 + i - 1]
    BY <2>1, <2>a, SubSeqProperties
  <2>3. RUNGS - 1 + 1 = RUNGS /\ \A i \in 1 .. RUNGS : 1 + i - 1 = i BY <2>1
  <2>. QED BY <2>1, <2>2, <2>3
<1>4. Ladder(SubSeq(g, 1, RUNGS))
  <2>. DEFINE s == SubSeq(g, 1, RUNGS)
  <2>1. Len(s) = RUNGS /\ Len(g) = 5 /\ \A i \in 1 .. RUNGS : s[i] = g[i] /\ i \in 1 .. 5
    BY <1>1, <1>3
  <2>. HIDE DEF s
  <2>2. /\ \A i, j \in 1 .. 5 : i < j => g[i].expiry < g[j].expiry
        /\ \A i \in 1 .. 5 : g[i].lastTradeAt = g[i].expiry - (IF i = 1 THEN CUTOFF_15M ELSE CUTOFF)
    BY <1>2, <2>1 DEF Ladder
  <2>3. \A i, j \in 1 .. RUNGS : i < j => s[i].expiry < s[j].expiry BY <2>1, <2>2
  <2>4. \A i \in 1 .. RUNGS :
          s[i].lastTradeAt = s[i].expiry - (IF i = 1 THEN CUTOFF_15M ELSE CUTOFF)
    BY <2>1, <2>2
  <2>5. Ladder(s) BY <2>1, <2>3, <2>4 DEF Ladder
  <2>. QED BY <2>5 DEF s
<1>. QED BY <1>2, <1>3, <1>4 DEF GridRungs, g

-----------------------------------------------------------------------------
(* The invariant, most of it said of the record r of one pass.             *)
Steps == {"idle", "scan", "pool", "clock", "rung", "create", "bind", "read", "authorize"}
ListingTerms == [expiry : Nat, strike : SpotStrikes \cup {0}]
Passes ==
  [at : Steps, schedule : Seq(RungSet), found : SUBSET ListingTerms, poolBusy : BOOLEAN,
   read : Nat, rung : Nat, market : ListingTerms, overlapped : BOOLEAN]

RungOf(r) == r.schedule[r.rung]
Holding(r) == r.at \in {"bind", "read", "authorize"}

KeeperTyped ==
  /\ clock \in Nat
  /\ listed \in SUBSET ListingTerms
  /\ Bound \in SUBSET ListingTerms
  /\ cutoffOf \in [Bound -> Int]
  /\ keeper \in [Keepers -> Passes]

(* A pass that overlaps no other runs alone.                               *)
RunsAlone ==
  \A k, j \in Keepers : Running(k) /\ ~keeper[k].overlapped /\ Running(j) => k = j

(* A pass is on a rung of a ladder, with a market of that rung in hand,    *)
(* which it creates only if its scan found none.                           *)
OnRung(r) ==
  r.at # "idle" =>
    /\ Ladder(r.schedule)
    /\ r.rung \in 1 .. Len(r.schedule)
    /\ r.at = "create" \/ Holding(r) => r.market.expiry = RungOf(r).expiry
    /\ r.at = "create" => \A m \in r.found : m.expiry # RungOf(r).expiry

(* Since its scan a pass has missed no market of an uncontested expiry but *)
(* those it listed itself, for the rungs it has done.                      *)
Knows(r) ==
  r.at \notin {"idle", "scan"} /\ ~r.overlapped =>
    \A m \in listed :
      \/ m.expiry \in contested
      \/ m \in r.found
      \/ \E i \in 1 .. r.rung : r.schedule[i].expiry = m.expiry /\ (i = r.rung => Holding(r))

OnTheirRungs == \A k \in Keepers : OnRung(keeper[k])
KnowTheMarkets == \A k \in Keepers : Knows(keeper[k])

(* A disabled market leaves its expiry open to another.                    *)
DisabledAreContested == \A m \in disabled : m.expiry \in contested

ListingInv ==
  /\ KeeperTyped /\ RunsAlone /\ OnTheirRungs /\ KnowTheMarkets /\ DisabledAreContested
  /\ OneStrikePerExpiry

(* The short cutoff is written for a market only when its expiry is the    *)
(* next one of the grid, and from then on it is no later rung's.           *)
Short(m) == cutoffOf[m] > m.expiry - CUTOFF
CutoffsOfTheGrid ==
  \A m \in Bound :
    /\ cutoffOf[m] <= m.expiry - CUTOFF_15M
    /\ Short(m) => m.expiry <= fifteen(clock)
OfThePast(r) == r.at # "idle" => r.schedule[1].expiry <= fifteen(clock)
ShortIsFirst(r) ==
  r.at # "idle" /\ ~r.overlapped => \A m \in Bound : Short(m) => m.expiry <= r.schedule[1].expiry

CutoffInv ==
  /\ CutoffsOfTheGrid
  /\ \A k \in Keepers : OfThePast(keeper[k]) /\ ShortIsFirst(keeper[k])

IInv == ListingInv /\ CutoffInv

-----------------------------------------------------------------------------
(* A rung of a schedule is what the grid makes it.                         *)
LEMMA RungTyped ==
  ASSUME NEW r \in Passes, NEW i \in 1 .. Len(r.schedule)
  PROVE  r.schedule[i].expiry \in Nat /\ r.schedule[1].expiry \in Nat
<1>1. r.schedule \in Seq(RungSet) BY DEF Passes
<1>2. r.schedule[i] \in RungSet /\ r.schedule[1] \in RungSet BY <1>1
<1>. QED BY <1>2 DEF RungSet

(* A pass that is not running has nothing to keep.                         *)
LEMMA IdleKeeps ==
  /\ IdlePass \in Passes
  /\ OnRung(IdlePass) /\ Knows(IdlePass) /\ OfThePast(IdlePass) /\ ShortIsFirst(IdlePass)
BY DEF IdlePass, NoMarket, Passes, ListingTerms, Steps, OnRung, Knows, OfThePast, ShortIsFirst

(* At the start nothing is listed and no pass runs.                        *)
LEMMA InitIInv == KeeperInit => IInv
<1>. SUFFICES ASSUME KeeperInit PROVE IInv OBVIOUS
<1>1. \A k \in Keepers : keeper[k] = IdlePass BY DEF KeeperInit
<1>2. KeeperTyped
  <2>1. Bound = {} /\ cutoffOf \in [Bound -> Int] BY DEF KeeperInit, Bound
  <2>2. keeper \in [Keepers -> Passes] BY IdleKeeps DEF KeeperInit
  <2>. QED BY <2>1, <2>2 DEF KeeperInit, KeeperTyped
<1>3. RunsAlone BY <1>1 DEF RunsAlone, Running, IdlePass
<1>4. OnTheirRungs /\ KnowTheMarkets BY <1>1, IdleKeeps DEF OnTheirRungs, KnowTheMarkets
<1>5. DisabledAreContested /\ OneStrikePerExpiry
  BY DEF KeeperInit, DisabledAreContested, OneStrikePerExpiry
<1>6. CutoffInv
  <2>1. Bound = {} BY DEF KeeperInit, Bound
  <2>. QED BY <1>1, <2>1, IdleKeeps DEF CutoffInv, CutoffsOfTheGrid
<1>. QED BY <1>2, <1>3, <1>4, <1>5, <1>6 DEF IInv, ListingInv

(* A step of somebody who is not a keeper, or of the clock: what is listed *)
(* or disabled by others is contested.                                     *)
LEMMA QuietStep ==
  ASSUME IInv, UNCHANGED <<keeper, cutoffOf>>,
         clock' \in Nat, clock <= clock',
         listed' \in SUBSET ListingTerms, contested \in SUBSET contested',
         \A m \in listed' : m \in listed \/ m.expiry \in contested',
         \A m \in disabled' : m \in disabled \/ m.expiry \in contested'
  PROVE  IInv'
<1>. USE DEF IInv, ListingInv
<1>1. KeeperTyped' BY DEF KeeperTyped, Bound
<1>2. RunsAlone' BY DEF RunsAlone, Running
<1>3. OnTheirRungs' BY DEF OnTheirRungs, OnRung, RungOf, Holding
<1>4. KnowTheMarkets' BY DEF KnowTheMarkets, Knows, Holding
<1>5. DisabledAreContested' BY DEF DisabledAreContested
<1>6. OneStrikePerExpiry' BY DEF OneStrikePerExpiry
<1>7. fifteen(clock) <= fifteen(clock') BY BoundaryAdvances DEF KeeperTyped, fifteen
<1>8. fifteen(clock) \in Nat /\ fifteen(clock') \in Nat BY BoundaryAdvances DEF KeeperTyped, fifteen
<1>9. CutoffsOfTheGrid'
  BY <1>7, <1>8 DEF CutoffInv, CutoffsOfTheGrid, Short, Bound, KeeperTyped, ListingTerms
<1>10. \A k \in Keepers : OfThePast(keeper[k])'
  <2>. TAKE k \in Keepers
  <2>1. keeper[k].at # "idle" => keeper[k].schedule[1].expiry \in Nat
    BY RungTyped DEF KeeperTyped, OnTheirRungs, OnRung
  <2>. QED BY <1>7, <1>8, <2>1 DEF CutoffInv, OfThePast
<1>11. \A k \in Keepers : ShortIsFirst(keeper[k])' BY DEF CutoffInv, ShortIsFirst, Short, Bound
<1>. QED BY <1>1, <1>2, <1>3, <1>4, <1>5, <1>6, <1>9, <1>10, <1>11 DEF CutoffInv

(* What a step leaves in a pass's record, relative to the record before:   *)
(* the pass goes on with the schedule it has, or it ends.                  *)
GoesOn(old, new) ==
  new.at # "idle" =>
    /\ old.at # "idle"
    /\ new.schedule = old.schedule
    /\ new.overlapped = old.overlapped

(* The cutoffs' half of the invariant, when a step changes one pass.       *)
LEMMA CutoffsKept ==
  ASSUME IInv, NEW k \in Keepers, NEW new, keeper' = [keeper EXCEPT ![k] = new],
         GoesOn(keeper[k], new), UNCHANGED <<clock, cutoffOf>>
  PROVE  CutoffInv'
<1>1. \A j \in Keepers : keeper'[j] = IF j = k THEN new ELSE keeper[j]
  BY DEF IInv, ListingInv, KeeperTyped
<1>2. CutoffsOfTheGrid'
  BY DEF IInv, CutoffInv, CutoffsOfTheGrid, Short, Bound
<1>3. OfThePast(new)' /\ ShortIsFirst(new)'
  BY DEF IInv, CutoffInv, OfThePast, ShortIsFirst, GoesOn, Short, Bound
<1>4. \A j \in Keepers : OfThePast(keeper[j])' /\ ShortIsFirst(keeper[j])'
  BY <1>1, <1>3 DEF IInv, CutoffInv, OfThePast, ShortIsFirst, Short, Bound
<1>. QED BY <1>2, <1>4 DEF CutoffInv

(* The markets' half, when a step changes one pass and the cutoffs at most.*)
LEMMA ListingsKept ==
  ASSUME IInv, NEW k \in Keepers, NEW new \in Passes, keeper' = [keeper EXCEPT ![k] = new],
         GoesOn(keeper[k], new), OnRung(new), Knows(new),
         UNCHANGED <<clock, listed, disabled, contested>>,
         Bound' \in SUBSET ListingTerms, cutoffOf' \in [Bound' -> Int]
  PROVE  ListingInv'
<1>. USE DEF IInv, ListingInv
<1>1. \A j \in Keepers : keeper'[j] = IF j = k THEN new ELSE keeper[j] BY DEF KeeperTyped
<1>2. KeeperTyped' BY DEF KeeperTyped
<1>3. RunsAlone' BY <1>1 DEF RunsAlone, Running, GoesOn
<1>4. OnTheirRungs' BY <1>1 DEF OnTheirRungs, OnRung, RungOf, Holding
<1>5. KnowTheMarkets' BY <1>1 DEF KnowTheMarkets, Knows, Holding
<1>6. DisabledAreContested' /\ OneStrikePerExpiry' BY DEF DisabledAreContested, OneStrikePerExpiry
<1>. QED BY <1>2, <1>3, <1>4, <1>5, <1>6

(* A step that only changes one pass.                                      *)
LEMMA LocalStep ==
  ASSUME IInv, NEW k \in Keepers, NEW new \in Passes, keeper' = [keeper EXCEPT ![k] = new],
         GoesOn(keeper[k], new), OnRung(new), Knows(new),
         UNCHANGED <<clock, listed, disabled, cutoffOf, contested>>
  PROVE  IInv'
<1>1. Bound' \in SUBSET ListingTerms /\ cutoffOf' \in [Bound' -> Int]
  BY DEF IInv, ListingInv, KeeperTyped, Bound
<1>2. ListingInv' BY <1>1, ListingsKept
<1>3. CutoffInv' BY CutoffsKept
<1>. QED BY <1>2, <1>3 DEF IInv

(* Going to the next rung, the pass counts the rung it leaves as done.     *)
LEMMA FollowingKeeps ==
  ASSUME NEW r \in Passes, r.at \notin {"idle", "scan"}, OnRung(r), Knows(r)
  PROVE  /\ Following(r) \in Passes /\ GoesOn(r, Following(r))
         /\ OnRung(Following(r)) /\ Knows(Following(r))
<1>1. CASE ~(r.rung < Len(r.schedule))
  <2>1. Following(r) = IdlePass BY <1>1 DEF Following
  <2>2. IdlePass.at = "idle" BY DEF IdlePass
  <2>. QED BY <2>1, <2>2, IdleKeeps DEF GoesOn
<1>2. CASE r.rung < Len(r.schedule)
  <2> DEFINE n == [r EXCEPT !.rung = @ + 1, !.at = "rung", !.market = NoMarket]
  <2>1. Following(r) = n BY <1>2 DEF Following
  <2>2. n \in Passes
    <3>1. NoMarket \in ListingTerms BY DEF NoMarket, ListingTerms
    <3>2. r.rung + 1 \in Nat BY DEF Passes
    <3> DEFINE a == [r EXCEPT !.rung = r.rung + 1, !.at = "rung"]
    <3>3. a \in Passes BY <3>2 DEF Passes, Steps
    <3>4. n = [a EXCEPT !.market = NoMarket] BY DEF Passes
    <3>. HIDE DEF a, n
    <3>. QED BY <3>1, <3>3, <3>4 DEF Passes
  <2>3. /\ n.rung = r.rung + 1 /\ n.at = "rung" /\ n.schedule = r.schedule
        /\ n.found = r.found /\ n.overlapped = r.overlapped
    BY DEF Passes
  <2>4. r.rung \in Nat /\ Len(r.schedule) \in Nat BY DEF Passes
  <2>. HIDE DEF n
  <2>5. GoesOn(r, n) BY <2>3 DEF GoesOn
  <2>6. OnRung(n) BY <2>3, <2>4, <1>2 DEF OnRung, Holding
  <2>7. Knows(n) BY <2>3, <2>4 DEF Knows, Holding
  <2>. QED BY <2>1, <2>2, <2>5, <2>6, <2>7
<1>. QED BY <1>1, <1>2

(* A pass lists the market in its hand: nobody else knew of one of that    *)
(* expiry, or the expiry is contested now.                                 *)
LEMMA ListingCreated ==
  ASSUME IInv, NEW k \in Keepers, NEW old \in Passes, NEW new \in Passes, NEW m \in ListingTerms,
         old = keeper[k], old.at = "create", OnRung(old), Knows(old),
         keeper' = [keeper EXCEPT ![k] = new],
         /\ new.at = "bind" /\ new.schedule = old.schedule /\ new.rung = old.rung
         /\ new.overlapped = old.overlapped /\ new.found = old.found /\ new.market = m,
         OnRung(new), m.expiry = RungOf(old).expiry, \A x \in old.found : x.expiry # m.expiry,
         listed' = listed \cup {m},
         contested' = contested \cup (IF old.overlapped THEN {m.expiry} ELSE {}),
         UNCHANGED <<clock, disabled, cutoffOf>>
  PROVE  ListingInv'
<1>. USE DEF IInv, ListingInv
<1>0. Ladder(old.schedule) /\ old.rung \in 1 .. Len(old.schedule) /\ ~Holding(old) /\ Holding(new)
  BY DEF OnRung, Holding
<1>1. \A j \in Keepers : keeper'[j] = IF j = k THEN new ELSE keeper[j] BY DEF KeeperTyped
<1>2. KeeperTyped' BY DEF KeeperTyped, Bound
<1>3. RunsAlone' BY <1>1 DEF RunsAlone, Running
<1>4. OnTheirRungs'
  <2>1. \A j \in Keepers : OnRung(keeper'[j]) BY <1>1 DEF OnTheirRungs
  <2>. QED BY <2>1 DEF OnTheirRungs, OnRung, RungOf, Holding
<1>5. DisabledAreContested' BY DEF DisabledAreContested
<1>6. ~old.overlapped =>
        \A x \in listed : \/ x.expiry \in contested
                          \/ x \in old.found
                          \/ \E i \in 1 .. old.rung : i # old.rung /\ old.schedule[i].expiry = x.expiry
  BY <1>0 DEF Knows
<1>7. Knows(new)'
  <2>. SUFFICES ASSUME ~new.overlapped, NEW x \in listed' PROVE
         \/ x.expiry \in contested' \/ x \in new.found
         \/ \E i \in 1 .. new.rung : new.schedule[i].expiry = x.expiry /\ (i = new.rung => Holding(new))
    BY DEF Knows, Holding
  <2>1. CASE x = m BY <2>1, <1>0 DEF RungOf
  <2>2. CASE x \in listed BY <2>2, <1>6
  <2>. QED BY <2>1, <2>2
<1>8. \A j \in Keepers \ {k} : keeper[j].at # "idle" => keeper[j].overlapped
  BY DEF RunsAlone, Running
<1>9. KnowTheMarkets'
  <2>1. \A j \in Keepers \ {k} : Knows(keeper[j])' BY <1>1, <1>8 DEF Knows
  <2>2. Knows(keeper[k])' BY <1>1, <1>7 DEF Knows, Holding
  <2>. QED BY <2>1, <2>2 DEF KnowTheMarkets
<1>10. \A x \in listed : x.expiry = m.expiry => m.expiry \in contested'
  <2>. SUFFICES ASSUME NEW x \in listed, x.expiry = m.expiry, ~old.overlapped,
                       m.expiry \notin contested
                PROVE  FALSE
    OBVIOUS
  <2>1. PICK i \in 1 .. old.rung : i # old.rung /\ old.schedule[i].expiry = x.expiry BY <1>6
  <2>2. i \in 1 .. Len(old.schedule) /\ i < old.rung BY <2>1, <1>0 DEF Passes
  <2>3. old.schedule[i].expiry < old.schedule[old.rung].expiry BY <2>2, <1>0 DEF Ladder
  <2>4. old.schedule[i].expiry \in Nat BY <2>2, RungTyped
  <2>. QED BY <2>1, <2>3, <2>4 DEF RungOf
<1>11. OneStrikePerExpiry' BY <1>10 DEF OneStrikePerExpiry
<1>. QED BY <1>2, <1>3, <1>4, <1>5, <1>9, <1>11

(* Every step of a pass, of another sender or of the clock keeps the       *)
(* invariant.                                                              *)
LEMMA StepIInv == IInv /\ [KeeperNext]_keeperVars => IInv'
<1>. SUFFICES ASSUME IInv, [KeeperNext]_keeperVars PROVE IInv' OBVIOUS
<1>. USE DEF IInv, ListingInv
<1>a. \A k \in Keepers : keeper[k] \in Passes /\ OnRung(keeper[k]) /\ Knows(keeper[k])
  BY DEF KeeperTyped, OnTheirRungs, KnowTheMarkets
<1>b. clock \in Nat /\ listed \in SUBSET ListingTerms BY DEF KeeperTyped
<1>1. CASE UNCHANGED keeperVars
  BY <1>1, <1>b, QuietStep DEF keeperVars, keeperChain
<1>2. CASE PassClock
  <2>1. clock' \in Nat /\ clock <= clock' BY <1>2, <1>b DEF PassClock
  <2>. QED BY <1>2, <1>b, <2>1, QuietStep DEF PassClock
<1>3. ASSUME NEW m \in listed, Trade(m) PROVE IInv' BY <1>3, <1>b, QuietStep DEF Trade
<1>4. ASSUME NEW m \in listed, LastPositionLeaves(m) PROVE IInv'
  BY <1>4, <1>b, QuietStep DEF LastPositionLeaves
<1>5. ASSUME NEW m \in listed, DisableMarket(m) PROVE IInv'
  <2>1. /\ UNCHANGED <<keeper, cutoffOf, clock, listed>>
        /\ disabled' = disabled \cup {m} /\ contested' = contested \cup {m.expiry}
    BY <1>5 DEF DisableMarket
  <2>. QED BY <2>1, <1>b, QuietStep
<1>6. ASSUME NEW m \in GridMarkets, OtherLists(m) PROVE IInv'
  <2>1. /\ UNCHANGED <<keeper, cutoffOf, clock, disabled>>
        /\ listed' = listed \cup {m} /\ contested' = contested \cup {m.expiry}
    BY <1>6 DEF OtherLists
  <2>2. m \in ListingTerms
    <3>1. \A i \in 1 .. RUNGS : rollingMarketSchedule(clock)[i].expiry \in Nat
      <4>1. \A i \in 1 .. RUNGS : GridRungs(clock)[i] \in RungSet BY <1>b, ScheduleIsLadder
      <4>. QED BY <4>1, <1>b, ScheduleIsLadder DEF RungSet
    <3>. QED BY <3>1 DEF GridMarkets, ListingTerms
  <2>. QED BY <2>1, <2>2, <1>b, QuietStep
<1>7. ASSUME NEW k \in Keepers, StartPass(k) PROVE IInv'
  <2> DEFINE rivals == {j \in Keepers \ {k} : Running(j)}
  <2> DEFINE n == [IdlePass EXCEPT !.at = "scan", !.overlapped = rivals # {},
                                  !.schedule = GridRungs(clock)]
  <2> DEFINE joined(j) == [keeper[j] EXCEPT !.overlapped = @ \/ j \in rivals]
  <2>1. /\ keeper' = [j \in Keepers |-> IF j = k THEN n ELSE joined(j)]
        /\ UNCHANGED <<clock, listed, disabled, cutoffOf, contested>>
        /\ ~Running(k)
    BY <1>7 DEF StartPass, keeperChain, GridRungs
  <2>2. n \in Passes
    BY <1>b, IdleKeeps, ScheduleIsLadder DEF Passes, Steps, IdlePass, NoMarket, ListingTerms
  <2>3. /\ n.at = "scan" /\ n.schedule = GridRungs(clock) /\ n.rung = 1
        /\ n.overlapped = (rivals # {})
    BY DEF IdlePass
  <2>4. \A j \in Keepers \ {k} :
          /\ joined(j) \in Passes
          /\ joined(j).at = keeper[j].at /\ joined(j).schedule = keeper[j].schedule
          /\ joined(j).rung = keeper[j].rung /\ joined(j).found = keeper[j].found
          /\ joined(j).market = keeper[j].market
          /\ joined(j).overlapped = (keeper[j].overlapped \/ j \in rivals)
    BY <1>a DEF Passes
  <2>5. \A j \in Keepers \ {k} : j \in rivals <=> keeper[j].at # "idle" BY DEF Running
  <2>6. rivals = {} <=> \A j \in Keepers \ {k} : keeper[j].at = "idle" BY <2>5
  <2>. HIDE DEF n, joined, rivals
  <2>7. \A j \in Keepers : keeper'[j] = IF j = k THEN n ELSE joined(j) BY <2>1
  <2>8. KeeperTyped' BY <2>1, <2>2, <2>4 DEF KeeperTyped, Bound
  <2>9. RunsAlone'
    <3>1. \A i, j \in Keepers : keeper'[i].at # "idle" /\ ~keeper'[i].overlapped /\ keeper'[j].at # "idle"
            => i = j
      <4>. SUFFICES ASSUME NEW i \in Keepers, NEW j \in Keepers, keeper'[i].at # "idle",
                           ~keeper'[i].overlapped, keeper'[j].at # "idle", i # j
                    PROVE  FALSE
        OBVIOUS
      <4>1. CASE i = k BY <4>1, <2>3, <2>4, <2>6, <2>7
      <4>2. CASE i # k BY <4>2, <2>4, <2>5, <2>7
      <4>. QED BY <4>1, <4>2
    <3>. QED BY <3>1 DEF RunsAlone, Running
  <2>10. OnRung(n) /\ Knows(n)
    <3>1. Ladder(n.schedule) /\ n.rung \in 1 .. Len(n.schedule) BY <2>3, <1>b, ScheduleIsLadder
    <3>. QED BY <3>1, <2>3 DEF OnRung, Knows, Holding
  <2>11. \A j \in Keepers \ {k} : OnRung(joined(j)) /\ Knows(joined(j))
    <3>. TAKE j \in Keepers \ {k}
    <3>1. OnRung(keeper[j]) /\ Knows(keeper[j]) BY <1>a
    <3>2. OnRung(joined(j)) BY <3>1, <2>4 DEF OnRung, RungOf, Holding
    <3>3. joined(j).at # "idle" => joined(j).overlapped BY <2>4, <2>5
    <3>4. Knows(joined(j)) BY <3>3 DEF Knows
    <3>. QED BY <3>2, <3>4
  <2>12. OnTheirRungs' BY <2>7, <2>10, <2>11 DEF OnTheirRungs, OnRung, RungOf, Holding
  <2>13. KnowTheMarkets' BY <2>1, <2>7, <2>10, <2>11 DEF KnowTheMarkets, Knows, Holding
  <2>14. DisabledAreContested' /\ OneStrikePerExpiry'
    BY <2>1 DEF DisabledAreContested, OneStrikePerExpiry
  <2>15. CutoffsOfTheGrid' BY <2>1 DEF CutoffInv, CutoffsOfTheGrid, Short, Bound
  <2>16. n.schedule[1].expiry = fifteen(clock) /\ fifteen(clock) \in Nat
    BY <2>3, <1>b, ScheduleIsLadder, GridIncreases
  <2>17. OfThePast(n) /\ ShortIsFirst(n)
    BY <2>16 DEF OfThePast, ShortIsFirst, CutoffInv, CutoffsOfTheGrid
  <2>18. \A j \in Keepers \ {k} : OfThePast(joined(j)) /\ ShortIsFirst(joined(j))
    BY <2>4 DEF CutoffInv, OfThePast, ShortIsFirst
  <2>19. \A j \in Keepers : OfThePast(keeper[j])' /\ ShortIsFirst(keeper[j])'
    BY <2>1, <2>7, <2>17, <2>18 DEF OfThePast, ShortIsFirst, Short, Bound
  <2>. QED BY <2>8, <2>9, <2>12, <2>13, <2>14, <2>15, <2>19 DEF CutoffInv
<1>8. ASSUME NEW k \in Keepers, ScanMarkets(k) PROVE IInv'
  <2> DEFINE n == [keeper[k] EXCEPT !.found = listed \ disabled, !.at = "pool"]
  <2>1. keeper[k] \in Passes /\ OnRung(keeper[k]) /\ Knows(keeper[k]) BY <1>a
  <2>2. n \in Passes BY <2>1, <1>8 DEF ScanMarkets, Passes, Steps, KeeperTyped
  <2>3. keeper' = [keeper EXCEPT ![k] = n] BY <1>8, <2>1 DEF ScanMarkets, KeeperTyped, Passes
  <2>4. /\ n.at = "pool" /\ n.schedule = keeper[k].schedule /\ n.rung = keeper[k].rung
        /\ n.overlapped = keeper[k].overlapped /\ n.found = listed \ disabled /\ n.market = keeper[k].market
    BY <2>1 DEF Passes
  <2>5. keeper[k].at = "scan" BY <1>8 DEF ScanMarkets
  <2>6. UNCHANGED <<clock, listed, disabled, cutoffOf, contested>> BY <1>8 DEF ScanMarkets, keeperChain
  <2>. HIDE DEF n
  <2>7. GoesOn(keeper[k], n) BY <2>4, <2>5 DEF GoesOn
  <2>8. OnRung(n) BY <2>1, <2>4, <2>5 DEF OnRung, Holding, RungOf
  <2>9. Knows(n) BY <2>1, <2>4, <2>5 DEF Knows, Holding, DisabledAreContested
  <2>. QED BY <2>2, <2>3, <2>6, <2>7, <2>8, <2>9, LocalStep
<1>9. ASSUME NEW k \in Keepers, resolvePoolAuthorizationContext(k) PROVE IInv'
  <2> DEFINE n == [keeper[k] EXCEPT !.poolBusy = traded # {}, !.at = "clock"]
  <2>1. keeper[k] \in Passes /\ OnRung(keeper[k]) /\ Knows(keeper[k]) BY <1>a
  <2>2. n \in Passes BY <2>1, <1>9 DEF resolvePoolAuthorizationContext, Passes, Steps, KeeperTyped
  <2>3. keeper' = [keeper EXCEPT ![k] = n] BY <1>9, <2>1 DEF resolvePoolAuthorizationContext, KeeperTyped, Passes
  <2>4. /\ n.at = "clock" /\ n.schedule = keeper[k].schedule /\ n.rung = keeper[k].rung
        /\ n.overlapped = keeper[k].overlapped /\ n.found = keeper[k].found /\ n.market = keeper[k].market
    BY <2>1 DEF Passes
  <2>5. keeper[k].at = "pool" BY <1>9 DEF resolvePoolAuthorizationContext
  <2>6. UNCHANGED <<clock, listed, disabled, cutoffOf, contested>> BY <1>9 DEF resolvePoolAuthorizationContext, keeperChain
  <2>. HIDE DEF n
  <2>7. GoesOn(keeper[k], n) BY <2>4, <2>5 DEF GoesOn
  <2>8. OnRung(n) BY <2>1, <2>4, <2>5 DEF OnRung, Holding, RungOf
  <2>9. Knows(n) BY <2>1, <2>4, <2>5 DEF Knows, Holding
  <2>. QED BY <2>2, <2>3, <2>6, <2>7, <2>8, <2>9, LocalStep
<1>10. ASSUME NEW k \in Keepers, ReadMarketClock(k) PROVE IInv'
  <2> DEFINE n == [keeper[k] EXCEPT !.read = clock, !.at = "rung"]
  <2>1. keeper[k] \in Passes /\ OnRung(keeper[k]) /\ Knows(keeper[k]) BY <1>a
  <2>2. n \in Passes BY <2>1, <1>10 DEF ReadMarketClock, Passes, Steps, KeeperTyped
  <2>3. keeper' = [keeper EXCEPT ![k] = n] BY <1>10, <2>1 DEF ReadMarketClock, KeeperTyped, Passes
  <2>4. /\ n.at = "rung" /\ n.schedule = keeper[k].schedule /\ n.rung = keeper[k].rung
        /\ n.overlapped = keeper[k].overlapped /\ n.found = keeper[k].found /\ n.market = keeper[k].market
    BY <2>1 DEF Passes
  <2>5. keeper[k].at = "clock" BY <1>10 DEF ReadMarketClock
  <2>6. UNCHANGED <<clock, listed, disabled, cutoffOf, contested>> BY <1>10 DEF ReadMarketClock, keeperChain
  <2>. HIDE DEF n
  <2>7. GoesOn(keeper[k], n) BY <2>4, <2>5 DEF GoesOn
  <2>8. OnRung(n) BY <2>1, <2>4, <2>5 DEF OnRung, Holding, RungOf
  <2>9. Knows(n) BY <2>1, <2>4, <2>5 DEF Knows, Holding
  <2>. QED BY <2>2, <2>3, <2>6, <2>7, <2>8, <2>9, LocalStep
<1>11. ASSUME NEW k \in Keepers, Discover(k) PROVE IInv'
  <2>1. PICK m \in indexMarketsByExpiry(k, Rung(k).expiry) :
          keeper' = [keeper EXCEPT ![k].market = m, ![k].at = "bind"]
    BY <1>11 DEF Discover
  <2>2. m \in keeper[k].found /\ m.expiry = RungOf(keeper[k]).expiry
    BY <2>1 DEF indexMarketsByExpiry, Rung, RungOf
  <2> DEFINE n == [keeper[k] EXCEPT !.market = m, !.at = "bind"]
  <2>3. keeper[k] \in Passes /\ OnRung(keeper[k]) /\ Knows(keeper[k]) BY <1>a
  <2>4. n \in Passes BY <2>2, <2>3 DEF Passes, Steps
  <2>5. keeper' = [keeper EXCEPT ![k] = n] BY <2>1, <2>3 DEF KeeperTyped, Passes
  <2>6. /\ n.at = "bind" /\ n.schedule = keeper[k].schedule /\ n.rung = keeper[k].rung
        /\ n.overlapped = keeper[k].overlapped /\ n.found = keeper[k].found /\ n.market = m
    BY <2>3 DEF Passes
  <2>7. keeper[k].at = "rung" BY <1>11 DEF Discover
  <2>8. UNCHANGED <<clock, listed, disabled, cutoffOf, contested>> BY <1>11 DEF Discover, keeperChain
  <2>. HIDE DEF n
  <2>9. GoesOn(keeper[k], n) BY <2>6, <2>7 DEF GoesOn
  <2>10. OnRung(n) BY <2>2, <2>3, <2>6, <2>7 DEF OnRung, Holding, RungOf
  <2>11. Knows(n) BY <2>3, <2>6, <2>7 DEF Knows, Holding
  <2>. QED BY <2>4, <2>5, <2>8, <2>9, <2>10, <2>11, LocalStep
<1>12. ASSUME NEW k \in Keepers, SkipRung(k) PROVE IInv'
  <2>1. keeper[k].at = "rung" BY <1>12 DEF SkipRung
  <2>2. keeper' = [keeper EXCEPT ![k] = Following(keeper[k])]
    BY <1>12 DEF SkipRung, NextRung
  <2>3. UNCHANGED <<clock, listed, disabled, cutoffOf, contested>> BY <1>12 DEF SkipRung, keeperChain
  <2>. QED BY <2>1, <2>2, <2>3, <1>a, FollowingKeeps, LocalStep
<1>13. ASSUME NEW k \in Keepers, LadderStrike(k) PROVE IInv'
  <2>1. PICK strike \in SpotStrikes :
          keeper' = [keeper EXCEPT ![k].at = "create",
                       ![k].market = [expiry |-> Rung(k).expiry, strike |-> strike]]
    BY <1>13 DEF LadderStrike
  <2> DEFINE m == [expiry |-> Rung(k).expiry, strike |-> strike]
  <2> DEFINE n == [keeper[k] EXCEPT !.at = "create", !.market = m]
  <2>2. keeper[k] \in Passes /\ OnRung(keeper[k]) /\ Knows(keeper[k]) BY <1>a
  <2>3. keeper[k].at = "rung" /\ indexMarketsByExpiry(k, Rung(k).expiry) = {}
    BY <1>13 DEF LadderStrike
  <2>4. \A x \in keeper[k].found : x.expiry # RungOf(keeper[k]).expiry
    BY <2>3 DEF indexMarketsByExpiry, Rung, RungOf
  <2>5. m \in ListingTerms /\ m.expiry = RungOf(keeper[k]).expiry
    <3>1. RungOf(keeper[k]).expiry \in Nat BY <2>2, <2>3, RungTyped DEF OnRung, RungOf
    <3>. QED BY <3>1 DEF ListingTerms, Rung, RungOf
  <2>. HIDE DEF m
  <2>6. n \in Passes BY <2>2, <2>5 DEF Passes, Steps
  <2>7. keeper' = [keeper EXCEPT ![k] = n] BY <2>1, <2>2 DEF KeeperTyped, Passes, m
  <2>8. /\ n.at = "create" /\ n.schedule = keeper[k].schedule /\ n.rung = keeper[k].rung
        /\ n.overlapped = keeper[k].overlapped /\ n.found = keeper[k].found /\ n.market = m
    BY <2>2 DEF Passes
  <2>9. UNCHANGED <<clock, listed, disabled, cutoffOf, contested>> BY <1>13 DEF LadderStrike, keeperChain
  <2>. HIDE DEF n
  <2>10. GoesOn(keeper[k], n) BY <2>3, <2>8 DEF GoesOn
  <2>11. OnRung(n) BY <2>2, <2>3, <2>4, <2>5, <2>8 DEF OnRung, Holding, RungOf
  <2>12. Knows(n) BY <2>2, <2>3, <2>8 DEF Knows, Holding
  <2>. QED BY <2>6, <2>7, <2>9, <2>10, <2>11, <2>12, LocalStep
<1>14. ASSUME NEW k \in Keepers, CreateMarket(k) PROVE IInv'
  <2> DEFINE m == keeper[k].market
  <2> DEFINE n == [keeper[k] EXCEPT !.at = "bind"]
  <2>1. keeper[k] \in Passes /\ OnRung(keeper[k]) /\ Knows(keeper[k]) BY <1>a
  <2>2. keeper[k].at = "create" /\ UNCHANGED <<clock, disabled, cutoffOf>>
    BY <1>14 DEF CreateMarket
  <2>3. \/ /\ listed' = listed \cup {m}
           /\ contested' = contested \cup (IF keeper[k].overlapped THEN {m.expiry} ELSE {})
        \/ UNCHANGED <<listed, contested>>
    BY <1>14 DEF CreateMarket
  <2>4. n \in Passes BY <2>1 DEF Passes, Steps
  <2>5. keeper' = [keeper EXCEPT ![k] = n] BY <1>14, <2>1 DEF CreateMarket, To, KeeperTyped, Passes
  <2>6. /\ n.at = "bind" /\ n.schedule = keeper[k].schedule /\ n.rung = keeper[k].rung
        /\ n.overlapped = keeper[k].overlapped /\ n.found = keeper[k].found /\ n.market = m
    BY <2>1 DEF Passes
  <2>7. m \in ListingTerms /\ m.expiry = RungOf(keeper[k]).expiry
    BY <2>1, <2>2 DEF OnRung, Passes
  <2>8. /\ Ladder(keeper[k].schedule) /\ keeper[k].rung \in 1 .. Len(keeper[k].schedule)
        /\ \A x \in keeper[k].found : x.expiry # m.expiry
    BY <2>1, <2>2, <2>7 DEF OnRung
  <2>. HIDE DEF n, m
  <2>9. GoesOn(keeper[k], n) BY <2>2, <2>6 DEF GoesOn
  <2>10. CutoffInv' BY <2>2, <2>5, <2>9, CutoffsKept
  <2>11. OnRung(n) BY <2>1, <2>2, <2>6, <2>7 DEF OnRung, Holding, RungOf
  <2>12. CASE UNCHANGED <<listed, contested>>
    <3>1. Knows(n) BY <2>1, <2>2, <2>6 DEF Knows, Holding
    <3>. QED BY <2>2, <2>4, <2>5, <2>9, <2>11, <2>12, <3>1, LocalStep
  <2>13. CASE /\ listed' = listed \cup {m}
              /\ contested' = contested \cup (IF keeper[k].overlapped THEN {m.expiry} ELSE {})
    <3>1. ListingInv' BY <2>1, <2>2, <2>4, <2>5, <2>6, <2>7, <2>8, <2>9, <2>11, <2>13, ListingCreated
    <3>. QED BY <3>1, <2>10
  <2>. QED BY <2>3, <2>12, <2>13
<1>15. ASSUME NEW k \in Keepers, SkipBinding(k) PROVE IInv'
  <2>1. keeper[k].at = "bind" BY <1>15 DEF SkipBinding
  <2>2. keeper' = [keeper EXCEPT ![k] = Following(keeper[k])]
    BY <1>15 DEF SkipBinding, NextRung
  <2>3. UNCHANGED <<clock, listed, disabled, cutoffOf, contested>> BY <1>15 DEF SkipBinding, keeperChain
  <2>. QED BY <2>1, <2>2, <2>3, <1>a, FollowingKeeps, LocalStep
<1>16. ASSUME NEW k \in Keepers, FindBinding(k) \/ CheckCutoff(k) PROVE IInv'
  <2>1. PICK at \in {"read", "authorize"} :
          \/ keeper' = [keeper EXCEPT ![k].at = at]
          \/ keeper' = [keeper EXCEPT ![k] = Following(keeper[k])]
    BY <1>16 DEF FindBinding, CheckCutoff, To, NextRung
  <2>2. /\ keeper[k].at \in {"bind", "read"}
        /\ UNCHANGED <<clock, listed, disabled, cutoffOf, contested>>
    BY <1>16 DEF FindBinding, CheckCutoff, keeperChain
  <2>3. keeper[k] \in Passes /\ OnRung(keeper[k]) /\ Knows(keeper[k]) BY <1>a
  <2>4. CASE keeper' = [keeper EXCEPT ![k] = Following(keeper[k])]
    BY <2>2, <2>3, <2>4, FollowingKeeps, LocalStep
  <2>5. CASE keeper' = [keeper EXCEPT ![k].at = at]
    <3> DEFINE n == [keeper[k] EXCEPT !.at = at]
    <3>1. n \in Passes BY <2>1, <2>3 DEF Passes, Steps
    <3>2. keeper' = [keeper EXCEPT ![k] = n] BY <2>5, <2>3 DEF KeeperTyped, Passes
    <3>3. /\ n.at = at /\ n.schedule = keeper[k].schedule /\ n.rung = keeper[k].rung
          /\ n.overlapped = keeper[k].overlapped /\ n.found = keeper[k].found
          /\ n.market = keeper[k].market
      BY <2>3 DEF Passes
    <3>. HIDE DEF n
    <3>4. GoesOn(keeper[k], n) BY <3>3, <2>2 DEF GoesOn
    <3>5. OnRung(n) BY <2>1, <2>2, <2>3, <3>3 DEF OnRung, Holding, RungOf
    <3>6. Knows(n) BY <2>1, <2>2, <2>3, <3>3 DEF Knows, Holding
    <3>. QED BY <2>2, <3>1, <3>2, <3>4, <3>5, <3>6, LocalStep
  <2>. QED BY <2>1, <2>4, <2>5
<1>18. ASSUME NEW k \in Keepers, authorizeRung(k) PROVE IInv'
  <2> DEFINE m == keeper[k].market
  <2> DEFINE c == RungOf(keeper[k]).lastTradeAt
  <2> DEFINE n == Following(keeper[k])
  <2> DEFINE s == keeper[k].schedule
  <2>1. keeper[k] \in Passes /\ OnRung(keeper[k]) /\ Knows(keeper[k]) BY <1>a
  <2>2. keeper[k].at = "authorize" /\ UNCHANGED <<clock, listed, disabled, contested>>
    BY <1>18 DEF authorizeRung
  <2>3. keeper' = [keeper EXCEPT ![k] = n] BY <1>18 DEF authorizeRung, NextRung
  <2>4. cutoffOf' = Bind(m, c) \/ UNCHANGED cutoffOf
    BY <1>18 DEF authorizeRung, Rung, RungOf
  <2>5. n \in Passes /\ GoesOn(keeper[k], n) /\ OnRung(n) /\ Knows(n)
    BY <2>1, <2>2, FollowingKeeps
  <2>6. /\ m \in ListingTerms /\ m.expiry = RungOf(keeper[k]).expiry
        /\ Ladder(s) /\ keeper[k].rung \in 1 .. Len(s)
    BY <2>1, <2>2 DEF OnRung, Passes, Holding
  <2>7. c \in Int /\ c <= m.expiry - CUTOFF_15M
        /\ (c > m.expiry - CUTOFF => m.expiry = s[1].expiry)
    <3>1. c = m.expiry - (IF keeper[k].rung = 1 THEN CUTOFF_15M ELSE CUTOFF)
      BY <2>6 DEF Ladder, RungOf
    <3>2. m.expiry \in Nat BY <2>6 DEF ListingTerms
    <3>. HIDE DEF c
    <3>3. keeper[k].rung = 1 => m.expiry = s[1].expiry BY <2>6 DEF RungOf
    <3>. HIDE DEF m, s
    <3>. QED BY <3>1, <3>2, <3>3
  <2>. HIDE DEF m, c, n, s
  <2>8. CASE UNCHANGED cutoffOf BY <2>2, <2>3, <2>5, <2>8, LocalStep
  <2>9. CASE cutoffOf' = Bind(m, c)
    <3>1. Bound' = Bound \cup {m} /\ \A x \in Bound' : cutoffOf'[x] = IF x = m THEN c ELSE cutoffOf[x]
      BY <2>9 DEF Bind, Bound
    <3>2. Bound' \in SUBSET ListingTerms /\ cutoffOf' \in [Bound' -> Int]
      BY <2>6, <2>7, <2>9, <3>1 DEF KeeperTyped, Bind, Bound
    <3>3. ListingInv' BY <2>2, <2>3, <2>5, <3>2, ListingsKept
    <3>4. s[1].expiry <= fifteen(clock)
      BY <2>2 DEF CutoffInv, OfThePast, s
    <3>5. CutoffsOfTheGrid'
      <4>. SUFFICES ASSUME NEW x \in Bound' PROVE
             /\ cutoffOf'[x] <= x.expiry - CUTOFF_15M
             /\ cutoffOf'[x] > x.expiry - CUTOFF => x.expiry <= fifteen(clock)
        BY <2>2 DEF CutoffsOfTheGrid, Short
      <4>1. CASE x = m BY <4>1, <3>1, <3>4, <2>7
      <4>2. CASE x # m BY <4>2, <3>1 DEF CutoffInv, CutoffsOfTheGrid, Short
      <4>. QED BY <4>1, <4>2
    <3>6. \A j \in Keepers : keeper'[j] = IF j = k THEN n ELSE keeper[j] BY <2>3 DEF KeeperTyped
    <3>7. n.at # "idle" => n.schedule = s /\ n.overlapped = keeper[k].overlapped
      BY <2>5 DEF GoesOn, s
    <3>8. \A j \in Keepers : OfThePast(keeper[j])'
      BY <2>2, <3>4, <3>6, <3>7 DEF CutoffInv, OfThePast
    <3>9. ShortIsFirst(keeper[k])'
      <4>. SUFFICES ASSUME n.at # "idle", ~n.overlapped, NEW x \in Bound',
                           cutoffOf'[x] > x.expiry - CUTOFF
                    PROVE  x.expiry <= n.schedule[1].expiry
        BY <3>6 DEF ShortIsFirst, Short
      <4>1. CASE x = m
        <5>1. m.expiry = s[1].expiry BY <4>1, <3>1, <2>7
        <5>2. m.expiry \in Nat BY <2>6 DEF ListingTerms
        <5>. QED BY <5>1, <5>2, <4>1, <3>7
      <4>2. CASE x # m
        <5>1. ShortIsFirst(keeper[k]) BY DEF CutoffInv
        <5>. QED BY <5>1, <4>2, <3>1, <3>7, <2>2 DEF ShortIsFirst, Short, s
      <4>. QED BY <4>1, <4>2
    <3>10. \A j \in Keepers \ {k} : ShortIsFirst(keeper[j])'
      <4>1. \A j \in Keepers \ {k} : keeper[j].at # "idle" => keeper[j].overlapped
        BY <2>2 DEF RunsAlone, Running
      <4>. QED BY <4>1, <3>6 DEF ShortIsFirst
    <3>. QED BY <3>3, <3>5, <3>8, <3>9, <3>10 DEF CutoffInv
  <2>. QED BY <2>4, <2>8, <2>9
<1>19. ASSUME NEW k \in Keepers, Abandon(k) PROVE IInv'
  <2>1. /\ keeper' = [keeper EXCEPT ![k] = IdlePass]
        /\ UNCHANGED <<clock, listed, disabled, cutoffOf, contested>>
    BY <1>19 DEF Abandon, keeperChain
  <2>2. GoesOn(keeper[k], IdlePass) BY DEF GoesOn, IdlePass
  <2>. QED BY <2>1, <2>2, IdleKeeps, LocalStep
<1>. QED
  <2>1. ASSUME NEW k \in Keepers, PassStep(k) PROVE IInv'
    BY <2>1, <1>7, <1>8, <1>9, <1>10, <1>11, <1>12, <1>13, <1>14, <1>15, <1>16, <1>18, <1>19
       DEF PassStep
  <2>. QED BY <1>1, <1>2, <1>3, <1>4, <1>5, <1>6, <2>1 DEF KeeperNext

(* Every pass, however it is interleaved, keeps the whole invariant.       *)
THEOREM KeeperInvHolds == KeeperSpec => []IInv
BY InitIInv, StepIInv, PTL DEF KeeperSpec

(* One strike per expiry (keeper.ts indexMarketsByExpiry), unless passes   *)
(* overlapped or somebody else listed or disabled: for every grid, ladder, *)
(* number of passes and length of the schedule.                            *)
THEOREM OneStrikePerExpiryHolds == KeeperSpec => []OneStrikePerExpiry
<1>1. IInv => OneStrikePerExpiry BY DEF IInv, ListingInv
<1>. QED BY <1>1, KeeperInvHolds, PTL

(* A binding changes only while the pool is idle (set_liquidity_pool_market*)
(* refuses the rest).                                                      *)
LEMMA RebindingNeedsIdlePool ==
  ASSUME NEW m, NEW cutoff, BindRefused(m, cutoff) = "none", ~FirstTime(m)
  PROVE  traded = {}
BY DEF BindRefused

(* An authorized market stays authorized, and its cutoff never moves back  *)
(* while no passes overlap (keeper.ts authorizeRung).                      *)
THEOREM CutoffsMoveForwardHolds == KeeperSpec => CutoffsMoveForward
<1> DEFINE Forward ==
      \A m \in Bound :
        /\ m \in DOMAIN cutoffOf'
        /\ cutoffOf'[m] # cutoffOf[m] => traded = {}
        /\ cutoffOf'[m] < cutoffOf[m] => \E k \in Keepers : keeper[k].overlapped
<1>1. IInv /\ [KeeperNext]_keeperVars => Forward
  <2>. SUFFICES ASSUME IInv, [KeeperNext]_keeperVars PROVE Forward OBVIOUS
  <2>1. \A m \in Bound : cutoffOf[m] \in Int BY DEF IInv, ListingInv, KeeperTyped
  <2>2. CASE UNCHANGED cutoffOf BY <2>1, <2>2 DEF Bound
  <2>3. ASSUME NEW k \in Keepers, authorizeRung(k) PROVE Forward
    <3> DEFINE x == keeper[k].market
    <3> DEFINE r == keeper[k]
    <3>1. r \in Passes /\ OnRung(r) /\ r.at = "authorize"
      BY <2>3 DEF IInv, ListingInv, KeeperTyped, OnTheirRungs, authorizeRung
    <3>2. CASE BindRefused(x, RungOf(r).lastTradeAt) # "none"
      BY <2>2, <2>3, <3>2 DEF authorizeRung, Rung, RungOf
    <3>3. CASE BindRefused(x, RungOf(r).lastTradeAt) = "none"
      <4> DEFINE c == RungOf(r).lastTradeAt
      <4>1. cutoffOf' = Bind(x, c) BY <2>3, <3>3 DEF authorizeRung, Rung, RungOf
      <4>2. x \in Bound => traded = {} BY <3>3, RebindingNeedsIdlePool DEF FirstTime
      <4>3. \A m \in Bound : m \in DOMAIN cutoffOf' /\ cutoffOf'[m] = IF m = x THEN c ELSE cutoffOf[m]
        BY <4>1 DEF Bind
      <4>4. /\ c = x.expiry - (IF r.rung = 1 THEN CUTOFF_15M ELSE CUTOFF)
            /\ x.expiry \in Nat /\ x.expiry = r.schedule[r.rung].expiry
            /\ r.rung \in 1 .. Len(r.schedule) /\ Ladder(r.schedule)
        BY <3>1 DEF OnRung, Holding, RungOf, Ladder, Passes, ListingTerms
      <4>. HIDE DEF c
      <4>5. ASSUME x \in Bound, c < cutoffOf[x], ~r.overlapped PROVE FALSE
        <5>1. cutoffOf[x] <= x.expiry - CUTOFF_15M /\ cutoffOf[x] \in Int
          BY <4>5, <2>1 DEF IInv, CutoffInv, CutoffsOfTheGrid
        <5>2. r.rung # 1 /\ cutoffOf[x] > x.expiry - CUTOFF
          <6> DEFINE e == x.expiry
          <6> DEFINE o == cutoffOf[x]
          <6> DEFINE i == r.rung
          <6>1. /\ c = e - (IF i = 1 THEN CUTOFF_15M ELSE CUTOFF) /\ e \in Nat /\ c < o
                /\ o <= e - CUTOFF_15M /\ o \in Int
            BY <4>4, <4>5, <5>1
          <6>. HIDE DEF e, o, i
          <6>2. i # 1 /\ o > e - CUTOFF BY <6>1
          <6>. QED BY <6>2 DEF e, o, i
        <5>3. x.expiry <= r.schedule[1].expiry
          BY <3>1, <4>5, <5>2 DEF IInv, CutoffInv, ShortIsFirst, Short
        <5>4. r.schedule[1].expiry < r.schedule[r.rung].expiry
          <6>1. 1 \in 1 .. Len(r.schedule) /\ 1 < r.rung
            <7> DEFINE i == r.rung
            <7> DEFINE l == Len(r.schedule)
            <7>1. i \in 1 .. l /\ i # 1 /\ l \in Nat BY <3>1, <4>4, <5>2 DEF Passes
            <7>. HIDE DEF i, l
            <7>2. 1 \in 1 .. l /\ 1 < i BY <7>1
            <7>. QED BY <7>2 DEF i, l
          <6>. QED BY <6>1, <4>4 DEF Ladder
        <5>5. r.schedule[1].expiry \in Nat BY <3>1, <4>4, RungTyped
        <5>. QED BY <4>4, <5>3, <5>4, <5>5
      <4>. QED BY <2>1, <4>2, <4>3, <4>5
    <3>. QED BY <3>2, <3>3
  <2>4. UNCHANGED cutoffOf \/ \E k \in Keepers : authorizeRung(k)
    BY DEF KeeperNext, keeperVars, keeperChain, PassClock, Trade, LastPositionLeaves, DisableMarket,
       OtherLists, PassStep, StartPass, ScanMarkets, resolvePoolAuthorizationContext,
       ReadMarketClock, Discover, SkipRung, LadderStrike, CreateMarket, SkipBinding, FindBinding,
       CheckCutoff, Abandon
  <2>. QED BY <2>2, <2>3, <2>4
<1>2. IInv /\ [KeeperNext]_keeperVars => [Forward]_keeperVars BY <1>1
<1>. QED BY <1>2, KeeperInvHolds, PTL DEF KeeperSpec, CutoffsMoveForward
=============================================================================
