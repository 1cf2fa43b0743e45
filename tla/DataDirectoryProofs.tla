------------------------- MODULE DataDirectoryProofs -------------------------
(***************************************************************************)
(* Proofs about the two models of the data directory. The first part is    *)
(* about its files: the device records, their migration and the macro      *)
(* library (LocalRecords). The second is about the directory itself, which *)
(* a purge replaces (StateDir), and about the programs that share its lock *)
(* and the mouse (GameLaunch). The parts share no variable and no lemma, and *)
(* hold for any mice, settings, games and bounds.                          *)
(***************************************************************************)
EXTENDS LocalRecords, GameLaunch, TLAPS

-----------------------------------------------------------------------------
(* The inductive invariant of LocalRecords                                   *)

\* A directory, the one in use or what a power loss leaves, holds each saved
\* setting, or one whose save was begun after it.
SavedThere(left) ==
  \A m \in Mice, l \in Lanes : acked[m][l] # NoMouse =>
    left.records[m].exists /\ left.records[m][l] \in tried[m][l] \cup {acked[m][l]}

Imported(left) == left.migrated # NoMouse /\ \A s \in Sources : left.backup[s] = "whole"

\* Either no migration has ever returned that it imported, and no record is an old
\* import's, or record and backups are there.
BackedUp(left) == IF imported THEN Imported(left) ELSE \A m \in Mice : left.records[m].dpi # Wrapped

\* A save in hand knows a setting of the other lane that was saved, and its own
\* setting counts as tried; once renamed it is there, and no migration runs.
SaverInv ==
  /\ saver.pc # "idle" => saver.mouse \in Mice /\ saver.value \in tried[saver.mouse][saver.lane]
  /\ saver.pc = "loaded" =>
       \A l \in Lanes : acked[saver.mouse][l] # NoMouse =>
         saver.loaded[l] \in tried[saver.mouse][l] \cup {acked[saver.mouse][l]}
  /\ saver.loaded.dpi # Wrapped
  /\ saver.pc = "renamed" =>
       /\ mover.pc = "idle"
       /\ dir.records[saver.mouse].exists /\ dir.records[saver.mouse][saver.lane] = saver.value

\* A migration that will import has found no record, and has the backups it is past.
MoverInv ==
  /\ mover.pc # "idle" => mover.mouse \in Mice
  /\ mover.pc \in {"applied", "factory", "import"} => ~dir.records[mover.mouse].exists
  /\ mover.pc \in {"factory", "import"} => dir.backup["applied"] = "whole"
  /\ mover.pc = "import" => dir.backup["factory"] = "whole"
  /\ mover.pc = "renamed" => Imported(dir)

\* The library in memory is the file's, or the file is already the next one.
LibraryInv == IF pending.busy THEN dir.library \in {memory, pending.to} ELSE memory = dir.library

RecordsInv ==
  /\ RecordsTypeOK
  /\ SavedThere(dir) /\ SavedThere(kept) /\ BackedUp(dir) /\ BackedUp(kept)
  /\ SaverInv /\ MoverInv /\ LibraryInv

-----------------------------------------------------------------------------
(* Types of LocalRecords                                                     *)

LEMMA RecordsFacts ==
  ASSUME RecordsTypeOK
  PROVE  /\ dir \in Directory /\ kept \in Directory
         /\ \A m \in Mice : dir.records[m] \in Record
         /\ saver.lane \in Lanes /\ saver.value \in Values /\ saver.loaded \in Record
         /\ saver.mouse \in Mice \cup {NoMouse} /\ mover.mouse \in Mice \cup {NoMouse}
         /\ pending.to \in Libraries /\ pending.busy \in BOOLEAN /\ memory \in Libraries
         /\ dir.library \in Libraries /\ kept.library \in Libraries
         /\ \A m \in Mice, l \in Lanes : tried[m][l] \subseteq Values
BY DEF RecordsTypeOK, Directory

LEMMA NoRecordTypes == NoRecord \in Record /\ IdleSaver \in [pc : {"idle", "loaded", "renamed"},
   mouse : Mice \cup {NoMouse}, lane : Lanes, value : Values, loaded : Record]
<1>1. NoRecord \in Record
  BY ValuesAssumption DEF NoRecord, Record
<1> QED BY <1>1, ValuesAssumption DEF IdleSaver, Lanes

\* A history of one mouse and lane replaced.
LEMMA TriedReplaced ==
  ASSUME RecordsTypeOK, NEW m \in Mice, NEW l \in Lanes, NEW S \in SUBSET Values, tried' = [tried EXCEPT ![m][l] = S]
  PROVE  /\ tried' \in [Mice -> [Lanes -> SUBSET Values]]
         /\ tried'[m][l] = S
         /\ \A n \in Mice, k \in Lanes : n # m \/ k # l => tried'[n][k] = tried[n][k]
BY DEF RecordsTypeOK

LEMMA AckedReplaced ==
  ASSUME RecordsTypeOK, NEW m \in Mice, NEW l \in Lanes, NEW v \in Values, acked' = [acked EXCEPT ![m][l] = v]
  PROVE  /\ acked' \in [Mice -> [Lanes -> Values \cup {NoMouse}]]
         /\ acked'[m][l] = v
         /\ \A n \in Mice, k \in Lanes : n # m \/ k # l => acked'[n][k] = acked[n][k]
BY DEF RecordsTypeOK

-----------------------------------------------------------------------------
(* Saving a record                                                           *)

LEMMA LoadRecordKept ==
  ASSUME RecordsInv, NEW m \in Mice, NEW l \in Lanes, NEW v \in Values, LoadRecord(m, l, v)
  PROVE  RecordsInv'
<1> DEFINE r == dir.records[m]
           x == ReadAs(r)
<1>1. r \in Record
  BY RecordsFacts DEF RecordsInv
<1>2. x \in Record /\ x.dpi # Wrapped /\ \A k \in Lanes : r[k] \in Values => x[k] = r[k]
  <2> HIDE DEF r
  <2> QED BY <1>1, ValuesAssumption DEF ReadAs, Record, Lanes
<1>3. /\ dir' = dir /\ kept' = kept /\ mover' = mover /\ memory' = memory /\ pending' = pending
      /\ acked' = acked /\ imported' = imported /\ crashes' = crashes /\ saves' \in 0..MaxSaves
  BY BoundsAssumption DEF LoadRecord, disk, library, RecordsInv, RecordsTypeOK
<1>4. /\ saver' = [pc |-> "loaded", mouse |-> m, lane |-> l, value |-> v, loaded |-> x]
      /\ tried' = [tried EXCEPT ![m][l] = tried[m][l] \cup {v}]
  BY DEF LoadRecord
<1> HIDE DEF x
<1>5. /\ tried' \in [Mice -> [Lanes -> SUBSET Values]] /\ tried'[m][l] = tried[m][l] \cup {v}
      /\ \A n \in Mice, k \in Lanes : n # m \/ k # l => tried'[n][k] = tried[n][k]
  <2> DEFINE S == tried[m][l] \cup {v}
  <2>1. S \in SUBSET Values /\ tried' = [tried EXCEPT ![m][l] = S]
    BY <1>4, RecordsFacts DEF RecordsInv
  <2> HIDE DEF S
  <2>2. /\ tried' \in [Mice -> [Lanes -> SUBSET Values]] /\ tried'[m][l] = S
        /\ \A n \in Mice, k \in Lanes : n # m \/ k # l => tried'[n][k] = tried[n][k]
    BY <2>1 DEF RecordsInv, RecordsTypeOK
  <2> QED BY <2>2 DEF S
<1>6. \A n \in Mice, k \in Lanes : tried[n][k] \subseteq tried'[n][k]
  BY <1>5
<1>7. RecordsTypeOK'
  BY <1>2, <1>3, <1>4, <1>5 DEF RecordsInv, RecordsTypeOK
<1>8. SavedThere(dir)' /\ SavedThere(kept)'
  BY <1>3, <1>6 DEF RecordsInv, SavedThere
<1>9. SaverInv'
  <2>1. \A k \in Lanes : acked[m][k] # NoMouse => x[k] \in tried[m][k] \cup {acked[m][k]}
    <3> TAKE k \in Lanes
    <3> HAVE acked[m][k] # NoMouse
    <3>1. r[k] \in tried[m][k] \cup {acked[m][k]}
      BY DEF RecordsInv, SavedThere
    <3>2. acked[m][k] \in Values /\ tried[m][k] \subseteq Values
      BY RecordsFacts DEF RecordsInv, RecordsTypeOK
    <3> QED BY <1>2, <3>1, <3>2
  <2> QED BY <1>2, <1>3, <1>4, <1>5, <1>6, <2>1 DEF SaverInv
<1>10. BackedUp(dir)' /\ BackedUp(kept)' /\ MoverInv' /\ LibraryInv'
  BY <1>3 DEF RecordsInv, BackedUp, Imported, MoverInv, LibraryInv
<1> QED BY <1>7, <1>8, <1>9, <1>10 DEF RecordsInv

LEMMA SaveRecordKept ==
  ASSUME RecordsInv, SaveRecord
  PROVE  RecordsInv'
<1>1. /\ kept' = kept /\ mover' = mover /\ memory' = memory /\ pending' = pending
      /\ acked' = acked /\ tried' = tried /\ imported' = imported /\ crashes' = crashes /\ saves' = saves
      /\ saver.pc = "loaded" /\ mover.pc = "idle"
  BY DEF SaveRecord, library, counts, StoreFree
<1>2. CASE saver' = IdleSaver /\ dir' = dir
  <2>1. saver'.pc = "idle" /\ saver'.loaded.dpi # Wrapped
    BY <1>2, ValuesAssumption DEF IdleSaver, NoRecord
  <2>2. RecordsTypeOK'
    BY <1>1, <1>2, NoRecordTypes DEF RecordsInv, RecordsTypeOK
  <2>3. SavedThere(dir)' /\ SavedThere(kept)' /\ SaverInv'
    BY <1>1, <1>2, <2>1 DEF RecordsInv, SavedThere, SaverInv
  <2>4. BackedUp(dir)' /\ BackedUp(kept)' /\ MoverInv' /\ LibraryInv'
    BY <1>1, <1>2 DEF RecordsInv, BackedUp, Imported, MoverInv, LibraryInv
  <2> QED BY <2>2, <2>3, <2>4 DEF RecordsInv
<1>3. CASE /\ dir' = [dir EXCEPT !.records[saver.mouse] = [saver.loaded EXCEPT !.exists = TRUE, ![saver.lane] = saver.value]]
           /\ saver' = [saver EXCEPT !.pc = "renamed"]
  <2> DEFINE m == saver.mouse
             l == saver.lane
             r == saver.loaded
             v == saver.value
             w == [r EXCEPT !.exists = TRUE, ![l] = v]
  <2>1. m \in Mice /\ l \in Lanes /\ saver.value \in tried[m][l]
    BY <1>1, RecordsFacts DEF RecordsInv, SaverInv
  <2>2. w \in Record /\ w.exists /\ w[l] = v /\ w.dpi # Wrapped /\ \A k \in Lanes : k # l => w[k] = r[k]
    <3>1. r \in Record /\ v \in Values /\ r.dpi # Wrapped
      BY RecordsFacts DEF RecordsInv, SaverInv
    <3>2. l \in Lanes
      BY <2>1
    <3> HIDE DEF r, v, l
    <3>3. CASE l = "dpi"
      BY <3>1, <3>3, ValuesAssumption DEF Record, Lanes
    <3>4. CASE l = "polling"
      BY <3>1, <3>4 DEF Record, Lanes
    <3> QED BY <3>2, <3>3, <3>4 DEF Lanes
  <2>3. dir' = [dir EXCEPT !.records[m] = w]
    BY <1>3
  <2>4. /\ saver'.pc = "renamed" /\ saver'.mouse = m /\ saver'.lane = l /\ saver'.value = saver.value
        /\ saver'.loaded = r
        /\ saver' \in [pc : {"idle", "loaded", "renamed"}, mouse : Mice \cup {NoMouse}, lane : Lanes,
                       value : Values, loaded : Record]
    BY <1>3 DEF RecordsInv, RecordsTypeOK
  <2>5. \A k \in Lanes : acked[m][k] # NoMouse => w[k] \in tried[m][k] \cup {acked[m][k]}
    BY <1>1, <2>1, <2>2 DEF RecordsInv, SaverInv
  <2> HIDE DEF w
  <2>6. /\ dir' \in Directory /\ dir'.records[m] = w /\ \A k \in Mice : k # m => dir'.records[k] = dir.records[k]
        /\ dir'.migrated = dir.migrated /\ dir'.backup = dir.backup /\ dir'.library = dir.library
    <3>1. dir \in Directory
      BY RecordsFacts DEF RecordsInv
    <3> HIDE DEF m, l
    <3> QED BY <2>1, <2>2, <2>3, <3>1 DEF Directory
  <2>7. RecordsTypeOK'
    BY <1>1, <2>4, <2>6 DEF RecordsInv, RecordsTypeOK
  <2>8. SavedThere(dir)' /\ SavedThere(kept)'
    <3> HIDE DEF m, l
    <3> QED BY <1>1, <2>1, <2>2, <2>5, <2>6 DEF RecordsInv, SavedThere
  <2>9. SaverInv'
    BY <1>1, <2>1, <2>2, <2>4, <2>6 DEF RecordsInv, SaverInv
  <2>10. BackedUp(dir)' /\ BackedUp(kept)' /\ MoverInv' /\ LibraryInv'
    <3> HIDE DEF m
    <3> QED BY <1>1, <2>1, <2>2, <2>6 DEF RecordsInv, BackedUp, Imported, MoverInv, LibraryInv
  <2> QED BY <2>7, <2>8, <2>9, <2>10 DEF RecordsInv
<1> QED BY <1>2, <1>3 DEF SaveRecord

LEMMA SyncRecordKept ==
  ASSUME RecordsInv, SyncRecord
  PROVE  RecordsInv'
<1> DEFINE m == saver.mouse
           l == saver.lane
<1>1. /\ dir' = dir /\ mover' = mover /\ memory' = memory /\ pending' = pending
      /\ imported' = imported /\ crashes' = crashes /\ saves' = saves /\ saver.pc = "renamed"
      /\ saver' = IdleSaver /\ saver'.pc = "idle" /\ saver'.loaded.dpi # Wrapped
  BY ValuesAssumption DEF SyncRecord, library, counts, IdleSaver, NoRecord
<1>2. /\ m \in Mice /\ l \in Lanes /\ saver.value \in Values
      /\ dir.records[m].exists /\ dir.records[m][l] = saver.value
  BY <1>1, RecordsFacts DEF RecordsInv, SaverInv
<1>3. SaverInv' /\ BackedUp(dir)' /\ MoverInv' /\ LibraryInv'
  BY <1>1 DEF RecordsInv, SaverInv, BackedUp, Imported, MoverInv, LibraryInv
<1>4. CASE UNCHANGED <<kept, acked, tried>>
  <2>1. RecordsTypeOK'
    BY <1>1, <1>4, NoRecordTypes DEF RecordsInv, RecordsTypeOK
  <2>2. SavedThere(dir)' /\ SavedThere(kept)' /\ BackedUp(kept)'
    BY <1>1, <1>4 DEF RecordsInv, SavedThere, BackedUp, Imported
  <2> QED BY <1>3, <2>1, <2>2 DEF RecordsInv
<1>5. CASE /\ kept' = dir
           /\ acked' = [acked EXCEPT ![saver.mouse][saver.lane] = saver.value]
           /\ tried' = [tried EXCEPT ![saver.mouse][saver.lane] = {}]
  <2>1. acked' = [acked EXCEPT ![m][l] = saver.value] /\ tried' = [tried EXCEPT ![m][l] = {}]
    BY <1>5
  <2> HIDE DEF m, l
  <2>2. /\ acked' \in [Mice -> [Lanes -> Values \cup {NoMouse}]] /\ acked'[m][l] = saver.value
        /\ \A n \in Mice, k \in Lanes : n # m \/ k # l => acked'[n][k] = acked[n][k]
    BY <1>2, <2>1, AckedReplaced DEF RecordsInv
  <2>3. /\ tried' \in [Mice -> [Lanes -> SUBSET Values]]
        /\ \A n \in Mice, k \in Lanes : n # m \/ k # l => tried'[n][k] = tried[n][k]
    <3> DEFINE S == {}
    <3>1. S \in SUBSET Values /\ tried' = [tried EXCEPT ![m][l] = S]
      BY <2>1
    <3> HIDE DEF S
    <3> QED BY <1>2, <3>1, TriedReplaced DEF RecordsInv
  <2>4. RecordsTypeOK'
    BY <1>1, <1>5, <2>2, <2>3, NoRecordTypes DEF RecordsInv, RecordsTypeOK
  <2>5. \A n \in Mice, k \in Lanes : acked'[n][k] # NoMouse =>
          dir.records[n].exists /\ dir.records[n][k] \in tried'[n][k] \cup {acked'[n][k]}
    <3> TAKE n \in Mice, k \in Lanes
    <3>1. CASE n = m /\ k = l
      BY <1>2, <2>2, <3>1
    <3>2. CASE n # m \/ k # l
      BY <2>2, <2>3, <3>2 DEF RecordsInv, SavedThere
    <3> QED BY <3>1, <3>2
  <2>6. SavedThere(dir)' /\ SavedThere(kept)' /\ BackedUp(kept)'
    BY <1>1, <1>5, <2>5 DEF RecordsInv, SavedThere, BackedUp, Imported
  <2> QED BY <1>3, <2>4, <2>6 DEF RecordsInv
<1> QED BY <1>1, <1>4, <1>5 DEF SyncRecord

-----------------------------------------------------------------------------
(* The migration of the old files                                            *)

\* A mouse whose settings were saved has a record that is no wrapper, so no
\* migration of it starts an import, and unwrapping leaves what was saved.
LEMMA StartMigrationKept ==
  ASSUME RecordsInv, NEW m \in Mice, StartMigration(m)
  PROVE  RecordsInv'
<1>1. /\ kept' = kept /\ saver' = saver /\ acked' = acked /\ tried' = tried /\ memory' = memory /\ imported' = imported
      /\ pending' = pending /\ crashes' = crashes /\ saves' = saves /\ saver.pc # "renamed" /\ mover.pc = "idle"
  BY DEF StartMigration, records, library, counts, StoreFree
<1>2. CASE ~dir.records[m].exists /\ mover' = [IdleMover EXCEPT !.pc = "applied", !.mouse = m] /\ dir' = dir
  <2>1. /\ mover' \in [pc : {"idle", "applied", "factory", "import", "renamed"},
                       mouse : Mice \cup {NoMouse}, writing : BOOLEAN]
        /\ mover'.pc = "applied" /\ mover'.mouse = m
    BY <1>2 DEF IdleMover
  <2>2. RecordsTypeOK'
    BY <1>1, <1>2, <2>1 DEF RecordsInv, RecordsTypeOK
  <2>3. SavedThere(dir)' /\ SavedThere(kept)' /\ BackedUp(dir)' /\ BackedUp(kept)' /\ LibraryInv'
    BY <1>1, <1>2 DEF RecordsInv, SavedThere, BackedUp, Imported, LibraryInv
  <2>4. SaverInv' /\ MoverInv'
    BY <1>1, <1>2, <2>1 DEF RecordsInv, SaverInv, MoverInv
  <2> QED BY <2>2, <2>3, <2>4 DEF RecordsInv
<1>3. CASE /\ dir.records[m].dpi = Wrapped
           /\ dir' = [dir EXCEPT !.records[m] = Normalized(@)]
           /\ mover' = [IdleMover EXCEPT !.pc = "renamed", !.mouse = m]
  <2> DEFINE r == dir.records[m]
             w == Normalized(r)
  <2>1. w \in Record /\ w.exists = r.exists /\ w.polling = r.polling /\ w.dpi # Wrapped
    <3>1. r \in Record
      BY RecordsFacts DEF RecordsInv
    <3> HIDE DEF r
    <3> QED BY <3>1, ValuesAssumption DEF Normalized, Record
  <2>2. dir' = [dir EXCEPT !.records[m] = w] /\ dir \in Directory
    BY <1>3, RecordsFacts DEF RecordsInv
  <2>3. acked[m]["dpi"] = NoMouse
    <3>1. "dpi" \in Lanes
      BY DEF Lanes
    <3>2. tried[m]["dpi"] \subseteq Values /\ acked[m]["dpi"] \in Values \cup {NoMouse}
      BY <3>1, RecordsFacts DEF RecordsInv, RecordsTypeOK
    <3>3. acked[m]["dpi"] # NoMouse => r["dpi"] \in tried[m]["dpi"] \cup {acked[m]["dpi"]}
      BY <3>1 DEF RecordsInv, SavedThere
    <3> QED BY <1>3, <3>2, <3>3, ValuesAssumption
  <2>4. \A l \in Lanes : acked[m][l] # NoMouse => w.exists /\ w[l] \in tried[m][l] \cup {acked[m][l]}
    <3>1. acked[m]["polling"] # NoMouse => r.exists /\ r["polling"] \in tried[m]["polling"] \cup {acked[m]["polling"]}
      BY DEF RecordsInv, SavedThere, Lanes
    <3> HIDE DEF r, w
    <3> QED BY <2>1, <2>3, <3>1 DEF Lanes
  <2> HIDE DEF w
  <2>5. /\ dir' \in Directory /\ dir'.records[m] = w /\ \A k \in Mice : k # m => dir'.records[k] = dir.records[k]
        /\ dir'.migrated = dir.migrated /\ dir'.backup = dir.backup /\ dir'.library = dir.library
    BY <2>1, <2>2 DEF Directory
  <2>6. /\ mover' \in [pc : {"idle", "applied", "factory", "import", "renamed"},
                       mouse : Mice \cup {NoMouse}, writing : BOOLEAN]
        /\ mover'.pc = "renamed" /\ mover'.mouse = m
    BY <1>3 DEF IdleMover
  <2>7. RecordsTypeOK'
    BY <1>1, <2>5, <2>6 DEF RecordsInv, RecordsTypeOK
  <2>8. SavedThere(dir)' /\ SavedThere(kept)'
    BY <1>1, <2>4, <2>5 DEF RecordsInv, SavedThere
  <2>9. BackedUp(dir)' /\ BackedUp(kept)' /\ LibraryInv'
    BY <1>1, <2>1, <2>5 DEF RecordsInv, BackedUp, Imported, LibraryInv
  <2>10. SaverInv' /\ MoverInv'
    <3>1. Imported(dir)
      BY <1>3 DEF RecordsInv, BackedUp
    <3> QED BY <1>1, <2>5, <2>6, <3>1 DEF RecordsInv, SaverInv, MoverInv, Imported
  <2> QED BY <2>7, <2>8, <2>9, <2>10 DEF RecordsInv
<1> QED BY <1>2, <1>3 DEF StartMigration

\* What a step of the migration that changes no record keeps.
LEMMA BackupStepKept ==
  ASSUME RecordsInv, mover.pc \in {"applied", "factory", "import"},
         dir' \in Directory, kept' \in Directory,
         dir'.records = dir.records, dir'.migrated = dir.migrated, dir'.library = dir.library,
         kept'.records = kept.records, kept'.migrated = kept.migrated, kept'.library = kept.library,
         \A s \in Sources : dir.backup[s] = "whole" => dir'.backup[s] = "whole",
         \A s \in Sources : kept.backup[s] = "whole" => kept'.backup[s] = "whole",
         mover' \in [pc : {"idle", "applied", "factory", "import", "renamed"}, mouse : Mice \cup {NoMouse}, writing : BOOLEAN],
         mover'.pc # "idle" => mover'.mouse = mover.mouse /\ mover'.pc # "renamed",
         mover'.pc \in {"factory", "import"} => dir'.backup["applied"] = "whole",
         mover'.pc = "import" => dir'.backup["factory"] = "whole",
         UNCHANGED <<records, library, counts>>
  PROVE  RecordsInv'
<1>1. /\ saver' = saver /\ acked' = acked /\ tried' = tried /\ imported' = imported /\ memory' = memory
      /\ pending' = pending /\ crashes' = crashes /\ saves' = saves
  BY DEF records, library, counts
<1>2. RecordsTypeOK'
  BY <1>1 DEF RecordsInv, RecordsTypeOK
<1>3. SavedThere(dir)' /\ SavedThere(kept)' /\ LibraryInv'
  BY <1>1 DEF RecordsInv, SavedThere, LibraryInv
<1>4. BackedUp(dir)' /\ BackedUp(kept)'
  BY <1>1 DEF RecordsInv, BackedUp, Imported
<1>5. SaverInv' /\ MoverInv'
  BY <1>1 DEF RecordsInv, SaverInv, MoverInv
<1> QED BY <1>2, <1>3, <1>4, <1>5 DEF RecordsInv

\* A backup in the order of the migration: what is past it is whole.
LEMMA BackupKept ==
  ASSUME RecordsInv, NEW s \in Sources, NEW next \in {"factory", "import"},
         s = "factory" <=> next = "import",
         Backup(s, next) \/ WriteBackup(s, next)
  PROVE  RecordsInv'
<1>1. /\ mover.pc = s /\ UNCHANGED <<records, library, counts>>
      /\ s \in Sources /\ s \in {"applied", "factory"} /\ (s = "factory" => dir.backup["applied"] = "whole")
  BY DEF Backup, WriteBackup, RecordsInv, MoverInv, Sources
<1>2. /\ dir \in Directory /\ kept \in Directory
      /\ mover \in [pc : {"idle", "applied", "factory", "import", "renamed"}, mouse : Mice \cup {NoMouse}, writing : BOOLEAN]
  BY DEF RecordsInv, RecordsTypeOK
<1>3. IdleMover \in [pc : {"idle", "applied", "factory", "import", "renamed"}, mouse : Mice \cup {NoMouse}, writing : BOOLEAN]
      /\ IdleMover.pc = "idle"
  BY DEF IdleMover
<1>4. CASE mover' = IdleMover /\ UNCHANGED disk
  BY <1>1, <1>2, <1>3, <1>4, BackupStepKept DEF disk
<1>5. CASE Backup(s, next) /\ mover' # IdleMover
  <2>1. CASE dir.backup[s] = "none" /\ dir' = [dir EXCEPT !.backup[s] = "partial"] /\ mover' = [mover EXCEPT !.writing = TRUE]
    <3>1. /\ dir' \in Directory /\ dir'.records = dir.records /\ dir'.migrated = dir.migrated /\ dir'.library = dir.library
          /\ \A k \in Sources : k # s => dir'.backup[k] = dir.backup[k]
      BY <1>2, <2>1 DEF Directory
    <3>2. \A k \in Sources : dir.backup[k] = "whole" => dir'.backup[k] = "whole"
      BY <2>1, <3>1
    <3>3. /\ mover' \in [pc : {"idle", "applied", "factory", "import", "renamed"}, mouse : Mice \cup {NoMouse}, writing : BOOLEAN]
          /\ mover'.pc = s /\ mover'.mouse = mover.mouse
      BY <1>1, <1>2, <2>1
    <3>4. kept' = kept
      BY <1>5 DEF Backup
    <3>5. s = "factory" => dir'.backup["applied"] = "whole"
      BY <1>1, <3>2 DEF Sources
    <3> QED BY <1>1, <1>2, <3>1, <3>2, <3>3, <3>4, <3>5, BackupStepKept
  <2>2. CASE dir.backup[s] = "whole" /\ mover' = [mover EXCEPT !.pc = next] /\ UNCHANGED dir
    <3>1. /\ mover' \in [pc : {"idle", "applied", "factory", "import", "renamed"}, mouse : Mice \cup {NoMouse}, writing : BOOLEAN]
          /\ mover'.pc = next /\ mover'.mouse = mover.mouse
      BY <1>2, <2>2
    <3>2. kept' = kept
      BY <1>5 DEF Backup
    <3> QED BY <1>1, <1>2, <2>2, <3>1, <3>2, BackupStepKept
  <2> QED BY <1>5, <2>1, <2>2 DEF Backup
<1>6. CASE WriteBackup(s, next) /\ mover' # IdleMover
  <2> DEFINE b == IF kept.backup[s] = "none" THEN "none" ELSE "whole"
  <2>1. /\ dir' = [dir EXCEPT !.backup[s] = "whole"] /\ kept' = [kept EXCEPT !.backup[s] = b]
        /\ mover' = [mover EXCEPT !.pc = next, !.writing = FALSE]
    BY <1>6 DEF WriteBackup
  <2>2. /\ dir' \in Directory /\ dir'.records = dir.records /\ dir'.migrated = dir.migrated /\ dir'.library = dir.library
        /\ dir'.backup[s] = "whole" /\ \A k \in Sources : k # s => dir'.backup[k] = dir.backup[k]
    BY <1>2, <2>1 DEF Directory
  <2>3. b \in {"none", "whole"} /\ (kept.backup[s] = "whole" => b = "whole")
    OBVIOUS
  <2> HIDE DEF b
  <2>4. /\ kept' \in Directory /\ kept'.records = kept.records /\ kept'.migrated = kept.migrated /\ kept'.library = kept.library
        /\ kept'.backup[s] = b /\ \A k \in Sources : k # s => kept'.backup[k] = kept.backup[k]
    BY <1>2, <2>1, <2>3 DEF Directory
  <2>5. /\ \A k \in Sources : dir.backup[k] = "whole" => dir'.backup[k] = "whole"
        /\ \A k \in Sources : kept.backup[k] = "whole" => kept'.backup[k] = "whole"
    BY <2>2, <2>3, <2>4
  <2>6. /\ mover' \in [pc : {"idle", "applied", "factory", "import", "renamed"}, mouse : Mice \cup {NoMouse}, writing : BOOLEAN]
        /\ mover'.pc = next /\ mover'.mouse = mover.mouse
    BY <1>2, <2>1
  <2>7. (next = "factory" => dir'.backup["applied"] = "whole")
        /\ (next = "import" => dir'.backup["applied"] = "whole" /\ dir'.backup["factory"] = "whole")
    BY <1>1, <2>2, <2>5 DEF Sources
  <2> QED BY <1>1, <1>2, <2>2, <2>4, <2>5, <2>6, <2>7, BackupStepKept
<1>7. CASE Backup(s, next) /\ mover' = IdleMover
  BY <1>1, <1>2, <1>3, <1>4, <1>7 DEF Backup, disk
<1>8. CASE WriteBackup(s, next) /\ mover' = IdleMover
  BY <1>2, <1>3, <1>4, <1>8 DEF WriteBackup, disk
<1> QED BY <1>5, <1>6, <1>7, <1>8

LEMMA ImportKept ==
  ASSUME RecordsInv, Import
  PROVE  RecordsInv'
<1>1. /\ kept' = kept /\ saver' = saver /\ acked' = acked /\ tried' = tried /\ memory' = memory /\ imported' = imported
      /\ pending' = pending /\ crashes' = crashes /\ saves' = saves /\ mover.pc = "import"
  BY DEF Import, records, library, counts
<1>2. dir \in Directory /\ mover.mouse \in Mice /\ ~dir.records[mover.mouse].exists /\ \A s \in Sources : dir.backup[s] = "whole"
  BY <1>1, RecordsFacts DEF RecordsInv, MoverInv, Sources
<1>3. CASE mover' = IdleMover /\ dir' = dir
  <2>1. mover'.pc = "idle" /\ mover' \in [pc : {"idle", "applied", "factory", "import", "renamed"},
                                          mouse : Mice \cup {NoMouse}, writing : BOOLEAN]
    BY <1>3 DEF IdleMover
  <2>2. RecordsTypeOK'
    BY <1>1, <1>3, <2>1 DEF RecordsInv, RecordsTypeOK
  <2>3. SavedThere(dir)' /\ SavedThere(kept)' /\ BackedUp(dir)' /\ BackedUp(kept)' /\ LibraryInv'
    BY <1>1, <1>3 DEF RecordsInv, SavedThere, BackedUp, Imported, LibraryInv
  <2>4. SaverInv' /\ MoverInv'
    BY <1>1, <1>3, <2>1 DEF RecordsInv, SaverInv, MoverInv
  <2> QED BY <2>2, <2>3, <2>4 DEF RecordsInv
<1>4. CASE /\ dir' = [dir EXCEPT !.records[mover.mouse] = [NoRecord EXCEPT !.exists = TRUE, !.dpi = LegacyDpi],
                                 !.migrated = mover.mouse]
           /\ mover' = [mover EXCEPT !.pc = "renamed"]
  <2> DEFINE m == mover.mouse
             w == [NoRecord EXCEPT !.exists = TRUE, !.dpi = LegacyDpi]
  <2>1. w \in Record /\ w.dpi # Wrapped
    BY ValuesAssumption DEF NoRecord, Record
  <2>2. dir' = [dir EXCEPT !.records[m] = w, !.migrated = m] /\ m \in Mice
    BY <1>2, <1>4
  <2> HIDE DEF w
  <2>3. /\ mover' \in [pc : {"idle", "applied", "factory", "import", "renamed"},
                       mouse : Mice \cup {NoMouse}, writing : BOOLEAN]
        /\ mover'.pc = "renamed" /\ mover'.mouse = m
    BY <1>4 DEF RecordsInv, RecordsTypeOK
  <2>4. \A l \in Lanes : acked[m][l] = NoMouse
    BY <1>2 DEF RecordsInv, SavedThere
  <2> HIDE DEF m
  <2>5. /\ dir' \in Directory /\ \A k \in Mice : k # m => dir'.records[k] = dir.records[k]
        /\ dir'.backup = dir.backup /\ dir'.library = dir.library /\ dir'.migrated = m /\ dir'.records[m] = w
        /\ m # NoMouse
    BY <1>2, <2>1, <2>2, LibrariesAssumption DEF Directory
  <2>6. RecordsTypeOK'
    BY <1>1, <2>3, <2>5 DEF RecordsInv, RecordsTypeOK
  <2>7. SavedThere(dir)' /\ SavedThere(kept)'
    BY <1>1, <2>4, <2>5 DEF RecordsInv, SavedThere
  <2>8. BackedUp(dir)' /\ BackedUp(kept)' /\ LibraryInv'
    BY <1>1, <1>2, <2>1, <2>2, <2>5 DEF RecordsInv, BackedUp, Imported, LibraryInv
  <2>9. saver.pc # "renamed"
    BY <1>1 DEF RecordsInv, SaverInv
  <2>10. SaverInv' /\ MoverInv'
    BY <1>1, <1>2, <2>2, <2>3, <2>5, <2>9 DEF RecordsInv, SaverInv, MoverInv, Imported
  <2> QED BY <2>6, <2>7, <2>8, <2>10 DEF RecordsInv
<1> QED BY <1>3, <1>4 DEF Import

-----------------------------------------------------------------------------
(* The library, the kernel and crashes                                       *)

\* The sync that ends a migration: what is in use becomes what a power loss leaves.
LEMMA SyncMigrationKept ==
  ASSUME RecordsInv, SyncMigration
  PROVE  RecordsInv'
<1>1. /\ dir' = dir /\ saver' = saver /\ acked' = acked /\ tried' = tried /\ memory' = memory /\ mover.pc = "renamed"
      /\ pending' = pending /\ crashes' = crashes /\ saves' = saves /\ mover' = IdleMover /\ mover'.pc = "idle"
  BY DEF SyncMigration, library, counts, IdleMover
<1>2. \/ kept' = dir /\ imported' = TRUE
      \/ kept' = kept /\ imported' = imported
  BY DEF SyncMigration
<1>3. RecordsTypeOK'
  <2>1. IdleMover \in [pc : {"idle", "applied", "factory", "import", "renamed"}, mouse : Mice \cup {NoMouse}, writing : BOOLEAN]
    BY DEF IdleMover
  <2> QED BY <1>1, <1>2, <2>1 DEF RecordsInv, RecordsTypeOK
<1>4. Imported(dir)
  BY <1>1 DEF RecordsInv, MoverInv
<1>5. SavedThere(dir)' /\ SavedThere(kept)' /\ LibraryInv'
  BY <1>1, <1>2 DEF RecordsInv, SavedThere, LibraryInv
<1>6. BackedUp(dir)' /\ BackedUp(kept)'
  BY <1>1, <1>2, <1>4 DEF RecordsInv, BackedUp, Imported
<1>7. SaverInv' /\ MoverInv'
  BY <1>1 DEF RecordsInv, SaverInv, MoverInv
<1> QED BY <1>3, <1>5, <1>6, <1>7 DEF RecordsInv

\* One name written back: of what is in use, what a power loss leaves gets the device
\* file, a backup or the library.
LEMMA WriteBackKept ==
  ASSUME RecordsInv, WriteBackName
  PROVE  RecordsInv'
<1>1. /\ dir' = dir /\ saver' = saver /\ acked' = acked /\ tried' = tried /\ memory' = memory /\ mover' = mover
      /\ pending' = pending /\ crashes' = crashes /\ saves' = saves /\ imported' = imported
  BY DEF WriteBackName, records, library, counts
<1>2. dir \in Directory /\ kept \in Directory
  BY RecordsFacts DEF RecordsInv
<1>3. /\ kept' \in Directory
      /\ \/ kept'.records = dir.records /\ kept'.migrated = dir.migrated
         \/ kept'.records = kept.records /\ kept'.migrated = kept.migrated
      /\ \A s \in Sources : kept'.backup[s] \in {kept.backup[s], dir.backup[s]}
  <2>1. CASE kept' = [kept EXCEPT !.records = dir.records, !.migrated = dir.migrated]
    BY <1>2, <2>1 DEF Directory
  <2>2. ASSUME NEW s \in Sources, kept' = [kept EXCEPT !.backup[s] = dir.backup[s]]
        PROVE  /\ kept' \in Directory /\ kept'.records = kept.records /\ kept'.migrated = kept.migrated
               /\ \A k \in Sources : kept'.backup[k] \in {kept.backup[k], dir.backup[k]}
    BY <1>2, <2>2 DEF Directory
  <2>3. CASE kept' = [kept EXCEPT !.library = dir.library]
    BY <1>2, <2>3 DEF Directory
  <2> QED BY <2>1, <2>2, <2>3 DEF WriteBackName
<1>4. RecordsTypeOK'
  BY <1>1, <1>3 DEF RecordsInv, RecordsTypeOK
<1>5. SavedThere(dir)' /\ SavedThere(kept)' /\ LibraryInv'
  BY <1>1, <1>3 DEF RecordsInv, SavedThere, LibraryInv
<1>6. BackedUp(dir)' /\ BackedUp(kept)'
  BY <1>1, <1>3 DEF RecordsInv, BackedUp, Imported
<1>7. SaverInv' /\ MoverInv'
  BY <1>1 DEF RecordsInv, SaverInv, MoverInv, Imported
<1> QED BY <1>4, <1>5, <1>6, <1>7 DEF RecordsInv

LEMMA LibraryKept ==
  ASSUME RecordsInv, (\E to \in Libraries : ChangeLibrary(to)) \/ PersistLibrary \/ ShowLibrary
  PROVE  RecordsInv'
<1>1. /\ kept' = kept /\ saver' = saver /\ mover' = mover /\ acked' = acked /\ tried' = tried /\ crashes' = crashes
      /\ imported' = imported /\ saves' \in 0..MaxSaves
  BY BoundsAssumption DEF ChangeLibrary, PersistLibrary, ShowLibrary, disk, records, counts, RecordsInv, RecordsTypeOK
<1>2. /\ dir' \in Directory /\ dir'.records = dir.records /\ dir'.migrated = dir.migrated /\ dir'.backup = dir.backup
  <2>1. dir \in Directory /\ pending.to \in Libraries
    BY RecordsFacts DEF RecordsInv
  <2>2. dir' = dir \/ dir' = [dir EXCEPT !.library = pending.to]
    BY DEF ChangeLibrary, PersistLibrary, ShowLibrary, disk
  <2> QED BY <2>1, <2>2 DEF Directory
<1>3. memory' \in Libraries /\ pending' \in [to : Libraries, busy : BOOLEAN] /\ LibraryInv'
  <2>1. CASE \E to \in Libraries : ChangeLibrary(to)
    BY <2>1, RecordsFacts DEF ChangeLibrary, disk, RecordsInv, LibraryInv
  <2>2. CASE PersistLibrary
    <3>1. dir'.library = pending.to /\ memory' = memory /\ pending' = pending /\ pending.busy
      BY <2>2, RecordsFacts DEF PersistLibrary, library, RecordsInv, Directory
    <3> QED BY <3>1 DEF RecordsInv, RecordsTypeOK, LibraryInv
  <2>3. CASE ShowLibrary
    BY <2>3, RecordsFacts, LibrariesAssumption DEF ShowLibrary, Unchanging, disk, RecordsInv, LibraryInv
  <2> QED BY <2>1, <2>2, <2>3
<1>4. RecordsTypeOK'
  BY <1>1, <1>2, <1>3 DEF RecordsInv, RecordsTypeOK
<1>5. SavedThere(dir)' /\ SavedThere(kept)' /\ BackedUp(dir)' /\ BackedUp(kept)'
  BY <1>1, <1>2 DEF RecordsInv, SavedThere, BackedUp, Imported
<1>6. SaverInv' /\ MoverInv'
  BY <1>1, <1>2 DEF RecordsInv, SaverInv, MoverInv, Imported
<1> QED BY <1>3, <1>4, <1>5, <1>6 DEF RecordsInv

LEMMA CrashKept ==
  ASSUME RecordsInv, Crash(dir) \/ Crash(kept)
  PROVE  RecordsInv'
<1>1. /\ dir' \in {dir, kept} /\ kept' = kept /\ saver' = IdleSaver /\ mover' = IdleMover /\ pending' = Unchanging
      /\ memory' = dir'.library /\ acked' = acked /\ tried' = tried /\ saves' = saves /\ crashes' \in 0..MaxCrashes
      /\ imported' = imported
  BY BoundsAssumption DEF Crash, RecordsInv, RecordsTypeOK
<1>2. saver'.pc = "idle" /\ mover'.pc = "idle" /\ pending'.busy = FALSE /\ saver'.loaded.dpi # Wrapped
  BY <1>1, ValuesAssumption DEF IdleSaver, IdleMover, Unchanging, NoRecord
<1>3. RecordsTypeOK'
  <2>1. dir' \in Directory /\ memory' \in Libraries
    BY <1>1, RecordsFacts DEF RecordsInv
  <2>2. IdleMover \in [pc : {"idle", "applied", "factory", "import", "renamed"}, mouse : Mice \cup {NoMouse}, writing : BOOLEAN]
        /\ Unchanging \in [to : Libraries, busy : BOOLEAN]
    BY LibrariesAssumption DEF IdleMover, Unchanging
  <2> QED BY <1>1, <2>1, <2>2, NoRecordTypes DEF RecordsInv, RecordsTypeOK
<1>4. SavedThere(dir)' /\ SavedThere(kept)' /\ BackedUp(dir)' /\ BackedUp(kept)'
  BY <1>1 DEF RecordsInv, SavedThere, BackedUp, Imported
<1>5. SaverInv' /\ MoverInv' /\ LibraryInv'
  BY <1>1, <1>2 DEF SaverInv, MoverInv, LibraryInv
<1> QED BY <1>3, <1>4, <1>5 DEF RecordsInv

-----------------------------------------------------------------------------
(* The theorems of LocalRecords                                              *)

LEMMA RecordsStart == Init => RecordsInv
<1> SUFFICES ASSUME Init PROVE RecordsInv
  OBVIOUS
<1>1. dir \in Directory
  <2> DEFINE fresh == [m \in Mice |-> NoRecord]
             none == [s \in Sources |-> "none"]
             whole == [s \in Sources |-> "whole"]
  <2>1. fresh \in [Mice -> Record]
    BY NoRecordTypes
  <2>2. CASE dir = [records |-> fresh, migrated |-> NoMouse, backup |-> none, library |-> EmptyLibrary]
    <3>1. none \in [Sources -> {"none", "partial", "whole"}]
      OBVIOUS
    <3> HIDE DEF fresh, none
    <3> QED BY <2>1, <2>2, <3>1, LibrariesAssumption DEF Directory
  <2>3. CASE \E old \in Mice :
          dir = [records |-> [m \in Mice |-> IF m = old THEN [NoRecord EXCEPT !.exists = TRUE, !.dpi = Wrapped] ELSE NoRecord],
                 migrated |-> old, backup |-> whole, library |-> EmptyLibrary]
    <3>1. PICK old \in Mice :
          dir = [records |-> [m \in Mice |-> IF m = old THEN [NoRecord EXCEPT !.exists = TRUE, !.dpi = Wrapped] ELSE NoRecord],
                 migrated |-> old, backup |-> whole, library |-> EmptyLibrary]
      BY <2>3
    <3> DEFINE w == [NoRecord EXCEPT !.exists = TRUE, !.dpi = Wrapped]
               rs == [m \in Mice |-> IF m = old THEN w ELSE NoRecord]
    <3>2. w \in Record
      BY ValuesAssumption DEF NoRecord, Record
    <3>3. rs \in [Mice -> Record]
      <4> HIDE DEF w
      <4> QED BY <3>2, NoRecordTypes
    <3>4. whole \in [Sources -> {"none", "partial", "whole"}]
      OBVIOUS
    <3>5. dir = [records |-> rs, migrated |-> old, backup |-> whole, library |-> EmptyLibrary]
      BY <3>1
    <3> HIDE DEF rs, whole
    <3> QED BY <3>3, <3>4, <3>5, LibrariesAssumption DEF Directory
  <2> QED BY <2>2, <2>3 DEF Init
<1>2. /\ kept = dir /\ saver = IdleSaver /\ mover = IdleMover /\ memory = EmptyLibrary /\ pending = Unchanging
      /\ dir.library = EmptyLibrary
      /\ \A m \in Mice, l \in Lanes : acked[m][l] = NoMouse
      /\ imported = (dir.migrated # NoMouse)
  BY DEF Init
<1>7. BackedUp(dir)
  <2>1. \/ dir.migrated = NoMouse /\ \A m \in Mice : dir.records[m] = NoRecord
        \/ dir.migrated \in Mice /\ \A s \in Sources : dir.backup[s] = "whole"
    BY DEF Init
  <2>2. NoRecord.dpi # Wrapped
    BY ValuesAssumption DEF NoRecord
  <2>3. CASE dir.migrated = NoMouse
    <3>1. ~imported
      BY <1>2, <2>3
    <3>2. \A m \in Mice : dir.records[m].dpi # Wrapped
      BY <2>1, <2>2, <2>3, LibrariesAssumption
    <3> QED BY <3>1, <3>2 DEF BackedUp
  <2>4. CASE dir.migrated # NoMouse
    <3>1. imported
      BY <1>2, <2>4
    <3> QED BY <2>1, <2>4, <3>1 DEF BackedUp, Imported
  <2> QED BY <2>3, <2>4
<1>3. RecordsTypeOK
  <2>1. IdleMover \in [pc : {"idle", "applied", "factory", "import", "renamed"}, mouse : Mice \cup {NoMouse}, writing : BOOLEAN]
        /\ Unchanging \in [to : Libraries, busy : BOOLEAN]
    BY LibrariesAssumption DEF IdleMover, Unchanging
  <2>2. acked \in [Mice -> [Lanes -> Values \cup {NoMouse}]] /\ tried \in [Mice -> [Lanes -> SUBSET Values]]
    BY DEF Init
  <2>3. saves \in 0..MaxSaves /\ crashes \in 0..MaxCrashes
    BY BoundsAssumption DEF Init
  <2> QED BY <1>1, <1>2, <2>1, <2>2, <2>3, NoRecordTypes, LibrariesAssumption DEF RecordsTypeOK
<1>4. saver.pc = "idle" /\ mover.pc = "idle" /\ pending.busy = FALSE /\ saver.loaded.dpi # Wrapped
  BY <1>2, ValuesAssumption DEF IdleSaver, IdleMover, Unchanging, NoRecord
<1>5. SavedThere(dir) /\ SavedThere(kept) /\ BackedUp(dir) /\ BackedUp(kept)
  BY <1>2, <1>7 DEF SavedThere
<1>6. SaverInv /\ MoverInv /\ LibraryInv
  BY <1>2, <1>4 DEF SaverInv, MoverInv, LibraryInv
<1> QED BY <1>3, <1>5, <1>6 DEF RecordsInv

LEMMA RecordsStep == RecordsInv /\ [Next]_vars => RecordsInv'
<1> SUFFICES ASSUME RecordsInv, [Next]_vars PROVE RecordsInv'
  OBVIOUS
<1>1. CASE (\E m \in Mice, l \in Lanes, v \in Values : LoadRecord(m, l, v)) \/ SaveRecord \/ SyncRecord
  BY <1>1, LoadRecordKept, SaveRecordKept, SyncRecordKept
<1>2. CASE (\E m \in Mice : StartMigration(m)) \/ Import
  BY <1>2, StartMigrationKept, ImportKept
<1>3. CASE Backup("applied", "factory") \/ WriteBackup("applied", "factory")
  <2>1. "applied" \in Sources /\ ("applied" = "factory" <=> "factory" = "import")
    BY DEF Sources
  <2> QED BY <1>3, <2>1, BackupKept
<1>4. CASE Backup("factory", "import") \/ WriteBackup("factory", "import")
  <2>1. "factory" \in Sources /\ ("factory" = "factory" <=> "import" = "import")
    BY DEF Sources
  <2> QED BY <1>4, <2>1, BackupKept
<1>5. CASE SyncMigration \/ WriteBackName
  BY <1>5, SyncMigrationKept, WriteBackKept
<1>6. CASE (\E to \in Libraries : ChangeLibrary(to)) \/ PersistLibrary \/ ShowLibrary
  BY <1>6, LibraryKept
<1>7. CASE Crash(dir) \/ Crash(kept)
  BY <1>7, CrashKept
<1>8. CASE UNCHANGED vars
  BY <1>8 DEF vars, disk, records, library, counts, RecordsInv, RecordsTypeOK, SavedThere, BackedUp, Imported, SaverInv,
     MoverInv, LibraryInv
<1> QED BY <1>1, <1>2, <1>3, <1>4, <1>5, <1>6, <1>7, <1>8 DEF Next

\* The inductive invariant holds of every behaviour.
THEOREM RecordsInductive == Spec => []RecordsInv
BY RecordsStart, RecordsStep, PTL DEF Spec

\* The directory, the save, the migration and the library keep their types.
THEOREM RecordsTypes == Spec => []RecordsTypeOK
<1>1. RecordsInv => RecordsTypeOK
  BY DEF RecordsInv
<1> QED BY <1>1, RecordsInductive, PTL

\* A restart reads what was saved, after a kill and after a power loss.
THEOREM SavedSurvives == Spec => []RestartReadsSaved
<1>1. RecordsInv => RestartReadsSaved
  BY DEF RecordsInv, SavedThere, LibraryInv, RestartReadsSaved
<1> QED BY <1>1, RecordsInductive, PTL

\* An import is recorded with both backups made before it, and once the migration has
\* returned that it imported, record and backups survive every kill and power loss.
THEOREM ImportIsBackedUp == Spec => []BackupFirst
<1>1. RecordsInv => BackupFirst
  BY DEF RecordsInv, BackedUp, Imported, MoverInv, Sources, BackupFirst
<1> QED BY <1>1, RecordsInductive, PTL

-----------------------------------------------------------------------------
(* The state directory: a purge and everything that writes beside it         *)

\* A directory is made with the next number, whole, and no two names share one; a
\* locked lock file is there.
DirsInv ==
  /\ \A n \in Names : /\ place[n] # NoDir => place[n] <= made
                      /\ placed[n] # NoDir => placed[n] <= made
  /\ \A p \in Processes : flock[p] # NoDir => flock[p] <= made /\ content[flock[p]].lock
  /\ \A d \in Dirs : d > made => content[d].whole
  /\ Here # NoDir => Here # place["quarantine"]

\* What PurgeAll has done by each of its calls: the state it found is in quarantine
\* from its rename on, and the parent's sync precedes the removal.
PurgeInv ==
  /\ purge = "rename" => Here # NoDir /\ place["quarantine"] = NoDir /\ found = Here
  /\ purge \in {"recreate", "syncParent", "remove", "removeRest", "removeNew", "renameBack"} =>
       place["quarantine"] # NoDir /\ Here # 0 /\ found = place["quarantine"]
  /\ purge \in {"syncParent", "remove", "removeRest", "purged"} => Here # NoDir
  /\ purge \in {"remove", "removeRest"} => placed = place
  /\ purge = "removeRest" => ~content[place["quarantine"]].whole
  /\ purge = "purged" => Here # found

StateInv == StateTypeOK /\ DirsInv /\ PurgeInv /\ StateFound /\ PurgedMeansGone

LEMMA StateFacts ==
  ASSUME StateInv
  PROVE  /\ made \in Nat /\ made <= MaxDirs /\ MaxDirs \in Nat /\ NoDir \notin Nat
         /\ \A n \in Names : /\ place[n] # NoDir => place[n] \in Dirs /\ place[n] \in Nat
                             /\ placed[n] # NoDir => placed[n] \in Dirs /\ placed[n] \in Nat
         /\ "state" \in Names /\ "quarantine" \in Names /\ 0 \in Dirs
         /\ Here = place["state"]
         /\ Here # NoDir => Here \in Dirs /\ Here <= made
         /\ Current \in Content
         /\ Current = IF Here = NoDir THEN Empty ELSE content[Here]
         /\ Empty \in Content /\ Empty.whole /\ Empty.active = NoProfile /\ ~Empty.lock
<1>1. Empty \in Content /\ Empty.whole /\ Empty.active = NoProfile /\ ~Empty.lock
  BY DEF Empty, Content
<1>2. /\ made \in Nat /\ made <= MaxDirs /\ MaxDirs \in Nat /\ NoDir \notin Nat /\ 0 \in Dirs
      /\ "state" \in Names /\ "quarantine" \in Names
  BY StateDirAssumption DEF StateInv, StateTypeOK, Dirs, Names
<1>3. \A n \in Names : /\ place[n] # NoDir => place[n] \in Dirs /\ place[n] \in Nat
                       /\ placed[n] # NoDir => placed[n] \in Dirs /\ placed[n] \in Nat
  BY <1>2 DEF StateInv, StateTypeOK, Dirs
<1>4. Here # NoDir => Here \in Dirs /\ Here <= made
  BY <1>2, <1>3 DEF StateInv, DirsInv, Here
<1>5. Current \in Content
  BY <1>1, <1>4 DEF Current, StateInv, StateTypeOK
<1> QED BY <1>1, <1>2, <1>3, <1>4, <1>5 DEF Here, Current

LEMMA StateStart == StateInit => StateInv
<1> SUFFICES ASSUME StateInit PROVE StateInv
  OBVIOUS
<1>1. PICK on \in BOOLEAN :
        content = [d \in Dirs |-> IF d = 0 THEN [Empty EXCEPT !.active = Original, !.on = on, !.lock = TRUE] ELSE Empty]
  BY DEF StateInit
<1>2. Empty \in Content /\ Empty.whole
  BY DEF Empty, Content
<1> DEFINE c == [Empty EXCEPT !.active = Original, !.on = on, !.lock = TRUE]
<1>3. c \in Content /\ c.whole
  BY StateDirAssumption DEF Content, Empty
<1> HIDE DEF c
<1>4. content = [d \in Dirs |-> IF d = 0 THEN c ELSE Empty]
  BY <1>1 DEF c
<1>5. content \in [Dirs -> Content] /\ \A d \in Dirs : content[d].whole
  BY <1>2, <1>3, <1>4
<1>6. /\ place["state"] = 0 /\ place["quarantine"] = NoDir /\ placed = place /\ made = 0 /\ purge = "off" /\ found = NoDir
      /\ NoDir # 0 /\ 0 \in Dirs /\ MaxDirs \in Nat
      /\ place \in [Names -> Dirs \cup {NoDir}] /\ \A n \in Names : place[n] \in {0, NoDir}
      /\ flock \in [Processes -> Dirs \cup {NoDir}] /\ \A p \in Processes : flock[p] = NoDir
  BY StateDirAssumption DEF StateInit, Names, Dirs
<1>7. StateTypeOK
  BY <1>5, <1>6 DEF StateTypeOK, PurgeCalls
<1>8. DirsInv /\ PurgeInv
  BY <1>5, <1>6 DEF DirsInv, PurgeInv, Here, Names
<1>9. StateFound /\ PurgedMeansGone
  BY <1>5, <1>6 DEF StateFound, PurgedMeansGone, Found, Names
<1> QED BY <1>7, <1>8, <1>9 DEF StateInv

\* What may happen to the locks: one is released, or taken where a lock file is.
LocksKept ==
  /\ flock' \in [Processes -> Dirs \cup {NoDir}]
  /\ \A p \in Processes : flock'[p] \in {flock[p], NoDir} \/ (flock'[p] = Here /\ Current.lock)

\* A step that leaves the directories, and a purge where it is, at its start or given up.
LEMMA DirectoriesKept ==
  ASSUME StateInv, UNCHANGED <<place, placed, content, made, found>>, purge' \in {purge, "off", "inspect"}, LocksKept
  PROVE  StateInv'
<1>1. StateTypeOK'
  BY DEF StateInv, StateTypeOK, LocksKept, PurgeCalls
<1>2. ASSUME NEW p \in Processes, flock'[p] # NoDir
      PROVE  flock'[p] <= made /\ content[flock'[p]].lock
  <2>1. CASE flock'[p] = flock[p]
    BY <1>2, <2>1 DEF StateInv, DirsInv
  <2>2. CASE flock'[p] = Here /\ Current.lock
    BY <1>2, <2>2, StateFacts
  <2> QED BY <1>2, <2>1, <2>2 DEF LocksKept
<1>3. DirsInv'
  BY <1>2 DEF StateInv, DirsInv, Here
<1>4. PurgeInv' /\ StateFound' /\ PurgedMeansGone'
  BY DEF StateInv, PurgeInv, StateFound, PurgedMeansGone, Found, Here
<1> QED BY <1>1, <1>3, <1>4 DEF StateInv

\* A step that writes the directory, as whole as it was, or makes one.
LEMMA DirectoryWritten ==
  ASSUME StateInv, NEW new \in Content, new.whole = Current.whole, Current.lock => new.lock,
         Write(new), UNCHANGED <<placed, purge, found>>,
         flock' \in [Processes -> Dirs \cup {NoDir}],
         \A p \in Processes : flock'[p] = flock[p] \/ (flock'[p] = Here' /\ new.lock)
  PROVE  StateInv' /\ Current' = new /\ Here' # NoDir /\ (Here' = Here \/ (Here = NoDir /\ Here' = made + 1))
<1>1. /\ made \in Nat /\ made <= MaxDirs /\ MaxDirs \in Nat /\ NoDir \notin Nat /\ Names = {"state", "quarantine"}
      /\ content \in [Dirs -> Content] /\ place \in [Names -> Dirs \cup {NoDir}]
  BY StateFacts DEF StateInv, StateTypeOK, Names
<1>2. CASE Here # NoDir /\ content' = [content EXCEPT ![Here] = new] /\ UNCHANGED <<place, made>>
  <2>1. Here \in Dirs /\ content' \in [Dirs -> Content] /\ content'[Here] = new /\ Here' = Here /\ Here <= made
        /\ \A d \in Dirs : d # Here => content'[d] = content[d]
    BY <1>1, <1>2, StateFacts DEF Here
  <2>2. \A d \in Dirs : content'[d].whole = content[d].whole /\ (content[d].lock => content'[d].lock)
    BY <1>2, <2>1, StateFacts
  <2>3. StateTypeOK'
    BY <1>2, <2>1 DEF StateInv, StateTypeOK
  <2>4. ASSUME NEW p \in Processes, flock'[p] # NoDir
        PROVE  flock'[p] <= made' /\ content'[flock'[p]].lock
    <3>1. CASE flock'[p] = flock[p]
      BY <1>2, <2>2, <2>4, <3>1 DEF StateInv, DirsInv, StateTypeOK
    <3>2. CASE flock'[p] = Here' /\ new.lock
      BY <1>2, <2>1, <3>2
    <3> QED BY <3>1, <3>2
  <2>5. DirsInv'
    BY <1>2, <2>1, <2>2, <2>4 DEF StateInv, DirsInv
  <2>6. PurgeInv' /\ StateFound' /\ PurgedMeansGone'
    BY <1>1, <1>2, <2>1, <2>2, StateFacts DEF StateInv, PurgeInv, StateFound, PurgedMeansGone, Found
  <2>7. Current' = new
    BY <1>2, <2>1 DEF Current
  <2>8. StateInv'
    BY <2>3, <2>5, <2>6 DEF StateInv
  <2> QED BY <1>2, <2>1, <2>7, <2>8
<1>3. CASE /\ Here = NoDir /\ made < MaxDirs /\ made' = made + 1
           /\ place' = [place EXCEPT !["state"] = made + 1]
           /\ content' = [content EXCEPT ![made + 1] = new]
  <2>1. /\ made + 1 \in Dirs /\ made + 1 \in Nat /\ made + 1 # 0 /\ made + 1 # NoDir
        /\ content' \in [Dirs -> Content] /\ content'[made + 1] = new
        /\ \A d \in Dirs : d # made + 1 => content'[d] = content[d]
        /\ place' \in [Names -> Dirs \cup {NoDir}] /\ place'["state"] = made + 1 /\ place'["quarantine"] = place["quarantine"]
    BY <1>1, <1>3 DEF Dirs
  <2>2. new.whole
    BY <1>3, StateFacts
  <2>3. \A d \in Dirs : content'[d].whole = content[d].whole
    BY <1>1, <2>1, <2>2 DEF StateInv, DirsInv, Content
  <2>4. StateTypeOK'
    BY <1>3, <2>1 DEF StateInv, StateTypeOK
  <2>5. ASSUME NEW p \in Processes, flock'[p] # NoDir
        PROVE  flock'[p] <= made' /\ content'[flock'[p]].lock
    <3>1. CASE flock'[p] = flock[p]
      <4>1. flock[p] \in Dirs /\ flock[p] \in Nat /\ flock[p] <= made /\ content[flock[p]].lock
        BY <1>1, <2>5, <3>1 DEF StateInv, StateTypeOK, DirsInv, Dirs
      <4> QED BY <1>1, <1>3, <2>1, <3>1, <4>1
    <3>2. CASE flock'[p] = Here' /\ new.lock
      BY <1>3, <2>1, <3>2 DEF Here
    <3> QED BY <3>1, <3>2
  <2>6. DirsInv'
    <3>1. \A n \in Names : (place'[n] # NoDir => place'[n] <= made') /\ (placed'[n] # NoDir => placed'[n] <= made')
      BY <1>1, <1>3, <2>1, StateFacts DEF StateInv, DirsInv
    <3>2. \A d \in Dirs : d > made' => content'[d].whole
      BY <1>1, <1>3, <2>3 DEF StateInv, DirsInv, Dirs
    <3>3. place'["state"] # place'["quarantine"]
      BY <1>1, <2>1, StateFacts DEF StateInv, DirsInv
    <3> QED BY <2>5, <3>1, <3>2, <3>3 DEF DirsInv, Here
  <2>7. PurgeInv'
    BY <1>3, <2>1, <2>3, StateFacts DEF StateInv, PurgeInv, Here, StateTypeOK
  <2>8. StateFound'
    BY <1>1, <1>3, <2>1, <2>2, <2>3, StateFacts DEF StateInv, StateFound, Found
  <2>9. PurgedMeansGone'
    BY <1>3, <2>1 DEF StateInv, PurgedMeansGone, Here
  <2>10. Current' = new /\ Here' = made + 1
    BY <2>1 DEF Current, Here
  <2> QED BY <1>3, <2>1, <2>4, <2>6, <2>7, <2>8, <2>9, <2>10 DEF StateInv
<1> QED BY <1>2, <1>3 DEF Write

\* PurgeAll step by step.  What it puts in the state's place is a new directory, or
\* by the rename back the old one.
LEMMA DirectoryMade ==
  ASSUME StateInv, Here = NoDir, made < MaxDirs, made' = made + 1,
         place' = [place EXCEPT !["state"] = made + 1], UNCHANGED <<placed, content, flock>>,
         purge' \notin {"removeRest", "purged"}
  PROVE  /\ DirsInv' /\ StateFound' /\ place' \in [Names -> Dirs \cup {NoDir}] /\ made' \in Dirs
         /\ Here' = made + 1 /\ Here' # NoDir /\ Here' # 0 /\ place'["quarantine"] = place["quarantine"]
<1>1. /\ made \in Nat /\ made <= MaxDirs /\ MaxDirs \in Nat /\ NoDir \notin Nat /\ Names = {"state", "quarantine"}
      /\ place \in [Names -> Dirs \cup {NoDir}]
  BY StateFacts DEF StateInv, StateTypeOK, Names
<1>2. /\ made + 1 \in Dirs /\ made + 1 \in Nat /\ made + 1 # 0 /\ made + 1 # NoDir
      /\ place' \in [Names -> Dirs \cup {NoDir}] /\ place'["state"] = made + 1 /\ place'["quarantine"] = place["quarantine"]
  BY <1>1 DEF Dirs
<1>3. \A n \in Names : (place'[n] # NoDir => place'[n] <= made') /\ (placed'[n] # NoDir => placed'[n] <= made')
  BY <1>1, <1>2, StateFacts DEF StateInv, DirsInv
<1>4. \A d \in Dirs : d > made' => content'[d].whole
  BY <1>1 DEF StateInv, DirsInv, Dirs
<1>5. \A p \in Processes : flock'[p] # NoDir => flock'[p] <= made' /\ content'[flock'[p]].lock
  <2> SUFFICES ASSUME NEW p \in Processes, flock[p] # NoDir PROVE flock[p] <= made + 1 /\ content[flock[p]].lock
    OBVIOUS
  <2>1. flock[p] \in Nat /\ flock[p] <= made /\ content[flock[p]].lock
    BY <1>1 DEF StateInv, StateTypeOK, DirsInv, Dirs
  <2> QED BY <1>1, <2>1
<1>6. DirsInv'
  <2>1. place'["state"] # place'["quarantine"]
    BY <1>1, <1>2, StateFacts DEF StateInv, DirsInv
  <2> QED BY <1>3, <1>4, <1>5, <2>1 DEF DirsInv, Here
<1>7. StateFound'
  <2>1. content[made + 1].whole
    BY <1>1, <1>2 DEF StateInv, DirsInv
  <2> QED BY <1>1, <1>2, <2>1, StateFacts DEF StateInv, StateFound, Found
<1> QED BY <1>2, <1>6, <1>7 DEF Here

\* A removal takes contents and locks away, and leaves the names.
LEMMA RemovedKeeps ==
  ASSUME StateInv, NEW d \in Dirs, Removed(d), d <= made, UNCHANGED <<place, placed, made>>
  PROVE  /\ DirsInv' /\ content' \in [Dirs -> Content] /\ ~content'[d].whole
         /\ \A e \in Dirs : e # d => content'[e] = content[e]
         /\ flock' \in [Processes -> Dirs \cup {NoDir}]
         /\ \A p \in Processes : flock'[p] \in {flock[p], NoDir}
<1>1. /\ made \in Nat /\ NoDir \notin Nat /\ content \in [Dirs -> Content]
      /\ flock \in [Processes -> Dirs \cup {NoDir}] /\ \A e \in Dirs : e \in Nat
  BY StateFacts DEF StateInv, StateTypeOK, Dirs
<1>2. PICK lock \in {FALSE, content[d].lock}, on \in {FALSE, content[d].on}, active \in {NoProfile, content[d].active} :
        /\ content' = [content EXCEPT ![d] = [whole |-> FALSE, lock |-> lock, on |-> on, active |-> active]]
        /\ flock' = [p \in Processes |-> IF flock[p] = d /\ ~lock THEN NoDir ELSE flock[p]]
  BY DEF Removed
<1> DEFINE rest == [whole |-> FALSE, lock |-> lock, on |-> on, active |-> active]
<1>3. rest \in Content /\ ~rest.whole /\ rest.lock = lock
  BY <1>1 DEF Content
<1> HIDE DEF rest
<1>4. content' = [content EXCEPT ![d] = rest]
  BY <1>2 DEF rest
<1>5. /\ content' \in [Dirs -> Content] /\ content'[d] = rest
      /\ \A e \in Dirs : e # d => content'[e] = content[e]
  BY <1>1, <1>3, <1>4
<1>6. /\ flock' \in [Processes -> Dirs \cup {NoDir}]
      /\ \A p \in Processes : flock'[p] \in {flock[p], NoDir}
  BY <1>1, <1>2
<1>7. ASSUME NEW p \in Processes, flock'[p] # NoDir
      PROVE  flock'[p] <= made /\ content'[flock'[p]].lock
  <2>1. flock'[p] = flock[p] /\ flock[p] \in Dirs /\ flock[p] <= made /\ content[flock[p]].lock
    BY <1>1, <1>2, <1>7 DEF StateInv, DirsInv
  <2>2. flock[p] = d => lock
    BY <1>2, <1>7
  <2> QED BY <1>3, <1>5, <2>1, <2>2
<1>8. \A e \in Dirs : e > made => content'[e].whole
  BY <1>1, <1>5 DEF StateInv, DirsInv
<1>9. DirsInv'
  BY <1>7, <1>8 DEF StateInv, DirsInv, Here
<1> QED BY <1>3, <1>5, <1>6, <1>9

LEMMA PurgeKeeps ==
  ASSUME StateInv, PurgeAll
  PROVE  /\ StateInv' /\ flock'[App] \in {flock[App], NoDir}
         /\ Here' = NoDir \/ Here' = Here \/ (Here' = made + 1) \/ purge = "renameBack"
<1>1. /\ made \in Nat /\ made <= MaxDirs /\ MaxDirs \in Nat /\ NoDir \notin Nat /\ Names = {"state", "quarantine"}
      /\ content \in [Dirs -> Content] /\ place \in [Names -> Dirs \cup {NoDir}] /\ 0 \in Dirs
  BY StateFacts DEF StateInv, StateTypeOK, Names
<1>2. CASE PurgeInspect
  <2>1. CASE Here = NoDir /\ made < MaxDirs /\ made' = made + 1 /\ place' = [place EXCEPT !["state"] = made + 1] /\ purge' = "absent"
    <3>1. /\ DirsInv' /\ StateFound' /\ place' \in [Names -> Dirs \cup {NoDir}] /\ made' \in Dirs
          /\ Here' = made + 1
      BY <1>2, <2>1, DirectoryMade DEF PurgeInspect
    <3>2. StateTypeOK' /\ PurgeInv' /\ PurgedMeansGone'
      BY <1>2, <2>1, <3>1 DEF PurgeInspect, StateInv, StateTypeOK, PurgeInv, PurgedMeansGone
    <3> QED BY <1>2, <3>1, <3>2 DEF PurgeInspect, StateInv
  <2>2. CASE /\ Here # NoDir /\ UNCHANGED <<made, place>>
             /\ \/ place["quarantine"] = NoDir /\ purge' = "rename" /\ found' = Here
                \/ purge' = "failed" /\ found' = NoDir
    <3>1. StateTypeOK'
      BY <1>2, <2>2, StateFacts DEF PurgeInspect, StateInv, StateTypeOK, PurgeCalls
    <3>2. PurgeInv' /\ DirsInv' /\ StateFound' /\ PurgedMeansGone' /\ Here' = Here
      BY <1>2, <2>2 DEF PurgeInspect, StateInv, PurgeInv, DirsInv, StateFound, Found, PurgedMeansGone, Here
    <3> QED BY <1>2, <3>1, <3>2 DEF PurgeInspect, StateInv
  <2> QED BY <1>2, <2>1, <2>2 DEF PurgeInspect
<1>3. CASE Quarantine
  <2>1. /\ Here # NoDir /\ Here \in Dirs /\ Here <= made /\ place["quarantine"] = NoDir
        /\ place' \in [Names -> Dirs \cup {NoDir}] /\ place'["state"] = NoDir /\ place'["quarantine"] = Here
        /\ found = Here /\ Here' = NoDir /\ purge' = "recreate" /\ UNCHANGED <<placed, content, made, flock, found>>
    BY <1>1, <1>3, StateFacts DEF Quarantine, StateInv, PurgeInv, Here
  <2>2. StateTypeOK'
    BY <2>1 DEF StateInv, StateTypeOK, PurgeCalls
  <2>3. DirsInv'
    BY <1>1, <2>1 DEF StateInv, DirsInv
  <2>4. PurgeInv' /\ PurgedMeansGone'
    BY <1>1, <2>1 DEF StateInv, PurgeInv, PurgedMeansGone, StateFound, Here
  <2>5. StateFound'
    <3>1. content'[0].whole => \E n \in Names : place'[n] = 0
      BY <1>1, <2>1 DEF StateInv, StateFound, Found, Here
    <3>2. content'[0].whole => Found(placed, 0)'
      BY <2>1 DEF StateInv, StateFound, Found
    <3> QED BY <2>1, <3>1, <3>2 DEF StateInv, StateFound, Found
  <2> QED BY <2>1, <2>2, <2>3, <2>4, <2>5 DEF StateInv
<1>4. CASE Recreate
  <2>1. /\ DirsInv' /\ StateFound' /\ place' \in [Names -> Dirs \cup {NoDir}] /\ made' \in Dirs
        /\ Here' = made + 1 /\ Here' # NoDir /\ Here' # 0 /\ place'["quarantine"] = place["quarantine"]
    BY <1>4, DirectoryMade DEF Recreate
  <2>2. StateTypeOK' /\ PurgeInv' /\ PurgedMeansGone'
    BY <1>4, <2>1 DEF Recreate, StateInv, StateTypeOK, PurgeInv, PurgedMeansGone, PurgeCalls
  <2> QED BY <1>4, <2>1, <2>2 DEF Recreate, StateInv
<1>5. CASE SyncParent
  <2>1. StateTypeOK'
    BY <1>5 DEF SyncParent, StateInv, StateTypeOK, PurgeCalls
  <2>2. DirsInv' /\ PurgedMeansGone' /\ Here' = Here /\ PurgeInv' /\ StateFound'
    BY <1>5 DEF SyncParent, StateInv, DirsInv, PurgedMeansGone, Here, PurgeInv, StateFound, Found
  <2> QED BY <1>5, <2>1, <2>2 DEF SyncParent, StateInv
<1>6. CASE RemoveSome
  <2> DEFINE q == place["quarantine"]
  <2>1. /\ q \in Dirs /\ q <= made /\ q # Here /\ Here # 0 /\ Here # NoDir /\ placed = place /\ Here = place["state"]
        /\ found = q /\ q # NoDir
    BY <1>1, <1>6, StateFacts DEF RemoveSome, StateInv, PurgeInv, DirsInv
  <2>2. Removed(q) /\ purge' = "removeRest" /\ UNCHANGED <<place, placed, made, found>> /\ Here' = Here
    BY <1>6 DEF RemoveSome, Here
  <2>3. q' = q
    BY <2>2
  <2> HIDE DEF q
  <2>4. /\ DirsInv' /\ content' \in [Dirs -> Content] /\ ~content'[q].whole
        /\ \A e \in Dirs : e # q => content'[e] = content[e]
        /\ flock' \in [Processes -> Dirs \cup {NoDir}]
        /\ \A p \in Processes : flock'[p] \in {flock[p], NoDir}
    BY <2>1, <2>2, RemovedKeeps
  <2>5. StateTypeOK'
    BY <2>2, <2>4 DEF StateInv, StateTypeOK, PurgeCalls
  <2>6. PurgeInv' /\ PurgedMeansGone'
    BY <2>1, <2>2, <2>3, <2>4 DEF PurgeInv, PurgedMeansGone, Here, q
  <2>7. StateFound'
    <3>1. content'[0].whole => content[0].whole
      BY <1>1, <2>1, <2>4
    <3> QED BY <2>1, <2>2, <3>1 DEF StateInv, StateFound, Found, Here
  <2> QED BY <2>2, <2>4, <2>5, <2>6, <2>7, LaunchAssumption DEF StateInv
<1>7. CASE RemoveRest
  <2>1. /\ place' \in [Names -> Dirs \cup {NoDir}] /\ place'["state"] = place["state"] /\ place'["quarantine"] = NoDir
        /\ Here' = Here /\ Here # 0 /\ Here # NoDir /\ place["quarantine"] # NoDir /\ place["quarantine"] \in Dirs
        /\ purge = "removeRest" /\ purge' = "purged" /\ UNCHANGED <<placed, content, made, flock, found>>
        /\ ~content[place["quarantine"]].whole /\ placed = place
        /\ found = place["quarantine"] /\ Here # place["quarantine"]
    BY <1>1, <1>7, StateFacts DEF RemoveRest, StateInv, PurgeInv, DirsInv, Here
  <2>2. StateTypeOK'
    BY <2>1 DEF StateInv, StateTypeOK
  <2>3. DirsInv' /\ PurgeInv' /\ PurgedMeansGone'
    BY <1>1, <2>1 DEF StateInv, DirsInv, PurgeInv, PurgedMeansGone, Here
  <2>4. StateFound'
    BY <1>1, <2>1 DEF StateInv, StateFound, Found, Here
  <2> QED BY <2>1, <2>2, <2>3, <2>4 DEF StateInv
<1>8. CASE PurgeFails
  <2>1. StateTypeOK'
    BY <1>8 DEF PurgeFails, StateInv, StateTypeOK, PurgeCalls
  <2>2. DirsInv' /\ StateFound' /\ Here' = Here /\ flock' = flock
    BY <1>8 DEF PurgeFails, StateInv, DirsInv, StateFound, Found, Here
  <2>3. PurgeInv' /\ PurgedMeansGone'
    BY <1>8 DEF PurgeFails, StateInv, PurgeInv, PurgedMeansGone, PurgeCalls, Here
  <2> QED BY <2>1, <2>2, <2>3 DEF StateInv
<1>9. CASE RemoveNew
  <2>1. /\ place' \in [Names -> Dirs \cup {NoDir}] /\ place'["state"] = NoDir /\ place'["quarantine"] = place["quarantine"]
        /\ Here' = NoDir /\ Here # 0 /\ purge = "removeNew" /\ purge' = "renameBack"
        /\ UNCHANGED <<placed, content, made, flock, found>>
    BY <1>1, <1>9, StateFacts DEF RemoveNew, StateInv, PurgeInv, Here
  <2>2. StateTypeOK'
    BY <2>1 DEF StateInv, StateTypeOK, PurgeCalls
  <2>3. DirsInv' /\ PurgeInv' /\ PurgedMeansGone'
    BY <1>1, <2>1, StateFacts DEF StateInv, DirsInv, PurgeInv, PurgedMeansGone
  <2>4. StateFound'
    BY <1>1, <2>1 DEF StateInv, StateFound, Found, Here
  <2> QED BY <2>1, <2>2, <2>3, <2>4 DEF StateInv
<1>10. CASE RenameBack
  <2>1. /\ place' \in [Names -> Dirs \cup {NoDir}] /\ place'["state"] = place["quarantine"] /\ place'["quarantine"] = NoDir
        /\ Here' = place["quarantine"] /\ place["quarantine"] # NoDir /\ Here = NoDir
        /\ purge = "renameBack" /\ purge' = "failed" /\ UNCHANGED <<placed, content, made, flock, found>>
    BY <1>1, <1>10 DEF RenameBack, StateInv, PurgeInv, Here
  <2>2. StateTypeOK'
    BY <2>1 DEF StateInv, StateTypeOK
  <2>3. DirsInv' /\ PurgeInv' /\ PurgedMeansGone'
    BY <1>1, <2>1, StateFacts DEF StateInv, DirsInv, PurgeInv, PurgedMeansGone
  <2>4. StateFound'
    BY <1>1, <2>1 DEF StateInv, StateFound, Found, Here
  <2> QED BY <2>1, <2>2, <2>3, <2>4 DEF StateInv
<1>11. CASE RemoveNewSome
  <2>1. /\ Here \in Dirs /\ Here <= made /\ Here # 0 /\ Removed(Here) /\ purge = "removeNew"
        /\ UNCHANGED <<place, placed, made, purge, found>> /\ Here' = Here
    BY <1>1, <1>11, StateFacts DEF RemoveNewSome, StateInv, PurgeInv, Here
  <2>2. /\ DirsInv' /\ content' \in [Dirs -> Content]
        /\ \A e \in Dirs : e # Here => content'[e] = content[e]
        /\ flock' \in [Processes -> Dirs \cup {NoDir}]
        /\ \A p \in Processes : flock'[p] \in {flock[p], NoDir}
    BY <2>1, RemovedKeeps
  <2>3. StateTypeOK' /\ PurgeInv' /\ PurgedMeansGone'
    BY <2>1, <2>2 DEF StateInv, StateTypeOK, PurgeInv, PurgedMeansGone
  <2>4. StateFound'
    BY <1>1, <2>1, <2>2 DEF StateInv, StateFound, Found
  <2> QED BY <2>1, <2>2, <2>3, <2>4, LaunchAssumption DEF StateInv
<1>12. flock' = flock => flock'[App] \in {flock[App], NoDir}
  OBVIOUS
<1> QED BY <1>2, <1>3, <1>4, <1>5, <1>6, <1>7, <1>8, <1>9, <1>10, <1>11, <1>12
        DEF PurgeAll, PurgeInspect, Quarantine, Recreate, SyncParent, RemoveRest, PurgeFails, RemoveNew, RenameBack

LEMMA NamesWritten ==
  ASSUME StateInv, WriteNames
  PROVE  StateInv' /\ Here' = Here /\ Current' = Current
<1>1. StateTypeOK'
  BY DEF WriteNames, StateInv, StateTypeOK
<1>2. DirsInv' /\ PurgeInv' /\ StateFound' /\ PurgedMeansGone' /\ Here' = Here
  BY DEF WriteNames, StateInv, DirsInv, PurgeInv, StateFound, PurgedMeansGone, Found, Here
<1>3. Current' = Current
  BY <1>2 DEF WriteNames, Current
<1> QED BY <1>1, <1>2, <1>3 DEF StateInv

-----------------------------------------------------------------------------
(* Types of GameLaunch, and the state directory under every step of it       *)

\* The watcher asks for a rule's profile only with a game in mind.
LaunchInv ==
  /\ StateInv /\ LaunchTypeOK
  /\ watch.step \in {"match", "take", "move"} => watch.next \in Games

LEMMA LaunchFacts ==
  ASSUME LaunchInv
  PROVE  /\ StateInv /\ call \in [Processes -> Calls] /\ seen \in History /\ watch \in Watch
         /\ \A p \in Processes : call[p] \in Calls /\ call[p].id \in Ids
         /\ App \in Processes /\ \A w \in Wrappers : w \in Processes /\ w # App
         /\ Profiles \subseteq Ids /\ Defaults \in Ids /\ NoProfile \in Ids /\ Original \in Ids
         /\ Current \in Content /\ Current.active \in Ids /\ NoProfile \notin Profiles /\ Defaults # NoProfile
         /\ flock \in [Processes -> Dirs \cup {NoDir}]
BY LaunchAssumption, StateDirAssumption, StateFacts
   DEF LaunchInv, LaunchTypeOK, Ids, Content, Calls, StateInv, StateTypeOK

LEMMA CallsTyped ==
  ASSUME LaunchInv, NEW p \in Processes
  PROVE  /\ \A code \in {"ok", "apply_failed", "other"} : Done(p, code) => call' \in [Processes -> Calls]
         /\ \A step \in {"none", "begun", "writing", "written", "done"} : At(p, step) => call' \in [Processes -> Calls]
         /\ \A id \in Ids : Begin(p, id) => call' \in [Processes -> Calls]
         /\ call' = [call EXCEPT ![p] = Idle] => call' \in [Processes -> Calls]
<1>1. \A code \in {"ok", "apply_failed", "other"} : Done(p, code) => call' \in [Processes -> Calls]
  <2>1. call \in [Processes -> Calls] /\ call[p] \in Calls
    BY LaunchFacts
  <2> SUFFICES ASSUME NEW code \in {"ok", "apply_failed", "other"}, Done(p, code)
               PROVE  call' \in [Processes -> Calls]
    OBVIOUS
  <2>2. call' = [call EXCEPT ![p] = [call[p] EXCEPT !.at = "done", !.code = code]]
    BY <2>1 DEF Done
  <2>3. [call[p] EXCEPT !.at = "done", !.code = code] \in Calls
    BY <2>1 DEF Calls
  <2> QED BY <2>1, <2>2, <2>3
<1>2. \A step \in {"none", "begun", "writing", "written", "done"} : At(p, step) => call' \in [Processes -> Calls]
  <2>1. call \in [Processes -> Calls] /\ call[p] \in Calls
    BY LaunchFacts
  <2> QED BY <2>1 DEF Calls, At
<1>3. \A id \in Ids : Begin(p, id) => call' \in [Processes -> Calls]
  <2>1. call \in [Processes -> Calls]
    BY LaunchFacts
  <2> QED BY <2>1 DEF Calls, Begin
<1>4. call' = [call EXCEPT ![p] = Idle] => call' \in [Processes -> Calls]
  <2>1. Idle \in Calls
    BY LaunchFacts DEF Calls, Idle, Ids
  <2> QED BY <2>1, LaunchFacts
<1> QED BY <1>1, <1>2, <1>3, <1>4

\* GetProfiles: the pointer is what it was, or a first start has made one.
LEMMA ProfilesRead ==
  ASSUME StateInv, NEW result, GetProfiles(result)
  PROVE  /\ StateInv' /\ UNCHANGED <<placed, flock, purge, found>>
         /\ Here' = Here \/ Here' = made + 1
         /\ Current' = Current \/ (Current.active = NoProfile /\ Current'.active = Defaults)
         /\ result # NoProfile => result = Current'.active
<1>1. CASE UNCHANGED stateVars /\ (result = Current.active \/ result = NoProfile)
  <2>1. LocksKept
    BY <1>1 DEF LocksKept, StateInv, StateTypeOK, stateVars
  <2>2. StateInv'
    BY <1>1, <2>1, DirectoriesKept DEF stateVars
  <2>3. Current' = Current /\ Here' = Here
    BY <1>1 DEF Current, Here, stateVars
  <2> QED BY <1>1, <2>2, <2>3 DEF stateVars
<1>2. CASE /\ Current.active = NoProfile /\ result = Defaults
           /\ Write([Current EXCEPT !.active = Defaults]) /\ UNCHANGED <<placed, flock, purge, found>>
  <2> DEFINE new == [Current EXCEPT !.active = Defaults]
  <2>1. new \in Content /\ new.whole = Current.whole /\ (Current.lock => new.lock) /\ new.active = Defaults
    BY StateFacts DEF Content
  <2> HIDE DEF new
  <2>2. Write(new)
    BY <1>2 DEF new
  <2>3. flock' \in [Processes -> Dirs \cup {NoDir}] /\ \A p \in Processes : flock'[p] = flock[p] \/ (flock'[p] = Here' /\ new.lock)
    BY <1>2 DEF StateInv, StateTypeOK
  <2>4. StateInv' /\ Current' = new /\ Here' # NoDir /\ (Here' = Here \/ (Here = NoDir /\ Here' = made + 1))
    BY <1>2, <2>1, <2>2, <2>3, DirectoryWritten
  <2> QED BY <1>2, <2>1, <2>4
<1> QED BY <1>1, <1>2 DEF GetProfiles

\* A program writes the file and holds the locks it held.
LEMMA FileWritten ==
  ASSUME StateInv, NEW new \in Content, new.whole = Current.whole, Current.lock => new.lock,
         Write(new), UNCHANGED <<placed, flock, purge, found>>
  PROVE  StateInv' /\ Current' = new /\ (Here' = Here \/ Here' = made + 1)
<1>1. flock' \in [Processes -> Dirs \cup {NoDir}] /\ \A p \in Processes : flock'[p] = flock[p] \/ (flock'[p] = Here' /\ new.lock)
  BY DEF StateInv, StateTypeOK
<1> QED BY <1>1, DirectoryWritten

LEMMA NothingWritten ==
  ASSUME StateInv, UNCHANGED <<place, placed, content, made, found>>, purge' \in {purge, "off", "inspect"}, LocksKept
  PROVE  StateInv' /\ Current' = Current /\ Here' = Here
<1>1. Current' = Current /\ Here' = Here
  BY DEF Current, Here
<1> QED BY <1>1, DirectoriesKept

LEMMA AllKept ==
  ASSUME StateInv, UNCHANGED stateVars
  PROVE  StateInv' /\ Current' = Current /\ Here' = Here
<1>1. LocksKept /\ purge' = purge /\ UNCHANGED <<place, placed, content, made, found>>
  BY DEF LocksKept, StateInv, StateTypeOK, stateVars
<1> QED BY <1>1, NothingWritten

LEMMA LaunchStart == LaunchInit => LaunchInv
<1> SUFFICES ASSUME LaunchInit PROVE LaunchInv
  OBVIOUS
<1>1. StateInv
  BY StateStart DEF LaunchInit
<1>2. App \in Processes /\ Original \in Ids /\ NoProfile \in Ids /\ 0 \in 0..MaxTries
  BY LaunchAssumption, StateDirAssumption DEF Ids
<1>3. call \in [Processes -> Calls]
  BY <1>2 DEF LaunchInit, Calls, Idle
<1>4. watch \in Watch /\ watch.step = "idle"
  BY <1>2 DEF LaunchInit, Watch, Resting
<1>5. seen \in History
  BY <1>2 DEF LaunchInit, History
<1>6. pc \in [Wrappers -> WrapperSteps] /\ spent \in [{"user", "games", "opens", "resets"} -> Nat]
  BY DEF LaunchInit, WrapperSteps
<1>7. LaunchTypeOK
  BY <1>1, <1>2, <1>3, <1>4, <1>5, <1>6 DEF LaunchInit, LaunchTypeOK, StateInv
<1> QED BY <1>1, <1>4, <1>7 DEF LaunchInv

\* What Switching does to the state directory.
LEMMA SwitchingWrites ==
  ASSUME LaunchInv, NEW p \in Processes, Switching(p)
  PROVE  StateInv' /\ flock' = flock /\ (Here' = Here \/ Here' = made + 1)
<1> USE LaunchFacts
<1>1. CASE SwitchRefused(p)
  BY <1>1, ProfilesRead DEF SwitchRefused
<1>2. CASE SwitchWrites(p) \/ SwitchBreaks(p) \/ SwitchWritten(p)
  <2>1. UNCHANGED stateVars
    BY <1>2 DEF SwitchWrites, SwitchBreaks, SwitchWritten
  <2> QED BY <2>1, AllKept DEF stateVars
<1>3. CASE SwitchSaves(p)
  <2> DEFINE new == [Current EXCEPT !.active = call[p].id]
  <2>1. new \in Content /\ new.whole = Current.whole /\ new.lock = Current.lock
    BY DEF Content, Ids
  <2> HIDE DEF new
  <2>2. Write(new) /\ UNCHANGED <<placed, flock, purge, found>>
    BY <1>3 DEF SwitchSaves, new
  <2> QED BY <2>1, <2>2, FileWritten
<1>4. CASE SwitchUnsaved(p)
  <2>1. CASE UNCHANGED <<place, content, made>>
    <3>1. UNCHANGED stateVars
      BY <1>4, <2>1 DEF SwitchUnsaved, stateVars
    <3> QED BY <3>1, AllKept DEF stateVars
  <2>2. CASE Here = NoDir /\ Write(Empty)
    <3>1. Empty \in Content /\ Empty.whole = Current.whole /\ (Current.lock => Empty.lock)
      BY <2>2, StateFacts
    <3> QED BY <1>4, <2>2, <3>1, FileWritten DEF SwitchUnsaved
  <2> QED BY <1>4, <2>1, <2>2 DEF SwitchUnsaved
<1> QED BY <1>1, <1>2, <1>3, <1>4 DEF Switching

LEMMA SwitchingKeeps ==
  ASSUME LaunchInv, NEW p \in Processes, Switching(p)
  PROVE  LaunchInv'
<1> USE LaunchFacts
<1>1. StateInv'
  BY SwitchingWrites
<1>2. call' \in [Processes -> Calls]
  BY CallsTyped DEF Switching, SwitchRefused, SwitchWrites, SwitchBreaks, SwitchWritten, SwitchSaves, SwitchUnsaved
<1>3. mouse' \in Ids \cup {Mixture}
  BY DEF LaunchInv, LaunchTypeOK, Switching, SwitchRefused, SwitchWrites, SwitchBreaks, SwitchWritten, SwitchSaves, SwitchUnsaved
<1>4. seen' \in History
  <2>1. Touched(p) \in [Wrappers -> BOOLEAN]
    BY DEF Touched
  <2>2. \A code \in {"ok", "other"}, id \in Ids :
          [seen EXCEPT !.alone = Touched(p), !.chosen = IF p = App THEN @ ELSE id,
                       !.slipped = @ \/ code # "ok" \/ (p # App /\ Unseen(id))] \in History
    BY <2>1 DEF History
  <2>3. [seen EXCEPT !.alone = Touched(p)] \in History
    BY <2>1 DEF History
  <2>4. CASE SwitchSaves(p)
    <3>1. PICK code \in {"ok", "other"} :
            seen' = [seen EXCEPT !.alone = Touched(p), !.chosen = IF p = App THEN @ ELSE call[p].id,
                                 !.slipped = @ \/ code # "ok" \/ (p # App /\ Unseen(call[p].id))]
      BY <2>4 DEF SwitchSaves
    <3> QED BY <2>2, <3>1
  <2> QED BY <2>3, <2>4 DEF Switching, SwitchRefused, SwitchWrites, SwitchBreaks, SwitchWritten, SwitchUnsaved
<1> QED BY <1>1, <1>2, <1>3, <1>4 DEF LaunchInv, LaunchTypeOK, StateInv, Switching

\* IsHeld and its release touch no file, and no lock but the launch's own.
LEMMA ProbeKeeps ==
  ASSUME LaunchInv, NEW w \in Wrappers, NEW free \in WrapperSteps, NEW otherwise \in WrapperSteps,
         Probe(w, free, otherwise)
  PROVE  /\ StateInv' /\ Current' = Current /\ Here' = Here /\ flock'[App] = flock[App]
         /\ seen' \in History /\ pc' \in [Wrappers -> WrapperSteps]
         /\ seen' = [seen EXCEPT !.met[w] = FALSE] \/ seen' = [seen EXCEPT !.quiet[w] = FALSE]
<1> USE LaunchFacts
<1>1. pc \in [Wrappers -> WrapperSteps]
  BY DEF LaunchInv, LaunchTypeOK
<1>2. [seen EXCEPT !.met[w] = FALSE] \in History /\ [seen EXCEPT !.quiet[w] = FALSE] \in History
  BY DEF History
<1>3. CASE /\ flock' = [flock EXCEPT ![w] = IF Current.lock THEN Here ELSE NoDir]
           /\ Goto(w, free) /\ seen' = [seen EXCEPT !.met[w] = FALSE]
           /\ UNCHANGED <<place, placed, content, made, purge, found>>
  <2>1. Current.lock => Here # NoDir /\ Here \in Dirs
    BY StateFacts
  <2>2. LocksKept /\ flock'[App] = flock[App]
    BY <1>3, <2>1 DEF LocksKept
  <2> QED BY <1>1, <1>2, <1>3, <2>2, NothingWritten DEF Goto
<1>4. CASE Goto(w, otherwise) /\ Warn(w) /\ UNCHANGED stateVars
  BY <1>1, <1>2, <1>4, AllKept DEF Goto, Warn, stateVars
<1> QED BY <1>3, <1>4 DEF Probe

LEMMA Released ==
  ASSUME LaunchInv, NEW p \in Processes, Release(p), UNCHANGED <<place, placed, content, made, found>>,
         purge' \in {purge, "off"}
  PROVE  /\ StateInv' /\ Current' = Current /\ Here' = Here
         /\ \A q \in Processes : q # p => flock'[q] = flock[q]
<1>1. LocksKept /\ \A q \in Processes : q # p => flock'[q] = flock[q]
  BY LaunchFacts DEF LocksKept, Release
<1> QED BY <1>1, NothingWritten DEF LaunchInv

LEMMA WrapperWrites ==
  ASSUME LaunchInv, NEW w \in Wrappers, Wrapper(w)
  PROVE  /\ StateInv' /\ flock'[App] = flock[App] /\ (Here' = Here \/ Here' = made + 1)
         /\ Current' = Current \/ (Current.active = NoProfile /\ pc[w] = "prepare")
<1> USE LaunchFacts
<1>1. CASE UNCHANGED stateVars
  BY <1>1, AllKept DEF stateVars
<1>2. CASE FirstProbe(w) \/ Reprobe(w)
  <2>1. \A step \in {"probed", "ready", "reprobed", "ended"} : step \in WrapperSteps
    BY DEF WrapperSteps
  <2> QED BY <1>2, <2>1, ProbeKeeps DEF FirstProbe, Reprobe
<1>3. CASE ProbeDone(w) \/ BeginRestore(w)
  BY <1>3, Released DEF ProbeDone, BeginRestore
<1>4. CASE Prepare(w)
  <2>1. PICK result \in Ids : GetProfiles(result)
    BY <1>4 DEF Prepare
  <2> QED BY <1>4, <2>1, ProfilesRead DEF Prepare
<1> QED BY <1>1, <1>2, <1>3, <1>4
        DEF Wrapper, WrapperMoves, WrapperStarts, BeginSwitch, SwitchReturns, SwitchTimesOut, RunCommand,
            AbortLaunch, CommandEnds, AwaitSwitch, RestoreReturns, RestoreTimesOut, Signal

LEMMA WrapperKeeps ==
  ASSUME LaunchInv, NEW w \in Wrappers, Wrapper(w)
  PROVE  LaunchInv'
<1> USE LaunchFacts
<1>1. StateInv'
  BY WrapperWrites
<1>2. /\ pc \in [Wrappers -> WrapperSteps] /\ signalled \in [Wrappers -> BOOLEAN]
      /\ previous \in [Wrappers -> Ids] /\ Ref[w] \in Ids /\ previous[w] \in Ids
  BY LaunchAssumption DEF LaunchInv, LaunchTypeOK
<1>3. /\ [seen EXCEPT !.met[w] = FALSE] \in History /\ [seen EXCEPT !.quiet[w] = FALSE] \in History
      /\ \A code \in {"ok", "apply_failed", "other"} :
           /\ [seen EXCEPT !.quiet[w] = @ /\ code = "ok"] \in History
           /\ [seen EXCEPT !.quiet[w] = @ /\ code # "other"] \in History
      /\ \A id \in Ids, b \in BOOLEAN : [seen EXCEPT !.before[w] = id, !.alone[w] = b] \in History
  BY DEF History
<1>4. \A step \in WrapperSteps : Goto(w, step) => pc' \in [Wrappers -> WrapperSteps]
  BY <1>2 DEF Goto
<1>5. \A step \in {"start", "probe", "probed", "prepare", "resolved", "switch", "ready", "command",
                   "wait", "reprobe", "reprobed", "restoring", "ended"} : step \in WrapperSteps
  BY DEF WrapperSteps
<1> DEFINE Typed == /\ pc' \in [Wrappers -> WrapperSteps] /\ signalled' \in [Wrappers -> BOOLEAN]
                    /\ previous' \in [Wrappers -> Ids] /\ call' \in [Processes -> Calls] /\ seen' \in History
<1> SUFFICES Typed
  BY <1>1 DEF LaunchInv, LaunchTypeOK, StateInv, Wrapper
<1>6. CASE FirstProbe(w) \/ Reprobe(w)
  <2>1. seen' \in History /\ pc' \in [Wrappers -> WrapperSteps]
    BY <1>5, <1>6, ProbeKeeps DEF FirstProbe, Reprobe
  <2> QED BY <1>2, <1>6, <2>1 DEF FirstProbe, Reprobe
<1>7. CASE WrapperStarts(w)
  <2> DEFINE id == IF mouse = Current.active THEN Current.active ELSE NoProfile
             b == reset = "off" /\ \A q \in Processes : call[q].at = "none"
  <2>1. id \in Ids /\ b \in BOOLEAN
    OBVIOUS
  <2>2. seen' = [seen EXCEPT !.before[w] = id, !.alone[w] = b]
    BY <1>7 DEF WrapperStarts
  <2> HIDE DEF id, b
  <2>3. seen' \in History
    BY <1>3, <2>1, <2>2
  <2> QED BY <1>2, <1>4, <1>5, <1>7, <2>3 DEF WrapperStarts
<1>8. CASE ProbeDone(w) \/ BeginSwitch(w) \/ BeginRestore(w)
  BY <1>2, <1>4, <1>5, <1>8, CallsTyped DEF ProbeDone, BeginSwitch, BeginRestore, RestoreTo
<1>9. CASE Prepare(w)
  BY <1>2, <1>3, <1>4, <1>5, <1>9 DEF Prepare, Warn
<1>10. CASE SwitchReturns(w)
  <2>1. call[w].code \in {"ok", "apply_failed", "other"}
    BY DEF Calls
  <2>2. seen' \in History
    BY <1>3, <1>10, <2>1 DEF SwitchReturns
  <2> QED BY <1>2, <1>4, <1>5, <1>10, <2>2 DEF SwitchReturns
<1>11. CASE RestoreReturns(w)
  <2>1. call[w].code \in {"ok", "apply_failed", "other"}
    BY DEF Calls
  <2>2. seen' \in History
    BY <1>3, <1>11, <2>1 DEF RestoreReturns
  <2> QED BY <1>2, <1>4, <1>5, <1>11, <2>2, CallsTyped DEF RestoreReturns
<1>12. CASE \/ SwitchTimesOut(w) \/ RunCommand(w) \/ AbortLaunch(w) \/ CommandEnds(w) \/ AwaitSwitch(w)
            \/ RestoreTimesOut(w) \/ Signal(w)
  BY <1>2, <1>3, <1>4, <1>5, <1>12, CallsTyped
     DEF SwitchTimesOut, RunCommand, AbortLaunch, CommandEnds, AwaitSwitch, RestoreTimesOut, Signal,
         AfterCommand, Warn
<1> QED BY <1>6, <1>7, <1>8, <1>9, <1>10, <1>11, <1>12 DEF Wrapper, WrapperMoves

LEMMA ApplicationWrites ==
  ASSUME LaunchInv, Application
  PROVE  /\ StateInv'
         /\ \/ flock'[App] \in {flock[App], NoDir} /\ (Here' = Here \/ Here' = made + 1)
            \/ TakeLock
         /\ Current'.active = Current.active \/ \E id \in Profiles : UserSwitches(id) /\ Current'.active = id
<1> USE LaunchFacts
<1>1. CASE UNCHANGED stateVars
  BY <1>1, AllKept DEF stateVars
<1>2. CASE TakeLock
  <2> DEFINE new == [Current EXCEPT !.lock = TRUE]
  <2>1. new \in Content /\ new.whole = Current.whole /\ (Current.lock => new.lock) /\ new.active = Current.active /\ new.lock
    BY DEF Content
  <2> HIDE DEF new
  <2>2. Write(new) /\ UNCHANGED <<placed, purge, found>> /\ flock' = [flock EXCEPT ![App] = IF Here = NoDir THEN made + 1 ELSE Here]
    BY <1>2 DEF TakeLock, Acquire, new
  <2>3. (IF Here = NoDir THEN made + 1 ELSE Here) = Here' /\ Here' \in Dirs
    <3>1. CASE Here # NoDir /\ UNCHANGED <<place, made>>
      BY <3>1, StateFacts DEF Here
    <3>2. CASE Here = NoDir /\ made < MaxDirs /\ place' = [place EXCEPT !["state"] = made + 1]
      <4>1. made + 1 \in Dirs /\ place'["state"] = made + 1
        BY <3>2, StateFacts DEF Dirs, StateInv, StateTypeOK
      <4> QED BY <3>2, <4>1 DEF Here
    <3> QED BY <2>2, <3>1, <3>2 DEF Write
  <2>4. flock' \in [Processes -> Dirs \cup {NoDir}] /\ \A p \in Processes : flock'[p] = flock[p] \/ (flock'[p] = Here' /\ new.lock)
    BY <2>1, <2>2, <2>3
  <2>5. StateInv' /\ Current' = new
    BY <2>1, <2>2, <2>4, DirectoryWritten
  <2> QED BY <1>2, <2>1, <2>5
<1>3. CASE CloseApp
  <2>1. purge' \in {purge, "off"}
    BY <1>3 DEF CloseApp
  <2>2. StateInv' /\ Current' = Current /\ Here' = Here
    BY <1>3, <2>1, Released DEF CloseApp
  <2>3. flock'[App] = NoDir
    BY <1>3 DEF CloseApp, Release
  <2> QED BY <2>2, <2>3
<1>4. ASSUME NEW id \in Profiles, UserSwitches(id)
      PROVE  StateInv' /\ flock' = flock /\ Current'.active = id /\ (Here' = Here \/ Here' = made + 1)
  <2> DEFINE new == [Current EXCEPT !.active = id]
  <2>1. new \in Content /\ new.whole = Current.whole /\ new.lock = Current.lock /\ new.active = id
    BY DEF Content
  <2> HIDE DEF new
  <2>2. Write(new) /\ UNCHANGED <<placed, flock, purge, found>>
    BY <1>4 DEF UserSwitches, new
  <2> QED BY <2>1, <2>2, FileWritten
<1>5. CASE SaveSettings
  <2> DEFINE new == [Current EXCEPT !.on = ~@]
  <2>1. new \in Content /\ new.whole = Current.whole /\ new.lock = Current.lock /\ new.active = Current.active
    BY DEF Content
  <2> HIDE DEF new
  <2>2. Write(new) /\ UNCHANGED <<placed, flock, purge, found>>
    BY <1>5 DEF SaveSettings, new
  <2> QED BY <2>1, <2>2, FileWritten
<1> QED BY <1>1, <1>2, <1>3, <1>4, <1>5 DEF Application, OpenApp, LockHeld, OpenUnlocked, ApplySettings, SettingsUnread

LEMMA Spending ==
  ASSUME LaunchInv, NEW what \in {"user", "games", "opens", "resets"}, NEW bound, Spend(what, bound)
  PROVE  spent' \in [{"user", "games", "opens", "resets"} -> Nat]
<1>1. spent \in [{"user", "games", "opens", "resets"} -> Nat] /\ spent[what] + 1 \in Nat
  BY DEF LaunchInv, LaunchTypeOK
<1> QED BY <1>1 DEF Spend

LEMMA ApplicationKeeps ==
  ASSUME LaunchInv, Application
  PROVE  LaunchInv'
<1> USE LaunchFacts
<1>1. StateInv'
  BY ApplicationWrites
<1>2. /\ app \in {"closed", "opening", "open"} /\ tries \in 0..MaxTries /\ MaxTries \in Nat
      /\ setter \in {"none", "saved"} /\ reset \in {"off", "lanes", "purge"} /\ inApp \in BOOLEAN
      /\ spent \in [{"user", "games", "opens", "resets"} -> Nat] /\ mouse \in Ids \cup {Mixture}
      /\ Current.on \in BOOLEAN /\ Free(App) \in BOOLEAN
  BY LaunchAssumption DEF LaunchInv, LaunchTypeOK, Content, Free
<1>3. /\ Resting \in Watch /\ Resting.step = "idle"
      /\ \A on \in BOOLEAN : [Resting EXCEPT !.on = on] \in Watch /\ [Resting EXCEPT !.on = on].step = "idle"
  BY DEF Resting, Watch
<1>4. /\ \A met \in [Wrappers -> BOOLEAN], id \in Ids :
           [seen EXCEPT !.met = met, !.chosen = id, !.slipped = FALSE] \in History
      /\ \A id \in Ids : [seen EXCEPT !.chosen = id] \in History
      /\ \A alone \in [Wrappers -> BOOLEAN], id \in Ids, b \in BOOLEAN :
           [seen EXCEPT !.alone = alone, !.chosen = id, !.slipped = @ \/ b] \in History
      /\ seen.met \in [Wrappers -> BOOLEAN] /\ seen.chosen \in Ids
  BY DEF History
<1> DEFINE Typed == /\ app' \in {"closed", "opening", "open"} /\ tries' \in 0..MaxTries
                    /\ setter' \in {"none", "saved"} /\ reset' \in {"off", "lanes", "purge"} /\ inApp' \in BOOLEAN
                    /\ spent' \in [{"user", "games", "opens", "resets"} -> Nat]
                    /\ mouse' \in Ids \cup {Mixture} /\ call' \in [Processes -> Calls]
                    /\ watch' \in Watch /\ seen' \in History
                    /\ watch' = watch \/ watch'.step = "idle"
<1> SUFFICES Typed
  BY <1>1 DEF LaunchInv, LaunchTypeOK, StateInv, Application
<1>5. CASE OpenApp /\ UNCHANGED <<mouse, call, reset, inApp>>
  <2>1. spent' \in [{"user", "games", "opens", "resets"} -> Nat]
    BY <1>5, Spending DEF OpenApp
  <2> QED BY <1>2, <1>5, <2>1 DEF OpenApp
<1>6. ASSUME NEW met \in [Wrappers -> BOOLEAN], StartWatcher(met)
      PROVE  /\ watch' \in Watch /\ watch'.step = "idle" /\ seen' \in History
             /\ app' \in {"closed", "opening", "open"} /\ setter' \in {"none", "saved"}
  <2>1. PICK unread \in BOOLEAN :
          /\ watch' = [Resting EXCEPT !.on = Current.on /\ ~unread]
          /\ seen' = [seen EXCEPT !.met = met, !.chosen = Current.active, !.slipped = FALSE]
    BY <1>6 DEF StartWatcher
  <2> DEFINE on == Current.on /\ ~unread
  <2>2. on \in BOOLEAN /\ watch' = [Resting EXCEPT !.on = on]
    BY <1>2, <2>1
  <2> HIDE DEF on
  <2>3. watch' \in Watch /\ watch'.step = "idle"
    BY <1>3, <2>2
  <2>4. seen' \in History
    BY <1>4, <2>1
  <2> QED BY <1>6, <2>3, <2>4 DEF StartWatcher
<1>7. CASE TakeLock /\ UNCHANGED <<mouse, call, reset, inApp, spent>>
  <2>1. [w \in Wrappers |-> TRUE] \in [Wrappers -> BOOLEAN]
    OBVIOUS
  <2> QED BY <1>2, <1>6, <1>7, <2>1 DEF TakeLock
<1>8. CASE OpenUnlocked /\ UNCHANGED <<mouse, call, reset, inApp, spent>>
  BY <1>2, <1>4, <1>6, <1>8 DEF OpenUnlocked
<1>9. CASE LockHeld /\ UNCHANGED <<mouse, call, reset, inApp, spent>>
  BY <1>2, <1>9 DEF LockHeld
<1>10. CASE CloseApp /\ UNCHANGED <<mouse, spent>>
  BY <1>2, <1>3, <1>10, CallsTyped DEF CloseApp
<1>11. ASSUME NEW id \in Profiles, UserSwitches(id), UNCHANGED <<reset, inApp>>
       PROVE  Typed
  <2>1. spent' \in [{"user", "games", "opens", "resets"} -> Nat]
    BY <1>11, Spending DEF UserSwitches
  <2> DEFINE alone == Touched(App)
             slip == Unseen(id)
  <2>2. alone \in [Wrappers -> BOOLEAN] /\ slip \in BOOLEAN /\ id \in Ids
    BY DEF Touched, Unseen
  <2>3. seen' = [seen EXCEPT !.alone = alone, !.chosen = id, !.slipped = @ \/ slip]
    BY <1>11 DEF UserSwitches
  <2> HIDE DEF alone, slip
  <2>4. seen' \in History
    BY <1>4, <2>2, <2>3
  <2>5. mouse' \in Ids \cup {Mixture}
    BY <1>11, <2>2 DEF UserSwitches
  <2> QED BY <1>2, <1>11, <2>1, <2>4, <2>5 DEF UserSwitches
<1>12. CASE SaveSettings /\ UNCHANGED <<mouse, call, tries, reset, inApp>>
  <2>1. spent' \in [{"user", "games", "opens", "resets"} -> Nat]
    BY <1>12, Spending DEF SaveSettings
  <2> QED BY <1>2, <1>12, <2>1 DEF SaveSettings
<1>13. CASE ApplySettings /\ UNCHANGED <<mouse, call, tries, reset, inApp, spent>>
  <2>1. watch' \in Watch /\ (watch' = watch \/ watch'.step = "idle")
    BY <1>2, <1>3, <1>13 DEF ApplySettings, Applied
  <2>2. seen' \in History
    BY <1>4, <1>13 DEF ApplySettings
  <2> QED BY <1>2, <1>13, <2>1, <2>2 DEF ApplySettings
<1>14. CASE SettingsUnread /\ UNCHANGED <<mouse, call, tries, reset, inApp, spent>>
  BY <1>2, <1>14 DEF SettingsUnread
<1> QED BY <1>5, <1>7, <1>8, <1>9, <1>10, <1>11, <1>12, <1>13, <1>14 DEF Application

LEMMA WatcherWrites ==
  ASSUME LaunchInv, Watcher
  PROVE  /\ StateInv' /\ flock' = flock /\ (Here' = Here \/ Here' = made + 1)
         /\ Current' = Current \/ (Current.active = NoProfile /\ Current'.active = Defaults)
<1>1. CASE UNCHANGED stateVars
  BY <1>1, LaunchFacts, AllKept DEF stateVars
<1>2. CASE Compare \/ ReadPrevious
  BY <1>2, LaunchFacts, ProfilesRead DEF Compare, ReadPrevious
<1> QED BY <1>1, <1>2 DEF Watcher, Tick, TickSwitches, TickEnds

LEMMA MatchFound == ASSUME LaunchInv, Match # NoGame PROVE Match \in Games
BY DEF LaunchInv, LaunchTypeOK, Match

LEMMA WatcherKeeps ==
  ASSUME LaunchInv, Watcher
  PROVE  LaunchInv'
<1> USE LaunchFacts
<1>1. StateInv'
  BY WatcherWrites
<1>2. /\ watch \in Watch /\ watch.next \in Games \cup {NoGame} /\ watch.found \in Ids /\ watch.previous \in Ids
      /\ \A g \in Games : Rule[g] \in Ids
      /\ Match \in Games \cup {NoGame}
  BY LaunchAssumption, MatchFound DEF Watch
<1>3. /\ \A step \in {"idle", "compare", "match", "take", "move", "back"} : [watch EXCEPT !.step = step] \in Watch
      /\ \A step \in {"idle", "match"} : [watch EXCEPT !.active = FALSE, !.step = step] \in Watch
      /\ \A id \in Ids : [watch EXCEPT !.step = "take", !.found = id] \in Watch
      /\ \A step \in {"compare", "match"} : [watch EXCEPT !.step = step, !.next = Match] \in Watch
  BY <1>2 DEF Watch
<1> SUFFICES /\ watch' \in Watch /\ (watch'.step \in {"match", "take", "move"} => watch'.next \in Games)
             /\ call' \in [Processes -> Calls] /\ seen' \in History
  BY <1>1 DEF LaunchInv, LaunchTypeOK, StateInv, Watcher
<1>4. CASE Tick
  <2>1. CASE watch' = [watch EXCEPT !.step = "compare", !.next = Match]
    <3>1. watch'.step = "compare"
      BY <2>1 DEF Watch
    <3> QED BY <1>3, <1>4, <2>1, <3>1 DEF Tick
  <2>2. CASE Match # NoGame /\ watch' = [watch EXCEPT !.step = "match", !.next = Match]
    <3>1. watch'.next = Match
      BY <2>2 DEF Watch
    <3> QED BY <1>3, <1>4, <2>2, <3>1, MatchFound DEF Tick
  <2> QED BY <1>4, <2>1, <2>2 DEF Tick
<1>5. CASE Compare
  <2>1. PICK id \in Ids :
          /\ watch' =
               CASE id # watch.setID ->
                      [watch EXCEPT !.active = FALSE, !.step = IF watch.next = NoGame THEN "idle" ELSE "match"]
                 [] id = watch.setID /\ watch.next # NoGame -> [watch EXCEPT !.step = "move"]
                 [] id = watch.setID /\ watch.next = NoGame /\ watch.previous # NoProfile ->
                      [watch EXCEPT !.step = "back"]
                 [] OTHER -> [watch EXCEPT !.active = FALSE, !.step = "idle"]
          /\ seen' = [seen EXCEPT !.slipped = @ \/ id = NoProfile \/ watch.previous = NoProfile]
    BY <1>5 DEF Compare
  <2>2. seen' \in History
    BY <2>1 DEF History
  <2>3. /\ watch.next # NoGame => watch.next \in Games
        /\ watch.next = NoGame => \/ watch' = [watch EXCEPT !.active = FALSE, !.step = "idle"]
                                  \/ watch' = [watch EXCEPT !.step = "back"]
        /\ watch.next # NoGame => \/ watch' = [watch EXCEPT !.active = FALSE, !.step = "match"]
                                  \/ watch' = [watch EXCEPT !.step = "move"]
    BY <1>2, <2>1
  <2>4. watch' \in Watch
    BY <1>3, <2>3
  <2>5. watch'.next = watch.next /\ (watch.next = NoGame => watch'.step \in {"idle", "back"})
    BY <2>3 DEF Watch
  <2> QED BY <1>5, <2>2, <2>3, <2>4, <2>5 DEF Compare
<1>6. CASE ReadPrevious
  <2>1. PICK id \in Ids : watch' = [watch EXCEPT !.step = "take", !.found = id]
    BY <1>6 DEF ReadPrevious
  <2>2. watch' \in Watch
    BY <1>3, <2>1
  <2>3. watch'.next = watch.next
    BY <2>1 DEF Watch
  <2> QED BY <1>6, <2>2, <2>3 DEF ReadPrevious, LaunchInv
<1>7. CASE TickSwitches
  <2>1. Wanted \in Ids
    BY <1>2, <1>7 DEF TickSwitches, Wanted, LaunchInv
  <2> QED BY <1>7, <2>1, CallsTyped DEF TickSwitches, LaunchInv
<1>8. CASE TickEnds
  <2>1. /\ Switched \in Watch
        /\ watch' = [Switched EXCEPT !.step = "idle"] \/ watch' = [watch EXCEPT !.step = "idle"]
    <3>1. CASE watch.step = "take"
      <4>1. watch.next \in Games /\ Rule[watch.next] \in Ids
        BY <1>2, <3>1 DEF LaunchInv
      <4>2. Switched = [watch EXCEPT !.active = TRUE, !.current = watch.next,
                                     !.setID = Rule[watch.next], !.previous = watch.found]
        BY <3>1 DEF Switched
      <4>3. Switched \in Watch
        BY <1>2, <4>1, <4>2 DEF Watch
      <4> QED BY <1>8, <4>3 DEF TickEnds
    <3>2. CASE watch.step = "move"
      <4>1. watch.next \in Games /\ Rule[watch.next] \in Ids
        BY <1>2, <3>2 DEF LaunchInv
      <4>2. Switched = [watch EXCEPT !.current = watch.next, !.setID = Rule[watch.next]]
        BY <3>2 DEF Switched
      <4>3. Switched \in Watch
        BY <1>2, <4>1, <4>2 DEF Watch
      <4> QED BY <1>8, <4>3 DEF TickEnds
    <3>3. CASE watch.step = "back"
      <4>1. Switched = [watch EXCEPT !.active = FALSE]
        BY <3>3 DEF Switched
      <4>2. Switched \in Watch
        BY <1>2, <4>1 DEF Watch
      <4> QED BY <1>8, <4>2 DEF TickEnds
    <3> QED BY <1>8, <3>1, <3>2, <3>3 DEF TickEnds
  <2>2. watch' \in Watch /\ watch'.step = "idle"
    BY <1>2, <2>1 DEF Watch
  <2> QED BY <1>8, <2>2, CallsTyped DEF TickEnds
<1> QED BY <1>4, <1>5, <1>6, <1>7, <1>8 DEF Watcher

LEMMA ResetWrites ==
  ASSUME LaunchInv, Reset
  PROVE  /\ StateInv' /\ flock'[App] \in {flock[App], NoDir}
         /\ Here' = Here \/ Here' = NoDir \/ Here' = made + 1 \/ seen'.met = [w \in Wrappers |-> TRUE]
<1> USE LaunchFacts
<1>1. CASE ResetStarts \/ ResetFails \/ ResetWritten \/ ResetEnds
  <2>1. UNCHANGED <<place, placed, content, made, flock, found>> /\ purge' \in {purge, "off", "inspect"}
    BY <1>1 DEF ResetStarts, ResetFails, ResetWritten, ResetEnds, stateVars
  <2>2. LocksKept
    BY <2>1 DEF LocksKept
  <2> QED BY <2>1, <2>2, NothingWritten
<1>2. CASE ResetPurges
  <2>1. /\ StateInv' /\ flock'[App] \in {flock[App], NoDir}
        /\ Here' = NoDir \/ Here' = Here \/ (Here' = made + 1) \/ purge = "renameBack"
    BY <1>2, PurgeKeeps DEF ResetPurges
  <2>2. purge = "renameBack" => seen'.met = [w \in Wrappers |-> TRUE]
    BY <1>2 DEF ResetPurges, History
  <2> QED BY <2>1, <2>2
<1> QED BY <1>1, <1>2 DEF Reset

LEMMA ResetKeeps ==
  ASSUME LaunchInv, Reset
  PROVE  LaunchInv'
<1> USE LaunchFacts
<1>1. StateInv'
  BY ResetWrites
<1>2. /\ reset \in {"off", "lanes", "purge"} /\ inApp \in BOOLEAN /\ mouse \in Ids \cup {Mixture}
      /\ spent \in [{"user", "games", "opens", "resets"} -> Nat]
      /\ Touched(App) \in [Wrappers -> BOOLEAN]
  BY DEF LaunchInv, LaunchTypeOK, Touched
<1>3. \A alone, met \in [Wrappers -> BOOLEAN] :
        /\ [seen EXCEPT !.alone = alone] \in History
        /\ [seen EXCEPT !.alone = alone, !.slipped = TRUE] \in History
        /\ [seen EXCEPT !.alone = alone, !.slipped = TRUE, !.met = met] \in History
  BY DEF History
<1> SUFFICES /\ reset' \in {"off", "lanes", "purge"} /\ inApp' \in BOOLEAN /\ mouse' \in Ids \cup {Mixture}
             /\ seen' \in History /\ spent' \in [{"user", "games", "opens", "resets"} -> Nat]
  BY <1>1 DEF LaunchInv, LaunchTypeOK, StateInv, Reset
<1>4. CASE ResetStarts
  BY <1>2, <1>3, <1>4, Spending DEF ResetStarts
<1>5. CASE ResetFails \/ ResetWritten \/ ResetEnds
  BY <1>2, <1>3, <1>5 DEF ResetFails, ResetWritten, ResetEnds
<1>6. CASE ResetPurges
  <2> DEFINE met == [w \in Wrappers |-> seen.met[w] \/ purge = "renameBack"]
  <2>1. met \in [Wrappers -> BOOLEAN]
    OBVIOUS
  <2> DEFINE alone == Touched(App)
  <2>2. seen' = [seen EXCEPT !.alone = alone, !.slipped = TRUE, !.met = met]
    BY <1>6 DEF ResetPurges
  <2>3. alone \in [Wrappers -> BOOLEAN]
    BY <1>2
  <2> HIDE DEF met, alone
  <2>4. seen' \in History
    BY <1>3, <2>1, <2>2, <2>3
  <2> QED BY <1>2, <1>6, <2>4 DEF ResetPurges
<1> QED BY <1>4, <1>5, <1>6 DEF Reset

LEMMA LaunchStep ==
  ASSUME LaunchInv, [LaunchNext]_launchVars
  PROVE  LaunchInv'
<1>1. CASE UNCHANGED launchVars
  <2>1. StateInv'
    BY <1>1, AllKept DEF LaunchInv, launchVars
  <2> QED BY <1>1, <2>1 DEF LaunchInv, LaunchTypeOK, StateInv, launchVars
<1>2. CASE GamesChange
  <2>1. StateInv' /\ games' \in SUBSET Games /\ spent' \in [{"user", "games", "opens", "resets"} -> Nat]
    BY <1>2, AllKept, Spending DEF LaunchInv, GamesChange
  <2> QED BY <1>2, <2>1 DEF LaunchInv, LaunchTypeOK, StateInv, GamesChange
<1>3. CASE WriteBack
  <2>1. StateInv'
    BY <1>3, NamesWritten DEF LaunchInv, WriteBack
  <2> QED BY <1>3, <2>1 DEF LaunchInv, LaunchTypeOK, StateInv, WriteBack
<1> QED BY <1>1, <1>2, <1>3, SwitchingKeeps, WrapperKeeps, ApplicationKeeps, WatcherKeeps, ResetKeeps DEF LaunchNext

\* The types of GameLaunch, and what its directories hold between any two calls of
\* a purge (PurgeAll, applock.go), hold in every behaviour.
THEOREM LaunchInductive == LaunchSpec => []LaunchInv
<1>1. LaunchInit => LaunchInv
  BY LaunchStart
<1>2. LaunchInv /\ [LaunchNext]_launchVars => LaunchInv'
  BY LaunchStep
<1> QED BY <1>1, <1>2, PTL DEF LaunchSpec

\* Every state of GameLaunch is typed.
THEOREM LaunchTypes == LaunchSpec => []LaunchTypeOK
<1>1. LaunchInv => LaunchTypeOK
  BY DEF LaunchInv
<1> QED BY <1>1, LaunchInductive, PTL

\* Until its removal begins the user's state can be found, now and after a power loss,
\* and what a removal leaves of a state never gets the name of the state directory by
\* a power loss (reset.go, whatever else writes meanwhile).
THEOREM StateIsFound == LaunchSpec => []StateFound
<1>1. LaunchInv => StateFound
  BY DEF LaunchInv, StateInv
<1> QED BY <1>1, LaunchInductive, PTL

\* A purge that reports success has left nothing of the state it found (reset.go).
THEOREM PurgeIsComplete == LaunchSpec => []PurgedMeansGone
<1>1. LaunchInv => PurgedMeansGone
  BY DEF LaunchInv, StateInv
<1> QED BY <1>1, LaunchInductive, PTL

-----------------------------------------------------------------------------
(* Launches heed the application's lock                                      *)

\* A launch that has asked and may write the mouse, or has a call that may.
MayWrite(w) ==
  \/ call[w].at # "none"
  \/ pc[w] \in {"probed", "prepare", "resolved", "switch", "reprobed", "restoring"}

AppLocks == flock[App] # NoDir /\ flock[App] = Here

\* Since it asked, the application's locked lock file has come to its place only as
\* the history says.
Asked(w) == MayWrite(w) /\ AppLocks => seen.met[w]
AskedInv == \A w \in Wrappers : Asked(w)

\* No directory made later is the one the application has locked.
LEMMA LockStays ==
  ASSUME LaunchInv, flock'[App] \in {flock[App], NoDir}, Here' = Here \/ Here' = NoDir \/ Here' = made + 1, AppLocks'
  PROVE  AppLocks
<1>1. flock[App] # NoDir => flock[App] \in Nat /\ flock[App] <= made /\ made \in Nat
  BY LaunchFacts, StateFacts DEF LaunchInv, StateInv, DirsInv, StateTypeOK, Dirs
<1> QED BY <1>1 DEF AppLocks

LEMMA AskedKept ==
  ASSUME LaunchInv, NEW w \in Wrappers, Asked(w), MayWrite(w)' => MayWrite(w), seen.met[w] => seen'.met[w],
         flock'[App] \in {flock[App], NoDir}, Here' = Here \/ Here' = NoDir \/ Here' = made + 1
  PROVE  Asked(w)'
BY LockStays DEF Asked

\* IsHeld does not answer that the lock is free while the application has it.
LEMMA NotHeld ==
  ASSUME LaunchInv, ~IsHeld
  PROVE  ~AppLocks
<1>1. AppLocks => Here # NoDir /\ content[Here].lock /\ Locked(Here)
  BY LaunchFacts DEF AppLocks, LaunchInv, StateInv, DirsInv, Locked
<1> QED BY <1>1 DEF IsHeld, Current

LEMMA AskedByWrapper ==
  ASSUME LaunchInv, AskedInv, NEW w \in Wrappers, Wrapper(w)
  PROVE  AskedInv'
<1> USE LaunchFacts
<1> SUFFICES ASSUME NEW v \in Wrappers PROVE Asked(v)'
  BY DEF AskedInv
<1>1. flock'[App] = flock[App] /\ (Here' = Here \/ Here' = made + 1) /\ Asked(v)
  BY WrapperWrites DEF AskedInv
<1>2. pc \in [Wrappers -> WrapperSteps] /\ call \in [Processes -> Calls]
  BY DEF LaunchInv, LaunchTypeOK
<1>3. CASE v # w
  <2>1. pc'[v] = pc[v] /\ call'[v] = call[v]
    BY <1>2, <1>3 DEF Wrapper, WrapperMoves, WrapperStarts, FirstProbe, ProbeDone, Prepare, BeginSwitch, SwitchReturns,
       SwitchTimesOut, RunCommand, AbortLaunch, AwaitSwitch, Reprobe, BeginRestore, RestoreReturns, RestoreTimesOut,
       Signal, CommandEnds, Probe, Goto, AfterCommand, Begin
  <2>2. seen'.met[v] = seen.met[v]
    BY <1>3 DEF Wrapper, WrapperMoves, WrapperStarts, FirstProbe, ProbeDone, Prepare, BeginSwitch, SwitchReturns,
       SwitchTimesOut, RunCommand, AbortLaunch, AwaitSwitch, Reprobe, BeginRestore, RestoreReturns, RestoreTimesOut,
       Signal, CommandEnds, Probe, Warn, History
  <2>3. MayWrite(v)' => MayWrite(v)
    BY <2>1 DEF MayWrite
  <2> QED BY <1>1, <2>2, <2>3, AskedKept
<1>4. CASE v = w /\ (FirstProbe(w) \/ Reprobe(w))
  <2>1. CASE ~IsHeld
    <3>1. ~AppLocks
      BY <2>1, NotHeld
    <3>2. ~AppLocks'
      BY <1>1, <3>1, LockStays
    <3> QED BY <3>2 DEF Asked
  <2>2. CASE Warn(w) /\ call' = call /\ (Goto(w, "ready") \/ Goto(w, "ended"))
    <3>1. seen'.met[v] = seen.met[v]
      BY <2>2 DEF Warn, History
    <3>2. MayWrite(v)' => MayWrite(v)
      BY <1>2, <1>4, <2>2 DEF MayWrite, Goto
    <3> QED BY <1>1, <3>1, <3>2, AskedKept
  <2> QED BY <1>4, <2>1, <2>2 DEF FirstProbe, Reprobe, Probe
<1>5. CASE v = w /\ (AwaitSwitch(w) \/ RestoreReturns(w) \/ RestoreTimesOut(w))
  <2>1. ~MayWrite(v)'
    BY <1>2, <1>5 DEF AwaitSwitch, RestoreReturns, RestoreTimesOut, MayWrite, Goto, Idle
  <2> QED BY <2>1 DEF Asked
<1>6. CASE v = w /\ \/ WrapperStarts(w) \/ ProbeDone(w) \/ Prepare(w) \/ BeginSwitch(w)
                    \/ SwitchReturns(w) \/ SwitchTimesOut(w) \/ RunCommand(w) \/ AbortLaunch(w)
                    \/ BeginRestore(w) \/ Signal(w) \/ CommandEnds(w)
  <2>1. seen'.met[v] = seen.met[v]
    BY <1>6 DEF WrapperStarts, ProbeDone, Prepare, BeginSwitch, SwitchReturns, SwitchTimesOut, RunCommand, AbortLaunch,
       BeginRestore, Signal, CommandEnds, Warn, History
  <2>2. MayWrite(v)' => MayWrite(v)
    BY <1>2, <1>6 DEF WrapperStarts, ProbeDone, Prepare, BeginSwitch, SwitchReturns, SwitchTimesOut, RunCommand, AbortLaunch,
       BeginRestore, Signal, CommandEnds, MayWrite, Goto, Begin, AfterCommand
  <2> QED BY <1>1, <2>1, <2>2, AskedKept
<1> QED BY <1>3, <1>4, <1>5, <1>6 DEF Wrapper, WrapperMoves

LEMMA AskedBySwitching ==
  ASSUME LaunchInv, AskedInv, NEW p \in Processes, Switching(p)
  PROVE  AskedInv'
<1> USE LaunchFacts
<1>1. flock'[App] = flock[App] /\ (Here' = Here \/ Here' = made + 1)
  BY SwitchingWrites
<1>2. seen'.met = seen.met /\ pc' = pc
  BY DEF Switching, SwitchRefused, SwitchWrites, SwitchBreaks, SwitchWritten, SwitchSaves, SwitchUnsaved, History
<1>3. \A q \in Processes : call[q].at = "none" => call'[q].at = "none"
  BY DEF Switching, SwitchRefused, SwitchWrites, SwitchBreaks, SwitchWritten, SwitchSaves, SwitchUnsaved, Done, At
<1>4. \A w \in Wrappers : MayWrite(w)' => MayWrite(w)
  BY <1>2, <1>3 DEF MayWrite
<1> QED BY <1>1, <1>2, <1>4, AskedKept DEF AskedInv

\* The application and its watcher call for themselves only.
LEMMA AskedByApplication ==
  ASSUME LaunchInv, AskedInv, Application \/ Watcher
  PROVE  AskedInv'
<1> USE LaunchFacts
<1>1. CASE TakeLock
  <2>1. seen'.met = [w \in Wrappers |-> TRUE]
    BY <1>1 DEF TakeLock, StartWatcher, History
  <2> QED BY <2>1 DEF AskedInv, Asked
<1>2. CASE ~TakeLock
  <2>1. flock'[App] \in {flock[App], NoDir} /\ (Here' = Here \/ Here' = made + 1)
    BY <1>2, ApplicationWrites, WatcherWrites
  <2>2. \A w \in Wrappers : call'[w] = call[w] /\ pc' = pc
    BY DEF Application, Watcher, OpenApp, TakeLock, LockHeld, OpenUnlocked, CloseApp, UserSwitches, SaveSettings,
       ApplySettings, SettingsUnread, Tick, Compare, ReadPrevious, TickSwitches, TickEnds, Begin
  <2>3. seen'.met = seen.met
    <3>1. CASE Watcher
      BY <3>1 DEF Watcher, Tick, Compare, ReadPrevious, TickSwitches, TickEnds, History
    <3>2. CASE OpenUnlocked
      BY <3>2 DEF OpenUnlocked, StartWatcher, History
    <3>3. CASE \E id \in Profiles : UserSwitches(id)
      BY <3>3 DEF UserSwitches, History
    <3>4. CASE ApplySettings
      BY <3>4 DEF ApplySettings, History
    <3> QED BY <1>2, <3>1, <3>2, <3>3, <3>4 DEF Application, OpenApp, LockHeld, CloseApp, SaveSettings, SettingsUnread
  <2>4. \A w \in Wrappers : MayWrite(w)' => MayWrite(w)
    BY <2>2 DEF MayWrite
  <2> QED BY <2>1, <2>3, <2>4, AskedKept DEF AskedInv
<1> QED BY <1>1, <1>2

LEMMA AskedByReset ==
  ASSUME LaunchInv, AskedInv, Reset
  PROVE  AskedInv'
<1> USE LaunchFacts
<1>1. flock'[App] \in {flock[App], NoDir} /\ pc' = pc /\ call' = call
  BY ResetWrites DEF Reset
<1>2. CASE seen'.met = [w \in Wrappers |-> TRUE]
  BY <1>2 DEF AskedInv, Asked
<1>3. CASE Here' = Here \/ Here' = NoDir \/ Here' = made + 1
  <2>1. \A w \in Wrappers : seen.met[w] => seen'.met[w]
    BY DEF Reset, ResetStarts, ResetFails, ResetWritten, ResetPurges, ResetEnds, History
  <2>2. \A w \in Wrappers : MayWrite(w)' => MayWrite(w)
    BY <1>1 DEF MayWrite
  <2> QED BY <1>1, <1>3, <2>1, <2>2, AskedKept DEF AskedInv
<1> QED BY <1>2, <1>3, ResetWrites

LEMMA AskedStep ==
  ASSUME LaunchInv, AskedInv, [LaunchNext]_launchVars
  PROVE  AskedInv'
<1>1. CASE UNCHANGED launchVars \/ GamesChange \/ WriteBack
  <2>1. Here' = Here /\ UNCHANGED <<flock, pc, call, seen>>
    BY <1>1 DEF GamesChange, WriteBack, WriteNames, launchVars, stateVars, Here
  <2> QED BY <2>1 DEF AskedInv, Asked, MayWrite, AppLocks
<1> QED BY <1>1, AskedByWrapper, AskedBySwitching, AskedByApplication, AskedByReset DEF LaunchNext

\* A launch writes the mouse beside an application whose locked lock file is in its
\* place only if that lock came after the launch asked (wrapper.go's two uses of
\* applock.IsHeld).
THEOREM LockIsHeeded == LaunchSpec => []LockKeepsLaunchesOff
<1>1. LaunchInit => AskedInv
  BY LaunchAssumption DEF LaunchInit, AskedInv, Asked, MayWrite, Idle
<1>2. LaunchInv /\ AskedInv /\ [LaunchNext]_launchVars => AskedInv'
  BY AskedStep
<1>3. AskedInv => LockKeepsLaunchesOff
  BY DEF AskedInv, Asked, MayWrite, AppLocks, LockKeepsLaunchesOff
<1> QED BY <1>1, <1>2, <1>3, LaunchInductive, PTL DEF LaunchSpec

-----------------------------------------------------------------------------
(* A launch puts back what it found                                          *)

Undisturbed(w) == seen.quiet[w] /\ seen.alone[w] /\ seen.before[w] # NoProfile /\ pc[w] # "start"

Showing(onMouse, inFile) == mouse = onMouse /\ Current.active = inFile

\* A call of SwitchProfile, as far as it has got.
Moving(w, to) ==
  /\ call[w].id = to
  /\ \/ call[w].at \in {"begun", "writing"}
     \/ call[w].at = "written" /\ mouse = to
     \/ call[w].at = "done" /\ (call[w].code = "ok" => Showing(to, to))

\* Until its switch begins the mouse and the pointer show what an undisturbed launch
\* has found; from then on it has that profile in mind, whatever they show, and at its
\* end it has put it back.
Progress(w, before) ==
  \/ pc[w] \in {"probe", "probed", "prepare"} /\ call[w].at = "none" /\ Showing(before, before)
  \/ pc[w] = "resolved" /\ call[w].at = "none" /\ previous[w] = before
  \/ pc[w] \in {"switch", "ready", "command", "wait"} /\ call[w].at # "none" /\ previous[w] = before
  \/ pc[w] \in {"reprobe", "reprobed"} /\ call[w].at = "none" /\ previous[w] = before
  \/ pc[w] = "restoring" /\ Moving(w, before) /\ previous[w] = before
  \/ pc[w] = "ended" /\ call[w].at = "none" /\ Showing(before, before)

Alone(w) ==
  Undisturbed(w) =>
    /\ reset = "off"
    /\ \A q \in Processes \ {w} : call[q].at \notin {"writing", "written"}
    /\ Progress(w, seen.before[w])

LaunchAlone == \A w \in Wrappers : Alone(w)

\* A step of somebody else that neither writes the mouse nor moves the pointer; a
\* first start may make one.
LEMMA LeftAlone ==
  ASSUME LaunchInv, NEW w \in Wrappers, Alone(w), Undisturbed(w)' => Undisturbed(w),
         reset' = reset \/ reset' = "off",
         \A q \in Processes \ {w} : call'[q].at \in {"writing", "written"} => call[q].at \in {"writing", "written"},
         mouse' = mouse, Current'.active = Current.active \/ Current.active = NoProfile,
         pc'[w] = pc[w], call'[w] = call[w], previous'[w] = previous[w], seen'.before[w] = seen.before[w]
  PROVE  Alone(w)'
<1> SUFFICES ASSUME Undisturbed(w) PROVE reset' = "off" /\ Progress(w, seen.before[w])'
  BY DEF Alone
<1>1. Ref[w] # NoProfile /\ seen.before[w] # NoProfile /\ Progress(w, seen.before[w]) /\ reset = "off"
  BY LaunchAssumption, StateDirAssumption DEF Undisturbed, Alone
<1> DEFINE before == seen.before[w]
<1>2. before' = before /\ before # NoProfile /\ Progress(w, before)
  BY <1>1
<1> HIDE DEF before
<1>3. Progress(w, before)'
  BY <1>1, <1>2 DEF Progress, Moving, Showing
<1> QED BY <1>1, <1>3 DEF before

LEMMA AloneBySwitching ==
  ASSUME LaunchInv, LaunchAlone, NEW p \in Processes, Switching(p), NEW w \in Wrappers
  PROVE  Alone(w)'
<1> USE LaunchFacts
<1>1. Alone(w) /\ pc' = pc /\ previous' = previous /\ reset' = reset
  BY DEF LaunchAlone, Switching
<1>2. seen'.before = seen.before /\ seen'.quiet = seen.quiet /\ \A v \in Wrappers : seen'.alone[v] => seen.alone[v]
  BY DEF Switching, SwitchRefused, SwitchWrites, SwitchBreaks, SwitchWritten, SwitchSaves, SwitchUnsaved, Touched, History
<1>3. Undisturbed(w)' => Undisturbed(w)
  BY <1>1, <1>2 DEF Undisturbed
<1>4. \A q \in Processes : q # p => call'[q] = call[q]
  BY DEF Switching, SwitchRefused, SwitchWrites, SwitchBreaks, SwitchWritten, SwitchSaves, SwitchUnsaved, Done, At
<1>5. CASE p # w
  <2>1. CASE SwitchRefused(p)
    <3>1. Current'.active = Current.active \/ Current.active = NoProfile
      BY <2>1, ProfilesRead DEF SwitchRefused
    <3>2. call'[p].at = "done" /\ mouse' = mouse
      BY <2>1 DEF SwitchRefused, Done, Calls
    <3> QED BY <1>1, <1>2, <1>3, <1>4, <1>5, <3>1, <3>2, LeftAlone
  <2>2. CASE SwitchWrites(p)
    <3>1. ~seen'.alone[w]
      BY <1>5, <2>2 DEF SwitchWrites, Touched, History
    <3> QED BY <3>1 DEF Alone, Undisturbed
  <2>3. CASE SwitchBreaks(p) \/ SwitchWritten(p) \/ SwitchSaves(p) \/ SwitchUnsaved(p)
    <3>1. call[p].at \in {"writing", "written"}
      BY <2>3 DEF SwitchBreaks, SwitchWritten, SwitchSaves, SwitchUnsaved
    <3>2. ~Undisturbed(w)
      BY <1>1, <1>5, <3>1 DEF Alone
    <3> QED BY <1>3, <3>2 DEF Alone
  <2> QED BY <2>1, <2>2, <2>3 DEF Switching
<1>6. CASE p = w
  <2> SUFFICES ASSUME Undisturbed(w) PROVE Progress(w, seen.before[w])'
    BY <1>1, <1>3, <1>4, <1>6 DEF Alone
  <2> DEFINE before == seen.before[w]
  <2>1. /\ before' = before /\ before # NoProfile /\ Progress(w, before) /\ reset = "off"
        /\ \A q \in Processes \ {w} : call[q].at \notin {"writing", "written"}
    BY <1>1, <1>2 DEF Undisturbed, Alone
  <2> HIDE DEF before
  <2> SUFFICES Progress(w, before)'
    BY DEF before
  <2>2. call[w].at \in {"begun", "writing", "written"} /\ call'[w].at # "none"
    <3>1. (\E code \in {"ok", "apply_failed", "other"} : Done(w, code)) => call'[w].at = "done"
      BY DEF Done, Calls
    <3>2. \A step \in {"writing", "written"} : At(w, step) => call'[w].at = step
      BY DEF At, Calls
    <3> QED BY <1>6, <3>1, <3>2
            DEF Switching, SwitchRefused, SwitchWrites, SwitchBreaks, SwitchWritten, SwitchSaves, SwitchUnsaved
  <2> SUFFICES ASSUME Moving(w, before) PROVE Moving(w, before)'
    BY <1>1, <2>1, <2>2 DEF Progress
  <2>3. CASE SwitchRefused(w) \/ SwitchBreaks(w) \/ SwitchUnsaved(w)
    BY <2>1, <2>3 DEF SwitchRefused, SwitchBreaks, SwitchUnsaved, Done, Calls, Moving
  <2>4. CASE SwitchWrites(w)
    BY <2>1, <2>4 DEF SwitchWrites, At, Calls, Moving
  <2>5. CASE SwitchWritten(w)
    <3>1. ~Mingled(w)
      BY <2>1 DEF Mingled
    <3> QED BY <2>1, <2>5, <3>1 DEF SwitchWritten, At, Calls, Moving
  <2>6. CASE SwitchSaves(w)
    <3> DEFINE new == [Current EXCEPT !.active = call[w].id]
    <3>1. new \in Content /\ new.whole = Current.whole /\ new.lock = Current.lock /\ new.active = call[w].id
      BY DEF Content, Ids
    <3> HIDE DEF new
    <3>2. Write(new) /\ UNCHANGED <<placed, flock, purge, found>>
      BY <2>6 DEF SwitchSaves, new
    <3>3. Current'.active = call[w].id
      BY <3>1, <3>2, FileWritten
    <3>4. call'[w].at = "done" /\ call'[w].id = call[w].id /\ mouse' = mouse
      BY <2>6 DEF SwitchSaves, Done, Calls
    <3> QED BY <2>1, <2>6, <3>3, <3>4 DEF SwitchSaves, Moving, Showing
  <2> QED BY <1>6, <2>3, <2>4, <2>5, <2>6 DEF Switching
<1> QED BY <1>5, <1>6

LEMMA AloneByWrapper ==
  ASSUME LaunchInv, LaunchAlone, NEW v \in Wrappers, Wrapper(v), NEW w \in Wrappers
  PROVE  Alone(w)'
<1> USE LaunchFacts
<1>1. /\ Alone(w) /\ reset' = reset /\ mouse' = mouse /\ pc \in [Wrappers -> WrapperSteps]
      /\ previous \in [Wrappers -> Ids] /\ call \in [Processes -> Calls]
  BY DEF LaunchAlone, LaunchInv, LaunchTypeOK, Wrapper
<1>2. \A q \in Processes : call'[q].at \in {"writing", "written"} => call[q].at \in {"writing", "written"}
  BY DEF Wrapper, WrapperMoves, WrapperStarts, FirstProbe, ProbeDone, Prepare, BeginSwitch, SwitchReturns, SwitchTimesOut,
     RunCommand, AbortLaunch, AwaitSwitch, Reprobe, BeginRestore, RestoreReturns, RestoreTimesOut, Signal, CommandEnds,
     Begin, Idle, Calls
<1>3. Current' = Current \/ (Current.active = NoProfile /\ pc[v] = "prepare")
  BY WrapperWrites
<1>4. CASE v # w
  <2>1. pc'[w] = pc[w] /\ call'[w] = call[w] /\ previous'[w] = previous[w]
    BY <1>1, <1>4 DEF Wrapper, WrapperMoves, WrapperStarts, FirstProbe, ProbeDone, Prepare, BeginSwitch, SwitchReturns,
       SwitchTimesOut, RunCommand, AbortLaunch, AwaitSwitch, Reprobe, BeginRestore, RestoreReturns, RestoreTimesOut,
       Signal, CommandEnds, Probe, Goto, AfterCommand, Begin
  <2>2. seen'.before[w] = seen.before[w] /\ seen'.quiet[w] = seen.quiet[w] /\ seen'.alone[w] = seen.alone[w]
    <3>1. CASE WrapperStarts(v)
      BY <1>4, <3>1 DEF WrapperStarts, History
    <3>2. CASE SwitchReturns(v) \/ RestoreReturns(v)
      BY <1>4, <3>2 DEF SwitchReturns, RestoreReturns, History
    <3> QED BY <1>4, <3>1, <3>2 DEF Wrapper, WrapperMoves, FirstProbe, ProbeDone, Prepare, BeginSwitch, SwitchTimesOut,
          RunCommand, AbortLaunch, AwaitSwitch, Reprobe, BeginRestore, RestoreTimesOut, Signal, CommandEnds, Probe, Warn, History
  <2>3. Undisturbed(w)' => Undisturbed(w)
    BY <2>1, <2>2 DEF Undisturbed
  <2> QED BY <1>1, <1>2, <1>3, <2>1, <2>2, <2>3, LeftAlone
<1>5. CASE v = w /\ WrapperStarts(w)
  <2>1. pc'[w] = "probe" /\ Current' = Current /\ call' = call
    BY <1>1, <1>5, AllKept DEF WrapperStarts, Goto
  <2>2. seen'.before[w] = (IF mouse = Current.active THEN Current.active ELSE NoProfile)
        /\ seen'.alone[w] = (reset = "off" /\ \A q \in Processes : call[q].at = "none")
    BY <1>5 DEF WrapperStarts, History
  <2> SUFFICES ASSUME Undisturbed(w)'
               PROVE  reset = "off" /\ (\A q \in Processes : call[q].at = "none") /\ Progress(w, seen.before[w])'
    BY <1>1, <2>1 DEF Alone
  <2>3. reset = "off" /\ (\A q \in Processes : call[q].at = "none") /\ mouse = seen'.before[w] /\ Current.active = seen'.before[w]
    BY <2>2 DEF Undisturbed
  <2> QED BY <1>1, <2>1, <2>3 DEF Progress, Showing
<1>6. CASE v = w /\ ~WrapperStarts(w)
  <2>1. seen'.before[w] = seen.before[w] /\ (seen'.quiet[w] => seen.quiet[w]) /\ seen'.alone[w] = seen.alone[w]
    BY <1>6 DEF Wrapper, WrapperMoves, FirstProbe, ProbeDone, Prepare, BeginSwitch, SwitchReturns,
       SwitchTimesOut, RunCommand, AbortLaunch, AwaitSwitch, Reprobe, BeginRestore, RestoreReturns, RestoreTimesOut,
       Signal, CommandEnds, Probe, Warn, History
  <2>2. pc[w] # "start"
    BY <1>6 DEF Wrapper, WrapperMoves, FirstProbe, ProbeDone, Prepare, BeginSwitch, SwitchReturns,
       SwitchTimesOut, RunCommand, AbortLaunch, AwaitSwitch, Reprobe, BeginRestore, RestoreReturns, RestoreTimesOut,
       Signal, CommandEnds
  <2> SUFFICES ASSUME Undisturbed(w)' PROVE Alone(w)'
    BY DEF Alone
  <2>3. Undisturbed(w) /\ seen'.quiet[w]
    BY <2>1, <2>2 DEF Undisturbed
  <2> DEFINE before == seen.before[w]
  <2>4. /\ before' = before /\ before # NoProfile /\ Progress(w, before) /\ reset = "off"
        /\ \A q \in Processes \ {w} : call[q].at \notin {"writing", "written"}
        /\ Ref[w] # NoProfile
    BY <1>1, <2>1, <2>3, LaunchAssumption, StateDirAssumption DEF Undisturbed, Alone
  <2>5. Progress(w, before)' => Alone(w)'
    BY <1>1, <1>2, <2>4 DEF Alone
  <2> HIDE DEF before
  <2> SUFFICES Progress(w, before)'
    BY <2>5
  <2>6. Current'.active = Current.active
    BY <1>3, <1>6, <2>4 DEF Progress, Showing
  <2>7. CASE FirstProbe(w) \/ Reprobe(w)
    <3>1. ~Warn(w)
      BY <2>3 DEF Warn, History
    <3> QED BY <1>1, <2>4, <2>6, <2>7, <3>1 DEF FirstProbe, Reprobe, Probe, Goto, Progress, Showing
  <2>8. CASE ProbeDone(w) \/ Signal(w) \/ RunCommand(w) \/ SwitchTimesOut(w)
    BY <1>1, <2>4, <2>6, <2>8 DEF ProbeDone, Signal, RunCommand, SwitchTimesOut, Goto, Progress, Showing, Moving
  <2>9. CASE RestoreTimesOut(w)
    BY <2>3, <2>9 DEF RestoreTimesOut, Warn, History
  <2>10. CASE Prepare(w)
    <3>1. ~Warn(w)
      BY <2>3 DEF Warn, History
    <3>2. PICK result \in Ids \ {NoProfile} : GetProfiles(result) /\ previous' = [previous EXCEPT ![w] = result]
      BY <2>10, <3>1 DEF Prepare
    <3>3. result = Current'.active
      BY <3>2, ProfilesRead
    <3>4. pc[w] = "prepare" /\ pc'[w] = "resolved" /\ call' = call
      BY <1>1, <2>10, <3>1 DEF Prepare, Goto
    <3>5. Showing(before, before) /\ call[w].at = "none"
      BY <2>4, <3>4 DEF Progress
    <3> QED BY <1>1, <2>4, <2>6, <3>2, <3>3, <3>4, <3>5 DEF Progress, Showing
  <2>11. CASE BeginSwitch(w)
    <3>1. call'[w] = [at |-> "begun", id |-> Ref[w], code |-> "ok"] /\ pc'[w] = "switch" /\ previous' = previous
      BY <1>1, <2>11 DEF BeginSwitch, Begin, Goto
    <3>2. previous[w] = before
      BY <2>4, <2>11 DEF BeginSwitch, Progress
    <3> QED BY <1>1, <2>4, <2>6, <3>1, <3>2 DEF Progress, Showing, Moving
  <2>12. CASE BeginRestore(w)
    <3>1. call'[w] = [at |-> "begun", id |-> previous[w], code |-> "ok"] /\ pc'[w] = "restoring" /\ previous' = previous
      BY <1>1, <2>12 DEF BeginRestore, RestoreTo, Begin, Goto
    <3>2. previous[w] = before
      BY <2>4, <2>12 DEF BeginRestore, Progress
    <3> QED BY <1>1, <2>4, <2>6, <3>1, <3>2 DEF Progress, Showing, Moving
  <2>13. CASE SwitchReturns(w)
    <3>1. call[w].code # "other"
      BY <2>3, <2>13 DEF SwitchReturns, History
    <3>2. pc'[w] = "ready" /\ call' = call /\ previous'[w] = previous[w] /\ pc[w] = "switch" /\ call[w].at = "done"
      BY <1>1, <2>13, <3>1 DEF SwitchReturns, Goto
    <3>3. previous[w] = before
      BY <2>4, <3>2 DEF Progress
    <3> QED BY <1>1, <2>4, <2>6, <3>2, <3>3 DEF Progress, Showing
  <2>14. CASE AbortLaunch(w) \/ CommandEnds(w)
    <3>1. pc[w] \in {"ready", "command"} /\ call' = call /\ previous' = previous /\ AfterCommand(w)
      BY <2>14 DEF AbortLaunch, CommandEnds
    <3>2. previous[w] = before /\ call[w].at # "none"
      BY <2>4, <3>1 DEF Progress
    <3>3. pc'[w] = "wait"
      BY <1>1, <2>4, <3>1, <3>2 DEF AfterCommand, Goto
    <3> QED BY <1>1, <2>4, <2>6, <3>1, <3>2, <3>3 DEF Progress, Showing
  <2>15. CASE AwaitSwitch(w)
    <3>1. call'[w].at = "none" /\ pc'[w] = "reprobe" /\ previous' = previous /\ pc[w] = "wait"
      BY <1>1, <2>15 DEF AwaitSwitch, Idle, Goto
    <3>2. previous[w] = before
      BY <2>4, <3>1 DEF Progress
    <3> QED BY <1>1, <2>4, <2>6, <3>1, <3>2 DEF Progress, Showing
  <2>16. CASE RestoreReturns(w)
    <3>1. call[w].code = "ok"
      BY <2>3, <2>16 DEF RestoreReturns, History
    <3>2. call'[w].at = "none" /\ pc'[w] = "ended" /\ pc[w] = "restoring" /\ call[w].at = "done"
      BY <1>1, <2>16 DEF RestoreReturns, Idle, Goto
    <3>3. Showing(before, before)
      BY <2>4, <3>1, <3>2 DEF Progress, Moving
    <3> QED BY <1>1, <2>4, <2>6, <3>2, <3>3 DEF Progress, Showing
  <2> QED BY <1>6, <2>7, <2>8, <2>9, <2>10, <2>11, <2>12, <2>13, <2>14, <2>15, <2>16 DEF Wrapper, WrapperMoves
<1> QED BY <1>4, <1>5, <1>6

LEMMA AloneByApplication ==
  ASSUME LaunchInv, LaunchAlone, Application \/ Watcher, NEW w \in Wrappers
  PROVE  Alone(w)'
<1> USE LaunchFacts
<1>1. Alone(w) /\ pc' = pc /\ previous' = previous /\ (reset' = reset \/ reset' = "off")
  BY DEF LaunchAlone, Application, Watcher, CloseApp
<1>2. ASSUME NEW id \in Profiles, UserSwitches(id)
      PROVE  Alone(w)'
  <2>1. ~seen'.alone[w]
    BY <1>2 DEF UserSwitches, Touched, History
  <2> QED BY <2>1 DEF Alone, Undisturbed
<1>3. CASE ~\E id \in Profiles : UserSwitches(id)
  <2>1. mouse' = mouse /\ call'[w] = call[w]
    BY <1>3 DEF Application, Watcher, OpenApp, TakeLock, LockHeld, OpenUnlocked, CloseApp, SaveSettings,
       ApplySettings, SettingsUnread, Tick, Compare, ReadPrevious, TickSwitches, TickEnds, Begin
  <2>2. \A q \in Processes : call'[q].at \in {"writing", "written"} => call[q].at \in {"writing", "written"}
    <3>1. \/ call' = call \/ call' = [call EXCEPT ![App] = Idle]
          \/ call' = [call EXCEPT ![App] = [at |-> "begun", id |-> Wanted, code |-> "ok"]]
      BY <1>3 DEF Application, Watcher, OpenApp, TakeLock, LockHeld, OpenUnlocked, CloseApp, SaveSettings,
         ApplySettings, SettingsUnread, Tick, Compare, ReadPrevious, TickSwitches, TickEnds, Begin
    <3> QED BY <3>1 DEF Idle
  <2>3. Current'.active = Current.active \/ Current.active = NoProfile
    BY <1>3, ApplicationWrites, WatcherWrites
  <2>4. seen'.before[w] = seen.before[w] /\ seen'.quiet[w] = seen.quiet[w] /\ seen'.alone[w] = seen.alone[w]
    <3>1. CASE Watcher
      BY <3>1 DEF Watcher, Tick, Compare, ReadPrevious, TickSwitches, TickEnds, History
    <3>2. CASE TakeLock \/ OpenUnlocked
      BY <3>2 DEF TakeLock, OpenUnlocked, StartWatcher, History
    <3>3. CASE ApplySettings
      BY <3>3 DEF ApplySettings, History
    <3> QED BY <1>3, <3>1, <3>2, <3>3 DEF Application, OpenApp, LockHeld, CloseApp, SaveSettings, SettingsUnread
  <2>5. Undisturbed(w)' => Undisturbed(w)
    BY <1>1, <2>4 DEF Undisturbed
  <2> QED BY <1>1, <2>1, <2>2, <2>3, <2>4, <2>5, LeftAlone
<1> QED BY <1>2, <1>3

\* A reset touches the mouse as it starts.
LEMMA AloneByReset ==
  ASSUME LaunchInv, LaunchAlone, Reset, NEW w \in Wrappers
  PROVE  Alone(w)'
<1> USE LaunchFacts
<1>1. CASE ResetStarts
  <2>1. ~seen'.alone[w]
    BY <1>1 DEF ResetStarts, Touched, History
  <2> QED BY <2>1 DEF Alone, Undisturbed
<1>2. CASE ~ResetStarts
  <2>1. reset # "off" /\ pc' = pc
    BY <1>2 DEF Reset, ResetFails, ResetWritten, ResetPurges, ResetEnds
  <2>2. ~Undisturbed(w)
    BY <2>1 DEF LaunchAlone, Alone
  <2>3. seen'.before[w] = seen.before[w] /\ seen'.quiet[w] = seen.quiet[w] /\ (seen'.alone[w] => seen.alone[w])
    BY <1>2 DEF Reset, ResetFails, ResetWritten, ResetPurges, ResetEnds, Touched, History
  <2> QED BY <2>1, <2>2, <2>3 DEF Alone, Undisturbed
<1> QED BY <1>1, <1>2

LEMMA AloneStep ==
  ASSUME LaunchInv, LaunchAlone, [LaunchNext]_launchVars
  PROVE  LaunchAlone'
<1> SUFFICES ASSUME NEW w \in Wrappers PROVE Alone(w)'
  BY DEF LaunchAlone
<1>1. CASE UNCHANGED launchVars \/ GamesChange \/ WriteBack
  <2>1. UNCHANGED <<mouse, call, pc, previous, reset, seen>>
    BY <1>1 DEF GamesChange, WriteBack, launchVars
  <2>2. Current' = Current
    BY <1>1 DEF GamesChange, WriteBack, WriteNames, launchVars, stateVars, Current, Here
  <2> QED BY <2>1, <2>2, LeftAlone DEF LaunchAlone, Undisturbed
<1> QED BY <1>1, AloneBySwitching, AloneByWrapper, AloneByApplication, AloneByReset DEF LaunchNext

\* The wrapper "restores the profile that was active before": an undisturbed launch
\* leaves the mouse and the pointer as it found them, also after a switch that timed
\* out or broke off (applyProfile and its restore step, wrapper.go).
THEOREM LaunchPutsBack == LaunchSpec => []PutBack
<1>1. LaunchInit => LaunchAlone
  BY DEF LaunchInit, LaunchAlone, Alone, Undisturbed
<1>2. LaunchInv /\ LaunchAlone /\ [LaunchNext]_launchVars => LaunchAlone'
  BY AloneStep
<1>3. LaunchAlone => PutBack
  BY DEF LaunchAlone, Alone, Undisturbed, Progress, Showing, PutBack
<1> QED BY <1>1, <1>2, <1>3, LaunchInductive, PTL DEF LaunchSpec

-----------------------------------------------------------------------------
(* The watcher goes back to the last choice                                  *)

\* The application's only calls are its watcher's, which it has while it is open.
WatcherInv ==
  /\ app # "open" => watch = Resting /\ setter = "none"
  /\ call[App].at # "none" => watch.step \in {"take", "move", "back"} /\ call[App].id = Wanted
  /\ watch.step \in {"match", "take"} => ~watch.active
  /\ watch.step \in {"compare", "move", "back"} => watch.active

\* What the file holds: the last choice, or the profile the watcher has set with
\* that choice in mind.
Chosen == Current.active = seen.chosen
Own == Current.active = watch.setID /\ watch.previous \in {seen.chosen, NoProfile}

\* The application's call has succeeded.
CallMade == call[App].at = "done" /\ call[App].code = "ok"

Tracked == app = "open" /\ watch.on /\ ~seen.slipped /\ seen.chosen # NoProfile

\* At each step of the watcher, as long as nobody has chosen behind its back.
ChoiceHeld ==
  /\ Current.active # NoProfile
  /\ watch.step = "idle" /\ ~watch.active => Chosen
  /\ watch.step = "match" => Chosen
  /\ watch.step = "idle" /\ watch.active => Own \/ (Chosen /\ seen.chosen # watch.setID)
  /\ watch.step = "compare" => Own \/ (Chosen /\ seen.chosen # watch.setID)
  /\ watch.step = "take" => watch.found \in {seen.chosen, NoProfile}
  /\ watch.step = "take" /\ ~CallMade => Chosen
  /\ watch.step \in {"move", "back"} => watch.previous = seen.chosen
  /\ watch.step \in {"move", "back"} /\ ~CallMade => Current.active = watch.setID
  /\ watch.step \in {"take", "move", "back"} /\ CallMade => Current.active = Wanted

ChoiceInv == WatcherInv /\ (Tracked => ChoiceHeld)

LEMMA WatcherFacts ==
  ASSUME LaunchInv
  PROVE  /\ watch.on \in BOOLEAN /\ watch.active \in BOOLEAN
         /\ watch.step \in {"idle", "compare", "match", "take", "move", "back"}
         /\ seen.slipped \in BOOLEAN /\ seen.chosen \in Ids /\ Current.on \in BOOLEAN
BY LaunchFacts DEF Watch, History, Content

\* A step that leaves the watcher and the choice, and the pointer if there is one.
LEMMA ChoiceKept ==
  ASSUME LaunchInv, ChoiceInv, UNCHANGED <<app, watch, seen.chosen, seen.slipped, call[App]>>,
         app # "open" => setter' \in {setter, "none"},
         Current'.active = Current.active \/ Current.active = NoProfile
  PROVE  ChoiceInv'
<1>1. WatcherInv'
  BY DEF ChoiceInv, WatcherInv, Wanted
<1>2. ASSUME Tracked PROVE ChoiceHeld'
  <2>1. ChoiceHeld /\ Current'.active = Current.active
    BY <1>2 DEF ChoiceInv, ChoiceHeld
  <2> QED BY <2>1 DEF ChoiceHeld, Chosen, Own, CallMade, Wanted
<1> QED BY <1>1, <1>2 DEF ChoiceInv, Tracked

\* Anybody but the watcher moves the pointer.
LEMMA ChoiceMade ==
  ASSUME LaunchInv, WatcherInv, UNCHANGED <<app, watch, setter, call[App]>>, NEW id \in Ids, Current'.active = id,
         seen'.chosen = id, seen'.slipped \in BOOLEAN, Unseen(id) => seen'.slipped
  PROVE  ChoiceInv'
<1>1. WatcherInv'
  BY DEF WatcherInv, Wanted
<1>2. Tracked' => ChoiceHeld'
  BY DEF Tracked, ChoiceHeld, Chosen, Own, Unseen
<1> QED BY <1>1, <1>2 DEF ChoiceInv

\* Only the last step of SwitchProfile moves the pointer.
LEMMA PointerStays ==
  ASSUME LaunchInv, NEW p \in Processes, Switching(p), ~SwitchSaves(p)
  PROVE  Current'.active = Current.active \/ Current.active = NoProfile
<1>1. CASE SwitchRefused(p)
  BY <1>1, LaunchFacts, ProfilesRead DEF SwitchRefused
<1>2. CASE UNCHANGED stateVars
  BY <1>2, LaunchFacts, AllKept
<1>3. CASE SwitchUnsaved(p)
  <2>1. CASE Here = NoDir
    BY <2>1, LaunchFacts, StateFacts
  <2>2. CASE UNCHANGED <<place, content, made>>
    BY <2>2 DEF Current, Here
  <2> QED BY <1>3, <2>1, <2>2 DEF SwitchUnsaved
<1> QED BY <1>1, <1>2, <1>3 DEF Switching, SwitchWrites, SwitchBreaks, SwitchWritten

LEMMA ChoiceBySwitching ==
  ASSUME LaunchInv, ChoiceInv, NEW p \in Processes, Switching(p)
  PROVE  ChoiceInv'
<1> USE LaunchFacts, WatcherFacts
<1>1. UNCHANGED <<app, watch, setter>>
  BY DEF Switching
<1>2. CASE p # App /\ ~SwitchSaves(p)
  <2>1. UNCHANGED <<seen.chosen, seen.slipped, call[App]>>
    BY <1>2 DEF Switching, SwitchRefused, SwitchWrites, SwitchBreaks, SwitchWritten, SwitchUnsaved, Done, At, History
  <2>2. Current'.active = Current.active \/ Current.active = NoProfile
    BY <1>2, PointerStays
  <2> QED BY <1>1, <2>1, <2>2, ChoiceKept
<1> DEFINE new == [Current EXCEPT !.active = call[p].id]
<1>3. ASSUME SwitchSaves(p) PROVE Current'.active = call[p].id
  <2>1. new \in Content /\ new.whole = Current.whole /\ new.lock = Current.lock /\ new.active = call[p].id
    BY DEF Content, Ids
  <2> HIDE DEF new
  <2>2. Write(new) /\ UNCHANGED <<placed, flock, purge, found>>
    BY <1>3 DEF SwitchSaves, new
  <2> QED BY <2>1, <2>2, FileWritten
<1>4. CASE p # App /\ SwitchSaves(p)
  <2>1. UNCHANGED call[App]
    BY <1>4 DEF SwitchSaves, Done
  <2>2. PICK code \in {"ok", "other"} :
          seen' = [seen EXCEPT !.alone = Touched(p), !.chosen = call[p].id,
                               !.slipped = @ \/ code # "ok" \/ (p # App /\ Unseen(call[p].id))]
    BY <1>4 DEF SwitchSaves
  <2>3. seen'.chosen = call[p].id /\ seen'.slipped = (seen.slipped \/ code # "ok" \/ (p # App /\ Unseen(call[p].id)))
    BY <2>2 DEF History
  <2>4. seen'.slipped \in BOOLEAN /\ (Unseen(call[p].id) => seen'.slipped)
    BY <1>4, <2>3
  <2> DEFINE id == call[p].id
  <2>5. /\ id \in Ids /\ Current'.active = id /\ seen'.chosen = id /\ (Unseen(id) => seen'.slipped)
    BY <1>3, <1>4, <2>3, <2>4
  <2> HIDE DEF id
  <2> QED BY <1>1, <2>1, <2>4, <2>5, ChoiceMade DEF ChoiceInv
<1>5. CASE p = App
  <2>1. call[App].at # "none" /\ ~CallMade /\ call'[App].at # "none" /\ call'[App].id = call[App].id
    BY <1>5 DEF Switching, SwitchRefused, SwitchWrites, SwitchBreaks, SwitchWritten, SwitchSaves, SwitchUnsaved,
       Done, At, Calls, CallMade
  <2>1a. seen'.chosen = seen.chosen
    <3>1. CASE SwitchSaves(p)
      BY <1>5, <3>1 DEF SwitchSaves, History
    <3> QED BY <3>1 DEF Switching, SwitchRefused, SwitchWrites, SwitchBreaks, SwitchWritten, SwitchUnsaved, History
  <2>2. WatcherInv' /\ watch.step \in {"take", "move", "back"} /\ call[App].id = Wanted /\ Wanted' = Wanted
    BY <1>1, <2>1 DEF ChoiceInv, WatcherInv, Wanted
  <2>3. CASE SwitchSaves(p)
    <3>1. PICK code \in {"ok", "other"} :
            /\ call' = [call EXCEPT ![p].at = "done", ![p].code = code]
            /\ seen' = [seen EXCEPT !.alone = Touched(p), !.chosen = IF p = App THEN @ ELSE call[p].id,
                                    !.slipped = @ \/ code # "ok" \/ (p # App /\ Unseen(call[p].id))]
      BY <2>3 DEF SwitchSaves, Done
    <3>2. call'[App].at = "done" /\ call'[App].code = code
      BY <1>5, <3>1 DEF Calls
    <3>3. seen'.slipped = (seen.slipped \/ code # "ok" \/ (p # App /\ Unseen(call[p].id)))
      BY <3>1 DEF History
    <3>4. ASSUME Tracked' PROVE ChoiceHeld'
      <4>1. code = "ok" /\ CallMade' /\ Tracked
        BY <1>1, <2>1a, <2>1, <3>2, <3>3, <3>4 DEF Tracked, CallMade
      <4>2. ChoiceHeld
        BY <4>1 DEF ChoiceInv
      <4>3. Wanted # NoProfile /\ Current'.active = Wanted
        BY <1>3, <1>5, <2>2, <2>3, StateFacts DEF SwitchSaves, Readable
      <4> QED BY <1>1, <2>1a, <2>1, <2>2, <4>1, <4>2, <4>3 DEF ChoiceHeld
    <3> QED BY <2>2, <3>4 DEF ChoiceInv
  <2>4. CASE ~SwitchSaves(p)
    <3>1. ~CallMade' /\ seen'.slipped = seen.slipped
      BY <1>5, <2>4 DEF Switching, SwitchRefused, SwitchWrites, SwitchBreaks, SwitchWritten, SwitchUnsaved,
         Done, At, Calls, History, CallMade
    <3>2. Current'.active = Current.active \/ Current.active = NoProfile
      BY <2>4, PointerStays
    <3>3. ASSUME Tracked' PROVE ChoiceHeld'
      <4>1. ChoiceHeld /\ Current'.active = Current.active
        BY <1>1, <2>1a, <2>1, <3>1, <3>2, <3>3 DEF ChoiceInv, Tracked, ChoiceHeld
      <4> QED BY <1>1, <2>1a, <2>1, <2>2, <3>1, <4>1 DEF ChoiceHeld, Chosen
    <3> QED BY <2>2, <3>3 DEF ChoiceInv
  <2> QED BY <2>3, <2>4
<1> QED BY <1>2, <1>4, <1>5

LEMMA ChoiceByWrapper ==
  ASSUME LaunchInv, ChoiceInv, NEW w \in Wrappers, Wrapper(w)
  PROVE  ChoiceInv'
<1> USE LaunchFacts
<1>1. UNCHANGED <<app, watch, setter, call[App]>>
  BY DEF Wrapper, WrapperMoves, WrapperStarts, FirstProbe, ProbeDone, Prepare, BeginSwitch, SwitchReturns, SwitchTimesOut,
     RunCommand, AbortLaunch, AwaitSwitch, Reprobe, BeginRestore, RestoreReturns, RestoreTimesOut, Signal, CommandEnds, Begin
<1>2. seen'.chosen = seen.chosen /\ seen'.slipped = seen.slipped
  BY DEF Wrapper, WrapperMoves, WrapperStarts, FirstProbe, ProbeDone, Prepare, BeginSwitch, SwitchReturns, SwitchTimesOut,
     RunCommand, AbortLaunch, AwaitSwitch, Reprobe, BeginRestore, RestoreReturns, RestoreTimesOut, Signal, CommandEnds,
     Probe, Warn, History
<1>3. Current'.active = Current.active \/ Current.active = NoProfile
  BY WrapperWrites
<1> QED BY <1>1, <1>2, <1>3, ChoiceKept

LEMMA RestingFacts ==
  /\ ~Resting.active /\ Resting.step = "idle"
  /\ \A on \in BOOLEAN : LET watching == [Resting EXCEPT !.on = on]
                         IN  ~watching.active /\ watching.step = "idle"
BY DEF Resting

\* The watcher starts anew, with what it finds as the choice.
LEMMA ChoiceFound ==
  ASSUME LaunchInv, watch'.step = "idle", ~watch'.active, app' = "open", call'[App].at = "none",
         seen'.chosen = Current.active, Current'.active = Current.active
  PROVE  ChoiceInv'
<1>1. WatcherInv'
  BY DEF WatcherInv
<1>2. Tracked' => ChoiceHeld'
  BY DEF Tracked, ChoiceHeld, Chosen
<1> QED BY <1>1, <1>2 DEF ChoiceInv

LEMMA ChoiceByApplication ==
  ASSUME LaunchInv, ChoiceInv, Application
  PROVE  ChoiceInv'
<1> USE LaunchFacts, WatcherFacts
<1>1. app # "open" => call[App].at = "none"
  BY RestingFacts DEF ChoiceInv, WatcherInv
<1>2. CASE OpenApp \/ LockHeld
  <2>1. app # "open" /\ app' # "open" /\ watch' = watch /\ setter' = setter /\ call' = call
    BY <1>2 DEF Application, OpenApp, TakeLock, LockHeld, OpenUnlocked, CloseApp, UserSwitches, SaveSettings, ApplySettings, SettingsUnread
  <2> QED BY <1>1, <2>1 DEF ChoiceInv, WatcherInv, Tracked
<1>3. CASE (TakeLock \/ OpenUnlocked) /\ UNCHANGED <<mouse, call, reset, inApp, spent>>
  <2>1. PICK unread \in BOOLEAN : watch' = [Resting EXCEPT !.on = Current.on /\ ~unread]
    BY <1>3 DEF TakeLock, OpenUnlocked, StartWatcher
  <2>2. app = "opening" /\ app' = "open" /\ call' = call
    BY <1>3 DEF TakeLock, OpenUnlocked, StartWatcher
  <2>3. seen'.chosen = Current.active
    BY <1>3 DEF TakeLock, OpenUnlocked, StartWatcher, History
  <2>4. ~watch'.active /\ watch'.step = "idle"
    BY <2>1 DEF Resting
  <2>5. Current'.active = Current.active
    BY <2>2, ApplicationWrites DEF UserSwitches
  <2> QED BY <1>1, <2>2, <2>3, <2>4, <2>5, ChoiceFound
<1>4. CASE CloseApp
  <2>1. watch' = Resting /\ setter' = "none" /\ call'[App].at = "none" /\ app' = "closed"
    BY <1>4 DEF CloseApp, Idle
  <2> QED BY <2>1, RestingFacts DEF ChoiceInv, WatcherInv, Tracked
<1>5. ASSUME NEW id \in Profiles, UserSwitches(id)
      PROVE  ChoiceInv'
  <2>1. UNCHANGED <<app, watch, setter, call[App]>> /\ seen'.chosen = id /\ seen'.slipped = (seen.slipped \/ Unseen(id))
    BY <1>5 DEF UserSwitches, History
  <2>2. Current'.active = id
    <3> DEFINE new == [Current EXCEPT !.active = id]
    <3>1. new \in Content /\ new.whole = Current.whole /\ new.lock = Current.lock /\ new.active = id
      BY DEF Content
    <3> HIDE DEF new
    <3>2. Write(new) /\ UNCHANGED <<placed, flock, purge, found>>
      BY <1>5 DEF UserSwitches, new
    <3> QED BY <3>1, <3>2, FileWritten
  <2>3. seen'.slipped \in BOOLEAN /\ (Unseen(id) => seen'.slipped) /\ id \in Ids
    BY <2>1 DEF Unseen
  <2> QED BY <2>1, <2>2, <2>3, ChoiceMade DEF ChoiceInv
<1>6. CASE ~\E id \in Profiles : UserSwitches(id)
  <2>1. Current'.active = Current.active
    BY <1>6, ApplicationWrites
  <2>2. CASE (SaveSettings /\ call' = call) \/ (SettingsUnread /\ call' = call)
    BY <2>1, <2>2, ChoiceKept DEF SaveSettings, SettingsUnread
  <2>3. CASE ApplySettings /\ call' = call
    <3>1. CASE watch.on = Current.on
      <4>1. watch' = watch /\ app' = app /\ setter' = "none" /\ seen'.chosen = seen.chosen /\ seen'.slipped = seen.slipped
        BY <2>3, <3>1 DEF ApplySettings, Applied, History
      <4> QED BY <2>1, <2>3, <4>1, ChoiceKept
    <3>2. CASE watch.on # Current.on
      <4>1. watch' = [Resting EXCEPT !.on = Current.on] /\ seen'.chosen = Current.active /\ app' = app
        BY <2>3, <3>2 DEF ApplySettings, Applied, History
      <4>2. watch'.step = "idle" /\ ~watch'.active
        BY <4>1 DEF Resting
      <4>3. call[App].at = "none"
        BY <2>3 DEF ApplySettings, ChoiceInv, WatcherInv
      <4>4. WatcherInv'
        BY <2>3, <4>1, <4>2, <4>3 DEF WatcherInv, ChoiceInv, ApplySettings
      <4>5. Tracked' => ChoiceHeld'
        BY <2>1, <4>1, <4>2 DEF Tracked, ChoiceHeld, Chosen
      <4> QED BY <4>4, <4>5 DEF ChoiceInv
    <3> QED BY <3>1, <3>2
  <2> QED BY <1>2, <1>3, <1>4, <1>6, <2>2, <2>3 DEF Application
<1> QED BY <1>5, <1>6

LEMMA ChoiceByWatcher ==
  ASSUME LaunchInv, ChoiceInv, Watcher
  PROVE  ChoiceInv'
<1> USE LaunchFacts, WatcherFacts
<1>1. UNCHANGED <<app, setter>>
  BY DEF Watcher
<1>2. app # "open" => watch = Resting /\ setter = "none"
  BY DEF ChoiceInv, WatcherInv
<1>3. app = "open"
  <2>1. watch.on \/ watch.step # "idle"
    BY DEF Watcher, Tick, Compare, ReadPrevious, TickSwitches, TickEnds
  <2> QED BY <1>2, <2>1 DEF Resting
<1>4. CASE Tick
  <2>1. /\ Current' = Current /\ call' = call /\ seen' = seen /\ call[App].at = "none" /\ watch.step = "idle"
        /\ \/ watch.active /\ watch' = [watch EXCEPT !.step = "compare", !.next = Match]
           \/ ~watch.active /\ watch' = [watch EXCEPT !.step = "match", !.next = Match]
    BY <1>4, AllKept DEF Tick, Free
  <2>2. /\ watch'.on = watch.on /\ watch'.active = watch.active /\ watch'.setID = watch.setID
        /\ watch'.previous = watch.previous /\ watch'.step = (IF watch.active THEN "compare" ELSE "match")
    BY <2>1 DEF Watch
  <2>3. WatcherInv'
    BY <1>1, <1>3, <2>1, <2>2 DEF WatcherInv
  <2>4. Tracked' => ChoiceHeld'
    BY <1>1, <2>1, <2>2 DEF ChoiceInv, Tracked, ChoiceHeld, Chosen, Own
  <2> QED BY <2>3, <2>4 DEF ChoiceInv
<1>5. CASE Compare
  <2>1. PICK id \in Ids :
          /\ GetProfiles(id)
          /\ watch' =
               CASE id # watch.setID ->
                      [watch EXCEPT !.active = FALSE, !.step = IF watch.next = NoGame THEN "idle" ELSE "match"]
                 [] id = watch.setID /\ watch.next # NoGame -> [watch EXCEPT !.step = "move"]
                 [] id = watch.setID /\ watch.next = NoGame /\ watch.previous # NoProfile ->
                      [watch EXCEPT !.step = "back"]
                 [] OTHER -> [watch EXCEPT !.active = FALSE, !.step = "idle"]
          /\ seen' = [seen EXCEPT !.slipped = @ \/ id = NoProfile \/ watch.previous = NoProfile]
    BY <1>5 DEF Compare
  <2>2. call' = call /\ call[App].at = "none" /\ watch.step = "compare" /\ watch.active
    BY <1>5 DEF Compare, Free, ChoiceInv, WatcherInv
  <2>3. /\ seen'.chosen = seen.chosen /\ (~seen'.slipped => ~seen.slipped /\ id # NoProfile /\ watch.previous # NoProfile)
    BY <2>1 DEF History
  <2>4. /\ watch'.on = watch.on /\ watch'.setID = watch.setID /\ watch'.previous = watch.previous
        /\ \/ id # watch.setID /\ ~watch'.active /\ watch'.step \in {"idle", "match"}
           \/ id = watch.setID /\ watch'.active /\ watch'.step \in {"move", "back"}
           \/ watch.previous = NoProfile /\ ~watch'.active /\ watch'.step = "idle"
    BY <2>1, <2>2 DEF Watch
  <2>5. WatcherInv'
    BY <1>1, <1>3, <2>2, <2>4 DEF WatcherInv
  <2>6. ASSUME Tracked' PROVE ChoiceHeld'
    <3>1. ChoiceHeld /\ id # NoProfile /\ watch.previous # NoProfile
      BY <1>1, <2>3, <2>4, <2>6 DEF ChoiceInv, Tracked
    <3>2. Current'.active = Current.active /\ id = Current.active
      BY <2>1, <3>1, ProfilesRead DEF ChoiceHeld
    <3>3. Own \/ (Chosen /\ seen.chosen # watch.setID)
      BY <2>2, <3>1 DEF ChoiceHeld
    <3> QED BY <2>2, <2>3, <2>4, <3>1, <3>2, <3>3 DEF ChoiceHeld, Chosen, Own, CallMade
  <2> QED BY <2>5, <2>6 DEF ChoiceInv
<1>6. CASE ReadPrevious
  <2>1. PICK id \in Ids : GetProfiles(id) /\ watch' = [watch EXCEPT !.step = "take", !.found = id]
    BY <1>6 DEF ReadPrevious
  <2>2. call' = call /\ seen' = seen /\ call[App].at = "none" /\ watch.step = "match"
    BY <1>6 DEF ReadPrevious, Free
  <2>3. watch'.on = watch.on /\ watch'.active = watch.active /\ watch'.step = "take" /\ watch'.found = id
    BY <2>1 DEF Watch
  <2>4. WatcherInv'
    BY <1>1, <1>3, <2>2, <2>3 DEF WatcherInv, ChoiceInv
  <2>5. ASSUME Tracked' PROVE ChoiceHeld'
    <3>1. ChoiceHeld /\ Chosen
      BY <1>1, <2>2, <2>3, <2>5 DEF ChoiceInv, Tracked, ChoiceHeld
    <3>2. Current'.active = Current.active /\ (id = NoProfile \/ id = Current.active)
      BY <2>1, <3>1, ProfilesRead DEF ChoiceHeld
    <3> QED BY <2>2, <2>3, <3>1, <3>2 DEF ChoiceHeld, Chosen, CallMade
  <2> QED BY <2>4, <2>5 DEF ChoiceInv
<1>7. CASE TickSwitches
  <2>1. /\ Current' = Current /\ watch' = watch /\ seen' = seen /\ watch.step \in {"take", "move", "back"}
        /\ call[App].at = "none"
    BY <1>7, AllKept DEF TickSwitches, Begin, Free
  <2>2. call'[App] = [at |-> "begun", id |-> Wanted, code |-> "ok"]
    BY <1>7 DEF TickSwitches, Begin
  <2>3. WatcherInv'
    BY <1>1, <1>3, <2>1, <2>2 DEF WatcherInv, ChoiceInv, Wanted
  <2>4. Tracked' => ChoiceHeld'
    BY <1>1, <2>1, <2>2 DEF ChoiceInv, Tracked, ChoiceHeld, Chosen, Own, CallMade
  <2> QED BY <2>3, <2>4 DEF ChoiceInv
<1>8. CASE TickEnds
  <2>1. /\ Current' = Current /\ seen' = seen /\ watch.step \in {"take", "move", "back"}
        /\ call[App].at = "done" /\ call'[App].at = "none"
        /\ watch' = [(IF call[App].code = "ok" THEN Switched ELSE watch) EXCEPT !.step = "idle"]
    BY <1>8, AllKept DEF TickEnds, Idle
  <2> DEFINE Ended == IF watch'.active THEN Own' ELSE Chosen'
  <2>2. /\ watch'.step = "idle" /\ watch'.on = watch.on
        /\ Tracked => Ended
    <3>1. CASE call[App].code # "ok"
      <4>1. watch' = [watch EXCEPT !.step = "idle"]
        BY <2>1, <3>1
      <4>2. /\ watch'.step = "idle" /\ watch'.on = watch.on /\ watch'.active = watch.active
            /\ watch'.setID = watch.setID /\ watch'.previous = watch.previous
        BY <4>1 DEF Watch
      <4>3. ~CallMade /\ WatcherInv /\ (Tracked => ChoiceHeld)
        BY <3>1 DEF CallMade, ChoiceInv
      <4>4. CASE watch.step = "take"
        BY <2>1, <4>2, <4>3, <4>4 DEF WatcherInv, ChoiceHeld, Chosen
      <4>5. CASE watch.step \in {"move", "back"}
        BY <2>1, <4>2, <4>3, <4>5 DEF WatcherInv, ChoiceHeld, Own
      <4> QED BY <2>1, <4>2, <4>4, <4>5
    <3>2. CASE call[App].code = "ok" /\ watch.step = "take"
      <4>1. watch' = [[watch EXCEPT !.active = TRUE, !.current = watch.next,
                                    !.setID = Rule[watch.next], !.previous = watch.found] EXCEPT !.step = "idle"]
        BY <2>1, <3>2 DEF Switched
      <4>2. /\ watch'.step = "idle" /\ watch'.on = watch.on /\ watch'.active
            /\ watch'.setID = Wanted /\ watch'.previous = watch.found
        BY <3>2, <4>1 DEF Watch, Wanted
      <4> QED BY <2>1, <3>2, <4>2 DEF ChoiceInv, Tracked, ChoiceHeld, Own, CallMade
    <3>3. CASE call[App].code = "ok" /\ watch.step = "move"
      <4>1. watch' = [[watch EXCEPT !.current = watch.next, !.setID = Rule[watch.next]] EXCEPT !.step = "idle"]
        BY <2>1, <3>3 DEF Switched
      <4>2. /\ watch'.step = "idle" /\ watch'.on = watch.on /\ watch'.active = watch.active
            /\ watch'.setID = Wanted /\ watch'.previous = watch.previous
        BY <3>3, <4>1 DEF Watch, Wanted
      <4> QED BY <2>1, <3>3, <4>2 DEF ChoiceInv, WatcherInv, Tracked, ChoiceHeld, Own, CallMade
    <3>4. CASE call[App].code = "ok" /\ watch.step = "back"
      <4>1. watch' = [[watch EXCEPT !.active = FALSE] EXCEPT !.step = "idle"]
        BY <2>1, <3>4 DEF Switched
      <4>2. watch'.step = "idle" /\ watch'.on = watch.on /\ ~watch'.active /\ Wanted = watch.previous
        BY <3>4, <4>1 DEF Watch, Wanted
      <4>3. Tracked => watch.previous = seen.chosen /\ Current.active = Wanted
        BY <2>1, <3>4 DEF ChoiceInv, ChoiceHeld, CallMade
      <4>4. Tracked => Chosen'
        BY <2>1, <4>2, <4>3 DEF Chosen
      <4> QED BY <4>2, <4>4
    <3> QED BY <2>1, <3>1, <3>2, <3>3, <3>4
  <2>3. WatcherInv'
    BY <1>1, <1>3, <2>1, <2>2 DEF WatcherInv
  <2>4. ASSUME Tracked' PROVE ChoiceHeld'
    <3>1. Tracked /\ Ended /\ Current'.active # NoProfile
      BY <1>1, <2>1, <2>2, <2>4 DEF Tracked, ChoiceInv, ChoiceHeld
    <3> QED BY <2>2, <3>1 DEF ChoiceHeld
  <2> QED BY <2>3, <2>4 DEF ChoiceInv
<1> QED BY <1>4, <1>5, <1>6, <1>7, <1>8 DEF Watcher

LEMMA ChoiceByReset ==
  ASSUME LaunchInv, ChoiceInv, Reset
  PROVE  ChoiceInv'
<1> USE LaunchFacts
<1>1. UNCHANGED <<app, watch, setter, call>>
  BY DEF Reset
<1>2. CASE ResetStarts \/ ResetPurges
  <2>1. seen'.slipped
    BY <1>2 DEF ResetStarts, ResetPurges, History
  <2>2. WatcherInv'
    BY <1>1 DEF ChoiceInv, WatcherInv, Wanted
  <2> QED BY <2>1, <2>2 DEF ChoiceInv, Tracked
<1>3. CASE ResetFails \/ ResetWritten \/ ResetEnds
  <2>1. Current' = Current
    BY <1>3 DEF ResetFails, ResetWritten, ResetEnds, stateVars, Current, Here
  <2>2. seen'.chosen = seen.chosen /\ seen'.slipped = seen.slipped
    BY <1>3 DEF ResetFails, ResetWritten, ResetEnds, History
  <2> QED BY <1>1, <2>1, <2>2, ChoiceKept
<1> QED BY <1>2, <1>3 DEF Reset

LEMMA ChoiceStep ==
  ASSUME LaunchInv, ChoiceInv, [LaunchNext]_launchVars
  PROVE  ChoiceInv'
<1>1. CASE UNCHANGED launchVars \/ GamesChange \/ WriteBack
  <2>1. UNCHANGED <<app, watch, setter, call, seen>>
    BY <1>1 DEF GamesChange, WriteBack, launchVars
  <2>2. Current' = Current
    BY <1>1 DEF GamesChange, WriteBack, WriteNames, launchVars, stateVars, Current, Here
  <2> QED BY <2>1, <2>2, ChoiceKept
<1> QED BY <1>1, ChoiceBySwitching, ChoiceByWrapper, ChoiceByApplication, ChoiceByWatcher, ChoiceByReset DEF LaunchNext

\* When the watcher has no game left, the profile that anybody else chose last is the
\* active one, however games and launches came and went (watcher.go's tick).
THEOREM ChoiceIsKept == LaunchSpec => []ChoiceReturns
<1>1. LaunchInit => ChoiceInv
  BY LaunchAssumption DEF LaunchInit, ChoiceInv, WatcherInv, Tracked, Idle, Resting
<1>2. LaunchInv /\ ChoiceInv /\ [LaunchNext]_launchVars => ChoiceInv'
  BY ChoiceStep
<1>3. ChoiceInv => ChoiceReturns
  BY DEF ChoiceInv, Tracked, ChoiceHeld, Chosen, ChoiceReturns
<1> QED BY <1>1, <1>2, <1>3, LaunchInductive, PTL DEF LaunchSpec
=============================================================================
