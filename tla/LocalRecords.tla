---------------------------- MODULE LocalRecords ----------------------------
(***************************************************************************)
(* Two local files and what writes them: the device store with its records *)
(* and its migration of the old single-mouse files, and the macro library. *)
(*                                                                         *)
(* Both replace their file by a synced temporary and a rename, so a file's *)
(* name always gives a whole document. The device store syncs the          *)
(* directory afterwards, the library does not. A kill leaves what the      *)
(* directory shows; a power loss leaves, of each file by itself, what the  *)
(* kernel wrote back, in any order. A temporary left over is not read.     *)
(***************************************************************************)
EXTENDS Integers

CONSTANTS
  Mice,        \* mice with a serial number, whose records are saved
  Values,      \* settings of a lane
  Default,     \* what a record that is missing, or a field it lacks, reads as
  LegacyDpi,   \* the DPI setting of the old files
  Wrapped,     \* an old import that stored both files instead of the setting
  NoMouse,     \* no migration recorded
  Libraries,   \* contents of the macro library
  EmptyLibrary, \* the library of a missing file
  MaxSaves,    \* bound on saves and library edits
  MaxCrashes   \* bound on kills and power losses

ASSUME ValuesAssumption ==
  /\ Default \in Values /\ LegacyDpi \in Values /\ Default # LegacyDpi /\ Wrapped \notin Values
ASSUME LibrariesAssumption == EmptyLibrary \in Libraries /\ NoMouse \notin Mice
ASSUME BoundsAssumption == MaxSaves \in Nat /\ MaxCrashes \in Nat

VARIABLES
  dir,      \* what the running system sees in the data directory
  kept,     \* what a power loss leaves of it
  saver,    \* the save that holds configMu
  mover,    \* the migration a refresh or a selection runs
  memory,   \* Library.macros
  pending,  \* the library mutation that holds Library.mu
  acked,    \* the setting of each mouse and lane whose save returned without an error
  tried,    \* the settings of saves begun since
  imported, \* history: MigrateV1 has returned MigrationImported
  saves,    \* saves and library edits so far
  crashes   \* kills and power losses so far

disk == <<dir, kept>>
records == <<saver, acked, tried, imported>>
library == <<memory, pending>>
counts == <<saves, crashes>>
vars == <<disk, records, mover, library, counts>>

Lanes == {"dpi", "polling"}
Sources == {"applied", "factory"}
Record == [exists : BOOLEAN, dpi : Values \cup {Wrapped}, polling : Values]
Directory ==
  [records : [Mice -> Record], migrated : Mice \cup {NoMouse},
   backup : [Sources -> {"none", "partial", "whole"}], library : Libraries]

NoRecord == [exists |-> FALSE, dpi |-> Default, polling |-> Default]
IdleSaver == [pc |-> "idle", mouse |-> NoMouse, lane |-> "dpi", value |-> Default, loaded |-> NoRecord]
IdleMover == [pc |-> "idle", mouse |-> NoMouse, writing |-> FALSE]
Unchanging == [to |-> EmptyLibrary, busy |-> FALSE]

RecordsTypeOK ==
  /\ {dir, kept} \subseteq Directory
  /\ saver \in [pc : {"idle", "loaded", "renamed"}, mouse : Mice \cup {NoMouse}, lane : Lanes,
                value : Values, loaded : Record]
  /\ mover \in [pc : {"idle", "applied", "factory", "import", "renamed"},
                mouse : Mice \cup {NoMouse}, writing : BOOLEAN]
  /\ memory \in Libraries
  /\ pending \in [to : Libraries, busy : BOOLEAN]
  /\ acked \in [Mice -> [Lanes -> Values \cup {NoMouse}]]
  /\ tried \in [Mice -> [Lanes -> SUBSET Values]]
  /\ imported \in BOOLEAN
  /\ saves \in 0..MaxSaves
  /\ crashes \in 0..MaxCrashes

\* Nothing saved yet, or a mouse imported by a version that stored the wrapper.
Init ==
  /\ \/ dir = [records |-> [m \in Mice |-> NoRecord], migrated |-> NoMouse,
               backup |-> [s \in Sources |-> "none"], library |-> EmptyLibrary]
     \/ \E old \in Mice :
          dir = [records |-> [m \in Mice |-> IF m = old THEN [NoRecord EXCEPT !.exists = TRUE, !.dpi = Wrapped]
                                                        ELSE NoRecord],
                 migrated |-> old, backup |-> [s \in Sources |-> "whole"], library |-> EmptyLibrary]
  /\ kept = dir /\ imported = (dir.migrated # NoMouse)
  /\ saver = IdleSaver
  /\ mover = IdleMover
  /\ memory = EmptyLibrary
  /\ pending = Unchanging
  /\ acked = [m \in Mice |-> [l \in Lanes |-> NoMouse]]
  /\ tried = [m \in Mice |-> [l \in Lanes |-> {}]]
  /\ saves = 0
  /\ crashes = 0

-----------------------------------------------------------------------------
\* The store's mutex: a save holds it from the rename to the sync, a migration
\* all along; a save's first reading took and released it.
StoreFree == saver.pc # "renamed" /\ mover.pc = "idle"

\* What a record reads as: a wrapper has none of the fields asked for.
ReadAs(r) == [r EXCEPT !.dpi = IF @ = Wrapped THEN Default ELSE @]

\* A record an old version imported as a wrapper of both files is unwrapped.
Normalized(r) == [r EXCEPT !.dpi = IF @ = Wrapped THEN LegacyDpi ELSE @]

\* saveDevice and saveDeviceConfig take configMu and load the record first.
LoadRecord(m, l, v) ==
  /\ saver.pc = "idle"
  /\ StoreFree
  /\ saves < MaxSaves
  /\ saver' = [pc |-> "loaded", mouse |-> m, lane |-> l, value |-> v, loaded |-> ReadAs(dir.records[m])]
  /\ tried' = [tried EXCEPT ![m][l] = @ \cup {v}]
  /\ saves' = saves + 1
  /\ UNCHANGED <<disk, mover, library, acked, imported, crashes>>

\* DeviceStore.Save reads the envelope again under its mutex and replaces the
\* file, or fails before the rename.
SaveRecord ==
  /\ saver.pc = "loaded"
  /\ StoreFree
  /\ \/ /\ dir' = [dir EXCEPT !.records[saver.mouse] =
                     [saver.loaded EXCEPT !.exists = TRUE, ![saver.lane] = saver.value]]
        /\ saver' = [saver EXCEPT !.pc = "renamed"]
     \/ saver' = IdleSaver /\ UNCHANGED dir
  /\ UNCHANGED <<kept, mover, library, acked, tried, imported, counts>>

\* Mutant: Save returns once the file is renamed.
SyncRecordSkipped ==
  /\ saver.pc = "renamed"
  /\ acked' = [acked EXCEPT ![saver.mouse][saver.lane] = saver.value]
  /\ tried' = [tried EXCEPT ![saver.mouse][saver.lane] = {}]
  /\ saver' = IdleSaver
  /\ UNCHANGED <<disk, mover, library, imported, counts>>

\* The directory is synced, or the save fails with the new file in place.
SyncRecord ==
  /\ saver.pc = "renamed"
  /\ \/ /\ kept' = dir
        /\ acked' = [acked EXCEPT ![saver.mouse][saver.lane] = saver.value]
        /\ tried' = [tried EXCEPT ![saver.mouse][saver.lane] = {}]
     \/ UNCHANGED <<kept, acked, tried>>
  /\ saver' = IdleSaver
  /\ UNCHANGED <<dir, mover, library, imported, counts>>

-----------------------------------------------------------------------------
\* MigrateV1, run for the mouse a refresh or a selection chose.

StartMigration(m) ==
  /\ StoreFree
  /\ LET linked == dir.migrated = m
         mine == dir.records[m]
     IN \/ ~linked /\ ~mine.exists /\ mover' = [IdleMover EXCEPT !.pc = "applied", !.mouse = m] /\ UNCHANGED dir
        \/ linked /\ mine.dpi = Wrapped
             /\ dir' = [dir EXCEPT !.records[m] = Normalized(@)]
             /\ mover' = [IdleMover EXCEPT !.pc = "renamed", !.mouse = m]
  /\ UNCHANGED <<kept, records, library, counts>>

\* Mutant: a backup that is there is taken to be equal.
BackupTaken(s, next) ==
  /\ mover.pc = s
  /\ ~mover.writing
  /\ \/ /\ dir.backup[s] = "none"
        /\ dir' = [dir EXCEPT !.backup[s] = "partial"]
        /\ mover' = [mover EXCEPT !.writing = TRUE]
     \/ dir.backup[s] # "none" /\ mover' = [mover EXCEPT !.pc = next] /\ UNCHANGED dir
  /\ UNCHANGED <<kept, records, library, counts>>

\* A backup is created under its final name. One that is there already must be
\* equal: a torn one ends this migration and every later one.
Backup(s, next) ==
  /\ mover.pc = s
  /\ ~mover.writing
  /\ \/ /\ dir.backup[s] = "none"
        /\ dir' = [dir EXCEPT !.backup[s] = "partial"]
        /\ mover' = [mover EXCEPT !.writing = TRUE]
     \/ dir.backup[s] = "whole" /\ mover' = [mover EXCEPT !.pc = next] /\ UNCHANGED dir
     \/ mover' = IdleMover /\ UNCHANGED dir
  /\ UNCHANGED <<kept, records, library, counts>>

\* Its contents are written and synced, or that fails and leaves it torn.
WriteBackup(s, next) ==
  /\ mover.pc = s
  /\ mover.writing
  /\ \/ /\ dir' = [dir EXCEPT !.backup[s] = "whole"]
        /\ kept' = [kept EXCEPT !.backup[s] = IF @ = "none" THEN "none" ELSE "whole"]
        /\ mover' = [mover EXCEPT !.pc = next, !.writing = FALSE]
     \/ mover' = IdleMover /\ UNCHANGED disk
  /\ UNCHANGED <<records, library, counts>>

Import ==
  /\ mover.pc = "import"
  /\ \/ /\ dir' = [dir EXCEPT !.records[mover.mouse] = [NoRecord EXCEPT !.exists = TRUE, !.dpi = LegacyDpi],
                              !.migrated = mover.mouse]
        /\ mover' = [mover EXCEPT !.pc = "renamed"]
     \/ mover' = IdleMover /\ UNCHANGED dir
  /\ UNCHANGED <<kept, records, library, counts>>

SyncMigration ==
  /\ mover.pc = "renamed"
  /\ mover' = IdleMover
  /\ \/ kept' = dir /\ imported' = TRUE
     \/ UNCHANGED <<kept, imported>>
  /\ UNCHANGED <<dir, saver, acked, tried, library, counts>>

-----------------------------------------------------------------------------
\* Library.Create, Update and Delete: the file first, then the memory. Open
\* reads the file. What the changes are does not matter here.
ChangeLibrary(to) ==
  /\ ~pending.busy
  /\ saves < MaxSaves
  /\ pending' = [to |-> to, busy |-> TRUE]
  /\ saves' = saves + 1
  /\ UNCHANGED <<disk, records, mover, memory, crashes>>

PersistLibrary ==
  /\ pending.busy
  /\ dir.library # pending.to
  /\ dir' = [dir EXCEPT !.library = pending.to]
  /\ UNCHANGED <<kept, records, mover, library, counts>>

\* The new contents are shown, or persist failed before its rename.
ShowLibrary ==
  /\ pending.busy
  /\ memory' = IF dir.library = pending.to THEN pending.to ELSE memory
  /\ pending' = Unchanging
  /\ UNCHANGED <<disk, records, mover, counts>>

-----------------------------------------------------------------------------
\* The kernel writes a name back when it likes, each by itself: the device file's,
\* a backup's, the library's.
WriteBackName ==
  /\ \/ kept' = [kept EXCEPT !.records = dir.records, !.migrated = dir.migrated]
     \/ \E s \in Sources : kept' = [kept EXCEPT !.backup[s] = dir.backup[s]]
     \/ kept' = [kept EXCEPT !.library = dir.library]
  /\ kept' # kept
  /\ UNCHANGED <<dir, records, mover, library, counts>>

\* The program is killed, or the machine loses power; then it starts again.
Crash(left) ==
  /\ crashes < MaxCrashes
  /\ crashes' = crashes + 1
  /\ dir' = left
  /\ saver' = IdleSaver
  /\ mover' = IdleMover
  /\ pending' = Unchanging
  /\ memory' = left.library
  /\ UNCHANGED <<kept, acked, tried, imported, saves>>

Next ==
  \/ \E m \in Mice, l \in Lanes, v \in Values : LoadRecord(m, l, v)
  \/ SaveRecord \/ SyncRecord
  \/ \E m \in Mice : StartMigration(m)
  \/ Backup("applied", "factory") \/ WriteBackup("applied", "factory")
  \/ Backup("factory", "import") \/ WriteBackup("factory", "import")
  \/ Import \/ SyncMigration
  \/ \E to \in Libraries : ChangeLibrary(to)
  \/ PersistLibrary \/ ShowLibrary
  \/ WriteBackName \/ Crash(dir) \/ Crash(kept)

Spec == Init /\ [][Next]_vars

-----------------------------------------------------------------------------

\* A setting whose save returned without an error is what a restart reads, after
\* a kill and after a power loss, until a later save of it begins: no failed
\* save, no save of the other lane or mouse and no migration takes it back. The
\* library shows what a restart after a kill reads.
RestartReadsSaved ==
  /\ \A m \in Mice, l \in Lanes : acked[m][l] # NoMouse =>
       \A left \in {dir, kept} : left.records[m][l] \in tried[m][l] \cup {acked[m][l]}
  /\ ~pending.busy => memory = dir.library

\* "AttachMigrator wires backup-first legacy migration": a migration records its
\* import only with both old files whole beside it, and once it has returned that it
\* has imported them, record and files are there whatever a kill or a power loss
\* leaves. Before that, between the rename of the record and the directory's sync, a
\* power loss may leave the record alone.
BackupFirst ==
  /\ mover.pc = "import" => \A s \in Sources : dir.backup[s] = "whole"
  /\ imported => \A left \in {dir, kept} :
       left.migrated # NoMouse /\ \A s \in Sources : left.backup[s] = "whole"
=============================================================================
