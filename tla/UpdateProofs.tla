---------------------------- MODULE UpdateProofs ----------------------------
(* Proofs about the replacement of the program and the service above it, for *)
(* any releases, files and policies.                                         *)
EXTENDS UnifiedUpdate, TLAPS

-----------------------------------------------------------------------------
(* The inductive invariant                                                   *)

\* A recovery of d finds a whole program, and names only files that were made.
Sound(d) ==
    /\ Survivor(d) # NoFile
    /\ data[Survivor(d)] = "synced"
Made(d) == {d.installed, d.backup, d.temporary} \subseteq 0..created \cup {NoFile}

\* The version now applied is installed in d, with nothing left to recover.
Installed(d) ==
    /\ d.installed # NoFile
    /\ version[d.installed] = goal
    /\ ~d.marker

Downloaded == {"syncTemporary", "mark", "syncMark", "backUp", "syncBackup", "replace"}
Marked == {"target", "restore", "discard", "syncRecovered", "unmark",
           "syncMark", "backUp", "syncBackup", "replace", "syncReplaced"}
Unmarked == {"syncUnmarked", "mode", "removeStale", "openTemporary", "copy", "syncFile",
             "syncTemporary", "mark"}

\* What the directory looks like before each call.
DirectoryInv ==
    /\ Sound(dir) /\ Sound(disk)
    /\ Made(dir) /\ Made(disk)
    /\ pc \in Marked => dir.marker
    /\ pc \in Unmarked => ~dir.marker
    /\ pc \in {"restore", "syncBackup", "replace"} => dir.installed = NoFile
    /\ pc \in {"discard", "syncRecovered", "unmark", "syncMark", "backUp", "syncReplaced"} =>
         dir.installed # NoFile

\* The temporary file: no name of a program refers to it until it is in place.
TemporaryInv ==
    /\ pc \in Downloaded \cup {"copy", "syncFile"} =>
         dir.temporary = created /\ version[created] = goal
    /\ pc \in {"copy", "syncFile"} =>
         created \notin {dir.installed, dir.backup, disk.installed, disk.backup}
    /\ pc \in Downloaded => data[created] = "synced"
    /\ pc = "syncReplaced" => version[dir.installed] = goal

\* No program is newer than what the process runs and what it applies, and what
\* it applies is newer than what it runs.
VersionInv ==
    /\ pc # "off" => version[Survivor(dir)] <= running \/ version[Survivor(dir)] <= goal
    /\ pc \in ApplyCalls \/ (pc \in RecoverCalls /\ after = "apply") => running < goal
    /\ pc \in ApplyCalls => after = "apply"
    /\ pc \in RecoverCalls /\ after = "finish" =>
         /\ dir.installed # NoFile /\ disk.installed = dir.installed
         /\ version[dir.installed] = goal
         /\ pc = "inspect" => dir.marker

UpdaterInv == DirectoryInv /\ TemporaryInv /\ VersionInv

\* An operation that awaits a replacement, and what a return without error means.
Awaiting == (op = "plain" /\ ~complete) \/ (op = "unified" /\ AppDue)

ServiceInv ==
    /\ op = "none" => pc \in {"off", "idle", "failed"} \/ (pc \in RecoverCalls /\ after = "startup")
    /\ op # "none" /\ ~Awaiting => pc \in {"idle", "failed"}
    /\ Awaiting => pc \in {"idle", "failed"} \/ (pc \in RecoverCalls \cup ApplyCalls /\ after # "startup")
    /\ complete => pc = "idle"
    /\ complete \/ (Awaiting /\ pc = "idle") => Installed(dir) /\ Installed(disk)
    /\ checked /\ AppDue => verified = info.version

UpdateInv == UpdateTypeOK /\ UpdaterInv /\ ServiceInv /\ ApprovedIsShown /\ PolicyInstalledTruthful

-----------------------------------------------------------------------------
(* Names and files of the directory                                          *)

LEMMA FileTypes == Files \subseteq Nat /\ 0 \in Files /\ Versions \subseteq Nat /\ 0 \in Versions
BY UpdaterAssumption DEF Files, Versions

LEMMA DirectoryRecord ==
    ASSUME NEW d \in Directory
    PROVE  d = [installed |-> d.installed, backup |-> d.backup, temporary |-> d.temporary, marker |-> d.marker]
BY DEF Directory

LEMMA RenameBackup ==
    ASSUME dir \in Directory
    PROVE  Rename("backup", "installed") =
             [installed |-> dir.backup, backup |-> NoFile, temporary |-> dir.temporary, marker |-> dir.marker]
<1> DEFINE r == Rename("backup", "installed")
<1>1. r = [dir EXCEPT !.installed = dir.backup, !.backup = NoFile]
  BY DEF Rename
<1>2. r \in Directory
  BY <1>1 DEF Directory, Entry
<1>3. /\ r.installed = dir.backup /\ r.backup = NoFile
      /\ r.temporary = dir.temporary /\ r.marker = dir.marker
  BY <1>1 DEF Directory
<1> HIDE DEF r
<1>4. r = [installed |-> r.installed, backup |-> r.backup, temporary |-> r.temporary, marker |-> r.marker]
  BY <1>2, DirectoryRecord
<1>5. r = [installed |-> dir.backup, backup |-> NoFile, temporary |-> dir.temporary, marker |-> dir.marker]
  BY <1>3, <1>4
<1> QED BY <1>5 DEF r

LEMMA RenameInstalled ==
    ASSUME dir \in Directory
    PROVE  Rename("installed", "backup") =
             [installed |-> NoFile, backup |-> dir.installed, temporary |-> dir.temporary, marker |-> dir.marker]
<1> DEFINE r == Rename("installed", "backup")
<1>1. r = [dir EXCEPT !.backup = dir.installed, !.installed = NoFile]
  BY DEF Rename
<1>2. r \in Directory
  BY <1>1 DEF Directory, Entry
<1>3. /\ r.backup = dir.installed /\ r.installed = NoFile
      /\ r.temporary = dir.temporary /\ r.marker = dir.marker
  BY <1>1 DEF Directory
<1> HIDE DEF r
<1>4. r = [installed |-> r.installed, backup |-> r.backup, temporary |-> r.temporary, marker |-> r.marker]
  BY <1>2, DirectoryRecord
<1>5. r = [installed |-> NoFile, backup |-> dir.installed, temporary |-> dir.temporary, marker |-> dir.marker]
  BY <1>3, <1>4
<1> QED BY <1>5 DEF r

LEMMA RenameTemporary ==
    ASSUME dir \in Directory
    PROVE  Rename("temporary", "installed") =
             [installed |-> dir.temporary, backup |-> dir.backup, temporary |-> NoFile, marker |-> dir.marker]
<1> DEFINE r == Rename("temporary", "installed")
<1>1. r = [dir EXCEPT !.installed = dir.temporary, !.temporary = NoFile]
  BY DEF Rename
<1>2. r \in Directory
  BY <1>1 DEF Directory, Entry
<1>3. /\ r.installed = dir.temporary /\ r.temporary = NoFile
      /\ r.backup = dir.backup /\ r.marker = dir.marker
  BY <1>1 DEF Directory
<1> HIDE DEF r
<1>4. r = [installed |-> r.installed, backup |-> r.backup, temporary |-> r.temporary, marker |-> r.marker]
  BY <1>2, DirectoryRecord
<1>5. r = [installed |-> dir.temporary, backup |-> dir.backup, temporary |-> NoFile, marker |-> dir.marker]
  BY <1>3, <1>4
<1> QED BY <1>5 DEF r

LEMMA RemoveBackup ==
    ASSUME dir \in Directory
    PROVE  Remove("backup") =
             [installed |-> dir.installed, backup |-> NoFile, temporary |-> dir.temporary, marker |-> dir.marker]
<1>1. Remove("backup") = [dir EXCEPT !.backup = NoFile]
  BY DEF Remove
<1> QED BY <1>1 DEF Directory

LEMMA RemoveTemporaryName ==
    ASSUME dir \in Directory
    PROVE  Remove("temporary") =
             [installed |-> dir.installed, backup |-> dir.backup, temporary |-> NoFile, marker |-> dir.marker]
<1>1. Remove("temporary") = [dir EXCEPT !.temporary = NoFile]
  BY DEF Remove
<1> QED BY <1>1 DEF Directory

LEMMA SetMarker ==
    ASSUME dir \in Directory, NEW m \in BOOLEAN
    PROVE  [dir EXCEPT !.marker = m] =
             [installed |-> dir.installed, backup |-> dir.backup, temporary |-> dir.temporary, marker |-> m]
BY DEF Directory

LEMMA SetTemporary ==
    ASSUME dir \in Directory, NEW f \in Entry
    PROVE  [dir EXCEPT !.temporary = f] =
             [installed |-> dir.installed, backup |-> dir.backup, temporary |-> f, marker |-> dir.marker]
BY DEF Directory

\* Whatever a call does to one name, the result is a directory.
LEMMA DirectoryCalls ==
    ASSUME dir \in Directory
    PROVE  /\ Rename("backup", "installed") \in Directory
           /\ Rename("installed", "backup") \in Directory
           /\ Rename("temporary", "installed") \in Directory
           /\ Remove("backup") \in Directory /\ Remove("temporary") \in Directory
           /\ \A m \in BOOLEAN : [dir EXCEPT !.marker = m] \in Directory
<1>1. NoFile \in Entry /\ dir.installed \in Entry /\ dir.backup \in Entry /\ dir.temporary \in Entry
      /\ dir.marker \in BOOLEAN
  BY DEF Directory, Entry
<1>2. \A a, b, c \in Entry, m \in BOOLEAN :
         [installed |-> a, backup |-> b, temporary |-> c, marker |-> m] \in Directory
  BY DEF Directory
<1>3. Rename("backup", "installed") \in Directory
  BY <1>1, <1>2, RenameBackup
<1>4. Rename("installed", "backup") \in Directory
  BY <1>1, <1>2, RenameInstalled
<1>5. Rename("temporary", "installed") \in Directory
  BY <1>1, <1>2, RenameTemporary
<1>6. Remove("backup") \in Directory /\ Remove("temporary") \in Directory
  BY <1>1, <1>2, RemoveBackup, RemoveTemporaryName
<1>7. \A m \in BOOLEAN : [dir EXCEPT !.marker = m] \in Directory
  <2> TAKE m \in BOOLEAN
  <2>1. [dir EXCEPT !.marker = m] =
          [installed |-> dir.installed, backup |-> dir.backup, temporary |-> dir.temporary, marker |-> m]
    BY SetMarker
  <2> QED BY <1>1, <1>2, <2>1
<1> QED BY <1>3, <1>4, <1>5, <1>6, <1>7

-----------------------------------------------------------------------------
(* Types of the updater                                                      *)

LEMMA UpdaterInitTypes == UpdaterInit => UpdaterTypeOK
BY UpdaterAssumption, FileTypes DEF UpdaterInit, UpdaterTypeOK, Directory, Entry, Files, Versions, RecoverCalls

\* A call that leaves the files alone.
LEMMA CallTypes ==
    ASSUME UpdaterTypeOK, UNCHANGED contents, dir' \in Directory, disk' \in {dir, disk},
           pc' \in RecoverCalls \cup ApplyCalls \cup {"off", "idle", "failed"},
           after' \in {"startup", "apply", "finish"},
           running' \in Versions, goal' \in Versions, reported' \in Versions
    PROVE  UpdaterTypeOK'
BY DEF UpdaterTypeOK, contents

LEMMA RecoveryTypes == UpdaterTypeOK /\ Recovery => UpdaterTypeOK'
<1> SUFFICES ASSUME UpdaterTypeOK, Recovery PROVE UpdaterTypeOK'
  OBVIOUS
<1>1. UNCHANGED contents /\ disk' \in {dir, disk} /\ after' = after /\ running' = running /\ goal' = goal
  BY DEF Recovery, Inspect, Target, Restore, Discard, SyncRecovered, Sync, Unmark, SyncUnmarked
<1>2. pc' \in RecoverCalls \cup ApplyCalls \cup {"off", "idle", "failed"}
  BY DEF Recovery, Inspect, Target, Restore, Discard, SyncRecovered, Sync, Unmark, SyncUnmarked,
         Goto, Recovered, RecoverCalls, ApplyCalls
<1>3. dir' \in Directory
  <2>1. dir \in Directory
    BY DEF UpdaterTypeOK
  <2>2. Rename("backup", "installed") \in Directory /\ Remove("backup") \in Directory
        /\ [dir EXCEPT !.marker = FALSE] \in Directory
    BY <2>1, DirectoryCalls
  <2> QED BY <2>1, <2>2 DEF Recovery, Inspect, Target, Restore, Discard, SyncRecovered, Sync, Unmark, SyncUnmarked
<1>4. reported' \in Versions
  BY DEF UpdaterTypeOK, Recovery, Inspect, Target, Restore, Discard, SyncRecovered, Sync, Unmark, SyncUnmarked, Finish
<1> QED BY <1>1, <1>2, <1>3, <1>4, CallTypes DEF UpdaterTypeOK

LEMMA ApplicationTypes == UpdaterTypeOK /\ Application => UpdaterTypeOK'
<1> SUFFICES ASSUME UpdaterTypeOK, Application PROVE UpdaterTypeOK'
  OBVIOUS
<1>1. CASE OpenTemporary
  <2>1. created + 1 \in Files /\ created + 1 \in Entry
    BY <1>1, UpdaterAssumption DEF OpenTemporary, UpdaterTypeOK, Files, Entry
  <2>2. dir' \in Directory
    BY <1>1, <2>1, SetTemporary DEF OpenTemporary, UpdaterTypeOK, Directory
  <2> QED BY <1>1, <2>1, <2>2 DEF OpenTemporary, UpdaterTypeOK, Goto, ApplyCalls
<1>2. CASE Copy \/ SyncFile
  BY <1>2 DEF Copy, SyncFile, UpdaterTypeOK, Goto, ApplyCalls
<1>3. CASE ~OpenTemporary /\ ~(Copy \/ SyncFile)
  <2>1. UNCHANGED contents /\ disk' \in {dir, disk} /\ running' = running /\ goal' = goal /\ reported' = reported
        /\ after' \in {after, "finish"}
    BY <1>3 DEF Application, Mode, RemoveStale, SyncTemporary, Mark, SyncMark, BackUp, SyncBackup, InPlace,
                SyncReplaced, RemoveTemporary, Sync
  <2>2. pc' \in RecoverCalls \cup ApplyCalls \cup {"off", "idle", "failed"}
    BY <1>3 DEF Application, Mode, RemoveStale, SyncTemporary, Mark, SyncMark, BackUp, SyncBackup, InPlace,
                SyncReplaced, RemoveTemporary, Sync, Goto, RecoverCalls, ApplyCalls
  <2>3. dir' \in Directory
    <3>1. dir \in Directory
      BY DEF UpdaterTypeOK
    <3>2. Rename("installed", "backup") \in Directory /\ Rename("temporary", "installed") \in Directory
          /\ Remove("temporary") \in Directory /\ [dir EXCEPT !.marker = TRUE] \in Directory
      BY <3>1, DirectoryCalls
    <3> QED BY <1>3, <3>1, <3>2 DEF Application, Mode, RemoveStale, SyncTemporary, Mark, SyncMark, BackUp,
                SyncBackup, InPlace, SyncReplaced, RemoveTemporary, Sync
  <2> QED BY <2>1, <2>2, <2>3, CallTypes DEF UpdaterTypeOK
<1> QED BY <1>1, <1>2, <1>3

LEMMA ProcessTypes ==
    ASSUME UpdaterTypeOK, Start \/ Exit \/ WriteBack \/ PowerLoss \/ Fail \/ (\E v \in Versions : BeginApply(v))
    PROVE  UpdaterTypeOK'
<1>1. CASE PowerLoss
  BY <1>1 DEF PowerLoss, UpdaterTypeOK, Goto
<1>2. CASE Start
  <2>1. dir.installed \in Files
    BY <1>2 DEF Start, UpdaterTypeOK, Directory, Entry
  <2> QED BY <1>2, <2>1 DEF Start, UpdaterTypeOK, Goto, contents, RecoverCalls
<1>3. CASE Exit \/ WriteBack \/ Fail
  BY <1>3 DEF Exit, WriteBack, Fail, UpdaterTypeOK, Goto, contents, memory, ApplyCalls
<1>4. CASE \E v \in Versions : BeginApply(v)
  BY <1>4 DEF BeginApply, UpdaterTypeOK, Goto, contents, RecoverCalls
<1> QED BY <1>1, <1>2, <1>3, <1>4

LEMMA UpdaterStepTypes == UpdaterTypeOK /\ [UpdaterNext]_updaterVars => UpdaterTypeOK'
<1> SUFFICES ASSUME UpdaterTypeOK, [UpdaterNext]_updaterVars PROVE UpdaterTypeOK'
  OBVIOUS
<1>1. CASE UNCHANGED updaterVars
  BY <1>1 DEF updaterVars, contents, memory, UpdaterTypeOK
<1> QED BY <1>1, RecoveryTypes, ApplicationTypes, ProcessTypes DEF UpdaterNext

-----------------------------------------------------------------------------
(* The updater's calls keep the invariant                                    *)

LEMMA UpdaterInitInv == UpdaterInit => UpdaterInv
<1> SUFFICES ASSUME UpdaterInit PROVE UpdaterInv
  OBVIOUS
<1>1. 0 \in Files /\ 0 # NoFile
  BY FileTypes, UpdaterAssumption
<1>2. dir.installed = 0 /\ disk.installed = 0 /\ dir.marker = FALSE /\ disk.marker = FALSE
      /\ dir.backup = NoFile /\ dir.temporary = NoFile /\ disk = dir /\ data[0] = "synced" /\ created = 0
  BY <1>1 DEF UpdaterInit
<1>3. Survivor(dir) = 0 /\ Survivor(disk) = 0
  BY <1>1, <1>2 DEF Survivor
<1>4. DirectoryInv
  BY <1>1, <1>2, <1>3 DEF DirectoryInv, Sound, Made, Marked, Unmarked, UpdaterInit
<1> QED BY <1>4 DEF UpdaterInv, TemporaryInv, VersionInv, UpdaterInit, Downloaded, ApplyCalls, RecoverCalls

\* Calls that leave the files and both directories alone.
LEMMA QuietPreserves ==
    ASSUME UpdaterTypeOK, UpdaterInv,
           Start \/ Exit \/ Fail \/ (\E v \in Versions : BeginApply(v)) \/ Inspect \/ Target \/ Mode
    PROVE  UpdaterInv'
<1>1. UNCHANGED <<dir, disk, version, data, created>>
  BY DEF Start, Exit, Fail, BeginApply, Inspect, Target, Mode, contents
<1>2. /\ Sound(dir)' /\ Sound(disk)' /\ Made(dir)' /\ Made(disk)' /\ Survivor(dir)' = Survivor(dir)
      /\ dir.marker \in BOOLEAN
  BY <1>1 DEF UpdaterInv, DirectoryInv, Sound, Made, Survivor, UpdaterTypeOK, Directory
<1>3. DirectoryInv'
  BY <1>1, <1>2 DEF UpdaterInv, DirectoryInv, Marked, Unmarked, Start, Exit, Fail, BeginApply, Inspect, Target, Mode,
       Goto, Recovered, RecoverCalls, ApplyCalls, Uncommitted
<1>4. TemporaryInv'
  BY <1>1, <1>2 DEF UpdaterInv, TemporaryInv, Downloaded, Start, Exit, Fail, BeginApply, Inspect, Target, Mode,
       Goto, Recovered, RecoverCalls, ApplyCalls, Uncommitted
<1>5. VersionInv'
  <2>1. /\ version[Survivor(dir)] \in Nat /\ running \in Nat /\ goal \in Nat
        /\ version[Survivor(dir)]' = version[Survivor(dir)]
    <3>1. Survivor(dir) \in Files
      BY DEF UpdaterInv, DirectoryInv, Sound, Survivor, UpdaterTypeOK, Directory, Entry
    <3> QED BY <1>1, <1>2, <3>1, FileTypes DEF UpdaterTypeOK
  <2>2. CASE Start
    <3>1. Survivor(dir) = dir.installed
      BY <2>2 DEF Start, Survivor
    <3> QED BY <1>1, <2>1, <2>2, <3>1 DEF Start, VersionInv, Goto, RecoverCalls, ApplyCalls
  <2>3. CASE \E v \in Versions : BeginApply(v)
    <3>1. PICK v \in Versions : BeginApply(v)
      BY <2>3
    <3>2. v \in Nat /\ pc # "off" /\ running < v /\ goal <= v /\ goal' = v /\ running' = running
      BY <3>1, FileTypes DEF BeginApply
    <3>3. version[Survivor(dir)] <= running \/ version[Survivor(dir)] <= goal
      BY <3>2 DEF UpdaterInv, VersionInv
    <3>4. version[Survivor(dir)]' <= running' \/ version[Survivor(dir)]' <= goal'
      BY <2>1, <3>2, <3>3
    <3> QED BY <3>1, <3>2, <3>4 DEF BeginApply, VersionInv, Goto, RecoverCalls, ApplyCalls
  <2>4. CASE Exit \/ Fail \/ Target \/ Mode
    BY <1>1, <2>1, <2>4 DEF UpdaterInv, VersionInv, Exit, Fail, Target, Mode, Goto, RecoverCalls, ApplyCalls, Uncommitted
  <2>5. CASE Inspect
    BY <1>1, <2>1, <2>5 DEF UpdaterInv, VersionInv, UpdaterTypeOK, Inspect, Goto, Recovered, RecoverCalls, ApplyCalls
  <2> QED BY <2>2, <2>3, <2>4, <2>5
<1> QED BY <1>3, <1>4, <1>5 DEF UpdaterInv

\* The disk is brought up to date.
LEMMA SyncPreserves ==
    ASSUME UpdaterTypeOK, UpdaterInv,
           \/ WriteBack \/ SyncRecovered \/ SyncUnmarked \/ SyncTemporary
           \/ SyncMark \/ SyncBackup \/ SyncReplaced
    PROVE  UpdaterInv'
<1>1. UNCHANGED <<dir, version, data, created, running, goal>> /\ disk' = dir
  BY DEF WriteBack, SyncRecovered, SyncUnmarked, SyncTemporary, SyncMark, SyncBackup, SyncReplaced, Sync, contents, memory
<1>2. /\ Sound(dir)' /\ Sound(disk)' /\ Made(dir)' /\ Made(disk)' /\ Survivor(dir)' = Survivor(dir)
      /\ dir.marker \in BOOLEAN
  BY <1>1 DEF UpdaterInv, DirectoryInv, Sound, Made, Survivor, UpdaterTypeOK, Directory
<1>3. DirectoryInv'
  BY <1>1, <1>2 DEF UpdaterInv, DirectoryInv, Marked, Unmarked, WriteBack, SyncRecovered, SyncUnmarked, SyncTemporary,
       SyncMark, SyncBackup, SyncReplaced, Sync, memory, Goto, Recovered
<1>4. TemporaryInv'
  BY <1>1, <1>2 DEF UpdaterInv, TemporaryInv, Downloaded, WriteBack, SyncRecovered, SyncUnmarked, SyncTemporary,
       SyncMark, SyncBackup, SyncReplaced, Sync, memory, Goto, Recovered
<1>5. VersionInv'
  BY <1>1, <1>2 DEF UpdaterInv, VersionInv, DirectoryInv, TemporaryInv, UpdaterTypeOK, Marked, WriteBack, SyncRecovered,
       SyncUnmarked, SyncTemporary, SyncMark, SyncBackup, SyncReplaced, Sync, memory, Goto, Recovered, RecoverCalls, ApplyCalls
<1> QED BY <1>3, <1>4, <1>5 DEF UpdaterInv

\* A file that may be the program has a number and a version.
LEMMA SurvivorTypes ==
    ASSUME UpdaterTypeOK, UpdaterInv
    PROVE  /\ Survivor(dir) \in Files /\ Survivor(disk) \in Files
           /\ version[Survivor(dir)] \in Nat /\ version[Survivor(disk)] \in Nat
           /\ running \in Nat /\ goal \in Nat /\ created \in Nat
<1>1. Survivor(dir) \in Files /\ Survivor(disk) \in Files
  BY DEF UpdaterInv, DirectoryInv, Sound, Survivor, UpdaterTypeOK, Directory, Entry
<1> QED BY <1>1, FileTypes DEF UpdaterTypeOK

\* Calls that change names only, and keep the program recovery would leave.
LEMMA NamesPreserve ==
    ASSUME UpdaterTypeOK, UpdaterInv, UNCHANGED <<disk, version, data, created, running, after, goal>>,
           NEW i \in Entry, NEW b \in Entry, NEW t \in Entry, NEW m \in BOOLEAN,
           dir' = [installed |-> i, backup |-> b, temporary |-> t, marker |-> m],
           {i, b, t} \subseteq {dir.installed, dir.backup, dir.temporary, NoFile}
    PROVE  /\ dir'.installed = i /\ dir'.backup = b /\ dir'.temporary = t /\ dir'.marker = m
           /\ Survivor(dir)' = (IF i = NoFile /\ m THEN b ELSE i)
           /\ Sound(disk)' /\ Made(dir)' /\ Made(disk)'
           /\ Survivor(dir)' = Survivor(dir) => Sound(dir)' /\ version[Survivor(dir)]' = version[Survivor(dir)]
<1>1. dir'.installed = i /\ dir'.backup = b /\ dir'.temporary = t /\ dir'.marker = m
  OBVIOUS
<1>2. Survivor(dir)' = (IF i = NoFile /\ m THEN b ELSE i)
  BY <1>1 DEF Survivor
<1>3. Sound(disk)' /\ Made(dir)' /\ Made(disk)'
  BY <1>1 DEF UpdaterInv, DirectoryInv, Sound, Survivor, Made
<1>4. Survivor(dir)' = Survivor(dir) => Sound(dir)' /\ version[Survivor(dir)]' = version[Survivor(dir)]
  BY DEF UpdaterInv, DirectoryInv, Sound
<1> QED BY <1>1, <1>2, <1>3, <1>4

LEMMA RestorePreserves == UpdaterTypeOK /\ UpdaterInv /\ Restore => UpdaterInv'
<1> SUFFICES ASSUME UpdaterTypeOK, UpdaterInv, Restore PROVE UpdaterInv'
  OBVIOUS
<1>1. /\ dir \in Directory /\ NoFile \in Entry /\ dir.installed \in Entry /\ dir.backup \in Entry
      /\ dir.temporary \in Entry /\ dir.marker \in BOOLEAN
  BY DEF UpdaterTypeOK, Directory, Entry
<1>2. UNCHANGED <<disk, version, data, created, running, after, goal>>
  BY DEF Restore, contents
<1>3. dir' = [installed |-> dir.backup, backup |-> NoFile, temporary |-> dir.temporary, marker |-> dir.marker]
  BY <1>1, RenameBackup DEF Restore
<1>4. /\ dir'.installed = dir.backup /\ dir'.backup = NoFile /\ dir'.temporary = dir.temporary /\ dir'.marker = dir.marker
      /\ Sound(disk)' /\ Made(dir)' /\ Made(disk)'
      /\ Survivor(dir)' = (IF dir.backup = NoFile /\ dir.marker THEN NoFile ELSE dir.backup)
      /\ Survivor(dir)' = Survivor(dir) => Sound(dir)' /\ version[Survivor(dir)]' = version[Survivor(dir)]
  BY <1>1, <1>2, <1>3, NamesPreserve
<1>5. Survivor(dir)' = Survivor(dir)
  BY <1>4 DEF Restore, Survivor, UpdaterInv, DirectoryInv, Marked, Unmarked
<1>6. DirectoryInv'
  BY <1>2, <1>4, <1>5 DEF Restore, Goto, UpdaterInv, DirectoryInv, Sound, Survivor, Marked, Unmarked
<1>7. TemporaryInv'
  BY <1>2, <1>4 DEF Restore, Goto, UpdaterInv, TemporaryInv, Downloaded
<1>8. VersionInv'
  BY <1>2, <1>4, <1>5 DEF Restore, Goto, UpdaterInv, DirectoryInv, VersionInv, Marked, RecoverCalls, ApplyCalls
<1> QED BY <1>6, <1>7, <1>8 DEF UpdaterInv

LEMMA DiscardPreserves == UpdaterTypeOK /\ UpdaterInv /\ Discard => UpdaterInv'
<1> SUFFICES ASSUME UpdaterTypeOK, UpdaterInv, Discard PROVE UpdaterInv'
  OBVIOUS
<1>1. /\ dir \in Directory /\ NoFile \in Entry /\ dir.installed \in Entry /\ dir.backup \in Entry
      /\ dir.temporary \in Entry /\ dir.marker \in BOOLEAN
  BY DEF UpdaterTypeOK, Directory, Entry
<1>2. UNCHANGED <<disk, version, data, created, running, after, goal>>
  BY DEF Discard, contents
<1>3. dir' = [installed |-> dir.installed, backup |-> NoFile, temporary |-> dir.temporary, marker |-> dir.marker]
  BY <1>1, RemoveBackup DEF Discard
<1>4. /\ dir'.installed = dir.installed /\ dir'.backup = NoFile /\ dir'.temporary = dir.temporary /\ dir'.marker = dir.marker
      /\ Sound(disk)' /\ Made(dir)' /\ Made(disk)'
      /\ Survivor(dir)' = (IF dir.installed = NoFile /\ dir.marker THEN NoFile ELSE dir.installed)
      /\ Survivor(dir)' = Survivor(dir) => Sound(dir)' /\ version[Survivor(dir)]' = version[Survivor(dir)]
  BY <1>1, <1>2, <1>3, NamesPreserve
<1>5. Survivor(dir)' = Survivor(dir)
  BY <1>4 DEF Discard, Survivor, UpdaterInv, DirectoryInv, Marked, Unmarked
<1>6. DirectoryInv'
  BY <1>2, <1>4, <1>5 DEF Discard, Goto, UpdaterInv, DirectoryInv, Sound, Survivor, Marked, Unmarked
<1>7. TemporaryInv'
  BY <1>2, <1>4 DEF Discard, Goto, UpdaterInv, TemporaryInv, Downloaded
<1>8. VersionInv'
  BY <1>2, <1>4, <1>5 DEF Discard, Goto, UpdaterInv, DirectoryInv, VersionInv, Marked, RecoverCalls, ApplyCalls
<1> QED BY <1>6, <1>7, <1>8 DEF UpdaterInv

LEMMA UnmarkPreserves == UpdaterTypeOK /\ UpdaterInv /\ Unmark => UpdaterInv'
<1> SUFFICES ASSUME UpdaterTypeOK, UpdaterInv, Unmark PROVE UpdaterInv'
  OBVIOUS
<1>1. /\ dir \in Directory /\ NoFile \in Entry /\ dir.installed \in Entry /\ dir.backup \in Entry
      /\ dir.temporary \in Entry /\ dir.marker \in BOOLEAN
  BY DEF UpdaterTypeOK, Directory, Entry
<1>2. UNCHANGED <<disk, version, data, created, running, after, goal>>
  BY DEF Unmark, contents
<1>3. dir' = [installed |-> dir.installed, backup |-> dir.backup, temporary |-> dir.temporary, marker |-> FALSE]
  BY <1>1, SetMarker DEF Unmark
<1>4. /\ dir'.installed = dir.installed /\ dir'.backup = dir.backup /\ dir'.temporary = dir.temporary /\ dir'.marker = FALSE
      /\ Sound(disk)' /\ Made(dir)' /\ Made(disk)'
      /\ Survivor(dir)' = dir.installed
      /\ Survivor(dir)' = Survivor(dir) => Sound(dir)' /\ version[Survivor(dir)]' = version[Survivor(dir)]
  BY <1>1, <1>2, <1>3, NamesPreserve
<1>5. Survivor(dir)' = Survivor(dir)
  BY <1>4 DEF Unmark, Survivor, UpdaterInv, DirectoryInv, Marked, Unmarked
<1>6. DirectoryInv'
  BY <1>2, <1>4, <1>5 DEF Unmark, Goto, UpdaterInv, DirectoryInv, Sound, Survivor, Marked, Unmarked
<1>7. TemporaryInv'
  BY <1>2, <1>4 DEF Unmark, Goto, UpdaterInv, TemporaryInv, Downloaded
<1>8. VersionInv'
  BY <1>2, <1>4, <1>5 DEF Unmark, Goto, UpdaterInv, DirectoryInv, VersionInv, Marked, RecoverCalls, ApplyCalls
<1> QED BY <1>6, <1>7, <1>8 DEF UpdaterInv

LEMMA MarkPreserves == UpdaterTypeOK /\ UpdaterInv /\ Mark => UpdaterInv'
<1> SUFFICES ASSUME UpdaterTypeOK, UpdaterInv, Mark PROVE UpdaterInv'
  OBVIOUS
<1>1. /\ dir \in Directory /\ NoFile \in Entry /\ dir.installed \in Entry /\ dir.backup \in Entry
      /\ dir.temporary \in Entry /\ dir.marker \in BOOLEAN
  BY DEF UpdaterTypeOK, Directory, Entry
<1>2. UNCHANGED <<disk, version, data, created, running, after, goal>>
  BY DEF Mark, contents
<1>3. dir' = [installed |-> dir.installed, backup |-> dir.backup, temporary |-> dir.temporary, marker |-> TRUE]
  BY <1>1, SetMarker DEF Mark
<1>4. /\ dir'.installed = dir.installed /\ dir'.backup = dir.backup /\ dir'.temporary = dir.temporary /\ dir'.marker = TRUE
      /\ Sound(disk)' /\ Made(dir)' /\ Made(disk)'
      /\ Survivor(dir)' = (IF dir.installed = NoFile THEN dir.backup ELSE dir.installed)
      /\ Survivor(dir)' = Survivor(dir) => Sound(dir)' /\ version[Survivor(dir)]' = version[Survivor(dir)]
  BY <1>1, <1>2, <1>3, NamesPreserve
<1>5. Survivor(dir)' = Survivor(dir)
  BY <1>4 DEF Mark, Survivor, UpdaterInv, DirectoryInv, Sound, Unmarked
<1>6. DirectoryInv'
  BY <1>2, <1>4, <1>5 DEF Mark, Goto, UpdaterInv, DirectoryInv, Sound, Survivor, Marked, Unmarked
<1>7. TemporaryInv'
  BY <1>2, <1>4 DEF Mark, Goto, UpdaterInv, TemporaryInv, Downloaded
<1>8. VersionInv'
  BY <1>2, <1>4, <1>5 DEF Mark, Goto, UpdaterInv, DirectoryInv, VersionInv, Marked, RecoverCalls, ApplyCalls
<1> QED BY <1>6, <1>7, <1>8 DEF UpdaterInv

LEMMA BackUpPreserves == UpdaterTypeOK /\ UpdaterInv /\ BackUp => UpdaterInv'
<1> SUFFICES ASSUME UpdaterTypeOK, UpdaterInv, BackUp PROVE UpdaterInv'
  OBVIOUS
<1>1. /\ dir \in Directory /\ NoFile \in Entry /\ dir.installed \in Entry /\ dir.backup \in Entry
      /\ dir.temporary \in Entry /\ dir.marker \in BOOLEAN
  BY DEF UpdaterTypeOK, Directory, Entry
<1>2. UNCHANGED <<disk, version, data, created, running, after, goal>>
  BY DEF BackUp, contents
<1>3. dir' = [installed |-> NoFile, backup |-> dir.installed, temporary |-> dir.temporary, marker |-> dir.marker]
  BY <1>1, RenameInstalled DEF BackUp
<1>4. /\ dir'.installed = NoFile /\ dir'.backup = dir.installed /\ dir'.temporary = dir.temporary /\ dir'.marker = dir.marker
      /\ Sound(disk)' /\ Made(dir)' /\ Made(disk)'
      /\ Survivor(dir)' = (IF dir.marker THEN dir.installed ELSE NoFile)
      /\ Survivor(dir)' = Survivor(dir) => Sound(dir)' /\ version[Survivor(dir)]' = version[Survivor(dir)]
  BY <1>1, <1>2, <1>3, NamesPreserve
<1>5. Survivor(dir)' = Survivor(dir)
  BY <1>4 DEF BackUp, Survivor, UpdaterInv, DirectoryInv, Marked, Unmarked
<1>6. DirectoryInv'
  BY <1>2, <1>4, <1>5 DEF BackUp, Goto, UpdaterInv, DirectoryInv, Sound, Survivor, Marked, Unmarked
<1>7. TemporaryInv'
  BY <1>2, <1>4 DEF BackUp, Goto, UpdaterInv, TemporaryInv, Downloaded
<1>8. VersionInv'
  BY <1>2, <1>4, <1>5 DEF BackUp, Goto, UpdaterInv, DirectoryInv, VersionInv, Marked, RecoverCalls, ApplyCalls
<1> QED BY <1>6, <1>7, <1>8 DEF UpdaterInv

LEMMA RemoveStalePreserves == UpdaterTypeOK /\ UpdaterInv /\ RemoveStale => UpdaterInv'
<1> SUFFICES ASSUME UpdaterTypeOK, UpdaterInv, RemoveStale PROVE UpdaterInv'
  OBVIOUS
<1>1. /\ dir \in Directory /\ NoFile \in Entry /\ dir.installed \in Entry /\ dir.backup \in Entry
      /\ dir.temporary \in Entry /\ dir.marker \in BOOLEAN
  BY DEF UpdaterTypeOK, Directory, Entry
<1>2. UNCHANGED <<disk, version, data, created, running, after, goal>>
  BY DEF RemoveStale, contents
<1>3. dir' = [installed |-> dir.installed, backup |-> dir.backup, temporary |-> NoFile, marker |-> dir.marker]
  BY <1>1, RemoveTemporaryName DEF RemoveStale
<1>4. /\ dir'.installed = dir.installed /\ dir'.backup = dir.backup /\ dir'.temporary = NoFile /\ dir'.marker = dir.marker
      /\ Sound(disk)' /\ Made(dir)' /\ Made(disk)'
      /\ Survivor(dir)' = (IF dir.installed = NoFile /\ dir.marker THEN dir.backup ELSE dir.installed)
      /\ Survivor(dir)' = Survivor(dir) => Sound(dir)' /\ version[Survivor(dir)]' = version[Survivor(dir)]
  BY <1>1, <1>2, <1>3, NamesPreserve
<1>5. Survivor(dir)' = Survivor(dir)
  BY <1>4 DEF RemoveStale, Survivor, UpdaterInv, DirectoryInv, Marked, Unmarked
<1>6. DirectoryInv'
  BY <1>2, <1>4, <1>5 DEF RemoveStale, Goto, UpdaterInv, DirectoryInv, Sound, Survivor, Marked, Unmarked
<1>7. TemporaryInv'
  BY <1>2, <1>4 DEF RemoveStale, Goto, UpdaterInv, TemporaryInv, Downloaded
<1>8. VersionInv'
  BY <1>2, <1>4, <1>5 DEF RemoveStale, Goto, UpdaterInv, DirectoryInv, VersionInv, Marked, RecoverCalls, ApplyCalls
<1> QED BY <1>6, <1>7, <1>8 DEF UpdaterInv

LEMMA RemoveTemporaryPreserves == UpdaterTypeOK /\ UpdaterInv /\ RemoveTemporary => UpdaterInv'
<1> SUFFICES ASSUME UpdaterTypeOK, UpdaterInv, RemoveTemporary PROVE UpdaterInv'
  OBVIOUS
<1>1. /\ dir \in Directory /\ NoFile \in Entry /\ dir.installed \in Entry /\ dir.backup \in Entry
      /\ dir.temporary \in Entry /\ dir.marker \in BOOLEAN
  BY DEF UpdaterTypeOK, Directory, Entry
<1>2. UNCHANGED <<disk, version, data, created, running, after, goal>> /\ pc' = "failed"
  BY DEF RemoveTemporary, contents, Goto
<1>3. PICK t \in {dir.temporary, NoFile} :
        dir' = [installed |-> dir.installed, backup |-> dir.backup, temporary |-> t, marker |-> dir.marker]
  BY <1>1, RemoveTemporaryName, DirectoryRecord DEF RemoveTemporary
<1>4. /\ Sound(disk)' /\ Made(dir)' /\ Made(disk)'
      /\ Survivor(dir)' = Survivor(dir)
      /\ Survivor(dir)' = Survivor(dir) => Sound(dir)' /\ version[Survivor(dir)]' = version[Survivor(dir)]
  BY <1>1, <1>2, <1>3, NamesPreserve DEF Survivor
<1>5. VersionInv'
  BY <1>2, <1>4 DEF RemoveTemporary, UpdaterInv, VersionInv, RecoverCalls, ApplyCalls
<1>6. DirectoryInv' /\ TemporaryInv'
  BY <1>2, <1>4 DEF DirectoryInv, TemporaryInv, Marked, Unmarked, Downloaded
<1> QED BY <1>5, <1>6 DEF UpdaterInv

\* The replacement itself: the temporary file is synced, and newer.
LEMMA InPlacePreserves == UpdaterTypeOK /\ UpdaterInv /\ InPlace => UpdaterInv'
<1> SUFFICES ASSUME UpdaterTypeOK, UpdaterInv, InPlace PROVE UpdaterInv'
  OBVIOUS
<1>1. /\ dir \in Directory /\ NoFile \in Entry /\ dir.installed \in Entry /\ dir.backup \in Entry
      /\ dir.temporary \in Entry /\ dir.marker \in BOOLEAN
  BY DEF UpdaterTypeOK, Directory, Entry
<1>2. UNCHANGED <<disk, version, data, created, running, after, goal>> /\ pc = "replace" /\ pc' = "syncReplaced"
  BY DEF InPlace, contents, Goto
<1>3. dir' = [installed |-> dir.temporary, backup |-> dir.backup, temporary |-> NoFile, marker |-> dir.marker]
  BY <1>1, RenameTemporary DEF InPlace
<1>4. /\ dir'.installed = dir.temporary /\ dir'.marker = dir.marker
      /\ Sound(disk)' /\ Made(dir)' /\ Made(disk)'
      /\ Survivor(dir)' = (IF dir.temporary = NoFile /\ dir.marker THEN dir.backup ELSE dir.temporary)
  BY <1>1, <1>2, <1>3, NamesPreserve
<1>5. /\ dir.temporary = created /\ created # NoFile /\ version[created] = goal /\ data[created] = "synced" /\ dir.marker
  BY <1>2 DEF InPlace, UpdaterInv, DirectoryInv, TemporaryInv, Downloaded, Marked
<1>6. Survivor(dir)' = created /\ Sound(dir)'
  BY <1>2, <1>4, <1>5 DEF Sound
<1>7. DirectoryInv'
  BY <1>2, <1>4, <1>5, <1>6 DEF DirectoryInv, Marked, Unmarked
<1>8. TemporaryInv'
  BY <1>2, <1>4, <1>5 DEF TemporaryInv, Downloaded
<1>9. VersionInv'
  BY <1>2, <1>5, <1>6, SurvivorTypes DEF UpdaterInv, VersionInv, RecoverCalls, ApplyCalls
<1> QED BY <1>7, <1>8, <1>9 DEF UpdaterInv

\* A file number that no name carries.
LEMMA OpenTemporaryPreserves == UpdaterTypeOK /\ UpdaterInv /\ OpenTemporary => UpdaterInv'
<1> SUFFICES ASSUME UpdaterTypeOK, UpdaterInv, OpenTemporary PROVE UpdaterInv'
  OBVIOUS
<1>1. /\ dir \in Directory /\ created + 1 \in Files /\ created + 1 \in Entry /\ created \in Nat
      /\ version \in [Files -> Versions] /\ data \in [Files -> {"none", "partial", "whole", "synced"}]
  BY UpdaterAssumption DEF OpenTemporary, UpdaterTypeOK, Entry, Files
<1>2. /\ UNCHANGED <<disk, running, after, goal>> /\ pc = "openTemporary" /\ pc' = "copy" /\ created' = created + 1
      /\ version' = [version EXCEPT ![created + 1] = goal] /\ data' = [data EXCEPT ![created + 1] = "partial"]
  BY DEF OpenTemporary, Goto
<1>3. dir' = [installed |-> dir.installed, backup |-> dir.backup, temporary |-> created + 1, marker |-> dir.marker]
  BY <1>1, SetTemporary DEF OpenTemporary
<1>4. /\ dir'.installed = dir.installed /\ dir'.backup = dir.backup
      /\ dir'.temporary = created + 1 /\ dir'.marker = dir.marker
  BY <1>3
<1>5. created + 1 \notin {dir.installed, dir.backup, disk.installed, disk.backup, Survivor(dir), Survivor(disk)}
  BY <1>1, UpdaterAssumption DEF UpdaterInv, DirectoryInv, Made, Survivor
<1>6. Survivor(dir)' = Survivor(dir) /\ Survivor(disk)' = Survivor(disk)
  BY <1>2, <1>4 DEF Survivor
<1>7. Sound(dir)' /\ Sound(disk)' /\ version[Survivor(dir)]' = version[Survivor(dir)]
  BY <1>1, <1>2, <1>5, <1>6, SurvivorTypes DEF UpdaterInv, DirectoryInv, Sound
<1>8. Made(dir)' /\ Made(disk)'
  BY <1>1, <1>2, <1>4 DEF UpdaterInv, DirectoryInv, Made
<1>9. DirectoryInv'
  BY <1>2, <1>4, <1>7, <1>8 DEF UpdaterInv, DirectoryInv, Marked, Unmarked
<1>10. TemporaryInv'
  BY <1>1, <1>2, <1>4, <1>5 DEF TemporaryInv, Downloaded
<1>11. VersionInv'
  BY <1>2, <1>7 DEF UpdaterInv, VersionInv, RecoverCalls, ApplyCalls
<1> QED BY <1>9, <1>10, <1>11 DEF UpdaterInv

\* The contents of the temporary file, which is no program yet.
LEMMA ContentsPreserve == UpdaterTypeOK /\ UpdaterInv /\ (Copy \/ SyncFile) => UpdaterInv'
<1> SUFFICES ASSUME UpdaterTypeOK, UpdaterInv, Copy \/ SyncFile PROVE UpdaterInv'
  OBVIOUS
<1>1. /\ UNCHANGED <<dir, disk, version, created, running, after, goal>>
      /\ \/ pc = "copy" /\ pc' = "syncFile" /\ data' = [data EXCEPT ![created] = "whole"]
         \/ pc = "syncFile" /\ pc' = "syncTemporary" /\ data' = [data EXCEPT ![created] = "synced"]
  BY DEF Copy, SyncFile, Goto
<1>2. created \notin {Survivor(dir), Survivor(disk)}
  BY <1>1 DEF UpdaterInv, TemporaryInv, Survivor
<1>3. Survivor(dir)' = Survivor(dir) /\ Survivor(disk)' = Survivor(disk)
  BY <1>1 DEF Survivor
<1>4. Sound(dir)' /\ Sound(disk)'
  BY <1>1, <1>2, <1>3, SurvivorTypes DEF UpdaterInv, DirectoryInv, Sound, UpdaterTypeOK
<1>5. Made(dir)' /\ Made(disk)'
  BY <1>1 DEF UpdaterInv, DirectoryInv, Made
<1>6. DirectoryInv'
  BY <1>1, <1>4, <1>5 DEF UpdaterInv, DirectoryInv, Marked, Unmarked
<1>7. TemporaryInv'
  BY <1>1 DEF UpdaterInv, TemporaryInv, Downloaded, UpdaterTypeOK
<1>8. VersionInv'
  BY <1>1, <1>3 DEF UpdaterInv, VersionInv, RecoverCalls, ApplyCalls
<1> QED BY <1>6, <1>7, <1>8 DEF UpdaterInv

\* The directory goes back to what is on the disk, and unsynced contents with it.
LEMMA PowerLossPreserves == UpdaterTypeOK /\ UpdaterInv /\ PowerLoss => UpdaterInv'
<1> SUFFICES ASSUME UpdaterTypeOK, UpdaterInv, PowerLoss PROVE UpdaterInv'
  OBVIOUS
<1>1. /\ dir' = disk /\ UNCHANGED <<disk, version, created>> /\ pc' = "off"
      /\ data' = [f \in Files |-> IF data[f] = "whole" THEN "partial" ELSE data[f]]
  BY DEF PowerLoss, Goto
<1>2. Survivor(dir)' = Survivor(disk) /\ Survivor(disk)' = Survivor(disk)
  BY <1>1 DEF Survivor
<1>3. Sound(dir)' /\ Sound(disk)'
  BY <1>1, <1>2, SurvivorTypes DEF UpdaterInv, DirectoryInv, Sound
<1>4. Made(dir)' /\ Made(disk)'
  BY <1>1 DEF UpdaterInv, DirectoryInv, Made
<1> QED BY <1>1, <1>3, <1>4 DEF UpdaterInv, DirectoryInv, TemporaryInv, VersionInv, Marked, Unmarked, Downloaded,
           RecoverCalls, ApplyCalls

\* UpdaterInv is inductive.
LEMMA UpdaterStepInv == UpdaterTypeOK /\ UpdaterInv /\ [UpdaterNext]_updaterVars => UpdaterInv'
<1> SUFFICES ASSUME UpdaterTypeOK, UpdaterInv, [UpdaterNext]_updaterVars PROVE UpdaterInv'
  OBVIOUS
<1>1. CASE UNCHANGED updaterVars
  BY <1>1 DEF updaterVars, contents, memory, UpdaterInv, DirectoryInv, TemporaryInv, VersionInv, Sound, Survivor, Made
<1>2. CASE Recovery
  BY <1>2, QuietPreserves, SyncPreserves, RestorePreserves, DiscardPreserves, UnmarkPreserves DEF Recovery
<1>3. CASE Application
  BY <1>3, QuietPreserves, SyncPreserves, RemoveStalePreserves, OpenTemporaryPreserves, ContentsPreserve, MarkPreserves,
     BackUpPreserves, InPlacePreserves, RemoveTemporaryPreserves DEF Application
<1>4. CASE Start \/ Exit \/ WriteBack \/ PowerLoss \/ Fail \/ (\E v \in Versions : BeginApply(v))
  BY <1>4, QuietPreserves, SyncPreserves, PowerLossPreserves
<1> QED BY <1>1, <1>2, <1>3, <1>4 DEF UpdaterNext

-----------------------------------------------------------------------------
(* Answers and states of the service                                         *)

LEMMA StateOfType == ASSUME NEW release PROVE StateOf(release) \in States
BY DEF StateOf, States

LEMMA UnknownType == Unknown \in Info
BY DEF Unknown, Info, Releases, States

\* The part of an answer about the program.
LEMMA AppPartType ==
    ASSUME UpdateTypeOK, NEW answer \in {"update", "none", "error"}
    PROVE  /\ AppPart(answer) \in Info
           /\ AppPart(answer).available => AppPart(answer).version \in Versions
           /\ complete => /\ AppPart(answer).available = info.available
                          /\ AppPart(answer).version = info.version
           /\ ~complete => /\ AppPart(answer).available = (answer = "update")
                           /\ answer = "update" => AppPart(answer).version = published
<1>1. info \in Info /\ (info.available => info.version \in Versions) /\ published \in Versions
      /\ Unknown \in Info /\ Versions \subseteq Releases /\ NoRelease \in Releases
  BY UnknownType DEF UpdateTypeOK, Releases
<1>2. CASE complete
  <2>1. AppPart(answer) =
          [Unknown EXCEPT !.version = info.version, !.available = info.available, !.appError = info.appError]
    BY <1>2 DEF AppPart
  <2>2. info.version \in Releases /\ info.available \in BOOLEAN /\ info.appError \in BOOLEAN
    BY <1>1 DEF Info
  <2>3. AppPart(answer) \in Info /\ AppPart(answer).version = info.version /\ AppPart(answer).available = info.available
    BY <1>1, <2>1, <2>2 DEF Info
  <2> QED BY <1>1, <1>2, <2>3
<1>3. CASE ~complete
  <2> DEFINE v == IF answer = "update" THEN published ELSE NoRelease
             a == (answer = "update")
             e == answer = "error" \/ (answer = "update" /\ info.version = published /\ info.appError)
  <2>1. AppPart(answer) = [Unknown EXCEPT !.version = v, !.available = a, !.appError = e]
    BY <1>3 DEF AppPart
  <2>2. v \in Releases /\ a \in BOOLEAN /\ e \in BOOLEAN
    BY <1>1
  <2> HIDE DEF v, a, e
  <2>3. AppPart(answer) \in Info /\ AppPart(answer).version = v /\ AppPart(answer).available = a
    BY <1>1, <2>1, <2>2 DEF Info
  <2> QED BY <1>1, <1>3, <2>3 DEF v, a
<1> QED BY <1>2, <1>3

LEMMA UpdateInitTypes == UpdateInit => UpdateTypeOK
<1> SUFFICES ASSUME UpdateInit PROVE UpdateTypeOK
  OBVIOUS
<1>1. UpdaterTypeOK /\ info \in Info /\ info.available = FALSE
  BY UpdaterInitTypes, UnknownType DEF UpdateInit, Unknown
<1>2. rules \in Texts \cup {Missing, Custom} /\ published \in Versions
  BY FileTypes DEF UpdateInit, Texts
<1>3. edits \in 0..MaxEdits
  BY PolicyAssumption DEF UpdateInit
<1>4. NoRelease \in Releases
  BY DEF Releases
<1>5. /\ verified = NoRelease /\ candidate = NoRelease /\ manifest = NoRelease /\ claimed = NoRelease
      /\ complete = FALSE /\ checked = FALSE /\ wasInstalled = FALSE /\ answered = "none" /\ op = "none"
  BY DEF UpdateInit
<1> QED BY <1>1, <1>2, <1>3, <1>4, <1>5 DEF UpdateTypeOK

LEMMA UpdateInitInv == UpdateInit => UpdateInv
<1> SUFFICES ASSUME UpdateInit PROVE UpdateInv
  OBVIOUS
<1>1. UpdateTypeOK /\ UpdaterInv
  BY UpdateInitTypes, UpdaterInitInv DEF UpdateInit
<1>2. pc = "off" /\ op = "none" /\ complete = FALSE /\ checked = FALSE
      /\ info.policyInstalled = FALSE /\ info.available = FALSE
  BY DEF UpdateInit, UpdaterInit, Unknown
<1> QED BY <1>1, <1>2 DEF UpdateInv, ServiceInv, Awaiting, ApprovedIsShown, PolicyInstalledTruthful

\* Every step of the service is a call of the updater or none.
LEMMA ServiceStepsUpdater == UpdateInv /\ [UpdateNext]_updateVars => [UpdaterNext]_updaterVars
<1> SUFFICES ASSUME UpdateInv, [UpdateNext]_updateVars PROVE [UpdaterNext]_updaterVars
  OBVIOUS
<1>1. CASE Check \/ CheckExpires \/ CheckForUpdate \/ ApplyExpires \/ ApplyReturns \/ VerifiedReturns
           \/ Publish \/ EditRules \/ UNCHANGED updateVars
  BY <1>1 DEF Check, CheckExpires, CheckForUpdate, ApplyExpires, ApplyReturns, VerifiedReturns, Publish, EditRules, updateVars
<1>2. CASE ApplyUnified
  <2>1. UNCHANGED updaterVars \/ (AppDue /\ checked /\ BeginApply(verified))
    BY <1>2 DEF ApplyUnified
  <2>2. AppDue /\ checked => verified \in Versions
    BY DEF UpdateInv, UpdateTypeOK, ServiceInv, AppDue
  <2> QED BY <2>1, <2>2 DEF UpdaterNext
<1>3. CASE ApplyVerified
  <2>1. UNCHANGED updaterVars \/ (verified # NoRelease /\ BeginApply(verified))
    BY <1>3 DEF ApplyVerified
  <2> QED BY <2>1 DEF UpdaterNext, UpdateInv, UpdateTypeOK, Releases
<1>4. CASE Relaunch \/ Quit \/ PowerFails \/ UpdaterStep
  BY <1>4 DEF Relaunch, Quit, PowerFails, UpdaterStep, UpdaterNext
<1> QED BY <1>1, <1>2, <1>3, <1>4 DEF UpdateNext

-----------------------------------------------------------------------------
(* The service's operations keep the invariant                               *)

\* What an operation may not disturb, besides the updater's part.
ServicePart == ServiceInv /\ ApprovedIsShown /\ PolicyInstalledTruthful

LEMMA CheckPreserves ==
    ASSUME UpdateInv, UpdateTypeOK', Check
    PROVE  ServicePart'
<1>1. PICK answer \in AppAnswers :
        /\ AskApp(answer)
        /\ \E policy \in Offers, failed \in BOOLEAN :
              /\ answered' = "error" => failed
              /\ candidate' = policy
              /\ info' = WithPolicy(AppPart(answer), policy, failed)
  BY DEF Check
<1>2. PICK policy \in Offers, failed \in BOOLEAN :
        candidate' = policy /\ info' = WithPolicy(AppPart(answer), policy, failed)
  BY <1>1
<1>3. UpdateTypeOK /\ answer \in {"update", "none", "error"}
  BY DEF UpdateInv, AppAnswers
<1> DEFINE base == AppPart(answer)
           s == IF failed THEN "error" ELSE StateOf(policy)
           i == Carries(policy) /\ info.policyInstalled
           e == failed \/ (Carries(policy) /\ info.policyError)
<1>4. base \in Info /\ s \in States /\ i \in BOOLEAN /\ e \in BOOLEAN
  BY <1>3, AppPartType, StateOfType DEF UpdateTypeOK, Info, Carries, States
<1>5. info' = [base EXCEPT !.policyState = s, !.policyInstalled = i, !.policyError = e]
  BY <1>2 DEF WithPolicy
<1>6. info'.version = base.version /\ info'.available = base.available /\ info'.policyInstalled = i
  <2> HIDE DEF base, s, i, e
  <2> QED BY <1>4, <1>5 DEF Info
<1>7. UNCHANGED <<dir, disk, version, pc, after, goal, complete, op, claimed>> /\ op = "none" /\ checked' = TRUE
  BY DEF Check, Ready, updaterVars, contents, memory
<1>8. /\ complete => info'.available = info.available
      /\ ~complete => info'.available = (answer = "update") /\ (answer = "update" => info'.version = published)
  BY <1>3, <1>6, AppPartType
<1>9. ~complete /\ answer = "update" => verified' = published
  BY <1>1 DEF AskApp, CheckApp
<1>10. ServiceInv'
  BY <1>7, <1>8, <1>9 DEF UpdateInv, ServiceInv, Awaiting, AppDue, Installed
<1>11. ApprovedIsShown'
  BY <1>7 DEF ApprovedIsShown
<1>12. PolicyInstalledTruthful'
  BY <1>2, <1>6, <1>7 DEF UpdateInv, PolicyInstalledTruthful, Carries
<1> QED BY <1>10, <1>11, <1>12 DEF ServicePart

\* Operations that revoke the check, and what happens outside.
LEMMA RevokePreserves ==
    ASSUME UpdateInv, CheckExpires \/ CheckForUpdate \/ Publish \/ EditRules \/ UNCHANGED updateVars
    PROVE  ServicePart'
<1>1. UNCHANGED <<dir, disk, version, pc, after, goal, complete, op, info, candidate, claimed>>
      /\ (checked' => checked /\ verified' = verified)
  BY DEF CheckExpires, CheckForUpdate, Revoke, Publish, EditRules, updateVars, updaterVars, contents, memory, service, unified
<1> QED BY <1>1 DEF UpdateInv, ServicePart, ServiceInv, ApprovedIsShown, PolicyInstalledTruthful, Awaiting, AppDue, Installed

\* Installing the policy touches only what the answer says of the policy.
LEMMA ApplyPolicyFields ==
    ASSUME UpdateTypeOK, PolicyInstalledTruthful, UNCHANGED candidate,
           ApplyPolicy \/ ReadAgain(FALSE)
    PROVE  /\ info' \in Info /\ info'.version = info.version /\ info'.available = info.available
           /\ PolicyInstalledTruthful'
           /\ rules' \in Texts \cup {Missing, Custom} /\ claimed' \in Releases
<1>1. info \in Info /\ rules \in Texts \cup {Missing, Custom} /\ claimed \in Releases /\ candidate \in Releases
  BY DEF UpdateTypeOK
<1>2. CASE UNCHANGED <<info, rules, claimed>>
  BY <1>1, <1>2 DEF PolicyInstalledTruthful
<1>3. CASE \E error \in BOOLEAN : ReadAgain(error)
  <2>1. PICK error \in BOOLEAN : ReadAgain(error)
    BY <1>3
  <2> DEFINE s == IF error THEN "error" ELSE StateOf(candidate)
  <2>2. s \in States
    BY StateOfType DEF States
  <2>3. info' = [info EXCEPT !.policyState = s, !.policyError = error]
    BY <2>1 DEF ReadAgain
  <2> HIDE DEF s
  <2>4. /\ info' \in Info /\ info'.version = info.version /\ info'.available = info.available
        /\ info'.policyInstalled = info.policyInstalled
    BY <1>1, <2>2, <2>3 DEF Info
  <2> QED BY <1>1, <2>1, <2>4 DEF ReadAgain, PolicyInstalledTruthful
<1>4. CASE candidate # NoRelease /\ Helper
  <2>1. PICK said \in BOOLEAN, failed \in BOOLEAN :
          /\ rules' = PolicyOf[candidate] \/ UNCHANGED rules
          /\ claimed' = IF said THEN candidate ELSE claimed
          /\ info' = [info EXCEPT !.policyState = StateOf(candidate), !.policyInstalled = said, !.policyError = failed]
    BY <1>4 DEF Helper
  <2>2. StateOf(candidate) \in States
    BY StateOfType
  <2>3. /\ info' \in Info /\ info'.version = info.version /\ info'.available = info.available
        /\ info'.policyInstalled = said
    BY <1>1, <2>1, <2>2 DEF Info
  <2>4. PolicyOf[candidate] \in Texts
    BY <1>1, <1>4 DEF Texts, Releases
  <2> QED BY <1>1, <2>1, <2>3, <2>4 DEF PolicyInstalledTruthful
<1> QED BY <1>2, <1>3, <1>4 DEF ApplyPolicy

LEMMA ApplyUnifiedPreserves ==
    ASSUME UpdateInv, ApplyUnified \/ ApplyExpires
    PROVE  ServicePart'
<1>1. /\ UNCHANGED <<verified, complete, checked, candidate, version, dir, disk>> /\ checked /\ op = "none"
      /\ pc \in {"idle", "failed"}
  BY DEF ApplyUnified, ApplyExpires, Ready, updaterVars, contents, BeginApply
<1>2. /\ info'.version = info.version /\ info'.available = info.available
      /\ PolicyInstalledTruthful'
  BY <1>1, ApplyPolicyFields DEF ApplyUnified, ApplyExpires, UpdateInv
<1>3. AppDue' = AppDue
  BY <1>1, <1>2 DEF AppDue
<1>4. CASE UNCHANGED <<pc, after, goal, op>>
  BY <1>1, <1>2, <1>3, <1>4 DEF UpdateInv, ServicePart, ServiceInv, ApprovedIsShown, Awaiting, Installed
<1>5. CASE op' = "unified" /\ ~AppDue /\ UNCHANGED updaterVars
  BY <1>1, <1>2, <1>3, <1>5 DEF UpdateInv, ServicePart, ServiceInv, ApprovedIsShown, Awaiting, Installed, updaterVars, memory
<1>6. CASE op' = "unified" /\ AppDue /\ BeginApply(verified)
  <2>1. goal' = verified /\ verified = info.version /\ pc' = "inspect" /\ after' = "apply" /\ ~complete
    BY <1>1, <1>6 DEF BeginApply, Goto, UpdateInv, ServiceInv, AppDue
  <2> QED BY <1>1, <1>2, <1>3, <1>6, <2>1 DEF UpdateInv, ServicePart, ServiceInv, ApprovedIsShown, Awaiting, RecoverCalls
<1> QED BY <1>4, <1>5, <1>6 DEF ApplyUnified, ApplyExpires, updaterVars, memory

\* The updater's answer is taken for a replacement only when there was one.
LEMMA ReturnsPreserve ==
    ASSUME UpdateInv, ApplyReturns \/ VerifiedReturns
    PROVE  ServicePart'
<1>1. /\ UNCHANGED <<verified, checked, candidate, claimed, version, dir, disk, pc, after, goal>>
      /\ op # "none" /\ op' = "none" /\ pc \in {"idle", "failed"}
  BY DEF ApplyReturns, VerifiedReturns, Returned, updaterVars, contents, memory, unified
<1>2. /\ info'.version = info.version /\ info'.available = info.available
      /\ info'.policyInstalled = info.policyInstalled
  BY DEF ApplyReturns, VerifiedReturns, UpdateInv, UpdateTypeOK, Info, unified
<1>3. complete' => complete \/ (Awaiting /\ pc = "idle")
  BY DEF ApplyReturns, VerifiedReturns, Awaiting, Replaced
<1>4. complete => complete'
  BY DEF ApplyReturns, VerifiedReturns
<1> QED BY <1>1, <1>2, <1>3, <1>4 DEF UpdateInv, ServicePart, ServiceInv, ApprovedIsShown, PolicyInstalledTruthful,
           Awaiting, AppDue, Installed

LEMMA ApplyVerifiedPreserves ==
    ASSUME UpdateInv, ApplyVerified
    PROVE  ServicePart'
<1>1. /\ UNCHANGED <<verified, complete, candidate, claimed, info, version, dir, disk>>
      /\ op = "none" /\ op' = "plain" /\ ~checked' /\ pc \in {"idle", "failed"}
      /\ \/ ~complete /\ pc' = "inspect" /\ after' = "apply"
         \/ complete /\ UNCHANGED <<pc, after, goal>>
  BY DEF ApplyVerified, Ready, Revoke, BeginApply, Goto, updaterVars, contents, memory
<1> QED BY <1>1 DEF UpdateInv, ServicePart, ServiceInv, ApprovedIsShown, PolicyInstalledTruthful, Awaiting, AppDue,
           Installed, RecoverCalls

\* A new process knows nothing.
LEMMA ForgetPreserves ==
    ASSUME Relaunch \/ Quit \/ PowerFails
    PROVE  ServicePart'
<1>1. pc' = "off" /\ op' = "none" /\ complete' = FALSE /\ checked' = FALSE /\ info' = Unknown
  BY DEF Relaunch, Quit, PowerFails, Exit, PowerLoss, Forget, Goto
<1>2. info'.policyInstalled = FALSE
  BY <1>1 DEF Unknown
<1> QED BY <1>1, <1>2 DEF ServicePart, ServiceInv, ApprovedIsShown, PolicyInstalledTruthful, Awaiting

\* The updater's calls while the service waits for them.
LEMMA UpdaterStepPreserves ==
    ASSUME UpdateInv, UpdaterStep
    PROVE  ServicePart'
<1>1. /\ UNCHANGED <<published, rules, edits, verified, complete, checked, candidate, info, answered, manifest, op,
                     wasInstalled, claimed>>
  BY DEF UpdaterStep, outside, service, backend, unified
<1>2. goal' = goal
  BY DEF UpdaterStep, Start, WriteBack, Fail, Recovery, Inspect, Target, Restore, Discard, SyncRecovered, Unmark,
       SyncUnmarked, Application, Mode, RemoveStale, OpenTemporary, Copy, SyncFile, SyncTemporary, Mark, SyncMark, BackUp,
       SyncBackup, InPlace, SyncReplaced, RemoveTemporary, Sync, memory
<1>3. ApprovedIsShown' /\ PolicyInstalledTruthful'
  BY <1>1, <1>2 DEF UpdateInv, ApprovedIsShown, PolicyInstalledTruthful, AppDue
<1> SUFFICES ServiceInv'
  BY <1>3 DEF ServicePart
<1>4. Awaiting' = Awaiting
  BY <1>1 DEF Awaiting, AppDue
<1>5. CASE WriteBack
  BY <1>1, <1>4, <1>5 DEF WriteBack, memory, contents, UpdateInv, ServiceInv, AppDue, Installed
<1>6. CASE Start
  <2>1. pc = "off" /\ pc' = "inspect" /\ after' = "startup"
    BY <1>6 DEF Start, Goto
  <2> QED BY <1>1, <1>4, <2>1 DEF UpdateInv, ServiceInv, AppDue, RecoverCalls, ApplyCalls
<1>7. CASE Fail
  <2>1. /\ pc \in RecoverCalls \cup ApplyCalls /\ after' = after
        /\ pc' \in {"removeTemporary", "off", "failed"}
        /\ pc' = "removeTemporary" => pc \in ApplyCalls
        /\ pc' = "off" => after = "startup"
        /\ pc \in RecoverCalls /\ after = "startup" => pc' = "off"
    BY <1>7 DEF Fail, Uncommitted, RecoverCalls, ApplyCalls
  <2> QED BY <1>1, <1>4, <2>1 DEF UpdateInv, ServiceInv, AppDue, RecoverCalls, ApplyCalls
<1>8. CASE Recovery
  <2>1. /\ pc \in RecoverCalls /\ after' = after
        /\ \/ pc' \in RecoverCalls
           \/ after = "apply" /\ pc' = "mode"
           \/ after # "apply" /\ pc' = "idle" /\ ((pc = "inspect" /\ ~dir.marker) \/ SyncUnmarked)
    BY <1>8 DEF Recovery, Inspect, Target, Restore, Discard, SyncRecovered, Unmark, SyncUnmarked, Sync, Goto, Recovered,
         RecoverCalls
  <2>2. after = "finish" /\ pc' = "idle" => Installed(dir)' /\ Installed(disk)'
    <3> SUFFICES ASSUME after = "finish", pc' = "idle" PROVE Installed(dir)' /\ Installed(disk)'
      OBVIOUS
    <3>1. SyncUnmarked
      BY <2>1 DEF UpdateInv, UpdaterInv, VersionInv, RecoverCalls
    <3>2. pc = "syncUnmarked" /\ disk' = dir /\ dir' = dir /\ version' = version /\ ~dir.marker
      BY <3>1 DEF SyncUnmarked, contents, UpdateInv, UpdaterInv, DirectoryInv, Unmarked
    <3>3. dir.installed # NoFile /\ version[dir.installed] = goal
      BY <2>1 DEF UpdateInv, UpdaterInv, VersionInv
    <3> QED BY <1>2, <3>2, <3>3 DEF Installed
  <2>3. after \in {"startup", "apply", "finish"}
    BY DEF UpdateInv, UpdateTypeOK, UpdaterTypeOK
  <2> QED BY <1>1, <1>4, <2>1, <2>2, <2>3 DEF UpdateInv, ServiceInv, AppDue, RecoverCalls, ApplyCalls
<1>9. CASE Application
  <2>1. /\ pc \in ApplyCalls /\ pc' \in ApplyCalls \cup {"inspect", "failed"}
        /\ pc' = "inspect" => after' = "finish"
        /\ after' \in {after, "finish"}
    BY <1>9 DEF Application, Mode, RemoveStale, OpenTemporary, Copy, SyncFile, SyncTemporary, Mark, SyncMark, BackUp,
       SyncBackup, InPlace, SyncReplaced, RemoveTemporary, Sync, Goto, ApplyCalls
  <2> QED BY <1>1, <1>4, <2>1 DEF UpdateInv, ServiceInv, AppDue, RecoverCalls, ApplyCalls
<1> QED BY <1>5, <1>6, <1>7, <1>8, <1>9 DEF UpdaterStep

-----------------------------------------------------------------------------
(* Types of the service                                                      *)

LEMMA CheckTypes ==
    ASSUME UpdateTypeOK, Check
    PROVE  UpdateTypeOK'
<1>1. PICK answer \in AppAnswers :
        /\ AskApp(answer)
        /\ \E policy \in Offers, failed \in BOOLEAN :
              candidate' = policy /\ info' = WithPolicy(AppPart(answer), policy, failed)
  BY DEF Check
<1>2. PICK policy \in Offers, failed \in BOOLEAN :
        candidate' = policy /\ info' = WithPolicy(AppPart(answer), policy, failed)
  BY <1>1
<1>3. /\ answer \in {"update", "none", "error"} /\ published \in Releases /\ NoRelease \in Releases
      /\ answered \in {"update", "none", "error"} /\ verified \in Releases /\ manifest \in Releases
  BY DEF AppAnswers, UpdateTypeOK, Releases
<1>4. verified' \in Releases /\ manifest' \in Releases /\ answered' \in {"update", "none", "error"}
  BY <1>1, <1>3 DEF AskApp, CheckApp
<1>5. candidate' \in Releases
  BY <1>2, <1>3, <1>4 DEF Offers
<1> DEFINE base == AppPart(answer)
           s == IF failed THEN "error" ELSE StateOf(policy)
           i == Carries(policy) /\ info.policyInstalled
           e == failed \/ (Carries(policy) /\ info.policyError)
<1>6. base \in Info /\ s \in States /\ i \in BOOLEAN /\ e \in BOOLEAN /\ (base.available => base.version \in Versions)
  BY <1>3, AppPartType, StateOfType DEF UpdateTypeOK, Info, Carries, States
<1>7. info' = [base EXCEPT !.policyState = s, !.policyInstalled = i, !.policyError = e]
  BY <1>2 DEF WithPolicy
<1>8. info' \in Info /\ (info'.available => info'.version \in Versions)
  <2> HIDE DEF base, s, i, e
  <2> QED BY <1>6, <1>7 DEF Info
<1>9. UNCHANGED <<updaterVars, published, rules, edits, complete, op, wasInstalled, claimed>> /\ checked' = TRUE
  BY DEF Check, outside
<1>10. UpdaterTypeOK'
  BY <1>9 DEF UpdateTypeOK, updaterVars, contents, memory, UpdaterTypeOK
<1> QED BY <1>4, <1>5, <1>8, <1>9, <1>10 DEF UpdateTypeOK

LEMMA UpdateTypeStep == UpdateInv /\ [UpdateNext]_updateVars => UpdateTypeOK'
<1> SUFFICES ASSUME UpdateInv, [UpdateNext]_updateVars PROVE UpdateTypeOK'
  OBVIOUS
<1>1. UpdateTypeOK /\ UpdaterTypeOK'
  BY ServiceStepsUpdater, UpdaterStepTypes DEF UpdateInv, UpdateTypeOK
<1>2. CASE Check
  BY <1>1, <1>2, CheckTypes
<1>3. CASE CheckExpires \/ CheckForUpdate
  <2>1. published \in Releases /\ NoRelease \in Releases
    BY <1>1 DEF UpdateTypeOK, Releases
  <2>2. verified' \in Releases /\ manifest' \in Releases /\ answered' \in {"update", "none", "error"}
    BY <1>1, <1>3, <2>1 DEF CheckExpires, CheckForUpdate, AskApp, CheckApp, AppAnswers, UpdateTypeOK, backend
  <2> QED BY <1>1, <1>3, <2>2 DEF CheckExpires, CheckForUpdate, Revoke, UpdateTypeOK, outside
<1>4. CASE ApplyUnified \/ ApplyExpires
  <2>1. /\ UNCHANGED <<published, edits, verified, complete, checked, candidate, backend>>
        /\ op' \in {op, "unified"} /\ wasInstalled' \in {wasInstalled, info.policyInstalled}
    BY <1>4 DEF ApplyUnified, ApplyExpires
  <2>2. /\ info' \in Info /\ info'.version = info.version /\ info'.available = info.available
        /\ rules' \in Texts \cup {Missing, Custom} /\ claimed' \in Releases
    BY <1>4, <2>1, ApplyPolicyFields DEF UpdateInv, ApplyUnified, ApplyExpires
  <2>3. info.policyInstalled \in BOOLEAN
    BY <1>1 DEF UpdateTypeOK, Info
  <2> QED BY <1>1, <2>1, <2>2, <2>3 DEF UpdateTypeOK, backend
<1>5. CASE ApplyReturns \/ VerifiedReturns
  <2>1. info' \in Info /\ info'.version = info.version /\ info'.available = info.available
    <3> DEFINE e == IF AppDue THEN ~Replaced ELSE info.appError
    <3>1. e \in BOOLEAN /\ info \in Info
      BY <1>1 DEF UpdateTypeOK, Info
    <3>2. info' = [info EXCEPT !.appError = e] \/ info' = info
      BY <1>5 DEF ApplyReturns, VerifiedReturns, unified
    <3> HIDE DEF e
    <3> QED BY <3>1, <3>2 DEF Info
  <2>2. /\ complete' \in BOOLEAN /\ op' = "none" /\ wasInstalled' \in BOOLEAN
        /\ UNCHANGED <<outside, verified, checked, candidate, backend, claimed>>
    BY <1>1, <1>5 DEF ApplyReturns, VerifiedReturns, unified, UpdateTypeOK, AppDue, Replaced
  <2> QED BY <1>1, <2>1, <2>2 DEF UpdateTypeOK, outside, backend
<1>6. CASE ApplyVerified
  BY <1>1, <1>6 DEF ApplyVerified, Revoke, UpdateTypeOK, outside, backend
<1>7. CASE Relaunch \/ Quit \/ PowerFails
  <2>1. Unknown \in Info /\ Unknown.available = FALSE
    BY UnknownType DEF Unknown
  <2> QED BY <1>1, <1>7, <2>1 DEF Relaunch, Quit, PowerFails, Forget, UpdateTypeOK, outside, Releases
<1>8. CASE Publish
  <2>1. published' \in Versions
    BY <1>1, <1>8, UpdaterAssumption DEF Publish, UpdateTypeOK, Versions
  <2> QED BY <1>1, <1>8, <2>1 DEF Publish, UpdateTypeOK, service, backend, unified
<1>9. CASE EditRules
  <2>1. edits' \in 0..MaxEdits
    BY <1>1, <1>9, PolicyAssumption DEF EditRules, UpdateTypeOK
  <2> QED BY <1>1, <1>9, <2>1 DEF EditRules, UpdateTypeOK, service, backend, unified
<1>10. CASE UpdaterStep \/ UNCHANGED updateVars
  BY <1>1, <1>10 DEF UpdaterStep, updateVars, UpdateTypeOK, outside, service, backend, unified
<1> QED BY <1>2, <1>3, <1>4, <1>5, <1>6, <1>7, <1>8, <1>9, <1>10 DEF UpdateNext

\* UpdateInv is inductive.
LEMMA UpdateStepInv == UpdateInv /\ [UpdateNext]_updateVars => UpdateInv'
<1> SUFFICES ASSUME UpdateInv, [UpdateNext]_updateVars PROVE UpdateInv'
  OBVIOUS
<1>1. UpdateTypeOK' /\ UpdaterInv'
  BY UpdateTypeStep, ServiceStepsUpdater, UpdaterStepInv DEF UpdateInv, UpdateTypeOK
<1>2. ServicePart'
  BY <1>1, CheckPreserves, RevokePreserves, ApplyUnifiedPreserves, ReturnsPreserve, ApplyVerifiedPreserves,
     ForgetPreserves, UpdaterStepPreserves DEF UpdateNext
<1> QED BY <1>1, <1>2 DEF UpdateInv, ServicePart

-----------------------------------------------------------------------------
(* The theorems                                                              *)

\* The inductive invariant of the updater and of the service above it holds of
\* every behaviour, whatever fails or is cut.
THEOREM UpdateInductive == UpdateSpec => []UpdateInv
BY UpdateInitInv, UpdateStepInv, PTL DEF UpdateSpec

\* Every variable of the updater and of the service keeps its type.
THEOREM UpdateTypes == UpdateSpec => []UpdateTypeOK
<1>1. UpdateInv => UpdateTypeOK
  BY DEF UpdateInv
<1> QED BY <1>1, UpdateInductive, PTL

\* Whatever call of updater.go is next, fails or is cut, recoverInstallation
\* finds a whole program, and a synced one on the disk.
THEOREM AlwaysRecoverable == UpdateSpec => []Recoverable
<1>1. UpdateInv => Recoverable
  BY DEF UpdateInv, UpdaterInv, DirectoryInv, Sound, Recoverable
<1> QED BY <1>1, UpdateInductive, PTL

\* ApplyUnifiedUpdate installs the version that the last good check has shown.
THEOREM ApprovalShown == UpdateSpec => []ApprovedIsShown
<1>1. UpdateInv => ApprovedIsShown
  BY DEF UpdateInv
<1> QED BY <1>1, UpdateInductive, PTL

\* replacementComplete, and any relaunch, come after the replacement is synced
\* under its name with nothing left to recover.
THEOREM CompleteInstalled == UpdateSpec => []CompleteMeansInstalled
<1>1. UpdateInv => CompleteMeansInstalled
  <2> SUFFICES ASSUME UpdateInv, complete \/ (Returned /\ RelaunchDue)
               PROVE  /\ disk.installed # NoFile /\ data[disk.installed] = "synced"
                      /\ version[disk.installed] = goal /\ ~disk.marker
    BY DEF CompleteMeansInstalled
  <2>1. complete \/ (Awaiting /\ pc = "idle")
    BY DEF Returned, RelaunchDue, Replaced, Awaiting
  <2>2. Installed(disk)
    BY <2>1 DEF UpdateInv, ServiceInv
  <2>3. data[disk.installed] = "synced"
    BY <2>2 DEF Installed, UpdateInv, UpdaterInv, DirectoryInv, Sound, Survivor
  <2> QED BY <2>2, <2>3 DEF Installed
<1> QED BY <1>1, UpdateInductive, PTL

\* A policy is carried from check to check as installed only on the helper's
\* word about that very policy.
THEOREM PolicyTruthful == UpdateSpec => []PolicyInstalledTruthful
<1>1. UpdateInv => PolicyInstalledTruthful
  BY DEF UpdateInv
<1> QED BY <1>1, UpdateInductive, PTL

-----------------------------------------------------------------------------
(* The refinement                                                            *)

\* What recovery would leave, of the directory and of the disk.
Current == version[Survivor(dir)]
Safe == version[Survivor(disk)]

LEMMA PromiseNext ==
    ASSUME \/ Current <= Current' /\ Current' <= MaxVersion /\ Current' \in Nat /\ Current \in Nat
              /\ Safe' = Safe /\ reported' = reported
           \/ Safe' = Current /\ Current' = Current /\ reported' = reported
           \/ Safe = Current /\ reported' = Current /\ Current' = Current /\ Safe' = Safe
           \/ Current' = Safe /\ Safe' = Safe /\ reported' = reported
           \/ Current' = Current /\ Safe' = Safe /\ reported' = reported
    PROVE  [Promises!ReplacementNext]_(Promises!replacementVars)
<1>1. CASE /\ Current <= Current' /\ Current' <= MaxVersion /\ Current' \in Nat /\ Current \in Nat
           /\ Safe' = Safe /\ reported' = reported
  <2>1. Current' \in Current..MaxVersion
    BY <1>1, UpdaterAssumption
  <2> QED BY <1>1, <2>1 DEF Promises!ReplacementNext, Promises!Replace, Current, Safe
<1>2. CASE Safe' = Current /\ Current' = Current /\ reported' = reported
  BY <1>2 DEF Promises!ReplacementNext, Promises!Settle, Current, Safe
<1>3. CASE Safe = Current /\ reported' = Current /\ Current' = Current /\ Safe' = Safe
  BY <1>3 DEF Promises!ReplacementNext, Promises!Promise, Current, Safe
<1>4. CASE Current' = Safe /\ Safe' = Safe /\ reported' = reported
  BY <1>4 DEF Promises!ReplacementNext, Promises!LosePower, Current, Safe
<1>5. CASE Current' = Current /\ Safe' = Safe /\ reported' = reported
  BY <1>5 DEF Promises!replacementVars, Current, Safe
<1> QED BY <1>1, <1>2, <1>3, <1>4, <1>5

\* The program that recovery would leave changes in one call only, and then to
\* a newer one.
LEMMA StepReplaces ==
    ASSUME UpdaterTypeOK, UpdaterInv, UpdaterTypeOK', UpdaterInv', [UpdaterNext]_updaterVars
    PROVE  [Promises!ReplacementNext]_(Promises!replacementVars)
<1>1. CASE InPlace
  <2>1. /\ UNCHANGED <<disk, version, goal, reported>> /\ pc = "replace" /\ pc' = "syncReplaced"
    BY <1>1 DEF InPlace, contents, Goto
  <2>2. dir.temporary = created /\ version[created] = goal /\ dir.temporary # NoFile
    BY <1>1, <2>1 DEF InPlace, UpdaterInv, TemporaryInv, Downloaded
  <2>3. dir \in Directory
    BY DEF UpdaterTypeOK
  <2>4. dir'.installed = created
    BY <1>1, <2>2, <2>3, RenameTemporary DEF InPlace
  <2>5. Current' = goal
    BY <2>1, <2>2, <2>4 DEF Current, Survivor
  <2>6. Current <= goal /\ Current \in Nat /\ goal \in Nat /\ goal <= MaxVersion
    BY <2>1, SurvivorTypes DEF Current, UpdaterInv, VersionInv, ApplyCalls, UpdaterTypeOK, Versions
  <2>7. Safe' = Safe
    BY <2>1 DEF Safe, Survivor
  <2> QED BY <2>1, <2>5, <2>6, <2>7, PromiseNext
<1>2. CASE SyncUnmarked
  <2>1. /\ UNCHANGED <<dir, version>> /\ disk' = dir /\ Finish /\ pc = "syncUnmarked"
    BY <1>2 DEF SyncUnmarked, contents
  <2>2. Current' = Current /\ Safe' = Current
    BY <2>1 DEF Current, Safe, Survivor
  <2>3. CASE after = "finish"
    <3>1. dir.installed # NoFile /\ disk.installed = dir.installed /\ version[dir.installed] = goal
      BY <2>1, <2>3 DEF UpdaterInv, VersionInv, RecoverCalls
    <3>2. Current = goal /\ Safe = goal
      BY <3>1 DEF Current, Safe, Survivor
    <3>3. reported' = goal
      BY <2>1, <2>3 DEF Finish
    <3> QED BY <2>2, <3>2, <3>3, PromiseNext
  <2>4. CASE after # "finish"
    BY <2>1, <2>2, <2>4, PromiseNext DEF Finish
  <2> QED BY <2>3, <2>4
<1>3. CASE WriteBack \/ SyncRecovered \/ SyncTemporary \/ SyncMark \/ SyncBackup \/ SyncReplaced
  <2>1. UNCHANGED <<dir, version, reported>> /\ disk' = dir
    BY <1>3 DEF WriteBack, SyncRecovered, SyncTemporary, SyncMark, SyncBackup, SyncReplaced, Sync, contents
  <2>2. Current' = Current /\ Safe' = Current
    BY <2>1 DEF Current, Safe, Survivor
  <2> QED BY <2>1, <2>2, PromiseNext
<1>4. CASE PowerLoss
  <2>1. UNCHANGED <<disk, version, reported>> /\ dir' = disk
    BY <1>4 DEF PowerLoss
  <2>2. Current' = Safe /\ Safe' = Safe
    BY <2>1 DEF Current, Safe, Survivor
  <2> QED BY <2>1, <2>2, PromiseNext
<1>5. CASE UNCHANGED updaterVars \/ Start \/ Exit \/ Fail \/ (\E v \in Versions : BeginApply(v)) \/ Inspect
           \/ Target \/ Mode \/ Copy \/ SyncFile
  <2>1. UNCHANGED <<dir, disk, version>>
    BY <1>5 DEF Start, Exit, Fail, BeginApply, Inspect, Target, Mode, Copy, SyncFile, contents, updaterVars
  <2>2. Current' = Current /\ Safe' = Safe
    BY <2>1 DEF Current, Safe, Survivor
  <2>3. reported' = reported
    <3>1. CASE Inspect
      BY <3>1 DEF Inspect, Finish, UpdaterInv, VersionInv, RecoverCalls
    <3>2. CASE ~Inspect
      BY <1>5, <3>2 DEF Start, Exit, Fail, BeginApply, Target, Mode, Copy, SyncFile, updaterVars
    <3> QED BY <3>1, <3>2
  <2> QED BY <2>2, <2>3, PromiseNext
<1>6. CASE Restore \/ Discard \/ Unmark \/ Mark \/ BackUp \/ RemoveStale \/ RemoveTemporary \/ OpenTemporary
  <2>1. UNCHANGED <<disk, reported>>
    BY <1>6 DEF Restore, Discard, Unmark, Mark, BackUp, RemoveStale, RemoveTemporary, OpenTemporary
  <2>2. dir \in Directory /\ Survivor(dir) # NoFile
    BY DEF UpdaterTypeOK, UpdaterInv, DirectoryInv, Sound
  <2>3. Survivor(dir)' = Survivor(dir)
    <3>1. CASE Restore
      BY <2>2, <3>1, RenameBackup DEF Restore, Survivor, UpdaterInv, DirectoryInv, Marked
    <3>2. CASE Discard
      BY <2>2, <3>2, RemoveBackup DEF Discard, Survivor, UpdaterInv, DirectoryInv
    <3>3. CASE Unmark
      BY <2>2, <3>3, SetMarker DEF Unmark, Survivor, UpdaterInv, DirectoryInv
    <3>4. CASE Mark
      BY <2>2, <3>4, SetMarker DEF Mark, Survivor
    <3>5. CASE BackUp
      BY <2>2, <3>5, RenameInstalled DEF BackUp, Survivor, UpdaterInv, DirectoryInv, Marked
    <3>6. CASE RemoveStale \/ RemoveTemporary
      BY <2>2, <3>6, RemoveTemporaryName DEF RemoveStale, RemoveTemporary, Survivor
    <3>7. CASE OpenTemporary
      <4>1. created + 1 \in Entry
        BY <3>7, UpdaterAssumption DEF OpenTemporary, UpdaterTypeOK, Files, Entry
      <4> QED BY <2>2, <3>7, <4>1, SetTemporary DEF OpenTemporary, Survivor
    <3> QED BY <1>6, <3>1, <3>2, <3>3, <3>4, <3>5, <3>6, <3>7
  <2>4. version[Survivor(dir)]' = version[Survivor(dir)] /\ version[Survivor(disk)]' = version[Survivor(disk)]
    <3>1. CASE OpenTemporary
      <4>1. created + 1 \notin {Survivor(dir), Survivor(disk)}
        BY <3>1, UpdaterAssumption, SurvivorTypes DEF UpdaterInv, DirectoryInv, Made, Survivor
      <4>2. version \in [Files -> Versions] /\ version' = [version EXCEPT ![created + 1] = goal]
        BY <3>1 DEF OpenTemporary, UpdaterTypeOK
      <4>3. Survivor(disk)' = Survivor(disk)
        BY <2>1 DEF Survivor
      <4> QED BY <2>3, <4>1, <4>2, <4>3, SurvivorTypes
    <3>2. CASE ~OpenTemporary
      <4>1. version' = version
        BY <1>6, <3>2 DEF Restore, Discard, Unmark, Mark, BackUp, RemoveStale, RemoveTemporary, contents
      <4> QED BY <2>1, <2>3, <4>1 DEF Survivor
    <3> QED BY <3>1, <3>2
  <2> QED BY <2>1, <2>4, PromiseNext DEF Current, Safe
<1> QED BY <1>1, <1>2, <1>3, <1>4, <1>5, <1>6 DEF UpdaterNext, Recovery, Application

\* Above the service too, the replacement of the program by files, renames and
\* syncs is the replacement of a version by a newer one in one step.
THEOREM ReplacedAsAWhole == UpdateSpec => ImplementsReplacement
<1>1. UpdateInit => Promises!ReplacementInit
  <2> SUFFICES ASSUME UpdateInit PROVE Promises!ReplacementInit
    OBVIOUS
  <2>1. dir.installed = 0 /\ disk = dir /\ version[0] = 0 /\ reported = 0 /\ 0 # NoFile
    BY FileTypes, UpdaterAssumption DEF UpdateInit, UpdaterInit
  <2> QED BY <2>1 DEF Promises!ReplacementInit, Survivor
<1>2. UpdateInv /\ UpdateInv' /\ [UpdateNext]_updateVars => [Promises!ReplacementNext]_(Promises!replacementVars)
  BY ServiceStepsUpdater, StepReplaces DEF UpdateInv, UpdateTypeOK
<1> QED BY <1>1, <1>2, UpdateInductive, PTL DEF UpdateSpec, ImplementsReplacement, Promises!ReplacementSpec

-----------------------------------------------------------------------------
(* What the abstract specification gives                                     *)

\* The versions known to be on the disk are no older than the one reported.
Kept ==
    /\ reported \in Nat /\ Safe \in Nat /\ Current \in Nat
    /\ reported <= Safe /\ Safe <= Current

LEMMA PromisesKept == Promises!ReplacementSpec => []Kept
<1>1. Promises!ReplacementInit => Kept
  BY DEF Promises!ReplacementInit, Kept, Safe, Current
<1>2. Kept /\ [Promises!ReplacementNext]_(Promises!replacementVars) => Kept'
  <2> SUFFICES ASSUME Kept, [Promises!ReplacementNext]_(Promises!replacementVars) PROVE Kept'
    OBVIOUS
  <2>1. CASE Promises!Replace
    <3>1. PICK v \in Current..MaxVersion : Current' = v
      BY <2>1 DEF Promises!Replace, Current
    <3>2. Safe' = Safe /\ reported' = reported
      BY <2>1 DEF Promises!Replace, Safe
    <3> QED BY <3>1, <3>2, UpdaterAssumption DEF Kept
  <2>2. CASE Promises!Settle \/ Promises!Promise \/ Promises!LosePower \/ UNCHANGED Promises!replacementVars
    <3>1. /\ Safe' \in {Safe, Current} /\ Current' \in {Safe, Current} /\ reported' \in {reported, Current}
          /\ Current' = Safe => Safe' = Safe
          /\ reported' = Current => (Safe' = Current /\ Current' = Current) \/ reported' = reported
      BY <2>2 DEF Promises!Settle, Promises!Promise, Promises!LosePower, Promises!replacementVars, Safe, Current
    <3> QED BY <3>1 DEF Kept
  <2> QED BY <2>1, <2>2 DEF Promises!ReplacementNext
<1> QED BY <1>1, <1>2, PTL DEF Promises!ReplacementSpec

\* A version that Apply has returned success for is never lost: neither an update
\* that fails nor a power loss leaves an older program.
THEOREM ReportedNeverLost == UpdateSpec => []Kept
BY ReplacedAsAWhole, PromisesKept, PTL DEF ImplementsReplacement

-----------------------------------------------------------------------------
(* The guard of BeginApply                                                   *)

\* A verified release is newer than the program, and no older than the last one
\* applied; before the first check of a process there is none.
NewestInv ==
    /\ goal <= published
    /\ verified # NoRelease => running < verified /\ goal <= verified /\ verified <= published
    /\ pc = "off" \/ (pc \in RecoverCalls /\ after = "startup") => verified = NoRelease

LEMMA NewestInit == UpdateInit => NewestInv
BY DEF UpdateInit, UpdaterInit, NewestInv

LEMMA NewestStep == UpdateInv /\ NewestInv /\ [UpdateNext]_updateVars => NewestInv'
<1> SUFFICES ASSUME UpdateInv, NewestInv, [UpdateNext]_updateVars PROVE NewestInv'
  OBVIOUS
<1>1. /\ running \in Nat /\ goal \in Nat /\ published \in Nat /\ (verified # NoRelease => verified \in Nat)
  BY FileTypes DEF UpdateInv, UpdateTypeOK, UpdaterTypeOK, Releases
<1>2. CASE Check \/ CheckExpires \/ CheckForUpdate
  <2>1. UNCHANGED <<pc, after, running, goal, published>> /\ pc \in {"idle", "failed"}
    BY <1>2 DEF Check, CheckExpires, CheckForUpdate, Ready, updaterVars, memory, outside
  <2>2. verified' \in {verified, NoRelease} \/ (verified' = published /\ running < published)
    BY <1>1, <1>2 DEF Check, CheckExpires, CheckForUpdate, AskApp, CheckApp, AppAnswers, Newer
  <2> QED BY <1>1, <2>1, <2>2 DEF NewestInv, RecoverCalls
<1>3. CASE ApplyUnified \/ ApplyExpires \/ ApplyReturns \/ ApplyVerified \/ VerifiedReturns
  <2>1. UNCHANGED <<verified, published, running>>
    BY <1>3 DEF ApplyUnified, ApplyExpires, ApplyReturns, ApplyVerified, VerifiedReturns, updaterVars, memory, outside,
         BeginApply
  <2>2. \/ UNCHANGED <<pc, after, goal>>
        \/ verified # NoRelease /\ goal' = verified /\ pc' = "inspect" /\ after' = "apply"
    <3>1. AppDue /\ checked => verified # NoRelease
      BY PolicyAssumption, FileTypes DEF AppDue, UpdateInv, UpdateTypeOK, ServiceInv
    <3> QED BY <1>3, <3>1 DEF ApplyUnified, ApplyExpires, ApplyReturns, ApplyVerified, VerifiedReturns, updaterVars,
         memory, BeginApply, Goto
  <2> QED BY <1>1, <2>1, <2>2 DEF NewestInv
<1>4. CASE Relaunch \/ Quit \/ PowerFails
  BY <1>4 DEF Relaunch, Quit, PowerFails, Exit, PowerLoss, Forget, outside, NewestInv
<1>5. CASE Publish
  BY <1>1, <1>5 DEF Publish, updaterVars, memory, service, NewestInv
<1>6. CASE EditRules \/ UNCHANGED updateVars
  BY <1>6 DEF EditRules, updateVars, updaterVars, memory, service, outside, NewestInv
<1>7. CASE UpdaterStep
  <2>1. UNCHANGED <<verified, published>>
    BY <1>7 DEF UpdaterStep, outside, service
  <2>2. /\ goal' = goal /\ (verified # NoRelease => running' = running)
        /\ pc' = "off" \/ (pc' \in RecoverCalls /\ after' = "startup") =>
             pc = "off" \/ (pc \in RecoverCalls /\ after = "startup")
    BY <1>7 DEF UpdaterStep, Start, WriteBack, Fail, Recovery, Inspect, Target, Restore, Discard, SyncRecovered, Unmark,
       SyncUnmarked, Application, Mode, RemoveStale, OpenTemporary, Copy, SyncFile, SyncTemporary, Mark, SyncMark, BackUp,
       SyncBackup, InPlace, SyncReplaced, RemoveTemporary, Sync, memory, Goto, Recovered, RecoverCalls, ApplyCalls,
       Uncommitted, NewestInv
  <2> QED BY <2>1, <2>2 DEF NewestInv
<1> QED BY <1>2, <1>3, <1>4, <1>5, <1>6, <1>7 DEF UpdateNext

\* selectManifest offers only newer releases, so what BeginApply asks of the
\* version it is given excludes no apply of the program.
THEOREM VerifiedIsNewest ==
    UpdateSpec => [](verified # NoRelease => running < verified /\ goal <= verified)
<1>1. NewestInv => (verified # NoRelease => running < verified /\ goal <= verified)
  BY DEF NewestInv
<1> QED BY <1>1, NewestInit, NewestStep, UpdateInductive, PTL DEF UpdateSpec
=============================================================================
