------------------------------- MODULE Updater -------------------------------
(***************************************************************************)
(* The replacement of the installed AppImage                               *)
(* (src/internal/update/updater.go), call by call, with failing calls, a   *)
(* crash between any two, write-back in any state and power loss.          *)
(*                                                                         *)
(* One process runs the program.  A file is a number, given when it is     *)
(* created; the directory names up to three of them and holds the marker.  *)
(* An fsync of the directory brings the disk up to date; the kernel may do *)
(* so at any time, and changes reach the disk in their order, as a journal *)
(* has it.  Sizes, modes and symbolic links are left out.                  *)
(***************************************************************************)
EXTENDS Naturals

CONSTANTS MaxVersion,  \* bound: the newest release there will be
          MaxFiles,    \* bound: temporary files created
          NoFile

ASSUME UpdaterAssumption ==
    /\ MaxVersion \in Nat /\ MaxFiles \in Nat
    /\ NoFile \notin Nat

VARIABLES dir,       \* the installation directory as processes see it
          disk,      \* what a power loss leaves of it
          version,   \* of each file, the release it was downloaded for
          data,      \* of each file: "none", "partial", "whole" or "synced"
          created,   \* the last file number given
          running,   \* the version the process runs
          pc,        \* the call the process is about to make; "off": no process;
                     \* "idle", "failed": none, and the last operation's result
          after,     \* what recoverInstallation returns to
          goal,      \* update.release.Version of the update being applied
          reported   \* the newest version Apply returned success for

memory == <<running, pc, after, goal>>
contents == <<version, data, created>>
updaterVars == <<dir, disk, contents, memory, reported>>

Versions == 0..MaxVersion
Files == 0..MaxFiles
Entry == Files \cup {NoFile}
Directory == [installed : Entry, backup : Entry, temporary : Entry, marker : BOOLEAN]

RecoverCalls == {"inspect", "target", "restore", "discard", "syncRecovered", "unmark", "syncUnmarked"}
ApplyCalls == {"mode", "removeStale", "openTemporary", "copy", "syncFile", "syncTemporary", "mark",
               "syncMark", "backUp", "syncBackup", "replace", "syncReplaced", "removeTemporary"}

UpdaterTypeOK ==
    /\ dir \in Directory /\ disk \in Directory
    /\ version \in [Files -> Versions]
    /\ data \in [Files -> {"none", "partial", "whole", "synced"}]
    /\ created \in Files
    /\ running \in Versions /\ goal \in Versions /\ reported \in Versions
    /\ pc \in RecoverCalls \cup ApplyCalls \cup {"off", "idle", "failed"}
    /\ after \in {"startup", "apply", "finish"}

\* File 0 is the program as it was installed.
UpdaterInit ==
    /\ dir = [installed |-> 0, backup |-> NoFile, temporary |-> NoFile, marker |-> FALSE]
    /\ disk = dir
    /\ version = [f \in Files |-> 0]
    /\ data = [f \in Files |-> IF f = 0 THEN "synced" ELSE "none"]
    /\ created = 0
    /\ running = 0 /\ pc = "off" /\ after = "startup" /\ goal = 0
    /\ reported = 0

-----------------------------------------------------------------------------
(* Calls on the directory.  A failed call changes nothing.                 *)

Rename(from, to) == [dir EXCEPT ![to] = dir[from], ![from] = NoFile]
Remove(name) == [dir EXCEPT ![name] = NoFile]

Goto(call) == pc' = call

\* Before the replacement is committed, an error removes the temporary file on
\* its way out; an error of a recovery at startup ends the program.
Uncommitted == {"copy", "syncFile", "syncTemporary", "mark", "syncMark", "backUp", "syncBackup",
                "replace", "syncReplaced"}

Fail ==
    /\ pc \in RecoverCalls \cup ApplyCalls
    /\ pc' = CASE pc \in Uncommitted -> "removeTemporary"
               [] pc \in RecoverCalls /\ after = "startup" -> "off"
               [] OTHER -> "failed"
    /\ UNCHANGED <<dir, disk, contents, running, after, goal, reported>>

\* directory.Sync(): what it brings to the disk when it fails is covered by
\* WriteBack before Fail.
Sync(call, next) ==
    /\ pc = call
    /\ disk' = dir
    /\ Goto(next)
    /\ UNCHANGED <<dir, contents, running, after, goal, reported>>

-----------------------------------------------------------------------------
(* recoverInstallation                                                     *)

\* Where recoverInstallation returns to when it has nothing left to do.
Recovered == CASE after = "apply" -> "mode" [] OTHER -> "idle"

\* Apply returns success.
Finish == reported' = IF after = "finish" THEN goal ELSE reported

Inspect ==
    /\ pc = "inspect"
    /\ \/ dir.marker /\ Goto("target") /\ UNCHANGED reported
       \/ ~dir.marker /\ Goto(Recovered) /\ Finish
    /\ UNCHANGED <<dir, disk, contents, running, after, goal>>

\* Mutant: a backup that exists is restored, whatever is installed.
BackupFirst ==
    /\ pc = "target"
    /\ Goto(IF dir.backup # NoFile THEN "restore" ELSE "discard")
    /\ UNCHANGED <<dir, disk, contents, running, after, goal, reported>>

Target ==
    /\ pc = "target"
    /\ Goto(IF dir.installed = NoFile THEN "restore" ELSE "discard")
    /\ UNCHANGED <<dir, disk, contents, running, after, goal, reported>>

Restore ==
    /\ pc = "restore" /\ dir.backup # NoFile
    /\ dir' = Rename("backup", "installed")
    /\ Goto("syncRecovered")
    /\ UNCHANGED <<disk, contents, running, after, goal, reported>>

\* A backup that does not exist is no error.
Discard ==
    /\ pc = "discard"
    /\ dir' = Remove("backup")
    /\ Goto("syncRecovered")
    /\ UNCHANGED <<disk, contents, running, after, goal, reported>>

SyncRecovered == Sync("syncRecovered", "unmark")

Unmark ==
    /\ pc = "unmark" /\ dir.marker
    /\ dir' = [dir EXCEPT !.marker = FALSE]
    /\ Goto("syncUnmarked")
    /\ UNCHANGED <<disk, contents, running, after, goal, reported>>

SyncUnmarked ==
    /\ pc = "syncUnmarked"
    /\ disk' = dir
    /\ Goto(Recovered) /\ Finish
    /\ UNCHANGED <<dir, contents, running, after, goal>>

Recovery == Inspect \/ Target \/ Restore \/ Discard \/ SyncRecovered \/ Unmark \/ SyncUnmarked
-----------------------------------------------------------------------------
(* Apply                                                                   *)

\* A verified update is newer than the running program, and the newest of those
\* published; releases are not withdrawn.
BeginApply(v) ==
    /\ pc \in {"idle", "failed"} /\ running < v /\ goal <= v
    /\ goal' = v /\ after' = "apply"
    /\ Goto("inspect")
    /\ UNCHANGED <<dir, disk, contents, running, reported>>

\* installedAppImageMode and the request for the download.
Mode ==
    /\ pc = "mode" /\ dir.installed # NoFile
    /\ Goto("removeStale")
    /\ UNCHANGED <<dir, disk, contents, running, after, goal, reported>>

RemoveStale ==
    /\ pc = "removeStale"
    /\ dir' = Remove("temporary")
    /\ Goto("openTemporary")
    /\ UNCHANGED <<disk, contents, running, after, goal, reported>>

OpenTemporary ==
    /\ pc = "openTemporary" /\ dir.temporary = NoFile
    /\ created < MaxFiles
    /\ created' = created + 1
    /\ dir' = [dir EXCEPT !.temporary = created + 1]
    /\ version' = [version EXCEPT ![created + 1] = goal]
    /\ data' = [data EXCEPT ![created + 1] = "partial"]
    /\ Goto("copy")
    /\ UNCHANGED <<disk, running, after, goal, reported>>

\* io.Copy and the comparison of the digest; a download that is cut or does not
\* match is Fail.
Copy ==
    /\ pc = "copy"
    /\ data' = [data EXCEPT ![created] = "whole"]
    /\ Goto("syncFile")
    /\ UNCHANGED <<dir, disk, version, created, running, after, goal, reported>>

\* Mutant: the contents are left to the kernel.
FileUnsynced == pc = "syncFile" /\ Goto("syncTemporary") /\ UNCHANGED <<dir, disk, contents, running, after, goal, reported>>

SyncFile ==
    /\ pc = "syncFile"
    /\ data' = [data EXCEPT ![created] = "synced"]
    /\ Goto("syncTemporary")
    /\ UNCHANGED <<dir, disk, version, created, running, after, goal, reported>>

SyncTemporary == Sync("syncTemporary", "mark")

\* writePending: O_EXCL, so a marker that is there is an error.  Its one line
\* is never read.
Mark ==
    /\ pc = "mark" /\ ~dir.marker
    /\ dir' = [dir EXCEPT !.marker = TRUE]
    /\ Goto("syncMark")
    /\ UNCHANGED <<disk, contents, running, after, goal, reported>>

SyncMark == Sync("syncMark", "backUp")

BackUp ==
    /\ pc = "backUp" /\ dir.installed # NoFile
    /\ dir' = Rename("installed", "backup")
    /\ Goto("syncBackup")
    /\ UNCHANGED <<disk, contents, running, after, goal, reported>>

SyncBackup == Sync("syncBackup", "replace")

InPlace ==
    /\ pc = "replace" /\ dir.temporary # NoFile
    /\ dir' = Rename("temporary", "installed")
    /\ Goto("syncReplaced")
    /\ UNCHANGED <<disk, contents, running, after, goal, reported>>

\* The replacement is committed; recoverInstallation clears up after it.
SyncReplaced ==
    /\ pc = "syncReplaced"
    /\ disk' = dir
    /\ after' = "finish"
    /\ Goto("inspect")
    /\ UNCHANGED <<dir, contents, running, goal, reported>>

\* The deferred removal, whose error is ignored.
RemoveTemporary ==
    /\ pc = "removeTemporary"
    /\ dir' \in {dir, Remove("temporary")}
    /\ Goto("failed")
    /\ UNCHANGED <<disk, contents, running, after, goal, reported>>

Application ==
    \/ Mode \/ RemoveStale \/ OpenTemporary \/ Copy \/ SyncFile \/ SyncTemporary
    \/ Mark \/ SyncMark \/ BackUp \/ SyncBackup \/ InPlace \/ SyncReplaced \/ RemoveTemporary
-----------------------------------------------------------------------------
(* The process and the disk                                                *)

\* The program is launched from its installed path; releaseUpdater finds that it
\* is the managed file, and RecoverUpdates runs before anything else.
Start ==
    /\ pc = "off" /\ dir.installed # NoFile /\ data[dir.installed] # "partial"
    /\ running' = version[dir.installed]
    /\ after' = "startup"
    /\ Goto("inspect")
    /\ UNCHANGED <<dir, disk, contents, goal, reported>>

\* The process ends: on request, by a crash, or for a relaunch.
Exit ==
    /\ pc # "off"
    /\ Goto("off")
    /\ UNCHANGED <<dir, disk, contents, running, after, goal, reported>>

WriteBack ==
    /\ disk' = dir
    /\ UNCHANGED <<dir, contents, memory, reported>>

PowerLoss ==
    /\ dir' = disk
    /\ data' = [f \in Files |-> IF data[f] = "whole" THEN "partial" ELSE data[f]]
    /\ Goto("off")
    /\ UNCHANGED <<disk, version, created, running, after, goal, reported>>

UpdaterNext ==
    \/ Start \/ Exit \/ WriteBack \/ PowerLoss \/ Fail
    \/ \E v \in Versions : BeginApply(v)
    \/ Recovery \/ Application

UpdaterSpec == UpdaterInit /\ [][UpdaterNext]_updaterVars
-----------------------------------------------------------------------------
(* What an update may never do                                             *)

\* The file a recovery of directory d would leave as the program.
Survivor(d) ==
    IF d.installed = NoFile /\ d.marker THEN d.backup ELSE d.installed

\* Whatever call is next, fails, or is cut by a crash or a power loss, recovery
\* finds a whole program: the one installed, or the backup the marker announces.
Recoverable ==
    /\ Survivor(dir) # NoFile /\ data[Survivor(dir)] \in {"whole", "synced"}
    /\ Survivor(disk) # NoFile /\ data[Survivor(disk)] = "synced"

\* The directory replaces the program as a whole: every reported version is on
\* the disk, and no failure goes back behind it.
Promises == INSTANCE Replacement WITH
    current <- version[Survivor(dir)], safe <- version[Survivor(disk)], promised <- reported
ImplementsReplacement == Promises!ReplacementSpec
=============================================================================
