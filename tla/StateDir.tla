------------------------------ MODULE StateDir -------------------------------
(***************************************************************************)
(* The state directory: its removal by an emergency reset                  *)
(* (src/internal/configstore/reset.go) and the application lock kept in it *)
(* (src/internal/applock/applock.go).                                      *)
(*                                                                         *)
(* A directory is a number, given when it is made; two names of the parent *)
(* refer to one: "state" and "quarantine".  Of its contents the profiles'  *)
(* active pointer, the watcher settings, the lock file, and whether all of *)
(* it is still there matter.  Contents reach the disk when they are        *)
(* written; names when the parent is synced, or earlier.                   *)
(***************************************************************************)
EXTENDS Naturals

CONSTANTS NoDir,
          MaxDirs,   \* bound: directories made
          Profiles,  \* the profiles the user has saved
          Original,  \* the one that is active at first
          Defaults,  \* the profile a first start without files makes
          NoProfile,
          Processes  \* the programs that use the directory

ASSUME StateDirAssumption ==
    /\ MaxDirs \in Nat /\ NoDir \notin Nat
    /\ Original \in Profiles /\ Defaults \notin Profiles
    /\ NoProfile \notin Profiles /\ NoProfile # Defaults

VARIABLES place,      \* the directory each name refers to
          placed,     \* the same on the disk
          content,    \* of each directory, what is in it
          made,       \* directories made
          flock,      \* the directory whose lock file a process holds locked
          purge,      \* the call PurgeAll is about to make, or its result
          found       \* history: the directory the purge has found to remove

stateVars == <<place, placed, content, made, flock, purge, found>>

Dirs == 0..MaxDirs
Names == {"state", "quarantine"}
Content == [whole : BOOLEAN, lock : BOOLEAN, on : BOOLEAN, active : Profiles \cup {Defaults, NoProfile}]
PurgeCalls == {"inspect", "rename", "recreate", "syncParent", "remove", "removeRest",
               "removeNew", "renameBack"}

StateTypeOK ==
    /\ place \in [Names -> Dirs \cup {NoDir}] /\ placed \in [Names -> Dirs \cup {NoDir}]
    /\ content \in [Dirs -> Content] /\ made \in Dirs
    /\ flock \in [Processes -> Dirs \cup {NoDir}]
    /\ purge \in PurgeCalls \cup {"off", "purged", "absent", "failed"}
    /\ found \in Dirs \cup {NoDir}

Empty == [whole |-> TRUE, lock |-> FALSE, on |-> FALSE, active |-> NoProfile]

StateInit ==
    /\ place = [n \in Names |-> IF n = "state" THEN 0 ELSE NoDir] /\ placed = place
    /\ \E on \in BOOLEAN :
         content = [d \in Dirs |-> IF d = 0 THEN [Empty EXCEPT !.active = Original, !.on = on, !.lock = TRUE] ELSE Empty]
    /\ made = 0
    /\ flock = [p \in Processes |-> NoDir]
    /\ purge = "off" /\ found = NoDir

-----------------------------------------------------------------------------
(* Reading and writing the state                                           *)

Here == place["state"]

\* MkdirAll of a writer, and the write; a write makes the directory if a purge
\* has just moved it away.
Write(new) ==
    \/ /\ Here # NoDir
       /\ content' = [content EXCEPT ![Here] = new]
       /\ UNCHANGED <<place, made>>
    \/ /\ Here = NoDir /\ made < MaxDirs
       /\ made' = made + 1
       /\ place' = [place EXCEPT !["state"] = made + 1]
       /\ content' = [content EXCEPT ![made + 1] = new]

Current == IF Here = NoDir THEN Empty ELSE content[Here]

\* The profiles that can be read as long as the index is there; a file that was
\* removed makes a read fail, which it may do at any time.
Readable == IF Current.active \in Profiles THEN Profiles ELSE {Current.active} \ {NoProfile}

-----------------------------------------------------------------------------
(* The application lock                                                    *)

Locked(d) == \E p \in Processes : flock[p] = d

\* Acquire creates the directory and the file and locks it, without blocking.
Acquire(p) ==
    /\ Here # NoDir => ~Locked(Here)
    /\ Write([Current EXCEPT !.lock = TRUE])
    /\ flock' = [flock EXCEPT ![p] = IF Here = NoDir THEN made + 1 ELSE Here]

\* Closing the file releases the lock.
Release(p) == flock' = [flock EXCEPT ![p] = NoDir]

\* IsHeld never creates the file.
IsHeld == Current.lock /\ Locked(Here)

-----------------------------------------------------------------------------
(* PurgeAll                                                                *)

\* No state directory is a success too, whatever the quarantine holds.
PurgeInspect ==
    /\ purge = "inspect"
    /\ \/ /\ Here = NoDir /\ made < MaxDirs
          /\ made' = made + 1 /\ place' = [place EXCEPT !["state"] = made + 1]
          /\ purge' = "absent" /\ found' = NoDir
       \/ /\ Here # NoDir
          /\ IF place["quarantine"] = NoDir
                THEN purge' = "rename" /\ found' = Here
                ELSE purge' = "failed" /\ found' = NoDir
          /\ UNCHANGED <<made, place>>
    /\ UNCHANGED <<placed, content, flock>>

Quarantine ==
    /\ purge = "rename"
    /\ place' = [place EXCEPT !["quarantine"] = Here, !["state"] = NoDir]
    /\ purge' = "recreate"
    /\ UNCHANGED <<placed, content, made, flock, found>>

Recreate ==
    /\ purge = "recreate" /\ Here = NoDir /\ made < MaxDirs
    /\ made' = made + 1
    /\ place' = [place EXCEPT !["state"] = made + 1]
    /\ purge' = "syncParent"
    /\ UNCHANGED <<placed, content, flock, found>>

\* Mutant: the parent is not synced before the old state is removed.
SyncLess ==
    /\ purge = "syncParent"
    /\ purge' = "remove"
    /\ UNCHANGED <<place, placed, content, made, flock, found>>

SyncParent ==
    /\ purge = "syncParent"
    /\ placed' = place
    /\ purge' = "remove"
    /\ UNCHANGED <<place, content, made, flock, found>>

\* RemoveAll removes files one by one: any of them may be gone when it is cut or
\* fails.  A lock on a file removed is no longer one on the file at that path.
Removed(d) ==
    \E lock \in {FALSE, content[d].lock}, on \in {FALSE, content[d].on}, active \in {NoProfile, content[d].active} :
        /\ content' = [content EXCEPT ![d] = [whole |-> FALSE, lock |-> lock, on |-> on, active |-> active]]
        /\ flock' = [p \in Processes |-> IF flock[p] = d /\ ~lock THEN NoDir ELSE flock[p]]

RemoveSome ==
    /\ purge = "remove" /\ Removed(place["quarantine"])
    /\ purge' = "removeRest"
    /\ UNCHANGED <<place, placed, made, found>>

RemoveRest ==
    /\ purge = "removeRest"
    /\ place' = [place EXCEPT !["quarantine"] = NoDir]
    /\ purge' = "purged"
    /\ UNCHANGED <<placed, content, made, flock, found>>

\* Mutant: a failed removal of the old state is not reported.
PurgeFailsQuietly ==
    /\ purge \in PurgeCalls
    /\ purge' = CASE purge \in {"recreate", "syncParent"} -> "removeNew"
                  [] purge \in {"remove", "removeRest"}   -> "purged"
                  [] OTHER -> "failed"
    /\ UNCHANGED <<place, placed, content, made, flock, found>>

\* A call fails: after the first rename, restore puts the old state back.  Mkdir
\* fails of itself when a writer has made the directory meanwhile.
PurgeFails ==
    /\ purge \in PurgeCalls
    /\ purge' = IF purge \in {"recreate", "syncParent", "remove", "removeRest"} THEN "removeNew" ELSE "failed"
    /\ UNCHANGED <<place, placed, content, made, flock, found>>

\* restore: what was written since is removed with the new directory.
RemoveNewSome ==
    /\ purge = "removeNew" /\ Here # NoDir /\ Removed(Here)
    /\ UNCHANGED <<place, placed, made, purge, found>>

RemoveNew ==
    /\ purge = "removeNew"
    /\ place' = [place EXCEPT !["state"] = NoDir]
    /\ purge' = "renameBack"
    /\ UNCHANGED <<placed, content, made, flock, found>>

\* The rename fails if a writer has made the directory again.
RenameBack ==
    /\ purge = "renameBack" /\ Here = NoDir
    /\ place' = [place EXCEPT !["state"] = place["quarantine"], !["quarantine"] = NoDir]
    /\ purge' = "failed"
    /\ UNCHANGED <<placed, content, made, flock, found>>

PurgeAll ==
    \/ PurgeInspect \/ Quarantine \/ Recreate \/ SyncParent \/ RemoveSome \/ RemoveRest
    \/ PurgeFails \/ RemoveNewSome \/ RemoveNew \/ RenameBack

\* The kernel writes the parent back.
WriteNames ==
    /\ placed' = place
    /\ UNCHANGED <<place, content, made, flock, purge, found>>
-----------------------------------------------------------------------------
(* What a purge may never do                                               *)

Found(where, d) == \E n \in Names : where[n] = d

\* Until its removal begins, the user's state can be found under one of the two
\* names, now and after a power loss; once the removal of a state has begun, no power
\* loss gives what is left of it the name of the state directory back.
StateFound ==
    /\ content[0].whole => Found(place, 0) /\ Found(placed, 0)
    /\ purge \in {"removeRest", "purged"} => placed["state"] # found

\* "Any lane failure, binding failure, cancellation, or cleanup failure MUST leave
\* persisted recovery state intact": what a purge that fails had found is still whole.
FailedPurgeKeepsState ==
    purge = "failed" /\ found # NoDir => content[found].whole /\ Found(place, found)

\* A purge that found the state and reports success has left nothing of it.
PurgedMeansGone ==
    purge = "purged" => place["quarantine"] = NoDir /\ Here # 0
=============================================================================
