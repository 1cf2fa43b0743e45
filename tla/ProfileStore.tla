---------------------------- MODULE ProfileStore ----------------------------
(***************************************************************************)
(* The local profiles of one mouse: an index file and one file per         *)
(* profile, in a directory of the mouse's own                              *)
(* (src/internal/configstore/profiles.go).                                 *)
(*                                                                         *)
(* Every operation holds s.mu from its load to its return, so one runs at  *)
(* a time, and the interleaving that matters is with failure: an operation *)
(* may return an error at any system call, the process may die between two *)
(* of them, and power may be lost.  index, files and dir are what a        *)
(* process reads; dIndex, dFiles and dDir are what is on the disk for      *)
(* certain and comes back after a power loss.  The kernel writes an entry  *)
(* back when it likes; d.Sync() at the end of writeProfileJSON forces the  *)
(* entries of the directory, but nothing forces the directory's own entry  *)
(* in the store's root.                                                    *)
(*                                                                         *)
(* A request the code refuses (an unknown id, a name in use, a protected   *)
(* profile, a store that does not load) changes nothing and is no step.    *)
(* Creation dates, the notice and the order of the list are left out.      *)
(***************************************************************************)
CONSTANTS Ids, Names, Data,
          Automatic,   \* the name Bootstrap gives the first profile
          NoName, Missing, NoId, NoIndex

VARIABLES index, files, dir,      \* as the running process reads them
          dIndex, dFiles, dDir,   \* as a power loss leaves them
          op,                     \* the operation holding s.mu
          settled                 \* the last visible change returned nil

vars == <<index, files, dir, dIndex, dFiles, dDir, op, settled>>

Indexes == [names : [Ids -> Names \cup {NoName}], active : Ids]

ASSUME ConstantsAssumption ==
    /\ Automatic \in Names
    /\ NoName \notin Names
    /\ Missing \notin Data
    /\ NoId \notin Ids
    /\ NoIndex \notin Indexes

Listed(names) == {i \in Ids : names[i] # NoName}

\* load: the index parses, its active id is listed, every listed file reads.
Loads(ix, fs) ==
    /\ ix # NoIndex
    /\ ix.active \in Listed(ix.names)
    /\ \A i \in Listed(ix.names) : fs[i] # Missing

\* Steps of one operation: write the file, sync, write the index, sync,
\* remove a file.  An operation skips the ones it has no use for.
Steps == {"idle", "file", "syncfile", "index", "syncindex", "remove"}

Ops == [pc : Steps, file : Ids \cup {NoId}, data : Data \cup {Missing},
        index : Indexes \cup {NoIndex}, removal : Ids \cup {NoId}]

Idle == [pc |-> "idle", file |-> NoId, data |-> Missing,
         index |-> NoIndex, removal |-> NoId]

TypeOK ==
    /\ index \in Indexes \cup {NoIndex} /\ dIndex \in Indexes \cup {NoIndex}
    /\ files \in [Ids -> Data \cup {Missing}]
    /\ dFiles \in [Ids -> Data \cup {Missing}]
    /\ dir \in BOOLEAN /\ dDir \in BOOLEAN /\ settled \in BOOLEAN
    /\ op \in Ops

Init ==
    /\ index = NoIndex /\ dIndex = NoIndex
    /\ files = [i \in Ids |-> Missing] /\ dFiles = [i \in Ids |-> Missing]
    /\ dir = FALSE /\ dDir = FALSE
    /\ op = Idle
    /\ settled = TRUE

-----------------------------------------------------------------------------
(* The operations, up to their first system call that writes.              *)

\* Mutant: a new profile takes the first id its index does not list.
FreeSlots == {p \in Ids : index # NoIndex => p \notin Listed(index.names)}

\* newProfileSummary: sixteen random bytes, an id no file or index has.
Fresh == {p \in Ids : files[p] = Missing /\ dFiles[p] = Missing}

\* Mutant: only the active profile's name is compared.
NameOfActive(ix, name, except) == ix.active # except /\ ix.names[ix.active] = name

NameInUse(ix, name, except) == \E i \in Ids \ {except} : ix.names[i] = name

Unchanged == UNCHANGED <<index, files, dir, dIndex, dFiles, dDir, settled>>

WriteBoth(p, d, ix) == [Idle EXCEPT !.pc = "file", !.file = p, !.data = d, !.index = ix]

WriteFile(p, d) == [Idle EXCEPT !.pc = "file", !.file = p, !.data = d]
WriteIndex(ix) == [Idle EXCEPT !.pc = "index", !.index = ix]

\* Bootstrap: seeds a directory that does not exist.  One that exists without
\* a readable index is refused, whatever left it so.
Bootstrap ==
    /\ op.pc = "idle" /\ ~dir
    /\ \E p \in Fresh, d \in Data :
          op' = WriteBoth(p, d, [names |-> [i \in Ids |-> IF i = p THEN Automatic ELSE NoName],
                                 active |-> p])
    /\ Unchanged

\* clone, for Create (activate) and for Duplicate.
Clone ==
    /\ op.pc = "idle" /\ Loads(index, files)
    /\ \E p \in Fresh, name \in Names, activate \in BOOLEAN, source \in Listed(index.names) :
          /\ ~NameInUse(index, name, NoId)
          /\ activate => source = index.active
          /\ op' = WriteBoth(p, files[source],
                             [names  |-> [index.names EXCEPT ![p] = name],
                              active |-> IF activate THEN p ELSE index.active])
    /\ Unchanged

Rename ==
    /\ op.pc = "idle" /\ Loads(index, files)
    /\ \E p \in Listed(index.names), name \in Names :
          /\ ~NameInUse(index, name, p)
          /\ op' = WriteIndex([index EXCEPT !.names[p] = name])
    /\ Unchanged

Switch ==
    /\ op.pc = "idle" /\ Loads(index, files)
    /\ \E p \in Listed(index.names) : op' = WriteIndex([index EXCEPT !.active = p])
    /\ Unchanged

DismissNotice ==
    /\ op.pc = "idle" /\ Loads(index, files)
    /\ op' = WriteIndex(index)
    /\ Unchanged

SaveActive ==
    /\ op.pc = "idle" /\ Loads(index, files)
    /\ \E d \in Data : op' = WriteFile(index.active, d)
    /\ Unchanged

Delete ==
    /\ op.pc = "idle" /\ Loads(index, files)
    /\ \E p \in Listed(index.names) \ {index.active} :
          op' = [WriteIndex([index EXCEPT !.names[p] = NoName]) EXCEPT !.removal = p]
    /\ Unchanged

Begin == Bootstrap \/ Clone \/ Rename \/ Switch \/ DismissNotice \/ SaveActive \/ Delete

-----------------------------------------------------------------------------
(* The system calls of writeProfileJSON and of Delete.                      *)

\* os.MkdirAll.
MakeDir ==
    /\ op.pc \in {"file", "index"} /\ ~dir
    /\ dir' = TRUE
    /\ UNCHANGED <<index, files, dIndex, dFiles, dDir, op, settled>>

\* os.Rename of a complete, synced temporary file over a profile's file.
PublishFile ==
    /\ op.pc = "file" /\ dir
    /\ files' = [files EXCEPT ![op.file] = op.data]
    /\ op' = [op EXCEPT !.pc = "syncfile"]
    /\ settled' = (settled /\ (index # NoIndex => op.file \notin Listed(index.names)))
    /\ UNCHANGED <<index, dir, dIndex, dFiles, dDir>>

\* os.Rename of a complete, synced temporary file over the index.
PublishIndex ==
    /\ op.pc = "index" /\ dir
    /\ index' = op.index
    /\ op' = [op EXCEPT !.pc = "syncindex"]
    /\ settled' = FALSE
    /\ UNCHANGED <<files, dir, dIndex, dFiles, dDir>>

\* Mutant: the directory is not synced after the rename.
NoSync(durable, current) == durable

\* d.Sync(): every entry of the directory reaches the disk.
Synced(durable, current) == current

\* What follows a sync: the index after the file, the removal after the index.
AfterSync(o) ==
    IF o.pc = "syncfile" /\ o.index # NoIndex THEN [o EXCEPT !.pc = "index"]
    ELSE IF o.pc = "syncindex" /\ o.removal # NoId THEN [o EXCEPT !.pc = "remove"]
    ELSE Idle

SyncDir ==
    /\ op.pc \in {"syncfile", "syncindex"}
    /\ dIndex' = Synced(dIndex, index)
    /\ dFiles' = Synced(dFiles, files)
    /\ op' = AfterSync(op)
    /\ settled' = (settled \/ op' = Idle)
    /\ UNCHANGED <<index, files, dir, dDir>>

\* os.Remove of the file of the unpublished profile; not synced.
RemoveFile ==
    /\ op.pc = "remove"
    /\ files' = [files EXCEPT ![op.removal] = Missing]
    /\ op' = Idle
    /\ settled' = TRUE
    /\ UNCHANGED <<index, dir, dIndex, dFiles, dDir>>

\* A system call fails and the operation returns its error, or the process
\* dies here; either way nothing is undone and s.mu is free again.
Abandon ==
    /\ op.pc # "idle"
    /\ op' = Idle
    /\ UNCHANGED <<index, files, dir, dIndex, dFiles, dDir, settled>>

-----------------------------------------------------------------------------
(* The environment.                                                         *)

\* The kernel writes one entry back, in an order of its own.
FlushIndex == dIndex' = index /\ UNCHANGED <<index, files, dir, dFiles, dDir, op, settled>>

FlushFile ==
    /\ \E i \in Ids : dFiles' = [dFiles EXCEPT ![i] = files[i]]
    /\ UNCHANGED <<index, files, dir, dIndex, dDir, op, settled>>

FlushDir == dDir' = dir /\ UNCHANGED <<index, files, dir, dIndex, dFiles, op, settled>>

\* Power is lost; without the directory's own entry everything in it is gone.
PowerLoss ==
    /\ dir' = dDir
    /\ index' = IF dDir THEN dIndex ELSE NoIndex
    /\ files' = IF dDir THEN dFiles ELSE [i \in Ids |-> Missing]
    /\ dIndex' = index' /\ dFiles' = files'
    /\ op' = Idle
    /\ UNCHANGED <<dDir, settled>>

Next == Begin \/ MakeDir \/ PublishFile \/ PublishIndex \/ SyncDir \/ RemoveFile
        \/ Abandon \/ FlushIndex \/ FlushFile \/ FlushDir \/ PowerLoss

Spec == Init /\ [][Next]_vars

-----------------------------------------------------------------------------
(* Properties.                                                              *)

\* Every profile ix lists is readable now and would be after a power loss.
Kept(ix) == \A i \in Listed(ix.names) : files[i] # Missing /\ dFiles[i] # Missing

\* Its active profile is listed and no two profiles share a name.
WellFormed(ix) ==
    /\ ix.active \in Listed(ix.names)
    /\ \A i, j \in Listed(ix.names) : ix.names[i] = ix.names[j] => i = j

\* What a reader sees is what a power loss would leave.
Durable ==
    /\ dIndex = index
    /\ index # NoIndex => \A i \in Listed(index.names) : dFiles[i] = files[i]

IndexesGood ==
    /\ index # NoIndex => WellFormed(index) /\ Kept(index)
    /\ dIndex # NoIndex => WellFormed(dIndex) /\ Kept(dIndex)

\* The file of a save is the active profile's; that of a copy is listed nowhere.
FileStepGood ==
    op.pc = "file" =>
        /\ op.file # NoId /\ op.data # Missing
        /\ op.index = NoIndex => index # NoIndex
        /\ op.index # NoIndex =>
              \A ix \in {index, dIndex} : ix # NoIndex => op.file \notin Listed(ix.names)

\* The index about to be published lists only files that are already safe; the
\* one of a copy joins them when its directory entry is synced.
IndexStepGood ==
    /\ op.index # NoIndex =>
          /\ WellFormed(op.index)
          /\ op.removal # NoId => op.removal \notin Listed(op.index.names)
    /\ op.pc \in {"file", "syncfile"} /\ op.index # NoIndex =>
          \A i \in Listed(op.index.names) \ {op.file} : files[i] # Missing /\ dFiles[i] # Missing
    /\ op.pc = "syncfile" => op.file # NoId /\ files[op.file] # Missing
    /\ op.pc \in {"index", "syncindex"} => op.index # NoIndex /\ Kept(op.index)
    /\ op.pc \in {"syncindex", "remove"} => op.index # NoIndex /\ index = op.index
    /\ op.pc = "remove" => op.removal # NoId /\ Durable

\* An index and its files are published, synced and removed in an order that
\* never lets an index, read or durable, run ahead of its files; a change that
\* was reported as done is on the disk.
StoreInv == IndexesGood /\ FileStepGood /\ IndexStepGood /\ (settled => Durable)

\* Before a crash, after one and after a power loss, an index that exists can
\* be loaded: its active profile is listed and no listed file is missing.
NoDangling ==
    /\ index # NoIndex => Loads(index, files)
    /\ dIndex # NoIndex => Loads(dIndex, dFiles)

\* The store behaves as a book that changes by whole operations, of which the
\* disk has a copy: the parts of an operation between two system calls, the calls
\* that fail and the crashes are steps in which nothing happens to the book.
Book == INSTANCE ProfileBook WITH
    NoBook   <- NoIndex,
    book     <- index,  data     <- files,
    keptBook <- dIndex, keptData <- dFiles,
    anchored <- dDir,   reported <- settled

\* Every operation is atomic to readers whatever fails in it, only a power loss
\* takes one back, to what the disk has of it, and one that returned nil is on the
\* disk.
ImplementsProfileBook == Book!BookSpec
=============================================================================
