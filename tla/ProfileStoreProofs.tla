------------------------- MODULE ProfileStoreProofs -------------------------
(***************************************************************************)
(* Proofs about ProfileStore for every set of ids, names and settings.     *)
(* The inductive invariant is TypeOK /\ StoreInv; the refinement of        *)
(* ProfileBook adds PlanInv, what an operation in hand is about to change. *)
(***************************************************************************)
EXTENDS ProfileStore, TLAPS

\* Listing one more profile, or renaming one: what the result lists.
LEMMA ListedAfter ==
    ASSUME NEW names \in [Ids -> Names \cup {NoName}], NEW p \in Ids, NEW name \in Names
    PROVE  /\ [names EXCEPT ![p] = name] \in [Ids -> Names \cup {NoName}]
           /\ Listed([names EXCEPT ![p] = name]) = Listed(names) \cup {p}
BY ConstantsAssumption DEF Listed

\* Taking a profile off the list: what the result lists.
LEMMA UnlistedAfter ==
    ASSUME NEW names \in [Ids -> Names \cup {NoName}], NEW p \in Ids
    PROVE  /\ [names EXCEPT ![p] = NoName] \in [Ids -> Names \cup {NoName}]
           /\ Listed([names EXCEPT ![p] = NoName]) = Listed(names) \ {p}
BY ConstantsAssumption DEF Listed

\* An operation begins with a record of its own kind.
LEMMA PlansTyped ==
    ASSUME NEW p \in Ids, NEW d \in Data, NEW ix \in Indexes
    PROVE  /\ WriteBoth(p, d, ix) \in Ops
           /\ WriteFile(p, d) \in Ops
           /\ WriteIndex(ix) \in Ops
           /\ [WriteIndex(ix) EXCEPT !.removal = p] \in Ops
           /\ Idle \in Ops
BY DEF WriteBoth, WriteFile, WriteIndex, Idle, Ops, Steps

\* The store starts empty, with nothing promised.
LEMMA StoreInit == Init => TypeOK /\ StoreInv
<1> SUFFICES ASSUME Init PROVE TypeOK /\ StoreInv
  OBVIOUS
<1>1. TypeOK
  BY DEF Init, TypeOK, Idle, Ops, Steps
<1>2. StoreInv
  BY DEF Init, StoreInv, IndexesGood, FileStepGood, IndexStepGood, Durable, Idle
<1> QED BY <1>1, <1>2

\* An operation that only begins leaves the disk alone, so its plan is all
\* there is to check.
LEMMA BeginKeeps ==
    ASSUME TypeOK, StoreInv, Unchanged, op'.pc # "syncfile", op'.pc # "syncindex",
           op'.pc # "remove", op' \in Ops,
           op'.index # NoIndex => /\ WellFormed(op'.index)
                                  /\ op'.removal # NoId => op'.removal \notin Listed(op'.index.names),
           op'.pc = "index" => op'.index # NoIndex /\ Kept(op'.index),
           op'.pc = "file" =>
              /\ op'.file # NoId /\ op'.data # Missing
              /\ op'.index = NoIndex => index # NoIndex
              /\ op'.index # NoIndex =>
                    /\ \A ix \in {index, dIndex} : ix # NoIndex => op'.file \notin Listed(ix.names)
                    /\ \A i \in Listed(op'.index.names) \ {op'.file} :
                          files[i] # Missing /\ dFiles[i] # Missing
    PROVE  TypeOK' /\ StoreInv'
<1>1. TypeOK'
  BY DEF TypeOK, Unchanged
<1>2. IndexesGood' /\ (settled => Durable)'
  BY DEF StoreInv, IndexesGood, Durable, Kept, WellFormed, Unchanged
<1>3. FileStepGood' /\ IndexStepGood'
  BY DEF FileStepGood, IndexStepGood, Kept, WellFormed, Unchanged
<1> QED BY <1>1, <1>2, <1>3 DEF StoreInv

LEMMA BootstrapStep == TypeOK /\ StoreInv /\ Bootstrap => TypeOK' /\ StoreInv'
<1> SUFFICES ASSUME TypeOK, StoreInv, Bootstrap PROVE TypeOK' /\ StoreInv'
  OBVIOUS
<1>1. PICK p \in Fresh, d \in Data :
         op' = WriteBoth(p, d, [names |-> [i \in Ids |-> IF i = p THEN Automatic ELSE NoName],
                                active |-> p])
  BY DEF Bootstrap
<1> DEFINE ix == [names |-> [i \in Ids |-> IF i = p THEN Automatic ELSE NoName], active |-> p]
<1>2. p \in Ids /\ files[p] = Missing /\ dFiles[p] = Missing
  BY <1>1 DEF Fresh
<1>3. ix \in Indexes /\ Listed(ix.names) = {p}
  BY <1>2, ConstantsAssumption DEF Indexes, Listed
<1>4. WellFormed(ix)
  BY <1>3 DEF WellFormed
<1>5. op' \in Ops
  BY <1>1, <1>2, <1>3, PlansTyped
<1>6. op'.pc = "file" /\ op'.file = p /\ op'.data = d /\ op'.index = ix /\ op'.removal = NoId
  BY <1>1 DEF WriteBoth, Idle
<1>7. \A jx \in {index, dIndex} : jx # NoIndex => p \notin Listed(jx.names)
  BY <1>2 DEF StoreInv, IndexesGood, Kept
<1> HIDE DEF ix
<1> QED BY <1>2, <1>3, <1>4, <1>5, <1>6, <1>7, ConstantsAssumption, BeginKeeps DEF Bootstrap

LEMMA CloneStep == TypeOK /\ StoreInv /\ Clone => TypeOK' /\ StoreInv'
<1> SUFFICES ASSUME TypeOK, StoreInv, Clone PROVE TypeOK' /\ StoreInv'
  OBVIOUS
<1>0. index \in Indexes /\ index # NoIndex /\ WellFormed(index) /\ Kept(index)
  BY DEF TypeOK, StoreInv, IndexesGood, Clone, Loads
<1>1. PICK p \in Fresh, name \in Names, activate \in BOOLEAN, source \in Listed(index.names) :
         /\ ~NameInUse(index, name, NoId)
         /\ op' = WriteBoth(p, files[source],
                            [names  |-> [index.names EXCEPT ![p] = name],
                             active |-> IF activate THEN p ELSE index.active])
  BY DEF Clone
<1> DEFINE ix == [names  |-> [index.names EXCEPT ![p] = name],
                  active |-> IF activate THEN p ELSE index.active]
<1>2. p \in Ids /\ files[p] = Missing /\ dFiles[p] = Missing
  BY <1>1 DEF Fresh
<1>3. index.names \in [Ids -> Names \cup {NoName}] /\ index.active \in Ids
  BY <1>0 DEF Indexes
<1>4. ix.names \in [Ids -> Names \cup {NoName}] /\ Listed(ix.names) = Listed(index.names) \cup {p}
  BY <1>1, <1>2, <1>3, ListedAfter
<1>5. ix \in Indexes
  BY <1>2, <1>3, <1>4 DEF Indexes
<1>6. \A jx \in {index, dIndex} : jx # NoIndex => p \notin Listed(jx.names)
  BY <1>2 DEF StoreInv, IndexesGood, Kept
<1>7. WellFormed(ix)
  <2>1. ix.active \in Listed(ix.names)
    BY <1>0, <1>4 DEF WellFormed
  <2>2. ASSUME NEW i \in Listed(ix.names), NEW j \in Listed(ix.names), ix.names[i] = ix.names[j]
        PROVE  i = j
    <3>1. \A k \in Listed(index.names) : index.names[k] # name
      BY <1>1, ConstantsAssumption DEF NameInUse, Listed
    <3>2. \A k \in Listed(index.names) : ix.names[k] = index.names[k]
      BY <1>0, <1>3, <1>6 DEF Listed
    <3>3. ix.names[p] = name
      BY <1>2, <1>3
    <3> QED BY <1>0, <1>4, <2>2, <3>1, <3>2, <3>3 DEF WellFormed
  <2> QED BY <2>1, <2>2 DEF WellFormed
<1>8. files[source] \in Data /\ files[source] # Missing
  BY <1>0, <1>1 DEF TypeOK, Kept, Listed
<1>9. op' \in Ops
  BY <1>1, <1>2, <1>5, <1>8, PlansTyped
<1>10. /\ op'.pc = "file" /\ op'.file = p /\ op'.data = files[source]
       /\ op'.index = ix /\ op'.removal = NoId
  BY <1>1 DEF WriteBoth, Idle
<1>11. \A i \in Listed(ix.names) \ {p} : files[i] # Missing /\ dFiles[i] # Missing
  BY <1>0, <1>4 DEF Kept
<1> HIDE DEF ix
<1> QED BY <1>0, <1>2, <1>5, <1>6, <1>7, <1>8, <1>9, <1>10, <1>11, ConstantsAssumption,
           BeginKeeps DEF Clone

\* The operations that write the index only: a new index of the same profiles.
LEMMA IndexOnlyStep ==
    ASSUME TypeOK, StoreInv, Unchanged, index # NoIndex,
           NEW ix \in Indexes, WellFormed(ix), Listed(ix.names) \subseteq Listed(index.names),
           op' = WriteIndex(ix)
    PROVE  TypeOK' /\ StoreInv'
<1>1. op' \in Ops
  BY PlansTyped DEF WriteIndex, Idle, Ops, Steps
<1>2. op'.pc = "index" /\ op'.index = ix /\ op'.removal = NoId
  BY DEF WriteIndex, Idle
<1>3. Kept(ix)
  BY DEF StoreInv, IndexesGood, Kept
<1> QED BY <1>1, <1>2, <1>3, ConstantsAssumption, BeginKeeps

LEMMA RenameStep == TypeOK /\ StoreInv /\ Rename => TypeOK' /\ StoreInv'
<1> SUFFICES ASSUME TypeOK, StoreInv, Rename PROVE TypeOK' /\ StoreInv'
  OBVIOUS
<1>1. PICK p \in Listed(index.names), name \in Names :
         ~NameInUse(index, name, p) /\ op' = WriteIndex([index EXCEPT !.names[p] = name])
  BY DEF Rename
<1>2. index \in Indexes /\ index # NoIndex /\ WellFormed(index)
  BY DEF TypeOK, StoreInv, IndexesGood, Rename, Loads
<1> DEFINE ix == [index EXCEPT !.names[p] = name]
<1>3. p \in Ids /\ index.names \in [Ids -> Names \cup {NoName}]
  BY <1>1, <1>2 DEF Indexes, Listed
<1>4. ix.names = [index.names EXCEPT ![p] = name] /\ ix.active = index.active
  BY <1>2 DEF Indexes
<1>5. Listed(ix.names) = Listed(index.names) /\ ix.names \in [Ids -> Names \cup {NoName}]
  BY <1>1, <1>3, <1>4, ListedAfter
<1>6. ix \in Indexes
  BY <1>2, <1>4, <1>5 DEF Indexes
<1>7. WellFormed(ix)
  <2>1. \A i \in Listed(index.names) \ {p} : ix.names[i] = index.names[i] /\ ix.names[i] # name
    BY <1>1, <1>3, <1>4 DEF NameInUse, Listed
  <2>2. ix.names[p] = name
    BY <1>3, <1>4
  <2> QED BY <1>2, <1>4, <1>5, <2>1, <2>2 DEF WellFormed
<1> HIDE DEF ix
<1> QED BY <1>1, <1>2, <1>5, <1>6, <1>7, IndexOnlyStep DEF Rename, ix

LEMMA SwitchStep == TypeOK /\ StoreInv /\ Switch => TypeOK' /\ StoreInv'
<1> SUFFICES ASSUME TypeOK, StoreInv, Switch PROVE TypeOK' /\ StoreInv'
  OBVIOUS
<1>1. PICK p \in Listed(index.names) : op' = WriteIndex([index EXCEPT !.active = p])
  BY DEF Switch
<1>2. index \in Indexes /\ index # NoIndex /\ WellFormed(index)
  BY DEF TypeOK, StoreInv, IndexesGood, Switch, Loads
<1> DEFINE ix == [index EXCEPT !.active = p]
<1>3. ix \in Indexes /\ ix.names = index.names /\ ix.active = p
  BY <1>1, <1>2 DEF Indexes, Listed
<1>4. WellFormed(ix)
  BY <1>1, <1>2, <1>3 DEF WellFormed
<1> HIDE DEF ix
<1> QED BY <1>1, <1>2, <1>3, <1>4, IndexOnlyStep DEF Switch, ix

LEMMA DismissStep == TypeOK /\ StoreInv /\ DismissNotice => TypeOK' /\ StoreInv'
<1> SUFFICES ASSUME TypeOK, StoreInv, DismissNotice PROVE TypeOK' /\ StoreInv'
  OBVIOUS
<1>1. index \in Indexes /\ index # NoIndex /\ WellFormed(index)
  BY DEF TypeOK, StoreInv, IndexesGood, DismissNotice, Loads
<1> QED BY <1>1, IndexOnlyStep DEF DismissNotice

LEMMA SaveStep == TypeOK /\ StoreInv /\ SaveActive => TypeOK' /\ StoreInv'
<1> SUFFICES ASSUME TypeOK, StoreInv, SaveActive PROVE TypeOK' /\ StoreInv'
  OBVIOUS
<1>1. PICK d \in Data : op' = WriteFile(index.active, d)
  BY DEF SaveActive
<1>2. index \in Indexes /\ index # NoIndex /\ index.active \in Ids
  BY DEF TypeOK, SaveActive, Loads, Indexes
<1>3. op' \in Ops
  BY <1>1, <1>2, ConstantsAssumption DEF WriteFile, Idle, Ops, Steps
<1>4. /\ op'.pc = "file" /\ op'.file = index.active /\ op'.data = d
      /\ op'.index = NoIndex /\ op'.removal = NoId
  BY <1>1 DEF WriteFile, Idle
<1> QED BY <1>2, <1>3, <1>4, ConstantsAssumption, BeginKeeps DEF SaveActive

LEMMA DeleteStep == TypeOK /\ StoreInv /\ Delete => TypeOK' /\ StoreInv'
<1> SUFFICES ASSUME TypeOK, StoreInv, Delete PROVE TypeOK' /\ StoreInv'
  OBVIOUS
<1>1. PICK p \in Listed(index.names) \ {index.active} :
         op' = [WriteIndex([index EXCEPT !.names[p] = NoName]) EXCEPT !.removal = p]
  BY DEF Delete
<1>2. index \in Indexes /\ index # NoIndex /\ WellFormed(index) /\ Kept(index)
  BY DEF TypeOK, StoreInv, IndexesGood, Delete, Loads
<1> DEFINE ix == [index EXCEPT !.names[p] = NoName]
<1>3. p \in Ids /\ index.names \in [Ids -> Names \cup {NoName}]
  BY <1>1, <1>2 DEF Indexes, Listed
<1>4. ix.names = [index.names EXCEPT ![p] = NoName] /\ ix.active = index.active
  BY <1>2 DEF Indexes
<1>5. Listed(ix.names) = Listed(index.names) \ {p} /\ ix.names \in [Ids -> Names \cup {NoName}]
  BY <1>3, <1>4, UnlistedAfter
<1>6. ix \in Indexes
  BY <1>2, <1>4, <1>5 DEF Indexes
<1>7. WellFormed(ix) /\ Kept(ix)
  <2>1. \A i \in Listed(index.names) \ {p} : ix.names[i] = index.names[i]
    BY <1>3, <1>4
  <2> QED BY <1>1, <1>2, <1>4, <1>5, <2>1 DEF WellFormed, Kept
<1>8. op' \in Ops
  BY <1>1, <1>3, <1>6 DEF WriteIndex, Idle, Ops, Steps
<1>9. op'.pc = "index" /\ op'.index = ix /\ op'.removal = p
  BY <1>1 DEF WriteIndex, Idle
<1>10. WellFormed(op'.index) /\ op'.removal \notin Listed(op'.index.names) /\ Kept(op'.index)
  BY <1>5, <1>7, <1>9
<1>11. op'.index # NoIndex
  BY <1>6, <1>9, ConstantsAssumption
<1> HIDE DEF ix
<1> QED BY <1>8, <1>9, <1>10, <1>11, BeginKeeps DEF Delete

LEMMA PublishFileStep == TypeOK /\ StoreInv /\ PublishFile => TypeOK' /\ StoreInv'
<1> SUFFICES ASSUME TypeOK, StoreInv, PublishFile PROVE TypeOK' /\ StoreInv'
  OBVIOUS
<1>1. op.file \in Ids /\ op.data \in Data /\ op \in Ops /\ op.pc = "file"
  BY DEF TypeOK, Ops, StoreInv, FileStepGood, PublishFile
<1>2. op' \in Ops /\ op'.pc = "syncfile" /\ op'.file = op.file /\ op'.index = op.index
      /\ op'.removal = op.removal
  BY <1>1 DEF Ops, Steps, PublishFile
<1>3. files' \in [Ids -> Data \cup {Missing}] /\ files'[op.file] # Missing
      /\ \A i \in Ids \ {op.file} : files'[i] = files[i]
  BY <1>1, ConstantsAssumption DEF TypeOK, PublishFile
<1>4. TypeOK'
  BY <1>2, <1>3 DEF TypeOK, PublishFile
<1>5. IndexesGood'
  BY <1>3 DEF StoreInv, IndexesGood, Kept, WellFormed, Listed, PublishFile
<1>6. FileStepGood' /\ IndexStepGood'
  <2>1. op.index # NoIndex => WellFormed(op'.index)
    BY <1>2 DEF StoreInv, IndexStepGood
  <2>2. op.index # NoIndex =>
          \A i \in Listed(op.index.names) \ {op.file} : files'[i] # Missing /\ dFiles[i] # Missing
    BY <1>1, <1>3 DEF StoreInv, IndexStepGood, Listed
  <2> QED BY <1>1, <1>2, <1>3, <2>1, <2>2 DEF StoreInv, FileStepGood, IndexStepGood, PublishFile
<1>7. (settled => Durable)'
  BY <1>3 DEF StoreInv, Durable, Listed, PublishFile
<1> QED BY <1>4, <1>5, <1>6, <1>7 DEF StoreInv

LEMMA PublishIndexStep == TypeOK /\ StoreInv /\ PublishIndex => TypeOK' /\ StoreInv'
<1> SUFFICES ASSUME TypeOK, StoreInv, PublishIndex PROVE TypeOK' /\ StoreInv'
  OBVIOUS
<1>1. op \in Ops /\ op.pc = "index" /\ op.index \in Indexes /\ op.index # NoIndex
      /\ WellFormed(op.index) /\ Kept(op.index)
  BY DEF TypeOK, Ops, StoreInv, IndexStepGood, PublishIndex
<1>2. op' \in Ops /\ op'.pc = "syncindex" /\ op'.file = op.file /\ op'.index = op.index
      /\ op'.removal = op.removal
  BY <1>1 DEF Ops, Steps, PublishIndex
<1>3. TypeOK'
  BY <1>1, <1>2 DEF TypeOK, PublishIndex
<1>4. IndexesGood'
  BY <1>1 DEF StoreInv, IndexesGood, Kept, PublishIndex
<1>5. FileStepGood' /\ IndexStepGood'
  BY <1>1, <1>2 DEF StoreInv, FileStepGood, IndexStepGood, Kept, PublishIndex
<1>6. (settled => Durable)'
  BY DEF PublishIndex
<1> QED BY <1>3, <1>4, <1>5, <1>6 DEF StoreInv

LEMMA SyncDirStep == TypeOK /\ StoreInv /\ SyncDir => TypeOK' /\ StoreInv'
<1> SUFFICES ASSUME TypeOK, StoreInv, SyncDir PROVE TypeOK' /\ StoreInv'
  OBVIOUS
<1>1. /\ dIndex' = index /\ dFiles' = files
      /\ UNCHANGED <<index, files, dir, dDir>>
      /\ settled' \in BOOLEAN
  BY DEF SyncDir, Synced, TypeOK
<1>2. Durable'
  BY <1>1 DEF Durable
<1>3. IndexesGood'
  BY <1>1 DEF StoreInv, IndexesGood, Kept
<1>4. \/ /\ op.pc = "syncfile" /\ op.index # NoIndex
         /\ op' = [op EXCEPT !.pc = "index"]
      \/ /\ op.pc = "syncindex" /\ op.removal # NoId
         /\ op' = [op EXCEPT !.pc = "remove"]
      \/ op' = Idle
  BY DEF SyncDir, AfterSync
<1>5. CASE op' = Idle
  <2>1. TypeOK'
    BY <1>1, <1>5 DEF TypeOK, Idle, Ops, Steps
  <2>2. FileStepGood' /\ IndexStepGood'
    BY <1>5 DEF FileStepGood, IndexStepGood, Idle
  <2> QED BY <1>2, <1>3, <2>1, <2>2 DEF StoreInv
<1>6. CASE op.pc = "syncfile" /\ op.index # NoIndex /\ op' = [op EXCEPT !.pc = "index"]
  <2>1. op' \in Ops /\ op'.pc = "index" /\ op'.file = op.file /\ op'.index = op.index
        /\ op'.removal = op.removal
    BY <1>6 DEF TypeOK, Ops, Steps
  <2>2. \A i \in Listed(op.index.names) : files[i] # Missing
    <3>1. op.pc = "syncfile" /\ op.index # NoIndex /\ files[op.file] # Missing
          /\ \A i \in Listed(op.index.names) \ {op.file} : files[i] # Missing
      BY <1>6 DEF StoreInv, IndexStepGood
    <3> QED BY <3>1
  <2>3. \A i \in Listed(op'.index.names) : files'[i] # Missing /\ dFiles'[i] # Missing
    BY <1>1, <2>1, <2>2
  <2>4. TypeOK'
    BY <1>1, <2>1 DEF TypeOK
  <2>5. FileStepGood' /\ IndexStepGood'
    BY <1>6, <2>1, <2>3 DEF StoreInv, FileStepGood, IndexStepGood, Kept
  <2> QED BY <1>2, <1>3, <2>4, <2>5 DEF StoreInv
<1>7. CASE op.pc = "syncindex" /\ op.removal # NoId /\ op' = [op EXCEPT !.pc = "remove"]
  <2>1. op' \in Ops /\ op'.pc = "remove" /\ op'.index = op.index /\ op'.removal = op.removal
    BY <1>7 DEF TypeOK, Ops, Steps
  <2>2. TypeOK'
    BY <1>1, <2>1 DEF TypeOK
  <2>3. FileStepGood' /\ IndexStepGood'
    BY <1>1, <1>2, <1>7, <2>1 DEF StoreInv, FileStepGood, IndexStepGood
  <2> QED BY <1>2, <1>3, <2>2, <2>3 DEF StoreInv
<1> QED BY <1>4, <1>5, <1>6, <1>7

LEMMA RemoveFileStep == TypeOK /\ StoreInv /\ RemoveFile => TypeOK' /\ StoreInv'
<1> SUFFICES ASSUME TypeOK, StoreInv, RemoveFile PROVE TypeOK' /\ StoreInv'
  OBVIOUS
<1>1. op.removal \in Ids /\ op.index # NoIndex /\ index = op.index /\ Durable
      /\ op.removal \notin Listed(index.names)
  BY DEF TypeOK, Ops, StoreInv, IndexStepGood, RemoveFile
<1>2. files' \in [Ids -> Data \cup {Missing}] /\ \A i \in Ids \ {op.removal} : files'[i] = files[i]
  BY <1>1 DEF TypeOK, RemoveFile
<1>3. TypeOK'
  BY <1>2 DEF TypeOK, RemoveFile, Idle, Ops, Steps
<1>4. Durable' /\ IndexesGood'
  BY <1>1, <1>2 DEF StoreInv, IndexesGood, Durable, Kept, Listed, RemoveFile
<1>5. FileStepGood' /\ IndexStepGood'
  BY DEF FileStepGood, IndexStepGood, RemoveFile, Idle
<1> QED BY <1>3, <1>4, <1>5 DEF StoreInv

LEMMA AbandonStep == TypeOK /\ StoreInv /\ Abandon => TypeOK' /\ StoreInv'
<1> SUFFICES ASSUME TypeOK, StoreInv, Abandon PROVE TypeOK' /\ StoreInv'
  OBVIOUS
<1>1. TypeOK'
  BY DEF TypeOK, Abandon, Idle, Ops, Steps
<1>2. IndexesGood' /\ (settled => Durable)'
  BY DEF StoreInv, IndexesGood, Durable, Kept, Abandon
<1>3. FileStepGood' /\ IndexStepGood'
  BY DEF FileStepGood, IndexStepGood, Abandon, Idle
<1> QED BY <1>1, <1>2, <1>3 DEF StoreInv

LEMMA FlushStep ==
    TypeOK /\ StoreInv /\ (FlushIndex \/ FlushFile \/ FlushDir \/ MakeDir) => TypeOK' /\ StoreInv'
<1> SUFFICES ASSUME TypeOK, StoreInv, FlushIndex \/ FlushFile \/ FlushDir \/ MakeDir
             PROVE TypeOK' /\ StoreInv'
  OBVIOUS
<1>1. CASE FlushDir \/ MakeDir
  <2>1. UNCHANGED <<index, files, dIndex, dFiles, op, settled>>
    BY <1>1 DEF FlushDir, MakeDir
  <2>2. TypeOK'
    BY <1>1, <2>1 DEF TypeOK, FlushDir, MakeDir
  <2>3. IndexesGood' /\ (settled => Durable)'
    BY <2>1 DEF StoreInv, IndexesGood, Durable, Kept
  <2>4. FileStepGood' /\ IndexStepGood'
    BY <2>1 DEF StoreInv, FileStepGood, IndexStepGood, Kept, Durable
  <2> QED BY <2>2, <2>3, <2>4 DEF StoreInv
<1>2. CASE FlushIndex
  <2>1. TypeOK'
    BY <1>2 DEF TypeOK, FlushIndex
  <2>2. IndexesGood' /\ (settled => Durable)'
    BY <1>2 DEF StoreInv, IndexesGood, Durable, Kept, FlushIndex
  <2>3. FileStepGood' /\ IndexStepGood'
    BY <1>2 DEF StoreInv, FileStepGood, IndexStepGood, Kept, Durable, FlushIndex
  <2> QED BY <2>1, <2>2, <2>3 DEF StoreInv
<1>3. CASE FlushFile
  <2>1. PICK i \in Ids : dFiles' = [dFiles EXCEPT ![i] = files[i]]
    BY <1>3 DEF FlushFile
  <2>2. /\ UNCHANGED <<index, files, dir, dIndex, dDir, op, settled>>
        /\ \A j \in Ids : dFiles'[j] = dFiles[j] \/ dFiles'[j] = files[j]
        /\ dFiles' \in [Ids -> Data \cup {Missing}]
    BY <1>3, <2>1 DEF TypeOK, FlushFile
  <2>3. TypeOK'
    BY <2>2 DEF TypeOK
  <2>4. \A ix \in {index, dIndex, op.index} : Kept(ix) => Kept(ix)'
    BY <2>2 DEF Kept, Listed
  <2>5. Durable => Durable'
    BY <2>2 DEF Durable, Listed
  <2>6. IndexesGood' /\ (settled => Durable)'
    BY <2>2, <2>4, <2>5 DEF StoreInv, IndexesGood
  <2>7. op.pc \in {"file", "syncfile"} /\ op.index # NoIndex =>
          \A j \in Listed(op.index.names) \ {op.file} : files[j] # Missing /\ dFiles'[j] # Missing
    BY <2>2 DEF StoreInv, IndexStepGood, Listed
  <2>8. FileStepGood' /\ IndexStepGood'
    BY <2>2, <2>4, <2>5, <2>7 DEF StoreInv, FileStepGood, IndexStepGood
  <2> QED BY <2>3, <2>6, <2>8 DEF StoreInv
<1> QED BY <1>1, <1>2, <1>3

LEMMA PowerLossStep == TypeOK /\ StoreInv /\ PowerLoss => TypeOK' /\ StoreInv'
<1> SUFFICES ASSUME TypeOK, StoreInv, PowerLoss PROVE TypeOK' /\ StoreInv'
  OBVIOUS
<1>1. dIndex' = index' /\ dFiles' = files' /\ op' = Idle
  BY DEF PowerLoss
<1>2. TypeOK'
  BY DEF TypeOK, PowerLoss, Idle, Ops, Steps
<1>3. Durable'
  BY <1>1 DEF Durable
<1>4. IndexesGood'
  BY <1>1 DEF StoreInv, IndexesGood, Kept, PowerLoss
<1>5. FileStepGood' /\ IndexStepGood'
  BY <1>1 DEF FileStepGood, IndexStepGood, Idle
<1> QED BY <1>2, <1>3, <1>4, <1>5 DEF StoreInv

\* Every step of the store, of the kernel and of the environment keeps the
\* invariant.
LEMMA StoreStep == TypeOK /\ StoreInv /\ [Next]_vars => TypeOK' /\ StoreInv'
<1> SUFFICES ASSUME TypeOK, StoreInv, [Next]_vars PROVE TypeOK' /\ StoreInv'
  OBVIOUS
<1>1. CASE Begin
  BY <1>1, BootstrapStep, CloneStep, RenameStep, SwitchStep, DismissStep, SaveStep,
     DeleteStep DEF Begin
<1>2. CASE UNCHANGED vars
  <2>1. TypeOK'
    BY <1>2 DEF TypeOK, vars
  <2>2. StoreInv'
    BY <1>2 DEF StoreInv, IndexesGood, FileStepGood, IndexStepGood, Kept, Durable, vars
  <2> QED BY <2>1, <2>2
<1> QED BY <1>1, <1>2, PublishFileStep, PublishIndexStep, SyncDirStep, RemoveFileStep,
           AbandonStep, FlushStep, PowerLossStep DEF Next

-----------------------------------------------------------------------------

\* The variables keep their types through every interleaving of operations,
\* failures, crashes and power losses.
THEOREM StoreTypeCorrect == Spec => []TypeOK
<1> QED BY StoreInit, StoreStep, PTL DEF Spec

\* Files are published, synced and removed in an order that never lets an
\* index run ahead of its files, and what was reported as done is on the disk
\* (writeProfileJSON, clone, Delete).
THEOREM StoreInvHolds == Spec => []StoreInv
<1> QED BY StoreInit, StoreStep, PTL DEF Spec

\* Whatever fails and whenever power is lost, an index that exists loads: the
\* comment of Delete, "never an index pointing at a missing profile", for every
\* operation.
THEOREM IndexNeverDangles == Spec => []NoDangling
<1>1. TypeOK /\ StoreInv => NoDangling
  BY DEF StoreInv, IndexesGood, NoDangling, Loads, WellFormed, Kept
<1> QED BY <1>1, StoreInit, StoreStep, PTL DEF Spec

-----------------------------------------------------------------------------
(* The store implements ProfileBook.  The book changes where an index is     *)
(* renamed into place, so what an operation planned from the index it loaded *)
(* must still be one change of the index that stands when it publishes.      *)

\* Bootstrap: the first profile.
Seeded(ix) ==
    /\ index = NoIndex
    /\ op.file \in Ids
    /\ \E name \in Names : ix.names = [i \in Ids |-> IF i = op.file THEN name ELSE NoName]
    /\ ix.active = op.file

\* clone: one more profile, under a free name, with the settings of a listed one.
Copied(ix) ==
    /\ index # NoIndex
    /\ op.file \in Ids \ Listed(index.names)
    /\ \E name \in Names :
          /\ ~NameInUse(index, name, NoId)
          /\ ix.names = [index.names EXCEPT ![op.file] = name]
    /\ ix.active \in {index.active, op.file}
    /\ \E source \in Listed(index.names) :
          files[source] = IF op.pc = "file" THEN op.data ELSE files[op.file]

\* Rename, Switch (and DismissNotice, which selects the active profile), Delete.
Renamed(ix) ==
    /\ op.pc = "index" /\ index # NoIndex
    /\ \E p \in Listed(index.names), name \in Names :
          /\ ~NameInUse(index, name, p)
          /\ ix = [index EXCEPT !.names[p] = name]

Switched(ix) ==
    /\ op.pc = "index" /\ index # NoIndex
    /\ \E p \in Listed(index.names) : ix = [index EXCEPT !.active = p]

Shortened(ix) ==
    /\ op.pc = "index" /\ index # NoIndex
    /\ \E p \in Listed(index.names) \ {index.active} : ix = [index EXCEPT !.names[p] = NoName]

OneChange(ix) == Seeded(ix) \/ Copied(ix) \/ Renamed(ix) \/ Switched(ix) \/ Shortened(ix)

PlanInv ==
    /\ op.pc \in {"file", "syncfile", "index"} /\ op.index # NoIndex => OneChange(op.index)
    /\ op.pc = "file" /\ op.index = NoIndex => op.file = index.active
    /\ dDir => dir
    /\ ~dir => index = NoIndex

LEMMA PlanInit == Init => PlanInv
BY DEF Init, PlanInv, Idle

\* Beginning an operation: its plan is one change of the index it loaded.
LEMMA PlanBegin ==
    ASSUME TypeOK, StoreInv, PlanInv, Begin
    PROVE  PlanInv'
<1> USE DEF Unchanged
<1>0. Unchanged
  BY DEF Begin, Bootstrap, Clone, Rename, Switch, DismissNotice, SaveActive, Delete
<1>1. CASE Bootstrap
  <2>1. PICK p \in Fresh, d \in Data :
           op' = WriteBoth(p, d, [names |-> [i \in Ids |-> IF i = p THEN Automatic ELSE NoName],
                                  active |-> p])
    BY <1>1 DEF Bootstrap
  <2>2. /\ op'.file = p /\ op'.pc = "file" /\ p \in Ids
        /\ op'.index = [names |-> [i \in Ids |-> IF i = p THEN Automatic ELSE NoName], active |-> p]
    BY <2>1 DEF WriteBoth, Idle, Fresh
  <2>3. index = NoIndex
    BY <1>1 DEF Bootstrap, PlanInv
  <2>4. op'.index # NoIndex /\ Automatic \in Names
    BY <2>2, ConstantsAssumption DEF Indexes
  <2>5. Seeded(op.index)'
    BY <1>0, <2>2, <2>3, <2>4 DEF Seeded
  <2> QED BY <1>0, <2>4, <2>5 DEF PlanInv, OneChange
<1>2. CASE Clone
  <2>1. PICK p \in Fresh, name \in Names, activate \in BOOLEAN, source \in Listed(index.names) :
           /\ ~NameInUse(index, name, NoId)
           /\ op' = WriteBoth(p, files[source],
                              [names  |-> [index.names EXCEPT ![p] = name],
                               active |-> IF activate THEN p ELSE index.active])
    BY <1>2 DEF Clone
  <2>2. /\ op'.file = p /\ op'.pc = "file" /\ p \in Ids /\ op'.data = files[source]
        /\ op'.index.names = [index.names EXCEPT ![p] = name]
        /\ op'.index.active \in {index.active, p}
    BY <2>1 DEF WriteBoth, Idle, Fresh
  <2>3. index # NoIndex /\ Kept(index)
    BY <1>2 DEF Clone, Loads, StoreInv, IndexesGood
  <2>4. p \notin Listed(index.names)
    BY <2>1, <2>3 DEF Fresh, Kept
  <2>5. op'.index # NoIndex
    <3>1. index \in Indexes
      BY <2>3 DEF TypeOK
    <3>2. op'.index \in Indexes
      BY <2>1, <2>2, <3>1, ListedAfter DEF WriteBoth, Idle, Indexes, Fresh
    <3> QED BY <3>2, ConstantsAssumption
  <2>6. Copied(op.index)'
    BY <1>0, <2>1, <2>2, <2>3, <2>4 DEF Copied, NameInUse
  <2> QED BY <1>0, <2>5, <2>6 DEF PlanInv, OneChange
<1>3. CASE Rename
  <2>1. PICK p \in Listed(index.names), name \in Names :
           ~NameInUse(index, name, p) /\ op' = WriteIndex([index EXCEPT !.names[p] = name])
    BY <1>3 DEF Rename
  <2>2. op'.pc = "index" /\ op'.index = [index EXCEPT !.names[p] = name] /\ index # NoIndex
    BY <1>3, <2>1 DEF WriteIndex, Idle, Rename, Loads
  <2>3. Renamed(op.index)'
    BY <1>0, <2>1, <2>2 DEF Renamed, NameInUse
  <2> QED BY <1>0, <2>2, <2>3 DEF PlanInv, OneChange
<1>4. CASE Switch
  <2>1. PICK p \in Listed(index.names) : op' = WriteIndex([index EXCEPT !.active = p])
    BY <1>4 DEF Switch
  <2>2. op'.pc = "index" /\ op'.index = [index EXCEPT !.active = p] /\ index # NoIndex
    BY <1>4, <2>1 DEF WriteIndex, Idle, Switch, Loads
  <2>3. Switched(op.index)'
    BY <1>0, <2>1, <2>2 DEF Switched
  <2> QED BY <1>0, <2>2, <2>3 DEF PlanInv, OneChange
<1>5. CASE DismissNotice
  <2>1. /\ op'.pc = "index" /\ op'.index = index /\ index # NoIndex
        /\ index.active \in Listed(index.names)
    BY <1>5 DEF DismissNotice, WriteIndex, Idle, Loads
  <2>2. index = [index EXCEPT !.active = index.active]
    BY <2>1 DEF TypeOK, Indexes
  <2>3. Switched(op.index)'
    BY <1>0, <2>1, <2>2 DEF Switched
  <2> QED BY <1>0, <2>1, <2>3 DEF PlanInv, OneChange
<1>6. CASE SaveActive
  <2>1. op'.pc = "file" /\ op'.index = NoIndex /\ op'.file = index.active
    BY <1>6 DEF SaveActive, WriteFile, Idle
  <2> QED BY <1>0, <2>1 DEF PlanInv
<1>7. CASE Delete
  <2>1. PICK p \in Listed(index.names) \ {index.active} :
           op' = [WriteIndex([index EXCEPT !.names[p] = NoName]) EXCEPT !.removal = p]
    BY <1>7 DEF Delete
  <2>2. op'.pc = "index" /\ op'.index = [index EXCEPT !.names[p] = NoName] /\ index # NoIndex
    BY <1>7, <2>1 DEF WriteIndex, Idle, Delete, Loads
  <2>3. Shortened(op.index)'
    BY <1>0, <2>1, <2>2 DEF Shortened
  <2> QED BY <1>0, <2>2, <2>3 DEF PlanInv, OneChange
<1> QED BY <1>1, <1>2, <1>3, <1>4, <1>5, <1>6, <1>7 DEF Begin

\* The index does not move under a running operation, and of the files only
\* the one it writes does.
LEMMA PlanStep ==
    ASSUME TypeOK, StoreInv, PlanInv, [Next]_vars
    PROVE  PlanInv'
<1>1. CASE Begin
  BY <1>1, PlanBegin
<1>2. CASE MakeDir \/ FlushIndex \/ FlushFile \/ FlushDir \/ UNCHANGED vars
  <2>1. UNCHANGED <<index, files, op>>
    BY <1>2 DEF MakeDir, FlushIndex, FlushFile, FlushDir, vars
  <2>2. (dDir' => dir') /\ (~dir' => index' = NoIndex)
    <3>1. CASE MakeDir
      BY <3>1 DEF MakeDir
    <3>2. CASE FlushDir
      BY <3>2 DEF FlushDir, PlanInv
    <3>3. CASE FlushIndex \/ FlushFile \/ UNCHANGED vars
      BY <3>3 DEF FlushIndex, FlushFile, vars, PlanInv
    <3> QED BY <1>2, <3>1, <3>2, <3>3
  <2>3. OneChange(op.index) => OneChange(op.index)'
    <3>1. Seeded(op.index) => Seeded(op.index)'
      BY <2>1 DEF Seeded
    <3>2. Copied(op.index) => Copied(op.index)'
      BY <2>1 DEF Copied, NameInUse
    <3>3. Renamed(op.index) => Renamed(op.index)'
      BY <2>1 DEF Renamed, NameInUse
    <3>4. Switched(op.index) => Switched(op.index)'
      BY <2>1 DEF Switched
    <3>5. Shortened(op.index) => Shortened(op.index)'
      BY <2>1 DEF Shortened
    <3> QED BY <3>1, <3>2, <3>3, <3>4, <3>5 DEF OneChange
  <2> QED BY <2>1, <2>2, <2>3 DEF PlanInv
<1>3. CASE PublishFile
  <2>1. /\ op.pc = "file" /\ op'.pc = "syncfile" /\ op'.file = op.file /\ op'.index = op.index
        /\ op.file \in Ids /\ files' = [files EXCEPT ![op.file] = op.data]
        /\ UNCHANGED <<index, dir, dDir>>
    BY <1>3 DEF PublishFile, TypeOK, Ops, StoreInv, FileStepGood
  <2> SUFFICES ASSUME op.index # NoIndex
               PROVE  OneChange(op.index)'
    BY <2>1 DEF PlanInv
  <2>2. Seeded(op.index) \/ Copied(op.index)
    BY <2>1 DEF PlanInv, OneChange, Renamed, Switched, Shortened
  <2>3. CASE Seeded(op.index)
    BY <2>1, <2>3 DEF Seeded, OneChange
  <2>4. CASE Copied(op.index)
    <3>1. PICK source \in Listed(index.names) : files[source] = op.data
      BY <2>1, <2>4 DEF Copied
    <3>2. files'[source] = op.data /\ files'[op.file] = op.data
      BY <2>1, <2>4, <3>1 DEF Copied, Listed, TypeOK
    <3>3. Copied(op.index)'
      BY <2>1, <2>4, <3>2 DEF Copied, NameInUse
    <3> QED BY <3>3 DEF OneChange
  <2> QED BY <2>2, <2>3, <2>4
<1>4. CASE PublishIndex
  BY <1>4 DEF PublishIndex, PlanInv, TypeOK, Ops
<1>5. CASE SyncDir
  <2>1. UNCHANGED <<index, files, dir, dDir>>
    BY <1>5 DEF SyncDir
  <2>2. CASE op' = Idle
    BY <2>1, <2>2 DEF PlanInv, Idle
  <2>3. CASE op.pc = "syncfile" /\ op.index # NoIndex /\ op' = [op EXCEPT !.pc = "index"]
    <3>1. op'.pc = "index" /\ op'.file = op.file /\ op'.index = op.index
      BY <2>3 DEF TypeOK, Ops
    <3>2. Seeded(op.index) \/ Copied(op.index)
      BY <2>3 DEF PlanInv, OneChange, Renamed, Switched, Shortened
    <3>3. CASE Seeded(op.index)
      <4>1. Seeded(op.index)'
        BY <2>1, <3>1, <3>3 DEF Seeded
      <4> QED BY <2>1, <3>1, <4>1 DEF PlanInv, OneChange
    <3>4. CASE Copied(op.index)
      <4>1. Copied(op.index)'
        BY <2>1, <2>3, <3>1, <3>4 DEF Copied, NameInUse
      <4> QED BY <2>1, <3>1, <4>1 DEF PlanInv, OneChange
    <3> QED BY <3>2, <3>3, <3>4
  <2>4. CASE op.pc = "syncindex" /\ op' = [op EXCEPT !.pc = "remove"]
    BY <2>1, <2>4 DEF PlanInv, TypeOK, Ops
  <2> QED BY <1>5, <2>2, <2>3, <2>4 DEF SyncDir, AfterSync
<1>6. CASE RemoveFile \/ Abandon \/ PowerLoss
  BY <1>6 DEF RemoveFile, Abandon, PowerLoss, PlanInv, Idle
<1> QED BY <1>1, <1>2, <1>3, <1>4, <1>5, <1>6 DEF Next

\* What an operation of the store has in hand is one change of the index that
\* stands, in every behaviour and at each of its system calls (profiles.go).
THEOREM PlanInvHolds == Spec => []PlanInv
<1>1. TypeOK /\ StoreInv /\ PlanInv /\ [Next]_vars => PlanInv'
  BY PlanStep
<1> QED BY <1>1, PlanInit, StoreTypeCorrect, StoreInvHolds, PTL DEF Spec

-----------------------------------------------------------------------------
(* Each step of the store is a step of the book, or none.                    *)

\* What a book lists, and when the disk has all of it.
LEMMA BookOfIndex ==
    /\ Book!InBook(NoIndex) = {}
    /\ \A ix \in Indexes : Book!InBook(ix) = Listed(ix.names)
    /\ TypeOK /\ Durable => Book!Safe
    /\ TypeOK' /\ Durable' => Book!Safe'
<1>1. \A ix \in Indexes : ix # NoIndex
  BY ConstantsAssumption
<1> QED
  BY <1>1 DEF Book!InBook, Listed, Book!Safe, Durable, TypeOK

\* A file is published before any index lists it, or it is the active profile's
\* and the book saves it.
LEMMA PublishFileInBook ==
    ASSUME TypeOK, StoreInv, PlanInv, PublishFile
    PROVE  Book!Operation
<1>1. /\ op.pc = "file" /\ op.file \in Ids /\ op.data \in Data
      /\ files' = [files EXCEPT ![op.file] = op.data]
      /\ UNCHANGED <<index, dIndex, dFiles, dDir>>
      /\ settled' = (settled /\ (index # NoIndex => op.file \notin Listed(index.names)))
  BY DEF PublishFile, TypeOK, Ops, StoreInv, FileStepGood
<1>2. CASE op.index # NoIndex
  <2>1. /\ index # NoIndex => op.file \notin Listed(index.names)
        /\ dIndex # NoIndex => op.file \notin Listed(dIndex.names)
    BY <1>1, <1>2 DEF StoreInv, FileStepGood
  <2>2. op.file \notin Book!InBook(index) \cup Book!InBook(dIndex)
    BY <2>1, BookOfIndex DEF TypeOK
  <2>3. settled' = settled
    BY <1>1, <2>1 DEF TypeOK
  <2> QED
    BY <1>1, <2>2, <2>3 DEF Book!Operation, Book!Prepare, Book!MayReport, Book!keptVars
<1>3. CASE op.index = NoIndex
  <2>1. index # NoIndex /\ op.file = index.active /\ op.file \in Listed(index.names)
    BY <1>1, <1>3 DEF StoreInv, FileStepGood, PlanInv, IndexesGood, WellFormed
  <2>2. settled' = FALSE
    BY <1>1, <2>1
  <2> QED
    BY <1>1, <2>1, <2>2 DEF Book!Operation, Book!Save, Book!keptVars
<1> QED BY <1>2, <1>3

\* An index is published: one change of the book.
LEMMA PublishIndexInBook ==
    ASSUME TypeOK, StoreInv, PlanInv, PublishIndex
    PROVE  Book!Operation
<1> DEFINE ix == op.index
<1>1. /\ op.pc = "index" /\ ix \in Indexes /\ ix # NoIndex /\ index' = ix
      /\ settled' = FALSE /\ UNCHANGED <<files, dIndex, dFiles, dDir>>
      /\ Kept(ix)
  BY DEF PublishIndex, TypeOK, Ops, StoreInv, IndexStepGood
<1>2. Book!Turn(ix)
  BY <1>1 DEF Book!Turn, Book!keptVars
<1>3. OneChange(ix)
  BY <1>1 DEF PlanInv
<1>4. index # NoIndex => /\ index \in Indexes /\ Book!InBook(index) = Listed(index.names)
                         /\ Listed(index.names) \subseteq Ids
  BY BookOfIndex DEF TypeOK, Listed
<1>5. ix = [names |-> ix.names, active |-> ix.active]
  BY <1>1 DEF Indexes
<1> HIDE DEF ix
<1>6. CASE Seeded(ix)
  <2>1. PICK n \in Names : ix.names = [i \in Ids |-> IF i = op.file THEN n ELSE NoName]
    BY <1>6 DEF Seeded
  <2>2. op.file \in Ids /\ ix.active = op.file /\ index = NoIndex
    BY <1>6 DEF Seeded
  <2>3. files[op.file] # Missing
    BY <1>1, <2>1, <2>2, ConstantsAssumption DEF Kept, Listed
  <2>4. Book!Seed(op.file, n)
    BY <1>2, <1>5, <2>1, <2>2, <2>3 DEF Book!Seed
  <2> QED BY <2>2, <2>4 DEF Book!Operation
<1>7. CASE Copied(ix)
  <2>1. PICK n \in Names : /\ ~NameInUse(index, n, NoId)
                           /\ ix.names = [index.names EXCEPT ![op.file] = n]
    BY <1>7 DEF Copied
  <2>2. PICK source \in Listed(index.names) : files[source] = files[op.file]
    BY <1>1, <1>7 DEF Copied
  <2>3. index # NoIndex /\ op.file \in Ids \ Listed(index.names) /\ ix.active \in {index.active, op.file}
    BY <1>7 DEF Copied
  <2>4. \A i \in Ids : index.names[i] # n
    BY <2>1, ConstantsAssumption DEF NameInUse
  <2>5. source \in Ids /\ ix.active \in Ids
    BY <1>1, <1>4, <2>2, <2>3 DEF Indexes
  <2>6. Book!CopyProfile(source, op.file, n, ix.active)
    BY <1>2, <1>4, <1>5, <2>1, <2>2, <2>3, <2>4 DEF Book!CopyProfile
  <2> QED BY <2>3, <2>5, <2>6 DEF Book!Operation
<1>8. CASE Renamed(ix)
  <2>1. PICK p \in Listed(index.names), n \in Names :
           ~NameInUse(index, n, p) /\ ix = [index EXCEPT !.names[p] = n]
    BY <1>8 DEF Renamed
  <2>2. Book!RenameProfile(p, n)
    BY <1>2, <1>4, <1>8, <2>1 DEF Book!RenameProfile, Renamed, NameInUse
  <2> QED BY <1>4, <1>8, <2>1, <2>2 DEF Book!Operation, Renamed
<1>9. CASE Switched(ix)
  <2>1. PICK p \in Listed(index.names) : ix = [index EXCEPT !.active = p]
    BY <1>9 DEF Switched
  <2>2. Book!Activate(p)
    BY <1>2, <1>4, <1>9, <2>1 DEF Book!Activate, Switched
  <2> QED BY <1>4, <1>9, <2>1, <2>2 DEF Book!Operation, Switched
<1>10. CASE Shortened(ix)
  <2>1. PICK p \in Listed(index.names) \ {index.active} : ix = [index EXCEPT !.names[p] = NoName]
    BY <1>10 DEF Shortened
  <2>2. Book!Drop(p)
    BY <1>2, <1>4, <1>10, <2>1 DEF Book!Drop, Shortened
  <2> QED BY <1>4, <1>10, <2>1, <2>2 DEF Book!Operation, Shortened
<1> QED BY <1>3, <1>6, <1>7, <1>8, <1>9, <1>10 DEF OneChange

\* Delete removes a file no index lists any more, and then reports.
LEMMA RemoveFileInBook ==
    ASSUME TypeOK, TypeOK', StoreInv, StoreInv', RemoveFile
    PROVE  Book!Operation
<1>1. /\ op.pc = "remove" /\ op.removal # NoId /\ op.removal \notin Listed(op.index.names)
      /\ op.index # NoIndex /\ index = op.index /\ dIndex = index
  BY DEF RemoveFile, StoreInv, IndexStepGood, Durable
<1>2. op.removal \in Ids
  BY <1>1 DEF TypeOK, Ops
<1>3. op.removal \notin Book!InBook(index) \cup Book!InBook(dIndex)
  BY <1>1, BookOfIndex DEF TypeOK
<1>4. settled' = TRUE /\ Book!Safe'
  BY BookOfIndex DEF RemoveFile, StoreInv
<1> QED
  BY <1>2, <1>3, <1>4 DEF RemoveFile, Book!Operation, Book!Prepare, Book!MayReport, Book!keptVars

\* The directory's sync, and what the kernel writes back by itself.
LEMMA WriteBackInBook ==
    ASSUME TypeOK, TypeOK', StoreInv, StoreInv', PlanInv,
           SyncDir \/ FlushIndex \/ FlushFile \/ FlushDir
    PROVE  Book!BookNext \/ UNCHANGED Book!bookVars
<1>1. CASE SyncDir
  <2>1. /\ dIndex' = index /\ dFiles' = files /\ UNCHANGED <<index, files, dDir>>
        /\ settled' \in {settled, TRUE}
    BY <1>1 DEF SyncDir, Synced, TypeOK
  <2>2. Book!Safe'
    BY <2>1, BookOfIndex DEF Durable
  <2> QED
    BY <2>1, <2>2 DEF Book!BookNext, Book!Sync, Book!MayReport
<1>2. CASE FlushIndex
  <2>1. \A i \in Book!InBook(index) : dFiles[i] # Missing
    BY BookOfIndex DEF StoreInv, IndexesGood, Kept, TypeOK
  <2> QED
    BY <1>2, <2>1 DEF FlushIndex, Book!BookNext, Book!WriteBackBook
<1>3. CASE FlushFile
  <2>1. PICK i \in Ids : dFiles' = [dFiles EXCEPT ![i] = files[i]]
    BY <1>3 DEF FlushFile
  <2>2. i \in Book!InBook(dIndex) => files[i] # Missing
    BY BookOfIndex DEF StoreInv, IndexesGood, Kept, TypeOK
  <2>3. Book!WriteBackData(i)
    BY <1>3, <2>1, <2>2 DEF FlushFile, Book!WriteBackData
  <2> QED BY <2>3 DEF Book!BookNext
<1>4. CASE FlushDir
  <2>1. CASE dir = TRUE
    BY <1>4, <2>1 DEF FlushDir, Book!BookNext, Book!Anchor
  <2>2. CASE dir = FALSE
    <3>1. dDir = FALSE
      BY <2>2 DEF PlanInv, TypeOK
    <3> QED BY <1>4, <2>2, <3>1 DEF FlushDir, Book!bookVars
  <2> QED BY <2>1, <2>2 DEF TypeOK
<1> QED BY <1>1, <1>2, <1>3, <1>4

\* The other steps leave the book and its copy alone.
LEMMA QuietSteps ==
    ASSUME Begin \/ MakeDir \/ Abandon \/ UNCHANGED vars
    PROVE  UNCHANGED Book!bookVars
<1>1. CASE Begin
  BY <1>1 DEF Begin, Bootstrap, Clone, Rename, Switch, DismissNotice, SaveActive, Delete, Unchanged,
              Book!bookVars
<1>2. CASE MakeDir \/ Abandon \/ UNCHANGED vars
  BY <1>2 DEF MakeDir, Abandon, vars, Book!bookVars
<1> QED BY <1>1, <1>2

\* Every operation of the store is atomic to its readers whatever fails in it,
\* only a power loss takes one back, to what the disk has of it, and one that
\* returned nil is on the disk (writeProfileJSON and its callers).
THEOREM StoreIsABook == Spec => ImplementsProfileBook
<1>1. Init => Book!BookInit
  BY DEF Init, Book!BookInit
<1>2. TypeOK /\ TypeOK' /\ StoreInv /\ StoreInv' /\ PlanInv /\ [Next]_vars
        => [Book!BookNext]_Book!bookVars
  <2> SUFFICES ASSUME TypeOK, TypeOK', StoreInv, StoreInv', PlanInv, [Next]_vars
               PROVE  Book!BookNext \/ UNCHANGED Book!bookVars
    OBVIOUS
  <2>1. CASE PublishFile \/ PublishIndex \/ RemoveFile
    BY <2>1, PublishFileInBook, PublishIndexInBook, RemoveFileInBook DEF Book!BookNext
  <2>2. CASE PowerLoss
    BY <2>2 DEF PowerLoss, Book!BookNext, Book!PowerLoss
  <2> QED BY <2>1, <2>2, WriteBackInBook, QuietSteps DEF Next
<1> QED BY <1>1, <1>2, StoreTypeCorrect, StoreInvHolds, PlanInvHolds, PTL
        DEF Spec, ImplementsProfileBook, Book!BookSpec
=============================================================================
