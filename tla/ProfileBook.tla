----------------------------- MODULE ProfileBook -----------------------------
(***************************************************************************)
(* What the profile store of one mouse promises its callers: a book of     *)
(* named profiles, one of them active, that changes by whole operations    *)
(* only, with no system calls, failures or crashes in between.             *)
(*                                                                         *)
(* The disk keeps a copy of the book and of each profile's data, written   *)
(* back one at a time, in any order, as they stand at that moment.  Losing *)
(* power is the only step that takes an operation back, and it brings back *)
(* that copy: of every part, a value the part had since it was last        *)
(* synced, and exactly the last one of an operation that was reported.     *)
(***************************************************************************)
CONSTANTS Ids, Names, Data, NoName, Missing, NoBook

VARIABLES book,      \* names and active profile, or NoBook before the first
          data,      \* the settings of every id, in the book or not
          keptBook,  \* the same two as the disk has them
          keptData,
          anchored,  \* the disk has the place the copy is kept in
          reported   \* the last change was reported as done

bookVars == <<book, data, keptBook, keptData, anchored, reported>>
keptVars == <<keptBook, keptData, anchored>>

InBook(b) == IF b = NoBook THEN {} ELSE {i \in Ids : b.names[i] # NoName}

\* The disk has the book and every profile in it as they stand.
Safe == keptBook = book /\ \A i \in InBook(book) : keptData[i] = data[i]

\* Only what is safe is reported.
MayReport == UNCHANGED reported \/ (reported' = TRUE /\ Safe')

BookInit ==
    /\ book = NoBook /\ keptBook = NoBook
    /\ data = [i \in Ids |-> Missing] /\ keptData = data
    /\ anchored = FALSE /\ reported = TRUE

-----------------------------------------------------------------------------
(* The operations. Each changes the book or the data of one profile, whole.  *)

\* Data of an id in neither book: prepared for a copy, or left over.
Prepare(i) ==
    /\ i \notin InBook(book) \cup InBook(keptBook)
    /\ \E d \in Data \cup {Missing} : data' = [data EXCEPT ![i] = d]
    /\ MayReport
    /\ UNCHANGED <<book, keptVars>>

Turn(b) ==
    /\ book' = b
    /\ reported' = FALSE
    /\ UNCHANGED <<data, keptVars>>

Seed(p, n) ==
    /\ book = NoBook
    /\ data[p] # Missing
    /\ Turn([names |-> [i \in Ids |-> IF i = p THEN n ELSE NoName], active |-> p])

\* The copy is complete before it is in the book.
CopyProfile(source, p, n, active) ==
    /\ source \in InBook(book) /\ p \notin InBook(book)
    /\ data[p] = data[source]
    /\ active \in {book.active, p}
    /\ \A i \in Ids : book.names[i] # n
    /\ Turn([names |-> [book.names EXCEPT ![p] = n], active |-> active])

RenameProfile(p, n) ==
    /\ p \in InBook(book)
    /\ \A i \in Ids \ {p} : book.names[i] # n
    /\ Turn([book EXCEPT !.names[p] = n])

Activate(p) ==
    /\ p \in InBook(book)
    /\ Turn([book EXCEPT !.active = p])

Drop(p) ==
    /\ p \in InBook(book) /\ p # book.active
    /\ Turn([book EXCEPT !.names[p] = NoName])

Save(d) ==
    /\ book # NoBook
    /\ data' = [data EXCEPT ![book.active] = d]
    /\ reported' = FALSE
    /\ UNCHANGED <<book, keptVars>>

Operation ==
    \/ \E i \in Ids : Prepare(i)
    \/ \E p \in Ids, n \in Names : Seed(p, n) \/ RenameProfile(p, n)
    \/ \E source, p, active \in Ids, n \in Names : CopyProfile(source, p, n, active)
    \/ \E p \in Ids : Activate(p) \/ Drop(p)
    \/ \E d \in Data : Save(d)

-----------------------------------------------------------------------------
(* The disk.                                                                 *)

Sync ==
    /\ keptBook' = book /\ keptData' = data
    /\ MayReport
    /\ UNCHANGED <<book, data, anchored>>

\* The book is written back only over data that is there.
WriteBackBook ==
    /\ \A i \in InBook(book) : keptData[i] # Missing
    /\ keptBook' = book
    /\ UNCHANGED <<book, data, keptData, anchored, reported>>

WriteBackData(i) ==
    /\ i \in InBook(keptBook) => data[i] # Missing
    /\ keptData' = [keptData EXCEPT ![i] = data[i]]
    /\ UNCHANGED <<book, data, keptBook, anchored, reported>>

Anchor ==
    /\ anchored' = TRUE
    /\ UNCHANGED <<book, data, keptBook, keptData, reported>>

\* Power is lost: the copy on the disk is what there is, or nothing when the
\* place of the copy is not on the disk.
PowerLoss ==
    /\ book' = IF anchored THEN keptBook ELSE NoBook
    /\ data' = IF anchored THEN keptData ELSE [i \in Ids |-> Missing]
    /\ keptBook' = book' /\ keptData' = data'
    /\ UNCHANGED <<anchored, reported>>

BookNext ==
    \/ Operation
    \/ Sync \/ WriteBackBook \/ (\E i \in Ids : WriteBackData(i)) \/ Anchor
    \/ PowerLoss

BookSpec == BookInit /\ [][BookNext]_bookVars
=============================================================================
