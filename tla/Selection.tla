----------------------------- MODULE Selection -----------------------------
(***************************************************************************)
(* What the targeted mouse service promises about its selection: either no *)
(* mouse is selected, or an immutable binding that carries the revision of *)
(* the newest committed inventory. Inventory implements it; the lane edits *)
(* are built on it.                                                        *)
(***************************************************************************)
EXTENDS Integers

CONSTANTS
  Devices,    \* identities of the supported mice
  NoBinding,  \* the nil selection
  MaxRev      \* bound on the number of committed refreshes

VARIABLES
  rev,        \* s.revision
  selection   \* s.selection

selectionVars == <<rev, selection>>

\* Before the first refresh nothing is eligible, so nothing can be selected.
SelectionInit ==
  /\ rev = 0
  /\ selection = NoBinding

\* Select makes a binding of the newest inventory.
Choose(d) ==
  /\ rev > 0
  /\ selection' = [id |-> d, rev |-> rev]
  /\ UNCHANGED rev

\* A refresh takes a new revision and selects one mouse or none.
Renew ==
  /\ rev < MaxRev
  /\ rev' = rev + 1
  /\ selection' \in {NoBinding} \cup [id : Devices, rev : {rev'}]

SelectionNext == Renew \/ \E d \in Devices : Choose(d)

SelectionSpec == SelectionInit /\ [][SelectionNext]_selectionVars
=============================================================================
