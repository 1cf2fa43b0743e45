----------------------------- MODULE Inventory -----------------------------
(***************************************************************************)
(* The targeted mouse service: which mice are on the bus, which of them    *)
(* the last committed refresh found eligible, and the one immutable        *)
(* binding that is selected.                                               *)
(*                                                                         *)
(* Refresh enumerates the bus outside its mutex and commits under it, so   *)
(* two concurrent calls may commit in either order. Every commit takes a   *)
(* new inventory revision, which is a part of the bindings made from it.   *)
(***************************************************************************)
EXTENDS Integers, FiniteSets

CONSTANTS
  Devices,    \* identities of the supported mice
  Callers,    \* goroutines that call Refresh or Select
  NoBinding,  \* the nil selection
  MaxRev      \* bound on the number of committed refreshes

ASSUME DevicesFinite == IsFiniteSet(Devices)
ASSUME MaxRevIsNat == MaxRev \in Nat

VARIABLES
  plugged,    \* the mice that are on the bus
  eligible,   \* s.devices: the eligible mice of the last committed refresh
  rev,        \* s.revision
  selection,  \* s.selection
  refreshing  \* what each caller is doing, and what its enumeration returned

inventoryVars == <<plugged, eligible, rev, selection, refreshing>>

Revs == 0..MaxRev

\* Path, profile and session flag of a binding follow from the identity here.
Bindings == [id : Devices, rev : Revs]

ASSUME NoBindingAssumption == NoBinding \notin Bindings

Idle == [pc |-> "idle", seen |-> {}]

InventoryTypeOK ==
  /\ plugged \subseteq Devices
  /\ eligible \subseteq Devices
  /\ rev \in Revs
  /\ selection \in Bindings \cup {NoBinding}
  /\ refreshing \in [Callers -> [pc : {"idle", "enumerated"}, seen : SUBSET Devices]]

InventoryInit ==
  /\ plugged \in SUBSET Devices
  /\ eligible = {}
  /\ rev = 0
  /\ selection = NoBinding
  /\ refreshing = [c \in Callers |-> Idle]

\* The bus changes under the program at any moment.
Plug(d) ==
  /\ d \notin plugged
  /\ plugged' = plugged \cup {d}
  /\ UNCHANGED <<eligible, rev, selection, refreshing>>

Unplug(d) ==
  /\ d \in plugged
  /\ plugged' = plugged \ {d}
  /\ UNCHANGED <<eligible, rev, selection, refreshing>>

\* Refresh, first half: source.Enumerate, without the mutex.
Enumerate(c) ==
  /\ refreshing[c].pc = "idle"
  /\ refreshing' = [refreshing EXCEPT ![c] = [pc |-> "enumerated", seen |-> plugged]]
  /\ UNCHANGED <<plugged, eligible, rev, selection>>

\* Mutant: a binding stamped with the revision before the commit's increment.
AutoSelectionNextRevision(seen, revision) ==
  IF Cardinality(seen) = 1
  THEN [id |-> CHOOSE d \in seen : TRUE, rev |-> revision + 1]
  ELSE NoBinding

\* The only eligible mouse is selected; none or several leave no selection.
AutoSelection(seen, revision) ==
  IF Cardinality(seen) = 1
  THEN [id |-> CHOOSE d \in seen : TRUE, rev |-> revision]
  ELSE NoBinding

\* Refresh, second half, under the mutex.
CommitRefresh(c) ==
  /\ refreshing[c].pc = "enumerated"
  /\ rev < MaxRev
  /\ rev' = rev + 1
  /\ eligible' = refreshing[c].seen
  /\ selection' = AutoSelection(refreshing[c].seen, rev')
  /\ refreshing' = [refreshing EXCEPT ![c] = Idle]
  /\ UNCHANGED plugged

\* Mutant: the binding is made without the revision of its inventory.
SelectUnstamped(d) ==
  /\ d \in eligible
  /\ selection' = [id |-> d, rev |-> 0]
  /\ UNCHANGED <<plugged, eligible, rev, refreshing>>

\* Select rejects a mouse the last refresh did not list as eligible.
Select(d) ==
  /\ d \in eligible
  /\ selection' = [id |-> d, rev |-> rev]
  /\ UNCHANGED <<plugged, eligible, rev, refreshing>>

InventoryNext ==
  \/ \E d \in Devices : Plug(d) \/ Unplug(d) \/ Select(d)
  \/ \E c \in Callers : Enumerate(c) \/ CommitRefresh(c)

InventorySpec == InventoryInit /\ [][InventoryNext]_inventoryVars

-----------------------------------------------------------------------------

\* A selection was made from the newest committed inventory and names a mouse
\* listed in it: Refresh replaces or clears the selection under the mutex it
\* commits under, and Select reads both under that mutex.
SelectionCurrent ==
  selection # NoBinding => /\ selection.id \in eligible
                           /\ selection.rev = rev

\* A binding captured before a refresh never becomes current again, whatever
\* is plugged, refreshed or selected afterwards: this is what lets an
\* operation that waited recognise that its target was replaced.
StaleBindingStaysStale ==
  [][\A b \in Bindings : b.rev < rev => selection' # b]_inventoryVars

\* The inventory implements what the lanes build on: whatever is plugged,
\* enumerated and committed in whatever order, the selection moves only as
\* Selection says.
Abstract == INSTANCE Selection
ImplementsSelection == Abstract!SelectionSpec
=============================================================================
