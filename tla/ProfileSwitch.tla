--------------------------- MODULE ProfileSwitch ---------------------------
(***************************************************************************)
(* Service.SwitchProfile and the paths that load a mouse's state in memory *)
(* (RefreshInventory, SelectDevice, GetProfiles), over the targeted        *)
(* inventory.                                                              *)
(*                                                                         *)
(* A switch writes the four lanes of the target profile to the mouse one   *)
(* after the other, each under the binding captured at its start, then     *)
(* saves the device record and moves the active pointer. The bus, the      *)
(* selection and the loading paths move between any two of its steps, any  *)
(* write may fail or stay unacknowledged, and the program may crash.       *)
(*                                                                         *)
(* The configuration of profile p on a lane is the value p itself: the     *)
(* properties only tell apart whose configuration a lane holds. operationMu*)
(* is the guard pc = "idle": every other operation that writes hardware    *)
(* holds it for its whole run, so none is interleaved with a switch.       *)
(***************************************************************************)
EXTENDS Inventory

CONSTANTS
  Profiles,       \* the saved profiles of every mouse
  MacroProfiles,  \* those whose macro list is not empty
  NoProfile,      \* no target
  Factory,        \* the defaults of a state not loaded from disk
  Draft,          \* an edit staged and not applied
  Partial,        \* a macro lane of which only some reports were taken
  NoAck,          \* no ACK on this lane since the program started
  MaxSwitches, MaxDrafts, MaxCrashes  \* bounds on the environment

ASSUME MacroProfilesAssumption == MacroProfiles \subseteq Profiles
ASSUME BoundsAssumption == /\ MaxSwitches \in Nat
                           /\ MaxDrafts \in Nat
                           /\ MaxCrashes \in Nat

\* 1 DPI, 2 polling, 3 lighting and settings, 4 remap and macros.
Lanes == 1..4

\* The lanes the device record is loaded back into.
RecordLanes == {1, 2, 3}

\* The lane of the sleep time and the debounce, which have one field each for
\* what is staged and what is applied.
OneFieldLane == 3

VARIABLES
  work,      \* what each caller does after its refresh or selection
  known,     \* the mice that have a state in memory
  loaded,    \* profiles.loaded: the mice hydrated from their active profile
  applied,   \* the applied configuration in memory, by mouse and lane
  pending,   \* the pending configuration in memory, by mouse and lane
  acked,     \* history: the last value ACKed since the program started
  restaged,  \* history: a one-field setting was staged since the switch completed its lane
  hw,        \* what each mouse holds, by lane
  record,    \* the device record on disk: the profile it was saved from
  active,    \* the active pointer of the profile index
  reported,  \* what the last switch of each mouse told the user
  pc, lane, bound, target, ok,  \* the running SwitchProfile
  hydrated,  \* history: the switch began on a hydrated mouse, no reload under way
  switches, drafts, crashes     \* spent bounds

memoryVars == <<known, loaded, applied, pending, acked, restaged>>
durableVars == <<hw, record, active>>
opVars == <<pc, lane, bound, target, ok, hydrated>>
boundVars == <<switches, drafts, crashes>>
vars == <<inventoryVars, work, memoryVars, durableVars, reported, opVars, boundVars>>

NoWork == [pc |-> "idle", binding |-> NoBinding, profile |-> NoProfile, seen |-> {}]

\* A caller that loads a binding has one, and one that hydrates has read a profile.
Works ==
  {NoWork}
    \cup [pc : {"refreshed", "selected"}, binding : {NoBinding}, profile : {NoProfile},
          seen : SUBSET Devices]
    \cup [pc : {"reload", "restore"}, binding : Bindings, profile : {NoProfile}, seen : {{}}]
    \cup [pc : {"hydrate"}, binding : Bindings, profile : Profiles, seen : {{}}]

MemoryConfigs == Profiles \cup {Factory, Draft}

TypeOK ==
  /\ InventoryTypeOK
  /\ work \in [Callers -> Works]
  /\ known \subseteq Devices
  /\ loaded \subseteq Devices
  /\ applied \in [Devices -> [Lanes -> MemoryConfigs]]
  /\ pending \in [Devices -> [Lanes -> MemoryConfigs]]
  /\ acked \in [Devices -> [Lanes -> Profiles \cup {NoAck}]]
  /\ restaged \in BOOLEAN
  /\ hw \in [Devices -> [Lanes -> Profiles \cup {Factory, Partial}]]
  /\ record \in [Devices -> Profiles]
  /\ active \in [Devices -> Profiles]
  /\ reported \in [Devices -> {"none", "applied", "error"}]
  /\ pc \in {"idle", "gate", "call", "send", "await", "returned", "save", "activate"}
  /\ lane \in Lanes
  /\ bound \in Bindings \cup {NoBinding}
  /\ target \in Profiles \cup {NoProfile}
  /\ ok \in BOOLEAN
  /\ hydrated \in BOOLEAN
  /\ switches \in 0..MaxSwitches
  /\ drafts \in 0..MaxDrafts
  /\ crashes \in 0..MaxCrashes

AllLanes(value) == [l \in Lanes |-> value]

\* Profiles were bootstrapped in an earlier session: the record is the one the
\* active profile was made from. Nothing is known of what the mouse holds.
Init ==
  /\ InventoryInit
  /\ work = [c \in Callers |-> NoWork]
  /\ known = {} /\ loaded = {}
  /\ applied = [d \in Devices |-> AllLanes(Factory)]
  /\ pending = applied
  /\ acked = [d \in Devices |-> AllLanes(NoAck)] /\ restaged = FALSE
  /\ hw = [d \in Devices |-> AllLanes(Factory)]
  /\ \E p \in Profiles : record = [d \in Devices |-> p]
  /\ active = record
  /\ reported = [d \in Devices |-> "none"]
  /\ pc = "idle" /\ lane = 1 /\ bound = NoBinding
  /\ target = NoProfile /\ ok = FALSE /\ hydrated = FALSE
  /\ switches = 0 /\ drafts = 0 /\ crashes = 0

-----------------------------------------------------------------------------
(* The paths that load state: RefreshInventory, SelectDevice, GetProfiles. *)

BusChanges ==
  /\ \E d \in Devices : Plug(d) \/ Unplug(d)
  /\ UNCHANGED <<work, memoryVars, durableVars, reported, opVars, boundVars>>

StartRefresh(c) ==
  /\ work[c] = NoWork
  /\ Enumerate(c)
  /\ UNCHANGED <<work, memoryVars, durableVars, reported, opVars, boundVars>>

FinishRefresh(c) ==
  /\ CommitRefresh(c)
  /\ work' = [work EXCEPT ![c] = [NoWork EXCEPT !.pc = "refreshed", !.seen = refreshing[c].seen]]
  /\ UNCHANGED <<memoryVars, durableVars, reported, opVars, boundVars>>

RestoreSelection ==
  IF selection = NoBinding THEN NoWork
  ELSE [NoWork EXCEPT !.pc = "restore", !.binding = selection]

\* After the refresh: states for the mice that have none. The selected one
\* takes its DPI, polling and settings from the device record.
CreateStates(c) ==
  LET fresh == work[c].seen \ known
      InitialLane(d, l) == IF selection # NoBinding /\ selection.id = d /\ l \in RecordLanes
                           THEN record[d] ELSE Factory
      Created(memory) == [d \in Devices |-> IF d \in fresh THEN [l \in Lanes |-> InitialLane(d, l)]
                                            ELSE memory[d]]
  IN /\ work[c].pc = "refreshed"
     /\ known' = known \cup work[c].seen
     /\ applied' = Created(applied)
     /\ pending' = Created(pending)
     /\ work' = [work EXCEPT ![c] = RestoreSelection]
     /\ UNCHANGED <<inventoryVars, loaded, acked, restaged, durableVars, reported, opVars, boundVars>>

SelectDevice(c, d) ==
  /\ work[c] = NoWork
  /\ refreshing[c] = Idle
  /\ Select(d)
  /\ work' = [work EXCEPT ![c] = [NoWork EXCEPT !.pc = "selected"]]
  /\ UNCHANGED <<memoryVars, durableVars, reported, opVars, boundVars>>

\* The selection is read back, which another caller may have moved by now,
\* and the hydration flag decides whether the old records are loaded again.
CheckLoaded(c) ==
  /\ work[c].pc = "selected"
  /\ work' = [work EXCEPT ![c] =
       IF selection = NoBinding THEN NoWork
       ELSE [NoWork EXCEPT !.pc = IF selection.id \in loaded THEN "restore" ELSE "reload",
                           !.binding = selection]]
  /\ UNCHANGED <<inventoryVars, memoryVars, durableVars, reported, opVars, boundVars>>

\* Reloads the device record, which has no lighting: a draft of the third lane
\* stays when it is one of the lighting.
ReloadRecord(c) ==
  LET d == work[c].binding.id
      Reloaded(memory, third) ==
        IF d \in known
        THEN [memory EXCEPT ![d] = [l \in Lanes |-> IF l = OneFieldLane THEN third
                                                    ELSE IF l \in RecordLanes THEN record[d]
                                                    ELSE memory[d][l]]]
        ELSE memory
  IN /\ work[c].pc = "reload"
     /\ applied' = Reloaded(applied, record[d])
     /\ \E third \in {record[d]} \cup ({Draft} \cap {pending[d][OneFieldLane]}) :
          pending' = Reloaded(pending, third)
     /\ work' = [work EXCEPT ![c].pc = "restore"]
     /\ UNCHANGED <<inventoryVars, known, loaded, acked, restaged, durableVars, reported, opVars,
                    boundVars>>

\* restoreMu: one restoration at a time.
RestoreFree == \A c \in Callers : work[c].pc # "hydrate"

\* Mutant: restores again a mouse that is hydrated.
NeedsRestoreAlways(d) == d \in known

NeedsRestore(d) == d \in known \ loaded

\* restoreSavedProfile: returns when the mouse is hydrated, otherwise reads the
\* active profile. It does not take operationMu.
ReadActive(c) ==
  LET d == work[c].binding.id
  IN /\ work[c].pc = "restore"
     /\ RestoreFree
     /\ work' = [work EXCEPT ![c] = IF NeedsRestore(d)
                                    THEN [@ EXCEPT !.pc = "hydrate", !.profile = active[d]]
                                    ELSE NoWork]
     /\ UNCHANGED <<inventoryVars, memoryVars, durableVars, reported, opVars, boundVars>>

\* The commit of restoreProfile: both configurations of every lane.
HydrateMemory(d, p) ==
  /\ applied' = [applied EXCEPT ![d] = AllLanes(p)]
  /\ pending' = [pending EXCEPT ![d] = AllLanes(p)]
  /\ loaded' = loaded \cup {d}
  /\ UNCHANGED <<known, acked, restaged>>

\* CompleteBound: refused when the selection moved.
Hydrate(c) ==
  /\ work[c].pc = "hydrate"
  /\ IF selection = work[c].binding
     THEN HydrateMemory(selection.id, work[c].profile)
     ELSE UNCHANGED memoryVars
  /\ work' = [work EXCEPT ![c] = NoWork]
  /\ UNCHANGED <<inventoryVars, durableVars, reported, opVars, boundVars>>

\* GetProfiles restores too, under operationMu.
GetProfiles ==
  /\ pc = "idle"
  /\ RestoreFree
  /\ selection # NoBinding
  /\ NeedsRestore(selection.id)
  /\ HydrateMemory(selection.id, active[selection.id])
  /\ UNCHANGED <<inventoryVars, work, durableVars, reported, opVars, boundVars>>

\* An edit of the selected mouse. What is staged before its state exists is
\* replaced when the state is created.
StagedMouse(d) ==
  /\ selection # NoBinding
  /\ selection.id = d
  /\ d \in known
  /\ drafts < MaxDrafts
  /\ drafts' = drafts + 1

\* StageDPI, StagePollingRate, StageLighting, StageRemap, StageMacroAssignment.
Stage(l) ==
  /\ \E d \in Devices :
       /\ StagedMouse(d)
       /\ pending' = [pending EXCEPT ![d][l] = Draft]
  /\ UNCHANGED <<inventoryVars, work, known, loaded, applied, acked, restaged, durableVars,
                 reported, opVars, switches, crashes>>

\* StageNormalSleep, StageDebounce: the one field is what is shown as applied, with
\* a label that says pending. They take the lock of the settings, which a running
\* switch does not hold.
StageSettings ==
  /\ \E d \in Devices :
       /\ StagedMouse(d)
       /\ applied' = [applied EXCEPT ![d][OneFieldLane] = Draft]
       /\ pending' = [pending EXCEPT ![d][OneFieldLane] = Draft]
       /\ restaged' = (restaged \/ (pc # "idle" /\ bound.id = d /\ lane > OneFieldLane))
  /\ UNCHANGED <<inventoryVars, work, known, loaded, acked, durableVars, reported, opVars,
                 switches, crashes>>

-----------------------------------------------------------------------------
(* SwitchProfile *)

\* A SelectDevice found the mouse not hydrated and has not reloaded it yet.
Reloading(d) == \E c \in Callers : work[c].pc = "reload" /\ work[c].binding.id = d

NoSwitch ==
  /\ pc' = "idle" /\ lane' = 1 /\ bound' = NoBinding
  /\ target' = NoProfile /\ ok' = FALSE /\ hydrated' = FALSE

Return(outcome) ==
  /\ reported' = [reported EXCEPT ![bound.id] = outcome]
  /\ NoSwitch

\* Captures the binding and reads the target. A mouse selected by a refresh that
\* has not created its state yet makes the call panic: that is a Crash.
BeginSwitch(p) ==
  /\ pc = "idle"
  /\ selection # NoBinding
  /\ selection.id \in known
  /\ switches < MaxSwitches
  /\ switches' = switches + 1
  /\ pc' = "gate" /\ lane' = 1 /\ bound' = selection /\ target' = p /\ ok' = FALSE
  /\ hydrated' = (selection.id \in loaded /\ ~Reloading(selection.id))
  /\ reported' = [reported EXCEPT ![selection.id] = "none"]
  /\ restaged' = FALSE
  /\ UNCHANGED <<inventoryVars, work, known, loaded, applied, pending, acked, durableVars,
                 drafts, crashes>>

\* Every bindingCurrent and every completion refuses a selection that moved.
ReturnStale ==
  /\ pc \in {"gate", "returned", "save", "activate"}
  /\ selection # bound
  /\ Return("error")
  /\ UNCHANGED <<inventoryVars, work, memoryVars, durableVars, boundVars>>

Gate ==
  /\ pc = "gate"
  /\ selection = bound
  /\ pc' = "call"
  /\ UNCHANGED <<inventoryVars, work, memoryVars, durableVars, reported, lane, bound,
                 target, ok, hydrated, boundVars>>

\* ApplyOperationBound, applyMacroBound: selected and on the bus, or refused.
Call ==
  /\ pc = "call"
  /\ pc' = IF selection = bound /\ bound.id \in plugged THEN "send" ELSE "returned"
  /\ ok' = FALSE
  /\ UNCHANGED <<inventoryVars, work, memoryVars, durableVars, reported, lane, bound,
                 target, hydrated, boundVars>>

MacroLane == lane = 4 /\ target \in MacroProfiles

\* The mouse takes the report; of a macro lane it has only taken a part until
\* the whole sequence of reports is confirmed.
Send ==
  /\ pc = "send"
  /\ bound.id \in plugged
  /\ hw' = [hw EXCEPT ![bound.id][lane] = IF MacroLane THEN Partial ELSE target]
  /\ pc' = "await"
  /\ UNCHANGED <<inventoryVars, work, memoryVars, record, active, reported, lane, bound,
                 target, ok, hydrated, boundVars>>

\* The transport revalidates the binding, opens the node and writes: any of the
\* three may fail, and a rejected report changes nothing.
SendFails ==
  /\ pc = "send"
  /\ pc' = "returned"
  /\ UNCHANGED <<inventoryVars, work, memoryVars, durableVars, reported, lane, bound,
                 target, ok, hydrated, boundVars>>

Ack ==
  /\ pc = "await"
  /\ pc' = "returned" /\ ok' = TRUE
  /\ hw' = [hw EXCEPT ![bound.id][lane] = target]
  /\ acked' = [acked EXCEPT ![bound.id][lane] = target]
  /\ UNCHANGED <<inventoryVars, work, known, loaded, applied, pending, restaged, record, active,
                 reported, lane, bound, target, hydrated, boundVars>>

AckNeverComes ==
  /\ pc = "await"
  /\ pc' = "returned"
  /\ UNCHANGED <<inventoryVars, work, memoryVars, durableVars, reported, lane, bound,
                 target, ok, hydrated, boundVars>>

LaneFailed ==
  /\ pc = "returned"
  /\ ~ok
  /\ Return("error")
  /\ UNCHANGED <<inventoryVars, work, memoryVars, durableVars, boundVars>>

\* What completeProfileBinding of a lane is reached with, and accepts.
LaneConfirmed == pc = "returned" /\ ok /\ selection = bound

NextLane == IF lane = 4 THEN lane ELSE lane + 1

\* Mutant: the macro lane completes without its maps.
ShowLaneWithoutMacros(memory) ==
  IF MacroLane THEN memory ELSE [memory EXCEPT ![bound.id][lane] = target]

ShowLane(memory) == [memory EXCEPT ![bound.id][lane] = target]

\* completeProfileBinding of one lane: memory follows the ACK.
CompleteLane ==
  /\ LaneConfirmed
  /\ applied' = ShowLane(applied)
  /\ pending' = ShowLane(pending)
  /\ pc' = IF lane = 4 THEN "save" ELSE "gate"
  /\ lane' = NextLane
  /\ ok' = FALSE
  /\ UNCHANGED <<inventoryVars, work, known, loaded, acked, restaged, durableVars, reported,
                 bound, target, hydrated, boundVars>>

SavedRecord == [record EXCEPT ![bound.id] = target]

\* Mutant: a save that failed before the rename counts as done.
SaveOutcomesUnchecked == [record : {SavedRecord, record}, ok : {TRUE}]

\* saveDeviceConfig. A failed save may have replaced the record: the directory
\* sync follows the rename.
SaveOutcomes ==
  {[record |-> SavedRecord, ok |-> TRUE]} \cup [record : {SavedRecord, record}, ok : {FALSE}]

\* Outside the selection lock.
SaveRecord ==
  /\ pc = "save"
  /\ selection = bound
  /\ pc' = "activate"
  /\ \E outcome \in SaveOutcomes : record' = outcome.record /\ ok' = outcome.ok
  /\ UNCHANGED <<inventoryVars, work, memoryVars, hw, active, reported, lane, bound, target,
                 hydrated, boundVars>>

SwitchedIndex == [active EXCEPT ![bound.id] = target]

\* Mutant: the index is switched before the outcome of the save is looked at.
FailedIndexesUnchecked == {active, SwitchedIndex}

\* Without a saved record the index is not touched; with one, writing the index
\* may fail before or after its rename.
FailedIndexes == IF ok THEN {active, SwitchedIndex} ELSE {active}

\* The final critical section: ProfileStore.Switch only after a saved record.
Activate ==
  /\ pc = "activate"
  /\ selection = bound
  /\ ok
  /\ active' = SwitchedIndex
  /\ Return("applied")
  /\ UNCHANGED <<inventoryVars, work, memoryVars, hw, record, boundVars>>

ActivateFails ==
  /\ pc = "activate"
  /\ selection = bound
  /\ active' \in FailedIndexes
  /\ Return("error")
  /\ UNCHANGED <<inventoryVars, work, memoryVars, hw, record, boundVars>>

\* The program dies and starts again: only the mice and the files remain. The
\* window still shows what the last finished switch reported.
Crash ==
  /\ crashes < MaxCrashes
  /\ crashes' = crashes + 1
  /\ eligible' = {} /\ rev' = 0 /\ selection' = NoBinding
  /\ refreshing' = [c \in Callers |-> Idle]
  /\ work' = [c \in Callers |-> NoWork]
  /\ known' = {} /\ loaded' = {}
  /\ applied' = [d \in Devices |-> AllLanes(Factory)]
  /\ pending' = applied'
  /\ acked' = [d \in Devices |-> AllLanes(NoAck)] /\ restaged' = FALSE
  /\ NoSwitch
  /\ UNCHANGED <<plugged, durableVars, reported, switches, drafts>>

LoadNext ==
  \/ BusChanges
  \/ GetProfiles
  \/ \E l \in Lanes : Stage(l)
  \/ StageSettings
  \/ \E c \in Callers :
       \/ StartRefresh(c) \/ FinishRefresh(c) \/ CreateStates(c)
       \/ \E d \in Devices : SelectDevice(c, d)
       \/ CheckLoaded(c) \/ ReloadRecord(c) \/ ReadActive(c) \/ Hydrate(c)

SwitchNext ==
  \/ \E p \in Profiles : BeginSwitch(p)
  \/ ReturnStale \/ Gate \/ Call \/ Send \/ SendFails \/ Ack \/ AckNeverComes
  \/ LaneFailed \/ CompleteLane \/ SaveRecord \/ Activate \/ ActivateFails

Next == LoadNext \/ SwitchNext \/ Crash

Spec == Init /\ [][Next]_vars

-----------------------------------------------------------------------------

\* The lanes a running switch has been through hold the target on the mouse:
\* no path reaches a later lane, the save or the activation past a write that
\* was refused, dropped or left unacknowledged.
LanesDone ==
  pc # "idle" => /\ \A l \in Lanes : l < lane => hw[bound.id][l] = target
                 /\ pc \in {"save", "activate"} => hw[bound.id] = AllLanes(target)

\* "The active pointer in the profile store is committed only after all ACKs
\* succeed": when it moves, the mouse holds the whole profile it moves to and
\* the device record was saved from it, on every path including the ones that
\* report an error after the index was written.
ActivationComplete ==
  [][\A d \in Devices : active'[d] # active[d] =>
       /\ hw[d] = AllLanes(active'[d])
       /\ record[d] = active'[d]]_vars

\* "Only a fully acknowledged switch reports Profile applied": what the user was
\* told stays true through refreshes, selections and restarts until the next
\* switch of that mouse starts.
AppliedReportMeansOnMouse ==
  \A d \in Devices : reported[d] = "applied" =>
    hw[d] = AllLanes(active[d]) /\ record[d] = active[d]

\* Why the three above hold together. A running switch has a binding and a target
\* and has withdrawn what was reported of its mouse; ok is set only on returning
\* from an acknowledged lane, which the mouse then holds, and on a saved record.
SwitchInv ==
  /\ pc # "idle" => bound \in Bindings /\ target \in Profiles /\ reported[bound.id] = "none"
  /\ pc \in {"gate", "call", "send", "await", "save"} => ~ok
  /\ pc = "returned" /\ ok => hw[bound.id][lane] = target
  /\ pc = "activate" /\ ok => record[bound.id] = target
  /\ LanesDone
  /\ AppliedReportMeansOnMouse

\* The lane shows a sleep time or a debounce staged and not yet written.
ShowsDraft(d, l) == l = OneFieldLane /\ applied[d][l] = Draft

\* Once a mouse is hydrated, what memory shows as applied changes only to a value
\* the mouse acknowledged on that lane or, on the lane whose settings have one
\* field, to one the user staged; and a staged edit gives way only to a value the
\* mouse acknowledged: no refresh or selection discards either. The exception is a
\* SelectDevice that read the hydration flag before the hydration and has yet to
\* reload.
MemoryFollowsAcks ==
  [][\A d \in loaded \cap loaded', l \in Lanes :
       ~Reloading(d) =>
         /\ applied'[d][l] # applied[d][l] => applied'[d][l] = acked[d][l] \/ ShowsDraft(d, l)'
         /\ pending[d][l] = Draft /\ pending'[d][l] # Draft =>
              applied'[d][l] = pending'[d][l] /\ acked[d][l] = pending'[d][l]]_vars

\* A switch of a hydrated mouse shows what it wrote: when it reports success, the
\* applied configuration in memory is the target on every lane. A sleep time or a
\* debounce the user staged after its lane was completed is shown instead; one
\* staged before gave way to the target.
HydratedSwitchShown ==
  [][\A d \in Devices : hydrated /\ reported[d] # "applied" /\ reported'[d] = "applied" =>
       \A l \in Lanes : applied'[d][l] = active'[d] \/ (restaged /\ ShowsDraft(d, l)')]_vars
=============================================================================
