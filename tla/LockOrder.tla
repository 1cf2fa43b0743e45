----------------------------- MODULE LockOrder -----------------------------
(***************************************************************************)
(* The mutexes of the desktop service and the orders its methods take them *)
(* in.  A method is the sequence of its steps on them: Pass takes a mutex  *)
(* and gives it back at once, Take and Drop surround what is done under    *)
(* it.  Methods run in goroutines of their own, and a mutex is not         *)
(* reentrant.  One mouse is selected and stays so; every method goes its   *)
(* longest way, with a macro in the active profile wherever there may be   *)
(* one.                                                                    *)
(*                                                                         *)
(* Left out: the applyMu of a lane that is only taken under operationMu,   *)
(* and mutexes under which no other is taken (the stores', the library's,  *)
(* the coordinators', the inventory's own per-mouse states).               *)
(***************************************************************************)
EXTENDS Sequences, FiniteSets, SequencesExt

CONSTANTS
  Callers,  \* goroutines in a method of the service at a time
  NoCaller  \* a free mutex has no owner

VARIABLES
  path,   \* the steps each caller has left, none when it is outside
  owner   \* the caller that holds each mutex

vars == <<path, owner>>

Lanes == <<"dpi", "polling", "settings", "lighting", "remap">>
Mutexes == Range(Lanes) \cup {"operation", "restore", "settingsApply", "config", "service", "inventory"}

Step(does, m) == <<[do |-> does, mutex |-> m]>>
Pass(m) == Step("pass", m)
Hold(m, body) == Step("take", m) \o body \o Step("drop", m)
HoldAll(ms, body) == FoldRight(Hold, ms, body)

-----------------------------------------------------------------------------
\* What the methods share.

\* selectionResolver.selected and current, CompleteBound with the lanes' locks.
Selected == Pass("service") \o Pass("inventory")
CompleteBinding(lanes) == HoldAll(lanes \o <<"inventory">>, <<>>)

\* The state of the selected mouse in a lane.
CurrentState == Selected \o Pass("service")

\* A profile with macros is checked against the selection and the library.
PrevalidateMacros == Selected \o Pass("service")
ReadProfile == PrevalidateMacros
SaveActiveProfile == ReadProfile \o ReadProfile
SaveDeviceConfig == Pass("config")

\* restoreSavedProfile with restoreProfile and its four lookups.
Restore == Hold("restore", ReadProfile \o Pass("service") \o CompleteBinding(Lanes))
CancelSync == Pass("service")
BoundWrite == Pass("inventory")

-----------------------------------------------------------------------------
\* The methods.

RefreshInventory ==
  Pass("service") \o Pass("inventory") \o CancelSync \o Pass("inventory") \o Pass("service")
    \o Hold("service", Pass("dpi")) \o Restore

SelectDevice ==
  Pass("service") \o Pass("inventory") \o CancelSync \o Pass("inventory") \o Pass("service")
    \o Pass("restore") \o Pass("dpi") \o Pass("service") \o Pass("polling") \o Pass("service")
    \o Hold("settingsApply", Pass("settings")) \o Restore

GetProfiles == Hold("operation", Selected \o ReadProfile \o Restore)

ProfileMutation == Hold("operation", Selected \o ReadProfile \o Selected \o ReadProfile)

Quiesce ==
  CancelSync \o Pass("dpi") \o Pass("polling") \o Pass("service") \o Pass("settings")
    \o Pass("service") \o Pass("remap")

\* One lane of a switch: checked, written, checked again and completed.
SwitchLane(lanes) == Selected \o BoundWrite \o Selected \o CompleteBinding(lanes)

SwitchProfile ==
  Hold("operation",
    Selected \o ReadProfile \o Selected \o ReadProfile \o Quiesce
      \o SwitchLane(<<"dpi">>) \o SwitchLane(<<"polling">>) \o SwitchLane(<<"settings", "lighting">>)
      \o SwitchLane(<<"remap">>) \o Selected \o SaveDeviceConfig \o CompleteBinding(Lanes) \o ReadProfile)

\* Staging a lane, and reading what it shows.
StageState(lane) == CurrentState \o Pass(lane)

StageSetting == CurrentState \o Hold("settingsApply", Pass("settings"))

\* StageRemap, StageMacroAssignmentWithMode and ClearButtonMacroAssignment.
StageRemap == CurrentState \o Hold("remap", Selected)

ApplyDPI ==
  Hold("operation",
    CurrentState \o Pass("dpi") \o Pass("service") \o BoundWrite \o Pass("inventory") \o Pass("service")
      \o Pass("config") \o SaveActiveProfile \o CancelSync \o Pass("dpi"))

ApplyPolling ==
  Hold("operation",
    CurrentState \o Pass("polling") \o CurrentState \o Pass("service") \o BoundWrite \o Pass("polling")
      \o SaveDeviceConfig \o SaveActiveProfile \o Pass("polling"))

ApplySettings ==
  Hold("operation",
    Selected \o Pass("service") \o Hold("settingsApply",
      Pass("settings") \o Pass("service") \o Pass("lighting") \o Pass("service") \o Selected \o BoundWrite
        \o Pass("settings") \o SaveDeviceConfig \o SaveActiveProfile \o Pass("settings")))

ApplyLighting ==
  Hold("operation",
    Selected \o Pass("service") \o Pass("lighting") \o Selected \o Pass("service") \o Hold("settingsApply",
      Pass("settings") \o Selected \o BoundWrite \o Hold("lighting", SaveActiveProfile)))

ApplyRemap ==
  Hold("operation",
    Selected \o Pass("service") \o Pass("remap") \o Hold("remap", Selected) \o Selected \o Pass("service")
      \o BoundWrite \o Hold("remap", Selected) \o SaveDeviceConfig \o SaveActiveProfile \o Pass("remap"))

ApplyMacros ==
  Hold("operation",
    Selected \o Pass("service") \o Pass("remap") \o PrevalidateMacros \o Hold("remap", Selected)
      \o Selected \o Pass("service") \o BoundWrite \o Hold("remap", Selected \o SaveActiveProfile))

\* A retry of a lane saves what apply saves.
RetrySave(lane) == Pass("service") \o Pass(lane) \o SaveDeviceConfig \o SaveActiveProfile \o Pass(lane)
Retry(lane) == Hold("operation", CurrentState \o RetrySave(lane))
RetrySetting == Hold("operation", CurrentState \o Hold("settingsApply", RetrySave("settings")))

\* EmergencyReset.Run with its four writes, then reconcileFactoryReset.
ResetToFactory ==
  Hold("operation",
    Pass("service") \o Selected \o StageState("dpi") \o StageState("polling") \o BoundWrite
      \o StageState("dpi") \o StageState("polling") \o StageState("remap")
      \o StageState("settings") \o StageState("lighting"))

\* handleAttributedStatusEvent with foldStatusEvent.
HandleStatusEvent ==
  Pass("service") \o Selected \o Pass("service") \o CancelSync \o Pass("dpi") \o Pass("service") \o Pass("dpi")

Methods ==
  {RefreshInventory, SelectDevice, GetProfiles, ProfileMutation, SwitchProfile, StageSetting, StageRemap,
   ApplyDPI, ApplyPolling, ApplySettings, ApplyLighting, ApplyRemap, ApplyMacros, RetrySetting,
   ResetToFactory, HandleStatusEvent}
    \cup {StageState(l) : l \in Range(Lanes)}
    \cup {Retry(l) : l \in {"dpi", "polling", "remap"}}

-----------------------------------------------------------------------------
Init ==
  /\ path = [c \in Callers |-> <<>>]
  /\ owner = [m \in Mutexes |-> NoCaller]

Call(c) ==
  /\ path[c] = <<>>
  /\ \E method \in Methods : path' = [path EXCEPT ![c] = method]
  /\ UNCHANGED owner

\* Lock blocks until the mutex is free, for its holder too.
Advance(c) ==
  /\ path[c] # <<>>
  /\ LET step == Head(path[c])
     IN /\ step.do \in {"take", "pass"} => owner[step.mutex] = NoCaller
        /\ owner' = CASE step.do = "take" -> [owner EXCEPT ![step.mutex] = c]
                      [] step.do = "drop" -> [owner EXCEPT ![step.mutex] = NoCaller]
                      [] step.do = "pass" -> owner
  /\ path' = [path EXCEPT ![c] = Tail(@)]

Next == \E c \in Callers : Call(c) \/ Advance(c)

Spec == Init /\ [][Next]_vars

-----------------------------------------------------------------------------
\* The callers c waits for.
WaitsFor(c) ==
  IF path[c] # <<>> /\ Head(path[c]).do # "drop" THEN {owner[Head(path[c]).mutex]} \ {NoCaller} ELSE {}

\* "Lock order is invariant: take the state lock first, then the service lock.
\* Never reverse it": with one order for all methods no callers can wait for one
\* another in a circle.
NoCircularWait ==
  ~ \E circle \in SUBSET Callers \ {{}} : \A c \in circle : WaitsFor(c) \cap circle # {}
=============================================================================
