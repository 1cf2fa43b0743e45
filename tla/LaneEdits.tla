----------------------------- MODULE LaneEdits -----------------------------
(***************************************************************************)
(* The DPI and the polling lane of the desktop service: staging a draft,   *)
(* applying it to the selected mouse, saving what was acknowledged, and    *)
(* retrying a failed save, while the selection moves under them.           *)
(*                                                                         *)
(* operationMu admits one apply or retry at a time; staging, selecting,    *)
(* refreshing and the listener take only short state locks and interleave  *)
(* with it. A step of an operation is what it does between two such locks. *)
(* The DPI lane resolves the selection anew at each step, the polling lane *)
(* captures a binding and compares. The mice are hydrated and persistent;  *)
(* switches, resets and the race of the first load are other modules.      *)
(***************************************************************************)
EXTENDS Selection

CONSTANTS
  Values,    \* settings a lane may be given
  Factory,   \* the setting every mouse and record starts from
  NoValue,   \* a nil retry, a nil staged value
  Legacy,    \* owner of the DPI state used while nothing is selected
  MaxEdits,  \* bound on the drafts staged
  MaxOps     \* bound on the applies and retries started

ASSUME FactoryAssumption == Factory \in Values /\ NoValue \notin Values
ASSUME OwnersAssumption == Legacy \notin Devices
ASSUME SelectionAssumption == MaxRev \in Nat /\ NoBinding \notin [id : Devices, rev : 0..MaxRev]
ASSUME EditBoundsAssumption == MaxEdits \in Nat /\ MaxOps \in Nat

VARIABLES
  lane,     \* the in-memory state of each lane of each mouse
  staged,   \* TargetedService's pending DPI value of each mouse
  mouse,    \* the setting each mouse acknowledged last
  acked,    \* every setting each mouse has acknowledged
  record,   \* the device record on disk
  profile,  \* the active profile on disk
  op,       \* the operation that holds operationMu
  edits,    \* drafts staged so far
  ops       \* operations started so far

diskVars == <<record, profile>>
hardwareVars == <<staged, mouse, acked>>
laneVars == <<lane, hardwareVars, diskVars, op, edits, ops>>
editVars == <<selectionVars, laneVars>>

Lanes == {"dpi", "polling"}
Owners == Devices \cup {Legacy}
Bindings == [id : Devices, rev : 0..MaxRev]

LaneState ==
  [draft : Values, applied : Values, revision : 0..MaxEdits, retry : Values \cup {NoValue},
   firmware : {"", "pending", "success", "failed"}, saved : {"", "success", "failed"}]

Operation ==
  [pc : {"idle", "capture", "stage", "check", "recheck", "send", "acked", "record", "profile"},
   kind : {"apply", "retry"}, lane : Lanes, binding : Bindings \cup {NoBinding}, owner : Owners,
   value : Values, revision : 0..MaxEdits, failed : BOOLEAN]

Fresh ==
  [draft |-> Factory, applied |-> Factory, revision |-> 0, retry |-> NoValue,
   firmware |-> "", saved |-> ""]

NoOperation ==
  [pc |-> "idle", kind |-> "apply", lane |-> "dpi", binding |-> NoBinding, owner |-> Legacy,
   value |-> Factory, revision |-> 0, failed |-> FALSE]

PerMouse(S) == [Lanes -> [Devices -> S]]

TypeOK ==
  /\ rev \in 0..MaxRev
  /\ selection \in Bindings \cup {NoBinding}
  /\ lane \in [Lanes -> [Owners -> LaneState]]
  /\ staged \in [Devices -> Values \cup {NoValue}]
  /\ mouse \in PerMouse(Values)
  /\ acked \in PerMouse(SUBSET Values)
  /\ record \in PerMouse(Values)
  /\ profile \in PerMouse(Values)
  /\ op \in Operation
  /\ edits \in 0..MaxEdits
  /\ ops \in 0..MaxOps

Init ==
  /\ SelectionInit
  /\ lane = [l \in Lanes |-> [o \in Owners |-> Fresh]]
  /\ staged = [m \in Devices |-> NoValue]
  /\ mouse = [l \in Lanes |-> [m \in Devices |-> Factory]]
  /\ acked = [l \in Lanes |-> [m \in Devices |-> {Factory}]]
  /\ record = mouse
  /\ profile = mouse
  /\ op = NoOperation
  /\ edits = 0
  /\ ops = 0

\* currentState: the lane state of whatever is selected now. The polling lane
\* makes a throwaway state instead of the legacy one; it is never staged to.
Current == IF selection = NoBinding THEN Legacy ELSE selection.id

-----------------------------------------------------------------------------
\* What happens at any time, also in the middle of an operation.

SelectDevice == SelectionNext /\ UNCHANGED laneVars

Drafted(s, v) ==
  [s EXCEPT !.draft = v, !.revision = s.revision + 1, !.firmware = "pending",
            !.saved = "", !.retry = NoValue]

\* StageDPI and StagePollingRate.
Stage(l, v) ==
  /\ edits < MaxEdits
  /\ l = "polling" => selection # NoBinding
  /\ lane' = [lane EXCEPT ![l][Current] = Drafted(lane[l][Current], v)]
  /\ edits' = edits + 1
  /\ UNCHANGED <<selectionVars, hardwareVars, diskVars, op, ops>>

Undrafted(s) == [s EXCEPT !.draft = s.applied]

\* A stage event of the mouse's own button discards the DPI draft.
StageEvent ==
  /\ selection # NoBinding
  /\ lane' = [lane EXCEPT !["dpi"][selection.id] = Undrafted(lane["dpi"][selection.id])]
  /\ UNCHANGED <<selectionVars, hardwareVars, diskVars, op, edits, ops>>

-----------------------------------------------------------------------------
\* Operations. Each ends by releasing operationMu, that is in NoOperation.

Running(pc, l) == op.pc = pc /\ op.lane = l
Release == op' = NoOperation

\* ApplyDPI captures the state of the selected mouse and its draft.
StartDpi ==
  /\ op.pc = "idle"
  /\ ops < MaxOps
  /\ op' = [NoOperation EXCEPT !.pc = "stage", !.owner = Current, !.value = lane["dpi"][Current].draft]
  /\ ops' = ops + 1
  /\ UNCHANGED <<selectionVars, lane, hardwareVars, diskVars, edits>>

\* inventory.Stage stages it on whichever mouse is selected now.
StageOnMouse ==
  /\ Running("stage", "dpi")
  /\ IF selection = NoBinding
     THEN Release /\ UNCHANGED staged
     ELSE /\ staged' = [staged EXCEPT ![selection.id] = op.value]
          /\ op' = [op EXCEPT !.pc = "send"]
  /\ UNCHANGED <<selectionVars, lane, mouse, acked, diskVars, edits, ops>>

Acknowledge(l, m, v) ==
  /\ mouse' = [mouse EXCEPT ![l][m] = v]
  /\ acked' = [acked EXCEPT ![l][m] = @ \cup {v}]

\* Mutant: the error of inventory.Apply is dropped.
SendDpiIgnoringFailure ==
  /\ Running("send", "dpi")
  /\ selection # NoBinding
  /\ Acknowledge("dpi", selection.id, staged[selection.id]) \/ UNCHANGED <<mouse, acked>>
  /\ op' = [op EXCEPT !.pc = "acked"]
  /\ UNCHANGED <<selectionVars, lane, staged, diskVars, edits, ops>>

\* inventory.Apply sends the selected mouse the value staged on it.
SendDpi ==
  /\ Running("send", "dpi")
  /\ \/ /\ selection # NoBinding
        /\ staged[selection.id] # NoValue
        /\ Acknowledge("dpi", selection.id, staged[selection.id])
        /\ op' = [op EXCEPT !.pc = "acked"]
     \/ Release /\ UNCHANGED <<mouse, acked>>
  /\ UNCHANGED <<selectionVars, lane, staged, diskVars, edits, ops>>

\* ApplyPollingRate captures the binding first and the state after it.
StartPolling ==
  /\ op.pc = "idle"
  /\ ops < MaxOps
  /\ selection # NoBinding
  /\ op' = [NoOperation EXCEPT !.pc = "capture", !.lane = "polling", !.binding = selection]
  /\ ops' = ops + 1
  /\ UNCHANGED <<selectionVars, lane, hardwareVars, diskVars, edits>>

CaptureDraft ==
  /\ Running("capture", "polling")
  /\ op.kind = "apply"
  /\ LET s == lane["polling"][Current]
     IN op' = [op EXCEPT !.pc = "check", !.value = s.draft, !.revision = s.revision]
  /\ UNCHANGED <<selectionVars, lane, hardwareVars, diskVars, edits, ops>>

\* applyBound: the binding must still be the selection ...
CheckBinding ==
  /\ Running("check", "polling")
  /\ IF selection = op.binding THEN op' = [op EXCEPT !.pc = "recheck"] ELSE Release
  /\ UNCHANGED <<selectionVars, lane, hardwareVars, diskVars, edits, ops>>

\* ... and the state, resolved again, must still hold the captured revision.
CheckRevision ==
  /\ Running("recheck", "polling")
  /\ IF lane["polling"][Current].revision = op.revision
     THEN op' = [op EXCEPT !.pc = "send", !.owner = Current]
     ELSE Release
  /\ UNCHANGED <<selectionVars, lane, hardwareVars, diskVars, edits, ops>>

Refused(s) == [s EXCEPT !.firmware = "failed"]

\* Mutant: after a failed write the draft is saved all the same.
SendPollingWithoutReturn ==
  /\ Running("send", "polling")
  /\ op' = [op EXCEPT !.pc = "record"]
  /\ \/ Acknowledge("polling", op.binding.id, op.value) /\ UNCHANGED lane
     \/ /\ lane' = [lane EXCEPT !["polling"][op.owner] = Refused(lane["polling"][op.owner])]
        /\ UNCHANGED <<mouse, acked>>
  /\ UNCHANGED <<selectionVars, staged, diskVars, edits, ops>>

\* ApplyOperationBound writes only to the binding it is given.
SendPolling ==
  /\ Running("send", "polling")
  /\ \/ /\ selection = op.binding
        /\ Acknowledge("polling", op.binding.id, op.value)
        /\ op' = [op EXCEPT !.pc = "acked"]
        /\ UNCHANGED lane
     \/ /\ lane' = [lane EXCEPT !["polling"][op.owner] = Refused(lane["polling"][op.owner])]
        /\ Release
        /\ UNCHANGED <<mouse, acked>>
  /\ UNCHANGED <<selectionVars, staged, diskVars, edits, ops>>

Accepted(s) == [s EXCEPT !.applied = op.value, !.firmware = "success"]

\* Mutant: the revision is not compared again after the ACK.
AcceptPollingUnchecked ==
  /\ Running("acked", "polling")
  /\ lane' = [lane EXCEPT !["polling"][op.owner] = Accepted(lane["polling"][op.owner])]
  /\ op' = [op EXCEPT !.pc = "record"]
  /\ UNCHANGED <<selectionVars, hardwareVars, diskVars, edits, ops>>

\* A draft staged while the ACK was awaited leaves the applied value alone.
AcceptPolling ==
  /\ Running("acked", "polling")
  /\ IF lane["polling"][op.owner].revision = op.revision
     THEN /\ lane' = [lane EXCEPT !["polling"][op.owner] = Accepted(lane["polling"][op.owner])]
          /\ op' = [op EXCEPT !.pc = "record"]
     ELSE Release /\ UNCHANGED lane
  /\ UNCHANGED <<selectionVars, hardwareVars, diskVars, edits, ops>>

-----------------------------------------------------------------------------
\* Saving, and retrying a failed save.

\* RetryPersistence and RetryPollingPersistence capture the binding ...
StartRetry(l) ==
  /\ op.pc = "idle"
  /\ ops < MaxOps
  /\ selection # NoBinding
  /\ op' = [NoOperation EXCEPT !.pc = "capture", !.kind = "retry", !.lane = l, !.binding = selection]
  /\ ops' = ops + 1
  /\ UNCHANGED <<selectionVars, lane, hardwareVars, diskVars, edits>>

\* ... and then the state of whatever is selected by now.
CaptureRetry(l) ==
  /\ Running("capture", l)
  /\ op.kind = "retry"
  /\ LET retry == lane[l][Current].retry
     IN IF retry = NoValue
        THEN Release
        ELSE op' = [op EXCEPT !.pc = "record", !.owner = Current, !.value = retry]
  /\ UNCHANGED <<selectionVars, lane, hardwareVars, diskVars, edits, ops>>

\* The labels an operation leaves behind, the retry a failed save of an apply
\* leaves and a saved one takes away, and the value the DPI lane accepts only now.
Completed(s, failed) ==
  LET accepts == op.kind = "apply" /\ op.lane = "dpi"
      retry == IF op.kind = "apply"
               THEN IF failed THEN op.value ELSE s.retry
               ELSE IF failed THEN s.retry ELSE NoValue
  IN [s EXCEPT !.applied = IF accepts THEN op.value ELSE s.applied,
               !.firmware = IF accepts THEN "success" ELSE s.firmware,
               !.saved = IF failed THEN "failed" ELSE "success",
               !.retry = retry]

Complete(failed) ==
  /\ lane' = [lane EXCEPT ![op.lane][op.owner] = Completed(lane[op.lane][op.owner], failed)]
  /\ Release

\* ApplyDPI asks for the selection again after the ACK: it saves under that
\* binding, or saves nothing and still completes as saved when there is none.
ReselectDpi ==
  /\ Running("acked", "dpi")
  /\ IF selection = NoBinding
     THEN Complete(FALSE)
     ELSE op' = [op EXCEPT !.pc = "record", !.binding = selection] /\ UNCHANGED lane
  /\ UNCHANGED <<selectionVars, hardwareVars, diskVars, edits, ops>>

\* The device record. A failure ends the DPI lane's saving; the polling lane
\* goes on to the profile.
SaveRecord(ok) ==
  /\ op.pc = "record"
  /\ record' = IF ok THEN [record EXCEPT ![op.lane][op.binding.id] = op.value] ELSE record
  /\ IF ok \/ op.lane = "polling"
     THEN op' = [op EXCEPT !.pc = "profile", !.failed = ~ok] /\ UNCHANGED lane
     ELSE Complete(TRUE)
  /\ UNCHANGED <<selectionVars, hardwareVars, profile, edits, ops>>

\* The active profile, and the labels.
SaveProfile(ok) ==
  /\ op.pc = "profile"
  /\ profile' = IF ok THEN [profile EXCEPT ![op.lane][op.binding.id] = op.value] ELSE profile
  /\ Complete(op.failed \/ ~ok)
  /\ UNCHANGED <<selectionVars, hardwareVars, record, edits, ops>>

Next ==
  \/ SelectDevice
  \/ \E l \in Lanes, v \in Values : Stage(l, v)
  \/ StageEvent
  \/ StartDpi \/ StageOnMouse \/ SendDpi \/ ReselectDpi
  \/ StartPolling \/ CaptureDraft \/ CheckBinding \/ CheckRevision \/ SendPolling \/ AcceptPolling
  \/ \E l \in Lanes : StartRetry(l) \/ CaptureRetry(l)
  \/ \E ok \in BOOLEAN : SaveRecord(ok) \/ SaveProfile(ok)

Spec == Init /\ [][Next]_editVars

-----------------------------------------------------------------------------

\* What a step may do to the applied values.
AppliedStep ==
  \A l \in Lanes, m \in Devices :
    lane'[l][m].applied # lane[l][m].applied => lane'[l][m].applied = mouse[l][m]

\* The applied value of a lane moves only to the setting its mouse has just
\* acknowledged, although the draft, the selection and the mouse's own button
\* may move between the capture, the write and the completion. With several
\* mice the DPI lane does not keep this: it re-reads the selection.
AppliedFollowsAck == [][AppliedStep]_editVars

\* A polling lane that reports its firmware write a success shows a draft that
\* is the mouse's setting: a draft staged during the write, or a failed write
\* after a good one, is never reported as applied.
PollingSuccessTruthful ==
  \A m \in Devices :
    LET s == lane["polling"][m]
    IN s.firmware = "success" => s.draft = s.applied /\ s.applied = mouse["polling"][m]

\* "It MUST persist only acknowledged state": neither the record nor the
\* active profile of a mouse holds a setting this mouse never acknowledged.
PersistsOnlyAcknowledged ==
  \A l \in Lanes, m \in Devices : {record[l][m], profile[l][m]} \subseteq acked[l][m]
=============================================================================
