-------------------------- MODULE LaneEditsProofs --------------------------
(* Proofs about the lane edits, for any values and bounds. The types hold  *)
(* for any mice. What is saved and shown is right with one mouse, or with  *)
(* any mice in the behaviours where no operation sees the selection move:  *)
(* the theorems of the first kind assume Devices = {m}, those of the       *)
(* second speak of SteadySpec.                                             *)
EXTENDS LaneEdits, TLAPS

\* A revision counts some of the drafts staged so far: this keeps it bounded.
RevisionsBounded == \A l \in Lanes, o \in Owners : lane[l][o].revision <= edits

TypeInv == TypeOK /\ RevisionsBounded

LEMMA CurrentIsOwner ==
  ASSUME selection \in Bindings \cup {NoBinding}
  PROVE  Current \in Owners
BY DEF Current, Owners, Bindings

LEMMA RevisionIsNat ==
  ASSUME NEW s \in LaneState
  PROVE  s.revision \in Nat /\ s.revision <= MaxEdits
<1>1. s.revision \in 0..MaxEdits
  BY DEF LaneState
<1> QED
  BY <1>1, EditBoundsAssumption

\* Each way to change a lane state gives a lane state, and only staging a draft
\* moves its revision.
LEMMA DraftedIsLaneState ==
  ASSUME NEW s \in LaneState, NEW v \in Values, s.revision < MaxEdits
  PROVE  Drafted(s, v) \in LaneState /\ Drafted(s, v).revision = s.revision + 1
<1>1. s.revision \in Nat /\ s.revision + 1 \in 0..MaxEdits
  BY RevisionIsNat, EditBoundsAssumption
<1> QED
  BY <1>1 DEF Drafted, LaneState

LEMMA RelabelledIsLaneState ==
  ASSUME op \in Operation, NEW s \in LaneState, NEW failed \in BOOLEAN
  PROVE  \A t \in {Completed(s, failed), Accepted(s), Refused(s), Undrafted(s)} :
           t \in LaneState /\ t.revision = s.revision
<1>1. op.value \in Values
  BY DEF Operation
<1>2. Completed(s, failed) \in LaneState /\ Completed(s, failed).revision = s.revision
  BY <1>1 DEF Completed, LaneState
<1>3. Accepted(s) \in LaneState /\ Accepted(s).revision = s.revision
  BY <1>1 DEF Accepted, LaneState
<1>4. Refused(s) \in LaneState /\ Refused(s).revision = s.revision
  BY DEF Refused, LaneState
<1>5. Undrafted(s) \in LaneState /\ Undrafted(s).revision = s.revision
  BY DEF Undrafted, LaneState
<1> QED
  BY <1>2, <1>3, <1>4, <1>5

\* Replacing one lane state by one of the same revision keeps the types.
LEMMA RelabellingKeepsTypes ==
  ASSUME TypeInv, NEW l \in Lanes, NEW o \in Owners, NEW s \in LaneState,
         s.revision = lane[l][o].revision, lane' = [lane EXCEPT ![l][o] = s]
  PROVE  /\ lane' \in [Lanes -> [Owners -> LaneState]]
         /\ \A k \in Lanes, p \in Owners : lane'[k][p].revision = lane[k][p].revision
BY DEF TypeInv, TypeOK

\* Completing keeps the types of the lanes and their revisions.
LEMMA CompleteKeepsTypes ==
  ASSUME TypeInv, NEW failed \in BOOLEAN, Complete(failed)
  PROVE  /\ lane' \in [Lanes -> [Owners -> LaneState]]
         /\ \A l \in Lanes, o \in Owners : lane'[l][o].revision = lane[l][o].revision
         /\ op' = NoOperation
<1>1. op \in Operation /\ op.lane \in Lanes /\ op.owner \in Owners
  BY DEF Operation, TypeInv, TypeOK
<1>2. lane[op.lane][op.owner] \in LaneState
  BY <1>1 DEF TypeInv, TypeOK
<1>3. /\ Completed(lane[op.lane][op.owner], failed) \in LaneState
      /\ Completed(lane[op.lane][op.owner], failed).revision = lane[op.lane][op.owner].revision
  BY <1>1, <1>2, RelabelledIsLaneState
<1> QED
  BY <1>1, <1>3, RelabellingKeepsTypes DEF Complete, Release

LEMMA NoOperationIsOperation == NoOperation \in Operation
BY FactoryAssumption, EditBoundsAssumption DEF NoOperation, Operation, Owners, Lanes

LEMMA TypeInit == Init => TypeInv
<1> SUFFICES ASSUME Init PROVE TypeInv
  OBVIOUS
<1>1. Fresh \in LaneState /\ Fresh.revision = 0
  BY FactoryAssumption, EditBoundsAssumption DEF Fresh, LaneState
<1> QED
  BY <1>1, NoOperationIsOperation, FactoryAssumption, SelectionAssumption, EditBoundsAssumption
     DEF Init, SelectionInit, TypeInv, TypeOK, RevisionsBounded, PerMouse

\* A step of the selection touches nothing else and keeps its own type.
LEMMA SelectionTypeStep ==
  ASSUME TypeInv, SelectDevice
  PROVE  TypeInv'
<1>1. rev' \in 0..MaxRev /\ selection' \in Bindings' \cup {NoBinding}
  <2>1. CASE Renew
    BY <2>1, SelectionAssumption DEF Renew, TypeInv, TypeOK, Bindings
  <2>2. ASSUME NEW d \in Devices, Choose(d)
        PROVE  rev' \in 0..MaxRev /\ selection' \in Bindings' \cup {NoBinding}
    BY <2>2, SelectionAssumption DEF Choose, TypeInv, TypeOK, Bindings
  <2> QED
    BY <2>1, <2>2 DEF SelectDevice, SelectionNext
<1> QED
  BY <1>1 DEF SelectDevice, laneVars, hardwareVars, diskVars, TypeInv, TypeOK, RevisionsBounded

\* Staging, and the mouse's own button, keep the types: a stage raises one
\* revision by one and the number of edits with it.
LEMMA StageTypeStep ==
  ASSUME TypeInv, NEW l \in Lanes, NEW v \in Values, Stage(l, v) \/ StageEvent
  PROVE  TypeInv'
<1> USE EditBoundsAssumption DEF TypeInv, TypeOK, RevisionsBounded
<1>1. Current \in Owners
  BY CurrentIsOwner
<1>2. CASE Stage(l, v)
  <2> DEFINE s == Drafted(lane[l][Current], v)
  <2>1. lane[l][Current] \in LaneState /\ lane[l][Current].revision <= edits
    BY <1>1
  <2>2. edits \in Nat /\ edits < MaxEdits /\ edits' = edits + 1
    BY <1>2 DEF Stage
  <2>3. s \in LaneState /\ s.revision <= edits'
    <3>1. lane[l][Current].revision \in Nat
      BY <2>1, RevisionIsNat
    <3>2. lane[l][Current].revision < MaxEdits
      BY <2>1, <2>2, <3>1
    <3> QED
      BY <2>1, <2>2, <3>1, <3>2, DraftedIsLaneState
  <2>4. lane' = [lane EXCEPT ![l][Current] = s]
    BY <1>2 DEF Stage
  <2> HIDE DEF s
  <2>5. lane' \in [Lanes -> [Owners -> LaneState]]
    BY <1>1, <2>3, <2>4
  <2>6. \A k \in Lanes, o \in Owners : lane'[k][o].revision <= edits'
    <3> SUFFICES ASSUME NEW k \in Lanes, NEW o \in Owners
                 PROVE  lane'[k][o].revision <= edits'
      OBVIOUS
    <3>0. lane[k][o] \in LaneState /\ lane[k][o].revision <= edits
      OBVIOUS
    <3>1. lane[k][o].revision \in Nat /\ lane[k][o].revision <= edits
      BY <3>0, RevisionIsNat
    <3>2. CASE k = l /\ o = Current
      BY <1>1, <2>3, <2>4, <3>2
    <3>3. CASE ~(k = l /\ o = Current)
      <4>1. lane'[k][o] = lane[k][o]
        BY <1>1, <2>4, <3>3
      <4> QED
        BY <2>2, <3>1, <4>1
    <3> QED
      BY <3>2, <3>3
  <2>7. edits' \in 0..MaxEdits
    BY <2>2
  <2> QED
    BY <1>2, <2>5, <2>6, <2>7 DEF Stage, selectionVars, hardwareVars, diskVars, Bindings
<1>3. CASE StageEvent
  <2>1. selection.id \in Owners
    BY <1>3 DEF StageEvent, Bindings, Owners
  <2>2. lane["dpi"][selection.id] \in LaneState /\ op \in Operation
    BY <2>1 DEF Lanes
  <2>3. /\ Undrafted(lane["dpi"][selection.id]) \in LaneState
        /\ Undrafted(lane["dpi"][selection.id]).revision = lane["dpi"][selection.id].revision
    BY <2>2, RelabelledIsLaneState
  <2>4. /\ lane' \in [Lanes -> [Owners -> LaneState]]
        /\ \A k \in Lanes, o \in Owners : lane'[k][o].revision = lane[k][o].revision
    BY <1>3, <2>1, <2>3, RelabellingKeepsTypes DEF StageEvent, Lanes
  <2> QED
    BY <1>3, <2>4 DEF StageEvent, selectionVars, hardwareVars, diskVars, Bindings
<1> QED
  BY <1>2, <1>3

\* An operation's own steps keep the types. Only the lane it runs on, the disk
\* entries of the mouse it names and op itself change.
LEMMA StartTypeStep ==
  ASSUME TypeInv, StartDpi \/ StartPolling \/ \E l \in Lanes : StartRetry(l)
  PROVE  TypeInv'
<1> USE EditBoundsAssumption DEF TypeInv, TypeOK, RevisionsBounded
<1>1. Current \in Owners
  BY CurrentIsOwner
<1>2. lane["dpi"][Current] \in LaneState
  BY <1>1 DEF Lanes
<1>3. lane["dpi"][Current].draft \in Values
  BY <1>2 DEF LaneState
<1>4. op' \in Operation
  <2>1. CASE StartDpi
    BY <1>1, <1>3, <2>1, NoOperationIsOperation DEF StartDpi, NoOperation, Operation
  <2>2. CASE StartPolling
    BY <2>2, NoOperationIsOperation DEF StartPolling, NoOperation, Operation, Lanes
  <2>3. ASSUME NEW l \in Lanes, StartRetry(l)
        PROVE  op' \in Operation
    BY <2>3, NoOperationIsOperation DEF StartRetry, NoOperation, Operation
  <2> QED
    BY <2>1, <2>2, <2>3
<1>5. /\ ops < MaxOps /\ ops' = ops + 1
      /\ UNCHANGED <<selectionVars, lane, hardwareVars, diskVars, edits>>
  BY DEF StartDpi, StartPolling, StartRetry
<1>6. ops' \in 0..MaxOps
  BY <1>5
<1> QED
  BY <1>4, <1>5, <1>6 DEF selectionVars, hardwareVars, diskVars, Bindings

\* The steps that read the lanes and the selection and move only op.
LEMMA CaptureTypeStep ==
  ASSUME TypeInv, CaptureDraft \/ CheckBinding \/ CheckRevision \/ \E l \in Lanes : CaptureRetry(l)
  PROVE  TypeInv'
<1> USE DEF TypeInv, TypeOK, RevisionsBounded
<1>1. Current \in Owners
  BY CurrentIsOwner
<1>2. op \in Operation
  OBVIOUS
<1>3. op' \in Operation
  <2>1. CASE CaptureDraft
    <3>1. lane["polling"][Current] \in LaneState
      BY <1>1 DEF Lanes
    <3> QED
      BY <1>2, <2>1, <3>1 DEF CaptureDraft, Operation, LaneState
  <2>2. CASE CheckBinding
    BY <1>2, <2>2, NoOperationIsOperation DEF CheckBinding, Release, Operation
  <2>3. CASE CheckRevision
    BY <1>1, <1>2, <2>3, NoOperationIsOperation DEF CheckRevision, Release, Operation
  <2>4. ASSUME NEW l \in Lanes, CaptureRetry(l)
        PROVE  op' \in Operation
    <3>1. lane[l][Current] \in LaneState
      BY <1>1
    <3>2. lane[l][Current].retry # NoValue => lane[l][Current].retry \in Values
      BY <3>1 DEF LaneState
    <3>3. CASE lane[l][Current].retry = NoValue
      BY <2>4, <3>3, NoOperationIsOperation DEF CaptureRetry, Release
    <3>4. CASE lane[l][Current].retry # NoValue
      <4>1. op' = [op EXCEPT !.pc = "record", !.owner = Current, !.value = lane[l][Current].retry]
        BY <2>4, <3>4 DEF CaptureRetry
      <4> QED
        BY <1>1, <1>2, <3>2, <3>4, <4>1 DEF Operation
    <3> QED
      BY <3>3, <3>4
  <2> QED
    BY <2>1, <2>2, <2>3, <2>4
<1>4. UNCHANGED <<selectionVars, lane, hardwareVars, diskVars, edits, ops>>
  BY DEF CaptureDraft, CheckBinding, CheckRevision, CaptureRetry
<1> QED
  BY <1>3, <1>4 DEF selectionVars, hardwareVars, diskVars, Bindings

\* Acknowledging a setting keeps the types of what the mice hold.
LEMMA AcknowledgeKeepsTypes ==
  ASSUME TypeOK, NEW l \in Lanes, NEW m \in Devices, NEW v \in Values, Acknowledge(l, m, v)
  PROVE  mouse' \in PerMouse(Values) /\ acked' \in PerMouse(SUBSET Values)
<1>1. mouse[l] \in [Devices -> Values] /\ acked[l] \in [Devices -> SUBSET Values]
  BY DEF TypeOK, PerMouse
<1>2. acked[l][m] \cup {v} \in SUBSET Values
  BY <1>1
<1> QED
  BY <1>1, <1>2 DEF TypeOK, Acknowledge, PerMouse

LEMMA SendTypeStep ==
  ASSUME TypeInv, StageOnMouse \/ SendDpi \/ SendPolling
  PROVE  TypeInv'
<1> USE DEF TypeInv, TypeOK, RevisionsBounded
<1>1. /\ op \in Operation /\ op.owner \in Owners /\ op.value \in Values
      /\ op.binding \in Bindings \cup {NoBinding}
  BY DEF Operation
<1>2. selection # NoBinding => selection.id \in Devices
  BY DEF Bindings
<1>3. CASE StageOnMouse
  <2>1. op' \in Operation
    BY <1>1, <1>3, NoOperationIsOperation DEF StageOnMouse, Release, Operation
  <2>2. staged' \in [Devices -> Values \cup {NoValue}]
    BY <1>1, <1>2, <1>3 DEF StageOnMouse
  <2> QED
    BY <1>3, <2>1, <2>2 DEF StageOnMouse, selectionVars, diskVars, Bindings
<1>4. CASE SendDpi
  <2>1. op' \in Operation
    BY <1>1, <1>4, NoOperationIsOperation DEF SendDpi, Release, Operation
  <2>2. mouse' \in PerMouse(Values) /\ acked' \in PerMouse(SUBSET Values)
    <3>1. CASE UNCHANGED <<mouse, acked>>
      BY <3>1 DEF PerMouse
    <3>2. CASE /\ selection # NoBinding
               /\ staged[selection.id] # NoValue
               /\ Acknowledge("dpi", selection.id, staged[selection.id])
      BY <1>2, <3>2, AcknowledgeKeepsTypes DEF Lanes
    <3> QED
      BY <1>4, <3>1, <3>2 DEF SendDpi
  <2>3. UNCHANGED <<selectionVars, lane, staged, diskVars, edits, ops>>
    BY <1>4 DEF SendDpi
  <2> QED
    BY <2>1, <2>2, <2>3 DEF selectionVars, diskVars, Bindings, PerMouse
<1>5. CASE SendPolling
  <2>1. op' \in Operation
    BY <1>1, <1>5, NoOperationIsOperation DEF SendPolling, Release, Operation
  <2>2. UNCHANGED <<selectionVars, staged, diskVars, edits, ops>>
    BY <1>5 DEF SendPolling
  <2>3. CASE /\ selection = op.binding
             /\ Acknowledge("polling", op.binding.id, op.value)
             /\ UNCHANGED lane
    <3>1. CASE op.binding \in Bindings
      <4>1. op.binding.id \in Devices
        BY <3>1 DEF Bindings
      <4>2. mouse' \in PerMouse(Values) /\ acked' \in PerMouse(SUBSET Values)
        BY <1>1, <2>3, <4>1, AcknowledgeKeepsTypes DEF Lanes
      <4> QED
        BY <2>1, <2>2, <2>3, <4>2 DEF selectionVars, diskVars, Bindings, PerMouse
    <3>2. CASE op.binding \notin Bindings
      <4>1. /\ mouse' \in PerMouse(Values)
            /\ acked' \in PerMouse(SUBSET Values)
        BY <1>1, <2>3, <3>2 DEF Acknowledge, PerMouse
      <4> QED
        BY <2>1, <2>2, <2>3, <4>1 DEF selectionVars, diskVars, Bindings, PerMouse
    <3> QED
      BY <3>1, <3>2
  <2>4. CASE /\ lane' = [lane EXCEPT !["polling"][op.owner] = Refused(lane["polling"][op.owner])]
             /\ UNCHANGED <<mouse, acked>>
    <3>1. lane["polling"][op.owner] \in LaneState
      BY <1>1 DEF Lanes
    <3>2. /\ Refused(lane["polling"][op.owner]) \in LaneState
          /\ Refused(lane["polling"][op.owner]).revision = lane["polling"][op.owner].revision
      BY <1>1, <3>1, RelabelledIsLaneState
    <3>3. /\ lane' \in [Lanes -> [Owners -> LaneState]]
          /\ \A k \in Lanes, o \in Owners : lane'[k][o].revision = lane[k][o].revision
      BY <1>1, <2>4, <3>2, RelabellingKeepsTypes DEF Lanes
    <3> QED
      BY <2>1, <2>2, <2>4, <3>3 DEF selectionVars, diskVars, Bindings, PerMouse
  <2> QED
    BY <1>5, <2>3, <2>4 DEF SendPolling
<1> QED
  BY <1>3, <1>4, <1>5

LEMMA AcceptTypeStep ==
  ASSUME TypeInv, AcceptPolling
  PROVE  TypeInv'
<1> USE DEF TypeInv, TypeOK, RevisionsBounded
<1>1. op \in Operation /\ op.owner \in Owners
  BY DEF Operation
<1>2. op' \in Operation
  BY <1>1, NoOperationIsOperation DEF AcceptPolling, Release, Operation
<1>3. UNCHANGED <<selectionVars, hardwareVars, diskVars, edits, ops>>
  BY DEF AcceptPolling
<1>4. /\ lane' \in [Lanes -> [Owners -> LaneState]]
      /\ \A k \in Lanes, o \in Owners : lane'[k][o].revision = lane[k][o].revision
  <2>1. CASE UNCHANGED lane
    BY <2>1
  <2>2. CASE lane' = [lane EXCEPT !["polling"][op.owner] = Accepted(lane["polling"][op.owner])]
    <3>1. lane["polling"][op.owner] \in LaneState
      BY <1>1 DEF Lanes
    <3>2. /\ Accepted(lane["polling"][op.owner]) \in LaneState
          /\ Accepted(lane["polling"][op.owner]).revision = lane["polling"][op.owner].revision
      BY <1>1, <3>1, RelabelledIsLaneState
    <3> QED
      BY <1>1, <2>2, <3>2, RelabellingKeepsTypes DEF Lanes
  <2> QED
    BY <2>1, <2>2 DEF AcceptPolling
<1> QED
  BY <1>2, <1>3, <1>4 DEF selectionVars, hardwareVars, diskVars, Bindings, PerMouse

\* Writing one entry of the disk keeps its type, whatever entry it is.
LEMMA WrittenKeepsType ==
  ASSUME NEW f \in PerMouse(Values), op \in Operation
  PROVE  [f EXCEPT ![op.lane][op.binding.id] = op.value] \in PerMouse(Values)
<1>1. op.value \in Values /\ op.lane \in Lanes
  BY DEF Operation
<1>2. f[op.lane] \in [Devices -> Values]
  BY <1>1 DEF PerMouse
<1>3. [f[op.lane] EXCEPT ![op.binding.id] = op.value] \in [Devices -> Values]
  BY <1>1, <1>2
<1> QED
  BY <1>1, <1>3 DEF PerMouse

LEMMA SaveTypeStep ==
  ASSUME TypeInv, NEW ok \in BOOLEAN, ReselectDpi \/ SaveRecord(ok) \/ SaveProfile(ok)
  PROVE  TypeInv'
<1> USE DEF TypeInv, TypeOK, RevisionsBounded
<1>1. op \in Operation
  OBVIOUS
<1>2. /\ record' \in PerMouse(Values)
      /\ profile' \in PerMouse(Values)
  <2>1. CASE ReselectDpi
    BY <2>1 DEF ReselectDpi, diskVars, PerMouse
  <2>2. CASE SaveRecord(ok)
    BY <1>1, <2>2, WrittenKeepsType DEF SaveRecord
  <2>3. CASE SaveProfile(ok)
    BY <1>1, <2>3, WrittenKeepsType DEF SaveProfile
  <2> QED
    BY <2>1, <2>2, <2>3
<1>3. UNCHANGED <<selectionVars, hardwareVars, edits, ops>>
  BY DEF ReselectDpi, SaveRecord, SaveProfile
<1>4. /\ lane' \in [Lanes -> [Owners -> LaneState]]
      /\ \A k \in Lanes, o \in Owners : lane'[k][o].revision = lane[k][o].revision
      /\ op' \in Operation
  <2>1. ASSUME NEW failed \in BOOLEAN, Complete(failed)
        PROVE  <1>4!:
    BY <2>1, CompleteKeepsTypes, NoOperationIsOperation
  <2>2. CASE UNCHANGED lane /\ op' = [op EXCEPT !.pc = "record", !.binding = selection]
    BY <1>1, <2>2 DEF Operation
  <2>3. CASE UNCHANGED lane /\ op' = [op EXCEPT !.pc = "profile", !.failed = ~ok]
    BY <1>1, <2>3 DEF Operation
  <2>4. CASE ReselectDpi
    BY <2>1, <2>2, <2>4 DEF ReselectDpi
  <2>5. CASE SaveRecord(ok)
    BY <2>1, <2>3, <2>5 DEF SaveRecord
  <2>6. CASE SaveProfile(ok)
    <3>1. (op.failed \/ ~ok) \in BOOLEAN
      BY <1>1 DEF Operation
    <3>2. Complete(op.failed \/ ~ok)
      BY <2>6 DEF SaveProfile
    <3> QED
      BY <2>1, <3>1, <3>2
  <2> QED
    BY <2>4, <2>5, <2>6
<1> QED
  BY <1>2, <1>3, <1>4 DEF selectionVars, hardwareVars, Bindings, PerMouse

LEMMA TypeInvStep ==
  ASSUME TypeInv, [Next]_editVars
  PROVE  TypeInv'
<1>1. CASE SelectDevice
  BY <1>1, SelectionTypeStep
<1>2. CASE StageEvent \/ \E l \in Lanes, v \in Values : Stage(l, v)
  BY <1>2, StageTypeStep, FactoryAssumption DEF Lanes
<1>3. CASE StartDpi \/ StartPolling \/ \E l \in Lanes : StartRetry(l)
  BY <1>3, StartTypeStep
<1>4. CASE CaptureDraft \/ CheckBinding \/ CheckRevision \/ \E l \in Lanes : CaptureRetry(l)
  BY <1>4, CaptureTypeStep
<1>5. CASE StageOnMouse \/ SendDpi \/ SendPolling
  BY <1>5, SendTypeStep
<1>6. CASE AcceptPolling
  BY <1>6, AcceptTypeStep
<1>7. CASE ReselectDpi \/ \E ok \in BOOLEAN : SaveRecord(ok) \/ SaveProfile(ok)
  BY <1>7, SaveTypeStep
<1>8. CASE UNCHANGED editVars
  BY <1>8 DEF editVars, selectionVars, laneVars, hardwareVars, diskVars,
              TypeInv, TypeOK, RevisionsBounded, Bindings, PerMouse
<1> QED
  BY <1>1, <1>2, <1>3, <1>4, <1>5, <1>6, <1>7, <1>8 DEF Next

\* Every variable keeps its type, whatever the mice, the settings and the
\* bounds are.
THEOREM LaneTypeCorrect == Spec => []TypeOK
<1>1. TypeInv /\ [Next]_editVars => TypeInv'
  BY TypeInvStep
<1> QED
  BY <1>1, TypeInit, PTL DEF Spec, TypeInv

-----------------------------------------------------------------------------
\* With a single mouse, what is saved was acknowledged. The invariant follows
\* the value through the operation: a DPI value about to be sent is the one
\* staged on the mouse, a value held after the ACK has been acknowledged (and,
\* in an apply, is still what the mouse holds), and so is every retry.

RetriesAcknowledged ==
  \A l \in Lanes, o \in Owners, n \in Devices :
    lane[l][o].retry \in acked[l][n] \cup {NoValue}

SentIsStaged == Running("send", "dpi") => \A n \in Devices : staged[n] = op.value

HeldIsAcknowledged ==
  op.pc \in {"acked", "record", "profile"} =>
    \A n \in Devices : /\ op.value \in acked[op.lane][n]
                       /\ op.kind = "apply" \/ op.pc = "acked" => op.value = mouse[op.lane][n]

AckInv == RetriesAcknowledged /\ SentIsStaged /\ HeldIsAcknowledged /\ PersistsOnlyAcknowledged

LEMMA AckInit == Init => AckInv
<1> SUFFICES ASSUME Init PROVE AckInv
  OBVIOUS
<1>1. \A l \in Lanes, o \in Owners : lane[l][o].retry = NoValue
  BY DEF Init, Fresh
<1>2. op.pc = "idle"
  BY DEF Init, NoOperation
<1>3. \A l \in Lanes, m \in Devices : /\ acked[l][m] = {Factory}
                                   /\ record[l][m] = Factory /\ profile[l][m] = Factory
  BY DEF Init
<1> QED
  BY <1>1, <1>2, <1>3
     DEF AckInv, RetriesAcknowledged, SentIsStaged, HeldIsAcknowledged, PersistsOnlyAcknowledged, Running

\* What each change of a lane state does to its retry.
LEMMA RetryOfChange ==
  ASSUME NEW s \in LaneState, NEW v \in Values, NEW failed \in BOOLEAN
  PROVE  /\ Drafted(s, v).retry = NoValue
         /\ Undrafted(s).retry = s.retry
         /\ Accepted(s).retry = s.retry
         /\ Refused(s).retry = s.retry
         /\ Completed(s, failed).retry \in {s.retry, NoValue} \/
            (op.kind = "apply" /\ Completed(s, failed).retry = op.value)
<1>1. Drafted(s, v).retry = NoValue
  BY DEF Drafted, LaneState
<1>2. Undrafted(s).retry = s.retry
  BY DEF Undrafted, LaneState
<1>3. Accepted(s).retry = s.retry
  BY DEF Accepted, LaneState
<1>4. Refused(s).retry = s.retry
  BY DEF Refused, LaneState
<1>5. \/ Completed(s, failed).retry \in {s.retry, NoValue}
      \/ op.kind = "apply" /\ Completed(s, failed).retry = op.value
  BY DEF Completed, LaneState
<1> QED
  BY <1>1, <1>2, <1>3, <1>4, <1>5

\* Staging and selecting at most clear a retry.
LEMMA BetweenKeepsRetries ==
  ASSUME TypeInv, NEW l \in Lanes, NEW v \in Values, SelectDevice \/ StageEvent \/ Stage(l, v)
  PROVE  \A k \in Lanes, o \in Owners : lane'[k][o].retry \in {lane[k][o].retry, NoValue}
<1>1. Current \in Owners /\ lane \in [Lanes -> [Owners -> LaneState]]
  BY CurrentIsOwner DEF TypeInv, TypeOK
<1>2. CASE SelectDevice
  BY <1>2 DEF SelectDevice, laneVars
<1>3. CASE StageEvent
  <2>1. selection.id \in Owners
    BY <1>3 DEF StageEvent, TypeInv, TypeOK, Bindings, Owners
  <2>2. lane["dpi"][selection.id] \in LaneState
    BY <1>1, <2>1 DEF Lanes
  <2>3. Undrafted(lane["dpi"][selection.id]).retry = lane["dpi"][selection.id].retry
    BY <2>2, RetryOfChange
  <2> QED
    BY <1>1, <1>3, <2>1, <2>3 DEF StageEvent, Lanes
<1>4. CASE Stage(l, v)
  <2>1. Drafted(lane[l][Current], v).retry = NoValue
    BY <1>1, RetryOfChange
  <2> QED
    BY <1>1, <1>4, <2>1 DEF Stage
<1> QED
  BY <1>2, <1>3, <1>4

\* Nothing an operation does not hold can disturb what it holds: a draft only
\* clears a retry.
LEMMA BetweenKeepsAck ==
  ASSUME TypeInv, AckInv, NEW l \in Lanes, NEW v \in Values,
         SelectDevice \/ StageEvent \/ Stage(l, v)
  PROVE  AckInv'
<1>1. UNCHANGED <<hardwareVars, diskVars, op>>
  BY DEF SelectDevice, laneVars, StageEvent, Stage
<1>2. \A k \in Lanes, o \in Owners : lane'[k][o].retry \in {lane[k][o].retry, NoValue}
  BY BetweenKeepsRetries
<1>3. RetriesAcknowledged'
  BY <1>1, <1>2 DEF AckInv, RetriesAcknowledged, hardwareVars, Owners
<1>4. SentIsStaged' /\ HeldIsAcknowledged' /\ PersistsOnlyAcknowledged'
  BY <1>1 DEF AckInv, SentIsStaged, HeldIsAcknowledged, PersistsOnlyAcknowledged, Running,
              hardwareVars, diskVars
<1> QED
  BY <1>3, <1>4 DEF AckInv

\* Starting and capturing reads; only a retry comes to hold a value, and the
\* retry it holds was acknowledged.
LEMMA CaptureKeepsAck ==
  ASSUME TypeInv, AckInv, NEW l \in Lanes,
         \/ StartDpi \/ StartPolling \/ StartRetry(l) \/ CaptureDraft
         \/ CheckBinding \/ CheckRevision \/ CaptureRetry(l)
  PROVE  AckInv'
<1>1. UNCHANGED <<lane, hardwareVars, diskVars>>
  BY DEF StartDpi, StartPolling, StartRetry, CaptureDraft, CheckBinding, CheckRevision, CaptureRetry
<1>2. RetriesAcknowledged' /\ PersistsOnlyAcknowledged'
  BY <1>1 DEF AckInv, RetriesAcknowledged, PersistsOnlyAcknowledged, hardwareVars, diskVars, Owners
<1>3. op \in Operation /\ Current \in Owners
  BY CurrentIsOwner DEF TypeInv, TypeOK
<1>4. CASE StartDpi \/ StartPolling \/ StartRetry(l) \/ CaptureDraft \/ CheckBinding
  <2>1. op'.pc \in {"idle", "capture", "stage", "check", "recheck"}
    <3>1. CASE StartDpi \/ StartPolling \/ StartRetry(l)
      BY <3>1 DEF StartDpi, StartPolling, StartRetry, NoOperation
    <3>2. CASE CaptureDraft
      BY <1>3, <3>2 DEF CaptureDraft, Operation
    <3>3. CASE CheckBinding
      BY <1>3, <3>3 DEF CheckBinding, Release, NoOperation, Operation
    <3> QED
      BY <1>4, <3>1, <3>2, <3>3
  <2> QED
    BY <1>2, <2>1 DEF AckInv, SentIsStaged, HeldIsAcknowledged, Running
<1>5. CASE CheckRevision
  <2>1. op'.pc \in {"idle", "send"} /\ (op'.pc = "send" => op'.lane = "polling")
    <3>1. CASE op' = NoOperation
      BY <3>1 DEF NoOperation
    <3>2. CASE op' = [op EXCEPT !.pc = "send", !.owner = Current]
      BY <1>3, <1>5, <3>2 DEF CheckRevision, Running, Operation
    <3> QED
      BY <1>5, <3>1, <3>2 DEF CheckRevision, Release
  <2> QED
    BY <1>2, <2>1 DEF AckInv, SentIsStaged, HeldIsAcknowledged, Running
<1>6. CASE CaptureRetry(l)
  <2>1. CASE lane[l][Current].retry = NoValue
    <3>1. op'.pc = "idle"
      BY <1>6, <2>1 DEF CaptureRetry, Release, NoOperation
    <3> QED
      BY <1>2, <3>1 DEF AckInv, SentIsStaged, HeldIsAcknowledged, Running
  <2>2. CASE lane[l][Current].retry # NoValue
    <3>1. /\ op'.pc = "record" /\ op'.kind = "retry" /\ op'.lane = l
          /\ op'.value = lane[l][Current].retry
      BY <1>3, <1>6, <2>2 DEF CaptureRetry, Running, Operation
    <3>2. \A n \in Devices : op'.value \in acked'[op'.lane][n]
      BY <1>1, <1>3, <2>2, <3>1 DEF AckInv, RetriesAcknowledged, hardwareVars
    <3> QED
      BY <1>2, <3>1, <3>2 DEF AckInv, SentIsStaged, HeldIsAcknowledged, Running
  <2> QED
    BY <2>1, <2>2
<1> QED
  BY <1>4, <1>5, <1>6

\* The polling lane never runs without a binding.
PollingIsBound == op.lane = "polling" => op.binding \in Bindings

LEMMA PollingStaysBound ==
  ASSUME TypeInv, PollingIsBound, [Next]_editVars
  PROVE  PollingIsBound'
<1>1. op \in Operation /\ (selection # NoBinding => selection \in Bindings) /\ Bindings' = Bindings
  BY DEF TypeInv, TypeOK, Bindings
<1>2. CASE op' = NoOperation
  BY <1>2 DEF NoOperation, PollingIsBound
<1>3. CASE op'.lane = op.lane /\ op'.binding = op.binding
  BY <1>1, <1>3 DEF PollingIsBound
<1>4. CASE SelectDevice \/ StageEvent \/ (\E l \in Lanes, v \in Values : Stage(l, v)) \/ UNCHANGED editVars
  BY <1>3, <1>4 DEF SelectDevice, StageEvent, Stage, editVars, laneVars
<1>5. CASE StartDpi \/ StartPolling \/ \E l \in Lanes : StartRetry(l)
  BY <1>1, <1>5 DEF StartDpi, StartPolling, StartRetry, NoOperation, PollingIsBound
<1>6. CASE StageOnMouse \/ SendDpi
  BY <1>1, <1>2, <1>3, <1>6 DEF StageOnMouse, SendDpi, Release, Operation
<1>7. CASE CaptureDraft \/ CheckBinding \/ CheckRevision
  <2>1. CASE CaptureDraft
    BY <1>1, <1>3, <2>1 DEF CaptureDraft, Operation
  <2>2. CASE CheckBinding
    BY <1>1, <1>2, <1>3, <2>2 DEF CheckBinding, Release, Operation
  <2>3. CASE CheckRevision
    BY <1>1, <1>2, <1>3, <2>3 DEF CheckRevision, Release, Operation
  <2> QED
    BY <1>7, <2>1, <2>2, <2>3
<1>8. CASE SendPolling \/ AcceptPolling
  <2>1. CASE SendPolling
    BY <1>1, <1>2, <1>3, <2>1 DEF SendPolling, Release, Operation
  <2>2. CASE AcceptPolling
    BY <1>1, <1>2, <1>3, <2>2 DEF AcceptPolling, Release, Operation
  <2> QED
    BY <1>8, <2>1, <2>2
<1>9. ASSUME NEW l \in Lanes, CaptureRetry(l)
      PROVE  PollingIsBound'
  <2>1. CASE lane[l][Current].retry = NoValue
    BY <1>2, <1>9, <2>1 DEF CaptureRetry, Release
  <2>2. CASE lane[l][Current].retry # NoValue
    BY <1>1, <1>3, <1>9, <2>2 DEF CaptureRetry, Operation
  <2> QED
    BY <2>1, <2>2
<1>10. CASE ReselectDpi
  <2>1. CASE selection = NoBinding
    BY <1>2, <1>10, <2>1 DEF ReselectDpi, Complete, Release
  <2>2. CASE selection # NoBinding
    <3>1. op'.lane = "dpi"
      BY <1>1, <1>10, <2>2 DEF ReselectDpi, Running, Operation
    <3> QED
      BY <3>1 DEF PollingIsBound
  <2> QED
    BY <2>1, <2>2
<1>11. ASSUME NEW ok \in BOOLEAN, SaveRecord(ok) \/ SaveProfile(ok)
       PROVE  PollingIsBound'
  <2>1. op' = NoOperation \/ op' = [op EXCEPT !.pc = "profile", !.failed = ~ok]
    BY <1>11 DEF SaveRecord, SaveProfile, Complete, Release
  <2> QED
    BY <1>1, <1>2, <1>3, <2>1 DEF Operation
<1> QED
  BY <1>4, <1>5, <1>6, <1>7, <1>8, <1>9, <1>10, <1>11 DEF Next

\* With one mouse, staging reaches every mouse there is.
LEMMA StageOnMouseKeepsAck ==
  ASSUME NEW m, Devices = {m}, TypeInv, AckInv, StageOnMouse
  PROVE  AckInv'
<1>1. UNCHANGED <<lane, mouse, acked, diskVars>>
  BY DEF StageOnMouse
<1>2. RetriesAcknowledged' /\ PersistsOnlyAcknowledged'
  BY <1>1 DEF AckInv, RetriesAcknowledged, PersistsOnlyAcknowledged, diskVars, Owners
<1>3. op \in Operation
  BY DEF TypeInv, TypeOK
<1>4. CASE op' = NoOperation
  <2>1. op'.pc = "idle"
    BY <1>4 DEF NoOperation
  <2> QED
    BY <1>2, <2>1 DEF AckInv, SentIsStaged, HeldIsAcknowledged, Running
<1>5. CASE /\ selection # NoBinding
           /\ staged' = [staged EXCEPT ![selection.id] = op.value]
           /\ op' = [op EXCEPT !.pc = "send"]
  <2>1. selection.id = m
    BY <1>5 DEF TypeInv, TypeOK, Bindings
  <2>2. \A n \in Devices : staged'[n] = op.value
    BY <1>5, <2>1 DEF TypeInv, TypeOK
  <2>3. op'.pc = "send" /\ op'.value = op.value
    BY <1>3, <1>5 DEF Operation
  <2> QED
    BY <1>2, <2>2, <2>3 DEF AckInv, SentIsStaged, HeldIsAcknowledged, Running
<1> QED
  BY <1>4, <1>5 DEF StageOnMouse, Release

\* An acknowledged value is in what the mouse acknowledged, and everything
\* acknowledged before stays there.
LEMMA AcknowledgeAdds ==
  ASSUME TypeOK, NEW l \in Lanes, NEW m \in Devices, NEW v \in Values, Acknowledge(l, m, v)
  PROVE  /\ mouse'[l][m] = v
         /\ v \in acked'[l][m]
         /\ \A k \in Lanes, n \in Devices : acked[k][n] \subseteq acked'[k][n]
<1>1. mouse[l] \in [Devices -> Values] /\ acked[l] \in [Devices -> SUBSET Values]
  BY DEF TypeOK, PerMouse
<1>2. mouse \in PerMouse(Values) /\ acked \in PerMouse(SUBSET Values)
  BY DEF TypeOK
<1>3. mouse'[l][m] = v
  BY <1>1, <1>2 DEF Acknowledge, PerMouse
<1>4. v \in acked'[l][m]
  BY <1>1, <1>2 DEF Acknowledge, PerMouse
<1>5. \A k \in Lanes, n \in Devices : acked[k][n] \subseteq acked'[k][n]
  BY <1>1, <1>2 DEF Acknowledge, PerMouse
<1> QED
  BY <1>3, <1>4, <1>5

\* Sending: either the write fails and the value is dropped, or the one mouse
\* acknowledges exactly the value the operation goes on to hold.
LEMMA SendKeepsAck ==
  ASSUME NEW m, Devices = {m}, TypeInv, PollingIsBound, AckInv, SendDpi \/ SendPolling
  PROVE  AckInv'
<1>1. /\ op \in Operation /\ op.value \in Values /\ op.lane \in Lanes /\ op.owner \in Owners
      /\ op.binding \in Bindings \cup {NoBinding}
  BY DEF TypeInv, TypeOK, Operation
<1>2. UNCHANGED diskVars
  BY DEF SendDpi, SendPolling
<1>3. \A k \in Lanes, o \in Owners : lane'[k][o].retry = lane[k][o].retry
  <2>1. CASE UNCHANGED lane
    BY <2>1
  <2>2. CASE lane' = [lane EXCEPT !["polling"][op.owner] = Refused(lane["polling"][op.owner])]
    <3>1. lane["polling"][op.owner] \in LaneState /\ lane \in [Lanes -> [Owners -> LaneState]]
      BY <1>1 DEF TypeInv, TypeOK, Lanes
    <3>2. Refused(lane["polling"][op.owner]).retry = lane["polling"][op.owner].retry
      BY <3>1 DEF Refused, LaneState
    <3> QED
      BY <1>1, <2>2, <3>1, <3>2 DEF Lanes
  <2> QED
    BY <2>1, <2>2 DEF SendDpi, SendPolling
<1>4. CASE op' = NoOperation /\ UNCHANGED <<mouse, acked>>
  <2>1. op'.pc = "idle"
    BY <1>4 DEF NoOperation
  <2>2. RetriesAcknowledged' /\ PersistsOnlyAcknowledged'
    BY <1>2, <1>3, <1>4 DEF AckInv, RetriesAcknowledged, PersistsOnlyAcknowledged, diskVars
  <2> QED
    BY <2>1, <2>2 DEF AckInv, SentIsStaged, HeldIsAcknowledged, Running
<1>5. CASE Acknowledge(op.lane, m, op.value) /\ op' = [op EXCEPT !.pc = "acked"]
  <2>1. /\ mouse'[op.lane][m] = op.value
        /\ op.value \in acked'[op.lane][m]
        /\ \A k \in Lanes, n \in Devices : acked[k][n] \subseteq acked'[k][n]
    BY <1>1, <1>5, AcknowledgeAdds DEF TypeInv
  <2>2. op'.pc = "acked" /\ op'.value = op.value /\ op'.lane = op.lane
    BY <1>1, <1>5 DEF Operation
  <2>3. RetriesAcknowledged'
    BY <1>3, <2>1 DEF AckInv, RetriesAcknowledged
  <2>4. PersistsOnlyAcknowledged'
    BY <1>2, <2>1 DEF AckInv, PersistsOnlyAcknowledged, diskVars
  <2>5. SentIsStaged' /\ HeldIsAcknowledged'
    BY <2>1, <2>2 DEF SentIsStaged, HeldIsAcknowledged, Running
  <2> QED
    BY <2>3, <2>4, <2>5 DEF AckInv
<1>6. CASE SendDpi
  <2>1. op.lane = "dpi" /\ \A n \in Devices : staged[n] = op.value
    BY <1>6 DEF SendDpi, Running, AckInv, SentIsStaged
  <2>2. selection # NoBinding => selection.id = m
    BY DEF TypeInv, TypeOK, Bindings
  <2> QED
    BY <1>4, <1>5, <1>6, <2>1, <2>2 DEF SendDpi, Release
<1>7. CASE SendPolling
  <2>1. op.lane = "polling"
    BY <1>7 DEF SendPolling, Running
  <2>2. op.binding.id = m
    BY <2>1 DEF PollingIsBound, Bindings
  <2> QED
    BY <1>4, <1>5, <1>7, <2>1, <2>2 DEF SendPolling, Release
<1> QED
  BY <1>6, <1>7

LEMMA AcceptKeepsAck ==
  ASSUME TypeInv, AckInv, AcceptPolling
  PROVE  AckInv'
<1>1. op \in Operation /\ op.owner \in Owners
  BY DEF TypeInv, TypeOK, Operation
<1>2. UNCHANGED <<hardwareVars, diskVars>>
  BY DEF AcceptPolling
<1>3. \A k \in Lanes, o \in Owners : lane'[k][o].retry = lane[k][o].retry
  <2>1. lane["polling"][op.owner] \in LaneState /\ lane \in [Lanes -> [Owners -> LaneState]]
    BY <1>1 DEF TypeInv, TypeOK, Lanes
  <2>2. Accepted(lane["polling"][op.owner]).retry = lane["polling"][op.owner].retry
    BY <2>1 DEF Accepted, LaneState
  <2> QED
    BY <1>1, <2>1, <2>2 DEF AcceptPolling, Lanes
<1>4. RetriesAcknowledged' /\ PersistsOnlyAcknowledged'
  BY <1>2, <1>3 DEF AckInv, RetriesAcknowledged, PersistsOnlyAcknowledged, hardwareVars, diskVars
<1>5. CASE op' = NoOperation
  <2>1. op'.pc = "idle"
    BY <1>5 DEF NoOperation
  <2> QED
    BY <1>4, <2>1 DEF AckInv, SentIsStaged, HeldIsAcknowledged, Running
<1>6. CASE op' = [op EXCEPT !.pc = "record"]
  <2>1. /\ op.pc = "acked" /\ op'.pc = "record"
        /\ op'.value = op.value /\ op'.lane = op.lane /\ op'.kind = op.kind
    BY <1>1, <1>6 DEF AcceptPolling, Running, Operation
  <2> QED
    BY <1>2, <1>4, <2>1 DEF AckInv, SentIsStaged, HeldIsAcknowledged, Running, hardwareVars
<1> QED
  BY <1>5, <1>6 DEF AcceptPolling, Release

\* A completed operation leaves its value as the retry or the old retry.
LEMMA CompleteKeepsRetries ==
  ASSUME TypeInv, AckInv, op.pc \in {"acked", "record", "profile"}, UNCHANGED hardwareVars,
         NEW failed \in BOOLEAN, Complete(failed)
  PROVE  RetriesAcknowledged'
<1>1. op \in Operation /\ op.lane \in Lanes /\ op.owner \in Owners /\ op.value \in Values
  BY DEF TypeInv, TypeOK, Operation
<1>2. lane[op.lane][op.owner] \in LaneState /\ lane \in [Lanes -> [Owners -> LaneState]]
  BY <1>1 DEF TypeInv, TypeOK
<1>3. Completed(lane[op.lane][op.owner], failed).retry
        \in {lane[op.lane][op.owner].retry, NoValue, op.value}
  BY <1>1, <1>2, RetryOfChange
<1>4. \A n \in Devices : op.value \in acked[op.lane][n]
  BY DEF AckInv, HeldIsAcknowledged
<1>5. \A k \in Lanes, o \in Owners : ~(k = op.lane /\ o = op.owner) => lane'[k][o] = lane[k][o]
  BY <1>1, <1>2 DEF Complete
<1>6. lane'[op.lane][op.owner] = Completed(lane[op.lane][op.owner], failed)
  BY <1>1, <1>2 DEF Complete
<1> QED
  BY <1>3, <1>4, <1>5, <1>6 DEF AckInv, RetriesAcknowledged, hardwareVars, Owners

\* Saving writes the held value to the entry of the binding, whichever it is.
LEMMA WrittenIsAcknowledged ==
  ASSUME TypeInv, AckInv, op.pc \in {"record", "profile"}, NEW f \in PerMouse(Values),
         \A l \in Lanes, n \in Devices : f[l][n] \in acked[l][n]
  PROVE  \A l \in Lanes, n \in Devices :
           [f EXCEPT ![op.lane][op.binding.id] = op.value][l][n] \in acked[l][n]
<1>1. op.lane \in Lanes
  BY DEF TypeInv, TypeOK, Operation
<1>2. \A n \in Devices : op.value \in acked[op.lane][n]
  BY DEF AckInv, HeldIsAcknowledged
<1>3. f[op.lane] \in [Devices -> Values]
  BY <1>1 DEF PerMouse
<1> QED
  BY <1>1, <1>2, <1>3 DEF PerMouse

LEMMA SaveKeepsAck ==
  ASSUME TypeInv, AckInv, NEW ok \in BOOLEAN, ReselectDpi \/ SaveRecord(ok) \/ SaveProfile(ok)
  PROVE  AckInv'
<1>1. op \in Operation /\ record \in PerMouse(Values) /\ profile \in PerMouse(Values)
  BY DEF TypeInv, TypeOK
<1>2. UNCHANGED hardwareVars
  BY DEF ReselectDpi, SaveRecord, SaveProfile
<1>3. op.pc \in {"acked", "record", "profile"}
  BY DEF ReselectDpi, SaveRecord, SaveProfile, Running
<1>4. PersistsOnlyAcknowledged'
  <2>1. /\ \A l \in Lanes, n \in Devices : record[l][n] \in acked[l][n]
        /\ \A l \in Lanes, n \in Devices : profile[l][n] \in acked[l][n]
    BY DEF AckInv, PersistsOnlyAcknowledged
  <2>2. \A l \in Lanes, n \in Devices : record'[l][n] \in acked[l][n]
    BY <1>1, <2>1, WrittenIsAcknowledged DEF ReselectDpi, SaveRecord, SaveProfile, diskVars
  <2>3. \A l \in Lanes, n \in Devices : profile'[l][n] \in acked[l][n]
    BY <1>1, <2>1, WrittenIsAcknowledged DEF ReselectDpi, SaveRecord, SaveProfile, diskVars
  <2> QED
    BY <1>2, <2>2, <2>3 DEF PersistsOnlyAcknowledged, hardwareVars
<1>5. ASSUME NEW failed \in BOOLEAN, Complete(failed)
      PROVE  AckInv'
  <2>1. RetriesAcknowledged'
    BY <1>2, <1>3, <1>5, CompleteKeepsRetries
  <2>2. op'.pc = "idle"
    BY <1>5 DEF Complete, Release, NoOperation
  <2> QED
    BY <1>4, <2>1, <2>2 DEF AckInv, SentIsStaged, HeldIsAcknowledged, Running
<1>6. ASSUME UNCHANGED lane, op'.pc \in {"record", "profile"}, op'.value = op.value,
             op'.lane = op.lane, op'.kind = op.kind
      PROVE  AckInv'
  BY <1>2, <1>3, <1>4, <1>6
     DEF AckInv, RetriesAcknowledged, SentIsStaged, HeldIsAcknowledged, Running, hardwareVars, Owners
<1>7. CASE ReselectDpi
  <2>1. CASE selection = NoBinding
    BY <1>5, <1>7, <2>1 DEF ReselectDpi
  <2>2. CASE selection # NoBinding
    BY <1>1, <1>6, <1>7, <2>2 DEF ReselectDpi, Operation
  <2> QED
    BY <2>1, <2>2
<1>8. CASE SaveRecord(ok)
  <2>1. CASE ok \/ op.lane = "polling"
    BY <1>1, <1>6, <1>8, <2>1 DEF SaveRecord, Operation
  <2>2. CASE ~(ok \/ op.lane = "polling")
    BY <1>5, <1>8, <2>2 DEF SaveRecord
  <2> QED
    BY <2>1, <2>2
<1>9. CASE SaveProfile(ok)
  <2>1. (op.failed \/ ~ok) \in BOOLEAN
    BY <1>1 DEF Operation
  <2>2. Complete(op.failed \/ ~ok)
    BY <1>9 DEF SaveProfile
  <2> QED
    BY <1>5, <2>1, <2>2
<1> QED
  BY <1>7, <1>8, <1>9

AckTypeInv == TypeInv /\ PollingIsBound /\ AckInv

LEMMA AckStep ==
  ASSUME NEW m, Devices = {m}, AckTypeInv, [Next]_editVars
  PROVE  AckInv'
<1> USE DEF AckTypeInv
<1>1. CASE SelectDevice \/ StageEvent \/ \E l \in Lanes, v \in Values : Stage(l, v)
  BY <1>1, BetweenKeepsAck, FactoryAssumption DEF Lanes
<1>2. CASE \/ StartDpi \/ StartPolling \/ CaptureDraft \/ CheckBinding \/ CheckRevision
           \/ \E l \in Lanes : StartRetry(l) \/ CaptureRetry(l)
  BY <1>2, CaptureKeepsAck DEF Lanes
<1>3. CASE StageOnMouse
  BY <1>3, StageOnMouseKeepsAck
<1>4. CASE SendDpi \/ SendPolling
  BY <1>4, SendKeepsAck
<1>5. CASE AcceptPolling
  BY <1>5, AcceptKeepsAck
<1>6. CASE ReselectDpi \/ \E ok \in BOOLEAN : SaveRecord(ok) \/ SaveProfile(ok)
  BY <1>6, SaveKeepsAck
<1>7. CASE UNCHANGED editVars
  BY <1>7 DEF editVars, laneVars, hardwareVars, diskVars, AckInv, RetriesAcknowledged, SentIsStaged,
              HeldIsAcknowledged, PersistsOnlyAcknowledged, Running
<1> QED
  BY <1>1, <1>2, <1>3, <1>4, <1>5, <1>6, <1>7 DEF Next

LEMMA TypeInvHolds == Spec => [](TypeInv /\ PollingIsBound)
<1>1. Init => PollingIsBound
  BY DEF Init, NoOperation, PollingIsBound
<1>2. TypeInv /\ [Next]_editVars => TypeInv'
  BY TypeInvStep
<1>3. TypeInv /\ PollingIsBound /\ [Next]_editVars => PollingIsBound'
  BY PollingStaysBound
<1> QED
  BY <1>1, <1>2, <1>3, TypeInit, PTL DEF Spec

\* While one mouse is connected, neither its record nor its active profile
\* ever holds a setting it did not acknowledge.
THEOREM OneMousePersistsOnlyAcknowledged ==
  ASSUME NEW m, Devices = {m}
  PROVE  Spec => []PersistsOnlyAcknowledged
<1>1. TypeInv /\ PollingIsBound /\ AckInv /\ [Next]_editVars => AckInv'
  BY AckStep DEF AckTypeInv
<1>2. AckInv => PersistsOnlyAcknowledged
  BY DEF AckInv
<1> QED
  BY <1>1, <1>2, AckInit, TypeInvHolds, PTL DEF Spec

\* What an apply holds after the ACK is what the mouse of its lane state holds.
HeldByOwner ==
  /\ op.pc \in {"acked", "record", "profile"}
  /\ op.kind = "apply" \/ op.pc = "acked"
  /\ op.owner \in Devices
  => op.value = mouse[op.lane][op.owner]

\* The lanes whose applied value a step may move, and to what.
LEMMA AppliedMovesToAck ==
  ASSUME TypeInv, HeldByOwner, [Next]_editVars, NEW l \in Lanes, NEW n \in Devices,
         lane'[l][n].applied # lane[l][n].applied
  PROVE  lane'[l][n].applied = mouse[l][n]
<1>1. /\ op \in Operation /\ op.lane \in Lanes /\ op.owner \in Owners /\ op.value \in Values
      /\ Current \in Owners /\ lane \in [Lanes -> [Owners -> LaneState]] /\ n \in Owners
  BY CurrentIsOwner DEF TypeInv, TypeOK, Operation, Owners
<1>2. ~UNCHANGED lane
  OBVIOUS
<1>3. ASSUME NEW v \in Values, Stage(l, v) \/ \E k \in Lanes : Stage(k, v)
      PROVE  FALSE
  <2>1. PICK k \in Lanes : Stage(k, v)
    BY <1>3
  <2>2. Drafted(lane[k][Current], v).applied = lane[k][Current].applied
    <3>1. lane[k][Current] \in LaneState
      BY <1>1
    <3> QED
      BY <3>1 DEF Drafted, LaneState
  <2> QED
    BY <1>1, <2>1, <2>2 DEF Stage
<1>4. CASE StageEvent
  <2>1. selection.id \in Owners
    BY <1>4 DEF StageEvent, TypeInv, TypeOK, Bindings, Owners
  <2>2. lane["dpi"][selection.id] \in LaneState
    BY <1>1, <2>1 DEF Lanes
  <2>3. Undrafted(lane["dpi"][selection.id]).applied = lane["dpi"][selection.id].applied
    BY <2>2 DEF Undrafted, LaneState
  <2> QED
    BY <1>1, <1>4, <2>1, <2>3 DEF StageEvent, Lanes
<1>5. CASE SendPolling
  <2>1. lane["polling"][op.owner] \in LaneState
    BY <1>1 DEF Lanes
  <2>2. Refused(lane["polling"][op.owner]).applied = lane["polling"][op.owner].applied
    BY <2>1 DEF Refused, LaneState
  <2> QED
    BY <1>1, <1>2, <1>5, <2>2 DEF SendPolling, Lanes
<1>6. CASE AcceptPolling
  <2>1. op.pc = "acked" /\ op.lane = "polling"
    BY <1>6 DEF AcceptPolling, Running
  <2>2. lane["polling"][op.owner] \in LaneState
    BY <1>1 DEF Lanes
  <2>3. Accepted(lane["polling"][op.owner]).applied = op.value
    BY <1>1, <2>2 DEF Accepted, LaneState
  <2>4. lane' = [lane EXCEPT !["polling"][op.owner] = Accepted(lane["polling"][op.owner])]
    BY <1>2, <1>6 DEF AcceptPolling
  <2>5. l = "polling" /\ n = op.owner /\ lane'[l][n].applied = op.value
    BY <1>1, <2>3, <2>4 DEF Lanes
  <2> QED
    BY <2>1, <2>5 DEF HeldByOwner
<1>7. ASSUME NEW failed \in BOOLEAN, Complete(failed), op.pc \in {"acked", "record", "profile"}
      PROVE  lane'[l][n].applied = mouse[l][n]
  <2>1. lane[op.lane][op.owner] \in LaneState
    BY <1>1
  <2>2. \/ Completed(lane[op.lane][op.owner], failed).applied = lane[op.lane][op.owner].applied
        \/ op.kind = "apply" /\ Completed(lane[op.lane][op.owner], failed).applied = op.value
    BY <2>1 DEF Completed, LaneState
  <2>3. l = op.lane /\ n = op.owner /\ op.kind = "apply" /\ lane'[l][n].applied = op.value
    BY <1>1, <1>7, <2>2 DEF Complete
  <2> QED
    BY <1>7, <2>3 DEF HeldByOwner
<1>8. CASE ReselectDpi
  BY <1>2, <1>7, <1>8 DEF ReselectDpi, Running
<1>9. ASSUME NEW ok \in BOOLEAN, SaveRecord(ok)
      PROVE  lane'[l][n].applied = mouse[l][n]
  BY <1>2, <1>7, <1>9 DEF SaveRecord
<1>10. ASSUME NEW ok \in BOOLEAN, SaveProfile(ok)
       PROVE  lane'[l][n].applied = mouse[l][n]
  <2>1. (op.failed \/ ~ok) \in BOOLEAN
    BY <1>1 DEF Operation
  <2>2. Complete(op.failed \/ ~ok) /\ op.pc = "profile"
    BY <1>10 DEF SaveProfile
  <2> QED
    BY <1>7, <2>1, <2>2
<1>11. CASE SelectDevice \/ UNCHANGED editVars
  BY <1>2, <1>11 DEF SelectDevice, laneVars, editVars
<1>12. CASE \/ StartDpi \/ StageOnMouse \/ SendDpi \/ StartPolling \/ CaptureDraft \/ CheckBinding
            \/ CheckRevision \/ \E k \in Lanes : StartRetry(k) \/ CaptureRetry(k)
  BY <1>2, <1>12 DEF StartDpi, StageOnMouse, SendDpi, StartPolling, CaptureDraft, CheckBinding,
                     CheckRevision, StartRetry, CaptureRetry
<1> QED
  BY <1>3, <1>4, <1>5, <1>6, <1>8, <1>9, <1>10, <1>11, <1>12 DEF Next

\* While one mouse is connected, the applied value moves only to what that
\* mouse has acknowledged.
THEOREM OneMouseAppliedFollowsAck ==
  ASSUME NEW m, Devices = {m}
  PROVE  Spec => AppliedFollowsAck
<1>1. TypeInv /\ PollingIsBound /\ AckInv /\ [Next]_editVars => AckInv'
  BY AckStep DEF AckTypeInv
<1>2. TypeInv /\ PollingIsBound /\ AckInv /\ [Next]_editVars => [AppliedStep]_editVars
  BY AppliedMovesToAck DEF AckInv, HeldIsAcknowledged, HeldByOwner, AppliedStep
<1> QED
  BY <1>1, <1>2, AckInit, TypeInvHolds, PTL DEF Spec, AppliedFollowsAck

-----------------------------------------------------------------------------
(* A reported success of the polling lane, with one mouse                     *)

\* A binding carries the newest revision when it is made ...
SelectionIsCurrent == selection # NoBinding => selection.rev = rev

\* ... so the one an operation captured is the selection until a refresh.
BindingKnown ==
  op.lane = "polling" /\ op.pc # "idle" =>
    op.binding.rev <= rev /\ (op.binding.rev = rev => selection = op.binding)

\* The captured revision, while it is the lane's, names the captured draft; a draft
\* staged since then has taken back the success reported before.
CaptureCovers(m) ==
  LET s == lane["polling"][m]
  IN /\ op.revision <= s.revision
     /\ IF s.revision = op.revision THEN s.draft = op.value ELSE s.firmware # "success"

CaptureIsKnown ==
  \A m \in Devices :
    /\ Running("check", "polling") \/ Running("recheck", "polling") \/ Running("send", "polling") =>
         (op.binding.rev = rev => CaptureCovers(m))
    /\ Running("send", "polling") => (op.binding.rev = rev => op.owner = m)
    /\ Running("acked", "polling") => op.owner = m /\ CaptureCovers(m) /\ mouse["polling"][m] = op.value

TruthInv == SelectionIsCurrent /\ BindingKnown /\ CaptureIsKnown /\ PollingSuccessTruthful

LEMMA TruthInit == Init => TruthInv
<1> SUFFICES ASSUME Init PROVE TruthInv
  OBVIOUS
<1>1. selection = NoBinding /\ op.pc = "idle"
  BY DEF Init, SelectionInit, NoOperation
<1>2. \A m \in Devices : lane["polling"][m] = Fresh
  BY DEF Init, Lanes, Owners
<1>3. \A m \in Devices : lane["polling"][m].firmware # "success"
  <2>1. Fresh.firmware = ""
    BY DEF Fresh
  <2>2. "" # "success"
    OBVIOUS
  <2> QED BY <1>2, <2>1, <2>2
<1> QED BY <1>1, <1>3 DEF TruthInv, SelectionIsCurrent, BindingKnown, CaptureIsKnown, PollingSuccessTruthful, Running

\* What an operation knows holds of any step that leaves it and the polling lane.
LEMMA TruthFrame ==
  ASSUME TruthInv, UNCHANGED <<rev, selection, op>>, mouse'["polling"] = mouse["polling"],
         \A m \in Devices : lane'["polling"][m] = lane["polling"][m]
  PROVE  TruthInv'
BY DEF TruthInv, SelectionIsCurrent, BindingKnown, CaptureIsKnown, CaptureCovers, PollingSuccessTruthful, Running

\* With one mouse a selection within one revision names the mouse the binding names.
LEMMA SelectKeepsTruth ==
  ASSUME NEW m, Devices = {m}, TypeInv, PollingIsBound, TruthInv, SelectDevice
  PROVE  TruthInv'
<1>1. /\ rev \in Nat /\ UNCHANGED <<lane, mouse, op>>
      /\ op.lane = "polling" => op.binding \in Bindings /\ op.binding.rev \in Nat
  BY SelectionAssumption DEF TypeInv, TypeOK, PollingIsBound, Bindings, SelectDevice, laneVars, hardwareVars
<1>2. CASE Renew
  <2>1. rev' = rev + 1 /\ SelectionIsCurrent'
    BY <1>1, <1>2 DEF Renew, SelectionIsCurrent
  <2>2. op.lane = "polling" /\ op.pc # "idle" => op.binding.rev <= rev' /\ op.binding.rev # rev'
    BY <1>1, <2>1 DEF TruthInv, BindingKnown
  <2>3. BindingKnown' /\ CaptureIsKnown' /\ PollingSuccessTruthful'
    BY <1>1, <2>2 DEF TruthInv, BindingKnown, CaptureIsKnown, CaptureCovers, PollingSuccessTruthful, Running
  <2> QED BY <2>1, <2>3 DEF TruthInv
<1>3. ASSUME NEW d \in Devices, Choose(d)
      PROVE  TruthInv'
  <2>1. rev' = rev /\ selection' = [id |-> m, rev |-> rev] /\ SelectionIsCurrent'
    BY <1>3 DEF Choose, SelectionIsCurrent
  <2>2. op.lane = "polling" /\ op.binding.rev = rev => op.binding = [id |-> m, rev |-> rev]
    BY <1>1 DEF Bindings
  <2>3. BindingKnown' /\ CaptureIsKnown' /\ PollingSuccessTruthful'
    BY <1>1, <2>1, <2>2 DEF TruthInv, BindingKnown, CaptureIsKnown, CaptureCovers, PollingSuccessTruthful, Running
  <2> QED BY <2>1, <2>3 DEF TruthInv
<1> QED BY <1>2, <1>3 DEF SelectDevice, SelectionNext

\* A draft raises the revision past the captured one and takes a success back.
LEMMA StagedIsCovered ==
  ASSUME TypeInv, NEW l \in Lanes, NEW v \in Values, Stage(l, v) \/ StageEvent
  PROVE  /\ \A n \in Devices : CaptureCovers(n) => CaptureCovers(n)'
         /\ PollingSuccessTruthful => PollingSuccessTruthful'
<1>1. Current \in Owners /\ lane \in [Lanes -> [Owners -> LaneState]] /\ "polling" \in Lanes /\ "dpi" \in Lanes
  BY CurrentIsOwner DEF TypeInv, TypeOK, Lanes
<1>2. UNCHANGED <<op, mouse>>
  BY DEF Stage, StageEvent, hardwareVars
<1>3. CASE \A n \in Devices : lane'["polling"][n] = lane["polling"][n]
  BY <1>2, <1>3 DEF CaptureCovers, PollingSuccessTruthful
<1>4. CASE StageEvent
  BY <1>1, <1>3, <1>4 DEF StageEvent
<1>5. CASE Stage(l, v) /\ l # "polling"
  BY <1>1, <1>3, <1>5 DEF Stage
<1>6. CASE Stage(l, v) /\ l = "polling"
  <2> DEFINE s == lane["polling"][Current]
             t == Drafted(s, v)
  <2>1. s \in LaneState /\ s.revision \in Nat
    BY <1>1, RevisionIsNat
  <2>2. t.revision = s.revision + 1 /\ t.firmware = "pending"
    BY <2>1 DEF Drafted, LaneState
  <2>3. \A n \in Devices : IF n = Current THEN lane'["polling"][n] = t ELSE lane'["polling"][n] = lane["polling"][n]
    BY <1>1, <1>6 DEF Stage, Owners
  <2> HIDE DEF s, t
  <2>4. op.revision \in Nat
    BY EditBoundsAssumption DEF TypeInv, TypeOK, Operation
  <2>5. \A n \in Devices : CaptureCovers(n) => CaptureCovers(n)'
    BY <1>2, <2>1, <2>2, <2>3, <2>4 DEF CaptureCovers, s
  <2>6. PollingSuccessTruthful => PollingSuccessTruthful'
    BY <1>2, <2>2, <2>3 DEF PollingSuccessTruthful
  <2> QED BY <2>5, <2>6
<1> QED BY <1>4, <1>5, <1>6

LEMMA StageKeepsTruth ==
  ASSUME TypeInv, TruthInv, NEW l \in Lanes, NEW v \in Values, Stage(l, v) \/ StageEvent
  PROVE  TruthInv'
<1>1. UNCHANGED <<rev, selection, op, mouse>>
  BY DEF Stage, StageEvent, selectionVars, hardwareVars
<1>2. /\ \A n \in Devices : CaptureCovers(n) => CaptureCovers(n)'
      /\ PollingSuccessTruthful => PollingSuccessTruthful'
  BY StagedIsCovered
<1>3. CaptureIsKnown'
  BY <1>1, <1>2 DEF TruthInv, CaptureIsKnown, Running
<1>4. SelectionIsCurrent' /\ BindingKnown'
  BY <1>1 DEF TruthInv, SelectionIsCurrent, BindingKnown
<1> QED BY <1>2, <1>3, <1>4 DEF TruthInv

\* The steps that move only the operation.
LEMMA CaptureKeepsTruth ==
  ASSUME NEW m, Devices = {m}, TypeInv, PollingIsBound, TruthInv, NEW l \in Lanes,
         \/ StartDpi \/ StartPolling \/ StartRetry(l) \/ CaptureDraft \/ StageOnMouse
         \/ CheckBinding \/ CheckRevision \/ CaptureRetry(l)
  PROVE  TruthInv'
<1>1. UNCHANGED <<rev, selection, lane, mouse>>
  BY DEF StartDpi, StartPolling, StartRetry, CaptureDraft, CheckBinding, CheckRevision, CaptureRetry, StageOnMouse,
         selectionVars, hardwareVars
<1>2. SelectionIsCurrent' /\ PollingSuccessTruthful'
  BY <1>1 DEF TruthInv, SelectionIsCurrent, PollingSuccessTruthful
<1>3. /\ op \in Operation /\ lane \in [Lanes -> [Owners -> LaneState]]
      /\ selection \in Bindings \cup {NoBinding} /\ m \in Owners
  BY DEF TypeInv, TypeOK, Owners
<1>4. CASE op'.pc = "idle" \/ op'.lane = "dpi"
  BY <1>2, <1>4 DEF TruthInv, BindingKnown, CaptureIsKnown, Running
<1>5. CASE op'.pc = "capture" /\ op'.lane = "polling" /\ op'.binding = selection /\ selection # NoBinding
  <2>1. selection.rev = rev /\ rev \in Nat
    BY <1>5, SelectionAssumption DEF TruthInv, SelectionIsCurrent, TypeInv, TypeOK
  <2>3. BindingKnown'
    BY <1>1, <1>5, <2>1 DEF BindingKnown
  <2>2. CaptureIsKnown'
    BY <1>5 DEF CaptureIsKnown, Running
  <2> QED BY <1>2, <2>2, <2>3 DEF TruthInv
<1>6. ASSUME op.lane = "polling", op.pc # "idle", op'.lane = op.lane, op'.binding = op.binding
      PROVE  BindingKnown'
  BY <1>1, <1>6 DEF TruthInv, BindingKnown
<1>7. CASE op'.pc \in {"record", "profile"} /\ op.lane = "polling" /\ op.pc # "idle" /\ op'.lane = op.lane
           /\ op'.binding = op.binding
  BY <1>2, <1>6, <1>7 DEF TruthInv, CaptureIsKnown, Running
<1>8. CASE CaptureDraft
  <2>1. /\ op'.pc = "check" /\ op.pc = "capture" /\ op.lane = "polling" /\ op'.lane = op.lane /\ op'.binding = op.binding
        /\ op'.value = lane["polling"][Current].draft /\ op'.revision = lane["polling"][Current].revision
    BY <1>3, <1>8 DEF CaptureDraft, Running, Operation
  <2>2. op.binding.rev = rev => Current = m
    BY <2>1, SelectionAssumption DEF TruthInv, BindingKnown, PollingIsBound, Current, Bindings
  <2>3. lane["polling"][m].revision \in Nat
    BY <1>3, RevisionIsNat DEF Lanes
  <2>4. op.binding.rev = rev => CaptureCovers(m)'
    BY <1>1, <2>1, <2>2, <2>3 DEF CaptureCovers
  <2>5. CaptureIsKnown'
    BY <1>1, <2>1, <2>4 DEF CaptureIsKnown, Running
  <2> QED BY <1>2, <1>6, <2>1, <2>5 DEF TruthInv
<1>9. CASE CheckBinding /\ op' = [op EXCEPT !.pc = "recheck"]
  <2>1. /\ op'.pc = "recheck" /\ op.pc = "check" /\ op.lane = "polling" /\ op'.lane = op.lane
        /\ op'.binding = op.binding /\ op'.value = op.value /\ op'.revision = op.revision
    BY <1>3, <1>9 DEF CheckBinding, Running, Operation
  <2>2. CaptureIsKnown'
    BY <1>1, <2>1 DEF TruthInv, CaptureIsKnown, CaptureCovers, Running
  <2> QED BY <1>2, <1>6, <2>1, <2>2 DEF TruthInv
<1>10. CASE CheckRevision /\ op' = [op EXCEPT !.pc = "send", !.owner = Current]
  <2>1. /\ op'.pc = "send" /\ op.pc = "recheck" /\ op.lane = "polling" /\ op'.lane = op.lane
        /\ op'.binding = op.binding /\ op'.value = op.value /\ op'.revision = op.revision /\ op'.owner = Current
    BY <1>3, <1>10 DEF CheckRevision, Running, Operation
  <2>2. op.binding.rev = rev => Current = m
    BY <2>1, SelectionAssumption DEF TruthInv, BindingKnown, PollingIsBound, Current, Bindings
  <2>3. CaptureIsKnown'
    BY <1>1, <2>1, <2>2 DEF TruthInv, CaptureIsKnown, CaptureCovers, Running
  <2> QED BY <1>2, <1>6, <2>1, <2>3 DEF TruthInv
<1>11. CASE StartDpi \/ StageOnMouse
  <2>1. CASE StartDpi
    BY <1>4, <2>1 DEF StartDpi, NoOperation
  <2>2. CASE StageOnMouse
    BY <1>3, <1>4, <2>2 DEF StageOnMouse, NoOperation, Release, Running, Operation
  <2> QED BY <1>11, <2>1, <2>2
<1>12. CASE StartPolling \/ StartRetry(l)
  BY <1>4, <1>5, <1>12 DEF StartPolling, StartRetry, NoOperation, Lanes
<1>13. CASE CaptureRetry(l)
  <2>1. CASE op' = NoOperation
    BY <1>4, <2>1 DEF NoOperation
  <2>2. CASE op' # NoOperation
    BY <1>3, <1>4, <1>7, <1>13, <2>2 DEF CaptureRetry, Release, Running, Operation, Lanes
  <2> QED BY <2>1, <2>2
<1>14. CASE op' = NoOperation
  BY <1>4, <1>14 DEF NoOperation
<1> QED BY <1>8, <1>9, <1>10, <1>11, <1>12, <1>13, <1>14 DEF CheckBinding, CheckRevision, Release

\* The write answers for the captured draft, or takes a success back.
LEMMA SendKeepsTruth ==
  ASSUME NEW m, Devices = {m}, TypeInv, PollingIsBound, TruthInv, SendDpi \/ SendPolling
  PROVE  TruthInv'
<1>1. /\ op \in Operation /\ op.owner \in Owners /\ op.value \in Values /\ m \in Owners /\ "polling" \in Lanes
      /\ lane \in [Lanes -> [Owners -> LaneState]] /\ mouse \in [Lanes -> [Devices -> Values]]
  BY DEF TypeInv, TypeOK, Operation, Owners, PerMouse, Lanes
<1>2. UNCHANGED <<rev, selection>>
  BY DEF SendDpi, SendPolling, selectionVars
<1>3. SelectionIsCurrent'
  BY <1>2 DEF TruthInv, SelectionIsCurrent
<1>4. CASE SendDpi
  <2>1. op.lane = "dpi" /\ lane' = lane /\ (op'.lane = "dpi" \/ op'.pc = "idle")
    BY <1>1, <1>4 DEF SendDpi, Running, Release, NoOperation, Operation
  <2>2. mouse'["polling"] = mouse["polling"]
    BY <1>1, <1>4 DEF SendDpi, Acknowledge
  <2>3. BindingKnown' /\ CaptureIsKnown' /\ PollingSuccessTruthful'
    BY <2>1, <2>2 DEF TruthInv, BindingKnown, CaptureIsKnown, PollingSuccessTruthful, Running
  <2> QED BY <1>3, <2>3 DEF TruthInv
<1>5. CASE /\ SendPolling /\ selection = op.binding
           /\ Acknowledge("polling", op.binding.id, op.value)
           /\ op' = [op EXCEPT !.pc = "acked"]
           /\ UNCHANGED lane
  <2>1. op.pc = "send" /\ op.lane = "polling" /\ op.binding.id = m /\ op.binding.rev = rev
    BY <1>5, SelectionAssumption DEF SendPolling, Running, PollingIsBound, Bindings, TruthInv, SelectionIsCurrent
  <2>2. op.owner = m /\ CaptureCovers(m)
    BY <2>1 DEF TruthInv, CaptureIsKnown, Running
  <2>3. mouse'["polling"][m] = op.value
    BY <1>1, <1>5, <2>1 DEF Acknowledge
  <2>4. /\ op'.pc = "acked" /\ op'.lane = "polling" /\ op'.owner = m /\ op'.value = op.value
        /\ op'.revision = op.revision /\ op'.binding = op.binding
    BY <1>1, <1>5, <2>1, <2>2 DEF Operation
  <2>5. CaptureIsKnown' /\ BindingKnown'
    BY <1>2, <1>5, <2>1, <2>2, <2>3, <2>4 DEF TruthInv, CaptureIsKnown, BindingKnown, CaptureCovers, Running
  <2>6. PollingSuccessTruthful'
    BY <1>5, <2>2, <2>3 DEF TruthInv, PollingSuccessTruthful, CaptureCovers
  <2> QED BY <1>3, <2>5, <2>6 DEF TruthInv
<1>6. CASE /\ lane' = [lane EXCEPT !["polling"][op.owner] = Refused(lane["polling"][op.owner])]
           /\ Release
           /\ UNCHANGED <<mouse, acked>>
  <2>1. op'.pc = "idle"
    BY <1>6 DEF Release, NoOperation
  <2>2. lane["polling"][op.owner] \in LaneState
    BY <1>1
  <2>3. Refused(lane["polling"][op.owner]).firmware = "failed"
    BY <2>2 DEF Refused, LaneState
  <2>4. lane'["polling"][m] = lane["polling"][m] \/ lane'["polling"][m].firmware = "failed"
    BY <1>1, <1>6, <2>3
  <2>5. PollingSuccessTruthful'
    BY <1>6, <2>4 DEF TruthInv, PollingSuccessTruthful
  <2> QED BY <1>3, <2>1, <2>5 DEF TruthInv, BindingKnown, CaptureIsKnown, Running
<1> QED BY <1>4, <1>5, <1>6 DEF SendPolling

\* A success is reported only for the revision that was captured.
LEMMA AcceptKeepsTruth ==
  ASSUME NEW m, Devices = {m}, TypeInv, PollingIsBound, TruthInv, AcceptPolling
  PROVE  TruthInv'
<1>1. /\ op \in Operation /\ m \in Owners /\ "polling" \in Lanes /\ lane \in [Lanes -> [Owners -> LaneState]]
  BY DEF TypeInv, TypeOK, Owners, Lanes
<1>2. UNCHANGED <<rev, selection, mouse>>
  BY DEF AcceptPolling, selectionVars, hardwareVars
<1>3. op.owner = m /\ CaptureCovers(m) /\ mouse["polling"][m] = op.value
  BY DEF AcceptPolling, TruthInv, CaptureIsKnown
<1>4. SelectionIsCurrent'
  BY <1>2 DEF TruthInv, SelectionIsCurrent
<1>5. CASE op' = NoOperation /\ lane' = lane
  BY <1>2, <1>4, <1>5 DEF NoOperation, TruthInv, BindingKnown, CaptureIsKnown, PollingSuccessTruthful, Running
<1>6. CASE /\ lane["polling"][op.owner].revision = op.revision
           /\ lane' = [lane EXCEPT !["polling"][op.owner] = Accepted(lane["polling"][op.owner])]
           /\ op' = [op EXCEPT !.pc = "record"]
  <2>1. op'.pc = "record" /\ op'.lane = "polling" /\ op'.binding = op.binding /\ op.lane = "polling" /\ op.pc = "acked"
    BY <1>1, <1>6 DEF AcceptPolling, Running, Operation
  <2>2. lane["polling"][m] \in LaneState
    BY <1>1
  <2>3. /\ Accepted(lane["polling"][m]).applied = op.value
        /\ Accepted(lane["polling"][m]).draft = lane["polling"][m].draft
    BY <2>2 DEF Accepted, LaneState
  <2>4. lane'["polling"][m] = Accepted(lane["polling"][m]) /\ lane["polling"][m].draft = op.value
    BY <1>1, <1>3, <1>6 DEF CaptureCovers
  <2>5. PollingSuccessTruthful'
    BY <1>2, <1>3, <2>3, <2>4 DEF PollingSuccessTruthful
  <2>6. BindingKnown' /\ CaptureIsKnown'
    BY <1>2, <2>1 DEF TruthInv, BindingKnown, CaptureIsKnown, Running
  <2> QED BY <1>4, <2>5, <2>6 DEF TruthInv
<1> QED BY <1>5, <1>6 DEF AcceptPolling, Release

\* Saving changes neither what is shown of the polling lane nor the mouse.
LEMMA SaveKeepsTruth ==
  ASSUME TypeInv, PollingIsBound, TruthInv, NEW ok \in BOOLEAN, ReselectDpi \/ SaveRecord(ok) \/ SaveProfile(ok)
  PROVE  TruthInv'
<1>1. /\ op \in Operation /\ op.owner \in Owners /\ op.lane \in Lanes /\ lane \in [Lanes -> [Owners -> LaneState]]
  BY DEF TypeInv, TypeOK, Operation
<1>2. UNCHANGED <<rev, selection, mouse>>
  BY DEF ReselectDpi, SaveRecord, SaveProfile, selectionVars, hardwareVars
<1>3. SelectionIsCurrent'
  BY <1>2 DEF TruthInv, SelectionIsCurrent
<1>4. ASSUME NEW failed \in BOOLEAN, Complete(failed)
      PROVE  TruthInv'
  <2> DEFINE s == lane[op.lane][op.owner]
             t == Completed(s, failed)
  <2>1. op'.pc = "idle"
    BY <1>4 DEF Complete, Release, NoOperation
  <2>2. op.lane = "polling" => t.draft = s.draft /\ t.applied = s.applied /\ t.firmware = s.firmware
    <3>1. s \in LaneState
      BY <1>1
    <3> QED BY <3>1 DEF Completed, LaneState
  <2>3. lane' = [lane EXCEPT ![op.lane][op.owner] = t]
    BY <1>4 DEF Complete
  <2> HIDE DEF t
  <2>4. \A m \in Devices : /\ lane'["polling"][m].draft = lane["polling"][m].draft
                           /\ lane'["polling"][m].applied = lane["polling"][m].applied
                           /\ lane'["polling"][m].firmware = lane["polling"][m].firmware
    BY <1>1, <2>2, <2>3 DEF Lanes, Owners
  <2>5. PollingSuccessTruthful'
    BY <1>2, <2>4 DEF TruthInv, PollingSuccessTruthful
  <2> QED BY <1>3, <2>1, <2>5 DEF TruthInv, BindingKnown, CaptureIsKnown, Running
<1>5. ASSUME lane' = lane, op'.pc \in {"record", "profile"}, op.pc # "idle", op'.lane = op.lane,
             op.lane = "polling" => op'.binding = op.binding
      PROVE  TruthInv'
  BY <1>2, <1>3, <1>5 DEF TruthInv, BindingKnown, CaptureIsKnown, PollingSuccessTruthful, Running
<1>6. CASE ReselectDpi
  <2>1. CASE Complete(FALSE)
    BY <1>4, <2>1
  <2>2. CASE op' = [op EXCEPT !.pc = "record", !.binding = selection] /\ UNCHANGED lane
    BY <1>1, <1>5, <1>6, <2>2 DEF ReselectDpi, Running, Operation
  <2> QED BY <1>6, <2>1, <2>2 DEF ReselectDpi
<1>7. CASE SaveRecord(ok)
  <2>1. CASE Complete(TRUE)
    BY <1>4, <2>1
  <2>2. CASE op' = [op EXCEPT !.pc = "profile", !.failed = ~ok] /\ UNCHANGED lane
    BY <1>1, <1>5, <1>7, <2>2 DEF SaveRecord, Operation
  <2> QED BY <1>7, <2>1, <2>2 DEF SaveRecord
<1>8. CASE SaveProfile(ok)
  <2>1. (op.failed \/ ~ok) \in BOOLEAN
    BY <1>1 DEF Operation
  <2>2. Complete(op.failed \/ ~ok)
    BY <1>8 DEF SaveProfile
  <2> QED BY <1>4, <2>1, <2>2
<1> QED BY <1>6, <1>7, <1>8

LEMMA TruthStep ==
  ASSUME NEW m, Devices = {m}, TypeInv, PollingIsBound, TruthInv, [Next]_editVars
  PROVE  TruthInv'
<1>1. CASE SelectDevice
  BY <1>1, SelectKeepsTruth
<1>2. CASE StageEvent \/ \E l \in Lanes, v \in Values : Stage(l, v)
  BY <1>2, StageKeepsTruth, FactoryAssumption DEF Lanes
<1>3. CASE \/ StartDpi \/ StartPolling \/ CaptureDraft \/ StageOnMouse \/ CheckBinding \/ CheckRevision
           \/ \E l \in Lanes : StartRetry(l) \/ CaptureRetry(l)
  BY <1>3, CaptureKeepsTruth DEF Lanes
<1>4. CASE SendDpi \/ SendPolling
  BY <1>4, SendKeepsTruth
<1>5. CASE AcceptPolling
  BY <1>5, AcceptKeepsTruth
<1>6. CASE ReselectDpi \/ \E ok \in BOOLEAN : SaveRecord(ok) \/ SaveProfile(ok)
  BY <1>6, SaveKeepsTruth
<1>7. CASE UNCHANGED editVars
  BY <1>7, TruthFrame DEF editVars, laneVars, hardwareVars, selectionVars
<1> QED BY <1>1, <1>2, <1>3, <1>4, <1>5, <1>6, <1>7 DEF Next

\* While one mouse is connected, a polling rate reported as applied is the one
\* shown and the one the mouse acknowledged, whatever is staged, refreshed or
\* selected between the capture, the write and its acknowledgement.
THEOREM OneMousePollingTruthful ==
  ASSUME NEW m, Devices = {m}
  PROVE  Spec => []PollingSuccessTruthful
<1>1. TypeInv /\ PollingIsBound /\ TruthInv /\ [Next]_editVars => TruthInv'
  BY TruthStep
<1>2. TruthInv => PollingSuccessTruthful
  BY DEF TruthInv
<1> QED BY <1>1, <1>2, TruthInit, TypeInvHolds, PTL DEF Spec

-----------------------------------------------------------------------------
(* Several mice, while each operation runs under one selected mouse           *)

\* During an operation no step selects another mouse, or stops selecting one.
\* Refreshes, drafts and stage events stay as they are.
SelectionKept == op.pc # "idle" => Current' = Current
SteadySpec == Init /\ [][Next /\ SelectionKept]_editVars

\* An operation reads, sends and saves under the mouse that is selected ...
NamesCurrent ==
  op.pc # "idle" =>
    /\ op.lane = "polling" \/ op.kind = "retry" \/ op.pc \in {"record", "profile"} =>
         op.binding \in Bindings /\ op.binding.id = Current
    /\ op.pc \in {"stage", "send", "acked", "record", "profile"} => op.owner = Current
    /\ op.pc \in {"send", "acked", "record", "profile"} => Current \in Devices

\* ... so what it holds is that mouse's, as are the retries of every mouse.
OwnRetries == \A l \in Lanes, n \in Devices : lane[l][n].retry \in acked[l][n] \cup {NoValue}

HeldByCurrent ==
  /\ Running("send", "dpi") => staged[Current] = op.value
  /\ op.pc \in {"acked", "record", "profile"} =>
       /\ op.value \in acked[op.lane][Current]
       /\ op.kind = "apply" \/ op.pc = "acked" => op.value = mouse[op.lane][Current]

CoversCurrent ==
  op.lane = "polling" /\ op.pc \in {"check", "recheck", "send", "acked"} => CaptureCovers(Current)

SteadyInv ==
  /\ NamesCurrent /\ OwnRetries /\ HeldByCurrent /\ CoversCurrent
  /\ PersistsOnlyAcknowledged /\ PollingSuccessTruthful

LEMMA SteadyInit == Init => SteadyInv
<1> SUFFICES ASSUME Init PROVE SteadyInv
  OBVIOUS
<1>1. op.pc = "idle"
  BY DEF Init, NoOperation
<1>2. AckInv /\ TruthInv
  BY AckInit, TruthInit
<1> QED BY <1>1, <1>2 DEF SteadyInv, NamesCurrent, OwnRetries, HeldByCurrent, CoversCurrent, Running,
                          AckInv, TruthInv, RetriesAcknowledged, Owners

LEMMA CurrentIsSelected ==
  ASSUME TypeInv
  PROVE  /\ Current \in Devices <=> selection # NoBinding
         /\ selection # NoBinding => selection \in Bindings /\ Current = selection.id
BY OwnersAssumption DEF TypeInv, TypeOK, Current, Bindings

\* An idle operation holds nothing, so only the lanes and the disk matter.
LEMMA IdleIsSteady ==
  ASSUME op'.pc = "idle", OwnRetries', PersistsOnlyAcknowledged', PollingSuccessTruthful'
  PROVE  SteadyInv'
BY DEF SteadyInv, NamesCurrent, HeldByCurrent, CoversCurrent, Running

LEMMA BetweenKeepsSteady ==
  ASSUME TypeInv, SteadyInv, SelectionKept, NEW l \in Lanes, NEW v \in Values,
         SelectDevice \/ StageEvent \/ Stage(l, v)
  PROVE  SteadyInv'
<1>1. UNCHANGED <<staged, mouse, acked, record, profile, op>>
  BY DEF SelectDevice, laneVars, StageEvent, Stage, hardwareVars, diskVars
<1>2. \A k \in Lanes, o \in Owners : lane'[k][o].retry \in {lane[k][o].retry, NoValue}
  BY BetweenKeepsRetries
<1>3. OwnRetries' /\ PersistsOnlyAcknowledged'
  BY <1>1, <1>2 DEF SteadyInv, OwnRetries, PersistsOnlyAcknowledged, Owners
<1>4. /\ \A n \in Devices : CaptureCovers(n) => CaptureCovers(n)'
      /\ PollingSuccessTruthful'
  <2>1. CASE SelectDevice
    BY <1>1, <2>1 DEF SelectDevice, laneVars, CaptureCovers, PollingSuccessTruthful, SteadyInv
  <2>2. CASE StageEvent \/ Stage(l, v)
    BY <2>2, StagedIsCovered DEF SteadyInv
  <2> QED BY <2>1, <2>2
<1>5. CASE op.pc = "idle"
  BY <1>1, <1>3, <1>4, <1>5, IdleIsSteady
<1>6. CASE op.pc # "idle"
  <2>1. Current' = Current
    BY <1>6 DEF SelectionKept
  <2>2. NamesCurrent' /\ HeldByCurrent'
    BY <1>1, <2>1 DEF SteadyInv, NamesCurrent, HeldByCurrent, Running, Bindings
  <2>3. CASE op.lane = "polling" /\ op.pc \in {"check", "recheck", "send", "acked"}
    <3>1. Current \in Devices /\ CaptureCovers(Current)
      BY <2>3 DEF SteadyInv, NamesCurrent, CoversCurrent, Bindings
    <3> DEFINE c == Current
    <3>2. c' = c
      BY <2>1
    <3>3. \A n \in Devices : n = Current => CaptureCovers(n)'
      BY <1>4, <3>1
    <3>4. CoversCurrent'
      BY <2>1, <3>1, <3>3 DEF CoversCurrent, CaptureCovers
    <3> QED BY <1>3, <1>4, <2>2, <3>4 DEF SteadyInv
  <2>4. CASE ~(op.lane = "polling" /\ op.pc \in {"check", "recheck", "send", "acked"})
    <3>1. CoversCurrent'
      BY <1>1, <2>4 DEF CoversCurrent
    <3> QED BY <1>3, <1>4, <2>2, <3>1 DEF SteadyInv
  <2> QED BY <2>3, <2>4
<1> QED BY <1>5, <1>6

\* Starting and capturing move only the operation, and read the selected mouse.
LEMMA CaptureKeepsSteady ==
  ASSUME TypeInv, SteadyInv, NEW l \in Lanes,
         \/ StartDpi \/ StartPolling \/ StartRetry(l) \/ CaptureDraft
         \/ CheckBinding \/ CheckRevision \/ CaptureRetry(l)
  PROVE  SteadyInv'
<1>1. UNCHANGED <<rev, selection, lane, staged, mouse, acked, record, profile>>
  BY DEF StartDpi, StartPolling, StartRetry, CaptureDraft, CheckBinding, CheckRevision, CaptureRetry,
         selectionVars, hardwareVars, diskVars
<1>2. OwnRetries' /\ PersistsOnlyAcknowledged' /\ PollingSuccessTruthful' /\ Current' = Current
  BY <1>1 DEF SteadyInv, OwnRetries, PersistsOnlyAcknowledged, PollingSuccessTruthful, Current
<1>3. /\ op \in Operation /\ Current \in Owners /\ lane \in [Lanes -> [Owners -> LaneState]]
      /\ "polling" \in Lanes /\ "dpi" # "polling"
  BY CurrentIsOwner DEF TypeInv, TypeOK, Lanes
<1>4. CASE op' = NoOperation
  BY <1>2, <1>4, IdleIsSteady DEF NoOperation
<1>5. CASE StartDpi
  <2>1. op'.pc = "stage" /\ op'.lane = "dpi" /\ op'.kind = "apply" /\ op'.owner = Current
    BY <1>5 DEF StartDpi, NoOperation
  <2> QED BY <1>2, <2>1 DEF SteadyInv, NamesCurrent, HeldByCurrent, CoversCurrent, Running
<1>6. CASE StartPolling \/ StartRetry(l)
  <2>1. op'.pc = "capture" /\ op'.binding = selection /\ selection # NoBinding
    BY <1>6 DEF StartPolling, StartRetry, NoOperation
  <2>2. op'.binding \in Bindings /\ op'.binding.id = Current
    BY <2>1, CurrentIsSelected
  <2> QED BY <1>2, <2>1, <2>2 DEF SteadyInv, NamesCurrent, HeldByCurrent, CoversCurrent, Running, Bindings
<1>7. CASE CaptureDraft
  <2>1. /\ op.pc = "capture" /\ op.lane = "polling"
        /\ op'.pc = "check" /\ op'.lane = op.lane /\ op'.binding = op.binding
        /\ op'.value = lane["polling"][Current].draft /\ op'.revision = lane["polling"][Current].revision
    BY <1>3, <1>7 DEF CaptureDraft, Running, Operation
  <2>2. lane["polling"][Current].revision \in Nat
    BY <1>3, RevisionIsNat
  <2>3. CoversCurrent'
    BY <1>1, <1>2, <2>1, <2>2 DEF CoversCurrent, CaptureCovers
  <2>4. NamesCurrent' /\ HeldByCurrent'
    BY <1>2, <2>1 DEF SteadyInv, NamesCurrent, HeldByCurrent, Running, Bindings
  <2> QED BY <1>2, <2>3, <2>4 DEF SteadyInv
<1>8. CASE CheckBinding /\ op' # NoOperation
  <2>1. /\ op.pc = "check" /\ op.lane = "polling" /\ op'.pc = "recheck" /\ op'.lane = op.lane
        /\ op'.binding = op.binding /\ op'.value = op.value /\ op'.revision = op.revision
    BY <1>3, <1>8 DEF CheckBinding, Release, Running, Operation
  <2>2. CoversCurrent'
    BY <1>1, <1>2, <2>1 DEF SteadyInv, CoversCurrent, CaptureCovers
  <2>3. NamesCurrent' /\ HeldByCurrent'
    BY <1>2, <2>1 DEF SteadyInv, NamesCurrent, HeldByCurrent, Running, Bindings
  <2> QED BY <1>2, <2>2, <2>3 DEF SteadyInv
<1>9. CASE CheckRevision /\ op' # NoOperation
  <2>1. /\ op.pc = "recheck" /\ op.lane = "polling" /\ op'.pc = "send" /\ op'.lane = op.lane
        /\ op'.binding = op.binding /\ op'.value = op.value /\ op'.revision = op.revision /\ op'.owner = Current
    BY <1>3, <1>9 DEF CheckRevision, Release, Running, Operation
  <2>2. CoversCurrent'
    BY <1>1, <1>2, <2>1 DEF SteadyInv, CoversCurrent, CaptureCovers
  <2>3. NamesCurrent' /\ HeldByCurrent'
    BY <1>2, <1>3, <2>1 DEF SteadyInv, NamesCurrent, HeldByCurrent, Running, Bindings
  <2> QED BY <1>2, <2>2, <2>3 DEF SteadyInv
<1>10. CASE CaptureRetry(l) /\ op' # NoOperation
  <2>1. /\ op.pc = "capture" /\ op.lane = l /\ op.kind = "retry" /\ op'.kind = "retry" /\ op'.lane = l
        /\ op'.pc = "record" /\ op'.binding = op.binding /\ op'.owner = Current
        /\ op'.value = lane[l][Current].retry /\ op'.value # NoValue
    BY <1>3, <1>10 DEF CaptureRetry, Release, Running, Operation
  <2>2. op.binding \in Bindings /\ op.binding.id = Current /\ Current \in Devices
    BY <2>1 DEF SteadyInv, NamesCurrent, Bindings
  <2>3. op'.value \in acked[l][Current]
    BY <2>1, <2>2 DEF SteadyInv, OwnRetries
  <2> QED BY <1>1, <1>2, <2>1, <2>2, <2>3 DEF SteadyInv, NamesCurrent, HeldByCurrent, CoversCurrent, Running, Bindings
<1> QED BY <1>4, <1>5, <1>6, <1>7, <1>8, <1>9, <1>10

\* The value is staged on the selected mouse, and that mouse acknowledges it.
LEMMA StageOnMouseKeepsSteady ==
  ASSUME TypeInv, SteadyInv, StageOnMouse
  PROVE  SteadyInv'
<1>1. UNCHANGED <<rev, selection, lane, mouse, acked, record, profile>>
  BY DEF StageOnMouse, selectionVars, diskVars
<1>2. OwnRetries' /\ PersistsOnlyAcknowledged' /\ PollingSuccessTruthful' /\ Current' = Current
  BY <1>1 DEF SteadyInv, OwnRetries, PersistsOnlyAcknowledged, PollingSuccessTruthful, Current
<1>3. op \in Operation /\ staged \in [Devices -> Values \cup {NoValue}]
  BY DEF TypeInv, TypeOK
<1>4. CASE op' = NoOperation
  BY <1>2, <1>4, IdleIsSteady DEF NoOperation
<1>5. CASE op' # NoOperation
  <2>1. selection # NoBinding /\ staged' = [staged EXCEPT ![selection.id] = op.value]
    BY <1>5 DEF StageOnMouse, Release
  <2>2. Current \in Devices /\ Current = selection.id
    BY <2>1, CurrentIsSelected
  <2>3. /\ op.pc = "stage" /\ op.lane = "dpi" /\ op'.pc = "send" /\ op'.lane = "dpi" /\ op'.kind = op.kind
        /\ op'.owner = op.owner /\ op'.binding = op.binding /\ op'.value = op.value
    BY <1>3, <1>5 DEF StageOnMouse, Release, Running, Operation
  <2>4. staged'[Current] = op.value
    BY <1>3, <2>1, <2>2
  <2>5. NamesCurrent' /\ HeldByCurrent' /\ CoversCurrent'
    BY <1>2, <2>2, <2>3, <2>4 DEF SteadyInv, NamesCurrent, HeldByCurrent, CoversCurrent, Running, Bindings
  <2> QED BY <1>2, <2>5 DEF SteadyInv
<1> QED BY <1>4, <1>5

LEMMA SendKeepsSteady ==
  ASSUME TypeInv, SteadyInv, SendDpi \/ SendPolling
  PROVE  SteadyInv'
<1>1. UNCHANGED <<rev, selection, record, profile>> /\ Current' = Current
  BY DEF SendDpi, SendPolling, selectionVars, diskVars, Current
<1>2. /\ op \in Operation /\ op.value \in Values /\ op.lane \in Lanes /\ op.owner = Current /\ Current \in Devices
      /\ Current \in Owners /\ "polling" \in Lanes /\ lane \in [Lanes -> [Owners -> LaneState]] /\ op.pc = "send"
  BY DEF SendDpi, SendPolling, Running, SteadyInv, NamesCurrent, TypeInv, TypeOK, Operation, Owners, Lanes
<1>3. CASE op' = NoOperation /\ UNCHANGED <<lane, mouse, acked>>
  BY <1>1, <1>3, IdleIsSteady DEF NoOperation, SteadyInv, OwnRetries, PersistsOnlyAcknowledged, PollingSuccessTruthful
<1>4. CASE /\ lane' = [lane EXCEPT !["polling"][op.owner] = Refused(lane["polling"][op.owner])]
           /\ op' = NoOperation
           /\ UNCHANGED <<mouse, acked>>
  <2> DEFINE s == lane["polling"][Current]
             t == Refused(s)
  <2>1. t.firmware = "failed" /\ t.retry = s.retry
    <3>1. s \in LaneState
      BY <1>2
    <3> QED BY <3>1 DEF Refused, LaneState
  <2> HIDE DEF t
  <2>2. lane' = [lane EXCEPT !["polling"][Current] = t]
    BY <1>2, <1>4 DEF t
  <2>3. lane'["polling"][Current] = t
    BY <1>2, <2>2
  <2>4. \A l \in Lanes, n \in Devices : lane'[l][n] = lane[l][n] \/ (l = "polling" /\ n = Current)
    BY <1>2, <2>2 DEF Owners
  <2>5. OwnRetries'
    BY <1>2, <1>4, <2>1, <2>3, <2>4 DEF SteadyInv, OwnRetries
  <2>6. PollingSuccessTruthful'
    BY <1>2, <1>4, <2>1, <2>3, <2>4 DEF SteadyInv, PollingSuccessTruthful
  <2>7. PersistsOnlyAcknowledged' /\ op'.pc = "idle"
    BY <1>1, <1>4 DEF SteadyInv, PersistsOnlyAcknowledged, NoOperation
  <2> QED BY <2>5, <2>6, <2>7, IdleIsSteady
<1>5. CASE Acknowledge(op.lane, Current, op.value) /\ op' = [op EXCEPT !.pc = "acked"] /\ UNCHANGED lane
  <2>1. /\ mouse'[op.lane][Current] = op.value
        /\ op.value \in acked'[op.lane][Current]
        /\ \A k \in Lanes, n \in Devices : acked[k][n] \subseteq acked'[k][n]
    BY <1>2, <1>5, AcknowledgeAdds DEF TypeInv
  <2>2. /\ op'.pc = "acked" /\ op'.value = op.value /\ op'.lane = op.lane /\ op'.kind = op.kind
        /\ op'.owner = op.owner /\ op'.binding = op.binding /\ op'.revision = op.revision
    BY <1>2, <1>5 DEF Operation
  <2>3. OwnRetries' /\ PersistsOnlyAcknowledged'
    BY <1>1, <1>5, <2>1 DEF SteadyInv, OwnRetries, PersistsOnlyAcknowledged
  <2>4. NamesCurrent' /\ HeldByCurrent'
    BY <1>1, <1>2, <2>1, <2>2 DEF SteadyInv, NamesCurrent, HeldByCurrent, Running, Bindings
  <2>5. CoversCurrent'
    BY <1>1, <1>2, <1>5, <2>2 DEF SteadyInv, CoversCurrent, CaptureCovers
  <2>6. PollingSuccessTruthful'
    <3> SUFFICES ASSUME NEW n \in Devices, lane["polling"][n].firmware = "success"
                 PROVE  /\ lane["polling"][n].draft = lane["polling"][n].applied
                        /\ lane["polling"][n].applied = mouse'["polling"][n]
      BY <1>5 DEF PollingSuccessTruthful
    <3>1. /\ lane["polling"][n].draft = lane["polling"][n].applied
          /\ lane["polling"][n].applied = mouse["polling"][n]
      BY DEF SteadyInv, PollingSuccessTruthful
    <3>2. CASE op.lane = "polling" /\ n = Current
      <4>1. lane["polling"][n].draft = op.value
        BY <1>2, <3>2 DEF SteadyInv, CoversCurrent, CaptureCovers
      <4> QED BY <2>1, <3>1, <3>2, <4>1
    <3>3. CASE ~(op.lane = "polling" /\ n = Current)
      <4>1. mouse'["polling"][n] = mouse["polling"][n]
        BY <1>2, <1>5, <3>3 DEF Acknowledge, TypeInv, TypeOK, PerMouse
      <4> QED BY <3>1, <4>1
    <3> QED BY <3>2, <3>3
  <2> QED BY <2>3, <2>4, <2>5, <2>6 DEF SteadyInv
<1>6. CASE SendDpi
  <2>1. op.lane = "dpi" /\ staged[Current] = op.value /\ UNCHANGED lane
    BY <1>6 DEF SendDpi, Running, SteadyInv, HeldByCurrent
  <2>2. selection # NoBinding => selection.id = Current
    BY CurrentIsSelected
  <2> QED BY <1>3, <1>5, <1>6, <2>1, <2>2 DEF SendDpi, Release
<1>7. CASE SendPolling
  <2>1. op.lane = "polling" /\ op.binding.id = Current
    BY <1>7 DEF SendPolling, Running, SteadyInv, NamesCurrent
  <2> QED BY <1>4, <1>5, <1>7, <2>1 DEF SendPolling, Release
<1> QED BY <1>6, <1>7

LEMMA AcceptKeepsSteady ==
  ASSUME TypeInv, SteadyInv, AcceptPolling
  PROVE  SteadyInv'
<1>1. /\ op \in Operation /\ op.owner = Current /\ Current \in Devices /\ Current \in Owners /\ op.pc = "acked"
      /\ op.lane = "polling" /\ "polling" \in Lanes /\ lane \in [Lanes -> [Owners -> LaneState]]
  BY DEF AcceptPolling, Running, SteadyInv, NamesCurrent, TypeInv, TypeOK, Owners, Lanes
<1>2. UNCHANGED <<rev, selection, mouse, acked, record, profile>> /\ Current' = Current
  BY DEF AcceptPolling, selectionVars, hardwareVars, diskVars, Current
<1>3. CaptureCovers(Current) /\ mouse["polling"][Current] = op.value
  BY <1>1 DEF SteadyInv, CoversCurrent, HeldByCurrent
<1>4. PersistsOnlyAcknowledged'
  BY <1>2 DEF SteadyInv, PersistsOnlyAcknowledged
<1>5. CASE op' = NoOperation /\ UNCHANGED lane
  BY <1>2, <1>4, <1>5, IdleIsSteady DEF NoOperation, SteadyInv, OwnRetries, PollingSuccessTruthful
<1>6. CASE /\ lane["polling"][op.owner].revision = op.revision
           /\ lane' = [lane EXCEPT !["polling"][op.owner] = Accepted(lane["polling"][op.owner])]
           /\ op' = [op EXCEPT !.pc = "record"]
  <2> DEFINE s == lane["polling"][Current]
             t == Accepted(s)
  <2>1. t.applied = op.value /\ t.draft = s.draft /\ t.retry = s.retry
    <3>1. s \in LaneState
      BY <1>1
    <3> QED BY <3>1 DEF Accepted, LaneState
  <2>2. s.draft = op.value
    BY <1>1, <1>3, <1>6 DEF CaptureCovers
  <2> HIDE DEF t
  <2>3. lane' = [lane EXCEPT !["polling"][Current] = t]
    BY <1>1, <1>6 DEF t
  <2>4. lane'["polling"][Current] = t
    BY <1>1, <2>3
  <2>5. \A l \in Lanes, n \in Devices : lane'[l][n] = lane[l][n] \/ (l = "polling" /\ n = Current)
    BY <1>1, <2>3 DEF Owners
  <2>6. OwnRetries'
    BY <1>1, <1>2, <2>1, <2>4, <2>5 DEF SteadyInv, OwnRetries
  <2>7. PollingSuccessTruthful'
    BY <1>1, <1>2, <1>3, <2>1, <2>2, <2>4, <2>5 DEF SteadyInv, PollingSuccessTruthful
  <2>8. /\ op'.pc = "record" /\ op'.value = op.value /\ op'.lane = op.lane /\ op'.kind = op.kind
        /\ op'.owner = op.owner /\ op'.binding = op.binding
    BY <1>1, <1>6 DEF Operation
  <2>9. NamesCurrent' /\ HeldByCurrent' /\ CoversCurrent'
    BY <1>1, <1>2, <2>8 DEF SteadyInv, NamesCurrent, HeldByCurrent, CoversCurrent, Running, Bindings
  <2> QED BY <1>4, <2>6, <2>7, <2>9 DEF SteadyInv
<1> QED BY <1>5, <1>6 DEF AcceptPolling, Release

\* Saving writes the held value to the selected mouse's files, and completes its lane.
LEMMA SaveKeepsSteady ==
  ASSUME TypeInv, SteadyInv, NEW ok \in BOOLEAN, ReselectDpi \/ SaveRecord(ok) \/ SaveProfile(ok)
  PROVE  SteadyInv'
<1>1. UNCHANGED <<rev, selection, staged, mouse, acked>> /\ Current' = Current
  BY DEF ReselectDpi, SaveRecord, SaveProfile, selectionVars, hardwareVars, Current
<1>2. /\ op.pc \in {"acked", "record", "profile"} /\ op.owner = Current /\ Current \in Devices /\ Current \in Owners
      /\ op \in Operation /\ op.lane \in Lanes /\ op.value \in Values /\ lane \in [Lanes -> [Owners -> LaneState]]
      /\ op.value \in acked[op.lane][Current] /\ "polling" \in Lanes
  BY DEF ReselectDpi, SaveRecord, SaveProfile, Running, SteadyInv, NamesCurrent, HeldByCurrent,
         TypeInv, TypeOK, Operation, Owners, Lanes
<1>3. op.pc \in {"record", "profile"} => op.binding.id = Current
  BY DEF SteadyInv, NamesCurrent
<1>4. ASSUME NEW f \in PerMouse(Values), \A l \in Lanes, n \in Devices : f[l][n] \in acked[l][n],
             op.pc \in {"record", "profile"}
      PROVE  \A l \in Lanes, n \in Devices :
               [f EXCEPT ![op.lane][op.binding.id] = op.value][l][n] \in acked[l][n]
  BY <1>2, <1>3, <1>4 DEF PerMouse
<1>5. PersistsOnlyAcknowledged'
  <2>1. /\ \A l \in Lanes, n \in Devices : record[l][n] \in acked[l][n]
        /\ \A l \in Lanes, n \in Devices : profile[l][n] \in acked[l][n]
        /\ record \in PerMouse(Values) /\ profile \in PerMouse(Values)
    BY DEF SteadyInv, PersistsOnlyAcknowledged, TypeInv, TypeOK
  <2>2. \A l \in Lanes, n \in Devices : record'[l][n] \in acked[l][n]
    BY <1>4, <2>1 DEF ReselectDpi, SaveRecord, SaveProfile, diskVars
  <2>3. \A l \in Lanes, n \in Devices : profile'[l][n] \in acked[l][n]
    BY <1>4, <2>1 DEF ReselectDpi, SaveRecord, SaveProfile, diskVars
  <2> QED BY <1>1, <2>2, <2>3 DEF PersistsOnlyAcknowledged
<1>6. ASSUME NEW failed \in BOOLEAN, Complete(failed)
      PROVE  SteadyInv'
  <2> DEFINE s == lane[op.lane][Current]
             t == Completed(s, failed)
  <2>1. /\ t.retry \in {s.retry, NoValue, op.value}
        /\ op.lane = "polling" => t.draft = s.draft /\ t.applied = s.applied /\ t.firmware = s.firmware
    <3>1. s \in LaneState
      BY <1>2
    <3>2. t.retry \in {s.retry, NoValue, op.value}
      BY <1>2, <3>1, RetryOfChange
    <3> QED BY <3>1, <3>2 DEF Completed, LaneState
  <2> HIDE DEF t
  <2>2. lane' = [lane EXCEPT ![op.lane][Current] = t]
    BY <1>2, <1>6 DEF Complete, t
  <2>3. lane'[op.lane][Current] = t
    BY <1>2, <2>2
  <2>4. \A l \in Lanes, n \in Devices : lane'[l][n] = lane[l][n] \/ (l = op.lane /\ n = Current)
    BY <1>2, <2>2 DEF Owners
  <2>5. OwnRetries'
    BY <1>1, <1>2, <2>1, <2>3, <2>4 DEF SteadyInv, OwnRetries
  <2>6. PollingSuccessTruthful'
    BY <1>1, <1>2, <2>1, <2>3, <2>4 DEF SteadyInv, PollingSuccessTruthful
  <2>7. op'.pc = "idle"
    BY <1>6 DEF Complete, Release, NoOperation
  <2> QED BY <1>5, <2>5, <2>6, <2>7, IdleIsSteady
<1>7. ASSUME UNCHANGED lane, op'.pc \in {"record", "profile"}, op'.value = op.value, op'.lane = op.lane,
             op'.kind = op.kind, op'.owner = op.owner, op'.binding \in Bindings, op'.binding.id = Current
      PROVE  SteadyInv'
  <2>1. OwnRetries' /\ PollingSuccessTruthful'
    BY <1>1, <1>7 DEF SteadyInv, OwnRetries, PollingSuccessTruthful
  <2>2. NamesCurrent' /\ HeldByCurrent' /\ CoversCurrent'
    BY <1>1, <1>2, <1>7 DEF SteadyInv, NamesCurrent, HeldByCurrent, CoversCurrent, Running, Bindings
  <2> QED BY <1>5, <2>1, <2>2 DEF SteadyInv
<1>8. CASE ReselectDpi
  <2>1. selection # NoBinding /\ selection \in Bindings /\ selection.id = Current
    BY <1>2, CurrentIsSelected
  <2> QED BY <1>2, <1>7, <1>8, <2>1 DEF ReselectDpi, Operation
<1>9. CASE SaveRecord(ok)
  <2>1. CASE Complete(TRUE)
    BY <1>6, <2>1
  <2>2. CASE op' = [op EXCEPT !.pc = "profile", !.failed = ~ok] /\ UNCHANGED lane
    <3>1. op.binding \in Bindings /\ op.binding.id = Current
      BY <1>9 DEF SaveRecord, SteadyInv, NamesCurrent
    <3> QED BY <1>2, <1>7, <2>2, <3>1 DEF Operation
  <2> QED BY <1>9, <2>1, <2>2 DEF SaveRecord
<1>10. CASE SaveProfile(ok)
  <2>1. (op.failed \/ ~ok) \in BOOLEAN
    BY <1>2 DEF Operation
  <2>2. Complete(op.failed \/ ~ok)
    BY <1>10 DEF SaveProfile
  <2> QED BY <1>6, <2>1, <2>2
<1> QED BY <1>8, <1>9, <1>10

LEMMA SteadyStep ==
  ASSUME TypeInv, SteadyInv, [Next /\ SelectionKept]_editVars
  PROVE  SteadyInv'
<1>1. CASE SelectionKept /\ (SelectDevice \/ StageEvent \/ \E l \in Lanes, v \in Values : Stage(l, v))
  BY <1>1, BetweenKeepsSteady, FactoryAssumption DEF Lanes
<1>2. CASE \/ StartDpi \/ StartPolling \/ CaptureDraft \/ CheckBinding \/ CheckRevision
           \/ \E l \in Lanes : StartRetry(l) \/ CaptureRetry(l)
  BY <1>2, CaptureKeepsSteady DEF Lanes
<1>3. CASE StageOnMouse
  BY <1>3, StageOnMouseKeepsSteady
<1>4. CASE SendDpi \/ SendPolling
  BY <1>4, SendKeepsSteady
<1>5. CASE AcceptPolling
  BY <1>5, AcceptKeepsSteady
<1>6. CASE ReselectDpi \/ \E ok \in BOOLEAN : SaveRecord(ok) \/ SaveProfile(ok)
  BY <1>6, SaveKeepsSteady
<1>7. CASE UNCHANGED editVars
  BY <1>7 DEF editVars, selectionVars, laneVars, hardwareVars, diskVars, SteadyInv, NamesCurrent, OwnRetries,
              HeldByCurrent, CoversCurrent, CaptureCovers, PersistsOnlyAcknowledged, PollingSuccessTruthful,
              Running, Current, Bindings
<1> QED BY <1>1, <1>2, <1>3, <1>4, <1>5, <1>6, <1>7 DEF Next

LEMMA SteadyInvHolds == SteadySpec => [](TypeInv /\ SteadyInv)
<1>1. TypeInv /\ [Next /\ SelectionKept]_editVars => TypeInv'
  BY TypeInvStep
<1>2. TypeInv /\ SteadyInv /\ [Next /\ SelectionKept]_editVars => SteadyInv'
  BY SteadyStep
<1> QED BY <1>1, <1>2, TypeInit, SteadyInit, PTL DEF SteadySpec

\* With any number of mice, as long as no operation sees the selection move to
\* another mouse, records and profiles hold what their own mouse acknowledged.
THEOREM SteadyPersistsOnlyAcknowledged == SteadySpec => []PersistsOnlyAcknowledged
BY SteadyInvHolds, PTL DEF SteadyInv

\* ... a polling rate reported as applied is the one its mouse acknowledged ...
THEOREM SteadyPollingTruthful == SteadySpec => []PollingSuccessTruthful
BY SteadyInvHolds, PTL DEF SteadyInv

\* ... and applied values follow the acknowledgements of their own mouse.
THEOREM SteadyAppliedFollowsAck == SteadySpec => AppliedFollowsAck
<1>1. TypeInv /\ SteadyInv /\ [Next /\ SelectionKept]_editVars => [AppliedStep]_editVars
  <2> SUFFICES ASSUME TypeInv, SteadyInv, Next /\ SelectionKept, NEW l \in Lanes, NEW n \in Devices,
                      lane'[l][n].applied # lane[l][n].applied
               PROVE  lane'[l][n].applied = mouse[l][n]
    BY DEF AppliedStep
  <2>1. HeldByOwner
    BY DEF SteadyInv, NamesCurrent, HeldByCurrent, HeldByOwner
  <2> QED BY <2>1, AppliedMovesToAck
<1> QED BY <1>1, SteadyInvHolds, PTL DEF SteadySpec, AppliedFollowsAck
=============================================================================
