-------------------------- MODULE DeviceEditsProofs --------------------------
(***************************************************************************)
(* Proofs about DeviceEdits for any values, buttons, macros and numbers of *)
(* drafts and operations.  The invariant has a part for the settings and   *)
(* lighting lanes and one for the button lane; each is kept by its own     *)
(* lane's steps, and by the other's because they touch nothing it names.   *)
(***************************************************************************)
EXTENDS DeviceEdits, TLAPS

-----------------------------------------------------------------------------
(* The inductive invariant: settings and lighting                            *)

\* What an operation sends is what the lanes show: staging is kept out of the
\* settings, and is noticed by the lighting.
SentIsCurrent ==
  /\ (op.lane \in SettingLanes /\ op.pc \in {"lighting", "send"}) \/ (op.lane = "lighting" /\ op.pc \in {"send", "accept"}) =>
       \A l \in SettingLanes : op.sent[l] = settings[l].value
  /\ Running("send", SettingLanes) /\ lighting.firmware = "success" => op.sent["lighting"] = lighting.pending
  /\ op.lane = "lighting" /\ op.pc \in {"settings", "send", "accept"} =>
       IF op.moved THEN lighting.firmware # "success" ELSE op.sent["lighting"] = lighting.pending
  /\ Running("accept", {"lighting"}) =>
       mouse.settings = op.sent /\ <<"lighting", op.sent["lighting"]>> \in acked.settings

\* What a save writes, and what a retry would, was acknowledged, and is what the
\* lane shows if it shows a success.
SavingIsShown ==
  \A l \in SettingLanes :
    /\ Saving({l}) => /\ <<l, op.value>> \in acked.settings
                      /\ settings[l].firmware = "success" => op.value = settings[l].value
    /\ Running("profile", {l}) /\ ~op.failed => record.settings[l] = op.value
    /\ settings[l].retry # NoValue =>
         /\ <<l, settings[l].retry>> \in acked.settings
         /\ settings[l].firmware = "success" /\ ~Saving({l}) => settings[l].retry = settings[l].value

\* The parts of the properties about these lanes.
SettingsShown ==
  /\ \A l \in SettingLanes : settings[l].firmware = "success" => settings[l].value = mouse.settings[l]
  /\ lighting.firmware = "success" => lighting.pending = mouse.settings["lighting"] /\ lighting.applied = lighting.pending
SettingsSaved ==
  /\ \A l \in SettingLanes :
       settings[l].firmware = "success" /\ settings[l].saved = "success" /\ ~Saving({l}) =>
         record.settings[l] = settings[l].value /\ profile.settings[l] = settings[l].value
  /\ lighting.firmware = "success" /\ ~lighting.unsaved => profile.settings["lighting"] = lighting.applied
SettingsAcked ==
  /\ \A f \in Fields : <<f, profile.settings[f]>> \in acked.settings
  /\ \A l \in SettingLanes : <<l, record.settings[l]>> \in acked.settings

SettingsInv == SentIsCurrent /\ SavingIsShown /\ SettingsShown /\ SettingsSaved /\ SettingsAcked

-----------------------------------------------------------------------------
(* The inductive invariant: buttons                                          *)

Applied == [config |-> buttons.applied, macros |-> buttons.macros]
OnMouse == mouse.config = op.layout.config /\ mouse.macros = op.layout.macros

\* What an apply of the button lane knows before each of its calls.
WritingInv ==
  /\ op.lane = "buttons" /\ op.pc \in {"send", "accept", "assign", "upload", "status", "complete"} =>
       buttons.firmware # "success" /\ buttons.retry = NoValue /\ buttons.saved = ""
  /\ op.lane = "buttons" /\ op.pc \in {"admit", "send", "accept", "assign", "upload", "status", "complete"} => op.kind = "apply"
  /\ op.lane = "buttons" /\ op.pc \in {"admit", "assign", "upload", "status"} => ~op.failed
  /\ op.lane = "buttons" /\ op.pc \in {"admit", "assign", "upload"} => op.uploaded = "not_started"
  /\ op.lane = "buttons" /\ op.pc \in {"admit", "assign"} => op.assignment = "not_started"
  /\ op.lane = "buttons" /\ op.pc \in {"send", "accept"} => op.layout.macros = Plain
  /\ op.lane = "buttons" /\ op.pc \in {"assign", "upload", "status", "complete"} => op.layout.macros # Plain

\* What the mouse holds meanwhile.
WrittenInv ==
  /\ Running("accept", Lane) => OnMouse /\ op.layout \in acked.layouts
  /\ Running("upload", Lane) => /\ mouse.config = op.layout.config
                                /\ \A b \in Buttons : mouse.macros[b] = IF b \in Staged THEN Unloaded ELSE NoMacro
  /\ Running("status", Lane) => OnMouse /\ op.uploaded = "possibly_partial"
  /\ Running("complete", Lane) /\ ~op.failed => OnMouse /\ op.layout \in acked.layouts

\* What a save writes is what is applied.
LayoutInv ==
  /\ op.lane = "buttons" /\ op.pc \in {"record", "profile"} =>
       op.layout.config = buttons.applied /\ (op.kind = "apply" => op.layout.macros = buttons.macros)
  /\ Running("profile", Lane) /\ ~op.failed => record.config = op.layout.config
  /\ Applied \in acked.layouts

\* The parts of the properties about this lane.
ButtonsShown ==
  buttons.firmware = "success" => mouse.config = buttons.applied /\ mouse.macros = buttons.macros
ButtonsSaved ==
  buttons.firmware = "success" /\ buttons.saved = "success" /\ ~Saving({"buttons"}) =>
    /\ profile.layout = Applied
    /\ buttons.macros = Plain => record.config = buttons.applied
ButtonsAcked ==
  /\ profile.layout \in acked.layouts
  /\ record.config \in {layout.config : layout \in acked.layouts}

ButtonsInv ==
  /\ WritingInv /\ WrittenInv /\ LayoutInv /\ RetryIsApplied /\ ProgressCoversMouse
  /\ ButtonsShown /\ ButtonsSaved /\ ButtonsAcked

EditsInv == EditsTypeOK /\ SettingsInv /\ ButtonsInv

-----------------------------------------------------------------------------
(* Types                                                                     *)

LEMMA ConstantTypes ==
  /\ Factory \in Values /\ NoValue \notin Values
  /\ FactorySent \in Sent /\ Plain \in Drafts /\ FactoryLayout \in Layouts /\ NoOperation \in Operation
<1>1. Factory \in Values /\ NoValue \notin Values
  BY FactoryAssumption
<1>2. FactorySent \in Sent
  BY <1>1 DEF FactorySent, Sent
<1>3. Plain \in Drafts
  BY DEF Plain, Drafts
<1>4. FactoryLayout \in Layouts
  BY <1>1, <1>3 DEF FactoryLayout, Layouts
<1>5. NoOperation \in Operation
  BY <1>1, <1>2, <1>4 DEF NoOperation, Operation, Fields, SettingLanes
<1> QED BY <1>1, <1>2, <1>3, <1>4, <1>5

LEMMA InitTypes == Init => EditsTypeOK
<1> SUFFICES ASSUME Init PROVE EditsTypeOK
  OBVIOUS
<1>1. settings \in [SettingLanes -> LaneState] /\ lighting \in LightingState
  BY ConstantTypes DEF Init, SettingsInit, LaneState, LightingState
<1>2. buttons \in ButtonState /\ library \in Macros \cup {NoMacro}
  BY ConstantTypes DEF Init, ButtonInit, ButtonState
<1>3. mouse \in Contents
  BY ConstantTypes DEF Init, Contents, Drafts, Plain
<1>4. acked \in [settings : SUBSET (Fields \X Values), layouts : SUBSET Layouts]
  BY ConstantTypes DEF Init
<1>5. record \in [settings : [SettingLanes -> Values], config : Values] /\ profile \in [settings : Sent, layout : Layouts]
  BY ConstantTypes DEF Init
<1>6. op \in Operation /\ edits \in 0..MaxEdits /\ ops \in 0..MaxOps
  BY ConstantTypes, EditBoundsAssumption DEF Init
<1> QED BY <1>1, <1>2, <1>3, <1>4, <1>5, <1>6 DEF EditsTypeOK, SettingsTypeOK, ButtonTypeOK

\* Starting an operation.
LEMMA BeginTypes ==
  ASSUME EditsTypeOK, NEW o \in Operation, Begin(o)
  PROVE  op' \in Operation /\ ops' \in 0..MaxOps
BY EditBoundsAssumption DEF EditsTypeOK, Begin

\* Staging.
LEMMA EditTypes ==
  ASSUME EditsTypeOK, NEW lane, Edit(lane)
  PROVE  op' \in Operation /\ edits' \in 0..MaxEdits
<1> DEFINE moved == op.moved \/ (op.pc # "idle" /\ op.lane = lane)
<1>1. moved \in BOOLEAN /\ op \in Operation
  BY DEF EditsTypeOK, Operation
<1>2. op' = [op EXCEPT !.moved = moved]
  BY DEF Edit
<1>3. op' \in Operation
  <2> HIDE DEF moved
  <2> QED BY <1>1, <1>2 DEF Operation
<1> QED BY <1>3, EditBoundsAssumption DEF EditsTypeOK, Edit

LEMMA FieldTypes ==
  ASSUME EditsTypeOK
  PROVE  /\ op.sent \in Sent /\ op.value \in Values /\ op.layout \in Layouts /\ op.layout.config \in Values
         /\ op.layout.macros \in Drafts /\ op \in Operation
         /\ \A f \in Fields : op.sent[f] \in Values
         /\ \A l \in SettingLanes : settings[l] \in LaneState /\ settings[l].value \in Values
         /\ lighting.pending \in Values /\ lighting \in LightingState
         /\ buttons \in ButtonState /\ buttons.applied \in Values /\ buttons.drafts \in Drafts /\ buttons.macros \in Drafts
         /\ mouse \in Contents /\ profile.settings \in Sent /\ record.settings \in [SettingLanes -> Values]
<1>1. /\ op.sent \in Sent /\ op.value \in Values /\ op.layout \in Layouts /\ op \in Operation
  BY DEF EditsTypeOK, Operation
<1>2. op.layout.config \in Values /\ op.layout.macros \in Drafts /\ \A f \in Fields : op.sent[f] \in Values
  BY <1>1 DEF Layouts, Sent
<1>3. \A l \in SettingLanes : settings[l] \in LaneState /\ settings[l].value \in Values
  BY DEF EditsTypeOK, SettingsTypeOK, LaneState
<1>4. lighting.pending \in Values /\ lighting \in LightingState
  BY DEF EditsTypeOK, SettingsTypeOK, LightingState
<1>5. buttons \in ButtonState /\ buttons.applied \in Values /\ buttons.drafts \in Drafts /\ buttons.macros \in Drafts
  BY DEF EditsTypeOK, ButtonTypeOK, ButtonState
<1>6. mouse \in Contents /\ profile.settings \in Sent /\ record.settings \in [SettingLanes -> Values]
  BY DEF EditsTypeOK
<1> QED BY <1>1, <1>2, <1>3, <1>4, <1>5, <1>6

\* The settings and lighting lanes' own variables.
LEMMA LaneLabelTypes ==
  ASSUME EditsTypeOK, NEW l \in SettingLanes
  PROVE  /\ \A fw \in {"success", "failed"} : [settings EXCEPT ![l].firmware = fw] \in [SettingLanes -> LaneState]
         /\ \A v \in Values : [settings EXCEPT ![l].value = v, ![l].firmware = "pending"] \in [SettingLanes -> LaneState]
         /\ \A sv \in {"success", "failed"}, r \in Values \cup {NoValue} :
               [settings EXCEPT ![l].saved = sv, ![l].retry = r] \in [SettingLanes -> LaneState]
<1>1. settings \in [SettingLanes -> LaneState] /\ settings[l] \in LaneState
  BY DEF EditsTypeOK, SettingsTypeOK
<1>2. \A fw \in {"success", "failed"} : [settings EXCEPT ![l].firmware = fw] \in [SettingLanes -> LaneState]
  BY <1>1 DEF LaneState
<1>3. \A v \in Values : [settings EXCEPT ![l].value = v, ![l].firmware = "pending"] \in [SettingLanes -> LaneState]
  BY <1>1 DEF LaneState
<1>4. \A sv \in {"success", "failed"}, r \in Values \cup {NoValue} :
         [settings EXCEPT ![l].saved = sv, ![l].retry = r] \in [SettingLanes -> LaneState]
  BY <1>1 DEF LaneState
<1> QED BY <1>2, <1>3, <1>4

LEMMA SettingsStepTypes == EditsTypeOK /\ SettingsNext => EditsTypeOK'
<1> SUFFICES ASSUME EditsTypeOK, SettingsNext PROVE EditsTypeOK'
  OBVIOUS
<1>1. CASE \E l \in SettingLanes : ApplySettings(l) \/ RetrySetting(l)
  <2>1. PICK l \in SettingLanes : ApplySettings(l) \/ RetrySetting(l)
    BY <1>1
  <2>2. UNCHANGED <<settings, lighting, buttons, library, device, files, edits>>
    BY <2>1 DEF ApplySettings, RetrySetting
  <2>3. op' \in Operation /\ ops' \in 0..MaxOps
    <3>1. CASE ApplySettings(l)
      <4> DEFINE sent == [FactorySent EXCEPT !["sleep"] = settings["sleep"].value, !["response"] = settings["response"].value]
                 o == [NoOperation EXCEPT !.pc = "lighting", !.lane = l, !.sent = sent]
      <4>1. sent \in Sent
        BY ConstantTypes, FieldTypes DEF Sent, SettingLanes
      <4>2. o \in Operation
        <5> HIDE DEF sent
        <5> QED BY <4>1, ConstantTypes DEF Operation, Fields
      <4>3. Begin(o)
        BY <3>1 DEF ApplySettings
      <4> HIDE DEF o
      <4> QED BY <4>2, <4>3, BeginTypes
    <3>2. CASE RetrySetting(l)
      <4> DEFINE r == settings[l].retry
                 o == [NoOperation EXCEPT !.pc = "record", !.kind = "retry", !.lane = l, !.value = r]
      <4>1. r \in Values
        BY <3>2, FieldTypes DEF RetrySetting, LaneState
      <4>2. o \in Operation
        <5> HIDE DEF r
        <5> QED BY <4>1, ConstantTypes DEF Operation, Fields
      <4>3. Begin(o)
        BY <3>2 DEF RetrySetting
      <4> HIDE DEF o
      <4> QED BY <4>2, <4>3, BeginTypes
    <3> QED BY <2>1, <3>1, <3>2
  <2> QED BY <2>2, <2>3 DEF EditsTypeOK, SettingsTypeOK, ButtonTypeOK, device, files
<1>2. CASE (\E l \in SettingLanes, v \in Values : StageSetting(l, v)) \/ (\E v \in Values : StageLighting(v))
  <2>1. op' \in Operation /\ edits' \in 0..MaxEdits /\ UNCHANGED <<library, device, files, ops>>
    BY <1>2, EditTypes DEF StageSetting, StageLighting, Edit
  <2>2. settings' \in [SettingLanes -> LaneState] /\ lighting' \in LightingState /\ UNCHANGED buttons
    <3>1. CASE \E l \in SettingLanes, v \in Values : StageSetting(l, v)
      <4>1. PICK l \in SettingLanes, v \in Values : StageSetting(l, v)
        BY <3>1
      <4>2. settings' = [settings EXCEPT ![l].value = v, ![l].firmware = "pending"] /\ UNCHANGED <<lighting, buttons>>
        BY <4>1 DEF StageSetting
      <4> QED BY <4>2, LaneLabelTypes, FieldTypes
    <3>2. CASE \E v \in Values : StageLighting(v)
      <4>1. PICK v \in Values : StageLighting(v)
        BY <3>2
      <4>2. lighting' = [lighting EXCEPT !.pending = v, !.firmware = "pending", !.unsaved = FALSE]
            /\ UNCHANGED <<settings, buttons>>
        BY <4>1 DEF StageLighting
      <4> QED BY <4>2, FieldTypes DEF LightingState, EditsTypeOK, SettingsTypeOK
    <3> QED BY <1>2, <3>1, <3>2
  <2> QED BY <2>1, <2>2 DEF EditsTypeOK, SettingsTypeOK, ButtonTypeOK, device, files
<1>3. CASE ReadLighting \/ SettingsStale \/ SendSettings \/ ReadSettings \/ SendLighting
  <2>1. UNCHANGED <<buttons, library, record, profile, edits, ops>>
    BY <1>3 DEF ReadLighting, SettingsStale, SendSettings, ReadSettings, SendLighting, files, counts
  <2>2. op' \in Operation
    <3>1. CASE ReadLighting
      <4>1. [op.sent EXCEPT !["lighting"] = lighting.pending] \in Sent
        BY FieldTypes DEF Sent
      <4>2. op' = [op EXCEPT !.pc = "send", !.sent = [op.sent EXCEPT !["lighting"] = lighting.pending]]
        BY <3>1 DEF ReadLighting
      <4> QED BY <4>1, <4>2, FieldTypes DEF Operation
    <3>2. CASE ReadSettings
      <4> DEFINE sent == [l \in Fields |-> IF l = "lighting" THEN op.sent[l] ELSE settings[l].value]
      <4>1. sent \in Sent
        BY FieldTypes DEF Sent, Fields
      <4>2. op' = [op EXCEPT !.pc = "send", !.sent = sent] \/ op' = NoOperation
        BY <3>2 DEF ReadSettings, Release
      <4> HIDE DEF sent
      <4> QED BY <4>1, <4>2, FieldTypes, ConstantTypes DEF Operation
    <3>3. CASE SettingsStale \/ SendLighting
      BY <3>3, FieldTypes, ConstantTypes DEF Operation, SettingsStale, SendLighting, Release
    <3>4. CASE SendSettings
      <4>1. Running("send", SettingLanes)
        BY <3>4 DEF SendSettings
      <4>2. op.sent[op.lane] \in Values
        BY <4>1, FieldTypes DEF Running, Fields
      <4> QED BY <3>4, <4>2, FieldTypes, ConstantTypes DEF Operation, SendSettings, Release
    <3> QED BY <1>3, <3>1, <3>2, <3>3, <3>4
  <2>3. settings' \in [SettingLanes -> LaneState] /\ lighting' \in LightingState
    <3>1. CASE SendSettings
      <4>1. PICK fw \in {"success", "failed"} : settings' = [settings EXCEPT ![op.lane].firmware = fw]
        BY <3>1 DEF SendSettings, Firmware
      <4>2. op.lane \in SettingLanes /\ lighting' = lighting
        BY <3>1 DEF SendSettings, Running
      <4>3. settings' \in [SettingLanes -> LaneState]
        BY <4>1, <4>2, LaneLabelTypes
      <4> QED BY <4>2, <4>3, FieldTypes
    <3>2. CASE ~SendSettings
      BY <1>3, <3>2, FieldTypes DEF ReadLighting, SettingsStale, ReadSettings, SendLighting, LightingFails,
         EditsTypeOK, SettingsTypeOK, LightingState
    <3> QED BY <3>1, <3>2
  <2>4. mouse' \in Contents /\ acked' \in [settings : SUBSET (Fields \X Values), layouts : SUBSET Layouts]
    <3>1. Holds(op.sent) \in Contents
      BY FieldTypes DEF Holds, Contents
    <3>2. [acked EXCEPT !.settings = @ \cup {<<f, op.sent[f]>> : f \in Fields}] \in
            [settings : SUBSET (Fields \X Values), layouts : SUBSET Layouts]
      <4> DEFINE new == {<<f, op.sent[f]>> : f \in Fields}
      <4>1. new \in SUBSET (Fields \X Values)
        BY FieldTypes
      <4>2. acked \in [settings : SUBSET (Fields \X Values), layouts : SUBSET Layouts]
        BY DEF EditsTypeOK
      <4> HIDE DEF new
      <4>3. [acked EXCEPT !.settings = @ \cup new] \in [settings : SUBSET (Fields \X Values), layouts : SUBSET Layouts]
        BY <4>1, <4>2
      <4> QED BY <4>3 DEF new
    <3> QED BY <1>3, <3>1, <3>2 DEF ReadLighting, SettingsStale, SendSettings, ReadSettings, SendLighting,
         Acknowledge, Unanswered, device, EditsTypeOK
  <2> QED BY <2>1, <2>2, <2>3, <2>4 DEF EditsTypeOK, SettingsTypeOK, ButtonTypeOK
<1>4. CASE ApplyLighting
  <2> DEFINE sent == [FactorySent EXCEPT !["lighting"] = lighting.pending]
             o == [NoOperation EXCEPT !.pc = "settings", !.lane = "lighting", !.sent = sent]
  <2>1. sent \in Sent
    BY ConstantTypes, FieldTypes DEF Sent
  <2>2. o \in Operation
    <3> HIDE DEF sent
    <3> QED BY <2>1, ConstantTypes DEF Operation, Fields
  <2>3. Begin(o) /\ UNCHANGED <<settings, lighting, buttons, library, device, files, edits>>
    BY <1>4 DEF ApplyLighting
  <2>4. op' \in Operation /\ ops' \in 0..MaxOps
    <3> HIDE DEF o
    <3> QED BY <2>2, <2>3, BeginTypes
  <2> QED BY <2>3, <2>4 DEF EditsTypeOK, SettingsTypeOK, ButtonTypeOK, device, files
<1>5. CASE \E ok \in BOOLEAN : AcceptLighting(ok) \/ SaveSettingRecord(ok) \/ SaveSettingProfile(ok)
  <2>1. PICK ok \in BOOLEAN : AcceptLighting(ok) \/ SaveSettingRecord(ok) \/ SaveSettingProfile(ok)
    BY <1>5
  <2>2. UNCHANGED <<buttons, library, device, counts>>
    BY <2>1 DEF AcceptLighting, SaveSettingRecord, SaveSettingProfile
  <2>3. op' \in Operation
    BY <2>1, FieldTypes, ConstantTypes DEF Operation, AcceptLighting, SaveSettingRecord, SaveSettingProfile, Release
  <2>4. lighting' \in LightingState
    <3>1. op.sent["lighting"] \in Values
      BY FieldTypes DEF Fields
    <3> QED BY <2>1, <3>1, FieldTypes DEF AcceptLighting, SaveSettingRecord, SaveSettingProfile, LightingFails, LightingState
  <2>5. settings' \in [SettingLanes -> LaneState]
    <3>1. CASE SaveSettingProfile(ok)
      <4>1. op.lane \in SettingLanes
        BY <3>1 DEF SaveSettingProfile, Running
      <4>2. PICK sv \in {"success", "failed"}, r \in Values \cup {NoValue} :
              settings' = [settings EXCEPT ![op.lane].saved = sv, ![op.lane].retry = r]
        BY <3>1, FieldTypes DEF SaveSettingProfile
      <4>3. settings \in [SettingLanes -> LaneState]
        BY DEF EditsTypeOK, SettingsTypeOK
      <4> QED BY <4>1, <4>2, <4>3 DEF LaneState
    <3> QED BY <2>1, <3>1 DEF AcceptLighting, SaveSettingRecord, EditsTypeOK, SettingsTypeOK
  <2>6. record' \in [settings : [SettingLanes -> Values], config : Values]
    BY <2>1, FieldTypes DEF AcceptLighting, SaveSettingRecord, SaveSettingProfile, EditsTypeOK, Running
  <2>7. profile' \in [settings : Sent, layout : Layouts]
    <3>1. op.sent["lighting"] \in Values /\ profile \in [settings : Sent, layout : Layouts]
      BY FieldTypes DEF Fields, EditsTypeOK
    <3>2. \A f \in Fields, v \in Values : [profile EXCEPT !.settings[f] = v] \in [settings : Sent, layout : Layouts]
      BY <3>1 DEF Sent
    <3> QED BY <2>1, <3>1, <3>2, FieldTypes DEF AcceptLighting, SaveSettingRecord, SaveSettingProfile, Running, Fields
  <2> QED BY <2>2, <2>3, <2>4, <2>5, <2>6, <2>7 DEF EditsTypeOK, SettingsTypeOK, ButtonTypeOK, device, counts
<1> QED BY <1>1, <1>2, <1>3, <1>4, <1>5 DEF SettingsNext

\* The button lane's labels.
LEMMA ButtonLabelTypes ==
  ASSUME EditsTypeOK
  PROVE  /\ \A fw \in {"pending", "success", "failed"} : [buttons EXCEPT !.firmware = fw] \in ButtonState
         /\ \A sv \in {"success", "failed"} : [buttons EXCEPT !.saved = sv] \in ButtonState
         /\ \A sv \in {"success", "failed"}, r \in Values \cup {NoValue} :
               [buttons EXCEPT !.saved = sv, !.retry = r] \in ButtonState
<1>1. buttons \in ButtonState
  BY DEF EditsTypeOK, ButtonTypeOK
<1>2. \A fw \in {"pending", "success", "failed"} : [buttons EXCEPT !.firmware = fw] \in ButtonState
  BY <1>1 DEF ButtonState
<1>3. \A sv \in {"success", "failed"} : [buttons EXCEPT !.saved = sv] \in ButtonState
  BY <1>1 DEF ButtonState
<1>4. \A sv \in {"success", "failed"}, r \in Values \cup {NoValue} :
         [buttons EXCEPT !.saved = sv, !.retry = r] \in ButtonState
  BY <1>1 DEF ButtonState
<1> QED BY <1>2, <1>3, <1>4

\* The mouse and the acknowledgements of a button operation.
LEMMA WrittenTypes ==
  ASSUME EditsTypeOK
  PROVE  /\ Assigned \in Contents /\ HalfLoaded \in Contents /\ AllLoaded \in Contents
         /\ AckLayout => acked' \in [settings : SUBSET (Fields \X Values), layouts : SUBSET Layouts]
<1> DEFINE Slots == Macros \cup {NoMacro, Unloaded, Torn}
<1>1. mouse \in [settings : Sent, config : Values, macros : [Buttons -> Slots]]
  BY FieldTypes DEF Contents
<1>2. op.layout.macros \in [Buttons -> Slots] /\ op.layout.config \in Values
  BY FieldTypes DEF Drafts
<1>3. Assigned \in Contents
  <2> DEFINE m == [b \in Buttons |-> IF b \in Staged THEN Unloaded ELSE NoMacro]
  <2>1. m \in [Buttons -> Slots]
    OBVIOUS
  <2>2. Assigned = [mouse EXCEPT !.config = op.layout.config, !.macros = m]
    BY DEF Assigned
  <2> HIDE DEF m
  <2> QED BY <1>1, <1>2, <2>1, <2>2 DEF Contents
<1>4. \A state \in [Buttons -> Slots] : Loaded(state) \in Contents
  <2> TAKE state \in [Buttons -> Slots]
  <2> DEFINE m == [b \in Buttons |-> IF b \in Staged THEN state[b] ELSE mouse.macros[b]]
  <2>1. m \in [Buttons -> Slots]
    BY <1>1
  <2>2. Loaded(state) = [mouse EXCEPT !.macros = m]
    BY DEF Loaded
  <2> HIDE DEF m
  <2> QED BY <1>1, <2>1, <2>2 DEF Contents
<1>5. HalfLoaded \in Contents /\ AllLoaded \in Contents
  BY <1>2, <1>4 DEF HalfLoaded, AllLoaded
<1>6. ASSUME AckLayout
      PROVE  acked' \in [settings : SUBSET (Fields \X Values), layouts : SUBSET Layouts]
  BY <1>6, FieldTypes DEF AckLayout, EditsTypeOK
<1> QED BY <1>3, <1>5, <1>6

LEMMA ButtonStepTypes == EditsTypeOK /\ ButtonNext => EditsTypeOK'
<1> SUFFICES ASSUME EditsTypeOK, ButtonNext PROVE EditsTypeOK'
  OBVIOUS
<1>1. CASE \/ \E c \in Values : StageRemap(c)
           \/ \E b \in Buttons : StageMacro(b) \/ ClearButton(b)
           \/ ClearMacros \/ Discard
  <2>1. UNCHANGED <<settings, lighting, library, device, files, ops>>
    BY <1>1 DEF StageRemap, StageMacro, ClearButton, ClearMacros, Discard, Edit, Quiet
  <2>2. op' \in Operation /\ edits' \in 0..MaxEdits
    <3>1. CASE Edit("buttons")
      BY <3>1, EditTypes
    <3>2. CASE op' = op /\ edits < MaxEdits /\ edits' = edits + 1
      BY <3>2, EditBoundsAssumption DEF EditsTypeOK
    <3> QED BY <1>1, <3>1, <3>2 DEF StageRemap, StageMacro, ClearButton, ClearMacros, Discard
  <2>3. buttons' \in ButtonState
    <3>1. CASE \E c \in Values : StageRemap(c)
      BY <3>1, FieldTypes DEF StageRemap, ButtonState
    <3>2. CASE ClearMacros \/ Discard
      BY <3>2, FieldTypes, ConstantTypes DEF ClearMacros, Discard, ButtonState
    <3>3. CASE \E b \in Buttons : StageMacro(b) \/ ClearButton(b)
      <4>1. PICK b \in Buttons : StageMacro(b) \/ ClearButton(b)
        BY <3>3
      <4>2. \A m \in Macros \cup {NoMacro} : [buttons.drafts EXCEPT ![b] = m] \in Drafts
        BY FieldTypes DEF Drafts
      <4>3. \A d \in Drafts : [buttons EXCEPT !.drafts = d] \in ButtonState
        BY FieldTypes DEF ButtonState
      <4>4. \A m \in Macros \cup {NoMacro} : [buttons EXCEPT !.drafts[b] = m] \in ButtonState
        <5> TAKE m \in Macros \cup {NoMacro}
        <5>1. [buttons EXCEPT !.drafts[b] = m] = [buttons EXCEPT !.drafts = [buttons.drafts EXCEPT ![b] = m]]
          OBVIOUS
        <5> QED BY <4>2, <4>3, <5>1
      <4>5. library \in Macros \cup {NoMacro}
        BY DEF EditsTypeOK, ButtonTypeOK
      <4>6. \/ buttons' = [buttons EXCEPT !.firmware = "failed"]
            \/ buttons' = [buttons EXCEPT !.drafts[b] = library]
            \/ buttons' = [buttons EXCEPT !.drafts[b] = NoMacro]
        BY <4>1 DEF StageMacro, ClearButton
      <4>7. [buttons EXCEPT !.firmware = "failed"] \in ButtonState
        BY ButtonLabelTypes
      <4> QED BY <4>4, <4>5, <4>6, <4>7
    <3> QED BY <1>1, <3>1, <3>2, <3>3
  <2> QED BY <2>1, <2>2, <2>3 DEF EditsTypeOK, SettingsTypeOK, ButtonTypeOK, device, files
<1>2. CASE (\E c \in Values : ApplyButtons(c)) \/ RetryButtons
  <2>1. UNCHANGED <<settings, lighting, buttons, library, device, files, edits>>
    BY <1>2 DEF ApplyButtons, RetryButtons
  <2>2. \A k \in {"apply", "retry"}, pc \in {"admit", "record"}, y \in Layouts :
          [NoOperation EXCEPT !.pc = pc, !.kind = k, !.lane = "buttons", !.layout = y] \in Operation
    BY ConstantTypes DEF Operation
  <2>3. \A y \in Layouts : [NoOperation EXCEPT !.pc = "admit", !.lane = "buttons", !.layout = y] \in Operation
    BY ConstantTypes DEF Operation
  <2>4. op' \in Operation /\ ops' \in 0..MaxOps
    <3>1. CASE \E c \in Values : ApplyButtons(c)
      <4>1. PICK c \in Values : ApplyButtons(c)
        BY <3>1
      <4> DEFINE y == [config |-> c, macros |-> buttons.drafts]
      <4>2. y \in Layouts
        BY FieldTypes DEF Layouts
      <4>3. Begin([NoOperation EXCEPT !.pc = "admit", !.lane = "buttons", !.layout = y])
        BY <4>1 DEF ApplyButtons
      <4> HIDE DEF y
      <4> QED BY <2>3, <4>2, <4>3, BeginTypes
    <3>2. CASE RetryButtons
      <4> DEFINE y == [config |-> buttons.retry, macros |-> Plain]
      <4>1. y \in Layouts
        BY <3>2, FieldTypes, ConstantTypes DEF RetryButtons, ButtonState, Layouts
      <4>2. Begin([NoOperation EXCEPT !.pc = "record", !.kind = "retry", !.lane = "buttons", !.layout = y])
        BY <3>2 DEF RetryButtons
      <4> HIDE DEF y
      <4> QED BY <2>2, <4>1, <4>2, BeginTypes
    <3> QED BY <1>2, <3>1, <3>2
  <2> QED BY <2>1, <2>4 DEF EditsTypeOK, SettingsTypeOK, ButtonTypeOK, device, files
<1>3. CASE \E m \in Macros \cup {NoMacro} : EditLibrary(m)
  BY <1>3, EditBoundsAssumption DEF EditLibrary, EditsTypeOK, SettingsTypeOK, ButtonTypeOK, device, files
<1>4. CASE Admit \/ SendLayout \/ AcceptLayout \/ Assign \/ UploadChunks \/ AwaitStatus
  <2>1. UNCHANGED <<settings, lighting, library, files, counts>>
    BY <1>4 DEF Admit, SendLayout, AcceptLayout, Assign, UploadChunks, AwaitStatus, Quiet
  <2>2. op' \in Operation
    <3>1. CASE Admit
      <4>1. CASE Admitted
        <5> DEFINE pc == IF Staged = {} THEN "send" ELSE "assign"
        <5>1. op' = [op EXCEPT !.pc = pc] /\ pc \in {"send", "assign"}
          BY <3>1, <4>1 DEF Admit
        <5> HIDE DEF pc
        <5> QED BY <5>1, FieldTypes DEF Operation
      <4>2. CASE ~Admitted
        BY <3>1, <4>2, ConstantTypes DEF Admit, Fail, Release
      <4> QED BY <4>1, <4>2
    <3>2. CASE SendLayout \/ AcceptLayout
      BY <3>2, FieldTypes, ConstantTypes DEF SendLayout, AcceptLayout, Fail, Release, Operation
    <3>3. CASE Assign
      <4>1. \/ op' = NoOperation
            \/ op' = [op EXCEPT !.pc = "complete", !.failed = TRUE]
            \/ op' = [op EXCEPT !.pc = "complete", !.failed = TRUE, !.assignment = "unknown"]
            \/ op' = [op EXCEPT !.pc = "upload", !.assignment = "ack_confirmed"]
        BY <3>3 DEF Assign, Fail, Broken, Release
      <4>2. CASE op' = [op EXCEPT !.pc = "complete", !.failed = TRUE, !.assignment = "unknown"]
        BY <4>2, FieldTypes DEF Operation
      <4>3. CASE op' = [op EXCEPT !.pc = "upload", !.assignment = "ack_confirmed"]
        BY <4>3, FieldTypes DEF Operation
      <4>4. CASE op' = [op EXCEPT !.pc = "complete", !.failed = TRUE]
        BY <4>4, FieldTypes DEF Operation
      <4> QED BY <4>1, <4>2, <4>3, <4>4, ConstantTypes
    <3>4. CASE UploadChunks
      BY <3>4, FieldTypes DEF UploadChunks, Broken, Operation
    <3>5. CASE AwaitStatus
      BY <3>5, FieldTypes DEF AwaitStatus, Broken, Operation
    <3> QED BY <1>4, <3>1, <3>2, <3>3, <3>4, <3>5
  <2>3. buttons' \in ButtonState
    <3>1. CASE Admit
      <4>1. [buttons EXCEPT !.pending = op.layout.config, !.firmware = "pending", !.saved = "", !.retry = NoValue] \in ButtonState
        BY FieldTypes DEF ButtonState
      <4> QED BY <3>1, <4>1, ButtonLabelTypes DEF Admit, Fail, Failed
    <3>2. CASE AcceptLayout
      <4>1. [buttons EXCEPT !.applied = op.layout.config, !.macros = Plain, !.firmware = "success"] \in ButtonState
        BY FieldTypes, ConstantTypes DEF ButtonState
      <4> QED BY <3>2, <4>1, ButtonLabelTypes DEF AcceptLayout, Fail, Failed
    <3>3. CASE SendLayout \/ Assign \/ UploadChunks \/ AwaitStatus
      BY <3>3, ButtonLabelTypes, FieldTypes DEF SendLayout, Assign, UploadChunks, AwaitStatus, Fail, Failed
    <3> QED BY <1>4, <3>1, <3>2, <3>3
  <2>4. mouse' \in Contents /\ acked' \in [settings : SUBSET (Fields \X Values), layouts : SUBSET Layouts]
    BY <1>4, WrittenTypes DEF Admit, SendLayout, AcceptLayout, Assign, UploadChunks, AwaitStatus, device, EditsTypeOK
  <2> QED BY <2>1, <2>2, <2>3, <2>4 DEF EditsTypeOK, SettingsTypeOK, ButtonTypeOK, files, counts
<1>5. CASE \E ok \in BOOLEAN : CompleteMacros(ok) \/ SaveLayoutRecord(ok) \/ SaveLayoutProfile(ok)
  <2>1. PICK ok \in BOOLEAN : CompleteMacros(ok) \/ SaveLayoutRecord(ok) \/ SaveLayoutProfile(ok)
    BY <1>5
  <2>2. UNCHANGED <<settings, lighting, library, device, counts>>
    BY <2>1 DEF CompleteMacros, SaveLayoutRecord, SaveLayoutProfile, Quiet
  <2>3. op' \in Operation
    BY <2>1, FieldTypes, ConstantTypes DEF CompleteMacros, SaveLayoutRecord, SaveLayoutProfile, Release, Operation
  <2>4. record' \in [settings : [SettingLanes -> Values], config : Values]
    BY <2>1, FieldTypes DEF CompleteMacros, SaveLayoutRecord, SaveLayoutProfile, EditsTypeOK
  <2>5. profile' \in [settings : Sent, layout : Layouts]
    <3>1. Saved \in Layouts
      BY FieldTypes DEF Saved, Layouts
    <3>2. profile \in [settings : Sent, layout : Layouts]
      BY DEF EditsTypeOK
    <3> QED BY <2>1, <3>1, <3>2, FieldTypes DEF CompleteMacros, SaveLayoutRecord, SaveLayoutProfile
  <2>6. buttons' \in ButtonState
    <3>1. CASE CompleteMacros(ok)
      <4> DEFINE sv == IF ok THEN "success" ELSE "failed"
                 r == IF ok THEN buttons.retry ELSE op.layout.config
      <4>1. sv \in {"success", "failed"} /\ r \in Values \cup {NoValue}
        BY FieldTypes DEF ButtonState
      <4>2. \/ buttons' = [buttons EXCEPT !.applied = op.layout.config, !.macros = op.layout.macros,
                                         !.firmware = "success", !.saved = sv, !.retry = r]
            \/ buttons' = [buttons EXCEPT !.firmware = "failed"]
        BY <3>1 DEF CompleteMacros, Failed
      <4> HIDE DEF sv, r
      <4> QED BY <4>1, <4>2, FieldTypes DEF ButtonState
    <3>2. CASE SaveLayoutRecord(ok)
      BY <3>2, FieldTypes DEF SaveLayoutRecord
    <3>3. CASE SaveLayoutProfile(ok)
      BY <3>3, ButtonLabelTypes, FieldTypes DEF SaveLayoutProfile, Labels
    <3> QED BY <2>1, <3>1, <3>2, <3>3
  <2> QED BY <2>2, <2>3, <2>4, <2>5, <2>6 DEF EditsTypeOK, SettingsTypeOK, ButtonTypeOK, device, counts
<1> QED BY <1>1, <1>2, <1>3, <1>4, <1>5 DEF ButtonNext

LEMMA StepTypes == EditsTypeOK /\ [Next]_vars => EditsTypeOK'
<1> SUFFICES ASSUME EditsTypeOK, [Next]_vars PROVE EditsTypeOK'
  OBVIOUS
<1>1. CASE SettingsNext \/ ButtonNext
  BY <1>1, SettingsStepTypes, ButtonStepTypes
<1>2. CASE Refresh
  <2>1. op' \in Operation
    BY <1>2, FieldTypes DEF Refresh, Operation
  <2> QED BY <1>2, <2>1 DEF Refresh, EditsTypeOK, SettingsTypeOK, ButtonTypeOK, device, files, counts
<1>3. CASE UNCHANGED vars
  BY <1>3 DEF vars, EditsTypeOK, SettingsTypeOK, ButtonTypeOK, device, files, counts
<1> QED BY <1>1, <1>2, <1>3 DEF Next

-----------------------------------------------------------------------------
(* The initial states                                                        *)

LEMMA InitSettings == Init => SettingsInv
<1> SUFFICES ASSUME Init PROVE SettingsInv
  OBVIOUS
<1> USE DEF Init, SettingsInit, NoOperation, Running, Saving, Fields, SettingLanes, FactorySent
<1>1. SentIsCurrent
  BY DEF SentIsCurrent
<1>2. SavingIsShown
  BY DEF SavingIsShown
<1>3. SettingsShown /\ SettingsSaved
  BY DEF SettingsShown, SettingsSaved
<1>4. SettingsAcked
  BY DEF SettingsAcked
<1> QED BY <1>1, <1>2, <1>3, <1>4 DEF SettingsInv

LEMMA InitButtons == Init => ButtonsInv
<1> SUFFICES ASSUME Init PROVE ButtonsInv
  OBVIOUS
<1> USE DEF Init, ButtonInit, NoOperation, Running, Saving, FactoryLayout, Lane
<1>1. WritingInv /\ WrittenInv
  BY DEF WritingInv, WrittenInv
<1>2. LayoutInv /\ RetryIsApplied /\ ProgressCoversMouse
  BY DEF LayoutInv, Applied, RetryIsApplied, ProgressCoversMouse
<1>3. ButtonsShown /\ ButtonsSaved /\ ButtonsAcked
  BY DEF ButtonsShown, ButtonsSaved, ButtonsAcked
<1> QED BY <1>1, <1>2, <1>3 DEF ButtonsInv

-----------------------------------------------------------------------------
(* The settings and lighting lanes' steps                                    *)

\* What a person's edit does to the operation.
LEMMA EditLeaves ==
  ASSUME EditsTypeOK, NEW lane, Edit(lane)
  PROVE  /\ op'.pc = op.pc /\ op'.lane = op.lane /\ op'.kind = op.kind /\ op'.sent = op.sent /\ op'.value = op.value
         /\ op'.layout = op.layout /\ op'.stale = op.stale /\ op'.failed = op.failed
         /\ op'.assignment = op.assignment /\ op'.uploaded = op.uploaded
         /\ op'.moved = (op.moved \/ (op.pc # "idle" /\ op.lane = lane))
         /\ UNCHANGED <<library, mouse, acked, record, profile, ops>>
BY FieldTypes DEF Edit, Operation, device, files

\* The operation is over.
LEMMA Released ==
  ASSUME op' = NoOperation
  PROVE  op'.pc = "idle" /\ SentIsCurrent' /\ WritingInv' /\ WrittenInv'
BY DEF NoOperation, SentIsCurrent, WritingInv, WrittenInv, Running

LEMMA StageSettingKept ==
  ASSUME EditsTypeOK, SettingsInv, NEW l \in SettingLanes, NEW v \in Values, StageSetting(l, v)
  PROVE  SettingsInv'
<1>1. /\ settings'[l].value = v /\ settings'[l].firmware = "pending"
      /\ settings'[l].saved = settings[l].saved /\ settings'[l].retry = settings[l].retry
      /\ \A k \in SettingLanes : k # l => settings'[k] = settings[k]
  BY FieldTypes DEF StageSetting, LaneState, EditsTypeOK, SettingsTypeOK
<1>2. lighting' = lighting /\ ~HoldsApplyMu
  BY DEF StageSetting
<1>3. /\ op'.pc = op.pc /\ op'.lane = op.lane /\ op'.sent = op.sent /\ op'.value = op.value /\ op'.failed = op.failed
      /\ op'.moved = (op.moved \/ (op.pc # "idle" /\ op.lane = l))
      /\ mouse' = mouse /\ acked' = acked /\ record' = record /\ profile' = profile
  BY EditLeaves DEF StageSetting
<1>4. SentIsCurrent'
  BY <1>2, <1>3 DEF SettingsInv, SentIsCurrent, HoldsApplyMu, Running, SettingLanes
<1>5. SavingIsShown'
  BY <1>1, <1>2, <1>3 DEF SettingsInv, SavingIsShown, HoldsApplyMu, Saving, Running
<1>6. SettingsShown' /\ SettingsSaved'
  BY <1>1, <1>2, <1>3 DEF SettingsInv, SettingsShown, SettingsSaved, Saving, Running
<1>7. SettingsAcked'
  BY <1>3 DEF SettingsInv, SettingsAcked
<1> QED BY <1>4, <1>5, <1>6, <1>7 DEF SettingsInv

LEMMA StageLightingKept ==
  ASSUME EditsTypeOK, SettingsInv, NEW v \in Values, StageLighting(v)
  PROVE  SettingsInv'
<1>1. lighting'.pending = v /\ lighting'.firmware = "pending" /\ settings' = settings
  BY FieldTypes DEF StageLighting, LightingState
<1>2. /\ op'.pc = op.pc /\ op'.lane = op.lane /\ op'.sent = op.sent /\ op'.value = op.value /\ op'.failed = op.failed
      /\ op'.moved = (op.moved \/ (op.pc # "idle" /\ op.lane = "lighting"))
      /\ mouse' = mouse /\ acked' = acked /\ record' = record /\ profile' = profile
  BY EditLeaves DEF StageLighting
<1>3. SentIsCurrent'
  BY <1>1, <1>2 DEF SettingsInv, SentIsCurrent, Running, SettingLanes
<1>4. SavingIsShown'
  BY <1>1, <1>2 DEF SettingsInv, SavingIsShown, Saving, Running
<1>5. SettingsShown' /\ SettingsSaved'
  BY <1>1, <1>2 DEF SettingsInv, SettingsShown, SettingsSaved, Saving, Running
<1>6. SettingsAcked'
  BY <1>2 DEF SettingsInv, SettingsAcked
<1> QED BY <1>3, <1>4, <1>5, <1>6 DEF SettingsInv

\* Starting an apply or a retry, and the reads of what to send.
LEMMA ReadingKept ==
  ASSUME EditsTypeOK, SettingsInv,
         \/ \E l \in SettingLanes : ApplySettings(l) \/ RetrySetting(l)
         \/ ReadLighting \/ SettingsStale \/ ApplyLighting \/ ReadSettings
  PROVE  SettingsInv'
<1>1. UNCHANGED <<settings, mouse, acked, record, profile>>
  BY DEF ApplySettings, RetrySetting, ReadLighting, SettingsStale, ApplyLighting, ReadSettings, device, files
<1>2. SettingsAcked'
  BY <1>1 DEF SettingsInv, SettingsAcked
<1>3. CASE \E l \in SettingLanes : ApplySettings(l)
  <2>1. PICK l \in SettingLanes : ApplySettings(l)
    BY <1>3
  <2>2. /\ op.pc = "idle" /\ op'.pc = "lighting" /\ op'.lane = l /\ lighting' = lighting
        /\ op'.sent["sleep"] = settings["sleep"].value /\ op'.sent["response"] = settings["response"].value
    BY <2>1 DEF ApplySettings, Begin, NoOperation, FactorySent, Fields, SettingLanes
  <2>3. SentIsCurrent' /\ SavingIsShown'
    BY <1>1, <2>2 DEF SettingsInv, SentIsCurrent, SavingIsShown, Saving, Running, SettingLanes
  <2>4. SettingsShown' /\ SettingsSaved'
    BY <1>1, <2>2 DEF SettingsInv, SettingsShown, SettingsSaved, Saving, Running
  <2> QED BY <1>2, <2>3, <2>4 DEF SettingsInv
<1>4. CASE \E l \in SettingLanes : RetrySetting(l)
  <2>1. PICK l \in SettingLanes : RetrySetting(l)
    BY <1>4
  <2>2. /\ op.pc = "idle" /\ op'.pc = "record" /\ op'.lane = l /\ lighting' = lighting
        /\ op'.value = settings[l].retry /\ settings[l].retry # NoValue
    BY <2>1 DEF RetrySetting, Begin, NoOperation
  <2>3. SentIsCurrent' /\ SavingIsShown'
    BY <1>1, <2>2 DEF SettingsInv, SentIsCurrent, SavingIsShown, Saving, Running, SettingLanes
  <2>4. SettingsShown' /\ SettingsSaved'
    BY <1>1, <2>2 DEF SettingsInv, SettingsShown, SettingsSaved, Saving, Running
  <2> QED BY <1>2, <2>3, <2>4 DEF SettingsInv
<1>5. CASE ReadLighting
  <2>1. /\ op.pc = "lighting" /\ op.lane \in SettingLanes /\ op'.pc = "send" /\ op'.lane = op.lane /\ lighting' = lighting
        /\ op'.sent["lighting"] = lighting.pending
        /\ \A l \in SettingLanes : op'.sent[l] = op.sent[l]
    BY <1>5, FieldTypes DEF ReadLighting, Running, Operation, Sent, Fields, SettingLanes
  <2>2. SentIsCurrent' /\ SavingIsShown'
    BY <1>1, <2>1 DEF SettingsInv, SentIsCurrent, SavingIsShown, Saving, Running, SettingLanes
  <2>3. SettingsShown' /\ SettingsSaved'
    BY <1>1, <2>1 DEF SettingsInv, SettingsShown, SettingsSaved, Saving, Running
  <2> QED BY <1>2, <2>2, <2>3 DEF SettingsInv
<1>6. CASE SettingsStale
  <2>1. op.pc = "send" /\ op'.pc = "idle" /\ lighting' = lighting /\ SentIsCurrent'
    BY <1>6, Released DEF SettingsStale, Running, Release
  <2>2. SavingIsShown'
    BY <1>1, <2>1 DEF SettingsInv, SavingIsShown, Saving, Running
  <2>3. SettingsShown' /\ SettingsSaved'
    BY <1>1, <2>1 DEF SettingsInv, SettingsShown, SettingsSaved, Saving, Running
  <2> QED BY <1>2, <2>1, <2>2, <2>3 DEF SettingsInv
<1>7. CASE ApplyLighting
  <2>1. /\ op.pc = "idle" /\ op'.pc = "settings" /\ op'.lane = "lighting" /\ lighting' = lighting
        /\ op'.sent["lighting"] = lighting.pending /\ op'.moved = FALSE
    BY <1>7 DEF ApplyLighting, Begin, NoOperation, FactorySent, Fields
  <2>2. SentIsCurrent' /\ SavingIsShown'
    BY <1>1, <2>1 DEF SettingsInv, SentIsCurrent, SavingIsShown, Saving, Running, SettingLanes
  <2>3. SettingsShown' /\ SettingsSaved'
    BY <1>1, <2>1 DEF SettingsInv, SettingsShown, SettingsSaved, Saving, Running
  <2> QED BY <1>2, <2>2, <2>3 DEF SettingsInv
<1>8. CASE ReadSettings
  <2>1. op.pc = "settings" /\ op.lane = "lighting"
    BY <1>8 DEF ReadSettings, Running
  <2>2. CASE op.stale
    <3>1. lighting'.firmware = "failed" /\ op'.pc = "idle" /\ SentIsCurrent'
      BY <1>8, <2>2, Released, FieldTypes DEF ReadSettings, LightingFails, Release, LightingState
    <3>2. SavingIsShown'
      BY <1>1, <2>1, <3>1 DEF SettingsInv, SavingIsShown, Saving, Running
    <3>3. SettingsShown' /\ SettingsSaved'
      BY <1>1, <2>1, <3>1 DEF SettingsInv, SettingsShown, SettingsSaved, Saving, Running
    <3> QED BY <1>2, <3>1, <3>2, <3>3 DEF SettingsInv
  <2>3. CASE ~op.stale
    <3>1. /\ op'.pc = "send" /\ op'.lane = "lighting" /\ op'.moved = op.moved /\ lighting' = lighting
          /\ op'.sent["lighting"] = op.sent["lighting"]
          /\ \A l \in SettingLanes : op'.sent[l] = settings[l].value
      <4> DEFINE sent == [l \in Fields |-> IF l = "lighting" THEN op.sent[l] ELSE settings[l].value]
      <4>1. op' = [op EXCEPT !.pc = "send", !.sent = sent] /\ lighting' = lighting
        BY <1>8, <2>3 DEF ReadSettings
      <4>2. sent["lighting"] = op.sent["lighting"] /\ \A l \in SettingLanes : sent[l] = settings[l].value
        BY DEF Fields, SettingLanes
      <4> HIDE DEF sent
      <4> QED BY <2>1, <4>1, <4>2, FieldTypes DEF Operation
    <3>2. SentIsCurrent' /\ SavingIsShown'
      BY <1>1, <2>1, <3>1 DEF SettingsInv, SentIsCurrent, SavingIsShown, Saving, Running, SettingLanes
    <3>3. SettingsShown' /\ SettingsSaved'
      BY <1>1, <2>1, <3>1 DEF SettingsInv, SettingsShown, SettingsSaved, Saving, Running
    <3> QED BY <1>2, <3>2, <3>3 DEF SettingsInv
  <2> QED BY <2>2, <2>3
<1> QED BY <1>3, <1>4, <1>5, <1>6, <1>7, <1>8

\* The report of the settings, and what each outcome leaves.
LEMMA SendSettingsKept ==
  ASSUME EditsTypeOK, SettingsInv, SendSettings
  PROVE  SettingsInv'
<1>1. /\ op.pc = "send" /\ op.lane \in SettingLanes
      /\ lighting' = lighting /\ record' = record /\ profile' = profile
  BY DEF SendSettings, Running, files
<1>2. \A l \in SettingLanes : op.sent[l] = settings[l].value
  BY <1>1 DEF SettingsInv, SentIsCurrent
<1>3. lighting.firmware = "success" => op.sent["lighting"] = lighting.pending
  BY <1>1 DEF SettingsInv, SentIsCurrent, Running
<1>4. \A fw \in {"success", "failed"} : Firmware(fw) =>
        /\ settings'[op.lane].firmware = fw
        /\ \A k \in SettingLanes : k # op.lane => settings'[k] = settings[k]
        /\ \A k \in SettingLanes : /\ settings'[k].value = settings[k].value
                                   /\ settings'[k].saved = settings[k].saved /\ settings'[k].retry = settings[k].retry
  <2> TAKE fw \in {"success", "failed"}
  <2> HAVE Firmware(fw)
  <2> DEFINE l == op.lane
  <2>1. l \in SettingLanes /\ settings \in [SettingLanes -> LaneState] /\ settings' = [settings EXCEPT ![l].firmware = fw]
    BY <1>1 DEF Firmware, EditsTypeOK, SettingsTypeOK
  <2> HIDE DEF l
  <2>2. settings' = [settings EXCEPT ![l] = [settings[l] EXCEPT !.firmware = fw]] /\ settings[l] \in LaneState
    BY <2>1
  <2>3. \A k \in SettingLanes : k # l => settings'[k] = settings[k]
    BY <2>1, <2>2
  <2>4. settings'[l] = [settings[l] EXCEPT !.firmware = fw]
    BY <2>1, <2>2
  <2>5. /\ settings'[l].firmware = fw /\ settings'[l].value = settings[l].value
        /\ settings'[l].saved = settings[l].saved /\ settings'[l].retry = settings[l].retry
    BY <2>2, <2>4 DEF LaneState
  <2> QED BY <2>3, <2>5 DEF l
<1>5. CASE Acknowledge /\ Firmware("success") /\ op' = [op EXCEPT !.pc = "record", !.value = op.sent[op.lane]]
  <2>1. /\ op'.pc = "record" /\ op'.lane = op.lane /\ op'.value = settings[op.lane].value
        /\ mouse'.settings = op.sent
    BY <1>1, <1>2, <1>5, FieldTypes DEF Acknowledge, Holds, Contents, Operation
  <2>2. acked.settings \subseteq acked'.settings /\ \A f \in Fields : <<f, op.sent[f]>> \in acked'.settings
    BY <1>5 DEF Acknowledge, EditsTypeOK
  <2>3. <<op.lane, op'.value>> \in acked'.settings
    BY <1>1, <1>2, <2>1, <2>2 DEF Fields
  <2>4. SentIsCurrent'
    BY <1>1, <2>1 DEF SentIsCurrent, Running, SettingLanes
  <2>5. SavingIsShown'
    BY <1>1, <1>4, <1>5, <2>1, <2>2, <2>3 DEF SettingsInv, SavingIsShown, Saving, Running
  <2>6. SettingsShown'
    BY <1>1, <1>2, <1>3, <1>4, <1>5, <2>1 DEF SettingsInv, SettingsShown
  <2>7. SettingsSaved'
    BY <1>1, <1>4, <1>5, <2>1 DEF SettingsInv, SettingsSaved, Saving, Running
  <2>8. SettingsAcked'
    BY <1>1, <2>2 DEF SettingsInv, SettingsAcked
  <2> QED BY <2>4, <2>5, <2>6, <2>7, <2>8 DEF SettingsInv
<1>6. CASE Unanswered /\ Firmware("failed") /\ Release
  <2>1. op'.pc = "idle" /\ SentIsCurrent' /\ acked' = acked
    BY <1>6, Released DEF Release, Unanswered
  <2>2. mouse' = mouse \/ mouse'.settings = op.sent
    BY <1>6, FieldTypes DEF Unanswered, Holds, Contents
  <2>3. SavingIsShown'
    BY <1>1, <1>4, <1>6, <2>1 DEF SettingsInv, SavingIsShown, Saving, Running
  <2>4. SettingsShown'
    BY <1>1, <1>2, <1>3, <1>4, <1>6, <2>2 DEF SettingsInv, SettingsShown
  <2>5. SettingsSaved'
    BY <1>1, <1>4, <1>6, <2>1 DEF SettingsInv, SettingsSaved, Saving, Running
  <2>6. SettingsAcked'
    BY <1>1, <2>1 DEF SettingsInv, SettingsAcked
  <2> QED BY <2>1, <2>3, <2>4, <2>5, <2>6 DEF SettingsInv
<1> QED BY <1>5, <1>6 DEF SendSettings

\* The same report for the lighting lane.
LEMMA SendLightingKept ==
  ASSUME EditsTypeOK, SettingsInv, SendLighting
  PROVE  SettingsInv'
<1>1. /\ op.pc = "send" /\ op.lane = "lighting"
      /\ settings' = settings /\ record' = record /\ profile' = profile
  BY DEF SendLighting, Running, files
<1>2. \A l \in SettingLanes : op.sent[l] = settings[l].value
  BY <1>1 DEF SettingsInv, SentIsCurrent
<1>3. CASE Acknowledge /\ op' = [op EXCEPT !.pc = "accept"] /\ UNCHANGED lighting
  <2>1. /\ op'.pc = "accept" /\ op'.lane = "lighting" /\ op'.sent = op.sent /\ op'.moved = op.moved
        /\ mouse'.settings = op.sent /\ lighting' = lighting
    BY <1>1, <1>3, FieldTypes DEF Acknowledge, Holds, Contents, Operation
  <2>2. acked.settings \subseteq acked'.settings /\ \A f \in Fields : <<f, op.sent[f]>> \in acked'.settings
    BY <1>3 DEF Acknowledge, EditsTypeOK
  <2>3. IF op.moved THEN lighting.firmware # "success" ELSE op.sent["lighting"] = lighting.pending
    BY <1>1 DEF SettingsInv, SentIsCurrent
  <2>4. SentIsCurrent'
    BY <1>1, <1>2, <2>1, <2>2, <2>3 DEF SentIsCurrent, Running, SettingLanes, Fields
  <2>5. SavingIsShown'
    BY <1>1, <2>1, <2>2 DEF SettingsInv, SavingIsShown, Saving, Running
  <2>6. SettingsShown'
    BY <1>1, <1>2, <2>1, <2>3 DEF SettingsInv, SettingsShown
  <2>7. SettingsSaved'
    BY <1>1, <2>1 DEF SettingsInv, SettingsSaved, Saving, Running
  <2>8. SettingsAcked'
    BY <1>1, <2>2 DEF SettingsInv, SettingsAcked
  <2> QED BY <2>4, <2>5, <2>6, <2>7, <2>8 DEF SettingsInv
<1>4. CASE (UNCHANGED device \/ Unanswered) /\ LightingFails /\ Release
  <2>1. op'.pc = "idle" /\ SentIsCurrent' /\ acked' = acked /\ lighting'.firmware = "failed"
    BY <1>4, Released, FieldTypes DEF Release, Unanswered, device, LightingFails, LightingState
  <2>2. mouse' = mouse \/ mouse'.settings = op.sent
    BY <1>4, FieldTypes DEF Unanswered, Holds, Contents, device
  <2>3. SavingIsShown'
    BY <1>1, <2>1 DEF SettingsInv, SavingIsShown, Saving, Running
  <2>4. SettingsShown'
    BY <1>1, <1>2, <2>1, <2>2 DEF SettingsInv, SettingsShown
  <2>5. SettingsSaved'
    BY <1>1, <2>1 DEF SettingsInv, SettingsSaved, Saving, Running
  <2>6. SettingsAcked'
    BY <1>1, <2>1 DEF SettingsInv, SettingsAcked
  <2> QED BY <2>1, <2>3, <2>4, <2>5, <2>6 DEF SettingsInv
<1> QED BY <1>3, <1>4 DEF SendLighting

\* The lighting's revision is compared and its profile saved in one step.
LEMMA AcceptLightingKept ==
  ASSUME EditsTypeOK, SettingsInv, NEW ok \in BOOLEAN, AcceptLighting(ok)
  PROVE  SettingsInv'
<1>1. /\ op.pc = "accept" /\ op.lane = "lighting" /\ op'.pc = "idle" /\ SentIsCurrent'
      /\ settings' = settings /\ mouse' = mouse /\ acked' = acked /\ record' = record
  BY Released DEF AcceptLighting, Running, Release, device
<1>2. mouse.settings = op.sent /\ <<"lighting", op.sent["lighting"]>> \in acked.settings
  BY <1>1 DEF SettingsInv, SentIsCurrent, Running
<1>3. SavingIsShown'
  BY <1>1 DEF SettingsInv, SavingIsShown, Saving, Running
<1>4. CASE op.moved
  <2>1. lighting'.firmware = "failed" /\ profile' = profile
    BY <1>4, FieldTypes DEF AcceptLighting, LightingFails, LightingState
  <2>2. SettingsShown' /\ SettingsSaved'
    BY <1>1, <2>1 DEF SettingsInv, SettingsShown, SettingsSaved, Saving, Running
  <2>3. SettingsAcked'
    BY <1>1, <2>1 DEF SettingsInv, SettingsAcked
  <2> QED BY <1>1, <1>3, <2>2, <2>3 DEF SettingsInv
<1>5. CASE ~op.moved
  <2>1. /\ lighting'.pending = lighting.pending /\ lighting'.applied = op.sent["lighting"]
        /\ lighting'.firmware = "success" /\ lighting'.unsaved = ~ok
    BY <1>5, FieldTypes DEF AcceptLighting, LightingState
  <2>2. op.sent["lighting"] = lighting.pending
    BY <1>1, <1>5 DEF SettingsInv, SentIsCurrent
  <2>3. /\ \A l \in SettingLanes : profile'.settings[l] = profile.settings[l]
        /\ profile'.settings["lighting"] = IF ok THEN op.sent["lighting"] ELSE profile.settings["lighting"]
    BY <1>5, FieldTypes DEF AcceptLighting, EditsTypeOK, Sent, Fields, SettingLanes
  <2>4. SettingsShown'
    BY <1>1, <1>2, <2>1, <2>2 DEF SettingsInv, SettingsShown
  <2>5. SettingsSaved'
    BY <1>1, <2>1, <2>3 DEF SettingsInv, SettingsSaved, Saving, Running
  <2>6. SettingsAcked'
    BY <1>1, <1>2, <2>3 DEF SettingsInv, SettingsAcked, Fields
  <2> QED BY <1>1, <1>3, <2>4, <2>5, <2>6 DEF SettingsInv
<1> QED BY <1>4, <1>5

\* The two saves of a setting.
LEMMA SaveSettingKept ==
  ASSUME EditsTypeOK, SettingsInv, NEW ok \in BOOLEAN, SaveSettingRecord(ok) \/ SaveSettingProfile(ok)
  PROVE  SettingsInv'
<1>1. /\ op.pc \in {"record", "profile"} /\ op.lane \in SettingLanes /\ Saving({op.lane})
      /\ lighting' = lighting /\ mouse' = mouse /\ acked' = acked
  BY DEF SaveSettingRecord, SaveSettingProfile, Saving, Running, device
<1>2. /\ <<op.lane, op.value>> \in acked.settings
      /\ settings[op.lane].firmware = "success" => op.value = settings[op.lane].value
  BY <1>1 DEF SettingsInv, SavingIsShown
<1>3. CASE SaveSettingRecord(ok)
  <2>1. /\ op'.pc = "profile" /\ op'.lane = op.lane /\ op'.value = op.value /\ op'.failed = ~ok
        /\ settings' = settings /\ profile' = profile
    BY <1>3, FieldTypes DEF SaveSettingRecord, Operation
  <2>2. /\ ok => record'.settings[op.lane] = op.value
        /\ ~ok => record' = record
        /\ \A l \in SettingLanes : l # op.lane => record'.settings[l] = record.settings[l]
    BY <1>1, <1>3, FieldTypes DEF SaveSettingRecord, EditsTypeOK
  <2>3. SentIsCurrent'
    BY <1>1, <2>1 DEF SentIsCurrent, Running, SettingLanes
  <2>4. SavingIsShown'
    BY <1>1, <1>2, <2>1, <2>2 DEF SettingsInv, SavingIsShown, Saving, Running
  <2>5. SettingsShown'
    BY <1>1, <2>1 DEF SettingsInv, SettingsShown
  <2>6. SettingsSaved'
    BY <1>1, <2>1, <2>2 DEF SettingsInv, SettingsSaved, Saving, Running
  <2>7. SettingsAcked'
    BY <1>1, <1>2, <2>1, <2>2 DEF SettingsInv, SettingsAcked
  <2> QED BY <2>3, <2>4, <2>5, <2>6, <2>7 DEF SettingsInv
<1>4. CASE SaveSettingProfile(ok)
  <2> DEFINE saved == ok /\ ~op.failed
  <2>1. op.pc = "profile" /\ op'.pc = "idle" /\ SentIsCurrent' /\ record' = record
    BY <1>4, Released DEF SaveSettingProfile, Release, Running
  <2>2. /\ ok => profile'.settings[op.lane] = op.value
        /\ ~ok => profile' = profile
        /\ \A f \in Fields : f # op.lane => profile'.settings[f] = profile.settings[f]
    BY <1>1, <1>4, FieldTypes DEF SaveSettingProfile, EditsTypeOK, Sent, Fields
  <2>3. /\ settings'[op.lane].value = settings[op.lane].value /\ settings'[op.lane].firmware = settings[op.lane].firmware
        /\ settings'[op.lane].saved = (IF saved THEN "success" ELSE "failed")
        /\ settings'[op.lane].retry = (IF saved THEN NoValue ELSE op.value)
        /\ \A k \in SettingLanes : k # op.lane => settings'[k] = settings[k]
    <3> DEFINE label == IF saved THEN "success" ELSE "failed"
               r == IF saved THEN NoValue ELSE op.value
    <3>1. settings' = [settings EXCEPT ![op.lane].saved = label, ![op.lane].retry = r]
      BY <1>4 DEF SaveSettingProfile
    <3>2. settings \in [SettingLanes -> LaneState]
      BY DEF EditsTypeOK, SettingsTypeOK
    <3> DEFINE l == op.lane
    <3> HIDE DEF label, r
    <3>3. l \in SettingLanes /\ settings' = [settings EXCEPT ![l].saved = label, ![l].retry = r]
      BY <1>1, <3>1
    <3> HIDE DEF l
    <3>4. settings'[l] = [settings[l] EXCEPT !.saved = label, !.retry = r]
      BY <3>2, <3>3
    <3>5. \A k \in SettingLanes : k # l => settings'[k] = settings[k]
      BY <3>2, <3>3
    <3>6. /\ settings'[l].value = settings[l].value /\ settings'[l].firmware = settings[l].firmware
          /\ settings'[l].saved = label /\ settings'[l].retry = r
      <4>1. settings[l] \in LaneState
        BY <3>2, <3>3
      <4> QED BY <3>4, <4>1 DEF LaneState
    <3> QED BY <3>5, <3>6 DEF label, r, l
  <2>4. SavingIsShown'
    BY <1>1, <1>2, <2>1, <2>3 DEF SettingsInv, SavingIsShown, Saving, Running
  <2>5. SettingsShown'
    BY <1>1, <2>3 DEF SettingsInv, SettingsShown
  <2>6. ~op.failed => record.settings[op.lane] = op.value
    BY <1>1, <2>1 DEF SettingsInv, SavingIsShown, Running
  <2>7. SettingsSaved'
    BY <1>1, <1>2, <2>1, <2>2, <2>3, <2>6 DEF SettingsInv, SettingsSaved, Saving, Running, SettingLanes, Fields
  <2>8. SettingsAcked'
    BY <1>1, <1>2, <2>1, <2>2 DEF SettingsInv, SettingsAcked, Fields
  <2> QED BY <2>1, <2>4, <2>5, <2>7, <2>8 DEF SettingsInv
<1> QED BY <1>3, <1>4

LEMMA SettingsStepsKept == EditsTypeOK /\ SettingsInv /\ SettingsNext => SettingsInv'
BY StageSettingKept, StageLightingKept, ReadingKept, SendSettingsKept, SendLightingKept, AcceptLightingKept,
   SaveSettingKept DEF SettingsNext

-----------------------------------------------------------------------------
(* The button lane's steps                                                   *)

\* A step that changes no call of an operation and nothing that is applied or
\* saved; it may fail the lane.
LEMMA ButtonsFrame ==
  ASSUME ButtonsInv,
         op'.pc = op.pc, op'.lane = op.lane, op'.kind = op.kind, op'.layout = op.layout, op'.failed = op.failed,
         op'.assignment = op.assignment, op'.uploaded = op.uploaded,
         buttons'.applied = buttons.applied, buttons'.macros = buttons.macros,
         buttons'.saved = buttons.saved, buttons'.retry = buttons.retry,
         buttons'.firmware = buttons.firmware \/ buttons'.firmware = "failed",
         mouse'.config = mouse.config, mouse'.macros = mouse.macros,
         acked'.layouts = acked.layouts, record'.config = record.config, profile'.layout = profile.layout
  PROVE  ButtonsInv'
<1>1. WritingInv'
  BY DEF ButtonsInv, WritingInv
<1>2. WrittenInv'
  BY DEF ButtonsInv, WrittenInv, Running, OnMouse, Staged
<1>3. LayoutInv' /\ RetryIsApplied'
  BY DEF ButtonsInv, LayoutInv, RetryIsApplied, Applied, Running
<1>4. ProgressCoversMouse'
  BY DEF ButtonsInv, ProgressCoversMouse, Running, Staged
<1>5. ButtonsShown' /\ ButtonsSaved' /\ ButtonsAcked'
  BY DEF ButtonsInv, ButtonsShown, ButtonsSaved, ButtonsAcked, Applied, Saving, Running
<1> QED BY <1>1, <1>2, <1>3, <1>4, <1>5 DEF ButtonsInv

\* A step of an operation of another lane.
LEMMA ButtonsElsewhere ==
  ASSUME ButtonsInv, op.pc = "idle" \/ op.lane # "buttons", op'.pc = "idle" \/ op'.lane # "buttons",
         buttons' = buttons, mouse'.config = mouse.config, mouse'.macros = mouse.macros,
         acked'.layouts = acked.layouts, record'.config = record.config, profile'.layout = profile.layout
  PROVE  ButtonsInv'
<1>1. WritingInv' /\ WrittenInv' /\ ProgressCoversMouse'
  BY DEF WritingInv, WrittenInv, ProgressCoversMouse, Running, Lane
<1>2. LayoutInv' /\ RetryIsApplied'
  BY DEF ButtonsInv, LayoutInv, RetryIsApplied, Applied, Running, Lane
<1>3. ButtonsShown' /\ ButtonsSaved' /\ ButtonsAcked'
  BY DEF ButtonsInv, ButtonsShown, ButtonsSaved, ButtonsAcked, Applied, Saving, Running
<1> QED BY <1>1, <1>2, <1>3 DEF ButtonsInv

\* An operation that fails leaves what is applied and saved, whatever the mouse took.
LEMMA ButtonsFail ==
  ASSUME EditsTypeOK, ButtonsInv, Fail, acked'.layouts = acked.layouts,
         record'.config = record.config, profile'.layout = profile.layout
  PROVE  ButtonsInv'
<1>1. op'.pc = "idle" /\ WritingInv' /\ WrittenInv'
  BY Released DEF Fail, Release
<1>2. /\ buttons'.applied = buttons.applied /\ buttons'.macros = buttons.macros /\ buttons'.saved = buttons.saved
      /\ buttons'.retry = buttons.retry /\ buttons'.firmware = "failed"
  BY FieldTypes DEF Fail, Failed, ButtonState
<1>3. LayoutInv' /\ RetryIsApplied' /\ ProgressCoversMouse'
  BY <1>1, <1>2 DEF ButtonsInv, LayoutInv, RetryIsApplied, ProgressCoversMouse, Applied, Running
<1>4. ButtonsShown' /\ ButtonsSaved' /\ ButtonsAcked'
  BY <1>1, <1>2 DEF ButtonsInv, ButtonsShown, ButtonsSaved, ButtonsAcked
<1> QED BY <1>1, <1>3, <1>4 DEF ButtonsInv

\* A layout is what is applied when both its parts are.
LEMMA LayoutParts ==
  /\ \A y, z \in Layouts : y.config = z.config /\ y.macros = z.macros => y = z
  /\ EditsTypeOK => Applied \in Layouts /\ Applied.config = buttons.applied /\ Applied.macros = buttons.macros
<1>1. \A y, z \in Layouts : y.config = z.config /\ y.macros = z.macros => y = z
  BY DEF Layouts
<1>2. EditsTypeOK => Applied \in Layouts /\ Applied.config = buttons.applied /\ Applied.macros = buttons.macros
  BY FieldTypes DEF Applied, Layouts
<1> QED BY <1>1, <1>2

LEMMA StagedNone ==
  ASSUME EditsTypeOK
  PROVE  Staged = {} <=> op.layout.macros = Plain
<1> DEFINE m == op.layout.macros
<1>1. m \in [Buttons -> Macros \cup {NoMacro}]
  BY FieldTypes DEF Drafts
<1>2. Staged = {b \in Buttons : m[b] # NoMacro}
  BY DEF Staged
<1> HIDE DEF m
<1>3. Staged = {} <=> \A b \in Buttons : m[b] = NoMacro
  BY <1>2
<1>4. m = Plain <=> \A b \in Buttons : m[b] = NoMacro
  BY <1>1 DEF Plain
<1> QED BY <1>3, <1>4 DEF m

LEMMA ButtonEditsKept ==
  ASSUME EditsTypeOK, ButtonsInv,
         \/ \E c \in Values : StageRemap(c)
         \/ \E b \in Buttons : StageMacro(b) \/ ClearButton(b)
         \/ ClearMacros \/ Discard
         \/ \E m \in Macros \cup {NoMacro} : EditLibrary(m)
  PROVE  ButtonsInv'
<1>1. \/ Edit("buttons")
      \/ op' = op /\ UNCHANGED <<device, files>>
  BY DEF StageRemap, StageMacro, ClearButton, ClearMacros, Discard, EditLibrary
<1>2. /\ op'.pc = op.pc /\ op'.lane = op.lane /\ op'.kind = op.kind /\ op'.layout = op.layout /\ op'.failed = op.failed
      /\ op'.assignment = op.assignment /\ op'.uploaded = op.uploaded
      /\ mouse' = mouse /\ acked' = acked /\ record' = record /\ profile' = profile
  BY <1>1, EditLeaves DEF device, files
<1>3. /\ buttons'.applied = buttons.applied /\ buttons'.macros = buttons.macros
      /\ buttons'.saved = buttons.saved /\ buttons'.retry = buttons.retry
      /\ buttons'.firmware = buttons.firmware \/ buttons'.firmware = "failed"
  BY FieldTypes DEF StageRemap, StageMacro, ClearButton, ClearMacros, Discard, EditLibrary, ButtonState
<1> QED BY <1>2, <1>3, ButtonsFrame

LEMMA ButtonBeginsKept ==
  ASSUME EditsTypeOK, ButtonsInv, (\E c \in Values : ApplyButtons(c)) \/ RetryButtons
  PROVE  ButtonsInv'
<1>1. /\ op.pc = "idle" /\ op'.lane = "buttons" /\ op'.failed = FALSE /\ op'.assignment = "not_started"
      /\ op'.uploaded = "not_started"
      /\ buttons' = buttons /\ mouse' = mouse /\ acked' = acked /\ record' = record /\ profile' = profile
  BY DEF ApplyButtons, RetryButtons, Begin, NoOperation, device, files
<1>2. \/ op'.pc = "admit" /\ op'.kind = "apply"
      \/ op'.pc = "record" /\ op'.kind = "retry" /\ op'.layout.config = buttons.retry /\ buttons.retry # NoValue
  <2>1. CASE \E c \in Values : ApplyButtons(c)
    BY <2>1 DEF ApplyButtons, Begin, NoOperation
  <2>2. CASE RetryButtons
    <3> DEFINE y == [config |-> buttons.retry, macros |-> Plain]
    <3>1. op' = [NoOperation EXCEPT !.pc = "record", !.kind = "retry", !.lane = "buttons", !.layout = y]
      BY <2>2 DEF RetryButtons, Begin
    <3>2. y.config = buttons.retry /\ buttons.retry # NoValue
      BY <2>2 DEF RetryButtons
    <3> HIDE DEF y
    <3>3. op'.pc = "record" /\ op'.kind = "retry" /\ op'.layout = y
      BY <3>1 DEF NoOperation
    <3> QED BY <3>2, <3>3
  <2> QED BY <2>1, <2>2
<1>3. WritingInv' /\ WrittenInv' /\ ProgressCoversMouse'
  BY <1>1, <1>2 DEF WritingInv, WrittenInv, ProgressCoversMouse, Running
<1>4. LayoutInv' /\ RetryIsApplied'
  BY <1>1, <1>2 DEF ButtonsInv, LayoutInv, RetryIsApplied, Applied, Running
<1>5. ButtonsShown' /\ ButtonsSaved' /\ ButtonsAcked'
  BY <1>1, <1>2 DEF ButtonsInv, ButtonsShown, ButtonsSaved, ButtonsAcked, Applied, Saving, Running
<1> QED BY <1>3, <1>4, <1>5 DEF ButtonsInv

LEMMA AdmitKept ==
  ASSUME EditsTypeOK, ButtonsInv, Admit
  PROVE  ButtonsInv'
<1>1. /\ op.pc = "admit" /\ op.lane = "buttons"
      /\ mouse' = mouse /\ acked' = acked /\ record' = record /\ profile' = profile
  BY DEF Admit, Running, Lane, device, files
<1>2. CASE Admitted
  <2>1. /\ buttons'.firmware = "pending" /\ buttons'.saved = "" /\ buttons'.retry = NoValue
        /\ buttons'.applied = buttons.applied /\ buttons'.macros = buttons.macros
    BY <1>2, FieldTypes DEF Admit, ButtonState
  <2>2. /\ op'.pc = (IF op.layout.macros = Plain THEN "send" ELSE "assign")
        /\ op'.lane = op.lane /\ op'.kind = op.kind /\ op'.layout = op.layout /\ op'.failed = op.failed
        /\ op'.assignment = op.assignment /\ op'.uploaded = op.uploaded
    <3> DEFINE pc == IF Staged = {} THEN "send" ELSE "assign"
    <3>1. op' = [op EXCEPT !.pc = pc]
      BY <1>2 DEF Admit
    <3>2. pc = IF op.layout.macros = Plain THEN "send" ELSE "assign"
      BY StagedNone
    <3> HIDE DEF pc
    <3> QED BY <3>1, <3>2, FieldTypes DEF Operation
  <2>3. WritingInv'
    BY <1>1, <2>1, <2>2 DEF ButtonsInv, WritingInv
  <2>4. WrittenInv' /\ ProgressCoversMouse'
    BY <2>2 DEF WrittenInv, ProgressCoversMouse, Running
  <2>5. LayoutInv' /\ RetryIsApplied'
    BY <1>1, <2>1, <2>2 DEF ButtonsInv, LayoutInv, RetryIsApplied, Applied, Running
  <2>6. ButtonsShown' /\ ButtonsSaved' /\ ButtonsAcked'
    BY <1>1, <2>1 DEF ButtonsInv, ButtonsShown, ButtonsSaved, ButtonsAcked
  <2> QED BY <2>3, <2>4, <2>5, <2>6 DEF ButtonsInv
<1>3. CASE ~Admitted
  BY <1>1, <1>3, ButtonsFail DEF Admit
<1> QED BY <1>2, <1>3

LEMMA SendLayoutKept ==
  ASSUME EditsTypeOK, ButtonsInv, SendLayout
  PROVE  ButtonsInv'
<1>1. op.pc = "send" /\ op.lane = "buttons" /\ record' = record /\ profile' = profile
  BY DEF SendLayout, Running, Lane, files
<1>2. CASE mouse' = Assigned /\ AckLayout /\ op' = [op EXCEPT !.pc = "accept"] /\ UNCHANGED buttons
  <2>1. /\ op'.pc = "accept" /\ op'.lane = op.lane /\ op'.kind = op.kind /\ op'.layout = op.layout
        /\ op'.failed = op.failed /\ op'.assignment = op.assignment /\ op'.uploaded = op.uploaded
    BY <1>2, FieldTypes DEF Operation
  <2>2. op.layout.macros = Plain /\ Staged = {}
    BY <1>1, StagedNone DEF ButtonsInv, WritingInv
  <2>3. mouse'.config = op.layout.config /\ mouse'.macros = op.layout.macros
    BY <1>2, <2>2, FieldTypes DEF Assigned, Contents, Plain
  <2>4. acked'.layouts = acked.layouts \cup {op.layout}
    BY <1>2 DEF AckLayout, EditsTypeOK
  <2>5. WritingInv'
    BY <1>1, <1>2, <2>1 DEF ButtonsInv, WritingInv
  <2>6. WrittenInv' /\ ProgressCoversMouse'
    BY <2>1, <2>3, <2>4 DEF WrittenInv, ProgressCoversMouse, Running, OnMouse
  <2>7. LayoutInv' /\ RetryIsApplied'
    BY <1>1, <1>2, <2>1, <2>4 DEF ButtonsInv, LayoutInv, RetryIsApplied, Applied, Running
  <2>8. ButtonsShown' /\ ButtonsSaved' /\ ButtonsAcked'
    BY <1>1, <1>2, <2>4 DEF ButtonsInv, WritingInv, ButtonsShown, ButtonsSaved, ButtonsAcked
  <2> QED BY <2>5, <2>6, <2>7, <2>8 DEF ButtonsInv
<1>3. CASE Fail /\ acked' = acked
  BY <1>1, <1>3, ButtonsFail
<1> QED BY <1>2, <1>3 DEF SendLayout, device

LEMMA AcceptLayoutKept ==
  ASSUME EditsTypeOK, ButtonsInv, AcceptLayout
  PROVE  ButtonsInv'
<1>1. /\ op.pc = "accept" /\ op.lane = "buttons"
      /\ mouse' = mouse /\ acked' = acked /\ record' = record /\ profile' = profile
  BY DEF AcceptLayout, Running, Lane, device, files
<1>2. CASE op.moved \/ op.stale
  BY <1>1, <1>2, ButtonsFail DEF AcceptLayout
<1>3. CASE ~(op.moved \/ op.stale)
  <2>1. /\ op'.pc = "record" /\ op'.lane = op.lane /\ op'.kind = op.kind /\ op'.layout = op.layout
    BY <1>3, FieldTypes DEF AcceptLayout, Operation
  <2>2. /\ buttons'.applied = op.layout.config /\ buttons'.macros = Plain /\ buttons'.firmware = "success"
        /\ buttons'.saved = buttons.saved /\ buttons'.retry = buttons.retry
    BY <1>3, FieldTypes DEF AcceptLayout, ButtonState
  <2>3. /\ op.layout.macros = Plain /\ buttons.saved = "" /\ buttons.retry = NoValue
        /\ OnMouse /\ op.layout \in acked.layouts
    BY <1>1 DEF ButtonsInv, WritingInv, WrittenInv, Running, Lane
  <2>4. Applied' = op.layout
    BY <2>2, <2>3, FieldTypes DEF Applied, Layouts
  <2>5. WritingInv' /\ WrittenInv' /\ ProgressCoversMouse'
    BY <2>1 DEF WritingInv, WrittenInv, ProgressCoversMouse, Running
  <2>6. LayoutInv' /\ RetryIsApplied'
    BY <1>1, <2>1, <2>2, <2>3, <2>4 DEF LayoutInv, RetryIsApplied, Running
  <2>7. ButtonsShown' /\ ButtonsSaved' /\ ButtonsAcked'
    BY <1>1, <2>1, <2>2, <2>3 DEF ButtonsInv, ButtonsShown, ButtonsSaved, ButtonsAcked, OnMouse
  <2> QED BY <2>5, <2>6, <2>7 DEF ButtonsInv
<1> QED BY <1>2, <1>3

\* A step of the write of a layout with macros that does not end it: the labels
\* stay, and only what the mouse holds and how far the write came changes.
LEMMA MacroWriteKept ==
  ASSUME EditsTypeOK, ButtonsInv, op.lane = "buttons", op.pc \in {"assign", "upload", "status"},
         op'.lane = "buttons", op'.kind = op.kind, op'.layout = op.layout, op'.pc \in {"upload", "status", "complete"},
         op'.pc \in {"upload", "status"} => ~op'.failed,
         op'.pc = "upload" => op'.uploaded = "not_started",
         buttons' = buttons, acked.layouts \subseteq acked'.layouts,
         record'.config = record.config, profile'.layout = profile.layout,
         WrittenInv', ProgressCoversMouse'
  PROVE  ButtonsInv'
<1>1. WritingInv'
  BY DEF ButtonsInv, WritingInv
<1>2. LayoutInv' /\ RetryIsApplied'
  BY DEF ButtonsInv, LayoutInv, RetryIsApplied, Applied, Running
<1>3. buttons.firmware # "success"
  BY DEF ButtonsInv, WritingInv
<1>4. ButtonsShown' /\ ButtonsSaved' /\ ButtonsAcked'
  BY <1>3 DEF ButtonsInv, ButtonsShown, ButtonsSaved, ButtonsAcked
<1> QED BY <1>1, <1>2, <1>4 DEF ButtonsInv

LEMMA AssignKept ==
  ASSUME EditsTypeOK, ButtonsInv, Assign
  PROVE  ButtonsInv'
<1>1. op.pc = "assign" /\ op.lane = "buttons" /\ record' = record /\ profile' = profile /\ acked' = acked
  BY DEF Assign, Running, Lane, files, device
<1>2. ~op.failed /\ op.uploaded = "not_started" /\ op.assignment = "not_started"
  BY <1>1 DEF ButtonsInv, WritingInv
<1>3. CASE Fail
  BY <1>1, <1>3, ButtonsFail
<1>4. CASE /\ buttons' = buttons
           /\ \/ Broken
              \/ op' = [op EXCEPT !.pc = "complete", !.failed = TRUE, !.assignment = "unknown"]
  <2>1. /\ op'.pc = "complete" /\ op'.lane = op.lane /\ op'.kind = op.kind /\ op'.layout = op.layout /\ op'.failed
        /\ op'.assignment # "ack_confirmed"
    <3>1. CASE op' = [op EXCEPT !.pc = "complete", !.failed = TRUE]
      BY <1>2, <3>1, FieldTypes DEF Operation
    <3>2. CASE op' = [op EXCEPT !.pc = "complete", !.failed = TRUE, !.assignment = "unknown"]
      BY <3>2, FieldTypes DEF Operation
    <3> QED BY <1>4, <3>1, <3>2 DEF Broken
  <2>2. WrittenInv' /\ ProgressCoversMouse'
    BY <2>1 DEF WrittenInv, ProgressCoversMouse, Running
  <2> QED BY <1>1, <1>4, <2>1, <2>2, MacroWriteKept
<1>5. CASE /\ buttons' = buttons /\ mouse' = Assigned
           /\ op' = [op EXCEPT !.pc = "upload", !.assignment = "ack_confirmed"]
  <2>1. /\ op'.pc = "upload" /\ op'.lane = op.lane /\ op'.kind = op.kind /\ op'.layout = op.layout
        /\ op'.failed = op.failed /\ op'.uploaded = op.uploaded
    BY <1>5, FieldTypes DEF Operation
  <2>2. mouse'.config = op.layout.config /\ mouse'.macros = [b \in Buttons |-> IF b \in Staged THEN Unloaded ELSE NoMacro]
    BY <1>5, FieldTypes DEF Assigned, Contents
  <2>3. Staged' = Staged
    BY <2>1 DEF Staged
  <2>4. WrittenInv'
    <3>1. \A b \in Buttons : mouse'.macros[b] = IF b \in Staged' THEN Unloaded ELSE NoMacro
      BY <2>2, <2>3
    <3> QED BY <2>1, <2>2, <3>1 DEF WrittenInv, Running
  <2>5. ProgressCoversMouse'
    BY <2>1 DEF ProgressCoversMouse, Running
  <2> QED BY <1>1, <1>2, <1>5, <2>1, <2>4, <2>5, MacroWriteKept
<1> QED BY <1>3, <1>4, <1>5 DEF Assign

LEMMA UploadChunksKept ==
  ASSUME EditsTypeOK, ButtonsInv, UploadChunks
  PROVE  ButtonsInv'
<1>1. /\ op.pc = "upload" /\ op.lane = "buttons"
      /\ record' = record /\ profile' = profile /\ acked' = acked /\ buttons' = buttons
  BY DEF UploadChunks, Running, Lane, files
<1>2. /\ ~op.failed /\ op.uploaded = "not_started" /\ mouse.config = op.layout.config
      /\ \A b \in Buttons : mouse.macros[b] = IF b \in Staged THEN Unloaded ELSE NoMacro
  BY <1>1 DEF ButtonsInv, WritingInv, WrittenInv, Running, Lane
<1>3. CASE Broken /\ UNCHANGED mouse
  <2>1. /\ op'.pc = "complete" /\ op'.lane = op.lane /\ op'.kind = op.kind /\ op'.layout = op.layout /\ op'.failed
        /\ op'.uploaded = op.uploaded /\ Staged' = Staged
    BY <1>3, FieldTypes DEF Broken, Operation, Staged
  <2>2. WrittenInv'
    BY <2>1 DEF WrittenInv, Running
  <2>3. ProgressCoversMouse'
    BY <1>2, <1>3, <2>1 DEF ProgressCoversMouse, Staged
  <2> QED BY <1>1, <2>1, <2>2, <2>3, MacroWriteKept
<1>4. CASE op' = [op EXCEPT !.pc = "complete", !.failed = TRUE, !.uploaded = "possibly_partial"]
  <2>1. /\ op'.pc = "complete" /\ op'.lane = op.lane /\ op'.kind = op.kind /\ op'.layout = op.layout /\ op'.failed
        /\ op'.uploaded = "possibly_partial"
    BY <1>4, FieldTypes DEF Operation
  <2>2. WrittenInv' /\ ProgressCoversMouse'
    BY <2>1 DEF WrittenInv, ProgressCoversMouse, Running
  <2> QED BY <1>1, <2>1, <2>2, MacroWriteKept
<1>5. CASE op' = [op EXCEPT !.pc = "status", !.uploaded = "possibly_partial"] /\ mouse' = AllLoaded
  <2>1. /\ op'.pc = "status" /\ op'.lane = op.lane /\ op'.kind = op.kind /\ op'.layout = op.layout
        /\ op'.failed = op.failed /\ op'.uploaded = "possibly_partial"
    BY <1>5, FieldTypes DEF Operation
  <2>2. /\ mouse'.config = mouse.config
        /\ mouse'.macros = [b \in Buttons |-> IF b \in Staged THEN op.layout.macros[b] ELSE mouse.macros[b]]
    BY <1>5, FieldTypes DEF AllLoaded, Loaded, Contents
  <2>3. \A b \in Buttons : b \notin Staged => op.layout.macros[b] = NoMacro
    BY DEF Staged
  <2>4. mouse'.macros = op.layout.macros
    <3>1. \A b \in Buttons : mouse'.macros[b] = op.layout.macros[b]
      BY <1>2, <2>2, <2>3
    <3> QED BY <2>2, <3>1, FieldTypes DEF Drafts
  <2>5. WrittenInv'
    BY <1>2, <2>1, <2>2, <2>4 DEF WrittenInv, OnMouse, Running
  <2>6. ProgressCoversMouse'
    BY <2>1 DEF ProgressCoversMouse, Running
  <2> QED BY <1>1, <1>2, <2>1, <2>5, <2>6, MacroWriteKept
<1> QED BY <1>3, <1>4, <1>5 DEF UploadChunks

LEMMA AwaitStatusKept ==
  ASSUME EditsTypeOK, ButtonsInv, AwaitStatus
  PROVE  ButtonsInv'
<1>1. /\ op.pc = "status" /\ op.lane = "buttons"
      /\ record' = record /\ profile' = profile /\ mouse' = mouse /\ buttons' = buttons
  BY DEF AwaitStatus, Running, Lane, files
<1>2. ~op.failed /\ OnMouse /\ op.uploaded = "possibly_partial"
  BY <1>1 DEF ButtonsInv, WritingInv, WrittenInv, Running, Lane
<1>3. CASE op' = [op EXCEPT !.pc = "complete", !.uploaded = "confirmed"] /\ AckLayout
  <2>1. /\ op'.pc = "complete" /\ op'.lane = op.lane /\ op'.kind = op.kind /\ op'.layout = op.layout
        /\ op'.uploaded = "confirmed"
    BY <1>3, FieldTypes DEF Operation
  <2>2. acked'.layouts = acked.layouts \cup {op.layout}
    BY <1>3 DEF AckLayout, EditsTypeOK
  <2>3. WrittenInv'
    BY <1>1, <1>2, <2>1, <2>2 DEF WrittenInv, OnMouse, Running
  <2>4. ProgressCoversMouse'
    BY <1>1, <1>2, <2>1 DEF ProgressCoversMouse, OnMouse
  <2> QED BY <1>1, <2>1, <2>2, <2>3, <2>4, MacroWriteKept
<1>4. CASE Broken /\ UNCHANGED acked
  <2>1. /\ op'.pc = "complete" /\ op'.lane = op.lane /\ op'.kind = op.kind /\ op'.layout = op.layout /\ op'.failed
        /\ op'.uploaded = op.uploaded
    BY <1>4, FieldTypes DEF Broken, Operation
  <2>2. WrittenInv' /\ ProgressCoversMouse'
    BY <1>2, <2>1 DEF WrittenInv, ProgressCoversMouse, Running
  <2> QED BY <1>1, <1>4, <2>1, <2>2, MacroWriteKept
<1> QED BY <1>3, <1>4 DEF AwaitStatus

LEMMA CompleteMacrosKept ==
  ASSUME EditsTypeOK, ButtonsInv, NEW ok \in BOOLEAN, CompleteMacros(ok)
  PROVE  ButtonsInv'
<1>1. /\ op.pc = "complete" /\ op.lane = "buttons" /\ op' = NoOperation
      /\ mouse' = mouse /\ acked' = acked /\ record' = record
  BY DEF CompleteMacros, Running, Lane, Release, device
<1>2. CASE ~Completed
  BY <1>1, <1>2, ButtonsFail DEF CompleteMacros, Fail
<1>3. CASE Completed
  <2>1. /\ OnMouse /\ op.layout \in acked.layouts /\ op.layout.macros # Plain /\ buttons.retry = NoValue
    BY <1>1, <1>3 DEF ButtonsInv, WritingInv, WrittenInv, Running, Lane, Completed
  <2>2. /\ buttons'.applied = op.layout.config /\ buttons'.macros = op.layout.macros /\ buttons'.firmware = "success"
        /\ buttons'.saved = (IF ok THEN "success" ELSE "failed")
        /\ buttons'.retry = (IF ok THEN buttons.retry ELSE op.layout.config)
    <3> DEFINE sv == IF ok THEN "success" ELSE "failed"
               r == IF ok THEN buttons.retry ELSE op.layout.config
    <3>1. buttons' = [buttons EXCEPT !.applied = op.layout.config, !.macros = op.layout.macros,
                                     !.firmware = "success", !.saved = sv, !.retry = r]
      BY <1>3 DEF CompleteMacros
    <3> HIDE DEF sv, r
    <3>2. /\ buttons'.applied = op.layout.config /\ buttons'.macros = op.layout.macros
          /\ buttons'.firmware = "success" /\ buttons'.saved = sv /\ buttons'.retry = r
      BY <3>1, FieldTypes DEF ButtonState
    <3> QED BY <3>2 DEF sv, r
  <2>3. ok => profile'.layout = op.layout
    BY <1>3, FieldTypes DEF CompleteMacros, EditsTypeOK
  <2>4. ~ok => profile' = profile
    BY <1>3 DEF CompleteMacros
  <2>5. Applied' = op.layout
    BY <2>2, FieldTypes DEF Applied, Layouts
  <2>6. op'.pc = "idle" /\ WritingInv' /\ WrittenInv'
    BY <1>1, Released
  <2>7. LayoutInv' /\ RetryIsApplied' /\ ProgressCoversMouse'
    BY <1>1, <2>1, <2>2, <2>5, <2>6, ConstantTypes, FieldTypes
       DEF LayoutInv, RetryIsApplied, ProgressCoversMouse, Running
  <2>8. ButtonsShown' /\ ButtonsSaved'
    BY <1>1, <2>1, <2>2, <2>3, <2>5 DEF ButtonsShown, ButtonsSaved, OnMouse
  <2>9. ButtonsAcked'
    BY <1>1, <2>1, <2>3, <2>4 DEF ButtonsInv, ButtonsAcked
  <2> QED BY <2>6, <2>7, <2>8, <2>9 DEF ButtonsInv
<1> QED BY <1>2, <1>3

LEMMA SaveLayoutRecordKept ==
  ASSUME EditsTypeOK, ButtonsInv, NEW ok \in BOOLEAN, SaveLayoutRecord(ok)
  PROVE  ButtonsInv'
<1>1. /\ op.pc = "record" /\ op.lane = "buttons" /\ op'.pc = "profile" /\ op'.lane = "buttons"
      /\ op'.kind = op.kind /\ op'.layout = op.layout /\ op'.failed = ~ok
      /\ mouse' = mouse /\ acked' = acked /\ profile' = profile /\ buttons' = buttons
  BY FieldTypes DEF SaveLayoutRecord, Running, Lane, device, Operation
<1>2. /\ ok => record'.config = op.layout.config
      /\ ~ok => record' = record
  BY FieldTypes DEF SaveLayoutRecord, EditsTypeOK
<1>3. WritingInv' /\ WrittenInv' /\ ProgressCoversMouse'
  BY <1>1 DEF WritingInv, WrittenInv, ProgressCoversMouse, Running
<1>4. LayoutInv' /\ RetryIsApplied'
  BY <1>1, <1>2 DEF ButtonsInv, LayoutInv, RetryIsApplied, Applied, Running
<1>5. ButtonsShown' /\ ButtonsSaved'
  BY <1>1 DEF ButtonsInv, ButtonsShown, ButtonsSaved, Saving, Running
<1>6. ButtonsAcked'
  <2>1. op.layout.config = Applied.config /\ Applied \in acked.layouts
    BY <1>1, LayoutParts DEF ButtonsInv, LayoutInv
  <2> QED BY <1>1, <1>2, <2>1 DEF ButtonsInv, ButtonsAcked
<1> QED BY <1>3, <1>4, <1>5, <1>6 DEF ButtonsInv

LEMMA SaveLayoutProfileKept ==
  ASSUME EditsTypeOK, ButtonsInv, NEW ok \in BOOLEAN, SaveLayoutProfile(ok)
  PROVE  ButtonsInv'
<1> DEFINE saved == ok /\ ~op.failed
<1>1. /\ op.pc = "profile" /\ op.lane = "buttons" /\ op' = NoOperation
      /\ mouse' = mouse /\ acked' = acked /\ record' = record
  BY DEF SaveLayoutProfile, Running, Lane, Release, device
<1>2. /\ op.layout.config = buttons.applied /\ (op.kind = "apply" => op.layout.macros = buttons.macros)
      /\ ~op.failed => record.config = op.layout.config
      /\ Applied \in acked.layouts
  BY <1>1 DEF ButtonsInv, LayoutInv, Running, Lane
<1>3. Saved = Applied
  <2>1. op.layout \in Layouts /\ op.kind \in {"apply", "retry"}
    BY FieldTypes DEF Operation
  <2>2. CASE op.kind = "apply"
    BY <1>2, <2>1, <2>2, LayoutParts DEF Saved
  <2>3. CASE op.kind = "retry"
    BY <1>2, <2>1, <2>3 DEF Saved, Applied, Layouts
  <2> QED BY <2>1, <2>2, <2>3
<1>4. ok => profile'.layout = Applied
  BY <1>3, FieldTypes DEF SaveLayoutProfile, EditsTypeOK
<1>5. ~ok => profile' = profile
  BY DEF SaveLayoutProfile
<1>6. /\ buttons'.applied = buttons.applied /\ buttons'.macros = buttons.macros
      /\ \/ saved /\ buttons'.saved = "success" /\ buttons'.retry \in {buttons.retry, NoValue}
         \/ ~saved /\ buttons'.saved = "failed" /\ buttons'.retry = op.layout.config
         \/ ~saved /\ buttons'.firmware = "failed" /\ buttons'.saved = buttons.saved /\ buttons'.retry = buttons.retry
      /\ buttons'.firmware \in {buttons.firmware, "failed"}
  BY FieldTypes DEF SaveLayoutProfile, Labels, ButtonState
<1>7. op'.pc = "idle" /\ WritingInv' /\ WrittenInv'
  BY <1>1, Released
<1>8. LayoutInv' /\ ProgressCoversMouse'
  BY <1>1, <1>2, <1>6, <1>7 DEF LayoutInv, ProgressCoversMouse, Running, Applied
<1>9. RetryIsApplied'
  BY <1>2, <1>6, ConstantTypes, FieldTypes DEF ButtonsInv, RetryIsApplied
<1>10. ButtonsShown'
  BY <1>1, <1>6 DEF ButtonsInv, ButtonsShown
<1>11. ButtonsSaved'
  BY <1>1, <1>2, <1>4, <1>6 DEF ButtonsInv, ButtonsSaved, Applied
<1>12. ButtonsAcked'
  BY <1>1, <1>2, <1>4, <1>5 DEF ButtonsInv, ButtonsAcked
<1> QED BY <1>7, <1>8, <1>9, <1>10, <1>11, <1>12 DEF ButtonsInv

LEMMA ButtonStepsKept == EditsTypeOK /\ ButtonsInv /\ ButtonNext => ButtonsInv'
BY ButtonEditsKept, ButtonBeginsKept, AdmitKept, SendLayoutKept, AcceptLayoutKept, AssignKept, UploadChunksKept,
   AwaitStatusKept, CompleteMacrosKept, SaveLayoutRecordKept, SaveLayoutProfileKept DEF ButtonNext

-----------------------------------------------------------------------------
(* What the lanes leave to each other                                        *)

\* A step of the button lane, or a refresh, as the settings and lighting see it.
LEMMA SettingsFrame ==
  ASSUME SettingsInv,
         \/ (op.pc = "idle" \/ op.lane = "buttons") /\ (op'.pc = "idle" \/ op'.lane = "buttons")
         \/ /\ op'.pc = op.pc /\ op'.lane = op.lane /\ op'.sent = op.sent /\ op'.value = op.value /\ op'.failed = op.failed
            /\ op'.moved = op.moved,
         settings' = settings, lighting' = lighting, mouse'.settings = mouse.settings, acked'.settings = acked.settings,
         record'.settings = record.settings, profile'.settings = profile.settings
  PROVE  SettingsInv'
<1>1. SentIsCurrent'
  BY DEF SettingsInv, SentIsCurrent, Running, SettingLanes
<1>2. SavingIsShown'
  BY DEF SettingsInv, SavingIsShown, Saving, Running, SettingLanes
<1>3. SettingsShown'
  BY DEF SettingsInv, SettingsShown
<1>4. SettingsSaved'
  BY DEF SettingsInv, SettingsSaved, Saving, Running, SettingLanes
<1>5. SettingsAcked'
  BY DEF SettingsInv, SettingsAcked
<1> QED BY <1>1, <1>2, <1>3, <1>4, <1>5 DEF SettingsInv

\* An edit of the button lane moves an operation of that lane only.
LEMMA ButtonEditMoves ==
  ASSUME EditsTypeOK, Edit("buttons")
  PROVE  \/ op.lane = "buttons" /\ op'.lane = "buttons"
         \/ /\ op'.pc = op.pc /\ op'.lane = op.lane /\ op'.sent = op.sent /\ op'.value = op.value /\ op'.failed = op.failed
            /\ op'.moved = op.moved
<1>1. op.moved \in BOOLEAN
  BY FieldTypes DEF Operation
<1> QED BY <1>1, EditLeaves

LEMMA ButtonStepsSettings == EditsTypeOK /\ SettingsInv /\ ButtonNext => SettingsInv'
<1> SUFFICES ASSUME EditsTypeOK, SettingsInv, ButtonNext PROVE SettingsInv'
  OBVIOUS
<1>1. settings' = settings /\ lighting' = lighting
  BY DEF ButtonNext, StageRemap, ApplyButtons, StageMacro, ClearButton, ClearMacros, Discard, RetryButtons, EditLibrary,
     Admit, SendLayout, AcceptLayout, Assign, UploadChunks, AwaitStatus, CompleteMacros, SaveLayoutRecord,
     SaveLayoutProfile, Quiet
<1>2. CASE \/ \E c \in Values : StageRemap(c)
           \/ \E b \in Buttons : StageMacro(b) \/ ClearButton(b)
           \/ ClearMacros \/ Discard
           \/ \E m \in Macros \cup {NoMacro} : EditLibrary(m)
  <2>1. UNCHANGED <<mouse, acked, record, profile>>
    BY <1>2 DEF StageRemap, StageMacro, ClearButton, ClearMacros, Discard, EditLibrary, Edit, device, files
  <2>2. Edit("buttons") \/ op' = op
    BY <1>2 DEF StageRemap, StageMacro, ClearButton, ClearMacros, Discard, EditLibrary
  <2> QED BY <1>1, <2>1, <2>2, ButtonEditMoves, SettingsFrame
<1>3. CASE (\E c \in Values : ApplyButtons(c)) \/ RetryButtons
  <2>1. UNCHANGED <<mouse, acked, record, profile>> /\ op.pc = "idle" /\ op'.lane = "buttons"
    BY <1>3 DEF ApplyButtons, RetryButtons, Begin, NoOperation, device, files
  <2> QED BY <1>1, <2>1, SettingsFrame
<1>4. CASE Admit \/ SendLayout \/ AcceptLayout \/ Assign \/ UploadChunks \/ AwaitStatus
  <2>1. op.lane = "buttons" /\ UNCHANGED <<record, profile>>
    BY <1>4 DEF Admit, SendLayout, AcceptLayout, Assign, UploadChunks, AwaitStatus, Running, Lane, files
  <2>2. mouse'.settings = mouse.settings
    <3>1. Assigned.settings = mouse.settings /\ HalfLoaded.settings = mouse.settings /\ AllLoaded.settings = mouse.settings
      BY FieldTypes DEF Assigned, HalfLoaded, AllLoaded, Loaded, Contents
    <3> QED BY <1>4, <3>1 DEF Admit, SendLayout, AcceptLayout, Assign, UploadChunks, AwaitStatus, device
  <2>3. acked'.settings = acked.settings
    BY <1>4 DEF Admit, SendLayout, AcceptLayout, Assign, UploadChunks, AwaitStatus, device, AckLayout, EditsTypeOK
  <2>4. op'.pc = "idle" \/ op'.lane = "buttons"
    <3>1. op' = NoOperation \/ op'.lane = op.lane
      BY <1>4, FieldTypes DEF Admit, SendLayout, AcceptLayout, Assign, UploadChunks, AwaitStatus, Fail, Release, Broken,
         Operation
    <3> QED BY <2>1, <3>1, Released
  <2> QED BY <1>1, <2>1, <2>2, <2>3, <2>4, SettingsFrame
<1>5. CASE \E ok \in BOOLEAN : CompleteMacros(ok) \/ SaveLayoutRecord(ok) \/ SaveLayoutProfile(ok)
  <2>1. op.lane = "buttons" /\ UNCHANGED <<mouse, acked>>
    BY <1>5 DEF CompleteMacros, SaveLayoutRecord, SaveLayoutProfile, Running, Lane, device
  <2>2. op'.pc = "idle" \/ op'.lane = "buttons"
    <3>1. op' = NoOperation \/ op'.lane = op.lane
      BY <1>5, FieldTypes DEF CompleteMacros, SaveLayoutRecord, SaveLayoutProfile, Release, Operation
    <3> QED BY <2>1, <3>1, Released
  <2>3. record'.settings = record.settings /\ profile'.settings = profile.settings
    BY <1>5, FieldTypes DEF CompleteMacros, SaveLayoutRecord, SaveLayoutProfile, EditsTypeOK
  <2> QED BY <1>1, <2>1, <2>2, <2>3, SettingsFrame
<1> QED BY <1>2, <1>3, <1>4, <1>5 DEF ButtonNext

LEMMA SettingsStepsButtons == EditsTypeOK /\ ButtonsInv /\ SettingsNext => ButtonsInv'
<1> SUFFICES ASSUME EditsTypeOK, ButtonsInv, SettingsNext PROVE ButtonsInv'
  OBVIOUS
<1>1. buttons' = buttons
  BY DEF SettingsNext, ApplySettings, RetrySetting, StageSetting, StageLighting, ReadLighting, SettingsStale, SendSettings,
     ApplyLighting, ReadSettings, SendLighting, AcceptLighting, SaveSettingRecord, SaveSettingProfile
<1>2. CASE (\E l \in SettingLanes, v \in Values : StageSetting(l, v)) \/ (\E v \in Values : StageLighting(v))
  <2>1. PICK lane : Edit(lane)
    BY <1>2 DEF StageSetting, StageLighting
  <2> QED BY <1>1, <2>1, EditLeaves, ButtonsFrame
<1>3. CASE (\E l \in SettingLanes : ApplySettings(l) \/ RetrySetting(l)) \/ ApplyLighting
  <2>1. UNCHANGED <<mouse, acked, record, profile>> /\ op.pc = "idle" /\ op'.lane # "buttons"
    BY <1>3 DEF ApplySettings, RetrySetting, ApplyLighting, Begin, NoOperation, SettingLanes, device, files
  <2> QED BY <1>1, <2>1, ButtonsElsewhere
<1>4. CASE ReadLighting \/ SettingsStale \/ SendSettings \/ ReadSettings \/ SendLighting
  <2>1. op.lane # "buttons" /\ UNCHANGED <<record, profile>>
    BY <1>4 DEF ReadLighting, SettingsStale, SendSettings, ReadSettings, SendLighting, Running, SettingLanes, files
  <2>2. mouse'.config = mouse.config /\ mouse'.macros = mouse.macros
    <3>1. Holds(op.sent).config = mouse.config /\ Holds(op.sent).macros = mouse.macros
      BY FieldTypes DEF Holds, Contents
    <3> QED BY <1>4, <3>1 DEF ReadLighting, SettingsStale, SendSettings, ReadSettings, SendLighting, Acknowledge,
         Unanswered, device
  <2>3. acked'.layouts = acked.layouts
    BY <1>4 DEF ReadLighting, SettingsStale, SendSettings, ReadSettings, SendLighting, Acknowledge, Unanswered, device,
       EditsTypeOK
  <2>4. op'.lane # "buttons"
    <3>1. op' = NoOperation \/ op'.lane = op.lane
      BY <1>4, FieldTypes DEF ReadLighting, SettingsStale, SendSettings, ReadSettings, SendLighting, Release, Operation
    <3> QED BY <2>1, <3>1 DEF NoOperation
  <2> QED BY <1>1, <2>1, <2>2, <2>3, <2>4, ButtonsElsewhere
<1>5. CASE \E ok \in BOOLEAN : AcceptLighting(ok) \/ SaveSettingRecord(ok) \/ SaveSettingProfile(ok)
  <2>1. op.lane # "buttons" /\ UNCHANGED <<mouse, acked>>
    BY <1>5 DEF AcceptLighting, SaveSettingRecord, SaveSettingProfile, Running, SettingLanes, device
  <2>2. op'.lane # "buttons"
    <3>1. op' = NoOperation \/ op'.lane = op.lane
      BY <1>5, FieldTypes DEF AcceptLighting, SaveSettingRecord, SaveSettingProfile, Release, Operation
    <3> QED BY <2>1, <3>1 DEF NoOperation
  <2>3. record'.config = record.config /\ profile'.layout = profile.layout
    BY <1>5, FieldTypes DEF AcceptLighting, SaveSettingRecord, SaveSettingProfile, EditsTypeOK
  <2> QED BY <1>1, <2>1, <2>2, <2>3, ButtonsElsewhere
<1> QED BY <1>2, <1>3, <1>4, <1>5 DEF SettingsNext

LEMMA EditsStep == EditsInv /\ [Next]_vars => EditsInv'
<1> SUFFICES ASSUME EditsInv, [Next]_vars PROVE EditsInv'
  OBVIOUS
<1>1. EditsTypeOK'
  BY StepTypes DEF EditsInv
<1>2. CASE SettingsNext
  BY <1>1, <1>2, SettingsStepsKept, SettingsStepsButtons DEF EditsInv
<1>3. CASE ButtonNext
  BY <1>1, <1>3, ButtonStepsKept, ButtonStepsSettings DEF EditsInv
<1>4. CASE Refresh
  <2>1. /\ op'.pc = op.pc /\ op'.lane = op.lane /\ op'.kind = op.kind /\ op'.sent = op.sent /\ op'.value = op.value
        /\ op'.layout = op.layout /\ op'.moved = op.moved /\ op'.failed = op.failed
        /\ op'.assignment = op.assignment /\ op'.uploaded = op.uploaded
    BY <1>4, FieldTypes DEF EditsInv, Refresh, Operation
  <2>2. UNCHANGED <<settings, lighting, buttons, mouse, acked, record, profile>>
    BY <1>4 DEF Refresh, device, files
  <2>3. SettingsInv'
    BY <2>1, <2>2, SettingsFrame DEF EditsInv
  <2>4. ButtonsInv'
    BY <2>1, <2>2, ButtonsFrame DEF EditsInv
  <2> QED BY <1>1, <2>3, <2>4 DEF EditsInv
<1>5. CASE UNCHANGED vars
  <2>1. UNCHANGED <<settings, lighting, buttons, mouse, acked, record, profile, op>>
    BY <1>5 DEF vars, device, files
  <2>2. SettingsInv'
    BY <2>1, SettingsFrame DEF EditsInv
  <2>3. ButtonsInv'
    BY <2>1, ButtonsFrame DEF EditsInv
  <2> QED BY <1>1, <2>2, <2>3 DEF EditsInv
<1> QED BY <1>2, <1>3, <1>4, <1>5 DEF Next

-----------------------------------------------------------------------------
(* The theorems                                                              *)

\* The inductive invariant holds of every behaviour.
THEOREM EditsInductive == Spec => []EditsInv
<1>1. Init => EditsInv
  BY InitTypes, InitSettings, InitButtons DEF EditsInv
<1> QED BY <1>1, EditsStep, PTL DEF Spec

\* The labels, files and operations are always of their types.
THEOREM EditsTypes == Spec => []EditsTypeOK
<1>1. EditsInv => EditsTypeOK
  BY DEF EditsInv
<1> QED BY <1>1, EditsInductive, PTL

\* A lane that reports its write a success shows what the mouse holds, whatever
\* was staged, sent or refreshed since.
THEOREM SuccessShown == Spec => []ShownIsOnMouse
<1>1. EditsInv => ShownIsOnMouse
  BY DEF EditsInv, SettingsInv, ButtonsInv, SettingsShown, ButtonsShown, ShownIsOnMouse, Shown, Firmwares, Fields,
     SettingLanes
<1> QED BY <1>1, EditsInductive, PTL

\* A lane that also reports its save a success is what both files hold.
THEOREM SuccessSaved == Spec => []SavedIsShown
<1>1. EditsInv => SavedIsShown
  BY DEF EditsInv, SettingsInv, ButtonsInv, SettingsSaved, ButtonsSaved, SavedIsShown, Applied
<1> QED BY <1>1, EditsInductive, PTL

\* Nothing is saved that the mouse did not acknowledge.
THEOREM SavedAcknowledged == Spec => []SavedWereAcknowledged
<1>1. EditsInv => SavedWereAcknowledged
  BY DEF EditsInv, SettingsInv, ButtonsInv, SettingsAcked, ButtonsAcked, SavedWereAcknowledged
<1> QED BY <1>1, EditsInductive, PTL

\* What a retry of the button lane would save is the layout that is applied, and as
\* long as the lane shows a save as failed there is one (remap.go, retryBound).
THEOREM RetryApplied == Spec => []RetryIsApplied
<1>1. EditsInv => RetryIsApplied
  BY DEF EditsInv, ButtonsInv
<1> QED BY <1>1, EditsInductive, PTL

\* The progress an upload reports is what became of the mouse.
THEOREM ProgressTruthful == Spec => []ProgressCoversMouse
<1>1. EditsInv => ProgressCoversMouse
  BY DEF EditsInv, ButtonsInv
<1> QED BY <1>1, EditsInductive, PTL

\* A label written over a lane's leaves the lane's value alone.
LEMMA LabelsKeepValue ==
  ASSUME NEW s \in LaneState, NEW fw, NEW label, NEW r
  PROVE  /\ [s EXCEPT !.firmware = fw].value = s.value
         /\ [s EXCEPT !.saved = label, !.retry = r].value = s.value
BY DEF LaneState

\* An operation whose draft was edited since it began changes no draft.
LEMMA DraftStep ==
  ASSUME EditsTypeOK, Next, edits' = edits, op.moved
  PROVE  /\ buttons'.pending = buttons.pending /\ buttons'.drafts = buttons.drafts
         /\ lighting'.pending = lighting.pending
         /\ \A l \in SettingLanes : settings'[l].value = settings[l].value
<1>1. edits + 1 # edits
  BY EditBoundsAssumption DEF EditsTypeOK
<1>2. CASE SettingsNext
  <2>1. buttons' = buttons
    BY <1>2 DEF SettingsNext, ApplySettings, RetrySetting, StageSetting, StageLighting, ReadLighting, SettingsStale,
       SendSettings, ApplyLighting, ReadSettings, SendLighting, AcceptLighting, SaveSettingRecord, SaveSettingProfile
  <2>2. lighting'.pending = lighting.pending
    BY <1>1, <1>2, FieldTypes DEF SettingsNext, ApplySettings, RetrySetting, StageSetting, StageLighting, ReadLighting,
       SettingsStale, SendSettings, ApplyLighting, ReadSettings, SendLighting, AcceptLighting, SaveSettingRecord,
       SaveSettingProfile, Edit, LightingFails, LightingState
  <2>3. \A l \in SettingLanes : settings'[l].value = settings[l].value
    <3>1. settings \in [SettingLanes -> LaneState]
      BY DEF EditsTypeOK, SettingsTypeOK
    <3>2. CASE SendSettings
      <4>1. PICK l, fw : l \in SettingLanes /\ settings' = [settings EXCEPT ![l].firmware = fw]
        BY <3>2 DEF SendSettings, Firmware, Running
      <4>2. settings' = [settings EXCEPT ![l] = [settings[l] EXCEPT !.firmware = fw]] /\ settings[l] \in LaneState
        BY <3>1, <4>1
      <4>3. settings'[l] = [settings[l] EXCEPT !.firmware = fw]
        BY <3>1, <4>1, <4>2
      <4>4. settings'[l].value = settings[l].value
        BY <4>2, <4>3, LabelsKeepValue
      <4> QED BY <3>1, <4>1, <4>2, <4>4
    <3>3. CASE \E ok \in BOOLEAN : SaveSettingProfile(ok)
      <4>1. PICK ok \in BOOLEAN : SaveSettingProfile(ok)
        BY <3>3
      <4> DEFINE l == op.lane
                 label == IF ok /\ ~op.failed THEN "success" ELSE "failed"
                 r == IF ok /\ ~op.failed THEN NoValue ELSE op.value
      <4>2. l \in SettingLanes /\ settings' = [settings EXCEPT ![l].saved = label, ![l].retry = r]
        BY <4>1 DEF SaveSettingProfile, Running
      <4> HIDE DEF l, label, r
      <4>3. settings'[l] = [settings[l] EXCEPT !.saved = label, !.retry = r] /\ settings[l] \in LaneState
        BY <3>1, <4>2
      <4>4. settings'[l].value = settings[l].value
        BY <4>3, LabelsKeepValue
      <4> QED BY <3>1, <4>2, <4>4
    <3>4. CASE ~SendSettings /\ ~ \E ok \in BOOLEAN : SaveSettingProfile(ok)
      BY <1>1, <1>2, <3>4 DEF SettingsNext, ApplySettings, RetrySetting, StageSetting, StageLighting, ReadLighting,
         SettingsStale, ApplyLighting, ReadSettings, SendLighting, AcceptLighting, SaveSettingRecord, Edit
    <3> QED BY <3>2, <3>3, <3>4
  <2> QED BY <2>1, <2>2, <2>3
<1>3. CASE ButtonNext
  <2>1. settings' = settings /\ lighting' = lighting
    BY <1>3 DEF ButtonNext, StageRemap, ApplyButtons, StageMacro, ClearButton, ClearMacros, Discard, RetryButtons,
       EditLibrary, Admit, SendLayout, AcceptLayout, Assign, UploadChunks, AwaitStatus, CompleteMacros, SaveLayoutRecord,
       SaveLayoutProfile, Quiet
  <2>2. buttons'.pending = buttons.pending /\ buttons'.drafts = buttons.drafts
    <3>1. ~ \/ \E c \in Values : StageRemap(c)
            \/ \E b \in Buttons : StageMacro(b) \/ ClearButton(b)
            \/ ClearMacros \/ Discard
      BY <1>1 DEF StageRemap, StageMacro, ClearButton, ClearMacros, Discard, Edit
    <3>2. \/ buttons' = buttons \/ Failed
          \/ AcceptLayout \/ \E ok \in BOOLEAN : CompleteMacros(ok) \/ SaveLayoutProfile(ok)
      BY <1>3, <3>1 DEF ButtonNext, ApplyButtons, RetryButtons, EditLibrary, Admit, Admitted, SendLayout, Assign,
         UploadChunks, AwaitStatus, SaveLayoutRecord, Fail
    <3> QED BY <3>2, FieldTypes DEF Failed, AcceptLayout, CompleteMacros, SaveLayoutProfile, Labels, Fail, ButtonState
  <2> QED BY <2>1, <2>2
<1>4. CASE Refresh
  BY <1>4 DEF Refresh
<1> QED BY <1>2, <1>3, <1>4 DEF Next

\* No operation overwrites what was staged since it captured the draft.
THEOREM DraftKept == Spec => NewerDraftKept
<1>1. EditsTypeOK /\ [Next]_vars =>
        [edits' = edits /\ op.moved =>
           /\ buttons'.pending = buttons.pending /\ buttons'.drafts = buttons.drafts
           /\ lighting'.pending = lighting.pending
           /\ \A l \in SettingLanes : settings'[l].value = settings[l].value]_vars
  BY DraftStep
<1> QED BY <1>1, EditsTypes, PTL DEF Spec, NewerDraftKept
=============================================================================
