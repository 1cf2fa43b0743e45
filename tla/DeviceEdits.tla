---------------------------- MODULE DeviceEdits ----------------------------
(***************************************************************************)
(* The settings and the button lanes of one mouse together: operationMu    *)
(* admits one apply or retry of any lane, the saves share two files, and a *)
(* refresh may take the mouse away in the middle of either.                *)
(***************************************************************************)
EXTENDS SettingsLane, ButtonLane

Contents == [settings : Sent, config : Values, macros : [Buttons -> Macros \cup {NoMacro, Unloaded, Torn}]]

EditsTypeOK ==
  /\ SettingsTypeOK
  /\ ButtonTypeOK
  /\ mouse \in Contents
  /\ acked \in [settings : SUBSET (Fields \X Values), layouts : SUBSET Layouts]
  /\ record \in [settings : [SettingLanes -> Values], config : Values]
  /\ profile \in [settings : Sent, layout : Layouts]
  /\ op \in Operation
  /\ edits \in 0..MaxEdits
  /\ ops \in 0..MaxOps

Init ==
  /\ SettingsInit
  /\ ButtonInit
  /\ mouse = [settings |-> FactorySent, config |-> Factory, macros |-> Plain]
  /\ acked = [settings |-> {<<f, Factory>> : f \in Fields}, layouts |-> {FactoryLayout}]
  /\ record = [settings |-> [l \in SettingLanes |-> Factory], config |-> Factory]
  /\ profile = [settings |-> FactorySent, layout |-> FactoryLayout]
  /\ op = NoOperation
  /\ edits = 0
  /\ ops = 0

Next == SettingsNext \/ ButtonNext \/ Refresh

Spec == Init /\ [][Next]_vars

-----------------------------------------------------------------------------
\* The settings the lanes show.
Shown == [f \in Fields |-> IF f = "lighting" THEN lighting.pending ELSE settings[f].value]
Firmwares == [f \in Fields |-> IF f = "lighting" THEN lighting.firmware ELSE settings[f].firmware]

\* Any lane that reports its firmware write a success shows what the mouse
\* holds: no draft staged during a write, no report another lane sent later
\* and no write that failed leaves a value shown as applied that is not.
ShownIsOnMouse ==
  /\ \A f \in Fields : Firmwares[f] = "success" => Shown[f] = mouse.settings[f]
  /\ lighting.firmware = "success" => lighting.applied = lighting.pending
  /\ buttons.firmware = "success" =>
       mouse.config = buttons.applied /\ mouse.macros = buttons.macros

Saving(lanes) == Running("record", lanes) \/ Running("profile", lanes)

\* A lane that reports both its write and its save a success is what the files
\* hold, once its save is over: a profile read back gives what is shown. A layout
\* without macros is in the device record as well.
SavedIsShown ==
  /\ \A l \in SettingLanes :
       settings[l].firmware = "success" /\ settings[l].saved = "success" /\ ~Saving({l}) =>
         record.settings[l] = settings[l].value /\ profile.settings[l] = settings[l].value
  /\ lighting.firmware = "success" /\ ~lighting.unsaved =>
       profile.settings["lighting"] = lighting.applied
  /\ buttons.firmware = "success" /\ buttons.saved = "success" /\ ~Saving({"buttons"}) =>
       /\ profile.layout = [config |-> buttons.applied, macros |-> buttons.macros]
       /\ buttons.macros = Plain => record.config = buttons.applied

\* "It MUST persist only acknowledged state": what the files hold the mouse
\* acknowledged once, a layout together with exactly the macros saved with it,
\* also when a draft or a second lane moved between the ACK, a failed save and
\* its retry.
SavedWereAcknowledged ==
  /\ \A f \in Fields : <<f, profile.settings[f]>> \in acked.settings
  /\ \A l \in SettingLanes : <<l, record.settings[l]>> \in acked.settings
  /\ profile.layout \in acked.layouts
  /\ record.config \in {layout.config : layout \in acked.layouts}

\* What a retry of the button lane would save is the layout applied now, so a
\* retry never puts an older layout back; and as long as the lane shows a save as
\* failed there is something to retry. A newer apply takes both back.
RetryIsApplied ==
  /\ buttons.retry # NoValue => buttons.retry = buttons.applied
  /\ buttons.saved = "failed" => buttons.retry # NoValue

\* The progress an upload reports never says that less of the mouse was touched,
\* or more of it finished, than was: a chunk that failed may have been taken.
ProgressCoversMouse ==
  Running("complete", Lane) /\ op.assignment = "ack_confirmed" =>
    \A b \in Staged :
      /\ op.uploaded = "not_started" => mouse.macros[b] = Unloaded
      /\ op.uploaded = "confirmed" => mouse.macros[b] = op.layout.macros[b]

\* An operation never overwrites what a person staged since it captured the
\* draft: the draft's own revision is compared before the draft is replaced.
NewerDraftKept ==
  [][edits' = edits /\ op.moved =>
       /\ buttons'.pending = buttons.pending /\ buttons'.drafts = buttons.drafts
       /\ lighting'.pending = lighting.pending
       /\ \A l \in SettingLanes : settings'[l].value = settings[l].value]_vars
=============================================================================
