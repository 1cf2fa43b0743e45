---------------------------- MODULE SettingsLane ----------------------------
(***************************************************************************)
(* The sleep, response time and lighting lanes. The mouse takes the three  *)
(* in one report, so applying one of them also sends what the other two    *)
(* show. applySettings holds the settings' applyMu throughout, which keeps *)
(* their staging out; lighting is staged at any time and compares its      *)
(* revision after the ACK instead.                                         *)
(***************************************************************************)
EXTENDS EditedMouse

LaneState ==
  [value : Values, firmware : {"", "pending", "success", "failed"},
   saved : {"", "success", "failed"}, retry : Values \cup {NoValue}]

LightingState ==
  [pending : Values, applied : Values \cup {NoValue},
   firmware : {"", "pending", "success", "failed"}, unsaved : BOOLEAN]

SettingsTypeOK ==
  /\ settings \in [SettingLanes -> LaneState]
  /\ lighting \in LightingState

\* newSettingsState and newLightingState.
SettingsInit ==
  /\ settings = [l \in SettingLanes |->
                   [value |-> Factory, firmware |-> "", saved |-> "", retry |-> NoValue]]
  /\ lighting = [pending |-> Factory, applied |-> NoValue, firmware |-> "", unsaved |-> FALSE]

-----------------------------------------------------------------------------
\* The operations that hold the settings' applyMu.
HoldsApplyMu == op.pc # "idle" /\ (op.lane \in SettingLanes \/ Running("send", {"lighting"})
                                                          \/ Running("accept", {"lighting"}))

\* Mutant: staging does not take applyMu.
StageSettingUnguarded(l, v) ==
  /\ settings' = [settings EXCEPT ![l].value = v, ![l].firmware = "pending"]
  /\ Edit(l)
  /\ UNCHANGED <<lighting, buttons>>

\* StageNormalSleep and StageDebounce.
StageSetting(l, v) ==
  /\ ~HoldsApplyMu
  /\ settings' = [settings EXCEPT ![l].value = v, ![l].firmware = "pending"]
  /\ Edit(l)
  /\ UNCHANGED <<lighting, buttons>>

StageLighting(v) ==
  /\ lighting' = [lighting EXCEPT !.pending = v, !.firmware = "pending", !.unsaved = FALSE]
  /\ Edit("lighting")
  /\ UNCHANGED <<settings, buttons>>

\* applySettings captures the two values under the lock and the lighting, which
\* may be staged meanwhile, after it.
ApplySettings(l) ==
  /\ Begin([NoOperation EXCEPT !.pc = "lighting", !.lane = l,
              !.sent = [FactorySent EXCEPT !["sleep"] = settings["sleep"].value,
                                           !["response"] = settings["response"].value]])
  /\ UNCHANGED <<settings, lighting, buttons, library, device, files, edits>>

ReadLighting ==
  /\ Running("lighting", SettingLanes)
  /\ op' = [op EXCEPT !.pc = "send", !.sent["lighting"] = lighting.pending]
  /\ UNCHANGED <<settings, lighting, buttons, library, device, files, counts>>

\* lightingComponent.apply captures the draft, and the settings it is sent with
\* once it has their applyMu.
ApplyLighting ==
  /\ Begin([NoOperation EXCEPT !.pc = "settings", !.lane = "lighting",
              !.sent = [FactorySent EXCEPT !["lighting"] = lighting.pending]])
  /\ UNCHANGED <<settings, lighting, buttons, library, device, files, edits>>

LightingFails == lighting' = [lighting EXCEPT !.firmware = "failed", !.unsaved = FALSE]

ReadSettings ==
  /\ Running("settings", {"lighting"})
  /\ IF op.stale
     THEN LightingFails /\ Release
     ELSE /\ op' = [op EXCEPT !.pc = "send",
                      !.sent = [l \in Fields |-> IF l = "lighting" THEN op.sent[l]
                                                                   ELSE settings[l].value]]
          /\ UNCHANGED lighting
  /\ UNCHANGED <<settings, buttons, library, device, files, counts>>

-----------------------------------------------------------------------------
Holds(sent) == [mouse EXCEPT !.settings = sent]
Acknowledge ==
  /\ mouse' = Holds(op.sent)
  /\ acked' = [acked EXCEPT !.settings = @ \cup {<<f, op.sent[f]>> : f \in Fields}]

\* The command failed: the mouse may have taken the report all the same.
Unanswered == mouse' \in {mouse, Holds(op.sent)} /\ UNCHANGED acked

Firmware(label) ==
  settings' = [settings EXCEPT ![op.lane].firmware = label]

\* A binding that is stale by now changes no firmware label, only the error.
SettingsStale ==
  /\ Running("send", SettingLanes)
  /\ op.stale
  /\ Release
  /\ UNCHANGED <<settings, lighting, buttons, library, device, files, counts>>

SendSettings ==
  /\ Running("send", SettingLanes)
  /\ \/ ~op.stale /\ Acknowledge /\ Firmware("success")
        /\ op' = [op EXCEPT !.pc = "record", !.value = op.sent[op.lane]]
     \/ ~op.stale /\ Unanswered /\ Firmware("failed") /\ Release
  /\ UNCHANGED <<lighting, buttons, library, files, counts>>

SendLighting ==
  /\ Running("send", {"lighting"})
  /\ \/ op.stale /\ LightingFails /\ Release /\ UNCHANGED device
     \/ ~op.stale /\ Unanswered /\ LightingFails /\ Release
     \/ ~op.stale /\ Acknowledge /\ op' = [op EXCEPT !.pc = "accept"] /\ UNCHANGED lighting
  /\ UNCHANGED <<settings, buttons, library, files, counts>>

\* The lock is held from the comparison until the profile is saved. There is no
\* retry of that save.
AcceptLighting(ok) ==
  /\ Running("accept", {"lighting"})
  /\ IF op.moved
     THEN LightingFails /\ UNCHANGED profile
     ELSE /\ lighting' = [lighting EXCEPT !.applied = op.sent["lighting"], !.firmware = "success",
                                          !.unsaved = ~ok]
          /\ profile' = IF ok THEN [profile EXCEPT !.settings["lighting"] = op.sent["lighting"]]
                              ELSE profile
  /\ Release
  /\ UNCHANGED <<settings, buttons, library, device, record, counts>>

-----------------------------------------------------------------------------
\* persistSettingsBound, after an apply or for RetryNormalSleepPersistence and
\* RetryDebouncePersistence. It saves the one value, in the record and then, also
\* when that failed, in the profile.
RetrySetting(l) ==
  /\ settings[l].retry # NoValue
  /\ Begin([NoOperation EXCEPT !.pc = "record", !.kind = "retry", !.lane = l, !.value = settings[l].retry])
  /\ UNCHANGED <<settings, lighting, buttons, library, device, files, edits>>

\* Mutant: a save takes along what the other lane shows.
SaveSettingBoth(ok) ==
  /\ Running("record", SettingLanes)
  /\ record' = IF ok THEN [record EXCEPT !.settings = [l \in SettingLanes |->
                              IF l = op.lane THEN op.value ELSE settings[l].value]]
                     ELSE record
  /\ op' = [op EXCEPT !.pc = "profile", !.failed = ~ok]
  /\ UNCHANGED <<settings, lighting, buttons, library, device, profile, counts>>

SaveSettingRecord(ok) ==
  /\ Running("record", SettingLanes)
  /\ record' = IF ok THEN [record EXCEPT !.settings[op.lane] = op.value] ELSE record
  /\ op' = [op EXCEPT !.pc = "profile", !.failed = ~ok]
  /\ UNCHANGED <<settings, lighting, buttons, library, device, profile, counts>>

\* Mutant: the record's failure is forgotten once the profile is saved.
SaveSettingProfileForgetful(ok) ==
  /\ Running("profile", SettingLanes)
  /\ profile' = IF ok THEN [profile EXCEPT !.settings[op.lane] = op.value] ELSE profile
  /\ settings' = [settings EXCEPT ![op.lane].saved = IF ok THEN "success" ELSE "failed",
                                  ![op.lane].retry = IF ok THEN NoValue ELSE op.value]
  /\ Release
  /\ UNCHANGED <<lighting, buttons, library, device, record, counts>>

SaveSettingProfile(ok) ==
  /\ Running("profile", SettingLanes)
  /\ profile' = IF ok THEN [profile EXCEPT !.settings[op.lane] = op.value] ELSE profile
  /\ LET saved == ok /\ ~op.failed
     IN settings' = [settings EXCEPT ![op.lane].saved = IF saved THEN "success" ELSE "failed",
                                     ![op.lane].retry = IF saved THEN NoValue ELSE op.value]
  /\ Release
  /\ UNCHANGED <<lighting, buttons, library, device, record, counts>>

SettingsNext ==
  \/ \E l \in SettingLanes : ApplySettings(l) \/ RetrySetting(l)
  \/ \E l \in SettingLanes, v \in Values : StageSetting(l, v)
  \/ \E v \in Values : StageLighting(v)
  \/ ReadLighting \/ SettingsStale \/ SendSettings
  \/ ApplyLighting \/ ReadSettings \/ SendLighting
  \/ \E ok \in BOOLEAN : AcceptLighting(ok) \/ SaveSettingRecord(ok) \/ SaveSettingProfile(ok)
=============================================================================
