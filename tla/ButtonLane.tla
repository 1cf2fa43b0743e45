----------------------------- MODULE ButtonLane -----------------------------
(***************************************************************************)
(* The button lane: staging a layout and macros for its buttons, applying  *)
(* both, and saving what was applied. A layout with macros is one report   *)
(* that the mouse acknowledges and then the macros' chunks, which are not  *)
(* acknowledged one by one and never resent, and a final status.           *)
(*                                                                         *)
(* Staging reads the library into the draft. It is allowed at any time, so *)
(* an apply compares the revision, the binding and the library before and  *)
(* after the write. The layout pending and the staged macros are one draft.*)
(***************************************************************************)
EXTENDS EditedMouse

ButtonState ==
  [pending : Values, drafts : Drafts, applied : Values, macros : Drafts,
   firmware : {"", "pending", "success", "failed"},
   saved : {"", "success", "failed"}, retry : Values \cup {NoValue}]

ButtonTypeOK ==
  /\ buttons \in ButtonState
  /\ library \in Macros \cup {NoMacro}

\* newRemapState.
ButtonInit ==
  /\ buttons = [pending |-> Factory, drafts |-> Plain, applied |-> Factory, macros |-> Plain,
                firmware |-> "", saved |-> "", retry |-> NoValue]
  /\ library \in Macros

Lane == {"buttons"}
Quiet == UNCHANGED <<settings, lighting>>

-----------------------------------------------------------------------------
\* Staging. It leaves the labels and the retry alone.

StageRemap(c) ==
  /\ buttons' = [buttons EXCEPT !.pending = c]
  /\ Edit("buttons")
  /\ Quiet

\* StageMacroAssignment of a macro that cannot be read fails the lane.
StageMacro(b) ==
  /\ IF library = NoMacro
     THEN /\ buttons' = [buttons EXCEPT !.firmware = "failed"]
          /\ edits < MaxEdits
          /\ edits' = edits + 1
          /\ UNCHANGED <<library, device, files, op, ops>>
     ELSE /\ buttons' = [buttons EXCEPT !.drafts[b] = library]
          /\ Edit("buttons")
  /\ Quiet

ClearButton(b) ==
  /\ buttons' = [buttons EXCEPT !.drafts[b] = NoMacro]
  /\ Edit("buttons")
  /\ Quiet

ClearMacros ==
  /\ buttons' = [buttons EXCEPT !.drafts = Plain]
  /\ Edit("buttons")
  /\ Quiet

Discard ==
  /\ buttons' = [buttons EXCEPT !.pending = buttons.applied, !.drafts = Plain]
  /\ Edit("buttons")
  /\ Quiet

-----------------------------------------------------------------------------
\* remapComponent.apply.

Identical(c) ==
  /\ buttons.drafts = Plain
  /\ buttons.macros = Plain
  /\ buttons.applied = c
  /\ buttons.firmware = "success"

ApplyButtons(c) ==
  /\ ~Identical(c)
  /\ Begin([NoOperation EXCEPT !.pc = "admit", !.lane = "buttons",
              !.layout = [config |-> c, macros |-> buttons.drafts]])
  /\ UNCHANGED <<settings, lighting, buttons, library, device, files, edits>>

\* RetryRemapPersistence; applying the layout that is already applied comes here too.
RetryButtons ==
  /\ buttons.retry # NoValue
  /\ Begin([NoOperation EXCEPT !.pc = "record", !.kind = "retry", !.lane = "buttons",
              !.layout = [config |-> buttons.retry, macros |-> Plain]])
  /\ UNCHANGED <<settings, lighting, buttons, library, device, files, edits>>

Failed == buttons' = [buttons EXCEPT !.firmware = "failed"]
Fail == Failed /\ Release

Staged == {b \in Buttons : op.layout.macros[b] # NoMacro}
LibraryCurrent == \A b \in Staged : op.layout.macros[b] = library

\* The write may start: the library, then the revision and the binding.
Admitted == LibraryCurrent /\ ~op.moved /\ ~op.stale

\* Mutant: a draft staged during the local checks is overwritten.
AdmitUnchecked ==
  /\ Running("admit", Lane)
  /\ IF LibraryCurrent /\ ~op.stale
     THEN /\ buttons' = [buttons EXCEPT !.pending = op.layout.config, !.firmware = "pending",
                                        !.saved = "", !.retry = NoValue]
          /\ op' = [op EXCEPT !.pc = IF Staged = {} THEN "send" ELSE "assign"]
     ELSE Fail
  /\ Quiet
  /\ UNCHANGED <<library, device, files, counts>>

\* A failed local check leaves the draft, the labels' saved part and the retry.
Admit ==
  /\ Running("admit", Lane)
  /\ IF Admitted
     THEN /\ buttons' = [buttons EXCEPT !.pending = op.layout.config, !.firmware = "pending",
                                        !.saved = "", !.retry = NoValue]
          /\ op' = [op EXCEPT !.pc = IF Staged = {} THEN "send" ELSE "assign"]
     ELSE Fail
  /\ Quiet
  /\ UNCHANGED <<library, device, files, counts>>

-----------------------------------------------------------------------------
\* The write of a layout without macros (applyBound).

Assigned == [mouse EXCEPT !.config = op.layout.config,
                          !.macros = [b \in Buttons |-> IF b \in Staged THEN Unloaded ELSE NoMacro]]

AckLayout == acked' = [acked EXCEPT !.layouts = @ \cup {op.layout}]

SendLayout ==
  /\ Running("send", Lane)
  /\ \/ ~op.stale /\ mouse' = Assigned /\ AckLayout
        /\ op' = [op EXCEPT !.pc = "accept"] /\ UNCHANGED buttons
     \/ ~op.stale /\ mouse' \in {mouse, Assigned} /\ Fail /\ UNCHANGED acked
     \/ op.stale /\ Fail /\ UNCHANGED device
  /\ Quiet
  /\ UNCHANGED <<library, files, counts>>

AcceptLayout ==
  /\ Running("accept", Lane)
  /\ IF op.moved \/ op.stale
     THEN Fail
     ELSE /\ buttons' = [buttons EXCEPT !.applied = op.layout.config, !.macros = Plain,
                                        !.firmware = "success"]
          /\ op' = [op EXCEPT !.pc = "record"]
  /\ Quiet
  /\ UNCHANGED <<library, device, files, counts>>

-----------------------------------------------------------------------------
\* The write of a layout with macros (applyMacroBound and
\* sendX6MacroAssignmentReportsBound).

Broken == op' = [op EXCEPT !.pc = "complete", !.failed = TRUE]

\* Report 08. A failure before it is written starts nothing.
Assign ==
  /\ Running("assign", Lane)
  /\ \/ (op.stale \/ ~LibraryCurrent) /\ Fail /\ UNCHANGED device
     \/ ~op.stale /\ LibraryCurrent /\ UNCHANGED buttons
        /\ \/ Broken /\ UNCHANGED device
           \/ /\ mouse' \in {mouse, Assigned}
              /\ op' = [op EXCEPT !.pc = "complete", !.failed = TRUE, !.assignment = "unknown"]
              /\ UNCHANGED acked
           \/ /\ mouse' = Assigned
              /\ op' = [op EXCEPT !.pc = "upload", !.assignment = "ack_confirmed"]
              /\ UNCHANGED acked
  /\ Quiet
  /\ UNCHANGED <<library, files, counts>>

Loaded(state) ==
  [mouse EXCEPT !.macros = [b \in Buttons |-> IF b \in Staged THEN state[b] ELSE mouse.macros[b]]]
HalfLoaded == Loaded([b \in Buttons |-> Torn])
AllLoaded == Loaded(op.layout.macros)

\* Mutant: the upload counts as begun after a chunk is written, not before.
UploadChunksLate ==
  /\ Running("upload", Lane)
  /\ \/ Broken /\ UNCHANGED mouse
     \/ Broken /\ mouse' \in {HalfLoaded, AllLoaded}
     \/ op' = [op EXCEPT !.pc = "status", !.uploaded = "possibly_partial"] /\ mouse' = AllLoaded
  /\ Quiet
  /\ UNCHANGED <<buttons, library, acked, files, counts>>

\* Reports 09. Each is validated first and may fail; a failed one may be taken.
UploadChunks ==
  /\ Running("upload", Lane)
  /\ \/ Broken /\ UNCHANGED mouse
     \/ /\ mouse' \in {mouse, HalfLoaded, AllLoaded}
        /\ op' = [op EXCEPT !.pc = "complete", !.failed = TRUE, !.uploaded = "possibly_partial"]
     \/ op' = [op EXCEPT !.pc = "status", !.uploaded = "possibly_partial"] /\ mouse' = AllLoaded
  /\ Quiet
  /\ UNCHANGED <<buttons, library, acked, files, counts>>

\* The final status is read, or another report, a timeout or a lost binding ends the wait.
AwaitStatus ==
  /\ Running("status", Lane)
  /\ \/ op' = [op EXCEPT !.pc = "complete", !.uploaded = "confirmed"] /\ AckLayout
     \/ Broken /\ UNCHANGED acked
  /\ Quiet
  /\ UNCHANGED <<buttons, library, mouse, files, counts>>

\* What the completion checks again under the lock it saves the profile with.
Completed == ~op.moved /\ ~op.stale /\ LibraryCurrent /\ ~op.failed

\* Mutant: a save that failed leaves no retry.
CompleteMacrosForgetful(ok) ==
  /\ Running("complete", Lane)
  /\ IF Completed
     THEN /\ buttons' = [buttons EXCEPT !.applied = op.layout.config, !.macros = op.layout.macros,
                           !.firmware = "success", !.saved = IF ok THEN "success" ELSE "failed"]
          /\ profile' = IF ok THEN [profile EXCEPT !.layout = op.layout] ELSE profile
     ELSE Failed /\ UNCHANGED profile
  /\ Release
  /\ Quiet
  /\ UNCHANGED <<library, device, record, counts>>

\* The device record cannot name macros and is not written.
CompleteMacros(ok) ==
  /\ Running("complete", Lane)
  /\ IF Completed
     THEN /\ buttons' = [buttons EXCEPT !.applied = op.layout.config, !.macros = op.layout.macros,
                           !.firmware = "success", !.saved = IF ok THEN "success" ELSE "failed",
                           !.retry = IF ok THEN @ ELSE op.layout.config]
          /\ profile' = IF ok THEN [profile EXCEPT !.layout = op.layout] ELSE profile
     ELSE Failed /\ UNCHANGED profile
  /\ Release
  /\ Quiet
  /\ UNCHANGED <<library, device, record, counts>>

-----------------------------------------------------------------------------
\* Saving an ordinary layout, and retryBound, which saves the record for a
\* layout with macros too.

SaveLayoutRecord(ok) ==
  /\ Running("record", Lane)
  /\ record' = IF ok THEN [record EXCEPT !.config = op.layout.config] ELSE record
  /\ op' = [op EXCEPT !.pc = "profile", !.failed = ~ok]
  /\ Quiet
  /\ UNCHANGED <<buttons, library, device, profile, counts>>

\* The macros of a retry are the ones applied now.
Saved == IF op.kind = "retry" THEN [op.layout EXCEPT !.macros = buttons.macros] ELSE op.layout

Labels(saved) ==
  IF op.kind = "retry"
  THEN IF saved THEN [buttons EXCEPT !.saved = "success", !.retry = NoValue]
                ELSE [buttons EXCEPT !.firmware = "failed"]
  ELSE IF saved THEN [buttons EXCEPT !.saved = "success"]
                ELSE [buttons EXCEPT !.saved = "failed", !.retry = op.layout.config]

SaveLayoutProfile(ok) ==
  /\ Running("profile", Lane)
  /\ profile' = IF ok THEN [profile EXCEPT !.layout = Saved] ELSE profile
  /\ buttons' = Labels(ok /\ ~op.failed)
  /\ Release
  /\ Quiet
  /\ UNCHANGED <<library, device, record, counts>>

ButtonNext ==
  \/ \E c \in Values : StageRemap(c) \/ ApplyButtons(c)
  \/ \E b \in Buttons : StageMacro(b) \/ ClearButton(b)
  \/ ClearMacros \/ Discard \/ RetryButtons
  \/ \E m \in Macros \cup {NoMacro} : EditLibrary(m)
  \/ Admit \/ SendLayout \/ AcceptLayout
  \/ Assign \/ UploadChunks \/ AwaitStatus
  \/ \E ok \in BOOLEAN : CompleteMacros(ok) \/ SaveLayoutRecord(ok) \/ SaveLayoutProfile(ok)
=============================================================================
