---------------------------- MODULE EditedMouse ----------------------------
(***************************************************************************)
(* What the sleep, response time, lighting and button lanes of one mouse   *)
(* share: the mouse, the files its settings are saved in, the macro        *)
(* library, and the operation that holds operationMu. SettingsLane and     *)
(* ButtonLane add their steps, DeviceEdits composes them.                  *)
(*                                                                         *)
(* One mouse is selected, hydrated and persistent. A refresh takes a new   *)
(* revision, so the binding an operation captured is never current again.  *)
(* An ACK answers the command that waits for it (AckResend has late ones). *)
(***************************************************************************)
EXTENDS Integers

CONSTANTS
  Values,    \* sleep times, response times, lightings and button layouts
  Factory,   \* the one of them a mouse starts with
  NoValue,   \* a nil retry, a nil applied lighting
  Buttons,   \* buttons a macro can be assigned to
  Macros,    \* contents of the one macro in the library
  NoMacro,   \* no macro on a button, no macro in the library
  Unloaded,  \* a macro button none of whose chunks the mouse has
  Torn,      \* a macro button with some of its chunks
  MaxEdits,  \* bound on the drafts staged and the edits of the library
  MaxOps     \* bound on the applies and retries started

ASSUME FactoryAssumption == Factory \in Values /\ NoValue \notin Values
ASSUME MacrosAssumption ==
  /\ {NoMacro, Unloaded, Torn} \cap Macros = {}
  /\ NoMacro # Unloaded /\ NoMacro # Torn /\ Unloaded # Torn
ASSUME EditBoundsAssumption == MaxEdits \in Nat /\ MaxOps \in Nat

VARIABLES
  settings,  \* the settingsState: the sleep lane and the response lane
  lighting,  \* the lightingState
  buttons,   \* the remapState
  library,   \* the macro in the library
  mouse,     \* what the mouse holds
  acked,     \* every setting and every layout with macros the mouse acknowledged
  record,    \* the device record on disk
  profile,   \* the active profile on disk
  op,        \* the operation that holds operationMu
  edits,     \* drafts staged and library edits so far
  ops        \* operations started so far

files == <<record, profile>>
device == <<mouse, acked>>
counts == <<edits, ops>>
vars == <<settings, lighting, buttons, library, device, files, op, counts>>

SettingLanes == {"sleep", "response"}
Fields == SettingLanes \cup {"lighting"}
Plain == [b \in Buttons |-> NoMacro]
Drafts == [Buttons -> Macros \cup {NoMacro}]

\* What settings are sent in one report, and what layout goes with which macros.
Sent == [Fields -> Values]
Layouts == [config : Values, macros : Drafts]
FactorySent == [f \in Fields |-> Factory]
FactoryLayout == [config |-> Factory, macros |-> Plain]

Operation ==
  [pc : {"idle", "lighting", "settings", "send", "accept", "record", "profile",
         "admit", "assign", "upload", "status", "complete"},
   kind : {"apply", "retry"}, lane : Fields \cup {"buttons"}, sent : Sent, value : Values,
   layout : Layouts, stale : BOOLEAN, moved : BOOLEAN, failed : BOOLEAN,
   assignment : {"not_started", "unknown", "ack_confirmed"},
   uploaded : {"not_started", "possibly_partial", "confirmed"}]

NoOperation ==
  [pc |-> "idle", kind |-> "apply", lane |-> "sleep", sent |-> FactorySent, value |-> Factory,
   layout |-> FactoryLayout, stale |-> FALSE, moved |-> FALSE, failed |-> FALSE,
   assignment |-> "not_started", uploaded |-> "not_started"]

Running(pc, lanes) == op.pc = pc /\ op.lane \in lanes
Release == op' = NoOperation
Begin(o) ==
  /\ op.pc = "idle"
  /\ ops < MaxOps
  /\ op' = o
  /\ ops' = ops + 1

\* A person's edit of a lane: the revision an operation of that lane captured
\* is not the lane's any more.
Edit(lane) ==
  /\ edits < MaxEdits
  /\ edits' = edits + 1
  /\ op' = [op EXCEPT !.moved = @ \/ (op.pc # "idle" /\ op.lane = lane)]
  /\ UNCHANGED <<library, device, files, ops>>

\* RefreshInventory: only an operation that captured a binding can tell.
Refresh ==
  /\ op.pc # "idle"
  /\ op' = [op EXCEPT !.stale = TRUE]
  /\ UNCHANGED <<settings, lighting, buttons, library, device, files, counts>>

\* UpdateMacro and DeleteMacro. A macro created later has another identity.
EditLibrary(m) ==
  /\ library # NoMacro
  /\ edits < MaxEdits
  /\ library' = m
  /\ edits' = edits + 1
  /\ UNCHANGED <<settings, lighting, buttons, device, files, op, ops>>
=============================================================================
