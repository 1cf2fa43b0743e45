# Verification of attack-shark-linux

TLA+ models of the X6 mouse configurator: what it keeps in memory, on disk and
in the mouse, how its goroutines interleave, and what happens when a write, an
acknowledgement, a file operation or the process itself fails. TLC checks each
model on a small instance; TLAPS proves the safety properties and the refinements
for every value of the constants. Liveness stays with TLC.

## 1. The system

| Component | Source | State | Operations |
|---|---|---|---|
| Targeted inventory | `internal/mouse/service.go` | eligible mice, revision, selection | Refresh, Select, CompleteBound |
| Profile switch and state loading | `internal/desktop/profiles.go`, `inventory.go` | per mouse: applied and pending lanes, hydration flag | SwitchProfile, GetProfiles, RefreshInventory, SelectDevice |
| Profile store | `internal/configstore/profiles.go` | an index file and one file per profile, per mouse | Bootstrap, Create, Duplicate, Rename, Switch, SaveActive, Delete |
| Device records and reset | `internal/configstore/device_store.go`, `reset.go`, `internal/desktop/emergency_reset.go` | one record per mouse, the state directory | Save, MigrateV1, PurgeAll, EmergencyReset |
| Lanes (DPI, polling, sleep, lighting, remap, macros) | `internal/desktop/{dpi,polling,sleep,lighting,remap,macro_assignment}.go` | applied, pending, retry, revision | Stage, Apply, Retry, Reset, listener events |
| Hidraw arbitration | `internal/hidlinux/hidraw_passive.go`, `binding.go` | ioBusy, commandPending, the registered listener | ReadInterruptIN, SendAndAwait(Bound) |
| ACK wait | `internal/hidlinux/resend.go` | attempts, timers | awaitACKWithResend |
| Macro upload | `internal/hidlinux/macro_upload.go` | progress of assignment and upload | SendX6Multi…Bound |
| Macro library | `internal/macros/library.go` | the macros, one file | Create, Update, Delete |
| Application lock | `internal/applock` | an flock on a file of the state directory | Acquire, IsHeld |
| Updater | `internal/update/updater.go` | target, backup and pending files | Apply, Recover |
| Unified update | `internal/desktop/unified_update.go` | phase, staged policy | Check, Confirm, Apply |
| Watcher and wrapper | `internal/procwatch`, `cmd/x6configurator/{watcher,wrapper}.go` | running games, the profile to restore | Tick, run, restore |

Four parts have no state that the others depend on and are left aside: the front
end (a view of the service's snapshots), the readers of game libraries, the tray
and autostart integration, and the release tooling and installer.

### How the parts interact

The front end calls methods of `desktop.Service`. Each call that may write
hardware takes `operationMu` for its whole run, so hardware operations are
serial; staging, selecting, refreshing and the listener take short state locks
and run beside them. The service resolves the selected mouse through
`mouse.TargetedService`, which hands out *bindings*: immutable values that name a
mouse, a path and the inventory revision they were made from. An operation sends
a report through the backend under a binding; the backend takes its turn on the
hidraw node (`hidraw_passive.go`), writes, and waits for the acknowledgement with
resends (`resend.go`). What was acknowledged is saved in the device record and in
the active profile. The always-on listener reads the same node, delivers stage
events into the DPI state, and takes turns with commands. The launch wrapper is a
second process that uses the same service and the same files; the watcher is a
goroutine that calls `SwitchProfile`.

### What is hard, and what makes each part correct

| Part | Hard behaviour | Correct when |
|---|---|---|
| Inventory | refreshes enumerate outside the mutex and commit in any order | a binding of an older inventory never becomes the selection again |
| Profile switch | four writes, a record and an index, any of which fails; selection, refreshes and loading move between them; crashes | the active pointer and a success report never run ahead of the mouse and the record; memory follows the acknowledgements |
| Profile store | failed system calls, crashes between two, write-back order, power loss | the index never dangles; each operation is atomic to readers; a reported change survives |
| Lanes | the selection is read again after an await; drafts and button events arrive during an apply; partial saves and retries | only what a mouse acknowledged is saved for it; a reported success is what the mouse holds |
| Hidraw turns | readers and commands race for one node; bounded reads expire | one turn at a time, callbacks one at a time, nobody starves |
| ACK wait | lost writes, late acknowledgements, motion that looks like a rejection, three timers | the wait is bounded, resends are bounded, no acknowledgement is counted twice |
| Macro upload | a chunk fails after the assignment was acknowledged | the progress reported never says more than the mouse holds |
| Local files | a save, a migration or a library change is cut between its file calls; saves read, change and replace one record | what a restart reads was saved, and a reported import has its backups |
| Reset and purge | rename, sync and removal fail or are cut; the lock file is in the purged directory | the state is found until its removal begins, and no power loss brings a part of it back; that a failed purge leaves it as it was does not hold |
| Updater | a crash between marker, backup and replacement | a whole program can always be found, and what was reported installed is on the disk |
| Unified update | checks, edits of the rules and applies interleave; the helper succeeds and then fails | what is installed is what was shown |
| Watcher and wrapper | two processes; a profile changed by the user meanwhile; partial switches | the profile restored is the one the user last chose |
| Lock order | state locks, the service lock and the inventory's | no cycle of waits |

PROJECT.json lists every hazard at its line, with the properties that cover it or
the reason why none does.

## 2. Plan

Each module comes with its MC module and its run; proofs follow once TLC agrees. A
module that can be proved about uses no RECURSIVE operator, and none does so far.

| # | Module | Composition | State |
|---|---|---|---|
| 1 | `Inventory` | implements `Selection` | checked, proved |
| 2 | `ProfileSwitch` | extends `Inventory` | checked, proved |
| 3 | `ProfileStore` | implements `ProfileBook` | checked, proved |
| 4 | `HidrawIO` | | checked; safety proved |
| 5 | `AckResend` | | checked; safety proved |
| 6 | `LaneEdits` | extends `Selection` | checked; proved for one mouse, and for any mice while the selection stays |
| 7 | `EditedMouse`, `SettingsLane`, `ButtonLane`, `DeviceEdits` | the two lanes extend the mouse, `DeviceEdits` joins them | checked, proved |
| 8 | `Updater`, `UnifiedUpdate` | `Updater` implements `Replacement`, `UnifiedUpdate` extends `Updater` | checked, proved |
| 9 | `StateDir`, `GameLaunch` | `GameLaunch` extends `StateDir` | checked; safety proved; two properties fail |
| 10 | `LocalRecords` | | checked, proved |
| 11 | `LockOrder` | | checked; its property fails |

Abstract specifications: `Selection` (what a caller of the inventory may rely on),
`ProfileBook` (a book of profiles that changes by whole operations) and
`Replacement` (a program that changes by whole versions and does not go back
behind what was reported).

Left to prove: a condition for the lanes of several mice that is weaker than a
selection that stays during an operation, such as one that may vanish and come back.

## 3. The modules

### Selection and Inventory (`internal/mouse/service.go`)

`plugged` is the bus. A refresh is `Enumerate` (the call made outside the mutex)
and `CommitRefresh` (the critical section: new revision, new eligible mice,
automatic selection when there is exactly one). `Select` is one critical section.
`Selection` forgets everything but the revision and the binding; `Inventory`
implements it under the identity mapping.

### ProfileSwitch (`internal/desktop/profiles.go`, `inventory.go`)

Extends `Inventory`. A configuration is named by the profile it comes from. For
every mouse there are four lanes in memory (`applied`, `pending`), on the mouse
(`hw`), in the device record and in the active pointer. `BeginSwitch`, `Gate`,
`Call`, `Send`, `Ack`, `CompleteLane`, `SaveRecord` and `Activate` are the
stretches of `SwitchProfile` between two points where another goroutine can act;
each has its failures beside it. `StartRefresh` to `Hydrate` are `RefreshInventory`,
`SelectDevice` and `GetProfiles`, whose steps interleave with the switch. `Stage` and
`StageSettings` are the edits of all lanes, which interleave with it too: the sleep
time and the debounce have one field for what is staged and what is shown as applied,
and are staged under a lock a switch does not hold. `restaged` is a history: such an
edit came after the switch completed its lane. `Crash` also stands for a panic and for
a normal exit.

Abstractions: lane 3 is the lighting and settings report and its half for the
settings; an acknowledgement here means that the mouse took the report (whether
it does is `AckResend`'s question); `CreateStates` joins the selection read at
line 77 with the critical section of lines 86-117; the per-lane labels are left
out; edits of the profile list write no hardware and are in `ProfileStore`.

### ProfileBook and ProfileStore (`internal/configstore/profiles.go`)

`index`, `files` and `dir` are what a process reads, `dIndex`, `dFiles` and
`dDir` what a power loss leaves. An operation runs under `s.mu`; its steps are
its system calls (`MakeDir`, `PublishFile`, `SyncDir`, `PublishIndex`,
`RemoveFile`), after each of which it may fail or die (`Abandon`), the kernel may
write back any entry, or power may be lost. `Fresh` says ids are random and never
meet a file left over. A refused request is no step. The store's root is never
synced, so `Bootstrap` may be lost as a whole; the mapping to `ProfileBook` says
so with `anchored`. Each operation of the store is one operation of the book, or none,
at the step where it becomes visible. In the book the disk keeps a copy, written back
part by part; `PowerLoss` is the only step that takes an operation back, and it brings
back that copy and nothing else. A directory without an index is refused for ever, which the code asks for.

### HidrawIO (`internal/hidlinux/hidraw_passive.go`, `binding.go`)

Readers are `Listen`'s loop and `Status` calls, the command is the one that
`operationMu` admits. `owner` and `pending` are `ioBusy` and `commandPending`,
`listener` the registered callback. The kernel gives each open node a queue of
its own. A read that times out, a cancelled wait and every error path of a
command are actions. `arrived` and `acks`
are the device's side of it.
The checks of the binding before a command waits for its turn are left out.

### AckResend (`internal/hidlinux/resend.go`)

Discrete time; a goroutine whose timer is due runs before the next tick. The
mouse takes a write or loses it, and acknowledges each one it took at any later
time; motion may look like a rejection at any time. `quiet`, `total` and `left`
are the deadline, the time since the first write, and the resend timer. Read,
open and transfer errors and cancellation are `Fail`. A first rejection replaces
the silence timer by a new resend delay, so after a late one the resend comes
later than the silence timer would have sent it.

### LaneEdits (`internal/desktop/dpi.go`, `polling.go`, `listener.go`)

Extends `Selection`. `lane` is the state in memory of each lane of each mouse,
and of the legacy DPI state used when nothing is selected. `op` is the operation
that holds `operationMu`; its `pc` values are the points between two critical
sections. The DPI lane asks for the selection again at each of them, the polling
lane captures a binding and compares. The check of the selection, the write and
its acknowledgement are one step, since nothing reads what changes between them;
so are the last file write and the labels set after it. Polling without a mouse
works on a throw-away state and is left out.

The mice are hydrated and have serial numbers. The sync coordinators have no
production caller of `Schedule`, so the delayed apply they would run is left out,
as are switches and resets. The settings, lighting and button lanes are in
`DeviceEdits`. The front end stages and applies each lane in order; the model does
not rely on it.

### EditedMouse, SettingsLane, ButtonLane, DeviceEdits (`internal/desktop/sleep.go`, `lighting.go`, `remap.go`, `macro_assignment.go`, `internal/hidlinux/macro_upload.go`)

One selected, hydrated and persistent mouse. `EditedMouse` is what the lanes share:
what the mouse holds, its files, the macro library, and `op`, the operation that
holds `operationMu`. `SettingsLane` has the sleep, the response and the lighting
lane, which go to the mouse in one report: applying one of them also sends what the
others show. Two disciplines meet there: `applySettings` keeps the staging of sleep
and response out by holding `applyMu`, lighting compares its revision after the ACK.
`ButtonLane` stages a layout and macros read from the library, compares revision,
binding and library before and after the write, and uploads: `Assign` (the report
08 and its ACK), `UploadChunks`, `AwaitStatus`, with the progress the backend
returns. `DeviceEdits` joins the lanes; `Refresh` takes a new revision at any time.

A macro's chunks are one step with three outcomes (`Unloaded`, `Torn`, all); an ACK
answers the command that waits for it. `acked` is a history of what the mouse
acknowledged.

### Replacement, Updater, UnifiedUpdate (`internal/update/updater.go`, `internal/desktop/unified_update.go`, `update.go`, `authenticated_policy_backend.go`, `policy_helper_linux.go`)

`Updater` is `Apply` and `recoverInstallation` call by call. A file is a number;
`dir` maps the names the code uses to files, `disk` is what a power loss leaves of
it, brought up to date by a sync or by the kernel at any time. Any call may fail,
and the process may end between any two. `Replacement` is what this promises, with
`Survivor`, the file a recovery would leave, as the mapping.

`UnifiedUpdate` is the service above it: checks (one step, since they read what
others change once), applies with the privileged helper and its partial results,
and the relaunch. `Publish` and `EditRules` are the world: new releases, and
somebody else's edits of the udev rules. A release is its version, a policy the
release that carries it; signatures, transport and sizes are left out.

### StateDir and GameLaunch (`internal/configstore/reset.go`, `internal/applock/applock.go`, `internal/desktop/emergency_reset.go`, `cmd/x6configurator/wrapper.go`, `watcher.go`, `internal/procwatch/procwatch.go`)

`StateDir` has the directories, the two names they are found under, now and on the
disk, and `PurgeAll` as its calls; `flock` is held on a directory's lock file, so a
purge can move a held lock away. `GameLaunch` adds the programs: `Wrapper` is
`runWrapper` with its probes of the lock, its switch with a time-out, the command,
and the restoration; `Application` the start with its attempts at the lock; `Watcher`
one tick in its steps, and its settings; `Reset` the emergency reset of a third
program or of the application. A switch is what `ProfileSwitch` shows of it: it
writes the mouse, moves the pointer at its end or fails on the way, and two writers
at once leave a `Mixture`. A removal takes files one by one, of the old state
(`RemoveSome`) and, when a purge is undone, of the new one (`RemoveNewSome`).
`seen` and `found` are histories for the properties.

### LocalRecords (`internal/configstore/device_store.go`, `internal/desktop/service.go`, `internal/macros/library.go`)

`dir` is what the running program sees of the data directory, `kept` what a power
loss leaves. `LoadRecord`, `SaveRecord` and `SyncRecord` are a save of one lane
under `configMu`; `StartMigration` to `SyncMigration` an import of the single-mouse
files, with a backup of each before the record; `ChangeLibrary`, `PersistLibrary`
and `ShowLibrary` a change of the macro library. The store's own mutex makes reading
and replacing the file one step. The kernel writes each name back by itself, in any
order (`WriteBackName`): the code syncs the directory once, after the record's rename,
so until then a power loss may keep the record without the backups. `BackupFirst`
therefore speaks of what the program sees when it records the import, and of the disk
once the import was reported (`imported`). Temporaries left behind are never read.

### LockOrder (`internal/desktop/*.go`)

A method of the desktop service is the sequence of its steps on mutexes, read from
the source on its longest way, with one selected mouse. `Callers` run methods, one
step at a time. The mutexes under which no other is taken are left out.

## 4. The runs

| Run | Question | Bounds |
|---|---|---|
| `mouse_access` | can a stale binding come back? do readers and commands share a node and all proceed? is every wait for an acknowledgement bounded? | 3 mice, 2 callers, 4 commits: each caller overtakes the other twice; 2 readers, 1 command at a time, 2 reports: one before and one inside a command; 2 commands in a row, 3 attempts, 3 motion reports, silence longer than backoff, deadline longer than both |
| `switch` | can the pointer or a report run ahead of the mouse? does memory follow what was acknowledged? | 2 mice, 2 profiles (one with macros), 1 switch, 2 refreshes, 1 crash; 1 edit of any lane, without a crash and with 1 refresh |
| `profile_store` | is every operation atomic, and what survives? | 3 ids, 2 names, 2 settings: a name freed and reused, a copy of a copy; unlimited operations and crashes |
| `lane_edits` | is only acknowledged state saved and shown? | 1 mouse, 3 settings, 2 drafts, 3 operations, 2 refreshes |
| `edits` | do the lanes that share a report, the files and the upload stay consistent? | 2 values a lane, 1 macro button with 2 contents, 2 drafts or library edits, 3 operations, refreshes at any time: an apply, an apply that fails over it, and a retry |
| `updates` | is there always a program, and is what is installed what was shown? | 3 versions, the last two with the same rules, 2 temporaries, 1 edit of the rules; at most 3 of releases, attempts and edits together; unlimited failures, crashes and power losses |
| `launch` | does the lock keep launches off the mouse, and what is put back? can the state be found until a purge removes it? | 1 launch, the application, 2 games, 2 changes of games, 2 resets, 1 opening, 1 choice of the user; two of these events at a time (the constraint in `MCGameLaunch` says which meet) |
| `records` | does a restart read what was saved? | 2 mice, 3 values, 3 saves or library changes, 1 kill or power loss, any number of migrations |

`mouse_access` checks three modules that share no variable: a behaviour of the run is
one of a layer, chosen at the start, while the others rest, since interleaving them
could neither add a behaviour to one nor take one away.

The constraint of `launch` keeps a launch apart from the watcher and its games, and
does not follow a launch whose switch is late or failed into a second of the other
events; the theorems about the launches and the watcher cover all of it together.

The bounds let every action fire. `lane_edits` has one mouse because with two the
property fails, which the run `acknowledged_only_persisted` shows. Deadlock is
checked where the system never stops (mouse access, profile store, lanes, updates) and not where a bound on switches, commands, ticks, edits, saves or events
stops the model.

Four runs end in a counterexample. Each property is what the repository says of
itself, quoted with its line in PROJECT.json.

| Run | What happens |
|---|---|
| `acknowledged_only_persisted` | another mouse is selected while `ApplyDPI` awaits its acknowledgement; the setting is saved as that mouse's |
| `failed_reset_keeps_state` | the removal of the old state fails half-way in an emergency reset; what is left of it is renamed back and is the state from then on |
| `app_owns_mouse` | the application is open when a reset from the command line moves its lock file away; a launch that asks then finds the lock free and writes the mouse |
| `lock_order` | three goroutines wait for one another: a refresh holds the service lock and asks for the DPI state's, a restoration holds those of the lanes and asks for remap's, and the staging of a button layout holds remap's and asks for the service lock |

Each property of a passing run has a mutant: an operator beside the mapped
definition with a plausible mistake, under which TLC finds the property violated.

What the properties leave out on purpose, since the code does it and no text says
otherwise, is said in PROJECT.json with the hazard it belongs to.

### Fairness

Three modules state liveness. `HidrawIO`: a read ends because its context has a
deadline, and a goroutine that can run does, so every started call moves on (weak
fairness of its steps); a command that waits is granted its turn because turns
end and readers stand back while one is announced. Nothing is assumed of the
device, nor that a caller calls again. `AckResend`: time passes, and a goroutine
whose timer is due runs; nothing is assumed of the mouse. `GameLaunch`: the steps
of a launch itself are taken (weak fairness), because it is a goroutine that runs
and every call it waits for is bounded by a timer (`bounded` in wrapper.go);
nothing is assumed of a switch that was begun, of the application, the watcher or
the user. The other modules are safety only.

## 5. The proofs

TLAPS checks every theorem to its leaves. Each safety theorem rests on an
inductive invariant: it holds initially, every action preserves it, and it
implies the property; the proof has one step per action. The invariants were
first checked by TLC.

| Module | Inductive invariant | Theorems |
|---|---|---|
| `ProfileSwitchProofs`, the inventory | types; the selection carries the newest revision; nothing is eligible before the first commit | `InventoryTypeCorrect`, `SelectionStaysCurrent`, `StaleNeverReturns`, `InventoryImplementsSelection` |
| `ProfileSwitchProofs`, the switch | `TypeOK`, `SwitchInv`; for memory also `MemoryInv` | `TypeCorrect`, `SwitchInvHolds`, `LanesAreDone`, `AppliedReportsAreTrue`, `ActivationIsComplete`, `MemoryFollows`, `SwitchIsShown` |
| `ProfileStoreProofs` | `TypeOK`, `StoreInv`; for the refinement also `PlanInv` | `StoreTypeCorrect`, `StoreInvHolds`, `IndexNeverDangles`, `StoreIsABook` |
| `HidrawIOProofs` | `TypeOK` and `TurnInv` | `IOTypeCorrect`, `TurnsAreExclusive`, `CallbacksAreSerialized` |
| `AckResendProofs` | `AckTypeOK`, `ResendInv`, `AnswersInv` | `AckTypeCorrect`, `ResendInvHolds`, `WaitBoundHolds`, `AcknowledgedOnce` |
| `LaneEditsProofs` | types with `RevisionsBounded`; with one mouse `PollingIsBound`, `AckInv` and `TruthInv`; with any `SteadyInv` | `LaneTypeCorrect`; `OneMousePersistsOnlyAcknowledged`, `OneMouseAppliedFollowsAck`, `OneMousePollingTruthful`; `SteadyPersistsOnlyAcknowledged`, `SteadyAppliedFollowsAck`, `SteadyPollingTruthful` |
| `DeviceEditsProofs` | `EditsInv`: types, `SettingsInv`, `ButtonsInv` | `EditsTypes`, `SuccessShown`, `SuccessSaved`, `SavedAcknowledged`, `RetryApplied`, `ProgressTruthful`, `DraftKept` |
| `UpdateProofs` | `UpdateInv`: types, `UpdaterInv`, `ServiceInv` and two of the properties | `UpdateTypes`, `AlwaysRecoverable`, `ApprovalShown`, `CompleteInstalled`, `PolicyTruthful`, `ReplacedAsAWhole`, `ReportedNeverLost`, `VerifiedIsNewest` |
| `DataDirectoryProofs`, the files | `RecordsInv` | `RecordsTypes`, `SavedSurvives`, `ImportIsBackedUp` |
| `DataDirectoryProofs`, the directory and the launches | `LaunchInv` with `StateInv`; `AskedInv`; `LaunchAlone`; `ChoiceInv` | `LaunchTypes`, `StateIsFound`, `PurgeIsComplete`, `LockIsHeeded`, `LaunchPutsBack`, `ChoiceIsKept` |

Why each property needs more than itself:

- *Inventory.* `StaleBindingStaysStale` speaks of a step; a step to a selection
  made before it is excluded because a selection always carries the newest
  revision. That every mouse `Select` may choose belongs to a committed
  inventory gives the refinement its `rev > 0`.
- *ProfileSwitch.* The pointer moves only after the record was saved, the record
  is saved only after lane 4, and a lane is passed only if it was acknowledged:
  `SwitchInv` says for each `pc` and `lane` what the mouse and the record hold by
  then, and that `ok` means the last step succeeded. What was reported of a mouse
  is withdrawn when a switch of it begins, so a crash leaves no claim behind. That
  memory follows the acknowledgements and the edits needs `MemoryInv` beside it: a mouse is
  hydrated once and by one caller, so no second load overwrites what a switch has
  completed; an acknowledged lane is completed with what the mouse acknowledged; and
  a switch that began on a hydrated mouse shows the target on every lane it is past, or
  a setting with one field that was staged since.
- *ProfileStore.* `StoreInv` says that the index read and the index on the disk
  both list only files present in both views, for each step of each operation
  what the file in hand is, that a removed file is in neither index, and that a
  settled change is durable. Without the part about the steps, the index written
  last could list a file not yet synced. The refinement maps a state to the book its
  index and files make, so the book changes where an index is renamed into place, or
  a file under an unchanged index. That this is one change of `ProfileBook`, although
  the index was planned steps earlier, is `PlanInv`: what an operation has in hand
  seeds, copies, renames, switches or removes one profile of the index that stands
  now. Every other step is a stutter, a step of the disk that writes a part of the copy,
  or the power loss, which goes back to the copy; after a change that was reported the
  copy is the published book (`Safe`).
- *HidrawIO.* Serial callbacks follow from exclusive turns, since a reader and a
  command call back only inside theirs; exclusivity is inductive once `owner` is
  tied to the steps of all actors.
- *AckResend.* The bound on the wait is not inductive: the time spent is bounded
  by the attempts made, and the time to come by the timer. `ResendInv` ties both
  together. That no acknowledgement answers two commands is a count, `AnswersInv`:
  the commands that had success, the acknowledgements on the way and those not yet
  read are together no more than the writes the mouse took.
- *LaneEdits.* What is saved is what is staged for retry or in hand, so both must
  be acknowledged; what is in hand was sent under a binding, and with one mouse
  every later reading of the selection names that mouse. A polling success is
  truthful because the revision captured with a draft, while it is still the lane's,
  names that draft, and a draft staged since has taken an older success back
  (`CaptureCovers`); a refresh in between only makes the operation refuse to write.
  With two mice the lanes do not keep these properties: the DPI lane saves one
  mouse's setting as the other's, as the run `acknowledged_only_persisted` shows,
  and the polling lane, which captures its binding before it reads the state of
  whatever is selected by then, may send the other mouse's draft when the selection
  comes back and both lanes have the same revision. So there are two sets of
  theorems. The first assumes `Devices = {m}` and lets the selection come and go. The
  second, for any mice, speaks of `SteadySpec`: the behaviours in which no step
  changes which mouse is selected while an operation runs (`SelectionKept`), while
  refreshes, drafts and stage events go on. This names what the lanes rely on and do
  not check. `LaneTypeCorrect` assumes neither.
- *DeviceEdits.* The report that three lanes share is what all of them show when it
  is sent, for two reasons: settings cannot be staged under `applyMu`, and lighting
  notices by its revision (`SentIsCurrent`). From the acknowledgement to the last
  file, what is saved was acknowledged and is what the lane shows if it shows a
  success (`SavingIsShown`, `LayoutInv`). An apply of the buttons takes the success
  back before it writes, so a cut upload leaves no claim (`WritingInv`,
  `WrittenInv`). Each half of the invariant is kept by the other lane's steps
  because they leave all it names.
- *Updater, UnifiedUpdate.* Before each call the directory read and the directory on
  the disk both have a synced survivor, and the calls tell whether the marker and a
  program are in place (`DirectoryInv`); the temporary is no program's name until it
  is whole (`TemporaryInv`); no survivor is newer than what runs or is applied
  (`VersionInv`), which makes a rename a replacement by a newer version and never a
  step back. `ServiceInv` ties the service's phases to the updater's calls, so that
  a completed replacement is one that is synced with nothing left to recover.
- *LocalRecords.* A restart reads what was saved because the directory, now and as a
  power loss leaves it, has for each lane the acknowledged setting or one whose save
  began later, and a save in hand has read the other lane's setting of that kind
  (`SaverInv`). A migration that will import has found no record and has made the
  backups it is past (`MoverInv`); its sync brings them to the disk with the record, and
  from then on no step takes a whole backup away.
- *StateDir.* The state is found because from the purge's first rename it is in
  quarantine, whole until the removal, and no power loss undoes the renames later, since
  the parent's sync precedes the removal (`PurgeInv`); numbers tell old directories from new ones
  (`DirsInv`).
- *GameLaunch.* A launch keeps off the mouse while the locked file is in its place
  unless that lock came later: once a launch may write, either the lock is not in its
  place or the history says it came since (`AskedInv`), also across a purge that moves
  the locked file away. An undisturbed launch puts back what it found because the mouse
  and the pointer show it until the switch begins, and from then on the launch has it in
  mind, however far the switch gets, until its restoration has written it (`LaunchAlone`). The
  watcher returns to the last choice because the pointer holds that choice, or the
  profile the watcher set with the choice in mind, at each step of a tick
  (`ChoiceInv`).

Assumptions are those of the modules, which TLC evaluates in every run: the mice
are a finite set (`DevicesFinite`), bounds are natural numbers (`MaxRevIsNat`,
`BoundsAssumption`, `EditBoundsAssumption`), the nil values are no values
(`NoBindingAssumption`, `SelectionAssumption`, `FactoryAssumption`,
`OwnersAssumption`, `ConstantsAssumption`, `MacrosAssumption`, `ValuesAssumption`,
`LibrariesAssumption`), profiles with macros are profiles
(`MacroProfilesAssumption`), the listener is a reader and the
command is not (`ActorsAssumption`), there is at least one attempt and a silence of
at least one tick (`DelaysAssumption`), versions, files and policies are numbered
(`UpdaterAssumption`, `PolicyAssumption`), directories are numbered and the profiles
that launches and rules name exist (`StateDirAssumption`, `LaunchAssumption`). The
lane theorems of one mouse assume one in their statement; no other theorem adds to
these.

Only model-checked is liveness (`CommandProceeds`, `ReadersReadmitted`,
`CommandReturns`, `CommandRuns`), which needs ENABLED, out of the prover's reach. The
four counterexamples are facts of an instance, and TLC's.

Induction over data is out of the prover's reach as well; no module here defines
anything by recursion over data that a theorem would speak of.

## 6. What is not modelled

PROJECT.json lists every component with its status. Beyond the abstractions
above:

- *X6 codecs:* pure functions from settings to bytes. The properties tell settings
  apart, not bytes, and the repository's table tests cover the layouts.
- *I/O and parsing:* HID descriptors, sysfs and uevents, other programs' game
  libraries, network transport and signatures of the updater beyond accepting or
  refusing a release.
- *Desktop integration and tooling:* tray, autostart, window, front end, release
  tooling, installer. They keep no state the modules depend on.
- *Within modelled components:* the sync coordinators and `HandleEvent`, which have
  no caller in the running program; the resets of one lane; the upload of a single
  macro, which the service does not call; the writes of the old single-mouse store.

Hazards known and not covered by a property have a note in PROJECT.json. Those in
modelled code are: a restoration during a switch of a mouse that is not hydrated
yet; a switch in the window in which a selected mouse has no state; events read by a
command while `Listen` reopens its node, and a report delivered by a command and
again by the listener; a retry of the DPI lane left behind by a draft staged between
an acknowledgement and its failed save; a mouse replugged while a command waits for
its turn; a polling draft of another mouse sent when the selection leaves and comes
back; a second mouse that imports the same old files; two writers of one device
record in different processes; the lanes of a reset that fails half-way; and, in parts of covered
hazards, a late status of an abandoned upload, an import without its backups after a power loss
before its sync, a quarantine left behind, a choice
made in the middle of a watcher's tick, and a switch of a launch that fails to save.

## 7. Running

    tlc -workers 2 -config MCProfileSwitch.cfg MCProfileSwitch
    tlapm ProfileSwitchProofs.tla

PROJECT.json names the module and configuration of every run and, under `map`,
the source lines each definition models.
