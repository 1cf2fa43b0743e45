----------------------------- MODULE GameLaunch ------------------------------
(***************************************************************************)
(* The programs that switch the mouse's profile around a game: launches    *)
(* through the command line (src/cmd/x6configurator/wrapper.go), the       *)
(* desktop application with its game watcher (main.go, watcher.go,         *)
(* src/internal/procwatch/procwatch.go, watcher_settings.go), and the      *)
(* emergency reset, which any of them may meet.                            *)
(*                                                                         *)
(* SwitchProfile is reduced to what ProfileSwitch shows of it: it writes   *)
(* the mouse lane by lane and moves the active pointer at the end, or      *)
(* fails on the way.  Two programs writing at once leave a mixture.        *)
(***************************************************************************)
EXTENDS StateDir

CONSTANTS Wrappers,   \* launches through the command line
          App,        \* the desktop application
          Ref,        \* the profile each launch asks for
          Games,      \* the games the watcher's rules name
          Rule,       \* the profile of each rule
          NoGame,
          Mixture,    \* on the mouse: parts of several profiles
          MaxTries,   \* appLockAttempts
          MaxUser, MaxGames, MaxOpens, MaxResets  \* bounds on the environment

ASSUME LaunchAssumption ==
    /\ Processes = Wrappers \cup {App} /\ App \notin Wrappers
    /\ Ref \in [Wrappers -> Profiles \cup {Defaults}] /\ Rule \in [Games -> Profiles]
    /\ NoGame \notin Games /\ Mixture \notin Profiles \cup {Defaults, NoProfile}
    /\ MaxTries \in Nat \ {0}
    /\ MaxUser \in Nat /\ MaxGames \in Nat /\ MaxOpens \in Nat /\ MaxResets \in Nat

VARIABLES mouse,      \* the profile on the mouse
          call,       \* of each process, its call of SwitchProfile
          pc,         \* of each launch, what runWrapper does next
          previous,   \* of each launch, the profile it is to put back
          signalled,  \* of each launch, a signal came before its command
          app,        \* "closed", "opening", "open"
          tries,      \* attempts at the lock
          watch,      \* the watcher, with the settings it runs with
          setter,     \* SetWatcherSettings: "none", or "saved" and not yet applied
          games,      \* the games that run
          reset,      \* the emergency reset: "off", "lanes", "purge"
          inApp,      \* the application runs it itself
          seen,       \* history: what the properties compare with, see below
          spent       \* spent bounds

launchVars == <<stateVars, mouse, call, pc, previous, signalled, app, tries, watch, setter, games,
                reset, inApp, seen, spent>>

Ids == Profiles \cup {Defaults, NoProfile}
Idle == [at |-> "none", id |-> NoProfile, code |-> "ok"]
Calls == [at : {"none", "begun", "writing", "written", "done"}, id : Ids,
          code : {"ok", "apply_failed", "other"}]

\* The watcher: its fields, and the tick's step with the game and the profile the
\* tick found.
Resting == [on |-> FALSE, active |-> FALSE, current |-> NoGame, setID |-> NoProfile,
            previous |-> NoProfile, step |-> "idle", next |-> NoGame, found |-> NoProfile]
Watch == [on : BOOLEAN, active : BOOLEAN, current : Games \cup {NoGame}, setID : Ids,
          previous : Ids, step : {"idle", "compare", "match", "take", "move", "back"},
          next : Games \cup {NoGame}, found : Ids]

WrapperSteps == {"start", "probe", "probed", "prepare", "resolved", "switch", "ready", "command",
                 "wait", "reprobe", "reprobed", "restoring", "ended"}

\* Histories: of each launch, the profile at its start; that nothing else has
\* touched the mouse or the files since; that a locked lock file has come to its
\* place since its last probe, or since it should have probed anew; that it has had
\* no reason to leave the mouse as it is by now.  Of the profiles, the one chosen
\* last by anybody but the watcher; and that this was lost track of.
History == [before : [Wrappers -> Ids], alone : [Wrappers -> BOOLEAN], met : [Wrappers -> BOOLEAN],
            quiet : [Wrappers -> BOOLEAN], chosen : Ids, slipped : BOOLEAN]

LaunchTypeOK ==
    /\ StateTypeOK
    /\ mouse \in Ids \cup {Mixture}
    /\ call \in [Processes -> Calls]
    /\ pc \in [Wrappers -> WrapperSteps]
    /\ previous \in [Wrappers -> Ids] /\ signalled \in [Wrappers -> BOOLEAN]
    /\ app \in {"closed", "opening", "open"} /\ tries \in 0..MaxTries
    /\ watch \in Watch /\ setter \in {"none", "saved"} /\ games \in SUBSET Games
    /\ reset \in {"off", "lanes", "purge"} /\ inApp \in BOOLEAN
    /\ seen \in History
    /\ spent \in [{"user", "games", "opens", "resets"} -> Nat]

LaunchInit ==
    /\ StateInit
    /\ mouse = Original
    /\ call = [p \in Processes |-> Idle]
    /\ pc = [w \in Wrappers |-> "start"]
    /\ previous = [w \in Wrappers |-> NoProfile]
    /\ signalled = [w \in Wrappers |-> FALSE]
    /\ app = "closed" /\ tries = 0 /\ watch = Resting /\ setter = "none"
    /\ games \in SUBSET Games
    /\ reset = "off" /\ inApp = FALSE
    /\ seen = [before |-> [w \in Wrappers |-> NoProfile], alone |-> [w \in Wrappers |-> TRUE],
               met |-> [w \in Wrappers |-> FALSE], quiet |-> [w \in Wrappers |-> TRUE],
               chosen |-> Original, slipped |-> FALSE]
    /\ spent = [b \in {"user", "games", "opens", "resets"} |-> 0]

Spend(what, bound) ==
    /\ spent[what] < bound
    /\ spent' = [spent EXCEPT ![what] = @ + 1]

-----------------------------------------------------------------------------
(* SwitchProfile                                                           *)

\* operationMu: one call, or the application's own reset, at a time.
Free(p) == call[p].at = "none" /\ ~(p = App /\ inApp)
Begin(p, id) == Free(p) /\ call' = [call EXCEPT ![p] = [at |-> "begun", id |-> id, code |-> "ok"]]
Done(p, code) == call' = [call EXCEPT ![p].at = "done", ![p].code = code]
At(p, step) == call' = [call EXCEPT ![p].at = step]

\* Process p has touched the mouse or the files.
Touched(p) == [w \in Wrappers |-> seen.alone[w] /\ w = p]

\* A choice the watcher cannot see: made in the middle of a tick, or of the profile
\* it has set itself.
Unseen(id) == watch.step # "idle" \/ (watch.active /\ id = watch.setID)

\* GetProfiles returns the active profile, or nothing when it cannot be read.
\* Without files it makes Defaults.
GetProfiles(result) ==
    \/ /\ Current.active # NoProfile /\ result = Current.active
       /\ UNCHANGED stateVars
    \/ /\ Current.active = NoProfile /\ result = Defaults
       /\ Write([Current EXCEPT !.active = Defaults])
       /\ UNCHANGED <<placed, flock, purge, found>>
    \/ result = NoProfile /\ UNCHANGED stateVars

\* The call ends with an error before the first lane.  It has read the profiles.
SwitchRefused(p) ==
    /\ call[p].at = "begun"
    /\ \E code \in {"apply_failed", "other"} : Done(p, code)
    /\ \E result \in Ids : GetProfiles(result)
    /\ UNCHANGED <<mouse, seen>>

SwitchWrites(p) ==
    /\ call[p].at = "begun" /\ call[p].id \in Readable
    /\ At(p, "writing")
    /\ mouse' = Mixture
    /\ seen' = [seen EXCEPT !.alone = Touched(p)]
    /\ UNCHANGED stateVars

\* A lane fails; a lost device or binding is not apply_failed.
SwitchBreaks(p) ==
    /\ call[p].at = "writing"
    /\ \E code \in {"apply_failed", "other"} : Done(p, code)
    /\ UNCHANGED <<stateVars, mouse, seen>>

Mingled(p) == reset = "lanes" \/ \E q \in Processes \ {p} : call[q].at = "writing"

SwitchWritten(p) ==
    /\ call[p].at = "writing"
    /\ At(p, "written")
    /\ mouse' \in {call[p].id} \cup (IF Mingled(p) THEN {Mixture} ELSE {})
    /\ seen' = [seen EXCEPT !.alone = Touched(p)]
    /\ UNCHANGED stateVars

\* The pointer is saved; it may have moved although the call fails.
SwitchSaves(p) ==
    /\ call[p].at = "written"
    /\ call[p].id \in Readable
    /\ Write([Current EXCEPT !.active = call[p].id])
    /\ \E code \in {"ok", "other"} :
         /\ Done(p, code)
         /\ seen' = [seen EXCEPT !.alone = Touched(p),
                                 !.chosen = IF p = App THEN @ ELSE call[p].id,
                                 !.slipped = @ \/ code # "ok" \/ (p # App /\ Unseen(call[p].id))]
    /\ UNCHANGED <<mouse, placed, flock, purge, found>>

\* The record or the pointer could not be written.  The record's directory is
\* made if it is missing.
SwitchUnsaved(p) ==
    /\ call[p].at = "written"
    /\ Done(p, "other")
    /\ \/ UNCHANGED <<place, content, made>>
       \/ Here = NoDir /\ Write(Empty)
    /\ UNCHANGED <<mouse, seen, placed, flock, purge, found>>

Switching(p) ==
    /\ SwitchRefused(p) \/ SwitchWrites(p) \/ SwitchBreaks(p) \/ SwitchWritten(p)
       \/ SwitchSaves(p) \/ SwitchUnsaved(p)
    /\ UNCHANGED <<pc, previous, signalled, app, tries, watch, setter, games, reset, inApp, spent>>

-----------------------------------------------------------------------------
(* A launch through the command line                                       *)

Goto(w, step) == pc' = [pc EXCEPT ![w] = step]
\* A warning that says that the profile is not applied or not put back.
Warn(w) == seen' = [seen EXCEPT !.quiet[w] = FALSE]

WrapperStarts(w) ==
    /\ pc[w] = "start"
    /\ Goto(w, "probe")
    /\ seen' = [seen EXCEPT
                  !.before[w] = IF mouse = Current.active THEN Current.active ELSE NoProfile,
                  !.alone[w] = reset = "off" /\ \A q \in Processes : call[q].at = "none"]
    /\ UNCHANGED <<stateVars, call, previous, signalled>>

\* A signal in the time before the command starts.
Signal(w) ==
    /\ pc[w] \in {"probe", "probed", "prepare", "resolved", "switch", "ready"}
    /\ signalled' = [signalled EXCEPT ![w] = TRUE]
    /\ UNCHANGED <<stateVars, call, pc, previous, seen>>

\* IsHeld locks the file for a moment when nobody else does.
Probe(w, free, otherwise) ==
    \/ /\ ~IsHeld
       /\ flock' = [flock EXCEPT ![w] = IF Current.lock THEN Here ELSE NoDir]
       /\ Goto(w, free)
       /\ seen' = [seen EXCEPT !.met[w] = FALSE]
       /\ UNCHANGED <<place, placed, content, made, purge, found>>
    \* Held, or the lock file cannot be opened.
    \/ Goto(w, otherwise) /\ Warn(w) /\ UNCHANGED stateVars

FirstProbe(w) ==
    /\ pc[w] = "probe" /\ Probe(w, "probed", "ready")
    /\ UNCHANGED <<call, previous, signalled>>

ProbeDone(w) ==
    /\ pc[w] = "probed" /\ Release(w) /\ Goto(w, "prepare")
    /\ UNCHANGED <<place, placed, content, made, purge, found, call, previous, signalled, seen>>

\* Detection and GetProfiles; each may fail or take too long, and the profile may
\* not be found.
Prepare(w) ==
    /\ pc[w] = "prepare"
    /\ \/ /\ \E result \in Ids \ {NoProfile} :
               GetProfiles(result) /\ previous' = [previous EXCEPT ![w] = result]
          /\ Ref[w] \in Readable'
          /\ Goto(w, "resolved")
          /\ UNCHANGED seen
       \/ GetProfiles(NoProfile) /\ Warn(w) /\ Goto(w, "ready") /\ UNCHANGED previous
       \/ GetProfiles(Defaults) /\ Warn(w) /\ Goto(w, "ready") /\ UNCHANGED previous
    /\ UNCHANGED <<call, signalled>>

BeginSwitch(w) ==
    /\ pc[w] = "resolved"
    /\ Begin(w, Ref[w])
    /\ Goto(w, "switch")
    /\ UNCHANGED <<stateVars, previous, signalled, seen>>

\* Only an apply_failed, or no answer in time, leaves a profile to put back.
SwitchReturns(w) ==
    /\ pc[w] = "switch" /\ call[w].at = "done"
    /\ Goto(w, "ready")
    /\ previous' = [previous EXCEPT ![w] = IF call[w].code = "other" THEN NoProfile ELSE @]
    /\ seen' = [seen EXCEPT !.quiet[w] = @ /\ call[w].code # "other"]
    /\ UNCHANGED <<stateVars, call, signalled>>

\* Mutant: the switch is awaited however long it takes.
SwitchAwaited(w) ==
    /\ pc[w] = "switch" /\ call[w].at = "done"
    /\ Goto(w, "ready")
    /\ UNCHANGED <<stateVars, call, previous, signalled, seen>>

SwitchTimesOut(w) ==
    /\ pc[w] = "switch"
    /\ Goto(w, "ready")
    /\ UNCHANGED <<stateVars, call, previous, signalled, seen>>

AfterCommand(w) == Goto(w, IF previous[w] = NoProfile THEN "ended" ELSE "wait")

\* The select of runWrapper; with a signal and the profile both there it may take
\* either.
RunCommand(w) ==
    /\ pc[w] = "ready"
    /\ Goto(w, "command")
    /\ signalled' = [signalled EXCEPT ![w] = FALSE]
    /\ UNCHANGED <<stateVars, call, previous, seen>>

AbortLaunch(w) ==
    /\ pc[w] = "ready" /\ signalled[w]
    /\ AfterCommand(w)
    /\ UNCHANGED <<stateVars, call, previous, signalled, seen>>

CommandEnds(w) ==
    /\ pc[w] = "command"
    /\ AfterCommand(w)
    /\ UNCHANGED <<stateVars, call, previous, signalled, seen>>

\* The restore step waits for the first call to return.
AwaitSwitch(w) ==
    /\ pc[w] = "wait" /\ call[w].at = "done"
    /\ call' = [call EXCEPT ![w] = Idle]
    /\ Goto(w, "reprobe")
    /\ seen' = [seen EXCEPT !.met[w] = FALSE]
    /\ UNCHANGED <<stateVars, previous, signalled>>

\* Mutant: the restore does not ask again whether the application is open.
NoReprobe(w) ==
    /\ pc[w] = "reprobe" /\ Goto(w, "reprobed")
    /\ UNCHANGED <<stateVars, call, previous, signalled, seen>>

Reprobe(w) ==
    /\ pc[w] = "reprobe" /\ Probe(w, "reprobed", "ended")
    /\ UNCHANGED <<call, previous, signalled>>

\* Mutant: the profile that is active by then is put back.
RestoreActive(w) == Current.active

RestoreTo(w) == previous[w]

BeginRestore(w) ==
    /\ pc[w] = "reprobed"
    /\ Release(w)
    /\ Begin(w, RestoreTo(w))
    /\ Goto(w, "restoring")
    /\ UNCHANGED <<place, placed, content, made, purge, found, previous, signalled, seen>>

RestoreReturns(w) ==
    /\ pc[w] = "restoring" /\ call[w].at = "done"
    /\ call' = [call EXCEPT ![w] = Idle]
    /\ Goto(w, "ended")
    /\ seen' = [seen EXCEPT !.quiet[w] = @ /\ call[w].code = "ok"]
    /\ UNCHANGED <<stateVars, previous, signalled>>

\* The time for a restore is over; the process ends, and with it a call that is
\* still under way.
RestoreTimesOut(w) ==
    /\ pc[w] \in {"wait", "restoring"}
    /\ call' = [call EXCEPT ![w] = Idle]
    /\ Goto(w, "ended") /\ Warn(w)
    /\ UNCHANGED <<stateVars, previous, signalled>>

WrapperMoves(w) ==
    \/ WrapperStarts(w) \/ FirstProbe(w) \/ ProbeDone(w) \/ Prepare(w) \/ BeginSwitch(w)
    \/ SwitchReturns(w) \/ SwitchTimesOut(w) \/ RunCommand(w) \/ AbortLaunch(w)
    \/ AwaitSwitch(w) \/ Reprobe(w) \/ BeginRestore(w) \/ RestoreReturns(w) \/ RestoreTimesOut(w)

Wrapper(w) ==
    /\ WrapperMoves(w) \/ Signal(w) \/ CommandEnds(w)
    /\ UNCHANGED <<mouse, app, tries, watch, setter, games, reset, inApp, spent>>

-----------------------------------------------------------------------------
(* The desktop application                                                 *)

OpenApp ==
    /\ app = "closed" /\ Spend("opens", MaxOpens)
    /\ app' = "opening" /\ tries' = 0
    /\ UNCHANGED <<stateVars, watch, setter, seen>>

\* startProcessWatcher loads the settings; unreadable ones leave the watcher off.
StartWatcher(met) ==
    /\ app' = "open" /\ setter' = "none"
    /\ \E unread \in BOOLEAN :
         /\ watch' = [Resting EXCEPT !.on = Current.on /\ ~unread]
         /\ seen' = [seen EXCEPT !.met = met, !.chosen = Current.active, !.slipped = FALSE]

TakeLock ==
    /\ app = "opening" /\ Acquire(App)
    /\ StartWatcher([w \in Wrappers |-> TRUE])
    /\ UNCHANGED <<placed, purge, found, tries>>

\* ErrHeld; after the last attempt the application opens without the lock, as it
\* does after any other error.
LockHeld ==
    /\ app = "opening" /\ Here # NoDir /\ Locked(Here) /\ tries < MaxTries
    /\ tries' = tries + 1
    /\ UNCHANGED <<stateVars, app, watch, setter, seen>>

OpenUnlocked ==
    /\ app = "opening"
    /\ StartWatcher(seen.met)
    /\ UNCHANGED <<stateVars, tries>>

\* It is closed, which waits for the watcher's tick, or dies.
CloseApp ==
    /\ app # "closed"
    /\ app' = "closed" /\ watch' = Resting /\ setter' = "none"
    /\ Release(App)
    /\ call' = [call EXCEPT ![App] = Idle]
    /\ reset' = IF inApp THEN "off" ELSE reset
    /\ purge' = IF inApp /\ purge \in PurgeCalls THEN "off" ELSE purge
    /\ inApp' = FALSE
    /\ UNCHANGED <<place, placed, content, made, found, tries, seen>>

\* The user switches: one step, as far as the watcher and the launches can tell.
UserSwitches(id) ==
    /\ app = "open" /\ Free(App) /\ id \in Readable /\ Spend("user", MaxUser)
    /\ Write([Current EXCEPT !.active = id])
    /\ mouse' \in {id} \cup (IF Mingled(App) THEN {Mixture} ELSE {})
    /\ seen' = [seen EXCEPT !.alone = Touched(App), !.chosen = id,
                            !.slipped = @ \/ Unseen(id)]
    /\ UNCHANGED <<placed, flock, purge, found, call, tries, app, watch, setter>>

\* SetWatcherSettings saves; a failed save changes nothing.
SaveSettings ==
    /\ app = "open" /\ setter = "none" /\ Spend("user", MaxUser)
    /\ Write([Current EXCEPT !.on = ~@])
    /\ setter' = "saved"
    /\ UNCHANGED <<placed, flock, purge, found, app, watch, seen>>

\* watcherController.Apply: the same settings keep the run alive; others end it,
\* and no profile is put back.
Applied(on) == IF watch.on = on THEN watch ELSE [Resting EXCEPT !.on = on]

\* It loads what it saved and waits for the tick that runs to return.
ApplySettings ==
    /\ setter = "saved" /\ watch.step = "idle"
    /\ watch' = Applied(Current.on)
    /\ setter' = "none"
    /\ seen' = [seen EXCEPT !.chosen = IF watch.on = Current.on THEN @ ELSE Current.active]
    /\ UNCHANGED <<stateVars, app>>

\* They cannot be loaded again: an error, and the watcher is not told.
SettingsUnread ==
    /\ setter = "saved"
    /\ setter' = "none"
    /\ UNCHANGED <<stateVars, app, watch, seen>>

Application ==
    /\ \/ OpenApp /\ UNCHANGED <<mouse, call, reset, inApp>>
       \/ (TakeLock \/ LockHeld \/ OpenUnlocked) /\ UNCHANGED <<mouse, call, reset, inApp, spent>>
       \/ CloseApp /\ UNCHANGED <<mouse, spent>>
       \/ (\E id \in Profiles : UserSwitches(id)) /\ UNCHANGED <<reset, inApp>>
       \/ SaveSettings /\ UNCHANGED <<mouse, call, tries, reset, inApp>>
       \/ (ApplySettings \/ SettingsUnread) /\ UNCHANGED <<mouse, call, tries, reset, inApp, spent>>
    /\ UNCHANGED <<pc, previous, signalled, games>>

-----------------------------------------------------------------------------
(* The watcher                                                             *)

\* match: the first rule that applies to what runs.
Match == IF games = {} THEN NoGame ELSE CHOOSE g \in games : TRUE

\* A tick: nothing to do while the game that triggered the profile runs.
Tick ==
    /\ watch.on /\ watch.step = "idle" /\ Free(App)
    /\ \/ watch.active /\ watch.current \notin games
          /\ watch' = [watch EXCEPT !.step = "compare", !.next = Match]
       \/ ~watch.active /\ Match # NoGame
          /\ watch' = [watch EXCEPT !.step = "match", !.next = Match]
    /\ UNCHANGED <<stateVars, call, seen>>

\* Somebody else changed the profile: forget, and match anew; or go on to the next
\* game's profile; or back.
Compare ==
    /\ watch.step = "compare" /\ Free(App)
    /\ \E id \in Ids :
         /\ GetProfiles(id)
         /\ watch' =
              CASE id # watch.setID ->
                     [watch EXCEPT !.active = FALSE, !.step = IF watch.next = NoGame THEN "idle" ELSE "match"]
                [] id = watch.setID /\ watch.next # NoGame -> [watch EXCEPT !.step = "move"]
                [] id = watch.setID /\ watch.next = NoGame /\ watch.previous # NoProfile ->
                     [watch EXCEPT !.step = "back"]
                [] OTHER -> [watch EXCEPT !.active = FALSE, !.step = "idle"]
         /\ seen' = [seen EXCEPT !.slipped = @ \/ id = NoProfile \/ watch.previous = NoProfile]
    /\ UNCHANGED call

\* The profile to put back is read before the switch.
ReadPrevious ==
    /\ watch.step = "match" /\ Free(App)
    /\ \E id \in Ids :
         /\ GetProfiles(id)
         /\ watch' = [watch EXCEPT !.step = "take", !.found = id]
    /\ UNCHANGED <<call, seen>>

Wanted == IF watch.step = "back" THEN watch.previous ELSE Rule[watch.next]

TickSwitches ==
    /\ watch.step \in {"take", "move", "back"}
    /\ Begin(App, Wanted)
    /\ UNCHANGED <<stateVars, watch, seen>>

\* Mutant: going from one game to the next keeps the first one's profile in mind.
SwitchedStale ==
    CASE watch.step = "take" -> [watch EXCEPT !.active = TRUE, !.current = watch.next,
                                   !.setID = Rule[watch.next], !.previous = watch.found]
      [] watch.step = "move" -> [watch EXCEPT !.current = watch.next]
      [] OTHER               -> [watch EXCEPT !.active = FALSE]

\* What the watcher keeps in mind after a switch.
Switched ==
    CASE watch.step = "take" -> [watch EXCEPT !.active = TRUE, !.current = watch.next,
                                   !.setID = Rule[watch.next], !.previous = watch.found]
      [] watch.step = "move" -> [watch EXCEPT !.current = watch.next, !.setID = Rule[watch.next]]
      [] OTHER               -> [watch EXCEPT !.active = FALSE]

\* After an error the next tick tries again.
TickEnds ==
    /\ watch.step \in {"take", "move", "back"} /\ call[App].at = "done"
    /\ watch' = [(IF call[App].code = "ok" THEN Switched ELSE watch) EXCEPT !.step = "idle"]
    /\ call' = [call EXCEPT ![App] = Idle]
    /\ UNCHANGED <<stateVars, seen>>

Watcher ==
    /\ Tick \/ Compare \/ ReadPrevious \/ TickSwitches \/ TickEnds
    /\ UNCHANGED <<mouse, pc, previous, signalled, app, tries, setter, games, reset, inApp, spent>>

-----------------------------------------------------------------------------
(* The emergency reset                                                     *)

\* `reset` on the command line asks for no lock; the application's own holds
\* operationMu.
ResetStarts ==
    /\ reset = "off" /\ Spend("resets", MaxResets)
    /\ reset' = "lanes"
    /\ \/ inApp' = FALSE
       \/ app = "open" /\ Free(App) /\ inApp' = TRUE
    /\ mouse' = Mixture
    /\ seen' = [seen EXCEPT !.alone = Touched(App), !.slipped = TRUE]
    /\ purge' = "off"
    /\ UNCHANGED <<place, placed, content, made, flock, found>>

\* A lane fails: nothing more is written and nothing purged.
ResetFails ==
    /\ reset = "lanes"
    /\ reset' = "off" /\ inApp' = FALSE
    /\ UNCHANGED <<mouse, seen, stateVars, spent>>

ResetWritten ==
    /\ reset = "lanes"
    /\ reset' = "purge" /\ purge' = "inspect"
    /\ mouse' \in {NoProfile} \cup (IF \E p \in Processes : call[p].at = "writing" THEN {Mixture} ELSE {})
    /\ seen' = [seen EXCEPT !.alone = Touched(App)]
    /\ UNCHANGED <<inApp, place, placed, content, made, flock, found, spent>>

ResetPurges ==
    /\ reset = "purge" /\ PurgeAll
    /\ seen' = [seen EXCEPT !.alone = Touched(App), !.slipped = TRUE,
                            !.met = [w \in Wrappers |-> @[w] \/ purge = "renameBack"]]
    /\ UNCHANGED <<mouse, reset, inApp, spent>>

\* It returns, or the command is killed.
ResetEnds ==
    /\ reset = "purge" /\ (purge \notin PurgeCalls \/ ~inApp)
    /\ reset' = "off" /\ inApp' = FALSE
    /\ purge' = IF purge \in PurgeCalls THEN "off" ELSE purge
    /\ UNCHANGED <<mouse, seen, place, placed, content, made, flock, found, spent>>

\* On the mouse, NoProfile stands for the factory settings.
Reset ==
    /\ ResetStarts \/ ResetFails \/ ResetWritten \/ ResetPurges \/ ResetEnds
    /\ UNCHANGED <<call, pc, previous, signalled, app, tries, watch, setter, games>>

-----------------------------------------------------------------------------
(* The rest                                                                *)

GamesChange ==
    /\ Spend("games", MaxGames)
    /\ games' \in SUBSET Games \ {games}
    /\ UNCHANGED <<stateVars, mouse, call, pc, previous, signalled, app, tries, watch, setter,
                   reset, inApp, seen>>

WriteBack ==
    /\ WriteNames
    /\ UNCHANGED <<mouse, call, pc, previous, signalled, app, tries, watch, setter, games, reset,
                   inApp, seen, spent>>

LaunchNext ==
    \/ \E p \in Processes : Switching(p)
    \/ \E w \in Wrappers : Wrapper(w)
    \/ Application \/ Watcher \/ Reset \/ GamesChange \/ WriteBack

\* A launch is never held back: its own steps are taken, and its time runs out.
LaunchSpec ==
    /\ LaunchInit /\ [][LaunchNext]_launchVars
    /\ \A w \in Wrappers : WF_launchVars(Wrapper(w) /\ WrapperMoves(w))
-----------------------------------------------------------------------------
(* What launches, the watcher and a reset promise                          *)

\* The application lock keeps launches off the mouse as long as the file that the
\* application has locked is in its place: a launch writes then only if the lock came
\* after the launch last had to ask: at its start, and again after its command,
\* during which the application may have been opened.
LockKeepsLaunchesOff ==
    \A w \in Wrappers :
        call[w].at = "writing" /\ app = "open" /\ flock[App] # NoDir /\ flock[App] = Here
            => seen.met[w]

\* "If the desktop app is open, the wrapper does not touch the mouse: the app owns
\* it": the same wherever the file that an open application has locked is by now.
AppOwnsMouse ==
    \A w \in Wrappers :
        call[w].at = "writing" /\ app = "open" /\ flock[App] # NoDir => seen.met[w]

\* The wrapper "restores the profile that was active before": a launch that ends with
\* nobody else at the mouse or the files meanwhile leaves both as it found them, also
\* when its switch timed out or broke off after some lanes. Left out are the launches
\* that say that they apply or restore nothing, or find the application open, and the
\* switches that fail with another error than apply_failed.
PutBack ==
    \A w \in Wrappers :
        /\ pc[w] = "ended" /\ seen.quiet[w] /\ seen.alone[w]
        /\ seen.before[w] # NoProfile
        => mouse = seen.before[w] /\ Current.active = seen.before[w]

\* When the watcher sees no game left, the profile that somebody else chose last is
\* the active one, whatever games came, went and replaced one another, as long as
\* no switch failed and nobody chose in the middle of a tick.
ChoiceReturns ==
    app = "open" /\ watch.on /\ ~watch.active /\ watch.step = "idle" /\ ~seen.slipped
    /\ seen.chosen # NoProfile
        => Current.active = seen.chosen

\* "The command always runs", unless a signal came before it.
CommandRuns ==
    \A w \in Wrappers : pc[w] = "probe" ~> (pc[w] = "command" \/ (pc[w] = "ended" /\ signalled[w]))
=============================================================================
