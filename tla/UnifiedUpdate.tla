---------------------------- MODULE UnifiedUpdate ----------------------------
(***************************************************************************)
(* Checking for updates and applying them on one approval                  *)
(* (src/internal/desktop/unified_update.go, update.go,                     *)
(* authenticated_policy_backend.go, policy_helper_linux.go), above the     *)
(* replacement of the AppImage.                                            *)
(*                                                                         *)
(* The operations hold state.mu for their whole run.  A check reads the    *)
(* udev rules once, at its end, so it is one step; an apply is one for the *)
(* rules, the calls of the updater, and one for the relaunch.  A release   *)
(* is its version; the policy of a release is known by the release, and    *)
(* its text by a number.  Contexts may expire wherever they are looked at. *)
(***************************************************************************)
EXTENDS Updater

CONSTANTS PolicyOf,   \* the text of the udev policy of each release
          Missing, Custom, NoRelease,
          MaxEdits    \* bound: changes of the rules by somebody else

ASSUME PolicyAssumption ==
    /\ PolicyOf \in [Versions -> Nat]
    /\ Missing \notin Nat /\ Custom \notin Nat /\ Missing # Custom
    /\ NoRelease \notin Nat /\ MaxEdits \in Nat

VARIABLES published,  \* the newest release
          rules,      \* the text of the installed udev rules
          edits,      \* changes by somebody else so far
          verified,   \* state.verified
          complete,   \* replacementComplete
          checked,    \* unified.checked
          candidate,  \* unified.candidate
          info,       \* unified.info
          answered,   \* the last answer of backend.checkApp
          manifest,   \* the release it named
          op,         \* the operation that awaits the updater
          wasInstalled, \* previouslyInstalled
          claimed     \* the last policy the helper said it had installed

outside == <<published, rules, edits>>
backend == <<answered, manifest>>
unified == <<checked, candidate, info>>
service == <<verified, complete, unified, backend, op, wasInstalled, claimed>>
updateVars == <<updaterVars, outside, service>>

Releases == Versions \cup {NoRelease}
Texts == {PolicyOf[v] : v \in Versions}
States == {"missing", "outdated", "current", "custom", "unavailable", "error"}
Info == [version : Releases, available : BOOLEAN, appError : BOOLEAN,
         policyState : States, policyInstalled : BOOLEAN, policyError : BOOLEAN]

UpdateTypeOK ==
    /\ UpdaterTypeOK
    /\ published \in Versions /\ rules \in Texts \cup {Missing, Custom} /\ edits \in 0..MaxEdits
    /\ verified \in Releases /\ manifest \in Releases
    /\ answered \in {"update", "none", "error"}
    /\ candidate \in Releases /\ claimed \in Releases
    /\ complete \in BOOLEAN /\ checked \in BOOLEAN /\ wasInstalled \in BOOLEAN
    /\ info \in Info /\ (info.available => info.version \in Versions)
    /\ op \in {"none", "unified", "plain"}

Unknown == [version |-> NoRelease, available |-> FALSE, appError |-> FALSE,
            policyState |-> "unavailable", policyInstalled |-> FALSE, policyError |-> FALSE]

\* A new process: ConfigureUpdater and ConfigureAuthenticatedPolicyUpdates.
Forget ==
    /\ verified' = NoRelease /\ complete' = FALSE
    /\ checked' = FALSE /\ candidate' = NoRelease /\ info' = Unknown
    /\ answered' = "none" /\ manifest' = NoRelease
    /\ op' = "none" /\ wasInstalled' = FALSE /\ claimed' = NoRelease

UpdateInit ==
    /\ UpdaterInit
    /\ published = 0 /\ rules \in {Missing, PolicyOf[0]} /\ edits = 0
    /\ verified = NoRelease /\ complete = FALSE
    /\ checked = FALSE /\ candidate = NoRelease /\ info = Unknown
    /\ answered = "none" /\ manifest = NoRelease
    /\ op = "none" /\ wasInstalled = FALSE /\ claimed = NoRelease

-----------------------------------------------------------------------------
(* Checks                                                                  *)

Ready == pc \in {"idle", "failed"} /\ op = "none"

\* selectManifest: the newest release, if it is newer than the running program.
Newer == published > running

\* checkApp: an update, none, or an error.
AppAnswers == (IF Newer THEN {"update"} ELSE {"none"}) \cup {"error"}

CheckApp(answer) ==
    /\ answered' = answer
    /\ manifest' = IF answer = "update" THEN published ELSE NoRelease

\* backend.Check: the policy of the update, or else of the newest release that is
\* not older, or none; after an error of checkApp only that error.
Offers == CASE answered' = "update" -> {manifest', NoRelease}
            [] answered' = "none"   -> {published, NoRelease}
            [] answered' = "error"  -> {NoRelease}

\* policyState.
Previous(release) == {PolicyOf[v] : v \in {w \in Versions : w < release}}
StateOf(release) ==
    CASE release = NoRelease -> "unavailable"
      [] rules = Missing -> "missing"
      [] rules = PolicyOf[release] -> "current"
      [] rules \in Previous(release) -> "outdated"
      [] OTHER -> "custom"

\* The part about the program: an error of an earlier attempt to install the same
\* version is still shown, and nothing changes once the replacement is complete.
AppPart(answer) ==
    IF complete
    THEN [Unknown EXCEPT !.version = info.version, !.available = info.available, !.appError = info.appError]
    ELSE [Unknown EXCEPT
            !.version = IF answer = "update" THEN published ELSE NoRelease,
            !.available = answer = "update",
            !.appError = \/ answer = "error"
                         \/ answer = "update" /\ info.version = published /\ info.appError]

\* Mutant: what was installed of an earlier policy is carried over to any other.
CarryAlways(policy) == candidate # NoRelease /\ policy # NoRelease

\* The result of an apply is carried over to the same policy only.
Carries(policy) == candidate # NoRelease /\ candidate = policy

\* The part about the rules; "failed" is an error of the backend or of reading.
WithPolicy(base, policy, failed) ==
    [base EXCEPT
        !.policyState = IF failed THEN "error" ELSE StateOf(policy),
        !.policyInstalled = Carries(policy) /\ info.policyInstalled,
        !.policyError = failed \/ (Carries(policy) /\ info.policyError)]

\* state.check is not called again once the replacement is complete.
AskApp(answer) ==
    IF complete THEN UNCHANGED <<verified, answered, manifest>>
    ELSE CheckApp(answer) /\ verified' = manifest'

\* CheckUnifiedUpdates, to its end.
Check ==
    /\ Ready
    /\ \E answer \in AppAnswers :
         /\ AskApp(answer)
         /\ \E policy \in Offers, failed \in BOOLEAN :
              /\ answered' = "error" => failed
              /\ candidate' = policy
              /\ info' = WithPolicy(AppPart(answer), policy, failed)
    /\ checked' = TRUE
    /\ UNCHANGED <<updaterVars, outside, complete, op, wasInstalled, claimed>>

\* It ends early: the context expired before, between or after the two answers.
CheckExpires ==
    /\ Ready
    /\ checked' = FALSE
    /\ \/ UNCHANGED <<verified, backend>>
       \/ \E answer \in AppAnswers : AskApp(answer)
    /\ UNCHANGED <<updaterVars, outside, complete, candidate, info, op, wasInstalled, claimed>>

\* Mutant: the answer of an earlier unified check stays good for an apply.
StillChecked == checked' = checked

\* CheckForUpdate and ApplyVerifiedUpdate revoke the unified check.
Revoke == checked' = FALSE

\* CheckForUpdate: verified is kept when there is no update or an error.
CheckForUpdate ==
    /\ Ready
    /\ Revoke
    /\ \E answer \in AppAnswers :
         /\ CheckApp(answer)
         /\ verified' = IF answer = "update" THEN published ELSE verified
    /\ UNCHANGED <<updaterVars, outside, complete, candidate, info, op, wasInstalled, claimed>>

-----------------------------------------------------------------------------
(* Apply                                                                   *)

Writable == {"missing", "outdated"}

\* backend.Apply; the policy the backend holds is the candidate as long as the
\* check is good.  The helper installs over missing or
\* older rules and says so at once; it may be refused, fail afterwards, or be
\* killed between the two.  Its word counts even with an error.
Helper ==
    \E said, failed \in BOOLEAN :
        /\ said \/ failed
        /\ \/ rules' = PolicyOf[candidate]
           \/ ~said /\ UNCHANGED rules
        /\ claimed' = IF said THEN candidate ELSE claimed
        /\ info' = [info EXCEPT !.policyState = StateOf(candidate),
                                !.policyInstalled = said, !.policyError = failed]

\* The state of the rules read again before any write, or an error.
ReadAgain(error) ==
    /\ info' = [info EXCEPT !.policyState = IF error THEN "error" ELSE StateOf(candidate),
                            !.policyError = error]
    /\ UNCHANGED <<rules, claimed>>

\* The first half of ApplyUnifiedUpdate.
ApplyPolicy ==
    LET due == candidate # NoRelease /\ ~info.policyInstalled /\ info.policyState \in Writable
    IN  \/ ~due /\ UNCHANGED <<info, rules, claimed>>
        \/ due /\ ReadAgain(TRUE)
        \/ due /\ StateOf(candidate) \notin Writable /\ ReadAgain(FALSE)
        \/ due /\ StateOf(candidate) \in Writable /\ Helper

\* The context expired before the write.
ApplyExpires ==
    /\ Ready /\ checked
    /\ candidate # NoRelease /\ ~info.policyInstalled /\ info.policyState \in Writable
    /\ ReadAgain(FALSE)
    /\ UNCHANGED <<updaterVars, published, edits, verified, complete, checked, candidate, backend,
                   op, wasInstalled>>

AppDue == info.available /\ ~complete

\* The approval, and the call of the updater when there is an update to install;
\* the context may have expired by then.
ApplyUnified ==
    /\ Ready /\ checked
    /\ ApplyPolicy
    /\ \/ /\ op' = "unified" /\ wasInstalled' = info.policyInstalled
          /\ IF AppDue THEN BeginApply(verified) ELSE UNCHANGED updaterVars
       \/ UNCHANGED <<updaterVars, op, wasInstalled>>
    /\ UNCHANGED <<published, edits, verified, complete, checked, candidate, backend>>

\* Mutant: the replacement counts as complete whatever the updater returned.
AnyResult == TRUE

\* Whether state.apply returned no error.
Replaced == pc = "idle"

\* The updater returned, or was not called.
Returned == op # "none" /\ pc \in {"idle", "failed"}

\* No relaunch is due, it fails, or the context expired.
ApplyReturns ==
    /\ Returned /\ op = "unified"
    /\ complete' = (complete \/ (AppDue /\ Replaced))
    /\ info' = [info EXCEPT !.appError = IF AppDue THEN ~Replaced ELSE info.appError]
    /\ op' = "none" /\ wasInstalled' = FALSE
    /\ UNCHANGED <<updaterVars, outside, verified, checked, candidate, backend, claimed>>

\* ApplyVerifiedUpdate.
ApplyVerified ==
    /\ Ready
    /\ Revoke
    /\ \/ ~complete /\ verified # NoRelease /\ BeginApply(verified) /\ op' = "plain"
       \/ complete /\ op' = "plain" /\ UNCHANGED updaterVars
    /\ UNCHANGED <<outside, verified, complete, candidate, info, backend, wasInstalled, claimed>>

VerifiedReturns ==
    /\ Returned /\ op = "plain"
    /\ complete' = (complete \/ Replaced)
    /\ op' = "none"
    /\ UNCHANGED <<updaterVars, outside, verified, unified, backend, wasInstalled, claimed>>

RelaunchDue ==
    CASE op = "plain"   -> complete \/ Replaced
      [] op = "unified" -> /\ IF AppDue THEN Replaced ELSE (complete /\ ~info.appError)
                           /\ ~info.policyError \/ wasInstalled
      [] OTHER -> FALSE

\* launchInstalledAppImage, and this process quits.
Relaunch ==
    /\ Returned /\ RelaunchDue
    /\ Exit /\ Forget
    /\ UNCHANGED outside

-----------------------------------------------------------------------------

Publish ==
    /\ published < MaxVersion
    /\ published' = published + 1
    /\ UNCHANGED <<updaterVars, rules, edits, service>>

EditRules ==
    /\ edits < MaxEdits
    /\ edits' = edits + 1
    /\ rules' \in {Missing, Custom}
    /\ UNCHANGED <<updaterVars, published, service>>

\* The process ends with what it knew.
Quit == Exit /\ Forget /\ UNCHANGED outside
PowerFails == PowerLoss /\ Forget /\ UNCHANGED outside

UpdaterStep ==
    /\ Start \/ WriteBack \/ Fail \/ Recovery \/ Application
    /\ UNCHANGED <<outside, service>>

UpdateNext ==
    \/ Check \/ CheckExpires \/ CheckForUpdate
    \/ ApplyUnified \/ ApplyExpires \/ ApplyReturns \/ ApplyVerified \/ VerifiedReturns \/ Relaunch
    \/ Publish \/ EditRules \/ Quit \/ PowerFails
    \/ UpdaterStep

UpdateSpec == UpdateInit /\ [][UpdateNext]_updateVars
-----------------------------------------------------------------------------

\* "ApplyUnifiedUpdate is the single explicit approval action": what it installs
\* is the version the last check it relies on has shown, whichever checks ran,
\* failed or expired in between.
ApprovedIsShown ==
    op = "unified" /\ AppDue => goal = info.version

\* Once the replacement counts as complete, and so before any relaunch, the
\* version applied is installed whole on the disk, with no recovery pending.
CompleteMeansInstalled ==
    (complete \/ (Returned /\ RelaunchDue)) =>
        /\ disk.installed # NoFile /\ data[disk.installed] = "synced"
        /\ version[disk.installed] = goal
        /\ ~disk.marker

\* "An Installed result, even with an error, must never be applied again", and
\* only such a result is carried from check to check: a policy is taken for
\* installed only if the helper said so of that very policy.
PolicyInstalledTruthful ==
    info.policyInstalled => candidate = claimed
=============================================================================
