------------------------------ MODULE AckResend ------------------------------
(***************************************************************************)
(* The wait for an acknowledgement, with resends                           *)
(* (awaitACKWithResend, src/internal/hidlinux/resend.go), for a sequence   *)
(* of commands of one report kind to one mouse.                            *)
(*                                                                         *)
(* A write may be lost, or accepted and acknowledged any time later.  An   *)
(* acknowledgement carries the kind of report, not which write it answers. *)
(* A rejection is any 03 10 xx yy zz report of mouse motion, so it may     *)
(* come at any time.  Reports that are neither change nothing here.  Each  *)
(* command reads a node of its own, which misses what came before.         *)
(*                                                                         *)
(* Time is counted in ticks; a goroutine whose timer is due or whose       *)
(* report has come runs before the next tick.                              *)
(***************************************************************************)
EXTENDS Integers, Sequences, FiniteSets

CONSTANTS MaxAttempts, ResendDelay, SilenceDelay, ReadTimeout,
          MaxCommands,     \* bound: commands sent one after the other
          MaxRejections    \* bound: motion reports

\* Silence is always waited for: NewHidrawBackend sets 700 ms.
ASSUME DelaysAssumption ==
    /\ MaxAttempts \in Nat \ {0}
    /\ SilenceDelay \in Nat \ {0}
    /\ ResendDelay \in Nat /\ ReadTimeout \in Nat
    /\ MaxCommands \in Nat /\ MaxRejections \in Nat

VARIABLES command,     \* the number of the current or last command
          waiting,     \* awaitACKWithResend runs
          attempts,    \* writes of this command
          quiet,       \* ticks since its last write
          total,       \* ticks since its first write
          armed, left, \* resendTimer, and the ticks it has to go
          rejected,    \* a rejection came after the last write
          reports,     \* unread reports of its node
          outcome,     \* of each command: "none", "ok" or "failed"
          taken,       \* writes the mouse took
          inflight,    \* acknowledgements the mouse has yet to send
          rejections   \* motion reports so far

timer == <<armed, left>>
device == <<taken, inflight, rejections>>
ackVars == <<command, waiting, attempts, quiet, total, armed, left, rejected, reports,
          outcome, taken, inflight, rejections>>

Commands == 1..MaxCommands
MostResendWait == SilenceDelay + ResendDelay

AckTypeOK ==
    /\ command \in 0..MaxCommands /\ waiting \in BOOLEAN
    /\ waiting => command \in Commands
    /\ attempts \in 0..MaxAttempts
    /\ quiet \in Nat /\ total \in Nat /\ armed \in BOOLEAN /\ left \in Nat
    /\ rejected \in BOOLEAN
    /\ reports \in Seq({"ack", "rejection"})
    /\ outcome \in [Commands -> {"none", "ok", "failed"}]
    /\ taken \in Nat /\ inflight \in Nat /\ rejections \in Nat

AckInit ==
    /\ command = 0 /\ waiting = FALSE /\ attempts = 0
    /\ quiet = 0 /\ total = 0 /\ armed = FALSE /\ left = 0 /\ rejected = FALSE
    /\ reports = <<>>
    /\ outcome = [c \in Commands |-> "none"]
    /\ taken = 0 /\ inflight = 0 /\ rejections = 0

\* SendFeatureReport: the mouse takes the write and owes an answer, or drops it.
Write ==
    \/ /\ taken' = taken + 1
       /\ inflight' = inflight + 1
       /\ UNCHANGED rejections
    \/ UNCHANGED device

\* armResend stops the timer there was.
Arm(delay) == armed' = TRUE /\ left' = delay
Disarm == armed' = FALSE /\ left' = 0

\* Mutant: the wait for silence grows with the attempts.
ArmBackoff(made) ==
    IF SilenceDelay > 0 /\ made < MaxAttempts THEN Arm(SilenceDelay * made * made) ELSE Disarm

\* After a write, silence is waited out while there are attempts left.
ArmSilence(made) ==
    IF SilenceDelay > 0 /\ made < MaxAttempts THEN Arm(SilenceDelay) ELSE Disarm

\* Mutant: the node outlives the command with the report it was answered by.
NotDropped == reports

\* node.Close(): what was not read is gone.
Dropped == <<>>

Return(result) ==
    /\ waiting' = FALSE
    /\ outcome' = [outcome EXCEPT ![command] = result]
    /\ reports' = Dropped
    /\ Disarm
    /\ UNCHANGED <<command, attempts, quiet, total, rejected, device>>

-----------------------------------------------------------------------------

\* SendAndAwaitBound opens a node and writes once.
Begin ==
    /\ ~waiting /\ command < MaxCommands
    /\ command' = command + 1
    /\ waiting' = TRUE /\ attempts' = 1
    /\ quiet' = 0 /\ total' = 0 /\ rejected' = FALSE
    /\ ArmSilence(1)
    /\ Write
    /\ UNCHANGED <<reports, outcome>>

Due == waiting /\ armed /\ left = 0

AttemptsLeft == attempts < MaxAttempts

Resend ==
    /\ Due /\ AttemptsLeft
    /\ attempts' = attempts + 1
    /\ quiet' = 0 /\ rejected' = FALSE
    /\ ArmSilence(attempts + 1)
    /\ Write
    /\ UNCHANGED <<command, waiting, total, reports, outcome>>

\* The timer of the last attempt: a rejection that no acknowledgement followed
\* within resendDelay is final.
GiveUp ==
    /\ Due /\ ~AttemptsLeft
    /\ IF rejected THEN Return("failed")
       ELSE Disarm /\ UNCHANGED <<command, waiting, attempts, quiet, total, rejected,
                                  reports, outcome, device>>

\* Every write restarts the deadline.
TimedOut == quiet >= ReadTimeout

\* Mutant: the deadline ends a rejected attempt only.
DeadlineOfRejected == waiting /\ TimedOut /\ rejected /\ Return("failed")

Deadline == waiting /\ TimedOut /\ Return("failed")

\* The caller's context ends, a write fails, or a read fails.
Fail == waiting /\ Return("failed")

ReadAck ==
    /\ waiting /\ reports # <<>> /\ Head(reports) = "ack"
    /\ Return("ok")

\* Mutant: every rejection starts the delay again.
EveryRejection == TRUE

\* Only the first rejection after a write arms the resend.
FirstRejection == ~rejected

ReadRejection ==
    /\ waiting /\ reports # <<>> /\ Head(reports) = "rejection"
    /\ reports' = Tail(reports)
    /\ IF FirstRejection THEN rejected' = TRUE /\ Arm(ResendDelay)
                         ELSE UNCHANGED <<rejected, timer>>
    /\ UNCHANGED <<command, waiting, attempts, quiet, total, outcome, device>>

-----------------------------------------------------------------------------

\* A report reaches the node that is open, if one is.
Reaching(kind) == IF waiting THEN Append(reports, kind) ELSE reports

AckArrives ==
    /\ inflight > 0
    /\ inflight' = inflight - 1
    /\ reports' = Reaching("ack")
    /\ UNCHANGED <<command, waiting, attempts, quiet, total, timer, rejected, outcome,
                   taken, rejections>>

Motion ==
    /\ rejections < MaxRejections
    /\ rejections' = rejections + 1
    /\ reports' = Reaching("rejection")
    /\ UNCHANGED <<command, waiting, attempts, quiet, total, timer, rejected, outcome,
                   taken, inflight>>

Tick ==
    /\ waiting /\ reports = <<>> /\ ~Due /\ ~TimedOut
    /\ quiet' = quiet + 1 /\ total' = total + 1
    /\ left' = IF armed THEN left - 1 ELSE left
    /\ UNCHANGED <<command, waiting, attempts, armed, rejected, reports, outcome, device>>

AckNext == Begin \/ Resend \/ GiveUp \/ Deadline \/ Fail \/ ReadAck \/ ReadRejection
        \/ AckArrives \/ Motion \/ Tick

AckSpec == AckInit /\ [][AckNext]_ackVars

\* The goroutine runs and time passes.
AckFairness ==
    /\ WF_ackVars(Tick) /\ WF_ackVars(Resend) /\ WF_ackVars(GiveUp)
    /\ WF_ackVars(Deadline) /\ WF_ackVars(ReadAck) /\ WF_ackVars(ReadRejection)

-----------------------------------------------------------------------------
(* Properties.                                                              *)

\* Each rejection and each silence leads to one more write at most and later
\* ones to none, so motion while the mouse is moved cannot stretch the wait.
WaitIsBounded ==
    waiting => total <= (MaxAttempts - 1) * MostResendWait + ReadTimeout

\* The inductive form: what is left of the timer is within one resend's wait of
\* the last write, and every earlier attempt has used up no more than that.
ResendInv ==
    waiting =>
        /\ attempts >= 1
        /\ quiet <= ReadTimeout
        /\ attempts < MaxAttempts => armed
        /\ armed /\ ~rejected => quiet + left = SilenceDelay
        /\ armed /\ attempts < MaxAttempts => quiet + left <= MostResendWait
        /\ total <= (attempts - 1) * MostResendWait + quiet

\* One write of the mouse's acknowledges one command at most: a success is
\* never counted twice.
AcksNotShared ==
    Cardinality({c \in Commands : outcome[c] = "ok"}) + inflight <= taken

\* A command returns: no sequence of rejections and silences keeps it waiting.
CommandReturns == waiting ~> ~waiting
=============================================================================
