------------------------------- MODULE HidrawIO -------------------------------
(***************************************************************************)
(* How passive readers and commands share one mouse's hidraw node          *)
(* (src/internal/hidlinux/hidraw_passive.go).                              *)
(*                                                                         *)
(* A reader is one caller of ReadInterruptIN: the always-on loop of        *)
(* x6.Service.Listen, and Status calls beside it.  A command is one        *)
(* SendAndAwait or SendAndAwaitBound; the desktop service's operationMu    *)
(* lets one run at a time.  Each of them opens a node of its own and the   *)
(* kernel gives every open node a copy of every report.  Reads and         *)
(* commands take turns through ioBusy and commandPending; a reader that    *)
(* opens its node also registers its callback, which a command calls with  *)
(* what it reads while it owns the turn.                                   *)
(*                                                                         *)
(* Reports are numbered by arrival.  The resends of a command, its payload *)
(* and which report acknowledges which command belong to AckResend.        *)
(***************************************************************************)
EXTENDS Naturals, Sequences, FiniteSets

CONSTANTS Readers,      \* callers of ReadInterruptIN
          Listener,     \* the one that is Listen's loop
          Command,      \* the goroutine of the running command
          None,
          MaxReports    \* bound: reports the device sends

ASSUME ActorsAssumption ==
    /\ Listener \in Readers
    /\ Command \notin Readers
    /\ None \notin Readers \cup {Command}
    /\ MaxReports \in Nat

Actors == Readers \cup {Command}
Reports == 1..MaxReports

VARIABLES owner,      \* who has ioBusy, or None
          pending,    \* commandPending
          listener,   \* whose callback and node are registered, or None
          at,         \* where each actor is in its call
          queue,      \* unread reports of each actor's open node
          report,     \* the report each actor is handling
          target,     \* the callback dispatchListenerReport took, or None
          arrived,    \* reports sent by the device so far
          acks        \* those that acknowledge a command

turn == <<owner, pending>>
vars == <<owner, pending, listener, at, queue, report, target, arrived, acks>>

ReaderSteps == {"closed", "open", "reading", "calling"}
CommandSteps == {"closed", "waiting", "granted", "awaiting", "taking", "calling",
                 "releasing", "finishing"}

\* An actor's node is open, so the kernel queues reports for it.
NodeOpen(a) ==
    IF a = Command THEN at[a] \in {"awaiting", "taking", "calling"} ELSE at[a] # "closed"

TypeOK ==
    /\ owner \in Actors \cup {None} /\ pending \in BOOLEAN
    /\ listener \in Readers \cup {None} /\ target \in Readers \cup {None}
    /\ at \in [Actors -> ReaderSteps \cup CommandSteps]
    /\ \A r \in Readers : at[r] \in ReaderSteps
    /\ at[Command] \in CommandSteps
    /\ arrived \in 0..MaxReports
    /\ queue \in [Actors -> Seq(Reports)]
    /\ \A a \in Actors : queue[a] # <<>> => NodeOpen(a)
    /\ report \in [Actors -> Reports \cup {0}]
    /\ \A a \in Actors : at[a] \in {"taking", "calling"} => report[a] # 0
    /\ acks \subseteq Reports

Init ==
    /\ owner = None /\ pending = FALSE
    /\ listener = None /\ target = None
    /\ at = [a \in Actors |-> "closed"]
    /\ queue = [a \in Actors |-> <<>>]
    /\ report = [a \in Actors |-> 0]
    /\ arrived = 0 /\ acks = {}

Goto(a, step) == at' = [at EXCEPT ![a] = step]

\* node.Close(): what was not read is gone.
Closed(a) == [queue EXCEPT ![a] = <<>>]

-----------------------------------------------------------------------------
(* ReadInterruptIN.                                                         *)

\* OpenNode, then activeNode, activePath and listener are overwritten.
ReaderOpen(r) ==
    /\ at[r] = "closed"
    /\ Goto(r, "open")
    /\ listener' = r
    /\ UNCHANGED <<turn, queue, report, target, arrived, acks>>

\* Mutant: a reader takes its turn although a command is waiting for one.
GrantedToAll(a) == owner = None

\* Mutant: a command does not wait for the reader that has the turn.
GrantedAtOnce(a) == a = Command \/ (owner = None /\ ~pending)

\* acquireIO: nobody has the turn, and commands go before readers.
Granted(a) == owner = None /\ (a = Command \/ ~pending)

ReaderAcquire(r) ==
    /\ at[r] = "open" /\ Granted(r)
    /\ owner' = r
    /\ Goto(r, "reading")
    /\ UNCHANGED <<pending, listener, queue, report, target, arrived, acks>>

ReaderRead(r) ==
    /\ at[r] = "reading" /\ queue[r] # <<>>
    /\ report' = [report EXCEPT ![r] = Head(queue[r])]
    /\ queue' = [queue EXCEPT ![r] = Tail(@)]
    /\ Goto(r, "calling")
    /\ UNCHANGED <<turn, listener, target, arrived, acks>>

\* The callback runs with the turn held; Listen's always asks for more.
ReaderCallback(r) ==
    /\ at[r] = "calling"
    /\ owner' = None
    /\ Goto(r, "open")
    /\ UNCHANGED <<pending, listener, queue, report, target, arrived, acks>>

\* A report of no bytes gives the turn up and the loop goes on.
ReaderEmptyRead(r) ==
    /\ at[r] = "reading"
    /\ owner' = None
    /\ Goto(r, "open")
    /\ UNCHANGED <<pending, listener, queue, report, target, arrived, acks>>

\* Mutant: a reader that returns leaves its callback registered.
LeavesCallback(r) == listener

\* A reader that returns takes its registration back only if it is its own.
AfterReturn(r) == IF listener = r THEN None ELSE listener

\* The bounded context ends, the read fails, or the caller has what it wanted:
\* the node is closed with what it holds.
ReaderReturn(r) ==
    /\ at[r] \in {"open", "reading"}
    /\ listener' = AfterReturn(r)
    /\ owner' = IF owner = r THEN None ELSE owner
    /\ queue' = Closed(r)
    /\ Goto(r, "closed")
    /\ UNCHANGED <<pending, report, target, arrived, acks>>

-----------------------------------------------------------------------------
(* SendAndAwait and SendAndAwaitBound.                                      *)

\* beginCommand: announce the command, so that readers stop taking turns.
CommandBegin ==
    /\ at[Command] = "closed"
    /\ pending' = TRUE
    /\ Goto(Command, "waiting")
    /\ UNCHANGED <<owner, listener, queue, report, target, arrived, acks>>

CommandAcquire ==
    /\ at[Command] = "waiting" /\ Granted(Command)
    /\ owner' = Command
    /\ Goto(Command, "granted")
    /\ UNCHANGED <<pending, listener, queue, report, target, arrived, acks>>

\* Mutant: giving up before the turn is granted leaves the announcement.
AnnouncementStays == pending

\* finishCommand: readers may take turns again.
Finished == FALSE

\* The caller's context ends before the turn is granted.
CommandCancel ==
    /\ at[Command] = "waiting"
    /\ pending' = Finished
    /\ Goto(Command, "closed")
    /\ UNCHANGED <<owner, listener, queue, report, target, arrived, acks>>

\* OpenNode and the first write succeed.
CommandSend ==
    /\ at[Command] = "granted"
    /\ Goto(Command, "awaiting")
    /\ UNCHANGED <<turn, listener, queue, report, target, arrived, acks>>

CommandRead ==
    /\ at[Command] = "awaiting" /\ queue[Command] # <<>>
    /\ report' = [report EXCEPT ![Command] = Head(queue[Command])]
    /\ queue' = [queue EXCEPT ![Command] = Tail(@)]
    /\ Goto(Command, "taking")
    /\ UNCHANGED <<turn, listener, target, arrived, acks>>

\* dispatchListenerReport takes the registered callback under b.mu ...
CommandTake ==
    /\ at[Command] = "taking"
    /\ target' = listener
    /\ Goto(Command, "calling")
    /\ UNCHANGED <<turn, listener, queue, report, arrived, acks>>

\* ... and calls it after the unlock; an acknowledgement ends the wait.
CommandDispatch ==
    /\ at[Command] = "calling"
    /\ target' = None
    /\ IF report[Command] \in acks
       THEN Goto(Command, "releasing") /\ queue' = Closed(Command)
       ELSE Goto(Command, "awaiting") /\ UNCHANGED queue
    /\ UNCHANGED <<turn, listener, report, arrived, acks>>

\* The node does not open, a write fails, or no acknowledgement comes in time.
CommandFail ==
    /\ at[Command] \in {"granted", "awaiting"}
    /\ Goto(Command, "releasing")
    /\ queue' = Closed(Command)
    /\ UNCHANGED <<turn, listener, report, target, arrived, acks>>

CommandRelease ==
    /\ at[Command] = "releasing"
    /\ owner' = None
    /\ Goto(Command, "finishing")
    /\ UNCHANGED <<pending, listener, queue, report, target, arrived, acks>>

CommandFinish ==
    /\ at[Command] = "finishing"
    /\ pending' = Finished
    /\ Goto(Command, "closed")
    /\ UNCHANGED <<owner, listener, queue, report, target, arrived, acks>>

-----------------------------------------------------------------------------

\* The nodes the kernel gives a copy of a report.
OpenNodes == {a \in Actors : NodeOpen(a)}

\* The device sends a heartbeat, a stage event or an acknowledgement.
DeviceReport ==
    /\ arrived < MaxReports
    /\ arrived' = arrived + 1
    /\ queue' = [a \in Actors |-> IF a \in OpenNodes THEN Append(queue[a], arrived')
                                                     ELSE queue[a]]
    /\ acks' \in {acks, acks \cup {arrived'}}
    /\ UNCHANGED <<turn, listener, at, report, target>>

ReaderNext(r) == ReaderOpen(r) \/ ReaderAcquire(r) \/ ReaderRead(r) \/ ReaderEmptyRead(r)
                 \/ ReaderCallback(r) \/ ReaderReturn(r)

CommandNext == CommandBegin \/ CommandAcquire \/ CommandCancel \/ CommandSend \/ CommandRead
               \/ CommandTake \/ CommandDispatch \/ CommandFail \/ CommandRelease
               \/ CommandFinish

Next == (\E r \in Readers : ReaderNext(r)) \/ CommandNext \/ DeviceReport

\* Reads are bounded by readTimeout and the wait for an acknowledgement by the
\* deadlines of the resends, so neither lasts for ever; a goroutine that can
\* run does.  Nothing says that a command is ever begun or cancelled, or that
\* the device sends anything.
Fairness ==
    /\ \A r \in Readers : /\ WF_vars(ReaderReturn(r)) /\ WF_vars(ReaderCallback(r))
                          /\ WF_vars(ReaderOpen(r) /\ r = Listener)
    /\ WF_vars(CommandAcquire) /\ WF_vars(CommandFail) /\ WF_vars(CommandTake)
    /\ WF_vars(CommandDispatch) /\ WF_vars(CommandRelease) /\ WF_vars(CommandFinish)

Spec == Init /\ [][Next]_vars /\ Fairness

-----------------------------------------------------------------------------
(* Properties.                                                              *)

HasTurn(a) ==
    IF a = Command
    THEN at[a] \in {"granted", "awaiting", "taking", "calling", "releasing"}
    ELSE at[a] \in {"reading", "calling"}

\* Turns are exclusive from the grant to the release, a command is announced
\* for as long as it runs, and only a reader that has not returned is
\* registered (acquireIO, beginCommand, finishCommand, ReadInterruptIN).
TurnInv ==
    /\ \A a \in Actors : HasTurn(a) <=> owner = a
    /\ pending <=> at[Command] # "closed"
    /\ listener # None => at[listener] # "closed"

\* Two goroutines are never inside callbacks at once, although a command calls
\* the callback of a reader from its own goroutine: the listener's code takes
\* no lock against itself ("The listener callback is serialized by Listen",
\* src/internal/desktop/listener.go:35).
CallbacksSerialized ==
    \A a, b \in Actors : at[a] = "calling" /\ at[b] = "calling" => a = b

\* A command that waits for its turn gets it, or its caller gives up, however
\* many readers keep taking turns: it is announced before it waits.
CommandProceeds == at[Command] = "waiting" ~> at[Command] # "waiting"

\* Every way out of a command takes its announcement back, so readers are
\* never locked out for good.
ReadersReadmitted == pending ~> ~pending
=============================================================================
