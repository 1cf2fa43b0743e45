---------------------------- MODULE HidrawIOProofs ----------------------------
(***************************************************************************)
(* Proofs about HidrawIO for every number of readers and reports.  The     *)
(* inductive invariant is TypeOK /\ TurnInv.                               *)
(***************************************************************************)
EXTENDS HidrawIO, TLAPS

\* Nobody has a turn, a node or a registration at the start.
LEMMA TurnInit == Init => TypeOK /\ TurnInv
<1> SUFFICES ASSUME Init PROVE TypeOK /\ TurnInv
  OBVIOUS
<1>1. \A a \in Actors : at[a] = "closed" /\ queue[a] = <<>>
  BY DEF Init
<1>2. TypeOK
  <2>1. at \in [Actors -> ReaderSteps \cup CommandSteps] /\ queue \in [Actors -> Seq(Reports)]
        /\ report \in [Actors -> Reports \cup {0}]
    BY DEF Init, ReaderSteps
  <2>2. arrived \in 0..MaxReports
    BY ActorsAssumption DEF Init
  <2>3. Command \in Actors /\ Readers \subseteq Actors
    BY DEF Actors
  <2> QED BY <1>1, <2>1, <2>2, <2>3 DEF Init, TypeOK, ReaderSteps, CommandSteps
<1>3. TurnInv
  BY <1>1, ActorsAssumption DEF Init, TurnInv, HasTurn, Actors
<1> QED BY <1>2, <1>3

LEMMA NothingQueued == <<>> \in Seq(Reports)
OBVIOUS

\* A step of a reader leaves the other actors where they are.
LEMMA ReaderMoves ==
    ASSUME TypeOK, NEW r \in Readers, NEW step \in ReaderSteps, Goto(r, step)
    PROVE  /\ at' \in [Actors -> ReaderSteps \cup CommandSteps]
           /\ at'[r] = step
           /\ \A a \in Actors \ {r} : at'[a] = at[a]
           /\ \A q \in Readers : at'[q] \in ReaderSteps
           /\ at'[Command] = at[Command] /\ at'[Command] \in CommandSteps
BY ActorsAssumption DEF TypeOK, Goto, Actors

\* A step of the command leaves the readers where they are.
LEMMA CommandMoves ==
    ASSUME TypeOK, NEW step \in CommandSteps, Goto(Command, step)
    PROVE  /\ at' \in [Actors -> ReaderSteps \cup CommandSteps]
           /\ at'[Command] = step
           /\ \A r \in Readers : at'[r] = at[r] /\ at'[r] \in ReaderSteps
BY ActorsAssumption DEF TypeOK, Goto, Actors

LEMMA ReaderTypes ==
    ASSUME TypeOK, NEW r \in Readers, ReaderNext(r) PROVE TypeOK'
<1>0. r \in Actors /\ r # Command /\ Command \in Actors
  BY ActorsAssumption DEF Actors
<1>1. CASE ReaderOpen(r)
  <2>1. Goto(r, "open") /\ "open" \in ReaderSteps
    BY <1>1 DEF ReaderOpen, ReaderSteps
  <2> QED BY <1>0, <1>1, <2>1, ReaderMoves DEF ReaderOpen, TypeOK, NodeOpen, turn
<1>2. CASE ReaderAcquire(r)
  <2>1. Goto(r, "reading") /\ "reading" \in ReaderSteps
    BY <1>2 DEF ReaderAcquire, ReaderSteps
  <2> QED BY <1>0, <1>2, <2>1, ReaderMoves DEF ReaderAcquire, TypeOK, NodeOpen
<1>3. CASE ReaderRead(r)
  <2>1. Goto(r, "calling") /\ "calling" \in ReaderSteps
    BY <1>3 DEF ReaderRead, ReaderSteps
  <2>2. queue[r] \in Seq(Reports) /\ queue[r] # <<>>
    BY <1>0, <1>3 DEF TypeOK, ReaderRead
  <2>3. Head(queue[r]) \in Reports /\ Tail(queue[r]) \in Seq(Reports)
    BY <2>2
  <2>4. queue' \in [Actors -> Seq(Reports)] /\ report' \in [Actors -> Reports \cup {0}]
    BY <1>0, <1>3, <2>3 DEF TypeOK, ReaderRead
  <2>5. \A a \in Actors : queue'[a] # <<>> => NodeOpen(a)'
    BY <1>0, <1>3, <2>1, ReaderMoves DEF TypeOK, ReaderRead, NodeOpen
  <2>6. \A a \in Actors : at'[a] \in {"taking", "calling"} => report'[a] # 0
    <3>1. Head(queue[r]) # 0
      BY <2>3 DEF Reports
    <3> QED BY <1>0, <1>3, <2>1, <3>1, ReaderMoves DEF TypeOK, ReaderRead
  <2> QED BY <1>3, <2>1, <2>4, <2>5, <2>6, ReaderMoves DEF ReaderRead, TypeOK, turn
<1>4. CASE ReaderEmptyRead(r)
  <2>1. Goto(r, "open") /\ "open" \in ReaderSteps
    BY <1>4 DEF ReaderEmptyRead, ReaderSteps
  <2> QED BY <1>0, <1>4, <2>1, ReaderMoves DEF ReaderEmptyRead, TypeOK, NodeOpen
<1>5. CASE ReaderCallback(r)
  <2>1. Goto(r, "open") /\ "open" \in ReaderSteps
    BY <1>5 DEF ReaderCallback, ReaderSteps
  <2>4. \A a \in Actors : /\ queue[a] # <<>> => NodeOpen(a)'
                          /\ at'[a] \in {"taking", "calling"} => report[a] # 0
    BY <1>0, <1>5, <2>1, ReaderMoves DEF TypeOK, ReaderCallback, NodeOpen
  <2> QED BY <1>5, <2>1, <2>4, ReaderMoves DEF ReaderCallback, TypeOK
<1>6. CASE ReaderReturn(r)
  <2>1. Goto(r, "closed") /\ "closed" \in ReaderSteps
    BY <1>6 DEF ReaderReturn, ReaderSteps, Closed
  <2>2. queue' \in [Actors -> Seq(Reports)]
    BY <1>6, NothingQueued DEF TypeOK, ReaderReturn, Closed
  <2>3. \A a \in Actors : queue'[a] # <<>> => NodeOpen(a)'
    BY <1>0, <1>6, <2>1, ReaderMoves DEF TypeOK, ReaderReturn, NodeOpen, Closed
  <2> QED BY <1>6, <2>1, <2>2, <2>3, ReaderMoves DEF ReaderReturn, AfterReturn, TypeOK, Closed
<1> QED BY <1>1, <1>2, <1>3, <1>4, <1>5, <1>6 DEF ReaderNext

LEMMA CommandTypes ==
    ASSUME TypeOK, TurnInv, CommandNext PROVE TypeOK'
<1>0. Command \in Actors /\ Command \notin Readers /\ Readers \subseteq Actors
  BY ActorsAssumption DEF Actors
<1>1. CASE CommandBegin
  <2>1. Goto(Command, "waiting") /\ "waiting" \in CommandSteps
    BY <1>1 DEF CommandBegin, CommandSteps
  <2> QED BY <1>0, <1>1, <2>1, CommandMoves DEF CommandBegin, TypeOK, NodeOpen, Actors
<1>2. CASE CommandAcquire
  <2>1. Goto(Command, "granted") /\ "granted" \in CommandSteps
    BY <1>2 DEF CommandAcquire, CommandSteps
  <2> QED BY <1>0, <1>2, <2>1, CommandMoves DEF CommandAcquire, TypeOK, NodeOpen, Actors
<1>3. CASE CommandCancel
  <2>1. Goto(Command, "closed") /\ "closed" \in CommandSteps
    BY <1>3 DEF CommandCancel, CommandSteps
  <2> QED BY <1>0, <1>3, <2>1, CommandMoves
          DEF CommandCancel, Finished, TypeOK, NodeOpen, Actors
<1>4. CASE CommandSend
  <2>1. Goto(Command, "awaiting") /\ "awaiting" \in CommandSteps
    BY <1>4 DEF CommandSend, CommandSteps
  <2> QED BY <1>0, <1>4, <2>1, CommandMoves DEF CommandSend, TypeOK, NodeOpen, Actors, turn
<1>5. CASE CommandRead
  <2>1. Goto(Command, "taking") /\ "taking" \in CommandSteps
    BY <1>5 DEF CommandRead, CommandSteps
  <2>2. queue[Command] \in Seq(Reports) /\ queue[Command] # <<>>
    BY <1>0, <1>5 DEF TypeOK, CommandRead
  <2>3. Head(queue[Command]) \in Reports /\ Tail(queue[Command]) \in Seq(Reports)
    BY <2>2
  <2>4. queue' \in [Actors -> Seq(Reports)] /\ report' \in [Actors -> Reports \cup {0}]
    BY <1>0, <1>5, <2>3 DEF TypeOK, CommandRead
  <2>5. \A a \in Actors : queue'[a] # <<>> => NodeOpen(a)'
    BY <1>0, <1>5, <2>1, CommandMoves DEF TypeOK, CommandRead, NodeOpen, Actors
  <2>6. \A a \in Actors : at'[a] \in {"taking", "calling"} => report'[a] # 0
    <3>1. Head(queue[Command]) # 0
      BY <2>3 DEF Reports
    <3> QED BY <1>0, <1>5, <2>1, <3>1, CommandMoves DEF TypeOK, CommandRead, Actors
  <2> QED BY <1>5, <2>1, <2>4, <2>5, <2>6, CommandMoves DEF CommandRead, TypeOK, turn
<1>6. CASE CommandTake
  <2>1. Goto(Command, "calling") /\ "calling" \in CommandSteps
    BY <1>6 DEF CommandTake, CommandSteps
  <2> QED BY <1>0, <1>6, <2>1, CommandMoves DEF CommandTake, TypeOK, NodeOpen, Actors, turn
<1>7. CASE CommandDispatch
  <2>1. PICK step \in {"releasing", "awaiting"} : Goto(Command, step)
    BY <1>7 DEF CommandDispatch, Closed
  <2>2. step \in CommandSteps
    BY DEF CommandSteps
  <2>5. queue' \in [Actors -> Seq(Reports)]
    BY <1>7, NothingQueued DEF TypeOK, CommandDispatch, Closed
  <2>6. \A a \in Actors : queue'[a] # <<>> => NodeOpen(a)'
    BY <1>0, <1>7, <2>1, <2>2, CommandMoves DEF TypeOK, CommandDispatch, NodeOpen, Actors, Goto, Closed
  <2>7. \A a \in Actors : at'[a] \in {"taking", "calling"} => report[a] # 0
    BY <1>0, <2>1, <2>2, CommandMoves DEF TypeOK, Actors
  <2> QED BY <1>7, <2>1, <2>2, <2>5, <2>6, <2>7, CommandMoves
          DEF CommandDispatch, TypeOK, turn, Closed
<1>8. CASE CommandFail
  <2>1. Goto(Command, "releasing") /\ "releasing" \in CommandSteps
    BY <1>8 DEF CommandFail, CommandSteps, Closed
  <2>2. queue' \in [Actors -> Seq(Reports)]
    BY <1>8, NothingQueued DEF TypeOK, CommandFail, Closed
  <2>3. \A a \in Actors : queue'[a] # <<>> => NodeOpen(a)'
    BY <1>0, <1>8, <2>1, CommandMoves DEF TypeOK, CommandFail, NodeOpen, Actors, Closed
  <2>4. \A a \in Actors : at'[a] \in {"taking", "calling"} => report[a] # 0
    BY <1>0, <2>1, CommandMoves DEF TypeOK, Actors
  <2> QED BY <1>8, <2>1, <2>2, <2>3, <2>4, CommandMoves DEF CommandFail, TypeOK, turn, Closed
<1>9. CASE CommandRelease
  <2>1. Goto(Command, "finishing") /\ "finishing" \in CommandSteps
    BY <1>9 DEF CommandRelease, CommandSteps
  <2> QED BY <1>0, <1>9, <2>1, CommandMoves DEF CommandRelease, TypeOK, NodeOpen, Actors
<1>10. CASE CommandFinish
  <2>1. Goto(Command, "closed") /\ "closed" \in CommandSteps
    BY <1>10 DEF CommandFinish, CommandSteps
  <2> QED BY <1>0, <1>10, <2>1, CommandMoves
          DEF CommandFinish, Finished, TypeOK, NodeOpen, Actors
<1> QED BY <1>1, <1>2, <1>3, <1>4, <1>5, <1>6, <1>7, <1>8, <1>9, <1>10 DEF CommandNext

LEMMA DeviceTypes == ASSUME TypeOK, DeviceReport PROVE TypeOK'
<1>1. arrived' \in 0..MaxReports /\ arrived' \in Reports
  BY ActorsAssumption DEF TypeOK, DeviceReport, Reports
<1>2. \A a \in Actors : Append(queue[a], arrived') \in Seq(Reports)
  BY <1>1 DEF TypeOK
<1>3. queue' \in [Actors -> Seq(Reports)]
  BY <1>2 DEF TypeOK, DeviceReport
<1>4. \A a \in Actors : queue'[a] # <<>> => NodeOpen(a)'
  BY DEF TypeOK, DeviceReport, OpenNodes, NodeOpen
<1>5. acks' \subseteq Reports
  BY <1>1 DEF TypeOK, DeviceReport
<1> QED BY <1>1, <1>3, <1>4, <1>5 DEF TypeOK, DeviceReport, turn

-----------------------------------------------------------------------------

\* A reader takes a free turn while no command is announced, and gives back
\* only its own turn and its own registration.
LEMMA ReaderTurns ==
    ASSUME TypeOK, TurnInv, NEW r \in Readers, ReaderNext(r) PROVE TurnInv'
<1>0. r \in Actors /\ r # Command /\ Command \in Actors /\ r # None /\ Command # None
  BY ActorsAssumption DEF Actors
<1>1. CASE ReaderOpen(r)
  <2>1. Goto(r, "open") /\ "open" \in ReaderSteps
    BY <1>1 DEF ReaderOpen, ReaderSteps
  <2> QED BY <1>0, <1>1, <2>1, ReaderMoves DEF ReaderOpen, TurnInv, HasTurn, turn
<1>2. CASE ReaderAcquire(r)
  <2>1. Goto(r, "reading") /\ "reading" \in ReaderSteps
    BY <1>2 DEF ReaderAcquire, ReaderSteps
  <2>2. owner = None /\ ~pending
    BY <1>0, <1>2 DEF ReaderAcquire, Granted
  <2>3. \A a \in Actors : ~HasTurn(a)
    BY <2>2, ActorsAssumption DEF TurnInv, Actors
  <2>4. \A a \in Actors : HasTurn(a)' <=> a = r
    BY <1>0, <2>1, <2>3, ReaderMoves DEF HasTurn
  <2>5. (pending <=> at[Command] # "closed")' /\ (listener # None => at[listener] # "closed")'
    BY <1>0, <1>2, <2>1, ReaderMoves DEF ReaderAcquire, TurnInv, TypeOK, Actors
  <2> QED BY <1>2, <2>4, <2>5 DEF ReaderAcquire, TurnInv
<1>3. CASE ReaderRead(r)
  <2>1. Goto(r, "calling") /\ "calling" \in ReaderSteps
    BY <1>3 DEF ReaderRead, ReaderSteps
  <2>2. at[r] = "reading"
    BY <1>3 DEF ReaderRead
  <2> QED BY <1>0, <1>3, <2>1, <2>2, ReaderMoves
          DEF ReaderRead, TurnInv, HasTurn, turn, TypeOK, Actors
<1>4. CASE ReaderEmptyRead(r) \/ ReaderCallback(r)
  <2>1. Goto(r, "open") /\ "open" \in ReaderSteps
    BY <1>4 DEF ReaderEmptyRead, ReaderCallback, ReaderSteps
  <2>2. owner = r /\ owner' = None /\ UNCHANGED <<pending, listener>>
    BY <1>0, <1>4 DEF ReaderEmptyRead, ReaderCallback, TurnInv, HasTurn
  <2>3. \A a \in Actors : ~HasTurn(a)'
    BY <1>0, <2>1, <2>2, ReaderMoves DEF HasTurn, TurnInv
  <2>4. (pending <=> at[Command] # "closed")' /\ (listener # None => at[listener] # "closed")'
    BY <1>0, <2>1, <2>2, ReaderMoves DEF TurnInv, TypeOK, Actors
  <2> QED BY <2>2, <2>3, <2>4, ActorsAssumption DEF TurnInv, Actors
<1>5. CASE ReaderReturn(r)
  <2>1. Goto(r, "closed") /\ "closed" \in ReaderSteps
    BY <1>5 DEF ReaderReturn, ReaderSteps
  <2>2. \A a \in Actors : HasTurn(a)' <=> (HasTurn(a) /\ a # r)
    BY <1>0, <2>1, ReaderMoves DEF HasTurn
  <2>3. \A a \in Actors : owner' = a <=> (owner = a /\ a # r)
    BY <1>0, <1>5, ActorsAssumption DEF ReaderReturn, Actors
  <2>4. (pending <=> at[Command] # "closed")' /\ (listener # None => at[listener] # "closed")'
    BY <1>0, <1>5, <2>1, ReaderMoves DEF ReaderReturn, AfterReturn, TurnInv, TypeOK, Actors
  <2> QED BY <2>2, <2>3, <2>4 DEF TurnInv
<1> QED BY <1>1, <1>2, <1>3, <1>4, <1>5 DEF ReaderNext

\* The command takes a free turn, announces itself first and withdraws last.
LEMMA CommandTurns ==
    ASSUME TypeOK, TurnInv, CommandNext PROVE TurnInv'
<1>0. Command \in Actors /\ Command \notin Readers /\ Command # None /\ Readers \subseteq Actors
  BY ActorsAssumption DEF Actors
<1>1. \A step \in CommandSteps : Goto(Command, step) =>
         /\ at'[Command] = step
         /\ \A r \in Readers : at'[r] = at[r] /\ (HasTurn(r)' <=> HasTurn(r))
  BY <1>0, CommandMoves DEF HasTurn
<1>2. CASE CommandBegin \/ CommandCancel \/ CommandFinish
  <2>1. PICK step \in {"waiting", "closed"} :
           Goto(Command, step) /\ (pending' <=> step # "closed")
    BY <1>2 DEF CommandBegin, CommandCancel, CommandFinish, Finished
  <2>2. step \in CommandSteps
    BY DEF CommandSteps
  <2>3. ~HasTurn(Command) /\ ~HasTurn(Command)' /\ UNCHANGED <<owner, listener>>
    BY <1>1, <1>2, <2>1, <2>2 DEF CommandBegin, CommandCancel, CommandFinish, HasTurn
  <2>4. (pending <=> at[Command] # "closed")' /\ (listener # None => at[listener] # "closed")'
    BY <1>0, <1>1, <2>1, <2>2, <2>3 DEF TurnInv, TypeOK
  <2> QED BY <1>0, <1>1, <2>1, <2>2, <2>3, <2>4 DEF TurnInv, Actors
<1>3. CASE CommandAcquire
  <2>1. Goto(Command, "granted") /\ "granted" \in CommandSteps /\ owner = None /\ owner' = Command
    BY <1>3 DEF CommandAcquire, CommandSteps, Granted
  <2>2. \A a \in Actors : ~HasTurn(a)
    BY <2>1, ActorsAssumption DEF TurnInv, Actors
  <2>3. HasTurn(Command)' /\ at[Command] = "waiting" /\ UNCHANGED <<pending, listener>>
    BY <1>1, <1>3, <2>1 DEF HasTurn, CommandAcquire
  <2>4. (pending <=> at[Command] # "closed")' /\ (listener # None => at[listener] # "closed")'
    BY <1>0, <1>1, <2>1, <2>3 DEF TurnInv, TypeOK
  <2> QED BY <1>0, <1>1, <2>1, <2>2, <2>3, <2>4 DEF TurnInv, Actors
<1>4. CASE CommandSend \/ CommandRead \/ CommandTake \/ CommandDispatch \/ CommandFail
  <2>1. PICK step \in {"awaiting", "taking", "calling", "releasing"} : Goto(Command, step)
    BY <1>4 DEF CommandSend, CommandRead, CommandTake, CommandDispatch, CommandFail
  <2>2. step \in CommandSteps
    BY DEF CommandSteps
  <2>3. HasTurn(Command) /\ at[Command] # "closed" /\ UNCHANGED <<owner, pending, listener>>
    BY <1>4 DEF CommandSend, CommandRead, CommandTake, CommandDispatch, CommandFail, HasTurn, turn
  <2>4. HasTurn(Command)' /\ at'[Command] # "closed"
    BY <1>1, <2>1, <2>2 DEF HasTurn
  <2>5. (pending <=> at[Command] # "closed")' /\ (listener # None => at[listener] # "closed")'
    BY <1>0, <1>1, <2>1, <2>2, <2>3, <2>4 DEF TurnInv, TypeOK
  <2> QED BY <1>0, <1>1, <2>1, <2>2, <2>3, <2>4, <2>5 DEF TurnInv, Actors
<1>5. CASE CommandRelease
  <2>1. Goto(Command, "finishing") /\ "finishing" \in CommandSteps /\ owner' = None
    BY <1>5 DEF CommandRelease, CommandSteps
  <2>2. owner = Command /\ at[Command] # "closed" /\ UNCHANGED <<pending, listener>>
    BY <1>0, <1>5 DEF CommandRelease, TurnInv, HasTurn
  <2>3. \A a \in Actors : ~HasTurn(a)'
    <3>1. ~HasTurn(Command)'
      BY <1>1, <2>1 DEF HasTurn
    <3>2. \A r \in Readers : ~HasTurn(r)
      BY <1>0, <2>2 DEF TurnInv
    <3> QED BY <1>1, <2>1, <3>1, <3>2 DEF Actors
  <2>4. (pending <=> at[Command] # "closed")' /\ (listener # None => at[listener] # "closed")'
    BY <1>0, <1>1, <2>1, <2>2 DEF TurnInv, TypeOK
  <2> QED BY <2>1, <2>3, <2>4, ActorsAssumption DEF TurnInv, Actors
<1> QED BY <1>2, <1>3, <1>4, <1>5 DEF CommandNext

LEMMA TurnStep == TypeOK /\ TurnInv /\ [Next]_vars => TypeOK' /\ TurnInv'
<1> SUFFICES ASSUME TypeOK, TurnInv, [Next]_vars PROVE TypeOK' /\ TurnInv'
  OBVIOUS
<1>1. CASE \E r \in Readers : ReaderNext(r)
  BY <1>1, ReaderTypes, ReaderTurns
<1>2. CASE CommandNext
  BY <1>2, CommandTypes, CommandTurns
<1>3. CASE DeviceReport
  <2>1. TypeOK'
    BY <1>3, DeviceTypes
  <2>2. TurnInv'
    BY <1>3 DEF DeviceReport, TurnInv, HasTurn, turn
  <2> QED BY <2>1, <2>2
<1>4. CASE UNCHANGED vars
  <2>1. TypeOK'
    BY <1>4 DEF TypeOK, NodeOpen, vars
  <2>2. TurnInv'
    BY <1>4 DEF TurnInv, HasTurn, vars
  <2> QED BY <2>1, <2>2
<1> QED BY <1>1, <1>2, <1>3, <1>4 DEF Next

-----------------------------------------------------------------------------

\* The variables keep their types, and reports queue only at open nodes.
THEOREM IOTypeCorrect == Spec => []TypeOK
<1> QED BY TurnInit, TurnStep, PTL DEF Spec

\* Turns are exclusive, a running command is always announced, and a reader
\* that has returned is never registered (acquireIO, ReadInterruptIN).
THEOREM TurnsAreExclusive == Spec => []TurnInv
<1> QED BY TurnInit, TurnStep, PTL DEF Spec

\* Two goroutines are never inside status callbacks at once, for any number of
\* readers.
THEOREM CallbacksAreSerialized == Spec => []CallbacksSerialized
<1>1. TypeOK /\ TurnInv => CallbacksSerialized
  BY ActorsAssumption DEF TurnInv, HasTurn, CallbacksSerialized
<1> QED BY <1>1, TurnInit, TurnStep, PTL DEF Spec
=============================================================================
