--------------------------- MODULE AckResendProofs ---------------------------
(***************************************************************************)
(* Proofs about AckResend for all delays, attempts and numbers of          *)
(* commands.  The inductive invariant is AckTypeOK /\ ResendInv.              *)
(***************************************************************************)
EXTENDS AckResend, FiniteSetTheorems, TLAPS

\* One more attempt costs one more wait.
LEMMA OneMoreWait ==
    ASSUME NEW n \in Nat, NEW m \in Nat, n >= 1
    PROVE  (n - 1) * m + m = ((n + 1) - 1) * m
OBVIOUS

\* Fewer attempts cost no more waits.
LEMMA FewerWaits ==
    ASSUME NEW n \in Nat, NEW k \in Nat, NEW m \in Nat, n >= 1, n <= k
    PROVE  (n - 1) * m <= (k - 1) * m
<1>1. (k - 1) * m = (n - 1) * m + (k - n) * m
  OBVIOUS
<1>2. (k - n) * m >= 0
  OBVIOUS
<1>3. (n - 1) * m \in Int /\ (k - n) * m \in Int
  OBVIOUS
<1> QED BY <1>1, <1>2, <1>3

LEMMA MostResendWaitType == MostResendWait \in Nat
BY DelaysAssumption DEF MostResendWait

LEMMA ResendInit == AckInit => AckTypeOK /\ ResendInv
<1> SUFFICES ASSUME AckInit PROVE AckTypeOK /\ ResendInv
  OBVIOUS
<1>1. reports \in Seq({"ack", "rejection"}) /\ outcome \in [Commands -> {"none", "ok", "failed"}]
  BY DEF AckInit
<1>2. command \in 0..MaxCommands /\ attempts \in 0..MaxAttempts
  BY DelaysAssumption DEF AckInit
<1> QED BY <1>1, <1>2 DEF AckInit, AckTypeOK, ResendInv

LEMMA WriteTypes ==
    ASSUME AckTypeOK, Write
    PROVE  taken' \in Nat /\ inflight' \in Nat /\ rejections' \in Nat
BY DEF AckTypeOK, Write, device

LEMMA ReturnTypes ==
    ASSUME AckTypeOK, waiting, command \in Commands, NEW result \in {"ok", "failed"}, Return(result)
    PROVE  AckTypeOK' /\ ResendInv'
<1>1. outcome' \in [Commands -> {"none", "ok", "failed"}]
  BY DEF AckTypeOK, Return
<1>2. reports' \in Seq({"ack", "rejection"})
  BY DEF Return, Dropped
<1>3. AckTypeOK'
  BY <1>1, <1>2 DEF AckTypeOK, Return, Disarm, device
<1>4. ResendInv'
  BY DEF ResendInv, Return
<1> QED BY <1>3, <1>4

LEMMA ArmSilenceTypes ==
    ASSUME NEW made, ArmSilence(made)
    PROVE  /\ armed' \in BOOLEAN /\ left' \in Nat
           /\ armed' => left' = SilenceDelay
           /\ made < MaxAttempts => armed'
<1>1. SilenceDelay \in Nat /\ SilenceDelay > 0
  BY DelaysAssumption
<1>2. CASE made < MaxAttempts
  <2>1. armed' = TRUE /\ left' = SilenceDelay
    BY <1>1, <1>2 DEF ArmSilence, Arm
  <2> QED BY <1>1, <2>1
<1>3. CASE ~(made < MaxAttempts)
  <2>1. armed' = FALSE /\ left' = 0
    BY <1>3 DEF ArmSilence, Disarm
  <2> QED BY <1>3, <2>1
<1> QED BY <1>2, <1>3

LEMMA BeginPreserves == AckTypeOK /\ ResendInv /\ Begin => AckTypeOK' /\ ResendInv'
<1> SUFFICES ASSUME AckTypeOK, ResendInv, Begin PROVE AckTypeOK' /\ ResendInv'
  OBVIOUS
<1>1. command' \in Commands /\ command' \in 0..MaxCommands
  BY DelaysAssumption DEF AckTypeOK, Begin, Commands
<1>2. Write
  BY DEF Begin
<1>3. taken' \in Nat /\ inflight' \in Nat /\ rejections' \in Nat
  BY <1>2, WriteTypes
<1>4. ArmSilence(1)
  BY DEF Begin
<1>5. /\ armed' \in BOOLEAN /\ left' \in Nat /\ (armed' => left' = SilenceDelay)
      /\ 1 < MaxAttempts => armed'
  BY <1>4, ArmSilenceTypes
<1>6. attempts' = 1 /\ attempts' \in 0..MaxAttempts
  BY DelaysAssumption DEF Begin
<1>7. quiet' = 0 /\ total' = 0 /\ rejected' = FALSE /\ waiting' = TRUE
  BY DEF Begin
<1>8. reports' \in Seq({"ack", "rejection"}) /\ outcome' \in [Commands -> {"none", "ok", "failed"}]
  BY DEF Begin, AckTypeOK
<1>9. AckTypeOK'
  BY <1>1, <1>3, <1>5, <1>6, <1>7, <1>8 DEF AckTypeOK
<1>10. SilenceDelay <= MostResendWait /\ MostResendWait \in Nat
  BY DelaysAssumption DEF MostResendWait
<1>11. /\ armed' => left' = SilenceDelay /\ quiet' + left' = SilenceDelay
       /\ armed' => quiet' + left' <= MostResendWait
  <2>1. SilenceDelay \in Nat
    BY DelaysAssumption
  <2>2. armed' => left' = SilenceDelay /\ quiet' = 0
    BY <1>5, <1>7
  <2> QED BY <1>10, <2>1, <2>2
<1>12. total' <= (attempts' - 1) * MostResendWait + quiet'
  BY <1>6, <1>7, <1>10
<1>13. attempts' >= 1 /\ quiet' <= ReadTimeout /\ (attempts' < MaxAttempts => armed')
  BY <1>5, <1>6, <1>7, DelaysAssumption
<1>14. ResendInv'
  BY <1>11, <1>12, <1>13 DEF ResendInv, MostResendWait
<1> QED BY <1>9, <1>14

LEMMA ResendPreserves == AckTypeOK /\ ResendInv /\ Resend => AckTypeOK' /\ ResendInv'
<1> SUFFICES ASSUME AckTypeOK, ResendInv, Resend PROVE AckTypeOK' /\ ResendInv'
  OBVIOUS
<1>1. waiting /\ armed /\ left = 0 /\ attempts < MaxAttempts /\ command \in Commands
  BY DEF AckTypeOK, Resend, Due, AttemptsLeft
<1>2. Write /\ ArmSilence(attempts + 1)
  BY DEF Resend
<1>3. taken' \in Nat /\ inflight' \in Nat /\ rejections' \in Nat
  BY <1>1, <1>2, WriteTypes
<1>4. /\ armed' \in BOOLEAN /\ left' \in Nat /\ (armed' => left' = SilenceDelay)
      /\ attempts + 1 < MaxAttempts => armed'
  BY <1>2, ArmSilenceTypes
<1>5. attempts \in Nat /\ attempts' = attempts + 1 /\ attempts' \in 0..MaxAttempts
  BY <1>1, DelaysAssumption DEF Resend, AckTypeOK
<1>6. quiet' = 0 /\ rejected' = FALSE
  BY DEF Resend
<1>7. UNCHANGED <<command, waiting, total, reports, outcome>>
  BY DEF Resend
<1>8. AckTypeOK'
  BY <1>3, <1>4, <1>5, <1>6, <1>7 DEF AckTypeOK
<1>9. SilenceDelay <= MostResendWait /\ MostResendWait \in Nat
  BY DelaysAssumption DEF MostResendWait
<1>10. total <= (attempts - 1) * MostResendWait + quiet /\ quiet <= MostResendWait /\ attempts >= 1
       /\ total \in Nat /\ quiet \in Nat
  BY <1>1 DEF ResendInv, AckTypeOK
<1>11. total <= (attempts' - 1) * MostResendWait
  <2>1. (attempts - 1) * MostResendWait + MostResendWait = ((attempts + 1) - 1) * MostResendWait
    BY <1>5, <1>9, <1>10, OneMoreWait
  <2>2. (attempts - 1) * MostResendWait \in Int
    BY <1>5, <1>9
  <2> QED BY <1>5, <1>9, <1>10, <2>1, <2>2
<1>12. (attempts' - 1) * MostResendWait \in Int
  BY <1>5, <1>9
<1>13. total' <= (attempts' - 1) * MostResendWait + quiet'
  BY <1>6, <1>7, <1>10, <1>11, <1>12
<1>14. attempts' >= 1 /\ quiet' <= ReadTimeout
  BY <1>5, <1>6, <1>10, DelaysAssumption
<1>15. /\ armed' /\ ~rejected' => quiet' + left' = SilenceDelay
       /\ armed' /\ attempts' < MaxAttempts => quiet' + left' <= MostResendWait
  <2>1. SilenceDelay \in Nat
    BY DelaysAssumption
  <2>2. armed' => left' = SilenceDelay /\ quiet' = 0
    BY <1>4, <1>6
  <2> QED BY <1>9, <2>1, <2>2
<1>16. attempts' < MaxAttempts => armed'
  BY <1>4, <1>5
<1>17. ResendInv'
  BY <1>13, <1>14, <1>15, <1>16 DEF ResendInv, MostResendWait
<1> QED BY <1>8, <1>17

LEMMA GiveUpPreserves == AckTypeOK /\ ResendInv /\ GiveUp => AckTypeOK' /\ ResendInv'
<1> SUFFICES ASSUME AckTypeOK, ResendInv, GiveUp PROVE AckTypeOK' /\ ResendInv'
  OBVIOUS
<1>1. waiting /\ command \in Commands /\ ~(attempts < MaxAttempts)
  BY DEF AckTypeOK, GiveUp, Due, AttemptsLeft
<1>2. CASE rejected
  <2>1. Return("failed")
    BY <1>2 DEF GiveUp
  <2> QED BY <1>1, <2>1, ReturnTypes
<1>3. CASE ~rejected
  <2>1. Disarm /\ UNCHANGED <<command, waiting, attempts, quiet, total, rejected,
                              reports, outcome, device>>
    BY <1>3 DEF GiveUp
  <2>2. AckTypeOK'
    BY <2>1 DEF AckTypeOK, Disarm, device
  <2>3. armed' = FALSE /\ UNCHANGED <<waiting, attempts, quiet, total>>
    BY <2>1 DEF Disarm
  <2>4. /\ attempts >= 1 /\ quiet <= ReadTimeout
        /\ total <= (attempts - 1) * MostResendWait + quiet
    BY <1>1 DEF ResendInv
  <2>5. ResendInv'
    BY <1>1, <2>3, <2>4 DEF ResendInv, MostResendWait
  <2> QED BY <2>2, <2>5
<1> QED BY <1>2, <1>3

LEMMA ReadRejectionPreserves ==
    AckTypeOK /\ ResendInv /\ ReadRejection => AckTypeOK' /\ ResendInv'
<1> SUFFICES ASSUME AckTypeOK, ResendInv, ReadRejection PROVE AckTypeOK' /\ ResendInv'
  OBVIOUS
<1>1. waiting /\ reports # <<>> /\ reports' = Tail(reports)
      /\ UNCHANGED <<command, waiting, attempts, quiet, total, outcome, device>>
  BY DEF ReadRejection
<1>2. reports' \in Seq({"ack", "rejection"})
  BY <1>1 DEF AckTypeOK
<1>3. CASE ~rejected
  <2>1. rejected' = TRUE /\ armed' = TRUE /\ left' = ResendDelay
    BY <1>3 DEF ReadRejection, FirstRejection, Arm
  <2>2. AckTypeOK'
    BY <1>1, <1>2, <2>1, DelaysAssumption DEF AckTypeOK, device
  <2>3. attempts < MaxAttempts => quiet + left = SilenceDelay
    BY <1>1, <1>3 DEF ResendInv
  <2>4. attempts < MaxAttempts => quiet' + left' <= MostResendWait
    BY <1>1, <2>1, <2>3, DelaysAssumption DEF AckTypeOK, MostResendWait
  <2>5. ResendInv'
    BY <1>1, <2>1, <2>4 DEF ResendInv, MostResendWait
  <2> QED BY <2>2, <2>5
<1>4. CASE rejected
  <2>1. UNCHANGED <<rejected, timer>>
    BY <1>4 DEF ReadRejection, FirstRejection
  <2>2. AckTypeOK'
    BY <1>1, <1>2, <2>1 DEF AckTypeOK, timer, device
  <2>3. ResendInv'
    BY <1>1, <2>1 DEF ResendInv, MostResendWait, timer
  <2> QED BY <2>2, <2>3
<1> QED BY <1>3, <1>4

\* A report from the mouse changes nothing the wait depends on.
LEMMA ReportPreserves ==
    AckTypeOK /\ ResendInv /\ (AckArrives \/ Motion) => AckTypeOK' /\ ResendInv'
<1> SUFFICES ASSUME AckTypeOK, ResendInv, AckArrives \/ Motion PROVE AckTypeOK' /\ ResendInv'
  OBVIOUS
<1>1. Reaching("ack") \in Seq({"ack", "rejection"})
      /\ Reaching("rejection") \in Seq({"ack", "rejection"})
  BY DEF AckTypeOK, Reaching
<1>2. reports' \in Seq({"ack", "rejection"})
  BY <1>1 DEF AckArrives, Motion
<1>3. UNCHANGED <<command, waiting, attempts, quiet, total, timer, rejected, outcome, taken>>
  BY DEF AckArrives, Motion
<1>4. inflight' \in Nat /\ rejections' \in Nat
  BY DEF AckArrives, Motion, AckTypeOK
<1>5. AckTypeOK'
  BY <1>2, <1>3, <1>4 DEF AckTypeOK, timer
<1>6. ResendInv'
  BY <1>3 DEF ResendInv, MostResendWait, timer
<1> QED BY <1>5, <1>6

LEMMA TickPreserves == AckTypeOK /\ ResendInv /\ Tick => AckTypeOK' /\ ResendInv'
<1> SUFFICES ASSUME AckTypeOK, ResendInv, Tick PROVE AckTypeOK' /\ ResendInv'
  OBVIOUS
<1>1. /\ waiting /\ quiet < ReadTimeout /\ (armed => left # 0)
      /\ quiet' = quiet + 1 /\ total' = total + 1
      /\ UNCHANGED <<command, waiting, attempts, armed, rejected, reports, outcome, device>>
  BY DelaysAssumption DEF Tick, Due, TimedOut, AckTypeOK
<1>2. armed => left' = left - 1 /\ left' \in Nat
  BY <1>1 DEF Tick, AckTypeOK
<1>3. ~armed => left' = left
  BY DEF Tick
<1>4. quiet \in Nat /\ total \in Nat /\ quiet' \in Nat /\ total' \in Nat /\ left \in Nat /\ left' \in Nat
  BY <1>1, <1>2, <1>3 DEF AckTypeOK
<1>5. AckTypeOK'
  BY <1>1, <1>4 DEF AckTypeOK, device
<1>6. total <= (attempts - 1) * MostResendWait + quiet
      /\ (attempts - 1) * MostResendWait \in Int
  BY <1>1, MostResendWaitType DEF ResendInv, AckTypeOK
<1>7. total' <= (attempts - 1) * MostResendWait + quiet'
  BY <1>1, <1>4, <1>6
<1>8. /\ armed /\ ~rejected => quiet' + left' = SilenceDelay
      /\ armed /\ attempts < MaxAttempts => quiet' + left' <= MostResendWait
  BY <1>1, <1>2, <1>4 DEF ResendInv
<1>9. quiet' <= ReadTimeout /\ attempts >= 1 /\ (attempts < MaxAttempts => armed)
  BY <1>1, <1>4, DelaysAssumption DEF ResendInv
<1>10. ResendInv'
  BY <1>1, <1>7, <1>8, <1>9 DEF ResendInv, MostResendWait
<1> QED BY <1>5, <1>10

LEMMA ReturnPreserves ==
    AckTypeOK /\ ResendInv /\ (Deadline \/ Fail \/ ReadAck) => AckTypeOK' /\ ResendInv'
<1> SUFFICES ASSUME AckTypeOK, ResendInv, Deadline \/ Fail \/ ReadAck PROVE AckTypeOK' /\ ResendInv'
  OBVIOUS
<1>1. waiting /\ command \in Commands
  BY DEF AckTypeOK, Deadline, Fail, ReadAck
<1>2. PICK result \in {"ok", "failed"} : Return(result)
  BY DEF Deadline, Fail, ReadAck
<1> QED BY <1>1, <1>2, ReturnTypes

LEMMA ResendStep == AckTypeOK /\ ResendInv /\ [AckNext]_ackVars => AckTypeOK' /\ ResendInv'
<1> SUFFICES ASSUME AckTypeOK, ResendInv, [AckNext]_ackVars PROVE AckTypeOK' /\ ResendInv'
  OBVIOUS
<1>1. CASE Begin
  BY <1>1, BeginPreserves
<1>2. CASE Resend
  BY <1>2, ResendPreserves
<1>3. CASE GiveUp
  BY <1>3, GiveUpPreserves
<1>4. CASE Deadline \/ Fail \/ ReadAck
  BY <1>4, ReturnPreserves
<1>5. CASE ReadRejection
  BY <1>5, ReadRejectionPreserves
<1>6. CASE AckArrives \/ Motion
  BY <1>6, ReportPreserves
<1>7. CASE Tick
  BY <1>7, TickPreserves
<1>8. CASE UNCHANGED ackVars
  <2>1. AckTypeOK'
    BY <1>8 DEF ackVars, AckTypeOK
  <2>2. ResendInv'
    BY <1>8 DEF ackVars, ResendInv, MostResendWait
  <2> QED BY <2>1, <2>2
<1> QED BY <1>1, <1>2, <1>3, <1>4, <1>5, <1>6, <1>7, <1>8 DEF AckNext

\* The state of the wait is well typed: a command that waits has a number, and
\* never more attempts than the policy allows.
THEOREM AckTypeCorrect == AckSpec => []AckTypeOK
<1>1. AckInit => AckTypeOK /\ ResendInv
  BY ResendInit
<1>2. AckTypeOK /\ ResendInv /\ [AckNext]_ackVars => AckTypeOK' /\ ResendInv'
  BY ResendStep
<1> QED BY <1>1, <1>2, PTL DEF AckSpec

\* Between two writes at most a silence and a resend delay pass, whatever the
\* mouse reports.
THEOREM ResendInvHolds == AckSpec => []ResendInv
<1>1. AckInit => AckTypeOK /\ ResendInv
  BY ResendInit
<1>2. AckTypeOK /\ ResendInv /\ [AckNext]_ackVars => AckTypeOK' /\ ResendInv'
  BY ResendStep
<1> QED BY <1>1, <1>2, PTL DEF AckSpec

LEMMA InvBoundsWait == AckTypeOK /\ ResendInv => WaitIsBounded
<1> SUFFICES ASSUME AckTypeOK, ResendInv, waiting
             PROVE  total <= (MaxAttempts - 1) * MostResendWait + ReadTimeout
  BY DEF WaitIsBounded
<1>1. attempts \in Nat /\ attempts >= 1 /\ attempts <= MaxAttempts /\ quiet <= ReadTimeout
      /\ total <= (attempts - 1) * MostResendWait + quiet
  BY DelaysAssumption DEF AckTypeOK, ResendInv
<1>2. (attempts - 1) * MostResendWait <= (MaxAttempts - 1) * MostResendWait
  BY <1>1, MostResendWaitType, FewerWaits, DelaysAssumption
<1>3. (attempts - 1) * MostResendWait \in Int /\ (MaxAttempts - 1) * MostResendWait \in Int
  BY <1>1, MostResendWaitType, DelaysAssumption
<1>4. total \in Nat /\ quiet \in Nat /\ ReadTimeout \in Nat
  BY DelaysAssumption DEF AckTypeOK
<1> QED BY <1>1, <1>2, <1>3, <1>4

\* The user waits no longer than the policy's delays add up to, for any delays
\* and any number of attempts: mouse motion does not stretch a command.
THEOREM WaitBoundHolds == AckSpec => []WaitIsBounded
<1>1. AckTypeOK /\ ResendInv => WaitIsBounded
  BY InvBoundsWait
<1> QED BY <1>1, AckTypeCorrect, ResendInvHolds, PTL

-----------------------------------------------------------------------------
(* One acknowledgement, one success                                          *)

\* The acknowledgements among some reports, and the commands that had success.
AcksIn(r) == {i \in 1..Len(r) : r[i] = "ack"}
Succeeded == {c \in Commands : outcome[c] = "ok"}

\* Each write the mouse took is owed, unread, or was spent on one success: an
\* acknowledgement is one of the three, and never two of them.
AnswersInv == Cardinality(Succeeded) + inflight + Cardinality(AcksIn(reports)) <= taken

LEMMA AcksFinite ==
    ASSUME NEW r \in Seq({"ack", "rejection"})
    PROVE  IsFiniteSet(AcksIn(r)) /\ Cardinality(AcksIn(r)) \in Nat
<1>1. IsFiniteSet(1..Len(r)) /\ AcksIn(r) \in SUBSET (1..Len(r))
  BY FS_Interval DEF AcksIn
<1> QED BY <1>1, FS_Subset, FS_CardinalityType

LEMMA NothingUnread == AcksIn(<<>>) = {} /\ Cardinality(AcksIn(<<>>)) = 0
<1>1. AcksIn(<<>>) = {}
  BY DEF AcksIn
<1> QED BY <1>1, FS_EmptySet

LEMMA SucceededFinite == IsFiniteSet(Succeeded) /\ Cardinality(Succeeded) \in Nat
<1>1. IsFiniteSet(Commands) /\ Succeeded \in SUBSET Commands
  BY FS_Interval, DelaysAssumption DEF Commands, Succeeded
<1> QED BY <1>1, FS_Subset, FS_CardinalityType

\* An acknowledgement that arrives is one more, a rejection is none.
LEMMA AckAppended ==
    ASSUME NEW r \in Seq({"ack", "rejection"})
    PROVE  /\ Cardinality(AcksIn(Append(r, "ack"))) = Cardinality(AcksIn(r)) + 1
           /\ AcksIn(Append(r, "rejection")) = AcksIn(r)
<1>1. AcksIn(Append(r, "ack")) = AcksIn(r) \cup {Len(r) + 1} /\ Len(r) + 1 \notin AcksIn(r)
  BY DEF AcksIn
<1>2. AcksIn(Append(r, "rejection")) = AcksIn(r)
  BY DEF AcksIn
<1>3. IsFiniteSet(AcksIn(r))
  BY AcksFinite
<1> QED BY <1>1, <1>2, <1>3, FS_AddElement

\* Reading a report leaves no more acknowledgements than there were.
LEMMA AcksLeft ==
    ASSUME NEW r \in Seq({"ack", "rejection"}), r # <<>>
    PROVE  Cardinality(AcksIn(Tail(r))) <= Cardinality(AcksIn(r))
<1> DEFINE f == [i \in AcksIn(Tail(r)) |-> i + 1]
<1>1. \A i \in AcksIn(Tail(r)) : i \in Nat /\ i + 1 \in AcksIn(r)
  BY DEF AcksIn
<1>2. f \in Injection(AcksIn(Tail(r)), AcksIn(r))
  BY <1>1 DEF Injection, IsInjective
<1>3. IsFiniteSet(AcksIn(r))
  BY AcksFinite
<1> QED BY <1>2, <1>3, FS_Injection

LEMMA AnswersInit == AckInit => AnswersInv
<1> SUFFICES ASSUME AckInit PROVE AnswersInv
  OBVIOUS
<1>1. Succeeded = {} /\ reports = <<>> /\ inflight = 0 /\ taken = 0
  BY DEF AckInit, Succeeded
<1>2. Cardinality(Succeeded) = 0
  BY <1>1, FS_EmptySet
<1> QED BY <1>1, <1>2, NothingUnread DEF AnswersInv

\* A command that returns spends at most the acknowledgement it read.
LEMMA ReturnAnswers ==
    ASSUME AckTypeOK, AnswersInv, NEW result \in {"ok", "failed"}, Return(result),
           result = "ok" => reports # <<>> /\ Head(reports) = "ack"
    PROVE  AnswersInv'
<1>1. reports' = <<>> /\ inflight' = inflight /\ taken' = taken
  BY DEF Return, Dropped, device
<1>2. Cardinality(AcksIn(reports')) = 0
  BY <1>1, NothingUnread
<1>3. Cardinality(Succeeded) \in Nat /\ IsFiniteSet(Succeeded) /\ Cardinality(AcksIn(reports)) \in Nat
      /\ inflight \in Nat /\ taken \in Nat
  BY SucceededFinite, AcksFinite DEF AckTypeOK
<1>4. CASE result = "failed"
  <2>1. Succeeded' \in SUBSET Succeeded
    BY <1>4 DEF Return, Succeeded, AckTypeOK
  <2>2. Cardinality(Succeeded') <= Cardinality(Succeeded) /\ Cardinality(Succeeded') \in Nat
    BY <1>3, <2>1, FS_Subset, FS_CardinalityType
  <2> QED BY <1>1, <1>2, <1>3, <2>2 DEF AnswersInv
<1>5. CASE result = "ok"
  <2>1. Succeeded' \in SUBSET (Succeeded \cup {command})
    BY <1>5 DEF Return, Succeeded, AckTypeOK
  <2>2. IsFiniteSet(Succeeded \cup {command}) /\ Cardinality(Succeeded \cup {command}) <= Cardinality(Succeeded) + 1
        /\ Cardinality(Succeeded \cup {command}) \in Nat
    <3> DEFINE S == Succeeded
    <3>1. IsFiniteSet(S) /\ Cardinality(S) \in Nat
      BY <1>3
    <3> HIDE DEF S
    <3>2. /\ IsFiniteSet(S \cup {command})
          /\ Cardinality(S \cup {command}) = IF command \in S THEN Cardinality(S) ELSE Cardinality(S) + 1
      BY <3>1, FS_AddElement
    <3>3. Cardinality(S \cup {command}) <= Cardinality(S) + 1 /\ Cardinality(S \cup {command}) \in Nat
      BY <3>1, <3>2
    <3> QED BY <3>2, <3>3 DEF S
  <2>3. Cardinality(Succeeded') <= Cardinality(Succeeded \cup {command}) /\ Cardinality(Succeeded') \in Nat
    BY <2>1, <2>2, FS_Subset, FS_CardinalityType
  <2>4. 1 \in AcksIn(reports) /\ IsFiniteSet(AcksIn(reports))
    BY <1>5, AcksFinite DEF AcksIn, AckTypeOK
  <2>5. Cardinality(AcksIn(reports)) >= 1
    BY <1>3, <2>4, FS_EmptySet
  <2> QED BY <1>1, <1>2, <1>3, <2>2, <2>3, <2>5 DEF AnswersInv
<1> QED BY <1>4, <1>5

LEMMA AnswersStep == AckTypeOK /\ AnswersInv /\ [AckNext]_ackVars => AnswersInv'
<1> SUFFICES ASSUME AckTypeOK, AnswersInv, [AckNext]_ackVars PROVE AnswersInv'
  OBVIOUS
<1>1. Cardinality(Succeeded) \in Nat /\ Cardinality(AcksIn(reports)) \in Nat /\ inflight \in Nat /\ taken \in Nat
      /\ reports \in Seq({"ack", "rejection"})
  BY SucceededFinite, AcksFinite DEF AckTypeOK
<1>2. CASE Begin \/ Resend
  <2>1. Write /\ UNCHANGED <<reports, outcome>>
    BY <1>2 DEF Begin, Resend
  <2>2. \/ inflight' = inflight /\ taken' = taken
        \/ inflight' = inflight + 1 /\ taken' = taken + 1
    BY <2>1 DEF Write, device
  <2>3. Succeeded' = Succeeded /\ reports' = reports
    BY <2>1 DEF Succeeded
  <2> QED BY <1>1, <2>2, <2>3 DEF AnswersInv
<1>3. CASE Deadline \/ Fail \/ ReadAck \/ (GiveUp /\ rejected)
  <2>1. \/ Return("failed")
        \/ Return("ok") /\ reports # <<>> /\ Head(reports) = "ack"
    BY <1>3 DEF Deadline, Fail, ReadAck, GiveUp
  <2> QED BY <2>1, ReturnAnswers
<1>4. CASE ReadRejection
  <2>1. reports' = Tail(reports) /\ reports # <<>> /\ inflight' = inflight /\ taken' = taken /\ outcome' = outcome
    BY <1>4 DEF ReadRejection, device
  <2>2. Cardinality(AcksIn(reports')) <= Cardinality(AcksIn(reports)) /\ Cardinality(AcksIn(reports')) \in Nat
    <3> DEFINE r == Tail(reports)
    <3>1. r \in Seq({"ack", "rejection"}) /\ Cardinality(AcksIn(r)) <= Cardinality(AcksIn(reports))
      BY <1>1, <2>1, AcksLeft
    <3> HIDE DEF r
    <3>2. Cardinality(AcksIn(r)) \in Nat
      BY <3>1, AcksFinite
    <3> QED BY <2>1, <3>1, <3>2 DEF r
  <2>3. Succeeded' = Succeeded
    BY <2>1 DEF Succeeded
  <2> QED BY <1>1, <2>1, <2>2, <2>3 DEF AnswersInv
<1>5. CASE AckArrives
  <2>1. inflight' = inflight - 1 /\ taken' = taken /\ outcome' = outcome
        /\ reports' \in {reports, Append(reports, "ack")}
    BY <1>5 DEF AckArrives, Reaching
  <2>2. Cardinality(AcksIn(reports')) <= Cardinality(AcksIn(reports)) + 1 /\ Cardinality(AcksIn(reports')) \in Nat
    <3>1. CASE reports' = reports
      BY <1>1, <3>1
    <3>2. CASE reports' = Append(reports, "ack")
      <4>1. Cardinality(AcksIn(Append(reports, "ack"))) = Cardinality(AcksIn(reports)) + 1
        BY <1>1, AckAppended
      <4> QED BY <1>1, <3>2, <4>1
    <3> QED BY <2>1, <3>1, <3>2
  <2>3. Succeeded' = Succeeded
    BY <2>1 DEF Succeeded
  <2> QED BY <1>1, <2>1, <2>2, <2>3 DEF AnswersInv
<1>6. CASE Motion
  <2>1. inflight' = inflight /\ taken' = taken /\ outcome' = outcome
        /\ reports' \in {reports, Append(reports, "rejection")}
    BY <1>6 DEF Motion, Reaching
  <2>2. AcksIn(reports') = AcksIn(reports)
    BY <1>1, <2>1, AckAppended
  <2>3. Succeeded' = Succeeded
    BY <2>1 DEF Succeeded
  <2> QED BY <2>1, <2>2, <2>3 DEF AnswersInv
<1>7. CASE Tick \/ (GiveUp /\ ~rejected) \/ UNCHANGED ackVars
  <2>1. UNCHANGED <<reports, outcome, taken, inflight>>
    BY <1>7 DEF Tick, GiveUp, ackVars, device
  <2> QED BY <2>1 DEF AnswersInv, Succeeded
<1> QED BY <1>2, <1>3, <1>4, <1>5, <1>6, <1>7 DEF AckNext

\* Counted per kind of report, as the protocol does, an acknowledgement that comes
\* late still confirms one command at most: a node that is opened per command
\* drops what the last one did not read.
THEOREM AcknowledgedOnce == AckSpec => []AcksNotShared
<1>1. AckTypeOK /\ AnswersInv => AcksNotShared
  <2> SUFFICES ASSUME AckTypeOK, AnswersInv PROVE AcksNotShared
    OBVIOUS
  <2>1. Cardinality(Succeeded) \in Nat /\ Cardinality(AcksIn(reports)) \in Nat /\ inflight \in Nat /\ taken \in Nat
    BY SucceededFinite, AcksFinite DEF AckTypeOK
  <2>2. Cardinality(Succeeded) + inflight <= taken
    BY <2>1 DEF AnswersInv
  <2> QED BY <2>2 DEF AcksNotShared, Succeeded
<1> QED BY <1>1, AckTypeCorrect, AnswersInit, AnswersStep, PTL DEF AckSpec
=============================================================================
