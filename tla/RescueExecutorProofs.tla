------------------------ MODULE RescueExecutorProofs ------------------------
(***************************************************************************)
(* Proofs about the source leg for any plans, users, chains, amounts, fees *)
(* and bounds: however a rescue ends, also by a revert in its middle, its  *)
(* lock, its status and its tokens are accounted for, the escrow it uses   *)
(* stays sound, and to everybody else it happens at once or not at all.    *)
(***************************************************************************)
EXTENDS RescueExecutor, RescueEscrowProofs

\* What the next-state relation does, apart from the escrow's own transactions.
LEMMA ExecutorStepCases ==
  ASSUME [ExecutorNext]_allVars
  PROVE  \/ UNCHANGED allVars
         \/ Configure
         \/ \E c \in Callers, p \in Plans : BeginRescue(c, p)
         \/ SkipStep
         \/ \E w \in Amounts : w \in Withdrawals(CurrentStep, tx.plan.mode) /\ ApplyStep(w)
         \/ \E w \in Amounts : EscrowStepFunds(w)
         \/ \E w \in Amounts, fee \in Fees : SendStep(w, fee)
         \/ FinishRescue
         \/ RevertRescue
         \/ \E c \in Callers, p \in Plans : \E i \in DOMAIN p.steps, w \in Amounts :
                SameChainLeg(c, p, p.steps[i], w)
         \/ \E c \in Callers, p \in Plans, ch \in Chains, a \in Amounts, fee \in Fees :
                InitiateCrossChainLeg(c, p, ch, a, fee)
         \/ \E a \in 1..executorBalance : ExecutorEmergencyWithdraw(a)
         \/ ReceiveNative
         \/ EscrowOnly
         \/ \E id \in EscrowIds : SettleRecord(id)
<1>1. Callers \ {ReportReceiver} \subseteq Callers
  OBVIOUS
<1>2. QED
  BY <1>1 DEF ExecutorNext, RescueStepNext

-----------------------------------------------------------------------------
(* Types *)

OwnTypeOK ==
    /\ authorizedWorkflows \subseteq {Workflow, ReportReceiver}
    /\ authorizedWriters \subseteq {Executor, EscrowContract}
    /\ trustedDestinationChains \subseteq Chains
    /\ chainReceivers \subseteq Chains
    /\ ccipRouter \in BOOLEAN
    /\ rescueInProgress \subseteq Users
    /\ rescueStatus \in [ExecIds -> RescueStatus]
    /\ ccipMessageIds \in [ExecIds -> Nat]
    /\ processedExecIds \subseteq ExecIds
    /\ logEntries \in [ExecIds -> Seq(LogEntry)]
    /\ sentMessages \in Seq(SentMessage)
    /\ tx \in Transaction
    /\ {executorBalance, nativeBalance, withdrawn, applied, executorSwept} \subseteq Nat
    /\ {legs, funded, changes} \subseteq Nat

\* What a revert restores is typed as well.
SavedTypeOK ==
    ~Idle =>
        /\ saved.escrows \in [EscrowIds -> EscrowRecord]
        /\ saved.userEscrows \in [Users -> Seq(EscrowIds)]
        /\ saved.held \in Nat
        /\ saved.rescueInProgress \subseteq Users
        /\ saved.rescueStatus \in [ExecIds -> RescueStatus]
        /\ saved.logEntries \in [ExecIds -> Seq(LogEntry)]
        /\ {saved.executorBalance, saved.withdrawn, saved.applied, saved.nativeBalance} \subseteq Nat
        /\ saved.sentMessages \in Seq(SentMessage)
        /\ saved.ccipMessageIds \in [ExecIds -> Nat]

ClockOK == now \in 0..MaxTime

TypeInv == EscrowTypeOK /\ OwnTypeOK /\ SavedTypeOK /\ ClockOK

LEMMA PlanFacts ==
  ASSUME NEW p \in Plans
  PROVE  /\ p.execId \in ExecIds /\ p.user \in Users /\ p.mode \in Modes
         /\ p.steps \in Seq(Steps) /\ p.deadline \in Nat /\ p # NoPlan
         /\ \A i \in DOMAIN p.steps : p.steps[i] \in PlanSteps /\ p.steps[i] \in Steps
<1>1. p \in RescuePlan /\ p # NoPlan
  BY PlansAssumption
<1>2. p.steps \in Seq(Steps)
  BY <1>1 DEF RescuePlan
<1>3. \A i \in DOMAIN p.steps : p.steps[i] \in PlanSteps /\ p.steps[i] \in Steps
  BY <1>2 DEF PlanSteps
<1>4. QED
  BY <1>1, <1>2, <1>3 DEF RescuePlan

LEMMA RunningPlan ==
  ASSUME OwnTypeOK, ~Idle
  PROVE  tx.plan \in Plans /\ tx.next \in Nat \ {0} /\ tx.succeeded \in BOOLEAN /\ tx.caller \in Callers
BY DEF OwnTypeOK, Transaction, Idle

LEMMA ReadyStep ==
  ASSUME OwnTypeOK, StepReady
  PROVE  /\ tx.plan \in Plans /\ CurrentStep \in PlanSteps /\ CurrentStep \in Steps /\ ~Idle
<1>1. tx.plan \in Plans /\ tx.next \in Nat \ {0} /\ tx.next <= Len(tx.plan.steps)
  BY RunningPlan DEF StepReady
<1>2. tx.plan.steps \in Seq(Steps)
  BY <1>1, PlanFacts
<1>3. tx.next \in DOMAIN tx.plan.steps
  BY <1>1, <1>2
<1>4. QED
  BY <1>1, <1>3, PlanFacts DEF CurrentStep, StepReady

LEMMA IdKnown ==
  ASSUME ClockOK, NEW e \in ExecIds, NEW s \in PlanSteps
  PROVE  EscrowIdOf(e, s.stepIndex, now) \in EscrowIds
BY EscrowIdsOfSteps DEF ClockOK

\* Falling back to the escrow is a deposit it allows, or leaves it alone.
LEMMA FallbackDeposits ==
  ASSUME OwnTypeOK, ClockOK, NEW e \in ExecIds, NEW s \in PlanSteps, NEW u \in Users,
         NEW w \in Amounts, EscrowFunds(e, s.stepIndex, u, w)
  PROVE  [EscrowNext]_escrowVars /\ executorBalance' \in Nat
<1>1. w \in Nat /\ executorBalance \in Nat
  BY AmountsPositive DEF OwnTypeOK
<1>2. EscrowIdOf(e, s.stepIndex, now) \in EscrowIds /\ Executor \in Depositors
  BY IdKnown, ExecutorActors
<1>3. QED
  BY <1>1, <1>2 DEF EscrowFunds, EscrowNext

\* Except for a revert, every step is one of the escrow or leaves it alone.
LEMMA ExecutorStepsEscrow ==
  ASSUME OwnTypeOK, ClockOK, [ExecutorNext]_allVars, ~RevertRescue
  PROVE  [EscrowNext]_escrowVars
<1>1. ASSUME NEW w \in Amounts, EscrowStepFunds(w)
      PROVE  [EscrowNext]_escrowVars
  <2>1. tx.plan \in Plans /\ CurrentStep \in PlanSteps
    BY <1>1, ReadyStep DEF EscrowStepFunds
  <2>2. QED
    BY <1>1, <2>1, PlanFacts, FallbackDeposits DEF EscrowStepFunds
<1>2. ASSUME NEW c, NEW p \in Plans, NEW i \in DOMAIN p.steps, NEW w \in Amounts,
             SameChainLeg(c, p, p.steps[i], w)
      PROVE  [EscrowNext]_escrowVars
  BY <1>2, PlanFacts, FallbackDeposits DEF SameChainLeg
<1>3. CASE EscrowOnly
  BY <1>3, ExecutorActors DEF EscrowOnly, EscrowNext
<1>4. ASSUME NEW id \in EscrowIds, SettleRecord(id)
      PROVE  [EscrowNext]_escrowVars
  BY <1>4, ExecutorActors DEF SettleRecord, EscrowNext
<1>5. CASE UNCHANGED escrowVars
  BY <1>5
<1>6. QED
  BY <1>1, <1>2, <1>3, <1>4, <1>5, ExecutorStepCases
     DEF Configure, BeginRescue, SkipStep, ApplyStep, SendStep, FinishRescue,
         InitiateCrossChainLeg, ExecutorEmergencyWithdraw, ReceiveNative, allVars

LEMMA ClockStep ==
  ASSUME ClockOK, [EscrowNext]_escrowVars
  PROVE  ClockOK'
<1>1. now' = now \/ Tick
  BY DEF EscrowNext, escrowVars, SetAuthorizedDepositor, DepositFailedTransfer,
         ClaimEscrow, RetryTransfer, EmergencyWithdraw, ReceiveStray
<1>2. QED
  BY <1>1, EscrowBounds DEF Tick, ClockOK
-----------------------------------------------------------------------------
(* The log and the messages as sequences. *)

LEMMA EntryTyped ==
  /\ \A what \in LogKinds : Entry(what) \in LogEntry
  /\ \A x : EscrowEntries(x) \in Seq(LogEntry)
<1>1. \A what \in LogKinds : Entry(what) \in LogEntry
  BY DEF Entry, LogEntry
<1>2. Entry("EscrowEvent") \in LogEntry
  BY <1>1 DEF LogKinds
<1>3. QED
  BY <1>1, <1>2 DEF EscrowEntries

LEMMA EntriesTyped ==
  ASSUME NEW e \in ExecIds, NEW n
  PROVE  /\ \A what \in LogKinds : Entry(what) \in LogEntry
         /\ \A m \in Nat : SentEntry(m) \in LogEntry
         /\ EscrowFundsEntries(e, n) \in Seq(LogEntry)
         /\ \A x : EscrowEntries(x) \in Seq(LogEntry)
<1>1. \A what \in LogKinds : Entry(what) \in LogEntry
  BY DEF Entry, LogEntry
<1>2. \A m \in Nat : SentEntry(m) \in LogEntry
  BY DEF SentEntry, LogEntry, LogKinds
<1>3. Entry("EscrowEvent") \in LogEntry /\ Entry("Escrowed") \in LogEntry
  BY <1>1 DEF LogKinds
<1>4. \A x : EscrowEntries(x) \in Seq(LogEntry)
  BY <1>3 DEF EscrowEntries
<1>5. EscrowedEntries(e) \in Seq(LogEntry)
  BY <1>3 DEF EscrowedEntries
<1>6. EscrowFundsEntries(e, n) \in Seq(LogEntry)
  BY <1>4, <1>5 DEF EscrowFundsEntries
<1>7. QED
  BY <1>1, <1>2, <1>4, <1>6

\* The escrow's and the executor's entries about escrowed funds are only written
\* to a log that has begun.
LEMMA NoEntriesUnlogged ==
  ASSUME NEW e, NEW n, ~HasEntries(e)
  PROVE  EscrowFundsEntries(e, n) = <<>> /\ EscrowEntries(e) = <<>>
BY DEF EscrowFundsEntries, EscrowEntries, EscrowedEntries

LEMMA EntriesAdded ==
  ASSUME logEntries \in [ExecIds -> Seq(LogEntry)], NEW e, NEW s \in Seq(LogEntry),
         AddEntries(e, s)
  PROVE  /\ logEntries' \in [ExecIds -> Seq(LogEntry)]
         /\ \A x \in ExecIds : x # e => logEntries'[x] = logEntries[x]
         /\ e \in ExecIds => logEntries'[e] = logEntries[e] \o s
         /\ \A x \in ExecIds : HasEntries(x) => HasEntries(x)'
         /\ e \in ExecIds /\ s # <<>> => HasEntries(e)'
         /\ s = <<>> => logEntries' = logEntries
<1>1. \A x \in ExecIds : logEntries'[x] = IF x = e THEN logEntries[x] \o s ELSE logEntries[x]
  BY DEF AddEntries
<1>2. \A t \in Seq(LogEntry) : /\ t \o s \in Seq(LogEntry)
                               /\ (t # <<>> \/ s # <<>>) => t \o s # <<>>
                               /\ s = <<>> => t \o s = t
  OBVIOUS
<1>3. logEntries' \in [ExecIds -> Seq(LogEntry)]
  BY <1>2 DEF AddEntries
<1>4. QED
  BY <1>1, <1>2, <1>3 DEF HasEntries

LEMMA StepLogged ==
  ASSUME logEntries \in [ExecIds -> Seq(LogEntry)], tx.plan.execId \in ExecIds,
         NEW s \in Seq(LogEntry), NEW ok \in BOOLEAN, LogStep(s, ok)
  PROVE  /\ logEntries' \in [ExecIds -> Seq(LogEntry)]
         /\ \A x \in ExecIds : x # tx.plan.execId => logEntries'[x] = logEntries[x]
         /\ \A x \in ExecIds : HasEntries(x) => HasEntries(x)'
<1> DEFINE o == Entry(IF ok THEN "StepCompleted" ELSE "StepFailed")
           all == <<Entry("Started")>> \o s \o <<o>>
<1>1. Entry("Started") \in LogEntry /\ o \in LogEntry
  BY EntriesTyped DEF LogKinds
<1>2. all \in Seq(LogEntry)
  BY <1>1
<1>3. AddEntries(tx.plan.execId, all)
  BY DEF LogStep
<1> HIDE DEF all
<1>4. QED
  BY <1>2, <1>3, EntriesAdded

LEMMA MessageSent ==
  ASSUME sentMessages \in Seq(SentMessage), ccipMessageIds \in [ExecIds -> Nat],
         nativeBalance \in Nat, NEW ch, NEW e \in ExecIds, NEW u \in Users,
         NEW a \in Nat, NEW fee \in Fees, SendCCIPMessage(ch, e, u, a, fee)
  PROVE  /\ sentMessages' \in Seq(SentMessage)
         /\ Len(sentMessages') \in Nat /\ SentEntry(Len(sentMessages')) \in LogEntry
         /\ ccipMessageIds' \in [ExecIds -> Nat] /\ nativeBalance' \in Nat
<1> DEFINE new == [execId |-> e, user |-> u, amount |-> a]
<1>1. new \in SentMessage
  BY DEF SentMessage
<1>2. sentMessages' = Append(sentMessages, new)
  BY DEF SendCCIPMessage
<1>3. sentMessages' \in Seq(SentMessage) /\ Len(sentMessages') \in Nat
  BY <1>1, <1>2
<1>4. ccipMessageIds' \in [ExecIds -> Nat]
  BY <1>3 DEF SendCCIPMessage
<1>5. nativeBalance' \in Nat
  BY ExecutorBounds DEF SendCCIPMessage, CanSend
<1>6. QED
  BY <1>3, <1>4, <1>5, EntriesTyped

\* A step advances the running rescue and leaves the rest of it alone.
Advanced ==
    /\ tx' \in Transaction /\ ~Idle' /\ saved' = saved
    /\ tx'.plan = tx.plan /\ tx'.caller = tx.caller
    /\ UNCHANGED <<configVars, statusVars, processedExecIds, executorSwept, boundVars>>

LEMMA StepDoneTyped ==
  ASSUME OwnTypeOK, ~Idle, NEW ok \in BOOLEAN, StepDone(ok)
  PROVE  Advanced
<1>1. /\ tx.next \in Nat \ {0} /\ tx.succeeded \in BOOLEAN /\ tx \in Transaction
  BY DEF OwnTypeOK, Transaction
<1>2. tx' = [tx EXCEPT !.next = tx.next + 1, !.succeeded = tx.succeeded \/ ok]
  BY DEF StepDone
<1>3. tx.next + 1 \in Nat \ {0} /\ (tx.succeeded \/ ok) \in BOOLEAN
  BY <1>1
<1>4. /\ tx' \in Transaction
      /\ tx'.plan = tx.plan /\ tx'.caller = tx.caller
  BY <1>1, <1>2, <1>3 DEF Transaction
<1>5. QED
  BY <1>4 DEF StepDone, Idle, Advanced

-----------------------------------------------------------------------------
(* The type invariant, action by action. *)

LEMMA StepTypes ==
  ASSUME OwnTypeOK, SavedTypeOK, ClockOK, RescueStepNext
  PROVE  OwnTypeOK' /\ SavedTypeOK'
<1>1. /\ StepReady /\ tx.plan \in Plans /\ ~Idle
      /\ tx.plan.execId \in ExecIds /\ tx.plan.user \in Users /\ CurrentStep \in PlanSteps
  <2>1. StepReady
    BY DEF RescueStepNext, SkipStep
  <2>2. QED
    BY <2>1, ReadyStep, PlanFacts
<1>2. \A w \in Amounts : w \in Nat
  BY AmountsPositive
<1>3. ASSUME Advanced, logEntries' \in [ExecIds -> Seq(LogEntry)],
             sentMessages' \in Seq(SentMessage), ccipMessageIds' \in [ExecIds -> Nat],
             nativeBalance' \in Nat, executorBalance' \in Nat, withdrawn' \in Nat, applied' \in Nat
      PROVE  OwnTypeOK' /\ SavedTypeOK'
  <2>1. OwnTypeOK'
    BY <1>3 DEF OwnTypeOK, Advanced, configVars, statusVars, boundVars
  <2>2. SavedTypeOK'
    BY <1>1, <1>3 DEF SavedTypeOK, Advanced
  <2>3. QED
    BY <2>1, <2>2
<1>4. /\ logEntries \in [ExecIds -> Seq(LogEntry)] /\ sentMessages \in Seq(SentMessage)
      /\ ccipMessageIds \in [ExecIds -> Nat] /\ nativeBalance \in Nat /\ executorBalance \in Nat
      /\ withdrawn \in Nat /\ applied \in Nat
  BY DEF OwnTypeOK
<1>5. TRUE \in BOOLEAN /\ FALSE \in BOOLEAN /\ <<>> \in Seq(LogEntry)
  OBVIOUS
<1>6. CASE SkipStep
  <2>1. LogStep(<<>>, FALSE) /\ StepDone(FALSE)
    BY <1>6, Zenon DEF SkipStep
  <2>2. Advanced /\ logEntries' \in [ExecIds -> Seq(LogEntry)]
    BY <1>1, <1>4, <1>5, <2>1, StepDoneTyped, StepLogged, Zenon
  <2>3. QED
    BY <1>3, <1>4, <1>6, <2>2 DEF SkipStep, tokenVars, sendVars
<1>7. ASSUME NEW w \in Amounts, ApplyStep(w)
      PROVE  OwnTypeOK' /\ SavedTypeOK'
  <2>1. LogStep(<<>>, TRUE) /\ StepDone(TRUE)
    BY <1>7, Zenon DEF ApplyStep
  <2>2. Advanced /\ logEntries' \in [ExecIds -> Seq(LogEntry)]
    BY <1>1, <1>4, <1>5, <2>1, StepDoneTyped, StepLogged, Zenon
  <2>3. QED
    BY <1>2, <1>3, <1>4, <1>7, <2>2 DEF ApplyStep, sendVars
<1>8. ASSUME NEW w \in Amounts, EscrowStepFunds(w)
      PROVE  OwnTypeOK' /\ SavedTypeOK'
  <2> DEFINE entries == EscrowFundsEntries(tx.plan.execId, CurrentStep.stepIndex)
  <2>1. LogStep(entries, FALSE) /\ StepDone(FALSE)
    BY <1>8, Zenon DEF EscrowStepFunds
  <2>2. entries \in Seq(LogEntry)
    BY <1>1, EntriesTyped
  <2>3. Advanced /\ logEntries' \in [ExecIds -> Seq(LogEntry)]
    BY <1>1, <1>4, <1>5, <2>1, <2>2, StepDoneTyped, StepLogged, Zenon
  <2>4. executorBalance' \in Nat
    BY <1>1, <1>8, FallbackDeposits DEF EscrowStepFunds
  <2>5. QED
    BY <1>2, <1>3, <1>4, <1>8, <2>3, <2>4 DEF EscrowStepFunds, sendVars
<1>9. ASSUME NEW w \in Amounts, NEW fee \in Fees, SendStep(w, fee)
      PROVE  OwnTypeOK' /\ SavedTypeOK'
  <2> DEFINE entries == <<SentEntry(Len(sentMessages'))>>
  <2>1. /\ sentMessages' \in Seq(SentMessage) /\ SentEntry(Len(sentMessages')) \in LogEntry
        /\ ccipMessageIds' \in [ExecIds -> Nat] /\ nativeBalance' \in Nat
    BY <1>1, <1>2, <1>4, <1>9, MessageSent DEF SendStep
  <2>2. entries \in Seq(LogEntry)
    BY <2>1
  <2>3. LogStep(entries, TRUE) /\ StepDone(TRUE)
    BY <1>9, Zenon DEF SendStep
  <2> HIDE DEF entries
  <2>4. Advanced /\ logEntries' \in [ExecIds -> Seq(LogEntry)]
    BY <1>1, <1>4, <1>5, <2>2, <2>3, StepDoneTyped, StepLogged, Zenon
  <2>5. QED
    BY <1>2, <1>3, <1>4, <1>9, <2>1, <2>4 DEF SendStep
<1>10. QED
  BY <1>6, <1>7, <1>8, <1>9 DEF RescueStepNext
LEMMA BeginTypes ==
  ASSUME EscrowTypeOK, OwnTypeOK, NEW c \in Callers, NEW p \in Plans, BeginRescue(c, p)
  PROVE  OwnTypeOK' /\ SavedTypeOK'
<1>1. /\ p.execId \in ExecIds /\ p.user \in Users /\ p # NoPlan
  BY PlanFacts
<1>2. <<Entry("Initiated")>> \in Seq(LogEntry)
  BY <1>1, EntriesTyped DEF LogKinds
<1>3. logEntries' \in [ExecIds -> Seq(LogEntry)]
  BY <1>2, EntriesAdded DEF BeginRescue, OwnTypeOK
<1>4. tx' \in Transaction /\ ~Idle'
  BY <1>1 DEF BeginRescue, Transaction, Idle
<1>5. rescueInProgress' \subseteq Users /\ rescueStatus' \in [ExecIds -> RescueStatus]
  BY <1>1 DEF BeginRescue, OwnTypeOK, RescueStatus
<1>6. OwnTypeOK'
  BY <1>3, <1>4, <1>5 DEF BeginRescue, OwnTypeOK, configVars, tokenVars, sendVars, boundVars
<1>7. SavedTypeOK'
  <2>1. saved' = Snapshot
    BY DEF BeginRescue
  <2>2. QED
    BY <2>1 DEF SavedTypeOK, Snapshot, EscrowTypeOK, OwnTypeOK
<1>8. QED
  BY <1>6, <1>7

LEMMA NoTxTyped ==
  ASSUME tx' = NoTx
  PROVE  tx' \in Transaction /\ Idle'
<1>1. NoTx \in Transaction
  BY DEF NoTx, Transaction, Callers
<1>2. QED
  BY <1>1 DEF NoTx, Idle

LEMMA FinishTypes ==
  ASSUME OwnTypeOK, FinishRescue
  PROVE  OwnTypeOK' /\ SavedTypeOK'
<1> DEFINE outcome == IF tx.succeeded THEN "Completed" ELSE "Failed"
<1>1. tx.plan \in Plans /\ tx.plan.execId \in ExecIds
  BY RunningPlan, PlanFacts DEF FinishRescue
<1>2. <<Entry(outcome)>> \in Seq(LogEntry)
  <2>1. outcome \in LogKinds
    BY DEF LogKinds
  <2>2. Entry(outcome) \in LogEntry
    BY <2>1, EntryTyped
  <2> HIDE DEF outcome
  <2>3. QED
    BY <2>2
<1>3. /\ AddEntries(tx.plan.execId, <<Entry(outcome)>>)
      /\ rescueStatus' = [rescueStatus EXCEPT ![tx.plan.execId] = outcome]
      /\ rescueInProgress' = rescueInProgress \ {tx.plan.user}
      /\ processedExecIds' \subseteq processedExecIds \cup {tx.plan.execId}
      /\ tx' = NoTx
      /\ UNCHANGED <<configVars, tokenVars, sendVars, executorSwept, boundVars>>
  BY DEF FinishRescue
<1>4. logEntries' \in [ExecIds -> Seq(LogEntry)]
  BY <1>2, <1>3, EntriesAdded DEF OwnTypeOK
<1>5. rescueStatus' \in [ExecIds -> RescueStatus]
  BY <1>3 DEF OwnTypeOK, RescueStatus
<1>6. tx' \in Transaction /\ Idle'
  BY <1>3, NoTxTyped
<1>7. OwnTypeOK'
  BY <1>1, <1>3, <1>4, <1>5, <1>6 DEF OwnTypeOK, configVars, tokenVars, sendVars, boundVars
<1>8. QED
  BY <1>6, <1>7 DEF SavedTypeOK

\* A revert restores what was typed when the rescue began.
LEMMA RevertTypes ==
  ASSUME EscrowTypeOK, OwnTypeOK, SavedTypeOK, RevertRescue
  PROVE  EscrowTypeOK' /\ OwnTypeOK' /\ SavedTypeOK'
<1>1. tx' \in Transaction /\ Idle'
  BY NoTxTyped DEF RevertRescue
<1>2. EscrowTypeOK'
  BY DEF RevertRescue, EscrowTypeOK, SavedTypeOK
<1>3. OwnTypeOK'
  BY <1>1 DEF RevertRescue, OwnTypeOK, SavedTypeOK, configVars, boundVars
<1>4. QED
  BY <1>1, <1>2, <1>3 DEF SavedTypeOK

LEMMA LegTypes ==
  ASSUME OwnTypeOK, SavedTypeOK, ClockOK, NEW c \in Callers, NEW p \in Plans,
         \/ \E i \in DOMAIN p.steps, w \in Amounts : SameChainLeg(c, p, p.steps[i], w)
         \/ \E ch \in Chains, a \in Amounts, fee \in Fees : InitiateCrossChainLeg(c, p, ch, a, fee)
  PROVE  OwnTypeOK' /\ SavedTypeOK'
<1>1. p.execId \in ExecIds /\ p.user \in Users
  BY PlanFacts
<1>2. \A w \in Amounts : w \in Nat
  BY AmountsPositive
<1>3. ASSUME NEW i \in DOMAIN p.steps, NEW w \in Amounts, SameChainLeg(c, p, p.steps[i], w)
      PROVE  OwnTypeOK' /\ SavedTypeOK'
  <2>1. logEntries' \in [ExecIds -> Seq(LogEntry)]
    <3>1. CASE AddEntries(p.execId, EscrowFundsEntries(p.execId, p.steps[i].stepIndex))
      BY <1>1, <3>1, EntriesTyped, EntriesAdded DEF OwnTypeOK
    <3>2. CASE UNCHANGED logEntries
      BY <3>2 DEF OwnTypeOK
    <3>3. QED
      BY <1>3, <3>1, <3>2 DEF SameChainLeg
  <2>2. executorBalance' \in Nat
    <3>1. CASE EscrowFunds(p.execId, p.steps[i].stepIndex, p.user, w)
      BY <1>1, <3>1, PlanFacts, FallbackDeposits
    <3>2. CASE UNCHANGED executorBalance
      BY <3>2 DEF OwnTypeOK
    <3>3. QED
      BY <1>3, <3>1, <3>2 DEF SameChainLeg
  <2>3. withdrawn' \in Nat /\ applied' \in Nat /\ legs' \in Nat
    <3>1. w \in Nat /\ withdrawn \in Nat /\ applied \in Nat /\ legs \in Nat
      BY <1>2 DEF OwnTypeOK
    <3>2. withdrawn' = withdrawn + w /\ (applied' = applied + w \/ applied' = applied) /\ legs' = legs + 1
      BY <1>3 DEF SameChainLeg, CountLeg
    <3>3. QED
      BY <3>1, <3>2
  <2>4. UNCHANGED <<configVars, statusVars, processedExecIds, sendVars, txVars, executorSwept, funded, changes>>
    BY <1>3 DEF SameChainLeg
  <2>5. OwnTypeOK'
    BY <2>1, <2>2, <2>3, <2>4 DEF OwnTypeOK, configVars, statusVars, sendVars, txVars
  <2>6. SavedTypeOK'
    BY <2>4 DEF SavedTypeOK, Idle, txVars
  <2>7. QED
    BY <2>5, <2>6
<1>4. ASSUME NEW ch \in Chains, NEW a \in Amounts, NEW fee \in Fees,
             InitiateCrossChainLeg(c, p, ch, a, fee)
      PROVE  OwnTypeOK' /\ SavedTypeOK'
  <2>1. /\ sentMessages' \in Seq(SentMessage) /\ SentEntry(Len(sentMessages')) \in LogEntry
        /\ ccipMessageIds' \in [ExecIds -> Nat] /\ nativeBalance' \in Nat
    BY <1>1, <1>2, <1>4, MessageSent DEF InitiateCrossChainLeg, OwnTypeOK
  <2>2. <<SentEntry(Len(sentMessages'))>> \in Seq(LogEntry)
    BY <2>1
  <2>3. logEntries' \in [ExecIds -> Seq(LogEntry)]
    BY <1>4, <2>2, EntriesAdded DEF InitiateCrossChainLeg, OwnTypeOK
  <2>4. executorBalance' \in Nat /\ legs' \in Nat
    BY <1>2, <1>4 DEF InitiateCrossChainLeg, CountLeg, OwnTypeOK
  <2>5. UNCHANGED <<configVars, statusVars, processedExecIds, withdrawn, applied,
                    txVars, executorSwept, funded, changes>>
    BY <1>4 DEF InitiateCrossChainLeg
  <2>6. OwnTypeOK'
    BY <2>1, <2>3, <2>4, <2>5 DEF OwnTypeOK, configVars, statusVars, txVars
  <2>7. SavedTypeOK'
    BY <2>5 DEF SavedTypeOK, Idle, txVars
  <2>8. QED
    BY <2>6, <2>7
<1>5. QED
  BY <1>3, <1>4

\* The executor's remaining transactions, none of which runs within a rescue.
LEMMA OtherTypes ==
  ASSUME OwnTypeOK, SavedTypeOK,
         \/ Configure
         \/ \E a \in 1..executorBalance : ExecutorEmergencyWithdraw(a)
         \/ ReceiveNative
         \/ EscrowOnly
         \/ \E id \in EscrowIds : SettleRecord(id)
         \/ UNCHANGED allVars
  PROVE  OwnTypeOK' /\ SavedTypeOK'
<1> USE DEF OwnTypeOK
<1>1. UNCHANGED txVars
  BY DEF Configure, ExecutorEmergencyWithdraw, ReceiveNative, EscrowOnly, SettleRecord,
         allVars, executorVars
<1>2. SavedTypeOK'
  BY <1>1 DEF SavedTypeOK, Idle, txVars
<1>3. CASE Configure
  <2>1. authorizedWorkflows' \subseteq {Workflow, ReportReceiver}
    BY <1>3 DEF Configure, Toggle
  <2>2. authorizedWriters' \subseteq {Executor, EscrowContract}
    BY <1>3 DEF Configure, Toggle
  <2>3. trustedDestinationChains' \subseteq Chains
    BY <1>3 DEF Configure, Toggle
  <2>4. chainReceivers' \subseteq Chains
    BY <1>3 DEF Configure, Toggle
  <2>5. ccipRouter' \in BOOLEAN
    BY <1>3 DEF Configure
  <2>6. changes' \in Nat
    BY <1>3 DEF Configure
  <2>7. UNCHANGED <<statusVars, processedExecIds, logEntries, tokenVars, sendVars,
                    txVars, executorSwept, legs, funded>>
    BY <1>3 DEF Configure
  <2>8. UNCHANGED <<rescueInProgress, rescueStatus, ccipMessageIds, processedExecIds, logEntries,
                    sentMessages, tx, executorBalance, nativeBalance, withdrawn, applied,
                    executorSwept, legs, funded>>
    BY <2>7 DEF statusVars, tokenVars, sendVars, txVars
  <2>9. QED
    BY <1>2, <2>1, <2>2, <2>3, <2>4, <2>5, <2>6, <2>8
<1>4. ASSUME NEW a \in 1..executorBalance, ExecutorEmergencyWithdraw(a)
      PROVE  OwnTypeOK'
  BY <1>4, SMTT(30) DEF ExecutorEmergencyWithdraw, configVars, statusVars, sendVars, txVars, boundVars
<1>5. CASE ReceiveNative
  <2>1. nativeBalance' \in Nat /\ funded' \in Nat
    BY <1>5 DEF ReceiveNative
  <2>2. UNCHANGED <<authorizedWorkflows, authorizedWriters, trustedDestinationChains,
                    chainReceivers, ccipRouter, rescueInProgress, rescueStatus, ccipMessageIds,
                    processedExecIds, logEntries, sentMessages, tx, executorBalance, withdrawn,
                    applied, executorSwept, legs, changes>>
    BY <1>5 DEF ReceiveNative, configVars, statusVars, tokenVars, txVars
  <2>3. QED
    BY <1>2, <2>1, <2>2
<1>6. CASE UNCHANGED executorVars
  <2>1. UNCHANGED <<authorizedWorkflows, authorizedWriters, trustedDestinationChains,
                    chainReceivers, ccipRouter, rescueInProgress, rescueStatus, ccipMessageIds,
                    processedExecIds, logEntries, sentMessages, tx, executorBalance,
                    nativeBalance, withdrawn, applied, executorSwept, legs, funded, changes>>
    BY <1>6 DEF executorVars, configVars, statusVars, tokenVars, sendVars, txVars, boundVars
  <2>2. QED
    BY <1>2, <2>1
<1>7. ASSUME NEW id \in EscrowIds, SettleRecord(id)
      PROVE  OwnTypeOK'
  <2>1. EscrowEntries(id[1]) \in Seq(LogEntry)
    BY EntryTyped
  <2>2. AddEntries(id[1], EscrowEntries(id[1]))
    BY <1>7 DEF SettleRecord
  <2>3. logEntries' \in [ExecIds -> Seq(LogEntry)]
    BY <2>1, <2>2, EntriesAdded
  <2>4. QED
    BY <1>7, <2>3 DEF SettleRecord, configVars, statusVars, tokenVars, sendVars, txVars, boundVars
<1>8. QED
  BY <1>2, <1>3, <1>4, <1>5, <1>6, <1>7 DEF EscrowOnly, allVars

LEMMA TypeInductive == ExecutorSpec => []TypeInv
<1>1. ExecutorInit => TypeInv
  <2> SUFFICES ASSUME ExecutorInit PROVE TypeInv
    OBVIOUS
  <2>1. EscrowTypeOK /\ ClockOK
    BY EscrowBounds, NoUserIsNobody
       DEF ExecutorInit, EscrowInit, EscrowTypeOK, EmptyRecord, EscrowRecord, EscrowStatus, ClockOK
  <2>2. tx \in Transaction /\ Idle
    BY DEF ExecutorInit, NoTx, Transaction, Callers, Idle
  <2>3. OwnTypeOK
    BY <2>2 DEF ExecutorInit, OwnTypeOK, RescueStatus
  <2>4. QED
    BY <2>1, <2>2, <2>3 DEF TypeInv, SavedTypeOK
<1>2. TypeInv /\ [ExecutorNext]_allVars => TypeInv'
  <2> SUFFICES ASSUME TypeInv, [ExecutorNext]_allVars PROVE TypeInv'
    OBVIOUS
  <2>1. EscrowTypeOK /\ OwnTypeOK /\ SavedTypeOK /\ ClockOK
    BY DEF TypeInv
  <2>2. CASE RevertRescue
    <3>1. ClockOK'
      BY <2>1, <2>2 DEF RevertRescue, ClockOK
    <3>2. QED
      BY <2>1, <2>2, <3>1, RevertTypes DEF TypeInv
  <2>3. CASE ~RevertRescue
    <3>1. EscrowTypeOK' /\ ClockOK'
      BY <2>1, <2>3, ExecutorStepsEscrow, EscrowTypeStep, ClockStep
    <3>2. OwnTypeOK' /\ SavedTypeOK'
      <4>1. CASE RescueStepNext
        BY <2>1, <4>1, StepTypes
      <4>2. ASSUME NEW c \in Callers, NEW p \in Plans, BeginRescue(c, p)
            PROVE  OwnTypeOK' /\ SavedTypeOK'
        BY <2>1, <4>2, BeginTypes
      <4>3. CASE FinishRescue
        BY <2>1, <4>3, FinishTypes
      <4>4. ASSUME NEW c \in Callers, NEW p \in Plans,
                   \/ \E i \in DOMAIN p.steps, w \in Amounts : SameChainLeg(c, p, p.steps[i], w)
                   \/ \E ch \in Chains, a \in Amounts, fee \in Fees :
                          InitiateCrossChainLeg(c, p, ch, a, fee)
            PROVE  OwnTypeOK' /\ SavedTypeOK'
        BY <2>1, <4>4, LegTypes
      <4>5. CASE \/ Configure
                 \/ \E a \in 1..executorBalance : ExecutorEmergencyWithdraw(a)
                 \/ ReceiveNative
                 \/ EscrowOnly
                 \/ \E id \in EscrowIds : SettleRecord(id)
                 \/ UNCHANGED allVars
        BY <2>1, <4>5, OtherTypes
      <4>6. QED
        BY <2>3, <4>1, <4>2, <4>3, <4>4, <4>5 DEF ExecutorNext
    <3>3. QED
      BY <3>1, <3>2 DEF TypeInv
  <2>4. QED
    BY <2>2, <2>3
<1>3. QED
  BY <1>1, <1>2, PTL DEF ExecutorSpec

\* The type invariant of the source leg.
THEOREM ExecutorTypeCorrect == ExecutorSpec => []ExecutorTypeOK
<1>1. TypeInv => ExecutorTypeOK
  BY DEF TypeInv, OwnTypeOK, ExecutorTypeOK
<1>2. QED
  BY <1>1, TypeInductive, PTL
-----------------------------------------------------------------------------
(* Locks and statuses. *)

\* An execution has a status exactly when it has a log.
StatusLogged == \A e \in ExecIds : rescueStatus[e] = "None" <=> ~HasEntries(e)

\* What a revert restores is a state between two transactions.
SavedControl ==
    ~Idle =>
        /\ saved.rescueInProgress = {}
        /\ \A e \in ExecIds : saved.rescueStatus[e] # "InProgress"
        /\ \A e \in ExecIds : saved.rescueStatus[e] = "None" <=> saved.logEntries[e] = <<>>
        /\ \A e \in processedExecIds : saved.rescueStatus[e] = "Completed"

ControlInv == StatusLogged /\ SavedControl /\ NoStuckLocks /\ SettledForGood

\* A step that keeps the statuses and begins no log keeps the invariant.
LEMMA ControlKept ==
  ASSUME ControlInv, UNCHANGED <<statusVars, processedExecIds, saved>>,
         Idle' <=> Idle, tx'.plan = tx.plan,
         \A x \in ExecIds : HasEntries(x)' <=> HasEntries(x)
  PROVE  ControlInv'
<1>1. StatusLogged'
  BY DEF ControlInv, StatusLogged, statusVars
<1>2. SavedControl'
  BY DEF ControlInv, SavedControl, statusVars
<1>3. NoStuckLocks'
  BY DEF ControlInv, NoStuckLocks, statusVars
<1>4. SettledForGood'
  BY DEF ControlInv, SettledForGood, statusVars
<1>5. QED
  BY <1>1, <1>2, <1>3, <1>4 DEF ControlInv

\* Entries that are only written to a log that has begun begin none.
LEMMA LogsKept ==
  ASSUME logEntries \in [ExecIds -> Seq(LogEntry)], NEW e, NEW s \in Seq(LogEntry),
         AddEntries(e, s), ~HasEntries(e) => s = <<>>
  PROVE  \A x \in ExecIds : HasEntries(x)' <=> HasEntries(x)
<1>1. CASE HasEntries(e)
  BY <1>1, EntriesAdded DEF HasEntries
<1>2. CASE s = <<>>
  BY <1>2, EntriesAdded DEF HasEntries
<1>3. QED
  BY <1>1, <1>2

LEMMA BeginControl ==
  ASSUME TypeInv, ControlInv, NEW c \in Callers, NEW p \in Plans, BeginRescue(c, p)
  PROVE  ControlInv'
<1> USE DEF TypeInv
<1>1. /\ p.execId \in ExecIds /\ p # NoPlan /\ Idle /\ ~HasEntries(p.execId)
      /\ tx'.plan = p /\ ~Idle' /\ processedExecIds' = processedExecIds
      /\ (c = ReportReceiver => p.execId \notin processedExecIds)
  BY PlanFacts DEF BeginRescue, MayBegin, Idle
<1>2. /\ rescueInProgress' = rescueInProgress \cup {p.user}
      /\ rescueStatus' = [rescueStatus EXCEPT ![p.execId] = "InProgress"]
      /\ saved'.rescueInProgress = rescueInProgress
      /\ saved'.rescueStatus = rescueStatus
      /\ saved'.logEntries = logEntries
  BY DEF BeginRescue, Snapshot
<1>3. /\ rescueInProgress = {}
      /\ \A e \in ExecIds : rescueStatus[e] # "InProgress"
      /\ rescueStatus[p.execId] = "None"
  BY <1>1 DEF ControlInv, NoStuckLocks, StatusLogged
<1>4. /\ \A x \in ExecIds : x # p.execId => (HasEntries(x)' <=> HasEntries(x))
      /\ HasEntries(p.execId)'
  <2>1. AddEntries(p.execId, <<Entry("Initiated")>>)
    BY DEF BeginRescue
  <2>2. <<Entry("Initiated")>> \in Seq(LogEntry) /\ <<Entry("Initiated")>> # <<>>
    BY EntryTyped DEF LogKinds
  <2>3. QED
    BY <1>1, <2>1, <2>2, EntriesAdded DEF OwnTypeOK, HasEntries
<1>5. \A e \in ExecIds : rescueStatus'[e] = IF e = p.execId THEN "InProgress" ELSE rescueStatus[e]
  BY <1>2 DEF OwnTypeOK
<1>6. StatusLogged'
  BY <1>1, <1>4, <1>5 DEF ControlInv, StatusLogged
<1>7. SavedControl'
  BY <1>1, <1>2, <1>3 DEF ControlInv, SavedControl, StatusLogged, HasEntries, SettledForGood
<1>8. NoStuckLocks'
  BY <1>1, <1>2, <1>3, <1>5 DEF NoStuckLocks
<1>9. SettledForGood'
  <2>1. processedExecIds \subseteq ExecIds
    BY DEF OwnTypeOK
  <2>2. QED
    BY <1>1, <1>3, <1>5, <2>1 DEF ControlInv, SettledForGood
<1>10. QED
  BY <1>6, <1>7, <1>8, <1>9 DEF ControlInv

LEMMA FinishControl ==
  ASSUME TypeInv, ControlInv, FinishRescue
  PROVE  ControlInv'
<1> DEFINE outcome == IF tx.succeeded THEN "Completed" ELSE "Failed"
<1>0. PICK e0 \in ExecIds : e0 = tx.plan.execId
  BY RunningPlan, PlanFacts DEF TypeInv, FinishRescue
<1>1. /\ ~Idle /\ Idle'
      /\ rescueInProgress = {tx.plan.user} /\ rescueStatus[e0] = "InProgress"
  BY <1>0, NoTxTyped
     DEF TypeInv, FinishRescue, ControlInv, NoStuckLocks
<1>2. /\ AddEntries(e0, <<Entry(outcome)>>)
      /\ rescueStatus' = [rescueStatus EXCEPT ![e0] = outcome]
      /\ rescueInProgress' = {}
  BY <1>0, <1>1 DEF FinishRescue
<1>3. \/ processedExecIds' = processedExecIds
      \/ processedExecIds' = processedExecIds \cup {e0} /\ outcome = "Completed"
  BY <1>0 DEF FinishRescue
<1>4. /\ \A x \in ExecIds : x # e0 => (HasEntries(x)' <=> HasEntries(x))
      /\ HasEntries(e0)'
  <2>1. outcome \in LogKinds
    BY DEF LogKinds
  <2>2. <<Entry(outcome)>> \in Seq(LogEntry) /\ <<Entry(outcome)>> # <<>>
    BY <2>1, EntryTyped
  <2> HIDE DEF outcome
  <2>3. QED
    BY <1>1, <1>2, <2>2, EntriesAdded DEF TypeInv, OwnTypeOK, HasEntries
<1>5. /\ \A e \in ExecIds : rescueStatus'[e] = IF e = e0 THEN outcome ELSE rescueStatus[e]
      /\ outcome \in {"Completed", "Failed"}
  BY <1>2 DEF TypeInv, OwnTypeOK
<1>6. processedExecIds \subseteq ExecIds
  BY DEF TypeInv, OwnTypeOK
<1>7. \A e \in ExecIds : e # e0 => rescueStatus[e] # "InProgress"
  BY <1>0, <1>1 DEF ControlInv, NoStuckLocks
<1> HIDE DEF outcome
<1>8. StatusLogged'
  BY <1>4, <1>5 DEF ControlInv, StatusLogged
<1>9. NoStuckLocks'
  BY <1>1, <1>2, <1>5, <1>7 DEF NoStuckLocks
<1>10. SettledForGood'
  BY <1>1, <1>3, <1>5, <1>6 DEF ControlInv, SettledForGood
<1>11. QED
  BY <1>1, <1>8, <1>9, <1>10 DEF ControlInv, SavedControl

LEMMA RevertControl ==
  ASSUME TypeInv, ControlInv, RevertRescue
  PROVE  ControlInv'
<1>1. ~Idle /\ Idle' /\ processedExecIds' = processedExecIds
  BY NoTxTyped DEF RevertRescue
<1>2. /\ rescueInProgress' = saved.rescueInProgress /\ rescueStatus' = saved.rescueStatus
      /\ logEntries' = saved.logEntries
  BY DEF RevertRescue
<1>3. StatusLogged' /\ NoStuckLocks' /\ SettledForGood'
  BY <1>1, <1>2
     DEF ControlInv, SavedControl, StatusLogged, HasEntries, NoStuckLocks, SettledForGood
<1>4. QED
  BY <1>1, <1>3 DEF ControlInv, SavedControl

LEMMA StepControl ==
  ASSUME TypeInv, ControlInv, RescueStepNext
  PROVE  ControlInv'
<1>1. /\ ~Idle /\ tx.plan.execId \in ExecIds
      /\ logEntries \in [ExecIds -> Seq(LogEntry)] /\ OwnTypeOK
  <2>1. StepReady
    BY DEF RescueStepNext, SkipStep
  <2>2. QED
    BY <2>1, ReadyStep, PlanFacts DEF TypeInv, OwnTypeOK
<1>2. HasEntries(tx.plan.execId)
  BY <1>1 DEF ControlInv, NoStuckLocks, StatusLogged
<1>3. ASSUME NEW s \in Seq(LogEntry), NEW ok \in BOOLEAN, LogStep(s, ok), StepDone(ok)
      PROVE  ControlInv'
  <2>1. Advanced
    BY <1>1, <1>3, StepDoneTyped, Zenon
  <2>2. \A x \in ExecIds : /\ x # tx.plan.execId => logEntries'[x] = logEntries[x]
                           /\ HasEntries(x) => HasEntries(x)'
    BY <1>1, <1>3, StepLogged, Zenon
  <2>3. \A x \in ExecIds : HasEntries(x)' <=> HasEntries(x)
    BY <1>2, <2>2 DEF HasEntries
  <2>4. QED
    BY <1>1, <2>1, <2>3, ControlKept DEF Advanced
<1>4. TRUE \in BOOLEAN /\ FALSE \in BOOLEAN /\ <<>> \in Seq(LogEntry)
  OBVIOUS
<1>5. CASE SkipStep
  BY <1>3, <1>4, <1>5, Zenon DEF SkipStep
<1>6. ASSUME NEW w \in Amounts, ApplyStep(w)
      PROVE  ControlInv'
  BY <1>3, <1>4, <1>6, Zenon DEF ApplyStep
<1>7. ASSUME NEW w \in Amounts, EscrowStepFunds(w)
      PROVE  ControlInv'
  <2>1. EscrowFundsEntries(tx.plan.execId, CurrentStep.stepIndex) \in Seq(LogEntry)
    BY <1>1, EntriesTyped
  <2>2. QED
    BY <1>3, <1>4, <1>7, <2>1, Zenon DEF EscrowStepFunds
<1>8. ASSUME NEW w \in Amounts, NEW fee \in Fees, SendStep(w, fee)
      PROVE  ControlInv'
  <2>1. /\ tx.plan.user \in Users /\ w \in Nat
    BY <1>1, RunningPlan, PlanFacts, AmountsPositive
  <2>2. SentEntry(Len(sentMessages')) \in LogEntry
    BY <1>1, <1>8, <2>1, MessageSent DEF SendStep, OwnTypeOK
  <2>3. <<SentEntry(Len(sentMessages'))>> \in Seq(LogEntry)
    BY <2>2
  <2>4. QED
    BY <1>3, <1>4, <1>8, <2>3, Zenon DEF SendStep
<1>9. QED
  BY <1>5, <1>6, <1>7, <1>8 DEF RescueStepNext

LEMMA LegControl ==
  ASSUME TypeInv, ControlInv, NEW c \in Callers, NEW p \in Plans,
         \/ \E i \in DOMAIN p.steps, w \in Amounts : SameChainLeg(c, p, p.steps[i], w)
         \/ \E ch \in Chains, a \in Amounts, fee \in Fees : InitiateCrossChainLeg(c, p, ch, a, fee)
  PROVE  ControlInv'
<1>1. /\ p.execId \in ExecIds /\ p.user \in Users /\ OwnTypeOK
      /\ logEntries \in [ExecIds -> Seq(LogEntry)]
  BY PlanFacts DEF TypeInv, OwnTypeOK
<1>2. ASSUME UNCHANGED <<statusVars, processedExecIds, txVars>>,
             \A x \in ExecIds : HasEntries(x)' <=> HasEntries(x)
      PROVE  ControlInv'
  <2>1. saved' = saved /\ tx' = tx /\ (Idle' <=> Idle)
    BY <1>2 DEF txVars, Idle
  <2>2. QED
    BY <1>2, <2>1, ControlKept
<1>3. ASSUME NEW i \in DOMAIN p.steps, NEW w \in Amounts, SameChainLeg(c, p, p.steps[i], w)
      PROVE  ControlInv'
  <2> DEFINE s == EscrowFundsEntries(p.execId, p.steps[i].stepIndex)
  <2>1. s \in Seq(LogEntry) /\ (~HasEntries(p.execId) => s = <<>>)
    BY <1>1, EntriesTyped, NoEntriesUnlogged
  <2>2. AddEntries(p.execId, s) \/ UNCHANGED logEntries
    BY <1>3 DEF SameChainLeg
  <2> HIDE DEF s
  <2>3. \A x \in ExecIds : HasEntries(x)' <=> HasEntries(x)
    <3>1. CASE AddEntries(p.execId, s)
      BY <1>1, <2>1, <3>1, LogsKept
    <3>2. CASE UNCHANGED logEntries
      BY <3>2 DEF HasEntries
    <3>3. QED
      BY <2>2, <3>1, <3>2
  <2>4. UNCHANGED <<statusVars, processedExecIds, txVars>>
    BY <1>3 DEF SameChainLeg
  <2>5. QED
    BY <1>2, <2>3, <2>4
<1>4. ASSUME NEW ch \in Chains, NEW a \in Amounts, NEW fee \in Fees,
             InitiateCrossChainLeg(c, p, ch, a, fee)
      PROVE  ControlInv'
  <2> DEFINE s == <<SentEntry(Len(sentMessages'))>>
  <2>1. a \in Nat
    BY AmountsPositive
  <2>2. SentEntry(Len(sentMessages')) \in LogEntry
    BY <1>1, <1>4, <2>1, MessageSent DEF InitiateCrossChainLeg, OwnTypeOK
  <2>3. s \in Seq(LogEntry)
    BY <2>2
  <2>4. AddEntries(p.execId, s) /\ HasEntries(p.execId)
    BY <1>4 DEF InitiateCrossChainLeg
  <2> HIDE DEF s
  <2>5. \A x \in ExecIds : HasEntries(x)' <=> HasEntries(x)
    BY <1>1, <2>3, <2>4, LogsKept
  <2>6. UNCHANGED <<statusVars, processedExecIds, txVars>>
    BY <1>4 DEF InitiateCrossChainLeg
  <2>7. QED
    BY <1>2, <2>5, <2>6
<1>5. QED
  BY <1>3, <1>4

LEMMA OtherControl ==
  ASSUME TypeInv, ControlInv,
         \/ Configure
         \/ \E a \in 1..executorBalance : ExecutorEmergencyWithdraw(a)
         \/ ReceiveNative
         \/ EscrowOnly
         \/ \E id \in EscrowIds : SettleRecord(id)
         \/ UNCHANGED allVars
  PROVE  ControlInv'
<1>1. UNCHANGED <<statusVars, processedExecIds, txVars>>
  BY DEF Configure, ExecutorEmergencyWithdraw, ReceiveNative, EscrowOnly, SettleRecord,
         allVars, executorVars
<1>2. \A x \in ExecIds : HasEntries(x)' <=> HasEntries(x)
  <2>1. CASE UNCHANGED logEntries
    BY <2>1 DEF HasEntries
  <2>2. ASSUME NEW id \in EscrowIds, SettleRecord(id)
        PROVE  \A x \in ExecIds : HasEntries(x)' <=> HasEntries(x)
    <3> DEFINE s == EscrowEntries(id[1])
    <3>1. s \in Seq(LogEntry) /\ (~HasEntries(id[1]) => s = <<>>)
      BY EntryTyped, NoEntriesUnlogged
    <3>2. AddEntries(id[1], s)
      BY <2>2 DEF SettleRecord
    <3> HIDE DEF s
    <3>3. QED
      BY <3>1, <3>2, LogsKept DEF TypeInv, OwnTypeOK
  <2>3. QED
    BY <2>1, <2>2
       DEF Configure, ExecutorEmergencyWithdraw, ReceiveNative, EscrowOnly, allVars, executorVars
<1>3. saved' = saved /\ tx' = tx /\ (Idle' <=> Idle)
  BY <1>1 DEF txVars, Idle
<1>4. QED
  BY <1>1, <1>2, <1>3, ControlKept

LEMMA ControlInductive == ExecutorSpec => []ControlInv
<1>1. ExecutorInit => ControlInv
  BY DEF ExecutorInit, NoTx, ControlInv, StatusLogged, HasEntries, SavedControl, NoStuckLocks,
         SettledForGood, Idle
<1>2. TypeInv /\ ControlInv /\ [ExecutorNext]_allVars => ControlInv'
  <2> SUFFICES ASSUME TypeInv, ControlInv, [ExecutorNext]_allVars PROVE ControlInv'
    OBVIOUS
  <2>1. CASE RescueStepNext
    BY <2>1, StepControl
  <2>2. ASSUME NEW c \in Callers, NEW p \in Plans, BeginRescue(c, p)
        PROVE  ControlInv'
    BY <2>2, BeginControl
  <2>3. CASE FinishRescue
    BY <2>3, FinishControl
  <2>4. CASE RevertRescue
    BY <2>4, RevertControl
  <2>5. ASSUME NEW c \in Callers, NEW p \in Plans,
               \/ \E i \in DOMAIN p.steps, w \in Amounts : SameChainLeg(c, p, p.steps[i], w)
               \/ \E ch \in Chains, a \in Amounts, fee \in Fees :
                      InitiateCrossChainLeg(c, p, ch, a, fee)
        PROVE  ControlInv'
    BY <2>5, LegControl
  <2>6. CASE \/ Configure
             \/ \E a \in 1..executorBalance : ExecutorEmergencyWithdraw(a)
             \/ ReceiveNative
             \/ EscrowOnly
             \/ \E id \in EscrowIds : SettleRecord(id)
             \/ UNCHANGED allVars
    BY <2>6, OtherControl
  <2>7. QED
    BY <2>1, <2>2, <2>3, <2>4, <2>5, <2>6 DEF ExecutorNext
<1>3. QED
  BY <1>1, <1>2, TypeInductive, PTL DEF ExecutorSpec

\* However a rescue ends, its user's lock is released, and nothing stays in
\* progress; within one, only its own user is locked.
THEOREM ExecutorReleasesLocks == ExecutorSpec => []NoStuckLocks
<1>1. ControlInv => NoStuckLocks
  BY DEF ControlInv
<1>2. QED
  BY <1>1, ControlInductive, PTL

\* A settled execution is never run again, and a used-up report is one whose
\* rescue completed.
THEOREM ExecutorSettlesOnce == ExecutorSpec => []SettledForGood
<1>1. ControlInv => SettledForGood
  BY DEF ControlInv
<1>2. QED
  BY <1>1, ControlInductive, PTL
-----------------------------------------------------------------------------
(* The token ledger. *)

SentTotal(msgs) == Total(DOMAIN msgs, [k \in DOMAIN msgs |-> msgs[k].amount])

OpenTotal(esc) ==
    Total({id \in EscrowIds : esc[id].status # "None"}, [id \in EscrowIds |-> esc[id].amount])

Balanced(w, a, msgs, esc, balance, out) ==
    w = a + SentTotal(msgs) + OpenTotal(esc) + balance + out

\* The ledger holds now, and would hold after a revert: the owner's sweeps are
\* not part of a rescue.
LedgerInv ==
    /\ Balanced(withdrawn, applied, sentMessages, escrows, executorBalance, executorSwept)
    /\ ~Idle => Balanced(saved.withdrawn, saved.applied, saved.sentMessages, saved.escrows,
                         saved.executorBalance, executorSwept)

LEMMA SentAmounts ==
  ASSUME NEW msgs \in Seq(SentMessage)
  PROVE  /\ IsFiniteSet(DOMAIN msgs) /\ \A k \in DOMAIN msgs : msgs[k].amount \in Nat
         /\ SentTotal(msgs) \in Nat
<1>1. Len(msgs) \in Nat /\ DOMAIN msgs = 1..Len(msgs)
  OBVIOUS
<1>2. IsFiniteSet(DOMAIN msgs)
  BY <1>1, FS_Interval
<1>3. \A k \in DOMAIN msgs : msgs[k].amount \in Nat
  <2>1. \A k \in DOMAIN msgs : msgs[k] \in SentMessage
    OBVIOUS
  <2>2. QED
    BY <2>1 DEF SentMessage
<1>4. QED
  <2> DEFINE D == DOMAIN msgs
             f == [k \in D |-> msgs[k].amount]
  <2>1. \A k \in D : f[k] \in Nat
    BY <1>3
  <2> HIDE DEF D, f
  <2>2. IsFiniteSet(D) => Total(D, f) \in Nat
    BY <2>1, TotalType
  <2>3. QED
    BY <1>2, <1>3, <2>2 DEF SentTotal, D, f

\* Sending a message adds its amount to what was sent.
LEMMA SentAdds ==
  ASSUME NEW msgs \in Seq(SentMessage), NEW m \in SentMessage
  PROVE  SentTotal(Append(msgs, m)) = SentTotal(msgs) + m.amount
<1> DEFINE more == Append(msgs, m)
           n == Len(msgs) + 1
           D == DOMAIN msgs
           f == [k \in DOMAIN msgs |-> msgs[k].amount]
           g == [k \in DOMAIN more |-> more[k].amount]
<1>1. /\ DOMAIN more = D \cup {n} /\ n \notin D /\ more[n] = m
      /\ \A k \in D : more[k] = msgs[k]
  <2>1. /\ Len(msgs) \in Nat /\ D = 1..Len(msgs)
    OBVIOUS
  <2>2. /\ Len(more) = n /\ DOMAIN more = 1..n /\ more[n] = m
        /\ \A k \in 1..Len(msgs) : more[k] = msgs[k]
    BY <2>1
  <2>3. 1..n = (1..Len(msgs)) \cup {n} /\ n \notin 1..Len(msgs)
    BY <2>1
  <2> HIDE DEF more, n, D
  <2>4. QED
    BY <2>1, <2>2, <2>3
<1>2. g[n] = m.amount /\ \A k \in D : g[k] = f[k]
  BY <1>1
<1>3. IsFiniteSet(D) /\ \A k \in D : f[k] \in Nat
  BY SentAmounts
<1>4. m.amount \in Nat
  BY DEF SentMessage
<1>5. SentTotal(more) = Total(D \cup {n}, g) /\ SentTotal(msgs) = Total(D, f)
  BY <1>1 DEF SentTotal
<1> HIDE DEF D, f, g, n, more
<1>6. Total(D \cup {n}, g) = Total(D, g) + g[n]
  <2>1. \A k \in D \cup {n} : g[k] \in Nat
    BY <1>2, <1>3, <1>4
  <2>2. QED
    BY <1>1, <1>3, <2>1, TotalAdd
<1>7. Total(D, g) = Total(D, f)
  BY <1>2, TotalSame
<1>8. QED
  BY <1>2, <1>5, <1>6, <1>7 DEF more

LEMMA OpenAmounts ==
  ASSUME NEW esc \in [EscrowIds -> EscrowRecord]
  PROVE  /\ IsFiniteSet({id \in EscrowIds : esc[id].status # "None"})
         /\ \A id \in EscrowIds : esc[id].amount \in Nat
         /\ OpenTotal(esc) \in Nat
<1> DEFINE S == {id \in EscrowIds : esc[id].status # "None"}
           f == [id \in EscrowIds |-> esc[id].amount]
<1>1. IsFiniteSet(S)
  BY EscrowIdsFinite, FS_Subset
<1>2. \A id \in EscrowIds : esc[id].amount \in Nat
  BY DEF EscrowRecord
<1>3. \A id \in S : f[id] \in Nat
  BY <1>2
<1>4. OpenTotal(esc) = Total(S, f)
  BY DEF OpenTotal
<1>5. Total(S, f) \in Nat
  <2> HIDE DEF S, f
  <2> QED BY <1>1, <1>3, TotalType
<1>6. QED
  BY <1>1, <1>2, <1>4, <1>5

\* Opening a record adds its amount to what was escrowed.
LEMMA OpenAdds ==
  ASSUME NEW esc \in [EscrowIds -> EscrowRecord], NEW id \in EscrowIds,
         NEW new, NEW a \in Nat,
         esc[id].status = "None", new[id].status # "None", new[id].amount = a,
         \A i \in EscrowIds \ {id} : new[i] = esc[i]
  PROVE  OpenTotal(new) = OpenTotal(esc) + a
<1> DEFINE S == {i \in EscrowIds : esc[i].status # "None"}
           T == {i \in EscrowIds : new[i].status # "None"}
           f == [i \in EscrowIds |-> esc[i].amount]
           g == [i \in EscrowIds |-> new[i].amount]
<1>1. T = S \cup {id} /\ id \notin S
  OBVIOUS
<1>2. g[id] = a /\ \A i \in S : g[i] = f[i]
  OBVIOUS
<1>3. IsFiniteSet(S) /\ \A i \in S : f[i] \in Nat
  BY OpenAmounts
<1>4. OpenTotal(new) = Total(T, g) /\ OpenTotal(esc) = Total(S, f)
  BY DEF OpenTotal
<1> HIDE DEF S, T, f, g
<1>5. Total(S \cup {id}, g) = Total(S, g) + g[id]
  <2>1. \A i \in S \cup {id} : g[i] \in Nat
    BY <1>2, <1>3
  <2>2. QED
    BY <1>1, <1>3, <2>1, TotalAdd
<1>6. Total(S, g) = Total(S, f)
  BY <1>2, TotalSame
<1>7. QED
  BY <1>1, <1>2, <1>4, <1>5, <1>6

\* Settling a record does not take it out of what was escrowed.
LEMMA OpenSettled ==
  ASSUME NEW esc, NEW new,
         \A i \in EscrowIds : /\ new[i].status = "None" <=> esc[i].status = "None"
                              /\ new[i].amount = esc[i].amount
  PROVE  OpenTotal(new) = OpenTotal(esc)
<1>1. {i \in EscrowIds : new[i].status # "None"} = {i \in EscrowIds : esc[i].status # "None"}
  OBVIOUS
<1>2. [i \in EscrowIds |-> new[i].amount] = [i \in EscrowIds |-> esc[i].amount]
  OBVIOUS
<1>3. QED
  BY <1>1, <1>2 DEF OpenTotal

\* What falls back lands in a record or in the executor.
LEMMA FallbackKeepsFunds ==
  ASSUME TypeInv, NEW e \in ExecIds, NEW s \in PlanSteps, NEW u \in Users,
         NEW w \in Amounts, EscrowFunds(e, s.stepIndex, u, w)
  PROVE  /\ OpenTotal(escrows) \in Nat /\ OpenTotal(escrows') \in Nat
         /\ executorBalance \in Nat /\ executorBalance' \in Nat
         /\ OpenTotal(escrows') + executorBalance' = OpenTotal(escrows) + executorBalance + w
<1> DEFINE id == EscrowIdOf(e, s.stepIndex, now)
<1>1. /\ escrows \in [EscrowIds -> EscrowRecord] /\ executorBalance \in Nat
      /\ id \in EscrowIds /\ w \in Nat /\ OpenTotal(escrows) \in Nat
  BY IdKnown, AmountsPositive, OpenAmounts DEF TypeInv, EscrowTypeOK, OwnTypeOK
<1> HIDE DEF id
<1>2. CASE DepositFailedTransfer(Executor, id, u, w) /\ UNCHANGED executorBalance
  <2>1. escrows[id].status = "None" /\ escrows' = [escrows EXCEPT ![id] = PendingRecord(u, w)]
    BY <1>2 DEF DepositFailedTransfer, DepositAllowed
  <2>2. OpenTotal(escrows') = OpenTotal(escrows) + w
    <3>1. /\ escrows'[id].status # "None" /\ escrows'[id].amount = w
          /\ \A i \in EscrowIds \ {id} : escrows'[i] = escrows[i]
      BY <1>1, <2>1 DEF PendingRecord
    <3> DEFINE before == escrows
               after == escrows'
    <3>2. /\ before \in [EscrowIds -> EscrowRecord] /\ id \in EscrowIds /\ w \in Nat
          /\ before[id].status = "None" /\ after[id].status # "None" /\ after[id].amount = w
          /\ \A i \in EscrowIds \ {id} : after[i] = before[i]
      BY <1>1, <2>1, <3>1
    <3> HIDE DEF before, after
    <3>3. OpenTotal(after) = OpenTotal(before) + w
      BY <3>2, OpenAdds
    <3>4. QED
      BY <3>3 DEF before, after
  <2>3. QED
    BY <1>1, <1>2, <2>2
<1>3. CASE UNCHANGED escrowVars /\ executorBalance' = executorBalance + w
  <2>1. escrows' = escrows
    BY <1>3 DEF escrowVars
  <2>2. QED
    BY <1>1, <1>3, <2>1
<1>4. QED
  BY <1>2, <1>3 DEF EscrowFunds, id

\* What a message carries leaves with it.
LEMMA SendKeepsFunds ==
  ASSUME TypeInv, NEW ch, NEW e \in ExecIds, NEW u \in Users, NEW a \in Nat, NEW fee,
         SendCCIPMessage(ch, e, u, a, fee)
  PROVE  SentTotal(sentMessages') = SentTotal(sentMessages) + a
<1> DEFINE m == [execId |-> e, user |-> u, amount |-> a]
<1>1. m \in SentMessage /\ m.amount = a /\ sentMessages \in Seq(SentMessage)
  BY DEF SentMessage, TypeInv, OwnTypeOK
<1>2. sentMessages' = Append(sentMessages, m)
  BY DEF SendCCIPMessage
<1> HIDE DEF m
<1>3. QED
  BY <1>1, <1>2, SentAdds
LEMMA LedgerTypes ==
  ASSUME TypeInv
  PROVE  /\ withdrawn \in Nat /\ applied \in Nat /\ executorBalance \in Nat /\ executorSwept \in Nat
         /\ SentTotal(sentMessages) \in Nat /\ OpenTotal(escrows) \in Nat
BY SentAmounts, OpenAmounts DEF TypeInv, OwnTypeOK, EscrowTypeOK

\* A step that keeps the ledger, and what a revert would restore, keeps the
\* invariant.
LEMMA LedgerKept ==
  ASSUME LedgerInv, UNCHANGED <<saved, executorSwept>>, Idle' <=> Idle,
         Balanced(withdrawn', applied', sentMessages', escrows', executorBalance', executorSwept)
  PROVE  LedgerInv'
BY DEF LedgerInv, Balanced

LEMMA StepLedger ==
  ASSUME TypeInv, LedgerInv, RescueStepNext
  PROVE  LedgerInv'
<1>1. /\ StepReady /\ ~Idle /\ OwnTypeOK /\ CurrentStep \in PlanSteps
      /\ tx.plan.execId \in ExecIds /\ tx.plan.user \in Users
  <2>1. StepReady
    BY DEF RescueStepNext, SkipStep
  <2>2. QED
    BY <2>1, ReadyStep, PlanFacts DEF TypeInv
<1>2. /\ TRUE \in BOOLEAN /\ FALSE \in BOOLEAN /\ \A w \in Amounts : w \in Nat
  BY AmountsPositive
<1>3. ASSUME NEW ok \in BOOLEAN, StepDone(ok)
      PROVE  UNCHANGED <<saved, executorSwept>> /\ ~Idle'
  <2>1. Advanced
    BY <1>1, <1>3, StepDoneTyped, Zenon
  <2>2. QED
    BY <2>1 DEF Advanced
<1>4. Balanced(withdrawn, applied, sentMessages, escrows, executorBalance, executorSwept)
  BY DEF LedgerInv
<1>5. CASE SkipStep
  <2>1. UNCHANGED <<saved, executorSwept>> /\ ~Idle'
    BY <1>2, <1>3, <1>5, Zenon DEF SkipStep
  <2>2. UNCHANGED <<withdrawn, applied, sentMessages, escrows, executorBalance>>
    BY <1>5 DEF SkipStep, escrowVars, tokenVars, sendVars
  <2>3. QED
    BY <1>1, <1>4, <2>1, <2>2, LedgerKept
<1>6. ASSUME NEW w \in Amounts, ApplyStep(w)
      PROVE  LedgerInv'
  <2>1. UNCHANGED <<saved, executorSwept>> /\ ~Idle'
    BY <1>2, <1>3, <1>6, Zenon DEF ApplyStep
  <2>2. /\ withdrawn' = withdrawn + w /\ applied' = applied + w
        /\ UNCHANGED <<sentMessages, escrows, executorBalance>>
    BY <1>6 DEF ApplyStep, escrowVars, sendVars
  <2>3. Balanced(withdrawn', applied', sentMessages', escrows', executorBalance', executorSwept)
    BY <1>2, <1>4, <2>2, LedgerTypes DEF Balanced
  <2>4. QED
    BY <1>1, <2>1, <2>3, LedgerKept
<1>7. ASSUME NEW w \in Amounts, EscrowStepFunds(w)
      PROVE  LedgerInv'
  <2>1. UNCHANGED <<saved, executorSwept>> /\ ~Idle'
    BY <1>2, <1>3, <1>7, Zenon DEF EscrowStepFunds
  <2>2. withdrawn' = withdrawn + w /\ UNCHANGED <<applied, sentMessages>>
    BY <1>7 DEF EscrowStepFunds, sendVars
  <2>3. /\ OpenTotal(escrows') \in Nat /\ executorBalance' \in Nat
        /\ OpenTotal(escrows') + executorBalance' = OpenTotal(escrows) + executorBalance + w
    BY <1>1, <1>7, FallbackKeepsFunds DEF EscrowStepFunds
  <2>4. Balanced(withdrawn', applied', sentMessages', escrows', executorBalance', executorSwept)
    BY <1>2, <1>4, <2>2, <2>3, LedgerTypes DEF Balanced
  <2>5. QED
    BY <1>1, <2>1, <2>4, LedgerKept
<1>8. ASSUME NEW w \in Amounts, NEW fee \in Fees, SendStep(w, fee)
      PROVE  LedgerInv'
  <2>1. UNCHANGED <<saved, executorSwept>> /\ ~Idle'
    BY <1>2, <1>3, <1>8, Zenon DEF SendStep
  <2>2. withdrawn' = withdrawn + w /\ UNCHANGED <<applied, escrows, executorBalance>>
    BY <1>8 DEF SendStep, escrowVars
  <2>3. SentTotal(sentMessages') = SentTotal(sentMessages) + w
    BY <1>1, <1>2, <1>8, SendKeepsFunds DEF SendStep
  <2>4. Balanced(withdrawn', applied', sentMessages', escrows', executorBalance', executorSwept)
    BY <1>2, <1>4, <2>2, <2>3, LedgerTypes DEF Balanced
  <2>5. QED
    BY <1>1, <2>1, <2>4, LedgerKept
<1>9. QED
  BY <1>5, <1>6, <1>7, <1>8 DEF RescueStepNext

LEMMA BeginLedger ==
  ASSUME LedgerInv, NEW c \in Callers, NEW p \in Plans, BeginRescue(c, p)
  PROVE  LedgerInv'
<1>1. UNCHANGED <<withdrawn, applied, sentMessages, escrows, executorBalance, executorSwept>>
  BY DEF BeginRescue, escrowVars, tokenVars, sendVars
<1>2. /\ saved'.withdrawn = withdrawn /\ saved'.applied = applied
      /\ saved'.sentMessages = sentMessages /\ saved'.escrows = escrows
      /\ saved'.executorBalance = executorBalance
  BY DEF BeginRescue, Snapshot
<1>3. QED
  BY <1>1, <1>2 DEF LedgerInv

\* However a rescue ends, the ledger holds: it did when the rescue began.
LEMMA EndLedger ==
  ASSUME LedgerInv, FinishRescue \/ RevertRescue
  PROVE  LedgerInv'
<1>1. Idle'
  BY NoTxTyped DEF FinishRescue, RevertRescue
<1>2. CASE FinishRescue
  <2>1. UNCHANGED <<withdrawn, applied, sentMessages, escrows, executorBalance, executorSwept>>
    BY <1>2 DEF FinishRescue, escrowVars, tokenVars, sendVars
  <2>2. QED
    BY <1>1, <2>1 DEF LedgerInv
<1>3. CASE RevertRescue
  <2>1. /\ withdrawn' = saved.withdrawn /\ applied' = saved.applied
        /\ sentMessages' = saved.sentMessages /\ escrows' = saved.escrows
        /\ executorBalance' = saved.executorBalance /\ executorSwept' = executorSwept /\ ~Idle
    BY <1>3 DEF RevertRescue
  <2>2. QED
    BY <1>1, <2>1 DEF LedgerInv
<1>4. QED
  BY <1>2, <1>3

LEMMA LegLedger ==
  ASSUME TypeInv, LedgerInv, NEW c \in Callers, NEW p \in Plans,
         \/ \E i \in DOMAIN p.steps, w \in Amounts : SameChainLeg(c, p, p.steps[i], w)
         \/ \E ch \in Chains, a \in Amounts, fee \in Fees : InitiateCrossChainLeg(c, p, ch, a, fee)
  PROVE  LedgerInv'
<1>1. /\ p.execId \in ExecIds /\ p.user \in Users
      /\ \A i \in DOMAIN p.steps : p.steps[i] \in PlanSteps
      /\ \A w \in Amounts : w \in Nat
  BY PlanFacts, AmountsPositive
<1>2. Balanced(withdrawn, applied, sentMessages, escrows, executorBalance, executorSwept)
  BY DEF LedgerInv
<1>3. ASSUME NEW i \in DOMAIN p.steps, NEW w \in Amounts, SameChainLeg(c, p, p.steps[i], w)
      PROVE  LedgerInv'
  <2>1. UNCHANGED <<saved, executorSwept>> /\ (Idle' <=> Idle)
    BY <1>3 DEF SameChainLeg, txVars, Idle
  <2>2. withdrawn' = withdrawn + w /\ UNCHANGED sentMessages
    BY <1>3 DEF SameChainLeg, sendVars
  <2>3. CASE applied' = applied + w /\ UNCHANGED <<escrowVars, executorBalance>>
    <3>1. escrows' = escrows
      BY <2>3 DEF escrowVars
    <3>2. Balanced(withdrawn', applied', sentMessages', escrows', executorBalance', executorSwept)
      BY <1>1, <1>2, <2>2, <2>3, <3>1, LedgerTypes DEF Balanced
    <3>3. QED
      BY <2>1, <3>2, LedgerKept
  <2>4. CASE EscrowFunds(p.execId, p.steps[i].stepIndex, p.user, w) /\ UNCHANGED applied
    <3>1. /\ OpenTotal(escrows') \in Nat /\ executorBalance' \in Nat
          /\ OpenTotal(escrows') + executorBalance' = OpenTotal(escrows) + executorBalance + w
      BY <1>1, <2>4, FallbackKeepsFunds
    <3>2. Balanced(withdrawn', applied', sentMessages', escrows', executorBalance', executorSwept)
      BY <1>1, <1>2, <2>2, <2>4, <3>1, LedgerTypes DEF Balanced
    <3>3. QED
      BY <2>1, <3>2, LedgerKept
  <2>5. QED
    BY <1>3, <2>3, <2>4 DEF SameChainLeg
<1>4. ASSUME NEW ch \in Chains, NEW a \in Amounts, NEW fee \in Fees,
             InitiateCrossChainLeg(c, p, ch, a, fee)
      PROVE  LedgerInv'
  <2>1. UNCHANGED <<saved, executorSwept>> /\ (Idle' <=> Idle)
    BY <1>4 DEF InitiateCrossChainLeg, txVars, Idle
  <2>2. /\ a <= executorBalance /\ executorBalance' = executorBalance - a
        /\ UNCHANGED <<withdrawn, applied, escrows>>
    BY <1>4 DEF InitiateCrossChainLeg, escrowVars
  <2>3. SentTotal(sentMessages') = SentTotal(sentMessages) + a
    BY <1>1, <1>4, SendKeepsFunds DEF InitiateCrossChainLeg
  <2>4. Balanced(withdrawn', applied', sentMessages', escrows', executorBalance', executorSwept)
    BY <1>1, <1>2, <2>2, <2>3, LedgerTypes DEF Balanced
  <2>5. QED
    BY <2>1, <2>4, LedgerKept
<1>5. QED
  BY <1>3, <1>4

LEMMA OtherLedger ==
  ASSUME TypeInv, LedgerInv,
         \/ Configure
         \/ \E a \in 1..executorBalance : ExecutorEmergencyWithdraw(a)
         \/ ReceiveNative
         \/ EscrowOnly
         \/ \E id \in EscrowIds : SettleRecord(id)
         \/ UNCHANGED allVars
  PROVE  LedgerInv'
<1>1. saved' = saved /\ (Idle' <=> Idle)
  BY DEF Configure, ExecutorEmergencyWithdraw, ReceiveNative, EscrowOnly, SettleRecord,
         allVars, executorVars, txVars, Idle
<1>2. Balanced(withdrawn, applied, sentMessages, escrows, executorBalance, executorSwept)
  BY DEF LedgerInv
<1>3. ASSUME UNCHANGED <<withdrawn, applied, sentMessages, escrows, executorBalance, executorSwept>>
      PROVE  LedgerInv'
  BY <1>1, <1>2, <1>3, LedgerKept
<1>4. CASE Configure \/ ReceiveNative \/ EscrowOnly \/ UNCHANGED allVars
  BY <1>3, <1>4
     DEF Configure, ReceiveNative, EscrowOnly, allVars, executorVars, escrowVars, tokenVars, sendVars,
         SetAuthorizedDepositor, EmergencyWithdraw, ReceiveStray, Tick
<1>5. ASSUME NEW a \in 1..executorBalance, ExecutorEmergencyWithdraw(a)
      PROVE  LedgerInv'
  <2>1. /\ Idle /\ a \in Nat /\ a <= executorBalance
        /\ executorBalance' = executorBalance - a /\ executorSwept' = executorSwept + a
        /\ UNCHANGED <<withdrawn, applied, sentMessages, escrows>>
    BY <1>5 DEF ExecutorEmergencyWithdraw, escrowVars, sendVars, TypeInv, OwnTypeOK
  <2>2. Balanced(withdrawn', applied', sentMessages', escrows', executorBalance', executorSwept')
    BY <1>2, <2>1, LedgerTypes DEF Balanced
  <2>3. QED
    BY <1>1, <2>1, <2>2 DEF LedgerInv
<1>6. ASSUME NEW id \in EscrowIds, SettleRecord(id)
      PROVE  LedgerInv'
  <2>1. UNCHANGED <<withdrawn, applied, sentMessages, executorBalance, executorSwept>>
    BY <1>6 DEF SettleRecord, tokenVars, sendVars
  <2>2. \A i \in EscrowIds : /\ escrows'[i].status = "None" <=> escrows[i].status = "None"
                             /\ escrows'[i].amount = escrows[i].amount
    <3>1. escrows \in [EscrowIds -> EscrowRecord]
      BY DEF TypeInv, EscrowTypeOK
    <3>2. ASSUME NEW u \in Users, ClaimEscrow(id, u)
          PROVE  /\ escrows[id].status = "Pending"
                 /\ escrows' = [escrows EXCEPT ![id] =
                                   SettledRecord(escrows[id], "Claimed", escrows[id].retryCount)]
      BY <3>2 DEF ClaimEscrow, CanClaim
    <3>3. ASSUME RetryTransfer(Operator, id)
          PROVE  /\ escrows[id].status = "Pending"
                 /\ escrows' = [escrows EXCEPT ![id] =
                                   SettledRecord(escrows[id], "Retried", escrows[id].retryCount + 1)]
      BY <3>3 DEF RetryTransfer
    <3>4. (\E u \in Users : ClaimEscrow(id, u)) \/ RetryTransfer(Operator, id)
      BY <1>6 DEF SettleRecord
    <3>5. CASE \E u \in Users : ClaimEscrow(id, u)
      BY <3>1, <3>2, <3>5 DEF SettledRecord
    <3>6. CASE RetryTransfer(Operator, id)
      BY <3>1, <3>3, <3>6 DEF SettledRecord
    <3>7. QED
      BY <3>4, <3>5, <3>6
  <2>3. OpenTotal(escrows') = OpenTotal(escrows)
    BY <2>2, OpenSettled
  <2>4. Balanced(withdrawn', applied', sentMessages', escrows', executorBalance', executorSwept)
    BY <1>2, <2>1, <2>3 DEF Balanced
  <2>5. QED
    BY <1>1, <2>1, <2>4, LedgerKept
<1>7. QED
  BY <1>4, <1>5, <1>6

\* Every token withdrawn from a source position is accounted for, at every step
\* of a rescue and after its end.
THEOREM ExecutorAccountsTokens == ExecutorSpec => []SourceLedger
<1>1. ExecutorInit => LedgerInv
  <2> SUFFICES ASSUME ExecutorInit PROVE LedgerInv
    OBVIOUS
  <2>1. Idle /\ DOMAIN sentMessages = {} /\ {id \in EscrowIds : escrows[id].status # "None"} = {}
    BY DEF ExecutorInit, EscrowInit, EmptyRecord, NoTx, Idle
  <2>2. SentTotal(sentMessages) = 0 /\ OpenTotal(escrows) = 0
    BY <2>1, TotalEmpty DEF SentTotal, OpenTotal
  <2>3. QED
    BY <2>1, <2>2 DEF ExecutorInit, LedgerInv, Balanced
<1>2. TypeInv /\ LedgerInv /\ [ExecutorNext]_allVars => LedgerInv'
  <2> SUFFICES ASSUME TypeInv, LedgerInv, [ExecutorNext]_allVars PROVE LedgerInv'
    OBVIOUS
  <2>1. CASE RescueStepNext
    BY <2>1, StepLedger
  <2>2. ASSUME NEW c \in Callers, NEW p \in Plans, BeginRescue(c, p)
        PROVE  LedgerInv'
    BY <2>2, BeginLedger
  <2>3. CASE FinishRescue \/ RevertRescue
    BY <2>3, EndLedger
  <2>4. ASSUME NEW c \in Callers, NEW p \in Plans,
               \/ \E i \in DOMAIN p.steps, w \in Amounts : SameChainLeg(c, p, p.steps[i], w)
               \/ \E ch \in Chains, a \in Amounts, fee \in Fees :
                      InitiateCrossChainLeg(c, p, ch, a, fee)
        PROVE  LedgerInv'
    BY <2>4, LegLedger
  <2>5. CASE \/ Configure
             \/ \E a \in 1..executorBalance : ExecutorEmergencyWithdraw(a)
             \/ ReceiveNative
             \/ EscrowOnly
             \/ \E id \in EscrowIds : SettleRecord(id)
             \/ UNCHANGED allVars
    BY <2>5, OtherLedger
  <2>6. QED
    BY <2>1, <2>2, <2>3, <2>4, <2>5 DEF ExecutorNext
<1>3. LedgerInv => SourceLedger
  BY DEF LedgerInv, Balanced, SourceLedger, SentTotal, OpenTotal, AmountSent, Opened, AmountOf
<1>4. QED
  BY <1>1, <1>2, <1>3, TypeInductive, PTL DEF ExecutorSpec
-----------------------------------------------------------------------------
(* What the log tells. *)

Positions(log, what) == {i \in DOMAIN log : log[i].what = what}

Count(log, what) == Cardinality(Positions(log, what))

LEMMA PositionsFinite ==
  ASSUME NEW log \in Seq(LogEntry), NEW what
  PROVE  /\ IsFiniteSet(Positions(log, what)) /\ Count(log, what) \in Nat
         /\ Count(log, what) = 0 <=> Positions(log, what) = {}
<1>1. Len(log) \in Nat /\ DOMAIN log = 1..Len(log)
  OBVIOUS
<1>2. IsFiniteSet(DOMAIN log)
  BY <1>1, FS_Interval
<1>3. IsFiniteSet(Positions(log, what))
  BY <1>2, FS_Subset DEF Positions
<1>4. QED
  BY <1>3, FS_CardinalityType, FS_EmptySet DEF Count

\* The entries of a kind in a concatenation are those of its parts.
LEMMA PositionsAdded ==
  ASSUME NEW s \in Seq(LogEntry), NEW t \in Seq(LogEntry), NEW what
  PROVE  /\ Positions(s \o t, what)
                = Positions(s, what) \cup {Len(s) + i : i \in Positions(t, what)}
         /\ Count(s \o t, what) = Count(s, what) + Count(t, what)
<1> DEFINE n == Len(s)
           A == Positions(s, what)
           B == Positions(t, what)
           C == {n + i : i \in B}
<1>1. /\ n \in Nat /\ DOMAIN s = 1..n /\ Len(t) \in Nat /\ DOMAIN t = 1..Len(t)
      /\ A \subseteq 1..n /\ B \subseteq 1..Len(t)
  BY DEF Positions
<1>2. /\ DOMAIN (s \o t) = 1..(n + Len(t))
      /\ \A i \in 1..n : (s \o t)[i] = s[i]
      /\ \A i \in 1..Len(t) : (s \o t)[n + i] = t[i]
  OBVIOUS
<1>3. Positions(s \o t, what) = A \cup C
  <2>1. \A i : i \in Positions(s \o t, what) => i \in A \cup C
    <3> SUFFICES ASSUME NEW i \in 1..(n + Len(t)), (s \o t)[i].what = what
                 PROVE  i \in A \cup C
      BY <1>2 DEF Positions
    <3>1. CASE i <= n
      BY <1>1, <1>2, <3>1 DEF Positions
    <3>2. CASE i > n
      <4>1. i - n \in 1..Len(t) /\ i = n + (i - n)
        BY <1>1, <3>2
      <4>2. i - n \in B
        BY <1>1, <1>2, <4>1 DEF Positions
      <4>3. QED
        BY <4>1, <4>2
    <3>3. QED
      BY <1>1, <3>1, <3>2
  <2>2. \A i \in A : i \in Positions(s \o t, what)
    BY <1>1, <1>2 DEF Positions
  <2>3. \A i \in B : n + i \in Positions(s \o t, what)
    BY <1>1, <1>2 DEF Positions
  <2>4. QED
    BY <2>1, <2>2, <2>3
<1>4. A \cap C = {}
  BY <1>1
<1>5. IsFiniteSet(A) /\ IsFiniteSet(B) /\ Cardinality(A) \in Nat /\ Cardinality(B) \in Nat
  BY PositionsFinite, FS_CardinalityType
<1>6. IsFiniteSet(C) /\ Cardinality(C) = Cardinality(B)
  <2> DEFINE f == [i \in B |-> n + i]
  <2>1. f \in Bijection(B, C)
    <3>1. \A i, j \in B : f[i] = f[j] => i = j
      BY <1>1
    <3>2. f \in [B -> C] /\ \A c \in C : \E i \in B : f[i] = c
      OBVIOUS
    <3> HIDE DEF f, B, C
    <3>3. QED
      BY <3>1, <3>2 DEF Bijection, Injection, Surjection, IsInjective
  <2>2. ExistsBijection(B, C)
    BY <2>1 DEF ExistsBijection
  <2> HIDE DEF f, B, C
  <2>3. QED
    BY <1>5, <2>2, FS_Bijection
<1>7. Cardinality(A \cup C) = Cardinality(A) + Cardinality(C)
  <2> HIDE DEF A, C, B
  <2>1. Cardinality(A \cup C) = Cardinality(A) + Cardinality(C) - Cardinality(A \cap C)
    BY <1>5, <1>6, FS_Union
  <2>2. Cardinality(A \cap C) = 0
    BY <1>4, FS_EmptySet
  <2>3. QED
    BY <1>5, <1>6, <2>1, <2>2
<1>8. QED
  BY <1>3, <1>6, <1>7 DEF Count

LEMMA PositionsOfFew ==
  /\ \A what : Positions(<<>>, what) = {} /\ Count(<<>>, what) = 0
  /\ \A x \in LogEntry : \A what :
         /\ Positions(<<x>>, what) = IF x.what = what THEN {1} ELSE {}
         /\ Count(<<x>>, what) = IF x.what = what THEN 1 ELSE 0
<1>1. \A what : Positions(<<>>, what) = {}
  BY DEF Positions
<1>2. \A x \in LogEntry : \A what : Positions(<<x>>, what) = IF x.what = what THEN {1} ELSE {}
  BY DEF Positions
<1>3. Cardinality({}) = 0 /\ Cardinality({1}) = 1
  BY FS_EmptySet, FS_Singleton
<1>4. QED
  BY <1>1, <1>2, <1>3 DEF Count
\* The kinds of entry that report how an execution went.
Reports == {"Initiated", "Started", "StepCompleted", "StepFailed", "Completed", "Failed"}

Quiet(s) == \A what \in Reports : Positions(s, what) = {}

\* One execution's log agrees with its status.
Tells(log, status) ==
    /\ log # <<>> => Positions(log, "Initiated") = {1}
    /\ Count(log, "Started") = Count(log, "StepCompleted") + Count(log, "StepFailed")
    /\ Count(log, "Completed") = IF status = "Completed" THEN 1 ELSE 0
    /\ Count(log, "Failed") = IF status = "Failed" THEN 1 ELSE 0
    /\ status = "Completed" => Count(log, "StepCompleted") > 0
    /\ status = "Failed" => Count(log, "StepCompleted") = 0

\* The logs agree with the statuses, would after a revert, and the running
\* rescue remembers whether one of its steps is logged as completed.
TellsInv ==
    /\ \A e \in ExecIds : Tells(logEntries[e], rescueStatus[e])
    /\ ~Idle => \A e \in ExecIds : Tells(saved.logEntries[e], saved.rescueStatus[e])
    /\ ~Idle => (tx.succeeded <=> Count(logEntries[tx.plan.execId], "StepCompleted") > 0)

LEMMA QuietEntries ==
  /\ Quiet(<<>>)
  /\ \A x : Quiet(EscrowEntries(x))
  /\ \A m \in Nat : Quiet(<<SentEntry(m)>>)
  /\ \A e \in ExecIds : \A n : Quiet(EscrowFundsEntries(e, n))
<1>1. Quiet(<<>>)
  BY PositionsOfFew DEF Quiet
<1>2. /\ Entry("EscrowEvent") \in LogEntry /\ Entry("Escrowed") \in LogEntry
      /\ Entry("EscrowEvent").what = "EscrowEvent" /\ Entry("Escrowed").what = "Escrowed"
  BY DEF Entry, LogEntry, LogKinds
<1>3. Quiet(<<Entry("EscrowEvent")>>) /\ Quiet(<<Entry("Escrowed")>>)
  BY <1>2, PositionsOfFew DEF Quiet, Reports
<1>4. \A x : /\ EscrowEntries(x) \in Seq(LogEntry) /\ Quiet(EscrowEntries(x))
             /\ EscrowedEntries(x) \in Seq(LogEntry) /\ Quiet(EscrowedEntries(x))
  BY <1>1, <1>2, <1>3 DEF EscrowEntries, EscrowedEntries
<1>5. ASSUME NEW s \in Seq(LogEntry), NEW t \in Seq(LogEntry), Quiet(s), Quiet(t)
      PROVE  Quiet(s \o t)
  <2> SUFFICES ASSUME NEW what \in Reports PROVE Positions(s \o t, what) = {}
    BY DEF Quiet
  <2>1. Positions(s, what) = {} /\ Positions(t, what) = {}
    BY <1>5 DEF Quiet
  <2>2. Positions(s \o t, what)
            = Positions(s, what) \cup {Len(s) + i : i \in Positions(t, what)}
    BY PositionsAdded
  <2>3. QED
    BY <2>1, <2>2
<1>6. \A m \in Nat : Quiet(<<SentEntry(m)>>)
  <2> SUFFICES ASSUME NEW m \in Nat PROVE Quiet(<<SentEntry(m)>>)
    OBVIOUS
  <2>1. SentEntry(m) \in LogEntry /\ SentEntry(m).what = "Sent"
    BY DEF SentEntry, LogEntry, LogKinds
  <2>2. QED
    BY <2>1, PositionsOfFew DEF Quiet, Reports
<1>7. \A e \in ExecIds : \A n : Quiet(EscrowFundsEntries(e, n))
  BY <1>1, <1>4, <1>5 DEF EscrowFundsEntries
<1>8. QED
  BY <1>1, <1>4, <1>6, <1>7

\* Entries that report nothing leave a log telling what it told.
LEMMA QuietAdded ==
  ASSUME NEW log \in Seq(LogEntry), NEW s \in Seq(LogEntry), Quiet(s), log # <<>>
  PROVE  /\ \A what \in Reports : /\ Positions(log \o s, what) = Positions(log, what)
                                  /\ Count(log \o s, what) = Count(log, what)
         /\ \A status : Tells(log, status) => Tells(log \o s, status)
<1>1. ASSUME NEW what \in Reports
      PROVE  Positions(log \o s, what) = Positions(log, what)
  <2>1. Positions(s, what) = {}
    BY DEF Quiet
  <2>2. Positions(log \o s, what)
            = Positions(log, what) \cup {Len(log) + i : i \in Positions(s, what)}
    BY PositionsAdded
  <2>3. QED
    BY <2>1, <2>2
<1>2. \A what \in Reports : Count(log \o s, what) = Count(log, what)
  BY <1>1 DEF Count
<1>3. QED
  BY <1>1, <1>2 DEF Tells, Reports

\* A step's entries: one "started", one outcome and nothing else that reports.
LEMMA StepEntries ==
  ASSUME NEW s \in Seq(LogEntry), Quiet(s), NEW o \in {"StepCompleted", "StepFailed"}
  PROVE  LET all == <<Entry("Started")>> \o s \o <<Entry(o)>>
         IN  /\ all \in Seq(LogEntry)
             /\ Positions(all, "Initiated") = {}
             /\ Count(all, "Started") = 1
             /\ \A what \in {"StepCompleted", "StepFailed"} :
                    Count(all, what) = IF what = o THEN 1 ELSE 0
             /\ Count(all, "Completed") = 0 /\ Count(all, "Failed") = 0
<1> DEFINE a == <<Entry("Started")>>
           b == <<Entry(o)>>
<1>1. /\ Entry("Started") \in LogEntry /\ Entry("Started").what = "Started"
      /\ Entry(o) \in LogEntry /\ Entry(o).what = o
  BY DEF Entry, LogEntry, LogKinds
<1>2. a \in Seq(LogEntry) /\ b \in Seq(LogEntry) /\ a \o s \in Seq(LogEntry)
      /\ a \o s \o b \in Seq(LogEntry)
  BY <1>1
<1>3. \A what : /\ Count(a, what) = IF what = "Started" THEN 1 ELSE 0
                /\ Count(b, what) = IF what = o THEN 1 ELSE 0
  BY <1>1, PositionsOfFew
<1>4. \A what \in Reports : Count(s, what) = 0
  <2>1. Cardinality({}) = 0
    BY FS_EmptySet
  <2>2. QED
    BY <2>1 DEF Quiet, Count
<1>5. \A what \in Reports :
          Count(a \o s \o b, what) = Count(a, what) + Count(s, what) + Count(b, what)
  <2> HIDE DEF a, b
  <2> SUFFICES ASSUME NEW what \in Reports
               PROVE  Count(a \o s \o b, what) = Count(a, what) + Count(s, what) + Count(b, what)
    OBVIOUS
  <2>1. Count(a \o s, what) = Count(a, what) + Count(s, what)
    BY <1>2, PositionsAdded
  <2>2. Count(a \o s \o b, what) = Count(a \o s, what) + Count(b, what)
    <3> DEFINE c == a \o s
    <3>1. c \in Seq(LogEntry)
      BY <1>2
    <3> HIDE DEF c
    <3>2. Count(c \o b, what) = Count(c, what) + Count(b, what)
      BY <1>2, <3>1, PositionsAdded
    <3>3. QED
      BY <3>2 DEF c
  <2>3. QED
    BY <2>1, <2>2
<1>6. \A what \in Reports :
          Count(a \o s \o b, what) = (IF what = "Started" THEN 1 ELSE 0) + (IF what = o THEN 1 ELSE 0)
  BY <1>3, <1>4, <1>5
<1>7. Count(a \o s \o b, "Initiated") = 0
  BY <1>6 DEF Reports
<1>8. Positions(a \o s \o b, "Initiated") = {}
  BY <1>2, <1>7, PositionsFinite
<1>9. QED
  BY <1>2, <1>6, <1>8 DEF Reports

\* A transaction outside of a rescue that adds no report keeps the invariant.
LEMMA TellsKept ==
  ASSUME TypeInv, TellsInv, Idle', rescueStatus' = rescueStatus,
         NEW e, NEW s \in Seq(LogEntry), Quiet(s), ~HasEntries(e) => s = <<>>,
         AddEntries(e, s) \/ UNCHANGED logEntries
  PROVE  TellsInv'
<1>1. CASE UNCHANGED logEntries
  BY <1>1 DEF TellsInv
<1>2. CASE AddEntries(e, s)
  <2>1. SUFFICES ASSUME NEW x \in ExecIds PROVE Tells(logEntries'[x], rescueStatus[x])
    BY DEF TellsInv
  <2>2. logEntries \in [ExecIds -> Seq(LogEntry)] /\ Tells(logEntries[x], rescueStatus[x])
    BY DEF TypeInv, OwnTypeOK, TellsInv
  <2>3. CASE x # e \/ s = <<>>
    BY <1>2, <2>2, <2>3, EntriesAdded
  <2>4. CASE x = e /\ s # <<>>
    <3>1. logEntries[x] \in Seq(LogEntry) /\ logEntries[x] # <<>>
      BY <2>2, <2>4 DEF HasEntries
    <3>2. logEntries'[x] = logEntries[x] \o s
      BY <1>2, <2>2, <2>4, EntriesAdded
    <3>3. QED
      BY <2>2, <3>1, <3>2, QuietAdded
  <2>5. QED
    BY <2>3, <2>4
<1>3. QED
  BY <1>1, <1>2
LEMMA StepTells ==
  ASSUME TypeInv, ControlInv, TellsInv, RescueStepNext
  PROVE  TellsInv'
<1>1. PICK e \in ExecIds : e = tx.plan.execId
  BY ReadyStep, PlanFacts DEF TypeInv, RescueStepNext, SkipStep
<1>2. /\ StepReady /\ ~Idle /\ OwnTypeOK /\ logEntries \in [ExecIds -> Seq(LogEntry)]
      /\ tx.plan.user \in Users /\ rescueStatus[e] = "InProgress" /\ logEntries[e] # <<>>
      /\ tx.succeeded \in BOOLEAN
  <2>1. StepReady
    BY DEF RescueStepNext, SkipStep
  <2>2. ~Idle /\ tx.plan.user \in Users /\ tx.succeeded \in BOOLEAN
    BY <2>1, ReadyStep, PlanFacts, RunningPlan DEF TypeInv
  <2>3. rescueStatus[e] = "InProgress" /\ HasEntries(e)
    BY <1>1, <2>2 DEF ControlInv, NoStuckLocks, StatusLogged
  <2>4. QED
    BY <2>1, <2>2, <2>3 DEF TypeInv, OwnTypeOK, HasEntries
<1>3. ASSUME NEW s \in Seq(LogEntry), Quiet(s), NEW o \in {"StepCompleted", "StepFailed"},
             AddEntries(e, <<Entry("Started")>> \o s \o <<Entry(o)>>), Advanced,
             o = "StepCompleted" => tx'.succeeded,
             o = "StepFailed" => (tx'.succeeded <=> tx.succeeded)
      PROVE  TellsInv'
  <2> DEFINE all == <<Entry("Started")>> \o s \o <<Entry(o)>>
             log == logEntries[e]
  <2>1. /\ all \in Seq(LogEntry) /\ Positions(all, "Initiated") = {} /\ Count(all, "Started") = 1
        /\ Count(all, "StepCompleted") = IF o = "StepCompleted" THEN 1 ELSE 0
        /\ Count(all, "StepFailed") = IF o = "StepFailed" THEN 1 ELSE 0
        /\ Count(all, "Completed") = 0 /\ Count(all, "Failed") = 0
    BY <1>3, StepEntries
  <2>2. log \in Seq(LogEntry) /\ Tells(log, "InProgress") /\ log # <<>>
        /\ (tx.succeeded <=> Count(log, "StepCompleted") > 0)
    BY <1>1, <1>2 DEF TellsInv
  <2>3. AddEntries(e, all)
    BY <1>3
  <2> HIDE DEF all
  <2>4. /\ logEntries'[e] = log \o all
        /\ \A x \in ExecIds : x # e => logEntries'[x] = logEntries[x]
    BY <1>2, <2>1, <2>3, EntriesAdded
  <2>5. log \o all \in Seq(LogEntry) /\ log \o all # <<>>
    BY <2>1, <2>2
  <2>6. \A what : Count(log, what) \in Nat
    BY <2>2, PositionsFinite
  <2>7. /\ Positions(log \o all, "Initiated") = {1}
        /\ \A what : Count(log \o all, what) = Count(log, what) + Count(all, what)
    <3> HIDE DEF log
    <3>1. Positions(log, "Initiated") = {1}
      BY <2>2 DEF Tells
    <3>2. Positions(log \o all, "Initiated")
              = Positions(log, "Initiated") \cup {Len(log) + i : i \in Positions(all, "Initiated")}
      BY <2>1, <2>2, PositionsAdded
    <3>3. Positions(log \o all, "Initiated") = {1}
      BY <2>1, <3>1, <3>2
    <3>4. ASSUME NEW what PROVE Count(log \o all, what) = Count(log, what) + Count(all, what)
      BY <2>1, <2>2, PositionsAdded
    <3>5. QED
      BY <3>3, <3>4
  <2>8. Tells(log \o all, "InProgress")
    <3> HIDE DEF log
    <3> DEFINE old(what) == Count(log, what)
               new(what) == Count(log \o all, what)
    <3>1. /\ old("Started") \in Nat /\ old("StepCompleted") \in Nat /\ old("StepFailed") \in Nat
          /\ old("Started") = old("StepCompleted") + old("StepFailed")
          /\ old("Completed") = 0 /\ old("Failed") = 0
      BY <2>2, <2>6 DEF Tells
    <3>2. /\ new("Started") = old("Started") + 1
          /\ new("StepCompleted") = old("StepCompleted") + Count(all, "StepCompleted")
          /\ new("StepFailed") = old("StepFailed") + Count(all, "StepFailed")
          /\ new("Completed") = old("Completed") + 0
          /\ new("Failed") = old("Failed") + 0
      BY <2>1, <2>7
    <3>3. Positions(log \o all, "Initiated") = {1}
      BY <2>7
    <3>4. Count(all, "StepCompleted") + Count(all, "StepFailed") = 1
          /\ Count(all, "StepCompleted") \in Nat /\ Count(all, "StepFailed") \in Nat
      BY <1>3, <2>1
    <3> HIDE DEF old, new
    <3>5. /\ new("Started") = new("StepCompleted") + new("StepFailed")
          /\ new("Completed") = 0 /\ new("Failed") = 0
      BY <3>1, <3>2, <3>4
    <3>6. QED
      BY <3>3, <3>5 DEF Tells, new
  <2>9. tx'.succeeded <=> Count(log \o all, "StepCompleted") > 0
    BY <1>3, <2>1, <2>2, <2>6, <2>7
  <2>10. /\ ~Idle' /\ saved' = saved /\ rescueStatus' = rescueStatus
         /\ tx'.plan.execId = e
    BY <1>1, <1>3 DEF Advanced, statusVars
  <2> HIDE DEF log
  <2>11. \A x \in ExecIds : Tells(logEntries'[x], rescueStatus'[x])
    BY <1>2, <2>4, <2>8, <2>10 DEF TellsInv
  <2>12. \A x \in ExecIds : Tells(saved'.logEntries[x], saved'.rescueStatus[x])
    BY <1>2, <2>10 DEF TellsInv
  <2>13. tx'.succeeded <=> Count(logEntries'[tx'.plan.execId], "StepCompleted") > 0
    BY <2>4, <2>9, <2>10
  <2>14. QED
    BY <2>11, <2>12, <2>13 DEF TellsInv
<1>4. ASSUME StepDone(TRUE)
      PROVE  Advanced /\ tx'.succeeded
  <2>1. TRUE \in BOOLEAN
    OBVIOUS
  <2>2. Advanced
    BY <1>2, <1>4, <2>1, StepDoneTyped, Zenon
  <2>3. tx'.succeeded
    BY <1>2, <1>4 DEF StepDone, OwnTypeOK, Transaction
  <2>4. QED
    BY <2>2, <2>3
<1>5. ASSUME StepDone(FALSE)
      PROVE  Advanced /\ (tx'.succeeded <=> tx.succeeded)
  <2>1. FALSE \in BOOLEAN
    OBVIOUS
  <2>2. Advanced
    BY <1>2, <1>5, <2>1, StepDoneTyped, Zenon
  <2>3. tx'.succeeded <=> tx.succeeded
    BY <1>2, <1>5 DEF StepDone, OwnTypeOK, Transaction
  <2>4. QED
    BY <2>2, <2>3
<1>6. ASSUME NEW s \in Seq(LogEntry), Quiet(s), LogStep(s, TRUE), StepDone(TRUE)
      PROVE  TellsInv'
  <2>1. AddEntries(e, <<Entry("Started")>> \o s \o <<Entry("StepCompleted")>>)
    BY <1>1, <1>6 DEF LogStep
  <2>2. QED
    BY <1>3, <1>4, <1>6, <2>1
<1>7. ASSUME NEW s \in Seq(LogEntry), Quiet(s), LogStep(s, FALSE), StepDone(FALSE)
      PROVE  TellsInv'
  <2>1. AddEntries(e, <<Entry("Started")>> \o s \o <<Entry("StepFailed")>>)
    BY <1>1, <1>7 DEF LogStep
  <2>2. QED
    BY <1>3, <1>5, <1>7, <2>1
<1>8. <<>> \in Seq(LogEntry) /\ Quiet(<<>>)
  BY QuietEntries
<1>9. CASE SkipStep
  BY <1>7, <1>8, <1>9, Zenon DEF SkipStep
<1>10. ASSUME NEW w \in Amounts, ApplyStep(w)
       PROVE  TellsInv'
  BY <1>6, <1>8, <1>10, Zenon DEF ApplyStep
<1>11. ASSUME NEW w \in Amounts, EscrowStepFunds(w)
       PROVE  TellsInv'
  <2>1. /\ EscrowFundsEntries(tx.plan.execId, CurrentStep.stepIndex) \in Seq(LogEntry)
        /\ Quiet(EscrowFundsEntries(tx.plan.execId, CurrentStep.stepIndex))
    BY <1>1, EntriesTyped, QuietEntries
  <2>2. QED
    BY <1>7, <1>11, <2>1, Zenon DEF EscrowStepFunds
<1>12. ASSUME NEW w \in Amounts, NEW fee \in Fees, SendStep(w, fee)
       PROVE  TellsInv'
  <2>1. w \in Nat
    BY AmountsPositive
  <2>2. SentEntry(Len(sentMessages')) \in LogEntry /\ Len(sentMessages') \in Nat
    BY <1>1, <1>2, <1>12, <2>1, MessageSent DEF SendStep, OwnTypeOK
  <2>3. <<SentEntry(Len(sentMessages'))>> \in Seq(LogEntry) /\ Quiet(<<SentEntry(Len(sentMessages'))>>)
    BY <2>2, QuietEntries
  <2>4. QED
    BY <1>6, <1>12, <2>3, Zenon DEF SendStep
<1>13. QED
  BY <1>9, <1>10, <1>11, <1>12 DEF RescueStepNext

LEMMA BeginTells ==
  ASSUME TypeInv, ControlInv, TellsInv, NEW c \in Callers, NEW p \in Plans, BeginRescue(c, p)
  PROVE  TellsInv'
<1> DEFINE first == <<Entry("Initiated")>>
<1>1. PICK e \in ExecIds : e = p.execId
  BY PlanFacts
<1>2. /\ logEntries \in [ExecIds -> Seq(LogEntry)] /\ rescueStatus \in [ExecIds -> RescueStatus]
      /\ logEntries[e] = <<>> /\ AddEntries(e, first)
      /\ rescueStatus' = [rescueStatus EXCEPT ![e] = "InProgress"]
      /\ saved'.logEntries = logEntries /\ saved'.rescueStatus = rescueStatus
      /\ tx'.plan = p /\ ~tx'.succeeded
  BY <1>1 DEF TypeInv, OwnTypeOK, BeginRescue, MayBegin, HasEntries, Snapshot
<1>3. /\ Entry("Initiated") \in LogEntry /\ Entry("Initiated").what = "Initiated"
  BY DEF Entry, LogEntry, LogKinds
<1>4. /\ first \in Seq(LogEntry) /\ Positions(first, "Initiated") = {1}
      /\ \A what : what # "Initiated" => Count(first, what) = 0
  BY <1>3, PositionsOfFew
<1> HIDE DEF first
<1>5. /\ logEntries'[e] = first
      /\ \A x \in ExecIds : x # e => logEntries'[x] = logEntries[x]
  <2>1. logEntries'[e] = logEntries[e] \o first
    BY <1>2, <1>4, EntriesAdded
  <2>2. <<>> \o first = first
    BY <1>4
  <2>3. QED
    BY <1>2, <1>4, <2>1, <2>2, EntriesAdded
<1>6. Tells(first, "InProgress")
  BY <1>4 DEF Tells
<1>7. \A x \in ExecIds : Tells(logEntries'[x], rescueStatus'[x])
  BY <1>2, <1>5, <1>6 DEF TellsInv
<1>8. \A x \in ExecIds : Tells(saved'.logEntries[x], saved'.rescueStatus[x])
  BY <1>2 DEF TellsInv
<1>9. ~(Count(logEntries'[tx'.plan.execId], "StepCompleted") > 0)
  BY <1>1, <1>2, <1>4, <1>5
<1>10. QED
  BY <1>2, <1>7, <1>8, <1>9 DEF TellsInv

LEMMA FinishTells ==
  ASSUME TypeInv, ControlInv, TellsInv, FinishRescue
  PROVE  TellsInv'
<1> DEFINE outcome == IF tx.succeeded THEN "Completed" ELSE "Failed"
<1>1. PICK e \in ExecIds : e = tx.plan.execId
  BY RunningPlan, PlanFacts DEF TypeInv, FinishRescue
<1>2. /\ ~Idle /\ rescueStatus[e] = "InProgress" /\ logEntries[e] # <<>> /\ Idle'
  BY <1>1, NoTxTyped DEF FinishRescue, ControlInv, NoStuckLocks, StatusLogged, HasEntries
<1>3. /\ logEntries \in [ExecIds -> Seq(LogEntry)] /\ rescueStatus \in [ExecIds -> RescueStatus]
      /\ AddEntries(e, <<Entry(outcome)>>)
      /\ rescueStatus' = [rescueStatus EXCEPT ![e] = outcome]
  BY <1>1 DEF TypeInv, OwnTypeOK, FinishRescue
<1>4. /\ Tells(logEntries[e], "InProgress")
      /\ outcome = "Completed" => Count(logEntries[e], "StepCompleted") > 0
      /\ outcome = "Failed" => ~(Count(logEntries[e], "StepCompleted") > 0)
  BY <1>1, <1>2 DEF TellsInv
<1>5. outcome \in {"Completed", "Failed"}
  OBVIOUS
<1> HIDE DEF outcome
<1> DEFINE log == logEntries[e]
           last == <<Entry(outcome)>>
<1>6. /\ Entry(outcome) \in LogEntry /\ Entry(outcome).what = outcome
  BY <1>5 DEF Entry, LogEntry, LogKinds
<1>7. /\ last \in Seq(LogEntry) /\ Positions(last, "Initiated") = {}
      /\ \A what : Count(last, what) = IF what = outcome THEN 1 ELSE 0
  BY <1>5, <1>6, PositionsOfFew
<1>8. log \in Seq(LogEntry) /\ log # <<>> /\ \A what : Count(log, what) \in Nat
  BY <1>2, <1>3, PositionsFinite
<1>9. AddEntries(e, last)
  BY <1>3
<1> HIDE DEF last
<1>10. /\ logEntries'[e] = log \o last
       /\ \A x \in ExecIds : x # e => logEntries'[x] = logEntries[x]
  BY <1>3, <1>7, <1>9, EntriesAdded
<1>11. /\ Positions(log \o last, "Initiated") = {1}
       /\ \A what : Count(log \o last, what) = Count(log, what) + Count(last, what)
  <2>1. Positions(log, "Initiated") = {1}
    BY <1>4, <1>8 DEF Tells
  <2> HIDE DEF log
  <2>2. Positions(log \o last, "Initiated")
            = Positions(log, "Initiated") \cup {Len(log) + i : i \in Positions(last, "Initiated")}
    BY <1>7, <1>8, PositionsAdded
  <2>3. Positions(log \o last, "Initiated") = {1}
    BY <1>7, <2>1, <2>2
  <2>4. ASSUME NEW what PROVE Count(log \o last, what) = Count(log, what) + Count(last, what)
    BY <1>7, <1>8, PositionsAdded
  <2>5. QED
    BY <2>3, <2>4
<1>12. Tells(log \o last, outcome)
  BY <1>4, <1>5, <1>7, <1>8, <1>11 DEF Tells
<1>13. \A x \in ExecIds : Tells(logEntries'[x], rescueStatus'[x])
  BY <1>3, <1>10, <1>12 DEF TellsInv
<1>14. QED
  BY <1>2, <1>13 DEF TellsInv

LEMMA OtherTells ==
  ASSUME TypeInv, TellsInv,
         \/ RevertRescue
         \/ Configure
         \/ \E a \in 1..executorBalance : ExecutorEmergencyWithdraw(a)
         \/ ReceiveNative
         \/ EscrowOnly
         \/ \E id \in EscrowIds : SettleRecord(id)
         \/ UNCHANGED allVars
  PROVE  TellsInv'
<1>1. CASE RevertRescue
  <2>1. Idle' /\ ~Idle /\ logEntries' = saved.logEntries /\ rescueStatus' = saved.rescueStatus
    BY <1>1, NoTxTyped DEF RevertRescue
  <2>2. QED
    BY <2>1 DEF TellsInv
<1>2. CASE UNCHANGED <<logEntries, statusVars, txVars>>
  BY <1>2 DEF TellsInv, statusVars, txVars, Idle
<1>3. ASSUME NEW id \in EscrowIds, SettleRecord(id)
      PROVE  TellsInv'
  <2>1. Idle' /\ rescueStatus' = rescueStatus
    BY <1>3 DEF SettleRecord, statusVars, txVars, Idle
  <2>2. /\ EscrowEntries(id[1]) \in Seq(LogEntry) /\ Quiet(EscrowEntries(id[1]))
        /\ ~HasEntries(id[1]) => EscrowEntries(id[1]) = <<>>
    BY EntryTyped, QuietEntries, NoEntriesUnlogged
  <2>3. AddEntries(id[1], EscrowEntries(id[1]))
    BY <1>3 DEF SettleRecord
  <2>4. QED
    BY <2>1, <2>2, <2>3, TellsKept
<1>4. QED
  BY <1>1, <1>2, <1>3
     DEF Configure, ExecutorEmergencyWithdraw, ReceiveNative, EscrowOnly, allVars, executorVars

LEMMA LegTells ==
  ASSUME TypeInv, TellsInv, NEW c \in Callers, NEW p \in Plans,
         \/ \E i \in DOMAIN p.steps, w \in Amounts : SameChainLeg(c, p, p.steps[i], w)
         \/ \E ch \in Chains, a \in Amounts, fee \in Fees : InitiateCrossChainLeg(c, p, ch, a, fee)
  PROVE  TellsInv'
<1>1. p.execId \in ExecIds /\ p.user \in Users /\ OwnTypeOK
  BY PlanFacts DEF TypeInv
<1>2. Idle' /\ rescueStatus' = rescueStatus
  BY DEF SameChainLeg, InitiateCrossChainLeg, statusVars, txVars, Idle
<1>3. ASSUME NEW i \in DOMAIN p.steps, NEW w \in Amounts, SameChainLeg(c, p, p.steps[i], w)
      PROVE  TellsInv'
  <2> DEFINE s == EscrowFundsEntries(p.execId, p.steps[i].stepIndex)
  <2>1. s \in Seq(LogEntry) /\ Quiet(s) /\ (~HasEntries(p.execId) => s = <<>>)
    BY <1>1, EntriesTyped, QuietEntries, NoEntriesUnlogged
  <2>2. AddEntries(p.execId, s) \/ UNCHANGED logEntries
    BY <1>3 DEF SameChainLeg
  <2> HIDE DEF s
  <2>3. QED
    BY <1>2, <2>1, <2>2, TellsKept
<1>4. ASSUME NEW ch \in Chains, NEW a \in Amounts, NEW fee \in Fees,
             InitiateCrossChainLeg(c, p, ch, a, fee)
      PROVE  TellsInv'
  <2> DEFINE s == <<SentEntry(Len(sentMessages'))>>
  <2>1. a \in Nat
    BY AmountsPositive
  <2>2. SentEntry(Len(sentMessages')) \in LogEntry /\ Len(sentMessages') \in Nat
    BY <1>1, <1>4, <2>1, MessageSent DEF InitiateCrossChainLeg, OwnTypeOK
  <2>3. s \in Seq(LogEntry) /\ Quiet(s)
    BY <2>2, QuietEntries
  <2>4. AddEntries(p.execId, s) /\ HasEntries(p.execId)
    BY <1>4 DEF InitiateCrossChainLeg
  <2> HIDE DEF s
  <2>5. QED
    BY <1>2, <2>3, <2>4, TellsKept
<1>5. QED
  BY <1>3, <1>4

\* An execution's log starts with its only "Initiated", gives every started step
\* an outcome, and ends as its status says.
THEOREM ExecutorLogsTruth == ExecutorSpec => []LogTellsStatus
<1>1. ExecutorInit => TellsInv
  <2> SUFFICES ASSUME ExecutorInit PROVE TellsInv
    OBVIOUS
  <2>1. Idle /\ \A e \in ExecIds : logEntries[e] = <<>> /\ rescueStatus[e] = "None"
    BY DEF ExecutorInit, NoTx, Idle
  <2>2. QED
    BY <2>1, PositionsOfFew DEF TellsInv, Tells
<1>2. TypeInv /\ ControlInv /\ TellsInv /\ [ExecutorNext]_allVars => TellsInv'
  <2> SUFFICES ASSUME TypeInv, ControlInv, TellsInv, [ExecutorNext]_allVars PROVE TellsInv'
    OBVIOUS
  <2>1. CASE RescueStepNext
    BY <2>1, StepTells
  <2>2. ASSUME NEW c \in Callers, NEW p \in Plans, BeginRescue(c, p)
        PROVE  TellsInv'
    BY <2>2, BeginTells
  <2>3. CASE FinishRescue
    BY <2>3, FinishTells
  <2>4. ASSUME NEW c \in Callers, NEW p \in Plans,
               \/ \E i \in DOMAIN p.steps, w \in Amounts : SameChainLeg(c, p, p.steps[i], w)
               \/ \E ch \in Chains, a \in Amounts, fee \in Fees :
                      InitiateCrossChainLeg(c, p, ch, a, fee)
        PROVE  TellsInv'
    BY <2>4, LegTells
  <2>5. CASE \/ RevertRescue
             \/ Configure
             \/ \E a \in 1..executorBalance : ExecutorEmergencyWithdraw(a)
             \/ ReceiveNative
             \/ EscrowOnly
             \/ \E id \in EscrowIds : SettleRecord(id)
             \/ UNCHANGED allVars
    BY <2>5, OtherTells
  <2>6. QED
    BY <2>1, <2>2, <2>3, <2>4, <2>5 DEF ExecutorNext
<1>3. TypeInv /\ ControlInv /\ TellsInv => LogTellsStatus
  <2> SUFFICES ASSUME TypeInv, ControlInv, TellsInv, NEW e \in ExecIds
               PROVE  /\ rescueStatus[e] = "None" <=> ~HasEntries(e)
                      /\ HasEntries(e) => Logged(e, "Initiated") = {1}
                      /\ Cardinality(Logged(e, "Started"))
                            = Cardinality(Logged(e, "StepCompleted"))
                                + Cardinality(Logged(e, "StepFailed"))
                      /\ \A outcome \in {"Completed", "Failed"} :
                            Cardinality(Logged(e, outcome))
                                = IF rescueStatus[e] = outcome THEN 1 ELSE 0
                      /\ rescueStatus[e] = "Completed" => Logged(e, "StepCompleted") # {}
                      /\ rescueStatus[e] = "Failed" => Logged(e, "StepCompleted") = {}
    BY DEF LogTellsStatus
  <2>1. \A what : /\ Logged(e, what) = Positions(logEntries[e], what)
                  /\ Cardinality(Logged(e, what)) = Count(logEntries[e], what)
    BY DEF Logged, Positions, Count
  <2>2. logEntries[e] \in Seq(LogEntry) /\ Tells(logEntries[e], rescueStatus[e])
    BY DEF TypeInv, OwnTypeOK, TellsInv
  <2>3. Count(logEntries[e], "StepCompleted") = 0 <=> Positions(logEntries[e], "StepCompleted") = {}
    BY <2>2, PositionsFinite
  <2>4. QED
    BY <2>1, <2>2, <2>3 DEF Tells, ControlInv, StatusLogged, HasEntries
<1>4. QED
  BY <1>1, <1>2, <1>3, TypeInductive, ControlInductive, PTL DEF ExecutorSpec
-----------------------------------------------------------------------------
(* The messages a log names. *)

Named(log) == {log[i].message : i \in Positions(log, "Sent")}

SentFor(msgs, e) == {k \in DOMAIN msgs : msgs[k].execId = e}

Links(log, msgs, id, e) ==
    /\ Named(log) = SentFor(msgs, e)
    /\ id \in SentFor(msgs, e) \cup {0}
    /\ \A k \in SentFor(msgs, e) : k <= id

\* The logs name the messages sent, and would after a revert.
LinksInv ==
    /\ \A e \in ExecIds : Links(logEntries[e], sentMessages, ccipMessageIds[e], e)
    /\ ~Idle => \A e \in ExecIds :
                    Links(saved.logEntries[e], saved.sentMessages, saved.ccipMessageIds[e], e)

LEMMA NamedAdded ==
  ASSUME NEW s \in Seq(LogEntry), NEW t \in Seq(LogEntry)
  PROVE  Named(s \o t) = Named(s) \cup Named(t)
<1> DEFINE A == Positions(s, "Sent")
           B == Positions(t, "Sent")
<1>1. Positions(s \o t, "Sent") = A \cup {Len(s) + i : i \in B}
  BY PositionsAdded
<1>2. \A i \in A : (s \o t)[i] = s[i]
  BY DEF Positions
<1>3. \A i \in B : (s \o t)[Len(s) + i] = t[i]
  BY DEF Positions
<1> HIDE DEF A, B
<1>4. \A m : m \in Named(s \o t) <=> m \in Named(s) \/ m \in Named(t)
  <2>1. ASSUME NEW m \in Named(s \o t) PROVE m \in Named(s) \/ m \in Named(t)
    <3>1. PICK i \in Positions(s \o t, "Sent") : m = (s \o t)[i].message
      BY DEF Named
    <3>2. i \in A \/ \E j \in B : i = Len(s) + j
      BY <1>1
    <3>3. QED
      BY <1>2, <1>3, <3>1, <3>2 DEF Named, A, B
  <2>2. ASSUME NEW m \in Named(s) PROVE m \in Named(s \o t)
    BY <1>1, <1>2 DEF Named, A
  <2>3. ASSUME NEW m \in Named(t) PROVE m \in Named(s \o t)
    <3>1. PICK j \in B : m = t[j].message
      BY DEF Named, B
    <3>2. Len(s) + j \in Positions(s \o t, "Sent")
      BY <1>1
    <3>3. QED
      BY <1>3, <3>1, <3>2 DEF Named
  <2>4. QED
    BY <2>1, <2>2, <2>3
<1>5. QED
  BY <1>4

\* Only the entry of a message names one.
LEMMA NamedByFew ==
  /\ Named(<<>>) = {}
  /\ \A what \in LogKinds \ {"Sent"} : Named(<<Entry(what)>>) = {}
  /\ \A m \in Nat : Named(<<SentEntry(m)>>) = {m}
  /\ \A x : Named(EscrowEntries(x)) = {}
  /\ \A e \in ExecIds : \A n : Named(EscrowFundsEntries(e, n)) = {}
<1>1. Named(<<>>) = {}
  BY PositionsOfFew DEF Named
<1>2. \A what \in LogKinds \ {"Sent"} : Named(<<Entry(what)>>) = {}
  <2> SUFFICES ASSUME NEW what \in LogKinds \ {"Sent"} PROVE Named(<<Entry(what)>>) = {}
    OBVIOUS
  <2>1. Entry(what) \in LogEntry /\ Entry(what).what # "Sent"
    BY DEF Entry, LogEntry
  <2>2. Positions(<<Entry(what)>>, "Sent") = {}
    BY <2>1, PositionsOfFew
  <2>3. QED
    BY <2>2 DEF Named
<1>3. \A m \in Nat : Named(<<SentEntry(m)>>) = {m}
  <2> SUFFICES ASSUME NEW m \in Nat PROVE Named(<<SentEntry(m)>>) = {m}
    OBVIOUS
  <2>1. SentEntry(m) \in LogEntry /\ SentEntry(m).what = "Sent" /\ SentEntry(m).message = m
    BY DEF SentEntry, LogEntry, LogKinds
  <2>2. Positions(<<SentEntry(m)>>, "Sent") = {1}
    BY <2>1, PositionsOfFew
  <2>3. QED
    BY <2>1, <2>2 DEF Named
<1>4. /\ Named(<<Entry("EscrowEvent")>>) = {} /\ Named(<<Entry("Escrowed")>>) = {}
      /\ Entry("EscrowEvent") \in LogEntry /\ Entry("Escrowed") \in LogEntry
  BY <1>2, EntryTyped DEF LogKinds
<1>5. \A x : /\ Named(EscrowEntries(x)) = {} /\ EscrowEntries(x) \in Seq(LogEntry)
             /\ Named(EscrowedEntries(x)) = {} /\ EscrowedEntries(x) \in Seq(LogEntry)
  BY <1>1, <1>4 DEF EscrowEntries, EscrowedEntries
<1>6. \A x : Named(EscrowEntries(x) \o EscrowedEntries(x)) = {}
  BY <1>5, NamedAdded
<1>7. \A e \in ExecIds : \A n : Named(EscrowFundsEntries(e, n)) = {}
  BY <1>1, <1>6 DEF EscrowFundsEntries
<1>8. QED
  BY <1>1, <1>2, <1>3, <1>5, <1>7

\* A step's log names what the entries between its "started" and its outcome name.
LEMMA StepNames ==
  ASSUME NEW s \in Seq(LogEntry), NEW o \in {"StepCompleted", "StepFailed"}
  PROVE  /\ <<Entry("Started")>> \o s \o <<Entry(o)>> \in Seq(LogEntry)
         /\ Named(<<Entry("Started")>> \o s \o <<Entry(o)>>) = Named(s)
<1> DEFINE a == <<Entry("Started")>>
           b == <<Entry(o)>>
           c == a \o s
<1>1. Entry("Started") \in LogEntry /\ Entry(o) \in LogEntry
  BY DEF Entry, LogEntry, LogKinds
<1>2. a \in Seq(LogEntry) /\ b \in Seq(LogEntry) /\ c \in Seq(LogEntry) /\ c \o b \in Seq(LogEntry)
  BY <1>1
<1>3. Named(a) = {} /\ Named(b) = {}
  BY NamedByFew DEF LogKinds
<1> HIDE DEF a, b
<1>4. Named(c) = Named(s)
  <2>1. Named(a \o s) = Named(a) \cup Named(s)
    BY <1>2, NamedAdded
  <2>2. QED
    BY <1>3, <2>1
<1> HIDE DEF c
<1>5. Named(c \o b) = Named(s)
  <2>1. Named(c \o b) = Named(c) \cup Named(b)
    BY <1>2, NamedAdded
  <2>2. QED
    BY <1>3, <1>4, <2>1
<1>6. QED
  BY <1>2, <1>5 DEF a, b, c

\* Entries that name no message keep the links.
LEMMA NothingNamed ==
  ASSUME TypeInv, LinksInv, UNCHANGED <<sentMessages, ccipMessageIds>>,
         NEW e, NEW s \in Seq(LogEntry), Named(s) = {},
         AddEntries(e, s) \/ UNCHANGED logEntries
  PROVE  \A x \in ExecIds : Links(logEntries'[x], sentMessages', ccipMessageIds'[x], x)
<1> SUFFICES ASSUME NEW x \in ExecIds
             PROVE  Links(logEntries'[x], sentMessages', ccipMessageIds'[x], x)
  OBVIOUS
<1>1. Links(logEntries[x], sentMessages, ccipMessageIds[x], x)
      /\ logEntries \in [ExecIds -> Seq(LogEntry)] /\ logEntries[x] \in Seq(LogEntry)
  BY DEF LinksInv, TypeInv, OwnTypeOK
<1>2. Named(logEntries'[x]) = Named(logEntries[x])
  <2>1. CASE x = e /\ AddEntries(e, s)
    <3>1. logEntries'[x] = logEntries[x] \o s
      BY <1>1, <2>1, EntriesAdded
    <3>2. Named(logEntries[x] \o s) = Named(logEntries[x]) \cup Named(s)
      BY <1>1, NamedAdded
    <3>3. QED
      BY <3>1, <3>2
  <2>2. CASE x # e /\ AddEntries(e, s)
    BY <1>1, <2>2, EntriesAdded
  <2>3. CASE UNCHANGED logEntries
    BY <2>3
  <2>4. QED
    BY <2>1, <2>2, <2>3
<1>3. QED
  BY <1>1, <1>2 DEF Links

\* A message sent and named in its execution's log keeps the links.
LEMMA MessageNamed ==
  ASSUME TypeInv, LinksInv, NEW ch, NEW e \in ExecIds, NEW u \in Users, NEW a \in Nat,
         NEW fee \in Fees, SendCCIPMessage(ch, e, u, a, fee),
         NEW s \in Seq(LogEntry), Named(s) = {Len(sentMessages')}, AddEntries(e, s)
  PROVE  \A x \in ExecIds : Links(logEntries'[x], sentMessages', ccipMessageIds'[x], x)
<1> DEFINE n == Len(sentMessages)
<1>1. /\ sentMessages \in Seq(SentMessage) /\ n \in Nat /\ DOMAIN sentMessages = 1..n
      /\ logEntries \in [ExecIds -> Seq(LogEntry)] /\ ccipMessageIds \in [ExecIds -> Nat]
  BY DEF TypeInv, OwnTypeOK
<1>2. PICK m \in SentMessage : m.execId = e /\ sentMessages' = Append(sentMessages, m)
  BY DEF SendCCIPMessage, SentMessage
<1>3. /\ Len(sentMessages') = n + 1 /\ DOMAIN sentMessages' = 1..(n + 1)
      /\ sentMessages'[n + 1] = m /\ \A k \in 1..n : sentMessages'[k] = sentMessages[k]
  BY <1>1, <1>2
<1>4. ccipMessageIds' = [ccipMessageIds EXCEPT ![e] = n + 1]
  BY <1>3 DEF SendCCIPMessage
<1> HIDE DEF n
<1>5. \A x \in ExecIds : SentFor(sentMessages', x)
                             = IF x = e THEN SentFor(sentMessages, x) \cup {n + 1}
                                        ELSE SentFor(sentMessages, x)
  BY <1>1, <1>2, <1>3 DEF SentFor
<1>6. ASSUME NEW x \in ExecIds PROVE Links(logEntries'[x], sentMessages', ccipMessageIds'[x], x)
  <2>1. Links(logEntries[x], sentMessages, ccipMessageIds[x], x) /\ logEntries[x] \in Seq(LogEntry)
    BY <1>1 DEF LinksInv
  <2>2. CASE x = e
    <3>1. logEntries'[x] = logEntries[x] \o s
      BY <1>1, <2>2, EntriesAdded
    <3>2. Named(logEntries'[x]) = Named(logEntries[x]) \cup {n + 1}
      BY <1>3, <2>1, <3>1, NamedAdded
    <3>3. SentFor(sentMessages', x) = SentFor(sentMessages, x) \cup {n + 1}
          /\ ccipMessageIds'[x] = n + 1
      BY <1>1, <1>4, <1>5, <2>2
    <3>4. \A k \in SentFor(sentMessages, x) : k <= n + 1
      BY <1>1 DEF SentFor
    <3>5. QED
      BY <1>1, <2>1, <3>2, <3>3, <3>4 DEF Links
  <2>3. CASE x # e
    <3>1. logEntries'[x] = logEntries[x] /\ ccipMessageIds'[x] = ccipMessageIds[x]
      BY <1>1, <1>4, <2>3, EntriesAdded
    <3>2. SentFor(sentMessages', x) = SentFor(sentMessages, x)
      BY <1>5, <2>3
    <3>3. QED
      BY <2>1, <3>1, <3>2 DEF Links
  <2>4. QED
    BY <2>2, <2>3
<1>7. QED
  BY <1>6

LEMMA StepLinks ==
  ASSUME TypeInv, LinksInv, RescueStepNext
  PROVE  LinksInv'
<1>1. PICK e \in ExecIds : e = tx.plan.execId
  BY ReadyStep, PlanFacts DEF TypeInv, RescueStepNext, SkipStep
<1>2. StepReady /\ ~Idle /\ OwnTypeOK /\ tx.plan.user \in Users
  BY ReadyStep, PlanFacts DEF TypeInv, RescueStepNext, SkipStep
<1>3. TRUE \in BOOLEAN /\ FALSE \in BOOLEAN
  OBVIOUS
<1>4. ASSUME StepDone(TRUE) \/ StepDone(FALSE),
             \A x \in ExecIds : Links(logEntries'[x], sentMessages', ccipMessageIds'[x], x)
      PROVE  LinksInv'
  <2>1. Advanced
    BY <1>2, <1>3, <1>4, StepDoneTyped, Zenon
  <2>2. saved' = saved
    BY <2>1 DEF Advanced
  <2>3. QED
    BY <1>2, <1>4, <2>2 DEF LinksInv
<1>5. ASSUME NEW s \in Seq(LogEntry), LogStep(s, TRUE) \/ LogStep(s, FALSE)
      PROVE  \E all \in Seq(LogEntry) : Named(all) = Named(s) /\ AddEntries(e, all)
  <2>1. PICK o \in {"StepCompleted", "StepFailed"} :
            AddEntries(e, <<Entry("Started")>> \o s \o <<Entry(o)>>)
    <3>1. CASE LogStep(s, TRUE)
      BY <1>1, <3>1 DEF LogStep
    <3>2. CASE LogStep(s, FALSE)
      BY <1>1, <3>2 DEF LogStep
    <3>3. QED
      BY <1>5, <3>1, <3>2
  <2>2. QED
    BY <2>1, StepNames
<1>6. ASSUME NEW s \in Seq(LogEntry), Named(s) = {}, UNCHANGED sendVars,
             LogStep(s, TRUE) \/ LogStep(s, FALSE)
      PROVE  \A x \in ExecIds : Links(logEntries'[x], sentMessages', ccipMessageIds'[x], x)
  <2>1. PICK all \in Seq(LogEntry) : Named(all) = {} /\ AddEntries(e, all)
    BY <1>5, <1>6, Zenon
  <2>2. UNCHANGED <<sentMessages, ccipMessageIds>>
    BY <1>6 DEF sendVars
  <2>3. QED
    BY <2>1, <2>2, NothingNamed
<1>7. <<>> \in Seq(LogEntry) /\ Named(<<>>) = {}
  BY NamedByFew
<1>8. CASE SkipStep
  <2>1. LogStep(<<>>, FALSE) /\ StepDone(FALSE) /\ UNCHANGED sendVars
    BY <1>8, Zenon DEF SkipStep
  <2>2. QED
    BY <1>4, <1>6, <1>7, <2>1, Zenon
<1>9. ASSUME NEW w \in Amounts, ApplyStep(w)
      PROVE  LinksInv'
  <2>1. LogStep(<<>>, TRUE) /\ StepDone(TRUE) /\ UNCHANGED sendVars
    BY <1>9, Zenon DEF ApplyStep
  <2>2. QED
    BY <1>4, <1>6, <1>7, <2>1, Zenon
<1>10. ASSUME NEW w \in Amounts, EscrowStepFunds(w)
       PROVE  LinksInv'
  <2> DEFINE s == EscrowFundsEntries(tx.plan.execId, CurrentStep.stepIndex)
  <2>1. s \in Seq(LogEntry) /\ Named(s) = {}
    BY <1>1, EntriesTyped, NamedByFew
  <2>2. LogStep(s, FALSE) /\ StepDone(FALSE) /\ UNCHANGED sendVars
    BY <1>10, Zenon DEF EscrowStepFunds
  <2> HIDE DEF s
  <2>3. QED
    BY <1>4, <1>6, <2>1, <2>2, Zenon
<1>11. ASSUME NEW w \in Amounts, NEW fee \in Fees, SendStep(w, fee)
       PROVE  LinksInv'
  <2> DEFINE s == <<SentEntry(Len(sentMessages'))>>
  <2>1. w \in Nat /\ SendCCIPMessage(CurrentStep.targetChain, e, tx.plan.user, w, fee)
    BY <1>1, <1>11, AmountsPositive DEF SendStep
  <2>2. SentEntry(Len(sentMessages')) \in LogEntry /\ Len(sentMessages') \in Nat
    BY <1>2, <2>1, MessageSent DEF OwnTypeOK
  <2>3. s \in Seq(LogEntry) /\ Named(s) = {Len(sentMessages')}
    BY <2>2, NamedByFew
  <2>4. LogStep(s, TRUE) /\ StepDone(TRUE)
    BY <1>11, Zenon DEF SendStep
  <2> HIDE DEF s
  <2>5. PICK all \in Seq(LogEntry) : Named(all) = Named(s) /\ AddEntries(e, all)
    BY <1>5, <2>3, <2>4, Zenon
  <2>6. \A x \in ExecIds : Links(logEntries'[x], sentMessages', ccipMessageIds'[x], x)
    BY <1>2, <2>1, <2>3, <2>5, MessageNamed
  <2>7. QED
    BY <1>4, <2>4, <2>6, Zenon
<1>12. QED
  BY <1>8, <1>9, <1>10, <1>11 DEF RescueStepNext

\* A rescue begins with what it would restore, and its first and last entries
\* name no message.
LEMMA EndsLink ==
  ASSUME TypeInv, LinksInv,
         FinishRescue \/ \E c \in Callers, p \in Plans : BeginRescue(c, p)
  PROVE  LinksInv'
<1>1. \E what \in LogKinds \ {"Sent"} : \E e : AddEntries(e, <<Entry(what)>>)
  <2>1. {"Initiated", "Completed", "Failed"} \subseteq LogKinds \ {"Sent"}
    BY DEF LogKinds
  <2>2. CASE FinishRescue
    <3> DEFINE outcome == IF tx.succeeded THEN "Completed" ELSE "Failed"
    <3>1. outcome \in LogKinds \ {"Sent"} /\ AddEntries(tx.plan.execId, <<Entry(outcome)>>)
      BY <2>1, <2>2 DEF FinishRescue
    <3> HIDE DEF outcome
    <3>2. QED
      BY <3>1
  <2>3. ASSUME NEW c \in Callers, NEW p \in Plans, BeginRescue(c, p)
        PROVE  \E what \in LogKinds \ {"Sent"} : \E e : AddEntries(e, <<Entry(what)>>)
    BY <2>1, <2>3 DEF BeginRescue
  <2>4. QED
    BY <2>2, <2>3
<1>2. PICK what \in LogKinds \ {"Sent"} : \E e : AddEntries(e, <<Entry(what)>>)
  BY <1>1
<1>3. UNCHANGED <<sentMessages, ccipMessageIds>>
  BY DEF FinishRescue, BeginRescue, sendVars
<1>4. \A x \in ExecIds : Links(logEntries'[x], sentMessages', ccipMessageIds'[x], x)
  <2> DEFINE s == <<Entry(what)>>
  <2>1. PICK e : AddEntries(e, s)
    BY <1>2
  <2>2. s \in Seq(LogEntry) /\ Named(s) = {}
    BY EntryTyped, NamedByFew
  <2> HIDE DEF s
  <2>3. QED
    BY <1>3, <2>1, <2>2, NothingNamed
<1>5. CASE FinishRescue
  <2>1. Idle'
    BY <1>5, NoTxTyped DEF FinishRescue
  <2>2. QED
    BY <1>4, <2>1 DEF LinksInv
<1>6. CASE \E c \in Callers, p \in Plans : BeginRescue(c, p)
  <2>1. /\ saved'.logEntries = logEntries /\ saved'.sentMessages = sentMessages
        /\ saved'.ccipMessageIds = ccipMessageIds
    BY <1>6 DEF BeginRescue, Snapshot
  <2>2. QED
    BY <1>4, <2>1 DEF LinksInv
<1>7. QED
  BY <1>5, <1>6

LEMMA OtherLinks ==
  ASSUME TypeInv, LinksInv,
         \/ RevertRescue
         \/ Configure
         \/ \E a \in 1..executorBalance : ExecutorEmergencyWithdraw(a)
         \/ ReceiveNative
         \/ EscrowOnly
         \/ \E id \in EscrowIds : SettleRecord(id)
         \/ UNCHANGED allVars
  PROVE  LinksInv'
<1>1. CASE RevertRescue
  <2>1. /\ Idle' /\ ~Idle /\ logEntries' = saved.logEntries
        /\ sentMessages' = saved.sentMessages /\ ccipMessageIds' = saved.ccipMessageIds
    BY <1>1, NoTxTyped DEF RevertRescue
  <2>2. QED
    BY <2>1 DEF LinksInv
<1>2. CASE UNCHANGED <<logEntries, sentMessages, ccipMessageIds, txVars>>
  BY <1>2 DEF LinksInv, txVars, Idle
<1>3. ASSUME NEW id \in EscrowIds, SettleRecord(id)
      PROVE  LinksInv'
  <2>1. Idle' /\ UNCHANGED <<sentMessages, ccipMessageIds>>
    BY <1>3 DEF SettleRecord, sendVars, txVars, Idle
  <2>2. EscrowEntries(id[1]) \in Seq(LogEntry) /\ Named(EscrowEntries(id[1])) = {}
    BY EntryTyped, NamedByFew
  <2>3. AddEntries(id[1], EscrowEntries(id[1]))
    BY <1>3 DEF SettleRecord
  <2>4. \A x \in ExecIds : Links(logEntries'[x], sentMessages', ccipMessageIds'[x], x)
    BY <2>1, <2>2, <2>3, NothingNamed
  <2>5. QED
    BY <2>1, <2>4 DEF LinksInv
<1>4. QED
  BY <1>1, <1>2, <1>3
     DEF Configure, ExecutorEmergencyWithdraw, ReceiveNative, EscrowOnly, allVars, executorVars, sendVars

LEMMA LegLinks ==
  ASSUME TypeInv, LinksInv, NEW c \in Callers, NEW p \in Plans,
         \/ \E i \in DOMAIN p.steps, w \in Amounts : SameChainLeg(c, p, p.steps[i], w)
         \/ \E ch \in Chains, a \in Amounts, fee \in Fees : InitiateCrossChainLeg(c, p, ch, a, fee)
  PROVE  LinksInv'
<1>1. p.execId \in ExecIds /\ p.user \in Users /\ OwnTypeOK
  BY PlanFacts DEF TypeInv
<1>2. Idle'
  BY DEF SameChainLeg, InitiateCrossChainLeg, txVars, Idle
<1>3. ASSUME NEW i \in DOMAIN p.steps, NEW w \in Amounts, SameChainLeg(c, p, p.steps[i], w)
      PROVE  LinksInv'
  <2> DEFINE s == EscrowFundsEntries(p.execId, p.steps[i].stepIndex)
  <2>1. s \in Seq(LogEntry) /\ Named(s) = {}
    BY <1>1, EntriesTyped, NamedByFew
  <2>2. AddEntries(p.execId, s) \/ UNCHANGED logEntries
    BY <1>3 DEF SameChainLeg
  <2>3. UNCHANGED <<sentMessages, ccipMessageIds>>
    BY <1>3 DEF SameChainLeg, sendVars
  <2> HIDE DEF s
  <2>4. QED
    BY <1>2, <2>1, <2>2, <2>3, NothingNamed DEF LinksInv
<1>4. ASSUME NEW ch \in Chains, NEW a \in Amounts, NEW fee \in Fees,
             InitiateCrossChainLeg(c, p, ch, a, fee)
      PROVE  LinksInv'
  <2> DEFINE s == <<SentEntry(Len(sentMessages'))>>
  <2>1. a \in Nat /\ SendCCIPMessage(ch, p.execId, p.user, a, fee)
    BY <1>4, AmountsPositive DEF InitiateCrossChainLeg
  <2>2. SentEntry(Len(sentMessages')) \in LogEntry /\ Len(sentMessages') \in Nat
    BY <1>1, <2>1, MessageSent DEF OwnTypeOK
  <2>3. s \in Seq(LogEntry) /\ Named(s) = {Len(sentMessages')}
    BY <2>2, NamedByFew
  <2>4. AddEntries(p.execId, s)
    BY <1>4 DEF InitiateCrossChainLeg
  <2> HIDE DEF s
  <2>5. \A x \in ExecIds : Links(logEntries'[x], sentMessages', ccipMessageIds'[x], x)
    BY <1>1, <2>1, <2>3, <2>4, MessageNamed
  <2>6. QED
    BY <1>2, <2>5 DEF LinksInv
<1>5. QED
  BY <1>3, <1>4

\* An execution's log names exactly the messages sent for it, and its recorded
\* message is the last of them.
THEOREM ExecutorLinksMessages == ExecutorSpec => []MessagesLinked
<1>1. ExecutorInit => LinksInv
  <2> SUFFICES ASSUME ExecutorInit PROVE LinksInv
    OBVIOUS
  <2>1. Idle /\ sentMessages = <<>>
        /\ \A e \in ExecIds : logEntries[e] = <<>> /\ ccipMessageIds[e] = 0
    BY DEF ExecutorInit, NoTx, Idle
  <2>2. \A e : SentFor(<<>>, e) = {}
    BY DEF SentFor
  <2>3. QED
    BY <2>1, <2>2, NamedByFew DEF LinksInv, Links
<1>2. TypeInv /\ LinksInv /\ [ExecutorNext]_allVars => LinksInv'
  <2> SUFFICES ASSUME TypeInv, LinksInv, [ExecutorNext]_allVars PROVE LinksInv'
    OBVIOUS
  <2>1. CASE RescueStepNext
    BY <2>1, StepLinks
  <2>2. CASE FinishRescue \/ \E c \in Callers, p \in Plans : BeginRescue(c, p)
    BY <2>2, EndsLink
  <2>3. ASSUME NEW c \in Callers, NEW p \in Plans,
               \/ \E i \in DOMAIN p.steps, w \in Amounts : SameChainLeg(c, p, p.steps[i], w)
               \/ \E ch \in Chains, a \in Amounts, fee \in Fees :
                      InitiateCrossChainLeg(c, p, ch, a, fee)
        PROVE  LinksInv'
    BY <2>3, LegLinks
  <2>4. CASE \/ RevertRescue
             \/ Configure
             \/ \E a \in 1..executorBalance : ExecutorEmergencyWithdraw(a)
             \/ ReceiveNative
             \/ EscrowOnly
             \/ \E id \in EscrowIds : SettleRecord(id)
             \/ UNCHANGED allVars
    BY <2>4, OtherLinks
  <2>5. QED
    BY <2>1, <2>2, <2>3, <2>4 DEF ExecutorNext
<1>3. LinksInv => MessagesLinked
  BY DEF LinksInv, Links, Named, SentFor, Positions, Logged, MessagesLinked
<1>4. QED
  BY <1>1, <1>2, <1>3, TypeInductive, PTL DEF ExecutorSpec
-----------------------------------------------------------------------------
(* The escrow behind the executor.  A revert is no step of the escrow: it    *)
(* takes back the deposits of the transaction.                               *)

\* What the escrow promises, of records, lists and tokens that need not be the
\* current ones.
SolventFor(records, tokens) ==
    tokens + swept = Total({id \in EscrowIds : records[id].status = "Pending"},
                           [id \in EscrowIds |-> records[id].amount]) + stray

PaidFor(records) ==
    \A u \in Users :
        paid[u] = Total({id \in EscrowIds : records[id].status = "Claimed" /\ records[id].owner = u},
                        [id \in EscrowIds |-> records[id].amount])

IndexFor(records, lists) ==
    \A u \in Users :
        /\ \A i, j \in DOMAIN lists[u] : lists[u][i] = lists[u][j] => i = j
        /\ {lists[u][i] : i \in DOMAIN lists[u]}
               = {id \in EscrowIds : records[id].status # "None" /\ records[id].owner = u}

EscrowSound(records, lists, tokens) ==
    SolventFor(records, tokens) /\ PaidFor(records) /\ IndexFor(records, lists)

SoundNow == EscrowSound(escrows, userEscrows, held)

\* What a revert would restore is sound too, and a rescue in execution has only
\* opened records since.
SavedSound ==
    ~Idle => /\ EscrowSound(saved.escrows, saved.userEscrows, saved.held)
             /\ \A id \in EscrowIds :
                    saved.escrows[id].status # "None" => escrows[id] = saved.escrows[id]

SoundInv == SoundNow /\ SavedSound

LEMMA SoundMeans == SoundNow <=> Solvent /\ PaidExactly /\ IndexComplete
<1>1. SolventFor(escrows, held) <=> Solvent
  BY DEF SolventFor, Solvent, WithStatus, AmountOf
<1>2. PaidFor(escrows) <=> PaidExactly
  <2>1. \A u \in Users : {id \in EscrowIds : escrows[id].status = "Claimed" /\ escrows[id].owner = u}
                             = {id \in WithStatus("Claimed") : escrows[id].owner = u}
    BY DEF WithStatus
  <2>2. QED
    BY <2>1 DEF PaidFor, PaidExactly, AmountOf
<1>3. IndexFor(escrows, userEscrows) <=> IndexComplete
  BY DEF IndexFor, IndexComplete
<1>4. QED
  BY <1>1, <1>2, <1>3 DEF SoundNow, EscrowSound

\* The escrow's own transactions keep it sound.
LEMMA SoundStep ==
  ASSUME EscrowTypeOK, SoundNow, [EscrowNext]_escrowVars
  PROVE  SoundNow'
<1>1. Solvent /\ PaidExactly /\ IndexComplete
  BY SoundMeans
<1>2. Solvent' /\ PaidExactly' /\ IndexComplete'
  BY <1>1, SolventStep, PaidStep, IndexStep
<1>3. (SoundNow <=> Solvent /\ PaidExactly /\ IndexComplete)'
  BY SoundMeans, PTL
<1>4. QED
  BY <1>2, <1>3

\* What was saved stays sound while it is saved and nothing is paid, swept or
\* received.
LEMMA SavedKept ==
  ASSUME UNCHANGED <<saved, paid, swept, stray>>,
         EscrowSound(saved.escrows, saved.userEscrows, saved.held)
  PROVE  EscrowSound(saved.escrows, saved.userEscrows, saved.held)'
BY DEF EscrowSound, SolventFor, PaidFor, IndexFor

\* A step of a rescue goes on with its transaction, pays nobody and opens one
\* record at most.
LEMMA StepOpens ==
  ASSUME TypeInv, RescueStepNext
  PROVE  /\ ~Idle /\ ~Idle' /\ UNCHANGED <<saved, paid, swept, stray>>
         /\ \A id \in EscrowIds : escrows[id].status # "None" => escrows'[id] = escrows[id]
<1>1. ~Idle /\ ~Idle'
  <2>1. ~Idle
    BY DEF RescueStepNext, SkipStep, StepReady
  <2>2. \E ok : tx' = [tx EXCEPT !.next = @ + 1, !.succeeded = @ \/ ok]
    BY DEF RescueStepNext, SkipStep, ApplyStep, SendStep, EscrowStepFunds, StepDone
  <2>3. tx \in Transaction
    BY DEF TypeInv, OwnTypeOK
  <2>4. QED
    BY <2>1, <2>2, <2>3 DEF Transaction, Idle
<1>2. saved' = saved
  BY DEF RescueStepNext, SkipStep, ApplyStep, SendStep, EscrowStepFunds, StepDone
<1>3. \/ UNCHANGED <<escrows, paid, swept, stray>>
      \/ \E w \in Amounts : EscrowStepFunds(w)
  BY DEF RescueStepNext, SkipStep, ApplyStep, SendStep, escrowVars
<1>4. ASSUME NEW w \in Amounts, EscrowStepFunds(w)
      PROVE  \/ UNCHANGED <<escrows, paid, swept, stray>>
             \/ \E e, r : /\ escrows[e].status = "None"
                          /\ escrows' = [escrows EXCEPT ![e] = r]
                          /\ UNCHANGED <<paid, swept, stray>>
  BY <1>4 DEF EscrowStepFunds, EscrowFunds, DepositFailedTransfer, DepositAllowed, escrowVars
<1>5. escrows \in [EscrowIds -> EscrowRecord]
  BY DEF TypeInv, EscrowTypeOK
<1>6. QED
  BY <1>1, <1>2, <1>3, <1>4, <1>5

LEMMA BeginSaves ==
  ASSUME SoundNow, NEW c \in Callers, NEW p \in Plans, BeginRescue(c, p)
  PROVE  SavedSound'
<1>1. /\ saved' = Snapshot
      /\ UNCHANGED <<escrows, userEscrows, held, paid, swept, stray>>
  BY DEF BeginRescue, escrowVars
<1>2. saved'.escrows = escrows /\ saved'.userEscrows = userEscrows /\ saved'.held = held
  BY <1>1 DEF Snapshot
<1>3. EscrowSound(saved.escrows, saved.userEscrows, saved.held)'
  BY <1>1, <1>2 DEF SoundNow, EscrowSound, SolventFor, PaidFor, IndexFor
<1>4. \A id \in EscrowIds : escrows'[id] = saved'.escrows[id]
  BY <1>1, <1>2
<1>5. QED
  BY <1>3, <1>4 DEF SavedSound

LEMMA RevertSound ==
  ASSUME SavedSound, RevertRescue
  PROVE  SoundInv'
<1>1. /\ EscrowSound(saved.escrows, saved.userEscrows, saved.held)
      /\ escrows' = saved.escrows /\ userEscrows' = saved.userEscrows /\ held' = saved.held
      /\ UNCHANGED <<paid, swept, stray>> /\ tx' = NoTx
  BY DEF RevertRescue, SavedSound
<1>2. SoundNow'
  BY <1>1 DEF SoundNow, EscrowSound, SolventFor, PaidFor, IndexFor
<1>3. SavedSound'
  BY <1>1 DEF SavedSound, Idle, NoTx
<1>4. QED
  BY <1>2, <1>3 DEF SoundInv

LEMMA SoundInductive == ExecutorSpec => [](TypeInv /\ SoundInv)
<1>1. ExecutorInit => SoundInv
  <2> SUFFICES ASSUME ExecutorInit PROVE SoundInv
    OBVIOUS
  <2>1. EscrowInit /\ Idle
    BY DEF ExecutorInit, NoTx, Idle
  <2>2. SoundNow
    BY <2>1, SolventInit, PaidInit, IndexInit, SoundMeans
  <2>3. QED
    BY <2>1, <2>2 DEF SoundInv, SavedSound
<1>2. TypeInv /\ SoundInv /\ [ExecutorNext]_allVars => SoundInv'
  <2> SUFFICES ASSUME TypeInv, SoundNow, SavedSound, [ExecutorNext]_allVars PROVE SoundInv'
    BY DEF SoundInv
  <2>1. CASE RevertRescue
    BY <2>1, RevertSound
  <2>2. CASE ~RevertRescue
    <3>1. SoundNow'
      BY <2>2, ExecutorStepsEscrow, SoundStep DEF TypeInv
    <3>2. ASSUME RescueStepNext PROVE SavedSound'
      <4>1. /\ ~Idle /\ UNCHANGED <<saved, paid, swept, stray>>
            /\ \A id \in EscrowIds : escrows[id].status # "None" => escrows'[id] = escrows[id]
        BY <3>2, StepOpens
      <4>2. EscrowSound(saved.escrows, saved.userEscrows, saved.held)'
        BY <4>1, SavedKept DEF SavedSound
      <4>3. QED
        BY <4>1, <4>2 DEF SavedSound
    <3>3. ASSUME NEW c \in Callers, NEW p \in Plans, BeginRescue(c, p)
          PROVE  SavedSound'
      BY <3>3, BeginSaves
    <3>4. ASSUME FinishRescue PROVE SavedSound'
      BY <3>4 DEF FinishRescue, NoTx, SavedSound, Idle
    <3>5. ASSUME UNCHANGED allVars PROVE SavedSound'
      <4>1. UNCHANGED <<tx, saved, escrows, paid, swept, stray>>
        BY <3>5 DEF allVars, escrowVars, executorVars, txVars
      <4>2. QED
        BY <4>1, SavedKept DEF SavedSound, Idle
    <3>6. ASSUME Idle /\ UNCHANGED tx PROVE SavedSound'
      BY <3>6 DEF SavedSound, Idle
    <3>7. SavedSound'
      BY <2>2, <3>2, <3>3, <3>4, <3>5, <3>6
         DEF ExecutorNext, Configure, SameChainLeg, InitiateCrossChainLeg, ReceiveNative,
             ExecutorEmergencyWithdraw, EscrowOnly, SettleRecord, txVars, executorVars
    <3>8. QED
      BY <3>1, <3>7 DEF SoundInv
  <2>3. QED
    BY <2>1, <2>2
<1>3. QED
  BY <1>1, <1>2, TypeInductive, PTL DEF ExecutorSpec

\* Behind the executor the escrow has the tokens of its records, owners have
\* what they claimed and the index is whole, in the middle of a rescue and after
\* one that was reverted as well.
THEOREM ExecutorKeepsEscrow == ExecutorSpec => [](Solvent /\ PaidExactly /\ IndexComplete)
<1>1. SoundInv => Solvent /\ PaidExactly /\ IndexComplete
  BY SoundMeans DEF SoundInv
<1>2. QED
  BY <1>1, SoundInductive, PTL

\* The records as the last transaction left them.
Committed == IF Idle THEN escrows ELSE saved.escrows

\* What was committed is final: no rescue, also none that fails or reverts,
\* reopens a settled record or changes whose an open one is or its amount.
CommittedFinal == [][\A id \in EscrowIds : RecordKept(Committed[id], Committed'[id])]_allVars

\* The executor keeps the escrow's promise across its own transactions, for
\* any plans and any points at which they fail.
THEOREM ExecutorKeepsRecords == ExecutorSpec => CommittedFinal
<1> DEFINE Kept == \A id \in EscrowIds : RecordKept(Committed[id], Committed'[id])
<1>1. TypeInv /\ SoundInv /\ [ExecutorNext]_allVars => Kept
  <2> SUFFICES ASSUME TypeInv, SavedSound, [ExecutorNext]_allVars, NEW id \in EscrowIds
               PROVE  RecordKept(Committed[id], Committed'[id])
    BY DEF SoundInv
  <2>1. ASSUME Committed' = Committed PROVE RecordKept(Committed[id], Committed'[id])
    <3>1. Committed[id] \in EscrowRecord
      BY DEF Committed, TypeInv, EscrowTypeOK, SavedTypeOK
    <3>2. QED
      BY <2>1, <3>1 DEF RecordKept, EscrowRecord
  <2>2. CASE RevertRescue
    <3>1. Committed' = Committed
      BY <2>2 DEF RevertRescue, Committed, Idle, NoTx
    <3>2. QED
      BY <2>1, <3>1
  <2>3. CASE RescueStepNext
    <3>1. Committed' = Committed
      BY <2>3, StepOpens DEF Committed
    <3>2. QED
      BY <2>1, <3>1
  <2>4. ASSUME NEW c \in Callers, NEW p \in Plans, BeginRescue(c, p)
        PROVE  RecordKept(Committed[id], Committed'[id])
    <3>1. /\ Idle /\ escrows' = escrows
          /\ saved'.escrows = escrows
      BY <2>4 DEF BeginRescue, escrowVars, Snapshot
    <3>2. Committed' = Committed
      BY <3>1 DEF Committed
    <3>3. QED
      BY <2>1, <3>2
  <2>5. CASE FinishRescue
    <3>1. ~Idle /\ Idle' /\ escrows' = escrows
      BY <2>5 DEF FinishRescue, Idle, NoTx, escrowVars
    <3>2. saved.escrows[id].status # "None" => escrows'[id] = saved.escrows[id]
      BY <3>1 DEF SavedSound
    <3>3. QED
      BY <3>1, <3>2 DEF RecordKept, Committed
  <2>6. CASE UNCHANGED allVars
    <3>1. Committed' = Committed
      BY <2>6 DEF Committed, Idle, allVars, escrowVars, executorVars, txVars
    <3>2. QED
      BY <2>1, <3>1
  <2>7. CASE Idle /\ UNCHANGED tx /\ ~RevertRescue
    <3>1. Committed = escrows /\ Committed' = escrows'
      BY <2>7 DEF Committed, Idle
    <3>2. [EscrowNext]_escrowVars
      BY <2>7, ExecutorStepsEscrow DEF TypeInv
    <3>3. RecordKept(escrows[id], escrows'[id])
      BY <3>2, FinalStep DEF TypeInv
    <3>4. QED
      BY <3>1, <3>3
  <2>8. QED
    BY <2>2, <2>3, <2>4, <2>5, <2>6, <2>7
       DEF ExecutorNext, Configure, SameChainLeg, InitiateCrossChainLeg, ReceiveNative,
           ExecutorEmergencyWithdraw, EscrowOnly, SettleRecord, txVars, executorVars
<1>2. QED
  BY <1>1, SoundInductive, PTL DEF ExecutorSpec, CommittedFinal

-----------------------------------------------------------------------------
(* Atomicity. *)

\* Messages after a part of a rescue of e: those before it, then its own.
Grown(before, after, e) ==
    /\ Len(after) >= Len(before)
    /\ \A i \in 1..Len(before) : after[i] = before[i]
    /\ \A i \in (Len(before) + 1)..Len(after) : after[i].execId = e

LastOf(before, after, old, e) ==
    IF Len(after) > Len(before) THEN [old EXCEPT ![e] = Len(after)] ELSE old

\* What the running rescue has done so far, relative to what a revert restores.
DoneSoFar(e) ==
    /\ saved.rescueStatus[e] = "None"
    /\ rescueStatus = [saved.rescueStatus EXCEPT ![e] = "InProgress"]
    /\ Grown(saved.sentMessages, sentMessages, e)
    /\ ccipMessageIds = LastOf(saved.sentMessages, sentMessages, saved.ccipMessageIds, e)
    /\ applied >= saved.applied
    /\ tx.succeeded <=> Len(sentMessages) > Len(saved.sentMessages) \/ applied > saved.applied

RunInv == ~Idle => DoneSoFar(tx.plan.execId)

\* The messages of both states are sequences.
LEMMA RunTypes ==
  ASSUME TypeInv, ~Idle
  PROVE  /\ tx.plan.execId \in ExecIds
         /\ sentMessages \in Seq(SentMessage) /\ saved.sentMessages \in Seq(SentMessage)
         /\ Len(sentMessages) \in Nat /\ Len(saved.sentMessages) \in Nat
         /\ applied \in Nat /\ saved.applied \in Nat
         /\ ccipMessageIds \in [ExecIds -> Nat] /\ saved.ccipMessageIds \in [ExecIds -> Nat]
         /\ rescueStatus \in [ExecIds -> RescueStatus] /\ saved.rescueStatus \in [ExecIds -> RescueStatus]
         /\ tx.succeeded \in BOOLEAN
<1>1. tx.plan.execId \in ExecIds /\ tx.succeeded \in BOOLEAN
  BY RunningPlan, PlanFacts DEF TypeInv
<1>2. sentMessages \in Seq(SentMessage) /\ saved.sentMessages \in Seq(SentMessage)
  BY DEF TypeInv, OwnTypeOK, SavedTypeOK
<1>3. Len(sentMessages) \in Nat /\ Len(saved.sentMessages) \in Nat
  BY <1>2
<1>4. QED
  BY <1>1, <1>2, <1>3 DEF TypeInv, OwnTypeOK, SavedTypeOK

\* One more message of the same execution.
LEMMA GrownAgain ==
  ASSUME NEW before \in Seq(SentMessage), NEW after \in Seq(SentMessage), NEW e \in ExecIds,
         Grown(before, after, e), NEW new \in SentMessage, new.execId = e
  PROVE  /\ Grown(before, Append(after, new), e)
         /\ Len(Append(after, new)) = Len(after) + 1
         /\ Len(Append(after, new)) > Len(before)
<1> DEFINE longer == Append(after, new)
<1>1. /\ Len(after) \in Nat /\ Len(before) \in Nat /\ Len(longer) = Len(after) + 1
      /\ \A i \in 1..Len(after) : longer[i] = after[i]
      /\ longer[Len(after) + 1] = new
  OBVIOUS
<1> HIDE DEF longer
<1>2. Grown(before, longer, e)
  BY <1>1, SMTT(30) DEF Grown
<1>3. QED
  BY <1>1, <1>2 DEF Grown, longer

\* A step of the rescue: what it adds counts as a success exactly if it applied
\* or sent something.
LEMMA StepRuns ==
  ASSUME TypeInv, RunInv, RescueStepNext
  PROVE  RunInv' /\ ~Idle /\ ~Idle' /\ UNCHANGED <<saved, processedExecIds>>
<1>1. /\ ~Idle /\ ~Idle' /\ saved' = saved
  BY StepOpens
<1> DEFINE e == tx.plan.execId
<1>2. /\ e \in ExecIds
      /\ sentMessages \in Seq(SentMessage) /\ saved.sentMessages \in Seq(SentMessage)
      /\ Len(sentMessages) \in Nat /\ Len(saved.sentMessages) \in Nat
      /\ applied \in Nat /\ saved.applied \in Nat
      /\ ccipMessageIds \in [ExecIds -> Nat] /\ saved.ccipMessageIds \in [ExecIds -> Nat]
      /\ tx.succeeded \in BOOLEAN
  BY <1>1, RunTypes
<1>3. ASSUME NEW ok \in BOOLEAN, StepDone(ok)
      PROVE  /\ tx'.plan = tx.plan /\ (tx'.succeeded <=> (tx.succeeded \/ ok))
             /\ rescueStatus' = rescueStatus /\ processedExecIds' = processedExecIds
  <2>1. Advanced
    BY <1>1, <1>3, StepDoneTyped, Zenon DEF TypeInv
  <2>2. tx \in Transaction /\ tx' = [tx EXCEPT !.next = tx.next + 1, !.succeeded = tx.succeeded \/ ok]
    BY <1>3 DEF TypeInv, OwnTypeOK, StepDone
  <2>3. tx'.succeeded = (tx.succeeded \/ ok)
    BY <2>2 DEF Transaction
  <2>4. QED
    BY <2>1, <2>3 DEF Advanced, statusVars
<1>4. TRUE \in BOOLEAN /\ FALSE \in BOOLEAN
  OBVIOUS
<1>5. DoneSoFar(e)
  BY <1>1 DEF RunInv
<1> HIDE DEF e
<1>6. ASSUME StepDone(FALSE), UNCHANGED <<sendVars, applied>>
      PROVE  DoneSoFar(e)' /\ tx'.plan = tx.plan /\ processedExecIds' = processedExecIds
  <2>1. /\ tx'.plan = tx.plan /\ (tx'.succeeded <=> tx.succeeded)
        /\ rescueStatus' = rescueStatus /\ processedExecIds' = processedExecIds
    BY <1>3, <1>4, <1>6
  <2>2. UNCHANGED <<sentMessages, ccipMessageIds, applied, saved>>
    BY <1>1, <1>6 DEF sendVars
  <2>3. e' = e
    BY <2>1 DEF e
  <2>4. QED
    BY <1>5, <2>1, <2>2, <2>3 DEF DoneSoFar, Grown, LastOf
<1>7. CASE SkipStep
  <2>1. StepDone(FALSE) /\ UNCHANGED <<sendVars, applied>>
    BY <1>7, Zenon DEF SkipStep, tokenVars
  <2>2. QED
    BY <1>1, <1>6, <2>1 DEF RunInv, e
<1>8. ASSUME NEW w \in Amounts, EscrowStepFunds(w)
      PROVE  RunInv' /\ UNCHANGED processedExecIds
  <2>1. StepDone(FALSE) /\ UNCHANGED <<sendVars, applied>>
    BY <1>8, Zenon DEF EscrowStepFunds
  <2>2. QED
    BY <1>1, <1>6, <2>1 DEF RunInv, e
<1>9. ASSUME NEW w \in Amounts, ApplyStep(w)
      PROVE  RunInv' /\ UNCHANGED processedExecIds
  <2>1. StepDone(TRUE)
    BY <1>9, Zenon DEF ApplyStep
  <2>2. UNCHANGED <<sentMessages, ccipMessageIds>> /\ applied' = applied + w /\ w \in Nat /\ w > 0
    BY <1>9, AmountsPositive DEF ApplyStep, sendVars
  <2>3. /\ tx'.plan = tx.plan /\ tx'.succeeded /\ e' = e
        /\ rescueStatus' = rescueStatus /\ processedExecIds' = processedExecIds
    BY <1>3, <1>4, <2>1 DEF e
  <2>4. applied' > saved.applied /\ applied' >= saved.applied
    BY <1>2, <1>5, <2>2 DEF DoneSoFar
  <2>5. /\ Grown(saved.sentMessages, sentMessages, e)'
        /\ ccipMessageIds' = LastOf(saved.sentMessages, sentMessages, saved.ccipMessageIds, e)'
    BY <1>1, <1>5, <2>2, <2>3 DEF DoneSoFar, Grown, LastOf
  <2>6. DoneSoFar(e)'
    BY <1>1, <1>5, <2>3, <2>4, <2>5 DEF DoneSoFar
  <2>7. QED
    BY <2>3, <2>6 DEF RunInv, e
<1>10. ASSUME NEW w \in Amounts, NEW fee \in Fees, SendStep(w, fee)
       PROVE  RunInv' /\ UNCHANGED processedExecIds
  <2> DEFINE new == [execId |-> e, user |-> tx.plan.user, amount |-> w]
  <2>1. StepDone(TRUE)
    BY <1>10, Zenon DEF SendStep
  <2>2. /\ sentMessages' = Append(sentMessages, new)
        /\ ccipMessageIds' = [ccipMessageIds EXCEPT ![e] = Len(sentMessages')]
        /\ applied' = applied
    BY <1>10 DEF SendStep, SendCCIPMessage, e
  <2>3. /\ tx'.plan = tx.plan /\ tx'.succeeded /\ e' = e
        /\ rescueStatus' = rescueStatus /\ processedExecIds' = processedExecIds
    BY <1>3, <1>4, <2>1 DEF e
  <2>4. new \in SentMessage /\ new.execId = e
    BY <1>1, <1>2, RunningPlan, PlanFacts, AmountsPositive DEF TypeInv, SentMessage, e
  <2> HIDE DEF new
  <2>5. /\ Grown(saved.sentMessages, sentMessages', e)
        /\ Len(sentMessages') > Len(saved.sentMessages)
    BY <1>2, <1>5, <2>2, <2>4, GrownAgain DEF DoneSoFar
  <2>6. ccipMessageIds' = [saved.ccipMessageIds EXCEPT ![e] = Len(sentMessages')]
    BY <1>2, <1>5, <2>2 DEF DoneSoFar, LastOf
  <2>7. DoneSoFar(e)'
    BY <1>1, <1>2, <1>5, <2>2, <2>3, <2>5, <2>6 DEF DoneSoFar, Grown, LastOf
  <2>8. QED
    BY <2>3, <2>7 DEF RunInv, e
<1>11. QED
  BY <1>1, <1>6, <1>7, <1>8, <1>9, <1>10 DEF RescueStepNext, SkipStep, StepDone

LEMMA BeginRuns ==
  ASSUME TypeInv, ControlInv, NEW c \in Callers, NEW p \in Plans, BeginRescue(c, p)
  PROVE  RunInv'
<1>1. /\ p.execId \in ExecIds /\ ~HasEntries(p.execId)
      /\ tx' = [plan |-> p, caller |-> c, next |-> 1, succeeded |-> FALSE]
      /\ saved' = Snapshot
      /\ rescueStatus' = [rescueStatus EXCEPT ![p.execId] = "InProgress"]
      /\ UNCHANGED <<applied, sentMessages, ccipMessageIds>>
  BY PlanFacts DEF BeginRescue, MayBegin, tokenVars, sendVars
<1>2. rescueStatus[p.execId] = "None"
  BY <1>1 DEF ControlInv, StatusLogged
<1>3. /\ saved'.rescueStatus = rescueStatus /\ saved'.sentMessages = sentMessages'
      /\ saved'.ccipMessageIds = ccipMessageIds' /\ saved'.applied = applied'
  BY <1>1 DEF Snapshot
<1>4. Len(sentMessages') \in Nat /\ applied' \in Nat
  BY <1>1 DEF TypeInv, OwnTypeOK
<1>5. QED
  BY <1>1, <1>2, <1>3, <1>4 DEF RunInv, DoneSoFar, Grown, LastOf

LEMMA AtomicInvariant == ExecutorSpec => [](TypeInv /\ ControlInv /\ RunInv)
<1>1. ExecutorInit => RunInv
  BY DEF ExecutorInit, NoTx, RunInv, Idle
<1>2. TypeInv /\ ControlInv /\ RunInv /\ [ExecutorNext]_allVars => RunInv'
  <2> SUFFICES ASSUME TypeInv, ControlInv, RunInv, [ExecutorNext]_allVars PROVE RunInv'
    OBVIOUS
  <2>1. CASE RescueStepNext
    BY <2>1, StepRuns
  <2>2. ASSUME NEW c \in Callers, NEW p \in Plans, BeginRescue(c, p) PROVE RunInv'
    BY <2>2, BeginRuns
  <2>3. CASE FinishRescue \/ RevertRescue
    BY <2>3 DEF FinishRescue, RevertRescue, NoTx, RunInv, Idle
  <2>4. CASE UNCHANGED allVars
    <3>1. UNCHANGED <<tx, saved, rescueStatus, sentMessages, ccipMessageIds, applied>>
      BY <2>4 DEF allVars, executorVars, txVars, statusVars, sendVars, tokenVars
    <3>2. QED
      BY <3>1 DEF RunInv, Idle, DoneSoFar, Grown, LastOf
  <2>5. CASE Idle /\ UNCHANGED tx
    BY <2>5 DEF RunInv, Idle
  <2>6. QED
    BY <2>1, <2>2, <2>3, <2>4, <2>5
       DEF ExecutorNext, Configure, SameChainLeg, InitiateCrossChainLeg, ReceiveNative,
           ExecutorEmergencyWithdraw, EscrowOnly, SettleRecord, txVars, executorVars
<1>3. QED
  BY <1>1, <1>2, TypeInductive, ControlInductive, PTL DEF ExecutorSpec

\* The end of a rescue shows at once what it did since it began.
LEMMA FinishIsRescue ==
  ASSUME TypeInv, ControlInv, RunInv, FinishRescue
  PROVE  \E e \in ExecIds : Atomic!Rescue(e)
<1> DEFINE e == tx.plan.execId
           outcome == IF tx.succeeded THEN "Completed" ELSE "Failed"
<1>1. /\ ~Idle /\ Idle' /\ e \in ExecIds
      /\ rescueStatus' = [rescueStatus EXCEPT ![e] = outcome]
      /\ UNCHANGED <<applied, sentMessages, ccipMessageIds>>
      /\ tx.caller = ReportReceiver => tx.succeeded
      /\ processedExecIds' = processedExecIds \/ processedExecIds' = processedExecIds \cup {e}
  BY RunTypes DEF FinishRescue, Idle, NoTx, tokenVars, sendVars
<1>2. processedExecIds' # processedExecIds => tx.succeeded
  BY DEF FinishRescue
<1>3. DoneSoFar(e)
  BY <1>1 DEF RunInv
<1>4. /\ saved.rescueStatus \in [ExecIds -> RescueStatus]
      /\ Len(sentMessages) \in Nat /\ Len(saved.sentMessages) \in Nat
      /\ applied \in Nat /\ saved.applied \in Nat
  BY <1>1, RunTypes
<1> HIDE DEF e, outcome
<1>5. /\ Visible(rescueStatus, saved.rescueStatus) = saved.rescueStatus
      /\ Visible(sentMessages, saved.sentMessages) = saved.sentMessages
      /\ Visible(ccipMessageIds, saved.ccipMessageIds) = saved.ccipMessageIds
      /\ Visible(applied, saved.applied) = saved.applied
  BY <1>1 DEF Visible
<1>6. /\ Visible(rescueStatus, saved.rescueStatus)' = rescueStatus'
      /\ Visible(sentMessages, saved.sentMessages)' = sentMessages
      /\ Visible(ccipMessageIds, saved.ccipMessageIds)' = ccipMessageIds
      /\ Visible(applied, saved.applied)' = applied
  BY <1>1 DEF Visible
<1>7. rescueStatus' = [saved.rescueStatus EXCEPT ![e] = outcome]
  BY <1>1, <1>3, <1>4 DEF DoneSoFar
<1>8. outcome = IF Len(sentMessages) > Len(saved.sentMessages) \/ applied > saved.applied
                THEN "Completed" ELSE "Failed"
  BY <1>3 DEF DoneSoFar, outcome
<1>9. Atomic!SendFor(e)
  BY <1>3, <1>5, <1>6 DEF Atomic!SendFor, Atomic!Sends, DoneSoFar, Grown, LastOf
<1>10. rescueStatus'[e] = outcome
  BY <1>1, <1>4, <1>7
<1>11. processedExecIds' # processedExecIds => outcome = "Completed"
  BY <1>2 DEF outcome
<1>12. Atomic!Rescue(e)
  BY <1>1, <1>3, <1>5, <1>6, <1>7, <1>8, <1>9, <1>10, <1>11
     DEF Atomic!Rescue, Atomic!Sends, DoneSoFar
<1>13. QED
  BY <1>1, <1>12

\* A direct leg sends for an execution that has ended.
LEMMA LegIsSendLeg ==
  ASSUME TypeInv, ControlInv, NEW c \in Callers, NEW p \in Plans, NEW ch \in Chains,
         NEW a \in Amounts, NEW fee \in Fees, InitiateCrossChainLeg(c, p, ch, a, fee)
  PROVE  \E e \in ExecIds : Atomic!SendLeg(e)
<1> DEFINE e == p.execId
           new == [execId |-> e, user |-> p.user, amount |-> a]
<1>1. /\ e \in ExecIds /\ Idle /\ Idle' /\ HasEntries(e)
      /\ UNCHANGED <<rescueStatus, processedExecIds, applied>>
      /\ sentMessages' = Append(sentMessages, new)
      /\ ccipMessageIds' = [ccipMessageIds EXCEPT ![e] = Len(sentMessages')]
  BY PlanFacts DEF InitiateCrossChainLeg, SendCCIPMessage, txVars, Idle, statusVars
<1>2. rescueStatus[e] # "None"
  BY <1>1 DEF ControlInv, StatusLogged
<1>3. new \in SentMessage /\ new.execId = e /\ sentMessages \in Seq(SentMessage)
  BY PlanFacts, AmountsPositive DEF SentMessage, TypeInv, OwnTypeOK
<1> HIDE DEF e, new
<1>4. /\ Visible(rescueStatus, saved.rescueStatus) = rescueStatus
      /\ Visible(sentMessages, saved.sentMessages) = sentMessages
      /\ Visible(ccipMessageIds, saved.ccipMessageIds) = ccipMessageIds
      /\ Visible(applied, saved.applied) = applied
  BY <1>1 DEF Visible
<1>5. /\ Visible(rescueStatus, saved.rescueStatus)' = rescueStatus'
      /\ Visible(sentMessages, saved.sentMessages)' = sentMessages'
      /\ Visible(ccipMessageIds, saved.ccipMessageIds)' = ccipMessageIds'
      /\ Visible(applied, saved.applied)' = applied'
  BY <1>1 DEF Visible
<1>6. Grown(sentMessages, sentMessages, e)
  BY <1>3 DEF Grown
<1>7. /\ Grown(sentMessages, sentMessages', e)
      /\ Len(sentMessages') = Len(sentMessages) + 1 /\ Len(sentMessages') > Len(sentMessages)
  BY <1>1, <1>3, <1>6, GrownAgain
<1>8. Atomic!SendFor(e)
  BY <1>1, <1>4, <1>5, <1>7 DEF Atomic!SendFor, Atomic!Sends, Grown
<1>9. Atomic!SendLeg(e)
  BY <1>1, <1>2, <1>4, <1>5, <1>7, <1>8 DEF Atomic!SendLeg
<1>10. QED
  BY <1>1, <1>9

\* The rest either supplies to a position or shows nothing.
LEMMA VisibleKept ==
  ASSUME Idle, UNCHANGED <<tx, rescueStatus, sentMessages, ccipMessageIds, processedExecIds>>,
         applied' = applied \/ applied' > applied
  PROVE  [Atomic!AtomicNext]_(Atomic!atomicVars)
<1>1. Idle'
  BY DEF Idle
<1>2. /\ Visible(rescueStatus, saved.rescueStatus)' = Visible(rescueStatus, saved.rescueStatus)
      /\ Visible(sentMessages, saved.sentMessages)' = Visible(sentMessages, saved.sentMessages)
      /\ Visible(ccipMessageIds, saved.ccipMessageIds)' = Visible(ccipMessageIds, saved.ccipMessageIds)
      /\ Visible(applied, saved.applied) = applied /\ Visible(applied, saved.applied)' = applied'
  BY <1>1 DEF Visible
<1>3. QED
  BY <1>2 DEF Atomic!AtomicNext, Atomic!SupplyLeg, Atomic!atomicVars

LEMMA RunHidden ==
  ASSUME ~Idle, ~Idle', saved' = saved, processedExecIds' = processedExecIds
  PROVE  UNCHANGED Atomic!atomicVars
BY DEF Visible, Atomic!atomicVars

LEMMA BeginHidden ==
  ASSUME NEW c \in Callers, NEW p \in Plans, BeginRescue(c, p)
  PROVE  UNCHANGED Atomic!atomicVars
<1>1. /\ Idle /\ ~Idle' /\ saved' = Snapshot /\ processedExecIds' = processedExecIds
  BY PlanFacts DEF BeginRescue, Idle
<1>2. /\ saved'.rescueStatus = rescueStatus /\ saved'.sentMessages = sentMessages
      /\ saved'.ccipMessageIds = ccipMessageIds /\ saved'.applied = applied
  BY <1>1 DEF Snapshot
<1>3. QED
  BY <1>1, <1>2 DEF Visible, Atomic!atomicVars

LEMMA RevertHidden ==
  ASSUME RevertRescue
  PROVE  UNCHANGED Atomic!atomicVars
<1>1. /\ ~Idle /\ Idle' /\ processedExecIds' = processedExecIds
      /\ rescueStatus' = saved.rescueStatus /\ sentMessages' = saved.sentMessages
      /\ ccipMessageIds' = saved.ccipMessageIds /\ applied' = saved.applied
  BY DEF RevertRescue, Idle, NoTx
<1>2. QED
  BY <1>1 DEF Visible, Atomic!atomicVars

\* A rescue with its loop of steps, each of which may fail after it moved funds,
\* and with a revert at any point implements one that happens at once or not at
\* all, for any plans, legs and configuration: that is executeRescue's contract
\* with the relay, the indexer and the workflows.
THEOREM ExecutorRunsAtomically == ExecutorSpec => RescuesAtomic
<1>1. ExecutorInit => Atomic!AtomicInit
  BY DEF ExecutorInit, NoTx, Idle, Visible, Atomic!AtomicInit
<1>2. TypeInv /\ ControlInv /\ RunInv /\ [ExecutorNext]_allVars
         => [Atomic!AtomicNext]_(Atomic!atomicVars)
  <2> SUFFICES ASSUME TypeInv, ControlInv, RunInv, [ExecutorNext]_allVars
               PROVE  [Atomic!AtomicNext]_(Atomic!atomicVars)
    OBVIOUS
  <2>1. ASSUME RescueStepNext PROVE UNCHANGED Atomic!atomicVars
    BY <2>1, StepRuns, RunHidden
  <2>2. ASSUME NEW c \in Callers, NEW p \in Plans, BeginRescue(c, p)
        PROVE  UNCHANGED Atomic!atomicVars
    BY <2>2, BeginHidden
  <2>3. ASSUME FinishRescue PROVE Atomic!AtomicNext
    BY <2>3, FinishIsRescue DEF Atomic!AtomicNext
  <2>4. ASSUME RevertRescue PROVE UNCHANGED Atomic!atomicVars
    BY <2>4, RevertHidden
  <2>5. ASSUME NEW c \in Callers, NEW p \in Plans, NEW ch \in Chains, NEW a \in Amounts,
               NEW fee \in Fees, InitiateCrossChainLeg(c, p, ch, a, fee)
        PROVE  Atomic!AtomicNext
    BY <2>5, LegIsSendLeg DEF Atomic!AtomicNext
  <2>6. ASSUME NEW c \in Callers, NEW p \in Plans, NEW i \in DOMAIN p.steps, NEW w \in Amounts,
               SameChainLeg(c, p, p.steps[i], w)
        PROVE  [Atomic!AtomicNext]_(Atomic!atomicVars)
    <3>1. /\ Idle /\ UNCHANGED <<tx, rescueStatus, sentMessages, ccipMessageIds, processedExecIds>>
          /\ applied' = applied \/ applied' = applied + w
      BY <2>6 DEF SameChainLeg, statusVars, sendVars, txVars
    <3>2. applied \in Nat /\ w \in Nat /\ w > 0
      BY AmountsPositive DEF TypeInv, OwnTypeOK
    <3>3. QED
      BY <3>1, <3>2, VisibleKept
  <2>7. ASSUME UNCHANGED allVars PROVE UNCHANGED Atomic!atomicVars
    <3>1. UNCHANGED <<tx, saved, rescueStatus, sentMessages, ccipMessageIds, applied, processedExecIds>>
      BY <2>7 DEF allVars, executorVars, txVars, statusVars, sendVars, tokenVars
    <3>2. QED
      BY <3>1 DEF Visible, Idle, Atomic!atomicVars
  <2>8. CASE \/ Configure
             \/ \E a \in 1..executorBalance : ExecutorEmergencyWithdraw(a)
             \/ ReceiveNative
             \/ EscrowOnly
             \/ \E id \in EscrowIds : SettleRecord(id)
    <3>1. /\ Idle /\ UNCHANGED <<tx, rescueStatus, sentMessages, ccipMessageIds, processedExecIds, applied>>
      BY <2>8 DEF Configure, ExecutorEmergencyWithdraw, ReceiveNative, EscrowOnly, SettleRecord,
                  executorVars, statusVars, sendVars, txVars, tokenVars
    <3>2. QED
      BY <3>1, VisibleKept
  <2>9. QED
    BY <2>1, <2>2, <2>3, <2>4, <2>5, <2>6, <2>7, <2>8 DEF ExecutorNext
<1>3. QED
  BY <1>1, <1>2, AtomicInvariant, PTL DEF ExecutorSpec, RescuesAtomic, Atomic!AtomicSpec
=============================================================================
