------------------------- MODULE CCIPReceiverProofs -------------------------
(***************************************************************************)
(* Proofs about the destination leg for any finite set of messages, any    *)
(* routers, users, amounts, deadlines and bounds.                          *)
(***************************************************************************)
EXTENDS CCIPReceiver, RescueEscrowProofs

\* The owner's three setters touch nothing but the configuration.
ConfigStep ==
    \/ \E r \in Routers : SetRouter(r)
    \/ \E c \in SourceChains, allowed \in BOOLEAN : SetAllowedSourceChain(c, allowed)
    \/ \E c \in SourceChains, s \in Senders, allowed \in BOOLEAN : SetAllowedSender(c, s, allowed)

\* Both delivery entry points hand a message that this router has not delivered
\* yet to ccipReceive.
Delivery ==
    \E r \in Routers, m \in Messages, c \in SourceChains :
        messageStatus[r][m] # "Delivered" /\ CcipReceive(r, m, c)

Recovery ==
    \/ \E m \in Messages : RetryFailedMessage(m)
    \/ \E a \in 1..returned : Forward(a)
    \/ \E a \in 1..receiverBalance : ReceiverEmergencyWithdraw(a)

LEMMA StepCases ==
  ASSUME ReceiverNext
  PROVE  ConfigStep \/ Delivery \/ Recovery \/ EscrowStep
<1>1. ASSUME NEW r \in Routers, NEW m \in Messages, DeliverExternalMessage(r, m)
      PROVE  Delivery
  BY <1>1, MessagesAssumption DEF DeliverExternalMessage, Delivery
<1>2. ASSUME NEW r \in Routers, NEW m \in Messages, NEW c \in SourceChains, DeliverMessage(r, m, c)
      PROVE  Delivery
  BY <1>2 DEF DeliverMessage, Delivery
<1>3. QED
  BY <1>1, <1>2 DEF ReceiverNext, ConfigStep, Recovery

LEMMA ConfigOnly ==
  ASSUME ConfigStep
  PROVE  UNCHANGED <<escrowVars, routerVars, messageVars, fundVars>>
BY DEF ConfigStep, SetRouter, SetAllowedSourceChain, SetAllowedSender

\* What a delivery does to the escrow is one of its deposits, or nothing.
LEMMA DeliveryDeposits ==
  ASSUME now \in 0..MaxTime, NEW r \in Routers, NEW m \in Messages, NEW c \in SourceChains,
         CcipReceive(r, m, c)
  PROVE  UNCHANGED escrowVars \/ EscrowNext
<1>1. CASE ReceiveFails(r, m, c) /\ ~UNCHANGED escrowVars
  <2>1. DepositFailedTransfer(Receiver, EscrowIdOf(m, now), UserOf[m], AmountIn[m])
    BY <1>1 DEF ReceiveFails
  <2>2. EscrowIdOf(m, now) \in EscrowIds
    BY EscrowIdsOfMessages DEF EscrowIdOf
  <2>3. Receiver \in Depositors /\ UserOf[m] \in Users /\ AmountIn[m] \in Amounts
    BY ActorsAssumption, MessagesAssumption
  <2>4. QED
    BY <2>1, <2>2, <2>3 DEF EscrowNext
<1>2. QED
  BY <1>1 DEF CcipReceive, ReceiveReverts, ReceiveCompletes

LEMMA ReceiverStepsEscrow ==
  ASSUME now \in 0..MaxTime, [ReceiverNext]_allVars
  PROVE  [EscrowNext]_escrowVars
<1>1. CASE ConfigStep
  BY <1>1, ConfigOnly
<1>2. CASE Delivery
  BY <1>2, DeliveryDeposits DEF Delivery
<1>3. CASE Recovery
  BY <1>3 DEF Recovery, RetryFailedMessage, Forward, ReceiverEmergencyWithdraw
<1>4. CASE EscrowStep
  BY <1>4, ActorsAssumption DEF EscrowStep, EscrowNext
<1>5. CASE UNCHANGED allVars
  BY <1>5 DEF allVars
<1>6. QED
  BY <1>1, <1>2, <1>3, <1>4, <1>5, StepCases

\* The clock stays within its bound, so that the identifiers the receiver
\* derives are ones the escrow knows.
LEMMA ClockBounded == ReceiverSpec => [](now \in 0..MaxTime)
<1>1. ReceiverInit => now \in 0..MaxTime
  BY EscrowBounds DEF ReceiverInit, EscrowInit
<1>2. now \in 0..MaxTime /\ [ReceiverNext]_allVars => (now \in 0..MaxTime)'
  <2> SUFFICES ASSUME now \in 0..MaxTime, [ReceiverNext]_allVars
               PROVE  now' \in 0..MaxTime
    OBVIOUS
  <2>1. [EscrowNext]_escrowVars
    BY ReceiverStepsEscrow
  <2>2. now' = now \/ Tick
    BY <2>1 DEF EscrowNext, escrowVars, SetAuthorizedDepositor, DepositFailedTransfer,
                ClaimEscrow, RetryTransfer, EmergencyWithdraw, ReceiveStray
  <2>3. QED
    BY <2>2, EscrowBounds DEF Tick
<1>3. QED
  BY <1>1, <1>2, PTL DEF ReceiverSpec

\* The destination leg implements the escrow's specification: every delivery,
\* whatever its outcome, is a deposit the escrow allows or leaves it alone.
THEOREM ReceiverUsesEscrow == ReceiverSpec => UsesEscrow
<1>1. ReceiverInit => EscrowInit
  BY DEF ReceiverInit
<1>2. now \in 0..MaxTime /\ [ReceiverNext]_allVars => [EscrowNext]_escrowVars
  BY ReceiverStepsEscrow
<1>3. QED
  BY <1>1, <1>2, ClockBounded, PTL DEF ReceiverSpec, EscrowSpec, UsesEscrow

\* What the escrow promises holds of the system it is part of: behind any
\* receiver, whatever is delivered, retried or configured, the escrow has the
\* tokens of its records, owners have what they claimed, and the index is whole.
THEOREM ReceiverKeepsEscrow == ReceiverSpec => [](Solvent /\ PaidExactly /\ IndexComplete)
BY ReceiverUsesEscrow, EscrowSolvent, EscrowPaysOwners, EscrowIndexed, PTL DEF UsesEscrow

\* No delivery reopens a record or changes what an open one is owed to whom.
THEOREM ReceiverKeepsRecords == ReceiverSpec => RecordsFinal
BY ReceiverUsesEscrow, EscrowRecordsFinal, PTL DEF UsesEscrow

-----------------------------------------------------------------------------
\* The receiver's and the router's own part of the type invariant.
OwnTypeOK ==
    /\ messageStatus \in [Routers -> [Messages -> MessageStatus]]
    /\ ccipRouter \in Routers \cup {NoRouter}
    /\ allowedSourceChains \subseteq SourceChains
    /\ allowedSenders \subseteq SourceChains \X Senders
    /\ processedMessages \subseteq Messages
    /\ failedMessages \in [Messages -> FailedMessage]
    /\ receiverBalance \in Nat
    /\ completed \subseteq Messages
    /\ forwarded \in Nat
    /\ receiverSwept \in Nat

LEMMA SetStatusType ==
  ASSUME OwnTypeOK, NEW r \in Routers, NEW m \in Messages, NEW status \in MessageStatus,
         SetStatus(r, m, status)
  PROVE  messageStatus' \in [Routers -> [Messages -> MessageStatus]]
<1> DEFINE row == [messageStatus[r] EXCEPT ![m] = status]
<1>1. row \in [Messages -> MessageStatus]
  BY DEF OwnTypeOK
<1>2. messageStatus' = [messageStatus EXCEPT ![r] = row]
  BY DEF SetStatus
<1> HIDE DEF row
<1>3. QED
  BY <1>1, <1>2 DEF OwnTypeOK

\* The delivery step of the type invariant.
LEMMA DeliveryType ==
  ASSUME OwnTypeOK, now \in 0..MaxTime,
         NEW r \in Routers, NEW m \in Messages, NEW c \in SourceChains, CcipReceive(r, m, c)
  PROVE  OwnTypeOK'
<1>1. AmountIn[m] \in Nat
  BY MessagesAssumption, AmountsPositive
<1>2. CASE ReceiveReverts(r, m, c)
  <2>1. messageStatus' \in [Routers -> [Messages -> MessageStatus]]
    BY <1>2, SetStatusType DEF ReceiveReverts, MessageStatus
  <2>2. QED
    BY <1>2, <2>1 DEF ReceiveReverts, OwnTypeOK, configVars, messageVars, fundVars
<1>3. CASE ReceiveCompletes(r, m, c)
  <2>1. messageStatus' \in [Routers -> [Messages -> MessageStatus]]
    BY <1>3, SetStatusType DEF ReceiveCompletes, MessageStatus
  <2>2. QED
    BY <1>3, <2>1 DEF ReceiveCompletes, OwnTypeOK, configVars, fundVars
<1>4. CASE ReceiveFails(r, m, c)
  <2>1. messageStatus' \in [Routers -> [Messages -> MessageStatus]]
    BY <1>4, SetStatusType DEF ReceiveFails, MessageStatus
  <2>2. failedMessages' \in [Messages -> FailedMessage]
    BY <1>4 DEF ReceiveFails, OwnTypeOK, FailedMessage
  <2>3. receiverBalance' \in Nat
    BY <1>1, <1>4 DEF ReceiveFails, OwnTypeOK
  <2>4. QED
    BY <1>4, <2>1, <2>2, <2>3 DEF ReceiveFails, OwnTypeOK, configVars
<1>5. QED
  BY <1>2, <1>3, <1>4 DEF CcipReceive

\* The type invariant of the destination leg.
THEOREM ReceiverTypeCorrect == ReceiverSpec => []ReceiverTypeOK
<1>1. ReceiverInit => OwnTypeOK
  BY EscrowBounds
     DEF ReceiverInit, OwnTypeOK, MessageStatus, NotFailed, FailedMessage
<1>2. OwnTypeOK /\ EscrowTypeOK /\ now \in 0..MaxTime /\ [ReceiverNext]_allVars => OwnTypeOK'
  <2> SUFFICES ASSUME OwnTypeOK, EscrowTypeOK, now \in 0..MaxTime, [ReceiverNext]_allVars
               PROVE  OwnTypeOK'
    OBVIOUS
  <2>0. \A m \in Messages : AmountIn[m] \in Nat
    BY MessagesAssumption, AmountsPositive
  <2>1. CASE ConfigStep
    BY <2>1 DEF ConfigStep, SetRouter, SetAllowedSourceChain, SetAllowedSender, OwnTypeOK,
                routerVars, messageVars, fundVars
  <2>2. CASE Delivery
    BY <2>2, DeliveryType DEF Delivery
  <2>3. ASSUME NEW m \in Messages, RetryFailedMessage(m)
        PROVE  OwnTypeOK'
    <3>1. failedMessages' \in [Messages -> FailedMessage]
      BY <2>3 DEF RetryFailedMessage, OwnTypeOK, FailedMessage
    <3>2. receiverBalance' \in Nat
      BY <2>0, <2>3 DEF RetryFailedMessage, OwnTypeOK
    <3>3. QED
      BY <2>3, <3>1, <3>2 DEF RetryFailedMessage, OwnTypeOK, routerVars, configVars
  <2>4. ASSUME NEW a \in 1..returned, Forward(a)
        PROVE  OwnTypeOK'
    BY <2>4 DEF Forward, OwnTypeOK, EscrowTypeOK, routerVars, configVars, messageVars
  <2>5. ASSUME NEW a \in 1..receiverBalance, ReceiverEmergencyWithdraw(a)
        PROVE  OwnTypeOK'
    BY <2>5 DEF ReceiverEmergencyWithdraw, OwnTypeOK, routerVars, configVars, messageVars
  <2>6. CASE UNCHANGED receiverVars
    BY <2>6 DEF OwnTypeOK, receiverVars, routerVars, configVars, messageVars, fundVars
  <2>7. QED
    BY <2>1, <2>2, <2>3, <2>4, <2>5, <2>6, StepCases DEF Recovery, EscrowStep, allVars
<1>3. EscrowTypeOK /\ now \in 0..MaxTime /\ OwnTypeOK => ReceiverTypeOK
  BY EscrowBounds DEF OwnTypeOK, ReceiverTypeOK
<1>4. QED
  BY <1>1, <1>2, <1>3, ClockBounded, ReceiverUsesEscrow, EscrowTypeCorrect, PTL
     DEF ReceiverSpec, UsesEscrow

-----------------------------------------------------------------------------
\* A failed message that was recovered is one that was stored.
RecoveredWasStored == \A m \in Messages : failedMessages[m].recovered => failedMessages[m].stored

\* The delivery step of at-most-once delivery.
LEMMA DeliveryOnce ==
  ASSUME ReceiverTypeOK, DeliveredOnce, RecoveredWasStored,
         NEW r \in Routers, NEW m \in Messages, NEW c \in SourceChains,
         messageStatus[r][m] # "Delivered", CcipReceive(r, m, c)
  PROVE  DeliveredOnce' /\ RecoveredWasStored'
<1>1. CASE ReceiveReverts(r, m, c)
  <2>1. \A s \in Routers, n \in Messages :
            messageStatus'[s][n] = "Delivered" <=> messageStatus[s][n] = "Delivered"
    BY <1>1 DEF ReceiveReverts, SetStatus, ReceiverTypeOK
  <2>2. QED
    BY <1>1, <2>1 DEF ReceiveReverts, messageVars, DeliveredOnce, RecoveredWasStored
<1>2. ASSUME m \notin processedMessages, SetStatus(r, m, "Delivered"),
             processedMessages' = processedMessages \cup {m}
      PROVE  \A n \in Messages :
                /\ (n \in processedMessages') <=> (\E s \in Routers : messageStatus'[s][n] = "Delivered")
                /\ \A s, t \in Routers :
                      messageStatus'[s][n] = "Delivered" /\ messageStatus'[t][n] = "Delivered" => s = t
  <2>1. \A s \in Routers, n \in Messages :
            messageStatus'[s][n] = "Delivered" <=>
                (messageStatus[s][n] = "Delivered" \/ (s = r /\ n = m))
    BY <1>2 DEF SetStatus, ReceiverTypeOK
  <2>2. \A s \in Routers : messageStatus[s][m] # "Delivered"
    BY <1>2 DEF DeliveredOnce
  <2>3. QED
    BY <1>2, <2>1, <2>2 DEF DeliveredOnce
<1>3. CASE ReceiveCompletes(r, m, c)
  BY <1>2, <1>3 DEF ReceiveCompletes, Accepted, DeliveredOnce, RecoveredWasStored
<1>4. CASE ReceiveFails(r, m, c)
  <2>1. \A n \in Messages :
            /\ failedMessages'[n].stored <=> (failedMessages[n].stored \/ n = m)
            /\ failedMessages'[n].recovered <=> (failedMessages[n].recovered /\ n # m)
    BY <1>4 DEF ReceiveFails, ReceiverTypeOK, FailedMessage
  <2>2. completed' = completed
    BY <1>4 DEF ReceiveFails
  <2>3. QED
    BY <1>2, <1>4, <2>1, <2>2 DEF ReceiveFails, Accepted, DeliveredOnce, RecoveredWasStored
<1>5. QED
  BY <1>1, <1>3, <1>4 DEF CcipReceive

LEMMA OnceInductive == ReceiverSpec => [](DeliveredOnce /\ RecoveredWasStored)
<1>1. ReceiverInit => DeliveredOnce /\ RecoveredWasStored
  BY DEF ReceiverInit, DeliveredOnce, RecoveredWasStored, NotFailed
<1>2. ReceiverTypeOK /\ DeliveredOnce /\ RecoveredWasStored /\ [ReceiverNext]_allVars
         => (DeliveredOnce /\ RecoveredWasStored)'
  <2> SUFFICES ASSUME ReceiverTypeOK, DeliveredOnce, RecoveredWasStored, [ReceiverNext]_allVars
               PROVE  (DeliveredOnce /\ RecoveredWasStored)'
    OBVIOUS
  <2>1. CASE UNCHANGED <<routerVars, messageVars>>
    BY <2>1 DEF routerVars, messageVars, DeliveredOnce, RecoveredWasStored
  <2>2. CASE Delivery
    BY <2>2, DeliveryOnce DEF Delivery
  <2>3. ASSUME NEW m \in Messages, RetryFailedMessage(m)
        PROVE  (DeliveredOnce /\ RecoveredWasStored)'
    <3>1. \A n \in Messages : failedMessages'[n].stored <=> failedMessages[n].stored
      BY <2>3 DEF RetryFailedMessage, CanRetryMessage, ReceiverTypeOK, FailedMessage
    <3>2. \A n \in Messages : failedMessages'[n].recovered => failedMessages'[n].stored
      BY <2>3 DEF RetryFailedMessage, RecoveredWasStored, ReceiverTypeOK, FailedMessage
    <3>3. QED
      BY <2>3, <3>1, <3>2 DEF RetryFailedMessage, routerVars, DeliveredOnce, RecoveredWasStored
  <2>4. QED
    BY <2>1, <2>2, <2>3, StepCases, ConfigOnly
       DEF Recovery, Forward, ReceiverEmergencyWithdraw, EscrowStep, receiverVars, allVars
<1>3. QED
  BY <1>1, <1>2, ReceiverTypeCorrect, PTL DEF ReceiverSpec

\* A message is Delivered on at most one router, and then completed or stored
\* as failed, never both.
THEOREM ReceiverDeliversOnce == ReceiverSpec => []DeliveredOnce
BY OnceInductive, PTL

-----------------------------------------------------------------------------
\* What one step does to a message's outcome: nothing, or one lifecycle move of
\* one message.
LEMMA DeliveryMoves ==
  ASSUME ReceiverTypeOK, DeliveredOnce, RecoveredWasStored,
         NEW r \in Routers, NEW m \in Messages, NEW c \in SourceChains, CcipReceive(r, m, c)
  PROVE  [Lifecycle!LifecycleNext]_Outcome
<1>1. CASE ReceiveReverts(r, m, c)
  BY <1>1 DEF ReceiveReverts, messageVars, Outcome
<1>2. CASE ReceiveCompletes(r, m, c)
  <2>1. Outcome[m] = "InFlight"
    BY <1>2 DEF ReceiveCompletes, Accepted, DeliveredOnce, RecoveredWasStored, Outcome
  <2>2. Outcome' = [Outcome EXCEPT ![m] = "Completed"]
    BY <1>2 DEF ReceiveCompletes, Outcome
  <2>3. QED
    BY <2>1, <2>2 DEF Lifecycle!LifecycleNext, Lifecycle!Complete, Lifecycle!Move
<1>3. CASE ReceiveFails(r, m, c)
  <2>1. m \notin completed /\ Outcome[m] = "InFlight"
    BY <1>3 DEF ReceiveFails, Accepted, DeliveredOnce, RecoveredWasStored, Outcome
  <2>2. Outcome' = [Outcome EXCEPT ![m] = "Failed"]
    BY <1>3, <2>1 DEF ReceiveFails, Outcome, ReceiverTypeOK
  <2>3. QED
    BY <2>1, <2>2 DEF Lifecycle!LifecycleNext, Lifecycle!Fail, Lifecycle!Move
<1>4. QED
  BY <1>1, <1>2, <1>3 DEF CcipReceive

\* The destination leg implements the message lifecycle.
THEOREM ReceiverImplementsLifecycle == ReceiverSpec => ImplementsLifecycle
<1>1. ReceiverInit => Lifecycle!LifecycleInit
  BY DEF ReceiverInit, Lifecycle!LifecycleInit, Outcome, NotFailed
<1>2. ReceiverTypeOK /\ DeliveredOnce /\ RecoveredWasStored /\ [ReceiverNext]_allVars
         => [Lifecycle!LifecycleNext]_Outcome
  <2> SUFFICES ASSUME ReceiverTypeOK, DeliveredOnce, RecoveredWasStored, [ReceiverNext]_allVars
               PROVE  [Lifecycle!LifecycleNext]_Outcome
    OBVIOUS
  <2>1. CASE UNCHANGED messageVars
    BY <2>1 DEF messageVars, Outcome
  <2>2. CASE Delivery
    BY <2>2, DeliveryMoves DEF Delivery
  <2>3. ASSUME NEW m \in Messages, RetryFailedMessage(m)
        PROVE  [Lifecycle!LifecycleNext]_Outcome
    <3>1. m \notin completed /\ Outcome[m] = "Failed"
      BY <2>3 DEF RetryFailedMessage, CanRetryMessage, DeliveredOnce, Outcome
    <3>2. Outcome' = [Outcome EXCEPT ![m] = "Recovered"]
      BY <2>3, <3>1 DEF RetryFailedMessage, Outcome, ReceiverTypeOK
    <3>3. QED
      BY <3>1, <3>2 DEF Lifecycle!LifecycleNext, Lifecycle!Recover, Lifecycle!Move
  <2>4. QED
    BY <2>1, <2>2, <2>3, StepCases, ConfigOnly
       DEF Recovery, Forward, ReceiverEmergencyWithdraw, EscrowStep, receiverVars, allVars
<1>3. QED
  BY <1>1, <1>2, ReceiverTypeCorrect, OnceInductive, PTL
     DEF ReceiverSpec, ImplementsLifecycle, Lifecycle!LifecycleSpec

-----------------------------------------------------------------------------
(* The token ledger. *)

OpenedTotal == Total(Opened, AmountOf)
ProcessedTotal == Total(processedMessages, AmountIn)
AppliedTotal == Total(Applied, AmountIn)

LEMMA MessageTotals ==
  ASSUME NEW S \in SUBSET Messages
  PROVE  /\ IsFiniteSet(S)
         /\ \A m \in S : AmountIn[m] \in Nat
         /\ Total(S, AmountIn) \in Nat
<1>1. IsFiniteSet(S) /\ \A m \in S : AmountIn[m] \in Nat
  BY MessagesAssumption, AmountsPositive, FS_Subset
<1>2. QED
  BY <1>1, TotalType

LEMMA MessageAdded ==
  ASSUME NEW S \in SUBSET Messages, NEW m \in Messages, m \notin S
  PROVE  Total(S \cup {m}, AmountIn) = Total(S, AmountIn) + AmountIn[m]
<1>1. IsFiniteSet(S) /\ \A n \in S \cup {m} : AmountIn[n] \in Nat
  BY MessageTotals, MessagesAssumption, AmountsPositive
<1>2. QED
  BY <1>1, TotalAdd

LEMMA OpenedTotalType ==
  ASSUME EscrowTypeOK
  PROVE  OpenedTotal \in Nat
<1>1. IsFiniteSet(Opened)
  BY EscrowIdsFinite, FS_Subset DEF Opened
<1>2. \A id \in Opened : AmountOf[id] \in Nat
  BY AmountOfType DEF Opened
<1>3. QED
  BY <1>1, <1>2, TotalType DEF OpenedTotal

\* A deposit adds the message's amount to the records ever opened.
LEMMA DepositOpens ==
  ASSUME EscrowTypeOK, NEW d, NEW id \in EscrowIds, NEW u \in Users, NEW a \in Nat,
         DepositFailedTransfer(d, id, u, a)
  PROVE  OpenedTotal' = OpenedTotal + a
<1> DEFINE S == Opened
           f == AmountOf
           g == AmountOf'
<1>1. Opened' = S \cup {id} /\ id \notin S
  BY DEF EscrowTypeOK, Opened, DepositFailedTransfer, DepositAllowed, PendingRecord
<1>2. g[id] = a /\ \A i \in S : g[i] = f[i]
  BY DEF EscrowTypeOK, AmountOf, Opened, DepositFailedTransfer, DepositAllowed, PendingRecord
<1>3. \A i \in S : f[i] \in Nat
  BY AmountOfType DEF Opened
<1>4. IsFiniteSet(S)
  BY EscrowIdsFinite, FS_Subset DEF Opened
<1>5. Total(S \cup {id}, g) = Total(S, g) + g[id]
  <2>1. \A i \in S \cup {id} : g[i] \in Nat
    BY <1>2, <1>3
  <2> HIDE DEF S, g
  <2>2. QED
    BY <2>1, <1>1, <1>4, TotalAdd
<1>6. Total(S, g) = Total(S, f)
  <2> HIDE DEF S, f, g
  <2> QED BY <1>2, TotalSame
<1>7. OpenedTotal' = Total(S \cup {id}, g) /\ OpenedTotal = Total(S, f)
  BY <1>1 DEF OpenedTotal
<1>8. QED
  BY <1>2, <1>5, <1>6, <1>7

\* Nothing else the escrow does changes which records were opened, or for how much.
LEMMA OpenedKept ==
  ASSUME EscrowTypeOK, UNCHANGED escrowVars \/ EscrowStep
  PROVE  OpenedTotal' = OpenedTotal
<1>1. CASE UNCHANGED escrows
  BY <1>1 DEF OpenedTotal, Opened, AmountOf
<1>2. ASSUME NEW id \in EscrowIds, NEW s \in {"Claimed", "Retried"}, NEW k,
             escrows[id].status = "Pending",
             escrows' = [escrows EXCEPT ![id] = SettledRecord(escrows[id], s, k)]
      PROVE  OpenedTotal' = OpenedTotal
  <2>1. Opened' = Opened
    BY <1>2 DEF EscrowTypeOK, Opened, SettledRecord
  <2>2. AmountOf' = AmountOf
    BY <1>2 DEF EscrowTypeOK, AmountOf, SettledRecord
  <2>3. QED
    BY <2>1, <2>2 DEF OpenedTotal
<1>3. ASSUME NEW id \in EscrowIds, NEW u \in Users, ClaimEscrow(id, u)
      PROVE  OpenedTotal' = OpenedTotal
  BY <1>2, <1>3 DEF ClaimEscrow, CanClaim
<1>4. ASSUME NEW id \in EscrowIds, RetryTransfer(Operator, id)
      PROVE  OpenedTotal' = OpenedTotal
  BY <1>2, <1>4 DEF RetryTransfer
<1>5. QED
  BY <1>1, <1>3, <1>4
     DEF escrowVars, EscrowStep, SetAuthorizedDepositor, EmergencyWithdraw, ReceiveStray, Tick

\* A delivery mints once and puts what it minted in one place.
LEMMA DeliveryAccounted ==
  ASSUME ReceiverTypeOK, DeliveredOnce, RecoveredWasStored, TokensAccounted,
         NEW r \in Routers, NEW m \in Messages, NEW c \in SourceChains, CcipReceive(r, m, c)
  PROVE  TokensAccounted'
<1>0. /\ EscrowTypeOK /\ now \in 0..MaxTime
      /\ ProcessedTotal \in Nat /\ AppliedTotal \in Nat /\ OpenedTotal \in Nat
      /\ AmountIn[m] \in Nat /\ receiverBalance \in Nat /\ receiverSwept \in Nat /\ forwarded \in Nat
      /\ ProcessedTotal + forwarded = AppliedTotal + OpenedTotal + receiverBalance + receiverSwept
  <2>1. EscrowTypeOK /\ Applied \in SUBSET Messages /\ processedMessages \in SUBSET Messages
    BY DEF ReceiverTypeOK, Applied
  <2>2. ProcessedTotal \in Nat /\ AppliedTotal \in Nat
    BY <2>1, MessageTotals DEF ProcessedTotal, AppliedTotal
  <2>3. OpenedTotal \in Nat
    BY <2>1, OpenedTotalType
  <2>4. AmountIn[m] \in Nat /\ now \in 0..MaxTime
    <3>1. AmountIn[m] \in Nat
      BY MessagesAssumption, AmountsPositive
    <3>2. now \in Nat /\ now <= MaxTime
      BY DEF ReceiverTypeOK, EscrowTypeOK
    <3>3. QED
      BY <3>1, <3>2, EscrowBounds
  <2>5. QED
    BY <2>1, <2>2, <2>3, <2>4
       DEF ReceiverTypeOK, TokensAccounted, ProcessedTotal, AppliedTotal, OpenedTotal
<1>1. CASE ReceiveReverts(r, m, c)
  <2>1. OpenedTotal' = OpenedTotal
    BY <1>0, <1>1, OpenedKept DEF ReceiveReverts
  <2>2. QED
    BY <1>1, <2>1 DEF ReceiveReverts, messageVars, fundVars, TokensAccounted, Applied, OpenedTotal
<1>2. ASSUME m \notin processedMessages, processedMessages' = processedMessages \cup {m}
      PROVE  ProcessedTotal' = ProcessedTotal + AmountIn[m]
  BY <1>2, MessageAdded DEF ReceiverTypeOK, ProcessedTotal
<1>3. ASSUME m \notin processedMessages
      PROVE  m \notin Applied
  BY <1>3 DEF DeliveredOnce, RecoveredWasStored, Applied
<1>4. CASE ReceiveCompletes(r, m, c)
  <2>1. OpenedTotal' = OpenedTotal
    BY <1>0, <1>4, OpenedKept DEF ReceiveCompletes
  <2>2. ProcessedTotal' = ProcessedTotal + AmountIn[m]
    BY <1>2, <1>4 DEF ReceiveCompletes, Accepted
  <2>3. Applied' = Applied \cup {m} /\ m \notin Applied
    BY <1>3, <1>4 DEF ReceiveCompletes, Accepted, Applied
  <2>4. AppliedTotal' = AppliedTotal + AmountIn[m]
    BY <2>3, MessageAdded DEF ReceiverTypeOK, AppliedTotal, Applied
  <2>5. UNCHANGED fundVars
    BY <1>4 DEF ReceiveCompletes
  <2>6. ProcessedTotal' + forwarded' = AppliedTotal' + OpenedTotal' + receiverBalance' + receiverSwept'
    BY <1>0, <2>1, <2>2, <2>4, <2>5 DEF fundVars
  <2>7. QED
    BY <2>6 DEF TokensAccounted, ProcessedTotal, AppliedTotal, OpenedTotal
<1>5. CASE ReceiveFails(r, m, c)
  <2>1. ProcessedTotal' = ProcessedTotal + AmountIn[m]
    BY <1>2, <1>5 DEF ReceiveFails, Accepted
  <2>2. Applied' = Applied
    <3>1. ~failedMessages[m].recovered
      BY <1>5 DEF ReceiveFails, Accepted, DeliveredOnce, RecoveredWasStored
    <3>2. \A n \in Messages : failedMessages'[n].recovered <=> failedMessages[n].recovered
      BY <1>5, <3>1 DEF ReceiveFails, ReceiverTypeOK, FailedMessage
    <3>3. QED
      BY <1>5, <3>2 DEF ReceiveFails, Applied
  <2>3. AppliedTotal' = AppliedTotal
    BY <2>2 DEF AppliedTotal
  <2>4. OpenedTotal' + receiverBalance' = OpenedTotal + receiverBalance + AmountIn[m]
    <3>1. CASE /\ DepositFailedTransfer(Receiver, EscrowIdOf(m, now), UserOf[m], AmountIn[m])
               /\ UNCHANGED receiverBalance
      <4>1. EscrowIdOf(m, now) \in EscrowIds /\ UserOf[m] \in Users
        BY <1>0, EscrowIdsOfMessages, MessagesAssumption DEF EscrowIdOf
      <4>2. OpenedTotal' = OpenedTotal + AmountIn[m]
        BY <1>0, <3>1, <4>1, DepositOpens
      <4>3. QED
        BY <1>0, <3>1, <4>2
    <3>2. CASE receiverBalance' = receiverBalance + AmountIn[m] /\ UNCHANGED escrowVars
      <4>1. OpenedTotal' = OpenedTotal
        BY <1>0, <3>2, OpenedKept
      <4>2. QED
        BY <1>0, <3>2, <4>1
    <3>3. QED
      BY <1>5, <3>1, <3>2 DEF ReceiveFails
  <2>5. UNCHANGED <<forwarded, receiverSwept>>
    BY <1>5 DEF ReceiveFails
  <2>6. ProcessedTotal' + forwarded' = AppliedTotal' + OpenedTotal' + receiverBalance' + receiverSwept'
    <3> DEFINE x == OpenedTotal' + receiverBalance'
    <3>1. x = OpenedTotal + receiverBalance + AmountIn[m]
      BY <2>4
    <3>2. OpenedTotal' \in Nat /\ receiverBalance' \in Nat
      <4>1. EscrowTypeOK' /\ OwnTypeOK'
        <5>1. OwnTypeOK
          BY DEF ReceiverTypeOK, OwnTypeOK
        <5>2. OwnTypeOK'
          BY <1>0, <5>1, DeliveryType
        <5>3. EscrowTypeOK'
          BY <1>0, DeliveryDeposits, EscrowTypeStep
        <5>4. QED
          BY <5>2, <5>3
      <4>2. OpenedTotal' \in Nat
        <5>1. IsFiniteSet(Opened')
          BY EscrowIdsFinite, FS_Subset DEF Opened
        <5>2. \A id \in Opened' : AmountOf'[id] \in Nat
          BY <4>1 DEF Opened, AmountOf, EscrowTypeOK, EscrowRecord
        <5>3. QED
          BY <5>1, <5>2, TotalType DEF OpenedTotal
      <4>3. QED
        BY <4>1, <4>2 DEF OwnTypeOK
    <3>3. QED
      BY <1>0, <2>1, <2>3, <2>5, <3>1, <3>2
  <2>7. QED
    BY <2>6 DEF TokensAccounted, ProcessedTotal, AppliedTotal, OpenedTotal
<1>6. QED
  BY <1>1, <1>4, <1>5 DEF CcipReceive

\* Tokens that move between the operator, the receiver and its owner cancel out.
LEMMA LedgerShift ==
  ASSUME NEW P \in Nat, NEW A \in Nat, NEW O \in Nat,
         NEW f \in Nat, NEW b \in Nat, NEW s \in Nat,
         NEW g \in Nat, NEW c \in Nat, NEW t \in Nat,
         P + f = A + O + b + s, g + b + s = f + c + t
  PROVE  P + g = A + O + c + t
OBVIOUS

\* Every token minted for a processed message, or sent back by the operator, is
\* with an adapter, in a record, in the receiver or with its owner.
THEOREM ReceiverAccountsTokens == ReceiverSpec => []TokensAccounted
<1>1. ReceiverInit => TokensAccounted
  <2> SUFFICES ASSUME ReceiverInit PROVE TokensAccounted
    OBVIOUS
  <2>1. Opened = {} /\ Applied = {} /\ processedMessages = {}
    BY DEF ReceiverInit, EscrowInit, EmptyRecord, NotFailed, Opened, Applied
  <2>2. QED
    BY <2>1, TotalEmpty DEF ReceiverInit, TokensAccounted
<1>2. ReceiverTypeOK /\ DeliveredOnce /\ RecoveredWasStored /\ TokensAccounted
         /\ [ReceiverNext]_allVars => TokensAccounted'
  <2> SUFFICES ASSUME ReceiverTypeOK, DeliveredOnce, RecoveredWasStored, TokensAccounted,
                      [ReceiverNext]_allVars
               PROVE  TokensAccounted'
    OBVIOUS
  <2>0. /\ EscrowTypeOK
        /\ ProcessedTotal \in Nat /\ AppliedTotal \in Nat /\ OpenedTotal \in Nat
        /\ receiverBalance \in Nat /\ receiverSwept \in Nat /\ forwarded \in Nat
        /\ ProcessedTotal + forwarded = AppliedTotal + OpenedTotal + receiverBalance + receiverSwept
    <3>1. EscrowTypeOK /\ Applied \in SUBSET Messages /\ processedMessages \in SUBSET Messages
      BY DEF ReceiverTypeOK, Applied
    <3>2. ProcessedTotal \in Nat /\ AppliedTotal \in Nat /\ OpenedTotal \in Nat
      BY <3>1, MessageTotals, OpenedTotalType DEF ProcessedTotal, AppliedTotal
    <3>3. QED
      BY <3>1, <3>2
         DEF ReceiverTypeOK, TokensAccounted, ProcessedTotal, AppliedTotal, OpenedTotal
  <2>1. CASE UNCHANGED <<messageVars, fundVars>> /\ OpenedTotal' = OpenedTotal
    BY <2>1 DEF messageVars, fundVars, TokensAccounted, Applied, OpenedTotal
  <2>2. CASE Delivery
    BY <2>2, DeliveryAccounted DEF Delivery
  <2>3. ASSUME UNCHANGED <<processedMessages, AppliedTotal, escrowVars>>,
               forwarded' \in Nat, receiverBalance' \in Nat, receiverSwept' \in Nat,
               forwarded' + receiverBalance + receiverSwept
                   = forwarded + receiverBalance' + receiverSwept'
        PROVE  TokensAccounted'
    <3>1. OpenedTotal' = OpenedTotal /\ ProcessedTotal' = ProcessedTotal /\ AppliedTotal' = AppliedTotal
      BY <2>0, <2>3, OpenedKept DEF ProcessedTotal
    <3>2. ProcessedTotal' + forwarded' = AppliedTotal' + OpenedTotal' + receiverBalance' + receiverSwept'
      <4>1. /\ forwarded' \in Nat /\ receiverBalance' \in Nat /\ receiverSwept' \in Nat
            /\ forwarded' + receiverBalance + receiverSwept
                   = forwarded + receiverBalance' + receiverSwept'
        BY <2>3
      <4>2. ProcessedTotal + forwarded' = AppliedTotal + OpenedTotal + receiverBalance' + receiverSwept'
        <5> DEFINE x == ProcessedTotal
                   y == AppliedTotal + OpenedTotal
        <5>1. x \in Nat /\ y \in Nat /\ x + forwarded = y + receiverBalance + receiverSwept
          BY <2>0
        <5> HIDE DEF x, y
        <5>2. x + forwarded' = y + receiverBalance' + receiverSwept'
          BY <2>0, <4>1, <5>1
        <5>3. QED
          BY <5>2 DEF x, y
      <4>3. QED
        BY <3>1, <4>2
    <3>3. QED
      BY <3>2 DEF TokensAccounted, ProcessedTotal, AppliedTotal, OpenedTotal
  <2>4. ASSUME NEW a \in 1..returned, Forward(a)
        PROVE  TokensAccounted'
    BY <2>0, <2>3, <2>4 DEF Forward, messageVars, AppliedTotal, Applied, EscrowTypeOK
  <2>5. ASSUME NEW a \in 1..receiverBalance, ReceiverEmergencyWithdraw(a)
        PROVE  TokensAccounted'
    BY <2>0, <2>3, <2>5 DEF ReceiverEmergencyWithdraw, messageVars, AppliedTotal, Applied
  <2>6. ASSUME NEW m \in Messages, RetryFailedMessage(m)
        PROVE  TokensAccounted'
    <3>1. Applied' = Applied \cup {m} /\ m \notin Applied /\ Applied \in SUBSET Messages
      <4>1. \A n \in Messages : failedMessages'[n].recovered <=> (failedMessages[n].recovered \/ n = m)
        BY <2>6 DEF RetryFailedMessage, ReceiverTypeOK, FailedMessage
      <4>2. completed' = completed /\ m \notin completed /\ ~failedMessages[m].recovered
        BY <2>6 DEF RetryFailedMessage, CanRetryMessage, DeliveredOnce
      <4>3. QED
        BY <4>1, <4>2 DEF Applied, ReceiverTypeOK
    <3>2. AppliedTotal' = AppliedTotal + AmountIn[m] /\ AmountIn[m] \in Nat
      BY <3>1, MessageAdded, MessagesAssumption, AmountsPositive DEF AppliedTotal
    <3>3. OpenedTotal' = OpenedTotal /\ ProcessedTotal' = ProcessedTotal
      BY <2>0, <2>6, OpenedKept DEF RetryFailedMessage, ProcessedTotal
    <3>4. ProcessedTotal' + forwarded' = AppliedTotal' + OpenedTotal' + receiverBalance' + receiverSwept'
      <4> DEFINE x == AmountIn[m]
      <4>1. /\ receiverBalance' = receiverBalance - x
            /\ forwarded' = forwarded /\ receiverSwept' = receiverSwept
        BY <2>6 DEF RetryFailedMessage
      <4>2. AppliedTotal' = AppliedTotal + x /\ x \in Nat
        BY <3>2
      <4> HIDE DEF x
      <4>3. QED
        BY <2>0, <3>3, <4>1, <4>2
    <3>5. QED
      BY <3>4 DEF TokensAccounted, ProcessedTotal, AppliedTotal, OpenedTotal
  <2>7. CASE ConfigStep \/ EscrowStep \/ UNCHANGED allVars
    BY <2>0, <2>1, <2>7, ConfigOnly, OpenedKept
       DEF EscrowStep, allVars, receiverVars
  <2>8. QED
    BY <2>2, <2>4, <2>5, <2>6, <2>7, StepCases DEF Recovery
<1>3. QED
  BY <1>1, <1>2, ReceiverTypeCorrect, OnceInductive, PTL DEF ReceiverSpec
-----------------------------------------------------------------------------
(* Escrow records and failed messages. *)

\* Message m's failure is what record id was opened for.
Backs(m, id) ==
    /\ failedMessages[m].stored
    /\ id = EscrowIdOf(m, failedMessages[m].timestamp)
    /\ escrows[id].owner = UserOf[m]
    /\ escrows[id].amount = AmountIn[m]
    /\ escrows[id].createdAt = failedMessages[m].timestamp

\* Records that keep their opening facts stay backed while no failure is
\* rewritten.
LEMMA BackingKept ==
  ASSUME EscrowBacksFailure,
         \A id \in EscrowIds : escrows'[id].status # "None" =>
             /\ escrows[id].status # "None"
             /\ escrows'[id].owner = escrows[id].owner
             /\ escrows'[id].amount = escrows[id].amount
             /\ escrows'[id].createdAt = escrows[id].createdAt,
         \A m \in Messages : failedMessages[m].stored =>
             /\ failedMessages'[m].stored
             /\ failedMessages'[m].timestamp = failedMessages[m].timestamp
  PROVE  EscrowBacksFailure'
<1> SUFFICES ASSUME NEW id \in EscrowIds, escrows'[id].status # "None"
             PROVE  \E m \in Messages : Backs(m, id)'
  BY DEF EscrowBacksFailure, Backs
<1>1. PICK m \in Messages : Backs(m, id)
  BY DEF EscrowBacksFailure, Backs
<1>2. Backs(m, id)'
  BY <1>1 DEF Backs, EscrowIdOf
<1>3. QED
  BY <1>2

\* A deposit opens the record of the message that fails, which no record and no
\* failure was about before.
LEMMA FailureBacked ==
  ASSUME ReceiverTypeOK, DeliveredOnce, EscrowBacksFailure,
         NEW r \in Routers, NEW m \in Messages, NEW c \in SourceChains, ReceiveFails(r, m, c)
  PROVE  EscrowBacksFailure'
<1> DEFINE new == EscrowIdOf(m, now)
<1>1. new \in EscrowIds
  <2>1. now \in 0..MaxTime
    BY EscrowBounds DEF ReceiverTypeOK, EscrowTypeOK
  <2>2. QED
    BY <2>1, EscrowIdsOfMessages DEF EscrowIdOf
<1>2. ~failedMessages[m].stored
  BY DEF ReceiveFails, Accepted, DeliveredOnce
<1>3. /\ \A n \in Messages \ {m} : failedMessages'[n] = failedMessages[n]
      /\ failedMessages'[m].stored /\ failedMessages'[m].timestamp = now
  BY DEF ReceiveFails, ReceiverTypeOK
<1>4. \A n \in Messages : failedMessages[n].stored =>
          failedMessages'[n].stored /\ failedMessages'[n].timestamp = failedMessages[n].timestamp
  BY <1>2, <1>3
<1>5. CASE UNCHANGED escrowVars
  <2>1. escrows' = escrows
    BY <1>5 DEF escrowVars
  <2>2. QED
    BY <1>4, <2>1, BackingKept
<1>6. CASE DepositFailedTransfer(Receiver, new, UserOf[m], AmountIn[m])
  <2>1. escrows' = [escrows EXCEPT ![new] = PendingRecord(UserOf[m], AmountIn[m])]
    BY <1>6 DEF DepositFailedTransfer
  <2> SUFFICES ASSUME NEW id \in EscrowIds, escrows'[id].status # "None"
               PROVE  \E n \in Messages : Backs(n, id)'
    BY DEF EscrowBacksFailure, Backs
  <2>2. CASE id = new
    <3>1. escrows'[id] = PendingRecord(UserOf[m], AmountIn[m])
      BY <1>1, <2>1, <2>2 DEF ReceiverTypeOK, EscrowTypeOK
    <3>2. Backs(m, id)'
      BY <1>3, <2>2, <3>1 DEF Backs, PendingRecord, EscrowIdOf
    <3>3. QED
      BY <3>2
  <2>3. CASE id # new
    <3>1. escrows'[id] = escrows[id]
      BY <2>1, <2>3 DEF ReceiverTypeOK, EscrowTypeOK
    <3>2. PICK n \in Messages : Backs(n, id)
      BY <3>1 DEF EscrowBacksFailure, Backs
    <3>3. Backs(n, id)'
      BY <1>4, <3>1, <3>2 DEF Backs, EscrowIdOf
    <3>4. QED
      BY <3>3
  <2>4. QED
    BY <2>2, <2>3
<1>7. QED
  BY <1>5, <1>6 DEF ReceiveFails

\* What happens in the escrow between deliveries keeps a record's opening facts.
LEMMA EscrowStepKeeps ==
  ASSUME EscrowTypeOK, EscrowStep
  PROVE  \A id \in EscrowIds : escrows'[id].status # "None" =>
             /\ escrows[id].status # "None"
             /\ escrows'[id].owner = escrows[id].owner
             /\ escrows'[id].amount = escrows[id].amount
             /\ escrows'[id].createdAt = escrows[id].createdAt
<1>1. CASE UNCHANGED escrows
  BY <1>1
<1>2. ASSUME NEW i \in EscrowIds, NEW st, NEW k, escrows[i].status = "Pending",
             escrows' = [escrows EXCEPT ![i] = SettledRecord(escrows[i], st, k)]
      PROVE  \A id \in EscrowIds : escrows'[id].status # "None" =>
                 /\ escrows[id].status # "None"
                 /\ escrows'[id].owner = escrows[id].owner
                 /\ escrows'[id].amount = escrows[id].amount
                 /\ escrows'[id].createdAt = escrows[id].createdAt
  BY <1>2 DEF EscrowTypeOK, SettledRecord
<1>3. ASSUME NEW i \in EscrowIds, NEW u \in Users, ClaimEscrow(i, u)
      PROVE  /\ escrows[i].status = "Pending"
             /\ escrows' = [escrows EXCEPT ![i] =
                               SettledRecord(escrows[i], "Claimed", escrows[i].retryCount)]
  BY <1>3 DEF ClaimEscrow, CanClaim
<1>4. ASSUME NEW i \in EscrowIds, RetryTransfer(Operator, i)
      PROVE  /\ escrows[i].status = "Pending"
             /\ escrows' = [escrows EXCEPT ![i] =
                               SettledRecord(escrows[i], "Retried", escrows[i].retryCount + 1)]
  BY <1>4 DEF RetryTransfer
<1>5. \/ UNCHANGED escrows
      \/ \E i \in EscrowIds, u \in Users : ClaimEscrow(i, u)
      \/ \E i \in EscrowIds : RetryTransfer(Operator, i)
  BY DEF EscrowStep, SetAuthorizedDepositor, EmergencyWithdraw, ReceiveStray, Tick
<1>6. QED
  BY <1>1, <1>2, <1>3, <1>4, <1>5

\* Every escrow record is backed by the failure of one message, for that
\* message's user and amount, opened when it failed.
THEOREM EscrowsAreBacked == ReceiverSpec => []EscrowBacksFailure
<1>1. ReceiverInit => EscrowBacksFailure
  BY DEF ReceiverInit, EscrowInit, EmptyRecord, EscrowBacksFailure
<1>2. ReceiverTypeOK /\ DeliveredOnce /\ EscrowBacksFailure /\ [ReceiverNext]_allVars
         => EscrowBacksFailure'
  <2> SUFFICES ASSUME ReceiverTypeOK, DeliveredOnce, EscrowBacksFailure, [ReceiverNext]_allVars
               PROVE  EscrowBacksFailure'
    OBVIOUS
  <2>1. ASSUME escrows' = escrows, failedMessages' = failedMessages
        PROVE  EscrowBacksFailure'
    BY <2>1, BackingKept
  <2>2. CASE Delivery
    <3>1. PICK r \in Routers, m \in Messages, c \in SourceChains : CcipReceive(r, m, c)
      BY <2>2 DEF Delivery
    <3>2. QED
      BY <2>1, <3>1, FailureBacked
         DEF CcipReceive, ReceiveReverts, ReceiveCompletes, escrowVars, messageVars
  <2>3. ASSUME NEW m \in Messages, RetryFailedMessage(m)
        PROVE  EscrowBacksFailure'
    <3>1. \A n \in Messages : failedMessages[n].stored =>
              failedMessages'[n].stored /\ failedMessages'[n].timestamp = failedMessages[n].timestamp
      BY <2>3 DEF RetryFailedMessage, ReceiverTypeOK
    <3>2. escrows' = escrows
      BY <2>3 DEF RetryFailedMessage, escrowVars
    <3>3. QED
      BY <3>1, <3>2, BackingKept
  <2>4. CASE EscrowStep
    <3>1. failedMessages' = failedMessages
      BY <2>4 DEF EscrowStep, receiverVars, messageVars
    <3>2. QED
      BY <2>4, <3>1, EscrowStepKeeps, BackingKept DEF ReceiverTypeOK
  <2>5. QED
    BY <2>1, <2>2, <2>3, <2>4, StepCases, ConfigOnly
       DEF Recovery, Forward, ReceiverEmergencyWithdraw, escrowVars, messageVars,
           receiverVars, allVars
<1>3. QED
  BY <1>1, <1>2, ReceiverTypeCorrect, ReceiverDeliversOnce, PTL DEF ReceiverSpec
=============================================================================
