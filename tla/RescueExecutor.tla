--------------------------- MODULE RescueExecutor ---------------------------
(***************************************************************************)
(* The source leg: contracts/src/reprieve/RescueExecutor.sol with the      *)
(* RescueLog it writes, the RescueEscrow it falls back to and the          *)
(* ReprieveWorkflowReceiver that submits plans to it.                      *)
(*                                                                         *)
(* executeRescue is one transaction with a loop of steps, each of which    *)
(* may fail on its own; the transaction may also revert as a whole, at any *)
(* step.  The loop is modelled step by step: while a rescue runs no other  *)
(* transaction does, and RevertRescue restores the state saved when it     *)
(* began.  Every other action is a transaction of its own.                 *)
(*                                                                         *)
(* What adapters and the CCIP router answer is a nondeterministic choice.  *)
(***************************************************************************)
EXTENDS RescueEscrow

CONSTANTS
    ExecIds,         \* execution ids
    Chains,          \* destination chain selectors
    Plans,           \* rescue plans that workflows may submit
    NoPlan,          \* no rescue is running
    Owner,           \* owner of the executor
    Workflow,        \* a workflow account
    ReportReceiver,  \* the ReprieveWorkflowReceiver contract
    Executor,        \* this contract, as a depositor and a log writer
    EscrowContract,  \* the escrow, as a log writer
    Operator,        \* the operator's account that retries escrow transfers
    Fees,            \* fees the router may quote
    MaxNative,       \* bound: native tokens sent to the executor for fees
    MaxLegs,         \* bound: direct leg calls
    MaxChanges       \* bound: changes of the deployed configuration

Modes == {"TOP_UP", "REPAY"}

Steps == [stepIndex : Nat, hasAdapters : BOOLEAN, sameAsset : BOOLEAN,
          collateralAmount : Nat, debtAmount : Nat, isCrossChain : BOOLEAN, targetChain : Chains]

RescuePlan == [execId : ExecIds, user : Users, mode : Modes, steps : Seq(Steps),
               deadline : Nat]

ASSUME PlansAssumption == Plans \subseteq RescuePlan /\ NoPlan \notin RescuePlan
ASSUME ExecutorBounds == Fees \subseteq Nat /\ MaxNative \in Nat /\ MaxLegs \in Nat /\ MaxChanges \in Nat
ASSUME ExecutorActors ==
    /\ {Executor, Operator} \subseteq Depositors
    /\ Executor # Operator

\* keccak256(execId, step.stepIndex, block.timestamp): the index is the plan's.
EscrowIdOf(e, stepIndex, t) == <<e, stepIndex, t>>

PlanSteps == UNION {{p.steps[i] : i \in DOMAIN p.steps} : p \in Plans}

ASSUME EscrowIdsOfSteps ==
    {EscrowIdOf(e, s.stepIndex, t) : e \in ExecIds, s \in PlanSteps, t \in 0..MaxTime} \subseteq EscrowIds

VARIABLES
    authorizedWorkflows,       \* set of addresses mapped to true
    authorizedWriters,         \* RescueLog.authorizedWriters
    trustedDestinationChains,  \* set of chains mapped to true
    chainReceivers,            \* set of chains with a receiver address
    ccipRouter,                \* a router has been set
    rescueInProgress,          \* set of users mapped to true
    rescueStatus,              \* execId => RescueStatus
    ccipMessageIds,            \* execId => last CCIP message id, 0 for none
    processedExecIds,          \* ReprieveWorkflowReceiver.processedExecIds
    logEntries,                \* RescueLog.logEntries
    executorBalance,           \* the token's balanceOf(executor)
    nativeBalance,             \* native tokens for fees
    sentMessages,              \* messages the router accepted; a message's id is its position
    tx,                        \* the rescue in execution: plan, next step, whether one succeeded
    saved,                     \* the state a revert restores, NoPlan between rescues
    \* The ledger of the token as far as the executor moved it.
    withdrawn,                 \* taken from source positions
    applied,                   \* supplied or repaid on this chain
    executorSwept,             \* taken by the executor's emergencyWithdraw
    legs,                      \* direct leg calls so far
    funded,                    \* native tokens received so far
    changes                    \* configuration changes so far

configVars == <<authorizedWorkflows, authorizedWriters, trustedDestinationChains,
                chainReceivers, ccipRouter>>
boundVars == <<legs, funded, changes>>
tokenVars == <<executorBalance, withdrawn, applied>>
sendVars == <<sentMessages, ccipMessageIds, nativeBalance>>
statusVars == <<rescueInProgress, rescueStatus>>
txVars == <<tx, saved>>
executorVars == <<configVars, statusVars, processedExecIds, logEntries, tokenVars, sendVars,
                  txVars, executorSwept, boundVars>>
allVars == <<escrowVars, executorVars>>

-----------------------------------------------------------------------------
(* Plans and steps. *)

Smaller(m, n) == IF m < n THEN m ELSE n

\* _validateStepForMode
ValidStep(step, mode) ==
    /\ step.hasAdapters
    /\ step.collateralAmount > 0
    /\ mode = "REPAY" => /\ step.debtAmount > 0
                         /\ step.isCrossChain \/ step.sameAsset

\* What a step asks of its source: a same-chain repay aligns both amounts.
Requested(step, mode) ==
    IF mode = "REPAY" /\ ~step.isCrossChain
    THEN Smaller(step.debtAmount, step.collateralAmount)
    ELSE step.collateralAmount

\* The source's available collateral, less the reserve, may cap the request.
Withdrawals(step, mode) == 1..Requested(step, mode)

-----------------------------------------------------------------------------
(* RescueLog. *)

RescueStatus == {"None", "InProgress", "Completed", "Failed"}
LogKinds == {"Initiated", "Started", "Sent", "Escrowed", "StepCompleted", "StepFailed",
             "Completed", "Failed", "EscrowEvent"}
LogEntry == [what : LogKinds, message : Nat]

Entry(what) == [what |-> what, message |-> 0]
\* Fault: the log does not name the message.
SentEntryUnlinked(message) == [what |-> "Sent", message |-> 0]
SentEntry(message) == [what |-> "Sent", message |-> message]

HasEntries(e) == logEntries[e] # <<>>

\* The escrow's own entry, in a try: skipped unless the escrow may write and the
\* execution has a log.
EscrowEntries(e) ==
    IF EscrowContract \in authorizedWriters /\ HasEntries(e) THEN <<Entry("EscrowEvent")>> ELSE <<>>

\* The executor's "Funds escrowed" entry, in a try as well.
EscrowedEntries(e) ==
    IF Executor \in authorizedWriters /\ HasEntries(e) THEN <<Entry("Escrowed")>> ELSE <<>>

AddEntries(e, entries) == logEntries' = [logEntries EXCEPT ![e] = @ \o entries]

-----------------------------------------------------------------------------
Idle == tx.plan = NoPlan

NoTx == [plan |-> NoPlan, caller |-> Owner, next |-> 1, succeeded |-> FALSE]

Snapshot ==
    [escrows |-> escrows, userEscrows |-> userEscrows, held |-> held,
     rescueInProgress |-> rescueInProgress, rescueStatus |-> rescueStatus,
     logEntries |-> logEntries, executorBalance |-> executorBalance,
     withdrawn |-> withdrawn, applied |-> applied, sentMessages |-> sentMessages,
     ccipMessageIds |-> ccipMessageIds, nativeBalance |-> nativeBalance]

\* What the deployment scripts leave: the writers are set, the workflow and the
\* lanes to other chains may be wired or not.
ExecutorInit ==
    /\ EscrowInit
    /\ authorizedWorkflows \in {{}, {Workflow, ReportReceiver}}
    /\ authorizedWriters = {Executor, EscrowContract}
    /\ trustedDestinationChains \in {{}, Chains}
    /\ chainReceivers = trustedDestinationChains
    /\ ccipRouter = (trustedDestinationChains # {})
    /\ rescueInProgress = {}
    /\ rescueStatus = [e \in ExecIds |-> "None"]
    /\ ccipMessageIds = [e \in ExecIds |-> 0]
    /\ processedExecIds = {}
    /\ logEntries = [e \in ExecIds |-> <<>>]
    /\ executorBalance = 0
    /\ nativeBalance = 0
    /\ sentMessages = <<>>
    /\ tx = NoTx
    /\ saved = NoPlan
    /\ withdrawn = 0
    /\ applied = 0
    /\ executorSwept = 0
    /\ legs = 0
    /\ funded = 0
    /\ changes = 0

\* onlyAuthorizedWorkflow
MayExecute(caller) == caller = Owner \/ caller \in authorizedWorkflows

-----------------------------------------------------------------------------
(* The owner's configuration. *)

Toggle(set, x, on) == IF on THEN set \cup {x} ELSE set \ {x}

Configure ==
    /\ Idle
    /\ changes < MaxChanges
    /\ changes' = changes + 1
    /\ \/ /\ \E w \in {Workflow, ReportReceiver}, on \in BOOLEAN :
                 authorizedWorkflows' = Toggle(authorizedWorkflows, w, on)
          /\ UNCHANGED <<authorizedWriters, trustedDestinationChains, chainReceivers, ccipRouter>>
       \/ /\ \E w \in {Executor, EscrowContract}, on \in BOOLEAN :
                 authorizedWriters' = Toggle(authorizedWriters, w, on)
          /\ UNCHANGED <<authorizedWorkflows, trustedDestinationChains, chainReceivers, ccipRouter>>
       \/ /\ \E c \in Chains, on \in BOOLEAN :
                 trustedDestinationChains' = Toggle(trustedDestinationChains, c, on)
          /\ UNCHANGED <<authorizedWorkflows, authorizedWriters, chainReceivers, ccipRouter>>
       \/ /\ \E c \in Chains, on \in BOOLEAN : chainReceivers' = Toggle(chainReceivers, c, on)
          /\ UNCHANGED <<authorizedWorkflows, authorizedWriters, trustedDestinationChains, ccipRouter>>
       \/ /\ ccipRouter' = TRUE
          /\ UNCHANGED <<authorizedWorkflows, authorizedWriters, trustedDestinationChains, chainReceivers>>
    /\ UNCHANGED <<escrowVars, statusVars, processedExecIds, logEntries, tokenVars, sendVars,
                   txVars, executorSwept, legs, funded>>

-----------------------------------------------------------------------------
(* executeRescue *)

\* The checks up to the log's first entry; a failing one reverts.  A report is
\* also checked by the ReprieveWorkflowReceiver that passes it on.
\* Fault: the log accepts a second "Initiated".
MayBeginAgain(caller, plan) ==
    /\ MayExecute(caller)
    /\ caller = ReportReceiver => plan.execId \notin processedExecIds /\ plan.steps # <<>>
    /\ plan.user \notin rescueInProgress
    /\ now <= plan.deadline
    /\ Executor \in authorizedWriters

MayBegin(caller, plan) ==
    /\ MayExecute(caller)
    /\ caller = ReportReceiver => plan.execId \notin processedExecIds /\ plan.steps # <<>>
    /\ plan.user \notin rescueInProgress
    /\ now <= plan.deadline
    /\ Executor \in authorizedWriters
    /\ ~HasEntries(plan.execId)

BeginRescue(caller, plan) ==
    /\ Idle
    /\ MayBegin(caller, plan)
    /\ tx' = [plan |-> plan, caller |-> caller, next |-> 1, succeeded |-> FALSE]
    /\ saved' = Snapshot
    /\ rescueInProgress' = rescueInProgress \cup {plan.user}
    /\ rescueStatus' = [rescueStatus EXCEPT ![plan.execId] = "InProgress"]
    /\ AddEntries(plan.execId, <<Entry("Initiated")>>)
    /\ UNCHANGED <<escrowVars, configVars, processedExecIds, tokenVars, sendVars,
                   executorSwept, boundVars>>

CurrentStep == tx.plan.steps[tx.next]

StepReady ==
    /\ ~Idle
    /\ tx.next <= Len(tx.plan.steps)
    /\ ValidStep(CurrentStep, tx.plan.mode)

\* Fault: the last step decides.
StepDoneLast(success) ==
    /\ tx' = [tx EXCEPT !.next = @ + 1, !.succeeded = success]
    /\ UNCHANGED <<configVars, statusVars, processedExecIds, saved, executorSwept, boundVars>>

StepDone(success) ==
    /\ tx' = [tx EXCEPT !.next = @ + 1, !.succeeded = @ \/ success]
    /\ UNCHANGED <<configVars, statusVars, processedExecIds, saved, executorSwept, boundVars>>

\* The step's entries in the log, between its "started" and its outcome.
LogStep(entries, success) ==
    AddEntries(tx.plan.execId,
        <<Entry("Started")>> \o entries
            \o <<Entry(IF success THEN "StepCompleted" ELSE "StepFailed")>>)

\* Nothing can be withdrawn, the withdrawal fails, or a cross-chain step has no
\* receiver for its chain or nothing to do there: no funds move.
SkipStep ==
    /\ StepReady
    /\ LogStep(<<>>, FALSE)
    /\ StepDone(FALSE)
    /\ UNCHANGED <<escrowVars, tokenVars, sendVars>>

\* Withdrawn and accepted by the target adapter.
ApplyStep(w) ==
    /\ StepReady
    /\ ~CurrentStep.isCrossChain
    /\ withdrawn' = withdrawn + w
    /\ applied' = applied + w
    /\ LogStep(<<>>, TRUE)
    /\ StepDone(TRUE)
    /\ UNCHANGED <<escrowVars, sendVars, executorBalance>>

\* _sendCCIPMessage up to its log entry; the router burns the tokens and stores
\* the message.
\* Fault: the fee is not checked.
CanSendUnpaid(chain, fee) == chain \in trustedDestinationChains /\ ccipRouter

CanSend(chain, fee) ==
    /\ chain \in trustedDestinationChains
    /\ ccipRouter
    /\ fee <= nativeBalance

\* Fault: only an execution's first message is linked.
SendFirstLinked(chain, e, user, amount, fee) ==
    /\ CanSend(chain, fee)
    /\ nativeBalance' = nativeBalance - fee
    /\ sentMessages' = Append(sentMessages,
           [execId |-> e, user |-> user, amount |-> amount])
    /\ ccipMessageIds' = [ccipMessageIds EXCEPT ![e] = IF @ = 0 THEN Len(sentMessages') ELSE @]

SendCCIPMessage(chain, e, user, amount, fee) ==
    /\ CanSend(chain, fee)
    /\ nativeBalance' = nativeBalance - fee
    /\ sentMessages' = Append(sentMessages,
           [execId |-> e, user |-> user, amount |-> amount])
    /\ ccipMessageIds' = [ccipMessageIds EXCEPT ![e] = Len(sentMessages')]

\* Withdrawn and handed to the router.
SendStep(w, fee) ==
    /\ StepReady
    /\ CurrentStep.isCrossChain
    /\ CurrentStep.targetChain \in chainReceivers
    /\ SendCCIPMessage(CurrentStep.targetChain, tx.plan.execId, tx.plan.user, w, fee)
    /\ withdrawn' = withdrawn + w
    /\ LogStep(<<SentEntry(Len(sentMessages'))>>, TRUE)
    /\ StepDone(TRUE)
    /\ UNCHANGED <<escrowVars, executorBalance, applied>>

\* _escrowWithdrawnFunds: the deposit is in a try; when the escrow refuses it the
\* tokens stay in the executor.
EscrowFunds(e, stepIndex, user, w) ==
    \/ /\ DepositFailedTransfer(Executor, EscrowIdOf(e, stepIndex, now), user, w)
       /\ UNCHANGED executorBalance
    \/ /\ ~DepositAllowed(Executor, EscrowIdOf(e, stepIndex, now))
       /\ executorBalance' = executorBalance + w
       /\ UNCHANGED escrowVars

EscrowFundsEntries(e, stepIndex) ==
    IF DepositAllowed(Executor, EscrowIdOf(e, stepIndex, now))
    THEN EscrowEntries(e) \o EscrowedEntries(e)
    ELSE <<>>

\* Withdrawn, but the target adapter or the send failed.
\* Fault: the requested amount is escrowed, not the withdrawn one.
EscrowStepRequest(w) ==
    /\ StepReady
    /\ CurrentStep.isCrossChain => CurrentStep.targetChain \in chainReceivers
    /\ withdrawn' = withdrawn + w
    /\ EscrowFunds(tx.plan.execId, CurrentStep.stepIndex, tx.plan.user,
                   Requested(CurrentStep, tx.plan.mode))
    /\ LogStep(EscrowFundsEntries(tx.plan.execId, CurrentStep.stepIndex), FALSE)
    /\ StepDone(FALSE)
    /\ UNCHANGED <<sendVars, applied>>

EscrowStepFunds(w) ==
    /\ StepReady
    /\ CurrentStep.isCrossChain => CurrentStep.targetChain \in chainReceivers
    /\ withdrawn' = withdrawn + w
    /\ EscrowFunds(tx.plan.execId, CurrentStep.stepIndex, tx.plan.user, w)
    /\ LogStep(EscrowFundsEntries(tx.plan.execId, CurrentStep.stepIndex), FALSE)
    /\ StepDone(FALSE)
    /\ UNCHANGED <<sendVars, applied>>

\* The loop is over.  The ReprieveWorkflowReceiver reverts when no step succeeded.
\* Fault: the lock is only cleared on success.
FinishRescueLocked ==
    /\ ~Idle
    /\ tx.next > Len(tx.plan.steps)
    /\ tx.caller = ReportReceiver => tx.succeeded
    /\ LET outcome == IF tx.succeeded THEN "Completed" ELSE "Failed"
       IN  /\ rescueStatus' = [rescueStatus EXCEPT ![tx.plan.execId] = outcome]
           /\ AddEntries(tx.plan.execId, <<Entry(outcome)>>)
    /\ rescueInProgress' = IF tx.succeeded THEN rescueInProgress \ {tx.plan.user}
                                           ELSE rescueInProgress
    /\ processedExecIds' = IF tx.caller = ReportReceiver
                           THEN processedExecIds \cup {tx.plan.execId} ELSE processedExecIds
    /\ tx' = NoTx
    /\ saved' = NoPlan
    /\ UNCHANGED <<escrowVars, configVars, tokenVars, sendVars, executorSwept, boundVars>>

FinishRescue ==
    /\ ~Idle
    /\ tx.next > Len(tx.plan.steps)
    /\ tx.caller = ReportReceiver => tx.succeeded
    /\ LET outcome == IF tx.succeeded THEN "Completed" ELSE "Failed"
       IN  /\ rescueStatus' = [rescueStatus EXCEPT ![tx.plan.execId] = outcome]
           /\ AddEntries(tx.plan.execId, <<Entry(outcome)>>)
    /\ rescueInProgress' = rescueInProgress \ {tx.plan.user}
    /\ processedExecIds' = IF tx.caller = ReportReceiver
                           THEN processedExecIds \cup {tx.plan.execId} ELSE processedExecIds
    /\ tx' = NoTx
    /\ saved' = NoPlan
    /\ UNCHANGED <<escrowVars, configVars, tokenVars, sendVars, executorSwept, boundVars>>

\* An invalid step, a report none of whose steps succeeded, an adapter's view or
\* the gas limit reverts the whole transaction.
RevertRescue ==
    /\ ~Idle
    /\ escrows' = saved.escrows
    /\ userEscrows' = saved.userEscrows
    /\ held' = saved.held
    /\ rescueInProgress' = saved.rescueInProgress
    /\ rescueStatus' = saved.rescueStatus
    /\ logEntries' = saved.logEntries
    /\ executorBalance' = saved.executorBalance
    /\ withdrawn' = saved.withdrawn
    /\ applied' = saved.applied
    /\ sentMessages' = saved.sentMessages
    /\ ccipMessageIds' = saved.ccipMessageIds
    /\ nativeBalance' = saved.nativeBalance
    /\ tx' = NoTx
    /\ saved' = NoPlan
    /\ UNCHANGED <<authorizedDepositors, now, paid, returned, swept, stray,
                   configVars, processedExecIds, executorSwept, boundVars>>

-----------------------------------------------------------------------------
(* Direct calls of an authorised workflow. *)

CountLeg == legs < MaxLegs /\ legs' = legs + 1

\* executeSameChainLeg: no lock, no status, no step validation.
SameChainLeg(caller, plan, step, w) ==
    /\ Idle
    /\ MayExecute(caller)
    /\ step.hasAdapters
    /\ plan.mode = "REPAY" => step.sameAsset
    /\ CountLeg
    /\ withdrawn' = withdrawn + w
    /\ \/ /\ applied' = applied + w
          /\ UNCHANGED <<escrowVars, executorBalance, logEntries>>
       \/ /\ EscrowFunds(plan.execId, step.stepIndex, plan.user, w)
          /\ AddEntries(plan.execId, EscrowFundsEntries(plan.execId, step.stepIndex))
          /\ UNCHANGED applied
    /\ UNCHANGED <<configVars, statusVars, processedExecIds, sendVars, txVars, executorSwept, funded, changes>>

\* initiateCrossChainLeg sends tokens the executor already holds.
InitiateCrossChainLeg(caller, plan, chain, amount, fee) ==
    /\ Idle
    /\ MayExecute(caller)
    /\ CountLeg
    /\ amount <= executorBalance
    /\ Executor \in authorizedWriters
    /\ HasEntries(plan.execId)
    /\ SendCCIPMessage(chain, plan.execId, plan.user, amount, fee)
    /\ executorBalance' = executorBalance - amount
    /\ AddEntries(plan.execId, <<SentEntry(Len(sentMessages'))>>)
    /\ UNCHANGED <<escrowVars, configVars, statusVars, processedExecIds, withdrawn, applied,
                   txVars, executorSwept, funded, changes>>

ExecutorEmergencyWithdraw(amount) ==
    /\ Idle
    /\ amount <= executorBalance
    /\ executorBalance' = executorBalance - amount
    /\ executorSwept' = executorSwept + amount
    /\ UNCHANGED <<escrowVars, configVars, statusVars, processedExecIds, logEntries,
                   withdrawn, applied, sendVars, txVars, boundVars>>

\* receive(): native tokens for fees.
ReceiveNative ==
    /\ Idle
    /\ funded < MaxNative
    /\ funded' = funded + 1
    /\ nativeBalance' = nativeBalance + 1
    /\ UNCHANGED <<escrowVars, configVars, statusVars, processedExecIds, logEntries, tokenVars,
                   sentMessages, ccipMessageIds, txVars, executorSwept, legs, changes>>

-----------------------------------------------------------------------------
(* What the escrow's users, owner and clock do between rescues. *)

EscrowOnly ==
    /\ Idle
    /\ \/ \E d \in {Executor, Operator}, allowed \in BOOLEAN : SetAuthorizedDepositor(d, allowed)
       \/ \E a \in 1..held : EmergencyWithdraw(a)
       \/ ReceiveStray
       \/ Tick
    /\ UNCHANGED executorVars

SettleRecord(id) ==
    /\ Idle
    /\ (\E u \in Users : ClaimEscrow(id, u)) \/ RetryTransfer(Operator, id)
    /\ AddEntries(id[1], EscrowEntries(id[1]))
    /\ UNCHANGED <<configVars, statusVars, processedExecIds, tokenVars, sendVars, txVars,
                   executorSwept, boundVars>>

-----------------------------------------------------------------------------
Callers == {Owner, Workflow, ReportReceiver}

RescueStepNext ==
    \/ SkipStep
    \/ \E w \in Amounts :
           /\ StepReady
           /\ w \in Withdrawals(CurrentStep, tx.plan.mode)
           /\ ApplyStep(w) \/ EscrowStepFunds(w) \/ \E fee \in Fees : SendStep(w, fee)

ExecutorNext ==
    \/ Configure
    \/ \E c \in Callers, p \in Plans : BeginRescue(c, p)
    \/ RescueStepNext
    \/ FinishRescue
    \/ RevertRescue
    \/ \E c \in Callers \ {ReportReceiver}, p \in Plans : \E i \in DOMAIN p.steps, w \in Amounts :
           /\ w \in Withdrawals([p.steps[i] EXCEPT !.isCrossChain = FALSE], p.mode)
           /\ SameChainLeg(c, p, p.steps[i], w)
    \/ \E c \in Callers \ {ReportReceiver}, p \in Plans, ch \in Chains, a \in Amounts, fee \in Fees :
           InitiateCrossChainLeg(c, p, ch, a, fee)
    \/ \E a \in 1..executorBalance : ExecutorEmergencyWithdraw(a)
    \/ ReceiveNative
    \/ EscrowOnly
    \/ \E id \in EscrowIds : SettleRecord(id)

ExecutorSpec == ExecutorInit /\ [][ExecutorNext]_allVars

-----------------------------------------------------------------------------
(* Properties *)

SentMessage == [execId : ExecIds, user : Users, amount : Nat]

Transaction ==
    [plan : Plans \cup {NoPlan}, caller : Callers, next : Nat \ {0}, succeeded : BOOLEAN]

\* Every variable stays in its type.
ExecutorTypeOK ==
    /\ EscrowTypeOK
    /\ authorizedWorkflows \subseteq {Workflow, ReportReceiver}
    /\ authorizedWriters \subseteq {Executor, EscrowContract}
    /\ trustedDestinationChains \subseteq Chains
    /\ chainReceivers \subseteq Chains
    /\ ccipRouter \in BOOLEAN
    /\ rescueInProgress \subseteq Users
    /\ rescueStatus \in [ExecIds -> RescueStatus]
    /\ ccipMessageIds \in [ExecIds -> Nat]
    /\ processedExecIds \subseteq ExecIds
    /\ logEntries \in [ExecIds -> Seq(LogEntry)]
    /\ sentMessages \in Seq(SentMessage)
    /\ tx \in Transaction
    /\ {executorBalance, nativeBalance, withdrawn, applied, executorSwept} \subseteq Nat
    /\ {legs, funded, changes} \subseteq Nat

Opened == {id \in EscrowIds : escrows[id].status # "None"}

AmountSent == [k \in DOMAIN sentMessages |-> sentMessages[k].amount]

\* Every token withdrawn from a source position was applied on this chain, sent
\* with a message, put in an escrow record, swept by the owner or is still in
\* the executor, also when a later step fails or the transaction reverts:
\* "sum withdrawn == sum routed/remaining".
SourceLedger ==
    withdrawn = applied + Total(DOMAIN sentMessages, AmountSent) + Total(Opened, AmountOf)
                    + executorBalance + executorSwept

\* Between transactions no user is locked and no rescue is in progress, however
\* the last one ended; within one only its own user is.
NoStuckLocks ==
    /\ rescueInProgress = IF Idle THEN {} ELSE {tx.plan.user}
    /\ \A e \in ExecIds : rescueStatus[e] = "InProgress" <=> ~Idle /\ tx.plan.execId = e

Logged(e, what) == {i \in DOMAIN logEntries[e] : logEntries[e][i].what = what}

\* The log tells what happened to an execution: it starts with the only
\* "Initiated", every started step has an outcome, there is one final entry, and
\* that entry and the steps' outcomes agree with rescueStatus.
LogTellsStatus ==
    \A e \in ExecIds :
        /\ rescueStatus[e] = "None" <=> ~HasEntries(e)
        /\ HasEntries(e) => Logged(e, "Initiated") = {1}
        /\ Cardinality(Logged(e, "Started"))
               = Cardinality(Logged(e, "StepCompleted")) + Cardinality(Logged(e, "StepFailed"))
        /\ \A outcome \in {"Completed", "Failed"} :
               Cardinality(Logged(e, outcome)) = IF rescueStatus[e] = outcome THEN 1 ELSE 0
        /\ rescueStatus[e] = "Completed" => Logged(e, "StepCompleted") # {}
        /\ rescueStatus[e] = "Failed" => Logged(e, "StepCompleted") = {}

\* An execution is settled once: neither a replayed report nor a direct call of
\* executeRescue runs it again, although executeRescue itself never looks at
\* rescueStatus; and a report is only used up by a rescue that succeeded.
SettledForGood ==
    /\ \A e \in processedExecIds : rescueStatus[e] = "Completed"
    /\ \A e \in ExecIds : rescueStatus[e] \in {"Completed", "Failed"} /\ ~Idle => tx.plan.execId # e

\* "CCIP message id linked in RescueLog": the log of an execution names exactly
\* the messages sent for it, and ccipMessageIds the last of them.
MessagesLinked ==
    \A e \in ExecIds :
        LET sent == {k \in DOMAIN sentMessages : sentMessages[k].execId = e}
        IN  /\ {logEntries[e][i].message : i \in Logged(e, "Sent")} = sent
            /\ ccipMessageIds[e] \in sent \cup {0}
            /\ \A k \in sent : k <= ccipMessageIds[e]

\* What is visible between transactions: while a rescue runs, what a revert
\* would restore.
Visible(current, before) == IF Idle THEN current ELSE before

Atomic == INSTANCE AtomicRescue WITH
    status <- Visible(rescueStatus, saved.rescueStatus),
    messages <- Visible(sentMessages, saved.sentMessages),
    last <- Visible(ccipMessageIds, saved.ccipMessageIds),
    done <- Visible(applied, saved.applied),
    used <- processedExecIds

\* Step by step, with steps that fail after they moved funds and reverts at any
\* point, a rescue looks to everybody else like one that happens at once or not
\* at all.
RescuesAtomic == Atomic!AtomicSpec
=============================================================================
