---------------------------- MODULE CCIPReceiver ----------------------------
(***************************************************************************)
(* The destination leg: a CCIP router (contracts/src/mocks/                *)
(* MockCCIPRouter.sol) mints the message's tokens to the receiver          *)
(* (contracts/src/reprieve/CCIPReceiver.sol) and calls it; the receiver    *)
(* completes the rescue through the executor or moves the tokens to        *)
(* RescueEscrow.  A delivery is one transaction from the router's status   *)
(* check to the escrow's deposit, so it is one action here; what other     *)
(* transactions do between deliveries (owner configuration, claims,        *)
(* retries, sweeps, the clock) interleaves freely.                         *)
(*                                                                         *)
(* Whether the target adapter accepts the tokens is a nondeterministic     *)
(* choice, and so is the gas left at MIN_GAS_FOR_COMPLETION's check.       *)
(***************************************************************************)
EXTENDS RescueEscrow

CONSTANTS
    Messages,      \* CCIP message ids
    Routers,       \* router contracts the owner may configure over time
    NoRouter,      \* address(0)
    Receiver,      \* this contract, as a depositor of the escrow
    Operator,      \* the operator's account that retries escrow transfers
    SourceChains,  \* source chain selectors
    SenderOf,      \* source executor of each message
    SourceOf,      \* source chain of each message
    UserOf,        \* rescued user of each message
    AmountIn,      \* tokens carried by each message
    DeadlineOf,    \* deadline in each message's payload
    SentBy,        \* router that stored the message by ccipSend, or NoRouter
    TokenMapped    \* messages whose stored token the routers map on this chain

ASSUME MessagesAssumption ==
    /\ IsFiniteSet(Messages)
    /\ NoRouter \notin Routers
    /\ UserOf \in [Messages -> Users]
    /\ AmountIn \in [Messages -> Amounts]
    /\ SourceOf \in [Messages -> SourceChains]
    /\ DeadlineOf \in [Messages -> Nat]
    /\ SentBy \in [Messages -> Routers \cup {NoRouter}]
    /\ TokenMapped \subseteq Messages

\* keccak256(messageId, block.timestamp)
ASSUME EscrowIdsOfMessages == Messages \X (0..MaxTime) \subseteq EscrowIds

ASSUME ActorsAssumption == {Receiver, Operator} \subseteq Depositors /\ Receiver # Operator

VARIABLES
    messageStatus,        \* MockCCIPRouter.messageStatus, per router
    ccipRouter,           \* the router the receiver listens to
    allowedSourceChains,  \* set of chain selectors mapped to true
    allowedSenders,       \* set of <<chain, sender>> mapped to true
    processedMessages,    \* set of message ids mapped to true
    failedMessages,       \* mapping(bytes32 => FailedMessage)
    receiverBalance,      \* the token's balanceOf(receiver)
    \* The ledger of the token as far as the receiver moved it.
    completed,            \* messages the adapter accepted when they arrived
    forwarded,            \* escrowed tokens the operator sent back here
    receiverSwept         \* tokens taken by the receiver's emergencyWithdraw

routerVars == <<messageStatus>>
configVars == <<ccipRouter, allowedSourceChains, allowedSenders>>
messageVars == <<processedMessages, failedMessages, completed>>
fundVars == <<receiverBalance, forwarded, receiverSwept>>
receiverVars == <<routerVars, configVars, messageVars, fundVars>>
allVars == <<escrowVars, receiverVars>>

-----------------------------------------------------------------------------
MessageStatus == {"None", "Pending", "Delivered", "Failed"}

Senders == {SenderOf[m] : m \in Messages}

FailedMessage == [stored : BOOLEAN, timestamp : 0..MaxTime, recovered : BOOLEAN]

NotFailed == [stored |-> FALSE, timestamp |-> 0, recovered |-> FALSE]

EscrowIdOf(m, t) == <<m, t>>

\* Fault: a processed message is accepted again.
AcceptedAgain(r, m, source) ==
    /\ r = ccipRouter
    /\ source \in allowedSourceChains
    /\ <<source, SenderOf[m]>> \in allowedSenders

Accepted(r, m, source) ==
    /\ r = ccipRouter
    /\ source \in allowedSourceChains
    /\ <<source, SenderOf[m]>> \in allowedSenders
    /\ m \notin processedMessages

\* Fault: a message that never failed may be retried.
CanRetryUnknown(m) == ~failedMessages[m].recovered

CanRetryMessage(m) == failedMessages[m].stored /\ ~failedMessages[m].recovered

ReceiverInit ==
    /\ EscrowInit
    /\ messageStatus = [r \in Routers |->
                           [m \in Messages |-> IF SentBy[m] = r THEN "Pending" ELSE "None"]]
    /\ ccipRouter = NoRouter
    /\ allowedSourceChains = {}
    /\ allowedSenders = {}
    /\ processedMessages = {}
    /\ failedMessages = [m \in Messages |-> NotFailed]
    /\ receiverBalance = 0
    /\ completed = {}
    /\ forwarded = 0
    /\ receiverSwept = 0

-----------------------------------------------------------------------------
(* The owner's configuration. *)

SetRouter(r) ==
    /\ ccipRouter' = r
    /\ UNCHANGED <<escrowVars, routerVars, allowedSourceChains, allowedSenders,
                   messageVars, fundVars>>

SetAllowedSourceChain(c, allowed) ==
    /\ allowedSourceChains' = IF allowed THEN allowedSourceChains \cup {c}
                                          ELSE allowedSourceChains \ {c}
    /\ UNCHANGED <<escrowVars, routerVars, ccipRouter, allowedSenders, messageVars, fundVars>>

SetAllowedSender(c, s, allowed) ==
    /\ allowedSenders' = IF allowed THEN allowedSenders \cup {<<c, s>>}
                                     ELSE allowedSenders \ {<<c, s>>}
    /\ UNCHANGED <<escrowVars, routerVars, ccipRouter, allowedSourceChains,
                   messageVars, fundVars>>

-----------------------------------------------------------------------------
(* A delivery: the router mints, calls ccipReceive, and burns on a revert. *)

SetStatus(r, m, status) ==
    messageStatus' = [messageStatus EXCEPT ![r] = [@ EXCEPT ![m] = status]]

\* ccipReceive reverts; the router burns what it had just minted.
\* Fault: the router does not burn them.
ReceiveRevertsUnburnt(r, m, source) ==
    /\ ~Accepted(r, m, source)
    /\ SetStatus(r, m, "Failed")
    /\ receiverBalance' = receiverBalance + AmountIn[m]
    /\ UNCHANGED <<escrowVars, configVars, messageVars, forwarded, receiverSwept>>

ReceiveReverts(r, m, source) ==
    /\ ~Accepted(r, m, source)
    /\ SetStatus(r, m, "Failed")
    /\ UNCHANGED <<escrowVars, configVars, messageVars, fundVars>>

\* The executor pulls the minted tokens and the target adapter takes them.
ReceiveCompletes(r, m, source) ==
    /\ Accepted(r, m, source)
    /\ now <= DeadlineOf[m]
    /\ SetStatus(r, m, "Delivered")
    /\ processedMessages' = processedMessages \cup {m}
    /\ completed' = completed \cup {m}
    /\ UNCHANGED <<escrowVars, configVars, failedMessages, fundVars>>

\* _handleFailedReceive: the deadline has passed, too little gas is left, or
\* the adapter refused.  The deposit is in a try: when the escrow refuses it
\* the tokens stay here.
\* Fault: a message whose tokens the escrow took is not stored as failed.
ReceiveFailsUnstored(r, m, source) ==
    /\ Accepted(r, m, source)
    /\ SetStatus(r, m, "Delivered")
    /\ processedMessages' = processedMessages \cup {m}
    /\ UNCHANGED <<configVars, failedMessages, completed, fundVars>>
    /\ DepositFailedTransfer(Receiver, EscrowIdOf(m, now), UserOf[m], AmountIn[m])

\* Fault: the tokens are sent to an escrow that refused them.
ReceiveFailsUnrecorded(r, m, source) ==
    /\ Accepted(r, m, source)
    /\ SetStatus(r, m, "Delivered")
    /\ processedMessages' = processedMessages \cup {m}
    /\ failedMessages' = [failedMessages EXCEPT ![m] =
                             [stored |-> TRUE, timestamp |-> now, recovered |-> FALSE]]
    /\ held' = held + AmountIn[m]
    /\ UNCHANGED <<configVars, completed, fundVars, escrows, userEscrows,
                   authorizedDepositors, now, paid, returned, swept, stray>>

ReceiveFails(r, m, source) ==
    /\ Accepted(r, m, source)
    /\ SetStatus(r, m, "Delivered")
    /\ processedMessages' = processedMessages \cup {m}
    /\ failedMessages' = [failedMessages EXCEPT ![m] =
                             [stored |-> TRUE, timestamp |-> now, recovered |-> FALSE]]
    /\ UNCHANGED <<configVars, completed, forwarded, receiverSwept>>
    /\ \/ /\ DepositFailedTransfer(Receiver, EscrowIdOf(m, now), UserOf[m], AmountIn[m])
          /\ UNCHANGED receiverBalance
       \/ /\ ~DepositAllowed(Receiver, EscrowIdOf(m, now))
          /\ receiverBalance' = receiverBalance + AmountIn[m]
          /\ UNCHANGED escrowVars

CcipReceive(r, m, source) ==
    \/ ReceiveReverts(r, m, source)
    \/ ReceiveCompletes(r, m, source)
    \/ ReceiveFails(r, m, source)

\* The router's owner relays a message that another network's router stored.
DeliverExternalMessage(r, m) ==
    /\ messageStatus[r][m] \notin {"Pending", "Delivered"}
    /\ CcipReceive(r, m, SourceOf[m])

\* deliverMessage, deliverMessageWithSource and retryFailedMessage, by anyone.
DeliverMessage(r, m, source) ==
    /\ messageStatus[r][m] \in {"Pending", "Failed"}
    /\ m \in TokenMapped
    /\ CcipReceive(r, m, source)

-----------------------------------------------------------------------------
(* Recovery. *)

\* retryFailedMessage succeeds: the executor pulls the message's amount from
\* whatever the receiver holds; the escrow is not consulted.  The deadline is
\* not checked again.  An attempt that fails reverts.
\* Fault: the tokens are not there.
RetryFailedUnfunded(m) ==
    /\ CanRetryMessage(m)
    /\ failedMessages' = [failedMessages EXCEPT ![m] =
                             [stored |-> TRUE, timestamp |-> @.timestamp, recovered |-> TRUE]]
    /\ receiverBalance' = receiverBalance - AmountIn[m]
    /\ UNCHANGED <<escrowVars, routerVars, configVars, processedMessages, completed,
                   forwarded, receiverSwept>>

RetryFailedMessage(m) ==
    /\ CanRetryMessage(m)
    /\ receiverBalance >= AmountIn[m]
    /\ failedMessages' = [failedMessages EXCEPT ![m] =
                             [stored |-> TRUE, timestamp |-> @.timestamp, recovered |-> TRUE]]
    /\ receiverBalance' = receiverBalance - AmountIn[m]
    /\ UNCHANGED <<escrowVars, routerVars, configVars, processedMessages, completed,
                   forwarded, receiverSwept>>

\* The operator sends tokens it took back from the escrow to the receiver.
Forward(amount) ==
    /\ forwarded + amount <= returned
    /\ forwarded' = forwarded + amount
    /\ receiverBalance' = receiverBalance + amount
    /\ UNCHANGED <<escrowVars, routerVars, configVars, messageVars, receiverSwept>>

ReceiverEmergencyWithdraw(amount) ==
    /\ amount <= receiverBalance
    /\ receiverBalance' = receiverBalance - amount
    /\ receiverSwept' = receiverSwept + amount
    /\ UNCHANGED <<escrowVars, routerVars, configVars, messageVars, forwarded>>

\* What the escrow's own users, owner and clock do between deliveries.
EscrowStep ==
    /\ \/ \E d \in {Receiver, Operator}, allowed \in BOOLEAN : SetAuthorizedDepositor(d, allowed)
       \/ \E id \in EscrowIds, u \in Users : ClaimEscrow(id, u)
       \/ \E id \in EscrowIds : RetryTransfer(Operator, id)
       \/ \E a \in 1..held : EmergencyWithdraw(a)
       \/ ReceiveStray
       \/ Tick
    /\ UNCHANGED receiverVars

ReceiverNext ==
    \/ \E r \in Routers : SetRouter(r)
    \/ \E c \in SourceChains, allowed \in BOOLEAN : SetAllowedSourceChain(c, allowed)
    \/ \E c \in SourceChains, s \in Senders, allowed \in BOOLEAN : SetAllowedSender(c, s, allowed)
    \/ \E r \in Routers, m \in Messages : DeliverExternalMessage(r, m)
    \/ \E r \in Routers, m \in Messages, c \in SourceChains : DeliverMessage(r, m, c)
    \/ \E m \in Messages : RetryFailedMessage(m)
    \/ \E a \in 1..returned : Forward(a)
    \/ \E a \in 1..receiverBalance : ReceiverEmergencyWithdraw(a)
    \/ EscrowStep

ReceiverSpec == ReceiverInit /\ [][ReceiverNext]_allVars

-----------------------------------------------------------------------------
(* Properties *)

\* Every variable stays in its type.
ReceiverTypeOK ==
    /\ EscrowTypeOK
    /\ now <= MaxTime
    /\ messageStatus \in [Routers -> [Messages -> MessageStatus]]
    /\ ccipRouter \in Routers \cup {NoRouter}
    /\ allowedSourceChains \subseteq SourceChains
    /\ allowedSenders \subseteq SourceChains \X Senders
    /\ processedMessages \subseteq Messages
    /\ failedMessages \in [Messages -> FailedMessage]
    /\ receiverBalance \in Nat
    /\ completed \subseteq Messages
    /\ forwarded \in Nat
    /\ receiverSwept \in Nat

\* A message is Delivered on at most one router, exactly when the receiver has
\* processed it, and then it was either completed or stored as failed: a
\* duplicate, through the same router or one the owner switched to, is refused.
DeliveredOnce ==
    \A m \in Messages :
        /\ (m \in processedMessages) <=> (\E r \in Routers : messageStatus[r][m] = "Delivered")
        /\ \A r, s \in Routers :
               messageStatus[r][m] = "Delivered" /\ messageStatus[s][m] = "Delivered" => r = s
        /\ (m \in processedMessages) <=> (m \in completed \/ failedMessages[m].stored)
        /\ ~(m \in completed /\ failedMessages[m].stored)

\* An escrow record belongs to the failure of one message, was opened in the
\* same transaction, for that message's user and amount, and a message has at
\* most one.
EscrowBacksFailure ==
    \A id \in EscrowIds : escrows[id].status # "None" =>
        \E m \in Messages :
            /\ failedMessages[m].stored
            /\ id = EscrowIdOf(m, failedMessages[m].timestamp)
            /\ escrows[id].owner = UserOf[m]
            /\ escrows[id].amount = AmountIn[m]
            /\ escrows[id].createdAt = failedMessages[m].timestamp

Opened == {id \in EscrowIds : escrows[id].status # "None"}

Applied == completed \cup {m \in Messages : failedMessages[m].recovered}

\* Every token minted for a processed message, or sent back by the operator, is
\* with a target adapter, in an escrow record, in the receiver or with its
\* owner: a failing delivery neither loses tokens nor creates them.
TokensAccounted ==
    Total(processedMessages, AmountIn) + forwarded
        = Total(Applied, AmountIn) + Total(Opened, AmountOf) + receiverBalance + receiverSwept

\* What a delivery does to the escrow is what the escrow lets a depositor do:
\* the destination leg implements the escrow's own specification.
UsesEscrow == EscrowSpec

\* Each message goes through the lifecycle the destination promises, whatever
\* the routers, the owner and the escrow do.
Outcome == [m \in Messages |->
    IF m \in completed THEN "Completed"
    ELSE IF failedMessages[m].recovered THEN "Recovered"
    ELSE IF failedMessages[m].stored THEN "Failed"
    ELSE "InFlight"]

Lifecycle == INSTANCE MessageLifecycle WITH outcome <- Outcome

ImplementsLifecycle == Lifecycle!LifecycleSpec
=============================================================================
