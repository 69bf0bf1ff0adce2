---------------------------- MODULE RescueEscrow ----------------------------
(***************************************************************************)
(* contracts/src/reprieve/RescueEscrow.sol: custody of tokens whose        *)
(* transfer failed.  A record is opened Pending by an authorised depositor *)
(* (the executor or the CCIP receiver) that hands its tokens over; it is   *)
(* settled once, by its owner's claim before the timeout or by a depositor *)
(* taking the tokens back for a retry.                                     *)
(*                                                                         *)
(* One token is modelled: balances of different ERC20s never meet in the   *)
(* contract.  Each action is one transaction, or the part of a larger      *)
(* transaction that the contract executes; a call that reverts changes     *)
(* nothing and has no action.                                              *)
(***************************************************************************)
EXTENDS Integers, FiniteSets, Sequences, Totals

CONSTANTS
    EscrowIds,       \* keccak256 identifiers the callers may derive
    Users,           \* owners of rescued positions
    NoUser,          \* address(0), the owner field of an empty record
    Amounts,         \* token amounts a depositor may hand over
    Depositors,      \* addresses the contract owner may authorise
    MaxRetryCount,   \* MAX_RETRY_COUNT
    EscrowTimeout,   \* ESCROW_TIMEOUT, in ticks of the clock
    MaxTime,         \* bound: last tick of block.timestamp
    MaxStray         \* bound: tokens sent to the contract without a deposit

ASSUME EscrowIdsFinite == IsFiniteSet(EscrowIds)
ASSUME NoUserIsNobody == NoUser \notin Users
ASSUME AmountsPositive == Amounts \subseteq Nat \ {0}
ASSUME EscrowBounds ==
    /\ MaxRetryCount \in Nat \ {0}
    /\ EscrowTimeout \in Nat
    /\ MaxTime \in Nat
    /\ MaxStray \in Nat

VARIABLES
    escrows,               \* mapping(bytes32 => EscrowRecord)
    userEscrows,           \* mapping(address => bytes32[])
    authorizedDepositors,  \* set of addresses mapped to true
    held,                  \* the token's balanceOf(escrow)
    now,                   \* block.timestamp
    \* What left and entered outside of records, and what owners received:
    \* the ledger of the token as far as the escrow moved it.
    paid,                  \* claims paid out, per user
    returned,              \* tokens handed back to depositors for a retry
    swept,                 \* tokens taken by emergencyWithdraw
    stray                  \* tokens received without a deposit

escrowVars == <<escrows, userEscrows, authorizedDepositors, held, now,
                paid, returned, swept, stray>>

-----------------------------------------------------------------------------
(* Records *)

EscrowStatus == {"None", "Pending", "Claimed", "Retried", "Expired"}

EscrowRecord ==
    [status : EscrowStatus, owner : Users \cup {NoUser}, amount : Nat,
     createdAt : Nat, retryCount : Nat]

EmptyRecord ==
    [status |-> "None", owner |-> NoUser, amount |-> 0,
     createdAt |-> 0, retryCount |-> 0]

PendingRecord(user, amount) ==
    [status |-> "Pending", owner |-> user, amount |-> amount,
     createdAt |-> now, retryCount |-> 0]

\* The record left behind when its tokens leave the contract.
SettledRecord(record, status, retries) ==
    [status |-> status, owner |-> record.owner, amount |-> record.amount,
     createdAt |-> record.createdAt, retryCount |-> retries]

WithStatus(status) == {id \in EscrowIds : escrows[id].status = status}

AmountOf == [id \in EscrowIds |-> escrows[id].amount]

IsExpired(id) ==
    /\ escrows[id].status = "Pending"
    /\ now > escrows[id].createdAt + EscrowTimeout

\* Fault: the claimer is not compared with the owner.
CanClaimAnyone(id, claimer) == escrows[id].status = "Pending" /\ ~IsExpired(id)

CanClaim(id, claimer) ==
    /\ escrows[id].owner = claimer
    /\ escrows[id].status = "Pending"
    /\ ~(now > escrows[id].createdAt + EscrowTimeout)

-----------------------------------------------------------------------------
EscrowInit ==
    /\ escrows = [id \in EscrowIds |-> EmptyRecord]
    /\ userEscrows = [u \in Users |-> <<>>]
    /\ authorizedDepositors = {}
    /\ held = 0
    /\ now = 0
    /\ paid = [u \in Users |-> 0]
    /\ returned = 0
    /\ swept = 0
    /\ stray = 0

SetAuthorizedDepositor(d, allowed) ==
    /\ authorizedDepositors' = IF allowed THEN authorizedDepositors \cup {d}
                                          ELSE authorizedDepositors \ {d}
    /\ UNCHANGED <<escrows, userEscrows, held, now, paid, returned, swept, stray>>

\* depositFailedTransfer succeeds.  The depositor holds and has approved the
\* amount: both callers do so just before the call.
\* Faults: an identifier may be used again at once, or once it is settled.
DepositOverwrites(d, id) == d \in authorizedDepositors
DepositReuses(d, id) == d \in authorizedDepositors /\ escrows[id].status # "Pending"

DepositAllowed(d, id) ==
    /\ d \in authorizedDepositors
    /\ escrows[id].status = "None"

DepositFailedTransfer(d, id, user, amount) ==
    /\ DepositAllowed(d, id)
    /\ escrows' = [escrows EXCEPT ![id] = PendingRecord(user, amount)]
    /\ userEscrows' = [userEscrows EXCEPT ![user] = Append(@, id)]
    /\ held' = held + amount
    /\ UNCHANGED <<authorizedDepositors, now, paid, returned, swept, stray>>

\* The Expired branch of claimEscrow is dead: _canClaim has already refused an
\* expired record, and the write would be undone by the revert that follows it.
\* Fault: the record stays Pending.
ClaimEscrowOpen(id, claimer) ==
    /\ CanClaim(id, claimer)
    /\ held >= escrows[id].amount
    /\ held' = held - escrows[id].amount
    /\ paid' = [paid EXCEPT ![claimer] = @ + escrows[id].amount]
    /\ UNCHANGED <<escrows, userEscrows, authorizedDepositors, now, returned, swept, stray>>

ClaimEscrow(id, claimer) ==
    /\ CanClaim(id, claimer)
    /\ held >= escrows[id].amount
    /\ escrows' = [escrows EXCEPT ![id] = SettledRecord(@, "Claimed", @.retryCount)]
    /\ held' = held - escrows[id].amount
    /\ paid' = [paid EXCEPT ![claimer] = @ + escrows[id].amount]
    /\ UNCHANGED <<userEscrows, authorizedDepositors, now, returned, swept, stray>>

\* Fault: the tokens are not there.
RetryTransferUnfunded(d, id) ==
    /\ d \in authorizedDepositors
    /\ escrows[id].status = "Pending"
    /\ escrows[id].retryCount < MaxRetryCount
    /\ escrows' = [escrows EXCEPT ![id] = SettledRecord(@, "Retried", @.retryCount + 1)]
    /\ held' = held - escrows[id].amount
    /\ returned' = returned + escrows[id].amount
    /\ UNCHANGED <<userEscrows, authorizedDepositors, now, paid, swept, stray>>

RetryTransfer(d, id) ==
    /\ d \in authorizedDepositors
    /\ escrows[id].status = "Pending"
    /\ escrows[id].retryCount < MaxRetryCount
    /\ held >= escrows[id].amount
    /\ escrows' = [escrows EXCEPT ![id] = SettledRecord(@, "Retried", @.retryCount + 1)]
    /\ held' = held - escrows[id].amount
    /\ returned' = returned + escrows[id].amount
    /\ UNCHANGED <<userEscrows, authorizedDepositors, now, paid, swept, stray>>

\* emergencyWithdraw by the contract owner: no record is touched.
EmergencyWithdraw(amount) ==
    /\ amount <= held
    /\ held' = held - amount
    /\ swept' = swept + amount
    /\ UNCHANGED <<escrows, userEscrows, authorizedDepositors, now, paid, returned, stray>>

\* Anyone may transfer tokens to the contract's address.
ReceiveStray ==
    /\ stray < MaxStray
    /\ stray' = stray + 1
    /\ held' = held + 1
    /\ UNCHANGED <<escrows, userEscrows, authorizedDepositors, now, paid, returned, swept>>

Tick ==
    /\ now < MaxTime
    /\ now' = now + 1
    /\ UNCHANGED <<escrows, userEscrows, authorizedDepositors, held,
                   paid, returned, swept, stray>>

EscrowNext ==
    \/ \E d \in Depositors, allowed \in BOOLEAN : SetAuthorizedDepositor(d, allowed)
    \/ \E d \in Depositors, id \in EscrowIds, u \in Users, a \in Amounts :
           DepositFailedTransfer(d, id, u, a)
    \/ \E id \in EscrowIds, u \in Users : ClaimEscrow(id, u)
    \/ \E d \in Depositors, id \in EscrowIds : RetryTransfer(d, id)
    \/ \E a \in 1..held : EmergencyWithdraw(a)
    \/ ReceiveStray
    \/ Tick

EscrowSpec == EscrowInit /\ [][EscrowNext]_escrowVars

-----------------------------------------------------------------------------
(* Properties *)

\* Every variable stays in its type.
EscrowTypeOK ==
    /\ escrows \in [EscrowIds -> EscrowRecord]
    /\ userEscrows \in [Users -> Seq(EscrowIds)]
    /\ authorizedDepositors \subseteq Depositors
    /\ held \in Nat
    /\ now \in Nat
    /\ paid \in [Users -> Nat]
    /\ returned \in Nat
    /\ swept \in Nat
    /\ stray \in Nat

\* The tokens the contract holds, plus what its owner swept, are exactly the
\* Pending records and the stray tokens: no record is paid twice, none is
\* opened without its tokens, and settling one never spends another's
\* (depositFailedTransfer, claimEscrow, retryTransfer, emergencyWithdraw).
Solvent == held + swept = Total(WithStatus("Pending"), AmountOf) + stray

\* A user has received exactly the amounts of the records the user owned and
\* that were claimed: "Claim sends exact token amount to rightful user".
PaidExactly ==
    \A u \in Users :
        paid[u] = Total({id \in WithStatus("Claimed") : escrows[id].owner = u}, AmountOf)

\* userEscrows lists each record ever opened, once, and under its owner only.
IndexComplete ==
    \A u \in Users :
        /\ \A i, j \in DOMAIN userEscrows[u] : userEscrows[u][i] = userEscrows[u][j] => i = j
        /\ {userEscrows[u][i] : i \in DOMAIN userEscrows[u]}
               = {id \in EscrowIds : escrows[id].status # "None" /\ escrows[id].owner = u}

\* A settled record is final, and an open one is only ever settled for the
\* owner and amount it was opened with: an identifier is never reused, whatever
\* the depositor does later.
RecordsFinal ==
    [][\A id \in EscrowIds :
          /\ escrows[id].status \in {"Claimed", "Retried"} => escrows'[id] = escrows[id]
          /\ escrows[id].status = "Pending" =>
                 /\ escrows'[id].status # "None"
                 /\ escrows'[id].owner = escrows[id].owner
                 /\ escrows'[id].amount = escrows[id].amount]_escrowVars
=============================================================================
