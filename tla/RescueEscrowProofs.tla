------------------------- MODULE RescueEscrowProofs -------------------------
(***************************************************************************)
(* Proofs about the escrow for any finite set of identifiers, any users,   *)
(* depositors, amounts and bounds.                                         *)
(***************************************************************************)
EXTENDS RescueEscrow

\* Every transaction preserves the type invariant.
LEMMA EscrowTypeStep ==
  ASSUME EscrowTypeOK, [EscrowNext]_escrowVars
  PROVE  EscrowTypeOK'
<1> USE DEF EscrowTypeOK
<1>1. ASSUME NEW d \in Depositors, NEW allowed \in BOOLEAN, SetAuthorizedDepositor(d, allowed)
      PROVE  EscrowTypeOK'
  BY <1>1 DEF SetAuthorizedDepositor
<1>2. ASSUME NEW d \in Depositors, NEW id \in EscrowIds, NEW u \in Users, NEW a \in Amounts,
             DepositFailedTransfer(d, id, u, a)
      PROVE  EscrowTypeOK'
  <2>1. a \in Nat
    BY AmountsPositive
  <2>2. PendingRecord(u, a) \in EscrowRecord
    BY <2>1 DEF PendingRecord, EscrowRecord, EscrowStatus
  <2>3. Append(userEscrows[u], id) \in Seq(EscrowIds)
    OBVIOUS
  <2>4. userEscrows' \in [Users -> Seq(EscrowIds)]
    BY <1>2, <2>3 DEF DepositFailedTransfer
  <2>5. QED
    BY <1>2, <2>1, <2>2, <2>4 DEF DepositFailedTransfer
<1>3. ASSUME NEW id \in EscrowIds, NEW u \in Users, ClaimEscrow(id, u)
      PROVE  EscrowTypeOK'
  <2>1. SettledRecord(escrows[id], "Claimed", escrows[id].retryCount) \in EscrowRecord
    BY DEF SettledRecord, EscrowRecord, EscrowStatus
  <2>2. escrows[id].amount \in Nat
    BY DEF EscrowRecord
  <2>3. escrows' \in [EscrowIds -> EscrowRecord]
    BY <1>3, <2>1 DEF ClaimEscrow
  <2>4. held' \in Nat /\ paid' \in [Users -> Nat]
    BY <1>3, <2>2 DEF ClaimEscrow
  <2>5. QED
    BY <1>3, <2>3, <2>4 DEF ClaimEscrow
<1>4. ASSUME NEW d \in Depositors, NEW id \in EscrowIds, RetryTransfer(d, id)
      PROVE  EscrowTypeOK'
  <2>1. SettledRecord(escrows[id], "Retried", escrows[id].retryCount + 1) \in EscrowRecord
    BY DEF SettledRecord, EscrowRecord, EscrowStatus
  <2>2. escrows[id].amount \in Nat
    BY DEF EscrowRecord
  <2>3. escrows' \in [EscrowIds -> EscrowRecord]
    BY <1>4, <2>1 DEF RetryTransfer
  <2>4. held' \in Nat /\ returned' \in Nat
    BY <1>4, <2>2 DEF RetryTransfer
  <2>5. QED
    BY <1>4, <2>3, <2>4 DEF RetryTransfer
<1>5. ASSUME NEW a \in 1..held, EmergencyWithdraw(a)
      PROVE  EscrowTypeOK'
  BY <1>5 DEF EmergencyWithdraw
<1>6. CASE ReceiveStray
  BY <1>6 DEF ReceiveStray
<1>7. CASE Tick
  BY <1>7 DEF Tick
<1>8. CASE UNCHANGED escrowVars
  BY <1>8 DEF escrowVars
<1>9. QED
  BY <1>1, <1>2, <1>3, <1>4, <1>5, <1>6, <1>7, <1>8 DEF EscrowNext

\* The type invariant holds initially and every transaction preserves it.
THEOREM EscrowTypeCorrect == EscrowSpec => []EscrowTypeOK
<1>1. EscrowInit => EscrowTypeOK
  BY EscrowBounds, NoUserIsNobody
     DEF EscrowInit, EscrowTypeOK, EmptyRecord, EscrowRecord, EscrowStatus
<1>2. EscrowTypeOK /\ [EscrowNext]_escrowVars => EscrowTypeOK'
  BY EscrowTypeStep
<1>3. QED
  BY <1>1, <1>2, PTL DEF EscrowSpec

-----------------------------------------------------------------------------
(* How the set of records with a status changes when one record does. *)

\* An untouched set of records keeps its total.
LEMMA StatusUnchanged ==
  ASSUME UNCHANGED escrows, NEW s
  PROVE  WithStatus(s)' = WithStatus(s) /\ AmountOf' = AmountOf
BY DEF WithStatus, AmountOf

LEMMA WithStatusFinite ==
  ASSUME NEW s
  PROVE  IsFiniteSet(WithStatus(s))
BY EscrowIdsFinite, FS_Subset DEF WithStatus

LEMMA AmountOfType ==
  ASSUME EscrowTypeOK
  PROVE  \A id \in EscrowIds : AmountOf[id] \in Nat
BY DEF EscrowTypeOK, EscrowRecord, AmountOf

\* Opening a record adds its amount to the Pending total.
LEMMA PendingOpened ==
  ASSUME EscrowTypeOK, NEW id \in EscrowIds, NEW u \in Users, NEW a \in Nat,
         escrows[id].status = "None",
         escrows' = [escrows EXCEPT ![id] = PendingRecord(u, a)]
  PROVE  Total(WithStatus("Pending"), AmountOf)'
             = Total(WithStatus("Pending"), AmountOf) + a
<1> DEFINE P == WithStatus("Pending")
           f == AmountOf
           g == AmountOf'
<1>1. WithStatus("Pending")' = P \cup {id} /\ id \notin P
  BY DEF EscrowTypeOK, WithStatus, PendingRecord
<1>2. g[id] = a /\ \A i \in P : g[i] = f[i]
  BY DEF EscrowTypeOK, AmountOf, WithStatus, PendingRecord
<1>3. \A i \in P : f[i] \in Nat
  BY AmountOfType DEF WithStatus
<1>4. IsFiniteSet(P)
  BY WithStatusFinite
<1>5. Total(P \cup {id}, g) = Total(P, g) + g[id]
  <2>1. \A i \in P \cup {id} : g[i] \in Nat
    BY <1>2, <1>3
  <2> HIDE DEF P, g
  <2>2. QED
    BY <2>1, <1>1, <1>4, TotalAdd
<1>6. Total(P, g) = Total(P, f)
  <2> HIDE DEF P, f, g
  <2> QED BY <1>2, TotalSame
<1>7. Total(WithStatus("Pending"), AmountOf)' = Total(P \cup {id}, g)
  BY <1>1
<1>8. QED
  BY <1>2, <1>5, <1>6, <1>7

\* Settling a Pending record, by a claim or by a retry, takes its amount off.
LEMMA PendingSettled ==
  ASSUME EscrowTypeOK, NEW id \in EscrowIds, NEW s \in {"Claimed", "Retried"}, NEW k \in Nat,
         escrows[id].status = "Pending",
         escrows' = [escrows EXCEPT ![id] = SettledRecord(escrows[id], s, k)]
  PROVE  Total(WithStatus("Pending"), AmountOf)
             = Total(WithStatus("Pending"), AmountOf)' + escrows[id].amount
<1> DEFINE P == WithStatus("Pending")
<1>1. WithStatus("Pending")' = P \ {id} /\ id \in P
  BY DEF EscrowTypeOK, WithStatus, SettledRecord
<1>2. AmountOf' = AmountOf
  BY DEF EscrowTypeOK, AmountOf, SettledRecord
<1>3. \A i \in P : AmountOf[i] \in Nat
  BY AmountOfType DEF WithStatus
<1>4. IsFiniteSet(P)
  BY WithStatusFinite
<1>5. Total(P, AmountOf) = Total(P \ {id}, AmountOf) + AmountOf[id]
  <2> HIDE DEF P
  <2> QED BY <1>1, <1>3, <1>4, TotalRemove
<1>6. AmountOf[id] = escrows[id].amount
  BY DEF AmountOf
<1>7. Total(WithStatus("Pending"), AmountOf)' = Total(P \ {id}, AmountOf)
  BY <1>1, <1>2
<1>8. QED
  BY <1>5, <1>6, <1>7

-----------------------------------------------------------------------------
LEMMA SolventInit == EscrowInit => Solvent
<1> SUFFICES ASSUME EscrowInit PROVE Solvent
  OBVIOUS
<1>1. WithStatus("Pending") = {}
  BY DEF EscrowInit, WithStatus, EmptyRecord
<1>2. QED
  BY <1>1, TotalEmpty DEF EscrowInit, Solvent

\* No transaction of the escrow breaks its solvency.
LEMMA SolventStep == EscrowTypeOK /\ Solvent /\ [EscrowNext]_escrowVars => Solvent'
<1> SUFFICES ASSUME EscrowTypeOK, Solvent, [EscrowNext]_escrowVars
             PROVE  Solvent'
  OBVIOUS
<1> DEFINE T == Total(WithStatus("Pending"), AmountOf)
<1>0. /\ T \in Nat
      /\ held \in Nat /\ swept \in Nat /\ stray \in Nat
      /\ held + swept = T + stray
  <2>1. \A id \in WithStatus("Pending") : AmountOf[id] \in Nat
    BY AmountOfType DEF WithStatus
  <2>2. T \in Nat
    BY <2>1, WithStatusFinite, TotalType
  <2>3. QED
    BY <2>2 DEF EscrowTypeOK, Solvent
<1>1. ASSUME UNCHANGED escrows PROVE T' = T
  BY <1>1, StatusUnchanged
<1>2. ASSUME NEW d \in Depositors, NEW allowed \in BOOLEAN, SetAuthorizedDepositor(d, allowed)
      PROVE  Solvent'
  BY <1>0, <1>1, <1>2 DEF SetAuthorizedDepositor, Solvent
<1>3. ASSUME NEW d \in Depositors, NEW id \in EscrowIds, NEW u \in Users, NEW a \in Amounts,
             DepositFailedTransfer(d, id, u, a)
      PROVE  Solvent'
  <2>1. a \in Nat
    BY AmountsPositive
  <2>2. T' = T + a
    BY <1>3, <2>1, PendingOpened DEF DepositFailedTransfer, DepositAllowed
  <2>3. held' = held + a /\ swept' = swept /\ stray' = stray
    BY <1>3 DEF DepositFailedTransfer
  <2>4. held' + swept' = T' + stray'
    <3> HIDE DEF T
    <3> QED BY <1>0, <2>1, <2>2, <2>3
  <2>5. QED
    BY <2>4 DEF Solvent
<1>4. ASSUME NEW id \in EscrowIds, NEW s \in {"Claimed", "Retried"}, NEW k \in Nat,
             escrows[id].status = "Pending",
             escrows' = [escrows EXCEPT ![id] = SettledRecord(escrows[id], s, k)],
             held' = held - escrows[id].amount, swept' = swept, stray' = stray
      PROVE  Solvent'
  <2>1. T = T' + escrows[id].amount
    BY <1>4, PendingSettled
  <2>2. escrows[id].amount \in Nat
    BY DEF EscrowTypeOK, EscrowRecord
  <2>3. T' \in Nat
    <3>1. \A i \in WithStatus("Pending")' : AmountOf'[i] \in Nat
      BY <1>4 DEF EscrowTypeOK, EscrowRecord, WithStatus, AmountOf, SettledRecord
    <3>2. IsFiniteSet(WithStatus("Pending")')
      BY EscrowIdsFinite, FS_Subset DEF WithStatus
    <3>3. QED
      BY <3>1, <3>2, TotalType
  <2> DEFINE x == escrows[id].amount
  <2>6. held' = held - x /\ swept' = swept /\ stray' = stray
    BY <1>4
  <2>4. held' + swept' = T' + stray'
    <3>1. x \in Nat /\ T' = T - x
      BY <1>0, <2>1, <2>2, <2>3
    <3> HIDE DEF T, x
    <3> QED BY <1>0, <2>6, <3>1
  <2>5. QED
    BY <2>4 DEF Solvent
<1>5. ASSUME NEW id \in EscrowIds, NEW u \in Users, ClaimEscrow(id, u)
      PROVE  Solvent'
  <2>1. escrows[id].retryCount \in Nat
    BY DEF EscrowTypeOK, EscrowRecord
  <2>2. QED
    BY <1>4, <1>5, <2>1 DEF ClaimEscrow, CanClaim
<1>6. ASSUME NEW d \in Depositors, NEW id \in EscrowIds, RetryTransfer(d, id)
      PROVE  Solvent'
  <2>1. escrows[id].retryCount + 1 \in Nat
    BY DEF EscrowTypeOK, EscrowRecord
  <2>2. QED
    BY <1>4, <1>6, <2>1 DEF RetryTransfer
<1>7. ASSUME NEW a \in 1..held, EmergencyWithdraw(a)
      PROVE  Solvent'
  BY <1>0, <1>1, <1>7 DEF EmergencyWithdraw, Solvent
<1>8. CASE ReceiveStray
  BY <1>0, <1>1, <1>8 DEF ReceiveStray, Solvent
<1>9. CASE Tick
  BY <1>0, <1>1, <1>9 DEF Tick, Solvent
<1>10. CASE UNCHANGED escrowVars
  BY <1>0, <1>1, <1>10 DEF escrowVars, Solvent
<1>11. QED
  BY <1>2, <1>3, <1>5, <1>6, <1>7, <1>8, <1>9, <1>10 DEF EscrowNext

\* Held plus swept tokens equal the Pending records plus the stray tokens, in
\* every reachable state: no depositor, claim or retry order breaks it.
THEOREM EscrowSolvent == EscrowSpec => []Solvent
<1>1. EscrowInit => Solvent
  BY SolventInit
<1>2. EscrowTypeOK /\ Solvent /\ [EscrowNext]_escrowVars => Solvent'
  BY SolventStep
<1>3. QED
  BY <1>1, <1>2, EscrowTypeCorrect, PTL DEF EscrowSpec

-----------------------------------------------------------------------------
\* What may never become of a record: a settled one changes no more, an open one
\* keeps its owner and amount.
RecordKept(was, is) ==
    /\ was.status \in {"Claimed", "Retried"} => is = was
    /\ was.status = "Pending" =>
           is.status # "None" /\ is.owner = was.owner /\ is.amount = was.amount

LEMMA FinalStep ==
  ASSUME EscrowTypeOK, [EscrowNext]_escrowVars, NEW id \in EscrowIds
  PROVE  RecordKept(escrows[id], escrows'[id])
<1>1. ASSUME NEW e \in EscrowIds, NEW u \in Users, ClaimEscrow(e, u)
      PROVE  escrows[e].status = "Pending"
             /\ escrows' = [escrows EXCEPT ![e] =
                               SettledRecord(escrows[e], "Claimed", escrows[e].retryCount)]
  BY <1>1 DEF ClaimEscrow, CanClaim
<1>2. ASSUME NEW d \in Depositors, NEW e \in EscrowIds, RetryTransfer(d, e)
      PROVE  escrows[e].status = "Pending"
             /\ escrows' = [escrows EXCEPT ![e] =
                               SettledRecord(escrows[e], "Retried", escrows[e].retryCount + 1)]
  BY <1>2 DEF RetryTransfer
<1>3. ASSUME NEW d \in Depositors, NEW e \in EscrowIds, NEW u \in Users, NEW a \in Amounts,
             DepositFailedTransfer(d, e, u, a)
      PROVE  escrows[e].status = "None" /\ escrows' = [escrows EXCEPT ![e] = PendingRecord(u, a)]
  BY <1>3 DEF DepositFailedTransfer, DepositAllowed
<1>4. CASE UNCHANGED escrows
  BY <1>4 DEF EscrowTypeOK, EscrowRecord, RecordKept
<1>5. CASE ~ UNCHANGED escrows
  <2>1. \/ \E d \in Depositors, e \in EscrowIds, u \in Users, a \in Amounts :
              DepositFailedTransfer(d, e, u, a)
        \/ \E e \in EscrowIds, u \in Users : ClaimEscrow(e, u)
        \/ \E d \in Depositors, e \in EscrowIds : RetryTransfer(d, e)
    BY <1>5 DEF EscrowNext, escrowVars, SetAuthorizedDepositor, EmergencyWithdraw,
                ReceiveStray, Tick
  <2>2. ASSUME NEW e \in EscrowIds, NEW s \in {"Claimed", "Retried"}, NEW k \in Int,
               escrows[e].status = "Pending",
               escrows' = [escrows EXCEPT ![e] = SettledRecord(escrows[e], s, k)]
        PROVE  RecordKept(escrows[id], escrows'[id])
    BY <2>2 DEF EscrowTypeOK, EscrowRecord, SettledRecord, RecordKept
  <2>3. ASSUME NEW e \in EscrowIds, NEW u \in Users, NEW a \in Amounts,
               escrows[e].status = "None", escrows' = [escrows EXCEPT ![e] = PendingRecord(u, a)]
        PROVE  RecordKept(escrows[id], escrows'[id])
    BY <2>3 DEF EscrowTypeOK, EscrowRecord, PendingRecord, RecordKept
  <2>4. ASSUME NEW e \in EscrowIds
        PROVE  escrows[e].retryCount \in Int /\ escrows[e].retryCount + 1 \in Int
    BY DEF EscrowTypeOK, EscrowRecord
  <2>5. ASSUME NEW e \in EscrowIds, NEW u \in Users, ClaimEscrow(e, u)
        PROVE  RecordKept(escrows[id], escrows'[id])
    BY <1>1, <2>2, <2>4, <2>5
  <2>6. ASSUME NEW d \in Depositors, NEW e \in EscrowIds, RetryTransfer(d, e)
        PROVE  RecordKept(escrows[id], escrows'[id])
    BY <1>2, <2>2, <2>4, <2>6
  <2>7. ASSUME NEW d \in Depositors, NEW e \in EscrowIds, NEW u \in Users, NEW a \in Amounts,
               DepositFailedTransfer(d, e, u, a)
        PROVE  RecordKept(escrows[id], escrows'[id])
    BY <1>3, <2>3, <2>7
  <2>8. QED
    BY <2>1, <2>5, <2>6, <2>7
<1>6. QED
  BY <1>4, <1>5

\* A settled record is final and an open record keeps its owner and amount.
THEOREM EscrowRecordsFinal == EscrowSpec => RecordsFinal
<1> DEFINE AllFinal ==
             \A id \in EscrowIds :
                /\ escrows[id].status \in {"Claimed", "Retried"} => escrows'[id] = escrows[id]
                /\ escrows[id].status = "Pending" =>
                       /\ escrows'[id].status # "None"
                       /\ escrows'[id].owner = escrows[id].owner
                       /\ escrows'[id].amount = escrows[id].amount
<1>1. EscrowTypeOK /\ [EscrowNext]_escrowVars => [AllFinal]_escrowVars
  <2>1. ASSUME EscrowTypeOK, [EscrowNext]_escrowVars PROVE AllFinal
    BY <2>1, FinalStep DEF RecordKept
  <2>2. QED
    BY <2>1
<1>2. QED
  BY <1>1, EscrowTypeCorrect, PTL DEF EscrowSpec, RecordsFinal

-----------------------------------------------------------------------------
(* What owners are paid, and what the index lists. *)

\* A step opens one record, settles one record, or touches none.
LEMMA EscrowStepKinds ==
  ASSUME EscrowTypeOK, [EscrowNext]_escrowVars
  PROVE  \/ UNCHANGED <<escrows, userEscrows, paid>>
         \/ \E id \in EscrowIds, u \in Users, a \in Nat :
                /\ escrows[id].status = "None"
                /\ escrows' = [escrows EXCEPT ![id] = PendingRecord(u, a)]
                /\ userEscrows' = [userEscrows EXCEPT ![u] = Append(userEscrows[u], id)]
                /\ paid' = paid
         \/ \E id \in EscrowIds, u \in Users, k \in Nat :
                /\ escrows[id].status = "Pending" /\ escrows[id].owner = u
                /\ escrows' = [escrows EXCEPT ![id] = SettledRecord(escrows[id], "Claimed", k)]
                /\ paid' = [paid EXCEPT ![u] = paid[u] + escrows[id].amount]
                /\ userEscrows' = userEscrows
         \/ \E id \in EscrowIds, k \in Nat :
                /\ escrows[id].status = "Pending"
                /\ escrows' = [escrows EXCEPT ![id] = SettledRecord(escrows[id], "Retried", k)]
                /\ UNCHANGED <<userEscrows, paid>>
<1>1. ASSUME NEW d \in Depositors, NEW id \in EscrowIds, NEW u \in Users, NEW a \in Amounts,
             DepositFailedTransfer(d, id, u, a)
      PROVE  /\ a \in Nat /\ escrows[id].status = "None"
             /\ escrows' = [escrows EXCEPT ![id] = PendingRecord(u, a)]
             /\ userEscrows' = [userEscrows EXCEPT ![u] = Append(userEscrows[u], id)]
             /\ paid' = paid
  BY <1>1, AmountsPositive DEF DepositFailedTransfer, DepositAllowed
<1>2. \A id \in EscrowIds : escrows[id].retryCount \in Nat /\ escrows[id].retryCount + 1 \in Nat
  BY DEF EscrowTypeOK, EscrowRecord
<1>3. ASSUME NEW id \in EscrowIds, NEW u \in Users, ClaimEscrow(id, u)
      PROVE  /\ escrows[id].status = "Pending" /\ escrows[id].owner = u
             /\ escrows' = [escrows EXCEPT ![id] =
                               SettledRecord(escrows[id], "Claimed", escrows[id].retryCount)]
             /\ paid' = [paid EXCEPT ![u] = paid[u] + escrows[id].amount]
             /\ userEscrows' = userEscrows
  BY <1>3 DEF ClaimEscrow, CanClaim
<1>4. ASSUME NEW d \in Depositors, NEW id \in EscrowIds, RetryTransfer(d, id)
      PROVE  /\ escrows[id].status = "Pending"
             /\ escrows' = [escrows EXCEPT ![id] =
                               SettledRecord(escrows[id], "Retried", escrows[id].retryCount + 1)]
             /\ UNCHANGED <<userEscrows, paid>>
  BY <1>4 DEF RetryTransfer
<1>5. \/ UNCHANGED <<escrows, userEscrows, paid>>
      \/ \E d \in Depositors, id \in EscrowIds, u \in Users, a \in Amounts :
             DepositFailedTransfer(d, id, u, a)
      \/ \E id \in EscrowIds, u \in Users : ClaimEscrow(id, u)
      \/ \E d \in Depositors, id \in EscrowIds : RetryTransfer(d, id)
  BY DEF EscrowNext, escrowVars, SetAuthorizedDepositor, EmergencyWithdraw, ReceiveStray, Tick
<1>6. QED
  BY <1>1, <1>2, <1>3, <1>4, <1>5

ClaimedBy(u) == {id \in WithStatus("Claimed") : escrows[id].owner = u}

LEMMA ClaimedByFinite ==
  ASSUME EscrowTypeOK, NEW u
  PROVE  /\ IsFiniteSet(ClaimedBy(u)) /\ ClaimedBy(u) \subseteq EscrowIds
         /\ \A id \in ClaimedBy(u) : AmountOf[id] \in Nat
<1>1. ClaimedBy(u) \subseteq EscrowIds
  BY DEF ClaimedBy, WithStatus
<1>2. QED
  BY <1>1, EscrowIdsFinite, FS_Subset, AmountOfType

LEMMA PaidInit == EscrowInit => PaidExactly
<1> SUFFICES ASSUME EscrowInit, NEW u \in Users
             PROVE  paid[u] = Total(ClaimedBy(u), AmountOf)
  BY DEF PaidExactly, ClaimedBy
<1>1. ClaimedBy(u) = {} /\ paid[u] = 0
  BY DEF EscrowInit, EmptyRecord, ClaimedBy, WithStatus
<1>2. QED
  BY <1>1, TotalEmpty

\* A claim pays the owner the record's amount, and nothing else pays anyone.
LEMMA PaidStep == EscrowTypeOK /\ PaidExactly /\ [EscrowNext]_escrowVars => PaidExactly'
<1> SUFFICES ASSUME EscrowTypeOK, PaidExactly, [EscrowNext]_escrowVars, NEW u \in Users
             PROVE  paid'[u] = Total(ClaimedBy(u)', AmountOf')
  BY DEF PaidExactly, ClaimedBy
<1> DEFINE C == ClaimedBy(u)
           f == AmountOf
           g == AmountOf'
<1>1. /\ paid[u] = Total(C, f) /\ paid \in [Users -> Nat]
      /\ IsFiniteSet(C) /\ C \subseteq EscrowIds /\ \A id \in C : f[id] \in Nat
  BY ClaimedByFinite DEF PaidExactly, ClaimedBy, EscrowTypeOK
<1>2. ASSUME C' = C, \A id \in C : g[id] = f[id], paid'[u] = paid[u]
      PROVE  paid'[u] = Total(C', g)
  <2> HIDE DEF C, f, g
  <2> QED BY <1>1, <1>2, TotalSame
<1>3. ASSUME UNCHANGED <<escrows, userEscrows, paid>>
      PROVE  paid'[u] = Total(C', g)
  BY <1>2, <1>3 DEF ClaimedBy, WithStatus, AmountOf
<1>4. ASSUME NEW id \in EscrowIds, NEW v \in Users, NEW a \in Nat,
             escrows[id].status = "None",
             escrows' = [escrows EXCEPT ![id] = PendingRecord(v, a)],
             paid' = paid
      PROVE  paid'[u] = Total(C', g)
  <2>1. C' = C /\ id \notin C
    BY <1>4 DEF EscrowTypeOK, ClaimedBy, WithStatus, PendingRecord
  <2>2. \A i \in C : g[i] = f[i]
    BY <1>1, <1>4, <2>1 DEF EscrowTypeOK, AmountOf
  <2>3. QED
    BY <1>2, <1>4, <2>1, <2>2
<1>5. ASSUME NEW id \in EscrowIds, NEW v \in Users, NEW k \in Nat,
             escrows[id].status = "Pending", escrows[id].owner = v,
             escrows' = [escrows EXCEPT ![id] = SettledRecord(escrows[id], "Claimed", k)],
             paid' = [paid EXCEPT ![v] = paid[v] + escrows[id].amount]
      PROVE  paid'[u] = Total(C', g)
  <2>1. g = f
    BY <1>5 DEF EscrowTypeOK, AmountOf, SettledRecord
  <2>2. CASE v # u
    <3>1. C' = C /\ paid'[u] = paid[u]
      BY <1>1, <1>5, <2>2 DEF EscrowTypeOK, ClaimedBy, WithStatus, SettledRecord
    <3>2. QED
      BY <1>2, <2>1, <3>1
  <2>3. CASE v = u
    <3>1. C' = C \cup {id} /\ id \notin C
      BY <1>5, <2>3 DEF EscrowTypeOK, ClaimedBy, WithStatus, SettledRecord
    <3>2. paid'[u] = paid[u] + f[id]
      BY <1>1, <1>5, <2>3 DEF AmountOf
    <3>3. \A i \in C \cup {id} : f[i] \in Nat
      BY <1>1, AmountOfType
    <3> HIDE DEF C, f, g
    <3>4. Total(C \cup {id}, f) = Total(C, f) + f[id]
      BY <1>1, <3>1, <3>3, TotalAdd
    <3>5. QED
      BY <1>1, <2>1, <3>1, <3>2, <3>4
  <2>4. QED
    BY <2>2, <2>3
<1>6. ASSUME NEW id \in EscrowIds, NEW k \in Nat,
             escrows[id].status = "Pending",
             escrows' = [escrows EXCEPT ![id] = SettledRecord(escrows[id], "Retried", k)],
             paid' = paid
      PROVE  paid'[u] = Total(C', g)
  <2>1. C' = C
    BY <1>6 DEF EscrowTypeOK, ClaimedBy, WithStatus, SettledRecord
  <2>2. g = f
    BY <1>6 DEF EscrowTypeOK, AmountOf, SettledRecord
  <2>3. QED
    BY <1>2, <1>6, <2>1, <2>2
<1> HIDE DEF C, f, g
<1>7. paid'[u] = Total(C', g)
  BY <1>3, <1>4, <1>5, <1>6, EscrowStepKinds
<1>8. QED
  BY <1>7 DEF C, g

\* Every user has received the amounts of the user's claimed records.
THEOREM EscrowPaysOwners == EscrowSpec => []PaidExactly
<1>1. EscrowInit => PaidExactly
  BY PaidInit
<1>2. EscrowTypeOK /\ PaidExactly /\ [EscrowNext]_escrowVars => PaidExactly'
  BY PaidStep
<1>3. QED
  BY <1>1, <1>2, EscrowTypeCorrect, PTL DEF EscrowSpec

LEMMA IndexInit == EscrowInit => IndexComplete
BY DEF EscrowInit, EmptyRecord, IndexComplete

\* A deposit lists its record, once, and settling one leaves it listed.
LEMMA IndexStep == EscrowTypeOK /\ IndexComplete /\ [EscrowNext]_escrowVars => IndexComplete'
<1> DEFINE Listed(u) == {userEscrows[u][i] : i \in DOMAIN userEscrows[u]}
           Owned(u) == {id \in EscrowIds : escrows[id].status # "None" /\ escrows[id].owner = u}
           Once(u) == \A i, j \in DOMAIN userEscrows[u] :
                         userEscrows[u][i] = userEscrows[u][j] => i = j
<1> SUFFICES ASSUME EscrowTypeOK, IndexComplete, [EscrowNext]_escrowVars, NEW u \in Users
             PROVE  Once(u)' /\ Listed(u)' = Owned(u)'
  BY DEF IndexComplete
<1>1. Once(u) /\ Listed(u) = Owned(u)
  BY DEF IndexComplete
<1>2. ASSUME Owned(u)' = Owned(u), userEscrows'[u] = userEscrows[u]
      PROVE  Once(u)' /\ Listed(u)' = Owned(u)'
  <2>1. Once(u)' /\ Listed(u)' = Listed(u)
    BY <1>1, <1>2
  <2>2. QED
    BY <1>1, <1>2, <2>1
<1>3. CASE UNCHANGED <<escrows, userEscrows, paid>>
  BY <1>2, <1>3
<1>4. ASSUME NEW id \in EscrowIds, NEW v \in Users, NEW a \in Nat,
             escrows[id].status = "None",
             escrows' = [escrows EXCEPT ![id] = PendingRecord(v, a)],
             userEscrows' = [userEscrows EXCEPT ![v] = Append(userEscrows[v], id)]
      PROVE  Once(u)' /\ Listed(u)' = Owned(u)'
  <2>1. CASE v # u
    <3>1. Owned(u)' = Owned(u)
      BY <1>4, <2>1 DEF EscrowTypeOK, PendingRecord
    <3>2. userEscrows'[u] = userEscrows[u]
      BY <1>4, <2>1 DEF EscrowTypeOK
    <3>3. QED
      BY <1>2, <3>1, <3>2
  <2>2. CASE v = u
    <3> DEFINE s == userEscrows[u]
               n == Len(s)
    <3>1. s \in Seq(EscrowIds) /\ n \in Nat /\ DOMAIN s = 1..n
      BY DEF EscrowTypeOK
    <3>2. /\ userEscrows'[u] = Append(s, id)
      BY <1>4, <2>2 DEF EscrowTypeOK
    <3>3. /\ DOMAIN userEscrows'[u] = 1..(n + 1) /\ userEscrows'[u][n + 1] = id
          /\ \A i \in 1..n : userEscrows'[u][i] = s[i]
      BY <3>1, <3>2
    <3>4. Owned(u)' = Owned(u) \cup {id} /\ id \notin Owned(u)
      BY <1>4, <2>2 DEF EscrowTypeOK, PendingRecord
    <3>5. \A i \in 1..n : s[i] \in Owned(u)
      BY <1>1, <3>1
    <3>6. Listed(u)' = Listed(u) \cup {id}
      BY <3>1, <3>3, SMTT(30)
    <3>7. Once(u)'
      BY <1>1, <3>1, <3>3, <3>4, <3>5, SMTT(30)
    <3>8. QED
      BY <1>1, <3>4, <3>6, <3>7
  <2>3. QED
    BY <2>1, <2>2
<1>5. ASSUME NEW id \in EscrowIds, NEW st \in {"Claimed", "Retried"}, NEW k \in Nat,
             escrows[id].status = "Pending",
             escrows' = [escrows EXCEPT ![id] = SettledRecord(escrows[id], st, k)],
             userEscrows' = userEscrows
      PROVE  Once(u)' /\ Listed(u)' = Owned(u)'
  <2>1. Owned(u)' = Owned(u)
    BY <1>5 DEF EscrowTypeOK, SettledRecord
  <2>2. QED
    BY <1>2, <1>5, <2>1
<1> HIDE DEF Once, Listed, Owned
<1>6. QED
  BY <1>3, <1>4, <1>5, EscrowStepKinds

\* A user's index lists the user's records, each once.
THEOREM EscrowIndexed == EscrowSpec => []IndexComplete
<1>1. EscrowInit => IndexComplete
  BY IndexInit
<1>2. EscrowTypeOK /\ IndexComplete /\ [EscrowNext]_escrowVars => IndexComplete'
  BY IndexStep
<1>3. QED
  BY <1>1, <1>2, EscrowTypeCorrect, PTL DEF EscrowSpec
=============================================================================
