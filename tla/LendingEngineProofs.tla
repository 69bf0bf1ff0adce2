------------------------- MODULE LendingEngineProofs -------------------------
(***************************************************************************)
(* Proofs about the lending engine for any finite set of users, any        *)
(* amounts, prices, parameters that setRiskParams accepts, and bounds.     *)
(***************************************************************************)
EXTENDS LendingEngine

-----------------------------------------------------------------------------
(* The interest and the debt. *)

LEMMA InterestType ==
  ASSUME LendingTypeOK, NEW u \in Users
  PROVE  Interest(u) \in Nat /\ CurrentDebt(u) \in Nat
<1> DEFINE p == positions[u]
           e == now - p.lastUpdateTime
           n == p.debtAccrued * riskParams.borrowAprBps * e
           d == Bps * Year
<1>1. p \in UserPosition /\ e \in Nat /\ riskParams.borrowAprBps \in Nat
  BY LendingAssumption DEF LendingTypeOK, UserPosition, RiskParams
<1>2. n \in Nat
  <2>1. p.debtAccrued * riskParams.borrowAprBps \in Nat
    BY <1>1, ProductType DEF UserPosition
  <2>2. QED
    <3> HIDE DEF p, e
    <3> QED BY <1>1, <2>1, ProductType
<1>3. d \in Nat \ {0}
  BY LendingAssumption DEF Bps
<1>4. n \div d \in Nat
  <2> HIDE DEF n, d
  <2> QED BY <1>2, <1>3, DivisionType
<1>5. Interest(u) = 0 \/ Interest(u) = n \div d
  BY DEF Interest, CalculateInterest
<1>6. QED
  BY <1>1, <1>4, <1>5 DEF CurrentDebt, UserPosition

\* A position has debt after the interest if and only if it had debt before.
LEMMA PrincipalMarksCurrentDebt ==
  ASSUME LendingTypeOK, PrincipalMarksDebt, NEW u \in Users
  PROVE  positions[u].debt = 0 <=> CurrentDebt(u) = 0
<1>1. Interest(u) \in Nat /\ positions[u] \in UserPosition
  BY InterestType DEF LendingTypeOK
<1>2. positions[u].debt = 0 => Interest(u) = 0
  BY DEF Interest
<1>3. QED
  BY <1>1, <1>2 DEF CurrentDebt, PrincipalMarksDebt, UserPosition

-----------------------------------------------------------------------------
(* What a call does to the sums of the positions. *)

LendingInv == LendingTypeOK /\ BooksMatch

LEMMA MoveCounted ==
  ASSUME LendingInv, NEW u \in Users, NEW c \in Nat, NEW d \in Nat, NEW a \in Nat,
         d = 0 <=> a = 0, NEW t, Move(u, c, d, a, t)
  PROVE  /\ positions' \in [Users -> UserPosition]
         /\ \A v \in Users : positions'[v].lastUpdateTime <= now'
         /\ PrincipalMarksDebt'
         /\ Total(Users, CollateralOf') \in Nat
         /\ Total(Users, CollateralOf') = Total(Users, CollateralOf) - positions[u].collateral + c
         /\ Total(Users, DebtOf') \in Nat
         /\ Total(Users, DebtOf') = Total(Users, DebtOf) - positions[u].debtAccrued + a
<1> DEFINE moved == [collateral |-> c, debt |-> d, debtAccrued |-> a, lastUpdateTime |-> now]
<1>1. /\ positions \in [Users -> UserPosition]
      /\ now \in Nat /\ IsFiniteSet(Users)
      /\ \A v \in Users : positions[v].lastUpdateTime <= now
      /\ \A v \in Users : positions[v].debt = 0 <=> positions[v].debtAccrued = 0
  BY LendingAssumption DEF LendingInv, LendingTypeOK, BooksMatch, PrincipalMarksDebt
<1>2. /\ positions' = [positions EXCEPT ![u] = moved]
      /\ now' = now
  BY DEF Move, settingVars
<1>3. moved \in UserPosition
  BY <1>1 DEF UserPosition
<1>4. /\ positions' \in [Users -> UserPosition]
      /\ positions'[u] = moved
      /\ \A v \in Users \ {u} : positions'[v] = positions[v]
  <2> HIDE DEF moved
  <2> QED BY <1>1, <1>2, <1>3
<1>5. \A v \in Users : positions'[v].lastUpdateTime <= now'
  BY <1>1, <1>2, <1>4
<1>6. PrincipalMarksDebt'
  BY <1>1, <1>4 DEF PrincipalMarksDebt
<1> DEFINE cf == CollateralOf
           cg == CollateralOf'
           df == DebtOf
           dg == DebtOf'
<1>7. /\ \A v \in Users : cf[v] \in Nat /\ cg[v] \in Nat
      /\ \A v \in Users \ {u} : cg[v] = cf[v]
      /\ cf[u] = positions[u].collateral /\ cg[u] = c
  BY <1>1, <1>4 DEF CollateralOf, UserPosition
<1>8. /\ \A v \in Users : df[v] \in Nat /\ dg[v] \in Nat
      /\ \A v \in Users \ {u} : dg[v] = df[v]
      /\ df[u] = positions[u].debtAccrued /\ dg[u] = a
  BY <1>1, <1>4 DEF DebtOf, UserPosition
<1> HIDE DEF cf, cg, df, dg
<1>9. Total(Users, cg) = Total(Users, cf) - cf[u] + cg[u] /\ Total(Users, cg) \in Nat
  BY <1>1, <1>7, TotalUpdate, TotalType
<1>10. Total(Users, dg) = Total(Users, df) - df[u] + dg[u] /\ Total(Users, dg) \in Nat
  BY <1>1, <1>8, TotalUpdate, TotalType
<1>11. QED
  BY <1>4, <1>5, <1>6, <1>7, <1>8, <1>9, <1>10 DEF cf, cg, df, dg

\* A call keeps the invariant if it moves the totals and the tokens as it
\* moves the position.
LEMMA CallKeepsBooks ==
  ASSUME LendingInv, NEW u \in Users, NEW c \in Nat, NEW d \in Nat, NEW a \in Nat,
         d = 0 <=> a = 0,
         Move(u, c, d, a, totalDebt - positions[u].debtAccrued + a),
         totalCollateral' = totalCollateral - positions[u].collateral + c,
         heldCollateral' = heldCollateral - positions[u].collateral + c,
         heldDebt' \in Nat,
         heldDebt' = heldDebt + CurrentDebt(u) - a
  PROVE  LendingInv'
<1>1. /\ positions' \in [Users -> UserPosition]
      /\ \A v \in Users : positions'[v].lastUpdateTime <= now'
      /\ PrincipalMarksDebt'
      /\ Total(Users, CollateralOf') \in Nat
      /\ Total(Users, CollateralOf') = Total(Users, CollateralOf) - positions[u].collateral + c
      /\ Total(Users, DebtOf') \in Nat
      /\ Total(Users, DebtOf') = Total(Users, DebtOf) - positions[u].debtAccrued + a
  <2> DEFINE t == totalDebt - positions[u].debtAccrued + a
  <2>1. Move(u, c, d, a, t)
    OBVIOUS
  <2> HIDE DEF t
  <2>2. QED
    BY <2>1, MoveCounted
<1>2. /\ totalDebt' = totalDebt - positions[u].debtAccrued + a
      /\ interest' = interest + Interest(u)
      /\ UNCHANGED <<riskParams, paused, price, now, changes, funded>>
  BY DEF Move, settingVars
<1>3. /\ totalCollateral = Total(Users, CollateralOf) /\ heldCollateral = totalCollateral
      /\ totalDebt = Total(Users, DebtOf)
      /\ heldDebt + totalDebt = funded + interest
  BY DEF LendingInv, BooksMatch, CollateralCounted, DebtsCounted, DebtTokensCounted
<1>4. /\ {totalCollateral, totalDebt, heldCollateral, heldDebt, funded, interest, now, changes}
             \subseteq Nat
      /\ riskParams \in RiskSettings /\ paused \in BOOLEAN /\ price \in Prices
      /\ positions[u].debtAccrued \in Nat
      /\ Interest(u) \in Nat /\ CurrentDebt(u) = positions[u].debtAccrued + Interest(u)
  BY InterestType DEF LendingInv, LendingTypeOK, UserPosition, CurrentDebt
<1>5. CollateralCounted' /\ DebtsCounted'
  BY <1>1, <1>2, <1>3, <1>4 DEF CollateralCounted, DebtsCounted
<1>6. DebtTokensCounted'
  BY <1>2, <1>3, <1>4 DEF DebtTokensCounted
<1>7. totalCollateral' \in Nat /\ heldCollateral' \in Nat /\ totalDebt' \in Nat
  BY <1>1, <1>2, <1>3
<1>8. LendingTypeOK'
  BY <1>1, <1>2, <1>4, <1>7 DEF LendingTypeOK
<1>9. QED
  BY <1>1, <1>5, <1>6, <1>8 DEF LendingInv, BooksMatch

-----------------------------------------------------------------------------
(* The calls. *)

LEMMA SupplyKeepsBooks ==
  ASSUME LendingInv, NEW u \in Users, NEW amount \in Amounts, Supply(u, amount)
  PROVE  LendingInv'
<1>1. /\ amount \in Nat
      /\ positions[u] \in UserPosition /\ heldDebt \in Nat
      /\ {totalCollateral, totalDebt, heldCollateral} \subseteq Nat
      /\ CurrentDebt(u) \in Nat /\ Interest(u) \in Nat
      /\ CurrentDebt(u) = positions[u].debtAccrued + Interest(u)
      /\ positions[u].debt = 0 <=> CurrentDebt(u) = 0
  BY LendingAssumption, InterestType, PrincipalMarksCurrentDebt
     DEF LendingInv, LendingTypeOK, BooksMatch, CurrentDebt
<1>2. totalDebt - positions[u].debtAccrued + CurrentDebt(u) = totalDebt + Interest(u)
  BY <1>1 DEF UserPosition
<1> DEFINE c == positions[u].collateral + amount
<1>3. /\ c \in Nat /\ positions[u].debt \in Nat
      /\ totalCollateral' = totalCollateral - positions[u].collateral + c
      /\ heldCollateral' = heldCollateral - positions[u].collateral + c
      /\ heldDebt' \in Nat /\ heldDebt' = heldDebt + CurrentDebt(u) - CurrentDebt(u)
  BY <1>1 DEF Supply, UserPosition
<1>4. Move(u, c, positions[u].debt, CurrentDebt(u), totalDebt + Interest(u))
  BY DEF Supply, Kept
<1>5. QED
  <2> HIDE DEF c
  <2> QED BY <1>1, <1>2, <1>3, <1>4, CallKeepsBooks

LEMMA WithdrawKeepsBooks ==
  ASSUME LendingInv, NEW u \in Users, NEW amount \in Amounts, Withdraw(u, amount)
  PROVE  LendingInv'
<1>1. /\ amount \in Nat
      /\ positions[u] \in UserPosition /\ heldDebt \in Nat
      /\ {totalCollateral, totalDebt, heldCollateral} \subseteq Nat
      /\ CurrentDebt(u) \in Nat /\ Interest(u) \in Nat
      /\ CurrentDebt(u) = positions[u].debtAccrued + Interest(u)
      /\ positions[u].debt = 0 <=> CurrentDebt(u) = 0
  BY LendingAssumption, InterestType, PrincipalMarksCurrentDebt
     DEF LendingInv, LendingTypeOK, BooksMatch, CurrentDebt
<1>2. totalDebt - positions[u].debtAccrued + CurrentDebt(u) = totalDebt + Interest(u)
  BY <1>1 DEF UserPosition
<1> DEFINE c == positions[u].collateral - amount
<1>3. /\ c \in Nat /\ positions[u].debt \in Nat
      /\ totalCollateral' = totalCollateral - positions[u].collateral + c
      /\ heldCollateral' = heldCollateral - positions[u].collateral + c
      /\ heldDebt' \in Nat /\ heldDebt' = heldDebt + CurrentDebt(u) - CurrentDebt(u)
  BY <1>1 DEF Withdraw, UserPosition
<1>4. Move(u, c, positions[u].debt, CurrentDebt(u), totalDebt + Interest(u))
  BY DEF Withdraw, Kept
<1>5. QED
  <2> HIDE DEF c
  <2> QED BY <1>1, <1>2, <1>3, <1>4, CallKeepsBooks

LEMMA BorrowKeepsBooks ==
  ASSUME LendingInv, NEW u \in Users, NEW amount \in Amounts, Borrow(u, amount)
  PROVE  LendingInv'
<1> DEFINE newDebt == CurrentDebt(u) + amount
<1>1. /\ amount \in Nat \ {0}
      /\ positions[u] \in UserPosition /\ heldDebt \in Nat
      /\ {totalCollateral, totalDebt, heldCollateral} \subseteq Nat
      /\ CurrentDebt(u) \in Nat /\ Interest(u) \in Nat
      /\ CurrentDebt(u) = positions[u].debtAccrued + Interest(u)
  BY LendingAssumption, InterestType DEF LendingInv, LendingTypeOK, CurrentDebt
<1>2. newDebt \in Nat /\ newDebt # 0
  BY <1>1
<1>3. totalDebt - positions[u].debtAccrued + newDebt = totalDebt + Interest(u) + amount
  BY <1>1 DEF UserPosition
<1>4. /\ Move(u, positions[u].collateral, newDebt, newDebt, totalDebt + Interest(u) + amount)
      /\ heldDebt' = heldDebt - amount /\ amount <= heldDebt
      /\ totalCollateral' = totalCollateral /\ heldCollateral' = heldCollateral
  BY DEF Borrow
<1>5. QED
  <2>1. heldDebt' \in Nat /\ heldDebt' = heldDebt + CurrentDebt(u) - newDebt
    BY <1>1, <1>4
  <2>2. /\ totalCollateral' = totalCollateral - positions[u].collateral + positions[u].collateral
        /\ heldCollateral' = heldCollateral - positions[u].collateral + positions[u].collateral
        /\ positions[u].collateral \in Nat
    BY <1>1, <1>4 DEF UserPosition
  <2> HIDE DEF newDebt
  <2>3. QED
    BY <1>2, <1>3, <1>4, <2>1, <2>2, CallKeepsBooks

LEMMA RepayKeepsBooks ==
  ASSUME LendingInv, NEW u \in Users, NEW amount \in Amounts, Repay(u, amount)
  PROVE  LendingInv'
<1> DEFINE repayAmount == IF amount > CurrentDebt(u) THEN CurrentDebt(u) ELSE amount
           left == CurrentDebt(u) - repayAmount
<1>1. /\ amount \in Nat
      /\ positions[u] \in UserPosition /\ heldDebt \in Nat
      /\ {totalCollateral, totalDebt, heldCollateral} \subseteq Nat
      /\ CurrentDebt(u) \in Nat /\ Interest(u) \in Nat
      /\ CurrentDebt(u) = positions[u].debtAccrued + Interest(u)
  BY LendingAssumption, InterestType DEF LendingInv, LendingTypeOK, CurrentDebt
<1>2. repayAmount \in Nat /\ left \in Nat
  BY <1>1
<1>3. totalDebt - positions[u].debtAccrued + left = totalDebt + Interest(u) - repayAmount
  BY <1>1, <1>2 DEF UserPosition
<1>4. /\ Move(u, positions[u].collateral, left, left, totalDebt + Interest(u) - repayAmount)
      /\ heldDebt' = heldDebt + repayAmount
      /\ totalCollateral' = totalCollateral /\ heldCollateral' = heldCollateral
  BY DEF Repay
<1>5. heldDebt' \in Nat /\ heldDebt' = heldDebt + CurrentDebt(u) - left
  BY <1>1, <1>2, <1>4
<1>6. /\ totalCollateral' = totalCollateral - positions[u].collateral + positions[u].collateral
      /\ heldCollateral' = heldCollateral - positions[u].collateral + positions[u].collateral
      /\ positions[u].collateral \in Nat
  BY <1>1, <1>4 DEF UserPosition
<1>7. QED
  <2> HIDE DEF repayAmount, left
  <2> QED BY <1>2, <1>3, <1>4, <1>5, <1>6, CallKeepsBooks

LEMMA SeizedType ==
  ASSUME LendingTypeOK, NEW u \in Users
  PROVE  Seized(u) \in 0..positions[u].collateral
<1> DEFINE b == CurrentDebt(u) * riskParams.liquidationBonusBps
           v == CurrentDebt(u) + b \div Bps
           w == (v * CollateralUnit) \div price
<1>1. /\ CurrentDebt(u) \in Nat /\ positions[u].collateral \in Nat
      /\ riskParams.liquidationBonusBps \in Nat
      /\ price \in Nat \ {0} /\ CollateralUnit \in Nat
  BY InterestType, LendingAssumption DEF LendingTypeOK, RiskParams, UserPosition
<1>2. b \in Nat
  BY <1>1, ProductType
<1>3. b \div Bps \in Nat
  <2> HIDE DEF b
  <2> QED BY <1>2, DivisionType DEF Bps
<1>4. v \in Nat
  <2> HIDE DEF b
  <2> QED BY <1>1, <1>3
<1>5. v * CollateralUnit \in Nat
  <2> HIDE DEF v
  <2> QED BY <1>1, <1>4, ProductType
<1>6. w \in Nat
  <2> HIDE DEF v
  <2> QED BY <1>1, <1>5, DivisionType
<1>7. Seized(u) = IF w > positions[u].collateral THEN positions[u].collateral ELSE w
  BY DEF Seized, LiquidationBonus, UsdToTokenAmount
<1>8. QED
  <2> HIDE DEF w
  <2> QED BY <1>1, <1>6, <1>7

LEMMA LiquidateKeepsBooks ==
  ASSUME LendingInv, NEW u \in Users, Liquidate(u)
  PROVE  LendingInv'
<1> DEFINE left == positions[u].collateral - Seized(u)
<1>1. /\ positions[u] \in UserPosition /\ heldDebt \in Nat
      /\ {totalCollateral, totalDebt, heldCollateral} \subseteq Nat
      /\ CurrentDebt(u) \in Nat
      /\ Seized(u) \in 0..positions[u].collateral
  BY InterestType, SeizedType DEF LendingInv, LendingTypeOK
<1>2. left \in Nat
  BY <1>1 DEF UserPosition
<1>3. totalDebt - positions[u].debtAccrued + 0 = totalDebt - positions[u].debtAccrued
  BY <1>1 DEF UserPosition
<1>4. /\ Move(u, left, 0, 0, totalDebt - positions[u].debtAccrued)
      /\ totalCollateral' = totalCollateral - Seized(u)
      /\ heldCollateral' = heldCollateral - Seized(u)
      /\ heldDebt' = heldDebt + CurrentDebt(u)
  BY DEF Liquidate
<1>5. /\ totalCollateral' = totalCollateral - positions[u].collateral + left
      /\ heldCollateral' = heldCollateral - positions[u].collateral + left
      /\ heldDebt' \in Nat /\ heldDebt' = heldDebt + CurrentDebt(u) - 0
  BY <1>1, <1>4 DEF UserPosition
<1>6. QED
  <2> HIDE DEF left
  <2> QED BY <1>2, <1>3, <1>4, <1>5, CallKeepsBooks

\* The setters, the clock and transfers to the engine leave the books alone.
LEMMA OthersKeepBooks ==
  ASSUME LendingInv,
         \/ \E r \in RiskSettings : SetRiskParams(r)
         \/ \E on \in BOOLEAN : SetPaused(on)
         \/ \E p \in Prices : SetPrice(p)
         \/ \E amount \in Amounts : Fund(amount)
         \/ Tick
         \/ UNCHANGED lendingVars
  PROVE  LendingInv'
<1>1. /\ positions' = positions /\ totalCollateral' = totalCollateral /\ totalDebt' = totalDebt
      /\ heldCollateral' = heldCollateral /\ interest' = interest
      /\ heldDebt' - funded' = heldDebt - funded
      /\ {heldDebt', funded', now', changes'} \subseteq Nat
      /\ now <= now'
      /\ riskParams' \in RiskSettings /\ paused' \in BOOLEAN /\ price' \in Prices
  BY LendingAssumption
     DEF LendingInv, LendingTypeOK, SetRiskParams, SetPaused, SetPrice, Fund, Tick, lendingVars,
         tokenVars, settingVars
<1>2. CollateralOf' = CollateralOf /\ DebtOf' = DebtOf
  BY <1>1 DEF CollateralOf, DebtOf
<1>3. BooksMatch'
  <2>1. CollateralCounted' /\ DebtsCounted'
    BY <1>1, <1>2 DEF LendingInv, BooksMatch, CollateralCounted, DebtsCounted
  <2>2. DebtTokensCounted'
    BY <1>1 DEF LendingInv, LendingTypeOK, BooksMatch, DebtTokensCounted
  <2>3. PrincipalMarksDebt'
    BY <1>1 DEF LendingInv, BooksMatch, PrincipalMarksDebt
  <2>4. QED
    BY <2>1, <2>2, <2>3 DEF BooksMatch
<1>4. LendingTypeOK'
  <2>1. \A u \in Users : positions'[u].lastUpdateTime <= now'
    BY <1>1 DEF LendingInv, LendingTypeOK, UserPosition
  <2>2. QED
    BY <1>1, <2>1 DEF LendingInv, LendingTypeOK
<1>5. QED
  BY <1>3, <1>4 DEF LendingInv

LEMMA LendingStep ==
  ASSUME LendingInv, [LendingNext]_lendingVars
  PROVE  LendingInv'
BY SupplyKeepsBooks, WithdrawKeepsBooks, BorrowKeepsBooks, RepayKeepsBooks,
   LiquidateKeepsBooks, OthersKeepBooks DEF LendingNext

LEMMA LendingStart ==
  ASSUME LendingInit
  PROVE  LendingInv
<1>1. LendingTypeOK
  <2>1. /\ positions \in [Users -> UserPosition]
        /\ \A u \in Users : positions[u].lastUpdateTime <= now
    BY DEF LendingInit, UserPosition
  <2>2. /\ totalCollateral = 0 /\ totalDebt = 0 /\ heldCollateral = 0
        /\ heldDebt \in Nat /\ funded \in Nat
        /\ interest = 0 /\ now = 0 /\ changes = 0
        /\ riskParams \in RiskSettings /\ paused \in BOOLEAN /\ price \in Prices
    BY LendingAssumption DEF LendingInit
  <2>3. QED
    BY <2>1, <2>2 DEF LendingTypeOK
<1>2. PrincipalMarksDebt /\ DebtTokensCounted
  BY LendingAssumption DEF LendingInit, PrincipalMarksDebt, DebtTokensCounted
<1> DEFINE zero == [u \in Users |-> 0]
<1>3. CollateralOf = zero /\ DebtOf = zero
  BY DEF LendingInit, CollateralOf, DebtOf
<1>4. Total(Users, zero) = 0
  <2>1. Units(Users, zero) = {}
    BY DEF Units
  <2>2. QED
    BY <2>1, FS_EmptySet DEF Total
<1>5. CollateralCounted /\ DebtsCounted
  <2> HIDE DEF zero
  <2> QED BY <1>3, <1>4 DEF LendingInit, CollateralCounted, DebtsCounted
<1>6. QED
  BY <1>1, <1>2, <1>5 DEF LendingInv, BooksMatch

\* The running totals of BaseLendingEngine are the sums of its positions, its
\* tokens are accounted for, and no debt is without the principal that makes
\* it grow, after every order of calls, accruals and settings.
THEOREM LendingBooksMatch == LendingSpec => []BooksMatch
<1>1. LendingInit => LendingInv
  BY LendingStart
<1>2. LendingInv /\ [LendingNext]_lendingVars => LendingInv'
  BY LendingStep
<1>3. LendingInv => BooksMatch
  BY DEF LendingInv
<1>4. QED
  BY <1>1, <1>2, <1>3, PTL DEF LendingSpec

\* No total, balance, debt or collateral is ever below zero.
THEOREM LendingTypeCorrect == LendingSpec => []LendingTypeOK
<1>1. LendingInit => LendingInv
  BY LendingStart
<1>2. LendingInv /\ [LendingNext]_lendingVars => LendingInv'
  BY LendingStep
<1>3. LendingInv => LendingTypeOK
  BY DEF LendingInv
<1>4. QED
  BY <1>1, <1>2, <1>3, PTL DEF LendingSpec

-----------------------------------------------------------------------------
(* A use of the engine leaves the position safe. *)

\* A debt within the loan-to-value limit, however the ratio was rounded, does
\* not put the health factor below one: the limit is below the threshold.
LEMMA LtvKeepsHealth ==
  ASSUME NEW debt \in Nat \ {0}, NEW value \in Nat \ {0}, NEW ltv \in Nat, NEW threshold \in Nat,
         ltv < threshold, (debt * Bps) \div value <= ltv
  PROVE  Bps <= (value * threshold) \div debt
<1> DEFINE a == debt * Bps
           q == a \div value
<1>1. Bps \in Nat
  BY DEF Bps
<1>2. a \in Nat
  BY <1>1, ProductType
<1>3. q \in Nat /\ a < q * value + value
  <2> HIDE DEF a
  <2> QED BY <1>2, DivisionType, DivisionRoundsDown
<1>4. q + 1 <= threshold
  <2>1. q <= ltv
    OBVIOUS
  <2>2. QED
    <3> HIDE DEF q
    <3> QED BY <1>3, <2>1
<1>5. (q + 1) * value <= threshold * value
  <2> HIDE DEF q
  <2> QED BY <1>3, <1>4, ProductMonotone
<1>6. (q + 1) * value = q * value + value /\ threshold * value = value * threshold
  <2> HIDE DEF q
  <2> QED BY <1>3
<1>7. q * value \in Nat /\ value * threshold \in Nat /\ debt * Bps = Bps * debt
  <2> HIDE DEF q
  <2> QED BY <1>1, <1>3, ProductType
<1>8. Bps * debt <= value * threshold
  <2>1. a = Bps * debt
    BY <1>7
  <2>2. QED
    <3> HIDE DEF a, q
    <3> QED BY <1>2, <1>3, <1>5, <1>6, <1>7, <2>1
<1>9. QED
  <2> HIDE DEF a, q
  <2> QED BY <1>1, <1>7, <1>8, DivisionAtLeast

\* The same of a debt within the most that may be borrowed.
LEMMA MaxBorrowKeepsHealth ==
  ASSUME NEW debt \in Nat \ {0}, NEW value \in Nat, NEW ltv \in Nat, NEW threshold \in Nat,
         ltv < threshold, debt <= (value * ltv) \div Bps
  PROVE  Bps <= (value * threshold) \div debt
<1> DEFINE a == value * ltv
           q == a \div Bps
<1>1. a \in Nat /\ Bps \in Nat \ {0}
  BY ProductType DEF Bps
<1>2. q \in Nat /\ q * Bps <= a
  <2> HIDE DEF a
  <2> QED BY <1>1, DivisionType, DivisionRoundsDown
<1>3. debt * Bps <= q * Bps
  <2>1. debt <= q
    OBVIOUS
  <2>2. QED
    <3> HIDE DEF q
    <3> QED BY <1>1, <1>2, <2>1, ProductMonotone
<1>4. ltv * value <= threshold * value
  BY ProductMonotone
<1>5. /\ a = ltv * value /\ threshold * value = value * threshold
      /\ debt * Bps = Bps * debt
      /\ q * Bps \in Nat /\ Bps * debt \in Nat /\ value * threshold \in Nat
  <2> HIDE DEF q
  <2> QED BY <1>1, <1>2, ProductType
<1>6. Bps * debt <= value * threshold
  <2> HIDE DEF a, q
  <2> QED BY <1>1, <1>2, <1>3, <1>4, <1>5
<1>7. QED
  <2> HIDE DEF a, q
  <2> QED BY <1>1, <1>5, <1>6, DivisionAtLeast

LEMMA ValueType ==
  ASSUME LendingTypeOK, NEW c \in Nat
  PROVE  Value(c) \in Nat
<1>1. price \in Nat /\ CollateralUnit \in Nat \ {0}
  BY LendingAssumption DEF LendingTypeOK
<1>2. c * price \in Nat
  BY <1>1, ProductType
<1>3. QED
  BY <1>1, <1>2, DivisionType DEF Value, CollateralValue

LEMMA RiskOrder ==
  ASSUME LendingTypeOK
  PROVE  /\ riskParams.maxLtvBps \in Nat /\ riskParams.liquidationThresholdBps \in Nat
         /\ riskParams.maxLtvBps < riskParams.liquidationThresholdBps
BY LendingAssumption DEF LendingTypeOK, RiskParams, ValidRisk

\* What a call leaves in the position that it moves and in the others.
LEMMA MoveLeaves ==
  ASSUME LendingTypeOK, NEW v \in Users, NEW c, NEW d, NEW a, NEW t, Move(v, c, d, a, t)
  PROVE  /\ positions'[v].collateral = c /\ positions'[v].debtAccrued = a
         /\ \A u \in Users \ {v} : positions'[u] = positions[u]
BY DEF Move, LendingTypeOK

LEMMA WithdrawUsesSafely ==
  ASSUME LendingTypeOK, NEW v \in Users, NEW amount \in Amounts, Withdraw(v, amount),
         NEW u \in Users, Uses(u), Value(positions'[u].collateral) > 0
  PROVE  ~BelowOne(positions'[u].collateral, positions'[u].debtAccrued)
<1> DEFINE left == positions[v].collateral - amount
<1>1. /\ positions[v].collateral \in Nat /\ amount \in Nat /\ heldDebt \in Nat
      /\ \A w \in Users : positions[w].collateral \in Nat
      /\ CurrentDebt(v) \in Nat
  BY LendingAssumption, InterestType DEF LendingTypeOK, UserPosition
<1>2. /\ KeepsMaxLtv(v, left) /\ amount <= positions[v].collateral /\ heldDebt' = heldDebt
      /\ Move(v, left, Kept(v), CurrentDebt(v), totalDebt + Interest(v))
  BY DEF Withdraw
<1>3. /\ positions'[v].collateral = left /\ positions'[v].debtAccrued = CurrentDebt(v)
      /\ \A w \in Users \ {v} : positions'[w] = positions[w]
  <2> HIDE DEF left
  <2> QED BY <1>2, MoveLeaves
<1>4. u = v
  BY <1>1, <1>2, <1>3 DEF Uses
<1>5. left \in Nat
  BY <1>1, <1>2
<1> HIDE DEF left
<1>6. Value(left) \in Nat /\ Value(left) > 0
  BY <1>3, <1>4, <1>5, ValueType
<1>7. CASE CurrentDebt(v) = 0
  BY <1>3, <1>4, <1>7 DEF BelowOne
<1>8. CASE CurrentDebt(v) > 0
  <2>1. (CurrentDebt(v) * Bps) \div Value(left) <= riskParams.maxLtvBps
    BY <1>2, <1>6, <1>8 DEF KeepsMaxLtv, CalculateLTV
  <2>2. Bps <= (Value(left) * riskParams.liquidationThresholdBps) \div CurrentDebt(v)
    <3>1. CurrentDebt(v) \in Nat \ {0} /\ Value(left) \in Nat \ {0}
      BY <1>1, <1>6, <1>8
    <3>2. QED
      BY <2>1, <3>1, RiskOrder, LtvKeepsHealth, Zenon
  <2>3. (Value(left) * riskParams.liquidationThresholdBps) \div CurrentDebt(v) \in Nat
    BY <1>1, <1>6, <1>8, RiskOrder, ProductType, DivisionType
  <2>4. QED
    BY <1>3, <1>4, <2>2, <2>3 DEF BelowOne, CalculateHealthFactor, Bps
<1>9. QED
  BY <1>1, <1>7, <1>8

LEMMA BorrowUsesSafely ==
  ASSUME LendingTypeOK, NEW v \in Users, NEW amount \in Amounts, Borrow(v, amount),
         NEW u \in Users, Uses(u)
  PROVE  ~BelowOne(positions'[u].collateral, positions'[u].debtAccrued)
<1> DEFINE newDebt == CurrentDebt(v) + amount
           c == positions[v].collateral
<1>1. /\ c \in Nat /\ amount \in Nat \ {0} /\ heldDebt \in Nat
      /\ CurrentDebt(v) \in Nat
      /\ \A w \in Users : positions[w].collateral \in Nat
  BY LendingAssumption, InterestType DEF LendingTypeOK, UserPosition
<1>2. /\ newDebt <= (Value(c) * riskParams.maxLtvBps) \div Bps
      /\ Move(v, c, newDebt, newDebt, totalDebt + Interest(v) + amount)
  BY DEF Borrow, CalculateMaxBorrow
<1>3. newDebt \in Nat \ {0}
  BY <1>1
<1> HIDE DEF newDebt
<1>4. /\ positions'[v].collateral = c /\ positions'[v].debtAccrued = newDebt
      /\ \A w \in Users \ {v} : positions'[w] = positions[w]
  <2> HIDE DEF c
  <2> QED BY <1>2, MoveLeaves
<1>5. u = v
  BY <1>1, <1>4 DEF Uses
<1> HIDE DEF c
<1>6. Value(c) \in Nat
  BY <1>1, ValueType
<1>7. Bps <= (Value(c) * riskParams.liquidationThresholdBps) \div newDebt
  BY <1>2, <1>3, <1>6, RiskOrder, MaxBorrowKeepsHealth
<1>8. (Value(c) * riskParams.liquidationThresholdBps) \div newDebt \in Nat
  BY <1>3, <1>6, RiskOrder, ProductType, DivisionType
<1>9. QED
  BY <1>4, <1>5, <1>7, <1>8 DEF BelowOne, CalculateHealthFactor, Bps

\* No other step takes collateral from a position that keeps a debt, or lends.
LEMMA OthersUseSafely ==
  ASSUME LendingTypeOK,
         \/ \E v \in Users, amount \in Amounts : Supply(v, amount) \/ Repay(v, amount)
         \/ \E v \in Users : Liquidate(v)
         \/ \E r \in RiskSettings : SetRiskParams(r)
         \/ \E on \in BOOLEAN : SetPaused(on)
         \/ \E p \in Prices : SetPrice(p)
         \/ \E amount \in Amounts : Fund(amount)
         \/ Tick,
         NEW u \in Users, Uses(u)
  PROVE  ~BelowOne(positions'[u].collateral, positions'[u].debtAccrued)
<1>1. heldDebt \in Nat /\ \A w \in Users : positions[w].collateral \in Nat
  BY DEF LendingTypeOK, UserPosition
<1>2. ASSUME NEW v \in Users, NEW amount \in Amounts, Supply(v, amount) PROVE FALSE
  <2>1. amount \in Nat /\ heldDebt' = heldDebt
    BY <1>2, LendingAssumption DEF Supply
  <2>2. /\ positions'[v].collateral = positions[v].collateral + amount
        /\ \A w \in Users \ {v} : positions'[w] = positions[w]
    BY <1>2, MoveLeaves DEF Supply
  <2>3. QED
    BY <1>1, <2>1, <2>2 DEF Uses
<1>3. ASSUME NEW v \in Users, NEW amount \in Amounts, Repay(v, amount) PROVE FALSE
  <2> DEFINE repayAmount == IF amount > CurrentDebt(v) THEN CurrentDebt(v) ELSE amount
  <2>1. repayAmount \in Nat
    BY LendingAssumption, InterestType
  <2>2. /\ heldDebt' = heldDebt + repayAmount
        /\ Move(v, positions[v].collateral, CurrentDebt(v) - repayAmount,
                CurrentDebt(v) - repayAmount, totalDebt + Interest(v) - repayAmount)
    BY <1>3 DEF Repay
  <2> HIDE DEF repayAmount
  <2>3. /\ positions'[v].collateral = positions[v].collateral
        /\ \A w \in Users \ {v} : positions'[w] = positions[w]
    BY <2>2, MoveLeaves
  <2>4. QED
    BY <1>1, <2>1, <2>2, <2>3 DEF Uses
<1>4. ASSUME NEW v \in Users, Liquidate(v)
      PROVE  ~BelowOne(positions'[u].collateral, positions'[u].debtAccrued)
  <2>1. CurrentDebt(v) \in Nat /\ heldDebt' = heldDebt + CurrentDebt(v)
    BY <1>4, InterestType DEF Liquidate
  <2>2. /\ positions'[v].debtAccrued = 0
        /\ \A w \in Users \ {v} : positions'[w] = positions[w]
    BY <1>4, MoveLeaves DEF Liquidate
  <2>3. u = v
    BY <1>1, <2>1, <2>2 DEF Uses
  <2>4. QED
    BY <2>2, <2>3 DEF BelowOne
<1>5. ASSUME positions' = positions PROVE FALSE
  BY <1>1, <1>5 DEF Uses
<1>6. QED
  BY <1>2, <1>3, <1>4, <1>5 DEF SetRiskParams, SetPaused, SetPrice, Fund, Tick, tokenVars

\* No withdrawal or loan of BaseLendingEngine leaves a position that is worth
\* anything open to liquidation, at any price and for all parameters that
\* setRiskParams accepts: no rounding of the four divisions on the way is in
\* the caller's favour by enough.
THEOREM LendingUsedSafely == LendingSpec => UsedSafely
<1> DEFINE Safe == \A u \in Users : Uses(u) /\ Value(positions'[u].collateral) > 0
                       => ~BelowOne(positions'[u].collateral, positions'[u].debtAccrued)
<1>1. LendingTypeOK /\ [LendingNext]_lendingVars => [Safe]_lendingVars
  <2>1. SUFFICES ASSUME LendingTypeOK, LendingNext, NEW u \in Users, Uses(u),
                        Value(positions'[u].collateral) > 0
                 PROVE  ~BelowOne(positions'[u].collateral, positions'[u].debtAccrued)
    OBVIOUS
  <2>2. QED
    BY <2>1, WithdrawUsesSafely, BorrowUsesSafely, OthersUseSafely DEF LendingNext
<1>2. LendingSpec => []LendingTypeOK
  BY LendingTypeCorrect
<1>3. QED
  BY <1>1, <1>2, PTL DEF LendingSpec, UsedSafely
=============================================================================
