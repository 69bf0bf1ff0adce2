---------------------------- MODULE LendingEngine ----------------------------
(***************************************************************************)
(* The lending engine behind the demonstration markets                     *)
(* (contracts/src/mocks/BaseLendingEngine.sol): positions of collateral    *)
(* and debt, interest that accrues when a position is touched, running     *)
(* totals, and liquidation at the oracle's price.                          *)
(*                                                                         *)
(* A call is one transaction, so one action; one that reverts changes      *)
(* nothing.  A debt token is worth one dollar, the unit of values here.    *)
(* Callers hold and approve what a call pulls.  Who calls matters only for *)
(* withdrawals: the position's owner or an authorised operator, with the   *)
(* same checks and effect, so that the operators are left out.             *)
(***************************************************************************)
EXTENDS Totals, LendingMath

CONSTANTS
    Users,
    Amounts,      \* amounts of tokens that calls name
    Prices,       \* the oracle's prices of CollateralUnit units of collateral
    CollateralUnit,
    Year,         \* ticks of the clock in SECONDS_PER_YEAR
    RiskSettings, \* parameters the owner may set
    Liquidity,    \* debt tokens the engine is deployed with
    \* Bounds of the model.
    MaxTime,
    MaxCollateral,  \* total collateral that supplies lead to
    MaxFunded,      \* debt tokens put in
    MaxChanges      \* of prices, parameters and the pause, together

\* setRiskParams
ValidRisk(r) ==
    /\ r.maxLtvBps < r.liquidationThresholdBps
    /\ r.liquidationThresholdBps <= Bps
    /\ r.liquidationBonusBps <= 1000

RiskParams == [maxLtvBps : Nat, liquidationThresholdBps : Nat, liquidationBonusBps : Nat,
               borrowAprBps : Nat]

\* MIN_PRICE and the requirement of setPrice keep prices positive.
ASSUME LendingAssumption ==
    /\ IsFiniteSet(Users)
    /\ Amounts \subseteq Nat \ {0}
    /\ Prices \subseteq Nat \ {0}
    /\ CollateralUnit \in Nat \ {0}
    /\ Year \in Nat \ {0}
    /\ RiskSettings \subseteq RiskParams
    /\ \A r \in RiskSettings : ValidRisk(r)
    /\ Liquidity \in Nat
    /\ {MaxTime, MaxCollateral, MaxFunded, MaxChanges} \subseteq Nat

VARIABLES
    positions,
    totalCollateral,
    totalDebt,
    riskParams,
    paused,
    price,           \* the oracle's
    now,             \* block.timestamp
    heldCollateral,  \* balanceOf(engine) of the collateral and of the debt token
    heldDebt,
    \* What the code does not keep.
    funded,          \* debt tokens put in
    interest,        \* interest accrued by all positions
    changes

lendingVars == <<positions, totalCollateral, totalDebt, riskParams, paused, price, now,
                 heldCollateral, heldDebt, funded, interest, changes>>

settingVars == <<riskParams, paused, price, now, changes>>

-----------------------------------------------------------------------------
UserPosition == [collateral : Nat, debt : Nat, debtAccrued : Nat, lastUpdateTime : Nat]

LendingInit ==
    /\ positions = [u \in Users |-> [collateral |-> 0, debt |-> 0, debtAccrued |-> 0,
                                     lastUpdateTime |-> 0]]
    /\ totalCollateral = 0
    /\ totalDebt = 0
    /\ riskParams \in RiskSettings
    /\ paused = FALSE
    /\ price \in Prices
    /\ now = 0
    /\ heldCollateral = 0
    /\ heldDebt = Liquidity
    /\ funded = Liquidity
    /\ interest = 0
    /\ changes = 0

-----------------------------------------------------------------------------
\* The interest that _accrueInterest adds; a position without principal
\* accrues none.
Interest(u) ==
    IF positions[u].debt = 0 \/ positions[u].lastUpdateTime = now THEN 0
    ELSE CalculateInterest(positions[u].debtAccrued, riskParams.borrowAprBps,
                           now - positions[u].lastUpdateTime, Year)

\* _calculateCurrentDebt, and the debt once interest is accrued.
CurrentDebt(u) == positions[u].debtAccrued + Interest(u)

Value(collateral) == CollateralValue(collateral, price, CollateralUnit)

\* _calculateHealthFactor of a position is below one.
BelowOne(collateral, debt) ==
    /\ debt > 0
    /\ CalculateHealthFactor(Value(collateral), debt, riskParams.liquidationThresholdBps) < Bps

CanLiquidate(u) == BelowOne(positions[u].collateral, CurrentDebt(u))

\* The effect of a call on a position and on the totals: it accrues the
\* interest and then moves to the collateral, principal and debt given.
Move(u, collateral, debt, debtAccrued, newTotalDebt) ==
    /\ positions' = [positions EXCEPT ![u] =
                        [collateral |-> collateral, debt |-> debt, debtAccrued |-> debtAccrued,
                         lastUpdateTime |-> now]]
    /\ totalDebt' = newTotalDebt
    /\ interest' = interest + Interest(u)
    /\ UNCHANGED <<settingVars, funded>>

\* The principal after a call that changes only collateral.
Kept(u) == positions[u].debt

-----------------------------------------------------------------------------
\* supply, by anybody for u.
Supply(u, amount) ==
    /\ ~paused
    /\ totalCollateral + amount <= MaxCollateral
    /\ Move(u, positions[u].collateral + amount, Kept(u), CurrentDebt(u), totalDebt + Interest(u))
    /\ totalCollateral' = totalCollateral + amount
    /\ heldCollateral' = heldCollateral + amount
    /\ UNCHANGED heldDebt

\* Fault: the check is of the debt as it was before the interest accrued.
KeepsMaxLtvStale(u, collateral) ==
    positions[u].debtAccrued > 0 =>
        CalculateLTV(positions[u].debtAccrued, Value(collateral)) <= riskParams.maxLtvBps

\* The check of withdraw and withdrawOnBehalfOf.
KeepsMaxLtv(u, collateral) ==
    CurrentDebt(u) > 0 =>
        CalculateLTV(CurrentDebt(u), Value(collateral)) <= riskParams.maxLtvBps

\* withdraw and withdrawOnBehalfOf.
Withdraw(u, amount) ==
    /\ ~paused
    /\ amount <= positions[u].collateral
    /\ KeepsMaxLtv(u, positions[u].collateral - amount)
    /\ amount <= heldCollateral
    /\ Move(u, positions[u].collateral - amount, Kept(u), CurrentDebt(u), totalDebt + Interest(u))
    /\ totalCollateral' = totalCollateral - amount
    /\ heldCollateral' = heldCollateral - amount
    /\ UNCHANGED heldDebt

\* borrow: the caller gets the tokens and u the debt.
Borrow(u, amount) ==
    LET newDebt == CurrentDebt(u) + amount
    IN  /\ ~paused
        /\ newDebt <= CalculateMaxBorrow(Value(positions[u].collateral), riskParams.maxLtvBps)
        /\ amount <= heldDebt
        /\ Move(u, positions[u].collateral, newDebt, newDebt, totalDebt + Interest(u) + amount)
        /\ heldDebt' = heldDebt - amount
        /\ UNCHANGED <<totalCollateral, heldCollateral>>

\* Fault: the repayment is not capped at the debt.
RepayUncapped(u, amount) ==
    LET left == CurrentDebt(u) - amount
    IN  /\ ~paused
        /\ CurrentDebt(u) > 0
        /\ Move(u, positions[u].collateral, left, left, totalDebt + Interest(u) - amount)
        /\ heldDebt' = heldDebt + amount
        /\ UNCHANGED <<totalCollateral, heldCollateral>>

\* Fault: the principal keeps its value, as it does when interest accrues.
RepayKeepsPrincipal(u, amount) ==
    LET repayAmount == IF amount > CurrentDebt(u) THEN CurrentDebt(u) ELSE amount
    IN  /\ ~paused
        /\ CurrentDebt(u) > 0
        /\ Move(u, positions[u].collateral, Kept(u), CurrentDebt(u) - repayAmount,
                totalDebt + Interest(u) - repayAmount)
        /\ heldDebt' = heldDebt + repayAmount
        /\ UNCHANGED <<totalCollateral, heldCollateral>>

\* repay, by anybody for u, of no more than the debt.
Repay(u, amount) ==
    LET repayAmount == IF amount > CurrentDebt(u) THEN CurrentDebt(u) ELSE amount
        left == CurrentDebt(u) - repayAmount
    IN  /\ ~paused
        /\ CurrentDebt(u) > 0
        /\ Move(u, positions[u].collateral, left, left, totalDebt + Interest(u) - repayAmount)
        /\ heldDebt' = heldDebt + repayAmount
        /\ UNCHANGED <<totalCollateral, heldCollateral>>

\* What liquidate takes for the whole debt and a bonus, if there is as much.
Seized(u) ==
    LET value == CurrentDebt(u) + LiquidationBonus(CurrentDebt(u), riskParams.liquidationBonusBps)
        wanted == UsdToTokenAmount(value, price, CollateralUnit)
    IN  IF wanted > positions[u].collateral THEN positions[u].collateral ELSE wanted

\* liquidate, by anybody but u.
Liquidate(u) ==
    /\ ~paused
    /\ CanLiquidate(u)
    /\ Seized(u) <= heldCollateral
    /\ Move(u, positions[u].collateral - Seized(u), 0, 0, totalDebt - positions[u].debtAccrued)
    /\ totalCollateral' = totalCollateral - Seized(u)
    /\ heldCollateral' = heldCollateral - Seized(u)
    /\ heldDebt' = heldDebt + CurrentDebt(u)

-----------------------------------------------------------------------------
\* The owner, the oracle, those who fund the engine, and the clock.
tokenVars == <<positions, totalCollateral, totalDebt, heldCollateral, heldDebt, funded, interest>>

SetRiskParams(r) ==
    /\ changes < MaxChanges /\ changes' = changes + 1
    /\ r # riskParams /\ riskParams' = r
    /\ UNCHANGED <<tokenVars, paused, price, now>>

SetPaused(on) ==
    /\ changes < MaxChanges /\ changes' = changes + 1
    /\ on # paused /\ paused' = on
    /\ UNCHANGED <<tokenVars, riskParams, price, now>>

\* setPrice of the oracle, or setOracle.
SetPrice(p) ==
    /\ changes < MaxChanges /\ changes' = changes + 1
    /\ p # price /\ price' = p
    /\ UNCHANGED <<tokenVars, riskParams, paused, now>>

\* A transfer of debt tokens to the engine.
Fund(amount) ==
    /\ funded + amount <= MaxFunded
    /\ heldDebt' = heldDebt + amount
    /\ funded' = funded + amount
    /\ UNCHANGED <<positions, totalCollateral, totalDebt, heldCollateral, interest, settingVars>>

Tick ==
    /\ now < MaxTime
    /\ now' = now + 1
    /\ UNCHANGED <<tokenVars, riskParams, paused, price, changes>>

LendingNext ==
    \/ \E u \in Users, amount \in Amounts :
           Supply(u, amount) \/ Withdraw(u, amount) \/ Borrow(u, amount) \/ Repay(u, amount)
    \/ \E u \in Users : Liquidate(u)
    \/ \E r \in RiskSettings : SetRiskParams(r)
    \/ \E on \in BOOLEAN : SetPaused(on)
    \/ \E p \in Prices : SetPrice(p)
    \/ \E amount \in Amounts : Fund(amount)
    \/ Tick

LendingSpec == LendingInit /\ [][LendingNext]_lendingVars

-----------------------------------------------------------------------------
(* The types; among others, no repayment, seizure or total goes below zero. *)
LendingTypeOK ==
    /\ positions \in [Users -> UserPosition]
    /\ {totalCollateral, totalDebt, heldCollateral, heldDebt, funded, interest, now, changes}
           \subseteq Nat
    /\ \A u \in Users : positions[u].lastUpdateTime <= now
    /\ riskParams \in RiskSettings
    /\ paused \in BOOLEAN
    /\ price \in Prices

CollateralOf == [u \in Users |-> positions[u].collateral]
DebtOf == [u \in Users |-> positions[u].debtAccrued]

(* The running total of the collateral is the sum of the positions, and    *)
(* the engine holds it.                                                    *)
CollateralCounted ==
    /\ totalCollateral = Total(Users, CollateralOf)
    /\ heldCollateral = totalCollateral

(* The running total of the debt is the sum of the positions as they were  *)
(* last accrued, each at a time of its own.                                *)
DebtsCounted == totalDebt = Total(Users, DebtOf)

(* A debt token that was put in or earned as interest is held or owed.     *)
DebtTokensCounted == heldDebt + totalDebt = funded + interest

(* A position has principal as long as it has debt: _accrueInterest and    *)
(* _calculateCurrentDebt skip a position without principal, so that a debt *)
(* whose principal was cleared would never grow.                           *)
PrincipalMarksDebt ==
    \A u \in Users : positions[u].debt = 0 <=> positions[u].debtAccrued = 0

(* The engine's books match after every order of calls and accruals.       *)
BooksMatch == CollateralCounted /\ DebtsCounted /\ DebtTokensCounted /\ PrincipalMarksDebt

\* A step in which u loses collateral or gets debt by a call of its own.
Uses(u) ==
    \/ positions'[u].collateral < positions[u].collateral
    \/ positions'[u] # positions[u] /\ heldDebt' < heldDebt

(* A position that is worth anything after a withdrawal or a loan cannot   *)
(* be liquidated at once, whatever interest was due, whatever the owner    *)
(* set the parameters to, and however the four divisions round.            *)
UsedSafely ==
    [][\A u \in Users : Uses(u) /\ Value(positions'[u].collateral) > 0
           => ~BelowOne(positions'[u].collateral, positions'[u].debtAccrued)]_lendingVars

(* What the design says of every withdrawal: withdraw reverts when safety  *)
(* constraints are violated.                                               *)
WithdrawReverts ==
    [][\A u \in Users : positions'[u].collateral < positions[u].collateral
           => ~BelowOne(positions'[u].collateral, positions'[u].debtAccrued)]_lendingVars
=============================================================================
