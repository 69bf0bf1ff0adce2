-------------------------- MODULE MCRescueExecutor --------------------------
(***************************************************************************)
(* Two executions for the same user: a top-up whose same-chain source is   *)
(* followed by a cross-chain one, and a cross-chain repay.                 *)
(***************************************************************************)
EXTENDS RescueExecutor, TLC

CONSTANTS e1, e2, alice, base

Step(index, collateral, debt, cross) ==
    [stepIndex |-> index, hasAdapters |-> TRUE, sameAsset |-> TRUE,
     collateralAmount |-> collateral, debtAmount |-> debt,
     isCrossChain |-> cross, targetChain |-> base]

Plan(e, mode, steps, deadline) ==
    [execId |-> e, user |-> alice, mode |-> mode, steps |-> steps,
     deadline |-> deadline]

TopUp == Plan(e1, "TOP_UP", <<Step(0, 2, 0, FALSE), Step(1, 2, 0, TRUE)>>, 1)
Repay == Plan(e2, "REPAY", <<Step(0, 1, 1, TRUE)>>, 0)

MCPlans == {TopUp, Repay}
\* A rescue with legs of the same execution before and after it.
MCLegPlans == {Plan(e1, "TOP_UP", <<Step(0, 2, 0, FALSE), Step(1, 1, 0, TRUE)>>, 0)}
MCEscrowIds == {e1, e2} \X {0, 1} \X (0..MaxTime)
=============================================================================
