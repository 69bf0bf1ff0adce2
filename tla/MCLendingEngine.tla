--------------------------- MODULE MCLendingEngine ---------------------------
EXTENDS LendingEngine, TLC

RiskOf(ltv, threshold, bonus, apr) ==
    [maxLtvBps |-> ltv, liquidationThresholdBps |-> threshold, liquidationBonusBps |-> bonus,
     borrowAprBps |-> apr]

\* The deployed limits, and others that are a basis point apart; rates at which
\* debts of a few tokens earn interest within a tick.
MCRiskSettings == {RiskOf(7500, 8000, 500, 5000), RiskOf(9999, 10000, 1000, 2500)}
MCSymmetry == Permutations(Users)
=============================================================================
