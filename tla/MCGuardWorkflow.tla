--------------------------- MODULE MCGuardWorkflow ---------------------------
EXTENDS GuardWorkflow, TLC

\* 1: a market lending WETH and 2: a hedge, lending USDC, on the chain of the
\* workflow; 3: a WETH market on the other chain.
MCCollateral == <<"weth", "usdc", "weth">>
MCDebt == <<"usdc", "weth", "usdc">>
MCMargin == <<11000, 10500, 11000>>
PositionOf(collateral, debt) == [collateral |-> collateral, debt |-> debt]
MCUserPositions ==
    <<{PositionOf(20, 110), PositionOf(8, 100)},
      {PositionOf(300, 5)},
      {PositionOf(14, 100)}>>
MCPriceVectors == {[weth |-> 1000, usdc |-> 100], [weth |-> 920, usdc |-> 100]}
RequestOf(id, target, source, amount, pending, early) ==
    [id |-> id, target |-> target, source |-> source, amount |-> amount, pending |-> pending,
     early |-> early]
MCRequests ==
    {RequestOf("x", 3, 1, 4, "none", 12000), RequestOf("none", 0, 0, 0, "x", 11250)}
\* These prices are as fine as the theorem on reaching the target asks.
ASSUME MCPricesFine == FinePrices

MCSymmetry == Permutations(Workflows)
\* No action reads what was reported and no property of the run is about it.
MCView == <<positions, prices, minute, runs, message, kept, workflows, moves>>
=============================================================================
