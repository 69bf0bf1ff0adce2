----------------------------- MODULE LendingMath -----------------------------
(***************************************************************************)
(* The arithmetic that the lending engine                                  *)
(* (contracts/src/libs/LendingMath.sol) and the workflows share.  Every    *)
(* division rounds down, as Solidity's and BigInt's do.  A health factor,  *)
(* which the code keeps with 18 decimals, is in basis points here: both    *)
(* are at least one for the same values, because both round down.          *)
(***************************************************************************)
EXTENDS Integers

Bps == 10000

\* unit is how many of the token's smallest units a price is for.
CollateralValue(amount, price, unit) == (amount * price) \div unit

CalculateInterest(principal, aprBps, elapsed, year) ==
    (principal * aprBps * elapsed) \div (Bps * year)

CalculateMaxBorrow(collateralValue, maxLtvBps) == (collateralValue * maxLtvBps) \div Bps

CalculateLTV(debtValue, collateralValue) ==
    IF collateralValue = 0 THEN 0 ELSE (debtValue * Bps) \div collateralValue

\* Of a position with debt; one without has the largest health factor.
CalculateHealthFactor(collateralValue, debtValue, thresholdBps) ==
    (collateralValue * thresholdBps) \div debtValue

LiquidationBonus(debtValue, bonusBps) == (debtValue * bonusBps) \div Bps

UsdToTokenAmount(value, price, unit) == (value * unit) \div price
=============================================================================
