---------------------------- MODULE EventPerpMath ----------------------------
(***************************************************************************)
(* The fixed-point arithmetic of src/src/libraries/EventPerpMath.sol.      *)
(* Prices are integers between 0 and PRECISION (1e18 on chain); sizes are  *)
(* collateral units scaled the same way.                                   *)
(***************************************************************************)
EXTENDS Integers

CONSTANT PRECISION      \* the price of a certain event

ASSUME PrecisionAssumption == PRECISION \in Nat \ {0}

\* Solidity's signed division, which truncates towards zero.
TruncDiv(x, d) == IF x >= 0 THEN x \div d ELSE -((-x) \div d)

\* Profit (loss when negative) of closing `size` at `exit`.
Pnl(size, entry, exit, isLong) ==
  TruncDiv(size * (IF isLong THEN exit - entry ELSE entry - exit), PRECISION)
=============================================================================
