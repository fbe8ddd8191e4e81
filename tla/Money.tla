------------------------------- MODULE Money -------------------------------
(***************************************************************************)
(* Amounts are whole tyiyn and percentages whole hundredths of a percent,  *)
(* so the one operation that can lose something is a division              *)
(* (common/money.ts).                                                      *)
(***************************************************************************)
EXTENDS Naturals

\* Mutant: the remainder always counts as a whole tyiyn, also when there is none.
RoundUp(a, b, divisor) == (a * b) \div divisor + 1

\* round(a * b / divisor) with halves going up, in whole numbers only.
MulDivRoundHalfUp(a, b, divisor) == (a * b * 2 + divisor) \div (divisor * 2)

PercentOf(amount, percentCenti) == MulDivRoundHalfUp(amount, percentCenti, 10000)
=============================================================================
