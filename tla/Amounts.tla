------------------------------ MODULE Amounts ------------------------------
(***************************************************************************)
(* Token amounts (grt.go): an unsigned word of base units, read from a     *)
(* decimal text.  A text is [neg, int, frac], frac a sequence of digits.   *)
(* Decimals stands for the 18 decimals of the token and Word for 2^256.    *)
(***************************************************************************)
EXTENDS Integers, Sequences, SequencesExt

CONSTANTS Decimals, Word

ASSUME AmountsAssumption == Decimals \in Nat /\ Word \in Nat /\ Word > 10^Decimals

\* The digits that count: cut to the token's decimals, or padded with zeros.
FracDigits(frac) ==
  [i \in 1 .. Decimals |-> IF i <= Len(frac) THEN frac[i] ELSE 0]

DigitsValue(digits) == FoldLeft(LAMBDA v, d : 10 * v + d, 0, digits)

BaseUnits(text) == text.int * 10^Decimals + DigitsValue(FracDigits(text.frac))

\* uint256.FromBig reports an overflow only for magnitudes beyond the word...
GRTOverflows(text) == BaseUnits(text) >= Word

\* ... and turns a negative number into its two's complement.
ParseGRT(text) ==
  (IF text.neg THEN - BaseUnits(text) ELSE BaseUnits(text)) % Word

\* Sub is zero where the difference would be negative.
GRTSub(a, b) == IF a < b THEN 0 ELSE a - b
=============================================================================
