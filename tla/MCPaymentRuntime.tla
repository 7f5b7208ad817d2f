-------------------------- MODULE MCPaymentRuntime --------------------------
(* Small instances of PaymentRuntime for TLC. *)
EXTENDS PaymentRuntime, TLC

NoMessages == {}

\* An underpaying answer, one with an invalid signature and both
\* acknowledgements of a need-more-funds response.
SomeStrays ==
  {[kind |-> "rav", usage |-> 1, value |-> 0],
   [kind |-> "invalid", usage |-> 1, value |-> 1],
   [kind |-> "deposit", usage |-> 0, value |-> 0],
   [kind |-> "nodeposit", usage |-> 0, value |-> 0]}

HeapSymmetry == Permutations(States) \cup Permutations(Streams)
=============================================================================
