-------------------------- MODULE MCUsagePipeline --------------------------
(* A small instance of UsagePipeline for TLC. *)
EXTENDS UsagePipeline

Calls(counts) ==
  [kind \in CallKinds |-> IF kind \in DOMAIN counts THEN counts[kind] ELSE 0]

\* Handlers race over a session and its record, with RAVs that come by
\* SubmitRAV; over worker slots; with metered usage, with RAVs that come on the
\* stream; two events race with the emitter's shutdown.
MCLoads ==
  {[calls |-> Calls([create |-> 1, rav |-> 2, mark |-> 2, runtime |-> 1]),
    events |-> 0, shutdowns |-> 0, unary |-> TRUE],
   [calls |-> Calls([create |-> 2, rav |-> 1, mark |-> 1]),
    events |-> 0, shutdowns |-> 0, unary |-> TRUE],
   [calls |-> Calls([create |-> 1, reserve |-> 2, delete |-> 1, decrement |-> 1]),
    events |-> 0, shutdowns |-> 0, unary |-> FALSE],
   [calls |-> Calls([create |-> 1, rav |-> 2, get |-> 1]),
    events |-> 1, shutdowns |-> 0, unary |-> FALSE],
   [calls |-> Calls([create |-> 1]),
    events |-> 2, shutdowns |-> 1, unary |-> FALSE]}
=============================================================================
