---------------------------- MODULE WorkerStore ----------------------------
(***************************************************************************)
(* Worker rows and per-payer worker counters of the provider repository,   *)
(* and the repository's writes to them as functions of the stored values.  *)
(* A payer without a counter entry reads as zero in every operation, so    *)
(* the entry and a zero counter are the same here.  The session counter of *)
(* an entry is left out: no caller changes it.                             *)
(***************************************************************************)
EXTENDS Naturals, FiniteSets

CONSTANT NoWorker   \* no row under the key

Worker(session, payer) == [session |-> session, payer |-> payer]

\* WorkerCreateAndReserveQuota and QuotaReserve: whether n more workers fit.
Exceeds(quota, payer, n, maxWorkers) == quota[payer] + n > maxWorkers

\* QuotaReserve, QuotaIncrement
Increment(quota, payer, n) == [quota EXCEPT ![payer] = @ + n]

\* Mutant: the counter goes below zero.
DecrementUnclamped(quota, payer, n) == [quota EXCEPT ![payer] = @ - n]

\* QuotaDecrement: clamped at zero.
Decrement(quota, payer, n) ==
  [quota EXCEPT ![payer] = IF @ >= n THEN @ - n ELSE 0]

\* WorkerCountBySession
CountBySession(workers, session) ==
  Cardinality({k \in DOMAIN workers :
                 workers[k] # NoWorker /\ workers[k].session = session})
=============================================================================
