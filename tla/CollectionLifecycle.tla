------------------------- MODULE CollectionLifecycle -------------------------
(***************************************************************************)
(* The provider-side settlement record of one accepted RAV.  The provider  *)
(* repository keeps one record per collection key; every operation on it   *)
(* runs under collectionMu (in memory) or in one transaction (Postgres),   *)
(* so each is one atomic function of the record, defined here and used by  *)
(* the modules that hold records in their state.                           *)
(*                                                                         *)
(* A record keeps what the properties tell apart: its lifecycle state, the *)
(* aggregate value of the RAV it would settle and the attempt counter.     *)
(* Hashes, error texts and timestamps are left out.                        *)
(***************************************************************************)
EXTENDS Naturals

CollectionStates ==
  {"none", "collectible", "collect_pending", "collected",
   "collect_failed_retryable"}

CollectionRecord ==
  [state : CollectionStates, value : Nat, attempts : Nat]

\* No record is stored under the key yet.
NoCollection == [state |-> "none", value |-> 0, attempts |-> 0]

NewCollectionRecord(v) ==
  [state |-> "collectible", value |-> v, attempts |-> 0]

\* Mutant: a record whose settlement is in progress may be replaced.
CollectionConflictCollectedOnly(rec, v) ==
  rec.state = "collected" /\ v < rec.value

\* An accepted RAV of value v may not replace the record: another value is
\* being collected on chain, or a larger one has been collected already.
CollectionConflict(rec, v) ==
  \/ rec.state = "collect_pending" /\ rec.value # v
  \/ rec.state = "collected" /\ v < rec.value

\* The record after an accepted RAV of value v, where there is no conflict:
\* a record in settlement with the same value stays, any other is replaced
\* by a fresh collectible one (whose attempt counter restarts).
NextCollectible(rec, v) ==
  IF rec.state \in {"collect_pending", "collected"} /\ rec.value = v
  THEN rec
  ELSE NewCollectionRecord(v)

\* Lifecycle mutations carry the value the caller read: expectedValue.
ExpectedValueMatches(rec, expectedValue) ==
  rec.state # "none" /\ rec.value = expectedValue

CanMarkPending(rec, expectedValue) ==
  /\ ExpectedValueMatches(rec, expectedValue)
  /\ rec.state \in {"collectible", "collect_failed_retryable"}

MarkedPending(rec) ==
  [rec EXCEPT !.state = "collect_pending", !.attempts = rec.attempts + 1]

\* Mutant: the expected value is ignored.
CanMarkCollectedAnyValue(rec, expectedValue) ==
  rec.state = "collect_pending"

\* Mutant: the transition is allowed from the wrong state.
CanMarkCollectedFromRetryable(rec, expectedValue) ==
  /\ ExpectedValueMatches(rec, expectedValue)
  /\ rec.state = "collect_failed_retryable"

CanMarkCollected(rec, expectedValue) ==
  /\ ExpectedValueMatches(rec, expectedValue)
  /\ rec.state = "collect_pending"

MarkedCollected(rec) ==
  [rec EXCEPT !.state = "collected"]

CanMarkFailedRetryable(rec, expectedValue) ==
  /\ ExpectedValueMatches(rec, expectedValue)
  /\ rec.state = "collect_pending"

\* Mutant: a failure is recorded in a state nothing retries.
MarkedFailedFinal(rec) ==
  [rec EXCEPT !.state = "collect_failed"]

MarkedFailedRetryable(rec) ==
  [rec EXCEPT !.state = "collect_failed_retryable"]
=============================================================================
