----------------------------- MODULE Repository -----------------------------
(***************************************************************************)
(* What the provider's GlobalRepository promises to the gateway and to the *)
(* operator API: every write is one atomic step on the stored session, its *)
(* usage log, its collection record, the worker rows and the worker        *)
(* counters.  A write that is refused or does not find its row changes     *)
(* nothing.  Storage shows that both backends keep this promise.           *)
(***************************************************************************)
EXTENDS SessionStore, CollectionLifecycle, WorkerStore

CONSTANTS
  Sessions,    \* session ids
  NoSession,   \* no session is stored under the id
  Keys,        \* worker keys
  Payers,      \* payers
  MaxWorkers,  \* the limit every reservation is checked against
  Values,      \* RAV values
  Costs        \* costs of usage events

VARIABLES
  sessions,     \* per id: the stored session
  usage,        \* per id: the cost of its usage log
  collections,  \* per id: its collection record
  workers,      \* per key: its worker row
  quota         \* per payer: its worker counter

vars == <<sessions, usage, collections, workers, quota>>

Init ==
  /\ sessions = [s \in Sessions |-> NoSession]
  /\ usage = [s \in Sessions |-> 0]
  /\ collections = [s \in Sessions |-> NoCollection]
  /\ workers = [k \in Keys |-> NoWorker]
  /\ quota = [p \in Payers |-> 0]

\* The record the accepted RAV v leaves, unless it conflicts.
Collectible(s, v) ==
  /\ ~CollectionConflict(collections[s], v)
  /\ collections' =
       [collections EXCEPT ![s] = NextCollectible(collections[s], v)]

\* SessionCreate, with or without a RAV
SessionCreate(s) ==
  /\ sessions[s] = NoSession
  /\ \/ /\ sessions' = [sessions EXCEPT ![s] = NewSession(0, FALSE)]
        /\ UNCHANGED collections
     \/ \E v \in Values :
          /\ sessions' = [sessions EXCEPT ![s] = NewSession(v, TRUE)]
          /\ Collectible(s, v)
  /\ UNCHANGED <<usage, workers, quota>>

SessionApplyUsage(s) ==
  /\ sessions[s] # NoSession
  /\ \E cost \in Costs :
       /\ sessions' = [sessions EXCEPT ![s] = AddUsage(sessions[s], cost)]
       /\ usage' = [usage EXCEPT ![s] = @ + cost]
  /\ UNCHANGED <<collections, workers, quota>>

SessionUpdateRuntimeState(s) ==
  /\ sessions[s] # NoSession
  /\ \E status \in SessionStatuses :
       sessions' = [sessions EXCEPT ![s] = WithRuntimeState(sessions[s], status)]
  /\ UNCHANGED <<usage, collections, workers, quota>>

SessionUpdateRAVAndBaseline(s) ==
  /\ sessions[s] # NoSession
  /\ \E v \in Values, base \in 0 .. sessions[s].total :
       /\ sessions' =
            [sessions EXCEPT ![s] = WithRAVAndBaseline(sessions[s], v, base)]
       /\ Collectible(s, v)
  /\ UNCHANGED <<usage, workers, quota>>

WorkerCreateAndReserveQuota(k) ==
  /\ workers[k] = NoWorker
  /\ \E s \in Sessions, p \in Payers :
       /\ ~Exceeds(quota, p, 1, MaxWorkers)
       /\ workers' = [workers EXCEPT ![k] = Worker(s, p)]
       /\ quota' = Increment(quota, p, 1)
  /\ UNCHANGED <<sessions, usage, collections>>

WorkerDelete(k) ==
  /\ workers' = [workers EXCEPT ![k] = NoWorker]
  /\ UNCHANGED <<sessions, usage, collections, quota>>

QuotaDecrement(p) ==
  /\ quota' = Decrement(quota, p, 1)
  /\ UNCHANGED <<sessions, usage, collections, workers>>

\* CollectionMarkPending, CollectionMarkCollected, CollectionMarkFailedRetryable
CollectionMark(s) ==
  /\ LET rec == collections[s] IN
     \/ /\ CanMarkPending(rec, rec.value)
        /\ collections' = [collections EXCEPT ![s] = MarkedPending(rec)]
     \/ /\ CanMarkCollected(rec, rec.value)
        /\ collections' = [collections EXCEPT ![s] = MarkedCollected(rec)]
     \/ /\ CanMarkFailedRetryable(rec, rec.value)
        /\ collections' = [collections EXCEPT ![s] = MarkedFailedRetryable(rec)]
  /\ UNCHANGED <<sessions, usage, workers, quota>>

Next ==
  \/ \E s \in Sessions :
       \/ SessionCreate(s) \/ SessionApplyUsage(s)
       \/ SessionUpdateRuntimeState(s) \/ SessionUpdateRAVAndBaseline(s)
       \/ CollectionMark(s)
  \/ \E k \in Keys : WorkerCreateAndReserveQuota(k) \/ WorkerDelete(k)
  \/ \E p \in Payers : QuotaDecrement(p)

Spec == Init /\ [][Next]_vars
=============================================================================
