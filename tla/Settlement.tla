----------------------------- MODULE Settlement -----------------------------
(***************************************************************************)
(* Settlement of accepted RAVs: the collect daemon and the manual collect  *)
(* command (cmd/sds), which read and mark collection records through the   *)
(* operator API and send collect() transactions, while the gateway goes on *)
(* accepting RAVs.  Collectors are separate processes: between two of      *)
(* their calls the records may change, a response may be lost, and the     *)
(* daemon may crash.                                                       *)
(*                                                                         *)
(* Time is kept per record as one flag: aged[k] says that the record was   *)
(* last written longer ago than the wait that applies to its state (the    *)
(* retry backoff, or reclaim-pending-after).                               *)
(***************************************************************************)
EXTENDS CollectionLifecycle, FiniteSetsExt

CONSTANTS
  Keys,         \* collection keys
  Daemon,       \* the collect daemon
  Manuals,      \* manual collect commands
  None,         \* no record
  Values,       \* RAV values the gateway may accept
  MinValue,     \* min-collect-value-wei
  MaxAttempts,  \* max-attempts
  ListLimit,    \* collectDaemonListLimit: records one list call returns
  Reclaim,      \* whether reclaim-pending-after is set
  MaxAccepts,   \* bound on RAVs accepted
  MaxManual,    \* bound on attempts of a record started by hand
  MaxFailures,  \* bound on failed operator API and chain calls
  MaxCrashes    \* bound on crashes of collectors

Collectors == Manuals \cup {Daemon}

ASSUME SettlementAssumption ==
  /\ Daemon \notin Manuals
  /\ Values \subseteq Nat /\ MinValue \in Nat
  /\ MaxAttempts \in Nat
  /\ ListLimit \in Nat \ {0}
  /\ Reclaim \in BOOLEAN
  /\ MaxAccepts \in Nat /\ MaxManual \in Nat
  /\ MaxFailures \in Nat /\ MaxCrashes \in Nat

VARIABLES
  records,   \* per key: its collection record
  aged,      \* per key: the wait of the record's state has passed
  settled,   \* per key: value collected on chain
  mempool,   \* collect() transactions sent and not mined
  pc,        \* per collector: the next step
  cur,       \* per collector: the record it is collecting, as it was read
  todo,      \* the daemon's records of this sweep, as they were read
  accepts,   \* RAVs accepted
  failures,  \* failed calls
  crashes    \* collectors crashed

vars == <<records, aged, settled, mempool, pc, cur, todo, accepts, failures,
          crashes>>
counters == <<accepts, failures, crashes>>

Item == [key : Keys, value : Nat]
Tx == [key : Keys, value : Nat, by : Collectors]

ItemOf(k) == [key |-> k, value |-> records[k].value]

Init ==
  /\ records = [k \in Keys |-> NoCollection]
  /\ aged = [k \in Keys |-> FALSE]
  /\ settled = [k \in Keys |-> 0]
  /\ mempool = {}
  /\ pc = [c \in Collectors |-> "idle"]
  /\ cur = [c \in Collectors |-> None]
  /\ todo = {}
  /\ accepts = 0 /\ failures = 0 /\ crashes = 0

Goto(c, label) == pc' = [pc EXCEPT ![c] = label]

\* One more call fails.
Fail == failures < MaxFailures /\ failures' = failures + 1

\* A written record is young again.
Write(k, rec) ==
  /\ records' = [records EXCEPT ![k] = rec]
  /\ aged' = [aged EXCEPT ![k] = FALSE]

KeepRecords == UNCHANGED <<records, aged>>

Settle(tx) ==
  settled' = [settled EXCEPT ![tx.key] = IF tx.value > @ THEN tx.value ELSE @]

-----------------------------------------------------------------------------
(* The gateway accepts a RAV, and time passes.                              *)

AcceptRAV(k) ==
  /\ accepts < MaxAccepts
  /\ accepts' = accepts + 1
  /\ \E v \in Values :
       /\ ~CollectionConflict(records[k], v)
       /\ IF NextCollectible(records[k], v) = records[k]
          THEN KeepRecords
          ELSE Write(k, NextCollectible(records[k], v))
  /\ UNCHANGED <<settled, mempool, pc, cur, todo, failures, crashes>>

Age(k) ==
  /\ ~aged[k]
  /\ records[k].state \in {"collect_pending", "collect_failed_retryable"}
  /\ aged' = [aged EXCEPT ![k] = TRUE]
  /\ UNCHANGED <<records, settled, mempool, pc, cur, todo, counters>>

-----------------------------------------------------------------------------
(* The daemon's sweep: list what is eligible, collect each, then reclaim.   *)

\* Mutant: one attempt too many.
ShouldCollectOnceMore(k) ==
  /\ records[k].value >= MinValue
  /\ records[k].state = "collect_failed_retryable" =>
       records[k].attempts <= MaxAttempts /\ aged[k]

\* Mutant: the backoff holds back fresh records too.
ShouldCollectAged(k) ==
  records[k].value >= MinValue /\ aged[k]

\* shouldCollect
ShouldCollect(k) ==
  /\ records[k].value >= MinValue
  /\ records[k].state = "collect_failed_retryable" =>
       records[k].attempts < MaxAttempts /\ aged[k]

InState(state) == {k \in Keys : records[k].state = state}

\* What ListCollections may return: at most ListLimit of the records in a
\* state, the last written ones in Postgres, any of them in memory.
Pages(state) ==
  kSubset(Min({ListLimit, Cardinality(InState(state))}), InState(state))

\* The limit is applied before shouldCollect: a page may hold dust only.
Eligible(page) == {ItemOf(k) : k \in {j \in page : ShouldCollect(j)}}

\* listEligible, first call.
ListCollectible ==
  /\ pc[Daemon] = "idle"
  /\ \E page \in Pages("collectible") : todo' = Eligible(page)
  /\ Goto(Daemon, "list")
  /\ KeepRecords
  /\ UNCHANGED <<settled, mempool, cur, counters>>

\* listEligible, second call; sweep returns if nothing is eligible.
ListRetryable ==
  /\ pc[Daemon] = "list"
  /\ \E page \in Pages("collect_failed_retryable") :
       todo' = todo \cup Eligible(page)
  /\ Goto(Daemon, IF todo' = {} THEN "idle" ELSE "next")
  /\ KeepRecords
  /\ UNCHANGED <<settled, mempool, cur, counters>>

\* A list call fails: the sweep returns.
ListFail ==
  /\ pc[Daemon] \in {"list", "reclaim"}
  /\ Fail
  /\ todo' = {}
  /\ Goto(Daemon, "idle")
  /\ KeepRecords
  /\ UNCHANGED <<settled, mempool, cur, accepts, crashes>>

\* The loop of sweep: the next record, or the reclaim.
SweepNext ==
  /\ pc[Daemon] = "next"
  /\ \/ \E r \in todo :
          /\ todo' = todo \ {r}
          /\ cur' = [cur EXCEPT ![Daemon] = r]
          /\ Goto(Daemon, "mark")
     \/ /\ todo = {}
        /\ Goto(Daemon, IF Reclaim THEN "reclaim" ELSE "idle")
        /\ UNCHANGED <<todo, cur>>
  /\ KeepRecords
  /\ UNCHANGED <<settled, mempool, counters>>

\* reclaimStalePending: the pending records that are old enough...
ListPending ==
  /\ pc[Daemon] = "reclaim"
  /\ \E page \in Pages("collect_pending") :
       todo' = {ItemOf(k) : k \in {j \in page : aged[j]}}
  /\ Goto(Daemon, "reclaiming")
  /\ KeepRecords
  /\ UNCHANGED <<settled, mempool, cur, counters>>

\* ... are marked retryable one by one; a refused mark is only logged.
ReclaimNext ==
  /\ pc[Daemon] = "reclaiming"
  /\ \/ \E r \in todo :
          /\ todo' = todo \ {r}
          /\ IF CanMarkFailedRetryable(records[r.key], r.value)
             THEN Write(r.key, MarkedFailedRetryable(records[r.key]))
             ELSE KeepRecords
          /\ pc' = pc
     \/ /\ todo = {}
        /\ Goto(Daemon, "idle")
        /\ KeepRecords /\ todo' = todo
  /\ UNCHANGED <<settled, mempool, cur, counters>>

\* A reclaim's mark fails: it is only logged.
ReclaimFail ==
  /\ pc[Daemon] = "reclaiming"
  /\ Fail
  /\ \E r \in todo : todo' = todo \ {r}
  /\ KeepRecords
  /\ UNCHANGED <<settled, mempool, pc, cur, accepts, crashes>>

-----------------------------------------------------------------------------
(* collectOne, and the manual collect command, which fetches one record.    *)

AfterCollect(c) == IF c = Daemon THEN "next" ELSE "idle"

Finish(c) ==
  /\ Goto(c, AfterCollect(c))
  /\ cur' = [cur EXCEPT ![c] = None]

isProviderCollectableState(state) ==
  state \in {"collectible", "collect_failed_retryable"}

\* A record's key and value are those of the RAV it is stored with, and the
\* command has the keys and addresses of that RAV's provider.
validateProviderCollectRecord(rec) == isProviderCollectableState(rec.state)

\* The command reads the record it is told to collect.
ManualFetch(c) ==
  /\ pc[c] = "idle"
  /\ \E k \in Keys :
       /\ validateProviderCollectRecord(records[k])
       /\ records[k].attempts < MaxManual
       /\ cur' = [cur EXCEPT ![c] = ItemOf(k)]
  /\ Goto(c, "mark")
  /\ KeepRecords
  /\ UNCHANGED <<settled, mempool, todo, counters>>

\* MarkCollectionPending: refused, the record is skipped.
MarkPending(c) ==
  /\ pc[c] = "mark"
  /\ LET rec == records[cur[c].key] IN
     IF CanMarkPending(rec, cur[c].value)
     THEN Write(cur[c].key, MarkedPending(rec)) /\ Goto(c, "tx") /\ cur' = cur
     ELSE KeepRecords /\ Finish(c)
  /\ UNCHANGED <<settled, mempool, todo, counters>>

\* The call fails, before the mark is applied or after it (the response is
\* lost): either way the record is skipped.
MarkPendingLost(c) ==
  /\ pc[c] = "mark"
  /\ Fail
  /\ \/ /\ CanMarkPending(records[cur[c].key], cur[c].value)
        /\ Write(cur[c].key, MarkedPending(records[cur[c].key]))
     \/ KeepRecords
  /\ Finish(c)
  /\ UNCHANGED <<settled, mempool, todo, accepts, crashes>>

TxOf(c) == [key |-> cur[c].key, value |-> cur[c].value, by |-> c]

\* SendDynamicFeeTransaction: the transaction enters the mempool; a manual
\* command run with no-wait leaves the record pending.
TxSend(c) ==
  /\ pc[c] = "tx"
  /\ mempool' = mempool \cup {TxOf(c)}
  /\ \/ Goto(c, "wait") /\ cur' = cur
     \/ c \in Manuals /\ Finish(c)
  /\ KeepRecords
  /\ UNCHANGED <<settled, todo, counters>>

\* The receipt arrives.
TxReceipt(c) ==
  /\ pc[c] = "wait"
  /\ TxOf(c) \in mempool
  /\ mempool' = mempool \ {TxOf(c)}
  /\ Settle(TxOf(c))
  /\ Goto(c, "collected")
  /\ KeepRecords
  /\ UNCHANGED <<cur, todo, counters>>

\* Sending fails, though the node may have the transaction; or the transaction
\* reverts, or no receipt arrives in time and it may still be mined.
TxFail(c) ==
  /\ Fail
  /\ \/ pc[c] = "tx" /\ mempool' \in {mempool, mempool \cup {TxOf(c)}}
     \/ pc[c] = "wait" /\ mempool' \in {mempool, mempool \ {TxOf(c)}}
  /\ Goto(c, "failed")
  /\ KeepRecords
  /\ UNCHANGED <<settled, cur, todo, accepts, crashes>>

\* A transaction nobody waits for is mined late, or dropped.
TxMinedLate ==
  /\ \E tx \in mempool :
       /\ ~(pc[tx.by] = "wait" /\ cur[tx.by] = [key |-> tx.key, value |-> tx.value])
       /\ mempool' = mempool \ {tx}
       /\ Settle(tx) \/ settled' = settled
  /\ KeepRecords
  /\ UNCHANGED <<pc, cur, todo, counters>>

MarkCollected(c) ==
  /\ pc[c] = "collected"
  /\ IF CanMarkCollected(records[cur[c].key], cur[c].value)
     THEN Write(cur[c].key, MarkedCollected(records[cur[c].key]))
     ELSE KeepRecords
  /\ Finish(c)
  /\ UNCHANGED <<settled, mempool, todo, counters>>

MarkRetryable(c) ==
  /\ pc[c] = "failed"
  /\ IF CanMarkFailedRetryable(records[cur[c].key], cur[c].value)
     THEN Write(cur[c].key, MarkedFailedRetryable(records[cur[c].key]))
     ELSE KeepRecords
  /\ Finish(c)
  /\ UNCHANGED <<settled, mempool, todo, counters>>

\* The last mark fails: it is only logged.
MarkFail(c) ==
  /\ pc[c] \in {"collected", "failed"}
  /\ Fail
  /\ Finish(c)
  /\ KeepRecords
  /\ UNCHANGED <<settled, mempool, todo, accepts, crashes>>

\* A collector dies anywhere; the daemon is started again.
Crash(c) ==
  /\ crashes < MaxCrashes
  /\ pc[c] # "idle"
  /\ crashes' = crashes + 1
  /\ Goto(c, "idle")
  /\ cur' = [cur EXCEPT ![c] = None]
  /\ todo' = IF c = Daemon THEN {} ELSE todo
  /\ KeepRecords
  /\ UNCHANGED <<settled, mempool, accepts, failures>>

-----------------------------------------------------------------------------
CollectStep(c) ==
  \/ MarkPending(c) \/ MarkPendingLost(c) \/ TxSend(c) \/ TxReceipt(c)
  \/ TxFail(c) \/ MarkCollected(c) \/ MarkRetryable(c) \/ MarkFail(c)

SweepStep ==
  \/ ListCollectible \/ ListRetryable \/ ListFail \/ SweepNext \/ ListPending
  \/ ReclaimNext \/ ReclaimFail

Next ==
  \/ \E k \in Keys : AcceptRAV(k) \/ Age(k)
  \/ SweepStep
  \/ \E c \in Manuals : ManualFetch(c)
  \/ \E c \in Collectors : CollectStep(c) \/ Crash(c)
  \/ TxMinedLate

Spec == Init /\ [][Next]_vars

(* The daemon keeps sweeping every poll-interval and time passes.           *)
Fairness ==
  /\ WF_vars(SweepStep)
  /\ WF_vars(CollectStep(Daemon))
  /\ \A k \in Keys : WF_vars(Age(k))

FairSpec == Spec /\ Fairness

-----------------------------------------------------------------------------
(* Properties.                                                              *)

\* Every variable has its type.
TypeOK ==
  /\ records \in [Keys -> CollectionRecord]
  /\ aged \in [Keys -> BOOLEAN]
  /\ settled \in [Keys -> Nat]
  /\ mempool \subseteq Tx
  /\ pc \in [Collectors -> {"idle", "list", "next", "reclaim", "reclaiming",
                            "mark", "tx", "wait", "collected", "failed"}]
  /\ cur \in [Collectors -> Item \cup {None}]
  /\ todo \subseteq Item
  /\ accepts \in 0..MaxAccepts
  /\ failures \in 0..MaxFailures
  /\ crashes \in 0..MaxCrashes

\* A record the provider shows as collected has been paid on chain, for the
\* value it shows: neither a reclaim, nor a second collector, nor a newer RAV
\* accepted while a transaction was in flight can make the record lie.
CollectedIsSettled ==
  \A k \in Keys :
    records[k].state = "collected" => settled[k] >= records[k].value

\* The daemon looks at max-attempts only for retryable records: every RAV is
\* attempted once, also where the flag is 0.
AttemptLimit == IF MaxAttempts = 0 THEN 1 ELSE MaxAttempts

\* Where only the daemon collects, no RAV is attempted more often than
\* max-attempts (once, if that is 0), whatever fails, crashes or is reclaimed.
AttemptsBounded ==
  Manuals = {} => \A k \in Keys : records[k].attempts <= AttemptLimit

\* A record is collect_pending only while a collector is at work on it, as
\* long as no call failed, no daemon crashed and nobody ran with no-wait.
PendingIsOwned ==
  (Manuals = {} /\ failures = 0 /\ crashes = 0) =>
    \A k \in Keys : records[k].state = "collect_pending" =>
      /\ pc[Daemon] \in {"tx", "wait", "collected"}
      /\ cur[Daemon] = ItemOf(k)

\* Where only the daemon collects, the record of an attempt in progress stays
\* collect_pending with the attempted value until the daemon marks it: a RAV
\* accepted meanwhile does not replace it, and no reclaim takes it away.
AttemptHoldsRecord ==
  (Manuals = {} /\ pc[Daemon] \in {"tx", "wait", "collected", "failed"}) =>
    /\ records[cur[Daemon].key].state = "collect_pending"
    /\ records[cur[Daemon].key].value = cur[Daemon].value

\* More collectible records are stored than one list call returns.
Crowded == Cardinality(InState("collectible")) > ListLimit

\* Every accepted RAV above the dust limit is attempted, unless a RAV below the
\* limit replaces it, or the page of collectible records goes on overflowing:
\* from any state in which the records fit one page, the record is attempted or
\* the page overflows again.  (An overflowing page may leave the record out for
\* ever, in favour of dust the daemon never collects.)
CollectibleEventuallyAttempted ==
  \A k \in Keys :
    (records[k].state = "collectible" /\ records[k].value >= MinValue)
      ~> \/ records[k].state # "collectible"
         \/ records[k].value < MinValue
         \/ Crowded

\* reclaimStalePending: a record stuck in collect_pending is re-attempted.
StalePendingEventuallyReclaimed ==
  Reclaim => \A k \in Keys :
    (records[k].state = "collect_pending")
      ~> (records[k].state # "collect_pending")
=============================================================================
