-------------------------- MODULE SettlementProofs --------------------------
(***************************************************************************)
(* Proofs about Settlement for any number of keys, manual commands, RAVs,  *)
(* failures and crashes: type correctness, that a collected record was     *)
(* paid on chain, and what holds where the daemon is the only collector:   *)
(* an attempt holds its record, a pending record has an owner, and the     *)
(* attempts at one RAV are bounded.                                        *)
(***************************************************************************)
EXTENDS Settlement, TLAPS

-----------------------------------------------------------------------------
(* What the operators of the model return.                                  *)

\* The settlement record stays well typed, whatever writes it.
LEMMA RecordWrites ==
  ASSUME NEW rec \in CollectionRecord
  PROVE  /\ \A v \in Nat : NextCollectible(rec, v) \in CollectionRecord
         /\ MarkedPending(rec) \in CollectionRecord
         /\ MarkedCollected(rec) \in CollectionRecord
         /\ MarkedFailedRetryable(rec) \in CollectionRecord
<1>1. ASSUME NEW v \in Nat
      PROVE  NextCollectible(rec, v) \in CollectionRecord
  <2>1. NewCollectionRecord(v) \in CollectionRecord
    BY Zenon DEF NewCollectionRecord, CollectionRecord, CollectionStates
  <2> QED
    BY <2>1, Zenon DEF NextCollectible
<1>2. MarkedPending(rec) \in CollectionRecord
  <2>1. rec.attempts + 1 \in Nat
    BY DEF CollectionRecord
  <2> QED
    BY <2>1, Zenon DEF MarkedPending, CollectionRecord, CollectionStates
<1>3. MarkedCollected(rec) \in CollectionRecord
  BY Zenon DEF MarkedCollected, CollectionRecord, CollectionStates
<1>4. MarkedFailedRetryable(rec) \in CollectionRecord
  BY Zenon DEF MarkedFailedRetryable, CollectionRecord, CollectionStates
<1> QED
  BY <1>1, <1>2, <1>3, <1>4, Zenon

\* A collector at these steps works on a record.
Working == {"mark", "tx", "wait", "collected", "failed"}

WorksOnRecord == \A c \in Collectors : pc[c] \in Working => cur[c] \in Item

TypeInv == TypeOK /\ WorksOnRecord

\* A record that was read, and a transaction made from it, are well typed.
LEMMA ItemTypes ==
  ASSUME TypeInv
  PROVE  /\ \A k \in Keys : ItemOf(k) \in Item
         /\ \A c \in Collectors : pc[c] \in Working => TxOf(c) \in Tx
BY Zenon DEF TypeInv, TypeOK, WorksOnRecord, ItemOf, TxOf, Item, Tx, CollectionRecord

\* Writing a well-typed record.
LEMMA WriteType ==
  ASSUME TypeOK, NEW k \in Keys, NEW rec \in CollectionRecord, Write(k, rec)
  PROVE  records' \in [Keys -> CollectionRecord] /\ aged' \in [Keys -> BOOLEAN]
BY Zenon DEF Write, TypeOK

\* Settlement on chain only adds.
LEMMA SettleMonotone ==
  ASSUME TypeOK, NEW tx \in Tx, Settle(tx)
  PROVE  /\ settled' \in [Keys -> Nat]
         /\ \A k \in Keys : settled'[k] >= settled[k]
         /\ settled'[tx.key] >= tx.value
<1>1. tx.key \in Keys /\ tx.value \in Nat
  BY Zenon DEF Tx
<1> QED
  BY <1>1 DEF Settle, TypeOK

\* A collector that is done with its record.
LEMMA FinishType ==
  ASSUME TypeInv, NEW c \in Collectors, Finish(c)
  PROVE  /\ pc' \in [Collectors -> {"idle", "list", "next", "reclaim",
              "reclaiming", "mark", "tx", "wait", "collected", "failed"}]
         /\ cur' \in [Collectors -> Item \cup {None}]
         /\ WorksOnRecord'
BY Zenon DEF Finish, AfterCollect, Goto, Working, WorksOnRecord, TypeInv, TypeOK

\* The limit on attempts is positive and no smaller than max-attempts.
LEMMA AttemptLimitFacts ==
  /\ AttemptLimit \in Nat /\ 0 < AttemptLimit
  /\ \A n \in Nat : n < MaxAttempts => n < AttemptLimit
BY SettlementAssumption DEF AttemptLimit

\* A page of a list call holds records in the state asked for.
LEMMA PageFacts ==
  ASSUME NEW state, NEW page \in Pages(state)
  PROVE  /\ page \subseteq Keys
         /\ \A k \in page : records[k].state = state
BY Zenon DEF Pages, kSubset, InState

\* One more failure stays within its bound.
LEMMA FailType ==
  ASSUME TypeOK, Fail
  PROVE  failures' \in 0..MaxFailures
BY SettlementAssumption DEF Fail, TypeOK

-----------------------------------------------------------------------------
(* Type correctness.                                                        *)

\* The gateway's, the clock's and the chain's steps, and a crash.
LEMMA EnvironmentType ==
  ASSUME TypeInv
  PROVE  /\ \A k \in Keys : AcceptRAV(k) \/ Age(k) => TypeInv'
         /\ TxMinedLate => TypeInv'
         /\ \A c \in Collectors : Crash(c) => TypeInv'
<1> USE DEF counters, KeepRecords
<1>1. ASSUME NEW k \in Keys, AcceptRAV(k)
      PROVE  TypeInv'
  <2>1. records[k] \in CollectionRecord
    BY Zenon DEF TypeInv, TypeOK
  <2>2. ASSUME NEW v \in Values
        PROVE  NextCollectible(records[k], v) \in CollectionRecord
    BY <2>1, RecordWrites, SettlementAssumption, Zenon
  <2>3. records' \in [Keys -> CollectionRecord] /\ aged' \in [Keys -> BOOLEAN]
    BY <1>1, <2>2, WriteType, Zenon DEF AcceptRAV, TypeInv, TypeOK
  <2>4. accepts' \in 0..MaxAccepts
    BY <1>1, SettlementAssumption DEF AcceptRAV, TypeInv, TypeOK
  <2> QED
    BY <1>1, <2>3, <2>4, Zenon DEF AcceptRAV, TypeInv, TypeOK, WorksOnRecord
<1>2. ASSUME NEW k \in Keys, Age(k)
      PROVE  TypeInv'
  BY <1>2, Zenon DEF Age, TypeInv, TypeOK, WorksOnRecord
<1>3. ASSUME TxMinedLate
      PROVE  TypeInv'
  <2>1. settled' \in [Keys -> Nat] /\ mempool' \subseteq Tx
    BY <1>3, SettleMonotone, Zenon DEF TxMinedLate, TypeInv, TypeOK
  <2> QED
    BY <1>3, <2>1, Zenon DEF TxMinedLate, TypeInv, TypeOK, WorksOnRecord
<1>4. ASSUME NEW c \in Collectors, Crash(c)
      PROVE  TypeInv'
  <2>1. crashes' \in 0..MaxCrashes
    BY <1>4, SettlementAssumption DEF Crash, TypeInv, TypeOK
  <2>2. WorksOnRecord'
    BY <1>4, Zenon DEF Crash, Goto, Working, WorksOnRecord, TypeInv, TypeOK
  <2> QED
    BY <1>4, <2>1, <2>2, Zenon DEF Crash, Goto, TypeInv, TypeOK
<1> QED
  BY <1>1, <1>2, <1>3, <1>4, Zenon

\* The daemon's sweep.
LEMMA SweepType ==
  ASSUME TypeInv, SweepStep
  PROVE  TypeInv'
<1> USE DEF counters, KeepRecords
<1>0. /\ Daemon \in Collectors
      /\ \A k \in Keys : ItemOf(k) \in Item
      /\ \A state : \A page \in Pages(state) :
           page \subseteq Keys /\ Eligible(page) \subseteq Item
  BY ItemTypes, PageFacts, Zenon DEF Collectors, Eligible
<1>1. CASE ListCollectible
  BY <1>0, <1>1, Zenon
    DEF ListCollectible, Goto, TypeInv, TypeOK, WorksOnRecord, Working
<1>2. CASE ListRetryable
  <2>1. todo' \subseteq Item
    BY <1>0, <1>2, Zenon DEF ListRetryable, TypeInv, TypeOK
  <2> QED
    BY <1>0, <1>2, <2>1, Zenon
      DEF ListRetryable, Goto, TypeInv, TypeOK, WorksOnRecord, Working
<1>3. CASE ListFail
  <2>1. failures' \in 0..MaxFailures
    BY <1>3, FailType, Zenon DEF ListFail, TypeInv
  <2> QED
    BY <1>0, <1>3, <2>1, Zenon
      DEF ListFail, Goto, TypeInv, TypeOK, WorksOnRecord, Working
<1>4. CASE SweepNext
  BY <1>0, <1>4, Zenon DEF SweepNext, Goto, TypeInv, TypeOK, WorksOnRecord, Working
<1>5. CASE ListPending
  BY <1>0, <1>5, Zenon DEF ListPending, Goto, TypeInv, TypeOK, WorksOnRecord, Working
<1>6. CASE ReclaimNext
  <2>1. ASSUME NEW r \in todo
        PROVE  /\ r.key \in Keys
               /\ MarkedFailedRetryable(records[r.key]) \in CollectionRecord
    BY RecordWrites, Zenon DEF TypeInv, TypeOK, Item
  <2>2. records' \in [Keys -> CollectionRecord] /\ aged' \in [Keys -> BOOLEAN]
    BY <1>6, <2>1, WriteType, Zenon DEF ReclaimNext, TypeInv, TypeOK
  <2> QED
    BY <1>0, <1>6, <2>2, Zenon
      DEF ReclaimNext, Goto, TypeInv, TypeOK, WorksOnRecord, Working
<1>7. CASE ReclaimFail
  <2>1. failures' \in 0..MaxFailures
    BY <1>7, FailType, Zenon DEF ReclaimFail, TypeInv
  <2> QED
    BY <1>7, <2>1, Zenon DEF ReclaimFail, TypeInv, TypeOK, WorksOnRecord
<1> QED
  BY <1>1, <1>2, <1>3, <1>4, <1>5, <1>6, <1>7, Zenon DEF SweepStep

\* A collector's attempt at one record.
LEMMA CollectType ==
  ASSUME TypeInv, NEW c \in Collectors,
         CollectStep(c) \/ (c \in Manuals /\ ManualFetch(c))
  PROVE  TypeInv'
<1> USE DEF counters, KeepRecords
<1>0. ASSUME pc[c] \in Working
      PROVE  /\ cur[c] \in Item /\ cur[c].key \in Keys
             /\ records[cur[c].key] \in CollectionRecord
             /\ TxOf(c) \in Tx
  BY <1>0, ItemTypes, Zenon DEF TypeInv, TypeOK, WorksOnRecord, Item
<1>1. CASE ManualFetch(c)
  <2>1. \A k \in Keys : ItemOf(k) \in Item
    BY ItemTypes, Zenon
  <2> QED
    BY <1>1, <2>1, Zenon DEF ManualFetch, Goto, TypeInv, TypeOK, WorksOnRecord, Working
<1>2. CASE MarkPending(c)
  <2>1. pc[c] \in Working
    BY <1>2, Zenon DEF MarkPending, Working
  <2>2. records' \in [Keys -> CollectionRecord] /\ aged' \in [Keys -> BOOLEAN]
    BY <1>0, <1>2, <2>1, RecordWrites, WriteType, Zenon
      DEF MarkPending, TypeInv, TypeOK
  <2>3. CASE Finish(c)
    BY <1>2, <2>2, <2>3, FinishType, Zenon DEF MarkPending, TypeInv, TypeOK
  <2>4. CASE ~Finish(c)
    BY <1>0, <1>2, <2>1, <2>2, <2>4, Zenon
      DEF MarkPending, Goto, TypeInv, TypeOK, WorksOnRecord, Working
  <2> QED
    BY <2>3, <2>4, Zenon
<1>3. CASE MarkPendingLost(c)
  <2>1. pc[c] \in Working
    BY <1>3, Zenon DEF MarkPendingLost, Working
  <2>2. records' \in [Keys -> CollectionRecord] /\ aged' \in [Keys -> BOOLEAN]
    BY <1>0, <1>3, <2>1, RecordWrites, WriteType, Zenon
      DEF MarkPendingLost, TypeInv, TypeOK
  <2>3. failures' \in 0..MaxFailures
    BY <1>3, FailType, Zenon DEF MarkPendingLost, TypeInv
  <2> QED
    BY <1>3, <2>2, <2>3, FinishType, Zenon DEF MarkPendingLost, TypeInv, TypeOK
<1>4. CASE TxSend(c)
  <2>1. pc[c] \in Working
    BY <1>4, Zenon DEF TxSend, Working
  <2>2. mempool' \subseteq Tx
    BY <1>0, <1>4, <2>1, Zenon DEF TxSend, TypeInv, TypeOK
  <2>3. CASE Finish(c)
    BY <1>4, <2>2, <2>3, FinishType, Zenon DEF TxSend, TypeInv, TypeOK
  <2>4. CASE ~Finish(c)
    BY <1>0, <1>4, <2>1, <2>2, <2>4, Zenon
      DEF TxSend, Goto, TypeInv, TypeOK, WorksOnRecord, Working
  <2> QED
    BY <2>3, <2>4, Zenon
<1>5. CASE TxReceipt(c)
  <2>1. pc[c] \in Working
    BY <1>5, Zenon DEF TxReceipt, Working
  <2>2. settled' \in [Keys -> Nat] /\ mempool' \subseteq Tx
    BY <1>0, <1>5, <2>1, SettleMonotone, Zenon DEF TxReceipt, TypeInv, TypeOK
  <2> QED
    BY <1>0, <1>5, <2>1, <2>2, Zenon
      DEF TxReceipt, Goto, TypeInv, TypeOK, WorksOnRecord, Working
<1>6. CASE TxFail(c)
  <2>1. pc[c] \in Working
    BY <1>6, Zenon DEF TxFail, Working
  <2>2. mempool' \subseteq Tx
    BY <1>0, <1>6, <2>1, Zenon DEF TxFail, TypeInv, TypeOK
  <2>3. failures' \in 0..MaxFailures
    BY <1>6, FailType, Zenon DEF TxFail, TypeInv
  <2> QED
    BY <1>0, <1>6, <2>1, <2>2, <2>3, Zenon
      DEF TxFail, Goto, TypeInv, TypeOK, WorksOnRecord, Working
<1>7. CASE MarkCollected(c)
  <2>1. pc[c] \in Working
    BY <1>7, Zenon DEF MarkCollected, Working
  <2>2. records' \in [Keys -> CollectionRecord] /\ aged' \in [Keys -> BOOLEAN]
    BY <1>0, <1>7, <2>1, RecordWrites, WriteType, Zenon
      DEF MarkCollected, TypeInv, TypeOK
  <2> QED
    BY <1>7, <2>2, FinishType, Zenon DEF MarkCollected, TypeInv, TypeOK
<1>8. CASE MarkRetryable(c)
  <2>1. pc[c] \in Working
    BY <1>8, Zenon DEF MarkRetryable, Working
  <2>2. records' \in [Keys -> CollectionRecord] /\ aged' \in [Keys -> BOOLEAN]
    BY <1>0, <1>8, <2>1, RecordWrites, WriteType, Zenon
      DEF MarkRetryable, TypeInv, TypeOK
  <2> QED
    BY <1>8, <2>2, FinishType, Zenon DEF MarkRetryable, TypeInv, TypeOK
<1>9. CASE MarkFail(c)
  <2>1. failures' \in 0..MaxFailures
    BY <1>9, FailType, Zenon DEF MarkFail, TypeInv
  <2> QED
    BY <1>9, <2>1, FinishType, Zenon DEF MarkFail, TypeInv, TypeOK
<1> QED
  BY <1>1, <1>2, <1>3, <1>4, <1>5, <1>6, <1>7, <1>8, <1>9, Zenon DEF CollectStep

\* TypeInv is inductive.
LEMMA SettlementTypeInductive ==
  TypeInv /\ [Next]_vars => TypeInv'
<1> SUFFICES ASSUME TypeInv, [Next]_vars
             PROVE  TypeInv'
  OBVIOUS
<1>1. CASE Next
  BY <1>1, EnvironmentType, SweepType, CollectType, Zenon DEF Next, Collectors
<1>2. CASE UNCHANGED vars
  BY <1>2, Zenon DEF vars, TypeInv, TypeOK, WorksOnRecord
<1> QED
  BY <1>1, <1>2, Zenon

\* The initial state is well typed.
LEMMA SettlementTypeInit ==
  Init => TypeInv
<1> SUFFICES ASSUME Init
             PROVE  TypeInv
  OBVIOUS
<1>1. NoCollection \in CollectionRecord
  BY Zenon DEF NoCollection, CollectionRecord, CollectionStates
<1> QED
  BY <1>1, SettlementAssumption
     DEF Init, TypeInv, TypeOK, WorksOnRecord, Working

\* Records, transactions and the collectors' steps keep their types, and a
\* collector that marks a record or sends a transaction has a record.
THEOREM SettlementTypeCorrect ==
  Spec => []TypeOK
<1>1. TypeInv => TypeOK
  BY Zenon DEF TypeInv
<1> QED
  BY <1>1, SettlementTypeInit, SettlementTypeInductive, PTL DEF Spec

-----------------------------------------------------------------------------
(* A collected record was paid.  The invariant adds what a collector knows  *)
(* between the receipt and the mark.                                        *)

ReceiptIsSettled ==
  \A c \in Collectors :
    pc[c] = "collected" => settled[cur[c].key] >= cur[c].value

PaidInv == ReceiptIsSettled /\ CollectedIsSettled

\* What a step does to a receipt and to a collected record.
PaidKept ==
  /\ \A k \in Keys : settled'[k] >= settled[k]
  /\ \A c \in Collectors :
       pc'[c] = "collected" =>
         \/ pc[c] = "collected" /\ cur'[c] = cur[c]
         \/ settled'[cur'[c].key] >= cur'[c].value
  /\ \A k \in Keys :
       records'[k].state = "collected" =>
         \/ records'[k] = records[k]
         \/ settled[k] >= records'[k].value

\* Such a step preserves the invariant.
LEMMA PaidFrame ==
  ASSUME TypeInv, TypeInv', PaidInv, PaidKept
  PROVE  PaidInv'
<1>1. ASSUME NEW c \in Collectors, pc'[c] = "collected"
      PROVE  settled'[cur'[c].key] >= cur'[c].value
  <2>1. CASE pc[c] = "collected" /\ cur'[c] = cur[c]
    <3>1. cur[c].key \in Keys /\ cur[c].value \in Nat
      BY <2>1, Zenon DEF TypeInv, WorksOnRecord, Working, Item
    <3>2. /\ settled[cur[c].key] \in Nat /\ settled'[cur[c].key] \in Nat
          /\ settled[cur[c].key] >= cur[c].value
          /\ settled'[cur[c].key] >= settled[cur[c].key]
      BY <2>1, <3>1, Zenon DEF TypeInv, TypeOK, PaidInv, ReceiptIsSettled, PaidKept
    <3> QED
      BY <2>1, <3>1, <3>2
  <2>2. CASE ~(pc[c] = "collected" /\ cur'[c] = cur[c])
    BY <1>1, <2>2, Zenon DEF PaidKept
  <2> QED
    BY <2>1, <2>2, Zenon
<1>2. ASSUME NEW k \in Keys, records'[k].state = "collected"
      PROVE  settled'[k] >= records'[k].value
  <2>1. /\ settled[k] \in Nat /\ settled'[k] \in Nat
        /\ records'[k].value \in Nat
        /\ settled'[k] >= settled[k]
    BY Zenon DEF TypeInv, TypeOK, CollectionRecord, PaidKept
  <2>2. settled[k] >= records'[k].value
    BY <1>2, Zenon DEF PaidKept, PaidInv, CollectedIsSettled
  <2> QED
    BY <2>1, <2>2
<1> QED
  BY <1>1, <1>2, Zenon DEF PaidInv, ReceiptIsSettled, CollectedIsSettled

\* A record a step may write without claiming that a RAV was paid.
ClaimsNothing(k) == records'[k] = records[k] \/ records'[k].state # "collected"

\* Writing such a record leaves the other records alone.
LEMMA WriteClaimsNothing ==
  ASSUME TypeInv, NEW k \in Keys, NEW rec, Write(k, rec),
         rec = records[k] \/ rec.state # "collected"
  PROVE  \A j \in Keys : ClaimsNothing(j)
BY Zenon DEF Write, TypeInv, TypeOK, ClaimsNothing

\* What the marks and the gateway write.
LEMMA RecordStates ==
  ASSUME NEW rec \in CollectionRecord
  PROVE  /\ MarkedPending(rec).state = "collect_pending"
         /\ MarkedCollected(rec).value = rec.value
         /\ MarkedFailedRetryable(rec).state = "collect_failed_retryable"
         /\ \A v : \/ NextCollectible(rec, v) = rec
                   \/ NextCollectible(rec, v).state = "collectible"
<1>1. MarkedPending(rec).state = "collect_pending"
  BY Zenon DEF MarkedPending, CollectionRecord
<1>2. MarkedCollected(rec).value = rec.value
  BY Zenon DEF MarkedCollected, CollectionRecord
<1>3. MarkedFailedRetryable(rec).state = "collect_failed_retryable"
  BY Zenon DEF MarkedFailedRetryable, CollectionRecord
<1>4. ASSUME NEW v
      PROVE  \/ NextCollectible(rec, v) = rec
             \/ NextCollectible(rec, v).state = "collectible"
  BY Zenon DEF NextCollectible, NewCollectionRecord
<1> QED
  BY <1>1, <1>2, <1>3, <1>4, Zenon

\* A step that settles nothing, takes no receipt and claims nothing.
LEMMA PaidUnchanged ==
  ASSUME TypeInv, settled' = settled,
         \A c \in Collectors :
           pc'[c] = "collected" => pc[c] = "collected" /\ cur'[c] = cur[c],
         \A k \in Keys : ClaimsNothing(k)
  PROVE  PaidKept
<1>1. \A k \in Keys : settled'[k] >= settled[k]
  BY DEF TypeInv, TypeOK
<1> QED
  BY <1>1, Zenon DEF PaidKept, ClaimsNothing

\* The gateway, the clock, the chain and crashes.
LEMMA EnvironmentPaid ==
  ASSUME TypeInv, PaidInv
  PROVE  /\ \A k \in Keys : AcceptRAV(k) \/ Age(k) => PaidKept
         /\ TxMinedLate => PaidKept
         /\ \A c \in Collectors : Crash(c) => PaidKept
<1> USE DEF counters, KeepRecords
<1>1. ASSUME NEW k \in Keys, AcceptRAV(k)
      PROVE  PaidKept
  <2>1. records[k] \in CollectionRecord
    BY Zenon DEF TypeInv, TypeOK
  <2>2. \A j \in Keys : ClaimsNothing(j)
    <3>1. CASE KeepRecords
      BY <3>1, Zenon DEF ClaimsNothing
    <3>2. ASSUME NEW v, Write(k, NextCollectible(records[k], v))
          PROVE  \A j \in Keys : ClaimsNothing(j)
      <4>1. \/ NextCollectible(records[k], v) = records[k]
            \/ NextCollectible(records[k], v).state # "collected"
        BY <2>1, RecordStates, Zenon
      <4> QED
        BY <3>2, <4>1, WriteClaimsNothing, Zenon
    <3> QED
      BY <1>1, <3>1, <3>2, Zenon DEF AcceptRAV
  <2> QED
    BY <1>1, <2>2, PaidUnchanged, Zenon DEF AcceptRAV
<1>2. ASSUME NEW k \in Keys, Age(k)
      PROVE  PaidKept
  BY <1>2, PaidUnchanged, Zenon DEF Age, ClaimsNothing
<1>3. ASSUME TxMinedLate
      PROVE  PaidKept
  <2>1. \A k \in Keys : settled'[k] >= settled[k]
    BY <1>3, SettleMonotone DEF TxMinedLate, TypeInv, TypeOK
  <2> QED
    BY <1>3, <2>1, Zenon DEF TxMinedLate, PaidKept
<1>4. ASSUME NEW c \in Collectors, Crash(c)
      PROVE  PaidKept
  <2>1. \A d \in Collectors :
          pc'[d] = "collected" => pc[d] = "collected" /\ cur'[d] = cur[d]
    BY <1>4, Zenon DEF Crash, Goto, TypeInv, TypeOK
  <2> QED
    BY <1>4, <2>1, PaidUnchanged, Zenon DEF Crash, ClaimsNothing
<1> QED
  BY <1>1, <1>2, <1>3, <1>4, Zenon

\* The daemon's sweep claims nothing.
LEMMA SweepPaid ==
  ASSUME TypeInv, SweepStep
  PROVE  PaidKept
<1> USE DEF counters, KeepRecords
<1>1. Daemon \in Collectors /\ settled' = settled
  BY Zenon DEF Collectors, SweepStep, ListCollectible, ListRetryable, ListFail,
         SweepNext, ListPending, ReclaimNext, ReclaimFail
<1>2. \A c \in Collectors :
        pc'[c] = "collected" => pc[c] = "collected" /\ cur'[c] = cur[c]
  BY <1>1, Zenon DEF SweepStep, ListCollectible, ListRetryable, ListFail, SweepNext,
              ListPending, ReclaimNext, ReclaimFail, Goto, TypeInv, TypeOK
<1>3. \A k \in Keys : ClaimsNothing(k)
  <2>1. CASE KeepRecords
    BY <2>1, Zenon DEF ClaimsNothing
  <2>2. CASE ReclaimNext /\ ~KeepRecords
    <3>1. PICK r \in todo :
            Write(r.key, MarkedFailedRetryable(records[r.key]))
      BY <2>2, Zenon DEF ReclaimNext
    <3>2. r.key \in Keys /\ records[r.key] \in CollectionRecord
      BY Zenon DEF TypeInv, TypeOK, Item
    <3>3. MarkedFailedRetryable(records[r.key]).state # "collected"
      BY <3>2, RecordStates, Zenon
    <3> QED
      BY <3>1, <3>2, <3>3, WriteClaimsNothing, Zenon
  <2> QED
    BY <2>1, <2>2, Zenon
      DEF SweepStep, ListCollectible, ListRetryable, ListFail, SweepNext,
           ListPending, ReclaimFail
<1> QED
  BY <1>1, <1>2, <1>3, PaidUnchanged, Zenon

\* An attempt: the receipt proves the payment, and only then is it claimed.
LEMMA CollectPaid ==
  ASSUME TypeInv, PaidInv, NEW c \in Collectors,
         CollectStep(c) \/ (c \in Manuals /\ ManualFetch(c))
  PROVE  PaidKept
<1> USE DEF counters, KeepRecords
<1>0. ASSUME pc[c] \in Working
      PROVE  /\ cur[c] \in Item /\ cur[c].key \in Keys
             /\ records[cur[c].key] \in CollectionRecord
             /\ TxOf(c) \in Tx
  BY <1>0, ItemTypes, Zenon DEF TypeInv, TypeOK, WorksOnRecord, Item
<1>1. ASSUME settled' = settled,
             Finish(c) \/ (\E l \in {"mark", "tx", "wait", "failed"} : Goto(c, l)),
             \A d \in Collectors : d # c => cur'[d] = cur[d],
             \A k \in Keys : ClaimsNothing(k)
      PROVE  PaidKept
  <2>1. \A d \in Collectors :
          pc'[d] = "collected" => pc[d] = "collected" /\ cur'[d] = cur[d]
    BY <1>1, Zenon DEF Finish, AfterCollect, Goto, TypeInv, TypeOK
  <2> QED
    BY <1>1, <2>1, PaidUnchanged, Zenon
<1>2. CASE ManualFetch(c)
  <2>1. \A d \in Collectors : d # c => cur'[d] = cur[d]
    BY <1>2, Zenon DEF ManualFetch, TypeInv, TypeOK
  <2> QED
    BY <1>1, <1>2, <2>1, Zenon DEF ManualFetch, ClaimsNothing
<1>3. CASE MarkPending(c) \/ MarkPendingLost(c)
  <2>1. pc[c] \in Working
    BY <1>3, Zenon DEF MarkPending, MarkPendingLost, Working
  <2>2. MarkedPending(records[cur[c].key]).state # "collected"
    BY <1>0, <2>1, RecordStates, Zenon
  <2>3. \A k \in Keys : ClaimsNothing(k)
    <3>1. CASE KeepRecords
      BY <3>1, Zenon DEF ClaimsNothing
    <3>2. CASE Write(cur[c].key, MarkedPending(records[cur[c].key]))
      BY <1>0, <2>1, <2>2, <3>2, WriteClaimsNothing, Zenon
    <3> QED
      BY <1>3, <3>1, <3>2, Zenon DEF MarkPending, MarkPendingLost
  <2>4. \A d \in Collectors : d # c => cur'[d] = cur[d]
    BY <1>3, Zenon DEF MarkPending, MarkPendingLost, Finish, TypeInv, TypeOK
  <2> QED
    BY <1>1, <1>3, <2>3, <2>4, Zenon DEF MarkPending, MarkPendingLost
<1>4. CASE TxSend(c) \/ TxFail(c) \/ MarkFail(c)
  <2>1. \A d \in Collectors : d # c => cur'[d] = cur[d]
    BY <1>4, Zenon DEF TxSend, TxFail, MarkFail, Finish, TypeInv, TypeOK
  <2> QED
    BY <1>1, <1>4, <2>1, Zenon DEF TxSend, TxFail, MarkFail, ClaimsNothing
<1>5. CASE TxReceipt(c)
  <2>1. pc[c] \in Working
    BY <1>5, Zenon DEF TxReceipt, Working
  <2>2. /\ \A k \in Keys : settled'[k] >= settled[k]
        /\ settled'[TxOf(c).key] >= TxOf(c).value
    BY <1>0, <1>5, <2>1, SettleMonotone, Zenon DEF TxReceipt, TypeInv
  <2>3. settled'[cur'[c].key] >= cur'[c].value
    BY <1>5, <2>2, Zenon DEF TxReceipt, TxOf
  <2>4. \A d \in Collectors : d # c => pc'[d] = pc[d] /\ cur'[d] = cur[d]
    BY <1>5, Zenon DEF TxReceipt, Goto, TypeInv, TypeOK
  <2> QED
    BY <1>5, <2>2, <2>3, <2>4, Zenon DEF TxReceipt, PaidKept
<1>6. CASE MarkCollected(c)
  <2>1. pc[c] = "collected" /\ pc[c] \in Working
    BY <1>6, Zenon DEF MarkCollected, Working
  <2>2. settled[cur[c].key] >= cur[c].value
    BY <2>1, Zenon DEF PaidInv, ReceiptIsSettled
  <2>3. \A k \in Keys : records'[k] = records[k] \/ settled[k] >= records'[k].value
    <3>1. CASE KeepRecords
      BY <3>1, Zenon
    <3>2. CASE ~KeepRecords
      <4>1. /\ records[cur[c].key].value = cur[c].value
            /\ records' = [records EXCEPT
                 ![cur[c].key] = MarkedCollected(records[cur[c].key])]
        BY <1>6, <3>2, Zenon
          DEF MarkCollected, CanMarkCollected, ExpectedValueMatches, Write
      <4>2. MarkedCollected(records[cur[c].key]).value = cur[c].value
        BY <1>0, <2>1, <4>1, RecordStates, Zenon
      <4> QED
        BY <1>0, <2>1, <2>2, <4>1, <4>2, Zenon DEF TypeInv, TypeOK
    <3> QED
      BY <3>1, <3>2, Zenon
  <2>4. \A d \in Collectors :
          pc'[d] = "collected" => pc[d] = "collected" /\ cur'[d] = cur[d]
    BY <1>6, Zenon DEF MarkCollected, Finish, AfterCollect, Goto, TypeInv, TypeOK
  <2>5. \A k \in Keys : settled'[k] >= settled[k]
    BY <1>6 DEF MarkCollected, TypeInv, TypeOK
  <2> QED
    BY <2>3, <2>4, <2>5, Zenon DEF PaidKept
<1>7. CASE MarkRetryable(c)
  <2>1. pc[c] \in Working
    BY <1>7, Zenon DEF MarkRetryable, Working
  <2>2. MarkedFailedRetryable(records[cur[c].key]).state # "collected"
    BY <1>0, <2>1, RecordStates, Zenon
  <2>3. \A k \in Keys : ClaimsNothing(k)
    <3>1. CASE KeepRecords
      BY <3>1, Zenon DEF ClaimsNothing
    <3>2. CASE Write(cur[c].key, MarkedFailedRetryable(records[cur[c].key]))
      BY <1>0, <2>1, <2>2, <3>2, WriteClaimsNothing, Zenon
    <3> QED
      BY <1>7, <3>1, <3>2, Zenon DEF MarkRetryable
  <2>4. \A d \in Collectors : d # c => cur'[d] = cur[d]
    BY <1>7, Zenon DEF MarkRetryable, Finish, TypeInv, TypeOK
  <2> QED
    BY <1>1, <1>7, <2>3, <2>4, Zenon DEF MarkRetryable
<1> QED
  BY <1>2, <1>3, <1>4, <1>5, <1>6, <1>7, Zenon DEF CollectStep

\* PaidInv is inductive, relative to TypeInv.
LEMMA PaidInductive ==
  TypeInv /\ PaidInv /\ [Next]_vars => PaidInv'
<1> SUFFICES ASSUME TypeInv, PaidInv, [Next]_vars
             PROVE  PaidInv'
  OBVIOUS
<1>1. CASE Next
  <2>1. PaidKept
    BY <1>1, EnvironmentPaid, SweepPaid, CollectPaid, Zenon DEF Next, Collectors
  <2>2. TypeInv'
    BY SettlementTypeInductive, Zenon
  <2> QED
    BY <2>1, <2>2, PaidFrame, Zenon
<1>2. CASE UNCHANGED vars
  BY <1>2, Zenon DEF vars, PaidInv, ReceiptIsSettled, CollectedIsSettled
<1> QED
  BY <1>1, <1>2, Zenon

\* A record shown as collected was paid on chain for the value it shows, with
\* any number of collectors, reclaims, lost responses and late transactions.
THEOREM CollectedAlwaysSettled ==
  Spec => []CollectedIsSettled
<1>1. Init => TypeInv /\ PaidInv
  BY SettlementTypeInit
     DEF Init, PaidInv, ReceiptIsSettled, CollectedIsSettled, NoCollection
<1>2. TypeInv /\ PaidInv /\ [Next]_vars => TypeInv' /\ PaidInv'
  BY SettlementTypeInductive, PaidInductive, Zenon
<1>3. TypeInv /\ PaidInv => CollectedIsSettled
  BY Zenon DEF PaidInv
<1> QED
  BY <1>1, <1>2, <1>3, PTL DEF Spec

-----------------------------------------------------------------------------
(* Where only the daemon collects.  An attempt holds its record, a pending  *)
(* record has an owner, and attempts are bounded; none of the three is      *)
(* inductive: the bound is checked when the records are listed, and used    *)
(* when one of them is marked, several steps and other records later.       *)

\* At these steps the daemon has marked its record and not yet unmarked it.
Attempting == {"tx", "wait", "collected", "failed"}

\* The attempt counter starts from zero with every RAV.
AttemptsCounted ==
  \A k \in Keys :
    /\ records[k].attempts <= AttemptLimit
    /\ records[k].state \in {"none", "collectible"} => records[k].attempts = 0

\* What was listed in the first call is still collectible at the second.
ListedCollectible ==
  pc[Daemon] = "list" => \A r \in todo : records[r.key].state = "collectible"

\* What the sweep has listed, each key once, may be attempted once more.
ListedMayBeAttempted ==
  pc[Daemon] \in {"list", "next"} \cup Working =>
    /\ \A r \in todo : records[r.key].attempts < AttemptLimit
    /\ \A r, q \in todo : r.key = q.key => r = q

\* The record being collected is not listed any more, and before it is marked
\* it may be attempted.
CurrentMayBeAttempted ==
  /\ pc[Daemon] \in Working => \A r \in todo : r.key # cur[Daemon].key
  /\ pc[Daemon] = "mark" => records[cur[Daemon].key].attempts < AttemptLimit

SweepInv ==
  Manuals = {} =>
    /\ AttemptsCounted
    /\ ListedCollectible
    /\ ListedMayBeAttempted
    /\ CurrentMayBeAttempted

OwnerInv ==
  /\ AttemptHoldsRecord
  /\ PendingIsOwned
  /\ Manuals = {} /\ failures = 0 => pc[Daemon] # "failed"

\* The fields of the records that the marks and the gateway write.
LEMMA RecordFields ==
  ASSUME NEW rec \in CollectionRecord
  PROVE  /\ MarkedPending(rec).state = "collect_pending"
         /\ MarkedPending(rec).value = rec.value
         /\ MarkedPending(rec).attempts = rec.attempts + 1
         /\ MarkedCollected(rec).state = "collected"
         /\ MarkedCollected(rec).attempts = rec.attempts
         /\ MarkedFailedRetryable(rec).state = "collect_failed_retryable"
         /\ MarkedFailedRetryable(rec).attempts = rec.attempts
         /\ \A v : /\ NewCollectionRecord(v).state = "collectible"
                   /\ NewCollectionRecord(v).attempts = 0
BY Zenon DEF MarkedPending, MarkedCollected, MarkedFailedRetryable,
       NewCollectionRecord, CollectionRecord

\* An accepted RAV leaves a record in settlement alone, and starts any other
\* one from zero.
LEMMA AcceptedRAV ==
  ASSUME TypeInv, NEW k \in Keys, AcceptRAV(k)
  PROVE  /\ \A j \in Keys :
              \/ records'[j] = records[j]
              \/ /\ records[j].state # "collect_pending"
                 /\ records'[j].state = "collectible"
                 /\ records'[j].attempts = 0
         /\ UNCHANGED <<pc, cur, todo, failures, crashes>>
<1>1. records[k] \in CollectionRecord
  BY Zenon DEF TypeInv, TypeOK
<1>2. PICK v \in Values :
        /\ ~CollectionConflict(records[k], v)
        /\ IF NextCollectible(records[k], v) = records[k]
           THEN KeepRecords
           ELSE Write(k, NextCollectible(records[k], v))
  BY Zenon DEF AcceptRAV
<1>3. CASE KeepRecords
  BY <1>3, Zenon DEF KeepRecords, AcceptRAV
<1>4. CASE ~KeepRecords
  <2>1. /\ records' = [records EXCEPT ![k] = NewCollectionRecord(v)]
        /\ ~(records[k].state \in {"collect_pending", "collected"}
               /\ records[k].value = v)
    BY <1>2, <1>4, Zenon DEF NextCollectible, Write
  <2>2. records[k].state # "collect_pending"
    BY <1>2, <2>1, Zenon DEF CollectionConflict
  <2> QED
    BY <1>1, <2>1, <2>2, RecordFields, Zenon DEF TypeInv, TypeOK, AcceptRAV
<1> QED
  BY <1>3, <1>4, Zenon

\* The invariants are kept by the gateway, the clock, the chain and a crash.
LEMMA EnvironmentDaemon ==
  ASSUME TypeInv, SweepInv, OwnerInv, Manuals = {}
  PROVE  /\ \A k \in Keys : AcceptRAV(k) \/ Age(k) => SweepInv' /\ OwnerInv'
         /\ TxMinedLate => SweepInv' /\ OwnerInv'
         /\ \A c \in Collectors : Crash(c) => SweepInv' /\ OwnerInv'
<1> USE DEF counters, KeepRecords
<1>0. Daemon \in Collectors
  BY Zenon DEF Collectors
<1>1. ASSUME NEW k \in Keys, AcceptRAV(k)
      PROVE  SweepInv' /\ OwnerInv'
  <2>1. /\ \A j \in Keys :
             \/ records'[j] = records[j]
             \/ /\ records[j].state # "collect_pending"
                /\ records'[j].state = "collectible"
                /\ records'[j].attempts = 0
        /\ UNCHANGED <<pc, cur, todo, failures, crashes>>
    BY <1>1, AcceptedRAV, Zenon
  <2>2. \A r \in todo : r.key \in Keys
    BY Zenon DEF TypeInv, TypeOK, Item
  <2>3. pc[Daemon] \in Working => cur[Daemon].key \in Keys
    BY <1>0, Zenon DEF TypeInv, WorksOnRecord, Item
  <2>4. AttemptsCounted' /\ ListedCollectible' /\ ListedMayBeAttempted'
    BY <2>1, <2>2, AttemptLimitFacts
       DEF SweepInv, AttemptsCounted, ListedCollectible, ListedMayBeAttempted
  <2>5. CurrentMayBeAttempted'
    BY <2>1, <2>2, <2>3, AttemptLimitFacts
       DEF SweepInv, CurrentMayBeAttempted, Working
  <2>6. OwnerInv'
    BY <2>1, <2>3, Zenon DEF OwnerInv, AttemptHoldsRecord, PendingIsOwned, ItemOf, Working
  <2> QED
    BY <2>4, <2>5, <2>6, Zenon DEF SweepInv
<1>2. ASSUME NEW k \in Keys, Age(k)
      PROVE  SweepInv' /\ OwnerInv'
  BY <1>2, Zenon DEF Age, SweepInv, AttemptsCounted, ListedCollectible,
              ListedMayBeAttempted, CurrentMayBeAttempted, OwnerInv,
              AttemptHoldsRecord, PendingIsOwned, ItemOf
<1>3. ASSUME TxMinedLate
      PROVE  SweepInv' /\ OwnerInv'
  BY <1>3, Zenon DEF TxMinedLate, SweepInv, AttemptsCounted, ListedCollectible,
              ListedMayBeAttempted, CurrentMayBeAttempted, OwnerInv,
              AttemptHoldsRecord, PendingIsOwned, ItemOf
<1>4. ASSUME NEW c \in Collectors, Crash(c)
      PROVE  SweepInv' /\ OwnerInv'
  <2>1. /\ pc'[Daemon] = "idle" /\ records' = records
        /\ crashes' # 0
    BY <1>0, <1>4 DEF Crash, Goto, Collectors, TypeInv, TypeOK
  <2> QED
    BY <2>1, Zenon DEF SweepInv, AttemptsCounted, ListedCollectible, Working,
                ListedMayBeAttempted, CurrentMayBeAttempted, OwnerInv,
                AttemptHoldsRecord, PendingIsOwned
<1> QED
  BY <1>1, <1>2, <1>3, <1>4, Zenon

\* The daemon's sweep keeps them: what it lists may be attempted, and only what
\* no attempt holds is reclaimed.
LEMMA SweepDaemon ==
  ASSUME TypeInv, SweepInv, OwnerInv, Manuals = {}, SweepStep
  PROVE  SweepInv' /\ OwnerInv'
<1> USE DEF counters, KeepRecords
<1>0. /\ Daemon \in Collectors
      /\ DOMAIN pc = Collectors
      /\ \A r \in todo : r.key \in Keys
      /\ \A k \in Keys : records[k].attempts \in Nat
      /\ \A k \in Keys : ItemOf(k).key = k
  BY Zenon DEF Collectors, TypeInv, TypeOK, Item, ItemOf, CollectionRecord
<1>1. ASSUME records' = records, failures' # 0 \/ failures' = failures,
             crashes' = crashes, pc'[Daemon] \in {"idle", "reclaim", "reclaiming"},
             pc[Daemon] \notin Attempting
      PROVE  SweepInv' /\ OwnerInv'
  BY <1>1, Zenon DEF SweepInv, AttemptsCounted, ListedCollectible, Working,
              ListedMayBeAttempted, CurrentMayBeAttempted, OwnerInv,
              AttemptHoldsRecord, PendingIsOwned, Attempting
<1>2. CASE ListCollectible
  <2>1. /\ pc[Daemon] = "idle" /\ pc'[Daemon] = "list"
        /\ UNCHANGED <<records, cur, failures, crashes>>
        /\ \E page \in Pages("collectible") : todo' = Eligible(page)
    BY <1>0, <1>2, Zenon DEF ListCollectible, Goto
  <2>2. \A r \in todo' : /\ r.key \in Keys /\ r = ItemOf(r.key)
                         /\ records[r.key].state = "collectible"
    <3> PICK page \in Pages("collectible") : todo' = Eligible(page)
      BY <2>1, Zenon
    <3>1. page \subseteq Keys /\ \A k \in page : records[k].state = "collectible"
      BY PageFacts, Zenon
    <3> QED
      BY <1>0, <3>1, Zenon DEF Eligible
  <2>3. \A r \in todo' : records[r.key].attempts < AttemptLimit
    BY <2>2, AttemptLimitFacts DEF SweepInv, AttemptsCounted
  <2>4. AttemptsCounted' /\ ListedCollectible' /\ ListedMayBeAttempted'
    BY <2>1, <2>2, <2>3, Zenon
      DEF SweepInv, AttemptsCounted, ListedCollectible, ListedMayBeAttempted
  <2>5. CurrentMayBeAttempted' /\ OwnerInv'
    BY <2>1, Zenon DEF CurrentMayBeAttempted, OwnerInv, AttemptHoldsRecord,
                PendingIsOwned, Working
  <2> QED
    BY <2>4, <2>5, Zenon DEF SweepInv
<1>3. CASE ListRetryable
  <2>1. /\ pc[Daemon] = "list" /\ pc'[Daemon] \in {"idle", "next"}
        /\ UNCHANGED <<records, cur, failures, crashes>>
    BY <1>0, <1>3, Zenon DEF ListRetryable, Goto
  <2> PICK page \in Pages("collect_failed_retryable") :
             todo' = todo \cup Eligible(page)
    BY <1>3, Zenon DEF ListRetryable
  <2>2. \A r \in Eligible(page) :
          /\ r.key \in Keys /\ r = ItemOf(r.key)
          /\ records[r.key].state = "collect_failed_retryable"
          /\ records[r.key].attempts < AttemptLimit
    <3>1. /\ page \subseteq Keys
          /\ \A k \in page : records[k].state = "collect_failed_retryable"
      BY PageFacts, Zenon
    <3>2. \A k \in page : ShouldCollect(k) => records[k].attempts < AttemptLimit
      BY <1>0, <3>1, AttemptLimitFacts, Zenon DEF ShouldCollect
    <3> QED
      BY <1>0, <3>1, <3>2, Zenon DEF Eligible
  <2>3. \A r \in todo : /\ records[r.key].state = "collectible"
                        /\ records[r.key].attempts < AttemptLimit
                        /\ \A q \in todo : r.key = q.key => r = q
    BY <2>1, Zenon DEF SweepInv, ListedCollectible, ListedMayBeAttempted
  <2>4. ListedMayBeAttempted'
    BY <2>1, <2>2, <2>3 DEF ListedMayBeAttempted
  <2>5. AttemptsCounted' /\ ListedCollectible' /\ CurrentMayBeAttempted'
    BY <2>1, Zenon DEF SweepInv, AttemptsCounted, ListedCollectible,
                CurrentMayBeAttempted, Working
  <2>6. OwnerInv'
    BY <2>1, Zenon DEF OwnerInv, AttemptHoldsRecord, PendingIsOwned
  <2> QED
    BY <2>4, <2>5, <2>6, Zenon DEF SweepInv
<1>4. CASE ListFail
  <2>1. failures' # 0 /\ pc'[Daemon] = "idle"
    BY <1>0, <1>4 DEF ListFail, Fail, Goto, TypeInv, TypeOK
  <2> QED
    BY <1>1, <1>4, <2>1, Zenon DEF ListFail, Attempting
<1>5. CASE SweepNext
  <2>1. CASE todo = {}
    <3>1. pc'[Daemon] \in {"idle", "reclaim"}
      BY <1>0, <1>5, <2>1, Zenon DEF SweepNext, Goto
    <3> QED
      BY <1>1, <1>5, <3>1, Zenon DEF SweepNext, Attempting
  <2>2. CASE todo # {}
    <3>1. PICK r \in todo : /\ todo' = todo \ {r}
                            /\ cur' = [cur EXCEPT ![Daemon] = r]
                            /\ Goto(Daemon, "mark")
      BY <1>5, <2>2, Zenon DEF SweepNext
    <3>2. /\ pc[Daemon] = "next" /\ pc'[Daemon] = "mark" /\ cur'[Daemon] = r
          /\ UNCHANGED <<records, failures, crashes>>
      BY <1>0, <1>5, <3>1, Zenon DEF SweepNext, Goto, TypeInv, TypeOK
    <3>3. \A q \in todo : /\ records[q.key].attempts < AttemptLimit
                          /\ \A p \in todo : q.key = p.key => q = p
      BY <3>2, Zenon DEF SweepInv, ListedMayBeAttempted
    <3>4. ListedMayBeAttempted' /\ CurrentMayBeAttempted'
      BY <3>1, <3>2, <3>3, Zenon DEF ListedMayBeAttempted, CurrentMayBeAttempted
    <3>5. AttemptsCounted' /\ ListedCollectible' /\ OwnerInv'
      BY <3>2, Zenon DEF SweepInv, AttemptsCounted, ListedCollectible, OwnerInv,
                  AttemptHoldsRecord, PendingIsOwned
    <3> QED
      BY <3>4, <3>5, Zenon DEF SweepInv
  <2> QED
    BY <2>1, <2>2, Zenon
<1>6. CASE ListPending
  <2>1. pc'[Daemon] = "reclaiming"
    BY <1>0, <1>6, Zenon DEF ListPending, Goto
  <2> QED
    BY <1>1, <1>6, <2>1, Zenon DEF ListPending, Attempting
<1>7. CASE ReclaimNext
  <2>1. /\ pc[Daemon] = "reclaiming" /\ pc'[Daemon] \in {"idle", "reclaiming"}
        /\ failures' = failures /\ crashes' = crashes
    BY <1>0, <1>7, Zenon DEF ReclaimNext, Goto
  <2>2. CASE KeepRecords
    BY <1>1, <2>1, <2>2, Zenon DEF Attempting
  <2>3. CASE ~KeepRecords
    <3>1. PICK r \in todo :
            /\ CanMarkFailedRetryable(records[r.key], r.value)
            /\ Write(r.key, MarkedFailedRetryable(records[r.key]))
      BY <1>7, <2>3, Zenon DEF ReclaimNext
    <3>2. \A k \in Keys :
            \/ records'[k] = records[k]
            \/ /\ records'[k].state = "collect_failed_retryable"
               /\ records'[k].attempts = records[k].attempts
      BY <1>0, <3>1, RecordFields, ZenonT(30) DEF Write, TypeInv, TypeOK
    <3>3. AttemptsCounted'
      BY <3>2, Zenon DEF SweepInv, AttemptsCounted
    <3>4. ListedCollectible' /\ ListedMayBeAttempted' /\ CurrentMayBeAttempted'
      BY <2>1, Zenon DEF ListedCollectible, ListedMayBeAttempted,
                  CurrentMayBeAttempted, Working
    <3>5. OwnerInv'
      BY <2>1, <3>2, Zenon DEF OwnerInv, AttemptHoldsRecord, PendingIsOwned
    <3> QED
      BY <3>3, <3>4, <3>5, Zenon DEF SweepInv
  <2> QED
    BY <2>2, <2>3, Zenon
<1>8. CASE ReclaimFail
  <2>1. failures' # 0 /\ pc'[Daemon] = "reclaiming"
    BY <1>8 DEF ReclaimFail, Fail, TypeInv, TypeOK
  <2> QED
    BY <1>1, <1>8, <2>1, Zenon DEF ReclaimFail, Attempting
<1> QED
  BY <1>2, <1>3, <1>4, <1>5, <1>6, <1>7, <1>8, Zenon DEF SweepStep

\* An attempt keeps them: it counts once, holds its record and gives it up.
LEMMA CollectDaemon ==
  ASSUME TypeInv, SweepInv, OwnerInv, Manuals = {}, CollectStep(Daemon)
  PROVE  SweepInv' /\ OwnerInv'
<1> USE DEF counters, KeepRecords
<1>0. /\ Daemon \in Collectors /\ Daemon \notin Manuals
      /\ \A r \in todo : r.key \in Keys
      /\ \A k \in Keys : records[k].attempts \in Nat
      /\ \A k \in Keys : ItemOf(k).key = k
      /\ AfterCollect(Daemon) = "next"
  BY Zenon DEF Collectors, TypeInv, TypeOK, Item, ItemOf, CollectionRecord,
         AfterCollect
<1>1. /\ pc[Daemon] \in Working
      /\ cur[Daemon] \in Item /\ cur[Daemon].key \in Keys
      /\ records[cur[Daemon].key] \in CollectionRecord
  BY <1>0, Zenon DEF CollectStep, MarkPending, MarkPendingLost, TxSend, TxReceipt,
              TxFail, MarkCollected, MarkRetryable, MarkFail, Working,
              TypeInv, TypeOK, WorksOnRecord, Item
<1>2. todo' = todo /\ crashes' = crashes
  BY Zenon DEF CollectStep, MarkPending, MarkPendingLost, TxSend, TxReceipt,
         TxFail, MarkCollected, MarkRetryable, MarkFail
<1>3. ASSUME Finish(Daemon)
      PROVE  pc'[Daemon] = "next"
  BY <1>0, <1>3, Zenon DEF Finish, Goto, TypeInv, TypeOK
\* The record stays as it is.
<1>4. ASSUME records' = records, failures' = failures \/ failures' # 0,
             \/ pc'[Daemon] \in Attempting /\ pc[Daemon] \in Attempting
                  /\ cur' = cur /\ (failures' # 0 \/ pc'[Daemon] # "failed")
             \/ /\ pc'[Daemon] = "next"
                /\ failures' # 0 \/ pc[Daemon] = "mark"
      PROVE  SweepInv' /\ OwnerInv'
  <2>1. AttemptsCounted' /\ ListedCollectible' /\ CurrentMayBeAttempted'
    BY <1>1, <1>2, <1>4, Zenon
      DEF SweepInv, AttemptsCounted, ListedCollectible, CurrentMayBeAttempted,
           Working, Attempting
  <2>2. ListedMayBeAttempted'
    BY <1>1, <1>2, <1>4, Zenon DEF SweepInv, ListedMayBeAttempted
  <2>3. OwnerInv'
    BY <1>2, <1>4, Zenon
      DEF OwnerInv, AttemptHoldsRecord, PendingIsOwned, ItemOf, Attempting
  <2> QED
    BY <2>1, <2>2, <2>3, Zenon DEF SweepInv
\* The record is marked pending.
<1>5. ASSUME pc[Daemon] = "mark",
             CanMarkPending(records[cur[Daemon].key], cur[Daemon].value),
             Write(cur[Daemon].key, MarkedPending(records[cur[Daemon].key])),
             \/ pc'[Daemon] = "tx" /\ cur' = cur /\ failures' = failures
             \/ pc'[Daemon] = "next" /\ failures' # 0
      PROVE  SweepInv' /\ OwnerInv'
  <2>1. /\ \A k \in Keys : k # cur[Daemon].key => records'[k] = records[k]
        /\ records'[cur[Daemon].key].state = "collect_pending"
        /\ records'[cur[Daemon].key].value = cur[Daemon].value
        /\ records'[cur[Daemon].key].attempts
             = records[cur[Daemon].key].attempts + 1
    BY <1>1, <1>5, RecordFields, Zenon
      DEF Write, CanMarkPending, ExpectedValueMatches, TypeInv, TypeOK
  <2>2. records[cur[Daemon].key].attempts < AttemptLimit
    BY <1>5, Zenon DEF SweepInv, CurrentMayBeAttempted
  <2>3. AttemptsCounted'
    BY <1>0, <1>1, <2>1, <2>2, AttemptLimitFacts DEF SweepInv, AttemptsCounted
  <2>4. \A r \in todo : r.key # cur[Daemon].key
    BY <1>1, Zenon DEF SweepInv, CurrentMayBeAttempted
  <2>5. ListedMayBeAttempted'
    BY <1>0, <1>1, <1>2, <2>1, <2>4, Zenon DEF SweepInv, ListedMayBeAttempted
  <2>6. ListedCollectible' /\ CurrentMayBeAttempted'
    BY <1>2, <1>5, <2>4, Zenon DEF ListedCollectible, CurrentMayBeAttempted, Working
  <2>7. ASSUME failures = 0, crashes = 0, NEW k \in Keys,
               records[k].state = "collect_pending"
        PROVE  FALSE
    BY <1>5, <2>7, Zenon DEF OwnerInv, PendingIsOwned
  <2>8. OwnerInv'
    <3>1. AttemptHoldsRecord' /\ (failures' = 0 => pc'[Daemon] # "failed")
      BY <1>5, <2>1, Zenon DEF AttemptHoldsRecord
    <3>2. ASSUME failures' = 0, crashes' = 0, NEW k \in Keys,
                 records'[k].state = "collect_pending"
          PROVE  pc'[Daemon] = "tx" /\ cur'[Daemon] = ItemOf(k)'
      <4>1. pc'[Daemon] = "tx" /\ cur' = cur /\ k = cur[Daemon].key
        BY <1>2, <1>5, <2>1, <2>7, <3>2, Zenon
      <4> QED
        BY <1>1, <2>1, <4>1, Zenon DEF Item, ItemOf
    <3> QED
      BY <3>1, <3>2, Zenon DEF OwnerInv, PendingIsOwned
  <2> QED
    BY <2>3, <2>5, <2>6, <2>8, Zenon DEF SweepInv
\* The attempt ends with a mark.
<1>6. ASSUME pc[Daemon] \in {"collected", "failed"}, pc'[Daemon] = "next",
             failures' = failures,
             \A k \in Keys : k # cur[Daemon].key => records'[k] = records[k],
             records'[cur[Daemon].key].state
               \in {"collected", "collect_failed_retryable"},
             records'[cur[Daemon].key].attempts
               = records[cur[Daemon].key].attempts
      PROVE  SweepInv' /\ OwnerInv'
  <2>1. AttemptsCounted' /\ ListedMayBeAttempted'
    BY <1>0, <1>1, <1>2, <1>6, Zenon DEF SweepInv, AttemptsCounted, ListedMayBeAttempted
  <2>2. ListedCollectible' /\ CurrentMayBeAttempted'
    BY <1>6, Zenon DEF ListedCollectible, CurrentMayBeAttempted, Working
  <2>3. ASSUME failures = 0, crashes = 0, NEW k \in Keys, k # cur[Daemon].key
        PROVE  records[k].state # "collect_pending"
    BY <1>0, <2>3, Zenon DEF OwnerInv, PendingIsOwned
  <2>4. OwnerInv'
    BY <1>2, <1>6, <2>3, Zenon DEF OwnerInv, AttemptHoldsRecord, PendingIsOwned
  <2> QED
    BY <2>1, <2>2, <2>4, Zenon DEF SweepInv
<1>7. CASE MarkPending(Daemon)
  <2>1. CASE CanMarkPending(records[cur[Daemon].key], cur[Daemon].value)
    <3>1. pc'[Daemon] = "tx"
      BY <1>0, <1>7, <2>1, Zenon DEF MarkPending, Goto, TypeInv, TypeOK
    <3> QED
      BY <1>5, <1>7, <2>1, <3>1, Zenon DEF MarkPending
  <2>2. CASE ~CanMarkPending(records[cur[Daemon].key], cur[Daemon].value)
    BY <1>3, <1>4, <1>7, <2>2, Zenon DEF MarkPending
  <2> QED
    BY <2>1, <2>2, Zenon
<1>8. CASE MarkPendingLost(Daemon)
  <2>1. failures' # 0
    BY <1>8 DEF MarkPendingLost, Fail, TypeInv, TypeOK
  <2> QED
    BY <1>3, <1>4, <1>5, <1>8, <2>1, Zenon DEF MarkPendingLost
<1>9. CASE TxSend(Daemon) \/ TxReceipt(Daemon)
  <2>1. /\ pc'[Daemon] \in {"wait", "collected"} /\ pc[Daemon] \in {"tx", "wait"}
        /\ UNCHANGED <<records, cur, failures>>
    BY <1>0, <1>9, Zenon DEF TxSend, TxReceipt, Goto, TypeInv, TypeOK
  <2> QED
    BY <1>4, <2>1, Zenon DEF Attempting
<1>10. CASE TxFail(Daemon)
  <2>1. /\ pc'[Daemon] = "failed" /\ pc[Daemon] \in {"tx", "wait"}
        /\ UNCHANGED <<records, cur>> /\ failures' # 0
    BY <1>0, <1>10 DEF TxFail, Fail, Goto, TypeInv, TypeOK
  <2> QED
    BY <1>4, <2>1, Zenon DEF Attempting
<1>11. CASE MarkCollected(Daemon) \/ MarkRetryable(Daemon)
  <2>1. pc[Daemon] \in {"collected", "failed"} /\ pc'[Daemon] = "next"
    BY <1>3, <1>11, Zenon DEF MarkCollected, MarkRetryable
  <2>2. /\ records[cur[Daemon].key].state = "collect_pending"
        /\ records[cur[Daemon].key].value = cur[Daemon].value
    BY <2>1, Zenon DEF OwnerInv, AttemptHoldsRecord
  <2>3. \/ Write(cur[Daemon].key, MarkedCollected(records[cur[Daemon].key]))
        \/ Write(cur[Daemon].key, MarkedFailedRetryable(records[cur[Daemon].key]))
    BY <1>11, <2>2, Zenon
      DEF MarkCollected, MarkRetryable, CanMarkCollected,
           CanMarkFailedRetryable, ExpectedValueMatches
  <2>4. /\ \A k \in Keys : k # cur[Daemon].key => records'[k] = records[k]
        /\ records'[cur[Daemon].key].state
             \in {"collected", "collect_failed_retryable"}
        /\ records'[cur[Daemon].key].attempts
             = records[cur[Daemon].key].attempts
    BY <1>1, <2>3, RecordFields DEF Write, TypeInv, TypeOK
  <2> QED
    BY <1>6, <1>11, <2>1, <2>4, Zenon DEF MarkCollected, MarkRetryable
<1>12. CASE MarkFail(Daemon)
  <2>1. failures' # 0
    BY <1>12 DEF MarkFail, Fail, TypeInv, TypeOK
  <2> QED
    BY <1>3, <1>4, <1>12, <2>1, Zenon DEF MarkFail
<1> QED
  BY <1>7, <1>8, <1>9, <1>10, <1>11, <1>12, Zenon DEF CollectStep

\* Both invariants are inductive, relative to TypeInv.
LEMMA DaemonInductive ==
  TypeInv /\ SweepInv /\ OwnerInv /\ [Next]_vars => SweepInv' /\ OwnerInv'
<1> SUFFICES ASSUME TypeInv, SweepInv, OwnerInv, [Next]_vars
             PROVE  SweepInv' /\ OwnerInv'
  OBVIOUS
<1>1. CASE Manuals = {}
  <2>1. CASE Next
    BY <1>1, <2>1, EnvironmentDaemon, SweepDaemon, CollectDaemon, Zenon
      DEF Next, Collectors
  <2>2. CASE UNCHANGED vars
    BY <2>2, Zenon DEF vars, SweepInv, AttemptsCounted, ListedCollectible,
                ListedMayBeAttempted, CurrentMayBeAttempted, OwnerInv,
                AttemptHoldsRecord, PendingIsOwned, ItemOf
  <2> QED
    BY <2>1, <2>2, Zenon
<1>2. CASE Manuals # {}
  BY <1>2, Zenon DEF SweepInv, OwnerInv, AttemptHoldsRecord, PendingIsOwned
<1> QED
  BY <1>1, <1>2, Zenon

\* The inductive invariants hold in every state.
LEMMA DaemonInvariant ==
  Spec => [](TypeInv /\ SweepInv /\ OwnerInv)
<1>1. Init => TypeInv /\ SweepInv /\ OwnerInv
  <2> SUFFICES ASSUME Init
               PROVE  TypeInv /\ SweepInv /\ OwnerInv
    OBVIOUS
  <2>1. pc[Daemon] = "idle" /\ \A k \in Keys : records[k] = NoCollection
    BY Zenon DEF Init, Collectors
  <2>2. SweepInv
    BY <2>1, AttemptLimitFacts
       DEF SweepInv, AttemptsCounted, ListedCollectible, ListedMayBeAttempted,
           CurrentMayBeAttempted, NoCollection, Working
  <2>3. OwnerInv
    BY <2>1 DEF OwnerInv, AttemptHoldsRecord, PendingIsOwned, NoCollection
  <2> QED
    BY <2>2, <2>3, SettlementTypeInit, Zenon
<1>2. TypeInv /\ SweepInv /\ OwnerInv /\ [Next]_vars
        => TypeInv' /\ SweepInv' /\ OwnerInv'
  BY SettlementTypeInductive, DaemonInductive, Zenon
<1> QED
  BY <1>1, <1>2, PTL DEF Spec

\* The daemon never attempts a RAV more often than max-attempts (once, where
\* the flag is 0): what it checks
\* when it lists the records still holds when it marks each of them, and each
\* listed record is marked once.
THEOREM AttemptsAlwaysBounded ==
  Spec => []AttemptsBounded
<1>1. TypeInv /\ SweepInv /\ OwnerInv => AttemptsBounded
  BY Zenon DEF SweepInv, AttemptsCounted, AttemptsBounded
<1> QED
  BY <1>1, DaemonInvariant, PTL

\* From the mark to the end of an attempt the record is the one the daemon
\* read: the gateway's conflict check protects it, and the reclaim runs when no
\* attempt does.
THEOREM AttemptAlwaysHoldsRecord ==
  Spec => []AttemptHoldsRecord
<1>1. TypeInv /\ SweepInv /\ OwnerInv => AttemptHoldsRecord
  BY Zenon DEF OwnerInv
<1> QED
  BY <1>1, DaemonInvariant, PTL

\* No record is left collect_pending behind the daemon's back, unless a call
\* failed or the daemon crashed.
THEOREM PendingAlwaysOwned ==
  Spec => []PendingIsOwned
<1>1. TypeInv /\ SweepInv /\ OwnerInv => PendingIsOwned
  BY Zenon DEF OwnerInv
<1> QED
  BY <1>1, DaemonInvariant, PTL
=============================================================================
