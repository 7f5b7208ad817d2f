--------------------- MODULE UsagePipelineRefinement ----------------------
(***************************************************************************)
(* Both backends implement the repository (Repository): every step of the  *)
(* tables and of the calls is one operation of it, or leaves it alone.     *)
(***************************************************************************)
EXTENDS UsagePipelineProofs

-----------------------------------------------------------------------------
(* The repository the tables implement.                                     *)

\* The rest of the repository, but for the named entries, is as before.
Moved(ss, us, cs, ks, ps) ==
  /\ \A s \in Sessions \ ss : StoredSession(s)' = StoredSession(s)
  /\ \A s \in Sessions \ us : EffectiveUsage(s)' = EffectiveUsage(s)
  /\ \A s \in Sessions \ cs : EffectiveCollection(s)' = EffectiveCollection(s)
  /\ \A k \in Keys \ ks : db'[WorkerRow(k)] = db[WorkerRow(k)]
  /\ \A p \in Payers \ ps : db'[QuotaRow(p)] = db[QuotaRow(p)]

LEMMA RStutter ==
  ASSUME Moved({}, {}, {}, {}, {})
  PROVE  UNCHANGED R!vars
BY Zenon DEF Moved, R!vars

LEMMA SessionSet ==
  ASSUME NEW s0 \in Sessions, NEW x,
         \A s \in Sessions \ {s0} : StoredSession(s)' = StoredSession(s),
         StoredSession(s0)' = x
  PROVE  [s \in Sessions |-> StoredSession(s)]'
           = [[s \in Sessions |-> StoredSession(s)] EXCEPT ![s0] = x]
BY Zenon

LEMMA UsageSet ==
  ASSUME NEW s0 \in Sessions, NEW x,
         \A s \in Sessions \ {s0} : EffectiveUsage(s)' = EffectiveUsage(s),
         EffectiveUsage(s0)' = x
  PROVE  [s \in Sessions |-> EffectiveUsage(s)]'
           = [[s \in Sessions |-> EffectiveUsage(s)] EXCEPT ![s0] = x]
BY Zenon

LEMMA CollectionSet ==
  ASSUME NEW s0 \in Sessions, NEW x,
         \A s \in Sessions \ {s0} : EffectiveCollection(s)' = EffectiveCollection(s),
         EffectiveCollection(s0)' = x
  PROVE  [s \in Sessions |-> EffectiveCollection(s)]'
           = [[s \in Sessions |-> EffectiveCollection(s)] EXCEPT ![s0] = x]
BY Zenon

LEMMA RApplyUsage ==
  ASSUME NEW s0 \in Sessions, NEW cost \in Costs, Moved({s0}, {s0}, {}, {}, {}),
         StoredSession(s0) # NoSession,
         StoredSession(s0)' = AddUsage(StoredSession(s0), cost),
         EffectiveUsage(s0)' = EffectiveUsage(s0) + cost
  PROVE  R!Next
<1>1. [s \in Sessions |-> StoredSession(s)]'
        = [[s \in Sessions |-> StoredSession(s)] EXCEPT
             ![s0] = AddUsage(StoredSession(s0), cost)]
  BY SessionSet, Zenon DEF Moved
<1>2. [s \in Sessions |-> EffectiveUsage(s)]'
        = [[s \in Sessions |-> EffectiveUsage(s)] EXCEPT
             ![s0] = EffectiveUsage(s0) + cost]
  BY UsageSet, Zenon DEF Moved
<1>3. /\ [s \in Sessions |-> EffectiveCollection(s)]'
           = [s \in Sessions |-> EffectiveCollection(s)]
      /\ [k \in Keys |-> db[WorkerRow(k)]]' = [k \in Keys |-> db[WorkerRow(k)]]
      /\ [p \in Payers |-> db[QuotaRow(p)]]' = [p \in Payers |-> db[QuotaRow(p)]]
  BY Zenon DEF Moved
<1>4. R!SessionApplyUsage(s0)
  BY <1>1, <1>2, <1>3, Zenon DEF R!SessionApplyUsage, R!AddUsage, AddUsage
<1> QED
  BY <1>4, Zenon DEF R!Next

LEMMA RRuntimeState ==
  ASSUME NEW s0 \in Sessions, NEW status \in SessionStatuses,
         Moved({s0}, {}, {}, {}, {}),
         StoredSession(s0) # NoSession,
         StoredSession(s0)' = WithRuntimeState(StoredSession(s0), status)
  PROVE  R!Next
<1>1. [s \in Sessions |-> StoredSession(s)]'
        = [[s \in Sessions |-> StoredSession(s)] EXCEPT
             ![s0] = WithRuntimeState(StoredSession(s0), status)]
  BY SessionSet, Zenon DEF Moved
<1>2. /\ [s \in Sessions |-> EffectiveUsage(s)]'
           = [s \in Sessions |-> EffectiveUsage(s)]
      /\ [s \in Sessions |-> EffectiveCollection(s)]'
           = [s \in Sessions |-> EffectiveCollection(s)]
      /\ [k \in Keys |-> db[WorkerRow(k)]]' = [k \in Keys |-> db[WorkerRow(k)]]
      /\ [p \in Payers |-> db[QuotaRow(p)]]' = [p \in Payers |-> db[QuotaRow(p)]]
  BY Zenon DEF Moved
<1>3. R!SessionUpdateRuntimeState(s0)
  BY <1>1, <1>2, Zenon DEF R!SessionUpdateRuntimeState, R!WithRuntimeState,
     WithRuntimeState, R!SessionStatuses, SessionStatuses
<1> QED
  BY <1>3, Zenon DEF R!Next

LEMMA RCreatePlain ==
  ASSUME NEW s0 \in Sessions, Moved({s0}, {}, {}, {}, {}),
         StoredSession(s0) = NoSession,
         StoredSession(s0)' = NewSession(0, FALSE)
  PROVE  R!Next
<1>1. [s \in Sessions |-> StoredSession(s)]'
        = [[s \in Sessions |-> StoredSession(s)] EXCEPT ![s0] = NewSession(0, FALSE)]
  BY SessionSet, Zenon DEF Moved
<1>2. /\ [s \in Sessions |-> EffectiveUsage(s)]'
           = [s \in Sessions |-> EffectiveUsage(s)]
      /\ [s \in Sessions |-> EffectiveCollection(s)]'
           = [s \in Sessions |-> EffectiveCollection(s)]
      /\ [k \in Keys |-> db[WorkerRow(k)]]' = [k \in Keys |-> db[WorkerRow(k)]]
      /\ [p \in Payers |-> db[QuotaRow(p)]]' = [p \in Payers |-> db[QuotaRow(p)]]
  BY Zenon DEF Moved
<1>3. R!SessionCreate(s0)
  BY <1>1, <1>2, Zenon DEF R!SessionCreate, R!NewSession, NewSession
<1> QED
  BY <1>3, Zenon DEF R!Next

LEMMA RCollectible ==
  ASSUME NEW s0 \in Sessions, NEW v,
         \A s \in Sessions \ {s0} : EffectiveCollection(s)' = EffectiveCollection(s),
         ~CollectionConflict(EffectiveCollection(s0), v),
         EffectiveCollection(s0)' = NextCollectible(EffectiveCollection(s0), v)
  PROVE  R!Collectible(s0, v)
<1>1. [s \in Sessions |-> EffectiveCollection(s)]'
        = [[s \in Sessions |-> EffectiveCollection(s)] EXCEPT
             ![s0] = NextCollectible(EffectiveCollection(s0), v)]
  BY CollectionSet, Zenon
<1>2. [s \in Sessions |-> EffectiveCollection(s)][s0] = EffectiveCollection(s0)
  OBVIOUS
<1> QED
  BY <1>1, <1>2, Zenon DEF R!Collectible, R!CollectionConflict, CollectionConflict,
     R!NextCollectible, NextCollectible, R!NewCollectionRecord, NewCollectionRecord

LEMMA RCreateWithRAV ==
  ASSUME NEW s0 \in Sessions, NEW v \in Values, Moved({s0}, {}, {s0}, {}, {}),
         StoredSession(s0) = NoSession,
         StoredSession(s0)' = NewSession(v, TRUE),
         ~CollectionConflict(EffectiveCollection(s0), v),
         EffectiveCollection(s0)' = NextCollectible(EffectiveCollection(s0), v)
  PROVE  R!Next
<1>1. [s \in Sessions |-> StoredSession(s)]'
        = [[s \in Sessions |-> StoredSession(s)] EXCEPT ![s0] = NewSession(v, TRUE)]
  BY SessionSet, Zenon DEF Moved
<1>2. /\ [s \in Sessions |-> EffectiveUsage(s)]'
           = [s \in Sessions |-> EffectiveUsage(s)]
      /\ [k \in Keys |-> db[WorkerRow(k)]]' = [k \in Keys |-> db[WorkerRow(k)]]
      /\ [p \in Payers |-> db[QuotaRow(p)]]' = [p \in Payers |-> db[QuotaRow(p)]]
  BY Zenon DEF Moved
<1>3. R!Collectible(s0, v)
  BY RCollectible, Zenon DEF Moved
<1>4. R!SessionCreate(s0)
  BY <1>1, <1>2, <1>3, Zenon DEF R!SessionCreate, R!NewSession, NewSession
<1> QED
  BY <1>4, Zenon DEF R!Next

LEMMA RUpdateRAV ==
  ASSUME NEW s0 \in Sessions, NEW v \in Values, NEW base,
         Moved({s0}, {}, {s0}, {}, {}),
         StoredSession(s0) # NoSession,
         base \in 0 .. StoredSession(s0).total,
         StoredSession(s0)' = WithRAVAndBaseline(StoredSession(s0), v, base),
         ~CollectionConflict(EffectiveCollection(s0), v),
         EffectiveCollection(s0)' = NextCollectible(EffectiveCollection(s0), v)
  PROVE  R!Next
<1>1. [s \in Sessions |-> StoredSession(s)]'
        = [[s \in Sessions |-> StoredSession(s)] EXCEPT
             ![s0] = WithRAVAndBaseline(StoredSession(s0), v, base)]
  BY SessionSet, Zenon DEF Moved
<1>2. /\ [s \in Sessions |-> EffectiveUsage(s)]'
           = [s \in Sessions |-> EffectiveUsage(s)]
      /\ [k \in Keys |-> db[WorkerRow(k)]]' = [k \in Keys |-> db[WorkerRow(k)]]
      /\ [p \in Payers |-> db[QuotaRow(p)]]' = [p \in Payers |-> db[QuotaRow(p)]]
  BY Zenon DEF Moved
<1>3. R!Collectible(s0, v)
  BY RCollectible, Zenon DEF Moved
<1>4. [s \in Sessions |-> StoredSession(s)][s0] = StoredSession(s0)
  OBVIOUS
<1>5. R!SessionUpdateRAVAndBaseline(s0)
  BY <1>1, <1>2, <1>3, <1>4, Zenon DEF R!SessionUpdateRAVAndBaseline,
     R!WithRAVAndBaseline, WithRAVAndBaseline
<1> QED
  BY <1>5, Zenon DEF R!Next

LEMMA RReserve ==
  ASSUME NEW k0 \in Keys, NEW p0 \in Payers, NEW s0 \in Sessions,
         Moved({}, {}, {}, {k0}, {p0}),
         db[WorkerRow(k0)] = NoWorker,
         db'[WorkerRow(k0)] = Worker(s0, p0),
         ~Exceeds(db, QuotaRow(p0), 1, MaxWorkers),
         db'[QuotaRow(p0)] = db[QuotaRow(p0)] + 1
  PROVE  R!Next
<1>1. [k \in Keys |-> db[WorkerRow(k)]]'
        = [[k \in Keys |-> db[WorkerRow(k)]] EXCEPT ![k0] = Worker(s0, p0)]
  BY Zenon DEF Moved
<1>2. [p \in Payers |-> db[QuotaRow(p)]]'
        = [[p \in Payers |-> db[QuotaRow(p)]] EXCEPT ![p0] = db[QuotaRow(p0)] + 1]
  BY Zenon DEF Moved
<1>3. /\ [s \in Sessions |-> StoredSession(s)]'
           = [s \in Sessions |-> StoredSession(s)]
      /\ [s \in Sessions |-> EffectiveUsage(s)]'
           = [s \in Sessions |-> EffectiveUsage(s)]
      /\ [s \in Sessions |-> EffectiveCollection(s)]'
           = [s \in Sessions |-> EffectiveCollection(s)]
  BY Zenon DEF Moved
<1>4. R!WorkerCreateAndReserveQuota(k0)
  BY <1>1, <1>2, <1>3, Zenon DEF R!WorkerCreateAndReserveQuota, R!Exceeds, Exceeds,
     R!Worker, Worker, R!Increment
<1> QED
  BY <1>4, Zenon DEF R!Next

LEMMA RDelete ==
  ASSUME NEW k0 \in Keys, Moved({}, {}, {}, {k0}, {}), db'[WorkerRow(k0)] = NoWorker
  PROVE  R!Next
<1>1. [k \in Keys |-> db[WorkerRow(k)]]'
        = [[k \in Keys |-> db[WorkerRow(k)]] EXCEPT ![k0] = NoWorker]
  BY Zenon DEF Moved
<1>2. /\ [s \in Sessions |-> StoredSession(s)]'
           = [s \in Sessions |-> StoredSession(s)]
      /\ [s \in Sessions |-> EffectiveUsage(s)]'
           = [s \in Sessions |-> EffectiveUsage(s)]
      /\ [s \in Sessions |-> EffectiveCollection(s)]'
           = [s \in Sessions |-> EffectiveCollection(s)]
      /\ [p \in Payers |-> db[QuotaRow(p)]]' = [p \in Payers |-> db[QuotaRow(p)]]
  BY Zenon DEF Moved
<1>3. R!WorkerDelete(k0)
  BY <1>1, <1>2, Zenon DEF R!WorkerDelete
<1> QED
  BY <1>3, Zenon DEF R!Next

LEMMA RDecrement ==
  ASSUME NEW p0 \in Payers, Moved({}, {}, {}, {}, {p0}),
         db'[QuotaRow(p0)] = IF db[QuotaRow(p0)] >= 1 THEN db[QuotaRow(p0)] - 1 ELSE 0
  PROVE  R!Next
<1>1. [p \in Payers |-> db[QuotaRow(p)]]'
        = [[p \in Payers |-> db[QuotaRow(p)]] EXCEPT
             ![p0] = IF db[QuotaRow(p0)] >= 1 THEN db[QuotaRow(p0)] - 1 ELSE 0]
  BY Zenon DEF Moved
<1>2. /\ [s \in Sessions |-> StoredSession(s)]'
           = [s \in Sessions |-> StoredSession(s)]
      /\ [s \in Sessions |-> EffectiveUsage(s)]'
           = [s \in Sessions |-> EffectiveUsage(s)]
      /\ [s \in Sessions |-> EffectiveCollection(s)]'
           = [s \in Sessions |-> EffectiveCollection(s)]
      /\ [k \in Keys |-> db[WorkerRow(k)]]' = [k \in Keys |-> db[WorkerRow(k)]]
  BY Zenon DEF Moved
<1>3. R!QuotaDecrement(p0)
  BY <1>1, <1>2, Zenon DEF R!QuotaDecrement, R!Decrement
<1> QED
  BY <1>3, Zenon DEF R!Next

LEMMA RMark ==
  ASSUME NEW s0 \in Sessions, NEW v, NEW to, Moved({}, {}, {s0}, {}, {}),
         EffectiveCollection(s0)' = Marked(EffectiveCollection(s0), v, to)
  PROVE  R!Next \/ UNCHANGED R!vars
<1> DEFINE rec == EffectiveCollection(s0)
<1>1. /\ [s \in Sessions |-> StoredSession(s)]'
           = [s \in Sessions |-> StoredSession(s)]
      /\ [s \in Sessions |-> EffectiveUsage(s)]'
           = [s \in Sessions |-> EffectiveUsage(s)]
      /\ [k \in Keys |-> db[WorkerRow(k)]]' = [k \in Keys |-> db[WorkerRow(k)]]
      /\ [p \in Payers |-> db[QuotaRow(p)]]' = [p \in Payers |-> db[QuotaRow(p)]]
  BY Zenon DEF Moved
<1>2. [s \in Sessions |-> EffectiveCollection(s)][s0] = rec
  OBVIOUS
<1>3. ASSUME NEW x, EffectiveCollection(s0)' = x
      PROVE  [s \in Sessions |-> EffectiveCollection(s)]'
               = [[s \in Sessions |-> EffectiveCollection(s)] EXCEPT ![s0] = x]
  BY <1>3, CollectionSet, Zenon DEF Moved
<1>4. CASE CanMarkPending(rec, v) /\ EffectiveCollection(s0)' = MarkedPending(rec)
  <2>1. R!CollectionMark(s0)
    BY <1>1, <1>2, <1>3, <1>4, Zenon DEF R!CollectionMark, R!CanMarkPending, CanMarkPending,
       R!MarkedPending, MarkedPending, R!ExpectedValueMatches, ExpectedValueMatches
  <2> QED
    BY <2>1, Zenon DEF R!Next
<1>5. CASE CanMarkCollected(rec, v) /\ EffectiveCollection(s0)' = MarkedCollected(rec)
  <2>1. R!CollectionMark(s0)
    BY <1>1, <1>2, <1>3, <1>5, Zenon DEF R!CollectionMark, R!CanMarkCollected,
       CanMarkCollected, R!MarkedCollected, MarkedCollected,
       R!ExpectedValueMatches, ExpectedValueMatches
  <2> QED
    BY <2>1, Zenon DEF R!Next
<1>6. CASE /\ CanMarkFailedRetryable(rec, v)
           /\ EffectiveCollection(s0)' = MarkedFailedRetryable(rec)
  <2>1. R!CollectionMark(s0)
    BY <1>1, <1>2, <1>3, <1>6, Zenon DEF R!CollectionMark, R!CanMarkFailedRetryable,
       CanMarkFailedRetryable, R!MarkedFailedRetryable, MarkedFailedRetryable,
       R!ExpectedValueMatches, ExpectedValueMatches
  <2> QED
    BY <2>1, Zenon DEF R!Next
<1>7. CASE EffectiveCollection(s0)' = rec
  <2>1. Moved({}, {}, {}, {}, {})
    BY <1>7, Zenon DEF Moved
  <2> QED
    BY <2>1, RStutter, Zenon
<1> HIDE DEF rec
<1> QED
  BY <1>4, <1>5, <1>6, <1>7, Zenon DEF Marked, rec

-----------------------------------------------------------------------------
(* What the tables and the calls say about the repository.                  *)

Unset(s) == \A d \in Clients : ~(call[d].step = "set" /\ call[d].s = s)
Logged(s) == ~(backend = "memory" /\ call[Reporter].step = "usage"
                                  /\ call[Reporter].s = s)

CollectionView ==
  \A s \in Sessions :
    /\ Unset(s) => EffectiveCollection(s) = C(s)
    /\ \A d \in Clients :
         call[d].step = "set" /\ call[d].s = s => EffectiveCollection(s) = call[d].next

UsageView ==
  \A s \in Sessions :
    EffectiveUsage(s) = IF Logged(s) THEN U(s) ELSE U(s) + call[Reporter].cost

LEMMA CollectionViewed == StorageInv => CollectionView
<1> SUFFICES ASSUME StorageInv, NEW s \in Sessions
             PROVE  /\ Unset(s) => EffectiveCollection(s) = C(s)
                    /\ \A d \in Clients :
                         call[d].step = "set" /\ call[d].s = s
                           => EffectiveCollection(s) = call[d].next
  BY Zenon DEF CollectionView
<1>1. Unset(s) => EffectiveCollection(s) = C(s)
  BY Zenon DEF Unset, EffectiveCollection, Unwritten, C
<1>2. ASSUME NEW d \in Clients, call[d].step = "set", call[d].s = s
      PROVE  EffectiveCollection(s) = call[d].next
  <2>1. \A c \in Clients : call[c].step = "set" => mu = c
    BY Zenon DEF StorageInv, CallInv, MuInv
  <2>2. Unwritten(s) = {d}
    BY <1>2, <2>1 DEF Unwritten
  <2>3. (CHOOSE c \in Unwritten(s) : TRUE) = d
    BY <2>2, Zenon
  <2> QED
    BY <2>2, <2>3, Zenon DEF EffectiveCollection
<1> QED
  BY <1>1, <1>2, Zenon

LEMMA UsageViewed == StorageInv => UsageView
<1> SUFFICES ASSUME StorageInv, NEW s \in Sessions
             PROVE  EffectiveUsage(s)
                      = IF Logged(s) THEN U(s) ELSE U(s) + call[Reporter].cost
  BY Zenon DEF UsageView
<1>1. \A c \in Clients : call[c].step = "usage" => c = Reporter
  BY Zenon DEF StorageInv, CallInv, StepInv, ArgsInv
<1>2. Reporter \in Clients
  BY PipelineAssumption, Zenon
<1>3. CASE Logged(s)
  <2>1. Unlogged(s) = {}
    BY <1>1, <1>3, Zenon DEF Logged, Unlogged
  <2> QED
    BY <1>3, <2>1, Zenon DEF EffectiveUsage, U
<1>4. CASE ~Logged(s)
  <2>1. Unlogged(s) = {Reporter}
    BY <1>1, <1>2, <1>4, Zenon DEF Logged, Unlogged
  <2>2. (CHOOSE c \in Unlogged(s) : TRUE) = Reporter
    BY <2>1, Zenon
  <2> QED
    BY <1>4, <2>1, <2>2, Zenon DEF EffectiveUsage, U
<1> QED
  BY <1>3, <1>4, Zenon

\* The repository before and after a step.
Viewed ==
  /\ CollectionView /\ UsageView /\ SessionView
  /\ CollectionView' /\ UsageView' /\ SessionView'

LEMMA StepViewed == StorageInv /\ StorageInv' => Viewed
BY CollectionViewed, UsageViewed, SessionViewed, PTL DEF Viewed

LEMMA ToSessionUsage ==
  ASSUME NEW row \in SessionRows, NEW rav, NEW cost
  PROVE  ToSession(AddUsage(row, cost), rav) = AddUsage(ToSession(row, rav), cost)
BY StorageAssumption DEF ToSession, AddUsage, SessionRows

LEMMA ToSessionStatus ==
  ASSUME NEW row \in SessionRows, NEW rav, NEW status \in SessionStatuses
  PROVE  ToSession(WithRuntimeState(row, status), rav)
           = WithRuntimeState(ToSession(row, rav), status)
BY Zenon DEF ToSession, WithRuntimeState, SessionRows

LEMMA ToSessionNew ==
  /\ ToSession(NewSessionRow, NoRow) = NewSession(0, FALSE)
  /\ \A v \in Values : ToSession(NewSessionRow, v) = NewSession(v, TRUE)
<1>1. ToSession(NewSessionRow, NoRow) = NewSession(0, FALSE)
  BY Zenon DEF ToSession, NewSessionRow, NewSession
<1>2. ASSUME NEW v \in Values
      PROVE  ToSession(NewSessionRow, v) = NewSession(v, TRUE)
  <2>1. v # NoRow
    BY NoRowIsNone, Zenon
  <2> QED
    BY <2>1, Zenon DEF ToSession, NewSessionRow, NewSession
<1> QED
  BY <1>1, <1>2, Zenon

LEMMA SameSession ==
  ASSUME NEW x \in Session, NEW y \in Session, x.status = y.status,
         x.hasRAV = y.hasRAV, x.rav = y.rav, x.total = y.total, x.base = y.base
  PROVE  x = y
BY DEF Session

LEMMA ToSessionRAV ==
  ASSUME NEW row \in SessionRows, NEW rav \in Values \cup {NoRow},
         NEW v \in Values, NEW base \in Nat
  PROVE  ToSession([row EXCEPT !.base = base], v)
           = WithRAVAndBaseline(ToSession(row, rav), v, base)
<1>0. v \in Nat /\ v # NoRow
  BY NoRowIsNone, Zenon
<1> SUFFICES ASSUME NEW x, x = [row EXCEPT !.base = base],
                    NEW t, t = ToSession(row, rav),
                    NEW u, u = WithRAVAndBaseline(t, v, base)
             PROVE  ToSession(x, v) = u
  OBVIOUS
<1>1. /\ x \in SessionRows /\ x.total = row.total /\ x.base = base
      /\ x.status = row.status
  BY SetBaseType, Zenon
<1>2. t \in Session /\ t.status = row.status /\ t.total = row.total
  BY ToSessionType, Zenon DEF ToSession
<1>3. u \in Session
  BY <1>0, <1>2, Zenon DEF WithRAVAndBaseline, Session
<1>4. /\ u.hasRAV = TRUE /\ u.rav = v /\ u.base = base
      /\ u.status = t.status /\ u.total = t.total
  BY <1>2, Zenon DEF WithRAVAndBaseline, Session
<1>5. /\ ToSession(x, v).hasRAV = TRUE /\ ToSession(x, v).rav = v
      /\ ToSession(x, v).base = base /\ ToSession(x, v).status = row.status
      /\ ToSession(x, v).total = row.total
  BY <1>0, <1>1, Zenon DEF ToSession
<1>6. ToSession(x, v) \in Session
  BY <1>1, ToSessionType, Zenon
<1> QED
  BY <1>2, <1>3, <1>4, <1>5, <1>6, SameSession, ZenonT(30)

-----------------------------------------------------------------------------
(* A step that leaves the calls with a write under way alone.               *)

Quiet ==
  /\ \A s \in Sessions :
       /\ Logged(s)' <=> Logged(s)
       /\ ~Logged(s) => call'[Reporter].cost = call[Reporter].cost
       /\ Unset(s)' <=> Unset(s)
  /\ \A d \in Clients : call[d].step = "set" => call'[d] = call[d]

LEMMA PgQuiet ==
  ASSUME StorageInv, StorageInv', backend = "postgres", backend' = backend
  PROVE  Quiet
<1>1. \A d \in Clients : call[d].step # "set" /\ call'[d].step # "set"
  <2>1. \A d \in Clients : StepInv(d) /\ StepInv(d)'
    BY Zenon DEF StorageInv, CallInv
  <2> QED
    BY <2>1, Zenon DEF StepInv
<1>2. \A s \in Sessions : Unset(s) /\ Unset(s)'
  BY <1>1, Zenon DEF Unset
<1>3. \A s \in Sessions : Logged(s) /\ Logged(s)'
  BY Zenon DEF Logged
<1> QED
  BY <1>1, <1>2, <1>3, Zenon DEF Quiet

LEMMA CallQuiet ==
  ASSUME NEW c \in Clients, CallOnly(c), backend' = backend,
         call[c].step \notin {"usage", "set"}, call'[c].step \notin {"usage", "set"}
  PROVE  Quiet
<1>1. \A d \in Clients : d # c => call'[d] = call[d]
  BY Zenon DEF CallOnly
<1>2. Reporter \in Clients
  BY PipelineAssumption, Zenon
<1>3. \A s \in Sessions : Logged(s)' <=> Logged(s)
  BY <1>1, <1>2, Zenon DEF Logged
<1>4. \A s \in Sessions : ~Logged(s) => call'[Reporter].cost = call[Reporter].cost
  BY <1>1, <1>2, Zenon DEF Logged
<1>5. \A s \in Sessions : Unset(s)' <=> Unset(s)
  BY <1>1, Zenon DEF Unset
<1>6. \A d \in Clients : call[d].step = "set" => call'[d] = call[d]
  BY <1>1, Zenon
<1> QED
  BY <1>3, <1>4, <1>5, <1>6, Zenon DEF Quiet

LEMMA QuietMoved ==
  ASSUME Viewed, Quiet, NEW ss, NEW rs, NEW us, NEW cs, NEW ks, NEW ps,
         Touch(ss, rs, us, cs, ks, ps), rs \subseteq ss
  PROVE  Moved(ss, us, cs, ks, ps)
<1>1. ASSUME NEW s \in Sessions, s \notin ss
      PROVE  StoredSession(s)' = StoredSession(s)
  <2>1. S(s)' = S(s) /\ RV(s)' = RV(s)
    BY <1>1, Zenon DEF Touch
  <2> QED
    BY <2>1, Zenon DEF Viewed, SessionView
<1>2. ASSUME NEW s \in Sessions, s \notin us
      PROVE  EffectiveUsage(s)' = EffectiveUsage(s)
  <2>1. U(s)' = U(s)
    BY <1>2, Zenon DEF Touch
  <2> QED
    BY <2>1, Zenon DEF Viewed, UsageView, Quiet
<1>3. ASSUME NEW s \in Sessions, s \notin cs
      PROVE  EffectiveCollection(s)' = EffectiveCollection(s)
  <2>1. C(s)' = C(s)
    BY <1>3, Zenon DEF Touch
  <2>2. CASE Unset(s)
    BY <2>1, <2>2, Zenon DEF Viewed, CollectionView, Quiet
  <2>3. CASE ~Unset(s)
    <3>1. PICK d \in Clients : call[d].step = "set" /\ call[d].s = s
      BY <2>3, Zenon DEF Unset
    <3>2. call'[d] = call[d]
      BY <3>1, Zenon DEF Quiet
    <3> QED
      BY <3>1, <3>2, Zenon DEF Viewed, CollectionView
  <2> QED
    BY <2>2, <2>3, Zenon
<1>4. /\ \A k \in Keys \ ks : db'[WorkerRow(k)] = db[WorkerRow(k)]
      /\ \A p \in Payers \ ps : db'[QuotaRow(p)] = db[QuotaRow(p)]
  BY Zenon DEF Touch, W, Q
<1> QED
  BY <1>1, <1>2, <1>3, <1>4, Zenon DEF Moved

LEMMA QuietStutter ==
  ASSUME StorageInv, Viewed, Quiet, db' = db
  PROVE  R!Next \/ UNCHANGED R!vars
<1>1. Touch({}, {}, {}, {}, {}, {})
  BY SetNothing, Zenon DEF StorageInv, StorageTypes
<1>2. Moved({}, {}, {}, {}, {})
  BY <1>1, QuietMoved
<1> QED
  BY <1>2, RStutter, Zenon

-----------------------------------------------------------------------------
(* Every step of a backend is a write of the repository, or none.           *)

Refined == R!Next \/ UNCHANGED R!vars

LEMMA StoredView ==
  ASSUME Viewed, NEW s \in Sessions
  PROVE  /\ S(s) \in SessionRows => /\ StoredSession(s) = ToSession(S(s), RV(s))
                                    /\ StoredSession(s) # NoSession
         /\ S(s)' \in SessionRows => StoredSession(s)' = ToSession(S(s)', RV(s)')
         /\ S(s) = NoRow => StoredSession(s) = NoSession
<1>1. /\ S(s) \in SessionRows => S(s) # NoRow
      /\ S(s)' \in SessionRows => S(s)' # NoRow
  BY NoRowIsNone, Zenon
<1> QED
  BY <1>1, Zenon DEF Viewed, SessionView

LEMMA DoneQuiet ==
  ASSUME StorageInv, NEW c \in Clients, Done(c), backend' = backend,
         call[c].step \notin {"usage", "set"}
  PROVE  Quiet
<1>1. CallOnly(c) /\ call'[c].step = "idle"
  BY DoneEffect, IdleType, Zenon DEF StorageInv
<1> QED
  BY <1>1, CallQuiet, Zenon

LEMMA RefRuntimeState ==
  ASSUME StorageInv, Viewed, NEW c \in Clients, UpdateRuntimeState(c)
  PROVE  Refined
<1>0. ArgsInv(c) /\ StepInv(c) /\ Tables
  BY Zenon DEF StorageInv, CallInv, StorageTypes
<1>1. /\ call[c].kind = "runtime" /\ call[c].step = "one"
      /\ call[c].s \in Sessions /\ call[c].status \in SessionStatuses
  BY <1>0, Zenon DEF UpdateRuntimeState, ArgsInv, StepInv
<1> SUFFICES ASSUME NEW s \in Sessions, s = call[c].s,
                    NEW status \in SessionStatuses, status = call[c].status
             PROVE  Refined
  BY <1>1, Zenon
<1>2. /\ Done(c) /\ Kept
      /\ \/ db' = db
         \/ /\ S(s) \in SessionRows
            /\ db' = [db EXCEPT ![SessionRow(s)] = WithRuntimeState(S(s), status)]
  BY RuntimeStateEffect, Zenon
<1>3. Quiet
  BY <1>1, <1>2, DoneQuiet, Zenon DEF Kept
<1>4. CASE db' = db
  BY <1>3, <1>4, QuietStutter, Zenon DEF Refined
<1>5. CASE /\ S(s) \in SessionRows
           /\ db' = [db EXCEPT ![SessionRow(s)] = WithRuntimeState(S(s), status)]
  <2>1. Touch({s}, {}, {}, {}, {}, {}) /\ S(s)' = WithRuntimeState(S(s), status)
    <3> SUFFICES ASSUME NEW x, x = WithRuntimeState(S(s), status)
                 PROVE  Touch({s}, {}, {}, {}, {}, {}) /\ S(s)' = x
      OBVIOUS
    <3> QED
      BY <1>0, <1>5, SetSession, Zenon
  <2>2. Moved({s}, {}, {}, {}, {}) /\ RV(s)' = RV(s)
    BY <1>3, <2>1, QuietMoved, Zenon DEF Touch
  <2>3. WithRuntimeState(S(s), status) \in SessionRows
    BY <1>5, RuntimeStateType, Zenon
  <2>4. /\ StoredSession(s) = ToSession(S(s), RV(s)) /\ StoredSession(s) # NoSession
        /\ StoredSession(s)' = ToSession(WithRuntimeState(S(s), status), RV(s))
    BY <1>5, <2>1, <2>2, <2>3, StoredView, Zenon
  <2>5. StoredSession(s)' = WithRuntimeState(StoredSession(s), status)
    BY <1>5, <2>4, ToSessionStatus, ZenonT(30)
  <2> QED
    BY <2>2, <2>4, <2>5, RRuntimeState, Zenon DEF Refined
<1> QED
  BY <1>2, <1>4, <1>5, Zenon

LEMMA RefDeleteWorker ==
  ASSUME StorageInv, Viewed, NEW c \in Clients, DeleteWorker(c)
  PROVE  Refined
<1>0. ArgsInv(c) /\ StepInv(c) /\ Tables
  BY Zenon DEF StorageInv, CallInv, StorageTypes
<1>1. call[c].kind = "delete" /\ call[c].step = "one" /\ call[c].k \in Keys
  BY <1>0, Zenon DEF DeleteWorker, ArgsInv, StepInv
<1> SUFFICES ASSUME NEW k \in Keys, k = call[c].k
             PROVE  Refined
  BY <1>1, Zenon
<1>2. Done(c) /\ Kept /\ db' = [db EXCEPT ![WorkerRow(k)] = NoWorker]
  BY Zenon DEF DeleteWorker, Execute
<1>3. Quiet
  BY <1>1, <1>2, DoneQuiet, Zenon DEF Kept
<1>4. Touch({}, {}, {}, {}, {k}, {}) /\ W(k)' = NoWorker
  BY <1>0, <1>2, SetWorker, Zenon
<1>5. Moved({}, {}, {}, {k}, {})
  BY <1>3, <1>4, QuietMoved
<1>6. db'[WorkerRow(k)] = NoWorker
  BY <1>4, Zenon DEF W
<1> QED
  BY <1>5, <1>6, RDelete, Zenon DEF Refined

LEMMA RefDecrement ==
  ASSUME StorageInv, Viewed, NEW c \in Clients, DecrementQuota(c)
  PROVE  Refined
<1>0. ArgsInv(c) /\ StepInv(c) /\ Tables
  BY Zenon DEF StorageInv, CallInv, StorageTypes
<1>1. call[c].kind = "decrement" /\ call[c].step = "one" /\ call[c].p \in Payers
  BY <1>0, Zenon DEF DecrementQuota, ArgsInv, StepInv
<1> SUFFICES ASSUME NEW p \in Payers, p = call[c].p,
                    NEW x, x = Decrement(db, QuotaRow(p), 1)[QuotaRow(p)]
             PROVE  Refined
  BY <1>1, Zenon
<1>2. Done(c) /\ Kept /\ db' = [db EXCEPT ![QuotaRow(p)] = x]
  BY Zenon DEF DecrementQuota, Execute
<1>3. Quiet
  BY <1>1, <1>2, DoneQuiet, Zenon DEF Kept
<1>4. Touch({}, {}, {}, {}, {}, {p}) /\ Q(p)' = x
  BY <1>0, <1>2, SetQuota, Zenon
<1>5. Moved({}, {}, {}, {}, {p})
  BY <1>3, <1>4, QuietMoved
<1>6. db'[QuotaRow(p)] = IF db[QuotaRow(p)] >= 1 THEN db[QuotaRow(p)] - 1 ELSE 0
  BY <1>0, <1>4, DecrementValue, Zenon DEF Q
<1> QED
  BY <1>5, <1>6, RDecrement, Zenon DEF Refined

LEMMA RefMark ==
  ASSUME StorageInv, Viewed, NEW c \in Clients, MarkCollection(c)
  PROVE  Refined
<1>0. /\ ArgsInv(c) /\ StepInv(c) /\ Tables
      /\ \A d \in Clients : call[d].step = "set" => mu = d
  BY Zenon DEF StorageInv, CallInv, StorageTypes, MuInv
<1>1. /\ call[c].kind = "mark" /\ call[c].step = "one" /\ call[c].s \in Sessions
      /\ mu = NoRow
  BY <1>0, Zenon DEF MarkCollection, ArgsInv, StepInv
<1> SUFFICES ASSUME NEW s \in Sessions, s = call[c].s,
                    NEW x, x = Marked(C(s), call[c].v, call[c].to)
             PROVE  Refined
  BY <1>1, Zenon
<1>2. Done(c) /\ Kept /\ db' = [db EXCEPT ![CollectionRow(s)] = x]
  BY Zenon DEF MarkCollection, Execute, C
<1>3. Quiet
  BY <1>1, <1>2, DoneQuiet, Zenon DEF Kept
<1>4. Touch({}, {}, {}, {s}, {}, {}) /\ C(s)' = x
  BY <1>0, <1>2, SetCollection, Zenon
<1>5. Moved({}, {}, {s}, {}, {})
  BY <1>3, <1>4, QuietMoved
<1>6. Unset(s) /\ Unset(s)'
  <2>1. Unset(s)
    BY <1>0, <1>1, NoRowIsNone, Zenon DEF Unset
  <2> QED
    BY <1>3, <2>1, Zenon DEF Quiet
<1>7. EffectiveCollection(s)' = Marked(EffectiveCollection(s), call[c].v, call[c].to)
  BY <1>4, <1>6, Zenon DEF Viewed, CollectionView
<1> QED
  BY <1>5, <1>7, RMark, Zenon DEF Refined

LEMMA RefRAV ==
  ASSUME Viewed, NEW s \in Sessions, NEW v \in Values, NEW base \in Nat,
         Moved({s}, {}, {s}, {}, {}), S(s) \in SessionRows, base <= S(s).total,
         RV(s) \in Values \cup {NoRow}, RV(s)' = v,
         S(s)' = [S(s) EXCEPT !.base = base],
         ~CollectionConflict(EffectiveCollection(s), v),
         EffectiveCollection(s)' = NextCollectible(EffectiveCollection(s), v)
  PROVE  Refined
<1>1. [S(s) EXCEPT !.base = base] \in SessionRows
  BY SetBaseType, Zenon
<1>2. /\ StoredSession(s) = ToSession(S(s), RV(s)) /\ StoredSession(s) # NoSession
      /\ StoredSession(s)' = ToSession([S(s) EXCEPT !.base = base], v)
  BY <1>1, StoredView, Zenon
<1>3. StoredSession(s)' = WithRAVAndBaseline(StoredSession(s), v, base)
  <2>1. ToSession([S(s) EXCEPT !.base = base], v)
          = WithRAVAndBaseline(ToSession(S(s), RV(s)), v, base)
    BY ToSessionRAV, Zenon
  <2> QED
    BY <1>2, <2>1, Zenon
<1>4. base \in 0 .. StoredSession(s).total
  BY <1>2 DEF ToSession, SessionRows
<1> QED
  BY <1>2, <1>3, <1>4, RUpdateRAV, Zenon DEF Refined

LEMMA RefReserve ==
  ASSUME Viewed, Quiet, NEW k \in Keys, NEW p \in Payers, NEW s \in Sessions,
         Touch({}, {}, {}, {}, {k}, {p}), W(k) = NoWorker, W(k)' = Worker(s, p),
         Q(p)' = Q(p) + 1, ~(Q(p) + 1 > MaxWorkers)
  PROVE  Refined
<1>1. Moved({}, {}, {}, {k}, {p})
  BY QuietMoved
<1>2. /\ db[WorkerRow(k)] = NoWorker /\ db'[WorkerRow(k)] = Worker(s, p)
      /\ ~Exceeds(db, QuotaRow(p), 1, MaxWorkers)
      /\ db'[QuotaRow(p)] = db[QuotaRow(p)] + 1
  BY Zenon DEF W, Q, Exceeds
<1> QED
  BY <1>1, <1>2, RReserve, Zenon DEF Refined

LEMMA RefPlainCreate ==
  ASSUME StorageInv, Viewed, Quiet, NEW s \in Sessions, S(s) = NoRow,
         db' = [db EXCEPT ![SessionRow(s)] = NewSessionRow]
  PROVE  Refined
<1>0. Tables /\ Books
  BY Zenon DEF StorageInv, StorageTypes
<1>1. Touch({s}, {}, {}, {}, {}, {}) /\ S(s)' = NewSessionRow
  BY <1>0, SetSession, Zenon
<1>2. Moved({s}, {}, {}, {}, {})
  BY <1>1, QuietMoved
<1>3. RV(s)' = NoRow
  BY <1>0, <1>1, Zenon DEF Touch, Books, Covered
<1>4. StoredSession(s) = NoSession /\ StoredSession(s)' = ToSession(NewSessionRow, NoRow)
  BY <1>1, <1>3, NewSessionRowType, StoredView, Zenon
<1>5. StoredSession(s)' = NewSession(0, FALSE)
  BY <1>4, ToSessionNew, Zenon
<1> QED
  BY <1>2, <1>4, <1>5, RCreatePlain, Zenon DEF Refined

LEMMA RefPgCreate ==
  ASSUME StorageInv, StorageInv', Viewed, NEW c \in Clients, PgCreate(c)
  PROVE  Refined
<1>0. ArgsInv(c)
  BY Zenon DEF StorageInv, CallInv
<1>1. backend = "postgres" /\ backend' = backend /\ call[c].s \in Sessions
  BY <1>0, Zenon DEF PgCreate, Kept, ArgsInv
<1>2. Quiet
  BY <1>1, PgQuiet, Zenon
<1>3. \/ db' = db
      \/ /\ S(call[c].s) = NoRow
         /\ db' = [db EXCEPT ![SessionRow(call[c].s)] = NewSessionRow]
  BY Zenon DEF PgCreate, Execute, S
<1> QED
  BY <1>1, <1>2, <1>3, QuietStutter, RefPlainCreate, Zenon DEF Refined

\* The other statements of a transaction change nothing yet.
LEMMA RefTx ==
  ASSUME StorageInv, StorageInv', Viewed, backend = "postgres", backend' = backend,
         db' = db
  PROVE  Refined
BY PgQuiet, QuietStutter, Zenon DEF Refined

LEMMA RefCommit ==
  ASSUME StorageInv, StorageInv', Viewed, NEW c \in Clients, Commit(c)
  PROVE  Refined
<1>0. /\ ArgsInv(c) /\ StepInv(c) /\ RAVInv(c) /\ Tables /\ Books
      /\ call[c] \in Calls /\ call[c].step = "commit"
      /\ \A d \in Clients : StepInv(d) /\ StepInv(d)'
  BY Zenon DEF StorageInv, StorageTypes, CallInv, Commit
<1>1. backend = "postgres" /\ backend' = backend
  BY CommitEffect, Zenon
<1>2. Quiet
  BY <1>1, PgQuiet, Zenon
<1>3. ASSUME NEW s \in Sessions
      PROVE  /\ EffectiveUsage(s) = U(s) /\ EffectiveUsage(s)' = U(s)'
             /\ EffectiveCollection(s) = C(s) /\ EffectiveCollection(s)' = C(s)'
  <2>1. Logged(s) /\ Logged(s)'
    BY <1>1, Zenon DEF Logged
  <2>2. Unset(s) /\ Unset(s)'
    BY <1>0, <1>1, Zenon DEF StepInv, Unset
  <2> QED
    BY <2>1, <2>2, Zenon DEF Viewed, UsageView, CollectionView
<1>4. CASE call[c].kind = "usage"
  <2>1. call[c].s \in Sessions /\ call[c].cost \in Costs
    BY <1>0, <1>4, Zenon DEF ArgsInv
  <2> SUFFICES ASSUME NEW s \in Sessions, s = call[c].s,
                      NEW cost \in Costs, cost = call[c].cost
               PROVE  Refined
    BY <2>1, Zenon
  <2>2. /\ Touch({s}, {}, {s}, {}, {}, {}) /\ S(s) \in SessionRows
        /\ S(s)' = AddUsage(S(s), cost) /\ U(s)' = U(s) + cost
    BY <1>4, UsageCommitted, Zenon
  <2>3. Moved({s}, {s}, {}, {}, {}) /\ RV(s)' = RV(s)
    BY <1>2, <2>2, QuietMoved, Zenon DEF Touch
  <2>4. AddUsage(S(s), cost) \in SessionRows
    BY <2>2, NoRowIsNone, AddUsageType, Zenon
  <2>5. /\ StoredSession(s) = ToSession(S(s), RV(s)) /\ StoredSession(s) # NoSession
        /\ StoredSession(s)' = ToSession(AddUsage(S(s), cost), RV(s))
    BY <2>2, <2>3, <2>4, StoredView, Zenon
  <2>6. StoredSession(s)' = AddUsage(StoredSession(s), cost)
    <3>1. ToSession(AddUsage(S(s), cost), RV(s))
            = AddUsage(ToSession(S(s), RV(s)), cost)
      BY <2>2, ToSessionUsage, Zenon
    <3> QED
      BY <2>5, <3>1, Zenon
  <2>7. EffectiveUsage(s)' = EffectiveUsage(s) + cost
    BY <1>3, <2>2, Zenon
  <2> QED
    BY <2>3, <2>5, <2>6, <2>7, RApplyUsage, Zenon DEF Refined
<1>5. CASE call[c].kind \in {"create", "rav"}
  <2>1. call[c].s \in Sessions /\ call[c].v \in Values /\ call[c].base \in Nat
    BY <1>0, <1>5, Zenon DEF ArgsInv, StepInv, Calls
  <2> SUFFICES ASSUME NEW s \in Sessions, s = call[c].s, NEW v \in Values, v = call[c].v,
                      NEW base \in Nat, base = call[c].base
               PROVE  Refined
    BY <2>1, Zenon
  <2>2. /\ Touch({s}, {s}, {}, {s}, {}, {})
        /\ RV(s)' = v /\ C(s)' = NextCollectible(C(s), v)
        /\ ~CollectionConflict(C(s), v)
        /\ call[c].kind = "create" => S(s) = NoRow /\ S(s)' = NewSessionRow
        /\ call[c].kind = "rav" => /\ S(s) \in SessionRows
                                   /\ S(s)' = [S(s) EXCEPT !.base = base]
    BY <1>5, RAVCommitted, Zenon
  <2>3. Moved({s}, {}, {s}, {}, {})
    BY <1>2, <2>2, QuietMoved, Zenon
  <2>4. /\ ~CollectionConflict(EffectiveCollection(s), v)
        /\ EffectiveCollection(s)' = NextCollectible(EffectiveCollection(s), v)
    BY <1>3, <2>2, Zenon
  <2>5. CASE call[c].kind = "create"
    <3>1. StoredSession(s) = NoSession /\ StoredSession(s)' = ToSession(NewSessionRow, v)
      BY <2>2, <2>5, NewSessionRowType, StoredView, Zenon
    <3>2. StoredSession(s)' = NewSession(v, TRUE)
      BY <3>1, ToSessionNew, Zenon
    <3> QED
      BY <2>3, <2>4, <3>1, <3>2, RCreateWithRAV, Zenon DEF Refined
  <2>6. CASE call[c].kind = "rav"
    <3>0. RV(s) \in Values \cup {NoRow}
      BY <1>0, Zenon DEF Tables
    <3>1. base <= S(s).total
      BY <1>0, <2>6, Zenon DEF RAVInv
    <3>2. S(s) \in SessionRows /\ S(s)' = [S(s) EXCEPT !.base = base]
      BY <2>2, <2>6, Zenon
    <3> QED
      BY <2>2, <2>3, <2>4, <3>0, <3>1, <3>2, RefRAV, Zenon
  <2> QED
    BY <1>5, <2>5, <2>6, Zenon
<1>6. CASE call[c].kind = "reserve"
  <2>1. call[c].k \in Keys /\ call[c].p \in Payers /\ call[c].s \in Sessions
    BY <1>0, <1>6, Zenon DEF ArgsInv
  <2> SUFFICES ASSUME NEW k \in Keys, k = call[c].k, NEW p \in Payers, p = call[c].p,
                      NEW s \in Sessions, s = call[c].s
               PROVE  Refined
    BY <2>1, Zenon
  <2>2. /\ Touch({}, {}, {}, {}, {k}, {p})
        /\ W(k) = NoWorker /\ W(k)' = Worker(s, p)
        /\ Q(p)' = Q(p) + 1 /\ ~(Q(p) + 1 > MaxWorkers)
    BY <1>6, ReserveCommitted, Zenon
  <2> QED
    BY <1>2, <2>2, RefReserve, Zenon
<1> QED
  BY <1>0, <1>4, <1>5, <1>6, Zenon DEF StepInv

LEMMA RefMemLock ==
  ASSUME StorageInv, Viewed, NEW c \in Clients, MemLock(c)
  PROVE  Refined
<1>0. StorageTypes /\ call \in [Clients -> Calls] /\ call[c] \in Calls
  BY Zenon DEF StorageInv, StorageTypes
<1>1. call[c].step = "session" /\ db' = db /\ backend' = backend
  BY Zenon DEF MemLock
<1>2. load'.unary = load.unary
  BY Zenon DEF MemLock
<1>3. CASE Done(c)
  BY <1>1, <1>3, DoneQuiet, QuietStutter, Zenon DEF Refined
<1>4. CASE ~Done(c)
  <2>1. PICK next : call' = [call EXCEPT ![c] =
                               [call[c] EXCEPT !.step = "swap", !.next = next]]
    BY <1>4, Zenon DEF MemLock
  <2>2. [call[c] EXCEPT !.step = "swap", !.next = next].step = "swap"
    BY <1>0, Zenon DEF Calls
  <2>3. call'[c].step = "swap" /\ \A d \in Clients \ {c} : call'[d] = call[d]
    BY <1>0, <2>1, <2>2, Zenon
  <2>4. CallOnly(c)
    BY <1>2, <2>3, MemLockStep, Zenon DEF Stepped, Frame
  <2>5. Quiet
    BY <1>1, <2>3, <2>4, CallQuiet, Zenon
  <2> QED
    BY <1>1, <2>5, QuietStutter, Zenon DEF Refined
<1> QED
  BY <1>3, <1>4, Zenon

LEMMA RefMemSwap ==
  ASSUME StorageInv, Viewed, NEW c \in Clients, MemSwap(c)
  PROVE  Refined
<1>0. /\ StorageTypes /\ ArgsInv(c) /\ StepInv(c) /\ RAVInv(c) /\ MuInv(c) /\ Tables
      /\ call[c] \in Calls /\ call[c].step = "swap"
      /\ \A d \in Clients : call[d].step = "set" => mu = d
  BY Zenon DEF StorageInv, StorageTypes, CallInv, MuInv, MemSwap
<1>1. /\ call[c].kind \in {"create", "rav"} /\ call[c].s \in Sessions
      /\ call[c].v \in Values /\ call[c].base \in Nat /\ mu = c
      /\ backend' = backend
  BY <1>0, Zenon DEF ArgsInv, StepInv, MuInv, Calls, MemSwap
<1> SUFFICES ASSUME NEW s \in Sessions, s = call[c].s, NEW v \in Values, v = call[c].v,
                    NEW base \in Nat, base = call[c].base
             PROVE  Refined
  BY <1>1, Zenon
<1>2. CASE db' = db /\ Done(c)
  BY <1>0, <1>1, <1>2, DoneQuiet, QuietStutter, Zenon DEF Refined
<1>3. CASE MemSwapped(c, s, v)
  <2>1. /\ Touch({s}, {s}, {}, {}, {}, {}) /\ RV(s)' = v
        /\ call[c].kind = "create" => S(s) = NoRow /\ S(s)' = NewSessionRow
        /\ call[c].kind = "rav" => /\ S(s) \in SessionRows
                                   /\ S(s)' = [S(s) EXCEPT !.base = base]
        /\ Step(c, "set") /\ mu' = mu
    BY <1>3, Zenon DEF MemSwapped
  <2>2. CallOnly(c) /\ SameArgs(c) /\ call'[c].step = "set"
    BY <1>0, <2>1, StepEffect, Zenon DEF Steps
  <2>3. call'[c].next = call[c].next
    <3>1. call \in [Clients -> Calls]
      BY <1>0, Zenon DEF StorageTypes
    <3> QED
      BY <2>1, <3>1, Zenon DEF Step, Calls
  <2>4. \A d \in Clients : d # c => call'[d] = call[d] /\ call[d].step # "set"
    BY <1>0, <1>1, <2>2, Zenon DEF CallOnly
  <2>5. \A t \in Sessions : Unset(t) /\ (t # s => Unset(t)')
    <3>1. call'[c].s = s
      BY <2>2, Zenon DEF SameArgs
    <3> QED
      BY <1>0, <2>4, <3>1, Zenon DEF Unset
  <2>6. EffectiveCollection(s) = C(s) /\ EffectiveCollection(s)' = call[c].next
    BY <2>2, <2>3, <2>5, Zenon DEF Viewed, CollectionView, SameArgs
  <2>7. /\ ~CollectionConflict(EffectiveCollection(s), v)
        /\ EffectiveCollection(s)' = NextCollectible(EffectiveCollection(s), v)
    <3>1. ~CollectionConflict(C(s), v) /\ call[c].next = NextCollectible(C(s), v)
      BY <1>0, Zenon DEF MuInv
    <3> QED
      BY <2>6, <3>1, Zenon
  <2>8. Moved({s}, {}, {s}, {}, {})
    <3>1. ASSUME NEW t \in Sessions, t # s
          PROVE  StoredSession(t)' = StoredSession(t)
      <4>1. S(t)' = S(t) /\ RV(t)' = RV(t)
        BY <2>1, <3>1, Zenon DEF Touch
      <4> QED
        BY <4>1, Zenon DEF Viewed, SessionView
    <3>2. ASSUME NEW t \in Sessions
          PROVE  EffectiveUsage(t)' = EffectiveUsage(t)
      <4>1. U(t)' = U(t)
        BY <2>1, Zenon DEF Touch
      <4>2. Logged(t)' <=> Logged(t)
        BY <1>0, <1>1, <2>2, <2>4, PipelineAssumption, Zenon DEF Logged
      <4>3. ~Logged(t) => call'[Reporter].cost = call[Reporter].cost
        BY <1>0, <2>4, PipelineAssumption, Zenon DEF Logged
      <4> QED
        BY <4>1, <4>2, <4>3, Zenon DEF Viewed, UsageView
    <3>3. ASSUME NEW t \in Sessions, t # s
          PROVE  EffectiveCollection(t)' = EffectiveCollection(t)
      <4>1. C(t)' = C(t)
        BY <2>1, Zenon DEF Touch
      <4> QED
        BY <2>5, <3>3, <4>1, Zenon DEF Viewed, CollectionView
    <3>4. /\ \A k \in Keys : db'[WorkerRow(k)] = db[WorkerRow(k)]
          /\ \A p \in Payers : db'[QuotaRow(p)] = db[QuotaRow(p)]
      BY <2>1, Zenon DEF Touch, W, Q
    <3> QED
      BY <3>1, <3>2, <3>3, <3>4, Zenon DEF Moved
  <2>9. CASE call[c].kind = "create"
    <3>1. StoredSession(s) = NoSession /\ StoredSession(s)' = ToSession(NewSessionRow, v)
      BY <2>1, <2>9, NewSessionRowType, StoredView, Zenon
    <3>2. StoredSession(s)' = NewSession(v, TRUE)
      BY <3>1, ToSessionNew, Zenon
    <3> QED
      BY <2>7, <2>8, <3>1, <3>2, RCreateWithRAV, Zenon DEF Refined
  <2>10. CASE call[c].kind = "rav"
    <3>1. base <= S(s).total /\ RV(s) \in Values \cup {NoRow}
      BY <1>0, <2>10, Zenon DEF RAVInv, Tables
    <3>2. S(s) \in SessionRows /\ S(s)' = [S(s) EXCEPT !.base = base]
      BY <2>1, <2>10, Zenon
    <3> QED
      BY <2>1, <2>7, <2>8, <3>1, <3>2, RefRAV, Zenon
  <2> QED
    BY <1>1, <2>9, <2>10, Zenon
<1> QED
  BY <1>2, <1>3, MemSwapEffect, Zenon

LEMMA RefMemSetRecord ==
  ASSUME StorageInv, Viewed, NEW c \in Clients, MemSetRecord(c)
  PROVE  Refined
<1>0. /\ StorageTypes /\ ArgsInv(c) /\ StepInv(c) /\ MuInv(c) /\ Tables
      /\ call[c].step = "set" /\ Done(c) /\ backend' = backend
      /\ \A d \in Clients : call[d].step = "set" => mu = d
  BY Zenon DEF StorageInv, StorageTypes, CallInv, MuInv, MemSetRecord
<1>1. call[c].s \in Sessions /\ mu = c
  BY <1>0, Zenon DEF ArgsInv, StepInv, MuInv
<1> SUFFICES ASSUME NEW s \in Sessions, s = call[c].s, NEW x, x = call[c].next
             PROVE  Refined
  BY <1>1, Zenon
<1>2. db' = [db EXCEPT ![CollectionRow(s)] = x]
  BY Zenon DEF MemSetRecord
<1>3. Touch({}, {}, {}, {s}, {}, {}) /\ C(s)' = x
  BY <1>0, <1>2, SetCollection, Zenon
<1>4. CallOnly(c) /\ call'[c].step = "idle"
  BY <1>0, DoneEffect, IdleType, Zenon
<1>5. \A d \in Clients : d # c => call'[d] = call[d] /\ call[d].step # "set"
  BY <1>0, <1>1, <1>4, Zenon DEF CallOnly
<1>6. \A t \in Sessions : Unset(t)' /\ (t # s => Unset(t))
  BY <1>4, <1>5, Zenon DEF Unset
<1>7. ASSUME NEW t \in Sessions
      PROVE  EffectiveCollection(t)' = EffectiveCollection(t)
  <2>1. CASE t = s
    BY <1>0, <1>3, <1>6, <2>1, Zenon DEF Viewed, CollectionView
  <2>2. CASE t # s
    <3>1. C(t)' = C(t)
      BY <1>3, <2>2, Zenon DEF Touch
    <3> QED
      BY <1>6, <2>2, <3>1, Zenon DEF Viewed, CollectionView
  <2> QED
    BY <2>1, <2>2, Zenon
<1>8. ASSUME NEW t \in Sessions
      PROVE  EffectiveUsage(t)' = EffectiveUsage(t)
  <2>1. U(t)' = U(t)
    BY <1>3, Zenon DEF Touch
  <2>2. Logged(t)' <=> Logged(t)
    BY <1>0, <1>4, <1>5, PipelineAssumption, Zenon DEF Logged
  <2>3. ~Logged(t) => call'[Reporter].cost = call[Reporter].cost
    BY <1>0, <1>5, PipelineAssumption, Zenon DEF Logged
  <2> QED
    BY <2>1, <2>2, <2>3, Zenon DEF Viewed, UsageView
<1>9. ASSUME NEW t \in Sessions
      PROVE  StoredSession(t)' = StoredSession(t)
  <2>1. S(t)' = S(t) /\ RV(t)' = RV(t)
    BY <1>3, Zenon DEF Touch
  <2> QED
    BY <2>1, Zenon DEF Viewed, SessionView
<1>10. /\ \A k \in Keys : db'[WorkerRow(k)] = db[WorkerRow(k)]
       /\ \A p \in Payers : db'[QuotaRow(p)] = db[QuotaRow(p)]
  BY <1>3, Zenon DEF Touch, W, Q
<1>11. Moved({}, {}, {}, {}, {})
  BY <1>7, <1>8, <1>9, <1>10, Zenon DEF Moved
<1> QED
  BY <1>11, RStutter, Zenon DEF Refined

LEMMA RefMemCreate ==
  ASSUME StorageInv, Viewed, NEW c \in Clients, MemCreate(c)
  PROVE  Refined
<1>0. /\ ArgsInv(c) /\ StepInv(c) /\ call[c].kind = "create" /\ call[c].v = NoRow
      /\ backend = "memory"
  BY Zenon DEF StorageInv, CallInv, MemCreate
<1>1. call[c].s \in Sessions /\ call[c].step \notin {"usage", "set"}
  BY <1>0, NoRowIsNone, Zenon DEF ArgsInv, StepInv
<1> SUFFICES ASSUME NEW s \in Sessions, s = call[c].s
             PROVE  Refined
  BY <1>1, Zenon
<1>2. /\ Done(c) /\ Kept
      /\ \/ db' = db
         \/ S(s) = NoRow /\ db' = [db EXCEPT ![SessionRow(s)] = NewSessionRow]
  BY MemCreateEffect, Zenon
<1>3. Quiet
  BY <1>1, <1>2, DoneQuiet, Zenon DEF Kept
<1> QED
  BY <1>2, <1>3, QuietStutter, RefPlainCreate, Zenon DEF Refined

LEMMA RefMemReserve ==
  ASSUME StorageInv, Viewed, NEW c \in Clients, MemReserve(c)
  PROVE  Refined
<1>0. /\ ArgsInv(c) /\ StepInv(c) /\ call[c].kind = "reserve"
      /\ Done(c) /\ backend' = backend
  BY Zenon DEF StorageInv, CallInv, MemReserve, Kept
<1>1. /\ call[c].k \in Keys /\ call[c].p \in Payers /\ call[c].s \in Sessions
      /\ call[c].step \notin {"usage", "set"}
  BY <1>0, Zenon DEF ArgsInv, StepInv
<1> SUFFICES ASSUME NEW k \in Keys, k = call[c].k, NEW p \in Payers, p = call[c].p,
                    NEW s \in Sessions, s = call[c].s
             PROVE  Refined
  BY <1>1, Zenon
<1>2. Quiet
  BY <1>0, <1>1, DoneQuiet, Zenon
<1>3. CASE db' = db
  BY <1>2, <1>3, QuietStutter, Zenon DEF Refined
<1>4. CASE MemReserved(k, p, s)
  BY <1>2, <1>4, RefReserve, Zenon DEF MemReserved
<1> QED
  BY <1>3, <1>4, MemReserveEffect, Zenon

LEMMA RefMemGet ==
  ASSUME StorageInv, Viewed, NEW c \in Clients, MemGet(c)
  PROVE  Refined
<1>1. /\ StepInv(c) /\ call[c].kind = "get" /\ Done(c) /\ db' = db
      /\ backend' = backend
  BY Zenon DEF StorageInv, CallInv, MemGet
<1>2. call[c].step \notin {"usage", "set"}
  BY <1>1, Zenon DEF StepInv
<1> QED
  BY <1>1, <1>2, DoneQuiet, QuietStutter, Zenon DEF Refined

LEMMA RefStarted ==
  ASSUME StorageInv, Viewed, NEW c \in Clients, Started(c)
  PROVE  Refined
<1>0. PICK k : /\ Fresh(c, k) /\ call[c] = Idle
               /\ call' = [call EXCEPT ![c] = k]
               /\ UNCHANGED <<backend, db, draft, mu, got>>
  BY Zenon DEF Started
<1>1. call \in [Clients -> Calls]
  BY Zenon DEF StorageInv, StorageTypes
<1>2. CallOnly(c) /\ call'[c] = k
  BY <1>0, <1>1, Zenon DEF CallOnly, Fresh
<1>3. k.step \notin {"usage", "set"} /\ call[c].step \notin {"usage", "set"}
  BY <1>0, IdleType, Zenon DEF Fresh, Kinds
<1>4. Quiet
  BY <1>0, <1>2, <1>3, CallQuiet, Zenon
<1> QED
  BY <1>0, <1>4, QuietStutter, Zenon DEF Refined

LEMMA RefMemApplyUsage ==
  ASSUME StorageInv, Viewed, NEW c \in Clients, MemApplyUsage(c)
  PROVE  Refined
<1>0. /\ StorageTypes /\ ArgsInv(c) /\ StepInv(c) /\ Tables
      /\ call[c].kind = "usage" /\ backend = "memory" /\ backend' = backend
  BY Zenon DEF StorageInv, StorageTypes, CallInv, MemApplyUsage, Kept
<1>1. /\ call[c].s \in Sessions /\ call[c].cost \in Costs /\ c = Reporter
      /\ call[c].step \in {"session", "usage"}
  BY <1>0, Zenon DEF ArgsInv, StepInv
<1> SUFFICES ASSUME NEW s \in Sessions, s = call[c].s,
                    NEW cost \in Costs, cost = call[c].cost
             PROVE  Refined
  BY <1>1, Zenon
<1>2. ASSUME CallOnly(c), call[c].step # "set", call'[c].step # "set",
             NEW t \in Sessions, C(t)' = C(t)
      PROVE  EffectiveCollection(t)' = EffectiveCollection(t)
  <2>1. \A d \in Clients : d # c => call'[d] = call[d]
    BY <1>2, Zenon DEF CallOnly
  <2>2. CASE Unset(t)
    <3>1. Unset(t)'
      BY <1>2, <2>1, <2>2, Zenon DEF Unset
    <3> QED
      BY <1>2, <2>2, <3>1, Zenon DEF Viewed, CollectionView
  <2>3. CASE ~Unset(t)
    <3>1. PICK d \in Clients : call[d].step = "set" /\ call[d].s = t
      BY <2>3, Zenon DEF Unset
    <3>2. call'[d] = call[d]
      BY <1>2, <2>1, <3>1, Zenon
    <3> QED
      BY <3>1, <3>2 DEF Viewed, CollectionView
  <2> QED
    BY <2>2, <2>3, Zenon
<1>3. CASE call[c].step = "session" /\ S(s) = NoRow
  <2>1. Done(c) /\ db' = db
    BY <1>3, Zenon DEF MemApplyUsage, S
  <2> QED
    BY <1>0, <1>3, <2>1, DoneQuiet, QuietStutter, Zenon DEF Refined
<1>4. CASE call[c].step = "session" /\ S(s) # NoRow
  <2> SUFFICES ASSUME NEW x, x = AddUsage(S(s), cost)
               PROVE  Refined
    OBVIOUS
  <2>1. db' = [db EXCEPT ![SessionRow(s)] = x] /\ Step(c, "usage")
    BY <1>4, Zenon DEF MemApplyUsage, S
  <2>2. Touch({s}, {}, {}, {}, {}, {}) /\ S(s)' = x
    BY <1>0, <2>1, SetSession, Zenon
  <2>3. CallOnly(c) /\ SameArgs(c) /\ call'[c].step = "usage"
    BY <1>0, <2>1, StepEffect, Zenon DEF Steps
  <2>4. S(s) \in SessionRows /\ cost \in Nat
    BY <1>0, <1>4, NoRowIsNone, Zenon DEF Tables
  <2>5. x \in SessionRows /\ RV(s)' = RV(s)
    BY <2>2, <2>4, AddUsageType, Zenon DEF Touch
  <2>6. /\ StoredSession(s) = ToSession(S(s), RV(s)) /\ StoredSession(s) # NoSession
        /\ StoredSession(s)' = ToSession(x, RV(s))
    BY <2>2, <2>4, <2>5, StoredView, Zenon
  <2>7. StoredSession(s)' = AddUsage(StoredSession(s), cost)
    <3>1. ToSession(AddUsage(S(s), cost), RV(s))
            = AddUsage(ToSession(S(s), RV(s)), cost)
      BY <2>4, ToSessionUsage, Zenon
    <3> QED
      BY <2>6, <3>1, Zenon
  <2>8. /\ \A t \in Sessions : Logged(t) /\ (t # s => Logged(t)')
        /\ ~Logged(s)' /\ call'[Reporter].cost = cost
    BY <1>0, <1>1, <1>4, <2>3, Zenon DEF Logged, SameArgs
  <2>9. ASSUME NEW t \in Sessions
        PROVE  EffectiveUsage(t) = U(t) /\ U(t)' = U(t)
               /\ EffectiveUsage(t)' = IF t = s THEN U(t)' + cost ELSE U(t)'
    <3>1. U(t)' = U(t)
      BY <2>2, Zenon DEF Touch
    <3> QED
      BY <2>8, <3>1, Zenon DEF Viewed, UsageView
  <2>10. Moved({s}, {s}, {}, {}, {})
    <3>1. ASSUME NEW t \in Sessions, t # s
          PROVE  StoredSession(t)' = StoredSession(t)
      <4>1. S(t)' = S(t) /\ RV(t)' = RV(t)
        BY <2>2, <3>1, Zenon DEF Touch
      <4> QED
        BY <4>1, Zenon DEF Viewed, SessionView
    <3>2. \A t \in Sessions : t # s => EffectiveUsage(t)' = EffectiveUsage(t)
      BY <2>9, Zenon
    <3>3. ASSUME NEW t \in Sessions
          PROVE  EffectiveCollection(t)' = EffectiveCollection(t)
      <4>1. C(t)' = C(t)
        BY <2>2, Zenon DEF Touch
      <4> QED
        BY <1>2, <1>4, <2>3, <4>1, Zenon
    <3>4. /\ \A k \in Keys : db'[WorkerRow(k)] = db[WorkerRow(k)]
          /\ \A p \in Payers : db'[QuotaRow(p)] = db[QuotaRow(p)]
      BY <2>2, Zenon DEF Touch, W, Q
    <3> QED
      BY <3>1, <3>2, <3>3, <3>4, Zenon DEF Moved
  <2>11. EffectiveUsage(s)' = EffectiveUsage(s) + cost
    BY <2>9, Zenon
  <2> QED
    BY <2>6, <2>7, <2>10, <2>11, RApplyUsage, Zenon DEF Refined
<1>5. CASE call[c].step = "usage"
  <2> SUFFICES ASSUME NEW x, x = U(s) + cost
               PROVE  Refined
    OBVIOUS
  <2>1. db' = [db EXCEPT ![UsageRows(s)] = x] /\ Done(c)
    BY <1>5, Zenon DEF MemApplyUsage, U
  <2>2. Touch({}, {}, {s}, {}, {}, {}) /\ U(s)' = x
    BY <1>0, <2>1, SetUsage, Zenon
  <2>3. CallOnly(c) /\ call'[c].step = "idle"
    BY <1>0, <2>1, DoneEffect, IdleType, Zenon
  <2>4. \A t \in Sessions : Logged(t)' /\ (Logged(t) <=> t # s)
    BY <1>0, <1>1, <1>5, <2>3, Zenon DEF Logged
  <2>5. ASSUME NEW t \in Sessions
        PROVE  EffectiveUsage(t)' = EffectiveUsage(t)
    <3>1. t # s => U(t)' = U(t)
      BY <2>2, Zenon DEF Touch
    <3> QED
      BY <1>1, <2>2, <2>4, <3>1, Zenon DEF Viewed, UsageView
  <2>6. ASSUME NEW t \in Sessions
        PROVE  StoredSession(t)' = StoredSession(t)
    <3>1. S(t)' = S(t) /\ RV(t)' = RV(t)
      BY <2>2, Zenon DEF Touch
    <3> QED
      BY <3>1, Zenon DEF Viewed, SessionView
  <2>7. ASSUME NEW t \in Sessions
        PROVE  EffectiveCollection(t)' = EffectiveCollection(t)
    <3>1. C(t)' = C(t)
      BY <2>2, Zenon DEF Touch
    <3> QED
      BY <1>2, <1>5, <2>3, <3>1, Zenon
  <2>8. /\ \A k \in Keys : db'[WorkerRow(k)] = db[WorkerRow(k)]
        /\ \A p \in Payers : db'[QuotaRow(p)] = db[QuotaRow(p)]
    BY <2>2, Zenon DEF Touch, W, Q
  <2>9. Moved({}, {}, {}, {}, {})
    BY <2>5, <2>6, <2>7, <2>8, Zenon DEF Moved
  <2> QED
    BY <2>9, RStutter, Zenon DEF Refined
<1> QED
  BY <1>1, <1>3, <1>4, <1>5, Zenon

LEMMA RefRun ==
  ASSUME StorageInv, StorageInv', Viewed, NEW c \in Clients, Run(c)
  PROVE  Refined
<1>0. StepInv(c) /\ backend \in {"memory", "postgres"}
  BY Zenon DEF StorageInv, StorageTypes, CallInv
<1>1. CASE \/ PgApplyUsage(c) \/ PgUpdateBaseline(c) \/ PgAddUsage(c)
           \/ PgUpsertRAV(c) \/ PgUpsertCollectible(c) \/ PgLockQuota(c)
           \/ PgCreateWorker(c) \/ PgIncrementQuota(c) \/ PgGet(c)
  <2>1. db' = db /\ backend' = backend
    BY <1>1, Zenon DEF PgApplyUsage, PgUpdateBaseline, PgUpdate, PgAddUsage, PgUpsertRAV,
       PgUpsertCollectible, PgLockQuota, PgCreateWorker, PgIncrementQuota, PgGet,
       KeptTx, Kept
  <2>2. \/ backend = "postgres" \/ call[c].step \in {"rav", "increment"}
    BY <1>1, Zenon DEF PgApplyUsage, PgUpdateBaseline, PgUpdate, PgAddUsage, PgUpsertRAV,
       PgUpsertCollectible, PgLockQuota, PgCreateWorker, PgIncrementQuota, PgGet
  <2>3. backend = "postgres"
    BY <1>0, <2>2, Zenon DEF StepInv
  <2> QED
    BY <2>1, <2>3, RefTx, Zenon
<1> QED
  BY <1>1, RefRuntimeState, RefDeleteWorker, RefDecrement, RefMark, RefPgCreate,
     RefCommit, RefMemLock, RefMemSwap, RefMemSetRecord, RefMemCreate,
     RefMemApplyUsage, RefMemReserve, RefMemGet, Zenon DEF Run

LEMMA RefKept ==
  ASSUME StorageInv, Viewed, UNCHANGED <<backend, db, call>>
  PROVE  Refined
<1>1. Quiet
  BY Zenon DEF Quiet, Logged, Unset
<1> QED
  BY <1>1, QuietStutter, Zenon DEF Refined

LEMMA RefStep ==
  ASSUME StorageInv, [PipeNext]_pipeVars
  PROVE  Refined
<1>1. StorageInv' /\ Viewed
  BY StorageInductive, StepViewed, Zenon
<1>2. CASE UNCHANGED pipeVars
  BY <1>1, <1>2, RefKept, Zenon DEF pipeVars, vars
<1>3. CASE StorageNext
  <2>1. Handlers \subseteq Clients
    BY PipelineAssumption, Zenon
  <2>2. ASSUME NEW c \in Clients, StatementFails(c)
        PROVE  Refined
    BY <1>1, <2>2, RefTx, Zenon DEF StatementFails
  <2> QED
    BY <1>1, <1>3, <2>1, <2>2, RefRun, NewCallStep, RefStarted, Zenon DEF StorageNext
<1>4. CASE EmitterNext
  <2>1. CASE \E e \in Events : ApplyEvent(e)
    BY <1>1, <2>1, ApplyEventStep, RefStarted, PipelineAssumption, Zenon
  <2>2. CASE ~\E e \in Events : ApplyEvent(e)
    <3>1. UNCHANGED <<backend, db, call>>
      BY <1>4, <2>2, Zenon DEF EmitterNext, EmitCheck, EmitSend, Take, EventApplied, Shutdown,
         Tick, BeginShutdown, Flush, Answer, ReportFails, vars
    <3> QED
      BY <1>1, <3>1, RefKept, Zenon
  <2> QED
    BY <2>1, <2>2, Zenon
<1> QED
  BY <1>2, <1>3, <1>4, Zenon DEF PipeNext

LEMMA RefInit ==
  ASSUME PipeInit
  PROVE  R!Init
<1>1. StorageInv /\ Init
  BY StorageInitial, Zenon DEF PipeInit
<1>2. CollectionView /\ UsageView /\ SessionView
  BY <1>1, CollectionViewed, UsageViewed, SessionViewed, Zenon
<1>3. \A c \in Clients : call[c].step = "idle"
  BY <1>1, IdleType, Zenon DEF Init
<1>4. \A s \in Sessions : Unset(s) /\ Logged(s)
  BY <1>3, PipelineAssumption, Zenon DEF Unset, Logged
<1>5. \A s \in Sessions : S(s) = NoRow /\ U(s) = 0 /\ C(s) = NoCollection
  BY <1>1, Zenon DEF Init, EmptyTables, Rows, S, U, C, SessionRow, UsageRows, CollectionRow
<1>6. /\ \A k \in Keys : db[WorkerRow(k)] = NoWorker
      /\ \A p \in Payers : db[QuotaRow(p)] = 0
  BY <1>1, Zenon DEF Init, EmptyTables, Rows, WorkerRow, QuotaRow
<1>7. \A s \in Sessions : StoredSession(s) = NoSession
  BY <1>2, <1>5, Zenon DEF SessionView
<1>8. \A s \in Sessions : EffectiveUsage(s) = 0
  BY <1>2, <1>4, <1>5, Zenon DEF UsageView
<1>9. \A s \in Sessions : EffectiveCollection(s) = NoCollection
  BY <1>2, <1>4, <1>5, Zenon DEF CollectionView
<1> QED
  BY <1>6, <1>7, <1>8, <1>9, Zenon DEF R!Init, R!NoCollection, NoCollection

\* Both backends implement the repository of atomic writes the other modules
\* assume: every statement of a transaction, commit, rollback and map swap, of
\* any number of callers, is one of its writes or changes nothing.
THEOREM BackendsImplementRepository == PipeSpec => ImplementsRepository
<1>1. PipeInit => R!Init
  BY RefInit, Zenon
<1>2. StorageInv /\ [PipeNext]_pipeVars => [R!Next]_R!vars
  BY RefStep, Zenon DEF Refined
<1> QED
  BY <1>1, <1>2, StorageInvariant, PTL DEF PipeSpec, ImplementsRepository, R!Spec
=============================================================================
