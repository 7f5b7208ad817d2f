------------------------ MODULE UsagePipelineProofs ------------------------
(***************************************************************************)
(* Proofs about the repository's backends (Storage) and the pipeline that  *)
(* bills usage through them (UsagePipeline), for any sets of callers,      *)
(* sessions, worker keys, payers and values.                               *)
(***************************************************************************)
EXTENDS UsagePipeline, TLAPS

-----------------------------------------------------------------------------
(* The tables, by the key of their rows.                                    *)

S(s) == db[SessionRow(s)]
RV(s) == db[RAVRow(s)]
U(s) == db[UsageRows(s)]
C(s) == db[CollectionRow(s)]
W(k) == db[WorkerRow(k)]
Q(p) == db[QuotaRow(p)]

\* What the stored RAV pays for.
Paid(s) == IF RV(s) = NoRow THEN 0 ELSE RV(s)

WorkerRows == [session : Sessions, payer : Payers]

Tables ==
  /\ db = [r \in Rows |-> db[r]]
  /\ \A s \in Sessions :
       /\ S(s) \in SessionRows \cup {NoRow}
       /\ RV(s) \in Values \cup {NoRow}
       /\ U(s) \in Nat
       /\ C(s) \in CollectionRecord
  /\ \A k \in Keys : W(k) \in WorkerRows \cup {NoWorker}
  /\ \A p \in Payers : Q(p) \in Nat

Kinds ==
  {"idle", "usage", "create", "rav", "runtime", "reserve", "delete",
   "decrement", "mark", "get"}

Steps ==
  {"idle", "session", "rav", "collection", "usage", "commit", "quota",
   "worker", "increment", "one", "rows", "swap", "set"}

Marks == {"collect_pending", "collected", "collect_failed_retryable"}

Calls ==
  [kind : Kinds, step : Steps, s : Sessions \cup {NoSession},
   v : Values \cup {NoRow}, base : Nat, cost : Costs \cup {0},
   status : SessionStatuses \cup {"none"}, k : Keys \cup {NoRow},
   p : Payers \cup {NoRow}, to : Marks \cup {"none"},
   row : SessionRows \cup {NoRow}, next : CollectionRecord]

StorageTypes ==
  /\ backend \in {"memory", "postgres"}
  /\ Tables
  /\ call \in [Clients -> Calls]
  /\ draft = [c \in Clients |-> draft[c]]
  /\ \A c \in Clients : DOMAIN draft[c] \subseteq Rows
  /\ mu \in Clients \cup {NoRow}
  /\ got \in [Clients -> Session \cup {NoSession}]

-----------------------------------------------------------------------------
(* The inductive invariant.                                                 *)

\* Where RAVs come on the session's stream, the RAV v pays for the amount x.
\* (Calls of SubmitRAV overlap, and the smaller of two RAVs may be stored last.)
Pays(v, x) == load.unary \/ x <= v

\* The stored baseline is covered by the stored RAV, and only a stored session
\* has a RAV.
Covered(s) ==
  /\ S(s) = NoRow => RV(s) = NoRow
  /\ S(s) # NoRow => Pays(Paid(s), S(s).base)

Books == \A s \in Sessions : Covered(s)

\* No row is locked by two transactions.
Locks ==
  \A c, d \in Clients :
    c # d => \A r \in DOMAIN draft[c] : r \notin DOMAIN draft[d]

\* A call has the arguments of its kind, and is at a step of its kind.
ArgsInv(c) ==
  /\ call[c].kind \in {"usage", "create", "rav", "runtime", "reserve", "mark", "get"}
       => call[c].s \in Sessions
  /\ call[c].kind \in {"rav", "mark"} => call[c].v \in Values
  /\ call[c].kind = "usage" => call[c].cost \in Costs /\ c = Reporter
  /\ call[c].kind = "runtime" => call[c].status \in SessionStatuses
  /\ call[c].kind \in {"reserve", "delete"} => call[c].k \in Keys
  /\ call[c].kind \in {"reserve", "decrement"} => call[c].p \in Payers

StepInv(c) ==
  /\ call[c].step = "usage" => call[c].kind = "usage"
  /\ call[c].step \in {"rav", "collection", "swap", "set"}
       => call[c].kind \in {"create", "rav"} /\ call[c].v \in Values
  /\ call[c].step \in {"quota", "worker", "increment"} => call[c].kind = "reserve"
  /\ call[c].step = "commit"
       => /\ call[c].kind \in {"usage", "create", "rav", "reserve"}
          /\ call[c].kind = "create" => call[c].v \in Values
  /\ call[c].step = "rows" => call[c].kind = "get"
  /\ call[c].kind = "usage" => call[c].step \in {"session", "usage", "commit"}
  /\ call[c].kind \in {"runtime", "delete", "decrement", "mark"}
       => call[c].step = "one"
  /\ call[c].kind = "idle" => call[c].step = "idle"
  /\ call[c].kind = "get" => call[c].step \in {"session", "rows"}
  /\ backend = "memory"
       => call[c].step \notin {"rav", "collection", "commit", "worker",
                               "increment", "rows"}
  /\ backend = "postgres" => call[c].step \notin {"swap", "set"}

\* The session row a transaction has written, from the row as stored.
SessionDraft(c) ==
  /\ call[c].kind = "usage"
       => /\ S(call[c].s) # NoRow
          /\ draft[c][SessionRow(call[c].s)] = AddUsage(S(call[c].s), call[c].cost)
  /\ call[c].kind = "rav"
       => /\ S(call[c].s) # NoRow
          /\ draft[c][SessionRow(call[c].s)]
               = [S(call[c].s) EXCEPT !.base = call[c].base]
  /\ call[c].kind = "create"
       => /\ S(call[c].s) = NoRow
          /\ draft[c][SessionRow(call[c].s)] = NewSessionRow

RAVDraft(c) == draft[c][RAVRow(call[c].s)] = call[c].v

CollectionDraft(c) ==
  /\ ~CollectionConflict(C(call[c].s), call[c].v)
  /\ draft[c][CollectionRow(call[c].s)] = NextCollectible(C(call[c].s), call[c].v)

WorkerDraft(c) ==
  /\ W(call[c].k) = NoWorker
  /\ draft[c][WorkerRow(call[c].k)] = Worker(call[c].s, call[c].p)

\* What the transaction of a call holds at each step.
UsageTx(c) ==
  /\ call[c].step = "usage" => DOMAIN draft[c] = {SessionRow(call[c].s)}
  /\ call[c].step = "commit"
       => /\ DOMAIN draft[c] = {SessionRow(call[c].s), UsageRows(call[c].s)}
          /\ draft[c][UsageRows(call[c].s)] = U(call[c].s) + call[c].cost
  /\ call[c].step \in {"usage", "commit"} => SessionDraft(c)

RAVTx(c) ==
  /\ call[c].step = "rav" => DOMAIN draft[c] = {SessionRow(call[c].s)}
  /\ call[c].step = "collection"
       => /\ DOMAIN draft[c] = {SessionRow(call[c].s), RAVRow(call[c].s)}
          /\ RAVDraft(c)
  /\ call[c].step = "commit"
       => /\ DOMAIN draft[c] = {SessionRow(call[c].s), RAVRow(call[c].s),
                                CollectionRow(call[c].s)}
          /\ RAVDraft(c) /\ CollectionDraft(c)
  /\ call[c].step \in {"rav", "collection", "commit"} => SessionDraft(c)

ReserveTx(c) ==
  /\ call[c].step = "worker"
       => /\ DOMAIN draft[c] = {QuotaRow(call[c].p)}
          /\ draft[c][QuotaRow(call[c].p)] = Q(call[c].p)
  /\ call[c].step = "increment"
       => /\ DOMAIN draft[c] = {QuotaRow(call[c].p), WorkerRow(call[c].k)}
          /\ draft[c][QuotaRow(call[c].p)] = Q(call[c].p)
          /\ WorkerDraft(c)
  /\ call[c].step = "commit"
       => /\ DOMAIN draft[c] = {QuotaRow(call[c].p), WorkerRow(call[c].k)}
          /\ draft[c][QuotaRow(call[c].p)] = Q(call[c].p) + 1
          /\ WorkerDraft(c)
  /\ call[c].step \in {"worker", "increment", "commit"}
       => ~Exceeds(db, QuotaRow(call[c].p), 1, MaxWorkers)

DraftInv(c) ==
  /\ backend = "memory" => DOMAIN draft[c] = {}
  /\ call[c].step \in {"idle", "session", "one", "quota", "rows"}
       => DOMAIN draft[c] = {}
  /\ backend = "postgres" /\ call[c].kind = "usage" => UsageTx(c)
  /\ backend = "postgres" /\ call[c].kind \in {"create", "rav"} => RAVTx(c)
  /\ backend = "postgres" /\ call[c].kind = "reserve" => ReserveTx(c)

\* An accepted RAV is at least the stored one until it is written, and covers
\* the usage of its baseline.
RAVInv(c) ==
  call[c].kind = "rav" =>
    /\ S(call[c].s) # NoRow
    /\ call[c].base <= S(call[c].s).total
    /\ Pays(call[c].v, call[c].base)
    /\ call[c].step # "set" => Pays(call[c].v, Paid(call[c].s))

OneRAV ==
  load.unary \/ \A c, d \in Clients :
    call[c].kind = "rav" /\ call[d].kind = "rav" /\ call[c].s = call[d].s => c = d

\* The row a read has seen is covered by the RAV it will read.
GetInv(c) ==
  call[c].step = "rows" =>
    /\ S(call[c].s) # NoRow
    /\ call[c].row \in SessionRows
    /\ Pays(Paid(call[c].s), call[c].row.base)

GotInv(c) == got[c] # NoSession => Pays(got[c].rav, got[c].base)

\* The record a call will set is the one its lock protects.
MuInv(c) ==
  /\ call[c].step \in {"swap", "set"} => mu = c
  /\ call[c].step = "swap"
       => /\ ~CollectionConflict(C(call[c].s), call[c].v)
          /\ call[c].next = NextCollectible(C(call[c].s), call[c].v)

CallInv(c) ==
  /\ ArgsInv(c) /\ StepInv(c) /\ DraftInv(c) /\ RAVInv(c)
  /\ GetInv(c) /\ GotInv(c) /\ MuInv(c)

EmitterInv ==
  /\ at = [e \in Events |-> at[e]]
  /\ owner \in [Events -> Sessions \cup {NoSession}]
  /\ \A e \in Events : at[e] # "new" => owner[e] \in Sessions

StorageInv ==
  /\ StorageTypes /\ Books /\ Locks /\ OneRAV
  /\ \A c \in Clients : CallInv(c)
  /\ EmitterInv
  /\ backend = "postgres" => mu = NoRow
  /\ load \in AllLoads

-----------------------------------------------------------------------------
(* Row names, and the operators the statements are made of.                 *)

LEMMA RowNames ==
  /\ \A s \in Sessions :
       /\ SessionRow(s) \in Rows /\ RAVRow(s) \in Rows
       /\ UsageRows(s) \in Rows /\ CollectionRow(s) \in Rows
  /\ \A k \in Keys : WorkerRow(k) \in Rows
  /\ \A p \in Payers : QuotaRow(p) \in Rows
BY Zenon DEF Rows, SessionRow, RAVRow, UsageRows, CollectionRow, WorkerRow, QuotaRow

LEMMA RowsDiffer ==
  \A x, y :
    /\ SessionRow(x) = SessionRow(y) => x = y
    /\ RAVRow(x) = RAVRow(y) => x = y
    /\ UsageRows(x) = UsageRows(y) => x = y
    /\ CollectionRow(x) = CollectionRow(y) => x = y
    /\ WorkerRow(x) = WorkerRow(y) => x = y
    /\ QuotaRow(x) = QuotaRow(y) => x = y
    /\ SessionRow(x) # RAVRow(y) /\ SessionRow(x) # UsageRows(y)
    /\ SessionRow(x) # CollectionRow(y) /\ SessionRow(x) # WorkerRow(y)
    /\ SessionRow(x) # QuotaRow(y)
    /\ RAVRow(x) # UsageRows(y) /\ RAVRow(x) # CollectionRow(y)
    /\ RAVRow(x) # WorkerRow(y) /\ RAVRow(x) # QuotaRow(y)
    /\ UsageRows(x) # CollectionRow(y) /\ UsageRows(x) # WorkerRow(y)
    /\ UsageRows(x) # QuotaRow(y)
    /\ CollectionRow(x) # WorkerRow(y) /\ CollectionRow(x) # QuotaRow(y)
    /\ WorkerRow(x) # QuotaRow(y)
BY Zenon DEF SessionRow, RAVRow, UsageRows, CollectionRow, WorkerRow, QuotaRow

LEMMA NoRowIsNone ==
  /\ \A v \in Values : v \in Nat /\ v # NoRow
  /\ \A row \in SessionRows : row # NoRow
  /\ \A row \in WorkerRows : row # NoWorker
  /\ \A session \in Session : session # NoSession
  /\ \A c \in Clients : c # NoRow
  /\ Costs \subseteq Nat
BY StorageAssumption, Zenon DEF WorkerRows

LEMMA NewSessionRowType ==
  /\ NewSessionRow \in SessionRows
  /\ NewSessionRow.base = 0
BY Zenon DEF NewSessionRow, SessionRows, SessionStatuses

LEMMA AddUsageType ==
  ASSUME NEW row \in SessionRows, NEW cost \in Nat
  PROVE  /\ AddUsage(row, cost) \in SessionRows
         /\ AddUsage(row, cost).total = row.total + cost
         /\ AddUsage(row, cost).base = row.base
BY DEF AddUsage, SessionRows

LEMMA SetBaseType ==
  ASSUME NEW row \in SessionRows, NEW base \in Nat
  PROVE  /\ [row EXCEPT !.base = base] \in SessionRows
         /\ [row EXCEPT !.base = base].total = row.total
         /\ [row EXCEPT !.base = base].base = base
         /\ [row EXCEPT !.base = base].status = row.status
BY Zenon DEF SessionRows

LEMMA RuntimeStateType ==
  ASSUME NEW row \in SessionRows, NEW status \in SessionStatuses
  PROVE  /\ WithRuntimeState(row, status) \in SessionRows
         /\ WithRuntimeState(row, status).total = row.total
         /\ WithRuntimeState(row, status).base = row.base
BY Zenon DEF WithRuntimeState, SessionRows

LEMMA NextCollectibleType ==
  ASSUME NEW rec \in CollectionRecord, NEW v \in Nat
  PROVE  NextCollectible(rec, v) \in CollectionRecord
BY Zenon DEF NextCollectible, NewCollectionRecord, CollectionRecord, CollectionStates

LEMMA MarkedType ==
  ASSUME NEW rec \in CollectionRecord, NEW v, NEW to
  PROVE  Marked(rec, v, to) \in CollectionRecord
<1>1. MarkedPending(rec) \in CollectionRecord
  <2>1. rec.attempts + 1 \in Nat
    BY DEF CollectionRecord
  <2> QED
    BY <2>1, Zenon DEF MarkedPending, CollectionRecord, CollectionStates
<1>2. MarkedCollected(rec) \in CollectionRecord
  BY Zenon DEF MarkedCollected, CollectionRecord, CollectionStates
<1>3. MarkedFailedRetryable(rec) \in CollectionRecord
  BY Zenon DEF MarkedFailedRetryable, CollectionRecord, CollectionStates
<1> QED
  BY <1>1, <1>2, <1>3, Zenon DEF Marked

LEMMA ToSessionType ==
  ASSUME NEW row \in SessionRows, NEW rav \in Values \cup {NoRow}
  PROVE  /\ ToSession(row, rav) \in Session
         /\ ToSession(row, rav).base = row.base
         /\ ToSession(row, rav).rav = IF rav = NoRow THEN 0 ELSE rav
BY StorageAssumption, Zenon DEF ToSession, Session, SessionRows

LEMMA IdleType ==
  /\ Idle \in Calls
  /\ Idle.kind = "idle" /\ Idle.step = "idle"
BY Zenon DEF Idle, Calls, Kinds, Steps, Marks, NoCollection, CollectionRecord,
       CollectionStates

LEMMA EmptyDraft == DOMAIN Nothing = {}
BY Zenon DEF Nothing

-----------------------------------------------------------------------------
(* What the building blocks of the statements do to the state.              *)

\* The rest of the tables, but for the named rows of each, is as before.
Touch(ss, rs, us, cs, ks, ps) ==
  /\ db' = [r \in Rows |-> db'[r]]
  /\ \A s \in Sessions \ ss : S(s)' = S(s)
  /\ \A s \in Sessions \ rs : RV(s)' = RV(s)
  /\ \A s \in Sessions \ us : U(s)' = U(s)
  /\ \A s \in Sessions \ cs : C(s)' = C(s)
  /\ \A k \in Keys \ ks : W(k)' = W(k)
  /\ \A p \in Payers \ ps : Q(p)' = Q(p)

LEMMA SetRow ==
  ASSUME Tables, NEW r \in Rows, NEW x, db' = [db EXCEPT ![r] = x]
  PROVE  /\ db' = [y \in Rows |-> db'[y]]
         /\ db'[r] = x
         /\ \A y \in Rows : y # r => db'[y] = db[y]
<1>1. db = [y \in Rows |-> db[y]]
  BY Zenon DEF Tables
<1> QED
  BY <1>1, Zenon

LEMMA SetSession ==
  ASSUME Tables, NEW s \in Sessions, NEW x, db' = [db EXCEPT ![SessionRow(s)] = x]
  PROVE  Touch({s}, {}, {}, {}, {}, {}) /\ S(s)' = x
<1>1. SessionRow(s) \in Rows
  BY RowNames, Zenon
<1>2. /\ db' = [y \in Rows |-> db'[y]]
      /\ db'[SessionRow(s)] = x
      /\ \A y \in Rows : y # SessionRow(s) => db'[y] = db[y]
  BY <1>1, SetRow, Zenon
<1> QED
  BY <1>2, RowNames, RowsDiffer, Zenon DEF Touch, S, RV, U, C, W, Q

LEMMA SetUsage ==
  ASSUME Tables, NEW s \in Sessions, NEW x, db' = [db EXCEPT ![UsageRows(s)] = x]
  PROVE  Touch({}, {}, {s}, {}, {}, {}) /\ U(s)' = x
<1>1. UsageRows(s) \in Rows
  BY RowNames, Zenon
<1>2. /\ db' = [y \in Rows |-> db'[y]]
      /\ db'[UsageRows(s)] = x
      /\ \A y \in Rows : y # UsageRows(s) => db'[y] = db[y]
  BY <1>1, SetRow, Zenon
<1> QED
  BY <1>2, RowNames, RowsDiffer, Zenon DEF Touch, S, RV, U, C, W, Q

LEMMA SetCollection ==
  ASSUME Tables, NEW s \in Sessions, NEW x,
         db' = [db EXCEPT ![CollectionRow(s)] = x]
  PROVE  Touch({}, {}, {}, {s}, {}, {}) /\ C(s)' = x
<1>1. CollectionRow(s) \in Rows
  BY RowNames, Zenon
<1>2. /\ db' = [y \in Rows |-> db'[y]]
      /\ db'[CollectionRow(s)] = x
      /\ \A y \in Rows : y # CollectionRow(s) => db'[y] = db[y]
  BY <1>1, SetRow, Zenon
<1> QED
  BY <1>2, RowNames, RowsDiffer, Zenon DEF Touch, S, RV, U, C, W, Q

LEMMA SetWorker ==
  ASSUME Tables, NEW k \in Keys, NEW x, db' = [db EXCEPT ![WorkerRow(k)] = x]
  PROVE  Touch({}, {}, {}, {}, {k}, {}) /\ W(k)' = x
<1>1. WorkerRow(k) \in Rows
  BY RowNames, Zenon
<1>2. /\ db' = [y \in Rows |-> db'[y]]
      /\ db'[WorkerRow(k)] = x
      /\ \A y \in Rows : y # WorkerRow(k) => db'[y] = db[y]
  BY <1>1, SetRow, Zenon
<1> QED
  BY <1>2, RowNames, RowsDiffer, Zenon DEF Touch, S, RV, U, C, W, Q

LEMMA SetQuota ==
  ASSUME Tables, NEW p \in Payers, NEW x, db' = [db EXCEPT ![QuotaRow(p)] = x]
  PROVE  Touch({}, {}, {}, {}, {}, {p}) /\ Q(p)' = x
<1>1. QuotaRow(p) \in Rows
  BY RowNames, Zenon
<1>2. /\ db' = [y \in Rows |-> db'[y]]
      /\ db'[QuotaRow(p)] = x
      /\ \A y \in Rows : y # QuotaRow(p) => db'[y] = db[y]
  BY <1>1, SetRow, Zenon
<1> QED
  BY <1>2, RowNames, RowsDiffer, Zenon DEF Touch, S, RV, U, C, W, Q

LEMMA SetNothing ==
  ASSUME Tables, db' = db
  PROVE  Touch({}, {}, {}, {}, {}, {})
BY Zenon DEF Tables, Touch, S, RV, U, C, W, Q

\* The other calls, and their transactions, are as before.
CallOnly(c) ==
  /\ call' \in [Clients -> Calls]
  /\ \A d \in Clients \ {c} : call'[d] = call[d]

DraftOnly(c) ==
  /\ draft' = [d \in Clients |-> draft'[d]]
  /\ \A d \in Clients \ {c} : draft'[d] = draft[d]
  /\ DOMAIN draft'[c] \subseteq Rows

\* The call keeps its arguments.
SameArgs(c) ==
  /\ call'[c].kind = call[c].kind
  /\ call'[c].s = call[c].s /\ call'[c].v = call[c].v
  /\ call'[c].base = call[c].base /\ call'[c].cost = call[c].cost
  /\ call'[c].k = call[c].k /\ call'[c].p = call[c].p
  /\ call'[c].status = call[c].status

LEMMA StepEffect ==
  ASSUME StorageTypes, NEW c \in Clients, NEW label \in Steps, Step(c, label)
  PROVE  CallOnly(c) /\ SameArgs(c) /\ call'[c].step = label
<1>1. call \in [Clients -> Calls] /\ call[c] \in Calls
  BY Zenon DEF StorageTypes
<1>2. /\ [call[c] EXCEPT !.step = label] \in Calls
      /\ [call[c] EXCEPT !.step = label].step = label
      /\ [call[c] EXCEPT !.step = label].kind = call[c].kind
      /\ [call[c] EXCEPT !.step = label].s = call[c].s
      /\ [call[c] EXCEPT !.step = label].v = call[c].v
      /\ [call[c] EXCEPT !.step = label].base = call[c].base
      /\ [call[c] EXCEPT !.step = label].cost = call[c].cost
      /\ [call[c] EXCEPT !.step = label].k = call[c].k
      /\ [call[c] EXCEPT !.step = label].p = call[c].p
      /\ [call[c] EXCEPT !.step = label].status = call[c].status
  BY <1>1, ZenonT(30) DEF Calls
<1>3. call' = [call EXCEPT ![c] = [call[c] EXCEPT !.step = label]]
  BY Zenon DEF Step
<1>4. /\ call'[c] = [call[c] EXCEPT !.step = label]
      /\ CallOnly(c)
  BY <1>1, <1>2, <1>3, Zenon DEF CallOnly
<1> QED
  BY <1>2, <1>4, Zenon DEF SameArgs

LEMMA CallRead ==
  ASSUME NEW k \in Calls, NEW row \in SessionRows
  PROVE  /\ [k EXCEPT !.step = "rows", !.row = row] \in Calls
         /\ [k EXCEPT !.step = "rows", !.row = row].step = "rows"
         /\ [k EXCEPT !.step = "rows", !.row = row].row = row
         /\ [k EXCEPT !.step = "rows", !.row = row].s = k.s
         /\ [k EXCEPT !.step = "rows", !.row = row].kind = k.kind
<1> DEFINE next == [k EXCEPT !.step = "rows", !.row = row]
<1>1. /\ next.step = "rows" /\ next.row = row /\ next.s = k.s
      /\ next.kind = k.kind
  BY Zenon DEF Calls
<1>2. next \in Calls
  BY ZenonT(30) DEF Calls, Steps
<1> QED
  BY <1>1, <1>2, Zenon

LEMMA DoneEffect ==
  ASSUME StorageTypes, NEW c \in Clients, Done(c)
  PROVE  CallOnly(c) /\ call'[c] = Idle
<1>1. call \in [Clients -> Calls]
  BY Zenon DEF StorageTypes
<1> QED
  BY <1>1, IdleType, Zenon DEF Done, CallOnly

Wrote(c, r, x) ==
  /\ DraftOnly(c)
  /\ DOMAIN draft'[c] = DOMAIN draft[c] \cup {r}
  /\ draft'[c][r] = x
  /\ \A y \in DOMAIN draft[c] : y # r => draft'[c][y] = draft[c][y]
  /\ \A d \in Clients \ {c} : r \notin DOMAIN draft[d]

LEMMA WriteEffect ==
  ASSUME StorageTypes, NEW c \in Clients, NEW r \in Rows, NEW x, Write(c, r, x)
  PROVE  Wrote(c, r, x)
<1>1. draft = [d \in Clients |-> draft[d]]
  BY Zenon DEF StorageTypes
<1>2. draft' = [draft EXCEPT ![c] = [y \in DOMAIN draft[c] \cup {r} |->
                                      IF y = r THEN x ELSE draft[c][y]]]
  BY Zenon DEF Write
<1>3. draft'[c] = [y \in DOMAIN draft[c] \cup {r} |->
                     IF y = r THEN x ELSE draft[c][y]]
  BY <1>1, <1>2, Zenon
<1>4. DraftOnly(c)
  <2>1. DOMAIN draft[c] \subseteq Rows
    BY Zenon DEF StorageTypes
  <2> QED
    BY <1>1, <1>2, <1>3, <2>1, Zenon DEF DraftOnly
<1>5. \A d \in Clients \ {c} : r \notin DOMAIN draft[d]
  BY Zenon DEF Write, Locked
<1>6. /\ DOMAIN draft'[c] = DOMAIN draft[c] \cup {r}
      /\ draft'[c][r] = x
      /\ \A y \in DOMAIN draft[c] : y # r => draft'[c][y] = draft[c][y]
  BY <1>3, Zenon
<1> QED
  BY <1>4, <1>5, <1>6, Zenon DEF Wrote

LEMMA RollbackEffect ==
  ASSUME StorageTypes, NEW c \in Clients, Rollback(c)
  PROVE  /\ CallOnly(c) /\ call'[c] = Idle
         /\ DraftOnly(c) /\ DOMAIN draft'[c] = {}
<1>1. draft = [d \in Clients |-> draft[d]]
  BY Zenon DEF StorageTypes
<1>2. draft' = [draft EXCEPT ![c] = Nothing]
  BY Zenon DEF Rollback
<1>3. DraftOnly(c) /\ draft'[c] = Nothing
  BY <1>1, <1>2, EmptyDraft, Zenon DEF DraftOnly
<1> QED
  BY <1>3, DoneEffect, EmptyDraft, Zenon DEF Rollback

LEMMA DraftKept ==
  ASSUME StorageTypes, NEW c \in Clients, UNCHANGED draft
  PROVE  DraftOnly(c)
BY Zenon DEF StorageTypes, DraftOnly

-----------------------------------------------------------------------------
(* A step of one call keeps the invariants of the others: it leaves the     *)
(* rows they lock, and stored sessions and their RAVs only grow.            *)

\* The rows that other transactions hold stay as they are.
LockedKept(c) ==
  \A d \in Clients \ {c} : \A r \in DOMAIN draft[d] : db'[r] = db[r]

\* A stored session stays, its cost never falls, and only the call that
\* accepts a RAV for it replaces the RAV, by one that is no smaller.
StoredGrow(c) ==
  \A s \in Sessions : S(s) # NoRow =>
    /\ S(s)' # NoRow /\ S(s)'.total >= S(s).total
    /\ \/ RV(s)' = RV(s)
       \/ call[c].kind = "rav" /\ call[c].s = s /\ Pays(Paid(s)', Paid(s))

\* collectionMu protects the record a call is about to replace.
MuKept(c) ==
  /\ \A d \in Clients \ {c} : call[d].step \in {"swap", "set"} => mu' = mu
  /\ \A d \in Clients \ {c}, s \in Sessions :
       call[d].step = "swap" /\ call[d].s = s => C(s)' = C(s)

GotOnly(c) ==
  /\ got' \in [Clients -> Session \cup {NoSession}]
  /\ \A d \in Clients \ {c} : got'[d] = got[d]

Frame(c) ==
  /\ backend' = backend
  /\ StorageTypes'
  /\ CallOnly(c) /\ DraftOnly(c) /\ GotOnly(c)
  /\ LockedKept(c) /\ StoredGrow(c) /\ MuKept(c)

LEMMA OtherDraft ==
  ASSUME StorageInv, NEW c \in Clients, Frame(c), NEW d \in Clients \ {c}
  PROVE  DraftInv(d)'
<1>1. /\ call'[d] = call[d] /\ draft'[d] = draft[d] /\ backend' = backend
      /\ \A r \in DOMAIN draft[d] : db'[r] = db[r]
  BY Zenon DEF Frame, CallOnly, DraftOnly, LockedKept
<1>2. DraftInv(d)
  BY Zenon DEF StorageInv, CallInv
<1>3. ASSUME call[d].kind = "usage", UsageTx(d)
      PROVE  UsageTx(d)'
  BY <1>1, <1>3, Zenon DEF UsageTx, SessionDraft, S, U
<1>4. ASSUME call[d].kind \in {"create", "rav"}, RAVTx(d)
      PROVE  RAVTx(d)'
  BY <1>1, <1>4, Zenon DEF RAVTx, SessionDraft, RAVDraft, CollectionDraft, S, C
<1>5. ASSUME call[d].kind = "reserve", ReserveTx(d)
      PROVE  ReserveTx(d)'
  BY <1>1, <1>5, Zenon DEF ReserveTx, WorkerDraft, Exceeds, Q, W
<1> QED
  BY <1>1, <1>2, <1>3, <1>4, <1>5, Zenon DEF DraftInv

LEMMA OtherRAV ==
  ASSUME StorageInv, NEW c \in Clients, Frame(c), NEW d \in Clients \ {c},
         load'.unary = load.unary
  PROVE  RAVInv(d)' /\ GetInv(d)'
<1>1. call'[d] = call[d]
  BY Zenon DEF Frame, CallOnly
<1>2. RAVInv(d) /\ GetInv(d) /\ ArgsInv(d) /\ StepInv(d)
  BY Zenon DEF StorageInv, CallInv
<1>3. StorageTypes /\ StorageTypes' /\ OneRAV
  BY Zenon DEF StorageInv, Frame
<1>4. call[d] \in Calls
  BY <1>3, Zenon DEF StorageTypes
<1>5. ASSUME call[d].kind = "rav"
      PROVE  RAVInv(d)'
  <2>0. call[d].s \in Sessions /\ call[d].v \in Nat /\ call[d].base \in Nat
    BY <1>2, <1>4, <1>5, NoRowIsNone, Zenon DEF ArgsInv, Calls
  <2> SUFFICES ASSUME NEW s \in Sessions, s = call[d].s
               PROVE  RAVInv(d)'
    BY <2>0, Zenon
  <2>2. /\ S(s) # NoRow /\ call[d].base <= S(s).total
        /\ Pays(call[d].v, call[d].base)
        /\ call[d].step # "set" => Pays(call[d].v, Paid(s))
    BY <1>2, <1>5, Zenon DEF RAVInv
  <2>3. /\ S(s)' # NoRow /\ S(s)'.total >= S(s).total
        /\ load.unary \/ RV(s)' = RV(s)
    BY <1>3, <1>5, <2>2, Zenon DEF Frame, StoredGrow, OneRAV
  <2>4. S(s) \in SessionRows /\ S(s)' \in SessionRows
    BY <1>3, <2>2, <2>3, Zenon DEF StorageTypes, Tables
  <2>5. call[d].base <= S(s)'.total
    BY <2>0, <2>2, <2>3, <2>4 DEF SessionRows
  <2>6. load.unary \/ Paid(s)' = Paid(s)
    BY <2>3, Zenon DEF Paid
  <2> QED
    BY <1>1, <2>2, <2>3, <2>5, <2>6, Zenon DEF RAVInv, Pays, Paid, S, RV
<1>6. ASSUME call[d].step = "rows"
      PROVE  GetInv(d)'
  <2>1. call[d].s \in Sessions /\ call[d].row \in SessionRows
    BY <1>2, <1>6, Zenon DEF StepInv, ArgsInv, GetInv
  <2> SUFFICES ASSUME NEW s \in Sessions, s = call[d].s
               PROVE  GetInv(d)'
    BY <2>1, Zenon
  <2>2. S(s) # NoRow /\ Pays(Paid(s), call[d].row.base)
    BY <1>2, <1>6, Zenon DEF GetInv
  <2>3. S(s)' # NoRow
    BY <2>2, Zenon DEF Frame, StoredGrow
  <2>4. Paid(s)' = Paid(s) \/ Pays(Paid(s)', Paid(s))
    BY <2>2, Zenon DEF Frame, StoredGrow, Paid
  <2>5. Paid(s) \in Nat /\ Paid(s)' \in Nat
    <3>1. RV(s) \in Values \cup {NoRow} /\ RV(s)' \in Values \cup {NoRow}
      BY <1>3, Zenon DEF StorageTypes, Tables
    <3> QED
      BY <3>1, NoRowIsNone, Zenon DEF Paid
  <2>6. call[d].row.base \in Nat
    BY <2>1, Zenon DEF SessionRows
  <2>7. load.unary \/ call[d].row.base <= Paid(s)'
    BY <2>2, <2>4, <2>5, <2>6 DEF Pays
  <2> QED
    BY <1>1, <2>1, <2>3, <2>7, Zenon DEF GetInv, Pays, Paid, S, RV
<1> QED
  BY <1>1, <1>5, <1>6, Zenon DEF RAVInv, GetInv

LEMMA OthersKeep ==
  ASSUME StorageInv, NEW c \in Clients, Frame(c), NEW d \in Clients \ {c},
         load'.unary = load.unary
  PROVE  CallInv(d)'
<1>1. call'[d] = call[d] /\ got'[d] = got[d] /\ backend' = backend
  BY Zenon DEF Frame, CallOnly, GotOnly
<1>2. ArgsInv(d) /\ StepInv(d) /\ GotInv(d) /\ MuInv(d)
  BY Zenon DEF StorageInv, CallInv
<1>3. ArgsInv(d)' /\ GotInv(d)'
  BY <1>1, <1>2, Zenon DEF ArgsInv, GotInv, Pays
<1>4. StepInv(d)'
  BY <1>1, <1>2, Zenon DEF StepInv
<1>5. MuInv(d)'
  <2>1. call[d].step \in {"swap", "set"} => mu' = mu /\ call[d].s \in Sessions
    BY <1>2, Zenon DEF Frame, MuKept, StepInv, ArgsInv
  <2>2. \A s \in Sessions : call[d].step = "swap" /\ call[d].s = s => C(s)' = C(s)
    BY Zenon DEF Frame, MuKept
  <2> QED
    BY <1>1, <1>2, <2>1, <2>2, Zenon DEF MuInv, C
<1> QED
  BY <1>3, <1>4, <1>5, OtherDraft, OtherRAV, Zenon DEF CallInv

\* A call that has ended satisfies everything asked of a call.
LEMMA EndedCall ==
  ASSUME NEW c \in Clients, call'[c] = Idle, DOMAIN draft'[c] = {}, GotInv(c)'
  PROVE  CallInv(c)'
<1>1. call'[c].kind = "idle" /\ call'[c].step = "idle"
  BY IdleType, Zenon
<1>2. ArgsInv(c)' /\ RAVInv(c)' /\ GetInv(c)' /\ MuInv(c)'
  BY <1>1, Zenon DEF ArgsInv, RAVInv, GetInv, MuInv
<1>3. StepInv(c)'
  BY <1>1, Zenon DEF StepInv
<1>4. DraftInv(c)'
  BY <1>1, Zenon DEF DraftInv
<1> QED
  BY <1>2, <1>3, <1>4, Zenon DEF CallInv

-----------------------------------------------------------------------------
(* What every step of a call establishes.                                   *)

Stepped(c) ==
  /\ Frame(c)
  /\ Books'
  /\ CallInv(c)'
  /\ \A r \in DOMAIN draft'[c] :
       r \in DOMAIN draft[c] \/ \A d \in Clients \ {c} : r \notin DOMAIN draft[d]
  /\ load.unary \/ (call'[c].kind = "rav" =>
       \A d \in Clients \ {c} : call[d].kind = "rav" => call[d].s # call'[c].s)
  /\ backend = "postgres" => mu' = NoRow

LEMMA SteppedKeeps ==
  ASSUME StorageInv, NEW c \in Clients, Stepped(c), EmitterInv',
         load'.unary = load.unary, load' \in AllLoads
  PROVE  StorageInv'
<1>1. StorageTypes' /\ Books' /\ (backend' = "postgres" => mu' = NoRow)
  BY Zenon DEF Stepped, Frame
<1>2. \A d \in Clients : CallInv(d)'
  <2> TAKE d \in Clients
  <2>1. CASE d = c
    BY <2>1, Zenon DEF Stepped
  <2>2. CASE d # c
    BY <2>2, OthersKeep, Zenon DEF Stepped
  <2> QED
    BY <2>1, <2>2, Zenon
<1>3. Locks'
  <2>1. \A d \in Clients \ {c} : draft'[d] = draft[d]
    BY Zenon DEF Stepped, Frame, DraftOnly
  <2>2. \A r \in DOMAIN draft'[c] : \A d \in Clients \ {c} : r \notin DOMAIN draft'[d]
    BY <2>1, Zenon DEF Stepped, StorageInv, Locks
  <2>3. Locks
    BY Zenon DEF StorageInv
  <2> QED
    BY <2>1, <2>2, <2>3, Zenon DEF Locks
<1>4. OneRAV'
  <2>1. \A d \in Clients \ {c} : call'[d] = call[d]
    BY Zenon DEF Stepped, Frame, CallOnly
  <2>2. OneRAV
    BY Zenon DEF StorageInv
  <2>3. load.unary \/ (call'[c].kind = "rav" =>
          \A d \in Clients \ {c} : call[d].kind = "rav" => call[d].s # call'[c].s)
    BY Zenon DEF Stepped
  <2> QED
    BY <2>1, <2>2, <2>3, Zenon DEF OneRAV
<1> QED
  BY <1>1, <1>2, <1>3, <1>4, Zenon DEF StorageInv

LEMMA TablesTouched ==
  ASSUME Tables, NEW ss, NEW rs, NEW us, NEW cs, NEW ks, NEW ps,
         Touch(ss, rs, us, cs, ks, ps),
         \A s \in ss : S(s)' \in SessionRows \cup {NoRow},
         \A s \in rs : RV(s)' \in Values \cup {NoRow},
         \A s \in us : U(s)' \in Nat,
         \A s \in cs : C(s)' \in CollectionRecord,
         \A k \in ks : W(k)' \in WorkerRows \cup {NoWorker},
         \A p \in ps : Q(p)' \in Nat
  PROVE  Tables'
<1>1. \A s \in Sessions : S(s)' \in SessionRows \cup {NoRow}
  BY Zenon DEF Tables, Touch
<1>2. \A s \in Sessions : RV(s)' \in Values \cup {NoRow}
  BY Zenon DEF Tables, Touch
<1>3. \A s \in Sessions : U(s)' \in Nat
  BY Zenon DEF Tables, Touch
<1>4. \A s \in Sessions : C(s)' \in CollectionRecord
  BY Zenon DEF Tables, Touch
<1>5. \A k \in Keys : W(k)' \in WorkerRows \cup {NoWorker}
  BY Zenon DEF Tables, Touch
<1>6. \A p \in Payers : Q(p)' \in Nat
  BY Zenon DEF Tables, Touch
<1> QED
  BY <1>1, <1>2, <1>3, <1>4, <1>5, <1>6, Zenon DEF Tables, Touch

\* A step that leaves the tables alone, whatever it does to its own call.
LEMMA QuietFrame ==
  ASSUME StorageInv, NEW c \in Clients, db' = db, backend' = backend,
         CallOnly(c), DraftOnly(c), GotOnly(c),
         mu' \in Clients \cup {NoRow}, mu' = mu \/ mu \in {NoRow, c},
         load'.unary = load.unary
  PROVE  Frame(c) /\ Books'
<1>0. StorageTypes /\ Books /\ \A d \in Clients : MuInv(d) /\ call[d] \in Calls
  BY Zenon DEF StorageInv, StorageTypes, CallInv
<1>1. StorageTypes'
  <2>1. Tables'
    BY <1>0, Zenon DEF StorageTypes, Tables, S, RV, U, C, W, Q
  <2>2. \A d \in Clients : DOMAIN draft'[d] \subseteq Rows
    BY <1>0, Zenon DEF StorageTypes, DraftOnly
  <2> QED
    BY <1>0, <2>1, <2>2, Zenon DEF StorageTypes, CallOnly, DraftOnly, GotOnly
<1>2. Books'
  BY <1>0, Zenon DEF Books, Covered, Pays, Paid, S, RV
<1>3. LockedKept(c)
  BY Zenon DEF LockedKept
<1>4. StoredGrow(c)
  <2> SUFFICES ASSUME NEW s \in Sessions, S(s) # NoRow
               PROVE  S(s)' # NoRow /\ S(s)'.total >= S(s).total /\ RV(s)' = RV(s)
    BY Zenon DEF StoredGrow
  <2>1. S(s)' = S(s) /\ RV(s)' = RV(s)
    BY Zenon DEF S, RV
  <2>2. S(s) \in SessionRows
    BY <1>0, Zenon DEF StorageTypes, Tables
  <2> QED
    BY <2>1, <2>2 DEF SessionRows
<1>5. MuKept(c)
  <2>1. \A d \in Clients \ {c} : call[d].step \in {"swap", "set"} => mu = d
    BY <1>0, Zenon DEF MuInv
  <2>2. \A d \in Clients \ {c} : d # c /\ d # NoRow
    BY NoRowIsNone, Zenon
  <2> QED
    BY <2>1, <2>2, Zenon DEF MuKept, C
<1> QED
  BY <1>1, <1>2, <1>3, <1>4, <1>5, Zenon DEF Frame

\* The end of a call, with the tables as they are.
LEMMA QuietEnd ==
  ASSUME StorageInv, NEW c \in Clients, db' = db, backend' = backend,
         Done(c), DraftOnly(c), DOMAIN draft'[c] = {}, GotOnly(c), GotInv(c)',
         mu' \in Clients \cup {NoRow}, mu' = mu \/ mu \in {NoRow, c},
         backend = "postgres" => mu' = NoRow,
         load'.unary = load.unary
  PROVE  Stepped(c)
<1>1. CallOnly(c) /\ call'[c] = Idle
  BY DoneEffect, Zenon DEF StorageInv
<1>2. Frame(c) /\ Books'
  BY <1>1, QuietFrame, Zenon
<1>3. CallInv(c)'
  BY <1>1, EndedCall, Zenon
<1>4. call'[c].kind # "rav"
  BY <1>1, IdleType, Zenon
<1> QED
  BY <1>2, <1>3, <1>4, Zenon DEF Stepped

LEMMA GotKept ==
  ASSUME StorageInv, NEW c \in Clients, UNCHANGED got,
         load'.unary = load.unary
  PROVE  GotOnly(c) /\ GotInv(c)'
<1>1. GotInv(c)
  BY Zenon DEF StorageInv, CallInv
<1>2. GotInv(c)'
  BY <1>1, Zenon DEF GotInv, Pays
<1> QED
  BY <1>2, Zenon DEF StorageInv, StorageTypes, GotOnly

LEMMA RollbackStep ==
  ASSUME StorageInv, NEW c \in Clients, Rollback(c),
         UNCHANGED <<backend, db, mu, got>>,
         load'.unary = load.unary
  PROVE  Stepped(c)
<1>1. DraftOnly(c) /\ DOMAIN draft'[c] = {} /\ Done(c)
  BY RollbackEffect, Zenon DEF StorageInv, Rollback
<1>2. GotOnly(c) /\ GotInv(c)'
  BY GotKept, Zenon
<1>3. mu' \in Clients \cup {NoRow} /\ (backend = "postgres" => mu' = NoRow)
  BY Zenon DEF StorageInv, StorageTypes
<1> QED
  BY <1>1, <1>2, <1>3, QuietEnd, Zenon

\* A statement that is not the last one of its transaction.
LEMMA TxStep ==
  ASSUME StorageInv, NEW c \in Clients, NEW r \in Rows, NEW x, Write(c, r, x),
         NEW label \in {"rav", "collection", "usage", "commit", "worker", "increment"},
         Step(c, label), KeptTx, backend = "postgres", StepInv(c)', DraftInv(c)',
         load'.unary = load.unary
  PROVE  Stepped(c)
<1>0. StorageTypes /\ CallInv(c) /\ OneRAV
  BY Zenon DEF StorageInv
<1>1. CallOnly(c) /\ SameArgs(c) /\ call'[c].step = label
  <2>1. label \in Steps
    BY Zenon DEF Steps
  <2> QED
    BY <1>0, <2>1, StepEffect, Zenon
<1>2. /\ DraftOnly(c)
      /\ DOMAIN draft'[c] = DOMAIN draft[c] \cup {r}
      /\ \A d \in Clients \ {c} : r \notin DOMAIN draft[d]
  BY <1>0, WriteEffect, Zenon DEF Wrote
<1>3. /\ db' = db /\ backend' = backend /\ mu' = mu /\ got' = got
  BY Zenon DEF KeptTx, Kept
<1>4. GotOnly(c) /\ GotInv(c)'
  BY <1>3, GotKept, Zenon
<1>5. mu' \in Clients \cup {NoRow} /\ mu' = NoRow
  BY <1>3, Zenon DEF StorageInv, StorageTypes
<1>6. Frame(c) /\ Books'
  BY <1>1, <1>2, <1>3, <1>4, <1>5, QuietFrame, Zenon
<1>7. ArgsInv(c)' /\ GetInv(c)' /\ MuInv(c)'
  BY <1>0, <1>1, Zenon DEF CallInv, ArgsInv, GetInv, MuInv, SameArgs
<1>8. RAVInv(c)'
  <2>1. call[c].step # "set"
    BY <1>0, Zenon DEF CallInv, StepInv
  <2> QED
    BY <1>0, <1>1, <1>3, <2>1, Zenon DEF CallInv, RAVInv, SameArgs, Pays, S, RV, Paid
<1>9. CallInv(c)'
  BY <1>4, <1>7, <1>8, Zenon DEF CallInv
<1>10. load.unary \/ (call'[c].kind = "rav" =>
         \A d \in Clients \ {c} : call[d].kind = "rav" => call[d].s # call'[c].s)
  BY <1>0, <1>1, Zenon DEF OneRAV, SameArgs
<1> QED
  BY <1>2, <1>5, <1>6, <1>9, <1>10, Zenon DEF Stepped

-----------------------------------------------------------------------------
(* The statements of the transactions.                                      *)

LEMMA PgCreateStep ==
  ASSUME StorageInv, NEW c \in Clients, PgCreate(c), call[c].v # NoRow,
         db[SessionRow(call[c].s)] = NoRow,
         load'.unary = load.unary
  PROVE  Stepped(c)
<1>0. /\ StorageTypes /\ ArgsInv(c) /\ StepInv(c) /\ DraftInv(c)
      /\ call[c] \in Calls
  BY Zenon DEF StorageInv, CallInv, StorageTypes
<1>1. /\ backend = "postgres" /\ call[c].kind = "create" /\ call[c].step = "session"
      /\ Kept
  BY Zenon DEF PgCreate
<1>2. call[c].s \in Sessions /\ call[c].v \in Values
  BY <1>0, <1>1, Zenon DEF ArgsInv, Calls
<1> SUFFICES ASSUME NEW s \in Sessions, s = call[c].s
             PROVE  Stepped(c)
  BY <1>2, Zenon
<1>3. SessionRow(s) \in Rows
  BY RowNames, Zenon
<1>4. Write(c, SessionRow(s), NewSessionRow) /\ Step(c, "rav") /\ UNCHANGED db
  BY Zenon DEF PgCreate, Write
<1>5. CallOnly(c) /\ SameArgs(c) /\ call'[c].step = "rav"
  BY <1>0, <1>4, StepEffect, Zenon DEF Steps
<1>6. /\ DOMAIN draft'[c] = DOMAIN draft[c] \cup {SessionRow(s)}
      /\ draft'[c][SessionRow(s)] = NewSessionRow
  <2>1. Wrote(c, SessionRow(s), NewSessionRow)
    BY <1>0, <1>3, <1>4, WriteEffect, Zenon
  <2> QED
    BY <2>1, Zenon DEF Wrote
<1>7. backend' = backend /\ db' = db
  BY <1>1, <1>4, Zenon DEF Kept
<1>8. StepInv(c)'
  BY <1>1, <1>2, <1>5, <1>7, Zenon DEF StepInv, SameArgs
<1>9. DraftInv(c)'
  <2>1. DOMAIN draft[c] = {}
    BY <1>0, <1>1, Zenon DEF DraftInv
  <2>2. SessionDraft(c)'
    BY <1>1, <1>5, <1>6, <1>7, Zenon DEF SessionDraft, SameArgs, S
  <2> QED
    BY <1>1, <1>5, <1>6, <1>7, <2>1, <2>2, Zenon DEF DraftInv, RAVTx, SameArgs
<1> QED
  BY <1>1, <1>3, <1>4, <1>8, <1>9, TxStep, Zenon DEF KeptTx

\* The first statement of an update, for a usage or a RAV.
LEMMA PgUpdateStep ==
  ASSUME StorageInv, NEW c \in Clients, NEW s \in Sessions, s = call[c].s,
         backend = "postgres", call[c].kind \in {"usage", "rav"},
         call[c].step = "session", S(s) # NoRow,
         NEW x, Write(c, SessionRow(s), x),
         NEW label \in {"usage", "rav"}, Step(c, label), KeptTx,
         call[c].kind = "usage" => label = "usage" /\ x = AddUsage(S(s), call[c].cost),
         call[c].kind = "rav" => /\ label = "rav"
                                 /\ x = [S(s) EXCEPT !.base = call[c].base],
         load'.unary = load.unary
  PROVE  Stepped(c)
<1>0. /\ StorageTypes /\ ArgsInv(c) /\ StepInv(c) /\ DraftInv(c)
      /\ call[c] \in Calls
  BY Zenon DEF StorageInv, CallInv, StorageTypes
<1>1. SessionRow(s) \in Rows
  BY RowNames, Zenon
<1>2. CallOnly(c) /\ SameArgs(c) /\ call'[c].step = label
  <2>1. label \in Steps
    BY Zenon DEF Steps
  <2> QED
    BY <1>0, <2>1, StepEffect, Zenon
<1>3. /\ DOMAIN draft'[c] = DOMAIN draft[c] \cup {SessionRow(s)}
      /\ draft'[c][SessionRow(s)] = x
  <2>1. Wrote(c, SessionRow(s), x)
    BY <1>0, <1>1, WriteEffect, Zenon
  <2> QED
    BY <2>1, Zenon DEF Wrote
<1>4. backend' = backend /\ db' = db
  BY Zenon DEF KeptTx, Kept
<1>5. StepInv(c)'
  BY <1>0, <1>2, <1>4, Zenon DEF StepInv, SameArgs, ArgsInv
<1>6. DraftInv(c)'
  <2>1. DOMAIN draft[c] = {}
    BY <1>0, Zenon DEF DraftInv
  <2>2. SessionDraft(c)'
    BY <1>2, <1>3, <1>4, Zenon DEF SessionDraft, SameArgs, S
  <2>3. DOMAIN draft'[c] = {SessionRow(s)}
    BY <1>3, <2>1, Zenon
  <2> QED
    BY <1>2, <1>4, <2>2, <2>3, Zenon DEF DraftInv, RAVTx, UsageTx, SameArgs
<1>7. label \in {"rav", "collection", "usage", "commit", "worker", "increment"}
  OBVIOUS
<1> QED
  BY <1>1, <1>5, <1>6, <1>7, TxStep, Zenon

LEMMA PgApplyUsageStep ==
  ASSUME StorageInv, NEW c \in Clients, PgApplyUsage(c),
         load'.unary = load.unary
  PROVE  Stepped(c)
<1>0. /\ StorageTypes /\ ArgsInv(c) /\ StepInv(c) /\ DraftInv(c)
      /\ call[c] \in Calls
  BY Zenon DEF StorageInv, CallInv, StorageTypes
<1>1. /\ backend = "postgres" /\ call[c].kind = "usage" /\ call[c].step = "session"
      /\ KeptTx
  BY Zenon DEF PgApplyUsage, PgUpdate
<1>2. call[c].s \in Sessions
  BY <1>0, <1>1, Zenon DEF ArgsInv
<1>3. CASE Rollback(c)
  BY <1>1, <1>3, RollbackStep, Zenon DEF KeptTx, Kept
<1>4. CASE ~Rollback(c)
  <2> SUFFICES ASSUME NEW s \in Sessions, s = call[c].s,
                      NEW x, x = AddUsage(S(s), call[c].cost)
               PROVE  Stepped(c)
    BY <1>2, Zenon
  <2>1. S(s) # NoRow /\ Step(c, "usage")
    BY <1>4, Zenon DEF PgApplyUsage, PgUpdate, S
  <2>2. Write(c, SessionRow(call[c].s), AddUsage(S(call[c].s), call[c].cost))
    BY <1>4, Zenon DEF PgApplyUsage, PgUpdate, S
  <2>3. Write(c, SessionRow(s), x)
    BY <2>2, Zenon DEF Write, S
  <2> QED
    BY <1>1, <2>1, <2>3, PgUpdateStep, Zenon
<1> QED
  BY <1>3, <1>4, Zenon

LEMMA PgUpdateBaselineStep ==
  ASSUME StorageInv, NEW c \in Clients, PgUpdateBaseline(c),
         load'.unary = load.unary
  PROVE  Stepped(c)
<1>0. /\ StorageTypes /\ ArgsInv(c) /\ StepInv(c) /\ DraftInv(c)
      /\ call[c] \in Calls
  BY Zenon DEF StorageInv, CallInv, StorageTypes
<1>1. /\ backend = "postgres" /\ call[c].kind = "rav" /\ call[c].step = "session"
      /\ KeptTx
  BY Zenon DEF PgUpdateBaseline, PgUpdate
<1>2. call[c].s \in Sessions
  BY <1>0, <1>1, Zenon DEF ArgsInv
<1>3. CASE Rollback(c)
  BY <1>1, <1>3, RollbackStep, Zenon DEF KeptTx, Kept
<1>4. CASE ~Rollback(c)
  <2> SUFFICES ASSUME NEW s \in Sessions, s = call[c].s,
                      NEW x, x = [S(s) EXCEPT !.base = call[c].base]
               PROVE  Stepped(c)
    BY <1>2, Zenon
  <2>1. S(s) # NoRow /\ Step(c, "rav")
    BY <1>4, Zenon DEF PgUpdateBaseline, PgUpdate, S
  <2>2. Write(c, SessionRow(call[c].s), [S(call[c].s) EXCEPT !.base = call[c].base])
    BY <1>4, Zenon DEF PgUpdateBaseline, PgUpdate, S
  <2>3. Write(c, SessionRow(s), x)
    BY <2>2, Zenon DEF Write, S
  <2> QED
    BY <1>1, <2>1, <2>3, PgUpdateStep, Zenon
<1> QED
  BY <1>3, <1>4, Zenon

LEMMA PgAddUsageStep ==
  ASSUME StorageInv, NEW c \in Clients, PgAddUsage(c),
         load'.unary = load.unary
  PROVE  Stepped(c)
<1>0. /\ StorageTypes /\ ArgsInv(c) /\ StepInv(c) /\ DraftInv(c)
      /\ call[c] \in Calls
  BY Zenon DEF StorageInv, CallInv, StorageTypes
<1>1. /\ backend = "postgres" /\ call[c].kind = "usage" /\ call[c].step = "usage"
      /\ KeptTx /\ Step(c, "commit")
  BY <1>0, Zenon DEF PgAddUsage, StepInv
<1>2. call[c].s \in Sessions
  BY <1>0, <1>1, Zenon DEF ArgsInv
<1> SUFFICES ASSUME NEW s \in Sessions, s = call[c].s,
                    NEW x, x = Row(c, UsageRows(s)) + call[c].cost
             PROVE  Stepped(c)
  BY <1>2, Zenon
<1>3. Write(c, UsageRows(s), x) /\ UsageRows(s) \in Rows
  BY RowNames, Zenon DEF PgAddUsage, Write
<1>4. DOMAIN draft[c] = {SessionRow(s)} /\ SessionDraft(c)
  BY <1>0, <1>1, Zenon DEF DraftInv, UsageTx
<1>5. x = U(s) + call[c].cost
  BY <1>4, RowsDiffer, Zenon DEF Row, U
<1>6. CallOnly(c) /\ SameArgs(c) /\ call'[c].step = "commit"
  BY <1>0, <1>1, StepEffect, Zenon DEF Steps
<1>7. /\ DOMAIN draft'[c] = DOMAIN draft[c] \cup {UsageRows(s)}
      /\ draft'[c][UsageRows(s)] = x
      /\ \A y \in DOMAIN draft[c] : y # UsageRows(s) => draft'[c][y] = draft[c][y]
  <2>1. Wrote(c, UsageRows(s), x)
    BY <1>0, <1>3, WriteEffect, Zenon
  <2> QED
    BY <2>1, Zenon DEF Wrote
<1>8. backend' = backend /\ db' = db
  BY <1>1, Zenon DEF KeptTx, Kept
<1>9. StepInv(c)'
  BY <1>1, <1>6, <1>8, Zenon DEF StepInv, SameArgs
<1>10. DraftInv(c)'
  <2>1. draft'[c][SessionRow(s)] = draft[c][SessionRow(s)]
    BY <1>4, <1>7, RowsDiffer, Zenon
  <2>2. SessionDraft(c)'
    BY <1>1, <1>4, <1>6, <1>8, <2>1, Zenon DEF SessionDraft, SameArgs, S
  <2>3. DOMAIN draft'[c] = {SessionRow(s), UsageRows(s)}
    BY <1>4, <1>7, Zenon
  <2> QED
    BY <1>1, <1>5, <1>6, <1>7, <1>8, <2>2, <2>3, Zenon DEF DraftInv, UsageTx, SameArgs, U
<1> QED
  BY <1>1, <1>3, <1>9, <1>10, TxStep, Zenon

LEMMA PgUpsertRAVStep ==
  ASSUME StorageInv, NEW c \in Clients, PgUpsertRAV(c),
         load'.unary = load.unary
  PROVE  Stepped(c)
<1>0. /\ StorageTypes /\ ArgsInv(c) /\ StepInv(c) /\ DraftInv(c)
      /\ call[c] \in Calls
  BY Zenon DEF StorageInv, CallInv, StorageTypes
<1>1. /\ call[c].step = "rav" /\ KeptTx /\ Step(c, "collection")
  BY Zenon DEF PgUpsertRAV
<1>2. /\ call[c].kind \in {"create", "rav"} /\ call[c].v \in Values
      /\ backend = "postgres"
  BY <1>0, <1>1, Zenon DEF StepInv, StorageTypes
<1>3. call[c].s \in Sessions
  BY <1>0, <1>2, Zenon DEF ArgsInv
<1> SUFFICES ASSUME NEW s \in Sessions, s = call[c].s, NEW x, x = call[c].v
             PROVE  Stepped(c)
  BY <1>3, Zenon
<1>4. Write(c, RAVRow(s), x) /\ RAVRow(s) \in Rows
  BY RowNames, Zenon DEF PgUpsertRAV, Write
<1>5. DOMAIN draft[c] = {SessionRow(s)} /\ SessionDraft(c)
  BY <1>0, <1>1, <1>2, Zenon DEF DraftInv, RAVTx
<1>6. CallOnly(c) /\ SameArgs(c) /\ call'[c].step = "collection"
  BY <1>0, <1>1, StepEffect, Zenon DEF Steps
<1>7. /\ DOMAIN draft'[c] = DOMAIN draft[c] \cup {RAVRow(s)}
      /\ draft'[c][RAVRow(s)] = x
      /\ \A y \in DOMAIN draft[c] : y # RAVRow(s) => draft'[c][y] = draft[c][y]
  <2>1. Wrote(c, RAVRow(s), x)
    BY <1>0, <1>4, WriteEffect, Zenon
  <2> QED
    BY <2>1, Zenon DEF Wrote
<1>8. backend' = backend /\ db' = db
  BY <1>1, Zenon DEF KeptTx, Kept
<1>9. StepInv(c)'
  BY <1>2, <1>6, <1>8, Zenon DEF StepInv, SameArgs
<1>10. DraftInv(c)'
  <2>1. draft'[c][SessionRow(s)] = draft[c][SessionRow(s)]
    BY <1>5, <1>7, RowsDiffer, Zenon
  <2>2. SessionDraft(c)' /\ RAVDraft(c)'
    BY <1>5, <1>6, <1>7, <1>8, <2>1, Zenon DEF SessionDraft, RAVDraft, SameArgs, S
  <2>3. DOMAIN draft'[c] = {SessionRow(s), RAVRow(s)}
    BY <1>5, <1>7, Zenon
  <2> QED
    BY <1>2, <1>6, <1>8, <2>2, <2>3, Zenon DEF DraftInv, RAVTx, SameArgs
<1> QED
  BY <1>1, <1>2, <1>4, <1>9, <1>10, TxStep, Zenon

LEMMA PgUpsertCollectibleStep ==
  ASSUME StorageInv, NEW c \in Clients, PgUpsertCollectible(c),
         load'.unary = load.unary
  PROVE  Stepped(c)
<1>0. /\ StorageTypes /\ ArgsInv(c) /\ StepInv(c) /\ DraftInv(c)
      /\ call[c] \in Calls
  BY Zenon DEF StorageInv, CallInv, StorageTypes
<1>1. backend = "postgres" /\ call[c].step = "collection" /\ KeptTx
  BY Zenon DEF PgUpsertCollectible
<1>2. call[c].kind \in {"create", "rav"} /\ call[c].v \in Values
  BY <1>0, <1>1, Zenon DEF StepInv
<1>3. call[c].s \in Sessions
  BY <1>0, <1>2, Zenon DEF ArgsInv
<1>4. CASE Rollback(c)
  BY <1>1, <1>4, RollbackStep, Zenon DEF KeptTx, Kept
<1>5. CASE ~Rollback(c)
  <2> SUFFICES ASSUME NEW s \in Sessions, s = call[c].s,
                      NEW x, x = NextCollectible(Row(c, CollectionRow(s)), call[c].v)
               PROVE  Stepped(c)
    BY <1>3, Zenon
  <2>1. /\ ~CollectionConflict(Row(c, CollectionRow(s)), call[c].v)
        /\ Step(c, "commit")
    BY <1>5, Zenon DEF PgUpsertCollectible
  <2>2. Write(c, CollectionRow(s), x) /\ CollectionRow(s) \in Rows
    BY <1>5, RowNames, Zenon DEF PgUpsertCollectible, Write
  <2>3. /\ DOMAIN draft[c] = {SessionRow(s), RAVRow(s)}
        /\ SessionDraft(c) /\ RAVDraft(c)
    BY <1>0, <1>1, <1>2, Zenon DEF DraftInv, RAVTx
  <2>4. Row(c, CollectionRow(s)) = C(s)
    BY <2>3, RowsDiffer, Zenon DEF Row, C
  <2>5. CallOnly(c) /\ SameArgs(c) /\ call'[c].step = "commit"
    BY <1>0, <2>1, StepEffect, Zenon DEF Steps
  <2>6. Wrote(c, CollectionRow(s), x)
    BY <1>0, <2>2, WriteEffect, Zenon
  <2>7. backend' = backend /\ db' = db
    BY <1>1, Zenon DEF KeptTx, Kept
  <2>8. StepInv(c)'
    BY <1>1, <1>2, <2>5, <2>7, Zenon DEF StepInv, SameArgs
  <2>9. DraftInv(c)'
    <3>1. /\ draft'[c][SessionRow(s)] = draft[c][SessionRow(s)]
          /\ draft'[c][RAVRow(s)] = draft[c][RAVRow(s)]
      BY <2>3, <2>6, RowsDiffer, Zenon DEF Wrote
    <3>2. SessionDraft(c)' /\ RAVDraft(c)'
      BY <2>3, <2>5, <2>7, <3>1, Zenon DEF SessionDraft, RAVDraft, SameArgs, S
    <3>3. DOMAIN draft'[c] = {SessionRow(s), RAVRow(s), CollectionRow(s)}
      BY <2>3, <2>6, Zenon DEF Wrote
    <3>4. CollectionDraft(c)'
      BY <2>1, <2>4, <2>5, <2>6, <2>7, Zenon DEF CollectionDraft, SameArgs, Wrote, C
    <3> QED
      BY <1>1, <1>2, <2>5, <2>7, <3>2, <3>3, <3>4, Zenon DEF DraftInv, RAVTx, SameArgs
  <2> QED
    BY <1>1, <2>1, <2>2, <2>8, <2>9, TxStep, Zenon
<1> QED
  BY <1>4, <1>5, Zenon

LEMMA PgLockQuotaStep ==
  ASSUME StorageInv, NEW c \in Clients, PgLockQuota(c),
         load'.unary = load.unary
  PROVE  Stepped(c)
<1>0. /\ StorageTypes /\ ArgsInv(c) /\ StepInv(c) /\ DraftInv(c)
      /\ call[c] \in Calls
  BY Zenon DEF StorageInv, CallInv, StorageTypes
<1>1. /\ backend = "postgres" /\ call[c].step = "quota" /\ KeptTx
      /\ call[c].kind = "reserve"
  BY <1>0, Zenon DEF PgLockQuota, StepInv
<1>2. call[c].p \in Payers
  BY <1>0, <1>1, Zenon DEF ArgsInv
<1>3. CASE Rollback(c)
  BY <1>1, <1>3, RollbackStep, Zenon DEF KeptTx, Kept
<1>4. CASE ~Rollback(c)
  <2> SUFFICES ASSUME NEW q \in Payers, q = call[c].p, NEW x, x = Q(q)
               PROVE  Stepped(c)
    BY <1>2, Zenon
  <2>1. ~Exceeds(db, QuotaRow(q), 1, MaxWorkers) /\ Step(c, "worker")
    BY <1>4, Zenon DEF PgLockQuota
  <2>2. Write(c, QuotaRow(q), x) /\ QuotaRow(q) \in Rows
    BY <1>4, RowNames, Zenon DEF PgLockQuota, Write, Q
  <2>3. DOMAIN draft[c] = {}
    BY <1>0, <1>1, Zenon DEF DraftInv
  <2>4. CallOnly(c) /\ SameArgs(c) /\ call'[c].step = "worker"
    BY <1>0, <2>1, StepEffect, Zenon DEF Steps
  <2>5. Wrote(c, QuotaRow(q), x)
    BY <1>0, <2>2, WriteEffect, Zenon
  <2>6. backend' = backend /\ db' = db
    BY <1>1, Zenon DEF KeptTx, Kept
  <2>7. StepInv(c)'
    BY <1>1, <2>4, <2>6, Zenon DEF StepInv, SameArgs
  <2>8. DraftInv(c)'
    <3>1. DOMAIN draft'[c] = {QuotaRow(q)} /\ draft'[c][QuotaRow(q)] = x
      BY <2>3, <2>5, Zenon DEF Wrote
    <3> QED
      BY <1>1, <2>1, <2>4, <2>6, <3>1, Zenon DEF DraftInv, ReserveTx, SameArgs, Q, Exceeds
  <2> QED
    BY <1>1, <2>1, <2>2, <2>7, <2>8, TxStep, Zenon
<1> QED
  BY <1>3, <1>4, Zenon

LEMMA PgCreateWorkerStep ==
  ASSUME StorageInv, NEW c \in Clients, PgCreateWorker(c),
         load'.unary = load.unary
  PROVE  Stepped(c)
<1>0. /\ StorageTypes /\ ArgsInv(c) /\ StepInv(c) /\ DraftInv(c)
      /\ call[c] \in Calls
  BY Zenon DEF StorageInv, CallInv, StorageTypes
<1>1. /\ backend = "postgres" /\ call[c].step = "worker" /\ KeptTx
      /\ call[c].kind = "reserve"
  BY <1>0, Zenon DEF PgCreateWorker, StepInv
<1>2. call[c].p \in Payers /\ call[c].k \in Keys
  BY <1>0, <1>1, Zenon DEF ArgsInv
<1>3. CASE Rollback(c)
  BY <1>1, <1>3, RollbackStep, Zenon DEF KeptTx, Kept
<1>4. CASE ~Rollback(c)
  <2> SUFFICES ASSUME NEW q \in Payers, q = call[c].p, NEW w \in Keys, w = call[c].k,
                      NEW x, x = Worker(call[c].s, call[c].p)
               PROVE  Stepped(c)
    BY <1>2, Zenon
  <2>1. W(w) = NoWorker /\ Step(c, "increment")
    BY <1>4, Zenon DEF PgCreateWorker, W
  <2>2. Write(c, WorkerRow(w), x) /\ WorkerRow(w) \in Rows
    BY <1>4, RowNames, Zenon DEF PgCreateWorker, Write
  <2>3. /\ DOMAIN draft[c] = {QuotaRow(q)}
        /\ draft[c][QuotaRow(q)] = Q(q)
        /\ ~Exceeds(db, QuotaRow(q), 1, MaxWorkers)
    BY <1>0, <1>1, Zenon DEF DraftInv, ReserveTx
  <2>4. CallOnly(c) /\ SameArgs(c) /\ call'[c].step = "increment"
    BY <1>0, <2>1, StepEffect, Zenon DEF Steps
  <2>5. Wrote(c, WorkerRow(w), x)
    BY <1>0, <2>2, WriteEffect, Zenon
  <2>6. backend' = backend /\ db' = db
    BY <1>1, Zenon DEF KeptTx, Kept
  <2>7. StepInv(c)'
    BY <1>1, <2>4, <2>6, Zenon DEF StepInv, SameArgs
  <2>8. DraftInv(c)'
    <3>1. /\ DOMAIN draft'[c] = {QuotaRow(q), WorkerRow(w)}
          /\ draft'[c][WorkerRow(w)] = x
          /\ draft'[c][QuotaRow(q)] = Q(q)
      BY <2>3, <2>5, RowsDiffer, Zenon DEF Wrote
    <3>2. WorkerDraft(c)'
      BY <2>1, <2>4, <2>6, <3>1, Zenon DEF WorkerDraft, SameArgs, W
    <3> QED
      BY <1>1, <2>3, <2>4, <2>6, <3>1, <3>2, Zenon
        DEF DraftInv, ReserveTx, SameArgs, Q, Exceeds
  <2> QED
    BY <1>1, <2>1, <2>2, <2>7, <2>8, TxStep, Zenon
<1> QED
  BY <1>3, <1>4, Zenon

LEMMA PgIncrementQuotaStep ==
  ASSUME StorageInv, NEW c \in Clients, PgIncrementQuota(c),
         load'.unary = load.unary
  PROVE  Stepped(c)
<1>0. /\ StorageTypes /\ ArgsInv(c) /\ StepInv(c) /\ DraftInv(c)
      /\ call[c] \in Calls
  BY Zenon DEF StorageInv, CallInv, StorageTypes
<1>1. /\ call[c].step = "increment" /\ KeptTx /\ Step(c, "commit")
      /\ call[c].kind = "reserve" /\ backend = "postgres"
  BY <1>0, Zenon DEF PgIncrementQuota, StepInv, StorageTypes
<1>2. call[c].p \in Payers /\ call[c].k \in Keys
  BY <1>0, <1>1, Zenon DEF ArgsInv
<1> SUFFICES ASSUME NEW q \in Payers, q = call[c].p, NEW w \in Keys, w = call[c].k,
                    NEW x, x = Row(c, QuotaRow(q)) + 1
             PROVE  Stepped(c)
  BY <1>2, Zenon
<1>3. Write(c, QuotaRow(q), x) /\ QuotaRow(q) \in Rows
  BY RowNames, Zenon DEF PgIncrementQuota, Write
<1>4. /\ DOMAIN draft[c] = {QuotaRow(q), WorkerRow(w)}
      /\ draft[c][QuotaRow(q)] = Q(q) /\ WorkerDraft(c)
      /\ ~Exceeds(db, QuotaRow(q), 1, MaxWorkers)
  BY <1>0, <1>1, Zenon DEF DraftInv, ReserveTx
<1>5. x = Q(q) + 1
  BY <1>4, Zenon DEF Row
<1>6. CallOnly(c) /\ SameArgs(c) /\ call'[c].step = "commit"
  BY <1>0, <1>1, StepEffect, Zenon DEF Steps
<1>7. Wrote(c, QuotaRow(q), x)
  BY <1>0, <1>3, WriteEffect, Zenon
<1>8. backend' = backend /\ db' = db
  BY <1>1, Zenon DEF KeptTx, Kept
<1>9. StepInv(c)'
  BY <1>1, <1>6, <1>8, Zenon DEF StepInv, SameArgs
<1>10. DraftInv(c)'
  <2>1. /\ DOMAIN draft'[c] = {QuotaRow(q), WorkerRow(w)}
        /\ draft'[c][QuotaRow(q)] = Q(q) + 1
        /\ draft'[c][WorkerRow(w)] = draft[c][WorkerRow(w)]
    BY <1>4, <1>5, <1>7, RowsDiffer, Zenon DEF Wrote
  <2>2. WorkerDraft(c)'
    BY <1>4, <1>6, <1>8, <2>1, Zenon DEF WorkerDraft, SameArgs, W
  <2> QED
    BY <1>1, <1>4, <1>6, <1>8, <2>1, <2>2, Zenon
      DEF DraftInv, ReserveTx, SameArgs, Q, Exceeds
<1> QED
  BY <1>1, <1>3, <1>9, <1>10, TxStep, Zenon

\* A read: the session's row, then its RAV.
LEMMA PgGetStep ==
  ASSUME StorageInv, NEW c \in Clients, PgGet(c),
         load'.unary = load.unary
  PROVE  Stepped(c)
<1>0. /\ StorageTypes /\ ArgsInv(c) /\ StepInv(c) /\ DraftInv(c) /\ GetInv(c)
      /\ Books /\ call[c] \in Calls /\ got \in [Clients -> Session \cup {NoSession}]
      /\ mu \in Clients \cup {NoRow} /\ (backend = "postgres" => mu = NoRow)
  BY Zenon DEF StorageInv, CallInv, StorageTypes
<1>1. /\ backend = "postgres" /\ call[c].kind = "get"
      /\ UNCHANGED <<backend, db, draft, mu>>
      /\ call[c].step \in {"session", "rows"}
  BY <1>0, Zenon DEF PgGet, StepInv
<1>2. call[c].s \in Sessions
  BY <1>0, <1>1, Zenon DEF ArgsInv
<1>3. DraftOnly(c) /\ DOMAIN draft'[c] = {}
  <2>1. DOMAIN draft[c] = {} /\ draft' = draft
    BY <1>0, <1>1, Zenon DEF DraftInv
  <2> QED
    BY <2>1, <1>0, <1>1, DraftKept, Zenon DEF StorageTypes, DraftOnly
<1> SUFFICES ASSUME NEW s \in Sessions, s = call[c].s
             PROVE  Stepped(c)
  BY <1>2, Zenon
<1>4. ASSUME NEW g \in Session \cup {NoSession}, got' = [got EXCEPT ![c] = g],
             Done(c), g # NoSession => Pays(g.rav, g.base)
      PROVE  Stepped(c)
  <2>1. GotOnly(c) /\ got'[c] = g
    BY <1>0, <1>4, Zenon DEF GotOnly
  <2>2. GotInv(c)'
    BY <1>4, <2>1, Zenon DEF GotInv, Pays
  <2> QED
    BY <1>0, <1>1, <1>3, <1>4, <2>1, <2>2, QuietEnd, Zenon
<1>5. CASE call[c].step = "session" /\ db[SessionRow(s)] = NoRow
  BY <1>4, <1>5, Zenon DEF PgGet
<1>6. CASE call[c].step = "session" /\ db[SessionRow(s)] # NoRow
  <2>1. /\ call' = [call EXCEPT ![c] = [call[c] EXCEPT !.step = "rows", !.row = S(s)]]
        /\ UNCHANGED got
    BY <1>6, Zenon DEF PgGet, S
  <2>2. S(s) \in SessionRows
    BY <1>0, <1>6, Zenon DEF StorageTypes, Tables, S
  <2>3. /\ [call[c] EXCEPT !.step = "rows", !.row = S(s)] \in Calls
        /\ [call[c] EXCEPT !.step = "rows", !.row = S(s)].step = "rows"
        /\ [call[c] EXCEPT !.step = "rows", !.row = S(s)].row = S(s)
        /\ [call[c] EXCEPT !.step = "rows", !.row = S(s)].s = s
        /\ [call[c] EXCEPT !.step = "rows", !.row = S(s)].kind = "get"
    BY <1>0, <1>1, <2>2, CallRead, Zenon
  <2>4. call \in [Clients -> Calls]
    BY <1>0, Zenon DEF StorageTypes
  <2>5. /\ CallOnly(c) /\ call'[c].step = "rows" /\ call'[c].row = S(s)
        /\ call'[c].s = s /\ call'[c].kind = "get"
    BY <2>1, <2>3, <2>4, Zenon DEF CallOnly
  <2>6. GotOnly(c) /\ GotInv(c)'
    BY <2>1, GotKept, Zenon
  <2>7. Frame(c) /\ Books'
    BY <1>0, <1>1, <1>3, <2>5, <2>6, QuietFrame, Zenon
  <2>8. ArgsInv(c)' /\ RAVInv(c)' /\ MuInv(c)'
    BY <2>5, Zenon DEF ArgsInv, RAVInv, MuInv
  <2>9. StepInv(c)'
    BY <1>1, <2>5, Zenon DEF StepInv
  <2>10. DraftInv(c)'
    BY <1>1, <1>3, <2>5, Zenon DEF DraftInv
  <2>11. GetInv(c)'
    <3>1. Pays(Paid(s), S(s).base)
      BY <1>0, <1>6, Zenon DEF Books, Covered, S
    <3> QED
      BY <1>1, <1>6, <2>2, <2>5, <3>1, Zenon DEF GetInv, Pays, Paid, S, RV
  <2>12. CallInv(c)'
    BY <2>6, <2>8, <2>9, <2>10, <2>11, Zenon DEF CallInv
  <2> QED
    BY <1>0, <1>1, <1>3, <2>5, <2>7, <2>12, Zenon DEF Stepped
<1>7. CASE call[c].step = "rows"
  <2>1. /\ got' = [got EXCEPT ![c] = ToSession(call[c].row, RV(s))]
        /\ Done(c)
    BY <1>7, Zenon DEF PgGet, RV
  <2>2. call[c].row \in SessionRows /\ Pays(Paid(s), call[c].row.base)
    BY <1>0, <1>7, Zenon DEF GetInv
  <2>3. RV(s) \in Values \cup {NoRow}
    BY <1>0, Zenon DEF StorageTypes, Tables
  <2>4. /\ ToSession(call[c].row, RV(s)) \in Session
        /\ ToSession(call[c].row, RV(s)).base = call[c].row.base
        /\ ToSession(call[c].row, RV(s)).rav = Paid(s)
    BY <2>2, <2>3, ToSessionType, Zenon DEF Paid
  <2>5. Pays(ToSession(call[c].row, RV(s)).rav, ToSession(call[c].row, RV(s)).base)
    BY <2>2, <2>4, Zenon
  <2> QED
    BY <1>4, <2>1, <2>4, <2>5, Zenon
<1> QED
  BY <1>1, <1>5, <1>6, <1>7, Zenon

-----------------------------------------------------------------------------
(* Steps that write the tables.                                             *)

LEMMA EndStep ==
  ASSUME StorageInv, NEW c \in Clients, Done(c), backend' = backend, got' = got,
         DraftOnly(c), DOMAIN draft'[c] = {}, Tables', Books',
         StoredGrow(c), LockedKept(c), MuKept(c), mu' \in Clients \cup {NoRow},
         backend = "postgres" => mu' = NoRow,
         load'.unary = load.unary
  PROVE  Stepped(c)
<1>0. StorageTypes
  BY Zenon DEF StorageInv
<1>1. CallOnly(c) /\ call'[c] = Idle
  BY <1>0, DoneEffect, Zenon
<1>2. GotOnly(c) /\ GotInv(c)'
  BY GotKept, Zenon
<1>3. StorageTypes'
  <2>1. \A d \in Clients : DOMAIN draft'[d] \subseteq Rows
    BY <1>0, Zenon DEF StorageTypes, DraftOnly
  <2> QED
    BY <1>0, <1>1, <1>2, <2>1, Zenon DEF StorageTypes, CallOnly, DraftOnly, GotOnly
<1>4. CallInv(c)'
  BY <1>1, <1>2, EndedCall, Zenon
<1>5. call'[c].kind # "rav"
  BY <1>1, IdleType, Zenon
<1>6. Frame(c)
  BY <1>1, <1>2, <1>3, Zenon DEF Frame
<1> QED
  BY <1>4, <1>5, <1>6, Zenon DEF Stepped

LEMMA UnlockedKept ==
  ASSUME StorageInv, NEW c \in Clients, NEW r \in Rows, NEW x, ~Locked(r, c),
         db' = [db EXCEPT ![r] = x]
  PROVE  LockedKept(c)
<1>1. Tables /\ \A d \in Clients : DOMAIN draft[d] \subseteq Rows
  BY Zenon DEF StorageInv, StorageTypes
<1>2. \A y \in Rows : y # r => db'[y] = db[y]
  BY <1>1, SetRow, Zenon
<1>3. \A d \in Clients \ {c} : r \notin DOMAIN draft[d]
  BY Zenon DEF Locked
<1> QED
  BY <1>1, <1>2, <1>3, Zenon DEF LockedKept

LEMMA MemoryKept ==
  ASSUME StorageInv, NEW c \in Clients, backend = "memory"
  PROVE  LockedKept(c) /\ DOMAIN draft[c] = {}
<1>1. \A d \in Clients : DOMAIN draft[d] = {}
  BY Zenon DEF StorageInv, CallInv, DraftInv
<1> QED
  BY <1>1, Zenon DEF LockedKept

LEMMA RecordsKept ==
  ASSUME NEW c \in Clients, mu' = mu, \A s \in Sessions : C(s)' = C(s)
  PROVE  MuKept(c)
BY Zenon DEF MuKept

\* A step of the holder of collectionMu, or while nobody holds it.
LEMMA NoOtherHolds ==
  ASSUME StorageInv, NEW c \in Clients, mu \in {NoRow, c}
  PROVE  MuKept(c)
<1>1. \A d \in Clients \ {c} : call[d].step \notin {"swap", "set"}
  <2>1. \A d \in Clients : MuInv(d)
    BY Zenon DEF StorageInv, CallInv
  <2>2. \A d \in Clients \ {c} : mu # d
    BY NoRowIsNone, Zenon
  <2> QED
    BY <2>1, <2>2, Zenon DEF MuInv
<1> QED
  BY <1>1, Zenon DEF MuKept

LEMMA SessionsKept ==
  ASSUME StorageInv, NEW c \in Clients, NEW us, NEW cs, NEW ks, NEW ps,
         Touch({}, {}, us, cs, ks, ps),
         load'.unary = load.unary
  PROVE  StoredGrow(c) /\ Books'
<1>1. \A s \in Sessions : S(s)' = S(s) /\ RV(s)' = RV(s)
  BY Zenon DEF Touch
<1>2. Tables /\ Books
  BY Zenon DEF StorageInv, StorageTypes
<1>3. Books'
  BY <1>1, <1>2, Zenon DEF Books, Covered, Pays, Paid
<1>4. StoredGrow(c)
  <2> SUFFICES ASSUME NEW s \in Sessions, S(s) # NoRow
               PROVE  S(s)' # NoRow /\ S(s)'.total >= S(s).total /\ RV(s)' = RV(s)
    BY Zenon DEF StoredGrow
  <2>1. S(s) \in SessionRows
    BY <1>2, Zenon DEF Tables
  <2> QED
    BY <1>1, <2>1 DEF SessionRows
<1> QED
  BY <1>3, <1>4, Zenon

\* A session is created or changed, alone or with its RAV.
LEMMA SessionWritten ==
  ASSUME StorageInv, NEW c \in Clients, NEW s \in Sessions,
         NEW rs \in {{}, {s}}, NEW us, NEW cs, NEW ks, NEW ps,
         Touch({s}, rs, us, cs, ks, ps),
         S(s)' \in SessionRows, Pays(Paid(s)', S(s)'.base),
         S(s) # NoRow =>
           /\ S(s)'.total >= S(s).total
           /\ \/ RV(s)' = RV(s)
              \/ call[c].kind = "rav" /\ call[c].s = s /\ Pays(Paid(s)', Paid(s)),
         load'.unary = load.unary
  PROVE  StoredGrow(c) /\ Books'
<1>1. \A t \in Sessions : t # s => S(t)' = S(t) /\ RV(t)' = RV(t)
  BY Zenon DEF Touch
<1>2. Tables /\ Books /\ S(s)' # NoRow
  BY NoRowIsNone, Zenon DEF StorageInv, StorageTypes
<1>3. Books'
  <2> SUFFICES ASSUME NEW t \in Sessions
               PROVE  Covered(t)'
    BY Zenon DEF Books
  <2>1. CASE t = s
    BY <1>2, <2>1, Zenon DEF Covered, Pays
  <2>2. CASE t # s
    BY <1>1, <1>2, <2>2, Zenon DEF Books, Covered, Pays, Paid
  <2> QED
    BY <2>1, <2>2, Zenon
<1>4. StoredGrow(c)
  <2> SUFFICES ASSUME NEW t \in Sessions, t # s, S(t) # NoRow
               PROVE  S(t)' # NoRow /\ S(t)'.total >= S(t).total /\ RV(t)' = RV(t)
    BY <1>2, Zenon DEF StoredGrow
  <2>1. S(t) \in SessionRows
    BY <1>2, Zenon DEF Tables
  <2> QED
    BY <1>1, <2>1 DEF SessionRows
<1> QED
  BY <1>3, <1>4, Zenon

-----------------------------------------------------------------------------
(* Single statements.                                                       *)

LEMMA RuntimeStateEffect ==
  ASSUME StorageInv, NEW c \in Clients, UpdateRuntimeState(c),
         NEW s \in Sessions, s = call[c].s
  PROVE  /\ Done(c) /\ Kept /\ UNCHANGED draft
         /\ \/ db' = db
            \/ /\ S(s) \in SessionRows /\ ~Locked(SessionRow(s), c)
               /\ db' = [db EXCEPT ![SessionRow(s)] =
                           WithRuntimeState(S(s), call[c].status)]
<1>1. S(s) # NoRow => S(s) \in SessionRows
  BY Zenon DEF StorageInv, StorageTypes, Tables
<1> QED
  BY <1>1, Zenon DEF UpdateRuntimeState, Execute, S

LEMMA RuntimeStateStep ==
  ASSUME StorageInv, NEW c \in Clients, UpdateRuntimeState(c),
         load'.unary = load.unary
  PROVE  Stepped(c)
<1>0. /\ StorageTypes /\ ArgsInv(c) /\ StepInv(c) /\ DraftInv(c) /\ Books
      /\ mu \in Clients \cup {NoRow} /\ (backend = "postgres" => mu = NoRow)
  BY Zenon DEF StorageInv, CallInv, StorageTypes
<1>1. /\ call[c].kind = "runtime" /\ call[c].step = "one"
      /\ call[c].s \in Sessions /\ call[c].status \in SessionStatuses
  BY <1>0, Zenon DEF UpdateRuntimeState, ArgsInv, StepInv
<1> SUFFICES ASSUME NEW s \in Sessions, s = call[c].s,
                    NEW status \in SessionStatuses, status = call[c].status
             PROVE  Stepped(c)
  BY <1>1, Zenon
<1>2. /\ Done(c) /\ Kept /\ UNCHANGED draft
      /\ \/ db' = db
         \/ /\ S(s) \in SessionRows /\ ~Locked(SessionRow(s), c)
            /\ db' = [db EXCEPT ![SessionRow(s)] = WithRuntimeState(S(s), status)]
  BY RuntimeStateEffect, Zenon
<1>3. /\ DraftOnly(c) /\ DOMAIN draft'[c] = {} /\ GotOnly(c) /\ GotInv(c)'
      /\ backend' = backend /\ mu' = mu /\ got' = got
  <2>1. DOMAIN draft[c] = {}
    BY <1>0, <1>1, Zenon DEF DraftInv
  <2> QED
    BY <1>0, <1>2, <2>1, DraftKept, GotKept, Zenon DEF Kept
<1>4. CASE db' = db
  BY <1>0, <1>2, <1>3, <1>4, QuietEnd, Zenon
<1>5. CASE db' # db
  <2> SUFFICES ASSUME NEW x, x = WithRuntimeState(S(s), status)
               PROVE  Stepped(c)
    OBVIOUS
  <2>1. S(s) \in SessionRows /\ ~Locked(SessionRow(s), c)
        /\ db' = [db EXCEPT ![SessionRow(s)] = x]
    BY <1>2, <1>5, Zenon
  <2>2. x \in SessionRows /\ x.total = S(s).total /\ x.base = S(s).base
    BY <2>1, RuntimeStateType, Zenon
  <2>3. Touch({s}, {}, {}, {}, {}, {}) /\ S(s)' = x
    BY <1>0, <2>1, SetSession, Zenon DEF StorageTypes
  <2>4. Tables'
    BY <1>0, <2>2, <2>3, TablesTouched DEF StorageTypes
  <2>5. RV(s)' = RV(s)
    BY <2>3, Zenon DEF Touch
  <2>6. Pays(Paid(s)', x.base)
    BY <1>0, <2>1, <2>2, <2>5, NoRowIsNone, Zenon DEF Books, Covered, Paid
  <2>7. StoredGrow(c) /\ Books'
    <3>1. x.total >= S(s).total
      BY <2>1, <2>2 DEF SessionRows
    <3> QED
      BY <2>2, <2>3, <2>5, <2>6, <3>1, SessionWritten, Zenon
  <2>8. MuKept(c)
    <3>1. \A t \in Sessions : C(t)' = C(t)
      BY <2>3, Zenon DEF Touch
    <3> QED
      BY <1>3, <3>1, RecordsKept, Zenon
  <2>9. LockedKept(c)
    BY <2>1, RowNames, UnlockedKept, Zenon
  <2> QED
    BY <1>0, <1>2, <1>3, <2>4, <2>7, <2>8, <2>9, EndStep, Zenon
<1> QED
  BY <1>4, <1>5, Zenon

LEMMA DeleteWorkerStep ==
  ASSUME StorageInv, NEW c \in Clients, DeleteWorker(c),
         load'.unary = load.unary
  PROVE  Stepped(c)
<1>0. /\ StorageTypes /\ ArgsInv(c) /\ StepInv(c) /\ DraftInv(c)
      /\ mu \in Clients \cup {NoRow} /\ (backend = "postgres" => mu = NoRow)
  BY Zenon DEF StorageInv, CallInv, StorageTypes
<1>1. call[c].kind = "delete" /\ call[c].step = "one" /\ call[c].k \in Keys
  BY <1>0, Zenon DEF DeleteWorker, ArgsInv, StepInv
<1> SUFFICES ASSUME NEW k \in Keys, k = call[c].k
             PROVE  Stepped(c)
  BY <1>1, Zenon
<1>2. /\ Done(c) /\ Kept /\ UNCHANGED draft
      /\ ~Locked(WorkerRow(k), c) /\ db' = [db EXCEPT ![WorkerRow(k)] = NoWorker]
  BY Zenon DEF DeleteWorker, Execute
<1>3. /\ DraftOnly(c) /\ DOMAIN draft'[c] = {}
      /\ backend' = backend /\ mu' = mu /\ got' = got
  <2>1. DOMAIN draft[c] = {}
    BY <1>0, <1>1, Zenon DEF DraftInv
  <2> QED
    BY <1>0, <1>2, <2>1, DraftKept, Zenon DEF Kept
<1>4. Touch({}, {}, {}, {}, {k}, {}) /\ W(k)' = NoWorker
  BY <1>0, <1>2, SetWorker, Zenon DEF StorageTypes
<1>5. Tables'
  BY <1>0, <1>4, TablesTouched DEF StorageTypes
<1>6. StoredGrow(c) /\ Books'
  BY <1>4, SessionsKept, Zenon
<1>7. MuKept(c)
  <2>1. \A t \in Sessions : C(t)' = C(t)
    BY <1>4, Zenon DEF Touch
  <2> QED
    BY <1>3, <2>1, RecordsKept, Zenon
<1>8. LockedKept(c)
  BY <1>2, RowNames, UnlockedKept, Zenon
<1> QED
  BY <1>0, <1>2, <1>3, <1>5, <1>6, <1>7, <1>8, EndStep, Zenon

LEMMA DecrementValue ==
  ASSUME Tables, NEW p \in Payers
  PROVE  /\ Decrement(db, QuotaRow(p), 1)[QuotaRow(p)]
              = IF Q(p) >= 1 THEN Q(p) - 1 ELSE 0
         /\ (IF Q(p) >= 1 THEN Q(p) - 1 ELSE 0) \in Nat
<1>1. db = [r \in Rows |-> db[r]] /\ QuotaRow(p) \in Rows /\ Q(p) \in Nat
  BY RowNames, Zenon DEF Tables
<1> QED
  BY <1>1 DEF Decrement, Q

LEMMA DecrementStep ==
  ASSUME StorageInv, NEW c \in Clients, DecrementQuota(c),
         load'.unary = load.unary
  PROVE  Stepped(c)
<1>0. /\ StorageTypes /\ ArgsInv(c) /\ StepInv(c) /\ DraftInv(c) /\ Tables
      /\ mu \in Clients \cup {NoRow} /\ (backend = "postgres" => mu = NoRow)
  BY Zenon DEF StorageInv, CallInv, StorageTypes
<1>1. call[c].kind = "decrement" /\ call[c].step = "one" /\ call[c].p \in Payers
  BY <1>0, Zenon DEF DecrementQuota, ArgsInv, StepInv
<1> SUFFICES ASSUME NEW p \in Payers, p = call[c].p,
                    NEW x, x = Decrement(db, QuotaRow(p), 1)[QuotaRow(p)]
             PROVE  Stepped(c)
  BY <1>1, Zenon
<1>2. /\ Done(c) /\ Kept /\ UNCHANGED draft
      /\ ~Locked(QuotaRow(p), c) /\ db' = [db EXCEPT ![QuotaRow(p)] = x]
  BY Zenon DEF DecrementQuota, Execute
<1>3. /\ DraftOnly(c) /\ DOMAIN draft'[c] = {}
      /\ backend' = backend /\ mu' = mu /\ got' = got
  <2>1. DOMAIN draft[c] = {}
    BY <1>0, <1>1, Zenon DEF DraftInv
  <2> QED
    BY <1>0, <1>2, <2>1, DraftKept, Zenon DEF Kept
<1>4. Touch({}, {}, {}, {}, {}, {p}) /\ Q(p)' = x
  BY <1>0, <1>2, SetQuota, Zenon
<1>5. Tables'
  <2>1. x \in Nat
    BY <1>0, DecrementValue, Zenon
  <2> QED
    BY <1>0, <1>4, <2>1, TablesTouched
<1>6. StoredGrow(c) /\ Books'
  BY <1>4, SessionsKept, Zenon
<1>7. MuKept(c)
  <2>1. \A t \in Sessions : C(t)' = C(t)
    BY <1>4, Zenon DEF Touch
  <2> QED
    BY <1>3, <2>1, RecordsKept, Zenon
<1>8. LockedKept(c)
  BY <1>2, RowNames, UnlockedKept, Zenon
<1> QED
  BY <1>0, <1>2, <1>3, <1>5, <1>6, <1>7, <1>8, EndStep, Zenon

LEMMA MarkStep ==
  ASSUME StorageInv, NEW c \in Clients, MarkCollection(c),
         load'.unary = load.unary
  PROVE  Stepped(c)
<1>0. /\ StorageTypes /\ ArgsInv(c) /\ StepInv(c) /\ DraftInv(c) /\ Tables
      /\ mu \in Clients \cup {NoRow} /\ (backend = "postgres" => mu = NoRow)
  BY Zenon DEF StorageInv, CallInv, StorageTypes
<1>1. /\ call[c].kind = "mark" /\ call[c].step = "one" /\ call[c].s \in Sessions
      /\ mu = NoRow
  BY <1>0, Zenon DEF MarkCollection, ArgsInv, StepInv
<1> SUFFICES ASSUME NEW s \in Sessions, s = call[c].s,
                    NEW x, x = Marked(C(s), call[c].v, call[c].to)
             PROVE  Stepped(c)
  BY <1>1, Zenon
<1>2. /\ Done(c) /\ Kept /\ UNCHANGED draft
      /\ ~Locked(CollectionRow(s), c) /\ db' = [db EXCEPT ![CollectionRow(s)] = x]
  BY Zenon DEF MarkCollection, Execute, C
<1>3. /\ DraftOnly(c) /\ DOMAIN draft'[c] = {}
      /\ backend' = backend /\ mu' = mu /\ got' = got
  <2>1. DOMAIN draft[c] = {}
    BY <1>0, <1>1, Zenon DEF DraftInv
  <2> QED
    BY <1>0, <1>2, <2>1, DraftKept, Zenon DEF Kept
<1>4. Touch({}, {}, {}, {s}, {}, {}) /\ C(s)' = x
  BY <1>0, <1>2, SetCollection, Zenon
<1>5. Tables'
  <2>1. C(s) \in CollectionRecord
    BY <1>0, Zenon DEF Tables
  <2>2. x \in CollectionRecord
    BY <2>1, MarkedType, Zenon
  <2> QED
    BY <1>0, <1>4, <2>2, TablesTouched
<1>6. StoredGrow(c) /\ Books'
  BY <1>4, SessionsKept, Zenon
<1>7. MuKept(c)
  BY <1>1, NoOtherHolds, Zenon
<1>8. LockedKept(c)
  BY <1>2, RowNames, UnlockedKept, Zenon
<1> QED
  BY <1>0, <1>2, <1>3, <1>5, <1>6, <1>7, <1>8, EndStep, Zenon

\* A session created without a RAV, by either backend.
LEMMA PlainCreateStep ==
  ASSUME StorageInv, NEW c \in Clients, NEW s \in Sessions, S(s) = NoRow,
         ~Locked(SessionRow(s), c), db' = [db EXCEPT ![SessionRow(s)] = NewSessionRow],
         Done(c), Kept, UNCHANGED draft, DOMAIN draft[c] = {},
         load'.unary = load.unary
  PROVE  Stepped(c)
<1>0. /\ StorageTypes /\ Tables /\ Books
      /\ mu \in Clients \cup {NoRow} /\ (backend = "postgres" => mu = NoRow)
  BY Zenon DEF StorageInv, StorageTypes
<1>1. /\ DraftOnly(c) /\ DOMAIN draft'[c] = {}
      /\ backend' = backend /\ mu' = mu /\ got' = got
  BY <1>0, DraftKept, Zenon DEF Kept
<1>2. Touch({s}, {}, {}, {}, {}, {}) /\ S(s)' = NewSessionRow
  BY <1>0, SetSession, Zenon
<1>3. Tables'
  BY <1>0, <1>2, NewSessionRowType, TablesTouched
<1>4. RV(s)' = NoRow
  BY <1>0, <1>2, Zenon DEF Touch, Books, Covered
<1>5. Pays(Paid(s)', NewSessionRow.base)
  BY <1>4, NewSessionRowType DEF Pays, Paid
<1>6. StoredGrow(c) /\ Books'
  BY <1>2, <1>5, NewSessionRowType, SessionWritten, Zenon
<1>7. MuKept(c)
  <2>1. \A t \in Sessions : C(t)' = C(t)
    BY <1>2, Zenon DEF Touch
  <2> QED
    BY <1>1, <2>1, RecordsKept, Zenon
<1>8. LockedKept(c)
  BY RowNames, UnlockedKept, Zenon
<1> QED
  BY <1>0, <1>1, <1>3, <1>6, <1>7, <1>8, EndStep, Zenon

LEMMA PgCreateSteps ==
  ASSUME StorageInv, NEW c \in Clients, PgCreate(c),
         load'.unary = load.unary
  PROVE  Stepped(c)
<1>0. ArgsInv(c) /\ DraftInv(c)
  BY Zenon DEF StorageInv, CallInv
<1>1. /\ backend = "postgres" /\ call[c].kind = "create" /\ call[c].step = "session"
      /\ Kept
  BY Zenon DEF PgCreate
<1>2. call[c].s \in Sessions /\ DOMAIN draft[c] = {}
  BY <1>0, <1>1, Zenon DEF ArgsInv, DraftInv
<1> SUFFICES ASSUME NEW s \in Sessions, s = call[c].s
             PROVE  Stepped(c)
  BY <1>2, Zenon
<1>3. CASE S(s) # NoRow
  <2>1. Rollback(c) /\ UNCHANGED <<backend, db, mu, got>>
    BY <1>1, <1>3, Zenon DEF PgCreate, S, Kept
  <2> QED
    BY <2>1, RollbackStep, Zenon
<1>4. CASE S(s) = NoRow /\ call[c].v # NoRow
  BY <1>4, PgCreateStep, Zenon DEF S
<1>5. CASE S(s) = NoRow /\ call[c].v = NoRow
  <2>1. /\ ~Locked(SessionRow(s), c)
        /\ db' = [db EXCEPT ![SessionRow(s)] = NewSessionRow]
        /\ Done(c) /\ UNCHANGED draft
    BY <1>5, Zenon DEF PgCreate, Execute, S
  <2> QED
    BY <1>1, <1>2, <1>5, <2>1, PlainCreateStep, Zenon
<1> QED
  BY <1>3, <1>4, <1>5, Zenon

-----------------------------------------------------------------------------
(* Commits.                                                                 *)

LEMMA CommitEffect ==
  ASSUME StorageInv, NEW c \in Clients, Commit(c)
  PROVE  /\ db' = [r \in Rows |-> db'[r]]
         /\ \A r \in Rows : r \in DOMAIN draft[c] => db'[r] = draft[c][r]
         /\ \A r \in Rows : r \notin DOMAIN draft[c] => db'[r] = db[r]
         /\ DraftOnly(c) /\ DOMAIN draft'[c] = {} /\ Done(c) /\ LockedKept(c)
         /\ backend = "postgres" /\ backend' = backend
         /\ mu' = mu /\ mu = NoRow /\ got' = got /\ mu' \in Clients \cup {NoRow}
<1>0. /\ StorageTypes /\ StepInv(c) /\ Tables /\ Locks
      /\ mu \in Clients \cup {NoRow} /\ (backend = "postgres" => mu = NoRow)
      /\ backend \in {"memory", "postgres"}
      /\ \A d \in Clients : DOMAIN draft[d] \subseteq Rows
  BY Zenon DEF StorageInv, CallInv, StorageTypes
<1>1. /\ call[c].step = "commit" /\ CommitRows(c) /\ Done(c)
      /\ backend' = backend /\ mu' = mu /\ got' = got
  BY Zenon DEF Commit
<1>2. backend = "postgres" /\ mu = NoRow
  BY <1>0, <1>1, Zenon DEF StepInv
<1>3. /\ db' = [r \in Rows |-> IF r \in DOMAIN draft[c] THEN draft[c][r] ELSE db[r]]
      /\ draft' = [draft EXCEPT ![c] = Nothing]
  <2>1. db = [r \in Rows |-> db[r]]
    BY <1>0, Zenon DEF Tables
  <2>2. DOMAIN db = Rows
    BY <2>1, Zenon
  <2> QED
    BY <1>1, <2>2, Zenon DEF CommitRows
<1>4. /\ db' = [r \in Rows |-> db'[r]]
      /\ \A r \in Rows : r \in DOMAIN draft[c] => db'[r] = draft[c][r]
      /\ \A r \in Rows : r \notin DOMAIN draft[c] => db'[r] = db[r]
  BY <1>3, Zenon
<1>5. DraftOnly(c) /\ DOMAIN draft'[c] = {}
  <2>1. draft = [d \in Clients |-> draft[d]]
    BY <1>0, Zenon DEF StorageTypes
  <2> QED
    BY <1>3, <2>1, EmptyDraft, Zenon DEF DraftOnly
<1>6. LockedKept(c)
  BY <1>0, <1>4, Zenon DEF LockedKept, Locks
<1> QED
  BY <1>0, <1>1, <1>2, <1>4, <1>5, <1>6, Zenon

LEMMA TouchedRows ==
  ASSUME NEW D, db' = [r \in Rows |-> db'[r]],
         \A r \in Rows : r \notin D => db'[r] = db[r],
         NEW ss, NEW rs, NEW us, NEW cs, NEW ks, NEW ps,
         \A s \in Sessions : SessionRow(s) \in D => s \in ss,
         \A s \in Sessions : RAVRow(s) \in D => s \in rs,
         \A s \in Sessions : UsageRows(s) \in D => s \in us,
         \A s \in Sessions : CollectionRow(s) \in D => s \in cs,
         \A k \in Keys : WorkerRow(k) \in D => k \in ks,
         \A p \in Payers : QuotaRow(p) \in D => p \in ps
  PROVE  Touch(ss, rs, us, cs, ks, ps)
<1>1. \A s \in Sessions \ ss : S(s)' = S(s)
  BY RowNames, Zenon DEF S
<1>2. \A s \in Sessions \ rs : RV(s)' = RV(s)
  BY RowNames, Zenon DEF RV
<1>3. \A s \in Sessions \ us : U(s)' = U(s)
  BY RowNames, Zenon DEF U
<1>4. \A s \in Sessions \ cs : C(s)' = C(s)
  BY RowNames, Zenon DEF C
<1>5. \A k \in Keys \ ks : W(k)' = W(k)
  BY RowNames, Zenon DEF W
<1>6. \A p \in Payers \ ps : Q(p)' = Q(p)
  BY RowNames, Zenon DEF Q
<1> QED
  BY <1>1, <1>2, <1>3, <1>4, <1>5, <1>6, Zenon DEF Touch

LEMMA UsageCommitted ==
  ASSUME StorageInv, NEW c \in Clients, Commit(c), call[c].kind = "usage",
         NEW s \in Sessions, s = call[c].s, NEW cost \in Costs, cost = call[c].cost
  PROVE  /\ Touch({s}, {}, {s}, {}, {}, {}) /\ S(s) \in SessionRows
         /\ S(s)' = AddUsage(S(s), cost) /\ U(s)' = U(s) + cost
<1>0. DraftInv(c) /\ backend = "postgres" /\ call[c].step = "commit" /\ Tables
  BY CommitEffect, Zenon DEF StorageInv, StorageTypes, CallInv, Commit
<1>1. /\ DOMAIN draft[c] = {SessionRow(s), UsageRows(s)}
      /\ draft[c][UsageRows(s)] = U(s) + cost
      /\ S(s) # NoRow /\ draft[c][SessionRow(s)] = AddUsage(S(s), cost)
  BY <1>0, Zenon DEF DraftInv, UsageTx, SessionDraft
<1>2. /\ db' = [r \in Rows |-> db'[r]]
      /\ \A r \in Rows : r \in DOMAIN draft[c] => db'[r] = draft[c][r]
      /\ \A r \in Rows : r \notin DOMAIN draft[c] => db'[r] = db[r]
  BY CommitEffect, Zenon
<1>3. S(s) \in SessionRows
  BY <1>0, <1>1, Zenon DEF Tables
<1>4. S(s)' = AddUsage(S(s), cost) /\ U(s)' = U(s) + cost
  BY <1>1, <1>2, RowNames, Zenon DEF S, U
<1>5. Touch({s}, {}, {s}, {}, {}, {})
  <2>1. \A t \in Sessions : SessionRow(t) \in DOMAIN draft[c] => t \in {s}
    BY <1>1, RowsDiffer, Zenon
  <2>2. \A t \in Sessions : RAVRow(t) \in DOMAIN draft[c] => t \in {}
    BY <1>1, RowsDiffer, Zenon
  <2>3. \A t \in Sessions : UsageRows(t) \in DOMAIN draft[c] => t \in {s}
    BY <1>1, RowsDiffer, Zenon
  <2>4. \A t \in Sessions : CollectionRow(t) \in DOMAIN draft[c] => t \in {}
    BY <1>1, RowsDiffer, Zenon
  <2>5. \A t \in Keys : WorkerRow(t) \in DOMAIN draft[c] => t \in {}
    BY <1>1, RowsDiffer, Zenon
  <2>6. \A t \in Payers : QuotaRow(t) \in DOMAIN draft[c] => t \in {}
    BY <1>1, RowsDiffer, Zenon
  <2> QED
    BY <1>2, <2>1, <2>2, <2>3, <2>4, <2>5, <2>6, TouchedRows, Zenon
<1> QED
  BY <1>3, <1>4, <1>5, Zenon

LEMMA RAVCommitted ==
  ASSUME StorageInv, NEW c \in Clients, Commit(c),
         call[c].kind \in {"create", "rav"},
         NEW s \in Sessions, s = call[c].s, NEW v \in Values, v = call[c].v
  PROVE  /\ Touch({s}, {s}, {}, {s}, {}, {})
         /\ RV(s)' = v /\ C(s)' = NextCollectible(C(s), v)
         /\ ~CollectionConflict(C(s), v)
         /\ call[c].kind = "create" => S(s) = NoRow /\ S(s)' = NewSessionRow
         /\ call[c].kind = "rav" => /\ S(s) \in SessionRows
                                    /\ S(s)' = [S(s) EXCEPT !.base = call[c].base]
<1>0. DraftInv(c) /\ backend = "postgres" /\ call[c].step = "commit" /\ Tables
  BY CommitEffect, Zenon DEF StorageInv, StorageTypes, CallInv, Commit
<1>1. /\ DOMAIN draft[c] = {SessionRow(s), RAVRow(s), CollectionRow(s)}
      /\ draft[c][RAVRow(s)] = v
      /\ draft[c][CollectionRow(s)] = NextCollectible(C(s), v)
      /\ ~CollectionConflict(C(s), v)
      /\ SessionDraft(c)
  BY <1>0, Zenon DEF DraftInv, RAVTx, RAVDraft, CollectionDraft
<1>2. /\ db' = [r \in Rows |-> db'[r]]
      /\ \A r \in Rows : r \in DOMAIN draft[c] => db'[r] = draft[c][r]
      /\ \A r \in Rows : r \notin DOMAIN draft[c] => db'[r] = db[r]
  BY CommitEffect, Zenon
<1>3. /\ S(s)' = draft[c][SessionRow(s)] /\ RV(s)' = v
      /\ C(s)' = NextCollectible(C(s), v)
  BY <1>1, <1>2, RowNames, Zenon DEF S, RV, C
<1>4. /\ call[c].kind = "create" => S(s) = NoRow /\ S(s)' = NewSessionRow
      /\ call[c].kind = "rav" => /\ S(s) # NoRow
                                 /\ S(s)' = [S(s) EXCEPT !.base = call[c].base]
  BY <1>1, <1>3, Zenon DEF SessionDraft
<1>5. S(s) # NoRow => S(s) \in SessionRows
  BY <1>0, Zenon DEF Tables
<1>6. Touch({s}, {s}, {}, {s}, {}, {})
  <2>1. \A t \in Sessions : SessionRow(t) \in DOMAIN draft[c] => t \in {s}
    BY <1>1, RowsDiffer, Zenon
  <2>2. \A t \in Sessions : RAVRow(t) \in DOMAIN draft[c] => t \in {s}
    BY <1>1, RowsDiffer, Zenon
  <2>3. \A t \in Sessions : UsageRows(t) \in DOMAIN draft[c] => t \in {}
    BY <1>1, RowsDiffer, Zenon
  <2>4. \A t \in Sessions : CollectionRow(t) \in DOMAIN draft[c] => t \in {s}
    BY <1>1, RowsDiffer, Zenon
  <2>5. \A t \in Keys : WorkerRow(t) \in DOMAIN draft[c] => t \in {}
    BY <1>1, RowsDiffer, Zenon
  <2>6. \A t \in Payers : QuotaRow(t) \in DOMAIN draft[c] => t \in {}
    BY <1>1, RowsDiffer, Zenon
  <2> QED
    BY <1>2, <2>1, <2>2, <2>3, <2>4, <2>5, <2>6, TouchedRows, Zenon
<1> QED
  BY <1>1, <1>3, <1>4, <1>5, <1>6, Zenon

LEMMA ReserveCommitted ==
  ASSUME StorageInv, NEW c \in Clients, Commit(c), call[c].kind = "reserve",
         NEW k \in Keys, k = call[c].k, NEW p \in Payers, p = call[c].p,
         NEW s \in Sessions, s = call[c].s
  PROVE  /\ Touch({}, {}, {}, {}, {k}, {p})
         /\ W(k) = NoWorker /\ W(k)' = Worker(s, p)
         /\ Q(p)' = Q(p) + 1 /\ ~(Q(p) + 1 > MaxWorkers)
<1>0. DraftInv(c) /\ backend = "postgres" /\ call[c].step = "commit"
  BY CommitEffect, Zenon DEF StorageInv, CallInv, Commit
<1>1. /\ DOMAIN draft[c] = {QuotaRow(p), WorkerRow(k)}
      /\ draft[c][QuotaRow(p)] = Q(p) + 1
      /\ W(k) = NoWorker /\ draft[c][WorkerRow(k)] = Worker(s, p)
      /\ ~(Q(p) + 1 > MaxWorkers)
  BY <1>0, Zenon DEF DraftInv, ReserveTx, WorkerDraft, Exceeds, Q
<1>2. /\ db' = [r \in Rows |-> db'[r]]
      /\ \A r \in Rows : r \in DOMAIN draft[c] => db'[r] = draft[c][r]
      /\ \A r \in Rows : r \notin DOMAIN draft[c] => db'[r] = db[r]
  BY CommitEffect, Zenon
<1>3. W(k)' = Worker(s, p) /\ Q(p)' = Q(p) + 1
  BY <1>1, <1>2, RowNames, Zenon DEF W, Q
<1>4. Touch({}, {}, {}, {}, {k}, {p})
  <2>1. \A t \in Sessions : SessionRow(t) \in DOMAIN draft[c] => t \in {}
    BY <1>1, RowsDiffer, Zenon
  <2>2. \A t \in Sessions : RAVRow(t) \in DOMAIN draft[c] => t \in {}
    BY <1>1, RowsDiffer, Zenon
  <2>3. \A t \in Sessions : UsageRows(t) \in DOMAIN draft[c] => t \in {}
    BY <1>1, RowsDiffer, Zenon
  <2>4. \A t \in Sessions : CollectionRow(t) \in DOMAIN draft[c] => t \in {}
    BY <1>1, RowsDiffer, Zenon
  <2>5. \A t \in Keys : WorkerRow(t) \in DOMAIN draft[c] => t \in {k}
    BY <1>1, RowsDiffer, Zenon
  <2>6. \A t \in Payers : QuotaRow(t) \in DOMAIN draft[c] => t \in {p}
    BY <1>1, RowsDiffer, Zenon
  <2> QED
    BY <1>2, <2>1, <2>2, <2>3, <2>4, <2>5, <2>6, TouchedRows, Zenon
<1> QED
  BY <1>1, <1>3, <1>4, Zenon

LEMMA CommitStep ==
  ASSUME StorageInv, NEW c \in Clients, Commit(c),
         load'.unary = load.unary
  PROVE  Stepped(c)
<1>0. /\ ArgsInv(c) /\ StepInv(c) /\ RAVInv(c) /\ Tables /\ Books
      /\ call[c] \in Calls /\ call[c].step = "commit"
  BY Zenon DEF StorageInv, StorageTypes, CallInv, Commit
<1>1. /\ DraftOnly(c) /\ DOMAIN draft'[c] = {} /\ Done(c) /\ LockedKept(c)
      /\ backend = "postgres" /\ backend' = backend
      /\ mu' = mu /\ mu = NoRow /\ got' = got /\ mu' \in Clients \cup {NoRow}
  BY CommitEffect, Zenon
<1>2. MuKept(c)
  BY <1>1, NoOtherHolds, Zenon
<1>3. SUFFICES Tables' /\ StoredGrow(c) /\ Books'
  BY <1>1, <1>2, EndStep, Zenon
<1>4. CASE call[c].kind = "usage"
  <2>1. call[c].s \in Sessions /\ call[c].cost \in Costs
    BY <1>0, <1>4, Zenon DEF ArgsInv
  <2> SUFFICES ASSUME NEW s \in Sessions, s = call[c].s,
                      NEW cost \in Costs, cost = call[c].cost
               PROVE  Tables' /\ StoredGrow(c) /\ Books'
    BY <2>1, Zenon
  <2>2. /\ Touch({s}, {}, {s}, {}, {}, {}) /\ S(s) \in SessionRows
        /\ S(s)' = AddUsage(S(s), cost) /\ U(s)' = U(s) + cost
    BY <1>4, UsageCommitted, Zenon
  <2>3. cost \in Nat /\ U(s) \in Nat
    BY <1>0, NoRowIsNone, Zenon DEF Tables
  <2>4. /\ S(s)' \in SessionRows /\ S(s)'.total = S(s).total + cost
        /\ S(s)'.base = S(s).base
    <3>1. /\ AddUsage(S(s), cost) \in SessionRows
          /\ AddUsage(S(s), cost).total = S(s).total + cost
          /\ AddUsage(S(s), cost).base = S(s).base
      BY <2>2, <2>3, AddUsageType, Zenon
    <3> QED
      BY <2>2, <3>1, Zenon
  <2>5. Tables'
    BY <1>0, <2>2, <2>3, <2>4, TablesTouched, SMTT(20)
  <2>6. RV(s)' = RV(s) /\ S(s)'.total >= S(s).total
    BY <2>2, <2>3, <2>4 DEF Touch, SessionRows
  <2>7. Pays(Paid(s)', S(s)'.base)
    <3>1. Paid(s)' = Paid(s)
      BY <2>6, Zenon DEF Paid
    <3>2. Pays(Paid(s), S(s).base)
      BY <1>0, <2>2, NoRowIsNone, Zenon DEF Books, Covered
    <3> QED
      BY <2>4, <3>1, <3>2, Zenon
  <2>8. StoredGrow(c) /\ Books'
    BY <2>2, <2>4, <2>6, <2>7, SessionWritten, Zenon
  <2> QED
    BY <2>5, <2>8, Zenon
<1>5. CASE call[c].kind \in {"create", "rav"}
  <2>1. call[c].s \in Sessions /\ call[c].v \in Values /\ call[c].base \in Nat
    BY <1>0, <1>5, Zenon DEF ArgsInv, StepInv, Calls
  <2> SUFFICES ASSUME NEW s \in Sessions, s = call[c].s,
                      NEW v \in Values, v = call[c].v
               PROVE  Tables' /\ StoredGrow(c) /\ Books'
    BY <2>1, Zenon
  <2>2. /\ Touch({s}, {s}, {}, {s}, {}, {})
        /\ RV(s)' = v /\ C(s)' = NextCollectible(C(s), v)
        /\ call[c].kind = "create" => S(s) = NoRow /\ S(s)' = NewSessionRow
        /\ call[c].kind = "rav" => /\ S(s) \in SessionRows
                                   /\ S(s)' = [S(s) EXCEPT !.base = call[c].base]
    BY <1>5, RAVCommitted, Zenon
  <2>3. v \in Nat /\ v # NoRow /\ C(s) \in CollectionRecord
    BY <1>0, NoRowIsNone, Zenon DEF Tables
  <2>4. C(s)' \in CollectionRecord /\ Paid(s)' = v
    BY <2>2, <2>3, NextCollectibleType, Zenon DEF Paid
  <2>5. /\ S(s)' \in SessionRows /\ Pays(v, S(s)'.base)
        /\ S(s) # NoRow => /\ S(s)'.total >= S(s).total
                           /\ call[c].kind = "rav" /\ Pays(v, Paid(s))
    <3>1. CASE call[c].kind = "create"
      BY <2>2, <2>3, <3>1, NewSessionRowType DEF Pays
    <3>2. CASE call[c].kind = "rav"
      <4>1. Pays(v, call[c].base) /\ Pays(v, Paid(s))
        BY <1>0, <3>2, Zenon DEF RAVInv
      <4>2. /\ S(s)' \in SessionRows /\ S(s)'.base = call[c].base
            /\ S(s)'.total = S(s).total /\ S(s).total \in Nat
        BY <2>1, <2>2, <3>2, SetBaseType, Zenon DEF SessionRows
      <4> QED
        BY <2>3, <3>2, <4>1, <4>2
    <3> QED
      BY <1>5, <3>1, <3>2, Zenon
  <2>6. Tables'
    BY <1>0, <2>2, <2>4, <2>5, TablesTouched
  <2>7. StoredGrow(c) /\ Books'
    BY <2>2, <2>4, <2>5, SessionWritten, Zenon
  <2> QED
    BY <2>6, <2>7, Zenon
<1>6. CASE call[c].kind = "reserve"
  <2>1. call[c].s \in Sessions /\ call[c].k \in Keys /\ call[c].p \in Payers
    BY <1>0, <1>6, Zenon DEF ArgsInv
  <2> SUFFICES ASSUME NEW s \in Sessions, s = call[c].s, NEW k \in Keys, k = call[c].k,
                      NEW p \in Payers, p = call[c].p
               PROVE  Tables' /\ StoredGrow(c) /\ Books'
    BY <2>1, Zenon
  <2>2. /\ Touch({}, {}, {}, {}, {k}, {p})
        /\ W(k)' = Worker(s, p) /\ Q(p)' = Q(p) + 1
    BY <1>6, ReserveCommitted, Zenon
  <2>3. Q(p) \in Nat /\ Worker(s, p) \in WorkerRows
    BY <1>0, Zenon DEF Tables, Worker, WorkerRows
  <2>4. Tables'
    BY <1>0, <2>2, <2>3, TablesTouched
  <2> QED
    BY <2>2, <2>4, SessionsKept, Zenon
<1> QED
  BY <1>0, <1>4, <1>5, <1>6, Zenon DEF StepInv

-----------------------------------------------------------------------------
(* The in-memory backend.                                                   *)

LEMMA CallLocked ==
  ASSUME NEW k \in Calls, NEW rec \in CollectionRecord
  PROVE  [k EXCEPT !.step = "swap", !.next = rec] \in Calls
BY ZenonT(30) DEF Calls, Steps

LEMMA MemLockStep ==
  ASSUME StorageInv, NEW c \in Clients, MemLock(c),
         load'.unary = load.unary
  PROVE  Stepped(c)
<1>0. /\ StorageTypes /\ ArgsInv(c) /\ StepInv(c) /\ DraftInv(c) /\ RAVInv(c)
      /\ Tables /\ OneRAV /\ call \in [Clients -> Calls] /\ call[c] \in Calls
  BY Zenon DEF StorageInv, CallInv, StorageTypes
<1>1. /\ backend = "memory" /\ call[c].kind \in {"create", "rav"}
      /\ call[c].step = "session" /\ call[c].v # NoRow /\ mu = NoRow
      /\ UNCHANGED <<backend, db, draft, got>>
  BY Zenon DEF MemLock
<1>2. call[c].s \in Sessions /\ call[c].v \in Values
  BY <1>0, <1>1, Zenon DEF ArgsInv, Calls
<1>3. DraftOnly(c) /\ DOMAIN draft'[c] = {} /\ GotOnly(c) /\ GotInv(c)'
  BY <1>0, <1>1, MemoryKept, DraftKept, GotKept, Zenon
<1> SUFFICES ASSUME NEW s \in Sessions, s = call[c].s,
                    NEW v \in Values, v = call[c].v
             PROVE  Stepped(c)
  BY <1>2, Zenon
<1>4. CASE CollectionConflict(C(s), v)
  <2>1. Done(c) /\ mu' = mu
    BY <1>4, Zenon DEF MemLock, C
  <2> QED
    BY <1>1, <1>3, <2>1, QuietEnd, Zenon
<1>5. CASE ~CollectionConflict(C(s), v)
  <2> SUFFICES ASSUME NEW rec, rec = NextCollectible(C(s), v)
               PROVE  Stepped(c)
    OBVIOUS
  <2>1. /\ mu' = c
        /\ call' = [call EXCEPT ![c] = [call[c] EXCEPT !.step = "swap", !.next = rec]]
    BY <1>5, Zenon DEF MemLock, C
  <2>2. rec \in CollectionRecord
    BY <1>0, NextCollectibleType, NoRowIsNone, Zenon DEF Tables
  <2>3. /\ [call[c] EXCEPT !.step = "swap", !.next = rec] \in Calls
        /\ call'[c] = [call[c] EXCEPT !.step = "swap", !.next = rec]
    BY <1>0, <2>1, <2>2, CallLocked, Zenon
  <2>4. CallOnly(c)
    BY <1>0, <2>1, <2>3, Zenon DEF CallOnly
  <2>5. /\ call'[c].step = "swap" /\ call'[c].next = rec /\ call'[c].s = s
        /\ call'[c].v = v /\ call'[c].base = call[c].base
        /\ call'[c].kind = call[c].kind
    <3> SUFFICES ASSUME NEW k \in Calls, k = call[c]
                 PROVE  /\ call'[c].step = "swap" /\ call'[c].next = rec
                        /\ call'[c].s = s /\ call'[c].v = v
                        /\ call'[c].base = k.base /\ call'[c].kind = k.kind
      BY <1>0, Zenon
    <3>1. call'[c] = [k EXCEPT !.step = "swap", !.next = rec]
      BY <2>3, Zenon
    <3> DEFINE next == [k EXCEPT !.step = "swap", !.next = rec]
    <3>2. /\ next.step = "swap" /\ next.next = rec /\ next.s = k.s
          /\ next.v = k.v /\ next.base = k.base /\ next.kind = k.kind
      BY Zenon DEF Calls
    <3> QED
      BY <3>1, <3>2, Zenon
  <2>6. Frame(c) /\ Books'
    <3>1. mu' \in Clients \cup {NoRow} /\ mu \in {NoRow, c}
      BY <1>1, <2>1, Zenon
    <3> QED
      BY <1>1, <1>3, <2>4, <3>1, QuietFrame, Zenon
  <2>7. ArgsInv(c)' /\ StepInv(c)'
    BY <1>1, <2>5, Zenon DEF ArgsInv, StepInv
  <2>8. RAVInv(c)'
    BY <1>0, <1>1, <2>5, Zenon DEF RAVInv, Pays, S, RV, Paid
  <2>9. MuInv(c)' /\ GetInv(c)'
    BY <1>1, <1>5, <2>1, <2>5, Zenon DEF MuInv, GetInv, C
  <2>10. DraftInv(c)'
    BY <1>1, <1>3, <2>5, Zenon DEF DraftInv
  <2>11. CallInv(c)'
    BY <1>3, <2>7, <2>8, <2>9, <2>10, Zenon DEF CallInv
  <2>12. load.unary \/ (call'[c].kind = "rav" =>
           \A d \in Clients \ {c} : call[d].kind = "rav" => call[d].s # call'[c].s)
    BY <1>0, <2>5, Zenon DEF OneRAV
  <2> QED
    BY <1>1, <1>3, <2>6, <2>11, <2>12, Zenon DEF Stepped
<1> QED
  BY <1>4, <1>5, Zenon

\* A swap that is not the last write of its call.
LEMMA MemStep ==
  ASSUME StorageInv, NEW c \in Clients, backend = "memory", backend' = backend,
         got' = got, draft' = draft, mu' = mu, NEW label \in {"set", "usage"},
         Step(c, label), Tables', Books', StoredGrow(c), MuKept(c),
         StepInv(c)', RAVInv(c)', MuInv(c)',
         load'.unary = load.unary
  PROVE  Stepped(c)
<1>0. StorageTypes /\ ArgsInv(c) /\ OneRAV
  BY Zenon DEF StorageInv, CallInv
<1>1. CallOnly(c) /\ SameArgs(c) /\ call'[c].step = label
  <2>1. label \in Steps
    BY Zenon DEF Steps
  <2> QED
    BY <1>0, <2>1, StepEffect, Zenon
<1>2. /\ DraftOnly(c) /\ DOMAIN draft'[c] = {} /\ GotOnly(c) /\ GotInv(c)'
      /\ LockedKept(c)
  BY <1>0, MemoryKept, DraftKept, GotKept, Zenon
<1>3. StorageTypes'
  BY <1>0, <1>1, <1>2, Zenon DEF StorageTypes, CallOnly, GotOnly
<1>4. ArgsInv(c)' /\ GetInv(c)'
  BY <1>0, <1>1, Zenon DEF ArgsInv, GetInv, SameArgs
<1>5. DraftInv(c)'
  BY <1>1, <1>2, Zenon DEF DraftInv
<1>6. CallInv(c)'
  BY <1>2, <1>4, <1>5, Zenon DEF CallInv
<1>7. Frame(c)
  BY <1>1, <1>2, <1>3, Zenon DEF Frame
<1>8. load.unary \/ (call'[c].kind = "rav" =>
        \A d \in Clients \ {c} : call[d].kind = "rav" => call[d].s # call'[c].s)
  BY <1>0, <1>1, Zenon DEF OneRAV, SameArgs
<1> QED
  BY <1>2, <1>6, <1>7, <1>8, Zenon DEF Stepped

LEMMA SetSessionAndRAV ==
  ASSUME Tables, NEW s \in Sessions, NEW x, NEW v,
         db' = [db EXCEPT ![SessionRow(s)] = x, ![RAVRow(s)] = v]
  PROVE  Touch({s}, {s}, {}, {}, {}, {}) /\ S(s)' = x /\ RV(s)' = v
<1>1. db = [r \in Rows |-> db[r]] /\ SessionRow(s) \in Rows /\ RAVRow(s) \in Rows
  BY RowNames, Zenon DEF Tables
<1>2. SessionRow(s) # RAVRow(s)
  BY RowsDiffer, Zenon
<1>3. /\ db' = [r \in Rows |-> db'[r]]
      /\ db'[SessionRow(s)] = x /\ db'[RAVRow(s)] = v
      /\ \A r \in Rows : r \notin {SessionRow(s), RAVRow(s)} => db'[r] = db[r]
  BY <1>1, <1>2, Zenon
<1>4. /\ \A t \in Sessions : SessionRow(t) \in {SessionRow(s), RAVRow(s)} => t \in {s}
      /\ \A t \in Sessions : RAVRow(t) \in {SessionRow(s), RAVRow(s)} => t \in {s}
      /\ \A t \in Sessions : UsageRows(t) \in {SessionRow(s), RAVRow(s)} => t \in {}
      /\ \A t \in Sessions : CollectionRow(t) \in {SessionRow(s), RAVRow(s)} => t \in {}
      /\ \A t \in Keys : WorkerRow(t) \in {SessionRow(s), RAVRow(s)} => t \in {}
      /\ \A t \in Payers : QuotaRow(t) \in {SessionRow(s), RAVRow(s)} => t \in {}
  BY RowsDiffer, Zenon
<1>5. Touch({s}, {s}, {}, {}, {}, {})
  BY <1>3, <1>4, TouchedRows, Zenon
<1> QED
  BY <1>3, <1>5, Zenon DEF S, RV

\* The swap of a session entry that is not refused.
MemSwapped(c, s, v) ==
  /\ Touch({s}, {s}, {}, {}, {}, {}) /\ RV(s)' = v
  /\ call[c].kind = "create" => S(s) = NoRow /\ S(s)' = NewSessionRow
  /\ call[c].kind = "rav" => /\ S(s) \in SessionRows
                             /\ S(s)' = [S(s) EXCEPT !.base = call[c].base]
  /\ Step(c, "set") /\ mu' = mu

LEMMA MemSwapEffect ==
  ASSUME StorageInv, NEW c \in Clients, MemSwap(c),
         NEW s \in Sessions, s = call[c].s, NEW v \in Values, v = call[c].v
  PROVE  \/ MemSwapped(c, s, v)
         \/ db' = db /\ mu' = NoRow /\ Done(c)
<1>0. StepInv(c) /\ Tables /\ call[c].step = "swap"
  BY Zenon DEF StorageInv, StorageTypes, CallInv, MemSwap
<1>1. call[c].kind \in {"create", "rav"}
  BY <1>0, Zenon DEF StepInv
<1> DEFINE refused == (call[c].kind = "create") # (S(s) = NoRow)
           row == IF call[c].kind = "create" THEN NewSessionRow
                  ELSE [S(s) EXCEPT !.base = call[c].base]
<1>2. CASE refused
  BY <1>2, Zenon DEF MemSwap, S
<1>3. CASE ~refused
  <2> SUFFICES ASSUME NEW x, x = row
               PROVE  MemSwapped(c, s, v)
    BY Zenon
  <2>1. /\ db' = [db EXCEPT ![SessionRow(s)] = x, ![RAVRow(s)] = v]
        /\ Step(c, "set") /\ mu' = mu
    BY <1>3, Zenon DEF MemSwap, S
  <2>2. Touch({s}, {s}, {}, {}, {}, {}) /\ S(s)' = x /\ RV(s)' = v
    BY <1>0, <2>1, SetSessionAndRAV, Zenon
  <2>3. S(s) # NoRow => S(s) \in SessionRows
    BY <1>0, Zenon DEF Tables
  <2> QED
    BY <1>1, <1>3, <2>1, <2>2, <2>3, Zenon DEF MemSwapped
<1> QED
  BY <1>2, <1>3, Zenon

LEMMA MemSwapStep ==
  ASSUME StorageInv, NEW c \in Clients, MemSwap(c),
         load'.unary = load.unary
  PROVE  Stepped(c)
<1>0. /\ ArgsInv(c) /\ StepInv(c) /\ RAVInv(c) /\ MuInv(c) /\ Tables /\ StorageTypes
      /\ call[c] \in Calls
  BY Zenon DEF StorageInv, CallInv, StorageTypes
<1>1. /\ backend = "memory" /\ call[c].step = "swap"
      /\ UNCHANGED <<backend, draft, got>>
  BY Zenon DEF MemSwap
<1>2. /\ call[c].kind \in {"create", "rav"} /\ call[c].v \in Values
      /\ call[c].s \in Sessions /\ mu = c /\ call[c].base \in Nat
  BY <1>0, <1>1, Zenon DEF ArgsInv, StepInv, MuInv, Calls
<1>3. DraftOnly(c) /\ DOMAIN draft'[c] = {} /\ GotOnly(c) /\ GotInv(c)'
  BY <1>0, <1>1, MemoryKept, DraftKept, GotKept, Zenon
<1> SUFFICES ASSUME NEW s \in Sessions, s = call[c].s,
                    NEW v \in Values, v = call[c].v
             PROVE  Stepped(c)
  BY <1>2, Zenon
<1>4. CASE db' = db /\ mu' = NoRow /\ Done(c)
  BY <1>1, <1>2, <1>3, <1>4, QuietEnd, Zenon
<1>5. CASE MemSwapped(c, s, v)
  <2>1. v \in Nat /\ Paid(s)' = v
    BY <1>5, NoRowIsNone, Zenon DEF MemSwapped, Paid
  <2>2. call[c].kind = "rav" => Pays(v, call[c].base) /\ Pays(v, Paid(s))
    BY <1>0, <1>1, Zenon DEF RAVInv
  <2>3. /\ S(s)' \in SessionRows /\ Pays(v, S(s)'.base)
        /\ S(s) # NoRow => /\ S(s)'.total >= S(s).total
                           /\ call[c].kind = "rav" /\ Pays(v, Paid(s))
    <3>1. CASE call[c].kind = "create"
      BY <1>5, <2>1, <3>1, NewSessionRowType, SMTT(20) DEF MemSwapped, Pays
    <3>2. CASE call[c].kind = "rav"
      <4>1. /\ S(s)' \in SessionRows /\ S(s)'.base = call[c].base
            /\ S(s)'.total = S(s).total /\ S(s).total \in Nat
        BY <1>2, <1>5, <3>2, SetBaseType, Zenon DEF SessionRows, MemSwapped
      <4> QED
        BY <1>2, <2>1, <2>2, <3>2, <4>1
    <3> QED
      BY <1>2, <3>1, <3>2, Zenon
  <2>4. Tables'
    BY <1>0, <1>5, <2>3, TablesTouched DEF MemSwapped
  <2>5. StoredGrow(c) /\ Books'
    BY <1>5, <2>1, <2>3, SessionWritten, Zenon DEF MemSwapped
  <2>6. MuKept(c)
    BY <1>2, NoOtherHolds, Zenon
  <2>7. CallOnly(c) /\ SameArgs(c) /\ call'[c].step = "set"
    BY <1>0, <1>5, StepEffect, Zenon DEF Steps, MemSwapped
  <2>8. StepInv(c)' /\ MuInv(c)'
    BY <1>1, <1>2, <1>5, <2>7, Zenon DEF StepInv, MuInv, SameArgs, MemSwapped
  <2>9. RAVInv(c)'
    <3>1. CASE call[c].kind # "rav"
      BY <2>7, <3>1, Zenon DEF RAVInv, SameArgs
    <3>2. CASE call[c].kind = "rav"
      <4>1. S(s)'.total = S(s).total
        <5>1. S(s) \in SessionRows /\ S(s)' = [S(s) EXCEPT !.base = call[c].base]
          BY <1>5, <3>2, Zenon DEF MemSwapped
        <5>2. [S(s) EXCEPT !.base = call[c].base].total = S(s).total
          BY <1>2, <5>1, SetBaseType, Zenon
        <5> QED
          BY <5>1, <5>2, Zenon
      <4>2. /\ S(s)' # NoRow /\ call[c].base <= S(s)'.total
            /\ Pays(v, call[c].base)
        BY <1>0, <2>2, <2>3, <3>2, <4>1, NoRowIsNone, Zenon DEF RAVInv
      <4> QED
        BY <2>7, <4>2, Zenon DEF RAVInv, Pays, SameArgs, S
    <3> QED
      BY <3>1, <3>2, Zenon
  <2> QED
    BY <1>1, <1>5, <2>4, <2>5, <2>6, <2>8, <2>9, MemStep, Zenon DEF MemSwapped
<1> QED
  BY <1>4, <1>5, MemSwapEffect, Zenon

LEMMA MemSetRecordStep ==
  ASSUME StorageInv, NEW c \in Clients, MemSetRecord(c),
         load'.unary = load.unary
  PROVE  Stepped(c)
<1>0. /\ StorageTypes /\ ArgsInv(c) /\ StepInv(c) /\ MuInv(c) /\ Tables
      /\ backend \in {"memory", "postgres"} /\ call[c] \in Calls
  BY Zenon DEF StorageInv, CallInv, StorageTypes
<1>1. /\ call[c].step = "set" /\ Done(c) /\ mu' = NoRow
      /\ UNCHANGED <<backend, draft, got>>
  BY Zenon DEF MemSetRecord
<1>2. /\ call[c].kind \in {"create", "rav"} /\ call[c].s \in Sessions
      /\ backend = "memory" /\ mu = c /\ call[c].next \in CollectionRecord
  BY <1>0, <1>1, Zenon DEF ArgsInv, StepInv, MuInv, Calls
<1> SUFFICES ASSUME NEW s \in Sessions, s = call[c].s,
                    NEW x \in CollectionRecord, x = call[c].next
             PROVE  Stepped(c)
  BY <1>2, Zenon
<1>3. db' = [db EXCEPT ![CollectionRow(s)] = x]
  BY Zenon DEF MemSetRecord
<1>4. Touch({}, {}, {}, {s}, {}, {}) /\ C(s)' = x
  BY <1>0, <1>3, SetCollection, Zenon
<1>5. Tables'
  BY <1>0, <1>4, TablesTouched
<1>6. StoredGrow(c) /\ Books'
  BY <1>4, SessionsKept, Zenon
<1>7. MuKept(c)
  BY <1>2, NoOtherHolds, Zenon
<1>8. DraftOnly(c) /\ DOMAIN draft'[c] = {} /\ LockedKept(c)
  BY <1>0, <1>1, <1>2, MemoryKept, DraftKept, Zenon
<1> QED
  BY <1>1, <1>2, <1>5, <1>6, <1>7, <1>8, EndStep, Zenon

LEMMA MemCreateEffect ==
  ASSUME StorageInv, NEW c \in Clients, MemCreate(c),
         NEW s \in Sessions, s = call[c].s
  PROVE  /\ Done(c) /\ Kept /\ UNCHANGED draft
         /\ \/ db' = db
            \/ /\ S(s) = NoRow
               /\ db' = [db EXCEPT ![SessionRow(s)] = NewSessionRow]
<1>1. db' = [db EXCEPT ![SessionRow(s)] = IF S(s) = NoRow THEN NewSessionRow ELSE S(s)]
  BY Zenon DEF MemCreate, S
<1>2. db = [r \in Rows |-> db[r]] /\ SessionRow(s) \in Rows
  BY RowNames, Zenon DEF StorageInv, StorageTypes, Tables
<1>3. CASE S(s) = NoRow
  BY <1>1, <1>3, Zenon DEF MemCreate
<1>4. CASE S(s) # NoRow
  <2>1. db' = db
    BY <1>1, <1>2, <1>4, Zenon DEF S
  <2> QED
    BY <2>1, Zenon DEF MemCreate
<1> QED
  BY <1>3, <1>4, Zenon

LEMMA MemCreateStep ==
  ASSUME StorageInv, NEW c \in Clients, MemCreate(c),
         load'.unary = load.unary
  PROVE  Stepped(c)
<1>0. /\ StorageTypes /\ ArgsInv(c) /\ mu \in Clients \cup {NoRow}
      /\ (backend = "postgres" => mu = NoRow)
  BY Zenon DEF StorageInv, CallInv, StorageTypes
<1>1. backend = "memory" /\ call[c].kind = "create" /\ call[c].s \in Sessions
  BY <1>0, Zenon DEF MemCreate, ArgsInv
<1> SUFFICES ASSUME NEW s \in Sessions, s = call[c].s
             PROVE  Stepped(c)
  BY <1>1, Zenon
<1>2. /\ Done(c) /\ Kept /\ UNCHANGED draft
      /\ \/ db' = db
         \/ /\ S(s) = NoRow
            /\ db' = [db EXCEPT ![SessionRow(s)] = NewSessionRow]
  BY MemCreateEffect, Zenon
<1>3. DraftOnly(c) /\ DOMAIN draft[c] = {} /\ GotOnly(c) /\ GotInv(c)'
  BY <1>0, <1>1, <1>2, MemoryKept, DraftKept, GotKept, Zenon DEF Kept
<1>4. CASE db' = db
  BY <1>0, <1>1, <1>2, <1>3, <1>4, QuietEnd, Zenon DEF Kept
<1>5. CASE S(s) = NoRow /\ db' = [db EXCEPT ![SessionRow(s)] = NewSessionRow]
  <2>1. ~Locked(SessionRow(s), c)
    BY <1>1, MemoryKept, Zenon DEF Locked
  <2> QED
    BY <1>2, <1>3, <1>5, <2>1, PlainCreateStep, Zenon
<1> QED
  BY <1>2, <1>4, <1>5, Zenon

LEMMA MemGetStep ==
  ASSUME StorageInv, NEW c \in Clients, MemGet(c),
         load'.unary = load.unary
  PROVE  Stepped(c)
<1>0. /\ StorageTypes /\ ArgsInv(c) /\ Tables /\ Books
      /\ mu \in Clients \cup {NoRow} /\ got \in [Clients -> Session \cup {NoSession}]
  BY Zenon DEF StorageInv, CallInv, StorageTypes
<1>1. /\ backend = "memory" /\ call[c].kind = "get" /\ call[c].s \in Sessions
      /\ Done(c) /\ UNCHANGED <<backend, db, draft, mu>>
  BY <1>0, Zenon DEF MemGet, ArgsInv
<1> SUFFICES ASSUME NEW s \in Sessions, s = call[c].s, NEW g, g = StoredSession(s)
             PROVE  Stepped(c)
  BY <1>1, Zenon
<1>2. got' = [got EXCEPT ![c] = g]
  BY Zenon DEF MemGet
<1>3. DraftOnly(c) /\ DOMAIN draft'[c] = {}
  BY <1>0, <1>1, MemoryKept, DraftKept, Zenon
<1>4. g \in Session \cup {NoSession} /\ (g # NoSession => Pays(g.rav, g.base))
  <2>1. RV(s) \in Values \cup {NoRow}
    BY <1>0, Zenon DEF Tables
  <2>2. CASE S(s) = NoRow
    BY <2>2, Zenon DEF StoredSession, S
  <2>3. CASE S(s) # NoRow
    <3>1. S(s) \in SessionRows /\ Pays(Paid(s), S(s).base)
      BY <1>0, <2>3, Zenon DEF Tables, Books, Covered
    <3>2. g = ToSession(S(s), RV(s))
      BY <2>3, Zenon DEF StoredSession, S, RV
    <3>3. g \in Session /\ g.base = S(s).base /\ g.rav = Paid(s)
      BY <2>1, <3>1, <3>2, ToSessionType DEF Paid
    <3> QED
      BY <3>1, <3>3, Zenon
  <2> QED
    BY <2>2, <2>3, Zenon
<1>5. GotOnly(c) /\ got'[c] = g
  BY <1>0, <1>2, <1>4, Zenon DEF GotOnly
<1>6. GotInv(c)'
  BY <1>4, <1>5, Zenon DEF GotInv, Pays
<1> QED
  BY <1>0, <1>1, <1>3, <1>5, <1>6, QuietEnd, Zenon

LEMMA MemApplyUsageStep ==
  ASSUME StorageInv, NEW c \in Clients, MemApplyUsage(c),
         load'.unary = load.unary
  PROVE  Stepped(c)
<1>0. /\ StorageTypes /\ ArgsInv(c) /\ StepInv(c) /\ Tables /\ Books
      /\ mu \in Clients \cup {NoRow}
  BY Zenon DEF StorageInv, CallInv, StorageTypes
<1>1. /\ backend = "memory" /\ call[c].kind = "usage" /\ call[c].s \in Sessions
      /\ call[c].cost \in Costs /\ call[c].step \in {"session", "usage"}
      /\ backend' = backend /\ mu' = mu /\ got' = got /\ draft' = draft
  BY <1>0, Zenon DEF MemApplyUsage, ArgsInv, StepInv, Kept
<1>2. /\ DraftOnly(c) /\ DOMAIN draft'[c] = {} /\ GotOnly(c) /\ GotInv(c)'
      /\ LockedKept(c)
  BY <1>0, <1>1, MemoryKept, DraftKept, GotKept, Zenon
<1> SUFFICES ASSUME NEW s \in Sessions, s = call[c].s,
                    NEW cost \in Nat, cost = call[c].cost
             PROVE  Stepped(c)
  BY <1>1, NoRowIsNone, Zenon
<1>3. CASE call[c].step = "session" /\ S(s) = NoRow
  <2>1. Done(c) /\ db' = db
    BY <1>3, Zenon DEF MemApplyUsage, S
  <2> QED
    BY <1>0, <1>1, <1>2, <2>1, QuietEnd, Zenon
<1>4. CASE call[c].step = "session" /\ S(s) # NoRow
  <2> SUFFICES ASSUME NEW x, x = AddUsage(S(s), cost)
               PROVE  Stepped(c)
    OBVIOUS
  <2>1. db' = [db EXCEPT ![SessionRow(s)] = x] /\ Step(c, "usage")
    BY <1>4, Zenon DEF MemApplyUsage, S
  <2>2. Touch({s}, {}, {}, {}, {}, {}) /\ S(s)' = x
    BY <1>0, <2>1, SetSession, Zenon
  <2>3. S(s) \in SessionRows
    BY <1>0, <1>4, Zenon DEF Tables
  <2>4. x \in SessionRows /\ x.total = S(s).total + cost /\ x.base = S(s).base
    BY <2>3, AddUsageType, Zenon
  <2>5. Tables'
    BY <1>0, <2>2, <2>4, TablesTouched, SMTT(20)
  <2>6. RV(s)' = RV(s) /\ x.total >= S(s).total
    BY <2>2, <2>3, <2>4 DEF Touch, SessionRows
  <2>7. Pays(Paid(s)', x.base)
    <3>1. Paid(s)' = Paid(s)
      BY <2>6, Zenon DEF Paid
    <3>2. Pays(Paid(s), S(s).base)
      BY <1>0, <1>4, Zenon DEF Books, Covered
    <3> QED
      BY <2>4, <3>1, <3>2, Zenon
  <2>8. StoredGrow(c) /\ Books'
    BY <2>2, <2>4, <2>6, <2>7, SessionWritten, Zenon
  <2>9. MuKept(c)
    <3>1. \A t \in Sessions : C(t)' = C(t)
      BY <2>2, Zenon DEF Touch
    <3> QED
      BY <1>1, <3>1, RecordsKept, Zenon
  <2>10. CallOnly(c) /\ SameArgs(c) /\ call'[c].step = "usage"
    BY <1>0, <2>1, StepEffect, Zenon DEF Steps
  <2>11. StepInv(c)' /\ RAVInv(c)' /\ MuInv(c)'
    BY <1>1, <2>10, Zenon DEF StepInv, RAVInv, MuInv, SameArgs
  <2> QED
    BY <1>1, <2>1, <2>5, <2>8, <2>9, <2>11, MemStep, Zenon
<1>5. CASE call[c].step = "usage"
  <2> SUFFICES ASSUME NEW x, x = U(s) + cost
               PROVE  Stepped(c)
    OBVIOUS
  <2>1. db' = [db EXCEPT ![UsageRows(s)] = x] /\ Done(c)
    BY <1>5, Zenon DEF MemApplyUsage, U
  <2>2. Touch({}, {}, {s}, {}, {}, {}) /\ U(s)' = x
    BY <1>0, <2>1, SetUsage, Zenon
  <2>3. x \in Nat
    BY <1>0 DEF Tables
  <2>4. Tables'
    BY <1>0, <2>2, <2>3, TablesTouched
  <2>5. StoredGrow(c) /\ Books'
    BY <2>2, SessionsKept, Zenon
  <2>6. MuKept(c)
    <3>1. \A t \in Sessions : C(t)' = C(t)
      BY <2>2, Zenon DEF Touch
    <3> QED
      BY <1>1, <3>1, RecordsKept, Zenon
  <2> QED
    BY <1>0, <1>1, <1>2, <2>1, <2>4, <2>5, <2>6, EndStep, Zenon
<1> QED
  BY <1>1, <1>3, <1>4, <1>5, Zenon

\* A reservation in memory that is not refused.
MemReserved(k, p, s) ==
  /\ Touch({}, {}, {}, {}, {k}, {p})
  /\ W(k) = NoWorker /\ W(k)' = Worker(s, p)
  /\ Q(p)' = Q(p) + 1 /\ ~(Q(p) + 1 > MaxWorkers)

LEMMA MemReserveEffect ==
  ASSUME StorageInv, NEW c \in Clients, MemReserve(c),
         NEW s \in Sessions, s = call[c].s, NEW k \in Keys, k = call[c].k,
         NEW p \in Payers, p = call[c].p
  PROVE  db' = db \/ MemReserved(k, p, s)
<1>0. Tables
  BY Zenon DEF StorageInv, StorageTypes
<1>1. /\ db = [r \in Rows |-> db[r]] /\ WorkerRow(k) \in Rows /\ QuotaRow(p) \in Rows
      /\ WorkerRow(k) # QuotaRow(p)
  BY <1>0, RowNames, RowsDiffer, Zenon DEF Tables
<1>2. CASE W(k) # NoWorker \/ Exceeds(db, QuotaRow(p), 1, MaxWorkers)
  BY <1>2, Zenon DEF MemReserve, W
<1>3. CASE W(k) = NoWorker /\ ~Exceeds(db, QuotaRow(p), 1, MaxWorkers)
  <2>1. db' = [Increment(db, QuotaRow(p), 1) EXCEPT ![WorkerRow(k)] = Worker(s, p)]
    BY <1>3, Zenon DEF MemReserve, W
  <2>2. /\ db' = [r \in Rows |-> db'[r]]
        /\ db'[WorkerRow(k)] = Worker(s, p) /\ db'[QuotaRow(p)] = Q(p) + 1
        /\ \A r \in Rows : r \notin {WorkerRow(k), QuotaRow(p)} => db'[r] = db[r]
    BY <1>1, <2>1, Zenon DEF Increment, Q
  <2>3. /\ \A t \in Sessions : SessionRow(t) \in {WorkerRow(k), QuotaRow(p)} => t \in {}
        /\ \A t \in Sessions : RAVRow(t) \in {WorkerRow(k), QuotaRow(p)} => t \in {}
        /\ \A t \in Sessions : UsageRows(t) \in {WorkerRow(k), QuotaRow(p)} => t \in {}
        /\ \A t \in Sessions :
             CollectionRow(t) \in {WorkerRow(k), QuotaRow(p)} => t \in {}
        /\ \A t \in Keys : WorkerRow(t) \in {WorkerRow(k), QuotaRow(p)} => t \in {k}
        /\ \A t \in Payers : QuotaRow(t) \in {WorkerRow(k), QuotaRow(p)} => t \in {p}
    BY RowsDiffer, Zenon
  <2>4. Touch({}, {}, {}, {}, {k}, {p})
    BY <2>2, <2>3, TouchedRows, Zenon
  <2> QED
    BY <1>3, <2>2, <2>4, Zenon DEF MemReserved, Exceeds, W, Q
<1> QED
  BY <1>2, <1>3, Zenon

LEMMA MemReserveStep ==
  ASSUME StorageInv, NEW c \in Clients, MemReserve(c),
         load'.unary = load.unary
  PROVE  Stepped(c)
<1>0. /\ StorageTypes /\ ArgsInv(c) /\ Tables /\ mu \in Clients \cup {NoRow}
  BY Zenon DEF StorageInv, CallInv, StorageTypes
<1>1. /\ backend = "memory" /\ call[c].kind = "reserve" /\ call[c].s \in Sessions
      /\ call[c].k \in Keys /\ call[c].p \in Payers /\ Done(c)
      /\ backend' = backend /\ mu' = mu /\ got' = got /\ draft' = draft
  BY <1>0, Zenon DEF MemReserve, ArgsInv, Kept
<1>2. /\ DraftOnly(c) /\ DOMAIN draft'[c] = {} /\ GotOnly(c) /\ GotInv(c)'
      /\ LockedKept(c)
  BY <1>0, <1>1, MemoryKept, DraftKept, GotKept, Zenon
<1> SUFFICES ASSUME NEW s \in Sessions, s = call[c].s, NEW k \in Keys, k = call[c].k,
                    NEW p \in Payers, p = call[c].p
             PROVE  Stepped(c)
  BY <1>1, Zenon
<1>3. CASE db' = db
  BY <1>0, <1>1, <1>2, <1>3, QuietEnd, Zenon
<1>4. CASE MemReserved(k, p, s)
  <2>1. Tables'
    <3>1. Q(p) \in Nat /\ Worker(s, p) \in WorkerRows
      BY <1>0, Zenon DEF Tables, Worker, WorkerRows
    <3> QED
      BY <1>0, <1>4, <3>1, TablesTouched DEF MemReserved
  <2>2. StoredGrow(c) /\ Books'
    BY <1>4, SessionsKept, Zenon DEF MemReserved
  <2>3. MuKept(c)
    <3>1. \A t \in Sessions : C(t)' = C(t)
      BY <1>4, Zenon DEF MemReserved, Touch
    <3> QED
      BY <1>1, <3>1, RecordsKept, Zenon
  <2> QED
    BY <1>0, <1>1, <1>2, <2>1, <2>2, <2>3, EndStep, Zenon
<1> QED
  BY <1>3, <1>4, MemReserveEffect, Zenon

-----------------------------------------------------------------------------
(* New calls.                                                               *)

\* The fields of a call that starts.
LEMMA NewCallType ==
  ASSUME NEW kind \in Kinds, NEW step \in Steps
  PROVE  /\ Call(kind, step) \in Calls
         /\ Call(kind, step).kind = kind /\ Call(kind, step).step = step
<1>1. Call(kind, step) \in Calls
  BY IdleType, Zenon DEF Call, Calls
<1>2. Call(kind, step).kind = kind /\ Call(kind, step).step = step
  BY Zenon DEF Call, Idle
<1> QED
  BY <1>1, <1>2, Zenon

Fresh(c, k) ==
  /\ k \in Calls
  /\ k.kind \in {"usage", "create", "rav", "get"} => k.step = "session"
  /\ k.kind \in {"runtime", "delete", "decrement", "mark"} => k.step = "one"
  /\ k.kind = "reserve" => k.step = "quota"
  /\ k.kind \in Kinds \ {"idle"}
  /\ k.kind \in {"usage", "create", "rav", "runtime", "reserve", "mark", "get"}
       => k.s \in Sessions
  /\ k.kind \in {"rav", "mark"} => k.v \in Values
  /\ k.kind = "usage" => k.cost \in Costs /\ c = Reporter
  /\ k.kind = "runtime" => k.status \in SessionStatuses
  /\ k.kind \in {"reserve", "delete"} => k.k \in Keys
  /\ k.kind \in {"reserve", "decrement"} => k.p \in Payers
  /\ k.kind = "rav" =>
       /\ S(k.s) # NoRow /\ k.base <= S(k.s).total
       /\ Pays(k.v, k.base) /\ Pays(k.v, Paid(k.s))
       /\ load.unary \/ \A d \in Clients : call[d].kind = "rav" => call[d].s # k.s

LEMMA RequestStep ==
  ASSUME StorageInv, NEW c \in Clients, NEW k, Fresh(c, k), call[c] = Idle,
         call' = [call EXCEPT ![c] = k],
         UNCHANGED <<backend, db, draft, mu, got>>,
         load'.unary = load.unary
  PROVE  Stepped(c)
<1>0. /\ StorageTypes /\ DraftInv(c) /\ call \in [Clients -> Calls]
      /\ mu \in Clients \cup {NoRow} /\ (backend = "postgres" => mu = NoRow)
  BY Zenon DEF StorageInv, CallInv, StorageTypes
<1>1. CallOnly(c) /\ call'[c] = k
  BY <1>0, Zenon DEF CallOnly, Fresh
<1>2. DraftOnly(c) /\ DOMAIN draft'[c] = {} /\ GotOnly(c) /\ GotInv(c)'
  <2>1. DOMAIN draft[c] = {}
    BY <1>0, IdleType, Zenon DEF DraftInv
  <2> QED
    BY <1>0, <2>1, DraftKept, GotKept, Zenon
<1>3. Frame(c) /\ Books'
  BY <1>0, <1>1, <1>2, QuietFrame, Zenon
<1>4. ArgsInv(c)'
  BY <1>1, Zenon DEF ArgsInv, Fresh
<1>5. StepInv(c)' /\ GetInv(c)' /\ MuInv(c)'
  BY <1>1, Zenon DEF StepInv, GetInv, MuInv, Fresh, Kinds
<1>6. DraftInv(c)'
  BY <1>1, <1>2, Zenon DEF DraftInv, UsageTx, RAVTx, ReserveTx, Fresh
<1>7. RAVInv(c)'
  BY <1>1, Zenon DEF RAVInv, Fresh, Pays, S, RV, Paid
<1>8. CallInv(c)'
  BY <1>2, <1>4, <1>5, <1>6, <1>7, Zenon DEF CallInv
<1> QED
  BY <1>0, <1>1, <1>2, <1>3, <1>8, Zenon DEF Stepped, Fresh

\* A client that was idle makes the call k.
Started(c) ==
  \E k : /\ Fresh(c, k) /\ call[c] = Idle
         /\ call' = [call EXCEPT ![c] = k]
         /\ UNCHANGED <<backend, db, draft, mu, got>>

LEMMA StartedStep ==
  ASSUME StorageInv, NEW c \in Clients, Started(c),
         load'.unary = load.unary
  PROVE  Stepped(c)
BY RequestStep, Zenon DEF Started

LEMMA StartStep ==
  ASSUME StorageInv, NEW c \in Clients, NEW k, Fresh(c, k), Start(c, k)
  PROVE  Started(c)
BY Zenon DEF Start, Request, Started

LEMMA CallCreateStep ==
  ASSUME StorageInv, NEW c \in Clients, CallCreate(c)
  PROVE  Started(c)
<1>1. PICK s \in Sessions, v \in Values \cup {NoRow} :
             Start(c, [Call("create", "session") EXCEPT !.s = s, !.v = v])
  BY Zenon DEF CallCreate
<1>2a. Call("create", "session") \in Calls
  BY NewCallType DEF Kinds, Steps
<1> SUFFICES ASSUME NEW k0 \in Calls, k0 = Call("create", "session"),
                    NEW k, k = [k0 EXCEPT !.s = s, !.v = v]
             PROVE  Started(c)
  BY <1>2a, Zenon
<1>2. k0.kind = "create" /\ k0.step = "session"
  BY NewCallType DEF Kinds, Steps
<1>3. /\ k.kind = "create" /\ k.step = "session"
      /\ k.s = s /\ k.v = v
  BY <1>2, Zenon DEF Calls
<1>4. k \in Calls
  BY ZenonT(60) DEF Calls
<1>5. Fresh(c, k)
  BY <1>3, <1>4, Zenon DEF Fresh, Kinds
<1>6. Start(c, k)
  BY <1>1, Zenon
<1> QED
  BY <1>5, <1>6, StartStep, Zenon

LEMMA CallRuntimeStateStep ==
  ASSUME StorageInv, NEW c \in Clients, CallRuntimeState(c)
  PROVE  Started(c)
<1>1. PICK s \in Sessions, status \in SessionStatuses :
             Start(c, [Call("runtime", "one") EXCEPT !.s = s, !.status = status])
  BY Zenon DEF CallRuntimeState
<1>2a. Call("runtime", "one") \in Calls
  BY NewCallType DEF Kinds, Steps
<1> SUFFICES ASSUME NEW k0 \in Calls, k0 = Call("runtime", "one"),
                    NEW k, k = [k0 EXCEPT !.s = s, !.status = status]
             PROVE  Started(c)
  BY <1>2a, Zenon
<1>2. k0.kind = "runtime" /\ k0.step = "one"
  BY NewCallType DEF Kinds, Steps
<1>3. /\ k.kind = "runtime" /\ k.step = "one"
      /\ k.s = s /\ k.status = status
  BY <1>2, Zenon DEF Calls
<1>4. k \in Calls
  BY ZenonT(60) DEF Calls
<1>5. Fresh(c, k)
  BY <1>3, <1>4, Zenon DEF Fresh, Kinds
<1>6. Start(c, k)
  BY <1>1, Zenon
<1> QED
  BY <1>5, <1>6, StartStep, Zenon

LEMMA CallReserveStep ==
  ASSUME StorageInv, NEW c \in Clients, CallReserve(c)
  PROVE  Started(c)
<1>1. PICK w \in Keys, s \in Sessions, p \in Payers :
             Start(c, [Call("reserve", "quota") EXCEPT !.k = w, !.s = s, !.p = p])
  BY Zenon DEF CallReserve
<1>2a. Call("reserve", "quota") \in Calls
  BY NewCallType DEF Kinds, Steps
<1> SUFFICES ASSUME NEW k0 \in Calls, k0 = Call("reserve", "quota"),
                    NEW k, k = [k0 EXCEPT !.k = w, !.s = s, !.p = p]
             PROVE  Started(c)
  BY <1>2a, Zenon
<1>2. k0.kind = "reserve" /\ k0.step = "quota"
  BY NewCallType DEF Kinds, Steps
<1>3. /\ k.kind = "reserve" /\ k.step = "quota"
      /\ k.k = w /\ k.s = s /\ k.p = p
  BY <1>2, Zenon DEF Calls
<1>4. k \in Calls
  BY ZenonT(60) DEF Calls
<1>5. Fresh(c, k)
  BY <1>3, <1>4, Zenon DEF Fresh, Kinds
<1>6. Start(c, k)
  BY <1>1, Zenon
<1> QED
  BY <1>5, <1>6, StartStep, Zenon

LEMMA CallDeleteStep ==
  ASSUME StorageInv, NEW c \in Clients, CallDelete(c)
  PROVE  Started(c)
<1>1. PICK w \in Keys :
             Start(c, [Call("delete", "one") EXCEPT !.k = w])
  BY Zenon DEF CallDelete
<1>2a. Call("delete", "one") \in Calls
  BY NewCallType, ZenonT(30) DEF Kinds, Steps
<1> SUFFICES ASSUME NEW k0 \in Calls, k0 = Call("delete", "one"),
                    NEW k, k = [k0 EXCEPT !.k = w]
             PROVE  Started(c)
  BY <1>2a, Zenon
<1>2. k0.kind = "delete" /\ k0.step = "one"
  BY NewCallType, ZenonT(30) DEF Kinds, Steps
<1>3. /\ k.kind = "delete" /\ k.step = "one"
      /\ k.k = w
  BY <1>2, Zenon DEF Calls
<1>4. k \in Calls
  BY ZenonT(60) DEF Calls
<1>5. Fresh(c, k)
  BY <1>3, <1>4, Zenon DEF Fresh, Kinds
<1>6. Start(c, k)
  BY <1>1, Zenon
<1> QED
  BY <1>5, <1>6, StartStep, Zenon

LEMMA CallDecrementStep ==
  ASSUME StorageInv, NEW c \in Clients, CallDecrement(c)
  PROVE  Started(c)
<1>1. PICK p \in Payers :
             Start(c, [Call("decrement", "one") EXCEPT !.p = p])
  BY Zenon DEF CallDecrement
<1>2a. Call("decrement", "one") \in Calls
  BY NewCallType, Zenon DEF Kinds, Steps
<1> SUFFICES ASSUME NEW k0 \in Calls, k0 = Call("decrement", "one"),
                    NEW k, k = [k0 EXCEPT !.p = p]
             PROVE  Started(c)
  BY <1>2a, Zenon
<1>2. k0.kind = "decrement" /\ k0.step = "one"
  BY NewCallType, Zenon DEF Kinds, Steps
<1>3. /\ k.kind = "decrement" /\ k.step = "one"
      /\ k.p = p
  BY <1>2, Zenon DEF Calls
<1>4. k \in Calls
  BY ZenonT(60) DEF Calls
<1>5. Fresh(c, k)
  BY <1>3, <1>4, Zenon DEF Fresh, Kinds
<1>6. Start(c, k)
  BY <1>1, Zenon
<1> QED
  BY <1>5, <1>6, StartStep, Zenon

LEMMA CallMarkStep ==
  ASSUME StorageInv, NEW c \in Clients, CallMark(c)
  PROVE  Started(c)
<1>1. PICK s \in Sessions, v \in Values, to \in Marks :
             Start(c, [Call("mark", "one") EXCEPT !.s = s, !.v = v, !.to = to])
  BY Zenon DEF CallMark, Marks
<1>2a. Call("mark", "one") \in Calls
  BY NewCallType, Zenon DEF Kinds, Steps
<1> SUFFICES ASSUME NEW k0 \in Calls, k0 = Call("mark", "one"),
                    NEW k, k = [k0 EXCEPT !.s = s, !.v = v, !.to = to]
             PROVE  Started(c)
  BY <1>2a, Zenon
<1>2. k0.kind = "mark" /\ k0.step = "one"
  BY NewCallType, Zenon DEF Kinds, Steps
<1>3. /\ k.kind = "mark" /\ k.step = "one"
      /\ k.s = s /\ k.v = v /\ k.to = to
  BY <1>2, Zenon DEF Calls
<1>4. k \in Calls
  BY ZenonT(60) DEF Calls
<1>5. Fresh(c, k)
  BY <1>3, <1>4, Zenon DEF Fresh, Kinds
<1>6. Start(c, k)
  BY <1>1, Zenon
<1> QED
  BY <1>5, <1>6, StartStep, Zenon

LEMMA CallGetStep ==
  ASSUME StorageInv, NEW c \in Clients, CallGet(c)
  PROVE  Started(c)
<1>1. PICK s \in Sessions :
             Start(c, [Call("get", "session") EXCEPT !.s = s])
  BY Zenon DEF CallGet
<1>2a. Call("get", "session") \in Calls
  BY NewCallType, Zenon DEF Kinds, Steps
<1> SUFFICES ASSUME NEW k0 \in Calls, k0 = Call("get", "session"),
                    NEW k, k = [k0 EXCEPT !.s = s]
             PROVE  Started(c)
  BY <1>2a, Zenon
<1>2. k0.kind = "get" /\ k0.step = "session"
  BY NewCallType, Zenon DEF Kinds, Steps
<1>3. /\ k.kind = "get" /\ k.step = "session"
      /\ k.s = s
  BY <1>2, Zenon DEF Calls
<1>4. k \in Calls
  BY ZenonT(60) DEF Calls
<1>5. Fresh(c, k)
  BY <1>3, <1>4, Zenon DEF Fresh, Kinds
<1>6. Start(c, k)
  BY <1>1, Zenon
<1> QED
  BY <1>5, <1>6, StartStep, Zenon

LEMMA CallRAVStep ==
  ASSUME StorageInv, NEW c \in Clients, CallRAV(c)
  PROVE  Started(c)
<1>1. PICK s \in Sessions, v \in Values :
        /\ StoredSession(s) # NoSession
        /\ \E base \in 0 .. StoredSession(s).total :
             /\ load.unary \/ UnderSessionEval(s, v, base)
             /\ Start(c, [Call("rav", "session") EXCEPT
                            !.s = s, !.v = v, !.base = base])
  BY Zenon DEF CallRAV
<1>2. PICK base \in 0 .. StoredSession(s).total :
        /\ load.unary \/ UnderSessionEval(s, v, base)
        /\ Start(c, [Call("rav", "session") EXCEPT !.s = s, !.v = v, !.base = base])
  BY <1>1, Zenon
<1>3. Tables
  BY Zenon DEF StorageInv, StorageTypes
<1>4. S(s) \in SessionRows /\ RV(s) \in Values \cup {NoRow}
  BY <1>1, <1>3, Zenon DEF StoredSession, S, Tables
<1>5. StoredSession(s).total = S(s).total /\ StoredSession(s).rav = Paid(s)
  BY <1>1, Zenon DEF StoredSession, ToSession, S, RV, Paid
<1>6. /\ S(s).total \in Nat /\ Paid(s) \in Nat /\ v \in Nat
      /\ S(s) # NoRow
  BY <1>4, NoRowIsNone, Zenon DEF SessionRows, Paid
<1>7. base \in Nat /\ base <= S(s).total /\ Pays(v, base) /\ Pays(v, Paid(s))
  BY <1>2, <1>5, <1>6, SMTT(20) DEF UnderSessionEval, Pays
<1>7a. load.unary \/ \A d \in Clients : call[d].kind = "rav" => call[d].s # s
  BY <1>2, Zenon DEF UnderSessionEval
<1>8a. Call("rav", "session") \in Calls
  BY NewCallType DEF Kinds, Steps
<1> SUFFICES ASSUME NEW k0 \in Calls, k0 = Call("rav", "session"),
                    NEW k, k = [k0 EXCEPT !.s = s, !.v = v, !.base = base]
             PROVE  Started(c)
  BY <1>8a, Zenon
<1>8. k0.kind = "rav" /\ k0.step = "session"
  BY NewCallType DEF Kinds, Steps
<1>9. /\ k.kind = "rav" /\ k.step = "session"
      /\ k.s = s /\ k.v = v /\ k.base = base
  BY <1>8, Zenon DEF Calls
<1>10. k \in Calls
  BY <1>7, ZenonT(60) DEF Calls
<1>11. Fresh(c, k)
  BY <1>6, <1>7, <1>7a, <1>9, <1>10, Zenon DEF Fresh, Kinds
<1>12. Start(c, k)
  BY <1>2, Zenon
<1> QED
  BY <1>11, <1>12, StartStep, Zenon

-----------------------------------------------------------------------------
(* The invariant holds in every reachable state.                            *)

LEMMA RunStep ==
  ASSUME StorageInv, NEW c \in Clients, Run(c),
         load'.unary = load.unary
  PROVE  Stepped(c)
BY RuntimeStateStep, DeleteWorkerStep, DecrementStep, MarkStep, PgCreateSteps,
   PgApplyUsageStep, PgUpdateBaselineStep, PgAddUsageStep, PgUpsertRAVStep,
   PgUpsertCollectibleStep, PgLockQuotaStep, PgCreateWorkerStep,
   PgIncrementQuotaStep, CommitStep, PgGetStep, MemLockStep, MemSwapStep,
   MemSetRecordStep, MemCreateStep, MemApplyUsageStep, MemReserveStep,
   MemGetStep, Zenon
   DEF Run

LEMMA StatementFailsStep ==
  ASSUME StorageInv, NEW c \in Clients, StatementFails(c),
         load'.unary = load.unary
  PROVE  Stepped(c)
BY RollbackStep, Zenon DEF StatementFails

LEMMA NewCallStep ==
  ASSUME StorageInv, NEW c \in Clients, NewCall(c)
  PROVE  Started(c)
BY CallCreateStep, CallRAVStep, CallRuntimeStateStep, CallReserveStep,
   CallDeleteStep, CallDecrementStep, CallMarkStep, CallGetStep, Zenon
   DEF NewCall

LEMMA ApplyEventStep ==
  ASSUME StorageInv, NEW e \in Events, ApplyEvent(e)
  PROVE  Started(Reporter)
<1>1. /\ at[e] = "report" /\ owner[e] \in Sessions /\ Reporter \in Clients
  BY PipelineAssumption, Zenon DEF ApplyEvent, StorageInv, EmitterInv
<1>2. PICK cost \in Costs : RequestUsage(Reporter, owner[e], cost)
  BY Zenon DEF ApplyEvent
<1> SUFFICES ASSUME NEW s \in Sessions, s = owner[e]
             PROVE  Started(Reporter)
  BY <1>1, Zenon
<1>3. Call("usage", "session") \in Calls
  BY NewCallType DEF Kinds, Steps
<1> SUFFICES ASSUME NEW k0 \in Calls, k0 = Call("usage", "session"),
                    NEW k, k = [k0 EXCEPT !.s = s, !.cost = cost]
             PROVE  Started(Reporter)
  BY <1>3, Zenon
<1>4. k0.kind = "usage" /\ k0.step = "session"
  BY NewCallType DEF Kinds, Steps
<1>5. k.kind = "usage" /\ k.step = "session" /\ k.s = s /\ k.cost = cost
  BY <1>4, Zenon DEF Calls
<1>6. k \in Calls
  BY ZenonT(60) DEF Calls
<1>7. Fresh(Reporter, k)
  BY <1>5, <1>6, Zenon DEF Fresh, Kinds
<1>8. /\ call[Reporter] = Idle /\ call' = [call EXCEPT ![Reporter] = k]
      /\ UNCHANGED <<backend, db, draft, mu, got>>
  BY <1>2, Zenon DEF RequestUsage, Request
<1> QED
  BY <1>7, <1>8, Zenon DEF Started

\* The emitter's own steps leave the repository and its calls alone.
LEMMA RepositoryKept ==
  ASSUME StorageInv, UNCHANGED <<backend, db, call, draft, mu, got>>, EmitterInv',
         load'.unary = load.unary, load' \in AllLoads
  PROVE  StorageInv'
<1>1. StorageTypes /\ Books /\ Locks /\ OneRAV /\ \A c \in Clients : CallInv(c)
  BY Zenon DEF StorageInv
<1>2. StorageTypes'
  BY <1>1, Zenon DEF StorageTypes, Tables, S, RV, U, C, W, Q
<1>3. Books' /\ Locks' /\ OneRAV'
  BY <1>1, Zenon DEF Books, Covered, Pays, Paid, S, RV, Locks, OneRAV
<1>4. ASSUME NEW c \in Clients
      PROVE  CallInv(c)'
  <2>1. CallInv(c)
    BY <1>1, Zenon
  <2>2. ArgsInv(c)' /\ StepInv(c)'
    BY <2>1, Zenon DEF CallInv, ArgsInv, StepInv
  <2>3. RAVInv(c)' /\ GetInv(c)' /\ GotInv(c)' /\ MuInv(c)'
    BY <2>1, Zenon DEF CallInv, RAVInv, GetInv, GotInv, MuInv, Pays, Paid, S, RV, C
  <2>4. DraftInv(c)'
    BY <2>1, ZenonT(30) DEF CallInv, DraftInv, UsageTx, RAVTx, ReserveTx, SessionDraft,
       RAVDraft, CollectionDraft, WorkerDraft, Exceeds, S, U, C, W, Q
  <2> QED
    BY <2>2, <2>3, <2>4, Zenon DEF CallInv
<1> QED
  BY <1>2, <1>3, <1>4, Zenon DEF StorageInv

LEMMA EmitterStep ==
  ASSUME EmitterInv, EmitterNext
  PROVE  EmitterInv'
<1>0. /\ at = [e \in Events |-> at[e]]
      /\ owner \in [Events -> Sessions \cup {NoSession}]
      /\ \A e \in Events : at[e] # "new" => owner[e] \in Sessions
  BY Zenon DEF EmitterInv
<1>1. ASSUME NEW e \in Events, NEW place, at' = [at EXCEPT ![e] = place],
             at[e] # "new", owner' = owner
      PROVE  EmitterInv'
  BY <1>0, <1>1, Zenon DEF EmitterInv
<1>2. ASSUME at' = at, owner' = owner
      PROVE  EmitterInv'
  BY <1>0, <1>2, Zenon DEF EmitterInv
<1>3. ASSUME NEW place, NEW B \in SUBSET Events, \A e \in B : at[e] # "new",
             at' = [e \in Events |-> IF e \in B THEN place ELSE at[e]],
             owner' = owner
      PROVE  EmitterInv'
  BY <1>0, <1>3, Zenon DEF EmitterInv
<1>4. ASSUME NEW e \in Events, NEW s \in Sessions, EmitCheck(e, s)
      PROVE  EmitterInv'
  <2>1. PICK place : at' = [at EXCEPT ![e] = place] /\ owner' = [owner EXCEPT ![e] = s]
    BY <1>4, Zenon DEF EmitCheck, Move
  <2> QED
    BY <1>0, <2>1, Zenon DEF EmitterInv
<1>5. ASSUME NEW e \in Events,
             EmitSend(e) \/ Take(e) \/ ApplyEvent(e) \/ EventApplied(e)
      PROVE  EmitterInv'
  <2>1. /\ at[e] # "new" /\ owner' = owner
        /\ \E place : at' = [at EXCEPT ![e] = place]
    BY <1>5, Zenon DEF EmitSend, Take, ApplyEvent, EventApplied, ApplyDone, Move
  <2> QED
    BY <1>1, <2>1, Zenon
<1>6. ASSUME Tick \/ Flush
      PROVE  EmitterInv'
  <2>1. /\ owner' = owner
        /\ \/ at' = at
           \/ at' = [e \in Events |-> IF e \in Batch THEN "report" ELSE at[e]]
    BY <1>6, Zenon DEF Tick, Flush, SendReport
  <2>2. Batch \in SUBSET Events /\ \A e \in Batch : at[e] # "new"
    BY Zenon DEF Batch
  <2> QED
    BY <1>2, <1>3, <2>1, <2>2, Zenon
<1>7. CASE ReportFails
  <2> DEFINE B == {e \in Events : at[e] = "report"}
  <2>1. /\ owner' = owner
        /\ \/ at' = at
           \/ at' = [e \in Events |-> IF at[e] = "report" THEN "lost" ELSE at[e]]
    BY <1>7, Zenon DEF ReportFails
  <2>2. B \in SUBSET Events /\ \A e \in B : at[e] # "new"
    OBVIOUS
  <2>3. [e \in Events |-> IF at[e] = "report" THEN "lost" ELSE at[e]]
          = [e \in Events |-> IF e \in B THEN "lost" ELSE at[e]]
    OBVIOUS
  <2> HIDE DEF B
  <2>4. CASE at' = at
    BY <1>2, <2>1, <2>4, Zenon
  <2>5. CASE at' = [e \in Events |-> IF at[e] = "report" THEN "lost" ELSE at[e]]
    <3>1. at' = [e \in Events |-> IF e \in B THEN "lost" ELSE at[e]]
      BY <2>3, <2>5, Zenon
    <3> QED
      BY <1>3, <2>1, <2>2, <3>1, Zenon
  <2> QED
    BY <2>1, <2>4, <2>5, Zenon
<1>8. CASE Shutdown \/ BeginShutdown \/ Answer
  BY <1>2, <1>8, Zenon DEF Shutdown, BeginShutdown, Answer
<1> QED
  BY <1>4, <1>5, <1>6, <1>7, <1>8, Zenon DEF EmitterNext

LEMMA LoadOfCall ==
  ASSUME load \in AllLoads, NEW kind, load.calls[kind] > 0,
         load' = [load EXCEPT !.calls[kind] = @ - 1]
  PROVE  load' \in AllLoads /\ load'.unary = load.unary
BY DEF AllLoads

LEMMA LoadOfEvent ==
  ASSUME load \in AllLoads, NEW e \in Events, e = load.events,
         load' = [load EXCEPT !.events = @ - 1]
  PROVE  load' \in AllLoads /\ load'.unary = load.unary
BY DEF AllLoads, Events

LEMMA RunLoad ==
  ASSUME NEW c, Run(c)
  PROVE  load' = load
<1>1. UpdateRuntimeState(c) \/ DeleteWorker(c) \/ DecrementQuota(c) => load' = load
  BY Zenon DEF UpdateRuntimeState, DeleteWorker, DecrementQuota, Execute, Kept
<1>2. MarkCollection(c) \/ PgCreate(c) \/ PgApplyUsage(c) => load' = load
  BY Zenon DEF MarkCollection, PgCreate, PgApplyUsage, PgUpdate, Execute, KeptTx, Kept
<1>3. PgUpdateBaseline(c) \/ PgAddUsage(c) \/ PgUpsertRAV(c) => load' = load
  BY Zenon DEF PgUpdateBaseline, PgUpdate, PgAddUsage, PgUpsertRAV, KeptTx, Kept
<1>4. PgUpsertCollectible(c) \/ PgLockQuota(c) \/ PgCreateWorker(c) => load' = load
  BY Zenon DEF PgUpsertCollectible, PgLockQuota, PgCreateWorker, KeptTx, Kept
<1>5. PgIncrementQuota(c) \/ Commit(c) \/ PgGet(c) => load' = load
  BY Zenon DEF PgIncrementQuota, Commit, PgGet, KeptTx, Kept
<1>6. MemLock(c) \/ MemSwap(c) \/ MemSetRecord(c) \/ MemCreate(c) => load' = load
  BY Zenon DEF MemLock, MemSwap, MemSetRecord, MemCreate, Kept
<1>7. MemApplyUsage(c) \/ MemReserve(c) \/ MemGet(c) => load' = load
  BY Zenon DEF MemApplyUsage, MemReserve, MemGet, Kept
<1> QED
  BY <1>1, <1>2, <1>3, <1>4, <1>5, <1>6, <1>7, Zenon DEF Run

\* Whether RAVs come by SubmitRAV does not change.
LEMMA LoadKept ==
  ASSUME load \in AllLoads, [PipeNext]_pipeVars
  PROVE  load' \in AllLoads /\ load'.unary = load.unary
<1>1. CASE load' = load
  BY <1>1, Zenon
<1>2. CASE \E c \in Handlers : NewCall(c)
  <2>1. \E c \in Handlers : \E k : Start(c, k)
    BY <1>2, Zenon DEF NewCall, CallCreate, CallRAV, CallRuntimeState, CallReserve,
       CallDelete, CallDecrement, CallMark, CallGet
  <2> QED
    BY <2>1, LoadOfCall, Zenon DEF Start
<1>3. CASE \E e \in Events, s \in Sessions : EmitCheck(e, s)
  BY <1>3, LoadOfEvent, Zenon DEF EmitCheck
<1>4. CASE \E c \in Clients : Run(c) \/ StatementFails(c)
  BY <1>1, <1>4, RunLoad, Zenon DEF StatementFails
<1>5. CASE \E e \in Events : EmitSend(e) \/ Take(e) \/ ApplyEvent(e) \/ EventApplied(e)
  BY <1>1, <1>5, Zenon DEF EmitSend, Take, ApplyEvent, EventApplied, RequestUsage, vars
<1>6. CASE Shutdown \/ Tick \/ BeginShutdown \/ Flush \/ Answer \/ ReportFails
  BY <1>1, <1>6, Zenon DEF Shutdown, Tick, BeginShutdown, Flush, Answer, ReportFails, vars
<1>7. CASE UNCHANGED pipeVars
  BY <1>1, <1>7, Zenon DEF pipeVars, vars
<1> QED
  BY <1>2, <1>3, <1>4, <1>5, <1>6, <1>7, Zenon DEF PipeNext, StorageNext, EmitterNext

LEMMA StorageInductive ==
  ASSUME StorageInv, [PipeNext]_pipeVars
  PROVE  StorageInv'
<1>0. EmitterInv /\ load \in AllLoads
  BY Zenon DEF StorageInv
<1>a. load' \in AllLoads /\ load'.unary = load.unary
  BY <1>0, LoadKept, Zenon
<1>1. CASE UNCHANGED pipeVars
  <2>1. UNCHANGED <<backend, db, call, draft, mu, got>> /\ at' = at /\ owner' = owner
    BY <1>1, Zenon DEF pipeVars, vars, emitter
  <2>2. EmitterInv'
    BY <1>0, <2>1, Zenon DEF EmitterInv
  <2> QED
    BY <1>a, <2>1, <2>2, RepositoryKept, Zenon
<1>2. CASE StorageNext /\ UNCHANGED emitter
  <2>1. EmitterInv'
    BY <1>0, <1>2, Zenon DEF EmitterInv, emitter
  <2>2. \E c \in Clients : Stepped(c)
    <3>1. Handlers \subseteq Clients
      BY PipelineAssumption, Zenon
    <3> QED
      BY <1>a, <1>2, <3>1, RunStep, StatementFailsStep, NewCallStep, StartedStep, Zenon
         DEF StorageNext
  <2> QED
    BY <1>a, <2>1, <2>2, SteppedKeeps, Zenon
<1>3. CASE EmitterNext
  <2>1. EmitterInv'
    BY <1>0, <1>3, EmitterStep, Zenon
  <2>2. CASE \E e \in Events : ApplyEvent(e)
    <3>1. Stepped(Reporter) /\ Reporter \in Clients
      BY <1>a, <2>2, ApplyEventStep, StartedStep, PipelineAssumption, Zenon
    <3> QED
      BY <1>a, <2>1, <3>1, SteppedKeeps, Zenon
  <2>3. CASE ~\E e \in Events : ApplyEvent(e)
    <3>1. UNCHANGED <<backend, db, call, draft, mu, got>>
      BY <1>3, <2>3, Zenon DEF EmitterNext, EmitCheck, EmitSend, Take, EventApplied, Shutdown,
         Tick, BeginShutdown, Flush, Answer, ReportFails, vars
    <3> QED
      BY <1>a, <2>1, <3>1, RepositoryKept, Zenon
  <2> QED
    BY <2>2, <2>3, Zenon
<1> QED
  BY <1>1, <1>2, <1>3, Zenon DEF PipeNext

LEMMA StorageInitial ==
  ASSUME PipeInit
  PROVE  StorageInv
<1>0. Init /\ backend \in {"memory", "postgres"} /\ db = EmptyTables
  BY Zenon DEF PipeInit, Init
<1>1. db = [r \in Rows |-> db[r]]
  <2> DEFINE Empty(r) == CASE r[1] \in {"session", "rav"} -> NoRow
                           [] r[1] \in {"usage", "quota"} -> 0
                           [] r[1] = "collection" -> NoCollection
                           [] r[1] = "worker" -> NoWorker
  <2>1. db = [r \in Rows |-> Empty(r)]
    BY <1>0, Zenon DEF EmptyTables
  <2> HIDE DEF Empty
  <2> QED
    BY <2>1, Zenon
<1>2. \A s \in Sessions : S(s) = NoRow /\ RV(s) = NoRow /\ U(s) = 0
                          /\ C(s) = NoCollection
  BY <1>0, Zenon DEF EmptyTables, Rows, S, RV, U, C, SessionRow, RAVRow, UsageRows, CollectionRow
<1>3. (\A k \in Keys : W(k) = NoWorker) /\ (\A p \in Payers : Q(p) = 0)
  BY <1>0, Zenon DEF EmptyTables, Rows, W, Q, WorkerRow, QuotaRow
<1>4. NoCollection \in CollectionRecord
  BY Zenon DEF NoCollection, CollectionRecord, CollectionStates
<1>5. Tables
  BY <1>1, <1>2, <1>3, <1>4 DEF Tables
<1>6. \A c \in Clients : /\ call[c] = Idle /\ draft[c] = Nothing /\ got[c] = NoSession
                         /\ DOMAIN draft[c] = {}
  BY <1>0, EmptyDraft, Zenon DEF Init
<1>7. StorageTypes
  <2>1. call \in [Clients -> Calls]
    BY <1>0, IdleType, Zenon DEF Init
  <2>2. draft = [c \in Clients |-> draft[c]] /\ mu = NoRow
    BY <1>0, Zenon DEF Init
  <2>3. got \in [Clients -> Session \cup {NoSession}]
    BY <1>0, Zenon DEF Init
  <2>4. \A c \in Clients : DOMAIN draft[c] \subseteq Rows
    BY <1>6, Zenon
  <2> QED
    BY <1>0, <1>5, <2>1, <2>2, <2>3, <2>4, Zenon DEF StorageTypes
<1>8. \A c \in Clients : call[c].kind = "idle" /\ call[c].step = "idle"
  BY <1>6, IdleType, Zenon
<1>9. Locks /\ OneRAV
  BY <1>6, <1>8, Zenon DEF Locks, OneRAV
<1>10. Books
  BY <1>2, Zenon DEF Books, Covered
<1>11. ASSUME NEW c \in Clients
       PROVE  CallInv(c)
  <2>1. ArgsInv(c) /\ RAVInv(c) /\ GetInv(c) /\ MuInv(c)
    BY <1>8, Zenon DEF ArgsInv, RAVInv, GetInv, MuInv
  <2>2. StepInv(c)
    BY <1>8, Zenon DEF StepInv
  <2>3. DraftInv(c)
    BY <1>6, <1>8, Zenon DEF DraftInv
  <2>4. GotInv(c)
    BY <1>6, Zenon DEF GotInv
  <2> QED
    BY <2>1, <2>2, <2>3, <2>4, Zenon DEF CallInv
<1>12. EmitterInv
  BY Zenon DEF PipeInit, EmitterInv
<1>13. mu = NoRow /\ load \in AllLoads
  BY <1>0, StorageAssumption, Zenon DEF Init
<1> QED
  BY <1>7, <1>9, <1>10, <1>11, <1>12, <1>13, Zenon DEF StorageInv

\* The statements, transactions and swaps of both backends keep the tables,
\* locks and drafts consistent with the calls that run.
THEOREM StorageInvariant == PipeSpec => []StorageInv
<1>1. PipeInit => StorageInv
  BY StorageInitial, Zenon
<1> QED
  BY <1>1, StorageInductive, PTL DEF PipeSpec

\* SessionGet never returns an old RAV with a new baseline, although Postgres
\* reads the two in separate queries with other transactions between them.
THEOREM ReadsCoverBaseline == PipeSpec => []ReadCoversBaseline
<1>1. StorageInv => ReadCoversBaseline
  BY Zenon DEF StorageInv, CallInv, GotInv, Pays, ReadCoversBaseline
<1> QED
  BY <1>1, StorageInvariant, PTL

\* A session row stands for a session of the repository, with the latest RAV
\* joined in.
SessionView ==
  \A s \in Sessions :
    /\ StoredSession(s) = IF S(s) = NoRow THEN NoSession ELSE ToSession(S(s), RV(s))
    /\ (StoredSession(s) = NoSession) <=> (S(s) = NoRow)

LEMMA SessionViewed == StorageInv => SessionView
<1> SUFFICES ASSUME StorageInv, NEW s \in Sessions
             PROVE  /\ StoredSession(s) = IF S(s) = NoRow THEN NoSession
                                          ELSE ToSession(S(s), RV(s))
                    /\ (StoredSession(s) = NoSession) <=> (S(s) = NoRow)
  BY Zenon DEF SessionView
<1>1. S(s) \in SessionRows \cup {NoRow} /\ RV(s) \in Values \cup {NoRow}
  BY Zenon DEF StorageInv, StorageTypes, Tables
<1>2. S(s) # NoRow => ToSession(S(s), RV(s)) \in Session
  BY <1>1, ToSessionType, Zenon
<1> QED
  BY <1>2, NoRowIsNone, Zenon DEF StoredSession, S, RV

=============================================================================
