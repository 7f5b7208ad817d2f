------------------------------ MODULE Storage ------------------------------
(***************************************************************************)
(* The two backends of the provider repository, statement by statement:    *)
(* the in-memory one (provider/repository), whose writes swap one map      *)
(* entry at a time under its mutexes, and Postgres (provider/repository/   *)
(* psql), whose writes are single statements or transactions of several.   *)
(* The backend is chosen at start (the repository DSN).                    *)
(*                                                                         *)
(* db maps row names to rows.  A Postgres transaction collects its writes  *)
(* in draft and holds the lock of every row it wrote or selected for       *)
(* update until it commits or rolls back; a statement on a row that is     *)
(* locked waits, and then sees the row as committed (READ COMMITTED).  The *)
(* in-memory backend writes db directly.  Clients are the handlers that    *)
(* call the repository, one call at a time each.                           *)
(***************************************************************************)
EXTENDS SessionStore, CollectionLifecycle, WorkerStore

CONSTANTS
  Clients,      \* concurrent callers
  Sessions,     \* session ids
  NoSession,    \* no session is stored under the id
  Keys,         \* worker keys
  Payers,       \* payers
  MaxWorkers,   \* the limit reservations are checked against
  Values,       \* RAV values
  Costs,        \* costs of usage events
  NoRow,        \* no row
  Loads,        \* the loads explored (see AllLoads)
  MaxFailures   \* bound on failed statements and reports

\* A session's own row; its RAV is a row of another table.
SessionRows == [status : SessionStatuses, total : Nat, base : Nat]

\* How often each kind of call is made, how many events are metered, whether
\* the emitter shuts down, and whether RAVs come by SubmitRAV (unary) or on the
\* session's stream.
CallKinds ==
  {"create", "rav", "runtime", "reserve", "delete", "decrement", "mark", "get"}

AllLoads == [calls : [CallKinds -> Nat], events : Nat,
             shutdowns : Nat, unary : BOOLEAN]

ASSUME StorageAssumption ==
  /\ MaxWorkers \in Nat /\ MaxFailures \in Nat
  /\ Loads \subseteq AllLoads
  /\ Values \subseteq Nat /\ Costs \subseteq Nat
  /\ NoRow \notin Nat \cup Clients \cup SessionRows
  /\ NoSession \notin Session
  /\ NoWorker \notin [session : Sessions, payer : Payers]

VARIABLES
  backend,   \* "memory" or "postgres"
  db,        \* the stored rows, by row name
  call,      \* per client: the call it makes
  draft,     \* per client: the rows its transaction has written
  mu,        \* the client that holds collectionMu (memory)
  got,       \* per client: the session its last SessionGet returned
  load,      \* what may still start
  failures   \* failed statements and reports

vars == <<backend, db, call, draft, mu, got, load, failures>>

SessionRow(s) == <<"session", s>>
RAVRow(s) == <<"rav", s>>
UsageRows(s) == <<"usage", s>>
CollectionRow(s) == <<"collection", s>>
WorkerRow(k) == <<"worker", k>>
QuotaRow(p) == <<"quota", p>>

Rows ==
  ({"session", "rav", "usage", "collection"} \X Sessions)
    \cup ({"worker"} \X Keys) \cup ({"quota"} \X Payers)

EmptyTables ==
  [r \in Rows |-> CASE r[1] \in {"session", "rav"} -> NoRow
                   [] r[1] \in {"usage", "quota"} -> 0
                   [] r[1] = "collection" -> NoCollection
                   [] r[1] = "worker" -> NoWorker]

Nothing == [r \in {} |-> NoRow]

\* A call has the arguments of its kind; row and next are what it has read and
\* computed so far.
Idle ==
  [kind |-> "idle", step |-> "idle", s |-> NoSession, v |-> NoRow, base |-> 0,
   cost |-> 0, status |-> "none", k |-> NoRow, p |-> NoRow, to |-> "none",
   row |-> NoRow, next |-> NoCollection]

Call(kind, step) == [Idle EXCEPT !.kind = kind, !.step = step]

Init ==
  /\ backend \in {"memory", "postgres"}
  /\ db = EmptyTables
  /\ call = [c \in Clients |-> Idle]
  /\ draft = [c \in Clients |-> Nothing]
  /\ mu = NoRow
  /\ got = [c \in Clients |-> NoSession]
  /\ load \in Loads
  /\ failures = 0

-----------------------------------------------------------------------------
(* Sessions are stored in two rows: the session's own and its RAV's.        *)

NewSessionRow == [status |-> "active", total |-> 0, base |-> 0]

\* toRepository: the session a pair of rows stands for.
ToSession(row, rav) ==
  [status |-> row.status, hasRAV |-> rav # NoRow,
   rav |-> IF rav = NoRow THEN 0 ELSE rav,
   total |-> row.total, base |-> row.base]

StoredSession(s) ==
  IF db[SessionRow(s)] = NoRow THEN NoSession
  ELSE ToSession(db[SessionRow(s)], db[RAVRow(s)])

-----------------------------------------------------------------------------
(* Statements and transactions of Postgres.                                 *)

Locked(r, c) == \E d \in Clients \ {c} : r \in DOMAIN draft[d]

\* The row as the transaction sees it.
Row(c, r) == IF r \in DOMAIN draft[c] THEN draft[c][r] ELSE db[r]

Step(c, label) == call' = [call EXCEPT ![c].step = label]

Done(c) == call' = [call EXCEPT ![c] = Idle]

\* A statement of a transaction writes row r once its lock is free.
Write(c, r, value) ==
  /\ ~Locked(r, c)
  /\ draft' = [draft EXCEPT ![c] = [x \in DOMAIN @ \cup {r} |->
                                      IF x = r THEN value ELSE draft[c][x]]]

\* Mutant: the transaction stays open when a statement is refused.
RollbackForgotten(c) == Done(c) /\ UNCHANGED draft

Rollback(c) ==
  /\ draft' = [draft EXCEPT ![c] = Nothing]
  /\ Done(c)

\* A statement outside a transaction is its own.
Execute(c, r, value) ==
  /\ ~Locked(r, c)
  /\ db' = [db EXCEPT ![r] = value]
  /\ Done(c)

\* Mutant: the last statement's row is left out of the commit.
CommitSessionOnly(c) ==
  /\ db' = [r \in DOMAIN db |->
              IF r \in DOMAIN draft[c] /\ r[1] # "collection"
              THEN draft[c][r] ELSE db[r]]
  /\ draft' = [draft EXCEPT ![c] = Nothing]

CommitRows(c) ==
  /\ db' = [r \in DOMAIN db |->
              IF r \in DOMAIN draft[c] THEN draft[c][r] ELSE db[r]]
  /\ draft' = [draft EXCEPT ![c] = Nothing]

Commit(c) ==
  /\ call[c].step = "commit"
  /\ CommitRows(c)
  /\ Done(c)
  /\ UNCHANGED <<backend, mu, got, load, failures>>

\* A statement or the commit fails: the deferred rollback undoes the rest.
StatementFails(c) ==
  /\ backend = "postgres"
  /\ call[c].kind # "idle"
  /\ failures < MaxFailures
  /\ failures' = failures + 1
  /\ Rollback(c)
  /\ UNCHANGED <<backend, db, mu, got, load>>

Kept == UNCHANGED <<backend, mu, got, load, failures>>
KeptTx == Kept /\ UNCHANGED db

-----------------------------------------------------------------------------
(* Calls.  A client starts one; the backend then runs it.                   *)

Request(c, request) ==
  /\ call[c] = Idle
  /\ call' = [call EXCEPT ![c] = request]
  /\ UNCHANGED <<backend, db, draft, mu, got, failures>>

Start(c, request) ==
  /\ load.calls[request.kind] > 0
  /\ load' = [load EXCEPT !.calls[request.kind] = @ - 1]
  /\ Request(c, request)

\* The usage service applies a metering event (see UsagePipeline).
RequestUsage(c, s, cost) ==
  /\ Request(c, [Call("usage", "session") EXCEPT !.s = s, !.cost = cost])
  /\ UNCHANGED load

\* StartSession creates a session, with the initial RAV if there is one.
CallCreate(c) ==
  \E s \in Sessions, v \in Values \cup {NoRow} :
    Start(c, [Call("create", "session") EXCEPT !.s = s, !.v = v])

\* The payment handlers read the session, check the RAV and write it with the
\* baseline it pays for.  A PaymentSession stream does so under the session's
\* evaluation lock: the writes of a session do not overlap, and the RAV is at
\* least the stored one and covers the baseline.
UnderSessionEval(s, v, base) ==
  /\ \A d \in Clients : call[d].kind = "rav" => call[d].s # s
  /\ v >= StoredSession(s).rav
  /\ v >= base

\* SubmitRAV takes no lock: its writes may overlap, each checked against a
\* session that is stale by then.
CallRAV(c) ==
  \E s \in Sessions, v \in Values :
    /\ StoredSession(s) # NoSession
    /\ \E base \in 0 .. StoredSession(s).total :
         /\ load.unary \/ UnderSessionEval(s, v, base)
         /\ Start(c, [Call("rav", "session") EXCEPT !.s = s, !.v = v, !.base = base])

\* The assessment of the session's funds is persisted.
CallRuntimeState(c) ==
  \E s \in Sessions, status \in SessionStatuses :
    Start(c, [Call("runtime", "one") EXCEPT !.s = s, !.status = status])

CallReserve(c) ==
  \E k \in Keys, s \in Sessions, p \in Payers :
    Start(c, [Call("reserve", "quota") EXCEPT !.k = k, !.s = s, !.p = p])

CallDelete(c) ==
  \E k \in Keys : Start(c, [Call("delete", "one") EXCEPT !.k = k])

CallDecrement(c) ==
  \E p \in Payers : Start(c, [Call("decrement", "one") EXCEPT !.p = p])

\* The operator API marks a record it read earlier: it expects value v.
CallMark(c) ==
  \E s \in Sessions, v \in Values,
     to \in {"collect_pending", "collected", "collect_failed_retryable"} :
    Start(c, [Call("mark", "one") EXCEPT !.s = s, !.v = v, !.to = to])

CallGet(c) ==
  \E s \in Sessions :
    Start(c, [Call("get", "session") EXCEPT !.s = s])

-----------------------------------------------------------------------------
(* Single statements, the same in both backends.                            *)

\* update_runtime_state.sql; SessionUpdateRuntimeState
UpdateRuntimeState(c) ==
  LET r == SessionRow(call[c].s) IN
  /\ call[c].kind = "runtime"
  /\ \/ /\ db[r] = NoRow
        /\ Done(c)
        /\ UNCHANGED db
     \/ /\ db[r] # NoRow
        /\ Execute(c, r, WithRuntimeState(db[r], call[c].status))
  /\ Kept /\ UNCHANGED draft

\* delete.sql; WorkerDelete, which in memory reports a missing row
DeleteWorker(c) ==
  /\ call[c].kind = "delete"
  /\ Execute(c, WorkerRow(call[c].k), NoWorker)
  /\ Kept /\ UNCHANGED draft

\* decrement.sql; QuotaDecrement
DecrementQuota(c) ==
  LET r == QuotaRow(call[c].p) IN
  /\ call[c].kind = "decrement"
  /\ Execute(c, r, Decrement(db, r, 1)[r])
  /\ Kept /\ UNCHANGED draft

\* The record after the marking statement, or the same one where its WHERE
\* clause does not match.
Marked(rec, v, to) ==
  IF to = "collect_pending" /\ CanMarkPending(rec, v) THEN MarkedPending(rec)
  ELSE IF to = "collected" /\ CanMarkCollected(rec, v) THEN MarkedCollected(rec)
  ELSE IF to = "collect_failed_retryable" /\ CanMarkFailedRetryable(rec, v)
  THEN MarkedFailedRetryable(rec)
  ELSE rec

\* mark_*.sql; updateCollection, under collectionMu
MarkCollection(c) ==
  LET r == CollectionRow(call[c].s) IN
  /\ call[c].kind = "mark"
  /\ mu = NoRow
  /\ Execute(c, r, Marked(db[r], call[c].v, call[c].to))
  /\ Kept /\ UNCHANGED draft

-----------------------------------------------------------------------------
(* Transactions of Postgres.                                                *)

\* create.sql: alone, or the first statement of sessionCreateWithRAVTx.
PgCreate(c) ==
  LET r == SessionRow(call[c].s) IN
  /\ backend = "postgres"
  /\ call[c].kind = "create" /\ call[c].step = "session"
  /\ ~Locked(r, c)
  /\ \/ /\ db[r] # NoRow
        /\ Rollback(c)
        /\ UNCHANGED db
     \/ /\ db[r] = NoRow /\ call[c].v = NoRow
        /\ Execute(c, r, NewSessionRow)
        /\ UNCHANGED draft
     \/ /\ db[r] = NoRow /\ call[c].v # NoRow
        /\ Write(c, r, NewSessionRow)
        /\ Step(c, "rav")
        /\ UNCHANGED db
  /\ Kept

\* The first statement of an update: not found, or the row is written.
PgUpdate(c, row, next) ==
  LET r == SessionRow(call[c].s) IN
  /\ backend = "postgres"
  /\ call[c].step = "session"
  /\ \/ /\ db[r] = NoRow
        /\ Rollback(c)
     \/ /\ db[r] # NoRow
        /\ Write(c, r, row)
        /\ Step(c, next)
  /\ KeptTx

\* apply_usage.sql adds to the row as it is.
PgApplyUsage(c) ==
  /\ call[c].kind = "usage"
  /\ PgUpdate(c, AddUsage(db[SessionRow(call[c].s)], call[c].cost), "usage")

\* update_rav_baseline.sql sets the baseline columns.
PgUpdateBaseline(c) ==
  /\ call[c].kind = "rav"
  /\ PgUpdate(c, [db[SessionRow(call[c].s)] EXCEPT !.base = call[c].base], "rav")

\* usage/add.sql
PgAddUsage(c) ==
  LET r == UsageRows(call[c].s) IN
  /\ backend = "postgres"
  /\ call[c].step = "usage"
  /\ Write(c, r, Row(c, r) + call[c].cost)
  /\ Step(c, "commit")
  /\ KeptTx

\* upsert_rav.sql
PgUpsertRAV(c) ==
  /\ call[c].step = "rav"
  /\ Write(c, RAVRow(call[c].s), call[c].v)
  /\ Step(c, "collection")
  /\ KeptTx

\* collectionCreateOrUpdateCollectibleTx: a conflict undoes the transaction.
PgUpsertCollectible(c) ==
  LET r == CollectionRow(call[c].s) IN
  /\ backend = "postgres"
  /\ call[c].step = "collection"
  /\ ~Locked(r, c)
  /\ \/ /\ CollectionConflict(Row(c, r), call[c].v)
        /\ Rollback(c)
     \/ /\ ~CollectionConflict(Row(c, r), call[c].v)
        /\ Write(c, r, NextCollectible(Row(c, r), call[c].v))
        /\ Step(c, "commit")
  /\ KeptTx

\* get_for_update.sql locks the counter; a full one ends the transaction.
PgLockQuota(c) ==
  LET r == QuotaRow(call[c].p) IN
  /\ backend = "postgres"
  /\ call[c].step = "quota"
  /\ ~Locked(r, c)
  /\ \/ /\ Exceeds(db, r, 1, MaxWorkers)
        /\ Rollback(c)
     \/ /\ ~Exceeds(db, r, 1, MaxWorkers)
        /\ Write(c, r, db[r])
        /\ Step(c, "worker")
  /\ KeptTx

\* worker/create.sql: the key must be new and the session must exist.
PgCreateWorker(c) ==
  LET r == WorkerRow(call[c].k) IN
  /\ backend = "postgres"
  /\ call[c].step = "worker"
  /\ ~Locked(r, c)
  /\ \/ /\ db[r] # NoWorker \/ db[SessionRow(call[c].s)] = NoRow
        /\ Rollback(c)
     \/ /\ db[r] = NoWorker /\ db[SessionRow(call[c].s)] # NoRow
        /\ Write(c, r, Worker(call[c].s, call[c].p))
        /\ Step(c, "increment")
  /\ KeptTx

\* quota/increment.sql
PgIncrementQuota(c) ==
  LET r == QuotaRow(call[c].p) IN
  /\ call[c].step = "increment"
  /\ Write(c, r, Row(c, r) + 1)
  /\ Step(c, "commit")
  /\ KeptTx

\* Mutant: the RAV is read before the session it belongs to.
PgGetRAVFirst(c) ==
  /\ call[c].kind = "get"
  /\ backend = "postgres"
  /\ \/ /\ call[c].step = "session"
        /\ call' = [call EXCEPT ![c] =
                      [@ EXCEPT !.step = "rows", !.row = db[RAVRow(call[c].s)]]]
        /\ UNCHANGED got
     \/ /\ call[c].step = "rows"
        /\ got' = [got EXCEPT ![c] =
                     IF db[SessionRow(call[c].s)] = NoRow THEN NoSession
                     ELSE ToSession(db[SessionRow(call[c].s)], call[c].row)]
        /\ Done(c)
  /\ UNCHANGED <<backend, db, draft, mu, load, failures>>

\* SessionGet: two queries, with the transactions of others between them.
PgGet(c) ==
  LET r == SessionRow(call[c].s) IN
  /\ call[c].kind = "get"
  /\ backend = "postgres"
  /\ \/ /\ call[c].step = "session" /\ db[r] = NoRow
        /\ got' = [got EXCEPT ![c] = NoSession]
        /\ Done(c)
     \/ /\ call[c].step = "session" /\ db[r] # NoRow
        /\ call' = [call EXCEPT ![c] = [@ EXCEPT !.step = "rows", !.row = db[r]]]
        /\ UNCHANGED got
     \/ /\ call[c].step = "rows"
        /\ got' = [got EXCEPT ![c] =
                     ToSession(call[c].row, db[RAVRow(call[c].s)])]
        /\ Done(c)
  /\ UNCHANGED <<backend, db, draft, mu, load, failures>>

-----------------------------------------------------------------------------
(* The in-memory backend: each step below swaps one map entry.              *)

\* collectionNextCollectibleLocked, under collectionMu
MemLock(c) ==
  LET rec == db[CollectionRow(call[c].s)] IN
  /\ backend = "memory"
  /\ call[c].kind \in {"create", "rav"} /\ call[c].step = "session"
  /\ call[c].v # NoRow
  /\ mu = NoRow
  /\ \/ /\ CollectionConflict(rec, call[c].v)
        /\ Done(c)
        /\ UNCHANGED mu
     \/ /\ ~CollectionConflict(rec, call[c].v)
        /\ mu' = c
        /\ call' = [call EXCEPT ![c] =
                      [@ EXCEPT !.step = "swap",
                                !.next = NextCollectible(rec, call[c].v)]]
  /\ UNCHANGED <<backend, db, draft, got, load, failures>>

\* The session entry holds its RAV, so both change in one swap.
MemSwap(c) ==
  LET s == call[c].s
      r == SessionRow(s)
      refused == (call[c].kind = "create") # (db[r] = NoRow)
      row == IF call[c].kind = "create" THEN NewSessionRow
             ELSE [db[r] EXCEPT !.base = call[c].base]
  IN
  /\ backend = "memory"
  /\ call[c].step = "swap"
  /\ \/ /\ refused
        /\ mu' = NoRow
        /\ Done(c)
        /\ UNCHANGED db
     \/ /\ ~refused
        /\ db' = [db EXCEPT ![r] = row, ![RAVRow(s)] = call[c].v]
        /\ Step(c, "set")
        /\ UNCHANGED mu
  /\ UNCHANGED <<backend, draft, got, load, failures>>

\* records.Set, then the deferred unlock.
MemSetRecord(c) ==
  /\ call[c].step = "set"
  /\ db' = [db EXCEPT ![CollectionRow(call[c].s)] = call[c].next]
  /\ mu' = NoRow
  /\ Done(c)
  /\ UNCHANGED <<backend, draft, got, load, failures>>

\* SessionCreate without a RAV
MemCreate(c) ==
  LET r == SessionRow(call[c].s) IN
  /\ backend = "memory"
  /\ call[c].kind = "create" /\ call[c].v = NoRow
  /\ db' = [db EXCEPT ![r] = IF @ = NoRow THEN NewSessionRow ELSE @]
  /\ Done(c)
  /\ Kept /\ UNCHANGED draft

\* SessionApplyUsage: swap the session, then append to the log.
MemApplyUsage(c) ==
  LET r == SessionRow(call[c].s) IN
  /\ backend = "memory"
  /\ call[c].kind = "usage"
  /\ \/ /\ call[c].step = "session" /\ db[r] = NoRow
        /\ Done(c)
        /\ UNCHANGED db
     \/ /\ call[c].step = "session" /\ db[r] # NoRow
        /\ db' = [db EXCEPT ![r] = AddUsage(db[r], call[c].cost)]
        /\ Step(c, "usage")
     \/ /\ call[c].step = "usage"
        /\ db' = [db EXCEPT ![UsageRows(call[c].s)] = @ + call[c].cost]
        /\ Done(c)
  /\ Kept /\ UNCHANGED draft

\* WorkerCreateAndReserveQuota, under mu
MemReserve(c) ==
  LET q == QuotaRow(call[c].p)
      w == WorkerRow(call[c].k)
      refused == db[w] # NoWorker \/ Exceeds(db, q, 1, MaxWorkers)
  IN
  /\ backend = "memory"
  /\ call[c].kind = "reserve"
  /\ db' = IF refused THEN db
           ELSE [Increment(db, q, 1) EXCEPT ![w] = Worker(call[c].s, call[c].p)]
  /\ Done(c)
  /\ Kept /\ UNCHANGED draft

MemGet(c) ==
  /\ backend = "memory"
  /\ call[c].kind = "get"
  /\ got' = [got EXCEPT ![c] = StoredSession(call[c].s)]
  /\ Done(c)
  /\ UNCHANGED <<backend, db, draft, mu, load, failures>>

-----------------------------------------------------------------------------
NewCall(c) ==
  \/ CallCreate(c) \/ CallRAV(c) \/ CallRuntimeState(c) \/ CallReserve(c)
  \/ CallDelete(c) \/ CallDecrement(c) \/ CallMark(c)
  \/ CallGet(c)

Run(c) ==
  \/ UpdateRuntimeState(c) \/ DeleteWorker(c) \/ DecrementQuota(c)
  \/ MarkCollection(c)
  \/ PgCreate(c) \/ PgApplyUsage(c) \/ PgUpdateBaseline(c) \/ PgAddUsage(c)
  \/ PgUpsertRAV(c) \/ PgUpsertCollectible(c) \/ PgLockQuota(c)
  \/ PgCreateWorker(c) \/ PgIncrementQuota(c) \/ Commit(c) \/ PgGet(c)
  \/ MemLock(c) \/ MemSwap(c) \/ MemSetRecord(c) \/ MemCreate(c)
  \/ MemApplyUsage(c) \/ MemReserve(c) \/ MemGet(c)

-----------------------------------------------------------------------------
(* The repository the backends implement.  In memory a call takes effect    *)
(* with its first swap; what it still has to write counts as written.       *)

Unwritten(s) == {c \in Clients : call[c].step = "set" /\ call[c].s = s}

Unlogged(s) ==
  {c \in Clients : backend = "memory" /\ call[c].step = "usage"
                                     /\ call[c].s = s}

EffectiveCollection(s) ==
  IF Unwritten(s) = {} THEN db[CollectionRow(s)]
  ELSE call[CHOOSE c \in Unwritten(s) : TRUE].next

EffectiveUsage(s) ==
  IF Unlogged(s) = {} THEN db[UsageRows(s)]
  ELSE db[UsageRows(s)] + call[CHOOSE c \in Unlogged(s) : TRUE].cost

R == INSTANCE Repository WITH
       sessions    <- [s \in Sessions |-> StoredSession(s)],
       usage       <- [s \in Sessions |-> EffectiveUsage(s)],
       collections <- [s \in Sessions |-> EffectiveCollection(s)],
       workers     <- [k \in Keys |-> db[WorkerRow(k)]],
       quota       <- [p \in Payers |-> db[QuotaRow(p)]]

-----------------------------------------------------------------------------
(* Properties.                                                              *)

\* Both backends implement the atomic repository the other modules assume:
\* every interleaving of statements, swaps and rollbacks is a sequence of whole
\* writes.  The accepted RAV and its settlement record move together, a
\* session's cost is that of its usage log, and reservations that race for the
\* last slot of a payer never pass the limit.
ImplementsRepository == R!Spec

\* SessionGet may mix two states of a session, but where RAVs come on the
\* session's stream it never mixes an old RAV with a new baseline: the RAV it
\* returns covers the usage it reports as paid for.  SubmitRAV, which takes no
\* lock, does not keep this: a smaller RAV may be stored last.
ReadCoversBaseline ==
  ~load.unary =>
    \A c \in Clients : got[c] # NoSession => got[c].rav >= got[c].base

\* No set of callers waits for each other: every call ends.
CallsEnd == \A c \in Clients : call[c] # Idle ~> call[c] = Idle
=============================================================================
