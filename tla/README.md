# Verification of the Substreams Data Service

TLA+ models of this repository: how a consumer finds a provider and is let in,
how a stream is served and metered, how the provider is paid for it with signed
RAVs (receipt aggregate vouchers: one cumulative amount per session), and how
RAVs are settled on chain.  TLC checks the models on small instances; TLAPS
proves central safety properties for all values of the constants.

## The system

| component | state | operations | module |
|---|---|---|---|
| payment runtime (`provider/gateway/runtime_manager.go`, `handler_payment_session.go`) | per session: bound stream channel, in-flight RAV request, queued response, `evalMu` | bind, unbind, evaluate metered usage, dispatch, accept a RAV, funds acknowledgment | `PaymentRuntime` |
| `SubmitRAV` (`handler_submit_rav.go`) | none | accept a RAV outside a stream | `PaymentRuntime` |
| session repository (`provider/repository`, `psql`) | sessions, workers, quotas, usage, settlement records | create, apply usage, update, reserve, lifecycle marks, read | `SessionStore`, `WorkerStore`, `CollectionLifecycle`, `Repository`, `Storage` |
| workers and quotas (`provider/session`), session plugin (`provider/plugin/session.go`) | worker rows, counters, pool of sessions, keep-alive goroutines | borrow, return, keep alive, release | `WorkerPool` |
| metering plugin (`provider/plugin/metering.go`), usage service (`provider/usage`) | buffer, active batch | emit, tick, flush, shut down, `Report` | `UsagePipeline` |
| collect daemon and collect command (`cmd/sds/provider_operator_collect*.go`) | records of a sweep | sweep, collect one, reclaim | `Settlement` |
| chain client (`contracts/chain`) | none | estimate, send a transaction, wait for the receipt | `Settlement`, `PayerCommands` |
| payer commands (`cmd/sds/consumer_funding.go`, `consumer_signer.go`) | none | approve, deposit, top up, authorize, thaw, revoke, status | `PayerCommands`, `Amounts` |
| oracle and discovery (`oracle`, `consumer/sidecar/discovery.go`) | the catalog | parse, discover, name a network, price ceiling | `Discovery` |
| session start, authentication (`handler_start_session.go`, `provider/auth`, `provider/plugin/auth*.go`, `managed_session.go`, `handler_init.go`, `handler_end_session.go`) | sessions of both sides, two 30 s caches of signer authorizations | bootstrap, start, validate, end | `Admission` |
| consumer payment client (`payment_session_manager.go`) | stream, its generation, bound and binding session | bind, send, receive, close | `PaymentSessionClient` |
| consumer ingress (`ingress.go`) | termination result, payment-control flag | proxy a stream, run payment control, decide how it ended | `Ingress` |
| operator API and its commands (`handler_operator.go`, `operator_metrics.go`, `cmd/sds/provider_operator*.go`) | none | list, get, metrics, mark pending / collected / retryable | `OperatorAPI`, `Settlement` |
| start-up of gateway and sidecar (`cmd/sds/impl`, `consumer_sidecar.go`) | none | accept or refuse a configuration | `Processes` |

What is hard here: the runtime manager's state objects are deleted and created
again while goroutines hold them; decisions are taken on snapshots read before
a chain call, a lock or a second query; streams, reports and unary calls
interleave; the data plane is another process whose calls are lost; settlement
and the payer's commands run in processes that crash, lose responses and time
out while transactions may still be mined.  `PROJECT.json` lists these hazards
at their lines.

What makes each part correct: the runtime never counts usage as paid that the
stored RAV does not pay for, asks for one RAV at a time, never loses control
state, and never reopens a terminated session; both storage backends are the
atomic repository the handlers assume; a payer's counter is its live workers up
to what is known to disturb it; metered usage is billed at most once; a
settlement record never claims a payment that did not happen, is attempted a
bounded number of times and is not forgotten; a consumer stream that ended is
reported with the right cause, with no payment request under way, and leaves
nothing behind; who is let in was entitled to it, and a command did what it reports.

## Modules

| module | models |
|---|---|
| `SessionStore` | the stored session and the repository's writes to it, as functions of the record |
| `WorkerStore` | worker rows and counters, likewise |
| `CollectionLifecycle` | the settlement record and its guarded transitions |
| `Repository` | abstract: what the repository promises, one atomic step per write |
| `Storage` | the in-memory and the Postgres backend, one step per map swap or SQL statement; implements `Repository` |
| `UsagePipeline` | metering plugin and usage service over `Storage` |
| `WorkerPool` | session plugin, worker service and quotas over `WorkerStore` |
| `PaymentRuntime` | runtime manager, PaymentSession streams, usage reports, SubmitRAV; composes `SessionStore` and `CollectionLifecycle` |
| `PaymentLedger` | abstract: what the payment runtime promises about a session's books |
| `Settlement` | collect daemon, manual collect, chain; uses `CollectionLifecycle` |
| `PaymentSessionClient` | the consumer's payment client |
| `Ingress` | proxy, payment control and termination coordinator over the client |
| `Amounts`, `PayerCommands` | the payer's commands, the chain client and the chain they see |
| `Discovery`, `Processes` | pure: catalog, network names, prices; start-up checks |
| `Admission` | bootstrap, StartSession, authentication; composes `PayerCommands`, `Discovery`, `Processes` |
| `OperatorAPI` | the operator's API and commands over `Admission`'s sessions and `CollectionLifecycle` |
| `PaymentRuntimeProofs` | theorems: types, accounts, termination, control state |
| `PaymentRuntimeLedger`, `PaymentRuntimeRequests` | theorems, each on top of the one before: refinement of `PaymentLedger`, requests in flight |
| `UsagePipelineProofs`, `UsagePipelineRefinement` | theorems: the invariant of both backends, then their refinement of `Repository` |
| `SettlementProofs`, `WorkerPoolProofs`, `IngressProofs` | theorems |
| `MC*` | constants, scenarios and symmetry for TLC |

**PaymentRuntime.**  Each goroutine is a thread with a `pc`: `Meters` (usage
reports), `Streams` (PaymentSession calls), `Unaries` (SubmitRAV calls).  A
step is one critical section of the manager's `mu`, one repository call, one
channel operation or one acquisition of an `evalMu`.  `runtimeSessionState`
objects are addresses of a small heap (`States`); `live` is the one in the
manager's map and `ref[t]` the one a thread holds.  `snap[t]` is the session a
thread read, which may be stale.  `chan`, `inbox` and `sub` are a stream's event
channel, the requests the consumer has received and its message in flight.
The response's identity, which `clearQueuedResponse` compares, is the thread
that made it (`by`).  The escrow balance is read from the chain and may be any
of `Balances`, or unknown.

Data is reduced to what the properties tell apart: usage is its cost, a RAV is
its value, and a RAV that fails any validity check (signature, signer
authorization, parties, collection) is of kind `invalid`.  `RepoFails` lets any
repository or chain call fail, the signer check of a submission included.  A session's
`paused` status is never written by the code and is left out.  A session is
read in one step, as in the in-memory repository; `Storage` has the two queries
of Postgres.

**Settlement.**  A collector works on the record as it was read (`cur`), marks
it through the operator API, sends a transaction into `mempool`, and marks the
outcome.  A call may fail, or be applied and its response lost; a collector may
crash at any step; a transaction nobody waits for may be mined late or dropped.
Time is one flag per record, `aged`: the wait that applies to its state (retry
backoff or reclaim-pending-after) has passed since it was last written.
`settled` is the cumulative amount collected on chain: collecting an
already-settled RAV collects nothing.  The daemon lists at most `ListLimit`
records of a state and sees any such page of them (500, newest first, in the
code), so dust can keep a record out of the page.

**Storage.**  `db` maps row names to rows.  A Postgres transaction collects its
writes in `draft` and holds the lock of each row it wrote or selected for update
until it commits or rolls back; a statement on a locked row waits and then sees
the row as committed.  The in-memory backend swaps map entries in `db`, under
`collectionMu` (`mu`) where the code takes it.  The refinement mapping to
`Repository` counts what an in-memory call has yet to swap as swapped.  A load
says how many calls of each kind run and whether RAVs come by SubmitRAV
(`unary`), which takes no lock: then two RAV writes race and either value may be
stored last.  On a payment stream the evaluation lock orders them
(`UnderSessionEval`).  Methods
that no program calls (`SessionUpdate`, `WorkerCreate`, `QuotaGet`,
`QuotaReserve`, `QuotaIncrement`, `CollectionCreateOrUpdateCollectible`) are
left out.

**UsagePipeline.**  `at[e]` says how far an event got, from `Emit` to the
repository; `loop` is the emitter's goroutine.  The buffer may be full, a report
may fail or time out, and the emitter may shut down at any time.

**WorkerPool.**  A worker key is named after the stream or the job that borrows
it.  `pc` is the caller of the plugin, `info` its `sessionInfo`, `alive` its
keep-alive goroutine and `call` the goroutine that returns workers.  A borrow
and a return are one step per repository call.  Calls and answers are lost and
writes fail, up to `MaxFailures`; the ghosts `lost`, `overReturned` and
`unreturned` record what that, or a second return of one worker, did.

**PaymentSessionClient, Ingress.**  A stream is named after its generation;
`sentOn` records the generations the bind request was sent on.  In mode
`client` several goroutines use the client while its endpoint changes and it is
closed; in mode `ingress` one stream runs with its proxy and its payment
control goroutine.  The provider is reduced to what the consumer sees of it: it
meters, requests a RAV once the unpaid usage reaches `Threshold`, accepts, or
ends the session.  Its status answer is three reads (the session, its workers,
the runtime's request), and payment is pending as long as any of them says so.
A send has no deadline in the code and may block for ever (`SendsEnd` says it
does not).  Errors are kept as their gRPC code.

**PayerCommands, Admission, OperatorAPI.**  Commands, requests and operator
calls are processes that take one step per RPC or repository call.  A scenario
(`load`) says which of them run and what is configured; `MCOperatorAPI` has one
scenario per question.  The chain's pool mines or evicts a transaction at any
time, and two commands of one payer may use the same nonce.  The time a cached
authorization lives is counted on `now`, which `Tick` moves.  The operator's
list handlers take their list of sessions in one step.  `Partial` scenarios
build a gateway without an RPC endpoint or a data plane, which only
`gateway.New` allows and the repository's integration tests use.

## Runs

| run | expected | question |
|---|---|---|
| `stream` | pass | one stream, two concurrent reports, an honest consumer: exact books, one request at a time, no response that finds the channel full, answers accepted, `PaymentLedger` implemented, usage eventually paid |
| `rebind` | pass | two streams, event channel of size 1, escrow running out, other messages from the consumer: no control state lost or shared |
| `unary` | pass | SubmitRAV beside a stream, repository failures, a restart: paid usage is covered, termination is final |
| `daemon` | pass | daemon with failures, a crash and newer RAVs: attempts bounded, the record held during an attempt, every record attempted unless the list overflows |
| `manual` | pass | daemon and two manual commands: a collected record was paid |
| `worker_pool` | pass | two streams and two jobs share a payer's slots, sessions end, calls and answers are lost: the quota is off only by known disturbances, no slot is forgotten, an ended session stops its streams |
| `usage_pipeline` | pass | both backends under concurrent handlers and metering: they implement `Repository`, a read of a session paid on its stream never mixes an old RAV with a new baseline, usage is billed once, buffered events are reported, no call waits for ever |
| `ingress` | pass | a stream and its payment control, and the client alone: a stream that was cut is answered with the cause, a complete one only with no request under way and less unpaid usage shown than makes a RAV due, and, as long as sends end, nothing is left behind |
| `operator_api` | pass | the payer's commands, admission with cached authorizations, start-up and the operator API: what is reported happened, who is admitted was entitled |
| `honest_rebind` | violation | is an honest answer ever rejected when the session is rebound? |
| `rav_race` | violation | can an accepted RAV be replaced by a smaller one? |
| `reclaim` | violation | is a stale pending record always reclaimed? |

The three violations are disagreements between the code and what its comments
or docs say; `PROJECT.json` quotes both.

1. *Rebind.*  A report passes the "no request in flight" check, its stream
   unbinds and the runtime state is deleted, a new stream binds and evaluates
   under the new state's `evalMu`: both issue a request on the new stream, and
   the honest answer to one of them is rejected.
2. *SubmitRAV.*  It checks for a pending request and stores without `evalMu`;
   a request issued in between is committed with its older, smaller value.
   The provider still never counts unpaid usage as paid (`RAVCoversBaseline`).
3. *Reclaim.*  `sweep` returns when nothing is eligible, before the reclaim.

**Bounds.**  Usage up to 2 or 3 units at threshold 1 gives a request, usage
metered behind it, and a second request.  Three heap objects are enough: the
one in the map and one stale object per thread that can hold one.  Event
channels have size 4 in the code.  In `stream` they have size 2, which
`ResponsesFit` shows to be enough, and 1 where a full channel is wanted.
Two streams give every order of unbind and bind.  In `Settlement` two RAV
values above the dust limit and one below it, a list of one record, two attempts, up to two failures and one crash give a newer RAV, a
retry and a reclaim; two records appear where the order of a sweep matters.
In `WorkerPool` two streams and two jobs over two slots give a full quota, a
second return and a release that races with a borrow; one failure separates
each fault from the others.  In `UsagePipeline` the loads race two handlers and
the usage service over one session, its record and the last worker slot, with
up to six calls, two events over a buffer of one, and one failure.  In
`Ingress` a stop block of 3, three units of usage at threshold 2, three stream
generations and one failure give a cut, a completed and a broken stream, each
with a RAV pending or not; what a second request does is left to the proofs.  In `OperatorAPI` cached answers live two ticks and a call to
the chain takes at most one (`AnswersInTime`, a bound of the model: the code sets
no deadline, and `AdmittedSignerWasAuthorized` counts it); three sessions, two commands and three operator
calls are enough for a stale read with a write before and after it.
Symmetry is used only in runs without liveness.  PaymentRuntime runs do not
check deadlock, since usage, streams and restarts are bounded and a session
may simply end, and the four runs of the other components do not either, for
the same reason; in Settlement the daemon always has a next sweep.

**Fairness.**  Goroutines that can run do run (weak fairness per thread for
evaluations and per stream for the handler's work), and a connected consumer
answers what it received.  Nothing forces usage, a disconnect, a new stream, a
mark or a restart.  The daemon's loop is an unconditional `for` with a timer,
hence weak fairness of its sweep and of its work on one record (a receipt or a
timeout always ends the wait), and time passes (`Age`).  The liveness of the
daemon excuses a list that overflows.  In `WorkerPool`
calls under way are answered, goroutines run on and tickers tick; nothing makes
a stream or a job start or a session end.  In `UsagePipeline` the emitter's
goroutine and ticker run and the repository runs the statements of a call.  In
`Ingress` goroutines run on and a deadline that keeps being armed passes (strong
fairness of `GiveUp`); nothing is assumed of the provider, of the caller or of a
send, and the two liveness properties are stated for runs in which sends end.  `OperatorAPI` has only safety properties.

## Proofs

| module | theorems |
|---|---|
| `PaymentRuntimeProofs` | `TypeCorrect`, `RAVAlwaysCoversBaseline`, `AccountingIsExact`, `TerminatedStaysTerminated`, `FundsStopAlwaysAfterTermination`, `ControlStateNeverOrphaned`, `BoundStreamAlwaysOwnsLiveState` |
| `PaymentRuntimeLedger` | `ProviderImplementsLedger`, `StreamRAVNeverDecreases` (one stream, no SubmitRAV) |
| `PaymentRuntimeRequests` | `OneRequestAlwaysInFlight`, `HonestConsumerNeverRejected` (one stream, no SubmitRAV; the second where no repository or chain call fails) |
| `UsagePipelineProofs` | `StorageInvariant`, `ReadsCoverBaseline` |
| `UsagePipelineRefinement` | `BackendsImplementRepository` |
| `SettlementProofs` | `SettlementTypeCorrect`, `CollectedAlwaysSettled`, `AttemptsAlwaysBounded`, `AttemptAlwaysHoldsRecord`, `PendingAlwaysOwned` |
| `WorkerPoolProofs` | `WorkerPoolTypeCorrect`, `QuotaIsAccounted`, `AdmissionIsBounded`, `NoWorkerIsOrphaned` |
| `IngressProofs` | `BoundAlwaysOnThisStream`, `AlwaysSettledBeforeOk`, `HeldRAVAlwaysAccepted`, `CutAlwaysReportsReason` |

They hold for any sets of threads, streams, jobs, goroutines, heap objects, keys,
payers and collectors and any bounds.  The assumptions on the constants are named where
they are declared: disjoint thread sets, a finite set of worker keys, null
values outside the sets they stand beside, natural numbers.  Two modules state
a hypothesis more.  `SingleStream` says that at most one stream is opened and
RAVs arrive on it; any number of reports, repository failures and restarts
remain.  `OnlyAnswers` adds that the consumer sends nothing but answers.  Both
are needed: `rav_race` and `honest_rebind` are what happens without the first
(TLC also finds a decreasing RAV with two streams and no SubmitRAV: a report
that read the session before a rebind issues its request, for the smaller
value, after a larger one was committed on the new stream), and a consumer that
sends unasked messages may well have two on the way.

The accounting invariants are not inductive: a RAV is committed from a request,
a request was made from a snapshot, and a snapshot was read some steps ago.
`AccountingInv` says the same of each link: the stored session, every snapshot,
and every request (in flight or held by a thread, so every commit in progress)
pay exactly for (or, with SubmitRAV, at least for) the usage they count as
covered, and cover no more than was metered.  `AccountsKept` says what any step
may do to these links, and the lemma `AccountingFrame` that such a step
preserves the invariant; each action is then shown to be one.  TLC checked
`AccountingInv` as an invariant before it was proved.

Control state rests on the evaluation lock.  `LockInv` says that a thread inside
`withSessionEval` holds the `evalMu` of the object it works on; `LockStep` says
what a step may do to the locks, and every action is one.  `ControlInv` joins
to the two properties that a message of no kind is the null message, so that an
object compared with nil is really empty; every write to an object is then
shown to go to the one in the map.  `FundsStopOnlyAfterTermination` is inductive
once types are known: each response comes from another one or from a session
just terminated.

With one stream there is one lock, and `LedgerInv` says what it protects: as long
as the stream has not ended no thread holds an object that left the map, and a
request in flight, queued or in a thread's hands was made from a baseline no
older than the stored one and before the session ended.  A commit then
overwrites exactly the books it was computed from, which is the step of
`PaymentLedger` it maps to; every other step adds usage, ends the session, or
stutters.  After the stream has ended nothing commits.  That RAVs never
decrease is a property of `PaymentLedger` that the refinement carries over.

`RequestsInv` follows a request along the wire: it is in the event channel, held
by the consumer, or its answer is on the way, one of the three
(`OneOnWire`); the thread that is about to send one finds the wire quiet
(`SendsAlone`), having recorded it as pending before (`PendingFirst`); and as long
as the session is active, what is on the wire is the pending request
(`Matches`).  `Serves` gives the wire at each step of the handler, and `Ended`
what is left after the unbind.  TLC checked `ControlInv`, `LedgerInv` and
`RequestsInv` as invariants before they were proved.

For the backends, `StorageInv` says of each call what its transaction has done so
far.  `DraftInv` gives the rows a Postgres transaction has written and not yet
committed, as a function of the rows it has locked (`UsageTx`, `RAVTx`,
`ReserveTx`); with `Locks` (no row is locked twice) a draft computed some
statements ago is still the one its committed rows call for.  `MuInv` says the same
of the in-memory collection record and its mutex.  `Covered`, `RAVInv`, `GetInv`
and `GotInv` follow a RAV and its baseline from the call that stores them to the
read that returns them: the baseline is read first and the RAV of a session
paid on its stream only grows, so a mixed read still pays for what it reports
(`Pays`; sessions paid by SubmitRAV are left out of these conjuncts, not of the
others).  `Stepped` says what a step of one call may do to the tables and to
the other calls, `SteppedKeeps` that such a step keeps the invariant; each
statement and each swap is then shown to be one.  The refinement uses it in
both states: a write takes effect at commit in Postgres, and in memory at the
first swap of the call, the rest of which the mapping anticipates
(`EffectiveUsage`, `EffectiveCollection`).  Every other step is `Quiet`, and a
stutter of `Repository`.

For settlement, `PaidInv` adds to `CollectedIsSettled` that a collector holding
a receipt works on a value already settled on chain; its proof rests on the
expected value every mark carries.  The bound on attempts is checked when the
daemon lists records and used when it marks one of them, after any number of
other steps: `SweepInv` says that what is listed, each record once, and the one
taken from the list, may still be attempted, and that the counter of a
collectible record is zero.  `OwnerInv` joins the two properties of the attempt
in progress; a newer RAV does not replace a pending record (lemma
`AcceptedRAV`), and the daemon reclaims only between attempts.

For the worker pool, the inductive invariant `IInv` joins the three proved
properties to `LifeInv` (a row is that of its request; a goroutine returns only
keys that were borrowed, and exists only once its caller is over; a call that
deleted a row is about to decrement) and `ReleaseInv` (what the goroutine of a
release has done at each step).  `LifeInv` is what the accounting needs: a call
that owes a decrement is never overwritten, and the request it takes the payer
from never changes under it.  The proof has two halves.  `BooksStep` shows that
every step is, for every payer, one of five entries in its books (nothing, a
reservation within the limit, a delete that is owed, a decrement, a failed
decrement), and `QuotaStep` that each entry keeps the accounting and the limit.
`OrphanStep` follows a live row through each action; `FinishReturning` and
`StartReturning` say what a goroutine that goes on, or starts, does to the rows
on their way back.  TLC checked `IInv` as an invariant too.

For the consumer, `IngressInv` has a part per question.  `RAVInv` follows a
request from the provider to its acceptance: it is in one place (on its way, in
the control goroutine's hands, or answered), and behind the acceptance of the
one before (`RequestsInOrder`), so the RAV that an acceptance makes current is the
accepted one (`ContinueAccepts`); and nothing signed, submitted or accepted
exceeds what was metered (`WithinMetered`); what was signed was accepted or is
still asked for (`SignedIsAccepted`), so a provider that asks for nothing has it.
`CutInv` says that whoever
cancelled the runtime left a result first, unless the caller left or the proxy
has its answer, and that the goroutine which left it has ended, so no later
result replaces it.  `BoundOnThisStream` is inductive with types.  TLC checked
`RAVInv` and `CutInv` too.

Most leaves name the backend, `Zenon`: tlapm's translation to SMT slows down
with the number of obligations it has handled, so the SMT solver is kept for
the leaves that need arithmetic, sequences or records.

Only model-checked: of `usage_pipeline`, `BilledAtMostOnce` and liveness; every
property of `operator_api`; and all liveness (liveness under fairness and
ENABLED are out of the prover's reach).

## Not modelled

Cryptography and encodings (EIP-712, protobuf, SQL columns, ABI): out of TLC's
reach; a signature is modelled by its signer.  Generated protobuf code.  Receipt
aggregation (`horizon/aggregator.go`): a library no program of the repository
calls.  Printing, logging and terminal styles; the wiring of servers and the
oracle's `main`.  The development environment, fixtures, example and tools
(`horizon/devenv`, `devel`, `examples`, `cmd/sds/tools_rav.go`,
`demo_setup.go`).  The unlocked clear of the in-flight request (a data race on
a pointer) is taken as one step.  `PROJECT.json` gives the status of each
component.
