---------------------------- MODULE OperatorAPI ----------------------------
(***************************************************************************)
(* The provider's private operator API (provider/gateway: OperatorGateway, *)
(* its handlers and metrics; internal/operatorauth) and the commands of    *)
(* cmd/sds that call it, over the sessions of Admission and the settlement *)
(* records of CollectionLifecycle, while the payment runtime changes them. *)
(*                                                                         *)
(* A handler takes one step per repository call: nothing isolates it from  *)
(* writes between two of them.                                             *)
(***************************************************************************)
EXTENDS Admission, CollectionLifecycle

CONSTANTS
  Operators,     \* calls of the operator API
  DefaultLimit,  \* defaultOperatorListLimit
  MaxLimit       \* maxOperatorListLimit

ASSUME OperatorAssumption == DefaultLimit <= MaxLimit /\ MaxLimit \in Nat

VARIABLES
  coll,      \* the settlement record of every session
  workers,   \* WorkerCountBySession
  control,   \* sessions whose runtime has payment control pending
  op,        \* the calls
  settled    \* history: the largest value a caller settled and reported

operatorVars == <<coll, workers, control, op, settled>>
allVars == <<payerVars, admissionVars, operatorVars>>

NoCall == [pc |-> "idle", q |-> << >>, snap |-> << >>, todo |-> {}, at |-> 0,
           pending |-> FALSE, rows |-> {}, records |-> << >>, workers |-> 0,
           waiting |-> 0, metrics |-> << >>, out |-> "none"]

\* A session that is stored with a RAV gets a settlement record at once.
RecordOfSession(s) ==
  IF prov[s].hasRAV THEN NewCollectionRecord(prov[s].rav) ELSE NoCollection

OperatorInit ==
  /\ AdmissionInit
  /\ coll = [s \in SessionIDs |-> IF s \in DOMAIN prov THEN RecordOfSession(s) ELSE NoCollection]
  /\ workers = [s \in SessionIDs |-> 0]
  /\ control = {}
  /\ op = [o \in Operators |-> NoCall]
  /\ settled = [s \in SessionIDs |-> 0]

SetOp(o, c) == op' = [op EXCEPT ![o] = c]

\* A step of the call alone.
OpStep(o, c) ==
  /\ SetOp(o, c)
  /\ UNCHANGED <<payerVars, admissionVars, coll, workers, control, settled>>

\* The response is all that is left of a call.
OpEnd(c, out) ==
  [NoCall EXCEPT !.pc = "done", !.out = out, !.rows = c.rows, !.records = c.records]

-----------------------------------------------------------------------------
(* The payment runtime, as far as an operator sees it.                      *)

\* The scenario says what may change, and how often.
Change(what) ==
  /\ load.changes > 0 /\ what \in load.changing
  /\ load' = [load EXCEPT !.changes = @ - 1]
  /\ UNCHANGED <<now, chain, pool, mined, cmd, failures, catalog, cache, req,
                 local, grants, op, settled>>

\* Mutant: a settlement record that exists stays with the RAV before.
RecordOfRAVUnchanged(rec, v) ==
  IF rec.state = "none" THEN NewCollectionRecord(v) ELSE rec

\* The settlement record that is stored together with a RAV of value v.
RecordOfRAV(rec, v) == NextCollectible(rec, v)

\* A RAV is accepted: with its baseline and its settlement record at once.
AcceptRAV(s, v) ==
  /\ Change("rav")
  /\ IsActive(prov[s]) /\ ~CollectionConflict(coll[s], v)
  /\ prov' = [prov EXCEPT ![s] = WithRAVAndBaseline(@, v, @.total)]
  /\ coll' = [coll EXCEPT ![s] = RecordOfRAV(@, v)]
  /\ UNCHANGED <<workers, control>>

UseSession(s) ==
  /\ Change("usage")
  /\ prov' = [prov EXCEPT ![s] = AddUsage(@, 1)]
  /\ UNCHANGED <<coll, workers, control>>

WorkersChange(s) ==
  /\ Change("workers")
  /\ workers' = [workers EXCEPT ![s] = 1 - @]
  /\ UNCHANGED <<prov, coll, control>>

ControlChanges(s) ==
  /\ Change("control")
  /\ control' = IF s \in control THEN control \ {s} ELSE control \cup {s}
  /\ UNCHANGED <<prov, coll, workers>>

sessionProjectedOutstanding(z) == z.rav + UsageDeltaSinceBaseline(z)

\* assessSessionFunds; the balance is unknown without an RPC endpoint, and
\* after a failed call, which leaves its error.
assessSessionFunds(z, balance, error) ==
  [status |-> IF balance = << >> THEN "unknown"
              ELSE IF sessionProjectedOutstanding(z) > balance[1]
              THEN "insufficient" ELSE "ok",
   projected |-> <<sessionProjectedOutstanding(z)>>, balance |-> balance, error |-> error]

\* applyFundsAssessmentMetadata and SessionUpdateRuntimeState: a session short
\* of funds is terminated for a payment issue.
AssessFunds(s) ==
  /\ Change("funds")
  /\ IsActive(prov[s])
  /\ LET known == IF Gateway.querier THEN <<chain.escrow>> ELSE << >> IN
     \E a \in {assessSessionFunds(prov[s], known, FALSE),
               assessSessionFunds(prov[s], << >>, Gateway.querier)} :
       prov' = [prov EXCEPT ![s] =
                  IF a.status = "insufficient"
                  THEN [WithRuntimeState(@, "terminated") EXCEPT
                          !.funds = a, !.reason = "payment_issue"]
                  ELSE [@ EXCEPT !.funds = a]]
  /\ UNCHANGED <<coll, workers, control>>

-----------------------------------------------------------------------------
(* The commands, up to the request they send.                               *)

\* Exactly one of the two flags gives the token, and no blank is in it.
resolveProviderOperatorToken(q) ==
  /\ Cardinality(q.sources) = 1
  /\ q.token \notin {"", "blank"}

\* http is for --plaintext, which takes an endpoint without a scheme as http;
\* otherwise such an endpoint is https.
parseProviderOperatorEndpoint(q) ==
  LET scheme == IF q.scheme # "" THEN q.scheme
                ELSE IF q.plaintext THEN "http" ELSE "https" IN
  scheme \in {"http", "https"} /\ (q.plaintext <=> scheme = "http")

Marks == {"markPending", "markCollected", "markRetryable"}

\* Words a filter may be; "" is a filter that is not given.
parseOperatorSessionStatusFlag(raw) == raw \in {"", "active", "paused", "terminated"}
parseOperatorFundsStatusFlag(raw) == raw \in {"", "ok", "insufficient", "unknown"}
parseCollectionStateFlag(raw) == raw \in {""} \cup (CollectionStates \ {"none"})

\* An address flag is empty or an address; one stands for all of them.
optionalAddressProtoFlag(q) == q.payer # "malformed"

\* The whole key but the session.
providerOperatorCollectionKeyFromFlags(q) == q.complete

runProviderOperatorSessionsList(q) ==
  /\ optionalAddressProtoFlag(q)
  /\ parseOperatorSessionStatusFlag(q.status) /\ parseOperatorFundsStatusFlag(q.funds)

runProviderOperatorSessionsGet(q) == q.s # 0

runProviderOperatorRAVsList(q) == optionalAddressProtoFlag(q)

runProviderOperatorRAVsGet(q) == q.s # 0

runProviderOperatorCollectionsList(q) ==
  optionalAddressProtoFlag(q) /\ parseCollectionStateFlag(q.status)

runProviderOperatorCollectionsGet(q) == providerOperatorCollectionKeyFromFlags(q)

\* The flags of the command; a mutation comes from the collect commands, which
\* pass the key of a record they were shown.
FlagsGiven(q) ==
  CASE q.kind = "listSessions" -> runProviderOperatorSessionsList(q)
    [] q.kind = "getSession" -> runProviderOperatorSessionsGet(q)
    [] q.kind = "listRAVs" -> runProviderOperatorRAVsList(q)
    [] q.kind = "getRAV" -> runProviderOperatorRAVsGet(q)
    [] q.kind = "listCollections" -> runProviderOperatorCollectionsList(q)
    [] q.kind = "getCollection" -> runProviderOperatorCollectionsGet(q)
    [] q.kind \in Marks -> q.s # 0

\* A command gets as far as its request.  Metrics are asked for directly.
withProviderOperatorClient(q) ==
  q.kind = "metrics" \/
    (resolveProviderOperatorToken(q) /\ parseProviderOperatorEndpoint(q) /\ FlagsGiven(q))

-----------------------------------------------------------------------------
(* Authorization, and the handlers' checks of their arguments.              *)

\* The admin's token is looked at first: one token may serve both roles.
roleForToken(token) ==
  CASE token = load.gateway.operator.admin -> "admin.write"
    [] token # load.gateway.operator.admin /\ token = load.gateway.operator.read -> "operator.read"
    [] OTHER -> "none"

Allows(role, required) ==
  role = "admin.write" \/ (role = "operator.read" /\ required = "operator.read")

RequiredRole(kind) == IF kind \in Marks THEN "admin.write" ELSE "operator.read"

parseBearerToken(token) == token \notin {"", "blank"}

AuthorizeHeader(q) ==
  IF ~parseBearerToken(q.token) \/ roleForToken(q.token) = "none" THEN "unauthenticated"
  ELSE IF Allows(roleForToken(q.token), RequiredRole(q.kind)) THEN "ok" ELSE "denied"

\* A key has a session, and identifiers and addresses of their lengths.
collectionKeyFromProto(q) == q.s # 0 /\ q.complete

\* A mutation needs a key, and the value it is about.
mutationKeyAndExpectedValue(q) == q.kind \in Marks => collectionKeyFromProto(q)

\* The transaction of a collection, or the error of a failed one.
DetailGiven(q) == q.kind \in {"markCollected", "markRetryable"} => q.detail

operatorLimit(limit) ==
  IF limit = 0 THEN DefaultLimit ELSE Min({limit, MaxLimit})

OpCall(o) ==
  /\ op[o].pc = "idle" /\ o <= load.ops
  /\ ProviderServes /\ load.gateway.operator.listen
  /\ \A n \in Operators : n < o => op[n].pc # "idle"
  /\ \E q \in load.queries :
       LET c == [NoCall EXCEPT !.q = q] IN
       OpStep(o, IF ~withProviderOperatorClient(q) THEN OpEnd(c, "refused")
                 ELSE IF AuthorizeHeader(q) # "ok" THEN OpEnd(c, AuthorizeHeader(q))
                 ELSE IF ~(mutationKeyAndExpectedValue(q) /\ DetailGiven(q))
                 THEN OpEnd(c, "invalid")
                 ELSE [c EXCEPT !.pc = q.kind])

-----------------------------------------------------------------------------
(* Sessions and accepted RAVs.                                              *)

\* The status of the last assessment, or what the end of the session tells.
sessionFundsStatus(z) ==
  IF z.funds.status # "" THEN z.funds.status
  ELSE IF z.reason = "payment_issue" THEN "insufficient" ELSE "unknown"

\* An amount of the last assessment, or the one that is computed.
sessionMetadataBigInt(stored, computed) == IF stored # << >> THEN stored[1] ELSE computed

estimatedBlocksRemaining(z) ==
  LET projected == sessionMetadataBigInt(z.funds.projected, sessionProjectedOutstanding(z)) IN
  IF z.funds.balance = << >> \/ z.pricing.block = 0 \/ z.funds.balance[1] <= projected
  THEN 0 ELSE (z.funds.balance[1] - projected) \div z.pricing.block

operatorPaymentHint(z, pending) ==
  IF pending THEN "wait"
  ELSE CASE sessionFundsStatus(z) = "insufficient" ->
              IF z.reason = "payment_issue" THEN "ended" ELSE "topUp"
         [] sessionFundsStatus(z) = "unknown" ->
              IF z.funds.error THEN "inspect" ELSE "unassessed"
         [] OTHER -> "sufficient"

\* What a filter admits: everything, if it is not given.
operatorSessionStatusToRepository(status) ==
  IF status = "" THEN {"active", "paused", "terminated"} ELSE {status}

protoFundsStatusToMetadata(status) ==
  IF status = "" THEN {"ok", "insufficient", "unknown"} ELSE {status}

protoCollectionStateToRepository(state) ==
  IF state = "" THEN CollectionStates \ {"none"} ELSE {state}

\* How they are shown: what is not known is unspecified.
repositorySessionStatusToProto(status) ==
  IF status \in {"active", "paused", "terminated"} THEN status ELSE "unspecified"

repositoryFundsStatusToProto(status) ==
  IF status \in {"ok", "insufficient", "unknown"} THEN status ELSE "unspecified"

repositoryCollectionStateToProto(state) ==
  IF state \in CollectionStates \ {"none"} THEN state ELSE "unspecified"

\* The repository's filter.
SessionList(q) ==
  {s \in DOMAIN prov : /\ prov[s].status \in operatorSessionStatusToRepository(q.status)
                       /\ q.payer \in {"", prov[s].payer}}

\* The filter the handler applies itself.
SessionMatches(z, q) == sessionFundsStatus(z) \in protoFundsStatusToMetadata(q.funds)

\* The sessions are read: those in ids are to be shown.
ShowSessions(o, ids) ==
  OpStep(o, [op[o] EXCEPT !.snap = prov, !.todo = ids, !.pc = "rows"])

ListSessions(o) ==
  LET q == op[o].q IN
  /\ op[o].pc = "listSessions"
  /\ ShowSessions(o, {s \in SessionList(q) : SessionMatches(prov[s], q)})

GetSession(o) ==
  LET q == op[o].q IN
  /\ op[o].pc = "getSession"
  /\ IF q.s \in DOMAIN prov THEN ShowSessions(o, {q.s})
     ELSE OpStep(o, OpEnd(op[o], "notFound"))

\* A session that is named is shown if it is the payer's.
acceptedRAVSessions(q) ==
  {s \in (IF q.s # 0 THEN {q.s} ELSE DOMAIN prov) : q.payer \in {"", prov[s].payer}}

ListAcceptedRAVs(o) ==
  LET q == op[o].q IN
  /\ op[o].pc = "listRAVs"
  /\ IF q.s # 0 /\ q.s \notin DOMAIN prov THEN OpStep(o, OpEnd(op[o], "notFound"))
     ELSE ShowSessions(o, {s \in acceptedRAVSessions(q) : prov[s].hasRAV})

GetAcceptedRAV(o) ==
  LET q == op[o].q IN
  /\ op[o].pc = "getRAV"
  /\ IF q.s \in DOMAIN prov /\ prov[q.s].hasRAV THEN ShowSessions(o, {q.s})
     ELSE OpStep(o, OpEnd(op[o], "notFound"))

\* Sessions come in no particular order.
NextRow(o) ==
  LET c == op[o] IN
  /\ c.pc = "rows" /\ c.todo # {}
  /\ \E s \in c.todo :
       OpStep(o, [c EXCEPT !.at = s, !.todo = @ \ {s},
                           !.pc = IF c.q.kind \in {"listRAVs", "getRAV"}
                                  THEN "collection" ELSE "workers"])

shouldRequestRAV(z) == z.hasRAV /\ UsageDeltaSinceBaseline(z) >= Gateway.pricing.threshold

\* The session as it was read, the workers and the runtime as they are now.
paymentControlPending(s, z) ==
  IsActive(z) /\ (workers[s] > 0 \/ s \in control \/ shouldRequestRAV(z))

\* acceptedRAVToProto and operatorPaymentState: what is shown of session s as
\* it was read, with a state of its settlement record.
RowOf(c, state) ==
  LET z == c.snap[c.at] IN
  [sid |-> c.at, rav |-> z.rav, state |-> repositoryCollectionStateToProto(state),
   status |-> repositorySessionStatusToProto(z.status),
   funds |-> repositoryFundsStatusToProto(sessionFundsStatus(z)),
   blocks |-> estimatedBlocksRemaining(z), hint |-> operatorPaymentHint(z, c.pending)]

\* The list ends when the limit is reached.
AddRow(c, row) ==
  LET rows == c.rows \cup {row} IN
  [c EXCEPT !.rows = rows, !.pc = "rows",
            !.todo = IF Cardinality(rows) >= operatorLimit(c.q.limit) THEN {} ELSE @]

\* sessionToProto: payment control first, then the RAV if it is asked for.
RowWorkers(o) ==
  LET z == op[o].snap[op[o].at]
      c == [op[o] EXCEPT !.pending = paymentControlPending(op[o].at, z)] IN
  /\ op[o].pc = "workers"
  /\ OpStep(o, IF c.q.includeRAV /\ z.hasRAV THEN [c EXCEPT !.pc = "collection"]
               ELSE AddRow(c, RowOf(c, "none")))

\* The state of the settlement record the RAV belongs to, as it is now.
RowCollection(o) ==
  /\ op[o].pc = "collection"
  /\ OpStep(o, AddRow(op[o], RowOf(op[o], coll[op[o].at].state)))

RowsDone(o) ==
  /\ op[o].pc = "rows" /\ op[o].todo = {}
  /\ OpStep(o, OpEnd(op[o], "ok"))

-----------------------------------------------------------------------------
(* Settlement records.                                                      *)

\* The repository's filter; that of the handler is about addresses all sessions
\* of a provider share.
CollectionList(q) ==
  {s \in DOMAIN prov : /\ coll[s].state \in protoCollectionStateToRepository(q.status)
                       /\ q.s \in {0, s}
                       /\ q.payer \in {"", prov[s].payer}}

\* The records in no particular order, cut to the limit.
Pages(q, limit) ==
  LET found == CollectionList(q) IN
  kSubset(Min({limit, Cardinality(found)}), found)

ShowRecords(o, page) ==
  OpStep(o, [OpEnd(op[o], "ok") EXCEPT !.records = [s \in page |-> coll[s]]])

ListCollections(o) ==
  /\ op[o].pc = "listCollections"
  /\ \E page \in Pages(op[o].q, operatorLimit(op[o].q.limit)) : ShowRecords(o, page)

GetCollection(o) ==
  LET q == op[o].q IN
  /\ op[o].pc = "getCollection" /\ q.s # 0
  /\ IF q.s \in DOMAIN prov /\ coll[q.s].state # "none" THEN ShowRecords(o, {q.s})
     ELSE OpStep(o, OpEnd(op[o], "notFound"))

\* Without a session the command lists two records and insists on one.
fetchProviderOperatorCollection(o) ==
  /\ op[o].pc = "getCollection" /\ op[o].q.s = 0
  /\ \E page \in Pages(op[o].q, 2) :
       IF Cardinality(page) = 1 THEN ShowRecords(o, page)
       ELSE OpStep(o, OpEnd(op[o], "notFound"))

collectionMutationError(q, rec) ==
  IF rec.state = "none" THEN "notFound"
  ELSE IF ~ExpectedValueMatches(rec, q.value) THEN "aborted" ELSE "failedPrecondition"

\* A mutation of the record the caller names, if it is allowed.  A caller that
\* reports a collection has settled the value it passes.
Mark(o, kind, allowed, rec, value) ==
  LET q == op[o].q IN
  /\ op[o].pc = kind
  /\ IF allowed
     THEN /\ coll' = [coll EXCEPT ![q.s] = rec]
          /\ settled' = [settled EXCEPT ![q.s] = Max({@, value})]
          /\ SetOp(o, OpEnd(op[o], "ok"))
          /\ UNCHANGED <<payerVars, admissionVars, workers, control>>
     ELSE OpStep(o, OpEnd(op[o], collectionMutationError(q, coll[q.s])))

MarkCollectionPending(o) == LET q == op[o].q IN
  Mark(o, "markPending", CanMarkPending(coll[q.s], q.value), MarkedPending(coll[q.s]), 0)

MarkCollectionCollected(o) == LET q == op[o].q IN
  Mark(o, "markCollected", CanMarkCollected(coll[q.s], q.value),
       MarkedCollected(coll[q.s]), q.value)

MarkCollectionRetryable(o) == LET q == op[o].q IN
  Mark(o, "markRetryable", CanMarkFailedRetryable(coll[q.s], q.value),
       MarkedFailedRetryable(coll[q.s]), 0)

-----------------------------------------------------------------------------
(* Metrics: the sessions, then the records, then every session's workers and *)
(* its payment control.                                                      *)

MetricSessions(o) ==
  /\ op[o].pc = "metrics"
  /\ OpStep(o, [op[o] EXCEPT !.snap = prov, !.todo = DOMAIN prov, !.pc = "metricRecords"])

MetricRecords(o) ==
  /\ op[o].pc = "metricRecords"
  /\ OpStep(o, [op[o] EXCEPT !.pc = "metricRows", !.records = coll])

MetricWorkers(o) ==
  LET c == op[o] IN
  /\ c.pc = "metricRows"
  /\ \E s \in c.todo :
       OpStep(o, [c EXCEPT !.at = s, !.todo = @ \ {s}, !.workers = @ + workers[s],
                           !.pc = "metricControl"])

MetricControl(o) ==
  LET c == op[o] IN
  /\ c.pc = "metricControl"
  /\ OpStep(o, [c EXCEPT !.pc = "metricRows",
                  !.waiting = @ + (IF paymentControlPending(c.at, c.snap[c.at]) THEN 1 ELSE 0)])

Count(ids, Test(_)) == Cardinality({s \in ids : Test(s)})

operatorMetricsSnapshot(c) ==
  LET z == c.snap
      ids == DOMAIN c.snap IN
  [sessionsByStatus |-> [t \in {z[s].status : s \in ids} |->
                           Count(ids, LAMBDA s : z[s].status = t)],
   endedByReason |-> [e \in {z[s].reason : s \in ids} |->
                        Count(ids, LAMBDA s : ~IsActive(z[s]) /\ z[s].reason = e)],
   collectionsByState |-> [t \in CollectionStates \ {"none"} |->
                             Count(DOMAIN c.records, LAMBDA s : c.records[s].state = t)],
   acceptedRAVs |-> Count(ids, LAMBDA s : z[s].hasRAV),
   lowFunds |-> Count(ids, LAMBDA s : sessionFundsStatus(z[s]) = "insufficient"),
   ravRequestEligible |-> Count(ids, LAMBDA s : IsActive(z[s]) /\ shouldRequestRAV(z[s])),
   usageCost |-> MapThenSumSet(LAMBDA s : z[s].total, ids),
   activeWorkers |-> c.workers, paymentControlPending |-> c.waiting]

MetricsDone(o) ==
  /\ op[o].pc = "metricRows" /\ op[o].todo = {}
  /\ OpStep(o, [OpEnd(op[o], "ok") EXCEPT !.metrics = <<operatorMetricsSnapshot(op[o])>>])

\* A repository call fails.
OpFails(o) ==
  /\ op[o].pc \notin {"idle", "done"}
  /\ failures < MaxFailures
  /\ failures' = failures + 1
  /\ SetOp(o, OpEnd(op[o], "internal"))
  /\ UNCHANGED <<load, now, chain, pool, mined, cmd, admissionVars, coll,
                 workers, control, settled>>

-----------------------------------------------------------------------------
RuntimeNext ==
  \E s \in DOMAIN prov :
    \/ \E v \in load.values : AcceptRAV(s, v)
    \/ UseSession(s) \/ WorkersChange(s) \/ ControlChanges(s) \/ AssessFunds(s)

OperatorNext ==
  \E o \in Operators :
    \/ OpCall(o) \/ ListSessions(o) \/ GetSession(o) \/ ListAcceptedRAVs(o)
    \/ GetAcceptedRAV(o) \/ NextRow(o) \/ RowWorkers(o) \/ RowCollection(o) \/ RowsDone(o)
    \/ ListCollections(o) \/ GetCollection(o) \/ fetchProviderOperatorCollection(o)
    \/ MarkCollectionPending(o) \/ MarkCollectionCollected(o) \/ MarkCollectionRetryable(o)
    \/ MetricSessions(o) \/ MetricRecords(o) \/ MetricWorkers(o) \/ MetricControl(o)
    \/ MetricsDone(o)
    \/ OpFails(o)

\* Sessions come and end; a new one comes with its record.
SessionsNext ==
  /\ AdmissionNext
  /\ coll' = [s \in SessionIDs |-> IF s \in DOMAIN prov' \ DOMAIN prov
                                   THEN RecordOfSession(s)' ELSE coll[s]]
  /\ UNCHANGED <<workers, control, op, settled>>

Next == OperatorNext \/ RuntimeNext \/ SessionsNext

Spec == OperatorInit /\ [][Next]_allVars

-----------------------------------------------------------------------------
(* Properties.                                                              *)

\* A RAV the operator is shown as collected has been settled on chain: a
\* caller reported a collection of at least its value, although the RAV and
\* the state are read one after the other and the record may be another RAV's
\* by then, or the session went back to a smaller RAV in between.
ShownCollectedIsSettled ==
  [][\A o \in Operators :
       \A row \in op'[o].rows \ op[o].rows :
         (op[o].pc = "collection" /\ row.state = "collected") =>
           \/ settled[row.sid] >= row.rav
           \/ prov[row.sid].rav < row.rav]_allVars
=============================================================================
