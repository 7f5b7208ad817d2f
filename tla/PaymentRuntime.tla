--------------------------- MODULE PaymentRuntime ---------------------------
(***************************************************************************)
(* The provider's payment control of one session: the runtime manager of   *)
(* the payment gateway (provider/gateway/runtime_manager.go), the          *)
(* PaymentSession stream handlers and the unary SubmitRAV handler that use *)
(* it, and the usage reports that drive it, over the session repository.   *)
(*                                                                         *)
(* Threads are goroutines: one per usage report in progress (Meters), one  *)
(* per PaymentSession stream (Streams), one per SubmitRAV call (Unaries).  *)
(* A step is one critical section of the manager's mu, one repository      *)
(* call, one channel operation, or one acquisition of an evalMu.           *)
(*                                                                         *)
(* The map entry of the session points to a runtimeSessionState object.    *)
(* Objects are deleted and recreated, and a thread may still hold an old   *)
(* one when a new one is in the map, each with its own evalMu; so the      *)
(* objects are modelled as a heap of addresses (States) and "live" is the  *)
(* address in the map.                                                     *)
(***************************************************************************)
EXTENDS SessionStore, CollectionLifecycle, Sequences

CONSTANTS
  Streams,      \* PaymentSession streams opened for the session, in any order
  Meters,       \* goroutines of the usage service handling reports
  Unaries,      \* goroutines of the unary SubmitRAV handler
  States,       \* addresses of runtimeSessionState objects
  None,         \* nil
  InitialRAV,   \* value of the RAV the session was started with
  Threshold,    \* ravRequestThreshold
  EventsCap,    \* capacity of a stream's events channel (4 in the code)
  Costs,        \* costs one usage report may carry
  Balances,     \* escrow balances the chain may report
  Values,       \* RAV values a SubmitRAV caller may sign
  Strays,       \* messages a consumer may send that answer no request
  RepoFails,    \* whether repository calls and signer lookups may fail
  MaxUsage,     \* bound on the accumulated cost
  MaxAttempts,  \* bound on settlement attempts
  MaxRestarts   \* bound on provider restarts

Threads == Streams \cup Meters \cup Unaries

Submission ==
  [kind : {"rav", "invalid", "deposit", "nodeposit"}, usage : Nat, value : Nat]

ASSUME ThreadsAssumption ==
  /\ Streams \cap Meters = {} /\ Streams \cap Unaries = {}
  /\ Meters \cap Unaries = {}
  /\ None \notin Threads \cup States

ASSUME ValuesAssumption ==
  /\ InitialRAV \in Nat /\ Threshold \in Nat /\ EventsCap \in Nat \ {0}
  /\ Costs \subseteq Nat /\ Balances \subseteq Nat /\ Values \subseteq Nat
  /\ Strays \subseteq Submission
  /\ RepoFails \in BOOLEAN
  /\ MaxUsage \in Nat /\ MaxAttempts \in Nat /\ MaxRestarts \in Nat

VARIABLES
  session,        \* the stored session
  collection,     \* its settlement record
  live,           \* the runtimeSessionState in the manager's map, or None
  events,         \* per object: the bound stream's channel (named by stream)
  pendingRAV,     \* per object: the in-flight RAV request
  queuedResponse, \* per object: the control response kept for a later bind
  evalMu,         \* per object: the holder of its evaluation lock
  pc,             \* per thread: the next step
  ref,            \* per thread: the object withSessionEval works on
  snap,           \* per thread: the session it read last
  resp,           \* per thread: the response it is delivering
  pend,           \* per thread: the pending request it works with
  to,             \* per thread: the channel it is delivering to
  errTo,          \* per stream: where a failed evaluation continues
  chan,           \* per stream: its events channel
  inbox,          \* per stream: RAV requests the consumer has received
  sub,            \* per stream: the consumer's message in flight
  stop,           \* per stream: why the handler returned
  restarts        \* provider restarts so far

memory == <<live, events, pendingRAV, queuedResponse, evalMu>>
store == <<session, collection>>
local == <<ref, snap, resp, pend, to, errTo>>
wire == <<chan, inbox, sub, stop>>
vars == <<session, collection, live, events, pendingRAV, queuedResponse,
          evalMu, pc, ref, snap, resp, pend, to, errTo, chan, inbox, sub,
          stop, restarts>>

(* A control response.  A RAV request carries the usage it asks to be paid, *)
(* the current RAV's value and the usage total it covers; "by" stands for   *)
(* the identity of the response object, which clearQueuedResponse compares. *)
(* The pendingRAVRequest of a request holds the same data.                  *)
Msg ==
  [kind : {"none", "rav", "funds"}, usage : Nat, cur : Nat, base : Nat,
   by : Threads \cup {None}]

NoMsg == [kind |-> "none", usage |-> 0, cur |-> 0, base |-> 0, by |-> None]

NewRAVRequest(s, t) ==
  [kind |-> "rav", usage |-> UsageDeltaSinceBaseline(s), cur |-> s.rav,
   base |-> s.total, by |-> t]

NeedMoreFunds(t) == [NoMsg EXCEPT !.kind = "funds", !.by = t]

\* Mutant: the request asks for the new usage only.
TargetValueIncremental(m) == m.usage

TargetValue(m) == m.cur + m.usage

\* The content of a session variable that is out of scope.
NoSnapshot == NewSession(InitialRAV, TRUE)

NoSubmission == [kind |-> "none", usage |-> 0, value |-> 0]

Labels ==
  {"idle", "bind", "deliver", "delivered", "ensure", "lock", "read", "assess",
   "clear", "check", "dispatch", "send", "ack", "loop", "fundsack", "submit",
   "commit", "accepted", "exit", "done", "pendingcheck", "submitrav"}

StopReasons ==
  {"none", "inactive", "bound", "error", "funds", "closed", "rejected",
   "commit", "nodeposit", "restart"}

Init ==
  /\ \E hasRAV \in BOOLEAN :
       /\ hasRAV \/ InitialRAV = 0
       /\ session = NewSession(InitialRAV, hasRAV)
       /\ collection = IF hasRAV THEN NewCollectionRecord(InitialRAV)
                                 ELSE NoCollection
  /\ live = None
  /\ events = [o \in States |-> None]
  /\ pendingRAV = [o \in States |-> NoMsg]
  /\ queuedResponse = [o \in States |-> NoMsg]
  /\ evalMu = [o \in States |-> None]
  /\ pc = [t \in Threads |-> "idle"]
  /\ ref = [t \in Threads |-> None]
  /\ snap = [t \in Threads |-> NoSnapshot]
  /\ resp = [t \in Threads |-> NoMsg]
  /\ pend = [t \in Threads |-> NoMsg]
  /\ to = [t \in Threads |-> None]
  /\ errTo = [s \in Streams |-> "exit"]
  /\ chan = [s \in Streams |-> <<>>]
  /\ inbox = [s \in Streams |-> <<>>]
  /\ sub = [s \in Streams |-> NoSubmission]
  /\ stop = [s \in Streams |-> "none"]
  /\ restarts = 0

-----------------------------------------------------------------------------
(* Helpers of the runtime manager.                                          *)

Goto(t, label) == pc' = [pc EXCEPT ![t] = label]

\* Addresses nobody points to: where a new runtimeSessionState is allocated.
Unused == {o \in States : o # live /\ \A t \in Threads : ref[t] # o}

\* ensureSessionStateLocked: o is the object in the map, created if absent.
\* An unused object is blank (NoControlStateOrphaned), as a new one is.
EnsureSessionState(o) ==
  /\ o = live \/ (live = None /\ o \in Unused)
  /\ live' = o

\* Mutant: the state is deleted whatever control it still holds.
CleanupDropsControl(s) ==
  IF live # None /\ events[live] = s
  THEN live' = None /\ events' = [events EXCEPT ![live] = None]
  ELSE UNCHANGED <<events, live>>

\* Mutant: any stream's unbind unbinds the bound stream.
CleanupAnyStream(s) ==
  IF live # None
  THEN live' = live /\ events' = [events EXCEPT ![live] = None]
  ELSE UNCHANGED <<events, live>>

\* cleanupSessionStateLocked, for the stream whose channel is given.
CleanupSessionState(s) ==
  IF live # None /\ events[live] = s
  THEN /\ events' = [events EXCEPT ![live] = None]
       /\ live' = IF /\ pendingRAV[live].kind = "none"
                     /\ queuedResponse[live].kind = "none"
                  THEN None ELSE live
  ELSE UNCHANGED <<events, live>>

\* clearQueuedResponse: only while the same stream is bound and the same
\* response is still queued.
ClearQueuedResponse(s, r, p) ==
  IF live # None /\ events[live] = s /\ queuedResponse[live] = r
  THEN /\ queuedResponse' = [queuedResponse EXCEPT ![live] = NoMsg]
       /\ pendingRAV' = [pendingRAV EXCEPT ![live] = p]
  ELSE UNCHANGED <<queuedResponse, pendingRAV>>

\* withSessionEval returns: the lock is released and the locals are gone.
LeaveEval(t, label) ==
  /\ Goto(t, label)
  /\ evalMu' = [evalMu EXCEPT ![ref[t]] = None]
  /\ ref' = [ref EXCEPT ![t] = None]
  /\ snap' = [snap EXCEPT ![t] = NoSnapshot]
  /\ resp' = [resp EXCEPT ![t] = NoMsg]
  /\ pend' = [pend EXCEPT ![t] = NoMsg]
  /\ to' = [to EXCEPT ![t] = None]

\* Where a thread continues after an evaluation that returned nil / an error:
\* a stream serves its connection, a report is done; a failed evaluation ends
\* a stream that is binding and is ignored after an accepted RAV.
AfterEval(t) == IF t \in Streams THEN "loop" ELSE "idle"
AfterFailedEval(t) == IF t \in Streams THEN errTo[t] ELSE "idle"

\* shouldRequestRAV
ShouldRequestRAV(s) ==
  s.hasRAV /\ UsageDeltaSinceBaseline(s) >= Threshold

\* assessSessionFunds: is the session short of funds?  The balance is read
\* from the chain; an unknown balance counts as sufficient.
FundsInsufficient(s) ==
  {s.rav + UsageDeltaSinceBaseline(s) > b : b \in Balances} \cup {FALSE}

\* Mutant: the answer is checked against the usage metered so far.
AnswersLiveUsage(m, request) ==
  /\ request.kind = "rav"
  /\ m.kind = "rav"
  /\ m.usage = UsageDeltaSinceBaseline(session)
  /\ m.value = TargetValue(request)

\* handleRAVSubmission's checks: the usage is the request's, the RAV is valid
\* for the session and its value is the request's target.
AnswersRequest(m, request) ==
  /\ request.kind = "rav"
  /\ m.kind = "rav"
  /\ m.usage = request.usage
  /\ m.value = TargetValue(request)

-----------------------------------------------------------------------------
(* A usage report: SessionApplyUsage, then the evaluation.  A report whose  *)
(* write failed still evaluates.                                            *)
Report(m) ==
  /\ pc[m] = "idle"
  /\ \/ \E c \in Costs :
          /\ session.total + c <= MaxUsage
          /\ session' = AddUsage(session, c)
     \/ RepoFails /\ session' = session
  /\ Goto(m, "ensure")
  /\ UNCHANGED <<collection, memory, local, wire, restarts>>

-----------------------------------------------------------------------------
(* withSessionEval and evaluateMeteredUsage, run by reports, by a binding   *)
(* stream and after an accepted RAV.                                        *)

\* withSessionEval: look the object up (ensureSessionState).
EvalEnsure(t) ==
  /\ pc[t] = "ensure"
  /\ \E o \in States :
       /\ EnsureSessionState(o)
       /\ ref' = [ref EXCEPT ![t] = o]
  /\ Goto(t, "lock")
  /\ UNCHANGED <<store, events, pendingRAV, queuedResponse, evalMu, snap, resp,
                 pend, to, errTo, wire, restarts>>

\* Whether t may run evaluateMeteredUsage: it can take the object's evalMu,
\* or holds it since it accepted a RAV.
CanEvaluate(t) ==
  \/ pc[t] = "lock" /\ evalMu[ref[t]] = None
  \/ pc[t] = "read"

\* SessionGet; a session that is not active needs no evaluation.
EvalRead(t) ==
  /\ CanEvaluate(t)
  /\ \/ /\ IsActive(session)
        /\ snap' = [snap EXCEPT ![t] = session]
        /\ evalMu' = [evalMu EXCEPT ![ref[t]] = t]
        /\ Goto(t, "assess")
        /\ UNCHANGED <<ref, resp, pend, to>>
     \/ /\ ~IsActive(session)
        /\ LeaveEval(t, AfterEval(t))
  /\ UNCHANGED <<store, live, events, pendingRAV, queuedResponse, errTo, wire,
                 restarts>>

\* SessionGet or SessionUpdateRuntimeState fails.
EvalFail(t) ==
  /\ RepoFails
  /\ CanEvaluate(t) \/ pc[t] = "assess"
  /\ LeaveEval(t, AfterFailedEval(t))
  /\ UNCHANGED <<store, live, events, pendingRAV, queuedResponse, errTo, wire,
                 restarts>>

\* assessSessionFunds and SessionUpdateRuntimeState.  A session short of funds
\* ends; one over the threshold goes on to request a RAV.
EvalAssess(t) ==
  /\ pc[t] = "assess"
  /\ \E insufficient \in FundsInsufficient(snap[t]) :
       /\ session' = WithRuntimeState(session,
                       IF insufficient THEN "terminated" ELSE snap[t].status)
       /\ \/ /\ insufficient
             /\ resp' = [resp EXCEPT ![t] = NeedMoreFunds(t)]
             /\ Goto(t, "clear")
             /\ UNCHANGED <<evalMu, ref, snap, pend, to>>
          \/ /\ ~insufficient /\ ShouldRequestRAV(snap[t])
             /\ Goto(t, "check")
             /\ UNCHANGED <<evalMu, ref, snap, resp, pend, to>>
          \/ /\ ~insufficient /\ ~ShouldRequestRAV(snap[t])
             /\ LeaveEval(t, AfterEval(t))
  /\ UNCHANGED <<collection, live, events, pendingRAV, queuedResponse, errTo,
                 wire, restarts>>

\* clearPendingRAV, before the need-more-funds response is dispatched.
EvalClearPending(t) ==
  /\ pc[t] = "clear"
  /\ pendingRAV' = IF live = None THEN pendingRAV
                   ELSE [pendingRAV EXCEPT ![live] = NoMsg]
  /\ Goto(t, "dispatch")
  /\ UNCHANGED <<store, live, events, queuedResponse, evalMu, local, wire,
                 restarts>>

\* Mutant: a request in flight does not hold back another one.
RuntimeBound ==
  live # None /\ events[live] # None

\* runtimeState: a stream is bound and no request is in flight.
RuntimeReady ==
  live # None /\ events[live] # None /\ pendingRAV[live].kind = "none"

\* A RAV is requested from the snapshot read before, if the runtime is ready.
EvalCheck(t) ==
  /\ pc[t] = "check"
  /\ IF ~RuntimeReady
     THEN LeaveEval(t, AfterEval(t))
     ELSE /\ resp' = [resp EXCEPT ![t] = NewRAVRequest(snap[t], t)]
          /\ pend' = [pend EXCEPT ![t] = NewRAVRequest(snap[t], t)]
          /\ Goto(t, "dispatch")
          /\ UNCHANGED <<evalMu, ref, snap, to>>
  /\ UNCHANGED <<store, live, events, pendingRAV, queuedResponse, errTo, wire,
                 restarts>>

\* dispatch, under mu: the response is queued before it is sent.
Dispatch(t) ==
  /\ pc[t] = "dispatch"
  /\ \E o \in States :
       /\ EnsureSessionState(o)
       /\ queuedResponse' = [queuedResponse EXCEPT ![o] = resp[t]]
       /\ pendingRAV' = [pendingRAV EXCEPT ![o] = pend[t]]
       /\ IF events[o] = None
          THEN LeaveEval(t, AfterEval(t))
          ELSE /\ to' = [to EXCEPT ![t] = events[o]]
               /\ Goto(t, "send")
               /\ UNCHANGED <<evalMu, ref, snap, resp, pend>>
  /\ UNCHANGED <<store, events, errTo, wire, restarts>>

\* dispatch: the non-blocking send; a full channel leaves the response queued.
DispatchSend(t) ==
  /\ pc[t] = "send"
  /\ IF Len(chan[to[t]]) < EventsCap
     THEN /\ chan' = [chan EXCEPT ![to[t]] = Append(@, resp[t])]
          /\ Goto(t, "ack")
          /\ UNCHANGED <<evalMu, ref, snap, resp, pend, to>>
     ELSE LeaveEval(t, AfterEval(t)) /\ chan' = chan
  /\ UNCHANGED <<store, live, events, pendingRAV, queuedResponse, errTo,
                 inbox, sub, stop, restarts>>

\* dispatch: the delivered response is no longer queued.
DispatchAck(t) ==
  /\ pc[t] = "ack"
  /\ ClearQueuedResponse(to[t], resp[t], pend[t])
  /\ LeaveEval(t, AfterEval(t))
  /\ UNCHANGED <<store, live, events, errTo, wire, restarts>>

-----------------------------------------------------------------------------
(* PaymentSession: one bidirectional stream.                                *)

\* The handler returns, with the deferred unbindSession still to run.
Return(s, reason) ==
  /\ stop' = [stop EXCEPT ![s] = reason]
  /\ Goto(s, "exit")

\* The first message names the session, which must exist and be active.
StreamOpen(s) ==
  /\ pc[s] = "idle"
  /\ \/ IsActive(session) /\ Goto(s, "bind") /\ stop' = stop
     \/ ~IsActive(session) /\ Return(s, "inactive")
     \/ RepoFails /\ Return(s, "error")
  /\ UNCHANGED <<store, memory, local, chan, inbox, sub, restarts>>

\* bindSession, under mu.  A request that was sent to an earlier stream is
\* forgotten, so that the evaluation below regenerates it; a response that is
\* still queued is delivered to this stream.
Bind(s) ==
  /\ pc[s] = "bind"
  /\ \E o \in States :
       /\ EnsureSessionState(o)
       /\ \/ /\ events[o] # None
             /\ Return(s, "bound")
             /\ UNCHANGED <<events, pendingRAV, resp, pend>>
          \/ /\ events[o] = None
             /\ events' = [events EXCEPT ![o] = s]
             /\ pendingRAV' = IF queuedResponse[o].kind = "none"
                              THEN [pendingRAV EXCEPT ![o] = NoMsg]
                              ELSE pendingRAV
             /\ resp' = [resp EXCEPT ![s] = queuedResponse[o]]
             /\ pend' = [pend EXCEPT ![s] = pendingRAV'[o]]
             /\ Goto(s, IF queuedResponse[o].kind = "none"
                        THEN "ensure" ELSE "deliver")
             /\ stop' = stop
  /\ UNCHANGED <<store, queuedResponse, evalMu, ref, snap, to, errTo, chan,
                 inbox, sub, restarts>>

\* bindSession goes on to evaluate the session.
BindEvaluate(s) ==
  /\ Goto(s, "ensure")
  /\ resp' = [resp EXCEPT ![s] = NoMsg]
  /\ pend' = [pend EXCEPT ![s] = NoMsg]

\* tryDeliverQueuedResponse: the non-blocking send to the fresh channel.
BindDeliver(s) ==
  /\ pc[s] = "deliver"
  /\ IF Len(chan[s]) < EventsCap
     THEN /\ chan' = [chan EXCEPT ![s] = Append(@, resp[s])]
          /\ Goto(s, "delivered")
          /\ UNCHANGED <<resp, pend>>
     ELSE chan' = chan /\ BindEvaluate(s)
  /\ UNCHANGED <<store, memory, ref, snap, to, errTo, inbox, sub, stop,
                 restarts>>

\* tryDeliverQueuedResponse: the delivered response is no longer queued.
BindDelivered(s) ==
  /\ pc[s] = "delivered"
  /\ ClearQueuedResponse(s, resp[s], pend[s])
  /\ BindEvaluate(s)
  /\ UNCHANGED <<store, live, events, evalMu, ref, snap, to, errTo, wire,
                 restarts>>

\* The handler sends what its channel holds; need-more-funds ends the stream.
StreamSend(s) ==
  /\ pc[s] = "loop"
  /\ chan[s] # <<>>
  /\ chan' = [chan EXCEPT ![s] = Tail(@)]
  /\ \/ /\ Head(chan[s]).kind = "rav"
        /\ inbox' = [inbox EXCEPT ![s] = Append(@, Head(chan[s]))]
        /\ UNCHANGED <<pc, stop>>
     \/ /\ Head(chan[s]).kind = "funds"
        /\ Return(s, "funds")
        /\ inbox' = inbox
  /\ UNCHANGED <<store, memory, local, sub, restarts>>

\* The context is done, the client closed the stream, or a send failed.
StreamClose(s) ==
  /\ pc[s] = "loop"
  /\ Return(s, "closed")
  /\ UNCHANGED <<store, memory, local, chan, inbox, sub, restarts>>

\* A message arrives: the session is read again and must be active.
StreamReceive(s) ==
  /\ pc[s] = "loop"
  /\ \/ /\ sub[s].kind # "none" /\ ~IsActive(session)
        /\ Return(s, "inactive")
     \/ /\ sub[s].kind # "none" /\ RepoFails
        /\ Return(s, "error")
     \/ /\ sub[s].kind # "none" /\ IsActive(session)
        /\ Goto(s, IF sub[s].kind \in {"rav", "invalid"}
                   THEN "submit" ELSE "fundsack")
        /\ stop' = stop
  /\ UNCHANGED <<store, memory, local, chan, inbox, sub, restarts>>

\* handleFundsAcknowledgment: clearQueuedControl, and the stream goes on only
\* if the consumer means to deposit.
FundsAck(s) ==
  /\ pc[s] = "fundsack"
  /\ IF live = None THEN UNCHANGED <<live, pendingRAV, queuedResponse>>
     ELSE /\ pendingRAV' = [pendingRAV EXCEPT ![live] = NoMsg]
          /\ queuedResponse' = [queuedResponse EXCEPT ![live] = NoMsg]
          /\ live' = IF events[live] = None THEN None ELSE live
  /\ \/ sub[s].kind = "deposit" /\ Goto(s, "loop") /\ stop' = stop
     \/ sub[s].kind = "nodeposit" /\ Return(s, "nodeposit")
  /\ sub' = [sub EXCEPT ![s] = NoSubmission]
  /\ UNCHANGED <<store, events, evalMu, local, chan, inbox, restarts>>

\* handleRAVSubmission, under evalMu: the submission must answer the request
\* in flight, with exactly the value it asks for.  It is rejected all the same
\* if isSignerAuthorized fails, and an ended session that cannot be read is not
\* recognized.  The bound stream's object is the one in the map, so looking it
\* up and locking it are one step.
SubmitValidate(s) ==
  /\ pc[s] = "submit"
  /\ \E o \in States :
       /\ EnsureSessionState(o)
       /\ evalMu[o] = None
       /\ \/ /\ AnswersRequest(sub[s], pendingRAV[o])
             /\ evalMu' = [evalMu EXCEPT ![o] = s]
             /\ ref' = [ref EXCEPT ![s] = o]
             /\ pend' = [pend EXCEPT ![s] = pendingRAV[o]]
             /\ Goto(s, "commit")
             /\ stop' = stop
          \/ /\ ~AnswersRequest(sub[s], pendingRAV[o])
             /\ Return(s, IF pendingRAV[o].kind = "none" /\ ~IsActive(session)
                          THEN "inactive" ELSE "rejected")
             /\ UNCHANGED <<evalMu, ref, pend>>
          \/ /\ RepoFails
             /\ Return(s, "rejected")
             /\ UNCHANGED <<evalMu, ref, pend>>
  /\ sub' = [sub EXCEPT ![s] = NoSubmission]
  /\ UNCHANGED <<store, events, pendingRAV, queuedResponse, snap, resp, to,
                 errTo, chan, inbox, restarts>>

\* commitAcceptedRAV: the RAV, the baseline of the request and the settlement
\* record move together, or the stream stops and the request stays pending.
SubmitCommit(s) ==
  /\ pc[s] = "commit"
  /\ LET value == TargetValue(pend[s]) IN
     \/ /\ ~CollectionConflict(collection, value)
        /\ session' = WithRAVAndBaseline(session, value, pend[s].base)
        /\ collection' = NextCollectible(collection, value)
        /\ Goto(s, "accepted")
        /\ UNCHANGED <<evalMu, ref, snap, resp, pend, to, stop>>
     \/ /\ CollectionConflict(collection, value) \/ RepoFails
        /\ stop' = [stop EXCEPT ![s] = "commit"]
        /\ LeaveEval(s, "exit")
        /\ UNCHANGED store
  /\ UNCHANGED <<live, events, pendingRAV, queuedResponse, errTo, chan, inbox,
                 sub, restarts>>

\* Mutant: usage metered meanwhile is left to the next report.
SubmitAcceptedOnly(s) ==
  /\ pc[s] = "accepted"
  /\ pendingRAV' = [pendingRAV EXCEPT ![ref[s]] = NoMsg]
  /\ queuedResponse' = [queuedResponse EXCEPT ![ref[s]] = NoMsg]
  /\ LeaveEval(s, "loop")
  /\ UNCHANGED <<store, live, events, errTo, wire, restarts>>

\* The request is answered; usage metered meanwhile is evaluated again.
SubmitAccepted(s) ==
  /\ pc[s] = "accepted"
  /\ pendingRAV' = [pendingRAV EXCEPT ![ref[s]] = NoMsg]
  /\ queuedResponse' = [queuedResponse EXCEPT ![ref[s]] = NoMsg]
  /\ pend' = [pend EXCEPT ![s] = NoMsg]
  /\ errTo' = [errTo EXCEPT ![s] = "loop"]
  /\ Goto(s, "read")
  /\ UNCHANGED <<store, live, events, evalMu, ref, snap, resp, to, wire,
                 restarts>>

\* The deferred unbindSession.  Whatever was on the wire is lost.
Unbind(s) ==
  /\ pc[s] = "exit"
  /\ CleanupSessionState(s)
  /\ Goto(s, "done")
  /\ chan' = [chan EXCEPT ![s] = <<>>]
  /\ inbox' = [inbox EXCEPT ![s] = <<>>]
  /\ sub' = [sub EXCEPT ![s] = NoSubmission]
  /\ UNCHANGED <<store, pendingRAV, queuedResponse, evalMu, local, stop,
                 restarts>>

-----------------------------------------------------------------------------
(* The consumer's side of a stream (external: consumer/sidecar).            *)

Open(s) == pc[s] \notin {"idle", "exit", "done"}

\* It signs the value a request asks for and returns the request's usage.
ConsumerAnswer(s) ==
  /\ Open(s) /\ sub[s] = NoSubmission /\ inbox[s] # <<>>
  /\ sub' = [sub EXCEPT ![s] = [kind |-> "rav", usage |-> Head(inbox[s]).usage,
                                value |-> TargetValue(Head(inbox[s]))]]
  /\ inbox' = [inbox EXCEPT ![s] = Tail(@)]
  /\ UNCHANGED <<store, memory, pc, local, chan, stop, restarts>>

\* Or it sends something else.
ConsumerStray(s) ==
  /\ Open(s) /\ sub[s] = NoSubmission
  /\ \E m \in Strays : sub' = [sub EXCEPT ![s] = m]
  /\ UNCHANGED <<store, memory, pc, local, chan, inbox, stop, restarts>>

-----------------------------------------------------------------------------
(* SubmitRAV: the unary handler, which takes no evalMu.                     *)

SubmitRAVRead(u) ==
  /\ pc[u] = "idle"
  /\ IsActive(session)
  /\ snap' = [snap EXCEPT ![u] = session]
  /\ Goto(u, "pendingcheck")
  /\ UNCHANGED <<store, memory, ref, resp, pend, to, errTo, wire, restarts>>

SubmitRAVReturn(u) ==
  /\ Goto(u, "idle")
  /\ snap' = [snap EXCEPT ![u] = NoSnapshot]

\* hasPendingRAV: refused while a runtime request is in flight.
SubmitRAVPendingCheck(u) ==
  /\ pc[u] = "pendingcheck"
  /\ IF live # None /\ pendingRAV[live].kind # "none"
     THEN SubmitRAVReturn(u)
     ELSE Goto(u, "submitrav") /\ snap' = snap
  /\ UNCHANGED <<store, memory, ref, resp, pend, to, errTo, wire, restarts>>

\* A RAV that covers the usage read above is stored; a failed store is only
\* logged, and an invalid or underpaying RAV is refused.
SubmitRAVStore(u) ==
  /\ pc[u] = "submitrav"
  /\ \/ \E v \in Values :
          /\ v >= snap[u].rav + UsageDeltaSinceBaseline(snap[u])
          /\ ~CollectionConflict(collection, v)
          /\ session' = WithRAVAndBaseline(session, v, snap[u].total)
          /\ collection' = NextCollectible(collection, v)
     \/ UNCHANGED store
  /\ SubmitRAVReturn(u)
  /\ UNCHANGED <<memory, ref, resp, pend, to, errTo, wire, restarts>>

-----------------------------------------------------------------------------
(* Settlement marks the record through the operator API; each call carries  *)
(* the value it read.                                                       *)
MarkCollectionPending ==
  /\ CanMarkPending(collection, collection.value)
  /\ collection.attempts < MaxAttempts
  /\ collection' = MarkedPending(collection)
  /\ UNCHANGED <<session, memory, pc, local, wire, restarts>>

MarkCollectionCollected ==
  /\ CanMarkCollected(collection, collection.value)
  /\ collection' = MarkedCollected(collection)
  /\ UNCHANGED <<session, memory, pc, local, wire, restarts>>

MarkCollectionRetryable ==
  /\ CanMarkFailedRetryable(collection, collection.value)
  /\ collection' = MarkedFailedRetryable(collection)
  /\ UNCHANGED <<session, memory, pc, local, wire, restarts>>

\* The provider process dies and starts again: the manager's state, the
\* streams and the calls in progress are gone, the repository (Postgres) is not.
Restart ==
  /\ restarts < MaxRestarts
  /\ restarts' = restarts + 1
  /\ live' = None
  /\ events' = [o \in States |-> None]
  /\ pendingRAV' = [o \in States |-> NoMsg]
  /\ queuedResponse' = [o \in States |-> NoMsg]
  /\ evalMu' = [o \in States |-> None]
  /\ pc' = [t \in Threads |-> IF t \in Streams /\ pc[t] # "idle"
                              THEN "done" ELSE "idle"]
  /\ ref' = [t \in Threads |-> None]
  /\ snap' = [t \in Threads |-> NoSnapshot]
  /\ resp' = [t \in Threads |-> NoMsg]
  /\ pend' = [t \in Threads |-> NoMsg]
  /\ to' = [t \in Threads |-> None]
  /\ chan' = [s \in Streams |-> <<>>]
  /\ inbox' = [s \in Streams |-> <<>>]
  /\ sub' = [s \in Streams |-> NoSubmission]
  /\ stop' = [s \in Streams |-> IF pc[s] \in {"idle", "done"}
                                THEN stop[s] ELSE "restart"]
  /\ UNCHANGED <<store, errTo>>

-----------------------------------------------------------------------------
EvalStep(t) ==
  \/ EvalEnsure(t) \/ EvalRead(t) \/ EvalFail(t) \/ EvalAssess(t)
  \/ EvalClearPending(t) \/ EvalCheck(t) \/ Dispatch(t) \/ DispatchSend(t)
  \/ DispatchAck(t)

StreamStep(s) ==
  \/ StreamOpen(s) \/ Bind(s) \/ BindDeliver(s) \/ BindDelivered(s)
  \/ StreamSend(s) \/ StreamClose(s) \/ StreamReceive(s) \/ FundsAck(s)
  \/ SubmitValidate(s) \/ SubmitCommit(s) \/ SubmitAccepted(s) \/ Unbind(s)

SubmitRAVStep(u) ==
  \/ SubmitRAVRead(u) \/ SubmitRAVPendingCheck(u) \/ SubmitRAVStore(u)

Next ==
  \/ \E m \in Meters : Report(m)
  \/ \E t \in Streams \cup Meters : EvalStep(t)
  \/ \E s \in Streams : StreamStep(s) \/ ConsumerAnswer(s) \/ ConsumerStray(s)
  \/ \E u \in Unaries : SubmitRAVStep(u)
  \/ MarkCollectionPending \/ MarkCollectionCollected \/ MarkCollectionRetryable
  \/ Restart

Spec == Init /\ [][Next]_vars

(* Every goroutine that can run is eventually scheduled, a connected        *)
(* consumer answers the requests it receives.  Nothing forces usage, a new  *)
(* stream, a disconnect, settlement or a restart to happen.                 *)
StreamWork(s) ==
  \/ Bind(s) \/ BindDeliver(s) \/ BindDelivered(s) \/ StreamSend(s)
  \/ StreamReceive(s) \/ FundsAck(s) \/ SubmitValidate(s) \/ SubmitCommit(s)
  \/ SubmitAccepted(s) \/ Unbind(s)

Fairness ==
  /\ \A t \in Streams \cup Meters : WF_vars(EvalStep(t))
  /\ \A s \in Streams : WF_vars(StreamWork(s)) /\ WF_vars(ConsumerAnswer(s))

FairSpec == Spec /\ Fairness

-----------------------------------------------------------------------------
(* Properties.                                                              *)

\* Every variable has its type.
TypeOK ==
  /\ session \in Session
  /\ collection \in CollectionRecord
  /\ live \in States \cup {None}
  /\ events \in [States -> Streams \cup {None}]
  /\ pendingRAV \in [States -> Msg]
  /\ queuedResponse \in [States -> Msg]
  /\ evalMu \in [States -> Threads \cup {None}]
  /\ pc \in [Threads -> Labels]
  /\ ref \in [Threads -> States \cup {None}]
  /\ snap \in [Threads -> Session]
  /\ resp \in [Threads -> Msg]
  /\ pend \in [Threads -> Msg]
  /\ to \in [Threads -> Streams \cup {None}]
  /\ errTo \in [Streams -> {"loop", "exit"}]
  /\ chan \in [Streams -> Seq(Msg)]
  /\ inbox \in [Streams -> Seq(Msg)]
  /\ sub \in [Streams -> Submission \cup {NoSubmission}]
  /\ stop \in [Streams -> StopReasons]
  /\ restarts \in 0..MaxRestarts

\* Usage the provider counts as paid was metered, and the stored RAV pays for
\* it: the accepted RAV and the baseline of SessionUpdateRAVAndBaseline never
\* come apart to the provider's loss, on a stream, through SubmitRAV, after a
\* rebind or a restart.
RAVCoversBaseline ==
  /\ session.base <= session.total
  /\ session.rav >= InitialRAV + session.base

\* Where every RAV is accepted on PaymentSession, the consumer signs exactly
\* what was metered: "RAV overpays in-flight request" leaves no other way.
ExactAccounting ==
  Unaries = {} => session.rav = InitialRAV + session.base

\* Lifecycle writes never reopen a terminated session (the stale snapshot an
\* evaluation holds says "active"), nor does accepting a RAV.
TerminatedIsFinal ==
  [][session.status = "terminated" => session'.status = "terminated"]_vars

\* A runtime state that is no longer in the manager's map holds no stream, no
\* request and no queued response: deleting one never loses control state,
\* though a thread may still lock and use it.
NoControlStateOrphaned ==
  \A o \in States \ {live} :
    /\ events[o] = None
    /\ pendingRAV[o] = NoMsg
    /\ queuedResponse[o] = NoMsg

\* Streams past bindSession, up to the deferred unbind.
Bound(s) == pc[s] \notin {"idle", "bind", "exit", "done"}

\* A stream that was bound stays the one the manager delivers to until it
\* unbinds, and what it locks to accept a RAV is the state in the map.
BoundStreamOwnsLiveState ==
  \A s \in Streams :
    Bound(s) =>
      /\ live # None /\ events[live] = s
      /\ ref[s] \in {None, live}

\* A need-more-funds response, queued or on its way, is about a session the
\* repository has already ended.
FundsStopOnlyAfterTermination ==
  (\/ \E o \in States : queuedResponse[o].kind = "funds"
   \/ \E t \in Threads : resp[t].kind = "funds"
   \/ \E s \in Streams :
        \/ stop[s] = "funds"
        \/ \E i \in 1..Len(chan[s]) : chan[s][i].kind = "funds")
  => session.status = "terminated"

\* The RAV requests a stream has issued and the consumer has not settled, each
\* by where it is: still to be received, held by the consumer, or answered.
OutstandingRequests(s) ==
  {<<"sent", i>> : i \in {j \in 1..Len(chan[s]) : chan[s][j].kind = "rav"}}
    \cup {<<"held", i>> : i \in 1..Len(inbox[s])}
    \cup {<<"answer", i>> : i \in {j \in {1} : sub[s].kind = "rav"}}

\* At most one RAV request is in flight on a stream, and it is the one the
\* provider will check the answer against.
OneRequestInFlight ==
  \A s \in Streams :
    /\ \A r1, r2 \in OutstandingRequests(s) : r1 = r2
    /\ Bound(s) /\ IsActive(session) /\ inbox[s] # <<>> =>
         Head(inbox[s]) = pendingRAV[live]

\* A consumer that answers each provider request with the value it asks for is
\* never stopped for its answer, as long as no repository or chain call fails
\* (a failed isSignerAuthorized stops the stream of an honest consumer too).
HonestConsumerNotRejected ==
  Strays = {} /\ ~RepoFails => \A s \in Streams : stop[s] # "rejected"

\* The non-blocking sends of dispatch and tryDeliverQueuedResponse always find
\* room: with a consumer that only answers, a request and the need-more-funds
\* response that follows it are all a stream's channel ever holds, so that no
\* response is left behind for a bind that may never come.
ResponsesFit ==
  Strays = {} =>
    \A t \in Streams \cup Meters :
      /\ pc[t] = "send" => Len(chan[to[t]]) < EventsCap
      /\ pc[t] = "deliver" => Len(chan[t]) < EventsCap

\* A RAV that replaces an accepted one is worth at least as much.
AcceptedRAVNeverDecreases ==
  [][session'.rav >= session.rav]_vars

\* The session's books, as PaymentLedger keeps them.
Ledger ==
  INSTANCE PaymentLedger WITH
    status <- session.status, total <- session.total,
    covered <- session.base, rav <- session.rav

\* With one stream and no unary submissions the provider implements the
\* ledger: no underpayment, no overpayment, no payment after the end.
ImplementsLedger == Ledger!Spec

\* Usage over the threshold on a served stream is eventually paid for, or the
\* session or the stream ends: no request is lost between the threads.
UsageEventuallyPaid ==
  \A s \in Streams :
    (pc[s] = "loop" /\ IsActive(session) /\ ShouldRequestRAV(session))
      ~> (~ShouldRequestRAV(session) \/ ~IsActive(session) \/ pc[s] = "done")
=============================================================================
