------------------------------ MODULE Ingress ------------------------------
(***************************************************************************)
(* One stream through the consumer sidecar's ingress: the proxy goroutine, *)
(* which bootstraps the session, relays the provider's blocks and decides  *)
(* how the stream ended; the payment control goroutine, which signs what   *)
(* the provider requests over the payment session client; and the          *)
(* termination coordinator between them.  The three protocol versions of   *)
(* the proxy share this control flow.                                      *)
(*                                                                         *)
(* The provider is seen from the consumer: it meters usage, asks for a RAV *)
(* when what is unpaid reaches its threshold, accepts RAVs or ends the     *)
(* session, and answers a status request with three reads of its state.    *)
(* Costs are whole units.  Errors are kept as their gRPC code.  In mode    *)
(* "client" several goroutines use the payment session client instead, as  *)
(* its exported operations allow.                                          *)
(***************************************************************************)
EXTENDS PaymentSessionClient, Sequences, FiniteSetsExt

CONSTANTS
  Control,      \* the payment control goroutine
  StopBlock,    \* the request's stop block (0: none)
  Threshold,    \* ravRequestThreshold: the unpaid units that make a RAV due
  MaxUsage,     \* bound on metered units
  MaxFailures   \* bound on failed sends, polls and broken streams

ASSUME IngressAssumption ==
  /\ Callers \subseteq Nat
  /\ Control \in Callers
  /\ StopBlock \in Nat /\ MaxUsage \in Nat
  /\ Threshold \in Nat \ {0}
  /\ MaxGenerations \in Nat /\ MaxFailures \in Nat

VARIABLES
  mode,         \* "ingress" or "client"
  provider,     \* the provider's session
  down,         \* messages to the control goroutine, in order
  up,           \* the submitted RAV on its way (0: none)
  upstream,     \* the data stream: open, or how it ended
  block,        \* the highest block relayed
  proxy,        \* the proxy goroutine
  outcome,      \* what the proxy answers its caller
  session,      \* the local session: whether stored, its RAV, its usage
  pendingRAV,   \* the RAV the control goroutine waits to see accepted
  coordinator,  \* the termination coordinator
  canceled,     \* the runtime context is cancelled
  clientGone,   \* the caller's context is cancelled
  failures

vars == <<clientVars, mode, provider, down, up, upstream, block, proxy, outcome,
          session, pendingRAV, coordinator, canceled, clientGone, failures>>

\* Groups of variables that actions leave alone together.
providerVars == <<provider, down, up, upstream>>
proxyVars == <<block, proxy, outcome>>
controlVars == <<session, pendingRAV, coordinator>>

Init ==
  /\ ClientInit
  /\ mode \in {"ingress", "client"}
  /\ provider = [active |-> FALSE, reason |-> "none", metered |-> 0, rav |-> 0,
                 requested |-> 0, worker |-> FALSE]
  /\ down = <<>> /\ up = 0
  /\ upstream = "none"
  /\ block = 0
  /\ proxy = [at |-> "bootstrap", wait |-> "none", pending |-> FALSE, unpaid |-> 0]
  /\ outcome = "none"
  /\ session = [stored |-> FALSE, rav |-> 0, usage |-> 0]
  /\ pendingRAV = 0
  /\ coordinator = [result |-> "none", error |-> "none", pending |-> FALSE]
  /\ canceled = FALSE /\ clientGone = FALSE
  /\ failures = 0

Fail == failures < MaxFailures /\ failures' = failures + 1

Goto(place) ==
  proxy' = [proxy EXCEPT !.at = place, !.pending = FALSE, !.unpaid = 0]

\* The proxy has its answer: the deferred calls follow.
Return(code) ==
  /\ proxy' = [at |-> "finish", wait |-> "none", pending |-> FALSE, unpaid |-> 0]
  /\ outcome' = code

-----------------------------------------------------------------------------
(* The provider.                                                            *)

\* UsageDeltaSinceBaseline: a RAV covers what was metered when it was requested.
Unpaid == provider.metered - provider.rav

\* shouldRequestRAV; the ingress always starts a session with a RAV.
shouldRequestRAV(unpaid) == unpaid >= Threshold

\* A message on the stream, while the control goroutine reads it.
Deliver(message) ==
  down' = IF client.bound /\ caller[Control].op # "done"
          THEN Append(down, message) ELSE down

\* A request carries the current RAV and the usage since; nothing else does.
Request(rav, usage) == [kind |-> "rav_request", rav |-> rav, usage |-> usage]
Notice(kind) == [kind |-> kind, rav |-> 0, usage |-> 0]

\* The stream the control goroutine uses: bound, and neither end closed it.
Connected == client.bound /\ provider.active

\* A report is booked whatever became of the stream, its worker slot or the
\* session since.
Meter ==
  /\ upstream # "none"
  /\ provider.metered < MaxUsage
  /\ provider' = [provider EXCEPT !.metered = @ + 1]
  /\ UNCHANGED <<clientVars, mode, down, up, upstream, proxyVars, controlVars,
                 canceled, clientGone, failures>>

\* What the answer has to come to is kept until it comes.
RequestRAV ==
  /\ Connected
  /\ provider.requested = 0 /\ shouldRequestRAV(Unpaid)
  /\ provider' = [provider EXCEPT !.requested = provider.metered]
  /\ Deliver(Request(provider.rav, Unpaid))
  /\ UNCHANGED <<clientVars, mode, up, upstream, proxyVars, controlVars,
                 canceled, clientGone, failures>>

\* The submission arrives: it is accepted if it is the one requested, or the
\* stream is stopped; a refusal leaves the session as it is.
Submission ==
  /\ up > 0
  /\ up' = 0
  /\ \/ /\ provider.active /\ up = provider.requested
        /\ provider' = [provider EXCEPT !.rav = up, !.requested = 0]
        /\ Deliver(Notice("continue"))
     \/ /\ Deliver(Notice("stop"))
        /\ UNCHANGED provider
  /\ UNCHANGED <<clientVars, mode, upstream, proxyVars, controlVars, canceled,
                 clientGone, failures>>

\* The assessment of funds ends the session.
StopForFunds ==
  /\ provider.active /\ Unpaid > 0
  /\ provider' = [provider EXCEPT !.active = FALSE, !.requested = 0,
                                  !.reason = "payment_issue"]
  /\ Deliver(Notice("need_more_funds"))
  /\ UNCHANGED <<clientVars, mode, up, upstream, proxyVars, controlVars,
                 canceled, clientGone, failures>>

\* The data plane relays blocks and ends; its worker slot is returned later.
UpstreamEnds ==
  /\ upstream = "open"
  /\ upstream' \in {"eof", "unavailable", "internal"}
  /\ UNCHANGED <<clientVars, mode, provider, down, up, proxyVars, controlVars,
                 canceled, clientGone, failures>>

ReturnWorker ==
  /\ provider.worker
  /\ upstream # "open"
  /\ provider' = [provider EXCEPT !.worker = FALSE]
  /\ UNCHANGED <<clientVars, mode, down, up, upstream, proxyVars, controlVars,
                 canceled, clientGone, failures>>

\* The session ends for another reason than payment.
EndProviderSession ==
  /\ provider.active
  /\ \E reason \in {"complete", "provider_stop"} :
       provider' = [provider EXCEPT !.active = FALSE, !.requested = 0,
                                    !.reason = reason]
  /\ UNCHANGED <<clientVars, mode, down, up, upstream, proxyVars, controlVars,
                 canceled, clientGone, failures>>

-----------------------------------------------------------------------------
(* The termination coordinator.                                             *)

\* Mutant: the stream is cut and the reason is not kept.
SetResultDropped(kind, error) ==
  /\ canceled' = (canceled \/ kind # "canceled")
  /\ UNCHANGED coordinator

\* setResult: the first one wins, and all but setCanceled cut the stream.
SetResult(kind, error) ==
  IF coordinator.result # "none" THEN UNCHANGED <<coordinator, canceled>>
  ELSE /\ coordinator' = [coordinator EXCEPT !.result = kind, !.error = error]
       /\ canceled' = (canceled \/ kind # "canceled")

\* currentError, if there is a result
CurrentError(otherwise) == IF coordinator.result # "none" THEN coordinator.error ELSE otherwise

\* setPaymentControlPending
SetPending(pending) == coordinator' = [coordinator EXCEPT !.pending = pending]

\* resolveAmbiguousIngressSessionStatus: the code that the session stands for,
\* as a status request reads it.
Resolve ==
  IF provider.active THEN "unresolved"
  ELSE IF provider.reason = "complete" THEN "ok"
  ELSE IF provider.reason = "payment_issue" THEN "exhausted"
  ELSE "unavailable"

-----------------------------------------------------------------------------
(* bootstrapManagedSession and prepareIngressRuntime                        *)

\* Selection, signing or StartSession fails, or the provider rejects.
BootstrapRefused ==
  /\ mode = "ingress" /\ proxy.at = "bootstrap"
  /\ outcome' \in {"unavailable", "refused"}
  /\ Goto("returned")
  /\ UNCHANGED <<clientVars, mode, providerVars, block, controlVars, canceled,
                 clientGone, failures>>

\* The provider has created the session: its answer is unusable (no data-plane
\* endpoint, pricing or RAV that does not parse), or both sides hold it now.
Bootstrap ==
  /\ mode = "ingress" /\ proxy.at = "bootstrap"
  /\ provider' = [provider EXCEPT !.active = TRUE]
  /\ \/ /\ outcome' = "internal"
        /\ Goto("returned")
        /\ UNCHANGED <<caller, session>>
     \/ /\ session' = [session EXCEPT !.stored = TRUE]
        /\ caller' = [caller EXCEPT
                        ![Control] = [NoCall EXCEPT !.op = "bind", !.at = "start"]]
        /\ Goto("connect")
        /\ UNCHANGED outcome
  /\ UNCHANGED <<client, sentOn, mode, down, up, upstream, block,
                 pendingRAV, coordinator, canceled, clientGone,
                 failures>>

-----------------------------------------------------------------------------
(* proxyV2Stream, proxyV3Stream, proxyV4Stream                              *)

\* Opening the upstream stream takes a worker slot, or fails.
Connect ==
  /\ proxy.at = "connect"
  /\ \/ /\ upstream' = "open"
        /\ provider' = [provider EXCEPT !.worker = provider.active]
        /\ Goto("stream")
        /\ UNCHANGED outcome
     \/ /\ Return("unavailable")
        /\ UNCHANGED <<provider, upstream>>
  /\ UNCHANGED <<clientVars, mode, down, up, block, controlVars, canceled,
                 clientGone, failures>>

\* A response has the number of a block, those of a batch, or that of the last
\* valid block of an undo signal, and raises the highest number seen.
observe(highest, numbers) == Max({highest} \cup numbers)

\* A response is relayed and its blocks are noted.
Relay ==
  /\ proxy.at = "stream" /\ upstream = "open"
  /\ ~canceled
  /\ \E numbers \in SUBSET (1 .. StopBlock - 1) : block' = observe(block, numbers)
  /\ UNCHANGED <<clientVars, mode, providerVars, proxy, outcome,
                 controlVars, canceled,
                 clientGone, failures>>

\* The caller is gone when a block is sent on to it.
RelayFails ==
  /\ proxy.at = "stream" /\ upstream = "open"
  /\ clientGone
  /\ Return("canceled")
  /\ UNCHANGED <<clientVars, mode, providerVars, block, controlVars, canceled,
                 clientGone, failures>>

ClientLeaves ==
  /\ mode = "ingress"
  /\ ~clientGone /\ outcome = "none"
  /\ clientGone' = TRUE /\ canceled' = TRUE
  /\ UNCHANGED <<clientVars, mode, providerVars, proxyVars, controlVars,
                 failures>>

\* A cancelled context ends the upstream call.
UpstreamCanceled ==
  /\ upstream = "open" /\ canceled
  /\ proxy.at = "stream"
  /\ upstream' = "canceled"
  /\ UNCHANGED <<clientVars, mode, provider, down, up, proxyVars, controlVars,
                 canceled, clientGone, failures>>

\* expectedEOF: the last block before the stop block was relayed.
ExpectedEOF == StopBlock # 0 /\ block # 0 /\ block + 1 >= StopBlock

\* isAmbiguousIngressUpstreamError, or the runtime was cancelled.
Ambiguous == ~clientGone /\ (canceled \/ upstream # "internal")

Await(wait) == proxy' = [proxy EXCEPT !.at = "look", !.wait = wait]

\* awaitFiniteIngressPostStreamControl and its ambiguous sibling, which start
\* with the payment client that Bootstrap has set up.
AwaitFinite == Await("finite")
AwaitAmbiguous == Await("ambiguous")

\* resolveIngressStreamTermination up to the wait it chooses
ResolveTermination ==
  /\ proxy.at = "stream"
  /\ upstream # "open"
  /\ \/ /\ coordinator.result # "none"
        /\ Return(coordinator.error)
     \/ /\ coordinator.result = "none"
        /\ \/ upstream = "eof" /\ ExpectedEOF /\ AwaitFinite
           \/ upstream = "eof" /\ ~ExpectedEOF /\ AwaitAmbiguous
           \/ upstream # "eof" /\ Ambiguous /\ AwaitAmbiguous
           \/ upstream # "eof" /\ ~Ambiguous /\ Goto("last")
        /\ UNCHANGED outcome
  /\ UNCHANGED <<clientVars, mode, providerVars, block, controlVars, canceled,
                 clientGone, failures>>

\* Its last look at the coordinator, then the upstream error itself.
ReturnUpstreamError ==
  /\ proxy.at = "last"
  /\ Return(CurrentError(upstream))
  /\ UNCHANGED <<clientVars, mode, providerVars, block, controlVars, canceled,
                 clientGone, failures>>

-----------------------------------------------------------------------------
(* awaitFiniteIngressPostStreamControl ("finite") and                       *)
(* awaitAmbiguousIngressTerminationResolution ("ambiguous")                 *)

\* The loop's start: the coordinator's result, then its pending flag.
LookAtCoordinator ==
  /\ proxy.at = "look"
  /\ \/ /\ coordinator.result # "none"
        /\ Return(coordinator.error)
     \/ /\ coordinator.result = "none"
        /\ proxy' = [proxy EXCEPT !.at = "poll", !.pending = coordinator.pending]
        /\ UNCHANGED outcome
  /\ UNCHANGED <<clientVars, mode, providerVars, block, controlVars, canceled,
                 clientGone, failures>>

\* Mutant: the provider's own pending control is not asked for.
NothingPendingLocally == ~proxy.pending

\* A finite stream is over when neither side has payment control pending: not
\* the consumer when it was looked at, and not the provider, which waits for
\* no RAV and, when the session was read, had none due.
NothingPending ==
  ~proxy.pending /\ provider.requested = 0 /\ ~shouldRequestRAV(proxy.unpaid)

\* GetSessionStatus reads the session: one that ended resolves the wait.
PollSession ==
  /\ proxy.at = "poll"
  /\ ~clientGone
  /\ \/ /\ Resolve # "unresolved"
        /\ Return(Resolve)
     \/ /\ Resolve = "unresolved"
        /\ proxy' = [proxy EXCEPT !.at = "workers", !.unpaid = Unpaid]
        /\ UNCHANGED outcome
  /\ UNCHANGED <<clientVars, mode, providerVars, block, controlVars, canceled,
                 clientGone, failures>>

\* paymentControlPending then counts the workers: a worker leaves it pending.
PollWorkers ==
  /\ proxy.at = "workers"
  /\ ~clientGone
  /\ \/ provider.worker /\ Goto("wait")
     \/ ~provider.worker /\ proxy' = [proxy EXCEPT !.at = "runtime"]
  /\ UNCHANGED <<clientVars, mode, providerVars, block, outcome, controlVars,
                 canceled, clientGone, failures>>

\* It asks the runtime last; the answer arrives within the deadline.
PollRuntime ==
  /\ proxy.at = "runtime"
  /\ ~clientGone
  /\ \/ /\ proxy.wait = "finite" /\ NothingPending
        /\ Return("ok")
     \/ /\ proxy.wait = "ambiguous" \/ ~NothingPending
        /\ Goto("wait")
        /\ UNCHANGED outcome
  /\ UNCHANGED <<clientVars, mode, providerVars, block, controlVars, canceled,
                 clientGone, failures>>

\* The request fails, or is cancelled with the caller.
PollFails ==
  /\ proxy.at \in {"poll", "workers", "runtime"}
  /\ IF clientGone THEN UNCHANGED failures ELSE Fail
  /\ Goto("wait")
  /\ UNCHANGED <<clientVars, mode, providerVars, block, outcome, controlVars,
                 canceled, clientGone>>

\* The ticker, a change of the pending flag or the end of the control goroutine.
WakeUp ==
  /\ proxy.at = "wait"
  /\ Goto("look")
  /\ UNCHANGED <<clientVars, mode, providerVars, block, outcome,
                 controlVars, canceled,
                 clientGone, failures>>

\* The caller left, or the deadline passed, at whatever poll that happens: the
\* coordinator is asked once more.
GiveUp ==
  /\ proxy.at = "wait"
  /\ Return(CurrentError(IF clientGone THEN "canceled" ELSE "unavailable"))
  /\ UNCHANGED <<clientVars, mode, providerVars, block, controlVars, canceled,
                 clientGone, failures>>

-----------------------------------------------------------------------------
(* The deferred calls: finishIngressRuntime, then cleanup.                  *)

\* finishIngressRuntime: cancel, and wait for the control goroutine.
CancelRuntime ==
  /\ proxy.at = "finish"
  /\ canceled' = TRUE
  /\ Goto("join")
  /\ UNCHANGED <<clientVars, mode, providerVars, block, outcome,
                 controlVars, clientGone, failures>>

\* controlDone is closed: the session is deleted, the payment session closed.
JoinControl ==
  /\ proxy.at = "join"
  /\ caller[Control].op = "done"
  /\ session' = [session EXCEPT !.stored = FALSE]
  /\ Close
  /\ Goto("returned")
  /\ UNCHANGED <<mode, providerVars, block, outcome, pendingRAV,
                 coordinator, canceled, clientGone, failures>>

-----------------------------------------------------------------------------
(* runIngressPaymentControl                                                 *)

ControlAt(op) == caller' = [caller EXCEPT ![Control] = [NoCall EXCEPT !.op = op]]

\* The goroutine ends with a result; nobody reads what is still to come.
EndControl(kind, error) ==
  /\ SetResult(kind, error)
  /\ ControlAt("done")
  /\ down' = <<>>

controlRest == <<mode, provider, upstream, proxyVars, clientGone>>

\* Its client calls, as PaymentSessionClient has them.
ControlProceeds ==
  /\ mode = "ingress"
  /\ BindStart(Control) \/ SendStart(Control) \/ Lock(Control)
  /\ UNCHANGED <<controlRest, down, up, controlVars, canceled, failures>>

ControlBinds ==
  /\ mode = "ingress"
  /\ BindSent(Control)
  /\ UNCHANGED <<controlRest, down, up, controlVars, canceled, failures>>

\* The submission leaves; the provider sees it if its session is still there.
ControlSubmits ==
  /\ mode = "ingress"
  /\ RAVSent(Control)
  /\ up' = IF provider.active THEN pendingRAV ELSE 0
  /\ UNCHANGED <<controlRest, down, controlVars, canceled, failures>>

ControlSendFails ==
  /\ mode = "ingress"
  /\ SendFails(Control)
  /\ Fail
  /\ UNCHANGED <<controlRest, down, up, controlVars, canceled>>

\* A client call returned: receive next, or end; a submission that failed is
\* followed by a status request.
ControlReturns ==
  /\ mode = "ingress"
  /\ caller[Control].op \in {"bind", "rav"}
  /\ \/ /\ caller[Control].at = "ok"
        /\ ControlAt("receive")
        /\ UNCHANGED <<down, coordinator, canceled>>
     \/ /\ caller[Control].at = "error" /\ caller[Control].op = "bind"
        /\ EndControl("failure", "unavailable")
     \/ /\ caller[Control].at = "error" /\ caller[Control].op = "rav"
        /\ ControlAt("status")
        /\ UNCHANGED <<down, coordinator, canceled>>
  /\ UNCHANGED <<controlRest, client, sentOn, up, session, pendingRAV,
                 failures>>

\* After a failed submission the provider's own view decides, if it is known.
ControlStatus ==
  /\ caller[Control].op = "status"
  /\ \/ /\ ~canceled
        /\ \/ Resolve = "ok" /\ EndControl("canceled", "canceled")
           \/ Resolve = "exhausted" /\ EndControl("stop", "exhausted")
           \/ /\ Resolve \in {"unavailable", "unresolved"}
              /\ EndControl("failure", "unavailable")
        /\ UNCHANGED failures
     \/ /\ IF canceled THEN UNCHANGED failures ELSE Fail
        /\ EndControl("failure", "unavailable")
  /\ UNCHANGED <<controlRest, client, sentOn, up, session, pendingRAV>>

Receiving(kind) ==
  /\ caller[Control].op = "receive"
  /\ down # <<>> /\ Head(down).kind = kind

\* signRAVForRequest: the value signed is that of the current RAV plus the usage.
Signed(request) == request.rav + request.usage

\* Mutant: the session takes over the RAV when it is signed.
CountUsageAndSetRAV(request) ==
  session' = [session EXCEPT !.usage = @ + request.usage, !.rav = Signed(request)]

\* session.AddUsage
CountUsage(request) == session' = [session EXCEPT !.usage = @ + request.usage]

\* rav_request: sign current RAV plus usage, count the usage, submit.  The RAV
\* becomes pending when the submission is sent; nothing looks at it before.
ReceiveRAVRequest ==
  /\ Receiving("rav_request")
  /\ down' = Tail(down)
  /\ SetPending(TRUE)
  /\ pendingRAV' = Signed(Head(down))
  /\ CountUsage(Head(down))
  /\ caller' = [caller EXCEPT
                  ![Control] = [NoCall EXCEPT !.op = "rav", !.at = "start"]]
  /\ UNCHANGED <<controlRest, client, sentOn, up, canceled, failures>>

\* The request cannot be signed.
ReceiveUnsignable ==
  /\ Receiving("rav_request")
  /\ Fail
  /\ coordinator' = [result |-> "failure", error |-> "internal", pending |-> TRUE]
  /\ canceled' = TRUE
  /\ ControlAt("done")
  /\ down' = <<>>
  /\ UNCHANGED <<controlRest, client, sentOn, up, session, pendingRAV>>

\* session.SetRAV, if a RAV waits to be accepted.
AcceptPending ==
  session' = IF pendingRAV # 0 THEN [session EXCEPT !.rav = pendingRAV] ELSE session

\* session_control continue
ReceiveContinue ==
  /\ Receiving("continue")
  /\ down' = Tail(down)
  /\ AcceptPending
  /\ pendingRAV' = 0
  /\ SetPending(FALSE)
  /\ UNCHANGED <<controlRest, clientVars, up, canceled, failures>>

\* need_more_funds, or session_control with another action
ReceiveStop ==
  /\ Receiving("need_more_funds") \/ Receiving("stop")
  /\ EndControl("stop", "exhausted")
  /\ UNCHANGED <<controlRest, client, sentOn, up, session, pendingRAV, failures>>

\* Mutant: a cancelled runtime does not end the wait for a message.
ReceiveErrorOfStream ==
  /\ Receiving("error") /\ ~canceled /\ EndControl("failure", "unavailable")
  /\ UNCHANGED <<controlRest, client, sentOn, up, session, pendingRAV, failures>>

\* The stream failed, or the runtime was cancelled.
ReceiveError ==
  /\ \/ Receiving("error") /\ ~canceled /\ EndControl("failure", "unavailable")
     \/ /\ caller[Control].op = "receive" /\ canceled
        /\ EndControl("canceled", "canceled")
  /\ UNCHANGED <<controlRest, client, sentOn, up, session, pendingRAV, failures>>

\* The payment session stream breaks.
BreakStream ==
  /\ Connected
  /\ Fail
  /\ Deliver(Notice("error"))
  /\ UNCHANGED <<controlRest, clientVars, up, controlVars, canceled>>

-----------------------------------------------------------------------------
(* Mode "client": every goroutine binds and then submits, while the         *)
(* endpoint changes and the client is closed.  The goroutines are alike and *)
(* are numbered in the order they start.                                    *)

ClientStep ==
  /\ mode = "client"
  /\ \/ SetEndpoint
     \/ Close
     \/ \E g \in Callers :
          \/ /\ caller[g].at = "idle"
             /\ \A h \in Callers : h < g => caller[h].op # "none"
             /\ Call(g, "bind")
          \/ caller[g].op = "bind" /\ caller[g].at # "idle" /\ Call(g, "rav")
          \/ Proceed(g)
          \/ SendFails(g)

ClientNext ==
  /\ ClientStep
  /\ UNCHANGED <<mode, providerVars, proxyVars, controlVars, canceled,
                 clientGone, failures>>

\* Once the proxy has its answer, only what is under way on the stream matters.
ProviderNext ==
  \/ RequestRAV \/ Submission
  \/ /\ outcome = "none"
     /\ \/ Meter \/ StopForFunds \/ UpstreamEnds \/ ReturnWorker
        \/ EndProviderSession \/ BreakStream

ProxyNext ==
  \/ BootstrapRefused \/ Bootstrap \/ Connect \/ Relay \/ RelayFails
  \/ UpstreamCanceled \/ ResolveTermination \/ ReturnUpstreamError
  \/ LookAtCoordinator \/ PollSession \/ PollWorkers \/ PollRuntime
  \/ PollFails \/ WakeUp \/ GiveUp \/ CancelRuntime \/ JoinControl

ControlNext ==
  \/ ControlProceeds \/ ControlBinds \/ ControlSubmits \/ ControlSendFails
  \/ ControlReturns \/ ControlStatus \/ ReceiveRAVRequest \/ ReceiveUnsignable
  \/ ReceiveContinue \/ ReceiveStop \/ ReceiveError

Next ==
  \/ ClientNext
  \/ /\ mode = "ingress" /\ proxy.at # "returned"
     /\ (ProviderNext \/ ProxyNext \/ ControlNext \/ ClientLeaves)

Spec == Init /\ [][Next]_vars

\* Goroutines run on and deadlines pass.  Nothing is assumed of the provider,
\* of what the caller does, nor of a send: Send waits for as long as the peer
\* takes.
Fairness ==
  /\ \A g \in Callers : WF_vars(mode = "client" /\ RunOn(g) /\ ClientNext)
  /\ WF_vars(ControlProceeds \/ ControlReturns \/ ControlStatus \/ ReceiveError)
  /\ WF_vars(Bootstrap \/ Connect \/ ResolveTermination \/ ReturnUpstreamError
               \/ LookAtCoordinator \/ PollSession \/ PollWorkers \/ PollRuntime
               \/ PollFails \/ WakeUp \/ CancelRuntime \/ JoinControl)
  /\ WF_vars(UpstreamCanceled)
  /\ SF_vars(GiveUp)

FairSpec == Spec /\ Fairness

-----------------------------------------------------------------------------
(* Properties.                                                              *)

\* The control goroutine is in SendRAVSubmission, and nothing was sent yet.
Submitting ==
  caller[Control].op = "rav" /\ caller[Control].at \notin {"ok", "error"}

\* A request or a submission is on its way or in the control goroutine's hands.
RequestUnderWay ==
  \/ up > 0 \/ Submitting
  \/ \E i \in 1 .. Len(down) : down[i].kind = "rav_request"

\* A finite stream is answered as complete, in a session that goes on, only
\* when no request for a RAV is under way on either side, what the consumer
\* signed was accepted, and the unpaid usage that the status showed makes no
\* further RAV due.  The consumer's flag and the provider's state are read at
\* different times (awaitFiniteIngressPostStreamControl, GetSessionStatus).
SettledBeforeOk ==
  [][outcome' = "ok" /\ outcome # "ok" /\ provider.active =>
       /\ ~RequestUnderWay
       /\ pendingRAV <= provider.rav
       /\ proxy.unpaid < Threshold]_vars

\* A stream that payment control cut is answered with the reason it was cut
\* for, and not with the cancellation this caused (setResult,
\* resolveIngressStreamTermination).
CutReportsReason ==
  upstream = "canceled" /\ outcome # "none" /\ ~clientGone
    => outcome = coordinator.error

\* The session holds as current only a RAV the provider accepted: a submission
\* that fails, or is answered with a stop, leaves the older one in place.
HeldRAVWasAccepted == session.rav <= provider.rav

\* However the stream ends, the proxy answers, and leaves neither the control
\* goroutine nor the stored session nor an open payment session behind, as
\* long as sends end: finishIngressRuntime waits for the control goroutine, and
\* cancelling the runtime does not reach a send that it is in.
StreamLeavesNothing ==
  SendsEnd =>
    (proxy.at = "stream" /\ (canceled \/ upstream # "open"))
      ~> (/\ proxy.at = "returned"
          /\ ~session.stored
          /\ client.closed /\ ~client.stream
          /\ caller[Control].op = "done")
=============================================================================
