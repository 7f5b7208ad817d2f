---------------------------- MODULE IngressProofs ----------------------------
(***************************************************************************)
(* Proofs about the consumer's payment session client and its ingress, for *)
(* any number of goroutines that use the client, any stop block and any    *)
(* number of failures: a bind belongs to its stream, a RAV counts as       *)
(* accepted only when it was, a finite stream is answered once no payment  *)
(* is under way, and a stream that was cut is answered with the reason.    *)
(***************************************************************************)
EXTENDS Ingress, TLAPS

-----------------------------------------------------------------------------
(* Types.                                                                   *)

Clients ==
  [stream : BOOLEAN, generation : Nat, bound : BOOLEAN, binding : BOOLEAN,
   done : Nat, attempts : Nat, closed : BOOLEAN]

Places == {"idle", "start", "wait", "queued", "sending", "ok", "error"}

Calls ==
  [op : {"none", "bind", "rav", "receive", "status", "done"}, at : Places,
   generation : Nat, done : Nat]

ClientTypes ==
  /\ client \in Clients
  /\ caller \in [Callers -> Calls]

Messages ==
  [kind : {"rav_request", "continue", "stop", "need_more_funds", "error"},
   rav : Nat, usage : Nat]

Providers ==
  [active : BOOLEAN, reason : {"none", "complete", "payment_issue", "provider_stop"},
   metered : Nat, rav : Nat, requested : Nat, worker : BOOLEAN]

Steps ==
  {"bootstrap", "connect", "stream", "last", "look", "poll", "workers", "runtime",
   "wait", "finish", "join", "returned"}

Proxies ==
  [at : Steps, wait : {"none", "finite", "ambiguous"}, pending : BOOLEAN,
   unpaid : Int]

Results == {"canceled", "stop", "failure"}

Errors == {"canceled", "exhausted", "unavailable", "internal"}

Coordinators ==
  [result : Results \cup {"none"}, error : Errors \cup {"none"}, pending : BOOLEAN]

Upstreams == {"none", "open", "eof", "unavailable", "internal", "canceled"}

Sessions == [stored : BOOLEAN, rav : Nat, usage : Nat]

Types ==
  /\ ClientTypes
  /\ provider \in Providers
  /\ down \in Seq(Messages)
  /\ up \in Nat /\ pendingRAV \in Nat
  /\ session \in Sessions
  /\ proxy \in Proxies
  /\ coordinator \in Coordinators
  /\ upstream \in Upstreams

-----------------------------------------------------------------------------
(* The requests and RAVs between provider and control goroutine.            *)

\* Nothing that is signed, submitted or accepted exceeds what was metered.
WithinMetered ==
  /\ provider.rav <= provider.metered
  /\ up <= provider.metered /\ pendingRAV <= provider.metered
  /\ \A i \in 1..Len(down) : Signed(down[i]) <= provider.metered

\* The provider waits for the answer to a request, or the session ended.
Outstanding == provider.requested > 0 \/ ~provider.active

Holds(kind) == \E i \in 1..Len(down) : down[i].kind = kind

\* A request is in one place: on its way to the control goroutine, in its
\* hands, or answered.  It comes after the acceptance of the one before.
RequestsInOrder ==
  /\ \A i \in 1..Len(down) :
       down[i].kind = "rav_request" =>
         /\ Outstanding /\ ~Submitting /\ up = 0
         /\ provider.rav <= Signed(down[i])
         /\ \A j \in 1..Len(down) : down[j].kind = "rav_request" => j = i
         /\ \A j \in 1..Len(down) : down[j].kind = "continue" => j < i
  /\ Submitting =>
       /\ Outstanding /\ up = 0
       /\ provider.rav <= pendingRAV /\ ~Holds("continue")
  /\ up > 0 =>
       /\ Outstanding /\ up = pendingRAV
       /\ provider.rav <= up /\ ~Holds("continue")

\* What the control goroutine will take over was accepted.
ContinueAccepts == Holds("continue") => pendingRAV <= provider.rav

\* What the control goroutine signed was accepted, or is still asked for.
SignedIsAccepted == pendingRAV <= provider.rav \/ Outstanding

\* Before the session is there nothing is under way.
NothingBefore ==
  proxy.at = "bootstrap" =>
    /\ caller[Control] = NoCall /\ down = <<>> /\ up = 0 /\ pendingRAV = 0
    /\ ~provider.active

RAVInv ==
  /\ WithinMetered
  /\ HeldRAVWasAccepted
  /\ mode = "ingress" =>
       RequestsInOrder /\ ContinueAccepts /\ SignedIsAccepted /\ NothingBefore

-----------------------------------------------------------------------------
(* How the stream ends.                                                     *)

Answered == {"finish", "join", "returned"}

\* Who cancelled the runtime left a result, unless the caller left or the
\* proxy has its answer already; and the goroutine that left one has ended.
CutInv ==
  /\ outcome # "none" => proxy.at \in Answered
  /\ canceled /\ ~clientGone /\ proxy.at \notin {"join", "returned"} =>
       coordinator.result # "none"
  /\ upstream = "canceled" /\ ~clientGone =>
       /\ coordinator.result # "none"
       /\ proxy.at \in {"stream"} \cup Answered
       /\ outcome # "none" => outcome = coordinator.error
  /\ coordinator.result # "none" =>
       /\ mode = "ingress"
       /\ caller[Control].op = "done" /\ caller[Control].at = "idle"

IngressInv == Types /\ BoundOnThisStream /\ RAVInv /\ CutInv

-----------------------------------------------------------------------------
(* The client.                                                              *)

LEMMA ClientOperators ==
  ASSUME NEW c \in Clients
  PROVE  /\ CloseLocked(c) \in Clients /\ ~CloseLocked(c).bound
         /\ FinishBinding(c) \in Clients
         /\ FinishBinding(c).bound = c.bound /\ FinishBinding(c).stream = c.stream
         /\ FinishBinding(c).generation = c.generation
         /\ EnsureStream(c) \in Clients
         /\ EnsureStream(c).bound = c.bound
         /\ EnsureStream(c).generation = c.generation
<1>1. CloseLocked(c) \in Clients
  <2>1. c.generation + 1 \in Nat /\ 0 \in Nat
    BY DEF Clients
  <2> QED
    BY <2>1, Zenon DEF Clients, CloseLocked
<1>2. CloseLocked(c).bound = FALSE
  BY Zenon DEF Clients, CloseLocked
<1>3. FinishBinding(c) \in Clients
  BY Zenon DEF Clients, FinishBinding
<1>4. /\ FinishBinding(c).bound = c.bound /\ FinishBinding(c).stream = c.stream
      /\ FinishBinding(c).generation = c.generation
  BY Zenon DEF Clients, FinishBinding
<1>5. EnsureStream(c) \in Clients
  BY Zenon DEF Clients, EnsureStream
<1>6. EnsureStream(c).bound = c.bound /\ EnsureStream(c).generation = c.generation
  BY Zenon DEF Clients, EnsureStream
<1> QED
  BY <1>1, <1>2, <1>3, <1>4, <1>5, <1>6, Zenon

LEMMA NoCallType == NoCall \in Calls /\ NoCall.op = "none" /\ NoCall.at = "idle"
BY DEF NoCall, Calls, Places

LEMMA AtPlace ==
  ASSUME ClientTypes, NEW g \in Callers, NEW place \in Places, At(g, place)
  PROVE  /\ caller' \in [Callers -> Calls]
         /\ caller'[g].op = caller[g].op /\ caller'[g].at = place
BY DEF ClientTypes, Calls, At

\* A call that waits, or queues for a stream.
LEMMA WaitPlace ==
  ASSUME ClientTypes, NEW g \in Callers, Wait(g)
  PROVE  /\ caller' \in [Callers -> Calls]
         /\ caller'[g].op = caller[g].op /\ caller'[g].at = "wait"
BY Zenon DEF ClientTypes, Clients, Calls, Wait, Places

LEMMA QueuePlace ==
  ASSUME ClientTypes, NEW g \in Callers, NEW c \in Clients, Queue(g, c)
  PROVE  /\ caller' \in [Callers -> Calls]
         /\ caller'[g].op = caller[g].op /\ caller'[g].at = "queued"
<1>1. c.done \in Nat /\ c.generation \in Nat /\ "queued" \in Places
  BY DEF Clients, Places
<1> DEFINE call == [caller[g] EXCEPT !.at = "queued", !.done = c.done,
                                     !.generation = c.generation]
<1>2. call \in Calls
  BY <1>1, Zenon DEF ClientTypes, Calls
<1>3. call.op = caller[g].op /\ call.at = "queued"
  BY <1>1 DEF ClientTypes, Calls
<1>4. caller' = [caller EXCEPT ![g] = call]
  BY Zenon DEF ClientTypes, Queue
<1> HIDE DEF call
<1> QED
  BY <1>2, <1>3, <1>4, Zenon DEF ClientTypes

\* A step that sends nothing and leaves the client alone, or unbound.
LEMMA BindKept ==
  ASSUME BoundOnThisStream, sentOn' = sentOn, client' = client \/ ~client'.bound
  PROVE  BoundOnThisStream'
BY Zenon DEF BoundOnThisStream

\* The client after a send: it is bound only if it was bound before, or if the
\* request went out on the stream it has.
LEMMA AfterSend ==
  ASSUME ClientTypes, NEW g \in Callers
  PROVE  /\ AfterBindSent(g) \in Clients /\ AfterBindFailed(g) \in Clients
         /\ AfterBindSent(g).generation = client.generation
         /\ AfterBindSent(g).stream = client.stream
         /\ AfterBindSent(g).bound =>
              \/ client.bound
              \/ SameStream(g)
         /\ AfterBindFailed(g).bound =>
              /\ client.bound
              /\ AfterBindFailed(g).generation = client.generation
              /\ AfterBindFailed(g).stream = client.stream
<1> DEFINE f == FinishBinding(client)
<1>1. /\ client \in Clients /\ f \in Clients
      /\ CloseLocked(client) \in Clients /\ ~CloseLocked(client).bound
      /\ f.bound = client.bound /\ f.stream = client.stream
      /\ f.generation = client.generation
  BY ClientOperators, Zenon DEF ClientTypes
<1> HIDE DEF f
<1> DEFINE b == [f EXCEPT !.bound = TRUE]
<1>2. b \in Clients /\ b.generation = client.generation /\ b.stream = client.stream
  BY <1>1, Zenon DEF Clients
<1> HIDE DEF b
<1>3. AfterBindSent(g) = IF SameStream(g) /\ AttemptActive(g) THEN b
                         ELSE IF AttemptActive(g) THEN f ELSE client
  BY Zenon DEF AfterBindSent, b, f
<1>4. AfterBindFailed(g) = IF SameStream(g) /\ AttemptActive(g) THEN CloseLocked(client)
                           ELSE IF AttemptActive(g) THEN f ELSE client
  BY Zenon DEF AfterBindFailed, f
<1> QED
  BY <1>1, <1>2, <1>3, <1>4, Zenon

\* Every step of a call keeps the client's types, binds only on the stream the
\* request went out on, and goes on with the same call.
LEMMA ProceedKeeps ==
  ASSUME ClientTypes, BoundOnThisStream, NEW g \in Callers,
         Proceed(g) \/ BindFailed(g) \/ RAVFailed(g)
  PROVE  /\ ClientTypes' /\ BoundOnThisStream'
         /\ caller'[g].op = caller[g].op
         /\ caller[g].at \in {"start", "wait", "queued", "sending"}
<1>0. /\ client \in Clients /\ caller \in [Callers -> Calls]
      /\ {"idle", "start", "wait", "queued", "sending", "ok", "error"} \subseteq Places
  BY Zenon DEF ClientTypes, Places
<1>1. CASE BindStart(g)
  <2> DEFINE begun == [EnsureStream(client) EXCEPT
                         !.binding = TRUE, !.attempts = @ + 1,
                         !.done = client.attempts + 1]
  <2>1. begun \in Clients /\ begun.bound = client.bound
    <3>1. /\ EnsureStream(client) \in Clients /\ client.attempts \in Nat
          /\ EnsureStream(client).bound = client.bound
      BY <1>0, ClientOperators DEF Clients
    <3>2. begun \in Clients
      <4>1. EnsureStream(client).attempts + 1 \in Nat /\ client.attempts + 1 \in Nat
        BY <3>1 DEF Clients
      <4> QED
        BY <3>1, <4>1, Zenon DEF Clients
    <3>3. begun.bound = EnsureStream(client).bound
      BY <3>1, Zenon DEF Clients
    <3> QED
      BY <3>1, <3>2, <3>3, Zenon
  <2> HIDE DEF begun
  <2>2. sentOn' = sentOn /\ caller[g].at = "start"
    BY <1>1, Zenon DEF BindStart
  <2>3. \/ client' = client /\ At(g, "ok")
        \/ client' = client /\ Wait(g)
        \/ client' = begun /\ ~client.bound /\ Queue(g, begun)
    BY <1>1, Zenon DEF BindStart, begun
  <2>4. /\ caller' \in [Callers -> Calls] /\ client' \in Clients
        /\ caller'[g].op = caller[g].op
    BY <1>0, <2>1, <2>3, AtPlace, WaitPlace, QueuePlace, Zenon
  <2>5. client' = client \/ ~client'.bound
    BY <2>1, <2>3, Zenon
  <2> QED
    BY <2>2, <2>4, <2>5, BindKept, Zenon DEF ClientTypes
<1>2. CASE SendStart(g)
  <2>1. UNCHANGED <<client, sentOn>> /\ caller[g].at = "start"
    BY <1>2, Zenon DEF SendStart
  <2>2. Queue(g, client) \/ Wait(g) \/ At(g, "error")
    BY <1>2, Zenon DEF SendStart
  <2>3. caller' \in [Callers -> Calls] /\ caller'[g].op = caller[g].op
    BY <1>0, <2>2, AtPlace, WaitPlace, QueuePlace, Zenon
  <2> QED
    BY <1>0, <2>1, <2>3, BindKept, Zenon DEF ClientTypes
<1>3. CASE Wake(g) \/ Lock(g) \/ RAVSent(g)
  <2>1. /\ UNCHANGED <<client, sentOn>>
        /\ caller[g].at \in {"wait", "queued", "sending"}
        /\ At(g, "start") \/ At(g, "sending") \/ At(g, "ok")
    BY <1>3, Zenon DEF Wake, Lock, RAVSent
  <2>2. caller' \in [Callers -> Calls] /\ caller'[g].op = caller[g].op
    BY <1>0, <2>1, AtPlace, Zenon
  <2> QED
    BY <1>0, <2>1, <2>2, BindKept, Zenon DEF ClientTypes
<1>4. CASE BindSent(g)
  <2>1. /\ client' = AfterBindSent(g) /\ caller[g].at = "sending"
        /\ sentOn' = {n \in sentOn \cup {caller[g].generation} : n >= client.generation}
        /\ At(g, "ok") \/ At(g, "error")
    BY <1>4, Zenon DEF BindSent
  <2>2. caller' \in [Callers -> Calls] /\ caller'[g].op = caller[g].op
    BY <1>0, <2>1, AtPlace, Zenon
  <2>3. client.generation >= client.generation
    BY <1>0 DEF Clients
  <2>4. client'.bound => client'.stream /\ client'.generation \in sentOn'
    <3>1. /\ client'.generation = client.generation /\ client'.stream = client.stream
          /\ client'.bound => client.bound \/ SameStream(g)
      BY <2>1, AfterSend, Zenon
    <3>2. client.bound => client.stream /\ client.generation \in sentOn
      BY Zenon DEF BoundOnThisStream
    <3> QED
      BY <2>1, <2>3, <3>1, <3>2, Zenon DEF SameStream
  <2> QED
    BY <2>1, <2>2, <2>4, AfterSend, Zenon DEF ClientTypes, BoundOnThisStream
<1>5. CASE BindFailed(g)
  <2>1. /\ client' = AfterBindFailed(g) /\ caller[g].at = "sending"
        /\ sentOn' = sentOn /\ At(g, "error")
    BY <1>5, Zenon DEF BindFailed
  <2>2. caller' \in [Callers -> Calls] /\ caller'[g].op = caller[g].op
    BY <1>0, <2>1, AtPlace, Zenon
  <2> QED
    BY <2>1, <2>2, AfterSend, Zenon DEF ClientTypes, BoundOnThisStream
<1>6. CASE RAVFailed(g)
  <2>1. /\ client' = CloseLocked(client) \/ client' = client
        /\ caller[g].at = "sending"
        /\ sentOn' = sentOn /\ At(g, "error")
    BY <1>6, Zenon DEF RAVFailed
  <2>2. caller' \in [Callers -> Calls] /\ caller'[g].op = caller[g].op
    BY <1>0, <2>1, AtPlace, Zenon
  <2>3. CloseLocked(client) \in Clients /\ ~CloseLocked(client).bound
    BY <1>0, ClientOperators, Zenon
  <2>4. client' \in Clients /\ (client' = client \/ ~client'.bound)
    BY <1>0, <2>1, <2>3, Zenon
  <2> QED
    BY <2>1, <2>2, <2>4, BindKept, Zenon DEF ClientTypes
<1> QED
  BY <1>1, <1>2, <1>3, <1>4, <1>5, <1>6, Zenon DEF Proceed, RunOn

\* Another endpoint, or the end of the client.
LEMMA CloseKeeps ==
  ASSUME ClientTypes, BoundOnThisStream, SetEndpoint \/ Close
  PROVE  ClientTypes' /\ BoundOnThisStream'
<1>1. client \in Clients /\ CloseLocked(client) \in Clients /\ ~CloseLocked(client).bound
  BY ClientOperators, Zenon DEF ClientTypes
<1>2. client' \in Clients /\ ~client'.bound
  <2>1. [CloseLocked(client) EXCEPT !.closed = TRUE] \in Clients
    BY <1>1, Zenon DEF Clients
  <2>2. [CloseLocked(client) EXCEPT !.closed = TRUE].bound = CloseLocked(client).bound
    BY <1>1 DEF Clients
  <2> QED
    BY <1>1, <2>1, <2>2, Zenon DEF SetEndpoint, Close
<1>3. caller' = caller /\ sentOn' = sentOn
  BY Zenon DEF SetEndpoint, Close
<1> QED
  BY <1>2, <1>3, BindKept, Zenon DEF ClientTypes

\* A goroutine begins a call, or the control goroutine leaves the client.
LEMMA CallKeeps ==
  ASSUME ClientTypes, BoundOnThisStream, UNCHANGED <<client, sentOn>>,
         NEW g \in Callers, NEW call \in Calls, caller' = [caller EXCEPT ![g] = call]
  PROVE  ClientTypes' /\ BoundOnThisStream' /\ caller'[g] = call
<1>1. caller' \in [Callers -> Calls] /\ caller'[g] = call
  BY Zenon DEF ClientTypes
<1> QED
  BY <1>1, BindKept, Zenon DEF ClientTypes

LEMMA NewCalls ==
  /\ \A op \in {"bind", "rav"} :
       /\ [NoCall EXCEPT !.op = op, !.at = "start"] \in Calls
       /\ [NoCall EXCEPT !.op = op, !.at = "start"].op = op
  /\ \A op \in {"receive", "status", "done"} :
       /\ [NoCall EXCEPT !.op = op] \in Calls
       /\ [NoCall EXCEPT !.op = op].op = op
       /\ [NoCall EXCEPT !.op = op].at = "idle"
BY Zenon DEF NoCall, Calls, Places

LEMMA ClientStepKeeps ==
  ASSUME ClientTypes, BoundOnThisStream, ClientStep
  PROVE  ClientTypes' /\ BoundOnThisStream'
<1>1. CASE SetEndpoint \/ Close
  BY <1>1, CloseKeeps, Zenon
<1>2. ASSUME NEW g \in Callers, Call(g, "bind") \/ Call(g, "rav")
      PROVE  ClientTypes' /\ BoundOnThisStream'
  BY <1>2, CallKeeps, NewCalls, Zenon DEF Call
<1>3. ASSUME NEW g \in Callers, Proceed(g) \/ SendFails(g)
      PROVE  ClientTypes' /\ BoundOnThisStream'
  BY <1>3, ProceedKeeps, Zenon DEF SendFails
<1> QED
  BY <1>1, <1>2, <1>3, Zenon DEF ClientStep

-----------------------------------------------------------------------------
(* The control goroutine's calls.                                           *)

LEMMA ControlCalls == Control \in Callers
BY IngressAssumption, Zenon

\* A client call of the control goroutine goes on with the same call; it sends
\* a RAV at most once.
LEMMA ControlCallKeeps ==
  ASSUME ClientTypes, BoundOnThisStream,
         ControlProceeds \/ ControlBinds \/ ControlSubmits \/ ControlSendFails
  PROVE  /\ ClientTypes' /\ BoundOnThisStream'
         /\ caller'[Control].op = caller[Control].op
         /\ caller[Control].at # "idle"
         /\ Submitting' => Submitting
         /\ ControlSubmits => Submitting /\ ~Submitting'
<1>0. Control \in Callers
  BY ControlCalls, Zenon
<1>1. Proceed(Control) \/ BindFailed(Control) \/ RAVFailed(Control)
  BY Zenon DEF ControlProceeds, ControlBinds, ControlSubmits, ControlSendFails,
     SendFails, Proceed, RunOn
<1>2. /\ ClientTypes' /\ BoundOnThisStream'
      /\ caller'[Control].op = caller[Control].op
      /\ caller[Control].at \in {"start", "wait", "queued", "sending"}
  BY <1>0, <1>1, ProceedKeeps, Zenon
<1>3. ControlSubmits => Submitting /\ ~Submitting'
  <2> SUFFICES ASSUME ControlSubmits
               PROVE  Submitting /\ ~Submitting'
    BY Zenon
  <2>1. /\ caller[Control].op = "rav" /\ caller[Control].at = "sending"
        /\ At(Control, "ok")
    BY Zenon DEF ControlSubmits, RAVSent
  <2>2. caller'[Control].at = "ok"
    BY <1>0, <2>1, AtPlace, Zenon DEF Places
  <2> QED
    BY <2>1, <2>2, Zenon DEF Submitting
<1> QED
  BY <1>2, <1>3, Zenon DEF Submitting

-----------------------------------------------------------------------------
(* What the operators of the ingress write.                                 *)

LEMMA GotoProxy ==
  ASSUME proxy \in Proxies, NEW place \in Steps, Goto(place)
  PROVE  proxy' \in Proxies /\ proxy'.at = place
<1>1. 0 \in Int
  OBVIOUS
<1> QED
  BY <1>1, Zenon DEF Proxies, Goto

LEMMA ReturnProxy ==
  ASSUME NEW code, Return(code)
  PROVE  proxy' \in Proxies /\ proxy'.at = "finish" /\ outcome' = code
BY DEF Proxies, Return, Steps

LEMMA AwaitProxy ==
  ASSUME proxy \in Proxies, NEW wait \in {"finite", "ambiguous"}, Await(wait)
  PROVE  proxy' \in Proxies /\ proxy'.at = "look"
BY Zenon DEF Proxies, Await, Steps

LEMMA SetResultCoordinator ==
  ASSUME coordinator \in Coordinators, NEW kind \in Results, NEW error \in Errors,
         SetResult(kind, error)
  PROVE  /\ coordinator' \in Coordinators /\ coordinator'.result # "none"
         /\ coordinator.result # "none" => coordinator' = coordinator
BY Zenon DEF Coordinators, SetResult, Results

LEMMA SetPendingCoordinator ==
  ASSUME coordinator \in Coordinators, NEW pending \in BOOLEAN, SetPending(pending)
  PROVE  /\ coordinator' \in Coordinators
         /\ coordinator'.result = coordinator.result
         /\ coordinator'.error = coordinator.error
BY DEF Coordinators, SetPending

LEMMA NoticeMessage ==
  ASSUME NEW kind \in {"continue", "stop", "need_more_funds", "error"}
  PROVE  Notice(kind) \in Messages /\ Notice(kind).kind = kind /\ Signed(Notice(kind)) = 0
BY DEF Notice, Messages, Signed

LEMMA RequestMessage ==
  ASSUME NEW rav \in Nat, NEW usage \in Nat
  PROVE  /\ Request(rav, usage) \in Messages
         /\ Request(rav, usage).kind = "rav_request"
         /\ Signed(Request(rav, usage)) = rav + usage
BY DEF Request, Messages, Signed

LEMMA SignedMessage ==
  ASSUME NEW m \in Messages
  PROVE  Signed(m) \in Nat /\ m.usage \in Nat
BY DEF Messages, Signed

\* A delivered message is the last one, or nobody reads it.
LEMMA DeliverMessage ==
  ASSUME down \in Seq(Messages), NEW m \in Messages, Deliver(m)
  PROVE  /\ down' \in Seq(Messages)
         /\ \/ down' = down
            \/ /\ Len(down') = Len(down) + 1
               /\ \A i \in 1..Len(down) : down'[i] = down[i]
               /\ down'[Len(down) + 1] = m
<1>1. down' = down \/ down' = Append(down, m)
  BY Zenon DEF Deliver
<1>2. CASE down' = down
  BY <1>2, Zenon
<1>3. CASE down' = Append(down, m)
  BY <1>3
<1> QED
  BY <1>1, <1>2, <1>3, Zenon

LEMMA NextMessage ==
  ASSUME down \in Seq(Messages), down # <<>>, down' = Tail(down)
  PROVE  /\ down' \in Seq(Messages)
         /\ Head(down) = down[1] /\ Head(down) \in Messages /\ 1 \in 1..Len(down)
         /\ \A i \in 1..Len(down') : i + 1 \in 1..Len(down) /\ down'[i] = down[i + 1]
OBVIOUS

-----------------------------------------------------------------------------
(* Steps that neither issue nor answer a request.                           *)

\* Messages are kept or dropped, and what is new is no request or acceptance.
MessagesKept ==
  \A i \in 1..Len(down') :
    \/ i \in 1..Len(down) /\ down'[i] = down[i]
    \/ down'[i].kind \notin {"rav_request", "continue"} /\ Signed(down'[i]) = 0

LEMMA RAVFrame ==
  ASSUME Types, Types', RAVInv, mode' = mode, mode = "ingress" => NothingBefore',
         provider'.rav = provider.rav, provider.metered <= provider'.metered,
         Outstanding => Outstanding', Submitting' => Submitting,
         up' = up \/ up' = 0, pendingRAV' = pendingRAV,
         session'.rav = session.rav, MessagesKept
  PROVE  RAVInv'
<1>1. WithinMetered'
  <2>1. /\ provider.rav \in Nat /\ provider.metered \in Nat /\ provider'.metered \in Nat
        /\ up \in Nat /\ pendingRAV \in Nat
        /\ \A i \in 1..Len(down) : Signed(down[i]) \in Nat
    <3>1. /\ provider \in Providers /\ provider' \in Providers
          /\ down \in Seq(Messages) /\ up \in Nat /\ pendingRAV \in Nat
      BY Zenon DEF Types
    <3>2. \A i \in 1..Len(down) : down[i] \in Messages
      BY <3>1
    <3>3. \A i \in 1..Len(down) : Signed(down[i]) \in Nat
      BY <3>2, SignedMessage, Zenon
    <3> QED
      BY <3>1, <3>3 DEF Providers
  <2>2. /\ provider.rav <= provider.metered
        /\ up <= provider.metered /\ pendingRAV <= provider.metered
        /\ \A i \in 1..Len(down) : Signed(down[i]) <= provider.metered
    BY Zenon DEF RAVInv, WithinMetered
  <2>3. \A n \in Nat : n <= provider.metered => n <= provider'.metered
    BY <2>1
  <2>4. 0 <= provider'.metered
    BY <2>1
  <2>5. \A i \in 1..Len(down') : Signed(down'[i]) <= provider'.metered
    BY <2>1, <2>2, <2>3, <2>4, Zenon DEF MessagesKept
  <2> QED
    BY <2>1, <2>2, <2>3, <2>4, <2>5, Zenon DEF WithinMetered
<1>2. HeldRAVWasAccepted'
  BY Zenon DEF RAVInv, HeldRAVWasAccepted
<1>3. ASSUME mode = "ingress"
      PROVE  RequestsInOrder' /\ ContinueAccepts' /\ SignedIsAccepted'
  <2>0. RequestsInOrder /\ ContinueAccepts /\ SignedIsAccepted
    BY <1>3, Zenon DEF RAVInv
  <2>1. \A i \in 1..Len(down') :
          down'[i].kind \in {"rav_request", "continue"} =>
            i \in 1..Len(down) /\ down'[i] = down[i]
    BY Zenon DEF MessagesKept
  <2>2. Holds("continue")' => Holds("continue")
    BY <2>1, Zenon DEF Holds
  <2>3. up' > 0 => up' = up
    BY DEF Types
  <2>4. ContinueAccepts' /\ SignedIsAccepted'
    BY <2>0, <2>2, Zenon DEF ContinueAccepts, SignedIsAccepted
  <2>5. ASSUME NEW i \in 1..Len(down'), down'[i].kind = "rav_request"
        PROVE  /\ Outstanding' /\ ~Submitting' /\ up' = 0
               /\ provider'.rav <= Signed(down'[i])
               /\ \A j \in 1..Len(down') : down'[j].kind = "rav_request" => j = i
               /\ \A j \in 1..Len(down') : down'[j].kind = "continue" => j < i
    BY <2>0, <2>1, <2>5, Zenon DEF RequestsInOrder
  <2>6. Submitting' =>
          /\ Outstanding' /\ up' = 0
          /\ provider'.rav <= pendingRAV' /\ ~Holds("continue")'
    BY <2>0, <2>2, Zenon DEF RequestsInOrder
  <2>7. up' > 0 =>
          /\ Outstanding' /\ up' = pendingRAV'
          /\ provider'.rav <= up' /\ ~Holds("continue")'
    BY <2>0, <2>2, <2>3, Zenon DEF RequestsInOrder
  <2> QED
    BY <2>4, <2>5, <2>6, <2>7, Zenon DEF RequestsInOrder
<1> QED
  BY <1>1, <1>2, <1>3, Zenon DEF RAVInv

-----------------------------------------------------------------------------
(* The provider's steps.                                                    *)

\* The provider neither moves the goroutines nor writes a result.
ProviderFrame ==
  /\ UNCHANGED <<clientVars, mode, proxyVars, controlVars, canceled, clientGone>>
  /\ upstream' \in Upstreams
  /\ upstream' = "canceled" => upstream = "canceled"

LEMMA ProviderCut ==
  ASSUME CutInv, ProviderFrame
  PROVE  CutInv'
BY Zenon DEF CutInv, ProviderFrame, clientVars, proxyVars, controlVars

\* What a step of the provider may do without issuing or settling a request.
LEMMA ProviderQuiet ==
  ASSUME Types, RAVInv, ProviderFrame, mode = "ingress",
         provider' \in Providers, provider'.rav = provider.rav,
         provider.metered <= provider'.metered, Outstanding => Outstanding',
         up' = up \/ up' = 0, down' \in Seq(Messages), MessagesKept,
         proxy.at # "bootstrap" \/ (provider'.active = provider.active /\ down' = down)
  PROVE  Types' /\ RAVInv'
<1>1. /\ caller' = caller /\ client' = client /\ mode' = mode
      /\ session' = session /\ pendingRAV' = pendingRAV /\ proxy' = proxy
      /\ coordinator' = coordinator /\ upstream' \in Upstreams
  BY Zenon DEF ProviderFrame, clientVars, proxyVars, controlVars
<1>2. up' \in Nat
  BY DEF Types
<1>3. Types'
  BY <1>1, <1>2, Zenon DEF Types, ClientTypes
<1>4. Submitting' => Submitting
  BY <1>1, Zenon DEF Submitting
<1>5. NothingBefore'
  BY <1>1, <1>2 DEF RAVInv, NothingBefore
<1> QED
  BY <1>1, <1>3, <1>4, <1>5, RAVFrame, Zenon

\* A message that is neither a request nor an acceptance.
LEMMA OtherMessage ==
  ASSUME Types, NEW kind \in {"stop", "need_more_funds", "error"}, Deliver(Notice(kind))
  PROVE  down' \in Seq(Messages) /\ MessagesKept
<1>1. Notice(kind) \in Messages /\ Notice(kind).kind = kind /\ Signed(Notice(kind)) = 0
  BY NoticeMessage, Zenon
<1>2. down \in Seq(Messages)
  BY Zenon DEF Types
<1>3. /\ down' \in Seq(Messages)
      /\ \/ down' = down
         \/ /\ Len(down') = Len(down) + 1
            /\ \A i \in 1..Len(down) : down'[i] = down[i]
            /\ down'[Len(down) + 1] = Notice(kind)
  BY <1>1, <1>2, DeliverMessage, Zenon
<1>4. CASE down' = down
  BY <1>3, <1>4, Zenon DEF MessagesKept
<1>5. CASE Len(down') = Len(down) + 1
  <2>1. \A i \in 1..Len(down') : i \in 1..Len(down) \/ i = Len(down) + 1
    BY <1>2, <1>5
  <2> QED
    BY <1>1, <1>3, <1>5, <2>1, Zenon DEF MessagesKept
<1> QED
  BY <1>3, <1>4, <1>5, Zenon

LEMMA RequestStep ==
  ASSUME Types, RAVInv, ProviderFrame, mode = "ingress", RequestRAV
  PROVE  Types' /\ RAVInv'
<1>1. /\ caller' = caller /\ client' = client /\ mode' = mode
      /\ session' = session /\ pendingRAV' = pendingRAV /\ proxy' = proxy
      /\ coordinator' = coordinator /\ up' = up /\ upstream' \in Upstreams
  BY Zenon DEF RequestRAV, ProviderFrame, clientVars, proxyVars, controlVars
<1>2. /\ provider \in Providers /\ down \in Seq(Messages) /\ up \in Nat
      /\ pendingRAV \in Nat /\ WithinMetered /\ RequestsInOrder
      /\ ContinueAccepts /\ NothingBefore
  BY Zenon DEF Types, RAVInv
<1>3. /\ provider.metered \in Nat /\ provider.rav \in Nat
      /\ provider.active /\ provider.requested = 0
      /\ provider.metered > provider.rav
      /\ provider' = [provider EXCEPT !.requested = provider.metered]
      /\ Unpaid \in Nat /\ provider.rav + Unpaid = provider.metered
      /\ Deliver(Request(provider.rav, Unpaid))
  <2>1. provider.metered \in Nat /\ provider.rav \in Nat
    BY <1>2 DEF Providers
  <2>2. /\ provider.active /\ provider.requested = 0 /\ Unpaid >= Threshold
        /\ provider' = [provider EXCEPT !.requested = provider.metered]
        /\ Deliver(Request(provider.rav, Unpaid))
    BY Zenon DEF RequestRAV, Connected, shouldRequestRAV
  <2>3. /\ provider.metered > provider.rav
        /\ Unpaid \in Nat /\ provider.rav + Unpaid = provider.metered
    BY <2>1, <2>2, IngressAssumption DEF Unpaid
  <2> QED
    BY <2>1, <2>2, <2>3, Zenon
<1>4. /\ provider' \in Providers /\ provider'.rav = provider.rav
      /\ provider'.metered = provider.metered /\ provider'.requested > 0
  BY <1>2, <1>3, SMTT(20) DEF Providers
<1>5. ~Outstanding /\ Outstanding'
  BY <1>3, <1>4 DEF Outstanding
<1>6. up = 0 /\ ~Submitting /\ \A i \in 1..Len(down) : down[i].kind # "rav_request"
  BY <1>2, <1>5 DEF RequestsInOrder
<1>7. /\ down' \in Seq(Messages)
      /\ \/ down' = down
         \/ /\ Len(down') = Len(down) + 1
            /\ \A i \in 1..Len(down) : down'[i] = down[i]
            /\ down'[Len(down) + 1].kind = "rav_request"
            /\ Signed(down'[Len(down) + 1]) = provider.metered
  <2>1. /\ Request(provider.rav, Unpaid) \in Messages
        /\ Request(provider.rav, Unpaid).kind = "rav_request"
        /\ Signed(Request(provider.rav, Unpaid)) = provider.metered
    BY <1>3, RequestMessage, Zenon
  <2>2. /\ down' \in Seq(Messages)
        /\ \/ down' = down
           \/ /\ Len(down') = Len(down) + 1
              /\ \A i \in 1..Len(down) : down'[i] = down[i]
              /\ down'[Len(down) + 1] = Request(provider.rav, Unpaid)
    BY <1>2, <1>3, <2>1, DeliverMessage, Zenon
  <2> QED
    BY <2>1, <2>2, Zenon
<1>8. Types'
  BY <1>1, <1>2, <1>4, <1>7, Zenon DEF Types, ClientTypes
<1>9. CASE down' = down
  <2>1. MessagesKept
    BY <1>9, Zenon DEF MessagesKept
  <2>2. NothingBefore' /\ (Submitting' => Submitting)
    BY <1>1, <1>2, <1>3, Zenon DEF NothingBefore, Submitting
  <2>3. provider.metered <= provider'.metered
    BY <1>3, <1>4
  <2> QED
    BY <1>1, <1>4, <1>5, <1>8, <2>1, <2>2, <2>3, RAVFrame, Zenon
<1>10. CASE Len(down') = Len(down) + 1
  <2>0. /\ Len(down) \in Nat
        /\ \A i \in 1..Len(down') : i \in 1..Len(down) \/ i = Len(down) + 1
        /\ \A i \in 1..Len(down) : i < Len(down) + 1 /\ i # Len(down) + 1
        /\ down' # down
    BY <1>2, <1>10
  <2>1. /\ \A i \in 1..Len(down) : down'[i] = down[i]
        /\ down'[Len(down) + 1].kind = "rav_request"
        /\ Signed(down'[Len(down) + 1]) = provider.metered
    BY <1>7, <2>0, Zenon
  <2>2. WithinMetered'
    <3>1. provider.metered <= provider.metered
      BY <1>3
    <3> QED
      BY <1>1, <1>2, <1>4, <2>0, <2>1, <3>1, Zenon DEF WithinMetered
  <2>3. HeldRAVWasAccepted'
    BY <1>1, <1>4, Zenon DEF RAVInv, HeldRAVWasAccepted
  <2>4. ~Submitting' /\ ~(up' > 0)
    BY <1>1, <1>2, <1>6 DEF Submitting
  <2>5. provider'.rav <= provider.metered
    BY <1>3, <1>4
  <2>6. ASSUME NEW i \in 1..Len(down'), down'[i].kind = "rav_request"
        PROVE  /\ Outstanding' /\ ~Submitting' /\ up' = 0
               /\ provider'.rav <= Signed(down'[i])
               /\ \A j \in 1..Len(down') : down'[j].kind = "rav_request" => j = i
               /\ \A j \in 1..Len(down') : down'[j].kind = "continue" => j < i
    <3>1. i = Len(down) + 1
      BY <1>6, <2>0, <2>1, <2>6, Zenon
    <3>2. \A j \in 1..Len(down') : down'[j].kind = "rav_request" => j = i
      BY <1>6, <2>0, <2>1, <3>1, Zenon
    <3>3. \A j \in 1..Len(down') : down'[j].kind = "continue" => j < i
      BY <2>0, <2>1, <3>1, Zenon
    <3> QED
      BY <1>1, <1>5, <1>6, <2>1, <2>4, <2>5, <3>1, <3>2, <3>3, Zenon
  <2>7. RequestsInOrder'
    BY <2>4, <2>6, Zenon DEF RequestsInOrder
  <2>8. Holds("continue")' => Holds("continue")
    BY <2>0, <2>1, Zenon DEF Holds
  <2>9. ContinueAccepts'
    BY <1>1, <1>2, <1>4, <2>8, Zenon DEF ContinueAccepts
  <2>10. proxy.at # "bootstrap"
    BY <1>2, <1>3, Zenon DEF NothingBefore
  <2>11. SignedIsAccepted' /\ NothingBefore'
    BY <1>1, <1>5, <2>10, Zenon DEF SignedIsAccepted, NothingBefore
  <2> QED
    BY <1>8, <2>2, <2>3, <2>7, <2>9, <2>11, Zenon DEF RAVInv
<1> QED
  BY <1>7, <1>9, <1>10, Zenon

LEMMA SubmissionStep ==
  ASSUME Types, RAVInv, ProviderFrame, mode = "ingress", Submission
  PROVE  Types' /\ RAVInv'
<1>1. /\ caller' = caller /\ client' = client /\ mode' = mode
      /\ session' = session /\ pendingRAV' = pendingRAV /\ proxy' = proxy
      /\ coordinator' = coordinator /\ upstream' \in Upstreams
  BY Zenon DEF ProviderFrame, clientVars, proxyVars, controlVars
<1>2. /\ provider \in Providers /\ down \in Seq(Messages) /\ up \in Nat
      /\ pendingRAV \in Nat /\ session \in Sessions
      /\ WithinMetered /\ RequestsInOrder /\ ContinueAccepts /\ NothingBefore
  BY Zenon DEF Types, RAVInv
<1>3. up > 0 /\ up' = 0
  BY Zenon DEF Submission
<1>4. /\ Outstanding /\ up = pendingRAV /\ provider.rav <= up
      /\ ~Holds("continue") /\ ~Submitting
      /\ \A i \in 1..Len(down) : down[i].kind # "rav_request"
  BY <1>2, <1>3 DEF RequestsInOrder
<1>5. proxy.at # "bootstrap"
  BY <1>2, <1>3 DEF NothingBefore
<1>6. CASE Deliver(Notice("stop")) /\ provider' = provider
  <2>1. down' \in Seq(Messages) /\ MessagesKept
    BY <1>6, OtherMessage, Zenon
  <2>2. provider.metered <= provider'.metered /\ (Outstanding => Outstanding')
    BY <1>2, <1>6 DEF Providers, Outstanding
  <2> QED
    BY <1>2, <1>3, <1>5, <1>6, <2>1, <2>2, ProviderQuiet, Zenon
<1>7. CASE /\ provider.active
           /\ provider' = [provider EXCEPT !.rav = up, !.requested = 0]
           /\ Deliver(Notice("continue"))
  <2>1. /\ provider' \in Providers /\ provider'.rav = up
        /\ provider'.metered = provider.metered
    BY <1>2, <1>7, Zenon DEF Providers
  <2>2. /\ down' \in Seq(Messages)
        /\ \/ down' = down
           \/ /\ Len(down') = Len(down) + 1
              /\ \A i \in 1..Len(down) : down'[i] = down[i]
              /\ down'[Len(down) + 1].kind = "continue"
              /\ Signed(down'[Len(down) + 1]) = 0
    <3>1. /\ Notice("continue") \in Messages /\ Notice("continue").kind = "continue"
          /\ Signed(Notice("continue")) = 0
      BY NoticeMessage, Zenon
    <3>2. /\ down' \in Seq(Messages)
          /\ \/ down' = down
             \/ /\ Len(down') = Len(down) + 1
                /\ \A i \in 1..Len(down) : down'[i] = down[i]
                /\ down'[Len(down) + 1] = Notice("continue")
      BY <1>2, <1>7, <3>1, DeliverMessage, Zenon
    <3> QED
      BY <3>1, <3>2, Zenon
  <2>3. \A i \in 1..Len(down') :
          \/ i \in 1..Len(down) /\ down'[i] = down[i]
          \/ down'[i].kind = "continue" /\ Signed(down'[i]) = 0
    <3>1. CASE down' = down
      BY <3>1, Zenon
    <3>2. CASE Len(down') = Len(down) + 1
      <4>1. \A i \in 1..Len(down') : i \in 1..Len(down) \/ i = Len(down) + 1
        BY <1>2, <3>2
      <4>2. down' # down
        BY <1>2, <3>2
      <4> QED
        BY <2>2, <4>1, <4>2, Zenon
    <3> QED
      BY <2>2, <3>1, <3>2, Zenon
  <2>4. Types'
    BY <1>1, <1>2, <1>3, <2>1, <2>2, Zenon DEF Types, ClientTypes
  <2>5. WithinMetered'
    <3>1. 0 <= provider.metered
      BY <1>2 DEF Providers
    <3> QED
      BY <1>1, <1>2, <1>3, <2>1, <2>3, <3>1, Zenon DEF WithinMetered
  <2>6. HeldRAVWasAccepted'
    <3>1. session.rav <= provider.rav
      BY Zenon DEF RAVInv, HeldRAVWasAccepted
    <3>2. session'.rav <= provider'.rav
      BY <1>1, <1>2, <1>4, <2>1, <3>1 DEF Sessions, Providers
    <3> QED
      BY <1>1, <3>1, <3>2, Zenon DEF HeldRAVWasAccepted
  <2>7. /\ \A i \in 1..Len(down') : down'[i].kind # "rav_request"
        /\ ~Submitting' /\ ~(up' > 0)
    <3>1. \A i \in 1..Len(down') : down'[i].kind # "rav_request"
      BY <1>4, <2>3, Zenon
    <3>2. ~(up' > 0)
      BY <1>3
    <3> QED
      BY <1>1, <1>4, <3>1, <3>2, Zenon DEF Submitting
  <2>8. RequestsInOrder'
    BY <2>7, Zenon DEF RequestsInOrder
  <2>9. pendingRAV' <= provider'.rav
    BY <1>1, <1>2, <1>4, <2>1
  <2>10. ContinueAccepts' /\ SignedIsAccepted' /\ NothingBefore'
    BY <1>1, <1>5, <2>9, Zenon DEF ContinueAccepts, SignedIsAccepted, NothingBefore
  <2> QED
    BY <2>4, <2>5, <2>6, <2>8, <2>10, Zenon DEF RAVInv
<1> QED
  BY <1>6, <1>7, Zenon DEF Submission

\* The session has ended: no answer is waited for any more.
LEMMA EndedProvider ==
  ASSUME provider \in Providers,
         NEW reason \in {"complete", "provider_stop", "payment_issue"},
         provider' = [provider EXCEPT !.active = FALSE, !.requested = 0,
                                      !.reason = reason]
  PROVE  /\ provider' \in Providers /\ provider'.rav = provider.rav
         /\ provider.metered <= provider'.metered /\ Outstanding'
<1>1. provider' \in Providers
  BY Zenon DEF Providers
<1>2. /\ provider'.rav = provider.rav /\ provider'.metered = provider.metered
      /\ provider'.active = FALSE
  BY Zenon DEF Providers
<1>3. provider.metered <= provider.metered
  BY DEF Providers
<1> QED
  BY <1>1, <1>2, <1>3, Zenon DEF Outstanding

LEMMA ProviderStep ==
  ASSUME IngressInv, mode = "ingress", ProviderNext
  PROVE  IngressInv'
<1> USE DEF clientVars, proxyVars, controlVars, controlRest
<1>1. ProviderFrame
  BY Zenon DEF IngressInv, Types, Upstreams, ProviderNext, ProviderFrame, RequestRAV, Submission, Meter,
     StopForFunds, UpstreamEnds, ReturnWorker, EndProviderSession, BreakStream
<1>2. Types /\ RAVInv /\ provider \in Providers /\ down \in Seq(Messages) /\ NothingBefore
  BY Zenon DEF IngressInv, Types, RAVInv
<1>3. CutInv' /\ BoundOnThisStream'
  BY <1>1, ProviderCut, Zenon DEF IngressInv, ProviderFrame, BoundOnThisStream
<1>4. down' = down => down' \in Seq(Messages) /\ MessagesKept
  BY <1>2, Zenon DEF MessagesKept
<1>5. provider.active => proxy.at # "bootstrap"
  BY <1>2, Zenon DEF NothingBefore
<1>6. ASSUME RequestRAV
      PROVE  Types' /\ RAVInv'
  BY <1>1, <1>2, <1>6, RequestStep, Zenon
<1>7. ASSUME Submission
      PROVE  Types' /\ RAVInv'
  BY <1>1, <1>2, <1>7, SubmissionStep, Zenon
<1>8. ASSUME Meter
      PROVE  Types' /\ RAVInv'
  <2>1. /\ provider' \in Providers /\ provider'.rav = provider.rav
        /\ provider.metered <= provider'.metered /\ (Outstanding => Outstanding')
    BY <1>2, <1>8 DEF Meter, Providers, Outstanding
  <2>2. up' = up /\ down' = down /\ provider'.active = provider.active
    BY <1>2, <1>8, Zenon DEF Meter, Providers
  <2> QED
    BY <1>1, <1>2, <1>4, <2>1, <2>2, ProviderQuiet, Zenon
<1>9. ASSUME StopForFunds
      PROVE  Types' /\ RAVInv'
  <2>1. /\ provider' \in Providers /\ provider'.rav = provider.rav
        /\ provider.metered <= provider'.metered /\ Outstanding'
    <3>1. provider' = [provider EXCEPT !.active = FALSE, !.requested = 0,
                                       !.reason = "payment_issue"]
      BY <1>9, Zenon DEF StopForFunds
    <3> QED
      BY <1>2, <3>1, EndedProvider, Zenon
  <2>2. up' = up /\ Deliver(Notice("need_more_funds")) /\ provider.active
    BY <1>9, Zenon DEF StopForFunds
  <2>3. down' \in Seq(Messages) /\ MessagesKept
    BY <1>2, <2>2, OtherMessage, Zenon
  <2> QED
    BY <1>1, <1>2, <1>5, <2>1, <2>2, <2>3, ProviderQuiet, Zenon
<1>10. ASSUME UpstreamEnds \/ BreakStream \/ ReturnWorker
       PROVE  Types' /\ RAVInv'
  <2>1. /\ provider' \in Providers /\ provider'.rav = provider.rav
        /\ provider.metered <= provider'.metered
        /\ provider'.active = provider.active
        /\ Outstanding => Outstanding'
    <3>1. provider' = provider \/ provider' = [provider EXCEPT !.worker = FALSE]
      BY <1>10, Zenon DEF UpstreamEnds, BreakStream, ReturnWorker
    <3>2. provider' \in Providers
      BY <1>2, <3>1, Zenon DEF Providers
    <3>3. /\ provider'.rav = provider.rav /\ provider'.metered = provider.metered
          /\ provider'.active = provider.active
          /\ provider'.requested = provider.requested
      BY <1>2, <3>1, Zenon DEF Providers
    <3>4. provider.metered <= provider.metered
      BY <1>2 DEF Providers
    <3> QED
      BY <3>2, <3>3, <3>4, Zenon DEF Outstanding
  <2>2. /\ up' = up
        /\ down' = down \/ (Deliver(Notice("error")) /\ provider.active)
    BY <1>10, Zenon DEF UpstreamEnds, BreakStream, ReturnWorker, Connected
  <2>3. down' \in Seq(Messages) /\ MessagesKept
    BY <1>2, <1>4, <2>2, OtherMessage, Zenon
  <2> QED
    BY <1>1, <1>2, <1>5, <2>1, <2>2, <2>3, ProviderQuiet, Zenon
<1>11. ASSUME EndProviderSession
       PROVE  Types' /\ RAVInv'
  <2>1. /\ provider' \in Providers /\ provider'.rav = provider.rav
        /\ provider.metered <= provider'.metered /\ Outstanding'
    <3>1. PICK reason \in {"complete", "provider_stop"} :
            provider' = [provider EXCEPT !.active = FALSE, !.requested = 0,
                                         !.reason = reason]
      BY <1>11, Zenon DEF EndProviderSession
    <3> QED
      BY <1>2, <3>1, EndedProvider, Zenon
  <2>2. up' = up /\ down' = down /\ provider.active
    BY <1>11, Zenon DEF EndProviderSession
  <2> QED
    BY <1>1, <1>2, <1>4, <1>5, <2>1, <2>2, ProviderQuiet, Zenon
<1> QED
  BY <1>3, <1>6, <1>7, <1>8, <1>9, <1>10, <1>11, Zenon DEF ProviderNext, IngressInv

-----------------------------------------------------------------------------
(* The proxy's steps.                                                       *)

\* The proxy moves on, and leaves payments and the client alone.
LEMMA ProxyQuiet ==
  ASSUME Types, RAVInv, BoundOnThisStream,
         UNCHANGED <<clientVars, mode, provider, down, up, session, pendingRAV,
                     coordinator>>,
         proxy' \in Proxies, proxy'.at # "bootstrap", upstream' \in Upstreams
  PROVE  Types' /\ RAVInv' /\ BoundOnThisStream'
<1>1. Types' /\ BoundOnThisStream'
  BY Zenon DEF Types, ClientTypes, BoundOnThisStream, clientVars
<1>2. NothingBefore'
  BY Zenon DEF NothingBefore
<1>3. MessagesKept /\ (Outstanding => Outstanding') /\ (Submitting' => Submitting)
  BY Zenon DEF MessagesKept, Outstanding, Submitting, clientVars
<1>4. provider.metered <= provider'.metered
  BY DEF Types, Providers
<1> QED
  BY <1>1, <1>2, <1>3, <1>4, RAVFrame, Zenon

\* The proxy moves on without an answer; it leaves the stream only if there is
\* no result.
LEMMA CutMove ==
  ASSUME CutInv, UNCHANGED <<mode, caller, coordinator, canceled, clientGone, upstream>>,
         outcome' = outcome, proxy.at \notin Answered, proxy'.at \notin Answered,
         proxy.at # "stream" \/ coordinator.result = "none"
  PROVE  CutInv'
BY Zenon DEF CutInv, Answered

\* The proxy has its answer.
LEMMA CutReturn ==
  ASSUME CutInv, UNCHANGED <<mode, caller, coordinator, canceled, clientGone, upstream>>,
         NEW code, outcome' = code, proxy.at \notin Answered, proxy'.at \in Answered,
         proxy.at # "stream" \/ clientGone \/ code = coordinator.error
  PROVE  CutInv'
BY Zenon DEF CutInv, Answered

\* Between the end of the stream and the proxy's answer.
Waiting == {"look", "last", "poll", "workers", "runtime", "wait"}

\* The steps from an open stream to the proxy's answer.
LEMMA ProxyStreamStep ==
  ASSUME IngressInv, mode = "ingress",
         \/ RelayFails \/ ResolveTermination \/ ReturnUpstreamError
         \/ LookAtCoordinator \/ PollSession \/ PollWorkers \/ PollRuntime
         \/ PollFails \/ WakeUp \/ GiveUp
  PROVE  IngressInv'
<1> USE DEF clientVars, providerVars, controlVars
<1>0. Types /\ RAVInv /\ BoundOnThisStream /\ CutInv /\ proxy \in Proxies /\ coordinator \in Coordinators
  BY Zenon DEF IngressInv, Types
<1>1. /\ UNCHANGED <<clientVars, mode, provider, down, up, session, pendingRAV,
                     coordinator>>
      /\ UNCHANGED <<mode, caller, coordinator, canceled, clientGone, upstream>>
  BY Zenon DEF RelayFails, ResolveTermination, ReturnUpstreamError,
     LookAtCoordinator, PollSession, PollWorkers, PollRuntime, PollFails, WakeUp,
     GiveUp
<1>2. /\ proxy.at \notin Answered
      /\ \/ /\ proxy.at # "stream" \/ coordinator.result = "none"
            /\ outcome' = outcome
            /\ proxy' \in Proxies /\ proxy'.at \in Waiting
         \/ \E code : /\ Return(code)
                      /\ proxy.at # "stream" \/ clientGone \/ code = coordinator.error
  <2>1. CASE RelayFails
    BY <2>1, Zenon DEF RelayFails, Answered
  <2>2. CASE ResolveTermination
    <3>1. proxy.at = "stream"
      BY <2>2, Zenon DEF ResolveTermination
    <3>2. \/ Return(coordinator.error)
          \/ /\ coordinator.result = "none" /\ outcome' = outcome
             /\ Await("finite") \/ Await("ambiguous") \/ Goto("last")
      BY <2>2, Zenon DEF ResolveTermination, AwaitFinite, AwaitAmbiguous
    <3> QED
      BY <1>0, <3>1, <3>2, AwaitProxy, GotoProxy, Zenon DEF Steps, Answered, Waiting
  <2>3. CASE ReturnUpstreamError
    BY <2>3, Zenon DEF ReturnUpstreamError, Answered
  <2>4. CASE LookAtCoordinator
    <3>1. proxy.at = "look"
      BY <2>4, Zenon DEF LookAtCoordinator
    <3>2. \/ Return(coordinator.error)
          \/ /\ proxy' = [proxy EXCEPT !.at = "poll", !.pending = coordinator.pending]
             /\ outcome' = outcome
      BY <2>4, Zenon DEF LookAtCoordinator
    <3>3. /\ [proxy EXCEPT !.at = "poll", !.pending = coordinator.pending] \in Proxies
          /\ [proxy EXCEPT !.at = "poll", !.pending = coordinator.pending].at = "poll"
      BY <1>0, Zenon DEF Proxies, Coordinators, Steps
    <3> QED
      BY <3>1, <3>2, <3>3, Zenon DEF Answered, Waiting
  <2>5. CASE PollFails
    BY <1>0, <2>5, GotoProxy, Zenon DEF Steps, PollFails, Answered, Waiting
  <2>6. CASE WakeUp
    BY <1>0, <2>6, GotoProxy, Zenon DEF Steps, WakeUp, Answered, Waiting
  <2>7. CASE GiveUp
    BY <2>7, Zenon DEF GiveUp, Answered
  <2>8. CASE PollSession
    <3>1. proxy.at = "poll"
      BY <2>8, Zenon DEF PollSession
    <3>2. \/ Return(Resolve)
          \/ /\ proxy' = [proxy EXCEPT !.at = "workers", !.unpaid = Unpaid]
             /\ outcome' = outcome
      BY <2>8, Zenon DEF PollSession
    <3>3. Unpaid \in Int
      BY <1>0 DEF Types, Providers, Unpaid
    <3>4. /\ [proxy EXCEPT !.at = "workers", !.unpaid = Unpaid] \in Proxies
          /\ [proxy EXCEPT !.at = "workers", !.unpaid = Unpaid].at = "workers"
      BY <1>0, <3>3, Zenon DEF Proxies, Steps
    <3> QED
      BY <3>1, <3>2, <3>4, Zenon DEF Answered, Waiting
  <2>9. CASE PollWorkers
    <3>1. proxy.at = "workers" /\ outcome' = outcome
      BY <2>9, Zenon DEF PollWorkers
    <3>2. Goto("wait") \/ proxy' = [proxy EXCEPT !.at = "runtime"]
      BY <2>9, Zenon DEF PollWorkers
    <3>3. /\ [proxy EXCEPT !.at = "runtime"] \in Proxies
          /\ [proxy EXCEPT !.at = "runtime"].at = "runtime"
      BY <1>0, Zenon DEF Proxies, Steps
    <3> QED
      BY <1>0, <3>1, <3>2, <3>3, GotoProxy, Zenon DEF Steps, Answered, Waiting
  <2>10. CASE PollRuntime
    <3>1. proxy.at = "runtime"
      BY <2>10, Zenon DEF PollRuntime
    <3>2. Return("ok") \/ (Goto("wait") /\ outcome' = outcome)
      BY <2>10, Zenon DEF PollRuntime
    <3> QED
      BY <1>0, <3>1, <3>2, GotoProxy, Zenon DEF Steps, Answered, Waiting
  <2> QED
    BY <2>1, <2>2, <2>3, <2>4, <2>5, <2>6, <2>7, <2>8, <2>9, <2>10, Zenon
<1>3. proxy' \in Proxies /\ proxy'.at # "bootstrap" /\ CutInv'
  <2>1. CASE /\ proxy.at # "stream" \/ coordinator.result = "none"
             /\ outcome' = outcome
             /\ proxy' \in Proxies /\ proxy'.at \in Waiting
    <3>1. proxy'.at \notin Answered /\ proxy'.at # "bootstrap"
      BY <2>1, Zenon DEF Answered, Waiting
    <3> QED
      BY <1>0, <1>1, <1>2, <2>1, <3>1, CutMove, Zenon
  <2>2. CASE \E code : /\ Return(code)
                       /\ proxy.at # "stream" \/ clientGone \/ code = coordinator.error
    <3>1. PICK code : /\ Return(code)
                      /\ proxy.at # "stream" \/ clientGone \/ code = coordinator.error
      BY <2>2, Zenon
    <3>2. proxy' \in Proxies /\ proxy'.at = "finish" /\ outcome' = code
      BY <3>1, ReturnProxy, Zenon
    <3>3. proxy'.at \in Answered
      BY <3>2, Zenon DEF Answered
    <3> QED
      BY <1>0, <1>1, <1>2, <3>1, <3>2, <3>3, CutReturn, Zenon
  <2> QED
    BY <1>2, <2>1, <2>2, Zenon
<1>4. upstream' \in Upstreams
  BY <1>0, <1>1, Zenon DEF Types
<1> QED
  BY <1>0, <1>1, <1>3, <1>4, ProxyQuiet, Zenon DEF IngressInv

\* The session is bootstrapped: nothing was under way, and there is no result.
LEMMA BootstrapStep ==
  ASSUME IngressInv, mode = "ingress", BootstrapRefused \/ Bootstrap
  PROVE  IngressInv'
<1> USE DEF clientVars, providerVars, controlVars
<1>0. /\ Types /\ RAVInv /\ BoundOnThisStream /\ CutInv /\ ClientTypes
      /\ proxy \in Proxies /\ provider \in Providers /\ session \in Sessions
      /\ WithinMetered
  BY Zenon DEF IngressInv, Types, RAVInv
<1>1. proxy.at = "bootstrap"
  BY Zenon DEF BootstrapRefused, Bootstrap
<1>2. /\ caller[Control] = NoCall /\ down = <<>> /\ up = 0 /\ pendingRAV = 0
      /\ coordinator.result = "none"
  <2>1. caller[Control] = NoCall /\ down = <<>> /\ up = 0 /\ pendingRAV = 0
    BY <1>0, <1>1, Zenon DEF RAVInv, NothingBefore
  <2> QED
    BY <1>0, <2>1, NoCallType, Zenon DEF CutInv
<1>3. upstream = "canceled" => clientGone
  BY <1>0, <1>2, Zenon DEF CutInv
<1>4. ~(canceled /\ ~clientGone)
  BY <1>0, <1>1, <1>2, Zenon DEF CutInv
<1>5. CASE BootstrapRefused
  <2>1. proxy' \in Proxies /\ proxy'.at = "returned"
    BY <1>0, <1>5, GotoProxy, Zenon DEF Steps, BootstrapRefused
  <2>2. /\ UNCHANGED <<clientVars, mode, provider, down, up, session, pendingRAV,
                       coordinator>>
        /\ UNCHANGED <<upstream, canceled, clientGone>> /\ upstream' \in Upstreams
    BY <1>0, <1>5, Zenon DEF BootstrapRefused, Types
  <2>3. CutInv'
    BY <1>0, <1>2, <1>3, <1>4, <2>1, <2>2, Zenon DEF CutInv, Answered
  <2> QED
    BY <1>0, <2>1, <2>2, <2>3, ProxyQuiet, Zenon DEF IngressInv
<1>6. CASE Bootstrap
  <2>1. /\ UNCHANGED <<client, sentOn, mode, down, up, upstream, pendingRAV,
                       coordinator, canceled, clientGone>>
        /\ provider' = [provider EXCEPT !.active = TRUE]
    BY <1>6, Zenon DEF Bootstrap
  <2>2. /\ provider' \in Providers /\ provider'.rav = provider.rav
        /\ provider'.metered = provider.metered
    BY <1>0, <2>1, Zenon DEF Providers
  <2>3. /\ proxy' \in Proxies
        /\ \/ proxy'.at = "returned"
           \/ proxy'.at = "connect" /\ outcome' = outcome
    BY <1>0, <1>6, GotoProxy, Zenon DEF Steps, Bootstrap
  <2>4. /\ session' \in Sessions /\ session'.rav = session.rav
    <3>1. /\ [session EXCEPT !.stored = TRUE] \in Sessions
          /\ [session EXCEPT !.stored = TRUE].rav = session.rav
      BY <1>0, Zenon DEF Sessions
    <3> QED
      BY <1>0, <1>6, <3>1, Zenon DEF Bootstrap
  <2>5. /\ ClientTypes' /\ BoundOnThisStream'
        /\ caller'[Control].op \in {"none", "bind"}
    <3>1. CASE caller' = caller
      <4>1. ClientTypes' /\ BoundOnThisStream'
        BY <1>0, <2>1, <3>1, Zenon DEF ClientTypes, BoundOnThisStream
      <4> QED
        BY <1>2, <3>1, <4>1, NoCallType, Zenon
    <3>2. CASE caller' = [caller EXCEPT
                            ![Control] = [NoCall EXCEPT !.op = "bind", !.at = "start"]]
      BY <1>0, <2>1, <3>2, ControlCalls, NewCalls, CallKeeps, Zenon
    <3> QED
      BY <1>6, <3>1, <3>2, Zenon DEF Bootstrap
  <2>6. Types'
    BY <1>0, <2>1, <2>2, <2>3, <2>4, <2>5, Zenon DEF Types
  <2>7. /\ \A i \in 1..Len(down') : FALSE
        /\ ~Submitting' /\ ~(up' > 0)
    <3>1. Len(down') = 0 /\ ~(up' > 0)
      BY <1>2, <2>1
    <3>2. \A i \in 1..Len(down') : FALSE
      BY <3>1
    <3> QED
      BY <2>5, <3>1, <3>2, Zenon DEF Submitting
  <2>8. WithinMetered' /\ HeldRAVWasAccepted'
    BY <1>0, <2>1, <2>2, <2>4, <2>7, Zenon
       DEF RAVInv, WithinMetered, HeldRAVWasAccepted
  <2>9. RequestsInOrder' /\ ContinueAccepts' /\ SignedIsAccepted' /\ NothingBefore'
    <3>1. pendingRAV' <= provider'.rav
      BY <1>0, <1>2, <2>1, <2>2 DEF Providers
    <3> QED
      BY <2>3, <2>7, <3>1, Zenon
         DEF RequestsInOrder, ContinueAccepts, SignedIsAccepted, NothingBefore, Holds
  <2>10. CutInv'
    BY <1>0, <1>1, <1>2, <1>3, <1>4, <2>1, <2>3, Zenon DEF CutInv, Answered
  <2> QED
    BY <2>5, <2>6, <2>8, <2>9, <2>10, Zenon DEF IngressInv, RAVInv
<1> QED
  BY <1>5, <1>6, Zenon

LEMMA ConnectStep ==
  ASSUME IngressInv, mode = "ingress", Connect
  PROVE  IngressInv'
<1> USE DEF clientVars, providerVars, controlVars
<1>0. /\ Types /\ RAVInv /\ BoundOnThisStream /\ CutInv
      /\ proxy \in Proxies /\ provider \in Providers
  BY Zenon DEF IngressInv, Types
<1>1. /\ UNCHANGED <<clientVars, mode, down, up, session, pendingRAV, coordinator,
                     canceled, clientGone>>
      /\ proxy.at = "connect"
  BY Zenon DEF Connect
<1>2. /\ provider' \in Providers /\ provider'.rav = provider.rav
      /\ provider'.metered = provider.metered /\ provider.metered <= provider.metered
      /\ Outstanding => Outstanding'
  <2>1. /\ provider' = provider
           \/ provider' = [provider EXCEPT !.worker = provider.active]
    BY Zenon DEF Connect
  <2> QED
    BY <1>0, <2>1 DEF Providers, Outstanding
<1>3. /\ proxy' \in Proxies
      /\ \/ proxy'.at = "stream" /\ upstream' = "open" /\ outcome' = outcome
         \/ proxy'.at = "finish" /\ upstream' = upstream
  BY <1>0, GotoProxy, ReturnProxy, Zenon DEF Steps, Connect
<1>4. CutInv'
  BY <1>0, <1>1, <1>3, Zenon DEF CutInv, Answered
<1>5. Types' /\ BoundOnThisStream'
  BY <1>0, <1>1, <1>2, <1>3, Zenon
     DEF Types, ClientTypes, BoundOnThisStream, Upstreams
<1>6. NothingBefore' /\ MessagesKept /\ (Submitting' => Submitting)
  BY <1>1, <1>3, Zenon DEF NothingBefore, MessagesKept, Submitting
<1> QED
  BY <1>0, <1>1, <1>2, <1>4, <1>5, <1>6, RAVFrame, Zenon DEF IngressInv

\* A cancelled stream ends: who cancelled it left a result, or the caller did.
LEMMA OpenStreamStep ==
  ASSUME IngressInv, mode = "ingress", Relay \/ UpstreamCanceled
  PROVE  IngressInv'
<1> USE DEF clientVars, providerVars, controlVars, proxyVars
<1>0. Types /\ RAVInv /\ BoundOnThisStream /\ CutInv /\ proxy \in Proxies
  BY Zenon DEF IngressInv, Types
<1>1. /\ UNCHANGED <<clientVars, mode, provider, down, up, session, pendingRAV,
                     coordinator>>
      /\ UNCHANGED <<proxy, outcome, canceled, clientGone>>
      /\ proxy.at = "stream"
      /\ upstream' = upstream \/ canceled
      /\ upstream' \in Upstreams
  BY <1>0, Zenon DEF Relay, UpstreamCanceled, Types, Upstreams
<1>2. CutInv'
  BY <1>0, <1>1, Zenon DEF CutInv, Answered
<1>3. proxy' \in Proxies /\ proxy'.at # "bootstrap"
  BY <1>0, <1>1, Zenon
<1> QED
  BY <1>0, <1>1, <1>2, <1>3, ProxyQuiet, Zenon DEF IngressInv

LEMMA FinishStep ==
  ASSUME IngressInv, mode = "ingress", CancelRuntime \/ JoinControl
  PROVE  IngressInv'
<1> USE DEF clientVars, providerVars, controlVars
<1>0. /\ Types /\ RAVInv /\ BoundOnThisStream /\ CutInv /\ ClientTypes
      /\ proxy \in Proxies /\ session \in Sessions /\ provider \in Providers
  BY Zenon DEF IngressInv, Types
<1>1. /\ UNCHANGED <<caller, sentOn, mode, provider, down, up, upstream, pendingRAV,
                     coordinator, outcome, clientGone>>
      /\ canceled' = canceled \/ proxy'.at = "join"
  BY <1>0, GotoProxy, Zenon DEF Steps, CancelRuntime, JoinControl, Close
<1>2. proxy' \in Proxies /\ proxy'.at \in {"join", "returned"} /\ proxy.at \in Answered
  BY <1>0, GotoProxy, Zenon DEF Steps, CancelRuntime, JoinControl, Answered
<1>3. CutInv'
  BY <1>0, <1>1, <1>2, Zenon DEF CutInv, Answered
<1>4. session' \in Sessions /\ session'.rav = session.rav
  <2>1. /\ [session EXCEPT !.stored = FALSE] \in Sessions
        /\ [session EXCEPT !.stored = FALSE].rav = session.rav
    BY <1>0, Zenon DEF Sessions
  <2> QED
    BY <1>0, <2>1, Zenon DEF CancelRuntime, JoinControl
<1>5. ClientTypes' /\ BoundOnThisStream'
  <2>1. CASE CancelRuntime
    BY <1>0, <2>1, Zenon DEF CancelRuntime, ClientTypes, BoundOnThisStream
  <2>2. CASE JoinControl
    BY <1>0, <2>2, CloseKeeps, Zenon DEF JoinControl
  <2> QED
    BY <2>1, <2>2, Zenon
<1>6. Types'
  BY <1>0, <1>1, <1>2, <1>4, <1>5, Zenon DEF Types
<1>7. /\ NothingBefore' /\ MessagesKept /\ (Submitting' => Submitting)
      /\ Outstanding => Outstanding'
  BY <1>1, <1>2, Zenon DEF NothingBefore, MessagesKept, Submitting, Outstanding
<1>8. provider.metered <= provider'.metered
  BY <1>0, <1>1 DEF Providers
<1> QED
  BY <1>0, <1>1, <1>3, <1>4, <1>5, <1>6, <1>7, <1>8, RAVFrame, Zenon DEF IngressInv

LEMMA ProxyStep ==
  ASSUME IngressInv, mode = "ingress", ProxyNext
  PROVE  IngressInv'
BY ProxyStreamStep, BootstrapStep, ConnectStep, OpenStreamStep,
   FinishStep, Zenon DEF ProxyNext

-----------------------------------------------------------------------------
(* The control goroutine's steps.                                           *)

\* The control goroutine leaves the provider and the proxy alone.
LEMMA ControlQuiet ==
  ASSUME IngressInv, mode = "ingress", ClientTypes', BoundOnThisStream',
         UNCHANGED <<controlRest, up, session, pendingRAV>>,
         coordinator' \in Coordinators, down' = down \/ down' = <<>>,
         proxy.at # "bootstrap", Submitting' => Submitting
  PROVE  Types' /\ RAVInv' /\ BoundOnThisStream'
<1> USE DEF controlRest, proxyVars
<1>0. Types /\ RAVInv /\ provider \in Providers /\ down \in Seq(Messages)
  BY Zenon DEF IngressInv, Types
<1>1. down' \in Seq(Messages)
  <2>1. <<>> \in Seq(Messages)
    OBVIOUS
  <2> QED
    BY <1>0, <2>1, Zenon
<1>2. Types'
  BY <1>0, <1>1, Zenon DEF Types
<1>3. MessagesKept
  <2>1. CASE down' = down
    BY <2>1, Zenon DEF MessagesKept
  <2>2. CASE down' = <<>>
    BY <2>2 DEF MessagesKept
  <2> QED
    BY <2>1, <2>2, Zenon
<1>4. NothingBefore' /\ (Outstanding => Outstanding')
  BY Zenon DEF NothingBefore, Outstanding
<1>5. provider.metered <= provider'.metered
  BY <1>0 DEF Providers
<1> QED
  BY <1>0, <1>2, <1>3, <1>4, <1>5, RAVFrame, Zenon

\* As long as the control goroutine has work to do there is a session, and no
\* result.
LEMMA ControlAlive ==
  ASSUME IngressInv, mode = "ingress",
         caller[Control].op \in {"bind", "rav", "receive", "status"}
           \/ caller[Control].at # "idle"
  PROVE  coordinator.result = "none" /\ proxy.at # "bootstrap"
<1>1. CutInv /\ NothingBefore
  BY Zenon DEF IngressInv, RAVInv
<1>2. proxy.at # "bootstrap"
  BY <1>1, NoCallType, Zenon DEF NothingBefore
<1>3. coordinator.result = "none"
  BY <1>1, Zenon DEF CutInv
<1> QED
  BY <1>2, <1>3, Zenon

\* Its steps before it ends do not touch how the stream ends.
LEMMA CutBefore ==
  ASSUME CutInv, coordinator.result = "none", coordinator'.result = "none",
         UNCHANGED <<controlRest, canceled>>
  PROVE  CutInv'
BY Zenon DEF CutInv, controlRest, proxyVars

\* It goes on with another call.
LEMMA ControlGoesTo ==
  ASSUME ClientTypes, BoundOnThisStream, UNCHANGED <<client, sentOn>>,
         NEW op \in {"receive", "status", "done"}, ControlAt(op)
  PROVE  /\ ClientTypes' /\ BoundOnThisStream'
         /\ caller'[Control].op = op /\ caller'[Control].at = "idle"
BY ControlCalls, NewCalls, CallKeeps, Zenon DEF ControlAt

\* It ends, and leaves a result.
LEMMA ControlEnds ==
  ASSUME IngressInv, mode = "ingress",
         caller[Control].op \in {"bind", "rav", "receive", "status"},
         coordinator' \in Coordinators, coordinator'.result # "none",
         ControlAt("done"), down' = <<>>,
         UNCHANGED <<controlRest, client, sentOn, up, session, pendingRAV>>
  PROVE  IngressInv'
<1>0. ClientTypes /\ BoundOnThisStream /\ CutInv
  BY Zenon DEF IngressInv, Types
<1>1. coordinator.result = "none" /\ proxy.at # "bootstrap"
  BY ControlAlive, Zenon
<1>2. /\ ClientTypes' /\ BoundOnThisStream'
      /\ caller'[Control].op = "done" /\ caller'[Control].at = "idle"
  BY <1>0, ControlGoesTo, Zenon
<1>3. CutInv'
  BY <1>0, <1>1, <1>2, Zenon DEF CutInv, controlRest, proxyVars
<1>4. Submitting' => Submitting
  BY <1>2, Zenon DEF Submitting
<1> QED
  BY <1>1, <1>2, <1>3, <1>4, ControlQuiet, Zenon DEF IngressInv

LEMMA EndControlStep ==
  ASSUME IngressInv, mode = "ingress",
         caller[Control].op \in {"bind", "rav", "receive", "status"},
         NEW kind \in Results, NEW error \in Errors,
         EndControl(kind, error),
         UNCHANGED <<controlRest, client, sentOn, up, session, pendingRAV>>
  PROVE  IngressInv'
<1>1. coordinator \in Coordinators
  BY Zenon DEF IngressInv, Types
<1>2. coordinator' \in Coordinators /\ coordinator'.result # "none"
  BY <1>1, SetResultCoordinator, Zenon DEF EndControl
<1> QED
  BY <1>2, ControlEnds, Zenon DEF EndControl

\* Its client calls.
LEMMA ControlCallStep ==
  ASSUME IngressInv, mode = "ingress",
         ControlProceeds \/ ControlBinds \/ ControlSendFails
  PROVE  IngressInv'
<1>0. ClientTypes /\ BoundOnThisStream /\ CutInv /\ coordinator \in Coordinators
  BY Zenon DEF IngressInv, Types
<1>1. /\ ClientTypes' /\ BoundOnThisStream'
      /\ caller[Control].at # "idle" /\ (Submitting' => Submitting)
  BY <1>0, ControlCallKeeps, Zenon
<1>2. coordinator.result = "none" /\ proxy.at # "bootstrap"
  BY <1>1, ControlAlive, Zenon
<1>3. UNCHANGED <<controlRest, up, session, pendingRAV, canceled, down, coordinator>>
  BY Zenon DEF ControlProceeds, ControlBinds, ControlSendFails, controlVars
<1>4. CutInv'
  BY <1>0, <1>2, <1>3, CutBefore, Zenon
<1> QED
  BY <1>0, <1>1, <1>2, <1>3, <1>4, ControlQuiet, Zenon DEF IngressInv

\* The submission leaves: it is the request in the goroutine's hands.
LEMMA ControlSubmitsStep ==
  ASSUME IngressInv, mode = "ingress", ControlSubmits
  PROVE  IngressInv'
<1> USE DEF controlRest, proxyVars, controlVars
<1>0. /\ ClientTypes /\ BoundOnThisStream /\ CutInv /\ Types /\ RAVInv
      /\ RequestsInOrder /\ ContinueAccepts /\ WithinMetered
      /\ up \in Nat /\ pendingRAV \in Nat
  BY Zenon DEF IngressInv, Types, RAVInv
<1>1. /\ ClientTypes' /\ BoundOnThisStream'
      /\ caller[Control].at # "idle" /\ Submitting /\ ~Submitting'
  BY <1>0, ControlCallKeeps, Zenon
<1>2. coordinator.result = "none" /\ proxy.at # "bootstrap"
  BY <1>1, ControlAlive, Zenon
<1>3. /\ UNCHANGED <<controlRest, session, pendingRAV, canceled, down, coordinator>>
      /\ up' = pendingRAV \/ up' = 0
  BY Zenon DEF ControlSubmits
<1>4. CutInv'
  BY <1>0, <1>2, <1>3, CutBefore, Zenon
<1>5. Types'
  <2>1. up' \in Nat
    BY <1>0, <1>3
  <2> QED
    BY <1>0, <1>1, <1>3, <2>1, Zenon DEF Types
<1>6. WithinMetered' /\ HeldRAVWasAccepted'
  <2>1. up' <= provider.metered
    <3>1. pendingRAV <= provider.metered /\ up = 0 /\ up <= provider.metered
      BY <1>0, <1>1, Zenon DEF WithinMetered, RequestsInOrder
    <3> QED
      BY <1>3, <3>1, Zenon
  <2> QED
    BY <1>0, <1>3, <2>1, Zenon
       DEF RAVInv, WithinMetered, HeldRAVWasAccepted
<1>7. /\ Outstanding' /\ provider'.rav <= pendingRAV' /\ ~Holds("continue")'
      /\ \A i \in 1..Len(down') : down'[i].kind # "rav_request"
  BY <1>0, <1>1, <1>3, Zenon DEF RequestsInOrder, Outstanding, Holds
<1>8. up' > 0 => up' = pendingRAV'
  BY <1>3
<1>9. RequestsInOrder' /\ ContinueAccepts' /\ SignedIsAccepted' /\ NothingBefore'
  BY <1>1, <1>2, <1>3, <1>7, <1>8, Zenon
     DEF RequestsInOrder, ContinueAccepts, SignedIsAccepted, NothingBefore
<1> QED
  BY <1>1, <1>4, <1>5, <1>6, <1>9, Zenon DEF IngressInv, RAVInv

\* A client call returned.
LEMMA ControlReturnsStep ==
  ASSUME IngressInv, mode = "ingress", ControlReturns
  PROVE  IngressInv'
<1>0. ClientTypes /\ BoundOnThisStream /\ CutInv /\ coordinator \in Coordinators
  BY Zenon DEF IngressInv, Types
<1>1. /\ caller[Control].op \in {"bind", "rav", "receive", "status"}
      /\ UNCHANGED <<controlRest, client, sentOn, up, session, pendingRAV>>
  BY Zenon DEF ControlReturns
<1>2. CASE EndControl("failure", "unavailable")
  BY <1>1, <1>2, EndControlStep, Zenon DEF Results, Errors
<1>3. CASE /\ ControlAt("receive") \/ ControlAt("status")
           /\ UNCHANGED <<down, coordinator, canceled>>
  <2>1. /\ ClientTypes' /\ BoundOnThisStream'
        /\ caller'[Control].op \in {"receive", "status"}
    BY <1>0, <1>1, <1>3, ControlGoesTo, Zenon
  <2>2. coordinator.result = "none" /\ proxy.at # "bootstrap"
    BY <1>1, ControlAlive, Zenon
  <2>3. CutInv'
    BY <1>0, <1>1, <1>3, <2>2, CutBefore, Zenon
  <2>4. Submitting' => Submitting
    BY <2>1, Zenon DEF Submitting
  <2> QED
    BY <1>0, <1>1, <1>3, <2>1, <2>2, <2>3, <2>4, ControlQuiet, Zenon DEF IngressInv
<1> QED
  BY <1>2, <1>3, Zenon DEF ControlReturns

\* The steps it ends with.
LEMMA ControlEndStep ==
  ASSUME IngressInv, mode = "ingress",
         ControlStatus \/ ReceiveStop \/ ReceiveError \/ ReceiveUnsignable
  PROVE  IngressInv'
<1>1. /\ caller[Control].op \in {"bind", "rav", "receive", "status"}
      /\ UNCHANGED <<controlRest, client, sentOn, up, session, pendingRAV>>
  BY Zenon DEF ControlStatus, ReceiveStop, ReceiveError, ReceiveUnsignable, Receiving
<1>2. CASE ReceiveUnsignable
  <2>1. coordinator' = [result |-> "failure", error |-> "internal", pending |-> TRUE]
    BY <1>2, Zenon DEF ReceiveUnsignable
  <2>2. coordinator' \in Coordinators /\ coordinator'.result # "none"
    BY <2>1 DEF Coordinators, Results, Errors
  <2> QED
    BY <1>1, <1>2, <2>2, ControlEnds, Zenon DEF ReceiveUnsignable
<1>3. CASE ControlStatus \/ ReceiveStop \/ ReceiveError
  <2>1. PICK kind \in Results, error \in Errors : EndControl(kind, error)
    BY <1>3, Zenon DEF ControlStatus, ReceiveStop, ReceiveError, Results, Errors
  <2> QED
    BY <1>1, <2>1, EndControlStep, Zenon
<1> QED
  BY <1>2, <1>3, Zenon

\* A request is signed: it was the only one, and nothing accepts it yet.
LEMMA ReceiveRequestStep ==
  ASSUME IngressInv, mode = "ingress", ReceiveRAVRequest
  PROVE  IngressInv'
<1> USE DEF controlRest, proxyVars
<1>0. /\ ClientTypes /\ BoundOnThisStream /\ CutInv /\ Types /\ RAVInv
      /\ RequestsInOrder /\ WithinMetered /\ down \in Seq(Messages)
      /\ coordinator \in Coordinators /\ session \in Sessions /\ provider \in Providers
  BY Zenon DEF IngressInv, Types, RAVInv
<1>1. /\ caller[Control].op = "receive" /\ down # <<>> /\ Head(down).kind = "rav_request"
      /\ down' = Tail(down) /\ SetPending(TRUE) /\ pendingRAV' = Signed(Head(down))
      /\ session' = [session EXCEPT !.usage = @ + Head(down).usage]
      /\ caller' = [caller EXCEPT
                      ![Control] = [NoCall EXCEPT !.op = "rav", !.at = "start"]]
      /\ UNCHANGED <<controlRest, client, sentOn, up, canceled>>
  BY Zenon DEF ReceiveRAVRequest, Receiving, CountUsage
<1>2. coordinator.result = "none" /\ proxy.at # "bootstrap"
  BY <1>1, ControlAlive, Zenon
<1>3. coordinator' \in Coordinators /\ coordinator'.result = "none"
  BY <1>0, <1>1, <1>2, SetPendingCoordinator, Zenon
<1>4. CutInv'
  BY <1>0, <1>1, <1>2, <1>3, CutBefore, Zenon
<1>5. ClientTypes' /\ BoundOnThisStream'
  BY <1>0, <1>1, ControlCalls, NewCalls, CallKeeps, Zenon
<1>6. /\ down' \in Seq(Messages)
      /\ Head(down) = down[1] /\ Head(down) \in Messages /\ 1 \in 1..Len(down)
      /\ \A i \in 1..Len(down') : i + 1 \in 1..Len(down) /\ down'[i] = down[i + 1]
  BY <1>0, <1>1, NextMessage, Zenon
<1>7. Signed(Head(down)) \in Nat /\ Head(down).usage \in Nat
  BY <1>6, SignedMessage, Zenon
<1>8. session' \in Sessions /\ session'.rav = session.rav
  BY <1>0, <1>1, <1>7 DEF Sessions
<1>9. Types'
  BY <1>0, <1>1, <1>3, <1>5, <1>6, <1>7, <1>8, Zenon DEF Types
<1>10. WithinMetered' /\ HeldRAVWasAccepted'
  BY <1>0, <1>1, <1>6, <1>8, Zenon
     DEF RAVInv, WithinMetered, HeldRAVWasAccepted
<1>11. /\ Outstanding /\ up = 0 /\ provider.rav <= Signed(down[1])
       /\ \A j \in 1..Len(down) : down[j].kind = "rav_request" => j = 1
       /\ \A j \in 1..Len(down) : down[j].kind = "continue" => j < 1
  BY <1>0, <1>1, <1>6, Zenon DEF RequestsInOrder
<1>12. \A i \in 1..Len(down') : i + 1 # 1 /\ ~(i + 1 < 1)
  BY <1>6
<1>13. \A i \in 1..Len(down') : down'[i].kind \notin {"rav_request", "continue"}
  BY <1>6, <1>11, <1>12, Zenon
<1>14. /\ Outstanding' /\ up' = 0 /\ provider'.rav <= pendingRAV'
       /\ ~Holds("continue")'
  BY <1>1, <1>6, <1>11, <1>13, Zenon DEF Outstanding, Holds
<1>15. ~(up' > 0)
  BY <1>14
<1>16. RequestsInOrder' /\ ContinueAccepts' /\ SignedIsAccepted' /\ NothingBefore'
  BY <1>1, <1>2, <1>13, <1>14, <1>15, Zenon
     DEF RequestsInOrder, ContinueAccepts, SignedIsAccepted, NothingBefore
<1> QED
  BY <1>4, <1>5, <1>9, <1>10, <1>16, Zenon DEF IngressInv, RAVInv

\* An acceptance is received: the RAV it is about was accepted.
LEMMA ReceiveContinueStep ==
  ASSUME IngressInv, mode = "ingress", ReceiveContinue
  PROVE  IngressInv'
<1> USE DEF controlRest, proxyVars, clientVars
<1>0. /\ ClientTypes /\ BoundOnThisStream /\ CutInv /\ Types /\ RAVInv
      /\ RequestsInOrder /\ ContinueAccepts /\ WithinMetered /\ down \in Seq(Messages)
      /\ coordinator \in Coordinators /\ session \in Sessions /\ provider \in Providers
      /\ pendingRAV \in Nat /\ up \in Nat
  BY Zenon DEF IngressInv, Types, RAVInv
<1>1. /\ caller[Control].op = "receive" /\ down # <<>> /\ Head(down).kind = "continue"
      /\ down' = Tail(down) /\ SetPending(FALSE) /\ pendingRAV' = 0
      /\ AcceptPending
      /\ UNCHANGED <<controlRest, clientVars, up, canceled>>
  BY Zenon DEF ReceiveContinue, Receiving
<1>2. coordinator.result = "none" /\ proxy.at # "bootstrap"
  BY <1>1, ControlAlive, Zenon
<1>3. coordinator' \in Coordinators /\ coordinator'.result = "none"
  BY <1>0, <1>1, <1>2, SetPendingCoordinator, Zenon
<1>4. CutInv'
  BY <1>0, <1>1, <1>2, <1>3, CutBefore, Zenon
<1>5. ClientTypes' /\ BoundOnThisStream'
  BY <1>0, <1>1, Zenon DEF ClientTypes, BoundOnThisStream
<1>6. /\ down' \in Seq(Messages)
      /\ Head(down) = down[1] /\ 1 \in 1..Len(down)
      /\ \A i \in 1..Len(down') : i + 1 \in 1..Len(down) /\ down'[i] = down[i + 1]
  BY <1>0, <1>1, NextMessage, Zenon
<1>7. Holds("continue") /\ pendingRAV <= provider.rav
  BY <1>0, <1>1, <1>6, Zenon DEF Holds, ContinueAccepts
<1>8. session' \in Sessions /\ session'.rav \in {session.rav, pendingRAV}
  <2>1. /\ [session EXCEPT !.rav = pendingRAV] \in Sessions
        /\ [session EXCEPT !.rav = pendingRAV].rav = pendingRAV
    BY <1>0 DEF Sessions
  <2> QED
    BY <1>0, <1>1, <2>1, Zenon DEF AcceptPending
<1>9. Types'
  <2>1. pendingRAV' \in Nat
    BY <1>1
  <2> QED
    BY <1>0, <1>1, <1>3, <1>5, <1>6, <1>8, <2>1, Zenon DEF Types
<1>10. WithinMetered' /\ HeldRAVWasAccepted'
  <2>1. 0 <= provider.metered
    BY <1>0 DEF Providers
  <2> QED
    BY <1>0, <1>1, <1>6, <1>7, <1>8, <2>1, Zenon
       DEF RAVInv, WithinMetered, HeldRAVWasAccepted
<1>11. ~Submitting' /\ ~(up' > 0) /\ (Outstanding => Outstanding')
  <2>1. ~(up' > 0)
    BY <1>0, <1>1, <1>7, Zenon DEF RequestsInOrder
  <2> QED
    BY <1>1, <2>1, Zenon DEF Submitting, Outstanding
<1>12. ASSUME NEW i \in 1..Len(down'), down'[i].kind = "rav_request"
       PROVE  /\ Outstanding' /\ ~Submitting' /\ up' = 0
              /\ provider'.rav <= Signed(down'[i])
              /\ \A j \in 1..Len(down') : down'[j].kind = "rav_request" => j = i
              /\ \A j \in 1..Len(down') : down'[j].kind = "continue" => j < i
  <2>1. /\ Outstanding /\ up = 0 /\ provider.rav <= Signed(down[i + 1])
        /\ \A j \in 1..Len(down) : down[j].kind = "rav_request" => j = i + 1
        /\ \A j \in 1..Len(down) : down[j].kind = "continue" => j < i + 1
    BY <1>0, <1>6, <1>12, Zenon DEF RequestsInOrder
  <2>2. \A j \in 1..Len(down') :
          (j + 1 = i + 1 => j = i) /\ (j + 1 < i + 1 => j < i)
    BY <1>6
  <2>3. \A j \in 1..Len(down') : down'[j].kind = "rav_request" => j = i
    BY <1>6, <2>1, <2>2, Zenon
  <2>4. \A j \in 1..Len(down') : down'[j].kind = "continue" => j < i
    BY <1>6, <2>1, <2>2, Zenon
  <2> QED
    BY <1>1, <1>6, <1>11, <2>1, <2>3, <2>4, Zenon
<1>13. RequestsInOrder'
  BY <1>11, <1>12, Zenon DEF RequestsInOrder
<1>14. ContinueAccepts' /\ SignedIsAccepted' /\ NothingBefore'
  <2>1. 0 <= provider'.rav
    BY <1>0, <1>1 DEF Providers
  <2> QED
    BY <1>1, <1>2, <2>1, Zenon DEF ContinueAccepts, SignedIsAccepted, NothingBefore
<1> QED
  BY <1>4, <1>5, <1>9, <1>10, <1>13, <1>14, Zenon DEF IngressInv, RAVInv

LEMMA ControlStep ==
  ASSUME IngressInv, mode = "ingress", ControlNext
  PROVE  IngressInv'
BY ControlCallStep, ControlSubmitsStep, ControlReturnsStep, ControlEndStep,
   ReceiveRequestStep, ReceiveContinueStep, Zenon DEF ControlNext

-----------------------------------------------------------------------------
(* The invariant.                                                           *)

LEMMA ClientLeavesStep ==
  ASSUME IngressInv, mode = "ingress", ClientLeaves
  PROVE  IngressInv'
<1> USE DEF clientVars, providerVars, controlVars, proxyVars
<1>0. Types /\ RAVInv /\ BoundOnThisStream /\ CutInv /\ provider \in Providers
  BY Zenon DEF IngressInv, Types
<1>1. /\ UNCHANGED <<clientVars, mode, provider, down, up, session, pendingRAV,
                     coordinator>>
      /\ UNCHANGED <<proxy, outcome, upstream>> /\ clientGone'
  BY Zenon DEF ClientLeaves
<1>2. CutInv'
  BY <1>0, <1>1, Zenon DEF CutInv
<1>3. Types' /\ BoundOnThisStream'
  BY <1>0, <1>1, Zenon DEF Types, ClientTypes, BoundOnThisStream
<1>4. RAVInv'
  BY <1>0, <1>1, ZenonT(30) DEF RAVInv, WithinMetered, HeldRAVWasAccepted,
     RequestsInOrder, ContinueAccepts, SignedIsAccepted, NothingBefore, Outstanding,
     Submitting, Holds
<1> QED
  BY <1>2, <1>3, <1>4, Zenon DEF IngressInv

LEMMA ClientNextStep ==
  ASSUME IngressInv, ClientNext
  PROVE  IngressInv'
<1> USE DEF providerVars, controlVars, proxyVars
<1>0. Types /\ RAVInv /\ CutInv /\ ClientTypes /\ BoundOnThisStream
  BY Zenon DEF IngressInv, Types
<1>1. /\ mode = "client" /\ mode' = mode
      /\ UNCHANGED <<provider, down, up, session, pendingRAV, coordinator,
                     proxy, outcome, upstream, canceled, clientGone>>
  BY Zenon DEF ClientNext, ClientStep
<1>2. ClientTypes' /\ BoundOnThisStream'
  BY <1>0, ClientStepKeeps, Zenon DEF ClientNext
<1>3. CutInv'
  BY <1>0, <1>1, Zenon DEF CutInv
<1>4. RAVInv'
  BY <1>0, <1>1, Zenon DEF RAVInv, WithinMetered, HeldRAVWasAccepted
<1>5. Types'
  BY <1>0, <1>1, <1>2, Zenon DEF Types
<1> QED
  BY <1>2, <1>3, <1>4, <1>5, Zenon DEF IngressInv

LEMMA IngressInit == Init => IngressInv
<1> SUFFICES ASSUME Init
             PROVE  IngressInv
  BY Zenon
<1>1. ClientTypes /\ BoundOnThisStream /\ caller[Control] = NoCall
  <2>1. NewClient \in Clients /\ ~NewClient.bound
    BY DEF NewClient, Clients
  <2>2. client = NewClient /\ caller = [g \in Callers |-> NoCall]
    BY Zenon DEF Init, ClientInit
  <2> QED
    BY <2>1, <2>2, NoCallType, ControlCalls, Zenon DEF ClientTypes, BoundOnThisStream
<1>2. /\ provider \in Providers /\ provider.rav = 0 /\ provider.metered = 0
      /\ ~provider.active
  BY DEF Init, Providers
<1>3. session \in Sessions /\ session.rav = 0
  BY DEF Init, Sessions
<1>4. proxy \in Proxies /\ proxy.at = "bootstrap"
  BY DEF Init, Proxies, Steps
<1>5. coordinator \in Coordinators /\ coordinator.result = "none"
  BY DEF Init, Coordinators
<1>6. /\ down = <<>> /\ up = 0 /\ pendingRAV = 0 /\ outcome = "none"
      /\ upstream = "none" /\ canceled = FALSE
  BY Zenon DEF Init
<1>7. /\ down \in Seq(Messages) /\ (\A i \in 1..Len(down) : FALSE)
      /\ up \in Nat /\ pendingRAV \in Nat /\ ~(up > 0)
      /\ 0 <= 0
  BY <1>6
<1>8. Types
  BY <1>1, <1>2, <1>3, <1>4, <1>5, <1>6, <1>7, Zenon DEF Types, Upstreams
<1>9. ~Submitting
  BY <1>1, NoCallType, Zenon DEF Submitting
<1>10. RAVInv
  BY <1>1, <1>2, <1>3, <1>6, <1>7, <1>9, Zenon DEF RAVInv, WithinMetered,
     HeldRAVWasAccepted, RequestsInOrder, ContinueAccepts, SignedIsAccepted,
     NothingBefore, Holds
<1>11. CutInv
  BY <1>5, <1>6, Zenon DEF CutInv
<1> QED
  BY <1>1, <1>8, <1>10, <1>11, Zenon DEF IngressInv

LEMMA IngressInductive == IngressInv /\ [Next]_vars => IngressInv'
<1>1. ASSUME IngressInv, UNCHANGED vars
      PROVE  IngressInv'
  <2>1. Types' /\ BoundOnThisStream'
    BY <1>1, Zenon DEF IngressInv, Types, ClientTypes, BoundOnThisStream, vars, clientVars
  <2>2. RAVInv'
    BY <1>1, ZenonT(30) DEF IngressInv, RAVInv, WithinMetered,
       HeldRAVWasAccepted, RequestsInOrder, ContinueAccepts, SignedIsAccepted, NothingBefore,
       Outstanding, Submitting, Holds, vars, clientVars
  <2>3. CutInv'
    BY <1>1, Zenon DEF IngressInv, CutInv, vars, clientVars
  <2> QED
    BY <2>1, <2>2, <2>3, Zenon DEF IngressInv
<1> QED
  BY <1>1, ClientNextStep, ProviderStep, ProxyStep, ControlStep, ClientLeavesStep,
     Zenon DEF Next

LEMMA IngressInvariant == Spec => []IngressInv
BY IngressInit, IngressInductive, PTL DEF Spec

-----------------------------------------------------------------------------
\* A client is bound only on the stream its bind request was sent on, whatever
\* calls end late on a stream that was replaced (BindSession).
THEOREM BoundAlwaysOnThisStream == Spec => []BoundOnThisStream
<1>1. IngressInv => BoundOnThisStream
  BY Zenon DEF IngressInv
<1> QED
  BY <1>1, IngressInvariant, PTL

\* Only the last read of a status answers a stream as complete in a session
\* that goes on.
LEMMA OkIsPolled ==
  ASSUME IngressInv, [Next]_vars, outcome' = "ok", outcome # "ok", provider.active
  PROVE  mode = "ingress" /\ NothingPending
<1>0. coordinator \in Coordinators /\ upstream \in Upstreams
  BY Zenon DEF IngressInv, Types
<1>1. CurrentError(upstream) # "ok" /\ coordinator.error # "ok"
  BY <1>0, Zenon DEF CurrentError, Coordinators, Errors, Upstreams
<1>2. Resolve = "unresolved"
  BY Zenon DEF Resolve
<1>3. \A code : code # "ok" => ~Return(code)
  BY Zenon DEF Return
<1>4. CASE UNCHANGED vars
  BY <1>4, Zenon DEF vars
<1>5. CASE ClientNext
  BY <1>5, Zenon DEF ClientNext, proxyVars
<1>6. CASE mode = "ingress" /\ (ProviderNext \/ ControlNext \/ ClientLeaves)
  <2>1. outcome' = outcome
    BY <1>6, ZenonT(30) DEF ProviderNext, ControlNext, ClientLeaves, RequestRAV,
       Submission, Meter, StopForFunds, UpstreamEnds, ReturnWorker,
       EndProviderSession, BreakStream, ControlProceeds, ControlBinds,
       ControlSubmits, ControlSendFails, ControlReturns, ControlStatus,
       ReceiveRAVRequest, ReceiveUnsignable, ReceiveContinue, ReceiveStop,
       ReceiveError, controlRest, proxyVars
  <2> QED
    BY <2>1, Zenon
<1>7. CASE mode = "ingress" /\ ProxyNext
  <2>1. ~(BootstrapRefused \/ Bootstrap \/ Connect \/ RelayFails)
    BY <1>3, Zenon DEF BootstrapRefused, Bootstrap, Connect, RelayFails
  <2>2. ~(ResolveTermination \/ ReturnUpstreamError \/ LookAtCoordinator)
    BY <1>1, <1>3, Zenon DEF ResolveTermination, ReturnUpstreamError, LookAtCoordinator
  <2>3. ~GiveUp
    <3>1. \A code : code # "ok" => CurrentError(code) # "ok"
      BY <1>1, Zenon DEF CurrentError
    <3> QED
      BY <1>3, <3>1, Zenon DEF GiveUp
  <2>4. ~PollSession
    BY <1>2, Zenon DEF PollSession
  <2>5. ~(Relay \/ UpstreamCanceled \/ PollWorkers \/ PollFails \/ WakeUp
            \/ CancelRuntime \/ JoinControl)
    BY Zenon DEF Relay, UpstreamCanceled, PollWorkers, PollFails, WakeUp,
       CancelRuntime, JoinControl, proxyVars
  <2>6. PollRuntime
    BY <1>7, <2>1, <2>2, <2>3, <2>4, <2>5, Zenon DEF ProxyNext
  <2> QED
    BY <1>7, <2>6, Zenon DEF PollRuntime
<1> QED
  BY <1>4, <1>5, <1>6, <1>7, Zenon DEF Next

\* A finite stream is answered as complete, in a session that goes on, only
\* when no request is under way, what was signed was accepted, and the unpaid
\* usage makes no RAV due (awaitFiniteIngressPostStreamControl,
\* GetSessionStatus).
THEOREM AlwaysSettledBeforeOk == Spec => SettledBeforeOk
<1> DEFINE Settled == /\ ~RequestUnderWay
                      /\ pendingRAV <= provider.rav
                      /\ proxy.unpaid < Threshold
           Step == outcome' = "ok" /\ outcome # "ok" /\ provider.active => Settled
<1>1. IngressInv /\ [Next]_vars => Step
  <2> SUFFICES ASSUME IngressInv, [Next]_vars, outcome' = "ok", outcome # "ok",
                      provider.active
               PROVE  Settled
    BY Zenon
  <2>1. mode = "ingress" /\ NothingPending
    BY OkIsPolled, Zenon
  <2>2. RequestsInOrder /\ SignedIsAccepted /\ proxy \in Proxies
    BY <2>1, Zenon DEF IngressInv, RAVInv, Types
  <2>3. ~Outstanding
    BY <2>1 DEF NothingPending, Outstanding
  <2>4. ~RequestUnderWay /\ pendingRAV <= provider.rav
    BY <2>2, <2>3, Zenon DEF RequestsInOrder, SignedIsAccepted, RequestUnderWay
  <2>5. proxy.unpaid < Threshold
    <3>1. ~(proxy.unpaid >= Threshold)
      BY <2>1, Zenon DEF NothingPending, shouldRequestRAV
    <3>2. proxy.unpaid \in Int
      BY <2>2, Zenon DEF Proxies
    <3> QED
      BY <3>1, <3>2, IngressAssumption
  <2> QED
    BY <2>4, <2>5, Zenon
<1>2. Spec => [][Step]_vars
  <2> HIDE DEF Step
  <2> QED
    BY <1>1, IngressInvariant, PTL DEF Spec
<1> QED
  BY <1>2 DEF SettledBeforeOk

\* The session holds as current only a RAV the provider accepted
\* (runIngressPaymentControl).
THEOREM HeldRAVAlwaysAccepted == Spec => []HeldRAVWasAccepted
<1>1. IngressInv => HeldRAVWasAccepted
  BY Zenon DEF IngressInv, RAVInv
<1> QED
  BY <1>1, IngressInvariant, PTL

\* A stream that payment control cut is answered with the reason it was cut
\* for (resolveIngressStreamTermination).
THEOREM CutAlwaysReportsReason == Spec => []CutReportsReason
<1>1. IngressInv => CutReportsReason
  BY Zenon DEF IngressInv, CutInv, CutReportsReason
<1> QED
  BY <1>1, IngressInvariant, PTL
=============================================================================
