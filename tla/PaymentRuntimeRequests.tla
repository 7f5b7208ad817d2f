------------------------ MODULE PaymentRuntimeRequests ------------------------
(***************************************************************************)
(* The RAV requests of PaymentRuntime's only stream, answered by a         *)
(* consumer that sends nothing else: at most one is in flight, it is the   *)
(* one the provider checks the answer against, and no answer is rejected,  *)
(* for every number of usage reports in progress, restarts and repository  *)
(* failures.                                                               *)
(***************************************************************************)
EXTENDS PaymentRuntimeLedger

\* The hypotheses: those of the ledger, and a consumer that only answers.
OnlyAnswers == SingleStream /\ Strays = {}

\* Where no call fails, the stream was not stopped for an answer.
NotRejected(s) == ~RepoFails => stop[s] # "rejected"

\* The positions of the requests in the stream's channel.
Sent(s) == {i \in 1..Len(chan[s]) : chan[s][i].kind = "rav"}

\* Nothing is on the wire.
Quiet(s) == Sent(s) = {} /\ inbox[s] = <<>> /\ sub[s].kind = "none"

\* The one request there is waits in the channel or at the consumer, or its
\* answer is on the way.
OneOnWire(s) ==
  /\ \A i, j \in Sent(s) : i = j
  /\ Sent(s) # {} => inbox[s] = <<>> /\ sub[s].kind = "none"
  /\ Len(inbox[s]) <= 1
  /\ inbox[s] # <<>> => inbox[s][1].kind = "rav" /\ sub[s].kind = "none"
  /\ sub[s].kind \in {"none", "rav"}

\* A thread that is about to send a request is the only one that has one, and
\* finds the wire quiet, even if the stream has ended in the meantime.
SendsAlone(s) ==
  /\ \A t, u \in Threads :
       pend[t].kind = "rav" /\ pend[u].kind = "rav" => t = u
  /\ \A t \in Threads :
       pend[t].kind = "rav" /\ pc[t] \in {"dispatch", "send"} => Quiet(s)

\* A thread delivers the request it made or a need-more-funds response.
Delivers(t) ==
  /\ pend[t].kind = "rav" => pc[t] \in Requesting
  /\ pc[t] \in {"dispatch", "send", "ack"} =>
       resp[t] = pend[t] \/ resp[t].kind = "funds"
  /\ pc[t] \in {"dispatch", "send", "ack"} =>
       (resp[t].kind = "rav" <=> pend[t].kind = "rav")
  /\ pc[t] \in {"dispatch", "send", "ack"} => resp[t].kind # "none"
  /\ pc[t] \in {"clear", "deliver", "delivered"} => resp[t].kind = "funds"

\* What is on the wire is the request the provider holds as pending, as long
\* as the session has not ended.
Matches(s) ==
  IsActive(session) =>
    /\ \A i \in Sent(s) : chan[s][i] = pendingRAV[live]
    /\ inbox[s] # <<>> => inbox[s][1] = pendingRAV[live]
    /\ sub[s].kind = "rav" => AnswersRequest(sub[s], pendingRAV[live])

\* A request that is sent is pending already.
PendingFirst ==
  \A t \in Threads :
    pc[t] \in {"send", "ack"} /\ pend[t].kind = "rav" =>
      pendingRAV[live] = pend[t]

\* The wire and the runtime state, by the step of the stream's handler.
Serves(s) ==
  /\ pc[s] \in {"idle", "bind", "commit", "accepted"} => Quiet(s)
  /\ live = None => Quiet(s)
  /\ pc[s] \in {"idle", "bind"} =>
       \A o \in States : queuedResponse[o].kind # "rav"
  /\ pc[s] = "submit" => sub[s].kind = "rav"
  /\ pc[s] # "fundsack"

\* After the deferred unbind nothing comes from the consumer any more.
Ended(s) ==
  /\ inbox[s] = <<>> /\ sub[s].kind = "none"
  /\ \A o \in States : events[o] = None

RequestsInv ==
  /\ \A t \in Threads : Delivers(t) /\ pend[t].kind # "funds"
  /\ \A o \in States : pendingRAV[o].kind # "funds"
  /\ \A s \in Streams :
       /\ OneOnWire(s) /\ SendsAlone(s)
       /\ NotRejected(s)
       /\ pc[s] = "done" => Ended(s)
       /\ pc[s] # "done" => Matches(s) /\ PendingFirst /\ Serves(s)

-----------------------------------------------------------------------------
(* What the threads deliver.                                                *)

LEMMA MessageKinds ==
  /\ NoMsg.kind = "none" /\ NoSubmission.kind = "none"
  /\ \A s, t : NewRAVRequest(s, t).kind = "rav"
  /\ \A t : NeedMoreFunds(t).kind = "funds"
BY DEF NoMsg, NoSubmission, NewRAVRequest, NeedMoreFunds

\* A step of thread t is not one of any other.
Moves(t) ==
  \A u \in Threads :
    u # t => pc'[u] = pc[u] /\ pend'[u] = pend[u] /\ resp'[u] = resp[u]

LEMMA DeliversFrame ==
  ASSUME \A u \in Threads : Delivers(u), NEW t \in Threads, Moves(t), Delivers(t)'
  PROVE  \A u \in Threads : Delivers(u)'
BY Zenon DEF Moves, Delivers

LEMMA LeaveEvalDelivers ==
  ASSUME TypeOK, NEW t \in Threads, NEW label, LeaveEval(t, label),
         label \in {"idle", "loop", "exit"}
  PROVE  /\ Moves(t) /\ Delivers(t)'
         /\ pc'[t] = label /\ pend'[t].kind # "rav"
<1>1. pc'[t] = label /\ pend'[t] = NoMsg /\ resp'[t] = NoMsg /\ Moves(t)
  BY Zenon DEF LeaveEval, Goto, TypeOK, Moves
<1>2. pend'[t].kind # "rav"
  BY <1>1, BlankKind, Zenon
<1>3. pc'[t] \notin {"dispatch", "send", "ack", "clear", "deliver", "delivered"}
  BY <1>1, Zenon
<1> QED
  BY <1>1, <1>2, <1>3, Zenon DEF Delivers

\* A step that only moves thread t.
LEMMA GotoDelivers ==
  ASSUME TypeOK, NEW t \in Threads, NEW label, Goto(t, label),
         UNCHANGED <<resp, pend>>, Delivers(t), pend[t].kind # "rav",
         label \notin {"dispatch", "send", "ack", "clear", "deliver", "delivered"}
  PROVE  Moves(t) /\ Delivers(t)' /\ pc'[t] = label
<1>1. pc'[t] = label /\ Moves(t)
  BY Zenon DEF Goto, TypeOK, Moves
<1> QED
  BY <1>1, Zenon DEF Delivers

\* Where an evaluation returns to.
LEMMA ReturnsTo ==
  ASSUME TypeOK, NEW t \in Threads
  PROVE  /\ AfterEval(t) \in {"idle", "loop", "exit"}
         /\ AfterFailedEval(t) \in {"idle", "loop", "exit"}
         /\ t \in Streams =>
              AfterEval(t) \in {"loop", "exit"} /\ AfterFailedEval(t) \in {"loop", "exit"}
BY Zenon DEF AfterEval, AfterFailedEval, TypeOK

LEMMA EvalStepDelivers ==
  ASSUME TypeOK, NEW t \in Threads, Delivers(t), EvalStep(t)
  PROVE  Moves(t) /\ Delivers(t)'
<1> USE DEF memory, store, local, wire
<1>1. CASE \E label \in {AfterEval(t), AfterFailedEval(t)} : LeaveEval(t, label)
  BY <1>1, LeaveEvalDelivers, ReturnsTo, Zenon
<1>2. CASE EvalEnsure(t) \/ (EvalRead(t) /\ IsActive(session))
  <2>1. /\ \E l \in {"lock", "assess"} : Goto(t, l)
        /\ UNCHANGED <<resp, pend>>
    BY <1>2, Zenon DEF EvalEnsure, EvalRead
  <2>2. pend[t].kind # "rav"
    BY <1>2, Zenon DEF EvalEnsure, EvalRead, CanEvaluate, Delivers, Requesting
  <2> QED
    BY <2>1, <2>2, GotoDelivers, Zenon
<1>3. CASE EvalAssess(t)
  <2>0. pend[t].kind # "rav"
    BY <1>3, Zenon DEF EvalAssess, Delivers, Requesting
  <2>1. CASE Goto(t, "check") /\ UNCHANGED <<resp, pend>>
    BY <2>0, <2>1, GotoDelivers, Zenon
  <2>2. CASE /\ resp' = [resp EXCEPT ![t] = NeedMoreFunds(t)]
             /\ Goto(t, "clear") /\ pend' = pend
    <3>1. pc'[t] = "clear" /\ resp'[t] = NeedMoreFunds(t) /\ Moves(t)
      BY <2>2, Zenon DEF Goto, TypeOK, Moves
    <3>2. resp'[t].kind = "funds"
      BY <3>1, MessageKinds, Zenon
    <3> QED
      BY <2>0, <2>2, <3>1, <3>2, Zenon DEF Delivers
  <2> QED
    BY <1>1, <1>3, <2>1, <2>2, Zenon DEF EvalAssess
<1>4. CASE EvalClearPending(t)
  <2>1. pc[t] = "clear" /\ resp[t].kind = "funds" /\ pend[t].kind # "rav"
    BY <1>4, Zenon DEF EvalClearPending, Delivers, Requesting
  <2>2. pc'[t] = "dispatch" /\ UNCHANGED <<resp, pend>> /\ Moves(t)
    BY <1>4, Zenon DEF EvalClearPending, Goto, TypeOK, Moves
  <2> QED
    BY <2>1, <2>2, Zenon DEF Delivers, Requesting
<1>5. CASE EvalCheck(t)
  <2>1. CASE /\ resp' = [resp EXCEPT ![t] = NewRAVRequest(snap[t], t)]
             /\ pend' = [pend EXCEPT ![t] = NewRAVRequest(snap[t], t)]
             /\ Goto(t, "dispatch")
    <3>1. /\ pc'[t] = "dispatch" /\ resp'[t] = pend'[t] /\ Moves(t)
          /\ resp'[t] = NewRAVRequest(snap[t], t)
      BY <2>1, Zenon DEF Goto, TypeOK, Moves
    <3>2. resp'[t].kind = "rav"
      BY <3>1, MessageKinds, Zenon
    <3> QED
      BY <3>1, <3>2, Zenon DEF Delivers, Requesting
  <2> QED
    BY <1>1, <1>5, <2>1, Zenon DEF EvalCheck
<1>6. CASE Dispatch(t) \/ DispatchSend(t) \/ DispatchAck(t)
  <2>1. CASE (\E l \in {"send", "ack"} : Goto(t, l)) /\ UNCHANGED <<resp, pend>>
    <3>1. pc[t] \in {"dispatch", "send", "ack"}
      BY <1>6, Zenon DEF Dispatch, DispatchSend, DispatchAck
    <3>2. pc'[t] \in {"send", "ack"} /\ Moves(t)
      BY <2>1, Zenon DEF Goto, TypeOK, Moves
    <3> QED
      BY <2>1, <3>1, <3>2, Zenon DEF Delivers, Requesting
  <2> QED
    BY <1>1, <1>6, <2>1, Zenon DEF Dispatch, DispatchSend, DispatchAck
<1>7. CASE (EvalRead(t) /\ ~IsActive(session)) \/ EvalFail(t)
  BY <1>1, <1>7, Zenon DEF EvalRead, EvalFail
<1> QED
  BY <1>2, <1>3, <1>4, <1>5, <1>6, <1>7, Zenon DEF EvalStep

LEMMA StreamStepDelivers ==
  ASSUME TypeOK, NEW s \in Streams, pc[s] # "done", OneStream(s), Delivers(s),
         \A o \in States : pendingRAV[o].kind # "funds",
         Serves(s), StreamStep(s)
  PROVE  Moves(s) /\ Delivers(s)'
<1> USE DEF memory, store, local, wire
<1>0. s \in Threads
  BY Zenon DEF Threads
<1>1. CASE StreamOpen(s) \/ StreamClose(s) \/ StreamReceive(s) \/ Unbind(s)
  <2>1. /\ \E l \in {"bind", "exit", "submit", "fundsack", "done"} : Goto(s, l)
        /\ UNCHANGED <<resp, pend>>
    BY <1>1, Zenon DEF StreamOpen, StreamClose, StreamReceive, Unbind, Return
  <2>2. pend[s].kind # "rav"
    BY <1>1, Zenon
       DEF StreamOpen, StreamClose, StreamReceive, Unbind, Delivers, Requesting
  <2> QED
    BY <1>0, <2>1, <2>2, GotoDelivers, Zenon
<1>2. CASE StreamSend(s)
  <2>0. pc[s] = "loop" /\ UNCHANGED <<resp, pend>> /\ pend[s].kind # "rav"
    BY <1>2, Zenon DEF StreamSend, Delivers, Requesting
  <2>1. CASE pc' = pc
    BY <2>0, <2>1, Zenon DEF Moves, Delivers
  <2>2. CASE Goto(s, "exit")
    BY <1>0, <2>0, <2>2, GotoDelivers, Zenon
  <2> QED
    BY <1>2, <2>1, <2>2, Zenon DEF StreamSend, Return
<1>3. CASE Bind(s)
  <2>0. /\ pc[s] = "bind"
        /\ \A o \in States : pendingRAV[o].kind # "rav" /\ queuedResponse[o].kind # "rav"
        /\ \A t \in Threads : pend[t].kind # "rav"
    BY <1>3, Zenon DEF Bind, OneStream, Serves
  <2>1. CASE Goto(s, "exit") /\ UNCHANGED <<resp, pend>>
    BY <1>0, <2>0, <2>1, GotoDelivers, Zenon
  <2>2. ASSUME NEW o \in States,
               /\ pendingRAV' = IF queuedResponse[o].kind = "none"
                                THEN [pendingRAV EXCEPT ![o] = NoMsg]
                                ELSE pendingRAV
               /\ resp' = [resp EXCEPT ![s] = queuedResponse[o]]
               /\ pend' = [pend EXCEPT ![s] = pendingRAV'[o]]
               /\ Goto(s, IF queuedResponse[o].kind = "none"
                          THEN "ensure" ELSE "deliver")
        PROVE  Moves(s) /\ Delivers(s)'
    <3>1. /\ resp'[s] = queuedResponse[o] /\ pend'[s] = pendingRAV'[o] /\ Moves(s)
          /\ pc'[s] = IF queuedResponse[o].kind = "none" THEN "ensure" ELSE "deliver"
      BY <1>0, <2>2, Zenon DEF Goto, TypeOK, Moves
    <3>2. pendingRAV'[o].kind # "rav"
      BY <2>0, <2>2, BlankKind, Zenon DEF TypeOK
    <3>3. queuedResponse[o].kind \in {"none", "funds"}
      BY <2>0, Zenon DEF TypeOK, Msg
    <3> QED
      BY <3>1, <3>2, <3>3, Zenon DEF Delivers
  <2> QED
    BY <1>3, <2>1, <2>2, Zenon DEF Bind, Return
<1>4. CASE BindDeliver(s) \/ BindDelivered(s)
  <2>0. /\ pc[s] \in {"deliver", "delivered"} /\ pend[s].kind # "rav"
        /\ resp[s].kind = "funds"
    BY <1>4, Zenon DEF BindDeliver, BindDelivered, Delivers, Requesting
  <2>1. CASE Goto(s, "delivered") /\ UNCHANGED <<resp, pend>>
    <3>1. pc'[s] = "delivered" /\ Moves(s)
      BY <1>0, <2>1, Zenon DEF Goto, TypeOK, Moves
    <3> QED
      BY <2>0, <2>1, <3>1, Zenon DEF Delivers
  <2>2. CASE BindEvaluate(s)
    <3>1. pc'[s] = "ensure" /\ pend'[s] = NoMsg /\ Moves(s)
      BY <1>0, <2>2, Zenon DEF BindEvaluate, Goto, TypeOK, Moves
    <3>2. pend'[s].kind # "rav"
      BY <3>1, BlankKind, Zenon
    <3> QED
      BY <3>1, <3>2, Zenon DEF Delivers
  <2> QED
    BY <1>4, <2>1, <2>2, Zenon DEF BindDeliver, BindDelivered
<1>5. CASE SubmitValidate(s)
  <2>0. pc[s] = "submit" /\ pend[s].kind # "rav"
    BY <1>5, Zenon DEF SubmitValidate, Delivers, Requesting
  <2>1. CASE Goto(s, "exit") /\ UNCHANGED <<resp, pend>>
    BY <1>0, <2>0, <2>1, GotoDelivers, Zenon
  <2>2. CASE /\ Goto(s, "commit") /\ resp' = resp
             /\ \E o \in States : pend' = [pend EXCEPT ![s] = pendingRAV[o]]
    <3>1. pc'[s] = "commit" /\ Moves(s)
      BY <1>0, <2>2, Zenon DEF Goto, TypeOK, Moves
    <3> QED
      BY <3>1, Zenon DEF Delivers, Requesting
  <2> QED
    BY <1>5, <2>1, <2>2, Zenon DEF SubmitValidate, Return
<1>6. CASE SubmitCommit(s)
  <2>1. CASE LeaveEval(s, "exit")
    BY <1>0, <2>1, LeaveEvalDelivers, Zenon
  <2>2. CASE Goto(s, "accepted") /\ UNCHANGED <<resp, pend>>
    <3>1. pc'[s] = "accepted" /\ Moves(s)
      BY <1>0, <2>2, Zenon DEF Goto, TypeOK, Moves
    <3> QED
      BY <3>1, Zenon DEF Delivers, Requesting
  <2> QED
    BY <1>6, <2>1, <2>2, Zenon DEF SubmitCommit
<1>7. CASE SubmitAccepted(s)
  <2>1. pc'[s] = "read" /\ pend'[s] = NoMsg /\ Moves(s)
    BY <1>0, <1>7, Zenon DEF SubmitAccepted, Goto, TypeOK, Moves
  <2>2. pend'[s].kind # "rav"
    BY <2>1, BlankKind, Zenon
  <2> QED
    BY <2>1, <2>2, Zenon DEF Delivers
<1>8. CASE FundsAck(s)
  BY <1>8, Zenon DEF FundsAck, Serves
<1> QED
  BY <1>1, <1>2, <1>3, <1>4, <1>5, <1>6, <1>7, <1>8, Zenon DEF StreamStep

-----------------------------------------------------------------------------
(* The wire.                                                                *)

\* A step that puts no request on the wire and takes none from it.
WireKept(s) ==
  /\ Sent(s)' = Sent(s)
  /\ \A i \in Sent(s) : chan'[s][i] = chan[s][i]
  /\ inbox'[s] = inbox[s] /\ sub'[s] = sub[s]

LEMMA WireSame ==
  ASSUME NEW s \in Streams,
         chan'[s] = chan[s], inbox'[s] = inbox[s], sub'[s] = sub[s]
  PROVE  WireKept(s)
BY Zenon DEF WireKept, Sent

LEMMA WireKeptFrame ==
  ASSUME NEW s \in Streams, WireKept(s), OneOnWire(s)
  PROVE  OneOnWire(s)' /\ (Quiet(s) <=> Quiet(s)')
BY Zenon DEF WireKept, OneOnWire, Quiet

\* A message is appended to the channel.
LEMMA SentAppend ==
  ASSUME TypeOK, NEW s \in Streams, NEW m \in Msg, chan'[s] = Append(chan[s], m)
  PROVE  /\ m.kind # "rav" => Sent(s)' = Sent(s)
         /\ \A i \in Sent(s) : chan'[s][i] = chan[s][i]
         /\ m.kind = "rav" /\ Sent(s) = {} =>
              \A i \in Sent(s)' : i = Len(chan[s]) + 1 /\ chan'[s][i] = m
<1>1. chan[s] \in Seq(Msg) /\ chan'[s] = Append(chan[s], m)
  BY Zenon DEF TypeOK
<1>2. /\ Len(chan[s]) \in Nat /\ Len(chan'[s]) = Len(chan[s]) + 1
      /\ chan'[s][Len(chan[s]) + 1] = m
      /\ \A i \in 1..Len(chan[s]) : chan'[s][i] = chan[s][i]
  BY <1>1
<1>3. \A i \in 1..Len(chan'[s]) : i \in 1..Len(chan[s]) \/ i = Len(chan[s]) + 1
  BY <1>2
<1>4. \A i \in 1..Len(chan[s]) : i \in 1..Len(chan'[s])
  BY <1>2
<1>5. ASSUME m.kind # "rav" PROVE Sent(s)' = Sent(s)
  BY <1>2, <1>3, <1>4, <1>5, Zenon DEF Sent
<1>6. \A i \in Sent(s) : chan'[s][i] = chan[s][i]
  BY <1>2, Zenon DEF Sent
<1>7. ASSUME m.kind = "rav", Sent(s) = {}, NEW i \in Sent(s)'
      PROVE  i = Len(chan[s]) + 1 /\ chan'[s][i] = m
  <2>1. i \in 1..Len(chan'[s]) /\ chan'[s][i].kind = "rav"
    BY <1>7, Zenon DEF Sent
  <2>2. i \notin 1..Len(chan[s])
    BY <1>2, <1>7, <2>1, Zenon DEF Sent
  <2> QED
    BY <1>2, <1>3, <2>1, <2>2, Zenon
<1> QED
  BY <1>5, <1>6, <1>7, Zenon

\* The first message is taken from the channel.
LEMMA SentTail ==
  ASSUME TypeOK, NEW s \in Streams, chan[s] # <<>>, chan'[s] = Tail(chan[s])
  PROVE  /\ \A i \in Sent(s)' : i + 1 \in Sent(s) /\ chan'[s][i] = chan[s][i + 1]
         /\ Head(chan[s]).kind = "rav" => 1 \in Sent(s)
         /\ Head(chan[s]) = chan[s][1]
<1>1. chan[s] \in Seq(Msg) /\ chan'[s] = Tail(chan[s])
  BY Zenon DEF TypeOK
<1>2. /\ \A i \in 1..Len(chan'[s]) :
           i + 1 \in 1..Len(chan[s]) /\ chan'[s][i] = chan[s][i + 1]
      /\ 1 \in 1..Len(chan[s]) /\ Head(chan[s]) = chan[s][1]
  BY <1>1
<1> QED
  BY <1>2, Zenon DEF Sent

\* An empty channel holds no request.
LEMMA SentNone ==
  ASSUME NEW s \in Streams, chan[s] = <<>>
  PROVE  Sent(s) = {}
BY DEF Sent

\* A cleared wire is quiet.
LEMMA Cleared ==
  ASSUME NEW s \in Streams, chan'[s] = <<>>, inbox'[s] = <<>>,
         sub'[s] = NoSubmission
  PROVE  Quiet(s)' /\ OneOnWire(s)'
<1>1. Sent(s)' = {}
  BY DEF Sent
<1>2. sub'[s].kind = "none"
  BY MessageKinds, Zenon
<1>3. Len(inbox'[s]) <= 1
  OBVIOUS
<1> QED
  BY <1>1, <1>2, <1>3, Zenon DEF Quiet, OneOnWire

\* A thread that sends alone goes on to, and one that gets a request is the
\* only one to have one.
LEMMA AloneFrame ==
  ASSUME NEW s \in Streams, SendsAlone(s), NEW t \in Threads, Moves(t),
         Quiet(s) => Quiet(s)',
         pend'[t].kind = "rav" =>
           \/ /\ pend[t].kind = "rav"
              /\ pc'[t] \in {"dispatch", "send"} => pc[t] \in {"dispatch", "send"}
           \/ /\ \A u \in Threads : u # t => pend[u].kind # "rav"
              /\ pc'[t] \in {"dispatch", "send"} => Quiet(s)'
  PROVE  SendsAlone(s)'
<1>1. ASSUME NEW u \in Threads, u # t
      PROVE  pc'[u] = pc[u] /\ pend'[u] = pend[u]
  BY <1>1, Zenon DEF Moves
<1>2. ASSUME NEW u \in Threads, NEW v \in Threads,
             pend'[u].kind = "rav", pend'[v].kind = "rav"
      PROVE  u = v
  <2>1. \A w \in Threads : w # t /\ pend'[w].kind = "rav" => pend[w].kind = "rav"
    BY <1>1, Zenon
  <2>2. CASE pend'[t].kind = "rav" /\ pend[t].kind # "rav"
    BY <1>2, <2>1, <2>2, Zenon
  <2>3. CASE ~(pend'[t].kind = "rav" /\ pend[t].kind # "rav")
    BY <1>2, <2>1, <2>3, Zenon DEF SendsAlone
  <2> QED
    BY <2>2, <2>3, Zenon
<1>3. ASSUME NEW u \in Threads, pend'[u].kind = "rav",
             pc'[u] \in {"dispatch", "send"}
      PROVE  Quiet(s)'
  <2>1. CASE u # t
    BY <1>1, <1>3, <2>1, Zenon DEF SendsAlone
  <2>2. CASE u = t
    BY <1>3, <2>2, Zenon DEF SendsAlone
  <2> QED
    BY <2>1, <2>2, Zenon
<1> QED
  BY <1>2, <1>3, Zenon DEF SendsAlone

\* What a step of thread t may do to the runtime state while it keeps the
\* wire of a stream that goes on.
PendingStep(s, t) ==
  /\ Moves(t) /\ WireKept(s)
  /\ IsActive(session)' => IsActive(session)
  /\ live' # None \/ live' = live
  /\ \/ pendingRAV'[live'] = pendingRAV[live]
     \/ Quiet(s) \/ ~IsActive(session)
  /\ \A u \in Threads :
       u # t /\ pc[u] \in {"send", "ack"} /\ pend[u].kind = "rav" =>
         pendingRAV'[live'] = pendingRAV[live]
  /\ pc'[t] \in {"send", "ack"} /\ pend'[t].kind = "rav" =>
       pendingRAV'[live'] = pend'[t]
  /\ pc'[s] \in {"idle", "bind"} =>
       /\ pc[s] \in {"idle", "bind"}
       /\ \A o \in States :
            queuedResponse'[o].kind = "rav" => queuedResponse'[o] = queuedResponse[o]
  /\ pc'[s] \in {"commit", "accepted"} => pc[s] \in {"commit", "accepted"}
  /\ pc'[s] = "submit" => sub[s].kind = "rav"
  /\ pc'[s] # "fundsack"

LEMMA PendingFrame ==
  ASSUME NEW s \in Streams, NEW t \in Threads, OneOnWire(s),
         Matches(s), PendingFirst, Serves(s), PendingStep(s, t)
  PROVE  Matches(s)' /\ PendingFirst' /\ Serves(s)'
<1>0. WireKept(s) /\ (Quiet(s) <=> Quiet(s)')
  BY WireKeptFrame, Zenon DEF PendingStep
<1>1. ASSUME IsActive(session)'
      PROVE  /\ \A i \in Sent(s)' : chan'[s][i] = pendingRAV'[live']
             /\ inbox'[s] # <<>> => inbox'[s][1] = pendingRAV'[live']
             /\ sub'[s].kind = "rav" => AnswersRequest(sub[s], pendingRAV[live])'
  <2>1. CASE pendingRAV'[live'] = pendingRAV[live]
    <3>1. /\ \A i \in Sent(s) : chan[s][i] = pendingRAV[live]
          /\ inbox[s] # <<>> => inbox[s][1] = pendingRAV[live]
          /\ sub[s].kind = "rav" => AnswersRequest(sub[s], pendingRAV[live])
      BY <1>1, Zenon DEF PendingStep, Matches
    <3> QED
      BY <1>0, <2>1, <3>1, Zenon DEF WireKept, AnswersRequest, TargetValue
  <2>2. CASE Quiet(s)
    BY <1>0, <2>2, Zenon DEF Quiet
  <2> QED
    BY <1>1, <2>1, <2>2, Zenon DEF PendingStep
<1>2. Matches(s)'
  BY <1>1, Zenon DEF Matches
<1>3. PendingFirst'
  <2>1. ASSUME NEW u \in Threads, u # t, pc'[u] \in {"send", "ack"},
               pend'[u].kind = "rav"
        PROVE  pendingRAV'[live'] = pend'[u]
    <3>1. pc'[u] = pc[u] /\ pend'[u] = pend[u]
      BY <2>1, Zenon DEF PendingStep, Moves
    <3>2. pendingRAV'[live'] = pendingRAV[live] /\ pendingRAV[live] = pend[u]
      BY <2>1, <3>1, Zenon DEF PendingStep, PendingFirst
    <3> QED
      BY <3>1, <3>2, Zenon
  <2> QED
    BY <2>1, Zenon DEF PendingStep, PendingFirst
<1>4. pc'[s] \in {"idle", "bind", "commit", "accepted"} => Quiet(s)'
  BY <1>0, Zenon DEF PendingStep, Serves
<1>5. live' = None => Quiet(s)'
  BY <1>0, Zenon DEF PendingStep, Serves
<1>6. pc'[s] \in {"idle", "bind"} =>
        \A o \in States : queuedResponse'[o].kind # "rav"
  BY Zenon DEF PendingStep, Serves
<1>7. pc'[s] = "submit" => sub'[s].kind = "rav"
  BY <1>0, Zenon DEF PendingStep, WireKept
<1> QED
  BY <1>2, <1>3, <1>4, <1>5, <1>6, <1>7, Zenon DEF PendingStep, Serves

-----------------------------------------------------------------------------
(* The steps of an evaluation.                                              *)

\* An evaluation leaves the wire alone unless it sends a request.
LEMMA EvalStepWire ==
  ASSUME TypeOK, NEW s \in Streams, NEW t \in Threads, Delivers(t), EvalStep(t)
  PROVE  /\ UNCHANGED <<events, inbox, sub, stop>>
         /\ ~(DispatchSend(t) /\ pend[t].kind = "rav") => WireKept(s)
<1> USE DEF memory, store, local, wire
<1>1. UNCHANGED <<events, inbox, sub, stop>>
  BY Zenon DEF EvalStep, EvalEnsure, EvalRead, EvalFail, EvalAssess,
               EvalClearPending, EvalCheck, Dispatch, DispatchSend, DispatchAck
<1>2. CASE chan' = chan
  BY <1>1, <1>2, WireSame, Zenon
<1>3. CASE DispatchSend(t) /\ pend[t].kind # "rav" /\ chan' # chan
  <2>1. chan' = [chan EXCEPT ![to[t]] = Append(@, resp[t])]
    BY <1>3, Zenon DEF DispatchSend
  <2>2. resp[t].kind # "rav" /\ resp[t] \in Msg
    BY <1>3, Zenon DEF DispatchSend, Delivers, TypeOK
  <2>3. CASE to[t] = s
    <3>1. chan'[s] = Append(chan[s], resp[t])
      BY <2>1, <2>3, Zenon DEF TypeOK
    <3> QED
      BY <1>1, <2>2, <3>1, SentAppend, Zenon DEF WireKept
  <2>4. CASE to[t] # s
    <3>1. chan'[s] = chan[s]
      BY <2>1, <2>4, Zenon DEF TypeOK
    <3> QED
      BY <1>1, <3>1, WireSame, Zenon
  <2> QED
    BY <2>3, <2>4, Zenon
<1>4. chan' = chan \/ DispatchSend(t)
  BY Zenon DEF EvalStep, EvalEnsure, EvalRead, EvalFail, EvalAssess,
               EvalClearPending, EvalCheck, Dispatch, DispatchAck
<1> QED
  BY <1>1, <1>2, <1>3, <1>4, Zenon

\* Where a step of an evaluation leads.
LEMMA EvalStepMoves ==
  ASSUME TypeOK, NEW t \in Threads, EvalStep(t)
  PROVE  /\ pc'[t] \notin {"bind", "commit", "accepted", "submit", "fundsack", "done"}
         /\ t \in Streams => pc'[t] # "idle"
<1>1. \E l \in {"lock", "assess", "clear", "check", "dispatch", "send", "ack",
                AfterEval(t), AfterFailedEval(t)} : Goto(t, l)
  BY Zenon
     DEF EvalStep, EvalEnsure, EvalRead, EvalFail, EvalAssess,
         EvalClearPending, EvalCheck, Dispatch, DispatchSend, DispatchAck,
         LeaveEval
<1>2. \E l \in {"lock", "assess", "clear", "check", "dispatch", "send", "ack",
                AfterEval(t), AfterFailedEval(t)} : pc'[t] = l
  BY <1>1, Zenon DEF Goto, TypeOK
<1> QED
  BY <1>2, ReturnsTo, Zenon

\* A request is sent: the wire was quiet and holds this one alone, which is
\* the pending one.
LEMMA SendWire ==
  ASSUME TypeOK, NEW s \in Streams, NEW t \in Threads, Delivers(t),
         SendsAlone(s), DispatchSend(t), pend[t].kind = "rav"
  PROVE  /\ Quiet(s) /\ OneOnWire(s)'
         /\ UNCHANGED <<inbox, sub>>
         /\ \A i \in Sent(s)' : chan'[s][i] = pend[t]
<1>1. pc[t] = "send" /\ UNCHANGED <<inbox, sub>>
  BY Zenon DEF DispatchSend
<1>2. Quiet(s)
  BY <1>1, Zenon DEF SendsAlone
<1>3. resp[t] = pend[t] /\ resp[t] \in Msg
  <2>1. resp[t].kind = "rav" /\ (resp[t] = pend[t] \/ resp[t].kind = "funds")
    BY <1>1, Zenon DEF Delivers
  <2> QED
    BY <2>1, Zenon DEF TypeOK
<1>4. /\ \A i, j \in Sent(s)' : i = j
      /\ \A i \in Sent(s)' : chan'[s][i] = pend[t]
  <2>1. CASE chan'[s] = chan[s]
    <3>1. Sent(s)' = {}
      BY <1>2, <2>1, Zenon DEF Quiet, Sent
    <3> QED
      BY <3>1, Zenon
  <2>2. CASE chan'[s] = Append(chan[s], resp[t])
    <3>1. \A i \in Sent(s)' : i = Len(chan[s]) + 1 /\ chan'[s][i] = resp[t]
      BY <1>2, <1>3, <2>2, SentAppend, Zenon DEF Quiet
    <3> QED
      BY <1>3, <3>1, Zenon
  <2>3. chan'[s] \in {chan[s], Append(chan[s], resp[t])}
    BY ZenonT(30) DEF DispatchSend, TypeOK
  <2> QED
    BY <2>1, <2>2, <2>3, Zenon
<1>5. inbox'[s] = <<>> /\ sub'[s].kind = "none" /\ Len(inbox'[s]) <= 1
  <2>1. inbox'[s] = <<>> /\ sub'[s].kind = "none"
    BY <1>1, <1>2, Zenon DEF Quiet
  <2>2. Len(inbox'[s]) <= 1
    BY <2>1
  <2> QED
    BY <2>1, <2>2, Zenon
<1> QED
  BY <1>1, <1>2, <1>4, <1>5, Zenon DEF OneOnWire

\* A request is made when none is pending: nothing is on the wire, and no
\* other thread has one.
LEMMA CheckQuiet ==
  ASSUME TypeOK, LockInv, NEW s \in Streams, NEW t \in Threads,
         OneOnWire(s), OneStream(s), Matches(s), pc[t] = "check", RuntimeReady
  PROVE  Quiet(s) /\ \A u \in Threads : u # t => pend[u].kind # "rav"
<1>1. IsActive(session)
  BY Zenon DEF OneStream
<1>2. pendingRAV[live].kind # "rav"
  BY Zenon DEF RuntimeReady
<1>3. Sent(s) = {}
  BY <1>1, <1>2, Zenon DEF Matches, Sent
<1>4. inbox[s] = <<>>
  BY <1>1, <1>2, Zenon DEF Matches, OneOnWire
<1>5. sub[s].kind = "none"
  BY <1>1, <1>2, Zenon DEF Matches, OneOnWire, AnswersRequest
<1>6. \A u \in Threads : u # t => pc[u] \notin Holding
  BY OneHolder, Zenon DEF Holding
<1>7. \A u \in Threads : u # t => pend[u].kind # "rav"
  BY <1>6, HoldingLabels, Zenon DEF OneStream
<1> QED
  BY <1>3, <1>4, <1>5, <1>7, Zenon DEF Quiet

LEMMA EvalStepAlone ==
  ASSUME TypeOK, LockInv, NEW s \in Streams, NEW t \in Threads, Delivers(t),
         OneOnWire(s), SendsAlone(s), pc[s] = "done" => Ended(s),
         pc[s] # "done" => OneStream(s) /\ Matches(s), EvalStep(t)
  PROVE  OneOnWire(s)' /\ SendsAlone(s)'
<1> USE DEF memory, store, local, wire
<1>0. Moves(t)
  BY EvalStepDelivers, Zenon
<1>1. CASE DispatchSend(t) /\ pend[t].kind = "rav"
  <2>1. OneOnWire(s)'
    BY <1>1, SendWire, Zenon
  <2>2. \A u \in Threads : u # t => pend'[u].kind # "rav"
    BY <1>0, <1>1, Zenon DEF SendsAlone, Moves
  <2>3. pc'[t] \notin {"dispatch", "send"}
    <3>1. \E l \in {"ack", AfterEval(t)} : Goto(t, l)
      BY <1>1, Zenon DEF DispatchSend, LeaveEval
    <3> QED
      BY <3>1, ReturnsTo, Zenon DEF Goto, TypeOK
  <2> QED
    BY <2>1, <2>2, <2>3, Zenon DEF SendsAlone
<1>2. CASE ~(DispatchSend(t) /\ pend[t].kind = "rav")
  <2>0. WireKept(s) /\ OneOnWire(s)' /\ (Quiet(s) <=> Quiet(s)')
    BY <1>2, EvalStepWire, WireKeptFrame, Zenon
  <2>1. CASE EvalCheck(t) /\ RuntimeReady
    <3>1. pc[t] = "check" /\ live # None /\ events[live] # None
      BY <2>1, Zenon DEF EvalCheck, RuntimeReady
    <3>2. pc[s] # "done"
      BY <3>1, Zenon DEF Ended, TypeOK
    <3>3. Quiet(s) /\ \A u \in Threads : u # t => pend[u].kind # "rav"
      BY <2>1, <3>1, <3>2, CheckQuiet, Zenon
    <3> QED
      BY <1>0, <2>0, <3>3, AloneFrame, Zenon
  <2>2. CASE \E label \in {AfterEval(t), AfterFailedEval(t)} : LeaveEval(t, label)
    <3>1. pend'[t].kind # "rav"
      BY <2>2, LeaveEvalDelivers, ReturnsTo, Zenon
    <3> QED
      BY <1>0, <2>0, <3>1, AloneFrame, Zenon
  <2>3. CASE pend' = pend /\ ~EvalClearPending(t) /\ ~EvalCheck(t)
    <3>1. pc'[t] \in {"dispatch", "send"} => pc[t] \in {"dispatch", "send"}
      <4>1. CASE Dispatch(t)
        BY <4>1, Zenon DEF Dispatch
      <4>2. CASE ~Dispatch(t)
        <5>1. \E l \in {"lock", "assess", "clear", "check", "ack",
                        AfterEval(t), AfterFailedEval(t)} : Goto(t, l)
          BY <2>3, <4>2, Zenon
             DEF EvalStep, EvalEnsure, EvalRead, EvalFail, EvalAssess,
                 DispatchSend, DispatchAck, LeaveEval
        <5> QED
          BY <5>1, ReturnsTo, Zenon DEF Goto, TypeOK
      <4> QED
        BY <4>1, <4>2, Zenon
    <3> QED
      BY <1>0, <2>0, <2>3, <3>1, AloneFrame, Zenon
  <2>4. CASE EvalClearPending(t)
    <3>1. pend' = pend /\ pend[t].kind # "rav"
      BY <2>4, Zenon DEF EvalClearPending, Delivers, Requesting
    <3> QED
      BY <1>0, <2>0, <3>1, AloneFrame, Zenon
  <2>5. \/ EvalCheck(t) /\ RuntimeReady
        \/ \E label \in {AfterEval(t), AfterFailedEval(t)} : LeaveEval(t, label)
        \/ pend' = pend /\ ~EvalClearPending(t) /\ ~EvalCheck(t)
        \/ EvalClearPending(t)
    BY Zenon
       DEF EvalStep, EvalEnsure, EvalRead, EvalFail, EvalAssess, EvalCheck,
           Dispatch, DispatchSend, DispatchAck
  <2> QED
    BY <2>1, <2>2, <2>3, <2>4, <2>5, Zenon
<1> QED
  BY <1>1, <1>2, Zenon

\* A thread that holds the lock of the map's state is the only one.
LEMMA AloneInMap ==
  ASSUME TypeOK, LockInv, NEW s \in Streams, OneStream(s), NEW t \in Threads,
         pc[t] \in Holding
  PROVE  /\ live \in States
         /\ \A u \in Threads : u # t => pc[u] \notin {"send", "ack"}
<1>1. live \in States
  BY OneStreamFacts, Zenon DEF Evaluating
<1>2. \A u \in Threads : u # t => pc[u] \notin Holding
  BY OneHolder, Zenon
<1> QED
  BY <1>1, <1>2, Zenon DEF Holding

\* A need-more-funds response means that the session has ended.
LEMMA FundsEnded ==
  ASSUME FundsStopOnlyAfterTermination, NEW t \in Threads, resp[t].kind = "funds"
  PROVE  ~IsActive(session)
BY Zenon DEF FundsStopOnlyAfterTermination, IsActive

LEMMA EvalStepPending ==
  ASSUME TypeOK, LockInv, FundsStopOnlyAfterTermination,
         IsActive(session)' => IsActive(session),
         NEW s \in Streams, pc[s] # "done", OneStream(s),
         OneOnWire(s), SendsAlone(s), Matches(s), PendingFirst, Serves(s),
         NEW t \in Threads, t \in Streams => t = s, Delivers(t), EvalStep(t)
  PROVE  Matches(s)' /\ PendingFirst' /\ Serves(s)'
<1> USE DEF memory, store, local, wire
<1>0. /\ Moves(t) /\ s \in Threads /\ None \notin States
      /\ pc'[t] \notin {"bind", "commit", "accepted", "submit", "fundsack"}
      /\ t \in Streams => pc'[t] # "idle"
  BY EvalStepDelivers, EvalStepMoves, ThreadsAssumption, Zenon DEF Threads
<1>1. /\ pc'[s] \in {"idle", "bind"} => pc[s] \in {"idle", "bind"}
      /\ pc'[s] \in {"commit", "accepted"} => pc[s] \in {"commit", "accepted"}
      /\ pc'[s] = "submit" => sub[s].kind = "rav"
      /\ pc'[s] # "fundsack"
  <2>1. CASE t = s
    BY <1>0, <2>1, Zenon
  <2>2. CASE t # s
    BY <1>0, <2>2, Zenon DEF Moves, Serves
  <2> QED
    BY <2>1, <2>2, Zenon
<1>2. CASE DispatchSend(t) /\ pend[t].kind = "rav"
  <2>1. /\ Quiet(s) /\ UNCHANGED <<inbox, sub, live, pendingRAV, queuedResponse>>
        /\ \A i \in Sent(s)' : chan'[s][i] = pend[t]
        /\ pc[t] = "send" /\ pc[t] \in Holding
    BY <1>2, SendWire, Zenon DEF DispatchSend, Holding
  <2>2. pendingRAV[live] = pend[t]
    BY <1>2, <2>1, Zenon DEF PendingFirst
  <2>3. Matches(s)'
    BY <2>1, <2>2, Zenon DEF Matches, Quiet
  <2>4. live \in States /\ \A u \in Threads : u # t => pc[u] \notin {"send", "ack"}
    BY <2>1, AloneInMap, Zenon
  <2>5. PendingFirst'
    <3>1. pend'[t] = pend[t] \/ pend'[t] = NoMsg
      BY <1>2, Zenon DEF DispatchSend, LeaveEval, TypeOK
    <3>2. pend'[t].kind = "rav" => pend'[t] = pend[t]
      BY <3>1, BlankKind, Zenon
    <3>3. \A u \in Threads : u # t => pc'[u] \notin {"send", "ack"}
      BY <1>0, <2>4, Zenon DEF Moves
    <3> QED
      BY <2>1, <2>2, <3>2, <3>3, Zenon DEF PendingFirst
  <2>6. pc[s] \notin {"idle", "bind", "commit", "accepted"} \/ t = s
    <3>1. pc[s] \notin {"idle", "bind"}
      BY <1>2, Zenon DEF OneStream
    <3>2. t # s => pc[s] \notin Holding
      BY <1>0, <2>1, OneHolder, Zenon
    <3> QED
      BY <3>1, <3>2, Zenon DEF Holding
  <2>7. pc'[s] \notin {"idle", "bind", "commit", "accepted"}
    BY <1>0, <1>1, <2>6, Zenon
  <2>8. pc'[s] # "submit"
    BY <1>1, <2>1, Zenon DEF Quiet
  <2>9. live' # None
    BY <1>0, <2>1, <2>4, Zenon
  <2> QED
    BY <1>1, <2>3, <2>5, <2>7, <2>8, <2>9, Zenon DEF Serves
<1>3. CASE ~(DispatchSend(t) /\ pend[t].kind = "rav")
  <2>0. WireKept(s)
    BY <1>3, EvalStepWire, Zenon
  <2>1. CASE EvalEnsure(t)
    <3>1. /\ pc'[t] = "lock" /\ live' \in States /\ (live' = live \/ live = None)
          /\ UNCHANGED <<pendingRAV, queuedResponse>>
      BY <2>1, Zenon DEF EvalEnsure, EnsureSessionState, Goto, TypeOK
    <3>2. CASE live' = live
      BY <1>0, <1>1, <2>0, <3>1, <3>2, PendingFrame, Zenon DEF PendingStep
    <3>3. CASE live = None
      <4>1. Quiet(s)
        BY <3>3, Zenon DEF Serves
      <4>2. \A u \in Threads : pc[u] \notin {"send", "ack"}
        BY <1>0, <3>3, AloneInMap, Zenon DEF Holding
      <4>3. PendingStep(s, t)
        BY <1>0, <1>1, <2>0, <3>1, <4>1, <4>2, Zenon DEF PendingStep
      <4> QED
        BY <4>3, PendingFrame, Zenon
    <3> QED
      BY <3>1, <3>2, <3>3, Zenon
  <2>2. CASE \/ EvalRead(t) \/ EvalFail(t) \/ EvalAssess(t) \/ EvalCheck(t)
             \/ DispatchSend(t)
    <3>1. UNCHANGED <<live, pendingRAV, queuedResponse>>
      BY <2>2, Zenon DEF EvalRead, EvalFail, EvalAssess, EvalCheck, DispatchSend
    <3>2. pc'[t] \in {"send", "ack"} => pend'[t].kind # "rav"
      <4>1. CASE DispatchSend(t)
        <5>1. pend'[t] = pend[t] \/ pend'[t] = NoMsg
          BY <4>1, Zenon DEF DispatchSend, LeaveEval, TypeOK
        <5> QED
          BY <1>3, <4>1, <5>1, BlankKind, Zenon
      <4>2. CASE EvalRead(t) \/ EvalFail(t) \/ EvalAssess(t) \/ EvalCheck(t)
        <5>1. \E l \in {"assess", "clear", "check", "dispatch", AfterEval(t),
                        AfterFailedEval(t)} : Goto(t, l)
          BY <4>2, Zenon DEF EvalRead, EvalFail, EvalAssess, EvalCheck, LeaveEval
        <5> QED
          BY <5>1, ReturnsTo, Zenon DEF Goto, TypeOK
      <4> QED
        BY <2>2, <4>1, <4>2, Zenon
    <3>3. PendingStep(s, t)
      BY <1>0, <1>1, <2>0, <3>1, <3>2, Zenon DEF PendingStep
    <3> QED
      BY <3>3, PendingFrame, Zenon
  <2>3. CASE EvalClearPending(t)
    <3>1. pc[t] = "clear" /\ pc[t] \in Holding /\ UNCHANGED <<live, queuedResponse>>
      BY <2>3, Zenon DEF EvalClearPending, Holding
    <3>2. ~IsActive(session)
      BY <3>1, FundsEnded, Zenon DEF Delivers
    <3>3. pc'[t] = "dispatch"
      BY <2>3, Zenon DEF EvalClearPending, Goto, TypeOK
    <3>4. \A u \in Threads : u # t => pc[u] \notin {"send", "ack"}
      BY <3>1, AloneInMap, Zenon
    <3>5. PendingStep(s, t)
      BY <1>0, <1>1, <2>0, <3>1, <3>2, <3>3, <3>4, Zenon DEF PendingStep
    <3> QED
      BY <3>5, PendingFrame, Zenon
  <2>4. CASE Dispatch(t)
    <3>1. pc[t] = "dispatch" /\ pc[t] \in Holding
      BY <2>4, Zenon DEF Dispatch, Holding
    <3>2. live \in States /\ \A u \in Threads : u # t => pc[u] \notin {"send", "ack"}
      BY <3>1, AloneInMap, Zenon
    <3>3. /\ live' = live /\ pendingRAV' = [pendingRAV EXCEPT ![live] = pend[t]]
          /\ queuedResponse' = [queuedResponse EXCEPT ![live] = resp[t]]
          /\ pend'[t] = pend[t] \/ pend'[t] = NoMsg
      BY <1>0, <2>4, <3>2, Zenon DEF Dispatch, EnsureSessionState, LeaveEval, TypeOK
    <3>4. pendingRAV'[live'] = pend[t]
      BY <3>2, <3>3, Zenon DEF TypeOK
    <3>5. pend'[t].kind = "rav" => pendingRAV'[live'] = pend'[t]
      BY <3>3, <3>4, BlankKind, Zenon
    <3>6. Quiet(s) \/ ~IsActive(session)
      <4>1. CASE pend[t].kind = "rav"
        BY <3>1, <4>1, Zenon DEF SendsAlone
      <4>2. CASE pend[t].kind # "rav"
        <5>1. resp[t].kind = "funds"
          BY <3>1, <4>2, Zenon DEF Delivers, TypeOK, Msg
        <5> QED
          BY <5>1, FundsEnded, Zenon
      <4> QED
        BY <4>1, <4>2, Zenon
    <3>7. pc[s] \in {"idle", "bind"} =>
            \A o \in States :
              queuedResponse'[o].kind = "rav" => queuedResponse'[o] = queuedResponse[o]
      <4>1. pc[s] \in {"idle", "bind"} => resp[t].kind # "rav"
        BY <3>1, Zenon DEF OneStream, Delivers
      <4>2. \A o \in States : queuedResponse'[o] \in {queuedResponse[o], resp[t]}
        BY <3>3, Zenon DEF TypeOK
      <4> QED
        BY <4>1, <4>2, Zenon
    <3>8. PendingStep(s, t)
      BY <1>0, <1>1, <2>0, <3>2, <3>3, <3>5, <3>6, <3>7, Zenon DEF PendingStep
    <3> QED
      BY <3>8, PendingFrame, Zenon
  <2>5. CASE DispatchAck(t)
    <3>1. pc[t] = "ack" /\ pc[t] \in Holding
      BY <2>5, Zenon DEF DispatchAck, Holding
    <3>2. live \in States /\ \A u \in Threads : u # t => pc[u] \notin {"send", "ack"}
      BY <3>1, AloneInMap, Zenon
    <3>3. /\ live' = live /\ pendingRAV'[live] \in {pendingRAV[live], pend[t]}
          /\ \A o \in States : queuedResponse'[o] \in {queuedResponse[o], NoMsg}
          /\ LeaveEval(t, AfterEval(t))
      BY <2>5, <3>2, Zenon DEF DispatchAck, ClearQueuedResponse, TypeOK
    <3>4. pend'[t].kind # "rav"
      BY <3>3, LeaveEvalDelivers, ReturnsTo, Zenon
    <3>5. pendingRAV'[live'] = pendingRAV[live] \/ ~IsActive(session)
      <4>1. CASE pend[t].kind = "rav"
        BY <3>1, <3>3, <4>1, Zenon DEF PendingFirst
      <4>2. CASE pend[t].kind # "rav"
        <5>1. resp[t].kind = "funds"
          BY <3>1, <4>2, Zenon DEF Delivers, TypeOK, Msg
        <5> QED
          BY <5>1, FundsEnded, Zenon
      <4> QED
        BY <4>1, <4>2, Zenon
    <3>6. \A o \in States :
            queuedResponse'[o].kind = "rav" => queuedResponse'[o] = queuedResponse[o]
      BY <3>3, BlankKind, Zenon
    <3>7. PendingStep(s, t)
      BY <1>0, <1>1, <2>0, <3>2, <3>3, <3>4, <3>5, <3>6, Zenon DEF PendingStep
    <3> QED
      BY <3>7, PendingFrame, Zenon
  <2> QED
    BY <2>1, <2>2, <2>3, <2>4, <2>5, Zenon DEF EvalStep
<1> QED
  BY <1>2, <1>3, Zenon

-----------------------------------------------------------------------------
(* The steps of the stream's handler.                                       *)

\* A quiet wire holds no two requests.
LEMMA QuietOne ==
  ASSUME NEW s \in Streams, Quiet(s)'
  PROVE  OneOnWire(s)'
<1>1. Sent(s)' = {} /\ inbox'[s] = <<>> /\ sub'[s].kind = "none"
  BY Zenon DEF Quiet
<1>2. Len(inbox'[s]) <= 1
  BY <1>1
<1> QED
  BY <1>1, <1>2, Zenon DEF OneOnWire

\* A step of the handler that leaves the runtime state alone.
LEMMA ServeFrame ==
  ASSUME NEW s \in Streams, s \in Threads, Moves(s),
         UNCHANGED <<live, pendingRAV>>, Quiet(s) => Quiet(s)',
         pc'[s] \in {"loop", "exit"}, PendingFirst, Serves(s)
  PROVE  PendingFirst' /\ Serves(s)'
<1>1. pc'[s] \notin {"idle", "bind", "commit", "accepted", "submit", "fundsack",
                     "send", "ack"}
  BY Zenon
<1>2. PendingFirst'
  BY <1>1, Zenon DEF PendingFirst, Moves
<1> QED
  BY <1>1, <1>2, Zenon DEF Serves

\* The handler sends what its channel holds.
LEMMA StreamSendRequests ==
  ASSUME TypeOK, NEW s \in Streams, Moves(s), Delivers(s),
         OneOnWire(s), SendsAlone(s), Matches(s), PendingFirst, Serves(s),
         StreamSend(s)
  PROVE  /\ OneOnWire(s)' /\ SendsAlone(s)'
         /\ Matches(s)' /\ PendingFirst' /\ Serves(s)'
<1> USE DEF memory, store, local, wire
<1>0. /\ s \in Threads /\ pc[s] = "loop" /\ chan[s] # <<>>
      /\ UNCHANGED <<session, live, pendingRAV, pend, sub>>
      /\ chan'[s] = Tail(chan[s]) /\ pc'[s] \in {"loop", "exit"}
      /\ pend[s].kind # "rav"
  BY Zenon DEF StreamSend, Return, Goto, TypeOK, Threads, Delivers, Requesting
<1>1. /\ \A i \in Sent(s)' : i + 1 \in Sent(s) /\ chan'[s][i] = chan[s][i + 1]
      /\ Head(chan[s]).kind = "rav" => 1 \in Sent(s)
      /\ Head(chan[s]) = chan[s][1]
  BY <1>0, SentTail, Zenon
<1>2. CASE Head(chan[s]).kind = "rav"
  <2>1. 1 \in Sent(s) /\ inbox[s] = <<>> /\ sub[s].kind = "none"
    BY <1>1, <1>2, Zenon DEF OneOnWire
  <2>2. Sent(s)' = {}
    <3>1. ASSUME NEW i \in Sent(s)' PROVE FALSE
      <4>1. i + 1 = 1
        BY <1>1, <2>1, <3>1, Zenon DEF OneOnWire
      <4>2. i \in 1..Len(chan'[s])
        BY <3>1, Zenon DEF Sent
      <4> QED
        BY <4>1, <4>2, SMTT(20)
    <3> QED
      BY <3>1, Zenon
  <2>3. inbox'[s] = Append(<<>>, Head(chan[s]))
    BY <1>2, <2>1, Zenon DEF StreamSend, TypeOK
  <2>4. Len(inbox'[s]) <= 1 /\ inbox'[s][1] = Head(chan[s]) /\ inbox'[s] # <<>>
    BY <2>3
  <2>5. OneOnWire(s)'
    BY <1>0, <1>2, <2>1, <2>2, <2>4, Zenon DEF OneOnWire
  <2>6. ~Quiet(s)
    BY <2>1, Zenon DEF Quiet
  <2>7. Matches(s)'
    <3>1. IsActive(session) => Head(chan[s]) = pendingRAV[live]
      BY <1>1, <2>1, Zenon DEF Matches
    <3> QED
      BY <1>0, <2>1, <2>2, <2>4, <3>1, Zenon DEF Matches, IsActive
  <2>8. SendsAlone(s)'
    BY <1>0, <2>6, AloneFrame, Zenon
  <2> QED
    BY <1>0, <2>5, <2>6, <2>7, <2>8, ServeFrame, Zenon
<1>3. CASE Head(chan[s]).kind # "rav"
  <2>1. inbox' = inbox
    BY <1>3, Zenon DEF StreamSend
  <2>2. \A i, j \in Sent(s)' : i = j
    <3>1. ASSUME NEW i \in Sent(s)', NEW j \in Sent(s)' PROVE i = j
      <4>1. i + 1 = j + 1
        BY <1>1, <3>1, Zenon DEF OneOnWire
      <4>2. i \in 1..Len(chan'[s]) /\ j \in 1..Len(chan'[s])
        BY <3>1, Zenon DEF Sent
      <4> QED
        BY <4>1, <4>2
    <3> QED
      BY <3>1, Zenon
  <2>3. OneOnWire(s)'
    BY <1>0, <1>1, <2>1, <2>2, Zenon DEF OneOnWire
  <2>4. Quiet(s) => Quiet(s)'
    BY <1>0, <1>1, <2>1, Zenon DEF Quiet
  <2>5. Matches(s)'
    BY <1>0, <1>1, <2>1, Zenon DEF Matches, AnswersRequest, TargetValue, IsActive
  <2>6. SendsAlone(s)'
    BY <1>0, <2>4, AloneFrame, Zenon
  <2> QED
    BY <1>0, <2>3, <2>4, <2>5, <2>6, ServeFrame, Zenon
<1> QED
  BY <1>2, <1>3, Zenon

\* The consumer answers the request it received.
LEMMA ConsumerAnswerRequests ==
  ASSUME TypeOK, NEW s \in Streams,
         OneOnWire(s), SendsAlone(s), Matches(s), PendingFirst, Serves(s),
         ConsumerAnswer(s)
  PROVE  /\ OneOnWire(s)' /\ SendsAlone(s)'
         /\ Matches(s)' /\ PendingFirst' /\ Serves(s)'
<1> USE DEF memory, store, local, wire
<1>0. /\ inbox[s] # <<>> /\ inbox[s] \in Seq(Msg) /\ inbox'[s] = Tail(inbox[s])
      /\ sub'[s] = [kind |-> "rav", usage |-> Head(inbox[s]).usage,
                    value |-> TargetValue(Head(inbox[s]))]
      /\ UNCHANGED <<session, live, pendingRAV, queuedResponse, pc, pend, chan>>
  BY Zenon DEF ConsumerAnswer, TypeOK
<1>1. inbox[s][1].kind = "rav" /\ Sent(s) = {} /\ Len(inbox[s]) <= 1
  BY <1>0, Zenon DEF OneOnWire
<1>2. /\ inbox'[s] = <<>> /\ Len(inbox'[s]) <= 1 /\ Head(inbox[s]) = inbox[s][1]
      /\ sub'[s].kind = "rav" /\ sub'[s].usage = inbox[s][1].usage
      /\ sub'[s].value = TargetValue(inbox[s][1])
  BY <1>0, <1>1
<1>3. ~Quiet(s) /\ Sent(s)' = {}
  BY <1>0, <1>1, Zenon DEF Quiet, Sent
<1>4. OneOnWire(s)'
  BY <1>2, <1>3, Zenon DEF OneOnWire
<1>5. SendsAlone(s)'
  BY <1>0, <1>3, Zenon DEF SendsAlone
<1>6. Matches(s)'
  <2>1. ASSUME IsActive(session)
        PROVE  AnswersRequest(sub'[s], pendingRAV[live])
    <3>1. inbox[s][1] = pendingRAV[live]
      BY <1>0, <2>1, Zenon DEF Matches
    <3> QED
      BY <1>1, <1>2, <3>1, Zenon DEF AnswersRequest
  <2> QED
    BY <1>0, <1>2, <1>3, <2>1, Zenon DEF Matches, IsActive, AnswersRequest, TargetValue
<1>7. PendingFirst'
  BY <1>0, Zenon DEF PendingFirst
<1>8. Serves(s)'
  BY <1>0, <1>2, <1>3, Zenon DEF Serves
<1> QED
  BY <1>4, <1>5, <1>6, <1>7, <1>8, Zenon

\* The answer is checked: the wire is quiet again, and an answer that does
\* not match finds the session ended.
LEMMA SubmitValidateRequests ==
  ASSUME TypeOK, LockInv, ControlInv, NEW s \in Streams, OneStream(s),
         Moves(s), Delivers(s), NotRejected(s),
         \A o \in States : pendingRAV[o].kind # "funds",
         OneOnWire(s), SendsAlone(s), Matches(s), Serves(s), SubmitValidate(s)
  PROVE  /\ OneOnWire(s)' /\ SendsAlone(s)' /\ NotRejected(s)'
         /\ Matches(s)' /\ PendingFirst' /\ Serves(s)'
<1> USE DEF memory, store, local, wire
<1>0. /\ s \in Threads /\ None \notin States /\ pc[s] = "submit"
      /\ sub[s].kind = "rav" /\ Bound(s)
      /\ UNCHANGED <<session, pendingRAV, queuedResponse, chan, inbox>>
      /\ sub'[s] = NoSubmission /\ pc'[s] \in {"commit", "exit"}
  BY ThreadsAssumption, Zenon
     DEF SubmitValidate, Serves, Bound, Return, Goto, TypeOK, Threads
<1>1. live # None
  BY <1>0, Zenon DEF ControlInv, BoundStreamOwnsLiveState
<1>2. live' = live /\ live \in States /\ evalMu[live] = None
  BY <1>0, <1>1, Zenon DEF SubmitValidate, EnsureSessionState
<1>3. \A t \in Threads : pc[t] \notin Holding
  <2>1. \A t \in Threads : pc[t] \in Holding => evalMu[live] = t
    BY OneStreamFacts, Zenon DEF LockInv, Evaluating
  <2> QED
    BY <1>2, <2>1, ThreadsAssumption, Zenon
<1>4. Quiet(s)'
  <2>1. Sent(s) = {} /\ inbox[s] = <<>>
    BY <1>0, Zenon DEF OneOnWire
  <2>2. sub'[s].kind = "none"
    BY <1>0, MessageKinds, Zenon
  <2> QED
    BY <1>0, <2>1, <2>2, Zenon DEF Quiet, Sent
<1>5. OneOnWire(s)'
  BY <1>4, QuietOne, Zenon
<1>6. SendsAlone(s)'
  <2>1. \A u \in Threads : pend[u].kind # "rav"
    BY <1>3, HoldingLabels, Zenon DEF OneStream
  <2> QED
    BY <1>0, <1>4, <2>1, AloneFrame, Zenon
<1>7. NotRejected(s)'
  <2> SUFFICES ASSUME ~RepoFails
               PROVE  stop'[s] # "rejected"
    BY Zenon DEF NotRejected
  <2>1. CASE AnswersRequest(sub[s], pendingRAV[live])
    BY <1>2, <2>1, Zenon DEF SubmitValidate, EnsureSessionState, NotRejected
  <2>2. CASE ~AnswersRequest(sub[s], pendingRAV[live])
    <3>1. ~IsActive(session)
      BY <1>0, <2>2, Zenon DEF Matches
    <3>2. pendingRAV[live].kind = "none"
      <4>1. pendingRAV[live].kind # "rav"
        BY <1>2, <1>3, <3>1, HoldingLabels, Zenon DEF OneStream
      <4> QED
        BY <1>2, <4>1, Zenon DEF TypeOK, Msg
    <3>3. stop' = [stop EXCEPT ![s] = "inactive"]
      BY <1>2, <2>2, <3>1, <3>2, Zenon DEF SubmitValidate, EnsureSessionState, Return
    <3> QED
      BY <3>3, Zenon DEF TypeOK
  <2> QED
    BY <2>1, <2>2, Zenon
<1>8. Matches(s)'
  BY <1>4, Zenon DEF Matches, Quiet
<1>9. PendingFirst'
  <2>1. \A u \in Threads : pc'[u] \notin {"send", "ack"}
    BY <1>0, <1>3, Zenon DEF Moves, Holding
  <2> QED
    BY <2>1, Zenon DEF PendingFirst
<1>10. Serves(s)'
  BY <1>0, <1>4, Zenon DEF Serves
<1> QED
  BY <1>5, <1>6, <1>7, <1>8, <1>9, <1>10, Zenon

\* The other steps leave the wire alone, up to the deferred unbind.
LEMMA StreamStepRequests ==
  ASSUME TypeOK, LockInv, ControlInv, FundsStopOnlyAfterTermination,
         IsActive(session)' => IsActive(session),
         NEW s \in Streams, \A c \in Streams : c = s,
         pc[s] # "done", OneStream(s), Delivers(s),
         \A o \in States : pendingRAV[o].kind # "funds", NotRejected(s),
         OneOnWire(s), SendsAlone(s), Matches(s), PendingFirst, Serves(s),
         StreamStep(s)
  PROVE  /\ OneOnWire(s)' /\ SendsAlone(s)' /\ NotRejected(s)'
         /\ (pc[s] = "done" => Ended(s))'
         /\ (pc[s] # "done" => Matches(s) /\ PendingFirst /\ Serves(s))'
<1> USE DEF memory, store, local, wire
<1>0. /\ Moves(s) /\ Delivers(s)' /\ s \in Threads /\ None \notin States
      /\ NoControlStateOrphaned /\ BoundStreamOwnsLiveState
  BY StreamStepDelivers, ThreadsAssumption, Zenon DEF Threads, ControlInv
<1>1. ASSUME WireKept(s), PendingStep(s, s), NotRejected(s)',
             pc'[s] # "done", pc'[s] \notin {"dispatch", "send"},
             pend'[s].kind = "rav" => pend[s].kind = "rav"
      PROVE  /\ OneOnWire(s)' /\ SendsAlone(s)' /\ NotRejected(s)'
             /\ (pc[s] = "done" => Ended(s))'
             /\ (pc[s] # "done" => Matches(s) /\ PendingFirst /\ Serves(s))'
  <2>1. OneOnWire(s)' /\ (Quiet(s) <=> Quiet(s)')
    BY <1>1, WireKeptFrame, Zenon
  <2>2. SendsAlone(s)'
    BY <1>0, <1>1, <2>1, AloneFrame, Zenon
  <2>3. Matches(s)' /\ PendingFirst' /\ Serves(s)'
    BY <1>0, <1>1, PendingFrame, Zenon
  <2> QED
    BY <1>1, <2>1, <2>2, <2>3, Zenon
<1>2. CASE StreamOpen(s) \/ StreamClose(s) \/ StreamReceive(s)
  <2>1. /\ UNCHANGED <<session, live, pendingRAV, queuedResponse, pend>>
        /\ chan'[s] = chan[s] /\ inbox'[s] = inbox[s] /\ sub'[s] = sub[s]
    BY <1>2, Zenon DEF StreamOpen, StreamClose, StreamReceive
  <2>2. NotRejected(s)'
    <3>1. \/ stop' = stop
          \/ \E r \in {"inactive", "error", "closed"} : stop' = [stop EXCEPT ![s] = r]
      BY <1>2, Zenon DEF StreamOpen, StreamClose, StreamReceive, Return
    <3> QED
      BY <3>1, Zenon DEF TypeOK, NotRejected
  <2>3. /\ pc'[s] = "bind" => pc[s] = "idle"
        /\ pc'[s] = "submit" => sub[s].kind = "rav"
        /\ pc'[s] \in {"bind", "exit", "submit"}
    <3>1. CASE StreamOpen(s) \/ StreamClose(s)
      <4>1. \/ Goto(s, "bind") /\ pc[s] = "idle"
            \/ Goto(s, "exit")
        BY <3>1, Zenon DEF StreamOpen, StreamClose, Return
      <4> QED
        BY <1>0, <4>1, Zenon DEF Goto, TypeOK
    <3>2. CASE StreamReceive(s)
      <4>1. sub[s].kind = "rav"
        BY <3>2, Zenon DEF StreamReceive, OneOnWire
      <4>2. Goto(s, "exit") \/ Goto(s, "submit")
        BY <3>2, <4>1, Zenon DEF StreamReceive, Return
      <4> QED
        BY <1>0, <4>1, <4>2, Zenon DEF Goto, TypeOK
    <3> QED
      BY <1>2, <3>1, <3>2, Zenon
  <2>4. WireKept(s)
    BY <2>1, WireSame, Zenon
  <2>5. PendingStep(s, s)
    BY <1>0, <2>1, <2>3, <2>4, Zenon DEF PendingStep
  <2> QED
    BY <1>1, <2>1, <2>2, <2>3, <2>4, <2>5, Zenon
<1>3. CASE Bind(s)
  <2>1. /\ pc[s] = "bind" /\ live' \in States
        /\ chan'[s] = chan[s] /\ inbox'[s] = inbox[s] /\ sub'[s] = sub[s]
    BY <1>3, Zenon DEF Bind, EnsureSessionState
  <2>2. WireKept(s) /\ Quiet(s) /\ \A u \in Threads : pend[u].kind # "rav"
    BY <2>1, WireSame, Zenon DEF Serves, OneStream
  <2>3. pc'[s] \in {"exit", "ensure", "deliver"} /\ stop'[s] \in {stop[s], "bound"}
    BY <1>0, <1>3, Zenon DEF Bind, Return, Goto, TypeOK
  <2>4. pend'[s].kind # "rav"
    BY <1>0, <2>3, Zenon DEF Delivers, Requesting
  <2>5. PendingStep(s, s)
    BY <1>0, <2>1, <2>2, <2>3, <2>4, Zenon DEF PendingStep
  <2>6. NotRejected(s)'
    BY <2>3, Zenon DEF NotRejected
  <2> QED
    BY <1>1, <2>2, <2>3, <2>4, <2>5, <2>6, Zenon
<1>4. CASE BindDeliver(s) \/ BindDelivered(s)
  <2>0. /\ pc[s] \in {"deliver", "delivered"} /\ resp[s].kind = "funds"
        /\ UNCHANGED <<session, live, stop>>
        /\ inbox'[s] = inbox[s] /\ sub'[s] = sub[s]
    BY <1>4, Zenon DEF BindDeliver, BindDelivered, Delivers
  <2>1. ~IsActive(session)
    BY <1>0, <2>0, FundsEnded, Zenon
  <2>2. \A u \in Threads : pend[u].kind # "rav"
    BY <2>1, Zenon DEF OneStream
  <2>3. WireKept(s)
    <3>1. CASE chan'[s] = chan[s]
      BY <2>0, <3>1, WireSame, Zenon
    <3>2. CASE chan'[s] = Append(chan[s], resp[s])
      <4>1. resp[s] \in Msg /\ resp[s].kind # "rav"
        BY <1>0, <2>0, Zenon DEF TypeOK
      <4> QED
        BY <2>0, <3>2, <4>1, SentAppend, Zenon DEF WireKept
    <3> QED
      BY <1>4, <3>1, <3>2, Zenon DEF BindDeliver, BindDelivered, TypeOK
  <2>4. pc'[s] \in {"ensure", "delivered"}
    BY <1>0, <1>4, Zenon DEF BindDeliver, BindDelivered, BindEvaluate, Goto, TypeOK
  <2>5. pend'[s].kind # "rav"
    BY <1>0, <2>4, Zenon DEF Delivers, Requesting
  <2>6. PendingStep(s, s)
    BY <1>0, <2>0, <2>1, <2>2, <2>3, <2>4, <2>5, Zenon DEF PendingStep
  <2> QED
    BY <1>1, <2>0, <2>3, <2>4, <2>5, <2>6, Zenon DEF NotRejected
<1>5. CASE StreamSend(s)
  <2>1. pc'[s] # "done"
    BY <1>0, <1>5, Zenon DEF StreamSend, Return, Goto, TypeOK
  <2>2. stop'[s] \in {stop[s], "funds"}
    BY <1>5, Zenon DEF StreamSend, Return, TypeOK
  <2>3. NotRejected(s)'
    BY <2>2, Zenon DEF NotRejected
  <2> QED
    BY <1>0, <1>5, <2>1, <2>3, StreamSendRequests, Zenon
<1>6. CASE SubmitValidate(s)
  <2>1. pc'[s] # "done"
    BY <1>0, <1>6, Zenon DEF SubmitValidate, Return, Goto, TypeOK
  <2> QED
    BY <1>0, <1>6, <2>1, SubmitValidateRequests, Zenon
<1>7. CASE SubmitCommit(s)
  <2>1. /\ UNCHANGED <<live, pendingRAV, queuedResponse>> /\ pc[s] = "commit"
        /\ chan'[s] = chan[s] /\ inbox'[s] = inbox[s] /\ sub'[s] = sub[s]
    BY <1>7, Zenon DEF SubmitCommit
  <2>2. pc'[s] \in {"accepted", "exit"} /\ stop'[s] \in {stop[s], "commit"}
    BY <1>0, <1>7, Zenon DEF SubmitCommit, LeaveEval, Goto, TypeOK
  <2>3. pend'[s] = pend[s] \/ pend'[s] = NoMsg
    BY <1>0, <1>7, Zenon DEF SubmitCommit, LeaveEval, TypeOK
  <2>4. pend'[s].kind = "rav" => pend[s].kind = "rav"
    BY <2>3, BlankKind, Zenon
  <2>5. WireKept(s) /\ NotRejected(s)'
    BY <2>1, <2>2, WireSame, Zenon DEF NotRejected
  <2>6. PendingStep(s, s)
    BY <1>0, <2>1, <2>2, <2>5, Zenon DEF PendingStep
  <2> QED
    BY <1>1, <2>2, <2>4, <2>5, <2>6, Zenon
<1>8. CASE SubmitAccepted(s)
  <2>1. /\ pc[s] = "accepted" /\ pc[s] \in Holding /\ UNCHANGED <<session, live, stop>>
        /\ chan'[s] = chan[s] /\ inbox'[s] = inbox[s] /\ sub'[s] = sub[s]
    BY <1>8, Zenon DEF SubmitAccepted, Holding
  <2>2. WireKept(s) /\ Quiet(s)
    BY <2>1, WireSame, Zenon DEF Serves
  <2>3. \A u \in Threads : u # s => pc[u] \notin {"send", "ack"}
    BY <1>0, <2>1, AloneInMap, Zenon
  <2>4. pc'[s] = "read"
    BY <1>0, <1>8, Zenon DEF SubmitAccepted, Goto, TypeOK
  <2>5. pend'[s].kind # "rav"
    BY <1>0, <2>4, Zenon DEF Delivers, Requesting
  <2>6. PendingStep(s, s)
    BY <1>0, <2>1, <2>2, <2>3, <2>4, <2>5, Zenon DEF PendingStep
  <2> QED
    BY <1>1, <2>1, <2>2, <2>4, <2>5, <2>6, Zenon DEF NotRejected
<1>9. CASE Unbind(s)
  <2>1. /\ pc'[s] = "done" /\ UNCHANGED <<pend, stop>>
        /\ chan'[s] = <<>> /\ inbox'[s] = <<>> /\ sub'[s] = NoSubmission
    BY <1>0, <1>9, Zenon DEF Unbind, Goto, TypeOK
  <2>2. Quiet(s)' /\ OneOnWire(s)'
    BY <2>1, Cleared, Zenon
  <2>3. pend[s].kind # "rav"
    BY <1>9, Zenon DEF Unbind, Delivers, Requesting
  <2>4. SendsAlone(s)'
    BY <1>0, <2>1, <2>2, <2>3, AloneFrame, Zenon
  <2>5. \A o \in States : events'[o] = None
    <3>1. \A o \in States : o # live => events[o] = None
      BY <1>0, Zenon DEF NoControlStateOrphaned
    <3>2. live \in States => events[live] \in {s, None}
      BY Zenon DEF TypeOK
    <3>3. CASE live # None /\ events[live] = s
      <4>1. events' = [events EXCEPT ![live] = None]
        BY <1>9, <3>3, Zenon DEF Unbind, CleanupSessionState
      <4> QED
        BY <3>1, <4>1, Zenon DEF TypeOK
    <3>4. CASE ~(live # None /\ events[live] = s)
      <4>1. events' = events
        BY <1>9, <3>4, Zenon DEF Unbind, CleanupSessionState
      <4> QED
        BY <1>0, <3>1, <3>2, <3>4, <4>1, Zenon
    <3> QED
      BY <3>3, <3>4, Zenon
  <2>6. Ended(s)'
    BY <2>2, <2>5, Zenon DEF Ended, Quiet
  <2> QED
    BY <2>1, <2>2, <2>4, <2>6, Zenon DEF NotRejected
<1>10. CASE FundsAck(s)
  BY <1>10, Zenon DEF FundsAck, Serves
<1> QED
  BY <1>2, <1>3, <1>4, <1>5, <1>6, <1>7, <1>8, <1>9, <1>10, Zenon DEF StreamStep

-----------------------------------------------------------------------------
(* The invariant.                                                           *)

\* RequestsInv is inductive, relative to the earlier invariants.
LEMMA RequestsInductive ==
  ASSUME OnlyAnswers
  PROVE  /\ TypeOK /\ AccountingInv /\ LockInv /\ ControlInv /\ LedgerInv
         /\ FundsStopOnlyAfterTermination /\ RequestsInv /\ [Next]_vars
         => RequestsInv'
<1> SUFFICES ASSUME TypeOK, AccountingInv, LockInv, ControlInv, LedgerInv,
                    FundsStopOnlyAfterTermination, RequestsInv, [Next]_vars
             PROVE  RequestsInv'
  BY SMTT(20)
<1> USE DEF memory, store, local, wire
<1>0. /\ Streams \subseteq Threads /\ Meters \subseteq Threads
      /\ Streams \cap Meters = {} /\ Unaries = {} /\ Strays = {}
      /\ \A s, c \in Streams : s = c
      /\ \A t \in Threads : Delivers(t)
  BY ThreadsAssumption, Zenon DEF Threads, OnlyAnswers, SingleStream, RequestsInv
<1>1. IsActive(session)' => IsActive(session)
  <2>1. session.status \in {"active", "terminated"}
    BY Zenon DEF TypeOK, Session, SessionStatuses
  <2> QED
    BY <2>1, TerminatedStep, Zenon DEF IsActive
<1>2. /\ \A o \in States : pendingRAV'[o].kind # "funds"
      /\ \A t \in Threads : pend'[t].kind # "funds"
  <2>1. CASE Next
    <3>1. AccountsKept
      BY <2>1, EvalStepAccounts, StreamStepAccounts, SubmitRAVAccounts,
         OtherStepAccounts, Zenon DEF Next, Threads
    <3>2. /\ \A o \in States : pendingRAV[o].kind # "funds"
          /\ \A t \in Threads : pend[t].kind # "funds"
      BY Zenon DEF RequestsInv
    <3>3. NoMsg.kind # "funds" /\ \A t \in Threads : NewRAVRequest(snap[t], t).kind # "funds"
      BY MessageKinds
    <3>4. \A o \in States : pendingRAV'[o].kind # "funds"
      BY <3>1, <3>2, <3>3, SMTT(20) DEF AccountsKept
    <3>5. \A t \in Threads : pend'[t].kind # "funds"
      BY <3>1, <3>2, <3>3 DEF AccountsKept
    <3> QED
      BY <3>4, <3>5, Zenon
  <2>2. CASE UNCHANGED vars
    BY <2>2, Zenon DEF vars, RequestsInv
  <2> QED
    BY <2>1, <2>2, Zenon
<1>3. ASSUME NEW s \in Streams
      PROVE  /\ OneOnWire(s) /\ SendsAlone(s) /\ NotRejected(s)
             /\ pc[s] = "done" => Ended(s)
             /\ pc[s] # "done" =>
                  OneStream(s) /\ Matches(s) /\ PendingFirst /\ Serves(s)
  BY Zenon DEF RequestsInv, LedgerInv
<1>4. \A t \in Threads : Delivers(t)'
  <2>1. ASSUME NEW t \in Streams \cup Meters, EvalStep(t)
        PROVE  \A u \in Threads : Delivers(u)'
    BY <1>0, <2>1, EvalStepDelivers, DeliversFrame, Zenon
  <2>2. ASSUME NEW s \in Streams, StreamStep(s)
        PROVE  \A u \in Threads : Delivers(u)'
    <3>1. pc[s] # "done"
      BY <2>2, Zenon
         DEF StreamStep, StreamOpen, Bind, BindDeliver, BindDelivered,
             StreamSend, StreamClose, StreamReceive, FundsAck, SubmitValidate,
             SubmitCommit, SubmitAccepted, Unbind
    <3>2. Moves(s) /\ Delivers(s)'
      BY <1>0, <1>3, <2>2, <3>1, StreamStepDelivers, Zenon DEF RequestsInv
    <3> QED
      BY <1>0, <3>2, DeliversFrame, Zenon
  <2>3. ASSUME NEW m \in Meters, Report(m)
        PROVE  \A u \in Threads : Delivers(u)'
    <3>1. pend[m].kind # "rav" /\ Goto(m, "ensure") /\ UNCHANGED <<resp, pend>>
      BY <1>0, <2>3, Zenon DEF Report, Delivers, Requesting
    <3> QED
      BY <1>0, <3>1, GotoDelivers, DeliversFrame, Zenon
  <2>4. CASE UNCHANGED <<pc, pend, resp>>
    BY <1>0, <2>4, Zenon DEF Delivers
  <2>5. CASE Restart
    <3>1. \A t \in Threads : pend'[t] = NoMsg /\ pc'[t] \in {"idle", "done"}
      BY <2>5, Zenon DEF Restart
    <3>2. \A t \in Threads : pend'[t].kind # "rav"
      BY <3>1, BlankKind, Zenon
    <3> QED
      BY <3>1, <3>2, Zenon DEF Delivers
  <2> QED
    BY <1>0, <2>1, <2>2, <2>3, <2>4, <2>5, Zenon
       DEF Next, vars, ConsumerAnswer, ConsumerStray, MarkCollectionPending,
           MarkCollectionCollected, MarkCollectionRetryable
<1>5. ASSUME NEW s \in Streams
      PROVE  /\ OneOnWire(s)' /\ SendsAlone(s)' /\ NotRejected(s)'
             /\ (pc[s] = "done" => Ended(s))'
             /\ (pc[s] # "done" => Matches(s) /\ PendingFirst /\ Serves(s))'
  <2>1. ASSUME NEW t \in Streams \cup Meters, EvalStep(t)
        PROVE  /\ OneOnWire(s)' /\ SendsAlone(s)' /\ NotRejected(s)'
               /\ (pc[s] = "done" => Ended(s))'
               /\ (pc[s] # "done" => Matches(s) /\ PendingFirst /\ Serves(s))'
    <3>0. t \in Threads /\ (t \in Streams => t = s) /\ s \in Threads
      BY <1>0, Zenon
    <3>1. OneOnWire(s)' /\ SendsAlone(s)'
      BY <1>0, <1>3, <2>1, <3>0, EvalStepAlone, Zenon
    <3>2. UNCHANGED <<events, inbox, sub, stop>>
      BY <1>0, <2>1, <3>0, EvalStepWire, Zenon
    <3>3. CASE pc[s] = "done"
      <4>1. pc'[s] = "done"
        BY <3>3, DoneStays, Zenon
      <4> QED
        BY <1>3, <3>1, <3>2, <3>3, <4>1, Zenon DEF Ended, NotRejected
    <3>4. CASE pc[s] # "done"
      <4>1. pc'[s] # "done"
        <5>1. t = s => pc'[s] # "done"
          BY <2>1, <3>0, EvalStepMoves, Zenon
        <5>2. t # s => pc'[s] = pc[s]
          BY <1>0, <2>1, <3>0, EvalStepDelivers, Zenon DEF Moves
        <5> QED
          BY <3>4, <5>1, <5>2, Zenon
      <4>2. Matches(s)' /\ PendingFirst' /\ Serves(s)'
        BY <1>0, <1>1, <1>3, <2>1, <3>0, <3>4, EvalStepPending, Zenon
      <4> QED
        BY <1>3, <3>1, <3>2, <4>1, <4>2, Zenon DEF NotRejected
    <3> QED
      BY <3>3, <3>4, Zenon
  <2>2. ASSUME NEW c \in Streams, StreamStep(c)
        PROVE  /\ OneOnWire(s)' /\ SendsAlone(s)' /\ NotRejected(s)'
               /\ (pc[s] = "done" => Ended(s))'
               /\ (pc[s] # "done" => Matches(s) /\ PendingFirst /\ Serves(s))'
    <3>0. c = s /\ s \in Threads /\ \A b \in Streams : b = s
      BY <1>0, Zenon
    <3>1. pc[s] # "done" /\ StreamStep(s)
      BY <2>2, <3>0, Zenon
         DEF StreamStep, StreamOpen, Bind, BindDeliver, BindDelivered,
             StreamSend, StreamClose, StreamReceive, FundsAck, SubmitValidate,
             SubmitCommit, SubmitAccepted, Unbind
    <3> QED
      BY <1>0, <1>1, <1>3, <3>0, <3>1, StreamStepRequests, Zenon DEF RequestsInv
  <2>3. ASSUME NEW m \in Meters, Report(m)
        PROVE  /\ OneOnWire(s)' /\ SendsAlone(s)' /\ NotRejected(s)'
               /\ (pc[s] = "done" => Ended(s))'
               /\ (pc[s] # "done" => Matches(s) /\ PendingFirst /\ Serves(s))'
    <3>0. m \in Threads /\ s \in Threads /\ m # s
      BY <1>0, Zenon
    <3>1. /\ pend[m].kind # "rav" /\ Goto(m, "ensure") /\ UNCHANGED <<resp, pend>>
          /\ UNCHANGED <<live, events, pendingRAV, queuedResponse, stop>>
          /\ chan'[s] = chan[s] /\ inbox'[s] = inbox[s] /\ sub'[s] = sub[s]
      BY <1>0, <2>3, Zenon DEF Report, Delivers, Requesting
    <3>2. Moves(m) /\ pc'[m] = "ensure" /\ pc'[s] = pc[s]
      BY <3>0, <3>1, Zenon DEF Goto, TypeOK, Moves
    <3>3. WireKept(s)
      BY <3>1, WireSame, Zenon
    <3>4. OneOnWire(s)' /\ (Quiet(s) <=> Quiet(s)')
      BY <1>3, <3>3, WireKeptFrame, Zenon
    <3>5. SendsAlone(s)'
      BY <1>3, <3>0, <3>1, <3>2, <3>4, AloneFrame, Zenon
    <3>6. CASE pc[s] = "done"
      BY <1>3, <3>1, <3>2, <3>4, <3>5, <3>6, Zenon DEF Ended, NotRejected
    <3>7. CASE pc[s] # "done"
      <4>1. PendingStep(s, m)
        BY <1>1, <1>3, <3>1, <3>2, <3>3, <3>7, Zenon DEF PendingStep, Serves
      <4>2. Matches(s)' /\ PendingFirst' /\ Serves(s)'
        BY <1>3, <3>0, <3>7, <4>1, PendingFrame, Zenon
      <4> QED
        BY <1>3, <3>1, <3>2, <3>4, <3>5, <3>7, <4>2, Zenon DEF NotRejected
    <3> QED
      BY <3>6, <3>7, Zenon
  <2>4. CASE ConsumerAnswer(s)
    <3>1. pc[s] # "done" /\ pc' = pc /\ stop' = stop
      BY <2>4, Zenon DEF ConsumerAnswer, Open
    <3> QED
      BY <1>3, <2>4, <3>1, ConsumerAnswerRequests, Zenon DEF NotRejected
  <2>5. CASE UNCHANGED <<session, live, events, pendingRAV, queuedResponse, pc,
                         pend, chan, inbox, sub, stop>>
    <3>0. WireKept(s)
      BY <2>5, WireSame, Zenon
    <3>1. OneOnWire(s)' /\ SendsAlone(s)'
      <4>1. OneOnWire(s)' /\ (Quiet(s) <=> Quiet(s)')
        BY <1>3, <3>0, WireKeptFrame, Zenon
      <4> QED
        BY <1>3, <2>5, <4>1, Zenon DEF SendsAlone
    <3>2. (pc[s] = "done" => Ended(s))'
      BY <1>3, <2>5, Zenon DEF Ended
    <3>3. ASSUME pc[s] # "done"
          PROVE  Matches(s)' /\ PendingFirst' /\ Serves(s)'
      <4>1. Matches(s)'
        BY <1>3, <2>5, <3>3, Zenon
           DEF Matches, Sent, IsActive, AnswersRequest, TargetValue
      <4>2. PendingFirst' /\ Serves(s)'
        BY <1>3, <2>5, <3>3, Zenon DEF PendingFirst, Serves, Quiet, Sent
      <4> QED
        BY <4>1, <4>2, Zenon
    <3> QED
      BY <1>3, <2>5, <3>1, <3>2, <3>3, Zenon DEF NotRejected
  <2>6. CASE Restart
    <3>1. /\ chan'[s] = <<>> /\ inbox'[s] = <<>> /\ sub'[s] = NoSubmission
          /\ \A o \in States : events'[o] = None /\ queuedResponse'[o] = NoMsg
          /\ \A t \in Threads : pend'[t] = NoMsg /\ pc'[t] \in {"idle", "done"}
          /\ stop'[s] \in {stop[s], "restart"}
      BY <2>6, Zenon DEF Restart
    <3>2. Quiet(s)' /\ OneOnWire(s)'
      BY <3>1, Cleared, Zenon
    <3>3. /\ \A t \in Threads : pend'[t].kind # "rav"
          /\ \A o \in States : queuedResponse'[o].kind # "rav"
      BY <3>1, BlankKind, Zenon
    <3>4. SendsAlone(s)' /\ PendingFirst'
      BY <3>3, Zenon DEF SendsAlone, PendingFirst
    <3>5. Ended(s)' /\ Matches(s)'
      BY <3>1, <3>2, Zenon DEF Ended, Matches, Quiet
    <3>6. pc'[s] \notin {"submit", "fundsack"}
      BY <1>0, <3>1, Zenon
    <3>7. Serves(s)'
      BY <3>2, <3>3, <3>6, Zenon DEF Serves
    <3>8. NotRejected(s)'
      BY <1>3, <3>1, Zenon DEF NotRejected
    <3> QED
      BY <3>2, <3>4, <3>5, <3>7, <3>8, Zenon
  <2> QED
    BY <1>0, <2>1, <2>2, <2>3, <2>4, <2>5, <2>6, Zenon
       DEF Next, vars, ConsumerStray, MarkCollectionPending,
           MarkCollectionCollected, MarkCollectionRetryable
<1> QED
  BY <1>2, <1>4, <1>5, Zenon DEF RequestsInv

LEMMA RequestsInvariant ==
  ASSUME OnlyAnswers
  PROVE  Spec => [](TypeOK /\ ControlInv /\ RequestsInv)
<1>1. Init => RequestsInv
  <2> SUFFICES ASSUME Init
               PROVE  RequestsInv
    OBVIOUS
  <2>1. \A t \in Threads :
          pc[t] = "idle" /\ pend[t].kind = "none" /\ resp[t] = NoMsg
    BY MessageKinds, Zenon DEF Init
  <2>2. \A o \in States : pendingRAV[o].kind = "none" /\ queuedResponse[o].kind = "none"
    BY MessageKinds, Zenon DEF Init
  <2>3. ASSUME NEW s \in Streams
        PROVE  /\ Quiet(s) /\ Len(inbox[s]) <= 1 /\ stop[s] = "none"
               /\ pc[s] = "idle"
    <3>1. chan[s] = <<>> /\ inbox[s] = <<>> /\ sub[s] = NoSubmission /\ stop[s] = "none"
      BY Zenon DEF Init
    <3>2. Sent(s) = {}
      BY <3>1, SentNone, Zenon
    <3>3. sub[s].kind = "none"
      BY <3>1, MessageKinds, Zenon
    <3>4. Len(inbox[s]) <= 1
      BY <3>1
    <3> QED
      BY <2>1, <3>1, <3>2, <3>3, <3>4, Zenon DEF Quiet, Threads
  <2>4. \A t \in Threads : Delivers(t) /\ pend[t].kind # "funds"
    BY <2>1, Zenon DEF Delivers
  <2>5. PendingFirst
    BY <2>1, Zenon DEF PendingFirst
  <2>6. ASSUME NEW s \in Streams
        PROVE  OneOnWire(s) /\ SendsAlone(s) /\ Matches(s) /\ Serves(s)
    <3>1. OneOnWire(s)
      BY <2>3, Zenon DEF OneOnWire, Quiet
    <3>2. SendsAlone(s)
      BY <2>1, Zenon DEF SendsAlone
    <3>3. Matches(s)
      BY <2>3, Zenon DEF Matches, Quiet
    <3>4. Serves(s)
      BY <2>2, <2>3, Zenon DEF Serves
    <3> QED
      BY <3>1, <3>2, <3>3, <3>4, Zenon
  <2>7. \A s \in Streams : NotRejected(s) /\ pc[s] # "done"
    BY <2>3, Zenon DEF NotRejected
  <2>8. \A o \in States : pendingRAV[o].kind # "funds"
    BY <2>2, Zenon
  <2> QED
    BY <2>4, <2>5, <2>6, <2>7, <2>8, Zenon DEF RequestsInv
<1>2. SingleStream
  BY Zenon DEF OnlyAnswers
<1>3. Spec => []LedgerInv
  BY <1>2, LedgerInvariant, Zenon
<1> QED
  BY <1>1, <1>3, ControlInvariant, FundsStopAlwaysAfterTermination,
     RequestsInductive, PTL DEF Spec

\* On a stream whose consumer only answers, at most one RAV request is in
\* flight, and the one the consumer holds is the one its answer will be
\* checked against.
THEOREM OneRequestAlwaysInFlight ==
  ASSUME OnlyAnswers
  PROVE  Spec => []OneRequestInFlight
<1>1. ASSUME TypeOK, RequestsInv
      PROVE  OneRequestInFlight
  <2>1. ASSUME NEW s \in Streams,
               NEW r1 \in OutstandingRequests(s), NEW r2 \in OutstandingRequests(s)
        PROVE  r1 = r2
    <3> DEFINE Place(r) ==
                 \/ \E i \in Sent(s) : r = <<"sent", i>>
                 \/ \E i \in 1..Len(inbox[s]) : r = <<"held", i>>
                 \/ sub[s].kind = "rav" /\ r = <<"answer", 1>>
    <3>0. OneOnWire(s) /\ inbox[s] \in Seq(Msg)
      BY <1>1, Zenon DEF RequestsInv, TypeOK
    <3>1. Place(r1) /\ Place(r2)
      BY Zenon DEF OutstandingRequests, Sent
    <3>2. \A i \in 1..Len(inbox[s]) : i = 1 /\ inbox[s] # <<>>
      <4>1. Len(inbox[s]) <= 1
        BY <3>0, Zenon DEF OneOnWire
      <4> QED
        BY <3>0, <4>1, SMTT(20)
    <3> HIDE DEF Place
    <3>3. CASE Sent(s) = {}
      <4>1. \A r : Place(r) =>
              r = IF inbox[s] # <<>> THEN <<"held", 1>> ELSE <<"answer", 1>>
        <5>1. inbox[s] # <<>> => sub[s].kind # "rav"
          BY <3>0 DEF OneOnWire
        <5>2. ASSUME NEW r, Place(r)
              PROVE  \/ r = <<"held", 1>> /\ inbox[s] # <<>>
                     \/ r = <<"answer", 1>> /\ inbox[s] = <<>>
          BY <3>2, <3>3, <5>1, <5>2, Zenon DEF Place
        <5> QED
          BY <5>2, Zenon
      <4> QED
        BY <3>1, <4>1, Zenon
    <3>4. CASE Sent(s) # {}
      <4>1. Len(inbox[s]) = 0 /\ sub[s].kind # "rav"
        BY <3>0, <3>4 DEF OneOnWire
      <4>2. \A i \in 1..Len(inbox[s]) : FALSE
        BY <4>1
      <4>3. \A i, j \in Sent(s) : i = j
        BY <3>0, Zenon DEF OneOnWire
      <4> QED
        BY <3>1, <4>1, <4>2, <4>3, Zenon DEF Place
    <3> QED
      BY <3>3, <3>4, Zenon
  <2>2. ASSUME NEW s \in Streams, Bound(s), IsActive(session), inbox[s] # <<>>
        PROVE  Head(inbox[s]) = pendingRAV[live]
    <3>1. inbox[s][1] = pendingRAV[live] /\ inbox[s] \in Seq(Msg)
      BY <1>1, <2>2, Zenon DEF RequestsInv, Bound, Matches, TypeOK
    <3>2. Head(inbox[s]) = inbox[s][1]
      BY <2>2, <3>1
    <3> QED
      BY <3>1, <3>2, Zenon
  <2> QED
    BY <2>1, <2>2, Zenon DEF OneRequestInFlight
<1> QED
  BY <1>1, RequestsInvariant, PTL

\* A consumer that answers each request with the value it asks for is never
\* stopped for its answer, unless a repository or chain call fails.
THEOREM HonestConsumerNeverRejected ==
  ASSUME SingleStream
  PROVE  Spec => []HonestConsumerNotRejected
<1>1. CASE Strays = {}
  <2>1. RequestsInv => HonestConsumerNotRejected
    BY Zenon DEF RequestsInv, NotRejected, HonestConsumerNotRejected
  <2>2. OnlyAnswers
    BY <1>1, Zenon DEF OnlyAnswers
  <2>3. Spec => []RequestsInv
    BY <2>2, RequestsInvariant, PTL
  <2> QED
    BY <2>1, <2>3, PTL
<1>2. CASE Strays # {}
  <2>1. HonestConsumerNotRejected
    BY <1>2, Zenon DEF HonestConsumerNotRejected
  <2> QED
    BY <2>1, PTL
<1> QED
  BY <1>1, <1>2, Zenon
=============================================================================
