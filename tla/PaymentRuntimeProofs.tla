------------------------ MODULE PaymentRuntimeProofs ------------------------
(***************************************************************************)
(* Proofs about PaymentRuntime for every set of threads, every number of   *)
(* runtime states and every bound: type correctness, the accounting of the *)
(* stored RAV and its baseline, that a terminated session is final, and the*)
(* manager's control state: the evaluation lock, the states that left the  *)
(* map, the stream a state is bound to, and the need-more-funds response.  *)
(***************************************************************************)
EXTENDS PaymentRuntime, TLAPS

-----------------------------------------------------------------------------
(* What the operators of the model return.                                  *)

\* The constant values of the model have their types.
LEMMA ConstantTypes ==
  /\ NoMsg \in Msg
  /\ NoSnapshot \in Session
  /\ NoCollection \in CollectionRecord
BY ValuesAssumption, Zenon
   DEF NoMsg, Msg, NoSnapshot, NewSession, Session, SessionStatuses,
       NoCollection, CollectionRecord, CollectionStates

\* A session starts well typed, with or without a RAV.
LEMMA NewSessionType ==
  \A hasRAV \in BOOLEAN : NewSession(InitialRAV, hasRAV) \in Session
BY ValuesAssumption, Zenon DEF NewSession, Session, SessionStatuses

\* UsageDeltaSinceBaseline is a natural number, and what it leaves out of the
\* total is the baseline, as long as the baseline is not past the total.
LEMMA UsageDelta ==
  ASSUME NEW s \in Session
  PROVE  /\ UsageDeltaSinceBaseline(s) \in Nat
         /\ s.base <= s.total => UsageDeltaSinceBaseline(s) = s.total - s.base
BY DEF UsageDeltaSinceBaseline, Session

\* The repository's writes keep a session well typed.
LEMMA SessionWrites ==
  ASSUME NEW s \in Session
  PROVE  /\ \A c \in Nat : AddUsage(s, c) \in Session
         /\ \A st \in SessionStatuses : WithRuntimeState(s, st) \in Session
         /\ \A v, b \in Nat : WithRAVAndBaseline(s, v, b) \in Session
<1>1. \A c \in Nat : AddUsage(s, c) \in Session
  BY DEF AddUsage, Session
<1>2. \A st \in SessionStatuses : WithRuntimeState(s, st) \in Session
  BY Zenon DEF WithRuntimeState, Session
<1>3. ASSUME NEW v \in Nat, NEW b \in Nat
      PROVE  WithRAVAndBaseline(s, v, b) \in Session
  BY Zenon DEF WithRAVAndBaseline, Session
<1> QED
  BY <1>1, <1>2, <1>3, Zenon

\* The control responses and the value of a request have their types.
LEMMA MessageTypes ==
  ASSUME NEW t \in Threads
  PROVE  /\ NeedMoreFunds(t) \in Msg
         /\ \A s \in Session : NewRAVRequest(s, t) \in Msg
         /\ \A m \in Msg : TargetValue(m) \in Nat
<1>1. NeedMoreFunds(t) \in Msg
  BY Zenon DEF NeedMoreFunds, NoMsg, Msg
<1>2. ASSUME NEW s \in Session
      PROVE  NewRAVRequest(s, t) \in Msg
  <2>1. UsageDeltaSinceBaseline(s) \in Nat
    BY UsageDelta, Zenon
  <2>2. s.rav \in Nat /\ s.total \in Nat
    BY Zenon DEF Session
  <2> QED
    BY <2>1, <2>2, Zenon DEF NewRAVRequest, Msg
<1>3. \A m \in Msg : TargetValue(m) \in Nat
  BY DEF TargetValue, Msg
<1> QED
  BY <1>1, <1>2, <1>3, Zenon

\* The settlement record stays well typed, whatever writes it.
LEMMA CollectionWrites ==
  ASSUME NEW rec \in CollectionRecord
  PROVE  /\ \A v \in Nat : NewCollectionRecord(v) \in CollectionRecord
         /\ \A v \in Nat : NextCollectible(rec, v) \in CollectionRecord
         /\ MarkedPending(rec) \in CollectionRecord
         /\ MarkedCollected(rec) \in CollectionRecord
         /\ MarkedFailedRetryable(rec) \in CollectionRecord
<1>1. \A v \in Nat : NewCollectionRecord(v) \in CollectionRecord
  BY Zenon DEF NewCollectionRecord, CollectionRecord, CollectionStates
<1>2. ASSUME NEW v \in Nat
      PROVE  NextCollectible(rec, v) \in CollectionRecord
  <2>1. NewCollectionRecord(v) \in CollectionRecord
    BY <1>1, Zenon
  <2> QED
    BY <2>1, Zenon DEF NextCollectible
<1>3. MarkedPending(rec) \in CollectionRecord
  <2>1. rec.attempts + 1 \in Nat
    BY DEF CollectionRecord
  <2> QED
    BY <2>1, Zenon DEF MarkedPending, CollectionRecord, CollectionStates
<1>4. MarkedCollected(rec) \in CollectionRecord
  BY Zenon DEF MarkedCollected, CollectionRecord, CollectionStates
<1>5. MarkedFailedRetryable(rec) \in CollectionRecord
  BY Zenon DEF MarkedFailedRetryable, CollectionRecord, CollectionStates
<1> QED
  BY <1>1, <1>2, <1>3, <1>4, <1>5, Zenon

-----------------------------------------------------------------------------
(* Type correctness.                                                        *)

\* withSessionEval's return keeps the locals of every thread well typed.
LEMMA LeaveEvalType ==
  ASSUME TypeOK, NEW t \in Threads, NEW label \in Labels, LeaveEval(t, label)
  PROVE  /\ pc' \in [Threads -> Labels]
         /\ evalMu' \in [States -> Threads \cup {None}]
         /\ ref' \in [Threads -> States \cup {None}]
         /\ snap' \in [Threads -> Session]
         /\ resp' \in [Threads -> Msg]
         /\ pend' \in [Threads -> Msg]
         /\ to' \in [Threads -> Streams \cup {None}]
BY ConstantTypes, Zenon DEF LeaveEval, Goto, TypeOK

\* A channel or inbox that grows or shrinks at one end stays well typed.
LEMMA AppendType ==
  ASSUME NEW q \in Seq(Msg), NEW m \in Msg
  PROVE  Append(q, m) \in Seq(Msg)
OBVIOUS

\* The labels an evaluation may return to.
LEMMA ReturnLabels ==
  ASSUME TypeOK, NEW t \in Threads
  PROVE  AfterEval(t) \in Labels /\ AfterFailedEval(t) \in Labels
BY Zenon DEF AfterEval, AfterFailedEval, Labels, TypeOK

\* The steps of an evaluation keep every variable well typed.
LEMMA EvalStepType ==
  ASSUME TypeOK, NEW t \in Threads, EvalStep(t)
  PROVE  TypeOK'
<1> USE DEF memory, store, local, wire
<1>0. AfterEval(t) \in Labels /\ AfterFailedEval(t) \in Labels
  BY ReturnLabels, Zenon
<1>1. CASE EvalEnsure(t)
  BY <1>1, Zenon DEF EvalEnsure, EnsureSessionState, Goto, Labels, TypeOK
<1>2. CASE EvalRead(t)
  <2>1. CASE LeaveEval(t, AfterEval(t))
    BY <1>0, <1>2, <2>1, LeaveEvalType, Zenon DEF EvalRead, TypeOK
  <2>2. CASE ~LeaveEval(t, AfterEval(t))
    <3>1. /\ snap' = [snap EXCEPT ![t] = session]
          /\ evalMu' = [evalMu EXCEPT ![ref[t]] = t]
          /\ pc' = [pc EXCEPT ![t] = "assess"]
          /\ UNCHANGED <<ref, resp, pend, to>>
      BY <1>2, <2>2, Zenon DEF EvalRead, Goto
    <3>2. /\ snap' \in [Threads -> Session]
          /\ evalMu' \in [States -> Threads \cup {None}]
          /\ pc' \in [Threads -> Labels]
      BY <3>1, Zenon DEF Labels, TypeOK
    <3> QED
      BY <1>2, <3>1, <3>2, Zenon DEF EvalRead, TypeOK
  <2> QED
    BY <2>1, <2>2, Zenon
<1>3. CASE EvalFail(t)
  BY <1>0, <1>3, LeaveEvalType, Zenon DEF EvalFail, TypeOK
<1>4. CASE EvalAssess(t)
  <2>1. session' \in Session
    <3>1. snap[t].status \in SessionStatuses
      BY Zenon DEF TypeOK, Session
    <3>2. session \in Session
      BY Zenon DEF TypeOK
    <3> QED
      BY <1>4, <3>1, <3>2, SessionWrites, Zenon DEF EvalAssess, SessionStatuses
  <2>2. CASE LeaveEval(t, AfterEval(t))
    BY <1>0, <1>4, <2>1, <2>2, LeaveEvalType, Zenon DEF EvalAssess, TypeOK
  <2>3. CASE ~LeaveEval(t, AfterEval(t))
    BY <1>4, <2>1, <2>3, MessageTypes, ZenonT(30)
       DEF EvalAssess, Goto, Labels, TypeOK
  <2> QED
    BY <2>2, <2>3, Zenon
<1>5. CASE EvalClearPending(t)
  BY <1>5, ConstantTypes, Zenon DEF EvalClearPending, Goto, Labels, TypeOK
<1>6. CASE EvalCheck(t)
  <2>1. CASE LeaveEval(t, AfterEval(t))
    BY <1>0, <1>6, <2>1, LeaveEvalType, Zenon DEF EvalCheck, TypeOK
  <2>2. CASE ~LeaveEval(t, AfterEval(t))
    <3>1. NewRAVRequest(snap[t], t) \in Msg
      BY MessageTypes, Zenon DEF TypeOK
    <3> QED
      BY <1>6, <2>2, <3>1, Zenon DEF EvalCheck, Goto, Labels, TypeOK
  <2> QED
    BY <2>1, <2>2, Zenon
<1>7. CASE Dispatch(t)
  <2>1. PICK o \in States :
          /\ EnsureSessionState(o)
          /\ queuedResponse' = [queuedResponse EXCEPT ![o] = resp[t]]
          /\ pendingRAV' = [pendingRAV EXCEPT ![o] = pend[t]]
          /\ IF events[o] = None
             THEN LeaveEval(t, AfterEval(t))
             ELSE /\ to' = [to EXCEPT ![t] = events[o]]
                  /\ Goto(t, "send")
                  /\ UNCHANGED <<evalMu, ref, snap, resp, pend>>
    BY <1>7, Zenon DEF Dispatch
  <2>2. /\ queuedResponse' \in [States -> Msg]
        /\ pendingRAV' \in [States -> Msg]
        /\ live' \in States \cup {None}
    BY <2>1, Zenon DEF EnsureSessionState, TypeOK
  <2>3. CASE LeaveEval(t, AfterEval(t))
    BY <1>0, <1>7, <2>2, <2>3, LeaveEvalType, Zenon DEF Dispatch, TypeOK
  <2>4. CASE ~LeaveEval(t, AfterEval(t))
    <3>1. /\ to' = [to EXCEPT ![t] = events[o]]
          /\ pc' = [pc EXCEPT ![t] = "send"]
          /\ UNCHANGED <<evalMu, ref, snap, resp, pend>>
      BY <2>1, <2>4, Zenon DEF Goto
    <3>2. /\ to' \in [Threads -> Streams \cup {None}]
          /\ pc' \in [Threads -> Labels]
      BY <3>1, Zenon DEF Labels, TypeOK
    <3> QED
      BY <1>7, <2>2, <3>1, <3>2, Zenon DEF Dispatch, TypeOK
  <2> QED
    BY <2>3, <2>4, Zenon
<1>8. CASE DispatchSend(t)
  <2>1. CASE LeaveEval(t, AfterEval(t)) /\ chan' = chan
    BY <1>0, <1>8, <2>1, LeaveEvalType, Zenon DEF DispatchSend, TypeOK
  <2>2. CASE ~(LeaveEval(t, AfterEval(t)) /\ chan' = chan)
    <3>1. /\ chan' = [chan EXCEPT ![to[t]] = Append(@, resp[t])]
          /\ pc' = [pc EXCEPT ![t] = "ack"]
          /\ UNCHANGED <<evalMu, ref, snap, resp, pend, to>>
      BY <1>8, <2>2, Zenon DEF DispatchSend, Goto
    <3>2. chan' \in [Streams -> Seq(Msg)]
      <4>1. ASSUME NEW s \in Streams
            PROVE  Append(chan[s], resp[t]) \in Seq(Msg)
        BY AppendType, Zenon DEF TypeOK
      <4> QED
        BY <3>1, <4>1, Zenon DEF TypeOK
    <3>3. pc' \in [Threads -> Labels]
      BY <3>1, Zenon DEF Labels, TypeOK
    <3> QED
      BY <1>8, <3>1, <3>2, <3>3, Zenon DEF DispatchSend, TypeOK
  <2> QED
    BY <2>1, <2>2, Zenon
<1>9. CASE DispatchAck(t)
  <2>1. /\ queuedResponse' \in [States -> Msg]
        /\ pendingRAV' \in [States -> Msg]
    BY <1>9, ConstantTypes, Zenon DEF DispatchAck, ClearQueuedResponse, TypeOK
  <2> QED
    BY <1>0, <1>9, <2>1, LeaveEvalType, Zenon DEF DispatchAck, TypeOK
<1> QED
  BY <1>1, <1>2, <1>3, <1>4, <1>5, <1>6, <1>7, <1>8, <1>9, Zenon DEF EvalStep

\* The steps of a PaymentSession handler keep every variable well typed.
LEMMA StreamStepType ==
  ASSUME TypeOK, NEW s \in Streams, StreamStep(s)
  PROVE  TypeOK'
<1> USE DEF memory, store, local, wire, Threads
<1>1. CASE StreamOpen(s)
  BY <1>1, Zenon DEF StreamOpen, Return, Goto, Labels, StopReasons, TypeOK
<1>2. CASE Bind(s)
  <2>1. PICK o \in States :
          /\ EnsureSessionState(o)
          /\ \/ /\ Return(s, "bound")
                /\ UNCHANGED <<events, pendingRAV, resp, pend>>
             \/ /\ events' = [events EXCEPT ![o] = s]
                /\ pendingRAV' = IF queuedResponse[o].kind = "none"
                                 THEN [pendingRAV EXCEPT ![o] = NoMsg]
                                 ELSE pendingRAV
                /\ resp' = [resp EXCEPT ![s] = queuedResponse[o]]
                /\ pend' = [pend EXCEPT ![s] = pendingRAV'[o]]
                /\ Goto(s, IF queuedResponse[o].kind = "none"
                           THEN "ensure" ELSE "deliver")
                /\ stop' = stop
    BY <1>2, Zenon DEF Bind
  <2>2. live' \in States \cup {None}
    BY <2>1, Zenon DEF EnsureSessionState
  <2>3. pendingRAV' \in [States -> Msg]
    BY <2>1, ConstantTypes, Zenon DEF TypeOK
  <2>4. /\ events' \in [States -> Streams \cup {None}]
        /\ resp' \in [Threads -> Msg]
        /\ pend' \in [Threads -> Msg]
    <3>1. pendingRAV'[o] \in Msg /\ queuedResponse[o] \in Msg
      BY <2>3, Zenon DEF TypeOK
    <3>2. events' \in [States -> Streams \cup {None}]
      BY <2>1, Zenon DEF TypeOK
    <3>3. resp' \in [Threads -> Msg]
      BY <2>1, <3>1, Zenon DEF TypeOK
    <3>4. pend' \in [Threads -> Msg]
      BY <2>1, <3>1, Zenon DEF TypeOK
    <3> QED
      BY <3>2, <3>3, <3>4, Zenon
  <2>5. pc' \in [Threads -> Labels] /\ stop' \in [Streams -> StopReasons]
    BY <2>1, ZenonT(30) DEF Return, Goto, Labels, StopReasons, TypeOK
  <2> QED
    BY <1>2, <2>2, <2>3, <2>4, <2>5, Zenon DEF Bind, TypeOK
<1>3. CASE BindDeliver(s)
  <2>1. Append(chan[s], resp[s]) \in Seq(Msg)
    BY AppendType, Zenon DEF TypeOK
  <2>2. chan' \in [Streams -> Seq(Msg)]
    BY <1>3, <2>1, Zenon DEF BindDeliver, TypeOK
  <2>3. /\ pc' \in [Threads -> Labels]
        /\ resp' \in [Threads -> Msg]
        /\ pend' \in [Threads -> Msg]
    BY <1>3, ConstantTypes, Zenon
       DEF BindDeliver, BindEvaluate, Goto, Labels, TypeOK
  <2> QED
    BY <1>3, <2>2, <2>3, Zenon DEF BindDeliver, TypeOK
<1>4. CASE BindDelivered(s)
  <2>1. /\ queuedResponse' \in [States -> Msg]
        /\ pendingRAV' \in [States -> Msg]
    BY <1>4, ConstantTypes, Zenon DEF BindDelivered, ClearQueuedResponse, TypeOK
  <2> QED
    BY <1>4, <2>1, ConstantTypes, Zenon
       DEF BindDelivered, BindEvaluate, Goto, Labels, TypeOK
<1>5. CASE StreamSend(s)
  <2>1. Head(chan[s]) \in Msg /\ Tail(chan[s]) \in Seq(Msg)
    BY <1>5 DEF StreamSend, TypeOK
  <2>2. chan' \in [Streams -> Seq(Msg)]
    BY <1>5, <2>1, Zenon DEF StreamSend, TypeOK
  <2>3. inbox' \in [Streams -> Seq(Msg)]
    <3>1. Append(inbox[s], Head(chan[s])) \in Seq(Msg)
      BY <2>1, AppendType, Zenon DEF TypeOK
    <3> QED
      BY <1>5, <3>1, Zenon DEF StreamSend, TypeOK
  <2>4. pc' \in [Threads -> Labels] /\ stop' \in [Streams -> StopReasons]
    BY <1>5, Zenon DEF StreamSend, Return, Goto, Labels, StopReasons, TypeOK
  <2> QED
    BY <1>5, <2>2, <2>3, <2>4, Zenon DEF StreamSend, TypeOK
<1>6. CASE StreamClose(s)
  BY <1>6, Zenon DEF StreamClose, Return, Goto, Labels, StopReasons, TypeOK
<1>7. CASE StreamReceive(s)
  BY <1>7, Zenon DEF StreamReceive, Return, Goto, Labels, StopReasons, TypeOK
<1>8. CASE FundsAck(s)
  <2>1. /\ live' \in States \cup {None}
        /\ queuedResponse' \in [States -> Msg]
        /\ pendingRAV' \in [States -> Msg]
    BY <1>8, ConstantTypes, Zenon DEF FundsAck, TypeOK
  <2>2. pc' \in [Threads -> Labels] /\ stop' \in [Streams -> StopReasons]
    BY <1>8, Zenon DEF FundsAck, Return, Goto, Labels, StopReasons, TypeOK
  <2>3. sub' \in [Streams -> Submission \cup {NoSubmission}]
    BY <1>8, Zenon DEF FundsAck, TypeOK
  <2> QED
    BY <1>8, <2>1, <2>2, <2>3, Zenon DEF FundsAck, TypeOK
<1>9. CASE SubmitValidate(s)
  <2>1. live' \in States \cup {None}
    BY <1>9, Zenon DEF SubmitValidate, EnsureSessionState
  <2>2. /\ evalMu' \in [States -> Threads \cup {None}]
        /\ ref' \in [Threads -> States \cup {None}]
        /\ pend' \in [Threads -> Msg]
    <3>1. CASE UNCHANGED <<evalMu, ref, pend>>
      BY <3>1, Zenon DEF TypeOK
    <3>2. ASSUME NEW o \in States,
                 evalMu' = [evalMu EXCEPT ![o] = s],
                 ref' = [ref EXCEPT ![s] = o],
                 pend' = [pend EXCEPT ![s] = pendingRAV[o]]
          PROVE  /\ evalMu' \in [States -> Threads \cup {None}]
                 /\ ref' \in [Threads -> States \cup {None}]
                 /\ pend' \in [Threads -> Msg]
      BY <3>2, Zenon DEF TypeOK
    <3> QED
      BY <1>9, <3>1, <3>2, Zenon DEF SubmitValidate
  <2>3. pc' \in [Threads -> Labels] /\ stop' \in [Streams -> StopReasons]
    BY <1>9, ZenonT(30) DEF SubmitValidate, Return, Goto, Labels, StopReasons, TypeOK
  <2>4. sub' \in [Streams -> Submission \cup {NoSubmission}]
    BY <1>9, Zenon DEF SubmitValidate, TypeOK
  <2> QED
    BY <1>9, <2>1, <2>2, <2>3, <2>4, Zenon DEF SubmitValidate, TypeOK
<1>10. CASE SubmitCommit(s)
  <2>1. TargetValue(pend[s]) \in Nat /\ pend[s].base \in Nat
    BY MessageTypes, Zenon DEF TypeOK, Msg
  <2>2. session' \in Session /\ collection' \in CollectionRecord
    <3>1. session \in Session /\ collection \in CollectionRecord
      BY Zenon DEF TypeOK
    <3>2. /\ WithRAVAndBaseline(session, TargetValue(pend[s]), pend[s].base)
               \in Session
          /\ NextCollectible(collection, TargetValue(pend[s]))
               \in CollectionRecord
      BY <2>1, <3>1, SessionWrites, CollectionWrites, Zenon
    <3> QED
      BY <1>10, <3>1, <3>2, Zenon DEF SubmitCommit
  <2>3. stop' \in [Streams -> StopReasons]
    BY <1>10, Zenon DEF SubmitCommit, StopReasons, TypeOK
  <2>4. CASE LeaveEval(s, "exit")
    <3>1. "exit" \in Labels
      BY Zenon DEF Labels
    <3> QED
      BY <1>10, <2>2, <2>3, <2>4, <3>1, LeaveEvalType, Zenon
         DEF SubmitCommit, TypeOK
  <2>5. CASE ~LeaveEval(s, "exit")
    BY <1>10, <2>2, <2>3, <2>5, Zenon DEF SubmitCommit, Goto, Labels, TypeOK
  <2> QED
    BY <2>4, <2>5, Zenon
<1>11. CASE SubmitAccepted(s)
  BY <1>11, ConstantTypes, Zenon DEF SubmitAccepted, Goto, Labels, TypeOK
<1>12. CASE Unbind(s)
  <2>1. /\ live' \in States \cup {None}
        /\ events' \in [States -> Streams \cup {None}]
    BY <1>12, Zenon DEF Unbind, CleanupSessionState, TypeOK
  <2>2. pc' \in [Threads -> Labels]
    BY <1>12, Zenon DEF Unbind, Goto, Labels, TypeOK
  <2>3. chan' \in [Streams -> Seq(Msg)] /\ inbox' \in [Streams -> Seq(Msg)]
    BY <1>12 DEF Unbind, TypeOK
  <2>4. sub' \in [Streams -> Submission \cup {NoSubmission}]
    BY <1>12, Zenon DEF Unbind, TypeOK
  <2> QED
    BY <1>12, <2>1, <2>2, <2>3, <2>4, Zenon DEF Unbind, TypeOK
<1> QED
  BY <1>1, <1>2, <1>3, <1>4, <1>5, <1>6, <1>7, <1>8, <1>9, <1>10, <1>11, <1>12, Zenon
     DEF StreamStep

\* The consumer's steps, the unary handler's steps, settlement and a restart
\* keep every variable well typed.
LEMMA OtherStepType ==
  ASSUME TypeOK
  PROVE  /\ \A m \in Meters : Report(m) => TypeOK'
         /\ \A s \in Streams : ConsumerAnswer(s) \/ ConsumerStray(s) => TypeOK'
         /\ \A u \in Unaries : SubmitRAVStep(u) => TypeOK'
         /\ (\/ MarkCollectionPending \/ MarkCollectionCollected
             \/ MarkCollectionRetryable) => TypeOK'
         /\ Restart => TypeOK'
<1> USE DEF memory, store, local, wire, Threads
<1>0. session \in Session /\ collection \in CollectionRecord
  BY Zenon DEF TypeOK
<1>1. ASSUME NEW m \in Meters, Report(m)
      PROVE  TypeOK'
  <2>1. session' \in Session
    BY <1>0, <1>1, SessionWrites, ValuesAssumption, Zenon DEF Report
  <2> QED
    BY <1>1, <2>1, Zenon DEF Report, Goto, Labels, TypeOK
<1>2. ASSUME NEW s \in Streams, ConsumerAnswer(s)
      PROVE  TypeOK'
  <2>1. Head(inbox[s]) \in Msg /\ Tail(inbox[s]) \in Seq(Msg)
    BY <1>2 DEF ConsumerAnswer, TypeOK
  <2>2. Head(inbox[s]).usage \in Nat /\ TargetValue(Head(inbox[s])) \in Nat
    BY <2>1, MessageTypes, Zenon DEF Msg
  <2>3. sub' \in [Streams -> Submission \cup {NoSubmission}]
    BY <1>2, <2>2, Zenon DEF ConsumerAnswer, Submission, TypeOK
  <2>4. inbox' \in [Streams -> Seq(Msg)]
    BY <1>2, <2>1, Zenon DEF ConsumerAnswer, TypeOK
  <2> QED
    BY <1>2, <2>3, <2>4, Zenon DEF ConsumerAnswer, TypeOK
<1>3. ASSUME NEW s \in Streams, ConsumerStray(s)
      PROVE  TypeOK'
  <2>1. sub' \in [Streams -> Submission \cup {NoSubmission}]
    BY <1>3, ValuesAssumption, Zenon DEF ConsumerStray, TypeOK
  <2> QED
    BY <1>3, <2>1, Zenon DEF ConsumerStray, TypeOK
<1>4. ASSUME NEW u \in Unaries, SubmitRAVStep(u)
      PROVE  TypeOK'
  <2>1. CASE SubmitRAVRead(u)
    BY <2>1, Zenon DEF SubmitRAVRead, Goto, Labels, TypeOK
  <2>2. CASE SubmitRAVPendingCheck(u)
    BY <2>2, ConstantTypes, Zenon
       DEF SubmitRAVPendingCheck, SubmitRAVReturn, Goto, Labels, TypeOK
  <2>3. CASE SubmitRAVStore(u)
    <3>1. snap[u].total \in Nat
      BY Zenon DEF TypeOK, Session
    <3>2. session' \in Session /\ collection' \in CollectionRecord
      BY <1>0, <2>3, <3>1, SessionWrites, CollectionWrites, ValuesAssumption, Zenon
         DEF SubmitRAVStore
    <3> QED
      BY <2>3, <3>2, ConstantTypes, Zenon
         DEF SubmitRAVStore, SubmitRAVReturn, Goto, Labels, TypeOK
  <2> QED
    BY <1>4, <2>1, <2>2, <2>3, Zenon DEF SubmitRAVStep
<1>5. ASSUME \/ MarkCollectionPending \/ MarkCollectionCollected
             \/ MarkCollectionRetryable
      PROVE  TypeOK'
  <2>1. collection' \in CollectionRecord
    BY <1>0, <1>5, CollectionWrites, Zenon
       DEF MarkCollectionPending, MarkCollectionCollected,
           MarkCollectionRetryable
  <2> QED
    BY <1>5, <2>1, Zenon
       DEF MarkCollectionPending, MarkCollectionCollected,
           MarkCollectionRetryable, TypeOK
<1>6. ASSUME Restart
      PROVE  TypeOK'
  <2>1. pc' \in [Threads -> Labels]
    BY <1>6, Zenon DEF Restart, Labels
  <2>2. stop' \in [Streams -> StopReasons]
    BY <1>6, Zenon DEF Restart, StopReasons, TypeOK
  <2>3. restarts' \in 0..MaxRestarts
    BY <1>6, ValuesAssumption DEF Restart, TypeOK
  <2>4. chan' \in [Streams -> Seq(Msg)] /\ inbox' \in [Streams -> Seq(Msg)]
    BY <1>6 DEF Restart
  <2>5. /\ pendingRAV' \in [States -> Msg]
        /\ queuedResponse' \in [States -> Msg]
        /\ snap' \in [Threads -> Session]
        /\ resp' \in [Threads -> Msg]
        /\ pend' \in [Threads -> Msg]
    BY <1>6, ConstantTypes, Zenon DEF Restart
  <2> QED
    BY <1>6, <2>1, <2>2, <2>3, <2>4, <2>5, Zenon DEF Restart, TypeOK
<1> QED
  BY <1>1, <1>2, <1>3, <1>4, <1>5, <1>6, Zenon

\* TypeOK is inductive.
LEMMA TypeInductive ==
  TypeOK /\ [Next]_vars => TypeOK'
<1> SUFFICES ASSUME TypeOK, [Next]_vars
             PROVE  TypeOK'
  OBVIOUS
<1>1. CASE Next
  BY <1>1, EvalStepType, StreamStepType, OtherStepType, Zenon DEF Next, Threads
<1>2. CASE UNCHANGED vars
  BY <1>2, Zenon DEF vars, TypeOK
<1> QED
  BY <1>1, <1>2, Zenon

\* The initial states are well typed.
LEMMA TypeInit ==
  Init => TypeOK
<1> SUFFICES ASSUME Init
             PROVE  TypeOK
  OBVIOUS
<1>1. session \in Session /\ collection \in CollectionRecord
  BY ConstantTypes, NewSessionType, CollectionWrites, ValuesAssumption, Zenon
     DEF Init
<1>2. restarts \in 0..MaxRestarts
  BY ValuesAssumption DEF Init
<1>3. /\ pc \in [Threads -> Labels]
      /\ stop \in [Streams -> StopReasons]
      /\ sub \in [Streams -> Submission \cup {NoSubmission}]
      /\ chan \in [Streams -> Seq(Msg)]
      /\ inbox \in [Streams -> Seq(Msg)]
  BY DEF Init, Labels, StopReasons
<1> QED
  BY <1>1, <1>2, <1>3, ConstantTypes, Zenon DEF Init, TypeOK

\* Every variable of the provider's payment control keeps its type; channels
\* hold only control responses, requests and values are natural numbers.
THEOREM TypeCorrect ==
  Spec => []TypeOK
BY TypeInit, TypeInductive, PTL DEF Spec

-----------------------------------------------------------------------------
(* Accounting.  RAVCoversBaseline and ExactAccounting are not inductive: a  *)
(* RAV is committed from a request, a request is made from a snapshot of    *)
(* the session, and either may be older than the session it is applied to.  *)
(* The inductive invariant says the same of all of them.                    *)

\* A RAV of value v pays for usage b, and for no more where only
\* PaymentSession accepts RAVs.
Covers(v, b) ==
  /\ v >= InitialRAV + b
  /\ Unaries = {} => v = InitialRAV + b

PaidSession(s) == s.base <= s.total /\ Covers(s.rav, s.base)

PaidRequest(m) == m.kind = "rav" => Covers(TargetValue(m), m.base)

SnapshotsPaid ==
  \A t \in Threads : PaidSession(snap[t]) /\ snap[t].total <= session.total

RequestsPaid ==
  /\ \A o \in States :
       PaidRequest(pendingRAV[o]) /\ pendingRAV[o].base <= session.total
  /\ \A t \in Threads :
       PaidRequest(pend[t]) /\ pend[t].base <= session.total

CommitsRequest ==
  \A s \in Streams : pc[s] = "commit" => pend[s].kind = "rav"

AccountingInv ==
  /\ PaidSession(session)
  /\ SnapshotsPaid
  /\ RequestsPaid
  /\ CommitsRequest

\* The request evaluateMeteredUsage makes from a snapshot asks for what pays
\* for all the usage of the snapshot.
LEMMA NewRequestPaid ==
  ASSUME NEW s \in Session, NEW t, PaidSession(s)
  PROVE  /\ PaidRequest(NewRAVRequest(s, t))
         /\ NewRAVRequest(s, t).base = s.total
<1>1. UsageDeltaSinceBaseline(s) = s.total - s.base
  BY UsageDelta, Zenon DEF PaidSession
<1>2. /\ NewRAVRequest(s, t).base = s.total
      /\ TargetValue(NewRAVRequest(s, t)) = s.rav + (s.total - s.base)
  BY <1>1, Zenon DEF NewRAVRequest, TargetValue
<1>3. s.rav \in Nat /\ s.total \in Nat /\ s.base \in Nat
  BY Zenon DEF Session
<1> QED
  BY <1>2, <1>3, ValuesAssumption DEF PaidRequest, PaidSession, Covers

\* What a step has to do to the accounts, whichever action it is.
AccountsKept ==
  /\ PaidSession(session')
  /\ session'.total >= session.total
  /\ \A t \in Threads : snap'[t] \in {snap[t], session, NoSnapshot}
  /\ \A o \in States :
       pendingRAV'[o] \in {pendingRAV[o], NoMsg} \cup {pend[t] : t \in Threads}
  /\ \A t \in Threads :
       pend'[t] \in {pend[t], NoMsg, NewRAVRequest(snap[t], t)}
                      \cup {pendingRAV[o] : o \in States}
  /\ CommitsRequest'

\* The blank values are paid for.
LEMMA BlankPaid ==
  /\ PaidRequest(NoMsg) /\ NoMsg.base = 0
  /\ PaidSession(NoSnapshot) /\ NoSnapshot.total = 0
BY ValuesAssumption
   DEF PaidRequest, NoMsg, PaidSession, NoSnapshot, NewSession, Covers

\* Such a step preserves the inductive invariant.
LEMMA AccountingFrame ==
  ASSUME TypeOK, TypeOK', AccountingInv, AccountsKept
  PROVE  AccountingInv'
<1>1. /\ session.total \in Nat /\ session'.total \in Nat
      /\ session'.total >= session.total
  BY Zenon DEF TypeOK, Session, AccountsKept
<1>2. SnapshotsPaid'
  <2> SUFFICES ASSUME NEW t \in Threads
               PROVE  PaidSession(snap'[t]) /\ snap'[t].total <= session'.total
    BY Zenon DEF SnapshotsPaid, PaidSession, Covers
  <2>1. snap[t].total \in Nat /\ snap'[t].total \in Nat
    BY Zenon DEF TypeOK, Session
  <2>2. CASE snap'[t] = snap[t]
    BY <1>1, <2>1, <2>2 DEF AccountingInv, SnapshotsPaid
  <2>3. CASE snap'[t] = session
    BY <1>1, <2>1, <2>3, Zenon DEF AccountingInv
  <2>4. CASE snap'[t] = NoSnapshot
    BY <1>1, <2>4, BlankPaid
  <2> QED
    BY <2>2, <2>3, <2>4, Zenon DEF AccountsKept
<1>3. ASSUME NEW m, PaidRequest(m), m.base \in Nat, m.base <= session.total
      PROVE  PaidRequest(m) /\ m.base <= session'.total
  BY <1>1, <1>3
<1>4. ASSUME NEW t \in Threads
      PROVE  PaidRequest(pend[t]) /\ pend[t].base <= session'.total
  <2>1. pend[t].base \in Nat
    BY Zenon DEF TypeOK, Msg
  <2> QED
    BY <1>3, <2>1, Zenon DEF AccountingInv, RequestsPaid
<1>5. ASSUME NEW o \in States
      PROVE  PaidRequest(pendingRAV[o]) /\ pendingRAV[o].base <= session'.total
  <2>1. pendingRAV[o].base \in Nat
    BY Zenon DEF TypeOK, Msg
  <2> QED
    BY <1>3, <2>1, Zenon DEF AccountingInv, RequestsPaid
<1>6. PaidRequest(NoMsg) /\ NoMsg.base <= session'.total
  BY <1>1, BlankPaid
<1>7. ASSUME NEW t \in Threads
      PROVE  /\ PaidRequest(NewRAVRequest(snap[t], t))
             /\ NewRAVRequest(snap[t], t).base <= session'.total
  <2>1. snap[t] \in Session /\ snap[t].total \in Nat
    BY Zenon DEF TypeOK, Session
  <2>2. PaidSession(snap[t]) /\ snap[t].total <= session.total
    BY Zenon DEF AccountingInv, SnapshotsPaid
  <2>3. /\ PaidRequest(NewRAVRequest(snap[t], t))
        /\ NewRAVRequest(snap[t], t).base = snap[t].total
    BY <2>1, <2>2, NewRequestPaid, Zenon
  <2> QED
    BY <1>1, <2>1, <2>2, <2>3
<1>8. RequestsPaid'
  <2>1. ASSUME NEW o \in States
        PROVE  /\ PaidRequest(pendingRAV'[o])
               /\ pendingRAV'[o].base <= session'.total
    BY <1>4, <1>5, <1>6, Zenon DEF AccountsKept
  <2>2. ASSUME NEW t \in Threads
        PROVE  PaidRequest(pend'[t]) /\ pend'[t].base <= session'.total
    BY <1>4, <1>5, <1>6, <1>7, Zenon DEF AccountsKept
  <2> QED
    BY <2>1, <2>2, Zenon DEF RequestsPaid, PaidRequest, Covers, TargetValue
<1> QED
  BY <1>2, <1>8, Zenon DEF AccountsKept, AccountingInv, PaidSession, Covers

\* A return from withSessionEval blanks the thread's locals and no others.
LEMMA LeaveEvalAccounts ==
  ASSUME TypeOK, NEW t \in Threads, NEW label, LeaveEval(t, label)
  PROVE  /\ \A u \in Threads : snap'[u] \in {snap[u], NoSnapshot}
         /\ \A u \in Threads : pend'[u] \in {pend[u], NoMsg}
         /\ CommitsRequest /\ label # "commit" => CommitsRequest'
BY Zenon DEF LeaveEval, Goto, CommitsRequest, TypeOK, Threads

\* A step that leaves the sessions, the requests and the commits alone.
LEMMA AccountsUnchanged ==
  ASSUME TypeOK, AccountingInv, session' = session, snap' = snap,
         pendingRAV' = pendingRAV, pend' = pend, CommitsRequest'
  PROVE  AccountsKept
BY DEF AccountsKept, AccountingInv, TypeOK, Session

\* The steps of an evaluation keep the accounts.
LEMMA EvalStepAccounts ==
  ASSUME TypeOK, AccountingInv, NEW t \in Threads, EvalStep(t)
  PROVE  AccountsKept
<1> USE DEF memory, store, local, wire
<1>0. /\ AfterEval(t) # "commit" /\ AfterFailedEval(t) # "commit"
      /\ session \in Session /\ session.total \in Nat
      /\ PaidSession(session) /\ CommitsRequest
  BY Zenon DEF AfterEval, AfterFailedEval, TypeOK, Session, AccountingInv
<1>1. CASE EvalEnsure(t)
  <2>1. CommitsRequest'
    BY <1>0, <1>1, Zenon DEF EvalEnsure, Goto, CommitsRequest, TypeOK, Threads
  <2> QED
    BY <1>1, <2>1, AccountsUnchanged, Zenon DEF EvalEnsure
<1>2. CASE EvalRead(t)
  <2>1. CASE LeaveEval(t, AfterEval(t))
    BY <1>0, <1>2, <2>1, LeaveEvalAccounts DEF EvalRead, AccountsKept
  <2>2. CASE ~LeaveEval(t, AfterEval(t))
    <3>1. CommitsRequest'
      BY <1>0, <1>2, <2>2, Zenon
         DEF EvalRead, Goto, CommitsRequest, TypeOK, Threads
    <3>2. \A u \in Threads : snap'[u] \in {snap[u], session}
      BY <1>2, <2>2, Zenon DEF EvalRead, TypeOK
    <3> QED
      BY <1>0, <1>2, <2>2, <3>1, <3>2 DEF EvalRead, AccountsKept
  <2> QED
    BY <2>1, <2>2, Zenon
<1>3. CASE EvalFail(t)
  BY <1>0, <1>3, LeaveEvalAccounts, SMTT(20) DEF EvalFail, AccountsKept
<1>4. CASE EvalAssess(t)
  <2>1. PaidSession(session') /\ session'.total = session.total
    BY <1>0, <1>4, Zenon
       DEF EvalAssess, WithRuntimeState, PaidSession, Covers, Session
  <2>2. CASE LeaveEval(t, AfterEval(t))
    BY <1>0, <1>4, <2>1, <2>2, LeaveEvalAccounts DEF EvalAssess, AccountsKept
  <2>3. CASE ~LeaveEval(t, AfterEval(t))
    <3>1. CommitsRequest'
      BY <1>0, <1>4, <2>3, Zenon
         DEF EvalAssess, Goto, CommitsRequest, TypeOK, Threads
    <3> QED
      BY <1>0, <1>4, <2>1, <2>3, <3>1 DEF EvalAssess, AccountsKept
  <2> QED
    BY <2>2, <2>3, Zenon
<1>5. CASE EvalClearPending(t)
  <2>1. CommitsRequest'
    BY <1>0, <1>5, Zenon
       DEF EvalClearPending, Goto, CommitsRequest, TypeOK, Threads
  <2>2. \A o \in States : pendingRAV'[o] \in {pendingRAV[o], NoMsg}
    BY <1>5, Zenon DEF EvalClearPending, TypeOK
  <2> QED
    BY <1>0, <1>5, <2>1, <2>2 DEF EvalClearPending, AccountsKept
<1>6. CASE EvalCheck(t)
  <2>1. CASE LeaveEval(t, AfterEval(t))
    BY <1>0, <1>6, <2>1, LeaveEvalAccounts DEF EvalCheck, AccountsKept
  <2>2. CASE ~LeaveEval(t, AfterEval(t))
    <3>1. CommitsRequest'
      BY <1>0, <1>6, <2>2, Zenon
         DEF EvalCheck, Goto, CommitsRequest, TypeOK, Threads
    <3>2. \A u \in Threads : pend'[u] \in {pend[u], NewRAVRequest(snap[u], u)}
      BY <1>6, <2>2 DEF EvalCheck, TypeOK
    <3> QED
      BY <1>0, <1>6, <2>2, <3>1, <3>2 DEF EvalCheck, AccountsKept
  <2> QED
    BY <2>1, <2>2, Zenon
<1>7. CASE Dispatch(t)
  <2>1. \A o \in States :
          pendingRAV'[o] \in {pendingRAV[o]} \cup {pend[u] : u \in Threads}
    BY <1>7 DEF Dispatch, TypeOK
  <2>2. CASE LeaveEval(t, AfterEval(t))
    BY <1>0, <1>7, <2>1, <2>2, LeaveEvalAccounts DEF Dispatch, AccountsKept
  <2>3. CASE ~LeaveEval(t, AfterEval(t))
    <3>1. CommitsRequest'
      BY <1>0, <1>7, <2>3, Zenon
         DEF Dispatch, Goto, CommitsRequest, TypeOK, Threads
    <3> QED
      BY <1>0, <1>7, <2>1, <2>3, <3>1 DEF Dispatch, AccountsKept
  <2> QED
    BY <2>2, <2>3, Zenon
<1>8. CASE DispatchSend(t)
  <2>1. CASE LeaveEval(t, AfterEval(t))
    BY <1>0, <1>8, <2>1, LeaveEvalAccounts DEF DispatchSend, AccountsKept
  <2>2. CASE ~LeaveEval(t, AfterEval(t))
    <3>1. CommitsRequest'
      BY <1>0, <1>8, <2>2, Zenon
         DEF DispatchSend, Goto, CommitsRequest, TypeOK, Threads
    <3> QED
      BY <1>8, <2>2, <3>1, AccountsUnchanged, Zenon DEF DispatchSend
  <2> QED
    BY <2>1, <2>2, Zenon
<1>9. CASE DispatchAck(t)
  <2>1. \A o \in States :
          pendingRAV'[o] \in {pendingRAV[o]} \cup {pend[u] : u \in Threads}
    BY <1>9 DEF DispatchAck, ClearQueuedResponse, TypeOK
  <2> QED
    BY <1>0, <1>9, <2>1, LeaveEvalAccounts DEF DispatchAck, AccountsKept
<1> QED
  BY <1>1, <1>2, <1>3, <1>4, <1>5, <1>6, <1>7, <1>8, <1>9, Zenon DEF EvalStep

\* The steps of a PaymentSession handler keep the accounts: what it commits is
\* the request in flight, with exactly the value the request asks for.
LEMMA StreamStepAccounts ==
  ASSUME TypeOK, AccountingInv, NEW s \in Streams, StreamStep(s)
  PROVE  AccountsKept
<1> USE DEF memory, store, local, wire
<1>0. /\ s \in Threads
      /\ session \in Session /\ session.total \in Nat
      /\ PaidSession(session) /\ CommitsRequest
  BY Zenon DEF Threads, TypeOK, Session, AccountingInv
<1>1. CASE StreamOpen(s)
  <2>1. CommitsRequest'
    BY <1>0, <1>1, Zenon
       DEF StreamOpen, Return, Goto, CommitsRequest, TypeOK, Threads
  <2> QED
    BY <1>1, <2>1, AccountsUnchanged, Zenon DEF StreamOpen
<1>2. CASE Bind(s)
  <2>1. \A o \in States : pendingRAV'[o] \in {pendingRAV[o], NoMsg}
    BY <1>2 DEF Bind, TypeOK
  <2>2. \A u \in Threads : \/ pend'[u] \in {pend[u], NoMsg}
                           \/ \E o \in States : pend'[u] = pendingRAV[o]
    BY <1>0, <1>2, <2>1 DEF Bind, TypeOK
  <2>3. \A u \in Streams : u # s => pend'[u] = pend[u] /\ pc'[u] = pc[u]
    BY <1>0, <1>2, Zenon DEF Bind, Return, Goto, TypeOK, Threads
  <2>4. pc'[s] # "commit"
    BY <1>0, <1>2, Zenon DEF Bind, Return, Goto, TypeOK, Threads
  <2>5. CommitsRequest'
    BY <1>0, <2>3, <2>4, Zenon DEF CommitsRequest
  <2> QED
    BY <1>0, <1>2, <2>1, <2>2, <2>5 DEF Bind, AccountsKept
<1>3. CASE BindDeliver(s)
  <2>1. \A u \in Threads : pend'[u] \in {pend[u], NoMsg}
    BY <1>3, Zenon DEF BindDeliver, BindEvaluate, TypeOK
  <2>2. CommitsRequest'
    BY <1>0, <1>3, Zenon
       DEF BindDeliver, BindEvaluate, Goto, CommitsRequest, TypeOK, Threads
  <2> QED
    BY <1>0, <1>3, <2>1, <2>2 DEF BindDeliver, AccountsKept
<1>4. CASE BindDelivered(s)
  <2>1. \A u \in Threads : pend'[u] \in {pend[u], NoMsg}
    BY <1>4, Zenon DEF BindDelivered, BindEvaluate, TypeOK
  <2>2. \A o \in States :
          pendingRAV'[o] \in {pendingRAV[o]} \cup {pend[u] : u \in Threads}
    BY <1>0, <1>4 DEF BindDelivered, ClearQueuedResponse, TypeOK
  <2>3. CommitsRequest'
    BY <1>0, <1>4, Zenon
       DEF BindDelivered, BindEvaluate, Goto, CommitsRequest, TypeOK, Threads
  <2> QED
    BY <1>0, <1>4, <2>1, <2>2, <2>3 DEF BindDelivered, AccountsKept
<1>5. CASE StreamSend(s)
  <2>1. CommitsRequest'
    BY <1>0, <1>5, Zenon
       DEF StreamSend, Return, Goto, CommitsRequest, TypeOK, Threads
  <2> QED
    BY <1>5, <2>1, AccountsUnchanged, Zenon DEF StreamSend
<1>6. CASE StreamClose(s)
  <2>1. CommitsRequest'
    BY <1>0, <1>6, Zenon
       DEF StreamClose, Return, Goto, CommitsRequest, TypeOK, Threads
  <2> QED
    BY <1>6, <2>1, AccountsUnchanged, Zenon DEF StreamClose
<1>7. CASE StreamReceive(s)
  <2>1. CommitsRequest'
    BY <1>0, <1>7, Zenon
       DEF StreamReceive, Return, Goto, CommitsRequest, TypeOK, Threads
  <2> QED
    BY <1>7, <2>1, AccountsUnchanged, Zenon DEF StreamReceive
<1>8. CASE FundsAck(s)
  <2>1. \A o \in States : pendingRAV'[o] \in {pendingRAV[o], NoMsg}
    BY <1>8, Zenon DEF FundsAck, TypeOK
  <2>2. CommitsRequest'
    BY <1>0, <1>8, Zenon
       DEF FundsAck, Return, Goto, CommitsRequest, TypeOK, Threads
  <2> QED
    BY <1>0, <1>8, <2>1, <2>2 DEF FundsAck, AccountsKept
<1>9. CASE SubmitValidate(s)
  <2>1. PICK o \in States :
          \/ /\ AnswersRequest(sub[s], pendingRAV[o])
             /\ pend' = [pend EXCEPT ![s] = pendingRAV[o]]
             /\ Goto(s, "commit")
          \/ /\ pc' = [pc EXCEPT ![s] = "exit"]
             /\ pend' = pend
    BY <1>9, Zenon DEF SubmitValidate, Return, Goto
  <2>2. \A u \in Threads : pend'[u] \in {pend[u], pendingRAV[o]}
    BY <2>1, Zenon DEF TypeOK
  <2>3. CommitsRequest'
    BY <1>0, <2>1, Zenon
       DEF AnswersRequest, Goto, CommitsRequest, TypeOK, Threads
  <2> QED
    BY <1>0, <1>9, <2>2, <2>3 DEF SubmitValidate, AccountsKept
<1>10. CASE SubmitCommit(s)
  <2>1. CASE LeaveEval(s, "exit") /\ UNCHANGED store
    BY <1>0, <1>10, <2>1, LeaveEvalAccounts DEF SubmitCommit, AccountsKept
  <2>2. CASE ~(LeaveEval(s, "exit") /\ UNCHANGED store)
    <3>1. /\ session' = WithRAVAndBaseline(session, TargetValue(pend[s]),
                                           pend[s].base)
          /\ pc' = [pc EXCEPT ![s] = "accepted"]
          /\ UNCHANGED <<snap, pend, pendingRAV>>
      BY <1>10, <2>2, Zenon DEF SubmitCommit, Goto
    <3>2. PaidRequest(pend[s]) /\ pend[s].base <= session.total
      BY <1>0, Zenon DEF AccountingInv, RequestsPaid
    <3>3. Covers(TargetValue(pend[s]), pend[s].base)
      BY <1>0, <1>10, <3>2, Zenon DEF SubmitCommit, CommitsRequest, PaidRequest
    <3>4. /\ session'.rav = TargetValue(pend[s])
          /\ session'.base = pend[s].base
          /\ session'.total = session.total
      BY <1>0, <3>1, Zenon DEF WithRAVAndBaseline, Session
    <3>5. PaidSession(session') /\ session'.total >= session.total
      BY <1>0, <3>2, <3>3, <3>4 DEF PaidSession
    <3>6. CommitsRequest'
      BY <1>0, <3>1, Zenon DEF CommitsRequest, TypeOK, Threads
    <3> QED
      BY <3>1, <3>5, <3>6, Zenon DEF AccountsKept
  <2> QED
    BY <2>1, <2>2, Zenon
<1>11. CASE SubmitAccepted(s)
  <2>1. /\ \A o \in States : pendingRAV'[o] \in {pendingRAV[o], NoMsg}
        /\ \A u \in Threads : pend'[u] \in {pend[u], NoMsg}
    BY <1>11, Zenon DEF SubmitAccepted, TypeOK
  <2>2. CommitsRequest'
    BY <1>0, <1>11, Zenon
       DEF SubmitAccepted, Goto, CommitsRequest, TypeOK, Threads
  <2> QED
    BY <1>0, <1>11, <2>1, <2>2 DEF SubmitAccepted, AccountsKept
<1>12. CASE Unbind(s)
  <2>1. CommitsRequest'
    BY <1>0, <1>12, Zenon DEF Unbind, Goto, CommitsRequest, TypeOK, Threads
  <2> QED
    BY <1>12, <2>1, AccountsUnchanged, Zenon DEF Unbind
<1> QED
  BY <1>1, <1>2, <1>3, <1>4, <1>5, <1>6, <1>7, <1>8, <1>9, <1>10, <1>11, <1>12, Zenon
     DEF StreamStep

\* A RAV stored by SubmitRAV pays for the usage of the snapshot it was checked
\* against, however old the snapshot is.
LEMMA SubmitRAVAccounts ==
  ASSUME TypeOK, AccountingInv, NEW u \in Unaries, SubmitRAVStep(u)
  PROVE  AccountsKept
<1> USE DEF memory, store, local, wire
<1>0. /\ u \in Threads /\ u \notin Streams
      /\ session \in Session /\ session.total \in Nat
      /\ PaidSession(session) /\ CommitsRequest
  BY ThreadsAssumption, Zenon DEF Threads, TypeOK, Session, AccountingInv
<1>1. CASE SubmitRAVRead(u)
  <2>1. \A t \in Threads : snap'[t] \in {snap[t], session}
    BY <1>1, Zenon DEF SubmitRAVRead, TypeOK
  <2>2. CommitsRequest'
    BY <1>0, <1>1, Zenon
       DEF SubmitRAVRead, Goto, CommitsRequest, TypeOK, Threads
  <2> QED
    BY <1>0, <1>1, <2>1, <2>2 DEF SubmitRAVRead, AccountsKept
<1>2. CASE SubmitRAVPendingCheck(u)
  <2>1. \A t \in Threads : snap'[t] \in {snap[t], NoSnapshot}
    BY <1>2, Zenon DEF SubmitRAVPendingCheck, SubmitRAVReturn, TypeOK
  <2>2. CommitsRequest'
    BY <1>0, <1>2, Zenon
       DEF SubmitRAVPendingCheck, SubmitRAVReturn, Goto, CommitsRequest,
           TypeOK, Threads
  <2> QED
    BY <1>0, <1>2, <2>1, <2>2 DEF SubmitRAVPendingCheck, AccountsKept
<1>3. CASE SubmitRAVStore(u)
  <2>1. \A t \in Threads : snap'[t] \in {snap[t], NoSnapshot}
    BY <1>3, Zenon DEF SubmitRAVStore, SubmitRAVReturn, TypeOK
  <2>2. CommitsRequest'
    BY <1>0, <1>3, Zenon
       DEF SubmitRAVStore, SubmitRAVReturn, Goto, CommitsRequest, TypeOK,
           Threads
  <2>3. PaidSession(session') /\ session'.total >= session.total
    <3>1. CASE session' = session
      BY <1>0, <3>1
    <3>2. ASSUME NEW v \in Values,
                 v >= snap[u].rav + UsageDeltaSinceBaseline(snap[u]),
                 session' = WithRAVAndBaseline(session, v, snap[u].total)
          PROVE  PaidSession(session') /\ session'.total >= session.total
      <4>1. /\ snap[u] \in Session /\ v \in Nat
            /\ snap[u].rav \in Nat /\ snap[u].total \in Nat /\ snap[u].base \in Nat
        BY <1>0, ValuesAssumption, Zenon DEF TypeOK, Session
      <4>2. PaidSession(snap[u]) /\ snap[u].total <= session.total
        BY <1>0, Zenon DEF AccountingInv, SnapshotsPaid
      <4>3. UsageDeltaSinceBaseline(snap[u]) = snap[u].total - snap[u].base
        BY <4>1, <4>2, UsageDelta, Zenon DEF PaidSession
      <4>4. v >= InitialRAV + snap[u].total
        BY <3>2, <4>1, <4>2, <4>3, ValuesAssumption DEF PaidSession, Covers
      <4>5. /\ session'.rav = v
            /\ session'.base = snap[u].total
            /\ session'.total = session.total
        BY <1>0, <3>2, Zenon DEF WithRAVAndBaseline, Session
      <4> QED
        BY <1>0, <4>2, <4>4, <4>5 DEF PaidSession, Covers
    <3> QED
      BY <1>3, <3>1, <3>2, Zenon DEF SubmitRAVStore
  <2> QED
    BY <1>3, <2>1, <2>2, <2>3, Zenon DEF SubmitRAVStore, AccountsKept
<1> QED
  BY <1>1, <1>2, <1>3, Zenon DEF SubmitRAVStep

\* So do reports, the consumer, settlement and a restart.
LEMMA OtherStepAccounts ==
  ASSUME TypeOK, AccountingInv
  PROVE  /\ \A m \in Meters : Report(m) => AccountsKept
         /\ \A s \in Streams :
              ConsumerAnswer(s) \/ ConsumerStray(s) => AccountsKept
         /\ (\/ MarkCollectionPending \/ MarkCollectionCollected
             \/ MarkCollectionRetryable) => AccountsKept
         /\ Restart => AccountsKept
<1> USE DEF memory, store, local, wire
<1>0. /\ session \in Session
      /\ session.total \in Nat /\ session.base \in Nat
      /\ PaidSession(session) /\ CommitsRequest
  BY Zenon DEF TypeOK, Session, AccountingInv
<1>1. ASSUME NEW m \in Meters, Report(m)
      PROVE  AccountsKept
  <2>1. PaidSession(session') /\ session'.total >= session.total
    <3>1. CASE session' = session
      BY <1>0, <3>1
    <3>2. ASSUME NEW c \in Costs, session' = AddUsage(session, c)
          PROVE  PaidSession(session') /\ session'.total >= session.total
      <4>1. /\ c \in Nat
            /\ session'.total = session.total + c
            /\ session'.base = session.base /\ session'.rav = session.rav
        BY <1>0, <3>2, ValuesAssumption, Zenon DEF AddUsage, Session
      <4> QED
        BY <1>0, <4>1 DEF PaidSession
    <3> QED
      BY <1>1, <3>1, <3>2, Zenon DEF Report
  <2>2. CommitsRequest'
    BY <1>0, <1>1, ThreadsAssumption, Zenon
       DEF Report, Goto, CommitsRequest, TypeOK, Threads
  <2> QED
    BY <1>1, <2>1, <2>2, Zenon DEF Report, AccountsKept
<1>2. ASSUME NEW s \in Streams, ConsumerAnswer(s) \/ ConsumerStray(s)
      PROVE  AccountsKept
  <2>1. CommitsRequest'
    BY <1>0, <1>2, Zenon DEF ConsumerAnswer, ConsumerStray, CommitsRequest
  <2> QED
    BY <1>2, <2>1, AccountsUnchanged, Zenon DEF ConsumerAnswer, ConsumerStray
<1>3. ASSUME \/ MarkCollectionPending \/ MarkCollectionCollected
             \/ MarkCollectionRetryable
      PROVE  AccountsKept
  <2>1. CommitsRequest'
    BY <1>0, <1>3, Zenon
       DEF MarkCollectionPending, MarkCollectionCollected,
           MarkCollectionRetryable, CommitsRequest
  <2> QED
    BY <1>3, <2>1, AccountsUnchanged, Zenon
       DEF MarkCollectionPending, MarkCollectionCollected,
           MarkCollectionRetryable
<1>4. ASSUME Restart
      PROVE  AccountsKept
  <2>1. CommitsRequest'
    BY <1>4, Zenon DEF Restart, CommitsRequest, Threads
  <2> QED
    BY <1>0, <1>4, <2>1 DEF Restart, AccountsKept
<1> QED
  BY <1>1, <1>2, <1>3, <1>4, Zenon

\* AccountingInv is inductive, relative to TypeOK.
LEMMA AccountingInductive ==
  TypeOK /\ AccountingInv /\ [Next]_vars => AccountingInv'
<1> SUFFICES ASSUME TypeOK, AccountingInv, [Next]_vars
             PROVE  AccountingInv'
  OBVIOUS
<1>1. TypeOK'
  BY TypeInductive, Zenon
<1>2. CASE Next
  <2>1. AccountsKept
    BY <1>2, EvalStepAccounts, StreamStepAccounts, SubmitRAVAccounts,
       OtherStepAccounts, Zenon DEF Next, Threads
  <2> QED
    BY <1>1, <2>1, AccountingFrame, Zenon
<1>3. CASE UNCHANGED vars
  BY <1>3, Zenon
     DEF vars, AccountingInv, PaidSession, SnapshotsPaid, RequestsPaid,
              CommitsRequest, PaidRequest
<1> QED
  BY <1>2, <1>3, Zenon

\* The initial session's RAV pays for no usage, and nothing is requested.
LEMMA AccountingInit ==
  Init => AccountingInv
<1> SUFFICES ASSUME Init
             PROVE  AccountingInv
  OBVIOUS
<1>1. PaidSession(session) /\ session.total = 0
  BY ValuesAssumption DEF Init, NewSession, PaidSession, Covers
<1>2. SnapshotsPaid
  BY <1>1, BlankPaid DEF Init, SnapshotsPaid
<1>3. RequestsPaid
  BY <1>1, BlankPaid DEF Init, RequestsPaid
<1>4. CommitsRequest
  BY Zenon DEF Init, CommitsRequest, Threads
<1> QED
  BY <1>1, <1>2, <1>3, <1>4, Zenon DEF AccountingInv

\* The inductive invariant holds in every state.
LEMMA AccountingInvariant ==
  Spec => [](TypeOK /\ AccountingInv)
<1>1. Init => TypeOK /\ AccountingInv
  BY TypeInit, AccountingInit, Zenon
<1>2. TypeOK /\ AccountingInv /\ [Next]_vars => TypeOK' /\ AccountingInv'
  BY TypeInductive, AccountingInductive, Zenon
<1> QED
  BY <1>1, <1>2, PTL DEF Spec

\* The provider never counts usage as paid that the stored RAV does not pay
\* for, whatever the threads, rebinds, restarts and failures.
THEOREM RAVAlwaysCoversBaseline ==
  Spec => []RAVCoversBaseline
<1>1. TypeOK /\ AccountingInv => RAVCoversBaseline
  BY Zenon DEF AccountingInv, PaidSession, Covers, RAVCoversBaseline
<1> QED
  BY <1>1, AccountingInvariant, PTL

\* Where PaymentSession is the only way to submit a RAV, the stored RAV is
\* worth exactly the initial one plus the usage counted as paid.
THEOREM AccountingIsExact ==
  Spec => []ExactAccounting
<1>1. TypeOK /\ AccountingInv => ExactAccounting
  BY Zenon DEF AccountingInv, PaidSession, Covers, ExactAccounting
<1> QED
  BY <1>1, AccountingInvariant, PTL

-----------------------------------------------------------------------------
(* Lifecycle.                                                               *)

\* No write reopens a terminated session: of the status a thread writes, and
\* of the session it writes back, only the stored status counts.
LEMMA TerminatedStep ==
  ASSUME TypeOK, [Next]_vars, session.status = "terminated"
  PROVE  session'.status = "terminated"
<1> USE DEF memory, store, local, wire
<1>0. session \in Session
  BY Zenon DEF TypeOK
<1>1. CASE session' = session
  BY <1>1, Zenon
<1>2. ASSUME NEW c, session' = AddUsage(session, c)
      PROVE  session'.status = "terminated"
  BY <1>0, <1>2, Zenon DEF AddUsage, Session
<1>3. ASSUME NEW st, session' = WithRuntimeState(session, st)
      PROVE  session'.status = "terminated"
  BY <1>3, Zenon DEF WithRuntimeState
<1>4. ASSUME NEW v, NEW b, session' = WithRAVAndBaseline(session, v, b)
      PROVE  session'.status = "terminated"
  BY <1>0, <1>4, Zenon DEF WithRAVAndBaseline, Session
<1>5. ASSUME NEW m \in Meters, Report(m)
      PROVE  session'.status = "terminated"
  BY <1>1, <1>2, <1>5, Zenon DEF Report
<1>6. ASSUME NEW t \in Streams \cup Meters, EvalStep(t)
      PROVE  session'.status = "terminated"
  <2>1. CASE EvalAssess(t)
    BY <1>3, <2>1, Zenon DEF EvalAssess
  <2>2. CASE ~EvalAssess(t)
    BY <1>1, <1>6, <2>2, Zenon
       DEF EvalStep, EvalEnsure, EvalRead, EvalFail, EvalClearPending,
           EvalCheck, Dispatch, DispatchSend, DispatchAck
  <2> QED
    BY <2>1, <2>2, Zenon
<1>7. ASSUME NEW s \in Streams, StreamStep(s)
      PROVE  session'.status = "terminated"
  <2>1. CASE SubmitCommit(s)
    BY <1>1, <1>4, <2>1, Zenon DEF SubmitCommit
  <2>2. CASE ~SubmitCommit(s)
    BY <1>1, <1>7, <2>2, Zenon
       DEF StreamStep, StreamOpen, Bind, BindDeliver, BindDelivered,
           StreamSend, StreamClose, StreamReceive, FundsAck, SubmitValidate,
           SubmitAccepted, Unbind
  <2> QED
    BY <2>1, <2>2, Zenon
<1>8. ASSUME NEW u \in Unaries, SubmitRAVStep(u)
      PROVE  session'.status = "terminated"
  BY <1>1, <1>4, <1>8, Zenon
     DEF SubmitRAVStep, SubmitRAVRead, SubmitRAVPendingCheck, SubmitRAVStore
<1>9. ASSUME NEW s \in Streams, ConsumerAnswer(s) \/ ConsumerStray(s)
      PROVE  session'.status = "terminated"
  BY <1>1, <1>9, Zenon DEF ConsumerAnswer, ConsumerStray
<1>10. CASE \/ MarkCollectionPending \/ MarkCollectionCollected
            \/ MarkCollectionRetryable \/ Restart
  BY <1>1, <1>10, Zenon
     DEF MarkCollectionPending, MarkCollectionCollected,
         MarkCollectionRetryable, Restart
<1>11. CASE UNCHANGED vars
  BY <1>1, <1>11, Zenon DEF vars
<1> QED
  BY <1>5, <1>6, <1>7, <1>8, <1>9, <1>10, <1>11, Zenon DEF Next

\* No write of any thread reopens a terminated session: every evaluation that
\* read the session while it was active may still be running.
THEOREM TerminatedStaysTerminated ==
  Spec => TerminatedIsFinal
<1>1. TypeOK /\ [Next]_vars
        => [session.status = "terminated" => session'.status = "terminated"]_vars
  BY TerminatedStep, Zenon
<1> QED
  BY <1>1, TypeCorrect, PTL DEF Spec, TerminatedIsFinal

-----------------------------------------------------------------------------
(* The evaluation lock.                                                     *)

\* A thread at these steps holds the evalMu of the object it works on.
Holding ==
  {"read", "assess", "clear", "check", "dispatch", "send", "ack", "commit",
   "accepted"}

\* withSessionEval: it works on an object, whose lock it holds or waits for.
Evaluating == Holding \cup {"lock"}

LockInv ==
  \A t \in Threads :
    /\ pc[t] \in Evaluating => ref[t] \in States
    /\ pc[t] \notin Evaluating => ref[t] = None
    /\ pc[t] \in Holding => evalMu[ref[t]] = t

\* What a step of thread t may do to the locks.
LockStep(t) ==
  /\ \A u \in Threads : u # t => pc'[u] = pc[u] /\ ref'[u] = ref[u]
  /\ \/ /\ ref'[t] = ref[t] /\ evalMu' = evalMu
        /\ pc'[t] \in Holding => pc[t] \in Holding
        /\ pc'[t] \in Evaluating <=> pc[t] \in Evaluating
     \/ /\ pc'[t] = "lock" /\ ref'[t] \in States /\ evalMu' = evalMu
     \/ /\ pc'[t] \in Evaluating
        /\ ref'[t] \in States /\ evalMu[ref'[t]] \in {None, t}
        /\ evalMu' = [evalMu EXCEPT ![ref'[t]] = t]
     \/ /\ pc'[t] \notin Evaluating /\ ref'[t] = None
        /\ ref[t] \in States /\ evalMu[ref[t]] \in {None, t}
        /\ evalMu' = [evalMu EXCEPT ![ref[t]] = None]

\* Such a step keeps the locks.
LEMMA LockFrame ==
  ASSUME TypeOK, LockInv, NEW t \in Threads, LockStep(t)
  PROVE  LockInv'
<1>0. None \notin Threads
  BY ThreadsAssumption, Zenon
<1>1. CASE /\ ref'[t] = ref[t] /\ evalMu' = evalMu
           /\ pc'[t] \in Holding => pc[t] \in Holding
           /\ pc'[t] \in Evaluating <=> pc[t] \in Evaluating
  BY <1>1, Zenon DEF LockInv, LockStep
<1>2. CASE /\ pc'[t] = "lock" /\ ref'[t] \in States /\ evalMu' = evalMu
  BY <1>2, Zenon DEF LockInv, LockStep, Holding, Evaluating
<1>3. CASE /\ pc'[t] \in Evaluating
           /\ ref'[t] \in States /\ evalMu[ref'[t]] \in {None, t}
           /\ evalMu' = [evalMu EXCEPT ![ref'[t]] = t]
  <2>1. evalMu'[ref'[t]] = t /\ \A o \in States : o # ref'[t] => evalMu'[o] = evalMu[o]
    BY <1>3, Zenon DEF TypeOK
  <2>2. ASSUME NEW u \in Threads, u # t, pc'[u] \in Holding
        PROVE  evalMu'[ref'[u]] = u
    <3>1. pc[u] \in Holding /\ ref'[u] = ref[u] /\ ref[u] \in States /\ evalMu[ref[u]] = u
      BY <2>2, Zenon DEF LockStep, LockInv, Evaluating
    <3> QED
      BY <1>0, <1>3, <2>1, <2>2, <3>1, Zenon
  <2> QED
    BY <1>3, <2>1, <2>2, Zenon DEF LockInv, LockStep
<1>4. CASE /\ pc'[t] \notin Evaluating /\ ref'[t] = None
           /\ ref[t] \in States /\ evalMu[ref[t]] \in {None, t}
           /\ evalMu' = [evalMu EXCEPT ![ref[t]] = None]
  <2>1. \A o \in States : o # ref[t] => evalMu'[o] = evalMu[o]
    BY <1>4, Zenon DEF TypeOK
  <2>2. ASSUME NEW u \in Threads, u # t, pc'[u] \in Holding
        PROVE  evalMu'[ref'[u]] = u
    <3>1. pc[u] \in Holding /\ ref'[u] = ref[u] /\ ref[u] \in States /\ evalMu[ref[u]] = u
      BY <2>2, Zenon DEF LockStep, LockInv, Evaluating
    <3> QED
      BY <1>0, <1>4, <2>1, <2>2, <3>1, Zenon
  <2>3. pc'[t] \notin Holding
    BY <1>4, Zenon DEF Evaluating
  <2> QED
    BY <1>4, <2>2, <2>3, Zenon DEF LockInv, LockStep
<1> QED
  BY <1>1, <1>2, <1>3, <1>4, Zenon DEF LockStep

\* withSessionEval's return gives the lock back.
LEMMA LeaveEvalLock ==
  ASSUME TypeOK, LockInv, NEW t \in Threads, NEW label, LeaveEval(t, label),
         label \notin Evaluating, CanEvaluate(t) \/ pc[t] \in Holding
  PROVE  LockStep(t)
<1>1. ref[t] \in States /\ evalMu[ref[t]] \in {None, t}
  BY Zenon DEF CanEvaluate, LockInv, Evaluating, Holding
<1>2. /\ \A u \in Threads : u # t => pc'[u] = pc[u] /\ ref'[u] = ref[u]
      /\ pc'[t] = label /\ ref'[t] = None
      /\ evalMu' = [evalMu EXCEPT ![ref[t]] = None]
  BY Zenon DEF LeaveEval, Goto, TypeOK
<1> QED
  BY <1>1, <1>2, Zenon DEF LockStep

\* A step that moves one thread and neither looks an object up nor locks one.
LEMMA GotoLock ==
  ASSUME TypeOK, NEW t \in Threads, NEW label, Goto(t, label),
         UNCHANGED <<ref, evalMu>>,
         label \in Holding => pc[t] \in Holding,
         label \in Evaluating <=> pc[t] \in Evaluating
  PROVE  LockStep(t)
BY Zenon DEF Goto, LockStep, TypeOK

\* The labels threads return to.
LEMMA LabelsOutside ==
  ASSUME TypeOK, NEW t \in Threads
  PROVE  /\ AfterEval(t) \notin Evaluating /\ AfterFailedEval(t) \notin Evaluating
         /\ AfterEval(t) # "lock" /\ AfterFailedEval(t) # "lock"
BY Zenon DEF AfterEval, AfterFailedEval, Evaluating, Holding, TypeOK

LEMMA EvalStepLock ==
  ASSUME TypeOK, LockInv, NEW t \in Threads, EvalStep(t)
  PROVE  LockStep(t)
<1> USE DEF memory, store, local, wire
<1>0. /\ AfterEval(t) \notin Evaluating /\ AfterFailedEval(t) \notin Evaluating
      /\ \A l \in {"assess", "clear", "check", "dispatch", "send", "ack"} :
           l \in Holding /\ l \in Evaluating
  BY LabelsOutside, Zenon DEF Holding, Evaluating
<1>1. CASE EvalEnsure(t)
  BY <1>1, Zenon DEF EvalEnsure, Goto, LockStep, TypeOK
<1>2. CASE EvalRead(t)
  <2>1. CASE LeaveEval(t, AfterEval(t))
    BY <1>0, <1>2, <2>1, LeaveEvalLock, Zenon DEF EvalRead
  <2>2. CASE ~LeaveEval(t, AfterEval(t))
    <3>1. ref[t] \in States /\ evalMu[ref[t]] \in {None, t}
      BY <1>2, Zenon DEF EvalRead, CanEvaluate, LockInv, Evaluating, Holding
    <3> QED
      BY <1>0, <1>2, <2>2, <3>1, Zenon DEF EvalRead, Goto, LockStep, TypeOK
  <2> QED
    BY <2>1, <2>2, Zenon
<1>3. CASE EvalFail(t)
  BY <1>0, <1>3, LeaveEvalLock, Zenon DEF EvalFail, Holding
<1>4. CASE EvalAssess(t)
  <2>0. pc[t] \in Holding /\ pc[t] \in Evaluating
    BY <1>4, Zenon DEF EvalAssess, Holding, Evaluating
  <2>1. CASE LeaveEval(t, AfterEval(t))
    BY <1>0, <2>0, <2>1, LeaveEvalLock, Zenon
  <2>2. CASE ~LeaveEval(t, AfterEval(t))
    BY <1>0, <1>4, <2>0, <2>2, GotoLock, Zenon DEF EvalAssess
  <2> QED
    BY <2>1, <2>2, Zenon
<1>5. CASE EvalClearPending(t)
  <2>0. pc[t] \in Holding /\ pc[t] \in Evaluating
    BY <1>5, Zenon DEF EvalClearPending, Holding, Evaluating
  <2> QED
    BY <1>0, <1>5, <2>0, GotoLock, Zenon DEF EvalClearPending
<1>6. CASE EvalCheck(t)
  <2>0. pc[t] \in Holding /\ pc[t] \in Evaluating
    BY <1>6, Zenon DEF EvalCheck, Holding, Evaluating
  <2>1. CASE LeaveEval(t, AfterEval(t))
    BY <1>0, <2>0, <2>1, LeaveEvalLock, Zenon
  <2>2. CASE ~LeaveEval(t, AfterEval(t))
    BY <1>0, <1>6, <2>0, <2>2, GotoLock, Zenon DEF EvalCheck
  <2> QED
    BY <2>1, <2>2, Zenon
<1>7. CASE Dispatch(t)
  <2>0. pc[t] \in Holding /\ pc[t] \in Evaluating
    BY <1>7, Zenon DEF Dispatch, Holding, Evaluating
  <2>1. CASE LeaveEval(t, AfterEval(t))
    BY <1>0, <2>0, <2>1, LeaveEvalLock, Zenon
  <2>2. CASE ~LeaveEval(t, AfterEval(t))
    BY <1>0, <1>7, <2>0, <2>2, GotoLock, Zenon DEF Dispatch
  <2> QED
    BY <2>1, <2>2, Zenon
<1>8. CASE DispatchSend(t)
  <2>0. pc[t] \in Holding /\ pc[t] \in Evaluating
    BY <1>8, Zenon DEF DispatchSend, Holding, Evaluating
  <2>1. CASE LeaveEval(t, AfterEval(t))
    BY <1>0, <2>0, <2>1, LeaveEvalLock, Zenon
  <2>2. CASE ~LeaveEval(t, AfterEval(t))
    BY <1>0, <1>8, <2>0, <2>2, GotoLock, Zenon DEF DispatchSend
  <2> QED
    BY <2>1, <2>2, Zenon
<1>9. CASE DispatchAck(t)
  <2>0. pc[t] \in Holding
    BY <1>9, Zenon DEF DispatchAck, Holding
  <2> QED
    BY <1>0, <1>9, <2>0, LeaveEvalLock, Zenon DEF DispatchAck
<1> QED
  BY <1>1, <1>2, <1>3, <1>4, <1>5, <1>6, <1>7, <1>8, <1>9, Zenon DEF EvalStep

LEMMA StreamStepLock ==
  ASSUME TypeOK, LockInv, NEW s \in Streams, StreamStep(s)
  PROVE  LockStep(s)
<1> USE DEF memory, store, local, wire
<1>0. /\ s \in Threads
      /\ \A l \in {"bind", "exit", "ensure", "deliver", "delivered", "loop",
                   "submit", "fundsack", "done"} :
           l \notin Holding /\ l \notin Evaluating
      /\ \A l \in {"read", "commit", "accepted"} : l \in Holding /\ l \in Evaluating
  BY Zenon DEF Threads, Holding, Evaluating
<1>1. CASE SubmitValidate(s)
  <2>0. pc[s] \notin Evaluating
    BY <1>0, <1>1, Zenon DEF SubmitValidate
  <2>1. PICK o \in States :
          /\ evalMu[o] = None
          /\ \/ /\ evalMu' = [evalMu EXCEPT ![o] = s]
                /\ ref' = [ref EXCEPT ![s] = o]
                /\ Goto(s, "commit")
             \/ Goto(s, "exit") /\ UNCHANGED <<evalMu, ref>>
    BY <1>1, Zenon DEF SubmitValidate, Return
  <2>2. CASE Goto(s, "exit") /\ UNCHANGED <<evalMu, ref>>
    BY <1>0, <2>0, <2>2, GotoLock, Zenon
  <2>3. CASE /\ evalMu' = [evalMu EXCEPT ![o] = s]
             /\ ref' = [ref EXCEPT ![s] = o]
             /\ Goto(s, "commit")
    BY <1>0, <2>1, <2>3, ZenonT(30) DEF Goto, LockStep, TypeOK
  <2> QED
    BY <2>1, <2>2, <2>3, Zenon
<1>2. CASE SubmitCommit(s)
  <2>0. pc[s] \in Holding /\ pc[s] \in Evaluating
    BY <1>2, Zenon DEF SubmitCommit, Holding, Evaluating
  <2>1. CASE LeaveEval(s, "exit")
    BY <1>0, <2>0, <2>1, LeaveEvalLock, Zenon
  <2>2. CASE ~LeaveEval(s, "exit")
    BY <1>0, <1>2, <2>0, <2>2, GotoLock, Zenon DEF SubmitCommit
  <2> QED
    BY <2>1, <2>2, Zenon
<1>3. CASE SubmitAccepted(s)
  <2>0. pc[s] \in Holding /\ pc[s] \in Evaluating
    BY <1>3, Zenon DEF SubmitAccepted, Holding, Evaluating
  <2> QED
    BY <1>0, <1>3, <2>0, GotoLock, Zenon DEF SubmitAccepted
<1>4. CASE StreamSend(s)
  <2>0. pc[s] \notin Evaluating
    BY <1>0, <1>4, Zenon DEF StreamSend
  <2>1. CASE Goto(s, "exit")
    BY <1>0, <1>4, <2>0, <2>1, GotoLock, Zenon DEF StreamSend
  <2>2. CASE pc' = pc
    BY <1>4, <2>2, Zenon DEF StreamSend, LockStep
  <2> QED
    BY <1>4, <2>1, <2>2, Zenon DEF StreamSend, Return
<1>5. CASE ~(\/ SubmitValidate(s) \/ SubmitCommit(s) \/ SubmitAccepted(s)
             \/ StreamSend(s))
  <2>1. UNCHANGED <<ref, evalMu>>
    BY <1>5, Zenon
       DEF StreamStep, StreamOpen, Bind, BindDeliver, BindDelivered,
           StreamClose, StreamReceive, FundsAck, Unbind
  <2>2. \E l \in {"bind", "exit", "ensure", "deliver", "delivered", "loop",
                  "submit", "fundsack", "done"} : Goto(s, l)
    BY <1>5, Zenon
       DEF StreamStep, StreamOpen, Bind, BindDeliver, BindDelivered,
           BindEvaluate, Return, StreamClose, StreamReceive, FundsAck, Unbind
  <2>3. pc[s] \notin Evaluating
    BY <1>5, Zenon
       DEF StreamStep, StreamOpen, Bind, BindDeliver, BindDelivered,
           StreamClose, StreamReceive, FundsAck, Unbind, Evaluating, Holding
  <2> QED
    BY <1>0, <2>1, <2>2, <2>3, GotoLock, Zenon
<1> QED
  BY <1>1, <1>2, <1>3, <1>4, <1>5, Zenon

\* LockInv is inductive, relative to TypeOK.
LEMMA LockInductive ==
  TypeOK /\ LockInv /\ [Next]_vars => LockInv'
<1> SUFFICES ASSUME TypeOK, LockInv, [Next]_vars
             PROVE  LockInv'
  OBVIOUS
<1> USE DEF memory, store, local, wire
<1>0. /\ Streams \subseteq Threads /\ Meters \subseteq Threads
      /\ Unaries \subseteq Threads
      /\ \A l \in {"ensure", "idle", "pendingcheck", "submitrav"} :
           l \notin Holding /\ l \notin Evaluating
  BY Zenon DEF Threads, Holding, Evaluating
<1>1. ASSUME NEW m \in Meters, Report(m)
      PROVE  LockInv'
  BY <1>0, <1>1, GotoLock, LockFrame, Zenon DEF Report
<1>2. ASSUME NEW t \in Streams \cup Meters, EvalStep(t)
      PROVE  LockInv'
  BY <1>0, <1>2, EvalStepLock, LockFrame, Zenon
<1>3. ASSUME NEW s \in Streams, StreamStep(s)
      PROVE  LockInv'
  BY <1>0, <1>3, StreamStepLock, LockFrame, Zenon
<1>4. ASSUME NEW u \in Unaries, SubmitRAVStep(u)
      PROVE  LockInv'
  <2>1. /\ UNCHANGED <<ref, evalMu>>
        /\ \E l \in {"idle", "pendingcheck", "submitrav"} : Goto(u, l)
    BY <1>4, Zenon DEF SubmitRAVStep, SubmitRAVRead, SubmitRAVPendingCheck,
                       SubmitRAVStore, SubmitRAVReturn
  <2>2. pc[u] \in {"idle", "pendingcheck", "submitrav"}
    BY <1>4, Zenon DEF SubmitRAVStep, SubmitRAVRead, SubmitRAVPendingCheck,
                       SubmitRAVStore
  <2> QED
    BY <1>0, <2>1, <2>2, GotoLock, LockFrame, Zenon
<1>5. CASE UNCHANGED <<pc, ref, evalMu>>
  BY <1>5, Zenon DEF LockInv
<1>6. CASE Restart
  BY <1>6, Zenon DEF Restart, LockInv, Holding, Evaluating
<1> QED
  BY <1>1, <1>2, <1>3, <1>4, <1>5, <1>6, Zenon
     DEF Next, vars, ConsumerAnswer, ConsumerStray, MarkCollectionPending,
         MarkCollectionCollected, MarkCollectionRetryable

-----------------------------------------------------------------------------
(* Control responses.  A response goes from the thread that made it through *)
(* the object's queue and another thread's delivery, or straight into a     *)
(* channel, and a need-more-funds response stops the stream it reaches.     *)

\* Where the responses of a step come from.
ResponsesKept ==
  /\ \A o \in States :
       queuedResponse'[o] \in {queuedResponse[o], NoMsg}
                                \cup {resp[t] : t \in Threads}
  /\ \A t \in Threads :
       \/ resp'[t] \in {resp[t], NoMsg} \cup {queuedResponse[o] : o \in States}
       \/ resp'[t] = NewRAVRequest(snap[t], t)
       \/ resp'[t] = NeedMoreFunds(t) /\ session'.status = "terminated"
  /\ \A s \in Streams : \A i \in 1..Len(chan'[s]) :
       \/ \E j \in 1..Len(chan[s]) : chan'[s][i] = chan[s][j]
       \/ \E t \in Threads : chan'[s][i] = resp[t]
  /\ \A s \in Streams :
       stop'[s] = "funds" =>
         \/ stop[s] = "funds"
         \/ \E j \in 1..Len(chan[s]) : chan[s][j].kind = "funds"

\* A return from withSessionEval drops the thread's response.
LEMMA LeaveEvalResponses ==
  ASSUME TypeOK, NEW t \in Threads, NEW label, LeaveEval(t, label)
  PROVE  \A u \in Threads : resp'[u] \in {resp[u], NoMsg}
BY Zenon DEF LeaveEval, TypeOK

\* A step that leaves the channels alone, and stops no stream for its funds.
LEMMA WireUnchanged ==
  ASSUME TypeOK, \A s \in Streams : chan'[s] = chan[s],
         \A s \in Streams : stop'[s] \in {stop[s]} \cup (StopReasons \ {"funds"})
  PROVE  /\ \A s \in Streams : \A i \in 1..Len(chan'[s]) :
              \/ \E j \in 1..Len(chan[s]) : chan'[s][i] = chan[s][j]
              \/ \E t \in Threads : chan'[s][i] = resp[t]
         /\ \A s \in Streams :
              stop'[s] = "funds" =>
                \/ stop[s] = "funds"
                \/ \E j \in 1..Len(chan[s]) : chan[s][j].kind = "funds"
BY Zenon

\* A response is appended to a channel.
LEMMA WireAppend ==
  ASSUME TypeOK, NEW c \in Streams, NEW t \in Threads,
         chan' = [chan EXCEPT ![c] = Append(chan[c], resp[t])]
  PROVE  \A s \in Streams : \A i \in 1..Len(chan'[s]) :
           \/ \E j \in 1..Len(chan[s]) : chan'[s][i] = chan[s][j]
           \/ \E u \in Threads : chan'[s][i] = resp[u]
<1> SUFFICES ASSUME NEW s \in Streams, NEW i \in 1..Len(chan'[s])
             PROVE  \/ \E j \in 1..Len(chan[s]) : chan'[s][i] = chan[s][j]
                    \/ \E u \in Threads : chan'[s][i] = resp[u]
  BY Zenon
<1>1. CASE s # c
  <2>1. chan'[s] = chan[s]
    BY <1>1, Zenon DEF TypeOK
  <2> QED
    BY <2>1, Zenon
<1>2. CASE s = c
  <2>1. chan'[s] = Append(chan[s], resp[t]) /\ chan[s] \in Seq(Msg) /\ resp[t] \in Msg
    BY <1>2, Zenon DEF TypeOK
  <2>2. \/ i \in 1..Len(chan[s]) /\ chan'[s][i] = chan[s][i]
        \/ chan'[s][i] = resp[t]
    BY <2>1
  <2> QED
    BY <2>2, Zenon
<1> QED
  BY <1>1, <1>2, Zenon

\* The steps of an evaluation.
LEMMA EvalStepResponses ==
  ASSUME TypeOK, NEW t \in Threads, EvalStep(t)
  PROVE  ResponsesKept
<1> USE DEF memory, store, local, wire
<1>1. CASE EvalAssess(t)
  <2>1. PICK insufficient \in FundsInsufficient(snap[t]) :
          /\ session' = WithRuntimeState(session,
                          IF insufficient THEN "terminated" ELSE snap[t].status)
          /\ \/ insufficient /\ resp' = [resp EXCEPT ![t] = NeedMoreFunds(t)]
             \/ resp' = resp
             \/ LeaveEval(t, AfterEval(t))
    BY <1>1, Zenon DEF EvalAssess
  <2>2. \A u \in Threads :
          \/ resp'[u] \in {resp[u], NoMsg}
          \/ resp'[u] = NeedMoreFunds(u) /\ insufficient
    BY <2>1, LeaveEvalResponses, Zenon DEF TypeOK
  <2>3. insufficient => session'.status = "terminated"
    BY <2>1, Zenon DEF WithRuntimeState, TypeOK, Session
  <2>4. UNCHANGED <<queuedResponse, chan, stop>>
    BY <1>1, Zenon DEF EvalAssess
  <2> QED
    BY <2>2, <2>3, <2>4, WireUnchanged, Zenon DEF ResponsesKept
<1>2. CASE EvalCheck(t)
  <2>1. \A u \in Threads :
          resp'[u] \in {resp[u], NoMsg} \/ resp'[u] = NewRAVRequest(snap[u], u)
    <3>1. CASE LeaveEval(t, AfterEval(t))
      BY <3>1, LeaveEvalResponses, Zenon
    <3>2. CASE resp' = [resp EXCEPT ![t] = NewRAVRequest(snap[t], t)]
      BY <3>2, Zenon DEF TypeOK
    <3> QED
      BY <1>2, <3>1, <3>2, Zenon DEF EvalCheck
  <2>2. UNCHANGED <<queuedResponse, chan, stop>>
    BY <1>2, Zenon DEF EvalCheck
  <2> QED
    BY <2>1, <2>2, WireUnchanged, Zenon DEF ResponsesKept
<1>3. CASE Dispatch(t)
  <2>1. \A u \in Threads : resp'[u] \in {resp[u], NoMsg}
    BY <1>3, LeaveEvalResponses, Zenon DEF Dispatch
  <2>2. \A o \in States : queuedResponse'[o] \in {queuedResponse[o], resp[t]}
    BY <1>3, Zenon DEF Dispatch, TypeOK
  <2>3. UNCHANGED <<chan, stop>>
    BY <1>3, Zenon DEF Dispatch
  <2> QED
    BY <2>1, <2>2, <2>3, WireUnchanged, Zenon DEF ResponsesKept
<1>4. CASE DispatchSend(t)
  <2>1. \A u \in Threads : resp'[u] \in {resp[u], NoMsg}
    BY <1>4, LeaveEvalResponses, Zenon DEF DispatchSend
  <2>2. UNCHANGED <<queuedResponse, stop>>
    BY <1>4, Zenon DEF DispatchSend
  <2>3. CASE chan' = [chan EXCEPT ![to[t]] = Append(@, resp[t])]
    <3>1. CASE to[t] \in Streams
      BY <2>1, <2>2, <2>3, <3>1, WireAppend, Zenon DEF ResponsesKept
    <3>2. CASE to[t] \notin Streams
      <4>1. \A s \in Streams : chan'[s] = chan[s]
        BY <2>3, <3>2, Zenon DEF TypeOK
      <4> QED
        BY <2>1, <2>2, <4>1, WireUnchanged, Zenon DEF ResponsesKept
    <3> QED
      BY <3>1, <3>2, Zenon
  <2>4. CASE chan' = chan
    BY <2>1, <2>2, <2>4, WireUnchanged, Zenon DEF ResponsesKept
  <2> QED
    BY <1>4, <2>3, <2>4, Zenon DEF DispatchSend
<1>5. CASE DispatchAck(t)
  <2>1. \A u \in Threads : resp'[u] \in {resp[u], NoMsg}
    BY <1>5, LeaveEvalResponses, Zenon DEF DispatchAck
  <2>2. \A o \in States : queuedResponse'[o] \in {queuedResponse[o], NoMsg}
    BY <1>5, Zenon DEF DispatchAck, ClearQueuedResponse, TypeOK
  <2>3. UNCHANGED <<chan, stop>>
    BY <1>5, Zenon DEF DispatchAck
  <2> QED
    BY <2>1, <2>2, <2>3, WireUnchanged, Zenon DEF ResponsesKept
<1>6. CASE EvalEnsure(t) \/ EvalRead(t) \/ EvalFail(t) \/ EvalClearPending(t)
  <2>1. UNCHANGED <<queuedResponse, chan, stop>>
    BY <1>6, Zenon DEF EvalEnsure, EvalRead, EvalFail, EvalClearPending
  <2>2. \A u \in Threads : resp'[u] \in {resp[u], NoMsg}
    BY <1>6, LeaveEvalResponses, Zenon
       DEF EvalEnsure, EvalRead, EvalFail, EvalClearPending
  <2> QED
    BY <2>1, <2>2, WireUnchanged, Zenon DEF ResponsesKept
<1> QED
  BY <1>1, <1>2, <1>3, <1>4, <1>5, <1>6, Zenon DEF EvalStep

\* The steps of a stream's handler.
LEMMA StreamStepResponses ==
  ASSUME TypeOK, NEW s \in Streams, StreamStep(s)
  PROVE  ResponsesKept
<1> USE DEF memory, store, local, wire
<1>0. s \in Threads
  BY Zenon DEF Threads
<1>1. CASE Bind(s)
  <2>1. PICK o \in States :
          \/ resp' = resp
          \/ resp' = [resp EXCEPT ![s] = queuedResponse[o]]
    BY <1>1, Zenon DEF Bind
  <2>2. \A t \in Threads : resp'[t] \in {resp[t], queuedResponse[o]}
    BY <2>1, Zenon DEF TypeOK
  <2>3. UNCHANGED <<queuedResponse, chan>>
    BY <1>1, Zenon DEF Bind
  <2>4. \A c \in Streams : stop'[c] \in {stop[c], "bound"}
    BY <1>1, Zenon DEF Bind, Return, TypeOK
  <2> QED
    BY <2>2, <2>3, <2>4, WireUnchanged, Zenon DEF ResponsesKept, StopReasons
<1>2. CASE BindDeliver(s)
  <2>1. \A t \in Threads : resp'[t] \in {resp[t], NoMsg}
    BY <1>2, Zenon DEF BindDeliver, BindEvaluate, TypeOK
  <2>2. UNCHANGED <<queuedResponse, stop>>
    BY <1>2, Zenon DEF BindDeliver
  <2>3. CASE chan' = [chan EXCEPT ![s] = Append(@, resp[s])]
    BY <1>0, <2>1, <2>2, <2>3, WireAppend, Zenon DEF ResponsesKept
  <2>4. CASE chan' = chan
    BY <2>1, <2>2, <2>4, WireUnchanged, Zenon DEF ResponsesKept
  <2> QED
    BY <1>2, <2>3, <2>4, Zenon DEF BindDeliver
<1>3. CASE BindDelivered(s)
  <2>1. \A t \in Threads : resp'[t] \in {resp[t], NoMsg}
    BY <1>3, Zenon DEF BindDelivered, BindEvaluate, TypeOK
  <2>2. \A o \in States : queuedResponse'[o] \in {queuedResponse[o], NoMsg}
    BY <1>3, Zenon DEF BindDelivered, ClearQueuedResponse, TypeOK
  <2>3. UNCHANGED <<chan, stop>>
    BY <1>3, Zenon DEF BindDelivered
  <2> QED
    BY <2>1, <2>2, <2>3, WireUnchanged, Zenon DEF ResponsesKept
<1>4. CASE StreamSend(s)
  <2>1. UNCHANGED <<queuedResponse, resp>>
    BY <1>4, Zenon DEF StreamSend
  <2>2. chan[s] \in Seq(Msg) /\ chan[s] # <<>> /\ chan'[s] = Tail(chan[s])
    BY <1>4, Zenon DEF StreamSend, TypeOK
  <2>3. \A c \in Streams : \A i \in 1..Len(chan'[c]) :
          \E j \in 1..Len(chan[c]) : chan'[c][i] = chan[c][j]
    <3>1. ASSUME NEW i \in 1..Len(chan'[s])
          PROVE  i + 1 \in 1..Len(chan[s]) /\ chan'[s][i] = chan[s][i + 1]
      BY <2>2
    <3>2. \A c \in Streams : c # s => chan'[c] = chan[c]
      BY <1>4, Zenon DEF StreamSend, TypeOK
    <3> QED
      BY <3>1, <3>2, Zenon
  <2>4. 1 \in 1..Len(chan[s]) /\ Head(chan[s]) = chan[s][1]
    BY <2>2
  <2>5. \A c \in Streams :
          stop'[c] = "funds" =>
            \/ stop[c] = "funds"
            \/ \E j \in 1..Len(chan[c]) : chan[c][j].kind = "funds"
    <3>1. \A c \in Streams : c # s => stop'[c] = stop[c]
      BY <1>4, Zenon DEF StreamSend, Return, TypeOK
    <3>2. stop'[s] = "funds" => stop[s] = "funds" \/ chan[s][1].kind = "funds"
      BY <1>4, <2>4, Zenon DEF StreamSend, Return, TypeOK
    <3> QED
      BY <2>4, <3>1, <3>2, Zenon
  <2> QED
    BY <2>1, <2>3, <2>5, Zenon DEF ResponsesKept
<1>5. CASE Unbind(s)
  <2>1. UNCHANGED <<queuedResponse, resp, stop>>
    BY <1>5, Zenon DEF Unbind
  <2>2. \A c \in Streams : \A i \in 1..Len(chan'[c]) :
          \E j \in 1..Len(chan[c]) : chan'[c][i] = chan[c][j]
    <3>1. Len(chan'[s]) = 0
      BY <1>5 DEF Unbind, TypeOK
    <3>2. \A c \in Streams : c # s => chan'[c] = chan[c]
      BY <1>5, Zenon DEF Unbind, TypeOK
    <3>3. ASSUME NEW i \in 1..Len(chan'[s])
          PROVE  FALSE
      BY <3>1
    <3> QED
      BY <3>2, <3>3, Zenon
  <2> QED
    BY <2>1, <2>2, Zenon DEF ResponsesKept
<1>6. CASE FundsAck(s) \/ SubmitAccepted(s)
  <2>1. \A o \in States : queuedResponse'[o] \in {queuedResponse[o], NoMsg}
    BY <1>6, Zenon DEF FundsAck, SubmitAccepted, TypeOK
  <2>2. resp' = resp /\ chan' = chan
    BY <1>6, Zenon DEF FundsAck, SubmitAccepted
  <2>3. \A c \in Streams : stop'[c] \in {stop[c], "nodeposit"}
    BY <1>6, Zenon DEF FundsAck, SubmitAccepted, Return, TypeOK
  <2> QED
    BY <2>1, <2>2, <2>3, WireUnchanged, Zenon DEF ResponsesKept, StopReasons
<1>7. CASE \/ StreamOpen(s) \/ StreamClose(s) \/ StreamReceive(s)
           \/ SubmitValidate(s) \/ SubmitCommit(s)
  <2>1. queuedResponse' = queuedResponse /\ chan' = chan
    BY <1>7, Zenon DEF StreamOpen, StreamClose, StreamReceive, SubmitValidate,
                       SubmitCommit
  <2>2. \A t \in Threads : resp'[t] \in {resp[t], NoMsg}
    BY <1>0, <1>7, LeaveEvalResponses, Zenon
       DEF StreamOpen, StreamClose, StreamReceive, SubmitValidate, SubmitCommit
  <2>3. \A c \in Streams :
          stop'[c] \in {stop[c], "inactive", "error", "closed", "rejected",
                        "commit"}
    BY <1>7, Zenon
       DEF StreamOpen, StreamClose, StreamReceive, SubmitValidate,
           SubmitCommit, Return, TypeOK
  <2> QED
    BY <2>1, <2>2, <2>3, WireUnchanged, Zenon DEF ResponsesKept, StopReasons
<1> QED
  BY <1>1, <1>2, <1>3, <1>4, <1>5, <1>6, <1>7, Zenon DEF StreamStep

\* Every step moves responses this way.
LEMMA NextResponses ==
  ASSUME TypeOK, [Next]_vars
  PROVE  ResponsesKept
<1> USE DEF memory, store, local, wire
<1>1. ASSUME NEW t \in Streams \cup Meters, EvalStep(t)
      PROVE  ResponsesKept
  BY <1>1, EvalStepResponses, Zenon DEF Threads
<1>2. ASSUME NEW s \in Streams, StreamStep(s)
      PROVE  ResponsesKept
  BY <1>2, StreamStepResponses, Zenon
<1>3. CASE UNCHANGED <<queuedResponse, resp, chan, stop>>
  BY <1>3, WireUnchanged, Zenon DEF ResponsesKept
<1>4. CASE Restart
  <2>1. \A s \in Streams : Len(chan'[s]) = 0
    BY <1>4 DEF Restart
  <2>2. ASSUME NEW s \in Streams, NEW i \in 1..Len(chan'[s])
        PROVE  FALSE
    BY <2>1
  <2>3. /\ \A o \in States : queuedResponse'[o] = NoMsg
        /\ \A t \in Threads : resp'[t] = NoMsg
        /\ \A s \in Streams : stop'[s] \in {stop[s], "restart"}
    BY <1>4, Zenon DEF Restart
  <2> QED
    BY <2>2, <2>3, Zenon DEF ResponsesKept
<1> QED
  BY <1>1, <1>2, <1>3, <1>4, Zenon
     DEF Next, vars, Report, ConsumerAnswer, ConsumerStray, SubmitRAVStep,
         SubmitRAVRead, SubmitRAVPendingCheck, SubmitRAVStore,
         MarkCollectionPending, MarkCollectionCollected,
         MarkCollectionRetryable

\* A need-more-funds response is always about a session that has ended.
THEOREM FundsStopAlwaysAfterTermination ==
  Spec => []FundsStopOnlyAfterTermination
<1>1. Init => FundsStopOnlyAfterTermination
  <2> SUFFICES ASSUME Init
               PROVE  FundsStopOnlyAfterTermination
    OBVIOUS
  <2>1. \A s \in Streams : Len(chan[s]) = 0
    BY DEF Init
  <2>2. ASSUME NEW s \in Streams, NEW i \in 1..Len(chan[s])
        PROVE  FALSE
    BY <2>1
  <2> QED
    BY <2>2, Zenon DEF Init, NoMsg, FundsStopOnlyAfterTermination
<1>2. TypeOK /\ FundsStopOnlyAfterTermination /\ [Next]_vars
        => FundsStopOnlyAfterTermination'
  <2> SUFFICES ASSUME TypeOK, FundsStopOnlyAfterTermination, [Next]_vars,
                      session'.status # "terminated"
               PROVE  FundsStopOnlyAfterTermination'
    BY Zenon DEF FundsStopOnlyAfterTermination
  <2>1. ResponsesKept
    BY NextResponses, Zenon
  <2>2. session.status # "terminated"
    BY TerminatedStep, Zenon
  <2>3. /\ \A o \in States : queuedResponse[o].kind # "funds"
        /\ \A t \in Threads : resp[t].kind # "funds"
        /\ \A s \in Streams :
             /\ stop[s] # "funds"
             /\ \A i \in 1..Len(chan[s]) : chan[s][i].kind # "funds"
    BY <2>2, Zenon DEF FundsStopOnlyAfterTermination
  <2>4. /\ NoMsg.kind # "funds"
        /\ \A t \in Threads : NewRAVRequest(snap[t], t).kind # "funds"
    BY Zenon DEF NoMsg, NewRAVRequest
  <2>5. \A o \in States : queuedResponse'[o].kind # "funds"
    BY <2>1, <2>3, <2>4 DEF ResponsesKept
  <2>6. \A t \in Threads : resp'[t].kind # "funds"
    BY <2>1, <2>3, <2>4 DEF ResponsesKept
  <2>7. \A s \in Streams : \A i \in 1..Len(chan'[s]) : chan'[s][i].kind # "funds"
    BY <2>1, <2>3 DEF ResponsesKept
  <2>8. \A s \in Streams : stop'[s] # "funds"
    BY <2>1, <2>3, Zenon DEF ResponsesKept
  <2> QED
    BY <2>5, <2>6, <2>7, <2>8, Zenon DEF FundsStopOnlyAfterTermination
<1> QED
  BY <1>1, <1>2, TypeCorrect, PTL DEF Spec

-----------------------------------------------------------------------------
(* Bound streams and deleted states.  Neither BoundStreamOwnsLiveState nor  *)
(* NoControlStateOrphaned is inductive alone: a stream keeps its state in   *)
(* the map because the states outside it bind no stream, and deletion tests *)
(* the kind of what a state holds.                                          *)

\* A message of no kind is the blank one.
Blank(m) == m.kind = "none" => m = NoMsg

BlankMessages ==
  /\ \A o \in States : Blank(pendingRAV[o]) /\ Blank(queuedResponse[o])
  /\ \A t \in Threads : Blank(pend[t]) /\ Blank(resp[t])

ControlInv ==
  /\ BlankMessages
  /\ NoControlStateOrphaned
  /\ BoundStreamOwnsLiveState

\* Every message comes from another one, is a request or a need-more-funds
\* response.
LEMMA BlankStep ==
  ASSUME BlankMessages, ResponsesKept, AccountsKept
  PROVE  BlankMessages'
<1>0. /\ Blank(NoMsg)
      /\ \A t \in Threads :
           Blank(NewRAVRequest(snap[t], t)) /\ Blank(NeedMoreFunds(t))
  BY DEF Blank, NoMsg, NewRAVRequest, NeedMoreFunds
<1>1. \A o \in States : Blank(queuedResponse'[o])
  BY <1>0, Zenon DEF BlankMessages, ResponsesKept
<1>2. \A t \in Threads : Blank(resp'[t])
  BY <1>0, Zenon DEF BlankMessages, ResponsesKept
<1>3. \A o \in States : Blank(pendingRAV'[o])
  BY <1>0, Zenon DEF BlankMessages, AccountsKept
<1>4. \A t \in Threads : Blank(pend'[t])
  BY <1>0, Zenon DEF BlankMessages, AccountsKept
<1> QED
  BY <1>1, <1>2, <1>3, <1>4, Zenon DEF BlankMessages, Blank

\* What a step of thread t that neither binds nor unbinds may do: control
\* state is written in the map's object only, which is created where there
\* is none.
ControlStep(t) ==
  /\ \A u \in Threads : u # t => pc'[u] = pc[u] /\ ref'[u] = ref[u]
  /\ live' = live \/ (live = None /\ live' \in States)
  /\ events' = events
  /\ \A o \in States \ {live'} :
       /\ pendingRAV'[o] \in {pendingRAV[o], NoMsg}
       /\ queuedResponse'[o] \in {queuedResponse[o], NoMsg}
  /\ t \in Streams /\ Bound(t)' =>
       Bound(t) /\ ref'[t] \in {None, ref[t], live'}

LEMMA ControlFrame ==
  ASSUME TypeOK, NoControlStateOrphaned, BoundStreamOwnsLiveState,
         NEW t \in Threads, ControlStep(t)
  PROVE  NoControlStateOrphaned' /\ BoundStreamOwnsLiveState'
<1>0. None \notin States /\ Streams \subseteq Threads
  BY ThreadsAssumption, Zenon DEF Threads
<1>1. ASSUME NEW o \in States \ {live'}
      PROVE  /\ events'[o] = None /\ pendingRAV'[o] = NoMsg
             /\ queuedResponse'[o] = NoMsg
  <2>1. o \in States \ {live}
    BY <1>0, <1>1, Zenon DEF ControlStep
  <2> QED
    BY <1>1, <2>1, Zenon DEF ControlStep, NoControlStateOrphaned
<1>2. ASSUME NEW s \in Streams, Bound(s)'
      PROVE  live' # None /\ events'[live'] = s /\ ref'[s] \in {None, live'}
  <2>1. Bound(s) /\ ref'[s] \in {None, ref[s], live'}
    BY <1>0, <1>2, Zenon DEF ControlStep, Bound
  <2>2. live # None /\ events[live] = s /\ ref[s] \in {None, live}
    BY <2>1, Zenon DEF BoundStreamOwnsLiveState
  <2> QED
    BY <2>1, <2>2, Zenon DEF ControlStep
<1> QED
  BY <1>1, <1>2, Zenon DEF NoControlStateOrphaned, BoundStreamOwnsLiveState, Bound

\* A thread returns from withSessionEval, or goes on.
LEMMA ControlMoves ==
  ASSUME TypeOK, NEW t \in Threads, NEW label,
         \/ LeaveEval(t, label)
         \/ Goto(t, label) /\ ref' = ref,
         t \in Streams => Bound(t)
  PROVE  /\ \A u \in Threads : u # t => pc'[u] = pc[u] /\ ref'[u] = ref[u]
         /\ t \in Streams /\ Bound(t)' =>
              Bound(t) /\ ref'[t] \in {None, ref[t], live'}
<1>1. CASE LeaveEval(t, label)
  BY <1>1, Zenon DEF LeaveEval, Goto, TypeOK
<1>2. CASE Goto(t, label) /\ ref' = ref
  BY <1>2, Zenon DEF Goto, TypeOK
<1> QED
  BY <1>1, <1>2, Zenon

\* The steps of an evaluation write control state in the map's object only.
LEMMA EvalStepControl ==
  ASSUME TypeOK, NEW t \in Threads, EvalStep(t)
  PROVE  ControlStep(t)
<1> USE DEF memory, store, local, wire
<1>0. Bound(t)
  BY Zenon DEF Bound, EvalStep, EvalEnsure, EvalRead, EvalFail, CanEvaluate,
               EvalAssess, EvalClearPending, EvalCheck, Dispatch, DispatchSend,
               DispatchAck
<1>1. CASE EvalEnsure(t)
  BY <1>0, <1>1, Zenon DEF EvalEnsure, EnsureSessionState, Goto, ControlStep, TypeOK
<1>2. CASE Dispatch(t)
  <2>1. PICK o \in States :
          /\ EnsureSessionState(o)
          /\ queuedResponse' = [queuedResponse EXCEPT ![o] = resp[t]]
          /\ pendingRAV' = [pendingRAV EXCEPT ![o] = pend[t]]
    BY <1>2, Zenon DEF Dispatch
  <2>2. /\ live' = live \/ (live = None /\ live' \in States)
        /\ \A a \in States \ {live'} :
             pendingRAV'[a] = pendingRAV[a] /\ queuedResponse'[a] = queuedResponse[a]
    BY <2>1, Zenon DEF EnsureSessionState, TypeOK
  <2>3. events' = events
    BY <1>2, Zenon DEF Dispatch
  <2>4. \/ LeaveEval(t, AfterEval(t))
        \/ Goto(t, "send") /\ ref' = ref
    BY <1>2, Zenon DEF Dispatch
  <2> QED
    BY <1>0, <2>2, <2>3, <2>4, ControlMoves, Zenon DEF ControlStep
<1>3. CASE EvalClearPending(t) \/ DispatchAck(t)
  <2>1. /\ live' = live /\ events' = events
        /\ \A o \in States \ {live'} :
             /\ pendingRAV'[o] = pendingRAV[o]
             /\ queuedResponse'[o] = queuedResponse[o]
    BY <1>3, Zenon DEF EvalClearPending, DispatchAck, ClearQueuedResponse, TypeOK
  <2>2. \/ LeaveEval(t, AfterEval(t))
        \/ Goto(t, "dispatch") /\ ref' = ref
    BY <1>3, Zenon DEF EvalClearPending, DispatchAck
  <2> QED
    BY <1>0, <2>1, <2>2, ControlMoves, Zenon DEF ControlStep
<1>4. CASE EvalRead(t) \/ EvalFail(t) \/ EvalAssess(t) \/ EvalCheck(t) \/ DispatchSend(t)
  <2>1. UNCHANGED <<live, events, pendingRAV, queuedResponse>>
    BY <1>4, Zenon DEF EvalRead, EvalFail, EvalAssess, EvalCheck, DispatchSend
  <2>2. \E label \in {"assess", "clear", "check", "dispatch", "ack", AfterEval(t),
                      AfterFailedEval(t)} :
          LeaveEval(t, label) \/ (Goto(t, label) /\ ref' = ref)
    BY <1>4, Zenon DEF EvalRead, EvalFail, EvalAssess, EvalCheck, DispatchSend
  <2> QED
    BY <1>0, <2>1, <2>2, ControlMoves, Zenon DEF ControlStep
<1> QED
  BY <1>1, <1>2, <1>3, <1>4, Zenon DEF EvalStep

\* The steps of a stream.
LEMMA StreamStepControl ==
  ASSUME TypeOK, LockInv, ControlInv, NEW s \in Streams, StreamStep(s)
  PROVE  NoControlStateOrphaned' /\ BoundStreamOwnsLiveState'
<1> USE DEF memory, store, local, wire
<1>0. /\ s \in Threads /\ Streams \subseteq Threads
      /\ None \notin States /\ None \notin Streams
      /\ NoControlStateOrphaned /\ BoundStreamOwnsLiveState
  BY ThreadsAssumption, Zenon DEF Threads, ControlInv
<1>1. CASE Bind(s)
  <2>1. PICK o \in States :
          /\ EnsureSessionState(o)
          /\ \/ /\ Return(s, "bound")
                /\ UNCHANGED <<events, pendingRAV>>
             \/ /\ events[o] = None
                /\ events' = [events EXCEPT ![o] = s]
                /\ pendingRAV' = IF queuedResponse[o].kind = "none"
                                 THEN [pendingRAV EXCEPT ![o] = NoMsg]
                                 ELSE pendingRAV
    BY <1>1, Zenon DEF Bind
  <2>2. UNCHANGED <<queuedResponse, ref>> /\ \A u \in Threads : u # s => pc'[u] = pc[u]
    BY <1>1, Zenon DEF Bind, Return, Goto, TypeOK
  <2>3. CASE Return(s, "bound") /\ UNCHANGED <<events, pendingRAV>>
    <3>1. ControlStep(s)
      BY <1>0, <2>1, <2>2, <2>3, Zenon
         DEF ControlStep, EnsureSessionState, Return, Goto, Bound, TypeOK
    <3> QED
      BY <1>0, <3>1, ControlFrame, Zenon
  <2>4. CASE /\ events[o] = None
             /\ events' = [events EXCEPT ![o] = s]
             /\ pendingRAV' = IF queuedResponse[o].kind = "none"
                              THEN [pendingRAV EXCEPT ![o] = NoMsg]
                              ELSE pendingRAV
    <3>1. live' = o /\ (live = o \/ live = None)
      BY <2>1, Zenon DEF EnsureSessionState
    <3>2. NoControlStateOrphaned'
      <4>1. ASSUME NEW a \in States \ {live'}
            PROVE  events'[a] = None /\ pendingRAV'[a] = NoMsg /\ queuedResponse'[a] = NoMsg
        <5>1. /\ a # o /\ a \in States \ {live}
              /\ events'[a] = events[a] /\ pendingRAV'[a] = pendingRAV[a]
          BY <1>0, <2>4, <3>1, <4>1, Zenon DEF TypeOK
        <5> QED
          BY <1>0, <2>2, <5>1, Zenon DEF NoControlStateOrphaned
      <4> QED
        BY <4>1, Zenon DEF NoControlStateOrphaned
    <3>3. \A u \in Streams : ~Bound(u)
      BY <1>0, <2>4, <3>1, Zenon DEF BoundStreamOwnsLiveState
    <3>4. \A u \in Streams : Bound(u)' => u = s
      BY <1>0, <2>2, <3>3, Zenon DEF Bound
    <3>5. events'[o] = s
      BY <2>4, Zenon DEF TypeOK
    <3>6. ref'[s] = None
      BY <1>0, <1>1, <2>2, Zenon DEF Bind, LockInv, Evaluating, Holding
    <3> QED
      BY <1>0, <3>1, <3>2, <3>4, <3>5, <3>6, Zenon DEF BoundStreamOwnsLiveState, Bound
  <2> QED
    BY <2>1, <2>3, <2>4, Zenon
<1>2. CASE Unbind(s)
  <2>1. /\ UNCHANGED <<pendingRAV, queuedResponse, ref>>
        /\ \A u \in Threads : u # s => pc'[u] = pc[u]
        /\ pc'[s] = "done"
    BY <1>0, <1>2, Zenon DEF Unbind, Goto, TypeOK
  <2>2. CASE live # None /\ events[live] = s
    <3>1. /\ live \in States
          /\ events' = [events EXCEPT ![live] = None]
          /\ live' = IF /\ pendingRAV[live].kind = "none"
                        /\ queuedResponse[live].kind = "none"
                     THEN None ELSE live
      BY <1>2, <2>2, Zenon DEF Unbind, CleanupSessionState, TypeOK
    <3>2. live' = None => pendingRAV[live] = NoMsg /\ queuedResponse[live] = NoMsg
      BY <2>2, <3>1, Zenon DEF ControlInv, BlankMessages, Blank
    <3>3. events'[live] = None /\ \A o \in States : o # live => events'[o] = events[o]
      BY <3>1, Zenon DEF TypeOK
    <3>4. live' = None \/ live' = live
      BY <3>1, Zenon
    <3>5. NoControlStateOrphaned'
      BY <1>0, <2>1, <3>2, <3>3, <3>4, Zenon DEF NoControlStateOrphaned
    <3>6. \A u \in Streams : Bound(u) => u = s
      BY <1>0, <2>2, Zenon DEF BoundStreamOwnsLiveState
    <3>7. \A u \in Streams : ~Bound(u)'
      BY <1>0, <2>1, <3>6, Zenon DEF Bound
    <3> QED
      BY <3>5, <3>7, Zenon DEF BoundStreamOwnsLiveState, Bound
  <2>3. CASE ~(live # None /\ events[live] = s)
    <3>1. UNCHANGED <<live, events>>
      BY <1>2, <2>3, Zenon DEF Unbind, CleanupSessionState
    <3>2. ControlStep(s)
      BY <1>0, <2>1, <3>1, Zenon DEF ControlStep, Bound
    <3> QED
      BY <1>0, <3>2, ControlFrame, Zenon
  <2> QED
    BY <2>2, <2>3, Zenon
<1>3. CASE FundsAck(s)
  <2>1. Bound(s)
    BY <1>3, Zenon DEF FundsAck, Bound
  <2>2. live # None /\ events[live] = s
    BY <1>0, <2>1, Zenon DEF BoundStreamOwnsLiveState
  <2>3. /\ live' = live /\ events' = events
        /\ \A o \in States \ {live'} :
             pendingRAV'[o] = pendingRAV[o] /\ queuedResponse'[o] = queuedResponse[o]
    BY <1>0, <1>3, <2>2, Zenon DEF FundsAck, TypeOK
  <2>4. \E label \in {"loop", "exit"} : Goto(s, label) /\ ref' = ref
    BY <1>3, Zenon DEF FundsAck, Return
  <2>5. ControlStep(s)
    BY <1>0, <2>1, <2>3, <2>4, ControlMoves, Zenon DEF ControlStep
  <2> QED
    BY <1>0, <2>5, ControlFrame, Zenon
<1>4. CASE SubmitValidate(s)
  <2>0. Bound(s)
    BY <1>4, Zenon DEF SubmitValidate, Bound
  <2>1. PICK o \in States :
          /\ EnsureSessionState(o)
          /\ ref' = ref \/ ref' = [ref EXCEPT ![s] = o]
    BY <1>4, Zenon DEF SubmitValidate
  <2>2. UNCHANGED <<events, pendingRAV, queuedResponse>>
    BY <1>4, Zenon DEF SubmitValidate
  <2>3. \A u \in Threads : u # s => pc'[u] = pc[u]
    BY <1>4, Zenon DEF SubmitValidate, Return, Goto, TypeOK
  <2>4. ControlStep(s)
    BY <1>0, <2>0, <2>1, <2>2, <2>3, Zenon DEF ControlStep, EnsureSessionState, TypeOK
  <2> QED
    BY <1>0, <2>4, ControlFrame, Zenon
<1>5. CASE StreamOpen(s)
  <2>1. pc'[s] \in {"bind", "exit"} /\ \A u \in Threads : u # s => pc'[u] = pc[u]
    BY <1>0, <1>5, Zenon DEF StreamOpen, Return, Goto, TypeOK
  <2>2. UNCHANGED <<live, events, pendingRAV, queuedResponse, ref>>
    BY <1>5, Zenon DEF StreamOpen
  <2>3. ControlStep(s)
    BY <2>1, <2>2, Zenon DEF ControlStep, Bound
  <2> QED
    BY <1>0, <2>3, ControlFrame, Zenon
<1>6. CASE SubmitAccepted(s)
  <2>1. /\ UNCHANGED <<live, events>>
        /\ \A o \in States :
             /\ pendingRAV'[o] \in {pendingRAV[o], NoMsg}
             /\ queuedResponse'[o] \in {queuedResponse[o], NoMsg}
    BY <1>6, Zenon DEF SubmitAccepted, TypeOK
  <2>2. Bound(s) /\ Goto(s, "read") /\ ref' = ref
    BY <1>6, Zenon DEF SubmitAccepted, Bound
  <2>3. ControlStep(s)
    BY <1>0, <2>1, <2>2, ControlMoves, Zenon DEF ControlStep
  <2> QED
    BY <1>0, <2>3, ControlFrame, Zenon
<1>7. CASE BindDelivered(s)
  <2>1. /\ UNCHANGED <<live, events>>
        /\ \A o \in States \ {live'} :
             pendingRAV'[o] = pendingRAV[o] /\ queuedResponse'[o] = queuedResponse[o]
    BY <1>7, Zenon DEF BindDelivered, ClearQueuedResponse, TypeOK
  <2>2. Bound(s) /\ Goto(s, "ensure") /\ ref' = ref
    BY <1>7, Zenon DEF BindDelivered, BindEvaluate, Bound
  <2>3. ControlStep(s)
    BY <1>0, <2>1, <2>2, ControlMoves, Zenon DEF ControlStep
  <2> QED
    BY <1>0, <2>3, ControlFrame, Zenon
<1>8. CASE \/ BindDeliver(s) \/ StreamSend(s) \/ StreamClose(s)
           \/ StreamReceive(s) \/ SubmitCommit(s)
  <2>1. UNCHANGED <<live, events, pendingRAV, queuedResponse>> /\ Bound(s)
    BY <1>8, Zenon DEF BindDeliver, StreamSend, StreamClose, StreamReceive,
                       SubmitCommit, Bound
  <2>2. \/ pc' = pc /\ ref' = ref
        \/ \E label \in {"delivered", "ensure", "exit", "submit", "fundsack", "accepted"} :
             LeaveEval(s, label) \/ (Goto(s, label) /\ ref' = ref)
    BY <1>8, Zenon DEF BindDeliver, BindEvaluate, StreamSend, StreamClose,
                       StreamReceive, SubmitCommit, Return
  <2>3. CASE pc' = pc /\ ref' = ref
    <3>1. ControlStep(s)
      BY <2>1, <2>3, Zenon DEF ControlStep
    <3> QED
      BY <1>0, <3>1, ControlFrame, Zenon
  <2>4. CASE ~(pc' = pc /\ ref' = ref)
    <3>1. ControlStep(s)
      BY <1>0, <2>1, <2>2, <2>4, ControlMoves, Zenon DEF ControlStep
    <3> QED
      BY <1>0, <3>1, ControlFrame, Zenon
  <2> QED
    BY <2>3, <2>4, Zenon
<1> QED
  BY <1>1, <1>2, <1>3, <1>4, <1>5, <1>6, <1>7, <1>8, Zenon DEF StreamStep

\* ControlInv is inductive, relative to the earlier invariants.
LEMMA ControlInductive ==
  TypeOK /\ AccountingInv /\ LockInv /\ ControlInv /\ [Next]_vars => ControlInv'
<1> SUFFICES ASSUME TypeOK, AccountingInv, LockInv, ControlInv, [Next]_vars
             PROVE  ControlInv'
  OBVIOUS
<1> USE DEF memory, store, local, wire
<1>0. /\ Streams \subseteq Threads /\ Meters \subseteq Threads
      /\ Unaries \subseteq Threads
      /\ Streams \cap Meters = {} /\ Streams \cap Unaries = {}
      /\ NoControlStateOrphaned /\ BoundStreamOwnsLiveState
  BY ThreadsAssumption, Zenon DEF Threads, ControlInv
<1>1. BlankMessages'
  <2>1. CASE Next
    <3>1. AccountsKept
      BY <2>1, EvalStepAccounts, StreamStepAccounts, SubmitRAVAccounts,
         OtherStepAccounts, Zenon DEF Next, Threads
    <3> QED
      BY <3>1, NextResponses, BlankStep, Zenon DEF ControlInv
  <2>2. CASE UNCHANGED vars
    BY <2>2, Zenon DEF ControlInv, BlankMessages, Blank, vars
  <2> QED
    BY <2>1, <2>2, Zenon
<1>2. NoControlStateOrphaned' /\ BoundStreamOwnsLiveState'
  <2>1. ASSUME NEW t \in Streams \cup Meters, EvalStep(t)
        PROVE  NoControlStateOrphaned' /\ BoundStreamOwnsLiveState'
    BY <1>0, <2>1, EvalStepControl, ControlFrame, Zenon
  <2>2. ASSUME NEW s \in Streams, StreamStep(s)
        PROVE  NoControlStateOrphaned' /\ BoundStreamOwnsLiveState'
    BY <2>2, StreamStepControl, Zenon
  <2>3. ASSUME NEW t \in Meters \cup Unaries,
               Report(t) \/ SubmitRAVStep(t)
        PROVE  NoControlStateOrphaned' /\ BoundStreamOwnsLiveState'
    <3>1. /\ UNCHANGED <<live, events, pendingRAV, queuedResponse, ref>>
          /\ \A u \in Threads : u # t => pc'[u] = pc[u]
      BY <2>3, Zenon
         DEF Report, SubmitRAVStep, SubmitRAVRead, SubmitRAVPendingCheck,
             SubmitRAVStore, SubmitRAVReturn, Goto, TypeOK
    <3>2. ControlStep(t)
      BY <1>0, <3>1, Zenon DEF ControlStep
    <3> QED
      BY <1>0, <3>2, ControlFrame, Zenon
  <2>4. CASE UNCHANGED <<live, events, pendingRAV, queuedResponse, ref, pc>>
    BY <1>0, <2>4, Zenon DEF NoControlStateOrphaned, BoundStreamOwnsLiveState, Bound
  <2>5. CASE Restart
    BY <1>0, <2>5, Zenon
       DEF Restart, NoControlStateOrphaned, BoundStreamOwnsLiveState, Bound
  <2> QED
    BY <2>1, <2>2, <2>3, <2>4, <2>5, Zenon
       DEF Next, vars, ConsumerAnswer, ConsumerStray, MarkCollectionPending,
           MarkCollectionCollected, MarkCollectionRetryable
<1> QED
  BY <1>1, <1>2, Zenon DEF ControlInv

\* Both invariants hold in every state.
LEMMA ControlInvariant ==
  Spec => [](TypeOK /\ AccountingInv /\ LockInv /\ ControlInv)
<1>1. Init => LockInv /\ ControlInv
  <2> SUFFICES ASSUME Init
               PROVE  LockInv /\ ControlInv
    OBVIOUS
  <2>1. LockInv
    BY Zenon DEF Init, LockInv, Evaluating, Holding
  <2>2. BlankMessages
    BY Zenon DEF Init, BlankMessages, Blank
  <2>3. NoControlStateOrphaned
    BY Zenon DEF Init, NoControlStateOrphaned
  <2>4. BoundStreamOwnsLiveState
    BY Zenon DEF Init, BoundStreamOwnsLiveState, Bound, Threads
  <2> QED
    BY <2>1, <2>2, <2>3, <2>4, Zenon DEF ControlInv
<1> QED
  BY <1>1, AccountingInvariant, LockInductive, ControlInductive, PTL DEF Spec

\* A runtime state that left the manager's map holds no control state, under
\* every interleaving of binds, unbinds, evaluations and deliveries.
THEOREM ControlStateNeverOrphaned ==
  Spec => []NoControlStateOrphaned
BY ControlInvariant, PTL DEF ControlInv

\* A bound stream stays the one the manager delivers to, and what it locks to
\* accept a RAV is the state in the map.
THEOREM BoundStreamAlwaysOwnsLiveState ==
  Spec => []BoundStreamOwnsLiveState
BY ControlInvariant, PTL DEF ControlInv
=============================================================================
