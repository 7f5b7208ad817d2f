------------------------- MODULE PaymentRuntimeLedger -------------------------
(***************************************************************************)
(* PaymentRuntime with one stream and no unary submissions implements      *)
(* PaymentLedger, for every number of usage reports in progress, restarts, *)
(* repository failures and messages a consumer may send.                   *)
(***************************************************************************)
EXTENDS PaymentRuntimeProofs

\* The hypotheses: at most one stream is ever opened, and RAVs arrive on it.
SingleStream ==
  /\ \A s, c \in Streams : s = c
  /\ Unaries = {}

\* A thread at these steps may work with a request it made or is settling.
Requesting == {"dispatch", "send", "ack", "commit", "accepted"}

\* A thread that assesses the funds read an active session.
AssessesActive ==
  \A t \in Threads : pc[t] = "assess" => IsActive(snap[t])

\* As long as the only stream has not ended, there is one evaluation lock: no
\* thread holds a state that left the map.  So a request in flight, queued or
\* in a thread's hands, was made after the last RAV was accepted and before
\* the session ended.
OneStream(s) ==
  /\ \A t \in Threads : ref[t] \in {None, live}
  /\ \A t \in Threads :
       pend[t].kind = "rav" =>
         /\ pc[t] \in Requesting
         /\ IsActive(session) /\ session.base <= pend[t].base
  /\ \A t \in Threads :
       pc[t] \in {"assess", "check"} =>
         IsActive(session) /\ session.base <= snap[t].total
  /\ \A o \in States :
       pendingRAV[o].kind = "rav" =>
         /\ session.base <= pendingRAV[o].base
         /\ IsActive(session) \/ \E t \in Threads : pc[t] = "clear"
  /\ pc[s] \in {"idle", "bind"} =>
       /\ \A o \in States : events[o] = None /\ pendingRAV[o].kind # "rav"
       /\ \A t \in Threads : pend[t].kind # "rav"
  /\ pc[s] = "commit" => pendingRAV[live] = pend[s]

LedgerInv ==
  /\ AssessesActive
  /\ \A s \in Streams : pc[s] # "done" => OneStream(s)

-----------------------------------------------------------------------------
\* One thread at a time is past the evaluation lock.
LEMMA OneHolder ==
  ASSUME LockInv, NEW s \in Streams, OneStream(s),
         NEW t \in Threads, NEW u \in Threads,
         pc[t] \in Holding, pc[u] \in Holding
  PROVE  t = u
<1>1. /\ ref[t] \in States /\ evalMu[ref[t]] = t
      /\ ref[u] \in States /\ evalMu[ref[u]] = u
  BY Zenon DEF LockInv, Evaluating
<1>2. ref[t] = live /\ ref[u] = live
  BY <1>1, ThreadsAssumption, Zenon DEF OneStream, Threads
<1> QED
  BY <1>1, <1>2, Zenon

LEMMA BlankKind ==
  NoMsg.kind = "none" /\ NoMsg.kind # "rav"
BY Zenon DEF NoMsg

LEMMA HoldingLabels ==
  /\ Requesting \subseteq Holding
  /\ {"assess", "check", "clear"} \subseteq Holding
BY Zenon DEF Requesting, Holding

\* What a step of thread t may do while it writes neither the status nor the
\* baseline of the session.
OneStreamStep(s, t) ==
  /\ session'.status = session.status /\ session'.base = session.base
  /\ \A u \in Threads :
       u # t => /\ pc'[u] = pc[u] /\ ref'[u] = ref[u]
                /\ pend'[u] = pend[u] /\ snap'[u] = snap[u]
  /\ live' = live \/ live = None
  /\ ref'[t] \in {None, ref[t], live'}
  /\ pend'[t].kind = "rav" =>
       /\ pc'[t] \in Requesting
       /\ \/ pend'[t] = pend[t]
          \/ /\ IsActive(session) /\ session.base <= pend'[t].base
             /\ pc[s] \notin {"idle", "bind"}
  /\ pc'[t] \in {"assess", "check"} =>
       IsActive(session) /\ session.base <= snap'[t].total
  /\ \A o \in States :
       pendingRAV'[o].kind = "rav" =>
         \/ pendingRAV'[o] = pendingRAV[o] /\ pc[t] # "clear"
         \/ \E u \in Threads : pendingRAV'[o] = pend[u]
  /\ pc'[s] \in {"idle", "bind"} =>
       pc[s] \in {"idle", "bind"} /\ events' = events
  /\ pc'[s] = "commit" => pendingRAV'[live'] = pend'[s]

LEMMA OneStreamFrame ==
  ASSUME NEW s \in Streams, NEW t \in Threads, OneStream(s), OneStreamStep(s, t)
  PROVE  OneStream(s)'
<1>0. session'.status = session.status /\ session'.base = session.base
  BY Zenon DEF OneStreamStep
<1>1. ASSUME NEW u \in Threads
      PROVE  ref'[u] \in {None, live'}
  BY Zenon DEF OneStreamStep, OneStream
<1>2. ASSUME NEW u \in Threads, pend'[u].kind = "rav"
      PROVE  /\ pc'[u] \in Requesting
             /\ IsActive(session)' /\ session'.base <= pend'[u].base
  <2>1. CASE u # t
    BY <1>0, <1>2, <2>1, Zenon DEF OneStreamStep, OneStream, IsActive
  <2>2. CASE u = t
    BY <1>0, <1>2, <2>2, Zenon DEF OneStreamStep, OneStream, IsActive
  <2> QED
    BY <2>1, <2>2, Zenon
<1>3. ASSUME NEW u \in Threads, pc'[u] \in {"assess", "check"}
      PROVE  IsActive(session)' /\ session'.base <= snap'[u].total
  <2>1. CASE u # t
    BY <1>0, <1>3, <2>1, Zenon DEF OneStreamStep, OneStream, IsActive
  <2>2. CASE u = t
    BY <1>0, <1>3, <2>2, Zenon DEF OneStreamStep, OneStream, IsActive
  <2> QED
    BY <2>1, <2>2, Zenon
<1>4. ASSUME NEW o \in States, pendingRAV'[o].kind = "rav"
      PROVE  /\ session'.base <= pendingRAV'[o].base
             /\ IsActive(session)' \/ \E u \in Threads : pc'[u] = "clear"
  <2>1. CASE pendingRAV'[o] = pendingRAV[o] /\ pc[t] # "clear"
    <3>1. /\ session.base <= pendingRAV[o].base
          /\ IsActive(session) \/ \E u \in Threads : pc[u] = "clear"
      BY <1>4, <2>1, Zenon DEF OneStream
    <3>2. \A u \in Threads : pc[u] = "clear" => pc'[u] = "clear"
      BY <2>1, Zenon DEF OneStreamStep
    <3> QED
      BY <1>0, <2>1, <3>1, <3>2, Zenon DEF IsActive
  <2>2. ASSUME NEW u \in Threads, pendingRAV'[o] = pend[u]
        PROVE  session'.base <= pendingRAV'[o].base /\ IsActive(session)'
    BY <1>0, <1>4, <2>2, Zenon DEF OneStream, IsActive
  <2> QED
    BY <1>4, <2>1, <2>2, Zenon DEF OneStreamStep
<1>5. ASSUME pc'[s] \in {"idle", "bind"}
      PROVE  /\ \A o \in States : events'[o] = None /\ pendingRAV'[o].kind # "rav"
             /\ \A u \in Threads : pend'[u].kind # "rav"
  <2>1. pc[s] \in {"idle", "bind"} /\ events' = events
    BY <1>5, Zenon DEF OneStreamStep
  <2>2. /\ \A o \in States : events[o] = None /\ pendingRAV[o].kind # "rav"
        /\ \A u \in Threads : pend[u].kind # "rav"
    BY <2>1, Zenon DEF OneStream
  <2>3. ASSUME NEW u \in Threads
        PROVE  pend'[u].kind # "rav"
    <3>1. pend'[u] = pend[u] \/ pend'[u].kind # "rav"
      BY <2>1, Zenon DEF OneStreamStep
    <3> QED
      BY <2>2, <3>1, Zenon
  <2>4. ASSUME NEW o \in States
        PROVE  pendingRAV'[o].kind # "rav"
    <3>1. \/ pendingRAV'[o].kind # "rav"
          \/ pendingRAV'[o] = pendingRAV[o]
          \/ \E u \in Threads : pendingRAV'[o] = pend[u]
      BY Zenon DEF OneStreamStep
    <3> QED
      BY <2>2, <3>1
  <2> QED
    BY <2>1, <2>2, <2>3, <2>4, Zenon
<1>6. pc'[s] = "commit" => pendingRAV'[live'] = pend'[s]
  BY Zenon DEF OneStreamStep
<1> QED
  BY <1>1, <1>2, <1>3, <1>4, <1>5, <1>6 DEF OneStream

\* A return from withSessionEval.
LEMMA LeaveEvalOneStream ==
  ASSUME TypeOK, NEW s \in Streams, NEW t \in Threads, NEW label,
         LeaveEval(t, label), label \in {"idle", "loop", "exit"},
         pc[s] \notin {"idle", "bind"} \/ t # s, label = "idle" => t # s,
         session'.status = session.status, session'.base = session.base,
         live' = live \/ live = None, events' = events,
         \A o \in States :
           pendingRAV'[o].kind = "rav" =>
             \/ pendingRAV'[o] = pendingRAV[o] /\ pc[t] # "clear"
             \/ \E u \in Threads : pendingRAV'[o] = pend[u],
         pc[s] = "commit" /\ t # s => pendingRAV'[live'] = pend[s]
  PROVE  OneStreamStep(s, t)
<1>0. s \in Threads
  BY Zenon DEF Threads
<1>1. /\ pc'[t] = label /\ ref'[t] = None /\ pend'[t] = NoMsg
      /\ \A u \in Threads :
           u # t => /\ pc'[u] = pc[u] /\ ref'[u] = ref[u]
                    /\ pend'[u] = pend[u] /\ snap'[u] = snap[u]
  BY Zenon DEF LeaveEval, Goto, TypeOK
<1>2. pend'[t].kind # "rav"
  BY <1>1, BlankKind, Zenon
<1>3. pc'[t] \notin {"assess", "check", "commit", "bind"}
  BY <1>1, Zenon
<1>4. pc'[s] = "commit" => t # s /\ pc[s] = "commit" /\ pend'[s] = pend[s]
  BY <1>0, <1>1, <1>3, Zenon
<1>5. pc'[s] \in {"idle", "bind"} => pc[s] \in {"idle", "bind"}
  BY <1>0, <1>1, Zenon
<1> QED
  BY <1>1, <1>2, <1>3, <1>4, <1>5, Zenon DEF OneStreamStep

\* What holds of a thread that evaluates, and of the stream's commit.
LEMMA OneStreamFacts ==
  ASSUME TypeOK, LockInv, NEW s \in Streams, OneStream(s), NEW t \in Threads
  PROVE  /\ None \notin States /\ s \in Threads
         /\ pc[t] \in Evaluating => ref[t] = live /\ live \in States
         /\ pc[s] = "commit" => live \in States /\ pendingRAV[live] = pend[s]
         /\ pc[t] \in Holding /\ t # s => pc[s] # "commit"
         /\ session.base \in Nat /\ session.total \in Nat
<1>1. None \notin States /\ s \in Threads
  BY ThreadsAssumption, Zenon DEF Threads
<1>2. \A u \in Threads : pc[u] \in Evaluating => ref[u] = live /\ live \in States
  BY <1>1, Zenon DEF LockInv, OneStream
<1>3. pc[s] = "commit" => live \in States /\ pendingRAV[live] = pend[s]
  BY <1>1, <1>2, Zenon DEF OneStream, Evaluating, Holding
<1>4. pc[t] \in Holding /\ t # s => pc[s] # "commit"
  BY <1>1, OneHolder, Zenon DEF Holding
<1>5. session.base \in Nat /\ session.total \in Nat
  BY Zenon DEF TypeOK, Session
<1> QED
  BY <1>1, <1>2, <1>3, <1>4, <1>5, Zenon

\* A step that only moves thread t, to a step where it holds no new request.
LEMMA GotoOneStream ==
  ASSUME TypeOK, LockInv, NEW s \in Streams, OneStream(s), NEW t \in Threads,
         NEW label, Goto(t, label),
         label \notin {"assess", "check", "commit", "idle"},
         label = "bind" => t = s /\ pc[s] = "idle",
         pend[t].kind = "rav" => label \in Requesting,
         session'.status = session.status, session'.base = session.base,
         UNCHANGED <<live, events, pendingRAV, ref, snap, pend>>,
         pc[t] # "clear"
  PROVE  OneStreamStep(s, t)
<1>1. s \in Threads
  BY Zenon DEF Threads
<1>2. pc'[t] = label /\ \A u \in Threads : u # t => pc'[u] = pc[u]
  BY Zenon DEF Goto, TypeOK
<1>3. pc'[s] = "commit" => pc[s] = "commit"
  BY <1>1, <1>2, Zenon
<1>4. pc'[s] \in {"idle", "bind"} => pc[s] \in {"idle", "bind"}
  BY <1>1, <1>2, Zenon
<1>5. pc[s] = "commit" => pendingRAV[live] = pend[s]
  BY Zenon DEF OneStream
<1> QED
  BY <1>2, <1>3, <1>4, <1>5, Zenon DEF OneStreamStep

\* The steps of an evaluation.
LEMMA EvalStepOneStream ==
  ASSUME TypeOK, AccountingInv, LockInv, ControlInv, AssessesActive,
         NEW s \in Streams, pc[s] # "done", OneStream(s),
         NEW t \in Threads, t \in Streams => t = s, EvalStep(t)
  PROVE  OneStream(s)'
<1> USE DEF memory, store, local, wire
<1>0. /\ AfterEval(t) \in {"idle", "loop", "exit"}
      /\ AfterFailedEval(t) \in {"idle", "loop", "exit"}
      /\ AfterEval(t) = "idle" => t # s
      /\ AfterFailedEval(t) = "idle" => t # s
      /\ s \in Threads
  BY Zenon DEF AfterEval, AfterFailedEval, TypeOK, Threads
<1>a. /\ None \notin States
      /\ pc[t] \in Evaluating => ref[t] = live /\ live \in States
      /\ pc[s] = "commit" => live \in States /\ pendingRAV[live] = pend[s]
      /\ pc[t] \in Holding /\ t # s => pc[s] # "commit"
      /\ session.base \in Nat /\ session.total \in Nat
  BY OneStreamFacts, Zenon
<1>b. pc[t] \notin {"idle", "bind"}
  BY Zenon DEF EvalStep, EvalEnsure, EvalRead, EvalFail, CanEvaluate,
               EvalAssess, EvalClearPending, EvalCheck, Dispatch, DispatchSend,
               DispatchAck
<1>1. CASE EvalEnsure(t)
  <2>1. PICK o \in States : EnsureSessionState(o) /\ ref' = [ref EXCEPT ![t] = o]
    BY <1>1, Zenon DEF EvalEnsure
  <2>2. /\ ref'[t] = live' /\ (live' = live \/ live = None) /\ pc[t] = "ensure"
        /\ pc'[t] = "lock"
        /\ \A u \in Threads : u # t => ref'[u] = ref[u] /\ pc'[u] = pc[u]
    BY <1>1, <2>1, Zenon DEF EvalEnsure, EnsureSessionState, Goto, TypeOK
  <2>3. UNCHANGED <<session, pend, snap, pendingRAV, events>>
    BY <1>1, Zenon DEF EvalEnsure
  <2>4. pend[t].kind # "rav"
    BY <2>2, Zenon DEF OneStream, Requesting
  <2>5. pc'[s] = "commit" => pc[s] = "commit"
    BY <1>0, <2>2, Zenon
  <2>6. pc'[s] = "commit" => pendingRAV'[live'] = pend'[s]
    BY <1>a, <2>2, <2>3, <2>5, Zenon
  <2>7. pc'[s] \in {"idle", "bind"} => pc[s] \in {"idle", "bind"}
    BY <1>0, <2>2, Zenon
  <2>8. OneStreamStep(s, t)
    BY <2>2, <2>3, <2>4, <2>6, <2>7, Zenon DEF OneStreamStep
  <2> QED
    BY <2>8, OneStreamFrame, Zenon
<1>2. CASE EvalRead(t) /\ IsActive(session)
  <2>1. /\ snap'[t] = session /\ pc'[t] = "assess" /\ ref' = ref /\ pend' = pend
        /\ \A u \in Threads : u # t => snap'[u] = snap[u] /\ pc'[u] = pc[u]
    BY <1>2, Zenon DEF EvalRead, Goto, TypeOK
  <2>2. UNCHANGED <<session, live, pendingRAV, events>>
    BY <1>2, Zenon DEF EvalRead
  <2>3. pc[t] \in {"lock", "read"} /\ pend[t].kind # "rav"
    BY <1>2, Zenon DEF EvalRead, CanEvaluate, OneStream, Requesting
  <2>4. session.base <= snap'[t].total
    BY <2>1, Zenon DEF AccountingInv, PaidSession
  <2>5. /\ pc'[s] = "commit" => pc[s] = "commit"
        /\ pc'[s] \in {"idle", "bind"} => pc[s] \in {"idle", "bind"}
    BY <1>0, <2>1, Zenon
  <2>6. OneStreamStep(s, t)
    BY <1>a, <1>2, <2>1, <2>2, <2>3, <2>4, <2>5, Zenon DEF OneStreamStep
  <2> QED
    BY <2>6, OneStreamFrame, Zenon
<1>3. CASE (EvalRead(t) /\ ~IsActive(session)) \/ EvalFail(t)
  <2>1. PICK label \in {AfterEval(t), AfterFailedEval(t)} : LeaveEval(t, label)
    BY <1>3, Zenon DEF EvalRead, EvalFail
  <2>2. UNCHANGED <<session, live, pendingRAV, events>>
    BY <1>3, Zenon DEF EvalRead, EvalFail
  <2>3. pc[t] # "clear"
    BY <1>3, Zenon DEF EvalRead, EvalFail, CanEvaluate
  <2>4. /\ label \in {"idle", "loop", "exit"} /\ (label = "idle" => t # s)
        /\ pc[s] \notin {"idle", "bind"} \/ t # s
    BY <1>0, <1>b, <2>1, Zenon
  <2>5. OneStreamStep(s, t)
    BY <1>a, <2>1, <2>2, <2>3, <2>4, LeaveEvalOneStream, Zenon
  <2> QED
    BY <2>5, OneStreamFrame, Zenon
<1>4. CASE EvalAssess(t)
  <2>0. /\ pc[t] = "assess" /\ IsActive(snap[t]) /\ IsActive(session)
        /\ session.base <= snap[t].total
        /\ UNCHANGED <<live, pendingRAV, events>>
        /\ pc[t] \in Holding /\ pend[t].kind # "rav"
    BY <1>4, Zenon DEF EvalAssess, AssessesActive, OneStream, Holding, Requesting
  <2>1. PICK insufficient \in FundsInsufficient(snap[t]) :
       /\ session' = WithRuntimeState(session,
                       IF insufficient THEN "terminated" ELSE snap[t].status)
       /\ \/ /\ insufficient
             /\ Goto(t, "clear")
             /\ UNCHANGED <<evalMu, ref, snap, pend, to>>
          \/ /\ ~insufficient
             /\ Goto(t, "check")
             /\ UNCHANGED <<evalMu, ref, snap, resp, pend, to>>
          \/ /\ ~insufficient
             /\ LeaveEval(t, AfterEval(t))
    BY <1>4, Zenon DEF EvalAssess
  <2>2. CASE insufficient
    <3>1. session'.base = session.base
      BY <2>1, Zenon DEF WithRuntimeState, TypeOK, Session
    <3>2. /\ pc'[t] = "clear" /\ \A u \in Threads : u # t => pc'[u] = pc[u]
          /\ UNCHANGED <<ref, snap, pend>>
      BY <2>1, <2>2, Zenon DEF Goto, TypeOK
    <3>3. \A u \in Threads : u # t => pc[u] \notin Holding
      BY <2>0, OneHolder, Zenon
    <3>4. \A u \in Threads : pend[u].kind # "rav"
      BY <2>0, <3>3, HoldingLabels, Zenon DEF OneStream
    <3>5. \A u \in Threads : pc'[u] \notin {"assess", "check", "commit"}
      BY <3>2, <3>3, Zenon DEF Holding
    <3>6. pc'[s] \in {"idle", "bind"} => pc[s] \in {"idle", "bind"}
      BY <1>0, <3>2, Zenon
    <3>7. \A o \in States : pendingRAV[o].kind = "rav" => session.base <= pendingRAV[o].base
      BY Zenon DEF OneStream
    <3>8. /\ \A u \in Threads : ref[u] \in {None, live}
          /\ pc[s] \in {"idle", "bind"} =>
               \A o \in States : events[o] = None /\ pendingRAV[o].kind # "rav"
      BY Zenon DEF OneStream
    <3> QED
      BY <1>0, <2>0, <3>1, <3>2, <3>4, <3>5, <3>6, <3>7, <3>8, Zenon DEF OneStream
  <2>3. CASE ~insufficient
    <3>1. session'.status = session.status /\ session'.base = session.base
      BY <2>0, <2>1, <2>3, Zenon DEF WithRuntimeState, IsActive, TypeOK, Session
    <3>2. CASE LeaveEval(t, AfterEval(t))
      <4>1. OneStreamStep(s, t)
        BY <1>0, <1>a, <1>b, <2>0, <3>1, <3>2, LeaveEvalOneStream, ZenonT(30)
      <4> QED
        BY <4>1, OneStreamFrame, Zenon
    <3>3. CASE Goto(t, "check") /\ UNCHANGED <<ref, snap, pend>>
      <4>1. pc'[t] = "check" /\ \A u \in Threads : u # t => pc'[u] = pc[u]
        BY <3>3, Zenon DEF Goto, TypeOK
      <4>2. /\ pc'[s] = "commit" => pc[s] = "commit"
            /\ pc'[s] \in {"idle", "bind"} => pc[s] \in {"idle", "bind"}
        BY <1>0, <4>1, Zenon
      <4>3. OneStreamStep(s, t)
        BY <1>a, <2>0, <3>1, <3>3, <4>1, <4>2, Zenon DEF OneStreamStep
      <4> QED
        BY <4>3, OneStreamFrame, Zenon
    <3> QED
      BY <2>1, <2>3, <3>2, <3>3, Zenon
  <2> QED
    BY <2>2, <2>3, Zenon
<1>5. CASE EvalClearPending(t)
  <2>1. /\ pc[t] = "clear" /\ pc[t] \in Holding /\ pc[t] \in Evaluating
        /\ pend[t].kind # "rav"
    BY <1>5, Zenon DEF EvalClearPending, Holding, Evaluating, OneStream, Requesting
  <2>2. pendingRAV' = [pendingRAV EXCEPT ![live] = NoMsg]
    BY <1>a, <1>5, <2>1, Zenon DEF EvalClearPending
  <2>3. \A o \in States : pendingRAV'[o].kind # "rav"
    BY <2>2, BlankKind, Zenon DEF ControlInv, NoControlStateOrphaned, TypeOK
  <2>4. UNCHANGED <<session, live, events, ref, snap, pend>>
    BY <1>5, Zenon DEF EvalClearPending
  <2>5. pc'[t] = "dispatch" /\ \A u \in Threads : u # t => pc'[u] = pc[u]
    BY <1>5, Zenon DEF EvalClearPending, Goto, TypeOK
  <2>6. /\ pc'[s] # "commit"
        /\ pc'[s] \in {"idle", "bind"} => pc[s] \in {"idle", "bind"}
    BY <1>0, <1>a, <2>1, <2>5, Zenon
  <2>7. OneStreamStep(s, t)
    BY <2>1, <2>3, <2>4, <2>5, <2>6, Zenon DEF OneStreamStep
  <2> QED
    BY <2>7, OneStreamFrame, Zenon
<1>6. CASE EvalCheck(t)
  <2>0. /\ pc[t] = "check" /\ IsActive(session) /\ session.base <= snap[t].total
        /\ pc[t] \in Holding
        /\ UNCHANGED <<session, live, pendingRAV, events>>
    BY <1>6, Zenon DEF EvalCheck, OneStream, Holding
  <2>1. CASE LeaveEval(t, AfterEval(t))
    <3>1. OneStreamStep(s, t)
      BY <1>0, <1>a, <1>b, <2>0, <2>1, LeaveEvalOneStream, ZenonT(30)
    <3> QED
      BY <3>1, OneStreamFrame, Zenon
  <2>2. CASE /\ RuntimeReady
             /\ pend' = [pend EXCEPT ![t] = NewRAVRequest(snap[t], t)]
             /\ Goto(t, "dispatch")
             /\ UNCHANGED <<evalMu, ref, snap, to>>
    <3>1. /\ pc'[t] = "dispatch" /\ pend'[t] = NewRAVRequest(snap[t], t)
          /\ \A u \in Threads : u # t => pc'[u] = pc[u] /\ pend'[u] = pend[u]
      BY <2>2, Zenon DEF Goto, TypeOK
    <3>2. pend'[t].base = snap[t].total
      <4>1. NewRAVRequest(snap[t], t).base = snap[t].total
        BY Zenon DEF NewRAVRequest
      <4> QED
        BY <3>1, <4>1, Zenon
    <3>3. pc[s] \notin {"idle", "bind"}
      BY <2>2, Zenon DEF RuntimeReady, OneStream, TypeOK
    <3>4. /\ pc'[s] # "commit" /\ pc'[s] \notin {"idle", "bind"}
      BY <1>0, <1>a, <2>0, <3>1, <3>3, Zenon
    <3>5. OneStreamStep(s, t)
      BY <2>0, <2>2, <3>1, <3>2, <3>3, <3>4, Zenon DEF OneStreamStep, Requesting
    <3> QED
      BY <3>5, OneStreamFrame, Zenon
  <2> QED
    BY <1>6, <2>1, <2>2, Zenon DEF EvalCheck
<1>7. CASE Dispatch(t)
  <2>0. pc[t] = "dispatch" /\ pc[t] \in Holding /\ pc[t] \in Evaluating
    BY <1>7, Zenon DEF Dispatch, Holding, Evaluating
  <2>1. PICK o \in States :
          EnsureSessionState(o) /\ pendingRAV' = [pendingRAV EXCEPT ![o] = pend[t]]
    BY <1>7, Zenon DEF Dispatch
  <2>2. UNCHANGED <<session, events>> /\ live' = live
    BY <1>a, <1>7, <2>0, <2>1, Zenon DEF Dispatch, EnsureSessionState
  <2>3. \A a \in States : pendingRAV'[a] \in {pendingRAV[a], pend[t]}
    BY <2>1, Zenon DEF TypeOK
  <2>4. CASE LeaveEval(t, AfterEval(t))
    <3>1. OneStreamStep(s, t)
      BY <1>0, <1>a, <1>b, <2>0, <2>2, <2>3, <2>4, LeaveEvalOneStream, ZenonT(30)
    <3> QED
      BY <3>1, OneStreamFrame, Zenon
  <2>5. CASE Goto(t, "send") /\ UNCHANGED <<ref, snap, pend>>
    <3>1. pc'[t] = "send" /\ \A u \in Threads : u # t => pc'[u] = pc[u]
      BY <2>5, Zenon DEF Goto, TypeOK
    <3>2. /\ pc'[s] # "commit"
          /\ pc'[s] \in {"idle", "bind"} => pc[s] \in {"idle", "bind"}
      BY <1>0, <1>a, <2>0, <3>1, Zenon
    <3>3. OneStreamStep(s, t)
      BY <2>0, <2>2, <2>3, <2>5, <3>1, <3>2, Zenon DEF OneStreamStep, Requesting
    <3> QED
      BY <3>3, OneStreamFrame, Zenon
  <2> QED
    BY <1>7, <2>4, <2>5, Zenon DEF Dispatch
<1>8. CASE DispatchSend(t)
  <2>0. pc[t] = "send" /\ UNCHANGED <<session, live, pendingRAV, events>>
    BY <1>8, Zenon DEF DispatchSend
  <2>1. CASE LeaveEval(t, AfterEval(t))
    <3>1. OneStreamStep(s, t)
      BY <1>0, <1>a, <1>b, <2>0, <2>1, LeaveEvalOneStream, ZenonT(30)
    <3> QED
      BY <3>1, OneStreamFrame, Zenon
  <2>2. CASE Goto(t, "ack") /\ UNCHANGED <<ref, snap, pend>>
    <3>1. OneStreamStep(s, t)
      BY <2>0, <2>2, GotoOneStream, Zenon DEF Requesting
    <3> QED
      BY <3>1, OneStreamFrame, Zenon
  <2> QED
    BY <1>8, <2>1, <2>2, Zenon DEF DispatchSend
<1>9. CASE DispatchAck(t)
  <2>0. pc[t] = "ack" /\ pc[t] \in Holding
    BY <1>9, Zenon DEF DispatchAck, Holding
  <2>1. /\ UNCHANGED <<session, live, events>>
        /\ LeaveEval(t, AfterEval(t))
        /\ \A o \in States : pendingRAV'[o] \in {pendingRAV[o], pend[t]}
    BY <1>9, Zenon DEF DispatchAck, ClearQueuedResponse, TypeOK
  <2>2. OneStreamStep(s, t)
    BY <1>0, <1>a, <1>b, <2>0, <2>1, LeaveEvalOneStream, ZenonT(30)
  <2> QED
    BY <2>2, OneStreamFrame, Zenon
<1> QED
  BY <1>1, <1>2, <1>3, <1>4, <1>5, <1>6, <1>7, <1>8, <1>9, Zenon DEF EvalStep

\* The steps of the stream's handler, up to the deferred unbind.
LEMMA StreamStepOneStream ==
  ASSUME TypeOK, AccountingInv, LockInv, ControlInv,
         NEW s \in Streams, \A c \in Streams : c = s,
         pc[s] # "done", OneStream(s), StreamStep(s)
  PROVE  (pc[s] # "done" => OneStream(s))'
<1> USE DEF memory, store, local, wire
<1>0. /\ None \notin States /\ s \in Threads /\ None \notin Streams
      /\ session.base \in Nat /\ session.total \in Nat
      /\ NoControlStateOrphaned /\ BoundStreamOwnsLiveState
  BY OneStreamFacts, ThreadsAssumption, Zenon DEF Threads, ControlInv
<1>1. CASE StreamOpen(s)
  <2>1. UNCHANGED <<session, live, events, pendingRAV, ref, snap, pend>>
    BY <1>1, Zenon DEF StreamOpen
  <2>2. pc[s] = "idle" /\ \E l \in {"bind", "exit"} : Goto(s, l)
    BY <1>1, Zenon DEF StreamOpen, Return
  <2>3. pend[s].kind # "rav"
    BY <1>0, <2>2, Zenon DEF OneStream
  <2>4. OneStreamStep(s, s)
    BY <1>0, <2>1, <2>2, <2>3, GotoOneStream, Zenon
  <2> QED
    BY <1>0, <2>4, OneStreamFrame, Zenon
<1>2. CASE Bind(s)
  <2>0. /\ pc[s] = "bind"
        /\ UNCHANGED <<session, ref, snap>>
        /\ \A o \in States : pendingRAV[o].kind # "rav"
        /\ \A t \in Threads : pend[t].kind # "rav"
    BY <1>2, Zenon DEF Bind, OneStream
  <2>1. PICK o \in States :
          /\ EnsureSessionState(o)
          /\ \/ /\ pendingRAV' = pendingRAV
                /\ pend' = pend
             \/ /\ pendingRAV' = IF queuedResponse[o].kind = "none"
                                 THEN [pendingRAV EXCEPT ![o] = NoMsg]
                                 ELSE pendingRAV
                /\ pend' = [pend EXCEPT ![s] = pendingRAV'[o]]
    BY <1>2, Zenon DEF Bind
  <2>2. pc'[s] \in {"exit", "ensure", "deliver"} /\ \A u \in Threads : u # s => pc'[u] = pc[u]
    BY <1>0, <1>2, Zenon DEF Bind, Return, Goto, TypeOK
  <2>3. \A a \in States : pendingRAV'[a].kind # "rav"
    BY <2>0, <2>1, BlankKind, Zenon DEF TypeOK
  <2>4. \A u \in Threads : (u # s => pend'[u] = pend[u]) /\ pend'[u].kind # "rav"
    BY <2>0, <2>1, <2>3, Zenon DEF TypeOK
  <2>5. live' = live \/ live = None
    BY <2>1, Zenon DEF EnsureSessionState
  <2>6. OneStreamStep(s, s)
    BY <1>0, <2>0, <2>2, <2>3, <2>4, <2>5, Zenon DEF OneStreamStep
  <2> QED
    BY <1>0, <2>6, OneStreamFrame, Zenon
<1>3. CASE BindDeliver(s) \/ BindDelivered(s)
  <2>0. pc[s] \in {"deliver", "delivered"} /\ pend[s].kind # "rav"
    BY <1>0, <1>3, Zenon DEF BindDeliver, BindDelivered, OneStream, Requesting
  <2>1. UNCHANGED <<session, live, events, ref, snap>>
    BY <1>3, Zenon DEF BindDeliver, BindDelivered
  <2>2. \A o \in States : pendingRAV'[o] \in {pendingRAV[o], pend[s]}
    BY <1>3, Zenon DEF BindDeliver, BindDelivered, ClearQueuedResponse, TypeOK
  <2>3. \A u \in Threads : pend'[u] \in {pend[u], NoMsg} /\ (u # s => pend'[u] = pend[u])
    BY <1>3, Zenon DEF BindDeliver, BindDelivered, BindEvaluate, TypeOK
  <2>4. pc'[s] \in {"ensure", "delivered"} /\ \A u \in Threads : u # s => pc'[u] = pc[u]
    BY <1>0, <1>3, Zenon DEF BindDeliver, BindDelivered, BindEvaluate, Goto, TypeOK
  <2>5. pend'[s].kind # "rav"
    BY <1>0, <2>0, <2>3, BlankKind, Zenon
  <2>6. OneStreamStep(s, s)
    BY <1>0, <2>0, <2>1, <2>2, <2>3, <2>4, <2>5, Zenon DEF OneStreamStep
  <2> QED
    BY <1>0, <2>6, OneStreamFrame, Zenon
<1>4. CASE StreamSend(s) \/ StreamClose(s) \/ StreamReceive(s)
  <2>0. /\ pc[s] = "loop" /\ pend[s].kind # "rav"
        /\ UNCHANGED <<session, live, events, pendingRAV, ref, snap, pend>>
    BY <1>0, <1>4, Zenon
       DEF StreamSend, StreamClose, StreamReceive, OneStream, Requesting
  <2>1. \E l \in {"loop", "exit", "submit", "fundsack"} : Goto(s, l)
    <3>1. CASE pc' = pc
      BY <2>0, <3>1, Zenon DEF Goto, TypeOK
    <3>2. CASE pc' # pc
      BY <1>4, <3>2, Zenon DEF StreamSend, StreamClose, StreamReceive, Return
    <3> QED
      BY <3>1, <3>2, Zenon
  <2>2. OneStreamStep(s, s)
    BY <1>0, <2>0, <2>1, GotoOneStream, Zenon
  <2> QED
    BY <1>0, <2>2, OneStreamFrame, Zenon
<1>5. CASE FundsAck(s)
  <2>0. /\ pc[s] = "fundsack" /\ pend[s].kind # "rav" /\ Bound(s)
        /\ UNCHANGED <<session, events, ref, snap, pend>>
    BY <1>0, <1>5, Zenon DEF FundsAck, OneStream, Requesting, Bound
  <2>1. live # None /\ events[live] # None
    BY <1>0, <2>0, Zenon DEF BoundStreamOwnsLiveState
  <2>2. live' = live /\ \A o \in States : pendingRAV'[o] \in {pendingRAV[o], NoMsg}
    BY <1>5, <2>1, Zenon DEF FundsAck, TypeOK
  <2>3. pc'[s] \in {"loop", "exit"} /\ \A u \in Threads : u # s => pc'[u] = pc[u]
    BY <1>0, <1>5, Zenon DEF FundsAck, Return, Goto, TypeOK
  <2>4. \A o \in States :
          pendingRAV'[o].kind = "rav" => pendingRAV'[o] = pendingRAV[o]
    BY <2>2, BlankKind, Zenon
  <2>5. OneStreamStep(s, s)
    BY <1>0, <2>0, <2>2, <2>3, <2>4, Zenon DEF OneStreamStep
  <2> QED
    BY <1>0, <2>5, OneStreamFrame, Zenon
<1>6. CASE SubmitValidate(s)
  <2>0. /\ pc[s] = "submit" /\ pend[s].kind # "rav" /\ Bound(s)
        /\ UNCHANGED <<session, events, pendingRAV, snap>>
    BY <1>0, <1>6, Zenon DEF SubmitValidate, OneStream, Requesting, Bound
  <2>1. live # None
    BY <1>0, <2>0, Zenon DEF BoundStreamOwnsLiveState
  <2>2. live' = live /\ live \in States /\ evalMu[live] = None
    BY <1>0, <1>6, <2>1, Zenon DEF SubmitValidate, EnsureSessionState
  <2>3. CASE Goto(s, "exit") /\ UNCHANGED <<ref, pend>>
    <3>1. OneStreamStep(s, s)
      BY <1>0, <2>0, <2>2, <2>3, GotoOneStream, Zenon
    <3> QED
      BY <1>0, <3>1, OneStreamFrame, Zenon
  <2>4. CASE /\ AnswersRequest(sub[s], pendingRAV[live])
             /\ ref' = [ref EXCEPT ![s] = live]
             /\ pend' = [pend EXCEPT ![s] = pendingRAV[live]]
             /\ Goto(s, "commit")
    <3>1. pendingRAV[live].kind = "rav"
      BY <2>4, Zenon DEF AnswersRequest
    <3>2. \A t \in Threads : pc[t] \notin Holding
      <4>1. \A t \in Threads : pc[t] \in Holding => evalMu[live] = t
        BY OneStreamFacts, Zenon DEF LockInv, Evaluating
      <4> QED
        BY <2>2, <4>1, ThreadsAssumption, Zenon
    <3>3. IsActive(session) /\ session.base <= pendingRAV[live].base
      BY <2>2, <3>1, <3>2, Zenon DEF OneStream, Holding
    <3>4. /\ pc'[s] = "commit" /\ ref'[s] = live /\ pend'[s] = pendingRAV[live]
          /\ \A u \in Threads :
               u # s => pc'[u] = pc[u] /\ ref'[u] = ref[u] /\ pend'[u] = pend[u]
      BY <1>0, <2>4, Zenon DEF Goto, TypeOK
    <3>5. OneStreamStep(s, s)
      BY <1>0, <2>0, <2>2, <3>3, <3>4, Zenon DEF OneStreamStep, Requesting
    <3> QED
      BY <1>0, <3>5, OneStreamFrame, Zenon
  <2>5. \/ Goto(s, "exit") /\ UNCHANGED <<ref, pend>>
        \/ /\ AnswersRequest(sub[s], pendingRAV[live])
           /\ ref' = [ref EXCEPT ![s] = live]
           /\ pend' = [pend EXCEPT ![s] = pendingRAV[live]]
           /\ Goto(s, "commit")
    BY <1>6, <2>2, Zenon DEF SubmitValidate, EnsureSessionState, Return
  <2> QED
    BY <2>3, <2>4, <2>5, Zenon
<1>7. CASE SubmitCommit(s)
  <2>0. /\ pc[s] = "commit" /\ pc[s] \in Holding
        /\ UNCHANGED <<live, events, pendingRAV>>
        /\ pend[s].kind = "rav" /\ pendingRAV[live] = pend[s]
    BY <1>7, Zenon DEF SubmitCommit, Holding, AccountingInv, CommitsRequest, OneStream
  <2>1. CASE UNCHANGED store /\ LeaveEval(s, "exit")
    <3>1. OneStreamStep(s, s)
      BY <1>0, <2>0, <2>1, LeaveEvalOneStream, Zenon
    <3> QED
      BY <1>0, <3>1, OneStreamFrame, Zenon
  <2>2. CASE /\ session' = WithRAVAndBaseline(session, TargetValue(pend[s]), pend[s].base)
             /\ Goto(s, "accepted")
             /\ UNCHANGED <<evalMu, ref, snap, resp, pend, to, stop>>
    <3>1. session'.base = pend[s].base /\ session'.status = session.status
      BY <2>2, Zenon DEF WithRAVAndBaseline, TypeOK, Session
    <3>2. IsActive(session) /\ IsActive(session)' /\ pend[s].base \in Nat
      BY <1>0, <2>0, <3>1, Zenon DEF OneStream, IsActive, TypeOK, Msg
    <3>3. pc'[s] = "accepted" /\ \A u \in Threads : u # s => pc'[u] = pc[u]
      BY <1>0, <2>2, Zenon DEF Goto, TypeOK
    <3>4. \A u \in Threads : u # s => pc[u] \notin Holding
      BY <1>0, <2>0, OneHolder, Zenon
    <3>5. \A u \in Threads : pend[u].kind = "rav" => u = s
      BY <3>4, HoldingLabels, Zenon DEF OneStream
    <3>6. \A u \in Threads : pc'[u] \notin {"assess", "check"}
      BY <3>3, <3>4, HoldingLabels, Zenon
    <3>7. \A o \in States : pendingRAV[o].kind = "rav" => pendingRAV[o] = pend[s]
      BY <1>0, <2>0, BlankKind, Zenon DEF NoControlStateOrphaned
    <3>8. session'.base <= pend[s].base
      BY <3>1, <3>2
    <3>9. \A u \in Threads : ref[u] \in {None, live}
      BY Zenon DEF OneStream
    <3>10. pc'[s] \in Requesting /\ pc'[s] # "commit" /\ pc'[s] \notin {"idle", "bind"}
      BY <3>3, Zenon DEF Requesting
    <3> QED
      BY <2>0, <2>2, <3>2, <3>5, <3>6, <3>7, <3>8, <3>9, <3>10, Zenon DEF OneStream
  <2> QED
    BY <1>7, <2>1, <2>2, Zenon DEF SubmitCommit
<1>8. CASE SubmitAccepted(s)
  <2>0. pc[s] = "accepted" /\ UNCHANGED <<session, live, events, ref, snap>>
    BY <1>8, Zenon DEF SubmitAccepted
  <2>1. /\ \A o \in States : pendingRAV'[o] \in {pendingRAV[o], NoMsg}
        /\ pend'[s] = NoMsg /\ \A u \in Threads : u # s => pend'[u] = pend[u]
        /\ pc'[s] = "read" /\ \A u \in Threads : u # s => pc'[u] = pc[u]
    BY <1>0, <1>8, Zenon DEF SubmitAccepted, Goto, TypeOK
  <2>2. /\ \A o \in States :
             pendingRAV'[o].kind = "rav" => pendingRAV'[o] = pendingRAV[o]
        /\ pend'[s].kind # "rav"
    BY <2>1, BlankKind, Zenon
  <2>3. OneStreamStep(s, s)
    BY <1>0, <2>0, <2>1, <2>2, Zenon DEF OneStreamStep
  <2> QED
    BY <1>0, <2>3, OneStreamFrame, Zenon
<1>9. CASE Unbind(s)
  <2>1. pc'[s] = "done"
    BY <1>0, <1>9, Zenon DEF Unbind, Goto, TypeOK
  <2> QED
    BY <2>1, Zenon
<1> QED
  BY <1>1, <1>2, <1>3, <1>4, <1>5, <1>6, <1>7, <1>8, <1>9, Zenon DEF StreamStep

\* A stream that has ended does not start again.
LEMMA DoneStays ==
  ASSUME TypeOK, LockInv, [Next]_vars, NEW s \in Streams, pc[s] = "done"
  PROVE  pc'[s] = "done"
<1> USE DEF memory, store, local, wire
<1>0. s \in Threads /\ s \notin Meters /\ s \notin Unaries
  BY ThreadsAssumption, Zenon DEF Threads
<1>1. ASSUME NEW t \in Streams \cup Meters, EvalStep(t)
      PROVE  pc'[s] = "done"
  <2>1. pc[t] # "done"
    BY <1>1, Zenon
       DEF EvalStep, EvalEnsure, EvalRead, EvalFail, CanEvaluate, EvalAssess,
           EvalClearPending, EvalCheck, Dispatch, DispatchSend, DispatchAck
  <2>2. LockStep(t) /\ t # s
    BY <1>1, <2>1, EvalStepLock, Zenon DEF Threads
  <2> QED
    BY <1>0, <2>2, Zenon DEF LockStep
<1>2. ASSUME NEW c \in Streams, StreamStep(c)
      PROVE  pc'[s] = "done"
  <2>1. pc[c] # "done"
    BY <1>2, Zenon
       DEF StreamStep, StreamOpen, Bind, BindDeliver, BindDelivered,
           StreamSend, StreamClose, StreamReceive, FundsAck, SubmitValidate,
           SubmitCommit, SubmitAccepted, Unbind
  <2>2. LockStep(c) /\ c # s
    BY <1>2, <2>1, StreamStepLock, Zenon
  <2> QED
    BY <1>0, <2>2, Zenon DEF LockStep
<1>3. ASSUME NEW t \in Meters \cup Unaries, Report(t) \/ SubmitRAVStep(t)
      PROVE  pc'[s] = "done"
  BY <1>0, <1>3, Zenon
     DEF Report, SubmitRAVStep, SubmitRAVRead, SubmitRAVPendingCheck,
         SubmitRAVStore, SubmitRAVReturn, Goto, TypeOK
<1>4. CASE pc' = pc
  BY <1>4, Zenon
<1>5. CASE Restart
  BY <1>0, <1>5, Zenon DEF Restart
<1> QED
  BY <1>1, <1>2, <1>3, <1>4, <1>5, Zenon
     DEF Next, vars, ConsumerAnswer, ConsumerStray, MarkCollectionPending,
         MarkCollectionCollected, MarkCollectionRetryable

\* A thread assesses what it has just read, whatever the others do.
LEMMA AssessesActiveStep ==
  ASSUME TypeOK, LockInv, AssessesActive, [Next]_vars
  PROVE  AssessesActive'
<1> USE DEF memory, store, local, wire
<1>0. ASSUME NEW t \in Threads,
             \A u \in Threads : u # t => pc'[u] = pc[u] /\ snap'[u] = snap[u],
             pc'[t] = "assess" => IsActive(snap'[t])
      PROVE  AssessesActive'
  BY <1>0, Zenon DEF AssessesActive, IsActive
<1>1. ASSUME NEW t \in Streams \cup Meters, EvalStep(t)
      PROVE  AssessesActive'
  <2>0. t \in Threads
    BY Zenon DEF Threads
  <2>1. \A u \in Threads : u # t => pc'[u] = pc[u] /\ snap'[u] = snap[u]
    <3>1. \A u \in Threads : u # t => pc'[u] = pc[u]
      BY <1>1, <2>0, EvalStepLock, Zenon DEF LockStep
    <3>2. \A u \in Threads : u # t => snap'[u] = snap[u]
      BY <1>1, Zenon
         DEF EvalStep, EvalEnsure, EvalRead, EvalFail, EvalAssess,
             EvalClearPending, EvalCheck, Dispatch, DispatchSend, DispatchAck,
             LeaveEval, TypeOK
    <3> QED
      BY <3>1, <3>2, Zenon
  <2>2. CASE EvalRead(t) /\ IsActive(session)
    <3>1. snap'[t] = session
      BY <2>0, <2>2, Zenon DEF EvalRead, TypeOK
    <3> QED
      BY <1>0, <2>0, <2>1, <2>2, <3>1, Zenon
  <2>3. CASE ~(EvalRead(t) /\ IsActive(session))
    <3>1. \E l \in {"lock", "clear", "check", "dispatch", "send", "ack",
                    AfterEval(t), AfterFailedEval(t)} : Goto(t, l)
      BY <1>1, <2>3, Zenon
         DEF EvalStep, EvalEnsure, EvalRead, EvalFail, EvalAssess,
             EvalClearPending, EvalCheck, Dispatch, DispatchSend, DispatchAck,
             LeaveEval
    <3>2. AfterEval(t) # "assess" /\ AfterFailedEval(t) # "assess"
      BY <2>0, Zenon DEF AfterEval, AfterFailedEval, TypeOK
    <3>3. pc'[t] # "assess"
      BY <2>0, <3>1, <3>2, Zenon DEF Goto, TypeOK
    <3> QED
      BY <1>0, <2>0, <2>1, <3>3, Zenon
  <2> QED
    BY <2>2, <2>3, Zenon
<1>2. ASSUME NEW s \in Streams, StreamStep(s)
      PROVE  AssessesActive'
  <2>0. s \in Threads
    BY Zenon DEF Threads
  <2>1. \A u \in Threads : u # s => pc'[u] = pc[u] /\ snap'[u] = snap[u]
    <3>1. \A u \in Threads : u # s => pc'[u] = pc[u]
      BY <1>2, StreamStepLock, Zenon DEF LockStep
    <3>2. \A u \in Threads : u # s => snap'[u] = snap[u]
      BY <1>2, Zenon
         DEF StreamStep, StreamOpen, Bind, BindDeliver, BindDelivered,
             StreamSend, StreamClose, StreamReceive, FundsAck, SubmitValidate,
             SubmitCommit, SubmitAccepted, Unbind, LeaveEval, TypeOK
    <3> QED
      BY <3>1, <3>2, Zenon
  <2>2. CASE pc' = pc
    <3>1. StreamSend(s) => pc[s] # "assess"
      BY Zenon DEF StreamSend
    <3>2. StreamSend(s)
      BY <1>2, <2>0, <2>2, Zenon
         DEF StreamStep, StreamOpen, Bind, BindDeliver, BindDelivered,
             BindEvaluate, StreamClose, StreamReceive, FundsAck, SubmitValidate,
             SubmitCommit, SubmitAccepted, Unbind, LeaveEval, Return, Goto, TypeOK
    <3> QED
      BY <1>0, <2>0, <2>1, <2>2, <3>1, <3>2, Zenon
  <2>3. CASE pc' # pc
    <3>1. \E l \in {"bind", "exit", "ensure", "deliver", "delivered", "loop",
                    "submit", "fundsack", "done", "commit", "accepted", "read"} :
            Goto(s, l)
      BY <1>2, <2>3, Zenon
         DEF StreamStep, StreamOpen, Bind, BindDeliver, BindDelivered,
             BindEvaluate, StreamSend, StreamClose, StreamReceive, FundsAck,
             SubmitValidate, SubmitCommit, SubmitAccepted, Unbind, LeaveEval, Return
    <3>2. pc'[s] # "assess"
      BY <2>0, <3>1, Zenon DEF Goto, TypeOK
    <3> QED
      BY <1>0, <2>0, <2>1, <3>2, Zenon
  <2> QED
    BY <2>2, <2>3, Zenon
<1>3. ASSUME NEW t \in Meters \cup Unaries, Report(t) \/ SubmitRAVStep(t)
      PROVE  AssessesActive'
  <2>1. /\ t \in Threads
        /\ \A u \in Threads : u # t => pc'[u] = pc[u] /\ snap'[u] = snap[u]
        /\ pc'[t] \in {"ensure", "pendingcheck", "submitrav", "idle"}
    BY <1>3, Zenon
       DEF Report, SubmitRAVStep, SubmitRAVRead, SubmitRAVPendingCheck,
           SubmitRAVStore, SubmitRAVReturn, Goto, TypeOK, Threads
  <2> QED
    BY <1>0, <2>1, Zenon
<1>4. CASE UNCHANGED <<pc, snap>>
  BY <1>4, Zenon DEF AssessesActive, IsActive
<1>5. CASE Restart
  BY <1>5, Zenon DEF Restart, AssessesActive
<1> QED
  BY <1>1, <1>2, <1>3, <1>4, <1>5, Zenon
     DEF Next, vars, ConsumerAnswer, ConsumerStray, MarkCollectionPending,
         MarkCollectionCollected, MarkCollectionRetryable

\* LedgerInv is inductive, relative to the earlier invariants.
LEMMA LedgerInductive ==
  ASSUME SingleStream
  PROVE  TypeOK /\ AccountingInv /\ LockInv /\ ControlInv /\ LedgerInv
           /\ [Next]_vars => LedgerInv'
<1> SUFFICES ASSUME TypeOK, AccountingInv, LockInv, ControlInv, LedgerInv,
                    [Next]_vars
             PROVE  LedgerInv'
  OBVIOUS
<1> USE DEF memory, store, local, wire
<1>1. AssessesActive'
  BY AssessesActiveStep, Zenon DEF LedgerInv
<1>2. ASSUME NEW s \in Streams, pc'[s] # "done"
      PROVE  OneStream(s)'
  <2>0. /\ pc[s] # "done" /\ OneStream(s) /\ AssessesActive
        /\ \A c \in Streams : c = s
        /\ s \in Threads /\ s \notin Meters
    BY <1>2, DoneStays, ThreadsAssumption, Zenon DEF LedgerInv, SingleStream, Threads
  <2>1. ASSUME NEW t \in Streams \cup Meters, EvalStep(t)
        PROVE  OneStream(s)'
    BY <2>0, <2>1, EvalStepOneStream, Zenon DEF Threads
  <2>2. ASSUME NEW c \in Streams, StreamStep(c)
        PROVE  OneStream(s)'
    BY <1>2, <2>0, <2>2, StreamStepOneStream, Zenon
  <2>3. ASSUME NEW m \in Meters, Report(m)
        PROVE  OneStream(s)'
    <3>1. session'.status = session.status /\ session'.base = session.base
      BY <2>3, Zenon DEF Report, AddUsage, TypeOK, Session
    <3>2. /\ UNCHANGED <<live, events, pendingRAV, ref, snap, pend>>
          /\ pc[m] = "idle" /\ Goto(m, "ensure") /\ m \in Threads
      BY <2>3, Zenon DEF Report, Threads
    <3>3. pend[m].kind # "rav"
      BY <2>0, <3>2, Zenon DEF OneStream, Requesting
    <3>4. OneStreamStep(s, m)
      BY <2>0, <3>1, <3>2, <3>3, GotoOneStream, Zenon
    <3> QED
      BY <2>0, <3>2, <3>4, OneStreamFrame, Zenon
  <2>4. CASE UNCHANGED <<session, live, events, pendingRAV, ref, snap, pend, pc>>
    BY <2>0, <2>4, Zenon DEF OneStream, IsActive
  <2>5. CASE Restart
    <3>1. /\ \A t \in Threads :
               ref'[t] = None /\ pend'[t] = NoMsg /\ pc'[t] \in {"idle", "done"}
          /\ \A o \in States : events'[o] = None /\ pendingRAV'[o] = NoMsg
      BY <2>5, Zenon DEF Restart
    <3>2. \A t \in Threads : pc'[t] \notin {"assess", "check", "commit"}
      BY <3>1, Zenon
    <3> QED
      BY <2>0, <3>1, <3>2, BlankKind, Zenon DEF OneStream
  <2> QED
    BY <2>1, <2>2, <2>3, <2>4, <2>5, Zenon
       DEF Next, vars, ConsumerAnswer, ConsumerStray, MarkCollectionPending,
           MarkCollectionCollected, MarkCollectionRetryable, SingleStream
<1> QED
  BY <1>1, <1>2, Zenon DEF LedgerInv

-----------------------------------------------------------------------------
(* The refinement.                                                          *)

\* A step that leaves the books as they are is a stuttering step.
LEMMA LedgerStutter ==
  ASSUME session'.status = session.status, session'.total = session.total,
         session'.base = session.base, session'.rav = session.rav
  PROVE  [Ledger!Next]_(Ledger!ledger)
BY Zenon DEF Ledger!ledger

\* A report of usage is a Meter step.
LEMMA ReportRefines ==
  ASSUME TypeOK, NEW m \in Meters, Report(m)
  PROVE  [Ledger!Next]_(Ledger!ledger)
<1>1. CASE session' = session
  BY <1>1, LedgerStutter, Zenon
<1>2. ASSUME NEW c \in Costs, session' = AddUsage(session, c)
      PROVE  [Ledger!Next]_(Ledger!ledger)
  <2>1. /\ c \in Nat /\ session.total \in Nat
        /\ session'.total = session.total + c
        /\ session'.status = session.status
        /\ session'.base = session.base /\ session'.rav = session.rav
    BY <1>2, ValuesAssumption, Zenon DEF AddUsage, TypeOK, Session
  <2>2. CASE c = 0
    <3>1. session'.total = session.total
      BY <2>1, <2>2
    <3> QED
      BY <2>1, <3>1, LedgerStutter, Zenon
  <2>3. CASE c # 0
    <3>1. session'.total \in Nat /\ session'.total > session.total
      BY <2>1, <2>3
    <3>2. Ledger!Meter
      BY <2>1, <3>1, Zenon DEF Ledger!Meter
    <3> QED
      BY <3>2, Zenon DEF Ledger!Next
  <2> QED
    BY <2>2, <2>3, Zenon
<1> QED
  BY <1>1, <1>2, Zenon DEF Report

\* SessionUpdateRuntimeState ends the session or changes nothing.
LEMMA AssessRefines ==
  ASSUME TypeOK, AssessesActive, NEW t \in Threads, EvalAssess(t)
  PROVE  [Ledger!Next]_(Ledger!ledger)
<1>0. IsActive(snap[t]) /\ session \in Session
  BY Zenon DEF EvalAssess, AssessesActive, TypeOK
<1>1. PICK insufficient \in FundsInsufficient(snap[t]) :
        session' = WithRuntimeState(session,
                     IF insufficient THEN "terminated" ELSE snap[t].status)
  BY Zenon DEF EvalAssess
<1>2. CASE session.status = "terminated"
  <2>1. session' = session
    BY <1>1, <1>2, Zenon DEF WithRuntimeState
  <2> QED
    BY <2>1, LedgerStutter, Zenon
<1>3. CASE session.status # "terminated"
  <2>1. session.status = "active"
    BY <1>0, <1>3, Zenon DEF Session, SessionStatuses
  <2>2. /\ session'.total = session.total /\ session'.base = session.base
        /\ session'.rav = session.rav
        /\ session'.status = IF insufficient THEN "terminated" ELSE snap[t].status
    BY <1>0, <1>1, <1>3, Zenon DEF WithRuntimeState, Session
  <2>3. CASE insufficient
    <3>1. Ledger!End
      BY <2>1, <2>2, <2>3, Zenon DEF Ledger!End
    <3> QED
      BY <3>1, Zenon DEF Ledger!Next
  <2>4. CASE ~insufficient
    <3>1. session'.status = session.status
      BY <1>0, <2>1, <2>2, <2>4, Zenon DEF IsActive
    <3> QED
      BY <2>2, <3>1, LedgerStutter, Zenon
  <2> QED
    BY <2>3, <2>4, Zenon
<1> QED
  BY <1>2, <1>3, Zenon

\* An accepted RAV pays an active session for exactly what it newly covers.
LEMMA CommitRefines ==
  ASSUME TypeOK, TypeOK', AccountingInv, AccountingInv', Unaries = {},
         NEW s \in Streams, OneStream(s), SubmitCommit(s)
  PROVE  [Ledger!Next]_(Ledger!ledger)
<1> USE DEF store
<1>1. CASE session' = session
  BY <1>1, LedgerStutter, Zenon
<1>2. CASE session' = WithRAVAndBaseline(session, TargetValue(pend[s]), pend[s].base)
  <2>1. /\ session.base \in Nat /\ session.total \in Nat /\ session.rav \in Nat
        /\ session'.base \in Nat /\ session'.total \in Nat /\ session'.rav \in Nat
    BY Zenon DEF TypeOK, Session
  <2>2. /\ session'.base = pend[s].base /\ session'.status = session.status
        /\ session'.total = session.total
    BY <1>2, Zenon DEF WithRAVAndBaseline, TypeOK, Session
  <2>3. pend[s].kind = "rav" /\ s \in Threads
    BY Zenon DEF SubmitCommit, AccountingInv, CommitsRequest, Threads
  <2>4. session.status = "active" /\ session.base <= session'.base
    BY <2>2, <2>3, Zenon DEF OneStream, IsActive
  <2>5. /\ session.rav = InitialRAV + session.base
        /\ session'.rav = InitialRAV + session'.base
        /\ session'.base <= session'.total
    BY Zenon DEF AccountingInv, PaidSession, Covers
  <2>6. CASE session'.base = session.base
    <3>1. session'.rav = session.rav
      BY <2>5, <2>6, Zenon
    <3> QED
      BY <2>2, <2>6, <3>1, LedgerStutter, Zenon
  <2>7. CASE session'.base # session.base
    <3>1. /\ session.base < session'.base /\ session'.base <= session.total
          /\ session'.rav = session.rav + (session'.base - session.base)
      BY <2>1, <2>2, <2>4, <2>5, <2>7, ValuesAssumption
    <3>2. Ledger!Pay
      BY <2>1, <2>2, <2>4, <3>1, Zenon DEF Ledger!Pay
    <3> QED
      BY <3>2, Zenon DEF Ledger!Next
  <2> QED
    BY <2>6, <2>7, Zenon
<1> QED
  BY <1>1, <1>2, Zenon DEF SubmitCommit

\* Every step of the provider is a step of the ledger or leaves it alone.
LEMMA LedgerStep ==
  ASSUME SingleStream
  PROVE  /\ TypeOK /\ AccountingInv /\ LedgerInv
         /\ TypeOK' /\ AccountingInv' /\ [Next]_vars
         => [Ledger!Next]_(Ledger!ledger)
<1> SUFFICES ASSUME TypeOK, AccountingInv, LedgerInv, TypeOK', AccountingInv',
                    [Next]_vars
             PROVE  [Ledger!Next]_(Ledger!ledger)
  OBVIOUS
<1> USE DEF memory, store, local, wire
<1>1. CASE session' = session
  BY <1>1, LedgerStutter, Zenon
<1>2. ASSUME NEW m \in Meters, Report(m)
      PROVE  [Ledger!Next]_(Ledger!ledger)
  BY <1>2, ReportRefines, Zenon
<1>3. ASSUME NEW t \in Streams \cup Meters, EvalStep(t)
      PROVE  [Ledger!Next]_(Ledger!ledger)
  <2>1. CASE EvalAssess(t)
    BY <2>1, AssessRefines, Zenon DEF LedgerInv, Threads
  <2>2. CASE ~EvalAssess(t)
    BY <1>1, <1>3, <2>2, Zenon
       DEF EvalStep, EvalEnsure, EvalRead, EvalFail, EvalClearPending,
           EvalCheck, Dispatch, DispatchSend, DispatchAck
  <2> QED
    BY <2>1, <2>2, Zenon
<1>4. ASSUME NEW s \in Streams, StreamStep(s)
      PROVE  [Ledger!Next]_(Ledger!ledger)
  <2>1. CASE SubmitCommit(s)
    <3>1. pc[s] # "done"
      BY <2>1, Zenon DEF SubmitCommit
    <3> QED
      BY <2>1, <3>1, CommitRefines, Zenon DEF LedgerInv, SingleStream
  <2>2. CASE ~SubmitCommit(s)
    BY <1>1, <1>4, <2>2, Zenon
       DEF StreamStep, StreamOpen, Bind, BindDeliver, BindDelivered,
           StreamSend, StreamClose, StreamReceive, FundsAck, SubmitValidate,
           SubmitAccepted, Unbind
  <2> QED
    BY <2>1, <2>2, Zenon
<1> QED
  BY <1>1, <1>2, <1>3, <1>4, Zenon
     DEF Next, vars, ConsumerAnswer, ConsumerStray, MarkCollectionPending,
         MarkCollectionCollected, MarkCollectionRetryable, Restart, SingleStream

\* The invariant holds in every state.
LEMMA LedgerInvariant ==
  ASSUME SingleStream
  PROVE  Spec => []LedgerInv
<1>1. Init => LedgerInv
  <2> SUFFICES ASSUME Init
               PROVE  LedgerInv
    OBVIOUS
  <2>1. \A t \in Threads :
          pc[t] = "idle" /\ ref[t] = None /\ pend[t].kind # "rav"
    BY BlankKind, Zenon DEF Init
  <2>2. \A o \in States : events[o] = None /\ pendingRAV[o].kind # "rav"
    BY BlankKind, Zenon DEF Init
  <2>3. Streams \subseteq Threads
    BY Zenon DEF Threads
  <2> QED
    BY <2>1, <2>2, <2>3, Zenon DEF LedgerInv, AssessesActive, OneStream
<1> QED
  BY <1>1, ControlInvariant, LedgerInductive, PTL DEF Spec

\* With one stream and no unary submissions the provider implements the
\* ledger: the session is paid for metered usage only, by RAVs that grow by
\* exactly what they newly cover, and never once it has ended.
THEOREM ProviderImplementsLedger ==
  ASSUME SingleStream
  PROVE  Spec => ImplementsLedger
<1>1. Init => Ledger!Init
  <2> SUFFICES ASSUME Init
               PROVE  Ledger!Init
    OBVIOUS
  <2>1. PICK hasRAV \in BOOLEAN : session = NewSession(InitialRAV, hasRAV)
    BY Zenon DEF Init
  <2>2. /\ session.status = "active" /\ session.total = 0
        /\ session.base = 0 /\ session.rav = InitialRAV
    BY <2>1 DEF NewSession
  <2> QED
    BY <2>2, Zenon DEF Ledger!Init
<1> QED
  BY <1>1, LedgerInvariant, ControlInvariant, LedgerStep, PTL
     DEF Spec, ImplementsLedger, Ledger!Spec

\* So the stored RAV never decreases on the stream path: what lets an older
\* RAV replace a newer one is the unary handler, or a second stream.
THEOREM StreamRAVNeverDecreases ==
  ASSUME SingleStream
  PROVE  Spec => AcceptedRAVNeverDecreases
<1>1. ASSUME TypeOK, [Ledger!Next]_(Ledger!ledger)
      PROVE  [session'.rav >= session.rav]_vars
  <2>0. session.rav \in Nat /\ session.base \in Nat
    BY <1>1, Zenon DEF TypeOK, Session
  <2>1. CASE session'.rav = session.rav
    BY <2>0, <2>1
  <2>2. CASE Ledger!Pay
    <3>1. /\ session'.base \in Nat /\ session.base < session'.base
          /\ session'.rav = session.rav + (session'.base - session.base)
      BY <2>2, Zenon DEF Ledger!Pay
    <3> QED
      BY <2>0, <3>1
  <2> QED
    BY <1>1, <2>1, <2>2, Zenon
       DEF Ledger!Next, Ledger!Meter, Ledger!End, Ledger!ledger
<1> QED
  BY <1>1, LedgerInvariant, ControlInvariant, LedgerStep, PTL
     DEF Spec, AcceptedRAVNeverDecreases
=============================================================================
