----------------------------- MODULE WorkerPool -----------------------------
(***************************************************************************)
(* Worker slots of the data plane: the session plugin (provider/plugin),   *)
(* which borrows a slot for every stream and for every job of a stream and *)
(* gives them back, the gateway's SessionService (provider/session), which *)
(* admits borrows against the payer's quota, and the repository rows both  *)
(* rely on.  The plugin runs in another process: every call to the service *)
(* may interleave with the others and may be lost, and the service reads   *)
(* and writes the repository in separate steps.                            *)
(*                                                                         *)
(* A worker key is unique per borrow, so a key is named after the stream   *)
(* or the job that borrows it.  The keep-alive interval and its switch to  *)
(* one second after an error only set the pace of the ticks, and so do the *)
(* workers' own keep-alive calls; a tick that is answered ok, or fails for *)
(* any other reason than a refusal, changes nothing.                       *)
(***************************************************************************)
EXTENDS WorkerStore

CONSTANTS
  Streams,            \* requests that open a session of the pool
  Jobs,               \* jobs that get a worker under a stream
  Sessions,           \* SDS session ids
  Payers,             \* organization ids
  PayerOf,            \* per session: its payer
  DefaultMaxConcurrentSessions,
  DefaultMaxWorkersPerSession,
  PerPayerOverrides,  \* for some payers: their own limits
  NoStream,           \* a job that has no stream yet
  MaxFailures         \* bound on lost calls and failed writes

Keys == Streams \cup Jobs

ASSUME WorkerPoolAssumption ==
  /\ Streams \cap Jobs = {}
  /\ IsFiniteSet(Keys)
  /\ NoStream \notin Streams
  /\ NoWorker \notin Keys \cup [session : Sessions, payer : Payers]
  /\ PayerOf \in [Sessions -> Payers]
  /\ DefaultMaxConcurrentSessions \in Nat
  /\ DefaultMaxWorkersPerSession \in Nat
  /\ DOMAIN PerPayerOverrides \subseteq Payers
  /\ \A p \in DOMAIN PerPayerOverrides :
       /\ PerPayerOverrides[p].sessions \in Nat
       /\ PerPayerOverrides[p].workers \in Nat
  /\ MaxFailures \in Nat

VARIABLES
  status,        \* per SDS session: active, or why it ended
  workers,       \* the repository's worker rows
  quota,         \* the repository's worker counters
  pc,            \* per stream and job: where its caller is
  request,       \* per key: the session and payer it was borrowed for
  parent,        \* per job: its stream
  info,          \* per stream: the plugin's sessionInfo
  alive,         \* per stream: whether its keep-alive goroutine runs
  call,          \* per key: the goroutine that returns it
  lost,          \* keys whose return, or whose borrow's answer, was lost
  overReturned,  \* per payer: decrements by calls that deleted no row
  unreturned,    \* per payer: decrements that failed
  failures       \* calls and writes that failed

vars == <<status, workers, quota, pc, request, parent, info, alive, call,
          lost, overReturned, unreturned, failures>>
store == <<workers, quota>>
ghosts == <<lost, overReturned, unreturned, failures>>

Goto(k, label) == pc' = [pc EXCEPT ![k] = label]

Fail == failures < MaxFailures /\ failures' = failures + 1

\* A goroutine that returns nothing.
NoCall == [step |-> "none", key |-> NoWorker, todo |-> {}, deleted |-> FALSE]

NoInfo == [present |-> FALSE, released |-> FALSE, workers |-> {}]

Init ==
  /\ status = [s \in Sessions |-> "active"]
  /\ workers = [k \in Keys |-> NoWorker]
  /\ quota = [p \in Payers |-> 0]
  /\ pc = [k \in Keys |-> "idle"]
  /\ request = [k \in Keys |-> NoWorker]
  /\ parent = [j \in Jobs |-> NoStream]
  /\ info = [k \in Streams |-> NoInfo]
  /\ alive = [k \in Streams |-> FALSE]
  /\ call = [k \in Keys |-> NoCall]
  /\ lost = {}
  /\ overReturned = [p \in Payers |-> 0]
  /\ unreturned = [p \in Payers |-> 0]
  /\ failures = 0

-----------------------------------------------------------------------------
(* The gateway ends a session: an end request, or a payment issue.          *)

EndSession(s) ==
  /\ status[s] = "active"
  /\ \E reason \in {"complete", "payment_issue"} :
       status' = [status EXCEPT ![s] = reason]
  /\ UNCHANGED <<store, pc, request, parent, info, alive, call, ghosts>>

-----------------------------------------------------------------------------
(* SessionService.BorrowWorker: authorize, then create and reserve.         *)

\* MaxConcurrentSessions
MaxConcurrentSessions(p) ==
  IF p \in DOMAIN PerPayerOverrides
  THEN PerPayerOverrides[p].sessions ELSE DefaultMaxConcurrentSessions

\* MaxWorkersPerSession
MaxWorkersPerSession(p) ==
  IF p \in DOMAIN PerPayerOverrides
  THEN PerPayerOverrides[p].workers ELSE DefaultMaxWorkersPerSession

MaxWorkers(p) == MaxWorkersPerSession(p) * MaxConcurrentSessions(p)

\* authorizeSession, and the code sessionStateError gives.
AuthorizeSession(s, p) ==
  IF PayerOf[s] # p THEN "permission_denied"
  ELSE IF status[s] = "payment_issue" THEN "resource_exhausted"
  ELSE IF status[s] # "active" THEN "permission_denied"
  ELSE "ok"

\* The borrow is refused, or goes on to reserve.
BorrowAuthorize(k, r) ==
  \/ /\ AuthorizeSession(r.session, r.payer) = "ok"
     /\ request' = [request EXCEPT ![k] = r]
     /\ Goto(k, "reserve")
  \/ /\ AuthorizeSession(r.session, r.payer) # "ok"
     /\ Goto(k, "failed")
     /\ UNCHANGED request

\* Mutant: one worker more than the limit fits.
CreateAndReserveOneMore(k) ==
  LET r == request[k] IN
  /\ ~(quota[r.payer] > MaxWorkers(r.payer))
  /\ workers' = [workers EXCEPT ![k] = r]
  /\ quota' = Increment(quota, r.payer, 1)

\* Mutant: the row is created and the counter is left alone.
CreateWithoutReserve(k) ==
  LET r == request[k] IN
  /\ ~Exceeds(quota, r.payer, 1, MaxWorkers(r.payer))
  /\ workers' = [workers EXCEPT ![k] = r]
  /\ quota' = quota

\* WorkerCreateAndReserveQuota, when the quota admits the worker.
CreateAndReserve(k) ==
  LET r == request[k] IN
  /\ ~Exceeds(quota, r.payer, 1, MaxWorkers(r.payer))
  /\ workers' = [workers EXCEPT ![k] = r]
  /\ quota' = Increment(quota, r.payer, 1)

\* ErrQuotaExceeded: answered as exhausted, nothing written.
Exhausted(k) ==
  /\ pc[k] = "reserve"
  /\ Exceeds(quota, request[k].payer, 1, MaxWorkers(request[k].payer))
  /\ Goto(k, "failed")
  /\ UNCHANGED <<status, store, request, parent, info, alive, call, ghosts>>

\* The slot is taken and the answer does not reach the plugin.
BorrowAnswerLost(k) ==
  /\ pc[k] = "reserve"
  /\ CreateAndReserve(k)
  /\ Fail
  /\ lost' = lost \cup {k}
  /\ Goto(k, "failed")
  /\ UNCHANGED <<status, request, parent, info, alive, call, overReturned,
                 unreturned>>

-----------------------------------------------------------------------------
(* sessionPool.Get: borrow the stream's own slot, then start its keep-alive *)

Get(k, s, p) ==
  /\ pc[k] = "idle"
  /\ BorrowAuthorize(k, Worker(s, p))
  /\ UNCHANGED <<status, store, parent, info, alive, call, ghosts>>

GetBorrowed(k) ==
  /\ pc[k] = "reserve"
  /\ CreateAndReserve(k)
  /\ info' = [info EXCEPT ![k].present = TRUE]
  /\ alive' = [alive EXCEPT ![k] = TRUE]
  /\ Goto(k, "open")
  /\ UNCHANGED <<status, request, parent, call, ghosts>>

-----------------------------------------------------------------------------
(* sessionPool.GetWorker: look the session up, borrow, record the worker.   *)

GetWorker(j, k) ==
  /\ pc[j] = "idle"
  /\ pc[k] \in {"open", "stopped", "closed"}
  /\ \/ /\ info[k].present
        /\ BorrowAuthorize(j, request[k])
        /\ parent' = [parent EXCEPT ![j] = k]
     \/ /\ ~info[k].present
        /\ Goto(j, "failed")
        /\ UNCHANGED <<request, parent>>
  /\ UNCHANGED <<status, store, info, alive, call, ghosts>>

GetWorkerBorrowed(j) ==
  /\ pc[j] = "reserve"
  /\ CreateAndReserve(j)
  /\ Goto(j, "record")
  /\ UNCHANGED <<status, request, parent, info, alive, call, ghosts>>

\* Mutant: a released session still takes workers.
CanAddWorkerReleased(k) == info[k].present

\* The second look-up and addWorker's check.
CanAddWorker(k) == info[k].present /\ ~info[k].released

\* releaseWorkerInternal in a goroutine of its own.
StartReturn(j) ==
  call' = [call EXCEPT ![j] = [NoCall EXCEPT !.step = "get", !.key = j]]

\* The worker is handed out, or at once given back.
GetWorkerRecord(j) ==
  LET k == parent[j] IN
  /\ pc[j] = "record"
  /\ \/ /\ CanAddWorker(k)
        /\ info' = [info EXCEPT ![k].workers = @ \cup {j}]
        /\ Goto(j, "running")
        /\ UNCHANGED call
     \/ /\ ~CanAddWorker(k)
        /\ StartReturn(j)
        /\ Goto(j, "failed")
        /\ UNCHANGED info
  /\ UNCHANGED <<status, store, request, parent, alive, ghosts>>

\* sessionPool.ReleaseWorker
ReleaseWorker(j) ==
  /\ pc[j] = "running"
  /\ info' = [k \in Streams |->
                IF info[k].present
                THEN [info[k] EXCEPT !.workers = @ \ {j}] ELSE info[k]]
  /\ StartReturn(j)
  /\ Goto(j, "done")
  /\ UNCHANGED <<status, store, request, parent, alive, ghosts>>

-----------------------------------------------------------------------------
(* sessionPool.Release: a goroutine that marks the session released, drops  *)
(* it from the pool, and returns its workers one by one, then its own slot. *)

Release(k) ==
  /\ pc[k] \in {"open", "stopped"}
  /\ Goto(k, "closed")
  /\ call' = [call EXCEPT ![k] = [NoCall EXCEPT !.step = "begin"]]
  /\ UNCHANGED <<status, store, request, parent, info, alive, ghosts>>

\* beginRelease: the workers known now are the ones the goroutine returns.
BeginRelease(k) ==
  /\ call[k].step = "begin"
  /\ info' = [info EXCEPT ![k].released = TRUE]
  /\ call' = [call EXCEPT ![k].step = "drop", ![k].todo = info[k].workers]
  /\ UNCHANGED <<status, store, pc, request, parent, alive, ghosts>>

\* Mutant: the session's own slot is returned and its workers are not.
NextReturnOwnOnly(k, c) ==
  IF c.key # k
  THEN [c EXCEPT !.step = "get", !.key = k, !.deleted = FALSE]
  ELSE NoCall

\* The call after this one: a worker left to return, then the stream's slot.
\* Workers come in the arbitrary order of the map.
NextReturn(k, c) ==
  IF c.todo # {}
  THEN LET w == CHOOSE w \in c.todo : TRUE
       IN  [step |-> "get", key |-> w, todo |-> c.todo \ {w}, deleted |-> FALSE]
  ELSE IF c.key # k
  THEN [c EXCEPT !.step = "get", !.key = k, !.deleted = FALSE]
  ELSE NoCall

\* The session leaves the pool and its keep-alive is cancelled.
DropSession(k) ==
  /\ call[k].step = "drop"
  /\ info' = [info EXCEPT ![k] = NoInfo]
  /\ alive' = [alive EXCEPT ![k] = FALSE]
  /\ call' = [call EXCEPT ![k] = NextReturn(k, call[k])]
  /\ UNCHANGED <<status, store, pc, request, parent, ghosts>>

-----------------------------------------------------------------------------
(* SessionService.ReturnWorker: look the row up, wait for its minimal life, *)
(* delete it, decrement.  The last two only log their failure.              *)

Step(k, label) == call' = [call EXCEPT ![k].step = label]

Finish(k) == call' = [call EXCEPT ![k] = NextReturn(k, call[k])]

\* WorkerGet: a row already gone ends the call.
ReturnGet(k) ==
  /\ call[k].step = "get"
  /\ IF workers[call[k].key] = NoWorker THEN Finish(k) ELSE Step(k, "delete")
  /\ UNCHANGED <<status, store, pc, request, parent, info, alive, ghosts>>

\* WorkerDelete: another call may have deleted the row since.
ReturnDelete(k) ==
  LET w == call[k].key IN
  /\ call[k].step = "delete"
  /\ workers' = [workers EXCEPT ![w] = NoWorker]
  /\ call' = [call EXCEPT ![k].step = "decrement",
                          ![k].deleted = workers[w] # NoWorker]
  /\ UNCHANGED <<status, quota, pc, request, parent, info, alive, ghosts>>

ReturnDeleteFails(k) ==
  /\ call[k].step = "delete"
  /\ Fail
  /\ lost' = lost \cup {call[k].key}
  /\ Step(k, "decrement")
  /\ UNCHANGED <<status, store, pc, request, parent, info, alive,
                 overReturned, unreturned>>

\* QuotaDecrement, whatever the delete did.
ReturnDecrement(k) ==
  LET p == request[call[k].key].payer IN
  /\ call[k].step = "decrement"
  /\ quota' = Decrement(quota, p, 1)
  /\ overReturned' = [overReturned EXCEPT
                        ![p] = IF call[k].deleted THEN @ ELSE @ + 1]
  /\ Finish(k)
  /\ UNCHANGED <<status, workers, pc, request, parent, info, alive, lost,
                 unreturned, failures>>

ReturnDecrementFails(k) ==
  LET p == request[call[k].key].payer IN
  /\ call[k].step = "decrement"
  /\ Fail
  /\ unreturned' = [unreturned EXCEPT ![p] = @ + 1]
  /\ Finish(k)
  /\ UNCHANGED <<status, store, pc, request, parent, info, alive, lost,
                 overReturned>>

\* The request is lost, or cancelled during the minimal life.
ReturnLost(k) ==
  /\ call[k].step = "get"
  /\ Fail
  /\ lost' = lost \cup {call[k].key}
  /\ Finish(k)
  /\ UNCHANGED <<status, store, pc, request, parent, info, alive,
                 overReturned, unreturned>>

-----------------------------------------------------------------------------
(* startKeepAlive: each tick asks the service whether the session may go on *)

\* Mutant: the service refreshes a session it does not authorize.
KeepAliveUnauthorized(k) ==
  IF workers[k] = NoWorker THEN "permission_denied" ELSE "ok"

\* SessionService.KeepAlive
KeepAlive(k) ==
  IF workers[k] = NoWorker THEN "permission_denied"
  ELSE AuthorizeSession(workers[k].session, workers[k].payer)

\* One tick: a refusal stops the stream (onError) and ends the goroutine.
\* Only Release removes the session and its row, and it cancels the goroutine
\* before it removes the row, so look-up and answer are one step.
KeepAliveTick(k) ==
  /\ alive[k] /\ info[k].present
  /\ KeepAlive(k) # "ok"
  /\ alive' = [alive EXCEPT ![k] = FALSE]
  /\ pc' = [pc EXCEPT ![k] = IF @ = "open" THEN "stopped" ELSE @]
  /\ UNCHANGED <<status, store, request, parent, info, call, ghosts>>

-----------------------------------------------------------------------------
StreamStep(k) ==
  \/ \E s \in Sessions, p \in Payers : Get(k, s, p)
  \/ GetBorrowed(k) \/ Release(k) \/ BeginRelease(k) \/ DropSession(k)
  \/ KeepAliveTick(k)

JobStep(j) ==
  \/ \E k \in Streams : GetWorker(j, k)
  \/ GetWorkerBorrowed(j) \/ GetWorkerRecord(j) \/ ReleaseWorker(j)

KeyStep(k) ==
  \/ Exhausted(k) \/ BorrowAnswerLost(k)
  \/ ReturnGet(k) \/ ReturnDelete(k) \/ ReturnDeleteFails(k)
  \/ ReturnDecrement(k) \/ ReturnDecrementFails(k) \/ ReturnLost(k)

Next ==
  \/ \E s \in Sessions : EndSession(s)
  \/ \E k \in Streams : StreamStep(k)
  \/ \E j \in Jobs : JobStep(j)
  \/ \E k \in Keys : KeyStep(k)

Spec == Init /\ [][Next]_vars

\* A call under way is answered, a goroutine runs on, and tickers tick.
\* Nothing makes a stream or a job start, nor a session end.
Fairness ==
  /\ \A k \in Keys :
       /\ WF_vars(Exhausted(k))
       /\ WF_vars(ReturnGet(k) \/ ReturnDelete(k) \/ ReturnDecrement(k))
  /\ \A k \in Streams :
       /\ WF_vars(GetBorrowed(k))
       /\ WF_vars(BeginRelease(k) \/ DropSession(k))
       /\ WF_vars(KeepAliveTick(k))
  /\ \A j \in Jobs :
       WF_vars(GetWorkerBorrowed(j) \/ GetWorkerRecord(j))

FairSpec == Spec /\ Fairness

-----------------------------------------------------------------------------
(* Properties.                                                              *)

Live(p) == {k \in Keys : workers[k] # NoWorker /\ workers[k].payer = p}

\* Rows deleted by calls that have not decremented yet.
Owed(p) == {k \in Keys : /\ call[k].step = "decrement"
                         /\ call[k].deleted
                         /\ request[call[k].key].payer = p}

Calls ==
  [step : {"none", "begin", "drop", "get", "delete", "decrement"},
   key : Keys \cup {NoWorker}, todo : SUBSET Jobs, deleted : BOOLEAN]

\* Types of the variables.
TypeOK ==
  /\ status \in [Sessions -> {"active", "complete", "payment_issue"}]
  /\ workers \in [Keys -> [session : Sessions, payer : Payers] \cup {NoWorker}]
  /\ quota \in [Payers -> Nat]
  /\ pc \in [Keys -> {"idle", "reserve", "failed", "open", "stopped",
                      "closed", "record", "running", "done"}]
  /\ request \in [Keys -> [session : Sessions, payer : Payers] \cup {NoWorker}]
  /\ parent \in [Jobs -> Streams \cup {NoStream}]
  /\ info \in [Streams -> [present : BOOLEAN, released : BOOLEAN,
                           workers : SUBSET Jobs]]
  /\ alive \in [Streams -> BOOLEAN]
  /\ call \in [Keys -> Calls]
  /\ lost \subseteq Keys
  /\ overReturned \in [Payers -> Nat]
  /\ unreturned \in [Payers -> Nat]
  /\ failures \in Nat

\* The counter a payer's borrows are admitted against (ReturnWorker, BorrowWorker)
\* is off from the payer's live rows by exactly what is known to disturb it: it
\* is above by decrements still owed or failed, below by second returns.
QuotaAccounting ==
  \A p \in Payers :
    /\ Cardinality(Live(p)) + Cardinality(Owed(p)) <= quota[p] + overReturned[p]
    /\ quota[p] <= Cardinality(Live(p)) + Cardinality(Owed(p)) + unreturned[p]

\* "enforces per-payer quotas": a payer holds more rows than its limit only
\* by as many as were returned twice or whose delete failed.
AdmissionBounded ==
  \A p \in Payers : Cardinality(Live(p)) <= MaxWorkers(p) + overReturned[p]

\* The key is on its way back: a call returns it now or later.
Returning(k) ==
  \E c \in Keys :
    \/ k \in call[c].todo
    \/ call[c].step \in {"get", "delete"} /\ call[c].key = k
    \/ c = k /\ call[c].step # "none" /\ call[c].key # k

\* No row is forgotten, however GetWorker, ReleaseWorker and Release race: a
\* live row belongs to an open stream, to a job it will give back, or to a
\* goroutine that returns it, unless a call about it was lost.
NoWorkerOrphaned ==
  \A k \in Keys : workers[k] # NoWorker =>
    \/ k \in lost
    \/ k \in Streams /\ pc[k] \in {"open", "stopped"}
    \/ k \in Jobs /\ pc[k] = "record"
    \/ k \in Jobs /\ pc[k] = "running" /\ k \in info[parent[k]].workers
                  /\ ~info[parent[k]].released
    \/ Returning(k)

\* A stream whose session ended is stopped by its keep-alive (or closed).
EndedSessionStopsStream ==
  \A k \in Streams :
    (pc[k] = "open" /\ status[request[k].session] # "active")
      ~> (pc[k] # "open")

\* After Release, the session's rows go: WorkerCountBySession, which keeps the
\* gateway's payment control pending, reads zero once its streams are closed.
ClosedSessionHasNoWorkers ==
  \A s \in Sessions :
    <>[](\A k \in Streams : request[k] # NoWorker /\ request[k].session = s
                              => pc[k] \in {"closed", "failed"})
      => <>[](CountBySession(workers, s) = 0 \/ lost # {})
=============================================================================
