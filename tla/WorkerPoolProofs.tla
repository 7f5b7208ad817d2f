-------------------------- MODULE WorkerPoolProofs --------------------------
(***************************************************************************)
(* Proofs about WorkerPool for any number of streams, jobs, sessions and   *)
(* payers, any limits and any number of failures: every step keeps the     *)
(* types of the variables and the order in which keys, and the goroutines  *)
(* that return them, live; the quota is accounted for; admission is        *)
(* bounded; and each live row is left with someone who gives it back.      *)
(***************************************************************************)
EXTENDS WorkerPool, FiniteSetTheorems, TLAPS

Rows == [session : Sessions, payer : Payers]

Infos == [present : BOOLEAN, released : BOOLEAN, workers : SUBSET Jobs]

-----------------------------------------------------------------------------
(* Type correctness.                                                        *)

\* The call that follows a call is well typed.
LEMMA NextReturnType ==
  ASSUME NEW k \in Keys, NEW c \in Calls
  PROVE  NextReturn(k, c) \in Calls
<1>1. NoCall \in Calls
  BY Zenon DEF NoCall, Calls
<1>2. CASE c.todo # {}
  <2> DEFINE w == CHOOSE w \in c.todo : TRUE
  <2>1. w \in c.todo
    BY <1>2, Zenon
  <2>2. w \in Keys /\ c.todo \ {w} \in SUBSET Jobs
    BY <2>1, Zenon DEF Calls, Keys
  <2>3. NextReturn(k, c)
          = [step |-> "get", key |-> w, todo |-> c.todo \ {w}, deleted |-> FALSE]
    BY <1>2, Zenon DEF NextReturn
  <2> HIDE DEF w
  <2> QED
    BY <2>2, <2>3 DEF Calls
<1>3. CASE c.todo = {} /\ c.key # k
  BY <1>3, Zenon DEF NextReturn, Calls
<1>4. CASE c.todo = {} /\ c.key = k
  BY <1>1, <1>4, Zenon DEF NextReturn
<1> QED
  BY <1>2, <1>3, <1>4, Zenon

\* What a thread wants is a row, and a borrow only writes rows.
LEMMA AuthorizeTypes ==
  ASSUME TypeOK, NEW k \in Keys, NEW r \in Rows \cup {NoWorker},
         BorrowAuthorize(k, r)
  PROVE  pc' \in [Keys -> {"idle", "reserve", "failed", "open", "stopped",
                           "closed", "record", "running", "done"}]
         /\ request' \in [Keys -> Rows \cup {NoWorker}]
<1>1. CASE request' = [request EXCEPT ![k] = r] /\ Goto(k, "reserve")
  BY <1>1, Zenon DEF TypeOK, Goto, Rows
<1>2. CASE UNCHANGED request /\ Goto(k, "failed")
  BY <1>2, Zenon DEF TypeOK, Goto, Rows
<1> QED
  BY <1>1, <1>2, Zenon DEF BorrowAuthorize

\* The counters stay natural numbers, whatever is counted.
LEMMA CounterTypes ==
  ASSUME NEW q \in [Payers -> Nat], NEW p, NEW yes \in BOOLEAN
  PROVE  /\ Increment(q, p, 1) \in [Payers -> Nat]
         /\ Decrement(q, p, 1) \in [Payers -> Nat]
         /\ [q EXCEPT ![p] = @ + 1] \in [Payers -> Nat]
         /\ [q EXCEPT ![p] = IF yes THEN @ ELSE @ + 1] \in [Payers -> Nat]
<1>1. CASE p \in Payers
  BY <1>1 DEF Increment, Decrement
<1>2. CASE p \notin Payers
  BY <1>2, Zenon DEF Increment, Decrement
<1> QED
  BY <1>1, <1>2, Zenon

\* A call with some of its fields changed.
LEMMA CallFields ==
  ASSUME NEW c \in Calls
  PROVE  /\ \A w \in SUBSET Jobs : [c EXCEPT !.step = "drop", !.todo = w] \in Calls
         /\ \A d \in BOOLEAN :
              [c EXCEPT !.step = "decrement", !.deleted = d] \in Calls
BY Zenon DEF Calls

\* The row is that of the request, and the counter counts it.
LEMMA ReserveTypes ==
  ASSUME TypeOK, NEW k \in Keys, CreateAndReserve(k)
  PROVE  /\ workers' \in [Keys -> Rows \cup {NoWorker}]
         /\ quota' \in [Payers -> Nat]
<1>1. quota' \in [Payers -> Nat]
  BY CounterTypes, Zenon DEF CreateAndReserve, TypeOK
<1>2. workers' \in [Keys -> Rows \cup {NoWorker}]
  BY Zenon DEF CreateAndReserve, TypeOK, Rows
<1> QED
  BY <1>1, <1>2, Zenon

\* The goroutine that returns workers goes from call to call.
LEMMA CallTypes ==
  ASSUME call \in [Keys -> Calls], NEW k \in Keys
  PROVE  /\ Finish(k) => call' \in [Keys -> Calls]
         /\ Step(k, "delete") \/ Step(k, "decrement") => call' \in [Keys -> Calls]
         /\ StartReturn(k) => call' \in [Keys -> Calls]
<1>1. ASSUME NEW c \in Calls PROVE [call EXCEPT ![k] = c] \in [Keys -> Calls]
  OBVIOUS
<1>2. Finish(k) => call' \in [Keys -> Calls]
  <2>1. NextReturn(k, call[k]) \in Calls
    BY NextReturnType, Zenon
  <2> QED
    BY <1>1, <2>1, Zenon DEF Finish
<1>3. ASSUME NEW l \in {"delete", "decrement"}, Step(k, l)
      PROVE  call' \in [Keys -> Calls]
  <2>1. [call[k] EXCEPT !.step = l] \in Calls
    BY Zenon DEF Calls
  <2>2. call' = [call EXCEPT ![k] = [call[k] EXCEPT !.step = l]]
    BY <1>3, Zenon DEF Step
  <2> QED
    BY <1>1, <2>1, <2>2, Zenon
<1>4. StartReturn(k) => call' \in [Keys -> Calls]
  <2>1. [NoCall EXCEPT !.step = "get", !.key = k] \in Calls
    BY Zenon DEF NoCall, Calls
  <2> QED
    BY <1>1, <2>1, Zenon DEF StartReturn
<1> QED
  BY <1>2, <1>3, <1>4, Zenon

\* A return is of some worker.
ReturnsWorker ==
  \A k \in Keys : call[k].step \in {"get", "delete", "decrement"}
                   => call[k].key \in Keys

TypeInv == TypeOK /\ ReturnsWorker

\* Every variable keeps its type.
LEMMA TypeStep ==
  ASSUME TypeInv, [Next]_vars
  PROVE  TypeOK'
<1> USE DEF TypeInv, TypeOK, Rows
<1>1. ASSUME NEW s \in Sessions, EndSession(s) PROVE TypeOK'
  BY <1>1, Zenon DEF EndSession, store, ghosts
<1>2. ASSUME NEW k \in Streams, StreamStep(k) PROVE TypeOK'
  <2>0. k \in Keys
    BY Zenon DEF Keys
  <2>1. ASSUME NEW s \in Sessions, NEW p \in Payers, Get(k, s, p) PROVE TypeOK'
    <3>1. Worker(s, p) \in Rows
      BY Zenon DEF Worker
    <3> QED
      BY <2>0, <2>1, <3>1, AuthorizeTypes, Zenon DEF Get, store, ghosts
  <2>2. CASE GetBorrowed(k)
    BY <2>0, <2>2, ReserveTypes, Zenon DEF GetBorrowed, Goto, ghosts
  <2>3. CASE Release(k)
    BY <2>0, <2>3, Zenon DEF Release, Goto, NoCall, Calls, store, ghosts
  <2>4. CASE BeginRelease(k)
    <3>1. [call[k] EXCEPT !.step = "drop", !.todo = info[k].workers] \in Calls
      <4>1. call[k] \in Calls /\ info[k].workers \in SUBSET Jobs
        BY <2>0, Zenon
      <4> QED
        BY <4>1, CallFields, Zenon
    <3>2. call' = [call EXCEPT ![k] =
                     [call[k] EXCEPT !.step = "drop", !.todo = info[k].workers]]
      BY <2>0, <2>4, Zenon DEF BeginRelease
    <3>3. call' \in [Keys -> Calls]
      BY <3>1, <3>2, Zenon
    <3>4. info' \in [Streams -> Infos]
      BY <2>4, Zenon DEF BeginRelease, Infos
    <3> QED
      BY <2>4, <3>3, <3>4, Zenon DEF BeginRelease, Infos, store, ghosts
  <2>5. CASE DropSession(k)
    BY <2>0, <2>5, NextReturnType, Zenon DEF DropSession, NoInfo, store, ghosts
  <2>6. CASE KeepAliveTick(k)
    BY <2>0, <2>6, Zenon DEF KeepAliveTick, store, ghosts
  <2> QED
    BY <1>2, <2>1, <2>2, <2>3, <2>4, <2>5, <2>6, Zenon DEF StreamStep
<1>3. ASSUME NEW j \in Jobs, JobStep(j) PROVE TypeOK'
  <2>0. j \in Keys
    BY Zenon DEF Keys
  <2>1. ASSUME NEW k \in Streams, GetWorker(j, k) PROVE TypeOK'
    <3>1. CASE info[k].present /\ BorrowAuthorize(j, request[k])
               /\ parent' = [parent EXCEPT ![j] = k]
      <4>1. k \in Keys
        BY Zenon DEF Keys
      <4>2. request[k] \in Rows \cup {NoWorker}
        BY <4>1, Zenon
      <4>3. parent' \in [Jobs -> Streams \cup {NoStream}]
        BY <3>1, Zenon
      <4> QED
        BY <2>0, <2>1, <3>1, <4>2, <4>3, AuthorizeTypes, Zenon DEF GetWorker, store, ghosts
    <3>2. CASE Goto(j, "failed") /\ UNCHANGED <<request, parent>>
      BY <2>0, <2>1, <3>2, Zenon DEF GetWorker, Goto, store, ghosts
    <3> QED
      BY <2>0, <2>1, <3>1, <3>2, Zenon DEF GetWorker
  <2>2. CASE GetWorkerBorrowed(j)
    BY <2>0, <2>2, ReserveTypes, Zenon DEF GetWorkerBorrowed, Goto, ghosts
  <2>3. CASE GetWorkerRecord(j)
    <3>1. CASE StartReturn(j) /\ Goto(j, "failed") /\ UNCHANGED info
      BY <2>0, <2>3, <3>1, CallTypes, Zenon DEF GetWorkerRecord, Goto, store, ghosts
    <3>2. CASE info' = [info EXCEPT ![parent[j]].workers = @ \cup {j}]
               /\ Goto(j, "running") /\ UNCHANGED call
      <4>1. info' \in [Streams -> Infos]
        <5>1. CASE parent[j] \in Streams
          BY <3>2, <5>1, ZenonT(30) DEF Infos
        <5>2. CASE parent[j] \notin Streams
          BY <3>2, <5>2, Zenon DEF Infos
        <5> QED
          BY <5>1, <5>2, Zenon
      <4> QED
        BY <2>0, <2>3, <3>2, <4>1, Zenon DEF GetWorkerRecord, Infos, Goto, store, ghosts
    <3> QED
      BY <2>3, <3>1, <3>2, Zenon DEF GetWorkerRecord
  <2>4. CASE ReleaseWorker(j)
    BY <2>0, <2>4, CallTypes, Zenon DEF ReleaseWorker, Goto, store, ghosts
  <2> QED
    BY <1>3, <2>1, <2>2, <2>3, <2>4, Zenon DEF JobStep
<1>4. ASSUME NEW k \in Keys, KeyStep(k) PROVE TypeOK'
  <2>1. CASE Exhausted(k)
    BY <2>1, Zenon DEF Exhausted, Goto, store, ghosts
  <2>2. CASE BorrowAnswerLost(k)
    BY <2>2, ReserveTypes DEF BorrowAnswerLost, Fail, Goto
  <2>3. CASE ReturnGet(k)
    BY <2>3, CallTypes, Zenon DEF ReturnGet, store, ghosts
  <2>4. CASE ReturnDelete(k)
    <3> DEFINE d == workers[call[k].key] # NoWorker
    <3>1. [call[k] EXCEPT !.step = "decrement", !.deleted = d] \in Calls
      BY CallFields, Zenon
    <3>2. call' = [call EXCEPT ![k] =
                     [call[k] EXCEPT !.step = "decrement", !.deleted = d]]
      BY <2>4, Zenon DEF ReturnDelete
    <3>3. call' \in [Keys -> Calls]
      BY <3>1, <3>2, Zenon
    <3>4. workers' \in [Keys -> Rows \cup {NoWorker}]
      BY <2>4, Zenon DEF ReturnDelete
    <3> QED
      BY <2>4, <3>3, <3>4, Zenon DEF ReturnDelete, ghosts
  <2>5. CASE ReturnDeleteFails(k)
    <3>1. lost' \subseteq Keys
      BY <2>5, Zenon DEF ReturnDeleteFails, ReturnsWorker
    <3> QED
      BY <2>5, <3>1, CallTypes DEF ReturnDeleteFails, Fail, store
  <2>6. CASE ReturnDecrement(k)
    <3>1. quota' \in [Payers -> Nat] /\ overReturned' \in [Payers -> Nat]
      BY <2>6, CounterTypes, Zenon DEF ReturnDecrement, Calls
    <3> QED
      BY <2>6, <3>1, CallTypes, Zenon DEF ReturnDecrement
  <2>7. CASE ReturnDecrementFails(k)
    <3>1. unreturned' \in [Payers -> Nat]
      BY <2>7, CounterTypes, Zenon DEF ReturnDecrementFails
    <3> QED
      BY <2>7, <3>1, CallTypes DEF ReturnDecrementFails, Fail, store
  <2>8. CASE ReturnLost(k)
    <3>1. lost' \subseteq Keys
      BY <2>8, Zenon DEF ReturnLost, ReturnsWorker
    <3> QED
      BY <2>8, <3>1, CallTypes DEF ReturnLost, Fail, store
  <2> QED
    BY <1>4, <2>1, <2>2, <2>3, <2>4, <2>5, <2>6, <2>7, <2>8, Zenon DEF KeyStep
<1>5. CASE UNCHANGED vars
  BY <1>5, Zenon DEF vars
<1> QED
  BY <1>1, <1>2, <1>3, <1>4, <1>5, Zenon DEF Next

-----------------------------------------------------------------------------
(* The lives of keys and of the calls about them.                           *)

\* The key's borrow got past the reservation, or was refused.
Taken(k) == pc[k] \notin {"idle", "reserve"}

\* A row is that of its request.
RowsInv == \A k \in Keys :
  /\ pc[k] \notin {"idle", "failed"} => request[k] \in Rows
  /\ workers[k] # NoWorker => Taken(k) /\ workers[k] = request[k]

\* A caller that is still to act has no goroutine yet, and the goroutines are
\* about keys that were borrowed.
CallsInv == \A k \in Keys :
  /\ call[k].step # "none" => pc[k] \in {"failed", "closed", "done"}
  /\ call[k].key \in Keys => Taken(call[k].key)
  /\ \A j \in call[k].todo : Taken(j)
  /\ call[k].deleted => call[k].step = "decrement"

\* So are the workers a session of the pool knows.
PoolInv == \A k \in Streams : \A j \in info[k].workers : Taken(j)

LifeInv == RowsInv /\ CallsInv /\ PoolInv

\* What the goroutine of a release has done when it is at a step.
ReleaseInv ==
  /\ \A k \in Keys :
       /\ call[k].step \in {"begin", "drop"} => k \in Streams /\ call[k].key = NoWorker
       /\ call[k].step \in {"none", "begin"} => call[k].todo = {}
  /\ \A k \in Streams : call[k].step = "drop" => info[k].released
  /\ \A j \in Jobs : pc[j] \in {"reserve", "record", "running"}
                       => parent[j] \in Streams

\* The call that follows a call returns what the call was left with.
LEMMA NextReturnLife ==
  ASSUME NEW k \in Keys, NEW c \in Calls
  PROVE  LET n == NextReturn(k, c) IN
         /\ n.deleted = FALSE
         /\ n.step \in {"none", "get"}
         /\ n.key \in c.todo \cup {k, NoWorker}
         /\ n.step = "get" => n.key \in Keys
         /\ n.todo \subseteq c.todo
         /\ \A w \in c.todo : w \in n.todo \/ (n.step = "get" /\ n.key = w)
         /\ c.key # k => n.step = "get"
         /\ n.step = "none" => n.todo = {}
<1>1. CASE c.todo # {}
  <2> DEFINE w == CHOOSE w \in c.todo : TRUE
  <2>1. w \in c.todo /\ w \in Keys
    BY <1>1, Zenon DEF Calls, Keys
  <2>2. NextReturn(k, c)
          = [step |-> "get", key |-> w, todo |-> c.todo \ {w}, deleted |-> FALSE]
    BY <1>1, Zenon DEF NextReturn
  <2> HIDE DEF w
  <2> QED
    BY <2>1, <2>2
<1>2. CASE c.todo = {} /\ c.key # k
  BY <1>2, Zenon DEF NextReturn, Calls
<1>3. CASE c.todo = {} /\ c.key = k
  BY <1>3, Zenon DEF NextReturn, NoCall
<1> QED
  BY <1>1, <1>2, <1>3, Zenon

\* A borrowed key stays borrowed, and one that is over stays over.
Onward == \A k \in Keys :
  /\ Taken(k) => Taken(k)'
  /\ pc[k] \in {"failed", "closed", "done"} => pc'[k] = pc[k]

\* Every step goes that way.
LEMMA PlaceStep ==
  ASSUME TypeOK, [Next]_vars
  PROVE  Onward
<1> USE DEF TypeOK, Onward, Taken, Keys
<1>1. ASSUME NEW s \in Sessions, EndSession(s) PROVE Onward
  BY <1>1, Zenon DEF EndSession, store, ghosts
<1>2. ASSUME NEW k \in Streams, NEW s \in Sessions, NEW p \in Payers, Get(k, s, p)
      PROVE  Onward
  BY <1>2, Zenon DEF Get, BorrowAuthorize, Worker, Goto, store, ghosts
<1>3. ASSUME NEW k \in Streams, GetBorrowed(k) PROVE Onward
  BY <1>3, Zenon DEF GetBorrowed, CreateAndReserve, Goto, ghosts
<1>4. ASSUME NEW k \in Streams, Release(k) PROVE Onward
  BY <1>4, Zenon DEF Release, Goto, NoCall, store, ghosts
<1>5. ASSUME NEW k \in Streams, BeginRelease(k) PROVE Onward
  BY <1>5, Zenon DEF BeginRelease, store, ghosts
<1>6. ASSUME NEW k \in Streams, DropSession(k) PROVE Onward
  BY <1>6, NextReturnLife, Zenon DEF DropSession, NoInfo, store, ghosts
<1>7. ASSUME NEW k \in Streams, KeepAliveTick(k) PROVE Onward
  BY <1>7, Zenon DEF KeepAliveTick, store, ghosts
<1>8. ASSUME NEW j \in Jobs, NEW k \in Streams, GetWorker(j, k) PROVE Onward
  BY <1>8, Zenon DEF GetWorker, BorrowAuthorize, Goto, store, ghosts
<1>9. ASSUME NEW j \in Jobs, GetWorkerBorrowed(j) PROVE Onward
  BY <1>9, Zenon DEF GetWorkerBorrowed, CreateAndReserve, Goto, ghosts
<1>10. ASSUME NEW j \in Jobs, GetWorkerRecord(j) PROVE Onward
  BY <1>10, Zenon DEF GetWorkerRecord, StartReturn, NoCall, Goto, store, ghosts
<1>11. ASSUME NEW j \in Jobs, ReleaseWorker(j) PROVE Onward
  BY <1>11, Zenon DEF ReleaseWorker, StartReturn, NoCall, Goto, store, ghosts
<1>12. ASSUME NEW k \in Keys, Exhausted(k) PROVE Onward
  BY <1>12, Zenon DEF Exhausted, Goto, store, ghosts
<1>13. ASSUME NEW k \in Keys, BorrowAnswerLost(k) PROVE Onward
  BY <1>13, Zenon DEF BorrowAnswerLost, CreateAndReserve, Fail, Goto
<1>14. ASSUME NEW k \in Keys, ReturnGet(k) PROVE Onward
  BY <1>14, NextReturnLife, Zenon DEF ReturnGet, Finish, Step, store, ghosts
<1>15. ASSUME NEW k \in Keys, ReturnDelete(k) PROVE Onward
  BY <1>15, Zenon DEF ReturnDelete, ghosts
<1>16. ASSUME NEW k \in Keys, ReturnDeleteFails(k) PROVE Onward
  BY <1>16, Zenon DEF ReturnDeleteFails, Fail, Step, store
<1>17. ASSUME NEW k \in Keys, ReturnDecrement(k) PROVE Onward
  BY <1>17, NextReturnLife, Zenon DEF ReturnDecrement, Finish
<1>18. ASSUME NEW k \in Keys, ReturnDecrementFails(k) PROVE Onward
  BY <1>18, NextReturnLife, Zenon DEF ReturnDecrementFails, Fail, Finish, store
<1>19. ASSUME NEW k \in Keys, ReturnLost(k) PROVE Onward
  BY <1>19, NextReturnLife, Zenon DEF ReturnLost, Fail, Finish, store
<1>20. CASE UNCHANGED vars
  BY <1>20, Zenon DEF vars
<1> QED
  BY <1>1, <1>2, <1>3, <1>4, <1>5, <1>6, <1>7, <1>8, <1>9, <1>10, <1>11,
  <1>12, <1>13, <1>14, <1>15, <1>16, <1>17, <1>18, <1>19, <1>20, Zenon DEF
  Next, StreamStep, JobStep, KeyStep

\* A call set up with borrowed keys leaves the calls about borrowed keys.
LEMMA CallLife ==
  ASSUME TypeInv, CallsInv, Onward, NEW k \in Keys, NEW n \in Calls,
         call' = [call EXCEPT ![k] = n],
         n.deleted = FALSE,
         n.step \in {"get", "delete", "decrement"} => n.key \in Keys,
         n.step # "none" => pc'[k] \in {"failed", "closed", "done"},
         n.key \in Keys => pc'[n.key] \notin {"idle", "reserve"},
         \A j \in n.todo : pc'[j] \notin {"idle", "reserve"}
  PROVE  ReturnsWorker' /\ CallsInv'
<1> USE DEF TypeInv, TypeOK, Onward, Taken
<1>1. ReturnsWorker'
  BY Zenon DEF ReturnsWorker
<1>2. ASSUME NEW c \in Keys
      PROVE  /\ call'[c].step # "none" => pc'[c] \in {"failed", "closed", "done"}
             /\ call'[c].key \in Keys => pc'[call'[c].key] \notin {"idle", "reserve"}
             /\ \A j \in call'[c].todo : pc'[j] \notin {"idle", "reserve"}
             /\ call'[c].deleted => call'[c].step = "decrement"
  <2>1. CASE c = k
    <3>1. call'[c] = n
      BY <2>1, Zenon
    <3> QED
      BY <2>1, <3>1, Zenon
  <2>2. CASE c # k
    <3>1. call'[c] = call[c]
      BY <2>2, Zenon
    <3>2. call[c] \in Calls /\ Jobs \subseteq Keys
      BY Zenon DEF Keys
    <3>3. call[c].todo \subseteq Keys
      BY <3>2, Zenon DEF Calls
    <3> QED
      BY <3>1, <3>3, Zenon DEF CallsInv
  <2> QED
    BY <2>1, <2>2, Zenon
<1> QED
  BY <1>1, <1>2, Zenon DEF CallsInv

\* The goroutine's next call is about borrowed keys too.
LEMMA FinishLife ==
  ASSUME TypeInv, CallsInv, Onward, NEW k \in Keys, call[k].step # "none", Finish(k)
  PROVE  ReturnsWorker' /\ CallsInv'
<1>1. call[k] \in Calls
  BY Zenon DEF TypeInv, TypeOK
<1> DEFINE n == NextReturn(k, call[k])
<1>2. /\ n.deleted = FALSE
      /\ n.key \in call[k].todo \cup {k, NoWorker}
      /\ n.step = "get" => n.key \in Keys
      /\ n.step \in {"none", "get"}
      /\ n.todo \subseteq call[k].todo
  BY <1>1, NextReturnLife, Zenon
<1>3. call' = [call EXCEPT ![k] = n] /\ n \in Calls
  BY <1>1, NextReturnType, Zenon DEF Finish
<1>4. pc'[k] \in {"failed", "closed", "done"}
  BY Zenon DEF CallsInv, Onward
<1> HIDE DEF n
<1>5. \A j \in call[k].todo : j \in Keys /\ pc'[j] \notin {"idle", "reserve"}
  <2>1. call[k].todo \subseteq Keys
    BY <1>1, Zenon DEF Calls, Keys
  <2> QED
    BY <2>1, Zenon DEF CallsInv, Onward, Taken
<1>6. NoWorker \notin Keys
  BY WorkerPoolAssumption, Zenon
<1> QED
  BY <1>2, <1>3, <1>4, <1>5, <1>6, CallLife, Zenon

\* The calls a release and a return start with.
LEMMA FirstCalls ==
  /\ LET n == [NoCall EXCEPT !.step = "begin"] IN
     /\ n \in Calls /\ n.step = "begin" /\ n.key = NoWorker
     /\ n.todo = {} /\ n.deleted = FALSE
  /\ \A j \in Keys :
       LET n == [NoCall EXCEPT !.step = "get", !.key = j] IN
       /\ n \in Calls /\ n.step = "get" /\ n.key = j
       /\ n.todo = {} /\ n.deleted = FALSE
BY Zenon DEF NoCall, Calls

\* Lives go on in this order.
LEMMA LifeStep ==
  ASSUME TypeInv, LifeInv, [Next]_vars
  PROVE  ReturnsWorker' /\ LifeInv'
<1> DEFINE Goal == ReturnsWorker' /\ LifeInv'
<1>0. Onward
  BY PlaceStep, Zenon DEF TypeInv
<1> USE DEF TypeInv, TypeOK, LifeInv, RowsInv, CallsInv, PoolInv,
ReturnsWorker, Onward, Taken, Keys, Calls
<1>1. ASSUME NEW s \in Sessions, EndSession(s) PROVE Goal
  BY <1>1, <1>0, Zenon DEF EndSession, store, ghosts
<1>2. ASSUME NEW k \in Streams, NEW s \in Sessions, NEW p \in Payers, Get(k, s, p)
      PROVE  Goal
  <2>1. CASE Goto(k, "failed") /\ UNCHANGED request
    BY <1>2, <1>0, <2>1, Zenon DEF Get, Goto, store, ghosts
  <2>2. CASE Goto(k, "reserve") /\ request' = [request EXCEPT ![k] = Worker(s, p)]
    <3>1. Worker(s, p) \in Rows
      BY Zenon DEF Worker, Rows
    <3>2. k \in Keys /\ workers[k] = NoWorker
      BY <1>2, Zenon DEF Get
    <3> QED
      BY <1>2, <1>0, <2>2, <3>1, <3>2, Zenon DEF Get, Goto, store, ghosts
  <2> QED
    BY <1>2, <2>1, <2>2, Zenon DEF Get, BorrowAuthorize
<1>3. ASSUME NEW k \in Streams, GetBorrowed(k) PROVE Goal
  BY <1>3, <1>0 DEF GetBorrowed, CreateAndReserve, Goto, ghosts
<1>4. ASSUME NEW k \in Streams, Release(k) PROVE Goal
  <2>1. k \in Keys /\ pc' = [pc EXCEPT ![k] = "closed"]
    BY <1>4, Zenon DEF Release, Goto
  <2> DEFINE n == [NoCall EXCEPT !.step = "begin"]
  <2>2. call' = [call EXCEPT ![k] = n]
    BY <1>4, Zenon DEF Release
  <2>3. NoWorker \notin Keys
    BY WorkerPoolAssumption, Zenon
  <2>4. CallsInv' /\ ReturnsWorker'
    <3>1. /\ n \in Calls /\ n.step = "begin" /\ n.key = NoWorker
          /\ n.todo = {} /\ n.deleted = FALSE
      BY FirstCalls, Zenon
    <3>2. pc'[k] = "closed"
      BY <2>1, Zenon
    <3>3. TypeInv /\ CallsInv
      OBVIOUS
    <3> HIDE DEF n, TypeInv, TypeOK, CallsInv, ReturnsWorker, Onward, Calls, Keys
    <3> QED
      BY <1>0, <2>1, <2>2, <2>3, <3>1, <3>2, <3>3, CallLife, Zenon
  <2>5. RowsInv' /\ PoolInv'
    BY <1>4, <1>0, <2>1, Zenon DEF Release, store, ghosts
  <2> QED
    BY <2>4, <2>5, Zenon
<1>5. ASSUME NEW k \in Streams, BeginRelease(k) PROVE Goal
  BY <1>5, <1>0 DEF BeginRelease, store, ghosts
<1>6. ASSUME NEW k \in Streams, DropSession(k) PROVE Goal
  <2>1. RowsInv' /\ PoolInv'
    BY <1>6, <1>0, Zenon DEF DropSession, NoInfo, store, ghosts
  <2>2. ReturnsWorker' /\ CallsInv'
    <3> HIDE DEF LifeInv, CallsInv, ReturnsWorker
    <3> QED
      BY <1>6, <1>0, FinishLife, Zenon DEF LifeInv, DropSession, Finish
  <2> QED
    BY <2>1, <2>2, Zenon
<1>7. ASSUME NEW k \in Streams, KeepAliveTick(k) PROVE Goal
  BY <1>7, <1>0, Zenon DEF KeepAliveTick, store, ghosts
<1>8. ASSUME NEW j \in Jobs, NEW k \in Streams, GetWorker(j, k) PROVE Goal
  BY <1>8, <1>0 DEF GetWorker, BorrowAuthorize, Goto, store, ghosts
<1>9. ASSUME NEW j \in Jobs, GetWorkerBorrowed(j) PROVE Goal
  BY <1>9, <1>0, Zenon DEF GetWorkerBorrowed, CreateAndReserve, Goto, ghosts
<1>10. ASSUME NEW j \in Jobs, GetWorkerRecord(j) PROVE Goal
  <2>1. CASE StartReturn(j) /\ Goto(j, "failed") /\ UNCHANGED info
    <3>1. j \in Keys /\ pc' = [pc EXCEPT ![j] = "failed"] /\ Taken(j)
      BY <1>10, <2>1, Zenon DEF GetWorkerRecord, Goto
    <3> DEFINE n == [NoCall EXCEPT !.step = "get", !.key = j]
    <3>2. call' = [call EXCEPT ![j] = n]
      BY <2>1, Zenon DEF StartReturn
    <3>3. CallsInv' /\ ReturnsWorker'
      <4>1. /\ n \in Calls /\ n.step = "get" /\ n.key = j
            /\ n.todo = {} /\ n.deleted = FALSE
        BY <3>1, FirstCalls, Zenon
      <4>2. pc'[j] = "failed"
        BY <3>1, Zenon
      <4>3. TypeInv /\ CallsInv
        OBVIOUS
      <4> HIDE DEF n, TypeInv, TypeOK, CallsInv, ReturnsWorker, Onward, Calls, Keys
      <4> QED
        BY <1>0, <3>1, <3>2, <4>1, <4>2, <4>3, CallLife, Zenon
    <3>4. RowsInv' /\ PoolInv'
      BY <1>10, <1>0, <2>1, <3>1, Zenon DEF GetWorkerRecord, store, ghosts
    <3> QED
      BY <3>3, <3>4, Zenon
  <2>2. CASE info' = [info EXCEPT ![parent[j]].workers = @ \cup {j}]
             /\ Goto(j, "running") /\ UNCHANGED call
    <3>1. j \in Keys /\ pc' = [pc EXCEPT ![j] = "running"] /\ pc[j] = "record"
      BY <1>10, <2>2, Zenon DEF GetWorkerRecord, Goto
    <3>2. CallsInv' /\ ReturnsWorker' /\ RowsInv'
      BY <1>10, <1>0, <2>2, <3>1, Zenon DEF GetWorkerRecord, store, ghosts
    <3>3. \A k \in Streams : info'[k].workers \subseteq info[k].workers \cup {j}
      BY <2>2
    <3>4. PoolInv'
      BY <1>0, <3>1, <3>3
    <3> QED
      BY <3>2, <3>4, Zenon
  <2> QED
    BY <1>10, <2>1, <2>2, Zenon DEF GetWorkerRecord
<1>11. ASSUME NEW j \in Jobs, ReleaseWorker(j) PROVE Goal
  BY <1>11, <1>0 DEF ReleaseWorker, StartReturn, NoCall, Goto, store, ghosts
<1>12. ASSUME NEW k \in Keys, Exhausted(k) PROVE Goal
  BY <1>12, <1>0, ZenonT(30) DEF Exhausted, Goto, store, ghosts
<1>13. ASSUME NEW k \in Keys, BorrowAnswerLost(k) PROVE Goal
  BY <1>13, <1>0, Zenon DEF BorrowAnswerLost, CreateAndReserve, Fail, Goto
<1>14. ASSUME NEW k \in Keys, ReturnGet(k) PROVE Goal
  <2>1. CASE Step(k, "delete")
    BY <1>14, <2>1, <1>0 DEF ReturnGet, Step, store, ghosts
  <2>2. CASE Finish(k)
    <3>1. RowsInv' /\ PoolInv'
      BY <1>14, <1>0, Zenon DEF ReturnGet, store, ghosts
    <3>2. ReturnsWorker' /\ CallsInv'
      BY <1>14, <1>0, <2>2, FinishLife, Zenon DEF ReturnGet
    <3> QED
      BY <3>1, <3>2, Zenon
  <2> QED
    BY <1>14, <2>1, <2>2, Zenon DEF ReturnGet
<1>15. ASSUME NEW k \in Keys, ReturnDelete(k) PROVE Goal
  BY <1>15, <1>0 DEF ReturnDelete, ghosts
<1>16. ASSUME NEW k \in Keys, ReturnDeleteFails(k) PROVE Goal
  BY <1>16, <1>0 DEF ReturnDeleteFails, Fail, Step, store
<1>17. ASSUME NEW k \in Keys, ReturnDecrement(k) PROVE Goal
  <2>1. RowsInv' /\ PoolInv'
    BY <1>17, <1>0, Zenon DEF ReturnDecrement, NoInfo, Finish
  <2>2. ReturnsWorker' /\ CallsInv'
    <3> HIDE DEF LifeInv, CallsInv, ReturnsWorker
    <3> QED
      BY <1>17, <1>0, FinishLife, Zenon DEF LifeInv, ReturnDecrement, Finish
  <2> QED
    BY <2>1, <2>2, Zenon
<1>18. ASSUME NEW k \in Keys, ReturnDecrementFails(k) PROVE Goal
  <2>1. RowsInv' /\ PoolInv'
    BY <1>18, <1>0, Zenon DEF ReturnDecrementFails, NoInfo, Fail, store
  <2>2. ReturnsWorker' /\ CallsInv'
    <3> HIDE DEF LifeInv, CallsInv, ReturnsWorker
    <3> QED
      BY <1>18, <1>0, FinishLife, Zenon DEF LifeInv, ReturnDecrementFails, Finish
  <2> QED
    BY <2>1, <2>2, Zenon
<1>19. ASSUME NEW k \in Keys, ReturnLost(k) PROVE Goal
  <2>1. RowsInv' /\ PoolInv'
    BY <1>19, <1>0, Zenon DEF ReturnLost, NoInfo, Fail, store
  <2>2. ReturnsWorker' /\ CallsInv'
    <3> HIDE DEF LifeInv, CallsInv, ReturnsWorker
    <3> QED
      BY <1>19, <1>0, FinishLife, Zenon DEF LifeInv, ReturnLost, Finish
  <2> QED
    BY <2>1, <2>2, Zenon
<1>20. CASE UNCHANGED vars
  BY <1>20, Zenon DEF vars
<1> QED
  BY <1>1, <1>2, <1>3, <1>4, <1>5, <1>6, <1>7, <1>8, <1>9, <1>10, <1>11,
  <1>12, <1>13, <1>14, <1>15, <1>16, <1>17, <1>18, <1>19, <1>20, Zenon DEF
  Next, StreamStep, JobStep, KeyStep

\* What the goroutine of a release has done stays done.
LEMMA ReleaseStep ==
  ASSUME TypeInv, LifeInv, ReleaseInv, [Next]_vars
  PROVE  ReleaseInv'
<1> USE DEF TypeInv, TypeOK, LifeInv, CallsInv, ReleaseInv, Keys, Calls
<1>1. ASSUME NEW s \in Sessions, EndSession(s) PROVE ReleaseInv'
  BY <1>1, Zenon DEF EndSession, store, ghosts
<1>2. ASSUME NEW k \in Streams, NEW s \in Sessions, NEW p \in Payers, Get(k, s, p)
      PROVE  ReleaseInv'
  <2>1. \A j \in Jobs : pc'[j] = pc[j]
    BY <1>2, WorkerPoolAssumption DEF Get, BorrowAuthorize, Goto
  <2> QED
    BY <1>2, <2>1, Zenon DEF Get, store, ghosts
<1>3. ASSUME NEW k \in Streams, GetBorrowed(k) PROVE ReleaseInv'
  BY <1>3, Zenon DEF GetBorrowed, CreateAndReserve, Goto, ghosts
<1>4. ASSUME NEW k \in Streams, Release(k) PROVE ReleaseInv'
  BY <1>4, Zenon DEF Release, Goto, NoCall, store, ghosts
<1>5. ASSUME NEW k \in Streams, BeginRelease(k) PROVE ReleaseInv'
  BY <1>5 DEF BeginRelease, store, ghosts
<1>6. ASSUME NEW k \in Streams, DropSession(k) PROVE ReleaseInv'
  <2> DEFINE n == NextReturn(k, call[k])
  <2>1. k \in Keys /\ call[k] \in Calls
    OBVIOUS
  <2>2. n.step \in {"none", "get"} /\ (n.step = "none" => n.todo = {})
    BY <2>1, NextReturnLife, Zenon
  <2>3. call' = [call EXCEPT ![k] = n]
    BY <1>6, Zenon DEF DropSession
  <2> HIDE DEF n
  <2>4. \A s \in Streams : s # k => info'[s] = info[s]
    BY <1>6, Zenon DEF DropSession
  <2> QED
    BY <1>6, <2>2, <2>3, <2>4 DEF DropSession, store, ghosts
<1>7. ASSUME NEW k \in Streams, KeepAliveTick(k) PROVE ReleaseInv'
  BY <1>7, Zenon DEF KeepAliveTick, store, ghosts
<1>8. ASSUME NEW j \in Jobs, NEW k \in Streams, GetWorker(j, k) PROVE ReleaseInv'
  BY <1>8 DEF GetWorker, BorrowAuthorize, Goto, store, ghosts
<1>9. ASSUME NEW j \in Jobs, GetWorkerBorrowed(j) PROVE ReleaseInv'
  BY <1>9, Zenon DEF GetWorkerBorrowed, CreateAndReserve, Goto, ghosts
<1>10. ASSUME NEW j \in Jobs, GetWorkerRecord(j) PROVE ReleaseInv'
  <2>1. pc[j] = "record" /\ j \in Keys /\ call[j].step = "none" /\ parent[j] \in Streams
    BY <1>10, Zenon DEF GetWorkerRecord
  <2>2. \A i \in Keys : pc'[i] \in {"reserve", "record", "running"}
                         => pc[i] \in {"reserve", "record", "running"}
    BY <1>10, <2>1, Zenon DEF GetWorkerRecord, Goto
  <2>3. \A s \in Streams : info'[s].released = info[s].released
    BY <1>10, <2>1, SMTT(20) DEF GetWorkerRecord
  <2>4. CASE UNCHANGED call
    BY <1>10, <2>2, <2>3, <2>4, Zenon DEF GetWorkerRecord
  <2>5. CASE StartReturn(j)
    <3> DEFINE n == [NoCall EXCEPT !.step = "get", !.key = j]
    <3>1. n.step = "get" /\ call' = [call EXCEPT ![j] = n]
      BY <2>1, <2>5, FirstCalls, Zenon DEF StartReturn
    <3> HIDE DEF n
    <3> QED
      BY <1>10, <2>1, <2>2, <2>3, <3>1, Zenon DEF GetWorkerRecord
  <2> QED
    BY <1>10, <2>4, <2>5, Zenon DEF GetWorkerRecord
<1>11. ASSUME NEW j \in Jobs, ReleaseWorker(j) PROVE ReleaseInv'
  BY <1>11, ZenonT(30) DEF ReleaseWorker, StartReturn, NoCall, Goto, store, ghosts
<1>12. ASSUME NEW k \in Keys, Exhausted(k) PROVE ReleaseInv'
  BY <1>12, Zenon DEF Exhausted, Goto, store, ghosts
<1>13. ASSUME NEW k \in Keys, BorrowAnswerLost(k) PROVE ReleaseInv'
  BY <1>13, Zenon DEF BorrowAnswerLost, CreateAndReserve, Fail, Goto
<1>14. ASSUME NEW k \in Keys, ReturnGet(k) PROVE ReleaseInv'
  <2>1. CASE Step(k, "delete")
    BY <1>14, <2>1, ZenonT(30) DEF ReturnGet, Step, store, ghosts
  <2>2. CASE Finish(k)
    <3> DEFINE n == NextReturn(k, call[k])
    <3>1. n.step \in {"none", "get"} /\ (n.step = "none" => n.todo = {})
      BY NextReturnLife, Zenon
    <3>2. call' = [call EXCEPT ![k] = n]
      BY <2>2, Zenon DEF Finish
    <3> HIDE DEF n
    <3> QED
      BY <1>14, <3>1, <3>2, Zenon DEF ReturnGet, store, ghosts
  <2> QED
    BY <1>14, <2>1, <2>2, Zenon DEF ReturnGet
<1>15. ASSUME NEW k \in Keys, ReturnDelete(k) PROVE ReleaseInv'
  BY <1>15, ZenonT(30) DEF ReturnDelete, ghosts
<1>16. ASSUME NEW k \in Keys, ReturnDeleteFails(k) PROVE ReleaseInv'
  BY <1>16, ZenonT(30) DEF ReturnDeleteFails, Fail, Step, store
<1>17. ASSUME NEW k \in Keys, ReturnDecrement(k) PROVE ReleaseInv'
  BY <1>17, NextReturnLife, Zenon DEF ReturnDecrement, Finish
<1>18. ASSUME NEW k \in Keys, ReturnDecrementFails(k) PROVE ReleaseInv'
  BY <1>18, NextReturnLife, Zenon DEF ReturnDecrementFails, Fail, Finish, store
<1>19. ASSUME NEW k \in Keys, ReturnLost(k) PROVE ReleaseInv'
  BY <1>19, NextReturnLife, Zenon DEF ReturnLost, Fail, Finish, store
<1>20. CASE UNCHANGED vars
  BY <1>20, Zenon DEF vars
<1> QED
  BY <1>1, <1>2, <1>3, <1>4, <1>5, <1>6, <1>7, <1>8, <1>9, <1>10, <1>11,
  <1>12, <1>13, <1>14, <1>15, <1>16, <1>17, <1>18, <1>19, <1>20, Zenon DEF
  Next, StreamStep, JobStep, KeyStep

-----------------------------------------------------------------------------
(* Returns.                                                                 *)

\* A call on its way leaves only the worker it is about behind.
LEMMA FinishReturning ==
  ASSUME TypeInv, NEW k \in Keys, call[k].step # "none", Finish(k),
         NEW w \in Keys, Returning(w)
  PROVE  Returning(w)' \/ (call[k].step \in {"get", "delete"} /\ call[k].key = w)
<1> DEFINE n == NextReturn(k, call[k])
<1>1. call[k] \in Calls
  BY Zenon DEF TypeInv, TypeOK
<1>2. /\ n.step \in {"none", "get"}
      /\ \A i \in call[k].todo : i \in n.todo \/ (n.step = "get" /\ n.key = i)
      /\ call[k].key # k => n.step = "get"
  BY <1>1, NextReturnLife, Zenon
<1>3. call'[k] = n /\ \A c \in Keys : c # k => call'[c] = call[c]
  BY Zenon DEF Finish, TypeInv, TypeOK
<1> HIDE DEF n
<1>4. PICK c \in Keys :
        \/ w \in call[c].todo
        \/ call[c].step \in {"get", "delete"} /\ call[c].key = w
        \/ c = w /\ call[c].step # "none" /\ call[c].key # w
  BY Zenon DEF Returning
<1>5. CASE c # k
  BY <1>3, <1>4, <1>5, Zenon DEF Returning
<1>6. CASE c = k
  BY <1>2, <1>3, <1>4, <1>6, Zenon DEF Returning
<1> QED
  BY <1>5, <1>6, Zenon

\* A goroutine that starts leaves the others alone.
LEMMA StartReturning ==
  ASSUME TypeInv, ReleaseInv, NEW k \in Keys, call[k].step \in {"none", "begin"}, NEW n,
         call' = [call EXCEPT ![k] = n], NEW w \in Keys, w # k, Returning(w)
  PROVE  Returning(w)'
<1>1. call'[k] = n /\ \A c \in Keys : c # k => call'[c] = call[c]
  BY Zenon DEF TypeInv, TypeOK
<1>2. call[k].todo = {}
  BY Zenon DEF ReleaseInv
<1> QED
  BY <1>1, <1>2, Zenon DEF Returning

\* Where a live row belongs.
Kept(k) ==
  \/ k \in lost
  \/ k \in Streams /\ pc[k] \in {"open", "stopped"}
  \/ k \in Jobs /\ pc[k] = "record"
  \/ k \in Jobs /\ pc[k] = "running" /\ k \in info[parent[k]].workers
                /\ ~info[parent[k]].released
  \/ Returning(k)

\* No step forgets a live row.
LEMMA OrphanStep ==
  ASSUME TypeInv, LifeInv, ReleaseInv, NoWorkerOrphaned, [Next]_vars
  PROVE  NoWorkerOrphaned'
<1> SUFFICES ASSUME NEW w \in Keys, (workers[w] # NoWorker)' PROVE Kept(w)'
  BY Zenon DEF NoWorkerOrphaned, Kept
<1>0. /\ workers[w] # NoWorker => Kept(w) /\ pc[w] \notin {"idle", "reserve"}
      /\ w \in Jobs /\ pc[w] = "running" => parent[w] \in Streams
      /\ Streams \cap Jobs = {}
  BY WorkerPoolAssumption, Zenon
    DEF NoWorkerOrphaned, Kept, LifeInv, RowsInv, Taken, ReleaseInv
<1> USE DEF TypeInv, TypeOK, Kept, Keys
<1>1. ASSUME NEW s \in Sessions, EndSession(s) PROVE Kept(w)'
  <2>1. Returning(w)' <=> Returning(w)
    BY <1>1, Zenon DEF EndSession, Returning
  <2> QED
    BY <1>1, <1>0, <2>1, Zenon DEF EndSession, store, ghosts
<1>2. ASSUME NEW k \in Streams, NEW s \in Sessions, NEW p \in Payers, Get(k, s, p)
      PROVE  Kept(w)'
  <2>1. Returning(w)' <=> Returning(w)
    BY <1>2, Zenon DEF Get, Returning
  <2> QED
    BY <1>2, <1>0, <2>1, Zenon DEF Get, BorrowAuthorize, Worker, Goto, store, ghosts
<1>3. ASSUME NEW k \in Streams, GetBorrowed(k) PROVE Kept(w)'
  <2>1. Returning(w)' <=> Returning(w)
    BY <1>3, Zenon DEF GetBorrowed, Returning
  <2>2. \A s \in Streams : info'[s].workers = info[s].workers
                            /\ info'[s].released = info[s].released
    BY <1>3, Zenon DEF GetBorrowed
  <2> QED
    BY <1>3, <1>0, <2>1, <2>2, Zenon DEF GetBorrowed, CreateAndReserve, Goto, ghosts
<1>4. ASSUME NEW k \in Streams, Release(k) PROVE Kept(w)'
  <2> DEFINE n == [NoCall EXCEPT !.step = "begin"]
  <2>1. k \in Keys /\ call[k].step = "none" /\ call' = [call EXCEPT ![k] = n]
    BY <1>4, Zenon DEF Release, LifeInv, CallsInv
  <2>2. n.step = "begin" /\ n.key = NoWorker /\ NoWorker \notin Keys
    BY FirstCalls, WorkerPoolAssumption, Zenon
  <2> HIDE DEF n
  <2>3. CASE w = k
    BY <2>1, <2>2, <2>3, Zenon DEF Returning
  <2>4. CASE w # k
    <3>1. Returning(w) => Returning(w)'
      BY <2>1, <2>4, StartReturning, Zenon
    <3> QED
      BY <1>4, <1>0, <2>4, <3>1, Zenon DEF Release, Goto, store, ghosts
  <2> QED
    BY <2>3, <2>4, Zenon
<1>5. ASSUME NEW k \in Streams, BeginRelease(k) PROVE Kept(w)'
  <2> DEFINE n == [call[k] EXCEPT !.step = "drop", !.todo = info[k].workers]
  <2>1. k \in Keys /\ call[k].step = "begin" /\ call' = [call EXCEPT ![k] = n]
    BY <1>5, Zenon DEF BeginRelease
  <2>2. call[k].key = NoWorker /\ NoWorker \notin Keys /\ call[k] \in Calls
    BY <2>1, WorkerPoolAssumption, Zenon DEF ReleaseInv
  <2>3. n.step = "drop" /\ n.key = NoWorker /\ n.todo = info[k].workers
    BY <2>2, Zenon DEF Calls
  <2> HIDE DEF n
  <2>4. CASE w = k
    <3>1. call'[k] = n
      BY <2>1, Zenon
    <3>2. call'[k].step # "none" /\ call'[k].key # k
      BY <3>1, <2>1, <2>2, <2>3, SMT
    <3> QED
      BY <2>1, <2>4, <3>2, Zenon DEF Returning
  <2>5. CASE w \in info[k].workers
    BY <2>1, <2>3, <2>5, Zenon DEF Returning
  <2>6. CASE w # k /\ w \notin info[k].workers
    <3>1. Returning(w) => Returning(w)'
      BY <2>1, <2>6, StartReturning, Zenon
    <3>2. \A s \in Streams : s # k => info'[s] = info[s]
      BY <1>5, Zenon DEF BeginRelease
    <3> QED
      BY <1>5, <1>0, <2>6, <3>1, <3>2, Zenon DEF BeginRelease, store, ghosts
  <2> QED
    BY <2>4, <2>5, <2>6, Zenon
<1>6. ASSUME NEW k \in Streams, DropSession(k) PROVE Kept(w)'
  <2>1. k \in Keys /\ call[k].step = "drop" /\ Finish(k)
    BY <1>6, Zenon DEF DropSession, Finish
  <2>2. Returning(w) => Returning(w)'
    BY <2>1, FinishReturning, Zenon
  <2>3. info[k].released /\ \A s \in Streams : s # k => info'[s] = info[s]
    BY <1>6, <2>1, Zenon DEF DropSession, ReleaseInv
  <2> QED
    BY <1>6, <1>0, <2>2, <2>3, Zenon DEF DropSession, store, ghosts
<1>7. ASSUME NEW k \in Streams, KeepAliveTick(k) PROVE Kept(w)'
  <2>1. Returning(w)' <=> Returning(w)
    BY <1>7, Zenon DEF KeepAliveTick, Returning
  <2> QED
    BY <1>7, <1>0, <2>1, Zenon DEF KeepAliveTick, store, ghosts
<1>8. ASSUME NEW j \in Jobs, NEW k \in Streams, GetWorker(j, k) PROVE Kept(w)'
  <2>1. Returning(w)' <=> Returning(w)
    BY <1>8, Zenon DEF GetWorker, Returning
  <2> QED
    BY <1>8, <1>0, <2>1, ZenonT(30) DEF GetWorker, BorrowAuthorize, Goto, store, ghosts
<1>9. ASSUME NEW j \in Jobs, GetWorkerBorrowed(j) PROVE Kept(w)'
  <2>1. Returning(w)' <=> Returning(w)
    BY <1>9, Zenon DEF GetWorkerBorrowed, Returning
  <2> QED
    BY <1>9, <1>0, <2>1, Zenon DEF GetWorkerBorrowed, CreateAndReserve, Goto, ghosts
<1>10. ASSUME NEW j \in Jobs, GetWorkerRecord(j) PROVE Kept(w)'
  <2>1. j \in Keys /\ pc[j] = "record" /\ call[j].step = "none" /\ parent[j] \in Streams
    BY <1>10, Zenon DEF GetWorkerRecord, LifeInv, CallsInv, ReleaseInv
  <2>2. CASE StartReturn(j) /\ Goto(j, "failed") /\ UNCHANGED info
    <3> DEFINE n == [NoCall EXCEPT !.step = "get", !.key = j]
    <3>1. n.step = "get" /\ n.key = j /\ call' = [call EXCEPT ![j] = n]
      BY <2>1, <2>2, FirstCalls, Zenon DEF StartReturn
    <3> HIDE DEF n
    <3>2. CASE w = j
      BY <2>1, <3>1, <3>2, Zenon DEF Returning
    <3>3. CASE w # j
      <4>1. Returning(w) => Returning(w)'
        BY <2>1, <3>1, <3>3, StartReturning, Zenon
      <4> QED
        BY <1>10, <1>0, <2>2, <3>3, <4>1, Zenon DEF GetWorkerRecord, Goto, store, ghosts
    <3> QED
      BY <3>2, <3>3, Zenon
  <2>3. CASE CanAddWorker(parent[j]) /\ Goto(j, "running") /\ UNCHANGED call
             /\ info' = [info EXCEPT ![parent[j]].workers = @ \cup {j}]
    <3>1. Returning(w)' <=> Returning(w)
      BY <2>3, Zenon DEF Returning
    <3>2. /\ j \in info'[parent[j]].workers
          /\ \A s \in Streams : info[s].workers \subseteq info'[s].workers
                                 /\ info'[s].released = info[s].released
      BY <2>1, <2>3, Zenon
    <3>3. ~info[parent[j]].released
      BY <2>3, Zenon DEF CanAddWorker
    <3> QED
      BY <1>10, <1>0, <2>1, <2>3, <3>1, <3>2, <3>3, ZenonT(30) DEF GetWorkerRecord, Goto, store, ghosts
  <2> QED
    BY <1>10, <2>2, <2>3, Zenon DEF GetWorkerRecord
<1>11. ASSUME NEW j \in Jobs, ReleaseWorker(j) PROVE Kept(w)'
  <2> DEFINE n == [NoCall EXCEPT !.step = "get", !.key = j]
  <2>1. j \in Keys /\ call[j].step = "none"
    BY <1>11, Zenon DEF ReleaseWorker, LifeInv, CallsInv
  <2>2. n.step = "get" /\ n.key = j /\ call' = [call EXCEPT ![j] = n]
    BY <1>11, <2>1, FirstCalls, Zenon DEF ReleaseWorker, StartReturn
  <2> HIDE DEF n
  <2>3. CASE w = j
    BY <2>1, <2>2, <2>3, Zenon DEF Returning
  <2>4. CASE w # j
    <3>1. Returning(w) => Returning(w)'
      BY <2>1, <2>2, <2>4, StartReturning, Zenon
    <3>2. \A s \in Streams : info[s].workers \subseteq info'[s].workers \cup {j}
                              /\ info'[s].released = info[s].released
      BY <1>11, ZenonT(30) DEF ReleaseWorker
    <3> QED
      BY <1>11, <1>0, <2>4, <3>1, <3>2, Zenon DEF ReleaseWorker, Goto, store, ghosts
  <2> QED
    BY <2>3, <2>4, Zenon
<1>12. ASSUME NEW k \in Keys, Exhausted(k) PROVE Kept(w)'
  <2>1. Returning(w)' <=> Returning(w)
    BY <1>12, Zenon DEF Exhausted, Returning
  <2> QED
    BY <1>12, <1>0, <2>1, Zenon DEF Exhausted, Goto, store, ghosts
<1>13. ASSUME NEW k \in Keys, BorrowAnswerLost(k) PROVE Kept(w)'
  <2>1. Returning(w)' <=> Returning(w)
    BY <1>13, Zenon DEF BorrowAnswerLost, Returning
  <2> QED
    BY <1>13, <1>0, <2>1, Zenon DEF BorrowAnswerLost, CreateAndReserve, Fail, Goto
<1>14. ASSUME NEW k \in Keys, ReturnGet(k) PROVE Kept(w)'
  <2>1. CASE Step(k, "delete")
    <3>1. Returning(w) => Returning(w)'
      BY <1>14, <2>1 DEF ReturnGet, Step, Returning
    <3> QED
      BY <1>14, <1>0, <3>1, Zenon DEF ReturnGet, store, ghosts
  <2>2. CASE Finish(k) /\ workers[call[k].key] = NoWorker
    <3>1. call[k].key # w
      BY <1>14, <2>2, Zenon DEF ReturnGet, store
    <3>2. Returning(w) => Returning(w)'
      BY <1>14, <2>2, <3>1, FinishReturning, Zenon DEF ReturnGet
    <3> QED
      BY <1>14, <1>0, <3>2, Zenon DEF ReturnGet, store, ghosts
  <2> QED
    BY <1>14, <2>1, <2>2, Zenon DEF ReturnGet
<1>15. ASSUME NEW k \in Keys, ReturnDelete(k) PROVE Kept(w)'
  <2>1. call[k].key \in Keys /\ w # call[k].key
    BY <1>15, Zenon DEF ReturnDelete, ReturnsWorker
  <2> DEFINE n == [call[k] EXCEPT !.step = "decrement",
                                  !.deleted = workers[call[k].key] # NoWorker]
  <2>2. call[k].step = "delete" /\ call' = [call EXCEPT ![k] = n]
    BY <1>15, Zenon DEF ReturnDelete
  <2>3. n.step = "decrement" /\ n.key = call[k].key /\ n.todo = call[k].todo
    BY DEF Calls
  <2> HIDE DEF n
  <2>4. Returning(w) => Returning(w)'
    BY <2>1, <2>2, <2>3, Zenon DEF Returning
  <2> QED
    BY <1>15, <1>0, <2>1, <2>4, Zenon DEF ReturnDelete, ghosts
<1>16. ASSUME NEW k \in Keys, ReturnDeleteFails(k) PROVE Kept(w)'
  <2>1. CASE w = call[k].key
    BY <1>16, <2>1, Zenon DEF ReturnDeleteFails
  <2>2. CASE w # call[k].key
    <3>1. Returning(w) => Returning(w)'
      BY <1>16, <2>2 DEF ReturnDeleteFails, Step, Returning
    <3> QED
      BY <1>16, <1>0, <3>1, Zenon DEF ReturnDeleteFails, store
  <2> QED
    BY <2>1, <2>2, Zenon
<1>17. ASSUME NEW k \in Keys, ReturnDecrement(k) PROVE Kept(w)'
  <2>1. Returning(w) => Returning(w)'
    BY <1>17, FinishReturning, Zenon DEF ReturnDecrement
  <2> QED
    BY <1>17, <1>0, <2>1, Zenon DEF ReturnDecrement
<1>18. ASSUME NEW k \in Keys, ReturnDecrementFails(k) PROVE Kept(w)'
  <2>1. Returning(w) => Returning(w)'
    BY <1>18, FinishReturning, Zenon DEF ReturnDecrementFails
  <2> QED
    BY <1>18, <1>0, <2>1, Zenon DEF ReturnDecrementFails, store
<1>19. ASSUME NEW k \in Keys, ReturnLost(k) PROVE Kept(w)'
  <2>1. Returning(w) => Returning(w)' \/ call[k].key = w
    BY <1>19, FinishReturning, Zenon DEF ReturnLost
  <2> QED
    BY <1>19, <1>0, <2>1, Zenon DEF ReturnLost, store
<1>20. CASE UNCHANGED vars
  <2>1. Returning(w)' <=> Returning(w)
    BY <1>20, Zenon DEF vars, Returning
  <2> QED
    BY <1>20, <1>0, <2>1, Zenon DEF vars
<1> QED
  BY <1>1, <1>2, <1>3, <1>4, <1>5, <1>6, <1>7, <1>8, <1>9, <1>10, <1>11,
  <1>12, <1>13, <1>14, <1>15, <1>16, <1>17, <1>18, <1>19, <1>20, Zenon DEF
  Next, StreamStep, JobStep, KeyStep

-----------------------------------------------------------------------------
(* Counters and rows.                                                       *)

\* Sets of keys are finite, and one key more or less counts one.
LEMMA KeyCount ==
  ASSUME NEW S \in SUBSET Keys, NEW k \in Keys
  PROVE  /\ Cardinality(S) \in Nat
         /\ k \notin S => Cardinality(S \cup {k}) = Cardinality(S) + 1
         /\ k \in S => /\ Cardinality(S) >= 1
                       /\ Cardinality(S \ {k}) = Cardinality(S) - 1
<1>1. IsFiniteSet(S)
  BY WorkerPoolAssumption, FS_Subset, Zenon
<1>2. Cardinality(S) \in Nat
  BY <1>1, FS_CardinalityType, Zenon
<1>3. ASSUME k \notin S PROVE Cardinality(S \cup {k}) = Cardinality(S) + 1
  BY <1>1, <1>3, FS_AddElement, Zenon
<1>4. ASSUME k \in S
      PROVE  Cardinality(S) >= 1 /\ Cardinality(S \ {k}) = Cardinality(S) - 1
  <2>1. Cardinality(S \ {k}) = Cardinality(S) - 1
    BY <1>1, <1>4, FS_RemoveElement, Zenon
  <2>2. IsFiniteSet(S \ {k})
    BY <1>1, FS_RemoveElement, Zenon
  <2>3. Cardinality(S \ {k}) \in Nat
    BY <2>2, FS_CardinalityType, Zenon
  <2> QED
    BY <1>2, <2>1, <2>3
<1> QED
  BY <1>2, <1>3, <1>4, Zenon

\* Counts of keys are numbers.
LEMMA SubsetCount ==
  ASSUME NEW S \in SUBSET Keys
  PROVE  Cardinality(S) \in Nat
BY WorkerPoolAssumption, FS_Subset, FS_CardinalityType, Zenon

\* The limit is a number.
LEMMA MaxWorkersType ==
  ASSUME NEW p \in Payers
  PROVE  MaxWorkers(p) \in Nat
<1>1. MaxWorkersPerSession(p) \in Nat /\ MaxConcurrentSessions(p) \in Nat
  BY WorkerPoolAssumption, Zenon DEF MaxWorkersPerSession, MaxConcurrentSessions
<1>2. \A m, n \in Nat : m * n \in Nat
  OBVIOUS
<1> QED
  BY <1>1, <1>2, Zenon DEF MaxWorkers

\* The call deleted a row and has not decremented yet.
Due(c) == call[c].step = "decrement" /\ call[c].deleted

\* A step after which the same calls owe the same decrements.
DueKept == \A c \in Keys :
  /\ Due(c)' <=> Due(c)
  /\ Due(c) => /\ call'[c].key = call[c].key
               /\ request'[call[c].key] = request[call[c].key]

\* The payer's debts are then the same.
LEMMA OwedKept ==
  ASSUME DueKept, NEW p
  PROVE  Owed(p)' = Owed(p)
BY Zenon DEF DueKept, Due, Owed

\* A step that writes no row leaves the live ones alone.
LEMMA LiveKept ==
  ASSUME UNCHANGED workers, NEW p
  PROVE  Live(p)' = Live(p)
BY Zenon DEF Live

\* A call that owes nothing, before and after.
LEMMA CallDue ==
  ASSUME TypeInv, NEW k \in Keys, ~Due(k), NEW n, call' = [call EXCEPT ![k] = n],
         ~(n.step = "decrement" /\ n.deleted), UNCHANGED request
  PROVE  DueKept
<1>1. call'[k] = n /\ \A c \in Keys : c # k => call'[c] = call[c]
  BY Zenon DEF TypeInv, TypeOK
<1> QED
  BY <1>1, Zenon DEF DueKept, Due

\* A goroutine that owed nothing owes nothing in its next call.
LEMMA FinishDue ==
  ASSUME TypeInv, NEW k \in Keys, ~Due(k), Finish(k), UNCHANGED request
  PROVE  DueKept
<1> DEFINE n == NextReturn(k, call[k])
<1>1. call[k] \in Calls
  BY Zenon DEF TypeInv, TypeOK
<1>2. n.deleted = FALSE /\ call' = [call EXCEPT ![k] = n]
  BY <1>1, NextReturnLife, Zenon DEF Finish
<1> HIDE DEF n
<1> QED
  BY <1>2, CallDue, Zenon

\* What a step does to a payer's rows, debts and counters: nothing,
Same(q) ==
  /\ Live(q)' = Live(q) /\ Owed(q)' = Owed(q) /\ quota'[q] = quota[q]
  /\ overReturned'[q] = overReturned[q] /\ unreturned'[q] = unreturned[q]

\* a row reserved within the limit,
Reserved(q) ==
  /\ Cardinality(Live(q)') = Cardinality(Live(q)) + 1 /\ Owed(q)' = Owed(q)
  /\ quota[q] + 1 <= MaxWorkers(q) /\ quota'[q] = quota[q] + 1
  /\ overReturned'[q] = overReturned[q] /\ unreturned'[q] = unreturned[q]

\* a row deleted, whose decrement is owed,
Deleted(q) ==
  /\ Cardinality(Live(q)') = Cardinality(Live(q)) - 1
  /\ Cardinality(Owed(q)') = Cardinality(Owed(q)) + 1 /\ quota'[q] = quota[q]
  /\ overReturned'[q] = overReturned[q] /\ unreturned'[q] = unreturned[q]

\* a decrement that was owed or was not, done or failed.
Paid(q) == Cardinality(Owed(q)) >= 1 /\ Cardinality(Owed(q)') = Cardinality(Owed(q)) - 1

Decremented(q) ==
  /\ Live(q)' = Live(q)
  /\ \/ Paid(q) /\ overReturned'[q] = overReturned[q]
     \/ Owed(q)' = Owed(q) /\ overReturned'[q] = overReturned[q] + 1
  /\ quota'[q] = IF quota[q] >= 1 THEN quota[q] - 1 ELSE 0
  /\ unreturned'[q] = unreturned[q]

NotDecremented(q) ==
  /\ Live(q)' = Live(q) /\ (Paid(q) \/ Owed(q)' = Owed(q))
  /\ quota'[q] = quota[q] /\ overReturned'[q] = overReturned[q]
  /\ unreturned'[q] = unreturned[q] + 1

Booked(q) == Same(q) \/ Reserved(q) \/ Deleted(q) \/ Decremented(q) \/ NotDecremented(q)

\* A reservation is for the payer of the request.
LEMMA ReserveBooks ==
  ASSUME TypeInv, LifeInv, NEW k \in Keys, pc[k] = "reserve", CreateAndReserve(k),
         UNCHANGED <<call, request, overReturned, unreturned>>, NEW q \in Payers
  PROVE  Same(q) \/ Reserved(q)
<1> DEFINE r == request[k]
<1>1. r \in Rows /\ workers[k] = NoWorker
  BY Zenon DEF LifeInv, RowsInv, Taken
<1>2. r.payer \in Payers /\ r # NoWorker
  BY <1>1, WorkerPoolAssumption, Zenon DEF Rows
<1>3. /\ workers' = [workers EXCEPT ![k] = r]
      /\ quota' = [quota EXCEPT ![r.payer] = @ + 1]
      /\ quota[r.payer] + 1 <= MaxWorkers(r.payer)
  <2>1. ~(quota[r.payer] + 1 > MaxWorkers(r.payer))
    BY Zenon DEF CreateAndReserve, Exceeds
  <2>2. quota[r.payer] \in Nat /\ MaxWorkers(r.payer) \in Nat
    BY <1>2, MaxWorkersType, Zenon DEF TypeInv, TypeOK
  <2> QED
    BY <2>1, <2>2 DEF CreateAndReserve, Increment
<1>4. DueKept
  BY Zenon DEF DueKept, Due
<1>5. Owed(q)' = Owed(q)
  BY <1>4, OwedKept, Zenon
<1> HIDE DEF r
<1>6. CASE q = r.payer
  <2>1. Live(q)' = Live(q) \cup {k} /\ k \notin Live(q) /\ Live(q) \in SUBSET Keys
    BY <1>1, <1>2, <1>3, <1>6, Zenon DEF Live, TypeInv, TypeOK
  <2>2. Cardinality(Live(q)') = Cardinality(Live(q)) + 1
    BY <2>1, KeyCount, Zenon
  <2> QED
    BY <1>2, <1>3, <1>5, <1>6, <2>2, Zenon DEF Reserved, TypeInv, TypeOK
<1>7. CASE q # r.payer
  <2>1. Live(q)' = Live(q)
    BY <1>1, <1>2, <1>3, <1>7, Zenon DEF Live, TypeInv, TypeOK
  <2> QED
    BY <1>3, <1>5, <1>7, <2>1, Zenon DEF Same, TypeInv, TypeOK
<1> QED
  BY <1>6, <1>7, Zenon

\* A row that a call deletes is one decrement that the call owes.
LEMMA DeleteBooks ==
  ASSUME TypeInv, LifeInv, NEW k \in Keys, ReturnDelete(k), NEW q \in Payers
  PROVE  Same(q) \/ Deleted(q)
<1> DEFINE w == call[k].key
<1> DEFINE n == [call[k] EXCEPT !.step = "decrement", !.deleted = workers[w] # NoWorker]
<1>1. /\ call[k].step = "delete" /\ call[k] \in Calls /\ w \in Keys
      /\ call' = [call EXCEPT ![k] = n]
      /\ workers' = [workers EXCEPT ![w] = NoWorker]
      /\ UNCHANGED <<quota, request, overReturned, unreturned>>
  BY Zenon DEF ReturnDelete, ghosts, TypeInv, TypeOK, ReturnsWorker
<1>2. n.step = "decrement" /\ n.key = w /\ n.deleted = (workers[w] # NoWorker)
  BY <1>1, Zenon DEF Calls
<1>3. call'[k] = n /\ \A c \in Keys : c # k => call'[c] = call[c]
  BY <1>1, Zenon DEF TypeInv, TypeOK
<1> HIDE DEF n, w
<1>4. CASE workers[w] # NoWorker /\ workers[w].payer = q
  <2>1. request[w] = workers[w]
    BY <1>1, <1>4, Zenon DEF LifeInv, RowsInv
  <2>2. Live(q)' = Live(q) \ {w} /\ w \in Live(q) /\ Live(q) \in SUBSET Keys
    BY <1>1, <1>4, Zenon DEF Live, TypeInv, TypeOK
  <2>3. k \notin Owed(q) /\ Owed(q) \in SUBSET Keys
    BY <1>1, Zenon DEF Owed
  <2>4. Owed(q)' = Owed(q) \cup {k}
    BY <1>1, <1>2, <1>3, <1>4, <2>1, Zenon DEF Owed
  <2>5. /\ Cardinality(Live(q)') = Cardinality(Live(q)) - 1
        /\ Cardinality(Owed(q)') = Cardinality(Owed(q)) + 1
    BY <1>1, <2>2, <2>3, <2>4, KeyCount, Zenon
  <2> QED
    BY <1>1, <2>5, Zenon DEF Deleted
<1>5. CASE ~(workers[w] # NoWorker /\ workers[w].payer = q)
  <2>1. Live(q)' = Live(q)
    BY <1>1, <1>5, Zenon DEF Live, TypeInv, TypeOK
  <2>2. workers[w] # NoWorker => request[w] = workers[w]
    BY <1>1, Zenon DEF LifeInv, RowsInv
  <2>3. Owed(q)' = Owed(q)
    BY <1>1, <1>2, <1>3, <1>5, <2>2, ZenonT(30) DEF Owed
  <2> QED
    BY <1>1, <2>1, <2>3, Zenon DEF Same
<1> QED
  BY <1>4, <1>5, Zenon

\* A call that ends its decrement owes nothing any more.
LEMMA FinishOwed ==
  ASSUME TypeInv, NEW k \in Keys, Finish(k), UNCHANGED request, NEW q
  PROVE  Owed(q)' = Owed(q) \ {k}
<1> DEFINE n == NextReturn(k, call[k])
<1>1. call[k] \in Calls
  BY Zenon DEF TypeInv, TypeOK
<1>2. n.deleted = FALSE
  BY <1>1, NextReturnLife, Zenon
<1>3. call'[k] = n /\ \A c \in Keys : c # k => call'[c] = call[c]
  BY Zenon DEF Finish, TypeInv, TypeOK
<1> HIDE DEF n
<1> QED
  BY <1>2, <1>3, Zenon DEF Owed

\* A decrement, done or failed, is an entry of the payer it is for.
LEMMA DecrementBooks ==
  ASSUME TypeInv, LifeInv, NEW k \in Keys,
         ReturnDecrement(k) \/ ReturnDecrementFails(k), NEW q \in Payers
  PROVE  Booked(q)
<1> DEFINE p == request[call[k].key].payer
<1>1. /\ call[k].step = "decrement" /\ call[k].deleted \in BOOLEAN /\ Finish(k)
      /\ UNCHANGED <<workers, request>>
  <2>1. call[k] \in Calls
    BY Zenon DEF TypeInv, TypeOK
  <2>2. call[k].deleted \in BOOLEAN
    BY <2>1, Zenon DEF Calls
  <2>3. CASE ReturnDecrement(k)
    BY <2>2, <2>3, Zenon DEF ReturnDecrement
  <2>4. CASE ReturnDecrementFails(k)
    BY <2>2, <2>4, Zenon DEF ReturnDecrementFails, store
  <2> QED
    BY <2>3, <2>4, Zenon
<1>2. Live(q)' = Live(q) /\ Owed(q)' = Owed(q) \ {k} /\ Owed(q) \in SUBSET Keys
  BY <1>1, LiveKept, FinishOwed DEF Owed
<1>3. k \in Owed(q) <=> call[k].deleted /\ p = q
  BY <1>1, Zenon DEF Owed
<1>4. k \notin Owed(q) => Owed(q)' = Owed(q)
  BY <1>2, Zenon
<1>5. k \in Owed(q) => Paid(q)
  BY <1>2, KeyCount, Zenon DEF Paid
<1> HIDE DEF p
<1>6. CASE ReturnDecrement(k)
  <2>1. /\ quota' = [quota EXCEPT ![p] = IF @ >= 1 THEN @ - 1 ELSE 0]
        /\ overReturned' = [overReturned EXCEPT
                              ![p] = IF call[k].deleted THEN @ ELSE @ + 1]
        /\ UNCHANGED unreturned
    BY <1>6, Zenon DEF ReturnDecrement, Decrement, p
  <2>2. CASE p = q
    <3>1. /\ quota'[q] = IF quota[q] >= 1 THEN quota[q] - 1 ELSE 0
          /\ overReturned'[q] = IF call[k].deleted THEN overReturned[q]
                                ELSE overReturned[q] + 1
      BY <2>1, <2>2, Zenon DEF TypeInv, TypeOK
    <3> QED
      BY <1>1, <1>2, <1>3, <1>4, <1>5, <2>1, <2>2, <3>1, Zenon DEF Booked, Decremented
  <2>3. CASE p # q
    <3>1. quota'[q] = quota[q] /\ overReturned'[q] = overReturned[q]
      BY <2>1, <2>3, Zenon DEF TypeInv, TypeOK
    <3> QED
      BY <1>2, <1>3, <1>4, <2>1, <2>3, <3>1, Zenon DEF Booked, Same
  <2> QED
    BY <2>2, <2>3, Zenon
<1>7. CASE ReturnDecrementFails(k)
  <2>1. /\ UNCHANGED <<quota, overReturned>>
        /\ unreturned' = [unreturned EXCEPT ![p] = @ + 1]
    BY <1>7, Zenon DEF ReturnDecrementFails, store, p
  <2>2. CASE p = q
    <3>1. unreturned'[q] = unreturned[q] + 1
      BY <2>1, <2>2, Zenon DEF TypeInv, TypeOK
    <3> QED
      BY <1>2, <1>4, <1>5, <2>1, <3>1, Zenon DEF Booked, NotDecremented
  <2>3. CASE p # q
    <3>1. unreturned'[q] = unreturned[q]
      BY <2>1, <2>3, Zenon DEF TypeInv, TypeOK
    <3> QED
      BY <1>2, <1>3, <1>4, <2>1, <2>3, <3>1, Zenon DEF Booked, Same
  <2> QED
    BY <2>2, <2>3, Zenon
<1> QED
  BY <1>6, <1>7, Zenon

\* Every step is one of these entries in a payer's books.
LEMMA BooksStep ==
  ASSUME TypeInv, LifeInv, [Next]_vars, NEW q \in Payers
  PROVE  Booked(q)
<1>1. ASSUME NEW s \in Sessions, EndSession(s) PROVE Booked(q)
  <2>1. DueKept
    BY <1>1, Zenon DEF EndSession, DueKept, Due
  <2> QED
    BY <1>1, <2>1, OwedKept, LiveKept, Zenon DEF EndSession, store, ghosts, Same, Booked
<1>2. ASSUME NEW k \in Streams, NEW s \in Sessions, NEW p \in Payers, Get(k, s, p)
      PROVE  Booked(q)
  <2>1. k \in Keys /\ ~Taken(k) /\ \A c \in Keys : c # k => request'[c] = request[c]
    BY <1>2, Zenon DEF Get, Keys, Taken, BorrowAuthorize, TypeInv, TypeOK
  <2>2. UNCHANGED call
    BY <1>2, Zenon DEF Get
  <2>3. DueKept
    BY <2>1, <2>2, Zenon DEF DueKept, Due, LifeInv, CallsInv, TypeInv, ReturnsWorker
  <2> QED
    BY <1>2, <2>3, OwedKept, LiveKept, Zenon DEF Get, store, ghosts, Same, Booked
<1>3. ASSUME NEW k \in Streams, GetBorrowed(k) PROVE Booked(q)
  <2>1. /\ k \in Keys /\ pc[k] = "reserve" /\ CreateAndReserve(k)
        /\ UNCHANGED <<call, request>>
    BY <1>3, Zenon DEF GetBorrowed, Keys
  <2>2. UNCHANGED <<overReturned, unreturned>>
    BY <1>3, Zenon DEF GetBorrowed, ghosts
  <2> QED
    BY <2>1, <2>2, ReserveBooks, Zenon DEF Booked
<1>4. ASSUME NEW k \in Streams, Release(k) PROVE Booked(q)
  <2> DEFINE n == [NoCall EXCEPT !.step = "begin"]
  <2>1. /\ k \in Keys /\ call[k].step # "decrement"
        /\ call' = [call EXCEPT ![k] = n]
    BY <1>4, Zenon DEF Release, StartReturn, Keys, LifeInv, CallsInv, TypeInv, TypeOK
  <2>2. n.step # "decrement"
    BY <2>1, FirstCalls, Zenon
  <2> HIDE DEF n
  <2>3. DueKept
    BY <1>4, <2>1, <2>2, CallDue, Zenon DEF Release, Due
  <2> QED
    BY <1>4, <2>3, OwedKept, LiveKept, Zenon DEF Release, store, ghosts, Same, Booked
<1>5. ASSUME NEW k \in Streams, BeginRelease(k) PROVE Booked(q)
  <2> DEFINE n == [call[k] EXCEPT !.step = "drop", !.todo = info[k].workers]
  <2>1. /\ k \in Keys /\ call[k].step = "begin" /\ call[k] \in Calls
        /\ call' = [call EXCEPT ![k] = n]
    BY <1>5, Zenon DEF BeginRelease, Keys, TypeInv, TypeOK
  <2>2. n.step = "drop"
    BY <2>1, Zenon DEF Calls
  <2> HIDE DEF n
  <2>3. DueKept
    BY <1>5, <2>1, <2>2, CallDue, Zenon DEF BeginRelease, Due
  <2> QED
    BY <1>5, <2>3, OwedKept, LiveKept, Zenon DEF BeginRelease, store, ghosts, Same, Booked
<1>6. ASSUME NEW k \in Streams, DropSession(k) PROVE Booked(q)
  <2>1. k \in Keys /\ call[k].step # "decrement" /\ Finish(k) /\ UNCHANGED request
    BY <1>6, Zenon DEF DropSession, Finish, Keys
  <2>2. DueKept
    BY <2>1, FinishDue, Zenon DEF Due
  <2> QED
    BY <1>6, <2>2, OwedKept, LiveKept, Zenon DEF DropSession, store, ghosts, Same, Booked
<1>7. ASSUME NEW k \in Streams, KeepAliveTick(k) PROVE Booked(q)
  <2>1. DueKept
    BY <1>7, Zenon DEF KeepAliveTick, DueKept, Due
  <2> QED
    BY <1>7, <2>1, OwedKept, LiveKept, Zenon DEF KeepAliveTick, store, ghosts, Same, Booked
<1>8. ASSUME NEW j \in Jobs, NEW k \in Streams, GetWorker(j, k) PROVE Booked(q)
  <2>1. j \in Keys /\ ~Taken(j) /\ \A c \in Keys : c # j => request'[c] = request[c]
    BY <1>8, Zenon DEF GetWorker, Keys, Taken, BorrowAuthorize, TypeInv, TypeOK
  <2>2. UNCHANGED call
    BY <1>8, Zenon DEF GetWorker
  <2>3. DueKept
    BY <2>1, <2>2, Zenon DEF DueKept, Due, LifeInv, CallsInv, TypeInv, ReturnsWorker
  <2> QED
    BY <1>8, <2>3, OwedKept, LiveKept, Zenon DEF GetWorker, store, ghosts, Same, Booked
<1>9. ASSUME NEW j \in Jobs, GetWorkerBorrowed(j) PROVE Booked(q)
  <2>1. /\ j \in Keys /\ pc[j] = "reserve" /\ CreateAndReserve(j)
        /\ UNCHANGED <<call, request>>
    BY <1>9, Zenon DEF GetWorkerBorrowed, Keys
  <2>2. UNCHANGED <<overReturned, unreturned>>
    BY <1>9, Zenon DEF GetWorkerBorrowed, ghosts
  <2> QED
    BY <2>1, <2>2, ReserveBooks, Zenon DEF Booked
<1>10. ASSUME NEW j \in Jobs, GetWorkerRecord(j) PROVE Booked(q)
  <2>1. CASE UNCHANGED call
    <3>1. DueKept
      BY <1>10, <2>1, Zenon DEF GetWorkerRecord, DueKept, Due
    <3> QED
      BY <1>10, <3>1, OwedKept, LiveKept, Zenon DEF GetWorkerRecord, store, ghosts, Same, Booked
  <2>2. CASE StartReturn(j)
    <3> DEFINE n == [NoCall EXCEPT !.step = "get", !.key = j]
    <3>1. /\ j \in Keys /\ call[j].step # "decrement"
          /\ call' = [call EXCEPT ![j] = n]
      BY <1>10, <2>2, Zenon DEF GetWorkerRecord, StartReturn, Keys, LifeInv, CallsInv,
         TypeInv, TypeOK
    <3>2. n.step # "decrement"
      BY <3>1, FirstCalls, Zenon
    <3> HIDE DEF n
    <3>3. DueKept
      BY <1>10, <3>1, <3>2, CallDue, Zenon DEF GetWorkerRecord, Due
    <3> QED
      BY <1>10, <3>3, OwedKept, LiveKept, Zenon DEF GetWorkerRecord, store, ghosts, Same, Booked
  <2> QED
    BY <1>10, <2>1, <2>2, Zenon DEF GetWorkerRecord
<1>11. ASSUME NEW j \in Jobs, ReleaseWorker(j) PROVE Booked(q)
  <2> DEFINE n == [NoCall EXCEPT !.step = "get", !.key = j]
  <2>1. /\ j \in Keys /\ call[j].step # "decrement"
        /\ call' = [call EXCEPT ![j] = n]
    BY <1>11, Zenon DEF ReleaseWorker, StartReturn, Keys, LifeInv, CallsInv, TypeInv, TypeOK
  <2>2. n.step # "decrement"
    BY <2>1, FirstCalls, Zenon
  <2> HIDE DEF n
  <2>3. DueKept
    BY <1>11, <2>1, <2>2, CallDue, Zenon DEF ReleaseWorker, Due
  <2> QED
    BY <1>11, <2>3, OwedKept, LiveKept, Zenon DEF ReleaseWorker, store, ghosts, Same, Booked
<1>12. ASSUME NEW k \in Keys, Exhausted(k) PROVE Booked(q)
  <2>1. DueKept
    BY <1>12, Zenon DEF Exhausted, DueKept, Due
  <2> QED
    BY <1>12, <2>1, OwedKept, LiveKept, Zenon DEF Exhausted, store, ghosts, Same, Booked
<1>13. ASSUME NEW k \in Keys, BorrowAnswerLost(k) PROVE Booked(q)
  <2>1. /\ k \in Keys /\ pc[k] = "reserve" /\ CreateAndReserve(k)
        /\ UNCHANGED <<call, request>>
    BY <1>13, Zenon DEF BorrowAnswerLost, Keys
  <2>2. UNCHANGED <<overReturned, unreturned>>
    BY <1>13, Zenon DEF BorrowAnswerLost, ghosts
  <2> QED
    BY <2>1, <2>2, ReserveBooks, Zenon DEF Booked
<1>14. ASSUME NEW k \in Keys, ReturnGet(k) PROVE Booked(q)
  <2>1. DueKept
    <3>1. CASE Finish(k)
      BY <1>14, <3>1, FinishDue, Zenon DEF ReturnGet, Due
    <3>2. CASE Step(k, "delete")
      <4> DEFINE n == [call[k] EXCEPT !.step = "delete"]
      <4>1. call' = [call EXCEPT ![k] = n] /\ call[k] \in Calls
        BY <3>2, Zenon DEF Step, TypeInv, TypeOK
      <4>2. n.step = "delete"
        BY <4>1, Zenon DEF Calls
      <4> HIDE DEF n
      <4> QED
        BY <1>14, <4>1, <4>2, CallDue, Zenon DEF ReturnGet, Due
    <3> QED
      BY <1>14, <3>1, <3>2, Zenon DEF ReturnGet
  <2> QED
    BY <1>14, <2>1, OwedKept, LiveKept, Zenon DEF ReturnGet, store, ghosts, Same, Booked
<1>15. ASSUME NEW k \in Keys, ReturnDelete(k) PROVE Booked(q)
  BY <1>15, DeleteBooks, Zenon DEF Booked
<1>16. ASSUME NEW k \in Keys, ReturnDeleteFails(k) PROVE Booked(q)
  <2> DEFINE n == [call[k] EXCEPT !.step = "decrement"]
  <2>1. call' = [call EXCEPT ![k] = n] /\ call[k] \in Calls /\ ~call[k].deleted
    BY <1>16, Zenon DEF ReturnDeleteFails, Step, TypeInv, TypeOK, LifeInv, CallsInv
  <2>2. ~n.deleted
    BY <2>1, Zenon DEF Calls
  <2> HIDE DEF n
  <2>3. DueKept
    BY <1>16, <2>1, <2>2, CallDue, Zenon DEF ReturnDeleteFails, Due
  <2> QED
    BY <1>16, <2>3, OwedKept, LiveKept, Zenon DEF ReturnDeleteFails, store, Same, Booked
<1>17. ASSUME NEW k \in Keys, ReturnDecrement(k) PROVE Booked(q)
  BY <1>17, DecrementBooks, Zenon
<1>18. ASSUME NEW k \in Keys, ReturnDecrementFails(k) PROVE Booked(q)
  BY <1>18, DecrementBooks, Zenon
<1>19. ASSUME NEW k \in Keys, ReturnLost(k) PROVE Booked(q)
  <2>1. k \in Keys /\ call[k].step # "decrement" /\ Finish(k) /\ UNCHANGED request
    BY <1>19, Zenon DEF ReturnLost, Finish, Keys
  <2>2. DueKept
    BY <2>1, FinishDue, Zenon DEF Due
  <2> QED
    BY <1>19, <2>2, OwedKept, LiveKept, Zenon DEF ReturnLost, store, ghosts, Same, Booked
<1>20. CASE UNCHANGED vars
  <2>1. DueKept
    BY <1>20, Zenon DEF vars, DueKept, Due
  <2> QED
    BY <1>20, <2>1, OwedKept, LiveKept, Zenon DEF vars, Same, Booked
<1> QED
  BY <1>1, <1>2, <1>3, <1>4, <1>5, <1>6, <1>7, <1>8, <1>9, <1>10, <1>11,
  <1>12, <1>13, <1>14, <1>15, <1>16, <1>17, <1>18, <1>19, <1>20, Zenon DEF
  Next, StreamStep, JobStep, KeyStep

\* The books and the limit hold after every entry.
LEMMA QuotaStep ==
  ASSUME TypeInv, LifeInv, QuotaAccounting, AdmissionBounded, [Next]_vars, TypeOK'
  PROVE  QuotaAccounting' /\ AdmissionBounded'
<1> SUFFICES
      ASSUME NEW q \in Payers
      PROVE  /\ Cardinality(Live(q)') + Cardinality(Owed(q)')
                  <= quota'[q] + overReturned'[q]
             /\ quota'[q] <= Cardinality(Live(q)') + Cardinality(Owed(q)')
                             + unreturned'[q]
             /\ Cardinality(Live(q)') <= MaxWorkers(q) + overReturned'[q]
  BY Zenon DEF QuotaAccounting, AdmissionBounded
<1>1. Booked(q)
  BY BooksStep, Zenon
<1>2. /\ quota[q] \in Nat /\ overReturned[q] \in Nat /\ unreturned[q] \in Nat
      /\ MaxWorkers(q) \in Nat
  BY MaxWorkersType, Zenon DEF TypeInv, TypeOK
<1>3. /\ Cardinality(Live(q)) \in Nat /\ Cardinality(Owed(q)) \in Nat
      /\ Cardinality(Live(q)') \in Nat /\ Cardinality(Owed(q)') \in Nat
  <2>1. Live(q) \in SUBSET Keys /\ Owed(q) \in SUBSET Keys
    BY Zenon DEF Live, Owed
  <2>2. Live(q)' \in SUBSET Keys /\ Owed(q)' \in SUBSET Keys
    BY Zenon DEF Live, Owed
  <2> QED
    BY <2>1, <2>2, SubsetCount, Zenon
<1>4. /\ Cardinality(Live(q)) + Cardinality(Owed(q)) <= quota[q] + overReturned[q]
      /\ quota[q] <= Cardinality(Live(q)) + Cardinality(Owed(q)) + unreturned[q]
      /\ Cardinality(Live(q)) <= MaxWorkers(q) + overReturned[q]
  BY Zenon DEF QuotaAccounting, AdmissionBounded
<1>5. CASE Same(q)
  BY <1>4, <1>5, Zenon DEF Same
<1>6. CASE Reserved(q)
  BY <1>2, <1>3, <1>4, <1>6, SMTT(20) DEF Reserved
<1>7. CASE Deleted(q)
  BY <1>2, <1>3, <1>4, <1>7 DEF Deleted
<1>8. CASE Decremented(q)
  BY <1>2, <1>3, <1>4, <1>8 DEF Decremented, Paid
<1>9. CASE NotDecremented(q)
  BY <1>2, <1>3, <1>4, <1>9 DEF NotDecremented, Paid
<1> QED
  BY <1>1, <1>5, <1>6, <1>7, <1>8, <1>9, Zenon DEF Booked

-----------------------------------------------------------------------------
(* Theorems.                                                                *)

\* What holds in every state: types, lives, releases, the books, the limit,
\* and that no row is forgotten.
IInv == /\ TypeInv /\ LifeInv /\ ReleaseInv
        /\ QuotaAccounting /\ AdmissionBounded /\ NoWorkerOrphaned

\* Nothing is borrowed at the start.
LEMMA IInvInit ==
  ASSUME Init
  PROVE  IInv
<1>1. \A k \in Keys : /\ call[k].step = "none" /\ call[k].key = NoWorker
                      /\ call[k].todo = {} /\ call[k].deleted = FALSE
  BY Zenon DEF Init, NoCall
<1>2. call \in [Keys -> Calls]
  BY Zenon DEF Init, NoCall, Calls
<1>3. \A k \in Streams : info[k].workers = {}
  BY Zenon DEF Init, NoInfo
<1>4. TypeInv
  <2>1. info \in [Streams -> [present : BOOLEAN, released : BOOLEAN, workers : SUBSET Jobs]]
    BY Zenon DEF Init, NoInfo
  <2> QED
    BY <1>1, <1>2, <2>1, Zenon DEF Init, TypeInv, TypeOK, ReturnsWorker
<1>5. LifeInv
  <2>1. NoWorker \notin Keys
    BY WorkerPoolAssumption, Zenon
  <2> QED
    BY <1>1, <1>3, <2>1, Zenon DEF Init, LifeInv, RowsInv, CallsInv, PoolInv, Taken, Keys
<1>6. ReleaseInv
  BY <1>1, Zenon DEF Init, ReleaseInv, Keys
<1>7. NoWorkerOrphaned
  BY Zenon DEF Init, NoWorkerOrphaned
<1>8. QuotaAccounting /\ AdmissionBounded
  <2> SUFFICES ASSUME NEW q \in Payers
               PROVE  /\ Cardinality(Live(q)) + Cardinality(Owed(q))
                           <= quota[q] + overReturned[q]
                      /\ quota[q] <= Cardinality(Live(q)) + Cardinality(Owed(q))
                                     + unreturned[q]
                      /\ Cardinality(Live(q)) <= MaxWorkers(q) + overReturned[q]
    BY Zenon DEF QuotaAccounting, AdmissionBounded
  <2>1. Live(q) = {} /\ Owed(q) = {}
    BY <1>1, Zenon DEF Init, Live, Owed
  <2>2. Cardinality(Live(q)) = 0 /\ Cardinality(Owed(q)) = 0
    BY <2>1, FS_EmptySet, Zenon
  <2>3. quota[q] = 0 /\ overReturned[q] = 0 /\ unreturned[q] = 0
    BY Zenon DEF Init
  <2> QED
    BY <2>2, <2>3, MaxWorkersType
<1> QED
  BY <1>4, <1>5, <1>6, <1>7, <1>8, Zenon DEF IInv

\* Every step keeps it.
LEMMA IInvStep ==
  ASSUME IInv, [Next]_vars
  PROVE  IInv'
<1>1. TypeOK'
  BY TypeStep, Zenon DEF IInv
<1>2. ReturnsWorker' /\ LifeInv'
  BY LifeStep, Zenon DEF IInv
<1>3. ReleaseInv'
  BY ReleaseStep, Zenon DEF IInv
<1>4. NoWorkerOrphaned'
  BY OrphanStep, Zenon DEF IInv
<1>5. QuotaAccounting' /\ AdmissionBounded'
  BY <1>1, QuotaStep, Zenon DEF IInv
<1> QED
  BY <1>1, <1>2, <1>3, <1>4, <1>5, Zenon DEF IInv, TypeInv

\* The inductive invariant holds.
LEMMA IInvHolds == Spec => []IInv
<1>1. Init => IInv
  BY IInvInit, Zenon
<1>2. IInv /\ [Next]_vars => IInv'
  BY IInvStep, Zenon
<1> QED
  BY <1>1, <1>2, PTL DEF Spec

\* The rows, counters and goroutines of the pool keep their types; the clamp of
\* QuotaDecrement keeps a counter from going below zero.
THEOREM WorkerPoolTypeCorrect == Spec => []TypeOK
<1>1. IInv => TypeOK
  BY Zenon DEF IInv, TypeInv
<1> QED
  BY <1>1, IInvHolds, PTL

\* However borrows and returns of any number of streams and jobs interleave in
\* BorrowWorker and ReturnWorker, a payer's counter differs from its rows only by
\* what second returns, pending and failed decrements account for.
THEOREM QuotaIsAccounted == Spec => []QuotaAccounting
<1>1. IInv => QuotaAccounting
  BY Zenon DEF IInv
<1> QED
  BY <1>1, IInvHolds, PTL

\* WorkerCreateAndReserveQuota's limit holds for every payer, up to the
\* decrements of calls that deleted no row.
THEOREM AdmissionIsBounded == Spec => []AdmissionBounded
<1>1. IInv => AdmissionBounded
  BY Zenon DEF IInv
<1> QED
  BY <1>1, IInvHolds, PTL

\* No race of GetWorker, ReleaseWorker and Release leaves a row that nothing
\* gives back.
THEOREM NoWorkerIsOrphaned == Spec => []NoWorkerOrphaned
<1>1. IInv => NoWorkerOrphaned
  BY Zenon DEF IInv
<1> QED
  BY <1>1, IInvHolds, PTL
=============================================================================
