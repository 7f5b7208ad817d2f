--------------------------- MODULE UsagePipeline ---------------------------
(***************************************************************************)
(* Metered usage on its way to the bill: the metering plugin's buffer,     *)
(* batch and flush (provider/plugin), the usage service that applies a     *)
(* batch event by event (provider/usage), and the repository (Storage),    *)
(* which other handlers use at the same time.                              *)
(*                                                                         *)
(* An event is one call of Emit; its metrics are kept as the cost the      *)
(* provider's pricing gives them.  The usage service's notification of the *)
(* payment runtime is left to PaymentRuntime.                              *)
(***************************************************************************)
EXTENDS Storage

CONSTANTS
  MaxEvents,  \* bound on metering events, one Emit each
  Handlers,   \* clients that are not the usage service
  Reporter,   \* the usage service, as a client of the repository
  BufferSize  \* capacity of the emitter's channel

Events == 1 .. MaxEvents

ASSUME PipelineAssumption ==
  /\ Clients = Handlers \cup {Reporter}
  /\ Reporter \notin Handlers
  /\ BufferSize \in Nat /\ MaxEvents \in Nat
  /\ \A l \in Loads : l.events <= MaxEvents

VARIABLES
  at,         \* per event: how far it got
  owner,      \* per event: the session it is billed to
  loop,       \* the emitter's goroutine
  closing,    \* shuttingDown, guarded by mu
  terminate,  \* Shutdown was called
  unknown     \* events reported before their session was stored

emitter == <<at, owner, loop, closing, terminate, unknown>>
pipeVars == <<vars, emitter>>

Buffered == {e \in Events : at[e] = "buffer"}
Batch == {e \in Events : at[e] = "batch"}
InReport == {e \in Events : at[e] \in {"report", "apply"}}

PipeInit ==
  /\ Init
  /\ at = [e \in Events |-> "new"]
  /\ owner = [e \in Events |-> NoSession]
  /\ loop = "select"
  /\ closing = FALSE
  /\ terminate = FALSE
  /\ unknown = 0

Move(e, place) == at' = [at EXCEPT ![e] = place]

-----------------------------------------------------------------------------
(* Emit: a first check without the lock, the second one and the send under  *)
(* it.  A full buffer drops the event.                                      *)

EmitCheck(e, s) ==
  /\ at[e] = "new"
  /\ e = load.events   \* numbered from the last to the first
  /\ load' = [load EXCEPT !.events = @ - 1]
  /\ owner' = [owner EXCEPT ![e] = s]
  /\ Move(e, IF terminate THEN "dropped" ELSE "checked")
  /\ UNCHANGED <<backend, db, call, draft, mu, got, failures, loop,
                 closing, terminate, unknown>>

\* Mutant: the event is sent although the flush may be over.
MaySendAlways == TRUE

\* The buffer is open until the flush begins.
MaySend == ~closing

EmitSend(e) ==
  /\ at[e] = "checked"
  /\ Move(e, IF MaySend /\ Cardinality(Buffered) < BufferSize
             THEN "buffer" ELSE "dropped")
  /\ UNCHANGED <<vars, owner, loop, closing, terminate, unknown>>

-----------------------------------------------------------------------------
(* launch: the goroutine takes events into the batch, reports the batch on  *)
(* every tick, and on termination flushes what the buffer holds.            *)

Shutdown ==
  /\ ~terminate
  /\ load.shutdowns > 0
  /\ terminate' = TRUE
  /\ UNCHANGED <<vars, at, owner, loop, closing, unknown>>

Take(e) ==
  /\ loop \in {"select", "flush"}
  /\ at[e] = "buffer"
  /\ Move(e, "batch")
  /\ UNCHANGED <<vars, owner, loop, closing, terminate, unknown>>

\* emit: an empty batch is not reported.
SendReport(from, waiting) ==
  /\ loop = from
  /\ Batch # {}
  /\ InReport = {}
  /\ at' = [e \in Events |-> IF e \in Batch THEN "report" ELSE at[e]]
  /\ loop' = waiting

Tick ==
  /\ SendReport("select", "report")
  /\ UNCHANGED <<vars, owner, closing, terminate, unknown>>

BeginShutdown ==
  /\ loop = "select"
  /\ terminate
  /\ closing' = TRUE
  /\ loop' = "flush"
  /\ UNCHANGED <<vars, at, owner, terminate, unknown>>

\* The buffer is empty: the last batch goes out and the goroutine ends.
Flush ==
  /\ Buffered = {}
  /\ \/ SendReport("flush", "last")
     \/ /\ loop = "flush" /\ Batch = {}
        /\ loop' = "done"
        /\ UNCHANGED at
  /\ UNCHANGED <<vars, owner, closing, terminate, unknown>>

AfterReport == IF loop = "last" THEN "done" ELSE "select"

Answer ==
  /\ loop \in {"report", "last"}
  /\ InReport = {}
  /\ loop' = AfterReport
  /\ UNCHANGED <<vars, at, owner, closing, terminate, unknown>>

\* The report fails: it never arrives, or times out.  Postgres gives up with
\* the request's context, and the rest of the batch is lost; in memory the
\* service finishes it.  The batch is not reported again.
ReportFails ==
  /\ loop \in {"report", "last"}
  /\ failures < MaxFailures
  /\ failures' = failures + 1
  /\ call[Reporter] = Idle
  /\ at' = IF backend = "postgres"
           THEN [e \in Events |-> IF at[e] = "report" THEN "lost" ELSE at[e]]
           ELSE at
  /\ loop' = AfterReport
  /\ UNCHANGED <<backend, db, call, draft, mu, got, load, owner, closing,
                 terminate, unknown>>

-----------------------------------------------------------------------------
(* UsageService.Report: one SessionApplyUsage per event, in turn; one that  *)
(* fails is logged and the next one follows.                                *)

\* Mutant: an event whose write failed is applied again.
ApplyDoneRetrying(e) ==
  /\ call[Reporter] = Idle
  /\ \/ Move(e, "handled")
     \/ failures > 0 /\ Move(e, "report")

ApplyDone(e) ==
  /\ call[Reporter] = Idle
  /\ Move(e, "handled")

ApplyEvent(e) ==
  /\ at[e] = "report"
  /\ \A f \in Events : at[f] # "apply"
  /\ \E cost \in Costs : RequestUsage(Reporter, owner[e], cost)
  /\ Move(e, "apply")
  /\ unknown' = IF StoredSession(owner[e]) = NoSession
                THEN unknown + 1 ELSE unknown
  /\ UNCHANGED <<owner, loop, closing, terminate>>

EventApplied(e) ==
  /\ at[e] = "apply"
  /\ ApplyDone(e)
  /\ UNCHANGED <<vars, owner, loop, closing, terminate, unknown>>

-----------------------------------------------------------------------------
EmitterNext ==
  \/ \E e \in Events :
       \/ \E s \in Sessions : EmitCheck(e, s)
       \/ EmitSend(e) \/ Take(e) \/ ApplyEvent(e) \/ EventApplied(e)
  \/ Shutdown \/ Tick \/ BeginShutdown \/ Flush \/ Answer \/ ReportFails

StorageNext ==
  \/ \E c \in Handlers : NewCall(c)
  \/ \E c \in Clients : Run(c) \/ StatementFails(c)

PipeNext == EmitterNext \/ (StorageNext /\ UNCHANGED emitter)

PipeSpec == PipeInit /\ [][PipeNext]_pipeVars

\* The goroutine runs, its ticker ticks, and the service works its batch off.
PipeFairness ==
  /\ \A c \in Clients : WF_pipeVars(Run(c) /\ UNCHANGED emitter)
  /\ \A e \in Events : WF_pipeVars(EmitSend(e))
  /\ WF_pipeVars(\E e \in Events : ApplyEvent(e) \/ EventApplied(e))
  /\ WF_pipeVars((\E e \in Events : Take(e)) \/ Tick \/ Flush \/ Answer)
  /\ WF_pipeVars(BeginShutdown)

FairPipeSpec == PipeSpec /\ PipeFairness

-----------------------------------------------------------------------------
(* Properties.                                                              *)

EventsOf(s, places) == {e \in Events : owner[e] = s /\ at[e] \in places}

\* Usage is billed at most once, and what is not billed is accounted for: the
\* service went through with the event, and every event it went through with
\* is in the session's cost but for failed writes and unknown sessions.
BilledAtMostOnce ==
  \A s \in Sessions : StoredSession(s) # NoSession =>
    /\ StoredSession(s).total <= Cardinality(EventsOf(s, {"handled", "apply"}))
    /\ Cardinality(EventsOf(s, {"handled"}))
         <= StoredSession(s).total + failures + unknown

\* An event that entered the buffer is reported, also when the emitter shuts
\* down meanwhile (Emit, beginShutdown, flushAndClose).
BufferedEventReported ==
  \A e \in Events : at[e] = "buffer" ~> at[e] \in {"handled", "lost"}
=============================================================================
