------------------------ MODULE PaymentSessionClient ------------------------
(***************************************************************************)
(* The consumer sidecar's client of the provider's payment session stream  *)
(* (paymentSessionClient).  Goroutines bind the session and submit RAVs;   *)
(* the endpoint may change and the client may be closed at any time, which *)
(* ends the stream and begins a new generation while calls on the old one  *)
(* are still under way.                                                    *)
(*                                                                         *)
(* The manager keeps one client per session id, so the session is always   *)
(* the same one and the branches for another id are left out.  A stream is *)
(* named after its generation: only closeLocked drops it, and counts one   *)
(* generation up.  A bindingDone channel is named by a number; zero is     *)
(* nil, and a channel that is not the client's current one is closed.      *)
(***************************************************************************)
EXTENDS Naturals

CONSTANTS
  Callers,        \* goroutines that use the client
  MaxGenerations  \* bound on stream generations

VARIABLES
  client,   \* the client's fields, guarded by mu
  caller,   \* per goroutine: the call it makes
  sentOn    \* live generations on which the bind request was sent

clientVars == <<client, caller, sentOn>>

NewClient ==
  [stream |-> FALSE, generation |-> 0, bound |-> FALSE, binding |-> FALSE,
   done |-> 0, attempts |-> 0, closed |-> FALSE]

NoCall == [op |-> "none", at |-> "idle", generation |-> 0, done |-> 0]

ClientInit ==
  /\ client = NewClient
  /\ caller = [g \in Callers |-> NoCall]
  /\ sentOn = {}

\* closeLocked, with finishBindingLocked
CloseLocked(c) ==
  [c EXCEPT !.generation = @ + 1, !.stream = FALSE, !.bound = FALSE,
            !.binding = FALSE, !.done = 0]

\* finishBindingLocked
FinishBinding(c) == [c EXCEPT !.binding = FALSE, !.done = 0]

\* ensureStreamLocked: a new stream has a mutex and a receive loop of its own.
EnsureStream(c) == [c EXCEPT !.stream = TRUE]

At(g, place) == caller' = [caller EXCEPT ![g].at = place]

-----------------------------------------------------------------------------
Call(g, op) ==
  /\ caller[g].at \in {"idle", "ok", "error"}
  /\ caller' = [caller EXCEPT ![g] = [NoCall EXCEPT !.op = op, !.at = "start"]]
  /\ UNCHANGED <<client, sentOn>>

\* A bind is under way: wait for its channel to close, then look again.
Wait(g) ==
  caller' = [caller EXCEPT ![g].at = "wait", ![g].done = client.done]

\* Queue for the generation's sendMu.
Queue(g, c) ==
  caller' = [caller EXCEPT ![g].at = "queued", ![g].done = c.done,
                           ![g].generation = c.generation]

\* BindSession up to the send
BindStart(g) ==
  LET begun == [EnsureStream(client) EXCEPT
                  !.binding = TRUE, !.attempts = @ + 1, !.done = client.attempts + 1]
  IN
  /\ caller[g].op = "bind" /\ caller[g].at = "start"
  /\ \/ /\ client.bound /\ client.stream
        /\ At(g, "ok")
        /\ UNCHANGED client
     \/ /\ ~client.bound /\ client.binding
        /\ Wait(g)
        /\ UNCHANGED client
     \/ /\ ~client.bound /\ ~client.binding
        /\ client' = begun
        /\ Queue(g, begun)
  /\ UNCHANGED sentOn

\* SendRAVSubmission up to the send
SendStart(g) ==
  /\ caller[g].op = "rav" /\ caller[g].at = "start"
  /\ \/ /\ client.bound /\ client.stream
        /\ Queue(g, client)
     \/ /\ ~client.bound /\ client.binding
        /\ Wait(g)
     \/ /\ ~client.bound /\ ~client.binding
        /\ At(g, "error")
  /\ UNCHANGED <<client, sentOn>>

Wake(g) ==
  /\ caller[g].at = "wait"
  /\ client.done # caller[g].done
  /\ At(g, "start")
  /\ UNCHANGED <<client, sentOn>>

\* sendMu of the generation is taken.
Lock(g) ==
  /\ caller[g].at = "queued"
  /\ \A h \in Callers :
       ~(caller[h].at = "sending" /\ caller[h].generation = caller[g].generation)
  /\ At(g, "sending")
  /\ UNCHANGED <<client, sentOn>>

SameStream(g) ==
  client.stream /\ client.generation = caller[g].generation

\* Mutant: a bind that was sent binds whatever stream there is now.
AfterBindSentAnyStream(g) ==
  [FinishBinding(client) EXCEPT !.bound = client.stream]

AttemptActive(g) == client.binding /\ client.done = caller[g].done

\* The client after a bind request went out.
AfterBindSent(g) ==
  IF SameStream(g) /\ AttemptActive(g)
  THEN [FinishBinding(client) EXCEPT !.bound = TRUE]
  ELSE IF AttemptActive(g) THEN FinishBinding(client)
  ELSE client

\* Mutant: the failed attempt stays the one others wait for.
AfterBindFailedSilent(g) == client

\* The client after a bind request failed.
AfterBindFailed(g) ==
  IF SameStream(g) /\ AttemptActive(g) THEN CloseLocked(client)
  ELSE IF AttemptActive(g) THEN FinishBinding(client)
  ELSE client

\* The rest of BindSession.  A send on a stream that was closed meanwhile may
\* still go through.
BindSent(g) ==
  /\ caller[g].op = "bind" /\ caller[g].at = "sending"
  /\ client' = AfterBindSent(g)
  /\ sentOn' = {n \in sentOn \cup {caller[g].generation} :
                 n >= client.generation}
  /\ At(g, IF SameStream(g) /\ AttemptActive(g) THEN "ok" ELSE "error")

BindFailed(g) ==
  /\ caller[g].op = "bind" /\ caller[g].at = "sending"
  /\ client' = AfterBindFailed(g)
  /\ At(g, "error")
  /\ UNCHANGED sentOn

\* The rest of SendRAVSubmission
RAVSent(g) ==
  /\ caller[g].op = "rav" /\ caller[g].at = "sending"
  /\ At(g, "ok")
  /\ UNCHANGED <<client, sentOn>>

RAVFailed(g) ==
  /\ caller[g].op = "rav" /\ caller[g].at = "sending"
  /\ client' = IF SameStream(g) THEN CloseLocked(client) ELSE client
  /\ At(g, "error")
  /\ UNCHANGED sentOn

\* SetEndpoint with another endpoint
SetEndpoint ==
  /\ client.generation < MaxGenerations
  /\ client' = CloseLocked(client)
  /\ UNCHANGED <<caller, sentOn>>

\* Close
Close ==
  /\ ~client.closed
  /\ client' = [CloseLocked(client) EXCEPT !.closed = TRUE]
  /\ UNCHANGED <<caller, sentOn>>

-----------------------------------------------------------------------------
\* A goroutine runs on by itself, up to a send.
RunOn(g) == BindStart(g) \/ SendStart(g) \/ Wake(g) \/ Lock(g)

Proceed(g) == RunOn(g) \/ BindSent(g) \/ RAVSent(g)

SendFails(g) ==
  /\ client.generation < MaxGenerations
  /\ BindFailed(g) \/ RAVFailed(g)

-----------------------------------------------------------------------------
(* Properties.                                                              *)

\* A client is bound only on the stream its bind request was sent on: a bind
\* or a send that ends late, on a stream that SetEndpoint or Close replaced,
\* leaves the new generation alone (BindSession, SendRAVSubmission).
BoundOnThisStream ==
  client.bound => client.stream /\ client.generation \in sentOn

\* Send takes no context and has no deadline: it ends when the peer lets it.
SendsEnd == \A g \in Callers : []<>(caller[g].at # "sending")

\* A goroutine that waits for another one's bind is released, however that
\* bind ends, as long as sends end (bindingDone).
CallersReturn ==
  SendsEnd =>
    \A g \in Callers : caller[g].at = "start" ~> caller[g].at \in {"ok", "error"}
=============================================================================
