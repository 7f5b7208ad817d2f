----------------------------- MODULE Admission -----------------------------
(***************************************************************************)
(* How a consumer gets in: the sidecar's bootstrap of a session (consumer/ *)
(* sidecar), the gateway's StartSession, the authentication plugin and     *)
(* service (provider/plugin, provider/auth), and the two 30 second caches  *)
(* of the collector's isAuthorized, while the payer changes what the       *)
(* collector says (PayerCommands).                                         *)
(*                                                                         *)
(* A request is a process: a data-plane call ("auth"), a bootstrap with    *)
(* the StartSession it makes ("start"), or the sidecar's EndSession        *)
(* ("end").                                                                *)
(***************************************************************************)
EXTENDS PayerCommands, Discovery, SessionStore, Processes

CONSTANTS
  Requests,     \* data-plane calls and bootstraps
  Payer,        \* the payer of PayerCommands, with the signer it authorizes
  Delegate,     \* that signer
  TTL,          \* lifetime of a cached answer
  IdleLimit,    \* SessionKeepAliveTimeout
  MaxFlight,    \* longest time isAuthorized takes to answer
  MaxSessions   \* bound on provider sessions

ASSUME AdmissionAssumption == TTL \in Nat /\ MaxFlight \in Nat /\ MaxFlight < TTL

Services == {"auth", "gateway"}
SessionIDs == 1 .. MaxSessions

VARIABLES
  catalog,   \* the oracle's catalog; empty when the oracle did not start
  cache,     \* authCache of both services, per payer and signer
  req,       \* the requests
  prov,      \* the provider's sessions; a sequence, the identifier an index
  local,     \* the sidecar's sessions
  grants     \* history: delegates found authorized, and when they last were

admissionVars == <<catalog, cache, req, prov, local, grants>>

NoRequest == [kind |-> "none", pc |-> "idle", in |-> << >>, sel |-> << >>,
              asked |-> 0, seen |-> FALSE, sid |-> 0, out |-> "none"]

AdmissionInit ==
  /\ PayerInit
  /\ catalog \in (IF CatalogValid(load.catalog) THEN ParseCatalog(load.catalog) ELSE {<< >>})
  /\ cache = [v \in Services |-> << >>]
  /\ req = [r \in Requests |-> NoRequest]
  /\ prov = load.sessions
  /\ local = {}
  /\ grants = {}

Gateway == New(load.gateway)

\* The provider is running: started by its command, or built directly as the
\* repository's tests do.
ProviderServes == load.gateway.command => runProviderGateway(load.gateway)

SetReq(r, q) == req' = [req EXCEPT ![r] = q]
End(q, out) == [q EXCEPT !.pc = "done", !.out = out]
At(q, pc) == [q EXCEPT !.pc = pc]

\* A step of request r alone.
ReqStep(r, q) ==
  /\ SetReq(r, q)
  /\ UNCHANGED <<payerVars, catalog, cache, prov, local, grants>>

\* Requests begin in turn, as many as the scenario has.
NextRequest(r) ==
  /\ req[r].pc = "idle" /\ r <= load.reqs
  /\ \A n \in Requests : n < r => req[n].pc # "idle"

\* A call that fails ends its request.
CallFails(r) ==
  /\ req[r].pc \in {"resolve", "ask", "session", "create", "respond"}
  /\ failures < MaxFailures
  /\ failures' = failures + 1
  /\ SetReq(r, End(req[r], "error"))
  /\ UNCHANGED <<load, now, chain, pool, mined, cmd, catalog, cache, prov,
                 local, grants>>

-----------------------------------------------------------------------------
(* Data-plane authentication.                                               *)

\* A header is [key, legacy, values]: the name without regard to case, and a
\* sequence of [utf8, value].  Older plugins send a bare value, "legacy".
forwardedAuthHeaderNames == {"rav", "session", "trace"}

sanitizeAuthHeaderValues(values) == SelectSeq(values, LAMBDA v : v.utf8)

\* What the plugin sends of the headers, in the order in which it meets them.
forwardedAuthHeaders(headers) ==
  SelectSeq([i \in DOMAIN headers |->
               [headers[i] EXCEPT !.values = sanitizeAuthHeaderValues(@)]],
            LAMBDA e : e.key \in forwardedAuthHeaderNames /\ e.values # << >>)

\* The service's transport cleans what other plugins send, and tells if there
\* was anything to clean.
sanitizeAuthHeaderEntry(e) ==
  [key |-> e.key,
   values |-> IF e.key \in forwardedAuthHeaderNames
              THEN sanitizeAuthHeaderValues(e.values) ELSE << >>,
   changed |-> \/ e.key \notin forwardedAuthHeaderNames \/ e.legacy
               \/ sanitizeAuthHeaderValues(e.values) # e.values]

\* The last entry of a name counts.  In a message that was cleaned it is the
\* last one with a value; otherwise the message is passed on as it is.
sanitizeValidateAuthMessage(headers) ==
  LET entries == [i \in DOMAIN headers |-> sanitizeAuthHeaderEntry(headers[i])]
      changed == \E i \in DOMAIN entries : entries[i].changed
      kept(name) == SelectSeq(entries, LAMBDA e : e.key = name /\ (changed => e.values # << >>)) IN
  [name \in forwardedAuthHeaderNames |->
     IF kept(name) = << >> THEN << >> ELSE Last(kept(name)).values]

\* A gRPC body is one frame, complete and not compressed.
sanitizeAuthPayload(call) == call.grpc => call.frame = "whole"

\* Base64 of either alphabet, over a RAV.
decodeRAVFromHeader(value) == value.base64 \in {"std", "rawURL"} /\ value.proto

\* What the beginning of ValidateAuth and validateRAV says of the RAV.
RAVRefusal(header) ==
  CASE header = << >> -> "unauthenticated"
    [] header # << >> /\ ~decodeRAVFromHeader(header[1].value) -> "invalid"
    [] header # << >> /\ header[1].value.signer = "none" -> "unauthenticated"
    [] OTHER -> "none"

BeginAuth(r) ==
  /\ NextRequest(r)
  /\ ProviderServes
  /\ \E call \in load.calls :
       LET headers == IF call.legacy THEN call.headers ELSE forwardedAuthHeaders(call.headers)
           in == sanitizeValidateAuthMessage(headers)
           q == [NoRequest EXCEPT !.kind = "auth", !.in = in] IN
       ReqStep(r, IF ~sanitizeAuthPayload(call) THEN End(q, "badRequest")
                  ELSE IF RAVRefusal(in.rav) # "none" THEN End(q, RAVRefusal(in.rav))
                  ELSE At(q, "signer"))

-----------------------------------------------------------------------------
(* The sidecar's bootstrap up to the gateway's first checks.                *)

\* What a bootstrap is given, with the sidecar's key to sign for it.
Bootstrap(payer, receiver, direct, pkg, requested) ==
  [NoRequest EXCEPT !.kind = "start", !.pc = "resolve",
     !.in = [payer |-> payer, receiver |-> receiver, direct |-> direct, pkg |-> pkg,
             requested |-> requested, signer |-> load.sidecar.signer]]

\* A stream of protocol version 2 has modules and no networks, so that it needs
\* a provider that is given.
V2Blocks(ingress) ==
  IF ~ingress.direct THEN End([NoRequest EXCEPT !.kind = "start"], "failedPrecondition")
  ELSE Bootstrap(ingress.payer, ingress.receiver, ingress.direct,
                 <<[network |-> Named(""), networks |-> {}]>>, Named(""))

\* Versions 3 and 4 have a package, and may name a network.
V3Blocks(ingress, b) ==
  Bootstrap(ingress.payer, ingress.receiver, ingress.direct, b.pkg, b.requested)

\* A stream at the ingress of the sidecar.
BeginStart(r) ==
  LET ingress == requireIngressConfig(load.sidecar) IN
  /\ NextRequest(r)
  /\ runConsumerSidecar(load.sidecar)
  /\ \E b \in load.streams :
       ReqStep(r, IF ingress = << >> THEN End([NoRequest EXCEPT !.kind = "start"], "failedPrecondition")
                  ELSE IF b.version = 2 THEN V2Blocks(ingress[1]) ELSE V3Blocks(ingress[1], b))

\* The sidecar's Init, which needs a complete escrow account.
SidecarInit(r) ==
  /\ NextRequest(r)
  /\ runConsumerSidecar(load.sidecar)
  /\ \E b \in load.inits :
       LET q == Bootstrap(b.payer, b.receiver, b.direct, b.pkg, b.requested) IN
       ReqStep(r, IF b.receiver = << >> THEN End(q, "invalid") ELSE q)

\* An endpoint that is given needs a receiver, and no oracle.
SelectDirect(r) ==
  LET q == req[r] IN
  /\ q.pc = "resolve" /\ q.in.direct
  /\ ReqStep(r, IF q.in.receiver = << >> THEN End(q, "invalid")
                ELSE At([q EXCEPT !.sel = <<[network |-> NoNetwork, pricing |-> << >>,
                                             receiver |-> q.in.receiver[1]]>>],
                        "received"))

SelectionMatches(expected, provider) ==
  expected = << >> \/ expected[1] = provider.address

SelectByOracle(r) ==
  LET q == req[r]
      network == resolveRequestedNetwork(q.in.pkg, q.in.requested)
      answer == DiscoverProviders(catalog, network)
      found == answer.found IN
  /\ q.pc = "resolve" /\ ~q.in.direct
  /\ ReqStep(r,
       IF resolveString(load.sidecar, "oracle") = "" THEN End(q, "failedPrecondition")
       ELSE IF network = NetworkError THEN End(q, "invalid")
       ELSE IF answer.error # "none" THEN End(q, answer.error)
       ELSE IF ~SelectionMatches(q.in.receiver, found[1].recommended) THEN End(q, "invalid")
       ELSE At([q EXCEPT !.sel = <<[network |-> network,
                                    pricing |-> <<found[1].pricing>>,
                                    receiver |-> found[1].recommended.address]>>],
               "received"))

\* StartSession compares the receiver with its own address.
ReceiveStart(r) ==
  /\ req[r].pc = "received"
  /\ ReqStep(r, IF ~ProviderServes THEN End(req[r], "unavailable")
                ELSE IF req[r].sel[1].receiver # Gateway.provider
                THEN End(req[r], "rejected") ELSE At(req[r], "signer"))

-----------------------------------------------------------------------------
(* isSignerAuthorized, of the gateway and of the authentication service.    *)

Service(r) == IF req[r].kind = "auth" THEN "auth" ELSE "gateway"

RAVOf(r) ==
  IF req[r].kind = "auth" THEN req[r].in.rav[1].value
  ELSE [payer |-> req[r].in.payer, signer |-> req[r].in.signer,
        provider |-> req[r].sel[1].receiver]

Authorized(r, ok) == IF ok THEN At(req[r], "checks") ELSE End(req[r], "denied")

Granted(r, ok) ==
  IF ok /\ RAVOf(r).payer = Payer
  THEN grants \cup {[service |-> Service(r), at |-> now, last |-> chain.lastAuth]}
  ELSE grants

CacheKey(r) == <<RAVOf(r).payer, RAVOf(r).signer>>

CachedEntry(r) == cache[Service(r)][CacheKey(r)]

FreshEntry(r) ==
  CacheKey(r) \in DOMAIN cache[Service(r)] /\ now < CachedEntry(r).expires

\* The payer signs itself; without a collector the service refuses, and the
\* gateway, whose querier is then a nil pointer in an interface, panics.
CheckSigner(r) ==
  LET q == req[r] IN
  /\ q.pc = "signer"
  /\ IF RAVOf(r).payer = RAVOf(r).signer THEN ReqStep(r, At(q, "checks"))
     ELSE IF ~Gateway.querier THEN
            ReqStep(r, End(q, IF q.kind = "auth" THEN "denied" ELSE "panic"))
     ELSE IF FreshEntry(r) THEN
            /\ SetReq(r, Authorized(r, CachedEntry(r).ok))
            /\ grants' = Granted(r, CachedEntry(r).ok)
            /\ UNCHANGED <<payerVars, catalog, cache, prov, local>>
     ELSE ReqStep(r, [At(q, "ask") EXCEPT !.asked = now])

\* The call executes on the chain at some time before its answer arrives.
IsAuthorized(r) ==
  /\ req[r].pc = "ask"
  /\ ReqStep(r, [At(req[r], "answer") EXCEPT
                   !.seen = chain.authorized /\ RAVOf(r).payer = Payer
                                             /\ RAVOf(r).signer = Delegate])

\* Mutant: the lifetime of every entry counts from the answer.
ExpiresFromAnswer(service, asked) == now + TTL

\* The service counts from before the call, the gateway from after it.
Expires(service, asked) == (IF service = "auth" THEN asked ELSE now) + TTL

StoreAnswer(r) ==
  LET q == req[r] IN
  /\ q.pc = "answer"
  /\ cache' = [cache EXCEPT ![Service(r)] =
                 (CacheKey(r) :> [ok |-> q.seen, expires |-> Expires(Service(r), q.asked)]) @@ @]
  /\ SetReq(r, Authorized(r, q.seen))
  /\ grants' = Granted(r, q.seen)
  /\ UNCHANGED <<payerVars, catalog, prov, local>>

-----------------------------------------------------------------------------
(* The rest of ValidateAuth.                                                *)

CheckAuth(r) ==
  LET q == req[r] IN
  /\ q.pc = "checks" /\ q.kind = "auth"
  /\ ReqStep(r, IF RAVOf(r).provider # Gateway.provider THEN End(q, "denied")
                ELSE IF q.in.session = << >> THEN End(q, "unauthenticated")
                ELSE At([q EXCEPT !.sid = q.in.session[1].value], "session"))

SessionAdmits(s, payer) ==
  /\ IsActive(prov[s])
  /\ now - prov[s].touched <= IdleLimit
  /\ prov[s].payer = payer

\* validateSession reads the session ...
validateSession(r) ==
  LET q == req[r] IN
  /\ q.pc = "session"
  /\ ReqStep(r, IF q.sid \in DOMAIN prov /\ SessionAdmits(q.sid, RAVOf(r).payer)
                THEN At(q, "touch") ELSE End(q, "unauthenticated"))

\* ... and touches it, whatever became of it meanwhile; a failure is logged.
TouchSession(r) ==
  /\ req[r].pc = "touch"
  /\ SetReq(r, End(req[r], "admitted"))
  /\ \/ /\ prov' = [prov EXCEPT ![req[r].sid].touched = now]
        /\ UNCHANGED failures
     \/ /\ failures < MaxFailures
        /\ failures' = failures + 1
        /\ UNCHANGED prov
  /\ UNCHANGED <<load, now, chain, pool, mined, cmd, catalog, cache, local, grants>>

-----------------------------------------------------------------------------
(* The rest of StartSession, and of the bootstrap.                          *)

\* The RAV names this provider, and the payer of the escrow account.
CheckStart(r) ==
  /\ req[r].pc = "checks" /\ req[r].kind = "start"
  /\ ReqStep(r, IF RAVOf(r).provider = Gateway.provider
                THEN At(req[r], "create") ELSE End(req[r], "rejected"))

\* A new session, with the initial RAV of value zero and no funds metadata.
StoredSession(payer) ==
  NewSession(0, TRUE) @@
  [payer |-> payer, touched |-> now, pricing |-> ToPricingConfig(Gateway.pricing),
   reason |-> "none",
   funds |-> [status |-> "", projected |-> << >>, balance |-> << >>, error |-> FALSE]]

\* Without a data-plane endpoint the session is stored before the call fails.
CreateSession(r) ==
  /\ req[r].pc = "create"
  /\ Len(prov) < MaxSessions
  /\ prov' = Append(prov, StoredSession(req[r].in.payer))
  /\ SetReq(r, IF Gateway.dataPlane
               THEN [At(req[r], "respond") EXCEPT !.sid = Len(prov) + 1]
               ELSE End(req[r], "internal"))
  /\ UNCHANGED <<payerVars, catalog, cache, local, grants>>

\* A session of the sidecar, with the RAV it started from and no usage.
NewSessionWithID(r, id, receiver, pricing) ==
  [r |-> r, sid |-> id, receiver |-> receiver, pricing |-> pricing, rav |-> 0,
   usage |-> 0, active |-> TRUE, managed |-> FALSE]

LocalStep(r, q, sessions) ==
  /\ SetReq(r, q)
  /\ local' = sessions
  /\ UNCHANGED <<payerVars, catalog, cache, prov, grants>>

\* The sidecar has the answer: a price above the oracle's ends the bootstrap,
\* and leaves the provider's session behind; so does an identifier it has.
AdoptSession(r) ==
  LET q == req[r]
      offered == <<prov[q.sid].pricing>> IN
  /\ q.pc = "respond"
  /\ IF PricingRefused(offered, q.sel[1].pricing) THEN ReqStep(r, End(q, "failed"))
     ELSE IF \E l \in local : l.sid = q.sid THEN ReqStep(r, End(q, "internal"))
     ELSE LocalStep(r, At(q, "endpoint"), local \cup
            {NewSessionWithID(r, q.sid, q.sel[1].receiver,
                              effectiveSessionPricing(offered, q.sel[1].pricing))})

\* The payment client of the session; its identifier is now the caller's.
SetEndpoint(r) ==
  /\ req[r].pc = "endpoint"
  /\ LocalStep(r, End(req[r], "created"),
               {[l EXCEPT !.managed = @ \/ l.sid = req[r].sid] : l \in local})

-----------------------------------------------------------------------------
(* The deprecated EndSession of the sidecar.                                *)

\* Callers pass an identifier they were told, or one nobody has.
BeginEnd(r) ==
  /\ NextRequest(r)
  /\ runConsumerSidecar(load.sidecar)
  /\ \E usage \in load.endings :
       \E s \in {0} \cup {req[n].sid : n \in {m \in Requests : req[m].out = "created"}} :
         ReqStep(r, [NoRequest EXCEPT !.kind = "end", !.sid = s, !.in = usage, !.pc = "lookup"])

LookupEnd(r) ==
  /\ req[r].pc = "lookup"
  /\ ReqStep(r, IF \E l \in local : l.sid = req[r].sid THEN At(req[r], "ending")
                ELSE End(req[r], "notFound"))

\* A final RAV over the final usage, and no payment client any more.
Ended(l, usage) ==
  [l EXCEPT !.usage = @ + usage, !.rav = @ + usage, !.active = FALSE, !.managed = FALSE]

\* A session with a payment client is the provider's to end.
EndSession(r) ==
  LET q == req[r] IN
  /\ q.pc = "ending"
  /\ IF \E l \in local : l.sid = q.sid /\ l.managed
     THEN ReqStep(r, End(q, "failedPrecondition"))
     ELSE LocalStep(r, End(q, "ended"),
                    {IF l.sid = q.sid THEN Ended(l, q.in) ELSE l : l \in local})

-----------------------------------------------------------------------------
(* Around it: payment control ends a session, a worker's keep-alive touches  *)
(* it without looking, and time passes while calls are in flight.            *)

SessionEnds(s) ==
  /\ load.ends > 0
  /\ IsActive(prov[s])
  /\ prov' = [prov EXCEPT ![s] = WithRuntimeState(@, "terminated")]
  /\ load' = [load EXCEPT !.ends = @ - 1]
  /\ UNCHANGED <<now, chain, pool, mined, cmd, failures, catalog, cache, req,
                 local, grants>>

AnswersInTime ==
  \A r \in Requests : req[r].pc \in {"ask", "answer"} => now < req[r].asked + MaxFlight

AdmissionTick ==
  /\ AnswersInTime
  /\ Tick
  /\ UNCHANGED admissionVars

RequestNext ==
  \E r \in Requests :
    \/ BeginAuth(r) \/ BeginStart(r) \/ SidecarInit(r) \/ BeginEnd(r)
    \/ SelectDirect(r) \/ SelectByOracle(r) \/ ReceiveStart(r)
    \/ CheckSigner(r) \/ IsAuthorized(r) \/ StoreAnswer(r)
    \/ CheckAuth(r) \/ validateSession(r) \/ TouchSession(r)
    \/ CheckStart(r) \/ CreateSession(r) \/ AdoptSession(r)
    \/ SetEndpoint(r) \/ LookupEnd(r) \/ EndSession(r) \/ CallFails(r)

PayerOnly == (Commands \/ ChainSteps) /\ UNCHANGED admissionVars

AdmissionNext ==
  \/ RequestNext
  \/ \E s \in DOMAIN prov : SessionEnds(s)
  \/ AdmissionTick
  \/ PayerOnly

AdmissionSpec == AdmissionInit /\ [][AdmissionNext]_<<payerVars, admissionVars>>

-----------------------------------------------------------------------------
(* Properties.                                                              *)

\* A delegate is let in only if the payer's authorization was in force shortly
\* before: less than TTL ago for a data-plane call, although answers come late
\* and overwrite each other, and less than TTL and the longest call ago for a
\* new session, whose cache counts from the answer.  And a call that is let in
\* pays for a session of its own payer.
AdmittedSignerWasAuthorized ==
  /\ \A g \in grants :
       g.at < g.last + TTL + (IF g.service = "auth" THEN 0 ELSE MaxFlight)
  /\ \A r \in Requests :
       req[r].out = "admitted" => prov[req[r].sid].payer = RAVOf(r).payer

\* What the package and the request designate, as a relation.
Designates(pkg, requested, network) ==
  LET want == normalizeNetworkKey(requested)
      top == normalizeNetworkKey(pkg[1].network)
      names == normalizePackageNetworks(pkg[1].networks) IN
  /\ network # NoNetwork
  /\ want \in {NoNetwork, network}
  /\ \/ pkg = << >> /\ want = network
     \/ pkg # << >> /\ names = {} /\ (top = network \/ (top = NoNetwork /\ want = network))
     \/ pkg # << >> /\ network \in names /\
          (names = {network} \/ top = network \/ (top \notin names /\ want = network))

\* A session the sidecar keeps is one the provider has, for the same payer.
\* If the oracle was asked, the provider is one the catalog file lists for the
\* network that package and request designate, it is the one the caller
\* expects, and the session's prices are not above the file's.  And the
\* sidecar's own EndSession never ends a session the provider meters.
SelectionIsJustified ==
  \A l \in local : LET q == req[l.r] IN
    /\ l.active /\ (q.out = "created" => l.managed)
    /\ l.sid \in DOMAIN prov /\ prov[l.sid].payer = q.in.payer
    /\ \A m \in local : m.sid = l.sid => m = l
    /\ q.in.receiver # << >> => l.receiver = q.in.receiver[1]
    /\ ~q.in.direct =>
         \E n \in load.catalog.networks :
           /\ Designates(q.in.pkg, q.in.requested, n.name.word)
           /\ \E p \in ToSet(load.catalog.providers) :
                p.id \in ToSet(n.ids) /\ p.address = l.receiver
           /\ l.pricing[1].block <= n.pricing.block
           /\ l.pricing[1].byte <= n.pricing.byte
=============================================================================
