--------------------------- MODULE MCOperatorAPI ---------------------------
(* A small instance of OperatorAPI for TLC: one scenario per question. *)
EXTENDS OperatorAPI

Text(units) == [neg |-> FALSE, int |-> 0, frac |-> <<units>>]

\* One invocation for every set of flags.
Invocations(kind, text, deadline, flagSets) ==
  {[kind |-> kind, text |-> text, deadline |-> deadline, flags |-> f] : f \in flagSets}

Key(flagSets) == {f \cup {"key"} : f \in flagSets}

MCChain ==
  [wallet |-> 3, allowance |-> 0, escrow |-> 1, authorized |-> TRUE, thawEnd |-> 0,
   nonce |-> 0, approvals |-> 0, moves |-> 0, lastAuth |-> 0, baseFee |-> TRUE]

Price(block, byte) == [block |-> block, byte |-> byte]
Name(word, form) == [word |-> word, form |-> form]
At443(scheme) == [scheme |-> scheme, host |-> "h"]

Listed(name, pricing, ids, preferred) ==
  [name |-> name, pricing |-> pricing, ids |-> ids, preferred |-> preferred]

MCCatalog ==
  [providers |-> <<[id |-> 1, address |-> "other", endpoint |-> At443("")],
                   [id |-> 2, address |-> "prov", endpoint |-> At443("https")]>>,
   networks |-> {Listed(Name("mainnet", "plain"), Price(2, 1), <<1, 2>>, <<2>>),
                 Listed(Name("mainnet", "spaced"), Price(1, 1), <<2>>, << >>),
                 Listed(Name("base", "plain"), Price(2, 2), <<2, 1>>, << >>),
                 Listed(Name("polygon", "cased"), Price(2, 2), <<2>>, << >>)}]

Owned(payer) ==
  NewSession(0, TRUE) @@
  [payer |-> payer, touched |-> 0, pricing |-> Price(1, 1), reason |-> "none",
   funds |-> [status |-> "", projected |-> << >>, balance |-> << >>, error |-> FALSE]]

TLS == [plaintext |-> FALSE, cert |-> TRUE, key |-> TRUE]
Plaintext == [plaintext |-> TRUE, cert |-> FALSE, key |-> FALSE]
NoTransport == [plaintext |-> FALSE, cert |-> FALSE, key |-> FALSE]

File(pricing) == <<[block |-> pricing.block, byte |-> pricing.byte, threshold |-> << >>]>>

MCGateway ==
  [command |-> TRUE, provider |-> "prov", collector |-> "collector", escrow |-> "escrow",
   pricing |-> File(Price(1, 1)), dataPlane |-> TRUE, rpc |-> TRUE,
   transport |-> TLS, plugin |-> NoTransport,
   dsn |-> [scheme |-> "inmemory", failing |-> 0],
   operator |-> [listen |-> TRUE, admin |-> "admin", read |-> "read"]]

Given(payer, receiver, service, oracle, endpoint) ==
  [payer |-> payer, receiver |-> receiver, service |-> service, oracle |-> oracle,
   endpoint |-> endpoint]

MCSidecar ==
  [signer |-> "payer", transport |-> Plaintext, file |-> Given("", "", "", "", ""),
   flags |-> Given("payer", "unset", "service", "oracle", "unset")]

Base ==
  [menu |-> {}, cmds |-> 0, chain |-> MCChain, horizon |-> 0, collects |-> 0,
   catalog |-> MCCatalog, gateway |-> MCGateway, sidecar |-> MCSidecar, sessions |-> << >>,
   reqs |-> 0, calls |-> {}, streams |-> {}, inits |-> {}, endings |-> {}, ends |-> 0,
   ops |-> 0, queries |-> {}, values |-> {}, changes |-> 0,
   changing |-> {"rav", "usage", "workers", "control", "funds"}]

-----------------------------------------------------------------------------
\* Two approvals at once, over an allowance that is not zero.
Approvals ==
  [Base EXCEPT !.cmds = 2, !.chain.allowance = 1,
     !.menu = Invocations("approve", Text(2), 0,
                Key({{}, {"force"}, {"reset"}, {"noWait"}, {"dry"}, {"legacy"}, {"lowFee"},
                     {"keyEnv"}, {"force", "reset"}, {"reset", "noWait"}}))
              \cup Invocations("approve", Text(0), 0, Key({{}}))
              \cup Invocations("fundingStatus", Text(0), 0, {{}})]

\* A chain without base fees.
OldChain ==
  [Base EXCEPT !.cmds = 1, !.chain.baseFee = FALSE,
     !.menu = Invocations("approve", Text(2), 0, Key({{}, {"legacy"}, {"lowFee"}, {"maxFee"}}))]

\* Deposits and top-ups, while the provider collects.
Deposits ==
  [Base EXCEPT !.cmds = 2, !.chain.allowance = 2, !.collects = 1,
     !.menu = Invocations("topUp", Text(2), 0, Key({{}, {"gas"}, {"dry"}}))
              \cup Invocations("deposit", Text(1), 0,
                     Key({{"precheck"}, {"noWait", "gas"}, {"otherPayer"}}))
              \cup Invocations("deposit", [Text(1) EXCEPT !.neg = TRUE], 0, Key({{}}))
              \cup Invocations("deposit", [Text(1) EXCEPT !.int = 9], 0, Key({{}}))]

\* The signer's authorization comes and goes.
Signers ==
  [Base EXCEPT !.cmds = 2, !.horizon = 2,
     !.menu = Invocations("authorize", Text(0), 1, Key({{"local"}, {"external"}, {}}))
              \cup Invocations("thaw", Text(0), 0, Key({{}}))
              \cup Invocations("revoke", Text(0), 0, Key({{}}))
              \cup Invocations("cancelThaw", Text(0), 0, Key({{"gas"}}))
              \cup Invocations("signerStatus", Text(0), 0, {{}})]

-----------------------------------------------------------------------------
Header(key, values) == <<[key |-> key, legacy |-> FALSE, values |-> values]>>
Valid(value) == <<[utf8 |-> TRUE, value |-> value]>>
Garbled(value) == <<[utf8 |-> FALSE, value |-> value]>>
RAV(payer, signer, provider) ==
  Valid([base64 |-> "std", proto |-> TRUE, payer |-> payer, signer |-> signer,
         provider |-> provider])

CallWith(headers) == [grpc |-> TRUE, frame |-> "whole", legacy |-> FALSE, headers |-> headers]
Call(rav, session) == CallWith(Header("rav", rav) \o Header("session", session))

Stream(version, pkg, requested) == [version |-> version, pkg |-> pkg, requested |-> requested]

Account(payer, receiver, direct) ==
  [payer |-> payer, receiver |-> receiver, direct |-> direct, pkg |-> << >>,
   requested |-> Named("eth")]

\* Calls, and new sessions, signed by a delegate whose authorization is revoked
\* meanwhile.
DelegateCalls ==
  [Base EXCEPT !.cmds = 1, !.reqs = 2, !.chain.thawEnd = 1, !.horizon = 3,
     !.sessions = <<Owned("payer")>>,
     !.menu = Invocations("revoke", Text(0), 0, Key({{"noWait"}})),
     !.calls = {Call(RAV("payer", "delegate", "prov"), Valid(1))}]

DelegateSessions ==
  [DelegateCalls EXCEPT !.calls = {}, !.sessions = << >>, !.sidecar.signer = "delegate",
     !.inits = {Account("payer", <<"prov">>, TRUE)}]

\* Everything a call may present.
Presented ==
  [Base EXCEPT !.reqs = 1, !.horizon = 3, !.ends = 1,
     !.sessions = <<Owned("payer"), Owned("else")>>,
     !.calls = {Call(rav, session) :
                  rav \in {RAV("payer", "payer", "prov"), RAV("payer", "payer", "other"),
                           RAV("else", "delegate", "prov"), RAV("payer", "none", "prov"),
                           << >>, Garbled([base64 |-> "none", proto |-> FALSE]),
                           Valid([base64 |-> "none", proto |-> TRUE]),
                           Valid([base64 |-> "rawURL", proto |-> FALSE])},
                  session \in {Valid(1), Valid(2), Valid(3), << >>}}]

\* What older plugins send: headers of any name, one name twice, bare values.
LegacyCalls ==
  LET rav == Header("rav", RAV("payer", "payer", "prov"))
      bodies == {rav \o Header("session", Valid(1)) \o Header("other", Valid(0)),
                 rav \o Header("session", Valid(1)) \o Header("session", << >>),
                 rav \o Header("session", Valid(2)) \o Header("session", Garbled(0) \o Valid(1)),
                 rav \o [Header("session", Valid(1)) EXCEPT ![1].legacy = TRUE]} IN
  {[CallWith(h) EXCEPT !.legacy = TRUE, !.grpc = grpc, !.frame = frame] :
     h \in bodies, grpc \in BOOLEAN, frame \in {"whole", "short", "compressed"}}

FromOlderPlugins ==
  [Base EXCEPT !.reqs = 1, !.sessions = <<Owned("payer"), Owned("else")>>, !.calls = LegacyCalls]

\* Gateways that the command would not start: nil queriers, no data plane.
Partial ==
  {[Base EXCEPT !.reqs = 1, !.gateway.command = FALSE, !.gateway.rpc = rpc,
      !.gateway.dataPlane = ~rpc, !.sidecar.signer = signer, !.sessions = <<Owned("payer")>>,
      !.calls = {Call(RAV("payer", "delegate", "prov"), Valid(1))},
      !.inits = {Account("payer", <<"prov">>, TRUE)}] :
     signer \in {"payer", "delegate"}, rpc \in BOOLEAN}

-----------------------------------------------------------------------------
Package(network, networks) == <<[network |-> network, networks |-> networks]>>

\* Streams that need the oracle, whose file lists a network twice.
Bootstraps ==
  [Base EXCEPT !.reqs = 1,
     !.streams = {Stream(version, pkg, requested) :
                    version \in {2, 3},
                    requested \in {Named(""), Named("eth"), Name("base", "cased"), Named("polygon")},
                    pkg \in {<< >>,
                             Package(Named(""), {}),
                             Package(Named("ethereum"), {}),
                             Package(Named("base"), {Named("mainnet"), Name("base", "spaced")}),
                             Package(Named(""), {Named("mainnet"), Named("eth-mainnet")}),
                             Package(Named(""), {Named("mainnet"), Named("base")}),
                             Package(Named(""), {Named("matic")})}}]

Gateways(l) ==
  {[l EXCEPT !.gateway.pricing = pricing, !.sidecar.flags.receiver = receiver] :
     pricing \in {<< >>, File(Price(2, 1)), File(Price(2, 2)), File(Price(1, 3))},
     receiver \in {"unset", "prov", "other"}}

\* Ways to configure the sidecar, and to leave something out.
Sidecars ==
  LET l == [Base EXCEPT !.reqs = 1, !.inits = {Account("payer", <<"prov">>, FALSE)},
              !.streams = {Stream(version, << >>, Named("eth")) : version \in {2, 4}}] IN
  {[l EXCEPT !.sidecar.flags = flags, !.sidecar.file = file, !.sidecar.transport = transport] :
     transport \in {TLS, NoTransport},
     flags \in {Given("unset", "unset", "unset", "unset", "unset"),
                Given("payer", "unset", "service", "unset", "endpoint"),
                Given("payer", "prov", "unset", "", "endpoint")},
     file \in {Given("", "", "", "", ""), Given("else", "prov", "service", "oracle", ""),
               Given("else", "malformed", "service", "oracle", "")}}

\* Ways to configure the provider, most of which do not start it.
Providers ==
  LET l == [Base EXCEPT !.reqs = 1, !.sessions = <<Owned("payer")>>,
              !.calls = {Call(RAV("payer", "payer", "prov"), Valid(1))},
              !.inits = {Account("payer", <<"prov">>, TRUE)}] IN
  {[l EXCEPT !.gateway.transport = transport, !.gateway.plugin = plugin] :
     transport \in {TLS, Plaintext, NoTransport}, plugin \in {TLS, Plaintext, NoTransport}}
  \cup {[l EXCEPT !.gateway.dsn = [scheme |-> scheme, failing |-> n],
                  !.gateway.pricing[1].threshold = threshold] :
          scheme \in {"inmemory", "psql", "other"}, n \in {9, 10},
          threshold \in {<<0>>, <<2>>}}
  \cup {[l EXCEPT !.gateway.collector = address] : address \in {"", "malformed"}}
  \cup {[l EXCEPT !.gateway.escrow = address] : address \in {"", "malformed"}}

\* Sessions of the sidecar's own interface, and callers that end them.
Endings ==
  [Base EXCEPT !.reqs = 2, !.endings = {0, 1}, !.ends = 1,
     !.inits = {Account("payer", receiver, FALSE) : receiver \in {<<"prov">>, <<"other">>, << >>}}]

-----------------------------------------------------------------------------
Query0 ==
  [kind |-> "metrics", sources |-> {"flag"}, token |-> "read", scheme |-> "", plaintext |-> FALSE,
   s |-> 0, complete |-> TRUE, status |-> "", funds |-> "", payer |-> "", includeRAV |-> TRUE,
   limit |-> 0, value |-> 0, detail |-> TRUE]

Reads == {"listSessions", "getSession", "listRAVs", "getRAV", "listCollections",
          "getCollection", "metrics"}

\* An operator settles records and reads them while new RAVs arrive.
Settling ==
  [Base EXCEPT !.ops = 3, !.sessions = <<Owned("payer")>>, !.changes = 2, !.changing = {"rav"},
     !.values = {1, 2},
     !.queries = {[Query0 EXCEPT !.kind = kind, !.token = "admin", !.s = 1, !.value = v] :
                    kind \in Marks, v \in {0, 1, 2}}
                 \cup {[Query0 EXCEPT !.kind = "getRAV", !.s = 1]}]

\* Every read, over two sessions whose payment state changes.
Reading ==
  [Base EXCEPT !.ops = 1, !.sessions = <<Owned("payer"), Owned("else")>>, !.changes = 2,
     !.values = {2},
     !.queries = {[Query0 EXCEPT !.kind = kind, !.s = s, !.limit = limit] :
                    kind \in Reads, s \in {0, 1}, limit \in {0, 1}}]

\* Every way to be refused, and every filter.
Asking ==
  [Base EXCEPT !.ops = 1, !.sessions = <<Owned("payer"), Owned("else")>>, !.changes = 1,
     !.queries = {[Query0 EXCEPT !.kind = kind, !.token = token, !.sources = sources, !.s = 1] :
                    kind \in {"getCollection", "markPending"},
                    token \in {"admin", "read", "wrong", "blank", ""},
                    sources \in {{}, {"flag"}, {"flag", "env"}}}
                 \cup {[Query0 EXCEPT !.kind = "listCollections", !.scheme = scheme,
                                      !.plaintext = plaintext] :
                         scheme \in {"", "http", "https", "ftp"}, plaintext \in BOOLEAN}
                 \cup {[Query0 EXCEPT !.kind = "listSessions", !.status = status,
                                      !.funds = funds, !.payer = payer, !.includeRAV = FALSE] :
                         status \in {"", "active", "paused", "other"},
                         funds \in {"", "unknown", "other"}, payer \in {"", "payer", "malformed"}}
                 \cup {[Query0 EXCEPT !.kind = "listCollections", !.status = status] :
                         status \in {"", "collectible", "collected", "other"}}
                 \cup {[Query0 EXCEPT !.kind = "getCollection", !.complete = FALSE],
                       [Query0 EXCEPT !.token = "blank"]}
                 \cup {[Query0 EXCEPT !.kind = "listRAVs", !.s = s, !.payer = "else"] :
                         s \in {1, 2, 3}}
                 \cup {[Query0 EXCEPT !.kind = "markCollected", !.token = "admin", !.s = s,
                                      !.complete = FALSE] : s \in {0, 1}}
                 \cup {[Query0 EXCEPT !.kind = kind, !.token = "admin", !.s = 1,
                                      !.detail = FALSE] : kind \in Marks}]

\* A provider whose operator API is off, or has no proper tokens, or one token.
Tokens ==
  {[Asking EXCEPT !.changes = 0,
      !.gateway.operator = [listen |-> listen, admin |-> admin, read |-> "read"]] :
     listen \in BOOLEAN, admin \in {"unset", "blank", "read"}}

MCDefaultPricing == Price(1, 1)

MCLoads ==
  {Approvals, OldChain, Deposits, Signers, DelegateCalls, DelegateSessions, Presented, FromOlderPlugins,
   Endings, Settling, Reading, Asking}
    \cup Gateways(Bootstraps) \cup Sidecars \cup Providers \cup Partial \cup Tokens
=============================================================================
