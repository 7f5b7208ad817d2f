----------------------------- MODULE Processes -----------------------------
(***************************************************************************)
(* How the two long-running programs start: cmd/sds provider gateway with  *)
(* gateway.New, and cmd/sds consumer sidecar with the configuration of its *)
(* ingress.  All of it is decided once, from flags, files and environment. *)
(*                                                                         *)
(* A setting is "" when it is absent and "malformed" when it is an address *)
(* that does not parse.                                                    *)
(***************************************************************************)
EXTENDS Naturals, Sequences

CONSTANTS
  DefaultPricing,  \* prices without a pricing file
  Threshold        \* DefaultRAVRequestThreshold

\* Plaintext, or both files of a key pair.
Validate(t) == IF t.plaintext THEN ~t.cert /\ ~t.key ELSE t.cert /\ t.key

hasOverrides(t) == t.plaintext \/ t.cert \/ t.key

\* The plugin gateway inherits TLS, and never plaintext.
resolvePluginTransportConfig(payment, plugin) ==
  IF hasOverrides(plugin) THEN Validate(plugin) ELSE ~payment.plaintext

\* A token is set, and has no blank in it; "unset" is a variable that is not.
resolveBearerTokenEnv(value) == value \notin {"unset", "", "blank"}

\* An operator API has an address and both tokens, or there is none.
resolveOperatorAuthConfig(t) ==
  t.listen => resolveBearerTokenEnv(t.read) /\ resolveBearerTokenEnv(t.admin)

DefaultProviderPricingConfig ==
  [block |-> DefaultPricing.block, byte |-> DefaultPricing.byte, threshold |-> Threshold]

\* A threshold that is given is not zero.
PricingFileValid(file) == file.threshold # <<0>>

\* Prices that are absent are zero.
ParseProviderPricingConfig(file) ==
  [block |-> file.block, byte |-> file.byte,
   threshold |-> IF file.threshold = << >> THEN Threshold ELSE file.threshold[1]]

\* The prices of a session.
ToPricingConfig(c) == [block |-> c.block, byte |-> c.byte]

\* Postgres is tried ten times.
NewRepositoryFromDSN(dsn) ==
  dsn.scheme = "inmemory" \/ (dsn.scheme = "psql" /\ dsn.failing < 10)

Address(value) == value \notin {"", "malformed"}

runProviderGateway(p) ==
  /\ Address(p.provider) /\ Address(p.collector) /\ Address(p.escrow)
  /\ p.rpc /\ p.dataPlane
  /\ Validate(p.transport)
  /\ resolvePluginTransportConfig(p.transport, p.plugin)
  /\ resolveOperatorAuthConfig(p.operator)
  /\ p.pricing # << >> => PricingFileValid(p.pricing[1])
  /\ NewRepositoryFromDSN(p.dsn)

\* gateway.New.  Without an RPC endpoint it cannot ask the chain.
New(p) ==
  [provider |-> p.provider, dataPlane |-> p.dataPlane, querier |-> p.rpc,
   pricing |-> IF p.pricing = << >> THEN DefaultProviderPricingConfig
               ELSE ParseProviderPricingConfig(p.pricing[1])]

-----------------------------------------------------------------------------
(* The consumer sidecar.                                                    *)

Settings == {"payer", "receiver", "service", "oracle", "endpoint"}

\* A flag that was given, even as "", wins over the file.
resolveString(c, name) == IF c.flags[name] # "unset" THEN c.flags[name] ELSE c.file[name]

IngressConfigured(c) == \E name \in Settings : resolveString(c, name) # ""

\* An ingress needs its payer and data service, and a way to a provider; an
\* endpoint needs the receiver that is expected there.
runConsumerSidecar(c) ==
  LET setting(name) == resolveString(c, name) IN
  /\ Address(c.signer)
  /\ Validate(c.transport)
  /\ IngressConfigured(c) =>
       /\ Address(setting("payer")) /\ Address(setting("service"))
       /\ setting("oracle") # "" \/ setting("endpoint") # ""
       /\ setting("receiver") # "malformed"
       /\ setting("endpoint") # "" => setting("receiver") # ""

\* What a stream is bootstrapped with: [payer, receiver, direct], if any.
requireIngressConfig(c) ==
  LET setting(name) == resolveString(c, name) IN
  IF ~IngressConfigured(c) THEN << >>
  ELSE <<[payer |-> setting("payer"), direct |-> setting("endpoint") # "",
          receiver |-> IF setting("receiver") = "" THEN << >> ELSE <<setting("receiver")>>]>>
=============================================================================
