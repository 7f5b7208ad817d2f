----------------------------- MODULE Discovery -----------------------------
(***************************************************************************)
(* How a consumer finds a provider: network names (consumer/sidecar/       *)
(* discovery.go), the oracle's catalog and its answer (oracle/), and the   *)
(* pricing a session gets.  All of it is computed, nothing is kept.        *)
(*                                                                         *)
(* A name is a word and the way it is written: "plain"; "spaced", with     *)
(* blanks around it; or "cased", with capitals, underscores or blanks      *)
(* inside.  The word "" is the empty name.                                 *)
(***************************************************************************)
EXTENDS Naturals, Sequences, FiniteSets, SequencesExt, FiniteSetsExt

NoNetwork == ""
NetworkError == "error"

Named(word) == [word |-> word, form |-> "plain"]

AliasesOf ==
  [network \in {"mainnet", "polygon", "arbitrum-one", "base", "sepolia"} |->
     CASE network = "mainnet" ->
            {"eth", "eth-mainnet", "ethereum", "ethereum-mainnet", "mainnet"}
       [] network = "polygon" ->
            {"matic", "matic-mainnet", "polygon", "polygon-mainnet"}
       [] network = "arbitrum-one" ->
            {"arb", "arb-one", "arbitrum", "arbitrum-mainnet", "arbitrum-one"}
       [] network = "base" -> {"base", "base-mainnet"}
       [] network = "sepolia" -> {"sepolia"}]

\* The canonical name of a word: an unknown word stands for itself.
networkAliases(word) ==
  IF \E n \in DOMAIN AliasesOf : word \in AliasesOf[n]
  THEN CHOOSE n \in DOMAIN AliasesOf : word \in AliasesOf[n]
  ELSE word

\* Trimming, lower case and dashes make every form of a word the plain one.
normalizeNetworkKey(name) == networkAliases(name.word)

\* An entry without a name, or two entries of one network, are an error.
PackageNetworksValid(names) ==
  /\ \A n \in names : n.word # ""
  /\ \A m, n \in names : normalizeNetworkKey(m) = normalizeNetworkKey(n) => m = n

normalizePackageNetworks(names) == {normalizeNetworkKey(n) : n \in names}

\* What the package says, before the request is compared with it.
DerivedNetwork(top, networks, requested) ==
  CASE networks = {} -> top
    [] Cardinality(networks) = 1 -> CHOOSE n \in networks : TRUE
    [] OTHER -> IF top \in networks THEN top
                ELSE IF requested \in networks THEN requested ELSE NetworkError

\* A package is [network, networks], or absent.
resolveRequestedNetwork(pkg, name) ==
  LET requested == normalizeNetworkKey(name)
      derived == IF pkg = << >> THEN NoNetwork
                 ELSE IF ~PackageNetworksValid(pkg[1].networks) THEN NetworkError
                 ELSE DerivedNetwork(normalizeNetworkKey(pkg[1].network),
                                     normalizePackageNetworks(pkg[1].networks),
                                     requested) IN
  CASE derived = NetworkError -> NetworkError
    [] derived # NoNetwork -> IF requested \in {NoNetwork, derived}
                              THEN derived ELSE NetworkError
    [] OTHER -> IF requested = NoNetwork THEN NetworkError ELSE requested

-----------------------------------------------------------------------------
(* The oracle's catalog.  Providers are numbered by their identifiers.      *)

\* strings.TrimSpace: a cased key stays as it is and is never asked for.
CatalogKey(name) == [word |-> name.word, cased |-> name.form = "cased"]

\* The endpoint is http or https with a host; without a scheme it is https.
normalizeEndpoint(endpoint) == endpoint.scheme \in {"", "http", "https"} /\ endpoint.host # ""

ProviderOf(raw, id) == CHOOSE p \in ToSet(raw.providers) : p.id = id

NetworkEntryValid(raw, n) ==
  /\ n.name.word # ""
  /\ n.pricing.block # 0 \/ n.pricing.byte # 0
  /\ n.ids # << >>
  /\ IsInjective(n.ids)
  /\ ToSet(n.ids) \subseteq {p.id : p \in ToSet(raw.providers)}
  /\ n.preferred # << >> => n.preferred[1] \in ToSet(n.ids)

\* ParseCatalog accepts the file.
CatalogValid(raw) ==
  /\ raw.networks # {}
  /\ \A p \in ToSet(raw.providers) : p.address # "" /\ normalizeEndpoint(p.endpoint)
  /\ \A i, j \in DOMAIN raw.providers :
       raw.providers[i].id = raw.providers[j].id => i = j
  /\ \A n \in raw.networks : NetworkEntryValid(raw, n)

\* The preferred provider, or the first in the order of the identifiers.
DiscoveryResult(raw, n) ==
  [pricing |-> n.pricing,
   eligible |-> {ProviderOf(raw, id) : id \in ToSet(n.ids)},
   recommended |-> ProviderOf(raw, IF n.preferred # << >> THEN n.preferred[1]
                                   ELSE Min(ToSet(n.ids)))]

\* Two keys that trim to one network overwrite each other in the order in
\* which the map is ranged over.
ParseCatalog(raw) ==
  LET keys == {CatalogKey(n.name) : n \in raw.networks}
      entries(k) == {n \in raw.networks : CatalogKey(n.name) = k} IN
  {[k \in keys |-> DiscoveryResult(raw, pick[k])] :
     pick \in {f \in [keys -> raw.networks] : \A k \in keys : f[k] \in entries(k)}}

\* The answer for a network, if there is one: a sequence of at most one.
Discover(catalog, network) ==
  LET key == [word |-> network, cased |-> FALSE] IN
  IF key \in DOMAIN catalog THEN <<catalog[key]>> ELSE << >>

\* The oracle's handler: a network must be named, and be in the catalog.
DiscoverProviders(catalog, network) ==
  CASE network = "" -> [error |-> "invalid", found |-> << >>]
    [] network # "" /\ Discover(catalog, network) = << >> -> [error |-> "notFound", found |-> << >>]
    [] OTHER -> [error |-> "none", found |-> Discover(catalog, network)]

-----------------------------------------------------------------------------
(* Pricing: a sequence that is empty when there is none.                    *)

\* Mutant: only the price of a block is compared.
WithinCeilingBlocksOnly(provider, oracle) == provider.block <= oracle.block

WithinCeiling(provider, oracle) ==
  provider.block <= oracle.block /\ provider.byte <= oracle.byte

\* The provider's prices, if the oracle has none or they are not above its.
PricingRefused(provider, oracle) ==
  /\ oracle # << >> /\ provider # << >>
  /\ ~WithinCeiling(provider[1], oracle[1])

effectiveSessionPricing(provider, oracle) ==
  IF oracle # << >> /\ provider = << >> THEN oracle ELSE provider
=============================================================================
