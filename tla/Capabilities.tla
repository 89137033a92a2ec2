---------------------------- MODULE Capabilities ----------------------------
(***************************************************************************)
(* Protocol and feature capabilities (domain/config.rs, domain/routing.rs):*)
(* what a source can serve natively or through an adapter, how the layers  *)
(* of a configuration file override each other, which files are accepted,  *)
(* and what an adapter takes away from a model's features.                 *)
(*                                                                         *)
(* A matrix is a function from some protocols to capabilities.  Endpoints  *)
(* are the protocols a source has a non-empty endpoint for.  Override      *)
(* tables are keyed by a model or by AnyModel, which stands for the        *)
(* pattern that matches every model.                                       *)
(***************************************************************************)
EXTENDS Naturals, Sequences, FiniteSets

CONSTANTS
  Protocols,   \* client and upstream protocols
  Features,    \* streaming, tools, vision, ...
  Adapters,    \* adapter registry: name -> [from, to, features]
  AnyModel,    \* the pattern "*"
  None         \* an absent optional value

FeatureModes == {"native", "translated", "unsupported"}

FeatureSets == [Features -> FeatureModes]

ASSUME AdaptersAssumption ==
  \A name \in DOMAIN Adapters :
    Adapters[name] \in [from : Protocols, to : Protocols, features : FeatureSets]
ASSUME NoneAssumption == None \notin Protocols \cup FeatureSets

Native == [mode |-> "native", source |-> None, adapter |-> None]

Unsupported == [mode |-> "unsupported", source |-> None, adapter |-> None]

\* ProtocolCapability::validate: only an adapter has a source, another protocol.
WellFormed(cap, target) ==
  IF cap.mode = "adapter"
  THEN cap.source # None /\ cap.adapter # None /\ cap.source # target
  ELSE cap.source = None /\ cap.adapter = None

\* The named adapter is registered for exactly this conversion.
Implements(cap, target) ==
  /\ cap.adapter \in DOMAIN Adapters
  /\ Adapters[cap.adapter].from = target
  /\ Adapters[cap.adapter].to = cap.source

\* validate_matrix: native needs an endpoint; an adapter's source is served
\* natively, never through a second adapter.
MatrixValid(matrix, endpoints, native) ==
  /\ native \subseteq endpoints
  /\ \A p \in DOMAIN matrix :
       LET cap == matrix[p] IN
       /\ WellFormed(cap, p)
       /\ cap.mode = "native" => p \in endpoints
       /\ cap.mode = "adapter" =>
            /\ Implements(cap, p)
            /\ IF cap.source \in DOMAIN matrix
               THEN matrix[cap.source].mode = "native" /\ cap.source \in endpoints
               ELSE cap.source \in endpoints \cup native

\* validate_override_matrix: nor through an adapter of the matrix below it.
OverrideValid(matrix, base, endpoints, native) ==
  /\ MatrixValid(matrix, endpoints, native)
  /\ \A p \in DOMAIN matrix :
       LET source == matrix[p].source IN
       matrix[p].mode = "adapter" /\ source \in DOMAIN base
         => base[source].mode = "native" /\ source \in endpoints

-----------------------------------------------------------------------------
(* Configuration files.  A file has providers, accounts and a sequence of  *)
(* routes.                                                                 *)

NoOverride == [matrix |-> <<>>, features |-> None]

\* find_model_override: the model's own entry, else the pattern's.
FindModelOverride(overrides, model) ==
  CASE model \in DOMAIN overrides -> overrides[model]
    [] model \notin DOMAIN overrides /\ AnyModel \in DOMAIN overrides
         -> overrides[AnyModel]
    [] OTHER -> NoOverride

First(indices) == CHOOSE i \in indices : \A j \in indices : i <= j

\* GatewayConfig::protocol_capability: the account's entry for the model, the
\* provider's, the account's, the provider's, then the legacy protocol list.
ProtocolCapability(file, s, a, model, p) ==
  LET account == file.accounts[a]
      provider == file.providers[s]
      layers == <<FindModelOverride(account.overrides, model).matrix,
                  FindModelOverride(provider.overrides, model).matrix,
                  account.matrix,
                  provider.matrix>>
      stated == {i \in DOMAIN layers : p \in DOMAIN layers[i]}
  IN CASE stated # {} -> layers[First(stated)][p]
       [] stated = {} /\ p \in provider.native \cap provider.endpoints -> Native
       [] OTHER -> Unsupported

\* GatewayConfig::capabilities: the same order for the features.
FeatureCapabilities(file, s, a, model) ==
  LET account == file.accounts[a]
      provider == file.providers[s]
      layers == <<FindModelOverride(account.overrides, model).features,
                  FindModelOverride(provider.overrides, model).features,
                  account.features,
                  provider.features>>
  IN layers[First({i \in DOMAIN layers : layers[i] # None})]

\* The provider part of GatewayConfig::validate.
ProviderValid(provider) ==
  /\ MatrixValid(provider.matrix, provider.endpoints, provider.native)
  /\ \A m \in DOMAIN provider.overrides :
       OverrideValid(provider.overrides[m].matrix, provider.matrix,
                     provider.endpoints, provider.native)

\* The account part: the account's matrix lies over its provider's, its
\* models' over both.
AccountValid(file, a) ==
  LET account == file.accounts[a]
      provider == file.providers[account.provider]
      base == [p \in DOMAIN provider.matrix \cup DOMAIN account.matrix |->
                 IF p \in DOMAIN account.matrix THEN account.matrix[p]
                 ELSE provider.matrix[p]]
  IN /\ OverrideValid(account.matrix, provider.matrix,
                      provider.endpoints, provider.native)
     /\ \A m \in DOMAIN account.overrides :
          OverrideValid(account.overrides[m].matrix, base,
                        provider.endpoints, provider.native)

\* The modes of a route: native needs a native capability of the primary
\* account, an adapter must accept the protocol, unsupported names none.
RouteModeValid(file, route, p) ==
  CASE route.mode = "native" ->
         ProtocolCapability(file, route.provider, route.primary,
                            route.model, p).mode = "native"
    [] route.mode = "adapter" ->
         /\ route.adapter \in DOMAIN Adapters
         /\ Adapters[route.adapter].from = p
    [] route.mode = "unsupported" -> route.adapter = None
    [] OTHER -> FALSE

\* A fallback of another provider: known, natively capable, and not behind an
\* adapter.
FallbackValid(file, route, a) ==
  /\ a \in DOMAIN file.accounts
  /\ file.accounts[a].provider # route.provider =>
       /\ route.mode # "adapter"
       /\ \A p \in route.protocols :
            ProtocolCapability(file, file.accounts[a].provider, a,
                               route.model, p).mode = "native"

\* The route part of GatewayConfig::validate.
RouteValid(file, route) ==
  /\ route.provider \in DOMAIN file.providers
  /\ route.protocols # {}
  /\ \A p \in route.protocols : RouteModeValid(file, route, p)
  /\ \A i \in DOMAIN route.fallbacks : FallbackValid(file, route, route.fallbacks[i])

-----------------------------------------------------------------------------
(* What an adapter does to a model's features. *)

\* Features the model has and the adapter cannot carry.
Lost(features, adapter) ==
  {f \in Features : /\ adapter # None
                    /\ adapter[f] = "unsupported"
                    /\ features[f] # "unsupported"}

\* intersect_capabilities refuses a loss the route does not allow.
Carries(features, adapter, lossy) == lossy \/ Lost(features, adapter) = {}

\* The features the client sees, and the ones that are worse than the model's.
EffectiveFeatures(features, adapter) ==
  [f \in Features |->
     IF features[f] = "unsupported" THEN "unsupported"
     ELSE IF adapter = None THEN "native" ELSE adapter[f]]

Degraded(features, adapter) ==
  Lost(features, adapter)
    \cup {f \in Features : /\ adapter # None
                           /\ adapter[f] = "translated"
                           /\ features[f] = "native"}

-----------------------------------------------------------------------------
(* The resolver of a configuration file (RouteResolver without a snapshot):*)
(* what a file means for a request, apart from any database.               *)

\* The order of the candidates: the model's own route before the pattern's,
\* native before the other modes, then the order of the file.
RoutePlace(file, i, model) ==
  <<IF file.routes[i].model = model THEN 0 ELSE 1,
    IF file.routes[i].mode = "native" THEN 0 ELSE 1, i>>

\* The accounts of a candidate are known and of the route's provider; whether
\* they are enabled is left to the data plane.
CandidateAccounts(file, route) ==
  /\ route.provider \in DOMAIN file.providers
  /\ \A a \in {route.primary} \cup {route.fallbacks[i] : i \in DOMAIN route.fallbacks} :
       a \in DOMAIN file.accounts /\ file.accounts[a].provider = route.provider

\* How a candidate reaches the upstream, or None: the route's mode has to be
\* the one declared for the primary account, and an adapter's source native.
CandidateMode(file, route, model, p) ==
  LET declared(q) == ProtocolCapability(file, route.provider, route.primary, model, q)
      adapter == Adapters[route.adapter]
  IN CASE route.mode = "native" /\ declared(p).mode = "native" -> Native
       [] /\ route.mode = "adapter"
          /\ route.adapter \in DOMAIN Adapters
          /\ adapter.from = p
          /\ declared(p) = [mode |-> "adapter", source |-> adapter.to,
                            adapter |-> route.adapter]
          /\ declared(adapter.to).mode = "native" -> declared(p)
       [] OTHER -> None

\* resolve_candidate: the upstream protocol has an endpoint, and the adapter
\* carries the features of the model or the route allows the loss.
ResolveCandidate(file, route, model, p) ==
  LET cap == CandidateMode(file, route, model, p)
      upstream == IF cap.mode = "native" THEN p ELSE cap.source
      carried == IF cap.mode = "native" THEN None ELSE Adapters[cap.adapter].features
      features == FeatureCapabilities(file, route.provider, route.primary, model)
  IN IF /\ CandidateAccounts(file, route)
        /\ cap # None
        /\ upstream \in file.providers[route.provider].endpoints
        /\ Carries(features, carried, route.lossy)
     THEN [route |-> route.id, primary |-> route.primary, fallbacks |-> route.fallbacks,
           mode |-> cap.mode, upstream |-> upstream,
           features |-> EffectiveFeatures(features, carried),
           degraded |-> Degraded(features, carried)]
     ELSE None

\* resolve_selected: the first candidate, in the order above, that resolves.
ResolveSelected(file, model, p) ==
  LET found == {i \in DOMAIN file.routes :
                  /\ p \in file.routes[i].protocols
                  /\ file.routes[i].model \in {model, AnyModel}
                  /\ ResolveCandidate(file, file.routes[i], model, p) # None}
      before(x, y) == \E n \in DOMAIN x : x[n] < y[n] /\ \A k \in 1..(n - 1) : x[k] = y[k]
      first == CHOOSE i \in found : \A j \in found \ {i} :
                 before(RoutePlace(file, i, model), RoutePlace(file, j, model))
  IN IF found = {} THEN None ELSE ResolveCandidate(file, file.routes[first], model, p)

=============================================================================
