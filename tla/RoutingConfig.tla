---------------------------- MODULE RoutingConfig ----------------------------
(***************************************************************************)
(* The routing configuration of the control plane: the tables of sources,  *)
(* accounts, listed models, capabilities, logical models, bindings and     *)
(* routes, every administrative write on them, the import of a             *)
(* configuration file, and the compiler that turns the tables into the     *)
(* runtime snapshot the proxy resolves requests against                    *)
(* (control_plane/*.rs, domain/routing.rs, domain/capabilities.rs).        *)
(*                                                                         *)
(* A write is one SERIALIZABLE transaction that ends in finish_write: the  *)
(* capability chains are validated and a snapshot is compiled, and any     *)
(* error rolls the write back; so a write is one step, taken only when the *)
(* resulting tables pass.  The model catalogue (discovery, confirmation)   *)
(* changes its table in transactions of its own that do not compile.       *)
(*                                                                         *)
(* Abstractions.  A logical model is its public name.  URLs are always     *)
(* acceptable to the URL policy.  A source's provider preset, its family,  *)
(* is fixed for good (update_source refuses to change it).  A route id is  *)
(* a pair: the id of the file's or the request's route, and the position   *)
(* of the model when a file's pattern stands for several.                  *)
(***************************************************************************)
EXTENDS Capabilities, Integers, SequencesExt

CONSTANTS
  Rank,           \* the order of the protocols
  Family,         \* provider preset of each source
  Files,          \* configuration files an operator may import
  Presets,        \* family -> [endpoints, matrix] of its newest version
  SourceRequests, \* [endpoints, added] a source may be requested with
  SourceInputs,   \* [endpoints, matrix] a source may be given
  AccountInputs,  \* [source, enabled, weight] an account may be given
  ModelInputs,    \* [status, enabled] a logical model may be given
  BindingInputs,  \* bindings that may be written
  RouteIds,       \* ids of routes that may be written
  RouteInputs,    \* their contents
  LineLists,      \* the sequences of upstream lines a model may be given
  CapInputs,      \* [status, cap, features] a capability may be given
  AccountIds,     \* account ids
  LogicalModels,  \* logical models
  Upstreams,      \* upstream model ids
  MaxWrites,      \* bound: administrative writes
  MaxListings     \* bound: catalogue changes

Sources == DOMAIN Family

CatalogStatuses == {"pending", "confirmed", "unavailable"}

Strategies == {"weighted", "ordered_fallback"}

\* What the request bodies, the files and the database types fix.
ASSUME InputsAssumption ==
  /\ IsFiniteSet(Protocols)
  /\ Rank \in [Protocols -> Int]
  /\ \A p, q \in Protocols : Rank[p] = Rank[q] => p = q
  /\ RouteIds \subseteq Int \X Int
  /\ BindingInputs \subseteq [model : LogicalModels, source : Sources, account : AccountIds,
                             upstream : Upstreams, protocol : Protocols, status : CatalogStatuses,
                             enabled : BOOLEAN, priority : Int]
  /\ RouteInputs \subseteq [model : LogicalModels, protocols : SUBSET Protocols,
                           strategy : Strategies, lossy : BOOLEAN, enabled : BOOLEAN]
  /\ AccountInputs \subseteq [source : Sources, enabled : BOOLEAN, weight : Int]
  /\ LineLists \subseteq Seq([source : Sources, account : AccountIds, upstream : Upstreams])

\* A file states one of three modes for a protocol.
Stated(matrix) == \A p \in DOMAIN matrix : matrix[p].mode \in {"native", "adapter", "unsupported"}

ASSUME FilesAssumption ==
  /\ None \notin Files
  /\ \A file \in Files :
       /\ \A s \in DOMAIN file.providers : IsFiniteSet(file.providers[s].models)
       /\ \A x \in Range(file.providers) \cup Range(file.accounts) :
            Stated(x.matrix) /\ \A m \in DOMAIN x.overrides : Stated(x.overrides[m].matrix)
       /\ file.routes \in Seq(Range(file.routes))
       /\ \A i \in DOMAIN file.routes :
            /\ file.routes[i].id \in Int
            /\ file.routes[i].protocols \subseteq Protocols
            /\ file.routes[i].fallbacks \in Seq(Range(file.routes[i].fallbacks))

VARIABLES
  db,        \* the tables
  imported,  \* the file, when the last step imported one, else None
  writes,    \* administrative writes so far
  listings   \* catalogue changes so far

routingVars == <<db, imported, writes, listings>>

EmptyTables ==
  [sources |-> <<>>,   \* id -> [enabled, endpoints]
   accounts |-> <<>>,  \* id -> [source, enabled, weight]
   listed |-> <<>>,    \* <<source, upstream>> -> [conf, avail]
   caps |-> <<>>,      \* <<source, upstream, protocol>> -> [status, cap, features]
   models |-> <<>>,    \* id -> [status, enabled]
   bindings |-> <<>>,  \* id -> binding
   routes |-> <<>>,    \* id -> [model, protocols, strategy, lossy, enabled]
   nextId |-> 1]       \* sequence of the binding ids

\* A table with a row written, and with rows removed.
With(table, key, row) ==
  [k \in DOMAIN table \cup {key} |-> IF k = key THEN row ELSE table[k]]

Without(table, keys) == [k \in DOMAIN table \ keys |-> table[k]]

-----------------------------------------------------------------------------
(* The compiler. *)

ListedKey(b) == <<b.source, b.upstream>>

CapKey(b) == <<b.source, b.upstream, b.protocol>>

Active(b) == b.status = "confirmed" /\ b.enabled

Routable(row) == row.status = "confirmed" /\ row.cap.mode \in {"native", "adapter"}

\* The binding's model is listed and confirmed, its capability confirmed.
Backed(d, b) ==
  /\ d.listed[ListedKey(b)] = [conf |-> "confirmed", avail |-> "available"]
  /\ Routable(d.caps[CapKey(b)])

\* A row of the snapshot query: a route and a binding of its model that are
\* all switched on and backed.  Whether source and account are enabled is not
\* asked: a disabled account keeps its place.
InSnapshot(d, r, b) ==
  LET route == d.routes[r]
      binding == d.bindings[b]
  IN /\ route.enabled
     /\ binding.model = route.model
     /\ d.models[route.model] = [status |-> "confirmed", enabled |-> TRUE]
     /\ Active(binding)
     /\ binding.protocol \in route.protocols
     /\ Backed(d, binding)

Rows(d) ==
  {row \in (DOMAIN d.routes) \X (DOMAIN d.bindings) : InSnapshot(d, row[1], row[2])}

\* The protocol spoken upstream.
UpstreamProtocol(row, p) == IF row.cap.mode = "native" THEN p ELSE row.cap.source

AdapterFeatures(cap) ==
  IF cap.mode = "adapter" THEN Adapters[cap.adapter].features ELSE None

\* A row the compiler accepts: an endpoint, a matching adapter, no forbidden
\* loss of a feature, a positive weight.
RowAccepted(d, r, b) ==
  LET binding == d.bindings[b]
      row == d.caps[CapKey(binding)]
  IN /\ UpstreamProtocol(row, binding.protocol) \in d.sources[binding.source].endpoints
     /\ row.cap.mode = "adapter" => Implements(row.cap, binding.protocol)
     /\ Carries(row.features, AdapterFeatures(row.cap), d.routes[r].lossy)
     /\ d.accounts[binding.account].weight > 0

\* Lexicographic order of tuples of numbers.
LexLess(x, y) ==
  \E i \in DOMAIN x : x[i] < y[i] /\ \A j \in 1..(i - 1) : x[j] = y[j]

\* The elements of a set in the order of their keys, and the first of them.
Ordered(key) ==
  LET S == DOMAIN key
  IN [i \in 1..Cardinality(S) |->
        CHOOSE b \in S : Cardinality({c \in S : LexLess(key[c], key[b])}) = i - 1]

FirstOf(key) ==
  CHOOSE x \in DOMAIN key : \A y \in DOMAIN key \ {x} : LexLess(key[x], key[y])

\* Order of the bindings of one route and protocol: priority, native first, id.
Place(d, b) ==
  LET binding == d.bindings[b]
  IN <<-binding.priority,
       IF d.caps[CapKey(binding)].cap.mode = "native" THEN 0 ELSE 1, b>>

\* Order of the whole result: route id, protocol, place.
Key(d, row) == row[1] \o <<Rank[d.bindings[row[2]].protocol]>> \o Place(d, row[2])

\* The upstream model an account is known by for a logical model: the one of
\* its first row.
ModelMap(d, account, model) ==
  LET its == {row \in Rows(d) : /\ d.bindings[row[2]].account = account
                                /\ d.bindings[row[2]].model = model}
      first == FirstOf([row \in its |-> Key(d, row)])
  IN d.bindings[first[2]].upstream

\* Only an ordered route may use an account under two upstream models.
OneUpstreamPerAccount(d) ==
  \A row \in Rows(d) :
    LET binding == d.bindings[row[2]]
    IN d.routes[row[1]].strategy # "ordered_fallback"
         => binding.upstream = ModelMap(d, binding.account, binding.model)

\* build_snapshot succeeds.
Compiles(d) ==
  /\ \A row \in Rows(d) : RowAccepted(d, row[1], row[2])
  /\ OneUpstreamPerAccount(d)

\* validate_capability_chains: what a confirmed capability needs.
ChainsValid(d) ==
  \A k \in DOMAIN d.caps :
    LET row == d.caps[k]
        source == <<k[1], k[2], row.cap.source>>
    IN Routable(row) =>
         /\ row.cap.mode = "adapter" =>
              /\ Implements(row.cap, k[3])
              /\ source \in DOMAIN d.caps
              /\ d.caps[source].status = "confirmed"
              /\ d.caps[source].cap.mode = "native"
         /\ UpstreamProtocol(row, k[3]) \in d.sources[k[1]].endpoints

-----------------------------------------------------------------------------
(* The resolver and the capability matrix built on a snapshot. *)

\* The bindings of a compiled route for a protocol, in order.
Bindings(d, r, p) ==
  LET its == {b \in DOMAIN d.bindings : d.bindings[b].protocol = p /\ InSnapshot(d, r, b)}
  IN Ordered([b \in its |-> Place(d, b)])

\* The compiled routes for a model and a protocol.
Candidates(d, m, p) ==
  {r \in DOMAIN d.routes : d.routes[r].model = m /\ Bindings(d, r, p) # <<>>}

\* The resolver's answer for a model no route serves.
NotFound == [route |-> None, line |-> <<>>]

\* resolve_runtime_route: the first compiled route; its first binding is the
\* primary, the others the fallbacks.
Resolve(d, m, p) ==
  LET rs == Candidates(d, m, p)
  IN IF rs = {} THEN NotFound
     ELSE LET r == FirstOf([x \in rs |-> x])
          IN [route |-> r, line |-> Bindings(d, r, p)]

\* The models of the snapshot: those with a row.
Published(d) == {d.routes[row[1]].model : row \in Rows(d)}

\* The matrix's row of a binding of a resolved route.
MatrixKey(d, r, b) ==
  LET binding == d.bindings[b]
  IN <<binding.model, r, binding.source, binding.account, binding.upstream>>

\* insert_binding: no two bindings of one resolution in the same cell.
MatrixBuilds(d) ==
  \A m \in Published(d), p \in Protocols :
    LET route == Resolve(d, m, p)
    IN \A i, j \in DOMAIN route.line :
         MatrixKey(d, route.route, route.line[i])
           = MatrixKey(d, route.route, route.line[j]) => i = j

\* The rows a resolution puts into the matrix, and all of them.
ResolvedKeys(d, m, p) ==
  LET route == Resolve(d, m, p)
  IN {MatrixKey(d, route.route, route.line[i]) : i \in DOMAIN route.line}

MatrixKeys(d) ==
  UNION {ResolvedKeys(d, x[1], x[2]) : x \in Published(d) \X Protocols}

\* A cell of the matrix: the rank of the binding in the resolution, how it is
\* reached and what it carries, or why there is none.
Cell(d, key, p) ==
  LET route == Resolve(d, key[1], p)
      at == {i \in DOMAIN route.line : MatrixKey(d, route.route, route.line[i]) = key}
      rank == CHOOSE i \in at : TRUE
      row == d.caps[CapKey(d.bindings[route.line[rank]])]
  IN CASE at # {} -> [status |-> "routable", rank |-> rank - 1, mode |-> row.cap.mode,
                      upstream |-> UpstreamProtocol(row, p),
                      features |-> EffectiveFeatures(row.features, AdapterFeatures(row.cap)),
                      degraded |-> Degraded(row.features, AdapterFeatures(row.cap))]
       [] at = {} /\ route.line # <<>> -> [status |-> "unroutable",
                                            reason |-> "runtime_binding_not_available"]
       [] OTHER -> [status |-> "unroutable", reason |-> "route_not_found"]

\* The account as the snapshot knows it.
AccountEnabled(d, a) ==
  d.accounts[a].enabled /\ d.sources[d.accounts[a].source].enabled

\* The lines of a model as the administrator sees them (fetch_model_routing_tx):
\* the upstream lines with the protocols marked routable.
ViewRoutable(d, m) ==
  {<<CapKey(b), b.account>> :
     b \in {d.bindings[i] : i \in {j \in DOMAIN d.bindings :
              LET x == d.bindings[j] IN
              /\ x.model = m
              /\ Active(x)
              /\ AccountEnabled(d, x.account)
              /\ Backed(d, x)
              /\ \E r \in DOMAIN d.routes : /\ d.routes[r].model = m
                                            /\ d.routes[r].enabled
                                            /\ x.protocol \in d.routes[r].protocols}}}

-----------------------------------------------------------------------------
(* Writes. *)

\* Mutant: only the snapshot is compiled, the capability chains are not looked at.
CommitUnchained(next) ==
  /\ writes < MaxWrites
  /\ Compiles(next)
  /\ db' = next
  /\ imported' = None
  /\ writes' = writes + 1
  /\ UNCHANGED listings

\* finish_write and the commit: the only way a write takes effect.
Commit(next) ==
  /\ writes < MaxWrites
  /\ ChainsValid(next)
  /\ Compiles(next)
  /\ db' = next
  /\ imported' = None
  /\ writes' = writes + 1
  /\ UNCHANGED listings

\* CatalogStatus::can_transition_to.
CanTransition(current, next) ==
  \/ current = next
  \/ <<current, next>> \in {<<"pending", "confirmed">>, <<"pending", "unavailable">>,
                            <<"confirmed", "unavailable">>, <<"unavailable", "pending">>}

BindingsWhere(d, Test(_)) == {b \in DOMAIN d.bindings : Test(d.bindings[b])}

\* Sources.  validate_source_input asks what a configuration file's provider
\* is asked.
SourceInputValid(input) == MatrixValid(input.matrix, input.endpoints, {})

CreateSource(s, input, enabled) ==
  /\ SourceInputValid(input)
  /\ s \notin DOMAIN db.sources
  /\ Commit([db EXCEPT !.sources =
       With(@, s, [enabled |-> enabled, endpoints |-> input.endpoints])])

\* create_source_from_request: what the request leaves out comes from the
\* preset; endpoint overrides are added to either.
CreateSourceFromRequest(s, request, enabled) ==
  LET preset == Presets[Family[s]]
      endpoints == IF request.endpoints = None THEN preset.endpoints ELSE request.endpoints
  IN CreateSource(s, [endpoints |-> endpoints \cup request.added,
                      matrix |-> preset.matrix], enabled)

\* An update keeps the preset, and so the family.
UpdateSource(s, input, enabled) ==
  /\ SourceInputValid(input)
  /\ s \in DOMAIN db.sources
  /\ Commit([db EXCEPT !.sources[s] = [enabled |-> enabled, endpoints |-> input.endpoints]])

SetSourceEnabled(s, enabled) ==
  /\ s \in DOMAIN db.sources
  /\ Commit([db EXCEPT !.sources[s].enabled = enabled])

\* Foreign keys cascade to all that belongs to the source.
DeleteSource(s) ==
  /\ s \in DOMAIN db.sources
  /\ Commit([db EXCEPT
       !.sources = Without(@, {s}),
       !.accounts = Without(@, {a \in DOMAIN @ : @[a].source = s}),
       !.listed = Without(@, {k \in DOMAIN @ : k[1] = s}),
       !.caps = Without(@, {k \in DOMAIN @ : k[1] = s}),
       !.bindings = Without(@, {b \in DOMAIN @ : @[b].source = s})])

\* Accounts.
AccountInputValid(input) == input.weight > 0

CreateAccount(a, input) ==
  /\ AccountInputValid(input)
  /\ a \notin DOMAIN db.accounts
  /\ input.source \in DOMAIN db.sources
  /\ Commit([db EXCEPT !.accounts = With(@, a, input)])

\* A foreign key keeps an account with bindings on its source.
UpdateAccount(a, input) ==
  /\ AccountInputValid(input)
  /\ input.source \in DOMAIN db.sources
  /\ a \in DOMAIN db.accounts
  /\ db.accounts[a].source # input.source
       => BindingsWhere(db, LAMBDA b : b.account = a) = {}
  /\ Commit([db EXCEPT !.accounts[a] = input])

SetAccountEnabled(a, enabled) ==
  /\ a \in DOMAIN db.accounts
  /\ Commit([db EXCEPT !.accounts[a].enabled = enabled])

DeleteAccount(a) ==
  /\ a \in DOMAIN db.accounts
  /\ Commit([db EXCEPT !.accounts = Without(@, {a}),
                       !.bindings = Without(@, {b \in DOMAIN @ : @[b].account = a})])

\* Capabilities of a listed model; the administrator's word replaces any other.
UpsertCapability(s, u, p, input) ==
  LET k == <<s, u, p>>
      source == <<s, u, input.cap.source>>
  IN /\ <<s, u>> \in DOMAIN db.listed
     /\ input.status = "confirmed" => input.cap.mode # "unknown"
     /\ WellFormed(input.cap, p)
     /\ input.cap.mode = "adapter" =>
          /\ Implements(input.cap, p)
          /\ source \in DOMAIN db.caps
          /\ db.caps[source].status = "confirmed"
          /\ db.caps[source].cap.mode = "native"
     /\ k \in DOMAIN db.caps => CanTransition(db.caps[k].status, input.status)
     /\ Commit([db EXCEPT !.caps = With(@, k, input)])

\* Logical models.
CreateLogicalModel(m, input) ==
  /\ m \notin DOMAIN db.models
  /\ Commit([db EXCEPT !.models = With(@, m, input)])

UpdateLogicalModel(m, input) ==
  /\ m \in DOMAIN db.models
  /\ CanTransition(db.models[m].status, input.status)
  /\ Commit([db EXCEPT !.models[m] = input])

SetLogicalModelEnabled(m, enabled) ==
  /\ m \in DOMAIN db.models
  /\ Commit([db EXCEPT !.models[m].enabled = enabled])

DeleteLogicalModel(m) ==
  /\ m \in DOMAIN db.models
  /\ Commit([db EXCEPT !.models = Without(@, {m}),
                       !.bindings = Without(@, {b \in DOMAIN @ : @[b].model = m}),
                       !.routes = Without(@, {r \in DOMAIN @ : @[r].model = m})])

\* The families of the other sources whose active bindings serve the model.
OtherFamilies(d, b) ==
  {Family[d.bindings[i].source] :
     i \in BindingsWhere(d, LAMBDA c : c.model = b.model /\ Active(c) /\ c.source # b.source)}

\* Mutant: only active bindings on the same protocol count.
FamilyAllowedPerProtocol(d, b) ==
  LET others == {Family[d.bindings[i].source] :
        i \in BindingsWhere(d, LAMBDA c : /\ c.model = b.model /\ Active(c)
                                          /\ c.source # b.source
                                          /\ c.protocol = b.protocol)}
  IN others = {} \/ Family[b.source] \in others

\* validate_binding_family_constraint looks at one of them, whichever the
\* query returns.
FamilyAllowed(d, b) ==
  OtherFamilies(d, b) = {} \/ Family[b.source] \in OtherFamilies(d, b)

\* validate_binding_reference: the rows exist and belong together; an active
\* binding also needs all of them confirmed, available and enabled, and its
\* family.
BindingReference(d, b) ==
  /\ b.model \in DOMAIN d.models
  /\ b.account \in DOMAIN d.accounts
  /\ ListedKey(b) \in DOMAIN d.listed
  /\ CapKey(b) \in DOMAIN d.caps
  /\ d.accounts[b.account].source = b.source
  /\ Active(b) => /\ d.models[b.model] = [status |-> "confirmed", enabled |-> TRUE]
                  /\ AccountEnabled(d, b.account)
                  /\ Backed(d, b)
                  /\ FamilyAllowed(d, b)

Identity(b) == <<b.model, b.account, CapKey(b)>>

\* Mutant: the same binding may be there with another priority.
UniqueByPriority(d, b, but) ==
  \A i \in DOMAIN d.bindings \ but :
    Identity(d.bindings[i]) # Identity(b) \/ d.bindings[i].priority # b.priority

\* The table's unique key; a new binding is checked against all.
Unique(d, b, but) ==
  \A i \in DOMAIN d.bindings \ but : Identity(d.bindings[i]) # Identity(b)

\* The ids a sequence of new bindings takes, and the tables with all of them.
NewIds(d, new) == {d.nextId + n - 1 : n \in DOMAIN new}

WithBindings(d, new) ==
  [d EXCEPT !.bindings = [i \in DOMAIN d.bindings \cup NewIds(d, new) |->
                            IF i \in NewIds(d, new) THEN new[i - d.nextId + 1]
                            ELSE d.bindings[i]],
            !.nextId = d.nextId + Len(new)]

CreateBinding(b) ==
  /\ BindingReference(db, b)
  /\ Unique(db, b, {})
  /\ Commit(WithBindings(db, <<b>>))

UpdateBinding(id, b) ==
  /\ id \in DOMAIN db.bindings
  /\ CanTransition(db.bindings[id].status, b.status)
  /\ BindingReference(db, b)
  /\ Unique(db, b, {id})
  /\ Commit([db EXCEPT !.bindings[id] = b])

SetBindingEnabled(id, enabled) ==
  /\ id \in DOMAIN db.bindings
  /\ enabled => BindingReference(db, [db.bindings[id] EXCEPT !.enabled = TRUE])
  /\ Commit([db EXCEPT !.bindings[id].enabled = enabled])

DeleteBinding(id) ==
  /\ id \in DOMAIN db.bindings
  /\ Commit([db EXCEPT !.bindings = Without(@, {id})])

\* validate_route_reference: no other enabled route of the model for one of
\* the protocols, and a confirmed, backed binding for each.
RouteReference(d, r, route) ==
  /\ route.model \in DOMAIN d.models
  /\ \A p \in route.protocols :
       /\ route.enabled =>
            ~\E x \in DOMAIN d.routes \ {r} :
               /\ d.routes[x].model = route.model
               /\ d.routes[x].enabled
               /\ p \in d.routes[x].protocols
       /\ \E i \in DOMAIN d.bindings :
            /\ d.bindings[i].model = route.model
            /\ d.bindings[i].protocol = p
            /\ d.bindings[i].status = "confirmed"
            /\ Backed(d, d.bindings[i])

\* validate_route_input_shape: a route names its protocols, each once.
RouteShape(route) == route.protocols # {}

CreateRoute(r, route) ==
  /\ RouteShape(route)
  /\ r \notin DOMAIN db.routes
  /\ RouteReference(db, r, route)
  /\ Commit([db EXCEPT !.routes = With(@, r, route)])

UpdateRoute(r, route) ==
  /\ RouteShape(route)
  /\ r \in DOMAIN db.routes
  /\ RouteReference(db, r, route)
  /\ Commit([db EXCEPT !.routes[r] = route])

SetRouteEnabled(r, enabled) ==
  /\ r \in DOMAIN db.routes
  /\ enabled => RouteReference(db, r, [db.routes[r] EXCEPT !.enabled = TRUE])
  /\ Commit([db EXCEPT !.routes[r].enabled = enabled])

DeleteRoute(r) ==
  /\ r \in DOMAIN db.routes
  /\ Commit([db EXCEPT !.routes = Without(@, {r})])

-----------------------------------------------------------------------------
(* A model's whole routing in one write. *)

\* The protocols an upstream line can serve.
LineProtocols(d, line) ==
  {p \in Protocols :
     LET b == [source |-> line.source, upstream |-> line.upstream, protocol |-> p] IN
     /\ line.account \in DOMAIN d.accounts
     /\ d.accounts[line.account].source = line.source
     /\ AccountEnabled(d, line.account)
     /\ CapKey(b) \in DOMAIN d.caps
     /\ Backed(d, b)}

LineBinding(m, lines, c) ==
  [model |-> m, source |-> lines[c[1]].source, account |-> lines[c[1]].account,
   upstream |-> lines[c[1]].upstream, protocol |-> c[2],
   status |-> "confirmed", enabled |-> TRUE, priority |-> 1 - c[1]]

\* The bindings of the lines in order, one per protocol.
LineBindings(d, m, lines) ==
  LET cells == {c \in (DOMAIN lines) \X Protocols : c[2] \in LineProtocols(d, lines[c[1]])}
      order == Ordered([c \in cells |-> <<c[1], Rank[c[2]]>>])
  IN [n \in DOMAIN order |-> LineBinding(m, lines, order[n])]

\* The tables without the model's bindings and routes.  The model counts as
\* enabled while its lines are validated.
ClearedRouting(m, lines) ==
  LET status == IF lines = <<>> /\ m \in DOMAIN db.models
                THEN db.models[m].status ELSE "confirmed"
  IN [db EXCEPT !.models = With(@, m, [status |-> status, enabled |-> TRUE]),
                !.bindings = Without(@, BindingsWhere(db, LAMBDA b : b.model = m)),
                !.routes = Without(@, {x \in DOMAIN @ : @[x].model = m})]

LineRoute(m, new) ==
  [model |-> m, protocols |-> {new[n].protocol : n \in DOMAIN new},
   strategy |-> "ordered_fallback", lossy |-> FALSE, enabled |-> TRUE]

\* write_model_routing: the model's bindings and routes replaced, each new
\* binding checked after the ones before it are in.
WriteModelRouting(m, lines, enabled, r) ==
  LET new == LineBindings(db, m, lines)
      cleared == ClearedRouting(m, lines)
      full == WithBindings(cleared, new)
  IN /\ enabled => lines # <<>>
     /\ IsInjective(lines)
     /\ \A i \in DOMAIN lines : LineProtocols(db, lines[i]) # {}
     /\ \A n \in DOMAIN new :
          BindingReference(WithBindings(cleared, SubSeq(new, 1, n - 1)), new[n])
     /\ new # <<>> => RouteReference(full, r, LineRoute(m, new))
     /\ Commit([full EXCEPT
          !.routes = IF new = <<>> THEN @ ELSE With(@, r, LineRoute(m, new)),
          !.models[m].enabled = enabled])

\* The route keeps the model's first id, or takes a fresh one.
PutModelRouting(m, lines, enabled) ==
  LET own == {x \in DOMAIN db.routes : db.routes[x].model = m} IN
  \E r \in RouteIds \cup own :
    /\ IF own = {} THEN r \notin DOMAIN db.routes ELSE r = FirstOf([x \in own |-> x])
    /\ WriteModelRouting(m, lines, enabled, r)

-----------------------------------------------------------------------------
(* The model catalogue, outside finish_write. *)

Catalogue(listed) ==
  /\ listings < MaxListings
  /\ db' = [db EXCEPT !.listed = listed]
  /\ imported' = None
  /\ listings' = listings + 1
  /\ UNCHANGED writes

\* A discovery of the source: what it lists is available, the rest is not.
ApplyDiscovery(s, ids) ==
  LET own == {k \in DOMAIN db.listed : k[1] = s}
      now == {<<s, u>> : u \in ids}
  IN /\ s \in DOMAIN db.sources
     /\ Catalogue([k \in DOMAIN db.listed \cup now |->
          IF k \in now THEN [conf |-> IF k \in own THEN db.listed[k].conf ELSE "pending",
                             avail |-> "available"]
          ELSE IF k \in own THEN [db.listed[k] EXCEPT !.avail = "unavailable"]
          ELSE db.listed[k]])

ConfirmSourceModel(k) ==
  /\ k \in DOMAIN db.listed
  /\ db.listed[k].avail = "available"
  /\ Catalogue([db.listed EXCEPT ![k].conf = "confirmed"])

-----------------------------------------------------------------------------
(* The import of a configuration file. *)

FileValid(file) ==
  /\ \A s \in DOMAIN file.providers : ProviderValid(file.providers[s])
  /\ \A a \in DOMAIN file.accounts : AccountValid(file, a)
  /\ \A i \in DOMAIN file.routes : RouteValid(file, file.routes[i])

\* expand_route_models.
RouteModels(file, route) ==
  IF route.model = AnyModel THEN file.providers[route.provider].models
  ELSE {route.model}

RouteAccounts(route) == <<route.primary>> \o route.fallbacks

UpstreamModel(file, a, m) ==
  LET map == file.accounts[a].model_map
  IN IF m \in DOMAIN map THEN map[m] ELSE m

InOrder(ps) == Ordered([p \in ps |-> <<Rank[p]>>])

\* The order in which the importer writes bindings: for each route, model,
\* account and protocol.
Steps(file) ==
  FlattenSeq([i \in DOMAIN file.routes |->
    LET route == file.routes[i]
        models == SetToSeq(RouteModels(file, route))
        accounts == RouteAccounts(route)
        protocols == InOrder(route.protocols)
    IN FlattenSeq([j \in DOMAIN models |->
         FlattenSeq([n \in DOMAIN accounts |->
           [q \in DOMAIN protocols |->
              [route |-> route, model |-> models[j], account |-> accounts[n],
               index |-> n - 1, protocol |-> protocols[q],
               id |-> <<route.id, IF Len(models) = 1 THEN 0 ELSE j>>]]])])])

\* Keys of the tables and the importer's own look at a route's accounts: an
\* account has a source, a route known accounts and an id of its own.
FileRefers(file) ==
  /\ \A a \in DOMAIN file.accounts : file.accounts[a].provider \in DOMAIN file.providers
  /\ \A i \in DOMAIN file.routes :
       /\ Range(RouteAccounts(file.routes[i])) \subseteq DOMAIN file.accounts
       /\ \A j \in DOMAIN file.routes : file.routes[j].id = file.routes[i].id => i = j

StepCapability(file, step) ==
  ProtocolCapability(file, file.accounts[step.account].provider, step.account,
                     step.model, step.protocol)

\* Mutant: the last fallback is tried first.
PriorityRising(index) == IF index = 0 THEN 10000 ELSE 1000 + index

Priority(index) == IF index = 0 THEN 10000 ELSE 1000 - index

\* One step: the model, its route, the listed model, the capability with the
\* native one an adapter needs, and the binding; rows that are there already
\* are overwritten, a binding keeps the higher priority.
ImportStep(d, file, step) ==
  LET a == step.account
      s == file.accounts[a].provider
      cap == StepCapability(file, step)
      features == FeatureCapabilities(file, s, a, step.model)
      row(c) == [status |-> "confirmed", cap |-> c, features |-> features]
      u == UpstreamModel(file, a, step.model)
      below == IF cap.mode = "adapter" THEN With(d.caps, <<s, u, cap.source>>, row(Native))
               ELSE d.caps
      b == [model |-> step.model, source |-> s, account |-> a, upstream |-> u,
            protocol |-> step.protocol, status |-> "confirmed",
            enabled |-> file.accounts[a].enabled, priority |-> Priority(step.index)]
      same == BindingsWhere(d, LAMBDA c : Identity(c) = Identity(b))
      merged(i) == [b EXCEPT !.priority =
                      IF d.bindings[i].priority > @ THEN d.bindings[i].priority ELSE @]
      base == [d EXCEPT
        !.models = With(@, step.model, [status |-> "confirmed", enabled |-> TRUE]),
        !.routes = With(@, step.id, [model |-> step.model,
                                     protocols |-> step.route.protocols,
                                     strategy |-> step.route.strategy,
                                     lossy |-> step.route.lossy, enabled |-> TRUE]),
        !.listed = With(@, <<s, u>>, [conf |-> "confirmed", avail |-> "available"]),
        !.caps = With(below, <<s, u, step.protocol>>, row(cap))]
  IN IF same = {} THEN WithBindings(base, <<b>>)
     ELSE [base EXCEPT !.bindings = [i \in DOMAIN @ |-> IF i \in same THEN merged(i) ELSE @[i]]]

\* The tables of a file.
FileTables(file) ==
  LET base == [EmptyTables EXCEPT
        !.sources = [s \in DOMAIN file.providers |->
                       [enabled |-> TRUE, endpoints |-> file.providers[s].endpoints]],
        !.accounts = [a \in DOMAIN file.accounts |->
                        [source |-> file.accounts[a].provider,
                         enabled |-> file.accounts[a].enabled,
                         weight |-> file.accounts[a].weight]],
        !.nextId = db.nextId]
      steps == Steps(file)
      tables[n \in 0..Len(steps)] ==
        IF n = 0 THEN base ELSE ImportStep(tables[n - 1], file, steps[n])
  IN tables[Len(steps)]

\* initialize_from_config: into empty tables, or over everything when forced.
Import(file, force) ==
  LET tables == FileTables(file)
  IN /\ force \/ db = [EmptyTables EXCEPT !.nextId = db.nextId]
     /\ writes < MaxWrites
     /\ FileValid(file)
     /\ \A i \in DOMAIN file.routes : RouteModels(file, file.routes[i]) # {}
     /\ FileRefers(file)
     /\ \A step \in Range(Steps(file)) : StepCapability(file, step).mode # "unsupported"
     /\ ChainsValid(tables)
     /\ Compiles(tables)
     /\ db' = tables
     /\ imported' = file
     /\ writes' = writes + 1
     /\ UNCHANGED listings

-----------------------------------------------------------------------------
RoutingInit ==
  /\ db = EmptyTables
  /\ imported = None
  /\ writes = 0
  /\ listings = 0

RoutingNext ==
  \/ \E s \in Sources, e \in BOOLEAN :
       \/ SetSourceEnabled(s, e)
       \/ \E x \in SourceInputs : CreateSource(s, x, e) \/ UpdateSource(s, x, e)
       \/ \E request \in SourceRequests : CreateSourceFromRequest(s, request, e)
  \/ \E s \in Sources : DeleteSource(s) \/ \E ids \in SUBSET Upstreams : ApplyDiscovery(s, ids)
  \/ \E s \in Sources, u \in Upstreams :
       \/ ConfirmSourceModel(<<s, u>>)
       \/ \E p \in Protocols, x \in CapInputs : UpsertCapability(s, u, p, x)
  \/ \E a \in AccountIds :
       \/ DeleteAccount(a)
       \/ \E x \in AccountInputs : CreateAccount(a, x) \/ UpdateAccount(a, x)
       \/ \E e \in BOOLEAN : SetAccountEnabled(a, e)
  \/ \E m \in LogicalModels :
       \/ DeleteLogicalModel(m)
       \/ \E x \in ModelInputs : CreateLogicalModel(m, x) \/ UpdateLogicalModel(m, x)
       \/ \E e \in BOOLEAN : \/ SetLogicalModelEnabled(m, e)
                             \/ \E lines \in LineLists : PutModelRouting(m, lines, e)
  \/ \E b \in BindingInputs :
       CreateBinding(b) \/ \E id \in DOMAIN db.bindings : UpdateBinding(id, b)
  \/ \E id \in DOMAIN db.bindings :
       DeleteBinding(id) \/ \E e \in BOOLEAN : SetBindingEnabled(id, e)
  \/ \E r \in RouteIds, x \in RouteInputs : CreateRoute(r, x) \/ UpdateRoute(r, x)
  \/ \E r \in DOMAIN db.routes :
       DeleteRoute(r) \/ \E e \in BOOLEAN : SetRouteEnabled(r, e)
  \/ \E file \in Files, force \in BOOLEAN : Import(file, force)

RoutingSpec == RoutingInit /\ [][RoutingNext]_routingVars

-----------------------------------------------------------------------------
(* Properties. *)

Families(d, m) ==
  {Family[d.bindings[b].source] :
     b \in BindingsWhere(d, LAMBDA c : c.model = m /\ Active(c))}

(* No sequence of writes spreads a model over a second provider family     *)
(* (validate_binding_family_constraint, reached from creating, updating,   *)
(* enabling a binding and from writing a model's routing): only an import  *)
(* may, and after one the set of families only shrinks.                    *)
FamiliesNeverSpread ==
  [][imported' = None =>
       \A m \in DOMAIN db'.models :
         \/ Cardinality(Families(db', m)) <= 1
         \/ Families(db', m) \subseteq Families(db, m)]_routingVars

Covering(file, m, p) ==
  {i \in DOMAIN file.routes : m \in RouteModels(file, file.routes[i])
                              /\ p \in file.routes[i].protocols}

\* The accounts of a route in order, each once, disabled ones left out.
Expected(file, route) ==
  LET all == RouteAccounts(route)
      firsts == {i \in DOMAIN all : /\ file.accounts[all[i]].enabled
                                    /\ \A j \in 1..(i - 1) : all[j] # all[i]}
  IN [n \in 1..Cardinality(firsts) |->
        all[CHOOSE i \in firsts : Cardinality({j \in firsts : j < i}) = n - 1]]

\* The routes the file's own resolver looks at: a pattern stands for every
\* model there, on import for those its provider lists.
Matching(file, m, p) ==
  {i \in DOMAIN file.routes : /\ file.routes[i].model \in {m, AnyModel}
                              /\ p \in file.routes[i].protocols}

\* The capability rows a step of the import writes.
StepRows(file, step) ==
  LET a == step.account
      s == file.accounts[a].provider
      u == UpstreamModel(file, a, step.model)
      cap == StepCapability(file, step)
      own == <<s, u, step.protocol>>
      below == IF cap.mode = "adapter" THEN {<<s, u, cap.source>>} ELSE {}
  IN [key \in {own} \cup below |->
        [status |-> "confirmed", cap |-> IF key = own THEN cap ELSE Native,
         features |-> FeatureCapabilities(file, s, a, step.model)]]

\* The steps that write a row agree about it.  Rows are kept per source,
\* upstream model and protocol, so the overrides of two accounts may not.
Undisputed(file, key) ==
  \A x, y \in Range(Steps(file)) :
    key \in DOMAIN StepRows(file, x) \cap DOMAIN StepRows(file, y)
      => StepRows(file, x)[key] = StepRows(file, y)[key]

\* Where the file's own resolver finds an enabled primary, the snapshot's finds
\* the same route and primary, reached the same way, with the same features.
ServedAsMeant(m, p) ==
  \A meant \in {ResolveSelected(imported, m, p)}, found \in {Resolve(db, m, p)} :
    IF meant = None THEN TRUE
    ELSE imported.accounts[meant.primary].enabled =>
           /\ found # NotFound
           /\ found.route[1] = meant.route
           /\ LET binding == db.bindings[found.line[1]]
                  row == db.caps[CapKey(binding)]
              IN /\ binding.account = meant.primary
                 /\ Undisputed(imported, CapKey(binding)) =>
                      /\ row.cap.mode = meant.mode
                      /\ UpstreamProtocol(row, p) = meant.upstream
                      /\ EffectiveFeatures(row.features, AdapterFeatures(row.cap)) = meant.features
                      /\ Degraded(row.features, AdapterFeatures(row.cap)) = meant.degraded

(* An import serves what the file says (import_gateway_config, then the    *)
(* compiler and the resolver): a model and protocol that one route of the  *)
(* file covers resolve to that route's enabled accounts in the file's      *)
(* order, each under the upstream name its model map gives and with the    *)
(* capability and features the file's layers come to, unless another part  *)
(* of the file writes the same row otherwise; nothing else is resolvable.  *)
(* And the two resolvers agree: where the file's own (resolve_selected)    *)
(* looks at that route alone and finds an enabled primary, the snapshot's  *)
(* finds the same route and primary, reached the same way and with the     *)
(* same features.  Of routes that overlap nothing is said: the snapshot    *)
(* prefers the smaller id, the file's resolver the model's own route.      *)
ImportServesTheFile ==
  imported # None =>
    \A m \in LogicalModels, p \in Protocols :
      LET cover == Covering(imported, m, p)
          found == Resolve(db, m, p)
          route == imported.routes[CHOOSE i \in cover : TRUE]
          expected == Expected(imported, route)
          source(a) == imported.accounts[a].provider
          stated(a) == [status |-> "confirmed",
                        cap |-> ProtocolCapability(imported, source(a), a, m, p),
                        features |-> FeatureCapabilities(imported, source(a), a, m)]
      IN /\ cover = {} => found = NotFound
         /\ Cardinality(cover) = 1 =>
              IF expected = <<>> THEN found = NotFound
              ELSE /\ found # NotFound
                   /\ found.route[1] = route.id
                   /\ Len(found.line) = Len(expected)
                   /\ \A n \in DOMAIN expected :
                        LET b == db.bindings[found.line[n]] IN
                        /\ b.account = expected[n]
                        /\ b.upstream = UpstreamModel(imported, b.account, m)
                        /\ Undisputed(imported, CapKey(b)) => db.caps[CapKey(b)] = stated(b.account)
         /\ Cardinality(cover) = 1 /\ Matching(imported, m, p) = cover => ServedAsMeant(m, p)

\* Two upstream models of one account bound to one model that a route other
\* than an ordered one serves.
DoublyBound(d) ==
  \E i, j \in DOMAIN d.bindings, r \in DOMAIN d.routes :
    LET x == d.bindings[i]
        y == d.bindings[j]
    IN /\ x.account = y.account /\ x.upstream # y.upstream
       /\ x.model = y.model /\ x.model = d.routes[r].model
       /\ Active(x) /\ Active(y)
       /\ d.routes[r].enabled /\ d.routes[r].strategy # "ordered_fallback"

\* A binding whose adapter loses a feature its route does not allow to lose.
LosesFeature(d) ==
  \E row \in Rows(d) :
    LET cap == d.caps[CapKey(d.bindings[row[2]])]
    IN ~Carries(cap.features, AdapterFeatures(cap.cap), d.routes[row[1]].lossy)

\* An account a file gave no weight, which no administrative write may.
Weightless(d) ==
  \E row \in Rows(d) : ~(d.accounts[d.bindings[row[2]].account].weight > 0)

(* What is stored can be loaded again (load_snapshot at the next start or  *)
(* write), although discoveries and confirmations change what is compiled  *)
(* without compiling it: the capability chains always hold, and only an    *)
(* upstream model that comes back can stop the compiler, when meanwhile    *)
(* its account was bound under another name to a weighted route, its       *)
(* capability was given an adapter that loses a feature, or its account    *)
(* came from a file without a weight and was bound while it was away.      *)
StoredConfigLoads ==
  /\ ChainsValid(db)
  /\ Compiles(db) \/ DoublyBound(db) \/ LosesFeature(db) \/ Weightless(db)

\* What the matrix shows of a model: the lines of its rows that are routable
\* on a protocol, those of disabled accounts left out.
MatrixRoutable(d, m) ==
  LET cells == {x \in MatrixKeys(d) \X Protocols : /\ x[1][1] = m
                                                  /\ AccountEnabled(d, x[1][4])
                                                  /\ Cell(d, x[1], x[2]).status = "routable"}
  IN {<<<<x[1][3], x[1][5], x[2]>>, x[1][4]>> : x \in cells}

(* The administrator's view and the data plane agree: the lines shown as   *)
(* routable on a protocol (fetch_model_routing_tx) are exactly the         *)
(* bindings of an enabled account that a cell of the capability matrix,    *)
(* built from what the resolver answers, shows as routable, and the matrix *)
(* always builds (DuplicateRuntimeBinding cannot happen).                  *)
ViewMatchesMatrix ==
  Compiles(db) =>
    /\ MatrixBuilds(db)
    /\ \A m \in DOMAIN db.models :
         db.models[m] = [status |-> "confirmed", enabled |-> TRUE] =>
           ViewRoutable(db, m) = MatrixRoutable(db, m)

=============================================================================
