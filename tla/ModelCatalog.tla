---------------------------- MODULE ModelCatalog ----------------------------
(***************************************************************************)
(* The model catalogue of one source (control_plane/model_catalog.rs), the *)
(* discovery and connection-test service that fills it                     *)
(* (control_plane/model_discovery.rs) and the metadata rules they share    *)
(* (domain/catalog.rs).                                                    *)
(*                                                                         *)
(* A discovery reads the upstream's model list over HTTP without a lock    *)
(* and applies it later in one transaction under the source's advisory     *)
(* lock; administrators edit and confirm models between the two, disable   *)
(* the account, and other discoveries run beside it.  A model row holds    *)
(* metadata fields with the source of each (upstream, preset, user).       *)
(*                                                                         *)
(* Abstractions.  A metadata value is Unknown or a member of Values; a     *)
(* field an upstream item or a preset does not give is Unknown (the code   *)
(* treats an absent and an unknown value of theirs alike), while a user    *)
(* override names the fields it sets.  An item of a model list is its id   *)
(* and the metadata parsed from it, which also stands for its raw          *)
(* snapshot; Malformed is metadata the parser refuses.  Transport, HTTP,   *)
(* size, JSON and shape failures are one case, as each leads to the same   *)
(* failed run.                                                             *)
(***************************************************************************)
EXTENDS Naturals, Sequences, FiniteSets

CONSTANTS
  Models,       \* upstream model ids
  Fields,       \* metadata fields
  Values,       \* known metadata values
  Unknown,      \* the unknown value: null, or "unknown" for a feature
  Answers,      \* the model lists the upstream may answer: sequences of items
  Malformed,    \* an item's metadata that does not parse
  Invalid,      \* a list the parser refuses
  PresetRows,   \* the contents a model-preset version may have
  NoPreset,     \* a preset version that does not name the model
  Overrides,    \* the user metadata an administrator may send
  Importable,   \* the models an imported configuration may name
  Imported,     \* raw snapshot of a model imported from the environment
  Calls,        \* administrative requests that may be in flight
  MaxVersion,   \* bound: model-preset versions ever shipped
  MaxCalls      \* bound: discovery runs and connection tests, recorded or in flight

Metadata == [Fields -> Values \cup {Unknown}]

ASSUME AnswersAssumption ==
  Answers \subseteq Seq([id : Models, md : Metadata \cup {Malformed}])
ASSUME ImportAssumption == Importable \subseteq Models
ASSUME PresetsAssumption == PresetRows \subseteq [Models -> Metadata \cup {NoPreset}]
ASSUME OverridesAssumption ==
  \A o \in Overrides : DOMAIN o \subseteq Fields
                       /\ \A f \in DOMAIN o : o[f] \in Values \cup {Unknown}
ASSUME MarkersAssumption ==
  /\ Unknown \notin Values
  /\ NoPreset \notin Metadata /\ Imported \notin Metadata /\ Malformed \notin Metadata
ASSUME BoundsAssumption == MaxVersion \in Nat \ {0} /\ MaxCalls \in Nat

VARIABLES
  presets,      \* model_presets: version -> content
  models,       \* source_models: id -> row
  supported,    \* the source's preset supports discovery
  enabled,      \* the account is enabled
  calls,        \* the requests in flight
  runs,         \* source_discovery_runs, in order of insertion
  tests,        \* source_connection_tests: rows inserted
  reported,     \* the test row last reported to the health registry
  unlocked      \* a connection test ran outside the probe lock

vars == <<presets, models, supported, enabled, calls, runs, tests,
          reported, unlocked>>

-----------------------------------------------------------------------------
(* Metadata and its provenance. *)

Sources == {"unknown", "upstream", "preset", "user"}

\* Every field unknown.
UnknownMetadata == [val |-> [f \in Fields |-> Unknown],
                    src |-> [f \in Fields |-> "unknown"]]

\* The values of one source laid over the metadata: an unknown value is
\* skipped unless a user states it or the field is unknown already.
ApplyValues(md, values, source) ==
  LET skipped(f) == /\ values[f] = Unknown
                    /\ source # "user"
                    /\ ~(f \in DOMAIN md.src /\ md.src[f] = "unknown")
      taken == {f \in DOMAIN values : ~skipped(f)}
  IN [val |-> [f \in DOMAIN md.val \cup taken |->
                 IF f \in taken THEN values[f] ELSE md.val[f]],
      src |-> [f \in DOMAIN md.src \cup taken |->
                 IF f \notin taken THEN md.src[f]
                 ELSE IF values[f] = Unknown /\ source # "user" THEN "unknown"
                 ELSE source]]

\* What discovery knows of a model: the upstream's values, then the preset's.
Resolve(upstream, preset) ==
  LET first == ApplyValues(UnknownMetadata, upstream, "upstream")
  IN IF preset = NoPreset THEN first ELSE ApplyValues(first, preset, "preset")

UserFields(md) == {f \in DOMAIN md.src : md.src[f] = "user"}

\* Mutant: a refresh lays the discovered values over the row.
RefreshedLosingUserFields(row, upstream, preset) ==
  IF row.conf = "confirmed" THEN row.md ELSE Resolve(upstream, preset)

\* A refresh leaves confirmed metadata alone and keeps user fields.
RefreshedPreservingUserFields(row, upstream, preset) ==
  IF row.conf = "confirmed" THEN row.md
  ELSE LET fresh == Resolve(upstream, preset)
       IN [val |-> [f \in Fields |-> IF f \in UserFields(row.md)
                                     THEN row.md.val[f] ELSE fresh.val[f]],
           src |-> [f \in Fields |-> IF f \in UserFields(row.md)
                                     THEN "user" ELSE fresh.src[f]]]

-----------------------------------------------------------------------------
(* Model presets: a version's content never changes, and the highest       *)
(* version that names a model describes it.                                *)

Naming(id) == {v \in DOMAIN presets : presets[v][id] # NoPreset}

\* 0 when no preset names the model.
MatchModelPreset(id) ==
  IF Naming(id) = {} THEN 0
  ELSE CHOOSE v \in Naming(id) : \A w \in Naming(id) : w <= v

PresetMetadata(id, v) == IF v = 0 THEN NoPreset ELSE presets[v][id]

\* Mutant: a shipped version overwrites the stored one.
InstallsOver(v, content) == TRUE

\* install_builtin_presets refuses a stored version with other content.
Installs(v, content) == v \in DOMAIN presets => presets[v] = content

-----------------------------------------------------------------------------
(* Rows. *)

Rows == [conf : {"pending", "confirmed"}, avail : {"available", "unavailable"},
         raw : Metadata \cup {Imported}, match : 0..MaxVersion,
         md : [val : UNION {[d -> Values \cup {Unknown}] : d \in SUBSET Fields},
               src : UNION {[d -> Sources] : d \in SUBSET Fields}]]

\* A model imported from GATEWAY_CONFIG_JSON: confirmed, without metadata.
ImportedRow == [conf |-> "confirmed", avail |-> "available", raw |-> Imported,
                match |-> 0, md |-> [val |-> <<>>, src |-> <<>>]]

\* The row of a model a discovery listed.
RefreshSourceModel(id, upstream, v) ==
  LET preset == PresetMetadata(id, v)
      old == models[id]
  IN IF id \notin DOMAIN models
     THEN [conf |-> "pending", avail |-> "available", raw |-> upstream,
           match |-> v, md |-> Resolve(upstream, preset)]
     ELSE [old EXCEPT
             !.avail = "available", !.raw = upstream,
             !.match = IF old.conf = "confirmed" THEN old.match ELSE v,
             !.md = RefreshedPreservingUserFields(old, upstream, preset)]

\* Mutant: a model the list leaves out stays as it was.
AfterDiscoveryKeeping(list) ==
  [id \in DOMAIN models \cup DOMAIN list |->
     IF id \in DOMAIN list THEN RefreshSourceModel(id, list[id], MatchModelPreset(id))
     ELSE models[id]]

\* The catalogue after a list: listed models refreshed, the others unavailable.
AfterDiscovery(list) ==
  [id \in DOMAIN models \cup DOMAIN list |->
     IF id \in DOMAIN list THEN RefreshSourceModel(id, list[id], MatchModelPreset(id))
     ELSE [models[id] EXCEPT !.avail = "unavailable"]]

\* What the run reports: a model changed when any compared column did.
Diff(list, after) ==
  [added |-> DOMAIN list \ DOMAIN models,
   changed |-> {id \in DOMAIN list \cap DOMAIN models : after[id] # models[id]},
   missing |-> {id \in DOMAIN models \ DOMAIN list : models[id].avail = "available"}]

NoDiff == [added |-> {}, changed |-> {}, missing |-> {}]

-----------------------------------------------------------------------------
(* Requests. *)

Idle == [kind |-> "none", phase |-> "idle", list |-> <<>>, row |-> 0, left |-> 0]

Started(kind) == [Idle EXCEPT !.kind = kind, !.phase = "sent"]

Busy == {c \in Calls : calls[c].phase # "idle"}

\* The bound on everything ever started.
MayStart ==
  Len(runs) + tests + Cardinality(Busy) + Cardinality({c \in Calls : calls[c].left > 0})
    < MaxCalls

Kinds(kind) == {c \in Calls : calls[c].kind = kind}

Init ==
  /\ presets \in {[v \in {1} |-> content] : content \in PresetRows}
  /\ models \in {[id \in ids |-> ImportedRow] : ids \in SUBSET Importable}
  /\ supported \in BOOLEAN
  /\ enabled = TRUE
  /\ calls = [c \in Calls |-> Idle]
  /\ runs = <<>>
  /\ tests = 0
  /\ reported = 0
  /\ unlocked = FALSE

SetAccountEnabled ==
  /\ enabled' = ~enabled
  /\ UNCHANGED <<presets, models, supported, calls, runs, tests,
                 reported, unlocked>>

FailedRun(status) == [status |-> status, list |-> <<>>, match |-> <<>>, diff |-> NoDiff]

\* record_discovery_failure: a run of its own, refused for a disabled account.
RecordDiscoveryFailure(c, status) ==
  /\ runs' = IF enabled THEN Append(runs, FailedRun(status)) ELSE runs
  /\ calls' = [calls EXCEPT ![c] = Idle]
  /\ UNCHANGED <<presets, models, supported, enabled, tests, reported, unlocked>>

\* resolve_credential: of an enabled account, when the environment has it.
ResolveCredential == enabled

\* discover, up to the request: an unsupported preset or a credential that is
\* not in the environment is a run at once; a disabled account is an error.
Discover(c) ==
  \/ ~supported /\ enabled /\ RecordDiscoveryFailure(c, "unsupported")
  \/ supported /\ ResolveCredential /\ RecordDiscoveryFailure(c, "failed")
  \/ /\ supported /\ ResolveCredential
     /\ calls' = [calls EXCEPT ![c] = Started("discover")]
     /\ UNCHANGED <<presets, models, supported, enabled, runs, tests, reported,
                    unlocked>>

DiscoverModels(c) ==
  /\ calls[c].phase = "idle"
  /\ MayStart
  /\ Discover(c)

Ids(items) == {items[n].id : n \in DOMAIN items}

\* parse_discovered_models: a malformed item or a second item of one id
\* spoils the whole list.
ParseDiscoveredModels(items) ==
  IF \/ \E n \in DOMAIN items : items[n].md = Malformed
     \/ Cardinality(Ids(items)) # Len(items)
  THEN Invalid
  ELSE [id \in Ids(items) |-> items[CHOOSE n \in DOMAIN items : items[n].id = id].md]

\* The answer arrives, whatever the upstream lists by then.
Receive(c, answer) ==
  /\ calls[c].kind = "discover"
  /\ calls[c].phase = "sent"
  /\ LET list == ParseDiscoveredModels(answer) IN
       IF list = Invalid THEN RecordDiscoveryFailure(c, "failed")
       ELSE /\ calls' = [calls EXCEPT ![c].phase = "fetched", ![c].list = list]
            /\ UNCHANGED <<presets, models, supported, enabled, runs, tests,
                           reported, unlocked>>

\* No answer, an error status, or one read_json_limited gives up on.
ReceiveNothing(c) ==
  /\ calls[c].kind = "discover"
  /\ calls[c].phase = "sent"
  /\ RecordDiscoveryFailure(c, "failed")

\* apply_discovery: rows and run in one transaction, or neither when the
\* account was disabled meanwhile.
ApplyDiscovery(c) ==
  LET list == calls[c].list
      after == AfterDiscovery(list)
  IN /\ calls[c].phase = "fetched"
     /\ IF enabled
        THEN /\ models' = after
             /\ runs' = Append(runs,
                  [status |-> "succeeded", list |-> list,
                   match |-> [id \in DOMAIN list |-> MatchModelPreset(id)],
                   diff |-> Diff(list, after)])
        ELSE UNCHANGED <<models, runs>>
     /\ calls' = [calls EXCEPT ![c] = Idle]
     /\ UNCHANGED <<presets, supported, enabled, tests, reported, unlocked>>

-----------------------------------------------------------------------------
(* Review. *)

\* One row with an administrator's metadata; any status.
WithUserOverrides(id, overrides) ==
  [models EXCEPT ![id].md = ApplyValues(@, overrides, "user")]

\* A batch confirmed, each model with its metadata.
WithConfirmed(batch) ==
  [id \in DOMAIN models |->
     IF id \in DOMAIN batch
     THEN [models[id] EXCEPT !.conf = "confirmed",
                             !.md = ApplyValues(@, batch[id], "user")]
     ELSE models[id]]

\* A batch with an unknown or an unavailable model is refused as a whole.
Confirmable(batch) ==
  /\ batch # <<>>
  /\ \A id \in DOMAIN batch : id \in DOMAIN models
                              /\ models[id].avail = "available"

EditSourceModel(id, overrides) ==
  /\ id \in DOMAIN models
  /\ models' = WithUserOverrides(id, overrides)
  /\ UNCHANGED <<presets, supported, enabled, calls, runs, tests, reported,
                 unlocked>>

ConfirmSourceModels(batch) ==
  /\ Confirmable(batch)
  /\ models' = WithConfirmed(batch)
  /\ UNCHANGED <<presets, supported, enabled, calls, runs, tests, reported,
                 unlocked>>

-----------------------------------------------------------------------------
(* Connection tests.  The health API's probes of an account take turns;    *)
(* the source API's test does not take the probe lock.                     *)

\* Mutant: two probes of the account at once.
ProbeUnlocked == TRUE

ProbeLockFree == Kinds("probe") = {}

\* A probe that waits for its turn, with this many more of its batch behind it.
Queued(left) == [Idle EXCEPT !.kind = "waiting", !.phase = "queued", !.left = left]

\* A probe is over: the batch goes on, or the request is answered.
AfterTest(c) == IF calls[c].left > 0 THEN Queued(calls[c].left - 1) ELSE Idle

\* A row for the outcome, refused for a disabled account.
RecordConnectionTest(c, kind) ==
  IF enabled
  THEN /\ tests' = tests + 1
       /\ calls' = [calls EXCEPT ![c].kind = kind, ![c].phase = "recorded", ![c].row = tests + 1]
  ELSE /\ calls' = [calls EXCEPT ![c] = AfterTest(c)]
       /\ UNCHANGED tests

\* A protocol the source does not support or a credential that is not in the
\* environment is a failed test without a request.
RecordConnectionFailure(c, kind) == enabled /\ RecordConnectionTest(c, kind)

\* test_connection, up to the request; a disabled account is an error.
TestConnection(c, kind) ==
  /\ \/ RecordConnectionFailure(c, kind)
     \/ /\ ResolveCredential
        /\ calls' = [calls EXCEPT ![c].kind = kind, ![c].phase = "sent"]
        /\ UNCHANGED tests
     \/ /\ ~ResolveCredential
        /\ calls' = [calls EXCEPT ![c] = AfterTest(c)]
        /\ UNCHANGED tests
  /\ UNCHANGED <<presets, models, supported, enabled, runs, reported>>

\* The source API's connection test.
TestSource(c) ==
  /\ calls[c].phase = "idle"
  /\ MayStart
  /\ TestConnection(c, "test")
  /\ unlocked' = (unlocked \/ ResolveCredential)

\* The turn of a queued probe comes.
ProbeAccount(c) ==
  /\ calls[c].phase = "queued"
  /\ ProbeLockFree
  /\ TestConnection(c, "probe")
  /\ UNCHANGED unlocked

Enqueue(c, left) ==
  /\ calls[c].phase = "idle"
  /\ MayStart
  /\ calls' = [calls EXCEPT ![c] = Queued(left)]
  /\ UNCHANGED <<presets, models, supported, enabled, runs, tests, reported, unlocked>>

\* The accounts a batch probes that names none.
HealthProbeTarget == enabled

\* The health API's probe of the account.
AdminHealthProbe(c) == Enqueue(c, 0)

\* Its batch: of the targets as they are listed now, or of the accounts the
\* request names, of which it may name one twice.
AdminHealthProbes(c) ==
  \/ HealthProbeTarget /\ Enqueue(c, 0)
  \/ Enqueue(c, 1)

\* Whatever the upstream answered, or did not, is recorded.
TestAnswered(c) ==
  /\ calls[c].kind \in {"test", "probe"}
  /\ calls[c].phase = "sent"
  /\ RecordConnectionTest(c, calls[c].kind)
  /\ UNCHANGED <<presets, models, supported, enabled, runs, reported, unlocked>>

\* apply_connection_test, then the probe lock is released.
ApplyConnectionTest(c) ==
  /\ calls[c].phase = "recorded"
  /\ reported' = calls[c].row
  /\ calls' = [calls EXCEPT ![c] = AfterTest(c)]
  /\ UNCHANGED <<presets, models, supported, enabled, runs, tests, unlocked>>

\* The gateway restarts, perhaps as a release with another preset version:
\* requests in flight are lost, the tables stay.
Restart(v, content) ==
  /\ Installs(v, content)
  /\ presets' = [w \in DOMAIN presets \cup {v} |->
                   IF w = v THEN content ELSE presets[w]]
  /\ calls' = [c \in Calls |-> Idle]
  /\ UNCHANGED <<models, supported, enabled, runs, tests, reported,
                 unlocked>>

Batches == UNION {[ids -> Overrides] : ids \in SUBSET Models}

Next ==
  \/ SetAccountEnabled
  \/ \E c \in Calls : \/ DiscoverModels(c) \/ ReceiveNothing(c) \/ ApplyDiscovery(c)
                     \/ TestSource(c) \/ AdminHealthProbe(c) \/ AdminHealthProbes(c)
                     \/ ProbeAccount(c)
                     \/ TestAnswered(c) \/ ApplyConnectionTest(c)
  \/ \E c \in Calls, answer \in Answers : Receive(c, answer)
  \/ \E id \in Models, o \in Overrides : EditSourceModel(id, o)
  \/ \E batch \in Batches : ConfirmSourceModels(batch)
  \/ \E v \in 1..MaxVersion, content \in PresetRows : Restart(v, content)

Spec == Init /\ [][Next]_vars

-----------------------------------------------------------------------------
(* Properties. *)

Succeeded == {i \in DOMAIN runs : runs[i].status = "succeeded"}

LastSucceeded == CHOOSE i \in Succeeded : \A j \in Succeeded : j <= i

(* However discoveries overlap (each reads the upstream's list before it   *)
(* takes the source's lock, model_catalog.rs apply_discovery), the         *)
(* catalogue shows exactly the list of one of them, the last applied: the  *)
(* available models and their raw snapshots are that list, never a mix of  *)
(* two fetches.                                                            *)
AvailableIsOneListing ==
  Succeeded # {} =>
    [id \in {x \in DOMAIN models : models[x].avail = "available"} |-> models[id].raw]
      = runs[LastSucceeded].list

(* A field says where its value came from (domain/catalog.rs apply_values, *)
(* refreshed_preserving_user_fields): a preset field is the value of the   *)
(* very preset version the row names, also on a confirmed row when newer   *)
(* versions are installed; an upstream field of a row under review is what *)
(* the raw snapshot says; a field nobody described is unknown.             *)
ProvenanceTruthful ==
  \A id \in DOMAIN models :
    LET row == models[id] IN
    \A f \in DOMAIN row.md.src :
      CASE row.md.src[f] = "preset" ->
             /\ row.match # 0 /\ row.match \in DOMAIN presets
             /\ presets[row.match][id] # NoPreset
             /\ row.md.val[f] = presets[row.match][id][f]
             /\ row.md.val[f] # Unknown
        [] row.md.src[f] = "upstream" ->
             /\ row.md.val[f] # Unknown
             /\ row.conf = "pending" => row.md.val[f] = row.raw[f]
        [] row.md.src[f] = "unknown" -> row.md.val[f] = Unknown
        [] OTHER -> TRUE

(* What a discovery, late or not, may never do to what people decided      *)
(* (refresh_source_model_tx): a confirmed row keeps its status, metadata   *)
(* and preset; a row under review keeps the fields a user set; no row      *)
(* disappears.                                                             *)
DecisionsSurviveDiscovery ==
  [][runs' # runs =>
       \A id \in DOMAIN models :
         /\ id \in DOMAIN models'
         /\ models'[id].conf = models[id].conf
         /\ models[id].conf = "confirmed" => /\ models'[id].md = models[id].md
                                             /\ models'[id].match = models[id].match
         /\ \A f \in UserFields(models[id].md) :
              /\ models'[id].md.src[f] = "user"
              /\ models'[id].md.val[f] = models[id].md.val[f]]_vars

(* Probes of one account report to the health registry in the order of     *)
(* their rows (infra/health.rs probe_account holds the probe lock from     *)
(* before the request until after the report), so a slow old probe never   *)
(* overwrites the verdict of a newer one.  The source API's own test does  *)
(* not take the lock and gives no such promise.                            *)
ProbesReportInOrder ==
  [][reported' # reported /\ ~unlocked => reported' > reported]_vars

=============================================================================
