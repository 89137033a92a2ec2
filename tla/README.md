# A TLA+ model of the gateway

This directory models the parts of the AI gateway in which order, concurrency
and failure decide whether it is correct: which upstream a request is sent to,
what is recorded about it, how a stream ends, how an edit of the configuration
reaches the requests, how a backup is taken and put back, how an account is
taken out of routing, who may use the gateway, what the catalogue of models
says, and how old rows are deleted.  TLC checks the modules on small instances;
TLAPS proves the safety properties of most of them for every value of their
constants.

Paths below are relative to the repository's `src/` unless they start with
`docs/` or `migrations/`.

## 1. The system

The gateway is one Rust process (axum and tokio) in front of one PostgreSQL
database.  The *data plane* accepts LLM requests in three protocols, resolves
a route to an ordered list of lines (account, upstream model, mode), tries them
and relays the answer, often as a server-sent event (SSE) stream.  The
*control plane* is an admin API that edits sources, accounts, models, bindings
and routes.

| component | state | operations | talks to |
|---|---|---|---|
| account health (`infra/health.rs`, `infra/db/health.rs`) | health columns of `accounts`, `account_health_events` | record success or failure, query, manual transition, probe | proxy (reads and writes), administration (writes the same row) |
| admission and settlement (`proxy/service.rs`, `settlement.rs`, `completion.rs`, `accounting.rs`) | two semaphores, closing flag | refuse, reserve, hand over a permit, write with retries, drain | every accounted request, `runtime.rs` |
| usage accounting and reports (`proxy/usage.rs`, `transport.rs`, `infra/db/usage.rs`, `api/usage.rs`) | counters of a request in memory, `usage_events`, `usage_event_attempts` | measure, estimate, insert, page, export, sum | settlement, streaming relay, cleanup |
| streaming relay and observer (`proxy/stream.rs`, `proxy/usage.rs`) | two SSE trackers, pending chunks, deadlines, one callback | poll, yield, heartbeat, time out, drop | upstream body, client, settlement |
| proxy policies (`proxy/ordered.rs`, `weighted.rs`, `fallback.rs`, `attempt.rs`, `policy.rs`) | local to a request | look at health, collect candidates, attempt, judge, settle | health, settlement, snapshot |
| snapshot publication (`control_plane/service.rs`, `state.rs`, `api/helpers.rs`) | `runtime_snapshot_state`, `LiveConfig` in memory | begin, commit, load, publish | every admin write, every request (reads) |
| export and restore (`infra/ops.rs`, `api/ops.rs`) | an export file, `backup_runs`, the id sequence, ciphertexts | dump table by table, check a file, restore, verify the fingerprint | snapshot publication, secrets |
| retention cleanup (`infra/ops.rs`) | `retention_policies`, `retention_cleanup_runs`, the rows it deletes | edit policies, start, retry, round, cancel, complete, fail | `usage_events` and its cascade |
| model catalogue and discovery (`control_plane/model_catalog.rs`, `model_discovery.rs`) | `source_models`, `model_presets`, discovery runs, connection tests | fetch, apply, edit, confirm, probe, install presets | snapshot content (without a revision), health |
| virtual keys (`infra/db/virtual_keys.rs`, `auth.rs`) | `virtual_keys` | create, rotate with overlap, revoke, reveal, authenticate | every request, secrets |
| secrets (`infra/secrets.rs`) | the process's keyring | seal, open, re-encrypt | accounts, virtual keys |
| events and incidents (`infra/events.rs`) | incident map and flag in memory, `system_events` | database_failed, database_recovered, record, page | every database call |
| routing and capabilities (`domain/routing.rs`, `domain/capabilities.rs`) | none | resolve, intersect, show the matrix | snapshot, proxy |
| administration and import (`control_plane/repository.rs`, `validation.rs`, `import.rs`, `domain/config.rs`) | sources, accounts, models, bindings, routes | create, update, delete, put a routing, import a file, compile a snapshot | snapshot publication |
| audit, quota, presets and URLs, HTTP surface, metrics, web console | see `PROJECT.json` | | |

### What is hard here

* **Two clocks and a lock.**  A health observation reads the clock, waits for a
  row lock, and writes: observations commit in another order than they were
  made, and operators reset the row in between.  An authentication likewise
  decides with the time its transaction began.
* **Flag, semaphore, flag.**  Admission looks at the closing flag twice with a
  semaphore between; drain may fall anywhere.  A permit changes owner three
  times (handler, body, write task) and each owner may be dropped.
* **Lost acknowledgements.**  An insert may have committed although the caller
  saw an error; so may the commit of a configuration, and either of the two
  rows of a recovered incident.
* **One byte stream, two readers.**  Relay and observer parse the same bytes
  with a parser each, but only one of them sees the gateway's own frames, and
  the observer has to recover the relay's verdict from the bytes.
* **Counters that are revised.**  Each event of a stream may replace counters of
  an earlier one, by parts; totals go stale, samples hit their limit.
* **Health is looked at repeatedly.**  Each look is a query; the answers differ.
* **Commit and publish are two steps** in concurrent handlers whose clients may
  go away between them; a restore sets the revision back.
* **Rounds in transactions of their own** with a cancel, a retry and a second
  invocation in between, and a cascade the delete does not mention.
* **Network calls outside the transaction.**  A discovery fetches, then locks
  and applies; people edit and other discoveries finish in between.
* **Many doors to one invariant.**  Bindings can be created, moved, enabled,
  confirmed and imported by different handlers, each of which must keep what
  the compiler of the snapshot relies on.
* **Readers that page** while rows are inserted with times of their own.

`PROJECT.json` lists these under `hazards`, at their lines, with the properties
that watch them.

## 2. Modules

Each module is one component.  Proofs are in `<Module>Proofs` (those of
`SnapshotPublish` in `ControlPlaneBackupProofs`, those of `StreamRelay` in
`SettlementProofs`, those of `UsageLedger` in `RetentionCleanupProofs`);
`MC<Module>` gives what a `.cfg` cannot express.

| module | variables | actions |
|---|---|---|
| `AccountHealth` | clock, source flag, row of one account, observations in flight, newest event | Observe, BeginSelect, Commit, Abandon; SetAccountEnabled, UpdateAccount, SetSourceEnabled, CreateAccount, DeleteAccount; Tick |
| `HealthEvidence` | those of `AccountHealth` and the failures logged since the row was last cleared | the same; the log is a history that restricts nothing |
| `Settlement` | phase of each request, free/hoarded permits, write slots, closing flag, process state, usage rows, tries | Arrive, Reject, CheckClosing, TryAcquire, Recheck, LeaveHandler, FinishPlain, RecordPlain, FinishStream, EndStream, AcquireWrite, WriteOk, WriteError, FinishTask; Signal, StoreClosing, AcquireMany, DrainDone |
| `UsageLedger` | clock, a request's counters in memory, the ledger, a paging client | Begin, Send, TimeOut, TransportFails, ResponseHead, BodyComplete, GiveUp, ObserveFrame, EndStream, StartWrite, Commit, WriteFails; Crash, Tick; StartWalk, NextPage |
| `StreamRelay` | both trackers, pending chunks, last event, judgement, guard's termination, reports, state of the body | UpstreamChunk, UpstreamError, UpstreamEof, Timeout, HeartbeatDue, Yield, BodyEnd, DropBody |
| `ProxyRequest` | enabled and available accounts, time-out, position, candidates, attempts, reason, response, usage row | Start, CollectOne, Collected, Execute, Walk, JudgeOrdered, Instead, JudgeFirst, JudgeLast, Probe, Pick, Settle; Environment, Expire |
| `SnapshotPublish` | database (row version, revision, edits), live snapshot, per-handler transaction view and held snapshot, export | Begin, Fail, Commit, Load, Publish, Drop, Import, CatalogWrite, ExportSnapshot, ExportRows, Restart, NewDatabase, Bootstrap |
| `ControlPlaneBackup` | those of `SnapshotPublish`; ids and their sequence, ciphertexts, backup runs, the restore of each handler | the export from its run to its file, a restore from the checks on the file over its transaction to its books and its publication, the command line, crashes |
| `RetentionCleanup` | policies, run row, its counters, rows left, per-invocation position, snapshot staleness, rounds | UpdateRetentionPolicies, LoadPolicyMap, Start, Insert, Retry, Prepare, FinishDryRun, OutOfRounds, TakeSnapshot, Conflict, RoundFindsEnd, RoundCancels, RoundDeletes, Count, AfterRound, ReportMore, Complete, MarkFailed, Fault, Abandon, Cancel |
| `ModelCatalog` | presets, catalogue rows, requests in flight, discovery runs, tests, the test last reported | DiscoverModels, Receive, ReceiveNothing, ApplyDiscovery, TestSource, AdminHealthProbe, AdminHealthProbes, ProbeAccount, TestAnswered, ApplyConnectionTest, EditSourceModel, ConfirmSourceModels, SetAccountEnabled, Restart |
| `VirtualKeys` | clock, key rows, row locks, calls, keyring, accounts' credentials | CreateKey, RevokeVirtualKey, the steps of a rotation, a reveal and an authentication, those of sealing, moving and re-encrypting a credential, Restart, Tick |
| `KeyValidity` | clock, issued keys, how long each is good, pending requests | the abstract promise: Arrive, Accept, Refuse, Leave, Manage, Pass, Restart |
| `Secrets` | none | operators: keyring of an environment, seal, open, re-encrypt |
| `SystemEvents` | clock, incident map and flag, observers, rows, a paging client | OperationFails, OperationSucceeds, the steps of a failure and of a recovery, Cancel, Record, RecordFails, RecordDuringDatabaseIncident, DomainFact, StartReading, ReadPage, Restart, Tick |
| `Capabilities` | none | operators: the layers of a configuration file, which files are valid, what an adapter carries, the resolver of a file |
| `RoutingConfig` | the control-plane tables, the file just imported | create, update, delete and enable of sources, accounts, models, bindings and routes; PutModelRouting, ConfirmSourceModel, UpsertCapability, ApplyDiscovery, Import; the compiled snapshot, resolver, matrix and administrator's view as operators |

The definitions whose names end in a description of a defect and that follow a
comment `Mutant:` are not part of the specification; each is a plausible wrong
version of the definition after it and shows that a property can fail.

Two detailed modules are shown to implement an abstract one: `VirtualKeys`
implements `KeyValidity` (property `KeepsKeyValidity`: the clock, the keys that
have a row, the moment up to which a row is good and the key each call presents
are the mapping), and `ControlPlaneBackup`, which composes export and restore
with publication, implements `SnapshotPublish` (`KeepsPublication`), so that the
safety of publication carries over to the composition.

### Abstractions

* `AccountHealth`: one account, since rows of different accounts share nothing.
  Time is in units of the configured durations.  The source row is joined
  without a lock (`FOR UPDATE OF a`), so an observation carries the source flag
  of its statement while the account row is re-read under the lock.
  `CountMax` is where the stored i32 saturates.
* `Settlement`: requests are anonymous; what matters is who owns a permit.  A
  tokio `acquire_many` collects permits as they are released (`hoard`).
  `Reject` is every refusal before admission.
* `UsageLedger`: token counts are small naturals, a counter that is no integer
  is `NotInt`; a frame is the usage object, the model, the effect on the
  thinking text and whether it exceeds the sample.  A row is inserted with its
  attempts in one transaction, and again with the same id when the
  acknowledgement was lost.
* `StreamRelay`: bytes become *pieces*, a line end or a run of bytes, so that
  frames can be cut at and inside lines and coalesced; sizes count pieces.
* `ProxyRequest`: `avail` is what the registry would answer now.  `Environment`
  changes it at any moment, so every order of looks and changes is covered.
* `SnapshotPublish`: a configuration is the set of edits in effect; an edit
  remembers the revision whose transaction made it, 0 for a catalogue write.
* `ControlPlaneBackup`: a table's rows are the edits and ids they hold; a file
  may be edited by hand in the ways the checks tell apart.
* `RetentionCleanup`: rows are those present when the run starts (cut-offs are
  fixed then, and rows are stamped by the clock).  From the row lock to the
  commit of a round nobody else writes the run row, so it is one step; the
  snapshot before it and the count after it are steps of their own.
* `ModelCatalog`: one source; an answer of the upstream is a sequence of
  entries, which may repeat a model or not parse.
* `VirtualKeys`, `Secrets`: encryption is an injective constructor of key,
  version, owner and plaintext; a key's hash is the key.
* `SystemEvents`: one row per incident and its recovery; redaction is left out.
* `RoutingConfig`: an administrative write is one serializable transaction and
  so one action; races between them are the subject of `SnapshotPublish`.  The
  resolver of a file (`ResolveSelected`) serves requests only in tests;
  here it is the reference the snapshot's resolver is compared with.  The
  production registry of adapters is empty; the one that the unit tests of
  `domain/capabilities.rs` register stands for it, so that adapter lines occur.

## 3. Runs

| run | instance | shows |
|---|---|---|
| `account_health` | 2 observers, threshold 2, window 3, cooldown 1..2, clock 0..5 | columns agree whatever was in flight (`RowConsistent`), the breaker opens only on enough failures within one window and leaves out exactly the accounts shown as cooling down (`BreakerHasEvidence`), failures never stretch a running cooldown (`ActiveCooldownStable`) |
| `settlement` | 3 requests, 2 permits, 1 write slot | permits add up on every way out (`PermitsConserved`), nothing happens after drain returned (`NothingAfterStop`), drain terminates, streams settle |
| `stream` | 20 chunks, both kinds of protocol, all timers, frame limit 6, 2 choices | observer and relay agree, heartbeats between frames included (`TrackersAgree`), the one report is the relay's verdict (`VerdictFaithful`), every stream ends although the upstream never stops (`StreamsEnd`) |
| `proxy` | 4 lines on 3 accounts, both policies, 2 retries | limits, order and final answers (`AttemptDiscipline`), the row names the line that answered (`AttributionTruthful`), nobody gives up with a usable line left untried (`NoEarlyGiveUp`) |
| `usage` | 2 requests of at most 2 attempts, 2 frames, 2 inserts; pages and exports of 1 row | a row says what the upstream said, or an estimate that is marked (`LedgerTruthful`), paging sees each row once (`WalksSeeEachRowOnce`), aggregate, series, breakdown and export agree (`ReportsAgree`), no attempt outlives the request's total time (`WithinTotalTime`) |
| `control_plane_backup` | 2 handlers, 2 edits, 1 restore, 2 backup runs | served configurations are complete (`NoLostEdit`), the newest one is live, held or abandoned (`NewestIsLiveOrComing`), torn exports stay out (`NoTornImport`), backup runs and audit tell what happened (`BooksTellTheTruth`), the restored sequence gives a free id (`NextIdIsFree`), publication is implemented (`KeepsPublication`) |
| `retention_cleanup` | 2 invocations, 8 rows, batches of 1, 2 rounds, 1 fault, 1 cancel, 1 edit of the policies | retention is kept, cascades included (`UnexpiredKept`), counters agree, *completed* is clean, repeated lone invocations end |
| `model_catalog` | 2 models, 2 values, 2 concurrent calls, 3 in all, 2 preset versions | the available models are one whole answer of the upstream (`AvailableIsOneListing`), every value names its true origin (`ProvenanceTruthful`), discoveries keep what people decided (`DecisionsSurviveDiscovery`), probes of an account report in their order (`ProbesReportInOrder`) |
| `virtual_keys` | 3 keys, 2 calls, 2 accounts on 2 sources, 3 environments | the keys keep the abstract promise (`KeepsKeyValidity`), an account authenticates only with a plaintext that was sealed for it, and a revealed key is the key of its row (`SecretsStayHome`) |
| `system_events` | 2 components, 2 observers, 2 failures, pages of 1 | no failure is swallowed (`FailuresStayOpen`), a recovery row has its failure row (`RecoveriesArePaired`), a client that pages misses nothing that was there (`WalksAreComplete`) |
| `routing_config` | 2 families, 3 accounts, 2 models, 2 protocols, 6 files, 3 writes, 2 catalogue changes | a snapshot serves what the file says and resolves as the file's own resolver does (`ImportServesTheFile`), accepted writes stay loadable (`StoredConfigLoads`), what the administrator sees is what is served (`ViewMatchesMatrix`), no write spreads a model over families (`FamiliesNeverSpread`) |

One more run, `stream_cut_frame`, is expected to fail; see *Findings*.

### Bounds

Two actors suffice for each race modelled: every conflict is between the holder
of a row, permit or snapshot and one other; a third request in `settlement`
makes two wait for one write slot.

* `account_health`: the clock passes a full window plus the longest backoff, so
  counters expire and cooldowns end, and `CountMax = 3` is reached.
* `stream`: `FrameLimit` is below what a few chunks add up to and `MaxChoices`
  below the number of choices, so both limits are hit.
* `proxy`: the four lines are the shortest route with all kinds: two lines of
  one account, a second account, an adapter line; the limit of attempts bites.
* `usage`: pages and exports of one row with two rows make every boundary
  happen; two frames let a second one revise the first.
* `control_plane_backup`: two edits let two mutations overtake each other
  around an export; the second backup run is the restore of the first.
* `retention_cleanup`: batches of one row with two rounds per invocation leave
  work over, so retries happen; one expired event owns two attempts, of which
  one outlives the first batch, and one owns an attempt that has not expired.
* `model_catalog`: of three calls two overlap and a third follows, a batch may probe
  the account twice; an answer is
  empty, whole, repeated, silent or malformed.
* `virtual_keys`: three keys make a rotation of a rotated key; the overlap may
  outlast the successor's expiry.  `KeysOrAccounts` keeps keys and accounts from
  moving in one behaviour: they share nothing but the keyring.
* `system_events`: `OneAtATime` lets one of another event, a disconnect and a
  restart happen in a behaviour, and a client read beside one observer.
* `routing_config`: three writes after an import, or without one, reach every
  pair of handlers with a third in between; the files are weighted with a model
  map, ordered across families, through an adapter, one that is refused, one in
  which two accounts of a source disagree about a capability, and one with two
  patterns.

`MaxEdits`, `MaxImports`, `MaxTime`, `MaxFaults`, `MaxCancels` and the like
bound the behaviours and nothing else.

### Fairness

* `Settlement`: weak fairness of each handler, body and write task and of a
  drain that started.  Upstream calls and streams have configured time-outs,
  and database calls return or fail; no request need arrive, no signal come.
* `StreamRelay`: the client reads (weak fairness of taking a chunk and of the
  end), and strong fairness of the total time-out: the deadline is compared on
  every turn before the upstream is polled.  Without a reading client the code
  has no bound: deadlines are only looked at on a poll.
* `RetentionCleanup`: weak fairness of an invocation's own steps.  `CleanupEnds`
  also assumes that one invocation after another works alone, which an operator
  has to see to; the code has no scheduler.

The other runs check safety only.  Deadlock is not checked where the modelled
life ends (a request that is done, a process that stopped, a bound that is
used up).

## 4. Proofs

| module | theorems | inductive invariant |
|---|---|---|
| `AccountHealthProofs` | TypeCorrect, RowAlwaysConsistent, BanBoundedAndCleared, EventsAgree, CooldownNeverStretched, BreakerJustified | `HealthInv`, `EvidenceInv` |
| `SettlementProofs` | TypeCorrect, PermitsAlwaysConserved, DrainIsFinal, NeverRecordedTwice | `SettlementInv` |
| the same, of `StreamRelay` | TrackersInStep, VerdictsFaithful, OnlyCutFramesMislead | `RelayInv` |
| `ProxyRequestProofs` | TypeCorrect, AttemptsDisciplined, AttributionHolds, GiveUpJustified | `IInv` |
| the same, of `RoutingConfig` | RoutingTablesSound, RoutingStoredConfigLoads, RoutingFamiliesNeverSpread, RoutingViewMatchesMatrix, RoutingImportServesTheFile | `RoutingInv`, `ImportTaken` |
| `ControlPlaneBackupProofs`, of `SnapshotPublish` | TypeCorrect, NoEditIsLost, OnlyTheDatabaseIsServed, NewestArrives, RevisionMonotone, ImportsAreWhole, OnlyCommittedIsServed, LiveRevisionMonotone | `PublishInv`, `Provenance` |
| the same, of `ControlPlaneBackup` | BackupKeepsPublication, BackupLosesNoEdit, BooksAreTrue, NoCiphertextFromAFile, NextIdStaysFree | step simulation; `BooksInv`, `CredentialsInv`, `SerialInv` |
| `RetentionCleanupProofs` | TypeCorrect, RetentionIsKept, CountersAlwaysAgree, CompletedLeavesNothing, RetriesForgetCancel, CompletedStays, OnlyRunningDeletes | `CleanupInv` |
| the same, of `UsageLedger` | LedgerIsTruthful, RowsSeenOnce, ReportsAlwaysAgree, AttemptsWithinTotalTime | `LedgerInv` |
| `ModelCatalogProofs` | ListingHolds, ProvenanceHolds, DecisionsSurvive, ProbesInOrder | `IInv` |
| `VirtualKeysProofs` | SecretsHold, KeysKeepTheirPromise | `IInv`; step simulation |
| `SystemEventsProofs` | FailuresHold, RecoveriesPaired, WalksComplete | `IInv` |

The assumptions are the named `ASSUME`s of the modules: what
`HealthConfig::normalized` guarantees, positive limits and finitely many
requests, natural bounds, finite tables with a total `Owner`; that the lines of
a route name accounts (`LinesAssumption`), that answers and presets are made of
models and metadata, that options of a rotation are what the API lets through, that inputs of
administrative writes and configuration files have the types of their structs
and that protocols are told apart by their order (`InputsAssumption`,
`FilesAssumption`), that a file states one of the three modes of `ProtocolMode`
for a protocol, that the counters of a usage object are integers or no
number (`LedgerAssumption`), and that no marker (`NoRow`, `None`, `Unknown` and the like) is a value it
stands apart from.

* `HealthInv` adds to the properties that every observation carries a time that
  is not in the future.  Without it a late commit could set a cooldown beyond
  `now + MaxCooldown`.  `GoodRow` says how columns hang together; the lemmas
  `FailureKeepsRowGood`, `ClearingKeepsRowGood` and `NewRowGood` show that the
  three ways to write a row keep it.  `BackoffBounded` is the arithmetic.
  `EvidenceInv` ties the count of the row to the log: what is counted was logged
  within the window the row names.  Its lemma `LoggingAdds` says that a logged
  failure adds one to every window around it, up to the threshold.
* `SettlementInv` adds that drain hoards permits only while draining and that
  the closing flag was set before.  `NothingAfterStop` needs permits to be
  conserved: drain ends when it has all of them, so nobody owns one
  (`AllHoarded`), and a late `try_reserve` sees the flag on its second look.
  `CountStep` is the counting lemma: a phase change of one request changes a
  cardinality by at most one.
* `RelayInv` has three parts.  `Relaying`: until the relay judges the stream, the
  chunk it has queued brings the observer's tracker to its own.  `Judging`:
  afterwards what is queued *shows* the observer the verdict (`Shows`), as the
  frame it was found in, as a failure frame after the end of the open frame, or
  by its absence.  `Reported`: what the one report says.  Feeding a chunk is a
  loop over its pieces, so the lemmas about it go by induction over the turns of
  the loop: `CountingUp` is induction over a set of naturals, from the
  well-foundedness of `<`; `RunExists` and `RunOfFeed` turn the recursive
  function into a run.  `FeedAgrees` says that trackers which agree are still in
  agreement after any chunk; `HeartbeatRead`, `FrameEndRead`, `DoneRead` and
  `ErrorRead` say what the observer reads in the gateway's own frames.
  `OnlyCutFramesMislead` bounds the finding of section 5: an upstream that closes
  inside a frame is the only way a failure is recorded as completed.
* `ProxyRequestProofs`: `OrderInv` keeps candidates and attempts ascending with
  what is left behind what was tried; `CoverInv` says that every line the request
  has walked past is a candidate, was tried or was found unavailable, which is
  what justifies giving up; `WeightedInv` says which selection led to which
  attempts; `ReasonInv` and `VerdictInv` keep the reason and the response true of
  the attempts so far, so that the row, written once, is (`RowInv`).
* The same module proves where a request's lines come from.  `RoutingInv` says of
  the tables that accounts, routes and bindings refer to rows that exist, that
  ids of bindings lie below the sequence and that no two bindings are the same
  (`TablesInv`), and that every confirmed capability has its chain
  (`ChainsValid`), which every write checks and the catalogue leaves alone.
  Deletions and edits thin the tables out (`Thins`); bindings enter one by one
  (`OneBindingAdded`), for a whole routing by induction over its lines
  (`LineBindingsAre`, `LinesOfOneFamily`) and for a file by induction over the
  importer's steps (`StepsAre`, `ImportStepKeeps`, `FileTablesAre`).
  `CompilesUnless` goes through what the compiler rejects: with valid chains only
  three causes are left, the ones `StoredConfigLoads` names; the third, an
  account with weight 0 from a file, came to light in this proof.  For the matrix,
  `OrderedIs` and `FirstOfIs` say that sorting by a key without ties lists each
  element once and that the first exists; all enabled routes of a model that
  serve a protocol have the same bindings for it, so it does not matter which one
  the resolver takes (`ResolveIs`), and no two bindings share a cell because
  identities are unique.
* `RoutingImportServesTheFile` rests on `ImportTaken`: as long as nothing was
  written after an import, every row is one that a step of the import wrote, and
  every step has its rows, its binding with at least its priority (`Built`, kept
  by one step in `ImportStepBuilds` and by all of them in `FileTablesAre`).
  `StepsAre` says which steps a file has, `StepId` that a route id names a route
  and a model of the file.  Where one route covers a model, its bindings are the
  route's enabled accounts, each with the priority of its first place
  (`CoveredBindings`); priorities fall along the list (`PriorityFalls`), and two
  sets whose order a bijection keeps have the same ranks (`RanksAgree`), so that
  the snapshot's order is the file's (`CoveredInOrder`).  `CandidateSays` and
  `PrimaryFirst` bring in the file's own resolver (`CoveredAsMeant`).  Two
  premises of the property came to light in this proof, and without them the
  files `Disputed` and `Patterns` of the run violate it: that the steps which write a capability row agree about it
  (`Undisputed`), and that the file's resolver looks at no further route
  (`Matching`).
* `PublishInv` says that the live snapshot and every held one are *sound* in
  the database: their content is part of it, and they have every mutation up to
  their revision.  It holds until the first import, which is stated as
  `UntilImport`.  `Provenance` covers imports: every content that is in the
  database, an export, a view or a snapshot is one that an edit produced.
* `BackupKeepsPublication` shows, for each step of the composition, the step of
  `SnapshotPublish` it is, or that it leaves its variables alone; the theorems
  of publication then hold of the composition (`BackupLosesNoEdit`).
  `NextIdStaysFree` needs `SerialInv`: every edit ever made, hence every edit in
  a file, has an id, and the ids are bounded, so that the maximum `setval` is
  given exists (`LargestExists`, from the well-foundedness of the naturals).
* `CleanupInv` relates an invocation's count to the tables: a count that found
  nothing stays true until the status is written (`CountHolds`), because deleting
  a row never makes another one a candidate (`EmptyStaysEmpty`), and no
  invocation reaches the rounds before the run has its row and policies
  (`Fresh`).  `CompletedIsClean` needs both, since the count, the completion and
  the deletes are in transactions of their own.  `RoundsLeft` keeps the rounds
  of an invocation within `max_batches`.
* `LedgerInv` follows a request and a reader.  `ObservationTruthful` says that the
  counters, the model and the truncation the observer keeps are those of the whole
  list of frames; `MergeAppend`, `TotalAppend` and `FirstModelAppend` say what one
  frame more changes in that reading, with its last and first places, which exist
  by the well-foundedness of the naturals (`LeastNumber`, `EndsOfPlaces`).
  `AttemptsInv` and `EventInv` tie the last attempt to the outcome, so that the
  row written from them agrees with it; `TimerInv` bounds the armed timer, and
  `Moves`, which every step of a request is, says what a send needs.  `WalkInv`
  says that a cursor is the place of the last row shown and that what the walk
  still owes lies below it; rows never move because a repeated insert does nothing
  (`WalkKept`), and a page is what has the lowest ranks (`AheadRanks`).
  `ReportsAlwaysAgree` is about sums over sets of rows.  The library defines a sum
  by a fold that picks the elements one by one; the section *Sums over finite
  sets* shows that the fold exists (`FoldExists`), that it does not matter which
  element is taken next (`SumRemove`), and what adding an element, adding two
  weights, counting, and cutting a set into parts do to a sum (`SumAdd`,
  `SumPlus`, `SumCount`, `SumParts`), by induction over the subsets of a finite
  set (`AddingUp`).  Every field of a report is a sum of what each row adds
  (`TotalsAreSums`), `GROUP BY` cuts the rows into disjoint parts (`GroupsAddUp`),
  and `RowCounts`, kept by `LedgerInv`, says that a row's counters are integers
  and its retries its attempts but one.
* `ModelCatalogProofs`: `RowTruthful` is provenance of one row, kept by each way
  a row is made from an answer, a preset, an edit or a refresh; `ProbeInv` says
  that a probe which holds the lock has a younger row than the last one reported.
  `ListingHolds` is inductive by itself once the last success exists.
* `VirtualKeysProofs`: `LockInv` is the row lock, under which a rotation finds
  the row as it read it, and with it every step maps to a step of `KeyValidity`:
  a rotation, a creation and a revocation to `Manage`, which may only bring ends
  closer.  `RecoveryInv` and `CredentialInv` follow an envelope through copies and
  re-encryptions: owner and plaintext never change.
* `SystemEventsProofs`: `ClaimInv` says that an incident somebody recovers says so
  and is recovered by nobody else, `OwedInv` that a recovery nothing interrupted
  owes nothing, `PairInv` that what an incident or its observer takes to be
  persisted is in the table.  `ReaderInv` says that what a reader has still to see
  lies beyond its cursor.  `PageFacts` is about the page query: event ids make the
  order total, so the ranks of the rows are the numbers below their count, by
  counting (`Ranks`), and a page is what has the lowest ranks.

Some proved properties are in no run, because a theorem says more than an
instance would: type correctness, `CooldownBounded`, `DisabledIsClean`,
`EventsFollowRow`, `RecordedOnce`, `ServedWasCommitted`, `LiveNeverGoesBack`,
`NoStaleCancel`, `CompletedIsFinal`.

Only model-checked: liveness (`DrainTerminates`, `StreamsSettle`, `StreamsEnd`,
`CleanupEnds`), which is out of the installed provers' reach, and the run that
is expected to fail.  Every invariant and every action property of the other
runs is proved.

## 5. Findings

`stream_cut_frame` states what the code's own verdict says and finds a behaviour
that does otherwise: an upstream that closes inside a frame makes the relay
append its error to the open frame; a Chat stream judged incomplete is then
recorded as completed.  `PROJECT.json` quotes the lines.

Other disagreements between code and text, seen while modelling and stated here
without a run:

* Health: a failure observed before the start of the stored window restarts the
  window, so of two concurrent failures that commit in reverse order one is not
  counted (`infra/db/health.rs:241`; `docs/ai-gateway-design.md:591` says the row
  lock keeps all).
* Proxy: the ordered policy looks at the primary twice; if it goes away in
  between, a fallback completes the request without a reason (`ordered.rs:68`,
  `docs/ai-gateway-design.md:570`).  `account_unhealthy` is a documented reason
  that `primary_unavailable_reason` cannot produce; 425 is documented as
  retryable and is not; the Retry-After retry of the primary keeps a
  `fallback_reason`.
* Stream: `id:` and `retry:` lines count as a provider event although a comment
  in `stream.rs` says they do not.
* Restore: one whose revision is below the served one is committed and answered
  `verified=true`, and is not published (`infra/ops.rs:2153`, `state.rs:88`,
  `api/ops.rs:400`; `docs/operations.md:119`).  The command line never publishes.
  `setval` is not undone when a restore is refused or fails
  (`infra/ops.rs:1066`).  An error after the commit leaves the run *running*.
* Cleanup: a cancel between the snapshot of a round and its row lock ends the
  run as failed; after the last round it never takes effect (`infra/ops.rs:542`,
  `docs/operations.md:77`).  The audit row of a completed cleanup is appended
  also when the conditional update matched nothing (`infra/ops.rs:654`).
  Attempts removed by the cascade are not in `deleted_usage_attempts`.
* Events: an incident whose recovering request is dropped stays claimed, and no
  later success recovers it (`infra/events.rs:467`, against the comment at 428).
  A client that polls with `since` misses rows that are backfilled.
* Audit: `infra/audit.rs:4` says a success row is inserted in the mutation's
  transaction; only the middleware writes it, after the handler, so that a
  client that leaves in between leaves no row.
* Usage: an answer that is not an event stream to a streaming request is
  recorded at once with usage *missing* (`docs/operations.md:199`); plain answers
  are written once, without a retry; the three queries of an aggregate are not
  one transaction.
* Routing: of overlapping routes the file's resolver takes the model's own
  before a pattern (comment at `domain/routing.rs:179`), the snapshot of the
  imported file the one with the smaller id; a pattern stands for every model in
  the file's resolver and for the models its provider lists in the snapshot
  (`expand_route_models`); a model that a discovery brings back can keep the stored
  configuration from compiling; an import ignores a route's mode and adapter;
  the match of a model override depends on the order of a hash map
  (`domain/config.rs:768`); capabilities are stored per source, model and
  protocol, so the overrides of two accounts overwrite each other on import;
  an intersection without an adapter turns *translated* into *native*.
* Keys: a rotation with an expiry in the past and no overlap leaves no usable
  key; a key with only the catalogue scope is accepted nowhere; recovery copies
  are never re-encrypted when the keyring moves on.

## 6. Not modelled

* The administrative audit: append-only rows that no decision reads.
* Upstream quota: each request fetches and translates one answer; no state.
* Provider presets and source URLs: static tables and string normalisation.
* HTTP surface, read-only listings, metrics, logging and the web console.
* The in-memory health registry, which only tests construct; `infra/db/config.rs`,
  the importer of earlier releases; helpers only tests call.
* Inside modelled parts: headers and bodies in the proxy, parsing of JSON and of
  the environment, envelope formats, CSV, percentiles and menu options, the
  filters of the event feed and redaction.

## 7. Plan

Done, in this order: `AccountHealth`, `Settlement`, `StreamRelay`,
`ProxyRequest`, `SnapshotPublish`, `RetentionCleanup` and four proof modules;
then `ModelCatalog`, `VirtualKeys` over `KeyValidity` and `Secrets`,
`SystemEvents`, `RoutingConfig` over `Capabilities`, `UsageLedger`, and
`ControlPlaneBackup` over `SnapshotPublish` with its proofs; then the proofs of
`ProxyRequest`, `ModelCatalog`, `VirtualKeys` (the refinement of `KeyValidity`
included), `SystemEvents`, of the evidence behind the breaker, of
`StreamRelay`, of `UsageLedger` and of `RoutingConfig`, the sums of the reports
and the import of a file included.  Left:

1. Composition: `ProxyRequest` over `AccountHealth` in place of `Environment`;
   `StreamRelay` with `Settlement`, refining an abstract *one request, one
   record* specification that both sides are shown to implement.
2. The audit trail, as an observer of every administrative action.
