-------------------------- MODULE SnapshotPublish --------------------------
(***************************************************************************)
(* How an edit of the control plane becomes the configuration requests are *)
(* served with.  A mutation writes its rows and bumps the revision of      *)
(* runtime_snapshot_state in one SERIALIZABLE transaction, builds the next *)
(* immutable snapshot inside it (control_plane/service.rs, finish_write),  *)
(* commits, and only then, in the handler, swaps it into memory            *)
(* (state.rs, reload_snapshot), which refuses a smaller revision.  Between *)
(* the two the handler holds the snapshot, other handlers run, and the     *)
(* client may go away.  A manual reload reads a snapshot and publishes it  *)
(* the same way.  Discovery and confirmation (model_catalog.rs) change     *)
(* tables the snapshot is built from without touching the revision.  An    *)
(* export and an import (infra/ops.rs) carry a configuration, with its     *)
(* revision, to a later moment.                                            *)
(*                                                                         *)
(* A configuration is the set of the edits in effect.  An edit records the *)
(* revision whose transaction made it, 0 for a catalogue write.            *)
(***************************************************************************)
EXTENDS Naturals, FiniteSets

CONSTANTS
    Handlers,    \* concurrent admin requests
    MaxEdits,    \* bound: edits committed in a behaviour
    MaxImports   \* bound: control-plane imports in a behaviour

ASSUME BoundsAssumption == MaxEdits \in Nat /\ MaxImports \in Nat

VARIABLES
    db,         \* the database: row version of runtime_snapshot_state, its revision, the content
    live,       \* the published LiveConfig: revision and content
    phase,      \* per handler: idle, writing (transaction open), holding (a snapshot to publish)
    view,       \* per handler: the database as its transaction sees it
    snap,       \* per handler: the snapshot it holds
    export,     \* the operator's export file
    edits,      \* edits committed so far
    imports,    \* imports committed so far
    contents,   \* history: every content the database had other than by an import
    abandoned   \* history: revisions committed in this process whose handler never published them

vars == <<db, live, phase, view, snap, export, edits, imports, contents, abandoned>>

Edit == [id : Nat, revision : Nat]
Snapshot == [revision : Nat, content : SUBSET Edit]
Database == [row : Nat, revision : Nat, content : SUBSET Edit]

(* load_snapshot_in_transaction and build_snapshot: what a snapshot holds *)
SnapshotOf(state) == [revision |-> state.revision, content |-> state.content]

(* The export file: absent, or the revision and content of the snapshot    *)
(* loaded first (its metadata and fingerprint) and, once done, the rows    *)
(* dumped afterwards table by table.                                       *)
Export == [stage : {"none", "snapshot", "done"}, revision : Nat,
           content : SUBSET Edit, rows : SUBSET Edit]
NoExport == [stage |-> "none", revision |-> 0, content |-> {}, rows |-> {}]

(* What a handler with no open transaction, or no snapshot, holds *)
NoView == [row |-> 0, revision |-> 0, content |-> {}]
NoSnapshot == SnapshotOf(NoView)

Init ==
    /\ db = NoView
    /\ live = NoSnapshot
    /\ phase = [h \in Handlers |-> "idle"]
    /\ view = [h \in Handlers |-> NoView]
    /\ snap = [h \in Handlers |-> NoSnapshot]
    /\ export = NoExport
    /\ edits = 0
    /\ imports = 0
    /\ contents = {{}}
    /\ abandoned = {}

NewEdit(revision) == [id |-> edits + 1, revision |-> revision]

(* begin_write: the first query of the transaction fixes what it sees *)
Begin(h) ==
    /\ phase[h] = "idle"
    /\ phase' = [phase EXCEPT ![h] = "writing"]
    /\ view' = [view EXCEPT ![h] = db]
    /\ UNCHANGED <<db, live, snap, export, edits, imports, contents, abandoned>>

(* Validation, the build or the commit fails, or the handler is dropped:   *)
(* the transaction is rolled back.                                         *)
Fail(h) ==
    /\ phase[h] = "writing"
    /\ phase' = [phase EXCEPT ![h] = "idle"]
    /\ view' = [view EXCEPT ![h] = NoView]
    /\ UNCHANGED <<db, live, snap, export, edits, imports, contents, abandoned>>

\* Mutant: READ COMMITTED, the default isolation level.
ReadCommitted(h) == TRUE

(* Every SERIALIZABLE transaction writes the row of runtime_snapshot_state *)
(* (finish_write, restore_snapshot_state), so PostgreSQL lets one commit   *)
(* only if nobody wrote that row since it began.                           *)
Serializable(h) == db.row = view[h].row

(* finish_write: the commit.  The snapshot was built from what the         *)
(* transaction sees: its own view plus its edit; the database has besides  *)
(* what catalogue writes added meanwhile.  The answer to the COMMIT may be *)
(* lost: finish_write then reports an error and nothing will be published. *)
Commit(h) ==
    /\ phase[h] = "writing"
    /\ edits < MaxEdits
    /\ Serializable(h)
    /\ LET next == db.revision + 1
           new == NewEdit(next)
       IN  /\ db' = [row |-> db.row + 1, revision |-> next, content |-> db.content \cup {new}]
           /\ contents' = contents \cup {db.content \cup {new}}
           /\ \/ /\ phase' = [phase EXCEPT ![h] = "holding"]
                 /\ snap' = [snap EXCEPT ![h] =
                        [revision |-> next, content |-> view[h].content \cup {new}]]
                 /\ UNCHANGED abandoned
              \/ /\ phase' = [phase EXCEPT ![h] = "idle"]
                 /\ abandoned' = abandoned \cup {next}
                 /\ UNCHANGED snap
    /\ view' = [view EXCEPT ![h] = NoView]
    /\ edits' = edits + 1
    /\ UNCHANGED <<live, export, imports>>

(* reload_config_inner: load_snapshot, a REPEATABLE READ READ ONLY read *)
Load(h) ==
    /\ phase[h] = "idle"
    /\ phase' = [phase EXCEPT ![h] = "holding"]
    /\ snap' = [snap EXCEPT ![h] = SnapshotOf(db)]
    /\ UNCHANGED <<db, live, view, export, edits, imports, contents, abandoned>>

\* Mutant: the last one to publish wins.
AcceptsAny(candidate) == TRUE

(* reload_snapshot: an older revision does not replace a newer one *)
Accepts(candidate) == candidate.revision >= live.revision

(* reload_snapshot, under the write lock *)
Publish(h) ==
    /\ phase[h] = "holding"
    /\ live' = IF Accepts(snap[h]) THEN snap[h] ELSE live
    /\ phase' = [phase EXCEPT ![h] = "idle"]
    /\ snap' = [snap EXCEPT ![h] = NoSnapshot]
    /\ UNCHANGED <<db, view, export, edits, imports, contents, abandoned>>

(* The handler is dropped (its client went away) before reload_snapshot,   *)
(* or restore_control_plane fails after its commit, in the update of       *)
(* backup_runs or in the audit entry.                                      *)
Drop(h) ==
    /\ phase[h] = "holding"
    /\ phase' = [phase EXCEPT ![h] = "idle"]
    /\ abandoned' = abandoned \cup {snap[h].revision}
    /\ snap' = [snap EXCEPT ![h] = NoSnapshot]
    /\ UNCHANGED <<db, live, view, export, edits, imports, contents>>

(* apply_discovery, confirm_source_models: a READ COMMITTED transaction on *)
(* tables the snapshot joins; the revision stays and nobody publishes.     *)
CatalogWrite ==
    /\ edits < MaxEdits
    /\ db' = [db EXCEPT !.content = @ \cup {NewEdit(0)}]
    /\ contents' = contents \cup {db'.content}
    /\ edits' = edits + 1
    /\ UNCHANGED <<live, phase, view, snap, export, imports, abandoned>>

(* build_control_plane_export: the snapshot first, in its own transaction *)
ExportSnapshot ==
    /\ imports < MaxImports
    /\ export' = [stage |-> "snapshot", revision |-> db.revision,
                  content |-> db.content, rows |-> {}]
    /\ UNCHANGED <<db, live, phase, view, snap, edits, imports, contents, abandoned>>

(* ... then the tables, each in a transaction of its own: an edit made     *)
(* since the snapshot is in the tables read after it and not in the others *)
ExportRows ==
    /\ export.stage = "snapshot"
    /\ imports < MaxImports
    /\ \E rows \in SUBSET (export.content \cup db.content) :
          /\ export.content \cap db.content \subseteq rows
          /\ export' = [export EXCEPT !.rows = rows, !.stage = "done"]
    /\ UNCHANGED <<db, live, phase, view, snap, edits, imports, contents, abandoned>>

\* Mutant: the fingerprint is not compared.
VerifiedAlways == TRUE

(* The restored rows give the fingerprint the export was made with *)
Verified == export.rows = export.content

(* The rows of the file, under its revision: restore_snapshot_state writes *)
(* that over whatever revision was there.                                  *)
Restored == [row |-> db.row + 1, revision |-> export.revision, content |-> export.rows]

(* restore_rows with replace=true: every row is replaced and the revision  *)
(* set back to the exported one; a fingerprint mismatch rolls back.        *)
Import(h) ==
    /\ phase[h] = "idle"
    /\ export.stage = "done"
    /\ imports < MaxImports
    /\ Verified
    /\ db' = Restored
    /\ phase' = [phase EXCEPT ![h] = "holding"]
    /\ snap' = [snap EXCEPT ![h] = SnapshotOf(db')]
    /\ imports' = imports + 1
    /\ UNCHANGED <<live, view, export, edits, contents, abandoned>>

(* The process ends and starts again: open transactions are rolled back,   *)
(* held snapshots are lost, an unfinished export too.                      *)
Reborn ==
    /\ phase' = [h \in Handlers |-> "idle"]
    /\ abandoned' = {}
    /\ export' = IF export.stage = "done" THEN export ELSE NoExport
    /\ view' = [h \in Handlers |-> NoView]
    /\ snap' = [h \in Handlers |-> NoSnapshot]
    /\ UNCHANGED imports

(* runtime.rs: the first snapshot is loaded from the database *)
Restart ==
    /\ Reborn
    /\ live' = SnapshotOf(db)
    /\ UNCHANGED <<db, edits, contents>>

(* The gateway is started on a new, empty database, as a restore into one  *)
(* (docs/operations.md) begins.                                            *)
NewDatabase ==
    /\ Reborn
    /\ db' = NoView
    /\ live' = NoSnapshot
    /\ UNCHANGED <<edits, contents>>

(* runtime.rs with GATEWAY_CONFIG_JSON, forced or into an empty database:  *)
(* initialize_from_config replaces every row in one write.                 *)
Bootstrap ==
    /\ edits < MaxEdits
    /\ Reborn
    /\ db' = [row |-> db.row + 1, revision |-> db.revision + 1,
              content |-> {NewEdit(db.revision + 1)}]
    /\ live' = SnapshotOf(db')
    /\ contents' = contents \cup {db'.content}
    /\ edits' = edits + 1

HandlerStep(h) ==
    \/ Begin(h)
    \/ Fail(h)
    \/ Commit(h)
    \/ Load(h)
    \/ Publish(h)
    \/ Drop(h)
    \/ Import(h)

Next ==
    \/ \E h \in Handlers : HandlerStep(h)
    \/ CatalogWrite
    \/ ExportSnapshot
    \/ ExportRows
    \/ Restart
    \/ NewDatabase
    \/ Bootstrap

Spec == Init /\ [][Next]_vars

----------------------------------------------------------------------------
(* Every variable has its type; counters stay inside their bounds. *)
TypeOK ==
    /\ db \in Database
    /\ live \in Snapshot
    /\ phase \in [Handlers -> {"idle", "writing", "holding"}]
    /\ view \in [Handlers -> Database]
    /\ snap \in [Handlers -> Snapshot]
    /\ export \in Export
    /\ edits \in 0..MaxEdits
    /\ imports \in 0..MaxImports
    /\ contents \subseteq SUBSET Edit
    /\ abandoned \subseteq Nat

Mutations(content) == {e \in content : e.revision # 0}

(* A snapshot with all the edits of the revisions it claims to include *)
Complete(s) == \A e \in Mutations(db.content) : e.revision <= s.revision => e \in s.content

(* No lost edit (state.rs, reload_snapshot; service.rs, finish_write): as  *)
(* long as nothing is imported, the configuration requests are served with *)
(* under revision r has the edit of every committed mutation up to r,      *)
(* whatever the order in which handlers began, committed and published.    *)
NoLostEdit == imports = 0 => Complete(live)

(* Nothing uncommitted is served (service.rs, finish_write rolls back):    *)
(* as long as nothing is imported, every edit requests are served with is  *)
(* in the database.                                                        *)
NothingUncommitted == imports = 0 => live.content \subseteq db.content

Newest ==
    \/ live.revision = db.revision
    \/ \E h \in Handlers : phase[h] = "holding" /\ snap[h].revision = db.revision
    \/ db.revision \in abandoned

(* As long as nothing is imported, the newest revision is live, or a       *)
(* handler still holds it, or its handler was dropped after the commit     *)
(* (helpers.rs, mutation_result): a publication is never lost to a race    *)
(* between handlers.                                                       *)
NewestIsLiveOrComing == imports = 0 => Newest

(* The revision requests are served with never decreases, not even over a  *)
(* restart, as long as nothing is imported and the database is the same.   *)
RevisionNeverBack ==
    [][imports' = 0 => NewDatabase \/ live'.revision >= live.revision]_vars

(* Within one process the published revision never decreases, imports      *)
(* included (reload_snapshot rejects an older one).                        *)
LiveNeverGoesBack ==
    [][Restart \/ NewDatabase \/ Bootstrap \/ live'.revision >= live.revision]_vars

(* The database never holds a configuration torn out of an export          *)
(* (restore_rows verifies the fingerprint before it commits): its content  *)
(* is one some edit, and not an import, made.                              *)
NoTornImport == db.content \in contents

(* Imports included, every edit requests are served with was committed. *)
ServedWasCommitted == live.content \subseteq UNION contents

============================================================================
