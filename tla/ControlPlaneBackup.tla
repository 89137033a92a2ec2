-------------------------- MODULE ControlPlaneBackup --------------------------
(***************************************************************************)
(* Export and restore of the control plane (infra/ops.rs, api/ops.rs, the  *)
(* ops commands of runtime.rs) composed with the publication of snapshots: *)
(* a step of this module is a step of SnapshotPublish, with what it does   *)
(* to the rows of backup_runs and audit_logs, to the serial numbers of the *)
(* bindings and to the stored credentials, or touches only those.          *)
(*                                                                         *)
(* An export inserts its row, loads a snapshot, dumps the tables, and only *)
(* then is marked succeeded and handed out.  A restore checks the held,    *)
(* inserts its row, replaces the tables in one transaction that also       *)
(* writes an audit entry, and only after the commit is marked succeeded;   *)
(* then its handler publishes.  Every step may fail or be the last one     *)
(* before a crash; marking a failure is best effort.                       *)
(*                                                                         *)
(* Every mutation inserts one binding, whose id is the next number of a    *)
(* sequence, and may seal a credential.  nextval and setval are not undone *)
(* by a rollback.  Presets and virtual keys of the file are inventory: the *)
(* presets of this database stay, keys are skipped.  A file of a newer     *)
(* schema, or with too many rows, is turned away without a trace.          *)
(***************************************************************************)
EXTENDS SnapshotPublish, Sequences, FiniteSetsExt

CONSTANTS
    MaxRuns     \* bound: rows of backup_runs

VARIABLES
    serial,     \* id of the binding each edit inserted, 0 when it inserted none
    seq,        \* last number of the sequence
    sealed,     \* edits whose account has a ciphertext in the database
    runs,       \* rows of backup_runs: [operation, status]
    started,    \* audit_logs: runs with a backup.restore.started entry
    dump,       \* run of the export being made, 0 if none
    held,       \* the operator has the file of the last export
    task,       \* per handler: the restore it works on
    replaced,   \* history: runs whose transaction replaced the tables
    importedAt, \* history: edits made before the last restore
    rolledBack  \* history: a restore was undone after it reset the sequence

books == <<runs, started, dump, held, task, replaced, importedAt, rolledBack>>
backupVars == <<vars, serial, seq, sealed, books>>

\* What the dump says of a secret: nothing (sanitize_json and the sanitizers
\* of the account and key rows take it out or blank it).
Sanitized == "none"

\* The body of an import request: the file as exported or with a ciphertext
\* put into an account by hand, as text or as another JSON value; with or
\* without the checksum the export gave; whether to replace what is there.
Request == [ciphertext : {Sanitized, "text", "value"}, checksum : BOOLEAN, replace : BOOLEAN]

Idle == [run |-> 0, replace |-> FALSE, ciphertext |-> Sanitized, committed |-> FALSE]

BackupInit ==
    /\ Init
    /\ serial = <<>>
    /\ seq = 0
    /\ sealed = {}
    /\ runs = <<>>
    /\ started = {}
    /\ dump = 0
    /\ held = FALSE
    /\ task = [h \in Handlers |-> Idle]
    /\ replaced = {}
    /\ importedAt = 0
    /\ rolledBack = FALSE

\* Ids of the bindings of a content.
Serials(content) == {serial[e.id] : e \in Mutations(content)}

----------------------------------------------------------------------------
(* Control-plane writes. *)

\* finish_write after an insertion: a taken id fails the write.
Write(h) ==
    /\ task[h] = Idle
    /\ seq + 1 \notin Serials(db.content)
    /\ Commit(h)
    /\ serial' = Append(serial, seq + 1)
    /\ seq' = seq + 1
    /\ sealed' \in {sealed, sealed \cup {edits + 1}}
    /\ UNCHANGED books

\* A write that fails because its id is taken has used up the number; what
\* other failures use up only leaves gaps, and is left out.
FailWrite(h) ==
    /\ Fail(h)
    /\ seq' = IF seq + 1 \in Serials(db.content) THEN seq + 1 ELSE seq
    /\ UNCHANGED <<serial, sealed, books>>

\* Discovery and confirmation insert no binding.
WriteCatalog ==
    /\ CatalogWrite
    /\ serial' = Append(serial, 0)
    /\ UNCHANGED <<seq, sealed, books>>

\* The other steps of a handler of the administrative interface.
Serve(h) ==
    /\ task[h] = Idle
    /\ Begin(h) \/ Load(h) \/ Publish(h)
    /\ UNCHANGED <<serial, seq, sealed, books>>

\* A handler is dropped after its commit; the import command of the command
\* line is another process and never publishes.
Abandon(h) ==
    /\ Drop(h)
    /\ task' = [task EXCEPT ![h] = Idle]
    /\ UNCHANGED <<serial, seq, sealed, runs, started, dump, held, replaced,
                   importedAt, rolledBack>>

----------------------------------------------------------------------------
(* The bookkeeping of a run. *)

NewRun(operation) == Append(runs, [operation |-> operation, status |-> "running"])

Marked(run, status) == runs' = [runs EXCEPT ![run].status = status]

\* mark_backup_failed: its error is ignored, and nobody marks the run of a
\* handler that is dropped.
MarkedFailed(run) == Marked(run, "failed") \/ UNCHANGED runs

----------------------------------------------------------------------------
(* Export. *)

\* export_control_plane up to the snapshot and its fingerprint.
StartExport ==
    /\ dump = 0
    /\ Len(runs) < MaxRuns
    /\ ExportSnapshot
    /\ runs' = NewRun("control_plane_export")
    /\ dump' = Len(runs) + 1
    /\ held' = FALSE
    /\ UNCHANGED <<serial, seq, sealed, started, task, replaced, importedAt, rolledBack>>

\* build_control_plane_export: the tables, without any secret.
DumpTables ==
    /\ dump # 0
    /\ ExportRows
    /\ UNCHANGED <<serial, seq, sealed, books>>

\* The run is marked and the file answered with its checksum.
FinishExport ==
    /\ dump # 0
    /\ export.stage = "done"
    /\ Marked(dump, "succeeded")
    /\ dump' = 0
    /\ held' = TRUE
    /\ UNCHANGED <<vars, serial, seq, sealed, started, task, replaced, importedAt, rolledBack>>

\* An error on the way, or a dropped handler.
FailExport ==
    /\ dump # 0
    /\ MarkedFailed(dump)
    /\ dump' = 0
    /\ UNCHANGED <<vars, serial, seq, sealed, started, held, task, replaced, importedAt,
                   rolledBack>>

----------------------------------------------------------------------------
(* Restore. *)

\* The checksum in the envelope, where there is one, is the one of the rows.
ChecksumMatches(request) == request.checksum => request.ciphertext = Sanitized

\* validate_export_shape: no secret field has a text.
ShapeValid(request) == request.ciphertext # "text"

\* import_control_plane up to the row of the run.
StartRestore(h, request) ==
    /\ phase[h] = "idle"
    /\ task[h] = Idle
    /\ held
    /\ ChecksumMatches(request)
    /\ ShapeValid(request)
    /\ Len(runs) < MaxRuns
    /\ runs' = NewRun("restore")
    /\ task' = [task EXCEPT ![h] = [run |-> Len(runs) + 1, replace |-> request.replace,
                                    ciphertext |-> request.ciphertext, committed |-> FALSE]]
    /\ UNCHANGED <<vars, serial, seq, sealed, started, dump, held, replaced, importedAt,
                   rolledBack>>

\* restore_rows goes on: the tables are empty or to be replaced.
MayReplace(h) == task[h].replace \/ db.content = {}

\* Mutant: the sequence is left where it is.
SequenceUntouched == seq

\* reset_sequences: the largest id restored.
ResetSequence ==
    LET ids == Serials(export.rows)
    IN  IF ids = {} THEN 1 ELSE Max(ids)

\* The transaction fails: the tables are not empty, the fingerprint is not
\* the exported one, or the database reports an error.  setval stays.
RefuseRestore(h) ==
    LET t == task[h]
    IN  /\ t.run # 0
        /\ ~t.committed
        /\ \/ UNCHANGED <<seq, rolledBack>>
           \/ /\ MayReplace(h)
              /\ seq' = ResetSequence
              /\ rolledBack' = TRUE
        /\ MarkedFailed(t.run)
        /\ task' = [task EXCEPT ![h] = Idle]
        /\ UNCHANGED <<vars, serial, sealed, started, dump, held, replaced, importedAt>>

\* restore_accounts: whatever the file says, no ciphertext.
RestoredCredentials(t) == {}

\* Mutant: the fingerprint is compared only after the commit.
CommitRestoreUnverified(h) ==
    LET t == task[h]
    IN  /\ t.run # 0
        /\ ~t.committed
        /\ MayReplace(h)
        /\ phase[h] = "idle" /\ export.stage = "done" /\ imports < MaxImports
        /\ db' = [row |-> db.row + 1, revision |-> export.revision, content |-> export.rows]
        /\ phase' = [phase EXCEPT ![h] = "holding"]
        /\ snap' = [snap EXCEPT ![h] = SnapshotOf(db')]
        /\ imports' = imports + 1
        /\ seq' = ResetSequence
        /\ sealed' = RestoredCredentials(t)
        /\ started' = started \cup {t.run}
        /\ replaced' = replaced \cup {t.run}
        /\ importedAt' = edits
        /\ task' = [task EXCEPT ![h].committed = TRUE]
        /\ UNCHANGED <<live, view, export, edits, contents, abandoned, serial, runs, dump, held,
                       rolledBack>>

\* restore_rows commits.
CommitRestore(h) ==
    LET t == task[h]
    IN  /\ t.run # 0
        /\ ~t.committed
        /\ MayReplace(h)
        /\ Import(h)
        /\ seq' = ResetSequence
        /\ sealed' = RestoredCredentials(t)
        /\ started' = started \cup {t.run}
        /\ replaced' = replaced \cup {t.run}
        /\ importedAt' = edits
        /\ task' = [task EXCEPT ![h].committed = TRUE]
        /\ UNCHANGED <<serial, runs, dump, held, rolledBack>>

\* Mutant: an audit entry that cannot be written fails the run.
FinishRestoreOrFail(h) ==
    LET t == task[h]
    IN  /\ t.committed
        /\ Marked(t.run, "succeeded") \/ Marked(t.run, "failed")
        /\ task' = [task EXCEPT ![h] = Idle]
        /\ UNCHANGED <<vars, serial, seq, sealed, started, dump, held, replaced, importedAt,
                       rolledBack>>

\* restore_control_plane after the commit: the row is marked; an error, also of
\* the audit entry that follows, ends the request (Abandon).
FinishRestore(h) ==
    LET t == task[h]
    IN  /\ t.committed
        /\ Marked(t.run, "succeeded")
        /\ task' = [task EXCEPT ![h] = Idle]
        /\ UNCHANGED <<vars, serial, seq, sealed, started, dump, held, replaced, importedAt,
                       rolledBack>>

----------------------------------------------------------------------------
(* The process ends and starts again. *)

Forget ==
    /\ dump' = 0
    /\ task' = [h \in Handlers |-> Idle]

Reboot ==
    /\ Restart
    /\ Forget
    /\ UNCHANGED <<serial, seq, sealed, runs, started, held, replaced, importedAt,
                   rolledBack>>

\* A configuration file has no ciphertexts either.
RebootWithConfig ==
    /\ Bootstrap
    /\ Forget
    /\ seq + 1 \notin Serials(db.content)
    /\ serial' = Append(serial, seq + 1)
    /\ seq' = seq + 1
    /\ sealed' = {}
    /\ UNCHANGED <<runs, started, held, replaced, importedAt, rolledBack>>

\* On a new database; the operator keeps the file.
RebootElsewhere ==
    /\ NewDatabase
    /\ Forget
    /\ seq' = 0
    /\ sealed' = {}
    /\ runs' = <<>>
    /\ started' = {}
    /\ replaced' = {}
    /\ importedAt' = 0
    /\ rolledBack' = FALSE
    /\ UNCHANGED <<serial, held>>

BackupNext ==
    \/ \E h \in Handlers :
         \/ Write(h)
         \/ FailWrite(h)
         \/ Serve(h)
         \/ Abandon(h)
         \/ \E request \in Request : StartRestore(h, request)
         \/ RefuseRestore(h)
         \/ CommitRestore(h)
         \/ FinishRestore(h)
    \/ WriteCatalog
    \/ StartExport
    \/ DumpTables
    \/ FinishExport
    \/ FailExport
    \/ Reboot
    \/ RebootWithConfig
    \/ RebootElsewhere

BackupSpec == BackupInit /\ [][BackupNext]_backupVars

----------------------------------------------------------------------------
(* Exporting and restoring never disturbs the publication of snapshots:    *)
(* seen without its bookkeeping, every behaviour of this module is one of  *)
(* SnapshotPublish, so all that holds there holds here.                    *)
KeepsPublication == Init /\ [][Next]_vars

(* The books tell the truth (restore_control_plane, restore_rows,          *)
(* mark_backup_failed), over errors, dropped handlers and crashes at any   *)
(* point: a run marked failed left the tables alone, one marked succeeded   *)
(* replaced them, and the transaction's own audit entry is there exactly   *)
(* when it did.                                                            *)
BooksTellTheTruth ==
    /\ started = replaced
    /\ \A i \in DOMAIN runs :
         runs[i].operation = "restore" =>
           /\ runs[i].status = "failed" => i \notin replaced
           /\ runs[i].status = "succeeded" => i \in replaced

(* The next binding gets a free id (reset_sequences), after a restore into *)
(* the same database or into a new one, unless a restore was undone after  *)
(* it had set the sequence back, which PostgreSQL does not undo.           *)
NextIdIsFree == rolledBack \/ \A id \in Serials(db.content) : id <= seq

(* No ciphertext comes out of a file (validate_export_shape,               *)
(* restore_accounts), edited by hand or not: every sealed credential in    *)
(* the database was entered after the last restore.                        *)
CiphertextsAreOwn == \A id \in sealed : id > importedAt

============================================================================
