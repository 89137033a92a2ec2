----------------------- MODULE ControlPlaneBackupProofs -----------------------
(***************************************************************************)
(* Proofs about the publication of snapshots and the backups composed with *)
(* it, for any set of handlers and any bounds.                             *)
(*                                                                         *)
(* Of SnapshotPublish: type correctness; what holds with imports (no torn  *)
(* import, nothing served that was never committed, no step back within a  *)
(* process); and, without imports, that no committed edit is lost to a     *)
(* race of handlers.  Of ControlPlaneBackup: it implements SnapshotPublish, *)
(* so all of that holds while backups are made and restored; the books     *)
(* tell the truth, no ciphertext comes out of a file, and the sequence of  *)
(* ids is ahead of every id restored.                                      *)
(***************************************************************************)
EXTENDS ControlPlaneBackup, WellFoundedInduction, TLAPS

(* An empty handler state is well typed. *)
LEMMA NothingTypes == NoView \in Database /\ NoSnapshot \in Snapshot /\ NoExport \in Export
  BY DEF NoView, NoSnapshot, SnapshotOf, NoExport, Database, Snapshot, Export, Edit

(* A snapshot of a database state is a snapshot. *)
LEMMA SnapshotOfType == ASSUME NEW state \in Database PROVE SnapshotOf(state) \in Snapshot
  BY DEF SnapshotOf, Database, Snapshot

(* A new edit is an edit. *)
LEMMA NewEditType == ASSUME TypeOK, NEW r \in Nat PROVE NewEdit(r) \in Edit
  BY BoundsAssumption DEF TypeOK, NewEdit, Edit

(* Every step keeps every variable in its type. *)
LEMMA TypeStep == ASSUME TypeOK, [Next]_vars PROVE TypeOK'
  <1> USE BoundsAssumption, NothingTypes
  <1>1. ASSUME NEW h \in Handlers, Begin(h) PROVE TypeOK'
    BY <1>1 DEF TypeOK, Begin
  <1>2. ASSUME NEW h \in Handlers, Fail(h) PROVE TypeOK'
    BY <1>2 DEF TypeOK, Fail
  <1>3. ASSUME NEW h \in Handlers, Commit(h) PROVE TypeOK'
    <2> DEFINE next == db.revision + 1
               new == NewEdit(next)
    <2>1. /\ db.row \in Nat /\ db.revision \in Nat /\ next \in Nat
          /\ db.content \subseteq Edit /\ view[h].content \subseteq Edit
      BY DEF TypeOK, Database
    <2>2. new \in Edit
      BY <2>1, NewEditType
    <2>3. db' \in Database /\ [revision |-> next, content |-> view[h].content \cup {new}] \in Snapshot
      BY <1>3, <2>1, <2>2 DEF Commit, Database, Snapshot
    <2>4. contents' \subseteq SUBSET Edit /\ abandoned' \subseteq Nat
      BY <1>3, <2>1, <2>2 DEF Commit, TypeOK
    <2>5. snap' \in [Handlers -> Snapshot] /\ phase' \in [Handlers -> {"idle", "writing", "holding"}]
      BY <1>3, <2>3 DEF Commit, TypeOK
    <2>6. /\ live' \in Snapshot /\ view' \in [Handlers -> Database] /\ export' \in Export
          /\ imports' \in 0..MaxImports
      BY <1>3 DEF Commit, TypeOK
    <2>7. edits' \in 0..MaxEdits
      BY <1>3 DEF Commit, TypeOK
    <2> QED
      BY <2>3, <2>4, <2>5, <2>6, <2>7 DEF TypeOK
  <1>4. ASSUME NEW h \in Handlers, Load(h) PROVE TypeOK'
    BY <1>4, SnapshotOfType DEF TypeOK, Load
  <1>5. ASSUME NEW h \in Handlers, Publish(h) PROVE TypeOK'
    BY <1>5 DEF TypeOK, Publish
  <1>6. ASSUME NEW h \in Handlers, Drop(h) PROVE TypeOK'
    <2>1. snap[h].revision \in Nat
      BY DEF TypeOK, Snapshot
    <2> QED
      BY <1>6, <2>1 DEF TypeOK, Drop
  <1>7. ASSUME NEW h \in Handlers, Import(h) PROVE TypeOK'
    <2>1. db' \in Database
      BY <1>7 DEF Import, Restored, TypeOK, Database, Export
    <2>2. imports' \in 0..MaxImports
      BY <1>7 DEF Import, Restored, TypeOK
    <2> QED
      BY <1>7, <2>1, <2>2, SnapshotOfType DEF Import, Restored, TypeOK
  <1>8. CASE CatalogWrite
    <2>1. NewEdit(0) \in Edit
      BY NewEditType
    <2>2. db' \in Database /\ db'.content \in SUBSET Edit
      BY <1>8, <2>1 DEF CatalogWrite, TypeOK, Database
    <2>3. edits' \in 0..MaxEdits
      BY <1>8 DEF CatalogWrite, TypeOK
    <2> QED
      BY <1>8, <2>2, <2>3 DEF CatalogWrite, TypeOK
  <1>9. CASE ExportSnapshot
    BY <1>9 DEF ExportSnapshot, TypeOK, Database, Export
  <1>10. CASE ExportRows
    <2>1. PICK rows \in SUBSET (export.content \cup db.content) :
             export' = [export EXCEPT !.rows = rows, !.stage = "done"]
      BY <1>10 DEF ExportRows
    <2>2. rows \in SUBSET Edit
      BY <2>1 DEF TypeOK, Database, Export
    <2>3. export' \in Export
      BY <2>1, <2>2 DEF TypeOK, Export
    <2> QED
      BY <1>10, <2>3 DEF ExportRows, TypeOK
  <1>11. CASE Restart
    BY <1>11, SnapshotOfType DEF Restart, Reborn, TypeOK
  <1>12. CASE Bootstrap
    <2>1. db.revision + 1 \in Nat /\ db.row + 1 \in Nat
      BY DEF TypeOK, Database
    <2>2. NewEdit(db.revision + 1) \in Edit
      BY <2>1, NewEditType
    <2>3. db' \in Database /\ db'.content \in SUBSET Edit
      BY <1>12, <2>1, <2>2 DEF Bootstrap, Database
    <2>4. edits' \in 0..MaxEdits
      BY <1>12 DEF Bootstrap, TypeOK
    <2> QED
      BY <1>12, <2>3, <2>4, SnapshotOfType DEF Bootstrap, Reborn, TypeOK
  <1>13. CASE NewDatabase
    BY <1>13 DEF NewDatabase, Reborn, TypeOK
  <1>14. CASE UNCHANGED vars
    BY <1>14 DEF vars, TypeOK
  <1> QED
    BY <1>1, <1>2, <1>3, <1>4, <1>5, <1>6, <1>7, <1>8, <1>9, <1>10, <1>11, <1>12, <1>13, <1>14
    DEF Next, HandlerStep

(* Type correctness of the publication of snapshots (state.rs, service.rs, *)
(* infra/ops.rs), for any handlers and bounds.                             *)
THEOREM TypeCorrect == Spec => []TypeOK
  <1>1. Init => TypeOK
    BY BoundsAssumption, NothingTypes DEF Init, TypeOK
  <1> QED
    BY <1>1, TypeStep, PTL DEF Spec

----------------------------------------------------------------------------
(* What holds with imports                                                 *)

(* The database began empty, an export that has its snapshot was made of a *)
(* content of the database, and whatever a handler sees or holds was       *)
(* committed.                                                              *)
Provenance ==
    /\ TypeOK
    /\ {} \in contents
    /\ NoTornImport
    /\ ServedWasCommitted
    /\ export.stage # "none" => export.content \in contents
    /\ \A h \in Handlers : /\ view[h].content \subseteq UNION contents
                            /\ snap[h].content \subseteq UNION contents

(* Every step keeps the provenance of what is stored, held and served. *)
LEMMA ProvenanceStep == ASSUME Provenance, [Next]_vars PROVE Provenance'
  <1>t. TypeOK /\ TypeOK'
    BY TypeStep DEF Provenance
  <1>n. NoView.content = {} /\ NoSnapshot.content = {} /\ NoExport.stage = "none"
    BY DEF NoView, NoSnapshot, SnapshotOf, NoExport
  <1>d. db.content \in contents /\ SnapshotOf(db).content = db.content
    BY DEF Provenance, NoTornImport, SnapshotOf
  <1> USE <1>t, <1>n, <1>d
  <1> USE DEF NoTornImport, ServedWasCommitted
  <1>1. ASSUME NEW h \in Handlers, Begin(h) PROVE Provenance'
    BY <1>1 DEF TypeOK, Provenance, Begin
  <1>2. ASSUME NEW h \in Handlers, Fail(h) PROVE Provenance'
    BY <1>2 DEF TypeOK, Provenance, Fail
  <1>3. ASSUME NEW h \in Handlers, Commit(h) PROVE Provenance'
    <2> DEFINE new == NewEdit(db.revision + 1)
    <2>1. /\ contents' = contents \cup {db.content \cup {new}}
          /\ db'.content = db.content \cup {new}
          /\ live' = live /\ export' = export
          /\ view' = [view EXCEPT ![h] = NoView]
      BY <1>3 DEF Commit
    <2>2. UNION contents' = (UNION contents) \cup db.content \cup {new}
      BY <2>1
    <2>3. ASSUME NEW g \in Handlers PROVE snap'[g].content \subseteq UNION contents'
      <3>1. \/ snap' = snap
            \/ snap' = [snap EXCEPT ![h] = [revision |-> db.revision + 1,
                                            content |-> view[h].content \cup {new}]]
        BY <1>3 DEF Commit
      <3>2. snap[g].content \subseteq UNION contents /\ view[h].content \subseteq UNION contents
        BY DEF Provenance
      <3> QED
        BY <2>2, <3>1, <3>2 DEF TypeOK
    <2>4. ASSUME NEW g \in Handlers PROVE view'[g].content \subseteq UNION contents'
      BY <2>1, <2>2 DEF TypeOK, Provenance
    <2> QED
      BY <2>1, <2>2, <2>3, <2>4 DEF Provenance
  <1>4. ASSUME NEW h \in Handlers, Load(h) PROVE Provenance'
    BY <1>4 DEF TypeOK, Provenance, Load
  <1>5. ASSUME NEW h \in Handlers, Publish(h) PROVE Provenance'
    BY <1>5 DEF TypeOK, Provenance, Publish
  <1>6. ASSUME NEW h \in Handlers, Drop(h) PROVE Provenance'
    BY <1>6 DEF TypeOK, Provenance, Drop
  <1>7. ASSUME NEW h \in Handlers, Import(h) PROVE Provenance'
    <2>1. db'.content = export.content /\ export.content \in contents
      BY <1>7 DEF Import, Restored, Verified, Provenance
    <2>2. SnapshotOf(db').content = db'.content
      BY DEF SnapshotOf
    <2> QED
      BY <1>7, <2>1, <2>2 DEF Import, Restored, TypeOK, Provenance
  <1>8. CASE CatalogWrite
    <2>1. contents' = contents \cup {db'.content}
      BY <1>8 DEF CatalogWrite
    <2>2. contents \subseteq contents' /\ UNION contents \subseteq UNION contents'
      BY <2>1
    <2>3. /\ live' = live /\ view' = view /\ snap' = snap /\ export' = export
      BY <1>8 DEF CatalogWrite
    <2> QED
      BY <2>1, <2>2, <2>3 DEF Provenance
  <1>9. CASE ExportSnapshot
    BY <1>9 DEF ExportSnapshot, Provenance
  <1>10. CASE ExportRows
    <2>1. export.stage = "snapshot" /\ export'.content = export.content
      BY <1>10 DEF ExportRows, TypeOK, Export
    <2> QED
      BY <1>10, <2>1 DEF ExportRows, Provenance
  <1>11. CASE Restart
    BY <1>11 DEF Restart, Reborn, Provenance
  <1>12. CASE Bootstrap
    <2>1. SnapshotOf(db').content = db'.content
      BY DEF SnapshotOf
    <2> QED
      BY <1>12, <2>1 DEF Bootstrap, Reborn, Provenance
  <1>13. CASE NewDatabase
    BY <1>13 DEF NewDatabase, Reborn, Provenance
  <1>14. CASE UNCHANGED vars
    BY <1>14 DEF vars, Provenance
  <1> QED
    BY <1>1, <1>2, <1>3, <1>4, <1>5, <1>6, <1>7, <1>8, <1>9, <1>10, <1>11, <1>12, <1>13, <1>14
    DEF Next, HandlerStep

LEMMA ProvenanceInit == ASSUME Init PROVE Provenance
  <1>1. TypeOK
    BY BoundsAssumption, NothingTypes DEF Init, TypeOK
  <1>2. NoView.content = {} /\ NoSnapshot.content = {} /\ NoExport.stage = "none"
    BY DEF NoView, NoSnapshot, SnapshotOf, NoExport
  <1> QED
    BY <1>1, <1>2 DEF Init, Provenance, NoTornImport, ServedWasCommitted

(* Provenance is an invariant. *)
LEMMA ProvenanceInvariant == Spec => []Provenance
  BY ProvenanceInit, ProvenanceStep, PTL DEF Spec

(* restore_rows never commits a configuration torn by edits made while the *)
(* export was being dumped.                                                *)
THEOREM ImportsAreWhole == Spec => []NoTornImport
  BY ProvenanceInvariant, PTL DEF Provenance

(* Imports, crashes and dropped handlers included, reload_snapshot never   *)
(* publishes an edit that was not committed.                               *)
THEOREM OnlyCommittedIsServed == Spec => []ServedWasCommitted
  BY ProvenanceInvariant, PTL DEF Provenance

(* Only a start of the process and an accepted candidate change live. *)
LEMMA LiveChanges ==
  ASSUME [Next]_vars
  PROVE  \/ Restart \/ NewDatabase \/ Bootstrap \/ live' = live
         \/ \E h \in Handlers : live' = snap[h] /\ Accepts(snap[h])
  BY DEF Next, HandlerStep, vars, Begin, Fail, Commit, Load, Publish, Drop, Import, Restored,
         CatalogWrite, ExportSnapshot, ExportRows

(* Within a process the published revision never decreases, whatever       *)
(* revision an import gives the database.                                  *)
THEOREM LiveRevisionMonotone == Spec => LiveNeverGoesBack
  <1>1. ASSUME TypeOK, [Next]_vars
        PROVE  [Restart \/ NewDatabase \/ Bootstrap \/ live'.revision >= live.revision]_vars
    <2>1. live.revision \in Nat
      BY <1>1 DEF TypeOK, Snapshot
    <2>2. \/ Restart \/ NewDatabase \/ Bootstrap \/ live' = live
          \/ \E h \in Handlers : live' = snap[h] /\ Accepts(snap[h])
      BY <1>1, LiveChanges
    <2> QED
      BY <2>1, <2>2 DEF Accepts
  <1> QED
    BY <1>1, TypeCorrect, PTL DEF Spec, LiveNeverGoesBack

----------------------------------------------------------------------------
(* What holds as long as nothing is imported                               *)

(* A snapshot that lags behind database state d and is complete up to its  *)
(* own revision.                                                           *)
SoundIn(s, d) ==
    /\ s.revision <= d.revision
    /\ s.content \subseteq d.content
    /\ \A e \in d.content : e.revision # 0 /\ e.revision <= s.revision => e \in s.content

(* The view of a transaction begun in the past of d: if the snapshot-state *)
(* row was not written since, it has every mutation that d has.            *)
ViewIn(v, d) ==
    /\ v.row <= d.row
    /\ v.content \subseteq d.content
    /\ v.row = d.row => /\ v.revision = d.revision
                        /\ \A e \in d.content : e.revision # 0 => e \in v.content

(* The inductive invariant: the served snapshot, the held ones and the     *)
(* open transactions' views are all sound with respect to the database.    *)
PublishInv ==
    /\ TypeOK
    /\ SoundIn(live, db)
    /\ \A h \in Handlers : phase[h] = "holding" => SoundIn(snap[h], db)
    /\ \A h \in Handlers : phase[h] = "writing" => ViewIn(view[h], db)
    /\ Newest

(* A sound snapshot stays sound while the database grows by edits that     *)
(* carry no revision or a later one.                                       *)
LEMMA SoundGrows ==
  ASSUME NEW s \in Snapshot, NEW c \in Database, NEW d \in Database, SoundIn(s, c),
         c.content \subseteq d.content, c.revision <= d.revision,
         \A e \in d.content : e \in c.content \/ e.revision = 0 \/ e.revision > c.revision
  PROVE  SoundIn(s, d)
  <1>1. s.revision \in Nat /\ c.revision \in Nat /\ d.revision \in Nat
    BY DEF Snapshot, Database
  <1>2. s.revision <= d.revision /\ s.content \subseteq d.content
    BY <1>1 DEF SoundIn
  <1>3. ASSUME NEW e \in d.content, e.revision # 0, e.revision <= s.revision
        PROVE  e \in s.content
    <2>1. e.revision \in Nat
      BY DEF Database, Edit
    <2>2. e \in c.content
      BY <1>1, <1>3, <2>1 DEF SoundIn
    <2> QED
      BY <1>3, <2>2 DEF SoundIn
  <1> QED
    BY <1>2, <1>3 DEF SoundIn

(* The snapshot of a database state is sound in it. *)
LEMMA SoundSnapshot == ASSUME NEW d \in Database PROVE SoundIn(SnapshotOf(d), d)
  BY DEF SoundIn, SnapshotOf, Database

(* A committing transaction leaves sound snapshots and views sound, and    *)
(* the snapshot it built is sound because no other one wrote the row.      *)
LEMMA CommitKeeps ==
  ASSUME PublishInv, TypeOK', NEW h \in Handlers, Commit(h)
  PROVE  PublishInv'
  <1> DEFINE next == db.revision + 1
             new == NewEdit(next)
             built == [revision |-> next, content |-> view[h].content \cup {new}]
  <1>1. /\ db' = [row |-> db.row + 1, revision |-> next, content |-> db.content \cup {new}]
        /\ live' = live
        /\ view' = [view EXCEPT ![h] = NoView]
        /\ phase[h] = "writing" /\ db.row = view[h].row
        /\ \/ /\ phase' = [phase EXCEPT ![h] = "holding"]
              /\ snap' = [snap EXCEPT ![h] = built]
              /\ abandoned' = abandoned
           \/ /\ phase' = [phase EXCEPT ![h] = "idle"]
              /\ snap' = snap
              /\ abandoned' = abandoned \cup {next}
    BY DEF Commit, Serializable
  <1>2. /\ db \in Database /\ db' \in Database /\ db.row \in Nat /\ db.revision \in Nat
        /\ live \in Snapshot /\ snap \in [Handlers -> Snapshot]
        /\ view \in [Handlers -> Database]
        /\ phase \in [Handlers -> {"idle", "writing", "holding"}]
    BY DEF PublishInv, TypeOK, Database
  <1>3. new.revision = next /\ next > db.revision /\ next # 0 /\ next \in Nat
    BY <1>2 DEF NewEdit
  <1>4. ASSUME NEW s \in Snapshot, SoundIn(s, db) PROVE SoundIn(s, db')
    BY <1>1, <1>2, <1>3, <1>4, SoundGrows
  <1>5. SoundIn(built, db')
    BY <1>1, <1>2, <1>3 DEF PublishInv, ViewIn, SoundIn
  <1>6. SoundIn(live', db')
    BY <1>1, <1>2, <1>4 DEF PublishInv
  <1>7. ASSUME NEW g \in Handlers, phase'[g] = "holding" PROVE SoundIn(snap'[g], db')
    <2>1. CASE g = h
      BY <1>1, <1>2, <1>5, <1>7, <2>1
    <2>2. CASE g # h
      <3>1. phase[g] = "holding" /\ snap'[g] = snap[g] /\ snap[g] \in Snapshot
        BY <1>1, <1>2, <1>7, <2>2
      <3>2. SoundIn(snap[g], db')
        BY <1>4, <3>1 DEF PublishInv
      <3> QED
        BY <3>1, <3>2
    <2> QED
      BY <2>1, <2>2
  <1>8. ASSUME NEW g \in Handlers, phase'[g] = "writing" PROVE ViewIn(view'[g], db')
    <2>1. phase[g] = "writing" /\ view'[g] = view[g] /\ view[g].row \in Nat
      BY <1>1, <1>2, <1>8 DEF Database
    <2>2. view[g].row <= db.row /\ view[g].content \subseteq db.content
      BY <2>1 DEF PublishInv, ViewIn
    <2> QED
      BY <1>1, <1>2, <2>1, <2>2 DEF ViewIn
  <1>9. Newest'
    <2>1. db'.revision = next
      BY <1>1
    <2> QED
      BY <1>1, <1>2, <2>1 DEF Newest
  <1> QED
    BY <1>6, <1>7, <1>8, <1>9 DEF PublishInv

(* Publishing a sound snapshot leaves a sound one live, and the newest one *)
(* when it is the newest that is published.                                *)
LEMMA PublishKeeps ==
  ASSUME PublishInv, TypeOK', NEW h \in Handlers, Publish(h)
  PROVE  PublishInv'
  <1>1. /\ phase[h] = "holding"
        /\ live' = IF Accepts(snap[h]) THEN snap[h] ELSE live
        /\ phase' = [phase EXCEPT ![h] = "idle"]
        /\ snap' = [snap EXCEPT ![h] = NoSnapshot]
        /\ db' = db /\ view' = view /\ abandoned' = abandoned
    BY DEF Publish
  <1>2. /\ db.revision \in Nat /\ live.revision \in Nat
        /\ snap \in [Handlers -> Snapshot] /\ snap[h].revision \in Nat
        /\ phase \in [Handlers -> {"idle", "writing", "holding"}]
    BY DEF PublishInv, TypeOK, Database, Snapshot
  <1>3. SoundIn(snap[h], db) /\ SoundIn(live, db)
    BY <1>1 DEF PublishInv
  <1>4. SoundIn(live', db')
    BY <1>1, <1>3
  <1>5. ASSUME NEW g \in Handlers PROVE /\ phase'[g] = "holding" => SoundIn(snap'[g], db')
                                        /\ phase'[g] = "writing" => ViewIn(view'[g], db')
    <2>1. CASE g = h
      BY <1>1, <1>2, <2>1
    <2>2. CASE g # h
      <3>1. phase'[g] = phase[g] /\ snap'[g] = snap[g]
        BY <1>1, <1>2, <2>2
      <3> QED
        BY <1>1, <3>1 DEF PublishInv
    <2> QED
      BY <2>1, <2>2
  <1>6. Newest'
    <2>1. snap[h].revision <= db.revision /\ live.revision <= db.revision
      BY <1>3 DEF SoundIn
    <2>2. CASE live.revision = db.revision \/ snap[h].revision = db.revision
      BY <1>1, <1>2, <2>1, <2>2 DEF Newest, Accepts
    <2>3. CASE \E g \in Handlers \ {h} : phase[g] = "holding" /\ snap[g].revision = db.revision
      BY <1>1, <1>2, <2>3 DEF Newest
    <2>4. CASE db.revision \in abandoned
      BY <1>1, <2>4 DEF Newest
    <2> QED
      BY <2>2, <2>3, <2>4 DEF PublishInv, Newest
  <1> QED
    BY <1>4, <1>5, <1>6 DEF PublishInv

(* A catalogue write leaves every sound snapshot and view sound: its edit  *)
(* carries no revision.                                                    *)
LEMMA CatalogWriteKeeps == ASSUME PublishInv, TypeOK', CatalogWrite PROVE PublishInv'
  <1> DEFINE new == NewEdit(0)
  <1>1. /\ db' = [db EXCEPT !.content = @ \cup {new}]
        /\ live' = live /\ phase' = phase /\ view' = view /\ snap' = snap
        /\ abandoned' = abandoned
    BY DEF CatalogWrite
  <1>2. /\ db \in Database /\ db' \in Database /\ live \in Snapshot
        /\ snap \in [Handlers -> Snapshot]
    BY DEF PublishInv, TypeOK
  <1>3. /\ db'.content = db.content \cup {new} /\ new.revision = 0
        /\ db'.row = db.row /\ db'.revision = db.revision
    BY <1>1, <1>2 DEF Database, NewEdit
  <1>4. ASSUME NEW s \in Snapshot, SoundIn(s, db) PROVE SoundIn(s, db')
    <2>1. db.revision <= db'.revision
      BY <1>2, <1>3 DEF Database
    <2> QED
      BY <1>2, <1>3, <1>4, <2>1, SoundGrows
  <1>5. ASSUME NEW v, ViewIn(v, db) PROVE ViewIn(v, db')
    BY <1>3, <1>5 DEF ViewIn
  <1>6. Newest'
    BY <1>1, <1>3 DEF PublishInv, Newest
  <1> QED
    BY <1>1, <1>2, <1>4, <1>5, <1>6 DEF PublishInv

(* As long as nothing is imported every step keeps the inductive invariant. *)
LEMMA PublishStep == ASSUME imports' = 0, PublishInv, [Next]_vars PROVE PublishInv'
  <1>t. TypeOK /\ TypeOK'
    BY TypeStep DEF PublishInv
  <1>d. db \in Database /\ SoundIn(SnapshotOf(db), db) /\ SnapshotOf(db).revision = db.revision
    BY <1>t, SoundSnapshot DEF TypeOK, SnapshotOf
  <1> USE <1>t, <1>d
  <1>1. ASSUME NEW h \in Handlers, Begin(h) PROVE PublishInv'
    <2>1. ViewIn(db, db)
      BY DEF ViewIn, Database
    <2> QED
      BY <1>1, <2>1 DEF TypeOK, PublishInv, Begin, Newest
  <1>2. ASSUME NEW h \in Handlers, Fail(h) PROVE PublishInv'
    BY <1>2 DEF TypeOK, PublishInv, Fail, Newest
  <1>3. ASSUME NEW h \in Handlers, Commit(h) PROVE PublishInv'
    BY <1>3, CommitKeeps
  <1>4. ASSUME NEW h \in Handlers, Load(h) PROVE PublishInv'
    BY <1>4 DEF TypeOK, PublishInv, Load, Newest
  <1>5. ASSUME NEW h \in Handlers, Publish(h) PROVE PublishInv'
    BY <1>5, PublishKeeps
  <1>6. ASSUME NEW h \in Handlers, Drop(h) PROVE PublishInv'
    BY <1>6 DEF TypeOK, PublishInv, Drop, Newest
  <1>7. ASSUME NEW h \in Handlers, Import(h) PROVE PublishInv'
    BY <1>7 DEF Import, Restored, TypeOK
  <1>8. CASE CatalogWrite
    BY <1>8, CatalogWriteKeeps
  <1>9. CASE ExportSnapshot \/ ExportRows
    BY <1>9 DEF ExportSnapshot, ExportRows, PublishInv, Newest
  <1>10. CASE Restart
    BY <1>10 DEF Restart, Reborn, PublishInv, Newest
  <1>11. CASE Bootstrap
    <2>1. SoundIn(SnapshotOf(db'), db') /\ SnapshotOf(db').revision = db'.revision
      BY SoundSnapshot DEF TypeOK, SnapshotOf
    <2> QED
      BY <1>11, <2>1 DEF Bootstrap, Reborn, PublishInv, Newest
  <1>12. CASE NewDatabase
    <2>1. NoView \in Database /\ NoSnapshot = SnapshotOf(NoView)
      BY NothingTypes DEF NoSnapshot
    <2>2. SoundIn(live', db') /\ live'.revision = db'.revision
      BY <1>12, <2>1, SoundSnapshot DEF NewDatabase, SnapshotOf
    <2> QED
      BY <1>12, <2>2 DEF NewDatabase, Reborn, PublishInv, Newest
  <1>13. CASE UNCHANGED vars
    BY <1>13 DEF vars, PublishInv, Newest
  <1> QED
    BY <1>1, <1>2, <1>3, <1>4, <1>5, <1>6, <1>7, <1>8, <1>9, <1>10, <1>11, <1>12, <1>13
    DEF Next, HandlerStep

(* The number of imports never falls back to zero. *)
LEMMA ImportsGrow == ASSUME TypeOK, [Next]_vars, imports' = 0 PROVE imports = 0
  <1>1. imports' = imports \/ imports' = imports + 1
    BY DEF Next, HandlerStep, vars, Begin, Fail, Commit, Load, Publish, Drop, Import, Restored,
           CatalogWrite, ExportSnapshot, ExportRows, Restart, NewDatabase, Bootstrap, Reborn
  <1> QED
    BY <1>1 DEF TypeOK

(* PublishInv holds until the first import. *)
UntilImport == TypeOK /\ (imports = 0 => PublishInv)

LEMMA PublishInvariant == Spec => []UntilImport
  <1>1. Init => UntilImport
    <2> SUFFICES ASSUME Init PROVE TypeOK /\ PublishInv
      BY DEF UntilImport
    <2>1. TypeOK
      BY BoundsAssumption, NothingTypes DEF Init, TypeOK
    <2>2. NoView \in Database /\ NoSnapshot = SnapshotOf(NoView)
      BY NothingTypes DEF NoSnapshot
    <2>3. SoundIn(live, db) /\ live.revision = db.revision
      BY <2>2, SoundSnapshot DEF Init, SnapshotOf
    <2> QED
      BY <2>1, <2>3 DEF Init, PublishInv, Newest
  <1>2. UntilImport /\ [Next]_vars => UntilImport'
    BY TypeStep, ImportsGrow, PublishStep DEF UntilImport
  <1> QED
    BY <1>1, <1>2, PTL DEF Spec

(* However mutations, reloads, catalogue writes, dropped handlers and      *)
(* restarts interleave, reload_snapshot's revision check never lets an     *)
(* earlier snapshot hide a committed edit of the revision being served.    *)
THEOREM NoEditIsLost == Spec => []NoLostEdit
  <1>1. UntilImport => NoLostEdit
    BY DEF UntilImport, PublishInv, SoundIn, NoLostEdit, Complete, Mutations
  <1> QED
    BY <1>1, PublishInvariant, PTL

(* A rolled-back candidate (finish_write) is never served. *)
THEOREM OnlyTheDatabaseIsServed == Spec => []NothingUncommitted
  <1>1. UntilImport => NothingUncommitted
    BY DEF UntilImport, PublishInv, SoundIn, NothingUncommitted
  <1> QED
    BY <1>1, PublishInvariant, PTL

(* A committed revision is published, or held by its handler, or its       *)
(* handler was dropped: no race of publications loses the newest one.      *)
THEOREM NewestArrives == Spec => []NewestIsLiveOrComing
  <1>1. UntilImport => NewestIsLiveOrComing
    BY DEF UntilImport, PublishInv, NewestIsLiveOrComing
  <1> QED
    BY <1>1, PublishInvariant, PTL

(* The served revision of one database never decreases, restarts included. *)
THEOREM RevisionMonotone == Spec => RevisionNeverBack
  <1>1. ASSUME UntilImport, [Next]_vars
        PROVE  [imports' = 0 => NewDatabase \/ live'.revision >= live.revision]_vars
    <2> SUFFICES ASSUME imports' = 0 PROVE NewDatabase \/ live'.revision >= live.revision
      OBVIOUS
    <2>0. PublishInv
      BY <1>1, ImportsGrow DEF UntilImport
    <2>1. /\ live.revision \in Nat /\ db.revision \in Nat /\ live.revision <= db.revision
      BY <2>0 DEF PublishInv, TypeOK, Snapshot, Database, SoundIn
    <2>2. CASE Restart
      BY <2>1, <2>2 DEF Restart, SnapshotOf
    <2>3. CASE Bootstrap
      BY <2>1, <2>3 DEF Bootstrap, SnapshotOf
    <2>4. CASE live' = live \/ \E h \in Handlers : live' = snap[h] /\ Accepts(snap[h])
      BY <2>1, <2>4 DEF Accepts
    <2> QED
      BY <1>1, <2>2, <2>3, <2>4, LiveChanges
  <1> QED
    BY <1>1, PublishInvariant, PTL DEF Spec, RevisionNeverBack

----------------------------------------------------------------------------
(* Export and restore.                                                     *)

(* Every step of a backup or a restore is a step of the publication, or    *)
(* leaves its state alone.                                                 *)
LEMMA BackupStep == ASSUME [BackupNext]_backupVars PROVE [Next]_vars
  <1>1. ASSUME NEW h \in Handlers, Write(h) \/ FailWrite(h) \/ Serve(h) \/ Abandon(h)
        PROVE  HandlerStep(h)
    BY <1>1 DEF Write, FailWrite, Serve, Abandon, HandlerStep
  <1>2. ASSUME NEW h \in Handlers, CommitRestore(h) PROVE HandlerStep(h)
    BY <1>2 DEF CommitRestore, HandlerStep
  <1>3. ASSUME NEW h \in Handlers, NEW request \in Request,
               StartRestore(h, request) \/ RefuseRestore(h) \/ FinishRestore(h)
        PROVE  UNCHANGED vars
    BY <1>3 DEF StartRestore, RefuseRestore, FinishRestore
  <1>4. ASSUME NEW h \in Handlers, RefuseRestore(h) \/ FinishRestore(h)
        PROVE  UNCHANGED vars
    BY <1>4 DEF RefuseRestore, FinishRestore
  <1>5. CASE WriteCatalog \/ StartExport \/ DumpTables
    BY <1>5 DEF WriteCatalog, StartExport, DumpTables, Next
  <1>6. CASE FinishExport \/ FailExport
    BY <1>6 DEF FinishExport, FailExport
  <1>7. CASE Reboot \/ RebootWithConfig \/ RebootElsewhere
    BY <1>7 DEF Reboot, RebootWithConfig, RebootElsewhere, Next
  <1>8. CASE UNCHANGED backupVars
    BY <1>8 DEF backupVars
  <1> QED
    BY <1>1, <1>2, <1>3, <1>4, <1>5, <1>6, <1>7, <1>8 DEF BackupNext, Next

(* infra/ops.rs changes what is published only by the steps the            *)
(* publication itself has: every behaviour with exports, hand-edited       *)
(* files, refused, interrupted and completed restores is, without the      *)
(* bookkeeping, a behaviour of SnapshotPublish.                            *)
THEOREM BackupKeepsPublication == BackupSpec => KeepsPublication
  <1>1. BackupInit => Init
    BY DEF BackupInit
  <1> QED
    BY <1>1, BackupStep, PTL DEF BackupSpec, KeepsPublication

(* Hence no committed edit is lost, and no torn file is restored, while    *)
(* backups run beside the administrative handlers.                         *)
THEOREM BackupLosesNoEdit == BackupSpec => [](NoLostEdit /\ NoTornImport)
  <1>1. KeepsPublication => Spec
    BY DEF KeepsPublication, Spec
  <1> QED
    BY <1>1, BackupKeepsPublication, NoEditIsLost, ImportsAreWhole, PTL

----------------------------------------------------------------------------
(* The books.                                                              *)

Run == [operation : {"control_plane_export", "restore"},
        status : {"running", "succeeded", "failed"}]

Task == [run : Nat, replace : BOOLEAN, ciphertext : {"none", "text", "value"},
         committed : BOOLEAN]

(* The inductive invariant of the books: a handler works on a restore of   *)
(* its own that has its row, still marked running, and that replaced the   *)
(* tables exactly when the handler knows; the export being made, if any,   *)
(* is an export.                                                           *)
BooksInv ==
    /\ BooksTellTheTruth
    /\ runs \in Seq(Run)
    /\ task \in [Handlers -> Task]
    /\ replaced \subseteq DOMAIN runs
    /\ dump # 0 => dump \in DOMAIN runs /\ runs[dump].operation = "control_plane_export"
    /\ \A h \in Handlers :
         /\ task[h].run = 0 => task[h] = Idle
         /\ task[h].run # 0 =>
              /\ task[h].run \in DOMAIN runs
              /\ runs[task[h].run] = [operation |-> "restore", status |-> "running"]
              /\ task[h].committed <=> task[h].run \in replaced
              /\ \A g \in Handlers : task[g].run = task[h].run => g = h

(* An idle handler's task is a task. *)
LEMMA IdleType == Idle \in Task /\ Idle.run = 0 /\ Idle.committed = FALSE
  BY DEF Idle, Task, Sanitized

(* Appending a row to backup_runs changes no other. *)
LEMMA NewRunFacts ==
  ASSUME NEW op \in {"control_plane_export", "restore"}, runs \in Seq(Run)
  PROVE  /\ NewRun(op) \in Seq(Run)
         /\ DOMAIN NewRun(op) = (DOMAIN runs) \cup {Len(runs) + 1}
         /\ Len(runs) + 1 \notin DOMAIN runs /\ Len(runs) + 1 \in Nat \ {0}
         /\ \A i \in DOMAIN runs : NewRun(op)[i] = runs[i] /\ i # 0
         /\ NewRun(op)[Len(runs) + 1] = [operation |-> op, status |-> "running"]
  BY DEF NewRun, Run

(* Marking a row changes the status of that row and nothing else. *)
LEMMA MarkedFacts ==
  ASSUME NEW r \in DOMAIN runs, NEW status \in {"succeeded", "failed"}, runs \in Seq(Run),
         Marked(r, status)
  PROVE  /\ runs' \in Seq(Run)
         /\ DOMAIN runs' = DOMAIN runs
         /\ \A i \in DOMAIN runs : i # r => runs'[i] = runs[i]
         /\ runs'[r].operation = runs[r].operation /\ runs'[r].status = status
  <1>1. r \in 1..Len(runs) /\ runs[r] \in Run
    OBVIOUS
  <1> DEFINE row == [runs[r] EXCEPT !.status = status]
  <1>2. row \in Run /\ row.operation = runs[r].operation /\ row.status = status
    BY <1>1 DEF Run
  <1>3. runs' = [runs EXCEPT ![r] = row]
    BY DEF Marked
  <1> HIDE DEF row
  <1>4. runs' \in Seq(Run) /\ DOMAIN runs' = DOMAIN runs /\ runs'[r] = row
    BY <1>1, <1>2, <1>3
  <1> QED
    BY <1>2, <1>3, <1>4

(* Steps that leave the books alone, but for handlers that stop working on *)
(* their restore and an export that is given up, keep the invariant.       *)
LEMMA BooksForget ==
  ASSUME BooksInv, UNCHANGED <<runs, started, replaced>>,
         task' \in [Handlers -> Task],
         \A h \in Handlers : task'[h] = task[h] \/ task'[h] = Idle,
         dump' = dump \/ dump' = 0
  PROVE  BooksInv'
  BY IdleType DEF BooksInv, BooksTellTheTruth

(* Every step keeps the books true. *)
LEMMA BooksStep == ASSUME BooksInv, [BackupNext]_backupVars PROVE BooksInv'
  <1> USE IdleType
  <1>1. ASSUME NEW h \in Handlers, Write(h) \/ FailWrite(h) \/ Serve(h) PROVE BooksInv'
    BY <1>1, BooksForget DEF Write, FailWrite, Serve, books, BooksInv
  <1>2. ASSUME NEW h \in Handlers, Abandon(h) PROVE BooksInv'
    BY <1>2, BooksForget DEF Abandon, BooksInv
  <1>3. ASSUME NEW h \in Handlers, NEW request \in Request, StartRestore(h, request)
        PROVE  BooksInv'
    <2> DEFINE n == Len(runs) + 1
               t == [run |-> n, replace |-> request.replace,
                     ciphertext |-> request.ciphertext, committed |-> FALSE]
    <2>1. /\ runs' = NewRun("restore") /\ task' = [task EXCEPT ![h] = t]
          /\ UNCHANGED <<started, dump, replaced>>
      BY <1>3 DEF StartRestore
    <2>2. runs \in Seq(Run) /\ task \in [Handlers -> Task]
      BY DEF BooksInv
    <2>3. /\ runs' \in Seq(Run) /\ DOMAIN runs' = (DOMAIN runs) \cup {n}
          /\ n \notin DOMAIN runs /\ n # 0 /\ n \in Nat
          /\ \A i \in DOMAIN runs : runs'[i] = runs[i] /\ i # 0
          /\ runs'[n] = [operation |-> "restore", status |-> "running"]
      BY <2>1, <2>2, NewRunFacts
    <2>4. t \in Task
      BY <2>3 DEF Task, Request, Sanitized
    <2>5. n \notin replaced
      BY <2>3 DEF BooksInv
    <2>6. BooksTellTheTruth'
      BY <2>1, <2>3, <2>5 DEF BooksInv, BooksTellTheTruth
    <2>7. task' \in [Handlers -> Task] /\ task'[h] = t
          /\ \A g \in Handlers : g # h => task'[g] = task[g] /\ task[g].run # n
      BY <2>1, <2>2, <2>3, <2>4 DEF BooksInv
    <2> QED
      BY <2>1, <2>3, <2>5, <2>6, <2>7 DEF BooksInv
  <1>4. ASSUME NEW h \in Handlers, RefuseRestore(h) PROVE BooksInv'
    <2> DEFINE r == task[h].run
    <2>1. /\ r # 0 /\ ~task[h].committed
          /\ task' = [task EXCEPT ![h] = Idle]
          /\ UNCHANGED <<started, dump, replaced>>
          /\ MarkedFailed(r)
      BY <1>4 DEF RefuseRestore
    <2>2. /\ runs \in Seq(Run) /\ task \in [Handlers -> Task] /\ r \in DOMAIN runs
          /\ r \notin replaced /\ runs[r].operation = "restore"
      BY <2>1 DEF BooksInv
    <2>3. CASE UNCHANGED runs
      BY <2>1, <2>2, <2>3, BooksForget
    <2>4. CASE Marked(r, "failed")
      <3>1. /\ runs' \in Seq(Run) /\ DOMAIN runs' = DOMAIN runs
            /\ \A i \in DOMAIN runs : i # r => runs'[i] = runs[i]
            /\ runs'[r].operation = "restore" /\ runs'[r].status = "failed"
        BY <2>2, <2>4, MarkedFacts
      <3>2. BooksTellTheTruth'
        BY <2>1, <2>2, <3>1 DEF BooksInv, BooksTellTheTruth
      <3>3. task'[h] = Idle /\ task' \in [Handlers -> Task]
            /\ \A g \in Handlers : g # h => task'[g] = task[g] /\ task[g].run # r
        BY <2>1, <2>2 DEF BooksInv
      <3>4. dump # 0 => dump # r
        BY <2>2 DEF BooksInv
      <3> QED
        BY <2>1, <3>1, <3>2, <3>3, <3>4 DEF BooksInv
    <2> QED
      BY <2>1, <2>3, <2>4 DEF MarkedFailed
  <1>5. ASSUME NEW h \in Handlers, CommitRestore(h) PROVE BooksInv'
    <2> DEFINE r == task[h].run
    <2>1. /\ r # 0
          /\ task' = [task EXCEPT ![h].committed = TRUE]
          /\ started' = started \cup {r} /\ replaced' = replaced \cup {r}
          /\ UNCHANGED <<runs, dump>>
      BY <1>5 DEF CommitRestore
    <2>2. /\ task \in [Handlers -> Task] /\ r \in DOMAIN runs
          /\ runs[r] = [operation |-> "restore", status |-> "running"]
      BY <2>1 DEF BooksInv
    <2>3. BooksTellTheTruth'
      BY <2>1, <2>2 DEF BooksInv, BooksTellTheTruth
    <2>4. /\ task' \in [Handlers -> Task]
          /\ task'[h].run = r /\ task'[h].committed
          /\ \A g \in Handlers : g # h => task'[g] = task[g] /\ task[g].run # r
      BY <2>1, <2>2 DEF BooksInv, Task
    <2> QED
      BY <2>1, <2>2, <2>3, <2>4 DEF BooksInv
  <1>6. ASSUME NEW h \in Handlers, FinishRestore(h) PROVE BooksInv'
    <2> DEFINE r == task[h].run
    <2>1. /\ task[h].committed /\ Marked(r, "succeeded")
          /\ task' = [task EXCEPT ![h] = Idle]
          /\ UNCHANGED <<started, dump, replaced>>
      BY <1>6 DEF FinishRestore
    <2>2. /\ runs \in Seq(Run) /\ task \in [Handlers -> Task] /\ r # 0 /\ r \in DOMAIN runs
          /\ r \in replaced /\ runs[r].operation = "restore"
      BY <2>1 DEF BooksInv
    <2>3. /\ runs' \in Seq(Run) /\ DOMAIN runs' = DOMAIN runs
          /\ \A i \in DOMAIN runs : i # r => runs'[i] = runs[i]
          /\ runs'[r].operation = "restore" /\ runs'[r].status = "succeeded"
      BY <2>1, <2>2, MarkedFacts
    <2>4. BooksTellTheTruth'
      BY <2>1, <2>2, <2>3 DEF BooksInv, BooksTellTheTruth
    <2>5. task'[h] = Idle /\ task' \in [Handlers -> Task]
          /\ \A g \in Handlers : g # h => task'[g] = task[g] /\ task[g].run # r
      BY <2>1, <2>2 DEF BooksInv
    <2>6. dump # 0 => dump # r
      BY <2>2 DEF BooksInv
    <2> QED
      BY <2>1, <2>3, <2>4, <2>5, <2>6 DEF BooksInv
  <1>7. CASE StartExport
    <2> DEFINE n == Len(runs) + 1
    <2>1. /\ runs' = NewRun("control_plane_export") /\ dump' = n
          /\ UNCHANGED <<started, task, replaced>>
      BY <1>7 DEF StartExport
    <2>2. /\ runs' \in Seq(Run) /\ DOMAIN runs' = (DOMAIN runs) \cup {n}
          /\ \A i \in DOMAIN runs : runs'[i] = runs[i]
          /\ runs'[n] = [operation |-> "control_plane_export", status |-> "running"]
      BY <2>1, NewRunFacts DEF BooksInv
    <2>3. BooksTellTheTruth'
      BY <2>1, <2>2 DEF BooksInv, BooksTellTheTruth
    <2> QED
      BY <2>1, <2>2, <2>3 DEF BooksInv
  <1>8. CASE FinishExport \/ FailExport
    <2>1. /\ dump # 0 /\ dump' = 0 /\ UNCHANGED <<started, task, replaced>>
          /\ Marked(dump, "succeeded") \/ Marked(dump, "failed") \/ UNCHANGED runs
      BY <1>8 DEF FinishExport, FailExport, MarkedFailed
    <2>2. /\ runs \in Seq(Run) /\ dump \in DOMAIN runs
          /\ runs[dump].operation = "control_plane_export"
      BY <2>1 DEF BooksInv
    <2>3. CASE UNCHANGED runs
      BY <2>1, <2>3, BooksForget DEF BooksInv
    <2>4. CASE Marked(dump, "succeeded") \/ Marked(dump, "failed")
      <3>1. /\ runs' \in Seq(Run) /\ DOMAIN runs' = DOMAIN runs
            /\ \A i \in DOMAIN runs : i # dump => runs'[i] = runs[i]
            /\ runs'[dump].operation = "control_plane_export"
        BY <2>2, <2>4, MarkedFacts
      <3>2. BooksTellTheTruth'
        BY <2>1, <3>1 DEF BooksInv, BooksTellTheTruth
      <3>3. \A h \in Handlers : task[h].run # 0 => task[h].run # dump
        BY <2>2 DEF BooksInv
      <3> QED
        BY <2>1, <3>1, <3>2, <3>3 DEF BooksInv
    <2> QED
      BY <2>1, <2>3, <2>4
  <1>9. CASE WriteCatalog \/ DumpTables
    BY <1>9, BooksForget DEF WriteCatalog, DumpTables, books, BooksInv
  <1>10. CASE Reboot \/ RebootWithConfig
    BY <1>10, BooksForget DEF Reboot, RebootWithConfig, Forget, BooksInv
  <1>11. CASE RebootElsewhere
    <2>1. /\ runs' = <<>> /\ started' = {} /\ replaced' = {} /\ dump' = 0
          /\ task' = [h \in Handlers |-> Idle]
      BY <1>11 DEF RebootElsewhere, Forget
    <2>2. runs' \in Seq(Run) /\ DOMAIN runs' = {}
      BY <2>1
    <2> QED
      BY <2>1, <2>2 DEF BooksInv, BooksTellTheTruth
  <1>12. CASE UNCHANGED backupVars
    BY <1>12, BooksForget DEF backupVars, books, BooksInv
  <1> QED
    BY <1>1, <1>2, <1>3, <1>4, <1>5, <1>6, <1>7, <1>8, <1>9, <1>10, <1>11, <1>12
    DEF BackupNext

(* Whatever fails, is dropped or crashes between the row of a restore, its *)
(* transaction, its mark and its publication, backup_runs and audit_logs   *)
(* never call a restore failed that replaced the tables, or succeeded that *)
(* did not.                                                                *)
THEOREM BooksAreTrue == BackupSpec => []BooksTellTheTruth
  <1>1. BackupInit => BooksInv
    <2> SUFFICES ASSUME BackupInit PROVE BooksInv
      OBVIOUS
    <2>1. /\ runs = <<>> /\ started = {} /\ replaced = {} /\ dump = 0
          /\ task = [h \in Handlers |-> Idle]
      BY DEF BackupInit
    <2>2. runs \in Seq(Run) /\ DOMAIN runs = {}
      BY <2>1
    <2> QED
      BY <2>1, <2>2, IdleType DEF BooksInv, BooksTellTheTruth
  <1>2. BooksInv => BooksTellTheTruth
    BY DEF BooksInv
  <1> QED
    BY <1>1, <1>2, BooksStep, PTL DEF BackupSpec

----------------------------------------------------------------------------
(* Credentials.                                                            *)

(* Sealed credentials belong to edits made since the last restore. *)
CredentialsInv ==
    /\ edits \in Nat
    /\ importedAt \in Nat /\ importedAt <= edits
    /\ sealed \subseteq Nat
    /\ \A id \in sealed : importedAt < id /\ id <= edits

(* Every step keeps it: only an edit seals, only a restore moves the mark. *)
LEMMA CredentialsStep ==
  ASSUME CredentialsInv, [BackupNext]_backupVars PROVE CredentialsInv'
  <1> USE DEF CredentialsInv
  <1>1. ASSUME NEW h \in Handlers, Write(h) PROVE CredentialsInv'
    <2>1. /\ edits' = edits + 1 /\ importedAt' = importedAt
          /\ sealed' \subseteq sealed \cup {edits + 1}
      BY <1>1 DEF Write, Commit, books
    <2> QED
      BY <2>1
  <1>2. CASE WriteCatalog
    <2>1. edits' = edits + 1 /\ importedAt' = importedAt /\ sealed' = sealed
      BY <1>2 DEF WriteCatalog, CatalogWrite, books
    <2> QED
      BY <2>1
  <1>3. CASE RebootWithConfig
    <2>1. edits' = edits + 1 /\ importedAt' = importedAt /\ sealed' = {}
      BY <1>3 DEF RebootWithConfig, Bootstrap
    <2> QED
      BY <2>1
  <1>4. ASSUME NEW h \in Handlers, CommitRestore(h) PROVE CredentialsInv'
    <2>1. edits' = edits /\ importedAt' = edits /\ sealed' = {}
      BY <1>4 DEF CommitRestore, Import, RestoredCredentials
    <2> QED
      BY <2>1
  <1>5. CASE RebootElsewhere
    <2>1. edits' = edits /\ importedAt' = 0 /\ sealed' = {}
      BY <1>5 DEF RebootElsewhere, NewDatabase
    <2> QED
      BY <2>1
  <1>6. ASSUME UNCHANGED <<edits, importedAt, sealed>> PROVE CredentialsInv'
    BY <1>6
  <1>7. ASSUME NEW h \in Handlers, FailWrite(h) \/ Serve(h) \/ Abandon(h)
        PROVE  UNCHANGED <<edits, importedAt, sealed>>
    BY <1>7 DEF FailWrite, Serve, Abandon, books, Fail, Begin, Load, Publish, Drop
  <1>8. ASSUME NEW h \in Handlers, NEW request \in Request, StartRestore(h, request)
        PROVE  UNCHANGED <<edits, importedAt, sealed>>
    BY <1>8 DEF StartRestore, vars
  <1>9. ASSUME NEW h \in Handlers, RefuseRestore(h) \/ FinishRestore(h)
        PROVE  UNCHANGED <<edits, importedAt, sealed>>
    BY <1>9 DEF RefuseRestore, FinishRestore, vars
  <1>10. ASSUME StartExport \/ DumpTables \/ FinishExport \/ FailExport \/ Reboot
         PROVE  UNCHANGED <<edits, importedAt, sealed>>
    BY <1>10 DEF StartExport, DumpTables, FinishExport, FailExport, Reboot, books, vars,
                 ExportSnapshot, ExportRows, Restart
  <1>11. ASSUME UNCHANGED backupVars PROVE UNCHANGED <<edits, importedAt, sealed>>
    BY <1>11 DEF backupVars, vars, books
  <1> QED
    BY <1>1, <1>2, <1>3, <1>4, <1>5, <1>6, <1>7, <1>8, <1>9, <1>10, <1>11 DEF BackupNext

(* restore_accounts never stores a ciphertext from a file: every sealed    *)
(* credential in the database was entered since its last restore.          *)
THEOREM NoCiphertextFromAFile == BackupSpec => []CiphertextsAreOwn
  <1>1. BackupInit => CredentialsInv
    BY DEF BackupInit, Init, CredentialsInv
  <1>2. CredentialsInv => CiphertextsAreOwn
    BY DEF CredentialsInv, CiphertextsAreOwn
  <1> QED
    BY <1>1, <1>2, CredentialsStep, PTL DEF BackupSpec

----------------------------------------------------------------------------
(* The sequence of binding ids.                                            *)

(* A set of numbers with a bound has a largest one. *)
LEMMA LargestExists ==
  ASSUME NEW n \in Nat, NEW T \in SUBSET (0..n), T # {}
  PROVE  \E x \in T : \A y \in T : y <= x
  <1> DEFINE U == {n - x : x \in T}
  <1>1. U \in SUBSET Nat /\ U # {}
    <2>1. \A x \in T : n - x \in Nat
      OBVIOUS
    <2> QED
      BY <2>1
  <1> HIDE DEF U
  <1>2. PICK u \in U : \A w \in U : ~(<<w, u>> \in OpToRel(<, Nat))
    BY <1>1, NatLessThanWellFounded, WFMin, Zenon
  <1>3. \A w \in U : ~(w < u)
    <2> SUFFICES ASSUME NEW w \in U, w < u PROVE FALSE
      OBVIOUS
    <2>1. <<w, u>> \in {ss \in Nat \X Nat : ss[1] < ss[2]}
      BY <1>1
    <2> QED
      BY <1>2, <2>1, Zenon DEF OpToRel
  <1>4. PICK x \in T : u = n - x
    BY DEF U
  <1>5. \A y \in T : ~(n - y < n - x)
    BY <1>3, <1>4 DEF U
  <1> QED
    BY <1>5

(* The inductive invariant of the ids: every edit ever made has its entry  *)
(* in serial, and the entries are bounded, so that a restore finds the     *)
(* largest one.                                                            *)
SerialInv ==
    /\ seq \in Nat
    /\ serial \in Seq(Nat) /\ Len(serial) = edits
    /\ \E bound \in Nat : \A i \in 1..edits : serial[i] <= bound
    /\ \A e \in UNION contents : e.id \in 1..edits
    /\ NextIdIsFree

(* What Append does to the entries. *)
LEMMA SerialAppend ==
  ASSUME NEW s \in Seq(Nat), NEW n \in Nat
  PROVE  /\ Append(s, n) \in Seq(Nat) /\ Len(Append(s, n)) = Len(s) + 1
         /\ \A i \in 1..Len(s) : Append(s, n)[i] = s[i]
         /\ Append(s, n)[Len(s) + 1] = n
  OBVIOUS

(* An edit with a number of its own: the ids of older edits stay, and the  *)
(* bound grows if it has to.                                               *)
LEMMA SerialGrows ==
  ASSUME SerialInv, edits \in Nat, edits' = edits + 1, NEW n \in Nat,
         serial' = Append(serial, n), seq' \in Nat,
         NEW r \in Nat, \A e \in UNION contents' : e \in UNION contents \/ e = NewEdit(r)
  PROVE  /\ serial' \in Seq(Nat) /\ Len(serial') = edits'
         /\ \E bound \in Nat : \A i \in 1..edits' : serial'[i] <= bound
         /\ \A e \in UNION contents' : e.id \in 1..edits'
         /\ \A i \in 1..edits : serial'[i] = serial[i]
         /\ serial'[edits + 1] = n
  <1>1. serial \in Seq(Nat) /\ Len(serial) = edits
    BY DEF SerialInv
  <1>2. /\ serial' \in Seq(Nat) /\ Len(serial') = edits + 1
        /\ \A i \in 1..edits : serial'[i] = serial[i]
        /\ serial'[edits + 1] = n
    BY <1>1, SerialAppend
  <1>3. PICK bound \in Nat : \A i \in 1..edits : serial[i] <= bound
    BY DEF SerialInv
  <1>4. \A i \in 1..edits : serial[i] \in Nat
    BY <1>1
  <1>5. bound + n \in Nat /\ \A i \in 1..(edits + 1) : serial'[i] <= bound + n
    BY <1>2, <1>3, <1>4
  <1>6. NewEdit(r).id = edits + 1
    BY DEF NewEdit
  <1>7. \A e \in UNION contents' : e.id \in 1..(edits + 1)
    BY <1>6 DEF SerialInv
  <1> QED
    BY <1>2, <1>5, <1>7

(* reset_sequences leaves the sequence at or beyond every id of the file. *)
LEMMA ResetIsAhead ==
  ASSUME SerialInv, edits \in Nat, export.rows \subseteq UNION contents
  PROVE  ResetSequence \in Nat /\ \A id \in Serials(export.rows) : id <= ResetSequence
  <1> DEFINE ids == Serials(export.rows)
  <1>1. PICK bound \in Nat : \A i \in 1..edits : serial[i] <= bound
    BY DEF SerialInv
  <1>2. ids \in SUBSET (0..bound)
    <2> SUFFICES ASSUME NEW e \in Mutations(export.rows) PROVE serial[e.id] \in 0..bound
      BY DEF Serials
    <2>1. e.id \in 1..edits
      BY DEF Mutations, SerialInv
    <2>2. serial[e.id] \in Nat
      BY <2>1 DEF SerialInv
    <2> QED
      BY <1>1, <2>1, <2>2
  <1> HIDE DEF ids
  <1>3. CASE ids = {}
    BY <1>3 DEF ResetSequence, ids
  <1>4. CASE ids # {}
    <2>1. \E x \in ids : \A y \in ids : y <= x
      BY <1>1, <1>2, <1>4, LargestExists
    <2>2. Max(ids) \in ids /\ \A y \in ids : Max(ids) >= y
      <3>1. \E x \in ids : \A y \in ids : x >= y
        BY <1>2, <2>1
      <3> QED
        BY <3>1 DEF Max
    <2>3. ResetSequence = Max(ids)
      BY <1>4 DEF ResetSequence, ids
    <2> QED
      BY <1>2, <2>2, <2>3 DEF ids
  <1> QED
    BY <1>3, <1>4

(* The rows of the file, torn or not, were committed. *)
ExportedWasCommitted == export.rows \subseteq UNION contents

LEMMA ExportedStep ==
  ASSUME Provenance, ExportedWasCommitted, [Next]_vars PROVE ExportedWasCommitted'
  <1>1. contents \subseteq contents' /\ UNION contents \subseteq UNION contents'
    <2>1. contents \subseteq contents'
      BY DEF Next, HandlerStep, vars, Begin, Fail, Commit, Load, Publish, Drop, Import,
             CatalogWrite, ExportSnapshot, ExportRows, Restart, NewDatabase, Bootstrap
    <2> QED
      BY <2>1
  <1>2. CASE ExportRows
    <2>1. export.content \in contents /\ db.content \in contents
      BY <1>2 DEF Provenance, NoTornImport, ExportRows
    <2>2. PICK rows \in SUBSET (export.content \cup db.content) :
            export' = [export EXCEPT !.rows = rows, !.stage = "done"]
      BY <1>2 DEF ExportRows
    <2>3. export'.rows = rows
      BY <2>2 DEF Provenance, TypeOK, Export
    <2> QED
      BY <1>1, <2>1, <2>3 DEF ExportedWasCommitted
  <1>3. CASE export' = export \/ export'.rows = {}
    BY <1>1, <1>3 DEF ExportedWasCommitted
  <1> QED
    BY <1>2, <1>3 DEF Next, HandlerStep, vars, Begin, Fail, Commit, Load, Publish, Drop, Import,
       CatalogWrite, ExportSnapshot, Restart, NewDatabase, Bootstrap, Reborn, NoExport

(* A write: the new binding has the next number, the others stay below. *)
LEMMA WriteKeepsSerials ==
  ASSUME Provenance, SerialInv, NEW r \in Nat, NEW n \in Nat, edits' = edits + 1,
         serial' = Append(serial, n), n <= seq', seq <= seq', seq' \in Nat,
         db'.content \subseteq db.content \cup {NewEdit(r)},
         contents' = contents \cup {db'.content},
         rolledBack' = rolledBack
  PROVE  SerialInv'
  <1>1. edits \in Nat /\ seq \in Nat
    BY DEF Provenance, TypeOK, SerialInv
  <1>2. db.content \in contents
    BY DEF Provenance, NoTornImport
  <1>3. \A e \in UNION contents' : e \in UNION contents \/ e = NewEdit(r)
    BY <1>2
  <1>4. /\ serial' \in Seq(Nat) /\ Len(serial') = edits'
        /\ \E bound \in Nat : \A i \in 1..edits' : serial'[i] <= bound
        /\ \A e \in UNION contents' : e.id \in 1..edits'
        /\ \A i \in 1..edits : serial'[i] = serial[i]
        /\ serial'[edits + 1] = n
    BY <1>1, <1>3, SerialGrows
  <1>5. ASSUME ~rolledBack', NEW e \in Mutations(db'.content) PROVE serial'[e.id] <= seq'
    <2>1. CASE e = NewEdit(r)
      BY <1>4, <2>1 DEF NewEdit
    <2>2. CASE e \in db.content
      <3>1. e \in Mutations(db.content) /\ e.id \in 1..edits
        BY <1>2, <2>2, <1>5 DEF Mutations, SerialInv
      <3>2. serial[e.id] <= seq
        BY <1>5, <3>1 DEF SerialInv, NextIdIsFree, Serials
      <3>3. serial[e.id] \in Nat
        BY <3>1 DEF SerialInv
      <3> QED
        BY <1>1, <1>4, <3>1, <3>2, <3>3
    <2> QED
      BY <1>5, <2>1, <2>2 DEF Mutations
  <1> QED
    BY <1>4, <1>5 DEF SerialInv, NextIdIsFree, Serials

(* A step that inserts nothing and does not take the sequence back. *)
LEMMA QuietKeepsSerials ==
  ASSUME Provenance, SerialInv, UNCHANGED <<edits, serial, contents>>,
         seq <= seq', seq' \in Nat, rolledBack' \/ rolledBack' = rolledBack,
         db'.content = db.content \/ db'.content = {}
  PROVE  SerialInv'
  <1>1. NextIdIsFree'
    <2> SUFFICES ASSUME ~rolledBack', NEW e \in Mutations(db'.content)
                 PROVE  serial'[e.id] <= seq'
      BY DEF NextIdIsFree, Serials
    <2>1. e \in Mutations(db.content)
      BY DEF Mutations
    <2>2. db.content \in contents
      BY DEF Provenance, NoTornImport
    <2>3. serial[e.id] <= seq
      BY <2>1 DEF SerialInv, NextIdIsFree, Serials
    <2>4. e.id \in 1..edits
      BY <2>1, <2>2 DEF Mutations, SerialInv
    <2>5. serial[e.id] \in Nat /\ seq \in Nat
      BY <2>4 DEF SerialInv
    <2> QED
      BY <2>3, <2>5
  <1> QED
    BY <1>1 DEF SerialInv

(* Every step keeps the sequence ahead of the ids in the database, but for *)
(* the restore that sets it back and is undone.                            *)
LEMMA SerialStep ==
  ASSUME Provenance, ExportedWasCommitted, SerialInv, [BackupNext]_backupVars
  PROVE  SerialInv'
  <1>0. /\ edits \in Nat /\ seq \in Nat /\ db.revision + 1 \in Nat
        /\ db.content \in contents /\ seq <= seq /\ seq <= seq + 1 /\ seq + 1 \in Nat
    BY DEF Provenance, TypeOK, Database, NoTornImport, SerialInv
  <1>1. ASSUME NEW h \in Handlers, Write(h) PROVE SerialInv'
    <2>1. /\ edits' = edits + 1 /\ serial' = Append(serial, seq + 1) /\ seq' = seq + 1
          /\ db'.content = db.content \cup {NewEdit(db.revision + 1)}
          /\ contents' = contents \cup {db'.content} /\ rolledBack' = rolledBack
      BY <1>1 DEF Write, Commit, books
    <2> QED
      BY <1>0, <2>1, WriteKeepsSerials
  <1>2. CASE WriteCatalog
    <2>1. db.content \subseteq Edit /\ db \in Database
      BY DEF Provenance, TypeOK, Database
    <2>2. /\ edits' = edits + 1 /\ serial' = Append(serial, 0) /\ seq' = seq
          /\ db'.content = db.content \cup {NewEdit(0)}
          /\ contents' = contents \cup {db'.content} /\ rolledBack' = rolledBack
      BY <1>2, <2>1 DEF WriteCatalog, CatalogWrite, books, Database
    <2>3. 0 <= seq /\ 0 \in Nat
      BY <1>0
    <2> QED
      BY <1>0, <2>2, <2>3, WriteKeepsSerials
  <1>3. CASE RebootWithConfig
    <2>1. /\ edits' = edits + 1 /\ serial' = Append(serial, seq + 1) /\ seq' = seq + 1
          /\ db'.content = {NewEdit(db.revision + 1)}
          /\ contents' = contents \cup {db'.content} /\ rolledBack' = rolledBack
      BY <1>3 DEF RebootWithConfig, Bootstrap
    <2> QED
      BY <1>0, <2>1, WriteKeepsSerials
  <1>4. ASSUME NEW h \in Handlers, CommitRestore(h) PROVE SerialInv'
    <2>1. /\ UNCHANGED <<edits, serial, contents, rolledBack>>
          /\ db'.content = export.rows /\ export.rows = export.content
          /\ export.stage = "done" /\ seq' = ResetSequence
      BY <1>4 DEF CommitRestore, Import, Restored, Verified
    <2>2. export.rows \in contents
      BY <2>1 DEF Provenance
    <2>3. seq' \in Nat /\ \A id \in Serials(export.rows) : id <= seq'
      BY <1>0, <2>1, <2>2, ResetIsAhead
    <2>4. \A e \in Mutations(db'.content) : serial'[e.id] <= seq'
      BY <2>1, <2>3 DEF Serials
    <2> QED
      BY <2>1, <2>3, <2>4 DEF SerialInv, NextIdIsFree, Serials
  <1>5. ASSUME NEW h \in Handlers, RefuseRestore(h) PROVE SerialInv'
    <2>1. UNCHANGED <<edits, serial, contents, db, export>>
      BY <1>5 DEF RefuseRestore, vars
    <2>2. CASE UNCHANGED <<seq, rolledBack>>
      BY <1>0, <2>1, <2>2, QuietKeepsSerials
    <2>3. CASE seq' = ResetSequence /\ rolledBack'
      <3>1. seq' \in Nat
        BY <1>0, <2>3, ResetIsAhead DEF ExportedWasCommitted
      <3> QED
        BY <2>1, <2>3, <3>1 DEF SerialInv, NextIdIsFree
    <2> QED
      BY <1>5, <2>2, <2>3 DEF RefuseRestore
  <1>6. CASE RebootElsewhere
    <2>1. /\ UNCHANGED <<edits, serial, contents>> /\ db'.content = {} /\ seq' = 0
      BY <1>6 DEF RebootElsewhere, NewDatabase, NoView
    <2> QED
      BY <2>1 DEF SerialInv, NextIdIsFree, Serials, Mutations
  <1>7. ASSUME UNCHANGED <<edits, serial, contents, rolledBack, db>>,
               seq' = seq \/ seq' = seq + 1
        PROVE  SerialInv'
    BY <1>0, <1>7, QuietKeepsSerials
  <1>8. ASSUME NEW h \in Handlers, FailWrite(h) \/ Serve(h) \/ Abandon(h)
        PROVE  SerialInv'
    BY <1>7, <1>8 DEF FailWrite, Serve, Abandon, books, Fail, Begin, Load, Publish, Drop
  <1>9. ASSUME NEW h \in Handlers, NEW request \in Request, StartRestore(h, request)
        PROVE  SerialInv'
    BY <1>7, <1>9 DEF StartRestore, vars
  <1>10. ASSUME NEW h \in Handlers, FinishRestore(h) PROVE SerialInv'
    BY <1>7, <1>10 DEF FinishRestore, vars
  <1>11. CASE StartExport \/ DumpTables \/ FinishExport \/ FailExport \/ Reboot
    BY <1>7, <1>11 DEF StartExport, DumpTables, FinishExport, FailExport, Reboot, books, vars,
                       ExportSnapshot, ExportRows, Restart
  <1>12. CASE UNCHANGED backupVars
    BY <1>7, <1>12 DEF backupVars, vars, books
  <1> QED
    BY <1>1, <1>2, <1>3, <1>4, <1>5, <1>6, <1>8, <1>9, <1>10, <1>11, <1>12 DEF BackupNext

(* reset_sequences leaves no id to collide with: unless a restore was      *)
(* undone after it had set the sequence back, the next binding gets an id  *)
(* that no row of the database has, after a restore into the same database *)
(* or a new one, whatever edits, exports and restarts came before.         *)
THEOREM NextIdStaysFree == BackupSpec => []NextIdIsFree
  <1>1. BackupInit => Provenance /\ ExportedWasCommitted /\ SerialInv
    <2> SUFFICES ASSUME BackupInit PROVE Provenance /\ ExportedWasCommitted /\ SerialInv
      OBVIOUS
    <2>1. Provenance
      BY ProvenanceInit DEF BackupInit
    <2>2. ExportedWasCommitted
      BY DEF BackupInit, Init, NoExport, ExportedWasCommitted
    <2>3. /\ seq = 0 /\ serial = <<>> /\ edits = 0 /\ contents = {{}} /\ db.content = {}
      BY DEF BackupInit, Init, NoView
    <2>4. serial \in Seq(Nat) /\ Len(serial) = 0
      BY <2>3
    <2> QED
      BY <2>1, <2>2, <2>3, <2>4 DEF SerialInv, NextIdIsFree, Serials, Mutations
  <1>2. Provenance /\ ExportedWasCommitted /\ SerialInv /\ [BackupNext]_backupVars
          => (Provenance /\ ExportedWasCommitted /\ SerialInv)'
    BY BackupStep, ProvenanceStep, ExportedStep, SerialStep
  <1>3. SerialInv => NextIdIsFree
    BY DEF SerialInv
  <1> QED
    BY <1>1, <1>2, <1>3, PTL DEF BackupSpec

=============================================================================
