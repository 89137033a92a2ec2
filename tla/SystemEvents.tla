---------------------------- MODULE SystemEvents ----------------------------
(***************************************************************************)
(* System events and the event feed (infra/events.rs, api/events.rs):      *)
(* database incidents, remembered in memory while PostgreSQL is away and   *)
(* written as a pair of failure and recovery rows once it is back, and the *)
(* keyset-paged projection an administrator reads.                         *)
(*                                                                         *)
(* Every database operation ends in observe: a connection error opens an   *)
(* incident of its component, a success closes it.  Closing is not atomic: *)
(* it claims the incident under the mutex, inserts up to two rows without  *)
(* it and settles under it again, while other requests report failures and *)
(* successes of the same component.  The request whose future runs the     *)
(* recovery may be dropped at any await (the client disconnects), and the  *)
(* process may restart, which forgets the incidents.                       *)
(*                                                                         *)
(* Abstractions.  Only connection errors are failures here: others are     *)
(* ignored by is_connection_error.  Any operation and any insert may fail, and *)
(* the row of a failed insert may be there all the same when only its      *)
(* acknowledgement was lost.  Redaction and sanitising of texts are left   *)
(* out, as are the filters of a feed query, which only narrow it.           *)
(***************************************************************************)
EXTENDS Naturals, Sequences, FiniteSets

CONSTANTS
  Components,    \* database-backed components
  EventWriter,   \* the component of the event table itself
  Observers,     \* requests and tasks whose operations are observed
  DomainKinds,   \* facts of the domain tables: audit, health, discovery, requests
  Routine,       \* among them: requests that succeeded, undegraded and without fallback
  Limit,         \* page size of a feed reader
  None,          \* no incident, no cursor, no time
  MaxFailures,   \* bound: operations and inserts that lose their connection
  MaxFacts,      \* bound: rows other than the incidents'
  MaxCancels,    \* bound: recoveries dropped by a disconnect
  MaxRestarts,   \* bound: restarts
  MaxTime        \* bound: the last moment

ASSUME ComponentsAssumption == EventWriter \in Components
ASSUME KindsAssumption == /\ Routine \subseteq DomainKinds
                          /\ DomainKinds \cap {"failed", "recovered", "fact"} = {}
ASSUME LimitAssumption == Limit \in Nat \ {0}
ASSUME BoundsAssumption ==
  {MaxFailures, MaxFacts, MaxCancels, MaxRestarts, MaxTime} \subseteq Nat

\* An entry of database_incidents, and a row of the feed.
Incidents == [at : Nat, persisted : BOOLEAN, recovering : BOOLEAN,
              reopened : Nat \cup {None}, id : Nat]
EventRows == [n : Nat, kind : DomainKinds \cup {"failed", "recovered", "fact"},
              id : Nat \cup {None}, at : Nat]

ASSUME NoneAssumption == None \notin Nat /\ None \notin Incidents /\ None \notin EventRows

VARIABLES
  now,        \* the clock
  incidents,  \* database_incidents: component -> incident
  hasAny,     \* has_database_incidents
  opened,     \* incidents opened so far: the source of their ids
  observers,  \* what each observer is doing
  rows,       \* the rows behind the feed
  reader,     \* a client walking the pages of the feed
  owed,       \* history: components with a failure no recovery has claimed
  budget      \* what is left of the bounds

vars == <<now, incidents, hasAny, opened, observers, rows, reader, owed, budget>>

Idle == [pc |-> "idle"]

NoReader == [on |-> FALSE]

Init == /\ now = 0
        /\ incidents = [c \in Components |-> None]
        /\ hasAny = FALSE
        /\ opened = 0
        /\ observers = [o \in Observers |-> Idle]
        /\ rows = {}
        /\ reader = NoReader
        /\ owed = {}
        /\ budget = [failures |-> MaxFailures, facts |-> MaxFacts,
                     cancels |-> MaxCancels, restarts |-> MaxRestarts]

Spend(what) == /\ budget[what] > 0
               /\ budget' = [budget EXCEPT ![what] = @ - 1]

-----------------------------------------------------------------------------
(* The environment. *)

Tick == /\ now < MaxTime /\ now' = now + 1
        /\ UNCHANGED <<incidents, hasAny, opened, observers, rows, reader, owed, budget>>

Restart == /\ Spend("restarts")
           /\ incidents' = [c \in Components |-> None]
           /\ hasAny' = FALSE
           /\ observers' = [o \in Observers |-> Idle]
           /\ owed' = {}
           /\ UNCHANGED <<now, opened, rows, reader>>

-----------------------------------------------------------------------------
(* Observing an operation's result. *)

\* An operation of component c fails; observe hears of it in a later step.
OperationFails(o, c) ==
  /\ observers[o] = Idle /\ Spend("failures")
  /\ observers' = [observers EXCEPT ![o] = [pc |-> "failed", component |-> c]]
  /\ UNCHANGED <<now, incidents, hasAny, opened, rows, reader, owed>>

\* A success looks at has_database_incidents first, without the mutex.
AfterSuccess(c) == IF hasAny THEN [pc |-> "claim", component |-> c] ELSE Idle

OperationSucceeds(o, c) ==
  /\ observers[o] = Idle
  /\ observers' = [observers EXCEPT ![o] = AfterSuccess(c)]
  /\ UNCHANGED <<now, incidents, hasAny, opened, rows, reader, owed, budget>>

NewDatabaseIncident(t) ==
  [at |-> t, persisted |-> FALSE, recovering |-> FALSE, reopened |-> None,
   id |-> opened + 1]

\* Mutant: a failure during the recovery of an incident is not noted.
RememberedDeaf(c) ==
  IF incidents[c] = None
  THEN [incidents EXCEPT ![c] = NewDatabaseIncident(now)]
  ELSE incidents

\* The first failure opens the incident; one during its recovery is noted.
Remembered(c) ==
  IF incidents[c] = None
  THEN [incidents EXCEPT ![c] = NewDatabaseIncident(now)]
  ELSE [incidents EXCEPT ![c].reopened =
          IF incidents[c].recovering /\ @ = None THEN now ELSE @]

RememberDatabaseFailure(o) ==
  /\ observers[o].pc = "failed"
  /\ LET c == observers[o].component
     IN /\ incidents' = Remembered(c)
        /\ owed' = owed \cup {c}
        /\ opened' = IF incidents[c] = None THEN opened + 1 ELSE opened
  /\ hasAny' = TRUE
  /\ observers' = [observers EXCEPT ![o] = Idle]
  /\ UNCHANGED <<now, rows, reader, budget>>

\* One observer at a time recovers an incident.
Claim(o) ==
  /\ observers[o].pc = "claim"
  /\ LET c == observers[o].component
         i == incidents[c]
     IN \/ /\ i # None => i.recovering
           /\ observers' = [observers EXCEPT ![o] = Idle]
           /\ UNCHANGED <<incidents, owed>>
        \/ /\ i # None /\ ~i.recovering
           /\ incidents' = [incidents EXCEPT ![c].recovering = TRUE, ![c].reopened = None]
           /\ owed' = owed \ {c}
           /\ observers' = [observers EXCEPT ![o] =
                              [pc |-> IF i.persisted THEN "announce" ELSE "backfill",
                               component |-> c, id |-> i.id, at |-> i.at,
                               persisted |-> i.persisted]]
  /\ UNCHANGED <<now, hasAny, opened, rows, reader, budget>>

-----------------------------------------------------------------------------
(* Inserting rows. *)

\* A row of the feed; n is its place in the order of event ids.
Row(kind, id, at) == [n |-> Cardinality(rows) + 1, kind |-> kind, id |-> id, at |-> at]

Inserts(row) == rows' = rows \cup {row} /\ UNCHANGED budget

InsertFails(row) == rows' \in {rows, rows \cup {row}} /\ Spend("failures")

\* Mutant: the recovery goes on when the failure row could not be written.
BackfillAnyway(o) ==
  /\ observers[o].pc = "backfill"
  /\ LET row == Row("failed", observers[o].id, observers[o].at)
     IN Inserts(row) \/ InsertFails(row)
  /\ observers' = [observers EXCEPT ![o].pc = "announce", ![o].persisted = TRUE]
  /\ UNCHANGED <<now, incidents, hasAny, opened, reader, owed>>

\* The failure row, with the time the incident began.
Backfill(o) ==
  /\ observers[o].pc = "backfill"
  /\ LET row == Row("failed", observers[o].id, observers[o].at)
     IN \/ /\ Inserts(row)
           /\ observers' = [observers EXCEPT ![o].pc = "announce", ![o].persisted = TRUE]
        \/ /\ InsertFails(row)
           /\ observers' = [observers EXCEPT ![o].pc = "release"]
  /\ UNCHANGED <<now, incidents, hasAny, opened, reader, owed>>

\* The recovery row.
Announce(o) ==
  /\ observers[o].pc = "announce"
  /\ LET row == Row("recovered", observers[o].id, now)
     IN \/ /\ Inserts(row)
           /\ observers' = [observers EXCEPT ![o].pc = "settle"]
        \/ /\ InsertFails(row)
           /\ observers' = [observers EXCEPT ![o].pc = "release"]
  /\ UNCHANGED <<now, incidents, hasAny, opened, reader, owed>>

Holds(o, c) == incidents[c] # None /\ incidents[c].id = observers[o].id

FlagAfter(remaining) ==
  hasAny /\ \E c \in Components : remaining[c] # None

\* The incident is closed, or reopened when a failure came in meanwhile.
Settle(o) ==
  /\ observers[o].pc = "settle"
  /\ LET c == observers[o].component
         after == [incidents EXCEPT ![c] =
                     IF ~Holds(o, c) THEN @
                     ELSE IF @.reopened # None THEN NewDatabaseIncident(@.reopened)
                     ELSE None]
     IN /\ incidents' = after
        /\ hasAny' = IF Holds(o, c) /\ after[c] = None THEN FlagAfter(after) ELSE hasAny
        /\ opened' = IF after[c] # None /\ Holds(o, c) THEN opened + 1 ELSE opened
  /\ observers' = [observers EXCEPT ![o] = Idle]
  /\ UNCHANGED <<now, rows, reader, owed, budget>>

ReleaseDatabaseRecovery(o) ==
  /\ observers[o].pc = "release"
  /\ LET c == observers[o].component
     IN incidents' = IF ~Holds(o, c) THEN incidents
                     ELSE [incidents EXCEPT ![c].recovering = FALSE,
                             ![c].reopened = None,
                             ![c].persisted = @ \/ observers[o].persisted]
  /\ observers' = [observers EXCEPT ![o] = Idle]
  /\ UNCHANGED <<now, hasAny, opened, rows, reader, owed, budget>>

\* The future that runs the recovery is dropped at an await.
Cancel(o) ==
  /\ observers[o].pc \in {"backfill", "announce", "settle", "release"}
  /\ Spend("cancels")
  /\ observers' = [observers EXCEPT ![o] = Idle]
  /\ UNCHANGED <<now, incidents, hasAny, opened, rows, reader, owed>>

\* record: a row of its own, then the observation of the event writer.
Record(o) ==
  /\ observers[o] = Idle
  /\ budget.facts > 0
  /\ rows' = rows \cup {Row("fact", None, now)}
  /\ budget' = [budget EXCEPT !.facts = @ - 1]
  /\ observers' = [observers EXCEPT ![o] = AfterSuccess(EventWriter)]
  /\ UNCHANGED <<now, incidents, hasAny, opened, reader, owed>>

\* record_during_database_incident: a success proves nothing about the incident.
RecordDuringDatabaseIncident(o) ==
  /\ observers[o] = Idle
  /\ budget.facts > 0
  /\ rows' = rows \cup {Row("fact", None, now)}
  /\ budget' = [budget EXCEPT !.facts = @ - 1]
  /\ UNCHANGED <<now, incidents, hasAny, opened, observers, reader, owed>>

\* The insert of either fails: the event is lost, the event writer has failed.
RecordFails(o) ==
  /\ observers[o] = Idle
  /\ InsertFails(Row("fact", None, now))
  /\ observers' = [observers EXCEPT ![o] = [pc |-> "failed", component |-> EventWriter]]
  /\ UNCHANGED <<now, incidents, hasAny, opened, reader, owed>>

-----------------------------------------------------------------------------
(* The feed. *)

\* A domain table gets a row, stamped before its transaction commits.
DomainFact(kind) ==
  /\ Spend("facts")
  /\ \E t \in 0..now : rows' = rows \cup {Row(kind, None, t)}
  /\ UNCHANGED <<now, incidents, hasAny, opened, observers, reader, owed>>

\* The projection: everything but routine requests.
UnifiedEvents == {r \in rows : r.kind \notin Routine}

Later(r, q) == r.at > q.at \/ (r.at = q.at /\ r.n > q.n)

\* The keyset condition: rows after the cursor in (occurred_at, event_id) DESC.
\* Mutant: the cursor compares the time alone.
BeyondByTime(cursor) == {r \in UnifiedEvents : cursor = None \/ r.at < cursor.at}

Beyond(cursor) == {r \in UnifiedEvents : cursor = None \/ Later(cursor, r)}

\* One page: the newest Limit of them, and whether there is one more.
Page(cursor) ==
  LET found == Beyond(cursor)
      size == IF Cardinality(found) > Limit THEN Limit ELSE Cardinality(found)
  IN [data |-> [i \in 1..size |->
                  CHOOSE r \in found : Cardinality({q \in found : Later(q, r)}) = i - 1],
      hasMore |-> Cardinality(found) > Limit]

StartReading ==
  /\ reader = NoReader
  /\ reader' = [on |-> TRUE, cursor |-> None, seen |-> <<>>, base |-> UnifiedEvents,
              done |-> FALSE]
  /\ UNCHANGED <<now, incidents, hasAny, opened, observers, rows, owed, budget>>

ReadPage ==
  /\ reader.on /\ ~reader.done
  /\ LET page == Page(reader.cursor)
     IN reader' = [reader EXCEPT
                     !.seen = @ \o page.data,
                     !.cursor = IF page.hasMore THEN page.data[Len(page.data)] ELSE None,
                     !.done = ~page.hasMore]
  /\ UNCHANGED <<now, incidents, hasAny, opened, observers, rows, owed, budget>>

-----------------------------------------------------------------------------

Step(o) == \/ RememberDatabaseFailure(o) \/ Claim(o)
           \/ Backfill(o) \/ Announce(o) \/ Settle(o) \/ ReleaseDatabaseRecovery(o)

Next == \/ Tick \/ Restart
        \/ \E o \in Observers : \/ \E c \in Components : OperationFails(o, c) \/ OperationSucceeds(o, c)
                                \/ Step(o) \/ Cancel(o)
                                \/ Record(o) \/ RecordDuringDatabaseIncident(o) \/ RecordFails(o)
        \/ \E k \in DomainKinds : DomainFact(k)
        \/ StartReading \/ ReadPage

Spec == Init /\ [][Next]_vars

-----------------------------------------------------------------------------
(* Properties. *)

\* A failure is never swallowed: a component that failed after the last claim of
\* its incident has an open incident, and open incidents are announced by the
\* flag every success looks at first.
FailuresStayOpen ==
  /\ \A c \in owed : incidents[c] # None
  /\ (\E c \in Components : incidents[c] # None) => hasAny

\* Incident rows come in pairs: a recovery row has a failure row of the same
\* incident that is not younger, however inserts fail, are retried, are lost
\* or are cut off by a disconnect or a restart.
RecoveriesArePaired ==
  \A r \in rows : r.kind = "recovered" =>
    \E q \in rows : q.kind = "failed" /\ q.id = r.id /\ q.at <= r.at

\* A walk through the pages shows no event twice, and when it ends it has shown
\* every event that was there when it began and no routine request, although rows
\* are added meanwhile and backfilled ones carry the time of the failure.
WalksAreComplete ==
  reader.on =>
    /\ \A i, j \in DOMAIN reader.seen : i < j => Later(reader.seen[i], reader.seen[j])
    /\ \A i \in DOMAIN reader.seen : reader.seen[i].kind \notin Routine
    /\ reader.done => reader.base \subseteq {reader.seen[i] : i \in DOMAIN reader.seen}

=============================================================================
