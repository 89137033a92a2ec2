------------------------- MODULE SystemEventsProofs -------------------------
(***************************************************************************)
(* Proofs about database incidents and the event feed, for every set of    *)
(* components, observers and kinds of rows, every page size and every      *)
(* number of failures, disconnects and restarts: a failure is not          *)
(* swallowed by a recovery under way, recovery rows have their failure     *)
(* row, and a walk through the pages is complete.                          *)
(*                                                                         *)
(* The first two rest on the claim: at most one observer works on an       *)
(* incident, the incident says so, and what it knows to be persisted is in *)
(* the table.  The third rests on the order of the feed being total, so    *)
(* that a page holds the elements of the lowest ranks.                     *)
(***************************************************************************)
EXTENDS SystemEvents, FiniteSetTheorems, TLAPS

Listening == [pc : {"failed", "claim"}, component : Components]
Recovery == [pc : {"backfill", "announce", "settle", "release"}, component : Components,
             id : Nat, at : Nat, persisted : BOOLEAN]
Reader == [on : {TRUE}, cursor : EventRows \cup {None}, seen : Seq(EventRows),
           base : SUBSET EventRows, done : BOOLEAN]

\* Every variable keeps its type.
TypeOK ==
  /\ now \in Nat
  /\ incidents \in [Components -> Incidents \cup {None}]
  /\ hasAny \in BOOLEAN
  /\ opened \in Nat
  /\ observers \in [Observers -> {Idle} \cup Listening \cup Recovery]
  /\ rows \subseteq EventRows
  /\ owed \subseteq Components
  /\ reader \in {NoReader} \cup Reader

Recovers(o) == observers[o].pc \in {"backfill", "announce", "settle", "release"}

\* Ids come from the counter and times from the clock.
PastInv ==
  /\ \A c \in Components : incidents[c] # None =>
       /\ incidents[c].id <= opened /\ incidents[c].at <= now
       /\ incidents[c].reopened # None => incidents[c].reopened <= now
  /\ \A o \in Observers : Recovers(o) => observers[o].id <= opened /\ observers[o].at <= now

\* An incident some observer works on says so, and nobody else works on it.
ClaimInv ==
  /\ \A o \in Observers : Recovers(o) /\ Holds(o, observers[o].component) =>
       incidents[observers[o].component].recovering
  /\ \A o, p \in Observers :
       /\ Recovers(o) /\ Recovers(p) /\ observers[o].id = observers[p].id
       /\ observers[o].component = observers[p].component
       => o = p

\* A recovery that nothing has interrupted owes nothing.
OwedInv ==
  /\ FailuresStayOpen
  /\ \A c \in Components :
       incidents[c] # None /\ incidents[c].recovering /\ incidents[c].reopened = None
       => c \notin owed

HasFailure(id) == \E q \in rows : q.kind = "failed" /\ q.id = id /\ q.at <= now

\* What an incident or its observer takes to be persisted is in the table.
PairInv ==
  /\ RecoveriesArePaired
  /\ \A c \in Components : incidents[c] # None /\ incidents[c].persisted =>
       HasFailure(incidents[c].id)
  /\ \A o \in Observers : Recovers(o) =>
       /\ observers[o].persisted => HasFailure(observers[o].id)
       /\ observers[o].pc \in {"announce", "settle"} => observers[o].persisted

\* Event ids are the numbers 1, 2, ... in the order of the insertions.
RowsInv ==
  /\ IsFiniteSet(rows)
  /\ \A r \in rows : r.n <= Cardinality(rows)
  /\ \A r, q \in rows : r.n = q.n => r = q

Seen == {reader.seen[i] : i \in DOMAIN reader.seen}

\* The cursor is the last row shown, the rows shown are in order, and what the
\* reader has still to see lies beyond the cursor.
ReaderInv ==
  reader.on =>
    /\ Seen \subseteq UnifiedEvents /\ reader.base \subseteq UnifiedEvents
    /\ \A i, j \in DOMAIN reader.seen : i < j => Later(reader.seen[i], reader.seen[j])
    /\ ~reader.done =>
         /\ reader.cursor = None => reader.seen = <<>>
         /\ reader.cursor # None =>
              reader.seen # <<>> /\ reader.cursor = reader.seen[Len(reader.seen)]
         /\ \A e \in reader.base \ Seen : e \in Beyond(reader.cursor)
    /\ reader.done => reader.base \subseteq Seen

IInv == TypeOK /\ PastInv /\ ClaimInv /\ OwedInv /\ PairInv /\ RowsInv /\ ReaderInv

-----------------------------------------------------------------------------
(* The order of the feed. *)

LEMMA LaterOrder ==
  /\ \A r, q \in EventRows : Later(r, q) => ~Later(q, r)
  /\ \A r, q, p \in EventRows : Later(r, q) /\ Later(q, p) => Later(r, p)
  /\ \A r, q \in EventRows : r.n # q.n => Later(r, q) \/ Later(q, r)
<1>1. \A r \in EventRows : r.n \in Nat /\ r.at \in Nat
  BY DEF EventRows
<1> QED
  BY <1>1 DEF Later

\* The place of r in the pages of F.
Rank(F, r) == Cardinality({q \in F : Later(q, r)})

\* In a finite set of rows with different event ids the ranks are the numbers
\* from 0 to the size of the set, in the order of the feed.
LEMMA Ranks ==
  ASSUME NEW F \in SUBSET EventRows, IsFiniteSet(F), \A r, q \in F : r.n = q.n => r = q
  PROVE  /\ Cardinality(F) \in Nat
         /\ \A r \in F : Rank(F, r) \in 0..(Cardinality(F) - 1)
         /\ \A r, q \in F : Later(q, r) => Rank(F, q) < Rank(F, r)
         /\ \A i \in 0..(Cardinality(F) - 1) : \E r \in F : Rank(F, r) = i
<1> DEFINE Above(r) == {q \in F : Later(q, r)}
           size == Cardinality(F)
<1>1. size \in Nat
  BY FS_CardinalityType
<1>2. ASSUME NEW r \in F
      PROVE  Rank(F, r) \in 0..(size - 1)
  <2>1. Above(r) \in SUBSET (F \ {r})
    <3>1. r \in EventRows
      OBVIOUS
    <3>2. ~Later(r, r)
      BY <3>1, LaterOrder
    <3> QED
      BY <3>2
  <2>2. IsFiniteSet(F \ {r}) /\ Cardinality(F \ {r}) = size - 1
    BY FS_RemoveElement
  <2> HIDE DEF Above
  <2>3. IsFiniteSet(Above(r)) /\ Cardinality(Above(r)) <= size - 1
    BY <2>1, <2>2, FS_Subset
  <2>4. Cardinality(Above(r)) \in Nat
    BY <2>3, FS_CardinalityType
  <2>5. Rank(F, r) = Cardinality(Above(r))
    BY DEF Rank, Above
  <2> QED
    BY <1>1, <2>3, <2>4, <2>5
<1>3. ASSUME NEW r \in F, NEW q \in F, Later(q, r)
      PROVE  Rank(F, q) < Rank(F, r)
  <2>1. Above(q) \in SUBSET Above(r)
    BY <1>3, LaterOrder
  <2>2. q \in Above(r) /\ q \notin Above(q)
    <3>1. ~Later(q, q)
      BY LaterOrder
    <3> QED
      BY <1>3, <3>1
  <2>3. IsFiniteSet(Above(r))
    BY FS_Subset
  <2> HIDE DEF Above
  <2>4. Cardinality(Above(q)) <= Cardinality(Above(r))
        /\ Cardinality(Above(q)) # Cardinality(Above(r))
    BY <2>1, <2>2, <2>3, FS_Subset
  <2>5. Cardinality(Above(q)) = Rank(F, q) /\ Cardinality(Above(r)) = Rank(F, r)
    BY DEF Rank, Above
  <2>6. Rank(F, q) \in 0..(size - 1) /\ Rank(F, r) \in 0..(size - 1)
    BY <1>2
  <2> QED
    BY <1>1, <2>4, <2>5, <2>6
<1> HIDE DEF Above
<1>4. \A i \in 0..(size - 1) : \E r \in F : Rank(F, r) = i
  <2> DEFINE f == [r \in F |-> Rank(F, r)]
             T == 0..(size - 1)
  <2>1. f \in [F -> T]
    BY <1>1, <1>2
  <2>2. \A r, q \in F : f[r] = f[q] => r = q
    <3> SUFFICES ASSUME NEW r \in F, NEW q \in F, r # q PROVE Rank(F, r) # Rank(F, q)
      OBVIOUS
    <3>1. Later(r, q) \/ Later(q, r)
      BY LaterOrder
    <3>2. Rank(F, q) \in 0..(size - 1) /\ Rank(F, r) \in 0..(size - 1)
      BY <1>2
    <3>3. Rank(F, q) < Rank(F, r) \/ Rank(F, r) < Rank(F, q)
      BY <1>3, <3>1
    <3> QED
      BY <1>1, <3>2, <3>3
  <2>3. f \in Injection(F, T)
    BY <2>1, <2>2 DEF Injection, IsInjective
  <2>4. IsFiniteSet(T) /\ Cardinality(T) = size
    BY <1>1, FS_Interval
  <2> HIDE DEF f, T
  <2>5. f \in Surjection(F, T)
    BY <2>3, <2>4, FS_Injection
  <2> QED
    BY <2>5 DEF Surjection, f, T
<1> QED
  BY <1>1, <1>2, <1>3, <1>4

LEMMA BeyondFacts ==
  ASSUME rows \subseteq EventRows, RowsInv, NEW cursor
  PROVE  /\ Beyond(cursor) \in SUBSET EventRows /\ IsFiniteSet(Beyond(cursor))
         /\ \A r, q \in Beyond(cursor) : r.n = q.n => r = q
<1>1. Beyond(cursor) \in SUBSET rows
  BY DEF Beyond, UnifiedEvents
<1>2. IsFiniteSet(Beyond(cursor))
  BY <1>1, FS_Subset DEF RowsInv
<1> QED
  BY <1>1, <1>2 DEF RowsInv

\* A page holds the first rows beyond the cursor in the order of the feed: when
\* there are more, they all come after the last of it; otherwise it has all.
LEMMA PageFacts ==
  ASSUME rows \subseteq EventRows, RowsInv, NEW cursor
  PROVE  LET data == Page(cursor).data
             more == Page(cursor).hasMore
             shown == {data[i] : i \in DOMAIN data}
         IN /\ data \in Seq(Beyond(cursor)) /\ more \in BOOLEAN
            /\ \A i, j \in DOMAIN data : i < j => Later(data[i], data[j])
            /\ more => /\ Len(data) >= 1
                       /\ \A e \in Beyond(cursor) \ shown : Later(data[Len(data)], e)
            /\ ~more => Beyond(cursor) \subseteq shown
<1> DEFINE F == Beyond(cursor)
           count == Cardinality(F)
           size == IF count > Limit THEN Limit ELSE count
           data == [i \in 1..size |-> CHOOSE r \in F : Rank(F, r) = i - 1]
<1>1. Page(cursor).data = data /\ Page(cursor).hasMore = (count > Limit)
  BY DEF Page, Rank
<1>2. F \in SUBSET EventRows /\ IsFiniteSet(F) /\ \A r, q \in F : r.n = q.n => r = q
  BY BeyondFacts
<1> HIDE DEF F
<1>3. /\ count \in Nat
      /\ \A r \in F : Rank(F, r) \in 0..(count - 1)
      /\ \A r, q \in F : Later(q, r) => Rank(F, q) < Rank(F, r)
      /\ \A i \in 0..(count - 1) : \E r \in F : Rank(F, r) = i
  BY <1>2, Ranks
<1> HIDE DEF count
<1>4. size \in Nat /\ size <= count /\ (count > Limit => size = Limit /\ size >= 1)
      /\ (~(count > Limit) => size = count)
  BY <1>3, LimitAssumption
<1> HIDE DEF size
<1>5. ASSUME NEW i \in 1..size
      PROVE  data[i] \in F /\ Rank(F, data[i]) = i - 1
  <2>1. i - 1 \in 0..(count - 1)
    BY <1>3, <1>4
  <2>2. \E r \in F : Rank(F, r) = i - 1
    BY <1>3, <2>1
  <2>3. data[i] = CHOOSE r \in F : Rank(F, r) = i - 1
    OBVIOUS
  <2> QED
    BY <2>2, <2>3, Zenon
<1>6. data \in Seq(F) /\ Len(data) = size /\ DOMAIN data = 1..size
  <2>1. data \in [1..size -> F]
    BY <1>5
  <2> QED
    BY <1>4, <2>1
<1> HIDE DEF data
<1>7. \A i, j \in 1..size : i < j => Later(data[i], data[j])
  <2> SUFFICES ASSUME NEW i \in 1..size, NEW j \in 1..size, i < j
               PROVE  Later(data[i], data[j])
    OBVIOUS
  <2>1. /\ data[i] \in F /\ data[j] \in F
        /\ Rank(F, data[i]) = i - 1 /\ Rank(F, data[j]) = j - 1
    BY <1>5
  <2>2. data[i] # data[j]
    BY <1>4, <2>1
  <2>3. data[i].n # data[j].n
    BY <1>2, <2>1, <2>2
  <2>4. Later(data[i], data[j]) \/ Later(data[j], data[i])
    BY <1>2, <2>1, <2>3, LaterOrder
  <2>5. ~(Rank(F, data[j]) < Rank(F, data[i]))
    BY <1>4, <2>1
  <2> QED
    BY <1>3, <2>1, <2>4, <2>5
<1>8. \A r, q \in F : Rank(F, r) = Rank(F, q) => r = q
  <2> SUFFICES ASSUME NEW r \in F, NEW q \in F, r # q PROVE Rank(F, r) # Rank(F, q)
    OBVIOUS
  <2>1. Later(r, q) \/ Later(q, r)
    BY <1>2, LaterOrder
  <2>2. Rank(F, q) < Rank(F, r) \/ Rank(F, r) < Rank(F, q)
    BY <1>3, <2>1
  <2>3. Rank(F, q) \in 0..(count - 1) /\ Rank(F, r) \in 0..(count - 1)
    BY <1>3
  <2> QED
    BY <1>3, <2>2, <2>3
<1>9. ASSUME NEW e \in F, Rank(F, e) < size
      PROVE  \E i \in 1..size : data[i] = e
  <2>1. Rank(F, e) \in Nat
    BY <1>3
  <2> DEFINE i == Rank(F, e) + 1
  <2>2. i \in 1..size /\ i - 1 = Rank(F, e)
    BY <1>4, <1>9, <2>1
  <2> HIDE DEF i
  <2>3. data[i] \in F /\ Rank(F, data[i]) = Rank(F, e)
    BY <1>5, <2>2
  <2> QED
    BY <1>8, <2>2, <2>3
<1>10. ASSUME count > Limit, NEW e \in F, ~(Rank(F, e) < size)
       PROVE  Later(data[size], e)
  <2>1. size \in 1..size /\ size \in Nat
    BY <1>4, <1>10
  <2>2. data[size] \in F /\ Rank(F, data[size]) = size - 1
    BY <1>5, <2>1
  <2>3. Rank(F, e) \in 0..(count - 1)
    BY <1>3
  <2>4. ~(Rank(F, e) < Rank(F, data[size])) /\ Rank(F, e) # Rank(F, data[size])
    BY <1>3, <1>10, <2>1, <2>2, <2>3
  <2>5. e.n # data[size].n
    BY <1>2, <2>2, <2>4
  <2>6. Later(data[size], e) \/ Later(e, data[size])
    BY <1>2, <2>2, <2>5, LaterOrder
  <2> QED
    BY <1>3, <2>2, <2>4, <2>6
<1>11. ~(count > Limit) => \A e \in F : Rank(F, e) < size
  <2> SUFFICES ASSUME ~(count > Limit), NEW e \in F PROVE Rank(F, e) < size
    OBVIOUS
  <2>1. Rank(F, e) \in 0..(count - 1)
    BY <1>3
  <2> QED
    BY <1>3, <1>4, <2>1
<1> DEFINE shown == {data[i] : i \in DOMAIN data}
           more == count > Limit
<1>12. data \in Seq(F) /\ more \in BOOLEAN
  BY <1>6
<1>13. \A i, j \in DOMAIN data : i < j => Later(data[i], data[j])
  BY <1>6, <1>7
<1>14. more => Len(data) >= 1 /\ \A e \in F \ shown : Later(data[Len(data)], e)
  BY <1>4, <1>6, <1>9, <1>10
<1>15. ~more => F \subseteq shown
  BY <1>6, <1>9, <1>11
<1> HIDE DEF more
<1>16. Page(cursor).data = data /\ Page(cursor).hasMore = more
  BY <1>1 DEF more
<1> QED
  BY <1>12, <1>13, <1>14, <1>15, <1>16 DEF F

-----------------------------------------------------------------------------
(* Facts that several actions share. *)

Kinds == DomainKinds \cup {"failed", "recovered", "fact"}

\* An insertion gives the new row an event id of its own.
LEMMA RowsGrow ==
  ASSUME rows \subseteq EventRows, RowsInv, NEW kind \in Kinds,
         NEW id \in Nat \cup {None}, NEW at \in Nat,
         rows' = rows \cup {Row(kind, id, at)}
  PROVE  rows' \subseteq EventRows /\ RowsInv'
<1> DEFINE row == Row(kind, id, at)
           size == Cardinality(rows)
<1>1. size \in Nat
  BY FS_CardinalityType DEF RowsInv
<1>2. row \in EventRows /\ row.n = size + 1
  BY <1>1 DEF Row, EventRows, Kinds
<1> HIDE DEF row
<1>3. \A r \in rows : r.n \in Nat /\ r.n <= size
  BY DEF RowsInv, EventRows
<1>4. row \notin rows
  BY <1>1, <1>2, <1>3
<1>5. IsFiniteSet(rows') /\ Cardinality(rows') = size + 1
  BY <1>4, FS_AddElement DEF RowsInv, row
<1>6. \A r \in rows' : r.n <= size + 1
  BY <1>1, <1>2, <1>3 DEF row
<1>7. \A r, q \in rows' : r.n = q.n => r = q
  <2>1. \A r \in rows : r.n # row.n
    BY <1>1, <1>2, <1>3
  <2>2. \A r \in rows' : r \in rows \/ r = row
    BY DEF row
  <2> QED
    BY <2>1, <2>2 DEF RowsInv
<1>8. rows' \subseteq EventRows
  BY <1>2 DEF row
<1> HIDE DEF size
<1> QED
  BY <1>5, <1>6, <1>7, <1>8 DEF RowsInv

\* What was written stays written.
LEMMA FailureKept ==
  ASSUME TypeOK, now' \in Nat, now <= now', rows \subseteq rows'
  PROVE  \A id : HasFailure(id) => HasFailure(id)'
<1>1. \A r \in rows : r.at \in Nat
  BY DEF TypeOK, EventRows
<1> QED
  BY <1>1 DEF HasFailure, TypeOK

\* New rows do not disturb a walk.
LEMMA ReaderKept ==
  ASSUME ReaderInv, reader' = reader, rows \subseteq rows'
  PROVE  ReaderInv'
<1>1. UnifiedEvents \subseteq UnifiedEvents'
  BY DEF UnifiedEvents
<1>2. \A r : r \in Beyond(reader.cursor) => r \in Beyond(reader.cursor)'
  BY <1>1 DEF Beyond, Later
<1>3. Seen' = Seen
  BY DEF Seen
<1> QED
  BY <1>1, <1>2, <1>3 DEF ReaderInv, Later

\* The record of an observer that recovers an incident.
LEMMA RecoveryRecord ==
  ASSUME TypeOK, NEW o \in Observers, Recovers(o)
  PROVE  /\ observers[o] \in Recovery
         /\ observers[o].component \in Components
         /\ observers[o].id \in Nat /\ observers[o].at \in Nat
         /\ observers[o].persisted \in BOOLEAN
<1>1. observers[o] \in Recovery
  BY DEF TypeOK, Recovers, Idle, Listening, Recovery
<1> QED
  BY <1>1 DEF Recovery

\* A row that is not a recovery row needs no pair.
LEMMA PairsKept ==
  ASSUME TypeOK, PairInv, rows \subseteq rows',
         \A r \in rows' : r \in rows \/ r.kind # "recovered"
  PROVE  RecoveriesArePaired'
BY DEF PairInv, RecoveriesArePaired

\* Steps that leave incidents alone and only stop or move on observers that
\* recover nothing.
LEMMA QuietStep ==
  ASSUME IInv, UNCHANGED <<incidents, hasAny, opened, owed>>,
         now' \in Nat, now <= now', rows \subseteq rows',
         \A r \in rows' : r \in rows \/ r.kind # "recovered",
         \A p \in Observers : observers'[p] = observers[p] \/ ~Recovers(p)'
  PROVE  PastInv' /\ ClaimInv' /\ OwedInv' /\ PairInv'
<1>1. \A p \in Observers : Recovers(p)' => Recovers(p) /\ observers'[p] = observers[p]
  BY DEF Recovers
<1>2. TypeOK
  BY DEF IInv
<1>3. \A id : HasFailure(id) => HasFailure(id)'
  BY <1>2, FailureKept
<1>4. PastInv'
  <2>1. \A c \in Components : incidents[c] # None =>
          /\ incidents[c].at \in Nat
          /\ incidents[c].reopened # None => incidents[c].reopened \in Nat
    BY <1>2 DEF TypeOK, Incidents
  <2>2. \A p \in Observers : Recovers(p) => observers[p].at \in Nat
    BY <1>2, RecoveryRecord
  <2>3. now \in Nat
    BY <1>2 DEF TypeOK
  <2>4. \A p \in Observers : Recovers(p)' => observers'[p].id <= opened' /\ observers'[p].at <= now'
    BY <1>1, <2>2, <2>3 DEF IInv, PastInv
  <2>5. \A c \in Components : incidents'[c] # None =>
          /\ incidents'[c].id <= opened' /\ incidents'[c].at <= now'
          /\ incidents'[c].reopened # None => incidents'[c].reopened <= now'
    BY <2>1, <2>3 DEF IInv, PastInv
  <2> QED
    BY <2>4, <2>5 DEF PastInv
<1>5. ClaimInv'
  <2>1. \A p \in Observers : Recovers(p)' /\ Holds(p, observers[p].component)'
                               => Holds(p, observers[p].component)
    BY <1>1 DEF Holds
  <2> QED
    BY <1>1, <2>1 DEF IInv, ClaimInv, Holds
<1>6. OwedInv'
  BY DEF IInv, OwedInv, FailuresStayOpen
<1>7. PairInv'
  <2>1. RecoveriesArePaired'
    BY <1>2, PairsKept DEF IInv
  <2>2. \A c \in Components : incidents'[c] # None /\ incidents'[c].persisted =>
          HasFailure(incidents[c].id)'
    BY <1>3 DEF IInv, PairInv
  <2>3. \A o \in Observers : Recovers(o)' =>
          /\ observers'[o].persisted => HasFailure(observers[o].id)'
          /\ observers'[o].pc \in {"announce", "settle"} => observers'[o].persisted
    BY <1>1, <1>3 DEF IInv, PairInv
  <2> QED
    BY <1>1, <2>1, <2>2, <2>3 DEF PairInv, HasFailure
<1> QED
  BY <1>4, <1>5, <1>6, <1>7

-----------------------------------------------------------------------------
(* One lemma per kind of action. *)

LEMMA InitIInv == Init => IInv
<1> SUFFICES ASSUME Init PROVE IInv
  OBVIOUS
<1>1. TypeOK
  BY DEF Init, TypeOK
<1>2. \A o \in Observers : ~Recovers(o)
  BY DEF Init, Recovers, Idle
<1>3. \A c \in Components : incidents[c] = None
  BY DEF Init
<1>4. RowsInv
  BY FS_EmptySet DEF Init, RowsInv
<1>5. ReaderInv
  BY DEF Init, ReaderInv, NoReader
<1>6. PastInv /\ ClaimInv
  BY <1>2, <1>3 DEF PastInv, ClaimInv
<1>7. OwedInv
  BY <1>3 DEF OwedInv, FailuresStayOpen, Init
<1>8. PairInv
  BY <1>2, <1>3 DEF PairInv, RecoveriesArePaired, Init
<1> QED
  BY <1>1, <1>4, <1>5, <1>6, <1>7, <1>8 DEF IInv

LEMMA TickIInv == ASSUME IInv, Tick PROVE IInv'
<1>1. now' \in Nat /\ now <= now'
  BY DEF IInv, TypeOK, Tick
<1>2. TypeOK' /\ RowsInv'
  BY <1>1 DEF IInv, TypeOK, RowsInv, Tick
<1>3. PastInv' /\ ClaimInv' /\ OwedInv' /\ PairInv'
  BY <1>1, QuietStep DEF Tick
<1>4. ReaderInv'
  BY ReaderKept DEF Tick, IInv
<1> QED
  BY <1>2, <1>3, <1>4 DEF IInv

\* A restart forgets every incident and every recovery.
LEMMA RestartIInv == ASSUME IInv, Restart PROVE IInv'
<1>1. TypeOK' /\ RowsInv'
  BY DEF IInv, TypeOK, RowsInv, Restart
<1>2. \A o \in Observers : ~Recovers(o)'
  BY DEF Restart, Recovers, Idle
<1>3. \A c \in Components : incidents'[c] = None
  BY DEF Restart
<1>4. PastInv' /\ ClaimInv'
  BY <1>2, <1>3 DEF PastInv, ClaimInv
<1>5. OwedInv'
  BY <1>3 DEF OwedInv, FailuresStayOpen, Restart
<1>6. PairInv'
  BY <1>2, <1>3 DEF IInv, PairInv, RecoveriesArePaired, Restart
<1>7. ReaderInv'
  BY ReaderKept DEF Restart, IInv
<1> QED
  BY <1>1, <1>4, <1>5, <1>6, <1>7 DEF IInv

\* Observers that begin or end something that is not a recovery.
LEMMA ObserverMoves ==
  ASSUME IInv, NEW o \in Observers, NEW state \in {Idle} \cup Listening,
         observers' = [observers EXCEPT ![o] = state],
         UNCHANGED <<now, incidents, hasAny, opened, reader, owed>>,
         \/ rows' = rows
         \/ \E kind \in DomainKinds \cup {"fact"}, t \in Nat : rows' = rows \cup {Row(kind, None, t)}
  PROVE  IInv'
<1>1. observers' \in [Observers -> {Idle} \cup Listening \cup Recovery]
  BY DEF IInv, TypeOK
<1>2. \A p \in Observers : observers'[p] = observers[p] \/ ~Recovers(p)'
  <2>1. observers'[o] = state /\ \A p \in Observers \ {o} : observers'[p] = observers[p]
    BY DEF IInv, TypeOK
  <2>2. state.pc \in {"idle", "failed", "claim"}
    BY DEF Idle, Listening
  <2> QED
    BY <2>1, <2>2 DEF Recovers
<1>3. /\ rows' \subseteq EventRows /\ RowsInv' /\ rows \subseteq rows'
      /\ \A r \in rows' : r \in rows \/ r.kind # "recovered"
  <2>1. CASE rows' = rows
    BY <2>1 DEF IInv, TypeOK, RowsInv
  <2>2. ASSUME NEW kind \in DomainKinds \cup {"fact"}, NEW t \in Nat,
               rows' = rows \cup {Row(kind, None, t)}
        PROVE  /\ rows' \subseteq EventRows /\ RowsInv' /\ rows \subseteq rows'
               /\ \A r \in rows' : r \in rows \/ r.kind # "recovered"
    <3>1. Row(kind, None, t).kind # "recovered" /\ kind \in Kinds
      BY KindsAssumption DEF Row, Kinds
    <3>2. rows' \subseteq EventRows /\ RowsInv'
      BY <2>2, <3>1, RowsGrow DEF IInv, TypeOK
    <3> QED
      BY <2>2, <3>1, <3>2
  <2> QED
    BY <2>1, <2>2
<1>4. TypeOK'
  BY <1>1, <1>3 DEF IInv, TypeOK
<1>5. now' \in Nat /\ now <= now'
  BY DEF IInv, TypeOK
<1>6. PastInv' /\ ClaimInv' /\ OwedInv' /\ PairInv'
  BY <1>2, <1>3, <1>5, QuietStep
<1>7. ReaderInv'
  BY <1>3, ReaderKept DEF IInv
<1> QED
  BY <1>3, <1>4, <1>6, <1>7 DEF IInv

LEMMA SuccessState ==
  ASSUME NEW c \in Components PROVE AfterSuccess(c) \in {Idle} \cup Listening
BY DEF AfterSuccess, Listening

LEMMA OperationIInv ==
  ASSUME IInv, NEW o \in Observers, NEW c \in Components,
         OperationFails(o, c) \/ OperationSucceeds(o, c)
  PROVE  IInv'
<1> DEFINE failed == [pc |-> "failed", component |-> c]
<1>1. failed \in {Idle} \cup Listening
  BY DEF Listening
<1>2. CASE OperationFails(o, c)
  <2> HIDE DEF failed
  <2>1. observers' = [observers EXCEPT ![o] = failed]
    BY <1>2 DEF OperationFails, failed
  <2> QED
    BY <1>1, <1>2, <2>1, ObserverMoves DEF OperationFails
<1>3. CASE OperationSucceeds(o, c)
  BY <1>3, SuccessState, ObserverMoves DEF OperationSucceeds
<1> QED
  BY <1>2, <1>3

LEMMA RecordIInv ==
  ASSUME IInv, NEW o \in Observers,
         Record(o) \/ RecordDuringDatabaseIncident(o) \/ RecordFails(o)
  PROVE  IInv'
<1> DEFINE failed == [pc |-> "failed", component |-> EventWriter]
<1>1. failed \in {Idle} \cup Listening
  BY ComponentsAssumption DEF Listening
<1>2. Idle \in {Idle} \cup Listening /\ AfterSuccess(EventWriter) \in {Idle} \cup Listening
  BY ComponentsAssumption, SuccessState
<1>3. now \in Nat /\ observers = [observers EXCEPT ![o] = observers[o]]
  BY DEF IInv, TypeOK
<1> HIDE DEF failed
<1>4. CASE Record(o)
  <2>1. rows' = rows \cup {Row("fact", None, now)}
    BY <1>4 DEF Record
  <2> QED
    BY <1>2, <1>3, <1>4, <2>1, ObserverMoves DEF Record
<1>5. CASE RecordDuringDatabaseIncident(o)
  <2>1. rows' = rows \cup {Row("fact", None, now)}
    BY <1>5 DEF RecordDuringDatabaseIncident
  <2>2. observers' = [observers EXCEPT ![o] = Idle]
    BY <1>3, <1>5 DEF RecordDuringDatabaseIncident
  <2> QED
    BY <1>2, <1>3, <1>5, <2>1, <2>2, ObserverMoves DEF RecordDuringDatabaseIncident
<1>6. CASE RecordFails(o)
  <2>1. rows' = rows \/ rows' = rows \cup {Row("fact", None, now)}
    BY <1>6 DEF RecordFails, InsertFails
  <2>2. observers' = [observers EXCEPT ![o] = failed]
    BY <1>6 DEF RecordFails, failed
  <2> QED
    BY <1>1, <1>3, <1>6, <2>1, <2>2, ObserverMoves DEF RecordFails
<1> QED
  BY <1>4, <1>5, <1>6

LEMMA DomainFactIInv ==
  ASSUME IInv, NEW kind \in DomainKinds, DomainFact(kind)
  PROVE  IInv'
<1>1. PICK t \in 0..now : rows' = rows \cup {Row(kind, None, t)}
  BY DEF DomainFact
<1>2. t \in Nat /\ kind \in Kinds /\ now \in Nat
  BY DEF IInv, TypeOK, Kinds
<1>3. rows' \subseteq EventRows /\ RowsInv'
  BY <1>1, <1>2, RowsGrow DEF IInv, TypeOK
<1>4. \A r \in rows' : r \in rows \/ r.kind # "recovered"
  <2>1. Row(kind, None, t).kind # "recovered"
    BY KindsAssumption DEF Row
  <2> QED
    BY <1>1, <2>1
<1>5. TypeOK'
  BY <1>3 DEF IInv, TypeOK, DomainFact
<1>6. now' \in Nat /\ now <= now'
  BY <1>2 DEF DomainFact
<1>7. PastInv' /\ ClaimInv' /\ OwedInv' /\ PairInv'
  BY <1>1, <1>4, <1>6, QuietStep DEF DomainFact
<1>8. ReaderInv'
  BY <1>1, ReaderKept DEF IInv, DomainFact
<1> QED
  BY <1>3, <1>5, <1>7, <1>8 DEF IInv

LEMMA CancelIInv == ASSUME IInv, NEW o \in Observers, Cancel(o) PROVE IInv'
BY ObserverMoves DEF Cancel

\* A step of one observer, which may change the incident of its component, by
\* what it does to that component.
LEMMA IncidentStep ==
  ASSUME IInv, TypeOK', NEW o \in Observers, NEW c \in Components,
         UNCHANGED <<now, rows, reader>>, opened <= opened',
         \A p \in Observers \ {o} : observers'[p] = observers[p],
         \A d \in Components \ {c} : incidents'[d] = incidents[d] /\ (d \in owed' <=> d \in owed),
         \* the incident of c
         incidents'[c] # None =>
           /\ incidents'[c].id <= opened' /\ incidents'[c].at <= now
           /\ incidents'[c].reopened # None => incidents'[c].reopened <= now
           /\ incidents'[c].persisted => HasFailure(incidents'[c].id),
         \* the observer
         Recovers(o)' =>
           /\ observers'[o].id <= opened' /\ observers'[o].at <= now
           /\ observers'[o].persisted => HasFailure(observers'[o].id)
           /\ observers'[o].pc \in {"announce", "settle"} => observers'[o].persisted,
         \* claims
         ClaimInv',
         \* what is owed
         c \in owed' => incidents'[c] # None,
         incidents'[c] # None /\ incidents'[c].recovering /\ incidents'[c].reopened = None
           => c \notin owed',
         (\E d \in Components : incidents'[d] # None) => hasAny'
  PROVE  IInv'
<1>1. TypeOK
  BY DEF IInv
<1>2. RowsInv' /\ ReaderInv'
  BY ReaderKept DEF IInv, RowsInv
<1>3. PastInv'
  <2>1. ASSUME NEW d \in Components, incidents'[d] # None
        PROVE  /\ incidents'[d].id <= opened' /\ incidents'[d].at <= now'
               /\ incidents'[d].reopened # None => incidents'[d].reopened <= now'
    <3>1. CASE d = c
      BY <2>1, <3>1
    <3>2. CASE d # c
      <4>1. incidents[d] # None /\ incidents'[d] = incidents[d]
        BY <2>1, <3>2
      <4>2. incidents[d].id \in Nat /\ opened \in Nat /\ opened' \in Nat
        BY <1>1, <4>1 DEF TypeOK, Incidents
      <4> QED
        BY <4>1, <4>2 DEF IInv, PastInv
    <3> QED
      BY <3>1, <3>2
  <2>2. ASSUME NEW p \in Observers, Recovers(p)'
        PROVE  observers'[p].id <= opened' /\ observers'[p].at <= now'
    <3>1. CASE p = o
      BY <2>2, <3>1
    <3>2. CASE p # o
      <4>1. Recovers(p) /\ observers'[p] = observers[p]
        BY <2>2, <3>2 DEF Recovers
      <4>2. observers[p].id \in Nat /\ opened \in Nat /\ opened' \in Nat
        BY <1>1, <4>1, RecoveryRecord DEF TypeOK
      <4> QED
        BY <4>1, <4>2 DEF IInv, PastInv
    <3> QED
      BY <3>1, <3>2
  <2> QED
    BY <2>1, <2>2 DEF PastInv
<1>4. OwedInv'
  <2>1. ASSUME NEW d \in owed' PROVE incidents'[d] # None
    BY <2>1 DEF IInv, OwedInv, FailuresStayOpen, TypeOK
  <2>2. ASSUME NEW d \in Components, incidents'[d] # None, incidents'[d].recovering,
               incidents'[d].reopened = None
        PROVE  d \notin owed'
    BY <2>2 DEF IInv, OwedInv
  <2> QED
    BY <2>1, <2>2 DEF OwedInv, FailuresStayOpen
<1>5. PairInv'
  <2>1. RecoveriesArePaired'
    BY DEF IInv, PairInv, RecoveriesArePaired
  <2>2. \A id : HasFailure(id) <=> HasFailure(id)'
    BY DEF HasFailure
  <2>3. ASSUME NEW d \in Components, incidents'[d] # None, incidents'[d].persisted
        PROVE  HasFailure(incidents[d].id)'
    <3>1. HasFailure(incidents'[d].id)
      BY <2>3 DEF IInv, PairInv
    <3> QED
      BY <3>1 DEF HasFailure
  <2>4. ASSUME NEW p \in Observers, Recovers(p)'
        PROVE  /\ observers'[p].persisted => HasFailure(observers[p].id)'
               /\ observers'[p].pc \in {"announce", "settle"} => observers'[p].persisted
    <3>1. /\ observers'[p].persisted => HasFailure(observers'[p].id)
          /\ observers'[p].pc \in {"announce", "settle"} => observers'[p].persisted
      <4>1. CASE p = o
        BY <2>4, <4>1
      <4>2. CASE p # o
        <5>1. Recovers(p) /\ observers'[p] = observers[p]
          BY <2>4, <4>2 DEF Recovers
        <5> QED
          BY <5>1 DEF IInv, PairInv
      <4> QED
        BY <4>1, <4>2
    <3> QED
      BY <3>1 DEF HasFailure
  <2> QED
    BY <2>1, <2>3, <2>4 DEF PairInv
<1> QED
  BY <1>2, <1>3, <1>4, <1>5 DEF IInv

\* When an observer stops, the claims of the others stand: their incidents are
\* the same ones, or younger than all they know, or not theirs.
LEMMA ClaimsStand ==
  ASSUME IInv, NEW o \in Observers, ~Recovers(o)',
         \A p \in Observers \ {o} : observers'[p] = observers[p],
         \A d \in Components : incidents'[d] # None =>
           \/ /\ incidents[d] # None /\ incidents'[d].id = incidents[d].id
              /\ incidents'[d].recovering = incidents[d].recovering
           \/ incidents'[d].id = opened + 1
           \/ \A p \in Observers \ {o} :
                Recovers(p) /\ observers[p].component = d => observers[p].id # incidents'[d].id
  PROVE  ClaimInv'
<1>1. \A p \in Observers : Recovers(p)' => p # o /\ Recovers(p) /\ observers'[p] = observers[p]
  BY DEF Recovers
<1>2. ASSUME NEW p \in Observers, Recovers(p)', Holds(p, observers[p].component)'
      PROVE  incidents'[observers'[p].component].recovering
  <2> DEFINE d == observers[p].component
  <2>1. p # o /\ Recovers(p) /\ observers'[p] = observers[p] /\ d \in Components
    BY <1>1, <1>2, RecoveryRecord DEF IInv
  <2>2. incidents'[d] # None /\ incidents'[d].id = observers[p].id
    BY <1>2, <2>1 DEF Holds
  <2>3. observers[p].id <= opened /\ observers[p].id \in Nat /\ opened \in Nat
    BY <2>1, RecoveryRecord DEF IInv, PastInv, TypeOK
  <2>4. incidents'[d].id # opened + 1
    BY <2>2, <2>3
  <2>5. incidents[d] # None /\ incidents'[d].id = incidents[d].id
        /\ incidents'[d].recovering = incidents[d].recovering
    BY <2>1, <2>2, <2>4
  <2>6. Holds(p, d)
    BY <2>2, <2>5 DEF Holds
  <2> QED
    BY <2>1, <2>5, <2>6 DEF IInv, ClaimInv
<1>3. ASSUME NEW p \in Observers, NEW q \in Observers, Recovers(p)', Recovers(q)',
             observers'[p].id = observers'[q].id,
             observers'[p].component = observers'[q].component
      PROVE  p = q
  BY <1>1, <1>3 DEF IInv, ClaimInv
<1> QED
  BY <1>2, <1>3 DEF ClaimInv

LEMMA IdleObserver ==
  ASSUME TypeOK, NEW o \in Observers, observers' = [observers EXCEPT ![o] = Idle]
  PROVE  /\ observers' \in [Observers -> {Idle} \cup Listening \cup Recovery]
         /\ ~Recovers(o)' /\ \A p \in Observers \ {o} : observers'[p] = observers[p]
BY DEF TypeOK, Recovers, Idle

LEMMA RememberIInv ==
  ASSUME IInv, NEW o \in Observers, RememberDatabaseFailure(o)
  PROVE  IInv'
<1> DEFINE c == observers[o].component
<1>1. c \in Components /\ TypeOK
  BY DEF RememberDatabaseFailure, IInv, TypeOK, Idle, Listening, Recovery
<1>2. /\ incidents' = Remembered(c) /\ owed' = owed \cup {c}
      /\ opened' = IF incidents[c] = None THEN opened + 1 ELSE opened
      /\ hasAny' = TRUE /\ UNCHANGED <<now, rows, reader>>
      /\ observers' = [observers EXCEPT ![o] = Idle]
  BY DEF RememberDatabaseFailure
<1>3. /\ observers' \in [Observers -> {Idle} \cup Listening \cup Recovery]
      /\ ~Recovers(o)' /\ \A p \in Observers \ {o} : observers'[p] = observers[p]
  BY <1>1, <1>2, IdleObserver
<1> HIDE DEF c
<1>4. CASE incidents[c] = None
  <2> DEFINE new == NewDatabaseIncident(now)
  <2>1. /\ new \in Incidents /\ new.id = opened + 1 /\ new.at = now /\ ~new.persisted
        /\ ~new.recovering /\ new.reopened = None
    BY <1>1 DEF NewDatabaseIncident, Incidents, TypeOK
  <2> HIDE DEF new
  <2>2. /\ incidents' \in [Components -> Incidents \cup {None}]
        /\ incidents'[c] = new /\ \A d \in Components \ {c} : incidents'[d] = incidents[d]
    BY <1>1, <1>2, <1>4, <2>1 DEF Remembered, TypeOK, new
  <2>3. opened' = opened + 1 /\ opened' \in Nat /\ opened <= opened' /\ new.id <= opened'
        /\ new.at <= now
    BY <1>1, <1>2, <1>4, <2>1 DEF TypeOK
  <2>4. TypeOK'
    BY <1>1, <1>2, <1>3, <2>2, <2>3 DEF TypeOK
  <2>5. ClaimInv'
    BY <1>3, <2>1, <2>2, ClaimsStand
  <2>6. new # None
    BY <2>1, NoneAssumption
  <2> QED
    BY <1>1, <1>2, <1>3, <2>1, <2>2, <2>3, <2>4, <2>5, <2>6, IncidentStep
<1>5. CASE incidents[c] # None
  <2> DEFINE old == incidents[c]
             new == [old EXCEPT !.reopened =
                       IF old.recovering /\ old.reopened = None THEN now ELSE old.reopened]
  <2>1. old \in Incidents
    BY <1>1, <1>5 DEF TypeOK
  <2>2. incidents' = [incidents EXCEPT ![c] = new]
    BY <1>2, <1>5 DEF Remembered
  <2>3. /\ new \in Incidents /\ new.id = old.id /\ new.at = old.at
        /\ new.persisted = old.persisted /\ new.recovering = old.recovering
        /\ new.reopened = IF old.recovering /\ old.reopened = None THEN now ELSE old.reopened
    BY <1>1, <2>1 DEF Incidents, TypeOK
  <2> HIDE DEF new
  <2>4. /\ incidents' \in [Components -> Incidents \cup {None}]
        /\ incidents'[c] = new /\ \A d \in Components \ {c} : incidents'[d] = incidents[d]
    BY <1>1, <2>2, <2>3 DEF TypeOK
  <2>5. opened' = opened /\ opened' \in Nat /\ opened <= opened'
    BY <1>1, <1>2, <1>5 DEF TypeOK
  <2>6. TypeOK'
    BY <1>1, <1>2, <1>3, <2>4, <2>5 DEF TypeOK
  <2>7. ClaimInv'
    BY <1>3, <1>5, <2>3, <2>4, ClaimsStand
  <2>8. new # None
    BY <2>3, NoneAssumption
  <2>9. /\ new.id <= opened' /\ new.at <= now
        /\ new.persisted => HasFailure(new.id)
    BY <1>1, <1>5, <2>3, <2>5 DEF IInv, PastInv, PairInv
  <2>10. new.reopened # None => new.reopened <= now
    BY <1>1, <1>5, <2>3 DEF IInv, PastInv, TypeOK
  <2>11. ~(new.recovering /\ new.reopened = None)
    <3>1. now # None
      BY <1>1, NoneAssumption DEF TypeOK
    <3> QED
      BY <2>3, <3>1
  <2> QED
    BY <1>1, <1>2, <1>3, <2>4, <2>5, <2>6, <2>7, <2>8, <2>9, <2>10, <2>11, IncidentStep
<1> QED
  BY <1>4, <1>5

\* The claim: the only observer of an incident that nobody was recovering.
LEMMA ClaimIInv ==
  ASSUME IInv, NEW o \in Observers, Claim(o)
  PROVE  IInv'
<1> DEFINE c == observers[o].component
           i == incidents[c]
<1>1. c \in Components /\ TypeOK
  BY DEF Claim, IInv, TypeOK, Idle, Listening, Recovery
<1>2. CASE observers' = [observers EXCEPT ![o] = Idle] /\ UNCHANGED <<incidents, owed>>
  BY <1>2, ObserverMoves DEF Claim
<1> DEFINE new == [i EXCEPT !.recovering = TRUE, !.reopened = None]
           state == [pc |-> IF i.persisted THEN "announce" ELSE "backfill",
                     component |-> c, id |-> i.id, at |-> i.at, persisted |-> i.persisted]
<1>3. ASSUME i # None, ~i.recovering, incidents' = [incidents EXCEPT ![c] = new],
             owed' = owed \ {c}, observers' = [observers EXCEPT ![o] = state]
      PROVE  IInv'
  <2>1. UNCHANGED <<now, hasAny, opened, rows, reader>>
    BY DEF Claim
  <2>2. i \in Incidents
    BY <1>1, <1>3 DEF TypeOK
  <2>3. /\ new \in Incidents /\ new.id = i.id /\ new.at = i.at /\ new.persisted = i.persisted
        /\ new.recovering /\ new.reopened = None
    BY <2>2 DEF Incidents
  <2>4. /\ state \in Recovery /\ state.component = c /\ state.id = i.id /\ state.at = i.at
        /\ state.persisted = i.persisted
        /\ state.pc = IF i.persisted THEN "announce" ELSE "backfill"
    BY <1>1, <2>2 DEF Recovery, Incidents
  <2> HIDE DEF new, state
  <2>5. /\ incidents' \in [Components -> Incidents \cup {None}]
        /\ incidents'[c] = new /\ \A d \in Components \ {c} : incidents'[d] = incidents[d]
    BY <1>1, <1>3, <2>3 DEF TypeOK
  <2>6. /\ observers' \in [Observers -> {Idle} \cup Listening \cup Recovery]
        /\ observers'[o] = state /\ \A p \in Observers \ {o} : observers'[p] = observers[p]
    BY <1>1, <1>3, <2>4 DEF TypeOK
  <2>7. TypeOK'
    BY <1>1, <1>3, <2>1, <2>5, <2>6 DEF TypeOK
  <2>8. new # None
    BY <2>3, NoneAssumption
  <2>9. /\ i.id <= opened /\ i.at <= now /\ (i.persisted => HasFailure(i.id))
        /\ opened' = opened /\ opened <= opened /\ hasAny
    BY <1>1, <1>3 DEF IInv, PastInv, PairInv, OwedInv, FailuresStayOpen, TypeOK, Claim
  <2>10. ASSUME NEW p \in Observers \ {o}, Recovers(p), observers[p].component = c
         PROVE  observers[p].id # i.id
    BY <1>3, <2>10 DEF IInv, ClaimInv, Holds
  <2>11. ClaimInv'
    <3>1. \A p \in Observers \ {o} : Recovers(p)' => Recovers(p) /\ observers'[p] = observers[p]
      BY <2>6 DEF Recovers
    <3>2. ASSUME NEW p \in Observers, Recovers(p)', Holds(p, observers[p].component)'
          PROVE  incidents'[observers'[p].component].recovering
      <4>1. CASE p = o
        BY <2>3, <2>4, <2>5, <2>6, <4>1
      <4>2. CASE p # o
        <5>1. Recovers(p) /\ observers'[p] = observers[p] /\ observers[p].component \in Components
          BY <1>1, <3>1, <3>2, <4>2, RecoveryRecord
        <5>2. CASE observers[p].component = c
          BY <2>3, <2>5, <5>1, <5>2
        <5>3. CASE observers[p].component # c
          <6>1. incidents'[observers[p].component] = incidents[observers[p].component]
            BY <2>5, <5>1, <5>3
          <6>2. Holds(p, observers[p].component)
            BY <3>2, <5>1, <6>1 DEF Holds
          <6> QED
            BY <5>1, <6>1, <6>2 DEF IInv, ClaimInv
        <5> QED
          BY <5>2, <5>3
      <4> QED
        BY <4>1, <4>2
    <3>3. ASSUME NEW p \in Observers, NEW q \in Observers, Recovers(p)', Recovers(q)',
                 observers'[p].id = observers'[q].id,
                 observers'[p].component = observers'[q].component
          PROVE  p = q
      <4>1. CASE p # o /\ q # o
        BY <3>1, <3>3, <4>1 DEF IInv, ClaimInv
      <4>2. CASE p = o /\ q # o
        BY <2>4, <2>6, <2>10, <3>1, <3>3, <4>2
      <4>3. CASE p # o /\ q = o
        BY <2>4, <2>6, <2>10, <3>1, <3>3, <4>3
      <4> QED
        BY <4>1, <4>2, <4>3
    <3> QED
      BY <3>2, <3>3 DEF ClaimInv
  <2>12. Recovers(o)' =>
           /\ observers'[o].id <= opened' /\ observers'[o].at <= now
           /\ observers'[o].persisted => HasFailure(observers'[o].id)
           /\ observers'[o].pc \in {"announce", "settle"} => observers'[o].persisted
    BY <2>4, <2>6, <2>9
  <2>13. hasAny'
    BY <2>1, <2>9
  <2> QED
    BY <1>1, <1>3, <2>1, <2>3, <2>5, <2>6, <2>7, <2>8, <2>9, <2>11, <2>12, <2>13, IncidentStep
<1> QED
  BY <1>2, <1>3 DEF Claim

\* The observer of an incident tries to insert a row and moves on.
LEMMA InsertStep ==
  ASSUME IInv, NEW o \in Observers, Recovers(o),
         UNCHANGED <<now, incidents, hasAny, opened, reader, owed>>,
         NEW state \in Recovery, observers' = [observers EXCEPT ![o] = state],
         state.id = observers[o].id, state.at = observers[o].at,
         state.component = observers[o].component,
         NEW kind \in {"failed", "recovered"}, NEW t \in Nat,
         rows' = rows \/ rows' = rows \cup {Row(kind, observers[o].id, t)},
         kind = "recovered" => t = now /\ HasFailure(observers[o].id),
         state.persisted =>
           \/ HasFailure(state.id)
           \/ \E q \in rows' : q.kind = "failed" /\ q.id = state.id /\ q.at <= now,
         state.pc \in {"announce", "settle"} => state.persisted
  PROVE  IInv'
<1> DEFINE row == Row(kind, observers[o].id, t)
<1>1. TypeOK /\ now' \in Nat /\ now <= now' /\ now \in Nat
  BY DEF IInv, TypeOK
<1>2. /\ observers[o].component \in Components /\ observers[o].id \in Nat
  BY <1>1, RecoveryRecord
<1>3. rows' \subseteq EventRows /\ RowsInv' /\ rows \subseteq rows'
  <2>1. CASE rows' = rows
    BY <1>1, <2>1 DEF IInv, TypeOK, RowsInv
  <2>2. CASE rows' = rows \cup {row}
    BY <1>1, <1>2, <2>2, RowsGrow DEF IInv, TypeOK, Kinds
  <2> QED
    BY <2>1, <2>2
<1>4. /\ observers' \in [Observers -> {Idle} \cup Listening \cup Recovery]
      /\ observers'[o] = state /\ \A p \in Observers \ {o} : observers'[p] = observers[p]
  BY <1>1 DEF TypeOK
<1>5. TypeOK'
  BY <1>1, <1>3, <1>4 DEF TypeOK
<1>6. ReaderInv'
  BY <1>3, ReaderKept DEF IInv
<1>7. \A id : HasFailure(id) => HasFailure(id)'
  BY <1>1, <1>3, FailureKept
<1>8. \A p \in Observers : Recovers(p)' =>
        /\ Recovers(p) /\ observers'[p].id = observers[p].id
        /\ observers'[p].at = observers[p].at
        /\ observers'[p].component = observers[p].component
  BY <1>4 DEF Recovers
<1>9. PastInv'
  BY <1>8 DEF IInv, PastInv
<1>10. ClaimInv'
  <2>1. \A p \in Observers : Recovers(p)' /\ Holds(p, observers[p].component)'
                               => Holds(p, observers[p].component)
    BY <1>8 DEF Holds
  <2> QED
    BY <1>8, <2>1 DEF IInv, ClaimInv
<1>11. OwedInv'
  BY DEF IInv, OwedInv, FailuresStayOpen
<1>12. PairInv'
  <2>1. RecoveriesArePaired'
    <3> SUFFICES ASSUME NEW r \in rows', r.kind = "recovered"
                 PROVE  \E q \in rows' : q.kind = "failed" /\ q.id = r.id /\ q.at <= r.at
      BY DEF RecoveriesArePaired
    <3>1. CASE r \in rows
      BY <1>3, <3>1 DEF IInv, PairInv, RecoveriesArePaired
    <3>2. CASE r = row
      <4>1. r.kind = kind /\ r.id = observers[o].id /\ r.at = t
        BY <3>2 DEF Row
      <4>2. t = now /\ HasFailure(observers[o].id)
        BY <4>1
      <4> QED
        BY <1>3, <4>1, <4>2 DEF HasFailure
    <3> QED
      BY <3>1, <3>2
  <2>2. \A c \in Components : incidents'[c] # None /\ incidents'[c].persisted =>
          HasFailure(incidents[c].id)'
    BY <1>7 DEF IInv, PairInv
  <2>3. ASSUME NEW p \in Observers, Recovers(p)'
        PROVE  /\ observers'[p].persisted => HasFailure(observers[p].id)'
               /\ observers'[p].pc \in {"announce", "settle"} => observers'[p].persisted
    <3>1. CASE p = o
      BY <1>4, <1>7, <3>1 DEF HasFailure
    <3>2. CASE p # o
      <4>1. Recovers(p) /\ observers'[p] = observers[p]
        BY <1>4, <2>3, <3>2 DEF Recovers
      <4>2. observers[p].persisted => HasFailure(observers[p].id)
        BY <4>1 DEF IInv, PairInv
      <4> QED
        BY <1>7, <4>1, <4>2 DEF IInv, PairInv, HasFailure
    <3> QED
      BY <3>1, <3>2
  <2> QED
    BY <2>1, <2>2, <2>3 DEF PairInv
<1> QED
  BY <1>3, <1>5, <1>6, <1>9, <1>10, <1>11, <1>12 DEF IInv

LEMMA BackfillIInv == ASSUME IInv, NEW o \in Observers, Backfill(o) PROVE IInv'
<1> DEFINE kind == "failed"
           t == observers[o].at
           row == Row(kind, observers[o].id, t)
<1>1. Recovers(o) /\ TypeOK /\ observers[o].pc = "backfill"
  BY DEF Backfill, Recovers, IInv
<1>2. /\ observers[o] \in Recovery /\ observers[o].id \in Nat /\ t \in Nat
      /\ observers[o].persisted \in BOOLEAN /\ t <= now
  BY <1>1, RecoveryRecord DEF IInv, PastInv
<1>3. UNCHANGED <<now, incidents, hasAny, opened, reader, owed>>
  BY DEF Backfill
<1>4. CASE rows' = rows \cup {row}
           /\ observers' = [observers EXCEPT ![o].pc = "announce", ![o].persisted = TRUE]
  <2> DEFINE state == [observers[o] EXCEPT !.pc = "announce", !.persisted = TRUE]
  <2>1. /\ state \in Recovery /\ state.id = observers[o].id /\ state.at = observers[o].at
        /\ state.component = observers[o].component
        /\ state.pc = "announce" /\ state.persisted
    BY <1>2 DEF Recovery
  <2>2. observers' = [observers EXCEPT ![o] = state]
    BY <1>4
  <2>3. row \in rows' /\ row.kind = "failed" /\ row.id = observers[o].id /\ row.at = t
    BY <1>4 DEF Row
  <2>4. \E q \in rows' : q.kind = "failed" /\ q.id = state.id /\ q.at <= now
    BY <1>2, <2>1, <2>3
  <2> HIDE DEF state
  <2> QED
    BY <1>1, <1>2, <1>3, <1>4, <2>1, <2>2, <2>4, InsertStep
<1>5. CASE (rows' = rows \/ rows' = rows \cup {row})
           /\ observers' = [observers EXCEPT ![o].pc = "release"]
  <2> DEFINE state == [observers[o] EXCEPT !.pc = "release"]
  <2>1. /\ state \in Recovery /\ state.id = observers[o].id /\ state.at = observers[o].at
        /\ state.component = observers[o].component
        /\ state.pc = "release" /\ state.persisted = observers[o].persisted
    BY <1>2 DEF Recovery
  <2>2. observers' = [observers EXCEPT ![o] = state]
    BY <1>5
  <2>3. state.persisted => HasFailure(state.id)
    BY <1>1, <2>1 DEF IInv, PairInv
  <2> HIDE DEF state
  <2> QED
    BY <1>1, <1>2, <1>3, <1>5, <2>1, <2>2, <2>3, InsertStep
<1> QED
  BY <1>4, <1>5 DEF Backfill, Inserts, InsertFails

LEMMA AnnounceIInv == ASSUME IInv, NEW o \in Observers, Announce(o) PROVE IInv'
<1> DEFINE row == Row("recovered", observers[o].id, now)
<1>1. Recovers(o) /\ TypeOK /\ observers[o].pc = "announce"
  BY DEF Announce, Recovers, IInv
<1>2. /\ observers[o] \in Recovery /\ now \in Nat
      /\ observers[o].persisted /\ HasFailure(observers[o].id)
  BY <1>1, RecoveryRecord DEF IInv, PairInv, TypeOK
<1>3. UNCHANGED <<now, incidents, hasAny, opened, reader, owed>>
  BY DEF Announce
<1>4. PICK pc \in {"settle", "release"} :
        /\ observers' = [observers EXCEPT ![o].pc = pc]
        /\ rows' = rows \/ rows' = rows \cup {row}
  BY DEF Announce, Inserts, InsertFails
<1> DEFINE state == [observers[o] EXCEPT !.pc = pc]
<1>5. /\ state \in Recovery /\ state.id = observers[o].id /\ state.at = observers[o].at
      /\ state.component = observers[o].component /\ state.persisted = observers[o].persisted
  BY <1>2 DEF Recovery
<1>6. observers' = [observers EXCEPT ![o] = state]
  BY <1>4
<1> HIDE DEF state
<1> QED
  BY <1>1, <1>2, <1>3, <1>4, <1>5, <1>6, InsertStep

\* Settling: the observer's incident goes, or makes room for the failure that
\* came in meanwhile; it is not this observer's incident after a restart.
LEMMA SettleIInv == ASSUME IInv, NEW o \in Observers, Settle(o) PROVE IInv'
<1> DEFINE c == observers[o].component
           i == incidents[c]
<1>1. Recovers(o) /\ TypeOK
  BY DEF Settle, Recovers, IInv
<1>2. c \in Components /\ opened \in Nat
  BY <1>1, RecoveryRecord DEF TypeOK
<1>3. /\ observers' = [observers EXCEPT ![o] = Idle]
      /\ UNCHANGED <<now, rows, reader, owed>>
  BY DEF Settle
<1>4. /\ observers' \in [Observers -> {Idle} \cup Listening \cup Recovery]
      /\ ~Recovers(o)' /\ \A p \in Observers \ {o} : observers'[p] = observers[p]
  BY <1>1, <1>3, IdleObserver
<1>5. CASE ~Holds(o, c)
  <2>1. incidents' = incidents
    BY <1>1, <1>5 DEF Settle, TypeOK
  <2>2. hasAny' = hasAny /\ opened' = opened
    BY <1>5 DEF Settle
  <2> QED
    BY <1>3, <2>1, <2>2, ObserverMoves
<1>6. CASE Holds(o, c)
  <2>1. i # None /\ i \in Incidents /\ i.recovering /\ hasAny
    BY <1>1, <1>2, <1>6 DEF Holds, TypeOK, IInv, ClaimInv, OwedInv, FailuresStayOpen
  <2>2. CASE i.reopened # None
    <3> DEFINE new == NewDatabaseIncident(i.reopened)
    <3>1. /\ new \in Incidents /\ new.id = opened + 1 /\ new.at = i.reopened /\ ~new.persisted
          /\ ~new.recovering /\ new.reopened = None
      BY <1>2, <2>1, <2>2 DEF NewDatabaseIncident, Incidents
    <3>2. new # None
      BY <3>1, NoneAssumption
    <3>3. incidents' = [incidents EXCEPT ![c] = new]
      BY <1>6, <2>2 DEF Settle
    <3> HIDE DEF new
    <3>4. /\ incidents' \in [Components -> Incidents \cup {None}]
          /\ incidents'[c] = new /\ \A d \in Components \ {c} : incidents'[d] = incidents[d]
      BY <1>1, <1>2, <3>1, <3>3 DEF TypeOK
    <3>5. hasAny' = hasAny /\ opened' = opened + 1
      BY <1>6, <3>2, <3>4 DEF Settle
    <3>6. opened' \in Nat /\ opened <= opened' /\ new.id <= opened'
      BY <1>2, <3>1, <3>5
    <3>7. new.at <= now
      BY <1>2, <2>1, <2>2, <3>1 DEF IInv, PastInv
    <3>8. TypeOK'
      BY <1>1, <1>3, <1>4, <3>4, <3>5, <3>6 DEF TypeOK
    <3>9. ClaimInv'
      BY <1>4, <3>1, <3>4, ClaimsStand
    <3> QED
      BY <1>2, <1>3, <1>4, <2>1, <3>1, <3>2, <3>4, <3>5, <3>6, <3>7, <3>8, <3>9, IncidentStep
  <2>3. CASE i.reopened = None
    <3>1. incidents' = [incidents EXCEPT ![c] = None]
      BY <1>6, <2>3 DEF Settle
    <3>2. /\ incidents' \in [Components -> Incidents \cup {None}]
          /\ incidents'[c] = None /\ \A d \in Components \ {c} : incidents'[d] = incidents[d]
      BY <1>1, <1>2, <3>1 DEF TypeOK
    <3>3. hasAny' = FlagAfter(incidents') /\ opened' = opened
      BY <1>6, <2>3, <3>2 DEF Settle
    <3>4. hasAny' \in BOOLEAN /\ ((\E d \in Components : incidents'[d] # None) => hasAny')
      BY <2>1, <3>3 DEF FlagAfter
    <3>5. TypeOK'
      BY <1>1, <1>3, <1>4, <3>2, <3>3, <3>4 DEF TypeOK
    <3>6. ClaimInv'
      BY <1>4, <3>2, ClaimsStand
    <3>7. c \notin owed'
      BY <1>2, <1>3, <2>1, <2>3 DEF IInv, OwedInv
    <3>8. opened <= opened'
      BY <1>2, <3>3
    <3> QED
      BY <1>2, <1>3, <1>4, <3>2, <3>4, <3>5, <3>6, <3>7, <3>8, IncidentStep
  <2> QED
    BY <2>2, <2>3
<1> QED
  BY <1>5, <1>6

\* Releasing: the incident stays open for the next success, and remembers the
\* failure row if it was written.
LEMMA ReleaseIInv ==
  ASSUME IInv, NEW o \in Observers, ReleaseDatabaseRecovery(o)
  PROVE  IInv'
<1> DEFINE c == observers[o].component
           i == incidents[c]
<1>1. Recovers(o) /\ TypeOK
  BY DEF ReleaseDatabaseRecovery, Recovers, IInv
<1>2. /\ c \in Components /\ opened \in Nat /\ observers[o].persisted \in BOOLEAN
  BY <1>1, RecoveryRecord DEF TypeOK
<1>3. /\ observers' = [observers EXCEPT ![o] = Idle]
      /\ UNCHANGED <<now, hasAny, opened, rows, reader, owed>>
  BY DEF ReleaseDatabaseRecovery
<1>4. /\ observers' \in [Observers -> {Idle} \cup Listening \cup Recovery]
      /\ ~Recovers(o)' /\ \A p \in Observers \ {o} : observers'[p] = observers[p]
  BY <1>1, <1>3, IdleObserver
<1>5. CASE ~Holds(o, c)
  <2>1. incidents' = incidents
    BY <1>5 DEF ReleaseDatabaseRecovery
  <2> QED
    BY <1>3, <2>1, ObserverMoves
<1>6. CASE Holds(o, c)
  <2> DEFINE new == [i EXCEPT !.recovering = FALSE, !.reopened = None,
                              !.persisted = i.persisted \/ observers[o].persisted]
  <2>1. i # None /\ i \in Incidents /\ i.id = observers[o].id /\ hasAny
    BY <1>1, <1>2, <1>6 DEF Holds, TypeOK, IInv, OwedInv, FailuresStayOpen
  <2>2. incidents' = [incidents EXCEPT ![c] = new]
    BY <1>6 DEF ReleaseDatabaseRecovery
  <2>3. /\ new \in Incidents /\ new.id = i.id /\ new.at = i.at /\ ~new.recovering
        /\ new.reopened = None /\ new.persisted = (i.persisted \/ observers[o].persisted)
    BY <1>2, <2>1 DEF Incidents
  <2> HIDE DEF new
  <2>4. /\ incidents' \in [Components -> Incidents \cup {None}]
        /\ incidents'[c] = new /\ \A d \in Components \ {c} : incidents'[d] = incidents[d]
    BY <1>1, <1>2, <2>2, <2>3 DEF TypeOK
  <2>5. TypeOK'
    BY <1>1, <1>3, <1>4, <2>4 DEF TypeOK
  <2>6. new # None
    BY <2>3, NoneAssumption
  <2>7. new.id <= opened' /\ new.at <= now /\ opened <= opened'
    BY <1>2, <1>3, <2>1, <2>3 DEF IInv, PastInv
  <2>8. new.persisted => HasFailure(new.id)
    BY <1>1, <1>2, <2>1, <2>3 DEF IInv, PairInv
  <2>9. \A p \in Observers \ {o} :
          Recovers(p) /\ observers[p].component = c => observers[p].id # i.id
    BY <1>1, <2>1 DEF IInv, ClaimInv
  <2>10. ClaimInv'
    BY <1>4, <2>3, <2>4, <2>9, ClaimsStand
  <2> QED
    BY <1>2, <1>3, <1>4, <2>1, <2>3, <2>4, <2>5, <2>6, <2>7, <2>8, <2>10, IncidentStep
<1> QED
  BY <1>5, <1>6

-----------------------------------------------------------------------------
(* The reader. *)

\* Steps of the reader leave the rest alone.
LEMMA ReaderStep ==
  ASSUME IInv, UNCHANGED <<now, incidents, hasAny, opened, observers, rows, owed>>,
         reader' \in {NoReader} \cup Reader, ReaderInv'
  PROVE  IInv'
<1>1. TypeOK' /\ RowsInv'
  BY DEF IInv, TypeOK, RowsInv
<1>2. now' \in Nat /\ now <= now'
  BY DEF IInv, TypeOK
<1>3. PastInv' /\ ClaimInv' /\ OwedInv' /\ PairInv'
  BY <1>2, QuietStep
<1> QED
  BY <1>1, <1>3 DEF IInv

LEMMA StartReadingIInv == ASSUME IInv, StartReading PROVE IInv'
<1> DEFINE new == [on |-> TRUE, cursor |-> None, seen |-> <<>>, base |-> UnifiedEvents,
                   done |-> FALSE]
<1>1. UnifiedEvents \subseteq EventRows /\ UnifiedEvents' = UnifiedEvents
  BY DEF UnifiedEvents, IInv, TypeOK, StartReading
<1>2. new \in Reader
  BY <1>1 DEF Reader
<1>3. reader' = new
  BY DEF StartReading
<1>4. \A r \in UnifiedEvents : r \in Beyond(None)'
  BY <1>1 DEF Beyond
<1>5. /\ new.on /\ new.cursor = None /\ new.seen = <<>> /\ new.base = UnifiedEvents
      /\ ~new.done
  OBVIOUS
<1> HIDE DEF new
<1>6. Seen' = {}
  BY <1>3, <1>5 DEF Seen
<1>7. \A i, j \in DOMAIN reader'.seen : FALSE
  BY <1>3, <1>5
<1>8. \A e \in reader'.base \ Seen' : e \in Beyond(reader.cursor)'
  BY <1>3, <1>4, <1>5 DEF Beyond
<1>9. ReaderInv'
  BY <1>1, <1>3, <1>5, <1>6, <1>7, <1>8 DEF ReaderInv
<1> QED
  BY <1>2, <1>3, <1>9, ReaderStep DEF StartReading

\* Two ordered sequences, one after the other, are ordered when the elements of
\* the second come after the last of the first.
LEMMA Concatenation ==
  ASSUME NEW s \in Seq(EventRows), NEW t \in Seq(EventRows),
         \A i, j \in DOMAIN s : i < j => Later(s[i], s[j]),
         \A i, j \in DOMAIN t : i < j => Later(t[i], t[j]),
         s # <<>> => \A j \in DOMAIN t : Later(s[Len(s)], t[j])
  PROVE  /\ s \o t \in Seq(EventRows) /\ Len(s \o t) = Len(s) + Len(t)
         /\ \A i, j \in DOMAIN (s \o t) : i < j => Later((s \o t)[i], (s \o t)[j])
         /\ {(s \o t)[i] : i \in DOMAIN (s \o t)}
              = {s[i] : i \in DOMAIN s} \cup {t[i] : i \in DOMAIN t}
         /\ Len(t) >= 1 => s \o t # <<>> /\ (s \o t)[Len(s \o t)] = t[Len(t)]
<1> DEFINE m == Len(s)
           n == Len(t)
           u == s \o t
<1>1. /\ m \in Nat /\ n \in Nat /\ DOMAIN s = 1..m /\ DOMAIN t = 1..n
      /\ \A i \in 1..m : s[i] \in EventRows
      /\ \A i \in 1..n : t[i] \in EventRows
  OBVIOUS
<1>2. /\ u \in Seq(EventRows) /\ Len(u) = m + n /\ DOMAIN u = 1..(m + n)
      /\ \A i \in 1..m : u[i] = s[i]
      /\ \A i \in (m + 1)..(m + n) : u[i] = t[i - m]
  OBVIOUS
<1>3. \A i \in 1..n : i + m \in (m + 1)..(m + n) /\ u[i + m] = t[i]
  BY <1>1, <1>2
<1> HIDE DEF m, n, u
<1>4. ASSUME NEW i \in 1..(m + n), NEW j \in 1..(m + n), i < j
      PROVE  Later(u[i], u[j])
  <2>1. CASE j \in 1..m
    <3>1. i \in 1..m
      BY <1>1, <1>4, <2>1
    <3> QED
      BY <1>1, <1>2, <1>4, <2>1, <3>1
  <2>2. CASE i \in (m + 1)..(m + n)
    <3>1. /\ j \in (m + 1)..(m + n) /\ i - m \in 1..n /\ j - m \in 1..n
          /\ i - m < j - m
      BY <1>1, <1>4, <2>2
    <3> QED
      BY <1>1, <1>2, <2>2, <3>1
  <2>3. CASE i \in 1..m /\ j \in (m + 1)..(m + n)
    <3>1. j - m \in 1..n /\ m \in 1..m
      BY <1>1, <2>3
    <3>2. s # <<>>
      BY <3>1 DEF m
    <3>3. Later(s[m], t[j - m])
      BY <1>1, <3>1, <3>2 DEF m
    <3>4. s[i] = s[m] \/ Later(s[i], s[m])
      <4>1. i = m \/ i < m
        BY <1>1, <2>3
      <4> QED
        BY <1>1, <2>3, <3>1, <4>1
    <3>5. s[i] \in EventRows /\ s[m] \in EventRows /\ t[j - m] \in EventRows
      BY <1>1, <2>3, <3>1
    <3>6. Later(s[i], t[j - m])
      BY <3>3, <3>4, <3>5, LaterOrder
    <3> QED
      BY <1>2, <2>3, <3>6
  <2> QED
    BY <1>1, <2>1, <2>2, <2>3
<1>5. {u[i] : i \in 1..(m + n)} = {s[i] : i \in 1..m} \cup {t[i] : i \in 1..n}
  <2>1. ASSUME NEW i \in 1..(m + n)
        PROVE  u[i] \in {s[k] : k \in 1..m} \cup {t[k] : k \in 1..n}
    <3>1. CASE i \in 1..m
      BY <1>2, <3>1
    <3>2. CASE i \in (m + 1)..(m + n)
      <4>1. i - m \in 1..n
        BY <1>1, <3>2
      <4> QED
        BY <1>2, <3>2, <4>1
    <3> QED
      BY <1>1, <3>1, <3>2
  <2>2. ASSUME NEW i \in 1..m PROVE s[i] \in {u[k] : k \in 1..(m + n)}
    <3>1. i \in 1..(m + n)
      BY <1>1
    <3> QED
      BY <1>2, <3>1
  <2>3. ASSUME NEW i \in 1..n PROVE t[i] \in {u[k] : k \in 1..(m + n)}
    <3>1. i + m \in 1..(m + n)
      BY <1>1
    <3> QED
      BY <1>3, <3>1
  <2> QED
    BY <2>1, <2>2, <2>3
<1>6. n >= 1 => u # <<>> /\ u[m + n] = t[n]
  <2> SUFFICES ASSUME n >= 1 PROVE u # <<>> /\ u[m + n] = t[n]
    OBVIOUS
  <2>1. n \in 1..n /\ n + m = m + n /\ m + n # 0
    BY <1>1
  <2> QED
    BY <1>2, <1>3, <2>1
<1> QED
  BY <1>1, <1>2, <1>4, <1>5, <1>6 DEF m, n, u

\* A page continues the walk where it stopped.
LEMMA ReadPageIInv == ASSUME IInv, ReadPage PROVE IInv'
<1> DEFINE s == reader.seen
           t == Page(reader.cursor).data
           more == Page(reader.cursor).hasMore
           F == Beyond(reader.cursor)
           shown == {t[i] : i \in DOMAIN t}
           last == t[Len(t)]
<1>1. /\ TypeOK /\ RowsInv /\ ReaderInv /\ rows \subseteq EventRows
      /\ reader.on /\ ~reader.done
      /\ UNCHANGED <<now, incidents, hasAny, opened, observers, rows, owed>>
      /\ reader' = [reader EXCEPT !.seen = s \o t, !.cursor = IF more THEN last ELSE None,
                                  !.done = ~more]
  BY DEF ReadPage, IInv, TypeOK
<1>2. /\ t \in Seq(F) /\ more \in BOOLEAN
      /\ \A i, j \in DOMAIN t : i < j => Later(t[i], t[j])
      /\ more => Len(t) >= 1 /\ \A e \in F \ shown : Later(last, e)
      /\ ~more => F \subseteq shown
  BY <1>1, PageFacts
<1> HIDE DEF t, more
<1>3. reader \in Reader /\ s \in Seq(EventRows)
  <2>1. reader \in {NoReader} \cup Reader /\ reader # NoReader
    <3>1. NoReader.on = FALSE
      BY DEF NoReader
    <3> QED
      BY <1>1, <3>1 DEF TypeOK
  <2>2. reader \in Reader
    BY <2>1
  <2> QED
    BY <2>2 DEF Reader
<1>4. F \subseteq UnifiedEvents /\ UnifiedEvents \subseteq EventRows
      /\ UnifiedEvents' = UnifiedEvents
  BY <1>1 DEF Beyond, UnifiedEvents
<1>5. t \in Seq(EventRows) /\ (\A j \in DOMAIN t : t[j] \in F) /\ shown \subseteq F
  <2>1. \A j \in DOMAIN t : t[j] \in F
    BY <1>2
  <2>2. t \in Seq(EventRows)
    BY <1>2, <1>4, <2>1
  <2> QED
    BY <2>1, <2>2
<1>6. /\ Seen \subseteq UnifiedEvents /\ reader.base \subseteq UnifiedEvents
      /\ \A i, j \in DOMAIN s : i < j => Later(s[i], s[j])
      /\ reader.cursor = None => s = <<>>
      /\ reader.cursor # None => reader.cursor = s[Len(s)]
      /\ \A e \in reader.base \ Seen : e \in F
  BY <1>1 DEF ReaderInv
<1>7. s # <<>> => \A j \in DOMAIN t : Later(s[Len(s)], t[j])
  <2> SUFFICES ASSUME s # <<>>, NEW j \in DOMAIN t PROVE Later(s[Len(s)], t[j])
    OBVIOUS
  <2>1. reader.cursor # None /\ reader.cursor = s[Len(s)]
    BY <1>6
  <2>2. t[j] \in Beyond(reader.cursor)
    BY <1>5
  <2>3. Later(reader.cursor, t[j])
    BY <2>1, <2>2 DEF Beyond
  <2> QED
    BY <2>1, <2>3
<1> HIDE DEF s, F, shown
<1>8. /\ s \o t \in Seq(EventRows)
      /\ \A i, j \in DOMAIN (s \o t) : i < j => Later((s \o t)[i], (s \o t)[j])
      /\ {(s \o t)[i] : i \in DOMAIN (s \o t)} = Seen \cup shown
      /\ Len(t) >= 1 => s \o t # <<>> /\ (s \o t)[Len(s \o t)] = last
  <2>1. Seen = {s[i] : i \in DOMAIN s} /\ shown = {t[i] : i \in DOMAIN t}
    BY DEF Seen, s, shown
  <2> QED
    BY <1>2, <1>3, <1>5, <1>6, <1>7, <2>1, Concatenation
<1>9. more => last \in EventRows /\ last # None
  <2> SUFFICES ASSUME more PROVE last \in EventRows
    BY NoneAssumption
  <2>1. Len(t) \in DOMAIN t
    BY <1>2, <1>5
  <2> QED
    BY <1>5, <2>1
<1> DEFINE u == s \o t
<1> HIDE DEF last, u
<1>10. /\ reader' \in Reader /\ reader'.on /\ reader'.seen = u /\ reader'.base = reader.base
       /\ reader'.cursor = (IF more THEN last ELSE None) /\ reader'.done = ~more
  <2>1. u \in Seq(EventRows) /\ (IF more THEN last ELSE None) \in EventRows \cup {None}
    BY <1>8, <1>9 DEF u
  <2> QED
    BY <1>1, <1>2, <1>3, <2>1 DEF Reader, u
<1>11. Seen' = Seen \cup shown
  BY <1>8, <1>10 DEF Seen, u
<1>12. Seen' \subseteq UnifiedEvents
  BY <1>4, <1>5, <1>6, <1>11
<1>13. \A i, j \in DOMAIN u : i < j => Later(u[i], u[j])
  BY <1>8 DEF u
<1>14. more => /\ u # <<>> /\ last = u[Len(u)]
               /\ \A e \in reader.base \ Seen' : e \in UnifiedEvents /\ Later(last, e)
  BY <1>2, <1>4, <1>6, <1>8, <1>11 DEF u
<1>15. ~more => reader.base \subseteq Seen'
  BY <1>2, <1>6, <1>11
<1>16. ASSUME more, NEW e \in reader.base \ Seen' PROVE e \in Beyond(reader.cursor)'
  BY <1>4, <1>10, <1>14, <1>16 DEF Beyond, Later
<1>17. ReaderInv'
  <2>1. Seen' \subseteq UnifiedEvents' /\ reader'.base \subseteq UnifiedEvents'
    BY <1>4, <1>6, <1>10, <1>12
  <2>2. \A i, j \in DOMAIN reader'.seen : i < j => Later(reader'.seen[i], reader'.seen[j])
    BY <1>10, <1>13
  <2>3. ~reader'.done =>
          /\ reader'.cursor # None
          /\ reader'.seen # <<>> /\ reader'.cursor = reader'.seen[Len(reader'.seen)]
          /\ \A e \in reader'.base \ Seen' : e \in Beyond(reader.cursor)'
    BY <1>9, <1>10, <1>14, <1>16
  <2>4. reader'.done => reader'.base \subseteq Seen'
    BY <1>10, <1>15
  <2> QED
    BY <2>1, <2>2, <2>3, <2>4 DEF ReaderInv, Later
<1> QED
  BY <1>1, <1>10, <1>17, ReaderStep

-----------------------------------------------------------------------------
(* The results. *)

LEMMA NextIInv == IInv /\ [Next]_vars => IInv'
<1> SUFFICES ASSUME IInv, [Next]_vars PROVE IInv'
  OBVIOUS
<1>1. CASE Tick \/ Restart
  BY <1>1, TickIInv, RestartIInv
<1>2. ASSUME NEW o \in Observers, NEW c \in Components,
             OperationFails(o, c) \/ OperationSucceeds(o, c)
      PROVE  IInv'
  BY <1>2, OperationIInv
<1>3. ASSUME NEW o \in Observers, Step(o) PROVE IInv'
  BY <1>3, RememberIInv, ClaimIInv, BackfillIInv, AnnounceIInv, SettleIInv, ReleaseIInv DEF Step
<1>4. ASSUME NEW o \in Observers, Cancel(o) PROVE IInv'
  BY <1>4, CancelIInv
<1>5. ASSUME NEW o \in Observers,
             Record(o) \/ RecordDuringDatabaseIncident(o) \/ RecordFails(o)
      PROVE  IInv'
  BY <1>5, RecordIInv
<1>6. ASSUME NEW kind \in DomainKinds, DomainFact(kind) PROVE IInv'
  BY <1>6, DomainFactIInv
<1>7. CASE StartReading \/ ReadPage
  BY <1>7, StartReadingIInv, ReadPageIInv
<1>8. CASE UNCHANGED vars
  <2>1. UNCHANGED <<now, incidents, hasAny, opened, observers, rows, owed>> /\ reader' = reader
    BY <1>8 DEF vars
  <2>2. ReaderInv' /\ reader' \in {NoReader} \cup Reader
    BY <2>1, ReaderKept DEF IInv, TypeOK
  <2> QED
    BY <2>1, <2>2, ReaderStep
<1> QED
  BY <1>1, <1>2, <1>3, <1>4, <1>5, <1>6, <1>7, <1>8 DEF Next

\* The inductive invariant of incidents, rows and walks holds in every state.
THEOREM Invariance == Spec => []IInv
BY InitIInv, NextIInv, PTL DEF Spec

\* observe, remember_database_failure and finish_database_recovery never swallow
\* a failure: what failed after the last claim has an open incident, announced by
\* has_database_incidents, whatever is cancelled or restarted between their steps.
THEOREM FailuresHold == Spec => []FailuresStayOpen
<1>1. IInv => FailuresStayOpen
  BY DEF IInv, OwedInv
<1> QED
  BY <1>1, Invariance, PTL

\* A recovery row of database_incidents is in the table only with the failure row
\* of the same incident, which is not younger.
THEOREM RecoveriesPaired == Spec => []RecoveriesArePaired
<1>1. IInv => RecoveriesArePaired
  BY DEF IInv, PairInv
<1> QED
  BY <1>1, Invariance, PTL

\* Following the cursor through the pages of the event feed shows every event that
\* was there at the start once, in order, for every page size, with rows
\* committed meanwhile and under older timestamps.
THEOREM WalksComplete == Spec => []WalksAreComplete
<1>1. IInv => WalksAreComplete
  <2> SUFFICES ASSUME IInv, reader.on
               PROVE  /\ \A i, j \in DOMAIN reader.seen :
                           i < j => Later(reader.seen[i], reader.seen[j])
                      /\ \A i \in DOMAIN reader.seen : reader.seen[i].kind \notin Routine
                      /\ reader.done =>
                           reader.base \subseteq {reader.seen[i] : i \in DOMAIN reader.seen}
    BY DEF WalksAreComplete
  <2>1. Seen \subseteq UnifiedEvents
    BY DEF IInv, ReaderInv
  <2>2. \A i \in DOMAIN reader.seen : reader.seen[i].kind \notin Routine
    BY <2>1 DEF Seen, UnifiedEvents
  <2> QED
    BY <2>2 DEF IInv, ReaderInv, Seen
<1> QED
  BY <1>1, Invariance, PTL

=============================================================================
