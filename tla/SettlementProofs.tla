-------------------------- MODULE SettlementProofs --------------------------
(***************************************************************************)
(* Proofs about Settlement for any finite set of requests, any capacity    *)
(* and write limit, and for a drain that may start at any moment; and      *)
(* about StreamRelay for any upstream, any frame limit and any number of   *)
(* tracked choices.  The second part reads chunks piece by piece: the      *)
(* induction it needs, over the turns of feed's loop, is CountingUp.       *)
(***************************************************************************)
EXTENDS Settlement, StreamRelay, FiniteSetTheorems, SequenceTheorems,
        WellFoundedInduction, TLAPS

\* The number of requests in a set of phases after one request moved.
LEMMA CountStep ==
    ASSUME phase \in [Requests -> Phases], NEW S, NEW r \in Requests, NEW to,
           phase' = [phase EXCEPT ![r] = to]
    PROVE  /\ Cardinality(In(S)) \in Nat
           /\ Cardinality(In(S)') =
                 IF to \in S /\ phase[r] \notin S THEN Cardinality(In(S)) + 1
                 ELSE IF to \notin S /\ phase[r] \in S THEN Cardinality(In(S)) - 1
                 ELSE Cardinality(In(S))
<1>1. IsFiniteSet(In(S)) /\ Cardinality(In(S)) \in Nat
  BY FS_Subset, FS_CardinalityType, LimitsAssumption DEF In
<1>2. CASE to \in S /\ phase[r] \notin S
  <2>1. In(S)' = In(S) \cup {r} /\ r \notin In(S)
    BY <1>2 DEF In
  <2> QED
    BY <1>1, <1>2, <2>1, FS_AddElement
<1>3. CASE to \notin S /\ phase[r] \in S
  <2>1. In(S)' = In(S) \ {r} /\ r \in In(S)
    BY <1>3 DEF In
  <2> QED
    BY <1>1, <1>3, <2>1, FS_RemoveElement
<1>4. CASE to \in S <=> phase[r] \in S
  <2>1. In(S)' = In(S)
    BY <1>4 DEF In
  <2> QED
    BY <1>1, <1>4, <2>1
<1> QED
  BY <1>2, <1>3, <1>4

-----------------------------------------------------------------------------
\* A step of one request, named once for the case splits below.
RequestStep(r) ==
    \/ Admission(r) \/ Handler(r) \/ Task(r)
    \/ \E fault \in BOOLEAN : EndStream(r, fault)

LEMMA TypeInv == TypeOK /\ [Next]_vars => TypeOK'
<1> SUFFICES ASSUME TypeOK, [Next]_vars PROVE TypeOK'
  OBVIOUS
<1> USE DEF TypeOK, Phases, MaxTries
<1>1. CASE Shutdown
  <2>1. Capacity \in Nat
    BY LimitsAssumption
  <2>2. CASE Signal
    BY <2>2 DEF Signal
  <2>3. CASE StoreClosing
    BY <2>3, Zenon DEF StoreClosing
  <2>4. CASE AcquireMany
    BY <2>4 DEF AcquireMany
  <2>5. CASE DrainDone
    BY <2>1, <2>5 DEF DrainDone
  <2> QED
    BY <1>1, <2>2, <2>3, <2>4, <2>5 DEF Shutdown
<1>2. ASSUME NEW r \in Requests, Admission(r)
      PROVE  TypeOK'
  BY <1>2 DEF Admission, Arrive, Reject, CheckClosing, TryAcquire, Recheck, Goto,
     ReleasePermit
<1>3. ASSUME NEW r \in Requests, Handler(r)
      PROVE  TypeOK'
  <2>1. CASE LeaveHandler(r)
    BY <2>1 DEF LeaveHandler, Goto, ReleasePermit
  <2>2. CASE FinishPlain(r) \/ FinishStream(r)
    BY <2>2 DEF FinishPlain, FinishStream, Goto
  <2>3. CASE RecordPlain(r)
    BY <2>3 DEF RecordPlain, Goto, ReleasePermit, Inserted
  <2> QED
    BY <1>3, <2>1, <2>2, <2>3 DEF Handler
<1>4. ASSUME NEW r \in Requests, Task(r)
      PROVE  TypeOK'
  <2>1. CASE AcquireWrite(r)
    BY <2>1 DEF AcquireWrite, Goto
  <2>2. CASE WriteOk(r)
    BY <2>2 DEF WriteOk, Goto, Inserted
  <2>3. CASE WriteError(r)
    BY <2>3 DEF WriteError, Goto, Inserted
  <2>4. CASE FinishTask(r)
    BY <2>4 DEF FinishTask, Goto, ReleasePermit
  <2> QED
    BY <1>4, <2>1, <2>2, <2>3, <2>4 DEF Task
<1>5. ASSUME NEW r \in Requests, NEW fault \in BOOLEAN, EndStream(r, fault)
      PROVE  TypeOK'
  BY <1>5 DEF EndStream, Goto
<1>6. CASE UNCHANGED vars
  BY <1>6 DEF vars
<1> QED
  BY <1>1, <1>2, <1>3, <1>4, <1>5, <1>6 DEF Next

-----------------------------------------------------------------------------
\* The inductive invariant.  Drain knows that nobody owns a permit only
\* because permits are conserved, and a late request is turned away only
\* because the flag was stored before the permits were collected.
ClosedBeforeDrained == server \in {"draining", "stopped"} => closing

\* hoard is empty unless acquire_many is waiting.
HoardOnlyDraining == server # "draining" => hoard = 0

SettlementInv ==
    /\ TypeOK
    /\ PermitsConserved
    /\ ClosedBeforeDrained
    /\ HoardOnlyDraining
    /\ NothingAfterStop
    /\ RecordedOnce

LEMMA InitSettlementInv == Init => SettlementInv
<1> SUFFICES ASSUME Init PROVE SettlementInv
  OBVIOUS
<1>1. TypeOK
  <2>1. Capacity \in Nat /\ WriteLimit \in Nat
    BY LimitsAssumption
  <2>2. /\ closing \in BOOLEAN /\ failed \in [Requests -> BOOLEAN]
        /\ marked \in [Requests -> BOOLEAN]
    BY Zenon DEF Init
  <2>3. /\ phase \in [Requests -> Phases] /\ rows \in [Requests -> Nat]
        /\ tries \in [Requests -> 0..MaxTries]
        /\ server \in {"serving", "stopping", "draining", "stopped"}
    BY DEF Init, Phases, MaxTries
  <2>4. permits \in Nat /\ hoard \in Nat /\ writes \in Nat
    BY <2>1 DEF Init
  <2> QED
    BY <2>2, <2>3, <2>4 DEF TypeOK
<1>2. Holders = {} /\ Writers = {}
  BY DEF Init, Holders, Writers, In, Holding, WritingPhases
<1>3. PermitsConserved
  BY <1>2, FS_EmptySet, LimitsAssumption DEF Init, PermitsConserved
<1> QED
  BY <1>1, <1>3
     DEF SettlementInv, Init, ClosedBeforeDrained, HoardOnlyDraining,
         NothingAfterStop, RecordedOnce

\* Conservation over a step of request r: what the phase change adds to the
\* owners, the counters lose.
LEMMA RequestConserves ==
    ASSUME TypeOK, PermitsConserved, NEW r \in Requests, RequestStep(r)
    PROVE  PermitsConserved'
<1> DEFINE H == Cardinality(Holders)
           W == Cardinality(Writers)
<1>1. ASSUME NEW from, NEW to, Goto(r, from, to)
      PROVE  /\ H \in Nat /\ W \in Nat
             /\ H' = IF to \in Holding /\ from \notin Holding THEN H + 1
                     ELSE IF to \notin Holding /\ from \in Holding THEN H - 1
                     ELSE H
             /\ W' = IF to \in WritingPhases /\ from \notin WritingPhases THEN W + 1
                     ELSE IF to \notin WritingPhases /\ from \in WritingPhases
                     THEN W - 1 ELSE W
  BY <1>1, CountStep DEF TypeOK, Holders, Writers, Goto
<1>2. permits + hoard + H = Capacity /\ writes + W = WriteLimit
  BY DEF PermitsConserved
<1>3. permits \in Nat /\ hoard \in Nat /\ writes \in Nat
  BY DEF TypeOK
<1> HIDE DEF H, W
<1>4. permits' + hoard' + H' = Capacity /\ writes' + W' = WriteLimit
  <2>1. CASE Arrive(r)
    BY <2>1, <1>1, <1>2, <1>3
       DEF Arrive, ReleasePermit, Holding, WritingPhases
  <2>0. CASE Reject(r)
    BY <2>0, <1>1, <1>2, <1>3
       DEF Reject, Holding, WritingPhases
  <2>2. CASE CheckClosing(r)
    BY <2>2, <1>1, <1>2, <1>3
       DEF CheckClosing, ReleasePermit, Holding, WritingPhases
  <2>3. CASE TryAcquire(r)
    BY <2>3, <1>1, <1>2, <1>3
       DEF TryAcquire, ReleasePermit, Holding, WritingPhases
  <2>4. CASE Recheck(r)
    BY <2>4, <1>1, <1>2, <1>3
       DEF Recheck, ReleasePermit, Holding, WritingPhases
  <2>5. CASE LeaveHandler(r)
    BY <2>5, <1>1, <1>2, <1>3
       DEF LeaveHandler, ReleasePermit, Holding, WritingPhases
  <2>6. CASE FinishPlain(r)
    BY <2>6, <1>1, <1>2, <1>3
       DEF FinishPlain, ReleasePermit, Holding, WritingPhases
  <2>7. CASE RecordPlain(r)
    BY <2>7, <1>1, <1>2, <1>3
       DEF RecordPlain, ReleasePermit, Holding, WritingPhases
  <2>8. CASE FinishStream(r)
    BY <2>8, <1>1, <1>2, <1>3
       DEF FinishStream, ReleasePermit, Holding, WritingPhases
  <2>9. CASE AcquireWrite(r)
    BY <2>9, <1>1, <1>2, <1>3
       DEF AcquireWrite, ReleasePermit, Holding, WritingPhases
  <2>10. CASE WriteOk(r)
    BY <2>10, <1>1, <1>2, <1>3
       DEF WriteOk, ReleasePermit, Holding, WritingPhases
  <2>11. CASE WriteError(r)
    BY <2>11, <1>1, <1>2, <1>3
       DEF WriteError, ReleasePermit, Holding, WritingPhases
  <2>12. CASE FinishTask(r)
    BY <2>12, <1>1, <1>2, <1>3
       DEF FinishTask, ReleasePermit, Holding, WritingPhases
  <2>13. ASSUME NEW fault \in BOOLEAN, EndStream(r, fault)
         PROVE  permits' + hoard' + H' = Capacity /\ writes' + W' = WriteLimit
    BY <2>13, <1>1, <1>2, <1>3
       DEF EndStream, ReleasePermit, Holding, WritingPhases
  <2> QED
    BY <2>0, <2>1, <2>2, <2>3, <2>4, <2>5, <2>6, <2>7, <2>8, <2>9, <2>10, <2>11, <2>12, <2>13
       DEF RequestStep, Admission, Handler, Task
<1> QED
  BY <1>4 DEF PermitsConserved, H, W

\* drain holds every permit only when no request owns one and none is free.
LEMMA AllHoarded ==
    ASSUME TypeOK, PermitsConserved, hoard = Capacity
    PROVE  permits = 0 /\ Holders = {}
<1>1. IsFiniteSet(Holders) /\ Cardinality(Holders) \in Nat
  BY FS_Subset, FS_CardinalityType, LimitsAssumption DEF Holders, In
<1>2. permits = 0 /\ Cardinality(Holders) = 0
  BY <1>1, LimitsAssumption DEF TypeOK, PermitsConserved
<1> QED
  BY <1>1, <1>2, FS_EmptySet

LEMMA ShutdownConserves ==
    ASSUME TypeOK, PermitsConserved, HoardOnlyDraining, Shutdown
    PROVE  PermitsConserved'
<1>1. Holders' = Holders /\ Writers' = Writers /\ writes' = writes
  BY DEF Shutdown, Signal, StoreClosing, AcquireMany, DrainDone, Holders,
     Writers, In
<1>0. Cardinality(Holders) \in Nat
  BY FS_Subset, FS_CardinalityType, LimitsAssumption DEF Holders, In
<1>2. CASE DrainDone
  <2>1. permits = 0
    BY <1>2, AllHoarded DEF DrainDone
  <2> QED
    BY <1>1, <1>2, <1>0, <2>1, LimitsAssumption DEF DrainDone, PermitsConserved
<1>3. CASE AcquireMany
  <2>1. hoard = 0
    BY <1>3 DEF AcquireMany, HoardOnlyDraining
  <2> QED
    BY <1>1, <1>3, <1>0, <2>1 DEF AcquireMany, PermitsConserved, TypeOK
<1>4. CASE Signal \/ StoreClosing
  BY <1>1, <1>4 DEF Signal, StoreClosing, PermitsConserved
<1> QED
  BY <1>2, <1>3, <1>4 DEF Shutdown

\* After the stop a request may only move from the second look to rejection.
LEMMA NothingAfterStopStep ==
    ASSUME SettlementInv, Next
    PROVE  NothingAfterStop'
<1> SUFFICES ASSUME server' = "stopped", NEW q \in Requests
             PROVE  phase'[q] \notin Holding \ {"rechecking"}
  BY DEF NothingAfterStop
<1>1. phase \in [Requests -> Phases]
  BY DEF SettlementInv, TypeOK
<1>2. CASE Shutdown
  <2>1. CASE DrainDone
    <3>1. q \notin Holders
      BY <2>1, AllHoarded DEF DrainDone, SettlementInv
    <3> QED
      BY <2>1, <3>1 DEF DrainDone, Holders, In
  <2>2. CASE Signal \/ StoreClosing \/ AcquireMany
    BY <2>2 DEF Signal, StoreClosing, AcquireMany
  <2> QED
    BY <1>2, <2>1, <2>2 DEF Shutdown
<1>3. ASSUME NEW r \in Requests, RequestStep(r)
      PROVE  phase'[q] \notin Holding \ {"rechecking"}
  <2>1. server = "stopped" /\ closing
    BY <1>3 DEF RequestStep, Admission, Handler, Task, Arrive, Reject, CheckClosing,
       TryAcquire, Recheck, LeaveHandler, FinishPlain, RecordPlain,
       FinishStream, AcquireWrite, WriteOk, WriteError, FinishTask, EndStream,
       SettlementInv, ClosedBeforeDrained
  <2>2. phase[q] \notin Holding \ {"rechecking"}
        /\ phase[r] \notin Holding \ {"rechecking"}
    BY <2>1 DEF SettlementInv, NothingAfterStop
  <2>3. Admission(r)
    BY <1>3, <2>2 DEF RequestStep, Handler, Task, LeaveHandler, FinishPlain,
       RecordPlain, FinishStream, AcquireWrite, WriteOk, WriteError, FinishTask,
       EndStream, Goto, Holding
  <2>4. ASSUME NEW from, NEW to, Goto(r, from, to), to \notin Holding \ {"rechecking"}
        PROVE  phase'[q] \notin Holding \ {"rechecking"}
    BY <1>1, <2>2, <2>4 DEF Goto
  <2>5. CASE Arrive(r)
    BY <2>1, <2>5 DEF Arrive
  <2>0. CASE Reject(r)
    BY <2>0, <2>4 DEF Reject, Holding
  <2>6. CASE CheckClosing(r)
    BY <2>1, <2>4, <2>6 DEF CheckClosing, Holding
  <2>7. CASE TryAcquire(r)
    BY <2>4, <2>7 DEF TryAcquire, Holding
  <2>8. CASE Recheck(r)
    BY <2>1, <2>4, <2>8 DEF Recheck, Holding
  <2> QED
    BY <2>0, <2>3, <2>5, <2>6, <2>7, <2>8 DEF Admission
<1> QED
  BY <1>2, <1>3 DEF Next, RequestStep

\* The conflict clause keeps one row per request across repeated inserts.
LEMMA RecordedOnceStep ==
    ASSUME TypeOK, RecordedOnce, Next
    PROVE  RecordedOnce'
<1>1. \/ rows' = rows
      \/ \E r \in Requests : rows' = Inserted(r)
  BY DEF Next, Shutdown, Signal, StoreClosing, AcquireMany, DrainDone, Admission,
     Handler, Task, Arrive, Reject, CheckClosing, TryAcquire, Recheck, LeaveHandler,
     FinishPlain, RecordPlain, FinishStream, AcquireWrite, WriteOk, WriteError,
     FinishTask, EndStream
<1> QED
  BY <1>1 DEF RecordedOnce, TypeOK, Inserted

LEMMA NextSettlementInv == SettlementInv /\ [Next]_vars => SettlementInv'
<1> SUFFICES ASSUME SettlementInv, [Next]_vars PROVE SettlementInv'
  OBVIOUS
<1>1. TypeOK'
  BY TypeInv DEF SettlementInv
<1>2. CASE Next
  <2>1. PermitsConserved'
    <3>1. CASE Shutdown
      BY <3>1, ShutdownConserves DEF SettlementInv
    <3>2. ASSUME NEW r \in Requests, RequestStep(r)
          PROVE  PermitsConserved'
      BY <3>2, RequestConserves DEF SettlementInv
    <3> QED
      BY <1>2, <3>1, <3>2 DEF Next, RequestStep
  <2>2. ClosedBeforeDrained' /\ HoardOnlyDraining'
    <3>1. CASE Shutdown
      BY <3>1 DEF Shutdown, Signal, StoreClosing, AcquireMany, DrainDone,
         SettlementInv, ClosedBeforeDrained, HoardOnlyDraining
    <3>2. ASSUME NEW r \in Requests, RequestStep(r)
          PROVE  /\ server' = server /\ closing' = closing
                 /\ server # "draining" => hoard' = hoard
      BY <3>2 DEF RequestStep, Admission, Handler, Task, Arrive, Reject, CheckClosing,
         TryAcquire, Recheck, LeaveHandler, FinishPlain, RecordPlain,
         FinishStream, AcquireWrite, WriteOk, WriteError, FinishTask, EndStream,
         ReleasePermit
    <3>3. CASE ~Shutdown
      BY <1>2, <3>2, <3>3
         DEF Next, RequestStep, SettlementInv, ClosedBeforeDrained,
             HoardOnlyDraining
    <3> QED
      BY <3>1, <3>3
  <2>3. NothingAfterStop'
    BY <1>2, <2>1, <2>2, NothingAfterStopStep DEF SettlementInv
  <2>4. RecordedOnce'
    BY <1>2, RecordedOnceStep DEF SettlementInv
  <2> QED
    BY <1>1, <2>1, <2>2, <2>3, <2>4 DEF SettlementInv
<1>3. CASE UNCHANGED vars
  BY <1>3 DEF vars, SettlementInv, TypeOK, PermitsConserved, ClosedBeforeDrained,
     HoardOnlyDraining, NothingAfterStop, RecordedOnce, Holders, Writers, In
<1> QED
  BY <1>2, <1>3

-----------------------------------------------------------------------------
LEMMA SettlementInvariant == Spec => []SettlementInv
BY InitSettlementInv, NextSettlementInv, PTL DEF Spec

\* Every reachable settlement state is well typed.
THEOREM TypeCorrect == Spec => []TypeOK
BY SettlementInvariant, PTL DEF SettlementInv

\* Permits are conserved on every path, so at most Capacity accounted requests
\* are outstanding and at most WriteLimit inserts run at once.
THEOREM PermitsAlwaysConserved == Spec => []PermitsConserved
BY SettlementInvariant, PTL DEF SettlementInv

\* When drain has returned no request calls an upstream, streams or writes any
\* more, even one that raced drain through try_reserve.
THEOREM DrainIsFinal == Spec => []NothingAfterStop
BY SettlementInvariant, PTL DEF SettlementInv

\* No retry and no lost acknowledgement records a request twice.
THEOREM NeverRecordedTwice == Spec => []RecordedOnce
BY SettlementInvariant, PTL DEF SettlementInv

-----------------------------------------------------------------------------
(***************************************************************************)
(* StreamRelay: the relay and the observer of a streaming response, whose  *)
(* report is what Settlement's write task records.                         *)
(***************************************************************************)

LEMMA LeastNumber ==
    ASSUME NEW S \in SUBSET Nat, S # {}
    PROVE  \E n \in S : \A m \in S : n <= m
<1> DEFINE R == OpToRel(<, Nat)
<1>1. IsWellFoundedOn(R, Nat)
  BY NatLessThanWellFounded
<1>2. \A m, n \in S : <<m, n>> \in R <=> m < n
  BY DEF OpToRel
<1> HIDE DEF R
<1>3. PICK n \in S : \A m \in S : <<m, n>> \notin R
  BY <1>1, WFMin
<1>4. \A m \in S : ~(m < n)
  BY <1>2, <1>3
<1> QED
  BY <1>4

\* Induction, over the set of numbers that satisfy a property.
LEMMA CountingUp ==
    ASSUME NEW S, 0 \in S, \A n \in Nat : n \in S => n + 1 \in S
    PROVE  Nat \subseteq S
<1> SUFFICES ASSUME ~(Nat \subseteq S) PROVE FALSE
  OBVIOUS
<1> DEFINE T == Nat \ S
<1>1. PICK n \in T : \A m \in T : n <= m
  BY LeastNumber
<1>2. n - 1 \in Nat /\ n - 1 \notin T
  BY <1>1
<1> QED
  BY <1>1, <1>2

-----------------------------------------------------------------------------
\* A run of feed's loop: what is fed after each piece.
IsRun(run, start, chunk) ==
    run = [n \in 0..Len(chunk) |->
              IF n = 0 THEN start ELSE FeedPiece(run[n - 1], chunk[n])]

LEMMA RunExists ==
    ASSUME NEW start, NEW chunk \in Seq(Pieces)
    PROVE  \E run : IsRun(run, start, chunk)
<1> DEFINE Upto(run, k) == run = [n \in 0..k |-> IF n = 0 THEN start
                                  ELSE FeedPiece(run[n - 1], chunk[n])]
           S == {k \in Nat : \E run : Upto(run, k)}
<1>1. 0 \in S
  <2>1. Upto([n \in 0..0 |-> start], 0)
    OBVIOUS
  <2> QED
    BY <2>1
<1>2. ASSUME NEW k \in Nat, k \in S PROVE k + 1 \in S
  <2>1. PICK run : Upto(run, k)
    BY <1>2
  <2> DEFINE next == [n \in 0..(k + 1) |->
                        IF n = k + 1 THEN FeedPiece(run[k], chunk[k + 1]) ELSE run[n]]
  <2>2. \A n \in 0..k : run[n] = IF n = 0 THEN start ELSE FeedPiece(run[n - 1], chunk[n])
    BY <2>1
  <2>3. /\ \A n \in 0..k : next[n] = run[n]
        /\ next[k + 1] = FeedPiece(run[k], chunk[k + 1])
        /\ next = [n \in 0..(k + 1) |-> next[n]]
    OBVIOUS
  <2> HIDE DEF next
  <2>4. \A n \in 0..(k + 1) : next[n] = IF n = 0 THEN start
                                       ELSE FeedPiece(next[n - 1], chunk[n])
    <3> TAKE n \in 0..(k + 1)
    <3>1. CASE n = k + 1
      BY <2>3, <3>1
    <3>2. CASE n = 0
      <4>1. 0 \in 0..k
        OBVIOUS
      <4> QED
        BY <2>2, <2>3, <3>2, <4>1
    <3>3. CASE n \in 1..k
      <4>1. n \in 0..k /\ n - 1 \in 0..k /\ n # 0
        BY <3>3
      <4> QED
        BY <2>2, <2>3, <4>1
    <3> QED
      BY <3>1, <3>2, <3>3
  <2>5. Upto(next, k + 1)
    BY <2>3, <2>4
  <2> HIDE DEF Upto
  <2> QED
    BY <2>5
<1>3. Len(chunk) \in S
  <2> HIDE DEF S
  <2> QED BY <1>1, <1>2, CountingUp
<1> QED
  BY <1>3 DEF IsRun

LEMMA RunOfFeed ==
    ASSUME NEW start, NEW chunk \in Seq(Pieces)
    PROVE  \E run : IsRun(run, start, chunk) /\ FeedPieces(start, chunk) = run[Len(chunk)]
<1> DEFINE fed == CHOOSE run : IsRun(run, start, chunk)
<1>1. IsRun(fed, start, chunk)
  BY RunExists
<1>2. FeedPieces(start, chunk) = fed[Len(chunk)]
  BY DEF FeedPieces, IsRun
<1> QED
  BY <1>1, <1>2

-----------------------------------------------------------------------------
Verdicts == Failures \cup {"Completed", "none"}

\* What a line, an event name or the data of a frame may be.
Words == Pieces \cup {""}

TrackerType ==
    [line : Words, frameBytes : Nat, event : Words, data : Words,
     nonComment : BOOLEAN, sawProvider : BOOLEAN, sawSse : BOOLEAN,
     unfinished : SUBSET Int, sawFinish : BOOLEAN, terminal : Verdicts]

ActivityType == [provider : BOOLEAN, terminal : Verdicts, error : BOOLEAN]

FedType == [t : TrackerType, a : ActivityType]

LEMMA VerdictFacts ==
    /\ "BufferLimitExceeded" \in Failures /\ "UpstreamError" \in Failures
    /\ "none" \notin Failures /\ "Completed" \notin Failures
    /\ Failures \subseteq Verdicts /\ Failures \subseteq Words
    /\ "none" \in Verdicts /\ "Completed" \in Verdicts
BY DEF Failures, Verdicts, Words, Pieces, Data

LEMMA WordFacts ==
    {"", "raw", "delta1", "other", "evother", "done", "everror", "hb"} \subseteq Words
BY DEF Words, Pieces, Data, Events, Comments, Deltas, Finishes

LEMMA MergeType ==
    ASSUME NEW x \in Verdicts, NEW y \in Verdicts
    PROVE  Merge(x, y) \in Verdicts
BY DEF Merge

LEMMA LimitType ==
    ASSUME NEW f \in FedType
    PROVE  /\ LimitExceeded(f) \in FedType
           /\ LimitExceeded(f).t.terminal = "BufferLimitExceeded"
           /\ LimitExceeded(f).a.terminal = "BufferLimitExceeded"
           /\ LimitExceeded(f).a.error
BY VerdictFacts, WordFacts DEF LimitExceeded, FedType, TrackerType, ActivityType

\* What a frame says.
ClassType == [terminal : Verdicts, error : BOOLEAN, gateway : Verdicts]

LEMMA ClassifyType ==
    ASSUME NEW event \in Words, NEW data \in Words
    PROVE  Classify(event, data) \in ClassType
BY VerdictFacts DEF Classify, ClassType

LEMMA TrackType ==
    ASSUME NEW t \in TrackerType, NEW data \in Words
    PROVE  /\ TrackChoice(t, data) \in TrackerType
           /\ TrackChoice(t, data).terminal = t.terminal
<1>1. CASE data \in DOMAIN Finishes
  <2>1. data \notin DOMAIN Deltas
    BY <1>1 DEF Deltas, Finishes
  <2>2. TrackChoice(t, data) = [t EXCEPT !.sawFinish = TRUE,
                                         !.unfinished = @ \ {Finishes[data]}]
    BY <1>1, <2>1 DEF TrackChoice
  <2>3. t.unfinished \ {Finishes[data]} \in SUBSET Int
    BY DEF TrackerType
  <2> QED
    BY <2>2, <2>3 DEF TrackerType
<1>2. CASE data \in DOMAIN Deltas /\ data \notin DOMAIN Finishes
  <2>1. Deltas[data] \in Int
    BY <1>2 DEF Deltas
  <2> QED
    BY <1>2, <2>1 DEF TrackChoice, TrackerType
<1>3. CASE data \notin DOMAIN Deltas /\ data \notin DOMAIN Finishes
  BY <1>3 DEF TrackChoice
<1> QED
  BY <1>1, <1>2, <1>3

LEMMA ConcludeType ==
    ASSUME NEW f \in FedType, NEW c \in ClassType
    PROVE  Conclude(f, c) \in FedType
<1> DEFINE said == IF c.gateway # "none" THEN c.gateway
                   ELSE IF c.error THEN "UpstreamError" ELSE c.terminal
<1>1. said \in Verdicts
  BY VerdictFacts DEF ClassType
<1>2. Merge(f.t.terminal, said) \in Verdicts /\ Merge(f.a.terminal, said) \in Verdicts
  BY <1>1, MergeType DEF FedType, TrackerType, ActivityType
<1> QED
  BY <1>2 DEF Conclude, FedType, TrackerType, ActivityType, ClassType

\* The three ways dispatch goes.
LEMMA DispatchCases ==
    ASSUME NEW f \in FedType
    PROVE  \/ /\ f.t.data = "" /\ f.t.event = "" /\ ~f.t.nonComment
              /\ Dispatch(f) = f
           \/ \E g \in FedType :
                /\ g.a = f.a /\ g.t.terminal = f.t.terminal
                /\ g.t.line = f.t.line /\ g.t.frameBytes = f.t.frameBytes
                /\ g.t.data = "" /\ g.t.event = "" /\ ~g.t.nonComment
                /\ \/ Dispatch(f) = LimitExceeded(g)
                   \/ Dispatch(f) = Conclude(g, Classify(f.t.event, f.t.data))
<1> DEFINE taken   == [f.t EXCEPT !.event = "", !.data = "", !.nonComment = FALSE]
           tracked == TrackChoice(taken, f.t.data)
           g == [f EXCEPT !.t = taken]
           h == [f EXCEPT !.t = tracked]
<1>0. f.t \in TrackerType /\ f.a \in ActivityType /\ f.t.data \in Words
  BY DEF FedType, TrackerType
<1>1. taken \in TrackerType /\ taken.terminal = f.t.terminal
      /\ taken.line = f.t.line /\ taken.frameBytes = f.t.frameBytes
      /\ taken.data = "" /\ taken.event = "" /\ ~taken.nonComment
  BY <1>0, WordFacts DEF TrackerType
<1>2. tracked \in TrackerType /\ tracked.terminal = f.t.terminal
  BY <1>0, <1>1, TrackType
<1>3. tracked.line = f.t.line /\ tracked.frameBytes = f.t.frameBytes
      /\ tracked.data = "" /\ tracked.event = "" /\ ~tracked.nonComment
  BY <1>1 DEF TrackChoice, TrackerType
<1>4. g \in FedType /\ h \in FedType /\ g.t = taken /\ h.t = tracked
      /\ g.a = f.a /\ h.a = f.a
  BY <1>1, <1>2 DEF FedType
<1>5. \/ f.t.data = "" /\ f.t.event = "" /\ ~f.t.nonComment /\ Dispatch(f) = f
      \/ Dispatch(f) = LimitExceeded(g)
      \/ Dispatch(f) = Conclude(h, Classify(f.t.event, f.t.data))
  BY DEF Dispatch
<1> HIDE DEF g, h, taken, tracked
<1> QED
  BY <1>1, <1>2, <1>3, <1>4, <1>5

LEMMA DispatchType ==
    ASSUME NEW f \in FedType
    PROVE  Dispatch(f) \in FedType
<1>1. Classify(f.t.event, f.t.data) \in ClassType
  BY ClassifyType DEF FedType, TrackerType
<1> QED
  BY <1>1, DispatchCases, LimitType, ConcludeType

-----------------------------------------------------------------------------
\* Two trackers that differ in the size of the frame at most.
Same(t, u) ==
    /\ t.line = u.line /\ t.event = u.event /\ t.data = u.data
    /\ t.nonComment = u.nonComment /\ t.sawProvider = u.sawProvider
    /\ t.sawSse = u.sawSse /\ t.unfinished = u.unfinished
    /\ t.sawFinish = u.sawFinish /\ t.terminal = u.terminal

SameFed(f, g) == Same(f.t, g.t) /\ f.a = g.a

LEMMA LimitSame ==
    ASSUME NEW f \in FedType, NEW g \in FedType, SameFed(f, g)
    PROVE  /\ SameFed(LimitExceeded(f), LimitExceeded(g))
           /\ LimitExceeded(f).t.frameBytes = f.t.frameBytes
BY DEF LimitExceeded, SameFed, Same, FedType, TrackerType

LEMMA ConcludeSame ==
    ASSUME NEW f \in FedType, NEW g \in FedType, SameFed(f, g), NEW c
    PROVE  /\ SameFed(Conclude(f, c), Conclude(g, c))
           /\ Conclude(f, c).t.frameBytes = f.t.frameBytes
BY DEF Conclude, SameFed, Same, FedType, TrackerType

LEMMA TrackSame ==
    ASSUME NEW t \in TrackerType, NEW u \in TrackerType, Same(t, u), NEW data \in Words
    PROVE  /\ Same(TrackChoice(t, data), TrackChoice(u, data))
           /\ TrackChoice(t, data).frameBytes = t.frameBytes
<1>1. CASE data \in DOMAIN Finishes
  <2>1. data \notin DOMAIN Deltas
    BY <1>1 DEF Deltas, Finishes
  <2> QED
    BY <1>1, <2>1 DEF TrackChoice, Same, TrackerType
<1>2. CASE data \in DOMAIN Deltas /\ data \notin DOMAIN Finishes
  BY <1>2 DEF TrackChoice, Same, TrackerType
<1>3. CASE data \notin DOMAIN Deltas /\ data \notin DOMAIN Finishes
  BY <1>3 DEF TrackChoice
<1> QED
  BY <1>1, <1>2, <1>3

LEMMA DispatchSame ==
    ASSUME NEW f \in FedType, NEW g \in FedType, SameFed(f, g)
    PROVE  /\ SameFed(Dispatch(f), Dispatch(g))
           /\ Dispatch(f).t.frameBytes = f.t.frameBytes
<1> DEFINE taken(x) == [x.t EXCEPT !.event = "", !.data = "", !.nonComment = FALSE]
           tracked(x) == TrackChoice(taken(x), x.t.data)
           cut1(x) == [x EXCEPT !.t = taken(x)]
           cut2(x) == [x EXCEPT !.t = tracked(x)]
<1>0. f.t \in TrackerType /\ g.t \in TrackerType /\ f.t.data \in Words
      /\ Same(f.t, g.t) /\ f.a = g.a /\ f.t.data = g.t.data /\ f.t.event = g.t.event
      /\ f.t.nonComment = g.t.nonComment
  BY DEF FedType, TrackerType, SameFed, Same
<1>1. taken(f) \in TrackerType /\ taken(g) \in TrackerType /\ Same(taken(f), taken(g))
      /\ taken(f).frameBytes = f.t.frameBytes
  BY <1>0, WordFacts DEF TrackerType, Same
<1>2. /\ tracked(f) \in TrackerType /\ tracked(g) \in TrackerType
      /\ Same(tracked(f), tracked(g)) /\ tracked(f).frameBytes = f.t.frameBytes
      /\ tracked(f).unfinished = tracked(g).unfinished
  <2> HIDE DEF taken
  <2>1. Same(tracked(f), tracked(g)) /\ tracked(f).frameBytes = taken(f).frameBytes
    BY <1>0, <1>1, TrackSame
  <2>2. tracked(f) \in TrackerType /\ tracked(g) \in TrackerType
    BY <1>0, <1>1, TrackType
  <2> QED
    BY <1>1, <2>1, <2>2 DEF Same
<1>3. /\ cut1(f) \in FedType /\ cut1(g) \in FedType /\ SameFed(cut1(f), cut1(g))
      /\ cut1(f).t.frameBytes = f.t.frameBytes
      /\ cut2(f) \in FedType /\ cut2(g) \in FedType /\ SameFed(cut2(f), cut2(g))
      /\ cut2(f).t.frameBytes = f.t.frameBytes
  <2> HIDE DEF taken, tracked
  <2> QED
    BY <1>0, <1>1, <1>2 DEF FedType, SameFed
<1> DEFINE closed(x) == ~x.t.nonComment /\ x.t.data = "" /\ x.t.event = ""
           over(x) == Cardinality(tracked(x).unfinished) > MaxChoices
           class(x) == Classify(x.t.event, x.t.data)
<1>4. \A x \in {f, g} :
         Dispatch(x) = IF closed(x) THEN x
                       ELSE IF over(x) THEN LimitExceeded(cut1(x))
                       ELSE Conclude(cut2(x), class(x))
  BY DEF Dispatch
<1>5. (closed(f) <=> closed(g)) /\ (over(f) <=> over(g)) /\ class(f) = class(g)
  <2> HIDE DEF taken, tracked
  <2> QED
    BY <1>0, <1>2
<1> HIDE DEF cut1, cut2, closed, over, class
<1>6. CASE closed(f)
  BY <1>4, <1>5, <1>6
<1>7. CASE ~closed(f) /\ over(f)
  BY <1>3, <1>4, <1>5, <1>7, LimitSame
<1>8. CASE ~closed(f) /\ ~over(f)
  BY <1>3, <1>4, <1>5, <1>8, ConcludeSame
<1> QED
  BY <1>6, <1>7, <1>8

\* A line is of one kind only.
LEMMA LineKinds ==
    /\ "" \notin Comments /\ "" \notin Events /\ "" \notin Data /\ "meta" # ""
    /\ Comments \cap Events = {} /\ Comments \cap Data = {} /\ Events \cap Data = {}
    /\ "meta" \notin Comments /\ "meta" \notin Events /\ "meta" \notin Data
    /\ Comments \subseteq Words /\ Events \subseteq Words /\ Data \subseteq Words
BY DEF Comments, Events, Data, Deltas, Finishes, Failures, Words, Pieces

\* What process_line does with the six kinds of lines.
LEMMA ProcessLineCases ==
    ASSUME NEW f \in FedType
    PROVE  LET l == f.t.line
               g == [f EXCEPT !.t.line = ""]
           IN  \/ l = "" /\ ProcessLine(f) = Dispatch([g EXCEPT !.t.frameBytes = 0])
               \/ l \in Comments /\ l # "" /\ ProcessLine(f) = g
               \/ /\ l \in Events /\ l # ""
                  /\ ProcessLine(f) = [g EXCEPT !.t.sawSse = TRUE, !.t.event = l]
               \/ /\ l \in Data /\ l # ""
                  /\ ProcessLine(f) = [g EXCEPT !.t.sawSse = TRUE,
                                         !.t.data = IF @ = "" THEN l ELSE "other"]
               \/ l = "meta" /\ ProcessLine(f) = [g EXCEPT !.t.sawSse = TRUE]
               \/ /\ l \notin Comments \cup Events \cup Data \cup {"", "meta"}
                  /\ ProcessLine(f) = [g EXCEPT !.t.nonComment = TRUE]
BY LineKinds DEF ProcessLine

LEMMA EditType ==
    ASSUME NEW f \in FedType, NEW w \in Words, NEW x
    PROVE  /\ x = [f EXCEPT !.t.sawSse = TRUE, !.t.event = w] => x \in FedType
           /\ x = [f EXCEPT !.t.sawSse = TRUE, !.t.data = w] => x \in FedType
           /\ x = [f EXCEPT !.t.sawSse = TRUE] => x \in FedType
           /\ x = [f EXCEPT !.t.nonComment = TRUE] => x \in FedType
<1>1. ASSUME x = [f EXCEPT !.t.sawSse = TRUE, !.t.event = w] PROVE x \in FedType
  BY <1>1 DEF FedType, TrackerType
<1>2. ASSUME x = [f EXCEPT !.t.sawSse = TRUE, !.t.data = w] PROVE x \in FedType
  BY <1>2 DEF FedType, TrackerType
<1>3. ASSUME x = [f EXCEPT !.t.sawSse = TRUE] PROVE x \in FedType
  BY <1>3 DEF FedType, TrackerType
<1>4. ASSUME x = [f EXCEPT !.t.nonComment = TRUE] PROVE x \in FedType
  BY <1>4 DEF FedType, TrackerType
<1> QED
  BY <1>1, <1>2, <1>3, <1>4

LEMMA ProcessLineFacts ==
    ASSUME NEW f \in FedType, NEW g \in FedType, SameFed(f, g)
    PROVE  /\ ProcessLine(f) \in FedType
           /\ SameFed(ProcessLine(f), ProcessLine(g))
           /\ ProcessLine(f).t.frameBytes =
                 IF f.t.line = "" THEN 0 ELSE f.t.frameBytes
<1> DEFINE l == f.t.line
           f1 == [f EXCEPT !.t.line = ""]
           g1 == [g EXCEPT !.t.line = ""]
<1>1. l = g.t.line /\ l \in Words
  BY DEF SameFed, Same, FedType, TrackerType
<1>2. /\ f1 \in FedType /\ g1 \in FedType /\ SameFed(f1, g1)
      /\ f1.t.frameBytes = f.t.frameBytes
  BY WordFacts DEF SameFed, Same, FedType, TrackerType
<1>3. CASE l = ""
  <2> DEFINE f2 == [f1 EXCEPT !.t.frameBytes = 0]
             g2 == [g1 EXCEPT !.t.frameBytes = 0]
  <2>1. ProcessLine(f) = Dispatch(f2) /\ ProcessLine(g) = Dispatch(g2)
    BY <1>1, <1>3, LineKinds DEF ProcessLine
  <2> HIDE DEF f1, g1
  <2>2. f2 \in FedType /\ g2 \in FedType /\ SameFed(f2, g2) /\ f2.t.frameBytes = 0
    BY <1>2 DEF SameFed, Same, FedType, TrackerType
  <2> HIDE DEF f2, g2
  <2> QED
    BY <1>3, <2>1, <2>2, DispatchType, DispatchSame
<1>4. CASE l \in Comments /\ l # ""
  <2>1. ProcessLine(f) = f1 /\ ProcessLine(g) = g1
    BY <1>1, <1>4, LineKinds DEF ProcessLine
  <2> HIDE DEF f1, g1
  <2> QED
    BY <1>2, <1>4, <2>1
<1>9. f1.t \in TrackerType /\ g1.t \in TrackerType /\ Same(f1.t, g1.t) /\ f1.a = g1.a
      /\ f1.t.data = g1.t.data
  <2> HIDE DEF f1, g1
  <2> QED
    BY <1>2 DEF FedType, SameFed, Same
<1>5. CASE l \in Events /\ l # ""
  <2>1. /\ ProcessLine(f) = [f1 EXCEPT !.t.sawSse = TRUE, !.t.event = l]
        /\ ProcessLine(g) = [g1 EXCEPT !.t.sawSse = TRUE, !.t.event = l]
    BY <1>1, <1>9, <1>5, LineKinds DEF ProcessLine
  <2> HIDE DEF f1, g1
  <2>2. /\ ProcessLine(f) \in FedType
        /\ ProcessLine(f).t = [f1.t EXCEPT !.sawSse = TRUE, !.event = l]
        /\ ProcessLine(g).t = [g1.t EXCEPT !.sawSse = TRUE, !.event = l]
        /\ ProcessLine(f).a = f1.a /\ ProcessLine(g).a = g1.a
    <3> HIDE DEF l
    <3>1. ProcessLine(f) \in FedType
      BY <1>1, <1>2, <2>1, EditType
    <3>2. ProcessLine(f).t = [f1.t EXCEPT !.sawSse = TRUE, !.event = l] /\ ProcessLine(f).a = f1.a
      BY <1>2, <2>1 DEF FedType, TrackerType
    <3>3. ProcessLine(g).t = [g1.t EXCEPT !.sawSse = TRUE, !.event = l] /\ ProcessLine(g).a = g1.a
      BY <1>2, <2>1 DEF FedType, TrackerType
    <3> QED
      BY <3>1, <3>2, <3>3
  <2>3. /\ Same(ProcessLine(f).t, ProcessLine(g).t)
        /\ ProcessLine(f).t.frameBytes = f1.t.frameBytes
    BY <1>9, <2>2 DEF Same, TrackerType
  <2> QED
    BY <1>2, <1>9, <1>5, <2>2, <2>3, LineKinds DEF SameFed
<1>6. CASE l \in Data /\ l # ""
  <2> DEFINE d == IF f1.t.data = "" THEN l ELSE "other"
  <2>1. /\ ProcessLine(f) = [f1 EXCEPT !.t.sawSse = TRUE, !.t.data = d]
        /\ ProcessLine(g) = [g1 EXCEPT !.t.sawSse = TRUE, !.t.data = d]
    BY <1>1, <1>9, <1>6, LineKinds DEF ProcessLine
  <2>4. d \in Words
    BY <1>1, WordFacts
  <2> HIDE DEF f1, g1, d
  <2>2. /\ ProcessLine(f) \in FedType
        /\ ProcessLine(f).t = [f1.t EXCEPT !.sawSse = TRUE, !.data = d]
        /\ ProcessLine(g).t = [g1.t EXCEPT !.sawSse = TRUE, !.data = d]
        /\ ProcessLine(f).a = f1.a /\ ProcessLine(g).a = g1.a
    <3> HIDE DEF l
    <3>1. ProcessLine(f) \in FedType
      BY <1>1, <1>2, <2>1, <2>4, EditType
    <3>2. ProcessLine(f).t = [f1.t EXCEPT !.sawSse = TRUE, !.data = d] /\ ProcessLine(f).a = f1.a
      BY <1>2, <2>1 DEF FedType, TrackerType
    <3>3. ProcessLine(g).t = [g1.t EXCEPT !.sawSse = TRUE, !.data = d] /\ ProcessLine(g).a = g1.a
      BY <1>2, <2>1 DEF FedType, TrackerType
    <3> QED
      BY <3>1, <3>2, <3>3
  <2>3. /\ Same(ProcessLine(f).t, ProcessLine(g).t)
        /\ ProcessLine(f).t.frameBytes = f1.t.frameBytes
    BY <1>9, <2>2 DEF Same, TrackerType
  <2> QED
    BY <1>2, <1>9, <1>6, <2>2, <2>3, LineKinds DEF SameFed
<1>7. CASE l = "meta"
  <2>1. /\ ProcessLine(f) = [f1 EXCEPT !.t.sawSse = TRUE]
        /\ ProcessLine(g) = [g1 EXCEPT !.t.sawSse = TRUE]
    BY <1>1, <1>9, <1>7, LineKinds DEF ProcessLine
  <2> HIDE DEF f1, g1
  <2>2. /\ ProcessLine(f) \in FedType
        /\ ProcessLine(f).t = [f1.t EXCEPT !.sawSse = TRUE]
        /\ ProcessLine(g).t = [g1.t EXCEPT !.sawSse = TRUE]
        /\ ProcessLine(f).a = f1.a /\ ProcessLine(g).a = g1.a
    <3> HIDE DEF l
    <3>1. ProcessLine(f) \in FedType
      BY <1>1, <1>2, <2>1, EditType
    <3>2. ProcessLine(f).t = [f1.t EXCEPT !.sawSse = TRUE] /\ ProcessLine(f).a = f1.a
      BY <1>2, <2>1 DEF FedType, TrackerType
    <3>3. ProcessLine(g).t = [g1.t EXCEPT !.sawSse = TRUE] /\ ProcessLine(g).a = g1.a
      BY <1>2, <2>1 DEF FedType, TrackerType
    <3> QED
      BY <3>1, <3>2, <3>3
  <2>3. /\ Same(ProcessLine(f).t, ProcessLine(g).t)
        /\ ProcessLine(f).t.frameBytes = f1.t.frameBytes
    BY <1>9, <2>2 DEF Same, TrackerType
  <2> QED
    BY <1>2, <1>9, <1>7, <2>2, <2>3, LineKinds DEF SameFed
<1>8. CASE l \notin Comments \cup Events \cup Data \cup {"", "meta"}
  <2>1. /\ ProcessLine(f) = [f1 EXCEPT !.t.nonComment = TRUE]
        /\ ProcessLine(g) = [g1 EXCEPT !.t.nonComment = TRUE]
    BY <1>1, <1>9, <1>8, LineKinds DEF ProcessLine
  <2> HIDE DEF f1, g1
  <2>2. /\ ProcessLine(f) \in FedType
        /\ ProcessLine(f).t = [f1.t EXCEPT !.nonComment = TRUE]
        /\ ProcessLine(g).t = [g1.t EXCEPT !.nonComment = TRUE]
        /\ ProcessLine(f).a = f1.a /\ ProcessLine(g).a = g1.a
    <3> HIDE DEF l
    <3>1. ProcessLine(f) \in FedType
      BY <1>1, <1>2, <2>1, EditType
    <3>2. ProcessLine(f).t = [f1.t EXCEPT !.nonComment = TRUE] /\ ProcessLine(f).a = f1.a
      BY <1>2, <2>1 DEF FedType, TrackerType
    <3>3. ProcessLine(g).t = [g1.t EXCEPT !.nonComment = TRUE] /\ ProcessLine(g).a = g1.a
      BY <1>2, <2>1 DEF FedType, TrackerType
    <3> QED
      BY <3>1, <3>2, <3>3
  <2>3. /\ Same(ProcessLine(f).t, ProcessLine(g).t)
        /\ ProcessLine(f).t.frameBytes = f1.t.frameBytes
    BY <1>9, <2>2 DEF Same, TrackerType
  <2> QED
    BY <1>2, <1>9, <1>8, <2>2, <2>3, LineKinds DEF SameFed
<1> QED
  BY <1>3, <1>4, <1>5, <1>6, <1>7, <1>8

LEMMA JoinType ==
    ASSUME NEW l \in Words, NEW p \in Pieces
    PROVE  Join(l, p) \in Words
<1>1. p \in Words
  BY DEF Words
<1> QED
  BY <1>1, WordFacts DEF Join

LEMMA FeedPieceFacts ==
    ASSUME NEW f \in FedType, NEW g \in FedType, SameFed(f, g),
           g.t.frameBytes <= f.t.frameBytes, NEW p \in Pieces
    PROVE  /\ FeedPiece(f, p) \in FedType
           /\ \/ FeedPiece(f, p).t.terminal = "BufferLimitExceeded"
              \/ /\ SameFed(FeedPiece(f, p), FeedPiece(g, p))
                 /\ FeedPiece(g, p).t.frameBytes <= FeedPiece(f, p).t.frameBytes
<1>0. /\ f.t \in TrackerType /\ g.t \in TrackerType /\ f.a = g.a /\ Same(f.t, g.t)
      /\ f.t.terminal = g.t.terminal /\ f.t.line = g.t.line
      /\ f.t.frameBytes \in Nat /\ g.t.frameBytes \in Nat
      /\ f.t.line \in Words /\ f.t.nonComment = g.t.nonComment /\ f.t.nonComment \in BOOLEAN
  BY DEF FedType, TrackerType, SameFed, Same
<1>1. CASE f.t.terminal = "BufferLimitExceeded"
  <2>1. FeedPiece(f, p) = f
    BY <1>1 DEF FeedPiece
  <2> QED
    BY <1>1, <2>1
<1>2. CASE f.t.terminal # "BufferLimitExceeded" /\ f.t.frameBytes >= FrameLimit
  <2>1. FeedPiece(f, p) = LimitExceeded(f)
    BY <1>2 DEF FeedPiece
  <2> QED
    BY <2>1, LimitType
<1>3. CASE f.t.terminal # "BufferLimitExceeded" /\ ~(f.t.frameBytes >= FrameLimit)
  <2> DEFINE f1 == [f EXCEPT !.t.frameBytes = @ + 1]
             g1 == [g EXCEPT !.t.frameBytes = @ + 1]
  <2>1. ~(g.t.frameBytes >= FrameLimit)
    BY <1>0, <1>3, StreamAssumption
  <2>2. /\ f1 \in FedType /\ g1 \in FedType /\ SameFed(f1, g1)
        /\ f1.t.frameBytes = f.t.frameBytes + 1 /\ g1.t.frameBytes = g.t.frameBytes + 1
        /\ f1.t.line = f.t.line
    <3>1. \A x \in FedType : LET y == [x EXCEPT !.t.frameBytes = @ + 1]
             IN  /\ y \in FedType /\ Same(y.t, x.t) /\ y.a = x.a
                 /\ y.t.frameBytes = x.t.frameBytes + 1
      BY DEF FedType, TrackerType, Same
    <3>2. /\ f1 \in FedType /\ Same(f1.t, f.t) /\ f1.a = f.a
          /\ f1.t.frameBytes = f.t.frameBytes + 1
      BY <3>1
    <3>3. /\ g1 \in FedType /\ Same(g1.t, g.t) /\ g1.a = g.a
          /\ g1.t.frameBytes = g.t.frameBytes + 1
      BY <3>1
    <3> HIDE DEF f1, g1
    <3> QED
      BY <1>0, <3>2, <3>3 DEF SameFed, Same
  <2>3. CASE p = "nl"
    <3>1. FeedPiece(f, p) = ProcessLine(f1) /\ FeedPiece(g, p) = ProcessLine(g1)
      BY <1>0, <1>3, <2>1, <2>3 DEF FeedPiece
    <3>2. SameFed(g1, f1) /\ g1.t.line = f1.t.line
      BY <2>2 DEF SameFed, Same
    <3> HIDE DEF f1, g1
    <3>3. /\ ProcessLine(f1) \in FedType /\ SameFed(ProcessLine(f1), ProcessLine(g1))
          /\ ProcessLine(f1).t.frameBytes = IF f1.t.line = "" THEN 0 ELSE f1.t.frameBytes
          /\ ProcessLine(g1).t.frameBytes = IF g1.t.line = "" THEN 0 ELSE g1.t.frameBytes
      BY <2>2, <3>2, ProcessLineFacts
    <3>4. ProcessLine(g1).t.frameBytes <= ProcessLine(f1).t.frameBytes
      <4>0. /\ f1.t.frameBytes \in Nat /\ g1.t.frameBytes \in Nat
            /\ g1.t.frameBytes <= f1.t.frameBytes
        BY <1>0, <2>2
      <4>1. CASE f1.t.line = ""
        <5>1. ProcessLine(f1).t.frameBytes = 0 /\ ProcessLine(g1).t.frameBytes = 0
          BY <3>2, <3>3, <4>1
        <5> QED
          BY <5>1
      <4>2. CASE f1.t.line # ""
        <5>1. /\ ProcessLine(f1).t.frameBytes = f1.t.frameBytes
              /\ ProcessLine(g1).t.frameBytes = g1.t.frameBytes
          BY <3>2, <3>3, <4>2
        <5> QED
          BY <4>0, <5>1
      <4> QED
        BY <4>1, <4>2
    <3> QED
      BY <3>1, <3>3, <3>4
  <2>4. CASE p # "nl"
    <3> DEFINE j == Join(f.t.line, p)
               n == f.t.nonComment \/ (f.t.line = "" /\ p \notin Comments)
               f2 == [f1 EXCEPT !.t.line = j, !.t.nonComment = n]
               g2 == [g1 EXCEPT !.t.line = j, !.t.nonComment = n]
    <3>1. FeedPiece(f, p) = f2 /\ FeedPiece(g, p) = g2
      <4>1. /\ f1.t.line = f.t.line /\ f1.t.nonComment = f.t.nonComment
            /\ g1.t.line = f.t.line /\ g1.t.nonComment = f.t.nonComment
        BY <1>0 DEF FedType, TrackerType
      <4>2. /\ FeedPiece(f, p) = [f1 EXCEPT !.t.line = Join(f1.t.line, p),
                   !.t.nonComment = f1.t.nonComment \/ (f1.t.line = "" /\ p \notin Comments)]
            /\ FeedPiece(g, p) = [g1 EXCEPT !.t.line = Join(g1.t.line, p),
                   !.t.nonComment = g1.t.nonComment \/ (g1.t.line = "" /\ p \notin Comments)]
        BY <1>0, <1>3, <2>1, <2>4 DEF FeedPiece
      <4> HIDE DEF f1, g1
      <4> QED
        BY <4>1, <4>2
    <3>2. j \in Words /\ n \in BOOLEAN
      <4>1. j \in Words
        BY <1>0, JoinType
      <4>2. n \in BOOLEAN
        OBVIOUS
      <4> QED
        BY <4>1, <4>2
    <3> HIDE DEF f1, g1, j, n
    <3>3. f2 \in FedType /\ f2.t.frameBytes = f1.t.frameBytes
      BY <2>2, <3>2 DEF FedType, TrackerType
    <3>4. g2.t.frameBytes = g1.t.frameBytes
      BY <2>2 DEF FedType, TrackerType
    <3>5. SameFed(f2, g2)
      BY <2>2 DEF FedType, TrackerType, SameFed, Same
    <3> HIDE DEF f2, g2
    <3> QED
      BY <1>0, <2>2, <3>1, <3>3, <3>4, <3>5
  <2> QED
    BY <2>3, <2>4
<1> QED
  BY <1>1, <1>2, <1>3

-----------------------------------------------------------------------------
\* How the terminal of the tracker and the one of the activity stay in step.
Linked(f) ==
    /\ f.t.terminal = "BufferLimitExceeded" => f.a.terminal = "BufferLimitExceeded"
    /\ f.t.terminal \notin Failures => f.a.terminal \notin Failures

\* What has become of f says nothing new.
Quiet(f, g) ==
    g.a.terminal = "none" => f.a.terminal = "none" /\ g.t.terminal = f.t.terminal

Advances(f, g) == (Linked(f) => Linked(g)) /\ Quiet(f, g)

LEMMA DispatchAdvances ==
    ASSUME NEW f \in FedType
    PROVE  Advances(f, Dispatch(f))
<1>1. CASE Dispatch(f) = f
  BY <1>1 DEF Advances, Quiet
<1>2. ASSUME NEW g \in FedType, g.a = f.a, g.t.terminal = f.t.terminal,
             Dispatch(f) = LimitExceeded(g)
      PROVE  Advances(f, Dispatch(f))
  <2>1. /\ Dispatch(f).t.terminal = "BufferLimitExceeded"
        /\ Dispatch(f).a.terminal = "BufferLimitExceeded"
    BY <1>2, LimitType
  <2> QED
    BY <2>1, VerdictFacts DEF Advances, Quiet, Linked
<1>3. ASSUME NEW g \in FedType, g.a = f.a, g.t.terminal = f.t.terminal, NEW c,
             Dispatch(f) = Conclude(g, c)
      PROVE  Advances(f, Dispatch(f))
  <2> DEFINE said == IF c.gateway # "none" THEN c.gateway
                     ELSE IF c.error THEN "UpstreamError" ELSE c.terminal
  <2>1. /\ Dispatch(f).t.terminal = Merge(f.t.terminal, said)
        /\ Dispatch(f).a.terminal = Merge(f.a.terminal, said)
    <3>1. /\ Conclude(g, c).t = [g.t EXCEPT !.sawProvider = @ \/ c.gateway = "none",
                                            !.terminal = Merge(@, said)]
          /\ Conclude(g, c).a.terminal = Merge(g.a.terminal, said)
      BY DEF Conclude
    <3> HIDE DEF said
    <3>2. Conclude(g, c).t.terminal = Merge(g.t.terminal, said)
      BY <3>1 DEF FedType, TrackerType
    <3> QED
      BY <1>3, <3>1, <3>2
  <2> HIDE DEF said
  <2> QED
    BY <2>1, VerdictFacts DEF Advances, Quiet, Linked, Merge
<1> QED
  BY <1>1, <1>2, <1>3, DispatchCases

LEMMA ProcessLineAdvances ==
    ASSUME NEW f \in FedType
    PROVE  Advances(f, ProcessLine(f))
<1> DEFINE l == f.t.line
           f1 == [f EXCEPT !.t.line = ""]
           f2 == [f1 EXCEPT !.t.frameBytes = 0]
<1>1. f1 \in FedType /\ f1.a = f.a /\ f1.t.terminal = f.t.terminal
  BY WordFacts DEF FedType, TrackerType
<1>2. CASE ProcessLine(f) = Dispatch(f2)
  <2> HIDE DEF f1
  <2>1. f2 \in FedType /\ f2.a = f.a /\ f2.t.terminal = f.t.terminal
    BY <1>1 DEF FedType, TrackerType
  <2> HIDE DEF f2
  <2> QED
    BY <1>2, <2>1, DispatchAdvances DEF Advances, Quiet, Linked
<1>3. CASE /\ ProcessLine(f).a = f.a
           /\ ProcessLine(f).t.terminal = f.t.terminal
  BY <1>3 DEF Advances, Quiet, Linked
<1>4. CASE ProcessLine(f) = f1
  BY <1>1, <1>3, <1>4
<1> HIDE DEF f1, l
<1>5. CASE ProcessLine(f) = [f1 EXCEPT !.t.sawSse = TRUE, !.t.event = l]
  BY <1>1, <1>3, <1>5 DEF FedType, TrackerType
<1>6. CASE ProcessLine(f) = [f1 EXCEPT !.t.sawSse = TRUE,
                                       !.t.data = IF @ = "" THEN l ELSE "other"]
  <2> DEFINE d == IF f1.t.data = "" THEN l ELSE "other"
  <2>1. ProcessLine(f) = [f1 EXCEPT !.t.sawSse = TRUE, !.t.data = d]
    BY <1>6
  <2> HIDE DEF d
  <2> QED
    BY <1>1, <1>3, <2>1 DEF FedType, TrackerType
<1>7. CASE ProcessLine(f) = [f1 EXCEPT !.t.sawSse = TRUE]
  BY <1>1, <1>3, <1>7 DEF FedType, TrackerType
<1>8. CASE ProcessLine(f) = [f1 EXCEPT !.t.nonComment = TRUE]
  BY <1>1, <1>3, <1>8 DEF FedType, TrackerType
<1>9. \/ ProcessLine(f) = Dispatch(f2)
      \/ ProcessLine(f) = f1
      \/ ProcessLine(f) = [f1 EXCEPT !.t.sawSse = TRUE, !.t.event = l]
      \/ ProcessLine(f) = [f1 EXCEPT !.t.sawSse = TRUE,
                                     !.t.data = IF @ = "" THEN l ELSE "other"]
      \/ ProcessLine(f) = [f1 EXCEPT !.t.sawSse = TRUE]
      \/ ProcessLine(f) = [f1 EXCEPT !.t.nonComment = TRUE]
  BY ProcessLineCases DEF f1, l
<1> QED
  BY <1>2, <1>4, <1>5, <1>6, <1>7, <1>8, <1>9

LEMMA FeedPieceAdvances ==
    ASSUME NEW f \in FedType, NEW p \in Pieces
    PROVE  Advances(f, FeedPiece(f, p))
<1> DEFINE f1 == [f EXCEPT !.t.frameBytes = @ + 1]
           j == Join(f1.t.line, p)
           n == f1.t.nonComment \/ (f1.t.line = "" /\ p \notin Comments)
<1>1. f1 \in FedType /\ f1.a = f.a /\ f1.t.terminal = f.t.terminal
  BY DEF FedType, TrackerType
<1>2. \/ FeedPiece(f, p) = f
      \/ FeedPiece(f, p) = LimitExceeded(f)
      \/ FeedPiece(f, p) = ProcessLine(f1)
      \/ FeedPiece(f, p) = [f1 EXCEPT !.t.line = j, !.t.nonComment = n]
  <2>1. CASE f.t.terminal = "BufferLimitExceeded" \/ f.t.frameBytes >= FrameLimit
    BY <2>1 DEF FeedPiece
  <2>2. CASE p = "nl" /\ ~(f.t.terminal = "BufferLimitExceeded" \/ f.t.frameBytes >= FrameLimit)
    BY <2>2 DEF FeedPiece
  <2>3. CASE p # "nl" /\ ~(f.t.terminal = "BufferLimitExceeded" \/ f.t.frameBytes >= FrameLimit)
    BY <2>3 DEF FeedPiece
  <2> QED
    BY <2>1, <2>2, <2>3
<1> HIDE DEF f1, j, n
<1>3. CASE FeedPiece(f, p) = f
  BY <1>3 DEF Advances, Quiet
<1>4. CASE FeedPiece(f, p) = LimitExceeded(f)
  BY <1>4, LimitType, VerdictFacts DEF Advances, Quiet, Linked
<1>5. CASE FeedPiece(f, p) = ProcessLine(f1)
  BY <1>1, <1>5, ProcessLineAdvances DEF Advances, Quiet, Linked
<1>6. CASE FeedPiece(f, p) = [f1 EXCEPT !.t.line = j, !.t.nonComment = n]
  <2>1. FeedPiece(f, p).a = f1.a /\ FeedPiece(f, p).t.terminal = f1.t.terminal
    <3> DEFINE t1 == [f1.t EXCEPT !.line = j, !.nonComment = n]
    <3>1. t1.terminal = f1.t.terminal
      BY <1>1 DEF FedType, TrackerType
    <3>2. FeedPiece(f, p) = [f1 EXCEPT !.t = t1]
      BY <1>1, <1>6 DEF FedType
    <3> HIDE DEF t1
    <3> QED
      BY <1>1, <3>1, <3>2 DEF FedType
  <2> QED
    BY <1>1, <2>1 DEF Advances, Quiet, Linked
<1> QED
  BY <1>2, <1>3, <1>4, <1>5, <1>6

-----------------------------------------------------------------------------
LEMMA ActivityFacts ==
    /\ NoActivity \in ActivityType
    /\ NoActivity.terminal = "none" /\ ~NoActivity.error
    /\ \A b \in BOOLEAN : LET a == [NoActivity EXCEPT !.provider = b]
         IN  a \in ActivityType /\ a.terminal = "none" /\ ~a.error
    /\ \A v \in Verdicts : LET a == [NoActivity EXCEPT !.terminal = v, !.error = TRUE]
         IN  a \in ActivityType /\ a.terminal = v /\ a.error
BY VerdictFacts DEF NoActivity, ActivityType

\* Where feed's loop starts.
FeedStart(t, chunk) ==
    [t |-> [t EXCEPT !.sawProvider = @ \/ LooksRaw(t, chunk)],
     a |-> [NoActivity EXCEPT !.provider = LooksRaw(t, chunk)]]

LEMMA StartFacts ==
    ASSUME NEW t \in TrackerType, NEW u \in TrackerType, Same(t, u), NEW chunk
    PROVE  /\ FeedStart(t, chunk) \in FedType
           /\ SameFed(FeedStart(t, chunk), FeedStart(u, chunk))
           /\ FeedStart(t, chunk).t.frameBytes = t.frameBytes
           /\ FeedStart(t, chunk).t.terminal = t.terminal
           /\ FeedStart(t, chunk).a.terminal = "none"
           /\ ~FeedStart(t, chunk).a.error
<1> DEFINE raw == LooksRaw(t, chunk)
<1>1. raw \in BOOLEAN /\ raw = LooksRaw(u, chunk)
  BY DEF LooksRaw, Same
<1>2. FeedStart(u, chunk) = [t |-> [u EXCEPT !.sawProvider = @ \/ raw],
                             a |-> [NoActivity EXCEPT !.provider = raw]]
  BY <1>1 DEF FeedStart
<1>3. FeedStart(t, chunk) = [t |-> [t EXCEPT !.sawProvider = @ \/ raw],
                             a |-> [NoActivity EXCEPT !.provider = raw]]
  BY DEF FeedStart
<1> HIDE DEF raw
<1>4. LET a == [NoActivity EXCEPT !.provider = raw]
      IN  a \in ActivityType /\ a.terminal = "none" /\ ~a.error
  BY <1>1, ActivityFacts
<1>6. [t EXCEPT !.sawProvider = @ \/ raw] \in TrackerType
  BY <1>1 DEF TrackerType
<1>7. Same([t EXCEPT !.sawProvider = @ \/ raw], [u EXCEPT !.sawProvider = @ \/ raw])
  BY DEF TrackerType, Same
<1>8. /\ [t EXCEPT !.sawProvider = @ \/ raw].frameBytes = t.frameBytes
      /\ [t EXCEPT !.sawProvider = @ \/ raw].terminal = t.terminal
  BY DEF TrackerType
<1>9. FeedStart(t, chunk) \in FedType
  BY <1>3, <1>4, <1>6 DEF FedType
<1>10. SameFed(FeedStart(t, chunk), FeedStart(u, chunk))
  BY <1>2, <1>3, <1>7 DEF SameFed
<1>11. /\ FeedStart(t, chunk).t = [t EXCEPT !.sawProvider = @ \/ raw]
       /\ FeedStart(t, chunk).a = [NoActivity EXCEPT !.provider = raw]
  BY <1>3
<1> QED
  BY <1>4, <1>8, <1>9, <1>10, <1>11

\* Two trackers that agree are fed the same chunk.
LEMMA FeedAgrees ==
    ASSUME NEW t \in TrackerType, NEW u \in TrackerType, Same(t, u),
           u.frameBytes <= t.frameBytes, NEW chunk \in Seq(Pieces)
    PROVE  /\ Feed(t, chunk) \in FedType
           /\ Feed(t, chunk).t.terminal = "BufferLimitExceeded"
                => Feed(t, chunk).a.terminal = "BufferLimitExceeded"
           /\ Feed(t, chunk).a.terminal = "none"
                => Feed(t, chunk).t.terminal = t.terminal
           /\ \/ Feed(t, chunk).t.terminal = "BufferLimitExceeded"
              \/ /\ SameFed(Feed(t, chunk), Feed(u, chunk))
                 /\ Feed(u, chunk).t.frameBytes <= Feed(t, chunk).t.frameBytes
<1>1. CASE t.terminal = "BufferLimitExceeded"
  <2> DEFINE a == [NoActivity EXCEPT !.terminal = t.terminal, !.error = TRUE]
  <2>1. Feed(t, chunk) = [t |-> t, a |-> a]
    BY <1>1 DEF Feed
  <2>2. t.terminal \in Verdicts
    BY DEF TrackerType
  <2>3. a \in ActivityType /\ a.terminal = t.terminal
    BY <2>2, ActivityFacts
  <2> HIDE DEF a
  <2>5. Feed(t, chunk) \in FedType
    BY <2>1, <2>3 DEF FedType
  <2> QED
    BY <1>1, <2>1, <2>3, <2>5, VerdictFacts
<1>2. CASE t.terminal # "BufferLimitExceeded"
  <2>1. /\ Feed(t, chunk) = FeedPieces(FeedStart(t, chunk), chunk)
        /\ Feed(u, chunk) = FeedPieces(FeedStart(u, chunk), chunk)
    BY <1>2 DEF Feed, FeedStart, Same
  <2>2. PICK r : /\ IsRun(r, FeedStart(t, chunk), chunk)
                 /\ Feed(t, chunk) = r[Len(chunk)]
    BY <2>1, RunOfFeed
  <2>3. PICK s : /\ IsRun(s, FeedStart(u, chunk), chunk)
                 /\ Feed(u, chunk) = s[Len(chunk)]
    BY <2>1, RunOfFeed
  <2> DEFINE Ok(n) == /\ r[n] \in FedType /\ s[n] \in FedType
                      /\ Advances(FeedStart(t, chunk), r[n])
                      /\ \/ r[n].t.terminal = "BufferLimitExceeded"
                         \/ /\ SameFed(r[n], s[n])
                            /\ s[n].t.frameBytes <= r[n].t.frameBytes
             S == {n \in Nat : n <= Len(chunk) => Ok(n)}
  <2>4. Same(u, t)
    BY DEF Same
  <2>5. r[0] = FeedStart(t, chunk) /\ s[0] = FeedStart(u, chunk)
    BY <2>2, <2>3 DEF IsRun
  <2>6. 0 \in S
    <3>1. /\ r[0] \in FedType /\ s[0] \in FedType /\ SameFed(r[0], s[0])
          /\ r[0].t.frameBytes = t.frameBytes /\ s[0].t.frameBytes = u.frameBytes
      BY <2>4, <2>5, StartFacts
    <3>2. Ok(0)
      BY <2>5, <3>1 DEF Advances, Quiet
    <3> HIDE DEF Ok
    <3> QED
      BY <3>2
  <2>7. ASSUME NEW n \in Nat, n \in S PROVE n + 1 \in S
    <3>1. SUFFICES ASSUME n + 1 <= Len(chunk) PROVE Ok(n + 1)
      OBVIOUS
    <3>2. Ok(n) /\ chunk[n + 1] \in Pieces
      BY <2>7, <3>1
    <3>3. /\ r[n + 1] = FeedPiece(r[n], chunk[n + 1])
          /\ s[n + 1] = FeedPiece(s[n], chunk[n + 1])
      BY <2>2, <2>3, <3>1 DEF IsRun
    <3>4. SameFed(r[n], r[n]) /\ SameFed(s[n], s[n])
          /\ r[n].t.frameBytes <= r[n].t.frameBytes /\ s[n].t.frameBytes <= s[n].t.frameBytes
      BY <3>2 DEF SameFed, Same, FedType, TrackerType
    <3>5. r[n + 1] \in FedType /\ s[n + 1] \in FedType
      BY <3>2, <3>3, <3>4, FeedPieceFacts
    <3>6. Advances(FeedStart(t, chunk), r[n + 1])
      BY <3>2, <3>3, FeedPieceAdvances DEF Advances, Quiet
    <3>7. CASE r[n].t.terminal = "BufferLimitExceeded"
      <4>1. r[n + 1] = r[n]
        BY <3>3, <3>7 DEF FeedPiece
      <4> QED
        BY <3>5, <3>6, <3>7, <4>1
    <3>8. CASE SameFed(r[n], s[n]) /\ s[n].t.frameBytes <= r[n].t.frameBytes
      BY <3>2, <3>3, <3>5, <3>6, <3>8, FeedPieceFacts
    <3> QED
      BY <3>2, <3>7, <3>8
  <2>8. Ok(Len(chunk))
    <3>1. Len(chunk) \in Nat
      OBVIOUS
    <3> HIDE DEF Ok
    <3>2. Len(chunk) \in S
      <4> HIDE DEF S
      <4> QED BY <2>6, <2>7, <3>1, CountingUp
    <3> QED
      BY <3>1, <3>2
  <2>9. /\ Linked(FeedStart(t, chunk))
        /\ FeedStart(t, chunk).t.terminal = t.terminal
    <3>1. /\ FeedStart(t, chunk).t.terminal = t.terminal
          /\ FeedStart(t, chunk).a.terminal = "none"
      BY StartFacts
    <3> QED
      BY <1>2, <3>1, VerdictFacts DEF Linked
  <2> QED
    BY <2>2, <2>3, <2>8, <2>9 DEF Advances, Quiet, Linked
<1> QED
  BY <1>1, <1>2

-----------------------------------------------------------------------------
(* The gateway's own frames, read by the observer. *)

Over(f) == f.t.terminal = "BufferLimitExceeded"

\* All of two trackers but the line and the size of the frame.
SameFrame(t, u) ==
    /\ t.event = u.event /\ t.data = u.data /\ t.nonComment = u.nonComment
    /\ t.sawProvider = u.sawProvider /\ t.sawSse = u.sawSse
    /\ t.unfinished = u.unfinished /\ t.sawFinish = u.sawFinish
    /\ t.terminal = u.terminal

LEMMA PieceType ==
    ASSUME NEW f \in FedType, NEW p \in Pieces
    PROVE  FeedPiece(f, p) \in FedType /\ (Over(f) => Over(FeedPiece(f, p)))
<1>1. SameFed(f, f) /\ f.t.frameBytes <= f.t.frameBytes
  BY DEF SameFed, Same, FedType, TrackerType
<1>2. Over(f) => FeedPiece(f, p) = f
  BY DEF Over, FeedPiece
<1> QED
  BY <1>1, <1>2, FeedPieceFacts

LEMMA GrownType ==
    ASSUME NEW f \in FedType
    PROVE  LET g == [f EXCEPT !.t.frameBytes = @ + 1]
           IN  g \in FedType /\ g.a = f.a /\ Same(g.t, f.t)
BY DEF FedType, TrackerType, Same

\* Text at the beginning of a line.
LEMMA TextPiece ==
    ASSUME NEW f \in FedType, NEW p \in Pieces, p # "nl", p # "rest", f.t.line = "",
           ~Over(FeedPiece(f, p))
    PROVE  /\ FeedPiece(f, p).a = f.a /\ FeedPiece(f, p).t.line = p
           /\ FeedPiece(f, p).t.event = f.t.event /\ FeedPiece(f, p).t.data = f.t.data
           /\ p \in Comments => SameFrame(FeedPiece(f, p).t, f.t)
<1> DEFINE f1 == [f EXCEPT !.t.frameBytes = @ + 1]
           j == Join(f1.t.line, p)
           n == f1.t.nonComment \/ (f1.t.line = "" /\ p \notin Comments)
           h == FeedPiece(f, p)
<1>1. CASE Over(f)
  BY <1>1, PieceType
<1>2. CASE ~Over(f) /\ f.t.frameBytes >= FrameLimit
  BY <1>2, LimitType DEF Over, FeedPiece
<1>3. CASE ~Over(f) /\ ~(f.t.frameBytes >= FrameLimit)
  <2>1. /\ f1 \in FedType /\ f1.a = f.a /\ SameFrame(f1.t, f.t) /\ f1.t.line = ""
    <3>1. f1 \in FedType /\ f1.a = f.a /\ Same(f1.t, f.t)
      BY GrownType
    <3> HIDE DEF f1
    <3> QED
      BY <3>1 DEF Same, SameFrame
  <2>2. h = [f1 EXCEPT !.t.line = j, !.t.nonComment = n]
    BY <1>3 DEF Over, FeedPiece
  <2>3. j = p /\ (p \in Comments => n = f1.t.nonComment)
    <3> HIDE DEF f1
    <3>1. j = p
      BY <2>1 DEF Join, Comments, Events
    <3>2. f1.t.nonComment \in BOOLEAN
      BY <2>1 DEF FedType, TrackerType
    <3> QED
      BY <3>1, <3>2
  <2> HIDE DEF f1, j, n, h
  <2>4. /\ h.a = f1.a /\ h.t.line = j /\ h.t.nonComment = n
        /\ h.t.event = f1.t.event /\ h.t.data = f1.t.data
        /\ h.t.terminal = f1.t.terminal /\ h.t.sawProvider = f1.t.sawProvider
        /\ h.t.sawSse = f1.t.sawSse /\ h.t.unfinished = f1.t.unfinished
        /\ h.t.sawFinish = f1.t.sawFinish
    BY <2>1, <2>2 DEF FedType, TrackerType
  <2>5. QED
    BY <2>1, <2>3, <2>4 DEF SameFrame, h
<1> QED
  BY <1>1, <1>2, <1>3

\* The end of a line.
LEMMA LineEnd ==
    ASSUME NEW f \in FedType
    PROVE  \/ Over(FeedPiece(f, "nl"))
           \/ \E g \in FedType : /\ Same(g.t, f.t) /\ g.a = f.a
                                 /\ FeedPiece(f, "nl") = ProcessLine(g)
<1> DEFINE f1 == [f EXCEPT !.t.frameBytes = @ + 1]
<1>0. "nl" \in Pieces
  BY DEF Pieces
<1>1. CASE Over(f)
  BY <1>0, <1>1, PieceType
<1>2. CASE ~Over(f) /\ f.t.frameBytes >= FrameLimit
  BY <1>2, LimitType DEF Over, FeedPiece
<1>3. CASE ~Over(f) /\ ~(f.t.frameBytes >= FrameLimit)
  <2>1. /\ f1 \in FedType /\ f1.a = f.a /\ Same(f1.t, f.t)
    BY DEF FedType, TrackerType, Same
  <2>2. FeedPiece(f, "nl") = ProcessLine(f1)
    BY <1>3 DEF Over, FeedPiece
  <2> HIDE DEF f1
  <2> QED
    BY <2>1, <2>2
<1> QED
  BY <1>1, <1>2, <1>3

\* What a line does that a gateway's frame may be made of.
LEMMA LineRead ==
    ASSUME NEW g \in FedType
    PROVE  LET h == ProcessLine(g)
               l == g.t.line
           IN  /\ l \in Comments => SameFrame(h.t, g.t) /\ h.t.line = "" /\ h.a = g.a
               /\ l \in Events => /\ h.a = g.a /\ h.t.line = "" /\ h.t.event = l
                                  /\ h.t.data = g.t.data
               /\ l \in Data /\ g.t.data = "" =>
                    /\ h.a = g.a /\ h.t.line = "" /\ h.t.data = l
                    /\ h.t.event = g.t.event
               /\ l = "" => \E d \in FedType :
                    /\ Same(d.t, g.t) /\ d.a = g.a /\ d.t.frameBytes = 0
                    /\ h = Dispatch(d)
               /\ l # "" => h.t.line = ""
<1> DEFINE l == g.t.line
           f1 == [g EXCEPT !.t.line = ""]
           f2 == [f1 EXCEPT !.t.frameBytes = 0]
           h == ProcessLine(g)
<1>1. f1 \in FedType /\ f1.a = g.a /\ SameFrame(f1.t, g.t) /\ f1.t.line = ""
  BY WordFacts DEF FedType, TrackerType, SameFrame
<1>2. \/ l = "" /\ h = Dispatch(f2)
      \/ l \in Comments /\ l # "" /\ h = f1
      \/ l \in Events /\ l # "" /\ h = [f1 EXCEPT !.t.sawSse = TRUE, !.t.event = l]
      \/ l \in Data /\ l # "" /\ h = [f1 EXCEPT !.t.sawSse = TRUE,
                                        !.t.data = IF @ = "" THEN l ELSE "other"]
      \/ l = "meta" /\ h = [f1 EXCEPT !.t.sawSse = TRUE]
      \/ /\ l \notin Comments \cup Events \cup Data \cup {"", "meta"}
         /\ h = [f1 EXCEPT !.t.nonComment = TRUE]
  BY ProcessLineCases
<1> HIDE DEF f1, l, h
<1>3. CASE l = "" /\ h = Dispatch(f2)
  <2>1. f2 \in FedType /\ f2.a = g.a /\ f2.t.frameBytes = 0
        /\ SameFrame(f2.t, f1.t) /\ f2.t.line = ""
    BY <1>1 DEF FedType, TrackerType, SameFrame
  <2> HIDE DEF f2
  <2>2. Same(f2.t, g.t)
    BY <1>1, <1>3, <2>1 DEF Same, SameFrame, l
  <2> QED
    BY <1>3, <2>1, <2>2, LineKinds DEF l, h
<1>4. CASE l \in Comments /\ l # "" /\ h = f1
  BY <1>1, <1>4, LineKinds DEF l, h
<1>5. CASE l \in Events /\ l # "" /\ h = [f1 EXCEPT !.t.sawSse = TRUE, !.t.event = l]
  <2>1. h.a = f1.a /\ h.t.line = f1.t.line /\ h.t.event = l /\ h.t.data = f1.t.data
    BY <1>1, <1>5 DEF FedType, TrackerType
  <2> QED
    BY <1>1, <1>5, <2>1, LineKinds DEF l, h, SameFrame
<1>6. CASE l \in Data /\ l # "" /\ h = [f1 EXCEPT !.t.sawSse = TRUE,
                                        !.t.data = IF @ = "" THEN l ELSE "other"]
  <2> DEFINE d == IF f1.t.data = "" THEN l ELSE "other"
  <2>1. h = [f1 EXCEPT !.t.sawSse = TRUE, !.t.data = d]
    BY <1>6
  <2>2. f1.t.data = "" => d = l
    OBVIOUS
  <2> HIDE DEF d
  <2>3. h.a = f1.a /\ h.t.line = f1.t.line /\ h.t.event = f1.t.event /\ h.t.data = d
    BY <1>1, <2>1 DEF FedType, TrackerType
  <2> QED
    BY <1>1, <1>6, <2>2, <2>3, LineKinds DEF l, h, SameFrame
<1>7. CASE l = "meta" /\ h = [f1 EXCEPT !.t.sawSse = TRUE]
  <2>1. h.t.line = f1.t.line
    BY <1>1, <1>7 DEF FedType, TrackerType
  <2> QED
    BY <1>1, <1>7, <2>1, LineKinds DEF l, h
<1>8. CASE /\ l \notin Comments \cup Events \cup Data \cup {"", "meta"}
           /\ h = [f1 EXCEPT !.t.nonComment = TRUE]
  <2>1. h.t.line = f1.t.line
    BY <1>1, <1>8 DEF FedType, TrackerType
  <2> QED
    BY <1>1, <1>8, <2>1 DEF l, h
<1> QED
  BY <1>2, <1>3, <1>4, <1>5, <1>6, <1>7, <1>8

\* A blank line leaves no frame open.
LEMMA BlankLine ==
    ASSUME NEW g \in FedType, g.t.line = ""
    PROVE  LET h == ProcessLine(g)
           IN  \/ Over(h)
               \/ /\ SafeForHeartbeat(h.t)
                  /\ SafeForHeartbeat(g.t) => Same(h.t, g.t) /\ h.t.frameBytes = 0 /\ h.a = g.a
                  /\ g.t.data \in Failures /\ g.t.event # "stop" /\ g.a.terminal = "none" =>
                       h.a.terminal = g.t.data
                  /\ g.t.data = "done" /\ g.t.event = "" /\ g.a.terminal \notin Failures =>
                       /\ h.a.terminal = "Completed"
                       /\ g.a.error = h.a.error
                  /\ g.a.terminal \in Failures => h.a.terminal = g.a.terminal
<1>1. PICK d \in FedType : /\ Same(d.t, g.t) /\ d.a = g.a /\ d.t.frameBytes = 0
                           /\ ProcessLine(g) = Dispatch(d)
  BY LineRead
<1>2. CASE /\ d.t.data = "" /\ d.t.event = "" /\ ~d.t.nonComment
           /\ Dispatch(d) = d
  <2>1. "" # "done" /\ "" \notin Failures
    BY DEF Failures
  <2> QED
    BY <1>1, <1>2, <2>1 DEF Same, SafeForHeartbeat
<1>3. ASSUME NEW x \in FedType, x.a = d.a, x.t.terminal = d.t.terminal,
             Dispatch(d) = LimitExceeded(x)
      PROVE  Over(ProcessLine(g))
  BY <1>1, <1>3, LimitType DEF Over
<1>4. ASSUME NEW x \in FedType, x.a = d.a, x.t.line = d.t.line,
             x.t.data = "", x.t.event = "", ~x.t.nonComment,
             Dispatch(d) = Conclude(x, Classify(d.t.event, d.t.data)),
             ~(d.t.data = "" /\ d.t.event = "" /\ ~d.t.nonComment)
      PROVE  LET h == ProcessLine(g)
             IN  /\ SafeForHeartbeat(h.t)
                 /\ ~SafeForHeartbeat(g.t)
                 /\ g.t.data \in Failures /\ g.t.event # "stop" /\ g.a.terminal = "none" =>
                      h.a.terminal = g.t.data
                 /\ g.t.data = "done" /\ g.t.event = "" /\ g.a.terminal \notin Failures =>
                      /\ h.a.terminal = "Completed"
                      /\ g.a.error = h.a.error
                 /\ g.a.terminal \in Failures => h.a.terminal = g.a.terminal
  <2> DEFINE c == Classify(d.t.event, d.t.data)
             said == IF c.gateway # "none" THEN c.gateway
                     ELSE IF c.error THEN "UpstreamError" ELSE c.terminal
             h == ProcessLine(g)
  <2>1. /\ h.t = [x.t EXCEPT !.sawProvider = @ \/ c.gateway = "none",
                             !.terminal = Merge(@, said)]
        /\ h.a.terminal = Merge(x.a.terminal, said)
        /\ h.a.error = (x.a.error \/ c.error)
    <3>1. h = Conclude(x, c)
      BY <1>1, <1>4
    <3> HIDE DEF h, c
    <3> QED
      BY <3>1 DEF Conclude
  <2>2. d.t.data = g.t.data /\ d.t.event = g.t.event /\ d.t.nonComment = g.t.nonComment
        /\ d.t.line = ""
    BY <1>1 DEF Same
  <2>3. SafeForHeartbeat(h.t)
    <3> HIDE DEF c, said, h
    <3> QED
      BY <1>4, <2>1, <2>2 DEF SafeForHeartbeat, FedType, TrackerType
  <2>4. g.t.data \in Failures /\ g.t.event # "stop" => said = g.t.data
    <3>1. SUFFICES ASSUME g.t.data \in Failures, g.t.event # "stop" PROVE said = g.t.data
      OBVIOUS
    <3>2. g.t.data # "done" /\ g.t.data # "none"
      BY <3>1 DEF Failures
    <3>4. c.gateway = g.t.data
      BY <2>2, <3>1, <3>2 DEF Classify
    <3> QED
      BY <3>2, <3>4
  <2>5. g.t.data = "done" => said = "Completed" /\ ~c.error
    BY <2>2 DEF Classify
  <2>6. x.a = g.a /\ g.a.error \in BOOLEAN
    BY <1>1, <1>4 DEF FedType, ActivityType
  <2> HIDE DEF c, said
  <2>7. h.a.terminal = Merge(g.a.terminal, said)
    BY <2>1, <2>6
  <2>8. g.a.terminal = "none" /\ said # "none" => h.a.terminal = said
    BY <2>7, VerdictFacts DEF Merge
  <2>9. g.a.terminal \notin Failures /\ said = "Completed" => h.a.terminal = said
    BY <2>7, VerdictFacts DEF Merge
  <2>10. g.a.terminal \in Failures => h.a.terminal = g.a.terminal
    BY <2>7 DEF Merge
  <2>11. g.t.data = "done" => g.a.error = h.a.error
    BY <2>1, <2>5, <2>6
  <2>12. ~SafeForHeartbeat(g.t)
    BY <1>4, <2>2 DEF SafeForHeartbeat
  <2>13. \A v \in Failures : v # "none"
    BY VerdictFacts
  <2> HIDE DEF h
  <2>14. QED
    BY <2>3, <2>4, <2>5, <2>8, <2>9, <2>10, <2>11, <2>12, <2>13 DEF h
<1> QED
  <2>1. \/ /\ d.t.data = "" /\ d.t.event = "" /\ ~d.t.nonComment
           /\ Dispatch(d) = d
        \/ \E x \in FedType :
             /\ x.a = d.a /\ x.t.terminal = d.t.terminal /\ x.t.line = d.t.line
             /\ x.t.data = "" /\ x.t.event = "" /\ ~x.t.nonComment
             /\ \/ Dispatch(d) = LimitExceeded(x)
                \/ /\ Dispatch(d) = Conclude(x, Classify(d.t.event, d.t.data))
                   /\ ~(d.t.data = "" /\ d.t.event = "" /\ ~d.t.nonComment)
    <3>1. CASE d.t.data = "" /\ d.t.event = "" /\ ~d.t.nonComment
      BY <3>1 DEF Dispatch
    <3>2. CASE ~(d.t.data = "" /\ d.t.event = "" /\ ~d.t.nonComment)
      BY <3>2, DispatchCases
    <3> QED
      BY <3>1, <3>2
  <2> QED
    BY <1>2, <1>3, <1>4, <2>1

\* The turns of the loop over a chunk with no raw text.
LEMMA FeedRun ==
    ASSUME NEW t \in TrackerType, t.terminal # "BufferLimitExceeded",
           NEW chunk \in Seq(Pieces),
           \A i \in 1..Len(chunk) : chunk[i] \notin {"raw", "rest"}
    PROVE  \E r : /\ \A i \in 0..Len(chunk) : r[i] \in FedType
                  /\ Same(r[0].t, t) /\ r[0].t.frameBytes = t.frameBytes
                  /\ r[0].a.terminal = "none" /\ ~r[0].a.error
                  /\ \A i \in 1..Len(chunk) : r[i] = FeedPiece(r[i - 1], chunk[i])
                  /\ Feed(t, chunk) = r[Len(chunk)]
<1> DEFINE start == FeedStart(t, chunk)
<1>1. Feed(t, chunk) = FeedPieces(start, chunk)
  BY DEF Feed, FeedStart
<1>2. PICK r : IsRun(r, start, chunk) /\ Feed(t, chunk) = r[Len(chunk)]
  BY <1>1, RunOfFeed
<1>3. /\ r[0] = start
      /\ \A i \in 1..Len(chunk) : r[i] = FeedPiece(r[i - 1], chunk[i])
  BY <1>2 DEF IsRun
<1>4. /\ start \in FedType /\ start.t.frameBytes = t.frameBytes
      /\ start.a.terminal = "none" /\ ~start.a.error
  <2>1. Same(t, t)
    BY DEF Same
  <2> QED
    BY <2>1, StartFacts
<1>5. Same(start.t, t)
  <2>1. ~LooksRaw(t, chunk)
    <3>1. DOMAIN chunk = 1..Len(chunk)
      OBVIOUS
    <3> QED
      BY <3>1 DEF LooksRaw
  <2>2. start.t = [t EXCEPT !.sawProvider = @ \/ LooksRaw(t, chunk)]
    BY DEF FeedStart
  <2>3. t.sawProvider \in BOOLEAN
    BY DEF TrackerType
  <2>4. (t.sawProvider \/ LooksRaw(t, chunk)) = t.sawProvider
    BY <2>1, <2>3
  <2>5. start.t = [t EXCEPT !.sawProvider = t.sawProvider]
    BY <2>2, <2>4
  <2> QED
    BY <2>5 DEF Same, TrackerType
<1>6. \A i \in 0..Len(chunk) : r[i] \in FedType
  <2> DEFINE S == {i \in Nat : i <= Len(chunk) => r[i] \in FedType}
  <2>1. 0 \in S
    BY <1>3, <1>4
  <2>2. ASSUME NEW n \in Nat, n \in S PROVE n + 1 \in S
    <3>1. SUFFICES ASSUME n + 1 <= Len(chunk) PROVE r[n + 1] \in FedType
      OBVIOUS
    <3>2. r[n] \in FedType /\ chunk[n + 1] \in Pieces /\ r[n + 1] = FeedPiece(r[n], chunk[n + 1])
      BY <1>3, <2>2, <3>1
    <3> QED
      BY <3>2, PieceType
  <2>3. Nat \subseteq S
    <3> HIDE DEF S
    <3> QED BY <2>1, <2>2, CountingUp
  <2> QED
    BY <2>3
<1> HIDE DEF start
<1> QED
  BY <1>2, <1>3, <1>4, <1>5, <1>6

LEMMA GatewayPieces ==
    /\ "nl" \in Pieces /\ "hb" \in Pieces /\ "done" \in Pieces /\ "everror" \in Pieces
    /\ "hb" \in Comments /\ "done" \in Data /\ "everror" \in Events
    /\ Failures \subseteq Pieces /\ Failures \subseteq Data
    /\ {"raw", "rest", "nl", "done", "hb", "everror", "stop", ""} \cap Failures = {}
    /\ "hb" \notin Data \cup Events \cup {"raw", "rest", "nl", ""}
    /\ "done" \notin {"raw", "rest", "nl", ""}
    /\ "everror" \notin {"raw", "rest", "nl", "", "stop"}
    /\ "nl" \notin {"raw", "rest", ""}
BY DEF Pieces, Comments, Events, Data, Failures, Deltas, Finishes

\* The tuples that the gateway's frames are.
LEMMA TupleFacts ==
    ASSUME NEW a \in Pieces, NEW b \in Pieces
    PROVE  /\ <<a, b>> \in Seq(Pieces) /\ Len(<<a, b>>) = 2
           /\ \A c \in Pieces : <<a, b, c>> \in Seq(Pieces) /\ Len(<<a, b, c>>) = 3
OBVIOUS

\* A heartbeat between two frames changes nothing but the size of the frame.
LEMMA HeartbeatRead ==
    ASSUME NEW t \in TrackerType, t.terminal # "BufferLimitExceeded", SafeForHeartbeat(t)
    PROVE  LET h == Feed(t, Heartbeat)
           IN  \/ Over(h)
               \/ /\ Same(h.t, t) /\ h.t.frameBytes = 0
                  /\ Outcome(h.a) = "none"
<1> DEFINE h == Feed(t, Heartbeat)
<1>1. /\ Heartbeat \in Seq(Pieces) /\ Len(Heartbeat) = 3
      /\ Heartbeat[1] = "hb" /\ Heartbeat[2] = "nl" /\ Heartbeat[3] = "nl"
  BY GatewayPieces, TupleFacts DEF Heartbeat
<1>2. \A i \in 1..Len(Heartbeat) : Heartbeat[i] \notin {"raw", "rest"}
  <2>1. \A i \in 1..Len(Heartbeat) : i = 1 \/ i = 2 \/ i = 3
    BY <1>1
  <2>2. "hb" \notin {"raw", "rest"} /\ "nl" \notin {"raw", "rest"}
    OBVIOUS
  <2> QED
    BY <1>1, <2>1, <2>2
<1>3. PICK r : /\ \A i \in 0..3 : r[i] \in FedType
               /\ Same(r[0].t, t) /\ r[0].a.terminal = "none" /\ ~r[0].a.error
               /\ \A i \in 1..3 : r[i] = FeedPiece(r[i - 1], Heartbeat[i])
               /\ h = r[3]
  BY <1>1, <1>2, FeedRun
<1>4. /\ r[0] \in FedType /\ r[1] \in FedType /\ r[2] \in FedType
      /\ r[1] = FeedPiece(r[0], "hb") /\ r[2] = FeedPiece(r[1], "nl")
      /\ h = FeedPiece(r[2], "nl")
  BY <1>1, <1>3
<1>5. /\ Over(r[1]) => Over(r[2])
      /\ Over(r[2]) => Over(h)
  BY <1>4, GatewayPieces, PieceType
<1> HIDE DEF h
<1>6. SUFFICES ASSUME ~Over(h) PROVE Same(h.t, t) /\ h.t.frameBytes = 0 /\ Outcome(h.a) = "none"
  BY DEF h
<1>7. r[1].a = r[0].a /\ r[1].t.line = "hb" /\ SameFrame(r[1].t, t)
  <2>1. r[0].t.line = ""
    BY <1>3 DEF Same, SafeForHeartbeat
  <2>2. r[1].a = r[0].a /\ r[1].t.line = "hb" /\ SameFrame(r[1].t, r[0].t)
    <3> DEFINE p == "hb"
    <3>1. p \in Pieces /\ p # "nl" /\ p # "rest" /\ p \in Comments
      BY GatewayPieces
    <3>2. r[1] = FeedPiece(r[0], p) /\ ~Over(FeedPiece(r[0], p)) /\ r[0] \in FedType
      BY <1>4, <1>5, <1>6
    <3> HIDE DEF p
    <3>3. /\ FeedPiece(r[0], p).a = r[0].a /\ FeedPiece(r[0], p).t.line = p
          /\ SameFrame(FeedPiece(r[0], p).t, r[0].t)
      BY <2>1, <3>1, <3>2, TextPiece, Zenon
    <3> QED
      BY <3>2, <3>3 DEF p
  <2> QED
    BY <1>3, <2>2 DEF Same, SameFrame
<1>8. r[2].a = r[0].a /\ r[2].t.line = "" /\ SameFrame(r[2].t, t)
  <2>1. PICK g \in FedType : Same(g.t, r[1].t) /\ g.a = r[1].a /\ r[2] = ProcessLine(g)
    BY <1>4, <1>5, <1>6, LineEnd
  <2>2. g.t.line \in Comments
    BY <1>7, <2>1, GatewayPieces DEF Same
  <2>3. SameFrame(r[2].t, g.t) /\ r[2].t.line = "" /\ r[2].a = g.a
    BY <2>1, <2>2, LineRead
  <2> QED
    BY <1>7, <2>1, <2>3 DEF Same, SameFrame
<1>9. PICK g \in FedType : Same(g.t, r[2].t) /\ g.a = r[2].a /\ h = ProcessLine(g)
  BY <1>4, <1>6, LineEnd
<1>10. Same(g.t, t)
  BY <1>8, <1>9 DEF Same, SameFrame, SafeForHeartbeat
<1>11. g.t.line = "" /\ SafeForHeartbeat(g.t)
  BY <1>10 DEF Same, SafeForHeartbeat
<1>12. Same(h.t, g.t) /\ h.t.frameBytes = 0 /\ h.a = g.a
  BY <1>6, <1>9, <1>11, BlankLine
<1>13. Same(h.t, t) /\ h.a = r[0].a
  BY <1>8, <1>9, <1>10, <1>12 DEF Same
<1>14. Outcome(h.a) = "none"
  BY <1>3, <1>13 DEF Outcome
<1> QED
  BY <1>12, <1>13, <1>14

\* The end of a line twice ends any frame.
LEMMA FrameEndRead ==
    ASSUME NEW t \in TrackerType, t.terminal # "BufferLimitExceeded"
    PROVE  LET h == Feed(t, FrameEnd)
           IN  Over(h) \/ SafeForHeartbeat(h.t)
<1> DEFINE h == Feed(t, FrameEnd)
<1>1. /\ FrameEnd \in Seq(Pieces) /\ Len(FrameEnd) = 2
      /\ FrameEnd[1] = "nl" /\ FrameEnd[2] = "nl"
  BY GatewayPieces, TupleFacts DEF FrameEnd
<1>2. \A i \in 1..Len(FrameEnd) : FrameEnd[i] \notin {"raw", "rest"}
  <2>1. \A i \in 1..Len(FrameEnd) : i = 1 \/ i = 2
    BY <1>1
  <2> QED
    BY <1>1, <2>1
<1>3. PICK r : /\ \A i \in 0..2 : r[i] \in FedType
               /\ \A i \in 1..2 : r[i] = FeedPiece(r[i - 1], FrameEnd[i])
               /\ h = r[2]
  BY <1>1, <1>2, FeedRun
<1>4. /\ r[0] \in FedType /\ r[1] \in FedType
      /\ r[1] = FeedPiece(r[0], "nl") /\ h = FeedPiece(r[1], "nl")
  BY <1>1, <1>3
<1>5. Over(r[1]) => Over(h)
  BY <1>4, GatewayPieces, PieceType
<1> HIDE DEF h
<1>6. SUFFICES ASSUME ~Over(h) PROVE SafeForHeartbeat(h.t)
  BY DEF h
<1>7. r[1].t.line = ""
  <2>1. PICK g \in FedType : r[1] = ProcessLine(g)
    BY <1>4, <1>5, <1>6, LineEnd
  <2>2. CASE g.t.line = ""
    <3>1. SafeForHeartbeat(r[1].t)
      BY <1>5, <1>6, <2>1, <2>2, BlankLine
    <3> QED
      BY <3>1 DEF SafeForHeartbeat
  <2>3. CASE g.t.line # ""
    BY <2>1, <2>3, LineRead
  <2> QED
    BY <2>2, <2>3
<1>8. PICK g \in FedType : Same(g.t, r[1].t) /\ h = ProcessLine(g)
  BY <1>4, <1>6, LineEnd
<1>9. g.t.line = ""
  BY <1>7, <1>8 DEF Same
<1> QED
  BY <1>6, <1>8, <1>9, BlankLine

\* A line of data and a blank line, with or without an event before them.
LEMMA DataFrame ==
    ASSUME NEW f \in FedType, f.t.line = "", f.t.data = "",
           NEW w \in Data, w \in Pieces, w # "nl", w # "rest",
           NEW h, h = FeedPiece(FeedPiece(FeedPiece(f, w), "nl"), "nl"), ~Over(h)
    PROVE  /\ h \in FedType /\ SafeForHeartbeat(h.t)
           /\ w \in Failures /\ f.t.event # "stop" /\ f.a.terminal = "none" => h.a.terminal = w
           /\ w = "done" /\ f.t.event = "" /\ f.a.terminal \notin Failures =>
                h.a.terminal = "Completed" /\ h.a.error = f.a.error
           /\ f.a.terminal \in Failures => h.a.terminal = f.a.terminal
<1> DEFINE x == FeedPiece(f, w)
           y == FeedPiece(x, "nl")
<1>0. "nl" \in Pieces
  BY GatewayPieces
<1>1. h = FeedPiece(y, "nl")
  OBVIOUS
<1>2. x \in FedType
  BY PieceType
<1> HIDE DEF y
<1>3. y \in FedType /\ (Over(x) => Over(y))
  BY <1>0, <1>2, PieceType DEF y
<1>4. h \in FedType /\ (Over(y) => Over(h))
  BY <1>0, <1>1, <1>3, PieceType
<1>5. /\ x.a = f.a /\ x.t.line = w /\ x.t.event = f.t.event /\ x.t.data = ""
  <2>1. ~Over(x)
    BY <1>3, <1>4
  <2> QED
    BY <2>1, TextPiece
<1> HIDE DEF x
<1>6. y.a = f.a /\ y.t.line = "" /\ y.t.data = w /\ y.t.event = f.t.event
  <2>1. PICK g \in FedType : Same(g.t, x.t) /\ g.a = x.a /\ y = ProcessLine(g)
    BY <1>2, <1>4, LineEnd DEF y
  <2>2. g.t.line \in Data /\ g.t.line = w /\ g.t.data = "" /\ g.t.event = f.t.event
    BY <1>5, <2>1 DEF Same
  <2>3. y.a = g.a /\ y.t.line = "" /\ y.t.data = g.t.line /\ y.t.event = g.t.event
    BY <2>1, <2>2, LineRead
  <2> QED
    BY <1>5, <2>1, <2>2, <2>3
<1>7. PICK g \in FedType : Same(g.t, y.t) /\ g.a = y.a /\ h = ProcessLine(g)
  BY <1>1, <1>3, LineEnd
<1>8. g.t.line = "" /\ g.t.data = w /\ g.t.event = f.t.event /\ g.a = f.a
  BY <1>6, <1>7 DEF Same
<1>9. /\ SafeForHeartbeat(h.t)
      /\ g.t.data \in Failures /\ g.t.event # "stop" /\ g.a.terminal = "none" =>
           h.a.terminal = g.t.data
      /\ g.t.data = "done" /\ g.t.event = "" /\ g.a.terminal \notin Failures =>
           h.a.terminal = "Completed" /\ g.a.error = h.a.error
      /\ g.a.terminal \in Failures => h.a.terminal = g.a.terminal
  BY <1>7, <1>8, BlankLine
<1> QED
  BY <1>4, <1>8, <1>9

\* The frame that ends a Chat stream.
LEMMA DoneRead ==
    ASSUME NEW t \in TrackerType, t.terminal # "BufferLimitExceeded", SafeForHeartbeat(t)
    PROVE  LET h == Feed(t, DoneFrame)
           IN  Over(h) \/ Outcome(h.a) = "Completed"
<1> DEFINE h == Feed(t, DoneFrame)
           w == "done"
<1>1. /\ DoneFrame \in Seq(Pieces) /\ Len(DoneFrame) = 3
      /\ DoneFrame[1] = w /\ DoneFrame[2] = "nl" /\ DoneFrame[3] = "nl"
  BY GatewayPieces, TupleFacts DEF DoneFrame
<1>2. \A i \in 1..Len(DoneFrame) : DoneFrame[i] \notin {"raw", "rest"}
  <2>1. \A i \in 1..Len(DoneFrame) : i = 1 \/ i = 2 \/ i = 3
    BY <1>1
  <2> QED
    BY <1>1, <2>1
<1>3. PICK r : /\ \A i \in 0..3 : r[i] \in FedType
               /\ Same(r[0].t, t) /\ r[0].a.terminal = "none" /\ ~r[0].a.error
               /\ \A i \in 1..3 : r[i] = FeedPiece(r[i - 1], DoneFrame[i])
               /\ h = r[3]
  BY <1>1, <1>2, FeedRun
<1>4. /\ r[0] \in FedType /\ h = FeedPiece(FeedPiece(FeedPiece(r[0], w), "nl"), "nl")
  BY <1>1, <1>3
<1> HIDE DEF h
<1>5. SUFFICES ASSUME ~Over(h) PROVE Outcome(h.a) = "Completed"
  BY DEF h
<1>6. /\ r[0].t.line = "" /\ r[0].t.data = "" /\ r[0].t.event = ""
      /\ r[0].a.terminal \notin Failures /\ r[0].a.error \in BOOLEAN
  BY <1>3, <1>4, VerdictFacts DEF Same, SafeForHeartbeat, FedType, ActivityType
<1>7. w \in Data /\ w \in Pieces /\ w # "nl" /\ w # "rest" /\ w = "done"
  BY GatewayPieces
<1> HIDE DEF w
<1>8. h.a.terminal = "Completed" /\ h.a.error = r[0].a.error
  BY <1>4, <1>5, <1>6, <1>7, DataFrame
<1> QED
  BY <1>3, <1>6, <1>8 DEF Outcome

\* The gateway's error frame is read as what it says, whatever came before it.
LEMMA ErrorRead ==
    ASSUME NEW t \in TrackerType, t.terminal # "BufferLimitExceeded", SafeForHeartbeat(t),
           NEW v \in Failures
    PROVE  LET h == Feed(t, ErrorFrame(v))
           IN  Over(h) \/ Outcome(h.a) = v
<1> DEFINE E == ErrorFrame(v)
           h == Feed(t, E)
           d == "done"
           e == "everror"
<1>0. /\ v \in Data /\ v \in Pieces /\ v \notin {"nl", "rest", "raw", "done"}
      /\ d \in Data /\ d \in Pieces /\ d \notin {"nl", "rest", "raw"}
      /\ e \in Events /\ e \in Pieces /\ e \notin {"nl", "rest", "raw", "stop"}
      /\ "nl" \in Pieces /\ "nl" \notin {"rest", "raw"}
  BY GatewayPieces
<1>1. SUFFICES ASSUME ~Over(h) PROVE h.a.terminal = v
  BY DEF Outcome
<1>2. CASE protocol = "chat"
  <2> DEFINE A == <<v, "nl", "nl">>
             B == <<d, "nl", "nl">>
  <2>1. E = A \o B
    BY <1>2 DEF ErrorFrame, DoneFrame
  <2> HIDE DEF E, d, e
  <2>2. /\ E \in Seq(Pieces) /\ Len(E) = 6
        /\ E[1] = v /\ E[2] = "nl" /\ E[3] = "nl" /\ E[4] = d /\ E[5] = "nl" /\ E[6] = "nl"
    <3>1. /\ A \in Seq(Pieces) /\ Len(A) = 3 /\ B \in Seq(Pieces) /\ Len(B) = 3
          /\ A[1] = v /\ A[2] = "nl" /\ A[3] = "nl" /\ B[1] = d /\ B[2] = "nl" /\ B[3] = "nl"
      BY <1>0, TupleFacts
    <3> HIDE DEF A, B
    <3>2. /\ E \in Seq(Pieces) /\ Len(E) = 6
          /\ \A i \in 1..6 : E[i] = IF i <= 3 THEN A[i] ELSE B[i - 3]
      <4> DEFINE C == A \o B
      <4>1. /\ C \in Seq(Pieces) /\ Len(C) = Len(A) + Len(B)
            /\ \A i \in 1..(Len(A) + Len(B)) :
                 C[i] = IF i <= Len(A) THEN A[i] ELSE B[i - Len(A)]
        BY <3>1, ConcatProperties, Zenon
      <4>2. E = C
        BY <2>1
      <4> HIDE DEF C
      <4> QED
        BY <3>1, <4>1, <4>2
    <3>3. E[1] = A[1] /\ E[2] = A[2] /\ E[3] = A[3]
      BY <3>2
    <3>4. E[4] = B[1] /\ E[5] = B[2] /\ E[6] = B[3]
      BY <3>2
    <3> QED
      BY <3>1, <3>2, <3>3, <3>4
  <2>3. \A i \in 1..Len(E) : E[i] \notin {"raw", "rest"}
    <3>1. \A i \in 1..Len(E) : i = 1 \/ i = 2 \/ i = 3 \/ i = 4 \/ i = 5 \/ i = 6
      BY <2>2
    <3> QED
      BY <1>0, <2>2, <3>1
  <2>4. PICK r : /\ \A i \in 0..6 : r[i] \in FedType
                 /\ Same(r[0].t, t) /\ r[0].a.terminal = "none" /\ ~r[0].a.error
                 /\ \A i \in 1..6 : r[i] = FeedPiece(r[i - 1], E[i])
                 /\ h = r[6]
    BY <2>2, <2>3, FeedRun
  <2> DEFINE m == r[3]
  <2>5. /\ r[0] \in FedType /\ m \in FedType
        /\ m = FeedPiece(FeedPiece(FeedPiece(r[0], v), "nl"), "nl")
        /\ h = FeedPiece(FeedPiece(FeedPiece(m, d), "nl"), "nl")
    BY <2>2, <2>4
  <2> HIDE DEF m, h
  <2>6. ~Over(m)
    <3>1. Over(m) => Over(FeedPiece(m, d)) /\ FeedPiece(m, d) \in FedType
      BY <1>0, <2>5, PieceType
    <3>2. Over(m) => /\ Over(FeedPiece(FeedPiece(m, d), "nl"))
                     /\ FeedPiece(FeedPiece(m, d), "nl") \in FedType
      BY <1>0, <3>1, PieceType
    <3>3. Over(m) => Over(h)
      BY <1>0, <2>5, <3>2, PieceType
    <3> QED
      BY <1>1, <3>3 DEF h
  <2>7. r[0].t.line = "" /\ r[0].t.data = "" /\ r[0].t.event # "stop"
    BY <2>4 DEF Same, SafeForHeartbeat
  <2>8. m.a.terminal = v /\ SafeForHeartbeat(m.t)
    BY <1>0, <2>4, <2>5, <2>6, <2>7, DataFrame
  <2>9. m.t.line = "" /\ m.t.data = ""
    BY <2>8 DEF SafeForHeartbeat
  <2>10. h.a.terminal = m.a.terminal
    <3>1. ~Over(h) /\ m.a.terminal \in Failures
      BY <1>1, <2>8 DEF h
    <3>2. d \in Data /\ d \in Pieces /\ d # "nl" /\ d # "rest"
      BY <1>0
    <3>3. m \in FedType /\ h = FeedPiece(FeedPiece(FeedPiece(m, d), "nl"), "nl")
      BY <2>5
    <3> QED
      BY <2>9, <3>1, <3>2, <3>3, DataFrame
  <2> QED
    BY <2>8, <2>10 DEF h
<1>3. CASE protocol # "chat"
  <2>1. E = <<e, "nl", v, "nl", "nl">>
    BY <1>3 DEF ErrorFrame
  <2> HIDE DEF E, d, e
  <2>2. /\ E \in Seq(Pieces) /\ Len(E) = 5
        /\ E[1] = e /\ E[2] = "nl" /\ E[3] = v /\ E[4] = "nl" /\ E[5] = "nl"
    BY <1>0, <2>1
  <2>3. \A i \in 1..Len(E) : E[i] \notin {"raw", "rest"}
    <3>1. \A i \in 1..Len(E) : i = 1 \/ i = 2 \/ i = 3 \/ i = 4 \/ i = 5
      BY <2>2
    <3> QED
      BY <1>0, <2>2, <3>1
  <2>4. PICK r : /\ \A i \in 0..5 : r[i] \in FedType
                 /\ Same(r[0].t, t) /\ r[0].a.terminal = "none" /\ ~r[0].a.error
                 /\ \A i \in 1..5 : r[i] = FeedPiece(r[i - 1], E[i])
                 /\ h = r[5]
    BY <2>2, <2>3, FeedRun
  <2> DEFINE k == r[1]
             m == r[2]
  <2>5. /\ r[0] \in FedType /\ k \in FedType /\ m \in FedType
        /\ k = FeedPiece(r[0], e) /\ m = FeedPiece(k, "nl")
        /\ h = FeedPiece(FeedPiece(FeedPiece(m, v), "nl"), "nl")
    BY <2>2, <2>4
  <2> HIDE DEF k, m, h
  <2>6. ~Over(m) /\ ~Over(k)
    <3>1. Over(m) => Over(FeedPiece(m, v)) /\ FeedPiece(m, v) \in FedType
      BY <1>0, <2>5, PieceType
    <3>2. Over(m) => /\ Over(FeedPiece(FeedPiece(m, v), "nl"))
                     /\ FeedPiece(FeedPiece(m, v), "nl") \in FedType
      BY <1>0, <3>1, PieceType
    <3>3. Over(m) => Over(h)
      BY <1>0, <2>5, <3>2, PieceType
    <3>4. Over(k) => Over(m)
      BY <1>0, <2>5, PieceType
    <3> QED
      BY <1>1, <3>3, <3>4 DEF h
  <2>7. r[0].t.line = "" /\ r[0].t.data = ""
    BY <2>4 DEF Same, SafeForHeartbeat
  <2>8. k.a = r[0].a /\ k.t.line = e /\ k.t.data = ""
    BY <1>0, <2>5, <2>6, <2>7, TextPiece
  <2>9. PICK g \in FedType : Same(g.t, k.t) /\ g.a = k.a /\ m = ProcessLine(g)
    BY <2>5, <2>6, LineEnd
  <2>10. g.t.line = e /\ g.t.data = "" /\ g.t.line \in Events
    BY <1>0, <2>8, <2>9 DEF Same
  <2>11. m.a = g.a /\ m.t.line = "" /\ m.t.event = e /\ m.t.data = ""
    BY <2>9, <2>10, LineRead
  <2>12. m.a.terminal = "none" /\ m.t.event # "stop"
    BY <1>0, <2>4, <2>8, <2>9, <2>11
  <2>13. h.a.terminal = v
    <3>1. ~Over(h)
      BY <1>1 DEF h
    <3>2. v \in Data /\ v \in Pieces /\ v # "nl" /\ v # "rest"
      BY <1>0
    <3>3. m \in FedType /\ h = FeedPiece(FeedPiece(FeedPiece(m, v), "nl"), "nl")
      BY <2>5
    <3>4. m.t.line = "" /\ m.t.data = ""
      BY <2>11
    <3> QED
      BY <2>12, <3>1, <3>2, <3>3, <3>4, DataFrame
  <2> QED
    BY <2>13 DEF h
<1> QED
  BY <1>2, <1>3

-----------------------------------------------------------------------------
(* The invariant. *)

Agree(t, u) == Same(t, u) /\ u.frameBytes <= t.frameBytes

RelayTypes ==
    /\ tracker \in TrackerType /\ seen \in TrackerType
    /\ pending \in Seq(Seq(Pieces))
    /\ finishing \in BOOLEAN /\ cut \in BOOLEAN
    /\ body \in {"open", "ended", "dropped"}
    /\ termination \in Verdicts /\ judged \in Verdicts

\* Before the relay has judged the stream, the chunk it is about to yield
\* brings the observer's tracker to its own.
Relaying ==
    body = "open" /\ ~finishing =>
        /\ tracker.terminal = "none"
        /\ Overrun \/ termination = "none"
        /\ \/ pending = <<>> /\ (Overrun \/ Agree(tracker, seen))
           \/ \E c \in Seq(Pieces) :
                /\ pending = <<c>>
                /\ \/ Over(Feed(seen, c))
                   \/ /\ Agree(tracker, Feed(seen, c).t)
                      /\ Outcome(Feed(seen, c).a) = "none"

\* Yielding the chunks of q makes the observer find the verdict v.
Shows(q, v) ==
    \/ q = <<>> /\ termination = v
    \/ /\ q = <<>> /\ termination = "none" /\ v = "Completed"
       /\ SafeForHeartbeat(seen) /\ seen.sawProvider /\ ~seen.sawSse
       /\ seen.terminal = "none"
    \/ \E c \in Seq(Pieces) :
         q = <<c>> /\ (Over(Feed(seen, c)) \/ Outcome(Feed(seen, c).a) = v)
    \/ v \in Failures /\ q = <<FrameEnd, ErrorFrame(v)>>
    \/ v \in Failures /\ \E c \in Seq(Pieces) : q = <<c, FrameEnd, ErrorFrame(v)>>

\* Afterwards, what is still to be yielded shows the observer the verdict.
Judging ==
    body = "open" /\ finishing /\ ~cut => Overrun \/ Shows(pending, judged)

Reported ==
    /\ body = "open" => reports = <<>> /\ (Overrun => termination = "BufferLimitExceeded")
    /\ body # "open" => \E v : reports = <<v>>
    /\ body = "ended" => finishing
    /\ body = "ended" /\ ~cut => \/ reports = <<judged>>
                                 \/ Overrun /\ reports = <<"BufferLimitExceeded">>
    /\ body = "dropped" /\ judged = "none" /\ ~Overrun => reports = <<"ClientCancelled">>

RelayInv ==
    /\ RelayTypes
    /\ finishing <=> judged # "none"
    /\ Relaying /\ Judging /\ Reported

LEMMA RelayInvProperties == RelayInv => TrackersAgree /\ VerdictFaithful
<1> SUFFICES ASSUME RelayInv PROVE TrackersAgree /\ VerdictFaithful
  OBVIOUS
<1>1. TrackersAgree
  <2>1. SUFFICES ASSUME Waiting, ~Overrun
                 PROVE  /\ [tracker EXCEPT !.frameBytes = 0] = [seen EXCEPT !.frameBytes = 0]
                        /\ seen.frameBytes <= tracker.frameBytes
    BY DEF TrackersAgree
  <2>2. Agree(tracker, seen)
    BY <2>1 DEF RelayInv, Relaying, Waiting
  <2>3. [tracker EXCEPT !.frameBytes = 0] = [seen EXCEPT !.frameBytes = 0]
    BY <2>2 DEF Agree, Same, RelayInv, RelayTypes, TrackerType
  <2> QED
    BY <2>2, <2>3 DEF Agree
<1>2. VerdictFaithful
  BY DEF RelayInv, Reported, VerdictFaithful
<1> QED
  BY <1>1, <1>2

LEMMA EmptyTyped == EmptyTracker \in TrackerType
<1> DEFINE no == FALSE
<1>1. no \in BOOLEAN /\ "none" \in Verdicts /\ "" \in Words /\ {} \in SUBSET Int
  BY WordFacts, VerdictFacts
<1>2. EmptyTracker = [line |-> "", frameBytes |-> 0, event |-> "", data |-> "",
        nonComment |-> no, sawProvider |-> no, sawSse |-> no,
        unfinished |-> {}, sawFinish |-> no, terminal |-> "none"]
  BY DEF EmptyTracker
<1> HIDE DEF no
<1> QED
  BY <1>1, <1>2 DEF TrackerType

LEMMA InitRelayInv == RelayInit => RelayInv
<1> SUFFICES ASSUME RelayInit PROVE RelayInv
  OBVIOUS
<1>1. RelayTypes
  <2>1. <<>> \in Seq(Seq(Pieces))
    OBVIOUS
  <2>2. finishing \in BOOLEAN /\ cut \in BOOLEAN
    BY DEF RelayInit
  <2>3. tracker \in TrackerType /\ seen \in TrackerType
    BY EmptyTyped DEF RelayInit
  <2>4. termination \in Verdicts /\ judged \in Verdicts
    BY VerdictFacts DEF RelayInit
  <2>5. pending \in Seq(Seq(Pieces))
    BY <2>1 DEF RelayInit
  <2>6. body \in {"open", "ended", "dropped"}
    BY DEF RelayInit
  <2> QED
    BY <2>2, <2>3, <2>4, <2>5, <2>6 DEF RelayTypes
<1>2. tracker.terminal = "none"
  BY DEF RelayInit, EmptyTracker
<1>3. Agree(tracker, seen)
  BY EmptyTyped DEF RelayInit, Agree, Same, TrackerType
<1>4. ~Overrun
  BY DEF RelayInit, Overrun, EmptyTracker
<1> QED
  BY <1>1, <1>2, <1>3, <1>4 DEF RelayInv, RelayInit, Relaying, Judging, Reported

-----------------------------------------------------------------------------
(* The end of the upstream, and the chunks the relay queues. *)

LEMMA DispatchOver ==
    ASSUME NEW f \in FedType, Over(f)
    PROVE  Over(Dispatch(f))
<1>1. CASE Dispatch(f) = f
  BY <1>1
<1>2. ASSUME NEW g \in FedType, g.t.terminal = f.t.terminal, NEW c,
             \/ Dispatch(f) = LimitExceeded(g) \/ Dispatch(f) = Conclude(g, c)
      PROVE  Over(Dispatch(f))
  <2>1. CASE Dispatch(f) = LimitExceeded(g)
    BY <1>2, <2>1, LimitType DEF Over
  <2>2. CASE Dispatch(f) = Conclude(g, c)
    <3>1. \A s : Merge(g.t.terminal, s) = "BufferLimitExceeded"
      BY <1>2, VerdictFacts DEF Merge, Over
    <3>2. Conclude(g, c).t.terminal = "BufferLimitExceeded"
      BY <1>2, <3>1 DEF Conclude, FedType, TrackerType
    <3> QED
      BY <2>2, <3>2 DEF Over
  <2> QED
    BY <1>2, <2>1, <2>2
<1> QED
  BY <1>1, <1>2, DispatchCases

LEMMA ProcessLineOver ==
    ASSUME NEW f \in FedType, Over(f), f.t.line # ""
    PROVE  Over(ProcessLine(f))
<1> DEFINE g == [f EXCEPT !.t.line = ""]
<1>1. g.t.terminal = f.t.terminal /\ g \in FedType
  BY WordFacts DEF FedType, TrackerType
<1>2. \A w : /\ [g EXCEPT !.t.sawSse = TRUE, !.t.event = w].t.terminal = f.t.terminal
             /\ [g EXCEPT !.t.sawSse = TRUE, !.t.data = w].t.terminal = f.t.terminal
             /\ [g EXCEPT !.t.sawSse = TRUE].t.terminal = f.t.terminal
             /\ [g EXCEPT !.t.nonComment = TRUE].t.terminal = f.t.terminal
  <2> HIDE DEF g
  <2> QED
    BY <1>1 DEF FedType, TrackerType
<1> DEFINE d == IF g.t.data = "" THEN f.t.line ELSE "other"
<1>3. \/ ProcessLine(f) = g
      \/ ProcessLine(f) = [g EXCEPT !.t.sawSse = TRUE, !.t.event = f.t.line]
      \/ ProcessLine(f) = [g EXCEPT !.t.sawSse = TRUE, !.t.data = d]
      \/ ProcessLine(f) = [g EXCEPT !.t.sawSse = TRUE]
      \/ ProcessLine(f) = [g EXCEPT !.t.nonComment = TRUE]
  BY LineKinds DEF ProcessLine
<1>4. /\ [g EXCEPT !.t.sawSse = TRUE, !.t.event = f.t.line].t.terminal = f.t.terminal
      /\ [g EXCEPT !.t.sawSse = TRUE, !.t.data = d].t.terminal = f.t.terminal
  <2> HIDE DEF g, d
  <2> QED
    BY <1>2
<1> HIDE DEF g, d
<1>5. ProcessLine(f).t.terminal = f.t.terminal
  BY <1>1, <1>2, <1>3, <1>4, Zenon
<1> QED
  BY <1>5 DEF Over

LEMMA EofFacts ==
    ASSUME NEW t \in TrackerType
    PROVE  /\ FinishEof(t) \in FedType
           /\ t.terminal = "BufferLimitExceeded" => Over(FinishEof(t))
           /\ SafeForHeartbeat(t) => /\ FinishEof(t).t = t
                                     /\ ~FinishEof(t).a.error
<1> DEFINE f == [t |-> t, a |-> NoActivity]
           g == IF t.line = "" THEN f ELSE ProcessLine(f)
<1>1. f \in FedType /\ f.t = t /\ f.a = NoActivity
  BY ActivityFacts DEF FedType
<1>2. SameFed(f, f)
  BY DEF SameFed, Same
<1>3. FinishEof(t) = Dispatch(g)
  BY DEF FinishEof
<1>4. (t.line # "" => g = ProcessLine(f) /\ f.t.line # "") /\ (t.line = "" => g = f)
  BY <1>1
<1> HIDE DEF f, g
<1>5. g \in FedType
  BY <1>1, <1>2, <1>4, ProcessLineFacts
<1>6. t.terminal = "BufferLimitExceeded" => Over(g)
  BY <1>1, <1>4, ProcessLineOver DEF Over
<1>7. SafeForHeartbeat(t) => Dispatch(g) = f
  <2>1. SUFFICES ASSUME SafeForHeartbeat(t) PROVE Dispatch(g) = f
    OBVIOUS
  <2>2. g = f /\ ~f.t.nonComment /\ f.t.data = "" /\ f.t.event = ""
    BY <1>1, <1>4, <2>1 DEF SafeForHeartbeat
  <2> QED
    BY <2>2 DEF Dispatch
<1>8. Dispatch(g) \in FedType
  BY <1>5, DispatchType
<1>9. t.terminal = "BufferLimitExceeded" => Over(Dispatch(g))
  BY <1>5, <1>6, DispatchOver
<1> QED
  BY <1>1, <1>3, <1>7, <1>8, <1>9, ActivityFacts

\* An observer over the limit stays there.
LEMMA FeedOver ==
    ASSUME NEW t \in TrackerType, t.terminal = "BufferLimitExceeded", NEW c \in Seq(Pieces)
    PROVE  Over(Feed(t, c))
BY DEF Feed, Over

LEMMA FrameTypes ==
    /\ Heartbeat \in Seq(Pieces) /\ FrameEnd \in Seq(Pieces) /\ DoneFrame \in Seq(Pieces)
    /\ \A v \in Failures : ErrorFrame(v) \in Seq(Pieces)
<1>1. Heartbeat \in Seq(Pieces)
  BY GatewayPieces, TupleFacts DEF Heartbeat
<1>2. FrameEnd \in Seq(Pieces)
  BY GatewayPieces, TupleFacts DEF FrameEnd
<1>3. DoneFrame \in Seq(Pieces)
  BY GatewayPieces, TupleFacts DEF DoneFrame
<1>4. ASSUME NEW v \in Failures PROVE ErrorFrame(v) \in Seq(Pieces)
  <2>1. CASE protocol = "chat"
    <3> DEFINE A == <<v, "nl", "nl">>
    <3>1. A \in Seq(Pieces)
      BY GatewayPieces, TupleFacts
    <3>2. ErrorFrame(v) = A \o DoneFrame
      BY <2>1 DEF ErrorFrame
    <3> HIDE DEF A
    <3>3. A \o DoneFrame \in Seq(Pieces)
      BY <1>3, <3>1, ConcatProperties, Zenon
    <3> QED
      BY <3>2, <3>3
  <2>2. CASE protocol # "chat"
    <3> DEFINE e == "everror"
               n == "nl"
    <3>1. e \in Pieces /\ n \in Pieces /\ v \in Pieces
      BY GatewayPieces
    <3>2. ErrorFrame(v) = <<e, n, v, n, n>>
      BY <2>2 DEF ErrorFrame
    <3> HIDE DEF e, n
    <3> QED
      BY <3>1, <3>2
  <2> QED
    BY <2>1, <2>2
<1> QED
  BY <1>1, <1>2, <1>3, <1>4

\* Queues of one, two and three chunks.
LEMMA QueueFacts ==
    ASSUME NEW S, NEW a \in S, NEW b \in S, NEW c \in S
    PROVE  /\ <<a>> \in Seq(S) /\ <<a>> # <<>> /\ Head(<<a>>) = a /\ Tail(<<a>>) = <<>>
           /\ <<a, b>> \in Seq(S) /\ <<a, b>> # <<>>
           /\ Head(<<a, b>>) = a /\ Tail(<<a, b>>) = <<b>>
           /\ <<a, b, c>> \in Seq(S) /\ <<a, b, c>> # <<>>
           /\ Head(<<a, b, c>>) = a /\ Tail(<<a, b, c>>) = <<b, c>>
<1>1. <<a>> \in Seq(S) /\ <<a>> # <<>> /\ Head(<<a>>) = a /\ Tail(<<a>>) = <<>>
  <2>1. <<a>> \in Seq(S) /\ Len(<<a>>) = 1 /\ Head(<<a>>) = a
    OBVIOUS
  <2>2. Len(Tail(<<a>>)) = 0 /\ Tail(<<a>>) \in Seq(S)
    BY <2>1
  <2> QED
    BY <2>1, <2>2
<1>2. /\ <<a, b>> \in Seq(S) /\ <<a, b>> # <<>>
      /\ Head(<<a, b>>) = a /\ Tail(<<a, b>>) = <<b>>
  OBVIOUS
<1>3. /\ <<a, b, c>> \in Seq(S) /\ <<a, b, c>> # <<>>
      /\ Head(<<a, b, c>>) = a /\ Tail(<<a, b, c>>) = <<b, c>>
  <2>1. <<a, b, c>> \in Seq(S) /\ <<a, b, c>> # <<>> /\ Head(<<a, b, c>>) = a
    OBVIOUS
  <2>2. Tail(<<a, b, c>>) = <<b, c>>
    OBVIOUS
  <2> QED
    BY <2>1, <2>2
<1> QED
  BY <1>1, <1>2, <1>3

LEMMA ThreeChunks ==
    ASSUME NEW S, NEW a \in S, NEW b \in S, NEW c \in S
    PROVE  \A x : x = <<a>> \o <<b, c>> => x = <<a, b, c>>
<1>1. <<a>> \o <<b, c>> = <<a, b, c>>
  <2> DEFINE A == <<a>>
             B == <<b, c>>
             X == A \o B
             Y == <<a, b, c>>
  <2>1. /\ A \in Seq(S) /\ Len(A) = 1 /\ A[1] = a
        /\ B \in Seq(S) /\ Len(B) = 2 /\ B[1] = b /\ B[2] = c
        /\ Y \in Seq(S) /\ Len(Y) = 3 /\ Y[1] = a /\ Y[2] = b /\ Y[3] = c
    OBVIOUS
  <2> HIDE DEF A, B, Y
  <2>2. /\ X \in Seq(S) /\ Len(X) = Len(A) + Len(B)
        /\ \A i \in 1..(Len(A) + Len(B)) : X[i] = IF i <= Len(A) THEN A[i] ELSE B[i - Len(A)]
    BY <2>1, ConcatProperties, Zenon
  <2> HIDE DEF X
  <2>3. Len(X) = 3 /\ X[1] = a /\ X[2] = b /\ X[3] = c
    BY <2>1, <2>2
  <2>4. \A i \in 1..3 : i = 1 \/ i = 2 \/ i = 3
    OBVIOUS
  <2>5. \A i \in 1..Len(X) : X[i] = Y[i]
    BY <2>1, <2>3, <2>4
  <2>6. X = Y
    BY <2>1, <2>2, <2>3, <2>5, SeqEqual
  <2> QED
    BY <2>6 DEF X, Y, A, B
<1> QED
  BY <1>1, Zenon

\* Before an error frame an open frame is ended.
LEMMA FailureQueue ==
    ASSUME NEW t, NEW v \in Failures
    PROVE  /\ FailureChunks(t, v) \in Seq(Seq(Pieces))
           /\ \/ FailureChunks(t, v) = <<FrameEnd, ErrorFrame(v)>>
              \/ FailureChunks(t, v) = <<ErrorFrame(v)>> /\ SafeForHeartbeat(t)
           /\ v = "BufferLimitExceeded" => FailureChunks(t, v) = <<FrameEnd, ErrorFrame(v)>>
<1>1. FrameEnd \in Seq(Pieces) /\ ErrorFrame(v) \in Seq(Pieces)
  BY FrameTypes
<1>2. <<FrameEnd, ErrorFrame(v)>> \in Seq(Seq(Pieces)) /\ <<ErrorFrame(v)>> \in Seq(Seq(Pieces))
  BY <1>1, QueueFacts
<1> QED
  BY <1>2 DEF FailureChunks

-----------------------------------------------------------------------------
(* The steps of the relay. *)

\* What the relay can rely on while it waits.
LEMMA WaitingFacts ==
    ASSUME RelayInv, Waiting
    PROVE  /\ tracker \in TrackerType /\ seen \in TrackerType
           /\ ~finishing /\ judged = "none" /\ tracker.terminal = "none"
           /\ body = "open" /\ reports = <<>> /\ termination \in Verdicts /\ cut \in BOOLEAN
           /\ Overrun => termination = "BufferLimitExceeded"
           /\ ~Overrun => Agree(tracker, seen) /\ termination = "none"
<1>1. body = "open" /\ pending = <<>> /\ ~finishing
  BY DEF Waiting
<1>2. /\ tracker.terminal = "none" /\ (Overrun \/ termination = "none")
      /\ Overrun \/ Agree(tracker, seen)
  BY <1>1 DEF RelayInv, Relaying
<1> QED
  BY <1>1, <1>2 DEF RelayInv, RelayTypes, Reported

\* The relay queues q and judges the stream.
LEMMA FinishKeeps ==
    ASSUME RelayInv, Waiting, UNCHANGED <<protocol, guardVars>>,
           NEW q \in Seq(Seq(Pieces)), NEW v \in Verdicts, v # "none", Finish(q, v),
           tracker' \in TrackerType, cut' \in BOOLEAN,
           ~cut' => Overrun \/ Shows(q, v)
    PROVE  RelayInv'
<1>1. /\ pending' = q /\ finishing' = TRUE /\ judged' = v
      /\ protocol' = protocol /\ seen' = seen /\ termination' = termination
      /\ reports' = reports /\ body' = body
  BY DEF Finish, guardVars
<1>2. /\ seen \in TrackerType /\ body = "open" /\ reports = <<>> /\ termination \in Verdicts
      /\ Overrun => termination = "BufferLimitExceeded"
  BY WaitingFacts
<1>3. RelayTypes'
  BY <1>1, <1>2 DEF RelayTypes
<1>4. Overrun' <=> Overrun
  BY <1>1 DEF Overrun
<1>5. Judging'
  <2>1. Shows(q, v) => Shows(pending, judged)'
    BY <1>1 DEF Shows, ErrorFrame
  <2> QED
    BY <1>1, <1>4, <2>1 DEF Judging
<1>6. Reported'
  BY <1>1, <1>2, <1>4 DEF Reported
<1>7. Relaying' /\ (finishing' <=> judged' # "none")
  BY <1>1 DEF Relaying
<1> QED
  BY <1>3, <1>5, <1>6, <1>7 DEF RelayInv

\* The relay queues a chunk that leaves the trackers as they should be.
LEMMA QueueKeeps ==
    ASSUME RelayInv, Waiting, UNCHANGED <<protocol, cut, finishing, judged, guardVars>>,
           NEW c \in Seq(Pieces), pending' = <<c>>,
           tracker' \in TrackerType, tracker'.terminal = "none",
           \/ Over(Feed(seen, c))
           \/ Agree(tracker', Feed(seen, c).t) /\ Outcome(Feed(seen, c).a) = "none"
    PROVE  RelayInv'
<1>1. /\ protocol' = protocol /\ seen' = seen /\ termination' = termination
      /\ reports' = reports /\ body' = body /\ cut' = cut
      /\ finishing' = finishing /\ judged' = judged
  BY DEF guardVars
<1>2. /\ seen \in TrackerType /\ body = "open" /\ reports = <<>> /\ termination \in Verdicts
      /\ ~finishing /\ judged = "none" /\ cut \in BOOLEAN
      /\ Overrun => termination = "BufferLimitExceeded"
      /\ ~Overrun => termination = "none"
  BY WaitingFacts
<1>3. RelayTypes'
  <2>1. <<c>> \in Seq(Seq(Pieces))
    BY QueueFacts
  <2>2. finishing \in BOOLEAN /\ judged \in Verdicts
    BY DEF RelayInv, RelayTypes
  <2> QED
    BY <1>1, <1>2, <2>1, <2>2 DEF RelayTypes
<1>4. Overrun' <=> Overrun
  BY <1>1 DEF Overrun
<1>5. Relaying'
  <2>1. \/ Over(Feed(seen', c))
        \/ Agree(tracker', Feed(seen', c).t) /\ Outcome(Feed(seen', c).a) = "none"
    BY <1>1
  <2>2. Overrun' \/ termination' = "none"
    BY <1>1, <1>2, <1>4
  <2> QED
    BY <2>1, <2>2 DEF Relaying
<1>6. Reported'
  BY <1>1, <1>2, <1>4 DEF Reported
<1>7. Judging' /\ (finishing' <=> judged' # "none")
  BY <1>1, <1>2 DEF Judging
<1> QED
  BY <1>3, <1>5, <1>6, <1>7 DEF RelayInv

\* The gateway's error frame after a stream that is judged a failure.
LEMMA FailureShows ==
    ASSUME RelayInv, Waiting, NEW v \in Failures
    PROVE  Overrun \/ Shows(FailureChunks(tracker, v), v)
<1>1. CASE FailureChunks(tracker, v) = <<FrameEnd, ErrorFrame(v)>>
  BY <1>1 DEF Shows
<1>2. CASE /\ FailureChunks(tracker, v) = <<ErrorFrame(v)>> /\ SafeForHeartbeat(tracker)
           /\ ~Overrun
  <2>1. /\ seen \in TrackerType /\ tracker.terminal = "none" /\ Agree(tracker, seen)
        /\ tracker \in TrackerType
    BY <1>2, WaitingFacts
  <2>2. SafeForHeartbeat(seen) /\ seen.terminal # "BufferLimitExceeded"
    BY <1>2, <2>1 DEF Agree, Same, SafeForHeartbeat
  <2>3. Over(Feed(seen, ErrorFrame(v))) \/ Outcome(Feed(seen, ErrorFrame(v)).a) = v
    BY <2>1, <2>2, ErrorRead
  <2> QED
    BY <1>2, <2>3, FrameTypes DEF Shows
<1> QED
  BY <1>1, <1>2, FailureQueue

LEMMA FailureKeeps ==
    ASSUME RelayInv, Waiting, NEW v \in Failures, Finish(FailureChunks(tracker, v), v),
           UNCHANGED <<protocol, tracker, cut, guardVars>>
    PROVE  RelayInv'
<1>1. v \in Verdicts /\ v # "none"
  BY VerdictFacts
<1>2. FailureChunks(tracker, v) \in Seq(Seq(Pieces))
  BY FailureQueue
<1>3. tracker' \in TrackerType /\ cut' \in BOOLEAN
  BY WaitingFacts
<1>4. Overrun \/ Shows(FailureChunks(tracker, v), v)
  BY FailureShows
<1> DEFINE q == FailureChunks(tracker, v)
<1> HIDE DEF q
<1>5. q \in Seq(Seq(Pieces)) /\ Finish(q, v) /\ (Overrun \/ Shows(q, v))
  BY <1>2, <1>4 DEF q
<1> QED
  BY <1>1, <1>3, <1>5, FinishKeeps

LEMMA UpstreamErrorKeeps ==
    ASSUME RelayInv, UpstreamError
    PROVE  RelayInv'
<1> DEFINE v == "TransportError"
<1>1. v \in Failures
  BY DEF Failures
<1>2. Waiting /\ Finish(FailureChunks(tracker, v), v) /\ UNCHANGED <<protocol, tracker, cut, guardVars>>
  BY DEF UpstreamError
<1> HIDE DEF v
<1> QED
  BY <1>1, <1>2, FailureKeeps

LEMMA TimeoutKeeps ==
    ASSUME RelayInv, NEW timer \in DOMAIN Deadlines, Timeout(timer)
    PROVE  RelayInv'
<1> DEFINE v == Deadlines[timer]
<1>1. v \in Failures
  BY DEF Failures, Deadlines
<1>2. Waiting /\ Finish(FailureChunks(tracker, v), v) /\ UNCHANGED <<protocol, tracker, cut, guardVars>>
  BY DEF Timeout
<1> HIDE DEF v
<1> QED
  BY <1>1, <1>2, FailureKeeps

LEMMA HeartbeatKeeps ==
    ASSUME RelayInv, HeartbeatDue
    PROVE  RelayInv'
<1>1. /\ Waiting /\ SafeForHeartbeat(tracker) /\ pending' = <<Heartbeat>>
      /\ UNCHANGED <<protocol, cut, finishing, judged, guardVars>> /\ tracker' = tracker
  BY DEF HeartbeatDue
<1>2. /\ tracker \in TrackerType /\ seen \in TrackerType /\ tracker.terminal = "none"
      /\ Overrun \/ Agree(tracker, seen)
  BY <1>1, WaitingFacts
<1>3. CASE Overrun
  <2>1. Over(Feed(seen, Heartbeat))
    BY <1>2, <1>3, FeedOver, FrameTypes DEF Overrun
  <2> QED
    BY <1>1, <1>2, <2>1, QueueKeeps, FrameTypes
<1>4. CASE Agree(tracker, seen)
  <2> DEFINE h == Feed(seen, Heartbeat)
  <2>1. SafeForHeartbeat(seen) /\ seen.terminal # "BufferLimitExceeded"
    BY <1>1, <1>2, <1>4 DEF Agree, Same, SafeForHeartbeat
  <2>2. \/ Over(h)
        \/ Same(h.t, seen) /\ h.t.frameBytes = 0 /\ Outcome(h.a) = "none"
    BY <1>2, <2>1, HeartbeatRead
  <2> HIDE DEF h
  <2>3. Over(h) \/ (Agree(tracker, h.t) /\ Outcome(h.a) = "none")
    <3>1. ASSUME Same(h.t, seen), h.t.frameBytes = 0 PROVE Agree(tracker, h.t)
      <4>1. Same(tracker, h.t)
        BY <1>4, <3>1 DEF Agree, Same
      <4>2. 0 <= tracker.frameBytes
        BY <1>2 DEF TrackerType
      <4> QED
        BY <3>1, <4>1, <4>2 DEF Agree
    <3> QED
      BY <2>2, <3>1, Zenon
  <2>4. \/ Over(Feed(seen, Heartbeat))
        \/ Agree(tracker', Feed(seen, Heartbeat).t) /\ Outcome(Feed(seen, Heartbeat).a) = "none"
    BY <1>1, <2>3 DEF h
  <2> QED
    BY <1>1, <1>2, <2>4, QueueKeeps, FrameTypes
<1> QED
  BY <1>2, <1>3, <1>4

LEMMA OutcomeFacts ==
    ASSUME NEW a \in ActivityType
    PROVE  /\ Outcome(a) \in Verdicts
           /\ Outcome(a) = "none" <=> a.terminal = "none" /\ ~a.error
           /\ a.terminal \in Failures => Outcome(a) = a.terminal
<1>1. Outcome(a) \in Verdicts
  BY VerdictFacts DEF Outcome, ActivityType
<1>2. Outcome(a) = "none" <=> a.terminal = "none" /\ ~a.error
  <2>1. CASE a.error
    BY <2>1, VerdictFacts DEF Outcome, ActivityType
  <2>2. CASE ~a.error
    BY <2>2, VerdictFacts DEF Outcome, ActivityType
  <2> QED
    BY <2>1, <2>2
<1>3. a.terminal \in Failures => Outcome(a) = a.terminal
  BY DEF Outcome
<1> QED
  BY <1>1, <1>2, <1>3

LEMMA ChunkKeeps ==
    ASSUME RelayInv, NEW c \in Chunks, UpstreamChunk(c)
    PROVE  RelayInv'
<1> DEFINE f == Feed(tracker, c)
<1>1. /\ Waiting /\ tracker' = f.t /\ UNCHANGED <<protocol, guardVars>> /\ cut' = cut
      /\ IF f.a.terminal = "BufferLimitExceeded"
         THEN Finish(<<c>> \o FailureChunks(f.t, f.a.terminal), f.a.terminal)
         ELSE IF f.a.error \/ f.a.terminal # "none"
         THEN Finish(<<c>>, Outcome(f.a))
         ELSE pending' = <<c>> /\ UNCHANGED <<finishing, judged>>
  BY DEF UpstreamChunk
<1>2. c \in Seq(Pieces)
  BY StreamAssumption
<1>3. /\ tracker \in TrackerType /\ seen \in TrackerType /\ tracker.terminal = "none"
      /\ ~Overrun => Agree(tracker, seen)
  BY <1>1, WaitingFacts
<1>4. /\ f \in FedType
      /\ f.t.terminal = "BufferLimitExceeded" => f.a.terminal = "BufferLimitExceeded"
      /\ f.a.terminal = "none" => f.t.terminal = "none"
  <2>1. Same(tracker, tracker) /\ tracker.frameBytes <= tracker.frameBytes
    BY <1>3 DEF Same, TrackerType
  <2> QED
    BY <1>2, <1>3, <2>1, FeedAgrees
<1>5. Overrun => Over(Feed(seen, c))
  BY <1>2, <1>3, FeedOver DEF Overrun
<1>6. f.t.terminal # "BufferLimitExceeded" /\ Agree(tracker, seen) =>
        SameFed(f, Feed(seen, c)) /\ Feed(seen, c).t.frameBytes <= f.t.frameBytes
  BY <1>2, <1>3, FeedAgrees DEF Agree
<1> HIDE DEF f
<1>7. f.t \in TrackerType /\ f.a \in ActivityType
  BY <1>4 DEF FedType
<1>8. tracker' \in TrackerType /\ cut' \in BOOLEAN
  BY <1>1, <1>3, <1>7, WaitingFacts
<1>9. CASE f.a.terminal = "BufferLimitExceeded"
  <2> DEFINE v == f.a.terminal
             q == <<c, FrameEnd, ErrorFrame(v)>>
  <2>1. v \in Failures /\ v \in Verdicts /\ v # "none"
    BY <1>9, VerdictFacts
  <2>2. FrameEnd \in Seq(Pieces) /\ ErrorFrame(v) \in Seq(Pieces)
    BY <2>1, FrameTypes
  <2>3. FailureChunks(f.t, v) = <<FrameEnd, ErrorFrame(v)>>
    BY <1>9, <2>1, FailureQueue
  <2>4. Finish(<<c>> \o <<FrameEnd, ErrorFrame(v)>>, v)
    BY <1>1, <1>9, <2>3
  <2>5. q \in Seq(Seq(Pieces)) /\ <<c>> \o <<FrameEnd, ErrorFrame(v)>> = q
    <3> DEFINE e == ErrorFrame(v)
    <3> HIDE DEF e
    <3>1. <<c, FrameEnd, e>> \in Seq(Seq(Pieces)) /\ <<c>> \o <<FrameEnd, e>> = <<c, FrameEnd, e>>
      <4> DEFINE Q == Seq(Pieces)
                 b == FrameEnd
      <4>1. c \in Q /\ b \in Q /\ e \in Q
        BY <1>2, <2>2 DEF e
      <4> HIDE DEF Q, b
      <4>2. <<c, b, e>> \in Seq(Q) /\ <<c>> \o <<b, e>> = <<c, b, e>>
        <5>1. \A x : x = <<c>> \o <<b, e>> => x = <<c, b, e>>
          BY <4>1, ThreeChunks, Zenon
        <5>2. <<c, b, e>> \in Seq(Q)
          BY <4>1
        <5> QED
          BY <5>1, <5>2, Zenon
      <4> QED
        BY <4>2 DEF Q, b
    <3> QED
      BY <3>1 DEF e
  <2>6. Shows(q, v)
    BY <1>2, <2>1 DEF Shows
  <2>7. Finish(q, v)
    BY <2>4, <2>5
  <2> HIDE DEF q, v
  <2> QED
    BY <1>1, <1>8, <2>1, <2>5, <2>6, <2>7, FinishKeeps
<1>10. CASE f.a.terminal # "BufferLimitExceeded" /\ (f.a.error \/ f.a.terminal # "none")
  <2> DEFINE v == Outcome(f.a)
             q == <<c>>
  <2>1. v \in Verdicts /\ v # "none"
    BY <1>7, <1>10, OutcomeFacts
  <2>2. q \in Seq(Seq(Pieces)) /\ Finish(q, v)
    BY <1>1, <1>2, <1>10, QueueFacts
  <2>3. Over(Feed(seen, c)) \/ Outcome(Feed(seen, c).a) = v
    BY <1>3, <1>4, <1>5, <1>6, <1>10 DEF SameFed
  <2>4. Shows(q, v)
    BY <1>2, <2>3 DEF Shows
  <2> HIDE DEF q, v
  <2> QED
    BY <1>1, <1>8, <2>1, <2>2, <2>4, FinishKeeps
<1>11. CASE ~f.a.error /\ f.a.terminal = "none"
  <2>1. pending' = <<c>> /\ UNCHANGED <<protocol, cut, finishing, judged, guardVars>>
    BY <1>1, <1>11
  <2>2. tracker'.terminal = "none"
    BY <1>1, <1>4, <1>11
  <2>3. Outcome(f.a) = "none"
    BY <1>7, <1>11, OutcomeFacts
  <2>4. \/ Over(Feed(seen, c))
        \/ Agree(tracker', Feed(seen, c).t) /\ Outcome(Feed(seen, c).a) = "none"
    BY <1>1, <1>3, <1>4, <1>5, <1>6, <1>11, <2>3 DEF SameFed, Agree
  <2> QED
    BY <1>1, <1>2, <1>8, <2>1, <2>2, <2>4, QueueKeeps
<1> QED
  BY <1>9, <1>10, <1>11

LEMMA EofKeeps ==
    ASSUME RelayInv, UpstreamEof
    PROVE  RelayInv'
<1> DEFINE t == FinishEof(tracker).t
           q == AtEof(t)[1]
           v == AtEof(t)[2]
           m == IF q = <<DoneFrame>> THEN Merge(t.terminal, "Completed") ELSE t.terminal
<1>1. /\ Waiting /\ tracker' = [t EXCEPT !.terminal = m] /\ Finish(q, v)
      /\ cut' = ~SafeForHeartbeat(tracker) /\ UNCHANGED <<protocol, guardVars>>
  BY DEF UpstreamEof
<1>2. /\ tracker \in TrackerType /\ seen \in TrackerType /\ tracker.terminal = "none"
      /\ ~Overrun => Agree(tracker, seen) /\ termination = "none"
  BY <1>1, WaitingFacts
<1>3. t \in TrackerType /\ (SafeForHeartbeat(tracker) => t = tracker)
  BY <1>2, EofFacts DEF FedType
<1>4. \/ t.terminal # "none" /\ q = <<>> /\ v = t.terminal
      \/ /\ t.terminal = "none" /\ \E w \in {"EmptyStream", "IncompleteStream"} :
                                      q = FailureChunks(t, w) /\ v = w
      \/ t.terminal = "none" /\ q = <<DoneFrame>> /\ v = "Completed"
      \/ /\ t.terminal = "none" /\ q = <<>> /\ v = "Completed"
         /\ t.sawProvider /\ ~t.sawSse
  <2> HIDE DEF t
  <2>1. CASE t.terminal # "none"
    BY <2>1 DEF AtEof
  <2>2. CASE t.terminal = "none" /\ ~t.sawProvider
    BY <2>2 DEF AtEof
  <2>3. CASE t.terminal = "none" /\ t.sawProvider /\ t.sawSse
    BY <2>3 DEF AtEof
  <2>4. CASE t.terminal = "none" /\ t.sawProvider /\ ~t.sawSse
    BY <2>4 DEF AtEof
  <2> QED
    BY <2>1, <2>2, <2>3, <2>4
<1> HIDE DEF t, q, v
<1>5. m \in Verdicts
  BY <1>3, MergeType, VerdictFacts DEF TrackerType
<1> HIDE DEF m
<1>6. tracker' \in TrackerType
  BY <1>1, <1>3, <1>5 DEF TrackerType
<1>7. cut' \in BOOLEAN /\ (~cut' => SafeForHeartbeat(tracker))
  BY <1>1
<1>8. "EmptyStream" \in Failures /\ "IncompleteStream" \in Failures
  BY DEF Failures
<1>9. q \in Seq(Seq(Pieces)) /\ v \in Verdicts /\ v # "none"
  <2>1. CASE t.terminal # "none" /\ q = <<>> /\ v = t.terminal
    BY <1>3, <2>1 DEF TrackerType
  <2>2. ASSUME NEW w \in {"EmptyStream", "IncompleteStream"}, q = FailureChunks(t, w), v = w
        PROVE  q \in Seq(Seq(Pieces)) /\ v \in Verdicts /\ v # "none"
    BY <1>8, <2>2, FailureQueue, VerdictFacts
  <2>3. CASE q = <<DoneFrame>> /\ v = "Completed"
    BY <2>3, FrameTypes, QueueFacts, VerdictFacts
  <2>4. CASE q = <<>> /\ v = "Completed"
    BY <2>4, VerdictFacts
  <2> QED
    BY <1>4, <2>1, <2>2, <2>3, <2>4
<1>10. ASSUME SafeForHeartbeat(tracker), ~Overrun PROVE Shows(q, v)
  <2>1. t = tracker /\ t.terminal = "none"
    BY <1>2, <1>3, <1>10
  <2>2. Agree(tracker, seen) /\ termination = "none"
    BY <1>2, <1>10
  <2>3. SafeForHeartbeat(seen) /\ seen.terminal = "none"
    BY <1>2, <1>10, <2>2 DEF Agree, Same, SafeForHeartbeat
  <2>4. ASSUME NEW w \in {"EmptyStream", "IncompleteStream"}, q = FailureChunks(t, w), v = w
        PROVE  Shows(q, v)
    <3>1. w \in Failures
      BY <1>8
    <3> QED
      BY <1>1, <1>10, <2>1, <2>4, <3>1, FailureShows
  <2>5. CASE q = <<DoneFrame>> /\ v = "Completed"
    <3>1. Over(Feed(seen, DoneFrame)) \/ Outcome(Feed(seen, DoneFrame).a) = "Completed"
      BY <1>2, <2>3, DoneRead
    <3> QED
      BY <2>5, <3>1, FrameTypes DEF Shows
  <2>6. CASE q = <<>> /\ v = "Completed" /\ t.sawProvider /\ ~t.sawSse
    <3>1. seen.sawProvider /\ ~seen.sawSse
      BY <2>1, <2>2, <2>6 DEF Agree, Same
    <3> QED
      BY <2>2, <2>3, <2>6, <3>1 DEF Shows
  <2> QED
    BY <1>4, <2>1, <2>4, <2>5, <2>6
<1> QED
  BY <1>1, <1>6, <1>7, <1>9, <1>10, FinishKeeps

-----------------------------------------------------------------------------
(* The steps of the observer. *)

LEMMA YieldKeeps ==
    ASSUME RelayInv, Yield
    PROVE  RelayInv'
<1> DEFINE c == Head(pending)
           f == Feed(seen, c)
<1>1. /\ body = "open" /\ pending # <<>> /\ pending' = Tail(pending) /\ seen' = f.t
      /\ termination' = IF Outcome(f.a) = "none" THEN termination ELSE Outcome(f.a)
      /\ protocol' = protocol /\ tracker' = tracker /\ finishing' = finishing
      /\ judged' = judged /\ cut' = cut /\ reports' = reports /\ body' = body
  BY DEF Yield, Take
<1>2. c \in Seq(Pieces) /\ Tail(pending) \in Seq(Seq(Pieces))
  BY <1>1 DEF RelayInv, RelayTypes
<1>3. seen \in TrackerType /\ reports = <<>> /\ termination \in Verdicts
  BY <1>1 DEF RelayInv, RelayTypes, Reported
<1>4. f \in FedType /\ (Over(f) => f.a.terminal = "BufferLimitExceeded")
  <2>1. Same(seen, seen) /\ seen.frameBytes <= seen.frameBytes
    BY <1>3 DEF Same, TrackerType
  <2> QED
    BY <1>2, <1>3, <2>1, FeedAgrees DEF Over
<1>5. Overrun => Over(f)
  BY <1>2, <1>3, FeedOver DEF Overrun
<1>6. /\ f.t \in TrackerType /\ f.a \in ActivityType /\ Outcome(f.a) \in Verdicts
      /\ Over(f) => Outcome(f.a) = "BufferLimitExceeded"
  BY <1>4, OutcomeFacts, VerdictFacts DEF FedType
<1>7. Overrun' <=> Over(f)
  BY <1>1 DEF Overrun, Over
<1>8. RelayTypes'
  BY <1>1, <1>2, <1>3, <1>6 DEF RelayInv, RelayTypes
<1>9. Reported'
  BY <1>1, <1>3, <1>6, <1>7 DEF Reported
<1>10. ASSUME NEW d \in Seq(Pieces), pending = <<d>> PROVE c = d /\ pending' = <<>>
  BY <1>1, <1>10, QueueFacts
<1> HIDE DEF c, f
<1>11. Relaying'
  <2> SUFFICES ASSUME body' = "open", ~finishing'
               PROVE  /\ tracker'.terminal = "none"
                      /\ Overrun' \/ termination' = "none"
                      /\ pending' = <<>> /\ (Overrun' \/ Agree(tracker', seen'))
    BY DEF Relaying
  <2>1. PICK d \in Seq(Pieces) :
           /\ pending = <<d>>
           /\ \/ Over(Feed(seen, d))
              \/ Agree(tracker, Feed(seen, d).t) /\ Outcome(Feed(seen, d).a) = "none"
    BY <1>1 DEF RelayInv, Relaying
  <2>2. tracker.terminal = "none" /\ (Overrun \/ termination = "none")
    BY <1>1 DEF RelayInv, Relaying
  <2>3. c = d /\ pending' = <<>>
    BY <1>10, <2>1
  <2>4. Over(f) \/ (Agree(tracker, f.t) /\ Outcome(f.a) = "none")
    BY <2>1, <2>3 DEF f
  <2> QED
    BY <1>1, <1>5, <1>7, <2>2, <2>3, <2>4
<1>12. Judging'
  <2> SUFFICES ASSUME body' = "open", finishing', ~cut', ~Over(f)
               PROVE  Shows(pending, judged)'
    BY <1>7 DEF Judging
  <2>1. Shows(pending, judged) /\ judged # "none" /\ judged \in Verdicts
    BY <1>1, <1>5 DEF RelayInv, Judging, RelayTypes
  <2>2. ASSUME NEW d \in Seq(Pieces), pending = <<d>>,
               Over(Feed(seen, d)) \/ Outcome(Feed(seen, d).a) = judged
        PROVE  Shows(pending, judged)'
    <3>1. c = d /\ pending' = <<>>
      BY <1>10, <2>2
    <3>2. Outcome(f.a) = judged
      BY <2>2, <3>1 DEF f
    <3>3. termination' = judged'
      BY <1>1, <2>1, <3>2
    <3> QED
      BY <3>1, <3>3 DEF Shows
  <2>3. ASSUME judged \in Failures, pending = <<FrameEnd, ErrorFrame(judged)>>
        PROVE  Shows(pending, judged)'
    <3>1. FrameEnd \in Seq(Pieces) /\ ErrorFrame(judged) \in Seq(Pieces)
      BY <2>3, FrameTypes
    <3>2. c = FrameEnd /\ pending' = <<ErrorFrame(judged)>>
      BY <1>1, <2>3, <3>1, QueueFacts DEF c
    <3>3. seen.terminal # "BufferLimitExceeded"
      BY <1>5 DEF Overrun
    <3>4. SafeForHeartbeat(f.t)
      BY <1>3, <3>2, <3>3, FrameEndRead DEF f
    <3>5. \/ Over(Feed(f.t, ErrorFrame(judged)))
          \/ Outcome(Feed(f.t, ErrorFrame(judged)).a) = judged
      BY <1>6, <2>3, <3>4, ErrorRead DEF Over
    <3> QED
      BY <1>1, <3>1, <3>2, <3>5 DEF Shows
  <2>4. ASSUME judged \in Failures, NEW d \in Seq(Pieces),
               pending = <<d, FrameEnd, ErrorFrame(judged)>>
        PROVE  Shows(pending, judged)'
    <3>1. FrameEnd \in Seq(Pieces) /\ ErrorFrame(judged) \in Seq(Pieces)
      BY <2>4, FrameTypes
    <3>2. pending' = <<FrameEnd, ErrorFrame(judged)>>
      BY <1>1, <2>4, <3>1, QueueFacts
    <3>3. ErrorFrame(judged)' = ErrorFrame(judged)
      BY <1>1 DEF ErrorFrame
    <3> QED
      BY <1>1, <2>4, <3>2, <3>3 DEF Shows
  <2> QED
    BY <1>1, <2>1, <2>2, <2>3, <2>4 DEF Shows
<1>13. finishing' <=> judged' # "none"
  BY <1>1 DEF RelayInv
<1> QED
  BY <1>8, <1>9, <1>11, <1>12, <1>13 DEF RelayInv

LEMMA BodyEndKeeps ==
    ASSUME RelayInv, BodyEnd
    PROVE  RelayInv'
<1> DEFINE f == FinishEof(seen)
           said == IF f.a.error THEN Outcome(f.a)
                   ELSE IF ~f.t.sawProvider THEN "EmptyStream"
                   ELSE IF f.t.terminal # "none" THEN f.t.terminal
                   ELSE IF f.t.sawSse THEN "IncompleteStream" ELSE "Completed"
           final == IF termination # "none" THEN termination ELSE said
<1>1. /\ body = "open" /\ pending = <<>> /\ finishing /\ body' = "ended" /\ seen' = f.t
      /\ Complete(said)
      /\ protocol' = protocol /\ tracker' = tracker /\ pending' = pending
      /\ finishing' = finishing /\ judged' = judged /\ cut' = cut
  BY DEF BodyEnd, Close, relayVars
<1>2. /\ seen \in TrackerType /\ reports = <<>> /\ termination \in Verdicts
      /\ Overrun => termination = "BufferLimitExceeded"
  BY <1>1 DEF RelayInv, RelayTypes, Reported
<1>3. f \in FedType /\ (Overrun => Over(f)) /\ (SafeForHeartbeat(seen) => f.t = seen /\ ~f.a.error)
  BY <1>2, EofFacts DEF Overrun
<1> HIDE DEF f
<1>4. f.t \in TrackerType /\ f.a \in ActivityType /\ Outcome(f.a) \in Verdicts
  BY <1>3, OutcomeFacts DEF FedType
<1>5. said \in Verdicts
  <2>1. "EmptyStream" \in Verdicts /\ "IncompleteStream" \in Verdicts /\ "Completed" \in Verdicts
    BY DEF Verdicts, Failures
  <2>2. f.t.terminal \in Verdicts
    BY <1>4 DEF TrackerType
  <2> QED
    BY <1>4, <2>1, <2>2
<1>6. reports' = <<final>> /\ termination' = final
  <2> HIDE DEF said
  <2> QED
    BY <1>1, <1>2 DEF Complete
<1>7. final \in Verdicts
  BY <1>2, <1>5
<1>8. RelayTypes'
  <2> HIDE DEF final
  <2> QED
    BY <1>1, <1>4, <1>6, <1>7 DEF RelayInv, RelayTypes
<1>9. ASSUME ~cut, ~Overrun PROVE final = judged
  <2>1. Shows(pending, judged) /\ judged # "none"
    BY <1>1, <1>9 DEF RelayInv, Judging
  <2>2. CASE termination = judged
    BY <2>1, <2>2
  <2>3. CASE /\ termination = "none" /\ judged = "Completed" /\ SafeForHeartbeat(seen)
             /\ seen.sawProvider /\ ~seen.sawSse /\ seen.terminal = "none"
    <3>1. f.t = seen /\ ~f.a.error
      BY <1>3, <2>3
    <3>2. said = "Completed"
      BY <2>3, <3>1
    <3> QED
      BY <2>3, <3>2
  <2>4. \A a \in Seq(Pieces), b \in Seq(Pieces), d \in Seq(Pieces) :
           <<a>> # <<>> /\ <<a, b>> # <<>> /\ <<a, b, d>> # <<>>
    BY QueueFacts
  <2>5. judged \in Failures => FrameEnd \in Seq(Pieces) /\ ErrorFrame(judged) \in Seq(Pieces)
    BY FrameTypes
  <2> QED
    BY <1>1, <2>1, <2>2, <2>3, <2>4, <2>5 DEF Shows
<1>10. Overrun => final = "BufferLimitExceeded" /\ Overrun'
  BY <1>1, <1>2, <1>3 DEF Overrun, Over
<1> HIDE DEF final, said
<1>11. Reported'
  BY <1>1, <1>6, <1>9, <1>10 DEF Reported, RelayInv
<1>12. Relaying' /\ Judging' /\ (finishing' <=> judged' # "none")
  BY <1>1 DEF Relaying, Judging, RelayInv
<1> QED
  BY <1>8, <1>11, <1>12 DEF RelayInv

LEMMA DropKeeps ==
    ASSUME RelayInv, DropBody
    PROVE  RelayInv'
<1> DEFINE v == "ClientCancelled"
           final == IF termination # "none" THEN termination ELSE v
<1>1. /\ body # "dropped" /\ body' = "dropped" /\ Complete(v) /\ seen' = seen
      /\ protocol' = protocol /\ tracker' = tracker /\ pending' = pending
      /\ finishing' = finishing /\ judged' = judged /\ cut' = cut
  BY DEF DropBody, relayVars
<1>2. v \in Verdicts
  BY DEF Verdicts, Failures
<1>3. (Overrun' <=> Overrun) /\ (finishing' <=> judged' # "none")
  BY <1>1 DEF Overrun, RelayInv
<1>4. Relaying' /\ Judging'
  BY <1>1 DEF Relaying, Judging
<1>5. CASE body = "open"
  <2>1. reports = <<>> /\ termination \in Verdicts
    BY <1>5 DEF RelayInv, Reported, RelayTypes
  <2>2. reports' = <<final>> /\ termination' = final
    <3> HIDE DEF v
    <3> QED
      BY <1>1, <2>1 DEF Complete
  <2>3. final \in Verdicts
    BY <1>2, <2>1
  <2>4. judged = "none" /\ ~Overrun => final = v
    BY <1>5 DEF RelayInv, Relaying
  <2> HIDE DEF final
  <2>5. RelayTypes'
    BY <1>1, <2>2, <2>3 DEF RelayInv, RelayTypes
  <2>6. Reported'
    BY <1>1, <1>3, <2>2, <2>4 DEF Reported
  <2> QED
    BY <1>3, <1>4, <2>5, <2>6 DEF RelayInv
<1>6. CASE body # "open" /\ body = "ended"
  <2>1. PICK w : reports = <<w>>
    BY <1>6 DEF RelayInv, Reported
  <2>2. reports' = reports /\ termination' = termination
    <3>1. reports # <<>>
      BY <2>1
    <3> QED
      BY <1>1, <3>1 DEF Complete
  <2>3. RelayTypes'
    BY <1>1, <2>2 DEF RelayInv, RelayTypes
  <2>4. finishing /\ judged # "none"
    BY <1>6 DEF RelayInv, Reported
  <2>5. Reported'
    BY <1>1, <1>3, <2>1, <2>2, <2>4 DEF Reported
  <2> QED
    BY <1>3, <1>4, <2>3, <2>5 DEF RelayInv
<1> QED
  BY <1>1, <1>5, <1>6 DEF RelayInv, RelayTypes

LEMMA StutterKeeps ==
    ASSUME RelayInv, UNCHANGED streamVars
    PROVE  RelayInv'
<1>1. /\ protocol' = protocol /\ tracker' = tracker /\ pending' = pending
      /\ finishing' = finishing /\ judged' = judged /\ cut' = cut /\ seen' = seen
      /\ termination' = termination /\ reports' = reports /\ body' = body
  BY DEF streamVars, relayVars, guardVars
<1>2. RelayTypes' /\ (Overrun' <=> Overrun) /\ (finishing' <=> judged' # "none")
  BY <1>1 DEF RelayInv, RelayTypes, Overrun
<1>3. Relaying'
  BY <1>1, <1>2 DEF RelayInv, Relaying
<1>4. Judging'
  <2>1. Shows(pending, judged) => Shows(pending, judged)'
    BY <1>1 DEF Shows, ErrorFrame
  <2> QED
    BY <1>1, <1>2, <2>1 DEF RelayInv, Judging
<1>5. Reported'
  BY <1>1, <1>2 DEF RelayInv, Reported
<1> QED
  BY <1>2, <1>3, <1>4, <1>5 DEF RelayInv

LEMMA RelayInvariant == RelaySpec => []RelayInv
<1>1. RelayInv /\ [RelayNext]_streamVars => RelayInv'
  <2> SUFFICES ASSUME RelayInv, [RelayNext]_streamVars PROVE RelayInv'
    OBVIOUS
  <2>1. ASSUME NEW c \in Chunks, UpstreamChunk(c) PROVE RelayInv'
    BY <2>1, ChunkKeeps
  <2>2. ASSUME UpstreamError PROVE RelayInv'
    BY <2>2, UpstreamErrorKeeps
  <2>3. ASSUME UpstreamEof PROVE RelayInv'
    BY <2>3, EofKeeps
  <2>4. ASSUME NEW timer \in DOMAIN Deadlines, Timeout(timer) PROVE RelayInv'
    BY <2>4, TimeoutKeeps
  <2>5. ASSUME HeartbeatDue PROVE RelayInv'
    BY <2>5, HeartbeatKeeps
  <2>6. ASSUME Yield PROVE RelayInv'
    BY <2>6, YieldKeeps
  <2>7. ASSUME BodyEnd PROVE RelayInv'
    BY <2>7, BodyEndKeeps
  <2>8. ASSUME DropBody PROVE RelayInv'
    BY <2>8, DropKeeps
  <2>9. ASSUME UNCHANGED streamVars PROVE RelayInv'
    BY <2>9, StutterKeeps
  <2> QED
    BY <2>1, <2>2, <2>3, <2>4, <2>5, <2>6, <2>7, <2>8, <2>9 DEF RelayNext
<1> QED
  BY <1>1, InitRelayInv, PTL DEF RelaySpec

\* The relay's tracker and the observer's agree on everything but the size of
\* the frame whenever the relay waits, for every upstream, every limit and
\* every protocol: what next_native decides from its own tracker holds for
\* the bytes the client got.
THEOREM TrackersInStep == RelaySpec => []TrackersAgree
<1>1. RelayInv => TrackersAgree
  BY RelayInvProperties
<1> QED
  BY <1>1, RelayInvariant, PTL

\* Every stream is reported once, and a body read to its end with the verdict
\* of the relay, which observe_stream_body finds again in the bytes: for every
\* upstream, every limit and every protocol.
THEOREM VerdictsFaithful == RelaySpec => []VerdictFaithful
<1>1. RelayInv => VerdictFaithful
  BY RelayInvProperties
<1> QED
  BY <1>1, RelayInvariant, PTL

\* A stream the relay judged a failure is recorded as completed only where the
\* upstream closed inside a frame: the case the code misses is the only one.
THEOREM OnlyCutFramesMislead == RelaySpec => [](~cut => FailureIsNotSuccess)
<1>1. RelayInv => (~cut => FailureIsNotSuccess)
  <2> SUFFICES ASSUME RelayInv, ~cut, body = "ended", judged \in Failures
               PROVE  reports # <<"Completed">>
    BY DEF FailureIsNotSuccess
  <2>1. reports = <<judged>> \/ reports = <<"BufferLimitExceeded">>
    BY DEF RelayInv, Reported
  <2>2. judged # "Completed" /\ "BufferLimitExceeded" # "Completed"
    BY VerdictFacts
  <2> QED
    BY <2>1, <2>2
<1> QED
  BY <1>1, RelayInvariant, PTL

=============================================================================
