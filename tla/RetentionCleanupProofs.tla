----------------------- MODULE RetentionCleanupProofs -----------------------
(***************************************************************************)
(* Proofs about RetentionCleanup for any tables, policies, batch sizes and   *)
(* number of invocations.                                                    *)
(*                                                                           *)
(* The properties are not inductive as they stand.  The policy is chosen by  *)
(* the insert of the run, so a run without a row must not have deleted       *)
(* anything (Fresh); and a completed run is clean because the count that     *)
(* found nothing is still true when the status is written (CountHolds).      *)
(*                                                                           *)
(* The second part is about the tables the cleanup deletes from: the writers *)
(* and readers of UsageLedger, for any requests, frames, timeouts and page   *)
(* size.  Its invariant follows a request through its attempts: what the     *)
(* observer keeps of a stream is what the whole list of its events says      *)
(* (ObservationTruthful), and a walk's cursor is the place of the last row   *)
(* it has shown, with all it still owes below it (WalkInv).  That the reports*)
(* agree needs what the library's sums over finite sets satisfy.             *)
(***************************************************************************)
EXTENDS RetentionCleanup, UsageLedger, FiniteSetTheorems, SequenceTheorems,
        WellFoundedInduction, TLAPS

\* Without a row no policy is chosen and no invocation has come to the rounds.
Fresh ==
    status = "none" =>
        /\ policy = {} /\ ~cancelFlag
        /\ \A i \in Invokers : pc[i] \in {"idle", "inserting"}

\* A round begins within the bound of its invocation.
RoundsLeft == \A i \in Invokers : pc[i] = "snapshot" => rounds[i] < MaxBatches

\* The invocation counted no candidate and is about to complete the run.
CountedNone(i) == pc[i] = "completing" \/ (pc[i] = "counted" /\ ~more[i])

CountHolds == \A i \in Invokers : CountedNone(i) => Candidates = {}

CleanupInv ==
    /\ TypeOK
    /\ RoundsLeft
    /\ Fresh
    /\ UnexpiredKept
    /\ CountersAgree
    /\ NoStaleCancel
    /\ CountHolds
    /\ CompletedIsClean

-----------------------------------------------------------------------------
(* Facts about batches                                                     *)

\* A batch of nothing is nothing.
LEMMA EmptyBatch ==
    ASSUME NEW T \in Batch({})
    PROVE  T = {}
BY DEF Batch

\* A batch holds rows of the set it is taken from.
LEMMA BatchWithin ==
    ASSUME NEW S, NEW T \in Batch(S)
    PROVE  T \subseteq S
BY DEF Batch

\* What a batch takes from a finite table is counted exactly.
LEMMA TakeFrom ==
    ASSUME NEW S, IsFiniteSet(S), NEW T, T \subseteq S
    PROVE  /\ IsFiniteSet(T)
           /\ Cardinality(T) \in Nat
           /\ Cardinality(S \ T) \in Nat
           /\ Cardinality(S \ T) + Cardinality(T) = Cardinality(S)
<1>1. IsFiniteSet(T) /\ IsFiniteSet(S \ T)
  BY FS_Subset, FS_Difference
<1>2. S \cap T = T
  OBVIOUS
<1>3. Cardinality(S \ T) = Cardinality(S) - Cardinality(T)
  BY <1>2, FS_Difference
<1> QED
  BY <1>1, <1>3, FS_CardinalityType

-----------------------------------------------------------------------------
LEMMA InitCleanupInv == Init => CleanupInv
<1> SUFFICES ASSUME Init PROVE CleanupInv
  OBVIOUS
<1> USE OptionsAssumption
<1>1. TypeOK
  <2>1. /\ stale \in [Invokers -> BOOLEAN] /\ removed \in [Invokers -> BOOLEAN]
        /\ more \in [Invokers -> BOOLEAN]
        /\ cancelFlag \in BOOLEAN /\ dryRun \in BOOLEAN
    BY Zenon DEF Init
  <2>2. /\ pc \in [Invokers -> Steps] /\ rounds \in [Invokers -> 0..MaxBatches]
        /\ counted \in [events : Nat, attempts : Nat]
        /\ faults \in 0..MaxFaults /\ cancels \in 0..MaxCancels
        /\ status \in Statuses
    BY DEF Init, Statuses, Steps
  <2> QED
    BY <2>1, <2>2 DEF Init, TypeOK
<1>2. CountersAgree
  BY FS_CardinalityType DEF Init, CountersAgree
<1> QED
  BY <1>1, <1>2 DEF Init, CleanupInv, RoundsLeft, Fresh, UnexpiredKept, NoStaleCancel,
     CountHolds, CountedNone, CompletedIsClean

-----------------------------------------------------------------------------
(* The round that deletes                                                  *)

LEMMA DeleteType ==
    ASSUME TypeOK, NEW i \in Invokers, RoundDeletes(i)
    PROVE  /\ events' \subseteq Events /\ attempts' \subseteq Attempts
           /\ others' \subseteq Others
           /\ counted' \in [events : Nat, attempts : Nat]
           /\ removed' \in [Invokers -> BOOLEAN]
<1>1. PICK gone \in SUBSET attempts, goneEvents \in SUBSET events,
           goneOthers \in SUBSET others : DeleteBatch(i, gone, goneEvents, goneOthers)
  BY DEF RoundDeletes
<1>2. IsFiniteSet(gone) /\ IsFiniteSet(goneEvents)
  BY OptionsAssumption, FS_Subset DEF TypeOK
<1>3. Cardinality(gone) \in Nat /\ Cardinality(goneEvents) \in Nat
  BY <1>2, FS_CardinalityType
<1>4. counted' \in [events : Nat, attempts : Nat]
  <2>1. counted.events \in Nat /\ counted.attempts \in Nat
    BY DEF TypeOK
  <2>2. counted' = [events |-> counted.events + Cardinality(goneEvents),
                    attempts |-> counted.attempts + Cardinality(gone)]
    BY <1>1 DEF DeleteBatch
  <2> QED
    BY <1>3, <2>1, <2>2
<1> QED
  BY <1>1, <1>4 DEF DeleteBatch, TypeOK

LEMMA DeleteKeeps ==
    ASSUME TypeOK, UnexpiredKept, NEW i \in Invokers, RoundDeletes(i)
    PROVE  UnexpiredKept'
<1>1. PICK gone \in SUBSET attempts, goneEvents \in SUBSET events,
           goneOthers \in SUBSET others : DeleteBatch(i, gone, goneEvents, goneOthers)
  BY DEF RoundDeletes
<1>2. policy' = policy
  BY DEF RoundDeletes
<1>3. gone \subseteq EligibleAttempts /\ goneOthers \subseteq EligibleOthers
  BY <1>1, BatchWithin DEF DeleteBatch
<1>4. goneEvents \subseteq ExpiredEvents(events, attempts \ gone)
  BY <1>1, BatchWithin DEF DeleteBatch
<1>5. Events \ Expired \subseteq events' /\ Others \ Expired \subseteq others'
  BY <1>1, <1>3, <1>4 DEF DeleteBatch, ExpiredEvents, EligibleOthers, UnexpiredKept
<1>6. ASSUME NEW a \in attempts, a \notin attempts'
      PROVE  "usage_attempts" \in policy /\ a \in Expired
  <2>1. CASE a \in gone
    BY <1>3, <2>1 DEF EligibleAttempts
  <2>2. CASE a \notin gone
    <3>1. Owner[a] \in goneEvents
      BY <1>1, <1>6, <2>2 DEF DeleteBatch
    <3> QED
      BY <1>4, <2>2, <3>1 DEF ExpiredEvents
  <2> QED
    BY <2>1, <2>2
<1>7. attempts' \subseteq attempts
  BY <1>1 DEF DeleteBatch
<1> QED
  BY <1>2, <1>5, <1>6, <1>7 DEF UnexpiredKept, TypeOK

LEMMA DeleteCounts ==
    ASSUME TypeOK, CountersAgree, NEW i \in Invokers, RoundDeletes(i)
    PROVE  CountersAgree'
<1>1. PICK gone \in SUBSET attempts, goneEvents \in SUBSET events,
           goneOthers \in SUBSET others : DeleteBatch(i, gone, goneEvents, goneOthers)
  BY DEF RoundDeletes
<1>2. IsFiniteSet(attempts) /\ IsFiniteSet(events)
  BY OptionsAssumption, FS_Subset DEF TypeOK
<1>3. /\ counted'.events = counted.events + Cardinality(goneEvents)
      /\ counted'.attempts = counted.attempts + Cardinality(gone)
  BY <1>1 DEF DeleteBatch
<1>4. /\ counted.events \in Nat /\ counted.attempts \in Nat
      /\ Cardinality(Events) \in Nat /\ Cardinality(Attempts) \in Nat
      /\ Cardinality(events) \in Nat /\ Cardinality(attempts) \in Nat
  BY <1>2, OptionsAssumption, FS_CardinalityType DEF TypeOK
<1>5. /\ Cardinality(events') \in Nat /\ Cardinality(goneEvents) \in Nat
      /\ Cardinality(events') + Cardinality(goneEvents) = Cardinality(events)
  BY <1>1, <1>2, TakeFrom DEF DeleteBatch
<1>6. /\ Cardinality(attempts') \in Nat /\ Cardinality(gone) \in Nat
      /\ Cardinality(attempts') + Cardinality(gone) <= Cardinality(attempts)
  <2>1. /\ IsFiniteSet(attempts \ gone)
        /\ Cardinality(gone) \in Nat /\ Cardinality(attempts \ gone) \in Nat
        /\ Cardinality(attempts \ gone) + Cardinality(gone) = Cardinality(attempts)
    BY <1>2, TakeFrom, FS_Difference
  <2>2. attempts' \subseteq attempts \ gone
    BY <1>1 DEF DeleteBatch
  <2>3. Cardinality(attempts') \in Nat
        /\ Cardinality(attempts') <= Cardinality(attempts \ gone)
    BY <2>1, <2>2, FS_Subset, FS_CardinalityType
  <2> QED
    BY <1>4, <2>1, <2>3
<1> QED
  BY <1>3, <1>4, <1>5, <1>6 DEF CountersAgree

\* A round that runs after a count of zero finds nothing either: what the
\* count and the deletes accept is the same.
LEMMA DeleteAfterCount ==
    ASSUME TypeOK, Candidates = {}, NEW i \in Invokers, RoundDeletes(i)
    PROVE  /\ events' = events /\ attempts' = attempts /\ others' = others
           /\ policy' = policy
<1>1. PICK gone \in SUBSET attempts, goneEvents \in SUBSET events,
           goneOthers \in SUBSET others : DeleteBatch(i, gone, goneEvents, goneOthers)
  BY DEF RoundDeletes
<1>2. gone = {} /\ goneOthers = {}
  <2>1. EligibleAttempts = {} /\ EligibleOthers = {}
    BY DEF Candidates
  <2> QED
    BY <1>1, <2>1, EmptyBatch DEF DeleteBatch
<1>3. goneEvents = {}
  <2>1. CASE "usage_events" \in policy
    <3>1. ExpiredEvents(events, attempts) = {}
      BY <2>1 DEF Candidates
    <3>2. attempts \ gone = attempts
      BY <1>2
    <3> QED
      BY <1>1, <2>1, <3>1, <3>2, EmptyBatch DEF DeleteBatch
  <2>2. CASE "usage_events" \notin policy
    BY <1>1, <2>2 DEF DeleteBatch
  <2> QED
    BY <2>1, <2>2
<1> QED
  BY <1>1, <1>2, <1>3 DEF DeleteBatch, RoundDeletes

-----------------------------------------------------------------------------
(* The other steps                                                         *)

\* Every step but the insert of the run and the round that deletes.
Quiet(i) ==
    \/ Invoke(i) \/ Prepare(i)
    \/ FinishDryRun(i) \/ OutOfRounds(i) \/ TakeSnapshot(i)
    \/ Conflict(i) \/ RoundFindsEnd(i) \/ RoundCancels(i)
    \/ Count(i) \/ ReportMore(i) \/ Complete(i) \/ MarkFailed(i)
    \/ Fault(i) \/ Abandon(i)

LEMMA RunCases ==
    ASSUME Run
    PROVE  \/ Cancel
           \/ \E i \in Invokers :
                 \/ Quiet(i) \/ RoundDeletes(i)
                 \/ \E dry \in BOOLEAN : Insert(i, dry)
BY DEF Run, Work, Quiet

LEMMA QuietKeepsRows ==
    ASSUME NEW i \in Invokers, Quiet(i) \/ Cancel
    PROVE  /\ events' = events /\ attempts' = attempts /\ others' = others
           /\ policy' = policy /\ counted' = counted /\ dryRun' = dryRun
           /\ removed' = removed
BY DEF Quiet, Cancel, Invoke, Start, Retry, Prepare, FinishDryRun, OutOfRounds,
   TakeSnapshot, Conflict, RoundFindsEnd, RoundCancels, Count, ReportMore,
   Complete, MarkFailed, Fault, Abandon, row, rows, local, bounds

\* What the conditional UPDATE of the status does to the types.
LEMMA MoveStatusType ==
    ASSUME TypeOK, NEW from, NEW to \in Statuses, MoveStatus(from, to)
    PROVE  status' \in Statuses /\ stale' \in [Invokers -> BOOLEAN]
<1>1. CASE status \in from
  BY <1>1, Zenon DEF MoveStatus, Touch
<1>2. CASE status \notin from
  BY <1>2 DEF MoveStatus, TypeOK
<1> QED
  BY <1>1, <1>2

LEMMA QuietType ==
    ASSUME TypeOK, NEW i \in Invokers, Quiet(i) \/ Cancel
    PROVE  TypeOK'
<1> USE OptionsAssumption
<1>1. /\ events' \subseteq Events /\ attempts' \subseteq Attempts /\ others' \subseteq Others
      /\ policy' \in SUBSET PolicyKeys /\ counted' \in [events : Nat, attempts : Nat]
      /\ dryRun' \in BOOLEAN /\ removed' \in [Invokers -> BOOLEAN]
  BY QuietKeepsRows DEF TypeOK
<1>2. pc' \in [Invokers -> Steps]
  BY DEF Quiet, Cancel, Invoke, Start, Retry, Prepare, FinishDryRun, OutOfRounds,
     TakeSnapshot, Conflict, RoundFindsEnd, RoundCancels, Count, ReportMore,
     Complete, MarkFailed, Fault, Abandon, Goto, AfterRound, Steps, TypeOK
<1>3. rounds' \in [Invokers -> 0..MaxBatches]
  BY DEF Quiet, Cancel, Invoke, Start, Retry, Prepare, FinishDryRun, OutOfRounds,
     TakeSnapshot, Conflict, RoundFindsEnd, RoundCancels, Count, ReportMore,
     Complete, MarkFailed, Fault, Abandon, local, TypeOK
<1>4. faults' \in 0..MaxFaults /\ cancels' \in 0..MaxCancels
  BY DEF Quiet, Cancel, Invoke, Start, Retry, Prepare, FinishDryRun, OutOfRounds,
     TakeSnapshot, Conflict, RoundFindsEnd, RoundCancels, Count, ReportMore,
     Complete, MarkFailed, Fault, Abandon, bounds, TypeOK
<1>8. /\ policies' \in SUBSET PolicyKeys /\ updates' \in 0..MaxUpdates
      /\ loaded' \in [Invokers -> SUBSET PolicyKeys]
  <2>1. policies' = policies /\ updates' = updates
    BY DEF Quiet, Cancel, Invoke, Start, Retry, Prepare, FinishDryRun, OutOfRounds,
       TakeSnapshot, Conflict, RoundFindsEnd, RoundCancels, Count, ReportMore,
       Complete, MarkFailed, Fault, Abandon, admin
  <2>2. CASE \E selected \in Selections : Start(i, selected)
    <3>1. PICK S \in SUBSET PolicyKeys : loaded' = [loaded EXCEPT ![i] = S]
      BY <2>2 DEF Start, LoadPolicyMap, TypeOK
    <3> QED
      BY <2>1, <3>1 DEF TypeOK
  <2>3. CASE ~\E selected \in Selections : Start(i, selected)
    <3>1. loaded' = loaded
      BY <2>3 DEF Quiet, Cancel, Invoke, Retry, Prepare, FinishDryRun, OutOfRounds,
         TakeSnapshot, Conflict, RoundFindsEnd, RoundCancels, Count, ReportMore,
         Complete, MarkFailed, Fault, Abandon, admin
    <3> QED
      BY <2>1, <3>1 DEF TypeOK
  <2> QED
    BY <2>2, <2>3
<1>5. more' \in [Invokers -> BOOLEAN]
  <2>1. CASE Count(i)
    <3>1. more' = [more EXCEPT ![i] = Candidates # {}]
      BY <2>1 DEF Count
    <3>2. (Candidates # {}) \in BOOLEAN
      OBVIOUS
    <3> QED
      BY <3>1, <3>2, Zenon DEF TypeOK
  <2>2. CASE ~Count(i)
    BY <2>2 DEF Quiet, Cancel, Invoke, Start, Retry, Prepare, FinishDryRun,
       OutOfRounds, TakeSnapshot, Conflict, RoundFindsEnd, RoundCancels, ReportMore,
       Complete, MarkFailed, Fault, Abandon, local, TypeOK
  <2> QED
    BY <2>1, <2>2
<1>6. cancelFlag' \in BOOLEAN
  BY DEF Quiet, Cancel, Invoke, Start, Retry, Prepare, FinishDryRun, OutOfRounds,
     TakeSnapshot, Conflict, RoundFindsEnd, RoundCancels, Count, ReportMore,
     Complete, MarkFailed, Fault, Abandon, row, TypeOK
<1>7. status' \in Statuses /\ stale' \in [Invokers -> BOOLEAN]
  <2>1. ASSUME NEW from, NEW to \in Statuses, MoveStatus(from, to)
        PROVE  status' \in Statuses /\ stale' \in [Invokers -> BOOLEAN]
    BY <2>1, MoveStatusType
  <2>2. {"running", "completed", "failed", "cancelled", "cancel_requested"}
            \subseteq Statuses
    BY DEF Statuses
  <2>3. CASE \/ Prepare(i) \/ FinishDryRun(i) \/ ReportMore(i) \/ Complete(i)
             \/ MarkFailed(i)
    BY <2>1, <2>2, <2>3
       DEF Prepare, FinishDryRun, ReportMore, Complete, MarkFailed
  <2>4. CASE RoundCancels(i) \/ Cancel
    <3>1. Touch /\ status' \in Statuses
      BY <2>2, <2>4 DEF RoundCancels, Cancel
    <3> QED
      BY <3>1, Zenon DEF Touch
  <2>5. CASE TakeSnapshot(i)
    <3>1. status' = status /\ stale' = [stale EXCEPT ![i] = FALSE]
      BY <2>5 DEF TakeSnapshot, row
    <3> QED
      BY <3>1, Zenon DEF TypeOK
  <2>6. CASE \/ Invoke(i) \/ OutOfRounds(i) \/ Conflict(i) \/ RoundFindsEnd(i)
             \/ Count(i) \/ Fault(i) \/ Abandon(i)
    BY <2>6 DEF Invoke, Start, Retry, OutOfRounds, Conflict, RoundFindsEnd, Count,
       Fault, Abandon, row, TypeOK
  <2> QED
    BY <2>3, <2>4, <2>5, <2>6 DEF Quiet
<1> QED
  BY <1>1, <1>2, <1>3, <1>4, <1>5, <1>6, <1>7, <1>8 DEF TypeOK

-----------------------------------------------------------------------------
(* The inductive step                                                      *)

LEMMA TypeStep ==
    ASSUME TypeOK, RoundsLeft, Run
    PROVE  TypeOK'
<1>1. CASE Cancel
  <2>1. stale' \in [Invokers -> BOOLEAN]
    BY <1>1, Zenon DEF Cancel, Touch
  <2>2. cancels' \in 0..MaxCancels
    BY <1>1, OptionsAssumption DEF Cancel, TypeOK
  <2> QED
    BY <1>1, <2>1, <2>2 DEF Cancel, Statuses, rows, local, admin, TypeOK
<1>2. ASSUME NEW i \in Invokers, Quiet(i)
      PROVE  TypeOK'
  BY <1>2, QuietType
<1>3. ASSUME NEW i \in Invokers, RoundDeletes(i)
      PROVE  TypeOK'
  <2>1. /\ pc' \in [Invokers -> Steps] /\ rounds' \in [Invokers -> 0..MaxBatches]
    <3>1. rounds[i] < MaxBatches
      BY <1>3 DEF RoundDeletes, Goto, RoundsLeft
    <3> QED
      BY <1>3, <3>1, OptionsAssumption DEF RoundDeletes, Goto, Steps, TypeOK
  <2>2. stale' \in [Invokers -> BOOLEAN]
    BY <1>3, Zenon DEF RoundDeletes, Touch
  <2> QED
    BY <1>3, <2>1, <2>2, DeleteType DEF RoundDeletes, bounds, admin, TypeOK
<1>4. ASSUME NEW i \in Invokers, NEW dry \in BOOLEAN,
             Insert(i, dry)
      PROVE  TypeOK'
  BY <1>4 DEF Insert, Goto, Steps, Statuses, rows, local, bounds, TypeOK
<1> QED
  BY <1>1, <1>2, <1>3, <1>4, RunCases

LEMMA RoundsLeftStep ==
    ASSUME TypeOK, RoundsLeft, Run
    PROVE  RoundsLeft'
<1> SUFFICES ASSUME NEW j \in Invokers, pc'[j] = "snapshot"
             PROVE  rounds'[j] < MaxBatches
  BY DEF RoundsLeft
<1>1. CASE Cancel
  BY <1>1 DEF Cancel, local, RoundsLeft
<1>2. ASSUME NEW i \in Invokers, Quiet(i)
      PROVE  rounds'[j] < MaxBatches
  BY <1>2 DEF Quiet, Invoke, Start, Retry, Prepare, FinishDryRun, OutOfRounds,
     TakeSnapshot, Conflict, RoundFindsEnd, RoundCancels, Count, ReportMore,
     Complete, MarkFailed, Fault, Abandon, Goto, AfterRound, local, RoundsLeft, TypeOK
<1>3. ASSUME NEW i \in Invokers, RoundDeletes(i)
      PROVE  rounds'[j] < MaxBatches
  BY <1>3 DEF RoundDeletes, Goto, RoundsLeft, TypeOK
<1>4. ASSUME NEW i \in Invokers, NEW dry \in BOOLEAN,
             Insert(i, dry)
      PROVE  rounds'[j] < MaxBatches
  BY <1>4 DEF Insert, Goto, local, RoundsLeft, TypeOK
<1> QED
  BY <1>1, <1>2, <1>3, <1>4, RunCases

\* A run that has a row keeps it.
LEMMA FreshStep ==
    ASSUME TypeOK, Fresh, Run
    PROVE  Fresh'
<1> SUFFICES ASSUME status' = "none"
             PROVE  /\ policy' = {} /\ ~cancelFlag'
                    /\ \A j \in Invokers : pc'[j] \in {"idle", "inserting"}
  BY DEF Fresh
<1>1. CASE Cancel
  BY <1>1 DEF Cancel
<1>2. ASSUME NEW i \in Invokers, Quiet(i)
      PROVE  /\ policy' = {} /\ ~cancelFlag'
             /\ \A j \in Invokers : pc'[j] \in {"idle", "inserting"}
  <2>1. status = "none"
    BY <1>2 DEF Quiet, Invoke, Start, Retry, Prepare, FinishDryRun, OutOfRounds,
       TakeSnapshot, Conflict, RoundFindsEnd, RoundCancels, Count, ReportMore,
       Complete, MarkFailed, Fault, Abandon, MoveStatus, row
  <2>2. policy' = {} /\ pc[i] \in {"idle", "inserting"} /\ ~cancelFlag
    BY <1>2, <2>1, QuietKeepsRows DEF Fresh
  <2>3. (\E selected \in Selections : Start(i, selected)) \/ Abandon(i)
    BY <1>2, <2>1, <2>2 DEF Quiet, Invoke, Retry, Prepare, FinishDryRun, OutOfRounds,
       TakeSnapshot, Conflict, RoundFindsEnd, RoundCancels, Count, ReportMore,
       Complete, MarkFailed, Fault, Goto
  <2> QED
    BY <2>1, <2>2, <2>3 DEF Start, Abandon, Goto, row, Fresh, TypeOK
<1>3. ASSUME NEW i \in Invokers, RoundDeletes(i)
      PROVE  FALSE
  BY <1>3 DEF RoundDeletes
<1>4. ASSUME NEW i \in Invokers, NEW dry \in BOOLEAN,
             Insert(i, dry)
      PROVE  FALSE
  BY <1>4 DEF Insert
<1> QED
  BY <1>1, <1>2, <1>3, <1>4, RunCases

LEMMA KeptStep ==
    ASSUME TypeOK, Fresh, UnexpiredKept, Run
    PROVE  UnexpiredKept'
<1>1. CASE Cancel
  BY <1>1 DEF Cancel, rows, UnexpiredKept
<1>2. ASSUME NEW i \in Invokers, Quiet(i)
      PROVE  UnexpiredKept'
  BY <1>2, QuietKeepsRows DEF UnexpiredKept
<1>3. ASSUME NEW i \in Invokers, NEW dry \in BOOLEAN,
             Insert(i, dry)
      PROVE  UnexpiredKept'
  <2>1. events' = events /\ attempts' = attempts /\ others' = others
    BY <1>3 DEF Insert, rows
  <2>2. CASE status = "none"
    BY <2>1, <2>2 DEF Fresh, UnexpiredKept
  <2>3. CASE status # "none"
    BY <1>3, <2>1, <2>3 DEF Insert, UnexpiredKept
  <2> QED
    BY <2>2, <2>3
<1> QED
  BY <1>1, <1>2, <1>3, DeleteKeeps, RunCases

LEMMA CountersStep ==
    ASSUME TypeOK, CountersAgree, Run
    PROVE  CountersAgree'
<1>1. CASE Cancel
  BY <1>1 DEF Cancel, rows, CountersAgree
<1>2. ASSUME NEW i \in Invokers, Quiet(i)
      PROVE  CountersAgree'
  BY <1>2, QuietKeepsRows DEF CountersAgree
<1>3. ASSUME NEW i \in Invokers, NEW dry \in BOOLEAN,
             Insert(i, dry)
      PROVE  CountersAgree'
  BY <1>3 DEF Insert, rows, CountersAgree
<1> QED
  BY <1>1, <1>2, <1>3, DeleteCounts, RunCases

LEMMA CancelFlagStep ==
    ASSUME TypeOK, Fresh, NoStaleCancel, Run
    PROVE  NoStaleCancel'
<1>1. CASE Cancel
  BY <1>1 DEF Cancel, NoStaleCancel
<1>2. ASSUME NEW i \in Invokers, Quiet(i)
      PROVE  NoStaleCancel'
  BY <1>2 DEF Quiet, Invoke, Start, Retry, Prepare, FinishDryRun, OutOfRounds,
     TakeSnapshot, Conflict, RoundFindsEnd, RoundCancels, Count, ReportMore,
     Complete, MarkFailed, Fault, Abandon, MoveStatus, Resumable, row, NoStaleCancel
<1>3. ASSUME NEW i \in Invokers, RoundDeletes(i)
      PROVE  NoStaleCancel'
  BY <1>3 DEF RoundDeletes, NoStaleCancel
<1>4. ASSUME NEW i \in Invokers, NEW dry \in BOOLEAN,
             Insert(i, dry)
      PROVE  NoStaleCancel'
  BY <1>4 DEF Insert, Fresh, NoStaleCancel
<1> QED
  BY <1>1, <1>2, <1>3, <1>4, RunCases

LEMMA SameCandidates ==
    ASSUME events' = events, attempts' = attempts, others' = others, policy' = policy
    PROVE  Candidates' = Candidates
BY DEF Candidates, EligibleAttempts, EligibleOthers, ExpiredEvents

\* Once there is a run, nothing becomes a candidate again.
LEMMA EmptyStaysEmpty ==
    ASSUME TypeOK, status # "none", Candidates = {}, Run
    PROVE  Candidates' = {} /\ dryRun' = dryRun
<1>1. CASE Cancel
  BY <1>1, SameCandidates DEF Cancel, rows
<1>2. ASSUME NEW i \in Invokers, Quiet(i)
      PROVE  Candidates' = {} /\ dryRun' = dryRun
  BY <1>2, QuietKeepsRows, SameCandidates
<1>3. ASSUME NEW i \in Invokers, RoundDeletes(i)
      PROVE  Candidates' = {} /\ dryRun' = dryRun
  BY <1>3, DeleteAfterCount, SameCandidates DEF RoundDeletes
<1>4. ASSUME NEW i \in Invokers, NEW dry \in BOOLEAN,
             Insert(i, dry)
      PROVE  Candidates' = {} /\ dryRun' = dryRun
  BY <1>4, SameCandidates DEF Insert, rows
<1> QED
  BY <1>1, <1>2, <1>3, <1>4, RunCases

LEMMA CountHoldsStep ==
    ASSUME TypeOK, Fresh, CountHolds, Run
    PROVE  CountHolds'
<1> SUFFICES ASSUME NEW j \in Invokers, CountedNone(j)'
             PROVE  Candidates' = {}
  BY DEF CountHolds
<1>1. \/ CountedNone(j)
      \/ Count(j) /\ Candidates = {}
  <2>1. CASE Cancel
    BY <2>1 DEF Cancel, local, CountedNone
  <2>2. ASSUME NEW i \in Invokers, Quiet(i), ~Count(i)
        PROVE  CountedNone(j)
    BY <2>2 DEF Quiet, Invoke, Start, Retry, Prepare, FinishDryRun, OutOfRounds,
       TakeSnapshot, Conflict, RoundFindsEnd, RoundCancels, ReportMore, Complete,
       MarkFailed, Fault, Abandon, Goto, AfterRound, local, CountedNone, TypeOK
  <2>3. ASSUME NEW i \in Invokers, Count(i)
        PROVE  CountedNone(j) \/ (Count(j) /\ Candidates = {})
    <3>1. CASE i = j
      BY <2>3, <3>1 DEF Count, Goto, CountedNone, TypeOK
    <3>2. CASE i # j
      BY <2>3, <3>2 DEF Count, Goto, CountedNone, TypeOK
    <3> QED
      BY <3>1, <3>2
  <2>4. ASSUME NEW i \in Invokers, RoundDeletes(i)
        PROVE  CountedNone(j)
    BY <2>4 DEF RoundDeletes, Goto, CountedNone, TypeOK
  <2>5. ASSUME NEW i \in Invokers, NEW dry \in BOOLEAN,
               Insert(i, dry)
        PROVE  CountedNone(j)
    BY <2>5 DEF Insert, Goto, local, CountedNone, TypeOK
  <2> QED
    BY <2>1, <2>2, <2>3, <2>4, <2>5, RunCases
<1>2. status # "none" /\ Candidates = {}
  BY <1>1 DEF Fresh, CountHolds, CountedNone, Count, Goto
<1> QED
  BY <1>2, EmptyStaysEmpty

LEMMA CleanStep ==
    ASSUME TypeOK, Fresh, CountHolds, CompletedIsClean, Run
    PROVE  CompletedIsClean'
<1> SUFFICES ASSUME status' = "completed", ~dryRun'
             PROVE  Candidates' = {}
  BY DEF CompletedIsClean
<1>1. CASE status = "completed"
  <2>1. dryRun' = dryRun
    <3>1. CASE Cancel
      BY <3>1 DEF Cancel
    <3>2. ASSUME NEW i \in Invokers, NEW dry \in BOOLEAN,
                 Insert(i, dry)
          PROVE  dryRun' = dryRun
      BY <1>1, <3>2 DEF Insert
    <3>3. ASSUME NEW i \in Invokers, RoundDeletes(i)
          PROVE  dryRun' = dryRun
      BY <3>3 DEF RoundDeletes
    <3> QED
      BY <3>1, <3>2, <3>3, QuietKeepsRows, RunCases
  <2> QED
    BY <1>1, <2>1, EmptyStaysEmpty DEF CompletedIsClean
<1>2. CASE status # "completed"
  <2>1. \E i \in Invokers : FinishDryRun(i) \/ Complete(i)
    <3>1. ASSUME NEW i \in Invokers, Quiet(i)
          PROVE  FinishDryRun(i) \/ Complete(i)
      BY <1>2, <3>1 DEF Quiet, Invoke, Start, Retry, Prepare, OutOfRounds,
         TakeSnapshot, Conflict, RoundFindsEnd, RoundCancels, Count, ReportMore,
         MarkFailed, Fault, Abandon, MoveStatus, row
    <3>2. ASSUME NEW i \in Invokers, RoundDeletes(i)
          PROVE  FALSE
      BY <1>2, <3>2 DEF RoundDeletes
    <3>3. ASSUME NEW i \in Invokers, NEW dry \in BOOLEAN,
                 Insert(i, dry)
          PROVE  FALSE
      BY <1>2, <3>3 DEF Insert
    <3>4. ~Cancel
      BY DEF Cancel
    <3> QED
      BY <3>1, <3>2, <3>3, <3>4, RunCases
  <2>2. PICK i \in Invokers : FinishDryRun(i) \/ Complete(i)
    BY <2>1
  <2>3. Complete(i)
    BY <2>2 DEF FinishDryRun
  <2>4. CountedNone(i) /\ status # "none"
    BY <2>3 DEF Complete, Goto, CountedNone, Fresh
  <2> QED
    BY <2>4, EmptyStaysEmpty DEF CountHolds
<1> QED
  BY <1>1, <1>2

LEMMA NextCleanupInv == CleanupInv /\ [Next]_vars => CleanupInv'
<1> SUFFICES ASSUME CleanupInv, [Next]_vars PROVE CleanupInv'
  OBVIOUS
<1>1. CASE Run
  BY <1>1, TypeStep, RoundsLeftStep, FreshStep, KeptStep, CountersStep,
     CancelFlagStep, CountHoldsStep, CleanStep DEF CleanupInv
<1>2. CASE \/ UNCHANGED vars
           \/ \E enabled \in PolicyTables : UpdateRetentionPolicies(enabled)
  <2>1. /\ UNCHANGED <<row, rows, pc, stale, local, bounds>>
        /\ policies' \in SUBSET PolicyKeys
        /\ loaded' = loaded /\ updates' \in 0..MaxUpdates
    BY <1>2, OptionsAssumption
       DEF UpdateRetentionPolicies, vars, admin, CleanupInv, TypeOK
  <2>2. Candidates' = Candidates
    BY <2>1, SameCandidates DEF row, rows
  <2> QED
    BY <2>1, <2>2 DEF row, rows, local, bounds, CleanupInv, TypeOK, RoundsLeft,
       Fresh, UnexpiredKept, CountersAgree, NoStaleCancel, CountHolds, CountedNone,
       CompletedIsClean
<1> QED
  BY <1>1, <1>2 DEF Next

LEMMA CleanupInvariant == Spec => []CleanupInv
BY InitCleanupInv, NextCleanupInv, PTL DEF Spec

-----------------------------------------------------------------------------
\* Every reachable state of the cleanup is well typed; in particular no
\* invocation runs more rounds than max_batches.
THEOREM TypeCorrect == Spec => []TypeOK
BY CleanupInvariant, PTL DEF CleanupInv

\* No path of cleanup_round, the cascade to usage_event_attempts included,
\* deletes a row that has not expired or whose policy is off.
THEOREM RetentionIsKept == Spec => []UnexpiredKept
BY CleanupInvariant, PTL DEF CleanupInv

\* The deleted counters of the run agree with the tables, however invocations,
\* rollbacks and crashes interleave.
THEOREM CountersAlwaysAgree == Spec => []CountersAgree
BY CleanupInvariant, PTL DEF CleanupInv

\* The unlocked count after a round is still true when the run is completed.
THEOREM CompletedLeavesNothing == Spec => []CompletedIsClean
BY CleanupInvariant, PTL DEF CleanupInv

\* prepare_cleanup_retry leaves no cancel flag behind.
THEOREM RetriesForgetCancel == Spec => []NoStaleCancel
BY CleanupInvariant, PTL DEF CleanupInv

\* No retry, cancel or late failure takes a run out of completed.
THEOREM CompletedStays == Spec => CompletedIsFinal
<1>1. CleanupInv /\ [Next]_vars => (status = "completed" => status' = "completed")
  <2> SUFFICES ASSUME status = "completed", [Next]_vars
               PROVE  status' = "completed"
    OBVIOUS
  <2>1. CASE Run
    <3>1. ASSUME NEW i \in Invokers, Quiet(i)
          PROVE  status' = "completed"
      BY <3>1 DEF Quiet, Invoke, Start, Retry, Prepare, FinishDryRun, OutOfRounds,
         TakeSnapshot, Conflict, RoundFindsEnd, RoundCancels, Count, ReportMore,
         Complete, MarkFailed, Fault, Abandon, MoveStatus, Resumable, Ended, row
    <3>2. ASSUME NEW i \in Invokers, RoundDeletes(i)
          PROVE  status' = "completed"
      BY <3>2 DEF RoundDeletes
    <3>3. ASSUME NEW i \in Invokers, NEW dry \in BOOLEAN,
                 Insert(i, dry)
          PROVE  status' = "completed"
      BY <3>3 DEF Insert
    <3>4. ~Cancel
      BY DEF Cancel, Ended
    <3> QED
      BY <2>1, <3>1, <3>2, <3>3, <3>4, RunCases
  <2>2. CASE UNCHANGED vars
    BY <2>2 DEF vars, row
  <2>3. CASE \E enabled \in PolicyTables : UpdateRetentionPolicies(enabled)
    BY <2>3 DEF UpdateRetentionPolicies, row
  <2> QED
    BY <2>1, <2>2, <2>3 DEF Next
<1> QED
  BY <1>1, CleanupInvariant, PTL DEF Spec, CompletedIsFinal

\* Rows are deleted only under a run that is running and not asked to cancel.
THEOREM OnlyRunningDeletes == Spec => DeletesOnlyRunning
<1>1. [Next]_vars => (rows' # rows => status = "running")
  <2> SUFFICES ASSUME [Next]_vars, rows' # rows
               PROVE  status = "running"
    OBVIOUS
  <2>1. CASE Run
    <3>1. ~Cancel
      BY DEF Cancel, rows
    <3>2. ASSUME NEW i \in Invokers, Quiet(i)
          PROVE  FALSE
      BY <3>2, QuietKeepsRows DEF rows
    <3>3. ASSUME NEW i \in Invokers, NEW dry \in BOOLEAN,
                 Insert(i, dry)
          PROVE  FALSE
      BY <3>3 DEF Insert, rows
    <3>4. ASSUME NEW i \in Invokers, RoundDeletes(i)
          PROVE  status = "running"
      BY <3>4 DEF RoundDeletes
    <3> QED
      BY <2>1, <3>1, <3>2, <3>3, <3>4, RunCases
  <2>2. CASE UNCHANGED vars
    BY <2>2 DEF vars, rows
  <2>3. CASE \E enabled \in PolicyTables : UpdateRetentionPolicies(enabled)
    BY <2>3 DEF UpdateRetentionPolicies, rows
  <2> QED
    BY <2>1, <2>2, <2>3 DEF Next
<1> QED
  BY <1>1, PTL DEF Spec, DeletesOnlyRunning

-----------------------------------------------------------------------------
(* The usage ledger: lists of events and what they report. *)

LEMMA LeastNumber ==
    ASSUME NEW S \in SUBSET Nat, S # {}
    PROVE  \E n \in S : \A m \in S : n <= m
<1> DEFINE R == OpToRel(<, Nat)
<1>1. IsWellFoundedOn(R, Nat)
  BY NatLessThanWellFounded
<1>2. \A m, n \in S : <<m, n>> \in R <=> m < n
  BY DEF OpToRel
<1> HIDE DEF R
<1>3. PICK n \in S : \A m \in S : <<m, n>> \notin R
  BY <1>1, WFMin
<1>4. \A m \in S : ~(m < n)
  BY <1>2, <1>3
<1> QED
  BY <1>4

\* The first and the last of some places of a list.
LEMMA EndsOfPlaces ==
    ASSUME NEW n \in Nat, NEW S \in SUBSET (1..n), S # {}
    PROVE  /\ Min(S) \in S /\ \A i \in S : Min(S) <= i
           /\ Max(S) \in S /\ \A i \in S : i <= Max(S)
<1>1. \E i \in S : \A j \in S : i <= j
  BY LeastNumber
<1>2. \E i \in S : \A j \in S : j <= i
  <2> DEFINE T == {n - i : i \in S}
  <2>1. T \in SUBSET Nat /\ T # {}
    <3>1. \A i \in S : n - i \in Nat
      OBVIOUS
    <3> QED
      BY <3>1
  <2>2. PICK t \in T : \A u \in T : t <= u
    BY <2>1, LeastNumber
  <2>3. PICK i \in S : t = n - i
    BY <2>2
  <2>4. \A j \in S : n - i <= n - j
    BY <2>2, <2>3
  <2>5. \A j \in S : j <= i
    BY <2>4
  <2> QED
    BY <2>5
<1>3. Min(S) \in S /\ \A j \in S : Min(S) <= j
  BY <1>1 DEF Min
<1>4. Max(S) \in S /\ \A j \in S : j <= Max(S)
  BY <1>2 DEF Max
<1> QED
  BY <1>3, <1>4

-----------------------------------------------------------------------------
(* The counters of a stream, merged frame by frame. *)

Keys == PlainCounters \cup DetailCounters

\* The frames that report a counter.
Places(seen, key) == {i \in DOMAIN seen : seen[i].usage # None /\ Reports(seen[i].usage, key)}

ReportedBy(u) == {key \in Keys : Reports(u, key)}

LEMMA PlacesFacts ==
    ASSUME NEW s \in Seq(Frames), NEW key
    PROVE  /\ Places(s, key) \in SUBSET (1..Len(s))
           /\ Places(s, key) # {} => /\ LastAt(s, key) \in Places(s, key)
                                     /\ \A i \in Places(s, key) : i <= LastAt(s, key)
                                     /\ LastAt(s, key) \in 1..Len(s)
           /\ key \in ReportedKeys(s) <=> key \in Keys /\ Places(s, key) # {}
<1>1. Places(s, key) \in SUBSET (1..Len(s)) /\ Len(s) \in Nat
  BY DEF Places
<1>2. LastAt(s, key) = Max(Places(s, key))
  BY DEF LastAt, Places
<1>3. key \in ReportedKeys(s) <=> key \in Keys /\ Places(s, key) # {}
  BY DEF ReportedKeys, Places, Keys
<1>4. ASSUME Places(s, key) # {}
      PROVE  /\ Max(Places(s, key)) \in Places(s, key)
             /\ \A i \in Places(s, key) : i <= Max(Places(s, key))
  <2> DEFINE S == Places(s, key)
             n == Len(s)
  <2>1. n \in Nat /\ S \in SUBSET (1..n) /\ S # {}
    BY <1>1, <1>4
  <2> HIDE DEF S, n
  <2>2. Max(S) \in S /\ \A i \in S : i <= Max(S)
    BY <2>1, EndsOfPlaces
  <2> QED
    BY <2>2 DEF S
<1> QED
  BY <1>1, <1>2, <1>3, <1>4

LEMMA PlacesAppend ==
    ASSUME NEW s \in Seq(Frames), NEW f \in Frames, NEW key
    PROVE  /\ f.usage # None /\ Reports(f.usage, key) =>
                Places(Append(s, f), key) = Places(s, key) \cup {Len(s) + 1}
           /\ ~(f.usage # None /\ Reports(f.usage, key)) =>
                Places(Append(s, f), key) = Places(s, key)
<1> DEFINE t == Append(s, f)
<1>1. /\ t \in Seq(Frames) /\ Len(t) = Len(s) + 1 /\ t[Len(s) + 1] = f
      /\ \A i \in 1..Len(s) : t[i] = s[i]
  BY AppendProperties
<1>2. DOMAIN t = 1..(Len(s) + 1) /\ DOMAIN s = 1..Len(s) /\ Len(s) \in Nat
  BY <1>1
<1> HIDE DEF t
<1>3. DOMAIN t = DOMAIN s \cup {Len(s) + 1} /\ Len(s) + 1 \notin DOMAIN s
  BY <1>2
<1>4. \A i \in DOMAIN s : t[i] = s[i]
  BY <1>1, <1>2
<1> QED
  BY <1>1, <1>3, <1>4 DEF Places, t

\* What the last values are after one more frame.
LEMMA LastAtAppend ==
    ASSUME NEW s \in Seq(Frames), NEW f \in Frames, NEW key \in Keys
    PROVE  LET t == Append(s, f)
           IN  /\ f.usage # None /\ key \in ReportedBy(f.usage) =>
                    /\ key \in ReportedKeys(t) /\ LastAt(t, key) = Len(s) + 1
                    /\ t[LastAt(t, key)] = f
               /\ ~(f.usage # None /\ key \in ReportedBy(f.usage)) =>
                    /\ key \in ReportedKeys(t) <=> key \in ReportedKeys(s)
                    /\ key \in ReportedKeys(s) =>
                         LastAt(t, key) = LastAt(s, key) /\ t[LastAt(t, key)] = s[LastAt(s, key)]
<1> DEFINE t == Append(s, f)
<1>1. /\ t \in Seq(Frames) /\ Len(t) = Len(s) + 1 /\ t[Len(s) + 1] = f
      /\ \A i \in 1..Len(s) : t[i] = s[i]
  BY AppendProperties
<1>2. CASE f.usage # None /\ key \in ReportedBy(f.usage)
  <2>1. Places(t, key) = Places(s, key) \cup {Len(s) + 1}
    BY <1>2, PlacesAppend DEF ReportedBy
  <2>2. Places(s, key) \in SUBSET (1..Len(s)) /\ Len(s) \in Nat
    BY PlacesFacts
  <2> HIDE DEF t
  <2>3. /\ key \in ReportedKeys(t) /\ LastAt(t, key) \in Places(t, key)
        /\ \A i \in Places(t, key) : i <= LastAt(t, key)
    BY <1>1, <2>1, PlacesFacts
  <2>4. Len(s) + 1 <= LastAt(t, key) /\ LastAt(t, key) \in 1..(Len(s) + 1)
    BY <2>1, <2>2, <2>3
  <2>5. LastAt(t, key) = Len(s) + 1
    BY <2>2, <2>4
  <2> QED
    BY <1>1, <1>2, <2>3, <2>5 DEF t
<1>3. CASE ~(f.usage # None /\ key \in ReportedBy(f.usage))
  <2>1. Places(t, key) = Places(s, key)
    BY <1>3, PlacesAppend DEF ReportedBy
  <2>2. key \in ReportedKeys(t) <=> key \in ReportedKeys(s)
    BY <1>1, <2>1, PlacesFacts
  <2>3. LastAt(t, key) = LastAt(s, key)
    BY <2>1 DEF LastAt, Places
  <2>4. key \in ReportedKeys(s) => LastAt(s, key) \in 1..Len(s)
    BY PlacesFacts
  <2> HIDE DEF t
  <2> QED
    BY <1>1, <1>3, <2>2, <2>3, <2>4 DEF t
<1> QED
  BY <1>2, <1>3

LEMMA KeyFacts ==
    /\ "total_tokens" \in Keys /\ TrafficCounters \subseteq Keys
    /\ "total_tokens" \notin TrafficCounters
BY DEF Keys, PlainCounters, TrafficCounters

\* A total stands as long as no frame counts traffic without a new one.
LEMMA TotalAppend ==
    ASSUME NEW s \in Seq(Frames), NEW f \in Frames
    PROVE  LET t == Append(s, f)
           IN  /\ f.usage = None => (TotalStands(t) <=> TotalStands(s))
               /\ f.usage # None /\ "total_tokens" \in ReportedBy(f.usage) => TotalStands(t)
               /\ /\ f.usage # None /\ "total_tokens" \notin ReportedBy(f.usage)
                  /\ ReportedBy(f.usage) \cap TrafficCounters # {}
                  => ~TotalStands(t)
               /\ /\ f.usage # None /\ "total_tokens" \notin ReportedBy(f.usage)
                  /\ ReportedBy(f.usage) \cap TrafficCounters = {}
                  => (TotalStands(t) <=> TotalStands(s))
<1> DEFINE t == Append(s, f)
           total == "total_tokens"
<1>1. t \in Seq(Frames) /\ Len(t) = Len(s) + 1 /\ Len(s) \in Nat
  BY AppendProperties
<1>2. \A key \in ReportedKeys(t) : LastAt(t, key) \in 1..(Len(s) + 1)
  BY <1>1, PlacesFacts
<1>3. \A key \in ReportedKeys(s) : LastAt(s, key) \in 1..Len(s)
  BY PlacesFacts
<1>4. \A key \in Keys :
         /\ f.usage # None /\ key \in ReportedBy(f.usage) =>
              key \in ReportedKeys(t) /\ LastAt(t, key) = Len(s) + 1
         /\ ~(f.usage # None /\ key \in ReportedBy(f.usage)) =>
              /\ key \in ReportedKeys(t) <=> key \in ReportedKeys(s)
              /\ key \in ReportedKeys(s) => LastAt(t, key) = LastAt(s, key)
  BY LastAtAppend
<1>5. total \in Keys /\ TrafficCounters \subseteq Keys
  BY KeyFacts
<1>6. \A x : TotalStands(x) <=>
         /\ total \in ReportedKeys(x)
         /\ \A key \in ReportedKeys(x) \cap TrafficCounters : LastAt(x, key) <= LastAt(x, total)
  BY DEF TotalStands
<1> HIDE DEF t, total
<1>7. CASE f.usage = None
  BY <1>4, <1>5, <1>6, <1>7 DEF t
<1>8. CASE f.usage # None /\ total \in ReportedBy(f.usage)
  <2>1. total \in ReportedKeys(t) /\ LastAt(t, total) = Len(s) + 1
    BY <1>4, <1>5, <1>8
  <2>2. \A key \in ReportedKeys(t) : LastAt(t, key) <= LastAt(t, total)
    BY <1>1, <1>2, <2>1
  <2>3. TotalStands(t)
    BY <1>6, <2>1, <2>2
  <2> QED
    BY <1>8, <2>3 DEF t, total
<1>9. CASE /\ f.usage # None /\ total \notin ReportedBy(f.usage)
           /\ ReportedBy(f.usage) \cap TrafficCounters # {}
  <2>1. PICK key \in TrafficCounters : key \in ReportedBy(f.usage)
    BY <1>9
  <2>2. key \in ReportedKeys(t) /\ LastAt(t, key) = Len(s) + 1
    BY <1>4, <1>5, <1>9, <2>1
  <2>3. total \in ReportedKeys(t) => LastAt(t, total) \in 1..Len(s)
    BY <1>3, <1>4, <1>5, <1>9
  <2>4. total \in ReportedKeys(t) => ~(LastAt(t, key) <= LastAt(t, total))
    BY <1>1, <2>2, <2>3
  <2>5. ~TotalStands(t)
    BY <1>6, <2>1, <2>2, <2>4
  <2> QED
    BY <1>9, <2>5 DEF t, total
<1>10. CASE /\ f.usage # None /\ total \notin ReportedBy(f.usage)
            /\ ReportedBy(f.usage) \cap TrafficCounters = {}
  <2>1. \A key \in TrafficCounters \cup {total} : key \in Keys /\ key \notin ReportedBy(f.usage)
    BY <1>5, <1>10
  <2>2. \A key \in TrafficCounters \cup {total} :
           /\ key \in ReportedKeys(t) <=> key \in ReportedKeys(s)
           /\ key \in ReportedKeys(s) => LastAt(t, key) = LastAt(s, key)
    BY <1>4, <2>1
  <2>3. TotalStands(t) <=> TotalStands(s)
    BY <1>6, <2>2
  <2> QED
    BY <1>10, <2>3 DEF t, total
<1> QED
  BY <1>7, <1>8, <1>9, <1>10 DEF t, total

\* The merge of one more usage object is what the whole list says.
LEMMA MergeAppend ==
    ASSUME NEW s \in Seq(Frames), NEW f \in Frames
    PROVE  LastValues(Append(s, f)) =
             IF f.usage = None THEN LastValues(s) ELSE MergeSseUsage(LastValues(s), f.usage)
<1> DEFINE t == Append(s, f)
           u == f.usage
           total == "total_tokens"
           Dom(x) == ReportedKeys(x) \ (IF TotalStands(x) THEN {} ELSE {total})
           Value(x, key) == x[LastAt(x, key)].usage[key]
<1>1. \A x : LastValues(x) = [key \in Dom(x) |-> Value(x, key)]
  BY DEF LastValues
<1>2. \A key \in Keys :
         /\ u # None /\ key \in ReportedBy(u) =>
              key \in ReportedKeys(t) /\ Value(t, key) = u[key]
         /\ ~(u # None /\ key \in ReportedBy(u)) =>
              /\ key \in ReportedKeys(t) <=> key \in ReportedKeys(s)
              /\ key \in ReportedKeys(s) => Value(t, key) = Value(s, key)
  BY LastAtAppend
<1>3. /\ u = None => (TotalStands(t) <=> TotalStands(s))
      /\ u # None /\ total \in ReportedBy(u) => TotalStands(t)
      /\ u # None /\ total \notin ReportedBy(u) /\ ReportedBy(u) \cap TrafficCounters # {}
           => ~TotalStands(t)
      /\ u # None /\ total \notin ReportedBy(u) /\ ReportedBy(u) \cap TrafficCounters = {}
           => (TotalStands(t) <=> TotalStands(s))
  BY TotalAppend
<1>4. ReportedKeys(t) \subseteq Keys /\ ReportedKeys(s) \subseteq Keys /\ total \in Keys
      /\ ReportedBy(u) \subseteq Keys /\ total \notin TrafficCounters
  BY KeyFacts DEF ReportedKeys, Keys, ReportedBy
<1> HIDE DEF t, total, Value
<1>5. CASE u = None
  <2>1. ReportedKeys(t) = ReportedKeys(s)
    BY <1>2, <1>4, <1>5
  <2>2. Dom(t) = Dom(s)
    BY <1>3, <1>5, <2>1
  <2>3. \A key \in Dom(s) : Value(t, key) = Value(s, key)
    BY <1>2, <1>4, <1>5
  <2> HIDE DEF Dom
  <2>4. LastValues(t) = LastValues(s)
    BY <1>1, <2>2, <2>3
  <2> QED
    BY <1>5, <2>4 DEF t
<1>6. CASE u # None
  <2> DEFINE new == ReportedBy(u)
             dropped == IF total \notin new /\ new \cap TrafficCounters # {} THEN {total} ELSE {}
  <2>1. ReportedKeys(t) = ReportedKeys(s) \cup new
    BY <1>2, <1>4, <1>6
  <2>2. Dom(t) = (Dom(s) \ dropped) \cup new
    <3>1. CASE total \in new
      BY <1>3, <1>6, <2>1, <3>1
    <3>2. CASE total \notin new /\ new \cap TrafficCounters # {}
      BY <1>3, <1>6, <2>1, <3>2
    <3>3. CASE total \notin new /\ new \cap TrafficCounters = {}
      BY <1>3, <1>6, <2>1, <3>3
    <3> QED
      BY <3>1, <3>2, <3>3
  <2>3. \A key \in new : Value(t, key) = u[key]
    BY <1>2, <1>4, <1>6
  <2>4. \A key \in Dom(s) \ new : Value(t, key) = Value(s, key)
    BY <1>2, <1>4, <1>6
  <2>5. MergeSseUsage(LastValues(s), u) =
          [key \in (DOMAIN LastValues(s) \ dropped) \cup new |->
              IF key \in new THEN u[key] ELSE LastValues(s)[key]]
    <3>1. \A key \in Keys : Reports(u, key) <=> key \in new
      BY DEF ReportedBy
    <3>2. new = {key \in PlainCounters \cup DetailCounters : Reports(u, key)}
      BY DEF ReportedBy, Keys
    <3>3. Reports(u, "total_tokens") <=> total \in new
      BY <1>4, <3>1 DEF total
    <3> HIDE DEF new
    <3> QED
      BY <3>2, <3>3 DEF MergeSseUsage, total
  <2> HIDE DEF Dom, new, dropped
  <2>6. DOMAIN LastValues(s) = Dom(s) /\ \A key \in Dom(s) : LastValues(s)[key] = Value(s, key)
    BY <1>1
  <2>7. LastValues(t) = MergeSseUsage(LastValues(s), u)
    BY <1>1, <2>2, <2>3, <2>4, <2>5, <2>6
  <2> QED
    BY <1>6, <2>7 DEF t
<1> QED
  BY <1>5, <1>6

LEMMA NoValues == LastValues(<<>>) = <<>>
<1>1. ReportedKeys(<<>>) = {}
  BY DEF ReportedKeys
<1>2. LastValues(<<>>) = [key \in {} |-> <<>>[LastAt(<<>>, key)].usage[key]]
  BY <1>1 DEF LastValues
<1> QED
  BY <1>2

-----------------------------------------------------------------------------
(* The observation of a stream. *)

Named(seen) == {i \in DOMAIN seen : seen[i].model # None}
FirstModel(seen) == IF Named(seen) = {} THEN None ELSE seen[Min(Named(seen))].model

LEMMA FirstModelAppend ==
    ASSUME NEW s \in Seq(Frames), NEW f \in Frames
    PROVE  FirstModel(Append(s, f)) = ObserveIdentity(FirstModel(s), f.model)
<1> DEFINE t == Append(s, f)
<1>1. /\ t \in Seq(Frames) /\ Len(t) = Len(s) + 1 /\ t[Len(s) + 1] = f
      /\ \A i \in 1..Len(s) : t[i] = s[i]
  BY AppendProperties
<1>2. DOMAIN t = 1..(Len(s) + 1) /\ DOMAIN s = 1..Len(s) /\ Len(s) \in Nat
  BY <1>1
<1> HIDE DEF t
<1>3. DOMAIN t = DOMAIN s \cup {Len(s) + 1}
  BY <1>2
<1>4. Named(t) = Named(s) \cup (IF f.model # None THEN {Len(s) + 1} ELSE {})
  BY <1>1, <1>2, <1>3 DEF Named
<1>5. Named(s) \in SUBSET (1..Len(s)) /\ Named(t) \in SUBSET (1..(Len(s) + 1))
  BY <1>2 DEF Named
<1>6. CASE Named(s) # {}
  <2>1. Min(Named(s)) \in Named(s) /\ \A i \in Named(s) : Min(Named(s)) <= i
    BY <1>2, <1>5, <1>6, EndsOfPlaces
  <2>2. Min(Named(t)) \in Named(t) /\ \A i \in Named(t) : Min(Named(t)) <= i
    <3>1. Len(s) + 1 \in Nat /\ Named(t) # {}
      BY <1>2, <1>4, <1>6
    <3> QED
      BY <1>5, <3>1, EndsOfPlaces
  <2>3. Min(Named(s)) \in Named(t) /\ Min(Named(s)) \in 1..Len(s)
    BY <1>4, <1>5, <2>1
  <2>4. Min(Named(t)) <= Min(Named(s)) /\ Min(Named(t)) \in 1..(Len(s) + 1)
    BY <1>5, <2>2, <2>3
  <2>5. Min(Named(t)) \in Named(s)
    <3>1. Min(Named(t)) # Len(s) + 1
      BY <1>2, <2>3, <2>4
    <3> QED
      BY <1>4, <2>2, <3>1
  <2>6. Min(Named(t)) = Min(Named(s))
    BY <1>5, <2>1, <2>3, <2>4, <2>5
  <2>7. t[Min(Named(s))] = s[Min(Named(s))]
    BY <1>1, <2>3
  <2>8. s[Min(Named(s))].model # None
    BY <2>1 DEF Named
  <2>9. FirstModel(t) = s[Min(Named(s))].model /\ FirstModel(s) = s[Min(Named(s))].model
    BY <1>4, <1>6, <2>6, <2>7 DEF FirstModel
  <2> QED
    BY <2>8, <2>9 DEF ObserveIdentity, t
<1>7. CASE Named(s) = {}
  <2>1. FirstModel(s) = None
    BY <1>7 DEF FirstModel
  <2>2. CASE f.model = None
    BY <1>4, <1>7, <2>1, <2>2 DEF FirstModel, ObserveIdentity, t
  <2>3. CASE f.model # None
    <3>1. Named(t) = {Len(s) + 1}
      BY <1>4, <1>7, <2>3
    <3>2. Min(Named(t)) = Len(s) + 1
      BY <1>2, <3>1 DEF Min
    <3>3. FirstModel(t) = f.model
      BY <1>1, <3>1, <3>2 DEF FirstModel
    <3> QED
      BY <2>1, <3>3 DEF ObserveIdentity, t
  <2> QED
    BY <2>2, <2>3
<1> QED
  BY <1>6, <1>7

SomeBig(seen) == \E i \in DOMAIN seen : seen[i].big

\* What the observer keeps is what the whole list of frames says.
ObservationTruthful(o) ==
    /\ o.seen \in Seq(Frames)
    /\ o.counters = LastValues(o.seen)
    /\ o.identity = FirstModel(o.seen)
    /\ o.truncated \in BOOLEAN /\ (o.truncated <=> SomeBig(o.seen))

LEMMA NewTruthful == ObservationTruthful(NewObservation)
<1>1. /\ NewObservation.seen = <<>> /\ NewObservation.counters = <<>>
      /\ NewObservation.identity = None /\ NewObservation.truncated = FALSE
  BY DEF NewObservation
<1>2. FirstModel(<<>>) = None /\ ~SomeBig(<<>>) /\ <<>> \in Seq(Frames)
  BY DEF FirstModel, Named, SomeBig
<1> QED
  BY <1>1, <1>2, NoValues DEF ObservationTruthful

LEMMA ObserveTruthful ==
    ASSUME NEW o, ObservationTruthful(o), NEW f \in Frames
    PROVE  ObservationTruthful(Observe(o, f))
<1> DEFINE s == o.seen
           t == Append(s, f)
           p == Observe(o, f)
<1>1. /\ p.seen = t /\ p.identity = ObserveIdentity(o.identity, f.model)
      /\ p.truncated = (o.truncated \/ f.big)
      /\ p.counters = IF f.usage = None THEN o.counters ELSE MergeSseUsage(o.counters, f.usage)
  BY DEF Observe
<1> HIDE DEF p
<1>2. /\ s \in Seq(Frames) /\ o.counters = LastValues(s) /\ o.identity = FirstModel(s)
      /\ o.truncated \in BOOLEAN /\ (o.truncated <=> SomeBig(s))
  BY DEF ObservationTruthful
<1> HIDE DEF s
<1>3. p.counters = LastValues(t) /\ p.identity = FirstModel(t) /\ t \in Seq(Frames)
  BY <1>1, <1>2, MergeAppend, FirstModelAppend, AppendProperties
<1>4. SomeBig(t) <=> (SomeBig(s) \/ f.big)
  <2>1. /\ Len(t) = Len(s) + 1 /\ t[Len(s) + 1] = f /\ \A i \in 1..Len(s) : t[i] = s[i]
    BY <1>2, AppendProperties
  <2>2. DOMAIN t = 1..(Len(s) + 1) /\ DOMAIN s = 1..Len(s) /\ Len(s) \in Nat
    BY <1>2, <1>3, <2>1
  <2> HIDE DEF t
  <2>3. DOMAIN t = DOMAIN s \cup {Len(s) + 1}
    BY <2>2
  <2> QED
    BY <2>1, <2>2, <2>3 DEF SomeBig
<1>5. p.truncated \in BOOLEAN /\ (p.truncated <=> SomeBig(t))
  BY <1>1, <1>2, <1>4
<1> QED
  BY <1>1, <1>3, <1>5 DEF ObservationTruthful, p

-----------------------------------------------------------------------------
(* The state of a request. *)

RequestFields == {"phase", "streams", "sse", "ok", "started", "timer", "attempts",
                  "observation", "event", "final", "tries", "stamp"}

TimerType == [deadline : Nat, cause : {"total", "connection"}]

\* A wait on the upstream ends with the request's total time.
TimerInv(q) ==
    TotalTimeout # 0 /\ q.phase \in {"sending", "buffering"} =>
        q.timer # None /\ q.timer.deadline <= q.started + TotalTimeout

\* What the attempts say about the end the event will be given.
AttemptsInv(q) ==
    /\ q.phase = "choosing" /\ q.attempts # <<>> => ~Last(q.attempts)
    /\ q.phase = "streaming" => q.attempts # <<>> /\ Last(q.attempts) = q.ok

\* Every attempt but the first is a retry.
RetriesOf(made) == IF made = <<>> THEN 0 ELSE Len(made) - 1

\* An event that waits to be written.
EventInv(q) ==
    q.phase = "writing" =>
        /\ q.attempts # <<>> => Last(q.attempts) = q.event.success
        /\ q.event.source = "estimated" => q.event.success
        /\ q.event.success \in BOOLEAN /\ q.event.total \in Int
        /\ q.event.retries = RetriesOf(q.attempts)

\* The report an event was made from.
FinalInv(q) ==
    q.final # None =>
        /\ q.final.seen # <<>> => StreamReportTruthful(q)
        /\ q.event.source = "missing" => ~IsPresent(q.final.report)

RequestTypes(q) ==
    /\ DOMAIN q = RequestFields
    /\ q.ok \in BOOLEAN /\ q.started \in Nat /\ q.attempts \in Seq(BOOLEAN)
    /\ q.stamp \in Nat \cup {None}

\* Nothing is observed before the head of a response is there.
ObservedInv(q) ==
    /\ ObservationTruthful(q.observation)
    /\ q.phase \in {"choosing", "sending", "buffering"} => q.observation.seen = <<>>

RequestInv(q) ==
    /\ RequestTypes(q) /\ ObservedInv(q)
    /\ TimerInv(q) /\ AttemptsInv(q) /\ EventInv(q) /\ FinalInv(q)

LEMMA IdleFacts ==
    /\ DOMAIN Idle = RequestFields /\ Idle.phase = "idle" /\ Idle.ok \in BOOLEAN
    /\ Idle.started = 0 /\ Idle.attempts = <<>> /\ Idle.observation = NewObservation
    /\ Idle.final = None /\ Idle.stamp = None
BY DEF Idle, RequestFields

LEMMA FinalKept ==
    ASSUME NEW q, NEW x, FinalInv(q), x.event = q.event, x.final = q.final
    PROVE  FinalInv(x)
BY DEF FinalInv, StreamReportTruthful

\* A request that has done nothing yet, or nothing that is remembered.
LEMMA FreshInv ==
    ASSUME NEW q, DOMAIN q = RequestFields, q.phase \in {"idle", "settled", "choosing"},
           q.ok \in BOOLEAN, q.started \in Nat, q.attempts = <<>>,
           q.observation = NewObservation, q.final = None, q.stamp = None
    PROVE  RequestInv(q)
<1>1. RequestTypes(q)
  BY DEF RequestTypes
<1>2. ObservedInv(q)
  <2>1. NewObservation.seen = <<>>
    BY DEF NewObservation
  <2> QED
    BY <2>1, NewTruthful DEF ObservedInv
<1>3. TimerInv(q) /\ AttemptsInv(q) /\ EventInv(q) /\ FinalInv(q)
  BY DEF TimerInv, AttemptsInv, EventInv, FinalInv
<1> QED
  BY <1>1, <1>2, <1>3 DEF RequestInv

LEMMA IdleInv == RequestInv(Idle) /\ RequestInv(Settled) /\ Settled.phase = "settled"
<1>1. RequestInv(Idle)
  BY IdleFacts, FreshInv
<1> DEFINE p == "settled"
<1>2. ASSUME NEW x, x = [Idle EXCEPT !.phase = p]
      PROVE  RequestInv(x) /\ x.phase = "settled"
  <2>1. DOMAIN x = RequestFields /\ x.phase = p
    BY <1>2, IdleFacts DEF RequestFields
  <2>2. x.ok = Idle.ok /\ x.started = Idle.started /\ x.attempts = Idle.attempts
        /\ x.observation = Idle.observation /\ x.final = Idle.final /\ x.stamp = Idle.stamp
    BY <1>2, IdleFacts DEF RequestFields
  <2> QED
    BY <2>1, <2>2, IdleFacts, FreshInv
<1> QED
  BY <1>1, <1>2 DEF Settled

\* A request begins.
LEMMA BegunInv ==
    ASSUME NEW streams, NEW now \in Nat
    PROVE  RequestInv([Idle EXCEPT !.phase = "choosing", !.streams = streams, !.started = now])
<1> DEFINE p == "choosing"
<1>1. ASSUME NEW x, x = [Idle EXCEPT !.phase = p, !.streams = streams, !.started = now]
      PROVE  RequestInv(x)
  <2>1. DOMAIN x = RequestFields /\ x.phase = p /\ x.started = now
    BY <1>1, IdleFacts DEF RequestFields
  <2>2. x.ok = Idle.ok /\ x.attempts = Idle.attempts
        /\ x.observation = Idle.observation /\ x.final = Idle.final /\ x.stamp = Idle.stamp
    BY <1>1, IdleFacts DEF RequestFields
  <2> QED
    BY <2>1, <2>2, IdleFacts, FreshInv
<1> QED
  BY <1>1

\* An attempt more: what is appended is the last.
LEMMA LastAppended ==
    ASSUME NEW a \in Seq(BOOLEAN), NEW b \in BOOLEAN
    PROVE  /\ Append(a, b) \in Seq(BOOLEAN) /\ Append(a, b) # <<>>
           /\ Last(Append(a, b)) = b
<1>1. Append(a, b) \in Seq(BOOLEAN) /\ Len(Append(a, b)) = Len(a) + 1
      /\ Append(a, b)[Len(a) + 1] = b
  BY AppendProperties
<1> QED
  BY <1>1 DEF Last

LEMMA AttemptedFacts ==
    ASSUME NEW q, DOMAIN q = RequestFields, NEW b, NEW x, x = Attempted(q, b)
    PROVE  /\ DOMAIN x = RequestFields /\ x.attempts = Append(q.attempts, b)
           /\ x.phase = q.phase /\ x.ok = q.ok /\ x.sse = q.sse /\ x.streams = q.streams
           /\ x.started = q.started /\ x.observation = q.observation /\ x.event = q.event
           /\ x.final = q.final /\ x.stamp = q.stamp
BY DEF Attempted, RequestFields

LEMMA PhaseFacts ==
    ASSUME NEW q, DOMAIN q = RequestFields, NEW p, NEW x, x = [q EXCEPT !.phase = p]
    PROVE  /\ DOMAIN x = RequestFields /\ x.attempts = q.attempts
           /\ x.phase = p /\ x.ok = q.ok /\ x.sse = q.sse /\ x.streams = q.streams
           /\ x.started = q.started /\ x.observation = q.observation /\ x.event = q.event
           /\ x.final = q.final /\ x.stamp = q.stamp
BY DEF RequestFields

\* A request moves on to phase p with one attempt more, which ended as b says.
LEMMA AttemptKeeps ==
    ASSUME NEW q, RequestInv(q), NEW b \in BOOLEAN, NEW p,
           (p = "choosing" /\ ~b) \/ (p = "streaming" /\ b = q.ok),
           q.phase \in {"choosing", "sending", "buffering"},
           NEW x, x = [Attempted(q, b) EXCEPT !.phase = p]
    PROVE  RequestInv(x) /\ x.phase = p
<1>1. DOMAIN q = RequestFields /\ q.attempts \in Seq(BOOLEAN) /\ RequestTypes(q)
  BY DEF RequestInv, RequestTypes
<1>2. /\ DOMAIN x = RequestFields /\ x.phase = p /\ x.ok = q.ok /\ x.started = q.started
      /\ x.attempts = Append(q.attempts, b) /\ x.observation = q.observation
      /\ x.event = q.event /\ x.final = q.final /\ x.stamp = q.stamp
  BY <1>1, AttemptedFacts, PhaseFacts
<1>3. x.attempts \in Seq(BOOLEAN) /\ x.attempts # <<>> /\ Last(x.attempts) = b
  BY <1>1, <1>2, LastAppended
<1>4. RequestTypes(x)
  BY <1>1, <1>2, <1>3 DEF RequestTypes
<1>5. ObservedInv(x)
  BY <1>2 DEF ObservedInv, RequestInv
<1>6. TimerInv(x) /\ AttemptsInv(x) /\ EventInv(x)
  BY <1>2, <1>3 DEF TimerInv, AttemptsInv, EventInv
<1>7. FinalInv(x)
  <2>1. FinalInv(q)
    BY DEF RequestInv
  <2> QED
    BY <1>2, <2>1, FinalKept
<1> QED
  BY <1>2, <1>4, <1>5, <1>6, <1>7 DEF RequestInv

-----------------------------------------------------------------------------
(* The report and the event. *)

ReportOf(in, out, reasoning, read, creation, cached, total, source) ==
    [input |-> in, output |-> out, reasoning |-> reasoning, read |-> read,
     creation |-> creation, cached |-> cached, total |-> total, source |-> source]

LEMMA NothingPresent ==
    /\ Missing.source = "missing" /\ Missing.reasoning = 0 /\ Missing.total = 0
    /\ ~IsPresent(Missing)
<1>1. /\ Missing.input = 0 /\ Missing.output = 0 /\ Missing.reasoning = 0 /\ Missing.read = 0
      /\ Missing.creation = 0 /\ Missing.cached = 0 /\ Missing.total = 0
      /\ Missing.source = "missing"
  BY DEF Missing, Counters
<1>2. \A field \in {"input", "output", "reasoning", "cached", "read", "creation", "total"} :
        Missing[field] = 0
  BY <1>1
<1> QED
  BY <1>1, <1>2 DEF IsPresent

LEMMA SourceFacts ==
    /\ Estimate.source = "estimated"
    /\ \A u, source : ReportFromUsage(u, source).source = source
BY DEF Estimate, ReportFromUsage, Counters

\* The counters of a usage object are integers where they are numbers at all.
Integral(u) == \A key \in DOMAIN u : u[key] \in Int \cup {NotInt}

LEMMA TotalFacts ==
    /\ Estimate.total \in Int
    /\ \A u, source : Integral(u) => ReportFromUsage(u, source).total \in Int
<1>1. Estimate.total \in Int
  BY LedgerAssumption DEF Estimate, Counters
<1>2. ASSUME NEW u, Integral(u), NEW source
      PROVE  ReportFromUsage(u, source).total \in Int
  <2> DEFINE in == I64At(u, FirstKey(u, <<"input_tokens", "prompt_tokens">>))
             out == I64At(u, FirstKey(u, <<"output_tokens", "completion_tokens">>))
             total == IF Reports(u, "total_tokens") THEN u["total_tokens"] ELSE in + out
  <2>1. \A key : I64At(u, key) \in Int
    BY <1>2 DEF Integral, I64At, Reports
  <2>2. in \in Int /\ out \in Int
    BY <2>1
  <2>3. Reports(u, "total_tokens") => u["total_tokens"] \in Int
    BY <1>2 DEF Integral, Reports
  <2> HIDE DEF in, out
  <2>4. total \in Int
    BY <2>2, <2>3
  <2>5. ReportFromUsage(u, source).total = total
    BY DEF ReportFromUsage, Counters, in, out
  <2> QED
    BY <2>4, <2>5
<1> QED
  BY <1>1, <1>2

\* A complete body is estimated for a success only.
LEMMA JsonReport ==
    ASSUME NEW success \in BOOLEAN, NEW usage, usage # None => Integral(usage), NEW rep,
           rep = ObserveJsonResponse(success, usage)
    PROVE  /\ rep.source = "estimated" => success
           /\ rep.source = "missing" => ~IsPresent(rep)
           /\ rep.total \in Int
<1> DEFINE reported == IF usage = None THEN Missing ELSE ReportFromUsage(usage, "upstream")
<1>1. \/ IsPresent(reported) /\ rep = reported
      \/ success /\ rep = Estimate
      \/ rep = Missing
  BY DEF ObserveJsonResponse
<1>2. IsPresent(reported) => reported.source = "upstream"
  BY NothingPresent, SourceFacts
<1>3. reported.total \in Int
  BY NothingPresent, TotalFacts
<1> HIDE DEF reported
<1> QED
  BY <1>1, <1>2, <1>3, NothingPresent, SourceFacts, TotalFacts

\* So are the counters a stream has reported.
LEMMA ValuesIntegral ==
    ASSUME NEW seen \in Seq(Frames)
    PROVE  Integral(LastValues(seen))
<1>1. ASSUME NEW key \in DOMAIN LastValues(seen)
      PROVE  LastValues(seen)[key] \in Int
  <2>1. key \in ReportedKeys(seen)
        /\ LastValues(seen)[key] = seen[LastAt(seen, key)].usage[key]
    BY <1>1 DEF LastValues
  <2>2. LastAt(seen, key) \in Places(seen, key)
    BY <2>1, PlacesFacts
  <2>3. PICK f \in Frames : f = seen[LastAt(seen, key)] /\ f.usage # None /\ Reports(f.usage, key)
    BY <2>2 DEF Places
  <2>4. f.usage[key] \in Int
    BY <2>3, LedgerAssumption DEF Reports
  <2> QED
    BY <2>1, <2>3, <2>4
<1> QED
  BY <1>1 DEF Integral

\* What the report of a stream has to say about the frames it was made from.
TruthfulReport(seen, report, model, success) ==
    LET reported == ReportFromUsage(LastValues(seen), "parsed")
    IN  /\ \/ /\ DOMAIN LastValues(seen) # {}
              /\ [report EXCEPT !.reasoning = reported.reasoning] = reported
              /\ reported.reasoning > 0 => report.reasoning = reported.reasoning
           \/ /\ DOMAIN LastValues(seen) = {}
              /\ report.source = IF success /\ ~SomeBig(seen) THEN "estimated" ELSE "missing"
        /\ model = FirstModel(seen)

IsReport(report) ==
    \E in, out, reasoning, read, creation, cached, total, source :
        report = ReportOf(in, out, reasoning, read, creation, cached, total, source)

\* Only the reasoning counter of a report is ever filled in.
LEMMA FilledReasoning ==
    ASSUME NEW base, IsReport(base), NEW e, NEW rep, rep = [base EXCEPT !.reasoning = e]
    PROVE  /\ [rep EXCEPT !.reasoning = base.reasoning] = base
           /\ [base EXCEPT !.reasoning = base.reasoning] = base
           /\ rep.source = base.source /\ rep.total = base.total
<1>1. PICK in, out, reasoning, read, creation, cached, total, source :
        base = ReportOf(in, out, reasoning, read, creation, cached, total, source)
  BY DEF IsReport
<1> QED
  BY <1>1 DEF ReportOf

LEMMA CountersReport ==
    ASSUME NEW in, NEW out, NEW reasoning, NEW read, NEW creation, NEW total, NEW source
    PROVE  IsReport(Counters(in, out, reasoning, read, creation, total, source))
<1>1. Counters(in, out, reasoning, read, creation, total, source) =
        ReportOf(in, out, reasoning, read, creation, read + creation, total, source)
  BY DEF Counters, ReportOf
<1> QED
  BY <1>1, Zenon DEF IsReport

LEMMA StreamReport ==
    ASSUME NEW o, ObservationTruthful(o), NEW success \in BOOLEAN, NEW rep,
           rep = UsageForStreamObservation(success, o)
    PROVE  /\ TruthfulReport(o.seen, rep, o.identity, success)
           /\ rep.source = "estimated" => success
           /\ rep.source = "missing" => ~IsPresent(rep)
           /\ rep.total \in Int
<1> DEFINE values == LastValues(o.seen)
           parsed == ReportFromUsage(values, "parsed")
           base == CASE DOMAIN o.counters # {} -> ReportFromUsage(o.counters, "parsed")
                     [] DOMAIN o.counters = {} /\ success /\ ~o.truncated -> Estimate
                     [] OTHER -> Missing
           thought == ThinkingResult(o.thinking)
           e == IF thought = None THEN 0 ELSE thought
<1>1. o.counters = values /\ o.identity = FirstModel(o.seen)
      /\ (o.truncated <=> SomeBig(o.seen)) /\ o.truncated \in BOOLEAN
  BY DEF ObservationTruthful
<1>2. rep = IF base.reasoning = 0 /\ base.source # "missing"
            THEN [base EXCEPT !.reasoning = e] ELSE base
  BY DEF UsageForStreamObservation
<1>3. \/ DOMAIN values # {} /\ base = parsed
      \/ DOMAIN values = {} /\ success /\ ~SomeBig(o.seen) /\ base = Estimate
      \/ DOMAIN values = {} /\ ~(success /\ ~SomeBig(o.seen)) /\ base = Missing
  BY <1>1
<1>4. IsReport(parsed) /\ IsReport(Estimate)
  BY CountersReport, Zenon DEF ReportFromUsage, Estimate
<1>5. parsed.source = "parsed" /\ parsed.total \in Int
  BY SourceFacts, TotalFacts, ValuesIntegral DEF ObservationTruthful
<1> HIDE DEF base, values, parsed, e
<1>6. CASE DOMAIN values # {} /\ base = parsed
  <2>1. PICK y : y = [parsed EXCEPT !.reasoning = e]
    OBVIOUS
  <2>2. /\ [y EXCEPT !.reasoning = parsed.reasoning] = parsed
        /\ [parsed EXCEPT !.reasoning = parsed.reasoning] = parsed
        /\ y.source = parsed.source /\ y.total = parsed.total
    BY <1>4, <2>1, FilledReasoning
  <2>4. rep = parsed \/ (parsed.reasoning = 0 /\ rep = [parsed EXCEPT !.reasoning = e])
    BY <1>2, <1>6
  <2>5. [rep EXCEPT !.reasoning = parsed.reasoning] = parsed /\ rep.source = "parsed"
        /\ rep.total \in Int
    BY <1>5, <2>1, <2>2, <2>4
  <2>6. parsed.reasoning > 0 => rep.reasoning = parsed.reasoning
    BY <2>4
  <2>7. TruthfulReport(o.seen, rep, o.identity, success)
    BY <1>1, <1>6, <2>5, <2>6 DEF TruthfulReport, values, parsed
  <2> QED
    BY <2>5, <2>7
<1>7. CASE DOMAIN values = {} /\ success /\ ~SomeBig(o.seen) /\ base = Estimate
  <2>1. PICK y : y = [Estimate EXCEPT !.reasoning = e]
    OBVIOUS
  <2>2. y.source = Estimate.source /\ y.total = Estimate.total
    BY <1>4, <2>1, FilledReasoning
  <2>3. rep = Estimate \/ rep = [Estimate EXCEPT !.reasoning = e]
    BY <1>2, <1>7
  <2>4. rep.source = "estimated" /\ rep.total \in Int
    BY <2>1, <2>2, <2>3, SourceFacts, TotalFacts
  <2>5. TruthfulReport(o.seen, rep, o.identity, success)
    BY <1>1, <1>7, <2>4 DEF TruthfulReport, values
  <2> QED
    BY <1>7, <2>4, <2>5
<1>8. CASE DOMAIN values = {} /\ ~(success /\ ~SomeBig(o.seen)) /\ base = Missing
  <2>1. rep = Missing
    BY <1>2, <1>8, NothingPresent
  <2>2. TruthfulReport(o.seen, rep, o.identity, success)
    BY <1>1, <1>8, <2>1, NothingPresent DEF TruthfulReport, values
  <2> QED
    BY <2>1, <2>2, NothingPresent
<1> QED
  BY <1>3, <1>6, <1>7, <1>8

LEMMA ConcludeFacts ==
    ASSUME NEW q, NEW success, NEW report, NEW model, NEW tries, NEW x,
           x = Conclude(q, success, report, model, tries)
    PROVE  /\ DOMAIN x = RequestFields /\ x.phase = "writing" /\ x.attempts = q.attempts
           /\ x.ok \in BOOLEAN /\ x.started = 0 /\ x.observation = NewObservation /\ x.stamp = None
           /\ x.event.success = success /\ x.event.source = report.source
           /\ x.event.total = report.total /\ x.event.retries = RetriesOf(q.attempts)
           /\ x.final.report = report /\ x.final.model = model
           /\ x.final.seen = q.observation.seen
<1> DEFINE ev == Event(q, success, report)
           fin == [report |-> report, model |-> model, seen |-> q.observation.seen]
           p == "writing"
<1>1. x = [Idle EXCEPT !.phase = p, !.tries = tries, !.attempts = q.attempts,
                       !.event = ev, !.final = fin]
  BY DEF Conclude
<1>2. /\ ev.success = success /\ ev.source = report.source
      /\ ev.total = report.total /\ ev.retries = RetriesOf(q.attempts)
  BY DEF Event, RetriesOf
<1>3. fin.report = report /\ fin.model = model /\ fin.seen = q.observation.seen
  OBVIOUS
<1> HIDE DEF ev, fin
<1>4. /\ DOMAIN x = RequestFields /\ x.phase = p /\ x.attempts = q.attempts
      /\ x.ok = Idle.ok /\ x.started = Idle.started /\ x.observation = Idle.observation
      /\ x.stamp = Idle.stamp /\ x.event = ev /\ x.final = fin
  BY <1>1, IdleFacts DEF RequestFields
<1> QED
  BY <1>2, <1>3, <1>4, IdleFacts

LEMMA ConcludeInv ==
    ASSUME NEW q, NEW success \in BOOLEAN, NEW report, NEW model, NEW tries, NEW x,
           x = Conclude(q, success, report, model, tries),
           q.attempts \in Seq(BOOLEAN), q.attempts # <<>> => Last(q.attempts) = success,
           report.source = "estimated" => success, report.total \in Int,
           report.source = "missing" => ~IsPresent(report),
           q.observation.seen # <<>> =>
             TruthfulReport(q.observation.seen, report, model, success)
    PROVE  RequestInv(x) /\ x.phase = "writing"
<1>1. /\ DOMAIN x = RequestFields /\ x.phase = "writing" /\ x.attempts = q.attempts
      /\ x.ok \in BOOLEAN /\ x.started = 0 /\ x.observation = NewObservation /\ x.stamp = None
      /\ x.event.success = success /\ x.event.source = report.source
      /\ x.event.total = report.total /\ x.event.retries = RetriesOf(q.attempts)
      /\ x.final.report = report /\ x.final.model = model
      /\ x.final.seen = q.observation.seen
  BY ConcludeFacts
<1>2. RequestTypes(x)
  BY <1>1 DEF RequestTypes
<1>3. ObservedInv(x) /\ TimerInv(x) /\ AttemptsInv(x)
  BY <1>1, NewTruthful DEF ObservedInv, TimerInv, AttemptsInv
<1>4. EventInv(x)
  BY <1>1 DEF EventInv
<1>5. x.final.seen # <<>> => StreamReportTruthful(x)
  <2> SUFFICES ASSUME x.final.seen # <<>> PROVE StreamReportTruthful(x)
    OBVIOUS
  <2>1. TruthfulReport(x.final.seen, x.final.report, x.final.model, x.event.success)
    BY <1>1
  <2> QED
    BY <2>1 DEF TruthfulReport, StreamReportTruthful, FirstModel, Named, SomeBig
<1>6. FinalInv(x)
  BY <1>1, <1>5 DEF FinalInv
<1> QED
  BY <1>1, <1>2, <1>3, <1>4, <1>6 DEF RequestInv

LEMMA ListOf ==
    ASSUME NEW S, NEW n \in Nat, NEW s \in [1..n -> S]
    PROVE  s \in Seq(S) /\ Len(s) = n
OBVIOUS

\* A stream that fails takes its last attempt with it.
LEMMA LastOverridden ==
    ASSUME NEW a \in Seq(BOOLEAN), a # <<>>, NEW c, NEW d \in BOOLEAN, c = [a EXCEPT ![Len(a)] = d]
    PROVE  c \in Seq(BOOLEAN) /\ c # <<>> /\ Last(c) = d
<1>1. Len(a) \in Nat /\ a \in [1..Len(a) -> BOOLEAN] /\ Len(a) # 0
  BY EmptySeq
<1>2. c \in [1..Len(a) -> BOOLEAN] /\ c[Len(a)] = d
  BY <1>1
<1>3. c \in Seq(BOOLEAN) /\ Len(c) = Len(a)
  BY <1>1, <1>2, ListOf, Zenon
<1> QED
  BY <1>1, <1>2, <1>3 DEF Last

LEMMA FinalizeInv ==
    ASSUME NEW q, RequestInv(q), q.phase = "streaming", NEW failed \in BOOLEAN,
           NEW x, x = FinalizeStreamUsage(q, failed)
    PROVE  RequestInv(x) /\ x.phase = "writing"
<1> DEFINE success == q.ok /\ ~failed
           report == UsageForStreamObservation(success, q.observation)
           d == FALSE
           tried == IF failed THEN [q.attempts EXCEPT ![Len(q.attempts)] = d] ELSE q.attempts
           o == [q EXCEPT !.attempts = tried]
<1>1. x = Conclude(o, success, report, q.observation.identity, MaxTries)
  BY DEF FinalizeStreamUsage
<1>2. /\ DOMAIN q = RequestFields /\ q.ok \in BOOLEAN /\ q.attempts \in Seq(BOOLEAN)
      /\ q.attempts # <<>> /\ Last(q.attempts) = q.ok /\ ObservationTruthful(q.observation)
  BY DEF RequestInv, RequestTypes, ObservedInv, AttemptsInv
<1>3. success \in BOOLEAN
  BY <1>2
<1>4. tried \in Seq(BOOLEAN) /\ Last(tried) = success
  <2>1. d \in BOOLEAN /\ ~d
    OBVIOUS
  <2> HIDE DEF d
  <2>2. CASE failed
    <3>1. tried \in Seq(BOOLEAN) /\ Last(tried) = d
      BY <1>2, <2>1, <2>2, LastOverridden
    <3> QED
      BY <2>1, <2>2, <3>1
  <2>3. CASE ~failed
    BY <1>2, <2>3
  <2> QED
    BY <2>2, <2>3
<1> HIDE DEF tried
<1>5. o.attempts = tried /\ o.observation = q.observation
  BY <1>2 DEF RequestFields
<1> HIDE DEF success, o
<1>6. /\ TruthfulReport(q.observation.seen, report, q.observation.identity, success)
      /\ report.source = "estimated" => success
      /\ report.source = "missing" => ~IsPresent(report)
      /\ report.total \in Int
  BY <1>2, <1>3, StreamReport
<1> HIDE DEF report
<1> QED
  BY <1>1, <1>3, <1>4, <1>5, <1>6, ConcludeInv

\* The timer of an attempt is a timer, and never runs past the total time.
LEMMA TimerFacts ==
    ASSUME NEW started \in Nat, NEW now \in Nat
    PROVE  LET t == EarliestSendTimeout(started, now)
               d == TotalDeadline(started)
           IN  /\ t = None \/ t \in TimerType
               /\ TotalTimeout # 0 => t # None /\ t.deadline <= started + TotalTimeout
               /\ TotalTimeout # 0 => d # None /\ d.deadline <= started + TotalTimeout
<1> DEFINE t == EarliestSendTimeout(started, now)
           d == TotalDeadline(started)
           c == ConnectionDeadline(now)
<1>1. TotalTimeout \in Nat /\ ConnectionTimeout \in Nat /\ None \notin TimerType
  BY LedgerAssumption DEF TimerType
<1>2. IF TotalTimeout = 0 THEN d = None ELSE d \in TimerType /\ d.deadline = started + TotalTimeout
  BY <1>1 DEF TotalDeadline, TimerType
<1>3. c = None \/ c \in TimerType
  BY <1>1 DEF ConnectionDeadline, TimerType
<1>4. t = CASE d = None -> c
            [] d # None /\ c = None -> d
            [] OTHER -> IF d.deadline <= c.deadline THEN d ELSE c
  BY DEF EarliestSendTimeout
<1> HIDE DEF t, d, c
<1>5. \A y \in TimerType : y.deadline \in Nat
  BY DEF TimerType
<1>6. t = None \/ t \in TimerType
  BY <1>2, <1>3, <1>4
<1>7. TotalTimeout # 0 => d # None /\ d.deadline <= started + TotalTimeout
  BY <1>1, <1>2
<1>8. TotalTimeout # 0 => t # None /\ t.deadline <= started + TotalTimeout
  <2> SUFFICES ASSUME TotalTimeout # 0 PROVE t # None /\ t.deadline <= started + TotalTimeout
    OBVIOUS
  <2>1. d # None /\ d \in TimerType /\ d.deadline = started + TotalTimeout
    BY <1>1, <1>2
  <2>2. CASE c = None
    BY <1>1, <1>4, <2>1, <2>2
  <2>3. CASE c \in TimerType
    <3>1. c # None /\ c.deadline \in Nat /\ d.deadline \in Nat
      BY <1>1, <1>5, <2>1, <2>3
    <3>2. t = IF d.deadline <= c.deadline THEN d ELSE c
      BY <1>4, <2>1, <3>1
    <3> QED
      BY <1>1, <2>1, <3>1, <3>2
  <2> QED
    BY <1>3, <2>2, <2>3
<1> QED
  BY <1>6, <1>7, <1>8 DEF t, d

-----------------------------------------------------------------------------
(* What the operations make of the state of a request. *)

LEMMA FailInv ==
    ASSUME NEW q, RequestInv(q), q.phase \in {"choosing", "sending", "buffering"},
           NEW x, x = FailAttempt(q)
    PROVE  RequestInv(x) /\ x.phase = "choosing"
<1> DEFINE b == FALSE
           p == "choosing"
<1>1. x = [Attempted(q, b) EXCEPT !.phase = p] /\ b \in BOOLEAN /\ ~b /\ p = "choosing"
  BY DEF FailAttempt
<1> HIDE DEF b, p
<1> QED
  BY <1>1, AttemptKeeps

\* A wait on the upstream in phase p under the timer t.
Waiting(q, p, t) == [q EXCEPT !.phase = p, !.timer = t]

LEMMA WaitInv ==
    ASSUME NEW q, RequestInv(q), q.phase \in {"choosing", "sending"},
           NEW p, p \in {"sending", "buffering"}, NEW t,
           TotalTimeout # 0 => t # None /\ t.deadline <= q.started + TotalTimeout,
           NEW x, x = Waiting(q, p, t)
    PROVE  RequestInv(x) /\ x.phase = p /\ x.started = q.started
<1>1. DOMAIN q = RequestFields /\ RequestTypes(q)
  BY DEF RequestInv, RequestTypes
<1>2. /\ DOMAIN x = RequestFields /\ x.phase = p /\ x.ok = q.ok /\ x.started = q.started
      /\ x.attempts = q.attempts /\ x.observation = q.observation /\ x.timer = t
      /\ x.event = q.event /\ x.final = q.final /\ x.stamp = q.stamp
  BY <1>1 DEF Waiting, RequestFields
<1>3. RequestTypes(x)
  BY <1>1, <1>2 DEF RequestTypes
<1>4. ObservedInv(x)
  BY <1>2 DEF ObservedInv, RequestInv
<1>5. TimerInv(x) /\ AttemptsInv(x) /\ EventInv(x)
  BY <1>2 DEF TimerInv, AttemptsInv, EventInv
<1>6. FinalInv(x)
  <2>1. FinalInv(q)
    BY DEF RequestInv
  <2> QED
    BY <1>2, <2>1, FinalKept
<1> QED
  BY <1>2, <1>3, <1>4, <1>5, <1>6 DEF RequestInv

\* The head of a response tells its status and its kind.
Headed(q, ok, sse) == [q EXCEPT !.ok = ok, !.sse = sse]

LEMMA HeadInv ==
    ASSUME NEW q, RequestInv(q), q.phase = "sending", NEW ok \in BOOLEAN, NEW sse,
           NEW x, x = Headed(q, ok, sse)
    PROVE  RequestInv(x) /\ x.phase = "sending" /\ x.ok = ok /\ x.started = q.started
<1>1. DOMAIN q = RequestFields /\ RequestTypes(q)
  BY DEF RequestInv, RequestTypes
<1>2. /\ DOMAIN x = RequestFields /\ x.phase = q.phase /\ x.ok = ok /\ x.started = q.started
      /\ x.attempts = q.attempts /\ x.observation = q.observation /\ x.timer = q.timer
      /\ x.event = q.event /\ x.final = q.final /\ x.stamp = q.stamp
  BY <1>1 DEF Headed, RequestFields
<1>3. RequestTypes(x)
  BY <1>1, <1>2 DEF RequestTypes
<1>4. ObservedInv(x) /\ TimerInv(x)
  BY <1>2 DEF ObservedInv, TimerInv, RequestInv
<1>5. AttemptsInv(x) /\ EventInv(x)
  BY <1>2 DEF AttemptsInv, EventInv
<1>6. FinalInv(x)
  <2>1. FinalInv(q)
    BY DEF RequestInv
  <2> QED
    BY <1>2, <2>1, FinalKept
<1> QED
  BY <1>2, <1>3, <1>4, <1>5, <1>6 DEF RequestInv

\* A buffered answer, or one that is not observed, concludes the request.
LEMMA AnswerInv ==
    ASSUME NEW q, RequestInv(q), q.phase \in {"sending", "buffering"}, NEW b \in BOOLEAN,
           NEW report, NEW model, NEW tries, NEW x,
           x = Conclude(Attempted(q, b), b, report, model, tries),
           report.source = "estimated" => b, report.total \in Int,
           report.source = "missing" => ~IsPresent(report)
    PROVE  RequestInv(x) /\ x.phase = "writing"
<1> DEFINE d == Attempted(q, b)
<1>1. DOMAIN q = RequestFields /\ q.attempts \in Seq(BOOLEAN) /\ q.observation.seen = <<>>
  BY DEF RequestInv, RequestTypes, ObservedInv
<1>2. d.attempts = Append(q.attempts, b) /\ d.observation = q.observation
  BY <1>1, AttemptedFacts
<1>3. d.attempts \in Seq(BOOLEAN) /\ Last(d.attempts) = b
  BY <1>1, <1>2, LastAppended
<1>4. x = Conclude(d, b, report, model, tries) /\ d.observation.seen = <<>>
  BY <1>1, <1>2
<1> HIDE DEF d
<1> QED
  BY <1>3, <1>4, ConcludeInv

\* No attempt is left.
LEMMA UnansweredInv ==
    ASSUME NEW q, RequestInv(q), q.phase = "choosing", NEW b \in BOOLEAN, ~b,
           NEW report, report.source # "estimated", ~IsPresent(report), report.total \in Int,
           NEW model, NEW tries,
           NEW x, x = Conclude(q, b, report, model, tries)
    PROVE  RequestInv(x) /\ x.phase = "writing"
<1>1. /\ q.attempts \in Seq(BOOLEAN) /\ q.observation.seen = <<>>
      /\ q.attempts # <<>> => ~Last(q.attempts)
  BY DEF RequestInv, RequestTypes, ObservedInv, AttemptsInv
<1>2. q.attempts # <<>> => Last(q.attempts) = b
  <2>1. q.attempts # <<>> => Last(q.attempts) \in BOOLEAN
    BY <1>1, EmptySeq DEF Last
  <2> QED
    BY <1>1, <2>1
<1> QED
  BY <1>1, <1>2, ConcludeInv

LEMMA FrameInv ==
    ASSUME NEW q, RequestInv(q), q.phase = "streaming", NEW f \in Frames,
           NEW x, x = [q EXCEPT !.observation = Observe(@, f)]
    PROVE  RequestInv(x) /\ x.phase = "streaming"
<1> DEFINE o == Observe(q.observation, f)
<1>1. DOMAIN q = RequestFields /\ RequestTypes(q)
  BY DEF RequestInv, RequestTypes
<1>2. x = [q EXCEPT !.observation = o]
  OBVIOUS
<1>3. ObservationTruthful(o)
  BY ObserveTruthful DEF RequestInv, ObservedInv
<1> HIDE DEF o
<1>4. /\ DOMAIN x = RequestFields /\ x.phase = q.phase /\ x.ok = q.ok /\ x.started = q.started
      /\ x.attempts = q.attempts /\ x.observation = o
      /\ x.event = q.event /\ x.final = q.final /\ x.stamp = q.stamp
  BY <1>1, <1>2 DEF RequestFields
<1>5. RequestTypes(x)
  BY <1>1, <1>4 DEF RequestTypes
<1>6. ObservedInv(x)
  BY <1>3, <1>4 DEF ObservedInv
<1>7. TimerInv(x) /\ AttemptsInv(x) /\ EventInv(x)
  BY <1>4 DEF TimerInv, AttemptsInv, EventInv, RequestInv
<1>8. FinalInv(x)
  <2>1. FinalInv(q)
    BY DEF RequestInv
  <2> QED
    BY <1>4, <2>1, FinalKept
<1> QED
  BY <1>4, <1>5, <1>6, <1>7, <1>8 DEF RequestInv

LEMMA StampInv ==
    ASSUME NEW q, RequestInv(q), q.phase = "writing", NEW now \in Nat,
           NEW x, x = [q EXCEPT !.stamp = now, !.final = None]
    PROVE  RequestInv(x) /\ x.phase = "writing"
<1>1. DOMAIN q = RequestFields /\ RequestTypes(q)
  BY DEF RequestInv, RequestTypes
<1>2. /\ DOMAIN x = RequestFields /\ x.phase = q.phase /\ x.ok = q.ok /\ x.started = q.started
      /\ x.attempts = q.attempts /\ x.observation = q.observation
      /\ x.event = q.event /\ x.final = None /\ x.stamp = now
  BY <1>1 DEF RequestFields
<1>3. RequestTypes(x)
  BY <1>1, <1>2 DEF RequestTypes
<1>4. ObservedInv(x)
  BY <1>2 DEF ObservedInv, RequestInv
<1>5. TimerInv(x) /\ AttemptsInv(x) /\ EventInv(x) /\ FinalInv(x)
  BY <1>2 DEF TimerInv, AttemptsInv, EventInv, FinalInv, RequestInv
<1> QED
  BY <1>2, <1>3, <1>4, <1>5 DEF RequestInv

LEMMA RetriedInv ==
    ASSUME NEW q, RequestInv(q), q.phase = "writing", NEW x, x = Retried(q)
    PROVE  RequestInv(x) /\ x.phase \in {"writing", "settled"}
<1>1. CASE x = Settled
  BY <1>1, IdleInv
<1>2. CASE x = [q EXCEPT !.tries = q.tries - 1, !.stamp = None]
  <2> DEFINE n == q.tries - 1
  <2>1. DOMAIN q = RequestFields /\ RequestTypes(q)
    BY DEF RequestInv, RequestTypes
  <2> HIDE DEF n
  <2>2. x = [q EXCEPT !.tries = n, !.stamp = None]
    BY <1>2 DEF n
  <2>3. /\ DOMAIN x = RequestFields /\ x.phase = q.phase /\ x.ok = q.ok /\ x.started = q.started
        /\ x.attempts = q.attempts /\ x.observation = q.observation
        /\ x.event = q.event /\ x.final = q.final /\ x.stamp = None
    BY <2>1, <2>2 DEF RequestFields
  <2>4. RequestTypes(x)
    BY <2>1, <2>3 DEF RequestTypes
  <2>5. ObservedInv(x)
    BY <2>3 DEF ObservedInv, RequestInv
  <2>6. TimerInv(x) /\ AttemptsInv(x) /\ EventInv(x)
    BY <2>3 DEF TimerInv, AttemptsInv, EventInv, RequestInv
  <2>7. FinalInv(x)
    <3>1. FinalInv(q)
      BY DEF RequestInv
    <3> QED
      BY <2>3, <3>1, FinalKept
  <2> QED
    BY <2>3, <2>4, <2>5, <2>6, <2>7 DEF RequestInv
<1> QED
  BY <1>1, <1>2 DEF Retried

-----------------------------------------------------------------------------
(* The inductive invariant. *)

RequestsInv == DOMAIN req = Requests /\ \A r \in Requests : RequestInv(req[r])

\* What the readers count in a row.
RowCounts(x) ==
    /\ x.attempts \in Seq(BOOLEAN) /\ x.success \in BOOLEAN /\ x.total \in Int
    /\ x.retries = RetriesOf(x.attempts)

LedgerRowsInv ==
    /\ DOMAIN ledger \subseteq Requests /\ IsFiniteSet(DOMAIN ledger)
    /\ \A r \in DOMAIN ledger :
        /\ ledger[r].created_at \in Nat
        /\ ledger[r].attempts # <<>> => Last(ledger[r].attempts) = ledger[r].success
        /\ ledger[r].source = "estimated" => ledger[r].success
    /\ \A r \in DOMAIN ledger : RowCounts(ledger[r])

\* A step of one request that leaves ledger and walk alone.
Moves(r, x) ==
    /\ req' = [req EXCEPT ![r] = x] /\ RequestInv(x)
    /\ UNCHANGED <<clock, ledger, walk>>
    /\ req[r].phase = "choosing" /\ x.phase \in {"sending", "buffering"} =>
        (TotalTimeout # 0 => clock < x.started + TotalTimeout)

LEMMA SentFirst ==
    ASSUME NEW r, NEW x, req' = [req EXCEPT ![r] = x] /\ UNCHANGED <<clock, ledger, walk>>,
           RequestInv(x),
           req[r].phase # "choosing" \/ x.phase \notin {"sending", "buffering"}
    PROVE  Moves(r, x)
BY DEF Moves

LEMMA BeginMoves ==
    ASSUME clock \in Nat, NEW r \in Requests, Begin(r)
    PROVE  \E x : Moves(r, x)
<1>1. PICK streams \in BOOLEAN :
        Become(r, [Idle EXCEPT !.phase = "choosing", !.streams = streams, !.started = clock])
  BY DEF Begin
<1>2. PICK x : x = [Idle EXCEPT !.phase = "choosing", !.streams = streams, !.started = clock]
  OBVIOUS
<1>3. RequestInv(x)
  BY <1>2, BegunInv
<1>4. req[r].phase # "choosing"
  BY DEF Begin
<1>5. Become(r, x)
  BY <1>1, <1>2
<1> QED
  BY <1>3, <1>4, <1>5, SentFirst DEF Become, Proceed

LEMMA SendMoves ==
    ASSUME clock \in Nat, RequestsInv, NEW r \in Requests, Send(r)
    PROVE  \E x : Moves(r, x)
<1> DEFINE q == req[r]
           t == EarliestSendTimeout(q.started, clock)
<1>1. q.phase = "choosing" /\ RequestInv(q) /\ q.started \in Nat
  BY DEF Send, RequestsInv, RequestInv, RequestTypes
<1>2. Proceed(r, IF Elapsed(t) THEN FailAttempt(q)
                 ELSE [q EXCEPT !.phase = "sending", !.timer = t])
  BY DEF Send
<1>3. /\ t = None \/ t \in TimerType
      /\ TotalTimeout # 0 => t # None /\ t.deadline <= q.started + TotalTimeout
  BY <1>1, TimerFacts
<1>4. CASE Elapsed(t)
  <2>1. PICK x : x = FailAttempt(q)
    OBVIOUS
  <2>2. RequestInv(x) /\ x.phase = "choosing"
    BY <1>1, <2>1, FailInv
  <2>3. Proceed(r, x)
    BY <1>2, <1>4, <2>1
  <2> QED
    BY <2>2, <2>3, SentFirst DEF Proceed
<1>5. CASE ~Elapsed(t)
  <2> DEFINE p == "sending"
  <2>1. PICK x : x = Waiting(q, p, t)
    OBVIOUS
  <2>2. Proceed(r, x)
    BY <1>2, <1>5, <2>1 DEF Waiting
  <2> HIDE DEF q, t
  <2>3. RequestInv(x) /\ x.phase = p /\ x.started = q.started
    BY <1>1, <1>3, <2>1, WaitInv
  <2>4. TotalTimeout # 0 => clock < q.started + TotalTimeout
    <3> SUFFICES ASSUME TotalTimeout # 0 PROVE clock < q.started + TotalTimeout
      OBVIOUS
    <3>1. t \in TimerType /\ t # None /\ t.deadline <= q.started + TotalTimeout
      BY <1>3
    <3>2. t.deadline \in Nat /\ TotalTimeout \in Nat
      BY <3>1, LedgerAssumption DEF TimerType
    <3>3. ~(t.deadline <= clock)
      BY <1>5, <3>1 DEF Elapsed
    <3> QED
      BY <1>1, <3>1, <3>2, <3>3
  <2> QED
    BY <2>2, <2>3, <2>4 DEF Moves, Proceed, q
<1> QED
  BY <1>4, <1>5

LEMMA FailMoves ==
    ASSUME RequestsInv, NEW r \in Requests, TimeOut(r) \/ TransportFails(r)
    PROVE  \E x : Moves(r, x)
<1>1. req[r].phase \in {"sending", "buffering"} /\ RequestInv(req[r])
      /\ Become(r, FailAttempt(req[r]))
  BY DEF TimeOut, TransportFails, RequestsInv
<1>2. PICK x : x = FailAttempt(req[r])
  OBVIOUS
<1>3. RequestInv(x) /\ x.phase = "choosing"
  BY <1>1, <1>2, FailInv
<1> QED
  BY <1>1, <1>2, <1>3, SentFirst DEF Become, Proceed

LEMMA HeadMoves ==
    ASSUME RequestsInv, NEW r \in Requests, ResponseHead(r)
    PROVE  \E x : Moves(r, x)
<1>1. req[r].phase = "sending" /\ RequestInv(req[r])
  BY DEF ResponseHead, RequestsInv
<1> DEFINE buffering == "buffering"
           streaming == "streaming"
           choosing == "choosing"
           one == 1
           Q(ok, sse) == Headed(req[r], ok, sse)
<1>2. PICK ok \in BOOLEAN, sse \in BOOLEAN :
        \/ Become(r, Waiting(Q(ok, sse), buffering, TotalDeadline(Q(ok, sse).started)))
        \/ Become(r, [Attempted(Q(ok, sse), ok) EXCEPT !.phase = streaming])
        \/ Become(r, Conclude(Attempted(Q(ok, sse), ok), ok, Missing, None, one))
        \/ ~ok /\ Become(r, [Attempted(Q(ok, sse), ok) EXCEPT !.phase = choosing])
  BY Zenon DEF ResponseHead, Headed, Waiting
<1>3. PICK q : q = Q(ok, sse)
  OBVIOUS
<1> DEFINE done == Attempted(q, ok)
<1>4. RequestInv(q) /\ q.phase = "sending" /\ q.ok = ok /\ q.started = req[r].started
  BY <1>1, <1>3, HeadInv
<1>5. ASSUME NEW x, RequestInv(x), Become(r, x)
      PROVE  \E y : Moves(r, y)
  BY <1>1, <1>5, SentFirst DEF Become, Proceed
<1>6. CASE Become(r, Waiting(q, buffering, TotalDeadline(q.started)))
  <2>1. PICK x : x = Waiting(q, buffering, TotalDeadline(q.started))
    OBVIOUS
  <2>2. LET d == TotalDeadline(q.started) IN
        TotalTimeout # 0 => d # None /\ d.deadline <= q.started + TotalTimeout
    BY <1>4, TimerFacts DEF RequestInv, RequestTypes
  <2>3. RequestInv(x)
    BY <1>4, <2>1, <2>2, WaitInv
  <2> QED
    BY <1>5, <1>6, <2>1, <2>3
<1>7. CASE Become(r, [done EXCEPT !.phase = streaming])
  <2>1. PICK x : x = [done EXCEPT !.phase = streaming]
    OBVIOUS
  <2>2. RequestInv(x)
    BY <1>4, <2>1, AttemptKeeps
  <2> QED
    BY <1>5, <1>7, <2>1, <2>2
<1>8. CASE Become(r, Conclude(done, ok, Missing, None, one))
  <2>1. PICK x : x = Conclude(done, ok, Missing, None, one)
    OBVIOUS
  <2> HIDE DEF one
  <2>2. RequestInv(x)
    BY <1>4, <2>1, NothingPresent, AnswerInv
  <2> QED
    BY <1>5, <1>8, <2>1, <2>2
<1>9. CASE ~ok /\ Become(r, [done EXCEPT !.phase = choosing])
  <2>1. PICK x : x = [done EXCEPT !.phase = choosing]
    OBVIOUS
  <2>2. RequestInv(x)
    BY <1>4, <1>9, <2>1, AttemptKeeps
  <2> QED
    BY <1>5, <1>9, <2>1, <2>2
<1> QED
  BY <1>2, <1>3, <1>6, <1>7, <1>8, <1>9

LEMMA BodyMoves ==
    ASSUME RequestsInv, NEW r \in Requests, BodyComplete(r)
    PROVE  \E x : Moves(r, x)
<1> DEFINE ok == req[r].ok
           q == Attempted(req[r], ok)
           streaming == "streaming"
           choosing == "choosing"
           one == 1
<1>1. req[r].phase = "buffering" /\ RequestInv(req[r])
  BY DEF BodyComplete, RequestsInv
<1>2. DOMAIN req[r] = RequestFields /\ ok \in BOOLEAN
  BY <1>1 DEF RequestInv, RequestTypes
<1>3. q.ok = ok
  BY <1>2, AttemptedFacts
<1>4. PICK body \in Bodies :
        \/ ~q.ok /\ Become(r, [q EXCEPT !.phase = choosing])
        \/ Become(r, Conclude(q, q.ok, ObserveJsonResponse(q.ok, body.usage), body.model, one))
        \/ Become(r, [q EXCEPT !.phase = streaming])
  BY Zenon DEF BodyComplete
<1>5. ASSUME NEW x, RequestInv(x), Become(r, x)
      PROVE  \E y : Moves(r, y)
  BY <1>1, <1>5, SentFirst DEF Become, Proceed
<1>6. CASE ~q.ok /\ Become(r, [q EXCEPT !.phase = choosing])
  <2>1. PICK x : x = [q EXCEPT !.phase = choosing]
    OBVIOUS
  <2>2. RequestInv(x)
    BY <1>1, <1>2, <1>3, <1>6, <2>1, AttemptKeeps
  <2> QED
    BY <1>5, <1>6, <2>1, <2>2
<1>7. CASE Become(r, [q EXCEPT !.phase = streaming])
  <2>1. PICK x : x = [q EXCEPT !.phase = streaming]
    OBVIOUS
  <2>2. RequestInv(x)
    BY <1>1, <1>2, <2>1, AttemptKeeps
  <2> QED
    BY <1>5, <1>7, <2>1, <2>2
<1>8. CASE Become(r, Conclude(q, q.ok, ObserveJsonResponse(q.ok, body.usage), body.model, one))
  <2>1. PICK report : report = ObserveJsonResponse(ok, body.usage)
    OBVIOUS
  <2>2. PICK x : x = Conclude(q, ok, report, body.model, one)
    OBVIOUS
  <2>3. /\ report.source = "estimated" => ok
        /\ report.source = "missing" => ~IsPresent(report)
        /\ report.total \in Int
    <3>1. body.usage # None => Integral(body.usage)
      BY LedgerAssumption DEF Integral
    <3> QED
      BY <1>2, <2>1, <3>1, JsonReport
  <2>4. Become(r, x)
    BY <1>3, <1>8, <2>1, <2>2
  <2> HIDE DEF one
  <2>5. RequestInv(x)
    BY <1>1, <1>2, <2>2, <2>3, AnswerInv
  <2> QED
    BY <1>5, <2>4, <2>5
<1> QED
  BY <1>4, <1>6, <1>7, <1>8

LEMMA GiveUpMoves ==
    ASSUME RequestsInv, NEW r \in Requests, GiveUp(r)
    PROVE  \E x : Moves(r, x)
<1>1. req[r].phase = "choosing" /\ RequestInv(req[r])
  BY DEF GiveUp, RequestsInv
<1>2. PICK b \in BOOLEAN, n \in {1} : ~b /\ Become(r, Conclude(req[r], b, Missing, None, n))
  BY Zenon DEF GiveUp
<1>3. PICK x : x = Conclude(req[r], b, Missing, None, n)
  OBVIOUS
<1>4. RequestInv(x) /\ x.phase = "writing"
  BY <1>1, <1>2, <1>3, NothingPresent, UnansweredInv
<1> QED
  BY <1>2, <1>3, <1>4, SentFirst DEF Become, Proceed

LEMMA StreamMoves ==
    ASSUME RequestsInv, NEW r \in Requests, ObserveFrame(r) \/ EndStream(r)
    PROVE  \E x : Moves(r, x)
<1>1. req[r].phase = "streaming" /\ RequestInv(req[r])
  BY DEF ObserveFrame, EndStream, RequestsInv
<1>2. CASE ObserveFrame(r)
  <2>1. PICK f \in Frames : Proceed(r, [req[r] EXCEPT !.observation = Observe(@, f)])
    BY <1>2 DEF ObserveFrame
  <2>2. PICK x : x = [req[r] EXCEPT !.observation = Observe(@, f)]
    OBVIOUS
  <2>3. RequestInv(x)
    BY <1>1, <2>2, FrameInv
  <2> QED
    BY <1>1, <2>1, <2>2, <2>3, SentFirst DEF Proceed
<1>3. CASE EndStream(r)
  <2>1. PICK failed \in BOOLEAN : Become(r, FinalizeStreamUsage(req[r], failed))
    BY <1>3 DEF EndStream
  <2>2. PICK x : x = FinalizeStreamUsage(req[r], failed)
    OBVIOUS
  <2>3. RequestInv(x)
    BY <1>1, <2>2, FinalizeInv
  <2> QED
    BY <1>1, <2>1, <2>2, <2>3, SentFirst DEF Become, Proceed
<1> QED
  BY <1>2, <1>3

LEMMA WriteMoves ==
    ASSUME clock \in Nat, RequestsInv, NEW r \in Requests, StartWrite(r) \/ WriteFails(r)
    PROVE  \E x : Moves(r, x)
<1>1. req[r].phase = "writing" /\ RequestInv(req[r])
  BY DEF StartWrite, WriteFails, RequestsInv
<1>2. CASE StartWrite(r)
  <2>1. PICK x : x = [req[r] EXCEPT !.stamp = clock, !.final = None]
    OBVIOUS
  <2>2. RequestInv(x)
    BY <1>1, <2>1, StampInv
  <2> QED
    BY <1>1, <1>2, <2>1, <2>2, SentFirst DEF StartWrite, Become, Proceed
<1>3. CASE WriteFails(r)
  <2>1. PICK x : x = Retried(req[r])
    OBVIOUS
  <2>2. RequestInv(x)
    BY <1>1, <2>1, RetriedInv
  <2> QED
    BY <1>1, <1>3, <2>1, <2>2, SentFirst DEF WriteFails, Become, Proceed
<1> QED
  BY <1>2, <1>3

-----------------------------------------------------------------------------
(* The ledger and the walk. *)

WalkFields == {"phase", "filter", "cursor", "got", "before"}

\* A walk has seen the rows it shows in the order of the feed, its cursor is the
\* place of the last, and what it has not shown yet lies below the cursor.
WalkInv ==
    \/ walk.phase = "idle"
    \/ /\ DOMAIN walk = WalkFields /\ walk.phase \in {"open", "closed"}
       /\ walk.got \in Seq(DOMAIN ledger)
       /\ \A i, j \in DOMAIN walk.got : i < j => Newer(Place(walk.got[i]), Place(walk.got[j]))
       /\ walk.phase = "open" /\ walk.cursor = None => walk.got = <<>>
       /\ walk.phase = "open" /\ walk.cursor # None =>
            walk.got # <<>> /\ walk.cursor = Place(walk.got[Len(walk.got)])
       /\ walk.before \subseteq Filtered(walk.filter)
       /\ \A r \in walk.before :
            \/ \E i \in DOMAIN walk.got : walk.got[i] = r
            \/ walk.phase = "open" /\ Below(r, walk.cursor)

LedgerInv == clock \in Nat /\ RequestsInv /\ LedgerRowsInv /\ WalkInv

\* Rows are only added: a walk keeps what it has.
LEMMA WalkKept ==
    ASSUME WalkInv, walk' = walk, DOMAIN ledger \subseteq DOMAIN ledger',
           \A r \in DOMAIN ledger : ledger'[r] = ledger[r]
    PROVE  WalkInv'
<1>1. CASE walk.phase = "idle"
  BY <1>1 DEF WalkInv
<1>2. CASE walk.phase # "idle"
  <2>1. \A r \in DOMAIN ledger : Place(r)' = Place(r)
    BY DEF Place
  <2>2. walk.got \in Seq(DOMAIN ledger)
    BY <1>2 DEF WalkInv
  <2>3. \A i \in DOMAIN walk.got : walk.got[i] \in DOMAIN ledger
    BY <2>2
  <2>4. walk'.got \in Seq(DOMAIN ledger')
    BY <2>2
  <2>5. \A i, j \in DOMAIN walk'.got : i < j => Newer(Place(walk.got[i]), Place(walk.got[j]))'
    BY <1>2, <2>1, <2>3 DEF WalkInv, Newer
  <2>6. walk'.phase = "open" /\ walk'.cursor # None =>
          walk'.got # <<>> /\ walk'.cursor = Place(walk.got[Len(walk.got)])'
    <3> SUFFICES ASSUME walk.phase = "open", walk.cursor # None
                 PROVE  walk.got # <<>> /\ walk.cursor = Place(walk.got[Len(walk.got)])'
      OBVIOUS
    <3>1. walk.got # <<>> /\ walk.cursor = Place(walk.got[Len(walk.got)])
      BY <1>2 DEF WalkInv
    <3>2. Len(walk.got) \in DOMAIN walk.got
      BY <2>2, <3>1, EmptySeq
    <3> QED
      BY <2>1, <2>3, <3>1, <3>2
  <2>7. Filtered(walk.filter) \subseteq Filtered(walk.filter)'
    BY DEF Filtered, Matches
  <2>8. \A r \in walk.before : Below(r, walk.cursor) => Below(r, walk.cursor)'
    <3>1. \A r \in walk.before : r \in DOMAIN ledger
      BY <1>2 DEF WalkInv, Filtered
    <3> QED
      BY <2>1, <3>1 DEF Below, Newer
  <2> QED
    BY <1>2, <2>4, <2>5, <2>6, <2>7, <2>8 DEF WalkInv
<1> QED
  BY <1>1, <1>2

LEMMA MovesInv ==
    ASSUME LedgerInv, NEW r \in Requests, \E x : Moves(r, x)
    PROVE  LedgerInv'
<1>1. PICK x : Moves(r, x)
  OBVIOUS
<1>2. clock' \in Nat
  BY <1>1 DEF Moves, LedgerInv
<1>3. RequestsInv'
  BY <1>1 DEF Moves, LedgerInv, RequestsInv
<1>4. LedgerRowsInv'
  BY <1>1 DEF Moves, LedgerInv, LedgerRowsInv
<1>5. WalkInv'
  BY <1>1, WalkKept DEF Moves, LedgerInv
<1> QED
  BY <1>2, <1>3, <1>4, <1>5 DEF LedgerInv

-----------------------------------------------------------------------------
(* Pages. *)

\* ORDER BY created_at DESC, request_id DESC orders the rows.
Over(a, b) == Newer(Place(a), Place(b))

LEMMA OverOrder ==
    ASSUME LedgerRowsInv
    PROVE  /\ \A a \in DOMAIN ledger : ~Over(a, a)
           /\ \A a, b, c \in DOMAIN ledger : Over(a, b) /\ Over(b, c) => Over(a, c)
           /\ \A a, b \in DOMAIN ledger : a # b => Over(a, b) \/ Over(b, a)
<1>1. \A a \in DOMAIN ledger : a \in Nat /\ Place(a).at \in Nat /\ Place(a).id = a
  BY LedgerAssumption DEF LedgerRowsInv, Place
<1> QED
  BY <1>1 DEF Over, Newer

\* The places of some rows are their ranks, counted from the newest.
LEMMA AheadRanks ==
    ASSUME LedgerRowsInv, NEW F \in SUBSET DOMAIN ledger
    PROVE  /\ IsFiniteSet(F) /\ Cardinality(F) \in Nat
           /\ \A r \in F : Ahead(F, r) \in 0..(Cardinality(F) - 1)
           /\ \A r, q \in F : Over(q, r) => Ahead(F, q) < Ahead(F, r)
           /\ \A r, q \in F : Ahead(F, r) = Ahead(F, q) => r = q
           /\ \A i \in 0..(Cardinality(F) - 1) : \E r \in F : Ahead(F, r) = i
<1> DEFINE Up(r) == {q \in F : Over(q, r)}
           size == Cardinality(F)
<1>0. IsFiniteSet(F)
  BY FS_Subset DEF LedgerRowsInv
<1>1. size \in Nat
  BY <1>0, FS_CardinalityType
<1>2. ASSUME NEW r \in F
      PROVE  Ahead(F, r) \in 0..(size - 1)
  <2>1. Up(r) \in SUBSET (F \ {r})
    BY OverOrder
  <2>2. IsFiniteSet(F \ {r}) /\ Cardinality(F \ {r}) = size - 1
    BY <1>0, FS_RemoveElement
  <2>3. Ahead(F, r) = Cardinality(Up(r))
    BY DEF Ahead, Over
  <2> HIDE DEF Up
  <2>4. IsFiniteSet(Up(r)) /\ Cardinality(Up(r)) <= size - 1
    BY <2>1, <2>2, FS_Subset
  <2>5. Cardinality(Up(r)) \in Nat
    BY <2>4, FS_CardinalityType
  <2> QED
    BY <1>1, <2>3, <2>4, <2>5
<1>3. ASSUME NEW r \in F, NEW q \in F, Over(q, r)
      PROVE  Ahead(F, q) < Ahead(F, r)
  <2>1. Up(q) \in SUBSET Up(r)
    BY <1>3, OverOrder
  <2>2. q \in Up(r) /\ q \notin Up(q)
    BY <1>3, OverOrder
  <2>3. IsFiniteSet(Up(r))
    BY <1>0, FS_Subset
  <2>4. Cardinality(Up(q)) = Ahead(F, q) /\ Cardinality(Up(r)) = Ahead(F, r)
    BY DEF Ahead, Over
  <2> HIDE DEF Up
  <2>5. Cardinality(Up(q)) <= Cardinality(Up(r)) /\ Cardinality(Up(q)) # Cardinality(Up(r))
    BY <2>1, <2>2, <2>3, FS_Subset
  <2>6. Ahead(F, q) \in 0..(size - 1) /\ Ahead(F, r) \in 0..(size - 1)
    BY <1>2
  <2> QED
    BY <1>1, <2>4, <2>5, <2>6
<1> HIDE DEF Up
<1>4. \A r, q \in F : Ahead(F, r) = Ahead(F, q) => r = q
  <2> SUFFICES ASSUME NEW r \in F, NEW q \in F, r # q PROVE Ahead(F, r) # Ahead(F, q)
    OBVIOUS
  <2>1. Over(r, q) \/ Over(q, r)
    BY OverOrder
  <2>2. Ahead(F, q) \in 0..(size - 1) /\ Ahead(F, r) \in 0..(size - 1)
    BY <1>2
  <2>3. Ahead(F, q) < Ahead(F, r) \/ Ahead(F, r) < Ahead(F, q)
    BY <1>3, <2>1
  <2> QED
    BY <1>1, <2>2, <2>3
<1>5. \A i \in 0..(size - 1) : \E r \in F : Ahead(F, r) = i
  <2> DEFINE f == [r \in F |-> Ahead(F, r)]
             T == 0..(size - 1)
  <2>1. f \in [F -> T]
    BY <1>1, <1>2
  <2>2. \A r, q \in F : f[r] = f[q] => r = q
    BY <1>4
  <2>3. f \in Injection(F, T)
    BY <2>1, <2>2 DEF Injection, IsInjective
  <2>4. IsFiniteSet(T) /\ Cardinality(T) = size
    BY <1>1, FS_Interval
  <2> HIDE DEF f, T
  <2>5. f \in Surjection(F, T)
    BY <1>0, <2>3, <2>4, FS_Injection
  <2> QED
    BY <2>5 DEF Surjection, f, T
<1> QED
  BY <1>0, <1>1, <1>2, <1>3, <1>4, <1>5

\* A query with a limit returns the newest rows, newest first.
LEMMA NewestFacts ==
    ASSUME LedgerRowsInv, NEW F \in SUBSET DOMAIN ledger, NEW limit \in Nat
    PROVE  LET data == Newest(F, limit)
               size == IF Cardinality(F) > limit THEN limit ELSE Cardinality(F)
           IN  /\ data \in Seq(F) /\ Len(data) = size /\ DOMAIN data = 1..size /\ size \in Nat
               /\ \A i \in 1..size : data[i] \in F /\ Ahead(F, data[i]) = i - 1
               /\ \A e \in F : Ahead(F, e) < size => \E i \in 1..size : data[i] = e
<1> DEFINE count == Cardinality(F)
           size == IF count > limit THEN limit ELSE count
           data == [i \in 1..size |-> CHOOSE r \in F : Ahead(F, r) = i - 1]
<1>1. Newest(F, limit) = data
  BY DEF Newest
<1>2. /\ count \in Nat
      /\ \A r \in F : Ahead(F, r) \in 0..(count - 1)
      /\ \A r, q \in F : Ahead(F, r) = Ahead(F, q) => r = q
      /\ \A i \in 0..(count - 1) : \E r \in F : Ahead(F, r) = i
  BY AheadRanks
<1> HIDE DEF count
<1>3. size \in Nat /\ size <= count
  BY <1>2
<1> HIDE DEF size
<1>4. ASSUME NEW i \in 1..size
      PROVE  data[i] \in F /\ Ahead(F, data[i]) = i - 1
  <2>1. i - 1 \in 0..(count - 1)
    BY <1>2, <1>3
  <2>2. \E r \in F : Ahead(F, r) = i - 1
    BY <1>2, <2>1
  <2>3. data[i] = CHOOSE r \in F : Ahead(F, r) = i - 1
    OBVIOUS
  <2> QED
    BY <2>2, <2>3, Zenon
<1>5. data \in Seq(F) /\ Len(data) = size /\ DOMAIN data = 1..size
  <2>1. data \in [1..size -> F]
    BY <1>4
  <2> QED
    BY <1>3, <2>1
<1> HIDE DEF data
<1>6. ASSUME NEW e \in F, Ahead(F, e) < size
      PROVE  \E i \in 1..size : data[i] = e
  <2>1. Ahead(F, e) \in Nat
    BY <1>2
  <2> DEFINE i == Ahead(F, e) + 1
  <2>2. i \in 1..size /\ i - 1 = Ahead(F, e)
    BY <1>3, <1>6, <2>1
  <2> HIDE DEF i
  <2>3. data[i] \in F /\ Ahead(F, data[i]) = Ahead(F, e)
    BY <1>4, <2>2
  <2> QED
    BY <1>2, <2>2, <2>3
<1> QED
  BY <1>1, <1>3, <1>4, <1>5, <1>6 DEF size, count

Rest(f, cursor) == {r \in Filtered(f) : Below(r, cursor)}

\* A page holds the newest rows below the cursor; when it gives a cursor, that
\* is the place of its last row and the other rows lie below it.
LEMMA UsagePage ==
    ASSUME LedgerRowsInv, NEW f, NEW cursor
    PROVE  LET page == Page(f, cursor)
               got == page.rows
               F == Rest(f, cursor)
           IN  /\ got \in Seq(F)
               /\ \A i, j \in DOMAIN got : i < j => Over(got[i], got[j])
               /\ page.cursor = None => \A e \in F : \E i \in DOMAIN got : got[i] = e
               /\ page.cursor # None =>
                    /\ Len(got) >= 1 /\ page.cursor = Place(got[Len(got)])
                    /\ \A e \in F : (\E i \in DOMAIN got : got[i] = e) \/ Over(got[Len(got)], e)
<1> DEFINE F == Rest(f, cursor)
           count == Cardinality(F)
           limit == PageSize + 1
           size == IF count > limit THEN limit ELSE count
           data == Newest(F, limit)
           longer == Len(data) > PageSize
           got == IF longer THEN SubSeq(data, 1, PageSize) ELSE data
           end == Place(got[Len(got)])
           next == IF longer THEN end ELSE None
<1>1. Page(f, cursor).rows = got /\ Page(f, cursor).cursor = next
  BY DEF Page, Rest
<1>2. F \in SUBSET DOMAIN ledger
  BY DEF Rest, Filtered
<1>3. PageSize \in Nat /\ PageSize >= 1 /\ limit \in Nat
  BY LedgerAssumption
<1> HIDE DEF F
<1>4. /\ count \in Nat
      /\ \A r \in F : Ahead(F, r) \in 0..(count - 1)
      /\ \A r, q \in F : Over(q, r) => Ahead(F, q) < Ahead(F, r)
  BY <1>2, AheadRanks
<1>5. /\ data \in Seq(F) /\ Len(data) = size /\ DOMAIN data = 1..size /\ size \in Nat
      /\ \A i \in 1..size : data[i] \in F /\ Ahead(F, data[i]) = i - 1
      /\ \A e \in F : Ahead(F, e) < size => \E i \in 1..size : data[i] = e
  BY <1>2, <1>3, NewestFacts
<1>6. /\ longer => size = PageSize + 1
      /\ ~longer => size = count /\ size <= PageSize
  BY <1>3, <1>4, <1>5
<1> HIDE DEF data, count, size
<1>7. PICK n \in Nat : /\ n <= size /\ got \in Seq(F) /\ Len(got) = n /\ DOMAIN got = 1..n
                       /\ \A i \in 1..n : got[i] = data[i]
                       /\ longer => n = PageSize
                       /\ ~longer => n = size
  <2>1. CASE longer
    <3>1. size = PageSize + 1 /\ got = SubSeq(data, 1, PageSize)
      BY <1>6, <2>1
    <3>2. got \in Seq(F) /\ Len(got) = PageSize /\ DOMAIN got = 1..PageSize
          /\ \A i \in 1..PageSize : got[i] = data[i]
      BY <1>3, <1>5, <3>1
    <3> QED
      BY <1>3, <2>1, <3>1, <3>2
  <2>2. CASE ~longer
    BY <1>5, <2>2
  <2> QED
    BY <2>1, <2>2
<1> HIDE DEF longer, got, end
<1>8. (longer => next = end) /\ (~longer => next = None)
  OBVIOUS
<1> HIDE DEF next
<1>9. \A i \in 1..n : i \in 1..size /\ got[i] \in F /\ Ahead(F, got[i]) = i - 1
  BY <1>5, <1>7
<1>10. ASSUME NEW a \in F, NEW b \in F, Ahead(F, a) < Ahead(F, b)
       PROVE  Over(a, b)
  <2>1. Ahead(F, a) \in Int /\ Ahead(F, b) \in Int
    BY <1>4
  <2>2. a # b /\ ~Over(b, a)
    BY <1>4, <1>10, <2>1
  <2> QED
    BY <1>2, <2>2, OverOrder
<1>11. \A i, j \in DOMAIN got : i < j => Over(got[i], got[j])
  <2> SUFFICES ASSUME NEW i \in 1..n, NEW j \in 1..n, i < j PROVE Over(got[i], got[j])
    BY <1>7
  <2>1. Ahead(F, got[i]) < Ahead(F, got[j])
    BY <1>7, <1>9
  <2> QED
    BY <1>9, <1>10, <2>1
<1>12. \A e \in F : Ahead(F, e) < n => \E i \in DOMAIN got : got[i] = e
  <2> SUFFICES ASSUME NEW e \in F, Ahead(F, e) < n PROVE \E i \in 1..n : got[i] = e
    BY <1>7
  <2>1. Ahead(F, e) \in Int
    BY <1>4
  <2>2. PICK i \in 1..size : data[i] = e
    BY <1>5, <1>7, <2>1
  <2>3. Ahead(F, e) = i - 1
    BY <1>5, <2>2
  <2>4. i \in 1..n
    BY <1>7, <2>3
  <2> QED
    BY <1>7, <2>2, <2>4
<1>13. ASSUME longer
       PROVE  /\ Len(got) >= 1 /\ next = Place(got[Len(got)]) /\ next # None
              /\ \A e \in F : (\E i \in DOMAIN got : got[i] = e) \/ Over(got[Len(got)], e)
  <2>1. n >= 1 /\ n \in 1..n /\ Len(got) = n
    BY <1>3, <1>7, <1>13
  <2>2. got[n] \in F /\ Ahead(F, got[n]) = n - 1
    BY <1>9, <2>1
  <2>3. Place(got[n]) # None
    <3>1. got[n] \in DOMAIN ledger
      BY <1>2, <2>2
    <3>2. got[n] \in Nat /\ ledger[got[n]].created_at \in Nat
      BY <3>1, LedgerAssumption DEF LedgerRowsInv
    <3>3. Place(got[n]) \in [at : Nat, id : Nat]
      BY <3>2 DEF Place
    <3> QED
      BY <3>3, LedgerAssumption
  <2>4. ASSUME NEW e \in F, ~(Ahead(F, e) < n) PROVE Over(got[n], e)
    <3>1. Ahead(F, e) \in Int
      BY <1>4
    <3>2. Ahead(F, got[n]) < Ahead(F, e)
      BY <2>2, <2>4, <3>1
    <3> QED
      BY <1>10, <2>2, <3>2
  <2> QED
    BY <1>8, <1>12, <1>13, <2>1, <2>3, <2>4 DEF end
<1>14. ASSUME ~longer
       PROVE  next = None /\ \A e \in F : \E i \in DOMAIN got : got[i] = e
  <2>1. n = count
    BY <1>6, <1>7, <1>14
  <2>2. \A e \in F : Ahead(F, e) < n
    BY <1>4, <2>1
  <2> QED
    BY <1>8, <1>12, <1>14, <2>2
<1> QED
  BY <1>1, <1>7, <1>8, <1>11, <1>13, <1>14 DEF F

\* A page that continues a descending list makes a longer one.
LEMMA Continuation ==
    ASSUME LedgerRowsInv, NEW s \in Seq(DOMAIN ledger), NEW t \in Seq(DOMAIN ledger),
           \A i, j \in DOMAIN s : i < j => Over(s[i], s[j]),
           \A i, j \in DOMAIN t : i < j => Over(t[i], t[j]),
           s # <<>> => \A j \in DOMAIN t : Over(s[Len(s)], t[j]),
           NEW u, u = s \o t
    PROVE  /\ u \in Seq(DOMAIN ledger)
           /\ \A i, j \in DOMAIN u : i < j => Over(u[i], u[j])
           /\ \A i \in DOMAIN s : \E k \in DOMAIN u : u[k] = s[i]
           /\ \A i \in DOMAIN t : \E k \in DOMAIN u : u[k] = t[i]
           /\ Len(t) >= 1 => u # <<>> /\ u[Len(u)] = t[Len(t)]
<1> DEFINE m == Len(s)
           n == Len(t)
<1>1. /\ m \in Nat /\ n \in Nat /\ DOMAIN s = 1..m /\ DOMAIN t = 1..n
      /\ \A i \in 1..m : s[i] \in DOMAIN ledger
      /\ \A i \in 1..n : t[i] \in DOMAIN ledger
  OBVIOUS
<1>2. /\ u \in Seq(DOMAIN ledger) /\ Len(u) = m + n /\ DOMAIN u = 1..(m + n)
      /\ \A i \in 1..m : u[i] = s[i]
      /\ \A i \in (m + 1)..(m + n) : u[i] = t[i - m]
  OBVIOUS
<1>3. \A i \in 1..n : i + m \in (m + 1)..(m + n) /\ u[i + m] = t[i]
  BY <1>1, <1>2
<1> HIDE DEF m, n
<1>4. ASSUME NEW i \in 1..(m + n), NEW j \in 1..(m + n), i < j
      PROVE  Over(u[i], u[j])
  <2>1. CASE j \in 1..m
    <3>1. i \in 1..m
      BY <1>1, <1>4, <2>1
    <3> QED
      BY <1>1, <1>2, <1>4, <2>1, <3>1
  <2>2. CASE i \in (m + 1)..(m + n)
    <3>1. /\ j \in (m + 1)..(m + n) /\ i - m \in 1..n /\ j - m \in 1..n
          /\ i - m < j - m
      BY <1>1, <1>4, <2>2
    <3> QED
      BY <1>1, <1>2, <2>2, <3>1
  <2>3. CASE i \in 1..m /\ j \in (m + 1)..(m + n)
    <3>1. j - m \in 1..n /\ m \in 1..m
      BY <1>1, <2>3
    <3>2. s # <<>>
      BY <3>1 DEF m
    <3>3. Over(s[m], t[j - m])
      BY <1>1, <3>1, <3>2 DEF m
    <3>4. s[i] = s[m] \/ Over(s[i], s[m])
      <4>1. i = m \/ i < m
        BY <1>1, <2>3
      <4> QED
        BY <1>1, <2>3, <3>1, <4>1
    <3>5. s[i] \in DOMAIN ledger /\ s[m] \in DOMAIN ledger /\ t[j - m] \in DOMAIN ledger
      BY <1>1, <2>3, <3>1
    <3>6. Over(s[i], t[j - m])
      BY <3>3, <3>4, <3>5, OverOrder
    <3> QED
      BY <1>2, <2>3, <3>6
  <2> QED
    BY <1>1, <2>1, <2>2, <2>3
<1>5. \A i \in 1..m : i \in 1..(m + n) /\ u[i] = s[i]
  BY <1>1, <1>2
<1>6. \A i \in 1..n : i + m \in 1..(m + n) /\ u[i + m] = t[i]
  BY <1>1, <1>3
<1>7. n >= 1 => u # <<>> /\ u[m + n] = t[n]
  <2> SUFFICES ASSUME n >= 1 PROVE u # <<>> /\ u[m + n] = t[n]
    OBVIOUS
  <2>1. n \in 1..n /\ n + m = m + n /\ m + n # 0
    BY <1>1
  <2> QED
    BY <1>2, <1>3, <2>1
<1> QED
  BY <1>1, <1>2, <1>4, <1>5, <1>6, <1>7 DEF m, n

-----------------------------------------------------------------------------
(* The other steps. *)

LEMMA LedgerInitInv == LedgerInit => LedgerInv
<1> SUFFICES ASSUME LedgerInit PROVE LedgerInv
  OBVIOUS
<1>1. RequestsInv
  BY IdleInv DEF LedgerInit, RequestsInv
<1>2. DOMAIN ledger = {}
  BY DEF LedgerInit
<1>3. LedgerRowsInv
  BY <1>2, FS_EmptySet DEF LedgerRowsInv
<1>4. WalkInv
  BY DEF LedgerInit, WalkInv
<1>5. clock \in Nat
  BY DEF LedgerInit
<1> QED
  BY <1>1, <1>3, <1>4, <1>5 DEF LedgerInv

\* A row is written once and keeps its place.
LEMMA CommitInv ==
    ASSUME LedgerInv, NEW r \in Requests, Commit(r)
    PROVE  LedgerInv'
<1> DEFINE q == req[r]
           entry == Row(q)
<1>1. q.phase = "writing" /\ q.stamp # None /\ RequestInv(q)
  BY DEF Commit, LedgerInv, RequestsInv
<1>2. PICK x : req' = [req EXCEPT ![r] = x] /\ (x = Settled \/ x = Retried(q))
  BY DEF Commit
<1>3. RequestInv(x)
  BY <1>1, <1>2, IdleInv, RetriedInv
<1>4. RequestsInv'
  BY <1>2, <1>3 DEF LedgerInv, RequestsInv
<1>5. /\ entry.created_at = q.stamp /\ entry.attempts = q.attempts
      /\ entry.success = q.event.success /\ entry.source = q.event.source
      /\ entry.total = q.event.total /\ entry.retries = q.event.retries
  BY DEF Row
<1>6. /\ q.stamp \in Nat
      /\ q.attempts # <<>> => Last(q.attempts) = q.event.success
      /\ q.event.source = "estimated" => q.event.success
      /\ q.attempts \in Seq(BOOLEAN) /\ q.event.success \in BOOLEAN /\ q.event.total \in Int
      /\ q.event.retries = RetriesOf(q.attempts)
  BY <1>1 DEF RequestInv, RequestTypes, EventInv
<1>7. clock' \in Nat /\ walk' = walk /\ ledger' = Inserted(r, q)
  BY DEF Commit, LedgerInv
<1> HIDE DEF q, entry
<1>8. CASE r \in DOMAIN ledger
  <2>1. ledger' = ledger
    BY <1>7, <1>8 DEF Inserted
  <2>2. LedgerRowsInv'
    BY <2>1 DEF LedgerInv, LedgerRowsInv
  <2>3. WalkInv'
    BY <1>7, <2>1, WalkKept DEF LedgerInv
  <2> QED
    BY <1>4, <1>7, <2>2, <2>3 DEF LedgerInv
<1>9. CASE r \notin DOMAIN ledger
  <2>1. ledger' = Put(r, entry)
    BY <1>7, <1>9 DEF Inserted, entry
  <2>2. /\ DOMAIN ledger' = DOMAIN ledger \cup {r} /\ ledger'[r] = entry
        /\ \A o \in DOMAIN ledger : ledger'[o] = ledger[o]
    BY <1>9, <2>1 DEF Put
  <2>3. LedgerRowsInv'
    <3>1. DOMAIN ledger' \subseteq Requests
      BY <2>2 DEF LedgerInv, LedgerRowsInv
    <3>2. IsFiniteSet(DOMAIN ledger')
      BY <2>2, FS_AddElement DEF LedgerInv, LedgerRowsInv
    <3>3. ASSUME NEW o \in DOMAIN ledger'
          PROVE  /\ ledger'[o].created_at \in Nat
                 /\ ledger'[o].attempts # <<>> => Last(ledger'[o].attempts) = ledger'[o].success
                 /\ ledger'[o].source = "estimated" => ledger'[o].success
      <4>1. CASE o = r
        BY <1>5, <1>6, <2>2, <4>1
      <4>2. CASE o \in DOMAIN ledger
        BY <2>2, <4>2 DEF LedgerInv, LedgerRowsInv
      <4> QED
        BY <2>2, <4>1, <4>2
    <3>4. ASSUME NEW o \in DOMAIN ledger'
          PROVE  RowCounts(ledger'[o])
      <4>1. CASE o = r
        BY <1>5, <1>6, <2>2, <4>1 DEF RowCounts
      <4>2. CASE o \in DOMAIN ledger
        BY <2>2, <4>2 DEF LedgerInv, LedgerRowsInv
      <4> QED
        BY <2>2, <4>1, <4>2
    <3> QED
      BY <3>1, <3>2, <3>3, <3>4 DEF LedgerRowsInv
  <2>4. WalkInv'
    BY <1>7, <2>2, WalkKept DEF LedgerInv
  <2> QED
    BY <1>4, <1>7, <2>3, <2>4 DEF LedgerInv
<1> QED
  BY <1>8, <1>9

LEMMA CrashInv == ASSUME LedgerInv, Crash PROVE LedgerInv'
<1>1. RequestsInv'
  BY IdleInv DEF Crash, LedgerInv, RequestsInv
<1>2. LedgerRowsInv' /\ clock' \in Nat
  BY DEF Crash, LedgerInv, LedgerRowsInv
<1>3. WalkInv'
  BY WalkKept DEF Crash, LedgerInv
<1> QED
  BY <1>1, <1>2, <1>3 DEF LedgerInv

LEMMA TickInv == ASSUME LedgerInv, Tick PROVE LedgerInv'
<1>1. RequestsInv'
  BY DEF Tick, LedgerInv, RequestsInv
<1>2. LedgerRowsInv' /\ clock' \in Nat
  BY DEF Tick, LedgerInv, LedgerRowsInv
<1>3. WalkInv'
  BY WalkKept DEF Tick, LedgerInv
<1> QED
  BY <1>1, <1>2, <1>3 DEF LedgerInv

LEMMA WalkStep ==
    ASSUME LedgerInv, UNCHANGED <<clock, req, ledger, work>>, WalkInv'
    PROVE  LedgerInv'
<1>1. RequestsInv' /\ clock' \in Nat
  BY DEF LedgerInv, RequestsInv
<1>2. LedgerRowsInv'
  BY DEF LedgerInv, LedgerRowsInv
<1> QED
  BY <1>1, <1>2 DEF LedgerInv

LEMMA StartWalkInv == ASSUME LedgerInv, StartWalk PROVE LedgerInv'
<1>1. PICK f : walk' = [phase |-> "open", filter |-> f, cursor |-> None, got |-> <<>>,
                        before |-> Filtered(f)]
  BY DEF StartWalk
<1>2. UNCHANGED <<clock, req, ledger, work>>
  BY DEF StartWalk
<1>3. /\ DOMAIN walk' = WalkFields /\ walk'.phase = "open" /\ walk'.filter = f
      /\ walk'.cursor = None /\ walk'.got = <<>> /\ walk'.before = Filtered(f)
  BY <1>1 DEF WalkFields
<1>4. Filtered(f)' = Filtered(f)
  BY <1>2 DEF Filtered, Matches
<1>5. WalkInv'
  <2>1. <<>> \in Seq(DOMAIN ledger') /\ DOMAIN <<>> = {}
    OBVIOUS
  <2>2. walk'.before \subseteq Filtered(walk.filter)'
    BY <1>2, <1>3 DEF Filtered, Matches
  <2>3. \A r : Below(r, walk.cursor)'
    BY <1>3 DEF Below
  <2> QED
    BY <1>3, <2>1, <2>2, <2>3 DEF WalkInv
<1> QED
  BY <1>2, <1>5, WalkStep

\* A page continues the walk where it stopped.
LEMMA NextPageInv == ASSUME LedgerInv, NextPage PROVE LedgerInv'
<1> DEFINE f == walk.filter
           page == Page(f, walk.cursor)
           s == walk.got
           t == page.rows
           c == page.cursor
           p == IF c = None THEN "closed" ELSE "open"
           F == Rest(f, walk.cursor)
           u == s \o t
<1>1. /\ walk.phase = "open"
      /\ walk' = [walk EXCEPT !.got = u, !.cursor = c, !.phase = p]
      /\ UNCHANGED <<clock, req, ledger, work>>
  BY DEF NextPage
<1>2. /\ DOMAIN walk = WalkFields /\ s \in Seq(DOMAIN ledger)
      /\ \A i, j \in DOMAIN s : i < j => Over(s[i], s[j])
      /\ walk.cursor = None => s = <<>>
      /\ walk.cursor # None => s # <<>> /\ walk.cursor = Place(s[Len(s)])
      /\ walk.before \subseteq Filtered(f)
      /\ \A r \in walk.before : (\E i \in DOMAIN s : s[i] = r) \/ Below(r, walk.cursor)
  BY <1>1 DEF LedgerInv, WalkInv, Over
<1>3. LedgerRowsInv
  BY DEF LedgerInv
<1>4. /\ t \in Seq(F)
      /\ \A i, j \in DOMAIN t : i < j => Over(t[i], t[j])
      /\ c = None => \A e \in F : \E i \in DOMAIN t : t[i] = e
      /\ c # None =>
           /\ Len(t) >= 1 /\ c = Place(t[Len(t)])
           /\ \A e \in F : (\E i \in DOMAIN t : t[i] = e) \/ Over(t[Len(t)], e)
  BY <1>3, UsagePage
<1> HIDE DEF t, c, s, f
<1>5. F \subseteq DOMAIN ledger /\ \A e \in F : Below(e, walk.cursor)
  BY DEF Rest, Filtered
<1>6. t \in Seq(DOMAIN ledger) /\ \A j \in DOMAIN t : t[j] \in F
  <2>1. \A j \in DOMAIN t : t[j] \in F
    BY <1>4
  <2> QED
    BY <1>4, <1>5, <2>1
<1>7. s # <<>> => \A j \in DOMAIN t : Over(s[Len(s)], t[j])
  BY <1>2, <1>5, <1>6 DEF Below, Over
<1>8. /\ u \in Seq(DOMAIN ledger)
      /\ \A i, j \in DOMAIN u : i < j => Over(u[i], u[j])
      /\ \A i \in DOMAIN s : \E k \in DOMAIN u : u[k] = s[i]
      /\ \A i \in DOMAIN t : \E k \in DOMAIN u : u[k] = t[i]
      /\ Len(t) >= 1 => u # <<>> /\ u[Len(u)] = t[Len(t)]
  BY <1>2, <1>3, <1>4, <1>6, <1>7, Continuation
<1>9. \A r \in walk.before \cap F : \/ \E k \in DOMAIN u : u[k] = r
                                    \/ c # None /\ Over(t[Len(t)], r)
  BY <1>4, <1>8
<1>10. \A r \in walk.before : r \in F \/ \E i \in DOMAIN s : s[i] = r
  BY <1>2 DEF Rest
<1> HIDE DEF u, F
<1>11. p \in {"open", "closed"} /\ (p = "open" <=> c # None)
  OBVIOUS
<1> HIDE DEF p
<1>12. /\ DOMAIN walk' = WalkFields /\ walk'.phase = p /\ walk'.filter = f
       /\ walk'.cursor = c /\ walk'.got = u /\ walk'.before = walk.before
  BY <1>1, <1>2 DEF WalkFields, f
<1>13. \A a, b : Over(a, b)' <=> Over(a, b)
  BY <1>1 DEF Over, Newer, Place
<1>14. \A i, j \in DOMAIN walk'.got : i < j => Newer(Place(walk.got[i]), Place(walk.got[j]))'
  <2> SUFFICES ASSUME NEW i \in DOMAIN u, NEW j \in DOMAIN u, i < j
               PROVE  Newer(Place(walk.got[i]), Place(walk.got[j]))'
    BY <1>12
  <2>1. Newer(Place(u[i]), Place(u[j]))
    BY <1>8 DEF Over
  <2> QED
    BY <1>1, <1>12, <2>1 DEF Newer, Place
<1>15. walk'.phase = "open" =>
         walk'.cursor # None /\ walk'.got # <<>> /\ walk'.cursor = Place(walk.got[Len(walk.got)])'
  BY <1>1, <1>4, <1>8, <1>11, <1>12 DEF Place
<1>16. walk'.before \subseteq Filtered(walk.filter)'
  BY <1>1, <1>2, <1>12 DEF Filtered, Matches
<1>17. \A r \in walk'.before :
         \/ \E i \in DOMAIN walk'.got : walk'.got[i] = r
         \/ walk'.phase = "open" /\ Below(r, walk.cursor)'
  <2> SUFFICES ASSUME NEW r \in walk.before, ~ \E i \in DOMAIN u : u[i] = r
               PROVE  p = "open" /\ Below(r, walk.cursor)'
    BY <1>12
  <2>1. r \in F /\ c # None /\ Over(t[Len(t)], r)
    BY <1>8, <1>9, <1>10
  <2>2. Newer(c, Place(r))
    BY <1>4, <2>1 DEF Over
  <2> QED
    BY <1>1, <1>11, <1>12, <2>1, <2>2 DEF Below, Newer, Place
<1>18. WalkInv'
  BY <1>1, <1>8, <1>11, <1>12, <1>14, <1>15, <1>16, <1>17 DEF WalkInv
<1> QED
  BY <1>1, <1>18, WalkStep

-----------------------------------------------------------------------------
(* The results. *)

\* A step of a request.
RequestStep(r) ==
    \/ Begin(r) \/ Send(r) \/ TimeOut(r) \/ TransportFails(r) \/ ResponseHead(r)
    \/ BodyComplete(r) \/ GiveUp(r) \/ ObserveFrame(r) \/ EndStream(r)
    \/ StartWrite(r) \/ WriteFails(r)

LEMMA StepMoves ==
    ASSUME LedgerInv, NEW r \in Requests, RequestStep(r)
    PROVE  \E x : Moves(r, x)
<1>1. clock \in Nat /\ RequestsInv
  BY DEF LedgerInv
<1> QED
  BY <1>1, BeginMoves, SendMoves, FailMoves, HeadMoves, BodyMoves, GiveUpMoves, StreamMoves,
     WriteMoves DEF RequestStep

LEMMA LedgerCases ==
    LedgerNext <=> \/ \E r \in Requests : RequestStep(r) \/ Commit(r)
                   \/ Crash \/ Tick \/ StartWalk \/ NextPage
BY DEF LedgerNext, RequestStep

LEMMA LedgerNextInv == LedgerInv /\ [LedgerNext]_ledgerVars => LedgerInv'
<1> SUFFICES ASSUME LedgerInv, [LedgerNext]_ledgerVars PROVE LedgerInv'
  OBVIOUS
<1>1. CASE \E r \in Requests : RequestStep(r)
  BY <1>1, StepMoves, MovesInv
<1>2. CASE \E r \in Requests : Commit(r)
  BY <1>2, CommitInv
<1>3. CASE UNCHANGED ledgerVars
  <2>1. RequestsInv' /\ LedgerRowsInv' /\ clock' \in Nat
    BY <1>3 DEF ledgerVars, LedgerInv, RequestsInv, LedgerRowsInv
  <2>2. WalkInv'
    BY <1>3, WalkKept DEF ledgerVars, LedgerInv
  <2> QED
    BY <2>1, <2>2 DEF LedgerInv
<1> QED
  BY <1>1, <1>2, <1>3, CrashInv, TickInv, StartWalkInv, NextPageInv, LedgerCases

LEMMA LedgerInvariance == LedgerSpec => []LedgerInv
BY LedgerInitInv, LedgerNextInv, PTL DEF LedgerSpec

\* The usage of a stream, merged event by event with bounded memory, is what the
\* whole list of its events says, and in the ledger an event agrees with its last
\* attempt and is estimated for a success only (SseUsageAccumulator,
\* usage_for_stream_observation, finalize_stream_usage).
THEOREM LedgerIsTruthful == LedgerSpec => []LedgerTruthful
<1>1. LedgerInv => LedgerTruthful
  BY DEF LedgerInv, RequestsInv, RequestInv, FinalInv, LedgerRowsInv, LedgerTruthful
<1> QED
  BY <1>1, LedgerInvariance, PTL

\* A client that pages with next_cursor while rows are written sees every row
\* that was there when it began, none twice, newest first
\* (list_usage_events_page, ON CONFLICT DO NOTHING).
THEOREM RowsSeenOnce == LedgerSpec => []WalksSeeEachRowOnce
<1>1. ASSUME LedgerInv, walk.phase # "idle"
      PROVE  /\ IsInjective(walk.got)
             /\ \A i \in 1 .. Len(walk.got) - 1 :
                  Newer(Place(walk.got[i]), Place(walk.got[i + 1]))
             /\ walk.phase = "closed" => walk.before \subseteq ToSet(walk.got)
  <2> DEFINE s == walk.got
  <2>1. /\ s \in Seq(DOMAIN ledger)
        /\ \A i, j \in DOMAIN s : i < j => Over(s[i], s[j])
        /\ walk.phase = "closed" => \A r \in walk.before : \E i \in DOMAIN s : s[i] = r
    BY <1>1 DEF LedgerInv, WalkInv, Over
  <2>2. \A a \in DOMAIN ledger : ~Over(a, a)
    BY <1>1, OverOrder DEF LedgerInv
  <2> HIDE DEF s
  <2>3. DOMAIN s = 1..Len(s) /\ Len(s) \in Nat /\ \A i \in DOMAIN s : s[i] \in DOMAIN ledger
    BY <2>1
  <2>4. IsInjective(s)
    <3> SUFFICES ASSUME NEW i \in DOMAIN s, NEW j \in DOMAIN s, i # j PROVE s[i] # s[j]
      BY DEF IsInjective
    <3>1. i < j \/ j < i
      BY <2>3
    <3> QED
      BY <2>1, <2>2, <2>3, <3>1
  <2>5. \A i \in 1 .. Len(s) - 1 : Over(s[i], s[i + 1])
    <3> SUFFICES ASSUME NEW i \in 1 .. Len(s) - 1 PROVE Over(s[i], s[i + 1])
      OBVIOUS
    <3>1. i \in DOMAIN s /\ i + 1 \in DOMAIN s /\ i < i + 1
      BY <2>3
    <3> QED
      BY <2>1, <3>1
  <2>6. walk.phase = "closed" => walk.before \subseteq ToSet(s)
    BY <2>1 DEF ToSet
  <2> QED
    BY <2>4, <2>5, <2>6 DEF s, Over
<1>2. LedgerInv => WalksSeeEachRowOnce
  BY <1>1 DEF WalksSeeEachRowOnce
<1> QED
  BY <1>2, LedgerInvariance, PTL

\* However many attempts a request makes, no wait on the upstream is armed past
\* the end of its total time and no attempt is sent after it
\* (earliest_send_timeout, total_deadline).
THEOREM AttemptsWithinTotalTime == LedgerSpec => WithinTotalTime
<1> DEFINE Late(r) ==
        (TotalTimeout # 0 /\ req'[r].phase \in {"sending", "buffering"}) =>
            /\ req'[r].timer # None /\ req'[r].timer.deadline <= req'[r].started + TotalTimeout
            /\ req[r].phase = "choosing" => clock < req'[r].started + TotalTimeout
<1>1. ASSUME LedgerInv, LedgerInv', LedgerNext, NEW r \in Requests
      PROVE  Late(r)
  <2> SUFFICES ASSUME TotalTimeout # 0, req'[r].phase \in {"sending", "buffering"}
               PROVE  /\ req'[r].timer # None
                      /\ req'[r].timer.deadline <= req'[r].started + TotalTimeout
                      /\ req[r].phase = "choosing" => clock < req'[r].started + TotalTimeout
    OBVIOUS
  <2>1. TimerInv(req'[r])
    BY <1>1 DEF LedgerInv, RequestsInv, RequestInv
  <2>2. req'[r].timer # None /\ req'[r].timer.deadline <= req'[r].started + TotalTimeout
    BY <2>1 DEF TimerInv
  <2>3. ASSUME req[r].phase = "choosing" PROVE clock < req'[r].started + TotalTimeout
    <3>1. DOMAIN req = Requests
      BY <1>1 DEF LedgerInv, RequestsInv
    <3>2. ASSUME NEW o \in Requests, RequestStep(o) PROVE clock < req'[r].started + TotalTimeout
      <4>1. PICK x : Moves(o, x)
        BY <1>1, <3>2, StepMoves
      <4>2. CASE o = r
        BY <2>3, <3>1, <4>1, <4>2 DEF Moves
      <4>3. CASE o # r
        <5>1. req'[r] = req[r]
          BY <3>1, <4>1, <4>3 DEF Moves
        <5> QED
          BY <2>3, <5>1
      <4> QED
        BY <4>2, <4>3
    <3>3. ASSUME NEW o \in Requests, Commit(o) PROVE FALSE
      <4>1. req[o].phase = "writing" /\ \A a \in Requests : a # o => req'[a] = req[a]
        BY <3>1, <3>3 DEF Commit
      <4> QED
        BY <2>3, <4>1
    <3>4. ASSUME Crash PROVE FALSE
      BY <2>3, <3>4, IdleInv DEF Crash
    <3>5. ASSUME Tick \/ StartWalk \/ NextPage PROVE FALSE
      BY <2>3, <3>5 DEF Tick, StartWalk, NextPage
    <3> QED
      BY <1>1, <3>2, <3>3, <3>4, <3>5, LedgerCases
  <2> QED
    BY <2>2, <2>3
<1>2. LedgerInv /\ LedgerInv' /\ [LedgerNext]_ledgerVars => [\A r \in Requests : Late(r)]_ledgerVars
  BY <1>1
<1> QED
  BY <1>2, LedgerInvariance, PTL DEF LedgerSpec, WithinTotalTime

-----------------------------------------------------------------------------
(* Sums over finite sets. *)

\* Induction, over the set of numbers that satisfy a property.
LEMMA CountingUp ==
    ASSUME NEW S, 0 \in S, \A n \in Nat : n \in S => n + 1 \in S
    PROVE  Nat \subseteq S
<1> SUFFICES ASSUME ~(Nat \subseteq S) PROVE FALSE
  OBVIOUS
<1> DEFINE T == Nat \ S
<1>1. PICK n \in T : \A m \in T : n <= m
  BY LeastNumber
<1>2. n - 1 \in Nat /\ n - 1 \notin T
  BY <1>1
<1> QED
  BY <1>1, <1>2

\* The element a fold takes next, and the equation a fold of f satisfies.
Picked(s) == CHOOSE x \in s : TRUE

FoldsUp(g, f, T) ==
    \A s \in T : g[s] = IF s = {} THEN 0 ELSE f[Picked(s)] + g[s \ {Picked(s)}]

IsFold(g, f, S) ==
    g = [s \in SUBSET S |-> IF s = {} THEN 0 ELSE f[Picked(s)] + g[s \ {Picked(s)}]]

\* The subsets of S with at most n elements.
UpTo(S, n) == {s \in SUBSET S : Cardinality(s) <= n}

LEMMA PickedFacts ==
    ASSUME NEW s, IsFiniteSet(s), s # {}
    PROVE  /\ Picked(s) \in s /\ IsFiniteSet(s \ {Picked(s)})
           /\ Cardinality(s \ {Picked(s)}) = Cardinality(s) - 1
           /\ Cardinality(s) \in Nat \ {0}
<1>1. Picked(s) \in s
  BY DEF Picked
<1> QED
  BY <1>1, FS_RemoveElement, FS_CardinalityType, FS_EmptySet

\* A fold of any finite set exists.
LEMMA FoldExists ==
    ASSUME NEW f, NEW S, IsFiniteSet(S)
    PROVE  \E g : IsFold(g, f, S)
<1> DEFINE G == {n \in Nat : \E g : DOMAIN g = UpTo(S, n) /\ FoldsUp(g, f, UpTo(S, n))}
<1>0. \A s \in SUBSET S : IsFiniteSet(s) /\ Cardinality(s) \in Nat /\ Cardinality(s) <= Cardinality(S)
  BY FS_Subset, FS_CardinalityType
<1>1. 0 \in G
  <2> DEFINE g == [s \in UpTo(S, 0) |-> 0]
  <2>1. \A s \in UpTo(S, 0) : s = {}
    BY <1>0, FS_EmptySet DEF UpTo
  <2>2. DOMAIN g = UpTo(S, 0) /\ FoldsUp(g, f, UpTo(S, 0))
    BY <2>1 DEF FoldsUp
  <2> QED BY <2>2
<1>2. ASSUME NEW n \in Nat, n \in G PROVE n + 1 \in G
  <2>1. PICK g : DOMAIN g = UpTo(S, n) /\ FoldsUp(g, f, UpTo(S, n))
    BY <1>2
  <2> DEFINE h == [s \in UpTo(S, n + 1) |->
                     IF s = {} THEN 0 ELSE f[Picked(s)] + g[s \ {Picked(s)}]]
  <2>2. ASSUME NEW s \in UpTo(S, n + 1), s # {}
        PROVE  s \ {Picked(s)} \in UpTo(S, n) /\ s \ {Picked(s)} \in UpTo(S, n + 1)
    BY <1>0, <2>2, PickedFacts DEF UpTo
  <2>3. \A s \in UpTo(S, n) : s \in UpTo(S, n + 1)
    BY <1>0 DEF UpTo
  <2>4. ASSUME NEW s \in UpTo(S, n) PROVE h[s] = g[s]
    BY <2>1, <2>3, <2>4 DEF FoldsUp
  <2>5. FoldsUp(h, f, UpTo(S, n + 1))
    <3> SUFFICES ASSUME NEW s \in UpTo(S, n + 1)
                 PROVE  h[s] = IF s = {} THEN 0 ELSE f[Picked(s)] + h[s \ {Picked(s)}]
      BY DEF FoldsUp
    <3>1. h[s] = IF s = {} THEN 0 ELSE f[Picked(s)] + g[s \ {Picked(s)}]
      OBVIOUS
    <3> HIDE DEF h
    <3> QED BY <2>2, <2>4, <3>1
  <2>6. DOMAIN h = UpTo(S, n + 1)
    OBVIOUS
  <2> HIDE DEF h
  <2> QED BY <2>5, <2>6
<1>3. Cardinality(S) \in G
  <2> HIDE DEF G
  <2> QED BY <1>1, <1>2, CountingUp, FS_CardinalityType
<1>4. UpTo(S, Cardinality(S)) = SUBSET S
  BY <1>0 DEF UpTo
<1>5. PICK g : DOMAIN g = SUBSET S /\ FoldsUp(g, f, SUBSET S)
  BY <1>3, <1>4
<1> DEFINE k == [s \in SUBSET S |-> IF s = {} THEN 0 ELSE f[Picked(s)] + g[s \ {Picked(s)}]]
<1>6. \A s \in SUBSET S : k[s] = g[s]
  BY <1>5 DEF FoldsUp
<1>7. \A s \in SUBSET S : s # {} => s \ {Picked(s)} \in SUBSET S
  OBVIOUS
<1>8. k = [s \in SUBSET S |-> IF s = {} THEN 0 ELSE f[Picked(s)] + k[s \ {Picked(s)}]]
  <2>1. \A s \in SUBSET S : k[s] = IF s = {} THEN 0 ELSE f[Picked(s)] + k[s \ {Picked(s)}]
    <3> SUFFICES ASSUME NEW s \in SUBSET S
                 PROVE  k[s] = IF s = {} THEN 0 ELSE f[Picked(s)] + k[s \ {Picked(s)}]
      OBVIOUS
    <3>1. k[s] = IF s = {} THEN 0 ELSE f[Picked(s)] + g[s \ {Picked(s)}]
      OBVIOUS
    <3> HIDE DEF k
    <3> QED BY <1>6, <1>7, <3>1
  <2>2. k = [s \in SUBSET S |-> k[s]]
    OBVIOUS
  <2> HIDE DEF k
  <2> QED BY <2>1, <2>2
<1> HIDE DEF k
<1>9. IsFold(k, f, S)
  BY <1>8 DEF IsFold
<1> QED BY <1>9

\* The sum is the value of a fold.
LEMMA SumIsFold ==
    ASSUME NEW f, NEW S, IsFiniteSet(S)
    PROVE  \E g : FoldsUp(g, f, SUBSET S) /\ SumFunctionOnSet(f, S) = g[S]
<1> DEFINE g0 == CHOOSE g : IsFold(g, f, S)
<1>1. SumFunctionOnSet(f, S) = g0[S]
  BY DEF SumFunctionOnSet, FoldFunctionOnSet, MapThenFoldSet, Picked, IsFold
<1>2. IsFold(g0, f, S)
  BY FoldExists, Zenon
<1> HIDE DEF g0
<1>3. FoldsUp(g0, f, SUBSET S)
  BY <1>2 DEF IsFold, FoldsUp
<1> QED BY <1>1, <1>3

SameOn(f, h, S) == \A x \in S : f[x] = h[x] /\ f[x] \in Int

\* FoldsUp of functions that agree on a set agree on its subsets, and give integers.
LEMMA FoldsAgree ==
    ASSUME NEW S, IsFiniteSet(S), NEW T, S \subseteq T, NEW f, NEW h,
           SameOn(f, h, S), NEW g, FoldsUp(g, f, SUBSET S), NEW k, FoldsUp(k, h, SUBSET T)
    PROVE  SameOn(g, k, SUBSET S)
<1> DEFINE G == {n \in Nat : \A s \in SUBSET S : Cardinality(s) = n => g[s] = k[s] /\ g[s] \in Int}
<1>0. \A s \in SUBSET S : IsFiniteSet(s) /\ Cardinality(s) \in Nat
  BY FS_Subset, FS_CardinalityType
<1>1. 0 \in G
  <2> SUFFICES ASSUME NEW s \in SUBSET S, Cardinality(s) = 0 PROVE g[s] = k[s] /\ g[s] \in Int
    OBVIOUS
  <2>1. s = {} /\ s \in SUBSET T
    BY <1>0, FS_EmptySet
  <2>2. {} \in SUBSET S /\ {} \in SUBSET T
    OBVIOUS
  <2>3. g[{}] = 0 /\ k[{}] = 0
    BY <2>2 DEF FoldsUp
  <2> QED BY <2>1, <2>3
<1>2. ASSUME NEW n \in Nat, n \in G PROVE n + 1 \in G
  <2> SUFFICES ASSUME NEW s \in SUBSET S, Cardinality(s) = n + 1 PROVE g[s] = k[s] /\ g[s] \in Int
    OBVIOUS
  <2> DEFINE x == Picked(s)
             r == s \ {x}
  <2>1. s # {} /\ s \in SUBSET T
    BY <1>0, FS_EmptySet
  <2>2. x \in s /\ r \in SUBSET S /\ Cardinality(r) = n
    BY <1>0, <2>1, PickedFacts
  <2>3. g[r] = k[r] /\ g[r] \in Int
    BY <1>2, <2>2
  <2>4. g[s] = f[x] + g[r] /\ k[s] = h[x] + k[r]
    BY <2>1 DEF FoldsUp
  <2>5. f[x] = h[x] /\ f[x] \in Int
    BY <2>2 DEF SameOn
  <2> HIDE DEF x, r
  <2> QED BY <2>3, <2>4, <2>5
<1>3. Nat \subseteq G
  <2> HIDE DEF G
  <2> QED BY <1>1, <1>2, CountingUp
<1> QED BY <1>0, <1>3 DEF SameOn

\* What a sum depends on.
LEMMA SumSame ==
    ASSUME NEW S, IsFiniteSet(S), NEW f, NEW h, SameOn(f, h, S)
    PROVE  SumFunctionOnSet(f, S) = SumFunctionOnSet(h, S) /\ SumFunctionOnSet(f, S) \in Int
<1>1. PICK g : FoldsUp(g, f, SUBSET S) /\ SumFunctionOnSet(f, S) = g[S]
  BY SumIsFold
<1>2. PICK k : FoldsUp(k, h, SUBSET S) /\ SumFunctionOnSet(h, S) = k[S]
  BY SumIsFold
<1>3. SameOn(g, k, SUBSET S)
  BY <1>1, <1>2, FoldsAgree
<1>4. S \in SUBSET S
  OBVIOUS
<1> QED BY <1>1, <1>2, <1>3, <1>4 DEF SameOn

LEMMA SumEmpty ==
    ASSUME NEW f
    PROVE  SumFunctionOnSet(f, {}) = 0
<1>1. PICK g : FoldsUp(g, f, SUBSET {}) /\ SumFunctionOnSet(f, {}) = g[{}]
  BY SumIsFold, FS_EmptySet
<1>2. {} \in SUBSET {}
  OBVIOUS
<1> QED BY <1>1, <1>2 DEF FoldsUp

\* The element a fold takes first.
LEMMA SumPicked ==
    ASSUME NEW S, IsFiniteSet(S), S # {}, NEW f, \A x \in S : f[x] \in Int
    PROVE  SumFunctionOnSet(f, S) = f[Picked(S)] + SumFunctionOnSet(f, S \ {Picked(S)})
<1> DEFINE r == S \ {Picked(S)}
<1>0. IsFiniteSet(r) /\ r \subseteq S /\ r \in SUBSET r /\ S \in SUBSET S
  BY PickedFacts
<1>1. PICK g : FoldsUp(g, f, SUBSET S) /\ SumFunctionOnSet(f, S) = g[S]
  BY SumIsFold
<1>2. PICK k : FoldsUp(k, f, SUBSET r) /\ SumFunctionOnSet(f, r) = k[r]
  BY <1>0, SumIsFold
<1> HIDE DEF r
<1>3. SameOn(k, g, SUBSET r)
  <2>1. SameOn(f, f, r)
    BY <1>0 DEF SameOn
  <2> QED BY <1>0, <1>1, <1>2, <2>1, FoldsAgree
<1>4. g[S] = f[Picked(S)] + g[r]
  BY <1>0, <1>1 DEF FoldsUp, r
<1> QED BY <1>0, <1>1, <1>2, <1>3, <1>4 DEF r, SameOn

\* Any element may be taken out first.
LEMMA SumRemove ==
    ASSUME NEW S, IsFiniteSet(S), NEW f, \A x \in S : f[x] \in Int, NEW y \in S
    PROVE  SumFunctionOnSet(f, S) = f[y] + SumFunctionOnSet(f, S \ {y})
<1> DEFINE Takes(s, x) == SumFunctionOnSet(f, s) = f[x] + SumFunctionOnSet(f, s \ {x})
           G == {n \in Nat : \A s \in SUBSET S : Cardinality(s) = n => \A x \in s : Takes(s, x)}
<1>0. \A s \in SUBSET S : IsFiniteSet(s) /\ Cardinality(s) \in Nat
  BY FS_Subset, FS_CardinalityType
<1>1. 0 \in G
  BY <1>0, FS_EmptySet
<1>2. ASSUME NEW n \in Nat, n \in G PROVE n + 1 \in G
  <2> SUFFICES ASSUME NEW s \in SUBSET S, Cardinality(s) = n + 1, NEW x \in s PROVE Takes(s, x)
    OBVIOUS
  <2> DEFINE p == Picked(s)
             sp == s \ {p}
             sx == s \ {x}
             spx == s \ {p, x}
  <2>1. p \in s /\ Cardinality(sp) = n /\ SumFunctionOnSet(f, s) = f[p] + SumFunctionOnSet(f, sp)
    <3>1. IsFiniteSet(s) /\ s # {} /\ \A z \in s : f[z] \in Int
      BY <1>0
    <3> HIDE DEF p, sp
    <3>2. p \in s /\ Cardinality(sp) = Cardinality(s) - 1
      BY <3>1, PickedFacts DEF p, sp
    <3>3. SumFunctionOnSet(f, s) = f[p] + SumFunctionOnSet(f, sp)
      BY <3>1, SumPicked, Zenon DEF p, sp
    <3> QED BY <3>2, <3>3
  <2>2. CASE p = x
    BY <2>1, <2>2
  <2>3. CASE p # x
    <3>1. Cardinality(sx) = n
      BY <1>0, FS_RemoveElement
    <3>2. sp \in SUBSET S /\ sx \in SUBSET S /\ x \in sp /\ p \in sx
          /\ sp \ {x} = spx /\ sx \ {p} = spx /\ spx \in SUBSET S
      BY <2>1, <2>3
    <3>3. Takes(sp, x) /\ Takes(sx, p)
      BY <1>2, <2>1, <3>1, <3>2
    <3>4. SumFunctionOnSet(f, sp) = f[x] + SumFunctionOnSet(f, spx)
          /\ SumFunctionOnSet(f, sx) = f[p] + SumFunctionOnSet(f, spx)
      BY <3>2, <3>3
    <3>5. f[x] \in Int /\ f[p] \in Int
      BY <2>1
    <3>6. SumFunctionOnSet(f, spx) \in Int
      BY <1>0, <3>2, SumSame DEF SameOn
    <3> HIDE DEF p, sp, spx
    <3> QED BY <2>1, <3>4, <3>5, <3>6
  <2> QED BY <2>2, <2>3
<1>3. Nat \subseteq G
  <2> HIDE DEF G
  <2> QED BY <1>1, <1>2, CountingUp
<1> QED BY <1>0, <1>3

\* Induction over a finite set: what holds of no element, and of one more, holds of all.
LEMMA AddingUp ==
    ASSUME NEW S, IsFiniteSet(S), NEW G, {} \in G,
           \A s \in SUBSET S : s \in G => \A x \in S \ s : s \cup {x} \in G
    PROVE  S \in G
<1> DEFINE N == {n \in Nat : \A s \in SUBSET S : Cardinality(s) = n => s \in G}
<1>0. \A s \in SUBSET S : IsFiniteSet(s) /\ Cardinality(s) \in Nat
  BY FS_Subset, FS_CardinalityType
<1>1. 0 \in N
  BY <1>0, FS_EmptySet
<1>2. ASSUME NEW n \in Nat, n \in N PROVE n + 1 \in N
  <2> SUFFICES ASSUME NEW s \in SUBSET S, Cardinality(s) = n + 1 PROVE s \in G
    OBVIOUS
  <2>1. s # {}
    BY FS_EmptySet
  <2>2. PICK x \in s : TRUE
    BY <2>1
  <2> DEFINE r == s \ {x}
  <2>3. Cardinality(r) = n
    <3>1. IsFiniteSet(s)
      BY <1>0
    <3>2. Cardinality(r) = Cardinality(s) - 1
      BY <2>2, <3>1, FS_RemoveElement
    <3> HIDE DEF r
    <3> QED BY <3>2
  <2>4. r \in SUBSET S /\ x \in S \ r /\ s = r \cup {x}
    OBVIOUS
  <2> HIDE DEF r
  <2>5. r \in G
    BY <1>2, <2>3, <2>4
  <2> QED BY <2>4, <2>5
<1>3. Nat \subseteq N
  <2> HIDE DEF N
  <2> QED BY <1>1, <1>2, CountingUp
<1> QED BY <1>0, <1>3

Ints(f, S) == \A x \in S : f[x] \in Int

LEMMA SumInt ==
    ASSUME NEW S, IsFiniteSet(S), NEW f, Ints(f, S)
    PROVE  SumFunctionOnSet(f, S) \in Int
BY SumSame DEF SameOn, Ints

LEMMA SumAdd ==
    ASSUME NEW S, IsFiniteSet(S), NEW f, Ints(f, S), NEW s \in SUBSET S, NEW x \in S \ s
    PROVE  SumFunctionOnSet(f, s \cup {x}) = f[x] + SumFunctionOnSet(f, s)
<1>1. IsFiniteSet(s \cup {x}) /\ (s \cup {x}) \ {x} = s /\ x \in s \cup {x}
  BY FS_Subset
<1>2. \A y \in s \cup {x} : f[y] \in Int
  BY DEF Ints
<1> QED BY <1>1, <1>2, SumRemove

\* Sums of sums.
LEMMA SumPlus ==
    ASSUME NEW S, IsFiniteSet(S), NEW f, NEW g, NEW h, Ints(f, S), Ints(g, S), Ints(h, S),
           \A x \in S : h[x] = f[x] + g[x]
    PROVE  SumFunctionOnSet(h, S) = SumFunctionOnSet(f, S) + SumFunctionOnSet(g, S)
<1> DEFINE Adds(s) == SumFunctionOnSet(h, s) = SumFunctionOnSet(f, s) + SumFunctionOnSet(g, s)
           G == {s \in SUBSET S : Adds(s)}
<1>1. {} \in G
  BY SumEmpty
<1>2. ASSUME NEW s \in SUBSET S, s \in G, NEW x \in S \ s PROVE s \cup {x} \in G
  <2>1. /\ SumFunctionOnSet(f, s \cup {x}) = f[x] + SumFunctionOnSet(f, s)
        /\ SumFunctionOnSet(g, s \cup {x}) = g[x] + SumFunctionOnSet(g, s)
        /\ SumFunctionOnSet(h, s \cup {x}) = h[x] + SumFunctionOnSet(h, s)
    BY SumAdd
  <2>2. IsFiniteSet(s) /\ Ints(f, s) /\ Ints(g, s) /\ Ints(h, s)
    BY FS_Subset DEF Ints
  <2>3. /\ SumFunctionOnSet(f, s) \in Int /\ SumFunctionOnSet(g, s) \in Int
        /\ f[x] \in Int /\ g[x] \in Int /\ h[x] = f[x] + g[x]
    BY <2>2, SumInt DEF Ints
  <2>4. Adds(s)
    BY <1>2
  <2>5. Adds(s \cup {x})
    BY <2>1, <2>3, <2>4
  <2> QED BY <2>5
<1> HIDE DEF G
<1>3. S \in G
  BY <1>1, <1>2, AddingUp
<1> QED BY <1>3 DEF G

\* Counting is summing.
LEMMA SumCount ==
    ASSUME NEW S, IsFiniteSet(S), NEW P \in SUBSET S, NEW f,
           \A x \in S : f[x] = IF x \in P THEN 1 ELSE 0
    PROVE  SumFunctionOnSet(f, S) = Cardinality(P)
<1> DEFINE Counts(s) == SumFunctionOnSet(f, s) = Cardinality(P \cap s)
           G == {s \in SUBSET S : Counts(s)}
<1>0. Ints(f, S)
  BY DEF Ints
<1>1. {} \in G
  <2>1. P \cap {} = {}
    OBVIOUS
  <2> QED BY <2>1, SumEmpty, FS_EmptySet
<1>2. ASSUME NEW s \in SUBSET S, s \in G, NEW x \in S \ s PROVE s \cup {x} \in G
  <2>1. SumFunctionOnSet(f, s \cup {x}) = f[x] + SumFunctionOnSet(f, s)
    BY <1>0, SumAdd
  <2>2. IsFiniteSet(P \cap s) /\ Cardinality(P \cap s) \in Nat
    BY FS_Subset, FS_CardinalityType
  <2>3. CASE x \in P
    <3>1. P \cap (s \cup {x}) = (P \cap s) \cup {x} /\ x \notin P \cap s
      BY <2>3
    <3>2. Cardinality(P \cap (s \cup {x})) = Cardinality(P \cap s) + 1
      BY <2>2, <3>1, FS_AddElement
    <3>3. f[x] = 1
      BY <2>3
    <3>4. Counts(s \cup {x})
      BY <1>2, <2>1, <2>2, <3>2, <3>3
    <3> QED BY <3>4
  <2>4. CASE x \notin P
    <3>1. P \cap (s \cup {x}) = P \cap s /\ f[x] = 0
      BY <2>4
    <3>2. Counts(s \cup {x})
      BY <1>2, <2>1, <2>2, <3>1
    <3> QED BY <3>2
  <2> QED BY <2>3, <2>4
<1> HIDE DEF G
<1>3. S \in G
  BY <1>1, <1>2, AddingUp
<1>4. P \cap S = P
  OBVIOUS
<1> QED BY <1>3, <1>4 DEF G

\* Two sets without a common element.
LEMMA SumUnion ==
    ASSUME NEW S, IsFiniteSet(S), NEW f, Ints(f, S), NEW A \in SUBSET S, NEW B \in SUBSET S,
           A \cap B = {}
    PROVE  SumFunctionOnSet(f, A \cup B) = SumFunctionOnSet(f, A) + SumFunctionOnSet(f, B)
<1> DEFINE Adds(s) == SumFunctionOnSet(f, A \cup s) = SumFunctionOnSet(f, A) + SumFunctionOnSet(f, s)
           G == {s \in SUBSET B : Adds(s)}
<1>0. IsFiniteSet(A) /\ Ints(f, A) /\ SumFunctionOnSet(f, A) \in Int
  BY FS_Subset, SumInt DEF Ints
<1>1. {} \in G
  <2>1. A \cup {} = A
    OBVIOUS
  <2> QED BY <1>0, <2>1, SumEmpty
<1>2. ASSUME NEW s \in SUBSET B, s \in G, NEW x \in B \ s PROVE s \cup {x} \in G
  <2>1. SumFunctionOnSet(f, s \cup {x}) = f[x] + SumFunctionOnSet(f, s)
    BY SumAdd
  <2>2. A \cup s \in SUBSET S /\ x \in S \ (A \cup s) /\ (A \cup s) \cup {x} = A \cup (s \cup {x})
    OBVIOUS
  <2>3. SumFunctionOnSet(f, A \cup (s \cup {x})) = f[x] + SumFunctionOnSet(f, A \cup s)
    BY <2>2, SumAdd
  <2>4. SumFunctionOnSet(f, s) \in Int /\ f[x] \in Int
    BY FS_Subset, SumInt DEF Ints
  <2>5. Adds(s)
    BY <1>2
  <2>6. Adds(s \cup {x})
    BY <1>0, <2>1, <2>3, <2>4, <2>5
  <2> QED BY <2>6
<1>3. IsFiniteSet(B)
  BY FS_Subset
<1> HIDE DEF G
<1>4. B \in G
  BY <1>1, <1>2, <1>3, AddingUp
<1> QED BY <1>4 DEF G

\* Disjoint parts of a set, each with a sum of its own.
Parts(part, K, S) ==
    /\ \A k \in K : part[k] \in SUBSET S
    /\ \A j, k \in K : j # k => part[j] \cap part[k] = {}

SumsOf(w, f, part, K) == \A k \in K : w[k] = SumFunctionOnSet(f, part[k])

LEMMA SumParts ==
    ASSUME NEW S, IsFiniteSet(S), NEW f, Ints(f, S), NEW K, IsFiniteSet(K),
           NEW part, Parts(part, K, S), NEW w, SumsOf(w, f, part, K)
    PROVE  SumFunctionOnSet(w, K) = SumFunctionOnSet(f, UNION {part[k] : k \in K})
<1> DEFINE U(J) == UNION {part[k] : k \in J}
           Adds(J) == SumFunctionOnSet(w, J) = SumFunctionOnSet(f, U(J))
           G == {J \in SUBSET K : Adds(J)}
<1>0. \A k \in K : SumFunctionOnSet(f, part[k]) \in Int
  BY FS_Subset, SumInt DEF Ints, Parts
<1>1. Ints(w, K)
  BY <1>0 DEF Ints, SumsOf
<1>2. {} \in G
  <2>1. U({}) = {}
    OBVIOUS
  <2> QED BY <2>1, SumEmpty
<1>3. ASSUME NEW J \in SUBSET K, J \in G, NEW k \in K \ J PROVE J \cup {k} \in G
  <2>1. U(J \cup {k}) = U(J) \cup part[k]
    OBVIOUS
  <2>2. U(J) \in SUBSET S /\ part[k] \in SUBSET S
    BY DEF Parts
  <2>3. U(J) \cap part[k] = {}
    BY <1>3 DEF Parts
  <2>4. SumFunctionOnSet(w, J \cup {k}) = w[k] + SumFunctionOnSet(w, J)
    BY <1>1, SumAdd
  <2> HIDE DEF U
  <2>5. SumFunctionOnSet(f, U(J) \cup part[k])
          = SumFunctionOnSet(f, U(J)) + SumFunctionOnSet(f, part[k])
    BY <2>2, <2>3, SumUnion
  <2>6. SumFunctionOnSet(f, U(J)) \in Int
    BY <2>2, FS_Subset, SumInt DEF Ints
  <2>7. Adds(J)
    BY <1>3
  <2>8. Adds(J \cup {k})
    <3>1. w[k] = SumFunctionOnSet(f, part[k]) /\ SumFunctionOnSet(f, part[k]) \in Int
      BY <1>0 DEF SumsOf
    <3>2. SumFunctionOnSet(w, J \cup {k}) = SumFunctionOnSet(f, part[k]) + SumFunctionOnSet(f, U(J))
      BY <2>4, <2>7, <3>1
    <3>3. SumFunctionOnSet(f, U(J \cup {k})) = SumFunctionOnSet(f, U(J)) + SumFunctionOnSet(f, part[k])
      BY <2>1, <2>5
    <3> QED BY <2>6, <3>1, <3>2, <3>3
  <2> QED BY <2>8
<1> HIDE DEF G
<1>4. K \in G
  BY <1>2, <1>3, AddingUp
<1> QED BY <1>4 DEF G

-----------------------------------------------------------------------------
(* The reports. *)

\* The fields of Totals, and what one row adds to each.
SumFields == {"logical_requests", "upstream_attempts", "retries", "successes", "failures", "total"}

Weight(x, field) ==
    CASE field = "logical_requests" -> 1
      [] field = "upstream_attempts" -> Len(x.attempts)
      [] field = "retries" -> x.retries
      [] field = "successes" -> IF x.success THEN 1 ELSE 0
      [] field = "failures" -> IF x.success THEN 0 ELSE 1
      [] field = "total" -> x.total

Weights(field) == [r \in DOMAIN ledger |-> Weight(ledger[r], field)]

LEMMA RetriesInt ==
    ASSUME NEW a \in Seq(BOOLEAN)
    PROVE  /\ Len(a) \in Int /\ RetriesOf(a) \in Int
           /\ Len(a) = RetriesOf(a) + (IF a # <<>> THEN 1 ELSE 0)
<1>1. Len(a) \in Nat
  OBVIOUS
<1>2. CASE a = <<>>
  <2>1. Len(a) = 0
    BY <1>2
  <2> QED
    BY <1>2, <2>1 DEF RetriesOf
<1>3. CASE a # <<>>
  BY <1>1, <1>3 DEF RetriesOf
<1> QED
  BY <1>2, <1>3

LEMMA WeightsInt ==
    ASSUME LedgerRowsInv, NEW field \in SumFields, NEW F \in SUBSET DOMAIN ledger
    PROVE  IsFiniteSet(F) /\ Ints(Weights(field), F)
<1>1. IsFiniteSet(F)
  BY FS_Subset DEF LedgerRowsInv
<1>2. ASSUME NEW r \in F PROVE Weights(field)[r] \in Int
  <2>1. RowCounts(ledger[r])
    BY DEF LedgerRowsInv
  <2>2. Len(ledger[r].attempts) \in Int /\ ledger[r].retries \in Int /\ ledger[r].total \in Int
    BY <2>1, RetriesInt DEF RowCounts
  <2> QED
    BY <2>2 DEF Weights, Weight, SumFields
<1> QED
  BY <1>1, <1>2 DEF Ints

\* Every field of Totals is the sum of what the rows add to it.
LEMMA TotalsAreSums ==
    ASSUME LedgerRowsInv, NEW F \in SUBSET DOMAIN ledger
    PROVE  /\ DOMAIN Totals(F) = SumFields
           /\ \A field \in SumFields : Totals(F)[field] = SumFunctionOnSet(Weights(field), F)
<1> DEFINE all == Totals(F)
           tried == [r \in F |-> Len(ledger[r].attempts)]
           retries == [r \in F |-> ledger[r].retries]
           total == [r \in F |-> ledger[r].total]
           good == {r \in F : ledger[r].success}
           bad == {r \in F : ~ledger[r].success}
<1>1. IsFiniteSet(F) /\ \A field \in SumFields : Ints(Weights(field), F)
  <2>1. \A field \in SumFields : IsFiniteSet(F) /\ Ints(Weights(field), F)
    BY WeightsInt
  <2>2. "total" \in SumFields
    BY DEF SumFields
  <2> QED
    BY <2>1, <2>2
<1>2. /\ DOMAIN all = SumFields
      /\ all.logical_requests = Cardinality(F)
      /\ all.upstream_attempts = SumFunctionOnSet(tried, F)
      /\ all.retries = SumFunctionOnSet(retries, F)
      /\ all.successes = Cardinality(good)
      /\ all.failures = Cardinality(bad)
      /\ all.total = SumFunctionOnSet(total, F)
  BY DEF Totals, SumFunction, SumFields
<1>3. \A r \in F : ledger[r].success \in BOOLEAN
  BY DEF LedgerRowsInv, RowCounts
<1>4. /\ SameOn(Weights("upstream_attempts"), tried, F)
      /\ SameOn(Weights("retries"), retries, F)
      /\ SameOn(Weights("total"), total, F)
  <2>1. \A r \in F : /\ Weights("upstream_attempts")[r] = tried[r]
                     /\ Weights("retries")[r] = retries[r]
                     /\ Weights("total")[r] = total[r]
    BY DEF Weights, Weight
  <2> HIDE DEF tried, retries, total
  <2> QED
    BY <1>1, <2>1 DEF SameOn, Ints, SumFields
<1>5. /\ SumFunctionOnSet(Weights("logical_requests"), F) = Cardinality(F)
      /\ SumFunctionOnSet(Weights("successes"), F) = Cardinality(good)
      /\ SumFunctionOnSet(Weights("failures"), F) = Cardinality(bad)
  <2>1. \A r \in F : /\ Weights("logical_requests")[r] = IF r \in F THEN 1 ELSE 0
                     /\ Weights("successes")[r] = IF r \in good THEN 1 ELSE 0
                     /\ Weights("failures")[r] = IF r \in bad THEN 1 ELSE 0
    BY <1>3 DEF Weights, Weight
  <2>2. good \in SUBSET F /\ bad \in SUBSET F
    OBVIOUS
  <2> HIDE DEF good, bad
  <2> QED
    BY <1>1, <2>1, <2>2, SumCount
<1>6. /\ SumFunctionOnSet(Weights("upstream_attempts"), F) = SumFunctionOnSet(tried, F)
      /\ SumFunctionOnSet(Weights("retries"), F) = SumFunctionOnSet(retries, F)
      /\ SumFunctionOnSet(Weights("total"), F) = SumFunctionOnSet(total, F)
  <2> HIDE DEF tried, retries, total
  <2> QED
    BY <1>1, <1>4, SumSame
<1> HIDE DEF tried, retries, total, good, bad, all
<1>7. \A field \in SumFields : all[field] = SumFunctionOnSet(Weights(field), F)
  BY <1>2, <1>5, <1>6 DEF SumFields
<1> QED
  BY <1>2, <1>7 DEF all

\* The rows of a group.
Members(key, k) == {r \in DOMAIN key : key[r] = k}

\* Every row is in one group, so the groups add up to the whole.
LEMMA GroupsAddUp ==
    ASSUME LedgerRowsInv, NEW F \in SUBSET DOMAIN ledger, NEW key, DOMAIN key = F,
           NEW field \in SumFields
    PROVE  SumOver(GroupBy(key), field) = Totals(F)[field]
<1> DEFINE Kinds == {key[r] : r \in F}
           Group(k) == [group |-> k, sums |-> Totals(Members(key, k))]
           K == {Group(k) : k \in Kinds}
           part == [g \in K |-> Members(key, g.group)]
           w == [g \in K |-> g.sums[field]]
           f == Weights(field)
<1>1. GroupBy(key) = K
  BY DEF GroupBy, Members
<1>2. SumOver(GroupBy(key), field) = SumFunctionOnSet(w, K)
  BY <1>1 DEF SumOver, SumFunction
<1>3. IsFiniteSet(F) /\ Ints(f, F)
  BY WeightsInt
<1>4. \A k \in Kinds : Members(key, k) \in SUBSET F /\ Group(k).group = k
                       /\ Group(k).sums = Totals(Members(key, k))
  BY DEF Members
<1> HIDE DEF Group
<1>5. IsFiniteSet(K)
  <2> DEFINE h == [r \in F |-> Group(key[r])]
  <2>1. h \in Surjection(F, K)
    BY DEF Surjection
  <2> HIDE DEF h, K
  <2> QED
    BY <1>3, <2>1, FS_Surjection
<1>6. \A g \in K : g.group \in Kinds /\ g = Group(g.group)
  BY <1>4
<1>7. Parts(part, K, F)
  <2>1. \A g \in K : part[g] = Members(key, g.group) /\ part[g] \in SUBSET F
    BY <1>4, <1>6
  <2>2. \A g, h \in K : g # h => g.group # h.group
    BY <1>6
  <2> HIDE DEF part, K
  <2> QED
    BY <2>1, <2>2 DEF Parts, Members
<1>8. SumsOf(w, f, part, K)
  <2> SUFFICES ASSUME NEW g \in K PROVE w[g] = SumFunctionOnSet(f, part[g])
    BY DEF SumsOf
  <2>1. g.group \in Kinds /\ Members(key, g.group) \in SUBSET F
        /\ g.sums = Totals(Members(key, g.group))
    BY <1>4, <1>6
  <2>2. w[g] = g.sums[field] /\ part[g] = Members(key, g.group)
    OBVIOUS
  <2> HIDE DEF w, part, K, Kinds, f
  <2> QED
    BY <2>1, <2>2, TotalsAreSums DEF f
<1>9. UNION {part[g] : g \in K} = F
  <2>1. \A r \in F : Group(key[r]) \in K /\ r \in part[Group(key[r])]
    BY <1>4 DEF Members
  <2>2. \A g \in K : part[g] \in SUBSET F
    BY <1>7 DEF Parts
  <2> HIDE DEF part, K
  <2> QED
    BY <2>1, <2>2
<1>10. SumFunctionOnSet(w, K) = SumFunctionOnSet(f, F)
  <2> HIDE DEF w, part, K, f
  <2> QED
    BY <1>3, <1>5, <1>7, <1>8, <1>9, SumParts
<1> QED
  BY <1>2, <1>10, TotalsAreSums DEF f

\* Every attempt but the first of a request is a retry.
LEMMA AttemptsAddUp ==
    ASSUME LedgerRowsInv, NEW F \in SUBSET DOMAIN ledger
    PROVE  Totals(F).upstream_attempts =
               Totals(F).retries + Cardinality({r \in F : ledger[r].attempts # <<>>})
<1> DEFINE tried == {r \in F : ledger[r].attempts # <<>>}
           first == [r \in F |-> IF r \in tried THEN 1 ELSE 0]
           a == Weights("upstream_attempts")
           b == Weights("retries")
<1>1. IsFiniteSet(F) /\ Ints(a, F) /\ Ints(b, F)
  BY WeightsInt DEF SumFields
<1>2. Ints(first, F) /\ \A r \in F : first[r] = IF r \in tried THEN 1 ELSE 0
  BY DEF Ints
<1>3. \A r \in F : a[r] = b[r] + first[r]
  <2> SUFFICES ASSUME NEW r \in F PROVE a[r] = b[r] + first[r]
    OBVIOUS
  <2>1. RowCounts(ledger[r])
    BY DEF LedgerRowsInv
  <2>2. Len(ledger[r].attempts) = ledger[r].retries + (IF ledger[r].attempts # <<>> THEN 1 ELSE 0)
    BY <2>1, RetriesInt DEF RowCounts
  <2>3. a[r] = Len(ledger[r].attempts) /\ b[r] = ledger[r].retries
    BY DEF Weights, Weight
  <2>4. first[r] = IF ledger[r].attempts # <<>> THEN 1 ELSE 0
    OBVIOUS
  <2> QED
    BY <2>2, <2>3, <2>4
<1>4. tried \in SUBSET F
  OBVIOUS
<1>5. Totals(F).upstream_attempts = SumFunctionOnSet(a, F)
      /\ Totals(F).retries = SumFunctionOnSet(b, F)
  BY TotalsAreSums DEF SumFields
<1> HIDE DEF a, b, first, tried
<1>6. SumFunctionOnSet(first, F) = Cardinality(tried)
  BY <1>1, <1>2, <1>4, SumCount
<1>7. SumFunctionOnSet(a, F) = SumFunctionOnSet(b, F) + SumFunctionOnSet(first, F)
  BY <1>1, <1>2, <1>3, SumPlus
<1> QED
  BY <1>5, <1>6, <1>7 DEF tried

\* An export that is not refused holds every row.
LEMMA ExportComplete ==
    ASSUME LedgerRowsInv, NEW f, ~Export(f).refused
    PROVE  ToSet(Export(f).rows) = Filtered(f)
<1> DEFINE F == Filtered(f)
           limit == ExportLimit + 1
           data == Newest(F, limit)
           size == IF Cardinality(F) > limit THEN limit ELSE Cardinality(F)
<1>1. F \in SUBSET DOMAIN ledger /\ limit \in Nat /\ ExportLimit \in Nat
  BY LedgerAssumption DEF Filtered
<1>2. Export(f) = IF Len(data) > ExportLimit THEN Refused ELSE [refused |-> FALSE, rows |-> data]
  BY DEF Export
<1> HIDE DEF F, data
<1>3. ~(Len(data) > ExportLimit) /\ Export(f).rows = data
  BY <1>2 DEF Refused
<1>4. Cardinality(F) \in Nat /\ \A r \in F : Ahead(F, r) \in 0..(Cardinality(F) - 1)
  BY <1>1, AheadRanks
<1>5. /\ Len(data) = size /\ DOMAIN data = 1..size
      /\ \A i \in 1..size : data[i] \in F
      /\ \A e \in F : Ahead(F, e) < size => \E i \in 1..size : data[i] = e
  BY <1>1, NewestFacts DEF data
<1>6. size = Cardinality(F)
  BY <1>1, <1>3, <1>4, <1>5
<1>7. \A e \in F : Ahead(F, e) < size
  BY <1>4, <1>6
<1> HIDE DEF size
<1>8. ToSet(data) = F
  BY <1>5, <1>7 DEF ToSet
<1> QED
  BY <1>3, <1>8 DEF F

\* The three reports and the export of one filter describe the same rows, for
\* any number of rows, any grouping and any limit (usage_aggregate,
\* usage_timeseries, usage_breakdown, usage_export).
THEOREM ReportsAlwaysAgree == LedgerSpec => []ReportsAgree
<1>1. ASSUME LedgerRowsInv, NEW f
      PROVE  LET all    == UsageAggregate(f)
                 export == Export(f)
                 tried  == {r \in Filtered(f) : ledger[r].attempts # <<>>}
             IN  /\ \A d \in Dimensions :
                     LET answer == UsageAnswer(f, d) IN
                     \A field \in DOMAIN all :
                         /\ SumOver(answer.timeseries, field) = answer.aggregate[field]
                         /\ SumOver(answer.breakdown, field) = answer.aggregate[field]
                 /\ all.upstream_attempts = all.retries + Cardinality(tried)
                 /\ export.refused \/
                     /\ ToSet(export.rows) = Filtered(f)
                     /\ all.total = SumFunction([r \in ToSet(export.rows) |-> ledger[r].total])
  <2> DEFINE F == Filtered(f)
             all == UsageAggregate(f)
  <2>1. F \in SUBSET DOMAIN ledger /\ all = Totals(F)
    BY DEF Filtered, UsageAggregate
  <2>2. DOMAIN all = SumFields
    BY <1>1, <2>1, TotalsAreSums
  <2>3. ASSUME NEW d \in Dimensions, NEW field \in SumFields
        PROVE  /\ SumOver(UsageAnswer(f, d).timeseries, field) = all[field]
               /\ SumOver(UsageAnswer(f, d).breakdown, field) = all[field]
               /\ UsageAnswer(f, d).aggregate = all
    <3> DEFINE bucket == [r \in F |-> ledger[r].created_at \div BucketSize]
               kind == [r \in F |-> DimensionOf(ledger[r], d)]
    <3>1. DOMAIN bucket = F /\ DOMAIN kind = F
      OBVIOUS
    <3>2. /\ UsageAnswer(f, d).timeseries = GroupBy(bucket)
          /\ UsageAnswer(f, d).breakdown = GroupBy(kind)
          /\ UsageAnswer(f, d).aggregate = all
      BY DEF UsageAnswer, UsageTimeseries, UsageBreakdown
    <3> HIDE DEF bucket, kind, F, all
    <3> QED
      BY <1>1, <2>1, <3>1, <3>2, GroupsAddUp
  <2>4. all.upstream_attempts = all.retries + Cardinality({r \in F : ledger[r].attempts # <<>>})
    BY <1>1, <2>1, AttemptsAddUp
  <2>5. ASSUME ~Export(f).refused
        PROVE  /\ ToSet(Export(f).rows) = F
               /\ all.total = SumFunction([r \in ToSet(Export(f).rows) |-> ledger[r].total])
    <3>1. ToSet(Export(f).rows) = F
      BY <1>1, <2>5, ExportComplete
    <3>2. all.total = SumFunction([r \in F |-> ledger[r].total])
      BY <2>1 DEF Totals
    <3> QED
      BY <3>1, <3>2
  <2> QED
    BY <2>2, <2>3, <2>4, <2>5
<1>2. LedgerInv => ReportsAgree
  BY <1>1 DEF LedgerInv, ReportsAgree
<1> QED
  BY <1>2, LedgerInvariance, PTL
=============================================================================
