-------------------------- MODULE RetentionCleanup --------------------------
(***************************************************************************)
(* One retention cleanup operation (src/infra/ops.rs): its row in           *)
(* retention_cleanup_runs, the invocations of POST /cleanup and /retry that *)
(* work on it round by round, the cancel request, and the rows the rounds   *)
(* delete.                                                                  *)
(*                                                                          *)
(* A round is a SERIALIZABLE transaction.  Its snapshot is taken by the     *)
(* statement that waits for the advisory lock, and the run row is locked    *)
(* after it: PostgreSQL refuses that lock when the row was updated since    *)
(* the snapshot.  From the row lock to the commit no other writer of the    *)
(* row moves, so the rest of the transaction is one step.                   *)
(*                                                                          *)
(* The cut-offs are fixed when the operation is created and rows are        *)
(* stamped with the clock, so no row becomes a candidate later; rows are    *)
(* the ones present at the start.                                           *)
(***************************************************************************)
EXTENDS Integers, FiniteSets

CONSTANTS
    Events, Attempts,        \* rows of usage_events, usage_event_attempts
    Owner,                   \* the event each attempt refers to
    Others,                  \* rows of the tables without a reference
    Expired,                 \* the rows older than their policy's cut-off
    PolicyTables,            \* the enabled policies an update may leave
    Selections,              \* policy_keys of a request; all of them when absent
    Invokers,                \* admin requests working on the operation
    BatchSize, MaxBatches,   \* options of the operation
    MaxFaults, MaxCancels, MaxUpdates   \* bounds of the model

\* RETENTION_KEYS; the tables without a reference are one.
PolicyKeys == {"usage_attempts", "usage_events", "other"}

ASSUME OptionsAssumption ==
    /\ IsFiniteSet(Events) /\ IsFiniteSet(Attempts) /\ IsFiniteSet(Others)
    /\ Owner \in [Attempts -> Events]
    /\ Expired \subseteq Events \cup Attempts \cup Others
    /\ PolicyTables \subseteq SUBSET PolicyKeys
    /\ Selections \subseteq SUBSET PolicyKeys
    /\ BatchSize \in Nat \ {0} /\ MaxBatches \in Nat \ {0}
    /\ MaxFaults \in Nat /\ MaxCancels \in Nat /\ MaxUpdates \in Nat

VARIABLES
    policies,   \* retention_policies: the enabled ones
    loaded,     \* what an invocation's load_policy_map has read
    status,     \* retention_cleanup_runs.status, "none" without a row
    cancelFlag, \* retention_cleanup_runs.cancel_requested
    policy,     \* policy_snapshot: the enabled policies
    dryRun,     \* dry_run
    counted,    \* deleted_usage_events and deleted_usage_attempts
    events, attempts, others,  \* the rows that are left
    pc,         \* where each invocation is
    rounds,     \* rounds of each invocation
    stale,      \* the run row was updated since the round's snapshot
    removed,    \* the last round deleted something
    more,       \* has_more
    faults, cancels, updates   \* bounds

admin == <<policies, loaded, updates>>
row == <<status, cancelFlag, policy, dryRun, counted>>
rows == <<events, attempts, others>>
local == <<rounds, removed, more>>
bounds == <<faults, cancels>>
vars == <<row, rows, pc, stale, local, bounds, admin>>

-----------------------------------------------------------------------------
Statuses == {"none", "running", "cancel_requested", "cancelled", "completed",
             "failed"}

Ended == {"completed", "failed", "cancelled"}

Resumable == {"failed", "cancelled", "cancel_requested"}

Steps == {"idle", "inserting", "preparing", "loop", "snapshot", "committed",
          "counted", "completing", "failing"}

Init ==
    /\ status = "none" /\ cancelFlag = FALSE
    /\ policy = {} /\ dryRun = FALSE
    /\ counted = [events |-> 0, attempts |-> 0]
    /\ events = Events /\ attempts = Attempts /\ others = Others
    /\ pc = [i \in Invokers |-> "idle"]
    /\ rounds = [i \in Invokers |-> 0]
    /\ stale = [i \in Invokers |-> FALSE]
    /\ removed = [i \in Invokers |-> FALSE]
    /\ more = [i \in Invokers |-> TRUE]
    /\ policies = PolicyKeys /\ loaded = [i \in Invokers |-> {}]
    /\ faults = 0 /\ cancels = 0 /\ updates = 0

Goto(i, from, to) == pc[i] = from /\ pc' = [pc EXCEPT ![i] = to]

\* An UPDATE of the run row: every snapshot taken before is stale.
Touch == stale' = [i \in Invokers |-> TRUE]

\* UPDATE ... SET status = to WHERE status IN from.
MoveStatus(from, to) ==
    IF status \in from
    THEN status' = to /\ Touch
    ELSE UNCHANGED <<status, stale>>

-----------------------------------------------------------------------------
(* What may be deleted                                                     *)

\* Mutant: the cut-off of the event is enough.
UnguardedExpiredEvents(evs, atts) == evs \cap Expired

\* attempt_guard: an expired event stays while it has an attempt that may not
\* be deleted: an unexpired one (EligibleBefore), or any (KeepAll) when the
\* attempts policy is off.
ExpiredEvents(evs, atts) ==
    {e \in evs \cap Expired :
        \A a \in atts : Owner[a] = e =>
            "usage_attempts" \in policy /\ a \in Expired}

EligibleAttempts == IF "usage_attempts" \in policy THEN attempts \cap Expired ELSE {}
EligibleOthers == IF "other" \in policy THEN others \cap Expired ELSE {}

\* count_candidates
Candidates ==
    EligibleAttempts \cup EligibleOthers \cup
    (IF "usage_events" \in policy THEN ExpiredEvents(events, attempts) ELSE {})

\* ... ORDER BY id LIMIT batch_size, whatever the order of the ids.
Batch(S) ==
    {T \in SUBSET S : \/ Cardinality(T) = BatchSize
                      \/ T = S /\ Cardinality(S) < BatchSize}

-----------------------------------------------------------------------------
(* start_cleanup and retry_cleanup                                         *)

\* load_policy_map, and what policy_snapshot keeps of it for the rounds.  A
\* policy that is disabled or not selected deletes nothing; one whose
\* retention_days reach further back than every row is the same as disabled.
LoadPolicyMap(selected) == selected \cap policies

\* update_retention_policies: one transaction for all the policies it names.
UpdateRetentionPolicies(enabled) ==
    /\ updates < MaxUpdates /\ updates' = updates + 1
    /\ policies' = enabled
    /\ UNCHANGED <<row, rows, pc, stale, local, bounds, loaded>>

\* The policies are read before get_cleanup on the given operation id.  A
\* failed run is prepared first; a request with other options than the run's
\* is refused and changes nothing.
Start(i, selected) ==
    /\ Goto(i, "idle",
            CASE status = "none" -> "inserting"
              [] status \in {"completed", "cancelled"} -> "idle"
              [] status = "failed" -> "preparing"
              [] OTHER -> "loop")
    /\ loaded' = [loaded EXCEPT ![i] =
                     IF status = "none" THEN LoadPolicyMap(selected) ELSE {}]
    /\ rounds' = [rounds EXCEPT ![i] = 0]
    /\ UNCHANGED <<row, rows, stale, removed, more, bounds, policies, updates>>

\* INSERT ... ON CONFLICT (id) DO NOTHING, which fixes policies and cut-offs.
\* After a conflict the run that is there is read again, and refused when it
\* has other options.
Insert(i, dry) ==
    /\ Goto(i, "inserting",
            IF status \in {"completed", "cancelled"} \/ (status # "none" /\ dry # dryRun)
            THEN "idle" ELSE "loop")
    /\ IF status = "none"
       THEN status' = "running" /\ policy' = loaded[i] /\ dryRun' = dry
       ELSE UNCHANGED <<status, policy, dryRun>>
    /\ loaded' = [loaded EXCEPT ![i] = {}]
    /\ UNCHANGED <<cancelFlag, counted, rows, stale, local, bounds, policies, updates>>

\* retry_cleanup: only a completed run is left alone.
Retry(i) ==
    /\ status \notin {"none", "completed"}
    /\ Goto(i, "idle", "preparing")
    /\ rounds' = [rounds EXCEPT ![i] = 0]
    /\ UNCHANGED <<row, rows, stale, removed, more, bounds, admin>>

\* prepare_cleanup_retry
Prepare(i) ==
    /\ Goto(i, "preparing", "loop")
    /\ MoveStatus(Resumable, "running")
    /\ cancelFlag' = (cancelFlag /\ status \notin Resumable)
    /\ UNCHANGED <<policy, dryRun, counted, rows, local, bounds, admin>>

-----------------------------------------------------------------------------
(* run_cleanup and cleanup_round                                           *)

\* finish_dry_run counts and completes; an error of it is not recorded.
FinishDryRun(i) ==
    /\ dryRun
    /\ Goto(i, "loop", "idle")
    /\ MoveStatus(Statuses \ {"completed", "cancelled"}, "completed")
    /\ UNCHANGED <<cancelFlag, policy, dryRun, counted, rows, local, bounds, admin>>

\* The bound of an invocation; work may be left pending.
OutOfRounds(i) ==
    /\ ~dryRun /\ rounds[i] = MaxBatches
    /\ Goto(i, "loop", "idle")
    /\ UNCHANGED <<row, rows, stale, local, bounds, admin>>

TakeSnapshot(i) ==
    /\ ~dryRun /\ rounds[i] < MaxBatches
    /\ Goto(i, "loop", "snapshot")
    /\ stale' = [stale EXCEPT ![i] = FALSE]
    /\ UNCHANGED <<row, rows, local, bounds, admin>>

\* SELECT ... FOR UPDATE of a row that changed since the snapshot.
Conflict(i) ==
    /\ stale[i]
    /\ Goto(i, "snapshot", "failing")
    /\ UNCHANGED <<row, rows, stale, local, bounds, admin>>

\* The run has ended: nothing is deleted and the loop breaks.
RoundFindsEnd(i) ==
    /\ ~stale[i] /\ status \in Ended
    /\ Goto(i, "snapshot", "idle")
    /\ UNCHANGED <<row, rows, stale, local, bounds, admin>>

RoundCancels(i) ==
    /\ ~stale[i] /\ status \notin Ended
    /\ cancelFlag \/ status = "cancel_requested"
    /\ Goto(i, "snapshot", "idle")
    /\ status' = "cancelled" /\ Touch
    /\ UNCHANGED <<cancelFlag, policy, dryRun, counted, rows, local, bounds, admin>>

\* Mutant: every batch is taken to be full.
DeleteBatchCountsSize(i, gone, goneEvents, goneOthers) ==
    /\ gone \in Batch(EligibleAttempts)
    /\ goneEvents \in IF "usage_events" \in policy
                      THEN Batch(ExpiredEvents(events, attempts \ gone)) ELSE {{}}
    /\ goneOthers \in Batch(EligibleOthers)
    /\ events' = events \ goneEvents
    /\ attempts' = {a \in attempts \ gone : Owner[a] \notin goneEvents}
    /\ others' = others \ goneOthers
    /\ removed' = [removed EXCEPT ![i] = gone \cup goneEvents \cup goneOthers # {}]
    /\ counted' = [events |-> counted.events + BatchSize,
                   attempts |-> counted.attempts + BatchSize]

\* Deletes the batches, the attempts first.  The foreign key removes the
\* attempts of a deleted event with it; they are not in the counters.
DeleteBatch(i, gone, goneEvents, goneOthers) ==
    /\ gone \in Batch(EligibleAttempts)
    /\ goneEvents \in IF "usage_events" \in policy
                      THEN Batch(ExpiredEvents(events, attempts \ gone)) ELSE {{}}
    /\ goneOthers \in Batch(EligibleOthers)
    /\ events' = events \ goneEvents
    /\ attempts' = {a \in attempts \ gone : Owner[a] \notin goneEvents}
    /\ others' = others \ goneOthers
    /\ removed' = [removed EXCEPT ![i] = gone \cup goneEvents \cup goneOthers # {}]
    /\ counted' = [events |-> counted.events + Cardinality(goneEvents),
                   attempts |-> counted.attempts + Cardinality(gone)]

RoundDeletes(i) ==
    /\ ~stale[i] /\ status = "running" /\ ~cancelFlag
    /\ Goto(i, "snapshot", "committed")
    /\ \E gone \in SUBSET attempts, goneEvents \in SUBSET events,
          goneOthers \in SUBSET others : DeleteBatch(i, gone, goneEvents, goneOthers)
    /\ rounds' = [rounds EXCEPT ![i] = @ + 1]
    /\ Touch
    /\ UNCHANGED <<status, cancelFlag, policy, dryRun, more, bounds, admin>>

\* Mutant: has_more counts the events that must wait for their attempts.
CountIgnoresGuard(i) ==
    /\ Goto(i, "committed", "counted")
    /\ more' = [more EXCEPT ![i] = Candidates # {} \/ events \cap Expired # {}]
    /\ UNCHANGED <<row, rows, stale, rounds, removed, bounds, admin>>

\* Mutant: has_more forgets the tables that come after the attempts.
CountAttemptsOnly(i) ==
    /\ Goto(i, "committed", "counted")
    /\ more' = [more EXCEPT ![i] = EligibleAttempts # {}]
    /\ UNCHANGED <<row, rows, stale, rounds, removed, bounds, admin>>

\* count_candidates, after the commit and without a lock.
Count(i) ==
    /\ Goto(i, "committed", "counted")
    /\ more' = [more EXCEPT ![i] = Candidates # {}]
    /\ UNCHANGED <<row, rows, stale, rounds, removed, bounds, admin>>

\* A round that deleted nothing ends the loop.
AfterRound(i) == IF removed[i] THEN "loop" ELSE "idle"

\* has_more is written to the progress of a running run.
ReportMore(i) ==
    /\ Goto(i, "counted", IF more[i] THEN AfterRound(i) ELSE "completing")
    /\ MoveStatus({"running"}, "running")
    /\ UNCHANGED <<cancelFlag, policy, dryRun, counted, rows, local, bounds, admin>>

Complete(i) ==
    /\ Goto(i, "completing", AfterRound(i))
    /\ MoveStatus({"running"}, "completed")
    /\ UNCHANGED <<cancelFlag, policy, dryRun, counted, rows, local, bounds, admin>>

\* mark_cleanup_failed
MarkFailed(i) ==
    /\ Goto(i, "failing", "idle")
    /\ MoveStatus(Statuses \ {"completed", "cancelled"}, "failed")
    /\ UNCHANGED <<cancelFlag, policy, dryRun, counted, rows, local, bounds, admin>>

-----------------------------------------------------------------------------
(* Faults and cancel                                                       *)

\* A statement of a round fails; the transaction, if one is open, rolls back.
Fault(i) ==
    /\ faults < MaxFaults /\ faults' = faults + 1
    /\ pc[i] \in {"snapshot", "committed", "counted", "completing"}
    /\ pc' = [pc EXCEPT ![i] = "failing"]
    /\ UNCHANGED <<row, rows, stale, local, cancels, admin>>

\* The process or the client of the request goes away, or a statement outside
\* the loop, mark_cleanup_failed included, fails.
Abandon(i) ==
    /\ faults < MaxFaults /\ faults' = faults + 1
    /\ pc[i] # "idle"
    /\ pc' = [pc EXCEPT ![i] = "idle"]
    /\ UNCHANGED <<row, rows, stale, local, cancels, admin>>

\* cancel_cleanup
Cancel ==
    /\ cancels < MaxCancels /\ cancels' = cancels + 1
    /\ status \notin Ended \cup {"none"}
    /\ status' = "cancel_requested" /\ cancelFlag' = TRUE /\ Touch
    /\ UNCHANGED <<policy, dryRun, counted, rows, pc, local, faults, admin>>

Invoke(i) == (\E selected \in Selections : Start(i, selected)) \/ Retry(i)

Work(i) ==
    \/ \E dry \in BOOLEAN : Insert(i, dry)
    \/ Prepare(i)
    \/ FinishDryRun(i) \/ OutOfRounds(i) \/ TakeSnapshot(i)
    \/ Conflict(i) \/ RoundFindsEnd(i) \/ RoundCancels(i) \/ RoundDeletes(i)
    \/ Count(i) \/ ReportMore(i) \/ Complete(i) \/ MarkFailed(i)

Run ==
    \/ Cancel
    \/ \E i \in Invokers : Invoke(i) \/ Work(i) \/ Fault(i) \/ Abandon(i)

Next ==
    \/ Run
    \/ \E enabled \in PolicyTables : UpdateRetentionPolicies(enabled)

Spec == Init /\ [][Next]_vars

\* An invocation that runs goes on; nobody has to start, retry or cancel.
FairSpec == Spec /\ \A i \in Invokers : WF_vars(Work(i))

-----------------------------------------------------------------------------
(* Properties                                                              *)

TypeOK ==
    /\ status \in Statuses
    /\ cancelFlag \in BOOLEAN /\ dryRun \in BOOLEAN
    /\ policy \in SUBSET PolicyKeys /\ policies \in SUBSET PolicyKeys
    /\ loaded \in [Invokers -> SUBSET PolicyKeys]
    /\ counted \in [events : Nat, attempts : Nat]
    /\ events \subseteq Events /\ attempts \subseteq Attempts /\ others \subseteq Others
    /\ pc \in [Invokers -> Steps]
    /\ rounds \in [Invokers -> 0..MaxBatches]
    /\ stale \in [Invokers -> BOOLEAN]
    /\ removed \in [Invokers -> BOOLEAN]
    /\ more \in [Invokers -> BOOLEAN]
    /\ faults \in 0..MaxFaults /\ cancels \in 0..MaxCancels
    /\ updates \in 0..MaxUpdates

\* Retention is kept by every path, the cascade of the foreign key included:
\* what has not expired is there, and without a policy for attempts so is every
\* attempt, whatever was deleted among the events.
UnexpiredKept ==
    /\ Events \ Expired \subseteq events
    /\ Others \ Expired \subseteq others
    /\ Attempts \ Expired \subseteq attempts
    /\ "usage_attempts" \notin policy => attempts = Attempts

\* The counters of the run agree with the tables through concurrent
\* invocations, rollbacks and crashes: each deleted event is counted once, and
\* no attempt is counted that is still there.
CountersAgree ==
    /\ counted.events + Cardinality(events) = Cardinality(Events)
    /\ counted.attempts + Cardinality(attempts) <= Cardinality(Attempts)

\* A completed run left nothing to delete, though it counts outside of the
\* transaction that deletes and another invocation may work at the same time.
CompletedIsClean == status = "completed" /\ ~dryRun => Candidates = {}

\* A run that may delete rows carries no cancel flag of an earlier life: the
\* next round after a retry would end it again.
NoStaleCancel == status = "running" => ~cancelFlag

\* completed is final: no retry, cancel or late failure of another invocation
\* takes the run out of it.
CompletedIsFinal == [][status = "completed" => status' = "completed"]_vars

\* Rows disappear only while the run is running: nothing is deleted for a run
\* that was cancelled, failed or completed, or that is asked to cancel.
DeletesOnlyRunning == [][rows' # rows => status = "running"]_vars

\* With one invocation at a time, repeated until it is over, the run comes to
\* an end: no round that finds nothing to delete leaves it running.
CleanupEnds ==
    (\E i \in Invokers :
        /\ <>[](\A j \in Invokers \ {i} : pc[j] = "idle")
        /\ []<>(pc[i] # "idle"))
    => <>(status \in {"completed", "cancelled"})

=============================================================================
