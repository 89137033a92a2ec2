---------------------------- MODULE AccountHealth ----------------------------
(***************************************************************************)
(* The persisted health row of one upstream account and the circuit        *)
(* breaker built on it (src/infra/health.rs, src/infra/db/health.rs), with *)
(* the operator transitions of the control plane that reset the row        *)
(* (src/control_plane/repository.rs, accounts.rs, sources.rs).             *)
(*                                                                         *)
(* A finished upstream request or probe is an observer.  It reads the      *)
(* clock first, then starts the SELECT ... FOR UPDATE OF a statement, and  *)
(* is granted the row lock some time later; other observers, operators and *)
(* the clock move in between.  The statement joins the source row without  *)
(* locking it, so the source flag it sees is the one of the statement's    *)
(* snapshot, while the account row is re-read once the lock is granted.    *)
(*                                                                         *)
(* Health rows of different accounts never interact (one row lock each),   *)
(* so one account and its source are modelled.                             *)
(***************************************************************************)
EXTENDS Integers, FiniteSets

CONSTANTS
    Observers,         \* concurrent finished requests / probes of the account
    Cooldown,          \* HealthConfig.cooldown
    MaxCooldown,       \* HealthConfig.max_cooldown
    StaleAfter,        \* HealthConfig.stale_after
    FailureThreshold,  \* HealthConfig.failure_threshold
    FailureWindow,     \* HealthConfig.failure_window
    CountMax,          \* i32::MAX, where the stored counter saturates
    MaxTime            \* bound on the modelled clock

(* What HealthConfig::normalized guarantees, plus a counter wide enough to *)
(* hold the threshold.                                                     *)
ASSUME ConfigAssumption ==
    /\ Cooldown \in Nat \ {0}
    /\ MaxCooldown \in Nat /\ MaxCooldown >= Cooldown
    /\ StaleAfter \in Nat \ {0}
    /\ FailureThreshold \in Nat \ {0}
    /\ FailureWindow \in Nat \ {0}
    /\ CountMax \in Nat /\ CountMax >= FailureThreshold
    /\ MaxTime \in Nat

VARIABLES
    now,            \* HealthClock::now, in units of the configured durations
    sourceEnabled,  \* sources.enabled of the account's source
    row,            \* the health columns of the accounts row
    obs,            \* what each observer carries
    lastEvent       \* status of the newest account_health_events row

vars == <<now, sourceEnabled, row, obs, lastEvent>>

-----------------------------------------------------------------------------
NoTime == -1    \* SQL NULL in a timestamp column

Times == Nat \cup {NoTime}

Statuses == {"unknown", "healthy", "unhealthy", "cooling_down", "disabled"}

Row == [exists: BOOLEAN, enabled: BOOLEAN, status: Statuses, failures: Nat,
        windowStart: Times, cooldownUntil: Times, updatedAt: Times]

Observation == [phase: {"idle", "observed", "locking"},
                kind: {"failure", "success"}, at: Nat, sourceSeen: BOOLEAN]

Idle == [phase |-> "idle", kind |-> "success", at |-> 0, sourceSeen |-> FALSE]

Least(a, b) == IF a <= b THEN a ELSE b

-----------------------------------------------------------------------------
(* Backoff, staleness and the derived health                               *)

\* base << (n-1), the shift capped at 63.
Shifted(n) == Cooldown * 2^Least(n - 1, 63)

\* exponential_backoff: the shifted base clamped to the maximum, nothing for
\* n = 0.
ExponentialBackoff(n) ==
    IF n = 0 THEN 0
    ELSE IF Shifted(n) \in 0..MaxCooldown THEN Shifted(n) ELSE MaxCooldown

Stale(r, t) == r.updatedAt = NoTime \/ t - r.updatedAt >= StaleAfter

CooldownActive(r, t) == r.cooldownUntil > t

\* AccountHealth.available of health_from_row, FALSE without a row
\* (is_available, get_health).
Available(r, src, t) ==
    /\ r.exists /\ r.enabled /\ src
    /\ ~CooldownActive(r, t) \/ Stale(r, t)

\* AccountHealth.status of health_from_row.
Status(r, src, t) ==
    CASE ~r.exists -> "unknown"
      [] r.exists /\ ~(r.enabled /\ src) -> "disabled"
      [] r.exists /\ r.enabled /\ src ->
           IF Stale(r, t) THEN "stale"
           ELSE IF CooldownActive(r, t) THEN "cooling_down"
           ELSE IF r.status = "healthy" THEN "healthy"
           ELSE IF r.status \in {"unhealthy", "cooling_down"} \/ r.failures > 0
                THEN "unhealthy" ELSE "unknown"

-----------------------------------------------------------------------------
(* Transitions of the row                                                  *)

\* Mutant: a window, once started, never elapses.
WindowNeverElapses(r, at) == r.windowStart = NoTime

\* A window that never started, has elapsed, or starts after the observation
\* (a negative span does not convert to std::time::Duration) is expired.
WindowExpired(r, at) ==
    \/ r.windowStart = NoTime
    \/ at < r.windowStart
    \/ at - r.windowStart > FailureWindow

\* Mutant: below the threshold the old cooldown is left in place.
AfterFailureKeepsCooldown(r, at) ==
    LET failures == IF WindowExpired(r, at) THEN 1 ELSE r.failures + 1
        opened   == failures >= FailureThreshold
    IN IF CooldownActive(r, at) THEN [r EXCEPT !.updatedAt = at]
       ELSE [r EXCEPT
               !.status = IF opened THEN "cooling_down" ELSE "unhealthy",
               !.failures = Least(failures, CountMax),
               !.windowStart = IF WindowExpired(r, at) THEN at ELSE @,
               !.cooldownUntil =
                   IF opened
                   THEN at + ExponentialBackoff(failures - FailureThreshold + 1)
                   ELSE @,
               !.updatedAt = at]

\* Mutant: a failure during an active cooldown extends it.
AfterFailureExtends(r, at) ==
    LET failures == IF WindowExpired(r, at) THEN 1 ELSE r.failures + 1
        opened   == failures >= FailureThreshold
    IN [r EXCEPT
          !.status = IF opened THEN "cooling_down" ELSE "unhealthy",
          !.failures = Least(failures, CountMax),
          !.windowStart = IF WindowExpired(r, at) THEN at ELSE @,
          !.cooldownUntil =
              IF opened
              THEN at + ExponentialBackoff(failures - FailureThreshold + 1)
              ELSE NoTime,
          !.updatedAt = at]

\* record_account_health_failure_inner once the row is locked and enabled.
AfterFailure(r, at) ==
    LET active   == CooldownActive(r, at)
        expired  == WindowExpired(r, at)
        failures == IF active THEN r.failures
                    ELSE IF expired THEN 1 ELSE r.failures + 1
        opened   == ~active /\ failures >= FailureThreshold
    IN [r EXCEPT
          !.status = IF active \/ opened THEN "cooling_down" ELSE "unhealthy",
          !.failures = Least(failures, CountMax),
          !.windowStart = IF ~active /\ expired THEN at ELSE @,
          !.cooldownUntil =
              IF active THEN @
              ELSE IF opened
                   THEN at + ExponentialBackoff(failures - FailureThreshold + 1)
                   ELSE NoTime,
          !.updatedAt = at]

\* record_account_health_success_inner once the row is locked and enabled.
AfterSuccess(r, at) ==
    [r EXCEPT !.status = "healthy", !.failures = 0, !.windowStart = NoTime,
              !.cooldownUntil = NoTime, !.updatedAt = at]

\* The UPDATE of apply_manual_health_transition.
ManualTransition(r, enabled, at) ==
    [r EXCEPT !.status = IF enabled THEN "unknown" ELSE "disabled",
              !.failures = 0, !.windowStart = NoTime,
              !.cooldownUntil = NoTime, !.updatedAt = at]

\* A freshly inserted row; account_updated_at stands in for the missing
\* health_updated_at.
NewRow(at) ==
    [exists |-> TRUE, enabled |-> TRUE, status |-> "unknown", failures |-> 0,
     windowStart |-> NoTime, cooldownUntil |-> NoTime, updatedAt |-> at]

NoRow == [NewRow(NoTime) EXCEPT !.exists = FALSE]

-----------------------------------------------------------------------------
Init ==
    /\ now = 0
    /\ sourceEnabled = TRUE
    /\ row = NewRow(0)
    /\ obs = [o \in Observers |-> Idle]
    /\ lastEvent = "unknown"

Tick ==
    /\ now < MaxTime
    /\ now' = now + 1
    /\ UNCHANGED <<sourceEnabled, row, obs, lastEvent>>

\* A request or probe ends: mark_failure_with_details, mark_success or
\* apply_connection_test evaluates self.now() as the observation time.
Observe(o, kind) ==
    /\ obs[o].phase = "idle"
    /\ obs' = [obs EXCEPT ![o] = [phase |-> "observed", kind |-> kind,
                                 at |-> now, sourceSeen |-> FALSE]]
    /\ UNCHANGED <<now, sourceEnabled, row, lastEvent>>

\* The SELECT ... FOR UPDATE OF a starts: its snapshot fixes source_enabled.
BeginSelect(o) ==
    /\ obs[o].phase = "observed"
    /\ obs' = [obs EXCEPT ![o].phase = "locking", ![o].sourceSeen = sourceEnabled]
    /\ UNCHANGED <<now, sourceEnabled, row, lastEvent>>

\* The row the observer's transaction writes; a disabled account or source
\* makes it commit without a change.
Written(o) ==
    IF ~row.enabled \/ ~obs[o].sourceSeen THEN row
    ELSE IF obs[o].kind = "failure" THEN AfterFailure(row, obs[o].at)
         ELSE AfterSuccess(row, obs[o].at)

\* The row lock is granted and the transaction commits.  A transition event is
\* inserted exactly when the stored status changes.
Commit(o) ==
    /\ obs[o].phase = "locking"
    /\ row.exists
    /\ row' = Written(o)
    /\ lastEvent' = IF Written(o).status # row.status
                    THEN Written(o).status ELSE lastEvent
    /\ obs' = [obs EXCEPT ![o] = Idle]
    /\ UNCHANGED <<now, sourceEnabled>>

\* RowNotFound, a database error or the death of the process: the observation
\* is only logged.
Abandon(o) ==
    /\ obs[o].phase # "idle"
    /\ obs' = [obs EXCEPT ![o] = Idle]
    /\ UNCHANGED <<now, sourceEnabled, row, lastEvent>>

\* The row update and the unconditional event of a manual transition.
ApplyManual(r, enabled) ==
    /\ row' = ManualTransition(r, enabled, now)
    /\ lastEvent' = IF enabled THEN "unknown" ELSE "disabled"

\* set_account_enabled resets the row even when the flag does not change.
SetAccountEnabled(enabled) ==
    /\ row.exists
    /\ ApplyManual([row EXCEPT !.enabled = enabled], enabled)
    /\ UNCHANGED <<now, sourceEnabled, obs>>

\* update_account that flips the flag or moves the account to another source,
\* whose own flag may be either; other edits leave the health columns alone.
UpdateAccount(enabled, moved) ==
    /\ row.exists
    /\ moved \/ enabled # row.enabled
    /\ ApplyManual([row EXCEPT !.enabled = enabled], enabled)
    /\ sourceEnabled' \in IF moved THEN BOOLEAN ELSE {sourceEnabled}
    /\ UNCHANGED <<now, obs>>

\* set_source_enabled and update_source: the rows of the source's accounts are
\* reset when the flag flips, whatever their own flag.
SetSourceEnabled(enabled) ==
    /\ enabled # sourceEnabled
    /\ sourceEnabled' = enabled
    /\ IF row.exists THEN ApplyManual(row, enabled) ELSE UNCHANGED <<row, lastEvent>>
    /\ UNCHANGED <<now, obs>>

CreateAccount(enabled) ==
    /\ ~row.exists
    /\ IF enabled
       THEN row' = NewRow(now) /\ lastEvent' = "unknown"
       ELSE ApplyManual([NewRow(now) EXCEPT !.enabled = FALSE], FALSE)
    /\ UNCHANGED <<now, sourceEnabled, obs>>

DeleteAccount ==
    /\ row.exists
    /\ row' = NoRow
    /\ UNCHANGED <<now, sourceEnabled, obs, lastEvent>>

Operator ==
    \/ \E e \in BOOLEAN : \/ SetAccountEnabled(e)
                          \/ SetSourceEnabled(e)
                          \/ CreateAccount(e)
                          \/ \E moved \in BOOLEAN : UpdateAccount(e, moved)
    \/ DeleteAccount

Next ==
    \/ Tick
    \/ \E o \in Observers :
          \/ \E kind \in {"failure", "success"} : Observe(o, kind)
          \/ BeginSelect(o)
          \/ Commit(o)
          \/ Abandon(o)
    \/ Operator

Spec == Init /\ [][Next]_vars

-----------------------------------------------------------------------------
(* Properties                                                              *)

\* The health columns, the clock and every observation have their types.
TypeOK ==
    /\ now \in Nat
    /\ sourceEnabled \in BOOLEAN
    /\ row \in Row
    /\ obs \in [Observers -> Observation]
    /\ lastEvent \in Statuses

\* An observation carries a time the clock has already shown.
ObservedInPast == \A o \in Observers : obs[o].at <= now

\* The five columns that four different writers maintain always tell one
\* story: a cooldown exists exactly when the status says so and the failure
\* count has reached the threshold, and a failure window exists exactly while
\* failures are counted.
RowConsistent ==
    /\ row.cooldownUntil # NoTime <=> row.status = "cooling_down"
    /\ row.cooldownUntil # NoTime <=> row.failures >= FailureThreshold
    /\ row.windowStart # NoTime <=> row.failures > 0
    /\ row.failures > 0 <=> row.status \in {"unhealthy", "cooling_down"}

\* No sequence of failures, however delayed, keeps the account out of routing
\* for longer than max_cooldown from the present moment.
CooldownBounded == row.cooldownUntil <= now + MaxCooldown

\* A manually disabled account carries no failures over to its next life: an
\* observation still in flight when the operator acts leaves the row clean.
DisabledIsClean ==
    row.exists /\ ~row.enabled =>
        row.failures = 0 /\ row.cooldownUntil = NoTime

\* The newest transition event names the status the row is in, so the event
\* centre and the row never disagree.
EventsFollowRow == row.exists => lastEvent = row.status

\* An active cooldown is either left exactly as it is or cleared together with
\* the failure count: a straggling failure neither extends nor shortens it,
\* nor does it feed the next backoff.
ActiveCooldownStable ==
    [][CooldownActive(row, now) /\ row'.cooldownUntil # row.cooldownUntil
         => row'.cooldownUntil = NoTime /\ row'.failures = 0]_vars

=============================================================================
