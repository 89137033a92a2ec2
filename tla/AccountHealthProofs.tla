------------------------- MODULE AccountHealthProofs -------------------------
(***************************************************************************)
(* Proofs about AccountHealth for every configuration that                 *)
(* HealthConfig::normalized can produce and any set of observers.          *)
(***************************************************************************)
EXTENDS HealthEvidence, FiniteSetTheorems, TLAPS

\* A backoff is a natural number that never exceeds max_cooldown
\* (exponential_backoff).
LEMMA BackoffBounded ==
    ASSUME NEW n \in Nat
    PROVE  ExponentialBackoff(n) \in Nat /\ ExponentialBackoff(n) <= MaxCooldown
BY ConfigAssumption DEF ExponentialBackoff

\* What every writer must keep true of one row: typed, its columns agreeing.
GoodRow(r) ==
    /\ r \in Row
    /\ r.cooldownUntil # NoTime <=> r.status = "cooling_down"
    /\ r.cooldownUntil # NoTime <=> r.failures >= FailureThreshold
    /\ r.windowStart # NoTime <=> r.failures > 0
    /\ r.failures > 0 <=> r.status \in {"unhealthy", "cooling_down"}

\* record_account_health_failure_inner maps a good row to a good row whose
\* cooldown is either the old one or at most max_cooldown after the
\* observation, and it leaves a cooldown that outlives the observation alone.
LEMMA FailureKeepsRowGood ==
    ASSUME NEW r, GoodRow(r), NEW at \in Nat
    PROVE  /\ GoodRow(AfterFailure(r, at))
           /\ AfterFailure(r, at).exists = r.exists
           /\ AfterFailure(r, at).enabled = r.enabled
           /\ \/ AfterFailure(r, at).cooldownUntil = r.cooldownUntil
              \/ AfterFailure(r, at).cooldownUntil <= at + MaxCooldown
           /\ r.cooldownUntil > at =>
                 AfterFailure(r, at).cooldownUntil = r.cooldownUntil
<1> DEFINE active   == CooldownActive(r, at)
           expired  == WindowExpired(r, at)
           failures == IF active THEN r.failures
                       ELSE IF expired THEN 1 ELSE r.failures + 1
           opened   == ~active /\ failures >= FailureThreshold
           until    == at + ExponentialBackoff(failures - FailureThreshold + 1)
           s        == AfterFailure(r, at)
<1>1. r \in Row /\ r.failures \in Nat /\ r.cooldownUntil \in Times
      /\ r.windowStart \in Times
  BY DEF GoodRow, Row
<1>2. failures \in Nat
  BY <1>1
<1>3. active => r.failures >= FailureThreshold /\ r.cooldownUntil # NoTime
                /\ r.windowStart # NoTime /\ r.failures > 0
  BY <1>1, ConfigAssumption DEF GoodRow, CooldownActive, NoTime
<1>4. opened => until \in Nat /\ until <= at + MaxCooldown /\ until # NoTime
  <2> SUFFICES ASSUME opened
               PROVE  until \in Nat /\ until <= at + MaxCooldown /\ until # NoTime
    OBVIOUS
  <2>1. failures - FailureThreshold + 1 \in Nat
    BY <1>2, ConfigAssumption
  <2> QED
    BY <2>1, BackoffBounded, ConfigAssumption DEF NoTime
<1>5. s = [r EXCEPT
          !.status = IF active \/ opened THEN "cooling_down" ELSE "unhealthy",
          !.failures = Least(failures, CountMax),
          !.windowStart = IF ~active /\ expired THEN at ELSE @,
          !.cooldownUntil = IF active THEN @ ELSE IF opened THEN until ELSE NoTime,
          !.updatedAt = at]
  BY DEF AfterFailure
<1> HIDE DEF until, s
<1>6. /\ s.exists = r.exists
      /\ s.enabled = r.enabled
      /\ s.status = IF active \/ opened THEN "cooling_down" ELSE "unhealthy"
      /\ s.failures = Least(failures, CountMax)
      /\ s.windowStart = IF ~active /\ expired THEN at ELSE r.windowStart
      /\ s.cooldownUntil = IF active THEN r.cooldownUntil
                           ELSE IF opened THEN until ELSE NoTime
      /\ s.updatedAt = at
  BY <1>1, <1>5 DEF Row
<1>7. s \in Row
  <2>1. Least(failures, CountMax) \in Nat
    BY <1>2, ConfigAssumption DEF Least
  <2>2. s.cooldownUntil \in Times /\ s.windowStart \in Times
    BY <1>1, <1>4, <1>6 DEF Times
  <2> QED
    BY <1>1, <1>5, <1>6, <2>1, <2>2 DEF Row, Statuses, Times
<1>8. s.cooldownUntil # NoTime <=> s.status = "cooling_down"
  BY <1>3, <1>4, <1>6
<1>9. s.cooldownUntil # NoTime <=> s.failures >= FailureThreshold
  BY <1>1, <1>2, <1>3, <1>4, <1>6, ConfigAssumption DEF Least
<1>10. s.windowStart # NoTime <=> s.failures > 0
  BY <1>1, <1>2, <1>3, <1>6, ConfigAssumption
     DEF Least, WindowExpired, NoTime, Times
<1>11. s.failures > 0 <=> s.status \in {"unhealthy", "cooling_down"}
  BY <1>1, <1>2, <1>3, <1>6, ConfigAssumption DEF Least
<1>12. \/ s.cooldownUntil = r.cooldownUntil
       \/ s.cooldownUntil <= at + MaxCooldown
  BY <1>4, <1>6, ConfigAssumption DEF NoTime
<1>13. r.cooldownUntil > at => s.cooldownUntil = r.cooldownUntil
  BY <1>6 DEF CooldownActive
<1> QED
  BY <1>6, <1>7, <1>8, <1>9, <1>10, <1>11, <1>12, <1>13 DEF GoodRow, s

\* A success and an operator's transition both clear the row.
LEMMA ClearingKeepsRowGood ==
    ASSUME NEW r, r \in Row, NEW at \in Nat, NEW e \in BOOLEAN
    PROVE  /\ GoodRow(AfterSuccess(r, at))
           /\ AfterSuccess(r, at).exists = r.exists
           /\ AfterSuccess(r, at).enabled = r.enabled
           /\ AfterSuccess(r, at).cooldownUntil = NoTime
           /\ AfterSuccess(r, at).failures = 0
           /\ GoodRow(ManualTransition(r, e, at))
           /\ ManualTransition(r, e, at).enabled = r.enabled
           /\ ManualTransition(r, e, at).status
                 = IF e THEN "unknown" ELSE "disabled"
           /\ ManualTransition(r, e, at).cooldownUntil = NoTime
           /\ ManualTransition(r, e, at).failures = 0
<1> DEFINE s == AfterSuccess(r, at)
           m == ManualTransition(r, e, at)
<1>1. /\ s \in Row /\ s.exists = r.exists /\ s.enabled = r.enabled
      /\ s.status = "healthy" /\ s.failures = 0
      /\ s.cooldownUntil = NoTime /\ s.windowStart = NoTime
  BY DEF Row, AfterSuccess, Statuses, Times
<1>2. /\ m \in Row /\ m.enabled = r.enabled
      /\ m.status = IF e THEN "unknown" ELSE "disabled"
      /\ m.failures = 0 /\ m.cooldownUntil = NoTime /\ m.windowStart = NoTime
  BY DEF Row, ManualTransition, Statuses, Times
<1> HIDE DEF s, m
<1>3. GoodRow(s) /\ GoodRow(m)
  BY <1>1, <1>2, ConfigAssumption DEF GoodRow
<1> QED
  BY <1>1, <1>2, <1>3 DEF s, m

\* Rows created by the control plane, and the placeholder for no row.
LEMMA NewRowGood ==
    ASSUME NEW at \in Times
    PROVE  /\ GoodRow(NewRow(at))
           /\ NewRow(at).enabled /\ NewRow(at).status = "unknown"
           /\ NewRow(at).cooldownUntil = NoTime /\ NewRow(at).failures = 0
           /\ GoodRow(NoRow) /\ ~NoRow.exists /\ NoRow.cooldownUntil = NoTime
           /\ NoRow.failures = 0
<1>1. ASSUME NEW t \in Times
      PROVE  /\ NewRow(t) \in Row /\ NewRow(t).enabled
             /\ NewRow(t).status = "unknown" /\ NewRow(t).failures = 0
             /\ NewRow(t).cooldownUntil = NoTime /\ NewRow(t).windowStart = NoTime
  BY DEF NewRow, Row, Statuses, Times
<1>2. /\ NoRow \in Row /\ ~NoRow.exists /\ NoRow.status = "unknown"
      /\ NoRow.failures = 0 /\ NoRow.cooldownUntil = NoTime
      /\ NoRow.windowStart = NoTime
  BY DEF NoRow, NewRow, Row, Statuses, Times
<1> QED
  BY <1>1, <1>2, ConfigAssumption DEF GoodRow

-----------------------------------------------------------------------------
\* The inductive invariant.  CooldownBounded needs ObservedInPast: the new
\* cooldown is counted from the observation, and must not exceed the bound
\* counted from the clock.
HealthInv ==
    /\ TypeOK
    /\ ObservedInPast
    /\ GoodRow(row)
    /\ CooldownBounded
    /\ DisabledIsClean
    /\ EventsFollowRow

LEMMA InitHealthInv == Init => HealthInv
<1> SUFFICES ASSUME Init PROVE HealthInv
  OBVIOUS
<1>1. GoodRow(row) /\ row.status = "unknown" /\ row.cooldownUntil = NoTime
      /\ row.enabled
  BY NewRowGood DEF Init, Times
<1>2. TypeOK
  BY <1>1 DEF Init, TypeOK, GoodRow, Observation, Idle, Statuses
<1>3. ObservedInPast /\ CooldownBounded
  BY <1>1, ConfigAssumption DEF Init, ObservedInPast, CooldownBounded, Idle, NoTime
<1>4. DisabledIsClean /\ EventsFollowRow
  BY <1>1 DEF Init, DisabledIsClean, EventsFollowRow
<1> QED
  BY <1>1, <1>2, <1>3, <1>4 DEF HealthInv

\* A step of an observer that leaves the shared row alone.
LEMMA ObserverStepInv ==
    ASSUME HealthInv, NEW o \in Observers,
           obs' = [obs EXCEPT ![o] = obs'[o]],
           obs'[o] \in Observation, obs'[o].at <= now,
           UNCHANGED <<now, sourceEnabled, row, lastEvent>>
    PROVE  HealthInv'
<1>1. TypeOK'
  BY DEF HealthInv, TypeOK
<1>2. ObservedInPast'
  BY DEF HealthInv, TypeOK, ObservedInPast
<1> QED
  BY <1>1, <1>2
     DEF HealthInv, CooldownBounded, DisabledIsClean, EventsFollowRow, GoodRow

\* A transaction of the control plane: the row ends up clear, and the event
\* names its status.
LEMMA OperatorStepInv ==
    ASSUME HealthInv, UNCHANGED <<now, obs>>, sourceEnabled' \in BOOLEAN,
           GoodRow(row'), row'.cooldownUntil = NoTime, row'.failures = 0,
           lastEvent' \in Statuses, row'.exists => lastEvent' = row'.status
    PROVE  HealthInv'
<1>1. TypeOK' /\ ObservedInPast'
  BY DEF HealthInv, TypeOK, ObservedInPast, GoodRow
<1>2. CooldownBounded' /\ DisabledIsClean' /\ EventsFollowRow'
  BY ConfigAssumption
     DEF HealthInv, TypeOK, CooldownBounded, DisabledIsClean, EventsFollowRow,
         NoTime
<1> QED
  BY <1>1, <1>2 DEF HealthInv, GoodRow

LEMMA CommitInv ==
    ASSUME HealthInv, NEW o \in Observers, Commit(o)
    PROVE  HealthInv'
<1>1. /\ obs[o] \in Observation /\ obs[o].at \in Nat /\ obs[o].at <= now
      /\ now \in Nat /\ GoodRow(row) /\ row \in Row
      /\ row.cooldownUntil <= now + MaxCooldown
  BY DEF HealthInv, TypeOK, Observation, ObservedInPast, CooldownBounded
<1>2. /\ GoodRow(row') /\ row'.exists = row.exists /\ row'.enabled = row.enabled
      /\ row'.cooldownUntil <= now + MaxCooldown
      /\ ~row.enabled => row' = row
  <2>1. CASE ~row.enabled \/ ~obs[o].sourceSeen
    BY <1>1, <2>1 DEF Commit, Written
  <2>2. CASE row.enabled /\ obs[o].sourceSeen /\ obs[o].kind = "failure"
    <3>1. row' = AfterFailure(row, obs[o].at)
      BY <2>2 DEF Commit, Written
    <3>2. /\ GoodRow(row') /\ row'.exists = row.exists
          /\ row'.enabled = row.enabled
          /\ \/ row'.cooldownUntil = row.cooldownUntil
             \/ row'.cooldownUntil <= obs[o].at + MaxCooldown
      BY <1>1, <3>1, FailureKeepsRowGood
    <3>3. row'.cooldownUntil \in Int
      BY <3>2 DEF GoodRow, Row, Times, NoTime
    <3>4. row'.cooldownUntil <= now + MaxCooldown
      BY <1>1, <3>2, <3>3, ConfigAssumption
    <3> QED
      BY <2>2, <3>2, <3>4
  <2>3. CASE row.enabled /\ obs[o].sourceSeen /\ obs[o].kind # "failure"
    <3>1. row' = AfterSuccess(row, obs[o].at)
      BY <2>3 DEF Commit, Written
    <3>2. /\ GoodRow(row') /\ row'.exists = row.exists
          /\ row'.enabled = row.enabled /\ row'.cooldownUntil = NoTime
      BY <1>1, <3>1, ClearingKeepsRowGood
    <3> QED
      BY <1>1, <2>3, <3>2, ConfigAssumption DEF NoTime
  <2> QED
    BY <2>1, <2>2, <2>3
<1>3. lastEvent' = IF row'.status # row.status THEN row'.status ELSE lastEvent
  BY DEF Commit
<1>4. TypeOK'
  <2>1. obs' \in [Observers -> Observation]
    BY DEF Commit, HealthInv, TypeOK, Idle, Observation
  <2>2. lastEvent' \in Statuses /\ row' \in Row
    BY <1>2, <1>3 DEF HealthInv, TypeOK, GoodRow, Row
  <2> QED
    BY <2>1, <2>2 DEF Commit, HealthInv, TypeOK
<1>5. ObservedInPast'
  BY <1>1 DEF Commit, HealthInv, TypeOK, ObservedInPast, Idle
<1>6. CooldownBounded' /\ DisabledIsClean'
  BY <1>2 DEF Commit, HealthInv, CooldownBounded, DisabledIsClean
<1>7. EventsFollowRow'
  BY <1>2, <1>3 DEF HealthInv, EventsFollowRow
<1> QED
  BY <1>2, <1>4, <1>5, <1>6, <1>7 DEF HealthInv, GoodRow

LEMMA OperatorInv ==
    ASSUME HealthInv, Operator
    PROVE  HealthInv'
<1>1. row \in Row /\ now \in Nat /\ now \in Times /\ sourceEnabled \in BOOLEAN
      /\ lastEvent \in Statuses
  BY DEF HealthInv, TypeOK, Times
<1>2. ASSUME NEW r \in Row, NEW e \in BOOLEAN, ApplyManual(r, e),
             UNCHANGED <<now, obs>>, sourceEnabled' \in BOOLEAN
      PROVE  HealthInv'
  <2>1. /\ GoodRow(row') /\ row'.cooldownUntil = NoTime /\ row'.failures = 0
        /\ lastEvent' = row'.status /\ lastEvent' \in Statuses
    BY <1>1, <1>2, ClearingKeepsRowGood DEF ApplyManual, Statuses
  <2> QED
    BY <1>2, <2>1, OperatorStepInv
<1>3. ASSUME NEW e \in BOOLEAN
      PROVE  [row EXCEPT !.enabled = e] \in Row
  BY <1>1 DEF Row
<1>4. ASSUME NEW e \in BOOLEAN, SetAccountEnabled(e)
      PROVE  HealthInv'
  BY <1>1, <1>2, <1>3, <1>4 DEF SetAccountEnabled
<1>5. ASSUME NEW e \in BOOLEAN, NEW moved \in BOOLEAN, UpdateAccount(e, moved)
      PROVE  HealthInv'
  BY <1>1, <1>2, <1>3, <1>5 DEF UpdateAccount
<1>6. ASSUME NEW e \in BOOLEAN, SetSourceEnabled(e)
      PROVE  HealthInv'
  <2>1. CASE row.exists
    BY <1>1, <1>2, <1>6, <2>1 DEF SetSourceEnabled
  <2>2. CASE ~row.exists
    BY <1>6, <2>2 DEF SetSourceEnabled, HealthInv, TypeOK, ObservedInPast,
       CooldownBounded, DisabledIsClean, EventsFollowRow, GoodRow
  <2> QED
    BY <2>1, <2>2
<1>7. ASSUME NEW e \in BOOLEAN, CreateAccount(e)
      PROVE  HealthInv'
  <2>1. CASE e
    BY <1>1, <1>7, <2>1, NewRowGood, OperatorStepInv DEF CreateAccount, Statuses
  <2>2. CASE ~e
    <3>1. [NewRow(now) EXCEPT !.enabled = FALSE] \in Row
      BY <1>1, NewRowGood DEF GoodRow, Row
    <3> QED
      BY <1>1, <1>2, <1>7, <2>2, <3>1 DEF CreateAccount
  <2> QED
    BY <2>1, <2>2
<1>8. CASE DeleteAccount
  BY <1>1, <1>8, NewRowGood, OperatorStepInv DEF DeleteAccount
<1> QED
  BY <1>4, <1>5, <1>6, <1>7, <1>8 DEF Operator

LEMMA NextHealthInv == HealthInv /\ [Next]_vars => HealthInv'
<1> SUFFICES ASSUME HealthInv, [Next]_vars PROVE HealthInv'
  OBVIOUS
<1>1. CASE Tick
  <2>1. now \in Nat /\ row.cooldownUntil \in Int
        /\ \A o \in Observers : obs[o].at \in Nat
    BY DEF HealthInv, TypeOK, Row, Times, NoTime, Observation
  <2>2. ObservedInPast' /\ CooldownBounded'
    BY <1>1, <2>1, ConfigAssumption
       DEF Tick, HealthInv, ObservedInPast, CooldownBounded
  <2> QED
    BY <1>1, <2>1, <2>2
       DEF Tick, HealthInv, TypeOK, GoodRow, DisabledIsClean, EventsFollowRow
<1>2. ASSUME NEW o \in Observers, NEW kind \in {"failure", "success"},
             Observe(o, kind)
      PROVE  HealthInv'
  <2>1. obs'[o] = [phase |-> "observed", kind |-> kind, at |-> now,
                   sourceSeen |-> FALSE]
        /\ obs' = [obs EXCEPT ![o] = obs'[o]] /\ now \in Nat
    BY <1>2 DEF Observe, HealthInv, TypeOK
  <2>2. obs'[o] \in Observation /\ obs'[o].at <= now
    BY <2>1 DEF Observation
  <2> QED
    BY <1>2, <2>1, <2>2, ObserverStepInv DEF Observe
<1>3. ASSUME NEW o \in Observers, BeginSelect(o)
      PROVE  HealthInv'
  <2>1. obs[o] \in Observation /\ obs[o].at <= now /\ sourceEnabled \in BOOLEAN
    BY DEF HealthInv, TypeOK, ObservedInPast
  <2>2. /\ obs'[o] = [obs[o] EXCEPT !.phase = "locking", !.sourceSeen = sourceEnabled]
        /\ obs' = [obs EXCEPT ![o] = obs'[o]]
    BY <1>3 DEF BeginSelect, HealthInv, TypeOK
  <2>3. obs'[o] \in Observation /\ obs'[o].at = obs[o].at
    BY <2>1, <2>2 DEF Observation
  <2> QED
    BY <1>3, <2>1, <2>2, <2>3, ObserverStepInv DEF BeginSelect
<1>4. ASSUME NEW o \in Observers, Commit(o)
      PROVE  HealthInv'
  BY <1>4, CommitInv
<1>5. ASSUME NEW o \in Observers, Abandon(o)
      PROVE  HealthInv'
  <2>1. obs'[o] = Idle /\ obs' = [obs EXCEPT ![o] = obs'[o]] /\ now \in Nat
    BY <1>5 DEF Abandon, HealthInv, TypeOK
  <2>2. obs'[o] \in Observation /\ obs'[o].at <= now
    BY <2>1 DEF Idle, Observation
  <2> QED
    BY <1>5, <2>1, <2>2, ObserverStepInv DEF Abandon
<1>6. CASE Operator
  BY <1>6, OperatorInv
<1>7. CASE UNCHANGED vars
  BY <1>7 DEF vars, HealthInv, TypeOK, ObservedInPast, CooldownBounded,
     DisabledIsClean, EventsFollowRow, GoodRow
<1> QED
  BY <1>1, <1>2, <1>3, <1>4, <1>5, <1>6, <1>7 DEF Next

-----------------------------------------------------------------------------
LEMMA HealthInvariant == Spec => []HealthInv
BY InitHealthInv, NextHealthInv, PTL DEF Spec

\* Every reachable health row, clock and observation is well typed.
THEOREM TypeCorrect == Spec => []TypeOK
BY HealthInvariant, PTL DEF HealthInv

\* The columns of the health row agree in every reachable state: failures,
\* successes, probes and operator transitions, each with its own UPDATE and
\* committed in any order, never leave a cooldown without its status, its
\* count and its window.
THEOREM RowAlwaysConsistent == Spec => []RowConsistent
<1>1. HealthInv => RowConsistent
  BY DEF HealthInv, GoodRow, RowConsistent
<1> QED
  BY <1>1, HealthInvariant, PTL

\* An account is never kept out of routing beyond max_cooldown from now, and
\* a disabled account carries neither failures nor a cooldown, whatever
\* observations were in flight when the operator acted.
THEOREM BanBoundedAndCleared == Spec => [](CooldownBounded /\ DisabledIsClean)
BY HealthInvariant, PTL DEF HealthInv

\* The newest health event always names the status of the row.
THEOREM EventsAgree == Spec => []EventsFollowRow
BY HealthInvariant, PTL DEF HealthInv

\* No step shortens or lengthens a cooldown that is still running: it is left
\* as it is or cleared together with the failure count.
THEOREM CooldownNeverStretched == Spec => ActiveCooldownStable
<1> DEFINE Stable == CooldownActive(row, now) /\ row'.cooldownUntil # row.cooldownUntil
                       => row'.cooldownUntil = NoTime /\ row'.failures = 0
<1>1. HealthInv /\ [Next]_vars => [Stable]_vars
  <2> SUFFICES ASSUME HealthInv, Next PROVE Stable
    OBVIOUS
  <2>1. row \in Row /\ now \in Nat /\ GoodRow(row) /\ now \in Times
    BY DEF HealthInv, TypeOK, Times
  <2>2. ASSUME NEW o \in Observers, Commit(o)
        PROVE  Stable
    <3>1. obs[o].at \in Nat /\ obs[o].at <= now
      BY DEF HealthInv, TypeOK, Observation, ObservedInPast
    <3>2. CooldownActive(row, now) => row.cooldownUntil > obs[o].at
      BY <2>1, <3>1 DEF CooldownActive, Row, Times, NoTime
    <3>3. row' \in {row, AfterFailure(row, obs[o].at), AfterSuccess(row, obs[o].at)}
      BY <2>2 DEF Commit, Written
    <3>4. CASE row' = AfterFailure(row, obs[o].at)
      BY <2>1, <3>1, <3>2, <3>4, FailureKeepsRowGood
    <3>5. CASE row' = AfterSuccess(row, obs[o].at)
      BY <2>1, <3>1, <3>5, ClearingKeepsRowGood
    <3> QED
      BY <3>3, <3>4, <3>5
  <2>3. CASE Operator
    <3>1. ASSUME NEW r \in Row, NEW e \in BOOLEAN, ApplyManual(r, e)
          PROVE  row'.cooldownUntil = NoTime /\ row'.failures = 0
      BY <2>1, <3>1, ClearingKeepsRowGood DEF ApplyManual
    <3>2. ASSUME NEW e \in BOOLEAN
          PROVE  /\ [row EXCEPT !.enabled = e] \in Row
                 /\ [NewRow(now) EXCEPT !.enabled = e] \in Row
      BY <2>1, NewRowGood DEF Row, GoodRow
    <3> QED
      BY <2>1, <2>3, <3>1, <3>2, NewRowGood
         DEF Operator, SetAccountEnabled, UpdateAccount, SetSourceEnabled,
             CreateAccount, DeleteAccount
  <2> QED
    BY <2>2, <2>3 DEF Next, Tick, Observe, BeginSelect, Abandon
<1> QED
  BY <1>1, HealthInvariant, PTL DEF Spec, ActiveCooldownStable

-----------------------------------------------------------------------------
(* The evidence behind a cooldown. *)

At(L, t) == {e \in L : e[1] = t}
In(L, from, to) == {e \in L : from <= e[1] /\ e[1] <= to}

\* The failures logged at one time are numbered from 1.
Numbered(L) ==
    /\ L \in SUBSET (Nat \X Nat) /\ IsFiniteSet(L)
    /\ \A e \in L : e[2] <= Cardinality(At(L, e[1]))

\* The failures the row counts are logged, within one window.
EvidenceInv ==
    /\ now <= MaxTime
    /\ Numbered(logged)
    /\ row.failures > 0 =>
          /\ row.windowStart \in 0..MaxTime
          /\ Least(row.failures, FailureThreshold)
                <= Cardinality(In(logged, row.windowStart, row.windowStart + FailureWindow))

\* Parts of a log are finite, and a larger log has larger parts.
LEMMA PartsOfLogs ==
    ASSUME NEW L \in SUBSET (Nat \X Nat), IsFiniteSet(L),
           NEW M \in SUBSET L, NEW t, NEW from, NEW to
    PROVE  /\ IsFiniteSet(At(L, t)) /\ Cardinality(At(L, t)) \in Nat
           /\ IsFiniteSet(In(L, from, to)) /\ Cardinality(In(L, from, to)) \in Nat
           /\ Cardinality(In(M, from, to)) \in Nat
           /\ Cardinality(In(M, from, to)) <= Cardinality(In(L, from, to))
           /\ Cardinality(At(M, t)) \in Nat
           /\ Cardinality(At(M, t)) <= Cardinality(At(L, t))
<1>1. /\ At(L, t) \in SUBSET L /\ In(L, from, to) \in SUBSET L
      /\ In(M, from, to) \in SUBSET In(L, from, to) /\ At(M, t) \in SUBSET At(L, t)
  BY DEF At, In
<1>2. IsFiniteSet(At(L, t)) /\ IsFiniteSet(In(L, from, to))
  BY <1>1, FS_Subset
<1>3. /\ IsFiniteSet(In(M, from, to)) /\ IsFiniteSet(At(M, t))
      /\ Cardinality(In(M, from, to)) <= Cardinality(In(L, from, to))
      /\ Cardinality(At(M, t)) <= Cardinality(At(L, t))
  BY <1>1, <1>2, FS_Subset
<1> QED
  BY <1>2, <1>3, FS_CardinalityType

\* Logging a failure adds one to every window around it, up to the threshold.
LEMMA LoggingAdds ==
    ASSUME NEW L, Numbered(L), NEW t \in Nat, NEW from \in Nat, NEW to \in Nat,
           from <= t, t <= to, NEW M,
           M = IF Cardinality(At(L, t)) < FailureThreshold
               THEN L \cup {<<t, Cardinality(At(L, t)) + 1>>} ELSE L
    PROVE  /\ Numbered(M) /\ L \subseteq M
           /\ \/ Cardinality(In(M, from, to)) = Cardinality(In(L, from, to)) + 1
              \/ Cardinality(In(M, from, to)) >= FailureThreshold
<1> DEFINE n == Cardinality(At(L, t))
           e == <<t, n + 1>>
<1>1. L \in SUBSET (Nat \X Nat) /\ IsFiniteSet(L) /\ L \in SUBSET L
  BY DEF Numbered
<1>2. /\ IsFiniteSet(At(L, t)) /\ n \in Nat
      /\ IsFiniteSet(In(L, from, to)) /\ Cardinality(In(L, from, to)) \in Nat
  BY <1>1, PartsOfLogs
<1>3. CASE n < FailureThreshold
  <2>1. e \notin L
    <3>1. \A x \in L : x[1] = t => x[2] <= n
      BY DEF Numbered
    <3>2. e[1] = t /\ e[2] = n + 1
      OBVIOUS
    <3> QED
      BY <1>2, <3>1, <3>2
  <2>2. M = L \cup {e}
    BY <1>3
  <2>3. e \in Nat \X Nat /\ e[1] = t /\ e[2] = n + 1
    BY <1>2
  <2> HIDE DEF e
  <2>4. M \in SUBSET (Nat \X Nat) /\ IsFiniteSet(M) /\ L \in SUBSET M
    BY <1>1, <2>2, <2>3, FS_AddElement
  <2>5. In(M, from, to) = In(L, from, to) \cup {e} /\ e \notin In(L, from, to)
    BY <2>1, <2>2, <2>3 DEF In
  <2>6. Cardinality(In(M, from, to)) = Cardinality(In(L, from, to)) + 1
    BY <1>2, <2>5, FS_AddElement
  <2>7. At(M, t) = At(L, t) \cup {e} /\ e \notin At(L, t)
    BY <2>1, <2>2, <2>3 DEF At
  <2>8. Cardinality(At(M, t)) = n + 1
    BY <1>2, <2>7, FS_AddElement
  <2> HIDE DEF n
  <2>9. ASSUME NEW x \in M PROVE x[2] <= Cardinality(At(M, x[1]))
    <3>1. CASE x = e
      BY <1>2, <2>3, <2>8, <3>1
    <3>2. CASE x \in L
      <4>1. x[2] <= Cardinality(At(L, x[1])) /\ x[2] \in Nat
        BY <1>1, <3>2 DEF Numbered
      <4>2. /\ Cardinality(At(L, x[1])) \in Nat /\ Cardinality(At(M, x[1])) \in Nat
            /\ Cardinality(At(L, x[1])) <= Cardinality(At(M, x[1]))
        BY <2>4, PartsOfLogs
      <4> QED
        BY <4>1, <4>2
    <3> QED
      BY <2>2, <3>1, <3>2
  <2> QED
    BY <2>4, <2>6, <2>9 DEF Numbered
<1>4. CASE ~(n < FailureThreshold)
  <2>1. M = L
    BY <1>4
  <2>2. At(L, t) \in SUBSET In(L, from, to)
    BY DEF At, In
  <2>3. n <= Cardinality(In(L, from, to))
    BY <1>2, <2>2, FS_Subset
  <2> HIDE DEF n
  <2>4. Cardinality(In(L, from, to)) >= FailureThreshold
    BY <1>2, <1>4, <2>3, ConfigAssumption
  <2> QED
    BY <2>1, <2>4
<1> QED
  BY <1>3, <1>4

\* The failure columns after a failure: the count grows by at most one, in the
\* window that was or in a new one that begins with the observation.
LEMMA FailureCounts ==
    ASSUME NEW r, GoodRow(r), NEW at \in Nat
    PROVE  LET s == AfterFailure(r, at)
           IN /\ r.failures \in Nat /\ s.failures \in Nat
              /\ \/ /\ r.failures > 0 /\ s.failures <= r.failures
                    /\ s.windowStart = r.windowStart
                 \/ /\ r.failures > 0 /\ s.failures <= r.failures + 1
                    /\ s.windowStart = r.windowStart
                    /\ r.windowStart <= at /\ at <= r.windowStart + FailureWindow
                 \/ s.failures <= 1 /\ s.windowStart = at
<1> DEFINE active   == CooldownActive(r, at)
           expired  == WindowExpired(r, at)
           failures == IF active THEN r.failures
                       ELSE IF expired THEN 1 ELSE r.failures + 1
           s        == AfterFailure(r, at)
<1>1. /\ r \in Row /\ r.failures \in Nat /\ r.cooldownUntil \in Times
      /\ r.windowStart \in Times
  BY DEF GoodRow, Row
<1>2. /\ s.failures = Least(failures, CountMax)
      /\ s.windowStart = IF ~active /\ expired THEN at ELSE r.windowStart
  BY <1>1 DEF AfterFailure, Row
<1> HIDE DEF s
<1>3. active => r.failures > 0
  BY <1>1, ConfigAssumption DEF GoodRow, CooldownActive, NoTime
<1>4. ~expired => /\ r.windowStart # NoTime /\ r.failures > 0
                  /\ r.windowStart <= at /\ at <= r.windowStart + FailureWindow
  BY <1>1, ConfigAssumption DEF WindowExpired, GoodRow, Times, NoTime
<1>5. failures \in Nat
  BY <1>1
<1>6. s.failures \in Nat /\ s.failures <= failures
  BY <1>2, <1>5, ConfigAssumption DEF Least
<1>7. CASE active
  BY <1>1, <1>2, <1>3, <1>6, <1>7 DEF s
<1>8. CASE ~active /\ expired
  BY <1>1, <1>2, <1>6, <1>8 DEF s
<1>9. CASE ~active /\ ~expired
  BY <1>1, <1>2, <1>4, <1>6, <1>9 DEF s
<1> QED
  BY <1>7, <1>8, <1>9

LEMMA NothingLogged == Numbered({})
BY FS_EmptySet DEF Numbered

\* A failure is logged by the commit that counts it.
LEMMA FailureEvidence ==
    ASSUME HealthInv, EvidenceInv, NEW at \in Nat, at <= now, UNCHANGED now,
           row' = AfterFailure(row, at), logged' = WithFailureAt(at)
    PROVE  EvidenceInv'
<1> DEFINE M == logged'
           K == FailureThreshold
           W == FailureWindow
<1>1. /\ GoodRow(row) /\ now \in Nat /\ now <= MaxTime /\ Numbered(logged)
      /\ MaxTime \in Nat /\ K \in Nat /\ K >= 1 /\ W \in Nat
  BY ConfigAssumption DEF HealthInv, TypeOK, EvidenceInv
<1>2. M = IF Cardinality(At(logged, at)) < FailureThreshold
          THEN logged \cup {<<at, Cardinality(At(logged, at)) + 1>>} ELSE logged
  BY DEF WithFailureAt, LoggedAt, At
<1>3. /\ row.failures \in Nat /\ row'.failures \in Nat
      /\ \/ /\ row.failures > 0 /\ row'.failures <= row.failures
            /\ row'.windowStart = row.windowStart
         \/ /\ row.failures > 0 /\ row'.failures <= row.failures + 1
            /\ row'.windowStart = row.windowStart
            /\ row.windowStart <= at /\ at <= row.windowStart + FailureWindow
         \/ row'.failures <= 1 /\ row'.windowStart = at
  BY <1>1, FailureCounts
<1> HIDE DEF M
<1>4. Numbered(M) /\ logged \subseteq M
  <2>1. at <= at
    OBVIOUS
  <2> QED
    BY <1>1, <1>2, <2>1, LoggingAdds
<1>5. \A from, to : /\ Cardinality(In(logged, from, to)) \in Nat
                    /\ Cardinality(In(M, from, to)) \in Nat
                    /\ Cardinality(In(logged, from, to)) <= Cardinality(In(M, from, to))
  BY <1>4, PartsOfLogs DEF Numbered
<1>6. \A from, to \in Nat : from <= at /\ at <= to =>
        \/ Cardinality(In(M, from, to)) = Cardinality(In(logged, from, to)) + 1
        \/ Cardinality(In(M, from, to)) >= FailureThreshold
  BY <1>1, <1>2, LoggingAdds
<1>7. row.failures > 0 =>
        /\ row.windowStart \in 0..MaxTime
        /\ Least(row.failures, K) <= Cardinality(In(logged, row.windowStart, row.windowStart + W))
  BY DEF EvidenceInv
<1>8. row'.windowStart \in 0..MaxTime
  BY <1>1, <1>3, <1>7
<1> DEFINE w == row'.windowStart
           old == Cardinality(In(logged, w, w + W))
           new == Cardinality(In(M, w, w + W))
<1>9. w \in Nat /\ w + W \in Nat /\ old \in Nat /\ new \in Nat /\ old <= new
  BY <1>1, <1>5, <1>8
<1>10. Least(row'.failures, K) <= new
  <2>1. CASE row.failures > 0 /\ row'.failures <= row.failures /\ w = row.windowStart
    <3>1. Least(row.failures, K) <= old
      BY <1>7, <2>1
    <3> HIDE DEF old, new
    <3> QED
      BY <1>1, <1>3, <1>9, <2>1, <3>1 DEF Least
  <2>2. CASE row.failures > 0 /\ row'.failures <= row.failures + 1 /\ w = row.windowStart
             /\ w <= at /\ at <= w + W
    <3>1. Least(row.failures, K) <= old
      BY <1>7, <2>2
    <3>2. new = old + 1 \/ new >= K
      BY <1>6, <1>9, <2>2
    <3> HIDE DEF old, new
    <3> QED
      BY <1>1, <1>3, <1>9, <2>2, <3>1, <3>2 DEF Least
  <2>3. CASE row'.failures <= 1 /\ w = at
    <3>1. w <= at /\ at <= w + W
      BY <1>1, <2>3
    <3>2. new = old + 1 \/ new >= K
      BY <1>6, <1>9, <3>1
    <3> HIDE DEF old, new
    <3> QED
      BY <1>1, <1>3, <1>9, <2>3, <3>2 DEF Least
  <2> QED
    BY <1>3, <2>1, <2>2, <2>3
<1> QED
  BY <1>1, <1>4, <1>8, <1>10 DEF EvidenceInv, M

\* The control plane leaves the row as it is or clears it.
LEMMA OperatorClears == ASSUME HealthInv, Operator PROVE row' = row \/ row'.failures = 0
<1>1. row \in Row /\ now \in Nat /\ now \in Times
  BY DEF HealthInv, TypeOK, Times
<1>2. ASSUME NEW r \in Row, NEW e \in BOOLEAN, ApplyManual(r, e)
      PROVE  row'.failures = 0
  BY <1>1, <1>2, ClearingKeepsRowGood DEF ApplyManual
<1>3. ASSUME NEW e \in BOOLEAN
      PROVE  /\ [row EXCEPT !.enabled = e] \in Row
             /\ [NewRow(now) EXCEPT !.enabled = e] \in Row
  BY <1>1, NewRowGood DEF Row, GoodRow
<1> QED
  BY <1>1, <1>2, <1>3, NewRowGood
     DEF Operator, SetAccountEnabled, UpdateAccount, SetSourceEnabled,
         CreateAccount, DeleteAccount

\* The history adds to every step what it logged, and nothing else.
LEMMA HistoryStep == [HistoryNext]_historyVars => [Next]_vars
BY DEF HistoryNext, Next, historyVars

LEMMA NextEvidenceInv ==
    HealthInv /\ EvidenceInv /\ [HistoryNext]_historyVars => EvidenceInv'
<1> SUFFICES ASSUME HealthInv, EvidenceInv, [HistoryNext]_historyVars PROVE EvidenceInv'
  OBVIOUS
<1>1. now \in Nat /\ MaxTime \in Nat /\ now <= MaxTime
  BY ConfigAssumption DEF HealthInv, TypeOK, EvidenceInv
<1>2. ASSUME now' <= MaxTime, row' = row, logged' = logged PROVE EvidenceInv'
  BY <1>2 DEF EvidenceInv
<1>3. ASSUME now' = now, row'.failures = 0, logged' = {} PROVE EvidenceInv'
  BY <1>1, <1>3, NothingLogged DEF EvidenceInv
<1>4. CASE Tick /\ UNCHANGED logged
  <2>1. now' <= MaxTime
    BY <1>1, <1>4 DEF Tick
  <2> QED
    BY <1>2, <1>4, <2>1 DEF Tick
<1>5. ASSUME NEW o \in Observers, UNCHANGED logged,
             (\E kind \in {"failure", "success"} : Observe(o, kind)) \/ BeginSelect(o) \/ Abandon(o)
      PROVE  EvidenceInv'
  BY <1>1, <1>2, <1>5 DEF Observe, BeginSelect, Abandon
<1>6. ASSUME NEW o \in Observers, Commit(o), logged' = LoggedAfter(o) PROVE EvidenceInv'
  <2>1. obs[o].at \in Nat /\ obs[o].at <= now /\ row \in Row /\ now' = now
    BY <1>6 DEF HealthInv, TypeOK, Observation, ObservedInPast, Commit
  <2>2. CASE ~row.enabled \/ ~obs[o].sourceSeen
    BY <1>1, <1>2, <1>6, <2>1, <2>2 DEF Commit, Written, LoggedAfter
  <2>3. CASE row.enabled /\ obs[o].sourceSeen /\ obs[o].kind = "failure"
    BY <1>6, <2>1, <2>3, FailureEvidence DEF Commit, Written, LoggedAfter
  <2>4. CASE row.enabled /\ obs[o].sourceSeen /\ obs[o].kind # "failure"
    <3>1. row' = AfterSuccess(row, obs[o].at) /\ logged' = {}
      BY <1>6, <2>4 DEF Commit, Written, LoggedAfter
    <3>2. row'.failures = 0
      BY <2>1, <3>1, ClearingKeepsRowGood
    <3> QED
      BY <1>3, <2>1, <3>1, <3>2
  <2> QED
    BY <2>2, <2>3, <2>4
<1>7. CASE Operator /\ logged' = IF row' = row THEN logged ELSE {}
  <2>1. now' = now
    BY <1>7 DEF Operator, SetAccountEnabled, UpdateAccount, SetSourceEnabled,
       CreateAccount, DeleteAccount
  <2>2. row' = row \/ row'.failures = 0
    BY <1>7, OperatorClears
  <2> QED
    BY <1>1, <1>2, <1>3, <1>7, <2>1, <2>2
<1>8. CASE UNCHANGED historyVars
  BY <1>1, <1>2, <1>8 DEF historyVars, vars
<1> QED
  BY <1>4, <1>5, <1>6, <1>7, <1>8 DEF HistoryNext

LEMMA InitEvidenceInv == HistoryInit => EvidenceInv
<1> SUFFICES ASSUME HistoryInit PROVE EvidenceInv
  OBVIOUS
<1>1. now = 0 /\ logged = {} /\ row = NewRow(0) /\ 0 \in Times
  BY DEF HistoryInit, Init, Times
<1>2. row.failures = 0
  BY <1>1, NewRowGood
<1> QED
  BY <1>1, <1>2, NothingLogged, ConfigAssumption DEF EvidenceInv

\* A cooldown of an account is backed by failure_threshold failures within one
\* failure window that were committed since the row was last cleared, for every
\* configuration and order of commits; and routing leaves out an enabled account
\* exactly when the administrator sees it cooling down.
THEOREM BreakerJustified == HistorySpec => []BreakerHasEvidence
<1>1. HistorySpec => [](HealthInv /\ EvidenceInv)
  <2>1. HistoryInit => HealthInv /\ EvidenceInv
    BY InitHealthInv, InitEvidenceInv DEF HistoryInit
  <2>2. HealthInv /\ EvidenceInv /\ [HistoryNext]_historyVars => (HealthInv /\ EvidenceInv)'
    BY HistoryStep, NextHealthInv, NextEvidenceInv
  <2> QED
    BY <2>1, <2>2, PTL DEF HistorySpec
<1>2. HealthInv /\ EvidenceInv => BreakerHasEvidence
  <2> SUFFICES ASSUME HealthInv, EvidenceInv PROVE BreakerHasEvidence
    OBVIOUS
  <2>1. GoodRow(row) /\ row \in Row /\ row.failures \in Nat
    BY DEF HealthInv, GoodRow, Row
  <2>2. ASSUME row.cooldownUntil # NoTime
        PROVE  \E t \in 0..MaxTime :
                 Cardinality(Between(t, t + FailureWindow)) >= FailureThreshold
    <3>1. row.failures >= FailureThreshold /\ row.failures > 0
      BY <2>1, <2>2, ConfigAssumption DEF GoodRow
    <3> DEFINE w == row.windowStart
    <3>2. w \in 0..MaxTime
          /\ Least(row.failures, FailureThreshold)
               <= Cardinality(In(logged, w, w + FailureWindow))
      BY <3>1 DEF EvidenceInv
    <3>3. Least(row.failures, FailureThreshold) = FailureThreshold
      BY <2>1, <3>1, ConfigAssumption DEF Least
    <3>4. In(logged, w, w + FailureWindow) = Between(w, w + FailureWindow)
      BY DEF In, Between
    <3> HIDE DEF w
    <3>5. Cardinality(In(logged, w, w + FailureWindow)) \in Nat
      <4>1. logged \in SUBSET (Nat \X Nat) /\ IsFiniteSet(logged) /\ logged \in SUBSET logged
        BY DEF EvidenceInv, Numbered
      <4> QED
        BY <4>1, PartsOfLogs
    <3>6. Cardinality(Between(w, w + FailureWindow)) >= FailureThreshold
      BY <3>2, <3>3, <3>4, <3>5, ConfigAssumption
    <3> QED
      BY <3>2, <3>6
  <2>3. ASSUME row.exists, row.enabled, sourceEnabled
        PROVE  ~Available(row, sourceEnabled, now)
                 <=> Status(row, sourceEnabled, now) = "cooling_down"
    BY <2>3 DEF Available, Status
  <2> QED
    BY <2>2, <2>3 DEF BreakerHasEvidence
<1> QED
  BY <1>1, <1>2, PTL

=============================================================================
