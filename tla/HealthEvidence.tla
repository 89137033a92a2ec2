--------------------------- MODULE HealthEvidence ---------------------------
(***************************************************************************)
(* AccountHealth with a history variable: the failures that have been      *)
(* committed since the row was last cleared (by a success, an operator or  *)
(* a re-creation), with the time each was observed at.  The history        *)
(* restricts nothing.                                                      *)
(***************************************************************************)
EXTENDS AccountHealth

VARIABLE logged    \* pairs of a time and a number, at most FailureThreshold a time

historyVars == <<vars, logged>>

HistoryInit == Init /\ logged = {}

LoggedAt(t) == {e \in logged : e[1] = t}

WithFailureAt(t) ==
    IF Cardinality(LoggedAt(t)) < FailureThreshold
    THEN logged \cup {<<t, Cardinality(LoggedAt(t)) + 1>>}
    ELSE logged

LoggedAfter(o) ==
    IF row.enabled /\ obs[o].sourceSeen /\ obs[o].kind = "failure"
    THEN WithFailureAt(obs[o].at)
    ELSE IF row.enabled /\ obs[o].sourceSeen THEN {} ELSE logged

HistoryNext ==
    \/ Tick /\ UNCHANGED logged
    \/ \E o \in Observers :
          \/ /\ \/ \E kind \in {"failure", "success"} : Observe(o, kind)
                \/ BeginSelect(o)
                \/ Abandon(o)
             /\ UNCHANGED logged
          \/ Commit(o) /\ logged' = LoggedAfter(o)
    \/ Operator /\ logged' = IF row' = row THEN logged ELSE {}

HistorySpec == HistoryInit /\ [][HistoryNext]_historyVars

\* The logged failures observed in [from, to].
Between(from, to) == {e \in logged : from <= e[1] /\ e[1] <= to}

-----------------------------------------------------------------------------
\* The breaker opens only on evidence: an account with a cooldown had at least
\* failure_threshold failures observed within one failure window and committed
\* since its record was last cleared, in whatever order they were committed;
\* and an enabled account that routing leaves out is one with a cooldown, which
\* the administrator sees as cooling down.
BreakerHasEvidence ==
    /\ row.cooldownUntil # NoTime =>
          \E t \in 0..MaxTime :
             Cardinality(Between(t, t + FailureWindow)) >= FailureThreshold
    /\ row.exists /\ row.enabled /\ sourceEnabled =>
          (~Available(row, sourceEnabled, now)
             <=> Status(row, sourceEnabled, now) = "cooling_down")

=============================================================================
