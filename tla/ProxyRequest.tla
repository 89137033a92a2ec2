---------------------------- MODULE ProxyRequest ----------------------------
(***************************************************************************)
(* One northbound request after admission: the choice of upstream lines,   *)
(* the attempts and the usage row, under the ordered policy                *)
(* (src/proxy/ordered.rs) and the weighted one (src/proxy/weighted.rs).    *)
(*                                                                         *)
(* Every look at an account's health is a query of its own, and between    *)
(* two of them other requests, manual probes and the clock may change the  *)
(* answer: avail is what AccountHealth calls available, and Environment    *)
(* changes it at any moment.  The list of lines is the one of the snapshot *)
(* the request took when it started.                                       *)
(***************************************************************************)
EXTENDS Integers, Sequences, FiniteSets

CONSTANTS
    Lines,       \* RuntimeRoute.bindings: records of account, model and mode;
                 \* the first is the primary
    MaxRetries,  \* route.max_retries, or NoLimit
    NoLimit,
    HasTotal     \* a total timeout is configured

Accounts == {Lines[n].account : n \in DOMAIN Lines}

ASSUME LinesAssumption ==
    /\ Lines \in Seq([account : Accounts, model : STRING, native : BOOLEAN])
    /\ Lines # <<>>
    /\ MaxRetries \in Nat \cup {NoLimit} /\ NoLimit \notin Nat
    /\ HasTotal \in BOOLEAN

VARIABLES
    strategy,   \* route.strategy
    enabled,    \* accounts enabled in the request's snapshot
    avail,      \* accounts the health registry would call available now
    expired,    \* the total timeout has passed
    pc,         \* where the request is
    after,      \* where it goes on once candidates are collected
    cursor,     \* the line looked at next
    cands,      \* candidates collected, as indices into Lines
    attempts,   \* usage attempts: the line and how it went
    reason,     \* fallback_reason so far
    response,   \* the response to return: a status, and the attempt it is of
    row,        \* the row of usage_events, once the request is settled
    passed      \* lines found unavailable by the request

vars == <<strategy, enabled, avail, expired, pc, after, cursor, cands,
          attempts, reason, response, row, passed>>

-----------------------------------------------------------------------------
(* Outcomes of an attempt                                                  *)

\* "short" is a 429 with a Retry-After of at most two seconds, "early" a 425,
\* "refused" any other answer that is neither success nor retryable, "total"
\* and "connect" the total and the connection timeout, "transport" every other
\* transport error.
Outcomes == {"success", "refused", "early", "429", "short", "5xx",
             "transport", "connect", "total"}

\* is_retryable
Retryable == {"429", "short", "5xx"}

TransportErrors == {"transport", "connect", "total"}

NoResponse == [status |-> "none", of |-> 0]
NoRow == [upstream |-> 0, status |-> "none", success |-> FALSE,
          attempts |-> <<>>, reason |-> "none", timeout |-> FALSE]

Account(n) == Lines[n].account
Usable(n) == Account(n) \in enabled /\ Account(n) \in avail
AttemptLimit == IF MaxRetries = NoLimit THEN Len(Lines) ELSE MaxRetries + 1

Init ==
    /\ strategy \in {"ordered", "weighted"}
    /\ enabled \in SUBSET Accounts /\ avail \in SUBSET Accounts
    /\ expired = FALSE
    /\ pc = "start" /\ after = "none"
    /\ cursor = 2 /\ cands = <<>> /\ attempts = <<>>
    /\ reason = "none" /\ response = NoResponse /\ row = NoRow
    /\ passed = {}

-----------------------------------------------------------------------------
(* The world around the request                                            *)

\* Another request, a manual probe, an operator or the clock.
Environment ==
    /\ pc # "done"
    /\ avail' \in SUBSET Accounts \ {avail}
    /\ UNCHANGED <<strategy, enabled, expired, pc, after, cursor, cands,
                   attempts, reason, response, row, passed>>

Expire ==
    /\ pc # "done" /\ HasTotal /\ ~expired
    /\ expired' = TRUE
    /\ UNCHANGED <<strategy, enabled, avail, pc, after, cursor, cands,
                   attempts, reason, response, row, passed>>

-----------------------------------------------------------------------------
(* Candidates                                                              *)

\* The look at the primary: it becomes the first candidate of the ordered
\* policy and the first attempt of the weighted one, or gives the reason.
Start ==
    /\ pc = "start"
    /\ pc' = IF strategy = "weighted" /\ Usable(1) THEN "attempt" ELSE "collect"
    /\ after' = IF strategy = "ordered" THEN "walk"
                ELSE IF Usable(1) THEN "first" ELSE "instead"
    /\ cands' = IF Usable(1) THEN <<1>> ELSE <<>>
    /\ reason' = IF Usable(1) THEN "none" ELSE "account"
    /\ passed' = IF Usable(1) THEN {} ELSE {1}
    /\ UNCHANGED <<strategy, enabled, avail, expired, cursor, attempts,
                   response, row>>

\* The primary's account is no fallback for itself; the ordered policy allows
\* it with another upstream model.
Eligible(n) ==
    \/ Account(n) # Account(1)
    \/ strategy = "ordered" /\ Lines[n].model # Lines[1].model

\* available_fallback_candidates: one line at a time.
CollectOne ==
    /\ pc = "collect" /\ cursor <= Len(Lines)
    /\ cands' = IF Eligible(cursor) /\ Usable(cursor)
                THEN Append(cands, cursor) ELSE cands
    /\ cursor' = cursor + 1
    /\ passed' = IF Eligible(cursor) /\ Usable(cursor) THEN passed
                 ELSE passed \cup {cursor}
    /\ UNCHANGED <<strategy, enabled, avail, expired, pc, after, attempts,
                   reason, response, row>>

\* The candidates a fallback is chosen from, as positions in the list: a native
\* one keeps adapter candidates out.
Preferred ==
    LET native == {k \in DOMAIN cands : Lines[cands[k]].native}
    IN  IF native = {} THEN DOMAIN cands ELSE native

\* The policy goes on: the ordered one with all candidates, the weighted one
\* with one of the preferred, chosen by weight and time.
Collected ==
    /\ pc = "collect" /\ cursor > Len(Lines)
    /\ pc' = after /\ cursor' = 2
    /\ IF strategy = "ordered" THEN cands' = cands
       ELSE IF cands = <<>> THEN cands' = <<>>
       ELSE \E k \in Preferred : cands' = <<cands[k]>>
    /\ UNCHANGED <<strategy, enabled, avail, expired, after, attempts, reason,
                   response, row, passed>>

-----------------------------------------------------------------------------
(* Attempts                                                                *)

\* record_response_health: a failure may cool the account down, a success
\* lifts its cooldown, unless an operator disabled the account meanwhile.
HealthAfter(n, outcome) ==
    CASE outcome = "success"                        -> {avail, avail \cup {Account(n)}}
      [] outcome \in Retryable \cup TransportErrors -> {avail, avail \ {Account(n)}}
      [] OTHER                                      -> {avail}

\* AttemptContext::execute on the first candidate.  Past the total timeout the
\* upstream is not called, and no adapter is registered to call it through.
Execute(outcome) ==
    LET n == Head(cands)
    IN  /\ pc = "attempt"
        /\ outcome = "total" => HasTotal
        /\ expired => outcome \in {"total", "transport"}
        /\ ~Lines[n].native => outcome = "transport"
        /\ expired' = (expired \/ outcome = "total")
        /\ avail' \in HealthAfter(n, outcome)
        /\ attempts' = Append(attempts, [line |-> n, outcome |-> outcome])
        /\ pc' = "judge"
        /\ UNCHANGED <<strategy, enabled, after, cursor, cands, reason,
                       response, row, passed>>

LastAttempt == attempts[Len(attempts)]
Answer == [status |-> LastAttempt.outcome, of |-> Len(attempts)]
Gateway(status) == [status |-> status, of |-> 0]
Failed(outcome) == outcome \in Retryable \cup TransportErrors

\* The reason an attempt adds: the first one stays.
ReasonAfter ==
    IF reason = "none" /\ Failed(LastAttempt.outcome) THEN LastAttempt.outcome ELSE reason

-----------------------------------------------------------------------------
(* proxy_ordered                                                           *)

\* Mutant: off by one in the attempt limit.
WalkOneMore ==
    /\ pc = "walk"
    /\ IF cands = <<>> \/ Len(attempts) > AttemptLimit
       THEN pc' = "settle" /\ UNCHANGED <<cands, response, passed>>
       ELSE IF Account(Head(cands)) \notin avail
       THEN /\ pc' = "walk" /\ cands' = Tail(cands)
            /\ passed' = passed \cup {Head(cands)}
            /\ UNCHANGED response
       ELSE IF expired
       THEN pc' = "settle" /\ response' = Gateway("total") /\ UNCHANGED <<cands, passed>>
       ELSE pc' = "attempt" /\ UNCHANGED <<cands, response, passed>>
    /\ UNCHANGED <<strategy, enabled, avail, expired, after, cursor, attempts, reason, row>>

\* Mutant: off by one the other way.
WalkOneLess ==
    /\ pc = "walk"
    /\ IF cands = <<>> \/ (attempts # <<>> /\ Len(attempts) >= AttemptLimit - 1)
       THEN pc' = "settle" /\ UNCHANGED <<cands, response, passed>>
       ELSE IF Account(Head(cands)) \notin avail
       THEN /\ pc' = "walk" /\ cands' = Tail(cands)
            /\ passed' = passed \cup {Head(cands)}
            /\ UNCHANGED response
       ELSE IF expired
       THEN pc' = "settle" /\ response' = Gateway("total") /\ UNCHANGED <<cands, passed>>
       ELSE pc' = "attempt" /\ UNCHANGED <<cands, response, passed>>
    /\ UNCHANGED <<strategy, enabled, avail, expired, after, cursor, attempts, reason, row>>

\* The head of the loop: limit, a second look at the account, total timeout.
Walk ==
    /\ pc = "walk"
    /\ IF cands = <<>> \/ Len(attempts) >= AttemptLimit
       THEN pc' = "settle" /\ UNCHANGED <<cands, response, passed>>
       ELSE IF Account(Head(cands)) \notin avail
       THEN /\ pc' = "walk" /\ cands' = Tail(cands)
            /\ passed' = passed \cup {Head(cands)}
            /\ UNCHANGED response
       ELSE IF expired
       THEN pc' = "settle" /\ response' = Gateway("total") /\ UNCHANGED <<cands, passed>>
       ELSE pc' = "attempt" /\ UNCHANGED <<cands, response, passed>>
    /\ UNCHANGED <<strategy, enabled, avail, expired, after, cursor, attempts, reason, row>>

\* The tail of the loop: a retryable answer or error goes on with the next.
JudgeOrdered ==
    /\ pc = "judge" /\ strategy = "ordered"
    /\ reason' = ReasonAfter
    /\ response' = Answer
    /\ cands' = Tail(cands)
    /\ pc' = IF LastAttempt.outcome \in Retryable \cup {"transport", "connect"}
             THEN "walk" ELSE "settle"
    /\ UNCHANGED <<strategy, enabled, avail, expired, after, cursor, attempts, row, passed>>

-----------------------------------------------------------------------------
(* proxy_weighted                                                          *)

\* The primary was not usable: one fallback is tried instead of it, or the
\* client is told so.
Instead ==
    /\ pc = "instead"
    /\ pc' = IF cands = <<>> THEN "settle" ELSE "attempt"
    /\ response' = IF cands = <<>> THEN Gateway("unavailable") ELSE response
    /\ UNCHANGED <<strategy, enabled, avail, expired, after, cursor, cands,
                   attempts, reason, row, passed>>

\* The attempt that ends the request.  A fallback's transport error gives way
\* to the primary's HTTP answer, or to "unavailable" when there was none.
JudgeLast ==
    /\ pc = "judge" /\ strategy = "weighted" /\ after # "first"
    /\ response' = IF LastAttempt.outcome \notin TransportErrors THEN Answer
                   ELSE IF after = "pick" /\ response.status \in Retryable THEN response
                   ELSE IF after = "instead" /\ LastAttempt.outcome = "transport"
                   THEN Gateway("unavailable") ELSE Answer
    /\ pc' = "settle"
    /\ UNCHANGED <<strategy, enabled, avail, expired, after, cursor, cands,
                   attempts, reason, row, passed>>

\* The primary's attempt: a retryable answer asks whether there is a fallback,
\* a transport error picks one at once.
JudgeFirst ==
    /\ pc = "judge" /\ strategy = "weighted" /\ after = "first"
    /\ reason' = ReasonAfter
    /\ response' = Answer
    /\ cands' = <<>>
    /\ pc' = IF Failed(LastAttempt.outcome) THEN "collect" ELSE "settle"
    /\ after' = IF LastAttempt.outcome \in Retryable THEN "probe"
                ELSE IF LastAttempt.outcome \in TransportErrors THEN "pick" ELSE after
    /\ UNCHANGED <<strategy, enabled, avail, expired, cursor, attempts, row, passed>>

\* With a short Retry-After and no fallback the primary is tried again after
\* the delay; otherwise the fallback is selected a second time.
Probe ==
    /\ pc = "probe"
    /\ IF response.status = "short" /\ cands = <<>>
       THEN pc' = "attempt" /\ cands' = <<1>> /\ after' = "again"
       ELSE pc' = "collect" /\ cands' = <<>> /\ after' = "pick"
    /\ UNCHANGED <<strategy, enabled, avail, expired, cursor, attempts, reason,
                   response, row, passed>>

\* The second selection may find nothing though the first one did.
Pick ==
    /\ pc = "pick"
    /\ pc' = IF cands = <<>> THEN "settle" ELSE "attempt"
    /\ UNCHANGED <<strategy, enabled, avail, expired, after, cursor, cands,
                   attempts, reason, response, row, passed>>

-----------------------------------------------------------------------------
(* RequestCompletion::finish                                               *)

\* Mutant: the row is attributed to the line of the returned response.
UpstreamOfResponse ==
    IF response.of = 0 THEN 1 ELSE attempts[response.of].line

\* FinalUpstream: the last line tried, or the route's primary.
Upstream == IF attempts = <<>> THEN 1 ELSE LastAttempt.line

\* The reason is dropped when the first attempt was the only one.
RecordedReason ==
    IF Len(attempts) > 1 \/ reason = "account" THEN reason ELSE "none"

\* Without an attempt the ordered policy answers that no line is available.
Settle ==
    LET final == IF response = NoResponse THEN Gateway("unavailable") ELSE response
    IN  /\ pc = "settle"
        /\ response' = final
        /\ row' = [upstream |-> Upstream, status |-> final.status,
                   success |-> final.status = "success", attempts |-> attempts,
                   reason |-> RecordedReason,
                   timeout |-> strategy = "ordered" /\ final.status = "total"]
        /\ pc' = "done"
        /\ UNCHANGED <<strategy, enabled, avail, expired, after, cursor, cands,
                       attempts, reason, passed>>

Next ==
    \/ Environment \/ Expire
    \/ Start \/ CollectOne \/ Collected
    \/ \E outcome \in Outcomes : Execute(outcome)
    \/ Walk \/ JudgeOrdered
    \/ Instead \/ JudgeFirst \/ JudgeLast \/ Probe \/ Pick
    \/ Settle

Spec == Init /\ [][Next]_vars

-----------------------------------------------------------------------------
(* Properties                                                              *)

\* The ordered policy tries each line at most once, in the configured order
\* and within max_retries; the weighted one makes at most two attempts, and
\* two on one line only when a short Retry-After asked for it.  An answer that
\* is not retryable, success included, is final: nothing is sent after it.
AttemptDiscipline ==
    LET N == Len(attempts)
    IN  /\ strategy = "ordered" =>
              /\ N <= AttemptLimit
              /\ \A j, k \in 1..N : j < k => attempts[j].line < attempts[k].line
        /\ strategy = "weighted" =>
              /\ N <= 2
              /\ N = 2 /\ attempts[1].line = attempts[2].line =>
                    attempts[1].outcome = "short"
        /\ \A k \in 1..(N - 1) : attempts[k].outcome \in Retryable \cup TransportErrors

\* The logical event says what happened: it is attributed to the successful
\* attempt, or to the last one made when all of them failed, with the status of
\* a final answer; and the reason it records is true: the primary's line was not
\* usable and was not tried, or the first attempt failed that way and another
\* one followed.
AttributionTruthful ==
    row # NoRow =>
        /\ row.attempts # <<>> =>
              /\ row.upstream = LastAttempt.line
              /\ row.success <=> LastAttempt.outcome = "success"
              /\ LastAttempt.outcome \notin Retryable \cup TransportErrors =>
                    row.status = LastAttempt.outcome
        /\ row.reason # "none" =>
              \/ row.reason = "account" /\ \A k \in DOMAIN attempts : attempts[k].line # 1
              \/ Len(attempts) > 1 /\ attempts[1].outcome = row.reason

\* Giving up is justified: a request that ends with a failure of an upstream
\* has used its attempts, run out of time or found every line it did not try
\* unavailable on its way.
NoEarlyGiveUp ==
    row # NoRow /\ strategy = "ordered" /\ row.status \in Retryable \cup {"transport", "connect"} =>
        \/ Len(attempts) = AttemptLimit
        \/ \A n \in DOMAIN Lines :
              n \in passed \/ \E k \in DOMAIN attempts : attempts[k].line = n

=============================================================================
