----------------------------- MODULE UsageLedger -----------------------------
(***************************************************************************)
(* The usage ledger: what one request leaves in usage_events and           *)
(* usage_event_attempts, and what the readers of those tables see.         *)
(*                                                                         *)
(* A request makes one or more attempts upstream (proxy/transport.rs),     *)
(* each under the earlier of the connection timeout and what is left of    *)
(* the request's total time.  A buffered answer is measured when its body  *)
(* is complete; an event stream is measured while it is forwarded          *)
(* (proxy/usage.rs) and finalised when it ends (proxy/accounting.rs).  The *)
(* result is inserted, with retries for streams, by infra/db/usage.rs,     *)
(* which also pages, exports and aggregates the rows.                      *)
(*                                                                         *)
(* Permits and draining are in module Settlement, the bytes of a stream in *)
(* StreamRelay, the choice of the next attempt in ProxyRequest.            *)
(***************************************************************************)
EXTENDS Integers, Sequences, FiniteSets, SequencesExt, FiniteSetsExt

CONSTANTS
    Requests,           \* request identifiers, naturals: their order breaks ties
    Frames,             \* [usage, model, think, big]: the data events of a stream
    Bodies,             \* [usage, model]: the JSON bodies of buffered answers
    Filters,            \* the filters readers use
    None,               \* an absent optional value
    NotInt,             \* a field that is there and holds no integer
    TotalTimeout, ConnectionTimeout,    \* StreamConfig; 0 switches one off
    EstimatedInput, EstimatedOutput,    \* what the tokenizer counts
    PageSize, ExportLimit, BucketSize,
    MaxTries,           \* inserts a stream is worth: 3 in the code
    MaxAttempts, MaxFrames, MaxClock, MaxUpstream   \* bounds of the model

ASSUME LedgerAssumption ==
    /\ Requests \subseteq Nat
    /\ {TotalTimeout, ConnectionTimeout, EstimatedInput, EstimatedOutput} \subseteq Nat
    /\ {PageSize, BucketSize} \subseteq Nat \ {0} /\ ExportLimit \in Nat
    /\ \A frame \in Frames : frame.big \in BOOLEAN
    /\ \A carrier \in Frames \cup Bodies : carrier.usage # None =>
        \A key \in DOMAIN carrier.usage : carrier.usage[key] \in Int \cup {NotInt}
    /\ None \notin Nat /\ None \notin [at : Nat, id : Nat]
    /\ None \notin [deadline : Nat, cause : {"total", "connection"}]

VARIABLES
    clock,
    req,        \* the request's state in memory
    ledger,     \* usage_events with the attempts of each: a function on the ids
    walk,       \* a client paging through the events
    work        \* how many attempts and frames the bounds still allow

ledgerVars == <<clock, req, ledger, walk, work>>

-----------------------------------------------------------------------------
(* The counters of one usage object. *)

\* A key of a details object stands for the one counter the code reads in it.
PlainCounters == {"input_tokens", "prompt_tokens", "output_tokens", "completion_tokens",
                  "total_tokens", "reasoning_tokens", "cached_tokens",
                  "cache_read_input_tokens", "cache_creation_input_tokens"}
DetailCounters == {"input_tokens_details", "prompt_tokens_details",
                   "output_tokens_details", "completion_tokens_details"}
TrafficCounters == {"input_tokens", "prompt_tokens", "output_tokens", "completion_tokens"}

Reports(u, key) == key \in DOMAIN u /\ u[key] # NotInt
I64At(u, key) == IF Reports(u, key) THEN u[key] ELSE 0

\* The first of the keys that the object has; the last one when it has none.
FirstKey(u, keys) ==
    keys[Min({i \in DOMAIN keys : keys[i] \in DOMAIN u} \cup {Len(keys)})]

Counters(in, out, reasoning, read, creation, total, source) ==
    [input |-> in, output |-> out, reasoning |-> reasoning, read |-> read,
     creation |-> creation, cached |-> read + creation, total |-> total, source |-> source]

ReportFromUsage(u, source) ==
    LET in  == I64At(u, FirstKey(u, <<"input_tokens", "prompt_tokens">>))
        out == I64At(u, FirstKey(u, <<"output_tokens", "completion_tokens">>))
        reasoning == I64At(u, FirstKey(u, <<"output_tokens_details",
                                            "completion_tokens_details", "reasoning_tokens">>))
        detailed  == {"input_tokens_details", "prompt_tokens_details"} \cap DOMAIN u # {}
        read      == IF detailed
                     THEN I64At(u, FirstKey(u, <<"input_tokens_details", "prompt_tokens_details">>))
                     ELSE I64At(u, "cache_read_input_tokens") + I64At(u, "cached_tokens")
        creation  == IF detailed THEN 0 ELSE I64At(u, "cache_creation_input_tokens")
        total     == IF Reports(u, "total_tokens") THEN u["total_tokens"] ELSE in + out
    IN  Counters(in, out, reasoning, read, creation, total, source)

IsPresent(report) ==
    \E field \in {"input", "output", "reasoning", "cached", "read", "creation", "total"} :
        report[field] > 0

Missing == Counters(0, 0, 0, 0, 0, 0, "missing")
Estimate == Counters(EstimatedInput, EstimatedOutput, 0, 0, 0,
                     EstimatedInput + EstimatedOutput, "estimated")

\* A complete JSON body: what it reports, an estimate for a success without it.
ObserveJsonResponse(success, usage) ==
    LET reported == IF usage = None THEN Missing ELSE ReportFromUsage(usage, "upstream")
    IN  CASE IsPresent(reported) -> reported
          [] ~IsPresent(reported) /\ success -> Estimate
          [] OTHER -> Missing

\* Mutant: the total of an earlier event survives new counts of traffic.
MergeSseUsageStale(counters, u) ==
    LET reported == {key \in PlainCounters \cup DetailCounters : Reports(u, key)}
    IN  [key \in DOMAIN counters \cup reported |->
            IF key \in reported THEN u[key] ELSE counters[key]]

\* The data events of a stream merged one by one: a field an event leaves out
\* keeps its value, and a total is dropped when the traffic it summed changes.
MergeSseUsage(counters, u) ==
    LET reported == {key \in PlainCounters \cup DetailCounters : Reports(u, key)}
        stale    == IF ~Reports(u, "total_tokens") /\ reported \cap TrafficCounters # {}
                    THEN {"total_tokens"} ELSE {}
    IN  [key \in (DOMAIN counters \ stale) \cup reported |->
            IF key \in reported THEN u[key] ELSE counters[key]]

-----------------------------------------------------------------------------
(* What the observer of a stream keeps. *)

\* ThinkingEstimate: blocks between the markers, one token for each closed one.
FeedThinking(t, mark) ==
    CASE t.unavailable -> t
      [] ~t.unavailable /\ mark = "open" -> [t EXCEPT !.inside = TRUE]
      [] ~t.unavailable /\ t.inside /\ mark = "close" ->
            [t EXCEPT !.inside = FALSE, !.tokens = @ + 1]
      [] ~t.unavailable /\ t.inside /\ mark = "over_limit" -> [t EXCEPT !.unavailable = TRUE]
      [] OTHER -> t

ThinkingResult(t) == IF t.unavailable \/ t.inside THEN None ELSE t.tokens

\* The first model a stream names is kept.
ObserveIdentity(identity, model) == IF identity = None THEN model ELSE identity

NewObservation ==
    [counters |-> <<>>, identity |-> None, truncated |-> FALSE, seen |-> <<>>,
     thinking |-> [inside |-> FALSE, unavailable |-> FALSE, tokens |-> 0]]

Observe(o, frame) ==
    [counters  |-> IF frame.usage = None THEN o.counters ELSE MergeSseUsage(o.counters, frame.usage),
     identity  |-> ObserveIdentity(o.identity, frame.model),
     truncated |-> o.truncated \/ frame.big,
     thinking  |-> FeedThinking(o.thinking, frame.think),
     seen      |-> Append(o.seen, frame)]

UsageForStreamObservation(success, o) ==
    LET base == CASE DOMAIN o.counters # {} -> ReportFromUsage(o.counters, "parsed")
                  [] DOMAIN o.counters = {} /\ success /\ ~o.truncated -> Estimate
                  [] OTHER -> Missing
        estimated == ThinkingResult(o.thinking)
    IN  IF base.reasoning = 0 /\ base.source # "missing"
        THEN [base EXCEPT !.reasoning = IF estimated = None THEN 0 ELSE estimated]
        ELSE base

-----------------------------------------------------------------------------
(* The timers of an attempt. *)

\* A timer is a deadline and the status of the timeout it ends with.
TotalDeadline(started) ==
    IF TotalTimeout = 0 THEN None
    ELSE [deadline |-> started + TotalTimeout, cause |-> "total"]
ConnectionDeadline(now) ==
    IF ConnectionTimeout = 0 THEN None
    ELSE [deadline |-> now + ConnectionTimeout, cause |-> "connection"]

\* Mutant: every attempt gets the whole connection timeout.
EarliestSendTimeoutPerAttempt(started, now) ==
    IF ConnectionTimeout = 0 THEN TotalDeadline(started) ELSE ConnectionDeadline(now)

EarliestSendTimeout(started, now) ==
    LET total == TotalDeadline(started)
        connection == ConnectionDeadline(now)
    IN  CASE total = None -> connection
          [] total # None /\ connection = None -> total
          [] OTHER -> IF total.deadline <= connection.deadline THEN total ELSE connection

Elapsed(timer) == timer # None /\ timer.deadline <= clock

-----------------------------------------------------------------------------
(* Requests. *)

Idle == [phase |-> "idle", streams |-> FALSE, sse |-> FALSE, ok |-> FALSE, started |-> 0,
         timer |-> None, attempts |-> <<>>, observation |-> NewObservation,
         event |-> None, final |-> None, tries |-> 0, stamp |-> None]
Settled == [Idle EXCEPT !.phase = "settled"]
Upstream == {"choosing", "sending", "buffering", "streaming"}

LedgerInit ==
    /\ clock = 0
    /\ req = [r \in Requests |-> Idle]
    /\ ledger = <<>>
    /\ walk = [phase |-> "idle"]
    /\ work = [attempts |-> MaxAttempts, frames |-> MaxFrames]

Proceed(r, q) == req' = [req EXCEPT ![r] = q] /\ UNCHANGED <<clock, ledger, walk>>
Become(r, q) == Proceed(r, q) /\ UNCHANGED work

\* What becomes of an attempt is one row of usage_event_attempts; of its
\* status code, and of the event's, the model keeps whether it is a success.
Attempted(q, success) == [q EXCEPT !.timer = None, !.attempts = Append(@, success)]
FailAttempt(q) == [Attempted(q, FALSE) EXCEPT !.phase = "choosing"]

\* RequestCompletion::event: one event for the request, whatever it took.
Event(q, success, report) ==
    [success |-> success, source |-> report.source, total |-> report.total,
     retries |-> IF q.attempts = <<>> THEN 0 ELSE Len(q.attempts) - 1]

\* The event is ready for the insert, which may be tried so many times.  Of
\* its columns it keeps what the readers below tell apart; the whole report,
\* the model and the frames they came from stay in final until the first try.
Conclude(q, success, report, model, tries) ==
    [Idle EXCEPT !.phase = "writing", !.tries = tries, !.attempts = q.attempts,
                 !.event = Event(q, success, report),
                 !.final = [report |-> report, model |-> model, seen |-> q.observation.seen]]

\* Identifiers are random and only break ties, so the model begins requests
\* in their order.
Begin(r) ==
    /\ req[r].phase = "idle"
    /\ \A o \in Requests : o < r => req[o].phase # "idle"
    /\ Cardinality({o \in Requests : req[o].phase \in Upstream}) < MaxUpstream
    /\ \E streams \in BOOLEAN :
        Become(r, [Idle EXCEPT !.phase = "choosing", !.streams = streams, !.started = clock])

\* forward_url_with_config up to the send: no time left fails at once.
Send(r) ==
    LET timer == EarliestSendTimeout(req[r].started, clock)
    IN  /\ req[r].phase = "choosing"
        /\ work.attempts > 0
        /\ work' = [work EXCEPT !.attempts = @ - 1]
        /\ Proceed(r, IF Elapsed(timer)
                     THEN FailAttempt(req[r])
                     ELSE [req[r] EXCEPT !.phase = "sending", !.timer = timer])

TimeOut(r) ==
    /\ req[r].phase \in {"sending", "buffering"}
    /\ Elapsed(req[r].timer)
    /\ Become(r, FailAttempt(req[r]))

\* A refused address or a broken connection, and a timeout of the client itself.
TransportFails(r) ==
    /\ req[r].phase \in {"sending", "buffering"}
    /\ Become(r, FailAttempt(req[r]))

\* The response head.  A request that asked for a stream gets a live body: an
\* event stream is observed, anything else is recorded with no report at all.
\* A body that was not asked to stream is buffered until the total deadline.
ResponseHead(r) ==
    \E ok \in BOOLEAN, sse \in BOOLEAN :
        LET q == [req[r] EXCEPT !.ok = ok, !.sse = sse]
            done == Attempted(q, ok)
        IN  /\ req[r].phase = "sending"
            /\ \/ /\ ~q.streams
                  /\ Become(r, [q EXCEPT !.phase = "buffering", !.timer = TotalDeadline(q.started)])
               \/ /\ q.streams /\ sse
                  /\ Become(r, [done EXCEPT !.phase = "streaming"])
               \/ /\ q.streams /\ ~sse
                  /\ Become(r, Conclude(done, ok, Missing, None, 1))
               \/ /\ q.streams /\ ~ok
                  /\ Become(r, [done EXCEPT !.phase = "choosing"])

\* The whole body: measured, and the report kept with the response; a failure
\* may be retried instead.  An event stream is observed like a live one.
BodyComplete(r) ==
    \E body \in Bodies :
        LET q == Attempted(req[r], req[r].ok)
        IN  /\ req[r].phase = "buffering"
            /\ \/ /\ ~q.ok
                  /\ Become(r, [q EXCEPT !.phase = "choosing"])
               \/ /\ ~q.sse
                  /\ Become(r, Conclude(q, q.ok, ObserveJsonResponse(q.ok, body.usage), body.model, 1))
               \/ /\ q.sse
                  /\ Become(r, [q EXCEPT !.phase = "streaming"])

\* No attempt is left, or none could be made: the gateway answers by itself.
GiveUp(r) ==
    /\ req[r].phase = "choosing"
    /\ Become(r, Conclude(req[r], FALSE, Missing, None, 1))

ObserveFrame(r) ==
    /\ req[r].phase = "streaming"
    /\ work.frames > 0
    /\ work' = [work EXCEPT !.frames = @ - 1]
    /\ \E frame \in Frames :
        Proceed(r, [req[r] EXCEPT !.observation = Observe(@, frame)])

\* finalize_stream_usage: a failed end overrides the success of the event and
\* of its last attempt; the report is made from what was observed.
FinalizeStreamUsage(q, failed) ==
    LET success  == q.ok /\ ~failed
        report   == UsageForStreamObservation(success, q.observation)
        attempts == IF failed THEN [q.attempts EXCEPT ![Len(q.attempts)] = FALSE] ELSE q.attempts
    IN  Conclude([q EXCEPT !.attempts = attempts], success, report,
                 q.observation.identity, MaxTries)

\* Any termination but a completed one is a failure; a stream without an
\* event cannot complete.
EndStream(r) ==
    /\ req[r].phase = "streaming"
    /\ \E failed \in BOOLEAN :
        /\ ~failed => req[r].observation.seen # <<>>
        /\ Become(r, FinalizeStreamUsage(req[r], failed))

-----------------------------------------------------------------------------
(* Writing. *)

\* INSERT ... ON CONFLICT DO NOTHING, the event and its attempts in one
\* transaction; created_at is read before the transaction begins.
Row(q) == [created_at |-> q.stamp, attempts |-> q.attempts, success |-> q.event.success,
           source |-> q.event.source, total |-> q.event.total, retries |-> q.event.retries]
Put(r, row) == [o \in DOMAIN ledger \cup {r} |-> IF o = r THEN row ELSE ledger[o]]

\* Mutant: a repeated insert overwrites the row.
InsertedAgain(r, q) == Put(r, Row(q))

Inserted(r, q) == IF r \in DOMAIN ledger THEN ledger ELSE Put(r, Row(q))

\* retry_usage_write: another try, or the event is given up.
Retried(q) ==
    IF q.tries > 1 THEN [q EXCEPT !.tries = @ - 1, !.stamp = None] ELSE Settled

StartWrite(r) ==
    /\ req[r].phase = "writing" /\ req[r].stamp = None
    /\ Become(r, [req[r] EXCEPT !.stamp = clock, !.final = None])

\* The transaction commits; its answer may be lost on the way back.
Commit(r) ==
    /\ req[r].phase = "writing" /\ req[r].stamp # None
    /\ ledger' = Inserted(r, req[r])
    /\ \E acknowledged \in BOOLEAN :
        req' = [req EXCEPT ![r] = IF acknowledged THEN Settled ELSE Retried(@)]
    /\ UNCHANGED <<clock, walk, work>>

WriteFails(r) ==
    /\ req[r].phase = "writing" /\ req[r].stamp # None
    /\ Become(r, Retried(req[r]))

\* The process stops: what was only in memory is gone.
Crash ==
    /\ \E r \in Requests : req[r].phase \notin {"idle", "settled"}
    /\ req' = [r \in Requests |-> IF req[r].phase = "idle" THEN req[r] ELSE Settled]
    /\ UNCHANGED <<clock, ledger, walk, work>>

Tick ==
    /\ clock < MaxClock
    /\ clock' = clock + 1
    /\ UNCHANGED <<req, ledger, walk, work>>

-----------------------------------------------------------------------------
(* Reading. *)

\* parse_usage_query: what is refused before any row is read.
Sources == {"upstream", "parsed", "estimated", "missing"}
ValidQuery(f) ==
    /\ f.from # None /\ f.to # None => f.from < f.to
    /\ f.success \in BOOLEAN \cup {None}
    /\ f.source \in Sources \cup {None}

\* filter_sql: every condition that is set must hold; [from, to) is half open.
Matches(row, f) ==
    /\ f.from # None => row.created_at >= f.from
    /\ f.to # None => row.created_at < f.to
    /\ f.success # None => row.success = f.success
    /\ f.source # None => row.source = f.source

Filtered(f) == {r \in DOMAIN ledger : Matches(ledger[r], f)}

\* ORDER BY created_at DESC, request_id DESC.
Newer(a, b) == \/ a.at > b.at
               \/ a.at = b.at /\ a.id > b.id
Place(r) == [at |-> ledger[r].created_at, id |-> r]
Ahead(rows, r) == Cardinality({o \in rows : Newer(Place(o), Place(r))})
Newest(rows, limit) ==
    LET size == IF Cardinality(rows) > limit THEN limit ELSE Cardinality(rows)
    IN  [i \in 1..size |-> CHOOSE r \in rows : Ahead(rows, r) = i - 1]

\* Rows strictly below the cursor, compared as (created_at, request_id).
Below(r, cursor) == cursor = None \/ Newer(cursor, Place(r))

\* list_usage_events_page: one row more than the page tells whether there are more.
Page(f, cursor) ==
    LET data == Newest({r \in Filtered(f) : Below(r, cursor)}, PageSize + 1)
        more == Len(data) > PageSize
        rows == IF more THEN SubSeq(data, 1, PageSize) ELSE data
    IN  [rows |-> rows, cursor |-> IF more THEN Place(rows[Len(rows)]) ELSE None]

\* A client follows next_cursor from the first page until there is none.
StartWalk ==
    /\ walk.phase = "idle"
    /\ \E f \in {g \in Filters : ValidQuery(g)} :
        walk' = [phase |-> "open", filter |-> f, cursor |-> None, got |-> <<>>,
                 before |-> Filtered(f)]
    /\ UNCHANGED <<clock, req, ledger, work>>

NextPage ==
    /\ walk.phase = "open"
    /\ LET page == Page(walk.filter, walk.cursor)
       IN  walk' = [walk EXCEPT !.got = @ \o page.rows, !.cursor = page.cursor,
                                !.phase = IF page.cursor = None THEN "closed" ELSE "open"]
    /\ UNCHANGED <<clock, req, ledger, work>>

\* Mutant: the query is limited to what may be exported.
ExportCut(f) == [refused |-> FALSE, rows |-> Newest(Filtered(f), ExportLimit)]

\* usage_export: refused rather than cut.
Refused == [refused |-> TRUE, rows |-> <<>>]
Export(f) ==
    LET rows == Newest(Filtered(f), ExportLimit + 1)
    IN  IF Len(rows) > ExportLimit THEN Refused ELSE [refused |-> FALSE, rows |-> rows]

\* The sums of usage_aggregate, of a bucket of usage_timeseries and of a row
\* of usage_breakdown are taken over the events; attempts are counted apart.
Totals(rows) ==
    [logical_requests  |-> Cardinality(rows),
     upstream_attempts |-> SumFunction([r \in rows |-> Len(ledger[r].attempts)]),
     retries   |-> SumFunction([r \in rows |-> ledger[r].retries]),
     successes |-> Cardinality({r \in rows : ledger[r].success}),
     failures  |-> Cardinality({r \in rows : ~ledger[r].success}),
     total     |-> SumFunction([r \in rows |-> ledger[r].total])]

UsageAggregate(f) == Totals(Filtered(f))

\* key gives each row the group it belongs to; the answer has a row for each group.
GroupBy(key) ==
    {[group |-> k, sums |-> Totals({r \in DOMAIN key : key[r] = k})] :
        k \in {key[r] : r \in DOMAIN key}}

UsageTimeseries(f) == GroupBy([r \in Filtered(f) |-> ledger[r].created_at \div BucketSize])

Dimensions == {"status", "usage_source"}
DimensionOf(row, dimension) ==
    CASE dimension = "status" -> row.success
      [] dimension = "usage_source" -> row.source
UsageBreakdown(f, dimension) ==
    GroupBy([r \in Filtered(f) |-> DimensionOf(ledger[r], dimension)])

\* The answer of usage_aggregate.  Its three queries run one after the other;
\* the model takes them over one state of the ledger.
UsageAnswer(f, dimension) ==
    [aggregate |-> UsageAggregate(f), timeseries |-> UsageTimeseries(f),
     breakdown |-> UsageBreakdown(f, dimension)]

-----------------------------------------------------------------------------
LedgerNext ==
    \/ \E r \in Requests :
        \/ Begin(r) \/ Send(r) \/ TimeOut(r) \/ TransportFails(r) \/ ResponseHead(r)
        \/ BodyComplete(r) \/ GiveUp(r) \/ ObserveFrame(r) \/ EndStream(r)
        \/ StartWrite(r) \/ Commit(r) \/ WriteFails(r)
    \/ Crash \/ Tick \/ StartWalk \/ NextPage

LedgerSpec == LedgerInit /\ [][LedgerNext]_ledgerVars

-----------------------------------------------------------------------------
(* Properties. *)

\* What a stream reported, read off the whole list of its events: the last
\* value of each counter, and the last total unless traffic was counted after it.
ReportedKeys(seen) ==
    {key \in PlainCounters \cup DetailCounters :
        \E i \in DOMAIN seen : seen[i].usage # None /\ Reports(seen[i].usage, key)}
LastAt(seen, key) ==
    Max({i \in DOMAIN seen : seen[i].usage # None /\ Reports(seen[i].usage, key)})
TotalStands(seen) ==
    /\ "total_tokens" \in ReportedKeys(seen)
    /\ \A key \in ReportedKeys(seen) \cap TrafficCounters :
        LastAt(seen, key) <= LastAt(seen, "total_tokens")
LastValues(seen) ==
    [key \in ReportedKeys(seen) \ (IF TotalStands(seen) THEN {} ELSE {"total_tokens"}) |->
        seen[LastAt(seen, key)].usage[key]]

StreamReportTruthful(q) ==
    LET seen     == q.final.seen
        reported == ReportFromUsage(LastValues(seen), "parsed")
        report   == q.final.report
        named    == {i \in DOMAIN seen : seen[i].model # None}
    IN  /\ \/ /\ DOMAIN LastValues(seen) # {}
              /\ [report EXCEPT !.reasoning = reported.reasoning] = reported
              /\ reported.reasoning > 0 => report.reasoning = reported.reasoning
           \/ /\ DOMAIN LastValues(seen) = {}
              /\ report.source = IF q.event.success /\ \A i \in DOMAIN seen : ~seen[i].big
                                 THEN "estimated" ELSE "missing"
        /\ q.final.model = IF named = {} THEN None ELSE seen[Min(named)].model

\* The usage of a stream, merged event by event with bounded memory, is what
\* the whole list of events says: the last value of each counter, no total that
\* an event made stale, the first model named, and an estimate only for a
\* stream that succeeded and whose whole text was sampled.  In the ledger the
\* event agrees with its last attempt and a missing report counts no token
\* (SseUsageAccumulator, usage_for_stream_observation, finalize_stream_usage).
LedgerTruthful ==
    /\ \A r \in {o \in Requests : req[o].final # None} :
        /\ req[r].final.seen # <<>> => StreamReportTruthful(req[r])
        /\ req[r].event.source = "missing" => ~IsPresent(req[r].final.report)
    /\ \A r \in DOMAIN ledger :
        /\ ledger[r].attempts # <<>> => Last(ledger[r].attempts) = ledger[r].success
        /\ ledger[r].source = "estimated" => ledger[r].success

\* A client that pages while requests commit, repeat lost commits and share
\* timestamps sees every row that was there when it began, none twice, newest
\* first (the keyset cursor, and ON CONFLICT DO NOTHING keeping a row in place).
WalksSeeEachRowOnce ==
    walk.phase # "idle" =>
        /\ IsInjective(walk.got)
        /\ \A i \in 1 .. Len(walk.got) - 1 : Newer(Place(walk.got[i]), Place(walk.got[i + 1]))
        /\ walk.phase = "closed" => walk.before \subseteq ToSet(walk.got)

\* The three reports and the export of one filter describe the same rows: the
\* groups add up to the aggregate, the tokens to those of the exported rows,
\* every attempt but the first of a request is a retry, and an export that is
\* not refused is complete (usage_aggregate, usage_timeseries, usage_breakdown,
\* usage_export).
SumOver(groups, field) == SumFunction([g \in groups |-> g.sums[field]])
ReportsAgree ==
    \A f \in {g \in Filters : ValidQuery(g)} :
        LET all    == UsageAggregate(f)
            export == Export(f)
            tried  == {r \in Filtered(f) : ledger[r].attempts # <<>>}
        IN  /\ \A d \in Dimensions :
                LET answer == UsageAnswer(f, d) IN
                \A field \in DOMAIN all :
                    /\ SumOver(answer.timeseries, field) = answer.aggregate[field]
                    /\ SumOver(answer.breakdown, field) = answer.aggregate[field]
            /\ all.upstream_attempts = all.retries + Cardinality(tried)
            /\ export.refused \/
                /\ ToSet(export.rows) = Filtered(f)
                /\ all.total = SumFunction([r \in ToSet(export.rows) |-> ledger[r].total])

\* However many attempts a request makes, no wait on the upstream is armed past
\* the end of its total time, and no attempt is sent after it
\* (earliest_send_timeout, total_deadline).
WithinTotalTime ==
    [][\A r \in Requests :
        LET q == req'[r] IN
        (TotalTimeout # 0 /\ q.phase \in {"sending", "buffering"}) =>
            /\ q.timer # None /\ q.timer.deadline <= q.started + TotalTimeout
            /\ req[r].phase = "choosing" => clock < q.started + TotalTimeout]_ledgerVars
=============================================================================
