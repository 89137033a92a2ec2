----------------------------- MODULE StreamRelay -----------------------------
(***************************************************************************)
(* The body of one streaming response: next_native (src/proxy/stream.rs)   *)
(* relays the upstream's chunks and adds heartbeats and error frames, and  *)
(* observe_stream_body (src/proxy/usage.rs) watches what the relay yields, *)
(* to report once how the stream ended.  Both run their own                *)
(* SseEventTracker, and only the second one sees the gateway's frames.     *)
(*                                                                         *)
(* Bytes are abstracted to pieces: a piece is "nl" or a run of bytes that  *)
(* stands for a whole line or for the part of a line a chunk ends in.  A   *)
(* line made of several pieces is what the parser makes of the join.       *)
(*   "comment", "hb"    a comment line; the heartbeat's                    *)
(*   "meta", "raw"      id: or retry: line; a line with no SSE field       *)
(*   "delta1".."3"      data: a Chat chunk of that choice, not finished    *)
(*   "finish1", "2"     data: the choice's finish_reason                   *)
(*   "head", "rest"     data: line of "delta1" cut in two                  *)
(*   "done"             data: [DONE]                                       *)
(*   "failure"          data: {"error": ..}                                *)
(*   "other"            data: without a meaning here, JSON or not          *)
(*   "stop", "everror", "evother"   event: message_stop, error, any other  *)
(*   a termination      data: {"error": {"code": "gateway_.."}}            *)
(***************************************************************************)
EXTENDS Integers, FiniteSets, Sequences

CONSTANTS
    Chunks,      \* what the upstream may send at once: sequences of pieces
    Protocols,   \* "chat" (OpenAiChatCompletions) and "other"
    Timers,      \* the limits and the heartbeat that are not configured as zero
    FrameLimit,  \* MAX_SSE_FRAME_BYTES, in pieces
    MaxChoices   \* MAX_TRACKED_CHAT_CHOICES

Failures == {"EmptyStream", "UpstreamError", "TransportError",
             "IncompleteStream", "BufferLimitExceeded", "ClientCancelled",
             "FirstEventTimeout", "IdleTimeout", "TotalTimeout"}

Comments == {"comment", "hb"}
Events == {"stop", "everror", "evother"}
Deltas == [delta1 |-> 1, delta2 |-> 2, delta3 |-> 3]
Finishes == [finish1 |-> 1, finish2 |-> 2]
Data == DOMAIN Deltas \cup DOMAIN Finishes \cup Failures
            \cup {"head", "done", "failure", "other"}
Pieces == Comments \cup Events \cup Data \cup {"meta", "raw", "rest", "nl"}

ASSUME StreamAssumption ==
    /\ Chunks \subseteq Seq(Pieces) \ {<<>>}
    /\ Protocols \subseteq {"chat", "other"}
    /\ Timers \subseteq {"heartbeat", "first", "idle", "total"}
    /\ FrameLimit \in Nat \ {0} /\ MaxChoices \in Nat \ {0}

VARIABLES
    protocol,     \* NativeState.protocol
    tracker,      \* NativeState.tracker
    pending,      \* NativeState.pending: chunks
    finishing,    \* NativeState.finish_after_pending
    lastEvent,    \* NativeState.last_event is set
    inPoll,       \* the relay has queued something and not yet returned
    seen,         \* ObservationGuard.tracker
    termination,  \* ObservationGuard.termination, or "none"
    reports,      \* what the completion callback was called with
    body,         \* "open", "ended" (polled to None) or "dropped"
    judged,       \* how the relay judged the stream, or "none" so far
    cut           \* the upstream closed inside a frame

relayVars == <<protocol, tracker, pending, finishing, lastEvent, judged, cut>>
guardVars == <<seen, termination, reports, body>>
streamVars == <<relayVars, inPoll, guardVars>>

-----------------------------------------------------------------------------
(* SseEventTracker                                                         *)

EmptyTracker ==
    [line |-> "", frameBytes |-> 0, event |-> "", data |-> "",
     nonComment |-> FALSE, sawProvider |-> FALSE, sawSse |-> FALSE,
     unfinished |-> {}, sawFinish |-> FALSE, terminal |-> "none"]

NoActivity == [provider |-> FALSE, terminal |-> "none", error |-> FALSE]

\* merge_terminal: the first failure stays, success gives way to a failure.
Merge(current, candidate) ==
    IF candidate = "none" \/ current \in Failures THEN current ELSE candidate

\* The line that l becomes when p is read on.
Join(l, p) ==
    CASE l = ""                              -> IF p = "rest" THEN "raw" ELSE p
      [] l = "head" /\ p = "rest"            -> "delta1"
      [] l \in Comments \cup {"meta", "raw"} -> l
      [] l \in Events                        -> "evother"
      [] OTHER                               -> "other"

\* classify_frame: what a frame says about the end of the stream.  error
\* without a gateway termination is an error frame of the provider.
Classify(event, data) ==
    CASE data = "done" \/ event = "stop" ->
            [terminal |-> "Completed", error |-> FALSE, gateway |-> "none"]
      [] OTHER ->
            [terminal |-> "none",
             error |-> data \in Failures \cup {"failure"} \/ event = "everror",
             gateway |-> IF data \in Failures THEN data ELSE "none"]

\* limit_exceeded
LimitExceeded(f) ==
    [t |-> [f.t EXCEPT !.line = "", !.data = "", !.event = "", !.unfinished = {},
                       !.terminal = "BufferLimitExceeded"],
     a |-> [f.a EXCEPT !.terminal = "BufferLimitExceeded", !.error = TRUE]]

\* The Chat choices of a frame: finish_reason closes one, a delta opens one.
TrackChoice(t, data) ==
    CASE data \in DOMAIN Finishes ->
            [t EXCEPT !.sawFinish = TRUE, !.unfinished = @ \ {Finishes[data]}]
      [] data \in DOMAIN Deltas ->
            [t EXCEPT !.unfinished = @ \cup {Deltas[data]}]
      [] OTHER -> t

\* The tail of dispatch: the classified frame is merged into both terminals.
Conclude(f, c) ==
    LET said == IF c.gateway # "none" THEN c.gateway
                ELSE IF c.error THEN "UpstreamError" ELSE c.terminal
        provider == c.gateway = "none"
    IN  [t |-> [f.t EXCEPT !.sawProvider = @ \/ provider,
                           !.terminal = Merge(@, said)],
         a |-> [provider |-> f.a.provider \/ provider,
                terminal |-> Merge(f.a.terminal, said),
                error |-> f.a.error \/ c.error]]

\* dispatch: a blank line, or the end of the body, closes a frame.
Dispatch(f) ==
    IF ~f.t.nonComment /\ f.t.data = "" /\ f.t.event = ""
    THEN f
    ELSE LET taken   == [f.t EXCEPT !.event = "", !.data = "", !.nonComment = FALSE]
             tracked == TrackChoice(taken, f.t.data)
         IN  IF Cardinality(tracked.unfinished) > MaxChoices
             THEN LimitExceeded([f EXCEPT !.t = taken])
             ELSE Conclude([f EXCEPT !.t = tracked],
                           Classify(f.t.event, f.t.data))

\* process_line
ProcessLine(f) ==
    LET l == f.t.line
        g == [f EXCEPT !.t.line = ""]
    IN  CASE l = ""          -> Dispatch([g EXCEPT !.t.frameBytes = 0])
          [] l \in Comments  -> g
          [] l \in Events    -> [g EXCEPT !.t.sawSse = TRUE, !.t.event = l]
          [] l \in Data      -> [g EXCEPT !.t.sawSse = TRUE,
                                          !.t.data = IF @ = "" THEN l ELSE "other"]
          [] l = "meta"      -> [g EXCEPT !.t.sawSse = TRUE]
          [] OTHER           -> [g EXCEPT !.t.nonComment = TRUE]

\* One turn of feed's loop; the loop is left when the limit is reached.
FeedPiece(f, p) ==
    LET g == [f EXCEPT !.t.frameBytes = @ + 1]
    IN  IF f.t.terminal = "BufferLimitExceeded" THEN f
        ELSE IF f.t.frameBytes >= FrameLimit THEN LimitExceeded(f)
        ELSE IF p = "nl" THEN ProcessLine(g)
        ELSE [g EXCEPT !.t.line = Join(@, p),
                       !.t.nonComment = @ \/ (g.t.line = "" /\ p \notin Comments)]

\* A chunk that does not look like SSE counts as an event at once.
LooksRaw(t, chunk) ==
    /\ t.line = "" /\ t.data = "" /\ t.event = ""
    /\ \E i \in DOMAIN chunk : /\ chunk[i] \in {"raw", "rest"}
                               /\ \A j \in 1..(i - 1) : chunk[j] = "nl"

\* feed's loop: one turn for each piece of the chunk.
FeedPieces(start, chunk) ==
    LET fed[n \in 0..Len(chunk)] ==
            IF n = 0 THEN start ELSE FeedPiece(fed[n - 1], chunk[n])
    IN  fed[Len(chunk)]

\* feed
Feed(t, chunk) ==
    IF t.terminal = "BufferLimitExceeded"
    THEN [t |-> t, a |-> [NoActivity EXCEPT !.terminal = t.terminal, !.error = TRUE]]
    ELSE FeedPieces([t |-> [t EXCEPT !.sawProvider = @ \/ LooksRaw(t, chunk)],
                     a |-> [NoActivity EXCEPT !.provider = LooksRaw(t, chunk)]],
                    chunk)

\* finish_eof
FinishEof(t) ==
    LET f == [t |-> t, a |-> NoActivity]
    IN  Dispatch(IF t.line = "" THEN f ELSE ProcessLine(f))

\* Mutant: only the current line is looked at.
SafeByLine(t) == t.line = ""

\* safe_for_heartbeat: no frame is open.
SafeForHeartbeat(t) ==
    t.line = "" /\ t.data = "" /\ t.event = "" /\ ~t.nonComment

\* What an activity says about the stream, as the observer reads it.
Outcome(a) ==
    IF a.error /\ a.terminal \notin Failures THEN "UpstreamError" ELSE a.terminal

-----------------------------------------------------------------------------
RelayInit ==
    /\ protocol \in Protocols
    /\ tracker = EmptyTracker /\ seen = EmptyTracker
    /\ pending = <<>> /\ finishing = FALSE
    /\ lastEvent = FALSE /\ inPoll = FALSE
    /\ termination = "none" /\ reports = <<>>
    /\ body = "open"
    /\ judged = "none" /\ cut = FALSE

-----------------------------------------------------------------------------
(* next_native                                                             *)

Heartbeat == <<"hb", "nl", "nl">>
FrameEnd == <<"nl", "nl">>
DoneFrame == <<"done", "nl", "nl">>

\* gateway_error_frame
ErrorFrame(t) ==
    IF protocol = "chat" THEN <<t, "nl", "nl">> \o DoneFrame
    ELSE <<"everror", "nl", t, "nl", "nl">>

\* Mutant: the interrupted frame is left open.
FailureChunksBare(trk, t) == <<ErrorFrame(t)>>

\* queue_failure: an interrupted frame is ended before the error frame.
FailureChunks(trk, t) ==
    IF ~SafeForHeartbeat(trk) \/ t = "BufferLimitExceeded"
    THEN <<FrameEnd, ErrorFrame(t)>>
    ELSE <<ErrorFrame(t)>>

\* The relay is waiting for the upstream or a deadline.
Waiting == body = "open" /\ pending = <<>> /\ ~finishing

\* The relay has decided: what it queued last, and its verdict.
Finish(chunks, t) ==
    /\ pending' = chunks
    /\ finishing' = TRUE
    /\ inPoll' = TRUE
    /\ judged' = t

\* Bytes from the upstream: forwarded as they are, whatever they say.
UpstreamChunk(c) ==
    LET f == Feed(tracker, c)
    IN  /\ Waiting
        /\ tracker' = f.t
        /\ lastEvent' = (lastEvent \/ f.a.provider)
        /\ IF f.a.terminal = "BufferLimitExceeded"
           THEN Finish(<<c>> \o FailureChunks(f.t, f.a.terminal), f.a.terminal)
           ELSE IF f.a.error \/ f.a.terminal # "none"
           THEN Finish(<<c>>, Outcome(f.a))
           ELSE /\ pending' = <<c>> /\ inPoll' = TRUE
                /\ UNCHANGED <<finishing, judged>>
        /\ UNCHANGED <<protocol, cut, guardVars>>

\* The body of the upstream fails.
UpstreamError ==
    /\ Waiting
    /\ Finish(FailureChunks(tracker, "TransportError"), "TransportError")
    /\ UNCHANGED <<protocol, tracker, lastEvent, cut, guardVars>>

\* The chunks queued, and the verdict, when the upstream has closed.
AtEof(t) ==
    CASE t.terminal # "none"  -> <<<<>>, t.terminal>>
      [] t.terminal = "none" /\ ~t.sawProvider ->
            <<FailureChunks(t, "EmptyStream"), "EmptyStream">>
      [] t.terminal = "none" /\ t.sawProvider /\ t.sawSse ->
            IF protocol = "chat" /\ t.sawFinish /\ t.unfinished = {}
            THEN <<<<DoneFrame>>, "Completed">>
            ELSE <<FailureChunks(t, "IncompleteStream"), "IncompleteStream">>
      [] OTHER -> <<<<>>, "Completed">>

\* The body of the upstream ends.
UpstreamEof ==
    LET t == FinishEof(tracker).t
        e == AtEof(t)
    IN  /\ Waiting
        /\ tracker' = [t EXCEPT !.terminal =
                          IF e[1] = <<DoneFrame>> THEN Merge(@, "Completed") ELSE @]
        /\ Finish(e[1], e[2])
        /\ cut' = ~SafeForHeartbeat(tracker)
        /\ UNCHANGED <<protocol, lastEvent, guardVars>>

\* Mutant: the total limit ends with the first event.
ArmedTotalOnce(timer) ==
    /\ timer \in Timers
    /\ CASE timer = "idle" -> lastEvent
         [] OTHER          -> ~tracker.sawProvider

\* first_deadline, idle_deadline and total_deadline.
Armed(timer) ==
    /\ timer \in Timers
    /\ CASE timer = "first" -> ~tracker.sawProvider
         [] timer = "idle"  -> lastEvent
         [] timer = "total" -> TRUE

Deadlines == [first |-> "FirstEventTimeout", idle |-> "IdleTimeout",
              total |-> "TotalTimeout"]

\* A deadline has passed, found before the select or by its sleep.
Timeout(timer) ==
    /\ Waiting /\ Armed(timer)
    /\ Finish(FailureChunks(tracker, Deadlines[timer]), Deadlines[timer])
    /\ UNCHANGED <<protocol, tracker, lastEvent, cut, guardVars>>

\* The heartbeat interval has passed; inside a frame the beat is skipped.
HeartbeatDue ==
    /\ Waiting /\ "heartbeat" \in Timers
    /\ SafeForHeartbeat(tracker)
    /\ pending' = <<Heartbeat>> /\ inPoll' = TRUE
    /\ UNCHANGED <<protocol, tracker, finishing, lastEvent, judged, cut, guardVars>>

-----------------------------------------------------------------------------
(* observe_stream_body                                                     *)

\* ObservationGuard::complete
Complete(t) ==
    LET final == IF termination # "none" THEN termination ELSE t
    IN  IF reports = <<>>
        THEN reports' = <<final>> /\ termination' = final
        ELSE UNCHANGED <<reports, termination>>

\* pop_front
Take == body = "open" /\ pending # <<>> /\ pending' = Tail(pending)

\* The relay yields a chunk and the guard observes it.
Yield ==
    /\ Take /\ inPoll' = FALSE
    /\ LET f == Feed(seen, Head(pending))
       IN  /\ seen' = f.t
           /\ termination' = IF Outcome(f.a) = "none" THEN termination
                             ELSE Outcome(f.a)
    /\ UNCHANGED <<protocol, tracker, finishing, lastEvent, judged, cut,
                   reports, body>>

Close == body = "open" /\ pending = <<>> /\ finishing /\ body' = "ended"

\* The relay yields None: the guard judges the end and reports.
BodyEnd ==
    LET f == FinishEof(seen)
    IN  /\ Close /\ inPoll' = FALSE
        /\ seen' = f.t
        /\ Complete(IF f.a.error THEN Outcome(f.a)
                    ELSE IF ~f.t.sawProvider THEN "EmptyStream"
                    ELSE IF f.t.terminal # "none" THEN f.t.terminal
                    ELSE IF f.t.sawSse THEN "IncompleteStream" ELSE "Completed")
        /\ UNCHANGED relayVars

\* The body is dropped, between two polls: by a client that left, or after
\* it was read to the end.
DropBody ==
    /\ body # "dropped" /\ ~inPoll
    /\ body' = "dropped"
    /\ Complete("ClientCancelled")
    /\ UNCHANGED <<relayVars, inPoll, seen>>

RelayNext ==
    \/ \E c \in Chunks : UpstreamChunk(c)
    \/ UpstreamError \/ UpstreamEof
    \/ \E timer \in DOMAIN Deadlines : Timeout(timer)
    \/ HeartbeatDue
    \/ Yield \/ BodyEnd \/ DropBody

RelaySpec == RelayInit /\ [][RelayNext]_streamVars

\* The client polls, and the total limit is configured: the deadline is looked
\* at on every turn of the relay, before the upstream, so an upstream that
\* never stops sending cannot postpone it for ever.  (Take is what only Yield
\* does, Close what only BodyEnd does.)
RelayFairness == WF_pending(Take) /\ WF_body(Close) /\ SF_streamVars(Timeout("total"))

FairRelaySpec == RelaySpec /\ RelayFairness

-----------------------------------------------------------------------------
(* Properties                                                              *)

\* Comments leave a frame open without making it unsafe for the gateway's own
\* chunks, so a heartbeat or an error frame can be what exceeds the frame
\* limit, at the observer only.
Overrun == seen.terminal = "BufferLimitExceeded"

\* The relay's tracker and the observer's, which also sees the heartbeats,
\* agree on everything but the size of the frame whenever the relay waits:
\* what the relay decides from its tracker holds for the bytes the client got.
TrackersAgree ==
    Waiting /\ ~Overrun =>
        /\ [tracker EXCEPT !.frameBytes = 0] = [seen EXCEPT !.frameBytes = 0]
        /\ seen.frameBytes <= tracker.frameBytes

\* Every stream is recorded once and with the right verdict.  A body that is
\* read to the end gets the relay's own verdict, though the observer has to
\* find it again in the bytes: the gateway's error frames, the [DONE] behind
\* them and what came before; or the limit, where the gateway's own frames
\* exceeded it (upstreams that close inside a frame are excepted;
\* FailureIsNotSuccess is about them).  A client that leaves before
\* the relay has judged the stream is recorded as cancelled.
VerdictFaithful ==
    /\ body = "open" => reports = <<>>
    /\ body = "ended" /\ ~cut =>
            \/ reports = <<judged>>
            \/ Overrun /\ reports = <<"BufferLimitExceeded">>
    /\ body = "dropped" => Len(reports) = 1
    /\ body = "dropped" /\ judged = "none" /\ ~Overrun =>
            reports = <<"ClientCancelled">>

\* Every stream ends while its client reads, by the total limit at the latest.
StreamsEnd == body = "open" ~> body # "open"

\* "provider_stream_without_terminal_event_is_not_reported_as_success": a
\* stream the relay judged a failure is never recorded as completed, also when
\* the upstream closed inside a frame.
FailureIsNotSuccess ==
    body = "ended" /\ judged \in Failures => reports # <<"Completed">>

=============================================================================
