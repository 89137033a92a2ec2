----------------------------- MODULE Settlement -----------------------------
(***************************************************************************)
(* Admission and settlement of accounted requests: the permits of          *)
(* SettlementManager (src/proxy/settlement.rs), the hand-over of a permit  *)
(* from the request handler to the response body and on to the write task  *)
(* (src/proxy/completion.rs, accounting.rs), the idempotent usage insert   *)
(* (src/infra/db/usage.rs) and the drain that ends the process             *)
(* (src/runtime.rs).                                                       *)
(*                                                                         *)
(* try_reserve is not atomic: the closing flag, the semaphore and the flag *)
(* again are three steps, and drain may fall between any two of them.      *)
(* The tokio semaphore serves acquire_many by collecting what is free and  *)
(* then every permit that is released, so a waiting drain hoards permits.  *)
(***************************************************************************)
EXTENDS Integers, FiniteSets

CONSTANTS
    Requests,    \* northbound requests, each handled once
    Capacity,    \* MAX_OUTSTANDING_ACCOUNTED_REQUESTS
    WriteLimit   \* MAX_CONCURRENT_WRITES

\* The assertions of with_limits.
ASSUME LimitsAssumption ==
    /\ Capacity \in Nat \ {0}
    /\ WriteLimit \in Nat \ {0}
    /\ IsFiniteSet(Requests)

VARIABLES
    phase,    \* where each request is
    permits,  \* free permits of Inner.permits
    hoard,    \* permits collected so far by drain's acquire_many
    writes,   \* free permits of Inner.writes
    closing,  \* Inner.closing
    server,   \* the life of the process in runtime.rs
    rows,     \* rows of usage_events per request
    tries,    \* inserts attempted by the write task
    failed,   \* the stream ended by a fault of the upstream
    marked    \* mark_failure_with_details was called for the stream

vars == <<phase, permits, hoard, writes, closing, server, rows, tries,
          failed, marked>>

-----------------------------------------------------------------------------
MaxTries == 3    \* the loop of retry_usage_write

Phases == {"absent", "arrived", "acquiring", "rechecking", "handling",
           "recording", "streaming", "settling", "writing", "marking", "done"}

\* The phases in which a request owns a permit of Inner.permits.
Holding == {"rechecking", "handling", "recording", "streaming", "settling",
            "writing", "marking"}

\* The phases in which a write task owns a permit of Inner.writes.
WritingPhases == {"writing", "marking"}

In(S) == {r \in Requests : phase[r] \in S}
Holders == In(Holding)
Writers == In(WritingPhases)

Init ==
    /\ phase = [r \in Requests |-> "absent"]
    /\ permits = Capacity /\ hoard = 0
    /\ writes = WriteLimit
    /\ closing = FALSE
    /\ server = "serving"
    /\ rows = [r \in Requests |-> 0]
    /\ tries = [r \in Requests |-> 0]
    /\ failed = [r \in Requests |-> FALSE]
    /\ marked = [r \in Requests |-> FALSE]

Goto(r, from, to) ==
    /\ phase[r] = from
    /\ phase' = [phase EXCEPT ![r] = to]

\* Dropping an OwnedSemaphorePermit: a queued acquire_many is served first.
ReleasePermit ==
    IF server = "draining"
    THEN hoard' = hoard + 1 /\ permits' = permits
    ELSE permits' = permits + 1 /\ hoard' = hoard

-----------------------------------------------------------------------------
(* try_reserve                                                             *)

Arrive(r) ==
    /\ server = "serving"
    /\ Goto(r, "absent", "arrived")
    /\ UNCHANGED <<permits, hoard, writes, closing, server, rows, tries, failed, marked>>

\* The answers proxy gives before it asks for a permit: a body that is no JSON,
\* a key that does not authenticate, no model, a model without a route.  None
\* of them is accounted for.
Reject(r) ==
    /\ Goto(r, "arrived", "done")
    /\ UNCHANGED <<permits, hoard, writes, closing, server, rows, tries, failed, marked>>

CheckClosing(r) ==
    /\ Goto(r, "arrived", IF closing THEN "done" ELSE "acquiring")
    /\ UNCHANGED <<permits, hoard, writes, closing, server, rows, tries, failed, marked>>

\* try_acquire_owned; without a free permit the request is Saturated.
TryAcquire(r) ==
    /\ Goto(r, "acquiring", IF permits > 0 THEN "rechecking" ELSE "done")
    /\ permits' = IF permits > 0 THEN permits - 1 ELSE permits
    /\ UNCHANGED <<hoard, writes, closing, server, rows, tries, failed, marked>>

\* Mutant: no second look at the flag.
NoRecheck(r) ==
    /\ Goto(r, "rechecking", "handling")
    /\ UNCHANGED <<permits, hoard, writes, closing, server, rows, tries, failed, marked>>

\* Mutant: the permit is leaked when the second look finds the flag set.
RecheckLeaks(r) ==
    /\ Goto(r, "rechecking", IF closing THEN "done" ELSE "handling")
    /\ UNCHANGED <<permits, hoard, writes, closing, server, rows, tries, failed, marked>>

\* The second look at the flag; the permit is dropped when it is set.
Recheck(r) ==
    /\ Goto(r, "rechecking", IF closing THEN "done" ELSE "handling")
    /\ IF closing THEN ReleasePermit ELSE UNCHANGED <<permits, hoard>>
    /\ UNCHANGED <<writes, closing, server, rows, tries, failed, marked>>

-----------------------------------------------------------------------------
(* The handler and the response body                                       *)

\* The handler future is dropped (client gone) or returns early without a
\* usage event; the permit goes with it.
LeaveHandler(r) ==
    /\ Goto(r, "handling", "done")
    /\ ReleasePermit
    /\ UNCHANGED <<writes, closing, server, rows, tries, failed, marked>>

\* RequestCompletion::finish on a response that is not an event stream.
FinishPlain(r) ==
    /\ Goto(r, "handling", "recording")
    /\ UNCHANGED <<permits, hoard, writes, closing, server, rows, tries, failed, marked>>

\* INSERT ... ON CONFLICT (request_id) DO NOTHING.
Inserted(r) == [rows EXCEPT ![r] = IF @ = 0 THEN 1 ELSE @]

\* The one insert of a plain response; an error is only logged, and a lost
\* acknowledgement or a client that left leaves the row in doubt.
RecordPlain(r) ==
    /\ Goto(r, "recording", "done")
    /\ rows' \in {rows, Inserted(r)}
    /\ ReleasePermit
    /\ UNCHANGED <<writes, closing, server, tries, failed, marked>>

\* wrap_stream_usage moves the permit into the body's completion callback.
FinishStream(r) ==
    /\ Goto(r, "handling", "streaming")
    /\ UNCHANGED <<permits, hoard, writes, closing, server, rows, tries, failed, marked>>

\* The body ends, fails or is dropped: the callback runs once and spawns the
\* write task, which takes the permit over.
EndStream(r, fault) ==
    /\ Goto(r, "streaming", "settling")
    /\ failed' = [failed EXCEPT ![r] = fault]
    /\ UNCHANGED <<permits, hoard, writes, closing, server, rows, tries, marked>>

-----------------------------------------------------------------------------
(* The write task                                                          *)

AcquireWrite(r) ==
    /\ writes > 0
    /\ Goto(r, "settling", "writing")
    /\ writes' = writes - 1
    /\ UNCHANGED <<permits, hoard, closing, server, rows, tries, failed, marked>>

\* One insert that is acknowledged.
WriteOk(r) ==
    /\ Goto(r, "writing", "marking")
    /\ tries[r] < MaxTries
    /\ rows' = Inserted(r)
    /\ tries' = [tries EXCEPT ![r] = @ + 1]
    /\ UNCHANGED <<permits, hoard, writes, closing, server, failed, marked>>

\* One insert that reports an error: it may have committed all the same.
WriteError(r) ==
    /\ Goto(r, "writing", IF tries[r] + 1 < MaxTries THEN "writing" ELSE "marking")
    /\ tries[r] < MaxTries
    /\ rows' \in {rows, Inserted(r)}
    /\ tries' = [tries EXCEPT ![r] = @ + 1]
    /\ UNCHANGED <<permits, hoard, writes, closing, server, failed, marked>>

\* Mutant: a task that marked a failure keeps its request permit.
FinishTaskLeaksPermit(r) ==
    /\ Goto(r, "marking", "done")
    /\ marked' = [marked EXCEPT ![r] = failed[r]]
    /\ IF failed[r] THEN UNCHANGED <<permits, hoard>> ELSE ReleasePermit
    /\ writes' = writes + 1
    /\ UNCHANGED <<closing, server, rows, tries, failed>>

\* Mutant: the write permit is forgotten.
FinishTaskLeaksWrite(r) ==
    /\ Goto(r, "marking", "done")
    /\ marked' = [marked EXCEPT ![r] = failed[r]]
    /\ ReleasePermit
    /\ UNCHANGED <<writes, closing, server, rows, tries, failed>>

\* The health failure of an upstream fault, then both permits are dropped.
FinishTask(r) ==
    /\ Goto(r, "marking", "done")
    /\ marked' = [marked EXCEPT ![r] = failed[r]]
    /\ ReleasePermit
    /\ writes' = writes + 1
    /\ UNCHANGED <<closing, server, rows, tries, failed>>

-----------------------------------------------------------------------------
(* Shutdown                                                                *)

\* The shutdown signal: the listener stops accepting.
Signal ==
    /\ server = "serving"
    /\ server' = "stopping"
    /\ UNCHANGED <<phase, permits, hoard, writes, closing, rows, tries, failed, marked>>

\* drain: the store of the flag.  runtime.rs calls drain once the server has
\* let go of its connections; the API allows any moment, and so does this.
StoreClosing ==
    /\ server = "stopping" /\ ~closing
    /\ closing' = TRUE
    /\ UNCHANGED <<phase, permits, hoard, writes, server, rows, tries, failed, marked>>

\* drain: acquire_many collects the free permits and queues for the rest.
AcquireMany ==
    /\ server = "stopping" /\ closing
    /\ server' = "draining"
    /\ hoard' = permits /\ permits' = 0
    /\ UNCHANGED <<phase, writes, closing, rows, tries, failed, marked>>

\* drain returns once it holds every permit, and drops them again.
DrainDone ==
    /\ server = "draining" /\ hoard = Capacity
    /\ server' = "stopped"
    /\ permits' = Capacity /\ hoard' = 0
    /\ UNCHANGED <<phase, writes, closing, rows, tries, failed, marked>>

Shutdown == Signal \/ StoreClosing \/ AcquireMany \/ DrainDone

Admission(r) == Arrive(r) \/ Reject(r) \/ CheckClosing(r) \/ TryAcquire(r) \/ Recheck(r)

Handler(r) ==
    LeaveHandler(r) \/ FinishPlain(r) \/ RecordPlain(r) \/ FinishStream(r)

Task(r) == AcquireWrite(r) \/ WriteOk(r) \/ WriteError(r) \/ FinishTask(r)

Next ==
    \/ Shutdown
    \/ \E r \in Requests :
          \/ Admission(r) \/ Handler(r) \/ Task(r)
          \/ \E fault \in BOOLEAN : EndStream(r, fault)

Spec == Init /\ [][Next]_vars

\* Handlers, bodies and tasks make progress: upstream calls and streams are
\* bounded by the configured timeouts, and inserts return or fail.  A request
\* need not arrive and no signal need come; a drain that started goes on.
Fairness ==
    /\ \A r \in Requests :
          /\ WF_vars(Reject(r) \/ CheckClosing(r) \/ TryAcquire(r) \/ Recheck(r))
          /\ WF_vars(Handler(r))
          /\ WF_vars(\E fault \in BOOLEAN : EndStream(r, fault))
          /\ WF_vars(Task(r))
    /\ WF_vars(StoreClosing \/ AcquireMany \/ DrainDone)

FairSpec == Spec /\ Fairness

-----------------------------------------------------------------------------
(* Properties                                                              *)

TypeOK ==
    /\ phase \in [Requests -> Phases]
    /\ permits \in Nat /\ hoard \in Nat /\ writes \in Nat
    /\ closing \in BOOLEAN
    /\ server \in {"serving", "stopping", "draining", "stopped"}
    /\ rows \in [Requests -> Nat]
    /\ tries \in [Requests -> 0..MaxTries]
    /\ failed \in [Requests -> BOOLEAN]
    /\ marked \in [Requests -> BOOLEAN]

\* No permit leaks and none is minted on any path out of admission, handler,
\* body or write task: free, hoarded and owned permits add up to the capacity,
\* for request permits and for write permits.  Hence at most Capacity requests
\* are outstanding and at most WriteLimit inserts run.
PermitsConserved ==
    /\ permits + hoard + Cardinality(Holders) = Capacity
    /\ writes + Cardinality(Writers) = WriteLimit

\* Once drain has returned, nothing is left that would call an upstream or
\* write usage: neither work that drain should have waited for, nor a request
\* that was between the two looks at the closing flag and got one of the
\* permits drain gave back.
NothingAfterStop ==
    server = "stopped" =>
        \A r \in Requests : phase[r] \notin Holding \ {"rechecking"}

\* A request is recorded at most once, though an insert whose acknowledgement
\* was lost is repeated.
RecordedOnce == \A r \in Requests : rows[r] <= 1

\* Shutdown terminates: a drain that has begun ends, however writes fail.
DrainTerminates == closing ~> server = "stopped"

\* A stream that was admitted is settled, also when the gateway is stopping.
StreamsSettle ==
    \A r \in Requests : phase[r] = "streaming" ~> phase[r] = "done" /\ tries[r] > 0
=============================================================================
