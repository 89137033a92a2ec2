---------------------------- MODULE MCUsageLedger ----------------------------
(* A small instance of UsageLedger. *)
EXTENDS UsageLedger

\* A first event with its own total, later traffic without one, counters of
\* the other protocol with an empty details object, no usage at all.
Opening == [key \in {"input_tokens", "output_tokens", "total_tokens"} |->
                IF key = "output_tokens" THEN 0 ELSE 2]
Growing == [key \in {"output_tokens", "cache_read_input_tokens"} |-> 1]
Detailed == [key \in {"prompt_tokens", "completion_tokens", "completion_tokens_details"} |->
                IF key = "completion_tokens_details" THEN NotInt ELSE 1]

MCFrames ==
    {[usage |-> Opening,  model |-> "m1", think |-> "open",  big |-> FALSE],
     [usage |-> Growing,  model |-> "m2", think |-> "close", big |-> FALSE],
     [usage |-> Detailed, model |-> None, think |-> "none",  big |-> TRUE],
     [usage |-> None,     model |-> "m1", think |-> "over_limit", big |-> TRUE],
     [usage |-> None,     model |-> None, think |-> "open",  big |-> FALSE]}

MCBodies ==
    {[usage |-> Opening, model |-> "m1"], [usage |-> Detailed, model |-> None],
     [usage |-> None, model |-> None]}

Everything == [from |-> None, to |-> None, success |-> None, source |-> None]
MCFilters == {[Everything EXCEPT !.from = 0, !.to = 2], [Everything EXCEPT !.from = 2, !.to = 0]}
=============================================================================
