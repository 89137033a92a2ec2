------------------------- MODULE MCRetentionCleanup -------------------------
(***************************************************************************)
(* Batches of one row.  Event e1 has two expired attempts, of which one      *)
(* outlives the first batch; e2 has expired but its attempt has not; e3 and  *)
(* e4 have none, so that two rounds leave work pending; o1 is an expired row *)
(* of a table without references.                                            *)
(***************************************************************************)
EXTENDS RetentionCleanup, TLC

CONSTANTS e1, e2, e3, e4, a1, a2, a3, o1

MCOwner == a1 :> e1 @@ a2 :> e1 @@ a3 :> e2
MCExpired == {e1, e2, e3, e4, a1, a2, o1}
MCPolicyTables == {PolicyKeys \ {"usage_attempts"}}
MCSelections == {PolicyKeys, {"usage_events", "other"}}
=============================================================================
