---------------------------- MODULE MCSettlement ----------------------------
(* Settlement, with its requests as model values.  Liveness is checked in   *)
(* the same run as safety, so no symmetry is used.                          *)
EXTENDS Settlement
=============================================================================
