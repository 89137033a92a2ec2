------------------------ MODULE MCControlPlaneBackup ------------------------
(* ControlPlaneBackup for TLC: handlers are interchangeable. *)
EXTENDS ControlPlaneBackup, TLC

Symmetry == Permutations(Handlers)

============================================================================
