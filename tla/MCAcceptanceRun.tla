---------------------------- MODULE MCAcceptanceRun ----------------------------
(* Two processes: the service's own and a command's.                       *)
EXTENDS AcceptanceRun, TLC

Symmetry == Permutations(Pids)
=============================================================================
