------------------------------ MODULE MCDaemon ------------------------------
(***************************************************************************)
(* The daemon with interchangeable clients, workers and modules.           *)
(***************************************************************************)
EXTENDS Daemon, TLC

Symmetry ==
  Permutations(Pids) \cup Permutations(Workers) \cup Permutations(Modules)
=============================================================================
