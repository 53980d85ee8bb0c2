----------------------------- MODULE MCKernels -----------------------------
(* KernelManager with its clients, workers and images interchangeable.     *)
EXTENDS KernelManager, TLC

Symmetry ==
  Permutations(Clients) \cup Permutations(Workers) \cup Permutations(Images)
=============================================================================
