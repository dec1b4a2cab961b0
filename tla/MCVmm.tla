------------------------------- MODULE MCVmm -------------------------------
(* Small instances of the page tables for TLC. *)
EXTENDS VmmRefinement, TLC

CpuSymmetry == Permutations(Cpus)
=============================================================================
