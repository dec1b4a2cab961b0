------------------------------- MODULE MCPmm -------------------------------
(* Small instances of the page allocator for TLC. *)
EXTENDS PmmRefinement, TLC

\* No action and no property tells the CPUs apart.
CpuSymmetry == Permutations(Cpus)
=============================================================================
