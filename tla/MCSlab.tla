------------------------------- MODULE MCSlab -------------------------------
(* Small instances of a slab cache for TLC. *)
EXTENDS Slab, TLC

CpuSymmetry == Permutations(Cpus)
=============================================================================
