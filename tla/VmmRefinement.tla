--------------------------- MODULE VmmRefinement ---------------------------
(* Vmm implements AddressSpace: a page is mapped or unmapped when its entry *)
(* in the last level is written; extending the tables changes nothing.      *)
EXTENDS Vmm

\* What CPU c still has to do, counting the current page until its entry is
\* written.
Job(c) ==
  LET left == IF pc[c] = "invlpg" THEN n[c] - 1 ELSE n[c]
      skip == n[c] - left
  IN  IF left = 0
      THEN [kind |-> "none", virt |-> 0, phys |-> 0, n |-> 0]
      ELSE [kind |-> IF unmap[c] THEN "unmap" ELSE "map",
            virt |-> virt[c] + skip,
            phys |-> IF unmap[c] THEN 0 ELSE phys[c] + skip,
            n |-> left]

Abstract == INSTANCE AddressSpace WITH
  map <- [v \in Virts |-> Translate(v)],
  job <- [c \in Cpus |-> Job(c)]

\* No step of a walk changes a translation, and each write changes the one of
\* the page it is for, in the order of the loop.
ImplementsAddressSpace == Abstract!AbsSpec
=============================================================================
