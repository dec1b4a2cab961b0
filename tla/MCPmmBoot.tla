----------------------------- MODULE MCPmmBoot -----------------------------
(* Every well-formed memory map of up to three entries, with pages of two   *)
(* bytes and bitmap words of two bits, so that the bitmap spans several     *)
(* words and pages.                                                         *)
EXTENDS PmmBoot

UsableMC == [base : {0, 2, 4, 6, 8, 10}, length : {2, 4, 6}, usable : {TRUE}]

\* Not made of whole pages, as the protocol allows.
UnusableMC == [base : {0, 3, 10}, length : {3}, usable : {FALSE}]

MCMemMaps ==
  {m \in UNION {[1 .. n -> UsableMC \cup UnusableMC] : n \in 0 .. 3} : WellFormed(m)}
=============================================================================
