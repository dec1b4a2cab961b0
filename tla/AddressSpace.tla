---------------------------- MODULE AddressSpace ----------------------------
(* What src/kernel/src/mem/vmm.c promises: the page tables are a map from   *)
(* virtual to physical pages, and a request maps or unmaps its pages one    *)
(* after the other, each in one step, without disturbing any other page.    *)
EXTENDS Integers

CONSTANTS Cpus, Virts, Phys, MaxRun

\* No translation: a page table entry of 0.
Unmapped == 0

VARIABLES
  map,  \* map[v]: the physical page behind virtual page v, or Unmapped
  job   \* job[c]: what CPU c still has to do

absVars == <<map, job>>

NoJob == [kind |-> "none", virt |-> 0, phys |-> 0, n |-> 0]

Next1(j) ==
  IF j.n = 1 THEN NoJob
  ELSE [j EXCEPT !.virt = @ + 1, !.phys = IF j.kind = "map" THEN @ + 1 ELSE @, !.n = @ - 1]

AbsInit ==
  /\ map = [v \in Virts |-> Unmapped]
  /\ job = [c \in Cpus |-> NoJob]

Request(c) ==
  /\ job[c] = NoJob
  /\ \E v \in Virts, n \in 1 .. MaxRun :
       /\ v .. v + n - 1 \subseteq Virts
       /\ \/ \E p \in Phys :
               /\ p .. p + n - 1 \subseteq Phys
               /\ job' = [job EXCEPT ![c] = [kind |-> "map", virt |-> v, phys |-> p, n |-> n]]
          \/ job' = [job EXCEPT ![c] = [kind |-> "unmap", virt |-> v, phys |-> 0, n |-> n]]
  /\ UNCHANGED map

MapPage(c) ==
  /\ job[c].kind = "map"
  /\ map' = [map EXCEPT ![job[c].virt] = job[c].phys]
  /\ job' = [job EXCEPT ![c] = Next1(job[c])]

UnmapPage(c) ==
  /\ job[c].kind = "unmap"
  /\ map' = [map EXCEPT ![job[c].virt] = Unmapped]
  /\ job' = [job EXCEPT ![c] = Next1(job[c])]

AbsNext == \E c \in Cpus : Request(c) \/ MapPage(c) \/ UnmapPage(c)

AbsSpec == AbsInit /\ [][AbsNext]_absVars
=============================================================================
