------------------------------- MODULE MCAhci -------------------------------
(* A small instance of the disk driver for TLC. *)
EXTENDS Ahci

Function(class, subclass, bar5) == [class |-> class, subclass |-> subclass, bar5 |-> bar5]
Disk(bar5) == Function(1, 6, bar5)
Network == Function(2, 0, 0)
Accelerator == Function(18, 0, 0)
Coprocessor == Function(64, 0, 0)

Machine(functions, drives, ncs) ==
  [functions |-> functions, pi |-> {0, 1}, ncs |-> ncs,
   drive |-> [p \in {0, 1} |-> drives[p + 1]]]

\* One and two drives, one that may not answer, other drives, no drive or no
\* controller, a function seen twice, a port behind the mapped page, and
\* classes without a name; 1, 3 and 5 slots.
MCMachines ==
  {Machine(<<Network, Disk(1), Disk(1)>>, <<"sata", "satapi">>, n) : n \in {0, 2, 4}}
    \cup {Machine(<<Disk(1), Absent, Coprocessor, Disk(2)>>, <<"sata", "sata">>, 2),
          Machine(<<Network>>, <<"sata", "none">>, 2),
          Machine(<<Disk(1)>>, <<"mute", "sata">>, 2),
          Machine(<<Accelerator, Disk(1)>>, <<"sata", "none">>, 2),
          [functions |-> <<Disk(1)>>, pi |-> {1, 2}, ncs |-> 2,
           drive |-> [p \in 0 .. 2 |-> "sata"]]}
=============================================================================
