---------------------------- MODULE MCInterrupts ----------------------------
(* A small instance of the way of an interrupt for TLC. *)
EXTENDS Interrupts, TLC

MCIsaLine == [d \in Drivers |-> CASE d = "timer" -> 0 [] d = "keyboard" -> 1 [] d = "clock" -> 2]

IoApic(id, gsi, pins) == [type |-> "ioapic", id |-> id, gsi |-> gsi, pins |-> pins]
Override(source, gsi, flags) ==
  [type |-> "override", source |-> source, gsi |-> gsi, flags |-> flags]
Lapic == [type |-> "lapic"]

Apic(entries) == [signature |-> "APIC", entries |-> entries]
Fadt(space, size) ==
  [signature |-> "FACP", ResetReg |-> [addrSpace |-> space, accessSize |-> size]]

\* Every order of an I/O APIC, a second one behind it, the timer's usual
\* override and one of level and active low.
Tables ==
  LET entries == {IoApic(0, 0, 2), IoApic(1, 2, 2), Override(0, 2, <<0, 0>>), Override(2, 3, <<3, 3>>)}
  IN  {<<Lapic>> \o s : s \in SetToSeqs(entries)}

MCFirmwares ==
  {<<Fadt("port", 1), Apic(t)>> : t \in Tables}
    \cup {NoFirmware, <<Fadt("port", 4)>>, <<Apic(<<IoApic(0, 0, 4)>>)>>,
          <<Apic(<<IoApic(0, 0, 4), Override(1, 2, <<1, 1>>)>>), Fadt("bus", 0), Apic(<<>>)>>,
          <<Apic(<<IoApic(0, 0, 1), Override(0, 9, <<0, 0>>)>>), Fadt("memory", 4)>>}
=============================================================================
