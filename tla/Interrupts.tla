----------------------------- MODULE Interrupts -----------------------------
(* From the line of a device to its handler: the firmware's tables          *)
(* (driver/acpi.c), the I/O APICs and the local one (cpu/ioapic.c, lapic.c, *)
(* apic.c), vectors and handlers (driver/irq.c), the descriptor table and   *)
(* the stubs (cpu/idt.c, isr.c, isr.asm), and the report of an exception    *)
(* (kernel/panic.c).                                                        *)
(*                                                                          *)
(* The boot processor does all of this alone.  It never sets the interrupt  *)
(* flag, so what a device's interrupt would do is an operator, Handler, and *)
(* only exceptions are steps.  Hardware and firmware are external.          *)
EXTENDS Integers, SequencesExt

CONSTANTS
  Firmwares,   \* what the boot loader may find: the tables of the RSDT
  Drivers,     \* those that take a vector and map a line
  IsaLine,     \* IsaLine[d]: the ISA line of driver d's device
  Vectors,     \* vectors of the CPU, 256
  IrqHandlers, \* IRQ_HANDLERS: those behind the 32 exceptions
  Stubs,       \* entries of isrStub
  Exceptions,  \* exceptions that the CPU may raise
  NoFirmware

ASSUME VectorsAssumption ==
  /\ Vectors \in Nat /\ IrqHandlers \in Nat /\ Vectors = IrqHandlers + 32 /\ IrqHandlers > 1
  /\ Exceptions \subseteq 0 .. 31
\* isr.asm: one stub is missing at most.
ASSUME StubsAssumption == Stubs \in Nat /\ Stubs + 1 >= Vectors
ASSUME DriversAssumption == IsaLine \in [Drivers -> Nat]

\* The entries of a table "APIC", and the tables that are searched for.
Entries ==
  [type : {"ioapic"}, id : Nat, gsi : Nat, pins : Nat]
    \cup [type : {"override"}, source : Nat, gsi : Nat, flags : (0 .. 3) \X (0 .. 3)]
    \cup [type : {"lapic"}]
FirmwareTables ==
  [signature : {"APIC"}, entries : Seq(Entries)] \cup [signature : {"FACP"}, ResetReg : [addrSpace : STRING, accessSize : Nat]]

\* What the ACPI specification asks of a table: I/O APICs with names and
\* ranges of their own and one override per line.
WellFormed(madt) ==
  \A i, j \in DOMAIN madt :
    i # j /\ madt[i].type = madt[j].type =>
      CASE madt[i].type = "ioapic" ->
             /\ madt[i].id # madt[j].id
             /\ \/ madt[i].gsi + madt[i].pins <= madt[j].gsi
                \/ madt[j].gsi + madt[j].pins <= madt[i].gsi
        [] madt[i].type = "override" -> madt[i].source # madt[j].source
        [] OTHER -> TRUE

ASSUME FirmwaresAssumption ==
  \A f \in Firmwares \ {NoFirmware} :
    /\ f \in Seq(FirmwareTables)
    /\ \A i \in DOMAIN f : f[i].signature = "APIC" => WellFormed(f[i].entries)

VARIABLES
  rsdt,       \* the tables, in their order
  pc,         \* what the boot processor does next
  madt,       \* entries of the table "APIC" still to be parsed
  ioApics,    \* list of I/O APICs, the newest first
  overrides,  \* list of ISA overrides, the newest first
  idt,        \* idt[v]: the stub that the gate leads to
  lapic,      \* the local APIC: its enable bit, its spurious interrupt register
  used,       \* irqBitmap: the vectors taken, from 0
  handlers,   \* handlers[i]
  step,       \* step[d]: what driver d does next
  vector,     \* vector[d]: the one it was given
  writing,    \* the entry that is half written, or <<>>
  redir,      \* the registers of the I/O APICs: redir[<<id, pin>>]
  report      \* what panicIsr is given, or <<>>

boot == <<rsdt, madt, ioApics, overrides, idt, lapic>>
routes == <<used, handlers, step, vector, writing, redir>>
vars == <<boot, pc, routes, report>>

None == "none"
Garbage == -1  \* not the address of a stub

-----------------------------------------------------------------------------
(* ACPI *)

\* 0 when the bytes are the same; which of them is greater nobody asks.
memcmp(a, b) == IF a = b THEN 0 ELSE 1

\* The number of the first table with a signature, or 0.
acpiFindTable(signature) == SelectInSeq(rsdt, LAMBDA t : memcmp(t.signature, signature) = 0)

\* What the search for the "FACP" leaves in `fadt'; <<>>: null.
acpiFadt ==
  LET i == acpiFindTable("FACP") IN IF i = 0 THEN <<>> ELSE <<rsdt[i]>>

Goto(l) == pc' = l

\* The response of the boot loader, read by acpiInit after isrInit and
\* irqInit are done.
acpiInit ==
  /\ pc = "acpi"
  /\ Goto(IF rsdt = NoFirmware THEN "panicked" ELSE "apic")
  /\ UNCHANGED <<boot, routes, report>>

\* Whether anything is written: memory by 1, 2, 4 or 8 bytes, a port by up to 4.
acpiOut(gAddr) ==
  \/ gAddr.addrSpace = "memory" /\ gAddr.accessSize <= 4
  \/ gAddr.addrSpace = "port" /\ gAddr.accessSize <= 3

\* main after its test.  A null pointer is read when there is no FADT; when
\* nothing is written, main goes on to its own panic.
acpiReboot ==
  /\ pc = "run" /\ \A d \in Drivers : step[d] = "done"
  /\ Goto(IF acpiFadt # <<>> /\ acpiOut(Head(acpiFadt).ResetReg)
          THEN "rebooted" ELSE "panicked")
  /\ UNCHANGED <<boot, routes, report>>

-----------------------------------------------------------------------------
(* The descriptor table *)

\* What idtSetDesc is given: isrStub[v], even behind the table's end.
Stub(v) == IF v < Stubs THEN v ELSE Garbage

isrInit ==
  /\ pc = "isr"
  /\ idt' = [v \in 0 .. Vectors - 1 |-> Stub(v)]
  /\ Goto("irq")
  /\ UNCHANGED <<rsdt, madt, ioApics, overrides, lapic, routes, report>>

\* The order in which isrCommon pushes, and Regs from its end on.  What `push
\* rsp' saves is isrCommon's own stack pointer: the CPU pushed the exception's.
Saved == <<"rax", "rbx", "rcx", "rdx", "rdi", "rsi", "isrRsp", "r8", "r9", "r10",
           "r11", "r12", "r13", "r14", "r15", "rdi">>
Regs == <<"ss", "kRsp", "rFlags", "cs", "rip", "errId", "intId",
          "rax", "rbx", "rcx", "rdx", "rdi", "rsi", "rsp", "r8", "r9", "r10",
          "r11", "r12", "r13", "r14", "r15", "rdiIgnore">>

\* The vectors with which the CPU pushes an error code.
CpuPushesError == {8, 10, 11, 12, 13, 14, 17, 21, 29, 30}

\* Mutant: one line of the table forgotten.
IsrErr_NotPageFault == {8, 10, 11, 12, 13, 17, 30}

\* The stubs made by ISR_ERR.
IsrErr == {8, 10, 11, 12, 13, 14, 17, 30}

CpuFrame(v) ==
  <<"ss", "kRsp", "rFlags", "cs", "rip">> \o (IF v \in CpuPushesError THEN <<"error">> ELSE <<>>)

StubFrame(v) == IF v \in IsrErr THEN <<"vector">> ELSE <<"zero", "vector">>

\* regs->field, counted from the top of the stack.
RegsOf(v) ==
  LET stack == CpuFrame(v) \o StubFrame(v) \o Saved
      Field(f) == stack[Len(stack) - (Len(Regs) - CHOOSE i \in DOMAIN Regs : Regs[i] = f)]
  IN  [f \in Range(Regs) |-> Field(f)]

\* The table of names has text for the first 30 exceptions.
Named(v) == v < 30

Exception(v) ==
  /\ pc \notin {"isr", "panicked", "hung", "rebooted"}
  /\ idt[v] = v
  /\ report' = <<[vector |-> v, regs |-> RegsOf(v)]>>
  /\ Goto(IF Named(v) THEN "panicked" ELSE "hung")
  /\ UNCHANGED <<boot, routes>>

-----------------------------------------------------------------------------
(* Vectors and handlers *)

irqInit ==
  /\ pc = "irq"
  /\ used' = {IrqHandlers - 1}
  /\ handlers' = [handlers EXCEPT ![IrqHandlers - 1] = "spurious"]
  /\ Goto("acpi")
  /\ UNCHANGED <<boot, step, vector, writing, redir, report>>

\* bitmapFind: 0 when all are taken.
FreeVector ==
  LET free == (0 .. IrqHandlers - 1) \ used
  IN  IF free = {} THEN 0 ELSE Min(free)

\* Mutant: the vector stays free until a handler is installed.
irqAllocVector_NotMarked(d) ==
  /\ pc = "run" /\ step[d] = "alloc"
  /\ vector' = [vector EXCEPT ![d] = FreeVector + 32]
  /\ step' = [step EXCEPT ![d] = "install"]
  /\ UNCHANGED <<boot, pc, used, handlers, writing, redir, report>>

irqAllocVector(d) ==
  /\ pc = "run" /\ step[d] = "alloc"
  /\ used' = used \cup {FreeVector}
  /\ vector' = [vector EXCEPT ![d] = FreeVector + 32]
  /\ step' = [step EXCEPT ![d] = "install"]
  /\ UNCHANGED <<boot, pc, handlers, writing, redir, report>>

irqInstall(d) ==
  /\ pc = "run" /\ step[d] = "install"
  /\ handlers' = [handlers EXCEPT ![vector[d] - 32] = d]
  /\ used' = used \cup {vector[d] - 32}
  /\ step' = [step EXCEPT ![d] = "map"]
  /\ UNCHANGED <<boot, pc, vector, writing, redir, report>>

\* What is called; None is a call of address 0.
irqHandle(irq) == handlers[irq]

isrHandler(v) == IF v < 32 THEN "panicIsr" ELSE irqHandle(v - 32)

\* What runs when the CPU takes vector v.
Handler(v) == IF idt[v] = v THEN isrHandler(v) ELSE "garbage"

-----------------------------------------------------------------------------
(* The local APIC *)

\* Whether CPUID shows an APIC is up to the CPU.
apicInit ==
  /\ pc = "apic"
  /\ Goto("ioApic") \/ Goto("panicked")
  /\ UNCHANGED <<boot, routes, report>>

\* The bit IA32_APIC_BASE_MSR_ENABLE.
lapicSetBase(l) == [l EXCEPT !.enabled = TRUE]

lapicReadReg(l) == l.spurious

\* An APIC that is not enabled takes no writes.
lapicWriteReg(l, value) == IF l.enabled THEN [l EXCEPT !.spurious = value] ELSE l

\* The base is set, then LAPIC_REGSPI is read and written with bit 8.
lapicInit ==
  /\ pc = "lapic"
  /\ lapic' = LET on == lapicSetBase(lapic)
              IN  lapicWriteReg(on, [lapicReadReg(on) EXCEPT !.enabled = TRUE])
  /\ Goto("run")
  /\ UNCHANGED <<rsdt, madt, ioApics, overrides, idt, routes, report>>

-----------------------------------------------------------------------------
(* I/O APICs *)

ioApicInit ==
  /\ pc = "ioApic"
  /\ LET i == acpiFindTable("APIC")
     IN  IF i = 0
         THEN UNCHANGED madt /\ Goto("panicked")
         ELSE madt' = rsdt[i].entries /\ Goto("madt")
  /\ UNCHANGED <<rsdt, ioApics, overrides, idt, lapic, routes, report>>

\* `pins' is what the register IOAPIC_REGVER of the I/O APIC says.
ApicOf(e) == [id |-> e.id, gsiStart |-> e.gsi, gsiEnd |-> e.gsi + e.pins]

ioApicAdd(e) == <<ApicOf(e)>> \o ioApics

\* What the list of overrides keeps of an entry.
OverrideOf(e) == [isaSource |-> e.source, gsi |-> e.gsi, flags |-> e.flags]

\* One round of the loop of ioApicParseMadt.
ParseEntry ==
  /\ pc = "madt" /\ madt # <<>>
  /\ LET e == Head(madt)
     IN  /\ ioApics' = IF e.type = "ioapic" THEN ioApicAdd(e) ELSE ioApics
         /\ overrides' = IF e.type # "override" THEN overrides
                         ELSE <<OverrideOf(e)>> \o overrides
  /\ madt' = Tail(madt)
  /\ UNCHANGED <<rsdt, idt, lapic, pc, routes, report>>

ParseEnd ==
  /\ pc = "madt" /\ madt = <<>>
  /\ Goto("lapic")
  /\ UNCHANGED <<boot, routes, report>>

\* Mutant: the pin behind the last one is taken for the I/O APIC's.
ioApicFindForGSI_EndIncluded(gsi) ==
  SelectInSeq(ioApics, LAMBDA a : gsi >= a.gsiStart /\ gsi <= a.gsiEnd)

\* The place in the list of the first I/O APIC that matches, or 0.
ioApicFindForGSI(gsi) ==
  SelectInSeq(ioApics, LAMBDA a : gsi >= a.gsiStart /\ gsi < a.gsiEnd)

\* ioApicMapISA up to the call of ioApicMap; flags are <<polarity, trigger>>.
IsaOverride(isa) ==
  LET i == SelectInSeq(overrides, LAMBDA o : o.isaSource = isa)
  IN  IF i = 0 THEN [isaSource |-> isa, gsi |-> isa, flags |-> <<0, 0>>] ELSE overrides[i]

\* The first half of ioApicWriteRedirEntry: one bit of each of the flags, and
\* the entry is no longer masked.
LowWord(entry, v, flags) ==
  [entry EXCEPT !.vector = v, !.mask = 0, !.polarity = flags[1] % 2, !.trigger = flags[2] % 2]

\* ioApicMap, up to there.
WriteLow(d) ==
  /\ pc = "run" /\ step[d] = "map"
  /\ LET o == IsaOverride(IsaLine[d])
         i == ioApicFindForGSI(o.gsi)
         pin == <<ioApics[i].id, o.gsi - ioApics[i].gsiStart>>
     IN  IF i = 0
         THEN /\ Goto("panicked")
              /\ UNCHANGED <<step, writing, redir>>
         ELSE /\ redir' = [redir EXCEPT ![pin] = LowWord(@, vector[d], o.flags)]
              /\ writing' = pin
              /\ step' = [step EXCEPT ![d] = "high"]
              /\ Goto("high")
  /\ UNCHANGED <<boot, used, handlers, vector, report>>

\* The second half: the destination is the CPU with the id 0.
WriteHigh(d) ==
  /\ pc = "high" /\ step[d] = "high"
  /\ redir' = [redir EXCEPT ![writing].destination = 0]
  /\ writing' = <<>>
  /\ step' = [step EXCEPT ![d] = "done"]
  /\ Goto("run")
  /\ UNCHANGED <<boot, used, handlers, vector, report>>

-----------------------------------------------------------------------------

\* Entries of the table "APIC" as the firmware made it.
Table ==
  IF rsdt # NoFirmware /\ acpiFindTable("APIC") # 0
  THEN Range(rsdt[acpiFindTable("APIC")].entries) ELSE {}

PinsOf(entries) ==
  UNION {{e.id} \X (0 .. e.pins - 1) : e \in {x \in entries : x.type = "ioapic"}}

Init ==
  /\ rsdt \in Firmwares
  /\ pc = "isr"
  /\ madt = <<>>
  /\ ioApics = <<>>
  /\ overrides = <<>>
  /\ idt = [v \in 0 .. Vectors - 1 |-> Garbage]
  \* the register's value at reset; the firmware may have set the base
  /\ \E on \in BOOLEAN :
       lapic = [enabled |-> on, spurious |-> [vector |-> Vectors - 1, enabled |-> FALSE]]
  /\ used = {}
  /\ handlers = [i \in 0 .. IrqHandlers - 1 |-> None]
  /\ step = [d \in Drivers |-> "alloc"]
  /\ vector = [d \in Drivers |-> 0]
  /\ writing = <<>>
  \* masked at reset; the firmware may have left a destination
  /\ redir = [p \in PinsOf(Table) |->
                [vector |-> 0, mask |-> 1, polarity |-> 0, trigger |-> 0, destination |-> 1]]
  /\ report = <<>>

Next ==
  \/ isrInit \/ irqInit \/ acpiInit \/ apicInit \/ lapicInit \/ ioApicInit \/ ParseEntry \/ ParseEnd \/ acpiReboot
  \/ \E d \in Drivers : irqAllocVector(d) \/ irqInstall(d) \/ WriteLow(d) \/ WriteHigh(d)
  \/ \E v \in Exceptions : Exception(v)

Spec == Init /\ [][Next]_vars

-----------------------------------------------------------------------------
(* Properties *)

\* Where the firmware says that the line of an ISA device arrives.
GsiOf(isa) ==
  LET of == {e \in Table : e.type = "override" /\ e.source = isa}
  IN  IF of = {} THEN isa ELSE (CHOOSE e \in of : TRUE).gsi

FlagsOf(isa) ==
  LET of == {e \in Table : e.type = "override" /\ e.source = isa}
  IN  IF of = {} THEN <<0, 0>> ELSE (CHOOSE e \in of : TRUE).flags

\* irqAllocVector gives a vector to two drivers only when all are taken, and
\* then it is the first one; nobody is given the spurious interrupt's.
SharedOnlyWhenFull ==
  LET given == {d \in Drivers : step[d] # "alloc"}
  IN  \A c, d \in given :
        /\ vector[d] # Vectors - 1
        /\ c # d /\ vector[c] = vector[d] => vector[d] = 32 /\ used = 0 .. IrqHandlers - 1

\* Whatever the order of the table, of the allocations and of the mappings,
\* the pin at which the firmware says a line arrives is unmasked, leads to
\* the boot processor, whose local APIC is enabled, and through vector, gate
\* and stub to its driver's handler, with the level and edge that the override asks for.  Excepted
\* are lines that share a pin, drivers that share a vector, and the code 1
\* (active high, edge), of which ioApicWriteRedirEntry writes the low bit,
\* which means its contrary.
LinesReachTheirHandlers ==
  \A d \in Drivers :
    /\ step[d] = "done"
    /\ \A c \in Drivers \ {d} :
         step[c] # "alloc" => GsiOf(IsaLine[c]) # GsiOf(IsaLine[d]) /\ vector[c] # vector[d]
    => \E e \in Table :
         /\ e.type = "ioapic" /\ GsiOf(IsaLine[d]) \in e.gsi .. e.gsi + e.pins - 1
         /\ LET entry == redir[<<e.id, GsiOf(IsaLine[d]) - e.gsi>>]
                flags == FlagsOf(IsaLine[d])
            IN  /\ entry.mask = 0 /\ entry.destination = 0
                /\ Handler(entry.vector) = d
                /\ lapic.enabled /\ lapic.spurious.enabled
                /\ flags[1] # 1 => (entry.polarity = 1 <=> flags[1] = 3)
                /\ flags[2] # 1 => (entry.trigger = 1 <=> flags[2] = 3)

\* The exceptions with which the CPU pushes a word that their stub does not
\* know of.
Shifted == {21, 29}

\* panicIsr is given the registers, the place and the error code of the
\* exception itself: the stubs, the order of the pushes, what the CPU pushes
\* and the fields of Regs fit together, but for the exceptions in Shifted;
\* its stack pointer is in kRsp, while rsp, which panicIsr prints beside the
\* registers of the exception, is that of isrCommon.  The report is printed but
\* for the exceptions without a name.
ReportsAreTrue ==
  \A i \in DOMAIN report :
    LET r == report[i]
    IN  r.vector \notin Shifted =>
          /\ \A f \in Range(Regs) \ {"errId", "intId", "rsp", "rdiIgnore"} : r.regs[f] = f
          /\ r.regs["rsp"] = "isrRsp"
          /\ r.regs["intId"] = "vector"
          /\ r.regs["errId"] = IF r.vector \in CpuPushesError THEN "error" ELSE "zero"
          /\ pc = "hung" => r.vector \in {30, 31}

\* The handler that irqInit installs for the spurious interrupt is the one
\* that its vector leads to.
SpuriousIsHandled == pc = "run" => Handler(lapic.spurious.vector) = "spurious"
=============================================================================
