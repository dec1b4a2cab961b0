-------------------------------- MODULE Ahci --------------------------------
(* The disk driver: the scan of PCI that finds the controller               *)
(* (driver/pci.c) and the AHCI driver (driver/disk/ahci.c), beside the      *)
(* controller and its drives, which work at the same time.  Only the boot   *)
(* processor calls the driver, one call after another.                      *)
(*                                                                          *)
(* The actions under "The controller" are external: what the driver's code  *)
(* takes for granted of the registers it reads.                             *)
EXTENDS Integers, SequencesExt

CONSTANTS
  Machines,    \* [functions, pi, drive, ncs]: what may be plugged together
  MappedPorts, \* ports in the page that ahciInit maps, 30
  NcsMask,     \* 16: four of the five bits of cap.NCS are read
  Wait,        \* rounds that ahciSendCommand waits for a drive
  SectorSize,  \* 512
  DbcSize,     \* 2^22: the byte count of a PRDT entry
  CountSize,   \* 2^16: the sector count of a command
  Sectors,     \* the sector counts that are asked for
  MaxCalls     \* bound: calls of ahciRead and ahciWrite

ASSUME SizesAssumption ==
  /\ NcsMask \in Nat \ {0} /\ Wait \in Nat \ {0} /\ MappedPorts \in Nat
  /\ SectorSize \in Nat \ {0} /\ DbcSize \in Nat \ {0} /\ CountSize \in Nat \ {0}
  /\ SectorSize * CountSize >= DbcSize
  /\ Sectors \subseteq Nat /\ MaxCalls \in Nat

\* What the driver asks of a function's registers.
PCIDevice == [class : 0 .. 255, subclass : 0 .. 255, bar5 : Nat]

ASSUME MachinesAssumption ==
  \A m \in Machines : m.functions \in Seq(PCIDevice) /\ m.ncs \in Nat

VARIABLES
  hw,       \* the machine
  pc,       \* where the driver is
  pos,      \* the next PCI function, or the next port of ahciEnum
  devices,  \* pciDevices: the functions found, the newest first
  base,     \* the controller, or 0
  port,     \* port[p]: the registers and state of a port
  header,   \* header[p][slot]: the command prepared in a slot
  call,     \* the call that is being made: [id, port, sectors]
  slot,     \* ahciReadOrWrite's slot
  spin,     \* ahciSendCommand's spin
  outcome,  \* ghost: outcome[i] of call i
  moved     \* ghost: moved[i], the bytes that the drive moved for call i

scan == <<hw, pos, devices, base>>
work == <<call, slot, spin>>
ghosts == <<outcome, moved>>
vars == <<scan, pc, port, header, work, ghosts>>

Absent == [class |-> 255, subclass |-> 255, bar5 |-> 0]
Named == 0 .. 17  \* codes for which class[] has a name
NoSlot == -1
Empty == [id |-> 0, dbc |-> 0, count |-> 0]

Ports == DOMAIN hw.drive
Slots == 0 .. hw.ncs
Goto(l) == pc' = l

\* The firmware may have started a port, and its drive may be busy for good.
\* `halted', `running' and `ours' are not registers: the port stopped at an
\* error, the slot it works on, and whether the lists are the driver's.
Registers(on, busy) ==
  [st |-> on, fre |-> on, cr |-> on, fr |-> on, ci |-> {}, busy |-> busy,
   tfes |-> FALSE, halted |-> FALSE, running |-> NoSlot, ours |-> FALSE]

Init ==
  /\ hw \in Machines
  /\ pc = "scan"
  /\ pos = <<1, 0>>
  /\ devices = <<>>
  /\ base = 0
  /\ \E on, busy \in BOOLEAN : port = [p \in Ports |-> Registers(on, busy)]
  /\ header = [p \in Ports |-> [s \in Slots |-> Empty]]
  /\ call = [id |-> 0, port |-> 0, sectors |-> 0]
  /\ slot = NoSlot
  /\ spin = 0
  /\ outcome = [i \in 1 .. MaxCalls |-> "none"]
  /\ moved = [i \in 1 .. MaxCalls |-> 0]

-----------------------------------------------------------------------------
(* pci.c: every function of every device of every bus is asked *)

\* The registers of the n-th function, as pciReadDeviceData finds them.
ReadDeviceData(n) == hw.functions[n]

\* pciInitDriver
IsDisk(f) == f.class = 1 /\ f.subclass = 6

\* ahciInit takes the first controller.
Accepts(f) == IsDisk(f) /\ base = 0

\* class[]: a null pointer behind the names, anything behind its end.  printf
\* faults on it with its lock held, so the panic waits for that lock for ever.
ScanFunction ==
  /\ pc = "scan" /\ pos[1] <= Len(hw.functions)
  /\ LET f == ReadDeviceData(pos[1])
     IN  \/ /\ f = Absent \/ f.class \in Named \/ f.class >= 32
            /\ devices' = IF f = Absent THEN devices ELSE <<pos[1]>> \o devices
            /\ base' = IF Accepts(f) THEN f.bar5 ELSE base
            /\ Goto(IF Accepts(f) THEN "enum" ELSE "scan")
            /\ pos' = <<pos[1] + 1, 0>>
         \/ /\ f # Absent /\ f.class \notin Named
            /\ Goto("hung")
            /\ UNCHANGED <<devices, base, pos>>
  /\ UNCHANGED <<hw, port, header, work, ghosts>>

ScanEnd ==
  /\ pc = "scan" /\ pos[1] > Len(hw.functions)
  /\ Goto("idle")
  /\ UNCHANGED <<scan, port, header, work, ghosts>>

-----------------------------------------------------------------------------
(* ahciInit, ahciEnum and ahciRebase *)

At == pos[2]

NextPort == pos' = <<pos[1], At + 1>>

\* ahciCheckType; the page that is mapped ends before the last ports.
\* A "mute" drive is a disk like the others that may leave a command without
\* an answer.
Sata(p) == hw.drive[p] \in {"sata", "mute"}

EnumPort ==
  /\ pc = "enum"
  /\ \/ At \notin Ports /\ Goto("scan") /\ UNCHANGED pos
     \/ At \in Ports \ hw.pi /\ NextPort /\ UNCHANGED pc
     \/ At \in hw.pi /\ At >= MappedPorts /\ Goto("panicked") /\ UNCHANGED pos
     \/ At \in hw.pi /\ At < MappedPorts /\ Sata(At) /\ Goto("stop") /\ UNCHANGED pos
     \/ At \in hw.pi /\ At < MappedPorts /\ ~Sata(At) /\ NextPort /\ UNCHANGED pc
  /\ UNCHANGED <<hw, devices, base, port, header, work, ghosts>>

Driver(next, registers) == Goto(next) /\ port' = [port EXCEPT ![At] = registers]

ahciCmdStop ==
  /\ pc = "stop"
  /\ Driver("stopFis", [port[At] EXCEPT !.st = FALSE])
  /\ UNCHANGED <<scan, header, work, ghosts>>

ahciCmdStopFis ==
  /\ pc = "stopFis"
  /\ Driver("stopping", [port[At] EXCEPT !.fre = FALSE])
  /\ UNCHANGED <<scan, header, work, ghosts>>

\* The loop of ahciCmdStop ends; ahciRebase sets up fresh pages of zeroes.
ahciRebase ==
  /\ pc = "stopping" /\ ~port[At].fr /\ ~port[At].cr
  /\ Driver("start", [port[At] EXCEPT !.ours = TRUE])
  /\ UNCHANGED <<scan, header, work, ghosts>>

ahciCmdStart ==
  /\ pc = "start" /\ ~port[At].cr
  /\ Driver("startFis", [port[At] EXCEPT !.st = TRUE])
  /\ UNCHANGED <<scan, header, work, ghosts>>

ahciCmdStartFis ==
  /\ pc = "startFis"
  /\ Driver("enum", [port[At] EXCEPT !.fre = TRUE])
  /\ NextPort
  /\ UNCHANGED <<hw, devices, base, header, work, ghosts>>

-----------------------------------------------------------------------------
(* ahciReadOrWrite and ahciSendCommand *)

\* A caller uses a port whose drive was set up.
CallReadOrWrite ==
  /\ pc = "idle" /\ call.id < MaxCalls
  /\ \E p \in {q \in Ports : port[q].ours}, n \in Sectors :
       /\ call' = [id |-> call.id + 1, port |-> p, sectors |-> n]
       /\ port' = [port EXCEPT ![p].tfes = FALSE]
  /\ Goto("find")
  /\ slot' = NoSlot /\ spin' = 0
  /\ UNCHANGED <<scan, header, ghosts>>

Return(ok) ==
  /\ outcome' = [outcome EXCEPT ![call.id] = IF ok THEN "ok" ELSE "failed"]
  /\ Goto("idle")

\* Mutant: the slots are used in turn.
FreeSlots_InTurn ==
  {s \in 0 .. (hw.ncs % NcsMask) - 1 : s \notin port[call.port].ci /\ s # call.id - 2}

\* The slots that ahciCmdFindFree looks at and finds free.
FreeSlots == {s \in 0 .. (hw.ncs % NcsMask) - 1 : s \notin port[call.port].ci}

\* dbc is one less than the bytes, in its 22 bits; the count is cut to 16.
Command(c) ==
  [id |-> c.id, dbc |-> (SectorSize * c.sectors - 1) % DbcSize, count |-> c.sectors % CountSize]

ahciCmdFindFree ==
  /\ pc = "find"
  /\ \/ /\ FreeSlots = {}
        /\ Return(FALSE)
        /\ UNCHANGED <<header, slot>>
     \/ /\ FreeSlots # {}
        /\ slot' = Min(FreeSlots)
        /\ header' = [header EXCEPT ![call.port][slot'] = Command(call)]
        /\ Goto("ready")
        /\ UNCHANGED outcome
  /\ UNCHANGED <<scan, port, call, spin, moved>>

Busy == port[call.port].busy

\* Mutant: the rounds are not counted.
SpinReady_Forever ==
  /\ pc = "ready" /\ Busy /\ spin < Wait
  /\ UNCHANGED vars

SpinReady ==
  /\ pc = "ready" /\ Busy /\ spin < Wait
  /\ spin' = spin + 1
  /\ UNCHANGED <<scan, pc, port, header, call, slot, ghosts>>

PortHung ==
  /\ pc = "ready" /\ spin = Wait
  /\ Return(FALSE)
  /\ UNCHANGED <<scan, port, header, work, moved>>

\* Slot 0, whatever slot was prepared.
Issue ==
  /\ pc = "ready" /\ ~Busy /\ spin < Wait
  /\ port' = [port EXCEPT ![call.port].ci = @ \cup {0}]
  /\ Goto("poll")
  /\ UNCHANGED <<scan, header, work, ghosts>>

Poll ==
  /\ pc = "poll"
  /\ port[call.port].ci # {0} \/ port[call.port].tfes
  /\ Goto("check")
  /\ UNCHANGED <<scan, port, header, work, ghosts>>

\* Mutant: the end of the loop is taken for success.
Succeeded_Always == TRUE

Succeeded == ~port[call.port].tfes

Check ==
  /\ pc = "check"
  /\ Return(Succeeded)
  /\ UNCHANGED <<scan, port, header, work, moved>>

-----------------------------------------------------------------------------
(* The controller *)

Set(p, new) ==
  /\ port' = [port EXCEPT ![p] = new]
  /\ UNCHANGED <<scan, pc, header, work, outcome>>

\* CR and FR follow ST and FRE.
FollowList(p) ==
  /\ port[p].cr # port[p].st
  /\ Set(p, [port[p] EXCEPT !.cr = port[p].st]) /\ UNCHANGED moved

FollowFis(p) ==
  /\ port[p].fr # port[p].fre
  /\ Set(p, [port[p] EXCEPT !.fr = port[p].fre]) /\ UNCHANGED moved

GetReady(p) ==
  /\ port[p].busy /\ port[p].running = NoSlot
  /\ Set(p, [port[p] EXCEPT !.busy = FALSE]) /\ UNCHANGED moved

\* An issued command is fetched from its slot, unless an error stopped the
\* port: it goes on only after ST was cleared and set again.
Fetch(p) ==
  /\ port[p].cr /\ port[p].fr /\ port[p].ci # {} /\ port[p].running = NoSlot
  /\ ~port[p].halted
  /\ Set(p, [port[p] EXCEPT !.running = Min(port[p].ci), !.busy = TRUE])
  /\ UNCHANGED moved

\* No more than the buffer that the table describes; a count of 0 is the
\* greatest.
Complete(p) ==
  /\ port[p].running # NoSlot
  /\ LET cmd == header[p][port[p].running]
         sectors == IF cmd.count = 0 THEN CountSize ELSE cmd.count
     IN  moved' = [moved EXCEPT ![cmd.id] = @ + Min({cmd.dbc + 1, SectorSize * sectors})]
  /\ Set(p, [port[p] EXCEPT !.ci = @ \ {port[p].running}, !.running = NoSlot, !.busy = FALSE])

Fail(p) ==
  /\ port[p].running # NoSlot
  /\ Set(p, [port[p] EXCEPT !.tfes = TRUE, !.halted = TRUE, !.running = NoSlot, !.busy = FALSE])
  /\ UNCHANGED moved

-----------------------------------------------------------------------------

DriverNext ==
  \/ ScanFunction \/ ScanEnd
  \/ EnumPort \/ ahciCmdStop \/ ahciCmdStopFis \/ ahciRebase \/ ahciCmdStart \/ ahciCmdStartFis
  \/ ahciCmdFindFree \/ SpinReady \/ PortHung \/ Issue \/ Poll \/ Check

Follow(p) == FollowList(p) \/ FollowFis(p)

Answer(p) == Fetch(p) \/ Complete(p) \/ Fail(p)

Next ==
  \/ DriverNext \/ CallReadOrWrite
  \/ \E p \in Ports : Follow(p) \/ Answer(p) \/ GetReady(p)

AllPorts == UNION {DOMAIN m.drive : m \in Machines}

\* The processor goes on, the lists of a port stop and start as they are told,
\* and a drive that is not mute does or refuses what is issued; that a busy
\* drive gets ready or that anybody calls is not promised.
Spec ==
  /\ Init /\ [][Next]_vars
  /\ WF_vars(DriverNext)
  /\ \A p \in AllPorts : /\ WF_vars(p \in Ports /\ Follow(p))
                          /\ WF_vars(p \in Ports /\ hw.drive[p] = "sata" /\ Answer(p))

-----------------------------------------------------------------------------
(* Properties *)

\* Whatever a port works on is the command that the call under way prepared,
\* in the driver's own list, and it works on it once: although every command
\* is issued as slot 0, whatever slot was prepared, and although slot and
\* command bit of a failed call stay behind.
DeviceRunsTheCall ==
  \A p \in Ports :
    port[p].running # NoSlot =>
      /\ port[p].ours /\ call.port = p /\ pc \in {"poll", "check"}
      /\ header[p][port[p].running].id = call.id
      /\ moved[call.id] = 0

\* A call returns true exactly when the drive did what was asked, no more and
\* no less, and what failed is not done later; but for sector counts that do
\* not fit in the table's byte count.
OutcomesAreGenuine ==
  \A i \in 1 .. MaxCalls :
    /\ outcome[i] = "ok" => moved[i] > 0
    /\ outcome[i] = "failed" => moved[i] = 0
    /\ outcome[i] = "ok" /\ i = call.id /\ call.sectors > 0 /\ SectorSize * call.sectors <= DbcSize
       => moved[i] = SectorSize * call.sectors

\* On a machine whose functions all have a class that class[] names, the
\* set-up comes to its end whatever the firmware left running, with a panic
\* only at a port behind the mapped page: another class can hang it in printf.
\* And every call ends, even when the drive stays busy for ever, but on a port
\* that an earlier error has stopped and on a drive that may not answer: only
\* the first wait of ahciSendCommand has a limit.
EveryLoopEnds ==
  /\ (\A i \in DOMAIN hw.functions : hw.functions[i] = Absent \/ hw.functions[i].class \in Named)
     => <>(pc = "idle" \/ (pc = "panicked" /\ At >= MappedPorts))
  /\ \A p \in AllPorts :
       (pc = "find" /\ call.port = p /\ hw.drive[p] = "sata" /\ ~port[p].halted) ~> (pc = "idle")
=============================================================================
