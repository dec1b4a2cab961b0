----------------------------- MODULE AhciProofs -----------------------------
(* Proofs about the calls of the disk driver, for every machine, every size *)
(* of the fields and every number of sectors: the drive runs what the call  *)
(* prepared, and what the driver answers is what the drive did.             *)
EXTENDS Ahci, WellFoundedInduction, TLAPS

\* A set of natural numbers has a least element.
LEMMA LeastExists ==
  ASSUME NEW S \in SUBSET Nat, S # {}
  PROVE  \E m \in S : \A n \in S : m <= n
<1> DEFINE R == {p \in Nat \X Nat : p[1] < p[2]}
<1>1. IsWellFoundedOn(R, Nat)
  BY NatLessThanWellFounded DEF OpToRel
<1>2. PICK m \in S : \A n \in S : ~ (<<n, m>> \in R)
  BY <1>1, WFMin
<1>3. \A n \in S : ~ (n < m)
  BY <1>2
<1> QED
  BY <1>3

\* Min finds it.
LEMMA MinIsLeast ==
  ASSUME NEW S \in SUBSET Nat, S # {}
  PROVE  Min(S) \in S /\ \A n \in S : Min(S) <= n
  BY LeastExists DEF Min

\* The least of two.
LEMMA MinOfTwo ==
  ASSUME NEW a \in Nat, NEW b \in Nat
  PROVE  Min({a, b}) = IF a <= b THEN a ELSE b
<1>1. Min({a, b}) \in {a, b} /\ \A n \in {a, b} : Min({a, b}) <= n
  BY MinIsLeast
<1> QED
  BY <1>1

\* A number cut to a field is in the field's range.
LEMMA RemainderInRange ==
  ASSUME NEW a \in Int, NEW b \in Nat \ {0}
  PROVE  a % b \in 0 .. b - 1
  OBVIOUS

\* One that fits is not changed.
LEMMA RemainderOfSmall ==
  ASSUME NEW b \in Nat \ {0}, NEW a \in 0 .. b - 1
  PROVE  a % b = a
  OBVIOUS

-----------------------------------------------------------------------------
(* The inductive invariant.  Every command is issued as slot 0; that this   *)
(* is the slot that was prepared, or that the port is past fetching any,    *)
(* is what has to be carried through the call.                              *)

Calling == {"find", "ready", "poll", "check"}

Port ==
  [st : BOOLEAN, fre : BOOLEAN, cr : BOOLEAN, fr : BOOLEAN, ci : SUBSET {0}, busy : BOOLEAN,
   tfes : BOOLEAN, halted : BOOLEAN, running : {NoSlot, 0}, ours : BOOLEAN]

Header == [id : 0 .. MaxCalls, dbc : 0 .. DbcSize - 1, count : 0 .. CountSize - 1]

TypeInv ==
  /\ hw \in Machines
  /\ port \in [Ports -> Port]
  /\ header \in [Ports -> [Slots -> Header]]
  /\ call.id \in 0 .. MaxCalls /\ call.sectors \in Nat
  /\ pc \in Calling => call.id # 0 /\ call.port \in Ports /\ port[call.port].ours
  /\ outcome \in [1 .. MaxCalls -> {"none", "ok", "failed"}]
  /\ moved \in [1 .. MaxCalls -> Nat]

\* The bytes that the drive moves for a command.
Bytes(cmd) ==
  Min({cmd.dbc + 1, SectorSize * (IF cmd.count = 0 THEN CountSize ELSE cmd.count)})

\* A port works only on the call that is being polled, and not after an
\* error; a command bit is that call's, or it stayed behind after an error.
PortInv ==
  \A p \in Ports :
    /\ port[p].running # NoSlot =>
         /\ pc = "poll" /\ call.port = p
         /\ port[p].ci = {0} /\ ~port[p].tfes /\ ~port[p].halted
    /\ port[p].ci # {} => port[p].halted \/ (pc = "poll" /\ call.port = p)

\* What the port will fetch when it can is the call's command.
Prepared ==
  port[call.port].halted \/ header[call.port][0] = Command(call)

\* The drive has done all of it, or nothing and stopped.
Finished ==
  \/ /\ port[call.port].ci = {} /\ ~port[call.port].tfes
     /\ moved[call.id] = Bytes(Command(call))
  \/ port[call.port].tfes /\ port[call.port].halted /\ moved[call.id] = 0

Pending ==
  /\ port[call.port].ci = {0} /\ ~port[call.port].tfes
  /\ Prepared /\ moved[call.id] = 0

CallInv ==
  /\ pc \in {"find", "ready"} => ~port[call.port].tfes /\ moved[call.id] = 0
  /\ pc = "ready" => Prepared
  /\ pc = "poll" => Pending \/ Finished
  /\ pc = "check" => Finished

\* The call under way has no outcome yet, the later ones nothing at all.
Later ==
  /\ pc \in Calling => outcome[call.id] = "none"
  /\ \A i \in 1 .. MaxCalls : i > call.id => outcome[i] = "none" /\ moved[i] = 0

IInv == TypeInv /\ PortInv /\ CallInv /\ Later /\ OutcomesAreGenuine

-----------------------------------------------------------------------------
(* The counts of a command. *)

\* The fields that ahciReadOrWrite cuts the counts to are enough for every
\* transfer that fits in the table's byte count, the greatest one, whose
\* sector count is written as 0, among them; and no command moves nothing.
LEMMA CommandCounts ==
  ASSUME NEW c, c.sectors \in Nat
  PROVE  /\ Command(c).dbc \in 0 .. DbcSize - 1
         /\ Command(c).count \in 0 .. CountSize - 1
         /\ Bytes(Command(c)) \in Nat \ {0}
         /\ c.sectors > 0 /\ SectorSize * c.sectors <= DbcSize =>
              Bytes(Command(c)) = SectorSize * c.sectors
<1> DEFINE n == c.sectors
           dbc == Command(c).dbc
           count == Command(c).count
           full == IF count = 0 THEN CountSize ELSE count
<1> USE SizesAssumption
<1>1. dbc = (SectorSize * n - 1) % DbcSize /\ count = n % CountSize
  BY DEF Command
<1>2. n \in Nat /\ SectorSize * n \in Nat /\ SectorSize * n - 1 \in Int
  OBVIOUS
<1> HIDE DEF dbc, count, n
<1>3. dbc \in 0 .. DbcSize - 1
  <2>1. (SectorSize * n - 1) % DbcSize \in 0 .. DbcSize - 1
    BY <1>2, RemainderInRange
  <2> QED
    BY <1>1, <2>1
<1>4. count \in 0 .. CountSize - 1
  <2>1. n % CountSize \in 0 .. CountSize - 1
    BY <1>2, RemainderInRange
  <2> QED
    BY <1>1, <2>1
<1>5. full \in Nat \ {0}
  BY <1>4
<1>6. SectorSize * full \in Nat \ {0}
  <2> HIDE DEF full
  <2> QED
    BY <1>5
<1> HIDE DEF full
<1>7. Bytes(Command(c)) = Min({dbc + 1, SectorSize * full})
  BY DEF Bytes, dbc, count, full
<1>8. Bytes(Command(c)) = IF dbc + 1 <= SectorSize * full THEN dbc + 1 ELSE SectorSize * full
  BY <1>3, <1>6, <1>7, MinOfTwo
<1>9. ASSUME n > 0, SectorSize * n <= DbcSize
      PROVE  Bytes(Command(c)) = SectorSize * n
  <2>1. n \in Nat
    BY <1>2
  <2>2. SectorSize * n - 1 \in 0 .. DbcSize - 1
    BY <1>9, <2>1
  <2>3. dbc = SectorSize * n - 1
    BY <1>1, <2>2, RemainderOfSmall
  <2>4. n <= CountSize
    BY <1>9, <2>1
  <2>5. full = n
    <3>1. CASE n = CountSize
      <4>1. count = 0
        BY <1>1, <3>1
      <4> QED
        BY <3>1, <4>1 DEF full
    <3>2. CASE n < CountSize
      <4>1. count = n
        BY <1>1, <2>1, <3>2, RemainderOfSmall
      <4> QED
        BY <1>9, <4>1 DEF full
    <3> QED
      BY <2>1, <2>4, <3>1, <3>2
  <2> QED
    BY <1>2, <1>8, <2>3, <2>5 DEF n
<1> QED
  BY <1>3, <1>4, <1>6, <1>8, <1>9 DEF dbc, count, n

-----------------------------------------------------------------------------
(* Steps that leave calls and commands alone. *)

\* Nothing is called, issued or under way when the kernel starts.
LEMMA InvInit == Init => IInv
<1> SUFFICES ASSUME Init PROVE IInv
  OBVIOUS
<1> USE SizesAssumption DEF Init
<1>1. PICK on \in BOOLEAN, busy \in BOOLEAN : port = [p \in Ports |-> Registers(on, busy)]
  OBVIOUS
<1>2. port \in [Ports -> Port]
  BY <1>1 DEF Registers, Port
<1>3. Empty \in Header
  BY DEF Empty, Header
<1>4. TypeInv
  BY <1>2, <1>3 DEF TypeInv, Calling
<1>5. PortInv
  BY <1>1 DEF PortInv, Registers
<1>6. CallInv /\ Later /\ OutcomesAreGenuine
  BY DEF CallInv, Later, Calling, OutcomesAreGenuine
<1> QED
  BY <1>4, <1>5, <1>6 DEF IInv

\* What the registers of a port say about its calls.
SameCalls(new, old) ==
  /\ new \in Port
  /\ new.ci = old.ci /\ new.tfes = old.tfes
  /\ new.halted = old.halted /\ new.running = old.running
  /\ old.ours => new.ours

\* A step of the set-up, or of the controller that follows it.
Quiet ==
  /\ UNCHANGED <<hw, header, call, outcome, moved>>
  /\ port' \in [Ports -> Port] /\ \A p \in Ports : SameCalls(port'[p], port[p])
  /\ pc' = pc \/ (pc \notin Calling /\ pc' \notin Calling)

LEMMA QuietKeepsInv ==
  ASSUME IInv, Quiet
  PROVE  IInv'
<1> USE DEF IInv, Quiet
<1>1. Ports' = Ports /\ Slots' = Slots
  BY DEF Ports, Slots
<1>2. TypeInv'
  BY <1>1 DEF TypeInv, SameCalls
<1>3. PortInv'
  BY <1>1 DEF PortInv, SameCalls, Calling
<1>4. pc \in Calling => call.port \in Ports
  BY DEF TypeInv
<1>5. CallInv'
  BY <1>4 DEF CallInv, SameCalls, Calling, Prepared, Pending, Finished, Command, Bytes
<1>6. Later'
  BY DEF Later, Calling
<1>7. OutcomesAreGenuine'
  BY DEF OutcomesAreGenuine
<1> QED
  BY <1>2, <1>3, <1>5, <1>6, <1>7

\* A port keeps what matters when one of these bits is set.
LEMMA BitsKeepCalls ==
  ASSUME NEW r \in Port, NEW on \in BOOLEAN
  PROVE  /\ SameCalls(r, r)
         /\ SameCalls([r EXCEPT !.st = FALSE], r)
         /\ SameCalls([r EXCEPT !.fre = FALSE], r)
         /\ SameCalls([r EXCEPT !.ours = TRUE], r)
         /\ SameCalls([r EXCEPT !.st = TRUE], r)
         /\ SameCalls([r EXCEPT !.fre = TRUE], r)
         /\ SameCalls([r EXCEPT !.cr = on], r)
         /\ SameCalls([r EXCEPT !.fr = on], r)
         /\ SameCalls([r EXCEPT !.busy = FALSE], r)
  BY DEF SameCalls, Port

\* One port is given new registers.
LEMMA OnePortKeepsCalls ==
  ASSUME port \in [Ports -> Port], NEW p, NEW new,
         p \in Ports => SameCalls(new, port[p]),
         port' = [port EXCEPT ![p] = new]
  PROVE  port' \in [Ports -> Port] /\ \A q \in Ports : SameCalls(port'[q], port[q])
<1>1. ASSUME NEW q \in Ports PROVE SameCalls(port'[q], port[q]) /\ port'[q] \in Port
  <2>1. CASE q = p
    BY <2>1 DEF SameCalls
  <2>2. CASE q # p
    BY <2>2, BitsKeepCalls
  <2> QED
    BY <2>1, <2>2
<1> QED
  BY <1>1

\* The scan and the set-up make no call.
LEMMA SetUpIsQuiet ==
  ASSUME TypeInv,
         \/ ScanFunction \/ ScanEnd
         \/ EnumPort \/ ahciCmdStop \/ ahciCmdStopFis \/ ahciRebase \/ ahciCmdStart \/ ahciCmdStartFis
  PROVE  Quiet
<1> USE DEF Calling, Goto, scan, work, ghosts
<1>1. \A p \in Ports : SameCalls(port[p], port[p])
  BY BitsKeepCalls DEF TypeInv
<1>2. port \in [Ports -> Port]
  BY DEF TypeInv
<1>3. CASE ScanFunction
  BY <1>1, <1>2, <1>3 DEF ScanFunction, Quiet
<1>4. CASE ScanEnd
  BY <1>1, <1>2, <1>4 DEF ScanEnd, Quiet
<1>5. CASE EnumPort
  <2>1. pc = "enum" /\ pc' \in {"enum", "scan", "panicked", "stop"}
    BY <1>5 DEF EnumPort
  <2>2. UNCHANGED <<hw, port, header, call, outcome, moved>>
    BY <1>5 DEF EnumPort
  <2> QED
    BY <1>1, <1>2, <2>1, <2>2 DEF Quiet
<1>6. CASE ahciCmdStop
  BY <1>2, <1>6, BitsKeepCalls, OnePortKeepsCalls DEF ahciCmdStop, Driver, Quiet
<1>7. CASE ahciRebase
  BY <1>2, <1>7, BitsKeepCalls, OnePortKeepsCalls DEF ahciRebase, Driver, Quiet
<1>8. CASE ahciCmdStart
  BY <1>2, <1>8, BitsKeepCalls, OnePortKeepsCalls DEF ahciCmdStart, Driver, Quiet
<1>9. CASE ahciCmdStartFis
  BY <1>2, <1>9, BitsKeepCalls, OnePortKeepsCalls DEF ahciCmdStartFis, Driver, Quiet
<1>10. CASE ahciCmdStopFis
  BY <1>2, <1>10, BitsKeepCalls, OnePortKeepsCalls DEF ahciCmdStopFis, Driver, Quiet
<1> QED
  BY <1>3, <1>4, <1>5, <1>6, <1>7, <1>8, <1>9, <1>10

\* Nor does the controller when it follows ST and FRE or gets ready.
LEMMA FollowIsQuiet ==
  ASSUME TypeInv, NEW p \in Ports, FollowList(p) \/ FollowFis(p) \/ GetReady(p)
  PROVE  Quiet
<1> USE DEF scan, work
<1>1. port \in [Ports -> Port] /\ port[p] \in Port
  BY DEF TypeInv
<1>2. port[p].st \in BOOLEAN /\ port[p].fre \in BOOLEAN
  BY <1>1 DEF Port
<1>3. CASE FollowList(p)
  BY <1>1, <1>2, <1>3, BitsKeepCalls, OnePortKeepsCalls DEF FollowList, Set, Quiet
<1>4. CASE FollowFis(p)
  BY <1>1, <1>2, <1>4, BitsKeepCalls, OnePortKeepsCalls DEF FollowFis, Set, Quiet
<1>5. CASE GetReady(p)
  BY <1>1, <1>5, BitsKeepCalls, OnePortKeepsCalls DEF GetReady, Set, Quiet
<1> QED
  BY <1>3, <1>4, <1>5

-----------------------------------------------------------------------------
(* The steps of a call. *)

\* A new call: its number is fresh, and a bit that an earlier one left means
\* that its port has stopped.
LEMMA CallKeepsInv ==
  ASSUME IInv, CallReadOrWrite
  PROVE  IInv'
<1> USE SizesAssumption DEF IInv, CallReadOrWrite, scan, ghosts, Goto
<1>1. PICK p \in Ports, n \in Sectors :
        /\ port[p].ours
        /\ call' = [id |-> call.id + 1, port |-> p, sectors |-> n]
        /\ port' = [port EXCEPT ![p].tfes = FALSE]
  OBVIOUS
<1>2. /\ call.id \in 0 .. MaxCalls /\ call.id < MaxCalls
      /\ call'.id = call.id + 1 /\ call'.port = p /\ call'.sectors \in Nat
  BY <1>1 DEF TypeInv
<1>3. /\ port \in [Ports -> Port] /\ port' \in [Ports -> Port]
      /\ port'[p] = [port[p] EXCEPT !.tfes = FALSE]
      /\ \A q \in Ports \ {p} : port'[q] = port[q]
  <2>1. port \in [Ports -> Port] /\ port[p] \in Port
    BY DEF TypeInv
  <2>2. [port[p] EXCEPT !.tfes = FALSE] \in Port
    BY <2>1 DEF Port
  <2>3. port' = [port EXCEPT ![p] = [port[p] EXCEPT !.tfes = FALSE]]
    BY <1>1
  <2> QED
    BY <2>1, <2>2, <2>3
<1>4. /\ port'[p].running = port[p].running /\ port'[p].ci = port[p].ci
      /\ port'[p].halted = port[p].halted /\ port'[p].ours /\ ~port'[p].tfes
  BY <1>1, <1>3 DEF Port
<1>5. Ports' = Ports /\ Slots' = Slots
  BY DEF Ports, Slots
<1>6. TypeInv'
  <2>1. UNCHANGED <<hw, header, outcome, moved>>
    OBVIOUS
  <2>2. call'.id \in 0 .. MaxCalls /\ call'.id # 0 /\ call'.sectors \in Nat
    BY <1>2
  <2> QED
    BY <1>2, <1>3, <1>4, <1>5, <2>1, <2>2 DEF TypeInv
<1>7. PortInv'
  BY <1>3, <1>4, <1>5 DEF PortInv
<1>8. outcome[call'.id] = "none" /\ moved[call'.id] = 0
  BY <1>2 DEF Later
<1>9. CallInv'
  BY <1>2, <1>4, <1>8 DEF CallInv
<1>10. Later'
  BY <1>2, <1>8 DEF Later
<1>11. OutcomesAreGenuine'
  BY <1>2, <1>8 DEF OutcomesAreGenuine
<1> QED
  BY <1>6, <1>7, <1>9, <1>10, <1>11

\* When the port can fetch, slot 0 is free: it is the one that is found.
LEMMA FirstSlotIsFound ==
  ASSUME TypeInv, FreeSlots # {}, port[call.port].ci = {}
  PROVE  Min(FreeSlots) = 0 /\ 0 \in Slots
<1>1. hw.ncs \in Nat
  BY MachinesAssumption DEF TypeInv
<1>2. hw.ncs % NcsMask \in Nat
  BY <1>1, SizesAssumption
<1>3. FreeSlots \in SUBSET Nat /\ 0 \in FreeSlots
  BY <1>2 DEF FreeSlots
<1>4. Min(FreeSlots) \in Nat /\ Min(FreeSlots) <= 0
  BY <1>3, MinIsLeast
<1> QED
  BY <1>1, <1>4 DEF Slots

\* A call that returns has its outcome: it did all of it, or nothing.
LEMMA ReturnKeepsInv ==
  ASSUME IInv, pc \in Calling \ {"poll"}, NEW ok \in BOOLEAN, Return(ok),
         UNCHANGED <<hw, port, header, call, moved>>,
         moved[call.id] = IF ok THEN Bytes(Command(call)) ELSE 0
  PROVE  IInv'
<1> USE DEF IInv, Return, Goto
<1>1. Ports' = Ports /\ Slots' = Slots
  BY DEF Ports, Slots
<1>2. call.id \in 1 .. MaxCalls /\ call.sectors \in Nat
  BY SizesAssumption DEF TypeInv
<1>3. /\ outcome' \in [1 .. MaxCalls -> {"none", "ok", "failed"}]
      /\ outcome'[call.id] = IF ok THEN "ok" ELSE "failed"
      /\ \A i \in 1 .. MaxCalls : i # call.id => outcome'[i] = outcome[i]
  BY <1>2 DEF TypeInv
<1>4. TypeInv'
  BY <1>1, <1>3 DEF TypeInv, Calling
<1>5. pc' = "idle"
  OBVIOUS
<1>6. PortInv'
  BY <1>1 DEF PortInv
<1>7. CallInv'
  BY <1>5 DEF CallInv
<1>8. Later'
  BY <1>2, <1>3, <1>5 DEF Later, TypeInv, Calling
<1>9. OutcomesAreGenuine'
  BY <1>2, <1>3, CommandCounts DEF OutcomesAreGenuine, TypeInv
<1> QED
  BY <1>4, <1>6, <1>7, <1>8, <1>9

\* ahciCmdFindFree: no slot and the call fails, or the command is prepared.
LEMMA FindKeepsInv ==
  ASSUME IInv, ahciCmdFindFree
  PROVE  IInv'
<1> USE DEF scan
<1>1. /\ pc = "find" /\ pc \in Calling \ {"poll"}
      /\ UNCHANGED <<hw, port, call, moved>>
      /\ moved[call.id] = 0 /\ ~port[call.port].tfes
  BY DEF ahciCmdFindFree, IInv, CallInv, Calling
<1>2. CASE FreeSlots = {}
  <2>1. Return(FALSE) /\ header' = header
    BY <1>2 DEF ahciCmdFindFree
  <2> QED
    BY <1>1, <2>1, ReturnKeepsInv
<1>3. CASE FreeSlots # {}
  <2>1. /\ header' = [header EXCEPT ![call.port][Min(FreeSlots)] = Command(call)]
        /\ pc' = "ready" /\ outcome' = outcome
    BY <1>3 DEF ahciCmdFindFree, Goto
  <2>2. call.port \in Ports /\ call.id \in 1 .. MaxCalls /\ call.sectors \in Nat
    BY <1>1, SizesAssumption DEF IInv, TypeInv
  <2>3. Command(call) \in Header
    <3>1. Command(call).dbc \in 0 .. DbcSize - 1 /\ Command(call).count \in 0 .. CountSize - 1
      BY <2>2, CommandCounts
    <3>2. Command(call) = [id |-> call.id, dbc |-> Command(call).dbc, count |-> Command(call).count]
      BY DEF Command
    <3> QED
      BY <2>2, <3>1, <3>2 DEF Header
  <2>4. Ports' = Ports /\ Slots' = Slots
    BY <1>1 DEF Ports, Slots
  <2>5. header' \in [Ports -> [Slots -> Header]]
    BY <2>1, <2>3 DEF IInv, TypeInv
  <2>6. TypeInv'
    BY <1>1, <2>1, <2>4, <2>5 DEF IInv, TypeInv, Calling
  <2>7. PortInv'
    BY <1>1, <2>1, <2>4 DEF IInv, PortInv
  <2>8. port[call.port].halted \/ header'[call.port][0] = Command(call)
    <3>1. CASE port[call.port].halted
      BY <3>1
    <3>2. CASE ~port[call.port].halted
      <4>1. port[call.port].ci = {}
        BY <1>1, <2>2, <3>2 DEF IInv, PortInv
      <4>2. Min(FreeSlots) = 0 /\ 0 \in Slots
        BY <1>3, <4>1, FirstSlotIsFound DEF IInv
      <4> QED
        BY <2>1, <2>2, <4>2 DEF IInv, TypeInv
    <3> QED
      BY <3>1, <3>2
  <2>9. CallInv'
    BY <1>1, <2>1, <2>8 DEF CallInv, Prepared, Command
  <2>10. Later'
    BY <1>1, <2>1 DEF IInv, Later, Calling
  <2>11. OutcomesAreGenuine'
    BY <1>1, <2>1 DEF IInv, OutcomesAreGenuine
  <2> QED
    BY <2>6, <2>7, <2>9, <2>10, <2>11 DEF IInv
<1> QED
  BY <1>2, <1>3

\* The command bit is set: the command is pending, whether the port will
\* fetch it or is past fetching any.
LEMMA IssueKeepsInv ==
  ASSUME IInv, Issue
  PROVE  IInv'
<1> USE DEF scan, work, ghosts, Issue, Goto
<1> DEFINE p == call.port
<1>1. /\ p \in Ports /\ port \in [Ports -> Port] /\ port[p].ours
      /\ call.id \in 1 .. MaxCalls
  BY SizesAssumption DEF IInv, TypeInv, Calling
<1>2. port' = [port EXCEPT ![p] = [port[p] EXCEPT !.ci = {0}]]
  <2>1. port[p].ci \cup {0} = {0}
    BY <1>1 DEF Port
  <2> QED
    BY <2>1
<1>3. [port[p] EXCEPT !.ci = {0}] \in Port
  BY <1>1 DEF Port
<1>4. /\ port' \in [Ports -> Port]
      /\ port'[p] = [port[p] EXCEPT !.ci = {0}]
      /\ \A q \in Ports \ {p} : port'[q] = port[q]
  BY <1>1, <1>2, <1>3
<1>5. /\ port'[p].ci = {0} /\ port'[p].ours /\ port'[p].running = port[p].running
      /\ port'[p].tfes = port[p].tfes /\ port'[p].halted = port[p].halted
  BY <1>1, <1>4 DEF Port
<1>6. Ports' = Ports /\ Slots' = Slots
  BY DEF Ports, Slots
<1> HIDE DEF p
<1>7. TypeInv'
  BY <1>1, <1>4, <1>5, <1>6 DEF IInv, TypeInv, Calling, p
<1>8. PortInv'
  BY <1>1, <1>4, <1>5, <1>6 DEF IInv, PortInv, p
<1>9. CallInv'
  BY <1>5 DEF IInv, CallInv, Prepared, Pending, Command, p
<1>10. Later'
  BY DEF IInv, Later, Calling
<1>11. OutcomesAreGenuine'
  BY DEF IInv, OutcomesAreGenuine
<1> QED
  BY <1>7, <1>8, <1>9, <1>10, <1>11 DEF IInv

\* The other waits and returns: the loop ends when the bit is gone or an
\* error is there, and then the drive has done all or nothing.
LEMMA WaitKeepsInv ==
  ASSUME IInv, SpinReady \/ PortHung \/ Poll \/ Check
  PROVE  IInv'
<1> USE DEF scan, work, ghosts, Goto
<1>1. CASE SpinReady
  <2>1. port \in [Ports -> Port] /\ \A q \in Ports : SameCalls(port[q], port[q])
    BY BitsKeepCalls DEF IInv, TypeInv
  <2>2. Quiet
    BY <1>1, <2>1 DEF SpinReady, Quiet
  <2> QED
    BY <2>2, QuietKeepsInv
<1>2. CASE PortHung
  <2>1. pc = "ready" /\ pc \in Calling \ {"poll"} /\ moved[call.id] = 0
    BY <1>2 DEF PortHung, IInv, CallInv, Calling
  <2>2. Return(FALSE) /\ UNCHANGED <<hw, port, header, call, moved>>
    BY <1>2 DEF PortHung
  <2> QED
    BY <2>1, <2>2, ReturnKeepsInv
<1>3. CASE Poll
  <2>1. /\ pc = "poll" /\ pc' = "check"
        /\ UNCHANGED <<hw, port, header, call, outcome, moved>>
        /\ port[call.port].ci # {0} \/ port[call.port].tfes
    BY <1>3 DEF Poll
  <2>2. Finished
    BY <2>1 DEF IInv, CallInv, Pending
  <2>3. Ports' = Ports /\ Slots' = Slots
    BY <2>1 DEF Ports, Slots
  <2>4. TypeInv'
    BY <2>1, <2>3 DEF IInv, TypeInv, Calling
  <2>5. call.port \in Ports /\ port[call.port].running = NoSlot
    BY <2>1 DEF IInv, PortInv, TypeInv, Calling
  <2>6. port[call.port].ci # {} => port[call.port].halted
    BY <2>2 DEF Finished
  <2>7. PortInv'
    BY <2>1, <2>3, <2>5, <2>6 DEF IInv, PortInv
  <2>8. CallInv'
    BY <2>1, <2>2 DEF CallInv, Finished, Bytes, Command
  <2>9. Later' /\ OutcomesAreGenuine'
    BY <2>1 DEF IInv, Later, OutcomesAreGenuine, Calling
  <2> QED
    BY <2>4, <2>7, <2>8, <2>9 DEF IInv
<1>4. CASE Check
  <2>1. pc = "check" /\ pc \in Calling \ {"poll"} /\ Finished
    BY <1>4 DEF Check, IInv, CallInv, Calling
  <2>2. Return(Succeeded) /\ UNCHANGED <<hw, port, header, call, moved>>
    BY <1>4 DEF Check
  <2>3. call.port \in Ports /\ port \in [Ports -> Port]
    BY <2>1 DEF IInv, TypeInv
  <2>4. Succeeded \in BOOLEAN
    BY DEF Succeeded
  <2>5. moved[call.id] = IF Succeeded THEN Bytes(Command(call)) ELSE 0
    BY <2>1 DEF Succeeded, Finished
  <2> QED
    BY <2>1, <2>2, <2>4, <2>5, ReturnKeepsInv
<1> QED
  BY <1>1, <1>2, <1>3, <1>4

-----------------------------------------------------------------------------
(* The steps of the controller. *)

\* What a port that is fetching or working knows of the call.
LEMMA WorkingPort ==
  ASSUME IInv, NEW p \in Ports,
         \/ port[p].running # NoSlot
         \/ port[p].ci # {} /\ ~port[p].halted
  PROVE  /\ p = call.port /\ pc = "poll" /\ port[p].ci = {0} /\ ~port[p].tfes /\ ~port[p].halted
         /\ call.id \in 1 .. MaxCalls /\ call.sectors \in Nat /\ outcome[call.id] = "none"
         /\ header[p][0] = Command(call) /\ moved[call.id] = 0
<1>1. p = call.port /\ pc = "poll" /\ ~port[p].halted /\ port[p].ci # {}
  BY DEF IInv, PortInv
<1>2. call.id \in 1 .. MaxCalls /\ call.sectors \in Nat /\ outcome[call.id] = "none"
  BY <1>1, SizesAssumption DEF IInv, TypeInv, Later, Calling
<1>3. Pending
  BY <1>1 DEF IInv, CallInv, Finished
<1> QED
  BY <1>1, <1>2, <1>3 DEF Pending, Prepared

\* A port that takes its command, does it or stops at it: the call is still
\* pending, or the drive has done all of it, or nothing and never will.
LEMMA WorkKeepsInv ==
  ASSUME IInv, NEW p \in Ports, Fetch(p) \/ Complete(p) \/ Fail(p)
  PROVE  IInv'
<1> USE DEF Set, scan, work
<1>1. /\ p = call.port /\ pc = "poll" /\ port[p].ci = {0} /\ ~port[p].tfes /\ ~port[p].halted
      /\ call.id \in 1 .. MaxCalls /\ call.sectors \in Nat /\ outcome[call.id] = "none"
      /\ header[p][0] = Command(call) /\ moved[call.id] = 0
  BY WorkingPort DEF Fetch, Complete, Fail
<1>2. UNCHANGED <<hw, pc, header, call, outcome>> /\ Ports' = Ports /\ Slots' = Slots
  BY DEF Fetch, Complete, Fail, Ports, Slots
<1>3. /\ port \in [Ports -> Port] /\ port[p] \in Port /\ port[p].ours
      /\ moved \in [1 .. MaxCalls -> Nat]
  BY <1>1 DEF IInv, TypeInv, Calling
<1>4. PICK new : port' = [port EXCEPT ![p] = new] /\
           \/ new = [port[p] EXCEPT !.running = Min(port[p].ci), !.busy = TRUE] /\ Fetch(p)
           \/ /\ new = [port[p] EXCEPT !.ci = @ \ {port[p].running}, !.running = NoSlot, !.busy = FALSE]
              /\ Complete(p)
           \/ /\ new = [port[p] EXCEPT !.tfes = TRUE, !.halted = TRUE, !.running = NoSlot, !.busy = FALSE]
              /\ Fail(p)
  BY DEF Fetch, Complete, Fail
<1>5. /\ new \in Port /\ new.ours /\ moved' \in [1 .. MaxCalls -> Nat]
      /\ \A i \in 1 .. MaxCalls : i # call.id => moved'[i] = moved[i]
      /\ \/ new.ci = {0} /\ ~new.tfes /\ ~new.halted /\ moved'[call.id] = 0
         \/ /\ new.ci = {} /\ ~new.tfes /\ new.running = NoSlot
            /\ moved'[call.id] = Bytes(Command(call))
         \/ new.tfes /\ new.halted /\ new.running = NoSlot /\ moved'[call.id] = 0
  <2>1. CASE new = [port[p] EXCEPT !.running = Min(port[p].ci), !.busy = TRUE] /\ Fetch(p)
    <3>1. Min(port[p].ci) = 0
      BY <1>1, MinIsLeast
    <3>2. moved' = moved
      BY <2>1 DEF Fetch
    <3> QED
      BY <1>1, <1>3, <2>1, <3>1, <3>2 DEF Port
  <2>2. CASE /\ new = [port[p] EXCEPT !.ci = @ \ {port[p].running}, !.running = NoSlot, !.busy = FALSE]
             /\ Complete(p)
    <3>1. port[p].running = 0
      BY <1>3, <2>2 DEF Complete, Port
    <3>2. moved' = [moved EXCEPT ![call.id] = @ + Bytes(Command(call))]
      <4>1. header[p][port[p].running] = Command(call) /\ Command(call).id = call.id
        BY <1>1, <3>1 DEF Command
      <4> QED
        BY <2>2, <4>1 DEF Complete, Bytes
    <3>3. Bytes(Command(call)) \in Nat
      BY <1>1, CommandCounts
    <3>4. /\ moved' \in [1 .. MaxCalls -> Nat]
          /\ moved'[call.id] = Bytes(Command(call))
          /\ \A i \in 1 .. MaxCalls : i # call.id => moved'[i] = moved[i]
      BY <1>1, <1>3, <3>2, <3>3
    <3>5. /\ new \in Port /\ new.ours
          /\ new.ci = {} /\ ~new.tfes /\ new.running = NoSlot
      BY <1>1, <1>3, <2>2, <3>1 DEF Port
    <3> QED
      BY <3>4, <3>5
  <2>3. CASE /\ new = [port[p] EXCEPT !.tfes = TRUE, !.halted = TRUE, !.running = NoSlot, !.busy = FALSE]
             /\ Fail(p)
    <3>1. moved' = moved
      BY <2>3 DEF Fail
    <3> QED
      BY <1>1, <1>3, <2>3, <3>1 DEF Port
  <2> QED
    BY <1>4, <2>1, <2>2, <2>3
<1>6. /\ port' \in [Ports -> Port] /\ port'[p] = new
      /\ \A q \in Ports \ {p} : port'[q] = port[q]
  BY <1>3, <1>4, <1>5
<1>7. TypeInv'
  BY <1>1, <1>2, <1>5, <1>6 DEF IInv, TypeInv
<1>8. PortInv'
  BY <1>1, <1>2, <1>5, <1>6 DEF IInv, PortInv
<1>9. CallInv'
  BY <1>1, <1>2, <1>5, <1>6 DEF CallInv, Pending, Prepared, Finished, Bytes, Command
<1>10. Later'
  BY <1>1, <1>2, <1>5 DEF IInv, Later, Calling
<1>11. OutcomesAreGenuine'
  BY <1>1, <1>2, <1>5 DEF IInv, OutcomesAreGenuine
<1> QED
  BY <1>7, <1>8, <1>9, <1>10, <1>11 DEF IInv

-----------------------------------------------------------------------------

LEMMA InvStep == IInv /\ [Next]_vars => IInv'
<1> SUFFICES ASSUME IInv, [Next]_vars PROVE IInv'
  OBVIOUS
<1>1. CASE DriverNext
  BY <1>1, SetUpIsQuiet, QuietKeepsInv, FindKeepsInv, IssueKeepsInv, WaitKeepsInv
  DEF DriverNext, IInv
<1>2. CASE CallReadOrWrite
  BY <1>2, CallKeepsInv
<1>3. ASSUME NEW p \in Ports, Follow(p) \/ Answer(p) \/ GetReady(p)
      PROVE  IInv'
  BY <1>3, FollowIsQuiet, QuietKeepsInv, WorkKeepsInv DEF Follow, Answer, IInv
<1>4. CASE UNCHANGED vars
  <2>1. \A q \in Ports : SameCalls(port[q], port[q])
    BY BitsKeepCalls DEF IInv, TypeInv
  <2>2. Quiet
    BY <1>4, <2>1 DEF Quiet, IInv, TypeInv, vars, scan, work, ghosts
  <2> QED
    BY <2>2, QuietKeepsInv
<1> QED
  BY <1>1, <1>2, <1>3, <1>4 DEF Next

LEMMA InvHolds == Spec => []IInv
  BY InvInit, InvStep, PTL DEF Spec

\* Although every command is issued as slot 0 and failed calls leave slot and
\* command bit behind (ahciReadOrWrite, ahciSendCommand), a port works only
\* on the command of the call under way, in the driver's list, and once.
THEOREM PreparedCommandRuns == Spec => []DeviceRunsTheCall
<1>1. IInv => DeviceRunsTheCall
  <2> SUFFICES ASSUME IInv, NEW p \in Ports, port[p].running # NoSlot
               PROVE  /\ port[p].ours /\ call.port = p /\ pc \in {"poll", "check"}
                      /\ header[p][port[p].running].id = call.id
                      /\ moved[call.id] = 0
    BY DEF DeviceRunsTheCall
  <2>1. /\ p = call.port /\ pc = "poll"
        /\ header[p][0] = Command(call) /\ moved[call.id] = 0
    BY WorkingPort
  <2>2. port[p].ours /\ port[p].running = 0
    BY <2>1 DEF IInv, TypeInv, Calling, Port
  <2> QED
    BY <2>1, <2>2 DEF Command
<1> QED
  BY <1>1, InvHolds, PTL

\* What ahciReadOrWrite returns is what the drive did: all that was asked or
\* nothing, and nothing of it later.
THEOREM ResultsAreGenuine == Spec => []OutcomesAreGenuine
<1>1. IInv => OutcomesAreGenuine
  BY DEF IInv
<1> QED
  BY <1>1, InvHolds, PTL
=============================================================================
