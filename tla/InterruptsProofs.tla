-------------------------- MODULE InterruptsProofs --------------------------
(* Proofs about interrupts, for every number of vectors and drivers and     *)
(* whatever firmware: who shares a vector (driver/irq.c), what the report   *)
(* of an exception shows (cpu/isr.asm, panic.c), and where the line of a    *)
(* device leads (cpu/ioapic.c).                                             *)
EXTENDS Interrupts, WellFoundedInduction, TLAPS

\* A set of natural numbers has a least element.
LEMMA LeastExists ==
  ASSUME NEW S \in SUBSET Nat, S # {}
  PROVE  \E m \in S : \A n \in S : m <= n
<1> DEFINE R == {p \in Nat \X Nat : p[1] < p[2]}
<1>1. IsWellFoundedOn(R, Nat)
  BY NatLessThanWellFounded DEF OpToRel
<1>2. PICK m \in S : \A n \in S : ~ (<<n, m>> \in R)
  BY <1>1, WFMin
<1>3. \A n \in S : ~ (n < m)
  BY <1>2
<1> QED
  BY <1>3

\* Min finds it.
LEMMA MinIsLeast ==
  ASSUME NEW S \in SUBSET Nat, S # {}
  PROVE  Min(S) \in S /\ \A n \in S : Min(S) <= n
  BY LeastExists DEF Min

\* The places of a concatenation.
LEMMA Joined ==
  ASSUME NEW T, NEW a \in Seq(T), NEW b \in Seq(T)
  PROVE  /\ a \o b \in Seq(T)
         /\ Len(a \o b) = Len(a) + Len(b)
         /\ \A i \in 1 .. Len(a) : (a \o b)[i] = a[i]
         /\ \A i \in 1 .. Len(b) : (a \o b)[Len(a) + i] = b[i]
  OBVIOUS

\* An element in front of a list.
LEMMA PrependedList ==
  ASSUME NEW T, NEW x \in T, NEW l \in Seq(T)
  PROVE  /\ <<x>> \o l \in Seq(T) /\ Len(<<x>> \o l) = Len(l) + 1
         /\ \A i \in DOMAIN (<<x>> \o l) :
              (<<x>> \o l)[i] = x \/ \E j \in DOMAIN l : (<<x>> \o l)[i] = l[j]
         /\ Range(<<x>> \o l) = Range(l) \cup {x}
<1> DEFINE m == <<x>> \o l
<1>1. m \in Seq(T) /\ Len(m) = Len(l) + 1 /\ Len(l) \in Nat
      /\ m[1] = x /\ \A i \in 1 .. Len(l) : m[i + 1] = l[i]
  OBVIOUS
<1>2. \A i \in 1 .. Len(m) : i = 1 \/ (i - 1 \in 1 .. Len(l) /\ m[i] = l[i - 1])
  BY <1>1
<1>3. DOMAIN m = 1 .. Len(m) /\ DOMAIN l = 1 .. Len(l)
  BY <1>1
<1> HIDE DEF m
<1>4. ASSUME NEW i \in DOMAIN m PROVE m[i] = x \/ \E j \in DOMAIN l : m[i] = l[j]
  BY <1>1, <1>2, <1>3
<1>5. ASSUME NEW j \in DOMAIN l PROVE \E i \in DOMAIN m : m[i] = l[j]
  <2>1. j + 1 \in DOMAIN m /\ m[j + 1] = l[j]
    BY <1>1, <1>3
  <2> QED
    BY <2>1
<1>6. \E i \in DOMAIN m : m[i] = x
  BY <1>1, <1>3
<1>7. Range(m) = Range(l) \cup {x}
  BY <1>4, <1>5, <1>6 DEF Range
<1> QED
  BY <1>1, <1>4, <1>7 DEF m

\* A list is its head in front of its tail.
LEMMA HeadAndTail ==
  ASSUME NEW T, NEW l \in Seq(T), l # <<>>
  PROVE  /\ Head(l) \in T /\ Tail(l) \in Seq(T)
         /\ Range(l) = Range(Tail(l)) \cup {Head(l)}
<1>1. /\ Head(l) = l[1] /\ Head(l) \in T /\ Tail(l) \in Seq(T)
      /\ Len(l) \in Nat /\ Len(l) >= 1 /\ DOMAIN l = 1 .. Len(l)
      /\ DOMAIN Tail(l) = 1 .. Len(l) - 1
      /\ \A i \in 1 .. Len(l) - 1 : Tail(l)[i] = l[i + 1]
  OBVIOUS
<1> DEFINE t == Tail(l)
<1> HIDE DEF t
<1>2. /\ DOMAIN t = 1 .. Len(l) - 1
      /\ \A i \in 1 .. Len(l) - 1 : t[i] = l[i + 1]
  BY <1>1 DEF t
<1>3. ASSUME NEW i \in 1 .. Len(l), i # 1
      PROVE  \E j \in DOMAIN t : t[j] = l[i]
  <2>1. i - 1 \in 1 .. Len(l) - 1 /\ (i - 1) + 1 = i
    BY <1>1, <1>3
  <2>2. t[i - 1] = l[i]
    BY <1>2, <2>1
  <2> QED
    BY <1>2, <2>1, <2>2
<1>4. ASSUME NEW j \in DOMAIN t
      PROVE  \E i \in DOMAIN l : l[i] = t[j]
  <2>1. j + 1 \in DOMAIN l
    BY <1>1, <1>2
  <2> QED
    BY <1>2, <2>1
<1>5. 1 \in DOMAIN l
  BY <1>1
<1>6. Range(l) = Range(t) \cup {Head(l)}
  BY <1>1, <1>3, <1>4, <1>5 DEF Range
<1> QED
  BY <1>1, <1>6 DEF t

-----------------------------------------------------------------------------
(* The inductive invariant. *)

Given == {d \in Drivers : step[d] # "alloc"}

\* Before irqInit nothing is taken and nobody has asked.
BeforeInit == pc \in {"isr", "irq"} => used = {} /\ Given = {}

\* Behind it the spurious interrupt's vector is taken; a driver can ask only
\* then.
SpuriousTaken ==
  /\ pc \in {"acpi", "apic", "ioApic", "madt", "lapic", "run", "high"} => IrqHandlers - 1 \in used
  /\ Given # {} => IrqHandlers - 1 \in used

\* A vector that was given stays taken.
GivenTaken ==
  \A d \in Given : vector[d] - 32 \in used /\ vector[d] # Vectors - 1

TypeInv ==
  /\ used \subseteq 0 .. IrqHandlers - 1
  /\ vector \in [Drivers -> Nat]
  /\ step \in [Drivers -> {"alloc", "install", "map", "high", "done"}]
  /\ pc \in {"isr", "irq", "acpi", "apic", "ioApic", "madt", "lapic", "run", "high", "panicked", "hung", "rebooted"}

VInv == TypeInv /\ BeforeInit /\ SpuriousTaken /\ GivenTaken /\ SharedOnlyWhenFull

LEMMA VInvInit == Init => VInv
  BY VectorsAssumption
  DEF Init, VInv, TypeInv, BeforeInit, SpuriousTaken, GivenTaken, SharedOnlyWhenFull, Given

\* bitmapFind's answer is free, or everything is taken and it is 0.
LEMMA FreeVectorFound ==
  ASSUME used \subseteq 0 .. IrqHandlers - 1
  PROVE  /\ FreeVector \in 0 .. IrqHandlers - 1
         /\ FreeVector \notin used \/ (used = 0 .. IrqHandlers - 1 /\ FreeVector = 0)
<1> DEFINE free == (0 .. IrqHandlers - 1) \ used
<1>1. CASE free = {}
  <2>1. used = 0 .. IrqHandlers - 1
    BY <1>1
  <2>2. FreeVector = 0
    BY <1>1 DEF FreeVector
  <2> QED
    BY <2>1, <2>2, VectorsAssumption
<1>2. CASE free # {}
  <2>1. free \in SUBSET Nat
    BY VectorsAssumption
  <2>2. Min(free) \in free
    BY <1>2, <2>1, MinIsLeast
  <2>3. FreeVector = Min(free)
    BY <1>2 DEF FreeVector
  <2> QED
    BY <2>2, <2>3
<1> QED
  BY <1>1, <1>2

\* A driver that asks gets a vector of its own, or the first one when there
\* is none left: the spurious interrupt's is not free, and not the first.
LEMMA AllocKeepsVInv ==
  ASSUME VInv, NEW d \in Drivers, irqAllocVector(d)
  PROVE  VInv'
<1> USE VectorsAssumption DEF irqAllocVector, boot
<1>1. /\ FreeVector \in 0 .. IrqHandlers - 1
      /\ FreeVector \notin used \/ (used = 0 .. IrqHandlers - 1 /\ FreeVector = 0)
  BY FreeVectorFound DEF VInv, TypeInv
<1>2. IrqHandlers - 1 \in used /\ FreeVector # IrqHandlers - 1
  BY <1>1 DEF VInv, SpuriousTaken
<1>3. TypeInv'
  BY <1>1 DEF VInv, TypeInv
<1>4. BeforeInit' /\ SpuriousTaken'
  BY <1>2 DEF VInv, BeforeInit, SpuriousTaken
<1>5. /\ Given' = Given \cup {d}
      /\ vector'[d] = FreeVector + 32
      /\ \A c \in Drivers \ {d} : vector'[c] = vector[c]
      /\ used \subseteq used' /\ FreeVector \in used'
  BY DEF VInv, TypeInv, Given
<1>6. GivenTaken'
  BY <1>1, <1>2, <1>5 DEF VInv, TypeInv, GivenTaken, Given
<1>7. ASSUME NEW b \in Given', NEW c \in Given', b # c, vector'[b] = vector'[c]
      PROVE  vector'[b] = 32 /\ used' = 0 .. IrqHandlers - 1
  <2>1. CASE b # d /\ c # d
    <3>1. vector[b] = 32 /\ used = 0 .. IrqHandlers - 1
      BY <1>5, <1>7, <2>1 DEF VInv, SharedOnlyWhenFull, Given
    <3> QED
      BY <1>1, <1>5, <2>1, <3>1 DEF Given
  <2>2. CASE b = d \/ c = d
    <3>1. PICK e \in Given : e # d /\ vector[e] = FreeVector + 32
      BY <1>5, <1>7, <2>2 DEF Given
    <3>2. FreeVector \in used
      BY <1>1, <3>1 DEF VInv, TypeInv, GivenTaken
    <3> QED
      BY <1>1, <1>5, <1>7, <2>2, <3>2
  <2> QED
    BY <2>1, <2>2
<1>8. SharedOnlyWhenFull'
  BY <1>6, <1>7 DEF SharedOnlyWhenFull, GivenTaken, Given
<1> QED
  BY <1>3, <1>4, <1>6, <1>8 DEF VInv

\* Every other step takes no vector from a driver and frees none.
LEMMA VInvStep == VInv /\ [Next]_vars => VInv'
<1> SUFFICES ASSUME VInv, [Next]_vars PROVE VInv'
  OBVIOUS
<1> USE VectorsAssumption
    DEF VInv, TypeInv, BeforeInit, SpuriousTaken, GivenTaken, SharedOnlyWhenFull, Given,
        Goto, boot, routes
<1>1. CASE isrInit
  BY <1>1 DEF isrInit
<1>2. CASE irqInit
  BY <1>2 DEF irqInit
<1>3. CASE acpiInit
  BY <1>3 DEF acpiInit
<1>4. CASE ioApicInit
  BY <1>4 DEF ioApicInit
<1>5. CASE ParseEntry
  BY <1>5 DEF ParseEntry
<1>6. CASE ParseEnd
  BY <1>6 DEF ParseEnd
<1>7. CASE acpiReboot
  BY <1>7 DEF acpiReboot
<1>8. ASSUME NEW d \in Drivers, irqAllocVector(d)
      PROVE  VInv'
  BY <1>8, AllocKeepsVInv
<1>9. ASSUME NEW d \in Drivers, irqInstall(d)
      PROVE  VInv'
  <2>1. used' = used /\ Given' = Given /\ vector' = vector
    BY <1>9 DEF irqInstall
  <2> QED
    BY <1>9, <2>1 DEF irqInstall
<1>10. ASSUME NEW d \in Drivers, WriteLow(d)
       PROVE  VInv'
  <2>1. used' = used /\ Given' = Given /\ vector' = vector
    BY <1>10 DEF WriteLow
  <2>2. /\ pc = "run" /\ pc' \in {"panicked", "high"}
        /\ step' \in [Drivers -> {"alloc", "install", "map", "high", "done"}]
    BY <1>10 DEF WriteLow
  <2> QED
    BY <2>1, <2>2
<1>11. ASSUME NEW d \in Drivers, WriteHigh(d)
       PROVE  VInv'
  <2>1. used' = used /\ Given' = Given /\ vector' = vector
    BY <1>11 DEF WriteHigh
  <2> QED
    BY <1>11, <2>1 DEF WriteHigh
<1>12. ASSUME NEW v \in Exceptions, Exception(v)
       PROVE  VInv'
  BY <1>12 DEF Exception
<1>13. CASE UNCHANGED vars
  BY <1>13 DEF vars
<1>14. CASE apicInit
  BY <1>14 DEF apicInit
<1>15. CASE lapicInit
  BY <1>15 DEF lapicInit
<1> QED
  BY <1>1, <1>2, <1>3, <1>4, <1>5, <1>6, <1>7, <1>8, <1>9, <1>10, <1>11, <1>12, <1>13, <1>14, <1>15
  DEF Next

\* Two drivers have one vector only when all were taken, and then it is the
\* first one; nobody has the spurious interrupt's (irqAllocVector).
THEOREM VectorsAreShared == Spec => []SharedOnlyWhenFull
<1>1. VInv => SharedOnlyWhenFull
  BY DEF VInv
<1> QED
  BY <1>1, VInvInit, VInvStep, PTL DEF Spec

-----------------------------------------------------------------------------
(* The report of an exception. *)

\* The words on the stack.
Pushes ==
  {"ss", "kRsp", "rFlags", "cs", "rip", "error", "zero", "vector", "rax", "rbx", "rcx", "rdx",
   "rdi", "rsi", "isrRsp", "r8", "r9", "r10", "r11", "r12", "r13", "r14", "r15"}

\* The stack when isrHandler is called.
Stack(v) == CpuFrame(v) \o StubFrame(v) \o Saved

\* The fields of Regs have names of their own.
LEMMA RegsNames ==
  /\ Len(Regs) = 23 /\ DOMAIN Regs = 1 .. 23
  /\ \A i, j \in 1 .. 23 : Regs[i] = Regs[j] => i = j
  BY DEF Regs

\* The stub completes what the CPU pushed, but for the exceptions in Shifted.
LEMMA Pushed ==
  ASSUME NEW v, v \notin Shifted
  PROVE  /\ Len(Stack(v)) = 23
         /\ \A i \in 1 .. 5 : Stack(v)[i] = Regs[i]
         /\ Stack(v)[6] = IF v \in CpuPushesError THEN "error" ELSE "zero"
         /\ Stack(v)[7] = "vector"
         /\ \A i \in 8 .. 23 : Stack(v)[i] = Saved[i - 7]
<1> DEFINE front == CpuFrame(v) \o StubFrame(v)
<1>1. Len(Saved) = 16 /\ Saved \in Seq(Pushes)
  BY DEF Saved, Pushes
<1>2. /\ front \in Seq(Pushes) /\ Len(front) = 7 /\ front[7] = "vector"
      /\ \A i \in 1 .. 5 : front[i] = Regs[i]
      /\ front[6] = IF v \in CpuPushesError THEN "error" ELSE "zero"
  <2>1. CASE v \in CpuPushesError
    <3>1. v \in IsrErr
      BY <2>1 DEF CpuPushesError, IsrErr, Shifted
    <3>2. CpuFrame(v) = <<"ss", "kRsp", "rFlags", "cs", "rip">> \o <<"error">> /\ StubFrame(v) = <<"vector">>
      BY <2>1, <3>1 DEF CpuFrame, StubFrame
    <3> QED
      BY <2>1, <3>2 DEF Regs, Pushes
  <2>2. CASE v \notin CpuPushesError
    <3>1. v \notin IsrErr
      BY <2>2 DEF CpuPushesError, IsrErr, Shifted
    <3>2. CpuFrame(v) = <<"ss", "kRsp", "rFlags", "cs", "rip">> \o <<>> /\ StubFrame(v) = <<"zero", "vector">>
      BY <2>2, <3>1 DEF CpuFrame, StubFrame
    <3> QED
      BY <2>2, <3>2 DEF Regs, Pushes
  <2> QED
    BY <2>1, <2>2
<1> HIDE DEF front
<1>3. Stack(v) = front \o Saved
  BY DEF Stack, front
<1>4. Len(front) = 7 /\ Len(Saved) = 16
  BY <1>1, <1>2
<1>5. /\ Len(front \o Saved) = Len(front) + Len(Saved)
      /\ \A i \in 1 .. Len(front) : (front \o Saved)[i] = front[i]
      /\ \A i \in 1 .. Len(Saved) : (front \o Saved)[Len(front) + i] = Saved[i]
  <2>1. front \in Seq(Pushes) /\ Saved \in Seq(Pushes)
    BY <1>1, <1>2
  <2> QED
    BY <2>1, Joined
<1> HIDE DEF Stack
<1>6. Len(Stack(v)) = 23
  BY <1>3, <1>4, <1>5
<1>7. ASSUME NEW i \in 1 .. 7
      PROVE  Stack(v)[i] = front[i]
  BY <1>3, <1>4, <1>5
<1>8. ASSUME NEW i \in 8 .. 23
      PROVE  Stack(v)[i] = Saved[i - 7]
  <2>1. i - 7 \in 1 .. 16 /\ 7 + (i - 7) = i
    OBVIOUS
  <2>2. (front \o Saved)[Len(front) + (i - 7)] = Saved[i - 7]
    BY <1>4, <1>5, <2>1
  <2> QED
    BY <1>3, <1>4, <2>1, <2>2
<1>9. \A i \in 1 .. 5 : Stack(v)[i] = Regs[i]
  BY <1>2, <1>7
<1>10. Stack(v)[6] = front[6] /\ Stack(v)[7] = front[7]
  BY <1>7
<1> QED
  BY <1>2, <1>6, <1>8, <1>9, <1>10

\* A field is read where its name stands in Regs.
LEMMA FieldsRead ==
  ASSUME NEW v, v \notin Shifted, NEW i \in 1 .. 23
  PROVE  RegsOf(v)[Regs[i]] = Stack(v)[i]
<1> DEFINE place == CHOOSE j \in DOMAIN Regs : Regs[j] = Regs[i]
<1>1. place = i
  BY RegsNames
<1>2. Regs[i] \in Range(Regs)
  BY RegsNames DEF Range
<1>3. RegsOf(v)[Regs[i]] = Stack(v)[Len(Stack(v)) - (Len(Regs) - place)]
  BY <1>2 DEF RegsOf, Stack
<1> QED
  <2>1. Len(Stack(v)) = 23 /\ Len(Regs) = 23
    BY RegsNames, Pushed
  <2>2. 23 - (23 - i) = i
    OBVIOUS
  <2> QED
    BY <1>1, <1>3, <2>1, <2>2

\* So each field is what its name says, but for rsp.
LEMMA RegistersAreTrue ==
  ASSUME NEW v, v \notin Shifted
  PROVE  /\ \A f \in Range(Regs) \ {"errId", "intId", "rsp", "rdiIgnore"} : RegsOf(v)[f] = f
         /\ RegsOf(v)["rsp"] = "isrRsp"
         /\ RegsOf(v)["intId"] = "vector"
         /\ RegsOf(v)["errId"] = IF v \in CpuPushesError THEN "error" ELSE "zero"
<1>1. Regs[6] = "errId" /\ Regs[7] = "intId" /\ Regs[14] = "rsp" /\ Regs[23] = "rdiIgnore"
  BY DEF Regs
<1>2. Saved[7] = "isrRsp" /\ \A i \in (8 .. 22) \ {14} : Saved[i - 7] = Regs[i]
  BY DEF Regs, Saved
<1>3. ASSUME NEW f \in Range(Regs) \ {"errId", "intId", "rsp", "rdiIgnore"}
      PROVE  RegsOf(v)[f] = f
  <2>1. PICK i \in 1 .. 23 : f = Regs[i]
    BY RegsNames DEF Range
  <2>2. i \in 1 .. 5 \/ i \in (8 .. 22) \ {14}
    BY <1>1, <2>1
  <2> QED
    BY <1>2, <2>1, <2>2, FieldsRead, Pushed
<1>4. RegsOf(v)["rsp"] = "isrRsp"
  <2>1. RegsOf(v)[Regs[14]] = Stack(v)[14] /\ Stack(v)[14] = Saved[14 - 7]
    BY FieldsRead, Pushed
  <2> QED
    BY <1>1, <1>2, <2>1
<1> QED
  BY <1>1, <1>3, <1>4, FieldsRead, Pushed

\* There is at most one report, and the boot processor stops behind it.
RInv ==
  \/ report = <<>>
  \/ \E v \in Exceptions :
       /\ report = <<[vector |-> v, regs |-> RegsOf(v)]>>
       /\ pc = IF Named(v) THEN "panicked" ELSE "hung"

LEMMA RInvStep == RInv /\ [Next]_vars => RInv'
<1> SUFFICES ASSUME RInv, [Next]_vars PROVE RInv'
  OBVIOUS
<1>1. ASSUME pc \notin {"panicked", "hung"}, report' = report
      PROVE  RInv'
  BY <1>1 DEF RInv
<1>2. CASE isrInit \/ irqInit \/ acpiInit \/ apicInit \/ lapicInit
  BY <1>1, <1>2 DEF isrInit, irqInit, acpiInit, apicInit, lapicInit
<1>3. CASE ioApicInit \/ ParseEntry \/ ParseEnd \/ acpiReboot
  BY <1>1, <1>3 DEF ioApicInit, ParseEntry, ParseEnd, acpiReboot
<1>4. ASSUME NEW d \in Drivers, irqAllocVector(d) \/ irqInstall(d) \/ WriteLow(d) \/ WriteHigh(d)
      PROVE  RInv'
  BY <1>1, <1>4 DEF irqAllocVector, irqInstall, WriteLow, WriteHigh
<1>5. ASSUME NEW v \in Exceptions, Exception(v)
      PROVE  RInv'
  <2>1. RegsOf(v)' = RegsOf(v)
    OBVIOUS
  <2> QED
    BY <1>5, <2>1 DEF Exception, RInv, Goto
<1>6. CASE UNCHANGED vars
  BY <1>6 DEF RInv, vars
<1> QED
  BY <1>2, <1>3, <1>4, <1>5, <1>6 DEF Next

\* The report of an exception has the registers, the place and the error code
\* of the exception (isr.asm, isrHandler, panicIsr), and its stack pointer in
\* kRsp: the field rsp is that of the handler.
THEOREM ReportsMatchExceptions == Spec => []ReportsAreTrue
<1>1. Init => RInv
  BY DEF Init, RInv
<1>2. ASSUME RInv PROVE ReportsAreTrue
  <2>1. SUFFICES ASSUME NEW i \in DOMAIN report, report[i].vector \notin Shifted
                 PROVE  /\ \A f \in Range(Regs) \ {"errId", "intId", "rsp", "rdiIgnore"} :
                             report[i].regs[f] = f
                        /\ report[i].regs["rsp"] = "isrRsp"
                        /\ report[i].regs["intId"] = "vector"
                        /\ report[i].regs["errId"] =
                             IF report[i].vector \in CpuPushesError THEN "error" ELSE "zero"
                        /\ pc = "hung" => report[i].vector \in {30, 31}
    BY DEF ReportsAreTrue
  <2>2. PICK v \in Exceptions : /\ report = <<[vector |-> v, regs |-> RegsOf(v)]>>
                                /\ pc = IF Named(v) THEN "panicked" ELSE "hung"
    BY <1>2, <2>1 DEF RInv
  <2>3. report[i].vector = v /\ report[i].regs = RegsOf(v)
    BY <2>1, <2>2
  <2>4. pc = "hung" => v \in {30, 31}
    BY <2>2, VectorsAssumption DEF Named
  <2> QED
    BY <2>1, <2>3, <2>4, RegistersAreTrue
<1> QED
  BY <1>1, <1>2, RInvStep, PTL DEF Spec

-----------------------------------------------------------------------------
(* The way of a line.                                                       *)

IsApic(e) == e \in Table /\ e.type = "ioapic"
IsOverride(e) == e \in Table /\ e.type = "override"

Parsing == {"madt", "lapic", "run", "high"}

\* The types of what the boot processor reads and writes.
BootTypes ==
  /\ rsdt \in Firmwares
  /\ madt \in Seq(Entries)
  /\ ioApics \in Seq([id : Nat, gsiStart : Nat, gsiEnd : Nat])
  /\ overrides \in Seq([isaSource : Nat, gsi : Nat, flags : (0 .. 3) \X (0 .. 3)])
  /\ lapic \in [enabled : BOOLEAN, spurious : [vector : Nat, enabled : BOOLEAN]]

\* The lists hold entries of the table, and all overrides that are not
\* still to be parsed.
Parsed ==
  /\ pc \in {"apic", "ioApic"} \cup Parsing => rsdt # NoFirmware
  /\ pc \in {"lapic", "run", "high"} => madt = <<>>
  /\ Range(madt) \subseteq Table
  /\ \A i \in DOMAIN ioApics : \E e \in Table : IsApic(e) /\ ioApics[i] = ApicOf(e)
  /\ \A i \in DOMAIN overrides : \E e \in Table : IsOverride(e) /\ overrides[i] = OverrideOf(e)
  /\ pc \in Parsing =>
       \A e \in Table : IsOverride(e) => e \in Range(madt) \/ OverrideOf(e) \in Range(overrides)

\* No driver asks before the gates and the local APIC are set.
Prepared ==
  /\ pc # "isr" => \A v \in 0 .. Vectors - 1 : v < Stubs => idt[v] = v
  /\ pc \in {"run", "high"} \/ Given # {} => lapic.enabled /\ lapic.spurious.enabled

BootInv == BootTypes /\ Parsed /\ Prepared

\* An entry whose I/O APIC has the pin at which driver d's line arrives.
Reaches(d, e) ==
  IsApic(e) /\ GsiOf(IsaLine[d]) \in e.gsi .. e.gsi + e.pins - 1

PinOf(d, e) == <<e.id, GsiOf(IsaLine[d]) - e.gsi>>

\* No driver with a vector has its line at the same pin, or the same vector.
AloneOnPin(d) == \A c \in Given \ {d} : GsiOf(IsaLine[c]) # GsiOf(IsaLine[d])
AloneOnVector(d) == \A c \in Given \ {d} : vector[c] # vector[d]

Routed(d, entry) ==
  /\ entry.mask = 0 /\ entry.vector = vector[d]
  /\ entry.polarity = FlagsOf(IsaLine[d])[1] % 2
  /\ entry.trigger = FlagsOf(IsaLine[d])[2] % 2
  /\ step[d] = "done" => entry.destination = 0

RedirType ==
  redir \in [PinsOf(Table) -> [vector : Nat, mask : 0 .. 1, polarity : 0 .. 1,
                               trigger : 0 .. 1, destination : 0 .. 1]]

\* One driver writes at a time.
OneWriter ==
  /\ \A d \in Drivers : step[d] = "high" => pc \in {"high", "panicked", "hung"}
  /\ \A c, d \in Drivers : step[c] = "high" /\ step[d] = "high" => c = d

\* The pin of a driver that mapped its line is the one it wrote.
Mapped(d, e) ==
  /\ Reaches(d, e)
  /\ step[d] = "high" => writing = PinOf(d, e)
  /\ AloneOnPin(d) => Routed(d, redir[PinOf(d, e)])

PinsMapped == \A d \in Drivers : step[d] \in {"high", "done"} => \E e \in Table : Mapped(d, e)

LineInv == RedirType /\ OneWriter /\ PinsMapped

\* A handler that was installed stays, as long as nobody shares its vector.
HandlersInstalled ==
  /\ DOMAIN handlers = 0 .. IrqHandlers - 1
  /\ \A d \in Drivers :
       step[d] \in {"map", "high", "done"} /\ AloneOnVector(d) => handlers[vector[d] - 32] = d

-----------------------------------------------------------------------------
(* The firmware's table. *)

\* acpiFindTable finds a table that the firmware made well.
LEMMA TableFound ==
  ASSUME rsdt \in Firmwares, rsdt # NoFirmware, acpiFindTable("APIC") # 0
  PROVE  /\ rsdt[acpiFindTable("APIC")].entries \in Seq(Entries)
         /\ WellFormed(rsdt[acpiFindTable("APIC")].entries)
         /\ Table = Range(rsdt[acpiFindTable("APIC")].entries)
<1> DEFINE I == {i \in 1 .. Len(rsdt) : memcmp(rsdt[i].signature, "APIC") = 0}
           n == acpiFindTable("APIC")
<1>1. rsdt \in Seq(FirmwareTables) /\ Len(rsdt) \in Nat /\ DOMAIN rsdt = 1 .. Len(rsdt)
  BY FirmwaresAssumption
<1>2. n = IF I # {} THEN Min(I) ELSE 0
  BY DEF acpiFindTable, SelectInSeq
<1>3. I # {} /\ I \in SUBSET Nat
  BY <1>1, <1>2
<1>4. n \in I
  BY <1>2, <1>3, MinIsLeast
<1> HIDE DEF n
<1>5. n \in DOMAIN rsdt /\ rsdt[n].signature = "APIC"
  BY <1>1, <1>4 DEF memcmp
<1>6. rsdt[n] \in FirmwareTables
  BY <1>1, <1>5
<1>7. rsdt[n].entries \in Seq(Entries)
  BY <1>5, <1>6 DEF FirmwareTables
<1>8. WellFormed(rsdt[n].entries)
  BY <1>5, FirmwaresAssumption
<1> QED
  BY <1>7, <1>8 DEF n, Table

\* The fields of an entry of the table.
LEMMA EntryFields ==
  ASSUME rsdt \in Firmwares, NEW e \in Table
  PROVE  /\ e \in Entries
         /\ e.type = "ioapic" => e.id \in Nat /\ e.gsi \in Nat /\ e.pins \in Nat
         /\ e.type = "override" => e.source \in Nat /\ e.gsi \in Nat /\ e.flags \in (0 .. 3) \X (0 .. 3)
<1>1. e \in Entries
  <2>1. rsdt # NoFirmware /\ acpiFindTable("APIC") # 0
    BY DEF Table
  <2> QED
    BY <2>1, TableFound DEF Range
<1> QED
  BY <1>1 DEF Entries

\* I/O APICs have different names and overrides different sources.
LEMMA EntriesDiffer ==
  ASSUME rsdt \in Firmwares, NEW e \in Table, NEW f \in Table, e.type = f.type,
         \/ e.type = "ioapic" /\ e.id = f.id
         \/ e.type = "override" /\ e.source = f.source
  PROVE  e = f
<1> DEFINE t == rsdt[acpiFindTable("APIC")].entries
<1>1. WellFormed(t) /\ Table = Range(t)
  BY TableFound DEF Table
<1> HIDE DEF t
<1>2. PICK i \in DOMAIN t, j \in DOMAIN t : t[i] = e /\ t[j] = f
  BY <1>1 DEF Range
<1>3. ASSUME i # j PROVE FALSE
  <2>1. CASE e.type = "ioapic"
    BY <1>1, <1>2, <1>3, <2>1 DEF WellFormed
  <2>2. CASE e.type = "override"
    BY <1>1, <1>2, <1>3, <2>2 DEF WellFormed
  <2> QED
    BY <2>1, <2>2
<1> QED
  BY <1>2, <1>3

LEMMA LineOf ==
  ASSUME rsdt \in Firmwares, NEW isa \in Nat
  PROVE  GsiOf(isa) \in Nat /\ FlagsOf(isa) \in (0 .. 3) \X (0 .. 3)
<1> DEFINE of == {e \in Table : e.type = "override" /\ e.source = isa}
<1>1. CASE of = {}
  BY <1>1 DEF GsiOf, FlagsOf
<1>2. CASE of # {}
  <2>1. (CHOOSE e \in of : TRUE) \in of
    BY <1>2
  <2> QED
    BY <1>2, <2>1, EntryFields DEF GsiOf, FlagsOf
<1> QED
  BY <1>1, <1>2

LEMMA LineOfOverride ==
  ASSUME rsdt \in Firmwares, NEW e \in Table, e.type = "override"
  PROVE  GsiOf(e.source) = e.gsi /\ FlagsOf(e.source) = e.flags
<1> DEFINE of == {f \in Table : f.type = "override" /\ f.source = e.source}
<1>1. of = {e}
  BY EntriesDiffer
<1>2. (CHOOSE f \in of : TRUE) = e
  BY <1>1
<1> QED
  BY <1>1, <1>2 DEF GsiOf, FlagsOf

\* The table does not change.
LEMMA TableStays ==
  ASSUME rsdt' = rsdt
  PROVE  /\ Table' = Table
         /\ \A isa : GsiOf(isa)' = GsiOf(isa) /\ FlagsOf(isa)' = FlagsOf(isa)
         /\ \A e : IsApic(e)' = IsApic(e) /\ IsOverride(e)' = IsOverride(e)
         /\ \A d, e : PinOf(d, e)' = PinOf(d, e) /\ Reaches(d, e)' = Reaches(d, e)
<1>1. Table' = Table
  BY DEF Table, acpiFindTable, SelectInSeq
<1>2. \A isa : GsiOf(isa)' = GsiOf(isa) /\ FlagsOf(isa)' = FlagsOf(isa)
  BY <1>1 DEF GsiOf, FlagsOf
<1>3. \A e : IsApic(e)' = IsApic(e) /\ IsOverride(e)' = IsOverride(e)
  BY <1>1 DEF IsApic, IsOverride
<1>4. \A d, e : PinOf(d, e)' = PinOf(d, e) /\ Reaches(d, e)' = Reaches(d, e)
  BY <1>2, <1>3 DEF PinOf, Reaches
<1> QED
  BY <1>1, <1>2, <1>3, <1>4

\* When all is parsed, ioApicMapISA maps a line as the firmware says.
LEMMA IsaOverrideFound ==
  ASSUME BootInv, pc = "run", NEW isa \in Nat
  PROVE  IsaOverride(isa).gsi = GsiOf(isa) /\ IsaOverride(isa).flags = FlagsOf(isa)
<1> USE DEF BootInv
<1> DEFINE I == {i \in 1 .. Len(overrides) : overrides[i].isaSource = isa}
           n == SelectInSeq(overrides, LAMBDA o : o.isaSource = isa)
<1>1. DOMAIN overrides = 1 .. Len(overrides) /\ Len(overrides) \in Nat
  BY DEF BootTypes
<1>2. n = IF I # {} THEN Min(I) ELSE 0
  BY DEF SelectInSeq
<1>3. IsaOverride(isa) = IF n = 0 THEN [isaSource |-> isa, gsi |-> isa, flags |-> <<0, 0>>] ELSE overrides[n]
  BY DEF IsaOverride
<1> HIDE DEF n
<1>4. CASE I = {}
  <2>1. ~ \E e \in Table : e.type = "override" /\ e.source = isa
    <3>1. SUFFICES ASSUME NEW e \in Table, e.type = "override", e.source = isa
                   PROVE  FALSE
      OBVIOUS
    <3>2. OverrideOf(e) \in Range(overrides)
      BY <3>1 DEF Parsed, Parsing, IsOverride, Range
    <3>3. PICK i \in DOMAIN overrides : overrides[i] = OverrideOf(e)
      BY <3>2 DEF Range
    <3> QED
      BY <1>1, <1>4, <3>1, <3>3 DEF OverrideOf
  <2> QED
    BY <1>2, <1>3, <1>4, <2>1 DEF GsiOf, FlagsOf
<1>5. CASE I # {}
  <2>1. n \in I /\ n # 0
    <3>1. I \in SUBSET Nat /\ 0 \notin I
      BY <1>1
    <3> HIDE DEF I
    <3> QED
      BY <1>2, <1>5, <3>1, MinIsLeast
  <2>2. PICK e \in Table : IsOverride(e) /\ overrides[n] = OverrideOf(e)
    BY <1>1, <2>1 DEF Parsed
  <2>3. e.source = isa
    BY <2>1, <2>2 DEF OverrideOf
  <2>4. IsaOverride(isa) = OverrideOf(e)
    BY <1>3, <2>1, <2>2
  <2> QED
    BY <2>2, <2>3, <2>4, LineOfOverride DEF OverrideOf, IsOverride, BootTypes
<1> QED
  BY <1>4, <1>5

\* The I/O APIC that ioApicFindForGSI finds has the pin.
LEMMA ApicFound ==
  ASSUME BootInv, NEW gsi \in Nat, ioApicFindForGSI(gsi) # 0
  PROVE  \E e \in Table : /\ IsApic(e) /\ ioApics[ioApicFindForGSI(gsi)] = ApicOf(e)
                          /\ gsi \in e.gsi .. e.gsi + e.pins - 1
<1> USE DEF BootInv
<1> DEFINE I == {i \in 1 .. Len(ioApics) : gsi >= ioApics[i].gsiStart /\ gsi < ioApics[i].gsiEnd}
           n == ioApicFindForGSI(gsi)
<1>1. DOMAIN ioApics = 1 .. Len(ioApics) /\ Len(ioApics) \in Nat
  BY DEF BootTypes
<1>2. n = IF I # {} THEN Min(I) ELSE 0
  BY DEF ioApicFindForGSI, SelectInSeq
<1> HIDE DEF n
<1>3. n \in I
  <2>1. I \in SUBSET Nat
    BY <1>1
  <2>2. n # 0
    BY DEF n
  <2> HIDE DEF I
  <2> QED
    BY <1>2, <2>1, <2>2, MinIsLeast
<1>4. PICK e \in Table : IsApic(e) /\ ioApics[n] = ApicOf(e)
  BY <1>1, <1>3 DEF Parsed
<1>5. e.gsi \in Nat /\ e.pins \in Nat
  BY <1>4, EntryFields DEF IsApic, BootTypes
<1>6. gsi >= e.gsi /\ gsi < e.gsi + e.pins
  BY <1>3, <1>4 DEF ApicOf
<1> QED
  BY <1>4, <1>5, <1>6 DEF n

-----------------------------------------------------------------------------
(* The steps of the boot. *)

LEMMA LineInit == Init => BootInv /\ LineInv /\ HandlersInstalled
<1> SUFFICES ASSUME Init PROVE BootInv /\ LineInv /\ HandlersInstalled
  OBVIOUS
<1>1. BootTypes
  BY VectorsAssumption DEF Init, BootTypes
<1>2. Parsed
  BY DEF Init, Parsed, Parsing, Range
<1>3. Prepared
  BY DEF Init, Prepared, Given
<1>4. RedirType
  BY DEF Init, RedirType
<1> QED
  BY <1>1, <1>2, <1>3, <1>4, VectorsAssumption
  DEF Init, BootInv, LineInv, OneWriter, PinsMapped, HandlersInstalled

\* A step that leaves the lists alone and that of the boot processor's
\* program only goes on.
LEMMA BootInvStays ==
  ASSUME BootInv, UNCHANGED <<rsdt, madt, ioApics, overrides>>, BootTypes', Prepared',
         pc' \in {"apic", "ioApic"} \cup Parsing => rsdt # NoFirmware,
         pc' \in {"lapic", "run", "high"} => madt = <<>>,
         pc' \in Parsing => pc \in Parsing
  PROVE  BootInv'
  BY TableStays DEF BootInv, Parsed, IsApic, IsOverride, ApicOf, OverrideOf, Parsing

LEMMA BootStep ==
  ASSUME VInv, BootInv, [Next]_vars
  PROVE  BootInv'
<1> USE DEF BootInv, Goto, boot, routes, Given, Parsing
<1>1. CASE isrInit
  <2>1. Prepared'
    BY <1>1 DEF isrInit, Stub, Prepared, VInv, BeforeInit
  <2> QED
    BY <1>1, <2>1, BootInvStays DEF isrInit, BootTypes
<1>2. CASE irqInit
  BY <1>2, BootInvStays DEF irqInit, BootTypes, Prepared
<1>3. CASE acpiInit
  BY <1>3, BootInvStays DEF acpiInit, BootTypes, Prepared
<1>4. CASE apicInit
  BY <1>4, BootInvStays DEF apicInit, BootTypes, Prepared, Parsed
<1>5. CASE lapicInit
  <2>1. lapic'.enabled /\ lapic'.spurious.enabled /\ lapic' \in [enabled : BOOLEAN, spurious : [vector : Nat, enabled : BOOLEAN]]
    BY <1>5 DEF lapicInit, lapicSetBase, lapicReadReg, lapicWriteReg, BootTypes
  <2> QED
    BY <1>5, <2>1, BootInvStays DEF lapicInit, BootTypes, Prepared, Parsed
<1>6. CASE ioApicInit
  <2>1. rsdt # NoFirmware /\ rsdt' = rsdt
    BY <1>6 DEF ioApicInit, Parsed
  <2>2. CASE acpiFindTable("APIC") = 0
    BY <1>6, <2>1, <2>2, BootInvStays DEF ioApicInit, BootTypes, Prepared, Parsed
  <2>3. CASE acpiFindTable("APIC") # 0
    <3>1. madt' \in Seq(Entries) /\ Range(madt') = Table /\ pc' = "madt"
      BY <1>6, <2>1, <2>3, TableFound DEF ioApicInit, BootTypes
    <3>2. BootTypes' /\ Prepared'
      BY <1>6, <3>1 DEF ioApicInit, BootTypes, Prepared
    <3>3. Parsed'
      BY <1>6, <2>1, <3>1, TableStays DEF ioApicInit, Parsed, IsApic, IsOverride, ApicOf, OverrideOf
    <3> QED
      BY <3>2, <3>3
  <2> QED
    BY <2>2, <2>3
<1>7. CASE ParseEntry
  <2> DEFINE e == Head(madt)
  <2>1. /\ e \in Table /\ Range(madt) = Range(Tail(madt)) \cup {e}
        /\ Tail(madt) \in Seq(Entries)
    <3>1. madt \in Seq(Entries) /\ madt # <<>>
      BY <1>7 DEF ParseEntry, BootTypes
    <3> QED
      BY <3>1, HeadAndTail DEF Parsed
  <2>2. /\ madt' = Tail(madt) /\ UNCHANGED <<rsdt, idt, lapic, pc, routes>> /\ pc = "madt"
        /\ ioApics' = IF e.type = "ioapic" THEN <<ApicOf(e)>> \o ioApics ELSE ioApics
        /\ overrides' = IF e.type = "override" THEN <<OverrideOf(e)>> \o overrides ELSE overrides
    BY <1>7 DEF ParseEntry, ioApicAdd, ApicOf, OverrideOf
  <2> HIDE DEF e
  <2>3. /\ e.type = "ioapic" => ApicOf(e) \in [id : Nat, gsiStart : Nat, gsiEnd : Nat]
        /\ e.type = "override" => OverrideOf(e) \in [isaSource : Nat, gsi : Nat, flags : (0 .. 3) \X (0 .. 3)]
    BY <2>1, EntryFields DEF BootTypes, ApicOf, OverrideOf
  <2>4. /\ ioApics' \in Seq([id : Nat, gsiStart : Nat, gsiEnd : Nat])
        /\ \A i \in DOMAIN ioApics' :
             \/ e.type = "ioapic" /\ ioApics'[i] = ApicOf(e)
             \/ \E j \in DOMAIN ioApics : ioApics'[i] = ioApics[j]
    <3>1. CASE e.type = "ioapic"
      <4> DEFINE T == [id : Nat, gsiStart : Nat, gsiEnd : Nat]
      <4>1. ioApics' = <<ApicOf(e)>> \o ioApics
        BY <2>2, <3>1
      <4>2. ApicOf(e) \in T /\ ioApics \in Seq(T)
        BY <2>3, <3>1 DEF BootTypes
      <4> HIDE DEF T
      <4>3. /\ ioApics' \in Seq(T)
            /\ \A i \in DOMAIN ioApics' :
                 ioApics'[i] = ApicOf(e) \/ \E j \in DOMAIN ioApics : ioApics'[i] = ioApics[j]
        BY <4>1, <4>2, PrependedList
      <4> QED
        BY <3>1, <4>3 DEF T
    <3>2. CASE e.type # "ioapic"
      BY <2>2, <3>2 DEF BootTypes
    <3> QED
      BY <3>1, <3>2
  <2>5. /\ overrides' \in Seq([isaSource : Nat, gsi : Nat, flags : (0 .. 3) \X (0 .. 3)])
        /\ \A i \in DOMAIN overrides' :
             \/ e.type = "override" /\ overrides'[i] = OverrideOf(e)
             \/ \E j \in DOMAIN overrides : overrides'[i] = overrides[j]
        /\ Range(overrides) \subseteq Range(overrides')
        /\ e.type = "override" => OverrideOf(e) \in Range(overrides')
    <3>1. CASE e.type = "override"
      <4> DEFINE T == [isaSource : Nat, gsi : Nat, flags : (0 .. 3) \X (0 .. 3)]
      <4>1. overrides' = <<OverrideOf(e)>> \o overrides
        BY <2>2, <3>1
      <4>2. OverrideOf(e) \in T /\ overrides \in Seq(T)
        BY <2>3, <3>1 DEF BootTypes
      <4> HIDE DEF T
      <4>3. /\ overrides' \in Seq(T)
            /\ \A i \in DOMAIN overrides' :
                 overrides'[i] = OverrideOf(e) \/ \E j \in DOMAIN overrides : overrides'[i] = overrides[j]
            /\ Range(overrides') = Range(overrides) \cup {OverrideOf(e)}
        BY <4>1, <4>2, PrependedList
      <4> QED
        BY <3>1, <4>3 DEF T
    <3>2. CASE e.type # "override"
      BY <2>2, <3>2 DEF BootTypes
    <3> QED
      BY <3>1, <3>2
  <2>6. BootTypes' /\ Prepared'
    BY <2>1, <2>2, <2>4, <2>5 DEF BootTypes, Prepared
  <2>7. /\ Table' = Table
        /\ \A f : IsApic(f)' = IsApic(f) /\ IsOverride(f)' = IsOverride(f)
    BY <2>2, TableStays
  <2>8. Parsed'
    <3>1. Range(madt)' \subseteq Table'
      BY <2>1, <2>2, <2>7 DEF Parsed
    <3>2. \A i \in DOMAIN ioApics' : \E f \in Table : IsApic(f) /\ ioApics'[i] = ApicOf(f)
      BY <2>1, <2>4 DEF Parsed, IsApic
    <3>3. \A i \in DOMAIN overrides' : \E f \in Table : IsOverride(f) /\ overrides'[i] = OverrideOf(f)
      BY <2>1, <2>5 DEF Parsed, IsOverride
    <3>4. \A f \in Table : IsOverride(f) => f \in Range(madt') \/ OverrideOf(f) \in Range(overrides')
      BY <2>1, <2>2, <2>5 DEF Parsed, IsOverride
    <3>5. rsdt' # NoFirmware
      BY <2>2 DEF Parsed
    <3> QED
      BY <2>2, <2>7, <3>1, <3>2, <3>3, <3>4, <3>5 DEF Parsed, ApicOf, OverrideOf
  <2> QED
    BY <2>6, <2>8
<1>8. CASE ParseEnd
  BY <1>8, BootInvStays DEF ParseEnd, BootTypes, Prepared, Parsed
<1>9. CASE acpiReboot
  BY <1>9, BootInvStays DEF acpiReboot, BootTypes, Prepared, Parsed
<1>10. ASSUME NEW d \in Drivers, irqAllocVector(d) PROVE BootInv'
  BY <1>10, BootInvStays DEF irqAllocVector, BootTypes, Prepared, Parsed
<1>11. ASSUME NEW d \in Drivers, irqInstall(d) PROVE BootInv'
  BY <1>11, BootInvStays DEF irqInstall, BootTypes, Prepared, Parsed
<1>12. ASSUME NEW d \in Drivers, WriteLow(d) PROVE BootInv'
  BY <1>12, BootInvStays DEF WriteLow, BootTypes, Prepared, Parsed
<1>13. ASSUME NEW d \in Drivers, WriteHigh(d) PROVE BootInv'
  BY <1>13, BootInvStays DEF WriteHigh, BootTypes, Prepared, Parsed
<1>14. ASSUME NEW v \in Exceptions, Exception(v) PROVE BootInv'
  BY <1>14, BootInvStays DEF Exception, BootTypes, Prepared, Parsed
<1>15. CASE UNCHANGED vars
  BY <1>15, BootInvStays DEF vars, BootTypes, Prepared, Parsed
<1> QED
  BY <1>1, <1>2, <1>3, <1>4, <1>5, <1>6, <1>7, <1>8, <1>9, <1>10, <1>11, <1>12, <1>13, <1>14, <1>15
  DEF Next

-----------------------------------------------------------------------------
(* The steps of the drivers. *)

\* A driver that has its vector keeps it; one is alone for as long as nobody
\* else gets a pin or a vector that is its own.
LEMMA AloneBefore ==
  ASSUME rsdt' = rsdt, NEW d \in Drivers,
         \A c \in Given : c \in Given' /\ vector'[c] = vector[c]
  PROVE  /\ AloneOnPin(d)' => AloneOnPin(d)
         /\ d \in Given /\ AloneOnVector(d)' => AloneOnVector(d)
  BY TableStays DEF AloneOnPin, AloneOnVector

\* Lines that arrive at different numbers arrive at different pins.
LEMMA PinsDiffer ==
  ASSUME rsdt \in Firmwares, NEW c \in Drivers, NEW d \in Drivers, NEW e \in Table, NEW f \in Table,
         Reaches(c, e), Reaches(d, f), GsiOf(IsaLine[c]) # GsiOf(IsaLine[d])
  PROVE  PinOf(c, e) # PinOf(d, f)
<1>1. SUFFICES ASSUME PinOf(c, e) = PinOf(d, f) PROVE FALSE
  OBVIOUS
<1>2. e.id = f.id /\ GsiOf(IsaLine[c]) - e.gsi = GsiOf(IsaLine[d]) - f.gsi
  BY <1>1 DEF PinOf
<1>3. e = f
  BY <1>2, EntriesDiffer DEF Reaches, IsApic
<1>4. e.gsi \in Nat /\ GsiOf(IsaLine[c]) \in Nat /\ GsiOf(IsaLine[d]) \in Nat
  BY EntryFields, LineOf, DriversAssumption DEF Reaches, IsApic
<1> QED
  BY <1>2, <1>3, <1>4

\* The pin is one of an I/O APIC.
LEMMA PinExists ==
  ASSUME rsdt \in Firmwares, NEW d \in Drivers, NEW e \in Table, Reaches(d, e)
  PROVE  PinOf(d, e) \in PinsOf(Table)
<1>1. e.gsi \in Nat /\ e.pins \in Nat /\ GsiOf(IsaLine[d]) \in Nat
  BY EntryFields, LineOf, DriversAssumption DEF Reaches, IsApic
<1>2. GsiOf(IsaLine[d]) - e.gsi \in 0 .. e.pins - 1
  BY <1>1 DEF Reaches
<1> QED
  BY <1>2 DEF PinsOf, PinOf, Reaches, IsApic

LEMMA LineInvStays ==
  ASSUME LineInv, UNCHANGED <<rsdt, redir, writing, step, vector>>, OneWriter'
  PROVE  LineInv'
<1>1. RedirType'
  BY TableStays DEF LineInv, RedirType, PinsOf
<1>2. \A d \in Drivers, e \in Table : Mapped(d, e)' = Mapped(d, e)
  BY TableStays DEF Mapped, Reaches, PinOf, AloneOnPin, Given, Routed
<1>3. PinsMapped'
  BY <1>2, TableStays DEF LineInv, PinsMapped
<1> QED
  BY <1>1, <1>3 DEF LineInv

\* What the first half of the write leaves in the register.
LEMMA LowWordWritten ==
  ASSUME NEW v \in Nat, NEW flags, flags[1] \in 0 .. 3, flags[2] \in 0 .. 3,
         NEW r \in [vector : Nat, mask : 0 .. 1, polarity : 0 .. 1, trigger : 0 .. 1, destination : 0 .. 1]
  PROVE  /\ LowWord(r, v, flags) \in
              [vector : Nat, mask : 0 .. 1, polarity : 0 .. 1, trigger : 0 .. 1, destination : 0 .. 1]
         /\ LowWord(r, v, flags).mask = 0
         /\ LowWord(r, v, flags).vector = v
         /\ LowWord(r, v, flags).polarity = flags[1] % 2
         /\ LowWord(r, v, flags).trigger = flags[2] % 2
<1> DEFINE p == flags[1] % 2
           t == flags[2] % 2
<1>1. p \in 0 .. 1 /\ t \in 0 .. 1
  OBVIOUS
<1> HIDE DEF p, t
<1>2. LowWord(r, v, flags) = [r EXCEPT !.vector = v, !.mask = 0, !.polarity = p, !.trigger = t]
  BY DEF LowWord, p, t
<1> DEFINE q == [r EXCEPT !.vector = v, !.mask = 0, !.polarity = p, !.trigger = t]
<1>3. q \in [vector : Nat, mask : 0 .. 1, polarity : 0 .. 1, trigger : 0 .. 1, destination : 0 .. 1]
  <2> DEFINE B == 0 .. 1
  <2>1. r \in [vector : Nat, mask : B, polarity : B, trigger : B, destination : B] /\ p \in B /\ t \in B /\ 0 \in B
    BY <1>1
  <2> HIDE DEF B
  <2>2. q \in [vector : Nat, mask : B, polarity : B, trigger : B, destination : B]
    BY <2>1
  <2> QED
    BY <2>2 DEF B
<1>4. q.mask = 0 /\ q.vector = v
  OBVIOUS
<1>5. q.polarity = p /\ q.trigger = t
  OBVIOUS
<1> QED
  BY <1>2, <1>3, <1>4, <1>5 DEF p, t

LEMMA WriteLowStep ==
  ASSUME VInv, BootInv, LineInv, NEW d \in Drivers, WriteLow(d)
  PROVE  LineInv'
<1> DEFINE o == IsaOverride(IsaLine[d])
           i == ioApicFindForGSI(o.gsi)
           pin == <<ioApics[i].id, o.gsi - ioApics[i].gsiStart>>
<1>1. /\ pc = "run" /\ step[d] = "map" /\ rsdt' = rsdt /\ vector' = vector
      /\ step \in [Drivers -> {"alloc", "install", "map", "high", "done"}]
      /\ vector \in [Drivers -> Nat] /\ rsdt \in Firmwares
  BY DEF WriteLow, boot, VInv, TypeInv, BootInv, BootTypes
<1>2. o.gsi = GsiOf(IsaLine[d]) /\ o.flags = FlagsOf(IsaLine[d]) /\ IsaLine[d] \in Nat
  BY <1>1, IsaOverrideFound, DriversAssumption
<1>3. \A c \in Drivers : step[c] # "high"
  BY <1>1 DEF LineInv, OneWriter
<1>4. CASE i = 0
  BY <1>1, <1>3, <1>4, LineInvStays DEF WriteLow, OneWriter, Goto
<1>5. CASE i # 0
  <2>1. /\ redir' = [redir EXCEPT ![pin] = LowWord(@, vector[d], o.flags)]
        /\ writing' = pin
        /\ step' = [step EXCEPT ![d] = "high"]
        /\ pc' = "high"
    BY <1>5 DEF WriteLow, Goto
  <2>2. PICK e \in Table : /\ IsApic(e) /\ ioApics[i] = ApicOf(e)
                           /\ o.gsi \in e.gsi .. e.gsi + e.pins - 1
    BY <1>1, <1>2, <1>5, ApicFound, LineOf
  <2>3. Reaches(d, e) /\ pin = PinOf(d, e)
    BY <1>2, <2>2 DEF Reaches, PinOf, ApicOf
  <2>4. pin \in PinsOf(Table)
    BY <1>1, <2>3, PinExists
  <2>5. o.flags[1] \in 0 .. 3 /\ o.flags[2] \in 0 .. 3
    BY <1>1, <1>2, LineOf
  <2> DEFINE R == [vector : Nat, mask : 0 .. 1, polarity : 0 .. 1, trigger : 0 .. 1, destination : 0 .. 1]
  <2> HIDE DEF o, i, pin
  <2>6. redir[pin] \in R
    BY <2>4 DEF LineInv, RedirType
  <2>7. /\ LowWord(redir[pin], vector[d], o.flags) \in R
        /\ LowWord(redir[pin], vector[d], o.flags).mask = 0
        /\ LowWord(redir[pin], vector[d], o.flags).vector = vector[d]
        /\ LowWord(redir[pin], vector[d], o.flags).polarity = o.flags[1] % 2
        /\ LowWord(redir[pin], vector[d], o.flags).trigger = o.flags[2] % 2
    BY <1>1, <2>5, <2>6, LowWordWritten
  <2>8. /\ redir' \in [PinsOf(Table) -> R]
        /\ redir'[pin] = LowWord(redir[pin], vector[d], o.flags)
        /\ \A p \in PinsOf(Table) : p # pin => redir'[p] = redir[p]
    <3> HIDE DEF R
    <3>1. redir \in [PinsOf(Table) -> R]
      BY DEF LineInv, RedirType, R
    <3> QED
      BY <2>1, <2>4, <2>7, <3>1
  <2>9. RedirType'
    BY <1>1, <2>8, TableStays DEF RedirType, PinsOf
  <2>10. OneWriter'
    BY <1>1, <1>3, <2>1 DEF OneWriter
  <2>11. ASSUME NEW c \in Drivers, step'[c] \in {"high", "done"}
         PROVE  \E f \in Table : Mapped(c, f)'
    <3>1. CASE c = d
      <4>1. PinOf(d, e)' = pin /\ Reaches(d, e)' /\ FlagsOf(IsaLine[d])' = o.flags
        BY <1>1, <1>2, <2>3, TableStays
      <4>2. step'[d] = "high"
        BY <1>1, <2>1
      <4>3. Routed(d, redir[PinOf(d, e)])'
        BY <1>1, <2>7, <2>8, <4>1, <4>2 DEF Routed
      <4>4. Mapped(d, e)'
        BY <2>1, <4>1, <4>3 DEF Mapped
      <4> QED
        BY <3>1, <4>4
    <3>2. CASE c # d
      <4>1. step'[c] = "done" /\ step[c] = "done"
        BY <1>1, <1>3, <2>1, <2>11, <3>2
      <4>2. PICK f \in Table : Mapped(c, f)
        BY <4>1 DEF LineInv, PinsMapped
      <4>3. ASSUME AloneOnPin(c)'
            PROVE  Routed(c, redir[PinOf(c, f)])'
        <5>1. AloneOnPin(c) /\ GsiOf(IsaLine[d]) # GsiOf(IsaLine[c])
          BY <1>1, <2>1, <3>2, <4>3, AloneBefore, TableStays DEF AloneOnPin, Given
        <5>2. PinOf(c, f) # pin /\ PinOf(c, f) \in PinsOf(Table)
          BY <1>1, <2>3, <4>2, <5>1, PinsDiffer, PinExists DEF Mapped
        <5>3. redir'[PinOf(c, f)] = redir[PinOf(c, f)]
          BY <2>8, <5>2
        <5>4. Routed(c, redir[PinOf(c, f)])
          BY <4>2, <5>1 DEF Mapped
        <5> QED
          BY <1>1, <4>1, <5>3, <5>4, TableStays DEF Routed
      <4>4. Mapped(c, f)'
        BY <1>1, <4>1, <4>2, <4>3, TableStays DEF Mapped
      <4> QED
        BY <4>4
    <3> QED
      BY <3>1, <3>2
  <2>12. PinsMapped'
    BY <1>1, <2>11, TableStays DEF PinsMapped
  <2> QED
    BY <2>9, <2>10, <2>12 DEF LineInv
<1> QED
  BY <1>4, <1>5

LEMMA WriteHighStep ==
  ASSUME VInv, BootInv, LineInv, NEW d \in Drivers, WriteHigh(d)
  PROVE  LineInv'
<1>1. /\ pc = "high" /\ step[d] = "high" /\ rsdt' = rsdt /\ vector' = vector
      /\ redir' = [redir EXCEPT ![writing].destination = 0]
      /\ step' = [step EXCEPT ![d] = "done"]
      /\ step \in [Drivers -> {"alloc", "install", "map", "high", "done"}]
      /\ vector \in [Drivers -> Nat] /\ rsdt \in Firmwares
  BY DEF WriteHigh, boot, VInv, TypeInv, BootInv, BootTypes
<1>2. \A c \in Drivers \ {d} : step[c] # "high"
  BY <1>1 DEF LineInv, OneWriter
<1>3. PICK e \in Table : Mapped(d, e)
  BY <1>1 DEF LineInv, PinsMapped
<1>4. writing = PinOf(d, e) /\ writing \in PinsOf(Table)
  BY <1>1, <1>3, PinExists DEF Mapped
<1> DEFINE R == [vector : Nat, mask : 0 .. 1, polarity : 0 .. 1, trigger : 0 .. 1, destination : 0 .. 1]
<1>5. /\ redir' \in [PinsOf(Table) -> R]
      /\ \A p \in PinsOf(Table) :
           /\ redir'[p].mask = redir[p].mask /\ redir'[p].vector = redir[p].vector
           /\ redir'[p].polarity = redir[p].polarity /\ redir'[p].trigger = redir[p].trigger
           /\ redir[p].destination = 0 => redir'[p].destination = 0
      /\ redir'[writing].destination = 0
  <2>1. redir \in [PinsOf(Table) -> R]
    BY DEF LineInv, RedirType
  <2> QED
    BY <1>1, <1>4, <2>1
<1>6. RedirType'
  BY <1>1, <1>5, TableStays DEF RedirType, PinsOf
<1>7. OneWriter'
  BY <1>1, <1>2 DEF OneWriter
<1>8. ASSUME NEW c \in Drivers, step'[c] \in {"high", "done"}
      PROVE  \E f \in Table : Mapped(c, f)'
  <2>1. step'[c] = "done" /\ step[c] \in {"high", "done"}
    BY <1>1, <1>2, <1>8
  <2>2. PICK f \in Table : Mapped(c, f) /\ (c = d => f = e)
    BY <1>3, <2>1 DEF LineInv, PinsMapped
  <2>3. PinOf(c, f) \in PinsOf(Table)
    BY <1>1, <2>2, PinExists DEF Mapped
  <2>4. ASSUME AloneOnPin(c)'
        PROVE  Routed(c, redir[PinOf(c, f)])'
    <3>1. AloneOnPin(c)
      BY <1>1, <2>4, AloneBefore DEF Given
    <3>2. Routed(c, redir[PinOf(c, f)])
      BY <2>2, <3>1 DEF Mapped
    <3>3. redir'[PinOf(c, f)].destination = 0
      BY <1>1, <1>2, <1>4, <1>5, <2>1, <2>2, <2>3, <3>2 DEF Routed
    <3> QED
      BY <1>1, <1>5, <2>3, <3>2, <3>3, TableStays DEF Routed
  <2>5. Mapped(c, f)'
    BY <1>1, <2>1, <2>2, <2>4, TableStays DEF Mapped
  <2> QED
    BY <2>5
<1>9. PinsMapped'
  BY <1>1, <1>8, TableStays DEF PinsMapped
<1> QED
  BY <1>6, <1>7, <1>9 DEF LineInv

\* A step that writes no redirection and that moves one driver that has not
\* mapped its line.
LEMMA EarlyStep ==
  ASSUME VInv, BootInv, LineInv, pc = "run", NEW d \in Drivers, step[d] \in {"alloc", "install"},
         UNCHANGED <<rsdt, redir, writing>>,
         \E l \in {"install", "map"} : step' = [step EXCEPT ![d] = l],
         \A c \in Given : vector'[c] = vector[c]
  PROVE  LineInv'
<1>1. /\ step \in [Drivers -> {"alloc", "install", "map", "high", "done"}] /\ rsdt \in Firmwares
      /\ step'[d] \in {"install", "map"} /\ \A c \in Drivers \ {d} : step'[c] = step[c]
  BY DEF VInv, TypeInv, BootInv, BootTypes
<1>2. RedirType'
  BY TableStays DEF LineInv, RedirType, PinsOf
<1>3. OneWriter'
  BY <1>1 DEF LineInv, OneWriter
<1>4. ASSUME NEW c \in Drivers, step'[c] \in {"high", "done"}
      PROVE  \E f \in Table : Mapped(c, f)'
  <2>1. step[c] = step'[c] /\ c # d
    BY <1>1, <1>4
  <2>2. PICK f \in Table : Mapped(c, f)
    BY <1>4, <2>1 DEF LineInv, PinsMapped
  <2>3. AloneOnPin(c)' => AloneOnPin(c)
    BY <1>1, AloneBefore DEF Given
  <2>4. vector'[c] = vector[c]
    BY <1>4, <2>1 DEF Given
  <2>5. Mapped(c, f)'
    BY <2>1, <2>2, <2>3, <2>4, TableStays DEF Mapped, Reaches, PinOf, Routed
  <2> QED
    BY <2>5
<1>5. PinsMapped'
  BY <1>4, TableStays DEF PinsMapped
<1> QED
  BY <1>2, <1>3, <1>5 DEF LineInv

LEMMA LineStep ==
  ASSUME VInv, BootInv, LineInv, [Next]_vars
  PROVE  LineInv'
<1> USE DEF Goto, boot, routes
<1>1. ASSUME pc \notin {"high", "panicked", "hung"}
      PROVE  \A d \in Drivers : step[d] # "high"
  BY <1>1 DEF LineInv, OneWriter
<1>2. CASE isrInit \/ irqInit \/ acpiInit \/ apicInit \/ lapicInit
  BY <1>1, <1>2, LineInvStays DEF isrInit, irqInit, acpiInit, apicInit, lapicInit, OneWriter
<1>3. CASE ioApicInit \/ ParseEntry \/ ParseEnd \/ acpiReboot
  BY <1>1, <1>3, LineInvStays DEF ioApicInit, ParseEntry, ParseEnd, acpiReboot, OneWriter
<1>4. ASSUME NEW d \in Drivers, irqAllocVector(d) PROVE LineInv'
  BY <1>4, EarlyStep DEF irqAllocVector, VInv, TypeInv, Given
<1>5. ASSUME NEW d \in Drivers, irqInstall(d) PROVE LineInv'
  BY <1>5, EarlyStep DEF irqInstall
<1>6. ASSUME NEW d \in Drivers, WriteLow(d) PROVE LineInv'
  BY <1>6, WriteLowStep
<1>7. ASSUME NEW d \in Drivers, WriteHigh(d) PROVE LineInv'
  BY <1>7, WriteHighStep
<1>8. ASSUME NEW v \in Exceptions, Exception(v) PROVE LineInv'
  BY <1>8, LineInvStays DEF Exception, OneWriter, LineInv
<1>9. CASE UNCHANGED vars
  BY <1>9, LineInvStays DEF vars, OneWriter, LineInv
<1> QED
  BY <1>2, <1>3, <1>4, <1>5, <1>6, <1>7, <1>8, <1>9 DEF Next

LEMMA HandlersStep ==
  ASSUME VInv, BootInv, HandlersInstalled, [Next]_vars
  PROVE  HandlersInstalled'
<1> USE DEF Goto, boot, routes
<1>1. ASSUME UNCHANGED <<handlers, step, vector>>
      PROVE  HandlersInstalled'
  BY <1>1 DEF HandlersInstalled, AloneOnVector, Given
<1>2. CASE isrInit \/ acpiInit \/ apicInit \/ lapicInit
  BY <1>1, <1>2 DEF isrInit, acpiInit, apicInit, lapicInit
<1>3. CASE ioApicInit \/ ParseEntry \/ ParseEnd \/ acpiReboot
  BY <1>1, <1>3 DEF ioApicInit, ParseEntry, ParseEnd, acpiReboot
<1>4. CASE irqInit
  BY <1>4, VectorsAssumption DEF irqInit, HandlersInstalled, VInv, BeforeInit, Given
<1>5. ASSUME NEW d \in Drivers, irqAllocVector(d) PROVE HandlersInstalled'
  <2>1. /\ rsdt' = rsdt /\ handlers' = handlers
        /\ \A c \in Drivers \ {d} : step'[c] = step[c] /\ vector'[c] = vector[c]
        /\ step[d] = "alloc" /\ step'[d] = "install"
    BY <1>5 DEF irqAllocVector, VInv, TypeInv
  <2> QED
    BY <2>1, AloneBefore DEF HandlersInstalled, Given
<1>6. ASSUME NEW d \in Drivers, irqInstall(d) PROVE HandlersInstalled'
  <2>1. /\ rsdt' = rsdt /\ vector' = vector
        /\ \A c \in Drivers \ {d} : step'[c] = step[c]
        /\ step[d] = "install" /\ step'[d] = "map"
        /\ handlers' = [handlers EXCEPT ![vector[d] - 32] = d]
    BY <1>6 DEF irqInstall, VInv, TypeInv
  <2>2. \A c \in Given : vector[c] - 32 \in 0 .. IrqHandlers - 1 /\ vector[c] \in Nat
    BY DEF VInv, TypeInv, GivenTaken, Given
  <2>3. ASSUME NEW c \in Drivers, step'[c] \in {"map", "high", "done"}, AloneOnVector(c)'
        PROVE  handlers'[vector[c] - 32] = c
    <3>1. CASE c = d
      BY <2>1, <2>2, <3>1 DEF HandlersInstalled, Given
    <3>2. CASE c # d
      <4>1. c \in Given /\ d \in Given /\ vector[c] # vector[d]
        BY <2>1, <2>3, <3>2 DEF AloneOnVector, Given
      <4>2. AloneOnVector(c)
        BY <2>1, <2>3, <4>1, AloneBefore DEF Given
      <4>3. handlers[vector[c] - 32] = c
        BY <2>1, <2>3, <3>2, <4>2 DEF HandlersInstalled
      <4>4. vector[c] - 32 # vector[d] - 32
        BY <2>2, <4>1
      <4> QED
        BY <2>1, <2>2, <4>1, <4>3, <4>4 DEF HandlersInstalled
    <3> QED
      BY <3>1, <3>2
  <2> QED
    BY <2>1, <2>3 DEF HandlersInstalled
<1>7. ASSUME NEW d \in Drivers, WriteLow(d) \/ WriteHigh(d) PROVE HandlersInstalled'
  <2>1. /\ rsdt' = rsdt /\ vector' = vector /\ handlers' = handlers
        /\ \A c \in Drivers \ {d} : step'[c] = step[c]
        /\ step[d] \in {"map", "high"} /\ step'[d] \in {"map", "high", "done"}
    BY <1>7 DEF WriteLow, WriteHigh, VInv, TypeInv
  <2> QED
    BY <2>1, AloneBefore DEF HandlersInstalled, Given
<1>8. ASSUME NEW v \in Exceptions, Exception(v) PROVE HandlersInstalled'
  BY <1>1, <1>8 DEF Exception
<1>9. CASE UNCHANGED vars
  BY <1>1, <1>9 DEF vars
<1> QED
  BY <1>2, <1>3, <1>4, <1>5, <1>6, <1>7, <1>8, <1>9 DEF Next

\* A driver that mapped its line and shares neither pin nor vector is called:
\* pin, local APIC, vector, gate, stub and handler.
LEMMA RoutedReaches ==
  VInv /\ BootInv /\ LineInv /\ HandlersInstalled => LinesReachTheirHandlers
<1> SUFFICES ASSUME VInv, BootInv, LineInv, HandlersInstalled, NEW d \in Drivers, step[d] = "done",
                    \A c \in Drivers \ {d} :
                      step[c] # "alloc" => GsiOf(IsaLine[c]) # GsiOf(IsaLine[d]) /\ vector[c] # vector[d]
             PROVE  \E e \in Table :
         /\ e.type = "ioapic" /\ GsiOf(IsaLine[d]) \in e.gsi .. e.gsi + e.pins - 1
         /\ LET entry == redir[<<e.id, GsiOf(IsaLine[d]) - e.gsi>>]
                flags == FlagsOf(IsaLine[d])
            IN  /\ entry.mask = 0 /\ entry.destination = 0
                /\ Handler(entry.vector) = d
                /\ lapic.enabled /\ lapic.spurious.enabled
                /\ flags[1] # 1 => (entry.polarity = 1 <=> flags[1] = 3)
                /\ flags[2] # 1 => (entry.trigger = 1 <=> flags[2] = 3)
  BY DEF LinesReachTheirHandlers
<1>1. AloneOnPin(d) /\ AloneOnVector(d) /\ d \in Given
  BY DEF AloneOnPin, AloneOnVector, Given
<1>2. PICK e \in Table : Mapped(d, e)
  BY DEF LineInv, PinsMapped
<1> DEFINE entry == redir[PinOf(d, e)]
           flags == FlagsOf(IsaLine[d])
<1>3. Reaches(d, e) /\ Routed(d, entry)
  BY <1>1, <1>2 DEF Mapped
<1>4. lapic.enabled /\ lapic.spurious.enabled
  BY <1>1 DEF BootInv, Prepared
<1>5. Handler(vector[d]) = d
  <2>1. vector[d] \in 32 .. Vectors - 2
    BY <1>1, VectorsAssumption DEF VInv, TypeInv, GivenTaken
  <2>2. pc # "isr"
    BY <1>1 DEF VInv, BeforeInit
  <2>3. idt[vector[d]] = vector[d]
    BY <2>1, <2>2, StubsAssumption, VectorsAssumption DEF BootInv, Prepared
  <2>4. handlers[vector[d] - 32] = d
    BY <1>1 DEF HandlersInstalled
  <2> QED
    BY <2>1, <2>3, <2>4, VectorsAssumption DEF Handler, isrHandler, irqHandle
<1>6. flags[1] \in 0 .. 3 /\ flags[2] \in 0 .. 3
  BY LineOf, DriversAssumption DEF BootInv, BootTypes
<1>7. /\ flags[1] # 1 => (flags[1] % 2 = 1 <=> flags[1] = 3)
      /\ flags[2] # 1 => (flags[2] % 2 = 1 <=> flags[2] = 3)
  BY <1>6
<1> QED
  BY <1>3, <1>4, <1>5, <1>7 DEF Reaches, IsApic, Routed, PinOf

\* The line of a device reaches its driver's handler, as the firmware asks
\* (ioApicMapISA, ioApicMap, irqInstall, idtSetDesc, lapicInit).
THEOREM LinesAreRouted == Spec => []LinesReachTheirHandlers
<1> DEFINE I == VInv /\ BootInv /\ LineInv /\ HandlersInstalled
<1>1. Init => I
  BY VInvInit, LineInit
<1>2. I /\ [Next]_vars => I'
  BY VInvStep, BootStep, LineStep, HandlersStep
<1>3. I => LinesReachTheirHandlers
  BY RoutedReaches
<1> QED
  BY <1>1, <1>2, <1>3, PTL DEF Spec
=============================================================================
