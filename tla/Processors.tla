----------------------------- MODULE Processors -----------------------------
(* All processors at once, from mpInit on: what src/kernel/src/cpu/mp.c     *)
(* makes concurrent, with every spinlock of the kernel and the code that    *)
(* nests them.  Pmm, Vmm and Slab look at one lock each; this module looks  *)
(* at nothing but the locks, the printing and the panics.                   *)
(*                                                                          *)
(* The code a processor still has to run is a sequence of instructions, so  *)
(* a function is the sequence of what it does to locks, console and other   *)
(* processors.  A call puts the body of a function in front of the rest; a  *)
(* function whose course depends on data has several bodies.                *)
EXTENDS Integers, FiniteSets, SequencesExt

CONSTANTS
  Cpus,
  Bsp,           \* the processor that runs main
  MaxTables,     \* bound: page tables one walk allocates, at most 3
  MaxExceptions  \* bound: exceptions that hit some processor

ASSUME BspAssumption == Bsp \in Cpus
ASSUME MaxTablesAssumption == MaxTables \in 0 .. 3
ASSUME MaxExceptionsAssumption == MaxExceptions \in Nat

VARIABLES
  code,        \* code[c]: the instructions CPU c has before it
  taken,       \* taken[l]: the flag of lock l
  line,        \* the processors whose characters make up the last text on
               \* the console
  started,     \* the processors that run; the others wait for goto_address
  panicked,    \* the processors that entered panic or panicIsr
  exceptions,  \* how many exceptions there were
  owner,       \* ghost: owner[l]: the CPU that took lock l, or Nobody
  caught       \* ghost: the CPUs an exception hit in the middle of a printf

vars == <<code, taken, line, started, panicked, exceptions, owner, caught>>

Locks == {"cache", "walk", "pmm", "printf", "serial"}

Nobody == "nobody"

ASSUME CpusAssumption == IsFiniteSet(Cpus) /\ Nobody \notin Cpus

-----------------------------------------------------------------------------
(* The functions *)

Acquire(l) == <<"acquire", l>>
Drop(l) == <<"drop", l>>
Call(f) == <<"call", f>>
Put == <<"put">>
Panic == <<"panic">>
Start(c) == <<"start", c>>

Locked(l, body) == <<Acquire(l)>> \o body \o <<Drop(l)>>

\* Mutant: serialPutc returns without the drop.
serialPutc_KeepsLock == <<Acquire("serial"), Put>>

serialPutc == Locked("serial", <<Put>>)

\* Characters in the text of one printf: two, enough to see another CPU's in
\* between.
LineLength == 2

\* Mutant: printf as it was without its lock.
printf_NoLock == serialPutc \o serialPutc

printf == Locked("printf", serialPutc \o serialPutc)

\* Mutant: the whole report is printed under the lock of printf.
doPanic_Locked == Locked("printf", printf)

\* Two of the many printfs: others may print between them.
doPanic == printf \o printf

panicIsr == printf \o doPanic

\* Mutant: pmmAlloc maps what it allocates before it drops its lock.
pmmAlloc_Maps == {Locked("pmm", <<Call("vmmWalk")>>), <<Acquire("pmm"), Panic>>}

\* Mutant: pmmAlloc returns without the drop.
pmmAlloc_KeepsLock == {<<Acquire("pmm")>>, <<Acquire("pmm"), Panic>>}

\* A run is found, or pmmHandleOOM panics.
pmmAlloc == {Locked("pmm", <<>>), <<Acquire("pmm"), Panic>>}

\* As many tables as are missing are allocated.
vmmWalk == {Locked("walk", [i \in 1 .. n |-> Call("pmmAlloc")]) : n \in 0 .. MaxTables}

\* An object is free, or slabAllocSlab is called and slabAlloc starts over.
\* (Only the boot processor uses the caches: it then finds an object.)
slabAlloc ==
  {Locked("cache", <<>>),
   Locked("cache", <<Call("pmmAlloc")>> \o printf) \o Locked("cache", <<>>)}

Bodies(f) ==
  CASE f = "pmmAlloc" -> pmmAlloc
    [] f = "vmmWalk" -> vmmWalk
    [] f = "slabAlloc" -> slabAlloc

\* The page of the local APIC is mapped, and a line printed.
lapicInit == <<Call("vmmWalk")>> \o printf

mpEntry == lapicInit

\* The address written for the boot processor itself is read by nobody.
mpInit ==
  LET others == SetToSeq(Cpus \ {Bsp})
  IN  printf \o [i \in DOMAIN others |-> Start(others[i])]

\* tmpfsAllocNode: two objects, each of a cache of its own, the data of the
\* file and a line.
vfsCreate == <<Call("slabAlloc"), Call("slabAlloc"), Call("pmmAlloc")>> \o printf

\* The line of ioApicMap, the new file, and the line that shows what is in it.
test == printf \o vfsCreate \o printf

\* From mpInit on, up to the key main waits for.
main == mpInit \o test

-----------------------------------------------------------------------------
Init ==
  /\ code = [c \in Cpus |-> IF c = Bsp THEN main ELSE mpEntry]
  /\ taken = [l \in Locks |-> FALSE]
  /\ line = <<>>
  /\ started = {Bsp}
  /\ panicked = {}
  /\ exceptions = 0
  /\ owner = [l \in Locks |-> Nobody]
  /\ caught = {}

\* CPU c is at an instruction of this kind.
At(c, kind) == c \in started /\ code[c] # <<>> /\ Head(code[c])[1] = kind

Arg(c) == Head(code[c])[2]

Continue(c, body) == code' = [code EXCEPT ![c] = body \o Tail(@)]

\* spinlockAcquire.
TakeLock(c) ==
  /\ At(c, "acquire")
  /\ ~taken[Arg(c)]
  /\ taken' = [taken EXCEPT ![Arg(c)] = TRUE]
  /\ owner' = [owner EXCEPT ![Arg(c)] = c]
  /\ Continue(c, <<>>)
  /\ UNCHANGED <<line, started, panicked, exceptions, caught>>

\* spinlockDrop.
DropLock(c) ==
  /\ At(c, "drop")
  /\ taken' = [taken EXCEPT ![Arg(c)] = FALSE]
  /\ owner' = [owner EXCEPT ![Arg(c)] = Nobody]
  /\ Continue(c, <<>>)
  /\ UNCHANGED <<line, started, panicked, exceptions, caught>>

\* out8 to the serial port, which takes a character sooner or later.
PutChar(c) ==
  /\ At(c, "put")
  /\ line' = IF Len(line) = LineLength THEN <<c>> ELSE Append(line, c)
  /\ Continue(c, <<>>)
  /\ UNCHANGED <<taken, started, panicked, exceptions, owner, caught>>

CallFunction(c) ==
  /\ At(c, "call")
  /\ \E body \in Bodies(Arg(c)) : Continue(c, body)
  /\ UNCHANGED <<taken, line, started, panicked, exceptions, owner, caught>>

\* goto_address is written: the processor leaves the boot loader.
StartProcessor(c) ==
  /\ At(c, "start")
  /\ started' = started \cup {Arg(c)}
  /\ Continue(c, <<>>)
  /\ UNCHANGED <<taken, line, panicked, exceptions, owner, caught>>

\* panic does not return: it ends in hlt, with whatever locks are taken.
EnterPanic(c) ==
  /\ At(c, "panic")
  /\ panicked' = panicked \cup {c}
  /\ code' = [code EXCEPT ![c] = doPanic]
  /\ UNCHANGED <<taken, line, started, exceptions, owner, caught>>

\* An exception, or an NMI, at any instruction before the last hlt: panicIsr
\* does not return.
Exception(c) ==
  /\ c \in started
  /\ code[c] # <<>>
  /\ exceptions < MaxExceptions
  /\ exceptions' = exceptions + 1
  /\ panicked' = panicked \cup {c}
  /\ code' = [code EXCEPT ![c] = panicIsr]
  /\ caught' = IF owner["printf"] = c THEN caught \cup {c} ELSE caught
  /\ UNCHANGED <<taken, line, started, owner>>

Step(c) ==
  \/ TakeLock(c)
  \/ DropLock(c)
  \/ PutChar(c)
  \/ CallFunction(c)
  \/ StartProcessor(c)
  \/ EnterPanic(c)

Next == \E c \in Cpus : Step(c) \/ Exception(c)

Spec == Init /\ [][Next]_vars

\* Interrupts are disabled on every processor, so each one keeps running its
\* own code; a spinning one may lose the lock to another every time.
FairSpec == Spec /\ \A c \in Cpus : WF_vars(Step(c))

-----------------------------------------------------------------------------
\* At the hlt that ends mpEntry or panic, or where main waits for a key.
Stopped(c) == c \in started /\ code[c] = <<>>

WaitsFor(c, d) == At(c, "acquire") /\ owner[Arg(c)] = d

\* No processors wait for each other in a circle, whatever panics and
\* exceptions strike while locks are held: where each one of some processors
\* waits for one of them, there is one that an exception hit in the middle of a
\* printf, that prints again and waits for itself.
NoWaitCycle ==
  \A C \in SUBSET Cpus :
    C # {} /\ (\A c \in C : \E d \in C : WaitsFor(c, d)) =>
      \E c \in C : c \in caught /\ WaitsFor(c, c)

\* A lock is dropped by the processor that took it, and a processor that got
\* to its end without a panic has dropped everything it took.
LocksAreReturned ==
  /\ \A l \in Locks : taken[l] <=> owner[l] # Nobody
  /\ \A c \in Cpus : At(c, "drop") => owner[Arg(c)] = c
  /\ \A c \in Cpus \ panicked : Stopped(c) => \A l \in Locks : owner[l] # c

\* The reason printf.c:863 gives for printfSpinlock: what one printf prints
\* stays in one piece, panics and exceptions included.
LinesAreWhole == \A i, j \in DOMAIN line : line[i] = line[j]

\* "everything halted!", as doPanic prints (panic.c:76): once a processor has
\* halted in a panic, no processor runs.
EverythingHalted ==
  [][(\E c \in panicked : Stopped(c)) => UNCHANGED code]_vars

\* Without a panic every processor gets through its code, though the locks are
\* unfair: each takes them a bounded number of times only.
EverybodyArrives == <>((\A c \in Cpus : Stopped(c)) \/ panicked # {})

\* A panic gets its report out and halts, whatever the others are doing and
\* whatever locks they hold, unless an exception hit a processor in a printf.
PanicIsReported ==
  \A c \in Cpus :
    c \in panicked ~> (Stopped(c) \/ caught # {})
=============================================================================
