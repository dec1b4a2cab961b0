-------------------------------- MODULE Vmm --------------------------------
(* The page tables of the kernel, src/kernel/src/mem/vmm.c: four levels,    *)
(* walked and extended under walkSpinlock, the last level written after the *)
(* lock is dropped, and one TLB per CPU that only its own invlpg cleans.    *)
(*                                                                          *)
(* A virtual page is its number; the digits of the number in base Fanout    *)
(* are the indices P4, P3, P2 and P1.  An entry keeps its frame only: no    *)
(* decision of vmm.c depends on the flags.  pmmAlloc is one step, as        *)
(* PageAllocator promises; the memset of pmmZeroAlloc is another.           *)
EXTENDS Integers, FiniteSets

CONSTANTS
  Cpus,
  Fanout,  \* entries in a table, 512 in the code
  Frames,  \* the physical pages for page tables, as numbers
  Root,    \* the frame of p4, the table the boot loader left in CR3
  Virts,   \* the virtual pages that callers map
  Phys,    \* the physical pages they are mapped to, apart from Frames
  MaxRun,  \* bound: the most pages of one vmmMapPages or vmmUnmapPages
  TlbVirts \* bound: the virtual pages whose cached translations are followed

Index == 0 .. Fanout - 1

ASSUME FanoutAssumption == Fanout \in Nat \ {0}
ASSUME FramesAssumption == Frames \subseteq Nat \ {0} /\ Root \in Frames
ASSUME VirtsAssumption == Virts \subseteq 0 .. Fanout * Fanout * Fanout * Fanout - 1
ASSUME PhysAssumption == Phys \subseteq Nat \ {0} /\ Phys \cap Frames = {}
ASSUME MaxRunAssumption == MaxRun \in Nat \ {0}
ASSUME TlbVirtsAssumption == TlbVirts \subseteq Virts

\* P1 .. P4 of paging.h.
IndexAt(v, level) ==
  CASE level = 1 -> v % Fanout
    [] level = 2 -> (v \div Fanout) % Fanout
    [] level = 3 -> (v \div (Fanout * Fanout)) % Fanout
    [] level = 4 -> (v \div (Fanout * Fanout * Fanout)) % Fanout

Empty == 0
\* What a page holds that pmmAlloc hands out: anything.
Garbage == -1

VARIABLES
  mem,       \* mem[f][i]: entry i of the table in frame f
  free,      \* the frames pmmAlloc may hand out
  walkLock,  \* walkSpinlock
  pc,        \* pc[c]: where CPU c is
  unmap,     \* unmap[c]: the call is vmmUnmapPages, not vmmMapPages
  virt,      \* the page the call is at
  phys,      \* what it is to be mapped to
  n,         \* how many pages are left, this one included
  level,     \* the level of `table'
  table,     \* the table the walk has reached; 0: a null PageTable
  fresh,     \* the page pmmZeroAlloc is about to return
  tlb,       \* tlb[c][v]: the translation CPU c has cached, or Empty
  writer     \* ghost: writer[v]: the CPU that last wrote the entry of v

callVars == <<unmap, virt, phys, n>>
walkVars == <<level, table, fresh>>
vars == <<mem, free, walkLock, pc, callVars, walkVars, tlb, writer>>

Locations ==
  {"idle", "acquire", "walk", "alloc", "zero", "link", "write", "invlpg", "halted"}

Nobody == "nobody"

Init ==
  /\ mem = [f \in Frames |-> [i \in Index |-> IF f = Root THEN Empty ELSE Garbage]]
  /\ free = Frames \ {Root}
  /\ walkLock = FALSE
  /\ pc = [c \in Cpus |-> "idle"]
  /\ unmap = [c \in Cpus |-> FALSE]
  /\ virt = [c \in Cpus |-> 0]
  /\ phys = [c \in Cpus |-> 0]
  /\ n = [c \in Cpus |-> 0]
  /\ level = [c \in Cpus |-> 4]
  /\ table = [c \in Cpus |-> Root]
  /\ fresh = [c \in Cpus |-> 0]
  /\ tlb = [c \in Cpus |-> [v \in TlbVirts |-> Empty]]
  /\ writer = [v \in Virts |-> Nobody]

Goto(c, l) == pc' = [pc EXCEPT ![c] = l]

-----------------------------------------------------------------------------
(* Calls *)

CallMapPages(c, v, p, k) ==
  /\ pc[c] = "idle"
  /\ v .. v + k - 1 \subseteq Virts /\ p .. p + k - 1 \subseteq Phys
  /\ unmap' = [unmap EXCEPT ![c] = FALSE]
  /\ virt' = [virt EXCEPT ![c] = v]
  /\ phys' = [phys EXCEPT ![c] = p]
  /\ n' = [n EXCEPT ![c] = k]
  /\ Goto(c, "acquire")
  /\ UNCHANGED <<mem, free, walkLock, walkVars, tlb, writer>>

CallUnmapPages(c, v, k) ==
  /\ pc[c] = "idle"
  /\ v .. v + k - 1 \subseteq Virts
  /\ unmap' = [unmap EXCEPT ![c] = TRUE]
  /\ virt' = [virt EXCEPT ![c] = v]
  /\ phys' = [phys EXCEPT ![c] = 0]
  /\ n' = [n EXCEPT ![c] = k]
  /\ Goto(c, "acquire")
  /\ UNCHANGED <<mem, free, walkLock, walkVars, tlb, writer>>

\* Mutant: the loop runs once too often.
NextPage_OneMore(c) ==
  LET done == n[c] = 0 IN
  /\ Goto(c, IF done THEN "idle" ELSE "acquire")
  /\ n' = [n EXCEPT ![c] = @ - 1]
  /\ virt' = [virt EXCEPT ![c] = IF done THEN 0 ELSE @ + 1]
  /\ phys' = [phys EXCEPT ![c] = IF done \/ unmap[c] THEN 0 ELSE @ + 1]
  /\ unmap' = [unmap EXCEPT ![c] = @ /\ ~done]
  /\ level' = [level EXCEPT ![c] = 4]
  /\ table' = [table EXCEPT ![c] = Root]
  /\ fresh' = [fresh EXCEPT ![c] = 0]

\* Mutant: every page of the run is mapped to the first physical page.
NextPage_SamePhys(c) ==
  LET done == n[c] = 1 IN
  /\ Goto(c, IF done THEN "idle" ELSE "acquire")
  /\ n' = [n EXCEPT ![c] = @ - 1]
  /\ virt' = [virt EXCEPT ![c] = IF done THEN 0 ELSE @ + 1]
  /\ phys' = [phys EXCEPT ![c] = IF done \/ unmap[c] THEN 0 ELSE @]
  /\ unmap' = [unmap EXCEPT ![c] = @ /\ ~done]
  /\ level' = [level EXCEPT ![c] = 4]
  /\ table' = [table EXCEPT ![c] = Root]
  /\ fresh' = [fresh EXCEPT ![c] = 0]

\* The loop of vmmMapPages and vmmUnmapPages: on to the next page, or return.
NextPage(c) ==
  LET done == n[c] = 1 IN
  /\ Goto(c, IF done THEN "idle" ELSE "acquire")
  /\ n' = [n EXCEPT ![c] = @ - 1]
  /\ virt' = [virt EXCEPT ![c] = IF done THEN 0 ELSE @ + 1]
  /\ phys' = [phys EXCEPT ![c] = IF done \/ unmap[c] THEN 0 ELSE @ + 1]
  /\ unmap' = [unmap EXCEPT ![c] = @ /\ ~done]
  /\ level' = [level EXCEPT ![c] = 4]
  /\ table' = [table EXCEPT ![c] = Root]
  /\ fresh' = [fresh EXCEPT ![c] = 0]

-----------------------------------------------------------------------------
(* vmmWalk *)

\* Mutant: the walk starts without the lock.
Acquire_NoLock(c) ==
  /\ pc[c] = "acquire"
  /\ walkLock' = TRUE
  /\ Goto(c, "walk")
  /\ UNCHANGED <<mem, free, callVars, walkVars, tlb, writer>>

Acquire(c) ==
  /\ pc[c] = "acquire"
  /\ ~walkLock
  /\ walkLock' = TRUE
  /\ Goto(c, "walk")
  /\ UNCHANGED <<mem, free, callVars, walkVars, tlb, writer>>

\* The entry of the current page in the table the walk has reached.
Entry(c) == mem[table[c]][IndexAt(virt[c], level[c])]

\* Mutant: the entry is not looked at (a table is allocated once per walk).
Missing_Always(c) ==
  /\ pc[c] = "walk"
  /\ level[c] > 1 /\ table[c] # 0
  /\ ~unmap[c]
  /\ Goto(c, "alloc")
  /\ UNCHANGED <<mem, free, walkLock, callVars, walkVars, tlb, writer>>

\* No table below: allocate one if the caller maps.
Missing(c) ==
  /\ pc[c] = "walk"
  /\ level[c] > 1 /\ table[c] # 0
  /\ ~unmap[c]
  /\ Entry(c) = Empty
  /\ Goto(c, "alloc")
  /\ UNCHANGED <<mem, free, walkLock, callVars, walkVars, tlb, writer>>

\* vmmGetPageTable: the table below; null for an entry of 0.
Descend(c) ==
  /\ pc[c] = "walk"
  /\ level[c] > 1 /\ table[c] # 0
  /\ unmap[c] \/ Entry(c) # Empty
  /\ table' = [table EXCEPT ![c] = Entry(c)]
  /\ level' = [level EXCEPT ![c] = @ - 1]
  /\ UNCHANGED <<mem, free, walkLock, pc, callVars, fresh, tlb, writer>>

\* p3 or p2 is null and is indexed all the same: a page fault, which panics
\* with the lock held.
Fault(c) ==
  /\ pc[c] = "walk"
  /\ level[c] > 1 /\ table[c] = 0
  /\ Goto(c, "halted")
  /\ UNCHANGED <<mem, free, walkLock, callVars, walkVars, tlb, writer>>

\* pmmZeroAlloc(1), first half: pmmAlloc's lowest free page.
AllocTable(c) ==
  /\ pc[c] = "alloc"
  /\ \E f \in free :
       /\ \A g \in free : f <= g
       /\ free' = free \ {f}
       /\ fresh' = [fresh EXCEPT ![c] = f]
  /\ Goto(c, "zero")
  /\ UNCHANGED <<mem, walkLock, callVars, level, table, tlb, writer>>

\* pmmAlloc panics, with walkSpinlock held as well.
OutOfMemory(c) ==
  /\ pc[c] = "alloc"
  /\ free = {}
  /\ Goto(c, "halted")
  /\ UNCHANGED <<mem, free, walkLock, callVars, walkVars, tlb, writer>>

\* Mutant: pmmAlloc in the place of pmmZeroAlloc.
ZeroTable_NoMemset(c) ==
  /\ pc[c] = "zero"
  /\ Goto(c, "link")
  /\ UNCHANGED <<mem, free, walkLock, callVars, walkVars, tlb, writer>>

\* pmmZeroAlloc(1), second half: the memset.
ZeroTable(c) ==
  /\ pc[c] = "zero"
  /\ mem' = [mem EXCEPT ![fresh[c]] = [i \in Index |-> Empty]]
  /\ Goto(c, "link")
  /\ UNCHANGED <<free, walkLock, callVars, walkVars, tlb, writer>>

LinkTable(c) ==
  /\ pc[c] = "link"
  /\ mem' = [mem EXCEPT ![table[c]][IndexAt(virt[c], level[c])] = fresh[c]]
  /\ fresh' = [fresh EXCEPT ![c] = 0]
  /\ Goto(c, "walk")
  /\ UNCHANGED <<free, walkLock, callVars, level, table, tlb, writer>>

\* vmmWalk returns p1; vmmUnmap returns at once if it is null.
Drop(c) ==
  /\ pc[c] = "walk"
  /\ level[c] = 1
  /\ walkLock' = FALSE
  /\ IF table[c] = 0
     THEN NextPage(c)
     ELSE Goto(c, "write") /\ UNCHANGED <<callVars, walkVars>>
  /\ UNCHANGED <<mem, free, tlb, writer>>

-----------------------------------------------------------------------------
(* vmmMap and vmmUnmap after the walk: no lock is held. *)

WriteEntry(c) ==
  /\ pc[c] = "write"
  /\ mem' = [mem EXCEPT ![table[c]][IndexAt(virt[c], 1)] =
                          IF unmap[c] THEN Empty ELSE phys[c]]
  /\ writer' = [writer EXCEPT ![virt[c]] = c]
  /\ Goto(c, "invlpg")
  /\ UNCHANGED <<free, walkLock, callVars, walkVars, tlb>>

\* Mutant: no invlpg.
InvalidatePage_None(c) ==
  /\ pc[c] = "invlpg"
  /\ NextPage(c)
  /\ UNCHANGED <<mem, free, walkLock, tlb, writer>>

InvalidatePage(c) ==
  /\ pc[c] = "invlpg"
  /\ tlb' = [tlb EXCEPT ![c] = [v \in TlbVirts |-> IF v = virt[c] THEN Empty ELSE @[v]]]
  /\ NextPage(c)
  /\ UNCHANGED <<mem, free, walkLock, writer>>

-----------------------------------------------------------------------------
(* The MMU of CPU c walks the tables by itself, whoever holds the lock. *)

Below(f, v, l) == IF f = Empty THEN Empty ELSE mem[f][IndexAt(v, l)]

Translate(v) == Below(Below(Below(Below(Root, v, 4), v, 3), v, 2), v, 1)

TlbFill(c, v) ==
  /\ pc[c] # "halted"
  /\ Translate(v) # Empty
  /\ tlb' = [tlb EXCEPT ![c][v] = Translate(v)]
  /\ UNCHANGED <<mem, free, walkLock, pc, callVars, walkVars, writer>>

Walk(c) ==
  \/ Acquire(c)
  \/ Missing(c)
  \/ Descend(c)
  \/ Fault(c)
  \/ AllocTable(c)
  \/ OutOfMemory(c)
  \/ ZeroTable(c)
  \/ LinkTable(c)
  \/ Drop(c)

Next ==
  \E c \in Cpus :
    \/ \E v \in Virts, p \in Phys, k \in 1 .. MaxRun : CallMapPages(c, v, p, k)
    \/ \E v \in Virts, k \in 1 .. MaxRun : CallUnmapPages(c, v, k)
    \/ Walk(c)
    \/ WriteEntry(c)
    \/ InvalidatePage(c)
    \/ \E v \in TlbVirts : TlbFill(c, v)

Spec == Init /\ [][Next]_vars

-----------------------------------------------------------------------------
Entries == {Empty, Garbage} \cup Frames \cup Phys

\* The variables have the types of the C variables they stand for.
TypeOK ==
  /\ mem \in [Frames -> [Index -> Entries]]
  /\ free \subseteq Frames
  /\ walkLock \in BOOLEAN
  /\ pc \in [Cpus -> Locations]
  /\ unmap \in [Cpus -> BOOLEAN]
  /\ virt \in [Cpus -> Virts \cup {0}]
  /\ phys \in [Cpus -> Phys \cup {0}]
  /\ n \in [Cpus -> 0 .. MaxRun]
  /\ level \in [Cpus -> 1 .. 4]
  /\ table \in [Cpus -> Frames \cup {0}]
  /\ fresh \in [Cpus -> Frames \cup {0}]
  /\ tlb \in [Cpus -> [TlbVirts -> Phys \cup {Empty}]]
  /\ writer \in [Virts -> Cpus \cup {Nobody}]

\* The tables at each level, from the root down.
TablesBelow(S) == (UNION {{mem[f][i] : i \in Index} : f \in S}) \ {Empty}

Level4 == {Root}
Level3 == TablesBelow(Level4)
Level2 == TablesBelow(Level3)
Level1 == TablesBelow(Level2)

\* Whenever the MMU looks, every table it can reach was zeroed before it was
\* linked, and every entry is a table or, at the last level only, a mapping.
NoGarbageReachable ==
  /\ Level3 \subseteq Frames
  /\ Level2 \subseteq Frames
  /\ Level1 \subseteq Frames
  /\ TablesBelow(Level1) \subseteq Phys

Reachable == Level4 \cup Level3 \cup Level2 \cup Level1

\* Every frame pmmAlloc gave up is linked from one entry of one reachable
\* table, or is still on its way there: two CPUs that miss the same table do
\* not both link one, and no table is lost.
EveryTableLinkedOnce ==
  LET Links(f) == {e \in (Reachable \ Level1) \X Index : mem[e[1]][e[2]] = f}
  IN  \A f \in Frames \ {Root} :
        \/ f \in free /\ Links(f) = {}
        \/ f \notin free /\ Cardinality(Links(f)) = 1 /\ \A c \in Cpus : fresh[c] # f
        \/ f \notin free /\ Links(f) = {} /\ \E c \in Cpus : fresh[c] = f

\* The table a call writes to after it dropped the lock is still the one the
\* MMU uses for that page: tables are never unlinked.
WalkStaysValid ==
  \A c \in Cpus :
    pc[c] = "write" =>
      table[c] = Below(Below(Below(Root, virt[c], 4), virt[c], 3), virt[c], 2)

\* invlpg is local: a CPU may use an old translation only while its own call
\* has not reached the invlpg, or after another CPU wrote the entry.
StaleOnlyFromRemote ==
  \A c \in Cpus, v \in TlbVirts :
    tlb[c][v] \notin {Empty, Translate(v)} =>
      writer[v] # c \/ (pc[c] = "invlpg" /\ virt[c] = v)
=============================================================================
