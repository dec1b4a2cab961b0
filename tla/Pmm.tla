-------------------------------- MODULE Pmm --------------------------------
(* The physical page allocator, src/kernel/src/mem/pmm.c, with the bitmap   *)
(* of src/kernel/src/util/datastructures/bitmap.c and the test-and-set lock *)
(* of src/kernel/src/cpu/spinlock.c, called by several CPUs at once.        *)
(*                                                                          *)
(* bitmapFind reads one bit per step.  bitmapFill is one step: the bitmap   *)
(* is only read and written by the holder of pmmSpinlock (ExclusiveBitmap). *)
(* `owned' and `clean' are ghosts: the pages returned to callers and not    *)
(* given back, and the pages whose bytes are all zero.                      *)
EXTENDS Integers, FiniteSets

CONSTANTS
  Cpus,      \* the CPUs that call the allocator
  Bits,      \* bitmap->bits, the pages pmmInit put in the bitmap
  Reserved,  \* the pages pmmInit left marked used; see PmmBoot
  MaxPages   \* bound: the longest run a caller asks for

Pages == 0 .. Bits - 1

ASSUME BitsAssumption == Bits \in Nat \ {0}
ASSUME MaxPagesAssumption == MaxPages \in Nat \ {0}
\* pmm.c:124 marks page 0 used whatever the memory map says.
ASSUME ReservedAssumption == Reserved \subseteq Pages /\ 0 \in Reserved

VARIABLES
  bitmap,    \* bitmap[p]: page p is used
  lock,      \* pmmSpinlock: an atomic_flag, which knows no owner
  pc,        \* pc[c]: where CPU c is in pmmAlloc, pmmZeroAlloc or pmmFree
  zero,      \* zero[c]: the call of c is a pmmZeroAlloc
  pages,     \* the argument `pages' of the call of c
  start,     \* `start' of bitmapFind, then the first page of the call's run
  current,   \* `current' of bitmapFind
  pos,       \* `pos' of bitmapFind
  owned,     \* ghost: the pages the kernel may use
  clean      \* ghost: the pages that hold only zeroes

callVars == <<zero, pages>>
scanVars == <<start, current, pos>>
vars == <<bitmap, lock, pc, callVars, scanVars, owned, clean>>

Locations ==
  {"idle", "allocAcquire", "find", "fill", "allocDrop", "memset", "zeroed",
   "freeAcquire", "clear", "freeDrop", "halted"}

Run(p, n) == p .. p + n - 1

\* Mutant of pmm.c:124: page 0 is left free.
InitBitmap_PageZeroFree == [p \in Pages |-> p \in Reserved \ {0}]

InitBitmap == [p \in Pages |-> p \in Reserved]

Init ==
  /\ bitmap = InitBitmap
  /\ lock = FALSE
  /\ pc = [c \in Cpus |-> "idle"]
  /\ zero = [c \in Cpus |-> FALSE]
  /\ pages = [c \in Cpus |-> 0]
  /\ start = [c \in Cpus |-> 0]
  /\ current = [c \in Cpus |-> 0]
  /\ pos = [c \in Cpus |-> 0]
  /\ owned = {}
  /\ clean = {}

Goto(c, l) == pc' = [pc EXCEPT ![c] = l]

-----------------------------------------------------------------------------
(* spinlock.c *)

\* Mutant: the flag is set without looking at what it was.
SpinlockAcquire_NoTest == lock' = TRUE

SpinlockAcquire == ~lock /\ lock' = TRUE

SpinlockDrop == lock' = FALSE

(* bitmap.c *)

BitmapFill(from, to, value) ==
  bitmap' = [p \in Pages |-> IF p \in from .. to - 1 THEN value ELSE bitmap[p]]

-----------------------------------------------------------------------------
(* pmmAlloc and pmmZeroAlloc *)

CallAlloc(c, n, z) ==
  /\ pc[c] = "idle"
  /\ Goto(c, "allocAcquire")
  /\ pages' = [pages EXCEPT ![c] = n]
  /\ zero' = [zero EXCEPT ![c] = z]
  /\ UNCHANGED <<bitmap, lock, scanVars, owned, clean>>

AllocAcquire(c) ==
  /\ pc[c] = "allocAcquire"
  /\ SpinlockAcquire
  /\ Goto(c, "find")
  /\ UNCHANGED <<bitmap, callVars, scanVars, owned, clean>>

\* Mutant: `current' is not reset.
ScanUsed_NoReset(c) ==
  /\ pc[c] = "find"
  /\ pos[c] < Bits
  /\ bitmap[pos[c]]
  /\ start' = [start EXCEPT ![c] = pos[c] + 1]
  /\ pos' = [pos EXCEPT ![c] = pos[c] + 1]
  /\ UNCHANGED <<bitmap, lock, pc, callVars, current, owned, clean>>

\* Mutant: `start' is not moved.
ScanUsed_KeepsStart(c) ==
  /\ pc[c] = "find"
  /\ pos[c] < Bits
  /\ bitmap[pos[c]]
  /\ current' = [current EXCEPT ![c] = 0]
  /\ pos' = [pos EXCEPT ![c] = pos[c] + 1]
  /\ UNCHANGED <<bitmap, lock, pc, callVars, start, owned, clean>>

\* A used bit: the candidate run starts over behind it.
ScanUsed(c) ==
  /\ pc[c] = "find"
  /\ pos[c] < Bits
  /\ bitmap[pos[c]]
  /\ start' = [start EXCEPT ![c] = pos[c] + 1]
  /\ current' = [current EXCEPT ![c] = 0]
  /\ pos' = [pos EXCEPT ![c] = pos[c] + 1]
  /\ UNCHANGED <<bitmap, lock, pc, callVars, owned, clean>>

\* Mutant: the scan goes on when the run is complete.
ScanFree_NoStop(c) ==
  /\ pc[c] = "find"
  /\ pos[c] < Bits
  /\ ~bitmap[pos[c]]
  /\ current' = [current EXCEPT ![c] = current[c] + 1]
  /\ pos' = [pos EXCEPT ![c] = pos[c] + 1]
  /\ UNCHANGED <<bitmap, lock, pc, callVars, start, owned, clean>>

\* A free bit that does not complete the run.
ScanFree(c) ==
  /\ pc[c] = "find"
  /\ pos[c] < Bits
  /\ ~bitmap[pos[c]]
  /\ current[c] + 1 # pages[c]
  /\ current' = [current EXCEPT ![c] = current[c] + 1]
  /\ pos' = [pos EXCEPT ![c] = pos[c] + 1]
  /\ UNCHANGED <<bitmap, lock, pc, callVars, start, owned, clean>>

\* bitmapFind returns `start'; pmmAlloc takes 0 for "no run" and panics.
ScanFound(c) ==
  /\ pc[c] = "find"
  /\ pos[c] < Bits
  /\ ~bitmap[pos[c]]
  /\ current[c] + 1 = pages[c]
  /\ Goto(c, IF start[c] = 0 THEN "halted" ELSE "fill")
  /\ UNCHANGED <<bitmap, lock, callVars, scanVars, owned, clean>>

\* Mutant: pmmHandleOOM runs after the lock was dropped.
ScanEnd_DropsLock(c) ==
  /\ pc[c] = "find"
  /\ pos[c] = Bits
  /\ lock' = FALSE
  /\ Goto(c, "halted")
  /\ UNCHANGED <<bitmap, callVars, scanVars, owned, clean>>

\* bitmapFind returns 0: pmmHandleOOM panics and halts with the lock held.
ScanEnd(c) ==
  /\ pc[c] = "find"
  /\ pos[c] = Bits
  /\ Goto(c, "halted")
  /\ UNCHANGED <<bitmap, lock, callVars, scanVars, owned, clean>>

Fill(c) ==
  /\ pc[c] = "fill"
  /\ BitmapFill(start[c], start[c] + pages[c], TRUE)
  /\ Goto(c, "allocDrop")
  /\ UNCHANGED <<lock, callVars, scanVars, owned, clean>>

\* The call is over: its locals are gone.
Leave(c) ==
  /\ Goto(c, "idle")
  /\ zero' = [zero EXCEPT ![c] = FALSE]
  /\ pages' = [pages EXCEPT ![c] = 0]
  /\ start' = [start EXCEPT ![c] = 0]
  /\ current' = [current EXCEPT ![c] = 0]
  /\ pos' = [pos EXCEPT ![c] = 0]

AllocDrop(c) ==
  /\ pc[c] = "allocDrop"
  /\ ~zero[c]
  /\ SpinlockDrop
  /\ Leave(c)
  /\ owned' = owned \cup Run(start[c], pages[c])
  /\ UNCHANGED <<bitmap, clean>>

ZeroAllocDrop(c) ==
  /\ pc[c] = "allocDrop"
  /\ zero[c]
  /\ SpinlockDrop
  /\ Goto(c, "memset")
  /\ UNCHANGED <<bitmap, callVars, scanVars, owned, clean>>

\* Mutant: one page is cleared, whatever `pages' says.
Memset_OnePage(c) ==
  /\ pc[c] = "memset"
  /\ clean' = clean \cup {start[c]}
  /\ Goto(c, "zeroed")
  /\ UNCHANGED <<bitmap, lock, callVars, scanVars, owned>>

\* pmmZeroAlloc clears the run after pmmAlloc dropped the lock.
Memset(c) ==
  /\ pc[c] = "memset"
  /\ clean' = clean \cup Run(start[c], pages[c])
  /\ Goto(c, "zeroed")
  /\ UNCHANGED <<bitmap, lock, callVars, scanVars, owned>>

ZeroAllocReturn(c) ==
  /\ pc[c] = "zeroed"
  /\ Leave(c)
  /\ owned' = owned \cup Run(start[c], pages[c])
  /\ UNCHANGED <<bitmap, lock, clean>>

-----------------------------------------------------------------------------
(* pmmFree, of pages the caller owns: all of an allocation, a part of one,  *)
(* or neighbouring allocations together.                                    *)

CallFree(c, p, n) ==
  /\ pc[c] = "idle"
  /\ Run(p, n) \subseteq owned
  /\ Goto(c, "freeAcquire")
  /\ start' = [start EXCEPT ![c] = p]
  /\ pages' = [pages EXCEPT ![c] = n]
  /\ owned' = owned \ Run(p, n)
  /\ UNCHANGED <<bitmap, lock, zero, current, pos, clean>>

FreeAcquire(c) ==
  /\ pc[c] = "freeAcquire"
  /\ SpinlockAcquire
  /\ Goto(c, "clear")
  /\ UNCHANGED <<bitmap, callVars, scanVars, owned, clean>>

\* Mutant: off by one, the last page of the run stays used.
Clear_KeepsLast(c) ==
  /\ pc[c] = "clear"
  /\ BitmapFill(start[c], start[c] + pages[c] - 1, FALSE)
  /\ Goto(c, "freeDrop")
  /\ UNCHANGED <<lock, callVars, scanVars, owned, clean>>

Clear(c) ==
  /\ pc[c] = "clear"
  /\ BitmapFill(start[c], start[c] + pages[c], FALSE)
  /\ Goto(c, "freeDrop")
  /\ UNCHANGED <<lock, callVars, scanVars, owned, clean>>

\* Mutant: the call returns without dropping the lock.
FreeDrop_KeepsLock(c) ==
  /\ pc[c] = "freeDrop"
  /\ Leave(c)
  /\ UNCHANGED <<bitmap, lock, owned, clean>>

FreeDrop(c) ==
  /\ pc[c] = "freeDrop"
  /\ SpinlockDrop
  /\ Leave(c)
  /\ UNCHANGED <<bitmap, owned, clean>>

\* The kernel uses a page it was given.
Write(p) ==
  /\ p \in owned
  /\ clean' = clean \ {p}
  /\ UNCHANGED <<bitmap, lock, pc, callVars, scanVars, owned>>

-----------------------------------------------------------------------------
Alloc(c) ==
  \/ AllocAcquire(c)
  \/ ScanUsed(c)
  \/ ScanFree(c)
  \/ ScanFound(c)
  \/ ScanEnd(c)
  \/ Fill(c)
  \/ AllocDrop(c)
  \/ ZeroAllocDrop(c)
  \/ Memset(c)
  \/ ZeroAllocReturn(c)

Free(c) ==
  \/ FreeAcquire(c)
  \/ Clear(c)
  \/ FreeDrop(c)

Call(c) ==
  \/ \E n \in 1 .. MaxPages, z \in BOOLEAN : CallAlloc(c, n, z)
  \/ \E p \in Pages, n \in 1 .. MaxPages : CallFree(c, p, n)

Next ==
  \/ \E c \in Cpus : Alloc(c) \/ Free(c) \/ Call(c)
  \/ \E p \in Pages : Write(p)

Spec == Init /\ [][Next]_vars

\* A CPU inside the allocator keeps running: interrupts stay disabled from
\* boot on and nothing preempts it.  Nothing makes a test-and-set lock fair,
\* so a spinning CPU gets only weak fairness, and none has to make calls.
FairSpec == Spec /\ \A c \in Cpus : WF_vars(Alloc(c) \/ Free(c))

-----------------------------------------------------------------------------
\* A panicked CPU halts inside the critical section and never leaves it.
InCS(c) == pc[c] \in {"find", "fill", "allocDrop", "clear", "freeDrop", "halted"}

\* The pages of c's call that are neither free nor anybody's.
Held(c) ==
  IF pc[c] \in {"allocDrop", "memset", "zeroed", "freeAcquire", "clear"}
  THEN Run(start[c], pages[c])
  ELSE {}

FreeRun(p, n) == Run(p, n) \subseteq Pages /\ \A q \in Run(p, n) : ~bitmap[q]

Panicked == \E c \in Cpus : pc[c] = "halted"

\* The variables have the types of the C variables they stand for.
TypeOK ==
  /\ bitmap \in [Pages -> BOOLEAN]
  /\ lock \in BOOLEAN
  /\ pc \in [Cpus -> Locations]
  /\ zero \in [Cpus -> BOOLEAN]
  /\ pages \in [Cpus -> 0 .. MaxPages]
  /\ start \in [Cpus -> 0 .. Bits]
  /\ current \in [Cpus -> 0 .. MaxPages]
  /\ pos \in [Cpus -> 0 .. Bits]
  /\ owned \subseteq Pages
  /\ clean \subseteq Pages

\* pmmSpinlock admits one CPU at a time to the bitmap, and is taken exactly
\* while some CPU is between the acquire and the drop of its call.
ExclusiveBitmap ==
  /\ \A c, d \in Cpus : InCS(c) /\ InCS(d) => c = d
  /\ lock <=> \E c \in Cpus : InCS(c)

\* Two callers never get the same page, and nobody gets a page the kernel
\* uses already or a page pmmInit reserved.
NoDoubleAllocation ==
  \A c \in Cpus :
    /\ Held(c) \cap (owned \cup Reserved) = {}
    /\ \A d \in Cpus \ {c} : Held(c) \cap Held(d) = {}

\* A bit is set for the reserved pages, the pages in use and the pages of an
\* unfinished call, and for no other page: whatever the interleaving of
\* allocations and frees, no page is lost and none is free too early.
NoPageLost ==
  \A p \in Pages :
    bitmap[p] <=> p \in Reserved \cup owned \/ \E c \in Cpus : p \in Held(c)

\* The two bounds ASSERTs of bitmapFill hold in both of its uses here, so
\* their failing branches are not modelled.
AssertsHold ==
  \A c \in Cpus :
    pc[c] \in {"fill", "clear"} => start[c] < Bits /\ start[c] + pages[c] <= Bits

\* pmmAlloc only panics when no run of the wanted length is free: the index 0
\* that bitmapFind returns for "none" is never the index of a free run.
OomIsGenuine ==
  \A c \in Cpus : pc[c] = "halted" => \A p \in Pages : ~FreeRun(p, pages[c])

\* When pmmZeroAlloc returns, its pages are zero although it clears them
\* outside the lock, while other CPUs allocate, free and write.
ZeroedPagesAreZero ==
  \A c \in Cpus : pc[c] = "zeroed" => Run(start[c], pages[c]) \subseteq clean

\* pmmHandleOOM panics with the lock held, and halts one CPU only: from then
\* on no other CPU passes the allocator, not even to free the missing pages.
PanicStopsAllocator ==
  [][Panicked =>
       /\ bitmap' = bitmap
       /\ \A c \in Cpus : InCS(c)' <=> InCS(c)]_vars

\* The lock is dropped again, unless its holder panics.
LockIsDropped == lock ~> (~lock \/ Panicked)
=============================================================================
