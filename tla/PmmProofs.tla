----------------------------- MODULE PmmProofs -----------------------------
(* Proofs about the page allocator, for every number of CPUs, every bitmap  *)
(* size, every reserved set that holds page 0 and every bound on requests.  *)
EXTENDS PmmRefinement, TLAPS

-----------------------------------------------------------------------------
(* The inductive invariant.  Type correctness, mutual exclusion and the     *)
(* exact accounting of the bitmap are not inductive by themselves: that     *)
(* pmmAlloc hands out free pages rests on the loop invariant of bitmapFind, *)
(* which in turn needs nobody else to write the bitmap during the scan.     *)

\* What one CPU knows of its own call: it asks for at least one page, its
\* scan starts at 0 and counts the bits behind `start', and its run lies in
\* the bitmap.
CallInv(c) ==
  /\ pc[c] # "idle" => pages[c] > 0
  /\ pc[c] \in {"idle", "allocAcquire"} => start[c] = 0 /\ current[c] = 0 /\ pos[c] = 0
  /\ pc[c] = "find" => current[c] < pages[c] /\ start[c] + current[c] = pos[c]
  /\ pc[c] \in {"fill", "allocDrop", "memset", "zeroed", "freeAcquire", "clear"} =>
       start[c] + pages[c] <= Bits

TypeInv == TypeOK /\ \A c \in Cpus : CallInv(c)

\* The loop invariant of bitmapFind: the bits from `start' up to `pos' are
\* free, the bit before `start' is used, and no complete run was passed.
ScanInv(c) ==
  pc[c] = "find" =>
    /\ \A q \in start[c] .. pos[c] - 1 : ~bitmap[q]
    /\ start[c] > 0 => bitmap[start[c] - 1]
    /\ \A p \in Pages : p + pages[c] <= pos[c] => \E q \in Run(p, pages[c]) : bitmap[q]

\* What pmmAlloc relies on after bitmapFind returned an index.
FillInv(c) ==
  pc[c] = "fill" =>
    /\ start[c] > 0
    /\ \A q \in Run(start[c], pages[c]) : ~bitmap[q]
    /\ \A p \in Pages : p < start[c] => \E q \in Run(p, pages[c]) : q \in Pages /\ bitmap[q]

\* What a CPU that panicked found out.
OomInv(c) == pc[c] = "halted" => \A p \in Pages : ~FreeRun(p, pages[c])

SearchInv(c) == ScanInv(c) /\ FillInv(c) /\ OomInv(c)

\* The bitmap says exactly which pages are spoken for.
AccountInv ==
  /\ NoDoubleAllocation
  /\ NoPageLost
  /\ owned \cap Reserved = {}

IInv ==
  /\ TypeInv
  /\ ExclusiveBitmap
  /\ AccountInv
  /\ \A c \in Cpus : SearchInv(c)
  /\ ZeroedPagesAreZero

-----------------------------------------------------------------------------
(* Type correctness. *)

\* No call is under way and the bitmap is the one pmmInit left.
LEMMA TypeInvInit == Init => TypeInv
<1> SUFFICES ASSUME Init PROVE TypeInv
  OBVIOUS
<1>1. bitmap \in [Pages -> BOOLEAN]
  <2>1. \A p \in Pages : (p \in Reserved) \in BOOLEAN
    OBVIOUS
  <2>2. bitmap = [p \in Pages |-> p \in Reserved]
    BY DEF Init, InitBitmap
  <2> QED
    BY <2>1, <2>2
<1>2. /\ lock \in BOOLEAN
      /\ pc \in [Cpus -> Locations]
      /\ zero \in [Cpus -> BOOLEAN]
      /\ owned \subseteq Pages
      /\ clean \subseteq Pages
  BY DEF Init, Locations
<1>3. /\ pages \in [Cpus -> 0 .. MaxPages]
      /\ start \in [Cpus -> 0 .. Bits]
      /\ current \in [Cpus -> 0 .. MaxPages]
      /\ pos \in [Cpus -> 0 .. Bits]
  BY BitsAssumption, MaxPagesAssumption DEF Init
<1>4. ASSUME NEW c \in Cpus PROVE CallInv(c)
  BY <1>4 DEF Init, CallInv
<1> QED
  BY <1>1, <1>2, <1>3, <1>4 DEF TypeInv, TypeOK

\* The run of a call between bitmapFind and its return lies in the bitmap.
LEMMA RunInBitmap ==
  ASSUME TypeInv, NEW c \in Cpus,
         pc[c] \in {"fill", "allocDrop", "memset", "zeroed", "freeAcquire", "clear"}
  PROVE  Run(start[c], pages[c]) \subseteq Pages
<1>1. start[c] \in Nat /\ pages[c] \in Nat /\ start[c] + pages[c] <= Bits
  BY BitsAssumption, MaxPagesAssumption DEF TypeInv, TypeOK, CallInv
<1> QED
  BY <1>1, BitsAssumption DEF Run, Pages

\* Every statement keeps the types, the bounds of the scan and of the runs.
LEMMA TypeInvStep == TypeInv /\ [Next]_vars => TypeInv'
<1> SUFFICES ASSUME TypeInv, [Next]_vars PROVE TypeInv'
  OBVIOUS
<1> USE BitsAssumption, MaxPagesAssumption DEF Goto, callVars, scanVars
<1>1. ASSUME NEW c \in Cpus, NEW n \in 1 .. MaxPages, NEW z \in BOOLEAN, CallAlloc(c, n, z)
      PROVE  TypeInv'
  <2>1. TypeOK'
    BY <1>1 DEF TypeInv, TypeOK, CallInv, Locations, Pages, CallAlloc
  <2>2. ASSUME NEW d \in Cpus PROVE CallInv(d)'
    BY <1>1 DEF TypeInv, TypeOK, CallInv, Locations, Pages, CallAlloc
  <2> QED
    BY <2>1, <2>2 DEF TypeInv
<1>2. ASSUME NEW c \in Cpus, NEW p \in Pages, NEW n \in 1 .. MaxPages, CallFree(c, p, n)
      PROVE  TypeInv'
  <2>1. TypeOK'
    BY <1>2 DEF TypeInv, TypeOK, CallInv, Locations, Pages, CallFree, Run
  <2>2. ASSUME NEW d \in Cpus PROVE CallInv(d)'
    BY <1>2 DEF TypeInv, TypeOK, CallInv, Locations, Pages, CallFree, Run
  <2> QED
    BY <2>1, <2>2 DEF TypeInv
<1>3. ASSUME NEW c \in Cpus, AllocAcquire(c)
      PROVE  TypeInv'
  <2>1. TypeOK'
    BY <1>3 DEF TypeInv, TypeOK, CallInv, Locations, Pages, AllocAcquire, SpinlockAcquire
  <2>2. ASSUME NEW d \in Cpus PROVE CallInv(d)'
    BY <1>3 DEF TypeInv, TypeOK, CallInv, Locations, Pages, AllocAcquire, SpinlockAcquire
  <2> QED
    BY <2>1, <2>2 DEF TypeInv
<1>4. ASSUME NEW c \in Cpus, ScanUsed(c)
      PROVE  TypeInv'
  <2>1. TypeOK'
    BY <1>4 DEF TypeInv, TypeOK, CallInv, Locations, Pages, ScanUsed
  <2>2. ASSUME NEW d \in Cpus PROVE CallInv(d)'
    BY <1>4 DEF TypeInv, TypeOK, CallInv, Locations, Pages, ScanUsed
  <2> QED
    BY <2>1, <2>2 DEF TypeInv
<1>5. ASSUME NEW c \in Cpus, ScanFree(c)
      PROVE  TypeInv'
  <2>1. TypeOK'
    <3>1. /\ current[c] + 1 \in 0 .. MaxPages /\ pos[c] + 1 \in 0 .. Bits
      BY <1>5 DEF TypeInv, TypeOK, CallInv, ScanFree
    <3> QED
      BY <1>5, <3>1 DEF TypeInv, TypeOK, ScanFree
  <2>2. ASSUME NEW d \in Cpus PROVE CallInv(d)'
    <3>1. CASE d = c
      <4>1. /\ pc[c] = "find" /\ pc' = pc /\ start' = start /\ pages' = pages
            /\ current'[c] = current[c] + 1 /\ pos'[c] = pos[c] + 1
            /\ current[c] + 1 # pages[c]
        BY <1>5 DEF TypeInv, TypeOK, ScanFree
      <4>2. /\ current[c] \in Nat /\ pages[c] \in Nat /\ start[c] \in Nat /\ pos[c] \in Nat
            /\ pages[c] > 0 /\ current[c] < pages[c] /\ start[c] + current[c] = pos[c]
        BY <4>1 DEF TypeInv, TypeOK, CallInv
      <4> QED
        BY <3>1, <4>1, <4>2 DEF CallInv
    <3>2. CASE d # c
      BY <1>5, <3>2 DEF TypeInv, TypeOK, CallInv, ScanFree
    <3> QED
      BY <3>1, <3>2
  <2> QED
    BY <2>1, <2>2 DEF TypeInv
<1>6. ASSUME NEW c \in Cpus, ScanFound(c)
      PROVE  TypeInv'
  <2>1. TypeOK'
    BY <1>6 DEF TypeInv, TypeOK, CallInv, Locations, Pages, ScanFound
  <2>2. ASSUME NEW d \in Cpus PROVE CallInv(d)'
    BY <1>6 DEF TypeInv, TypeOK, CallInv, Locations, Pages, ScanFound
  <2> QED
    BY <2>1, <2>2 DEF TypeInv
<1>7. ASSUME NEW c \in Cpus, ScanEnd(c)
      PROVE  TypeInv'
  <2>1. TypeOK'
    BY <1>7 DEF TypeInv, TypeOK, CallInv, Locations, Pages, ScanEnd
  <2>2. ASSUME NEW d \in Cpus PROVE CallInv(d)'
    BY <1>7 DEF TypeInv, TypeOK, CallInv, Locations, Pages, ScanEnd
  <2> QED
    BY <2>1, <2>2 DEF TypeInv
<1>8. ASSUME NEW c \in Cpus, Fill(c)
      PROVE  TypeInv'
  <2>1. TypeOK'
    BY <1>8 DEF TypeInv, TypeOK, CallInv, Locations, Pages, Fill, BitmapFill
  <2>2. ASSUME NEW d \in Cpus PROVE CallInv(d)'
    BY <1>8 DEF TypeInv, TypeOK, CallInv, Locations, Pages, Fill, BitmapFill
  <2> QED
    BY <2>1, <2>2 DEF TypeInv
<1>9. ASSUME NEW c \in Cpus, AllocDrop(c)
      PROVE  TypeInv'
  <2>1. TypeOK'
    <3>1. /\ pages' \in [Cpus -> 0 .. MaxPages]
          /\ start' \in [Cpus -> 0 .. Bits]
          /\ current' \in [Cpus -> 0 .. MaxPages]
          /\ pos' \in [Cpus -> 0 .. Bits]
      BY <1>9 DEF TypeInv, TypeOK, AllocDrop, SpinlockDrop, Leave
    <3>2. /\ bitmap' \in [Pages -> BOOLEAN]
          /\ lock' \in BOOLEAN
          /\ pc' \in [Cpus -> Locations]
          /\ zero' \in [Cpus -> BOOLEAN]
      BY <1>9 DEF TypeInv, TypeOK, Locations, AllocDrop, SpinlockDrop, Leave
    <3>3. owned' \subseteq Pages /\ clean' \subseteq Pages
      BY <1>9, RunInBitmap DEF TypeInv, TypeOK, AllocDrop
    <3> QED
      BY <3>1, <3>2, <3>3 DEF TypeOK
  <2>2. ASSUME NEW d \in Cpus PROVE CallInv(d)'
    BY <1>9 DEF TypeInv, TypeOK, CallInv, Locations, Pages, AllocDrop, SpinlockDrop, Leave, Run
  <2> QED
    BY <2>1, <2>2 DEF TypeInv
<1>10. ASSUME NEW c \in Cpus, ZeroAllocDrop(c)
      PROVE  TypeInv'
  <2>1. TypeOK'
    BY <1>10 DEF TypeInv, TypeOK, CallInv, Locations, Pages, ZeroAllocDrop, SpinlockDrop
  <2>2. ASSUME NEW d \in Cpus PROVE CallInv(d)'
    BY <1>10 DEF TypeInv, TypeOK, CallInv, Locations, Pages, ZeroAllocDrop, SpinlockDrop
  <2> QED
    BY <2>1, <2>2 DEF TypeInv
<1>11. ASSUME NEW c \in Cpus, Memset(c)
      PROVE  TypeInv'
  <2>1. TypeOK'
    <3>1. /\ pages' \in [Cpus -> 0 .. MaxPages]
          /\ start' \in [Cpus -> 0 .. Bits]
          /\ current' \in [Cpus -> 0 .. MaxPages]
          /\ pos' \in [Cpus -> 0 .. Bits]
      BY <1>11 DEF TypeInv, TypeOK, Memset
    <3>2. /\ bitmap' \in [Pages -> BOOLEAN]
          /\ lock' \in BOOLEAN
          /\ pc' \in [Cpus -> Locations]
          /\ zero' \in [Cpus -> BOOLEAN]
      BY <1>11 DEF TypeInv, TypeOK, Locations, Memset
    <3>3. owned' \subseteq Pages /\ clean' \subseteq Pages
      BY <1>11, RunInBitmap DEF TypeInv, TypeOK, Memset
    <3> QED
      BY <3>1, <3>2, <3>3 DEF TypeOK
  <2>2. ASSUME NEW d \in Cpus PROVE CallInv(d)'
    BY <1>11 DEF TypeInv, TypeOK, CallInv, Locations, Pages, Memset, Run
  <2> QED
    BY <2>1, <2>2 DEF TypeInv
<1>12. ASSUME NEW c \in Cpus, ZeroAllocReturn(c)
      PROVE  TypeInv'
  <2>1. TypeOK'
    <3>1. /\ pages' \in [Cpus -> 0 .. MaxPages]
          /\ start' \in [Cpus -> 0 .. Bits]
          /\ current' \in [Cpus -> 0 .. MaxPages]
          /\ pos' \in [Cpus -> 0 .. Bits]
      BY <1>12 DEF TypeInv, TypeOK, ZeroAllocReturn, Leave
    <3>2. /\ bitmap' \in [Pages -> BOOLEAN]
          /\ lock' \in BOOLEAN
          /\ pc' \in [Cpus -> Locations]
          /\ zero' \in [Cpus -> BOOLEAN]
      BY <1>12 DEF TypeInv, TypeOK, Locations, ZeroAllocReturn, Leave
    <3>3. owned' \subseteq Pages /\ clean' \subseteq Pages
      BY <1>12, RunInBitmap DEF TypeInv, TypeOK, ZeroAllocReturn
    <3> QED
      BY <3>1, <3>2, <3>3 DEF TypeOK
  <2>2. ASSUME NEW d \in Cpus PROVE CallInv(d)'
    BY <1>12 DEF TypeInv, TypeOK, CallInv, Locations, Pages, ZeroAllocReturn, Leave, Run
  <2> QED
    BY <2>1, <2>2 DEF TypeInv
<1>13. ASSUME NEW c \in Cpus, FreeAcquire(c)
      PROVE  TypeInv'
  <2>1. TypeOK'
    BY <1>13 DEF TypeInv, TypeOK, CallInv, Locations, Pages, FreeAcquire, SpinlockAcquire
  <2>2. ASSUME NEW d \in Cpus PROVE CallInv(d)'
    BY <1>13 DEF TypeInv, TypeOK, CallInv, Locations, Pages, FreeAcquire, SpinlockAcquire
  <2> QED
    BY <2>1, <2>2 DEF TypeInv
<1>14. ASSUME NEW c \in Cpus, Clear(c)
      PROVE  TypeInv'
  <2>1. TypeOK'
    BY <1>14 DEF TypeInv, TypeOK, CallInv, Locations, Pages, Clear, BitmapFill
  <2>2. ASSUME NEW d \in Cpus PROVE CallInv(d)'
    BY <1>14 DEF TypeInv, TypeOK, CallInv, Locations, Pages, Clear, BitmapFill
  <2> QED
    BY <2>1, <2>2 DEF TypeInv
<1>15. ASSUME NEW c \in Cpus, FreeDrop(c)
      PROVE  TypeInv'
  <2>1. TypeOK'
    <3>1. /\ pages' \in [Cpus -> 0 .. MaxPages]
          /\ start' \in [Cpus -> 0 .. Bits]
          /\ current' \in [Cpus -> 0 .. MaxPages]
          /\ pos' \in [Cpus -> 0 .. Bits]
      BY <1>15 DEF TypeInv, TypeOK, FreeDrop, SpinlockDrop, Leave
    <3>2. /\ bitmap' \in [Pages -> BOOLEAN]
          /\ lock' \in BOOLEAN
          /\ pc' \in [Cpus -> Locations]
          /\ zero' \in [Cpus -> BOOLEAN]
      BY <1>15 DEF TypeInv, TypeOK, Locations, FreeDrop, SpinlockDrop, Leave
    <3>3. owned' \subseteq Pages /\ clean' \subseteq Pages
      BY <1>15 DEF TypeInv, TypeOK, CallInv, Pages, FreeDrop
    <3> QED
      BY <3>1, <3>2, <3>3 DEF TypeOK
  <2>2. ASSUME NEW d \in Cpus PROVE CallInv(d)'
    BY <1>15 DEF TypeInv, TypeOK, CallInv, Locations, Pages, FreeDrop, SpinlockDrop, Leave
  <2> QED
    BY <2>1, <2>2 DEF TypeInv
<1>16. ASSUME NEW p \in Pages, Write(p) PROVE TypeInv'
  BY <1>16 DEF TypeInv, TypeOK, CallInv, Write
<1>17. CASE UNCHANGED vars
  BY <1>17 DEF TypeInv, TypeOK, CallInv, vars
<1> QED
  BY <1>1, <1>2, <1>3, <1>4, <1>5, <1>6, <1>7, <1>8, <1>9, <1>10, <1>11, <1>12, <1>13, <1>14, <1>15, <1>16, <1>17
  DEF Next, Alloc, Free, Call

\* Whatever the constants, the variables of the allocator keep their types: in
\* particular no index leaves the bitmap and no count exceeds the request.
THEOREM TypeCorrect == Spec => []TypeOK
<1>1. TypeInv => TypeOK
  BY DEF TypeInv
<1> QED
  BY <1>1, TypeInvInit, TypeInvStep, PTL DEF Spec

-----------------------------------------------------------------------------
(* Mutual exclusion. *)

\* The lock is free at first and nobody is at the bitmap.
LEMMA ExclusiveInit == Init => ExclusiveBitmap
BY DEF Init, ExclusiveBitmap, InCS

\* Steps that neither touch the lock nor enter or leave the critical section.
LEMMA ExclusiveFrame ==
  ASSUME ExclusiveBitmap, lock' = lock, \A d \in Cpus : InCS(d)' <=> InCS(d)
  PROVE  ExclusiveBitmap'
BY DEF ExclusiveBitmap

\* spinlockAcquire lets in one CPU, and only while nobody is inside.
LEMMA ExclusiveEnter ==
  ASSUME ExclusiveBitmap, NEW c \in Cpus, ~lock, lock' = TRUE, InCS(c)',
         \A d \in Cpus \ {c} : InCS(d)' <=> InCS(d)
  PROVE  ExclusiveBitmap'
BY DEF ExclusiveBitmap

\* spinlockDrop is called by the CPU inside, as it leaves.
LEMMA ExclusiveLeave ==
  ASSUME ExclusiveBitmap, NEW c \in Cpus, InCS(c), lock' = FALSE, ~InCS(c)',
         \A d \in Cpus \ {c} : InCS(d)' <=> InCS(d)
  PROVE  ExclusiveBitmap'
BY DEF ExclusiveBitmap

\* Every statement stays inside, stays outside, enters or leaves.
LEMMA ExclusiveStep == TypeInv /\ ExclusiveBitmap /\ [Next]_vars => ExclusiveBitmap'
<1> SUFFICES ASSUME TypeInv, ExclusiveBitmap, [Next]_vars PROVE ExclusiveBitmap'
  OBVIOUS
<1> USE DEF TypeInv, TypeOK, Goto, InCS
<1>1. ASSUME NEW c \in Cpus, AllocAcquire(c) \/ FreeAcquire(c)
      PROVE  ExclusiveBitmap'
  <2>1. ~lock /\ lock' = TRUE
    BY <1>1 DEF AllocAcquire, FreeAcquire, SpinlockAcquire
  <2>2. InCS(c)' /\ \A d \in Cpus \ {c} : InCS(d)' <=> InCS(d)
    BY <1>1 DEF AllocAcquire, FreeAcquire
  <2> QED
    BY <2>1, <2>2, ExclusiveEnter
<1>2. ASSUME NEW c \in Cpus, AllocDrop(c) \/ ZeroAllocDrop(c) \/ FreeDrop(c)
      PROVE  ExclusiveBitmap'
  <2>1. lock' = FALSE
    BY <1>2 DEF AllocDrop, ZeroAllocDrop, FreeDrop, SpinlockDrop
  <2>2. InCS(c) /\ ~InCS(c)' /\ \A d \in Cpus \ {c} : InCS(d)' <=> InCS(d)
    BY <1>2 DEF AllocDrop, ZeroAllocDrop, FreeDrop, Leave
  <2> QED
    BY <2>1, <2>2, ExclusiveLeave
<1>3. ASSUME NEW c \in Cpus,
             ScanUsed(c) \/ ScanFree(c) \/ ScanFound(c) \/ ScanEnd(c) \/ Fill(c) \/ Clear(c)
      PROVE  ExclusiveBitmap'
  <2>1. lock' = lock
    BY <1>3 DEF ScanUsed, ScanFree, ScanFound, ScanEnd, Fill, Clear
  <2>2. \A d \in Cpus : InCS(d)' <=> InCS(d)
    BY <1>3 DEF ScanUsed, ScanFree, ScanFound, ScanEnd, Fill, Clear
  <2> QED
    BY <2>1, <2>2, ExclusiveFrame
<1>4. ASSUME NEW c \in Cpus, Memset(c) \/ ZeroAllocReturn(c) \/ Call(c)
      PROVE  ExclusiveBitmap'
  <2>1. lock' = lock
    BY <1>4 DEF Memset, ZeroAllocReturn, Call, CallAlloc, CallFree
  <2>2. \A d \in Cpus : InCS(d)' <=> InCS(d)
    BY <1>4 DEF Memset, ZeroAllocReturn, Call, CallAlloc, CallFree, Leave
  <2> QED
    BY <2>1, <2>2, ExclusiveFrame
<1>5. ASSUME UNCHANGED vars \/ \E p \in Pages : Write(p)
      PROVE  ExclusiveBitmap'
  <2>1. lock' = lock /\ \A d \in Cpus : InCS(d)' <=> InCS(d)
    BY <1>5 DEF vars, Write
  <2> QED
    BY <2>1, ExclusiveFrame
<1> QED
  BY <1>1, <1>2, <1>3, <1>4, <1>5 DEF Next, Alloc, Free

\* Whatever the number of CPUs, at most one is at the bitmap, and the lock is
\* taken exactly while one is: no path drops it twice or forgets to drop it.
THEOREM MutualExclusion == Spec => []ExclusiveBitmap
BY TypeInvInit, TypeInvStep, ExclusiveInit, ExclusiveStep, PTL DEF Spec

-----------------------------------------------------------------------------
(* Accounting.  A page moves between four places: the bitmap's free bits,   *)
(* the run of an unfinished call, `owned', and Reserved, which it never     *)
(* leaves.  Each way a step moves pages is a lemma of its own.              *)

\* bitmapFind and the ghosts start from the same bitmap.
LEMMA AccountInit == Init => AccountInv
<1> SUFFICES ASSUME Init PROVE AccountInv
  OBVIOUS
<1>1. \A c \in Cpus : Held(c) = {}
  BY DEF Init, Held
<1>2. owned = {}
  BY DEF Init
<1>3. \A p \in Pages : bitmap[p] <=> p \in Reserved
  BY DEF Init, InitBitmap
<1> QED
  BY <1>1, <1>2, <1>3 DEF AccountInv, NoDoubleAllocation, NoPageLost

\* Steps that move no page.
LEMMA AccountFrame ==
  ASSUME AccountInv, bitmap' = bitmap, owned' = owned,
         \A d \in Cpus : Held(d)' = Held(d)
  PROVE  AccountInv'
BY DEF AccountInv, NoDoubleAllocation, NoPageLost

\* Free pages become a call's run.
LEMMA AccountGrant ==
  ASSUME AccountInv, NEW c \in Cpus, NEW S \in SUBSET Pages,
         \A p \in S : ~bitmap[p],
         \A p \in Pages : bitmap'[p] <=> bitmap[p] \/ p \in S,
         Held(c) = {}, Held(c)' = S,
         \A d \in Cpus \ {c} : Held(d)' = Held(d), owned' = owned
  PROVE  AccountInv'
<1>1. \A p \in S : p \notin Reserved \cup owned /\ \A d \in Cpus : p \notin Held(d)
  BY DEF AccountInv, NoPageLost
<1>2. NoPageLost'
  BY DEF AccountInv, NoPageLost
<1>3. NoDoubleAllocation'
  BY <1>1 DEF AccountInv, NoDoubleAllocation
<1> QED
  BY <1>2, <1>3 DEF AccountInv

\* A call's run becomes the caller's.
LEMMA AccountReceive ==
  ASSUME AccountInv, NEW c \in Cpus, bitmap' = bitmap,
         Held(c)' = {}, \A d \in Cpus \ {c} : Held(d)' = Held(d),
         owned' = owned \cup Held(c)
  PROVE  AccountInv'
<1>1. NoPageLost'
  BY DEF AccountInv, NoPageLost
<1>2. NoDoubleAllocation'
  BY DEF AccountInv, NoDoubleAllocation
<1>3. owned' \cap Reserved = {}
  BY DEF AccountInv, NoDoubleAllocation
<1> QED
  BY <1>1, <1>2, <1>3 DEF AccountInv

\* The caller gives pages back.
LEMMA AccountReturn ==
  ASSUME AccountInv, NEW c \in Cpus, NEW S \in SUBSET owned, bitmap' = bitmap,
         Held(c) = {}, Held(c)' = S,
         \A d \in Cpus \ {c} : Held(d)' = Held(d),
         owned' = owned \ S
  PROVE  AccountInv'
<1>1. NoPageLost'
  BY DEF AccountInv, NoPageLost
<1>2. NoDoubleAllocation'
  BY DEF AccountInv, NoDoubleAllocation
<1> QED
  BY <1>1, <1>2 DEF AccountInv

\* A call's run becomes free.
LEMMA AccountReclaim ==
  ASSUME AccountInv, NEW c \in Cpus,
         \A p \in Pages : bitmap'[p] <=> bitmap[p] /\ p \notin Held(c),
         Held(c)' = {}, \A d \in Cpus \ {c} : Held(d)' = Held(d), owned' = owned
  PROVE  AccountInv'
<1>1. NoPageLost'
  BY DEF AccountInv, NoPageLost, NoDoubleAllocation
<1>2. NoDoubleAllocation'
  BY DEF AccountInv, NoDoubleAllocation
<1> QED
  BY <1>1, <1>2 DEF AccountInv

\* Every statement moves no page or is one of the four moves above.
LEMMA AccountStep ==
  ASSUME TypeInv, AccountInv, \A c \in Cpus : FillInv(c), [Next]_vars
  PROVE  AccountInv'
<1> USE DEF Goto
<1>1. ASSUME NEW c \in Cpus, Fill(c) PROVE AccountInv'
  <2> DEFINE S == Run(start[c], pages[c])
  <2>1. S \in SUBSET Pages
    BY <1>1, RunInBitmap DEF Fill
  <2>2. \A p \in S : ~bitmap[p]
    BY <1>1 DEF Fill, FillInv
  <2>3. \A p \in Pages : bitmap'[p] <=> bitmap[p] \/ p \in S
    BY <1>1 DEF Fill, BitmapFill, Run, TypeInv, TypeOK
  <2>4. Held(c) = {} /\ Held(c)' = S /\ \A d \in Cpus \ {c} : Held(d)' = Held(d)
    BY <1>1 DEF Fill, Held, scanVars, callVars, TypeInv, TypeOK
  <2>5. owned' = owned
    BY <1>1 DEF Fill
  <2> QED
    BY <2>1, <2>2, <2>3, <2>4, <2>5, AccountGrant
<1>2. ASSUME NEW c \in Cpus, Clear(c) PROVE AccountInv'
  <2>1. \A p \in Pages : bitmap'[p] <=> bitmap[p] /\ p \notin Held(c)
    BY <1>2 DEF Clear, BitmapFill, Held, Run, TypeInv, TypeOK
  <2>2. Held(c)' = {} /\ \A d \in Cpus \ {c} : Held(d)' = Held(d)
    BY <1>2 DEF Clear, Held, scanVars, callVars, TypeInv, TypeOK
  <2>3. owned' = owned
    BY <1>2 DEF Clear
  <2> QED
    BY <2>1, <2>2, <2>3, AccountReclaim
<1>3. ASSUME NEW c \in Cpus, AllocDrop(c) \/ ZeroAllocReturn(c) PROVE AccountInv'
  <2>1. bitmap' = bitmap /\ owned' = owned \cup Held(c)
    BY <1>3 DEF AllocDrop, ZeroAllocReturn, Held
  <2>2. Held(c)' = {} /\ \A d \in Cpus \ {c} : Held(d)' = Held(d)
    BY <1>3 DEF AllocDrop, ZeroAllocReturn, Leave, Held, TypeInv, TypeOK
  <2> QED
    BY <2>1, <2>2, AccountReceive
<1>4. ASSUME NEW c \in Cpus, NEW p \in Pages, NEW n \in 1 .. MaxPages, CallFree(c, p, n)
      PROVE  AccountInv'
  <2>1. /\ Run(p, n) \in SUBSET owned
        /\ bitmap' = bitmap
        /\ owned' = owned \ Run(p, n)
    BY <1>4 DEF CallFree
  <2>2. /\ Held(c) = {}
        /\ Held(c)' = Run(p, n)
        /\ \A d \in Cpus \ {c} : Held(d)' = Held(d)
    BY <1>4 DEF CallFree, Held, TypeInv, TypeOK
  <2> QED
    BY <2>1, <2>2, AccountReturn
<1>5. ASSUME NEW c \in Cpus,
             \/ AllocAcquire(c) \/ ScanUsed(c) \/ ScanFree(c) \/ ScanFound(c) \/ ScanEnd(c)
             \/ ZeroAllocDrop(c) \/ Memset(c) \/ FreeAcquire(c) \/ FreeDrop(c)
             \/ \E n \in 1 .. MaxPages, z \in BOOLEAN : CallAlloc(c, n, z)
      PROVE  AccountInv'
  <2>1. bitmap' = bitmap /\ owned' = owned
    BY <1>5 DEF AllocAcquire, ScanUsed, ScanFree, ScanFound, ScanEnd, ZeroAllocDrop, Memset,
                FreeAcquire, FreeDrop, CallAlloc
  <2>2. Held(c)' = Held(c) /\ \A d \in Cpus \ {c} : Held(d)' = Held(d)
    BY <1>5 DEF AllocAcquire, ScanUsed, ScanFree, ScanFound, ScanEnd, ZeroAllocDrop, Memset,
                FreeAcquire, FreeDrop, CallAlloc, Leave, Held, scanVars, callVars, TypeInv, TypeOK
  <2> QED
    BY <2>1, <2>2, AccountFrame
<1>6. ASSUME UNCHANGED vars \/ \E p \in Pages : Write(p) PROVE AccountInv'
  <2>1. bitmap' = bitmap /\ owned' = owned /\ \A d \in Cpus : Held(d)' = Held(d)
    BY <1>6 DEF vars, Write, Held, scanVars, callVars
  <2> QED
    BY <2>1, AccountFrame
<1> QED
  BY <1>1, <1>2, <1>3, <1>4, <1>5, <1>6 DEF Next, Alloc, Free, Call

-----------------------------------------------------------------------------
(* The search. *)

\* Nobody searches at first.
LEMMA SearchInit == Init => \A c \in Cpus : SearchInv(c)
BY DEF Init, SearchInv, ScanInv, FillInv, OomInv

\* A CPU that does not move keeps what it knows while the bitmap stays.
LEMMA SearchFrame ==
  ASSUME NEW d \in Cpus, SearchInv(d), bitmap' = bitmap, pc'[d] = pc[d],
         start'[d] = start[d], pos'[d] = pos[d], pages'[d] = pages[d]
  PROVE  SearchInv(d)'
BY DEF SearchInv, ScanInv, FillInv, OomInv, FreeRun, Run

\* A CPU that is not searching has nothing to know.
LEMMA SearchVacuous ==
  ASSUME NEW d \in Cpus, pc'[d] \notin {"find", "fill", "halted"}
  PROVE  SearchInv(d)'
BY DEF SearchInv, ScanInv, FillInv, OomInv

\* A used bit: no run that crosses it is free, so the next candidate starts
\* behind it.
LEMMA ScanUsedSearch ==
  ASSUME TypeInv, NEW c \in Cpus, SearchInv(c), ScanUsed(c)
  PROVE  SearchInv(c)'
<1> USE BitsAssumption, MaxPagesAssumption
<1>1. /\ pos[c] \in Pages /\ pages[c] \in Nat /\ pages[c] > 0
      /\ pc[c] = "find" /\ pc' = pc /\ bitmap' = bitmap /\ pages' = pages
      /\ bitmap[pos[c]]
      /\ start'[c] = pos[c] + 1 /\ pos'[c] = pos[c] + 1
  BY DEF ScanUsed, TypeInv, TypeOK, CallInv, callVars, Pages
<1>2. \A p \in Pages : p + pages[c] <= pos[c] => \E q \in Run(p, pages[c]) : bitmap[q]
  BY <1>1 DEF SearchInv, ScanInv
<1>3. ASSUME NEW p \in Pages, p + pages[c] <= pos[c] + 1
      PROVE  \E q \in Run(p, pages[c]) : bitmap[q]
  <2>1. CASE p + pages[c] <= pos[c]
    BY <1>2, <2>1
  <2>2. CASE p + pages[c] = pos[c] + 1
    <3>1. pos[c] \in Run(p, pages[c])
      BY <1>1, <2>2 DEF Run, Pages
    <3> QED
      BY <1>1, <3>1
  <2> QED
    BY <1>1, <1>3, <2>1, <2>2 DEF Pages
<1>4. ScanInv(c)'
  BY <1>1, <1>3 DEF ScanInv, Pages, Run
<1>5. pc'[c] = "find"
  BY <1>1
<1> QED
  BY <1>4, <1>5 DEF SearchInv, FillInv, OomInv

\* A free bit: it joins the candidate run, and no run ends here.
LEMMA ScanFreeSearch ==
  ASSUME TypeInv, NEW c \in Cpus, SearchInv(c), ScanFree(c)
  PROVE  SearchInv(c)'
<1> USE BitsAssumption, MaxPagesAssumption
<1>1. /\ pos[c] \in Pages /\ start[c] \in Nat /\ pages[c] \in Nat
      /\ pc[c] = "find" /\ pc' = pc /\ bitmap' = bitmap /\ pages' = pages
      /\ ~bitmap[pos[c]]
      /\ start' = start /\ pos'[c] = pos[c] + 1
  BY DEF ScanFree, TypeInv, TypeOK, callVars, Pages
<1>2. start[c] + pages[c] > pos[c] + 1
  BY <1>1 DEF ScanFree, TypeInv, TypeOK, CallInv
<1>3. /\ \A q \in start[c] .. pos[c] - 1 : ~bitmap[q]
      /\ start[c] > 0 => bitmap[start[c] - 1]
      /\ \A p \in Pages : p + pages[c] <= pos[c] => \E q \in Run(p, pages[c]) : bitmap[q]
  BY <1>1 DEF SearchInv, ScanInv
<1>4. ASSUME NEW p \in Pages, p + pages[c] <= pos[c] + 1
      PROVE  \E q \in Run(p, pages[c]) : bitmap[q]
  <2>1. CASE p + pages[c] <= pos[c]
    BY <1>3, <2>1
  <2>2. CASE p + pages[c] = pos[c] + 1
    <3>1. start[c] > 0 /\ start[c] - 1 \in Run(p, pages[c])
      BY <1>1, <1>2, <2>2 DEF Run, Pages, TypeInv, TypeOK, CallInv
    <3> QED
      BY <1>3, <3>1
  <2> QED
    BY <1>1, <1>4, <2>1, <2>2 DEF Pages
<1>5. \A q \in start[c] .. pos[c] : ~bitmap[q]
  BY <1>1, <1>3 DEF Pages
<1>6. ScanInv(c)'
  BY <1>1, <1>3, <1>4, <1>5 DEF ScanInv, Pages, Run
<1>7. pc'[c] = "find"
  BY <1>1
<1> QED
  BY <1>6, <1>7 DEF SearchInv, FillInv, OomInv

\* The run bitmapFind returns is free and first, and its index is not 0: page
\* 0 is reserved, so pmmAlloc cannot mistake it for "none".
LEMMA ScanFoundSearch ==
  ASSUME TypeInv, AccountInv, NEW c \in Cpus, SearchInv(c), ScanFound(c)
  PROVE  SearchInv(c)'
<1> USE BitsAssumption, MaxPagesAssumption
<1>1. /\ pos[c] \in Pages /\ start[c] \in Nat /\ pages[c] \in Nat /\ pages[c] > 0
      /\ pc[c] = "find" /\ bitmap' = bitmap /\ pages' = pages /\ start' = start
      /\ ~bitmap[pos[c]]
      /\ start[c] + pages[c] = pos[c] + 1
  BY DEF ScanFound, TypeInv, TypeOK, CallInv, callVars, scanVars, Pages
<1>2. /\ \A q \in start[c] .. pos[c] - 1 : ~bitmap[q]
      /\ \A p \in Pages : p + pages[c] <= pos[c] => \E q \in Run(p, pages[c]) : bitmap[q]
  BY <1>1 DEF SearchInv, ScanInv
<1>3. \A q \in Run(start[c], pages[c]) : ~bitmap[q]
  BY <1>1, <1>2 DEF Run, Pages
<1>4. start[c] > 0
  <2>1. bitmap[0]
    BY ReservedAssumption DEF AccountInv, NoPageLost
  <2>2. start[c] = 0 => 0 \in Run(start[c], pages[c])
    BY <1>1 DEF Run
  <2> QED
    BY <1>1, <1>3, <2>1, <2>2
<1>5. ASSUME NEW p \in Pages, p < start[c]
      PROVE  \E q \in Run(p, pages[c]) : q \in Pages /\ bitmap[q]
  <2>1. p + pages[c] <= pos[c]
    BY <1>1, <1>5 DEF Pages
  <2>2. PICK q \in Run(p, pages[c]) : bitmap[q]
    BY <1>2, <2>1
  <2>3. q \in Pages
    BY <1>1, <2>1 DEF Run, Pages
  <2> QED
    BY <2>2, <2>3
<1>6. pc'[c] = "fill"
  BY <1>1, <1>4 DEF ScanFound, Goto, TypeInv, TypeOK
<1>7. FillInv(c)'
  BY <1>1, <1>3, <1>4, <1>5 DEF FillInv, Run
<1> QED
  BY <1>6, <1>7 DEF SearchInv, ScanInv, OomInv

\* After the last bit every run was passed.
LEMMA ScanEndSearch ==
  ASSUME TypeInv, NEW c \in Cpus, SearchInv(c), ScanEnd(c)
  PROVE  SearchInv(c)'
<1> USE BitsAssumption, MaxPagesAssumption
<1>1. /\ pages[c] \in Nat /\ pages[c] > 0
      /\ pc[c] = "find" /\ pc'[c] = "halted" /\ bitmap' = bitmap /\ pages' = pages
      /\ \A p \in Pages : p + pages[c] <= Bits => \E q \in Run(p, pages[c]) : bitmap[q]
  BY DEF ScanEnd, Goto, TypeInv, TypeOK, CallInv, callVars, SearchInv, ScanInv
<1>2. ASSUME NEW p \in Pages PROVE ~FreeRun(p, pages[c])
  <2>1. CASE p + pages[c] <= Bits
    BY <1>1, <2>1 DEF FreeRun
  <2>2. CASE p + pages[c] > Bits
    <3>1. Bits \in Run(p, pages[c]) /\ Bits \notin Pages
      BY <1>1, <2>2 DEF Run, Pages
    <3> QED
      BY <3>1 DEF FreeRun
  <2> QED
    BY <1>1, <2>1, <2>2 DEF Pages
<1>3. OomInv(c)'
  BY <1>1, <1>2 DEF OomInv, FreeRun, Run
<1> QED
  BY <1>1, <1>3 DEF SearchInv, ScanInv, FillInv

\* The scanning CPU keeps its loop invariant, and no other CPU can disturb it:
\* whoever writes the bitmap is inside the critical section itself.
LEMMA SearchStep ==
  ASSUME TypeInv, ExclusiveBitmap, AccountInv, \A c \in Cpus : SearchInv(c), [Next]_vars
  PROVE  \A c \in Cpus : SearchInv(c)'
<1> USE DEF TypeInv, TypeOK, Goto, callVars, scanVars
<1>1. ASSUME NEW c \in Cpus, Fill(c) \/ Clear(c), NEW d \in Cpus PROVE SearchInv(d)'
  <2>1. InCS(c)
    BY <1>1 DEF Fill, Clear, InCS
  <2>2. d # c => pc'[d] \notin {"find", "fill", "halted"}
    BY <1>1, <2>1 DEF Fill, Clear, ExclusiveBitmap, InCS
  <2>3. pc'[c] \notin {"find", "fill", "halted"}
    BY <1>1 DEF Fill, Clear
  <2> QED
    BY <2>2, <2>3, SearchVacuous
<1>2. ASSUME NEW c \in Cpus,
             ScanUsed(c) \/ ScanFree(c) \/ ScanFound(c) \/ ScanEnd(c),
             NEW d \in Cpus
      PROVE  SearchInv(d)'
  <2>1. d # c => SearchInv(d)'
    BY <1>2, SearchFrame DEF ScanUsed, ScanFree, ScanFound, ScanEnd
  <2>2. SearchInv(c)'
    BY <1>2, ScanUsedSearch, ScanFreeSearch, ScanFoundSearch, ScanEndSearch
  <2> QED
    BY <2>1, <2>2
<1>3. ASSUME NEW c \in Cpus, AllocAcquire(c), NEW d \in Cpus PROVE SearchInv(d)'
  <2>1. d # c => SearchInv(d)'
    BY <1>3, SearchFrame DEF AllocAcquire
  <2>2. /\ pc'[c] = "find" /\ start'[c] = 0 /\ pos'[c] = 0
        /\ pages'[c] \in Nat /\ pages'[c] > 0
    BY <1>3, MaxPagesAssumption DEF AllocAcquire, CallInv
  <2>3. SearchInv(c)'
    BY <2>2, BitsAssumption DEF SearchInv, ScanInv, FillInv, OomInv, Pages
  <2> QED
    BY <2>1, <2>3
<1>4. ASSUME NEW c \in Cpus,
             \/ AllocDrop(c) \/ ZeroAllocDrop(c) \/ Memset(c) \/ ZeroAllocReturn(c)
             \/ FreeAcquire(c) \/ FreeDrop(c) \/ Call(c),
             NEW d \in Cpus
      PROVE  SearchInv(d)'
  <2>1. d # c => SearchInv(d)'
    BY <1>4, SearchFrame
    DEF AllocDrop, ZeroAllocDrop, Memset, ZeroAllocReturn, FreeAcquire, FreeDrop, Call,
        CallAlloc, CallFree, Leave
  <2>2. pc'[c] \notin {"find", "fill", "halted"}
    BY <1>4
    DEF AllocDrop, ZeroAllocDrop, Memset, ZeroAllocReturn, FreeAcquire, FreeDrop, Call,
        CallAlloc, CallFree, Leave
  <2> QED
    BY <2>1, <2>2, SearchVacuous
<1>5. ASSUME UNCHANGED vars \/ \E p \in Pages : Write(p), NEW d \in Cpus
      PROVE  SearchInv(d)'
  BY <1>5, SearchFrame DEF vars, Write
<1> QED
  BY <1>1, <1>2, <1>3, <1>4, <1>5 DEF Next, Alloc, Free

-----------------------------------------------------------------------------
(* Zeroed pages. *)

\* The pages of a pmmZeroAlloc belong to nobody else until it returns, so no
\* write of the kernel lands in them after the memset.
LEMMA ZeroStep ==
  ASSUME TypeInv, AccountInv, ZeroedPagesAreZero, [Next]_vars
  PROVE  ZeroedPagesAreZero'
<1> USE DEF TypeInv, TypeOK, Goto, callVars, scanVars
<1>1. ASSUME NEW c \in Cpus, Alloc(c) \/ Free(c) \/ Call(c) PROVE ZeroedPagesAreZero'
  <2>1. clean \subseteq clean'
    BY <1>1
    DEF Alloc, Free, Call, AllocAcquire, ScanUsed, ScanFree, ScanFound, ScanEnd, Fill,
        AllocDrop, ZeroAllocDrop, Memset, ZeroAllocReturn, FreeAcquire, Clear, FreeDrop,
        CallAlloc, CallFree
  <2>2. ASSUME NEW d \in Cpus \ {c}
        PROVE  pc'[d] = pc[d] /\ start'[d] = start[d] /\ pages'[d] = pages[d]
    BY <1>1
    DEF Alloc, Free, Call, AllocAcquire, ScanUsed, ScanFree, ScanFound, ScanEnd, Fill,
        AllocDrop, ZeroAllocDrop, Memset, ZeroAllocReturn, FreeAcquire, Clear, FreeDrop,
        CallAlloc, CallFree, Leave
  <2>3. CASE Memset(c)
    <3>1. Run(start'[c], pages'[c]) \subseteq clean'
      BY <2>3 DEF Memset
    <3> QED
      BY <2>1, <2>2, <3>1 DEF ZeroedPagesAreZero, Run
  <2>4. CASE ~Memset(c)
    <3>1. pc'[c] # "zeroed"
      BY <1>1, <2>4
      DEF Alloc, Free, Call, AllocAcquire, ScanUsed, ScanFree, ScanFound, ScanEnd, Fill,
          AllocDrop, ZeroAllocDrop, ZeroAllocReturn, FreeAcquire, Clear, FreeDrop,
          CallAlloc, CallFree, Leave
    <3> QED
      BY <2>1, <2>2, <3>1 DEF ZeroedPagesAreZero, Run
  <2> QED
    BY <2>3, <2>4
<1>2. ASSUME NEW p \in Pages, Write(p) PROVE ZeroedPagesAreZero'
  <2>1. ASSUME NEW c \in Cpus, pc[c] = "zeroed" PROVE p \notin Run(start[c], pages[c])
    BY <1>2, <2>1 DEF Write, AccountInv, NoDoubleAllocation, Held
  <2> QED
    BY <1>2, <2>1 DEF Write, ZeroedPagesAreZero, Run
<1>3. CASE UNCHANGED vars
  BY <1>3 DEF vars, ZeroedPagesAreZero, Run
<1> QED
  BY <1>1, <1>2, <1>3 DEF Next

-----------------------------------------------------------------------------
(* The theorems. *)

\* The inductive invariant holds at first,
LEMMA IInvInit == Init => IInv
<1> SUFFICES ASSUME Init PROVE IInv
  OBVIOUS
<1>1. ZeroedPagesAreZero
  BY DEF Init, ZeroedPagesAreZero
<1> QED
  BY <1>1, TypeInvInit, ExclusiveInit, AccountInit, SearchInit DEF IInv

\* and every step keeps it,
LEMMA IInvStep == IInv /\ [Next]_vars => IInv'
<1> SUFFICES ASSUME IInv, [Next]_vars PROVE IInv'
  OBVIOUS
<1>1. \A c \in Cpus : FillInv(c)
  BY DEF IInv, SearchInv
<1>2. TypeInv' /\ ExclusiveBitmap' /\ ZeroedPagesAreZero'
  BY TypeInvStep, ExclusiveStep, ZeroStep DEF IInv
<1>3. AccountInv'
  BY <1>1, AccountStep DEF IInv
<1>4. \A c \in Cpus : SearchInv(c)'
  BY SearchStep DEF IInv
<1> QED
  BY <1>2, <1>3, <1>4 DEF IInv

\* so it holds in every reachable state.
LEMMA InductiveInvariant == Spec => []IInv
BY IInvInit, IInvStep, PTL DEF Spec

\* No two callers ever share a page, and none gets a page already in use or
\* reserved, however many CPUs allocate and free at once.
THEOREM NeverAllocatedTwice == Spec => []NoDoubleAllocation
<1>1. IInv => NoDoubleAllocation
  BY DEF IInv, AccountInv
<1> QED
  BY <1>1, InductiveInvariant, PTL

\* The bitmap accounts for every page at every moment.
THEOREM NeverLost == Spec => []NoPageLost
<1>1. IInv => NoPageLost
  BY DEF IInv, AccountInv
<1> QED
  BY <1>1, InductiveInvariant, PTL

\* "Out of memory" is never a lie: bitmapFind's 0 stands for no run only.
THEOREM OutOfMemoryIsGenuine == Spec => []OomIsGenuine
<1>1. IInv => OomIsGenuine
  BY DEF IInv, SearchInv, OomInv, OomIsGenuine
<1> QED
  BY <1>1, InductiveInvariant, PTL

\* The bounds assertions of bitmapFill never fail.
THEOREM BitmapAssertsHold == Spec => []AssertsHold
<1>1. IInv => AssertsHold
  BY BitsAssumption, MaxPagesAssumption DEF IInv, TypeInv, TypeOK, CallInv, AssertsHold
<1> QED
  BY <1>1, InductiveInvariant, PTL

\* Memory from pmmZeroAlloc is zero when the caller gets it.
THEOREM ZeroAllocZeroes == Spec => []ZeroedPagesAreZero
<1>1. IInv => ZeroedPagesAreZero
  BY DEF IInv
<1> QED
  BY <1>1, InductiveInvariant, PTL

\* A panicked CPU is inside the critical section for good, so the lock stays
\* taken and every statement that is still possible is outside it.
LEMMA PanickedStep ==
  ASSUME IInv, [Next]_vars, Panicked
  PROVE  bitmap' = bitmap /\ \A d \in Cpus : InCS(d)' <=> InCS(d)
<1>1. PICK h \in Cpus : pc[h] = "halted"
  BY DEF Panicked
<1>2. lock /\ \A d \in Cpus \ {h} : ~InCS(d)
  BY <1>1 DEF IInv, ExclusiveBitmap, InCS
<1>3. pc \in [Cpus -> Locations]
  BY DEF IInv, TypeInv, TypeOK
<1> USE <1>1, <1>2, <1>3 DEF Goto, InCS
<1>4. ASSUME NEW c \in Cpus, Alloc(c)
      PROVE  bitmap' = bitmap /\ \A d \in Cpus : InCS(d)' <=> InCS(d)
  <2>1. ~AllocAcquire(c) /\ ~ScanUsed(c) /\ ~ScanFree(c) /\ ~ScanFound(c) /\ ~ScanEnd(c)
    BY DEF AllocAcquire, SpinlockAcquire, ScanUsed, ScanFree, ScanFound, ScanEnd
  <2>2. ~Fill(c) /\ ~AllocDrop(c) /\ ~ZeroAllocDrop(c)
    BY DEF Fill, AllocDrop, ZeroAllocDrop
  <2>3. CASE Memset(c)
    BY <2>3 DEF Memset
  <2>4. CASE ZeroAllocReturn(c)
    BY <2>4 DEF ZeroAllocReturn, Leave
  <2> QED
    BY <1>4, <2>1, <2>2, <2>3, <2>4 DEF Alloc
<1>5. ASSUME NEW c \in Cpus PROVE ~Free(c)
  BY DEF Free, FreeAcquire, SpinlockAcquire, Clear, FreeDrop
<1>6. ASSUME NEW c \in Cpus, Call(c)
      PROVE  bitmap' = bitmap /\ \A d \in Cpus : InCS(d)' <=> InCS(d)
  BY <1>6 DEF Call, CallAlloc, CallFree
<1>7. ASSUME NEW p \in Pages, Write(p)
      PROVE  bitmap' = bitmap /\ \A d \in Cpus : InCS(d)' <=> InCS(d)
  BY <1>7 DEF Write
<1>8. CASE UNCHANGED vars
  BY <1>8 DEF vars
<1> QED
  BY <1>4, <1>5, <1>6, <1>7, <1>8 DEF Next

\* After one CPU ran out of memory nobody allocates or frees again: the panic
\* keeps pmmSpinlock, and every other CPU that calls the allocator spins.
THEOREM PanicIsFinal == Spec => PanicStopsAllocator
<1>1. IInv /\ [Next]_vars =>
        [Panicked => bitmap' = bitmap /\ \A c \in Cpus : InCS(c)' <=> InCS(c)]_vars
  BY PanickedStep
<1> QED
  BY <1>1, InductiveInvariant, PTL DEF Spec, PanicStopsAllocator
-----------------------------------------------------------------------------
(* Pmm implements PageAllocator for every value of the constants: the       *)
(* allocation takes effect at bitmapFill, the panic at the end of the scan, *)
(* and every other step of a call stutters or is the call's first or last.  *)

\* Only CPU c moves, as in every step of a call.
Local(c) ==
  \A d \in Cpus \ {c} :
    pc'[d] = pc[d] /\ pages'[d] = pages[d] /\ start'[d] = start[d]

\* The abstract variables of the other CPUs stay as they are.
LEMMA LocalStep ==
  ASSUME NEW c \in Cpus, Local(c)
  PROVE  /\ ops' = [ops EXCEPT ![c] = Op(c)']
         /\ wants' = [wants EXCEPT ![c] = Want(c)']
         /\ helds' = [helds EXCEPT ![c] = Held(c)']
<1>1. ASSUME NEW d \in Cpus, d # c
      PROVE  Op(d)' = Op(d) /\ Want(d)' = Want(d) /\ Held(d)' = Held(d)
  BY <1>1 DEF Local, Op, Want, Held, Run
<1> QED
  BY <1>1 DEF ops, wants, helds

\* A step of CPU c that the caller cannot see.
LEMMA InvisibleStep ==
  ASSUME NEW c \in Cpus, Local(c), bitmap' = bitmap, owned' = owned,
         Op(c)' = Op(c), Want(c)' = Want(c), Held(c)' = Held(c)
  PROVE  UNCHANGED Abstract!absVars
<1>1. ops' = ops /\ wants' = wants /\ helds' = helds
  BY LocalStep DEF ops, wants, helds
<1>2. freePages' = freePages
  BY DEF freePages
<1> QED
  BY <1>1, <1>2 DEF Abstract!absVars

\* The abstract runs that are free are the concrete ones.
LEMMA FreeRunsAgree ==
  ASSUME NEW n \in Nat \ {0}, NEW p \in Pages
  PROVE  p \in Abstract!FreeRuns(n) <=> FreeRun(p, n)
BY BitsAssumption DEF Abstract!FreeRuns, Abstract!Pages, Abstract!Run, FreeRun, Run, Pages, freePages

\* A CPU in the critical section that did not panic sees a working allocator.
LEMMA InsideIsAlive ==
  ASSUME IInv, NEW c \in Cpus, InCS(c), pc[c] # "halted"
  PROVE  Abstract!Alive
<1>1. \A d \in Cpus : pc[d] # "halted" /\ pc[d] \in Locations
  BY DEF IInv, TypeInv, TypeOK, ExclusiveBitmap, InCS
<1>2. \A d \in Cpus : Op(d) # "failed"
  BY <1>1 DEF Op, Locations
<1> QED
  BY <1>2 DEF Abstract!Alive, ops

\* The abstract operation of a CPU, one location after the other.
LEMMA OpCases ==
  ASSUME NEW c \in Cpus
  PROVE  /\ pc[c] \in {"idle", "freeDrop"} => Op(c) = "idle"
         /\ pc[c] \in {"allocAcquire", "find", "fill"} => Op(c) = "alloc"
         /\ pc[c] \in {"allocDrop", "memset", "zeroed"} => Op(c) = "granted"
         /\ pc[c] \in {"freeAcquire", "clear"} => Op(c) = "free"
         /\ pc[c] = "halted" => Op(c) = "failed"
BY Zenon DEF Op

\* What CPU c shows its caller at each location.
LEMMA Shown ==
  ASSUME NEW c \in Cpus
  PROVE  /\ pc[c] \in {"idle", "freeDrop"} => Want(c) = 0 /\ Held(c) = {}
         /\ pc[c] \in {"allocAcquire", "find", "fill", "halted"} =>
              Want(c) = pages[c] /\ Held(c) = {}
         /\ pc[c] \in {"allocDrop", "memset", "zeroed", "freeAcquire", "clear"} =>
              Want(c) = 0 /\ Held(c) = Run(start[c], pages[c])
BY OpCases DEF Want, Held


\* A statement of a call writes only the program counter and the locals of its
\* own CPU.
LEMMA CallIsLocal ==
  ASSUME IInv, NEW c \in Cpus, Alloc(c) \/ Free(c) \/ Call(c)
  PROVE  Local(c)
<1> USE DEF IInv, TypeInv, TypeOK, Local, Goto, callVars, scanVars
<1>1. CASE AllocAcquire(c) \/ ScanUsed(c) \/ ScanFree(c) \/ ScanFound(c) \/ ScanEnd(c)
  BY <1>1 DEF AllocAcquire, ScanUsed, ScanFree, ScanFound, ScanEnd
<1>2. CASE Fill(c) \/ AllocDrop(c) \/ ZeroAllocDrop(c) \/ Memset(c) \/ ZeroAllocReturn(c)
  BY <1>2 DEF Fill, AllocDrop, ZeroAllocDrop, Memset, ZeroAllocReturn, Leave
<1>3. CASE Free(c)
  BY <1>3 DEF Free, FreeAcquire, Clear, FreeDrop, Leave
<1>4. CASE Call(c)
  BY <1>4 DEF Call, CallAlloc, CallFree
<1> QED
  BY <1>1, <1>2, <1>3, <1>4 DEF Alloc

\* The scan and the steps around it are invisible until the fill.
LEMMA SimulateSearch ==
  ASSUME IInv, NEW c \in Cpus, Local(c),
         AllocAcquire(c) \/ ScanUsed(c) \/ ScanFree(c) \/ (ScanFound(c) /\ start[c] # 0)
  PROVE  UNCHANGED Abstract!absVars
<1>1. pc \in [Cpus -> Locations]
  BY DEF IInv, TypeInv, TypeOK
<1>2. /\ pc[c] \in {"allocAcquire", "find"} /\ pc'[c] \in {"find", "fill"}
      /\ bitmap' = bitmap /\ owned' = owned /\ pages' = pages
  BY <1>1 DEF AllocAcquire, ScanUsed, ScanFree, ScanFound, Goto, callVars, scanVars
<1>3. Op(c) = "alloc" /\ Want(c) = pages[c] /\ Held(c) = {}
  BY <1>2, OpCases, Shown
<1>4. Op(c)' = "alloc" /\ Want(c)' = pages[c] /\ Held(c)' = {}
  BY <1>2, OpCases, Shown DEF Op, Want, Held
<1> QED
  BY <1>2, <1>3, <1>4, InvisibleStep

\* The end of an unsuccessful scan is the abstract failure.
LEMMA SimulateFail ==
  ASSUME IInv, IInv', NEW c \in Cpus, Local(c),
         ScanEnd(c) \/ (ScanFound(c) /\ start[c] = 0)
  PROVE  Abstract!Fail(c)
<1>1. pc \in [Cpus -> Locations] /\ pages[c] \in Nat \ {0}
  BY MaxPagesAssumption DEF IInv, TypeInv, TypeOK, CallInv, ScanEnd, ScanFound
<1>2. /\ pc[c] = "find" /\ pc'[c] = "halted"
      /\ bitmap' = bitmap /\ owned' = owned /\ pages' = pages
  BY <1>1 DEF ScanEnd, ScanFound, Goto, callVars
<1>3. Op(c) = "alloc" /\ Want(c) = pages[c] /\ Held(c) = {}
  BY <1>2, OpCases, Shown
<1>4. Op(c)' = "failed" /\ Want(c)' = pages[c] /\ Held(c)' = {}
  BY <1>2 DEF Op, Want, Held
<1>5. \A p \in Pages : ~FreeRun(p, pages[c])
  BY <1>2 DEF IInv, SearchInv, OomInv, FreeRun
<1>6. Abstract!FreeRuns(pages[c]) = {}
  BY <1>1, <1>5, FreeRunsAgree DEF Abstract!FreeRuns, Abstract!Pages, Pages
<1>7. Abstract!Alive
  BY <1>2, InsideIsAlive DEF InCS
<1>8. /\ ops' = [ops EXCEPT ![c] = "failed"]
      /\ wants' = wants /\ helds' = helds /\ freePages' = freePages
  <2>1. wants' = [wants EXCEPT ![c] = Want(c)] /\ helds' = [helds EXCEPT ![c] = Held(c)]
    BY <1>3, <1>4, LocalStep
  <2> QED
    BY <1>2, <1>4, <2>1, LocalStep DEF wants, helds, freePages
<1>9. ops[c] = "alloc" /\ wants[c] = pages[c]
  BY <1>3 DEF ops, wants
<1> QED
  BY <1>2, <1>6, <1>7, <1>8, <1>9 DEF Abstract!Fail

\* bitmapFill of the run that was found is the abstract grant: the run is
\* free, and first-fit follows from what the scan passed.
LEMMA SimulateGrant ==
  ASSUME IInv, NEW c \in Cpus, Local(c), Fill(c)
  PROVE  Abstract!Grant(c)
<1>1. /\ pc \in [Cpus -> Locations] /\ bitmap \in [Pages -> BOOLEAN]
      /\ pages[c] \in Nat \ {0} /\ start[c] \in Nat /\ start[c] + pages[c] <= Bits
  BY BitsAssumption, MaxPagesAssumption DEF IInv, TypeInv, TypeOK, CallInv, Fill
<1>2. /\ pc[c] = "fill" /\ pc'[c] = "allocDrop"
      /\ owned' = owned /\ pages' = pages /\ start' = start
  BY <1>1 DEF Fill, Goto, callVars, scanVars
<1>3. Op(c) = "alloc" /\ Want(c) = pages[c] /\ Held(c) = {}
  BY <1>2, OpCases, Shown
<1>4. Op(c)' = "granted" /\ Want(c)' = 0 /\ Held(c)' = Run(start[c], pages[c])
  BY <1>2 DEF Op, Want, Held
<1>5. /\ start[c] \in Abstract!FreeRuns(pages[c])
      /\ \A q \in Abstract!FreeRuns(pages[c]) : start[c] <= q
  <2>1. FillInv(c)
    BY DEF IInv, SearchInv
  <2>2. start[c] \in Pages /\ FreeRun(start[c], pages[c])
    <3>1. start[c] \in Pages /\ Run(start[c], pages[c]) \subseteq Pages
      BY <1>1, BitsAssumption DEF Run, Pages
    <3> QED
      BY <1>2, <2>1, <3>1 DEF FillInv, FreeRun
  <2>3. ASSUME NEW q \in Abstract!FreeRuns(pages[c]) PROVE start[c] <= q
    <3>1. q \in Pages /\ FreeRun(q, pages[c])
      BY <1>1, FreeRunsAgree DEF Abstract!FreeRuns, Abstract!Pages, Pages
    <3>2. ~(q < start[c])
      BY <1>2, <2>1, <3>1 DEF FillInv, FreeRun
    <3> QED
      BY <1>1, <3>1, <3>2, BitsAssumption DEF Pages
  <2> QED
    BY <1>1, <2>2, <2>3, FreeRunsAgree
<1>6. freePages' = freePages \ Run(start[c], pages[c])
  <2>1. \A p \in Pages : bitmap'[p] <=> p \in Run(start[c], pages[c]) \/ bitmap[p]
    BY <1>1 DEF Fill, BitmapFill, Run
  <2> QED
    BY <2>1 DEF freePages
<1>7. Abstract!Alive
  BY <1>2, InsideIsAlive DEF InCS
<1>8. /\ ops' = [ops EXCEPT ![c] = "granted"]
      /\ wants' = [wants EXCEPT ![c] = 0]
      /\ helds' = [helds EXCEPT ![c] = Run(start[c], pages[c])]
  BY <1>4, LocalStep
<1>9. ops[c] = "alloc" /\ wants[c] = pages[c]
  BY <1>3 DEF ops, wants
<1> QED
  BY <1>2, <1>5, <1>6, <1>7, <1>8, <1>9 DEF Abstract!Grant, Abstract!Run, Abstract!FreeRuns, Run

\* The caller sees its pages when pmmAlloc or pmmZeroAlloc returns.
LEMMA SimulateReceive ==
  ASSUME IInv, NEW c \in Cpus, Local(c), AllocDrop(c) \/ ZeroAllocReturn(c)
  PROVE  Abstract!Receive(c)
<1>1. pc \in [Cpus -> Locations]
  BY DEF IInv, TypeInv, TypeOK
<1>2. /\ pc[c] \in {"allocDrop", "zeroed"} /\ pc'[c] = "idle"
      /\ bitmap' = bitmap /\ owned' = owned \cup Run(start[c], pages[c])
  BY <1>1 DEF AllocDrop, ZeroAllocReturn, Leave, Goto
<1>3. Op(c) = "granted" /\ Want(c) = 0 /\ Held(c) = Run(start[c], pages[c])
  BY <1>2, OpCases, Shown
<1>4. Op(c)' = "idle" /\ Want(c)' = 0 /\ Held(c)' = {}
  BY <1>2 DEF Op, Want, Held
<1>5. /\ ops' = [ops EXCEPT ![c] = "idle"] /\ helds' = [helds EXCEPT ![c] = {}]
      /\ wants' = [wants EXCEPT ![c] = Want(c)]
  BY <1>3, <1>4, LocalStep
<1>6. wants' = wants /\ freePages' = freePages
  BY <1>2, <1>5 DEF wants, freePages
<1>7. ops[c] = "granted" /\ helds[c] = Run(start[c], pages[c])
  BY <1>3 DEF ops, helds
<1> QED
  BY <1>2, <1>5, <1>6, <1>7 DEF Abstract!Receive

\* Dropping the lock, the memset and taking the lock to free show nothing.
LEMMA SimulateQuiet ==
  ASSUME IInv, NEW c \in Cpus, Local(c),
         ZeroAllocDrop(c) \/ Memset(c) \/ FreeAcquire(c) \/ FreeDrop(c)
  PROVE  UNCHANGED Abstract!absVars
<1>1. pc \in [Cpus -> Locations]
  BY DEF IInv, TypeInv, TypeOK
<1>2. bitmap' = bitmap /\ owned' = owned
  BY DEF ZeroAllocDrop, Memset, FreeAcquire, FreeDrop
<1>3. CASE ZeroAllocDrop(c) \/ Memset(c)
  <2>1. /\ pc[c] \in {"allocDrop", "memset"} /\ pc'[c] \in {"memset", "zeroed"}
        /\ pages' = pages /\ start' = start
    BY <1>1, <1>3 DEF ZeroAllocDrop, Memset, Goto, callVars, scanVars
  <2>2. Op(c) = "granted" /\ Want(c) = 0 /\ Held(c) = Run(start[c], pages[c])
    BY <2>1, OpCases, Shown
  <2>3. Op(c)' = "granted" /\ Want(c)' = 0 /\ Held(c)' = Run(start[c], pages[c])
    BY <2>1 DEF Op, Want, Held
  <2> QED
    BY <1>2, <2>2, <2>3, InvisibleStep
<1>4. CASE FreeAcquire(c)
  <2>1. /\ pc[c] = "freeAcquire" /\ pc'[c] = "clear" /\ pages' = pages /\ start' = start
    BY <1>1, <1>4 DEF FreeAcquire, Goto, callVars, scanVars
  <2>2. Op(c) = "free" /\ Want(c) = 0 /\ Held(c) = Run(start[c], pages[c])
    BY <2>1, OpCases, Shown
  <2>3. Op(c)' = "free" /\ Want(c)' = 0 /\ Held(c)' = Run(start[c], pages[c])
    BY <2>1 DEF Op, Want, Held
  <2> QED
    BY <1>2, <2>2, <2>3, InvisibleStep
<1>5. CASE FreeDrop(c)
  <2>1. pc[c] = "freeDrop" /\ pc'[c] = "idle"
    BY <1>1, <1>5 DEF FreeDrop, Leave, Goto
  <2>2. Op(c) = "idle" /\ Want(c) = 0 /\ Held(c) = {}
    BY <2>1, OpCases, Shown
  <2>3. Op(c)' = "idle" /\ Want(c)' = 0 /\ Held(c)' = {}
    BY <2>1 DEF Op, Want, Held
  <2> QED
    BY <1>2, <2>2, <2>3, InvisibleStep
<1> QED
  BY <1>3, <1>4, <1>5

\* bitmapFill with false is the abstract reclaim.
LEMMA SimulateReclaim ==
  ASSUME IInv, NEW c \in Cpus, Local(c), Clear(c)
  PROVE  Abstract!Reclaim(c)
<1>1. /\ pc \in [Cpus -> Locations] /\ bitmap \in [Pages -> BOOLEAN]
      /\ pages[c] \in Nat /\ start[c] \in Nat
  BY BitsAssumption, MaxPagesAssumption DEF IInv, TypeInv, TypeOK
<1>2. pc[c] = "clear" /\ pc'[c] = "freeDrop" /\ owned' = owned
  BY <1>1 DEF Clear, Goto
<1>3. Op(c) = "free" /\ Want(c) = 0 /\ Held(c) = Run(start[c], pages[c])
  BY <1>2, OpCases, Shown
<1>4. Op(c)' = "idle" /\ Want(c)' = 0 /\ Held(c)' = {}
  BY <1>2 DEF Op, Want, Held
<1>5. freePages' = freePages \cup Run(start[c], pages[c])
  <2>1. Run(start[c], pages[c]) \subseteq Pages
    BY <1>2, RunInBitmap DEF IInv
  <2>2. \A p \in Pages : bitmap'[p] <=> bitmap[p] /\ p \notin Run(start[c], pages[c])
    BY <1>1 DEF Clear, BitmapFill, Run
  <2> QED
    BY <2>1, <2>2 DEF freePages
<1>6. Abstract!Alive
  BY <1>2, InsideIsAlive DEF InCS
<1>7. /\ ops' = [ops EXCEPT ![c] = "idle"] /\ helds' = [helds EXCEPT ![c] = {}]
      /\ wants' = [wants EXCEPT ![c] = Want(c)]
  BY <1>3, <1>4, LocalStep
<1>8. wants' = wants
  BY <1>7 DEF wants
<1>9. ops[c] = "free" /\ helds[c] = Run(start[c], pages[c])
  BY <1>3 DEF ops, helds
<1> QED
  BY <1>2, <1>5, <1>6, <1>7, <1>8, <1>9 DEF Abstract!Reclaim

\* A call of pmmAlloc or pmmZeroAlloc is the abstract request.
LEMMA SimulateRequest ==
  ASSUME IInv, NEW c \in Cpus, Local(c),
         NEW n \in 1 .. MaxPages, NEW z \in BOOLEAN, CallAlloc(c, n, z)
  PROVE  Abstract!Request(c, n)
<1>1. pc \in [Cpus -> Locations] /\ pages \in [Cpus -> 0 .. MaxPages]
  BY DEF IInv, TypeInv, TypeOK
<1>2. /\ pc[c] = "idle" /\ pc'[c] = "allocAcquire" /\ pages'[c] = n
      /\ bitmap' = bitmap /\ owned' = owned
  BY <1>1 DEF CallAlloc, Goto
<1>3. Op(c) = "idle" /\ Held(c) = {}
  BY <1>2, OpCases, Shown
<1>4. Op(c)' = "alloc" /\ Want(c)' = n /\ Held(c)' = {}
  BY <1>2 DEF Op, Want, Held
<1>5. /\ ops' = [ops EXCEPT ![c] = "alloc"] /\ wants' = [wants EXCEPT ![c] = n]
      /\ helds' = [helds EXCEPT ![c] = Held(c)]
  BY <1>3, <1>4, LocalStep
<1>6. helds' = helds /\ freePages' = freePages
  BY <1>2, <1>5 DEF helds, freePages
<1>7. ops[c] = "idle"
  BY <1>3 DEF ops
<1> QED
  BY <1>2, <1>5, <1>6, <1>7 DEF Abstract!Request

\* A call of pmmFree is the abstract return.
LEMMA SimulateReturn ==
  ASSUME IInv, NEW c \in Cpus, Local(c),
         NEW p \in Pages, NEW n \in 1 .. MaxPages, CallFree(c, p, n)
  PROVE  Abstract!Return(c, p, n)
<1>1. /\ pc \in [Cpus -> Locations] /\ pages \in [Cpus -> 0 .. MaxPages]
      /\ start \in [Cpus -> 0 .. Bits]
  BY DEF IInv, TypeInv, TypeOK
<1>2. /\ pc[c] = "idle" /\ pc'[c] = "freeAcquire" /\ pages'[c] = n /\ start'[c] = p
      /\ bitmap' = bitmap /\ Run(p, n) \subseteq owned /\ owned' = owned \ Run(p, n)
  BY <1>1 DEF CallFree, Goto
<1>3. Op(c) = "idle" /\ Want(c) = 0
  BY <1>2, OpCases, Shown
<1>4. Op(c)' = "free" /\ Want(c)' = 0 /\ Held(c)' = Run(p, n)
  BY <1>2 DEF Op, Want, Held, Run
<1>5. /\ ops' = [ops EXCEPT ![c] = "free"] /\ helds' = [helds EXCEPT ![c] = Run(p, n)]
      /\ wants' = [wants EXCEPT ![c] = Want(c)]
  BY <1>3, <1>4, LocalStep
<1>6. wants' = wants /\ freePages' = freePages
  BY <1>2, <1>5 DEF wants, freePages
<1>7. ops[c] = "idle"
  BY <1>3 DEF ops
<1> QED
  BY <1>2, <1>5, <1>6, <1>7 DEF Abstract!Return, Abstract!Run, Run

\* Every step is an abstract step or shows nothing.
LEMMA Simulation ==
  ASSUME IInv, IInv', [Next]_vars
  PROVE  [Abstract!AbsNext]_(Abstract!absVars)
<1>1. ASSUME NEW c \in Cpus, Alloc(c)
      PROVE  [Abstract!AbsNext]_(Abstract!absVars)
  <2>1. Local(c)
    BY <1>1, CallIsLocal
  <2>2. CASE AllocAcquire(c) \/ ScanUsed(c) \/ ScanFree(c) \/ (ScanFound(c) /\ start[c] # 0)
    BY <2>1, <2>2, SimulateSearch
  <2>3. CASE ScanEnd(c) \/ (ScanFound(c) /\ start[c] = 0)
    BY <2>1, <2>3, SimulateFail DEF Abstract!AbsNext
  <2>4. CASE Fill(c)
    BY <2>1, <2>4, SimulateGrant DEF Abstract!AbsNext
  <2>5. CASE AllocDrop(c) \/ ZeroAllocReturn(c)
    BY <2>1, <2>5, SimulateReceive DEF Abstract!AbsNext
  <2>6. CASE ZeroAllocDrop(c) \/ Memset(c)
    BY <2>1, <2>6, SimulateQuiet
  <2>7. CASE ScanFound(c)
    <3>1. start[c] = 0 \/ start[c] # 0
      OBVIOUS
    <3> QED
      BY <2>2, <2>3, <2>7, <3>1
  <2> QED
    BY <1>1, <2>2, <2>3, <2>4, <2>5, <2>6, <2>7 DEF Alloc
<1>2. ASSUME NEW c \in Cpus, Free(c)
      PROVE  [Abstract!AbsNext]_(Abstract!absVars)
  <2>1. Local(c)
    BY <1>2, CallIsLocal
  <2>2. CASE FreeAcquire(c) \/ FreeDrop(c)
    BY <2>1, <2>2, SimulateQuiet
  <2>3. CASE Clear(c)
    BY <2>1, <2>3, SimulateReclaim DEF Abstract!AbsNext
  <2> QED
    BY <1>2, <2>2, <2>3 DEF Free
<1>3. ASSUME NEW c \in Cpus, Call(c)
      PROVE  [Abstract!AbsNext]_(Abstract!absVars)
  <2>1. Local(c)
    BY <1>3, CallIsLocal
  <2>2. ASSUME NEW n \in 1 .. MaxPages, NEW z \in BOOLEAN, CallAlloc(c, n, z)
        PROVE  Abstract!AbsNext
    BY <2>1, <2>2, SimulateRequest DEF Abstract!AbsNext
  <2>3. ASSUME NEW p \in Pages, NEW n \in 1 .. MaxPages, CallFree(c, p, n)
        PROVE  Abstract!AbsNext
    BY <2>1, <2>3, SimulateReturn DEF Abstract!AbsNext, Abstract!Pages, Pages
  <2> QED
    BY <1>3, <2>2, <2>3 DEF Call
<1>4. ASSUME NEW p \in Pages, Write(p)
      PROVE  UNCHANGED Abstract!absVars
  BY <1>4 DEF Write, callVars, scanVars, Abstract!absVars, ops, wants, freePages, helds,
              Op, Want, Held, Run
<1>5. CASE UNCHANGED vars
  BY <1>5 DEF vars, callVars, scanVars, Abstract!absVars, ops, wants, freePages, helds,
              Op, Want, Held, Run
<1> QED
  BY <1>1, <1>2, <1>3, <1>4, <1>5 DEF Next

\* At first nobody has a request and the free pages are the unreserved ones.
LEMMA InitMapsToInit == Init => Abstract!AbsInit
<1> SUFFICES ASSUME Init PROVE Abstract!AbsInit
  OBVIOUS
<1>1. \A c \in Cpus : Op(c) = "idle" /\ Want(c) = 0 /\ Held(c) = {}
  BY OpCases, Shown DEF Init
<1>2. freePages = Pages \ Reserved
  BY DEF Init, InitBitmap, freePages
<1> QED
  BY <1>1, <1>2 DEF Init, Abstract!AbsInit, Abstract!Pages, Pages, ops, wants, helds

\* Whatever the number of CPUs and pages, the allocator with its bitmap, scan
\* and lock behaves as one that answers each request in a single step, first
\* fit, and that fails only when no run is free, once and for all.
THEOREM AllocatorIsCorrect == Spec => ImplementsPageAllocator
<1>1. IInv /\ IInv' /\ [Next]_vars => [Abstract!AbsNext]_(Abstract!absVars)
  BY Simulation
<1> QED
  BY <1>1, InitMapsToInit, InductiveInvariant, PTL
  DEF Spec, ImplementsPageAllocator, Abstract!AbsSpec
=============================================================================
