--------------------------- MODULE PmmRefinement ---------------------------
(* Pmm implements PageAllocator: an allocation takes effect when            *)
(* bitmapFill sets its bits, a free when bitmapFill clears them.            *)
EXTENDS Pmm

\* Where CPU c's call stands for its caller.
Op(c) ==
  CASE pc[c] \in {"idle", "freeDrop"} -> "idle"
    [] pc[c] \in {"allocAcquire", "find", "fill"} -> "alloc"
    [] pc[c] \in {"allocDrop", "memset", "zeroed"} -> "granted"
    [] pc[c] \in {"freeAcquire", "clear"} -> "free"
    [] pc[c] = "halted" -> "failed"

Want(c) == IF Op(c) \in {"alloc", "failed"} THEN pages[c] ELSE 0

ops == [c \in Cpus |-> Op(c)]
wants == [c \in Cpus |-> Want(c)]
freePages == {p \in Pages : ~bitmap[p]}
helds == [c \in Cpus |-> Held(c)]

Abstract == INSTANCE PageAllocator WITH
  op <- ops, want <- wants, free <- freePages, held <- helds

\* Every behaviour of the allocator, its lock and its scan is one of the
\* abstract allocator: requests are answered at once, first fit, and an
\* allocation fails only for good and only for want of a free run.
ImplementsPageAllocator == Abstract!AbsSpec
=============================================================================
