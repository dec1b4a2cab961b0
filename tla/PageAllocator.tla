--------------------------- MODULE PageAllocator ---------------------------
(* What the physical page allocator of src/kernel/src/mem/pmm.c promises    *)
(* its callers, with no bitmap, no scan and no lock: a request is answered  *)
(* in one step with the lowest free run of the wanted length, or the        *)
(* allocator fails for good because there is no such run.                   *)
EXTENDS Integers

CONSTANTS Cpus, Bits, Reserved, MaxPages

VARIABLES
  op,      \* op[c]: what CPU c is doing with the allocator
  want,    \* want[c]: how many pages an unanswered request asks for
  free,    \* the pages the allocator may hand out
  held,    \* held[c]: pages travelling between the allocator and CPU c
  owned    \* the pages the kernel may use

absVars == <<op, want, free, held, owned>>

Pages == 0 .. Bits - 1

Run(p, n) == p .. p + n - 1

FreeRuns(n) == {p \in Pages : p + n <= Bits /\ Run(p, n) \subseteq free}

Alive == \A c \in Cpus : op[c] # "failed"

AbsInit ==
  /\ op = [c \in Cpus |-> "idle"]
  /\ want = [c \in Cpus |-> 0]
  /\ free = Pages \ Reserved
  /\ held = [c \in Cpus |-> {}]
  /\ owned = {}

Request(c, n) ==
  /\ op[c] = "idle"
  /\ op' = [op EXCEPT ![c] = "alloc"]
  /\ want' = [want EXCEPT ![c] = n]
  /\ UNCHANGED <<free, held, owned>>

\* First fit: no lower run would have done.
Grant(c) ==
  /\ op[c] = "alloc"
  /\ Alive
  /\ \E p \in FreeRuns(want[c]) :
       /\ \A q \in FreeRuns(want[c]) : p <= q
       /\ free' = free \ Run(p, want[c])
       /\ held' = [held EXCEPT ![c] = Run(p, want[c])]
  /\ op' = [op EXCEPT ![c] = "granted"]
  /\ want' = [want EXCEPT ![c] = 0]
  /\ UNCHANGED owned

\* Out of memory is the only way to fail, and it is final for every CPU.
Fail(c) ==
  /\ op[c] = "alloc"
  /\ Alive
  /\ FreeRuns(want[c]) = {}
  /\ op' = [op EXCEPT ![c] = "failed"]
  /\ UNCHANGED <<want, free, held, owned>>

Receive(c) ==
  /\ op[c] = "granted"
  /\ op' = [op EXCEPT ![c] = "idle"]
  /\ held' = [held EXCEPT ![c] = {}]
  /\ owned' = owned \cup held[c]
  /\ UNCHANGED <<want, free>>

Return(c, p, n) ==
  /\ op[c] = "idle"
  /\ Run(p, n) \subseteq owned
  /\ op' = [op EXCEPT ![c] = "free"]
  /\ held' = [held EXCEPT ![c] = Run(p, n)]
  /\ owned' = owned \ Run(p, n)
  /\ UNCHANGED <<want, free>>

Reclaim(c) ==
  /\ op[c] = "free"
  /\ Alive
  /\ op' = [op EXCEPT ![c] = "idle"]
  /\ free' = free \cup held[c]
  /\ held' = [held EXCEPT ![c] = {}]
  /\ UNCHANGED <<want, owned>>

AbsNext ==
  \E c \in Cpus :
    \/ \E n \in 1 .. MaxPages : Request(c, n)
    \/ Grant(c)
    \/ Fail(c)
    \/ Receive(c)
    \/ \E p \in Pages, n \in 1 .. MaxPages : Return(c, p, n)
    \/ Reclaim(c)

AbsSpec == AbsInit /\ [][AbsNext]_absVars
=============================================================================
