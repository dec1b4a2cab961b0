------------------------------ MODULE PmmBoot ------------------------------
(* pmmInit, src/kernel/src/mem/pmm.c:62-125: the memory map of the boot     *)
(* loader becomes the bitmap that Pmm starts from.  One step is one         *)
(* iteration of a loop or one statement between the loops.                  *)
(*                                                                          *)
(* A memory map is a sequence of entries [base, length, usable], in bytes.  *)
(* The boot loader is outside src/: the Limine protocol promises usable     *)
(* entries that are sorted, disjoint and made of whole pages.               *)
EXTENDS Integers, Sequences

CONSTANTS
  PAGE_SIZE,  \* bytes in a page
  WordBits,   \* bits in a word of the bitmap, 64 in the code
  WordBytes,  \* sizeof(u64)
  MemMaps     \* the memory maps the loader may pass

\* The boot loader's promise about one map.
WellFormed(m) ==
  /\ m \in Seq([base : Nat, length : Nat \ {0}, usable : BOOLEAN])
  /\ \A i \in DOMAIN m :
       m[i].usable => m[i].base % PAGE_SIZE = 0 /\ m[i].length % PAGE_SIZE = 0
  /\ \A i, j \in DOMAIN m :
       i < j /\ m[i].usable /\ m[j].usable => m[i].base + m[i].length <= m[j].base

ASSUME SizesAssumption ==
  PAGE_SIZE \in Nat \ {0} /\ WordBits \in Nat \ {0} /\ WordBytes \in Nat \ {0}
ASSUME MemMapsAssumption == \A m \in MemMaps : WellFormed(m)

VARIABLES
  mMap,        \* mMapRequest.response->entries
  pc,          \* the statement of pmmInit
  i,           \* the loop index, from 1
  last,        \* end of the last usable entry seen
  bitmapSize,  \* bytes of the bitmap's data
  bitmapAddr,  \* where the data goes; 0: no place yet
  bits,        \* bitmap->bits
  used         \* the pages whose bit is set

vars == <<mMap, pc, i, last, bitmapSize, bitmapAddr, bits, used>>

DIV_ROUND_UP(a, b) == (a + b - 1) \div b

Entry == mMap[i]

Init ==
  /\ mMap \in MemMaps
  /\ pc = "last"
  /\ i = 1
  /\ last = 0
  /\ bitmapSize = 0
  /\ bitmapAddr = 0
  /\ bits = 0
  /\ used = {}

\* Mutant: the first usable entry decides.
FindLast_KeepsFirst ==
  /\ pc = "last"
  /\ i <= Len(mMap)
  /\ last' = IF Entry.usable /\ last = 0 THEN Entry.base + Entry.length ELSE last
  /\ i' = i + 1
  /\ UNCHANGED <<mMap, pc, bitmapSize, bitmapAddr, bits, used>>

\* The end of the last usable entry in the order of the map.
FindLast ==
  /\ pc = "last"
  /\ i <= Len(mMap)
  /\ last' = IF Entry.usable THEN Entry.base + Entry.length ELSE last
  /\ i' = i + 1
  /\ UNCHANGED <<mMap, pc, bitmapSize, bitmapAddr, bits, used>>

BitmapCalculateSize(n) == DIV_ROUND_UP(n, WordBits) * WordBytes

CalculateSize ==
  /\ pc = "last"
  /\ i > Len(mMap)
  /\ bitmapSize' = BitmapCalculateSize(last \div PAGE_SIZE)
  /\ pc' = "place"
  /\ i' = 1
  /\ UNCHANGED <<mMap, last, bitmapAddr, bits, used>>

\* Mutant: the length of the entry is not looked at.
Place_AnyLength ==
  /\ pc = "place"
  /\ i <= Len(mMap)
  /\ IF Entry.usable /\ Entry.base # 0
     THEN bitmapAddr' = Entry.base /\ pc' = "init" /\ i' = 1
     ELSE i' = i + 1 /\ UNCHANGED <<bitmapAddr, pc>>
  /\ UNCHANGED <<mMap, last, bitmapSize, bits, used>>

\* Mutant: an entry as long as the bitmap is taken for too short.
Place_Longer ==
  /\ pc = "place"
  /\ i <= Len(mMap)
  /\ IF Entry.usable /\ Entry.base # 0 /\ Entry.length > bitmapSize
     THEN bitmapAddr' = Entry.base /\ pc' = "init" /\ i' = 1
     ELSE i' = i + 1 /\ UNCHANGED <<bitmapAddr, pc>>
  /\ UNCHANGED <<mMap, last, bitmapSize, bits, used>>

\* The first usable entry, not at address 0, that holds the bitmap's data.
Place ==
  /\ pc = "place"
  /\ i <= Len(mMap)
  /\ IF Entry.usable /\ Entry.base # 0 /\ Entry.length >= bitmapSize
     THEN bitmapAddr' = Entry.base /\ pc' = "init" /\ i' = 1
     ELSE i' = i + 1 /\ UNCHANGED <<bitmapAddr, pc>>
  /\ UNCHANGED <<mMap, last, bitmapSize, bits, used>>

PlaceNone ==
  /\ pc = "place"
  /\ i > Len(mMap)
  /\ pc' = "outOfMemory"
  /\ UNCHANGED <<mMap, i, last, bitmapSize, bitmapAddr, bits, used>>

\* Mutant: bitmapFillAll goes one bit too far.
InitBitmap_OneMore ==
  /\ pc = "init"
  /\ bits' = last \div PAGE_SIZE
  /\ used' = 0 .. bits'
  /\ pc' = IF bits' > 0 THEN "free" ELSE "assert"
  /\ UNCHANGED <<mMap, i, last, bitmapSize, bitmapAddr>>

\* bitmapInit, with its ASSERT(bits > 0), and bitmapFillAll(true).
InitBitmap ==
  /\ pc = "init"
  /\ bits' = last \div PAGE_SIZE
  /\ used' = 0 .. bits' - 1
  /\ pc' = IF bits' > 0 THEN "free" ELSE "assert"
  /\ UNCHANGED <<mMap, i, last, bitmapSize, bitmapAddr>>

\* bitmapFill, with its two ASSERTs; `next' is where pmmInit goes on.
BitmapFill(from, to, value, next) ==
  IF from < bits /\ to <= bits
  THEN /\ used' = IF value THEN used \cup from .. to - 1 ELSE used \ (from .. to - 1)
       /\ pc' = next
  ELSE pc' = "assert" /\ UNCHANGED used

FreeEntry ==
  /\ pc = "free"
  /\ i <= Len(mMap)
  /\ IF Entry.base % PAGE_SIZE = 0 /\ Entry.usable
     THEN BitmapFill(Entry.base \div PAGE_SIZE,
                     (Entry.base + Entry.length) \div PAGE_SIZE, FALSE, "free")
     ELSE UNCHANGED <<used, pc>>
  /\ i' = i + 1
  /\ UNCHANGED <<mMap, last, bitmapSize, bitmapAddr, bits>>

\* Mutant: rounded down.
BitmapPages_Floor == bitmapSize \div PAGE_SIZE

BitmapPages == DIV_ROUND_UP(bitmapSize, PAGE_SIZE)

\* The pages of the bitmap's data are not for allocation.
ReserveBitmap ==
  /\ pc = "free"
  /\ i > Len(mMap)
  /\ BitmapFill(bitmapAddr \div PAGE_SIZE,
                bitmapAddr \div PAGE_SIZE + BitmapPages, TRUE, "pageZero")
  /\ UNCHANGED <<mMap, i, last, bitmapSize, bitmapAddr, bits>>

ReservePageZero ==
  /\ pc = "pageZero"
  /\ used' = used \cup {0}
  /\ pc' = "done"
  /\ UNCHANGED <<mMap, i, last, bitmapSize, bitmapAddr, bits>>

Next ==
  \/ FindLast
  \/ CalculateSize
  \/ Place
  \/ PlaceNone
  \/ InitBitmap
  \/ FreeEntry
  \/ ReserveBitmap
  \/ ReservePageZero

Spec == Init /\ [][Next]_vars

-----------------------------------------------------------------------------
UsableEntries == {mMap[k] : k \in {k \in DOMAIN mMap : mMap[k].usable}}

Bytes(e) == e.base .. e.base + e.length - 1

PageBytes(p) == p * PAGE_SIZE .. (p + 1) * PAGE_SIZE - 1

BitmapBytes == bitmapAddr .. bitmapAddr + bitmapSize - 1

\* The variables have the types of the C variables they stand for.
TypeOK ==
  /\ WellFormed(mMap)
  /\ pc \in {"last", "place", "init", "free", "pageZero", "done", "outOfMemory", "assert"}
  /\ i \in 1 .. Len(mMap) + 1
  /\ {last, bitmapSize, bitmapAddr, bits} \subseteq Nat
  /\ used \subseteq 0 .. bits - 1

\* The allocator starts with exactly the pages that are usable memory, hold
\* no byte of the bitmap and are not page 0, the index that stands for "none".
FreePagesAreExact ==
  pc = "done" =>
    \A p \in 0 .. bits - 1 :
      p \notin used <=>
        /\ p # 0
        /\ \E e \in UsableEntries : PageBytes(p) \subseteq Bytes(e)
        /\ PageBytes(p) \cap BitmapBytes = {}

\* bitmapFillAll and every later bitmapSet write inside one usable entry,
\* and the words written are enough for every bit.
BitmapFits ==
  bitmapAddr # 0 =>
    /\ \E e \in UsableEntries : BitmapBytes \subseteq Bytes(e)
    /\ bitmapSize * WordBits >= bits * WordBytes

\* The bitmap covers the usable pages and is not empty: no ASSERT of
\* bitmap.c fails, whatever the memory map.
AssertsHold == pc # "assert"

\* pmmInit gives up only when no usable entry can hold the bitmap.
PanicIsJustified ==
  pc = "outOfMemory" =>
    \A e \in UsableEntries : e.base = 0 \/ e.length < bitmapSize
=============================================================================
