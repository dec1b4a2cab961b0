---------------------------- MODULE PmmBootProofs ----------------------------
(* Proofs about pmmInit, for every memory map that keeps the boot loader's  *)
(* promise, every page size and every word size.                            *)
EXTENDS PmmBoot, TLAPS

-----------------------------------------------------------------------------
(* Pages and bytes.                                                         *)

LEMMA Quotient ==
  ASSUME NEW d \in Nat \ {0}, NEW a \in Nat
  PROVE  /\ a \div d \in Nat /\ a % d \in 0 .. d - 1
         /\ a = d * (a \div d) + (a % d)
  OBVIOUS

LEMMA ProductOrder ==
  ASSUME NEW d \in Nat \ {0}, NEW x \in Int, NEW y \in Int
  PROVE  x <= y <=> x * d <= y * d
<1>1. CASE x <= y
  <2>1. y - x \in Nat /\ (y - x) * d \in Nat /\ y * d = x * d + (y - x) * d
    BY <1>1
  <2> QED
    BY <1>1, <2>1
<1>2. CASE ~ (x <= y)
  <2>1. x - y - 1 \in Nat /\ (x - y - 1) * d \in Nat /\ x * d = y * d + d + (x - y - 1) * d
    BY <1>2
  <2> QED
    BY <1>2, <2>1
<1> QED
  BY <1>1, <1>2

\* The quotient is the greatest number whose product fits.
LEMMA QuotientIsGreatest ==
  ASSUME NEW d \in Nat \ {0}, NEW a \in Nat, NEW x \in Nat
  PROVE  x <= a \div d <=> x * d <= a
<1> DEFINE q == a \div d
<1>1. q \in Nat /\ q * d <= a /\ a < (q + 1) * d
  BY Quotient
<1> HIDE DEF q
<1>2. CASE x <= q
  BY <1>1, <1>2, ProductOrder
<1>3. CASE ~ (x <= q)
  <2>1. (q + 1) * d <= x * d
    BY <1>1, <1>3, ProductOrder
  <2>2. x * d \in Nat /\ (q + 1) * d \in Nat
    BY <1>1
  <2> QED
    BY <1>1, <1>3, <2>1, <2>2
<1> QED
  BY <1>2, <1>3 DEF q

\* DIV_ROUND_UP: the least number whose product is enough.
LEMMA RoundUp ==
  ASSUME NEW d \in Nat \ {0}, NEW a \in Nat
  PROVE  /\ DIV_ROUND_UP(a, d) \in Nat
         /\ a <= DIV_ROUND_UP(a, d) * d
         /\ DIV_ROUND_UP(a, d) * d < a + d
<1> DEFINE q == (a + d - 1) \div d
<1>1. a + d - 1 \in Nat
  OBVIOUS
<1>2. /\ q \in Nat /\ (a + d - 1) % d \in 0 .. d - 1
      /\ a + d - 1 = d * q + ((a + d - 1) % d)
  BY <1>1, Quotient
<1> HIDE DEF q
<1>3. q * d = d * q /\ d * q \in Nat
  BY <1>2
<1>4. a <= q * d /\ q * d < a + d
  BY <1>2, <1>3
<1> QED
  BY <1>2, <1>4 DEF q, DIV_ROUND_UP

LEMMA AlignedQuotient ==
  ASSUME NEW d \in Nat \ {0}, NEW a \in Nat, a % d = 0
  PROVE  a \div d \in Nat /\ a = (a \div d) * d
  BY Quotient

LEMMA ProductQuotient ==
  ASSUME NEW d \in Nat \ {0}, NEW x \in Nat
  PROVE  (x * d) \div d = x
<1>1. x * d \in Nat
  OBVIOUS
<1>2. x <= (x * d) \div d
  BY <1>1, QuotientIsGreatest
<1>3. ~ (x + 1 <= (x * d) \div d)
  <2>1. (x + 1) * d = x * d + d
    OBVIOUS
  <2> QED
    BY <1>1, <2>1, QuotientIsGreatest
<1>4. (x * d) \div d \in Nat
  BY <1>1, Quotient
<1> QED
  BY <1>2, <1>3, <1>4

-----------------------------------------------------------------------------
(* The entries of the memory map, in pages.                                 *)

Usable(k) == k \in DOMAIN mMap /\ mMap[k].usable

First(k) == mMap[k].base \div PAGE_SIZE

Behind(k) == (mMap[k].base + mMap[k].length) \div PAGE_SIZE

Run(k) == First(k) .. Behind(k) - 1

\* The condition under which Place takes an entry.
Holds(k) == Usable(k) /\ mMap[k].base # 0 /\ mMap[k].length >= bitmapSize

BitmapRun == bitmapAddr \div PAGE_SIZE .. bitmapAddr \div PAGE_SIZE + BitmapPages - 1

LEMMA EntryTypes ==
  ASSUME WellFormed(mMap), NEW k \in DOMAIN mMap
  PROVE  /\ mMap[k].base \in Nat /\ mMap[k].length \in Nat \ {0} /\ mMap[k].usable \in BOOLEAN
         /\ k \in Nat /\ k >= 1 /\ k <= Len(mMap) /\ Len(mMap) \in Nat
<1> DEFINE R == [base : Nat, length : Nat \ {0}, usable : BOOLEAN]
<1>1. mMap \in Seq(R)
  BY DEF WellFormed
<1> HIDE DEF R
<1>2. Len(mMap) \in Nat /\ DOMAIN mMap = 1 .. Len(mMap) /\ mMap[k] \in R
  BY <1>1
<1> QED
  BY <1>2 DEF R

LEMMA EntryPages ==
  ASSUME WellFormed(mMap), NEW k, Usable(k)
  PROVE  /\ First(k) \in Nat /\ Behind(k) \in Nat /\ First(k) < Behind(k)
         /\ mMap[k].base = First(k) * PAGE_SIZE
         /\ mMap[k].base + mMap[k].length = Behind(k) * PAGE_SIZE
<1> USE SizesAssumption
<1> DEFINE b == mMap[k].base
           n == mMap[k].length
           x == b \div PAGE_SIZE
           y == n \div PAGE_SIZE
<1>1. b \in Nat /\ n \in Nat \ {0} /\ b % PAGE_SIZE = 0 /\ n % PAGE_SIZE = 0
  BY EntryTypes DEF Usable, WellFormed
<1> HIDE DEF b, n
<1>2. x \in Nat /\ y \in Nat /\ b = x * PAGE_SIZE /\ n = y * PAGE_SIZE
  BY <1>1, AlignedQuotient
<1> HIDE DEF x, y
<1>3. y # 0
  BY <1>1, <1>2
<1>4. b + n = (x + y) * PAGE_SIZE
  BY <1>2
<1>5. (b + n) \div PAGE_SIZE = x + y
  BY <1>2, <1>4, ProductQuotient
<1>6. First(k) = x /\ Behind(k) = x + y
  BY <1>5 DEF First, Behind, b, n, x
<1> QED
  BY <1>2, <1>3, <1>4, <1>6 DEF b, n

\* Usable entries follow each other.
LEMMA EntriesSorted ==
  ASSUME WellFormed(mMap), NEW k, NEW j, Usable(k), Usable(j), k < j
  PROVE  mMap[k].base + mMap[k].length <= mMap[j].base + mMap[j].length
<1>1. /\ mMap[k].base + mMap[k].length <= mMap[j].base
      /\ mMap[j].base \in Nat /\ mMap[j].length \in Nat
      /\ mMap[k].base \in Nat /\ mMap[k].length \in Nat
  BY EntryTypes DEF WellFormed, Usable
<1> QED
  BY <1>1

-----------------------------------------------------------------------------
(* The inductive invariant, statement by statement.                         *)

\* No usable entry before index j ends behind `last'.
LastInv(j) ==
  \A k \in DOMAIN mMap : k < j /\ Usable(k) => mMap[k].base + mMap[k].length <= last

FreeBefore(j, p) == \E k \in DOMAIN mMap : k < j /\ Usable(k) /\ p \in Run(k)

Steps ==
  /\ pc = "last" => LastInv(i)
  /\ pc # "last" => LastInv(Len(mMap) + 1) /\ bitmapSize = BitmapCalculateSize(last \div PAGE_SIZE)
  /\ pc = "place" => \A k \in DOMAIN mMap : k < i => ~Holds(k)
  /\ pc = "outOfMemory" => \A k \in DOMAIN mMap : ~Holds(k)
  /\ pc \in {"last", "place", "outOfMemory"} => bitmapAddr = 0
  /\ pc \in {"last", "place", "outOfMemory", "init"} => bits = 0
  /\ pc \in {"init", "free", "pageZero", "done"} =>
       \E k \in DOMAIN mMap : Holds(k) /\ bitmapAddr = mMap[k].base
  /\ pc = "init" => i = 1
  /\ pc \in {"free", "pageZero", "done"} => bits = last \div PAGE_SIZE /\ bits > 0
  /\ pc = "free" => \A p \in 0 .. bits - 1 : p \notin used <=> FreeBefore(i, p)
  /\ pc = "pageZero" =>
       \A p \in 0 .. bits - 1 :
         p \notin used <=> FreeBefore(Len(mMap) + 1, p) /\ p \notin BitmapRun
  /\ pc = "done" =>
       \A p \in 0 .. bits - 1 :
         p \notin used <=> p # 0 /\ FreeBefore(Len(mMap) + 1, p) /\ p \notin BitmapRun
  /\ pc # "assert"

IInv == TypeOK /\ Steps

\* Every usable entry lies in the pages that the bitmap counts.
LEMMA EntryInBitmap ==
  ASSUME WellFormed(mMap), last \in Nat, LastInv(Len(mMap) + 1), NEW k, Usable(k)
  PROVE  Behind(k) <= last \div PAGE_SIZE
<1>1. k \in DOMAIN mMap /\ k < Len(mMap) + 1
  BY EntryTypes DEF Usable, WellFormed
<1>2. Behind(k) \in Nat /\ Behind(k) * PAGE_SIZE <= last
  BY <1>1, EntryPages DEF LastInv
<1> QED
  BY <1>2, QuotientIsGreatest, SizesAssumption

\* The pages of the bitmap's data are pages of the entry that holds it.
LEMMA BitmapInEntry ==
  ASSUME WellFormed(mMap), bitmapSize \in Nat, NEW k, Holds(k), bitmapAddr = mMap[k].base
  PROVE  /\ BitmapPages \in Nat
         /\ bitmapAddr \div PAGE_SIZE = First(k)
         /\ First(k) + BitmapPages <= Behind(k)
<1> USE SizesAssumption
<1> DEFINE q == BitmapPages
<1>1. /\ First(k) \in Nat /\ Behind(k) \in Nat /\ mMap[k].length \in Nat
      /\ mMap[k].base = First(k) * PAGE_SIZE
      /\ mMap[k].base + mMap[k].length = Behind(k) * PAGE_SIZE
  BY EntryPages, EntryTypes DEF Holds, Usable
<1>2. bitmapAddr \div PAGE_SIZE = First(k)
  BY DEF First
<1>3. q \in Nat /\ q * PAGE_SIZE < bitmapSize + PAGE_SIZE
  BY RoundUp DEF BitmapPages
<1> HIDE DEF q
<1>4. mMap[k].length >= bitmapSize
  BY DEF Holds
<1>5. (First(k) + q) * PAGE_SIZE < (Behind(k) + 1) * PAGE_SIZE
  <2>1. /\ (First(k) + q) * PAGE_SIZE = First(k) * PAGE_SIZE + q * PAGE_SIZE
        /\ (Behind(k) + 1) * PAGE_SIZE = Behind(k) * PAGE_SIZE + PAGE_SIZE
        /\ First(k) * PAGE_SIZE \in Nat /\ q * PAGE_SIZE \in Nat /\ Behind(k) * PAGE_SIZE \in Nat
    BY <1>1, <1>3
  <2> QED
    BY <1>1, <1>3, <1>4, <2>1
<1>6. ~ (Behind(k) + 1 <= First(k) + q)
  <2>1. /\ (First(k) + q) * PAGE_SIZE \in Int /\ (Behind(k) + 1) * PAGE_SIZE \in Int
    BY <1>1, <1>3
  <2> QED
    BY <1>1, <1>3, <1>5, <2>1, ProductOrder
<1> QED
  BY <1>1, <1>2, <1>3, <1>6 DEF q

LEMMA InvInit == Init => IInv
<1> SUFFICES ASSUME Init PROVE IInv
  OBVIOUS
<1> USE DEF Init
<1>1. WellFormed(mMap) /\ Len(mMap) \in Nat
  BY MemMapsAssumption DEF WellFormed
<1>2. TypeOK
  BY <1>1 DEF TypeOK
<1>3. LastInv(i)
  BY <1>1, EntryTypes DEF LastInv
<1> QED
  BY <1>2, <1>3 DEF IInv, Steps

\* The statements before the bitmap is there.
LEMMA SearchKeepsInv ==
  ASSUME IInv, FindLast \/ CalculateSize \/ Place \/ PlaceNone
  PROVE  IInv'
<1> USE SizesAssumption
<1>1. /\ TypeOK /\ Steps /\ WellFormed(mMap) /\ mMap' = mMap
      /\ i \in 1 .. Len(mMap) + 1 /\ Len(mMap) \in Nat
  <2>1. TypeOK /\ Steps /\ mMap' = mMap
    BY DEF IInv, FindLast, CalculateSize, Place, PlaceNone
  <2> QED
    BY <2>1 DEF TypeOK, WellFormed
<1>2. CASE FindLast
  <2> USE DEF FindLast, Entry
  <2>1. LastInv(i) /\ i \in DOMAIN mMap /\ pc = "last" /\ last \in Nat
    BY <1>1, <1>2 DEF Steps, TypeOK, WellFormed
  <2>2. mMap[i].base \in Nat /\ mMap[i].length \in Nat
    BY <1>1, <2>1, EntryTypes
  <2>3. last' \in Nat /\ i' = i + 1 /\ i' \in 1 .. Len(mMap) + 1
    BY <1>1, <1>2, <2>1, <2>2
  <2>4. LastInv(i)'
    <3> SUFFICES ASSUME NEW k \in DOMAIN mMap, k < i', Usable(k)
                 PROVE  mMap[k].base + mMap[k].length <= last'
      BY <1>1 DEF LastInv, Usable
    <3>1. k \in Nat
      BY <1>1, EntryTypes
    <3>2. mMap[k].base \in Nat /\ mMap[k].length \in Nat
      BY <1>1, EntryTypes
    <3>3. CASE k = i
      BY <1>2, <3>3 DEF Usable, Entry
    <3>4. CASE k # i
      <4>1. k < i
        BY <1>1, <2>3, <3>1, <3>4
      <4>2. mMap[k].base + mMap[k].length <= last
        BY <2>1, <4>1 DEF LastInv
      <4>3. CASE ~ mMap[i].usable
        BY <1>2, <4>2, <4>3
      <4>4. CASE mMap[i].usable
        BY <1>1, <1>2, <2>1, <4>1, <4>4, EntriesSorted DEF Usable
      <4> QED
        BY <4>3, <4>4
    <3> QED
      BY <3>3, <3>4
  <2>5. TypeOK'
    BY <1>1, <1>2, <2>3 DEF TypeOK
  <2>6. Steps'
    BY <1>1, <1>2, <2>1, <2>4 DEF Steps
  <2> QED
    BY <2>5, <2>6 DEF IInv
<1>3. CASE CalculateSize
  <2> USE DEF CalculateSize
  <2>1. LastInv(i) /\ i = Len(mMap) + 1 /\ last \in Nat
    BY <1>1, <1>3 DEF Steps, TypeOK
  <2>2. bitmapSize' \in Nat
    <3>1. last \div PAGE_SIZE \in Nat
      BY <2>1, Quotient
    <3>2. DIV_ROUND_UP(last \div PAGE_SIZE, WordBits) \in Nat
      BY <3>1, RoundUp
    <3>3. bitmapSize' = DIV_ROUND_UP(last \div PAGE_SIZE, WordBits) * WordBytes
      BY <1>3 DEF BitmapCalculateSize
    <3> HIDE DEF CalculateSize
    <3> QED
      BY <3>2, <3>3
  <2>3. TypeOK'
    BY <1>1, <1>3, <2>2 DEF TypeOK
  <2>4. LastInv(Len(mMap) + 1)'
    BY <1>3, <2>1 DEF LastInv, Usable
  <2>5. ~ \E k \in DOMAIN mMap : k < i'
    BY <1>1, <1>3, EntryTypes
  <2>6. bitmapSize' = BitmapCalculateSize(last' \div PAGE_SIZE)
    BY <1>3
  <2>7. Steps'
    BY <1>1, <1>3, <2>4, <2>5, <2>6 DEF Steps
  <2> QED
    BY <2>3, <2>7 DEF IInv
<1>4. CASE Place
  <2>1. /\ pc = "place" /\ i \in DOMAIN mMap /\ i <= Len(mMap)
        /\ UNCHANGED <<mMap, last, bitmapSize, bits, used>>
    BY <1>1, <1>4 DEF Place, WellFormed
  <2>2. /\ mMap[i].base \in Nat /\ mMap[i].length \in Nat
        /\ \A k \in DOMAIN mMap : k \in Nat
    BY <1>1, <2>1, EntryTypes
  <2>3. /\ bits = 0 /\ bitmapAddr = 0 /\ \A k \in DOMAIN mMap : k < i => ~Holds(k)
        /\ LastInv(Len(mMap) + 1)' /\ bitmapSize' = BitmapCalculateSize(last' \div PAGE_SIZE)
    BY <1>1, <2>1 DEF Steps, LastInv, Usable
  <2>4. \A k : Holds(k)' = Holds(k)
    BY <2>1 DEF Holds, Usable
  <2>5. CASE Entry.usable /\ Entry.base # 0 /\ Entry.length >= bitmapSize
    <3>1. bitmapAddr' = mMap[i].base /\ pc' = "init" /\ i' = 1
      BY <1>4, <2>5 DEF Place, Entry
    <3>2. \E k \in DOMAIN mMap : Holds(k)' /\ bitmapAddr' = mMap[k].base
      <4>1. Holds(i)
        BY <2>1, <2>5 DEF Holds, Usable, Entry
      <4>2. PICK k \in DOMAIN mMap : k = i
        BY <2>1
      <4>3. Holds(k)'
        BY <2>4, <4>1, <4>2
      <4> QED
        BY <3>1, <4>2, <4>3
    <3>3. TypeOK'
      BY <1>1, <2>1, <2>2, <3>1 DEF TypeOK
    <3>4. Steps'
      BY <1>1, <2>1, <2>3, <3>1, <3>2 DEF Steps
    <3> QED
      BY <3>3, <3>4 DEF IInv
  <2>6. CASE ~ (Entry.usable /\ Entry.base # 0 /\ Entry.length >= bitmapSize)
    <3>1. i' = i + 1 /\ UNCHANGED <<bitmapAddr, pc>>
      BY <1>4, <2>6 DEF Place
    <3>2. ~Holds(i)
      BY <2>6 DEF Holds, Usable, Entry
    <3>3. \A k \in DOMAIN mMap : k < i' => ~Holds(k)
      BY <1>1, <2>2, <2>3, <3>1, <3>2
    <3>4. TypeOK'
      BY <1>1, <2>1, <3>1 DEF TypeOK
    <3>5. Steps'
      BY <1>1, <2>1, <2>3, <2>4, <3>1, <3>3 DEF Steps
    <3> QED
      BY <3>4, <3>5 DEF IInv
  <2> QED
    BY <2>5, <2>6
<1>5. CASE PlaceNone
  <2> USE DEF PlaceNone
  <2>1. \A k \in DOMAIN mMap : k < i
    BY <1>1, <1>5, EntryTypes
  <2>2. \A k : Holds(k)' = Holds(k)
    BY <1>5 DEF Holds, Usable
  <2>3. LastInv(Len(mMap) + 1)'
    BY <1>1, <1>5 DEF Steps, LastInv, Usable
  <2>4. TypeOK'
    BY <1>1, <1>5 DEF TypeOK
  <2>5. Steps'
    BY <1>1, <1>5, <2>1, <2>2, <2>3 DEF Steps
  <2> QED
    BY <2>4, <2>5 DEF IInv
<1> QED
  BY <1>2, <1>3, <1>4, <1>5

\* bitmapInit and bitmapFillAll: the entry that holds the bitmap has a page.
LEMMA InitBitmapKeepsInv ==
  ASSUME IInv, InitBitmap
  PROVE  IInv'
<1> USE SizesAssumption
<1>1. /\ pc = "init" /\ bits' = last \div PAGE_SIZE /\ used' = 0 .. bits' - 1
      /\ pc' = (IF bits' > 0 THEN "free" ELSE "assert")
      /\ UNCHANGED <<mMap, i, last, bitmapSize, bitmapAddr>>
  BY DEF InitBitmap
<1>2. /\ TypeOK /\ WellFormed(mMap) /\ last \in Nat /\ i = 1 /\ LastInv(Len(mMap) + 1)
      /\ bitmapSize = BitmapCalculateSize(last \div PAGE_SIZE)
  BY <1>1 DEF IInv, TypeOK, Steps
<1>3. PICK k \in DOMAIN mMap : Holds(k) /\ bitmapAddr = mMap[k].base
  BY <1>1 DEF IInv, Steps
<1>4. bits' \in Nat /\ bits' > 0
  <2>1. First(k) \in Nat /\ Behind(k) \in Nat /\ First(k) < Behind(k)
    BY <1>2, <1>3, EntryPages DEF Holds
  <2>2. Behind(k) <= last \div PAGE_SIZE
    BY <1>2, <1>3, EntryInBitmap DEF Holds
  <2>3. last \div PAGE_SIZE \in Nat
    BY <1>2, Quotient
  <2> QED
    BY <1>1, <2>1, <2>2, <2>3
<1>5. TypeOK'
  BY <1>1, <1>2, <1>4 DEF TypeOK
<1>6. Holds(k)' /\ LastInv(Len(mMap) + 1)'
  BY <1>1, <1>2, <1>3 DEF Holds, Usable, LastInv
<1>7. \A p \in 0 .. bits' - 1 : p \in used' /\ ~ FreeBefore(i, p)'
  BY <1>1, <1>2, EntryTypes DEF FreeBefore
<1>8. Steps'
  BY <1>1, <1>2, <1>3, <1>4, <1>6, <1>7 DEF Steps
<1> QED
  BY <1>5, <1>8 DEF IInv

\* The loop that frees the usable entries.
LEMMA FreeEntryKeepsInv ==
  ASSUME IInv, FreeEntry
  PROVE  IInv'
<1> USE SizesAssumption
<1>1. /\ pc = "free" /\ i <= Len(mMap) /\ i' = i + 1
      /\ UNCHANGED <<mMap, last, bitmapSize, bitmapAddr, bits>>
  BY DEF FreeEntry
<1>2. /\ TypeOK /\ WellFormed(mMap) /\ last \in Nat /\ LastInv(Len(mMap) + 1)
      /\ bitmapSize = BitmapCalculateSize(last \div PAGE_SIZE)
      /\ bits \in Nat /\ bits = last \div PAGE_SIZE /\ bits > 0 /\ used \subseteq 0 .. bits - 1
      /\ i \in 1 .. Len(mMap) + 1
      /\ \A p \in 0 .. bits - 1 : p \notin used <=> FreeBefore(i, p)
  BY <1>1 DEF IInv, TypeOK, Steps
<1>3. PICK j \in DOMAIN mMap : Holds(j) /\ bitmapAddr = mMap[j].base
  BY <1>1 DEF IInv, Steps
<1>4. Len(mMap) \in Nat /\ i \in DOMAIN mMap /\ i \in Nat /\ mMap[i].usable \in BOOLEAN
  <2>1. Len(mMap) \in Nat /\ i \in DOMAIN mMap
    BY <1>1, <1>2 DEF WellFormed
  <2> QED
    BY <1>2, <2>1, EntryTypes
<1>5. /\ pc' = "free" /\ used' \subseteq used
      /\ \A p \in 0 .. bits - 1 : p \notin used' <=> p \notin used \/ (Usable(i) /\ p \in Run(i))
  <2>1. CASE mMap[i].usable
    <3>1. Usable(i) /\ mMap[i].base % PAGE_SIZE = 0
      BY <1>2, <1>4, <2>1 DEF Usable, WellFormed
    <3>2. First(i) \in Nat /\ Behind(i) \in Nat /\ First(i) < Behind(i) /\ Behind(i) <= bits
      BY <1>2, <3>1, EntryPages, EntryInBitmap
    <3>3. BitmapFill(First(i), Behind(i), FALSE, "free")
      BY <2>1, <3>1 DEF FreeEntry, Entry, First, Behind
    <3>4. pc' = "free" /\ used' = used \ Run(i)
      <4>1. First(i) < bits
        BY <1>2, <3>2
      <4> QED
        BY <3>2, <3>3, <4>1 DEF BitmapFill, Run
    <3> QED
      BY <3>1, <3>4
  <2>2. CASE ~ mMap[i].usable
    <3>1. UNCHANGED <<used, pc>>
      BY <2>2 DEF FreeEntry, Entry
    <3> QED
      BY <1>1, <2>2, <3>1 DEF Usable
  <2> QED
    BY <2>1, <2>2
<1>6. TypeOK'
  BY <1>1, <1>2, <1>4, <1>5 DEF TypeOK
<1>7. Holds(j)' /\ LastInv(Len(mMap) + 1)'
  BY <1>1, <1>2, <1>3 DEF Holds, Usable, LastInv
<1>8. ASSUME NEW p \in 0 .. bits - 1 PROVE p \notin used' <=> FreeBefore(i, p)'
  <2>1. FreeBefore(i, p)' <=> \E k \in DOMAIN mMap : k < i + 1 /\ Usable(k) /\ p \in Run(k)
    BY <1>1 DEF FreeBefore, Usable, Run, First, Behind
  <2>2. \A k \in DOMAIN mMap : k < i + 1 <=> k < i \/ k = i
    BY <1>2, <1>4, EntryTypes
  <2>3. FreeBefore(i, p)' <=> FreeBefore(i, p) \/ (Usable(i) /\ p \in Run(i))
    BY <1>4, <2>1, <2>2 DEF FreeBefore
  <2> QED
    BY <1>2, <1>5, <2>3
<1>9. Steps'
  BY <1>1, <1>2, <1>3, <1>5, <1>7, <1>8 DEF Steps
<1> QED
  BY <1>6, <1>9 DEF IInv

\* The bitmap's own pages, then page 0.
LEMMA ReserveKeepsInv ==
  ASSUME IInv, ReserveBitmap \/ ReservePageZero
  PROVE  IInv'
<1> USE SizesAssumption
<1>1. /\ pc \in {"free", "pageZero"}
      /\ UNCHANGED <<mMap, i, last, bitmapSize, bitmapAddr, bits>>
  BY DEF ReserveBitmap, ReservePageZero
<1>2. /\ TypeOK /\ WellFormed(mMap) /\ last \in Nat /\ LastInv(Len(mMap) + 1)
      /\ bitmapSize \in Nat /\ bitmapSize = BitmapCalculateSize(last \div PAGE_SIZE)
      /\ bits \in Nat /\ bits = last \div PAGE_SIZE /\ bits > 0 /\ used \subseteq 0 .. bits - 1
  BY <1>1 DEF IInv, TypeOK, Steps
<1>3. PICK j \in DOMAIN mMap : Holds(j) /\ bitmapAddr = mMap[j].base
  BY <1>1 DEF IInv, Steps
<1>4. Holds(j)' /\ LastInv(Len(mMap) + 1)'
  BY <1>1, <1>2, <1>3 DEF Holds, Usable, LastInv
<1>5. \A p : /\ FreeBefore(Len(mMap) + 1, p)' <=> FreeBefore(Len(mMap) + 1, p)
             /\ p \in BitmapRun' <=> p \in BitmapRun
  BY <1>1 DEF FreeBefore, Usable, Run, First, Behind, BitmapRun, BitmapPages
<1>6. CASE ReserveBitmap
  <2>1. pc = "free" /\ i > Len(mMap) /\ i \in 1 .. Len(mMap) + 1 /\ Len(mMap) \in Nat
    BY <1>2, <1>6 DEF ReserveBitmap, TypeOK, WellFormed
  <2>2. i = Len(mMap) + 1
    BY <2>1
  <2>3. \A p \in 0 .. bits - 1 : p \notin used <=> FreeBefore(Len(mMap) + 1, p)
    BY <2>1, <2>2 DEF IInv, Steps
  <2>4. /\ First(j) \in Nat /\ Behind(j) \in Nat /\ First(j) < Behind(j) /\ Behind(j) <= bits
        /\ BitmapPages \in Nat /\ bitmapAddr \div PAGE_SIZE = First(j)
        /\ First(j) + BitmapPages <= Behind(j)
    BY <1>2, <1>3, EntryPages, EntryInBitmap, BitmapInEntry DEF Holds
  <2>5. /\ pc' = "pageZero" /\ used' = used \cup BitmapRun
    <3> DEFINE x == bitmapAddr \div PAGE_SIZE
               y == x + BitmapPages
    <3>1. BitmapFill(x, y, TRUE, "pageZero")
      BY <1>6 DEF ReserveBitmap
    <3>2. x < bits /\ y <= bits /\ BitmapRun = x .. y - 1
      BY <1>2, <2>4 DEF BitmapRun
    <3> HIDE DEF x, y
    <3> QED
      BY <3>1, <3>2 DEF BitmapFill
  <2>6. BitmapRun \subseteq 0 .. bits - 1
    BY <1>2, <2>4 DEF BitmapRun
  <2>7. TypeOK'
    BY <1>1, <1>2, <2>5, <2>6 DEF TypeOK
  <2>8. Steps'
    BY <1>1, <1>2, <1>3, <1>4, <1>5, <2>3, <2>5 DEF Steps
  <2> QED
    BY <2>7, <2>8 DEF IInv
<1>7. CASE ReservePageZero
  <2>1. pc = "pageZero" /\ pc' = "done" /\ used' = used \cup {0}
    BY <1>7 DEF ReservePageZero
  <2>2. \A p \in 0 .. bits - 1 :
          p \notin used <=> FreeBefore(Len(mMap) + 1, p) /\ p \notin BitmapRun
    BY <2>1 DEF IInv, Steps
  <2>3. TypeOK'
    BY <1>1, <1>2, <2>1 DEF TypeOK
  <2>4. Steps'
    BY <1>1, <1>2, <1>3, <1>4, <1>5, <2>1, <2>2 DEF Steps
  <2> QED
    BY <2>3, <2>4 DEF IInv
<1> QED
  BY <1>6, <1>7

LEMMA InvHolds == Spec => []IInv
<1>1. ASSUME IInv, [Next]_vars PROVE IInv'
  <2>1. CASE UNCHANGED vars
    <3>1. TypeOK'
      BY <1>1, <2>1 DEF IInv, TypeOK, vars
    <3>2. /\ LastInv(i)' <=> LastInv(i)
          /\ LastInv(Len(mMap) + 1)' <=> LastInv(Len(mMap) + 1)
          /\ \A k : Holds(k)' <=> Holds(k)
          /\ \A p : /\ FreeBefore(i, p)' <=> FreeBefore(i, p)
                    /\ FreeBefore(Len(mMap) + 1, p)' <=> FreeBefore(Len(mMap) + 1, p)
                    /\ p \in BitmapRun' <=> p \in BitmapRun
      BY <2>1 DEF vars, LastInv, Holds, Usable, FreeBefore, Run, First, Behind, BitmapRun,
                  BitmapPages
    <3>3. Steps'
      BY <1>1, <2>1, <3>2 DEF IInv, Steps, vars
    <3> QED
      BY <3>1, <3>3 DEF IInv
  <2>2. CASE Next
    BY <1>1, <2>2, SearchKeepsInv, InitBitmapKeepsInv, FreeEntryKeepsInv, ReserveKeepsInv
    DEF Next
  <2> QED
    BY <1>1, <2>1, <2>2
<1> QED
  BY <1>1, InvInit, PTL DEF Spec

-----------------------------------------------------------------------------
(* What the invariant says of the result, in bytes.                         *)

\* A page is a page of a usable entry exactly if its bytes are.
LEMMA RunIsBytes ==
  ASSUME WellFormed(mMap), NEW k, Usable(k), NEW p \in Nat
  PROVE  p \in Run(k) <=> PageBytes(p) \subseteq Bytes(mMap[k])
<1> USE SizesAssumption
<1> DEFINE f == First(k)
           b == Behind(k)
<1>1. /\ f \in Nat /\ b \in Nat /\ Run(k) = f .. b - 1
      /\ Bytes(mMap[k]) = f * PAGE_SIZE .. b * PAGE_SIZE - 1
  <2>1. /\ f \in Nat /\ b \in Nat
        /\ mMap[k].base = f * PAGE_SIZE /\ mMap[k].base + mMap[k].length = b * PAGE_SIZE
    BY EntryPages
  <2> HIDE DEF f, b
  <2>2. Bytes(mMap[k]) = f * PAGE_SIZE .. b * PAGE_SIZE - 1
    <3>1. /\ Bytes(mMap[k]) = mMap[k].base .. (mMap[k].base + mMap[k].length) - 1
          /\ mMap[k].base \in Nat /\ mMap[k].length \in Nat
      BY EntryTypes DEF Bytes, Usable
    <3> QED
      BY <2>1, <3>1
  <2> QED
    BY <2>1, <2>2 DEF Run, f, b
<1> HIDE DEF f, b
<1>2. /\ p * PAGE_SIZE \in Nat /\ (p + 1) * PAGE_SIZE \in Nat
      /\ (p + 1) * PAGE_SIZE = p * PAGE_SIZE + PAGE_SIZE
      /\ f * PAGE_SIZE \in Nat /\ b * PAGE_SIZE \in Nat
  BY <1>1
<1>3. f <= p <=> f * PAGE_SIZE <= p * PAGE_SIZE
  BY <1>1, ProductOrder
<1>4. p + 1 <= b <=> (p + 1) * PAGE_SIZE <= b * PAGE_SIZE
  BY <1>1, ProductOrder
<1> DEFINE x == p * PAGE_SIZE
           y == (p + 1) * PAGE_SIZE
           v == f * PAGE_SIZE
           w == b * PAGE_SIZE
<1> HIDE DEF x, y, v, w
<1>5. x \in Nat /\ y \in Nat /\ v \in Nat /\ w \in Nat /\ y = x + PAGE_SIZE
  BY <1>2 DEF x, y, v, w
<1>6. (x .. y - 1) \subseteq (v .. w - 1) <=> v <= x /\ y <= w
  <2>1. x \in x .. y - 1 /\ y - 1 \in x .. y - 1
    BY <1>5
  <2>2. CASE v <= x /\ y <= w
    BY <1>5, <2>2
  <2>3. CASE (x .. y - 1) \subseteq (v .. w - 1)
    BY <1>5, <2>1, <2>3
  <2> QED
    BY <2>2, <2>3
<1>7. p \in Run(k) <=> f <= p /\ p + 1 <= b
  BY <1>1
<1> QED
  BY <1>1, <1>3, <1>4, <1>6, <1>7 DEF PageBytes, x, y, v, w

\* A page is one of the bitmap's exactly if it has a byte of its data.
LEMMA BitmapRunIsBytes ==
  ASSUME WellFormed(mMap), bitmapSize \in Nat, NEW k, Holds(k), bitmapAddr = mMap[k].base,
         NEW p \in Nat
  PROVE  p \notin BitmapRun <=> PageBytes(p) \cap BitmapBytes = {}
<1> USE SizesAssumption
<1> DEFINE f == First(k)
           q == BitmapPages
           x == p * PAGE_SIZE
           v == f * PAGE_SIZE
           z == q * PAGE_SIZE
<1>1. f \in Nat /\ q \in Nat /\ bitmapAddr = v /\ BitmapRun = f .. f + q - 1
  BY BitmapInEntry, EntryPages DEF BitmapRun, Holds
<1>2. bitmapSize <= z /\ z < bitmapSize + PAGE_SIZE
  BY RoundUp DEF BitmapPages
<1> HIDE DEF f, q
<1>3. x \in Nat /\ v \in Nat /\ z \in Nat /\ (p + 1) * PAGE_SIZE = x + PAGE_SIZE
  BY <1>1
<1>4. /\ p + 1 <= f <=> x + PAGE_SIZE <= v
      /\ f + q <= p <=> v + z <= x
  <2>1. p + 1 <= f <=> (p + 1) * PAGE_SIZE <= f * PAGE_SIZE
    BY <1>1, ProductOrder
  <2>2. f + q <= p <=> (f + q) * PAGE_SIZE <= p * PAGE_SIZE
    BY <1>1, ProductOrder
  <2>3. (f + q) * PAGE_SIZE = v + z
    BY <1>1
  <2> QED
    BY <1>3, <2>1, <2>2, <2>3
<1>5. p \notin BitmapRun <=> p + 1 <= f \/ f + q <= p
  BY <1>1
<1> HIDE DEF x, v, z
<1>6. PageBytes(p) = x .. x + PAGE_SIZE - 1 /\ BitmapBytes = v .. v + bitmapSize - 1
  BY <1>1, <1>3 DEF PageBytes, BitmapBytes, x
<1>7. ASSUME x + PAGE_SIZE <= v \/ v + z <= x
      PROVE  PageBytes(p) \cap BitmapBytes = {}
  BY <1>2, <1>3, <1>6, <1>7
<1>8. ASSUME ~ (x + PAGE_SIZE <= v), ~ (v + z <= x)
      PROVE  PageBytes(p) \cap BitmapBytes # {}
  <2>1. ~ (p + 1 <= f) /\ ~ (f + q <= p)
    BY <1>4, <1>8
  <2>2. f <= p /\ p + 1 <= f + q
    BY <1>1, <2>1
  <2>3. v <= x /\ x + PAGE_SIZE <= v + z
    <3>1. f * PAGE_SIZE <= p * PAGE_SIZE /\ (p + 1) * PAGE_SIZE <= (f + q) * PAGE_SIZE
      BY <1>1, <2>2, ProductOrder
    <3>2. (f + q) * PAGE_SIZE = v + z
      BY <1>1 DEF v, z
    <3> QED
      BY <1>3, <3>1, <3>2 DEF v, x
  <2>4. x \in PageBytes(p) /\ x \in BitmapBytes
    BY <1>2, <1>3, <1>6, <2>3
  <2> QED
    BY <2>4
<1> QED
  BY <1>4, <1>5, <1>7, <1>8

LEMMA InvFreeExact == IInv => FreePagesAreExact
<1> SUFFICES ASSUME IInv, pc = "done", NEW p \in 0 .. bits - 1
             PROVE  p \notin used <=>
                      /\ p # 0
                      /\ \E e \in UsableEntries : PageBytes(p) \subseteq Bytes(e)
                      /\ PageBytes(p) \cap BitmapBytes = {}
  BY DEF FreePagesAreExact
<1>1. /\ WellFormed(mMap) /\ bitmapSize \in Nat /\ p \in Nat
      /\ p \notin used <=> p # 0 /\ FreeBefore(Len(mMap) + 1, p) /\ p \notin BitmapRun
  BY DEF IInv, TypeOK, Steps
<1>2. PICK j \in DOMAIN mMap : Holds(j) /\ bitmapAddr = mMap[j].base
  BY DEF IInv, Steps
<1>3. p \notin BitmapRun <=> PageBytes(p) \cap BitmapBytes = {}
  BY <1>1, <1>2, BitmapRunIsBytes
<1>4. FreeBefore(Len(mMap) + 1, p) <=> \E k \in DOMAIN mMap : Usable(k) /\ p \in Run(k)
  BY <1>1, EntryTypes DEF FreeBefore
<1>5. (\E k \in DOMAIN mMap : Usable(k) /\ p \in Run(k))
        <=> \E k \in DOMAIN mMap : Usable(k) /\ PageBytes(p) \subseteq Bytes(mMap[k])
  BY <1>1, RunIsBytes
<1>6. (\E k \in DOMAIN mMap : Usable(k) /\ PageBytes(p) \subseteq Bytes(mMap[k]))
        <=> \E e \in UsableEntries : PageBytes(p) \subseteq Bytes(e)
  BY DEF UsableEntries, Usable
<1> QED
  BY <1>1, <1>3, <1>4, <1>5, <1>6

LEMMA InvBitmapFits == IInv => BitmapFits
<1> SUFFICES ASSUME IInv, bitmapAddr # 0
             PROVE  /\ \E e \in UsableEntries : BitmapBytes \subseteq Bytes(e)
                    /\ bitmapSize * WordBits >= bits * WordBytes
  BY DEF BitmapFits
<1> USE SizesAssumption
<1>1. /\ WellFormed(mMap) /\ last \in Nat /\ bitmapSize \in Nat /\ bits \in Nat
      /\ pc \in {"init", "free", "pageZero", "done"}
      /\ bitmapSize = BitmapCalculateSize(last \div PAGE_SIZE)
      /\ bits = 0 \/ bits = last \div PAGE_SIZE
  BY DEF IInv, TypeOK, Steps
<1>2. PICK j \in DOMAIN mMap : Holds(j) /\ bitmapAddr = mMap[j].base
  BY <1>1 DEF IInv, Steps
<1>3. BitmapBytes \subseteq Bytes(mMap[j]) /\ mMap[j] \in UsableEntries
  <2>1. mMap[j].base \in Nat /\ mMap[j].length \in Nat /\ mMap[j].length >= bitmapSize
    BY <1>1, <1>2, EntryTypes DEF Holds
  <2>2. mMap[j] \in UsableEntries
    BY <1>2 DEF UsableEntries, Holds, Usable
  <2> QED
    BY <1>1, <1>2, <2>1, <2>2 DEF BitmapBytes, Bytes
<1>4. bitmapSize * WordBits >= bits * WordBytes
  <2> DEFINE n == last \div PAGE_SIZE
             q == DIV_ROUND_UP(n, WordBits)
  <2>1. n \in Nat
    BY <1>1, Quotient
  <2> HIDE DEF n
  <2>2. q \in Nat /\ n <= q * WordBits
    BY <2>1, RoundUp
  <2>3. bitmapSize = q * WordBytes
    BY <1>1 DEF BitmapCalculateSize, n
  <2> HIDE DEF q
  <2>4. n * WordBytes <= (q * WordBits) * WordBytes
    <3>1. q * WordBits \in Int
      BY <2>2
    <3> QED
      BY <2>1, <2>2, <3>1, ProductOrder
  <2>5. (q * WordBits) * WordBytes = bitmapSize * WordBits
    BY <2>2, <2>3
  <2>6. n * WordBytes \in Nat /\ 0 * WordBytes = 0
    BY <2>1
  <2>7. bits = 0 \/ bits = n
    BY <1>1 DEF n
  <2> HIDE <1>1
  <2>8. bitmapSize * WordBits \in Int /\ n * WordBytes <= bitmapSize * WordBits
    BY <2>2, <2>3, <2>4, <2>5
  <2> QED
    BY <2>6, <2>7, <2>8
<1> QED
  BY <1>3, <1>4

LEMMA InvPanicJustified == IInv => PanicIsJustified
<1> SUFFICES ASSUME IInv, pc = "outOfMemory", NEW k \in DOMAIN mMap, mMap[k].usable
             PROVE  mMap[k].base = 0 \/ mMap[k].length < bitmapSize
  BY DEF PanicIsJustified, UsableEntries
<1>1. ~Holds(k) /\ WellFormed(mMap) /\ bitmapSize \in Nat
  BY DEF IInv, Steps, TypeOK
<1>2. mMap[k].length \in Nat
  BY <1>1, EntryTypes
<1> QED
  BY <1>1, <1>2 DEF Holds, Usable

-----------------------------------------------------------------------------
(* The theorems.                                                            *)

\* The variables of pmmInit keep their types; in particular the bits that are
\* set are bits of the bitmap.
THEOREM BootTyped == Spec => []TypeOK
  BY InvHolds, PTL DEF IInv

\* The allocator starts with exactly the usable pages that hold no byte of the
\* bitmap and are not page 0, whatever memory map the boot loader passes.
THEOREM BootFreesExactly == Spec => []FreePagesAreExact
  BY InvHolds, InvFreeExact, PTL

\* The bitmap is in one usable entry and large enough for all its bits.
THEOREM BitmapHasRoom == Spec => []BitmapFits
  BY InvHolds, InvBitmapFits, PTL

\* No assertion of bitmapInit and bitmapFill fails while the kernel starts.
THEOREM BootAssertsHold == Spec => []AssertsHold
<1>1. IInv => AssertsHold
  BY DEF IInv, Steps, AssertsHold
<1> QED
  BY <1>1, InvHolds, PTL

\* pmmInit panics only when no usable entry can hold the bitmap.
THEOREM BootPanicIsJustified == Spec => []PanicIsJustified
  BY InvHolds, InvPanicJustified, PTL
=============================================================================
