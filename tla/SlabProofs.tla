----------------------------- MODULE SlabProofs -----------------------------
(* Proofs about a slab cache, for every number of CPUs and pages and every  *)
(* size of objects and pages.                                               *)
EXTENDS Slab, FiniteSetTheorems, SequenceTheorems, WellFoundedInduction, TLAPS

\* A set of natural numbers has a least element.
LEMMA LeastExists ==
  ASSUME NEW S \in SUBSET Nat, S # {}
  PROVE  \E m \in S : \A n \in S : m <= n
<1> DEFINE R == {p \in Nat \X Nat : p[1] < p[2]}
<1>1. IsWellFoundedOn(R, Nat)
  BY NatLessThanWellFounded DEF OpToRel
<1>2. PICK m \in S : \A n \in S : ~ (<<n, m>> \in R)
  BY <1>1, WFMin
<1>3. \A n \in S : ~ (n < m)
  BY <1>2
<1> QED
  BY <1>3

\* Min finds it.
LEMMA MinIsLeast ==
  ASSUME NEW S \in SUBSET Nat, S # {}
  PROVE  Min(S) \in S /\ \A n \in S : Min(S) <= n
  BY LeastExists DEF Min

\* The places of a concatenation.
LEMMA Joined ==
  ASSUME NEW T, NEW a \in Seq(T), NEW b \in Seq(T)
  PROVE  /\ a \o b \in Seq(T)
         /\ Len(a \o b) = Len(a) + Len(b)
         /\ \A i \in 1 .. Len(a) : (a \o b)[i] = a[i]
         /\ \A i \in 1 .. Len(b) : (a \o b)[Len(a) + i] = b[i]
  OBVIOUS

\* An element in front of a list.
LEMMA PrependedList ==
  ASSUME NEW T, NEW x \in T, NEW l \in Seq(T)
  PROVE  /\ <<x>> \o l \in Seq(T) /\ Len(<<x>> \o l) = Len(l) + 1
         /\ \A i \in DOMAIN (<<x>> \o l) :
              (<<x>> \o l)[i] = x \/ \E j \in DOMAIN l : (<<x>> \o l)[i] = l[j]
         /\ Range(<<x>> \o l) = Range(l) \cup {x}
<1> DEFINE m == <<x>> \o l
<1>1. m \in Seq(T) /\ Len(m) = Len(l) + 1 /\ Len(l) \in Nat
      /\ m[1] = x /\ \A i \in 1 .. Len(l) : m[i + 1] = l[i]
  OBVIOUS
<1>2. \A i \in 1 .. Len(m) : i = 1 \/ (i - 1 \in 1 .. Len(l) /\ m[i] = l[i - 1])
  BY <1>1
<1>3. DOMAIN m = 1 .. Len(m) /\ DOMAIN l = 1 .. Len(l)
  BY <1>1
<1> HIDE DEF m
<1>4. ASSUME NEW i \in DOMAIN m PROVE m[i] = x \/ \E j \in DOMAIN l : m[i] = l[j]
  BY <1>1, <1>2, <1>3
<1>5. ASSUME NEW j \in DOMAIN l PROVE \E i \in DOMAIN m : m[i] = l[j]
  <2>1. j + 1 \in DOMAIN m /\ m[j + 1] = l[j]
    BY <1>1, <1>3
  <2> QED
    BY <2>1
<1>6. \E i \in DOMAIN m : m[i] = x
  BY <1>1, <1>3
<1>7. Range(m) = Range(l) \cup {x}
  BY <1>4, <1>5, <1>6 DEF Range
<1> QED
  BY <1>1, <1>4, <1>7 DEF m

\* What a function iterated on a value gives: a recursion along the naturals
\* has a value.
LEMMA IterationExists ==
  ASSUME NEW A, NEW x \in A, NEW step \in [A -> A]
  PROVE  \E f \in [Nat -> A] : f[0] = x /\ \A j \in Nat : f[j + 1] = step[f[j]]
<1> DEFINE P(n) == {g \in [0 .. n -> A] : g[0] = x /\ \A j \in 0 .. n - 1 : g[j + 1] = step[g[j]]}
<1>1. ASSUME NEW n \in Nat PROVE P(n) # {}
  <2> DEFINE S == {k \in Nat : P(k) = {}}
  <2>1. SUFFICES ASSUME S # {} PROVE FALSE
    OBVIOUS
  <2>2. PICK m \in S : \A k \in S : m <= k
    BY <2>1, LeastExists
  <2>3. m # 0
    <3>1. [j \in 0 .. 0 |-> x] \in P(0)
      OBVIOUS
    <3> QED
      BY <2>2, <3>1
  <2>4. m - 1 \in Nat /\ m - 1 \notin S
    BY <2>2, <2>3
  <2>5. PICK g : g \in P(m - 1)
    BY <2>4
  <2> DEFINE h == [j \in 0 .. m |-> IF j = m THEN step[g[m - 1]] ELSE g[j]]
  <2>6. /\ h \in [0 .. m -> A] /\ h[0] = x
    BY <2>2, <2>3, <2>4, <2>5
  <2>7. ASSUME NEW j \in 0 .. m - 1 PROVE h[j + 1] = step[h[j]]
    BY <2>2, <2>3, <2>4, <2>5
  <2>8. h \in P(m)
    BY <2>6, <2>7
  <2> QED
    BY <2>2, <2>8
<1>2. ASSUME NEW n \in Nat, NEW g \in P(n), NEW k \in Nat, n <= k, NEW h \in P(k)
      PROVE  g[n] = h[n]
  <2> DEFINE S == {j \in 0 .. n : g[j] # h[j]}
  <2>1. SUFFICES ASSUME S # {} PROVE FALSE
    OBVIOUS
  <2>0. S \in SUBSET Nat
    OBVIOUS
  <2>2. PICK m \in S : \A j \in S : m <= j
    BY <2>0, <2>1, LeastExists
  <2>3. m # 0
    BY <2>2
  <2>4. m - 1 \in 0 .. n - 1 /\ m - 1 \in 0 .. k - 1 /\ m - 1 \notin S /\ (m - 1) + 1 = m
    BY <1>2, <2>2, <2>3
  <2>5. g[m] = step[g[m - 1]] /\ h[m] = step[h[m - 1]]
    BY <2>4
  <2>6. g[m - 1] = h[m - 1]
    BY <2>4
  <2> QED
    BY <2>2, <2>5, <2>6
<1> DEFINE c(n) == CHOOSE g : g \in P(n)
           f == [n \in Nat |-> c(n)[n]]
<1>3. \A n \in Nat : c(n) \in P(n)
  BY <1>1
<1> HIDE DEF c
<1>4. f \in [Nat -> A]
  <2>1. \A n \in Nat : c(n) \in [0 .. n -> A] /\ n \in 0 .. n
    BY <1>3
  <2> QED
    BY <2>1
<1>5. f[0] = x
  BY <1>3
<1>6. ASSUME NEW j \in Nat PROVE f[j + 1] = step[f[j]]
  <2>1. c(j + 1)[j + 1] = step[c(j + 1)[j]]
    BY <1>3
  <2>2. c(j) \in P(j) /\ c(j + 1) \in P(j + 1) /\ j + 1 \in Nat /\ j <= j + 1
    BY <1>3
  <2>3. c(j)[j] = c(j + 1)[j]
    <3> HIDE DEF P
    <3> QED
      BY <1>2, <2>2
  <2> QED
    BY <2>1, <2>3
<1> QED
  BY <1>4, <1>5, <1>6

-----------------------------------------------------------------------------
(* Words and slots.                                                         *)

\* A product keeps the order.
LEMMA TimesOrder ==
  ASSUME NEW d \in Nat \ {0}, NEW x \in Int, NEW y \in Int, x < y
  PROVE  x * d + d <= y * d
<1>1. y - x - 1 \in Nat /\ (y - x - 1) * d \in Nat /\ y * d = x * d + d + (y - x - 1) * d
  OBVIOUS
<1> QED
  BY <1>1

\* A word is given by its slot and its place in the slot.
LEMMA Digits ==
  ASSUME NEW k \in Nat, NEW j \in 0 .. ObjWords - 1
  PROVE  (k * ObjWords + j) \div ObjWords = k /\ (k * ObjWords + j) % ObjWords = j
<1> USE SizesAssumption
<1> DEFINE a == k * ObjWords + j
           q == a \div ObjWords
           r == a % ObjWords
<1>1. a \in Nat
  OBVIOUS
<1>2. q \in Nat /\ r \in 0 .. ObjWords - 1 /\ a = q * ObjWords + r
  BY <1>1
<1> HIDE DEF q, r
<1>3. k * ObjWords \in Nat /\ q * ObjWords \in Nat
  BY <1>2
<1>4. ~ (k < q)
  BY <1>2, <1>3, TimesOrder
<1>5. ~ (q < k)
  BY <1>2, <1>3, TimesOrder
<1>6. q = k
  BY <1>2, <1>4, <1>5
<1>7. r = j
  BY <1>2, <1>3, <1>6
<1> QED
  BY <1>6, <1>7 DEF q, r

LEMMA WordOfDigits ==
  ASSUME NEW w \in Nat
  PROVE  /\ w \div ObjWords \in Nat /\ w % ObjWords \in 0 .. ObjWords - 1
         /\ w = (w \div ObjWords) * ObjWords + (w % ObjWords)
         /\ (w \div ObjWords) * ObjWords \in Nat
  BY SizesAssumption

LEMMA SlotCount == objPerSlab \in Nat \ {0} /\ objPerSlab * ObjWords <= PageWords
<1> USE SizesAssumption
<1> DEFINE q == PageWords \div ObjWords
<1>1. q \in Nat /\ PageWords = q * ObjWords + (PageWords % ObjWords) /\ PageWords % ObjWords \in 0 .. ObjWords - 1
  OBVIOUS
<1> HIDE DEF q
<1>2. q # 0 /\ q * ObjWords \in Nat
  BY <1>1
<1>3. q * ObjWords <= PageWords
  BY <1>1, <1>2
<1> QED
  BY <1>1, <1>2, <1>3 DEF objPerSlab, q

-----------------------------------------------------------------------------
(* Lists.                                                                   *)

LEMMA InsertedList ==
  ASSUME NEW l \in Seq(Slabs), NEW s \in Slabs
  PROVE  /\ InsertFront(l, s) \in Seq(Slabs)
         /\ Range(InsertFront(l, s)) = Range(l) \cup {s}
         /\ IsInjective(l) /\ s \notin Range(l) => IsInjective(InsertFront(l, s))
<1> DEFINE m == <<s>> \o l
<1>1. m \in Seq(Slabs) /\ Len(m) = Len(l) + 1 /\ Len(l) \in Nat
      /\ m[1] = s /\ \A i \in 1 .. Len(l) : m[i + 1] = l[i]
  OBVIOUS
<1>2. \A i \in 1 .. Len(m) : i = 1 \/ (i - 1 \in 1 .. Len(l) /\ m[i] = l[i - 1])
  BY <1>1
<1>3. DOMAIN m = 1 .. Len(m) /\ DOMAIN l = 1 .. Len(l)
  BY <1>1
<1> HIDE DEF m
<1>4. Range(m) = Range(l) \cup {s}
  BY PrependedList DEF m
<1>5. ASSUME IsInjective(l), s \notin Range(l)
      PROVE  IsInjective(m)
  <2>1. \A i \in 1 .. Len(l) : l[i] # s
    BY <1>3, <1>5 DEF Range
  <2>2. SUFFICES ASSUME NEW i \in 1 .. Len(m), NEW j \in 1 .. Len(m), m[i] = m[j]
                 PROVE  i = j
    BY <1>3 DEF IsInjective
  <2>3. CASE i = 1 \/ j = 1
    BY <1>1, <1>2, <2>1, <2>2, <2>3
  <2>4. CASE i # 1 /\ j # 1
    <3>1. i - 1 \in DOMAIN l /\ j - 1 \in DOMAIN l /\ l[i - 1] = l[j - 1]
      BY <1>2, <1>3, <2>2, <2>4
    <3>2. i - 1 = j - 1
      BY <1>5, <3>1 DEF IsInjective
    <3> QED
      BY <1>1, <3>2
  <2> QED
    BY <2>3, <2>4
<1> QED
  BY <1>1, <1>4, <1>5 DEF m, InsertFront

LEMMA ReducedList ==
  ASSUME NEW l \in Seq(Slabs), IsInjective(l), NEW s
  PROVE  /\ Without(l, s) \in Seq(Slabs)
         /\ Range(Without(l, s)) = Range(l) \ {s}
         /\ IsInjective(Without(l, s))
<1>1. CASE s \notin Range(l)
  <2>1. ~ \E i \in 1 .. Len(l) : l[i] = s
    BY <1>1 DEF Range
  <2>2. Without(l, s) = l
    BY <2>1 DEF Without, RemoveFirst
  <2> QED
    BY <1>1, <2>2
<1>2. CASE s \in Range(l)
  <2> DEFINE I == {i \in 1 .. Len(l) : l[i] = s}
             n == Min(I)
             m == SubSeq(l, 1, n - 1) \o SubSeq(l, n + 1, Len(l))
  <2>1. I # {} /\ I \in SUBSET Nat
    BY <1>2 DEF Range
  <2>2. n \in 1 .. Len(l) /\ l[n] = s
    BY <2>1, MinIsLeast
  <2>3. Without(l, s) = m
    BY <2>1 DEF Without, RemoveFirst, RemoveAt, SelectInSeq
  <2> HIDE DEF n, m
  <2>4. Len(l) \in Nat /\ DOMAIN l = 1 .. Len(l)
    OBVIOUS
  <2> DEFINE a == SubSeq(l, 1, n - 1)
             b == SubSeq(l, n + 1, Len(l))
  <2>5. /\ a \in Seq(Slabs) /\ Len(a) = n - 1
        /\ \A i \in 1 .. n - 1 : a[i] = l[i]
    BY <2>2, <2>4
  <2>6. /\ b \in Seq(Slabs) /\ Len(b) = Len(l) - n
        /\ \A i \in 1 .. Len(l) - n : b[i] = l[n + i]
    <3>1. \A i \in n + 1 .. Len(l) : l[i] \in Slabs
      BY <2>2, <2>4
    <3>2. n + 1 \in Int /\ Len(l) \in Int
      BY <2>2, <2>4
    <3>3. /\ b \in Seq(Slabs) /\ Len(b) = IF n + 1 <= Len(l) THEN Len(l) - (n + 1) + 1 ELSE 0
          /\ \A i \in 1 .. Len(l) - (n + 1) + 1 : b[i] = l[n + 1 + i - 1]
      BY <3>1, <3>2, SubSeqProperties
    <3>4. Len(b) = Len(l) - n
      <4>1. Len(b) = IF n + 1 <= Len(l) THEN Len(l) - (n + 1) + 1 ELSE 0
        BY <3>3
      <4>2. n \in 1 .. Len(l)
        BY <2>2
      <4>3. CASE n + 1 <= Len(l)
        <5>1. Len(l) - (n + 1) + 1 = Len(l) - n
          BY <2>4, <4>2
        <5> QED
          BY <4>1, <4>3, <5>1
      <4>4. CASE ~ (n + 1 <= Len(l))
        <5>1. Len(l) - n = 0
          <6>1. n \in Int /\ Len(l) \in Int /\ n <= Len(l)
            BY <2>4, <4>2
          <6>2. ~ (n + 1 <= Len(l))
            BY <4>4
          <6> QED
            BY <6>1, <6>2
        <5> QED
          BY <4>1, <4>4, <5>1
      <4> QED
        BY <4>3, <4>4
    <3>5. ASSUME NEW i \in 1 .. Len(l) - n
          PROVE  b[i] = l[n + i]
      <4>1. n + 1 + i - 1 = n + i /\ i \in 1 .. (Len(l) - (n + 1) + 1)
        BY <2>2, <2>4
      <4> QED
        BY <3>3, <4>1
    <3> QED
      BY <3>3, <3>4, <3>5
  <2> HIDE DEF a, b
  <2>7. /\ m \in Seq(Slabs) /\ Len(m) = Len(l) - 1 /\ DOMAIN m = 1 .. Len(l) - 1
        /\ \A i \in 1 .. Len(l) - 1 : m[i] = l[IF i < n THEN i ELSE i + 1]
    <3>1. m = a \o b
      BY DEF a, b, m
    <3>2. /\ m \in Seq(Slabs) /\ Len(m) = Len(a) + Len(b)
          /\ \A i \in 1 .. Len(a) : m[i] = a[i]
          /\ \A i \in 1 .. Len(b) : m[Len(a) + i] = b[i]
      <4>1. a \in Seq(Slabs) /\ b \in Seq(Slabs)
        BY <2>5, <2>6
      <4> QED
        BY <3>1, <4>1, Joined
    <3>3. Len(m) = Len(l) - 1
      BY <2>2, <2>4, <2>5, <2>6, <3>2
    <3>4. DOMAIN m = 1 .. Len(l) - 1
      BY <3>2, <3>3
    <3>5. ASSUME NEW i \in 1 .. Len(l) - 1
          PROVE  m[i] = l[IF i < n THEN i ELSE i + 1]
      <4>1. CASE i < n
        BY <2>2, <2>5, <3>2, <4>1
      <4>2. CASE ~ (i < n)
        <5>1. i - (n - 1) \in 1 .. Len(l) - n /\ n - 1 + (i - (n - 1)) = i /\ n + (i - (n - 1)) = i + 1
          BY <2>2, <2>4, <4>2
        <5>2. m[n - 1 + (i - (n - 1))] = b[i - (n - 1)]
          BY <2>5, <2>6, <3>2, <5>1
        <5> QED
          BY <2>6, <4>2, <5>1, <5>2
      <4> QED
        BY <4>1, <4>2
    <3> QED
      BY <3>2, <3>3, <3>4, <3>5
  <2>8. \A i, j \in 1 .. Len(l) : l[i] = l[j] => i = j
    BY <2>4 DEF IsInjective
  <2>9. Range(m) = Range(l) \ {s}
    <3>1. ASSUME NEW i \in 1 .. Len(l) - 1
          PROVE  m[i] \in Range(l) \ {s}
      <4> DEFINE j == IF i < n THEN i ELSE i + 1
      <4>1. j \in 1 .. Len(l) /\ j # n /\ m[i] = l[j]
        BY <2>2, <2>4, <2>7
      <4> QED
        BY <2>2, <2>4, <2>8, <4>1 DEF Range
    <3>2. ASSUME NEW j \in 1 .. Len(l), l[j] # s
          PROVE  l[j] \in Range(m)
      <4> DEFINE i == IF j < n THEN j ELSE j - 1
      <4>1. i \in 1 .. Len(l) - 1 /\ m[i] = l[j]
        BY <2>2, <2>4, <2>7, <3>2
      <4> QED
        BY <2>7, <4>1 DEF Range
    <3> QED
      BY <2>4, <2>7, <3>1, <3>2 DEF Range
  <2>10. IsInjective(m)
    <3>1. SUFFICES ASSUME NEW i \in 1 .. Len(l) - 1, NEW j \in 1 .. Len(l) - 1, m[i] = m[j]
                   PROVE  i = j
      BY <2>7 DEF IsInjective
    <3> DEFINE p == IF i < n THEN i ELSE i + 1
               q == IF j < n THEN j ELSE j + 1
    <3>2. p \in 1 .. Len(l) /\ q \in 1 .. Len(l) /\ l[p] = l[q]
      BY <2>2, <2>4, <2>7, <3>1
    <3>3. p = q
      BY <2>8, <3>2
    <3> QED
      BY <2>2, <2>4, <3>3
  <2> QED
    BY <2>3, <2>7, <2>9, <2>10
<1> QED
  BY <1>1, <1>2

\* An injective list is as long as it has elements.
LEMMA ListLength ==
  ASSUME NEW l \in Seq(Slabs), IsInjective(l)
  PROVE  IsFiniteSet(Range(l)) /\ Cardinality(Range(l)) = Len(l) /\ Len(l) \in Nat
<1>1. Len(l) \in Nat /\ DOMAIN l = 1 .. Len(l) /\ l \in [1 .. Len(l) -> Range(l)]
  BY DEF Range
<1>2. IsFiniteSet(1 .. Len(l)) /\ Cardinality(1 .. Len(l)) = Len(l)
  BY <1>1, FS_Interval
<1>3. l \in Bijection(1 .. Len(l), Range(l))
  BY <1>1 DEF Bijection, Injection, Surjection, Range, IsInjective
<1>4. ExistsBijection(1 .. Len(l), Range(l))
  BY <1>3 DEF ExistsBijection
<1> QED
  BY <1>1, <1>2, <1>4, FS_Bijection

LEMMA HeadInList ==
  ASSUME NEW l \in Seq(Slabs), l # <<>>
  PROVE  Head(l) \in Range(l) /\ Head(l) \in Slabs
<1>1. Head(l) = l[1] /\ 1 \in DOMAIN l /\ l[1] \in Slabs
  OBVIOUS
<1> QED
  BY <1>1 DEF Range

\* The sizes of disjoint sets add up.
LEMMA SizeOfUnion ==
  ASSUME NEW A, NEW B, IsFiniteSet(A), IsFiniteSet(B), A \cap B = {}
  PROVE  IsFiniteSet(A \cup B) /\ Cardinality(A \cup B) = Cardinality(A) + Cardinality(B)
<1> DEFINE a == Cardinality(A)
           b == Cardinality(B)
           c == Cardinality(A \cup B)
<1>1. IsFiniteSet(A \cup B) /\ c = a + b - Cardinality(A \cap B)
  BY FS_Union
<1>2. Cardinality(A \cap B) = 0
  BY FS_EmptySet
<1>3. a \in Nat /\ b \in Nat
  BY FS_CardinalityType
<1>4. c = a + b - 0
  BY <1>1, <1>2
<1> HIDE DEF a, b, c
<1>5. c = a + b
  BY <1>3, <1>4
<1> QED
  BY <1>1, <1>5 DEF a, b, c

-----------------------------------------------------------------------------
(* The inductive invariant. *)

\* CPUs in whose hands an object is; a call that went astray keeps it.
Holding == {c \in Cpus : \/ pc[c] \in {"allocDrop", "freeAcquire", "free", "freeMove"}
                         \/ pc[c] = "astray" /\ result[c] # Data}

Locked == {c \in Cpus : pc[c] \in {"alloc", "grow", "growDrop", "take", "allocDrop", "free",
                                   "freeMove", "freeDrop", "halted", "astray"}}

Types ==
  /\ mem \in [Slabs -> [Words -> Addresses \cup {Data}]]
  /\ slab \in [Slabs -> [firstFree : Addresses \cup {Data}, usedObj : Nat]]
  /\ full \in Seq(Slabs) /\ partial \in Seq(Slabs) /\ empty \in Seq(Slabs)
  /\ lock \in BOOLEAN
  /\ pc \in [Cpus -> Locations]
  /\ chosen \in [Cpus -> Slabs \cup {NoSlab}]
  /\ result \in [Cpus -> ObjectAddresses \cup {Data}]
  /\ live \subseteq ObjectAddresses \X Users
  /\ strayed \in BOOLEAN

\* One CPU at a time is behind the lock, and none went astray unnoticed.
Exclusive ==
  /\ \A c \in Locked : lock
  /\ \A c, d \in Locked : c = d
  /\ \A c \in Cpus : pc[c] = "astray" => strayed

\* A slab is in one list, once.
OneList ==
  /\ IsInjective(full) /\ IsInjective(partial) /\ IsInjective(empty)
  /\ Range(full) \cap Range(partial) = {}
  /\ Range(full) \cap Range(empty) = {}
  /\ Range(partial) \cap Range(empty) = {}

\* What the CPU behind the lock works on.
Selection ==
  \A c \in Cpus :
    /\ pc[c] = "grow" => chosen[c] \in Slabs \ Listed
    /\ pc[c] = "take" => /\ chosen[c] \in Range(partial) \cup Range(empty)
                         /\ result[c] = slab[chosen[c]].firstFree
    /\ pc[c] = "allocDrop" => result[c] \in Addresses
    /\ pc[c] = "freeMove" => result[c] \in Addresses /\ chosen[c] = result[c][1]

\* A page that is no slab yet.
FreshPages ==
  \A s \in Slabs \ Listed : slab[s].usedObj = 0 /\ \A w \in Words : mem[s][w] = Data

\* However far objects have moved, no link leads into another page,
OwnLinks ==
  \A s \in Slabs :
    /\ slab[s].firstFree # Data => slab[s].firstFree[1] = s
    /\ \A w \in Words : mem[s][w] # Data => mem[s][w][1] = s

\* and objects come from slabs.
Places ==
  /\ \A h \in live : h[1][1] \in Listed
  /\ \A c \in Holding : result[c][1] \in Listed

Counted(s) ==
  slab[s].usedObj = Cardinality({h \in live : h[1][1] = s})
                  + Cardinality({c \in Holding : result[c][1] = s})

UseOfLists ==
  /\ \A s \in Range(full) : slab[s].usedObj = objPerSlab
  /\ \A s \in Range(partial) : slab[s].usedObj \in 1 .. objPerSlab - 1
  /\ \A s \in Range(empty) : slab[s].usedObj < objPerSlab

\* Nothing was freed: the slots are taken in their order, each by one user.
InOrder ==
  /\ \A s \in Listed :
       /\ slab[s].usedObj < objPerSlab => slab[s].firstFree = Slot(s, slab[s].usedObj)
       /\ \A k \in 0 .. objPerSlab - 2 :
            slab[s].usedObj <= k => mem[s][k * ObjWords] = Slot(s, k + 1)
       /\ \A k \in 0 .. slab[s].usedObj - 1 : Object(Slot(s, k)) \in Objects
  /\ \A a \in Objects :
       \E k \in 0 .. slab[a[1]].usedObj - 1 : a = Object(Slot(a[1], k)) /\ k < objPerSlab
  /\ \A g, h \in live : g[1] = h[1] => g = h
  /\ \A c \in Taken : Object(result[c]) \notin Held

\* Nothing is being freed before the first call of slabFree.
NobodyFrees ==
  \A c \in Cpus : pc[c] \notin {"freeAcquire", "free", "freeMove", "freeDrop"}

IInv ==
  /\ frees \in 0 .. MaxFrees
  /\ Types /\ Exclusive /\ OneList /\ Selection /\ FreshPages /\ OwnLinks /\ Places
  /\ \A s \in Listed : Counted(s)
  /\ UseOfLists
  /\ frees = 0 => InOrder /\ NobodyFrees

-----------------------------------------------------------------------------
(* Slots and words. *)

LEMMA NoAddress == Data \notin Addresses /\ Data \notin ObjectAddresses
  BY SlabsAssumption DEF Data, Addresses, ObjectAddresses

LEMMA AddressIsWord ==
  ASSUME NEW a \in Addresses
  PROVE  /\ a[1] \in Slabs /\ a[2] \in Words /\ a = <<a[1], a[2]>>
         /\ a \in ObjectAddresses /\ Object(a) \in ObjectAddresses /\ Object(a)[1] = a[1]
<1>1. a[1] \in Slabs /\ a[2] \in Words /\ a = <<a[1], a[2]>>
  BY DEF Addresses
<1>2. a[2] \in 0 .. PageWords /\ a[2] + 1 \in 0 .. PageWords
  BY <1>1, SizesAssumption DEF Words
<1>3. a \in ObjectAddresses
  BY <1>1, <1>2 DEF ObjectAddresses
<1> QED
  BY <1>1, <1>2, <1>3 DEF Object, ObjectAddresses

\* The slots of a page.
LEMMA SlotIsAddress ==
  ASSUME NEW s \in Slabs, NEW k \in 0 .. objPerSlab - 1
  PROVE  /\ Slot(s, k) \in Addresses /\ Slot(s, k)[1] = s /\ Slot(s, k)[2] = k * ObjWords
         /\ k * ObjWords + ObjWords <= PageWords /\ k * ObjWords \in Nat
         /\ Slot(s, k)[2] \div ObjWords = k /\ Slot(s, k)[2] % ObjWords = 0
<1> USE SizesAssumption, SlotCount
<1>1. k * ObjWords + ObjWords <= objPerSlab * ObjWords
  BY TimesOrder
<1>2. k * ObjWords \in Nat /\ objPerSlab * ObjWords \in Nat
  OBVIOUS
<1> DEFINE w == k * ObjWords
<1>3. w \div ObjWords = k /\ w % ObjWords = 0
  <2>1. 0 \in 0 .. ObjWords - 1 /\ w + 0 = w
    BY <1>2
  <2> QED
    BY <2>1, Digits
<1> HIDE DEF w
<1>4. Slot(s, k) = <<s, w>>
  BY DEF Slot, w
<1>5. w \in Words
  BY <1>1, <1>2 DEF Words, w
<1>6. w + ObjWords <= PageWords /\ w \in Nat /\ w = k * ObjWords
  BY <1>1, <1>2 DEF w
<1> QED
  BY <1>3, <1>4, <1>5, <1>6 DEF Addresses

\* Two slots are the same only with the same number.
LEMMA SlotsDiffer ==
  ASSUME NEW j \in Nat, NEW k \in Nat, j * ObjWords = k * ObjWords
  PROVE  j = k
<1> USE SizesAssumption
<1>1. ~ (j < k) /\ ~ (k < j)
  <2>1. ASSUME j < k PROVE FALSE
    BY <2>1, TimesOrder
  <2>2. ASSUME k < j PROVE FALSE
    BY <2>2, TimesOrder
  <2> QED
    BY <2>1, <2>2
<1> QED
  BY <1>1

LEMMA ListedIsSlab ==
  ASSUME Types, NEW s \in Listed
  PROVE  s \in Slabs
  BY DEF Types, Listed, Range

\* A write of a header.
LEMMA HeaderWritten ==
  ASSUME Types, NEW s \in Slabs, NEW f \in Addresses \cup {Data}, NEW u \in Nat,
         NEW n, n = [slab EXCEPT ![s].firstFree = f, ![s].usedObj = u]
  PROVE  /\ n \in [Slabs -> [firstFree : Addresses \cup {Data}, usedObj : Nat]]
         /\ n[s].firstFree = f /\ n[s].usedObj = u
         /\ \A t \in Slabs \ {s} : n[t] = slab[t]
<1> DEFINE A == Addresses \cup {Data}
<1>1. slab \in [Slabs -> [firstFree : A, usedObj : Nat]] /\ f \in A
  BY DEF Types
<1> HIDE DEF A
<1> DEFINE m == [slab EXCEPT ![s].firstFree = f]
<1>2. /\ m \in [Slabs -> [firstFree : A, usedObj : Nat]]
      /\ m[s].firstFree = f /\ \A t \in Slabs \ {s} : m[t] = slab[t]
  BY <1>1
<1>3. n = [m EXCEPT ![s].usedObj = u]
  OBVIOUS
<1> HIDE DEF m
<1>4. /\ n \in [Slabs -> [firstFree : A, usedObj : Nat]]
      /\ n[s].firstFree = f /\ n[s].usedObj = u /\ \A t \in Slabs \ {s} : n[t] = slab[t]
  <2> DEFINE r == [m[s] EXCEPT !.usedObj = u]
  <2>1. r \in [firstFree : A, usedObj : Nat] /\ r.firstFree = f /\ r.usedObj = u
    BY <1>2
  <2>2. n = [m EXCEPT ![s] = r]
    BY <1>3
  <2> HIDE DEF r
  <2> QED
    BY <1>2, <2>1, <2>2
<1> QED
  BY <1>4 DEF A

LEMMA LiveIsFinite ==
  ASSUME Types
  PROVE  /\ IsFiniteSet(live)
         /\ \A s : IsFiniteSet({h \in live : h[1][1] = s})
         /\ \A s : IsFiniteSet({c \in Holding : result[c][1] = s})
<1>1. IsFiniteSet(ObjectAddresses \X Users)
  <2>1. IsFiniteSet(0 .. PageWords) /\ IsFiniteSet(Users)
    BY FS_Interval, SizesAssumption, SlotCount DEF Users
  <2>2. IsFiniteSet(ObjectAddresses)
    BY <2>1, FS_Product, SlabsAssumption DEF ObjectAddresses
  <2> QED
    BY <2>1, <2>2, FS_Product
<1>2. IsFiniteSet(live)
  BY <1>1, FS_Subset DEF Types
<1>3. \A s : IsFiniteSet({h \in live : h[1][1] = s})
  BY <1>2, FS_Subset
<1>4. \A s : IsFiniteSet({c \in Holding : result[c][1] = s})
  BY CpusAssumption, FS_Subset DEF Holding
<1> QED
  BY <1>2, <1>3, <1>4

-----------------------------------------------------------------------------
(* The steps. *)

LEMMA InvInit == Init => IInv
<1> SUFFICES ASSUME Init PROVE IInv
  OBVIOUS
<1> USE DEF Init
<1>1. Listed = {}
  BY DEF Listed, Range
<1>2. Types
  <2>1. mem \in [Slabs -> [Words -> Addresses \cup {Data}]]
    OBVIOUS
  <2>2. slab \in [Slabs -> [firstFree : Addresses \cup {Data}, usedObj : Nat]]
    OBVIOUS
  <2>3. pc \in [Cpus -> Locations]
    BY DEF Locations
  <2>4. chosen \in [Cpus -> Slabs \cup {NoSlab}] /\ result \in [Cpus -> ObjectAddresses \cup {Data}]
    OBVIOUS
  <2>5. full \in Seq(Slabs) /\ partial \in Seq(Slabs) /\ empty \in Seq(Slabs)
    OBVIOUS
  <2>6. lock \in BOOLEAN /\ live \subseteq ObjectAddresses \X Users /\ strayed \in BOOLEAN
    OBVIOUS
  <2> HIDE DEF Init
  <2> QED
    BY <2>1, <2>2, <2>3, <2>4, <2>5, <2>6 DEF Types
<1>3. OneList
  BY DEF OneList, IsInjective, Range
<1>4. UseOfLists
  BY DEF UseOfLists, Range
<1>5. Objects = {} /\ Holding = {} /\ Locked = {} /\ Taken = {}
  BY DEF Objects, Held, Taken, Holding, Locked
<1>6. FreshPages /\ OwnLinks
  BY DEF FreshPages, OwnLinks
<1> QED
  BY <1>1, <1>2, <1>3, <1>4, <1>5, <1>6, MaxFreesAssumption
  DEF IInv, Exclusive, Selection, Places, InOrder, NobodyFrees

\* A step of a call that touches no slab, list or object.
LEMMA CallStep ==
  ASSUME IInv, UNCHANGED <<mem, slab, lists, live, frees>>,
         Holding' = Holding, Taken' = Taken, \A c \in Holding : result'[c] = result[c],
         Types', Exclusive', Selection', NobodyFrees => NobodyFrees'
  PROVE  IInv'
<1> USE DEF IInv, lists
<1>1. Listed' = Listed
  BY DEF Listed
<1>2. OneList' /\ UseOfLists' /\ FreshPages' /\ OwnLinks'
  BY <1>1 DEF OneList, UseOfLists, FreshPages, OwnLinks
<1>3. Places'
  BY <1>1 DEF Places
<1>4. ASSUME NEW s \in Listed'
      PROVE  Counted(s)'
  <2>1. {c \in Holding' : result'[c][1] = s} = {c \in Holding : result[c][1] = s}
    OBVIOUS
  <2> QED
    BY <1>1, <1>4, <2>1 DEF Counted
<1>5. \A c \in Taken : result'[c] = result[c]
  BY DEF Taken, Holding
<1>6. Objects' = Objects /\ Held' = Held
  BY <1>5 DEF Objects, Held
<1>7. InOrder => InOrder'
  BY <1>1, <1>5, <1>6 DEF InOrder
<1> QED
  BY <1>2, <1>3, <1>4, <1>7

\* The calls and the lock.
LEMMA LockSteps ==
  ASSUME IInv, NEW c \in Cpus,
         \/ CallAlloc(c) \/ AllocAcquire(c) \/ OutOfMemory(c) \/ GrowDrop(c)
         \/ FreeAcquire(c) \/ FreeDrop(c)
  PROVE  IInv'
<1> USE DEF IInv, Goto, callVars, ghosts
<1>1. Types
  OBVIOUS
<1>2. pc \in [Cpus -> Locations]
  BY <1>1 DEF Types
<1>3. CASE CallAlloc(c) \/ AllocAcquire(c) \/ OutOfMemory(c)
  <2>1. PICK l \in {"allocAcquire", "alloc", "halted"} :
           /\ pc' = [pc EXCEPT ![c] = l]
           /\ pc[c] \in {"idle", "allocAcquire", "alloc"}
           /\ UNCHANGED <<mem, slab, lists, live, frees, strayed, callVars>>
    BY <1>3 DEF CallAlloc, AllocAcquire, OutOfMemory
  <2>2. Types'
    BY <1>2, <1>3, <2>1 DEF Types, Locations, lists, CallAlloc, AllocAcquire, OutOfMemory
  <2>3. Exclusive'
    BY <1>2, <1>3 DEF Exclusive, Locked, CallAlloc, AllocAcquire, OutOfMemory
  <2>4. Selection'
    BY <1>2, <2>1 DEF Selection, Listed, lists
  <2>5. Holding' = Holding /\ Taken' = Taken /\ (NobodyFrees => NobodyFrees')
    BY <1>2, <2>1 DEF Holding, Taken, NobodyFrees
  <2> QED
    BY <2>1, <2>2, <2>3, <2>4, <2>5, CallStep
<1>4. CASE GrowDrop(c) \/ FreeDrop(c)
  <2>1. PICK l \in {"allocAcquire", "idle"} :
           /\ pc' = [pc EXCEPT ![c] = l]
           /\ pc[c] \in {"growDrop", "freeDrop"}
           /\ UNCHANGED <<mem, slab, lists, live, frees, strayed>>
           /\ lock' = FALSE
           /\ chosen' = [chosen EXCEPT ![c] = NoSlab]
           /\ result' = result \/ result' = [result EXCEPT ![c] = Data]
    BY <1>4 DEF GrowDrop, FreeDrop
  <2>2. Types'
    BY <1>2, <2>1 DEF Types, Locations, lists
  <2>3. Exclusive'
    BY <1>2, <2>1 DEF Exclusive, Locked
  <2>4. Selection'
    <3>1. \A d \in Cpus : pc'[d] \in {"grow", "take", "allocDrop", "freeMove"} =>
                            pc'[d] = pc[d] /\ chosen'[d] = chosen[d] /\ result'[d] = result[d]
      BY <1>1, <1>2, <2>1 DEF Types
    <3> QED
      BY <2>1, <3>1 DEF Selection, Listed, lists
  <2>5. \A d \in Cpus \ {c} : pc'[d] = pc[d] /\ result'[d] = result[d]
    BY <1>1, <1>2, <2>1 DEF Types
  <2>6. Holding' = Holding /\ Taken' = Taken /\ (NobodyFrees => NobodyFrees')
    BY <1>2, <2>1, <2>5 DEF Holding, Taken, NobodyFrees
  <2>7. \A d \in Holding : result'[d] = result[d]
    BY <2>1, <2>5 DEF Holding
  <2> QED
    BY <2>1, <2>2, <2>3, <2>4, <2>6, <2>7, CallStep
<1>5. CASE FreeAcquire(c)
  <2>1. /\ pc' = [pc EXCEPT ![c] = "free"] /\ pc[c] = "freeAcquire"
        /\ UNCHANGED <<mem, slab, lists, live, frees, strayed, callVars>>
        /\ ~lock /\ lock'
    BY <1>5 DEF FreeAcquire
  <2>2. Types'
    BY <1>2, <1>5, <2>1 DEF Types, Locations, lists, FreeAcquire
  <2>3. Exclusive'
    BY <1>2, <2>1 DEF Exclusive, Locked
  <2>4. Selection'
    BY <1>2, <2>1 DEF Selection, Listed, lists
  <2>5. Holding' = Holding /\ Taken' = Taken /\ (NobodyFrees => NobodyFrees')
    BY <1>2, <2>1 DEF Holding, Taken, NobodyFrees
  <2> QED
    BY <2>1, <2>2, <2>3, <2>4, <2>5, CallStep
<1> QED
  BY <1>3, <1>4, <1>5

\* The steps with which a call leaves the module.
LEMMA AstraySteps ==
  ASSUME IInv, NEW c \in Cpus, FollowData(c) \/ FreeBehindPage(c)
  PROVE  IInv'
<1> USE DEF IInv, Goto, callVars
<1>1. Types /\ pc \in [Cpus -> Locations]
  BY DEF Types
<1>2. /\ pc' = [pc EXCEPT ![c] = "astray"]
      /\ \/ pc[c] = "take" /\ result[c] = Data
         \/ pc[c] = "free" /\ result[c][2] \notin Words
      /\ strayed' = TRUE
      /\ UNCHANGED <<mem, slab, lists, lock, chosen, result, live, frees>>
  BY DEF FollowData, FreeBehindPage
<1>3. Data[2] \in Words
  BY SizesAssumption DEF Data, Words
<1>4. pc[c] = "free" => result[c] # Data
  BY <1>2, <1>3
<1>5. Types'
  BY <1>1, <1>2 DEF Types, Locations, lists
<1>6. Exclusive'
  BY <1>1, <1>2 DEF Exclusive, Locked
<1>7. Selection'
  BY <1>1, <1>2 DEF Selection, Listed, lists
<1>8. Holding' = Holding /\ Taken' = Taken /\ (NobodyFrees => NobodyFrees')
  <2>1. \A d \in Cpus \ {c} : pc'[d] = pc[d]
    BY <1>1, <1>2
  <2>2. c \in Holding' <=> c \in Holding
    BY <1>1, <1>2, <1>4 DEF Holding
  <2> QED
    BY <1>1, <1>2, <2>1, <2>2 DEF Holding, Taken, NobodyFrees
<1> QED
  BY <1>2, <1>5, <1>6, <1>7, <1>8, CallStep

\* The choice of a slab, or of a page for one.
LEMMA ChoiceSteps ==
  ASSUME IInv, NEW c \in Cpus, GrowAlloc(c) \/ Select(c)
  PROVE  IInv'
<1> USE DEF IInv, Goto, callVars, ghosts
<1>1. Types /\ pc \in [Cpus -> Locations]
  BY DEF Types
<1>2. CASE GrowAlloc(c)
  <2>1. PICK s \in Slabs \ Listed : /\ chosen' = [chosen EXCEPT ![c] = s]
                                   /\ pc[c] = "alloc" /\ pc' = [pc EXCEPT ![c] = "grow"]
                                   /\ UNCHANGED <<mem, slab, lists, lock, result, live, frees, strayed>>
    BY <1>2 DEF GrowAlloc, PagesLeft
  <2>2. Types'
    BY <1>1, <2>1 DEF Types, Locations, lists
  <2>3. Exclusive'
    BY <1>1, <2>1 DEF Exclusive, Locked
  <2>4. Selection'
    BY <1>1, <2>1 DEF Types, Selection, Listed, lists
  <2>5. Holding' = Holding /\ Taken' = Taken /\ (NobodyFrees => NobodyFrees')
    BY <1>1, <2>1 DEF Holding, Taken, NobodyFrees
  <2> QED
    BY <2>1, <2>2, <2>3, <2>4, <2>5, CallStep
<1>3. CASE Select(c)
  <2> DEFINE s == Head(Selected)
  <2>1. /\ chosen' = [chosen EXCEPT ![c] = s]
        /\ result' = [result EXCEPT ![c] = slab[s].firstFree]
        /\ pc[c] = "alloc" /\ pc' = [pc EXCEPT ![c] = "take"]
        /\ UNCHANGED <<mem, slab, lists, lock, live, frees, strayed>>
    BY <1>3 DEF Select
  <2>2. s \in Range(partial) \cup Range(empty) /\ s \in Slabs
    BY <1>1, <1>3, HeadInList DEF Select, NothingFree, Selected, Types
  <2> HIDE DEF s
  <2>3. slab[s].firstFree \in ObjectAddresses \cup {Data}
    <3>1. slab[s].firstFree \in Addresses \cup {Data}
      BY <1>1, <2>2 DEF Types
    <3> QED
      BY <3>1, AddressIsWord
  <2>4. Types'
    BY <1>1, <2>1, <2>2, <2>3 DEF Types, Locations, lists
  <2>5. Exclusive'
    BY <1>1, <2>1 DEF Exclusive, Locked
  <2>6. Selection'
    BY <1>1, <2>1, <2>2 DEF Types, Selection, Listed, lists
  <2>7. \A d \in Cpus \ {c} : pc'[d] = pc[d] /\ result'[d] = result[d]
    BY <1>1, <2>1 DEF Types
  <2>8. Holding' = Holding /\ Taken' = Taken /\ (NobodyFrees => NobodyFrees')
    BY <1>1, <2>1, <2>7 DEF Holding, Taken, NobodyFrees
  <2>9. \A d \in Holding : result'[d] = result[d]
    BY <2>1, <2>7 DEF Holding
  <2> QED
    BY <2>1, <2>4, <2>5, <2>6, <2>8, <2>9, CallStep
<1> QED
  BY <1>2, <1>3

\* A page becomes a slab.
LEMMA GrowStep ==
  ASSUME IInv, NEW c \in Cpus, Grow(c)
  PROVE  IInv'
<1> USE SizesAssumption, SlotCount DEF IInv, Goto, callVars, ghosts
<1>0. PICK s \in Slabs \ Listed : chosen[c] = s
  BY DEF Grow, Selection
<1>1. /\ pc[c] = "grow" /\ pc' = [pc EXCEPT ![c] = "growDrop"]
      /\ s \in Slabs \ Listed
      /\ mem' = [mem EXCEPT ![s] = LinkedPage(s)]
      /\ slab' = [slab EXCEPT ![s] = [firstFree |-> <<s, 0>>, usedObj |-> 0]]
      /\ empty' = InsertFront(empty, s)
      /\ UNCHANGED <<full, partial, lock, chosen, result, live, frees, strayed>>
  BY <1>0 DEF Grow
<1>2. Types
  OBVIOUS
<1>3. /\ empty' \in Seq(Slabs) /\ Range(empty') = Range(empty) \cup {s} /\ IsInjective(empty')
  BY <1>1, <1>2, InsertedList DEF OneList, Listed, Types
<1>4. Listed' = Listed \cup {s}
  BY <1>1, <1>3 DEF Listed
<1>5. \A k \in 0 .. objPerSlab - 1 : Slot(s, k) \in Addresses /\ Slot(s, k)[1] = s
                                     /\ Slot(s, k)[2] = k * ObjWords /\ k * ObjWords \in Words
                                     /\ Slot(s, k)[2] \div ObjWords = k /\ Slot(s, k)[2] % ObjWords = 0
  <2>1. SUFFICES ASSUME NEW k \in 0 .. objPerSlab - 1
                 PROVE  Slot(s, k) \in Addresses /\ Slot(s, k)[1] = s
                        /\ Slot(s, k)[2] = k * ObjWords /\ k * ObjWords \in Words
                        /\ Slot(s, k)[2] \div ObjWords = k /\ Slot(s, k)[2] % ObjWords = 0
    OBVIOUS
  <2>2. k * ObjWords \in Words
    <3>1. k * ObjWords \in Nat /\ k * ObjWords + ObjWords <= PageWords
      BY <1>1, SlotIsAddress
    <3> QED
      BY <3>1 DEF Words
  <2> QED
    BY <1>1, <2>2, SlotIsAddress
<1>6. /\ slab'[s].firstFree = Slot(s, 0) /\ slab'[s].usedObj = 0
      /\ \A t \in Slabs \ {s} : slab'[t] = slab[t]
  BY <1>1, <1>2 DEF Types, Slot
<1>7. /\ mem' \in [Slabs -> [Words -> Addresses \cup {Data}]]
      /\ \A t \in Slabs \ {s} : mem'[t] = mem[t]
      /\ \A k \in 0 .. objPerSlab - 1 :
           mem'[s][k * ObjWords] = IF k < objPerSlab - 1 THEN Slot(s, k + 1) ELSE Data
  <2>1. mem'[s] = LinkedPage(s) /\ \A t \in Slabs \ {s} : mem'[t] = mem[t]
    BY <1>1, <1>2 DEF Types
  <2>2. ASSUME NEW w \in Words
        PROVE  LinkedPage(s)[w] \in Addresses \cup {Data}
    <3>1. CASE w % ObjWords = 0 /\ w \div ObjWords < objPerSlab - 1
      <4>1. w \in Nat /\ w \div ObjWords \in Nat /\ w = (w \div ObjWords) * ObjWords + 0
        BY <3>1, WordOfDigits DEF Words
      <4>2. w \div ObjWords + 1 \in 0 .. objPerSlab - 1
        BY <3>1, <4>1
      <4> DEFINE q == w \div ObjWords
      <4>3. (q + 1) * ObjWords = q * ObjWords + ObjWords
        BY <4>1
      <4>4. w + ObjWords = (q + 1) * ObjWords
        BY <4>1, <4>3
      <4>5. LinkedPage(s)[w] = Slot(s, q + 1)
        BY <3>1, <4>4 DEF LinkedPage, Slot
      <4> QED
        BY <1>5, <4>2, <4>5
    <3>2. CASE ~ (w % ObjWords = 0 /\ w \div ObjWords < objPerSlab - 1)
      BY <1>1, <1>2, <3>2 DEF LinkedPage, Types
    <3> QED
      BY <3>1, <3>2
  <2>3. LinkedPage(s) \in [Words -> Addresses \cup {Data}]
    BY <2>2 DEF LinkedPage
  <2>4. ASSUME NEW k \in 0 .. objPerSlab - 1
        PROVE  LinkedPage(s)[k * ObjWords] = IF k < objPerSlab - 1 THEN Slot(s, k + 1) ELSE Data
    <3> DEFINE w == k * ObjWords
    <3>1. w \in Words /\ w % ObjWords = 0 /\ w \div ObjWords = k /\ w \in Nat
      BY <1>5 DEF Words
    <3>2. (k + 1) * ObjWords = w + ObjWords
      OBVIOUS
    <3> HIDE DEF w
    <3>3. mem[s][w] = Data
      BY <1>1, <3>1 DEF FreshPages
    <3>4. LinkedPage(s)[w] = IF k < objPerSlab - 1 THEN <<s, w + ObjWords>> ELSE Data
      BY <3>1, <3>3 DEF LinkedPage
    <3> QED
      BY <3>2, <3>4 DEF Slot, w
  <2> QED
    BY <1>1, <1>2, <2>1, <2>3, <2>4 DEF Types
<1>8. Types'
  <2>1. slab' \in [Slabs -> [firstFree : Addresses \cup {Data}, usedObj : Nat]]
    <3>1. <<s, 0>> \in Addresses
      BY <1>5 DEF Slot
    <3>2. [firstFree |-> <<s, 0>>, usedObj |-> 0] \in [firstFree : Addresses \cup {Data}, usedObj : Nat]
      BY <3>1
    <3> QED
      BY <1>1, <1>2, <3>2 DEF Types
  <2> QED
    BY <1>1, <1>2, <1>3, <1>7, <2>1 DEF Types, Locations
<1>9. Exclusive'
  BY <1>1, <1>2 DEF Exclusive, Locked, Types
<1>10. OneList'
  BY <1>1, <1>3 DEF OneList, Listed
<1>11. \A d \in Cpus \ {c} : pc'[d] \notin {"grow", "take", "allocDrop", "freeMove"}
  BY <1>1, <1>2 DEF Exclusive, Locked, Types
<1>12. Selection'
  BY <1>1, <1>2, <1>11 DEF Selection, Types
<1>13. FreshPages'
  <2>1. \A t \in Slabs \ Listed' : t # s /\ t \in Slabs \ Listed
    BY <1>4
  <2>2. \A t \in Slabs \ Listed' : slab'[t] = slab[t] /\ mem'[t] = mem[t]
    BY <1>6, <1>7, <2>1
  <2> QED
    BY <2>1, <2>2 DEF FreshPages
<1>14. Holding' = Holding /\ Taken' = Taken /\ (NobodyFrees => NobodyFrees')
  BY <1>1, <1>2 DEF Holding, Taken, NobodyFrees, Types
<1>15. OwnLinks'
  <2>1. ASSUME NEW w \in Words, LinkedPage(s)[w] # Data
        PROVE  LinkedPage(s)[w][1] = s
    BY <1>1, <2>1 DEF LinkedPage, FreshPages
  <2>2. mem'[s] = LinkedPage(s) /\ slab'[s].firstFree[1] = s
    BY <1>1, <1>2, <1>6 DEF Types, Slot
  <2> QED
    BY <1>6, <1>7, <2>1, <2>2 DEF OwnLinks
<1>16. Places'
  BY <1>1, <1>4, <1>14 DEF Places
<1>19. ASSUME NEW t \in Listed'
       PROVE  Counted(t)'
  <2>1. CASE t = s
    <3>1. {h \in live : h[1][1] = s} = {} /\ {d \in Holding : result[d][1] = s} = {}
      BY <1>1 DEF Places
    <3>3. Cardinality({}) = 0
      BY FS_EmptySet
    <3>4. {h \in live' : h[1][1] = t} = {} /\ {d \in Holding' : result'[d][1] = t} = {}
      BY <1>1, <1>14, <2>1, <3>1
    <3>5. slab'[t].usedObj = 0
      BY <1>6, <2>1
    <3> DEFINE A == {h \in live' : h[1][1] = t}
               H == {d \in Holding' : result'[d][1] = t}
    <3>6. Cardinality(A) = 0 /\ Cardinality(H) = 0
      BY <3>3, <3>4
    <3> HIDE DEF A, H
    <3>7. slab'[t].usedObj = Cardinality(A) + Cardinality(H)
      BY <3>5, <3>6
    <3> QED
      BY <3>7 DEF Counted, A, H
  <2>2. CASE t # s
    BY <1>1, <1>2, <1>4, <1>6, <1>14, <1>19, <2>2, ListedIsSlab DEF Counted
  <2> QED
    BY <2>1, <2>2
<1>20. UseOfLists'
  <2>1. \A t \in Listed : slab'[t] = slab[t]
    BY <1>1, <1>2, <1>6, ListedIsSlab
  <2> QED
    BY <1>1, <1>3, <1>6, <2>1 DEF UseOfLists, Listed
<1>21. ASSUME frees = 0
       PROVE  InOrder'
  <2>1. Objects' = Objects /\ Held' = Held
    BY <1>1, <1>14 DEF Objects, Held
  <2>2. \A t \in Listed : mem'[t] = mem[t] /\ slab'[t] = slab[t]
    BY <1>1, <1>2, <1>6, <1>7, ListedIsSlab
  <2>3. \A a \in Objects : a[1] \in Listed
    <3>1. \A a \in Held : a[1] \in Listed
      BY DEF Held, Places
    <3>2. \A d \in Taken : result[d][1] \in Listed
      BY DEF Taken, Holding, Places
    <3> QED
      BY <3>1, <3>2 DEF Objects, Object
  <2>4. ASSUME NEW t \in Listed'
        PROVE  /\ slab'[t].usedObj < objPerSlab => slab'[t].firstFree = Slot(t, slab'[t].usedObj)
               /\ \A k \in 0 .. objPerSlab - 2 :
                    slab'[t].usedObj <= k => mem'[t][k * ObjWords] = Slot(t, k + 1)
               /\ \A k \in 0 .. slab'[t].usedObj - 1 : Object(Slot(t, k)) \in Objects
    <3>1. CASE t = s
      BY <1>6, <1>7, <3>1
    <3>2. CASE t # s
      BY <1>4, <1>21, <2>2, <3>2 DEF InOrder
    <3> QED
      BY <3>1, <3>2
  <2>5. \A a \in Objects :
          \E k \in 0 .. slab'[a[1]].usedObj - 1 : a = Object(Slot(a[1], k)) /\ k < objPerSlab
    BY <1>21, <2>2, <2>3 DEF InOrder
  <2>6. /\ \A g, h \in live' : g[1] = h[1] => g = h
        /\ \A d \in Taken' : Object(result'[d]) \notin Held'
    BY <1>1, <1>14, <1>21, <2>1 DEF InOrder
  <2> QED
    BY <2>1, <2>4, <2>5, <2>6 DEF InOrder
<1> QED
  BY <1>1, <1>8, <1>9, <1>10, <1>12, <1>13, <1>14, <1>15, <1>16, <1>19, <1>20, <1>21

\* What a step does to the count of a slab.
LEMMA CountStays ==
  ASSUME NEW s, Counted(s), slab'[s].usedObj = slab[s].usedObj,
         \A h : h[1][1] = s => (h \in live' <=> h \in live),
         \A c \in Cpus : c \in Holding' /\ result'[c][1] = s <=> c \in Holding /\ result[c][1] = s
  PROVE  Counted(s)'
<1> DEFINE A == {h \in live : h[1][1] = s}
           H == {c \in Holding : result[c][1] = s}
<1>1. A = {h \in live' : h[1][1] = s}
  OBVIOUS
<1>2. H = {c \in Holding' : result'[c][1] = s}
  BY DEF Holding
<1>3. slab'[s].usedObj = Cardinality(A) + Cardinality(H)
  BY DEF Counted
<1> QED
  BY <1>1, <1>2, <1>3 DEF Counted

LEMMA CpuCounted ==
  ASSUME Types, NEW s, Counted(s), live' = live, NEW c \in Cpus,
         c \notin Holding, c \in Holding', result'[c][1] = s, slab'[s].usedObj = slab[s].usedObj + 1,
         \A d \in Cpus \ {c} : d \in Holding' /\ result'[d][1] = s <=> d \in Holding /\ result[d][1] = s
  PROVE  Counted(s)'
<1> DEFINE A == {h \in live : h[1][1] = s}
           H == {d \in Holding : result[d][1] = s}
<1>1. A = {h \in live' : h[1][1] = s}
  OBVIOUS
<1>2. H \cup {c} = {d \in Holding' : result'[d][1] = s}
  BY DEF Holding
<1>3. slab[s].usedObj = Cardinality(A) + Cardinality(H)
  BY DEF Counted
<1>4. IsFiniteSet(A) /\ IsFiniteSet(H) /\ c \notin H
  BY LiveIsFinite
<1> HIDE DEF A, H
<1>5. Cardinality(H \cup {c}) = Cardinality(H) + 1
  BY <1>4, FS_AddElement
<1>6. Cardinality(A) \in Nat /\ Cardinality(H) \in Nat
  BY <1>4, FS_CardinalityType
<1>7. slab'[s].usedObj = Cardinality(A) + Cardinality(H \cup {c})
  BY <1>3, <1>5, <1>6
<1> QED
  BY <1>1, <1>2, <1>7 DEF Counted

LEMMA CpuDiscounted ==
  ASSUME Types, NEW s, Counted(s), live' = live, NEW c \in Cpus,
         c \in Holding, c \notin Holding', result[c][1] = s, slab'[s].usedObj = slab[s].usedObj - 1,
         \A d \in Cpus \ {c} : d \in Holding' /\ result'[d][1] = s <=> d \in Holding /\ result[d][1] = s
  PROVE  Counted(s)' /\ slab[s].usedObj > 0
<1> DEFINE A == {h \in live : h[1][1] = s}
           H == {d \in Holding : result[d][1] = s}
<1>1. A = {h \in live' : h[1][1] = s}
  OBVIOUS
<1>2. H \ {c} = {d \in Holding' : result'[d][1] = s}
  BY DEF Holding
<1>3. slab[s].usedObj = Cardinality(A) + Cardinality(H)
  BY DEF Counted
<1>4. IsFiniteSet(A) /\ IsFiniteSet(H) /\ c \in H
  BY LiveIsFinite
<1> HIDE DEF A, H
<1>5. Cardinality(H \ {c}) = Cardinality(H) - 1
  BY <1>4, FS_RemoveElement
<1>6. Cardinality(A) \in Nat /\ Cardinality(H) \in Nat /\ Cardinality(H \ {c}) \in Nat
  BY <1>4, FS_CardinalityType, FS_RemoveElement
<1>7. slab'[s].usedObj = Cardinality(A) + Cardinality(H \ {c})
  BY <1>3, <1>5, <1>6
<1>8. slab[s].usedObj > 0
  BY <1>3, <1>5, <1>6
<1> QED
  BY <1>1, <1>2, <1>7, <1>8 DEF Counted

\* A slot that goes from a CPU to a user.
LEMMA CountGiven ==
  ASSUME Types, NEW s, Counted(s), NEW c \in Cpus, NEW h,
         c \in Holding, c \notin Holding', result[c][1] = s, slab'[s].usedObj = slab[s].usedObj,
         h[1][1] = s, h \notin live, live' = live \cup {h},
         \A d \in Cpus \ {c} : d \in Holding' /\ result'[d][1] = s <=> d \in Holding /\ result[d][1] = s
  PROVE  Counted(s)'
<1> DEFINE A == {x \in live : x[1][1] = s}
           H == {d \in Holding : result[d][1] = s}
<1>1. A \cup {h} = {x \in live' : x[1][1] = s}
  OBVIOUS
<1>2. H \ {c} = {d \in Holding' : result'[d][1] = s}
  BY DEF Holding
<1>3. slab[s].usedObj = Cardinality(A) + Cardinality(H)
  BY DEF Counted
<1>4. IsFiniteSet(A) /\ IsFiniteSet(H) /\ c \in H /\ h \notin A
  BY LiveIsFinite
<1> HIDE DEF A, H
<1>5. Cardinality(H \ {c}) = Cardinality(H) - 1 /\ Cardinality(A \cup {h}) = Cardinality(A) + 1
  BY <1>4, FS_RemoveElement, FS_AddElement
<1>6. Cardinality(A) \in Nat /\ Cardinality(H) \in Nat
  BY <1>4, FS_CardinalityType
<1>7. slab'[s].usedObj = Cardinality(A \cup {h}) + Cardinality(H \ {c})
  BY <1>3, <1>5, <1>6
<1> QED
  BY <1>1, <1>2, <1>7 DEF Counted

\* And back.
LEMMA CountReturned ==
  ASSUME Types, NEW s, Counted(s), NEW c \in Cpus, NEW h,
         c \notin Holding, c \in Holding', result'[c][1] = s, slab'[s].usedObj = slab[s].usedObj,
         h[1][1] = s, h \in live, live' = live \ {h},
         \A d \in Cpus \ {c} : d \in Holding' /\ result'[d][1] = s <=> d \in Holding /\ result[d][1] = s
  PROVE  Counted(s)'
<1> DEFINE A == {x \in live : x[1][1] = s}
           H == {d \in Holding : result[d][1] = s}
<1>1. A \ {h} = {x \in live' : x[1][1] = s}
  OBVIOUS
<1>2. H \cup {c} = {d \in Holding' : result'[d][1] = s}
  BY DEF Holding
<1>3. slab[s].usedObj = Cardinality(A) + Cardinality(H)
  BY DEF Counted
<1>4. IsFiniteSet(A) /\ IsFiniteSet(H) /\ c \notin H /\ h \in A
  BY LiveIsFinite
<1> HIDE DEF A, H
<1>5. Cardinality(H \cup {c}) = Cardinality(H) + 1 /\ Cardinality(A \ {h}) = Cardinality(A) - 1
  BY <1>4, FS_RemoveElement, FS_AddElement
<1>6. Cardinality(A) \in Nat /\ Cardinality(H) \in Nat
  BY <1>4, FS_CardinalityType
<1>7. slab'[s].usedObj = Cardinality(A \ {h}) + Cardinality(H \cup {c})
  BY <1>3, <1>5, <1>6
<1> QED
  BY <1>1, <1>2, <1>7 DEF Counted

\* The first slot of a slab's chain is taken.
LEMMA TakeStep ==
  ASSUME IInv, NEW c \in Cpus, Take(c)
  PROVE  IInv'
<1> USE SizesAssumption, SlotCount DEF IInv, Goto, callVars, ghosts
<1>0. PICK s \in Slabs, a \in Addresses : /\ chosen[c] = s /\ s \in Range(partial) \cup Range(empty)
                                          /\ result[c] = a /\ a = slab[s].firstFree
  <2>1. /\ chosen[c] \in Range(partial) \cup Range(empty)
        /\ result[c] = slab[chosen[c]].firstFree /\ result[c] # Data
    BY DEF Take, Selection
  <2>2. chosen[c] \in Slabs
    BY <2>1, ListedIsSlab DEF Listed
  <2>3. result[c] \in Addresses
    BY <2>1, <2>2 DEF Types
  <2> QED
    BY <2>1, <2>2, <2>3
<1>1. /\ pc[c] = "take" /\ pc' = [pc EXCEPT ![c] = "allocDrop"]
      /\ slab' = [slab EXCEPT ![s].firstFree = mem[a[1]][a[2]], ![s].usedObj = @ + 1]
      /\ full' = IF slab[s].usedObj + 1 = objPerSlab THEN InsertFront(full, s) ELSE full
      /\ partial' = IF slab[s].usedObj + 1 = objPerSlab THEN Without(partial, s) ELSE partial
      /\ empty' = IF slab[s].usedObj + 1 = objPerSlab THEN Without(empty, s) ELSE empty
      /\ UNCHANGED <<mem, lock, chosen, result, live, frees, strayed>>
  BY <1>0 DEF Take
<1>2. Types
  OBVIOUS
<1>3. s \in Listed
  BY <1>0 DEF Listed
<1>4. a[1] = s /\ a[2] \in Words /\ a # Data
  BY <1>0, NoAddress, AddressIsWord DEF OwnLinks
<1>5. mem[a[1]][a[2]] \in Addresses \cup {Data}
  BY <1>2, <1>4 DEF Types, Addresses
<1>6. /\ slab' \in [Slabs -> [firstFree : Addresses \cup {Data}, usedObj : Nat]]
      /\ slab'[s].firstFree = mem[a[1]][a[2]] /\ slab'[s].usedObj = slab[s].usedObj + 1
      /\ \A t \in Slabs \ {s} : slab'[t] = slab[t]
  <2> DEFINE f == mem[a[1]][a[2]]
             u == slab[s].usedObj + 1
  <2>1. f \in Addresses \cup {Data} /\ u \in Nat
    BY <1>2, <1>5 DEF Types
  <2>2. slab' = [slab EXCEPT ![s].firstFree = f, ![s].usedObj = u]
    BY <1>1, <1>2 DEF Types
  <2> HIDE DEF f, u, IInv
  <2>3. /\ slab' \in [Slabs -> [firstFree : Addresses \cup {Data}, usedObj : Nat]]
        /\ slab'[s].firstFree = f /\ slab'[s].usedObj = u
        /\ \A t \in Slabs \ {s} : slab'[t] = slab[t]
    BY <1>2, <2>1, <2>2, HeaderWritten
  <2> QED
    BY <2>3 DEF f, u
<1>7. s \notin Range(full)
  BY <1>0 DEF OneList
<1>8. /\ full' \in Seq(Slabs) /\ partial' \in Seq(Slabs) /\ empty' \in Seq(Slabs)
      /\ IsInjective(full') /\ IsInjective(partial') /\ IsInjective(empty')
      /\ Range(full') = IF slab[s].usedObj + 1 = objPerSlab THEN Range(full) \cup {s} ELSE Range(full)
      /\ Range(partial') = IF slab[s].usedObj + 1 = objPerSlab THEN Range(partial) \ {s} ELSE Range(partial)
      /\ Range(empty') = IF slab[s].usedObj + 1 = objPerSlab THEN Range(empty) \ {s} ELSE Range(empty)
  <2>1. CASE slab[s].usedObj + 1 = objPerSlab
    BY <1>1, <1>2, <1>7, <2>1, InsertedList, ReducedList DEF OneList, Types
  <2>2. CASE slab[s].usedObj + 1 # objPerSlab
    BY <1>1, <1>2, <2>2 DEF OneList, Types
  <2> QED
    BY <2>1, <2>2
<1>9. Listed' = Listed
  BY <1>0, <1>8 DEF Listed
<1>10. Types'
  BY <1>1, <1>2, <1>6, <1>8 DEF Types, Locations
<1>11. pc \in [Cpus -> Locations]
  BY <1>2 DEF Types
<1>12. Exclusive'
  BY <1>1, <1>11 DEF Exclusive, Locked
<1>13. OneList'
  BY <1>0, <1>8 DEF OneList
<1>14. \A d \in Cpus \ {c} : pc'[d] \notin {"grow", "take", "allocDrop", "freeMove"}
  BY <1>1, <1>11 DEF Exclusive, Locked
<1>15. Selection'
  BY <1>0, <1>1, <1>11, <1>14 DEF Selection
<1>16. FreshPages'
  <2>1. \A t \in Slabs \ Listed : slab'[t] = slab[t]
    BY <1>3, <1>6
  <2> QED
    BY <1>1, <1>9, <2>1 DEF FreshPages
<1>17. /\ Holding' = Holding \cup {c} /\ Taken' = Taken \cup {c} /\ c \notin Holding
       /\ (NobodyFrees => NobodyFrees')
  BY <1>1, <1>11 DEF Holding, Taken, NobodyFrees
<1>18. Places'
  BY <1>0, <1>1, <1>3, <1>4, <1>9, <1>17 DEF Places
<1>19. OwnLinks'
  <2>1. mem[a[1]][a[2]] # Data => mem[a[1]][a[2]][1] = s
    BY <1>0, <1>4 DEF OwnLinks
  <2> QED
    BY <1>1, <1>6, <2>1 DEF OwnLinks
<1>21. ASSUME NEW t \in Listed'
       PROVE  Counted(t)'
  <2>1. Counted(t)
    BY <1>9, <1>21
  <2>2. CASE t = s
    BY <1>0, <1>1, <1>2, <1>4, <1>6, <1>17, <2>1, <2>2, CpuCounted
  <2>3. CASE t # s
    <3>1. slab'[t].usedObj = slab[t].usedObj
      BY <1>2, <1>6, <1>9, <1>21, <2>3, ListedIsSlab
    <3>2. \A d \in Cpus : d \in Holding' /\ result'[d][1] = t <=> d \in Holding /\ result[d][1] = t
      BY <1>0, <1>1, <1>4, <1>17, <2>3
    <3> QED
      BY <1>1, <2>1, <3>1, <3>2, CountStays
  <2> QED
    BY <2>2, <2>3
<1>22. slab[s].usedObj < objPerSlab /\ slab[s].usedObj \in Nat
  BY <1>0, <1>2 DEF UseOfLists, Types
<1>23. UseOfLists'
  <2>1. \A t \in Listed \ {s} : slab'[t] = slab[t]
    BY <1>2, <1>6, ListedIsSlab
  <2>2. CASE slab[s].usedObj + 1 = objPerSlab
    BY <1>6, <1>7, <1>8, <2>1, <2>2 DEF UseOfLists, Listed
  <2>3. CASE slab[s].usedObj + 1 # objPerSlab
    <3>1. slab'[s].usedObj \in 1 .. objPerSlab - 1
      BY <1>6, <1>22, <2>3
    <3>2. /\ Range(full') = Range(full) /\ Range(partial') = Range(partial)
          /\ Range(empty') = Range(empty)
      BY <1>8, <2>3
    <3>3. \A t \in Range(full) : t \in Listed \ {s}
      BY <1>7 DEF Listed
    <3>4. \A t \in Range(partial) \cup Range(empty) : t = s \/ t \in Listed \ {s}
      BY DEF Listed
    <3> QED
      BY <2>1, <3>1, <3>2, <3>3, <3>4 DEF UseOfLists
  <2> QED
    BY <2>2, <2>3
<1>24. ASSUME frees = 0
       PROVE  InOrder'
  <2> DEFINE u == slab[s].usedObj
  <2>1. InOrder
    BY <1>24
  <2>2. a = Slot(s, u)
    BY <1>0, <1>3, <1>22, <2>1 DEF InOrder
  <2>3. Objects' = Objects \cup {Object(a)} /\ Held' = Held
    BY <1>0, <1>1, <1>17 DEF Objects, Held
  <2>4. \A t \in Listed \ {s} : slab'[t] = slab[t]
    BY <1>2, <1>6, ListedIsSlab
  <2>5. u + 1 < objPerSlab => slab'[s].firstFree = Slot(s, u + 1)
    <3>1. SUFFICES ASSUME u + 1 < objPerSlab PROVE slab'[s].firstFree = Slot(s, u + 1)
      OBVIOUS
    <3>2. u \in 0 .. objPerSlab - 2
      BY <1>22, <3>1
    <3>3. mem[s][u * ObjWords] = Slot(s, u + 1)
      BY <1>3, <1>22, <2>1, <3>2 DEF InOrder
    <3> QED
      BY <1>4, <1>6, <2>2, <3>3 DEF Slot
  <2>6. ASSUME NEW t \in Listed
        PROVE  /\ slab'[t].usedObj < objPerSlab => slab'[t].firstFree = Slot(t, slab'[t].usedObj)
               /\ \A k \in 0 .. objPerSlab - 2 :
                    slab'[t].usedObj <= k => mem[t][k * ObjWords] = Slot(t, k + 1)
               /\ \A k \in 0 .. slab'[t].usedObj - 1 : Object(Slot(t, k)) \in Objects'
    <3>1. CASE t = s
      <4>1. slab'[t].usedObj = u + 1 /\ u \in Nat
        BY <1>6, <1>22, <3>1
      <4>2. ASSUME NEW k \in 0 .. objPerSlab - 2, u + 1 <= k
            PROVE  mem[t][k * ObjWords] = Slot(t, k + 1)
        BY <1>3, <2>1, <3>1, <4>1, <4>2 DEF InOrder
      <4>3. ASSUME NEW k \in 0 .. u
            PROVE  Object(Slot(t, k)) \in Objects'
        <5>1. CASE k = u
          BY <2>2, <2>3, <3>1, <5>1
        <5>2. CASE k # u
          <6>1. k \in 0 .. u - 1
            BY <4>1, <5>2
          <6> QED
            BY <1>3, <2>1, <2>3, <3>1, <6>1 DEF InOrder
        <5> QED
          BY <5>1, <5>2
      <4> QED
        BY <2>5, <3>1, <4>1, <4>2, <4>3
    <3>2. CASE t # s
      BY <2>1, <2>3, <2>4, <3>2 DEF InOrder
    <3> QED
      BY <3>1, <3>2
  <2>7. ASSUME NEW b \in Objects'
        PROVE  \E k \in 0 .. slab'[b[1]].usedObj - 1 : b = Object(Slot(b[1], k)) /\ k < objPerSlab
    <3>1. CASE b \in Objects
      <4>1. PICK k \in 0 .. slab[b[1]].usedObj - 1 : b = Object(Slot(b[1], k)) /\ k < objPerSlab
        BY <2>1, <3>1 DEF InOrder
      <4>2. b[1] \in Slabs
        <5>1. \A x \in Held : x[1] \in Slabs
          BY <1>2, ListedIsSlab DEF Held, Places
        <5>2. \A d \in Taken : result[d][1] \in Slabs
          BY <1>2, ListedIsSlab DEF Taken, Holding, Places
        <5> QED
          BY <3>1, <5>1, <5>2 DEF Objects, Object
      <4>3. slab[b[1]].usedObj \in Nat /\ slab'[b[1]].usedObj >= slab[b[1]].usedObj /\ slab'[b[1]].usedObj \in Nat
        <5>1. CASE b[1] = s
          BY <1>6, <1>22, <5>1
        <5>2. CASE b[1] # s
          BY <1>2, <1>6, <4>2, <5>2 DEF Types
        <5> QED
          BY <5>1, <5>2
      <4> QED
        BY <4>1, <4>3
    <3>2. CASE b = Object(a)
      <4>1. b[1] = s
        BY <1>4, <3>2 DEF Object
      <4>2. u \in 0 .. slab'[s].usedObj - 1 /\ u < objPerSlab
        BY <1>6, <1>22
      <4> QED
        BY <2>2, <3>2, <4>1, <4>2
    <3> QED
      BY <2>3, <3>1, <3>2
  <2>8. Object(a) \notin Objects
    <3>1. SUFFICES ASSUME Object(a) \in Objects PROVE FALSE
      OBVIOUS
    <3>2. PICK k \in 0 .. u - 1 : Object(a) = Object(Slot(s, k))
      <4>1. Object(a)[1] = s
        BY <1>4 DEF Object
      <4> QED
        BY <2>1, <3>1, <4>1 DEF InOrder
    <3>3. u * ObjWords \in Nat /\ k * ObjWords \in Nat /\ k \in Nat
      BY <1>22
    <3>4. u * ObjWords + 1 = k * ObjWords + 1
      BY <2>2, <3>2 DEF Object, Slot
    <3>5. u = k
      BY <1>22, <3>3, <3>4, SlotsDiffer
    <3> QED
      BY <1>22, <3>5
  <2>9. \A d \in Taken' : Object(result'[d]) \notin Held'
    <3>1. Held \subseteq Objects
      BY DEF Objects
    <3>2. \A d \in Taken' : d = c \/ d \in Taken
      BY <1>17
    <3> QED
      BY <1>0, <1>1, <2>1, <2>3, <2>8, <3>1, <3>2 DEF InOrder
  <2>10. \A g, h \in live' : g[1] = h[1] => g = h
    BY <1>1, <2>1 DEF InOrder
  <2> QED
    BY <1>1, <1>9, <2>6, <2>7, <2>9, <2>10 DEF InOrder
<1> QED
  BY <1>1, <1>10, <1>12, <1>13, <1>15, <1>16, <1>17, <1>18, <1>19, <1>21, <1>23, <1>24

\* The object behind the slot is returned.
LEMMA AllocDropStep ==
  ASSUME IInv, NEW c \in Cpus, AllocDrop(c)
  PROVE  IInv'
<1> USE DEF IInv, Goto, callVars, lists
<1>1. Types /\ pc \in [Cpus -> Locations]
  BY DEF Types
<1>2. PICK x \in Addresses : result[c] = x /\ x[1] \in Listed /\ c \in Holding /\ c \in Taken
  <2>1. c \in Holding /\ c \in Taken /\ result[c] \in Addresses
    BY DEF AllocDrop, Holding, Taken, Selection
  <2> QED
    BY <2>1 DEF Places
<1>3. PICK h \in ObjectAddresses \X Users : /\ h[1] = Object(x) /\ h[1][1] = x[1]
                                            /\ h \notin live /\ live' = live \cup {h}
  <2>1. PICK n \in Users : <<Object(x), n>> \notin live /\ live' = live \cup {<<Object(x), n>>}
    BY <1>2 DEF AllocDrop
  <2>2. Object(x) \in ObjectAddresses /\ Object(x)[1] = x[1]
    BY AddressIsWord
  <2> QED
    BY <2>1, <2>2
<1>4. /\ pc[c] = "allocDrop" /\ pc' = [pc EXCEPT ![c] = "idle"]
      /\ lock' = FALSE
      /\ chosen' = [chosen EXCEPT ![c] = NoSlab] /\ result' = [result EXCEPT ![c] = Data]
      /\ UNCHANGED <<mem, slab, full, partial, empty, frees, strayed>>
  BY DEF AllocDrop
<1>5. Listed' = Listed
  BY <1>4 DEF Listed
<1>6. Types'
  BY <1>1, <1>3, <1>4 DEF Types, Locations
<1>7. Exclusive'
  BY <1>1, <1>4 DEF Exclusive, Locked
<1>8. \A d \in Cpus \ {c} : pc'[d] = pc[d] /\ chosen'[d] = chosen[d] /\ result'[d] = result[d]
  BY <1>1, <1>4 DEF Types
<1>9. Selection'
  BY <1>1, <1>4, <1>5, <1>8 DEF Selection
<1>10. OneList' /\ UseOfLists' /\ FreshPages' /\ OwnLinks'
  BY <1>4, <1>5 DEF OneList, UseOfLists, FreshPages, OwnLinks
<1>11. /\ Holding' = Holding \ {c} /\ Taken' = Taken \ {c} /\ (NobodyFrees => NobodyFrees')
  BY <1>1, <1>4, <1>8 DEF Holding, Taken, NobodyFrees
<1>12. Places'
  BY <1>2, <1>3, <1>5, <1>8, <1>11 DEF Places, Holding
<1>13. ASSUME NEW t \in Listed'
       PROVE  Counted(t)'
  <2>1. Counted(t)
    BY <1>5, <1>13
  <2>2. \A d \in Cpus \ {c} : d \in Holding' /\ result'[d][1] = t <=> d \in Holding /\ result[d][1] = t
    BY <1>8, <1>11
  <2>3. CASE t = x[1]
    BY <1>1, <1>2, <1>3, <1>4, <1>11, <2>1, <2>2, <2>3, CountGiven
  <2>4. CASE t # x[1]
    <3>1. \A d \in Cpus : d \in Holding' /\ result'[d][1] = t <=> d \in Holding /\ result[d][1] = t
      BY <1>2, <1>11, <2>2, <2>4
    <3>2. \A g : g[1][1] = t => (g \in live' <=> g \in live)
      BY <1>3, <2>4
    <3> QED
      BY <1>4, <2>1, <3>1, <3>2, CountStays
  <2> QED
    BY <2>3, <2>4
<1>14. ASSUME InOrder
       PROVE  InOrder'
  <2>1. \A d \in Taken \ {c} : result'[d] = result[d]
    BY <1>8 DEF Taken
  <2>2. Held' = Held \cup {Object(x)}
    BY <1>3 DEF Held
  <2>3. Objects' = Objects
    BY <1>2, <1>11, <2>1, <2>2 DEF Objects
  <2>4. Object(x) \notin Held
    BY <1>2, <1>14 DEF InOrder
  <2>5. \A f, g \in live' : f[1] = g[1] => f = g
    BY <1>3, <1>14, <2>4 DEF InOrder, Held
  <2>6. \A d \in Taken' : d = c
    BY DEF Exclusive, Taken, Locked, AllocDrop
  <2> QED
    BY <1>4, <1>5, <1>11, <1>14, <2>3, <2>5, <2>6 DEF InOrder
<1> QED
  BY <1>4, <1>6, <1>7, <1>9, <1>10, <1>11, <1>12, <1>13, <1>14

\* A user gives an object back.
LEMMA CallFreeStep ==
  ASSUME IInv, NEW c \in Cpus, NEW h \in live, CallFree(c, h)
  PROVE  IInv'
<1> USE DEF IInv, Goto, callVars, lists
<1>1. Types /\ pc \in [Cpus -> Locations]
  BY DEF Types
<1>2. /\ pc[c] = "idle" /\ pc' = [pc EXCEPT ![c] = "freeAcquire"]
      /\ live' = live \ {h} /\ frees' = frees + 1 /\ frees < MaxFrees
      /\ result' = [result EXCEPT ![c] = h[1]]
      /\ UNCHANGED <<mem, slab, full, partial, empty, lock, chosen, strayed>>
  BY DEF CallFree
<1>3. h[1] \in ObjectAddresses /\ h[1][1] \in Listed
  BY <1>1 DEF Types, Places
<1>4. frees' \in 0 .. MaxFrees /\ frees' # 0
  BY <1>2, MaxFreesAssumption
<1>5. Listed' = Listed
  BY <1>2 DEF Listed
<1>6. Types'
  BY <1>1, <1>2, <1>3 DEF Types, Locations
<1>7. Exclusive'
  BY <1>1, <1>2 DEF Exclusive, Locked
<1>8. \A d \in Cpus \ {c} : pc'[d] = pc[d] /\ chosen'[d] = chosen[d] /\ result'[d] = result[d]
  BY <1>1, <1>2 DEF Types
<1>9. Selection'
  BY <1>1, <1>2, <1>5, <1>8 DEF Selection
<1>10. OneList' /\ UseOfLists' /\ FreshPages' /\ OwnLinks'
  BY <1>2, <1>5 DEF OneList, UseOfLists, FreshPages, OwnLinks
<1>11. Holding' = Holding \cup {c} /\ c \notin Holding /\ result'[c] = h[1]
  BY <1>1, <1>2, <1>8 DEF Holding, Types
<1>12. Places'
  BY <1>2, <1>3, <1>5, <1>8, <1>11 DEF Places, Holding
<1>13. ASSUME NEW t \in Listed'
       PROVE  Counted(t)'
  <2>1. Counted(t)
    BY <1>5, <1>13
  <2>2. \A d \in Cpus \ {c} : d \in Holding' /\ result'[d][1] = t <=> d \in Holding /\ result[d][1] = t
    BY <1>8, <1>11
  <2>3. CASE t = h[1][1]
    BY <1>1, <1>2, <1>11, <2>1, <2>2, <2>3, CountReturned
  <2>4. CASE t # h[1][1]
    <3>1. \A d \in Cpus : d \in Holding' /\ result'[d][1] = t <=> d \in Holding /\ result[d][1] = t
      BY <1>11, <2>2, <2>4
    <3>2. \A g : g[1][1] = t => (g \in live' <=> g \in live)
      BY <1>2, <2>4
    <3> QED
      BY <1>2, <2>1, <3>1, <3>2, CountStays
  <2> QED
    BY <2>3, <2>4
<1> QED
  BY <1>4, <1>6, <1>7, <1>9, <1>10, <1>12, <1>13

\* A step that writes words of slabs; the rest of the cache stays.
LEMMA WriteStep ==
  ASSUME IInv, UNCHANGED <<slab, lists, live, frees>>,
         Holding' = Holding, Taken' = Taken, result' = result,
         Types', Exclusive', Selection', OwnLinks', NobodyFrees => NobodyFrees',
         \A s \in Slabs \ Listed : mem'[s] = mem[s],
         frees = 0 => \A s \in Slabs, k \in 0 .. objPerSlab - 1 : mem'[s][k * ObjWords] = mem[s][k * ObjWords]
  PROVE  IInv'
<1> USE DEF IInv, lists
<1>1. Listed' = Listed
  BY DEF Listed
<1>2. OneList' /\ UseOfLists' /\ FreshPages' /\ Places'
  BY <1>1 DEF OneList, UseOfLists, FreshPages, Places
<1>3. ASSUME NEW s \in Listed'
      PROVE  Counted(s)'
  BY <1>1, <1>3 DEF Counted
<1>4. Objects' = Objects /\ Held' = Held
  BY DEF Objects, Held
<1>5. ASSUME frees = 0
      PROVE  InOrder'
  <2>1. \A s \in Listed, k \in 0 .. objPerSlab - 2 : mem'[s][k * ObjWords] = mem[s][k * ObjWords]
    BY <1>5, ListedIsSlab, SlotCount
  <2> QED
    BY <1>1, <1>4, <1>5, <2>1 DEF InOrder
<1> QED
  BY <1>2, <1>3, <1>5

\* The link of an object that is given back is written into the object.
LEMMA FreeLinkStep ==
  ASSUME IInv, NEW c \in Cpus, FreeLink(c)
  PROVE  IInv'
<1> USE DEF IInv, Goto, callVars, lists, ghosts
<1>1. Types /\ pc \in [Cpus -> Locations]
  BY DEF Types
<1>2. PICK a \in Addresses : result[c] = a /\ a[1] \in Listed
  <2>1. result[c][1] \in Listed /\ result[c][2] \in Words
    BY DEF FreeLink, Places, Holding
  <2>2. result[c] # Data
    BY <1>1, <2>1, ListedIsSlab, SlabsAssumption DEF Data
  <2>3. result[c] \in ObjectAddresses
    BY <1>1, <2>2 DEF Types
  <2>4. result[c] \in Addresses
    BY <2>1, <2>3 DEF ObjectAddresses, Addresses
  <2> QED
    BY <2>1, <2>4
<1>3. /\ pc[c] = "free" /\ pc' = [pc EXCEPT ![c] = "freeMove"]
      /\ mem' = [mem EXCEPT ![a[1]][a[2]] = slab[a[1]].firstFree]
      /\ chosen' = [chosen EXCEPT ![c] = a[1]]
      /\ UNCHANGED <<slab, full, partial, empty, lock, result, live, frees, strayed>>
  BY <1>2 DEF FreeLink
<1>4. a[1] \in Slabs /\ a[2] \in Words /\ a = <<a[1], a[2]>>
  BY AddressIsWord
<1>5. slab[a[1]].firstFree \in Addresses \cup {Data}
  BY <1>1, <1>4 DEF Types
<1>6. /\ mem' \in [Slabs -> [Words -> Addresses \cup {Data}]]
      /\ mem'[a[1]][a[2]] = slab[a[1]].firstFree
      /\ \A s \in Slabs, w \in Words : <<s, w>> # a => mem'[s][w] = mem[s][w]
      /\ \A s \in Slabs : s # a[1] => mem'[s] = mem[s]
  BY <1>1, <1>3, <1>4, <1>5 DEF Types
<1>7. Types'
  BY <1>1, <1>3, <1>4, <1>6 DEF Types, Locations
<1>8. Exclusive'
  BY <1>1, <1>3 DEF Exclusive, Locked
<1>9. \A d \in Cpus \ {c} : pc'[d] \notin {"grow", "take", "allocDrop", "freeMove"}
  BY <1>1, <1>3 DEF Exclusive, Locked
<1>10. Selection'
  BY <1>1, <1>2, <1>3, <1>9 DEF Selection, Types
<1>11. Holding' = Holding /\ Taken' = Taken /\ (NobodyFrees => NobodyFrees')
  BY <1>1, <1>3 DEF Holding, Taken, NobodyFrees
<1>12. OwnLinks'
  <2>1. \A s \in Slabs, w \in Words : mem'[s][w] # Data => mem'[s][w][1] = s
    <3>1. SUFFICES ASSUME NEW s \in Slabs, NEW w \in Words, mem'[s][w] # Data
                   PROVE  mem'[s][w][1] = s
      OBVIOUS
    <3>2. CASE <<s, w>> = a
      BY <1>4, <1>6, <3>1, <3>2 DEF OwnLinks
    <3>3. CASE <<s, w>> # a
      BY <1>6, <3>1, <3>3 DEF OwnLinks
    <3> QED
      BY <3>2, <3>3
  <2> QED
    BY <1>3, <2>1 DEF OwnLinks
<1>13. frees # 0
  BY <1>3 DEF NobodyFrees
<1>14. \A s \in Slabs \ Listed : mem'[s] = mem[s]
  BY <1>2, <1>6
<1> QED
  BY <1>3, <1>7, <1>8, <1>10, <1>11, <1>12, <1>13, <1>14, WriteStep

\* A user writes an object.
LEMMA WriteObjectStep ==
  ASSUME IInv, NEW h \in live, WriteObject(h)
  PROVE  IInv'
<1> USE DEF IInv, callVars, lists
<1> DEFINE a == h[1]
<1>1. Types /\ pc \in [Cpus -> Locations]
  BY DEF Types
<1>2. a \in ObjectAddresses /\ a[1] \in Slabs /\ a[1] \in Listed /\ a \in Held /\ a \in Objects
  <2>1. a \in ObjectAddresses /\ a[1] \in Listed
    BY <1>1 DEF Types, Places
  <2> QED
    BY <1>1, <2>1, ListedIsSlab DEF Held, Objects
<1> HIDE DEF a
<1>3. /\ mem' = [mem EXCEPT ![a[1]] =
                   [w \in Words |-> IF <<a[1], w>> \in ObjectWords(a) THEN Data ELSE mem[a[1]][w]]]
      /\ strayed' \in BOOLEAN /\ (strayed => strayed')
      /\ UNCHANGED <<slab, full, partial, empty, lock, pc, chosen, result, live, frees>>
  BY <1>1, <1>2 DEF WriteObject, Types, a
<1>4. /\ mem' \in [Slabs -> [Words -> Addresses \cup {Data}]]
      /\ \A s \in Slabs : s # a[1] => mem'[s] = mem[s]
      /\ \A w \in Words : mem'[a[1]][w] = IF <<a[1], w>> \in ObjectWords(a) THEN Data ELSE mem[a[1]][w]
  BY <1>1, <1>2, <1>3 DEF Types
<1>5. Types' /\ Exclusive'
  BY <1>1, <1>3, <1>4 DEF Types, Exclusive, Locked
<1>6. Selection'
  BY <1>3 DEF Selection, Listed
<1>7. Holding' = Holding /\ Taken' = Taken /\ (NobodyFrees => NobodyFrees')
  BY <1>3 DEF Holding, Taken, NobodyFrees
<1>8. OwnLinks'
  <2>1. \A s \in Slabs, w \in Words : mem'[s][w] = mem[s][w] \/ mem'[s][w] = Data
    BY <1>4
  <2> QED
    BY <1>3, <2>1 DEF OwnLinks
<1>9. \A s \in Slabs \ Listed : mem'[s] = mem[s]
  BY <1>2, <1>4
<1>10. ASSUME frees = 0, NEW s \in Slabs, NEW k \in 0 .. objPerSlab - 1
       PROVE  mem'[s][k * ObjWords] = mem[s][k * ObjWords]
  <2>1. k * ObjWords \in Words /\ k * ObjWords \in Nat
    <3>1. k * ObjWords \in Nat /\ k * ObjWords + ObjWords <= PageWords
      BY SlotIsAddress
    <3> QED
      BY <3>1, SizesAssumption DEF Words
  <2>2. CASE s # a[1]
    BY <1>4, <2>2
  <2>3. CASE s = a[1]
    <3>1. PICK j \in Nat : a[2] = j * ObjWords + 1
      <4>1. PICK j \in 0 .. slab[a[1]].usedObj - 1 : a = Object(Slot(a[1], j)) /\ j < objPerSlab
        BY <1>2, <1>10 DEF InOrder
      <4>2. j \in Nat /\ a[2] = j * ObjWords + 1
        BY <1>2, <4>1, SlotIsAddress, SlotCount DEF Object
      <4> QED
        BY <4>2
    <3>2. j * ObjWords \in Nat
      BY <3>1, SizesAssumption
    <3>3. ASSUME <<a[1], k * ObjWords>> \in ObjectWords(a)
          PROVE  FALSE
      <4>1. k * ObjWords \in a[2] .. a[2] + ObjWords - 2
        BY <3>3 DEF ObjectWords
      <4> DEFINE y == k * ObjWords
                 z == j * ObjWords
      <4>2. y >= z + 1 /\ y <= z + ObjWords - 1
        BY <2>1, <3>1, <3>2, <4>1, SizesAssumption
      <4>3. k < j => y + ObjWords <= z
        BY <3>1, SizesAssumption, TimesOrder
      <4>4. j < k => z + ObjWords <= y
        BY <3>1, SizesAssumption, TimesOrder
      <4>5. j = k => y = z
        OBVIOUS
      <4>6. y \in Nat /\ z \in Nat /\ j \in Int /\ k \in Int
        BY <2>1, <3>1, <3>2
      <4> HIDE DEF y, z
      <4> QED
        BY <4>2, <4>3, <4>4, <4>5, <4>6, SizesAssumption
    <3> QED
      BY <1>4, <2>1, <2>3, <3>3
  <2> QED
    BY <2>2, <2>3
<1> QED
  BY <1>3, <1>5, <1>6, <1>7, <1>8, <1>9, <1>10, WriteStep

\* A slot that is given back is the first of its slab's chain.
LEMMA FreeMoveStep ==
  ASSUME IInv, NEW c \in Cpus, FreeMove(c)
  PROVE  IInv'
<1> USE DEF IInv, Goto, callVars, lists, ghosts
<1>2. Types /\ pc \in [Cpus -> Locations]
  BY DEF Types
<1>0. PICK s \in Slabs, a \in Addresses : /\ chosen[c] = s /\ result[c] = a /\ a[1] = s /\ s \in Listed
                                          /\ c \in Holding
  <2>1. c \in Holding /\ result[c] \in Addresses /\ chosen[c] = result[c][1]
    BY DEF FreeMove, Holding, Selection
  <2>2. result[c][1] \in Listed /\ result[c][1] \in Slabs
    BY <1>2, <2>1, ListedIsSlab DEF Places
  <2> QED
    BY <2>1, <2>2
<1> DEFINE u == slab[s].usedObj
<1>1. /\ pc[c] = "freeMove" /\ pc' = [pc EXCEPT ![c] = "freeDrop"]
      /\ slab' = [slab EXCEPT ![s].firstFree = a, ![s].usedObj = @ - 1]
      /\ full' = Without(full, s)
      /\ partial' = IF u = 1 THEN Without(partial, s) ELSE InsertFront(Without(partial, s), s)
      /\ empty' = IF u = 1 THEN InsertFront(Without(empty, s), s) ELSE Without(empty, s)
      /\ UNCHANGED <<mem, lock, chosen, result, live, frees, strayed>>
  BY <1>0 DEF FreeMove
<1>3. /\ Holding' = Holding \ {c} /\ Taken' = Taken /\ c \notin Taken /\ frees # 0
  BY <1>1, <1>2 DEF Holding, Taken, NobodyFrees
<1>4. u \in Nat /\ u > 0 /\ u <= objPerSlab
  <2> DEFINE A == {x \in live : x[1][1] = s}
             H == {d \in Holding : result[d][1] = s}
  <2>1. u = Cardinality(A) + Cardinality(H)
    BY <1>0 DEF Counted
  <2>2. IsFiniteSet(A) /\ IsFiniteSet(H) /\ c \in H
    BY <1>0, <1>2, LiveIsFinite
  <2> HIDE DEF A, H
  <2>3. Cardinality(H) \in Nat /\ Cardinality(A) \in Nat /\ Cardinality(H) # 0
    BY <2>2, FS_CardinalityType, FS_EmptySet
  <2>4. u \in Nat /\ u > 0
    BY <2>1, <2>3
  <2>5. u <= objPerSlab
    BY <1>0, <2>4, SlotCount DEF UseOfLists, Listed
  <2> QED
    BY <2>4, <2>5
<1>5. /\ slab' \in [Slabs -> [firstFree : Addresses \cup {Data}, usedObj : Nat]]
      /\ slab'[s].firstFree = a /\ slab'[s].usedObj = u - 1
      /\ \A t \in Slabs \ {s} : slab'[t] = slab[t]
  <2> DEFINE n == u - 1
  <2>1. n \in Nat
    BY <1>4
  <2>2. slab' = [slab EXCEPT ![s].firstFree = a, ![s].usedObj = n]
    BY <1>1, <1>2 DEF Types
  <2> HIDE DEF n
  <2>3. a \in Addresses \cup {Data}
    OBVIOUS
  <2>4. /\ slab' \in [Slabs -> [firstFree : Addresses \cup {Data}, usedObj : Nat]]
        /\ slab'[s].firstFree = a /\ slab'[s].usedObj = n
        /\ \A t \in Slabs \ {s} : slab'[t] = slab[t]
    BY <1>2, <2>1, <2>2, <2>3, HeaderWritten
  <2> QED
    BY <2>4 DEF n
<1>6. /\ full' \in Seq(Slabs) /\ partial' \in Seq(Slabs) /\ empty' \in Seq(Slabs)
      /\ IsInjective(full') /\ IsInjective(partial') /\ IsInjective(empty')
      /\ Range(full') = Range(full) \ {s}
      /\ Range(partial') = IF u = 1 THEN Range(partial) \ {s} ELSE Range(partial) \cup {s}
      /\ Range(empty') = IF u = 1 THEN Range(empty) \cup {s} ELSE Range(empty) \ {s}
  <2>1. /\ full \in Seq(Slabs) /\ partial \in Seq(Slabs) /\ empty \in Seq(Slabs)
        /\ IsInjective(full) /\ IsInjective(partial) /\ IsInjective(empty)
    BY <1>2 DEF Types, OneList
  <2>2. /\ Without(full, s) \in Seq(Slabs) /\ Range(Without(full, s)) = Range(full) \ {s}
        /\ IsInjective(Without(full, s))
        /\ Without(partial, s) \in Seq(Slabs) /\ Range(Without(partial, s)) = Range(partial) \ {s}
        /\ IsInjective(Without(partial, s))
        /\ Without(empty, s) \in Seq(Slabs) /\ Range(Without(empty, s)) = Range(empty) \ {s}
        /\ IsInjective(Without(empty, s))
    BY <2>1, ReducedList
  <2>3. CASE u = 1
    BY <1>1, <2>2, <2>3, InsertedList
  <2>4. CASE u # 1
    BY <1>1, <2>2, <2>4, InsertedList
  <2> QED
    BY <2>3, <2>4
<1> HIDE DEF u
<1>7. Listed' = Listed
  BY <1>0, <1>6 DEF Listed
<1>8. Types'
  BY <1>1, <1>2, <1>5, <1>6 DEF Types, Locations
<1>9. Exclusive'
  BY <1>1, <1>2 DEF Exclusive, Locked
<1>10. OneList'
  BY <1>0, <1>6 DEF OneList
<1>11. \A d \in Cpus \ {c} : pc'[d] \notin {"grow", "take", "allocDrop", "freeMove"}
  BY <1>1, <1>2 DEF Exclusive, Locked
<1>12. Selection'
  BY <1>1, <1>2, <1>11 DEF Selection
<1>13. FreshPages'
  <2>1. \A t \in Slabs \ Listed : slab'[t] = slab[t]
    BY <1>0, <1>5
  <2> QED
    BY <1>1, <1>7, <2>1 DEF FreshPages
<1>14. OwnLinks'
  BY <1>0, <1>1, <1>5 DEF OwnLinks
<1>15. Places'
  BY <1>1, <1>3, <1>7 DEF Places
<1>18. ASSUME NEW t \in Listed'
       PROVE  Counted(t)'
  <2>1. Counted(t)
    BY <1>7, <1>18
  <2>2. \A d \in Cpus \ {c} : d \in Holding' /\ result'[d][1] = t <=> d \in Holding /\ result[d][1] = t
    BY <1>1, <1>3
  <2>3. CASE t = s
    <3>1. slab'[s].usedObj = slab[s].usedObj - 1
      BY <1>5 DEF u
    <3> QED
      BY <1>0, <1>1, <1>2, <1>3, <2>1, <2>2, <2>3, <3>1, CpuDiscounted
  <2>4. CASE t # s
    <3>1. \A d \in Cpus : d \in Holding' /\ result'[d][1] = t <=> d \in Holding /\ result[d][1] = t
      BY <1>0, <1>3, <2>2, <2>4
    <3>2. slab'[t].usedObj = slab[t].usedObj
      BY <1>2, <1>5, <1>7, <1>18, <2>4, ListedIsSlab
    <3> QED
      BY <1>1, <2>1, <3>1, <3>2, CountStays
  <2> QED
    BY <2>3, <2>4
<1>19. UseOfLists'
  <2>1. \A t \in Listed \ {s} : slab'[t] = slab[t]
    BY <1>2, <1>5, ListedIsSlab
  <2>2. \A t \in Range(full) \cup Range(partial) \cup Range(empty) : t \in Listed
    BY DEF Listed
  <2>3. CASE u = 1
    <3>1. slab'[s].usedObj = 0 /\ 0 < objPerSlab
      BY <1>5, <2>3, SlotCount
    <3>2. /\ Range(full') = Range(full) \ {s} /\ Range(partial') = Range(partial) \ {s}
          /\ Range(empty') = Range(empty) \cup {s}
      BY <1>6, <2>3
    <3> QED
      BY <2>1, <2>2, <3>1, <3>2 DEF UseOfLists
  <2>4. CASE u # 1
    <3>1. slab'[s].usedObj \in 1 .. objPerSlab - 1
      BY <1>4, <1>5, <2>4, SlotCount
    <3>2. /\ Range(full') = Range(full) \ {s} /\ Range(partial') = Range(partial) \cup {s}
          /\ Range(empty') = Range(empty) \ {s}
      BY <1>6, <2>4
    <3> QED
      BY <2>1, <2>2, <3>1, <3>2 DEF UseOfLists
  <2> QED
    BY <2>3, <2>4
<1> QED
  BY <1>1, <1>3, <1>8, <1>9, <1>10, <1>12, <1>13, <1>14, <1>15, <1>18, <1>19

-----------------------------------------------------------------------------
(* The invariant of the specification. *)

LEMMA InvStep == IInv /\ [Next]_vars => IInv'
<1> SUFFICES ASSUME IInv, [Next]_vars PROVE IInv'
  OBVIOUS
<1>1. CASE UNCHANGED vars
  <2>1. /\ UNCHANGED <<mem, slab, lists, live, frees>> /\ Holding' = Holding /\ Taken' = Taken
        /\ \A c \in Holding : result'[c] = result[c]
    BY <1>1 DEF vars, callVars, ghosts, Holding, Taken
  <2>2. Types' /\ Exclusive' /\ Selection' /\ (NobodyFrees => NobodyFrees')
    BY <1>1 DEF vars, callVars, ghosts, lists, IInv, Types, Exclusive, Locked, Selection, Listed, NobodyFrees
  <2> QED
    BY <2>1, <2>2, CallStep
<1>2. ASSUME NEW c \in Cpus,
             \/ CallAlloc(c) \/ AllocAcquire(c) \/ OutOfMemory(c) \/ GrowDrop(c)
             \/ FreeAcquire(c) \/ FreeDrop(c)
      PROVE  IInv'
  BY <1>2, LockSteps
<1>3. ASSUME NEW c \in Cpus, GrowAlloc(c) \/ Select(c)
      PROVE  IInv'
  BY <1>3, ChoiceSteps
<1>4. ASSUME NEW c \in Cpus, FollowData(c) \/ FreeBehindPage(c)
      PROVE  IInv'
  BY <1>4, AstraySteps
<1>5. ASSUME NEW c \in Cpus, Grow(c) \/ Take(c) \/ AllocDrop(c) \/ FreeLink(c) \/ FreeMove(c)
      PROVE  IInv'
  BY <1>5, GrowStep, TakeStep, AllocDropStep, FreeLinkStep, FreeMoveStep
<1>6. ASSUME NEW c \in Cpus, NEW h \in live, CallFree(c, h)
      PROVE  IInv'
  BY <1>6, CallFreeStep
<1>7. ASSUME NEW h \in live, WriteObject(h)
      PROVE  IInv'
  BY <1>7, WriteObjectStep
<1> QED
  BY <1>1, <1>2, <1>3, <1>4, <1>5, <1>6, <1>7 DEF Next

LEMMA InvHolds == Spec => []IInv
  BY InvInit, InvStep, PTL DEF Spec

-----------------------------------------------------------------------------
(* What the cache promises. *)

\* The words of an object lie in the slot of its number.
LEMMA WordsOfObject ==
  ASSUME NEW s, NEW k \in Nat, NEW x \in ObjectWords(Object(Slot(s, k)))
  PROVE  x[1] = s /\ x[2] \div ObjWords = k
<1>1. k * ObjWords \in Nat
  BY SizesAssumption
<1> DEFINE m == k * ObjWords
<1> HIDE DEF m
<1>2. Object(Slot(s, k)) = <<s, m + 1>>
  BY DEF Object, Slot, m
<1>3. PICK w \in m + 1 .. m + 1 + ObjWords - 2 : x = <<s, w>>
  BY <1>2 DEF ObjectWords
<1>4. w - m \in 0 .. ObjWords - 1 /\ w = m + (w - m) /\ m \in Nat
  BY <1>1, <1>3, SizesAssumption DEF m
<1>5. (m + (w - m)) \div ObjWords = k
  BY <1>4, Digits DEF m
<1> QED
  BY <1>3, <1>4, <1>5

\* As long as slabFree was not called, no two objects share a word, whichever
\* CPUs slabAlloc returned them to, and none is handed out twice.
THEOREM ObjectsShareNothing == Spec => []ObjectsAreDisjoint
<1>1. ASSUME IInv, frees = 0
      PROVE  /\ \A a, b \in Objects : a # b => ObjectWords(a) \cap ObjectWords(b) = {}
             /\ \A g, h \in live : g[1] = h[1] => g = h
             /\ \A c \in Taken : /\ Object(result[c]) \notin Held
                                /\ \A d \in Taken \ {c} : result[d] # result[c]
  <2>1. InOrder
    BY <1>1 DEF IInv
  <2>2. ASSUME NEW a \in Objects, NEW b \in Objects, NEW x \in ObjectWords(a), x \in ObjectWords(b)
        PROVE  a = b
    <3>1. PICK j \in 0 .. slab[a[1]].usedObj - 1 : a = Object(Slot(a[1], j)) /\ j < objPerSlab
      BY <2>1 DEF InOrder
    <3>2. PICK k \in 0 .. slab[b[1]].usedObj - 1 : b = Object(Slot(b[1], k)) /\ k < objPerSlab
      BY <2>1 DEF InOrder
    <3>3. j \in Nat /\ k \in Nat
      OBVIOUS
    <3>4. x[1] = a[1] /\ x[2] \div ObjWords = j
      BY <3>1, <3>3, WordsOfObject
    <3>5. x[1] = b[1] /\ x[2] \div ObjWords = k
      BY <2>2, <3>2, <3>3, WordsOfObject
    <3> QED
      BY <3>1, <3>2, <3>4, <3>5
  <2>3. \A c, d \in Taken : c = d
    BY <1>1 DEF IInv, Exclusive, Taken, Locked
  <2> QED
    BY <2>1, <2>2, <2>3 DEF InOrder
<1>2. IInv => ObjectsAreDisjoint
  BY <1>1 DEF ObjectsAreDisjoint
<1> QED
  BY <1>2, InvHolds, PTL

\* As long as slabFree was not called, the links from firstFree thread exactly
\* the slots that are not taken, and the uninitialised link of the last slot
\* that slabAllocSlab leaves is never followed.
THEOREM ListThreadsFreeSlots == Spec => []FreeListIsExact
<1>1. ASSUME IInv, frees = 0, NEW s \in Listed
      PROVE  FreeChain(s, objPerSlab - slab[s].usedObj) =
               {Slot(s, k) : k \in {k \in 0 .. objPerSlab - 1 : Object(Slot(s, k)) \notin Objects}}
  <2> USE SlotCount, SizesAssumption
  <2> DEFINE u == slab[s].usedObj
             n == objPerSlab - u
             A == Addresses \cup {Data}
             link == [a \in A |-> IF a = Data THEN Data ELSE mem[a[1]][a[2]]]
  <2>2. InOrder /\ Types /\ UseOfLists /\ s \in Slabs
    BY <1>1, ListedIsSlab DEF IInv
  <2>3. u \in Nat /\ u <= objPerSlab
    BY <2>2 DEF Types, UseOfLists, Listed
  <2>4. slab[s].firstFree \in A /\ link \in [A -> A]
    <3>1. \A a \in Addresses : a[1] \in Slabs /\ a[2] \in Words
      BY DEF Addresses
    <3> QED
      BY <2>2, <3>1 DEF Types
  <2> DEFINE chain[j \in Nat] ==
               IF j = 0 THEN slab[s].firstFree
               ELSE LET a == chain[j - 1] IN IF a = Data THEN Data ELSE mem[a[1]][a[2]]
             Body(f) == [j \in Nat |-> IF j = 0 THEN slab[s].firstFree
                                      ELSE IF f[j - 1] = Data THEN Data ELSE mem[f[j - 1][1]][f[j - 1][2]]]
  <2>5. \E f : f = Body(f)
    <3> HIDE DEF A, link
    <3>1. PICK f \in [Nat -> A] : f[0] = slab[s].firstFree /\ \A j \in Nat : f[j + 1] = link[f[j]]
      <4>1. \A x \in A, step \in [A -> A] :
              \E f \in [Nat -> A] : f[0] = x /\ \A j \in Nat : f[j + 1] = step[f[j]]
        BY IterationExists
      <4> QED
        BY <2>4, <4>1
    <3>2. ASSUME NEW j \in Nat
          PROVE  f[j] = Body(f)[j]
      <4>1. CASE j = 0
        BY <3>1, <4>1
      <4>2. CASE j # 0
        <5>1. j - 1 \in Nat /\ (j - 1) + 1 = j
          BY <4>2
        <5>2. f[j] = link[f[j - 1]] /\ f[j - 1] \in A
          BY <3>1, <5>1
        <5> QED
          BY <4>2, <5>2 DEF link
      <4> QED
        BY <4>1, <4>2
    <3>3. f = [j \in Nat |-> f[j]] /\ Body(f) = [j \in Nat |-> Body(f)[j]]
      BY <3>1
    <3> QED
      BY <3>2, <3>3
  <2>6. chain = Body(chain)
    BY <2>5, Zenon DEF chain
  <2>7. FreeChain(s, n) = {chain[j] : j \in 0 .. n - 1}
    BY Zenon DEF FreeChain, chain
  <2> HIDE DEF chain, A, link
  <2>8. ASSUME NEW j \in 0 .. n - 1
        PROVE  chain[j] = Slot(s, u + j)
    <3> DEFINE S == {i \in 0 .. n - 1 : chain[i] # Slot(s, u + i)}
    <3>1. SUFFICES ASSUME S # {} PROVE FALSE
      OBVIOUS
    <3>2. S \in SUBSET Nat
      BY <2>3
    <3>3. PICK m \in S : \A i \in S : m <= i
      BY <3>1, <3>2, LeastExists
    <3>4. m # 0
      <4>1. chain[0] = slab[s].firstFree
        BY <2>6
      <4>2. u < objPerSlab /\ u + 0 = u
        BY <2>3
      <4> QED
        BY <1>1, <2>2, <3>3, <4>1, <4>2 DEF InOrder
    <3>5. m - 1 \in 0 .. n - 1 /\ m - 1 \notin S /\ m \in Nat /\ m <= n - 1
      BY <2>3, <3>3, <3>4
    <3> DEFINE k == u + (m - 1)
    <3>6. k \in 0 .. objPerSlab - 2 /\ u <= k /\ k + 1 = u + m
      BY <2>3, <3>4, <3>5
    <3>7. chain[m - 1] = Slot(s, k)
      BY <3>5
    <3> HIDE DEF k
    <3>8. Slot(s, k) \in Addresses /\ Slot(s, k)[1] = s /\ Slot(s, k)[2] = k * ObjWords
      BY <2>2, <3>6, SlotIsAddress
    <3>9. chain[m] = mem[s][k * ObjWords]
      <4>1. chain[m] = IF chain[m - 1] = Data THEN Data ELSE mem[chain[m - 1][1]][chain[m - 1][2]]
        BY <2>6, <3>4, <3>5
      <4> QED
        BY <3>7, <3>8, <4>1, NoAddress
    <3>10. mem[s][k * ObjWords] = Slot(s, k + 1)
      BY <1>1, <2>2, <3>6 DEF InOrder
    <3> QED
      BY <3>3, <3>6, <3>9, <3>10
  <2>9. ASSUME NEW k \in 0 .. objPerSlab - 1
        PROVE  Object(Slot(s, k)) \notin Objects <=> u <= k
    <3>1. ASSUME ~ (u <= k) PROVE Object(Slot(s, k)) \in Objects
      <4>1. k \in 0 .. u - 1
        BY <2>3, <3>1
      <4> QED
        BY <1>1, <2>2, <4>1 DEF InOrder
    <3>2. ASSUME u <= k, Object(Slot(s, k)) \in Objects PROVE FALSE
      <4>1. Object(Slot(s, k))[1] = s
        BY DEF Object, Slot
      <4>2. PICK j \in 0 .. u - 1 : Object(Slot(s, k)) = Object(Slot(s, j))
        BY <2>2, <3>2, <4>1 DEF InOrder
      <4>3. k * ObjWords \in Nat /\ j * ObjWords \in Nat /\ j \in Nat /\ k \in Nat
        BY <2>3
      <4>4. k * ObjWords + 1 = j * ObjWords + 1
        BY <4>2 DEF Object, Slot
      <4>5. k = j
        BY <4>3, <4>4, SlotsDiffer
      <4> QED
        BY <2>3, <3>2, <4>5
    <3> QED
      BY <3>1, <3>2
  <2>10. {chain[j] : j \in 0 .. n - 1} =
           {Slot(s, k) : k \in {k \in 0 .. objPerSlab - 1 : Object(Slot(s, k)) \notin Objects}}
    <3> DEFINE K == {k \in 0 .. objPerSlab - 1 : Object(Slot(s, k)) \notin Objects}
    <3>1. ASSUME NEW j \in 0 .. n - 1
          PROVE  u + j \in K
      <4>1. u + j \in 0 .. objPerSlab - 1 /\ u <= u + j
        BY <2>3
      <4> QED
        BY <2>9, <4>1
    <3>2. ASSUME NEW k \in K
          PROVE  k - u \in 0 .. n - 1 /\ u + (k - u) = k
      <4>1. k \in 0 .. objPerSlab - 1 /\ u <= k
        BY <2>9
      <4> QED
        BY <2>3, <4>1
    <3> HIDE DEF K, n, u
    <3>3. {chain[j] : j \in 0 .. n - 1} = {Slot(s, k) : k \in K}
      BY <2>8, <3>1, <3>2
    <3> QED
      BY <3>3 DEF K
  <2> QED
    BY <2>7, <2>10
<1>2. IInv => FreeListIsExact
  BY <1>1 DEF FreeListIsExact
<1> QED
  BY <1>2, InvHolds, PTL

\* The types of the C variables, however often objects were freed; usedObj
\* never passes objPerSlab.
THEOREM TypesHold == Spec => []TypeOK
<1>1. ASSUME IInv PROVE TypeOK
  <2>2. Types /\ UseOfLists /\ FreshPages
    BY <1>1 DEF IInv
  <2>3. ASSUME NEW s \in Slabs
        PROVE  slab[s].usedObj \in 0 .. objPerSlab
    <3>1. slab[s].usedObj \in Nat
      BY <2>2 DEF Types
    <3>2. slab[s].usedObj <= objPerSlab
      BY <2>2, <3>1, SlotCount DEF UseOfLists, FreshPages, Listed
    <3> QED
      BY <3>1, <3>2, SlotCount
  <2>4. slab \in [Slabs -> [firstFree : Addresses \cup {Data}, usedObj : 0 .. objPerSlab]]
    <3> DEFINE A == Addresses \cup {Data}
    <3>1. slab \in [Slabs -> [firstFree : A, usedObj : Nat]]
      BY <2>2 DEF Types
    <3> HIDE DEF A
    <3>2. \A s \in Slabs : slab[s] \in [firstFree : A, usedObj : 0 .. objPerSlab]
      BY <2>3, <3>1
    <3>3. slab \in [Slabs -> [firstFree : A, usedObj : 0 .. objPerSlab]]
      BY <3>1, <3>2
    <3> QED
      BY <3>3 DEF A
  <2> QED
    BY <1>1, <2>2, <2>4 DEF TypeOK, Types, IInv
<1> QED
  BY <1>1, InvHolds, PTL

\* However often objects were freed: until a page is overrun, slabAlloc and
\* slabFree keep each slab in the one list that its use calls for.
THEOREM ListsAreKept == Spec => []ListsMatchUse
<1>1. ASSUME IInv PROVE ListsMatchUse
  <2>2. Types /\ UseOfLists /\ OneList
    BY <1>1 DEF IInv
  <2>3. Len(full) + Len(partial) + Len(empty) = Cardinality(Listed)
    <3> DEFINE A == Range(full)
               B == Range(partial)
               C == Range(empty)
    <3>1. /\ IsFiniteSet(A) /\ Cardinality(A) = Len(full) /\ Len(full) \in Nat
          /\ IsFiniteSet(B) /\ Cardinality(B) = Len(partial) /\ Len(partial) \in Nat
          /\ IsFiniteSet(C) /\ Cardinality(C) = Len(empty) /\ Len(empty) \in Nat
      BY <2>2, ListLength DEF Types, OneList
    <3>2. A \cap B = {} /\ (A \cup B) \cap C = {} /\ Listed = (A \cup B) \cup C
      BY <2>2 DEF OneList, Listed
    <3> HIDE DEF A, B, C
    <3>3. IsFiniteSet(A \cup B) /\ Cardinality(A \cup B) = Cardinality(A) + Cardinality(B)
      BY <3>1, <3>2, SizeOfUnion
    <3>4. Cardinality((A \cup B) \cup C) = Cardinality(A \cup B) + Cardinality(C)
      BY <3>1, <3>2, <3>3, SizeOfUnion
    <3> QED
      BY <3>1, <3>2, <3>3, <3>4
  <2> QED
    BY <2>2, <2>3 DEF ListsMatchUse, UseOfLists
<1> QED
  BY <1>1, InvHolds, PTL

\* However often objects were freed, and also when two users hold one address:
\* until a page is overrun usedObj is the number of a slab's objects that users,
\* slabAlloc and slabFree hold.
THEOREM UseIsCounted == Spec => []UsedIsCounted
<1>1. ASSUME IInv, ~strayed PROVE \A s \in Listed :
        slab[s].usedObj =
            Cardinality({h \in live : h[1][1] = s})
          + Cardinality({c \in Cpus : /\ pc[c] \in {"allocDrop", "freeAcquire", "free", "freeMove"}
                                      /\ result[c][1] = s})
  <2>1. \A s \in Listed : Counted(s)
    BY <1>1 DEF IInv
  <2>2. \A c \in Cpus : pc[c] # "astray"
    BY <1>1 DEF IInv, Exclusive
  <2>3. \A s : {c \in Holding : result[c][1] = s} =
               {c \in Cpus : /\ pc[c] \in {"allocDrop", "freeAcquire", "free", "freeMove"}
                            /\ result[c][1] = s}
    BY <2>2 DEF Holding
  <2> QED
    BY <2>1, <2>3 DEF Counted
<1>2. IInv => UsedIsCounted
  BY <1>1 DEF UsedIsCounted
<1> QED
  BY <1>2, InvHolds, PTL
=============================================================================
