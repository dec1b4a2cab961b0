------------------------------ MODULE VfsProofs ------------------------------
(* Proofs about the file system: lookups see one tree, and it is the one    *)
(* that the calls promise.                                                  *)
EXTENDS VfsRefinement, WellFoundedInduction, TLAPS

\* A set of natural numbers has a least element.
LEMMA LeastExists ==
  ASSUME NEW S \in SUBSET Nat, S # {}
  PROVE  \E m \in S : \A n \in S : m <= n
<1> DEFINE R == {p \in Nat \X Nat : p[1] < p[2]}
<1>1. IsWellFoundedOn(R, Nat)
  BY NatLessThanWellFounded DEF OpToRel
<1>2. PICK m \in S : \A n \in S : ~ (<<n, m>> \in R)
  BY <1>1, WFMin
<1>3. \A n \in S : ~ (n < m)
  BY <1>2
<1> QED
  BY <1>3

\* The places of a concatenation.
LEMMA Joined ==
  ASSUME NEW T, NEW a \in Seq(T), NEW b \in Seq(T)
  PROVE  /\ a \o b \in Seq(T)
         /\ Len(a \o b) = Len(a) + Len(b)
         /\ \A i \in 1 .. Len(a) : (a \o b)[i] = a[i]
         /\ \A i \in 1 .. Len(b) : (a \o b)[Len(a) + i] = b[i]
  OBVIOUS

\* An element in front of a list.
LEMMA PrependedList ==
  ASSUME NEW T, NEW x \in T, NEW l \in Seq(T)
  PROVE  /\ <<x>> \o l \in Seq(T) /\ Len(<<x>> \o l) = Len(l) + 1
         /\ \A i \in DOMAIN (<<x>> \o l) :
              (<<x>> \o l)[i] = x \/ \E j \in DOMAIN l : (<<x>> \o l)[i] = l[j]
         /\ Range(<<x>> \o l) = Range(l) \cup {x}
<1> DEFINE m == <<x>> \o l
<1>1. m \in Seq(T) /\ Len(m) = Len(l) + 1 /\ Len(l) \in Nat
      /\ m[1] = x /\ \A i \in 1 .. Len(l) : m[i + 1] = l[i]
  OBVIOUS
<1>2. \A i \in 1 .. Len(m) : i = 1 \/ (i - 1 \in 1 .. Len(l) /\ m[i] = l[i - 1])
  BY <1>1
<1>3. DOMAIN m = 1 .. Len(m) /\ DOMAIN l = 1 .. Len(l)
  BY <1>1
<1> HIDE DEF m
<1>4. ASSUME NEW i \in DOMAIN m PROVE m[i] = x \/ \E j \in DOMAIN l : m[i] = l[j]
  BY <1>1, <1>2, <1>3
<1>5. ASSUME NEW j \in DOMAIN l PROVE \E i \in DOMAIN m : m[i] = l[j]
  <2>1. j + 1 \in DOMAIN m /\ m[j + 1] = l[j]
    BY <1>1, <1>3
  <2> QED
    BY <2>1
<1>6. \E i \in DOMAIN m : m[i] = x
  BY <1>1, <1>3
<1>7. Range(m) = Range(l) \cup {x}
  BY <1>4, <1>5, <1>6 DEF Range
<1> QED
  BY <1>1, <1>4, <1>7 DEF m

-----------------------------------------------------------------------------
(* Sequences of names, and recursion. *)

\* All texts; that the two are in STRING is not known to the provers.
Texts == STRING \cup {"", "dev"}
Paths == Seq(Texts)

LEMMA AppendedTo ==
  ASSUME NEW T, NEW p \in Seq(T), NEW a \in T
  PROVE  /\ Append(p, a) \in Seq(T) /\ Len(Append(p, a)) = Len(p) + 1 /\ Len(p) \in Nat
         /\ Append(p, a)[Len(p) + 1] = a
         /\ \A i \in 1 .. Len(p) : Append(p, a)[i] = p[i]
  OBVIOUS

LEMMA Appended ==
  ASSUME NEW p \in Paths, NEW a \in Texts
  PROVE  /\ Append(p, a) \in Paths /\ Len(Append(p, a)) = Len(p) + 1 /\ Len(p) \in Nat
         /\ Append(p, a)[Len(p) + 1] = a
         /\ \A i \in 1 .. Len(p) : Append(p, a)[i] = p[i]
  BY AppendedTo DEF Paths

\* A path is empty, or a shorter one with a name behind it.
LEMMA LastOff ==
  ASSUME NEW p \in Paths, p # <<>>
  PROVE  \E q \in Paths, a \in Texts : p = Append(q, a) /\ Len(q) + 1 = Len(p)
<1> DEFINE n == Len(p)
           q == [i \in 1 .. n - 1 |-> p[i]]
<1>1. n \in Nat /\ n # 0 /\ p = [i \in 1 .. n |-> p[i]] /\ \A i \in 1 .. n : p[i] \in Texts
  BY DEF Paths
<1>2. q \in Paths /\ Len(q) = n - 1
  BY <1>1 DEF Paths
<1>3. p[n] \in Texts
  BY <1>1
<1>4. Append(q, p[n]) = p
  <2> DEFINE r == Append(q, p[n])
  <2>1. /\ r \in Paths /\ Len(r) = n /\ r[n] = p[n]
        /\ \A i \in 1 .. n - 1 : r[i] = q[i]
    BY <1>1, <1>2, <1>3, Appended
  <2>2. \A i \in 1 .. n : r[i] = p[i]
    <3>1. \A i \in 1 .. n : i = n \/ i \in 1 .. n - 1
      BY <1>1
    <3>2. \A i \in 1 .. n - 1 : q[i] = p[i]
      OBVIOUS
    <3> HIDE DEF q, r
    <3> QED
      BY <2>1, <3>1, <3>2
  <2>3. r = [i \in 1 .. n |-> r[i]]
    <3> HIDE DEF q, r
    <3> QED
      BY <2>1 DEF Paths
  <2> QED
    BY <1>1, <2>2, <2>3
<1>5. Len(q) + 1 = n
  BY <1>1, <1>2
<1> HIDE DEF q
<1> QED
  BY <1>2, <1>3, <1>4, <1>5

LEMMA PathInduction ==
  ASSUME NEW S, <<>> \in S, \A p \in Paths, a \in Texts : p \in S => Append(p, a) \in S
  PROVE  Paths \subseteq S
<1> DEFINE bad == {Len(p) : p \in Paths \ S}
<1>1. SUFFICES ASSUME bad # {} PROVE FALSE
  OBVIOUS
<1>2. bad \in SUBSET Nat
  BY DEF Paths
<1>3. PICK m \in bad : \A k \in bad : m <= k
  BY <1>1, <1>2, LeastExists
<1>4. PICK p \in Paths \ S : Len(p) = m
  BY <1>3
<1>5. PICK q \in Paths, a \in Texts : p = Append(q, a) /\ Len(q) + 1 = Len(p)
  BY <1>4, LastOff
<1>6. Len(q) \in Nat /\ ~ (m <= Len(q))
  BY <1>4, <1>5, Appended
<1>7. q \in S
  BY <1>3, <1>6
<1> QED
  BY <1>4, <1>5, <1>7

\* The same for numbers.
LEMMA NatInductionTo ==
  ASSUME NEW N \in Nat, NEW S, 0 \in S, \A i \in 1 .. N : i - 1 \in S => i \in S
  PROVE  0 .. N \subseteq S
<1> DEFINE bad == {i \in 0 .. N : i \notin S}
<1>1. SUFFICES ASSUME bad # {} PROVE FALSE
  OBVIOUS
<1>2. PICK m \in bad : \A k \in bad : m <= k
  <2>1. bad \in SUBSET Nat
    OBVIOUS
  <2> QED
    BY <1>1, <2>1, LeastExists
<1>3. m \in 1 .. N /\ m - 1 \in 0 .. N /\ ~ (m <= m - 1)
  BY <1>2
<1> QED
  BY <1>2, <1>3

\* A recursion over 0 .. N has a value.
LEMMA RecursionExists ==
  ASSUME NEW A, NEW x \in A, NEW N \in Nat, NEW step \in [(1 .. N) \X A -> A]
  PROVE  \E f \in [0 .. N -> A] : f[0] = x /\ \A i \in 1 .. N : f[i] = step[<<i, f[i - 1]>>]
<1> DEFINE good(n, f) == f \in [0 .. n -> A] /\ f[0] = x /\ \A i \in 1 .. n : f[i] = step[<<i, f[i - 1]>>]
           S == {n \in 0 .. N : \E f : good(n, f)}
<1>1. 0 \in S
  <2> DEFINE f == [i \in 0 .. 0 |-> x]
  <2>1. good(0, f)
    OBVIOUS
  <2>2. 0 \in 0 .. N
    OBVIOUS
  <2> HIDE DEF f, good
  <2> QED
    BY <2>1, <2>2
<1>2. ASSUME NEW n \in 1 .. N, n - 1 \in S
      PROVE  n \in S
  <2>1. PICK f : good(n - 1, f)
    BY <1>2
  <2> DEFINE y == step[<<n, f[n - 1]>>]
             g == [i \in 0 .. n |-> IF i = n THEN y ELSE f[i]]
  <2>2. n - 1 \in 0 .. n - 1 /\ f[n - 1] \in A
    BY <2>1
  <2>3. y \in A
    BY <2>2
  <2> HIDE DEF y
  <2>4. g \in [0 .. n -> A]
    BY <2>1, <2>3
  <2>5. /\ g[n] = y /\ \A i \in 0 .. n - 1 : g[i] = f[i]
    OBVIOUS
  <2>6. g[0] = x
    BY <2>1, <2>5
  <2> HIDE DEF g
  <2>7. ASSUME NEW i \in 1 .. n PROVE g[i] = step[<<i, g[i - 1]>>]
    <3>1. i - 1 \in 0 .. n - 1 /\ g[i - 1] = f[i - 1]
      BY <2>5
    <3>2. CASE i = n
      BY <2>5, <3>1, <3>2 DEF y
    <3>3. CASE i # n
      <4>1. i \in 1 .. n - 1 /\ i \in 0 .. n - 1
        BY <3>3
      <4> QED
        BY <2>1, <2>5, <3>1, <4>1
    <3> QED
      BY <3>2, <3>3
  <2> QED
    BY <2>4, <2>6, <2>7
<1> HIDE DEF S
<1>3. N \in S
  <2>1. 0 .. N \subseteq S
    BY <1>1, <1>2, NatInductionTo
  <2> QED
    BY <2>1
<1> QED
  BY <1>3 DEF S

-----------------------------------------------------------------------------
(* Where paths lead.  L[<<n, a>>] is the node that name a leads to from     *)
(* node n, or Null.                                                         *)

Graphs == [Nat \X Texts -> Nat]

Walk(L, p, h) ==
  /\ h \in [0 .. Len(p) -> Nat]
  /\ h[0] = 2
  /\ \A i \in 1 .. Len(p) : h[i] = L[<<h[i - 1], p[i]>>] /\ h[i] # Null

Leads(L, p, n) == p \in Paths /\ \E h : Walk(L, p, h) /\ n = h[Len(p)]

\* The empty path leads to the root's node.
LEMMA LeadsFirst ==
  ASSUME NEW L
  PROVE  \A n : Leads(L, <<>>, n) <=> n = 2
<1>1. <<>> \in Paths /\ Len(<<>>) = 0
  BY DEF Paths
<1>2. Walk(L, <<>>, [i \in 0 .. 0 |-> 2])
  BY <1>1 DEF Walk
<1>3. ASSUME NEW h, Walk(L, <<>>, h) PROVE h[0] = 2
  BY <1>3 DEF Walk
<1> QED
  BY <1>1, <1>2, <1>3 DEF Leads

LEMMA LeadsOn ==
  ASSUME NEW L \in Graphs, NEW p, NEW n, Leads(L, p, n), NEW a \in Texts, L[<<n, a>>] # Null
  PROVE  Leads(L, Append(p, a), L[<<n, a>>])
<1>1. p \in Paths /\ Len(p) \in Nat
  BY Appended DEF Leads
<1>2. PICK h : Walk(L, p, h) /\ n = h[Len(p)]
  BY DEF Leads
<1> DEFINE q == Append(p, a)
           m == L[<<n, a>>]
           k == Len(p)
           g == [i \in 0 .. k + 1 |-> IF i = k + 1 THEN m ELSE h[i]]
<1>3. /\ h \in [0 .. k -> Nat] /\ h[0] = 2
      /\ \A i \in 1 .. k : h[i] = L[<<h[i - 1], p[i]>>] /\ h[i] # Null
  BY <1>2 DEF Walk
<1>4. n \in Nat /\ m \in Nat
  <2>1. n \in Nat
    BY <1>1, <1>2, <1>3
  <2> QED
    BY <2>1 DEF Graphs
<1>5. q \in Paths /\ Len(q) = k + 1 /\ q[k + 1] = a /\ \A i \in 1 .. k : q[i] = p[i]
  BY <1>1, Appended
<1>6. k \in Nat
  BY <1>1
<1> HIDE DEF q, k
<1>7. g[k + 1] = m /\ \A i \in 0 .. k : g[i] = h[i]
  BY <1>6
<1>8. g \in [0 .. k + 1 -> Nat]
  BY <1>3, <1>4, <1>6
<1> HIDE DEF g
<1>9. ASSUME NEW i \in 1 .. k + 1
      PROVE  g[i] = L[<<g[i - 1], q[i]>>] /\ g[i] # Null
  <2>1. i - 1 \in 0 .. k /\ g[i - 1] = h[i - 1]
    BY <1>6, <1>7
  <2>2. CASE i = k + 1
    <3>1. i - 1 = k
      BY <1>6, <2>2
    <3> QED
      BY <1>2, <1>5, <1>7, <2>1, <2>2, <3>1 DEF k
  <2>3. CASE i # k + 1
    <3>1. i \in 1 .. k /\ i \in 0 .. k
      BY <1>6, <2>3
    <3> QED
      BY <1>3, <1>5, <1>7, <2>1, <3>1
  <2> QED
    BY <2>2, <2>3
<1>10. Walk(L, q, g)
  <2>1. g[0] = 2
    BY <1>3, <1>6, <1>7
  <2> QED
    BY <1>5, <1>8, <1>9, <2>1 DEF Walk
<1> QED
  BY <1>5, <1>7, <1>10 DEF Leads, q

LEMMA LeadsBack ==
  ASSUME NEW L \in Graphs, NEW p \in Paths, NEW a \in Texts, NEW m, Leads(L, Append(p, a), m)
  PROVE  \E n \in Nat : Leads(L, p, n) /\ m = L[<<n, a>>] /\ m # Null
<1> DEFINE q == Append(p, a)
           k == Len(p)
<1>1. k \in Nat /\ Len(q) = k + 1 /\ q[k + 1] = a /\ \A i \in 1 .. k : q[i] = p[i]
  BY Appended
<1>2. PICK h : Walk(L, q, h) /\ m = h[k + 1]
  BY <1>1 DEF Leads
<1>3. /\ h \in [0 .. k + 1 -> Nat] /\ h[0] = 2
      /\ \A i \in 1 .. k + 1 : h[i] = L[<<h[i - 1], q[i]>>] /\ h[i] # Null
  BY <1>1, <1>2 DEF Walk
<1> HIDE DEF q, k
<1> DEFINE g == [i \in 0 .. k |-> h[i]]
<1>4. g \in [0 .. k -> Nat] /\ \A i \in 0 .. k : g[i] = h[i]
  BY <1>1, <1>3
<1> HIDE DEF g
<1>5. ASSUME NEW i \in 1 .. k
      PROVE  g[i] = L[<<g[i - 1], p[i]>>] /\ g[i] # Null
  <2>1. i \in 1 .. k + 1 /\ i \in 0 .. k /\ i - 1 \in 0 .. k
    BY <1>1
  <2> QED
    BY <1>1, <1>3, <1>4, <2>1
<1>6. Walk(L, p, g)
  <2>1. 0 \in 0 .. k
    BY <1>1
  <2> QED
    BY <1>3, <1>4, <1>5, <2>1 DEF Walk, k
<1>7. k + 1 \in 1 .. k + 1 /\ (k + 1) - 1 = k /\ k \in 0 .. k
  BY <1>1
<1>8. g[k] \in Nat /\ m = L[<<g[k], a>>] /\ m # Null
  BY <1>1, <1>2, <1>3, <1>4, <1>7
<1> QED
  BY <1>6, <1>8 DEF Leads, k

\* A path leads to one node.
LEMMA LeadsUnique ==
  ASSUME NEW L \in Graphs
  PROVE  \A p \in Paths : \A m, n : Leads(L, p, m) /\ Leads(L, p, n) => m = n
<1> DEFINE S == {p \in Paths : \A m, n \in Nat : Leads(L, p, m) /\ Leads(L, p, n) => m = n}
<1>1. <<>> \in S
  BY LeadsFirst DEF Paths
<1>2. ASSUME NEW p \in Paths, NEW a \in Texts, p \in S
      PROVE  Append(p, a) \in S
  <2>1. ASSUME NEW m, NEW n, Leads(L, Append(p, a), m), Leads(L, Append(p, a), n)
        PROVE  m = n
    <3>1. PICK x \in Nat : Leads(L, p, x) /\ m = L[<<x, a>>]
      BY <2>1, LeadsBack
    <3>2. PICK y \in Nat : Leads(L, p, y) /\ n = L[<<y, a>>]
      BY <2>1, LeadsBack
    <3> QED
      BY <1>2, <3>1, <3>2
  <2> QED
    BY <2>1, Appended
<1>3. Paths \subseteq S
  <2> HIDE DEF S
  <2> QED
    BY <1>1, <1>2, PathInduction
<1>4. ASSUME NEW p \in Paths, NEW n, Leads(L, p, n)
      PROVE  n \in Nat
  <2>1. PICK h : Walk(L, p, h) /\ n = h[Len(p)]
    BY <1>4 DEF Leads
  <2>2. Len(p) \in 0 .. Len(p)
    BY DEF Paths
  <2> QED
    BY <2>1, <2>2 DEF Walk
<1> QED
  BY <1>3, <1>4

\* Names lead to later nodes.
Rising(L) == \A n \in Nat, a \in Texts : L[<<n, a>>] = Null \/ L[<<n, a>>] > n

LEMMA LeadsUp ==
  ASSUME NEW L \in Graphs, Rising(L)
  PROVE  \A p \in Paths : \A n : Leads(L, p, n) => n \in Nat /\ n >= Len(p) + 2
<1> DEFINE S == {p \in Paths : \A n : Leads(L, p, n) => n \in Nat /\ n >= Len(p) + 2}
<1>1. <<>> \in S
  BY LeadsFirst DEF Paths
<1>2. ASSUME NEW p \in Paths, NEW a \in Texts, p \in S
      PROVE  Append(p, a) \in S
  <2>1. ASSUME NEW m, Leads(L, Append(p, a), m)
        PROVE  m \in Nat /\ m >= Len(Append(p, a)) + 2
    <3>1. PICK n \in Nat : Leads(L, p, n) /\ m = L[<<n, a>>] /\ m # Null
      BY <2>1, LeadsBack
    <3>2. n >= Len(p) + 2 /\ m > n /\ m \in Nat
      BY <1>2, <3>1 DEF Rising, Graphs
    <3>3. Len(Append(p, a)) = Len(p) + 1 /\ Len(p) \in Nat
      BY Appended
    <3> QED
      BY <3>1, <3>2, <3>3
  <2> QED
    BY <2>1, Appended
<1> HIDE DEF S
<1>3. Paths \subseteq S
  BY <1>1, <1>2, PathInduction
<1> QED
  BY <1>3 DEF S

\* No two names lead to one node, so a node has one path.
Separate(L) ==
  \A m, n \in Nat, a, b \in Texts :
    L[<<m, a>>] = L[<<n, b>>] /\ L[<<m, a>>] # Null => m = n /\ a = b

LEMMA PathUnique ==
  ASSUME NEW L \in Graphs, Rising(L), Separate(L)
  PROVE  \A p, q \in Paths : \A n : Leads(L, p, n) /\ Leads(L, q, n) => p = q
<1> DEFINE S == {p \in Paths : \A q \in Paths : \A n : Leads(L, p, n) /\ Leads(L, q, n) => p = q}
<1>1. ASSUME NEW q \in Paths, Leads(L, q, 2)
      PROVE  q = <<>>
  <2>1. 2 >= Len(q) + 2 /\ Len(q) \in Nat
    BY <1>1, LeadsUp DEF Paths
  <2> QED
    BY <2>1 DEF Paths
<1>2. <<>> \in S
  BY <1>1, LeadsFirst DEF Paths
<1>3. ASSUME NEW p \in Paths, NEW a \in Texts, p \in S
      PROVE  Append(p, a) \in S
  <2>1. ASSUME NEW q \in Paths, NEW n, Leads(L, Append(p, a), n), Leads(L, q, n)
        PROVE  Append(p, a) = q
    <3>1. q # <<>>
      <4>1. SUFFICES ASSUME q = <<>> PROVE FALSE
        OBVIOUS
      <4>2. n = 2
        BY <2>1, <4>1, LeadsFirst
      <4>3. Append(p, a) = <<>>
        BY <1>1, <2>1, <4>2, Appended
      <4>4. Len(Append(p, a)) = Len(p) + 1 /\ Len(p) \in Nat /\ Len(<<>>) = 0
        BY Appended
      <4> QED
        BY <4>3, <4>4
    <3>2. PICK r \in Paths, b \in Texts : q = Append(r, b)
      BY <3>1, LastOff
    <3>3. PICK x \in Nat : Leads(L, p, x) /\ n = L[<<x, a>>] /\ n # Null
      BY <2>1, LeadsBack
    <3>4. PICK y \in Nat : Leads(L, r, y) /\ n = L[<<y, b>>]
      BY <2>1, <3>2, LeadsBack
    <3>5. x = y /\ a = b
      <4>1. L[<<x, a>>] = L[<<y, b>>] /\ L[<<x, a>>] # Null
        BY <3>3, <3>4
      <4> QED
        BY <4>1 DEF Separate
    <3> QED
      BY <1>3, <3>2, <3>3, <3>4, <3>5
  <2> QED
    BY <2>1, Appended
<1> HIDE DEF S
<1>4. Paths \subseteq S
  BY <1>2, <1>3, PathInduction
<1> QED
  BY <1>4 DEF S

-----------------------------------------------------------------------------
(* The two searches, as functions of the lists they search. *)

ChildNamed(ns, list, a) ==
  LET named(i) == strcmp(ns[list[i]].name, a) = 0
  IN  IF \E i \in DOMAIN list : named(i)
      THEN list[CHOOSE i \in DOMAIN list : named(i) /\ \A j \in 1 .. i - 1 : ~ named(j)]
      ELSE Null

RootAt(ms, n) ==
  LET at(i) == ms[i].mountpoint = n
  IN  IF \E i \in DOMAIN ms : at(i)
      THEN ms[CHOOSE i \in DOMAIN ms : at(i) /\ \A j \in 1 .. i - 1 : ~ at(j)].root
      ELSE n

Data == [0 .. FileSize - 1 -> {0, Byte}]
Records == [type : {"dir", "file", "unset"}, name : Texts, children : Seq(Nat),
            data : Data \cup {<<>>}]
Mounts == [mountpoint : Nat, root : Nat]

LEMMA ChildNamedIs ==
  ASSUME NEW ns, NEW list \in Seq(Nat), NEW a
  PROVE  \/ /\ \A i \in DOMAIN list : ns[list[i]].name # a
            /\ ChildNamed(ns, list, a) = Null
         \/ \E i \in DOMAIN list :
              /\ ns[list[i]].name = a /\ \A j \in 1 .. i - 1 : ns[list[j]].name # a
              /\ ChildNamed(ns, list, a) = list[i]
<1> DEFINE named(i) == strcmp(ns[list[i]].name, a) = 0
           S == {i \in DOMAIN list : named(i)}
           first(i) == named(i) /\ \A j \in 1 .. i - 1 : ~ named(j)
<1>1. DOMAIN list = 1 .. Len(list) /\ Len(list) \in Nat
  OBVIOUS
<1>2. \A b : (strcmp(b, a) = 0) <=> b = a
  BY DEF strcmp
<1>3. ChildNamed(ns, list, a) = IF \E i \in DOMAIN list : named(i)
                                THEN list[CHOOSE i \in DOMAIN list : first(i)] ELSE Null
  BY DEF ChildNamed
<1>4. CASE S = {}
  <2>1. \A i \in DOMAIN list : ~ named(i)
    BY <1>4
  <2>2. ChildNamed(ns, list, a) = Null
    BY <1>3, <2>1
  <2> QED
    BY <1>2, <2>1, <2>2
<1>5. CASE S # {}
  <2>1. PICK m \in S : \A k \in S : m <= k
    <3>1. S \in SUBSET Nat
      BY <1>1
    <3> QED
      BY <1>5, <3>1, LeastExists
  <2>2. first(m)
    <3>1. ASSUME NEW j \in 1 .. m - 1 PROVE ~ named(j)
      <4>1. j \in DOMAIN list /\ ~ (m <= j)
        BY <1>1, <2>1
      <4> QED
        BY <2>1, <4>1
    <3> QED
      BY <2>1, <3>1
  <2> DEFINE c == CHOOSE i \in DOMAIN list : first(i)
  <2>3. c \in DOMAIN list /\ first(c)
    BY <2>1, <2>2
  <2>4. ChildNamed(ns, list, a) = list[c]
    BY <1>3, <2>1
  <2> HIDE DEF c
  <2>5. ns[list[c]].name = a /\ \A j \in 1 .. c - 1 : ns[list[j]].name # a
    BY <1>2, <2>3
  <2> QED
    BY <2>3, <2>4, <2>5
<1> QED
  BY <1>4, <1>5

LEMMA ChildNamedIn ==
  ASSUME NEW ns, NEW list \in Seq(Nat), NEW a
  PROVE  ChildNamed(ns, list, a) = Null \/ \E i \in DOMAIN list : ChildNamed(ns, list, a) = list[i]
  BY ChildNamedIs

FirstNamed(ns, list, a, i) ==
  /\ i \in DOMAIN list /\ ns[list[i]].name = a /\ \A j \in 1 .. i - 1 : ns[list[j]].name # a
  /\ ChildNamed(ns, list, a) = list[i]

LEMMA ChildNamedFound ==
  ASSUME NEW ns, NEW list \in Seq(Nat), NEW a, NEW k \in DOMAIN list, ns[list[k]].name = a
  PROVE  \E i \in DOMAIN list : FirstNamed(ns, list, a, i)
<1>1. ~ \A i \in DOMAIN list : ns[list[i]].name # a
  OBVIOUS
<1> QED
  BY <1>1, ChildNamedIs DEF FirstNamed

LEMMA RootAtIs ==
  ASSUME NEW ms \in Seq(Mounts), NEW n
  PROVE  \/ /\ \A i \in DOMAIN ms : ms[i].mountpoint # n
            /\ RootAt(ms, n) = n
         \/ \E i \in DOMAIN ms :
              /\ ms[i].mountpoint = n /\ \A j \in 1 .. i - 1 : ms[j].mountpoint # n
              /\ RootAt(ms, n) = ms[i].root
<1> DEFINE at(i) == ms[i].mountpoint = n
           S == {i \in DOMAIN ms : at(i)}
           first(i) == at(i) /\ \A j \in 1 .. i - 1 : ~ at(j)
<1>1. DOMAIN ms = 1 .. Len(ms) /\ Len(ms) \in Nat
  OBVIOUS
<1>2. RootAt(ms, n) = IF \E i \in DOMAIN ms : at(i)
                      THEN ms[CHOOSE i \in DOMAIN ms : first(i)].root ELSE n
  BY DEF RootAt
<1>3. CASE S = {}
  BY <1>2, <1>3
<1>4. CASE S # {}
  <2>1. PICK m \in S : \A k \in S : m <= k
    <3>1. S \in SUBSET Nat
      BY <1>1
    <3> QED
      BY <1>4, <3>1, LeastExists
  <2>2. first(m)
    <3>1. ASSUME NEW j \in 1 .. m - 1 PROVE ~ at(j)
      <4>1. j \in DOMAIN ms /\ ~ (m <= j)
        BY <1>1, <2>1
      <4> QED
        BY <2>1, <4>1
    <3> QED
      BY <2>1, <3>1
  <2> DEFINE c == CHOOSE i \in DOMAIN ms : first(i)
  <2>3. c \in DOMAIN ms /\ first(c)
    BY <2>1, <2>2
  <2>4. RootAt(ms, n) = ms[c].root
    BY <1>2, <2>1
  <2> HIDE DEF c
  <2> QED
    BY <2>3, <2>4
<1> QED
  BY <1>3, <1>4

LEMMA RootAtNone ==
  ASSUME NEW ms \in Seq(Mounts), NEW n, \A i \in DOMAIN ms : ms[i].mountpoint # n
  PROVE  RootAt(ms, n) = n
  BY RootAtIs

FirstMount(ms, n, i) ==
  /\ i \in DOMAIN ms /\ ms[i].mountpoint = n /\ \A j \in 1 .. i - 1 : ms[j].mountpoint # n
  /\ RootAt(ms, n) = ms[i].root

LEMMA RootAtFound ==
  ASSUME NEW ms \in Seq(Mounts), NEW n, NEW k \in DOMAIN ms, ms[k].mountpoint = n
  PROVE  \E i \in DOMAIN ms : FirstMount(ms, n, i)
<1>1. ~ \A i \in DOMAIN ms : ms[i].mountpoint # n
  OBVIOUS
<1> QED
  BY <1>1, RootAtIs DEF FirstMount

\* A new child is found first.
LEMMA ChildInFront ==
  ASSUME NEW ns, NEW ms, NEW list \in Seq(Nat), NEW c \in Nat, NEW a,
         \A i \in DOMAIN list : ms[list[i]].name = ns[list[i]].name
  PROVE  ChildNamed(ms, <<c>> \o list, a) =
           IF ms[c].name = a THEN c ELSE ChildNamed(ns, list, a)
<1> DEFINE l == <<c>> \o list
<1>1. /\ l \in Seq(Nat) /\ Len(l) = Len(list) + 1 /\ Len(list) \in Nat
      /\ l[1] = c /\ \A i \in 1 .. Len(list) : l[i + 1] = list[i]
  OBVIOUS
<1>2. DOMAIN l = 1 .. Len(list) + 1 /\ DOMAIN list = 1 .. Len(list)
  BY <1>1
<1> HIDE DEF l
<1>3. CASE ms[c].name = a
  <2>1a. PICK i \in DOMAIN l : FirstNamed(ms, l, a, i)
    <3>1. 1 \in DOMAIN l /\ ms[l[1]].name = a
      BY <1>1, <1>2, <1>3
    <3> QED
      BY <1>1, <3>1, ChildNamedFound
  <2>1. /\ i \in DOMAIN l /\ ms[l[i]].name = a /\ \A j \in 1 .. i - 1 : ms[l[j]].name # a
        /\ ChildNamed(ms, l, a) = l[i]
    BY <2>1a DEF FirstNamed
  <2>2. ~ (1 \in 1 .. i - 1)
    BY <1>1, <1>3, <2>1
  <2>3. i = 1
    BY <1>1, <1>2, <2>2
  <2> QED
    BY <1>1, <1>3, <2>1, <2>3 DEF l
<1>4. CASE ms[c].name # a
  <2>1. CASE \A i \in DOMAIN list : ns[list[i]].name # a
    <3>1. ChildNamed(ns, list, a) = Null
      BY <2>1, ChildNamedIs
    <3>2. ASSUME NEW i \in DOMAIN l PROVE ms[l[i]].name # a
      <4>1. i = 1 \/ (i - 1 \in 1 .. Len(list) /\ (i - 1) + 1 = i)
        BY <1>1, <1>2
      <4>2. i = 1 \/ (i - 1 \in DOMAIN list /\ l[i] = list[i - 1])
        BY <1>1, <1>2, <4>1
      <4> QED
        BY <1>1, <1>4, <2>1, <4>2, ZenonT(60)
    <3>3. ChildNamed(ms, l, a) = Null
      BY <1>1, <3>2, ChildNamedIs, SMTT(60)
    <3> QED
      BY <1>4, <3>1, <3>3 DEF l
  <2>2. CASE \E i \in DOMAIN list : ns[list[i]].name = a
    <3>1a. PICK i \in DOMAIN list : FirstNamed(ns, list, a, i)
      BY <2>2, ChildNamedFound
    <3>1. /\ i \in DOMAIN list /\ ns[list[i]].name = a /\ \A j \in 1 .. i - 1 : ns[list[j]].name # a
          /\ ChildNamed(ns, list, a) = list[i]
      BY <3>1a DEF FirstNamed
    <3>2. i + 1 \in DOMAIN l /\ l[i + 1] = list[i] /\ i \in Nat
      BY <1>1, <1>2
    <3>3. ms[l[i + 1]].name = a
      BY <3>1, <3>2
    <3>4a. PICK k \in DOMAIN l : FirstNamed(ms, l, a, k)
      BY <1>1, <3>2, <3>3, ChildNamedFound
    <3>4. /\ k \in DOMAIN l /\ ms[l[k]].name = a /\ \A j \in 1 .. k - 1 : ms[l[j]].name # a
          /\ ChildNamed(ms, l, a) = l[k]
      BY <3>4a DEF FirstNamed
    <3>5. k # 1
      BY <1>1, <1>4, <3>4
    <3>6. k - 1 \in DOMAIN list /\ l[k] = list[k - 1] /\ k \in Nat
      <4>1. k \in 1 .. Len(list) + 1 /\ Len(list) \in Nat
        BY <1>1, <1>2, <3>4
      <4>2. k - 1 \in 1 .. Len(list) /\ (k - 1) + 1 = k /\ k \in Nat
        BY <3>5, <4>1
      <4>3. \A j \in 1 .. Len(list) : l[j + 1] = list[j]
        BY <1>1
      <4>4. l[k] = list[k - 1]
        BY <4>2, <4>3
      <4> QED
        BY <1>2, <4>2, <4>4
    <3>7. ns[list[k - 1]].name = a
      BY <3>4, <3>6
    <3>8. ~ (k - 1 \in 1 .. i - 1) /\ ~ (i + 1 \in 1 .. k - 1)
      BY <3>1, <3>3, <3>4, <3>7
    <3>9. k = i + 1
      BY <1>2, <3>2, <3>6, <3>8
    <3> QED
      BY <1>4, <3>1, <3>2, <3>4, <3>9 DEF l
  <2> QED
    BY <2>1, <2>2
<1> QED
  BY <1>3, <1>4

\* A new mount hides the others at its place.
LEMMA MountInFront ==
  ASSUME NEW ms \in Seq(Mounts), NEW m \in Mounts, NEW n
  PROVE  RootAt(<<m>> \o ms, n) = IF m.mountpoint = n THEN m.root ELSE RootAt(ms, n)
<1> DEFINE l == <<m>> \o ms
<1>1. /\ l \in Seq(Mounts) /\ Len(l) = Len(ms) + 1 /\ Len(ms) \in Nat
      /\ l[1] = m /\ \A i \in 1 .. Len(ms) : l[i + 1] = ms[i]
  OBVIOUS
<1>2. DOMAIN l = 1 .. Len(ms) + 1 /\ DOMAIN ms = 1 .. Len(ms)
  BY <1>1
<1> HIDE DEF l
<1>3. CASE m.mountpoint = n
  <2>1a. PICK i \in DOMAIN l : FirstMount(l, n, i)
    <3>1. 1 \in DOMAIN l /\ l[1].mountpoint = n
      BY <1>1, <1>2, <1>3
    <3> QED
      BY <1>1, <3>1, RootAtFound
  <2>1. /\ i \in DOMAIN l /\ l[i].mountpoint = n /\ \A j \in 1 .. i - 1 : l[j].mountpoint # n
        /\ RootAt(l, n) = l[i].root
    BY <2>1a DEF FirstMount
  <2>2. ~ (1 \in 1 .. i - 1)
    BY <1>1, <1>3, <2>1
  <2>3. i = 1
    BY <1>1, <1>2, <2>2
  <2> QED
    BY <1>1, <1>3, <2>1, <2>3 DEF l
<1>4. CASE m.mountpoint # n
  <2>1. CASE \A i \in DOMAIN ms : ms[i].mountpoint # n
    <3>1. RootAt(ms, n) = n
      BY <2>1, RootAtIs
    <3>2. ASSUME NEW i \in DOMAIN l PROVE l[i].mountpoint # n
      <4>1. i = 1 \/ (i - 1 \in 1 .. Len(ms) /\ (i - 1) + 1 = i)
        BY <1>1, <1>2
      <4>2. i = 1 \/ (i - 1 \in DOMAIN ms /\ l[i] = ms[i - 1])
        BY <1>1, <1>2, <4>1
      <4> QED
        BY <1>1, <1>4, <2>1, <4>2
    <3>3. RootAt(l, n) = n
      BY <1>1, <3>2, RootAtIs
    <3> QED
      BY <1>4, <3>1, <3>3 DEF l
  <2>2. CASE \E i \in DOMAIN ms : ms[i].mountpoint = n
    <3>1a. PICK i \in DOMAIN ms : FirstMount(ms, n, i)
      BY <2>2, RootAtFound
    <3>1. /\ i \in DOMAIN ms /\ ms[i].mountpoint = n /\ \A j \in 1 .. i - 1 : ms[j].mountpoint # n
          /\ RootAt(ms, n) = ms[i].root
      BY <3>1a DEF FirstMount
    <3>2. i + 1 \in DOMAIN l /\ l[i + 1] = ms[i] /\ i \in Nat
      BY <1>1, <1>2
    <3>3a. PICK k \in DOMAIN l : FirstMount(l, n, k)
      BY <1>1, <3>1, <3>2, RootAtFound
    <3>3. /\ k \in DOMAIN l /\ l[k].mountpoint = n /\ \A j \in 1 .. k - 1 : l[j].mountpoint # n
          /\ RootAt(l, n) = l[k].root
      BY <3>3a DEF FirstMount
    <3>4. k # 1
      BY <1>1, <1>4, <3>3
    <3>5. k - 1 \in DOMAIN ms /\ l[k] = ms[k - 1] /\ k \in Nat
      <4>1. k - 1 \in 1 .. Len(ms) /\ (k - 1) + 1 = k
        BY <1>1, <1>2, <3>4
      <4> QED
        BY <1>1, <1>2, <4>1
    <3>6. ~ (k - 1 \in 1 .. i - 1) /\ ~ (i + 1 \in 1 .. k - 1)
      BY <3>1, <3>2, <3>3, <3>5
    <3>7. k = i + 1
      BY <1>2, <3>2, <3>5, <3>6
    <3> QED
      BY <1>4, <3>1, <3>2, <3>3, <3>7 DEF l
  <2> QED
    BY <2>1, <2>2
<1> QED
  BY <1>3, <1>4

-----------------------------------------------------------------------------
(* Where names lead, for given nodes and mounts. *)

LookAt(ns, ms, n, a) ==
  IF ns[n].type = "file" THEN Null ELSE RootAt(ms, ChildNamed(ns, ns[n].children, a))

LooksOf(ns, ms) ==
  [x \in Nat \X Texts |-> IF x[1] \in 2 .. Len(ns) THEN LookAt(ns, ms, x[1], x[2]) ELSE Null]

\* The root's node, which is covered, has number 1; children have greater numbers.
NodesSound(ns) ==
  /\ ns \in Seq(Records) /\ Len(ns) >= 3
  /\ \A n \in 2 .. Len(ns) : ns[n].type \in {"dir", "file"}
  /\ \A n \in 2 .. Len(ns) : ns[n].type = "file" => ns[n].data \in Data
  /\ ns[2].type = "dir"
  /\ \A n \in 1 .. Len(ns) : \A i \in DOMAIN ns[n].children : ns[n].children[i] \in n + 1 .. Len(ns)

\* So have the roots of mounts, which are in no directory.
MountsSound(ns, ms) ==
  /\ ms \in Seq(Mounts)
  /\ \A i \in DOMAIN ms : ms[i].mountpoint \in 1 .. Len(ns)
  /\ \A i \in DOMAIN ms : ms[i].root = Null \/ ms[i].root \in ms[i].mountpoint + 1 .. Len(ns)
  /\ \A i \in DOMAIN ms : \A n \in 1 .. Len(ns) : \A j \in DOMAIN ns[n].children :
       ms[i].root # ns[n].children[j]
  /\ RootAt(ms, root) = 2

Sound(ns, ms) == NodesSound(ns) /\ MountsSound(ns, ms) /\ Separate(LooksOf(ns, ms))

\* What a name leads to was made later.
LEMMA LookIsLater ==
  ASSUME NEW ns, NEW ms, NodesSound(ns), MountsSound(ns, ms), NEW n \in 2 .. Len(ns), NEW a
  PROVE  \/ LookAt(ns, ms, n, a) = Null
         \/ LookAt(ns, ms, n, a) \in n + 1 .. Len(ns)
<1> DEFINE list == ns[n].children
           c == ChildNamed(ns, list, a)
<1>1. Len(ns) \in Nat /\ n \in 1 .. Len(ns) /\ ns[n] \in Records
  BY DEF NodesSound
<1>2. list \in Seq(Nat)
  BY <1>1 DEF Records
<1>3. \A i \in DOMAIN list : list[i] \in n + 1 .. Len(ns)
  BY <1>1 DEF NodesSound
<1> HIDE DEF list
<1>4. c = Null \/ c \in n + 1 .. Len(ns)
  <2> HIDE DEF c
  <2>1. c = Null \/ \E i \in DOMAIN list : c = list[i]
    BY <1>2, ChildNamedIn DEF c
  <2> QED
    BY <1>3, <2>1
<1> HIDE DEF c
<1>5. RootAt(ms, c) = Null \/ RootAt(ms, c) \in n + 1 .. Len(ns)
  <2>1. RootAt(ms, c) = c \/ \E i \in DOMAIN ms : ms[i].mountpoint = c /\ RootAt(ms, c) = ms[i].root
    BY RootAtIs DEF MountsSound
  <2>2. CASE RootAt(ms, c) = c
    BY <1>4, <2>2
  <2>3. CASE \E i \in DOMAIN ms : ms[i].mountpoint = c /\ RootAt(ms, c) = ms[i].root
    <3>1. PICK i \in DOMAIN ms : ms[i].mountpoint = c /\ RootAt(ms, c) = ms[i].root
      BY <2>3
    <3>2. c \in 1 .. Len(ns) /\ (ms[i].root = Null \/ ms[i].root \in c + 1 .. Len(ns))
      BY <3>1 DEF MountsSound
    <3> QED
      BY <1>1, <1>4, <3>1, <3>2 DEF Null
  <2> QED
    BY <2>1, <2>2, <2>3
<1> QED
  BY <1>5 DEF LookAt, list, c

LEMMA LooksSound ==
  ASSUME NEW ns, NEW ms, NodesSound(ns), MountsSound(ns, ms)
  PROVE  /\ LooksOf(ns, ms) \in Graphs /\ Rising(LooksOf(ns, ms))
         /\ \A n \in Nat, a \in Texts : LooksOf(ns, ms)[<<n, a>>] \in 0 .. Len(ns)
         /\ \A n \in 2 .. Len(ns), a \in Texts : LooksOf(ns, ms)[<<n, a>>] = LookAt(ns, ms, n, a)
         /\ \A n \in Nat, a \in Texts : n \notin 2 .. Len(ns) => LooksOf(ns, ms)[<<n, a>>] = Null
<1> DEFINE L == LooksOf(ns, ms)
<1>1. Len(ns) \in Nat
  BY DEF NodesSound
<1>2. \A n \in Nat, a \in Texts :
        L[<<n, a>>] = IF n \in 2 .. Len(ns) THEN LookAt(ns, ms, n, a) ELSE Null
  BY DEF LooksOf
<1>3. L = [x \in Nat \X Texts |-> L[x]]
  BY DEF LooksOf
<1> HIDE DEF L
<1>4. ASSUME NEW n \in Nat, NEW a \in Texts
      PROVE  L[<<n, a>>] \in 0 .. Len(ns) /\ (L[<<n, a>>] = Null \/ L[<<n, a>>] > n)
  <2>1. CASE n \in 2 .. Len(ns)
    <3>1. LookAt(ns, ms, n, a) = Null \/ LookAt(ns, ms, n, a) \in n + 1 .. Len(ns)
      BY <2>1, LookIsLater
    <3> QED
      BY <1>1, <1>2, <2>1, <3>1 DEF Null
  <2>2. CASE n \notin 2 .. Len(ns)
    BY <1>1, <1>2, <2>2 DEF Null
  <2> QED
    BY <2>1, <2>2
<1>5. L \in Graphs
  <2>1. \A x \in Nat \X Texts : L[x] \in Nat
    BY <1>4
  <2> QED
    BY <1>3, <2>1 DEF Graphs
<1>6. Rising(L)
  BY <1>4 DEF Rising
<1>7. \A n \in 2 .. Len(ns) : n \in Nat
  BY <1>1
<1> QED
  BY <1>2, <1>4, <1>5, <1>6, <1>7 DEF L

\* The lookups of the code go where the graph says.
LEMMA LookIs ==
  /\ \A n, a : vfsLook(n, a) = LookAt(nodes, mnts, n, a)
  /\ \A n : vfsCross(n) = RootAt(mnts, n)
<1>1. \A n, a : tmpfsLookup(n, a) = ChildNamed(nodes, nodes[n].children, a)
  BY DEF tmpfsLookup, ChildNamed
<1>2. \A n : vfsCross(n) = RootAt(mnts, n)
  BY DEF vfsCross, RootAt
<1> QED
  BY <1>1, <1>2 DEF vfsLook, LookAt

-----------------------------------------------------------------------------
(* Paths below a path, and what a call does to the graph. *)

Below(p, r) == Len(p) <= Len(r) /\ \A i \in 1 .. Len(p) : p[i] = r[i]

LEMMA SamePath ==
  ASSUME NEW p \in Paths, NEW q \in Paths, Len(p) = Len(q), \A i \in 1 .. Len(p) : p[i] = q[i]
  PROVE  p = q
  BY DEF Paths

LEMMA BelowAppended ==
  ASSUME NEW p \in Paths, NEW r \in Paths, NEW b \in Texts
  PROVE  Below(p, Append(r, b)) <=> Below(p, r) \/ p = Append(r, b)
<1> DEFINE q == Append(r, b)
<1>1. /\ q \in Paths /\ Len(q) = Len(r) + 1 /\ Len(r) \in Nat /\ Len(p) \in Nat
      /\ \A i \in 1 .. Len(r) : q[i] = r[i]
  BY Appended DEF Paths
<1> HIDE DEF q
<1>2. ASSUME Below(p, q), ~ Below(p, r) PROVE p = q
  <2>1. CASE Len(p) <= Len(r)
    <3>1. ASSUME NEW i \in 1 .. Len(p) PROVE p[i] = r[i]
      <4>1. i \in 1 .. Len(r)
        BY <1>1, <2>1
      <4> QED
        BY <1>1, <1>2, <4>1 DEF Below
    <3> QED
      BY <1>2, <2>1, <3>1 DEF Below
  <2>2. CASE ~ (Len(p) <= Len(r))
    <3>1. Len(p) = Len(q) /\ \A i \in 1 .. Len(p) : p[i] = q[i]
      BY <1>1, <1>2, <2>2 DEF Below
    <3> QED
      BY <1>1, <3>1, SamePath
  <2> QED
    BY <2>1, <2>2
<1>3. ASSUME Below(p, r) PROVE Below(p, q)
  <2>1. Len(p) <= Len(q)
    BY <1>1, <1>3 DEF Below
  <2>2. ASSUME NEW i \in 1 .. Len(p) PROVE p[i] = q[i]
    <3>1. i \in 1 .. Len(r) /\ p[i] = r[i]
      BY <1>1, <1>3 DEF Below
    <3> QED
      BY <1>1, <3>1
  <2> QED
    BY <2>1, <2>2 DEF Below
<1>4. ASSUME p = q PROVE Below(p, q)
  BY <1>1, <1>4 DEF Below
<1> QED
  BY <1>2, <1>3, <1>4 DEF q

LEMMA AppendedSame ==
  ASSUME NEW p \in Paths, NEW q \in Paths, NEW a \in Texts, NEW b \in Texts,
         Append(p, a) = Append(q, b)
  PROVE  p = q /\ a = b
<1>1. /\ Len(Append(p, a)) = Len(p) + 1 /\ Len(p) \in Nat /\ Append(p, a)[Len(p) + 1] = a
      /\ \A i \in 1 .. Len(p) : Append(p, a)[i] = p[i]
  BY Appended
<1>2. /\ Len(Append(q, b)) = Len(q) + 1 /\ Len(q) \in Nat /\ Append(q, b)[Len(q) + 1] = b
      /\ \A i \in 1 .. Len(q) : Append(q, b)[i] = q[i]
  BY Appended
<1>3. Len(p) = Len(q)
  BY <1>1, <1>2
<1>4. \A i \in 1 .. Len(p) : p[i] = q[i]
  BY <1>1, <1>2, <1>3
<1> QED
  BY <1>1, <1>2, <1>3, <1>4, SamePath

LEMMA LeadsIff ==
  ASSUME NEW L \in Graphs, NEW r \in Paths, NEW b \in Texts, NEW n
  PROVE  Leads(L, Append(r, b), n) <=> \E k \in Nat : Leads(L, r, k) /\ n = L[<<k, b>>] /\ n # Null
<1>1. ASSUME Leads(L, Append(r, b), n) PROVE \E k \in Nat : Leads(L, r, k) /\ n = L[<<k, b>>] /\ n # Null
  BY <1>1, LeadsBack
<1>2. ASSUME NEW k \in Nat, Leads(L, r, k), n = L[<<k, b>>], n # Null PROVE Leads(L, Append(r, b), n)
  BY <1>2, LeadsOn
<1> QED
  BY <1>1, <1>2
LEMMA LeadsWithin ==
  ASSUME NEW L \in Graphs, NEW N \in Nat, N >= 2, \A k \in Nat, b \in Texts : L[<<k, b>>] <= N,
         NEW p \in Paths, NEW n, Leads(L, p, n)
  PROVE  n <= N
<1>1. CASE p = <<>>
  BY <1>1, LeadsFirst
<1>2. CASE p # <<>>
  <2>1. PICK q \in Paths, a \in Texts : p = Append(q, a)
    BY <1>2, LastOff
  <2>2. PICK k \in Nat : n = L[<<k, a>>]
    BY <2>1, LeadsBack
  <2> QED
    BY <2>2
<1> QED
  BY <1>1, <1>2

\* The graph M is L but for the edge from m with the name a and what is behind
\* it, which is E.
Edited(L, M, N, m, a) ==
  \A k \in 0 .. N, b \in Texts : M[<<k, b>>] = L[<<k, b>>] \/ (k = m /\ b = a)

Continued(M, E, m, p, a) ==
  /\ E \subseteq Paths \X Nat
  /\ \A n : <<Append(p, a), n>> \in E <=> n = M[<<m, a>>] /\ n # Null
  /\ \A r \in Paths, b \in Texts : Below(Append(p, a), r) =>
       \A n : <<Append(r, b), n>> \in E
                <=> \E k \in Nat : <<r, k>> \in E /\ n = M[<<k, b>>] /\ n # Null

\* The paths that do not start with that edge lead where they led.
LEMMA Graft ==
  ASSUME NEW L \in Graphs, Rising(L), Separate(L), NEW M \in Graphs,
         NEW N \in Nat, N >= 2, \A k \in Nat, b \in Texts : L[<<k, b>>] <= N,
         NEW p \in Paths, NEW m, Leads(L, p, m), NEW a \in Texts, NEW E,
         Edited(L, M, N, m, a), Continued(M, E, m, p, a)
  PROVE  \A r \in Paths : \A n :
           Leads(M, r, n) <=> IF Below(Append(p, a), r) THEN <<r, n>> \in E ELSE Leads(L, r, n)
<1> DEFINE q == Append(p, a)
           S == {r \in Paths : \A n :
                   Leads(M, r, n) <=> IF Below(q, r) THEN <<r, n>> \in E ELSE Leads(L, r, n)}
<1>1. q \in Paths /\ Len(q) > 0
  BY Appended
<1>2. <<>> \in S
  <2>1. ~ Below(q, <<>>) /\ <<>> \in Paths
    BY <1>1 DEF Below, Paths
  <2> QED
    BY <2>1, LeadsFirst
<1>3. ASSUME NEW r \in Paths, NEW b \in Texts, r \in S
      PROVE  Append(r, b) \in S
  <2>1. Append(r, b) \in Paths
    BY Appended
  <2>2. ASSUME NEW n
        PROVE  Leads(M, Append(r, b), n)
                 <=> IF Below(q, Append(r, b)) THEN <<Append(r, b), n>> \in E
                     ELSE Leads(L, Append(r, b), n)
    <3>1. Leads(M, Append(r, b), n) <=> \E k \in Nat : Leads(M, r, k) /\ n = M[<<k, b>>] /\ n # Null
      BY LeadsIff
    <3>2. Leads(L, Append(r, b), n) <=> \E k \in Nat : Leads(L, r, k) /\ n = L[<<k, b>>] /\ n # Null
      BY LeadsIff
    <3>3. \A k : Leads(M, r, k) <=> IF Below(q, r) THEN <<r, k>> \in E ELSE Leads(L, r, k)
      BY <1>3
    <3>4. Below(q, Append(r, b)) <=> Below(q, r) \/ q = Append(r, b)
      BY <1>1, BelowAppended
    <3> HIDE DEF S, q
    <3>5. CASE Below(q, r)
      <4>1. <<Append(r, b), n>> \in E <=> \E k \in Nat : <<r, k>> \in E /\ n = M[<<k, b>>] /\ n # Null
        <5>1. Below(Append(p, a), r)
          BY <3>5 DEF q
        <5>2. \A x : <<Append(r, b), x>> \in E
                       <=> \E k \in Nat : <<r, k>> \in E /\ x = M[<<k, b>>] /\ x # Null
          BY <5>1 DEF Continued
        <5> QED
          BY <5>2
      <4> QED
        BY <3>1, <3>3, <3>4, <3>5, <4>1
    <3>6. CASE ~ Below(q, r) /\ q = Append(r, b)
      <4>1. r = p /\ b = a
        BY <3>6, AppendedSame DEF q
      <4>2. \A k : Leads(L, r, k) <=> k = m
        BY <4>1, LeadsUnique
      <4>3. m \in Nat
        BY LeadsUp
      <4>4. <<Append(r, b), n>> \in E <=> n = M[<<m, b>>] /\ n # Null
        BY <4>1 DEF Continued
      <4> QED
        BY <3>1, <3>3, <3>4, <3>6, <4>2, <4>3, <4>4
    <3>7. CASE ~ Below(q, r) /\ q # Append(r, b)
      <4>1. ASSUME NEW k \in Nat, Leads(L, r, k) PROVE M[<<k, b>>] = L[<<k, b>>]
        <5>1. k \in 0 .. N
          BY <4>1, LeadsWithin
        <5>2. ~ (k = m /\ b = a)
          <6>1. SUFFICES ASSUME k = m, b = a PROVE FALSE
            OBVIOUS
          <6>2. r = p
            BY <4>1, <6>1, PathUnique
          <6> QED
            BY <3>7, <6>1, <6>2 DEF q
        <5> QED
          BY <5>1, <5>2 DEF Edited
      <4> QED
        BY <3>1, <3>2, <3>3, <3>4, <3>7, <4>1
    <3> QED
      BY <3>5, <3>6, <3>7
  <2> QED
    BY <2>1, <2>2
<1>4. Paths \subseteq S
  <2> HIDE DEF S
  <2> QED
    BY <1>2, <1>3, PathInduction
<1> QED
  BY <1>4

-----------------------------------------------------------------------------
(* A new file. *)

LEMMA ChildSame ==
  ASSUME NEW ns, NEW ms, NEW list \in Seq(Nat), NEW a,
         \A i \in DOMAIN list : ms[list[i]].name = ns[list[i]].name
  PROVE  ChildNamed(ms, list, a) = ChildNamed(ns, list, a)
<1>1. CASE \A i \in DOMAIN list : ns[list[i]].name # a
  <2>1. \A i \in DOMAIN list : ms[list[i]].name # a
    BY <1>1
  <2>2. ChildNamed(ns, list, a) = Null
    <3>1. \/ ChildNamed(ns, list, a) = Null
          \/ \E i \in DOMAIN list : ns[list[i]].name = a
      BY ChildNamedIs
    <3> QED
      BY <1>1, <3>1
  <2>3. ChildNamed(ms, list, a) = Null
    <3>1. \/ ChildNamed(ms, list, a) = Null
          \/ \E i \in DOMAIN list : ms[list[i]].name = a
      BY ChildNamedIs
    <3> QED
      BY <2>1, <3>1
  <2> QED
    BY <2>2, <2>3
<1>2. CASE \E i \in DOMAIN list : ns[list[i]].name = a
  <2>1. PICK i \in DOMAIN list : FirstNamed(ns, list, a, i)
    BY <1>2, ChildNamedFound
  <2>2. /\ i \in DOMAIN list /\ ns[list[i]].name = a /\ \A j \in 1 .. i - 1 : ns[list[j]].name # a
        /\ ChildNamed(ns, list, a) = list[i]
    BY <2>1 DEF FirstNamed
  <2>3. ms[list[i]].name = a
    BY <2>2
  <2>4. PICK k \in DOMAIN list : FirstNamed(ms, list, a, k)
    BY <2>3, ChildNamedFound
  <2>5. /\ k \in DOMAIN list /\ ms[list[k]].name = a /\ \A j \in 1 .. k - 1 : ms[list[j]].name # a
        /\ ChildNamed(ms, list, a) = list[k]
    BY <2>4 DEF FirstNamed
  <2>6. ns[list[k]].name = a
    BY <2>5
  <2>7. ~ (k \in 1 .. i - 1) /\ ~ (i \in 1 .. k - 1)
    BY <2>2, <2>3, <2>5, <2>6
  <2>8. i = k
    BY <2>7
  <2> QED
    BY <2>2, <2>5, <2>8
<1> QED
  BY <1>1, <1>2

\* Graphs that differ in new entries only.
LEMMA SeparateEdited ==
  ASSUME NEW L, NEW M, NEW N \in Nat, NEW m, NEW a,
         Separate(L), Edited(L, M, N, m, a),
         \A k \in Nat, b \in Texts : L[<<k, b>>] <= N /\ L[<<k, b>>] \in Nat,
         \A k \in Nat, b \in Texts : k > N \/ (k = m /\ b = a) =>
           M[<<k, b>>] = Null \/ (M[<<k, b>>] \in Nat /\ M[<<k, b>>] > N),
         \A k, l \in Nat, b, c \in Texts :
           /\ k > N \/ (k = m /\ b = a)
           /\ l > N \/ (l = m /\ c = a)
           /\ M[<<k, b>>] = M[<<l, c>>] /\ M[<<k, b>>] # Null
           => k = l /\ b = c
  PROVE  Separate(M)
<1> DEFINE new(k, b) == k > N \/ (k = m /\ b = a)
<1>1. \A k \in Nat, b \in Texts : ~ new(k, b) => M[<<k, b>>] = L[<<k, b>>]
  BY DEF Edited
<1>2. ASSUME NEW k \in Nat, NEW l \in Nat, NEW b \in Texts, NEW c \in Texts,
             M[<<k, b>>] = M[<<l, c>>], M[<<k, b>>] # Null
      PROVE  k = l /\ b = c
  <2>1. CASE ~ new(k, b) /\ ~ new(l, c)
    <3>1. M[<<k, b>>] = L[<<k, b>>] /\ M[<<l, c>>] = L[<<l, c>>]
      BY <1>1, <2>1
    <3>2. L[<<k, b>>] = L[<<l, c>>] /\ L[<<k, b>>] # Null
      BY <1>2, <3>1
    <3> QED
      BY <3>2 DEF Separate
  <2>2. CASE new(k, b) /\ new(l, c)
    BY <1>2, <2>2
  <2>3. CASE new(k, b) /\ ~ new(l, c)
    <3>1. M[<<l, c>>] <= N /\ M[<<l, c>>] \in Nat
      BY <1>1, <2>3
    <3>2. M[<<k, b>>] > N /\ M[<<k, b>>] \in Nat
      BY <1>2, <2>3
    <3> QED
      BY <1>2, <3>1, <3>2
  <2>4. CASE ~ new(k, b) /\ new(l, c)
    <3>1. M[<<k, b>>] <= N /\ M[<<k, b>>] \in Nat
      BY <1>1, <2>4
    <3>2. M[<<l, c>>] > N /\ M[<<l, c>>] \in Nat
      BY <1>2, <2>4
    <3> QED
      BY <1>2, <3>1, <3>2
  <2> QED
    BY <2>1, <2>2, <2>3, <2>4
<1> QED
  BY <1>2 DEF Separate

WithFile(ns, n, kept) ==
  Append([ns EXCEPT ![n].children = <<Len(ns) + 1>> \o @], Node("file", kept))

LEMMA NewNode ==
  ASSUME NEW name \in Texts
  PROVE  /\ Node("file", name) \in Records /\ Node("dir", name) \in Records
         /\ Node("file", name).type = "file" /\ Node("dir", name).type = "dir"
         /\ Node("file", name).data \in Data
         /\ Node("file", name).data = [b \in 0 .. FileSize - 1 |-> 0]
         /\ Node("dir", name).data = <<>>
         /\ Node("file", name).name = name /\ Node("dir", name).name = name
         /\ Node("file", name).children = <<>> /\ Node("dir", name).children = <<>>
<1>1. [b \in 0 .. FileSize - 1 |-> 0] \in Data
  BY DEF Data
<1>2. <<>> \in Seq(Nat)
  OBVIOUS
<1> QED
  BY <1>1, <1>2 DEF Node, Records

LEMMA WithFileShape ==
  ASSUME NEW ns \in Seq(Records), NEW n \in 1 .. Len(ns), NEW kept \in Texts
  PROVE  LET N == Len(ns)
             ms == WithFile(ns, n, kept)
         IN  /\ ms \in Seq(Records) /\ Len(ms) = N + 1 /\ N \in Nat
             /\ ms[N + 1] = Node("file", kept)
             /\ \A k \in 1 .. N : /\ ms[k].type = ns[k].type /\ ms[k].data = ns[k].data
                                  /\ ms[k].name = ns[k].name
                                  /\ k # n => ms[k].children = ns[k].children
             /\ ms[n].children = <<N + 1>> \o ns[n].children
<1> DEFINE N == Len(ns)
           x == [ns[n] EXCEPT !.children = <<N + 1>> \o @]
           f == [ns EXCEPT ![n] = x]
           ms == WithFile(ns, n, kept)
<1>1. N \in Nat /\ ns[n] \in Records
  OBVIOUS
<1>2. <<N + 1>> \o ns[n].children \in Seq(Nat)
  BY <1>1 DEF Records
<1>3. /\ x \in Records /\ x.children = <<N + 1>> \o ns[n].children
      /\ x.type = ns[n].type /\ x.data = ns[n].data /\ x.name = ns[n].name
  BY <1>1, <1>2 DEF Records
<1>4. ms = Append(f, Node("file", kept))
  BY DEF WithFile
<1> HIDE DEF x, ms
<1>5. f \in Seq(Records) /\ Len(f) = N /\ f[n] = x /\ \A k \in 1 .. N : k # n => f[k] = ns[k]
  BY <1>3
<1> HIDE DEF f
<1>6. /\ ms \in Seq(Records) /\ Len(ms) = N + 1 /\ ms[N + 1] = Node("file", kept)
      /\ \A k \in 1 .. N : ms[k] = f[k]
  <2> DEFINE y == Node("file", kept)
  <2>1. y \in Records
    BY NewNode
  <2> HIDE DEF y
  <2>2. /\ Append(f, y) \in Seq(Records) /\ Len(Append(f, y)) = Len(f) + 1
        /\ Append(f, y)[Len(f) + 1] = y
        /\ \A i \in 1 .. Len(f) : Append(f, y)[i] = f[i]
    BY <1>5, <2>1, AppendedTo
  <2> QED
    BY <1>4, <1>5, <2>2 DEF y
<1>7. \A k \in 1 .. N : k # n => ms[k] = ns[k]
  BY <1>5, <1>6
<1>8. ms[n] = x
  BY <1>5, <1>6
<1> QED
  BY <1>1, <1>3, <1>6, <1>7, <1>8 DEF ms

\* A new file is one new edge, if its parent is a directory, and none otherwise.
LEMMA FileAdded ==
  ASSUME NEW ns, NEW mt, Sound(ns, mt), NEW n \in 2 .. Len(ns), NEW kept \in Texts
  PROVE  LET N == Len(ns)
             ms == WithFile(ns, n, kept)
             L == LooksOf(ns, mt)
             M == LooksOf(ms, mt)
         IN  /\ Sound(ms, mt) /\ Edited(L, M, N, n, kept)
             /\ \A k \in Nat, b \in Texts : k > N => M[<<k, b>>] = Null
             /\ M[<<n, kept>>] = IF ns[n].type = "dir" THEN N + 1 ELSE Null
             /\ ns[n].type # "dir" => L[<<n, kept>>] = Null
<1> DEFINE N == Len(ns)
           ms == WithFile(ns, n, kept)
           L == LooksOf(ns, mt)
           M == LooksOf(ms, mt)
<1>1. NodesSound(ns) /\ MountsSound(ns, mt) /\ Separate(L)
  BY DEF Sound
<1>2. /\ ns \in Seq(Records) /\ N \in Nat /\ N >= 3 /\ n \in 1 .. N /\ n \in 2 .. N
      /\ \A k \in 1 .. N : ns[k] \in Records
  BY <1>1 DEF NodesSound
<1>3. /\ ms \in Seq(Records) /\ Len(ms) = N + 1
      /\ ms[N + 1] = Node("file", kept)
      /\ \A k \in 1 .. N : /\ ms[k].type = ns[k].type /\ ms[k].data = ns[k].data
                           /\ ms[k].name = ns[k].name
                           /\ k # n => ms[k].children = ns[k].children
      /\ ms[n].children = <<N + 1>> \o ns[n].children
  BY <1>2, WithFileShape
<1>4. /\ ms[N + 1].type = "file" /\ ms[N + 1].data \in Data /\ ms[N + 1].name = kept
      /\ ms[N + 1].children = <<>>
  BY <1>3, NewNode
<1>5. /\ \A k \in 1 .. N : ns[k].children \in Seq(Nat)
      /\ \A k \in 1 .. N : \A i \in DOMAIN ns[k].children : ns[k].children[i] \in k + 1 .. N
  BY <1>1, <1>2 DEF NodesSound, Records
<1>6. 1 .. N + 1 = 1 .. N \cup {N + 1} /\ 2 .. N + 1 = 2 .. N \cup {N + 1} /\ 2 .. N \subseteq 1 .. N
  BY <1>2
<1> HIDE DEF N, ms, L, M
<1>7. ASSUME NEW k \in 1 .. N + 1, NEW i \in DOMAIN ms[k].children
      PROVE  \/ k \in 1 .. N /\ i \in DOMAIN ns[k].children /\ ms[k].children[i] = ns[k].children[i]
             \/ k = n /\ ms[k].children[i] = N + 1
             \/ k = n /\ \E j \in DOMAIN ns[k].children : ms[k].children[i] = ns[k].children[j]
  <2>1. CASE k = N + 1
    BY <1>4, <1>7, <2>1
  <2>2. CASE k \in 1 .. N /\ k # n
    BY <1>3, <1>7, <2>2
  <2>3. CASE k = n
    <3>1. N + 1 \in Nat /\ ns[n].children \in Seq(Nat)
      BY <1>2, <1>5
    <3>2. \A j \in DOMAIN (<<N + 1>> \o ns[n].children) :
            \/ (<<N + 1>> \o ns[n].children)[j] = N + 1
            \/ \E l \in DOMAIN ns[n].children : (<<N + 1>> \o ns[n].children)[j] = ns[n].children[l]
      BY <3>1, PrependedList
    <3> QED
      BY <1>3, <1>7, <2>3, <3>2
  <2> QED
    BY <1>6, <1>7, <2>1, <2>2, <2>3
<1>8. NodesSound(ms)
  <2>1. \A k \in 2 .. N + 1 : ms[k].type \in {"dir", "file"}
    BY <1>1, <1>3, <1>4, <1>6 DEF NodesSound, N
  <2>2. \A k \in 2 .. N + 1 : ms[k].type = "file" => ms[k].data \in Data
    BY <1>1, <1>3, <1>4, <1>6 DEF NodesSound, N
  <2>3. ms[2].type = "dir"
    BY <1>1, <1>2, <1>3 DEF NodesSound, N
  <2>4. ASSUME NEW k \in 1 .. N + 1, NEW i \in DOMAIN ms[k].children
        PROVE  ms[k].children[i] \in k + 1 .. N + 1
    <3>1. \/ k \in 1 .. N /\ ms[k].children[i] \in k + 1 .. N
          \/ k = n /\ ms[k].children[i] = N + 1
      BY <1>2, <1>5, <1>7, <2>4
    <3> QED
      BY <1>2, <3>1
  <2>5. N + 1 >= 3
    BY <1>2
  <2> QED
    BY <1>3, <2>1, <2>2, <2>3, <2>4, <2>5 DEF NodesSound
<1>9. MountsSound(ms, mt)
  <2>1. mt \in Seq(Mounts) /\ RootAt(mt, root) = 2
    BY <1>1 DEF MountsSound
  <2>2. ASSUME NEW i \in DOMAIN mt
        PROVE  /\ mt[i].mountpoint \in 1 .. N + 1
               /\ mt[i].root = Null \/ mt[i].root \in mt[i].mountpoint + 1 .. N + 1
               /\ mt[i].root # N + 1
    <3>1. mt[i].mountpoint \in 1 .. N /\ (mt[i].root = Null \/ mt[i].root \in mt[i].mountpoint + 1 .. N)
      BY <1>1 DEF MountsSound, N
    <3> QED
      BY <1>2, <3>1 DEF Null
  <2>3. ASSUME NEW i \in DOMAIN mt, NEW k \in 1 .. N + 1, NEW j \in DOMAIN ms[k].children
        PROVE  mt[i].root # ms[k].children[j]
    <3>1. \A l \in 1 .. N : \A h \in DOMAIN ns[l].children : mt[i].root # ns[l].children[h]
      BY <1>1 DEF MountsSound, N
    <3> QED
      BY <1>2, <1>7, <2>2, <2>3, <3>1
  <2> QED
    BY <1>3, <2>1, <2>2, <2>3 DEF MountsSound
<1>10. ASSUME NEW k \in 2 .. N, NEW b
       PROVE  ChildNamed(ms, ms[k].children, b) =
                IF k = n /\ b = kept THEN N + 1 ELSE ChildNamed(ns, ns[k].children, b)
  <2>1. ns[k].children \in Seq(Nat) /\ N + 1 \in Nat
    BY <1>2, <1>5, <1>6
  <2>2. \A i \in DOMAIN ns[k].children : ms[ns[k].children[i]].name = ns[ns[k].children[i]].name
    <3>1. \A i \in DOMAIN ns[k].children : ns[k].children[i] \in 1 .. N
      BY <1>2, <1>5, <1>6
    <3> QED
      BY <1>3, <3>1
  <2>3. CASE k = n
    <3>1. ChildNamed(ms, <<N + 1>> \o ns[k].children, b) =
            IF ms[N + 1].name = b THEN N + 1 ELSE ChildNamed(ns, ns[k].children, b)
      <4> DEFINE list == ns[k].children
                 c == N + 1
      <4>1. /\ list \in Seq(Nat) /\ c \in Nat
            /\ \A i \in DOMAIN list : ms[list[i]].name = ns[list[i]].name
        BY <2>1, <2>2
      <4> HIDE DEF list, c
      <4>2. ChildNamed(ms, <<c>> \o list, b) = IF ms[c].name = b THEN c ELSE ChildNamed(ns, list, b)
        BY <4>1, ChildInFront
      <4> QED
        BY <4>2 DEF list, c
    <3> QED
      BY <1>3, <1>4, <2>3, <3>1
  <2>4. CASE k # n
    <3>1. ChildNamed(ms, ns[k].children, b) = ChildNamed(ns, ns[k].children, b)
      <4> DEFINE list == ns[k].children
      <4>1. list \in Seq(Nat) /\ \A i \in DOMAIN list : ms[list[i]].name = ns[list[i]].name
        BY <2>1, <2>2
      <4> HIDE DEF list
      <4>2. ChildNamed(ms, list, b) = ChildNamed(ns, list, b)
        BY <4>1, ChildSame
      <4> QED
        BY <4>2 DEF list
    <3>2. ms[k].children = ns[k].children
      BY <1>3, <1>6, <2>4
    <3> QED
      BY <2>4, <3>1, <3>2
  <2> QED
    BY <2>3, <2>4
<1>11. RootAt(mt, N + 1) = N + 1
  <2>1. \A i \in DOMAIN mt : mt[i].mountpoint # N + 1
    <3>1. \A i \in DOMAIN mt : mt[i].mountpoint \in 1 .. N
      BY <1>1 DEF MountsSound, N
    <3> QED
      BY <1>2, <3>1
  <2>2. mt \in Seq(Mounts)
    BY <1>1 DEF MountsSound
  <2> QED
    BY <2>1, <2>2, RootAtIs
<1>12. \A k \in 2 .. N : \A b :
         LookAt(ms, mt, k, b) = IF ns[k].type # "file" /\ k = n /\ b = kept THEN N + 1
                                ELSE LookAt(ns, mt, k, b)
  BY <1>3, <1>6, <1>10, <1>11 DEF LookAt
<1>13. \A b : LookAt(ms, mt, N + 1, b) = Null
  BY <1>4 DEF LookAt
<1>14. /\ L \in Graphs /\ Rising(L)
       /\ \A k \in Nat, b \in Texts : L[<<k, b>>] \in 0 .. N
       /\ \A k \in 2 .. N, b \in Texts : L[<<k, b>>] = LookAt(ns, mt, k, b)
       /\ \A k \in Nat, b \in Texts : k \notin 2 .. N => L[<<k, b>>] = Null
  BY <1>1, LooksSound DEF L, N
<1>15. /\ M \in Graphs
       /\ \A k \in 2 .. N + 1, b \in Texts : M[<<k, b>>] = LookAt(ms, mt, k, b)
       /\ \A k \in Nat, b \in Texts : k \notin 2 .. N + 1 => M[<<k, b>>] = Null
  BY <1>3, <1>8, <1>9, LooksSound DEF M
<1>16. M[<<n, kept>>] = IF ns[n].type = "dir" THEN N + 1 ELSE Null
  <2>1. ns[n].type = "dir" \/ ns[n].type = "file"
    BY <1>1, <1>2 DEF NodesSound, N
  <2>2. M[<<n, kept>>] = LookAt(ms, mt, n, kept) /\ n \in 2 .. N
    BY <1>2, <1>6, <1>15
  <2>3. ns[n].type = "file" => LookAt(ns, mt, n, kept) = Null
    BY DEF LookAt
  <2> QED
    BY <1>12, <2>1, <2>2, <2>3
<1>17. ns[n].type # "dir" => L[<<n, kept>>] = Null
  <2>1. ns[n].type = "dir" \/ ns[n].type = "file"
    BY <1>1, <1>2 DEF NodesSound, N
  <2>2. L[<<n, kept>>] = LookAt(ns, mt, n, kept)
    BY <1>2, <1>14
  <2> QED
    BY <2>1, <2>2 DEF LookAt
<1>18. Edited(L, M, N, n, kept)
  <2>1. ASSUME NEW k \in 0 .. N, NEW b \in Texts, ~ (k = n /\ b = kept)
        PROVE  M[<<k, b>>] = L[<<k, b>>]
    <3>1. CASE k \in 2 .. N
      BY <1>6, <1>12, <1>14, <1>15, <2>1, <3>1
    <3>2. CASE k \notin 2 .. N
      <4>1. k \in Nat /\ k \notin 2 .. N + 1
        BY <1>2, <1>6, <3>2
      <4> QED
        BY <1>14, <1>15, <3>2, <4>1
    <3> QED
      BY <3>1, <3>2
  <2> QED
    BY <2>1 DEF Edited
<1>19. ASSUME NEW k \in Nat, NEW b \in Texts, k > N
       PROVE  M[<<k, b>>] = Null
  <2>1. CASE k = N + 1
    BY <1>2, <1>6, <1>13, <1>15, <2>1
  <2>2. CASE k # N + 1
    BY <1>2, <1>15, <1>19, <2>2
  <2> QED
    BY <2>1, <2>2
<1>20. Separate(M)
  <2>1. \A k \in Nat, b \in Texts : L[<<k, b>>] <= N /\ L[<<k, b>>] \in Nat
    <3>1. ASSUME NEW k \in Nat, NEW b \in Texts PROVE L[<<k, b>>] \in 0 .. N
      BY <1>14
    <3>2. \A x \in 0 .. N : x <= N /\ x \in Nat
      BY <1>2
    <3> QED
      BY <3>1, <3>2
  <2>2. \A k \in Nat, b \in Texts : k > N \/ (k = n /\ b = kept) =>
          M[<<k, b>>] = Null \/ (M[<<k, b>>] \in Nat /\ M[<<k, b>>] > N)
    BY <1>2, <1>16, <1>19
  <2>3. \A k, l \in Nat, b, c \in Texts :
          /\ k > N \/ (k = n /\ b = kept)
          /\ l > N \/ (l = n /\ c = kept)
          /\ M[<<k, b>>] = M[<<l, c>>] /\ M[<<k, b>>] # Null
          => k = l /\ b = c
    BY <1>19
  <2> QED
    BY <1>1, <1>2, <1>18, <2>1, <2>2, <2>3, SeparateEdited
<1> QED
  BY <1>8, <1>9, <1>16, <1>17, <1>18, <1>19, <1>20 DEF Sound, N, ms, L, M

-----------------------------------------------------------------------------
(* A new mount. *)

LEMMA Pair ==
  ASSUME NEW T, NEW x \in T, NEW y \in T
  PROVE  <<x, y>> \in Seq(T) /\ Len(<<x, y>>) = 2 /\ <<x, y>>[1] = x /\ <<x, y>>[2] = y
  OBVIOUS

LEMMA RootShape ==
  ASSUME NEW ns \in Seq(Records)
  PROVE  LET N == Len(ns)
             ms == tmpfsMount(ns)
         IN  /\ ms \in Seq(Records) /\ Len(ms) = N + 2 /\ N \in Nat
             /\ \A k \in 1 .. N : ms[k] = ns[k]
             /\ ms[N + 1].type = "dir" /\ ms[N + 1].children = <<N + 2>> /\ ms[N + 1].data = <<>>
             /\ ms[N + 2] = Node("dir", "dev")
<1> DEFINE N == Len(ns)
           x == [Node("dir", "") EXCEPT !.children = <<N + 2>>]
           y == Node("dir", "dev")
           e == <<x, y>>
           ms == tmpfsMount(ns)
<1>1. N \in Nat
  OBVIOUS
<1>2. "" \in Texts /\ "dev" \in Texts
  BY DEF Texts
<1>3. Node("dir", "") \in Records /\ y \in Records
      /\ Node("dir", "").type = "dir" /\ Node("dir", "").data = <<>>
  BY <1>2, NewNode
<1>4. <<N + 2>> \in Seq(Nat)
  BY <1>1
<1>5. x \in Records /\ x.type = "dir" /\ x.data = <<>> /\ x.children = <<N + 2>>
  BY <1>3, <1>4 DEF Records
<1>6. ms = ns \o e
  BY DEF tmpfsMount
<1> HIDE DEF x, y, ms
<1>7. e \in Seq(Records) /\ Len(e) = 2 /\ e[1] = x /\ e[2] = y
  BY <1>3, <1>5, Pair
<1> HIDE DEF e
<1>8. /\ ns \o e \in Seq(Records) /\ Len(ns \o e) = Len(ns) + Len(e)
      /\ \A i \in 1 .. Len(ns) : (ns \o e)[i] = ns[i]
      /\ \A i \in 1 .. Len(e) : (ns \o e)[Len(ns) + i] = e[i]
  <2>1. ns \in Seq(Records) /\ e \in Seq(Records)
    BY <1>7
  <2> QED
    BY <2>1, Joined
<1>9. 1 \in 1 .. Len(e) /\ 2 \in 1 .. Len(e)
  BY <1>7
<1>10. ms[N + 1] = x /\ ms[N + 2] = y
  BY <1>6, <1>7, <1>8, <1>9
<1> QED
  BY <1>1, <1>5, <1>6, <1>7, <1>8, <1>10 DEF ms, y

IsRoot(mt, n) == \E i \in DOMAIN mt : mt[i].root = n

NodesAfter(ns, type) == IF type = "tmp" THEN tmpfsMount(ns) ELSE ns
RootAfter(ns, type) == IF type = "tmp" THEN Len(ns) + 1 ELSE Null
WithMount(mt, n, r) == <<[mountpoint |-> n, root |-> r]>> \o mt

Agree(L, M, N) == \A k \in 0 .. N, b \in Texts : M[<<k, b>>] = L[<<k, b>>]

NewLooks(M, N, type) ==
  \A k \in Nat, b \in Texts : k > N =>
    M[<<k, b>>] = IF type = "tmp" /\ k = N + 1 /\ b = "dev" THEN N + 2 ELSE Null

\* A new mount at a node is an edit of the edge that leads to it, unless the
\* node is a root itself, which no search looks for among the mount points.
LEMMA MountAdded ==
  ASSUME NEW ns, NEW mt, Sound(ns, mt), NEW n \in 2 .. Len(ns), NEW type,
         NEW m \in Nat, NEW a \in Texts,
         IsRoot(mt, n) \/ LooksOf(ns, mt)[<<m, a>>] = n
  PROVE  LET N == Len(ns)
             ms == NodesAfter(ns, type)
             r == RootAfter(ns, type)
             nt == WithMount(mt, n, r)
             L == LooksOf(ns, mt)
             M == LooksOf(ms, nt)
         IN  /\ Sound(ms, nt) /\ NewLooks(M, N, type)
             /\ IsRoot(mt, n) => Agree(L, M, N)
             /\ ~ IsRoot(mt, n) => Edited(L, M, N, m, a) /\ M[<<m, a>>] = r
<1> DEFINE known == type = "tmp"
<1>0. known \in BOOLEAN
  OBVIOUS
<1> HIDE DEF known
<1> DEFINE N == Len(ns)
           K == IF known THEN N + 2 ELSE N
           ms == IF known THEN tmpfsMount(ns) ELSE ns
           r == IF known THEN N + 1 ELSE Null
           x == [mountpoint |-> n, root |-> r]
           nt == WithMount(mt, n, r)
           L == LooksOf(ns, mt)
           M == LooksOf(ms, nt)
<1>1. NodesSound(ns) /\ MountsSound(ns, mt) /\ Separate(L)
  BY DEF Sound
<1>2. /\ ns \in Seq(Records) /\ N \in Nat /\ N >= 3 /\ n \in 1 .. N /\ n \in 2 .. N
      /\ \A k \in 1 .. N : ns[k] \in Records
      /\ mt \in Seq(Mounts)
  BY <1>1 DEF NodesSound, MountsSound
<1>3. /\ ms \in Seq(Records) /\ Len(ms) = K
      /\ \A k \in 1 .. N : ms[k] = ns[k]
      /\ known => /\ ms[N + 1].type = "dir" /\ ms[N + 1].children = <<N + 2>>
                  /\ ms[N + 2] = Node("dir", "dev")
  <2>1. CASE known
    BY <1>2, <2>1, RootShape
  <2>2. CASE ~ known
    BY <1>2, <2>2
  <2> QED
    BY <2>1, <2>2
<1>4. known => /\ ms[N + 2].type = "dir" /\ ms[N + 2].name = "dev" /\ ms[N + 2].children = <<>>
  <2>1. "dev" \in Texts
    BY DEF Texts
  <2> QED
    BY <1>3, <2>1, NewNode
<1>5. /\ \A k \in 1 .. N : ns[k].children \in Seq(Nat)
      /\ \A k \in 1 .. N : \A i \in DOMAIN ns[k].children : ns[k].children[i] \in k + 1 .. N
  BY <1>1, <1>2 DEF NodesSound, Records
<1>6. /\ K \in Nat /\ N <= K /\ 1 .. N \subseteq 1 .. K /\ 2 .. N \subseteq 2 .. K
      /\ 2 .. N \subseteq 1 .. N
      /\ \A k \in 1 .. K : k \in 1 .. N \/ (known /\ (k = N + 1 \/ k = N + 2))
      /\ \A k \in 2 .. K : k \in 2 .. N \/ (known /\ (k = N + 1 \/ k = N + 2))
      /\ known => K = N + 2 /\ N + 1 \in 2 .. K /\ N + 2 \in 2 .. K
      /\ ~ known => K = N
  BY <1>0, <1>2, SMTT(60)
<1>7. /\ r \in Nat /\ (known => r = N + 1) /\ (~ known => r = Null)
      /\ x \in Mounts /\ x.mountpoint = n /\ x.root = r
  BY <1>2 DEF Mounts, Null
<1>8. /\ nt \in Seq(Mounts) /\ Len(nt) = Len(mt) + 1
      /\ \A i \in DOMAIN nt : nt[i] = x \/ \E j \in DOMAIN mt : nt[i] = mt[j]
  BY <1>2, <1>7, PrependedList DEF WithMount
<1>9. \A c : RootAt(nt, c) = IF n = c THEN r ELSE RootAt(mt, c)
  BY <1>2, <1>7, MountInFront DEF WithMount
<1> HIDE DEF N, K, ms, r, x, nt, L, M
<1>10. NodesSound(ms)
  <2>1. \A k \in 2 .. K : ms[k].type \in {"dir", "file"}
    BY <1>1, <1>3, <1>4, <1>6 DEF NodesSound, N
  <2>2. \A k \in 2 .. K : ms[k].type = "file" => ms[k].data \in Data
    BY <1>1, <1>3, <1>4, <1>6 DEF NodesSound, N
  <2>3. ms[2].type = "dir"
    BY <1>1, <1>2, <1>3 DEF NodesSound, N
  <2>4. ASSUME NEW k \in 1 .. K, NEW i \in DOMAIN ms[k].children
        PROVE  ms[k].children[i] \in k + 1 .. K
    <3>1. CASE k \in 1 .. N
      <4>1. ms[k].children[i] \in k + 1 .. N
        BY <1>3, <1>5, <2>4, <3>1
      <4> QED
        BY <1>2, <1>6, <3>1, <4>1
    <3>2. CASE known /\ k = N + 1
      <4>1. ms[k].children[i] = N + 2
        BY <1>3, <2>4, <3>2
      <4> QED
        BY <1>2, <1>6, <3>2, <4>1
    <3>3. CASE known /\ k = N + 2
      BY <1>4, <2>4, <3>3
    <3> QED
      BY <1>6, <3>1, <3>2, <3>3
  <2>5. K >= 3
    BY <1>2, <1>6
  <2> QED
    BY <1>3, <2>1, <2>2, <2>3, <2>4, <2>5 DEF NodesSound
<1>11. /\ \A i \in DOMAIN mt : mt[i].mountpoint \in 1 .. N
       /\ \A i \in DOMAIN mt : mt[i].root = Null \/ mt[i].root \in mt[i].mountpoint + 1 .. N
       /\ \A i \in DOMAIN mt : \A k \in 1 .. N : \A j \in DOMAIN ns[k].children :
            mt[i].root # ns[k].children[j]
       /\ RootAt(mt, root) = 2
  BY <1>1 DEF MountsSound, N
<1>12. MountsSound(ms, nt)
  <2>1. \A i \in DOMAIN nt : nt[i].mountpoint \in 1 .. K
    BY <1>2, <1>6, <1>7, <1>8, <1>11, SMTT(60)
  <2>2. ASSUME NEW i \in DOMAIN nt
        PROVE  nt[i].root = Null \/ nt[i].root \in nt[i].mountpoint + 1 .. K
    <3>1. CASE nt[i] = x
      BY <1>2, <1>6, <1>7, <3>1
    <3>2. CASE \E j \in DOMAIN mt : nt[i] = mt[j]
      <4>1. nt[i].root = Null \/ nt[i].root \in nt[i].mountpoint + 1 .. N
        BY <1>11, <3>2
      <4>2. nt[i].mountpoint \in 1 .. N
        BY <1>11, <3>2
      <4> QED
        BY <1>2, <1>6, <4>1, <4>2
    <3> QED
      BY <1>8, <3>1, <3>2
  <2>3. ASSUME NEW i \in DOMAIN nt, NEW k \in 1 .. K, NEW j \in DOMAIN ms[k].children
        PROVE  nt[i].root # ms[k].children[j]
    <3>1. \/ k \in 1 .. N /\ ms[k].children[j] \in 1 .. N
             /\ \A h \in DOMAIN mt : mt[h].root # ms[k].children[j]
          \/ known /\ ms[k].children[j] = N + 2
      <4>1. CASE k \in 1 .. N
        <5>1. ms[k].children[j] \in k + 1 .. N /\ ms[k].children = ns[k].children
          BY <1>3, <1>5, <2>3, <4>1
        <5>2. ms[k].children[j] \in 1 .. N
          BY <1>2, <4>1, <5>1
        <5> QED
          BY <1>11, <2>3, <4>1, <5>1, <5>2
      <4>2. CASE known /\ k = N + 1
        BY <1>3, <2>3, <4>2
      <4>3. CASE known /\ k = N + 2
        BY <1>4, <2>3, <4>3
      <4> QED
        BY <1>6, <4>1, <4>2, <4>3
    <3>2. CASE nt[i] = x
      BY <1>2, <1>7, <3>1, <3>2 DEF Null
    <3>3. CASE \E h \in DOMAIN mt : nt[i] = mt[h]
      <4>1. nt[i].root = Null \/ nt[i].root \in nt[i].mountpoint + 1 .. N
        BY <1>11, <3>3
      <4>2. nt[i].mountpoint \in 1 .. N
        BY <1>11, <3>3
      <4>3. nt[i].root # N + 2
        BY <1>2, <4>1, <4>2 DEF Null
      <4> QED
        BY <3>1, <3>3, <4>3
    <3> QED
      BY <1>8, <3>2, <3>3
  <2>4. RootAt(nt, root) = 2
    BY <1>2, <1>9, <1>11 DEF root
  <2> QED
    BY <1>3, <1>8, <2>1, <2>2, <2>3, <2>4 DEF MountsSound
<1>13. /\ L \in Graphs /\ Rising(L)
       /\ \A k \in Nat, b \in Texts : L[<<k, b>>] \in 0 .. N
       /\ \A k \in 2 .. N, b \in Texts : L[<<k, b>>] = LookAt(ns, mt, k, b)
       /\ \A k \in Nat, b \in Texts : k \notin 2 .. N => L[<<k, b>>] = Null
  BY <1>1, LooksSound DEF L, N
<1>14. /\ M \in Graphs
       /\ \A k \in 2 .. K, b \in Texts : M[<<k, b>>] = LookAt(ms, nt, k, b)
       /\ \A k \in Nat, b \in Texts : k \notin 2 .. K => M[<<k, b>>] = Null
  BY <1>3, <1>10, <1>12, LooksSound DEF M
\* The searches of the old nodes' children.
<1>15. ASSUME NEW k \in 2 .. N, NEW b
       PROVE  /\ ChildNamed(ms, ms[k].children, b) = ChildNamed(ns, ns[k].children, b)
              /\ IsRoot(mt, n) => ChildNamed(ns, ns[k].children, b) # n
  <2> DEFINE list == ns[k].children
  <2>1. list \in Seq(Nat) /\ \A i \in DOMAIN list : list[i] \in 1 .. N
    BY <1>2, <1>5, <1>6
  <2>2. \A i \in DOMAIN list : ms[list[i]].name = ns[list[i]].name
    BY <1>3, <2>1
  <2>3. ms[k].children = list
    BY <1>3, <1>6
  <2>4. k \in 1 .. N
    BY <1>6
  <2>5. IsRoot(mt, n) => \A i \in DOMAIN list : list[i] # n
    BY <1>11, <2>4 DEF IsRoot
  <2> HIDE DEF list
  <2>6. ChildNamed(ms, list, b) = ChildNamed(ns, list, b)
    BY <2>1, <2>2, ChildSame, SMTT(60)
  <2>7. ChildNamed(ns, list, b) = Null \/ \E i \in DOMAIN list : ChildNamed(ns, list, b) = list[i]
    BY <2>1, ChildNamedIn
  <2>8. IsRoot(mt, n) => ChildNamed(ns, list, b) # n
    BY <1>2, <2>5, <2>7 DEF Null
  <2> QED
    BY <2>3, <2>6, <2>8 DEF list
<1>16. \A k \in 2 .. N : \A b :
         LookAt(ms, nt, k, b) = IF ns[k].type # "file" /\ ChildNamed(ns, ns[k].children, b) = n THEN r
                                ELSE LookAt(ns, mt, k, b)
  BY <1>3, <1>6, <1>9, <1>15 DEF LookAt
<1>17. ASSUME IsRoot(mt, n), NEW k \in 0 .. N, NEW b \in Texts
       PROVE  M[<<k, b>>] = L[<<k, b>>]
  <2>1. CASE k \in 2 .. N
    BY <1>6, <1>13, <1>14, <1>15, <1>16, <1>17, <2>1
  <2>2. CASE k \notin 2 .. N
    <3>1. k \in Nat /\ k \notin 2 .. K
      BY <1>2, <1>6, <2>2
    <3> QED
      BY <1>13, <1>14, <2>2, <3>1
  <2> QED
    BY <2>1, <2>2
<1>18. ASSUME ~ IsRoot(mt, n)
       PROVE  Edited(L, M, N, m, a) /\ M[<<m, a>>] = r
  <2>1. L[<<m, a>>] = n
    BY <1>18 DEF L
  <2>2. m \in 2 .. N
    BY <1>2, <1>13, <2>1 DEF Null
  <2> DEFINE c == ChildNamed(ns, ns[m].children, a)
  <2>3. ns[m].type # "file" /\ RootAt(mt, c) = n
    BY <1>2, <1>13, <2>1, <2>2 DEF LookAt, Null
  <2> HIDE DEF c
  <2>4. c = n
    <3>1. RootAt(mt, c) = c \/ \E i \in DOMAIN mt : mt[i].mountpoint = c /\ RootAt(mt, c) = mt[i].root
      BY <1>2, RootAtIs
    <3> QED
      BY <1>18, <2>3, <3>1 DEF IsRoot
  <2>5. RootAt(mt, n) = n
    BY <2>3, <2>4
  <2>6. M[<<m, a>>] = r
    BY <1>6, <1>14, <1>16, <2>2, <2>3, <2>4 DEF c
  <2>7. ASSUME NEW k \in 0 .. N, NEW b \in Texts, ~ (k = m /\ b = a)
        PROVE  M[<<k, b>>] = L[<<k, b>>]
    <3>1. CASE k \notin 2 .. N
      <4>1. k \in Nat /\ k \notin 2 .. K
        BY <1>2, <1>6, <3>1
      <4> QED
        BY <1>13, <1>14, <3>1, <4>1
    <3>2. CASE k \in 2 .. N
      <4>1. k \in Nat /\ k \in 2 .. K
        BY <1>6, <3>2
      <4>2. L[<<k, b>>] # n
        <5>1. L[<<k, b>>] = L[<<m, a>>] /\ L[<<k, b>>] # Null => k = m /\ b = a
          BY <1>1, <4>1 DEF Separate
        <5> QED
          BY <1>2, <2>1, <2>7, <5>1 DEF Null
      <4>3. ~ (ns[k].type # "file" /\ ChildNamed(ns, ns[k].children, b) = n)
        BY <1>13, <2>5, <3>2, <4>2 DEF LookAt
      <4> QED
        BY <1>13, <1>14, <1>16, <3>2, <4>1, <4>3
    <3> QED
      BY <3>1, <3>2
  <2> QED
    BY <2>6, <2>7 DEF Edited
<1>19. ASSUME NEW k \in Nat, NEW b \in Texts, k > N
       PROVE  /\ ~ known => M[<<k, b>>] = Null
              /\ known => M[<<k, b>>] = IF k = N + 1 /\ b = "dev" THEN N + 2 ELSE Null
  <2>1. CASE ~ known \/ k > N + 2
    BY <1>2, <1>6, <1>14, <1>19, <2>1
  <2>2. CASE known /\ k = N + 2
    <3>1. LookAt(ms, nt, k, b) = RootAt(nt, Null)
      <4>1. <<>> \in Seq(Nat) /\ \A i \in DOMAIN <<>> : FALSE
        OBVIOUS
      <4>2. ChildNamed(ms, <<>>, b) = Null
        BY <4>1, ChildNamedIn
      <4> QED
        BY <1>4, <2>2, <4>2 DEF LookAt
    <3>2. RootAt(nt, Null) = Null
      <4>1. \A i \in DOMAIN nt : nt[i].mountpoint # Null
        BY <1>12 DEF MountsSound, Null
      <4> QED
        BY <1>8, <4>1, RootAtIs
    <3> QED
      BY <1>2, <1>6, <1>14, <2>2, <3>1, <3>2
  <2>3. CASE known /\ k = N + 1
    <3> DEFINE list == <<N + 2>>
               c == ChildNamed(ms, list, b)
    <3>1. list \in Seq(Nat) /\ DOMAIN list = {1} /\ list[1] = N + 2
      BY <1>2
    <3> HIDE DEF list
    <3>2. c = IF b = "dev" THEN N + 2 ELSE Null
      <4>1. CASE b = "dev"
        <5>1. 1 \in DOMAIN list /\ ms[list[1]].name = b
          BY <1>4, <2>3, <3>1, <4>1
        <5>2. PICK i \in DOMAIN list : FirstNamed(ms, list, b, i)
          BY <3>1, <5>1, ChildNamedFound
        <5> QED
          BY <3>1, <4>1, <5>2 DEF FirstNamed
      <4>2. CASE b # "dev"
        <5>1. \A i \in DOMAIN list : ms[list[i]].name # b
          BY <1>4, <2>3, <3>1, <4>2
        <5>2. ChildNamed(ms, list, b) = Null
          BY <3>1, <5>1, ChildNamedIs
        <5> QED
          BY <4>2, <5>2
      <4> QED
        BY <4>1, <4>2
    <3>3. LookAt(ms, nt, k, b) = RootAt(nt, c)
      BY <1>3, <2>3 DEF LookAt, list
    <3> HIDE DEF c
    <3>4. \A i \in DOMAIN nt : nt[i].mountpoint # Null /\ nt[i].mountpoint # N + 2
      <4>1. \A i \in DOMAIN nt : nt[i].mountpoint \in 1 .. N
        BY <1>2, <1>7, <1>8, <1>11
      <4> QED
        BY <1>2, <4>1 DEF Null
    <3>5. RootAt(nt, Null) = Null /\ RootAt(nt, N + 2) = N + 2
      BY <1>8, <3>4, RootAtNone
    <3>6. M[<<k, b>>] = RootAt(nt, c)
      BY <1>6, <1>14, <2>3, <3>3
    <3> QED
      BY <2>3, <3>2, <3>5, <3>6
  <2> QED
    BY <1>2, <1>19, <2>1, <2>2, <2>3
<1>20. Separate(M)
  <2> DEFINE e == IF IsRoot(mt, n) THEN 0 ELSE m
  <2>1. \A k \in Nat, b \in Texts : L[<<k, b>>] <= N /\ L[<<k, b>>] \in Nat
    <3>1. ASSUME NEW k \in Nat, NEW b \in Texts PROVE L[<<k, b>>] \in 0 .. N
      BY <1>13
    <3>2. \A y \in 0 .. N : y <= N /\ y \in Nat
      BY <1>2
    <3> QED
      BY <3>1, <3>2
  <2>2. M[<<e, a>>] = Null \/ (M[<<e, a>>] = N + 1 /\ known)
    <3>1. CASE IsRoot(mt, n)
      <4>1. 0 \in Nat /\ 0 \notin 2 .. K
        OBVIOUS
      <4> QED
        BY <1>14, <3>1, <4>1
    <3>2. CASE ~ IsRoot(mt, n)
      BY <1>7, <1>18, <3>2
    <3> QED
      BY <3>1, <3>2
  <2>3. Edited(L, M, N, e, a)
    BY <1>17, <1>18 DEF Edited
  <2>4. e \in Nat
    OBVIOUS
  <2> HIDE DEF e
  <2>5. ASSUME NEW k \in Nat, NEW b \in Texts, k > N \/ (k = e /\ b = a)
        PROVE  \/ M[<<k, b>>] = Null
               \/ M[<<k, b>>] = N + 1 /\ k = e /\ b = a
               \/ M[<<k, b>>] = N + 2 /\ k = N + 1 /\ b = "dev"
    BY <1>19, <2>2, <2>5
  <2>6. \A k \in Nat, b \in Texts : k > N \/ (k = e /\ b = a) =>
          M[<<k, b>>] = Null \/ (M[<<k, b>>] \in Nat /\ M[<<k, b>>] > N)
    BY <1>2, <2>5
  <2>7. \A k, l \in Nat, b, c \in Texts :
          /\ k > N \/ (k = e /\ b = a)
          /\ l > N \/ (l = e /\ c = a)
          /\ M[<<k, b>>] = M[<<l, c>>] /\ M[<<k, b>>] # Null
          => k = l /\ b = c
    BY <1>2, <2>5
  <2> QED
    BY <1>1, <1>2, <2>1, <2>3, <2>4, <2>6, <2>7, SeparateEdited
<1> QED
  BY <1>10, <1>12, <1>17, <1>18, <1>19, <1>20 DEF Sound, N, ms, r, nt, L, M, known,
     NodesAfter, RootAfter, Agree, NewLooks

-----------------------------------------------------------------------------
(* The tree that the refinement reads from the nodes. *)

looks == LooksOf(nodes, mnts)

LEMMA ReachIs ==
  ASSUME Sound(nodes, mnts)
  PROVE  Reach = {e \in Paths \X Nat : Leads(looks, e[1], e[2])}
<1> DEFINE N == Len(nodes)
           NamesOf(n) == {nodes[c].name : c \in Range(nodes[n].children)}
           Step(S) == {x \in UNION {{<<Append(e[1], name), vfsLook(e[2], name)>> : name \in NamesOf(e[2])}
                                      : e \in S} : x[2] # Null}
           First == {<< <<>>, vfsCross(root) >>}
           Body(f) == [d \in 0 .. Depth |-> IF d = 0 THEN First ELSE Step(f[d - 1])]
           Level[d \in 0 .. Depth] ==
             IF d = 0 THEN {<< <<>>, vfsCross(root) >>}
             ELSE {x \in UNION {{<<Append(e[1], name), vfsLook(e[2], name)>> : name \in NamesOf(e[2])}
                                  : e \in Level[d - 1]} : x[2] # Null}
           Of(d) == {e \in Paths \X Nat : Leads(looks, e[1], e[2]) /\ Len(e[1]) = d}
<1>1. /\ NodesSound(nodes) /\ MountsSound(nodes, mnts)
      /\ nodes \in Seq(Records) /\ N \in Nat /\ N >= 3 /\ Depth = N - 2
      /\ \A n \in 1 .. N : nodes[n] \in Records
  BY DEF Sound, NodesSound, Depth
<1>2. /\ looks \in Graphs /\ Rising(looks)
      /\ \A n \in Nat, a \in Texts : looks[<<n, a>>] \in 0 .. N
      /\ \A n \in 2 .. N, a \in Texts : looks[<<n, a>>] = vfsLook(n, a)
      /\ \A n \in Nat, a \in Texts : n \notin 2 .. N => looks[<<n, a>>] = Null
  BY <1>1, LooksSound, LookIs DEF looks
<1>3. vfsCross(root) = 2
  BY <1>1, LookIs DEF MountsSound
<1>4. ASSUME NEW p \in Paths, NEW n, Leads(looks, p, n)
      PROVE  n \in 2 .. N /\ Len(p) \in 0 .. Depth
  <2>1. n \in Nat /\ n >= Len(p) + 2 /\ Len(p) \in Nat
    BY <1>2, <1>4, LeadsUp DEF Paths
  <2>2. n <= N
    <3>1. ASSUME NEW k \in Nat, NEW b \in Texts PROVE looks[<<k, b>>] <= N
      <4>1. looks[<<k, b>>] \in 0 .. N
        BY <1>2
      <4> QED
        BY <1>1, <4>1
    <3>2. N >= 2
      BY <1>1
    <3> QED
      BY <1>1, <1>2, <1>4, <3>1, <3>2, LeadsWithin
  <2> QED
    BY <1>1, <2>1, <2>2
<1>5. /\ \A n \in 2 .. N : NamesOf(n) \subseteq Texts
      /\ \A n \in 2 .. N, a \in Texts : looks[<<n, a>>] # Null => a \in NamesOf(n)
  <2>1. ASSUME NEW n \in 2 .. N
        PROVE  /\ n \in 1 .. N /\ nodes[n].children \in Seq(Nat)
               /\ \A i \in DOMAIN nodes[n].children : nodes[n].children[i] \in 1 .. N
    <3>1. n \in 1 .. N
      BY <1>1
    <3>2. nodes[n].children \in Seq(Nat)
      BY <1>1, <3>1 DEF Records
    <3>3. \A i \in DOMAIN nodes[n].children : nodes[n].children[i] \in n + 1 .. N
      BY <1>1, <3>1 DEF NodesSound
    <3>4. n + 1 .. N \subseteq 1 .. N
      BY <1>1
    <3> QED
      BY <3>1, <3>2, <3>3, <3>4
  <2>2. ASSUME NEW n \in 2 .. N, NEW c \in Range(nodes[n].children)
        PROVE  nodes[c].name \in Texts
    <3>1. c \in 1 .. N
      BY <2>1, <2>2 DEF Range
    <3> QED
      BY <1>1, <3>1 DEF Records
  <2>3. ASSUME NEW n \in 2 .. N, NEW a \in Texts, looks[<<n, a>>] # Null
        PROVE  \E c \in Range(nodes[n].children) : a = nodes[c].name
    <3> DEFINE list == nodes[n].children
    <3>1. list \in Seq(Nat)
      BY <2>1
    <3> HIDE DEF list
    <3>2. SUFFICES ASSUME \A i \in DOMAIN list : nodes[list[i]].name # a
                   PROVE  looks[<<n, a>>] = Null
      BY <2>3 DEF Range, list
    <3>3. ChildNamed(nodes, list, a) = Null
      BY <3>1, <3>2, ChildNamedIs
    <3>4. RootAt(mnts, Null) = Null
      <4>1. mnts \in Seq(Mounts) /\ \A i \in DOMAIN mnts : mnts[i].mountpoint # Null
        BY <1>1 DEF MountsSound, Null
      <4> QED
        BY <4>1, RootAtNone
    <3>5. vfsLook(n, a) = Null
      BY <3>3, <3>4, LookIs DEF LookAt, list
    <3> QED
      BY <1>2, <3>5
  <2> QED
    BY <2>2, <2>3
<1> HIDE DEF NamesOf
<1>6. Of(0) = First
  <2>1. \A p \in Paths : Len(p) = 0 <=> p = <<>>
    BY DEF Paths
  <2>2. <<>> \in Paths
    BY DEF Paths
  <2>3. \A n : Leads(looks, <<>>, n) <=> n = 2
    BY LeadsFirst
  <2>4. \A e \in Paths \X Nat : e \in Of(0) <=> e = << <<>>, 2 >>
    BY <2>1, <2>2, <2>3
  <2>5. << <<>>, 2 >> \in Paths \X Nat
    BY <2>2
  <2> QED
    BY <1>3, <2>4, <2>5
<1>7. ASSUME NEW d \in 1 .. Depth
      PROVE  Of(d) = Step(Of(d - 1))
  <2>1. ASSUME NEW x \in Step(Of(d - 1))
        PROVE  x \in Of(d)
    <3>0. PICK e \in Of(d - 1) : \E name \in NamesOf(e[2]) :
            x = <<Append(e[1], name), vfsLook(e[2], name)>> /\ vfsLook(e[2], name) # Null
      <4> HIDE DEF Of
      <4> QED
        BY <2>1
    <3>1. PICK name \in NamesOf(e[2]) :
            x = <<Append(e[1], name), vfsLook(e[2], name)>> /\ vfsLook(e[2], name) # Null
      BY <3>0
    <3> DEFINE p == e[1]
               n == e[2]
    <3>2. p \in Paths /\ n \in Nat /\ Leads(looks, p, n) /\ Len(p) = d - 1
      BY <3>1
    <3> HIDE DEF p, n
    <3>3. n \in 2 .. N
      BY <1>4, <3>2
    <3>4. name \in Texts
      BY <1>5, <3>1, <3>3 DEF n
    <3>5. looks[<<n, name>>] = vfsLook(n, name) /\ vfsLook(n, name) # Null
      BY <1>2, <3>1, <3>3, <3>4 DEF n
    <3>6. Leads(looks, Append(p, name), looks[<<n, name>>])
      BY <1>2, <3>2, <3>4, <3>5, LeadsOn
    <3>7. Append(p, name) \in Paths /\ Len(Append(p, name)) = d
      BY <3>2, <3>4, Appended
    <3>8. looks[<<n, name>>] \in Nat
      BY <1>2, <3>2, <3>4 DEF Graphs
    <3>9. x = <<Append(p, name), looks[<<n, name>>]>>
      BY <3>1, <3>5 DEF p, n
    <3> QED
      BY <3>6, <3>7, <3>8, <3>9
  <2>2. ASSUME NEW x \in Of(d)
        PROVE  x \in Step(Of(d - 1))
    <3> DEFINE p == x[1]
               m == x[2]
    <3>1. p \in Paths /\ m \in Nat /\ Leads(looks, p, m) /\ Len(p) = d /\ x = <<p, m>>
      BY <2>2
    <3> HIDE DEF p, m
    <3>2. p # <<>> /\ d \in Nat
      BY <1>1, <3>1 DEF Paths
    <3>3. PICK q \in Paths, a \in Texts : p = Append(q, a) /\ Len(q) + 1 = Len(p)
      BY <3>1, <3>2, LastOff
    <3>4. PICK n \in Nat : Leads(looks, q, n) /\ m = looks[<<n, a>>] /\ m # Null
      BY <1>2, <3>1, <3>3, LeadsBack
    <3>5. n \in 2 .. N
      BY <1>4, <3>4
    <3>6. a \in NamesOf(n) /\ m = vfsLook(n, a)
      BY <1>2, <1>5, <3>4, <3>5
    <3>7. Len(q) = d - 1
      <4>1. Len(q) \in Nat
        BY DEF Paths
      <4> QED
        BY <3>1, <3>2, <3>3, <4>1
    <3>8. <<q, n>> \in Of(d - 1)
      BY <3>4, <3>7
    <3>9. x = <<Append(q, a), vfsLook(n, a)>> /\ x[2] # Null
      BY <3>1, <3>3, <3>4, <3>6
    <3> DEFINE e == <<q, n>>
    <3>10. e \in Of(d - 1) /\ e[1] = q /\ e[2] = n
      BY <3>8
    <3> HIDE DEF e, Of
    <3> QED
      BY <3>6, <3>9, <3>10
  <2> HIDE DEF Of, Step
  <2> QED
    BY <2>1, <2>2
<1>8. Level = Body(Level)
  <2>1. \E f : f = Body(f)
    <3> DEFINE f == [d \in 0 .. Depth |-> Of(d)]
    <3>1. ASSUME NEW d \in 0 .. Depth
          PROVE  f[d] = IF d = 0 THEN First ELSE Step(f[d - 1])
      <4> HIDE DEF Of, First, Step
      <4>1. CASE d = 0
        BY <1>6, <4>1
      <4>2. CASE d # 0
        <5>1. d \in 1 .. Depth /\ d - 1 \in 0 .. Depth
          BY <1>1, <4>2
        <5> QED
          BY <1>7, <4>2, <5>1
      <4> QED
        BY <4>1, <4>2
    <3> HIDE DEF Of, First, Step
    <3>2. f = Body(f)
      <4>1. f = [d \in 0 .. Depth |-> f[d]]
        OBVIOUS
      <4> HIDE DEF f
      <4> QED
        BY <3>1, <4>1
    <3> QED
      BY <3>2
  <2> QED
    BY <2>1, Zenon DEF Level
<1>9. Reach = UNION {Level[d] : d \in 0 .. Depth}
  BY Zenon DEF Reach, Level, NamesOf
<1> HIDE DEF Level, Of, First, Step
<1>10. \A d \in 0 .. Depth : Level[d] = Of(d)
  <2> DEFINE T == {d \in 0 .. Depth : Level[d] = Of(d)}
  <2>1. \A d \in 0 .. Depth : Level[d] = IF d = 0 THEN First ELSE Step(Level[d - 1])
    <3> DEFINE g == Level
    <3>1. g = [d \in 0 .. Depth |-> IF d = 0 THEN First ELSE Step(g[d - 1])]
      BY <1>8
    <3> HIDE DEF g
    <3>2. \A d \in 0 .. Depth : g[d] = IF d = 0 THEN First ELSE Step(g[d - 1])
      BY <3>1
    <3> QED
      BY <3>2 DEF g
  <2>2. 0 \in T
    BY <1>1, <1>6, <2>1
  <2>3. ASSUME NEW d \in 1 .. Depth, d - 1 \in T PROVE d \in T
    <3>1. d \in 0 .. Depth /\ d # 0
      BY <1>1
    <3> QED
      BY <1>7, <2>1, <2>3, <3>1
  <2>4. Depth \in Nat
    BY <1>1
  <2> HIDE DEF T
  <2>5. 0 .. Depth \subseteq T
    BY <2>2, <2>3, <2>4, NatInductionTo
  <2> QED
    BY <2>5 DEF T
<1>11. UNION {Of(d) : d \in 0 .. Depth} = {e \in Paths \X Nat : Leads(looks, e[1], e[2])}
  BY <1>4 DEF Of
<1> QED
  BY <1>9, <1>10, <1>11

Shown(L, ns) ==
  [p \in {q \in Paths : \E n : Leads(L, q, n)} |->
     LET n == CHOOSE n : Leads(L, p, n)
     IN  [type |-> ns[n].type, data |-> ns[n].data]]

ShownMounts(L, mt) == {p \in Paths : \E n : Leads(L, p, n) /\ IsRoot(mt, n)}

Entry(ns, n) == [type |-> ns[n].type, data |-> ns[n].data]

LEMMA ShownAt ==
  ASSUME NEW L \in Graphs, NEW ns
  PROVE  /\ DOMAIN Shown(L, ns) = {q \in Paths : \E n : Leads(L, q, n)}
         /\ \A p, n : Leads(L, p, n) =>
              p \in DOMAIN Shown(L, ns) /\ Shown(L, ns)[p] = Entry(ns, n)
<1>1. DOMAIN Shown(L, ns) = {q \in Paths : \E n : Leads(L, q, n)}
  BY DEF Shown
<1>2. ASSUME NEW p, NEW n, Leads(L, p, n)
      PROVE  Shown(L, ns)[p] = Entry(ns, n)
  <2>1. p \in Paths
    BY <1>2 DEF Leads
  <2> DEFINE m == CHOOSE m : Leads(L, p, m)
  <2>2. Leads(L, p, m)
    BY <1>2
  <2>3. m = n
    <3> HIDE DEF m
    <3> QED
      BY <1>2, <2>1, <2>2, LeadsUnique
  <2>4. Shown(L, ns)[p] = Entry(ns, m)
    BY <1>2, <2>1 DEF Shown, Entry
  <2> QED
    BY <2>3, <2>4
<1> QED
  BY <1>1, <1>2 DEF Leads

LEMMA ShownDomain ==
  ASSUME NEW L \in Graphs, NEW ns
  PROVE  DOMAIN Shown(L, ns) = {q \in Paths : \E n : Leads(L, q, n)}
  BY ShownAt

LEMMA ShownEntry ==
  ASSUME NEW L \in Graphs, NEW ns, NEW p, NEW n, Leads(L, p, n)
  PROVE  Shown(L, ns)[p] = Entry(ns, n)
  BY ShownAt

MapIs == treeOfNodes = Shown(looks, nodes) /\ mountedPaths = ShownMounts(looks, mnts)

LEMMA TreeIs ==
  Sound(nodes, mnts) => MapIs
<1> SUFFICES ASSUME Sound(nodes, mnts) PROVE MapIs
  OBVIOUS
<1> DEFINE R == {e \in Paths \X Nat : Leads(looks, e[1], e[2])}
<1>1. Reach = R
  BY ReachIs
<1>2. looks \in Graphs /\ Rising(looks)
  BY LooksSound DEF looks, Sound
<1>3. \A p, n : Leads(looks, p, n) => p \in Paths /\ n \in Nat
  BY <1>2, LeadsUp DEF Leads
<1>4. \A e : e \in R <=> e = <<e[1], e[2]>> /\ Leads(looks, e[1], e[2])
  BY <1>3
<1>5. \A p, n : Leads(looks, p, n) => <<p, n>> \in R
  BY <1>3
<1> HIDE DEF R
<1>6. {e[1] : e \in R} = {q \in Paths : \E n : Leads(looks, q, n)}
  <2>1. ASSUME NEW e \in R PROVE e[1] \in {q \in Paths : \E n : Leads(looks, q, n)}
    BY <1>3, <1>4
  <2>2. ASSUME NEW q, NEW n, Leads(looks, q, n) PROVE \E e \in R : q = e[1]
    <3>1. <<q, n>> \in R /\ <<q, n>>[1] = q
      BY <1>5, <2>2
    <3> QED
      BY <3>1
  <2> QED
    BY <2>1, <2>2
<1>7. ASSUME NEW p \in {q \in Paths : \E n : Leads(looks, q, n)}
      PROVE  (CHOOSE e \in R : e[1] = p)[2] = CHOOSE n : Leads(looks, p, n)
  <2> DEFINE x == CHOOSE e \in R : e[1] = p
             m == CHOOSE n : Leads(looks, p, n)
  <2>1. Leads(looks, p, m)
    OBVIOUS
  <2>2. \E e \in R : e[1] = p
    BY <1>6
  <2>3. x \in R /\ x[1] = p
    BY <2>2
  <2> HIDE DEF x, m
  <2>4. Leads(looks, p, x[2])
    BY <1>4, <2>3
  <2>5. x[2] = m
    BY <1>2, <2>1, <2>4, LeadsUnique
  <2> QED
    BY <2>5 DEF x, m
<1>8. treeOfNodes = Shown(looks, nodes)
  <2>1. treeOfNodes = [p \in {e[1] : e \in R} |->
                         LET n == (CHOOSE e \in R : e[1] = p)[2]
                         IN  [type |-> nodes[n].type, data |-> nodes[n].data]]
    BY <1>1, Zenon DEF treeOfNodes
  <2> DEFINE f(p) == [type |-> nodes[(CHOOSE e \in R : e[1] = p)[2]].type,
                      data |-> nodes[(CHOOSE e \in R : e[1] = p)[2]].data]
             g(p) == [type |-> nodes[CHOOSE n : Leads(looks, p, n)].type,
                      data |-> nodes[CHOOSE n : Leads(looks, p, n)].data]
             D == {q \in Paths : \E n : Leads(looks, q, n)}
  <2>2. treeOfNodes = [p \in D |-> f(p)]
    BY <1>6, <2>1, Zenon
  <2>3. \A p \in D : f(p) = g(p)
    BY <1>7, Zenon
  <2>4. Shown(looks, nodes) = [p \in D |-> g(p)]
    BY Zenon DEF Shown
  <2> HIDE DEF f, g, D
  <2> QED
    BY <2>2, <2>3, <2>4
<1>9. mountedPaths = ShownMounts(looks, mnts)
  <2>1. mountedPaths = {e[1] : e \in {x \in R : IsRoot(mnts, x[2])}}
    BY <1>1, Zenon DEF mountedPaths, IsRoot
  <2>2. ASSUME NEW p, p \in mountedPaths PROVE p \in ShownMounts(looks, mnts)
    <3>1. PICK e \in R : IsRoot(mnts, e[2]) /\ p = e[1]
      BY <2>1, <2>2
    <3> QED
      BY <1>3, <1>4, <3>1 DEF ShownMounts
  <2>3. ASSUME NEW p, p \in ShownMounts(looks, mnts) PROVE p \in mountedPaths
    <3>1. PICK n : Leads(looks, p, n) /\ IsRoot(mnts, n)
      BY <2>3 DEF ShownMounts
    <3> DEFINE e == <<p, n>>
    <3>2. e \in R /\ e[1] = p /\ e[2] = n
      BY <1>5, <3>1
    <3> HIDE DEF e
    <3> QED
      BY <2>1, <3>1, <3>2
  <2> QED
    BY <2>2, <2>3
<1> QED
  BY <1>8, <1>9 DEF MapIs

-----------------------------------------------------------------------------
(* Lookup. *)

LEMMA NamesToIs ==
  ASSUME NEW path \in Paths
  PROVE  /\ \A i \in 0 .. Len(path) : Tree!NamesTo(path, i) \in Paths
         /\ Tree!NamesTo(path, 0) = <<>>
         /\ \A i \in 1 .. Len(path) :
              Tree!NamesTo(path, i) =
                IF path[i] = "" THEN Tree!NamesTo(path, i - 1)
                ELSE Append(Tree!NamesTo(path, i - 1), path[i])
<1> DEFINE N == Len(path)
           Body(f) == [j \in 0 .. N |-> IF j = 0 THEN <<>>
                                        ELSE IF path[j] = "" THEN f[j - 1] ELSE Append(f[j - 1], path[j])]
           Upto[j \in 0 .. Len(path)] ==
             IF j = 0 THEN <<>>
             ELSE IF path[j] = "" THEN Upto[j - 1] ELSE Append(Upto[j - 1], path[j])
           step == [x \in (1 .. N) \X Paths |->
                      IF path[x[1]] = "" THEN x[2] ELSE Append(x[2], path[x[1]])]
<1>1. N \in Nat /\ \A i \in 1 .. N : path[i] \in Texts
  BY DEF Paths
<1>2. <<>> \in Paths
  BY DEF Paths
<1>3. step \in [(1 .. N) \X Paths -> Paths]
  <2>1. ASSUME NEW i \in 1 .. N, NEW q \in Paths PROVE Append(q, path[i]) \in Paths
    BY <1>1, Appended
  <2> QED
    BY <2>1
<1>4. \A i \in 1 .. N : \A q \in Paths :
        step[<<i, q>>] = IF path[i] = "" THEN q ELSE Append(q, path[i])
  OBVIOUS
<1> HIDE DEF step
<1>5. PICK f \in [0 .. N -> Paths] : f[0] = <<>> /\ \A i \in 1 .. N : f[i] = step[<<i, f[i - 1]>>]
  <2> DEFINE x == <<>>
  <2>1. x \in Paths
    BY <1>2
  <2> HIDE DEF x
  <2>2. \E f \in [0 .. N -> Paths] : f[0] = x /\ \A i \in 1 .. N : f[i] = step[<<i, f[i - 1]>>]
    <3> HIDE DEF N
    <3> QED
      BY <1>1, <1>3, <2>1, RecursionExists, SMTT(60)
  <2> QED
    BY <2>2 DEF x
<1>6. ASSUME NEW j \in 1 .. N PROVE j - 1 \in 0 .. N /\ j \in 0 .. N /\ j # 0
  BY <1>1
<1>7. f = Body(f)
  <2>1. ASSUME NEW j \in 0 .. N
        PROVE  f[j] = IF j = 0 THEN <<>>
                      ELSE IF path[j] = "" THEN f[j - 1] ELSE Append(f[j - 1], path[j])
    <3>1. CASE j = 0
      BY <1>5, <3>1
    <3>2. CASE j # 0
      <4>1. j \in 1 .. N
        BY <1>1, <3>2
      <4>2. f[j - 1] \in Paths
        BY <1>5, <1>6, <4>1
      <4> QED
        BY <1>4, <1>5, <3>2, <4>1, <4>2
    <3> QED
      BY <3>1, <3>2
  <2>2. f = [j \in 0 .. N |-> f[j]]
    BY <1>5
  <2> QED
    BY <2>1, <2>2
<1>8. Upto = Body(Upto)
  <2>1. \E g : g = Body(g)
    BY <1>7
  <2> QED
    BY <2>1, Zenon DEF Upto
<1>9. \A i : Tree!NamesTo(path, i) = Upto[i]
  BY Zenon DEF Tree!NamesTo, Upto
<1> HIDE DEF Upto
<1>10. \A i \in 0 .. N : Upto[i] = IF i = 0 THEN <<>>
                                   ELSE IF path[i] = "" THEN Upto[i - 1] ELSE Append(Upto[i - 1], path[i])
  <2> DEFINE g == Upto
  <2>1. g = Body(g)
    BY <1>8
  <2> HIDE DEF g
  <2>2. \A i \in 0 .. N : g[i] = IF i = 0 THEN <<>>
                                 ELSE IF path[i] = "" THEN g[i - 1] ELSE Append(g[i - 1], path[i])
    BY <2>1
  <2> QED
    BY <2>2 DEF g
<1>11. 0 .. N \subseteq {i \in 0 .. N : Upto[i] \in Paths}
  <2> DEFINE T == {i \in 0 .. N : Upto[i] \in Paths}
  <2>1. 0 \in T
    <3>1. 0 \in 0 .. N
      BY <1>1
    <3>2. Upto[0] = <<>>
      BY <1>10, <3>1
    <3> QED
      BY <1>2, <3>1, <3>2
  <2>2. ASSUME NEW i \in 1 .. N, i - 1 \in T PROVE i \in T
    <3>1. Append(Upto[i - 1], path[i]) \in Paths
      BY <1>1, <2>2, Appended
    <3> QED
      BY <1>6, <1>10, <2>2, <3>1
  <2> HIDE DEF T
  <2>3. 0 .. N \subseteq T
    BY <1>1, <2>1, <2>2, NatInductionTo
  <2> QED
    BY <2>3 DEF T
<1>12. 0 \in 0 .. N
  BY <1>1
<1> QED
  BY <1>6, <1>9, <1>10, <1>11, <1>12

\* Where one piece leads.
LEMMA PieceIs ==
  ASSUME Sound(nodes, mnts), NEW n \in {Null, Hung} \cup 2 .. Len(nodes), NEW piece \in Texts
  PROVE  /\ AtPiece(n, piece) \in {Null, Hung} \cup 2 .. Len(nodes)
         /\ n \in {Null, Hung} \/ piece = "" => AtPiece(n, piece) = n
         /\ n \in 2 .. Len(nodes) /\ piece # "" /\ piece \in Endless => AtPiece(n, piece) = Hung
         /\ n \in 2 .. Len(nodes) /\ piece # "" /\ piece \notin Endless =>
              AtPiece(n, piece) = looks[<<n, piece>>] /\ AtPiece(n, piece) # Hung
<1>1. NodesSound(nodes) /\ MountsSound(nodes, mnts) /\ Len(nodes) \in Nat
  BY DEF Sound, NodesSound
<1>2. \A k \in 2 .. Len(nodes) : k \notin {Null, Hung}
  BY <1>1 DEF Null, Hung
<1>3. CASE n \in {Null, Hung} \/ piece = ""
  BY <1>2, <1>3 DEF AtPiece
<1>4. CASE n \in 2 .. Len(nodes) /\ piece # "" /\ piece \in Endless
  BY <1>2, <1>4 DEF AtPiece
<1>5. CASE n \in 2 .. Len(nodes) /\ piece # "" /\ piece \notin Endless
  <2>1. looks[<<n, piece>>] = LookAt(nodes, mnts, n, piece)
    BY <1>1, <1>5, LooksSound DEF looks
  <2>2. vfsLook(n, piece) = LookAt(nodes, mnts, n, piece)
    BY LookIs
  <2>3. AtPiece(n, piece) = vfsLook(n, piece)
    BY <1>2, <1>5 DEF AtPiece
  <2>4. LookAt(nodes, mnts, n, piece) = Null \/ LookAt(nodes, mnts, n, piece) \in n + 1 .. Len(nodes)
    BY <1>1, <1>5, LookIsLater
  <2>5. n + 1 .. Len(nodes) \subseteq 2 .. Len(nodes)
    <3>1. \A N \in Nat : \A k \in 2 .. N : k + 1 .. N \subseteq 2 .. N
      OBVIOUS
    <3> QED
      BY <1>1, <1>5, <3>1
  <2>6. Null # Hung
    BY DEF Null, Hung
  <2> QED
    BY <1>2, <1>5, <2>1, <2>2, <2>3, <2>4, <2>5, <2>6
<1> QED
  BY <1>3, <1>4, <1>5

LEMMA CurrentIs ==
  ASSUME Sound(nodes, mnts), NEW path \in Paths, path # <<>>
  PROVE  \E cur \in [0 .. Len(path) - 1 -> {Null, Hung} \cup 2 .. Len(nodes)] :
           /\ cur[0] = 2
           /\ \A i \in 1 .. Len(path) - 1 : cur[i] = AtSlash(AtPiece(cur[i - 1], path[i]))
           /\ vfsLookup(path) = AtPiece(cur[Len(path) - 1], path[Len(path)])
<1> DEFINE K == Len(path) - 1
           A == {Null, Hung} \cup 2 .. Len(nodes)
           Body(f) == [i \in 0 .. K |-> IF i = 0 THEN vfsCross(root)
                                        ELSE AtSlash(AtPiece(f[i - 1], path[i]))]
           Current[i \in 0 .. Len(path) - 1] ==
             IF i = 0 THEN vfsCross(root) ELSE AtSlash(AtPiece(Current[i - 1], path[i]))
           step == [x \in (1 .. K) \X A |-> AtSlash(AtPiece(x[2], path[x[1]]))]
<1>1. K \in Nat /\ \A i \in 1 .. K : path[i] \in Texts
  BY DEF Paths
<1>2. vfsCross(root) = 2 /\ 2 \in A
  BY LookIs DEF Sound, MountsSound, NodesSound
<1>3. step \in [(1 .. K) \X A -> A]
  <2>1. ASSUME NEW i \in 1 .. K, NEW n \in A PROVE AtSlash(AtPiece(n, path[i])) \in A
    <3>1. AtPiece(n, path[i]) \in A
      BY <1>1, PieceIs
    <3> QED
      BY <3>1 DEF AtSlash
  <2> QED
    BY <2>1
<1>4. \A i \in 1 .. K : \A n \in A : step[<<i, n>>] = AtSlash(AtPiece(n, path[i]))
  OBVIOUS
<1> HIDE DEF step, A
<1>5. PICK f \in [0 .. K -> A] : f[0] = 2 /\ \A i \in 1 .. K : f[i] = step[<<i, f[i - 1]>>]
  <2> HIDE DEF K
  <2> QED
    BY <1>1, <1>2, <1>3, RecursionExists, SMTT(60)
<1>6. ASSUME NEW j \in 1 .. K PROVE j - 1 \in 0 .. K /\ j \in 0 .. K /\ j # 0
  BY <1>1
<1>7. f = Body(f)
  <2>1. ASSUME NEW i \in 0 .. K
        PROVE  f[i] = IF i = 0 THEN vfsCross(root) ELSE AtSlash(AtPiece(f[i - 1], path[i]))
    <3>1. CASE i = 0
      BY <1>2, <1>5, <3>1
    <3>2. CASE i # 0
      <4>1. i \in 1 .. K
        BY <1>1, <3>2
      <4>2. f[i - 1] \in A
        BY <1>5, <1>6, <4>1
      <4> QED
        BY <1>4, <1>5, <3>2, <4>1, <4>2
    <3> QED
      BY <3>1, <3>2
  <2>2. f = [i \in 0 .. K |-> f[i]]
    BY <1>5
  <2> QED
    BY <2>1, <2>2
<1>8. Current = Body(Current)
  <2>1. \E g : g = Body(g)
    BY <1>7
  <2> QED
    BY <2>1, Zenon DEF Current
<1>9. vfsLookup(path) = AtPiece(Current[Len(path) - 1], path[Len(path)])
  BY Zenon DEF vfsLookup, Current
<1> DEFINE cur == Current
<1>10. cur = Body(cur)
  BY <1>8
<1>11. vfsLookup(path) = AtPiece(cur[K], path[Len(path)])
  BY <1>9
<1> HIDE DEF cur
<1>12. \A i \in 0 .. K : cur[i] = IF i = 0 THEN vfsCross(root) ELSE AtSlash(AtPiece(cur[i - 1], path[i]))
  BY <1>10
<1>13. cur = [i \in 0 .. K |-> cur[i]]
  BY <1>10
<1>14. 0 .. K \subseteq {i \in 0 .. K : cur[i] \in A}
  <2> DEFINE T == {i \in 0 .. K : cur[i] \in A}
  <2>1. 0 \in T
    <3>1. 0 \in 0 .. K
      BY <1>1
    <3>2. cur[0] = 2
      BY <1>2, <1>12, <3>1
    <3> QED
      BY <1>2, <3>1, <3>2
  <2>2. ASSUME NEW i \in 1 .. K, i - 1 \in T PROVE i \in T
    <3>1. cur[i] = step[<<i, cur[i - 1]>>]
      BY <1>4, <1>6, <1>12, <2>2
    <3> QED
      BY <1>3, <1>6, <2>2, <3>1
  <2> HIDE DEF T
  <2>3. 0 .. K \subseteq T
    <3> HIDE DEF K
    <3> QED
      BY <1>1, <2>1, <2>2, NatInductionTo
  <2> QED
    BY <2>3 DEF T
<1>15. cur \in [0 .. K -> A]
  BY <1>13, <1>14
<1>16. cur[0] = 2 /\ \A i \in 1 .. K : cur[i] = AtSlash(AtPiece(cur[i - 1], path[i]))
  <2>1. 0 \in 0 .. K
    BY <1>1
  <2> QED
    BY <1>2, <1>6, <1>12, <2>1
<1> QED
  BY <1>11, <1>15, <1>16 DEF A

DirAt(p) == \E n : Leads(looks, p, n) /\ nodes[n].type = "dir"

LEMMA TreeHas ==
  ASSUME Sound(nodes, mnts)
  PROVE  /\ \A p : p \in DOMAIN treeOfNodes <=> \E n : Leads(looks, p, n)
         /\ \A p, n : Leads(looks, p, n) =>
              treeOfNodes[p] = Entry(nodes, n)
         /\ \A p, n : Leads(looks, p, n) => n \in 2 .. Len(nodes) /\ p \in Paths
         /\ \A p : Tree!IsDir(p) <=> DirAt(p)
         /\ \A p : p \in mountedPaths <=> \E n : Leads(looks, p, n) /\ IsRoot(mnts, n)
<1>1. looks \in Graphs /\ Rising(looks) /\ Len(nodes) \in Nat /\ Len(nodes) >= 2
      /\ \A n \in Nat, a \in Texts : looks[<<n, a>>] \in 0 .. Len(nodes)
  BY LooksSound DEF looks, Sound, NodesSound
<1>2. treeOfNodes = Shown(looks, nodes) /\ mountedPaths = ShownMounts(looks, mnts)
  BY TreeIs DEF MapIs
<1>3. \A p, n : Leads(looks, p, n) => p \in Paths
  BY DEF Leads
<1>4. \A p : p \in DOMAIN treeOfNodes <=> \E n : Leads(looks, p, n)
  BY <1>1, <1>2, <1>3, ShownAt
<1>5. \A p, n : Leads(looks, p, n) =>
        treeOfNodes[p] = Entry(nodes, n)
  <2>1. \A p, n : Leads(looks, p, n) =>
          Shown(looks, nodes)[p] = Entry(nodes, n)
    BY <1>1, ShownAt
  <2> QED
    BY <1>2, <2>1
<1>6. ASSUME NEW p, NEW n, Leads(looks, p, n) PROVE n \in 2 .. Len(nodes)
  <2>1. n \in Nat /\ n >= Len(p) + 2 /\ Len(p) \in Nat
    BY <1>1, <1>3, <1>6, LeadsUp DEF Paths
  <2>2. \A k \in Nat, b \in Texts : looks[<<k, b>>] <= Len(nodes)
    <3>1. \A x \in 0 .. Len(nodes) : x <= Len(nodes)
      BY <1>1
    <3> QED
      BY <1>1, <3>1
  <2>3. n <= Len(nodes)
    BY <1>1, <1>3, <1>6, <2>2, LeadsWithin
  <2> QED
    BY <1>1, <2>1, <2>3
<1>7. \A p : Tree!IsDir(p) <=> DirAt(p)
  <2>1. ASSUME NEW p, NEW n, Leads(looks, p, n) PROVE treeOfNodes[p].type = nodes[n].type
    <3>1. treeOfNodes[p] = Entry(nodes, n)
      BY <1>5, <2>1
    <3> QED
      BY <3>1 DEF Entry
  <2> QED
    BY <1>4, <2>1 DEF Tree!IsDir, DirAt
<1>8. \A p : p \in mountedPaths <=> \E n : Leads(looks, p, n) /\ IsRoot(mnts, n)
  BY <1>2, <1>3 DEF ShownMounts
<1> QED
  BY <1>3, <1>4, <1>5, <1>6, <1>7, <1>8

\* A name leads on from directories only.
LEMMA NeedsDir ==
  ASSUME Sound(nodes, mnts), NEW p \in Paths, NEW a \in Texts, NEW n, Leads(looks, Append(p, a), n)
  PROVE  DirAt(p)
<1>1. looks \in Graphs /\ NodesSound(nodes) /\ MountsSound(nodes, mnts)
  BY LooksSound DEF looks, Sound
<1>2. PICK k \in Nat : Leads(looks, p, k) /\ n = looks[<<k, a>>] /\ n # Null
  BY <1>1, LeadsBack
<1>3. k \in 2 .. Len(nodes)
  BY <1>2, TreeHas
<1>4. looks[<<k, a>>] = LookAt(nodes, mnts, k, a)
  BY <1>1, <1>3, LooksSound DEF looks
<1>5. nodes[k].type # "file" /\ nodes[k].type \in {"dir", "file"}
  BY <1>1, <1>2, <1>3, <1>4 DEF LookAt, NodesSound
<1> QED
  BY <1>2, <1>5 DEF DirAt

\* The code's search finds the file or directory that the tree has, hangs
\* where the tree says so, and finds nothing otherwise.
LEMMA LookupIs ==
  ASSUME Sound(nodes, mnts), NEW path \in Paths, path # <<>>
  PROVE  LET n == vfsLookup(path)
         IN  \/ n = Hung /\ Tree!Hangs(path)
             \/ n = Null /\ ~ Tree!Hangs(path) /\ ~ Tree!Found(path)
             \/ /\ n \in 2 .. Len(nodes) /\ Leads(looks, Tree!Names(path), n)
                /\ Tree!Found(path) /\ ~ Tree!Hangs(path)
<1> DEFINE N == Len(path)
           at(i) == Tree!NamesTo(path, i)
           A == {Null, Hung} \cup 2 .. Len(nodes)
           hangs(i) == \E j \in 1 .. i : path[j] \in Endless /\ DirAt(at(j - 1))
           good(n, i) == /\ n \in 2 .. Len(nodes) /\ Leads(looks, at(i), n) /\ nodes[n].type = "dir"
                         /\ \A j \in 1 .. i : path[j] \notin Endless
           lost(n, i) == n = Null /\ ~ hangs(i) /\ ~ DirAt(at(i))
           hung(n, i) == n = Hung /\ hangs(i)
<1>1. /\ N \in Nat /\ N # 0 /\ N \in 1 .. N /\ DOMAIN path = 1 .. N
      /\ \A i \in 1 .. N : path[i] \in Texts
      /\ \A i \in 1 .. N : i - 1 \in 0 .. N /\ i - 1 \in Nat /\ i \in 0 .. N
  BY DEF Paths
<1>2. /\ \A i \in 0 .. N : at(i) \in Paths
      /\ at(0) = <<>>
      /\ \A i \in 1 .. N : at(i) = IF path[i] = "" THEN at(i - 1) ELSE Append(at(i - 1), path[i])
  BY NamesToIs
<1>3. /\ NodesSound(nodes) /\ MountsSound(nodes, mnts) /\ looks \in Graphs
      /\ \A n \in 2 .. Len(nodes) : n # Null /\ n # Hung
  BY LooksSound DEF Sound, looks, Null, Hung, NodesSound
<1>4. Null # Hung
  BY DEF Null, Hung
<1>5. /\ Tree!Names(path) = at(N)
      /\ Tree!Hangs(path) <=> hangs(N)
      /\ Tree!Found(path) <=> /\ \E n : Leads(looks, at(N), n)
                              /\ path[N] = "" => DirAt(at(N))
                              /\ \A j \in 1 .. N : path[j] \notin Endless
  <2>1. Tree!Names(path) = at(N)
    BY DEF Tree!Names
  <2>2. \A p : Tree!IsDir(p) <=> DirAt(p)
    BY TreeHas
  <2>3. Tree!Hangs(path) <=> hangs(N)
    <3> HIDE DEF at
    <3>1. Tree!Hangs(path) <=> \E i \in DOMAIN path : path[i] \in Endless /\ Tree!IsDir(at(i - 1))
      BY DEF Tree!Hangs, at
    <3> QED
      BY <1>1, <2>2, <3>1
  <2>4. Tree!Exists(path) <=> /\ \E n : Leads(looks, at(N), n)
                              /\ path[N] = "" => DirAt(at(N))
    <3>1. at(N) \in DOMAIN treeOfNodes <=> \E n : Leads(looks, at(N), n)
      BY TreeHas
    <3>2. Tree!Exists(path) <=> at(N) \in DOMAIN treeOfNodes /\ (path[N] = "" => Tree!IsDir(at(N)))
      BY <2>1 DEF Tree!Exists
    <3> QED
      BY <2>2, <3>1, <3>2
  <2>5. Tree!Found(path) <=> Tree!Exists(path) /\ \A j \in 1 .. N : path[j] \notin Endless
    BY <1>1 DEF Tree!Found
  <2> QED
    BY <2>1, <2>3, <2>4, <2>5
<1> HIDE DEF at, N, A
<1>6. PICK cur \in [0 .. N - 1 -> A] :
        /\ cur[0] = 2
        /\ \A i \in 1 .. N - 1 : cur[i] = AtSlash(AtPiece(cur[i - 1], path[i]))
        /\ vfsLookup(path) = AtPiece(cur[N - 1], path[N])
  BY CurrentIs DEF N, A
\* From the node before a piece to the node behind it.
<1>7. ASSUME NEW i \in 1 .. N, NEW n \in A, good(n, i - 1) \/ lost(n, i - 1) \/ hung(n, i - 1)
      PROVE  LET m == AtPiece(n, path[i])
             IN  \/ hung(m, i)
                 \/ lost(m, i) /\ (path[i] # "" => \A x : ~ Leads(looks, at(i), x))
                 \/ /\ m \in 2 .. Len(nodes) /\ Leads(looks, at(i), m) /\ ~ hangs(i)
                    /\ \A j \in 1 .. i : path[j] \notin Endless
                    /\ path[i] = "" => nodes[m].type = "dir"
  <2> DEFINE m == AtPiece(n, path[i])
             p == at(i - 1)
             a == path[i]
  <2>1. /\ a \in Texts /\ p \in Paths /\ at(i) = IF a = "" THEN p ELSE Append(p, a)
        /\ 1 .. i = 1 .. i - 1 \cup {i}
    <3>1. \A k \in 1 .. N : 1 .. k = 1 .. k - 1 \cup {k}
      BY <1>1
    <3>2. i - 1 \in 0 .. N
      BY <1>1
    <3> QED
      BY <1>1, <1>2, <3>1, <3>2
  <2>2. hangs(i) <=> hangs(i - 1) \/ (a \in Endless /\ DirAt(p))
    BY <2>1
  <2>3. /\ m \in A
        /\ n \in {Null, Hung} \/ a = "" => m = n
        /\ n \in 2 .. Len(nodes) /\ a # "" /\ a \in Endless => m = Hung
        /\ n \in 2 .. Len(nodes) /\ a # "" /\ a \notin Endless => m = looks[<<n, a>>] /\ m # Hung
    BY <2>1, PieceIs DEF A
  <2>4. "" \notin Endless
    BY NamesAssumption
  <2> HIDE DEF m, p, a, hangs
  <2>5. CASE hung(n, i - 1)
    BY <2>2, <2>3, <2>5 DEF m
  <2>6. CASE lost(n, i - 1)
    <3>1. m = Null /\ ~ hangs(i)
      BY <2>2, <2>3, <2>6 DEF p
    <3>2. CASE a = ""
      BY <2>1, <2>6, <3>1, <3>2 DEF m, a, p
    <3>3. CASE a # ""
      <4>1. ASSUME NEW x, Leads(looks, at(i), x) PROVE FALSE
        <5>1. Leads(looks, Append(p, a), x)
          BY <2>1, <3>3, <4>1
        <5>2. DirAt(p)
          BY <2>1, <5>1, NeedsDir
        <5> QED
          BY <2>6, <5>2 DEF p
      <4>2. ~ DirAt(at(i))
        BY <4>1 DEF DirAt
      <4> QED
        BY <3>1, <4>1, <4>2 DEF m
    <3> QED
      BY <3>2, <3>3
  <2>7. CASE good(n, i - 1)
    <3>1. /\ n \in 2 .. Len(nodes) /\ Leads(looks, p, n) /\ nodes[n].type = "dir"
          /\ \A j \in 1 .. i - 1 : path[j] \notin Endless
      BY <2>7 DEF p
    <3>2. ~ hangs(i - 1)
      BY <3>1 DEF hangs
    <3>3. CASE a = ""
      <4>1. m = n /\ at(i) = p /\ ~ hangs(i) /\ \A j \in 1 .. i : path[j] \notin Endless
        BY <2>1, <2>2, <2>3, <2>4, <3>1, <3>2, <3>3 DEF a
      <4>2. m \in 2 .. Len(nodes) /\ Leads(looks, at(i), m) /\ nodes[m].type = "dir"
        BY <3>1, <4>1
      <4> QED
        BY <4>1, <4>2 DEF m
    <3>4. CASE a # "" /\ a \in Endless
      <4>1. DirAt(p)
        BY <3>1 DEF DirAt
      <4> QED
        BY <2>2, <2>3, <3>1, <3>4, <4>1 DEF m
    <3>5. CASE a # "" /\ a \notin Endless
      <4>1. m = looks[<<n, a>>] /\ m # Hung /\ ~ hangs(i) /\ \A j \in 1 .. i : path[j] \notin Endless
        BY <2>1, <2>2, <2>3, <3>1, <3>2, <3>5 DEF a
      <4>2. at(i) = Append(p, a)
        BY <2>1, <3>5
      <4>3. CASE m # Null
        <5>1. Leads(looks, at(i), m)
          <6>1. looks[<<n, a>>] # Null
            BY <4>1, <4>3
          <6>2. Leads(looks, Append(p, a), looks[<<n, a>>])
            BY <1>3, <2>1, <3>1, <6>1, LeadsOn
          <6> QED
            BY <4>1, <4>2, <6>2
        <5>2. m \in 2 .. Len(nodes)
          BY <2>3, <4>1, <4>3 DEF A
        <5> QED
          BY <3>5, <4>1, <5>1, <5>2 DEF m, a
      <4>4. CASE m = Null
        <5>1. ASSUME NEW x, Leads(looks, at(i), x) PROVE FALSE
          <6>1. Leads(looks, Append(p, a), x)
            BY <4>2, <5>1
          <6>2. PICK k \in Nat : Leads(looks, p, k) /\ x = looks[<<k, a>>] /\ x # Null
            BY <1>3, <2>1, <6>1, LeadsBack
          <6>3. k = n
            BY <1>3, <2>1, <3>1, <6>2, LeadsUnique
          <6> QED
            BY <4>1, <4>4, <6>2, <6>3
        <5>2. ~ DirAt(at(i))
          BY <5>1 DEF DirAt
        <5> QED
          BY <4>1, <4>4, <5>1, <5>2 DEF m
      <4> QED
        BY <4>3, <4>4
    <3> QED
      BY <3>3, <3>4, <3>5
  <2> QED
    BY <1>7, <2>5, <2>6, <2>7
<1> DEFINE T == {i \in 0 .. N - 1 : good(cur[i], i) \/ lost(cur[i], i) \/ hung(cur[i], i)}
<1>8. N - 1 \in T
  <2>1. 0 \in T
    <3>1. 0 \in 0 .. N - 1 /\ 1 .. 0 = {}
      BY <1>1
    <3>2. Leads(looks, at(0), 2)
      BY <1>2, LeadsFirst
    <3>3. 2 \in 2 .. Len(nodes) /\ nodes[2].type = "dir"
      BY <1>3 DEF NodesSound
    <3>4. good(2, 0)
      BY <3>1, <3>2, <3>3
    <3> HIDE DEF good, lost, hung
    <3> QED
      BY <1>6, <3>1, <3>4
  <2>2. ASSUME NEW i \in 1 .. N - 1, i - 1 \in T
        PROVE  i \in T
    <3> DEFINE n == cur[i - 1]
               m == AtPiece(n, path[i])
    <3>1. i \in 1 .. N /\ i \in 0 .. N - 1 /\ i - 1 \in 0 .. N - 1
      BY <1>1
    <3>2. n \in A /\ cur[i] = AtSlash(m)
      BY <1>6, <3>1
    <3>3. good(n, i - 1) \/ lost(n, i - 1) \/ hung(n, i - 1)
      BY <2>2
    <3> HIDE DEF n, good, lost, hung, hangs
    <3>4. \/ hung(m, i)
          \/ lost(m, i)
          \/ /\ m \in 2 .. Len(nodes) /\ Leads(looks, at(i), m) /\ ~ hangs(i)
             /\ \A j \in 1 .. i : path[j] \notin Endless
      BY <1>7, <3>1, <3>2, <3>3
    <3> HIDE DEF m
    <3>5. CASE hung(m, i)
      <4>1. AtSlash(m) = m
        BY <3>5 DEF AtSlash, hung
      <4> QED
        BY <3>1, <3>2, <3>5, <4>1
    <3>6. CASE lost(m, i)
      <4>1. AtSlash(m) = m
        BY <3>6 DEF AtSlash, lost
      <4> QED
        BY <3>1, <3>2, <3>6, <4>1
    <3>7. CASE /\ m \in 2 .. Len(nodes) /\ Leads(looks, at(i), m) /\ ~ hangs(i)
               /\ \A j \in 1 .. i : path[j] \notin Endless
      <4>1. nodes[m].type \in {"dir", "file"} /\ m # Null /\ m # Hung
        BY <1>3, <3>7 DEF NodesSound
      <4>2. CASE nodes[m].type = "dir"
        <5>1. AtSlash(m) = m
          BY <4>2 DEF AtSlash
        <5>2. good(m, i)
          BY <3>7, <4>2 DEF good
        <5> QED
          BY <3>1, <3>2, <5>1, <5>2
      <4>3. CASE nodes[m].type = "file"
        <5>1. AtSlash(m) = Null
          BY <4>1, <4>3 DEF AtSlash
        <5>2. ~ DirAt(at(i))
          <6>1. \A x : Leads(looks, at(i), x) => x = m
            <7>1. at(i) \in Paths
              BY <1>1, <1>2, <3>1
            <7> QED
              BY <1>3, <3>7, <7>1, LeadsUnique
          <6> QED
            BY <4>3, <6>1 DEF DirAt
        <5>3. lost(Null, i)
          BY <3>7, <5>2 DEF lost
        <5> QED
          BY <3>1, <3>2, <5>1, <5>3
      <4> QED
        BY <4>1, <4>2, <4>3
    <3> QED
      BY <3>4, <3>5, <3>6, <3>7
  <2> HIDE DEF T
  <2>3. N - 1 \in Nat /\ N - 1 \in 0 .. N - 1
    BY <1>1
  <2>4. 0 .. N - 1 \subseteq T
    BY <2>1, <2>2, <2>3, NatInductionTo
  <2> QED
    BY <2>3, <2>4
<1> DEFINE m == AtPiece(cur[N - 1], path[N])
<1>9. \/ hung(m, N)
      \/ lost(m, N) /\ (path[N] # "" => \A x : ~ Leads(looks, at(N), x))
      \/ /\ m \in 2 .. Len(nodes) /\ Leads(looks, at(N), m) /\ ~ hangs(N)
         /\ \A j \in 1 .. N : path[j] \notin Endless
         /\ path[N] = "" => nodes[m].type = "dir"
  <2>1. cur[N - 1] \in A
    BY <1>1, <1>6
  <2> HIDE DEF good, lost, hung, hangs
  <2> QED
    BY <1>1, <1>7, <1>8, <2>1
<1>10. vfsLookup(path) = m
  BY <1>6
<1> HIDE DEF m, hangs, T
<1>11. CASE hung(m, N)
  BY <1>5, <1>10, <1>11
<1>12. CASE lost(m, N) /\ (path[N] # "" => \A x : ~ Leads(looks, at(N), x))
  BY <1>5, <1>10, <1>12
<1>13. CASE /\ m \in 2 .. Len(nodes) /\ Leads(looks, at(N), m) /\ ~ hangs(N)
            /\ \A j \in 1 .. N : path[j] \notin Endless
            /\ path[N] = "" => nodes[m].type = "dir"
  <2>1. path[N] = "" => DirAt(at(N))
    BY <1>13 DEF DirAt
  <2> QED
    BY <1>5, <1>10, <1>13, <2>1
<1> QED
  BY <1>9, <1>11, <1>12, <1>13

-----------------------------------------------------------------------------
(* What a call does to the tree. *)

\* Every path but the root's has a last edge.
LEMMA EdgeTo ==
  ASSUME NEW L \in Graphs, NEW p \in Paths, NEW n, Leads(L, p, n), n # 2
  PROVE  \E q \in Paths, a \in Texts : \E m \in Nat :
           p = Append(q, a) /\ Leads(L, q, m) /\ L[<<m, a>>] = n
<1>1. p # <<>>
  BY LeadsFirst
<1>2. PICK q \in Paths, a \in Texts : p = Append(q, a)
  BY <1>1, LastOff
<1>3. PICK m \in Nat : Leads(L, q, m) /\ n = L[<<m, a>>]
  BY <1>2, LeadsBack
<1> QED
  BY <1>2, <1>3

LEMMA SameLeads ==
  ASSUME NEW L \in Graphs, NEW M \in Graphs, NEW N \in Nat, N >= 2,
         \A k \in Nat, b \in Texts : L[<<k, b>>] <= N,
         \A k \in 0 .. N, b \in Texts : M[<<k, b>>] = L[<<k, b>>]
  PROVE  \A r \in Paths : \A n : Leads(M, r, n) <=> Leads(L, r, n)
<1> DEFINE S == {r \in Paths : \A n : Leads(M, r, n) <=> Leads(L, r, n)}
<1>1. <<>> \in S
  BY LeadsFirst DEF Paths
<1>2. ASSUME NEW r \in Paths, NEW b \in Texts, r \in S
      PROVE  Append(r, b) \in S
  <2>1. Append(r, b) \in Paths
    BY Appended
  <2>2. ASSUME NEW n
        PROVE  Leads(M, Append(r, b), n) <=> Leads(L, Append(r, b), n)
    <3>1. Leads(M, Append(r, b), n) <=> \E k \in Nat : Leads(M, r, k) /\ n = M[<<k, b>>] /\ n # Null
      BY LeadsIff
    <3>2. Leads(L, Append(r, b), n) <=> \E k \in Nat : Leads(L, r, k) /\ n = L[<<k, b>>] /\ n # Null
      BY LeadsIff
    <3>3. \A k \in Nat : Leads(L, r, k) => M[<<k, b>>] = L[<<k, b>>]
      <4>1. ASSUME NEW k \in Nat, Leads(L, r, k) PROVE k \in 0 .. N
        BY <4>1, LeadsWithin
      <4> QED
        BY <4>1
    <3>4. \A k : Leads(M, r, k) <=> Leads(L, r, k)
      BY <1>2
    <3> HIDE DEF S
    <3> QED
      BY <3>1, <3>2, <3>3, <3>4
  <2> QED
    BY <2>1, <2>2
<1>3. Paths \subseteq S
  <2> HIDE DEF S
  <2> QED
    BY <1>1, <1>2, PathInduction
<1> QED
  BY <1>3

Replaced(L, M, q, E) ==
  \A r \in Paths : \A n :
    Leads(M, r, n) <=> IF Below(q, r) THEN <<r, n>> \in E ELSE Leads(L, r, n)

\* The tree U with its mounts is the tree T with `entry' at the paths of E, in
\* place of everything from q down.
Regrafted(T, mountedT, U, mountedU, nt, q, E, entry) ==
  LET new == {r \in Paths : \E n : <<r, n>> \in E}
  IN  /\ U = [r \in new \cup {r \in DOMAIN T : ~ Below(q, r)} |->
                IF r \in new THEN entry ELSE T[r]]
      /\ mountedU = {r \in mountedT : ~ Below(q, r)}
                       \cup {r \in Paths : \E n : <<r, n>> \in E /\ IsRoot(nt, n)}

LEMMA Regraft ==
  ASSUME NEW L \in Graphs, NEW M \in Graphs, NEW ns, NEW ms, NEW mt, NEW nt, NEW q, NEW E, NEW entry,
         Replaced(L, M, q, E),
         \A r, n : Leads(L, r, n) => Entry(ms, n) = Entry(ns, n) /\ (IsRoot(nt, n) <=> IsRoot(mt, n)),
         \A r, n : <<r, n>> \in E => r \in Paths /\ Below(q, r) /\ Entry(ms, n) = entry
  PROVE  Regrafted(Shown(L, ns), ShownMounts(L, mt), Shown(M, ms), ShownMounts(M, nt), nt, q, E, entry)
<1> DEFINE T == Shown(L, ns)
           U == Shown(M, ms)
           new == {r \in Paths : \E n : <<r, n>> \in E}
           D == new \cup {r \in DOMAIN T : ~ Below(q, r)}
<1>1. /\ DOMAIN T = {r \in Paths : \E n : Leads(L, r, n)}
      /\ \A p, n : Leads(L, p, n) => T[p] = Entry(ns, n)
  <2>1. ASSUME NEW p, NEW n, Leads(L, p, n) PROVE T[p] = Entry(ns, n)
    BY <2>1, ShownEntry
  <2>2. DOMAIN T = {r \in Paths : \E n : Leads(L, r, n)}
    BY ShownDomain
  <2> QED
    BY <2>1, <2>2
<1>2. /\ DOMAIN U = {r \in Paths : \E n : Leads(M, r, n)}
      /\ \A p, n : Leads(M, p, n) => U[p] = Entry(ms, n)
  <2>1. ASSUME NEW p, NEW n, Leads(M, p, n) PROVE U[p] = Entry(ms, n)
    BY <2>1, ShownEntry
  <2>2. DOMAIN U = {r \in Paths : \E n : Leads(M, r, n)}
    BY ShownDomain
  <2> QED
    BY <2>1, <2>2
<1>3. U = [r \in DOMAIN U |-> U[r]]
  BY DEF Shown
<1> HIDE DEF T, U
<1>4. \A r \in Paths : \A n :
        Leads(M, r, n) <=> IF Below(q, r) THEN <<r, n>> \in E ELSE Leads(L, r, n)
  BY DEF Replaced
<1>5. DOMAIN U = D
  BY <1>1, <1>2, <1>4
<1>6. ASSUME NEW r \in D PROVE U[r] = IF r \in new THEN entry ELSE T[r]
  <2>1. CASE r \in new
    <3>1. PICK n : <<r, n>> \in E
      BY <2>1
    <3>2. Leads(M, r, n) /\ Entry(ms, n) = entry
      BY <1>4, <2>1, <3>1
    <3> QED
      BY <1>2, <2>1, <3>2
  <2>2. CASE r \notin new
    <3>1. r \in Paths /\ ~ Below(q, r)
      BY <1>1, <1>6, <2>2
    <3>2. PICK n : Leads(L, r, n)
      BY <1>1, <1>6, <2>2
    <3>3. Leads(M, r, n) /\ Entry(ms, n) = Entry(ns, n)
      BY <1>4, <3>1, <3>2
    <3> QED
      BY <1>1, <1>2, <2>2, <3>2, <3>3
  <2> QED
    BY <2>1, <2>2
<1>7. U = [r \in D |-> IF r \in new THEN entry ELSE T[r]]
  <2> HIDE DEF D, new
  <2> QED
    BY <1>3, <1>5, <1>6
<1>8. ShownMounts(M, nt) = {r \in ShownMounts(L, mt) : ~ Below(q, r)}
                             \cup {r \in Paths : \E n : <<r, n>> \in E /\ IsRoot(nt, n)}
  BY <1>4 DEF ShownMounts
<1> QED
  BY <1>7, <1>8 DEF T, U, Regrafted

LEMMA SameShown ==
  ASSUME NEW L \in Graphs, NEW M \in Graphs, NEW ns, NEW ms, NEW mt, NEW nt,
         \A r \in Paths : \A n : Leads(M, r, n) <=> Leads(L, r, n),
         \A r, n : Leads(L, r, n) => Entry(ms, n) = Entry(ns, n) /\ (IsRoot(nt, n) <=> IsRoot(mt, n))
  PROVE  Shown(M, ms) = Shown(L, ns) /\ ShownMounts(M, nt) = ShownMounts(L, mt)
<1> DEFINE T == Shown(L, ns)
           U == Shown(M, ms)
<1>1. /\ DOMAIN T = {r \in Paths : \E n : Leads(L, r, n)}
      /\ \A p, n : Leads(L, p, n) => T[p] = Entry(ns, n)
  <2>1. ASSUME NEW p, NEW n, Leads(L, p, n) PROVE T[p] = Entry(ns, n)
    BY <2>1, ShownEntry
  <2>2. DOMAIN T = {r \in Paths : \E n : Leads(L, r, n)}
    BY ShownDomain
  <2> QED
    BY <2>1, <2>2
<1>2. /\ DOMAIN U = {r \in Paths : \E n : Leads(M, r, n)}
      /\ \A p, n : Leads(M, p, n) => U[p] = Entry(ms, n)
  <2>1. ASSUME NEW p, NEW n, Leads(M, p, n) PROVE U[p] = Entry(ms, n)
    BY <2>1, ShownEntry
  <2>2. DOMAIN U = {r \in Paths : \E n : Leads(M, r, n)}
    BY ShownDomain
  <2> QED
    BY <2>1, <2>2
<1>3. U = [r \in DOMAIN U |-> U[r]] /\ T = [r \in DOMAIN T |-> T[r]]
  BY DEF Shown
<1> HIDE DEF T, U
<1>4. DOMAIN U = DOMAIN T
  BY <1>1, <1>2
<1>5. ASSUME NEW r \in DOMAIN T PROVE U[r] = T[r]
  <2>1. PICK n : Leads(L, r, n) /\ r \in Paths
    BY <1>1
  <2>2. Leads(M, r, n) /\ Entry(ms, n) = Entry(ns, n)
    BY <2>1
  <2> QED
    BY <1>1, <1>2, <2>1, <2>2
<1>6. U = T
  BY <1>3, <1>4, <1>5
<1>7. ShownMounts(M, nt) = ShownMounts(L, mt)
  BY DEF ShownMounts
<1> QED
  BY <1>6, <1>7 DEF T, U

LEMMA UnderIs ==
  ASSUME NEW p \in Paths, DOMAIN treeOfNodes \subseteq Paths
  PROVE  Tree!Under(p) = {q \in DOMAIN treeOfNodes : Below(p, q)}
<1>1. ASSUME NEW q \in Paths PROVE Tree!IsPrefix(p, q) <=> Below(p, q)
  <2>1. CASE ~ (Len(p) <= Len(q))
    BY <2>1 DEF Tree!IsPrefix, Below
  <2>2. CASE Len(p) <= Len(q)
    <3> DEFINE s == SubSeq(p, 1, Len(p))
               t == SubSeq(q, 1, Len(p))
    <3>1. /\ s \in Paths /\ Len(s) = Len(p) /\ \A i \in 1 .. Len(p) : s[i] = p[i]
      BY DEF Paths
    <3>2. /\ t \in Paths /\ Len(t) = Len(p) /\ \A i \in 1 .. Len(p) : t[i] = q[i]
      BY <2>2 DEF Paths
    <3>3. Tree!IsPrefix(p, q) <=> s = t
      BY <2>2 DEF Tree!IsPrefix
    <3> HIDE DEF s, t
    <3>4. s = t <=> \A i \in 1 .. Len(p) : p[i] = q[i]
      <4>1. ASSUME \A i \in 1 .. Len(p) : p[i] = q[i] PROVE s = t
        <5>1. \A i \in 1 .. Len(s) : s[i] = t[i]
          BY <3>1, <3>2, <4>1
        <5> QED
          BY <3>1, <3>2, <5>1, SamePath
      <4> QED
        BY <3>1, <3>2, <4>1
    <3> QED
      BY <2>2, <3>3, <3>4 DEF Below
  <2> QED
    BY <2>1, <2>2
<1> QED
  BY <1>1 DEF Tree!Under

-----------------------------------------------------------------------------
(* The invariant. *)

Inv ==
  /\ Sound(nodes, mnts)
  /\ call = NoCall \/ call \in Calls
  /\ call # NoCall => status = "ok"

LEMMA CallIs ==
  ASSUME NEW c \in Calls
  PROVE  c[2] \in Paths /\ c[2] # <<>>
<1>1. STRING \subseteq Texts
  BY DEF Texts
<1>2. \A S, T : S \subseteq T => Seq(S) \subseteq Seq(T)
  OBVIOUS
<1>3. Seq(STRING) \subseteq Paths
  BY <1>1, <1>2 DEF Paths
<1> QED
  BY <1>3, CallsAssumption

FirstNodes == tmpfsMount(<<Node("unset", "")>>)
FirstMounts == << [mountpoint |-> 3, root |-> Null], [mountpoint |-> root, root |-> 2] >>

\* At first no name leads anywhere: the only entry is covered by a mount of an
\* unknown type.
LEMMA FirstSound ==
  /\ Sound(FirstNodes, FirstMounts)
  /\ \A p, n : Leads(LooksOf(FirstNodes, FirstMounts), p, n) <=> p = <<>> /\ n = 2
  /\ FirstNodes[2].type = "dir" /\ FirstNodes[2].data = <<>>
  /\ FirstNodes[3].type = "dir" /\ Len(FirstNodes) = 3
  /\ IsRoot(FirstMounts, 2)
<1> DEFINE x == Node("unset", "")
           ns == FirstNodes
           mt == FirstMounts
           L == LooksOf(ns, mt)
<1>1. x \in Records /\ x.type = "unset" /\ x.children = <<>>
  <2>1. "" \in Texts /\ <<>> \in Seq(Nat)
    BY DEF Texts
  <2> QED
    BY <2>1 DEF Node, Records
<1> HIDE DEF x
<1>2. <<x>> \in Seq(Records) /\ Len(<<x>>) = 1 /\ <<x>>[1] = x
  BY <1>1
<1>3. /\ ns \in Seq(Records) /\ Len(ns) = 3
      /\ ns[1] = x
      /\ ns[2].type = "dir" /\ ns[2].children = <<3>> /\ ns[2].data = <<>>
      /\ ns[3].type = "dir" /\ ns[3].children = <<>> /\ ns[3].data = <<>>
  <2> DEFINE l == <<x>>
  <2>1. l \in Seq(Records) /\ Len(l) = 1 /\ l[1] = x /\ ns = tmpfsMount(l)
    BY <1>2 DEF FirstNodes, x
  <2> HIDE DEF l, ns
  <2>2. /\ tmpfsMount(l) \in Seq(Records) /\ Len(tmpfsMount(l)) = Len(l) + 2
        /\ \A k \in 1 .. Len(l) : tmpfsMount(l)[k] = l[k]
        /\ tmpfsMount(l)[Len(l) + 1].type = "dir" /\ tmpfsMount(l)[Len(l) + 1].children = <<Len(l) + 2>>
        /\ tmpfsMount(l)[Len(l) + 1].data = <<>>
        /\ tmpfsMount(l)[Len(l) + 2] = Node("dir", "dev")
    BY <2>1, RootShape
  <2>3. Node("dir", "dev").type = "dir" /\ Node("dir", "dev").children = <<>>
        /\ Node("dir", "dev").data = <<>>
    <3>1. "dev" \in Texts
      BY DEF Texts
    <3> QED
      BY <3>1, NewNode
  <2>4. 1 \in 1 .. Len(l) /\ Len(l) + 1 = 2 /\ Len(l) + 2 = 3
    BY <2>1
  <2> QED
    BY <2>1, <2>2, <2>3, <2>4
<1>4. /\ mt \in Seq(Mounts) /\ DOMAIN mt = {1, 2} /\ Len(mt) = 2
      /\ mt[1].mountpoint = 3 /\ mt[1].root = Null
      /\ mt[2].mountpoint = 1 /\ mt[2].root = 2
  <2> DEFINE y == [mountpoint |-> 3, root |-> Null]
             z == [mountpoint |-> root, root |-> 2]
  <2>1. /\ y \in Mounts /\ z \in Mounts
        /\ y.mountpoint = 3 /\ y.root = Null /\ z.mountpoint = 1 /\ z.root = 2
    BY DEF Mounts, Null, root
  <2>2. mt = <<y, z>>
    BY DEF FirstMounts
  <2> HIDE DEF y, z, mt
  <2>3. <<y, z>> \in Seq(Mounts) /\ Len(<<y, z>>) = 2 /\ <<y, z>>[1] = y /\ <<y, z>>[2] = z
    BY <2>1, Pair
  <2>4. DOMAIN <<y, z>> = {1, 2}
    BY <2>3
  <2> QED
    BY <2>1, <2>2, <2>3, <2>4
<1> HIDE DEF ns, mt, L
<1>5. /\ 1 .. Len(ns) = {1, 2, 3} /\ 2 .. Len(ns) = {2, 3}
      /\ \A j \in DOMAIN <<>> : FALSE
      /\ \A j \in DOMAIN <<3>> : <<3>>[j] = 3
  BY <1>3
<1>6. /\ \A k \in 1 .. Len(ns) : \A i \in DOMAIN ns[k].children : k = 2 /\ ns[k].children[i] = 3
  BY <1>1, <1>3, <1>5
<1>7. NodesSound(ns)
  <2>1. \A k \in 2 .. Len(ns) : ns[k].type = "dir"
    BY <1>3, <1>5
  <2>2. \A k \in 1 .. Len(ns) : \A i \in DOMAIN ns[k].children : ns[k].children[i] \in k + 1 .. Len(ns)
    BY <1>3, <1>6
  <2> QED
    BY <1>3, <2>1, <2>2 DEF NodesSound
<1>8. RootAt(mt, 1) = 2 /\ RootAt(mt, 3) = Null /\ RootAt(mt, Null) = Null
  <2>1. RootAt(mt, 1) = 2
    <3>1. 2 \in DOMAIN mt /\ mt[2].mountpoint = 1
      BY <1>4
    <3>2. PICK i \in DOMAIN mt : FirstMount(mt, 1, i)
      BY <1>4, <3>1, RootAtFound
    <3> QED
      BY <1>4, <3>2 DEF FirstMount
  <2>2. RootAt(mt, 3) = Null
    <3>1. 1 \in DOMAIN mt /\ mt[1].mountpoint = 3
      BY <1>4
    <3>2. PICK i \in DOMAIN mt : FirstMount(mt, 3, i)
      BY <1>4, <3>1, RootAtFound
    <3> QED
      BY <1>4, <3>2 DEF FirstMount
  <2>3. RootAt(mt, Null) = Null
    <3>1. \A i \in DOMAIN mt : mt[i].mountpoint # Null
      BY <1>4 DEF Null
    <3> QED
      BY <1>4, <3>1, RootAtNone
  <2> QED
    BY <2>1, <2>2, <2>3
<1>9. MountsSound(ns, mt)
  <2>1. \A i \in DOMAIN mt : mt[i].mountpoint \in 1 .. Len(ns)
    BY <1>3, <1>4
  <2>2. \A i \in DOMAIN mt : mt[i].root = Null \/ mt[i].root \in mt[i].mountpoint + 1 .. Len(ns)
    BY <1>3, <1>4
  <2>3. \A i \in DOMAIN mt : \A n \in 1 .. Len(ns) : \A j \in DOMAIN ns[n].children :
          mt[i].root # ns[n].children[j]
    BY <1>4, <1>6 DEF Null
  <2> QED
    BY <1>4, <1>8, <2>1, <2>2, <2>3 DEF MountsSound, root
<1>10. ASSUME NEW k \in Nat, NEW a \in Texts
       PROVE  L[<<k, a>>] = Null
  <2>1. CASE k \notin 2 .. Len(ns)
    BY <1>7, <1>9, <2>1, LooksSound DEF L
  <2>2. CASE k \in 2 .. Len(ns)
    <3>1. L[<<k, a>>] = LookAt(ns, mt, k, a)
      BY <1>7, <1>9, <2>2, LooksSound DEF L
    <3> DEFINE list == ns[k].children
               c == ChildNamed(ns, list, a)
    <3>2. k \in 1 .. Len(ns)
      BY <1>5, <2>2
    <3>3. list \in Seq(Nat)
      <4>1. ns \in Seq(Records) /\ k \in 1 .. Len(ns)
        BY <1>3, <3>2
      <4>2. ns[k] \in Records
        BY <4>1
      <4> QED
        BY <4>2 DEF Records
    <3>4. \A i \in DOMAIN list : list[i] = 3
      BY <1>6, <3>2
    <3> HIDE DEF list
    <3>5. c = Null \/ c = 3
      BY <3>3, <3>4, ChildNamedIn
    <3> HIDE DEF c
    <3>6. RootAt(mt, c) = Null
      BY <1>8, <3>5
    <3> QED
      BY <3>1, <3>6 DEF LookAt, list, c
  <2> QED
    BY <2>1, <2>2
<1>11. Separate(L)
  BY <1>10 DEF Separate
<1>12. L \in Graphs
  BY <1>7, <1>9, LooksSound DEF L
<1>13. \A p, n : Leads(L, p, n) <=> p = <<>> /\ n = 2
  <2>1. ASSUME NEW p, NEW n, Leads(L, p, n) PROVE p = <<>> /\ n = 2
    <3>1. p \in Paths
      BY <2>1 DEF Leads
    <3>2. n = 2
      <4>1. SUFFICES ASSUME n # 2 PROVE FALSE
        OBVIOUS
      <4>2. PICK q \in Paths, a \in Texts : \E m \in Nat :
              p = Append(q, a) /\ Leads(L, q, m) /\ L[<<m, a>>] = n
        BY <1>12, <2>1, <3>1, <4>1, EdgeTo
      <4>3. n # Null
        BY <1>12, <2>1, <4>2, LeadsBack, ZenonT(60)
      <4> QED
        BY <1>10, <4>2, <4>3
    <3>3. p = <<>>
      <4>1. SUFFICES ASSUME p # <<>> PROVE FALSE
        OBVIOUS
      <4>2. PICK q \in Paths, a \in Texts : p = Append(q, a)
        BY <3>1, <4>1, LastOff
      <4>3. Leads(L, Append(q, a), n)
        BY <2>1, <4>2
      <4>4. PICK m \in Nat : Leads(L, q, m) /\ L[<<m, a>>] = n
        BY <1>12, <4>3, LeadsBack
      <4>5. n # Null
        BY <1>12, <4>2, <4>3, <4>4, LeadsBack
      <4> QED
        BY <1>10, <4>4, <4>5
    <3> QED
      BY <3>2, <3>3
  <2>2. Leads(L, <<>>, 2)
    BY LeadsFirst
  <2> QED
    BY <2>1, <2>2
<1>14. IsRoot(mt, 2)
  BY <1>4 DEF IsRoot
<1> QED
  BY <1>3, <1>7, <1>9, <1>11, <1>13, <1>14 DEF Sound, ns, mt, L

LEMMA InvInit == Init => Inv
<1> SUFFICES ASSUME Init PROVE Inv
  OBVIOUS
<1>1. nodes = FirstNodes /\ mnts = FirstMounts /\ call = NoCall
  BY DEF Init, FirstNodes, FirstMounts, FsMnt
<1> QED
  BY <1>1, FirstSound DEF Inv

-----------------------------------------------------------------------------
(* What the calls do. *)

Taken(function) ==
  /\ call # NoCall /\ call \in Calls /\ call[1] = function /\ status = "ok"
  /\ call' = NoCall

FoundAt(n) ==
  /\ n \in 2 .. Len(nodes) /\ Leads(looks, Tree!Names(call[2]), n)
  /\ Tree!Found(call[2]) /\ ~ Tree!Hangs(call[2])

Fails ==
  \/ Tree!Hangs(call[2]) /\ status' = "hung" /\ UNCHANGED <<nodes, mnts>>
  \/ ~ Tree!Hangs(call[2]) /\ ~ Tree!Found(call[2]) /\ UNCHANGED <<nodes, mnts, status>>

LEMMA Met ==
  ASSUME Inv, call # NoCall
  PROVE  LET n == vfsLookup(call[2])
         IN  \/ n = Hung /\ Tree!Hangs(call[2])
             \/ n = Null /\ ~ Tree!Hangs(call[2]) /\ ~ Tree!Found(call[2])
             \/ n \notin {Null, Hung} /\ FoundAt(n)
<1>1. call \in Calls /\ Sound(nodes, mnts)
  BY DEF Inv
<1>2. call[2] \in Paths /\ call[2] # <<>>
  BY <1>1, CallIs
<1>3. \A n \in 2 .. Len(nodes) : n \notin {Null, Hung}
  BY DEF Null, Hung
<1> QED
  BY <1>1, <1>2, <1>3, LookupIs DEF FoundAt

LEMMA CreateIs ==
  ASSUME Inv, vfsCreate
  PROVE  /\ Taken("create")
         /\ \/ Fails
            \/ \E n \in 2 .. Len(nodes) : \E kept \in KeptAs[call[3]] :
                 /\ FoundAt(n)
                 /\ nodes' = WithFile(nodes, n, kept)
                 /\ UNCHANGED <<mnts, status>>
<1> DEFINE n == vfsLookup(call[2])
<1>1. /\ call # NoCall /\ call[1] = "create" /\ call' = NoCall
      /\ \/ n = Hung /\ status' = "hung" /\ UNCHANGED <<nodes, mnts>>
         \/ n = Null /\ UNCHANGED <<nodes, mnts, status>>
         \/ /\ n \notin {Null, Hung}
            /\ \E kept \in KeptAs[call[3]] : nodes' = WithFile(nodes, n, kept)
            /\ UNCHANGED <<mnts, status>>
  BY DEF vfsCreate, Serve, tmpfsCreate, WithFile, strncpy
<1>2. /\ \/ n = Hung /\ Tree!Hangs(call[2])
         \/ n = Null /\ ~ Tree!Hangs(call[2]) /\ ~ Tree!Found(call[2])
         \/ n \notin {Null, Hung} /\ FoundAt(n)
  BY <1>1, Met
<1>3. Null # Hung
  BY DEF Null, Hung
<1>4. Taken("create")
  BY <1>1 DEF Taken, Inv
<1> HIDE DEF n
<1>5. FoundAt(n) => n \in 2 .. Len(nodes)
  BY DEF FoundAt
<1> QED
  BY <1>1, <1>2, <1>3, <1>4, <1>5 DEF Fails

LEMMA MountIs ==
  ASSUME Inv, vfsMount
  PROVE  /\ Taken("mount")
         /\ \/ Fails
            \/ \E n \in 2 .. Len(nodes) :
                 /\ FoundAt(n)
                 /\ nodes' = NodesAfter(nodes, call[3])
                 /\ mnts' = WithMount(mnts, n, RootAfter(nodes, call[3]))
                 /\ UNCHANGED status
<1> DEFINE n == vfsLookup(call[2])
<1>1. /\ call # NoCall /\ call[1] = "mount" /\ call' = NoCall
      /\ \/ n = Hung /\ status' = "hung" /\ UNCHANGED <<nodes, mnts>>
         \/ n = Null /\ UNCHANGED <<nodes, mnts, status>>
         \/ /\ n \notin {Null, Hung}
            /\ UNCHANGED status
            /\ \/ /\ strcmp(call[3], "tmp") = 0 /\ nodes' = tmpfsMount(nodes)
                  /\ mnts' = WithMount(mnts, n, Len(nodes) + 1)
               \/ /\ strcmp(call[3], "tmp") # 0 /\ mnts' = WithMount(mnts, n, Null)
                  /\ UNCHANGED nodes
  BY DEF vfsMount, Serve, Mounted, WithMount, FsMnt
<1>2. /\ \/ n = Hung /\ Tree!Hangs(call[2])
         \/ n = Null /\ ~ Tree!Hangs(call[2]) /\ ~ Tree!Found(call[2])
         \/ n \notin {Null, Hung} /\ FoundAt(n)
  BY <1>1, Met
<1>3. Null # Hung /\ (strcmp(call[3], "tmp") = 0 <=> call[3] = "tmp")
  BY DEF Null, Hung, strcmp
<1>4. Taken("mount")
  BY <1>1 DEF Taken, Inv
<1> HIDE DEF n
<1>5. FoundAt(n) => n \in 2 .. Len(nodes)
  BY DEF FoundAt
<1> QED
  BY <1>1, <1>2, <1>3, <1>4, <1>5 DEF Fails, NodesAfter, RootAfter

\* `written' is what an access that is not refused makes of the nodes.
Accessed(n, written) ==
  LET pos == call[3][1]
      size == call[3][2]
  IN  /\ FoundAt(n) /\ UNCHANGED mnts
      /\ \/ Refused(n, pos, size) /\ UNCHANGED <<nodes, status>>
         \/ /\ ~ Refused(n, pos, size)
            /\ status' = Outcome(pos, size)
            /\ nodes' = IF status' = "ok" THEN written ELSE nodes

Overwritten(ns, n, extent) ==
  [ns EXCEPT ![n].data = [b \in DOMAIN @ |-> IF b \in extent THEN Byte ELSE @[b]]]

LEMMA WriteIs ==
  ASSUME Inv, vfsWrite
  PROVE  /\ Taken("write")
         /\ \/ Fails
            \/ \E n \in 2 .. Len(nodes) : Accessed(n, Overwritten(nodes, n, Extent))
<1> DEFINE n == vfsLookup(call[2])
<1>1. /\ call # NoCall /\ call[1] = "write" /\ call' = NoCall
      /\ \/ n = Hung /\ status' = "hung" /\ UNCHANGED <<nodes, mnts>>
         \/ n = Null /\ UNCHANGED <<nodes, mnts, status>>
         \/ n \notin {Null, Hung} /\ tmpfsReadWrite(n, Overwritten(nodes, n, Extent))
  BY DEF vfsWrite, Serve, Overwritten
<1>2. /\ \/ n = Hung /\ Tree!Hangs(call[2])
         \/ n = Null /\ ~ Tree!Hangs(call[2]) /\ ~ Tree!Found(call[2])
         \/ n \notin {Null, Hung} /\ FoundAt(n)
  BY <1>1, Met
<1>3. Null # Hung
  BY DEF Null, Hung
<1>4. Taken("write")
  BY <1>1 DEF Taken, Inv
<1> HIDE DEF n
<1>5. FoundAt(n) => n \in 2 .. Len(nodes)
  BY DEF FoundAt
<1> QED
  BY <1>1, <1>2, <1>3, <1>4, <1>5 DEF Fails, Accessed, tmpfsReadWrite

LEMMA ReadIs ==
  ASSUME Inv, vfsRead
  PROVE  /\ Taken("read")
         /\ \/ Fails
            \/ \E n \in 2 .. Len(nodes) : Accessed(n, nodes)
<1> DEFINE n == vfsLookup(call[2])
<1>1. /\ call # NoCall /\ call[1] = "read" /\ call' = NoCall
      /\ \/ n = Hung /\ status' = "hung" /\ UNCHANGED <<nodes, mnts>>
         \/ n = Null /\ UNCHANGED <<nodes, mnts, status>>
         \/ n \notin {Null, Hung} /\ tmpfsReadWrite(n, nodes)
  BY DEF vfsRead, Serve
<1>2. /\ \/ n = Hung /\ Tree!Hangs(call[2])
         \/ n = Null /\ ~ Tree!Hangs(call[2]) /\ ~ Tree!Found(call[2])
         \/ n \notin {Null, Hung} /\ FoundAt(n)
  BY <1>1, Met
<1>3. Null # Hung
  BY DEF Null, Hung
<1>4. Taken("read")
  BY <1>1 DEF Taken, Inv
<1> HIDE DEF n
<1>5. FoundAt(n) => n \in 2 .. Len(nodes)
  BY DEF FoundAt
<1> QED
  BY <1>1, <1>2, <1>3, <1>4, <1>5 DEF Fails, Accessed, tmpfsReadWrite

LEMMA ReadDirIs ==
  ASSUME Inv, vfsReadDir
  PROVE  /\ Taken("readdir")
         /\ \/ Fails
            \/ (\E n \in 2 .. Len(nodes) : FoundAt(n)) /\ UNCHANGED <<nodes, mnts, status>>
<1> DEFINE n == vfsLookup(call[2])
<1>1. /\ call # NoCall /\ call[1] = "readdir" /\ call' = NoCall
      /\ \/ n = Hung /\ status' = "hung" /\ UNCHANGED <<nodes, mnts>>
         \/ n = Null /\ UNCHANGED <<nodes, mnts, status>>
         \/ n \notin {Null, Hung} /\ UNCHANGED <<nodes, mnts, status>>
  BY DEF vfsReadDir, Serve
<1>2. /\ \/ n = Hung /\ Tree!Hangs(call[2])
         \/ n = Null /\ ~ Tree!Hangs(call[2]) /\ ~ Tree!Found(call[2])
         \/ n \notin {Null, Hung} /\ FoundAt(n)
  BY <1>1, Met
<1>3. Null # Hung
  BY DEF Null, Hung
<1>4. Taken("readdir")
  BY <1>1 DEF Taken, Inv
<1> HIDE DEF n
<1>5. FoundAt(n) => n \in 2 .. Len(nodes)
  BY DEF FoundAt
<1> QED
  BY <1>1, <1>2, <1>3, <1>4, <1>5 DEF Fails

-----------------------------------------------------------------------------
(* The invariant is kept. *)

\* The first node of a tree, or one that a name leads to.
LEMMA EdgeOrRoot ==
  ASSUME Sound(nodes, mnts), NEW p, NEW n, Leads(looks, p, n)
  PROVE  IsRoot(mnts, n) \/ \E q \in Paths, a \in Texts : \E m \in Nat :
           p = Append(q, a) /\ Leads(looks, q, m) /\ looks[<<m, a>>] = n
<1>1. looks \in Graphs
  BY LooksSound DEF Sound, looks
<1>2. p \in Paths
  BY DEF Leads
<1>3. CASE n # 2
  BY <1>1, <1>2, <1>3, EdgeTo
<1>4. CASE n = 2
  <2>1. mnts \in Seq(Mounts) /\ RootAt(mnts, root) = 2
    BY DEF Sound, MountsSound
  <2>2. PICK i \in DOMAIN mnts : RootAt(mnts, root) = mnts[i].root
    BY <2>1, RootAtIs DEF root
  <2> QED
    BY <1>4, <2>1, <2>2 DEF IsRoot
<1> QED
  BY <1>3, <1>4

NewData(old, extent) == [b \in DOMAIN old |-> IF b \in extent THEN Byte ELSE old[b]]

LEMMA OverwrittenShape ==
  ASSUME NEW ns \in Seq(Records), NEW n \in 1 .. Len(ns), ns[n].data \in Data, NEW extent
  PROVE  LET ms == Overwritten(ns, n, extent)
         IN  /\ ms \in Seq(Records) /\ Len(ms) = Len(ns)
             /\ \A k \in 1 .. Len(ns) :
                  /\ ms[k].type = ns[k].type /\ ms[k].name = ns[k].name
                  /\ ms[k].children = ns[k].children
                  /\ k # n => ms[k].data = ns[k].data
             /\ ms[n].data = NewData(ns[n].data, extent) /\ ms[n].data \in Data
<1> DEFINE ms == Overwritten(ns, n, extent)
           old == ns[n].data
           new == NewData(old, extent)
<1>1. new \in Data
  <2>1. DOMAIN old = 0 .. FileSize - 1 /\ \A b \in 0 .. FileSize - 1 : old[b] \in {0, Byte}
    BY DEF Data
  <2> HIDE DEF old
  <2> QED
    BY <2>1 DEF Data, NewData
<1>2. ms = [ns EXCEPT ![n] = [ns[n] EXCEPT !.data = new]]
  BY DEF Overwritten, NewData
<1> HIDE DEF new, ms
<1>3. ns[n] \in Records
  OBVIOUS
<1>4. /\ [ns[n] EXCEPT !.data = new] \in Records
      /\ [ns[n] EXCEPT !.data = new].type = ns[n].type
      /\ [ns[n] EXCEPT !.data = new].name = ns[n].name
      /\ [ns[n] EXCEPT !.data = new].children = ns[n].children
      /\ [ns[n] EXCEPT !.data = new].data = new
  BY <1>1, <1>3 DEF Records
<1> DEFINE r == [ns[n] EXCEPT !.data = new]
<1>5. r \in Records /\ ms = [ns EXCEPT ![n] = r]
  BY <1>2, <1>4
<1> HIDE DEF r
<1>6. /\ ms \in Seq(Records) /\ Len(ms) = Len(ns) /\ ms[n] = r
      /\ \A k \in 1 .. Len(ns) : k # n => ms[k] = ns[k]
  BY <1>5
<1> QED
  BY <1>1, <1>4, <1>6 DEF r, new, ms

\* To write changes no name.
LEMMA Rewritten ==
  ASSUME NEW ns, NEW mt, Sound(ns, mt), NEW n \in 2 .. Len(ns), ns[n].type # "dir", NEW extent
  PROVE  LET ms == Overwritten(ns, n, extent)
         IN  Sound(ms, mt) /\ LooksOf(ms, mt) = LooksOf(ns, mt)
<1> DEFINE ms == Overwritten(ns, n, extent)
<1>1. /\ ns \in Seq(Records) /\ NodesSound(ns) /\ MountsSound(ns, mt) /\ Len(ns) \in Nat
      /\ n \in 1 .. Len(ns)
  BY DEF Sound, NodesSound
<1>2. ns[n].type = "file" /\ ns[n].data \in Data
  BY DEF Sound, NodesSound
<1>3. /\ ms \in Seq(Records) /\ Len(ms) = Len(ns)
      /\ \A k \in 1 .. Len(ns) :
           /\ ms[k].type = ns[k].type /\ ms[k].name = ns[k].name
           /\ ms[k].children = ns[k].children
           /\ k # n => ms[k].data = ns[k].data
      /\ ms[n].data \in Data
  BY <1>1, <1>2, OverwrittenShape
<1> HIDE DEF ms
<1>4. NodesSound(ms)
  <2>1. \A k \in 2 .. Len(ns) : k \in 1 .. Len(ns)
    BY <1>1
  <2>2. \A k \in 2 .. Len(ns) : ms[k].type = "file" => ms[k].data \in Data
    BY <1>1, <1>3, <2>1 DEF NodesSound
  <2>3. 2 \in 1 .. Len(ns)
    BY <1>1 DEF NodesSound
  <2> QED
    BY <1>1, <1>3, <2>1, <2>2, <2>3 DEF NodesSound
<1>5. MountsSound(ms, mt)
  BY <1>1, <1>3 DEF MountsSound
<1>6. ASSUME NEW k \in 2 .. Len(ns), NEW a
      PROVE  LookAt(ms, mt, k, a) = LookAt(ns, mt, k, a)
  <2> DEFINE list == ns[k].children
  <2>1. k \in 1 .. Len(ns)
    BY <1>1
  <2>2. list \in Seq(Nat) /\ \A i \in DOMAIN list : list[i] \in 1 .. Len(ns)
    <3>1. ns[k] \in Records
      BY <1>1, <2>1
    <3>2. \A i \in DOMAIN list : list[i] \in k + 1 .. Len(ns)
      BY <1>1, <2>1 DEF NodesSound
    <3> QED
      BY <1>1, <3>1, <3>2 DEF Records
  <2>3. ms[k].children = list /\ ms[k].type = ns[k].type
    BY <1>3, <2>1
  <2> HIDE DEF list
  <2>4. \A i \in DOMAIN list : ms[list[i]].name = ns[list[i]].name
    BY <1>3, <2>2
  <2>5. ChildNamed(ms, list, a) = ChildNamed(ns, list, a)
    BY <2>2, <2>4, ChildSame
  <2> QED
    BY <2>3, <2>5 DEF LookAt, list
<1>7. LooksOf(ms, mt) = LooksOf(ns, mt)
  BY <1>3, <1>6 DEF LooksOf
<1> QED
  BY <1>4, <1>5, <1>7 DEF Sound, ms

LEMMA InvStep == Inv /\ [Next]_vars => Inv'
<1> SUFFICES ASSUME Inv, [Next]_vars PROVE Inv'
  OBVIOUS
<1>1. Sound(nodes, mnts)
  BY DEF Inv
<1>2. CASE UNCHANGED vars
  BY <1>2 DEF vars, Inv, Sound
<1>3. CASE Request
  <2>1. Sound(nodes', mnts')
    BY <1>1, <1>3 DEF Request
  <2> QED
    BY <1>3, <2>1 DEF Request, Inv
<1>4. ASSUME NEW function, Taken(function), Sound(nodes', mnts') PROVE Inv'
  BY <1>4 DEF Taken, Inv
<1>5. Fails => Sound(nodes', mnts')
  BY <1>1 DEF Fails
<1>6. CASE vfsCreate
  <2>1. CASE Fails
    BY <1>4, <1>5, <1>6, <2>1, CreateIs
  <2>2. ASSUME NEW n \in 2 .. Len(nodes), NEW kept \in KeptAs[call[3]],
               nodes' = WithFile(nodes, n, kept), UNCHANGED mnts
        PROVE  Sound(nodes', mnts')
    <3>1. kept \in Texts
      <4>1. call[3] \in DOMAIN KeptAs
        BY <1>6, CreateIs, CallsAssumption DEF Taken
      <4> QED
        BY <4>1, NamesAssumption DEF Texts
    <3> QED
      BY <1>1, <2>2, <3>1, FileAdded
  <2> QED
    BY <1>4, <1>6, <2>1, <2>2, CreateIs
<1>7. CASE vfsMount
  <2>1. CASE Fails
    BY <1>4, <1>5, <1>7, <2>1, MountIs
  <2>2. ASSUME NEW n \in 2 .. Len(nodes), FoundAt(n),
               nodes' = NodesAfter(nodes, call[3]),
               mnts' = WithMount(mnts, n, RootAfter(nodes, call[3]))
        PROVE  Sound(nodes', mnts')
    <3>1. PICK m \in Nat, a \in Texts : IsRoot(mnts, n) \/ looks[<<m, a>>] = n
      <4>1. Leads(looks, Tree!Names(call[2]), n)
        BY <2>2 DEF FoundAt
      <4>2. CASE IsRoot(mnts, n)
        BY <4>2 DEF Texts
      <4>3. CASE ~ IsRoot(mnts, n)
        BY <1>1, <4>1, <4>3, EdgeOrRoot
      <4> QED
        BY <4>2, <4>3
    <3>2. IsRoot(mnts, n) \/ LooksOf(nodes, mnts)[<<m, a>>] = n
      BY <3>1 DEF looks
    <3>3. Sound(NodesAfter(nodes, call[3]), WithMount(mnts, n, RootAfter(nodes, call[3])))
      BY <1>1, <3>2, MountAdded
    <3> QED
      BY <2>2, <3>3
  <2> QED
    BY <1>4, <1>7, <2>1, <2>2, MountIs
<1>8. CASE vfsWrite
  <2>1. CASE Fails
    BY <1>4, <1>5, <1>8, <2>1, WriteIs
  <2>2. ASSUME NEW n \in 2 .. Len(nodes), Accessed(n, Overwritten(nodes, n, Extent))
        PROVE  Sound(nodes', mnts')
    <3>1. UNCHANGED mnts
      BY <2>2 DEF Accessed
    <3>2. CASE UNCHANGED nodes
      BY <1>1, <3>1, <3>2
    <3>3. CASE nodes' = Overwritten(nodes, n, Extent) /\ nodes[n].type # "dir"
      BY <1>1, <3>1, <3>3, Rewritten
    <3> QED
      BY <2>2, <3>2, <3>3 DEF Accessed, Refused
  <2> QED
    BY <1>4, <1>8, <2>1, <2>2, WriteIs
<1>9. CASE vfsRead
  <2>1. UNCHANGED <<nodes, mnts>>
    BY <1>9, ReadIs DEF Fails, Accessed
  <2>2. Sound(nodes', mnts')
    BY <1>1, <2>1
  <2> QED
    BY <1>4, <1>9, <2>2, ReadIs
<1>10. CASE vfsReadDir
  <2>1. UNCHANGED <<nodes, mnts>>
    BY <1>10, ReadDirIs DEF Fails
  <2>2. Sound(nodes', mnts')
    BY <1>1, <2>1
  <2> QED
    BY <1>4, <1>10, <2>2, ReadDirIs
<1> QED
  BY <1>2, <1>3, <1>6, <1>7, <1>8, <1>9, <1>10 DEF Next

\* Children and the roots of mounts were made later than what they are in or
\* on, and no two names lead to one node.
THEOREM InvHolds == Spec => []Inv
<1> QED
  BY InvInit, InvStep, PTL DEF Spec

-----------------------------------------------------------------------------
(* What was written. *)

\* Every byte of a file is what the writes made of it, and nobody has written
\* to a file that there is not yet.
Kept ==
  /\ \A x \in wrote : x[1] \in 2 .. Len(nodes)
  /\ \A n \in 2 .. Len(nodes) : nodes[n].type = "file" =>
       \A b \in 0 .. FileSize - 1 :
         nodes[n].data[b] = IF <<n, b>> \in wrote THEN Byte ELSE 0

\* New files are zero, and old ones stay as they are.
LEMMA KeptByOthers ==
  ASSUME Kept, wrote' = wrote, Len(nodes) \in Nat, Len(nodes') \in Nat, Len(nodes') >= Len(nodes),
         \A n \in 2 .. Len(nodes) : nodes'[n].type = nodes[n].type /\ nodes'[n].data = nodes[n].data,
         \A n \in Len(nodes) + 1 .. Len(nodes') :
           nodes'[n].type = "file" => nodes'[n].data = [b \in 0 .. FileSize - 1 |-> 0]
  PROVE  Kept'
<1>1. \A x \in wrote : x[1] \in 2 .. Len(nodes')
  BY DEF Kept
<1>2. ASSUME NEW n \in 2 .. Len(nodes'), nodes'[n].type = "file", NEW b \in 0 .. FileSize - 1
      PROVE  nodes'[n].data[b] = IF <<n, b>> \in wrote THEN Byte ELSE 0
  <2>1. CASE n \in 2 .. Len(nodes)
    BY <1>2, <2>1 DEF Kept
  <2>2. CASE n \notin 2 .. Len(nodes)
    <3>1. <<n, b>> \notin wrote
      BY <2>2 DEF Kept
    <3>2. n \in Len(nodes) + 1 .. Len(nodes')
      BY <2>2
    <3>3. nodes'[n].data = [c \in 0 .. FileSize - 1 |-> 0]
      BY <1>2, <3>2
    <3> QED
      BY <3>1, <3>3
  <2> QED
    BY <2>1, <2>2
<1> QED
  BY <1>1, <1>2 DEF Kept

\* So does a call that changes no node and has nothing to write.
LEMMA KeptByNone ==
  ASSUME Kept, UNCHANGED <<nodes, wrote>>
  PROVE  Kept'
BY DEF Kept

\* Only writes have something to write.
LEMMA AskedByWrites ==
  ASSUME call[1] # "write"
  PROVE  Asked = {}
BY DEF Asked

LEMMA KeptByCreate ==
  ASSUME Inv, Kept, vfsCreate
  PROVE  Kept'
<1>1. Sound(nodes, mnts) /\ Taken("create")
  BY CreateIs DEF Inv
<1>2. wrote' = wrote
  <2>1. wrote' = wrote \cup Asked /\ call[1] # "write"
    BY DEF vfsCreate, Serve
  <2> QED
    BY <2>1, AskedByWrites
<1>3. CASE Fails
  BY <1>1, <1>2, <1>3, KeptByNone DEF Fails
<1>4. ASSUME NEW n \in 2 .. Len(nodes), NEW kept \in KeptAs[call[3]], nodes' = WithFile(nodes, n, kept)
      PROVE  Kept'
  <2>1. nodes \in Seq(Records) /\ n \in 1 .. Len(nodes) /\ Len(nodes) \in Nat
    BY <1>1 DEF Sound, NodesSound
  <2>2. kept \in Texts
    <3>1. call[3] \in DOMAIN KeptAs
      BY <1>1, CallsAssumption DEF Taken
    <3> QED
      BY <3>1, NamesAssumption DEF Texts
  <2>3. /\ Len(nodes') = Len(nodes) + 1 /\ nodes'[Len(nodes) + 1] = Node("file", kept)
        /\ \A k \in 1 .. Len(nodes) : nodes'[k].type = nodes[k].type /\ nodes'[k].data = nodes[k].data
    BY <1>4, <2>1, <2>2, WithFileShape
  <2>4. Node("file", kept).data = [b \in 0 .. FileSize - 1 |-> 0]
    BY <2>2, NewNode
  <2>5. \A k \in Len(nodes) + 1 .. Len(nodes') : k = Len(nodes) + 1
    BY <2>1, <2>3
  <2>6. \A k \in Len(nodes) + 1 .. Len(nodes') : nodes'[k].data = [b \in 0 .. FileSize - 1 |-> 0]
    BY <2>3, <2>4, <2>5
  <2>7. \A k \in 2 .. Len(nodes) : nodes'[k].type = nodes[k].type /\ nodes'[k].data = nodes[k].data
    BY <2>1, <2>3
  <2>8. Len(nodes') \in Nat /\ Len(nodes') >= Len(nodes)
    BY <2>1, <2>3
  <2> QED
    BY <1>2, <2>1, <2>6, <2>7, <2>8, KeptByOthers
<1> QED
  BY <1>3, <1>4, CreateIs

LEMMA KeptByMount ==
  ASSUME Inv, Kept, vfsMount
  PROVE  Kept'
<1>1. Sound(nodes, mnts)
  BY DEF Inv
<1>2. wrote' = wrote
  <2>1. wrote' = wrote \cup Asked /\ call[1] # "write"
    BY DEF vfsMount, Serve
  <2> QED
    BY <2>1, AskedByWrites
<1>3. CASE UNCHANGED nodes
  BY <1>1, <1>2, <1>3, KeptByNone
<1>4. CASE nodes' = tmpfsMount(nodes)
  <2>1. nodes \in Seq(Records) /\ Len(nodes) \in Nat
    BY <1>1 DEF Sound, NodesSound
  <2>2. /\ Len(nodes') = Len(nodes) + 2 /\ \A k \in 1 .. Len(nodes) : nodes'[k] = nodes[k]
        /\ nodes'[Len(nodes) + 1].type = "dir" /\ nodes'[Len(nodes) + 2] = Node("dir", "dev")
    BY <1>4, <2>1, RootShape
  <2>3. Node("dir", "dev").type = "dir"
    BY DEF Node
  <2>4. \A k \in Len(nodes) + 1 .. Len(nodes') : k = Len(nodes) + 1 \/ k = Len(nodes) + 2
    BY <2>1, <2>2
  <2>5. \A k \in Len(nodes) + 1 .. Len(nodes') : nodes'[k].type = "dir"
    BY <2>2, <2>3, <2>4
  <2>6. \A k \in 2 .. Len(nodes) : nodes'[k].type = nodes[k].type /\ nodes'[k].data = nodes[k].data
    BY <2>1, <2>2
  <2>7. Len(nodes') \in Nat /\ Len(nodes') >= Len(nodes)
    BY <2>1, <2>2
  <2> QED
    BY <1>2, <2>1, <2>5, <2>6, <2>7, KeptByOthers
<1> QED
  BY <1>3, <1>4, MountIs DEF Fails, NodesAfter

\* What a write does to the file is what it has to do: a write that is refused,
\* panics or goes astray has nothing to write.
LEMMA KeptByWrite ==
  ASSUME Inv, Kept, vfsWrite
  PROVE  Kept'
<1> DEFINE n == vfsLookup(call[2])
           pos == call[3][1]
           size == call[3][2]
           new == Overwritten(nodes, n, Extent)
<1>1. Sound(nodes, mnts) /\ call # NoCall /\ call \in Calls /\ call[1] = "write"
  BY DEF Inv, vfsWrite, Serve
<1>2. pos \in 0 .. WordSize - 1 /\ size \in 0 .. WordSize - 1 /\ FileSize \in Nat /\ WordSize \in Nat /\ FileSize < WordSize
  BY <1>1, CallsAssumption, SizesAssumption
<1>3. /\ wrote' = wrote \cup Asked
      /\ \/ n \in {Null, Hung} /\ UNCHANGED nodes
         \/ /\ n \notin {Null, Hung}
            /\ \/ Refused(n, pos, size) /\ UNCHANGED nodes
               \/ /\ ~ Refused(n, pos, size)
                  /\ nodes' = IF Outcome(pos, size) = "ok" THEN new ELSE nodes
  BY DEF vfsWrite, Serve, tmpfsReadWrite, Overwritten
<1>4. n \in {Null, Hung} \/ n \in 2 .. Len(nodes)
  BY <1>1, Met DEF FoundAt
<1>5. Asked = {x \in {n} \X (0 .. FileSize - 1) :
                 /\ n \notin {Null, Hung} /\ nodes[n].type = "file"
                 /\ pos <= x[2] /\ x[2] < pos + size /\ pos + size < FileSize}
  BY <1>1 DEF Asked
<1> HIDE DEF n, pos, size
<1>6. CASE Asked = {} /\ UNCHANGED nodes
  BY <1>1, <1>3, <1>6, KeptByNone
<1>7. pos + size \in Nat /\ (pos + size < WordSize => (pos + size) % WordSize = pos + size)
  BY <1>2
<1>8. CASE n \in {Null, Hung} \/ Refused(n, pos, size)
  <2>1. Asked = {}
    BY <1>2, <1>5, <1>7, <1>8 DEF Refused
  <2> QED
    BY <1>3, <1>6, <1>8, <2>1
<1>9. CASE ~ Refused(n, pos, size) /\ n \notin {Null, Hung} /\ Outcome(pos, size) # "ok"
  <2>1. size = 0 \/ ~ (pos + size < WordSize)
    BY <1>9 DEF Outcome
  <2>2. Asked = {}
    BY <1>2, <1>5, <2>1
  <2> QED
    BY <1>3, <1>6, <1>9, <2>2
<1>10. CASE ~ Refused(n, pos, size) /\ n \notin {Null, Hung} /\ Outcome(pos, size) = "ok"
  <2>1. size # 0 /\ pos + size < WordSize /\ pos + size < FileSize /\ nodes[n].type # "dir"
    <3>1. size # 0 /\ pos + size < WordSize
      BY <1>10 DEF Outcome
    <3> QED
      BY <1>2, <1>7, <1>10, <3>1 DEF Refused
  <2>2. nodes' = new
    BY <1>3, <1>10
  <2>3. /\ nodes \in Seq(Records) /\ n \in 2 .. Len(nodes) /\ n \in 1 .. Len(nodes)
        /\ Len(nodes) \in Nat
        /\ nodes[n].type = "file" /\ nodes[n].data \in Data
    BY <1>1, <1>4, <1>10, <2>1 DEF Sound, NodesSound
  <2>4. /\ Len(nodes') = Len(nodes)
        /\ \A k \in 1 .. Len(nodes) : /\ nodes'[k].type = nodes[k].type
                                      /\ k # n => nodes'[k].data = nodes[k].data
        /\ nodes'[n].data = NewData(nodes[n].data, Extent)
    BY <2>2, <2>3, OverwrittenShape
  <2>5. Asked = {x \in {n} \X (0 .. FileSize - 1) : x[2] \in Extent}
    <3>1. Extent = pos .. pos + size - 1
      BY DEF Extent, pos, size
    <3> QED
      BY <1>2, <1>5, <1>10, <2>1, <2>3, <3>1
  <2>6. \A x \in wrote' : x[1] \in 2 .. Len(nodes')
    BY <1>3, <2>3, <2>4, <2>5 DEF Kept
  <2>7. ASSUME NEW k \in 2 .. Len(nodes'), nodes'[k].type = "file", NEW b \in 0 .. FileSize - 1
        PROVE  nodes'[k].data[b] = IF <<k, b>> \in wrote' THEN Byte ELSE 0
    <3>1. k \in 2 .. Len(nodes) /\ k \in 1 .. Len(nodes) /\ nodes[k].type = "file"
      BY <2>3, <2>4, <2>7
    <3>2. nodes[k].data[b] = IF <<k, b>> \in wrote THEN Byte ELSE 0
      BY <2>7, <3>1 DEF Kept
    <3>3. CASE k # n
      <4>1. <<k, b>> \notin Asked
        BY <2>5, <3>3
      <4> QED
        BY <1>3, <2>4, <3>1, <3>2, <3>3, <4>1
    <3>4. CASE k = n
      <4>1. <<k, b>> \in Asked <=> b \in Extent
        BY <2>5, <3>4
      <4>2. DOMAIN nodes[n].data = 0 .. FileSize - 1
        BY <2>3 DEF Data
      <4>3. NewData(nodes[n].data, Extent)[b] = IF b \in Extent THEN Byte ELSE nodes[n].data[b]
        BY <4>2 DEF NewData
      <4> QED
        BY <1>3, <2>4, <3>2, <3>4, <4>1, <4>3
    <3> QED
      BY <3>3, <3>4
  <2> QED
    BY <2>6, <2>7 DEF Kept
<1> QED
  BY <1>8, <1>9, <1>10

LEMMA KeptStep == Inv /\ Kept /\ [Next]_vars => Kept'
<1> SUFFICES ASSUME Inv, Kept, [Next]_vars PROVE Kept'
  OBVIOUS
<1>1. Sound(nodes, mnts)
  BY DEF Inv
<1>2. CASE UNCHANGED vars \/ Request
  BY <1>1, <1>2, KeptByNone DEF vars, Request
<1>3. CASE vfsRead \/ vfsReadDir
  <2>1. UNCHANGED nodes
    BY <1>3, ReadIs, ReadDirIs DEF Fails, Accessed
  <2>2. wrote' = wrote \cup Asked /\ call[1] # "write"
    BY <1>3 DEF vfsRead, vfsReadDir, Serve
  <2> QED
    BY <1>1, <2>1, <2>2, AskedByWrites, KeptByNone
<1> QED
  BY <1>2, <1>3, KeptByCreate, KeptByMount, KeptByWrite DEF Next

LEMMA KeptInit == Init => Kept
<1> SUFFICES ASSUME Init PROVE Kept
  OBVIOUS
<1>1. nodes = FirstNodes /\ wrote = {}
  BY DEF Init, FirstNodes
<1>2. FirstNodes[2].type = "dir" /\ FirstNodes[3].type = "dir" /\ Len(FirstNodes) = 3
  BY FirstSound
<1>3. \A n \in 2 .. Len(nodes) : nodes[n].type = "dir"
  BY <1>1, <1>2
<1> QED
  BY <1>1, <1>3 DEF Kept

-----------------------------------------------------------------------------
(* What readers and listers see. *)

LEMMA NotBoth ==
  ASSUME NEW path, Tree!Found(path)
  PROVE  ~ Tree!Hangs(path)
BY DEF Tree!Found, Tree!Hangs

LEMMA DirIs ==
  ASSUME Sound(nodes, mnts), NEW p, NEW n, Leads(looks, p, n)
  PROVE  /\ Tree!IsDir(p) <=> nodes[n].type = "dir"
         /\ treeOfNodes[p].type = nodes[n].type /\ treeOfNodes[p].data = nodes[n].data
<1>1. looks \in Graphs /\ p \in Paths
  BY LooksSound DEF Sound, looks, Leads
<1>2. \A m : Leads(looks, p, m) => m = n
  BY <1>1, LeadsUnique
<1>3. treeOfNodes[p] = Entry(nodes, n) /\ (Tree!IsDir(p) <=> DirAt(p))
  BY TreeHas
<1> QED
  BY <1>2, <1>3 DEF DirAt, Entry

LEMMA ReadSeesTheTree ==
  ASSUME Sound(nodes, mnts), NEW path \in Paths, path # <<>>, NEW pos, NEW size
  PROVE  ReadBytes(path, pos, size) = Tree!Contents(path, pos, size)
<1> DEFINE n == vfsLookup(path)
           p == Tree!Names(path)
<1>1. CASE n = Hung /\ Tree!Hangs(path)
  BY <1>1, NotBoth DEF ReadBytes, Tree!Contents
<1>2. CASE n = Null /\ ~ Tree!Found(path)
  BY <1>2 DEF ReadBytes, Tree!Contents
<1>3. CASE n \in 2 .. Len(nodes) /\ Leads(looks, p, n) /\ Tree!Found(path)
  <2>1. n \notin {Null, Hung}
    BY <1>3 DEF Null, Hung
  <2>2. Tree!IsDir(p) <=> nodes[n].type = "dir"
    BY <1>3, DirIs
  <2>3. Refused(n, pos, size) <=> Tree!Refused(p, pos, size)
    BY <2>2 DEF Refused, Tree!Refused
  <2>4. treeOfNodes[p].data = nodes[n].data
    BY <1>3, DirIs
  <2> QED
    BY <1>3, <2>1, <2>3, <2>4 DEF ReadBytes, Tree!Contents
<1> QED
  BY <1>1, <1>2, <1>3, LookupIs

\* What the code reads through a path is what the tree has at it, and what
\* was written there last.
THEOREM ReadsAreTrue == Spec => []ReadsSeeWrites
<1>1. Inv /\ Kept => ReadsSeeWrites
  <2> SUFFICES ASSUME Inv, Kept, NEW c \in Calls, c[1] = "read", c[3][1] + c[3][2] < WordSize
               PROVE  LET file == vfsLookup(c[2])
                          bytes == ReadBytes(c[2], c[3][1], c[3][2])
                      IN  /\ bytes = Tree!Contents(c[2], c[3][1], c[3][2])
                          /\ bytes # <<>> =>
                               bytes = [i \in 1 .. c[3][2] |->
                                          IF <<file, c[3][1] + i - 1>> \in wrote THEN Byte ELSE 0]
    BY DEF ReadsSeeWrites
  <2> DEFINE n == vfsLookup(c[2])
             pos == c[3][1]
             size == c[3][2]
  <2>1. c[2] \in Paths /\ c[2] # <<>> /\ Sound(nodes, mnts)
    BY CallIs DEF Inv
  <2>2. ReadBytes(c[2], pos, size) = Tree!Contents(c[2], pos, size)
    BY <2>1, ReadSeesTheTree
  <2>3. ASSUME ReadBytes(c[2], pos, size) # <<>>
        PROVE  ReadBytes(c[2], pos, size) =
                 [i \in 1 .. size |-> IF <<n, pos + i - 1>> \in wrote THEN Byte ELSE 0]
    <3>1. n \notin {Null, Hung} /\ ~ Refused(n, pos, size)
          /\ ReadBytes(c[2], pos, size) = [i \in 1 .. size |-> nodes[n].data[pos + i - 1]]
      BY <2>3 DEF ReadBytes
    <3>2. n \in 2 .. Len(nodes)
      BY <2>1, <3>1, LookupIs DEF Null, Hung
    <3>3. nodes[n].type = "file"
      BY <2>1, <3>1, <3>2 DEF Refused, Sound, NodesSound
    <3>4. pos \in Nat /\ size \in Nat /\ pos + size < FileSize
      <4>1. pos \in 0 .. WordSize - 1 /\ size \in 0 .. WordSize - 1 /\ WordSize \in Nat
        BY CallsAssumption, SizesAssumption
      <4>2. (pos + size) % WordSize = pos + size
        BY <4>1
      <4>3. ~ ((pos + size) % WordSize >= FileSize)
        BY <3>1 DEF Refused
      <4> QED
        BY <4>1, <4>2, <4>3, SizesAssumption
    <3> HIDE DEF n, pos, size
    <3>5. \A i \in 1 .. size : pos + i - 1 \in 0 .. FileSize - 1
      BY <3>4, SizesAssumption
    <3>6. \A i \in 1 .. size :
            nodes[n].data[pos + i - 1] = IF <<n, pos + i - 1>> \in wrote THEN Byte ELSE 0
      BY <3>2, <3>3, <3>5 DEF Kept
    <3> QED
      BY <3>1, <3>6
  <2> QED
    BY <2>2, <2>3
<1>2. Spec => []Kept
  BY InvHolds, InvInit, InvStep, KeptInit, KeptStep, PTL DEF Spec
<1> QED
  BY <1>1, <1>2, InvHolds, PTL

LEMMA EntriesAre ==
  ASSUME NEW n, NEW list \in Seq(Nat), nodes[n].children = list
  PROVE  LET entries == [i \in 1 .. Len(nodes[n].children) |-> tmpfsReaddir(n, i - 1)]
         IN  /\ DOMAIN entries = 1 .. Len(list) /\ Len(entries) = Len(list)
             /\ \A i \in 1 .. Len(list) :
                  entries[i] = <<nodes[list[i]].name, nodes[list[i]].type>>
             /\ <<>> \notin Range(entries) /\ tmpfsReaddir(n, Len(entries)) = <<>>
<1> DEFINE entries == [i \in 1 .. Len(list) |-> tmpfsReaddir(n, i - 1)]
<1>1. Len(list) \in Nat
  OBVIOUS
<1>2. DOMAIN entries = 1 .. Len(list)
  OBVIOUS
<1>3. Len(entries) = Len(list)
  BY <1>1, <1>2
<1>4. ASSUME NEW i \in 1 .. Len(list)
      PROVE  entries[i] = <<nodes[list[i]].name, nodes[list[i]].type>>
  <2>1. i - 1 < Len(list) /\ (i - 1) + 1 = i
    BY <1>1
  <2> QED
    BY <2>1 DEF tmpfsReaddir
<1>5. tmpfsReaddir(n, Len(list)) = <<>>
  BY <1>1 DEF tmpfsReaddir
<1> HIDE DEF entries
<1>6. <<>> \notin Range(entries)
  <2>1. \A x, y : <<x, y>> # <<>>
    OBVIOUS
  <2>2. ASSUME NEW i \in DOMAIN entries PROVE entries[i] # <<>>
    <3> DEFINE x == nodes[list[i]].name
               y == nodes[list[i]].type
    <3>1. entries[i] = <<x, y>>
      BY <1>2, <1>4
    <3> HIDE DEF x, y
    <3> QED
      BY <2>1, <3>1
  <2> QED
    BY <2>2 DEF Range
<1> QED
  BY <1>2, <1>3, <1>4, <1>5, <1>6 DEF entries

LEMMA NothingOnNull ==
  ASSUME Sound(nodes, mnts)
  PROVE  RootAt(mnts, Null) = Null
<1>1. mnts \in Seq(Mounts) /\ \A i \in DOMAIN mnts : mnts[i].mountpoint \in 1 .. Len(nodes)
  BY DEF Sound, MountsSound
<1>2. \A i \in DOMAIN mnts : mnts[i].mountpoint # Null
  BY <1>1 DEF Null
<1> QED
  BY <1>1, <1>2, RootAtNone

\* The names that lead on from a directory are listed.
LEMMA NamesAreListed ==
  ASSUME Sound(nodes, mnts), NEW p, NEW n, Leads(looks, p, n), NEW list \in Seq(Nat),
         nodes[n].children = list
  PROVE  \A a \in Tree!NamesIn(p) : \E i \in DOMAIN list : nodes[list[i]].name = a
<1>1. looks \in Graphs /\ p \in Paths /\ n \in 2 .. Len(nodes)
  BY LooksSound, TreeHas DEF Sound, looks, Leads
<1>2. DOMAIN treeOfNodes \subseteq Paths
  BY TreeHas
<1> SUFFICES ASSUME NEW q \in Tree!Under(p), Len(q) = Len(p) + 1
             PROVE  \E i \in DOMAIN list : nodes[list[i]].name = q[Len(q)]
  BY DEF Tree!NamesIn
<1>3. q \in DOMAIN treeOfNodes /\ q \in Paths /\ Below(p, q)
  BY <1>1, <1>2, UnderIs
<1>4. Len(p) \in Nat /\ q # <<>>
  BY <1>1, <1>3
<1>5. PICK r \in Paths, a \in Texts : q = Append(r, a) /\ Len(r) + 1 = Len(q)
  BY <1>3, <1>4, LastOff
<1>6. Len(Append(r, a)) = Len(r) + 1 /\ Append(r, a)[Len(r) + 1] = a /\ Len(r) \in Nat
      /\ \A i \in 1 .. Len(r) : Append(r, a)[i] = r[i]
  BY <1>5, Appended
<1>7. r = p
  <2>1. Len(r) = Len(p)
    BY <1>4, <1>5, <1>6
  <2>2. \A i \in 1 .. Len(r) : r[i] = p[i]
    BY <1>3, <1>5, <1>6, <2>1 DEF Below
  <2> QED
    BY <1>1, <1>5, <2>1, <2>2, SamePath
<1>8. q[Len(q)] = a
  BY <1>5, <1>6
<1>9. PICK m : Leads(looks, q, m)
  BY <1>3, TreeHas
<1>10. Leads(looks, Append(p, a), m)
  BY <1>5, <1>7, <1>9
<1>11. PICK k \in Nat : Leads(looks, p, k) /\ m = looks[<<k, a>>] /\ m # Null
  BY <1>1, <1>10, LeadsBack
<1>12. k = n
  BY <1>1, <1>11, LeadsUnique
<1>13. looks[<<n, a>>] = LookAt(nodes, mnts, n, a)
  BY <1>1, LooksSound DEF Sound, looks
<1>14. LookAt(nodes, mnts, n, a) # Null
  BY <1>11, <1>12, <1>13
<1>15. ChildNamed(nodes, list, a) # Null
  BY <1>14, NothingOnNull DEF LookAt
<1> QED
  BY <1>8, <1>15, ChildNamedIs

\* The first entry of a name is what the name leads to, or is mounted on.
NoEarlier(list, i) == \A j \in 1 .. i - 1 : nodes[list[j]].name # nodes[list[i]].name

LeadsOrCovered(p, list, i) ==
  LET q == Append(p, nodes[list[i]].name)
  IN  \/ q \in DOMAIN treeOfNodes /\ nodes[list[i]].type = treeOfNodes[q].type
      \/ \E m \in DOMAIN mnts : mnts[m].mountpoint = list[i]

LEMMA FirstEntryIs ==
  ASSUME Sound(nodes, mnts), NEW p, NEW n, Leads(looks, p, n), NEW list \in Seq(Nat),
         nodes[n].children = list, nodes[n].type = "dir",
         NEW i \in DOMAIN list, NoEarlier(list, i)
  PROVE  LeadsOrCovered(p, list, i)
<1> DEFINE a == nodes[list[i]].name
           c == list[i]
<1>1. looks \in Graphs /\ p \in Paths /\ n \in 2 .. Len(nodes) /\ NodesSound(nodes)
  BY LooksSound, TreeHas DEF Sound, looks, Leads
<1>2. nodes \in Seq(Records) /\ n \in 1 .. Len(nodes)
  BY <1>1 DEF NodesSound
<1>3. c \in n + 1 .. Len(nodes)
  BY <1>1, <1>2 DEF NodesSound
<1>4. c \in 1 .. Len(nodes) /\ c # Null
  BY <1>1, <1>3 DEF Null
<1>5. a \in Texts
  <2>1. nodes[c] \in Records
    BY <1>2, <1>4
  <2> QED
    BY <2>1 DEF Records
<1>6. ChildNamed(nodes, list, a) = c
  <2>1. PICK k \in DOMAIN list : FirstNamed(nodes, list, a, k)
    BY ChildNamedFound
  <2>2. DOMAIN list = 1 .. Len(list) /\ Len(list) \in Nat
    OBVIOUS
  <2>3. k = i
    BY <2>1, <2>2 DEF FirstNamed, NoEarlier
  <2> QED
    BY <2>1, <2>3 DEF FirstNamed
<1> HIDE DEF a, c
<1>7. SUFFICES ASSUME \A m \in DOMAIN mnts : mnts[m].mountpoint # c
               PROVE  Append(p, a) \in DOMAIN treeOfNodes
                      /\ nodes[c].type = treeOfNodes[Append(p, a)].type
  BY DEF a, c, LeadsOrCovered
<1>8. RootAt(mnts, c) = c
  BY <1>7, RootAtNone DEF Sound, MountsSound
<1>9. LookAt(nodes, mnts, n, a) = c
  BY <1>6, <1>8 DEF LookAt
<1>10. looks[<<n, a>>] = c
  BY <1>1, <1>5, <1>9, LooksSound DEF Sound, looks
<1>11. looks[<<n, a>>] # Null
  BY <1>4, <1>10
<1>12. Leads(looks, Append(p, a), c)
  BY <1>1, <1>5, <1>10, <1>11, LeadsOn
<1> QED
  BY <1>12, TreeHas, DirIs

\* A directory's entries are its names, each once in front, and end.
THEOREM ListsAreTrue == Spec => []DirectoriesListTheTree
<1>1. Inv => DirectoriesListTheTree
  <2> SUFFICES ASSUME Inv, NEW path \in PathsUsed PROVE
        LET n == vfsLookup(path)
            entries == [i \in 1 .. Len(nodes[n].children) |-> tmpfsReaddir(n, i - 1)]
            p == Tree!Names(path)
        IN  Tree!Found(path) /\ Tree!IsDir(p) =>
              /\ <<>> \notin Range(entries) /\ tmpfsReaddir(n, Len(entries)) = <<>>
              /\ Tree!NamesIn(p) \subseteq {e[1] : e \in Range(entries)}
              /\ \A i \in DOMAIN entries :
                   LET q == Append(p, entries[i][1])
                   IN  (\A j \in 1 .. i - 1 : entries[j][1] # entries[i][1]) =>
                         \/ q \in DOMAIN treeOfNodes /\ entries[i][2] = treeOfNodes[q].type
                         \/ \E m \in DOMAIN mnts : mnts[m].mountpoint = nodes[n].children[i]
    BY DEF DirectoriesListTheTree
  <2> DEFINE n == vfsLookup(path)
             list == nodes[n].children
             entries == [i \in 1 .. Len(nodes[n].children) |-> tmpfsReaddir(n, i - 1)]
             p == Tree!Names(path)
  <2> SUFFICES ASSUME Tree!Found(path), Tree!IsDir(p) PROVE
              /\ <<>> \notin Range(entries) /\ tmpfsReaddir(n, Len(entries)) = <<>>
              /\ Tree!NamesIn(p) \subseteq {e[1] : e \in Range(entries)}
              /\ \A i \in DOMAIN entries :
                   (\A j \in 1 .. i - 1 : entries[j][1] # entries[i][1]) =>
                         \/ /\ Append(p, entries[i][1]) \in DOMAIN treeOfNodes
                            /\ entries[i][2] = treeOfNodes[Append(p, entries[i][1])].type
                         \/ \E m \in DOMAIN mnts : mnts[m].mountpoint = list[i]
    OBVIOUS
  <2>1. Sound(nodes, mnts)
    BY DEF Inv
  <2>2. n \in 2 .. Len(nodes) /\ Leads(looks, p, n)
    <3>1. PICK c \in Calls : path = c[2]
      BY DEF PathsUsed
    <3>2. path \in Paths /\ path # <<>>
      BY <3>1, CallIs
    <3> QED
      BY <2>1, <3>2, LookupIs, NotBoth
  <2>3. nodes[n].type = "dir"
    BY <2>1, <2>2, DirIs
  <2>4. list \in Seq(Nat)
    <3>1. nodes \in Seq(Records) /\ n \in 1 .. Len(nodes)
      BY <2>1, <2>2 DEF Sound, NodesSound
    <3>2. nodes[n] \in Records
      BY <3>1
    <3> QED
      BY <3>2 DEF Records
  <2> HIDE DEF n, p
  <2>5. /\ DOMAIN entries = 1 .. Len(list)
        /\ \A i \in 1 .. Len(list) : entries[i] = <<nodes[list[i]].name, nodes[list[i]].type>>
        /\ <<>> \notin Range(entries) /\ tmpfsReaddir(n, Len(entries)) = <<>>
    BY <2>4, EntriesAre
  <2> HIDE DEF entries
  <2>6. DOMAIN list = 1 .. Len(list)
    BY <2>4
  <2>7. ASSUME NEW a \in Tree!NamesIn(p) PROVE a \in {e[1] : e \in Range(entries)}
    <3>1. PICK i \in DOMAIN list : nodes[list[i]].name = a
      BY <2>1, <2>2, <2>4, NamesAreListed
    <3>2. entries[i][1] = a /\ entries[i] \in Range(entries)
      BY <2>5, <2>6, <3>1 DEF Range
    <3> QED
      BY <3>2
  <2>8. ASSUME NEW i \in DOMAIN entries,
               \A j \in 1 .. i - 1 : entries[j][1] # entries[i][1]
        PROVE  \/ /\ Append(p, entries[i][1]) \in DOMAIN treeOfNodes
                  /\ entries[i][2] = treeOfNodes[Append(p, entries[i][1])].type
               \/ \E m \in DOMAIN mnts : mnts[m].mountpoint = list[i]
    <3>1. i \in DOMAIN list /\ Len(list) \in Nat
      BY <2>4, <2>5, <2>6
    <3>2. entries[i][1] = nodes[list[i]].name /\ entries[i][2] = nodes[list[i]].type
      BY <2>5, <2>6, <3>1
    <3>3. \A j \in 1 .. i - 1 : j \in 1 .. Len(list)
      BY <2>6, <3>1
    <3>4. \A j \in 1 .. i - 1 : entries[j][1] = nodes[list[j]].name
      BY <2>5, <3>3
    <3>5. NoEarlier(list, i)
      BY <2>8, <3>2, <3>4 DEF NoEarlier
    <3> HIDE DEF list
    <3>6. nodes[n].children = list
      BY DEF list
    <3>7. LeadsOrCovered(p, list, i)
      BY <2>1, <2>2, <2>3, <2>4, <3>1, <3>5, <3>6, FirstEntryIs
    <3> QED
      BY <3>2, <3>7 DEF LeadsOrCovered
  <2> QED
    BY <2>5, <2>7, <2>8
<1> QED
  BY <1>1, InvHolds, PTL

-----------------------------------------------------------------------------
(* The tree's calls. *)

LEMMA SameTree ==
  ASSUME MapIs, MapIs', UNCHANGED <<nodes, mnts>>
  PROVE  UNCHANGED <<treeOfNodes, mountedPaths>>
BY DEF MapIs, looks

LEMMA FailedCall ==
  ASSUME MapIs, MapIs', Fails
  PROVE  /\ Taken("create") => Tree!Create
         /\ Taken("mount") => Tree!Mount
         /\ Taken("write") => Tree!Write
         /\ Taken("read") => Tree!Read
         /\ Taken("readdir") => Tree!ReadDir
<1>1. \/ Tree!Hangs(call[2]) /\ status' = "hung" /\ UNCHANGED <<treeOfNodes, mountedPaths>>
      \/ /\ ~ Tree!Hangs(call[2]) /\ ~ Tree!Found(call[2])
         /\ UNCHANGED <<treeOfNodes, mountedPaths, status>>
  BY SameTree DEF Fails
<1>2. ASSUME NEW f, Taken(f)
      PROVE  call # Tree!NoCall /\ call[1] = f /\ status = "ok" /\ call' = Tree!NoCall
  BY <1>2 DEF Taken, NoCall, Tree!NoCall
<1>3. Taken("create") => Tree!Create
  BY <1>1, <1>2 DEF Tree!Create, Tree!Serve, Tree!Same
<1>4. Taken("mount") => Tree!Mount
  BY <1>1, <1>2 DEF Tree!Mount, Tree!Serve, Tree!Same
<1>5. Taken("write") => Tree!Write
  BY <1>1, <1>2 DEF Tree!Write, Tree!Access, Tree!Serve, Tree!Same
<1>6. Taken("read") => Tree!Read
  BY <1>1, <1>2 DEF Tree!Read, Tree!Access, Tree!Serve, Tree!Same
<1>7. Taken("readdir") => Tree!ReadDir
  BY <1>1, <1>2 DEF Tree!ReadDir, Tree!Serve, Tree!Same
<1> QED
  BY <1>3, <1>4, <1>5, <1>6, <1>7

PathsOf(E, new) == \A r : r \in new <=> r \in Paths /\ \E n : <<r, n>> \in E
RootsOf(E, nt, roots) ==
  \A r : r \in roots <=> r \in Paths /\ \E n : <<r, n>> \in E /\ IsRoot(nt, n)

\* The tree's own words for that.
LEMMA GraftIs ==
  ASSUME Sound(nodes, mnts), NEW q \in Paths, NEW E, NEW entry, NEW nt, NEW U, NEW mountedU,
         Regrafted(treeOfNodes, mountedPaths, U, mountedU, nt, q, E, entry),
         NEW new, PathsOf(E, new), NEW roots, RootsOf(E, nt, roots)
  PROVE  /\ U = Tree!Grafted(q, new, entry)
         /\ mountedU = (mountedPaths \ Tree!Under(q)) \cup roots
<1>1. DOMAIN treeOfNodes \subseteq Paths /\ mountedPaths \subseteq DOMAIN treeOfNodes
  BY TreeHas
<1>2. Tree!Under(q) = {r \in DOMAIN treeOfNodes : Below(q, r)}
  BY <1>1, UnderIs
<1>3. DOMAIN treeOfNodes \ Tree!Under(q) = {r \in DOMAIN treeOfNodes : ~ Below(q, r)}
  BY <1>2
<1>4. mountedPaths \ Tree!Under(q) = {r \in mountedPaths : ~ Below(q, r)}
  BY <1>1, <1>2
<1>5. new = {r \in Paths : \E n : <<r, n>> \in E}
  BY DEF PathsOf
<1>6. roots = {r \in Paths : \E n : <<r, n>> \in E /\ IsRoot(nt, n)}
  BY DEF RootsOf
<1>7. U = [r \in new \cup (DOMAIN treeOfNodes \ Tree!Under(q)) |->
             IF r \in new THEN entry ELSE treeOfNodes[r]]
  BY <1>3, <1>5 DEF Regrafted
<1>8. mountedU = (mountedPaths \ Tree!Under(q)) \cup roots
  BY <1>4, <1>6 DEF Regrafted
<1> QED
  BY <1>7, <1>8 DEF Tree!Grafted

LEMMA TreeInitIs == Init /\ MapIs => Tree!TreeInit
<1> SUFFICES ASSUME Init, MapIs PROVE Tree!TreeInit
  OBVIOUS
<1>1. nodes = FirstNodes /\ mnts = FirstMounts
  BY DEF Init, FirstNodes, FirstMounts, FsMnt
<1>2. \A p, n : Leads(looks, p, n) <=> p = <<>> /\ n = 2
  BY <1>1, FirstSound DEF looks
<1>3. nodes[2].type = "dir" /\ nodes[2].data = <<>> /\ IsRoot(mnts, 2)
  BY <1>1, FirstSound
<1>4. looks \in Graphs
  BY <1>1, FirstSound, LooksSound DEF Sound, looks
<1>5. <<>> \in Paths
  BY DEF Paths
<1>6. treeOfNodes = [p \in {<<>>} |-> Tree!Directory]
  <2> DEFINE T == Shown(looks, nodes)
  <2>1. DOMAIN T = {<<>>}
    BY <1>2, <1>4, <1>5, ShownDomain
  <2>2. T[<<>>] = Tree!Directory
    <3>1. Leads(looks, <<>>, 2)
      BY <1>2
    <3>2. T[<<>>] = Entry(nodes, 2)
      BY <1>4, <3>1, ShownEntry
    <3> QED
      BY <1>3, <3>2 DEF Entry, Tree!Directory
  <2>3. T = [p \in DOMAIN T |-> T[p]]
    BY DEF Shown
  <2> HIDE DEF T
  <2>4. T = [p \in {<<>>} |-> Tree!Directory]
    BY <2>1, <2>2, <2>3
  <2> QED
    BY <2>4 DEF MapIs, T
<1>7. mountedPaths = {<<>>}
  BY <1>2, <1>3, <1>5 DEF MapIs, ShownMounts
<1> QED
  BY <1>6, <1>7 DEF Init, Tree!TreeInit, NoCall, Tree!NoCall

\* What leads somewhere is a node.
LEMMA GraphFacts ==
  ASSUME NEW ns, NEW mt, Sound(ns, mt)
  PROVE  LET L == LooksOf(ns, mt)
         IN  /\ L \in Graphs /\ Rising(L) /\ Separate(L)
             /\ Len(ns) \in Nat /\ Len(ns) >= 2
             /\ \A k \in Nat, b \in Texts : L[<<k, b>>] \in Nat /\ L[<<k, b>>] <= Len(ns)
<1>1. NodesSound(ns) /\ MountsSound(ns, mt) /\ Separate(LooksOf(ns, mt))
  BY DEF Sound
<1>2. Len(ns) \in Nat /\ Len(ns) >= 2
  BY <1>1 DEF NodesSound
<1>3. \A k \in Nat, b \in Texts : LooksOf(ns, mt)[<<k, b>>] \in 0 .. Len(ns)
  BY <1>1, LooksSound
<1> QED
  BY <1>1, <1>2, <1>3, LooksSound

\* One new entry under a directory.
LEMMA FileGrafts ==
  ASSUME Sound(nodes, mnts), NEW p, NEW n, Leads(looks, p, n), nodes[n].type = "dir",
         NEW kept \in Texts, nodes' = WithFile(nodes, n, kept), UNCHANGED mnts,
         MapIs, MapIs'
  PROVE  LET q == Append(p, kept)
         IN  /\ treeOfNodes' = Tree!Grafted(q, {q}, Tree!NewFile)
             /\ mountedPaths' = mountedPaths \ Tree!Under(q)
<1> DEFINE N == Len(nodes)
           ms == WithFile(nodes, n, kept)
           L == LooksOf(nodes, mnts)
           M == LooksOf(ms, mnts)
           q == Append(p, kept)
           E == {<<q, N + 1>>}
<1>1. n \in 2 .. N /\ p \in Paths
  BY TreeHas
<1>2. /\ Sound(ms, mnts) /\ Edited(L, M, N, n, kept)
      /\ \A k \in Nat, b \in Texts : k > N => M[<<k, b>>] = Null
      /\ M[<<n, kept>>] = N + 1
  BY <1>1, FileAdded
<1>3. /\ L \in Graphs /\ Rising(L) /\ Separate(L) /\ N \in Nat /\ N >= 2
      /\ \A k \in Nat, b \in Texts : L[<<k, b>>] \in Nat /\ L[<<k, b>>] <= N
  BY GraphFacts
<1>4. M \in Graphs
  BY <1>2, GraphFacts
<1>5. q \in Paths /\ Len(q) = Len(p) + 1 /\ Len(p) \in Nat
  BY <1>1, Appended
<1>6. nodes \in Seq(Records) /\ n \in 1 .. N /\ n \in Nat
  BY <1>1, <1>3 DEF Sound, NodesSound
<1>7. /\ ms[N + 1] = Node("file", kept)
      /\ \A k \in 1 .. N : ms[k].type = nodes[k].type /\ ms[k].data = nodes[k].data
  BY <1>6, WithFileShape
<1>8. looks = L /\ looks' = M
  BY DEF looks
<1>9. MapIs /\ treeOfNodes' = Shown(M, ms) /\ mountedPaths' = ShownMounts(M, mnts)
  BY <1>8 DEF MapIs
<1>10. Leads(L, p, n)
  BY <1>8
<1> HIDE DEF ms, L, M, q, N
<1>11. Continued(M, E, n, p, kept)
  <2>1. E \subseteq Paths \X Nat
    BY <1>3, <1>5
  <2>2. \A x : <<q, x>> \in E <=> x = M[<<n, kept>>] /\ x # Null
    BY <1>2, <1>3 DEF Null
  <2>3. ASSUME NEW r \in Paths, NEW b \in Texts, Below(q, r), NEW x
        PROVE  <<Append(r, b), x>> \in E
                 <=> \E k \in Nat : <<r, k>> \in E /\ x = M[<<k, b>>] /\ x # Null
    <3>1. Append(r, b) # q
      <4>1. Len(Append(r, b)) = Len(r) + 1 /\ Len(r) \in Nat
        BY Appended
      <4>2. Len(q) <= Len(r)
        BY <2>3 DEF Below
      <4> QED
        BY <1>5, <4>1, <4>2
    <3>2. <<Append(r, b), x>> \notin E
      BY <3>1
    <3>3. \A k \in Nat : <<r, k>> \in E => M[<<k, b>>] = Null
      BY <1>2, <1>3
    <3> QED
      BY <3>2, <3>3
  <2> QED
    BY <2>1, <2>2, <2>3 DEF Continued, q
<1>12. Replaced(L, M, q, E)
  <2>1. \A k \in Nat, b \in Texts : L[<<k, b>>] <= N
    BY <1>3
  <2> HIDE DEF E
  <2>2. \A r \in Paths : \A x :
          Leads(M, r, x) <=> IF Below(Append(p, kept), r) THEN <<r, x>> \in E ELSE Leads(L, r, x)
    BY <1>1, <1>2, <1>3, <1>4, <1>10, <1>11, <2>1, Graft
  <2> QED
    BY <2>2 DEF Replaced, q
<1>13. ASSUME NEW r, NEW x, Leads(L, r, x)
       PROVE  Entry(ms, x) = Entry(nodes, x) /\ (IsRoot(mnts, x) <=> IsRoot(mnts, x))
  <2>1. x \in 2 .. N
    BY <1>8, <1>13, TreeHas DEF N
  <2>2. x \in 1 .. N
    BY <1>3, <2>1
  <2> QED
    BY <1>7, <2>2 DEF Entry
<1>14. Entry(ms, N + 1) = Tree!NewFile
  <2>1. /\ Node("file", kept).type = "file"
        /\ Node("file", kept).data = [b \in 0 .. FileSize - 1 |-> 0]
    BY NewNode
  <2> QED
    BY <1>7, <2>1 DEF Entry, Tree!NewFile
<1>15. ASSUME NEW r, NEW x, <<r, x>> \in E
       PROVE  r \in Paths /\ Below(q, r) /\ Entry(ms, x) = Tree!NewFile
  <2>1. r = q /\ x = N + 1
    BY <1>15
  <2>2. Below(q, q)
    BY <1>5 DEF Below
  <2> QED
    BY <1>5, <1>14, <2>1, <2>2
<1>16. Regrafted(Shown(L, nodes), ShownMounts(L, mnts), Shown(M, ms), ShownMounts(M, mnts),
                 mnts, q, E, Tree!NewFile)
  <2> HIDE DEF E
  <2> QED
    BY <1>3, <1>4, <1>12, <1>13, <1>15, Regraft
<1>17. \A r : r \in {q} <=> r \in Paths /\ \E x : <<r, x>> \in E
  BY <1>5
<1>18. \A r : r \in {} <=> r \in Paths /\ \E x : <<r, x>> \in E /\ IsRoot(mnts, x)
  <2>1. ~ IsRoot(mnts, N + 1)
    <3>1. \A i \in DOMAIN mnts : mnts[i].root = Null
            \/ mnts[i].root \in mnts[i].mountpoint + 1 .. N
      BY DEF Sound, MountsSound, N
    <3>2. \A i \in DOMAIN mnts : mnts[i].root # N + 1
      BY <1>3, <3>1 DEF Null
    <3> QED
      BY <3>2 DEF IsRoot
  <2> QED
    BY <2>1
<1> HIDE DEF E
<1>19. Shown(L, nodes) = treeOfNodes /\ ShownMounts(L, mnts) = mountedPaths
  BY <1>8 DEF MapIs
<1>20. Regrafted(treeOfNodes, mountedPaths, treeOfNodes', mountedPaths', mnts, q, E, Tree!NewFile)
  BY <1>9, <1>16, <1>19
<1> DEFINE new == {q}
           roots == {}
<1>21. PathsOf(E, new) /\ RootsOf(E, mnts, roots)
  BY <1>17, <1>18 DEF PathsOf, RootsOf
<1> HIDE DEF new, roots
<1>22. /\ treeOfNodes' = Tree!Grafted(q, new, Tree!NewFile)
       /\ mountedPaths' = (mountedPaths \ Tree!Under(q)) \cup roots
  BY <1>5, <1>20, <1>21, GraftIs
<1> QED
  BY <1>22 DEF q, new, roots

LEMMA CreateStep ==
  ASSUME Inv, Inv', MapIs, MapIs', vfsCreate
  PROVE  Tree!Create
<1>1. Taken("create") /\ Sound(nodes, mnts) /\ Sound(nodes', mnts')
  BY CreateIs DEF Inv
<1>2. CASE Fails
  BY <1>1, <1>2, FailedCall
<1>3. ASSUME NEW n \in 2 .. Len(nodes), NEW kept \in KeptAs[call[3]], FoundAt(n),
             nodes' = WithFile(nodes, n, kept), UNCHANGED <<mnts, status>>
      PROVE  Tree!Create
  <2> DEFINE p == Tree!Names(call[2])
  <2>1. Leads(looks, p, n) /\ Tree!Found(call[2]) /\ p \in Paths
    BY <1>3 DEF FoundAt, Leads
  <2>2. kept \in Texts
    <3>1. call[3] \in DOMAIN KeptAs
      BY <1>1, CallsAssumption DEF Taken
    <3> QED
      BY <3>1, NamesAssumption DEF Texts
  <2>3. /\ Tree!IsDir(p) <=> nodes[n].type = "dir"
        /\ treeOfNodes[p].type = nodes[n].type
    BY <1>1, <2>1, DirIs
  <2>4. call # Tree!NoCall /\ call[1] = "create" /\ status = "ok" /\ call' = Tree!NoCall
    BY <1>1 DEF Taken, NoCall, Tree!NoCall
  <2>5. CASE nodes[n].type = "dir"
    <3> DEFINE q == Append(p, kept)
    <3>1. /\ treeOfNodes' = Tree!Grafted(q, {q}, Tree!NewFile)
          /\ mountedPaths' = mountedPaths \ Tree!Under(q)
      BY <1>1, <1>3, <2>1, <2>2, <2>5, FileGrafts
    <3> HIDE DEF p
    <3>2. /\ Tree!IsDir(p)
          /\ \E k \in KeptAs[call[3]] :
               LET x == Append(p, k)
               IN  /\ treeOfNodes' = Tree!Grafted(x, {x}, Tree!NewFile)
                   /\ mountedPaths' = mountedPaths \ Tree!Under(x)
          /\ UNCHANGED status
      BY <1>3, <2>3, <2>5, <3>1
    <3> QED
      BY <2>1, <2>4, <3>2 DEF Tree!Create, Tree!Serve, p
  <2>6. CASE nodes[n].type # "dir"
    <3>1. nodes[n].type = "file"
      BY <1>1, <2>6 DEF Sound, NodesSound
    <3> DEFINE N == Len(nodes)
               L == LooksOf(nodes, mnts)
               M == LooksOf(nodes', mnts)
    <3>2. Edited(L, M, N, n, kept) /\ M[<<n, kept>>] = Null /\ L[<<n, kept>>] = Null
      BY <1>1, <1>3, <2>2, <2>6, FileAdded
    <3>3. /\ L \in Graphs /\ N \in Nat /\ N >= 2
          /\ \A k \in Nat, b \in Texts : L[<<k, b>>] <= N
      BY <1>1, GraphFacts
    <3>4. M \in Graphs
      BY <1>1, <1>3, GraphFacts
    <3>5. looks = L /\ looks' = M
      BY <1>3 DEF looks
    <3>6. nodes \in Seq(Records) /\ n \in 1 .. N
      BY <1>1 DEF Sound, NodesSound
    <3>7. \A k \in 1 .. N : nodes'[k].type = nodes[k].type /\ nodes'[k].data = nodes[k].data
      BY <1>3, <2>2, <3>6, WithFileShape
    <3> HIDE DEF L, M
    <3>8. \A k \in 0 .. N, b \in Texts : M[<<k, b>>] = L[<<k, b>>]
      BY <3>2 DEF Edited
    <3>9. \A r \in Paths : \A x : Leads(M, r, x) <=> Leads(L, r, x)
      BY <3>3, <3>4, <3>8, SameLeads
    <3>10. ASSUME NEW r, NEW x, Leads(L, r, x)
           PROVE  Entry(nodes', x) = Entry(nodes, x) /\ (IsRoot(mnts', x) <=> IsRoot(mnts, x))
      <4>1. x \in 2 .. N
        BY <1>1, <3>5, <3>10, TreeHas
      <4>2. x \in 1 .. N
        BY <3>3, <4>1
      <4> QED
        BY <1>3, <3>7, <4>2 DEF Entry
    <3>11. Shown(M, nodes') = Shown(L, nodes) /\ ShownMounts(M, mnts') = ShownMounts(L, mnts)
      BY <3>3, <3>4, <3>9, <3>10, SameShown
    <3>12. UNCHANGED <<treeOfNodes, mountedPaths>>
      BY <3>5, <3>11 DEF MapIs
    <3> QED
      BY <1>3, <2>1, <2>3, <2>4, <3>1, <3>12 DEF Tree!Create, Tree!Serve, Tree!Same
  <2> QED
    BY <2>5, <2>6
<1> QED
  BY <1>2, <1>3, CreateIs

LEMMA RootAdded ==
  ASSUME NEW mt \in Seq(Mounts), NEW n \in Nat, NEW r \in Nat
  PROVE  \A x : IsRoot(WithMount(mt, n, r), x) <=> x = r \/ IsRoot(mt, x)
<1> DEFINE e == [mountpoint |-> n, root |-> r]
           nt == WithMount(mt, n, r)
<1>1. e \in Mounts /\ e.root = r
  BY DEF Mounts
<1>2. nt = <<e>> \o mt
  BY DEF WithMount
<1> HIDE DEF e, nt
<1>3. /\ Len(nt) = Len(mt) + 1 /\ nt[1] = e /\ Len(mt) \in Nat
      /\ \A i \in 1 .. Len(mt) : nt[i + 1] = mt[i]
      /\ DOMAIN nt = 1 .. Len(nt) /\ DOMAIN mt = 1 .. Len(mt)
  BY <1>1, <1>2
<1>4. ASSUME NEW x, IsRoot(nt, x) PROVE x = r \/ IsRoot(mt, x)
  <2>1. PICK i \in 1 .. Len(mt) + 1 : nt[i].root = x
    BY <1>3, <1>4 DEF IsRoot
  <2>2. CASE i = 1
    BY <1>1, <1>3, <2>1, <2>2
  <2>3. CASE i # 1
    <3>1. i - 1 \in 1 .. Len(mt) /\ (i - 1) + 1 = i
      BY <1>3, <2>1, <2>3
    <3>2. mt[i - 1].root = x
      BY <1>3, <2>1, <3>1
    <3> QED
      BY <1>3, <3>1, <3>2 DEF IsRoot
  <2> QED
    BY <2>2, <2>3
<1>5. ASSUME NEW x, IsRoot(mt, x) PROVE IsRoot(nt, x)
  <2>1. PICK i \in 1 .. Len(mt) : mt[i].root = x
    BY <1>3, <1>5 DEF IsRoot
  <2>2. i + 1 \in DOMAIN nt /\ nt[i + 1].root = x
    BY <1>3, <2>1
  <2> QED
    BY <2>2 DEF IsRoot
<1>6. IsRoot(nt, r)
  <2>1. 1 \in DOMAIN nt /\ nt[1].root = r
    BY <1>1, <1>3
  <2> QED
    BY <2>1 DEF IsRoot
<1> QED
  BY <1>4, <1>5, <1>6 DEF nt

\* A mount hides what is below its path, and the path itself if its type is
\* unknown.
LEMMA MountGrafts ==
  ASSUME Sound(nodes, mnts), NEW p, NEW n, Leads(looks, p, n), ~ IsRoot(mnts, n), NEW type,
         nodes' = NodesAfter(nodes, type),
         mnts' = WithMount(mnts, n, RootAfter(nodes, type)),
         MapIs, MapIs'
  PROVE  /\ treeOfNodes' =
              Tree!Grafted(p, IF type = "tmp" THEN {p, Append(p, "dev")} ELSE {}, Tree!Directory)
         /\ mountedPaths' = (mountedPaths \ Tree!Under(p)) \cup (IF type = "tmp" THEN {p} ELSE {})
<1> DEFINE N == Len(nodes)
           ms == NodesAfter(nodes, type)
           nt == WithMount(mnts, n, RootAfter(nodes, type))
           L == LooksOf(nodes, mnts)
           M == LooksOf(ms, nt)
           d == Append(p, "dev")
           E == IF type = "tmp" THEN {<<p, N + 1>>, <<d, N + 2>>} ELSE {}
           new == IF type = "tmp" THEN {p, d} ELSE {}
           roots == IF type = "tmp" THEN {p} ELSE {}
<1>1. n \in 2 .. N /\ p \in Paths /\ "dev" \in Texts
  BY TreeHas DEF Texts
<1>2. PICK q \in Paths, a \in Texts : \E m \in Nat :
        p = Append(q, a) /\ Leads(L, q, m) /\ L[<<m, a>>] = n
  <2>1. \E q \in Paths, a \in Texts : \E m \in Nat :
          p = Append(q, a) /\ Leads(looks, q, m) /\ looks[<<m, a>>] = n
    BY EdgeOrRoot
  <2> QED
    BY <2>1 DEF looks
<1>3. PICK m \in Nat : p = Append(q, a) /\ Leads(L, q, m) /\ L[<<m, a>>] = n
  BY <1>2
<1>4. /\ Sound(ms, nt)
      /\ Edited(L, M, N, m, a) /\ M[<<m, a>>] = RootAfter(nodes, type)
      /\ NewLooks(M, N, type)
  BY <1>1, <1>3, MountAdded
<1>5. /\ L \in Graphs /\ Rising(L) /\ Separate(L) /\ N \in Nat /\ N >= 2
      /\ \A k \in Nat, b \in Texts : L[<<k, b>>] \in Nat /\ L[<<k, b>>] <= N
  BY GraphFacts
<1>6. M \in Graphs
  BY <1>4, GraphFacts
<1>7. /\ d \in Paths /\ Len(d) = Len(p) + 1 /\ Len(p) \in Nat
      /\ Below(p, d) /\ Below(p, p)
  <2>1. d \in Paths /\ Len(d) = Len(p) + 1 /\ Len(p) \in Nat
        /\ \A i \in 1 .. Len(p) : d[i] = p[i]
    BY <1>1, Appended
  <2> HIDE DEF d
  <2> QED
    BY <2>1 DEF Below
<1>8. nodes \in Seq(Records)
  BY DEF Sound, NodesSound
<1>9. /\ \A k \in 1 .. N : ms[k] = nodes[k]
      /\ type = "tmp" => /\ ms[N + 1].type = "dir" /\ ms[N + 1].data = <<>>
                         /\ ms[N + 2].type = "dir" /\ ms[N + 2].data = <<>>
  <2>1. CASE type = "tmp"
    <3>1. ms = tmpfsMount(nodes)
      BY <2>1 DEF NodesAfter
    <3> HIDE DEF ms
    <3>2. /\ \A k \in 1 .. N : ms[k] = nodes[k]
          /\ ms[N + 1].type = "dir" /\ ms[N + 1].data = <<>>
          /\ ms[N + 2] = Node("dir", "dev")
      BY <1>8, <3>1, RootShape
    <3>3. Node("dir", "dev").type = "dir" /\ Node("dir", "dev").data = <<>>
      BY <1>1, NewNode
    <3> QED
      BY <3>2, <3>3
  <2>2. CASE type # "tmp"
    BY <2>2 DEF NodesAfter
  <2> QED
    BY <2>1, <2>2
<1>10. /\ type = "tmp" => RootAfter(nodes, type) = N + 1
       /\ type # "tmp" => RootAfter(nodes, type) = Null
  BY DEF RootAfter
<1>11. looks = L /\ looks' = M
  BY DEF looks
<1>12. treeOfNodes' = Shown(M, ms) /\ mountedPaths' = ShownMounts(M, nt)
  BY <1>11 DEF MapIs
<1>13. Shown(L, nodes) = treeOfNodes /\ ShownMounts(L, mnts) = mountedPaths
  BY <1>11 DEF MapIs
<1>14. \A x : IsRoot(nt, x) <=> x = RootAfter(nodes, type) \/ IsRoot(mnts, x)
  <2>1. RootAfter(nodes, type) \in Nat
    BY <1>5, <1>10 DEF Null
  <2>2. n \in Nat /\ mnts \in Seq(Mounts)
    BY <1>1, <1>5 DEF Sound, MountsSound
  <2> QED
    BY <2>1, <2>2, RootAdded
<1>15. \A x : IsRoot(mnts, x) => x = Null \/ x <= N
  <2>1. /\ \A i \in DOMAIN mnts : mnts[i].root = Null
             \/ mnts[i].root \in mnts[i].mountpoint + 1 .. N
    BY DEF Sound, MountsSound
  <2> QED
    BY <2>1 DEF IsRoot
<1> HIDE DEF ms, nt, L, M, d, N
<1>16. /\ E \subseteq Paths \X Nat
       /\ \A x : <<p, x>> \in E <=> type = "tmp" /\ x = N + 1
       /\ \A x : <<d, x>> \in E <=> type = "tmp" /\ x = N + 2
       /\ \A r, x : <<r, x>> \in E =>
            type = "tmp" /\ ((r = p /\ x = N + 1) \/ (r = d /\ x = N + 2))
  <2>1. p # d /\ N + 1 \in Nat /\ N + 2 \in Nat
    BY <1>5, <1>7
  <2>2. CASE type = "tmp"
    <3>1. E = {<<p, N + 1>>, <<d, N + 2>>}
      BY <2>2
    <3>2. E \subseteq Paths \X Nat
      BY <1>1, <1>7, <2>1, <3>1
    <3>3. ASSUME NEW r, NEW x
          PROVE  <<r, x>> \in E <=> (r = p /\ x = N + 1) \/ (r = d /\ x = N + 2)
      <4> DEFINE y == N + 1
                 z == N + 2
      <4>1. E = {<<p, y>>, <<d, z>>}
        BY <3>1
      <4> HIDE DEF E, y, z
      <4>2. <<r, x>> \in E <=> (<<r, x>> = <<p, y>> \/ <<r, x>> = <<d, z>>)
        BY <4>1
      <4>3. <<r, x>> \in E <=> (r = p /\ x = y) \/ (r = d /\ x = z)
        BY <4>2
      <4> QED
        BY <4>3 DEF y, z
    <3> HIDE DEF E
    <3>4. /\ \A x : <<p, x>> \in E <=> x = N + 1
          /\ \A x : <<d, x>> \in E <=> x = N + 2
      BY <2>1, <3>3
    <3>5. \A r, x : <<r, x>> \in E => (r = p /\ x = N + 1) \/ (r = d /\ x = N + 2)
      BY <3>3
    <3> QED
      BY <2>2, <3>2, <3>4, <3>5
  <2>3. CASE type # "tmp"
    BY <2>3
  <2> QED
    BY <2>2, <2>3
<1>17. PathsOf(E, new) /\ RootsOf(E, nt, roots)
  <2>1. ~ IsRoot(mnts, N + 1) /\ ~ IsRoot(mnts, N + 2)
    BY <1>5, <1>15 DEF Null
  <2>2. type = "tmp" => IsRoot(nt, N + 1) /\ ~ IsRoot(nt, N + 2)
    BY <1>5, <1>10, <1>14, <2>1
  <2> HIDE DEF E
  <2>3. PathsOf(E, new)
    BY <1>1, <1>7, <1>16 DEF PathsOf
  <2>4. RootsOf(E, nt, roots)
    BY <1>1, <1>16, <2>2 DEF RootsOf
  <2> QED
    BY <2>3, <2>4
<1> HIDE DEF E, new, roots
<1>18. Continued(M, E, m, q, a)
  <2>1. \A x : <<p, x>> \in E <=> x = M[<<m, a>>] /\ x # Null
    BY <1>4, <1>5, <1>10, <1>16 DEF Null
  <2>2. ASSUME NEW r \in Paths, NEW b \in Texts, Below(p, r), NEW x
        PROVE  <<Append(r, b), x>> \in E
                 <=> \E k \in Nat : <<r, k>> \in E /\ x = M[<<k, b>>] /\ x # Null
    <3>1. Append(r, b) # p
      <4>1. Len(Append(r, b)) = Len(r) + 1 /\ Len(r) \in Nat
        BY Appended
      <4>2. Len(p) <= Len(r)
        BY <2>2 DEF Below
      <4> QED
        BY <1>7, <4>1, <4>2
    <3>2. ASSUME <<Append(r, b), x>> \in E
          PROVE  \E k \in Nat : <<r, k>> \in E /\ x = M[<<k, b>>] /\ x # Null
      <4>1. type = "tmp" /\ Append(r, b) = d /\ x = N + 2
        BY <1>16, <3>1, <3>2
      <4>2. r = p /\ b = "dev"
        BY <1>1, <4>1, AppendedSame DEF d
      <4>3. <<r, N + 1>> \in E
        BY <1>16, <4>1, <4>2
      <4>4. M[<<N + 1, b>>] = N + 2 /\ N + 2 # Null /\ N + 1 \in Nat
        BY <1>1, <1>4, <1>5, <4>1, <4>2 DEF Null, NewLooks
      <4> QED
        BY <4>1, <4>3, <4>4
    <3>3. ASSUME NEW k \in Nat, <<r, k>> \in E, x = M[<<k, b>>], x # Null
          PROVE  <<Append(r, b), x>> \in E
      <4>1. type = "tmp" /\ ((r = p /\ k = N + 1) \/ (r = d /\ k = N + 2))
        BY <1>16, <3>3
      <4>2. k > N
        BY <1>5, <4>1
      <4>3. k = N + 1 /\ b = "dev" /\ x = N + 2
        BY <1>4, <3>3, <4>1, <4>2 DEF NewLooks
      <4>4. r = p
        BY <1>5, <4>1, <4>3
      <4>5. Append(r, b) = d
        BY <4>3, <4>4 DEF d
      <4> QED
        BY <1>16, <4>1, <4>3, <4>5
    <3> QED
      BY <3>2, <3>3
  <2> QED
    BY <1>3, <1>16, <2>1, <2>2 DEF Continued
<1>19. Replaced(L, M, p, E)
  <2>1. \A k \in Nat, b \in Texts : L[<<k, b>>] <= N
    BY <1>5
  <2>2. \A r \in Paths : \A x :
          Leads(M, r, x) <=> IF Below(Append(q, a), r) THEN <<r, x>> \in E ELSE Leads(L, r, x)
    BY <1>3, <1>4, <1>5, <1>6, <1>18, <2>1, Graft
  <2> QED
    BY <1>3, <2>2 DEF Replaced
<1>20. ASSUME NEW r, NEW x, Leads(L, r, x)
       PROVE  Entry(ms, x) = Entry(nodes, x) /\ (IsRoot(nt, x) <=> IsRoot(mnts, x))
  <2>1. x \in 2 .. N
    BY <1>11, <1>20, TreeHas DEF N
  <2>2. x \in 1 .. N /\ x # RootAfter(nodes, type)
    BY <1>5, <1>10, <2>1 DEF Null
  <2> QED
    BY <1>9, <1>14, <2>2 DEF Entry
<1>21. ASSUME NEW r, NEW x, <<r, x>> \in E
       PROVE  r \in Paths /\ Below(p, r) /\ Entry(ms, x) = Tree!Directory
  <2>1. type = "tmp" /\ ((r = p /\ x = N + 1) \/ (r = d /\ x = N + 2))
    BY <1>16, <1>21
  <2>2. Entry(ms, N + 1) = Tree!Directory /\ Entry(ms, N + 2) = Tree!Directory
    BY <1>9, <2>1 DEF Entry, Tree!Directory
  <2> QED
    BY <1>1, <1>7, <2>1, <2>2
<1>22. Regrafted(Shown(L, nodes), ShownMounts(L, mnts), Shown(M, ms), ShownMounts(M, nt),
                 nt, p, E, Tree!Directory)
  BY <1>5, <1>6, <1>19, <1>20, <1>21, Regraft
<1>23. Regrafted(treeOfNodes, mountedPaths, treeOfNodes', mountedPaths', nt, p, E, Tree!Directory)
  BY <1>12, <1>13, <1>22
<1>24. /\ treeOfNodes' = Tree!Grafted(p, new, Tree!Directory)
       /\ mountedPaths' = (mountedPaths \ Tree!Under(p)) \cup roots
  BY <1>1, <1>17, <1>23, GraftIs
<1> QED
  BY <1>24 DEF new, roots, d

\* A second mount is below the first one.
LEMMA MountBelow ==
  ASSUME Sound(nodes, mnts), NEW n \in 2 .. Len(nodes), IsRoot(mnts, n), NEW type,
         nodes' = NodesAfter(nodes, type),
         mnts' = WithMount(mnts, n, RootAfter(nodes, type)),
         MapIs, MapIs'
  PROVE  UNCHANGED <<treeOfNodes, mountedPaths>>
<1> DEFINE N == Len(nodes)
           ms == NodesAfter(nodes, type)
           r == RootAfter(nodes, type)
           nt == WithMount(mnts, n, r)
           L == LooksOf(nodes, mnts)
           M == LooksOf(ms, nt)
<1>1. /\ L \in Graphs /\ N \in Nat /\ N >= 2
      /\ \A k \in Nat, b \in Texts : L[<<k, b>>] \in Nat /\ L[<<k, b>>] <= N
  BY GraphFacts
<1>2. Sound(ms, nt) /\ Agree(L, M, N)
  <2>1. "dev" \in Texts /\ 0 \in Nat
    BY DEF Texts
  <2> QED
    BY <2>1, MountAdded
<1>3. M \in Graphs
  BY <1>2, GraphFacts
<1>4. \A k \in 1 .. N : ms[k] = nodes[k]
  <2>1. nodes \in Seq(Records)
    BY DEF Sound, NodesSound
  <2>2. CASE type = "tmp"
    BY <2>1, <2>2, RootShape DEF NodesAfter
  <2>3. CASE type # "tmp"
    BY <2>3 DEF NodesAfter
  <2> QED
    BY <2>2, <2>3
<1>5. r \in Nat /\ (r = Null \/ r > N)
  BY <1>1 DEF RootAfter, Null
<1>6. \A x : IsRoot(nt, x) <=> x = r \/ IsRoot(mnts, x)
  <2>1. n \in Nat /\ mnts \in Seq(Mounts)
    BY <1>1 DEF Sound, MountsSound
  <2> HIDE DEF r
  <2> QED
    BY <1>5, <2>1, RootAdded
<1>7. looks = L /\ looks' = M
  BY DEF looks
<1>8. treeOfNodes' = Shown(M, ms) /\ mountedPaths' = ShownMounts(M, nt)
      /\ treeOfNodes = Shown(L, nodes) /\ mountedPaths = ShownMounts(L, mnts)
  BY <1>7 DEF MapIs
<1> HIDE DEF ms, nt, L, M, r
<1>9. \A p \in Paths : \A x : Leads(M, p, x) <=> Leads(L, p, x)
  <2>1. \A k \in Nat, b \in Texts : L[<<k, b>>] <= N
    BY <1>1
  <2> QED
    BY <1>1, <1>2, <1>3, <2>1, SameLeads DEF Agree
<1>10. ASSUME NEW p, NEW x, Leads(L, p, x)
       PROVE  Entry(ms, x) = Entry(nodes, x) /\ (IsRoot(nt, x) <=> IsRoot(mnts, x))
  <2>1. x \in 2 .. N
    BY <1>7, <1>10, TreeHas
  <2>2. x \in 1 .. N /\ x # r
    BY <1>1, <1>5, <2>1 DEF Null
  <2> QED
    BY <1>4, <1>6, <2>2 DEF Entry
<1>11. Shown(M, ms) = Shown(L, nodes) /\ ShownMounts(M, nt) = ShownMounts(L, mnts)
  BY <1>1, <1>3, <1>9, <1>10, SameShown
<1> QED
  BY <1>8, <1>11

LEMMA MountStep ==
  ASSUME Inv, Inv', MapIs, MapIs', vfsMount
  PROVE  Tree!Mount
<1>1. Taken("mount") /\ Sound(nodes, mnts)
  BY MountIs DEF Inv
<1>2. CASE Fails
  BY <1>1, <1>2, FailedCall
<1>3. ASSUME NEW n \in 2 .. Len(nodes), FoundAt(n),
             nodes' = NodesAfter(nodes, call[3]),
             mnts' = WithMount(mnts, n, RootAfter(nodes, call[3])),
             UNCHANGED status
      PROVE  Tree!Mount
  <2> DEFINE p == Tree!Names(call[2])
  <2>1. Leads(looks, p, n) /\ Tree!Found(call[2]) /\ p \in Paths
    BY <1>3 DEF FoundAt, Leads
  <2>2. call # Tree!NoCall /\ call[1] = "mount" /\ status = "ok" /\ call' = Tree!NoCall
    BY <1>1 DEF Taken, NoCall, Tree!NoCall
  <2>3. p \in mountedPaths <=> IsRoot(mnts, n)
    <3>1. looks \in Graphs
      BY <1>1, GraphFacts DEF looks
    <3>2. \A m : Leads(looks, p, m) => m = n
      BY <2>1, <3>1, LeadsUnique
    <3> QED
      BY <1>1, <2>1, <3>2, TreeHas
  <2>4. CASE IsRoot(mnts, n)
    <3>1. UNCHANGED <<treeOfNodes, mountedPaths>>
      BY <1>1, <1>3, <2>4, MountBelow
    <3> HIDE DEF p
    <3>2. p \in mountedPaths /\ Tree!Same
      BY <1>3, <2>3, <2>4, <3>1 DEF Tree!Same
    <3> QED
      BY <2>1, <2>2, <3>2 DEF Tree!Mount, Tree!Serve, p
  <2>5. CASE ~ IsRoot(mnts, n)
    <3> HIDE DEF p
    <3>1. /\ treeOfNodes' = Tree!Grafted(p, IF call[3] = "tmp" THEN {p, Append(p, "dev")} ELSE {},
                                         Tree!Directory)
          /\ mountedPaths' = (mountedPaths \ Tree!Under(p)) \cup (IF call[3] = "tmp" THEN {p} ELSE {})
      BY <1>1, <1>3, <2>1, <2>5, MountGrafts
    <3>2. p \notin mountedPaths
      BY <2>3, <2>5
    <3> QED
      BY <1>3, <2>1, <2>2, <3>1, <3>2 DEF Tree!Mount, Tree!Serve, p
  <2> QED
    BY <2>4, <2>5
<1> QED
  BY <1>2, <1>3, MountIs

\* A file has one path.
LEMMA WriteShows ==
  ASSUME Sound(nodes, mnts), NEW p, NEW n \in 2 .. Len(nodes), Leads(looks, p, n),
         nodes[n].type # "dir", NEW extent,
         nodes' = Overwritten(nodes, n, extent), UNCHANGED mnts, MapIs, MapIs'
  PROVE  /\ treeOfNodes' = [treeOfNodes EXCEPT ![p].data =
                              [b \in DOMAIN @ |-> IF b \in extent THEN Tree!Byte ELSE @[b]]]
         /\ UNCHANGED mountedPaths
<1> DEFINE ms == Overwritten(nodes, n, extent)
           L == LooksOf(nodes, mnts)
           T == Shown(L, nodes)
           U == Shown(L, ms)
<1>1. Sound(ms, mnts) /\ LooksOf(ms, mnts) = L
  BY Rewritten
<1>2. /\ L \in Graphs /\ Rising(L) /\ Separate(L) /\ Len(nodes) \in Nat
  BY GraphFacts
<1>3. looks = L /\ looks' = L
  BY <1>1 DEF looks
<1>4. treeOfNodes = T /\ treeOfNodes' = U /\ UNCHANGED mountedPaths
  BY <1>3 DEF MapIs
<1>5. /\ \A k \in 1 .. Len(nodes) : /\ ms[k].type = nodes[k].type
                                    /\ k # n => ms[k].data = nodes[k].data
      /\ ms[n].data = NewData(nodes[n].data, extent)
  <2>1. nodes \in Seq(Records) /\ n \in 1 .. Len(nodes) /\ nodes[n].data \in Data
    BY <1>2 DEF Sound, NodesSound
  <2> QED
    BY <2>1, OverwrittenShape
<1>6. /\ DOMAIN T = {r \in Paths : \E k : Leads(L, r, k)}
      /\ DOMAIN U = {r \in Paths : \E k : Leads(L, r, k)}
  BY <1>2, ShownDomain
<1>7. ASSUME NEW r, NEW k, Leads(L, r, k)
      PROVE  T[r] = Entry(nodes, k) /\ U[r] = Entry(ms, k)
  BY <1>2, <1>7, ShownEntry
<1>8. T = [r \in DOMAIN T |-> T[r]] /\ U = [r \in DOMAIN U |-> U[r]]
  BY DEF Shown
<1>9. p \in Paths /\ Leads(L, p, n)
  BY <1>3 DEF Leads
<1> HIDE DEF ms, L, T, U
<1>10. p \in DOMAIN T /\ DOMAIN U = DOMAIN T
  BY <1>6, <1>9
<1>11. ASSUME NEW r \in DOMAIN T, r # p PROVE U[r] = T[r]
  <2>1. PICK k : Leads(L, r, k) /\ r \in Paths
    BY <1>6
  <2>2. k # n
    BY <1>2, <1>9, <1>11, <2>1, PathUnique
  <2>3. k \in 1 .. Len(nodes)
    <3>1. k \in 2 .. Len(nodes)
      BY <1>3, <2>1, TreeHas
    <3> QED
      BY <1>2, <3>1
  <2>4. Entry(ms, k) = Entry(nodes, k)
    BY <1>5, <2>2, <2>3 DEF Entry
  <2> QED
    BY <1>7, <2>1, <2>4
<1>12. U[p] = [T[p] EXCEPT !.data = NewData(T[p].data, extent)]
  <2>1. T[p] = Entry(nodes, n) /\ U[p] = Entry(ms, n)
    BY <1>7, <1>9
  <2>2. n \in 1 .. Len(nodes)
    BY <1>2
  <2>3. /\ Entry(ms, n) = [type |-> nodes[n].type, data |-> NewData(nodes[n].data, extent)]
    BY <1>5, <2>2 DEF Entry
  <2> DEFINE t == nodes[n].type
             x == nodes[n].data
  <2>4. /\ Entry(nodes, n) = [type |-> t, data |-> x]
        /\ Entry(ms, n) = [type |-> t, data |-> NewData(x, extent)]
    BY <2>3 DEF Entry
  <2> HIDE DEF t, x
  <2>5. T[p].data = x
    BY <2>1, <2>4
  <2> QED
    BY <2>1, <2>4, <2>5
<1>13. U = [T EXCEPT ![p] = [T[p] EXCEPT !.data = NewData(T[p].data, extent)]]
  <2> DEFINE e == [T[p] EXCEPT !.data = NewData(T[p].data, extent)]
  <2>1. U[p] = e
    BY <1>12
  <2> HIDE DEF e
  <2>2. U = [T EXCEPT ![p] = e]
    BY <1>8, <1>10, <1>11, <2>1
  <2> QED
    BY <2>2 DEF e
<1>14. U = [T EXCEPT ![p].data =
              [b \in DOMAIN @ |-> IF b \in extent THEN Tree!Byte ELSE @[b]]]
  <2>1. NewData(T[p].data, extent) =
          [b \in DOMAIN T[p].data |-> IF b \in extent THEN Tree!Byte ELSE T[p].data[b]]
    BY DEF NewData, Byte, Tree!Byte
  <2> QED
    BY <1>13, <2>1
<1> QED
  BY <1>4, <1>14

LEMMA AccessIs ==
  ASSUME Inv, NEW n \in 2 .. Len(nodes), NEW written, Accessed(n, written)
  PROVE  LET p == Tree!Names(call[2])
             pos == call[3][1]
             size == call[3][2]
         IN  /\ Tree!Found(call[2]) /\ Leads(looks, p, n) /\ UNCHANGED mnts
             /\ \/ Tree!Refused(p, pos, size) /\ UNCHANGED <<nodes, status>>
                \/ /\ ~ Tree!Refused(p, pos, size) /\ nodes[n].type # "dir"
                   /\ status' = IF size = 0 THEN "panicked"
                                ELSE IF pos + size < WordSize THEN "ok" ELSE "stray"
                   /\ nodes' = IF status' = "ok" THEN written ELSE nodes
<1> DEFINE p == Tree!Names(call[2])
           pos == call[3][1]
           size == call[3][2]
<1>1. Tree!Found(call[2]) /\ Leads(looks, p, n) /\ UNCHANGED mnts
  BY DEF Accessed, FoundAt
<1>2. Tree!IsDir(p) <=> nodes[n].type = "dir"
  BY <1>1, DirIs DEF Inv
<1>3. Tree!Refused(p, pos, size) <=> Refused(n, pos, size)
  BY <1>2 DEF Refused, Tree!Refused
<1>4. nodes[n].type = "dir" => Refused(n, pos, size)
  BY DEF Refused
<1> QED
  BY <1>1, <1>3, <1>4 DEF Accessed, Outcome

LEMMA WriteStep ==
  ASSUME Inv, Inv', MapIs, MapIs', vfsWrite
  PROVE  Tree!Write
<1>1. Taken("write") /\ Sound(nodes, mnts)
  BY WriteIs DEF Inv
<1>2. CASE Fails
  BY <1>1, <1>2, FailedCall
<1>3. ASSUME NEW n \in 2 .. Len(nodes), Accessed(n, Overwritten(nodes, n, Extent))
      PROVE  Tree!Write
  <2> DEFINE p == Tree!Names(call[2])
             pos == call[3][1]
             size == call[3][2]
             written == [treeOfNodes EXCEPT ![p].data =
                           [b \in DOMAIN @ |-> IF b \in pos .. pos + size - 1 THEN Tree!Byte ELSE @[b]]]
  <2>1. call # Tree!NoCall /\ call[1] = "write" /\ status = "ok" /\ call' = Tree!NoCall
    BY <1>1 DEF Taken, NoCall, Tree!NoCall
  <2>2. /\ Tree!Found(call[2]) /\ Leads(looks, p, n) /\ UNCHANGED mnts
        /\ \/ Tree!Refused(p, pos, size) /\ UNCHANGED <<nodes, status>>
           \/ /\ ~ Tree!Refused(p, pos, size) /\ nodes[n].type # "dir"
              /\ status' = IF size = 0 THEN "panicked"
                           ELSE IF pos + size < WordSize THEN "ok" ELSE "stray"
              /\ nodes' = IF status' = "ok" THEN Overwritten(nodes, n, Extent) ELSE nodes
    BY <1>3, AccessIs
  <2>3. UNCHANGED nodes => UNCHANGED <<treeOfNodes, mountedPaths>>
    BY <2>2, SameTree
  <2>4. ASSUME nodes' = Overwritten(nodes, n, Extent), nodes[n].type # "dir"
        PROVE  treeOfNodes' = written /\ UNCHANGED mountedPaths
    BY <1>1, <2>2, <2>4, WriteShows DEF Extent
  <2>5. \/ Tree!Refused(p, pos, size) /\ UNCHANGED <<treeOfNodes, mountedPaths, status>>
        \/ /\ ~ Tree!Refused(p, pos, size)
           /\ status' = IF size = 0 THEN "panicked"
                        ELSE IF pos + size < WordSize THEN "ok" ELSE "stray"
           /\ treeOfNodes' = IF status' = "ok" THEN written ELSE treeOfNodes
           /\ UNCHANGED mountedPaths
    <3> HIDE DEF p, written, pos, size
    <3> QED
      BY <2>2, <2>3, <2>4
  <2> QED
    BY <2>1, <2>2, <2>5 DEF Tree!Write, Tree!Access, Tree!Serve, Tree!Same
<1> QED
  BY <1>2, <1>3, WriteIs

LEMMA ReadStep ==
  ASSUME Inv, Inv', MapIs, MapIs', vfsRead
  PROVE  Tree!Read
<1>1. Taken("read") /\ Sound(nodes, mnts)
  BY ReadIs DEF Inv
<1>2. CASE Fails
  BY <1>1, <1>2, FailedCall
<1>3. ASSUME NEW n \in 2 .. Len(nodes), Accessed(n, nodes)
      PROVE  Tree!Read
  <2> DEFINE p == Tree!Names(call[2])
             pos == call[3][1]
             size == call[3][2]
  <2>1. call # Tree!NoCall /\ call[1] = "read" /\ status = "ok" /\ call' = Tree!NoCall
    BY <1>1 DEF Taken, NoCall, Tree!NoCall
  <2>2. /\ Tree!Found(call[2]) /\ UNCHANGED mnts
        /\ \/ Tree!Refused(p, pos, size) /\ UNCHANGED <<nodes, status>>
           \/ /\ ~ Tree!Refused(p, pos, size)
              /\ status' = IF size = 0 THEN "panicked"
                           ELSE IF pos + size < WordSize THEN "ok" ELSE "stray"
              /\ nodes' = IF status' = "ok" THEN nodes ELSE nodes
    BY <1>3, AccessIs
  <2>3. UNCHANGED <<treeOfNodes, mountedPaths>>
    BY <2>2, SameTree
  <2>4. treeOfNodes' = IF status' = "ok" THEN treeOfNodes ELSE treeOfNodes
    BY <2>3
  <2> QED
    BY <2>1, <2>2, <2>3, <2>4 DEF Tree!Read, Tree!Access, Tree!Serve, Tree!Same
<1> QED
  BY <1>2, <1>3, ReadIs

LEMMA ReadDirStep ==
  ASSUME Inv, Inv', MapIs, MapIs', vfsReadDir
  PROVE  Tree!ReadDir
<1>1. Taken("readdir") /\ Sound(nodes, mnts)
  BY ReadDirIs DEF Inv
<1>2. CASE Fails
  BY <1>1, <1>2, FailedCall
<1>3. ASSUME NEW n \in 2 .. Len(nodes), FoundAt(n), UNCHANGED <<nodes, mnts, status>>
      PROVE  Tree!ReadDir
  <2>1. call # Tree!NoCall /\ call[1] = "readdir" /\ status = "ok" /\ call' = Tree!NoCall
    BY <1>1 DEF Taken, NoCall, Tree!NoCall
  <2>2. Tree!Found(call[2])
    BY <1>3 DEF FoundAt
  <2>3. UNCHANGED <<treeOfNodes, mountedPaths, status>>
    BY <1>3, SameTree
  <2> QED
    BY <2>1, <2>2, <2>3 DEF Tree!ReadDir, Tree!Serve, Tree!Same
<1> QED
  BY <1>2, <1>3, ReadDirIs

LEMMA TreeStep ==
  ASSUME Inv, Inv', MapIs, MapIs', [Next]_vars
  PROVE  [Tree!TreeNext]_<<call, treeOfNodes, mountedPaths, status>>
<1>1. CASE UNCHANGED vars
  <2>1. UNCHANGED <<nodes, mnts, call, status>>
    BY <1>1 DEF vars
  <2> QED
    BY <2>1, SameTree
<1>2. CASE Request
  <2>1. UNCHANGED <<nodes, mnts, status>> /\ call = NoCall /\ call' \in Calls
    BY <1>2 DEF Request
  <2>2. UNCHANGED <<treeOfNodes, mountedPaths>>
    BY <2>1, SameTree
  <2>3. Tree!Request
    BY <2>1, <2>2 DEF Tree!Request, NoCall, Tree!NoCall
  <2> QED
    BY <2>3 DEF Tree!TreeNext
<1>3. CASE vfsCreate
  BY <1>3, CreateStep DEF Tree!TreeNext
<1>4. CASE vfsMount
  BY <1>4, MountStep DEF Tree!TreeNext
<1>5. CASE vfsWrite
  BY <1>5, WriteStep DEF Tree!TreeNext
<1>6. CASE vfsRead
  BY <1>6, ReadStep DEF Tree!TreeNext
<1>7. CASE vfsReadDir
  BY <1>7, ReadDirStep DEF Tree!TreeNext
<1> QED
  BY <1>1, <1>2, <1>3, <1>4, <1>5, <1>6, <1>7 DEF Next

\* The file system implements the tree: every call changes what lookups reach
\* exactly as the tree's own call changes the tree, and stops the kernel only
\* where the tree says that it may.
THEOREM TreeIsImplemented == Spec => ImplementsFileTree
<1>1. Inv => MapIs
  BY TreeIs DEF Inv
<1>2. Init /\ MapIs => Tree!TreeInit
  BY TreeInitIs
<1>3. Inv /\ Inv' /\ MapIs /\ MapIs' /\ [Next]_vars
        => [Tree!TreeNext]_<<call, treeOfNodes, mountedPaths, status>>
  BY TreeStep
<1>4. Spec => Tree!TreeInit /\ [][Tree!TreeNext]_<<call, treeOfNodes, mountedPaths, status>>
  BY <1>1, <1>2, <1>3, InvHolds, PTL DEF Spec
<1> QED
  BY <1>4 DEF ImplementsFileTree, Tree!TreeSpec
=============================================================================
