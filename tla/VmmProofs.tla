----------------------------- MODULE VmmProofs ------------------------------
(* Proofs about the page tables, for every number of CPUs, entries in a     *)
(* table, frames and pages, and runs of every length.                       *)
EXTENDS VmmRefinement, FiniteSetTheorems, TLAPS

-----------------------------------------------------------------------------
(* Indices.  The four digits of a page are all there is of it: two pages    *)
(* with the same tables and the same last index are the same page.          *)

LEMMA IndexInRange ==
  ASSUME NEW v \in Nat, NEW l \in 1 .. 4
  PROVE  IndexAt(v, l) \in Index
<1> USE FanoutAssumption
<1>1. ASSUME NEW a \in Nat PROVE a % Fanout \in Index
  BY DEF Index
<1>2. ASSUME NEW a \in Nat, NEW b \in Nat \ {0} PROVE a \div b \in Nat
  OBVIOUS
<1>3. Fanout * Fanout \in Nat \ {0}
  OBVIOUS
<1>4. Fanout * Fanout * Fanout \in Nat \ {0}
  BY <1>3
<1> QED
  BY <1>1, <1>2, <1>3, <1>4 DEF IndexAt

\* What quotient and remainder are.
LEMMA Division ==
  ASSUME NEW b \in Nat \ {0}, NEW v \in Nat
  PROVE  v \div b \in Nat /\ v % b \in 0 .. b - 1 /\ v = b * (v \div b) + (v % b)
  OBVIOUS

\* Quotient and remainder determine a number.
LEMMA QuotientRemainder ==
  ASSUME NEW b \in Nat \ {0}, NEW v \in Nat, NEW w \in Nat,
         v \div b = w \div b, v % b = w % b
  PROVE  v = w
<1>1. v = b * (v \div b) + (v % b)
  BY Division
<1>2. w = b * (w \div b) + (w % b)
  BY Division
<1> QED
  BY <1>1, <1>2

\* Two divisions are one by the product.
LEMMA QuotientOfQuotient ==
  ASSUME NEW b \in Nat \ {0}, NEW d \in Nat \ {0}, NEW v \in Nat
  PROVE  (v \div b) \div d = v \div (b * d)
<1> DEFINE q == v \div b
           r == v % b
           s == q \div d
           t == q % d
<1>1. q \in Nat /\ r \in 0 .. b - 1 /\ v = b * q + r
  BY Division
<1> HIDE DEF q, r
<1>2. s \in Nat /\ t \in 0 .. d - 1 /\ q = d * s + t
  BY <1>1, Division
<1> HIDE DEF s, t
<1>3. b * d \in Nat \ {0}
  OBVIOUS
<1>4. v = (b * d) * s + (b * t + r)
  BY <1>1, <1>2
<1>5. b * t + r \in 0 .. b * d - 1
  <2>1. t + 1 <= d /\ t \in Nat
    BY <1>2
  <2>2. b * (t + 1) <= b * d
    BY <2>1
  <2>3. b * (t + 1) = b * t + b /\ b * t \in Nat
    BY <2>1
  <2> QED
    BY <1>1, <1>3, <2>2, <2>3
<1>6. ASSUME NEW m \in Nat \ {0}, NEW x \in Nat, NEW y \in 0 .. m - 1
      PROVE  (m * x + y) \div m = x
  OBVIOUS
<1>7. v \div (b * d) = s
  <2> DEFINE m == b * d
             y == b * t + r
  <2>1. m \in Nat \ {0} /\ y \in 0 .. m - 1 /\ v = m * s + y
    BY <1>3, <1>4, <1>5
  <2> HIDE DEF m, y
  <2>2. v \div m = s
    BY <1>2, <1>6, <2>1
  <2> QED
    BY <2>2 DEF m
<1> QED
  BY <1>7 DEF s, q

LEMMA DigitsDetermine ==
  ASSUME NEW v \in Virts, NEW w \in Virts, \A l \in 1 .. 4 : IndexAt(v, l) = IndexAt(w, l)
  PROVE  v = w
<1> DEFINE F2 == Fanout * Fanout
           F3 == Fanout * Fanout * Fanout
           F4 == Fanout * Fanout * Fanout * Fanout
<1> USE FanoutAssumption
<1>1. F2 \in Nat \ {0}
  OBVIOUS
<1>2. F3 \in Nat \ {0}
  BY <1>1
<1>3. F4 \in Nat \ {0} /\ F4 = F3 * Fanout
  BY <1>2
<1>4. v \in Nat /\ w \in Nat /\ v < F4 /\ w < F4
  BY <1>3, VirtsAssumption
<1>5. /\ v % Fanout = w % Fanout
      /\ (v \div Fanout) % Fanout = (w \div Fanout) % Fanout
      /\ (v \div F2) % Fanout = (w \div F2) % Fanout
      /\ (v \div F3) % Fanout = (w \div F3) % Fanout
  <2>1. \A l \in {1, 2, 3, 4} : IndexAt(v, l) = IndexAt(w, l)
    OBVIOUS
  <2> QED
    BY <2>1 DEF IndexAt
<1>6. \A x \in Nat : /\ (x \div Fanout) \div Fanout = x \div F2
                     /\ (x \div F2) \div Fanout = x \div F3
                     /\ (x \div F3) \div Fanout = x \div F4
  <2> TAKE x \in Nat
  <2>1. F3 = F2 * Fanout
    OBVIOUS
  <2> HIDE DEF F2, F3, F4
  <2>2. (x \div F2) \div Fanout = x \div F3
    BY <1>1, <2>1, QuotientOfQuotient
  <2>3. (x \div F3) \div Fanout = x \div F4
    BY <1>2, <1>3, QuotientOfQuotient
  <2>4. (x \div Fanout) \div Fanout = x \div F2
    BY QuotientOfQuotient DEF F2
  <2> QED
    BY <2>2, <2>3, <2>4
<1> HIDE DEF F2, F3, F4
<1>7. /\ v \div Fanout \in Nat /\ w \div Fanout \in Nat
      /\ v \div F2 \in Nat /\ w \div F2 \in Nat
      /\ v \div F3 \in Nat /\ w \div F3 \in Nat
  BY <1>1, <1>2, <1>4
<1>8. v \div F4 = 0 /\ w \div F4 = 0
  BY <1>3, <1>4
<1>9. v \div F3 = w \div F3
  <2>1. (v \div F3) \div Fanout = (w \div F3) \div Fanout
    BY <1>4, <1>6, <1>8
  <2> QED
    BY <1>5, <1>7, <2>1, QuotientRemainder
<1>10. v \div F2 = w \div F2
  <2>1. (v \div F2) \div Fanout = (w \div F2) \div Fanout
    BY <1>4, <1>6, <1>9
  <2> QED
    BY <1>5, <1>7, <2>1, QuotientRemainder
<1>11. v \div Fanout = w \div Fanout
  <2>1. (v \div Fanout) \div Fanout = (w \div Fanout) \div Fanout
    BY <1>4, <1>6, <1>10
  <2> QED
    BY <1>5, <1>7, <2>1, QuotientRemainder
<1> QED
  BY <1>4, <1>5, <1>11, QuotientRemainder

-----------------------------------------------------------------------------
(* The inductive invariant.  That the tables are a tree is stated with the  *)
(* rank of every frame: 4 for the root, 3, 2 and 1 for the tables below, 0  *)
(* for what is not linked.  A rank is given when a table is linked and is   *)
(* never changed.                                                           *)

Ranks == [Frames -> 0 .. 4]

Memory == [Frames -> [Index -> Entries]]

\* Entries of a table lead to tables of the next rank; those of the last are
\* mappings.
TablesIn(m, rank) ==
  /\ \A f \in Frames : rank[f] = 4 <=> f = Root
  /\ \A f \in Frames, i \in Index :
       rank[f] > 1 /\ m[f][i] # Empty => m[f][i] \in Frames /\ rank[m[f][i]] = rank[f] - 1
  /\ \A f \in Frames, i \in Index : rank[f] = 1 => m[f][i] \in Phys \cup {Empty}

\* A table is linked from one entry only.
LinksIn(m, rank) ==
  \A f, g \in Frames, i, j \in Index :
    /\ rank[f] > 1 /\ rank[g] > 1
    /\ m[f][i] # Empty /\ m[f][i] = m[g][j]
    => f = g /\ i = j

\* Every table but the root is linked.
LinkedIn(m, rank) ==
  \A f \in Frames :
    rank[f] \in 1 .. 3 => \E g \in Frames, i \in Index : rank[g] = rank[f] + 1 /\ m[g][i] = f

\* A frame that is not linked is free or on its way.
FreeInv(rank) ==
  /\ \A f \in free : rank[f] = 0
  /\ \A c \in Cpus : fresh[c] # 0 => rank[fresh[c]] = 0 /\ fresh[c] \notin free
  /\ \A f \in Frames : rank[f] = 0 /\ f \notin free => \E c \in Cpus : fresh[c] = f

Shape(rank) ==
  TablesIn(mem, rank) /\ LinksIn(mem, rank) /\ LinkedIn(mem, rank) /\ FreeInv(rank)

\* The table that the MMU uses for page v at level l, and the page it finds.
Under(m, f, v, l) == IF f = Empty THEN Empty ELSE m[f][IndexAt(v, l)]

PathIn(m, v, l) ==
  CASE l = 4 -> Root
    [] l = 3 -> Under(m, Root, v, 4)
    [] l = 2 -> Under(m, Under(m, Root, v, 4), v, 3)
    [] l = 1 -> Under(m, Under(m, Under(m, Root, v, 4), v, 3), v, 2)

PageIn(m, v) == Under(m, PathIn(m, v, 1), v, 1)

\* The pages that a call still has to do.
CallInv(c) ==
  /\ pc[c] = "idle" => n[c] = 0
  /\ pc[c] # "idle" =>
       /\ n[c] > 0 /\ virt[c] .. virt[c] + n[c] - 1 \subseteq Virts
       /\ ~unmap[c] => phys[c] .. phys[c] + n[c] - 1 \subseteq Phys

\* A walk is where the MMU would be.  Between the look at an entry and the
\* link the entry stays empty, and the new table stays zero.  Only an unmap
\* reaches a null table.
WalkInv(c) ==
  /\ table[c] = PathIn(mem, virt[c], level[c])
  /\ table[c] = 0 => unmap[c]
  /\ pc[c] \in {"idle", "acquire"} => level[c] = 4
  /\ fresh[c] # 0 <=> pc[c] \in {"zero", "link"}
  /\ pc[c] \in {"alloc", "zero", "link"} =>
       level[c] > 1 /\ table[c] # 0 /\ ~unmap[c] /\ Entry(c) = Empty
  /\ pc[c] = "link" => mem[fresh[c]] = [i \in Index |-> Empty]
  /\ pc[c] \in {"write", "invlpg"} => level[c] = 1 /\ table[c] # 0

\* walkSpinlock: one CPU is inside.
Inside(c) == pc[c] \in {"walk", "alloc", "zero", "link", "halted"}

LockInv ==
  /\ \A c \in Cpus : Inside(c) => walkLock
  /\ \A c, d \in Cpus : Inside(c) /\ Inside(d) => c = d

CpusInv == \A c \in Cpus : CallInv(c) /\ WalkInv(c)

IInv ==
  /\ TypeOK
  /\ \E rank \in Ranks : Shape(rank)
  /\ CpusInv
  /\ LockInv
  /\ StaleOnlyFromRemote

-----------------------------------------------------------------------------
(* Paths.  These facts are about any memory, so that they can be used for   *)
(* the one before a step and the one behind it.                             *)

LEMMA PathStep ==
  ASSUME NEW m, NEW v
  PROVE  /\ PathIn(m, v, 4) = Root
         /\ \A l \in 2 .. 4 : PathIn(m, v, l - 1) = Under(m, PathIn(m, v, l), v, l)
<1>1. \A l \in {2, 3, 4} : PathIn(m, v, l - 1) = Under(m, PathIn(m, v, l), v, l)
  BY DEF PathIn
<1> QED
  BY <1>1 DEF PathIn

LEMMA PathIsPath ==
  ASSUME NEW v
  PROVE  /\ Translate(v) = PageIn(mem, v)
         /\ Translate(v)' = PageIn(mem', v)
         /\ Below(Below(Below(Root, v, 4), v, 3), v, 2) = PathIn(mem, v, 1)
  BY DEF Translate, PageIn, PathIn, Under, Below

\* One level down the rank is one less.
LEMMA UnderRank ==
  ASSUME NEW m \in Memory, NEW rank \in Ranks, TablesIn(m, rank), NEW v \in Nat,
         NEW l \in 2 .. 4, NEW f \in Frames \cup {Empty}, f # Empty => rank[f] = l
  PROVE  LET g == Under(m, f, v, l)
         IN  g \in Frames \cup {Empty} /\ (g # Empty => rank[g] = l - 1)
<1>1. IndexAt(v, l) \in Index
  BY IndexInRange
<1> QED
  BY <1>1 DEF Under, TablesIn

\* A path leads to a table of its level, or it has ended.
LEMMA PathRank ==
  ASSUME NEW m \in Memory, NEW rank \in Ranks, TablesIn(m, rank), NEW v \in Nat,
         NEW l \in 1 .. 4
  PROVE  /\ PathIn(m, v, l) \in Frames \cup {Empty}
         /\ PathIn(m, v, l) # Empty => rank[PathIn(m, v, l)] = l
<1> DEFINE P(k) == /\ PathIn(m, v, k) \in Frames \cup {Empty}
                   /\ PathIn(m, v, k) # Empty => rank[PathIn(m, v, k)] = k
<1>1. P(4)
  BY FramesAssumption, PathStep DEF TablesIn
<1>2. ASSUME NEW k \in 2 .. 4, P(k) PROVE P(k - 1)
  <2>1. PathIn(m, v, k - 1) = Under(m, PathIn(m, v, k), v, k)
    BY PathStep
  <2> QED
    BY <1>2, <2>1, UnderRank
<1> HIDE DEF P
<1>3. P(3)
  <2>1. P(4 - 1)
    BY <1>1, <1>2
  <2> QED
    BY <2>1
<1>4. P(2)
  <2>1. P(3 - 1)
    BY <1>2, <1>3
  <2> QED
    BY <2>1
<1>5. P(1)
  <2>1. P(2 - 1)
    BY <1>2, <1>4
  <2> QED
    BY <2>1
<1>6. P(l)
  <2>1. l \in {1, 2, 3, 4}
    OBVIOUS
  <2> QED
    BY <1>1, <1>3, <1>4, <1>5, <2>1
<1> QED
  BY <1>6 DEF P

\* What is found at the end of a path is a page or nothing.
LEMMA PageIsPage ==
  ASSUME NEW m \in Memory, NEW rank \in Ranks, TablesIn(m, rank), NEW v \in Nat
  PROVE  PageIn(m, v) \in Phys \cup {Empty}
<1>1. IndexAt(v, 1) \in Index
  BY IndexInRange
<1>2. /\ PathIn(m, v, 1) \in Frames \cup {Empty}
      /\ PathIn(m, v, 1) # Empty => rank[PathIn(m, v, 1)] = 1
  BY PathRank
<1> QED
  BY <1>1, <1>2 DEF PageIn, Under, TablesIn

\* A step that changes no table above the last level changes no path.
LEMMA PathsKept ==
  ASSUME NEW m \in Memory, NEW rank \in Ranks, TablesIn(m, rank), NEW v \in Nat,
         NEW l \in 1 .. 4,
         NEW w, \A f \in Frames : rank[f] > 1 => w[f] = m[f]
  PROVE  PathIn(w, v, l) = PathIn(m, v, l)
<1>1. ASSUME NEW k \in 2 .. 4, PathIn(w, v, k) = PathIn(m, v, k)
      PROVE  PathIn(w, v, k - 1) = PathIn(m, v, k - 1)
  <2>1. /\ PathIn(m, v, k) \in Frames \cup {Empty}
        /\ PathIn(m, v, k) # Empty => rank[PathIn(m, v, k)] = k
    BY PathRank
  <2>2. PathIn(m, v, k - 1) = Under(m, PathIn(m, v, k), v, k)
    BY PathStep
  <2>3. PathIn(w, v, k - 1) = Under(w, PathIn(m, v, k), v, k)
    BY <1>1, PathStep
  <2> QED
    BY <2>1, <2>2, <2>3 DEF Under
<1>2. PathIn(w, v, 4) = PathIn(m, v, 4)
  BY PathStep
<1>3. PathIn(w, v, 3) = PathIn(m, v, 3)
  <2>1. PathIn(w, v, 4 - 1) = PathIn(m, v, 4 - 1)
    BY <1>1, <1>2
  <2> QED
    BY <2>1
<1>4. PathIn(w, v, 2) = PathIn(m, v, 2)
  <2>1. PathIn(w, v, 3 - 1) = PathIn(m, v, 3 - 1)
    BY <1>1, <1>3
  <2> QED
    BY <2>1
<1>5. PathIn(w, v, 1) = PathIn(m, v, 1)
  <2>1. PathIn(w, v, 2 - 1) = PathIn(m, v, 2 - 1)
    BY <1>1, <1>4
  <2> QED
    BY <2>1
<1>6. l \in {1, 2, 3, 4}
  OBVIOUS
<1> QED
  BY <1>2, <1>3, <1>4, <1>5, <1>6

\* Linking an empty table to an empty entry makes paths longer, by the new
\* table and by nothing else, and changes no translation.
LEMMA PathsGrow ==
  ASSUME NEW m \in Memory, NEW rank \in Ranks, TablesIn(m, rank), NEW v \in Nat,
         NEW t \in Frames, NEW i \in Index, NEW new \in Frames,
         rank[t] > 1, rank[new] = 0, m[t][i] = Empty, m[new] = [j \in Index |-> Empty]
  PROVE  LET w == [m EXCEPT ![t][i] = new]
         IN  /\ \A l \in 1 .. 4 :
                  PathIn(m, v, l) # Empty => PathIn(w, v, l) = PathIn(m, v, l)
             /\ PageIn(w, v) = PageIn(m, v)
<1> DEFINE w == [m EXCEPT ![t][i] = new]
           G(l) == \/ PathIn(w, v, l) = PathIn(m, v, l)
                   \/ PathIn(m, v, l) = Empty /\ PathIn(w, v, l) = new
<1>1. /\ new # t /\ new # Empty
      /\ w \in [Frames -> [Index -> Entries]]
      /\ w[t][i] = new
      /\ \A f \in Frames, j \in Index : f # t \/ j # i => w[f][j] = m[f][j]
  BY FramesAssumption DEF Memory, Entries, Empty
<1> HIDE DEF w
<1>2. \A k \in 1 .. 4 : IndexAt(v, k) \in Index
  BY IndexInRange
<1>3. ASSUME NEW k \in 1 .. 4, G(k)
      PROVE  \/ Under(w, PathIn(w, v, k), v, k) = Under(m, PathIn(m, v, k), v, k)
             \/ /\ k > 1
                /\ Under(m, PathIn(m, v, k), v, k) = Empty /\ Under(w, PathIn(w, v, k), v, k) = new
  <2>1. /\ PathIn(m, v, k) \in Frames \cup {Empty}
        /\ PathIn(m, v, k) # Empty => rank[PathIn(m, v, k)] = k
    BY PathRank
  <2>2. CASE PathIn(w, v, k) = PathIn(m, v, k)
    <3>1. CASE PathIn(m, v, k) = t /\ IndexAt(v, k) = i
      <4>1. k > 1 /\ t # Empty
        BY <2>1, <3>1, FramesAssumption DEF Empty
      <4> QED
        BY <1>1, <2>2, <3>1, <4>1 DEF Under
    <3>2. CASE ~ (PathIn(m, v, k) = t /\ IndexAt(v, k) = i)
      BY <1>1, <1>2, <2>1, <2>2, <3>2 DEF Under
    <3> QED
      BY <3>1, <3>2
  <2>3. CASE PathIn(m, v, k) = Empty /\ PathIn(w, v, k) = new
    <3>1. w[new][IndexAt(v, k)] = Empty
      BY <1>1, <1>2
    <3> QED
      BY <2>3, <3>1 DEF Under
  <2> QED
    BY <1>3, <2>2, <2>3
<1>4. ASSUME NEW k \in 2 .. 4, G(k) PROVE G(k - 1)
  BY <1>3, <1>4, PathStep
<1>5. G(4)
  BY PathStep
<1> HIDE DEF G
<1>6. G(3)
  <2>1. G(4 - 1)
    BY <1>4, <1>5
  <2> QED
    BY <2>1
<1>7. G(2)
  <2>1. G(3 - 1)
    BY <1>4, <1>6
  <2> QED
    BY <2>1
<1>8. G(1)
  <2>1. G(2 - 1)
    BY <1>4, <1>7
  <2> QED
    BY <2>1
<1>9. \A l \in {1, 2, 3, 4} : G(l)
  BY <1>5, <1>6, <1>7, <1>8
<1>10. \A l \in 1 .. 4 : PathIn(m, v, l) # Empty => PathIn(w, v, l) = PathIn(m, v, l)
  BY <1>9 DEF G
<1>11. PageIn(w, v) = PageIn(m, v)
  BY <1>3, <1>8 DEF PageIn
<1> QED
  BY <1>10, <1>11 DEF w

\* Two pages in one last table have the same upper indices.
LEMMA PathInjective ==
  ASSUME NEW m \in Memory, NEW rank \in Ranks, TablesIn(m, rank), LinksIn(m, rank),
         NEW v \in Nat, NEW w \in Nat,
         PathIn(m, v, 1) # Empty, PathIn(m, v, 1) = PathIn(m, w, 1)
  PROVE  \A l \in 2 .. 4 : IndexAt(v, l) = IndexAt(w, l)
<1> DEFINE Same(k) == PathIn(m, v, k) # Empty /\ PathIn(m, v, k) = PathIn(m, w, k)
<1>1. ASSUME NEW k \in 2 .. 4, Same(k - 1)
      PROVE  Same(k) /\ IndexAt(v, k) = IndexAt(w, k)
  <2> DEFINE f == PathIn(m, v, k)
             g == PathIn(m, w, k)
             i == IndexAt(v, k)
             j == IndexAt(w, k)
  <2>1. /\ f \in Frames \cup {Empty} /\ (f # Empty => rank[f] = k)
        /\ g \in Frames \cup {Empty} /\ (g # Empty => rank[g] = k)
    BY PathRank
  <2>2. i \in Index /\ j \in Index
    BY IndexInRange
  <2>3. /\ PathIn(m, v, k - 1) = Under(m, f, v, k)
        /\ PathIn(m, w, k - 1) = Under(m, g, w, k)
    BY PathStep
  <2>4. f # Empty /\ g # Empty /\ m[f][i] # Empty /\ m[f][i] = m[g][j]
    BY <1>1, <2>3 DEF Under
  <2> HIDE DEF f, g, i, j
  <2>5. f \in Frames /\ g \in Frames /\ rank[f] > 1 /\ rank[g] > 1
    BY <2>1, <2>4
  <2>6. f = g /\ i = j
    BY <2>2, <2>4, <2>5 DEF LinksIn
  <2> QED
    BY <2>4, <2>6 DEF f, g, i, j
<1>2. Same(2) /\ IndexAt(v, 2) = IndexAt(w, 2)
  <2>1. Same(2 - 1)
    OBVIOUS
  <2> HIDE DEF Same
  <2> QED
    BY <1>1, <2>1
<1>3. Same(3) /\ IndexAt(v, 3) = IndexAt(w, 3)
  <2>1. Same(3 - 1)
    BY <1>2
  <2> HIDE DEF Same
  <2> QED
    BY <1>1, <2>1
<1>4. IndexAt(v, 4) = IndexAt(w, 4)
  <2>1. Same(4 - 1)
    BY <1>3
  <2> HIDE DEF Same
  <2> QED
    BY <1>1, <2>1
<1>5. \A l \in {2, 3, 4} : IndexAt(v, l) = IndexAt(w, l)
  BY <1>2, <1>3, <1>4
<1> QED
  BY <1>5

\* Writing an entry of a last table changes the translation of one page.
LEMMA PageWritten ==
  ASSUME NEW m \in Memory, NEW rank \in Ranks, TablesIn(m, rank), LinksIn(m, rank),
         NEW v \in Virts, PathIn(m, v, 1) # Empty, NEW e, NEW w,
         \A f \in Frames \ {PathIn(m, v, 1)} : w[f] = m[f],
         w[PathIn(m, v, 1)] = [m[PathIn(m, v, 1)] EXCEPT ![IndexAt(v, 1)] = e]
  PROVE  /\ \A x \in Nat, l \in 1 .. 4 : PathIn(w, x, l) = PathIn(m, x, l)
         /\ PageIn(w, v) = e
         /\ \A x \in Virts \ {v} : PageIn(w, x) = PageIn(m, x)
<1> DEFINE t == PathIn(m, v, 1)
           i == IndexAt(v, 1)
<1>1. Virts \subseteq Nat
  BY VirtsAssumption
<1>2. t \in Frames /\ rank[t] = 1
  BY <1>1, PathRank
<1>3. \A x \in Nat : IndexAt(x, 1) \in Index
  BY IndexInRange
<1> HIDE DEF t, i
<1>4. i \in Index
  BY <1>1, <1>3 DEF i
<1>5. /\ w[t][i] = e
      /\ \A f \in Frames : f # t => w[f] = m[f]
      /\ \A j \in Index : j # i => w[t][j] = m[t][j]
  BY <1>2, <1>4 DEF Memory, t, i
<1>6. \A x \in Nat, l \in 1 .. 4 : PathIn(w, x, l) = PathIn(m, x, l)
  <2>1. \A f \in Frames : rank[f] > 1 => w[f] = m[f]
    BY <1>2, <1>5
  <2> QED
    BY <2>1, PathsKept
<1>7. PageIn(w, v) = e
  <2>1. PathIn(w, v, 1) = t
    BY <1>1, <1>6 DEF t
  <2> QED
    BY <1>2, <1>5, <2>1, FramesAssumption DEF PageIn, Under, i, Empty
<1>8. ASSUME NEW x \in Virts \ {v} PROVE PageIn(w, x) = PageIn(m, x)
  <2> DEFINE f == PathIn(m, x, 1)
             j == IndexAt(x, 1)
  <2>1. x \in Nat /\ j \in Index /\ f \in Frames \cup {Empty}
    BY <1>1, <1>3, PathRank
  <2>2. ~ (f = t /\ j = i)
    <3> SUFFICES ASSUME f = t, j = i PROVE FALSE
      OBVIOUS
    <3>1. \A l \in 2 .. 4 : IndexAt(v, l) = IndexAt(x, l)
      BY <1>1, <2>1, PathInjective DEF t
    <3>2. \A l \in 1 .. 4 : IndexAt(v, l) = IndexAt(x, l)
      BY <3>1 DEF i
    <3> QED
      BY <3>2, DigitsDetermine
  <2>3. PathIn(w, x, 1) = f
    BY <1>6, <2>1
  <2> HIDE DEF f, j
  <2>4. Under(w, f, x, 1) = Under(m, f, x, 1)
    BY <1>5, <2>1, <2>2 DEF Under, j
  <2> QED
    BY <2>3, <2>4 DEF PageIn, f
<1> QED
  BY <1>6, <1>7, <1>8

-----------------------------------------------------------------------------
(* Steps.  What the invariant says of one CPU, and what a step of another   *)
(* one leaves of it.                                                        *)

LEMMA PagesAreNumbers ==
  /\ \A v \in Virts \cup {0} : v \in Nat
  /\ \A p \in Phys \cup {0} : p \in Nat
<1>1. \A v \in Virts : v \in Nat
  BY VirtsAssumption
<1>2. \A p \in Phys : p \in Nat
  BY PhysAssumption
<1> QED
  BY <1>1, <1>2

\* The page a call is at is one that was asked for.
LEMMA CurrentPage ==
  ASSUME TypeOK, NEW c \in Cpus, CallInv(c), pc[c] # "idle"
  PROVE  /\ n[c] \in 1 .. MaxRun /\ virt[c] \in Virts /\ virt[c] \in Nat
         /\ ~unmap[c] => phys[c] \in Phys
<1> USE MaxRunAssumption, PagesAreNumbers
<1>1. n[c] \in 1 .. MaxRun /\ virt[c] \in Nat /\ phys[c] \in Nat
  <2>1. n[c] \in 0 .. MaxRun /\ virt[c] \in Virts \cup {0} /\ phys[c] \in Phys \cup {0}
    BY DEF TypeOK
  <2> QED
    BY <2>1 DEF CallInv
<1>2. virt[c] \in virt[c] .. virt[c] + n[c] - 1 /\ phys[c] \in phys[c] .. phys[c] + n[c] - 1
  BY <1>1
<1> QED
  BY <1>1, <1>2 DEF CallInv

\* The table a CPU is at has the rank of its level; its entry is in range.
LEMMA CurrentTable ==
  ASSUME TypeOK, NEW rank \in Ranks, Shape(rank), NEW c \in Cpus, WalkInv(c)
  PROVE  /\ mem \in Memory /\ virt[c] \in Nat /\ level[c] \in 1 .. 4
         /\ table[c] \in Frames \cup {Empty} /\ (table[c] # Empty => rank[table[c]] = level[c])
         /\ IndexAt(virt[c], level[c]) \in Index
<1>1. mem \in Memory /\ virt[c] \in Nat /\ level[c] \in 1 .. 4
  <2>1. virt[c] \in Virts \cup {0} /\ level[c] \in 1 .. 4
    BY DEF TypeOK
  <2>2. mem \in Memory
    BY DEF TypeOK, Memory
  <2> QED
    BY <2>1, <2>2, PagesAreNumbers
<1>2. IndexAt(virt[c], level[c]) \in Index
  BY <1>1, IndexInRange
<1> QED
  BY <1>1, <1>2, PathRank DEF Shape, WalkInv

\* The variables of a CPU.
Untouched(d) ==
  /\ pc'[d] = pc[d] /\ unmap'[d] = unmap[d] /\ virt'[d] = virt[d] /\ phys'[d] = phys[d]
  /\ n'[d] = n[d] /\ level'[d] = level[d] /\ table'[d] = table[d] /\ fresh'[d] = fresh[d]

LEMMA OtherCallKept ==
  ASSUME NEW d \in Cpus, CallInv(d), Untouched(d)
  PROVE  CallInv(d)'
  BY DEF CallInv, Untouched

LEMMA OtherWalkKept ==
  ASSUME NEW d \in Cpus, WalkInv(d), Untouched(d), mem' = mem
  PROVE  WalkInv(d)'
  BY DEF WalkInv, Untouched, Entry

\* A CPU that comes in finds the lock free; one that stays or leaves changes
\* nothing for the others.
LEMMA LockKept ==
  ASSUME LockInv, NEW c \in Cpus, \A d \in Cpus \ {c} : Untouched(d),
         \/ Inside(c)' /\ walkLock' /\ (Inside(c) \/ ~walkLock)
         \/ ~Inside(c)' /\ (walkLock' = walkLock \/ Inside(c))
  PROVE  LockInv'
  BY DEF LockInv, Inside, Untouched

\* No translation changes without a write.
LEMMA StaleKept ==
  ASSUME StaleOnlyFromRemote, NEW c \in Cpus, \A d \in Cpus \ {c} : Untouched(d),
         \A v \in Virts : PageIn(mem', v) = PageIn(mem, v),
         UNCHANGED <<tlb, writer>>, pc[c] # "invlpg"
  PROVE  StaleOnlyFromRemote'
<1>1. \A v \in TlbVirts : Translate(v)' = Translate(v)
  BY PathIsPath, TlbVirtsAssumption
<1> QED
  BY <1>1 DEF StaleOnlyFromRemote, Untouched

\* A step that leaves tables, frames and translations alone.
LEMMA CalmKeepsInv ==
  ASSUME IInv, NEW c \in Cpus, \A d \in Cpus \ {c} : Untouched(d),
         UNCHANGED <<mem, free, fresh>>,
         TypeOK', CallInv(c)', WalkInv(c)', LockInv', StaleOnlyFromRemote'
  PROVE  IInv'
<1>1. PICK rank \in Ranks : Shape(rank)
  BY DEF IInv
<1>2. Shape(rank)'
  BY <1>1 DEF Shape, FreeInv
<1>3. \A d \in Cpus : CallInv(d)' /\ WalkInv(d)'
  BY OtherCallKept, OtherWalkKept DEF IInv, CpusInv
<1> QED
  BY <1>2, <1>3 DEF IInv, CpusInv

\* The calls: vmmMapPages and vmmUnmapPages start at the root.
LEMMA CallKeepsInv ==
  ASSUME IInv, NEW c \in Cpus, NEW v \in Virts, NEW k \in 1 .. MaxRun,
         \/ \E p \in Phys : CallMapPages(c, v, p, k)
         \/ CallUnmapPages(c, v, k)
  PROVE  IInv'
<1> USE DEF callVars, walkVars, Goto
<1>1. /\ pc[c] = "idle" /\ pc' = [pc EXCEPT ![c] = "acquire"]
      /\ virt' = [virt EXCEPT ![c] = v] /\ n' = [n EXCEPT ![c] = k]
      /\ UNCHANGED <<mem, free, fresh, walkLock, level, table, tlb, writer>>
      /\ v .. v + k - 1 \subseteq Virts
  BY DEF CallMapPages, CallUnmapPages
<1>2. PICK p \in Phys \cup {0}, u \in BOOLEAN :
         /\ phys' = [phys EXCEPT ![c] = p] /\ unmap' = [unmap EXCEPT ![c] = u]
         /\ ~u => p .. p + k - 1 \subseteq Phys
  BY DEF CallMapPages, CallUnmapPages
<1>3. TypeOK'
  <2>1. TypeOK
    BY DEF IInv
  <2>2. k \in 0 .. MaxRun
    BY MaxRunAssumption
  <2>3. "acquire" \in Locations
    BY DEF Locations
  <2> QED
    BY <1>1, <1>2, <2>1, <2>2, <2>3 DEF TypeOK
<1>4. /\ pc'[c] = "acquire" /\ virt'[c] = v /\ n'[c] = k /\ phys'[c] = p /\ unmap'[c] = u
      /\ level'[c] = level[c] /\ table'[c] = table[c]
  BY <1>1, <1>2 DEF IInv, TypeOK
<1>5. \A d \in Cpus \ {c} : Untouched(d)
  BY <1>1, <1>2 DEF IInv, TypeOK, Untouched
<1>6. CallInv(c)'
  BY <1>2, <1>1, <1>4, MaxRunAssumption DEF CallInv
<1>7. WalkInv(c)'
  <2>1. WalkInv(c)
    BY DEF IInv, CpusInv
  <2>2. level[c] = 4 /\ table[c] = Root /\ fresh[c] = 0
    BY <1>1, <2>1, PathStep DEF WalkInv
  <2>3. PathIn(mem', virt'[c], 4) = Root
    BY PathStep
  <2> QED
    BY <1>1, <1>4, <2>2, <2>3, FramesAssumption DEF WalkInv
<1>8. LockInv'
  BY <1>1, <1>4, <1>5, LockKept DEF IInv, Inside
<1>9. StaleOnlyFromRemote'
  BY <1>1, <1>5, StaleKept DEF IInv
<1> QED
  BY <1>1, <1>3, <1>5, <1>6, <1>7, <1>8, <1>9, CalmKeepsInv

\* The lock is taken.
LEMMA AcquireKeepsInv ==
  ASSUME IInv, NEW c \in Cpus, Acquire(c)
  PROVE  IInv'
<1> USE DEF callVars, walkVars, Goto
<1>1. /\ pc[c] = "acquire" /\ pc' = [pc EXCEPT ![c] = "walk"] /\ ~walkLock /\ walkLock'
      /\ UNCHANGED <<mem, free, callVars, walkVars, tlb, writer>>
  BY DEF Acquire
<1>2. walkLock' = TRUE
  BY DEF Acquire
<1>3. TypeOK'
  BY <1>1, <1>2 DEF IInv, TypeOK, Locations
<1>4. pc'[c] = "walk" /\ \A d \in Cpus \ {c} : Untouched(d)
  BY <1>1 DEF IInv, TypeOK, Untouched
<1>5. CallInv(c)' /\ WalkInv(c)'
  BY <1>1, <1>4 DEF IInv, CpusInv, CallInv, WalkInv
<1>6. LockInv'
  BY <1>1, <1>4, LockKept DEF IInv, Inside
<1>7. StaleOnlyFromRemote'
  BY <1>1, <1>4, StaleKept DEF IInv
<1> QED
  BY <1>1, <1>3, <1>4, <1>5, <1>6, <1>7, CalmKeepsInv

\* A table is missing, or it is null or cannot be had and the CPU panics.
LEMMA MissKeepsInv ==
  ASSUME IInv, NEW c \in Cpus, Missing(c) \/ Fault(c) \/ OutOfMemory(c)
  PROVE  IInv'
<1> USE DEF callVars, walkVars, Goto
<1>1. PICK l \in {"alloc", "halted"} :
        /\ pc[c] \in {"walk", "alloc"} /\ pc' = [pc EXCEPT ![c] = l]
        /\ UNCHANGED <<mem, free, walkLock, callVars, walkVars, tlb, writer>>
        /\ l = "alloc" => level[c] > 1 /\ table[c] # 0 /\ ~unmap[c] /\ Entry(c) = Empty
  BY DEF Missing, Fault, OutOfMemory
<1>2. TypeOK'
  BY <1>1 DEF IInv, TypeOK, Locations
<1>3. pc'[c] = l /\ \A d \in Cpus \ {c} : Untouched(d)
  BY <1>1 DEF IInv, TypeOK, Untouched
<1>4. CallInv(c)' /\ WalkInv(c)'
  BY <1>1, <1>3 DEF IInv, CpusInv, CallInv, WalkInv, Entry
<1>5. LockInv'
  BY <1>1, <1>3, LockKept DEF IInv, LockInv, Inside
<1>6. StaleOnlyFromRemote'
  BY <1>1, <1>3, StaleKept DEF IInv
<1> QED
  BY <1>1, <1>2, <1>3, <1>4, <1>5, <1>6, CalmKeepsInv

\* The walk goes down as the MMU does.
LEMMA DescendKeepsInv ==
  ASSUME IInv, NEW c \in Cpus, Descend(c)
  PROVE  IInv'
<1> USE DEF callVars, walkVars
<1>1. /\ pc[c] = "walk" /\ level[c] > 1 /\ table[c] # 0
      /\ table' = [table EXCEPT ![c] = Entry(c)]
      /\ level' = [level EXCEPT ![c] = @ - 1]
      /\ UNCHANGED <<mem, free, walkLock, pc, callVars, fresh, tlb, writer>>
  BY DEF Descend
<1>2. PICK rank \in Ranks : Shape(rank)
  BY DEF IInv
<1>3. TypeOK /\ CallInv(c) /\ WalkInv(c)
  BY DEF IInv, CpusInv
<1>4. /\ mem \in Memory /\ virt[c] \in Nat /\ level[c] \in 2 .. 4 /\ TablesIn(mem, rank)
      /\ table[c] \in Frames /\ table[c] = PathIn(mem, virt[c], level[c])
  BY <1>1, <1>2, <1>3, CurrentTable DEF Empty, WalkInv, Shape
<1>5. Entry(c) = PathIn(mem, virt[c], level[c] - 1)
  <2>1. PathIn(mem, virt[c], level[c] - 1) = Under(mem, table[c], virt[c], level[c])
    BY <1>4, PathStep
  <2> QED
    BY <1>1, <2>1 DEF Under, Entry, Empty
<1>6. Entry(c) \in Frames \cup {0}
  <2>1. level[c] - 1 \in 1 .. 4
    BY <1>4
  <2> QED
    BY <1>4, <1>5, <2>1, PathRank DEF Empty
<1>7. TypeOK'
  BY <1>1, <1>3, <1>4, <1>6 DEF TypeOK
<1>8. /\ level'[c] = level[c] - 1 /\ table'[c] = Entry(c)
      /\ \A d \in Cpus \ {c} : Untouched(d)
  BY <1>1, <1>3 DEF TypeOK, Untouched
<1>9. CallInv(c)' /\ WalkInv(c)'
  <2>1. Entry(c) = 0 => unmap[c]
    BY DEF Descend, Empty
  <2> QED
    BY <1>1, <1>3, <1>5, <1>8, <2>1 DEF CallInv, WalkInv
<1>10. LockInv'
  BY <1>1 DEF IInv, LockInv, Inside
<1>11. StaleOnlyFromRemote'
  BY <1>1, <1>8, StaleKept DEF IInv
<1> QED
  BY <1>1, <1>7, <1>8, <1>9, <1>10, <1>11, CalmKeepsInv

\* A run without its first page.
LEMMA RunShorter ==
  ASSUME NEW a \in Nat, NEW k \in 1 .. MaxRun, k # 1, NEW S, a .. a + k - 1 \subseteq S
  PROVE  /\ a + 1 \in S /\ k - 1 \in 1 .. MaxRun
         /\ a + 1 .. (a + 1) + (k - 1) - 1 \subseteq S
<1> USE MaxRunAssumption
<1>1. a + 1 \in a .. a + k - 1
  OBVIOUS
<1>2. \A x \in a + 1 .. (a + 1) + (k - 1) - 1 : x \in a .. a + k - 1
  OBVIOUS
<1>3. k - 1 \in 1 .. MaxRun
  OBVIOUS
<1> QED
  BY <1>1, <1>2, <1>3

\* The loop goes on to the next page, from the root again, or returns.
LEMMA NextPageFacts ==
  ASSUME TypeOK, NEW c \in Cpus, CallInv(c), WalkInv(c), pc[c] \in {"walk", "invlpg"},
         NextPage(c)
  PROVE  /\ pc' \in [Cpus -> Locations] /\ unmap' \in [Cpus -> BOOLEAN]
         /\ virt' \in [Cpus -> Virts \cup {0}] /\ phys' \in [Cpus -> Phys \cup {0}]
         /\ n' \in [Cpus -> 0 .. MaxRun] /\ level' \in [Cpus -> 1 .. 4]
         /\ table' \in [Cpus -> Frames \cup {0}] /\ fresh' = fresh
         /\ pc'[c] \in {"idle", "acquire"}
         /\ \A d \in Cpus \ {c} : Untouched(d)
         /\ CallInv(c)' /\ WalkInv(c)'
<1> USE DEF NextPage, Goto
<1>1. /\ n[c] \in 1 .. MaxRun /\ virt[c] \in Nat /\ phys[c] \in Nat /\ unmap[c] \in BOOLEAN
      /\ virt[c] .. virt[c] + n[c] - 1 \subseteq Virts
      /\ ~unmap[c] => phys[c] .. phys[c] + n[c] - 1 \subseteq Phys
  <2>1. n[c] \in 1 .. MaxRun /\ virt[c] \in Nat
    BY CurrentPage
  <2>2. phys[c] \in Phys \cup {0} /\ unmap[c] \in BOOLEAN
    BY DEF TypeOK
  <2> QED
    BY <2>1, <2>2, PagesAreNumbers DEF CallInv
<1>2. fresh[c] = 0
  BY DEF WalkInv
<1>3. fresh' = fresh
  BY <1>2 DEF TypeOK
<1>4. CASE n[c] = 1
  <2>1. /\ pc' = [pc EXCEPT ![c] = "idle"] /\ n' = [n EXCEPT ![c] = 0]
        /\ virt' = [virt EXCEPT ![c] = 0] /\ phys' = [phys EXCEPT ![c] = 0]
        /\ unmap' = [unmap EXCEPT ![c] = FALSE]
        /\ level' = [level EXCEPT ![c] = 4] /\ table' = [table EXCEPT ![c] = Root]
    <3>1. n[c] - 1 = 0 /\ (unmap[c] /\ ~ (n[c] = 1)) = FALSE
      BY <1>4
    <3>2. n' = [n EXCEPT ![c] = 0] /\ unmap' = [unmap EXCEPT ![c] = FALSE]
      BY <3>1
    <3>3. /\ pc' = [pc EXCEPT ![c] = "idle"] /\ virt' = [virt EXCEPT ![c] = 0]
          /\ phys' = [phys EXCEPT ![c] = 0]
      BY <1>4
    <3> QED
      BY <3>2, <3>3
  <2>2. /\ pc'[c] = "idle" /\ n'[c] = 0 /\ virt'[c] = 0 /\ level'[c] = 4 /\ table'[c] = Root
        /\ fresh'[c] = 0
    BY <1>2, <1>3, <2>1 DEF TypeOK
  <2>3. CallInv(c)'
    BY <2>2 DEF CallInv
  <2>4. WalkInv(c)'
    BY <2>2, FramesAssumption, PathStep DEF WalkInv
  <2>5. \A d \in Cpus \ {c} : Untouched(d)
    BY <1>3, <2>1 DEF Untouched
  <2>6. /\ pc' \in [Cpus -> Locations] /\ unmap' \in [Cpus -> BOOLEAN]
        /\ virt' \in [Cpus -> Virts \cup {0}] /\ phys' \in [Cpus -> Phys \cup {0}]
        /\ n' \in [Cpus -> 0 .. MaxRun] /\ level' \in [Cpus -> 1 .. 4]
        /\ table' \in [Cpus -> Frames \cup {0}]
    BY <2>1, FramesAssumption, MaxRunAssumption DEF TypeOK, Locations
  <2> QED
    BY <1>3, <2>2, <2>3, <2>4, <2>5, <2>6
<1>5. CASE n[c] # 1
  <2> DEFINE q == IF unmap[c] THEN 0 ELSE phys[c] + 1
  <2>1. /\ pc' = [pc EXCEPT ![c] = "acquire"] /\ n' = [n EXCEPT ![c] = n[c] - 1]
        /\ virt' = [virt EXCEPT ![c] = virt[c] + 1] /\ phys' = [phys EXCEPT ![c] = q]
        /\ unmap' = [unmap EXCEPT ![c] = unmap[c]]
        /\ level' = [level EXCEPT ![c] = 4] /\ table' = [table EXCEPT ![c] = Root]
    <3>1. (unmap[c] /\ ~ (n[c] = 1)) = unmap[c] /\ (n[c] = 1 \/ unmap[c]) = unmap[c]
      BY <1>1, <1>5
    <3>2. n' = [n EXCEPT ![c] = n[c] - 1] /\ unmap' = [unmap EXCEPT ![c] = unmap[c]]
      BY <3>1
    <3>3. /\ pc' = [pc EXCEPT ![c] = "acquire"] /\ virt' = [virt EXCEPT ![c] = virt[c] + 1]
          /\ phys' = [phys EXCEPT ![c] = q]
      BY <1>5, <3>1
    <3> QED
      BY <3>2, <3>3
  <2>2. /\ virt[c] + 1 \in Virts /\ n[c] - 1 \in 1 .. MaxRun
        /\ virt[c] + 1 .. (virt[c] + 1) + (n[c] - 1) - 1 \subseteq Virts
    BY <1>1, <1>5, RunShorter
  <2>3. /\ q \in Phys \cup {0}
        /\ ~unmap[c] => q .. q + (n[c] - 1) - 1 \subseteq Phys
    BY <1>1, <1>5, RunShorter
  <2> HIDE DEF q
  <2>4. /\ pc'[c] = "acquire" /\ n'[c] = n[c] - 1 /\ virt'[c] = virt[c] + 1 /\ phys'[c] = q
        /\ unmap'[c] = unmap[c] /\ level'[c] = 4 /\ table'[c] = Root /\ fresh'[c] = 0
    BY <1>2, <1>3, <2>1 DEF TypeOK
  <2>5. CallInv(c)'
    BY <2>2, <2>3, <2>4 DEF CallInv
  <2>6. WalkInv(c)'
    BY <2>4, FramesAssumption, PathStep DEF WalkInv
  <2>7. \A d \in Cpus \ {c} : Untouched(d)
    BY <1>3, <2>1 DEF Untouched
  <2>8. /\ pc' \in [Cpus -> Locations] /\ unmap' \in [Cpus -> BOOLEAN]
        /\ virt' \in [Cpus -> Virts \cup {0}] /\ phys' \in [Cpus -> Phys \cup {0}]
        /\ n' \in [Cpus -> 0 .. MaxRun] /\ level' \in [Cpus -> 1 .. 4]
        /\ table' \in [Cpus -> Frames \cup {0}]
    BY <1>1, <2>1, <2>2, <2>3, FramesAssumption DEF TypeOK, Locations
  <2> QED
    BY <1>3, <2>4, <2>5, <2>6, <2>7, <2>8
<1> QED
  BY <1>4, <1>5

\* vmmWalk returns: with a table, or with null for an unmap.
LEMMA DropKeepsInv ==
  ASSUME IInv, NEW c \in Cpus, Drop(c)
  PROVE  IInv'
<1>1. /\ pc[c] = "walk" /\ level[c] = 1 /\ walkLock' = FALSE
      /\ UNCHANGED <<mem, free, tlb, writer>>
  BY DEF Drop
<1>2. TypeOK /\ CallInv(c) /\ WalkInv(c) /\ LockInv /\ StaleOnlyFromRemote
  BY DEF IInv, CpusInv
<1>3. /\ TypeOK' /\ fresh' = fresh /\ ~Inside(c)'
      /\ \A d \in Cpus \ {c} : Untouched(d)
      /\ CallInv(c)' /\ WalkInv(c)'
  <2>1. CASE table[c] = 0
    <3>1. NextPage(c)
      BY <2>1 DEF Drop
    <3>2. /\ pc' \in [Cpus -> Locations] /\ unmap' \in [Cpus -> BOOLEAN]
          /\ virt' \in [Cpus -> Virts \cup {0}] /\ phys' \in [Cpus -> Phys \cup {0}]
          /\ n' \in [Cpus -> 0 .. MaxRun] /\ level' \in [Cpus -> 1 .. 4]
          /\ table' \in [Cpus -> Frames \cup {0}] /\ fresh' = fresh
          /\ pc'[c] \in {"idle", "acquire"}
          /\ \A d \in Cpus \ {c} : Untouched(d)
          /\ CallInv(c)' /\ WalkInv(c)'
      BY <1>1, <1>2, <3>1, NextPageFacts
    <3>3. TypeOK'
      BY <1>1, <1>2, <3>2 DEF TypeOK
    <3> QED
      BY <3>2, <3>3 DEF Inside
  <2>2. CASE table[c] # 0
    <3>1. pc' = [pc EXCEPT ![c] = "write"] /\ UNCHANGED <<callVars, walkVars>>
      BY <2>2 DEF Drop, Goto
    <3>2. TypeOK'
      BY <1>1, <1>2, <3>1 DEF TypeOK, Locations, callVars, walkVars
    <3>3. pc'[c] = "write" /\ fresh' = fresh /\ \A d \in Cpus \ {c} : Untouched(d)
      BY <1>2, <3>1 DEF TypeOK, Untouched, callVars, walkVars
    <3>4. CallInv(c)' /\ WalkInv(c)'
      BY <1>1, <1>2, <2>2, <3>1, <3>3 DEF CallInv, WalkInv, callVars, walkVars
    <3> QED
      BY <3>2, <3>3, <3>4 DEF Inside
  <2> QED
    BY <2>1, <2>2
<1>4. LockInv'
  BY <1>1, <1>2, <1>3, LockKept DEF Inside
<1>5. StaleOnlyFromRemote'
  BY <1>1, <1>2, <1>3, StaleKept
<1> QED
  BY <1>1, <1>3, <1>4, <1>5, CalmKeepsInv

\* invlpg, and on to the next page.
LEMMA InvalidateKeepsInv ==
  ASSUME IInv, NEW c \in Cpus, InvalidatePage(c)
  PROVE  IInv'
<1>1. /\ pc[c] = "invlpg" /\ NextPage(c)
      /\ tlb' = [tlb EXCEPT ![c] = [v \in TlbVirts |-> IF v = virt[c] THEN Empty ELSE tlb[c][v]]]
      /\ UNCHANGED <<mem, free, walkLock, writer>>
  BY DEF InvalidatePage
<1>2. TypeOK /\ CallInv(c) /\ WalkInv(c) /\ LockInv /\ StaleOnlyFromRemote
  BY DEF IInv, CpusInv
<1>3. /\ pc' \in [Cpus -> Locations] /\ unmap' \in [Cpus -> BOOLEAN]
      /\ virt' \in [Cpus -> Virts \cup {0}] /\ phys' \in [Cpus -> Phys \cup {0}]
      /\ n' \in [Cpus -> 0 .. MaxRun] /\ level' \in [Cpus -> 1 .. 4]
      /\ table' \in [Cpus -> Frames \cup {0}] /\ fresh' = fresh
      /\ pc'[c] \in {"idle", "acquire"}
      /\ \A d \in Cpus \ {c} : Untouched(d)
      /\ CallInv(c)' /\ WalkInv(c)'
  BY <1>1, <1>2, NextPageFacts
<1>4. /\ \A v \in TlbVirts : tlb'[c][v] = IF v = virt[c] THEN Empty ELSE tlb[c][v]
      /\ \A d \in Cpus \ {c} : tlb'[d] = tlb[d]
  BY <1>1, <1>2 DEF TypeOK
<1>5. tlb' \in [Cpus -> [TlbVirts -> Phys \cup {Empty}]]
  <2>1. tlb \in [Cpus -> [TlbVirts -> Phys \cup {Empty}]]
    BY <1>2 DEF TypeOK
  <2>2. [v \in TlbVirts |-> IF v = virt[c] THEN Empty ELSE tlb[c][v]]
          \in [TlbVirts -> Phys \cup {Empty}]
    BY <2>1
  <2> QED
    BY <1>1, <2>1, <2>2
<1>6. TypeOK'
  BY <1>1, <1>2, <1>3, <1>5 DEF TypeOK
<1>7. LockInv'
  BY <1>1, <1>2, <1>3, LockKept DEF Inside
<1>8. StaleOnlyFromRemote'
  <2>1. \A v \in TlbVirts : Translate(v)' = Translate(v)
    BY <1>1, PathIsPath
  <2>2. ASSUME NEW d \in Cpus, NEW v \in TlbVirts, tlb'[d][v] \notin {Empty, Translate(v)'}
        PROVE  writer'[v] # d \/ (pc'[d] = "invlpg" /\ virt'[d] = v)
    <3>1. CASE d = c
      BY <1>1, <1>2, <1>4, <2>1, <2>2, <3>1 DEF StaleOnlyFromRemote
    <3>2. CASE d # c
      BY <1>1, <1>2, <1>3, <1>4, <2>1, <2>2, <3>2 DEF StaleOnlyFromRemote, Untouched
    <3> QED
      BY <3>1, <3>2
  <2> QED
    BY <2>2 DEF StaleOnlyFromRemote
<1> QED
  BY <1>1, <1>3, <1>6, <1>7, <1>8, CalmKeepsInv

\* The MMU caches what the tables say.
LEMMA TlbFillKeepsInv ==
  ASSUME IInv, NEW c \in Cpus, NEW v \in TlbVirts, TlbFill(c, v)
  PROVE  IInv'
<1>1. /\ tlb' = [tlb EXCEPT ![c][v] = Translate(v)]
      /\ UNCHANGED <<mem, free, walkLock, pc, callVars, walkVars, writer>>
  BY DEF TlbFill
<1>2. PICK rank \in Ranks : Shape(rank)
  BY DEF IInv
<1>3. TypeOK /\ CallInv(c) /\ WalkInv(c) /\ LockInv /\ StaleOnlyFromRemote
  BY DEF IInv, CpusInv
<1>4. \A d \in Cpus : Untouched(d)
  BY <1>1 DEF Untouched, callVars, walkVars
<1>5. Translate(v) \in Phys \cup {Empty}
  <2>1. v \in Nat /\ mem \in Memory
    BY <1>3, TlbVirtsAssumption, PagesAreNumbers DEF TypeOK, Memory
  <2> QED
    BY <1>2, <2>1, PageIsPage, PathIsPath DEF Shape
<1>6. TypeOK'
  <2>1. tlb \in [Cpus -> [TlbVirts -> Phys \cup {Empty}]]
    BY <1>3 DEF TypeOK
  <2>2. tlb' \in [Cpus -> [TlbVirts -> Phys \cup {Empty}]]
    BY <1>1, <1>5, <2>1
  <2> QED
    BY <1>1, <1>3, <2>2 DEF TypeOK, callVars, walkVars
<1>7. CallInv(c)' /\ WalkInv(c)'
  BY <1>1, <1>3, <1>4, OtherCallKept, OtherWalkKept
<1>8. LockInv'
  BY <1>1, <1>3 DEF LockInv, Inside
<1>9. StaleOnlyFromRemote'
  <2>1. \A x \in TlbVirts : Translate(x)' = Translate(x)
    BY <1>1, PathIsPath
  <2>2. ASSUME NEW d \in Cpus, NEW x \in TlbVirts
        PROVE  tlb'[d][x] = tlb[d][x] \/ tlb'[d][x] = Translate(x)
    BY <1>1, <1>3 DEF TypeOK
  <2> QED
    BY <1>1, <1>3, <2>1, <2>2 DEF StaleOnlyFromRemote, callVars
<1> QED
  BY <1>1, <1>4, <1>6, <1>7, <1>8, <1>9, CalmKeepsInv DEF walkVars

\* A step of another CPU that writes memory, but no table on the way of d.
LEMMA OtherWalkFollowed ==
  ASSUME NEW d \in Cpus, WalkInv(d), Untouched(d),
         PathIn(mem', virt[d], level[d]) = PathIn(mem, virt[d], level[d]),
         pc[d] \in {"alloc", "zero", "link"} =>
           /\ mem'[table[d]][IndexAt(virt[d], level[d])] = Entry(d)
           /\ mem'[fresh[d]] = mem[fresh[d]]
  PROVE  WalkInv(d)'
  BY DEF WalkInv, Untouched, Entry

\* pmmAlloc hands out a frame that is not linked.
LEMMA AllocTableKeepsInv ==
  ASSUME IInv, NEW c \in Cpus, AllocTable(c)
  PROVE  IInv'
<1> USE DEF callVars, Goto
<1>1. PICK f \in free :
        /\ pc[c] = "alloc" /\ pc' = [pc EXCEPT ![c] = "zero"]
        /\ free' = free \ {f} /\ fresh' = [fresh EXCEPT ![c] = f]
        /\ UNCHANGED <<mem, walkLock, callVars, level, table, tlb, writer>>
  BY DEF AllocTable
<1>2. PICK rank \in Ranks : Shape(rank)
  BY DEF IInv
<1>3. TypeOK /\ CallInv(c) /\ WalkInv(c) /\ LockInv /\ StaleOnlyFromRemote
  BY DEF IInv, CpusInv
<1>4. f \in Frames /\ f # 0
  BY <1>3, FramesAssumption DEF TypeOK
<1>5. TypeOK'
  BY <1>1, <1>3, <1>4 DEF TypeOK, Locations
<1>6. pc'[c] = "zero" /\ fresh'[c] = f /\ \A d \in Cpus \ {c} : Untouched(d)
  BY <1>1, <1>3 DEF TypeOK, Untouched
<1>7. fresh[c] = 0
  BY <1>1, <1>3 DEF WalkInv
<1>8. Shape(rank)'
  <2>1. FreeInv(rank)
    BY <1>2 DEF Shape
  <2>2. \A g \in free' : rank[g] = 0
    BY <1>1, <2>1 DEF FreeInv
  <2>3. \A d \in Cpus : fresh'[d] # 0 => rank[fresh'[d]] = 0 /\ fresh'[d] \notin free'
    BY <1>1, <1>6, <2>1 DEF FreeInv, Untouched
  <2>4. ASSUME NEW g \in Frames, rank[g] = 0, g \notin free'
        PROVE  \E d \in Cpus : fresh'[d] = g
    <3>1. CASE g = f
      BY <1>6, <3>1
    <3>2. CASE g # f
      <4>1. PICK d \in Cpus : fresh[d] = g
        BY <1>1, <2>1, <2>4, <3>2 DEF FreeInv
      <4>2. d # c
        BY <1>7, <4>1, FramesAssumption
      <4> QED
        BY <1>6, <4>1, <4>2 DEF Untouched
    <3> QED
      BY <3>1, <3>2
  <2> QED
    BY <1>1, <1>2, <2>2, <2>3, <2>4 DEF Shape, FreeInv
<1>9. CallInv(c)' /\ WalkInv(c)'
  BY <1>1, <1>3, <1>4, <1>6 DEF CallInv, WalkInv, Entry
<1>10. \A d \in Cpus : CallInv(d)' /\ WalkInv(d)'
  BY <1>1, <1>6, <1>9, OtherCallKept, OtherWalkKept DEF IInv, CpusInv
<1>11. LockInv'
  BY <1>1, <1>3, <1>6, LockKept DEF Inside, LockInv
<1>12. StaleOnlyFromRemote'
  BY <1>1, <1>3, <1>6, StaleKept
<1> QED
  BY <1>5, <1>8, <1>10, <1>11, <1>12 DEF IInv, CpusInv

\* memset clears a frame that no entry leads to.
LEMMA ZeroTableKeepsInv ==
  ASSUME IInv, NEW c \in Cpus, ZeroTable(c)
  PROVE  IInv' /\ \A v \in Virts : PageIn(mem', v) = PageIn(mem, v)
<1> USE DEF callVars, walkVars, Goto
<1> DEFINE zero == [i \in Index |-> Empty]
<1>1. /\ pc[c] = "zero" /\ pc' = [pc EXCEPT ![c] = "link"]
      /\ mem' = [mem EXCEPT ![fresh[c]] = zero]
      /\ UNCHANGED <<free, walkLock, callVars, walkVars, tlb, writer>>
  BY DEF ZeroTable
<1>2. PICK rank \in Ranks : Shape(rank)
  BY DEF IInv
<1>3. TypeOK /\ CallInv(c) /\ WalkInv(c) /\ LockInv /\ StaleOnlyFromRemote
  BY DEF IInv, CpusInv
<1>4. fresh[c] \in Frames /\ rank[fresh[c]] = 0
  BY <1>1, <1>2, <1>3 DEF TypeOK, WalkInv, Shape, FreeInv
<1>5. /\ mem' \in Memory /\ mem'[fresh[c]] = zero
      /\ \A f \in Frames : rank[f] > 0 => mem'[f] = mem[f]
  <2>1. mem \in Memory /\ zero \in [Index -> Entries]
    BY <1>3 DEF TypeOK, Memory, Entries
  <2> HIDE DEF zero
  <2> QED
    BY <1>1, <1>4, <2>1 DEF Memory
<1> HIDE DEF zero
<1>6. TypeOK'
  BY <1>1, <1>3, <1>5 DEF TypeOK, Locations, Memory
<1>7. pc'[c] = "link" /\ \A d \in Cpus \ {c} : Untouched(d)
  BY <1>1, <1>3 DEF TypeOK, Untouched
<1>8. \A v \in Nat, l \in 1 .. 4 : PathIn(mem', v, l) = PathIn(mem, v, l)
  <2>1. mem \in Memory /\ TablesIn(mem, rank)
    BY <1>2, <1>3 DEF TypeOK, Memory, Shape
  <2>2. \A f \in Frames : rank[f] > 1 => mem'[f] = mem[f]
    BY <1>5 DEF Ranks
  <2> QED
    BY <2>1, <2>2, PathsKept
<1>9. \A v \in Virts : PageIn(mem', v) = PageIn(mem, v)
  <2> TAKE v \in Virts
  <2>1. v \in Nat /\ mem \in Memory /\ TablesIn(mem, rank)
    BY <1>2, <1>3, PagesAreNumbers DEF TypeOK, Memory, Shape
  <2>2. PathIn(mem', v, 1) = PathIn(mem, v, 1)
    BY <1>8, <2>1
  <2>3. /\ PathIn(mem, v, 1) \in Frames \cup {Empty}
        /\ PathIn(mem, v, 1) # Empty => rank[PathIn(mem, v, 1)] = 1
    BY <2>1, PathRank
  <2> QED
    BY <1>5, <2>2, <2>3 DEF PageIn, Under
<1>10. Shape(rank)'
  <2>1. /\ \A f \in Frames : rank[f] \in 0 .. 4
        /\ \A f \in Frames : rank[f] >= 1 => mem'[f] = mem[f]
    BY <1>5 DEF Ranks
  <2>2. TablesIn(mem', rank)
    BY <1>2, <2>1 DEF Shape, TablesIn
  <2>3. LinksIn(mem', rank)
    BY <1>2, <2>1 DEF Shape, LinksIn
  <2>4. LinkedIn(mem', rank)
    BY <1>2, <2>1 DEF Shape, LinkedIn
  <2>5. FreeInv(rank)'
    BY <1>1, <1>2 DEF Shape, FreeInv
  <2> QED
    BY <2>2, <2>3, <2>4, <2>5 DEF Shape
<1>11. /\ mem \in Memory /\ virt[c] \in Nat /\ level[c] \in 1 .. 4
       /\ table[c] \in Frames \cup {Empty} /\ (table[c] # Empty => rank[table[c]] = level[c])
  BY <1>2, <1>3, CurrentTable
<1>12. CallInv(c)' /\ WalkInv(c)'
  <2>1. Entry(c)' = Entry(c)
    BY <1>1, <1>3, <1>5, <1>11 DEF Entry, WalkInv, Empty
  <2>2. PathIn(mem', virt[c], level[c]) = table[c]
    BY <1>3, <1>8, <1>11 DEF WalkInv
  <2>3. mem'[fresh[c]] = [i \in Index |-> Empty]
    BY <1>5 DEF zero
  <2> QED
    BY <1>1, <1>3, <1>7, <2>1, <2>2, <2>3 DEF CallInv, WalkInv
<1>13. ASSUME NEW d \in Cpus \ {c} PROVE CallInv(d)' /\ WalkInv(d)'
  <2>1. CallInv(d) /\ WalkInv(d) /\ Untouched(d)
    BY <1>7 DEF IInv, CpusInv
  <2>2. pc[d] \notin {"alloc", "zero", "link"}
    BY <1>1, <1>3 DEF LockInv, Inside
  <2>3. PathIn(mem', virt[d], level[d]) = PathIn(mem, virt[d], level[d])
    BY <1>2, <1>3, <1>8, <2>1, CurrentTable
  <2> QED
    BY <2>1, <2>2, <2>3, OtherCallKept, OtherWalkFollowed
<1>14. LockInv'
  BY <1>1, <1>3, <1>7, LockKept DEF Inside, LockInv
<1>15. StaleOnlyFromRemote'
  BY <1>1, <1>3, <1>7, <1>9, StaleKept
<1> QED
  BY <1>6, <1>9, <1>10, <1>12, <1>13, <1>14, <1>15 DEF IInv, CpusInv

\* The tables stay a tree when an empty table is linked to an empty entry.
LEMMA LinkKeepsShape ==
  ASSUME NEW m \in Memory, NEW rank \in Ranks,
         TablesIn(m, rank), LinksIn(m, rank), LinkedIn(m, rank),
         NEW t \in Frames, NEW i \in Index, NEW new \in Frames,
         rank[t] > 1, rank[new] = 0, m[t][i] = Empty, m[new] = [j \in Index |-> Empty],
         NEW w \in Memory, w = [m EXCEPT ![t][i] = new],
         NEW r, r = [rank EXCEPT ![new] = rank[t] - 1]
  PROVE  r \in Ranks /\ TablesIn(w, r) /\ LinksIn(w, r) /\ LinkedIn(w, r)
<1>1. /\ \A f \in Frames : rank[f] \in 0 .. 4
      /\ Root \in Frames /\ rank[Root] = 4
      /\ \A f \in Frames : f # Empty
  BY FramesAssumption DEF Ranks, TablesIn, Empty
<1>2. /\ new # t /\ new # Root
      /\ w[t][i] = new
      /\ \A f \in Frames, j \in Index : f # t \/ j # i => w[f][j] = m[f][j]
      /\ \A j \in Index : w[new][j] = Empty
  BY <1>1 DEF Memory
<1>3. /\ r \in Ranks /\ r[new] = rank[t] - 1 /\ r[t] = rank[t]
      /\ \A f \in Frames : f # new => r[f] = rank[f]
  BY <1>1, <1>2 DEF Ranks
<1>4. \A f \in Frames, j \in Index :
        rank[f] > 1 /\ m[f][j] # Empty =>
          m[f][j] \in Frames /\ rank[m[f][j]] = rank[f] - 1 /\ m[f][j] # new
  BY <1>1 DEF TablesIn
<1>5. \A f \in Frames, j \in Index :
        r[f] > 1 /\ w[f][j] # Empty =>
          /\ rank[f] > 1 /\ r[f] = rank[f]
          /\ (f = t /\ j = i) \/ (w[f][j] = m[f][j] /\ m[f][j] # new)
  BY <1>2, <1>3, <1>4
<1>6. TablesIn(w, r)
  <2>1. \A f \in Frames : r[f] = 4 <=> f = Root
    BY <1>1, <1>2, <1>3 DEF TablesIn
  <2>2. \A f \in Frames, j \in Index :
          r[f] > 1 /\ w[f][j] # Empty => w[f][j] \in Frames /\ r[w[f][j]] = r[f] - 1
    BY <1>2, <1>3, <1>4, <1>5
  <2>3. \A f \in Frames, j \in Index : r[f] = 1 => w[f][j] \in Phys \cup {Empty}
    BY <1>2, <1>3 DEF TablesIn
  <2> QED
    BY <2>1, <2>2, <2>3 DEF TablesIn
<1>7. LinksIn(w, r)
  BY <1>2, <1>5 DEF LinksIn
<1>8. LinkedIn(w, r)
  <2> SUFFICES ASSUME NEW f \in Frames, r[f] \in 1 .. 3
               PROVE  \E g \in Frames, j \in Index : r[g] = r[f] + 1 /\ w[g][j] = f
    BY DEF LinkedIn
  <2>1. CASE f = new
    BY <1>1, <1>2, <1>3, <2>1
  <2>2. CASE f # new
    <3>1. PICK g \in Frames, j \in Index : rank[g] = rank[f] + 1 /\ m[g][j] = f
      BY <1>3, <2>2 DEF LinkedIn
    <3>2. g # new /\ w[g][j] = f
      BY <1>1, <1>2, <1>3, <2>2, <3>1
    <3> QED
      BY <1>3, <2>2, <3>1, <3>2
  <2> QED
    BY <2>1, <2>2
<1> QED
  BY <1>3, <1>6, <1>7, <1>8

\* The new table is linked: its frame gets its rank.
LEMMA LinkTableKeepsInv ==
  ASSUME IInv, NEW c \in Cpus, LinkTable(c)
  PROVE  IInv' /\ \A v \in Virts : PageIn(mem', v) = PageIn(mem, v)
<1> USE DEF callVars, walkVars, Goto
<1> DEFINE t == table[c]
           i == IndexAt(virt[c], level[c])
           new == fresh[c]
<1>1. /\ pc[c] = "link" /\ pc' = [pc EXCEPT ![c] = "walk"]
      /\ mem' = [mem EXCEPT ![t][i] = new] /\ fresh' = [fresh EXCEPT ![c] = 0]
      /\ UNCHANGED <<free, walkLock, callVars, level, table, tlb, writer>>
  BY DEF LinkTable
<1>2. PICK rank \in Ranks : Shape(rank)
  BY DEF IInv
<1>3. TypeOK /\ CallInv(c) /\ WalkInv(c) /\ LockInv /\ StaleOnlyFromRemote
  BY DEF IInv, CpusInv
<1>4. /\ TablesIn(mem, rank) /\ LinksIn(mem, rank) /\ LinkedIn(mem, rank) /\ FreeInv(rank)
      /\ \A f \in Frames : rank[f] \in 0 .. 4
  BY <1>2 DEF Shape, Ranks
<1>5. /\ mem \in Memory /\ level[c] \in 2 .. 4 /\ t \in Frames /\ i \in Index
      /\ rank[t] = level[c]
  BY <1>1, <1>2, <1>3, CurrentTable DEF WalkInv, Empty
<1>6. /\ new \in Frames /\ rank[new] = 0 /\ mem[new] = [j \in Index |-> Empty]
      /\ new \notin free /\ new # 0
  BY <1>1, <1>3, <1>4 DEF TypeOK, WalkInv, FreeInv
<1>7. mem[t][i] = Empty /\ t = PathIn(mem, virt[c], level[c])
  BY <1>1, <1>3 DEF WalkInv, Entry
<1>8. mem' \in Memory
  <2>1. new \in Entries
    BY <1>6 DEF Entries
  <2> HIDE DEF t, i, new
  <2> QED
    BY <1>1, <1>5, <2>1 DEF Memory
<1>9. pc'[c] = "walk" /\ fresh'[c] = 0 /\ \A d \in Cpus \ {c} : Untouched(d)
  BY <1>1, <1>3 DEF TypeOK, Untouched
<1> HIDE DEF t, i, new
<1>10. TypeOK'
  BY <1>1, <1>3, <1>8 DEF TypeOK, Locations, Memory
<1>11. /\ \A v \in Nat, l \in 1 .. 4 :
            PathIn(mem, v, l) # Empty => PathIn(mem', v, l) = PathIn(mem, v, l)
       /\ \A v \in Nat : PageIn(mem', v) = PageIn(mem, v)
  <2> SUFFICES ASSUME NEW v \in Nat
               PROVE  /\ \A l \in 1 .. 4 :
                           PathIn(mem, v, l) # Empty => PathIn(mem', v, l) = PathIn(mem, v, l)
                      /\ PageIn(mem', v) = PageIn(mem, v)
    OBVIOUS
  <2>1. rank[t] > 1
    BY <1>5
  <2> DEFINE w == [mem EXCEPT ![t][i] = new]
  <2>2. /\ \A l \in 1 .. 4 : PathIn(mem, v, l) # Empty => PathIn(w, v, l) = PathIn(mem, v, l)
        /\ PageIn(w, v) = PageIn(mem, v)
    BY <1>4, <1>5, <1>6, <1>7, <2>1, PathsGrow
  <2> QED
    BY <1>1, <2>2
<1>12. \E r \in Ranks : Shape(r)'
  <2> DEFINE s == [rank EXCEPT ![new] = rank[t] - 1]
  <2>0. s \in Ranks /\ TablesIn(mem', s) /\ LinksIn(mem', s) /\ LinkedIn(mem', s)
    <3>1. rank[t] > 1
      BY <1>5
    <3> QED
      BY <1>1, <1>4, <1>5, <1>6, <1>7, <1>8, <3>1, LinkKeepsShape
  <2>1. PICK r \in Ranks : /\ r = [rank EXCEPT ![new] = rank[t] - 1]
                           /\ TablesIn(mem', r) /\ LinksIn(mem', r) /\ LinkedIn(mem', r)
    BY <2>0
  <2> HIDE DEF s
  <2>2. r[new] = rank[t] - 1 /\ \A f \in Frames : f # new => r[f] = rank[f]
    BY <1>6, <2>1 DEF Ranks
  <2>3. \A d \in Cpus : fresh'[d] = 0
    <3>1. ASSUME NEW d \in Cpus \ {c} PROVE fresh'[d] = 0
      <4>1. WalkInv(d) /\ fresh'[d] = fresh[d]
        BY <1>9 DEF IInv, CpusInv, Untouched
      <4>2. pc[d] \notin {"zero", "link"}
        BY <1>1, <1>3 DEF LockInv, Inside
      <4> QED
        BY <4>1, <4>2 DEF WalkInv
    <3> QED
      BY <1>9, <3>1
  <2>4. \A f \in free' : r[f] = 0
    BY <1>1, <1>3, <1>4, <1>6, <2>2 DEF FreeInv, TypeOK
  <2>5. ASSUME NEW f \in Frames, r[f] = 0, f \notin free'
        PROVE  FALSE
    <3>1. f # new
      BY <1>5, <2>2, <2>5
    <3>2. PICK d \in Cpus : fresh[d] = f
      BY <1>1, <1>4, <2>2, <2>5, <3>1 DEF FreeInv
    <3>3. d # c /\ fresh'[d] = f
      BY <1>9, <3>1, <3>2 DEF new, Untouched
    <3> QED
      BY <2>3, <3>3, FramesAssumption
  <2>6. FreeInv(r)'
    BY <2>3, <2>4, <2>5 DEF FreeInv
  <2> QED
    BY <2>1, <2>6 DEF Shape
<1>13. CallInv(c)' /\ WalkInv(c)'
  <2>1. virt[c] \in Nat /\ level[c] \in 1 .. 4 /\ t # Empty
    BY <1>3, <1>5, FramesAssumption, PagesAreNumbers DEF TypeOK, Empty
  <2>2. PathIn(mem', virt[c], level[c]) = table[c]
    BY <1>7, <1>11, <2>1 DEF t
  <2> QED
    BY <1>1, <1>3, <1>9, <2>2 DEF CallInv, WalkInv
<1>14. ASSUME NEW d \in Cpus \ {c} PROVE CallInv(d)' /\ WalkInv(d)'
  <2>1. CallInv(d) /\ WalkInv(d) /\ Untouched(d)
    BY <1>9 DEF IInv, CpusInv
  <2>2. pc[d] \in {"idle", "acquire", "write", "invlpg"}
    <3>1. pc[d] \in Locations
      BY <1>3 DEF TypeOK
    <3>2. ~Inside(d)
      BY <1>1, <1>3 DEF LockInv, Inside
    <3> QED
      BY <3>1, <3>2 DEF Locations, Inside
  <2>3. PathIn(mem, virt[d], level[d]) # Empty
    BY <2>1, <2>2, FramesAssumption, PathStep DEF WalkInv, Empty
  <2>4. virt[d] \in Nat /\ level[d] \in 1 .. 4
    BY <1>3, PagesAreNumbers DEF TypeOK
  <2> QED
    BY <1>11, <2>1, <2>2, <2>3, <2>4, OtherCallKept, OtherWalkFollowed
<1>15. LockInv'
  BY <1>1, <1>3, <1>9, LockKept DEF Inside, LockInv
<1>16. StaleOnlyFromRemote'
  BY <1>1, <1>3, <1>9, <1>11, StaleKept, PagesAreNumbers
<1> QED
  BY <1>10, <1>11, <1>12, <1>13, <1>14, <1>15, <1>16, PagesAreNumbers DEF IInv, CpusInv

\* The entry of the last table is written without the lock.
LEMMA WriteEntryKeepsInv ==
  ASSUME IInv, NEW c \in Cpus, WriteEntry(c)
  PROVE  /\ IInv'
         /\ PageIn(mem', virt[c]) = IF unmap[c] THEN Empty ELSE phys[c]
         /\ \A v \in Virts \ {virt[c]} : PageIn(mem', v) = PageIn(mem, v)
<1> USE DEF callVars, walkVars, Goto
<1> DEFINE v == virt[c]
           e == IF unmap[c] THEN Empty ELSE phys[c]
           t == PathIn(mem, v, 1)
           i == IndexAt(v, 1)
<1>1. /\ pc[c] = "write" /\ pc' = [pc EXCEPT ![c] = "invlpg"]
      /\ mem' = [mem EXCEPT ![table[c]][i] = e] /\ writer' = [writer EXCEPT ![v] = c]
      /\ UNCHANGED <<free, walkLock, callVars, walkVars, tlb>>
  BY DEF WriteEntry
<1>2. PICK rank \in Ranks : Shape(rank)
  BY DEF IInv
<1>3. TypeOK /\ CallInv(c) /\ WalkInv(c) /\ LockInv /\ StaleOnlyFromRemote
  BY DEF IInv, CpusInv
<1>4. /\ TablesIn(mem, rank) /\ LinksIn(mem, rank) /\ LinkedIn(mem, rank) /\ FreeInv(rank)
      /\ \A f \in Frames : rank[f] \in 0 .. 4
  BY <1>2 DEF Shape, Ranks
<1>5. v \in Virts /\ v \in Nat /\ e \in Phys \cup {Empty}
  BY <1>1, <1>3, CurrentPage
<1>6. /\ mem \in Memory /\ t \in Frames /\ t # Empty /\ rank[t] = 1 /\ t = table[c]
      /\ i \in Index
  BY <1>1, <1>2, <1>3, CurrentTable DEF WalkInv, Empty
<1>7. pc'[c] = "invlpg" /\ \A d \in Cpus \ {c} : Untouched(d)
  BY <1>1, <1>3 DEF TypeOK, Untouched
<1>8. /\ writer' \in [Virts -> Cpus \cup {Nobody}] /\ writer'[v] = c
      /\ \A x \in Virts \ {v} : writer'[x] = writer[x]
  BY <1>1, <1>3, <1>5 DEF TypeOK
<1> HIDE DEF e
<1>9. mem' = [mem EXCEPT ![t][i] = e]
  BY <1>1, <1>6
<1> HIDE DEF t, i
<1>10. /\ mem' \in Memory /\ mem'[t] = [mem[t] EXCEPT ![i] = e]
       /\ \A f \in Frames : f # t => mem'[f] = mem[f]
  BY <1>5, <1>6, <1>9 DEF Memory, Entries
<1>11. /\ \A x \in Nat, l \in 1 .. 4 : PathIn(mem', x, l) = PathIn(mem, x, l)
       /\ PageIn(mem', v) = e
       /\ \A x \in Virts \ {v} : PageIn(mem', x) = PageIn(mem, x)
  <2> HIDE DEF v
  <2> QED
    BY <1>4, <1>5, <1>6, <1>10, PageWritten DEF t, i
<1>12. TypeOK'
  BY <1>1, <1>3, <1>8, <1>10 DEF TypeOK, Locations, Memory
<1>13. Shape(rank)'
  <2>1. \A f \in Frames : rank[f] > 1 => mem'[f] = mem[f]
    BY <1>6, <1>10
  <2>2. \A f \in Frames, j \in Index : rank[f] = 1 => mem'[f][j] \in Phys \cup {Empty}
    BY <1>4, <1>5, <1>6, <1>10 DEF TablesIn, Memory
  <2>3. TablesIn(mem', rank)
    BY <1>4, <2>1, <2>2 DEF TablesIn
  <2>4. LinksIn(mem', rank)
    BY <1>4, <2>1 DEF LinksIn
  <2>5. LinkedIn(mem', rank)
    BY <1>4, <2>1 DEF LinkedIn
  <2>6. FreeInv(rank)'
    BY <1>1, <1>4 DEF FreeInv
  <2> QED
    BY <2>3, <2>4, <2>5, <2>6 DEF Shape
<1>14. CallInv(c)' /\ WalkInv(c)'
  <2>1. PathIn(mem', virt[c], level[c]) = table[c]
    <3>1. level[c] = 1
      BY <1>1, <1>3 DEF WalkInv
    <3> QED
      BY <1>5, <1>6, <1>11, <3>1 DEF t
  <2> QED
    BY <1>1, <1>3, <1>7, <2>1 DEF CallInv, WalkInv
<1>15. ASSUME NEW d \in Cpus \ {c} PROVE CallInv(d)' /\ WalkInv(d)'
  <2>1. CallInv(d) /\ WalkInv(d) /\ Untouched(d)
    BY <1>7 DEF IInv, CpusInv
  <2>2. /\ virt[d] \in Nat /\ level[d] \in 1 .. 4
        /\ table[d] \in Frames \cup {Empty} /\ (table[d] # Empty => rank[table[d]] = level[d])
    BY <1>2, <1>3, <2>1, CurrentTable
  <2>3. PathIn(mem', virt[d], level[d]) = PathIn(mem, virt[d], level[d])
    BY <1>11, <2>2
  <2>4. ASSUME pc[d] \in {"alloc", "zero", "link"}
        PROVE  mem'[table[d]] = mem[table[d]]
    BY <1>6, <1>10, <2>1, <2>2, <2>4 DEF WalkInv, Empty
  <2>5. ASSUME pc[d] = "link" \/ pc[d] = "zero"
        PROVE  mem'[fresh[d]] = mem[fresh[d]]
    BY <1>3, <1>4, <1>6, <1>10, <2>1, <2>5 DEF WalkInv, FreeInv, TypeOK
  <2>6. WalkInv(d)'
    BY <2>1, <2>3, <2>4, <2>5 DEF WalkInv, Untouched, Entry
  <2> QED
    BY <2>1, <2>6, OtherCallKept
<1>16. LockInv'
  BY <1>1, <1>3, <1>7, LockKept DEF Inside, LockInv
<1>17. StaleOnlyFromRemote'
  <2> SUFFICES ASSUME NEW d \in Cpus, NEW x \in TlbVirts,
                      tlb'[d][x] \notin {Empty, Translate(x)'}
               PROVE  writer'[x] # d \/ (pc'[d] = "invlpg" /\ virt'[d] = x)
    BY DEF StaleOnlyFromRemote
  <2>1. x \in Virts
    BY TlbVirtsAssumption
  <2>2. CASE x = v
    BY <1>1, <1>7, <1>8, <2>2 DEF v
  <2>3. CASE x # v
    <3>1. Translate(x)' = Translate(x) /\ writer'[x] = writer[x]
      BY <1>8, <1>11, <2>1, <2>3, PathIsPath
    <3>2. writer[x] # d \/ (pc[d] = "invlpg" /\ virt[d] = x)
      BY <1>1, <1>3, <3>1 DEF StaleOnlyFromRemote
    <3> QED
      BY <1>1, <1>7, <3>1, <3>2 DEF Untouched
  <2> QED
    BY <2>2, <2>3
<1> QED
  BY <1>11, <1>12, <1>13, <1>14, <1>15, <1>16, <1>17 DEF IInv, CpusInv, e

-----------------------------------------------------------------------------
(* The invariant holds in every state.                                      *)

LEMMA InvInit == Init => IInv
<1> SUFFICES ASSUME Init PROVE IInv
  OBVIOUS
<1> USE DEF Init
<1>1. Root \in Frames /\ \A f \in Frames : f # 0
  BY FramesAssumption
<1>2. TypeOK
  <2>1. mem \in [Frames -> [Index -> Entries]]
    BY DEF Entries
  <2>2. tlb \in [Cpus -> [TlbVirts -> Phys \cup {Empty}]]
    OBVIOUS
  <2>3. pc \in [Cpus -> Locations] /\ n \in [Cpus -> 0 .. MaxRun] /\ level \in [Cpus -> 1 .. 4]
    BY MaxRunAssumption DEF Locations
  <2> QED
    BY <1>1, <2>1, <2>2, <2>3 DEF TypeOK
<1>3. \E rank \in Ranks : Shape(rank)
  <2> DEFINE r == [f \in Frames |-> IF f = Root THEN 4 ELSE 0]
  <2>1. /\ r \in Ranks /\ r[Root] = 4
        /\ \A f \in Frames : f # Root => r[f] = 0
        /\ \A i \in Index : mem[Root][i] = Empty
    BY <1>1 DEF Ranks
  <2>2. PICK rank \in Ranks : rank = r
    BY <2>1
  <2> HIDE DEF r
  <2>3. TablesIn(mem, rank) /\ LinksIn(mem, rank) /\ LinkedIn(mem, rank)
    BY <2>1, <2>2 DEF TablesIn, LinksIn, LinkedIn
  <2>4. FreeInv(rank)
    BY <2>1, <2>2 DEF FreeInv
  <2> QED
    BY <2>3, <2>4 DEF Shape
<1>4. CpusInv
  BY <1>1, PathStep DEF CpusInv, CallInv, WalkInv
<1>5. LockInv
  BY DEF LockInv, Inside
<1>6. StaleOnlyFromRemote
  BY DEF StaleOnlyFromRemote
<1> QED
  BY <1>2, <1>3, <1>4, <1>5, <1>6 DEF IInv

LEMMA InvStep == IInv /\ [Next]_vars => IInv'
<1> SUFFICES ASSUME IInv, [Next]_vars PROVE IInv'
  OBVIOUS
<1>1. CASE UNCHANGED vars
  <2>1. UNCHANGED <<mem, free, walkLock, pc, callVars, walkVars, tlb, writer>>
    BY <1>1 DEF vars
  <2>2. TypeOK' /\ LockInv' /\ StaleOnlyFromRemote'
    BY <2>1, PathIsPath DEF IInv, TypeOK, LockInv, Inside, StaleOnlyFromRemote, callVars, walkVars
  <2>3. \E rank \in Ranks : Shape(rank)'
    BY <2>1 DEF IInv, Shape, FreeInv, walkVars
  <2>4. \A c \in Cpus : Untouched(c)
    BY <2>1 DEF Untouched, callVars, walkVars
  <2>5. CpusInv'
    BY <2>1, <2>4, OtherCallKept, OtherWalkKept DEF IInv, CpusInv
  <2> QED
    BY <2>2, <2>3, <2>5 DEF IInv
<1>2. CASE Next
  <2>1. PICK c \in Cpus :
          \/ \E v \in Virts, p \in Phys, k \in 1 .. MaxRun : CallMapPages(c, v, p, k)
          \/ \E v \in Virts, k \in 1 .. MaxRun : CallUnmapPages(c, v, k)
          \/ Walk(c)
          \/ WriteEntry(c)
          \/ InvalidatePage(c)
          \/ \E v \in TlbVirts : TlbFill(c, v)
    BY <1>2 DEF Next
  <2>2. CASE \E v \in Virts, p \in Phys, k \in 1 .. MaxRun : CallMapPages(c, v, p, k)
    BY <2>2, CallKeepsInv
  <2>3. CASE \E v \in Virts, k \in 1 .. MaxRun : CallUnmapPages(c, v, k)
    BY <2>3, CallKeepsInv
  <2>4. CASE Acquire(c)
    BY <2>4, AcquireKeepsInv
  <2>5. CASE Missing(c) \/ Fault(c) \/ OutOfMemory(c)
    BY <2>5, MissKeepsInv
  <2>6. CASE Descend(c)
    BY <2>6, DescendKeepsInv
  <2>7. CASE AllocTable(c)
    BY <2>7, AllocTableKeepsInv
  <2>8. CASE ZeroTable(c)
    BY <2>8, ZeroTableKeepsInv
  <2>9. CASE LinkTable(c)
    BY <2>9, LinkTableKeepsInv
  <2>10. CASE Drop(c)
    BY <2>10, DropKeepsInv
  <2>11. CASE WriteEntry(c)
    BY <2>11, WriteEntryKeepsInv
  <2>12. CASE InvalidatePage(c)
    BY <2>12, InvalidateKeepsInv
  <2>13. CASE \E v \in TlbVirts : TlbFill(c, v)
    BY <2>13, TlbFillKeepsInv
  <2> QED
    BY <2>1, <2>2, <2>3, <2>4, <2>5, <2>6, <2>7, <2>8, <2>9, <2>10, <2>11, <2>12, <2>13 DEF Walk
<1> QED
  BY <1>1, <1>2

LEMMA InvHolds == Spec => []IInv
  BY InvInit, InvStep, PTL DEF Spec

-----------------------------------------------------------------------------
(* What follows from the ranks: the tables at a level are the frames of its *)
(* rank, all of them.                                                       *)

LEMMA BelowIsNextRank ==
  ASSUME TypeOK, NEW rank \in Ranks, Shape(rank), NEW l \in 2 .. 4
  PROVE  TablesBelow({f \in Frames : rank[f] = l}) = {f \in Frames : rank[f] = l - 1}
<1> DEFINE S == {f \in Frames : rank[f] = l}
<1>1. TablesIn(mem, rank) /\ LinkedIn(mem, rank) /\ \A f \in Frames : f # Empty
  BY FramesAssumption DEF Shape, Empty
<1>2. ASSUME NEW g \in TablesBelow(S) PROVE g \in Frames /\ rank[g] = l - 1
  <2>1. PICK f \in S, i \in Index : g = mem[f][i] /\ g # Empty
    BY DEF TablesBelow
  <2> QED
    BY <1>1, <2>1 DEF TablesIn
<1>3. ASSUME NEW g \in Frames, rank[g] = l - 1 PROVE g \in TablesBelow(S)
  <2>1. PICK f \in Frames, i \in Index : rank[f] = rank[g] + 1 /\ mem[f][i] = g
    BY <1>1, <1>3 DEF LinkedIn
  <2>2. f \in S /\ g # Empty
    BY <1>1, <1>3, <2>1
  <2> QED
    BY <2>1, <2>2 DEF TablesBelow
<1> QED
  BY <1>2, <1>3

LEMMA LevelsAreRanks ==
  ASSUME TypeOK, NEW rank \in Ranks, Shape(rank)
  PROVE  /\ Level4 = {f \in Frames : rank[f] = 4}
         /\ Level3 = {f \in Frames : rank[f] = 3}
         /\ Level2 = {f \in Frames : rank[f] = 2}
         /\ Level1 = {f \in Frames : rank[f] = 1}
<1>1. Level4 = {f \in Frames : rank[f] = 4}
  BY FramesAssumption DEF Level4, Shape, TablesIn
<1>2. Level3 = {f \in Frames : rank[f] = 4 - 1}
  BY <1>1, BelowIsNextRank DEF Level3
<1>3. Level2 = {f \in Frames : rank[f] = 3 - 1}
  BY <1>2, BelowIsNextRank DEF Level2
<1>4. Level1 = {f \in Frames : rank[f] = 2 - 1}
  BY <1>3, BelowIsNextRank DEF Level1
<1> QED
  BY <1>1, <1>2, <1>3, <1>4

LEMMA InvNoGarbage == IInv => NoGarbageReachable
<1> SUFFICES ASSUME IInv PROVE NoGarbageReachable
  OBVIOUS
<1>1. PICK rank \in Ranks : Shape(rank)
  BY DEF IInv
<1>2. /\ Level3 = {f \in Frames : rank[f] = 3}
      /\ Level2 = {f \in Frames : rank[f] = 2}
      /\ Level1 = {f \in Frames : rank[f] = 1}
  BY <1>1, LevelsAreRanks DEF IInv
<1>3. TablesBelow(Level1) \subseteq Phys
  BY <1>1, <1>2 DEF Shape, TablesIn, TablesBelow
<1> QED
  BY <1>2, <1>3 DEF NoGarbageReachable

LEMMA InvLinkedOnce == IInv => EveryTableLinkedOnce
<1> SUFFICES ASSUME IInv PROVE EveryTableLinkedOnce
  OBVIOUS
<1> DEFINE Links(f) == {e \in (Reachable \ Level1) \X Index : mem[e[1]][e[2]] = f}
<1>1. PICK rank \in Ranks : Shape(rank)
  BY DEF IInv
<1>2. TablesIn(mem, rank) /\ LinksIn(mem, rank) /\ LinkedIn(mem, rank) /\ FreeInv(rank)
  BY <1>1 DEF Shape
<1>3. \A f \in Frames : rank[f] \in 0 .. 4 /\ f # Empty
  BY FramesAssumption DEF Ranks, Empty
<1>4. Reachable \ Level1 = {g \in Frames : rank[g] > 1}
  BY <1>1, <1>3, LevelsAreRanks DEF IInv, Reachable
<1>5. \A f \in Frames : Links(f) = {e \in {g \in Frames : rank[g] > 1} \X Index : mem[e[1]][e[2]] = f}
  BY <1>4
<1>6. ASSUME NEW f \in Frames \ {Root}
      PROVE  \/ f \in free /\ Links(f) = {}
             \/ f \notin free /\ Cardinality(Links(f)) = 1 /\ \A c \in Cpus : fresh[c] # f
             \/ f \notin free /\ Links(f) = {} /\ \E c \in Cpus : fresh[c] = f
  <2>1. CASE rank[f] = 0
    <3>1. Links(f) = {}
      BY <1>2, <1>3, <1>5, <2>1 DEF TablesIn
    <3> QED
      BY <1>2, <2>1, <3>1 DEF FreeInv
  <2>2. CASE rank[f] # 0
    <3>1. f \notin free /\ rank[f] \in 1 .. 3 /\ \A c \in Cpus : fresh[c] # f
      BY <1>2, <1>3, <2>2 DEF FreeInv, TablesIn, Empty
    <3>2. PICK g \in Frames, i \in Index : rank[g] = rank[f] + 1 /\ mem[g][i] = f
      BY <1>2, <3>1 DEF LinkedIn
    <3>3. rank[g] > 1
      BY <3>1, <3>2
    <3>4. Links(f) = {<<g, i>>}
      <4>1. <<g, i>> \in Links(f)
        BY <1>5, <3>2, <3>3
      <4>2. ASSUME NEW e \in Links(f) PROVE e = <<g, i>>
        <5>1. /\ e = <<e[1], e[2]>> /\ e[1] \in Frames /\ e[2] \in Index /\ rank[e[1]] > 1
              /\ mem[e[1]][e[2]] = f
          BY <1>5
        <5>2. e[1] = g /\ e[2] = i
          BY <1>2, <1>3, <3>2, <3>3, <5>1 DEF LinksIn
        <5> QED
          BY <5>1, <5>2
      <4> HIDE DEF Links
      <4> QED
        BY <4>1, <4>2
    <3>5. Cardinality(Links(f)) = 1
      BY <3>4, FS_Singleton
    <3> QED
      BY <3>1, <3>5
  <2> QED
    BY <2>1, <2>2
<1> QED
  BY <1>6 DEF EveryTableLinkedOnce

LEMMA InvWalkValid == IInv => WalkStaysValid
  BY PathIsPath DEF IInv, CpusInv, WalkInv, WalkStaysValid

-----------------------------------------------------------------------------
(* The theorems.                                                            *)

\* Every variable of vmm.c keeps its type: an entry is 0, a frame, a page or,
\* in a frame that pmmAlloc has just given, garbage.
THEOREM PageTablesTyped == Spec => []TypeOK
  BY InvHolds, PTL DEF IInv

\* No state of any interleaving of vmmMapPages and vmmUnmapPages lets the MMU
\* read a table that was not zeroed, or take a mapped page for a table.
THEOREM TablesAreClean == Spec => []NoGarbageReachable
  BY InvHolds, InvNoGarbage, PTL

\* walkSpinlock makes the tables a tree: no frame that pmmZeroAlloc gave is
\* linked twice, and none is lost.
THEOREM TablesAreATree == Spec => []EveryTableLinkedOnce
  BY InvHolds, InvLinkedOnce, PTL

\* The pointer vmmWalk returned is good after the lock was dropped, for every
\* number of walks that other CPUs make in between.
THEOREM LateWriteIsRight == Spec => []WalkStaysValid
  BY InvHolds, InvWalkValid, PTL

\* A CPU has an old translation of a page only if another CPU wrote its entry
\* last, or its own call is about to run invlpg.
THEOREM OwnTlbIsFresh == Spec => []StaleOnlyFromRemote
  BY InvHolds, PTL DEF IInv
-----------------------------------------------------------------------------
(* Proof that Vmm implements AddressSpace, for every number of CPUs, frames *)
(* and pages.                                                               *)

\* The instance's map and jobs.
maps == [v \in Virts |-> Translate(v)]
jobs == [c \in Cpus |-> Job(c)]

\* What is left of a call for k pages from v, to be mapped from p on.
Left(u, v, p, k) ==
  IF k = 0
  THEN [kind |-> "none", virt |-> 0, phys |-> 0, n |-> 0]
  ELSE [kind |-> IF u THEN "unmap" ELSE "map",
        virt |-> v, phys |-> IF u THEN 0 ELSE p, n |-> k]

-----------------------------------------------------------------------------
(* What is seen of a state.                                                 *)

LEMMA CallTypes ==
  ASSUME TypeOK, NEW c \in Cpus
  PROVE  n[c] \in Nat /\ virt[c] \in Nat /\ phys[c] \in Nat /\ unmap[c] \in BOOLEAN
<1>1. /\ n[c] \in 0 .. MaxRun /\ virt[c] \in Virts \cup {0} /\ phys[c] \in Phys \cup {0}
      /\ unmap[c] \in BOOLEAN
  BY DEF TypeOK
<1> QED
  BY <1>1, MaxRunAssumption, PagesAreNumbers

\* Up to the write the current page is part of the job, then it is not.
LEMMA JobIsLeft ==
  ASSUME TypeOK, NEW c \in Cpus
  PROVE  /\ pc[c] # "invlpg" => Job(c) = Left(unmap[c], virt[c], phys[c], n[c])
         /\ pc[c] = "invlpg" => Job(c) = Left(unmap[c], virt[c] + 1, phys[c] + 1, n[c] - 1)
<1>1. n[c] \in Nat /\ virt[c] \in Nat /\ phys[c] \in Nat
  BY CallTypes
<1>2. CASE pc[c] # "invlpg"
  <2>1. n[c] - n[c] = 0 /\ virt[c] + 0 = virt[c] /\ phys[c] + 0 = phys[c]
    BY <1>1
  <2> QED
    BY <1>2, <2>1 DEF Job, Left
<1>3. CASE pc[c] = "invlpg"
  <2>1. n[c] - (n[c] - 1) = 1
    BY <1>1
  <2> QED
    BY <1>3, <2>1 DEF Job, Left
<1> QED
  BY <1>2, <1>3

\* The same after a step that ends anywhere but in front of invlpg.
LEMMA JobIsLeftNext ==
  ASSUME TypeOK', NEW c \in Cpus, pc'[c] # "invlpg"
  PROVE  Job(c)' = Left(unmap'[c], virt'[c], phys'[c], n'[c])
<1>1. n'[c] \in Nat /\ virt'[c] \in Nat /\ phys'[c] \in Nat
  <2>1. /\ n'[c] \in 0 .. MaxRun /\ virt'[c] \in Virts \cup {0} /\ phys'[c] \in Phys \cup {0}
    BY DEF TypeOK
  <2> QED
    BY <2>1, MaxRunAssumption, PagesAreNumbers
<1>2. n'[c] - n'[c] = 0 /\ virt'[c] + 0 = virt'[c] /\ phys'[c] + 0 = phys'[c]
  BY <1>1
<1> QED
  BY <1>2 DEF Job, Left

\* The loop of vmmMapPages and the abstract job take the same step.
LEMMA NextPageShortens ==
  ASSUME IInv, TypeOK', NEW c \in Cpus, pc[c] \in {"walk", "invlpg"}, NextPage(c)
  PROVE  Job(c)' = Left(unmap[c], virt[c] + 1, phys[c] + 1, n[c] - 1)
<1> USE DEF NextPage, Goto
<1>1. /\ TypeOK /\ n[c] \in Nat /\ n[c] > 0 /\ virt[c] \in Nat /\ phys[c] \in Nat
      /\ unmap[c] \in BOOLEAN
  BY CallTypes DEF IInv, CpusInv, CallInv
<1>2. pc'[c] # "invlpg" /\ n'[c] = n[c] - 1
  BY <1>1 DEF TypeOK
<1>3. Job(c)' = Left(unmap'[c], virt'[c], phys'[c], n'[c])
  BY <1>2, JobIsLeftNext
<1>4. CASE n[c] = 1
  BY <1>1, <1>2, <1>3, <1>4 DEF Left
<1>5. CASE n[c] # 1
  <2>1. virt'[c] = virt[c] + 1 /\ phys'[c] = IF unmap[c] THEN 0 ELSE phys[c] + 1
    BY <1>1, <1>5 DEF TypeOK
  <2>2. unmap'[c] = (unmap[c] /\ ~ (n[c] = 1))
    BY <1>1 DEF TypeOK
  <2>3. unmap'[c] <=> unmap[c]
    BY <1>5, <2>2
  <2> QED
    BY <1>2, <1>3, <2>1, <2>3 DEF Left
<1> QED
  BY <1>4, <1>5

LEMMA AbstractNext ==
  ASSUME NEW u \in BOOLEAN, NEW v \in Nat, NEW p \in Nat, NEW k \in Nat \ {0}
  PROVE  Abstract!Next1(Left(u, v, p, k)) = Left(u, v + 1, p + 1, k - 1)
<1>1. CASE k = 1
  BY <1>1 DEF Abstract!Next1, Abstract!NoJob, Left
<1>2. CASE k # 1
  <2> DEFINE K == IF u THEN "unmap" ELSE "map"
             q == IF u THEN 0 ELSE p
             j == [kind |-> K, virt |-> v, phys |-> q, n |-> k]
  <2>1. Left(u, v, p, k) = j /\ k - 1 # 0
    BY <1>2 DEF Left
  <2>2. j.n # 1 /\ j.kind = K /\ j.phys = q /\ j.virt = v /\ j.n = k
    BY <1>2
  <2>3. (IF K = "map" THEN q + 1 ELSE q) = IF u THEN 0 ELSE p + 1
    OBVIOUS
  <2>4. Abstract!Next1(j) = [kind |-> K, virt |-> v + 1, phys |-> IF u THEN 0 ELSE p + 1, n |-> k - 1]
    <3> HIDE DEF K, q
    <3> QED
      BY <2>2, <2>3 DEF Abstract!Next1
  <2> QED
    BY <2>1, <2>4 DEF Left
<1> QED
  BY <1>1, <1>2

\* A step of c shows in the job of c only.
LEMMA OthersJobsKept ==
  ASSUME NEW c \in Cpus, \A d \in Cpus \ {c} : Untouched(d)
  PROVE  \A d \in Cpus \ {c} : Job(d)' = Job(d)
  BY DEF Job, Untouched

LEMMA JobsFollow ==
  ASSUME NEW c \in Cpus, \A d \in Cpus \ {c} : Untouched(d), NEW j, Job(c)' = j
  PROVE  jobs' = [jobs EXCEPT ![c] = j]
<1>1. \A d \in Cpus \ {c} : Job(d)' = Job(d)
  BY OthersJobsKept
<1> QED
  BY <1>1 DEF jobs

LEMMA MapsKept ==
  ASSUME \A v \in Virts : PageIn(mem', v) = PageIn(mem, v)
  PROVE  maps' = maps
<1>1. \A v \in Virts : Translate(v)' = Translate(v)
  BY PathIsPath
<1> QED
  BY <1>1 DEF maps

-----------------------------------------------------------------------------
(* Every step is one of the abstract address space, or none at all.         *)

\* The call itself.
LEMMA SimulateRequest ==
  ASSUME IInv, TypeOK', NEW c \in Cpus, NEW v \in Virts, NEW k \in 1 .. MaxRun,
         \/ \E p \in Phys : CallMapPages(c, v, p, k)
         \/ CallUnmapPages(c, v, k)
  PROVE  Abstract!Request(c)
<1> USE DEF callVars, walkVars, Goto
<1>1. PICK p \in Phys \cup {0}, u \in BOOLEAN :
        /\ pc[c] = "idle" /\ pc' = [pc EXCEPT ![c] = "acquire"]
        /\ virt' = [virt EXCEPT ![c] = v] /\ n' = [n EXCEPT ![c] = k]
        /\ phys' = [phys EXCEPT ![c] = p] /\ unmap' = [unmap EXCEPT ![c] = u]
        /\ UNCHANGED <<mem, fresh, level, table>>
        /\ v .. v + k - 1 \subseteq Virts
        /\ ~u => p \in Phys /\ p .. p + k - 1 \subseteq Phys
  BY DEF CallMapPages, CallUnmapPages
<1>2. TypeOK /\ n[c] = 0 /\ k # 0
  BY <1>1, MaxRunAssumption DEF IInv, CpusInv, CallInv
<1>3. /\ pc'[c] = "acquire" /\ virt'[c] = v /\ n'[c] = k /\ phys'[c] = p /\ unmap'[c] = u
      /\ \A d \in Cpus \ {c} : Untouched(d)
  BY <1>1, <1>2 DEF TypeOK, Untouched
<1>4. jobs[c] = Abstract!NoJob
  BY <1>1, <1>2, JobIsLeft DEF jobs, Left, Abstract!NoJob
<1>5. jobs' = [jobs EXCEPT ![c] = Left(u, v, p, k)]
  <2>1. Job(c)' = Left(u, v, p, k)
    BY <1>3, JobIsLeftNext
  <2> QED
    BY <1>3, <2>1, JobsFollow
<1>6. maps' = maps
  BY <1>1, MapsKept
<1>7. ASSUME jobs[c] = Abstract!NoJob, maps' = maps,
             \/ \E q \in Phys :
                  /\ q .. q + k - 1 \subseteq Phys
                  /\ jobs' = [jobs EXCEPT ![c] = [kind |-> "map", virt |-> v, phys |-> q, n |-> k]]
             \/ jobs' = [jobs EXCEPT ![c] = [kind |-> "unmap", virt |-> v, phys |-> 0, n |-> k]]
      PROVE  Abstract!Request(c)
  BY <1>1, <1>7, Zenon DEF Abstract!Request, maps, jobs
<1>8. CASE u
  <2>1. Left(u, v, p, k) = [kind |-> "unmap", virt |-> v, phys |-> 0, n |-> k]
    BY <1>2, <1>8 DEF Left
  <2> QED
    BY <1>4, <1>5, <1>6, <1>7, <2>1
<1>9. CASE ~u
  <2>1. Left(u, v, p, k) = [kind |-> "map", virt |-> v, phys |-> p, n |-> k]
    BY <1>2, <1>9 DEF Left
  <2> QED
    BY <1>1, <1>4, <1>5, <1>6, <1>9, <1>7, <2>1
<1> QED
  BY <1>8, <1>9

\* A step of a walk, whatever it does to the tables.
LEMMA SimulateWalk ==
  ASSUME NEW c \in Cpus, \A v \in Virts : PageIn(mem', v) = PageIn(mem, v),
         UNCHANGED callVars, NEW l, pc' = [pc EXCEPT ![c] = l],
         TypeOK, pc[c] # "invlpg", l # "invlpg"
  PROVE  UNCHANGED <<maps, jobs>>
<1>1. \A d \in Cpus : pc'[d] = pc[d] \/ (pc[d] # "invlpg" /\ pc'[d] # "invlpg")
  BY DEF TypeOK
<1>2. \A d \in Cpus : Job(d)' = Job(d)
  BY <1>1 DEF Job, callVars
<1> QED
  BY <1>2, MapsKept DEF jobs

\* The write of the entry is the abstract step.
LEMMA SimulateWrite ==
  ASSUME IInv, TypeOK', NEW c \in Cpus, WriteEntry(c)
  PROVE  Abstract!MapPage(c) \/ Abstract!UnmapPage(c)
<1> USE DEF callVars, walkVars, Goto
<1>1. /\ pc[c] = "write" /\ pc' = [pc EXCEPT ![c] = "invlpg"]
      /\ UNCHANGED <<callVars, walkVars>>
  BY DEF WriteEntry
<1>2. /\ TypeOK /\ n[c] \in Nat \ {0} /\ virt[c] \in Nat /\ phys[c] \in Nat
      /\ unmap[c] \in BOOLEAN /\ virt[c] \in Virts
  BY <1>1, CallTypes, CurrentPage DEF IInv, CpusInv, CallInv
<1>3. pc'[c] = "invlpg" /\ \A d \in Cpus \ {c} : Untouched(d)
  BY <1>1, <1>2 DEF TypeOK, Untouched
<1>4. jobs[c] = Left(unmap[c], virt[c], phys[c], n[c])
  BY <1>1, <1>2, JobIsLeft DEF jobs
<1>5. Job(c)' = Left(unmap[c], virt[c] + 1, phys[c] + 1, n[c] - 1)
  <2>1. n[c] - (n[c] - 1) = 1
    BY <1>2
  <2> QED
    BY <1>1, <1>3, <2>1 DEF Job, Left
<1>6. jobs' = [jobs EXCEPT ![c] = Abstract!Next1(jobs[c])]
  <2>1. Job(c)' = Abstract!Next1(jobs[c])
    BY <1>2, <1>4, <1>5, AbstractNext
  <2> QED
    BY <1>3, <2>1, JobsFollow
<1>7. maps' = [maps EXCEPT ![virt[c]] = IF unmap[c] THEN Empty ELSE phys[c]]
  <2>1. /\ PageIn(mem', virt[c]) = IF unmap[c] THEN Empty ELSE phys[c]
        /\ \A v \in Virts \ {virt[c]} : PageIn(mem', v) = PageIn(mem, v)
    BY WriteEntryKeepsInv
  <2>2. /\ \A v \in Virts : Translate(v) = PageIn(mem, v)
        /\ \A v \in Virts : Translate(v)' = PageIn(mem', v)
    BY PathIsPath
  <2> QED
    BY <1>2, <2>1, <2>2 DEF maps
<1>8. CASE unmap[c]
  <2>1. jobs[c].kind = "unmap" /\ jobs[c].virt = virt[c]
    BY <1>2, <1>4, <1>8 DEF Left
  <2> QED
    BY <1>6, <1>7, <1>8, <2>1 DEF Abstract!UnmapPage, Abstract!Unmapped, Empty, maps, jobs
<1>9. CASE ~unmap[c]
  <2>1. jobs[c].kind = "map" /\ jobs[c].virt = virt[c] /\ jobs[c].phys = phys[c]
    BY <1>2, <1>4, <1>9 DEF Left
  <2> QED
    BY <1>6, <1>7, <1>9, <2>1 DEF Abstract!MapPage, maps, jobs
<1> QED
  BY <1>8, <1>9

\* The walk of an unmap that finds no table has found that nothing is mapped.
LEMMA SimulateNothingToUnmap ==
  ASSUME IInv, TypeOK', NEW c \in Cpus, Drop(c), table[c] = 0
  PROVE  Abstract!UnmapPage(c)
<1>1. pc[c] = "walk" /\ level[c] = 1 /\ mem' = mem /\ NextPage(c)
  BY DEF Drop
<1>2. /\ TypeOK /\ CallInv(c) /\ WalkInv(c) /\ n[c] \in Nat \ {0} /\ virt[c] \in Nat
      /\ phys[c] \in Nat /\ unmap[c] \in BOOLEAN /\ virt[c] \in Virts
  BY <1>1, CallTypes, CurrentPage DEF IInv, CpusInv, CallInv
<1>3. \A d \in Cpus \ {c} : Untouched(d)
  BY <1>1, <1>2, NextPageFacts
<1>4. jobs[c] = Left(unmap[c], virt[c], phys[c], n[c])
  BY <1>1, <1>2, JobIsLeft DEF jobs
<1>5. jobs' = [jobs EXCEPT ![c] = Abstract!Next1(jobs[c])]
  <2>1. Job(c)' = Abstract!Next1(jobs[c])
    <3>1. Job(c)' = Left(unmap[c], virt[c] + 1, phys[c] + 1, n[c] - 1)
      BY <1>1, NextPageShortens
    <3> QED
      BY <1>2, <1>4, <3>1, AbstractNext
  <2> QED
    BY <1>3, <2>1, JobsFollow
<1>6. maps' = maps /\ maps[virt[c]] = Empty
  <2>1. Translate(virt[c]) = Empty
    BY <1>1, <1>2, PathIsPath DEF WalkInv, PageIn, Under, Empty
  <2> QED
    BY <1>1, <1>2, <2>1, MapsKept DEF maps
<1>7. jobs[c].kind = "unmap" /\ jobs[c].virt = virt[c]
  <2>1. unmap[c]
    BY <1>2 DEF WalkInv
  <2> QED
    BY <1>2, <1>4, <2>1 DEF Left
<1>8. maps' = [maps EXCEPT ![virt[c]] = Empty]
  BY <1>2, <1>6 DEF maps
<1> QED
  BY <1>5, <1>7, <1>8 DEF Abstract!UnmapPage, Abstract!Unmapped, Empty, maps, jobs

\* The abstract job was shortened by the write already.
LEMMA SimulateInvalidate ==
  ASSUME IInv, TypeOK', NEW c \in Cpus, InvalidatePage(c)
  PROVE  UNCHANGED <<maps, jobs>>
<1>1. pc[c] = "invlpg" /\ mem' = mem /\ NextPage(c)
  BY DEF InvalidatePage
<1>2. TypeOK /\ CallInv(c) /\ WalkInv(c)
  BY DEF IInv, CpusInv
<1>3. \A d \in Cpus \ {c} : Untouched(d)
  BY <1>1, <1>2, NextPageFacts
<1>4. Job(c)' = Job(c)
  BY <1>1, <1>2, JobIsLeft, NextPageShortens
<1>5. \A d \in Cpus : Job(d)' = Job(d)
  BY <1>3, <1>4, OthersJobsKept
<1> QED
  BY <1>1, <1>5, MapsKept DEF jobs

LEMMA Simulation ==
  ASSUME IInv, IInv', [Next]_vars
  PROVE  [Abstract!AbsNext]_(Abstract!absVars)
<1> USE DEF callVars, walkVars, Goto
<1>1. TypeOK /\ TypeOK'
  BY DEF IInv
<1>2. ASSUME UNCHANGED <<maps, jobs>> PROVE UNCHANGED Abstract!absVars
  BY <1>2 DEF Abstract!absVars, maps, jobs
<1>3. CASE UNCHANGED vars
  <2>1. UNCHANGED <<mem, pc, callVars>>
    BY <1>3 DEF vars
  <2>2. maps' = maps
    BY <2>1, MapsKept
  <2>3. jobs' = jobs
    BY <2>1 DEF jobs, Job
  <2> QED
    BY <1>2, <2>2, <2>3
<1>4. CASE Next
  <2>1. PICK c \in Cpus :
          \/ \E v \in Virts, p \in Phys, k \in 1 .. MaxRun : CallMapPages(c, v, p, k)
          \/ \E v \in Virts, k \in 1 .. MaxRun : CallUnmapPages(c, v, k)
          \/ Walk(c)
          \/ WriteEntry(c)
          \/ InvalidatePage(c)
          \/ \E v \in TlbVirts : TlbFill(c, v)
    BY <1>4 DEF Next
  <2>2. CASE \/ \E v \in Virts, p \in Phys, k \in 1 .. MaxRun : CallMapPages(c, v, p, k)
             \/ \E v \in Virts, k \in 1 .. MaxRun : CallUnmapPages(c, v, k)
    <3>1. Abstract!Request(c)
      BY <1>1, <2>2, SimulateRequest
    <3> QED
      BY <3>1 DEF Abstract!AbsNext
  <2>3. CASE Acquire(c) \/ Missing(c) \/ Fault(c) \/ AllocTable(c) \/ OutOfMemory(c)
    <3>1. /\ UNCHANGED <<mem, callVars>> /\ pc[c] # "invlpg"
          /\ \E l \in {"walk", "alloc", "halted", "zero"} : pc' = [pc EXCEPT ![c] = l]
      BY <2>3 DEF Acquire, Missing, Fault, AllocTable, OutOfMemory
    <3>2. \A v \in Virts : PageIn(mem', v) = PageIn(mem, v)
      BY <3>1
    <3> QED
      BY <1>1, <1>2, <3>1, <3>2, SimulateWalk
  <2>4. CASE Descend(c) \/ \E v \in TlbVirts : TlbFill(c, v)
    <3>1. UNCHANGED <<mem, pc, callVars>>
      BY <2>4 DEF Descend, TlbFill
    <3>2. maps' = maps
      BY <3>1, MapsKept
    <3>3. jobs' = jobs
      BY <3>1 DEF jobs, Job
    <3> QED
      BY <1>2, <3>2, <3>3
  <2>5. CASE ZeroTable(c) \/ LinkTable(c)
    <3>1. /\ UNCHANGED callVars /\ pc[c] # "invlpg"
          /\ \E l \in {"link", "walk"} : pc' = [pc EXCEPT ![c] = l]
      BY <2>5 DEF ZeroTable, LinkTable
    <3>2. \A v \in Virts : PageIn(mem', v) = PageIn(mem, v)
      BY <2>5, ZeroTableKeepsInv, LinkTableKeepsInv
    <3> QED
      BY <1>1, <1>2, <3>1, <3>2, SimulateWalk
  <2>6. CASE Drop(c) /\ table[c] # 0
    <3>1. UNCHANGED <<mem, callVars>> /\ pc[c] # "invlpg" /\ pc' = [pc EXCEPT ![c] = "write"]
      BY <2>6 DEF Drop
    <3>2. \A v \in Virts : PageIn(mem', v) = PageIn(mem, v)
      BY <3>1
    <3> QED
      BY <1>1, <1>2, <3>1, <3>2, SimulateWalk
  <2>7. CASE Drop(c) /\ table[c] = 0
    <3>1. Abstract!UnmapPage(c)
      BY <1>1, <2>7, SimulateNothingToUnmap
    <3> QED
      BY <3>1 DEF Abstract!AbsNext
  <2>8. CASE WriteEntry(c)
    <3>1. Abstract!MapPage(c) \/ Abstract!UnmapPage(c)
      BY <1>1, <2>8, SimulateWrite
    <3> QED
      BY <3>1 DEF Abstract!AbsNext
  <2>9. CASE InvalidatePage(c)
    BY <1>1, <1>2, <2>9, SimulateInvalidate
  <2> QED
    BY <2>1, <2>2, <2>3, <2>4, <2>5, <2>6, <2>7, <2>8, <2>9 DEF Walk
<1> QED
  BY <1>3, <1>4

\* At first nothing is mapped and nobody has a call.
LEMMA InitMapsToInit == Init => Abstract!AbsInit
<1> SUFFICES ASSUME Init PROVE Abstract!AbsInit
  OBVIOUS
<1>1. IInv
  BY InvInit
<1>2. jobs = [c \in Cpus |-> Abstract!NoJob]
  <2>1. \A c \in Cpus : Job(c) = Left(unmap[c], virt[c], phys[c], n[c])
    BY <1>1, JobIsLeft DEF Init, IInv
  <2> QED
    BY <2>1 DEF Init, Left, Abstract!NoJob, jobs
<1>3. \A v \in Virts : Translate(v) = Empty
  <2>1. \A v \in Virts : IndexAt(v, 4) \in Index
    BY IndexInRange, PagesAreNumbers
  <2> QED
    BY <2>1, FramesAssumption DEF Init, Translate, Below, Empty
<1> QED
  BY <1>2, <1>3 DEF Abstract!AbsInit, Abstract!Unmapped, Empty, jobs

\* vmmMapPages and vmmUnmapPages on four levels of tables, from any number of
\* CPUs at once, are a map from pages to pages that changes one page at a time
\* and only by request.
THEOREM PageTablesAreAMap == Spec => ImplementsAddressSpace
<1>1. IInv /\ IInv' /\ [Next]_vars => [Abstract!AbsNext]_(Abstract!absVars)
  BY Simulation
<1> QED
  BY <1>1, InitMapsToInit, InvHolds, PTL DEF Spec, ImplementsAddressSpace, Abstract!AbsSpec
=============================================================================
