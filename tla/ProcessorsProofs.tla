-------------------------- MODULE ProcessorsProofs --------------------------
(* Proofs about the processors and the kernel's locks, for any number of    *)
(* processors, exceptions and page tables.                                  *)
(*                                                                          *)
(* The argument is a typing of code: a sequence of instructions runs from   *)
(* one state of its processor, the locks it holds and the characters of its *)
(* line, to another.  Every function of the kernel ends in the state it     *)
(* began in, and takes no lock that ranks below one that is held.           *)
EXTENDS Processors, FiniteSetTheorems, WellFoundedInduction, TLAPS

\* A set of natural numbers has a least element.
LEMMA LeastExists ==
  ASSUME NEW S \in SUBSET Nat, S # {}
  PROVE  \E m \in S : \A n \in S : m <= n
<1> DEFINE R == {p \in Nat \X Nat : p[1] < p[2]}
<1>1. IsWellFoundedOn(R, Nat)
  BY NatLessThanWellFounded DEF OpToRel
<1>2. PICK m \in S : \A n \in S : ~ (<<n, m>> \in R)
  BY <1>1, WFMin
<1>3. \A n \in S : ~ (n < m)
  BY <1>2
<1> QED
  BY <1>3

\* The places of a concatenation.
LEMMA Joined ==
  ASSUME NEW T, NEW a \in Seq(T), NEW b \in Seq(T)
  PROVE  /\ a \o b \in Seq(T)
         /\ Len(a \o b) = Len(a) + Len(b)
         /\ \A i \in 1 .. Len(a) : (a \o b)[i] = a[i]
         /\ \A i \in 1 .. Len(b) : (a \o b)[Len(a) + i] = b[i]
  OBVIOUS

-----------------------------------------------------------------------------
(* What code does to the processor that runs it. *)

Functions == {"pmmAlloc", "vmmWalk", "slabAlloc"}

Instructions ==
  {Acquire(l) : l \in Locks} \cup {Drop(l) : l \in Locks} \cup {Call(f) : f \in Functions}
    \cup {Put, Panic} \cup {Start(c) : c \in Cpus}

\* The order in which the kernel nests its locks.
Rank(l) ==
  IF l = "cache" THEN 1 ELSE IF l = "walk" THEN 2 ELSE IF l = "pmm" THEN 3
  ELSE IF l = "printf" THEN 4 ELSE 5

Under(l) == {k \in Locks : Rank(k) < Rank(l)}

\* The lock a function takes first.
First(f) ==
  IF f = "slabAlloc" THEN "cache" ELSE IF f = "vmmWalk" THEN "walk" ELSE "pmm"

\* held: the locks the processor holds; put: the characters of its line.  The
\* lock of the serial port is taken in printf only.
States ==
  {s \in [held : SUBSET Locks, put : 0 .. LineLength] : "serial" \in s.held => "printf" \in s.held}

Idle == [held |-> {}, put |-> 0]

DoesAcquire(x, s, t) ==
  \E l \in Locks : /\ x = Acquire(l)
                   /\ s.held \subseteq Under(l)
                   /\ t.held = s.held \cup {l}
                   /\ t.put = s.put
                   /\ l = "printf" => s.put = 0

DoesDrop(x, s, t) ==
  \E l \in Locks : /\ x = Drop(l)
                   /\ l \in s.held
                   /\ t.held = s.held \ {l}
                   /\ IF l = "printf" THEN s.put = LineLength /\ t.put = 0 ELSE t.put = s.put

DoesPut(x, s, t) ==
  /\ x = Put
  /\ "printf" \in s.held
  /\ t.held = s.held
  /\ t.put = s.put + 1

DoesCall(x, s, t) ==
  \E f \in Functions : /\ x = Call(f)
                       /\ s.held \subseteq Under(First(f))
                       /\ s.put = 0
                       /\ t = s

\* panic does not return: what is left of the callers' code needs no pmmLock.
DoesPanic(x, s, t) ==
  /\ x = Panic
  /\ s.held \subseteq Under("printf")
  /\ t.held = s.held \ {"pmm"}
  /\ t.put = s.put

DoesStart(x, s, t) ==
  \E c \in Cpus : x = Start(c) /\ t = s

\* Instruction x takes a processor from s to t.
Does(x, s, t) ==
  \/ DoesAcquire(x, s, t)
  \/ DoesDrop(x, s, t)
  \/ DoesPut(x, s, t)
  \/ DoesCall(x, s, t)
  \/ DoesPanic(x, s, t)
  \/ DoesStart(x, s, t)

\* Code k takes a processor from s to t, through the states h.
Through(k, h, s, t) ==
  /\ h \in [1 .. Len(k) + 1 -> States]
  /\ h[1] = s /\ h[Len(k) + 1] = t
  /\ \A i \in 1 .. Len(k) : Does(k[i], h[i], h[i + 1])

Runs(k, s, t) == k \in Seq(Instructions) /\ \E h : Through(k, h, s, t)

-----------------------------------------------------------------------------
(* Code that is put together. *)

LEMMA RunsNothing ==
  ASSUME NEW s \in States
  PROVE  Runs(<<>>, s, s)
<1>1. Through(<<>>, [i \in 1 .. 1 |-> s], s, s)
  BY DEF Through
<1> QED
  BY <1>1 DEF Runs

\* Code that changes nothing.
LEMMA RunsInPlace ==
  ASSUME NEW k \in Seq(Instructions), NEW s \in States, \A i \in 1 .. Len(k) : Does(k[i], s, s)
  PROVE  Runs(k, s, s)
<1> DEFINE h == [i \in 1 .. Len(k) + 1 |-> s]
<1>1. Len(k) \in Nat
  OBVIOUS
<1>2. Through(k, h, s, s)
  BY <1>1 DEF Through
<1> QED
  BY <1>2 DEF Runs

LEMMA RunsOne ==
  ASSUME NEW x \in Instructions, NEW s \in States, NEW t \in States, Does(x, s, t)
  PROVE  Runs(<<x>>, s, t)
<1> DEFINE h == [i \in 1 .. 2 |-> IF i = 1 THEN s ELSE t]
<1>1. /\ Len(<<x>>) = 1 /\ <<x>>[1] = x /\ <<x>> \in Seq(Instructions)
      /\ h \in [1 .. 2 -> States] /\ h[1] = s /\ h[2] = t
  OBVIOUS
<1> HIDE DEF h
<1>2. Through(<<x>>, h, s, t)
  BY <1>1 DEF Through
<1> QED
  BY <1>1, <1>2 DEF Runs

LEMMA RunsJoin ==
  ASSUME NEW j, NEW k, NEW r, NEW s, NEW t, Runs(j, r, s), Runs(k, s, t)
  PROVE  Runs(j \o k, r, t)
<1>1. j \in Seq(Instructions) /\ k \in Seq(Instructions)
  BY DEF Runs
<1>2. PICK g : Through(j, g, r, s)
  BY DEF Runs
<1>3. PICK h : Through(k, h, s, t)
  BY DEF Runs
<1> DEFINE n == Len(j)
           m == Len(k)
           jk == j \o k
           e == [i \in 1 .. n + m + 1 |-> IF i <= n THEN g[i] ELSE h[i - n]]
<1>4. /\ jk \in Seq(Instructions) /\ Len(jk) = n + m /\ n \in Nat /\ m \in Nat
      /\ \A i \in 1 .. n : jk[i] = j[i]
      /\ \A i \in 1 .. m : jk[n + i] = k[i]
  BY <1>1, Joined
<1>5. /\ g \in [1 .. n + 1 -> States] /\ g[1] = r /\ g[n + 1] = s
      /\ \A i \in 1 .. n : Does(j[i], g[i], g[i + 1])
  BY <1>2 DEF Through
<1>6. /\ h \in [1 .. m + 1 -> States] /\ h[1] = s /\ h[m + 1] = t
      /\ \A i \in 1 .. m : Does(k[i], h[i], h[i + 1])
  BY <1>3 DEF Through
<1> HIDE DEF n, m, jk
<1>7. e \in [1 .. n + m + 1 -> States]
  <2>1. ASSUME NEW i \in 1 .. n + m + 1
        PROVE  (IF i <= n THEN g[i] ELSE h[i - n]) \in States
    <3>1. CASE i <= n
      <4>1. i \in 1 .. n + 1
        BY <1>4, <3>1
      <4>2. g[i] \in States
        BY <1>5, <4>1
      <4> QED
        BY <3>1, <4>2
    <3>2. CASE ~ (i <= n)
      <4>1. i - n \in 1 .. m + 1
        BY <1>4, <3>2
      <4>2. h[i - n] \in States
        BY <1>6, <4>1
      <4> QED
        BY <3>2, <4>2
    <3> QED
      BY <3>1, <3>2
  <2> QED
    BY <2>1
<1>8. \A i \in 1 .. n : e[i] = g[i]
  BY <1>4
<1>9. ASSUME NEW i \in 1 .. m + 1 PROVE e[n + i] = h[i]
  <2>1. n + i \in 1 .. n + m + 1 /\ ~ (n + i <= n)
    BY <1>4
  <2>2. e[n + i] = h[(n + i) - n]
    BY <2>1
  <2>3. (n + i) - n = i
    BY <1>4
  <2> QED
    BY <2>2, <2>3
<1> HIDE DEF e
<1>10. e[1] = r
  <2>1. CASE n = 0
    <3>1. e[n + 1] = h[1] /\ n + 1 = 1
      BY <1>4, <1>9, <2>1
    <3> QED
      BY <1>5, <1>6, <2>1, <3>1
  <2>2. CASE n # 0
    BY <1>4, <1>5, <1>8, <2>2
  <2> QED
    BY <2>1, <2>2
<1>11. e[n + m + 1] = t
  <2>1. n + (m + 1) = n + m + 1 /\ m + 1 \in 1 .. m + 1
    BY <1>4
  <2>2. e[n + (m + 1)] = h[m + 1]
    BY <1>9, <2>1
  <2> QED
    BY <1>6, <2>1, <2>2
<1>12. ASSUME NEW i \in 1 .. n + m
       PROVE  Does(jk[i], e[i], e[i + 1])
  <2>1. CASE i < n
    <3>1. i \in 1 .. n /\ i + 1 \in 1 .. n
      BY <1>4, <2>1
    <3> QED
      BY <1>4, <1>5, <1>8, <3>1
  <2>2. CASE i = n
    <3>1. n \in 1 .. n /\ 1 \in 1 .. m + 1
      BY <1>4, <2>2
    <3>2. e[n] = g[n] /\ e[n + 1] = h[1] /\ g[n + 1] = h[1] /\ jk[n] = j[n]
      BY <1>4, <1>5, <1>6, <1>8, <1>9, <3>1
    <3> QED
      BY <1>5, <2>2, <3>1, <3>2
  <2>3. ASSUME NEW q \in 1 .. m PROVE Does(jk[n + q], e[n + q], e[n + q + 1])
    <3>1. q \in 1 .. m + 1 /\ q + 1 \in 1 .. m + 1 /\ n + (q + 1) = n + q + 1
      BY <1>4
    <3>2. e[n + q] = h[q] /\ e[n + (q + 1)] = h[q + 1] /\ jk[n + q] = k[q]
      BY <1>4, <1>9, <3>1
    <3> QED
      BY <1>6, <3>1, <3>2
  <2>4. CASE n < i
    <3> DEFINE q == i - n
    <3>1. q \in 1 .. m /\ n + q = i
      BY <1>4, <2>4
    <3> HIDE DEF q
    <3> QED
      BY <2>3, <3>1
  <2> QED
    BY <1>4, <2>1, <2>2, <2>4
<1>13. Through(jk, e, r, t)
  BY <1>4, <1>7, <1>10, <1>11, <1>12 DEF Through
<1> QED
  BY <1>4, <1>13 DEF Runs, jk

\* The first instruction, and the rest.
LEMMA RunsStep ==
  ASSUME NEW k, NEW s, NEW t, Runs(k, s, t), k # <<>>
  PROVE  /\ Head(k) \in Instructions /\ s \in States
         /\ \E r \in States : Does(Head(k), s, r) /\ Runs(Tail(k), r, t)
<1>1. k \in Seq(Instructions)
  BY DEF Runs
<1>2. PICK h : Through(k, h, s, t)
  BY DEF Runs
<1> DEFINE n == Len(k)
           tl == Tail(k)
           g == [i \in 1 .. n |-> h[i + 1]]
<1>3. /\ n \in Nat /\ n # 0 /\ Head(k) = k[1] /\ k[1] \in Instructions
      /\ tl \in Seq(Instructions) /\ Len(tl) = n - 1
      /\ \A i \in 1 .. n - 1 : tl[i] = k[i + 1]
  BY <1>1
<1>4. /\ h \in [1 .. n + 1 -> States] /\ h[1] = s /\ h[n + 1] = t
      /\ \A i \in 1 .. n : Does(k[i], h[i], h[i + 1])
  BY <1>2 DEF Through
<1> HIDE DEF n, tl
<1>5. g \in [1 .. n -> States] /\ g[1] = h[2] /\ g[n] = t
  BY <1>3, <1>4
<1>6. ASSUME NEW i \in 1 .. n - 1
      PROVE  Does(tl[i], g[i], g[i + 1])
  <2>1. i \in 1 .. n /\ i + 1 \in 1 .. n /\ tl[i] = k[i + 1]
    BY <1>3
  <2>2. g[i] = h[i + 1] /\ g[i + 1] = h[i + 1 + 1]
    BY <2>1
  <2> QED
    BY <1>4, <2>1, <2>2
<1>7. Does(Head(k), s, h[2]) /\ s \in States /\ h[2] \in States
  BY <1>3, <1>4
<1> HIDE DEF g
<1>8. Through(tl, g, h[2], t)
  <2>1. Len(tl) + 1 = n
    BY <1>3
  <2> QED
    BY <1>3, <1>5, <1>6, <2>1 DEF Through
<1>9. Runs(tl, h[2], t)
  BY <1>3, <1>8 DEF Runs
<1> QED
  BY <1>3, <1>7, <1>9 DEF tl

LEMMA RunsEnd ==
  ASSUME NEW s, NEW t, Runs(<<>>, s, t)
  PROVE  s = t
  BY DEF Runs, Through

-----------------------------------------------------------------------------
(* The functions of the kernel. *)

LEMMA Order ==
  /\ Under("cache") = {} /\ Under("walk") = {"cache"} /\ Under("pmm") = {"cache", "walk"}
  /\ Under("printf") = {"cache", "walk", "pmm"}
  /\ Under("serial") = {"cache", "walk", "pmm", "printf"}
  BY DEF Under, Rank, Locks

\* A function may be called in such a state.
Silent(s, l) == s \in States /\ s.held \subseteq Under(l) /\ s.put = 0

LEMMA StateOf ==
  ASSUME NEW h \in SUBSET Locks, NEW n \in 0 .. LineLength, "serial" \in h => "printf" \in h
  PROVE  /\ [held |-> h, put |-> n] \in States
         /\ [held |-> h, put |-> n].held = h /\ [held |-> h, put |-> n].put = n
  BY DEF States

LEMMA StateIs ==
  ASSUME NEW s \in States
  PROVE  /\ s = [held |-> s.held, put |-> s.put] /\ s.held \in SUBSET Locks /\ s.put \in 0 .. LineLength
         /\ "serial" \in s.held => "printf" \in s.held
  BY DEF States

\* A critical section.
LEMMA RunsLocked ==
  ASSUME NEW l \in Locks, NEW body, NEW s \in States, NEW n \in 0 .. LineLength,
         s.held \subseteq Under(l), l = "serial" => "printf" \in s.held,
         Runs(body, [held |-> s.held \cup {l}, put |-> s.put], [held |-> s.held \cup {l}, put |-> n]),
         l = "printf" => s.put = 0 /\ n = LineLength
  PROVE  Runs(Locked(l, body), s, [held |-> s.held, put |-> IF l = "printf" THEN 0 ELSE n])
<1> DEFINE a == [held |-> s.held \cup {l}, put |-> s.put]
           b == [held |-> s.held \cup {l}, put |-> n]
           t == [held |-> s.held, put |-> IF l = "printf" THEN 0 ELSE n]
<1>1. /\ s.held \in SUBSET Locks /\ s.put \in 0 .. LineLength /\ l \notin s.held
      /\ "serial" \in s.held => "printf" \in s.held
      /\ l = "printf" => "serial" \notin s.held
  <2>1. /\ s.held \in SUBSET Locks /\ s.put \in 0 .. LineLength
        /\ "serial" \in s.held => "printf" \in s.held
    BY StateIs
  <2>2. l \notin Under(l)
    BY DEF Under, Rank
  <2>3. l = "printf" => "serial" \notin s.held
    BY Order
  <2> QED
    BY <2>1, <2>2, <2>3
<1>2. a \in States /\ b \in States /\ t \in States
  BY <1>1 DEF States, LineLength
<1>3. Acquire(l) \in Instructions /\ Drop(l) \in Instructions
  BY DEF Instructions
<1>4. Does(Acquire(l), s, a)
  BY DEF Does, DoesAcquire
<1>5. Does(Drop(l), b, t)
  <2>1. l \in b.held /\ t.held = b.held \ {l}
    BY <1>1
  <2>2. IF l = "printf" THEN b.put = LineLength /\ t.put = 0 ELSE t.put = b.put
    OBVIOUS
  <2> QED
    BY <2>1, <2>2 DEF Does, DoesDrop
<1>6. Runs(body, a, b)
  OBVIOUS
<1> HIDE DEF a, b, t
<1>7. Runs(<<Acquire(l)>>, s, a) /\ Runs(<<Drop(l)>>, b, t)
  BY <1>2, <1>3, <1>4, <1>5, RunsOne
<1>8. Runs(<<Acquire(l)>> \o body, s, b)
  BY <1>6, <1>7, RunsJoin
<1>9. Runs((<<Acquire(l)>> \o body) \o <<Drop(l)>>, s, t)
  BY <1>7, <1>8, RunsJoin
<1> QED
  BY <1>9 DEF Locked, t

\* One that does not print.
LEMMA RunsGuarded ==
  ASSUME NEW l \in Locks \ {"printf", "serial"}, NEW body, NEW s, Silent(s, l),
         Runs(body, [held |-> s.held \cup {l}, put |-> 0], [held |-> s.held \cup {l}, put |-> 0])
  PROVE  Runs(Locked(l, body), s, s)
<1>1. s \in States /\ s = [held |-> s.held, put |-> 0] /\ s.put = 0 /\ s.held \subseteq Under(l) /\ l \in Locks
  BY StateIs DEF Silent
<1>2. 0 \in 0 .. LineLength
  BY DEF LineLength
<1>3. Runs(Locked(l, body), s, [held |-> s.held, put |-> IF l = "printf" THEN 0 ELSE 0])
  BY <1>1, <1>2, RunsLocked
<1> QED
  BY <1>1, <1>3

LEMMA RunsSerialPutc ==
  ASSUME NEW h \in SUBSET Under("printf"), NEW n \in 0 .. LineLength - 1
  PROVE  Runs(serialPutc, [held |-> h \cup {"printf"}, put |-> n], [held |-> h \cup {"printf"}, put |-> n + 1])
<1> DEFINE s == [held |-> h \cup {"printf"}, put |-> n]
           g == (h \cup {"printf"}) \cup {"serial"}
           a == [held |-> g, put |-> n]
           b == [held |-> g, put |-> n + 1]
<1>1. h \cup {"printf"} \in SUBSET Locks /\ g \in SUBSET Locks /\ "serial" \in Locks /\ "serial" # "printf"
  BY Order DEF Locks
<1>2. s \in States /\ a \in States /\ b \in States /\ n + 1 \in 0 .. LineLength /\ n \in 0 .. LineLength
  BY <1>1 DEF States, LineLength
<1>3. s.held = h \cup {"printf"} /\ s.put = n
  OBVIOUS
<1>4. s.held \subseteq Under("serial")
  BY Order
<1>5. Runs(<<Put>>, a, b)
  <2>1. DoesPut(Put, a, b)
    BY DEF DoesPut
  <2>2. Put \in Instructions
    BY DEF Instructions
  <2> HIDE DEF a, b
  <2> QED
    BY <1>2, <2>1, <2>2, RunsOne DEF Does
<1>6. a = [held |-> s.held \cup {"serial"}, put |-> s.put] /\ b = [held |-> s.held \cup {"serial"}, put |-> n + 1]
  BY <1>3
<1>7. Runs(<<Put>>, [held |-> s.held \cup {"serial"}, put |-> s.put], [held |-> s.held \cup {"serial"}, put |-> n + 1])
  BY <1>5, <1>6
<1> HIDE DEF s, a, b
<1>8. Runs(Locked("serial", <<Put>>), s, [held |-> s.held, put |-> IF "serial" = "printf" THEN 0 ELSE n + 1])
  <2>1. "printf" \in s.held
    BY <1>3
  <2> QED
    BY <1>1, <1>2, <1>4, <1>7, <2>1, RunsLocked
<1>9. Runs(serialPutc, s, [held |-> h \cup {"printf"}, put |-> n + 1])
  BY <1>1, <1>3, <1>8 DEF serialPutc
<1> QED
  BY <1>9 DEF s

LEMMA RunsPrintf ==
  ASSUME NEW s, Silent(s, "printf")
  PROVE  Runs(printf, s, s)
<1>1. /\ s \in States /\ s = [held |-> s.held, put |-> 0] /\ s.put = 0 /\ s.held \in SUBSET Under("printf")
  BY StateIs DEF Silent
<1> DEFINE a(n) == [held |-> s.held \cup {"printf"}, put |-> n]
<1>2. 0 \in 0 .. LineLength - 1 /\ 1 \in 0 .. LineLength - 1 /\ 0 + 1 = 1 /\ 1 + 1 = 2 /\ LineLength = 2 /\ 2 \in 0 .. LineLength
  BY DEF LineLength
<1>3. Runs(serialPutc, a(0), a(0 + 1)) /\ Runs(serialPutc, a(1), a(1 + 1))
  BY <1>1, <1>2, RunsSerialPutc
<1>4. Runs(serialPutc \o serialPutc, a(0), a(2))
  <2>1. Runs(serialPutc, a(0), a(1)) /\ Runs(serialPutc, a(1), a(2))
    BY <1>2, <1>3
  <2> HIDE DEF a
  <2> QED
    BY <2>1, RunsJoin
<1>5. Runs(Locked("printf", serialPutc \o serialPutc), s, [held |-> s.held, put |-> IF "printf" = "printf" THEN 0 ELSE 2])
  <2>1. "printf" \in Locks /\ "printf" # "serial"
    BY DEF Locks
  <2>2. Runs(serialPutc \o serialPutc, [held |-> s.held \cup {"printf"}, put |-> s.put],
             [held |-> s.held \cup {"printf"}, put |-> 2])
    BY <1>1, <1>4
  <2> QED
    BY <1>1, <1>2, <2>1, <2>2, RunsLocked
<1> QED
  BY <1>1, <1>5 DEF printf

LEMMA RunsPanic ==
  ASSUME NEW s, Silent(s, "printf")
  PROVE  Runs(doPanic, s, s) /\ Runs(panicIsr, s, s)
<1>1. Runs(printf, s, s)
  BY RunsPrintf
<1>2. Runs(doPanic, s, s)
  BY <1>1, RunsJoin DEF doPanic
<1> QED
  BY <1>1, <1>2, RunsJoin DEF panicIsr

LEMMA RunsCall ==
  ASSUME NEW f \in Functions, NEW s, Silent(s, First(f))
  PROVE  Does(Call(f), s, s) /\ Call(f) \in Instructions /\ Runs(<<Call(f)>>, s, s)
<1>1. Does(Call(f), s, s) /\ Call(f) \in Instructions /\ s \in States
  BY DEF Silent, Does, DoesCall, Instructions
<1> QED
  BY <1>1, RunsOne

\* Each course of a function ends as it began.
LEMMA RunsBody ==
  ASSUME NEW f \in Functions, NEW s, Silent(s, First(f)), NEW body \in Bodies(f)
  PROVE  Runs(body, s, s)
<1>1. /\ s \in States /\ s = [held |-> s.held, put |-> 0] /\ s.put = 0
      /\ s.held \in SUBSET Locks /\ s.held \subseteq Under(First(f))
  BY StateIs DEF Silent
<1> DEFINE in(l) == [held |-> s.held \cup {l}, put |-> 0]
<1>2. ASSUME NEW l \in Locks \ {"printf", "serial"}, s.held \subseteq Under(l)
      PROVE  /\ in(l) \in States /\ in(l).held = s.held \cup {l} /\ in(l).put = 0
             /\ Runs(<<>>, in(l), in(l))
  <2>1. "serial" \notin s.held \cup {l} /\ s.held \cup {l} \in SUBSET Locks
    BY <1>2, Order DEF Locks
  <2>2. in(l) \in States /\ in(l).held = s.held \cup {l} /\ in(l).put = 0
    BY <2>1 DEF States, LineLength
  <2> HIDE DEF in
  <2> QED
    BY <2>2, RunsNothing
<1>3. CASE f = "pmmAlloc"
  <2>1. "pmm" \in Locks \ {"printf", "serial"} /\ s.held \subseteq Under("pmm") /\ Silent(s, "pmm") /\ "pmm" \notin s.held
    BY <1>1, <1>3, Order DEF First, Locks, Silent
  <2>2. CASE body = Locked("pmm", <<>>)
    BY <1>2, <2>1, <2>2, RunsGuarded
  <2>3. CASE body = <<Acquire("pmm"), Panic>>
    <3>1. /\ in("pmm") \in States /\ in("pmm").held = s.held \cup {"pmm"} /\ in("pmm").put = 0
      BY <1>2, <2>1
    <3> DEFINE a == in("pmm")
    <3> HIDE DEF a, in
    <3>2. DoesAcquire(Acquire("pmm"), s, a)
      BY <1>1, <2>1, <3>1 DEF DoesAcquire, a
    <3>3. DoesPanic(Panic, a, s)
      BY <1>1, <2>1, <3>1, Order DEF DoesPanic, a
    <3>4. Acquire("pmm") \in Instructions /\ Panic \in Instructions
      BY <2>1 DEF Instructions
    <3>5. Runs(<<Acquire("pmm")>>, s, a) /\ Runs(<<Panic>>, a, s)
      BY <1>1, <3>1, <3>2, <3>3, <3>4, RunsOne DEF Does, a
    <3>6. body = <<Acquire("pmm")>> \o <<Panic>>
      BY <2>3
    <3> QED
      BY <3>5, <3>6, RunsJoin
  <2> QED
    BY <1>3, <2>2, <2>3 DEF Bodies, pmmAlloc
<1>4. CASE f = "vmmWalk"
  <2>1. "walk" \in Locks \ {"printf", "serial"} /\ s.held \subseteq Under("walk") /\ Silent(s, "walk")
    BY <1>1, <1>4, Order DEF First, Locks, Silent
  <2>2. PICK n \in 0 .. MaxTables : body = Locked("walk", [i \in 1 .. n |-> Call("pmmAlloc")])
    BY <1>4 DEF Bodies, vmmWalk
  <2> DEFINE k == [i \in 1 .. n |-> Call("pmmAlloc")]
             a == in("walk")
  <2>3. a \in States /\ a.held = s.held \cup {"walk"} /\ a.put = 0
    BY <1>2, <2>1
  <2>4. n \in Nat
    BY MaxTablesAssumption
  <2> HIDE DEF in, a
  <2>5. Silent(a, First("pmmAlloc")) /\ "pmmAlloc" \in Functions
    BY <2>1, <2>3, Order DEF Silent, First, Functions
  <2>6. Does(Call("pmmAlloc"), a, a) /\ Call("pmmAlloc") \in Instructions
    BY <2>5, RunsCall
  <2>7. k \in Seq(Instructions) /\ Len(k) = n /\ \A i \in 1 .. n : k[i] = Call("pmmAlloc")
    BY <2>4, <2>6
  <2>8. Runs(k, a, a)
    BY <2>3, <2>6, <2>7, RunsInPlace
  <2> HIDE DEF k
  <2>9. Runs(Locked("walk", k), s, s)
    BY <2>1, <2>8, RunsGuarded DEF a, in
  <2> QED
    BY <2>2, <2>9 DEF k
<1>5. CASE f = "slabAlloc"
  <2>1. "cache" \in Locks \ {"printf", "serial"} /\ s.held \subseteq Under("cache") /\ Silent(s, "cache") /\ s.held = {}
    BY <1>1, <1>5, Order DEF First, Locks, Silent
  <2> DEFINE a == in("cache")
  <2>2. a \in States /\ a.held = s.held \cup {"cache"} /\ a.put = 0 /\ Runs(<<>>, a, a)
    BY <1>2, <2>1
  <2>3. Runs(Locked("cache", <<>>), s, s)
    BY <2>1, <2>2, RunsGuarded
  <2> HIDE DEF in, a
  <2>4. Silent(a, First("pmmAlloc")) /\ "pmmAlloc" \in Functions /\ Silent(a, "printf")
    BY <2>1, <2>2, Order DEF Silent, First, Functions
  <2>5. Runs(<<Call("pmmAlloc")>> \o printf, a, a)
    BY <2>4, RunsCall, RunsPrintf, RunsJoin
  <2>6. Runs(Locked("cache", <<Call("pmmAlloc")>> \o printf), s, s)
    BY <2>1, <2>5, RunsGuarded DEF a, in
  <2>7. Runs(Locked("cache", <<Call("pmmAlloc")>> \o printf) \o Locked("cache", <<>>), s, s)
    BY <2>3, <2>6, RunsJoin
  <2> QED
    BY <1>5, <2>3, <2>7 DEF Bodies, slabAlloc
<1> QED
  BY <1>3, <1>4, <1>5 DEF Functions

LEMMA IdleIsSilent ==
  /\ Idle \in States /\ Idle.held = {} /\ Idle.put = 0
  /\ Silent(Idle, "printf")
  /\ \A f \in Functions : Silent(Idle, First(f))
<1>1. Idle \in States /\ Idle.held = {} /\ Idle.put = 0
  BY DEF Idle, States, LineLength
<1> QED
  BY <1>1 DEF Silent

LEMMA RunsEntry == Runs(mpEntry, Idle, Idle)
<1>1. Runs(<<Call("vmmWalk")>>, Idle, Idle)
  BY IdleIsSilent, RunsCall DEF Functions
<1>2. Runs(printf, Idle, Idle)
  BY IdleIsSilent, RunsPrintf
<1> QED
  BY <1>1, <1>2, RunsJoin DEF mpEntry, lapicInit

LEMMA RunsMain == Runs(main, Idle, Idle)
<1>1. Runs(printf, Idle, Idle)
  BY IdleIsSilent, RunsPrintf
<1>2. Runs(<<Call("slabAlloc"), Call("slabAlloc"), Call("pmmAlloc")>>, Idle, Idle)
  <2> DEFINE k == <<Call("slabAlloc"), Call("slabAlloc"), Call("pmmAlloc")>>
  <2>1. \A f \in {"slabAlloc", "pmmAlloc"} : Does(Call(f), Idle, Idle) /\ Call(f) \in Instructions
    BY IdleIsSilent, RunsCall DEF Functions
  <2>2. k \in Seq(Instructions) /\ Len(k) = 3
    BY <2>1
  <2>3. \A i \in 1 .. 3 : k[i] = Call("slabAlloc") \/ k[i] = Call("pmmAlloc")
    OBVIOUS
  <2> HIDE DEF k
  <2>4. Runs(k, Idle, Idle)
    BY <2>1, <2>2, <2>3, IdleIsSilent, RunsInPlace
  <2> QED
    BY <2>4 DEF k
<1>3. Runs(test, Idle, Idle)
  BY <1>1, <1>2, RunsJoin DEF test, vfsCreate
<1>4. Runs(mpInit, Idle, Idle)
  <2> DEFINE C == Cpus \ {Bsp}
             others == SetToSeq(C)
             k == [i \in DOMAIN others |-> Start(others[i])]
  <2>1. others \in [1 .. Cardinality(C) -> C] /\ Cardinality(C) \in Nat
    <3>1. IsFiniteSet(C)
      BY CpusAssumption, FS_Subset
    <3>2. Cardinality(C) \in Nat /\ ExistsBijection(1 .. Cardinality(C), C)
      BY <3>1, FS_CardinalityType
    <3>3. \E f \in [1 .. Cardinality(C) -> C] : IsInjective(f)
      BY <3>2 DEF ExistsBijection, Bijection, Injection, IsInjective
    <3> QED
      BY <3>2, <3>3 DEF SetToSeq
  <2> HIDE DEF others
  <2>2. \A i \in DOMAIN others : Start(others[i]) \in Instructions /\ Does(Start(others[i]), Idle, Idle)
    BY <2>1 DEF Instructions, Does, DoesStart
  <2>3. k \in Seq(Instructions) /\ Len(k) = Cardinality(C) /\ \A i \in 1 .. Len(k) : k[i] = Start(others[i])
    <3> DEFINE n == Cardinality(C)
    <3>1. n \in Nat /\ DOMAIN others = 1 .. n
      BY <2>1
    <3> HIDE DEF n
    <3>2. k = [i \in 1 .. n |-> Start(others[i])] /\ k \in [1 .. n -> Instructions]
      BY <2>2, <3>1
    <3>3. k \in Seq(Instructions) /\ Len(k) = n /\ \A i \in 1 .. n : k[i] = Start(others[i])
      BY <3>1, <3>2
    <3> QED
      BY <3>3 DEF n
  <2>4. Runs(k, Idle, Idle)
    <3>1. \A i \in 1 .. Len(k) : Does(k[i], Idle, Idle)
      BY <2>1, <2>2, <2>3
    <3> HIDE DEF k
    <3> QED
      BY <2>3, <3>1, IdleIsSilent, RunsInPlace
  <2> HIDE DEF k
  <2>5. Runs(printf \o k, Idle, Idle)
    BY <1>1, <2>4, RunsJoin
  <2> QED
    BY <2>5 DEF mpInit, k, others
<1> QED
  BY <1>3, <1>4, RunsJoin DEF main

-----------------------------------------------------------------------------
(* The inductive invariant. *)

Types ==
  /\ code \in [Cpus -> Seq(Instructions)]
  /\ taken \in [Locks -> BOOLEAN]
  /\ owner \in [Locks -> Cpus \cup {Nobody}]
  /\ line \in Seq(Cpus)
  /\ started \subseteq Cpus /\ panicked \subseteq Cpus /\ caught \subseteq Cpus

Owned == \A l \in Locks : taken[l] <=> owner[l] # Nobody

Held(c) == {l \in Locks : owner[l] = c}

\* Processor c printed n characters of its line.
LineOf(c, n) ==
  IF n = 0 THEN Len(line) \in {0, LineLength}
  ELSE Len(line) = n /\ \A i \in DOMAIN line : line[i] = c

\* What is left of c's code starts with the locks that c holds, and ends
\* without any if c did not panic.
Running(c) ==
  \E s, e \in States : /\ Runs(code[c], s, e)
                       /\ s.held = Held(c)
                       /\ c \notin panicked => e = Idle
                       /\ "printf" \in s.held => LineOf(c, s.put)

\* c waits for the lock of printf, which it holds, for ever.
Stuck(c) == code[c] = panicIsr /\ owner["printf"] = c /\ c \in panicked

Inv ==
  /\ Types /\ Owned
  /\ \A c \in Cpus \ caught : Running(c)
  /\ \A c \in caught : Stuck(c)
  /\ LinesAreWhole
  /\ owner["printf"] = Nobody => Len(line) \in {0, LineLength}

\* The kinds of instructions.
LEMMA Kinds ==
  ASSUME NEW x, NEW s, NEW t, Does(x, s, t)
  PROVE  /\ x[1] = "acquire" => DoesAcquire(x, s, t)
         /\ x[1] = "drop" => DoesDrop(x, s, t)
         /\ x[1] = "put" => DoesPut(x, s, t)
         /\ x[1] = "call" => DoesCall(x, s, t)
         /\ x[1] = "panic" => DoesPanic(x, s, t)
         /\ x[1] = "start" => DoesStart(x, s, t)
<1>1. DoesAcquire(x, s, t) => x[1] = "acquire"
  BY DEF DoesAcquire, Acquire
<1>2. DoesDrop(x, s, t) => x[1] = "drop"
  BY DEF DoesDrop, Drop
<1>3. DoesPut(x, s, t) => x[1] = "put"
  BY DEF DoesPut, Put
<1>4. DoesCall(x, s, t) => x[1] = "call"
  BY DEF DoesCall, Call
<1>5. DoesPanic(x, s, t) => x[1] = "panic"
  BY DEF DoesPanic, Panic
<1>6. DoesStart(x, s, t) => x[1] = "start"
  BY DEF DoesStart, Start
<1> QED
  BY <1>1, <1>2, <1>3, <1>4, <1>5, <1>6 DEF Does

LEMMA PanicBegins ==
  panicIsr \in Seq(Instructions) /\ panicIsr # <<>> /\ Head(panicIsr) = Acquire("printf")
<1>1. /\ printf \in Seq(Instructions) /\ doPanic \in Seq(Instructions)
      /\ panicIsr \in Seq(Instructions)
  BY IdleIsSilent, RunsPrintf, RunsPanic DEF Runs
<1>2. serialPutc \in Seq(Instructions)
  <2>1. {} \in SUBSET Under("printf") /\ 0 \in 0 .. LineLength - 1
    BY DEF LineLength
  <2> QED
    BY <2>1, RunsSerialPutc DEF Runs
<1> DEFINE two == serialPutc \o serialPutc
           a == <<Acquire("printf")>>
           d == <<Drop("printf")>>
<1>3. two \in Seq(Instructions)
  BY <1>2, Joined
<1>4. a \in Seq(Instructions) /\ d \in Seq(Instructions) /\ Len(a) = 1 /\ a[1] = Acquire("printf")
  BY DEF Instructions, Locks
<1>5. printf = (a \o two) \o d
  BY DEF printf, Locked
<1> HIDE DEF two, a, d
<1>6. (a \o two) \in Seq(Instructions) /\ Len(a \o two) >= 1 /\ (a \o two)[1] = a[1]
  BY <1>3, <1>4, Joined
<1>7. Len(printf) >= 1 /\ printf[1] = a[1]
  BY <1>4, <1>5, <1>6, Joined
<1>8. Len(panicIsr) >= 1 /\ panicIsr[1] = printf[1]
  BY <1>1, <1>7, Joined DEF panicIsr
<1> QED
  BY <1>1, <1>4, <1>7, <1>8

LEMMA InvInit == Init => Inv
<1> SUFFICES ASSUME Init PROVE Inv
  OBVIOUS
<1> USE DEF Init
<1>1. \A c \in Cpus : Runs(code[c], Idle, Idle)
  BY RunsMain, RunsEntry
<1>2. code \in [Cpus -> Seq(Instructions)]
  BY RunsMain, RunsEntry DEF Runs
<1>3. Types
  <2>1. taken \in [Locks -> BOOLEAN] /\ owner \in [Locks -> Cpus \cup {Nobody}] /\ line \in Seq(Cpus)
    OBVIOUS
  <2>2. started \subseteq Cpus /\ panicked \subseteq Cpus /\ caught \subseteq Cpus
    BY BspAssumption
  <2> QED
    BY <1>2, <2>1, <2>2 DEF Types
<1>4. Owned
  BY DEF Owned
<1>5. ASSUME NEW c \in Cpus PROVE Running(c)
  <2>1. Held(c) = {}
    BY CpusAssumption DEF Held
  <2>2. Idle \in States /\ Idle.held = {}
    BY IdleIsSilent
  <2>3. Runs(code[c], Idle, Idle)
    BY <1>1
  <2> HIDE DEF Init
  <2> QED
    BY <2>1, <2>2, <2>3 DEF Running
<1>6. LinesAreWhole /\ Len(line) = 0 /\ caught = {}
  BY DEF LinesAreWhole
<1> HIDE DEF Init
<1> QED
  BY <1>3, <1>4, <1>5, <1>6 DEF Inv

\* A processor that somebody else's step does not touch.
LEMMA OthersStay ==
  ASSUME NEW d, Running(d), code'[d] = code[d], \A l \in Locks : owner'[l] = d <=> owner[l] = d,
         panicked \subseteq panicked', owner["printf"] = d => line' = line
  PROVE  Running(d)'
<1>1. PICK s \in States, e \in States :
        /\ Runs(code[d], s, e) /\ s.held = Held(d)
        /\ d \notin panicked => e = Idle
        /\ "printf" \in s.held => LineOf(d, s.put)
  BY DEF Running
<1>2. Held(d)' = Held(d)
  BY DEF Held
<1>3. "printf" \in s.held => LineOf(d, s.put)'
  BY <1>1 DEF LineOf, Held
<1>4. Runs(code'[d], s, e) /\ s.held = Held(d)' /\ (d \notin panicked' => e = Idle)
  BY <1>1, <1>2
<1> QED
  BY <1>3, <1>4 DEF Running

\* An instruction is done, or replaced by the body of a function.
LEMMA CodeContinues ==
  ASSUME Types, NEW c \in Cpus, NEW body, Continue(c, body),
         NEW r, NEW q, NEW e, Runs(body, r, q), Runs(Tail(code[c]), q, e)
  PROVE  /\ Runs(code'[c], r, e)
         /\ code' \in [Cpus -> Seq(Instructions)]
         /\ \A d \in Cpus \ {c} : code'[d] = code[d]
<1> DEFINE k == body \o Tail(code[c])
<1>1. Runs(k, r, e)
  BY RunsJoin
<1>2. k \in Seq(Instructions)
  BY <1>1 DEF Runs
<1>3. code' = [code EXCEPT ![c] = k]
  BY DEF Continue
<1> HIDE DEF k
<1> QED
  BY <1>1, <1>2, <1>3 DEF Types

LEMMA CaughtStuck ==
  ASSUME Inv, NEW c \in Cpus, Step(c)
  PROVE  c \notin caught
<1>1. SUFFICES ASSUME c \in caught PROVE FALSE
  OBVIOUS
<1>2. Head(code[c]) = Acquire("printf") /\ owner["printf"] = c
  BY <1>1, PanicBegins DEF Inv, Stuck
<1>3. taken["printf"]
  BY <1>2, CpusAssumption DEF Inv, Owned, Locks
<1>4. Head(code[c])[1] = "acquire" /\ Head(code[c])[2] = "printf"
  BY <1>2 DEF Acquire
<1> QED
  BY <1>3, <1>4
  DEF Step, TakeLock, DropLock, PutChar, CallFunction, StartProcessor, EnterPanic, At, Arg

\* What is known of the processor that takes a step.
LEMMA BeforeStep ==
  ASSUME Inv, NEW c \in Cpus, Step(c)
  PROVE  /\ c \notin caught
         /\ \E s, e, r \in States :
              /\ Does(Head(code[c]), s, r) /\ Runs(Tail(code[c]), r, e)
              /\ s.held = Held(c)
              /\ c \notin panicked => e = Idle
              /\ "printf" \in s.held => LineOf(c, s.put)
<1>1. c \notin caught /\ Running(c)
  BY CaughtStuck DEF Inv
<1>2. code[c] # <<>>
  BY DEF Step, TakeLock, DropLock, PutChar, CallFunction, StartProcessor, EnterPanic, At
<1>3. PICK s \in States, e \in States :
        /\ Runs(code[c], s, e) /\ s.held = Held(c)
        /\ c \notin panicked => e = Idle
        /\ "printf" \in s.held => LineOf(c, s.put)
  BY <1>1 DEF Running
<1>4. PICK r \in States : Does(Head(code[c]), s, r) /\ Runs(Tail(code[c]), r, e)
  <2>1. PICK r : Does(Head(code[c]), s, r) /\ Runs(Tail(code[c]), r, e)
    BY <1>2, <1>3, RunsStep
  <2>2. r \in States
    BY <2>1 DEF Runs, Through
  <2> QED
    BY <2>1, <2>2
<1> QED
  BY <1>1, <1>3, <1>4

LEMMA TakeLockStep ==
  ASSUME Inv, NEW c \in Cpus, TakeLock(c)
  PROVE  Inv'
<1>1. Types /\ Owned
  BY DEF Inv
<1>2. PICK s \in States, e \in States, r \in States :
        /\ c \notin caught
        /\ Does(Head(code[c]), s, r) /\ Runs(Tail(code[c]), r, e)
        /\ s.held = Held(c)
        /\ c \notin panicked => e = Idle
        /\ "printf" \in s.held => LineOf(c, s.put)
  BY BeforeStep DEF Step
<1>3. PICK l \in Locks : /\ Head(code[c]) = Acquire(l) /\ Arg(c) = l
                         /\ r.held = s.held \cup {l} /\ r.put = s.put
                         /\ l = "printf" => s.put = 0
  <2>1. DoesAcquire(Head(code[c]), s, r)
    BY <1>2, Kinds DEF TakeLock, At
  <2> QED
    BY <2>1 DEF DoesAcquire, Acquire, Arg
<1>4. /\ owner' = [owner EXCEPT ![l] = c] /\ taken' = [taken EXCEPT ![l] = TRUE] /\ ~taken[l]
      /\ UNCHANGED <<line, started, panicked, caught>>
  BY <1>3 DEF TakeLock
<1>5. owner[l] = Nobody
  BY <1>1, <1>4 DEF Owned
<1>6. owner'[l] = c /\ \A m \in Locks \ {l} : owner'[m] = owner[m]
  BY <1>1, <1>4 DEF Types
<1>7. /\ Runs(code'[c], r, e) /\ code' \in [Cpus -> Seq(Instructions)]
      /\ \A d \in Cpus \ {c} : code'[d] = code[d]
  BY <1>1, <1>2, RunsNothing, CodeContinues DEF TakeLock
<1>8. Types' /\ Owned'
  BY <1>1, <1>4, <1>7, CpusAssumption DEF Types, Owned
<1>9. Running(c)'
  <2>1. r.held = Held(c)'
    BY <1>2, <1>3, <1>6 DEF Held
  <2>2. "printf" \in r.held => LineOf(c, r.put)'
    <3>1. CASE l = "printf"
      <4>1. Len(line) \in {0, LineLength} /\ r.put = 0
        BY <1>3, <1>5, <3>1 DEF Inv
      <4> QED
        BY <1>4, <4>1 DEF LineOf
    <3>2. CASE l # "printf"
      BY <1>2, <1>3, <1>4, <3>2 DEF LineOf
    <3> QED
      BY <3>1, <3>2
  <2> QED
    BY <1>2, <1>4, <1>7, <2>1, <2>2 DEF Running
<1>10. ASSUME NEW d \in Cpus \ caught', d # c PROVE Running(d)'
  <2>1. \A m \in Locks : owner'[m] = d <=> owner[m] = d
    BY <1>5, <1>6, <1>10, CpusAssumption
  <2>2. Running(d)
    BY <1>4 DEF Inv
  <2> QED
    BY <1>4, <1>7, <1>10, <2>1, <2>2, OthersStay
<1>11. ASSUME NEW d \in caught' PROVE Stuck(d)'
  <2>1. Stuck(d) /\ d # c /\ d \in Cpus
    BY <1>1, <1>2, <1>4 DEF Inv, Types
  <2>2. l # "printf" /\ "printf" \in Locks
    BY <1>5, <2>1, CpusAssumption DEF Stuck, Locks
  <2> QED
    BY <1>4, <1>6, <1>7, <2>1, <2>2 DEF Stuck
<1>12. LinesAreWhole' /\ (owner'["printf"] = Nobody => Len(line') \in {0, LineLength})
  BY <1>4, <1>6, CpusAssumption DEF Inv, LinesAreWhole, Locks
<1> QED
  BY <1>8, <1>9, <1>10, <1>11, <1>12 DEF Inv

LEMMA DropLockStep ==
  ASSUME Inv, NEW c \in Cpus, DropLock(c)
  PROVE  Inv'
<1>1. Types /\ Owned
  BY DEF Inv
<1>2. PICK s \in States, e \in States, r \in States :
        /\ c \notin caught
        /\ Does(Head(code[c]), s, r) /\ Runs(Tail(code[c]), r, e)
        /\ s.held = Held(c)
        /\ c \notin panicked => e = Idle
        /\ "printf" \in s.held => LineOf(c, s.put)
  BY BeforeStep DEF Step
<1>3. PICK l \in Locks : /\ Head(code[c]) = Drop(l) /\ Arg(c) = l
                         /\ l \in s.held /\ r.held = s.held \ {l}
                         /\ IF l = "printf" THEN s.put = LineLength /\ r.put = 0 ELSE r.put = s.put
  <2>1. DoesDrop(Head(code[c]), s, r)
    BY <1>2, Kinds DEF DropLock, At
  <2> QED
    BY <2>1 DEF DoesDrop, Drop, Arg
<1>4. /\ owner' = [owner EXCEPT ![l] = Nobody] /\ taken' = [taken EXCEPT ![l] = FALSE]
      /\ UNCHANGED <<line, started, panicked, caught>>
  BY <1>3 DEF DropLock
<1>5. owner[l] = c
  BY <1>2, <1>3 DEF Held
<1>6. owner'[l] = Nobody /\ \A m \in Locks \ {l} : owner'[m] = owner[m]
  BY <1>1, <1>4 DEF Types
<1>7. /\ Runs(code'[c], r, e) /\ code' \in [Cpus -> Seq(Instructions)]
      /\ \A d \in Cpus \ {c} : code'[d] = code[d]
  BY <1>1, <1>2, RunsNothing, CodeContinues DEF DropLock
<1>8. Types' /\ Owned'
  BY <1>1, <1>4, <1>7 DEF Types, Owned
<1>9. Running(c)'
  <2>1. r.held = Held(c)'
    BY <1>2, <1>3, <1>6, CpusAssumption DEF Held
  <2>2. "printf" \in r.held => LineOf(c, r.put)'
    BY <1>2, <1>3, <1>4 DEF LineOf
  <2> QED
    BY <1>2, <1>4, <1>7, <2>1, <2>2 DEF Running
<1>10. ASSUME NEW d \in Cpus \ caught', d # c PROVE Running(d)'
  <2>1. \A m \in Locks : owner'[m] = d <=> owner[m] = d
    BY <1>5, <1>6, <1>10, CpusAssumption
  <2>2. Running(d)
    BY <1>4 DEF Inv
  <2> QED
    BY <1>4, <1>7, <1>10, <2>1, <2>2, OthersStay
<1>11. ASSUME NEW d \in caught' PROVE Stuck(d)'
  <2>1. Stuck(d) /\ d # c /\ d \in Cpus
    BY <1>1, <1>2, <1>4 DEF Inv, Types
  <2>2. l # "printf" /\ "printf" \in Locks
    BY <1>5, <2>1 DEF Stuck, Locks
  <2> QED
    BY <1>4, <1>6, <1>7, <2>1, <2>2 DEF Stuck
<1>12. owner'["printf"] = Nobody => Len(line') \in {0, LineLength}
  <2>1. CASE l = "printf"
    <3>1. LineOf(c, LineLength)
      BY <1>2, <1>3, <2>1
    <3> QED
      BY <1>4, <3>1 DEF LineOf, LineLength
  <2>2. CASE l # "printf"
    BY <1>4, <1>6, <2>2 DEF Inv, Locks
  <2> QED
    BY <2>1, <2>2
<1>13. LinesAreWhole'
  BY <1>4 DEF Inv, LinesAreWhole
<1> QED
  BY <1>8, <1>9, <1>10, <1>11, <1>12, <1>13 DEF Inv

LEMMA PutCharStep ==
  ASSUME Inv, NEW c \in Cpus, PutChar(c)
  PROVE  Inv'
<1>1. Types /\ Owned
  BY DEF Inv
<1>2. PICK s \in States, e \in States, r \in States :
        /\ c \notin caught
        /\ Does(Head(code[c]), s, r) /\ Runs(Tail(code[c]), r, e)
        /\ s.held = Held(c)
        /\ c \notin panicked => e = Idle
        /\ "printf" \in s.held => LineOf(c, s.put)
  BY BeforeStep DEF Step
<1>3. /\ "printf" \in s.held /\ r.held = s.held /\ r.put = s.put + 1
  <2>1. DoesPut(Head(code[c]), s, r)
    BY <1>2, Kinds DEF PutChar, At
  <2> QED
    BY <2>1 DEF DoesPut
<1>4. /\ line' = IF Len(line) = LineLength THEN <<c>> ELSE Append(line, c)
      /\ UNCHANGED <<taken, started, panicked, owner, caught>>
  BY DEF PutChar
<1>5. owner["printf"] = c
  BY <1>2, <1>3 DEF Held
<1>6. s.put \in {0, 1}
  BY <1>3, StateIs DEF LineLength
<1>7. /\ Runs(code'[c], r, e) /\ code' \in [Cpus -> Seq(Instructions)]
      /\ \A d \in Cpus \ {c} : code'[d] = code[d]
  BY <1>1, <1>2, RunsNothing, CodeContinues DEF PutChar
<1>8. line' \in Seq(Cpus) /\ Len(line') = s.put + 1 /\ \A i \in DOMAIN line' : line'[i] = c
  <2>0. line \in Seq(Cpus)
    BY <1>1 DEF Types
  <2>1. CASE Len(line) = LineLength
    <3>1. s.put = 0
      BY <1>2, <1>3, <1>6, <2>1 DEF LineOf, LineLength
    <3>2. line' = <<c>>
      BY <1>4, <2>1
    <3> QED
      BY <3>1, <3>2
  <2>2. CASE Len(line) # LineLength
    <3>1. Len(line) = s.put /\ \A i \in 1 .. Len(line) : line[i] = c
      BY <1>2, <1>3, <1>6, <2>0, <2>2 DEF LineOf
    <3>2. line' = Append(line, c)
      BY <1>4, <2>2
    <3>3. /\ line' \in Seq(Cpus) /\ Len(line') = Len(line) + 1 /\ DOMAIN line' = 1 .. Len(line) + 1
          /\ line'[Len(line) + 1] = c /\ \A i \in 1 .. Len(line) : line'[i] = line[i]
      BY <2>0, <3>2
    <3>4. Len(line) \in Nat
      BY <2>0
    <3> QED
      BY <3>1, <3>3, <3>4
  <2> QED
    BY <2>1, <2>2
<1>9. Types' /\ Owned'
  BY <1>1, <1>4, <1>7, <1>8 DEF Types, Owned
<1>10. Running(c)'
  <2>1. r.held = Held(c)'
    BY <1>2, <1>3, <1>4 DEF Held
  <2>2. LineOf(c, r.put)'
    BY <1>3, <1>6, <1>8 DEF LineOf
  <2> QED
    BY <1>2, <1>4, <1>7, <2>1, <2>2 DEF Running
<1>11. ASSUME NEW d \in Cpus \ caught', d # c PROVE Running(d)'
  <2>1. Running(d)
    BY <1>4 DEF Inv
  <2> QED
    BY <1>4, <1>5, <1>7, <1>11, <2>1, OthersStay
<1>12. ASSUME NEW d \in caught' PROVE Stuck(d)'
  <2>1. Stuck(d) /\ d # c /\ d \in Cpus
    BY <1>1, <1>2, <1>4 DEF Inv, Types
  <2> QED
    BY <1>4, <1>7, <2>1 DEF Stuck
<1>13. LinesAreWhole'
  BY <1>8 DEF LinesAreWhole
<1> QED
  BY <1>4, <1>5, <1>9, <1>10, <1>11, <1>12, <1>13, CpusAssumption DEF Inv

\* Calls and starts: no lock, no character.
LEMMA QuietStep ==
  ASSUME Inv, NEW c \in Cpus, CallFunction(c) \/ StartProcessor(c)
  PROVE  Inv'
<1>1. Types /\ Owned
  BY DEF Inv
<1>2. PICK s \in States, e \in States, r \in States :
        /\ c \notin caught
        /\ Does(Head(code[c]), s, r) /\ Runs(Tail(code[c]), r, e)
        /\ s.held = Held(c)
        /\ c \notin panicked => e = Idle
        /\ "printf" \in s.held => LineOf(c, s.put)
  BY BeforeStep DEF Step
<1>3. UNCHANGED <<taken, line, panicked, owner, caught>>
  BY DEF CallFunction, StartProcessor
<1>4. r = s /\ \E body : Continue(c, body) /\ Runs(body, s, s)
  <2>1. CASE CallFunction(c)
    <3>1. DoesCall(Head(code[c]), s, r)
      BY <1>2, <2>1, Kinds DEF CallFunction, At
    <3>2. PICK f \in Functions : Arg(c) = f /\ Silent(s, First(f)) /\ r = s
      BY <3>1 DEF DoesCall, Call, Arg, Silent
    <3>3. PICK body \in Bodies(f) : Continue(c, body)
      BY <2>1, <3>2 DEF CallFunction
    <3> QED
      BY <3>2, <3>3, RunsBody
  <2>2. CASE StartProcessor(c)
    <3>1. DoesStart(Head(code[c]), s, r)
      BY <1>2, <2>2, Kinds DEF StartProcessor, At
    <3> QED
      BY <2>2, <3>1, RunsNothing DEF StartProcessor, DoesStart
  <2> QED
    BY <2>1, <2>2
<1>5. /\ Runs(code'[c], s, e) /\ code' \in [Cpus -> Seq(Instructions)]
      /\ \A d \in Cpus \ {c} : code'[d] = code[d]
  BY <1>1, <1>2, <1>4, CodeContinues
<1>6. started' \subseteq Cpus
  <2>1. CASE CallFunction(c)
    BY <1>1, <2>1 DEF CallFunction, Types
  <2>2. CASE StartProcessor(c)
    <3>1. DoesStart(Head(code[c]), s, r)
      BY <1>2, <2>2, Kinds DEF StartProcessor, At
    <3>2. Arg(c) \in Cpus
      BY <3>1 DEF DoesStart, Start, Arg
    <3> QED
      BY <1>1, <2>2, <3>2 DEF StartProcessor, Types
  <2> QED
    BY <2>1, <2>2
<1>7. Types' /\ Owned'
  BY <1>1, <1>3, <1>5, <1>6 DEF Types, Owned
<1>8. Running(c)'
  <2>1. s.held = Held(c)'
    BY <1>2, <1>3 DEF Held
  <2>2. "printf" \in s.held => LineOf(c, s.put)'
    BY <1>2, <1>3 DEF LineOf
  <2> QED
    BY <1>2, <1>3, <1>5, <2>1, <2>2 DEF Running
<1>9. ASSUME NEW d \in Cpus \ caught', d # c PROVE Running(d)'
  <2>1. Running(d)
    BY <1>3 DEF Inv
  <2> QED
    BY <1>3, <1>5, <1>9, <2>1, OthersStay
<1>10. ASSUME NEW d \in caught' PROVE Stuck(d)'
  <2>1. Stuck(d) /\ d # c /\ d \in Cpus
    BY <1>1, <1>2, <1>3 DEF Inv, Types
  <2> QED
    BY <1>3, <1>5, <2>1 DEF Stuck
<1>11. LinesAreWhole' /\ (owner'["printf"] = Nobody => Len(line') \in {0, LineLength})
  BY <1>3 DEF Inv, LinesAreWhole
<1> QED
  BY <1>7, <1>8, <1>9, <1>10, <1>11 DEF Inv

\* Code that reports a panic starts with the locks its processor holds.
LEMMA ReportRuns ==
  ASSUME NEW s \in States, s.held \subseteq Under("printf"), NEW k, k = doPanic \/ k = panicIsr
  PROVE  LET t == [held |-> s.held, put |-> 0]
         IN  t \in States /\ t.held = s.held /\ "printf" \notin t.held /\ Runs(k, t, t)
<1> DEFINE t == [held |-> s.held, put |-> 0]
<1>1. t \in States /\ t.held = s.held /\ t.put = 0 /\ "printf" \notin t.held
  BY StateIs, Order DEF States, LineLength
<1> HIDE DEF t
<1>2. Silent(t, "printf")
  BY <1>1 DEF Silent
<1>3. Runs(k, t, t)
  BY <1>2, RunsPanic
<1> QED
  BY <1>1, <1>3 DEF t

LEMMA EnterPanicStep ==
  ASSUME Inv, NEW c \in Cpus, EnterPanic(c)
  PROVE  Inv'
<1>1. Types /\ Owned
  BY DEF Inv
<1>2. PICK s \in States, e \in States, r \in States :
        /\ c \notin caught
        /\ Does(Head(code[c]), s, r)
        /\ s.held = Held(c)
  BY BeforeStep DEF Step
<1>3. s.held \subseteq Under("printf")
  <2>1. DoesPanic(Head(code[c]), s, r)
    BY <1>2, Kinds DEF EnterPanic, At
  <2> QED
    BY <2>1 DEF DoesPanic
<1>4. PICK t \in States : t.held = s.held /\ "printf" \notin t.held /\ Runs(doPanic, t, t)
  BY <1>3, ReportRuns
<1>5. /\ code' = [code EXCEPT ![c] = doPanic] /\ panicked' = panicked \cup {c}
      /\ UNCHANGED <<taken, line, started, owner, caught>>
  BY DEF EnterPanic
<1>6. /\ code'[c] = doPanic /\ code' \in [Cpus -> Seq(Instructions)]
      /\ \A d \in Cpus \ {c} : code'[d] = code[d]
  BY <1>1, <1>4, <1>5 DEF Types, Runs
<1>7. Types' /\ Owned'
  BY <1>1, <1>5, <1>6 DEF Types, Owned
<1>8. Running(c)'
  <2>1. t.held = Held(c)' /\ c \in panicked'
    BY <1>2, <1>4, <1>5 DEF Held
  <2> QED
    BY <1>4, <1>6, <2>1 DEF Running
<1>9. ASSUME NEW d \in Cpus \ caught', d # c PROVE Running(d)'
  <2>1. Running(d)
    BY <1>5 DEF Inv
  <2> QED
    BY <1>5, <1>6, <1>9, <2>1, OthersStay
<1>10. ASSUME NEW d \in caught' PROVE Stuck(d)'
  <2>1. Stuck(d) /\ d # c /\ d \in Cpus
    BY <1>1, <1>2, <1>5 DEF Inv, Types
  <2> QED
    BY <1>5, <1>6, <2>1 DEF Stuck
<1>11. LinesAreWhole' /\ (owner'["printf"] = Nobody => Len(line') \in {0, LineLength})
  BY <1>5 DEF Inv, LinesAreWhole
<1> QED
  BY <1>7, <1>8, <1>9, <1>10, <1>11 DEF Inv

LEMMA ExceptionStep ==
  ASSUME Inv, NEW c \in Cpus, Exception(c)
  PROVE  Inv'
<1>1. Types /\ Owned
  BY DEF Inv
<1>2. /\ code' = [code EXCEPT ![c] = panicIsr] /\ panicked' = panicked \cup {c}
      /\ caught' = IF owner["printf"] = c THEN caught \cup {c} ELSE caught
      /\ UNCHANGED <<taken, line, started, owner>>
  BY DEF Exception
<1>3. /\ code'[c] = panicIsr /\ code' \in [Cpus -> Seq(Instructions)]
      /\ \A d \in Cpus \ {c} : code'[d] = code[d]
  BY <1>1, <1>2, PanicBegins DEF Types
<1>4. Types' /\ Owned'
  BY <1>1, <1>2, <1>3 DEF Types, Owned
<1>5. ASSUME c \notin caught' PROVE Running(c)'
  <2>1. owner["printf"] # c /\ c \notin caught
    BY <1>2, <1>5
  <2>2. PICK s \in States : s.held = Held(c)
    BY <2>1 DEF Inv, Running
  <2>3. "printf" \notin s.held
    BY <2>1, <2>2 DEF Held
  <2>4. s.held \subseteq Under("printf")
    BY <2>3, StateIs, Order DEF Locks
  <2>5. PICK t \in States : t.held = s.held /\ "printf" \notin t.held /\ Runs(panicIsr, t, t)
    BY <2>4, ReportRuns
  <2>6. t.held = Held(c)' /\ c \in panicked'
    BY <1>2, <2>2, <2>5 DEF Held
  <2> QED
    BY <1>3, <2>5, <2>6 DEF Running
<1>6. ASSUME NEW d \in Cpus \ caught', d # c PROVE Running(d)'
  <2>1. Running(d)
    BY <1>2 DEF Inv
  <2> QED
    BY <1>2, <1>3, <1>6, <2>1, OthersStay
<1>7. ASSUME NEW d \in caught' PROVE Stuck(d)'
  <2>1. CASE d = c
    <3>1. owner["printf"] = c
      BY <1>2, <1>7, <2>1 DEF Inv, Stuck
    <3> QED
      BY <1>2, <1>3, <2>1, <3>1 DEF Stuck
  <2>2. CASE d # c
    <3>1. Stuck(d) /\ d \in Cpus
      BY <1>1, <1>2, <2>2 DEF Inv, Types
    <3> QED
      BY <1>2, <1>3, <2>2, <3>1 DEF Stuck
  <2> QED
    BY <2>1, <2>2
<1>8. LinesAreWhole' /\ (owner'["printf"] = Nobody => Len(line') \in {0, LineLength})
  BY <1>2 DEF Inv, LinesAreWhole
<1> QED
  BY <1>4, <1>5, <1>6, <1>7, <1>8 DEF Inv

LEMMA InvStep == Inv /\ [Next]_vars => Inv'
<1> SUFFICES ASSUME Inv, [Next]_vars PROVE Inv'
  OBVIOUS
<1>1. CASE UNCHANGED vars
  <2> USE <1>1 DEF vars
  <2>1. Types' /\ Owned' /\ LinesAreWhole'
        /\ (owner'["printf"] = Nobody => Len(line') \in {0, LineLength})
    BY DEF Inv, Types, Owned, LinesAreWhole
  <2>2. \A c \in Cpus \ caught' : Running(c)'
    BY DEF Inv, Running, Held, LineOf
  <2>3. \A c \in caught' : Stuck(c)'
    BY DEF Inv, Stuck
  <2> QED
    BY <2>1, <2>2, <2>3 DEF Inv
<1>2. ASSUME NEW c \in Cpus, Step(c) PROVE Inv'
  BY <1>2, TakeLockStep, DropLockStep, PutCharStep, QuietStep, EnterPanicStep DEF Step
<1>3. ASSUME NEW c \in Cpus, Exception(c) PROVE Inv'
  BY <1>3, ExceptionStep
<1> QED
  BY <1>1, <1>2, <1>3 DEF Next

LEMMA InvHolds == Spec => []Inv
  BY InvInit, InvStep, PTL DEF Spec

-----------------------------------------------------------------------------
(* What the locks promise. *)

\* A processor waits for a lock that ranks above all it holds.
LEMMA WaitsAbove ==
  ASSUME Inv, NEW c \in Cpus \ caught, At(c, "acquire")
  PROVE  Arg(c) \in Locks /\ Held(c) \subseteq Under(Arg(c))
<1>1. PICK s \in States, e \in States : Runs(code[c], s, e) /\ s.held = Held(c)
  BY DEF Inv, Running
<1>2. code[c] # <<>> /\ Head(code[c])[1] = "acquire"
  BY DEF At
<1>3. PICK r : Does(Head(code[c]), s, r)
  BY <1>1, <1>2, RunsStep
<1>4. DoesAcquire(Head(code[c]), s, r)
  BY <1>2, <1>3, Kinds
<1> QED
  BY <1>1, <1>4 DEF DoesAcquire, Acquire, Arg

LEMMA RankIsNat == \A l : Rank(l) \in 1 .. 5
  BY DEF Rank

\* However many processors run the kernel, and wherever panics and exceptions
\* strike: processors that wait for each other in a circle are one that
\* waits for itself, in the report of an exception that hit its printf.
THEOREM NoCircleOfWaits == Spec => []NoWaitCycle
<1>1. ASSUME Inv, NEW C \in SUBSET Cpus, C # {}, \A c \in C : \E d \in C : WaitsFor(c, d)
      PROVE  \E c \in C : c \in caught /\ WaitsFor(c, c)
  <2>1. CASE \E c \in C : c \in caught
    <3>1. PICK c \in C : c \in caught
      BY <2>1
    <3>2. At(c, "acquire") /\ Head(code[c]) = Acquire("printf") /\ owner["printf"] = c
      BY <1>1, <3>1, PanicBegins DEF WaitsFor, Inv, Stuck
    <3>3. WaitsFor(c, c)
      BY <3>2 DEF WaitsFor, Arg, Acquire
    <3> QED
      BY <3>1, <3>3
  <2>2. CASE \A c \in C : c \notin caught
    <3> DEFINE R == {n \in Nat : \E c \in C : n = 5 - Rank(Arg(c))}
    <3>1. R # {} /\ R \in SUBSET Nat
      <4>1. PICK c \in C : TRUE
        BY <1>1
      <4>2. 5 - Rank(Arg(c)) \in Nat
        BY RankIsNat
      <4> QED
        BY <4>1, <4>2
    <3>2. PICK n \in R : \A m \in R : n <= m
      BY <3>1, LeastExists
    <3>3. PICK c \in C : n = 5 - Rank(Arg(c))
      BY <3>2
    <3>4. PICK d \in C : WaitsFor(c, d)
      BY <1>1
    <3>5. At(c, "acquire") /\ owner[Arg(c)] = d /\ At(d, "acquire")
      BY <1>1, <3>4 DEF WaitsFor
    <3>6. Arg(c) \in Locks /\ Held(d) \subseteq Under(Arg(d))
      BY <1>1, <2>2, <3>5, WaitsAbove
    <3>7. Arg(c) \in Under(Arg(d))
      BY <3>5, <3>6 DEF Held
    <3>8. Rank(Arg(c)) < Rank(Arg(d))
      BY <3>7 DEF Under
    <3>9. 5 - Rank(Arg(d)) \in R
      BY RankIsNat
    <3> QED
      BY <3>2, <3>3, <3>8, <3>9, RankIsNat
  <2> QED
    BY <2>1, <2>2
<1>2. Inv => NoWaitCycle
  BY <1>1 DEF NoWaitCycle
<1> QED
  BY <1>2, InvHolds, PTL

\* Every spinlockDrop is by the processor that took the lock, on every path
\* through the allocators, printf and the panics; and code that ends without a
\* panic ends without a lock.
THEOREM LocksComeBack == Spec => []LocksAreReturned
<1>1. ASSUME Inv, NEW c \in Cpus, At(c, "drop")
      PROVE  owner[Arg(c)] = c
  <2>1. code[c] # <<>> /\ Head(code[c])[1] = "drop"
    BY <1>1 DEF At
  <2>2. c \notin caught
    <3>1. ASSUME c \in caught PROVE FALSE
      <4>1. Head(code[c]) = Acquire("printf")
        BY <1>1, <3>1, PanicBegins DEF Inv, Stuck
      <4> QED
        BY <2>1, <4>1 DEF Acquire
    <3> QED
      BY <3>1
  <2>3. PICK s \in States, e \in States : Runs(code[c], s, e) /\ s.held = Held(c)
    BY <1>1, <2>2 DEF Inv, Running
  <2>4. PICK r : Does(Head(code[c]), s, r)
    BY <2>1, <2>3, RunsStep
  <2>5. DoesDrop(Head(code[c]), s, r)
    BY <2>1, <2>4, Kinds
  <2> QED
    BY <2>3, <2>5 DEF DoesDrop, Drop, Arg, Held
<1>2. ASSUME Inv, NEW c \in Cpus \ panicked, Stopped(c), NEW l \in Locks
      PROVE  owner[l] # c
  <2>1. c \notin caught
    BY <1>2 DEF Inv, Stuck
  <2>2. PICK s \in States : Runs(code[c], s, Idle) /\ s.held = Held(c)
    BY <1>2, <2>1 DEF Inv, Running
  <2>3. s = Idle
    BY <1>2, <2>2, RunsEnd DEF Stopped
  <2> QED
    BY <2>2, <2>3, IdleIsSilent DEF Held
<1>3. Inv => LocksAreReturned
  BY <1>1, <1>2 DEF LocksAreReturned, Inv, Owned
<1> QED
  BY <1>3, InvHolds, PTL

\* The characters of one printf stay together on the console, whichever
\* processors print and panic.
THEOREM LinesStayWhole == Spec => []LinesAreWhole
<1>1. Inv => LinesAreWhole
  BY DEF Inv
<1> QED
  BY <1>1, InvHolds, PTL
=============================================================================
