-------------------------------- MODULE Slab --------------------------------
(* One slab cache of src/kernel/src/mem/slab.c, with the lists of           *)
(* src/kernel/src/util/datastructures/ll.c, used by several CPUs.           *)
(*                                                                          *)
(* An address is <<slab, word>>, the word counted from the `start' of the   *)
(* slab; the header in front of it is a record.  A list is the sequence of  *)
(* its slabs from the head on.  Data is every word that is not a link: what *)
(* the users of objects write, and what was in the page before.             *)
(*                                                                          *)
(* slabFree moves objects through the page, and in the end out of it: the   *)
(* module has no memory behind a slab's page.  `strayed' is a history       *)
(* variable, which no guard reads: it becomes TRUE with the first access    *)
(* that leaves what is modelled, and from then on no property is claimed.   *)
EXTENDS Integers, SequencesExt

CONSTANTS
  Cpus,
  Slabs,     \* the pages vmmAlloc can still hand out, as numbers
  PageWords, \* words of a page behind the slab's header
  ObjWords,  \* cache->objSize in words: the link and the object's data
  MaxFrees   \* bound: calls of slabFree

ASSUME CpusAssumption == IsFiniteSet(Cpus)
ASSUME SlabsAssumption == Slabs \subseteq Nat \ {0} /\ IsFiniteSet(Slabs)
\* slabInitCache: ALIGN_UP(objSize, 8) + 8, and ASSERT(objPerSlab >= 1).
ASSUME SizesAssumption ==
  /\ ObjWords \in Nat /\ ObjWords > 1
  /\ PageWords \in Nat /\ PageWords >= ObjWords
ASSUME MaxFreesAssumption == MaxFrees \in Nat

objPerSlab == PageWords \div ObjWords

Words == 0 .. PageWords - 1
Addresses == Slabs \X Words

\* No address of an object: no page is numbered 0.
Data == <<0, 0>>

VARIABLES
  mem,      \* mem[s][w]: a word of a slab's page: a link or Data
  slab,     \* slab[s]: the header
  full, partial, empty,  \* the lists of the cache
  lock,     \* cache->lock
  pc,       \* pc[c]: where CPU c is
  chosen,   \* the slab of the call: `selected->next', or the one it sets up
  result,   \* slabAlloc's `result', slabFree's `addr'
  live,     \* ghost: the objects that users hold, as <<address, n>>: frees let
            \* several users hold one address, and n tells them apart
  frees,    \* ghost: calls of slabFree so far
  strayed   \* ghost: a page was overrun, or data was followed as a link

lists == <<full, partial, empty>>
callVars == <<chosen, result>>
ghosts == <<live, frees, strayed>>
vars == <<mem, slab, lists, lock, pc, callVars, ghosts>>

Locations ==
  {"idle", "allocAcquire", "alloc", "grow", "growDrop", "take", "allocDrop",
   "freeAcquire", "free", "freeMove", "freeDrop", "halted", "astray"}

NoSlab == 0

Init ==
  /\ mem = [s \in Slabs |-> [w \in Words |-> Data]]
  /\ slab = [s \in Slabs |-> [firstFree |-> Data, usedObj |-> 0]]
  /\ full = <<>>
  /\ partial = <<>>
  /\ empty = <<>>
  /\ lock = FALSE
  /\ pc = [c \in Cpus |-> "idle"]
  /\ chosen = [c \in Cpus |-> NoSlab]
  /\ result = [c \in Cpus |-> Data]
  /\ live = {}
  /\ frees = 0
  /\ strayed = FALSE

Goto(c, l) == pc' = [pc EXCEPT ![c] = l]

-----------------------------------------------------------------------------
(* ll.c *)

InsertFront(list, s) == <<s>> \o list

Without(list, s) == RemoveFirst(list, s)

Listed == Range(full) \cup Range(partial) \cup Range(empty)

-----------------------------------------------------------------------------
(* slabAlloc *)

CallAlloc(c) ==
  /\ pc[c] = "idle"
  /\ Goto(c, "allocAcquire")
  /\ UNCHANGED <<mem, slab, lists, lock, callVars, ghosts>>

\* Mutant: the lock is not waited for.
AllocAcquire_NoLock(c) ==
  /\ pc[c] = "allocAcquire"
  /\ lock' = TRUE
  /\ Goto(c, "alloc")
  /\ UNCHANGED <<mem, slab, lists, callVars, ghosts>>

AllocAcquire(c) ==
  /\ pc[c] = "allocAcquire"
  /\ ~lock
  /\ lock' = TRUE
  /\ Goto(c, "alloc")
  /\ UNCHANGED <<mem, slab, lists, callVars, ghosts>>

NothingFree == partial = <<>> /\ empty = <<>>

\* Mutant: the stride leaves out the link word.
LinkedPage_ShortStride(s) ==
  [w \in Words |->
     IF w % ObjWords = 0 /\ w \div ObjWords < objPerSlab - 1
     THEN <<s, w + ObjWords - 1>>
     ELSE mem[s][w]]

\* The links slabAllocSlab writes; the last slot keeps what the page held.
LinkedPage(s) ==
  [w \in Words |->
     IF w % ObjWords = 0 /\ w \div ObjWords < objPerSlab - 1
     THEN <<s, w + ObjWords>>
     ELSE mem[s][w]]

PagesLeft == Slabs \ (Listed \cup Range(chosen))

\* slabAllocSlab: pmmAlloc's lowest page,
GrowAlloc(c) ==
  /\ pc[c] = "alloc"
  /\ NothingFree
  /\ \E s \in PagesLeft :
       /\ \A t \in PagesLeft : s <= t
       /\ chosen' = [chosen EXCEPT ![c] = s]
  /\ Goto(c, "grow")
  /\ UNCHANGED <<mem, slab, lists, lock, result, ghosts>>

\* then its header, its links and its place in the list.
Grow(c) ==
  /\ pc[c] = "grow"
  /\ mem' = [mem EXCEPT ![chosen[c]] = LinkedPage(chosen[c])]
  /\ slab' = [slab EXCEPT ![chosen[c]] = [firstFree |-> <<chosen[c], 0>>, usedObj |-> 0]]
  /\ empty' = InsertFront(empty, chosen[c])
  /\ Goto(c, "growDrop")
  /\ UNCHANGED <<full, partial, lock, callVars, ghosts>>

\* pmmAlloc panics, with cache->lock held.
OutOfMemory(c) ==
  /\ pc[c] = "alloc"
  /\ NothingFree
  /\ PagesLeft = {}
  /\ Goto(c, "halted")
  /\ UNCHANGED <<mem, slab, lists, lock, callVars, ghosts>>

\* The lock is dropped and slabAlloc starts over.
GrowDrop(c) ==
  /\ pc[c] = "growDrop"
  /\ lock' = FALSE
  /\ chosen' = [chosen EXCEPT ![c] = NoSlab]
  /\ Goto(c, "allocAcquire")
  /\ UNCHANGED <<mem, slab, lists, result, ghosts>>

Selected == IF empty = <<>> THEN partial ELSE empty

Select(c) ==
  /\ pc[c] = "alloc"
  /\ ~NothingFree
  /\ chosen' = [chosen EXCEPT ![c] = Head(Selected)]
  /\ result' = [result EXCEPT ![c] = slab[Head(Selected)].firstFree]
  /\ Goto(c, "take")
  /\ UNCHANGED <<mem, slab, lists, lock, ghosts>>

\* Mutant: usedObj is compared before it is incremented.
Take_FullTooLate(c) ==
  LET s == chosen[c]
      a == result[c]
      isFull == slab[s].usedObj = objPerSlab
  IN
  /\ pc[c] = "take"
  /\ a # Data
  /\ slab' = [slab EXCEPT ![s].firstFree = mem[a[1]][a[2]], ![s].usedObj = @ + 1]
  /\ full' = IF isFull THEN InsertFront(full, s) ELSE full
  /\ partial' = IF isFull THEN Without(partial, s) ELSE partial
  /\ empty' = IF isFull THEN Without(empty, s) ELSE empty
  /\ Goto(c, "allocDrop")
  /\ UNCHANGED <<mem, lock, callVars, ghosts>>

Take(c) ==
  LET s == chosen[c]
      a == result[c]
      isFull == slab[s].usedObj + 1 = objPerSlab
  IN
  /\ pc[c] = "take"
  /\ a # Data
  /\ slab' = [slab EXCEPT ![s].firstFree = mem[a[1]][a[2]], ![s].usedObj = @ + 1]
  /\ full' = IF isFull THEN InsertFront(full, s) ELSE full
  /\ partial' = IF isFull THEN Without(partial, s) ELSE partial
  /\ empty' = IF isFull THEN Without(empty, s) ELSE empty
  /\ Goto(c, "allocDrop")
  /\ UNCHANGED <<mem, lock, callVars, ghosts>>

\* firstFree is data: the read of the link behind it faults and panics with the
\* lock held, or it hits whatever a user's data points to.
FollowData(c) ==
  /\ pc[c] = "take"
  /\ result[c] = Data
  /\ strayed' = TRUE
  /\ Goto(c, "astray")
  /\ UNCHANGED <<mem, slab, lists, lock, callVars, live, frees>>

\* Mutant: the size of the whole slot is added.
Object_BehindSlot(a) == <<a[1], a[2] + ObjWords>>

\* return result + sizeof(u64).
Object(a) == <<a[1], a[2] + 1>>

\* No more users than usedObj counts.
Users == 1 .. objPerSlab

AllocDrop(c) ==
  /\ pc[c] = "allocDrop"
  /\ lock' = FALSE
  /\ \E n \in Users :
       LET h == <<Object(result[c]), n>> IN
       /\ h \notin live
       /\ n = 1 \/ <<h[1], n - 1>> \in live
       /\ live' = live \cup {h}
  /\ chosen' = [chosen EXCEPT ![c] = NoSlab]
  /\ result' = [result EXCEPT ![c] = Data]
  /\ Goto(c, "idle")
  /\ UNCHANGED <<mem, slab, lists, frees, strayed>>

-----------------------------------------------------------------------------
(* slabFree of an object that is live *)

CallFree(c, h) ==
  /\ pc[c] = "idle"
  /\ frees < MaxFrees
  /\ h \in live
  /\ live' = live \ {h}
  /\ frees' = frees + 1
  /\ result' = [result EXCEPT ![c] = h[1]]
  /\ Goto(c, "freeAcquire")
  /\ UNCHANGED <<mem, slab, lists, lock, chosen, strayed>>

FreeAcquire(c) ==
  /\ pc[c] = "freeAcquire"
  /\ ~lock
  /\ lock' = TRUE
  /\ Goto(c, "free")
  /\ UNCHANGED <<mem, slab, lists, callVars, ghosts>>

\* The link goes to `addr' itself, the object's first data word.
FreeLink(c) ==
  LET a == result[c] IN
  /\ pc[c] = "free"
  /\ a[2] \in Words
  /\ mem' = [mem EXCEPT ![a[1]][a[2]] = slab[a[1]].firstFree]
  /\ chosen' = [chosen EXCEPT ![c] = a[1]]
  /\ Goto(c, "freeMove")
  /\ UNCHANGED <<slab, lists, lock, result, ghosts>>

\* ALIGN_DOWN of an address behind the page finds another page, and slabFree
\* takes its first words for a header.
FreeBehindPage(c) ==
  /\ pc[c] = "free"
  /\ result[c][2] \notin Words
  /\ strayed' = TRUE
  /\ Goto(c, "astray")
  /\ UNCHANGED <<mem, slab, lists, lock, callVars, live, frees>>

\* Mutant: usedObj is not decremented.
FreeMove_KeepsCount(c) ==
  LET s == chosen[c]
      isEmpty == slab[s].usedObj = 1
  IN
  /\ pc[c] = "freeMove"
  /\ slab' = [slab EXCEPT ![s].firstFree = result[c]]
  /\ full' = Without(full, s)
  /\ partial' = IF isEmpty THEN Without(partial, s) ELSE InsertFront(Without(partial, s), s)
  /\ empty' = IF isEmpty THEN InsertFront(Without(empty, s), s) ELSE Without(empty, s)
  /\ Goto(c, "freeDrop")
  /\ UNCHANGED <<mem, lock, callVars, ghosts>>

FreeMove(c) ==
  LET s == chosen[c]
      isEmpty == slab[s].usedObj = 1
  IN
  /\ pc[c] = "freeMove"
  /\ slab' = [slab EXCEPT ![s].firstFree = result[c], ![s].usedObj = @ - 1]
  /\ full' = Without(full, s)
  /\ partial' = IF isEmpty THEN Without(partial, s) ELSE InsertFront(Without(partial, s), s)
  /\ empty' = IF isEmpty THEN InsertFront(Without(empty, s), s) ELSE Without(empty, s)
  /\ Goto(c, "freeDrop")
  /\ UNCHANGED <<mem, lock, callVars, ghosts>>

FreeDrop(c) ==
  /\ pc[c] = "freeDrop"
  /\ lock' = FALSE
  /\ chosen' = [chosen EXCEPT ![c] = NoSlab]
  /\ result' = [result EXCEPT ![c] = Data]
  /\ Goto(c, "idle")
  /\ UNCHANGED <<mem, slab, lists, ghosts>>

\* The words an object's user may write.
ObjectWords(a) == {<<a[1], w>> : w \in a[2] .. a[2] + ObjWords - 2}

\* A user writes its object, and behind the page when the object ends there.
WriteObject(h) ==
  LET a == h[1] IN
  /\ h \in live
  /\ mem' = [mem EXCEPT ![a[1]] =
               [w \in Words |-> IF <<a[1], w>> \in ObjectWords(a) THEN Data ELSE @[w]]]
  /\ strayed' = (strayed \/ ~ (ObjectWords(a) \subseteq Addresses))
  /\ UNCHANGED <<slab, lists, lock, pc, callVars, live, frees>>

Next ==
  \/ \E c \in Cpus :
       \/ CallAlloc(c)
       \/ AllocAcquire(c)
       \/ GrowAlloc(c)
       \/ Grow(c)
       \/ OutOfMemory(c)
       \/ GrowDrop(c)
       \/ Select(c)
       \/ Take(c)
       \/ FollowData(c)
       \/ AllocDrop(c)
       \/ \E h \in live : CallFree(c, h)
       \/ FreeAcquire(c)
       \/ FreeLink(c)
       \/ FreeBehindPage(c)
       \/ FreeMove(c)
       \/ FreeDrop(c)
  \/ \E h \in live : WriteObject(h)

Spec == Init /\ [][Next]_vars

-----------------------------------------------------------------------------
\* Where objects begin: in a page, or right behind its last word.
ObjectAddresses == Slabs \X (0 .. PageWords)

\* The variables have the types of the C variables they stand for; no object
\* begins beyond the end of its page, and usedObj stays between 0 and objPerSlab.
TypeOK ==
  /\ mem \in [Slabs -> [Words -> Addresses \cup {Data}]]
  /\ slab \in [Slabs -> [firstFree : Addresses \cup {Data}, usedObj : 0 .. objPerSlab]]
  /\ {full, partial, empty} \subseteq Seq(Slabs)
  /\ lock \in BOOLEAN
  /\ pc \in [Cpus -> Locations]
  /\ chosen \in [Cpus -> Slabs \cup {NoSlab}]
  /\ result \in [Cpus -> ObjectAddresses \cup {Data}]
  /\ live \subseteq ObjectAddresses \X Users
  /\ frees \in 0 .. MaxFrees
  /\ strayed \in BOOLEAN

\* The objects handed out: with a user, or about to be returned.
Taken == {c \in Cpus : pc[c] = "allocDrop"}
Held == {h[1] : h \in live}
Objects == Held \cup {Object(result[c]) : c \in Taken}

\* The data words of a slot: "pointer to the next free object, actual object
\* data" (slab.c:43-49).
Slot(s, k) == <<s, k * ObjWords>>
SlotObjects == {Object(Slot(s, k)) : s \in Slabs, k \in 0 .. objPerSlab - 1}

\* Every object is the data part of a slot.
ObjectsInFormat == Objects \subseteq SlotObjects

\* As long as nothing was freed, no two objects share a word, whichever CPUs
\* allocated them, and none is handed out twice.
ObjectsAreDisjoint ==
  frees = 0 =>
    /\ \A a, b \in Objects : a # b => ObjectWords(a) \cap ObjectWords(b) = {}
    /\ \A g, h \in live : g[1] = h[1] => g = h
    /\ \A c \in Taken :
         /\ Object(result[c]) \notin Held
         /\ \A d \in Taken \ {c} : result[d] # result[c]

\* The slots reached from firstFree by k links.
FreeChain(s, k) ==
  LET chain[j \in Nat] ==
        IF j = 0 THEN slab[s].firstFree
        ELSE LET a == chain[j - 1] IN IF a = Data THEN Data ELSE mem[a[1]][a[2]]
  IN  {chain[j] : j \in 0 .. k - 1}

\* As long as nothing was freed, the links of a slab thread exactly its slots
\* that are not taken: users write their objects and never hit a link, and the
\* uninitialised link of the last slot is never followed.
FreeListIsExact ==
  frees = 0 =>
    \A s \in Listed :
      FreeChain(s, objPerSlab - slab[s].usedObj) =
        {Slot(s, k) : k \in {k \in 0 .. objPerSlab - 1 : Object(Slot(s, k)) \notin Objects}}

\* However often objects were freed, and also when they moved until two users
\* hold one address: until a page is overrun, a slab is in one list, once; it
\* is full exactly when all its objects are taken, and partial only when some
\* are.
ListsMatchUse ==
  ~strayed =>
    /\ Len(full) + Len(partial) + Len(empty) = Cardinality(Listed)
    /\ \A s \in Range(full) : slab[s].usedObj = objPerSlab
    /\ \A s \in Range(partial) : slab[s].usedObj \in 1 .. objPerSlab - 1
    /\ \A s \in Range(empty) : slab[s].usedObj < objPerSlab

\* Likewise, however often objects were freed, until a page is overrun: usedObj
\* counts the users of objects of the slab, with those that a call is serving.
UsedIsCounted ==
  ~strayed =>
    \A s \in Listed :
      slab[s].usedObj =
          Cardinality({h \in live : h[1][1] = s})
        + Cardinality({c \in Cpus : /\ pc[c] \in {"allocDrop", "freeAcquire", "free", "freeMove"}
                                    /\ result[c][1] = s})
=============================================================================
