-------------------------------- MODULE Vfs --------------------------------
(* The file system of src/kernel/src/filesystem: vfs.c, vfsops.c and the    *)
(* one file system there is, tmpfs.c.  There is no lock, and only the boot  *)
(* processor calls it.                                                      *)
(*                                                                          *)
(* A node is its number in `nodes'; `children' and `mnts' are in the order  *)
(* of the lists, the newest first.  A path is the text split at every `/'.  *)
EXTENDS Integers, SequencesExt

CONSTANTS
  Calls,      \* the calls that are made: <<function, path, argument>>
  KeptAs,     \* KeptAs[name]: what strncpy and the byte behind it make of it
  Endless,    \* pieces of 64 characters and more
  FileSize,   \* FILE_SIZE_PAGES * PAGE_SIZE
  WordSize,   \* 2^64
  MaxCalls    \* bound: calls

ASSUME SizesAssumption == FileSize \in Nat /\ WordSize \in Nat /\ FileSize < WordSize
ASSUME NamesAssumption ==
  /\ \A name \in DOMAIN KeptAs : KeptAs[name] \subseteq STRING
  /\ "" \notin Endless
ASSUME CallsAssumption ==
  \A c \in Calls :
    /\ c[1] \in {"create", "mount", "write", "read", "readdir"}
    /\ c[2] \in Seq(STRING) \ {<<>>}
    /\ c[1] = "create" => c[3] \in DOMAIN KeptAs
    /\ c[1] \in {"write", "read"} => c[3] \in (0 .. WordSize - 1) \X (0 .. WordSize - 1)

VARIABLES
  call,    \* the call that is being made, or NoCall
  nodes,   \* nodes[n]: an FsNode with its TmpfsNode
  mnts,    \* the mounts
  status,  \* "ok", or what became of the kernel
  calls,   \* ghost: calls so far
  wrote    \* ghost: <<file, byte>> for the bytes that writes were to write

vars == <<call, nodes, mnts, status, calls, wrote>>

NoCall == <<>>

Null == 0
root == 1
Hung == -1  \* the lookup does not return

Byte == 1

Node(type, name) ==
  [type |-> type, name |-> name, children |-> <<>>,
   data |-> IF type = "file" THEN [b \in 0 .. FileSize - 1 |-> 0] ELSE <<>>]

\* A mount on node n whose file system has the root r; its texts are only printed.
FsMnt(n, r) == [mountpoint |-> n, root |-> r]

-----------------------------------------------------------------------------
(* Lookup *)

\* vfsFindMnt, and the step to the root of the mount that it finds.
vfsCross(n) ==
  LET at(i) == mnts[i].mountpoint = n
  IN  IF \E i \in DOMAIN mnts : at(i)
      THEN mnts[CHOOSE i \in DOMAIN mnts : at(i) /\ \A j \in 1 .. i - 1 : ~ at(j)].root
      ELSE n

\* 0 when the texts are the same; which of them is greater nobody asks.
strcmp(a, b) == IF a = b THEN 0 ELSE 1

tmpfsLookup(n, name) ==
  LET list == nodes[n].children
      named(i) == strcmp(nodes[list[i]].name, name) = 0
  IN  IF \E i \in DOMAIN list : named(i)
      THEN list[CHOOSE i \in DOMAIN list : named(i) /\ \A j \in 1 .. i - 1 : ~ named(j)]
      ELSE Null

vfsLook(n, name) ==
  IF nodes[n].type = "file" THEN Null ELSE vfsCross(tmpfsLookup(n, name))

\* A piece that was read, from node n on.
AtPiece(n, piece) ==
  IF n \in {Null, Hung} \/ piece = "" THEN n
  ELSE IF piece \in Endless THEN Hung ELSE vfsLook(n, piece)

\* A slash behind it.
AtSlash(n) ==
  IF n \notin {Null, Hung} /\ nodes[n].type = "file" THEN Null ELSE n

vfsLookup(path) ==
  LET Current[i \in 0 .. Len(path) - 1] ==  \* behind the i-th slash
        IF i = 0 THEN vfsCross(root) ELSE AtSlash(AtPiece(Current[i - 1], path[i]))
  IN  AtPiece(Current[Len(path) - 1], path[Len(path)])

Request ==
  /\ call = NoCall /\ status = "ok" /\ calls < MaxCalls
  /\ call' \in Calls
  /\ calls' = calls + 1
  /\ UNCHANGED <<nodes, mnts, status, wrote>>

\* What the call has to write: an extent that ends in front of the last byte.
Asked ==
  {x \in {vfsLookup(call[2])} \X (0 .. FileSize - 1) :
     /\ call[1] = "write"
     /\ x[1] \notin {Null, Hung} /\ nodes[x[1]].type = "file"
     /\ call[3][1] <= x[2] /\ x[2] < call[3][1] + call[3][2]
     /\ call[3][1] + call[3][2] < FileSize}

Serve(function, OnFound(_)) ==
  /\ call # NoCall /\ call[1] = function
  /\ call' = NoCall
  /\ wrote' = wrote \cup Asked
  /\ LET n == vfsLookup(call[2])
     IN  \/ n = Hung /\ status' = "hung" /\ UNCHANGED <<nodes, mnts>>
         \/ n = Null /\ UNCHANGED <<nodes, mnts, status>>
         \/ n \notin {Null, Hung} /\ OnFound(n)
  /\ UNCHANGED calls

-----------------------------------------------------------------------------
(* Create and mount *)

\* What may be in a node's array of characters: strncpy cuts the name and
\* ends it only when it is shorter than the count; the byte behind a name that
\* was cut is what the slab held.
strncpy(name) == KeptAs[name]

\* tmpfsAllocNode and tmpfsAddChild, whatever n is.
tmpfsCreate(n, kept) ==
  Append([nodes EXCEPT ![n].children = <<Len(nodes) + 1>> \o @], Node("file", kept))

vfsCreate ==
  Serve("create", LAMBDA n :
    /\ \E kept \in strncpy(call[3]) : nodes' = tmpfsCreate(n, kept)
    /\ UNCHANGED <<mnts, status>>)

\* The root of a tmpfs with its "dev", as the last nodes of `ns'.
tmpfsMount(ns) ==
  ns \o << [Node("dir", "") EXCEPT !.children = <<Len(ns) + 2>>], Node("dir", "dev") >>

Mounted(n, r) == <<FsMnt(n, r)>> \o mnts

\* Mutant: a mount of an unknown type shows the directory below.
vfsMount_UnknownShowsBelow ==
  Serve("mount", LAMBDA n :
    /\ UNCHANGED status
    /\ \/ call[3] = "tmp" /\ nodes' = tmpfsMount(nodes) /\ mnts' = Mounted(n, Len(nodes) + 1)
       \/ call[3] # "tmp" /\ UNCHANGED <<nodes, mnts>>)

vfsMount ==
  Serve("mount", LAMBDA n :
    /\ UNCHANGED status
    /\ \/ strcmp(call[3], "tmp") = 0 /\ nodes' = tmpfsMount(nodes) /\ mnts' = Mounted(n, Len(nodes) + 1)
       \/ strcmp(call[3], "tmp") # 0 /\ mnts' = Mounted(n, Null) /\ UNCHANGED nodes)

-----------------------------------------------------------------------------
(* Read and write *)

Refused(n, pos, size) ==
  nodes[n].type = "dir" \/ (pos + size) % WordSize >= FileSize

\* memcpy asserts that there is something to copy; an extent that wraps
\* around takes it out of the file's pages.
Outcome(pos, size) ==
  IF size = 0 THEN "panicked" ELSE IF pos + size < WordSize THEN "ok" ELSE "stray"

\* `written' is what a valid extent makes of the nodes.
tmpfsReadWrite(n, written) ==
  LET pos == call[3][1]
      size == call[3][2]
  IN  /\ UNCHANGED mnts
      /\ \/ Refused(n, pos, size) /\ UNCHANGED <<nodes, status>>
         \/ /\ ~Refused(n, pos, size)
            /\ status' = Outcome(pos, size)
            /\ nodes' = IF status' = "ok" THEN written ELSE nodes

\* Mutant: one byte more is copied.
Extent_OneMore == call[3][1] .. call[3][1] + call[3][2]

Extent == call[3][1] .. call[3][1] + call[3][2] - 1

vfsWrite ==
  Serve("write", LAMBDA n :
    tmpfsReadWrite(n, [nodes EXCEPT ![n].data =
                         [b \in DOMAIN @ |-> IF b \in Extent THEN Byte ELSE @[b]]]))

vfsRead == Serve("read", LAMBDA n : tmpfsReadWrite(n, nodes))

\* The bytes that a read leaves in the buffer.
ReadBytes(path, pos, size) ==
  LET n == vfsLookup(path)
  IN  IF n \in {Null, Hung} \/ Refused(n, pos, size) THEN <<>>
      ELSE [i \in 1 .. size |-> nodes[n].data[pos + i - 1]]

-----------------------------------------------------------------------------
(* Directories *)

\* Mutant: the entry at pos is counted from 1.
tmpfsReaddir_FromOne(n, pos) ==
  LET c == nodes[n].children
  IN  IF pos >= 1 /\ pos <= Len(c) THEN <<nodes[c[pos]].name, nodes[c[pos]].type>> ELSE <<>>

\* The pos-th entry from 0 on, the newest first; <<>>: there is none.
tmpfsReaddir(n, pos) ==
  LET c == nodes[n].children
  IN  IF pos < Len(c) THEN <<nodes[c[pos + 1]].name, nodes[c[pos + 1]].type>> ELSE <<>>

vfsReadDir == Serve("readdir", LAMBDA n : UNCHANGED <<nodes, mnts, status>>)

-----------------------------------------------------------------------------

\* vfsInit and vfsDoMounts: the root node, never looked into, is covered by
\* a tmpfs; its "dev" by a mount of a type that nobody knows.
Init ==
  /\ call = NoCall
  /\ nodes = tmpfsMount(<<Node("unset", "")>>)
  /\ mnts = << FsMnt(3, Null), FsMnt(root, 2) >>
  /\ status = "ok"
  /\ calls = 0
  /\ wrote = {}

Next ==
  \/ Request
  \/ vfsCreate \/ vfsMount
  \/ vfsWrite \/ vfsRead \/ vfsReadDir

Spec == Init /\ [][Next]_vars
=============================================================================
