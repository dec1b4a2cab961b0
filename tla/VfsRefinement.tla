--------------------------- MODULE VfsRefinement ---------------------------
(* Vfs implements FileTree: the nodes that a lookup can reach, mounts        *)
(* crossed, are the tree.                                                    *)
EXTENDS Vfs

\* Every name leads to a node that was made later, and the search starts at
\* node 2.
Depth == Len(nodes) - 2

\* The paths that lead from the root to a node, with the node.
Reach ==
  LET NamesOf(n) == {nodes[c].name : c \in Range(nodes[n].children)}
      Level[d \in 0 .. Depth] ==
        IF d = 0 THEN {<< <<>>, vfsCross(root) >>}
        ELSE {x \in UNION {{<<Append(e[1], name), vfsLook(e[2], name)>> : name \in NamesOf(e[2])}
                             : e \in Level[d - 1]} : x[2] # Null}
  IN  UNION {Level[d] : d \in 0 .. Depth}

treeOfNodes ==
  LET reach == Reach
  IN  [p \in {e[1] : e \in reach} |->
         LET n == (CHOOSE e \in reach : e[1] = p)[2]
         IN  [type |-> nodes[n].type, data |-> nodes[n].data]]

mountedPaths == {e[1] : e \in {x \in Reach : \E i \in DOMAIN mnts : mnts[i].root = x[2]}}

Tree == INSTANCE FileTree WITH tree <- treeOfNodes, mounted <- mountedPaths

\* Every call does to the tree that lookups see what the tree's own call
\* does: the right entry appears, disappears or is written, nothing else
\* changes, and the kernel hangs, panics or goes astray exactly where the
\* tree says that it may.
ImplementsFileTree == Tree!TreeSpec

Idle == call = NoCall /\ status = "ok"

PathsUsed == {c[2] : c \in Calls}

\* A read through any path is that of the file which the tree has there, and
\* returns what was written last, under whatever path it was written and
\* whatever was created or mounted since, with zeroes where nothing was written.
ReadsSeeWrites ==
  Idle =>
    \A c \in {d \in Calls : d[1] = "read" /\ d[3][1] + d[3][2] < WordSize} :
      LET file == vfsLookup(c[2])
          bytes == ReadBytes(c[2], c[3][1], c[3][2])
      IN  /\ bytes = Tree!Contents(c[2], c[3][1], c[3][2])
          /\ bytes # <<>> =>
               bytes = [i \in 1 .. c[3][2] |->
                          IF <<file, c[3][1] + i - 1>> \in wrote THEN Byte ELSE 0]

\* tmpfsReaddir against lookup, two searches of one list: counting up from 0
\* until nothing is returned lists every name that the directory leads to,
\* and the first entry of a name has the type of what the name leads to,
\* unless something is mounted there.
DirectoriesListTheTree ==
  Idle => \A path \in PathsUsed :
    LET n == vfsLookup(path)
        entries == [i \in 1 .. Len(nodes[n].children) |-> tmpfsReaddir(n, i - 1)]
        p == Tree!Names(path)
    IN  Tree!Found(path) /\ Tree!IsDir(p) =>
          /\ <<>> \notin Range(entries) /\ tmpfsReaddir(n, Len(entries)) = <<>>
          /\ Tree!NamesIn(p) \subseteq {e[1] : e \in Range(entries)}
          /\ \A i \in DOMAIN entries :
               LET q == Append(p, entries[i][1])
               IN  (\A j \in 1 .. i - 1 : entries[j][1] # entries[i][1]) =>
                     \/ q \in DOMAIN treeOfNodes /\ entries[i][2] = treeOfNodes[q].type
                     \/ \E m \in DOMAIN mnts : mnts[m].mountpoint = nodes[n].children[i]
=============================================================================
