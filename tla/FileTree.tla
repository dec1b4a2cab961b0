------------------------------ MODULE FileTree ------------------------------
(* What the file system promises: a tree, as a map from paths to entries.   *)
(* A path into the tree is the sequence of its names; a path a caller       *)
(* passes is the text split at every `/', so "" is a piece of it where two  *)
(* slashes meet or the text starts or ends with one.                        *)
EXTENDS Integers, SequencesExt

CONSTANTS
  Calls,     \* the calls that are made: <<function, path, argument>>
  KeptAs,    \* KeptAs[name]: what a file created as `name' may be called
  Endless,   \* pieces that are too long to be looked up
  FileSize,  \* bytes of a file
  WordSize   \* one more than the greatest u64

VARIABLES
  call,     \* the call that is being made, or NoCall
  tree,     \* the entries, by path
  mounted,  \* the paths at which a file system is mounted
  status    \* "ok", or what became of the kernel

NoCall == <<>>

Byte == 1  \* what is written; a new file holds zeroes
Directory == [type |-> "dir", data |-> <<>>]
NewFile == [type |-> "file", data |-> [b \in 0 .. FileSize - 1 |-> 0]]

TreeInit ==
  /\ call = NoCall
  /\ tree = [p \in {<<>>} |-> Directory]
  /\ mounted = {<<>>}
  /\ status = "ok"

-----------------------------------------------------------------------------
(* Finding a path *)

\* The names among the first i pieces of a path, and all of them.
NamesTo(path, i) ==
  LET Upto[j \in 0 .. Len(path)] ==
        IF j = 0 THEN <<>>
        ELSE IF path[j] = "" THEN Upto[j - 1] ELSE Append(Upto[j - 1], path[j])
  IN  Upto[i]

Names(path) == NamesTo(path, Len(path))

IsDir(p) == p \in DOMAIN tree /\ tree[p].type = "dir"

\* A slash behind a name asks for a directory.
Exists(path) ==
  LET p == Names(path)
  IN  p \in DOMAIN tree /\ (path[Len(path)] = "" => IsDir(p))

Found(path) == Exists(path) /\ \A i \in DOMAIN path : path[i] \notin Endless

\* The search gets as far as a name it cannot take in.
Hangs(path) ==
  \E i \in DOMAIN path :
    path[i] \in Endless /\ IsDir(NamesTo(path, i - 1))

Under(p) == {q \in DOMAIN tree : IsPrefix(p, q)}

\* The tree with `entry' at the paths `new', in place of everything from p down.
Grafted(p, new, entry) ==
  [q \in new \cup (DOMAIN tree \ Under(p)) |-> IF q \in new THEN entry ELSE tree[q]]

-----------------------------------------------------------------------------
(* The calls *)

Request == call = NoCall /\ call' \in Calls /\ UNCHANGED <<tree, mounted, status>>

Same == UNCHANGED <<tree, mounted, status>>

Serve(function, OnFound(_)) ==
  /\ call # NoCall /\ call[1] = function /\ status = "ok"
  /\ call' = NoCall
  /\ LET path == call[2]
     IN  \/ Hangs(path) /\ status' = "hung" /\ UNCHANGED <<tree, mounted>>
         \/ ~Hangs(path) /\ ~Found(path) /\ Same
         \/ Found(path) /\ OnFound(Names(path))

\* A new file hides what had its name; a file has no entries.
Create ==
  Serve("create", LAMBDA p :
    \/ tree[p].type = "file" /\ Same
    \/ /\ IsDir(p)
       /\ \E kept \in KeptAs[call[3]] :
            LET new == Append(p, kept)
            IN  /\ tree' = Grafted(new, {new}, NewFile)
                /\ mounted' = mounted \ Under(new)
       /\ UNCHANGED status)

\* The first mount at a path hides what was there, a second one is hidden by
\* it, and one of an unknown type hides the path itself.
Mount ==
  Serve("mount", LAMBDA p :
    \/ p \in mounted /\ Same
    \/ /\ p \notin mounted
       /\ LET known == call[3] = "tmp"
          IN  /\ tree' = Grafted(p, IF known THEN {p, Append(p, "dev")} ELSE {}, Directory)
              /\ mounted' = (mounted \ Under(p)) \cup (IF known THEN {p} ELSE {})
       /\ UNCHANGED status)

\* An extent that wraps around is not noticed; its end is taken for the sum
\* of the words.  The last byte of a file belongs to no valid extent.
Refused(p, pos, size) == IsDir(p) \/ (pos + size) % WordSize >= FileSize

Access(function, Written(_, _)) ==
  Serve(function, LAMBDA p :
    LET pos == call[3][1]
        size == call[3][2]
    IN  \/ Refused(p, pos, size) /\ Same
        \/ /\ ~Refused(p, pos, size)
           /\ status' = IF size = 0 THEN "panicked"
                        ELSE IF pos + size < WordSize THEN "ok" ELSE "stray"
           /\ tree' = IF status' = "ok" THEN Written(p, pos .. pos + size - 1) ELSE tree
           /\ UNCHANGED mounted)

Write ==
  Access("write", LAMBDA p, extent :
    [tree EXCEPT ![p].data =
       [b \in DOMAIN @ |-> IF b \in extent THEN Byte ELSE @[b]]])

Read == Access("read", LAMBDA p, extent : tree)

ReadDir == Serve("readdir", LAMBDA p : Same)

TreeNext == Request \/ Create \/ Mount \/ Write \/ Read \/ ReadDir

TreeSpec == TreeInit /\ [][TreeNext]_<<call, tree, mounted, status>>

-----------------------------------------------------------------------------
(* What a caller sees *)

\* The bytes of a file that a read of a valid extent returns.
Contents(path, pos, size) ==
  IF Found(path) /\ ~Refused(Names(path), pos, size)
  THEN [i \in 1 .. size |-> tree[Names(path)].data[pos + i - 1]]
  ELSE <<>>

NamesIn(p) == {q[Len(q)] : q \in {r \in Under(p) : Len(r) = Len(p) + 1}}
=============================================================================
