------------------------------- MODULE MCVfs -------------------------------
(* A small instance of the file system for TLC. *)
EXTENDS VfsRefinement

\* "long": more than 32 characters, "lo": the first 32 of them; the byte
\* behind those is not initialised, and what is then compared is no name at
\* all.  "huge": 64 characters.
MCKeptAs == [name \in {"a", "dev", "long"} |->
               IF name = "long" THEN {"lo", "garbled"} ELSE {name}]

MCPaths == { <<"", "">>, <<"", "dev">>, <<"", "a">>, <<"a", "">>, <<"", "a", "dev">>,
             <<"", "a", "", "a">>, <<"", "lo">>, <<"", "long">>, <<"", "a", "huge">> }

\* Two extents inside the file, the one that ends with its last byte, an
\* empty one, and one that wraps around.
MCExtents == { <<0, 1>>, <<1, 2>>, <<3, 1>>, <<1, 0>>, <<7, 2>> }

MCCalls ==
  ({"create"} \X MCPaths \X DOMAIN MCKeptAs)
    \cup ({"mount"} \X MCPaths \X {"tmp", "dev"})
    \cup ({"write", "read"} \X MCPaths \X MCExtents)
    \cup ({"readdir"} \X MCPaths \X {"any"})
=============================================================================
