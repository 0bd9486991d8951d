------------------------------ MODULE MCWebPage ------------------------------
(***************************************************************************)
(* Instances of WebPage for TLC.  With MaxBatchBytes = 3 a file of four    *)
(* bytes takes a full chunk and a short one, which shares a batch with the *)
(* next file.                                                              *)
(***************************************************************************)
EXTENDS WebPage, TLC

CONSTANTS a, b, c, d

MCChunk == {a, b, c, d}
MCSize == (a :> 2) @@ (b :> 3) @@ (c :> 1) @@ (d :> 1)

File(n, p, cs) == [name |-> n, path |-> p, chunks |-> cs]

\* A large file and a small one; the same names with other files, small ones
\* with the same bytes; and, with other names, a file that repeats a chunk and
\* another one, whose paths are in the other order.
MCSelections == { {File(1, 1, <<b, c>>), File(2, 2, <<a>>)},
                  {File(1, 1, <<c>>), File(2, 2, <<c>>)},
                  {File(3, 4, <<c, c>>), File(4, 3, <<d>>)} }

\* Two versions of one file of two chunks, of which the first chunks differ.
Versions == { {File(1, 1, <<a, c>>)}, {File(1, 1, <<d, c>>)} }

\* A folder with a/z (path 1) and b/a (path 2): the order of the paths is not
\* that of the names.
NestedSelections == { {File(2, 1, <<a>>), File(1, 2, <<d>>)} }
=============================================================================
