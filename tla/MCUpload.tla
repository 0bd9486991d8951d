------------------------------ MODULE MCUpload ------------------------------
(***************************************************************************)
(* Instances of Upload for TLC.  With MaxBatchBytes = 3 the first file     *)
(* takes a full chunk and a short one, as any file over the limit does;    *)
(* the second chunk shares a batch with the other file, whose name sorts   *)
(* after manifest.json (name 2).                                           *)
(***************************************************************************)
EXTENDS Upload, TLC

CONSTANTS a, b, c, d

MCChunk == {a, b, c, d}
MCSize == (a :> 2) @@ (b :> 3) @@ (c :> 1) @@ (d :> 2)

\* A folder, and what it may become: another content in the second file, and
\* a file less.
MCFolders == { (1 :> <<b, c>>) @@ (3 :> <<a>>),
               (1 :> <<b, c>>) @@ (3 :> <<d>>),
               (3 :> <<a>>) }

\* A folder in which two small files have the same content and share a batch.
TwinFolders == { (1 :> <<c>>) @@ (3 :> <<c>>) }

\* All of them, one in which the two are in different batches, and one in
\* which the last chunk of a file equals the next file and shares its batch.
AllFolders == MCFolders \union TwinFolders
                        \union { (1 :> <<c>>) @@ (3 :> <<a>>) @@ (4 :> <<c>>),
                                  (1 :> <<b, c>>) @@ (3 :> <<c>>) }
=============================================================================
