------------------------------- MODULE Units -------------------------------
(***************************************************************************)
(* What the CLI's uploader (cli/src/upload.ts, batch.ts) and the web       *)
(* page's (web/src/lib/evmfs.ts) have in common.  Files are cut into       *)
(* units, records with the fields file, chunk, total and data; a batch is  *)
(* a sequence of units; the Store logs of its receipt are turned back into *)
(* units through a map keyed by the hash of the bytes.                     *)
(***************************************************************************)
EXTENDS Naturals, Sequences, FiniteSets

Key(u) == <<u.file, u.chunk>>

Precedes(u, v) == \/ u.file < v.file
                  \/ u.file = v.file /\ u.chunk < v.chunk

\* S as a sequence in the order Before (the one sorted enumeration of S).
SortedBy(S, Before(_, _)) ==
    {s \in [1 .. Cardinality(S) -> S] :
        \A i, j \in 1 .. Cardinality(S) : i < j => Before(s[i], s[j])}

\* hashToUnit: two units of a batch with the same bytes have one entry in the
\* map, the later one; f[k] is the unit the map gives for the k-th log.
HashToUnit(b) ==
    {f \in [DOMAIN b -> DOMAIN b] :
        \A k \in DOMAIN b :
            /\ b[f[k]].data = b[k].data
            /\ \A j \in DOMAIN b : b[j].data = b[k].data => j <= f[k]}
=============================================================================
