------------------------------ MODULE MCLibrary -----------------------------
(***************************************************************************)
(* An instance of Library for TLC: four files, the third named like an    *)
(* index and in two parts, with hints that are right, off by one, off by   *)
(* more, and missing.                                                      *)
(***************************************************************************)
EXTENDS Library, TLC

CONSTANTS mf, ha, hb, hc, hd, he

Part(h, b) == [h |-> h, b |-> b]

MCEntries == << [f |-> "a", parts |-> <<Part(ha, 3)>>],
                [f |-> "b", parts |-> <<Part(hb, 5)>>],
                [f |-> "0", parts |-> <<Part(hc, 0), Part(hd, 1)>>],
                [f |-> "d", parts |-> <<Part(he, 2)>>] >>

MCDigits == <<"0", "1", "2", "3">>

Whole == mf :> {0} @@ ha :> {2} @@ hb :> {1} @@ hc :> {4} @@ hd :> {1} @@ he :> {2}

\* Everything is stored; a part of a file is not; the manifest is not.
MCChains == {Whole, [Whole EXCEPT ![hc] = {}], [Whole EXCEPT ![mf] = {}]}

MCCall == {[kind |-> "all", path |-> None, block |-> 0],
           [kind |-> "all", path |-> None, block |-> 4],
           [kind |-> "one", path |-> "b", block |-> 0],
           [kind |-> "one", path |-> "0", block |-> 0],
           [kind |-> "one", path |-> "c", block |-> 1]}
=============================================================================
