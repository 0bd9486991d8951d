------------------------------ MODULE MCNames -------------------------------
(***************************************************************************)
(* Names with two accounts that compete for one name with one legal and    *)
(* one illegal string.  The deployer is one of the two.                    *)
(***************************************************************************)
EXTENDS Names, TLC

CONSTANTS alice, bob

Mixed == [a \in Account |-> IF a = alice THEN "cli" ELSE "ui"]
Manifests == Permutations(Manifest)
=============================================================================
