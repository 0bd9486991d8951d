---------------------------- MODULE MCNameCache -----------------------------
(***************************************************************************)
(* NameCache with two names in a cache for one, and two registries.        *)
(***************************************************************************)
EXTENDS NameCache, TLC

CONSTANTS n1, n2, s1, s2

\* The first name is known to the old registry only, the second to nobody.
MCRegistries == { <<(n1 :> None) @@ (n2 :> None), (n1 :> s1) @@ (n2 :> None)>> }
=============================================================================
