---------------------------- MODULE MCDeleteTree -----------------------------
(***************************************************************************)
(* DeleteTree for TLC: a chain of three directories, a sibling, and a file *)
(* in the first and in the second of the chain.                            *)
(***************************************************************************)
EXTENDS DeleteTree

CONSTANTS a, ab, abc, ad, af, abf

MCDirs == {a, ab, abc, ad}
MCParent == [d \in MCDirs |-> IF d = a THEN NoDir ELSE IF d = abc THEN ab ELSE a]
MCDirOf == [f \in {af, abf} |-> IF f = af THEN a ELSE ab]

Symmetry == Permutations(Threads)
=============================================================================
