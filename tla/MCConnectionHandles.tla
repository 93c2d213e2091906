------------------------ MODULE MCConnectionHandles --------------------------
(***************************************************************************)
(* ConnectionHandles for TLC: two files that clients transfer with         *)
(* cache_handle, and a third that they rename over one of these, remove    *)
(* and restore.  p1 is a form of the path s1 that GetSmbPath changes.      *)
(***************************************************************************)
EXTENDS ConnectionHandles, TLC

CONSTANTS p1, s1, s2, s3

MCSmbPath == [p \in Paths |-> IF p = p1 THEN s1 ELSE p]

Symmetry == Permutations(Conns) \cup Permutations(Threads) \cup Permutations({s1, s2})

=============================================================================
