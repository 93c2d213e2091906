-------------------------- MODULE MCConnectionPool ---------------------------
(***************************************************************************)
(* ConnectionPool for TLC.  The Pool*.cfg files differ in what clients do. *)
(***************************************************************************)
EXTENDS ConnectionPool

Symmetry == Permutations(Threads) \cup Permutations(Conns) \cup Permutations(Entries)
=============================================================================
