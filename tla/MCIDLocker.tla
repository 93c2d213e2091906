----------------------------- MODULE MCIDLocker ------------------------------
(***************************************************************************)
(* IDLocker for TLC: three threads over two ids, with one address more     *)
(* than there are ids, so that an IDState can come back elsewhere.         *)
(***************************************************************************)
EXTENDS IDLocker

=============================================================================
