--------------------------- MODULE MCRestoreFiles ----------------------------
(***************************************************************************)
(* RestoreFiles for TLC.  The Restore*.cfg files differ in the kind of     *)
(* restore and in what clients do.                                         *)
(***************************************************************************)
EXTENDS RestoreFiles

VolumeOnly == [Paths -> {"volume"}]
UptierOnly == [Paths -> {"uptier"}]
AllModes == [Paths -> {"volume", "overwrite", "uptier"}]

Symmetry == Permutations(Threads) \cup Permutations(Chunks) \cup Permutations(Objects)
              \cup Permutations(Paths)
=============================================================================
