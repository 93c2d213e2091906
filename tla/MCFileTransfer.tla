--------------------------- MODULE MCFileTransfer ----------------------------
(***************************************************************************)
(* FileTransfer for TLC: a file of four bytes, read and written in pieces  *)
(* of at most two, each with one retry.                                    *)
(***************************************************************************)
EXTENDS FileTransfer

=============================================================================
