---------------------------- MODULE MCGrpcService ----------------------------
(***************************************************************************)
(* GrpcService for TLC: two polling threads.                               *)
(***************************************************************************)
EXTENDS GrpcService

=============================================================================
