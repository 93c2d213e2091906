---------------------------- MODULE MCSelfMonitor ----------------------------
(***************************************************************************)
(* SelfMonitor for TLC: integers of 3 bits stand for those of 64, so that  *)
(* 7 is RLIM_INFINITY and 3 the largest limit that an int64 can hold.      *)
(***************************************************************************)
EXTENDS SelfMonitor

=============================================================================
