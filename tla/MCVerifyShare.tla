---------------------------- MODULE MCVerifyShare ----------------------------
(***************************************************************************)
(* VerifyShare for TLC: three addresses, of which the first never answers, *)
(* the second sometimes and the third always.                              *)
(***************************************************************************)
EXTENDS VerifyShare, TLC

CONSTANTS a1, a2, a3

MCAddrs == {a1, a2, a3}
MCWorks == a1 :> {FALSE} @@ a2 :> BOOLEAN @@ a3 :> {TRUE}

NoPooled == <<>>
OnePooled == <<a3>>

=============================================================================
