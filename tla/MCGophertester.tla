---------------------------- MODULE MCGophertester ----------------------------
(* Instances of Gophertester for TLC.                                      *)
EXTENDS Gophertester, TLC
=============================================================================
