------------------------------- MODULE MCSepoll -------------------------------
(* Instances of Sepoll for TLC.                                            *)
EXTENDS Sepoll, TLC

=============================================================================
