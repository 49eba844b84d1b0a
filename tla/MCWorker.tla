------------------------------- MODULE MCWorker -------------------------------
(* Instances of Worker for TLC.                                            *)
EXTENDS Worker, TLC

(* Connections are alike.                                                  *)
Alike == Permutations(Conns)
=============================================================================
