----------------------------- MODULE MCGopherlist -----------------------------
(* Instances of Gopherlist for TLC.                                        *)
EXTENDS Gopherlist, TLC

(* The names have lines of one and of two characters, the others of one.   *)
Sizes == [l \in Lines |-> IF l \in {1, 3} THEN 2 ELSE 1]
Characters == {<<l, i>> : l \in Lines, i \in 1..2}
=============================================================================
