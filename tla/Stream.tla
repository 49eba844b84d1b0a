--------------------------------- MODULE Stream ---------------------------------
(***************************************************************************)
(* What a buffered stream promises: what it has accepted is delivered in   *)
(* order, once, and nothing else is. How much is delivered and when is     *)
(* left open.                                                              *)
(***************************************************************************)
EXTENDS Integers, Sequences

CONSTANT Units  \* the characters a text may have

VARIABLES accepted,  \* everything that was accepted
          wire       \* everything that was delivered

Init ==
    /\ accepted = <<>>
    /\ wire = <<>>

Accept ==
    /\ accepted' \in Seq(Units)
    /\ Len(accepted') >= Len(accepted)
    /\ SubSeq(accepted', 1, Len(accepted)) = accepted
    /\ UNCHANGED wire

Deliver(n) ==
    /\ wire' = wire \o SubSeq(accepted, Len(wire) + 1, Len(wire) + n)
    /\ UNCHANGED accepted

Next ==
    \/ Accept
    \/ \E n \in 1..Len(accepted) - Len(wire) : Deliver(n)

StreamSpec == Init /\ [][Next]_<<accepted, wire>>
=============================================================================
