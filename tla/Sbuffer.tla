-------------------------------- MODULE Sbuffer --------------------------------
(***************************************************************************)
(* sbuffer.c and sbuffer.h: texts are printed into a buffer in memory,     *)
(* which is written to a descriptor that may take a part of it, block or   *)
(* fail. sbuffer_flush is a step for every call of write and of poll.      *)
(*                                                                         *)
(* The buffer is one array; base, pos and writepos are counted from its    *)
(* start. sbuffer->written is Len(wire).                                   *)
(***************************************************************************)
EXTENDS Integers, Sequences

CONSTANTS Length,  \* sbuffer->len
          Units,   \* the characters a text may have
          Nul      \* the one that ends a string

ASSUME LengthAssumption == Length \in Nat \ {0}
ASSUME NulAssumption == Nul \notin Units

VARIABLES
    buffer,    \* the memory
    pos,       \* sbuffer->pos
    writepos,  \* sbuffer->writepos
    io,        \* where sbuffer_flush is
    failed,    \* some sbuffer_flush has returned an error
    accepted,  \* what sbuffer_push has returned success for, all of it
    wire       \* what the descriptor has taken, all of it

sbvars == <<buffer, pos, writepos, io, failed, accepted, wire>>

SbTypeOK ==
    /\ buffer \in [1..Length -> Units \cup {Nul}]
    /\ pos \in 0..Length - 1
    /\ writepos \in 0..pos
    /\ io \in {"idle", "write", "poll"}
    /\ failed \in BOOLEAN
    /\ accepted \in Seq(Units)
    /\ wire \in Seq(Units)

SbInit ==
    /\ buffer = [i \in 1..Length |-> Nul]
    /\ pos = 0
    /\ writepos = 0
    /\ io = "idle"
    /\ failed = FALSE
    /\ accepted = <<>>
    /\ wire = <<>>

Remaining == Length - pos
Unwritten == pos - writepos

(* Mutant: no place is kept for the NUL.                                   *)
FitsExactly(text) == Len(text) <= Remaining

Fits(text) == Len(text) < Remaining

(* vsnprintf: as much of the text as there is room for, and a NUL.         *)
Printed(text) ==
    LET n == IF Len(text) < Remaining THEN Len(text) ELSE Remaining - 1 IN
    [i \in 1..Length |->
        IF i \in pos + 1..pos + n THEN text[i - pos]
        ELSE IF i = pos + n + 1 THEN Nul ELSE buffer[i]]

Push(text) ==
    /\ io = "idle"
    /\ buffer' = Printed(text)
    /\ IF Fits(text)
         THEN pos' = pos + Len(text) /\ accepted' = accepted \o text
         ELSE UNCHANGED <<pos, accepted>>
    /\ UNCHANGED <<writepos, io, failed, wire>>

Flush ==
    /\ io = "idle"
    /\ io' = "write"
    /\ UNCHANGED <<buffer, pos, writepos, failed, accepted, wire>>

(* Mutant: writepos is left where it was.                                  *)
WriteAgain(n) == writepos

Advanced(n) == writepos + n

WriteSome(n) ==
    /\ io = "write"
    /\ n \in 1..Unwritten
    /\ wire' = wire \o [i \in 1..n |-> buffer[writepos + i]]
    /\ writepos' = Advanced(n)
    /\ UNCHANGED <<buffer, pos, io, failed, accepted>>

WriteBlocks ==
    /\ io = "write"
    /\ Unwritten > 0
    /\ io' = "poll"
    /\ UNCHANGED <<buffer, pos, writepos, failed, accepted, wire>>

PollReady ==
    /\ io = "poll"
    /\ io' = "write"
    /\ UNCHANGED <<buffer, pos, writepos, failed, accepted, wire>>

(* write fails, or poll does or times out: sbuffer_flush returns an error, *)
(* and a later one continues where this one stopped.                       *)
FlushFails ==
    /\ io = "poll" \/ (io = "write" /\ Unwritten > 0)
    /\ io' = "idle"
    /\ failed' = TRUE
    /\ UNCHANGED <<buffer, pos, writepos, accepted, wire>>

FlushDone ==
    /\ io = "write"
    /\ Unwritten = 0
    /\ pos' = 0
    /\ writepos' = 0
    /\ io' = "idle"
    /\ UNCHANGED <<buffer, failed, accepted, wire>>

FlushNext ==
    \/ \E n \in 1..Length : WriteSome(n)
    \/ WriteBlocks \/ PollReady \/ FlushFails \/ FlushDone

SbNext == (\E text \in Seq(Units) : Push(text)) \/ Flush \/ FlushNext

SbSpec == SbInit /\ [][SbNext]_sbvars

(* The buffer is a stream: it loses, repeats and reorders nothing that it  *)
(* has accepted, however the writes are split and however often a flush    *)
(* fails and is called again (sbuffer.c:22-100).                           *)
St == INSTANCE Stream

ImplementsStream == St!StreamSpec

(* Why: the unwritten part of the buffer is the part of what was accepted  *)
(* that was not delivered, with room for a NUL behind it.                  *)
BufferHolds ==
    /\ Len(accepted) = Len(wire) + Unwritten
    /\ \A i \in 1..Len(wire) : wire[i] = accepted[i]
    /\ \A i \in 1..Unwritten : buffer[writepos + i] = accepted[Len(wire) + i]
=============================================================================
