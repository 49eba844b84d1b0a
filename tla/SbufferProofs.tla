----------------------------- MODULE SbufferProofs -----------------------------
(***************************************************************************)
(* A buffer of any length, of whatever characters, is a stream: however    *)
(* the writes are split, and however often a flush fails and is called     *)
(* again, what was accepted is delivered in order and once.                *)
(***************************************************************************)
EXTENDS Sbuffer, SequenceTheorems, TLAPS

SbInv == SbTypeOK /\ BufferHolds

(* What is known of a concatenation, position by position.                 *)
LEMMA Joined ==
    ASSUME NEW S, NEW s \in Seq(S), NEW t \in Seq(S)
    PROVE  /\ s \o t \in Seq(S)
           /\ Len(s \o t) = Len(s) + Len(t)
           /\ \A i \in 1..Len(s) : (s \o t)[i] = s[i]
           /\ \A i \in 1..Len(t) : (s \o t)[Len(s) + i] = t[i]
<1>1. Len(s) \in Nat /\ Len(t) \in Nat
    BY LenProperties
<1>2. /\ s \o t \in Seq(S)
      /\ Len(s \o t) = Len(s) + Len(t)
    BY ConcatProperties, Zenon
<1>3. \A i \in 1..Len(s) + Len(t) :
         (s \o t)[i] = IF i <= Len(s) THEN s[i] ELSE t[i - Len(s)]
    BY ConcatProperties, Zenon
<1>4. ASSUME NEW i \in 1..Len(s) PROVE (s \o t)[i] = s[i]
    BY <1>1, <1>3
<1>5. ASSUME NEW i \in 1..Len(t) PROVE (s \o t)[Len(s) + i] = t[i]
  <2>1. Len(s) + i \in 1..Len(s) + Len(t) /\ ~(Len(s) + i <= Len(s)) /\ Len(s) + i - Len(s) = i
      BY <1>1
  <2> QED
      BY <1>3, <2>1
<1> QED
    BY <1>2, <1>4, <1>5

(* A prefix that is as long as what it is the prefix of.                   *)
LEMMA PrefixOf ==
    ASSUME NEW S, NEW s \in Seq(S), NEW t \in Seq(S), Len(s) <= Len(t),
           \A i \in 1..Len(s) : t[i] = s[i]
    PROVE  SubSeq(t, 1, Len(s)) = s
<1>1. Len(s) \in Nat /\ Len(t) \in Nat
    BY LenProperties
<1>2. \A i \in 1..Len(s) : t[i] \in S
    BY <1>1, ElementOfSeq
<1>3. /\ SubSeq(t, 1, Len(s)) \in Seq(S)
      /\ Len(SubSeq(t, 1, Len(s))) = IF 1 <= Len(s) THEN Len(s) - 1 + 1 ELSE 0
      /\ \A i \in 1..Len(s) - 1 + 1 : SubSeq(t, 1, Len(s))[i] = t[1 + i - 1]
    BY <1>1, <1>2, SubSeqProperties
<1>4. Len(SubSeq(t, 1, Len(s))) = Len(s)
    BY <1>1, <1>3
<1>5. \A i \in 1..Len(s) : SubSeq(t, 1, Len(s))[i] = s[i]
    BY <1>1, <1>3
<1> QED
    BY <1>3, <1>4, <1>5, SeqEqual

(* sbuffer_new.                                                            *)
LEMMA InitInv == SbInit => SbInv /\ St!Init
<1> SUFFICES ASSUME SbInit PROVE SbInv /\ St!Init
    OBVIOUS
<1>1. <<>> \in Seq(Units) /\ Len(<<>>) = 0
    BY EmptySeq
<1>2. SbTypeOK
  <2>1. 0 \in 0..Length - 1 /\ 0 \in 0..0
      BY LengthAssumption
  <2>2. [i \in 1..Length |-> Nul] \in [1..Length -> Units \cup {Nul}]
      OBVIOUS
  <2> QED
      BY <1>1, <2>1, <2>2 DEF SbInit, SbTypeOK
<1>3. BufferHolds
    BY <1>1 DEF SbInit, BufferHolds, Unwritten
<1>4. St!Init
    BY DEF SbInit, St!Init
<1> QED
    BY <1>2, <1>3, <1>4 DEF SbInv

(* The lengths of the sequences are numbers.                               *)
LEMMA Lengths ==
    ASSUME SbInv
    PROVE  Len(accepted) \in Nat /\ Len(wire) \in Nat /\ Unwritten \in Nat
<1>1. Len(accepted) \in Nat /\ Len(wire) \in Nat
    BY LenProperties DEF SbInv, SbTypeOK
<1>2. Unwritten \in Nat
    BY LengthAssumption DEF SbInv, SbTypeOK, Unwritten
<1> QED
    BY <1>1, <1>2

(* sbuffer_push keeps the invariant, and accepts a text or does nothing.   *)
LEMMA PushStep ==
    ASSUME SbInv, NEW text \in Seq(Units), Push(text)
    PROVE  SbInv' /\ (St!Accept \/ UNCHANGED <<accepted, wire>>)
<1>1. Len(text) \in Nat
    BY LenProperties
<1>2. \A i \in 1..Len(text) : text[i] \in Units
    BY ElementOfSeq
<1>3. /\ buffer' \in [1..Length -> Units \cup {Nul}]
      /\ \A i \in 1..pos : buffer'[i] = buffer[i]
      /\ Fits(text) => \A i \in 1..Len(text) : buffer'[pos + i] = text[i]
  <2> DEFINE n == IF Len(text) < Remaining THEN Len(text) ELSE Remaining - 1
  <2>1. n \in 0..Len(text) /\ pos + n < Length /\ (Fits(text) => n = Len(text))
      BY <1>1, LengthAssumption DEF SbInv, SbTypeOK, Remaining, Fits
  <2>2. buffer' = [i \in 1..Length |->
                      IF i \in pos + 1..pos + n THEN text[i - pos]
                      ELSE IF i = pos + n + 1 THEN Nul ELSE buffer[i]]
      BY DEF Push, Printed
  <2> HIDE DEF n
  <2>3. ASSUME NEW i \in 1..Length PROVE buffer'[i] \in Units \cup {Nul}
    <3>1. CASE i \in pos + 1..pos + n
      <4>1. i - pos \in 1..Len(text)
          BY <1>1, <2>1, <3>1 DEF SbInv, SbTypeOK
      <4> QED
          BY <1>2, <2>2, <3>1, <4>1
    <3>2. CASE i \notin pos + 1..pos + n
        BY <2>2, <3>2 DEF SbInv, SbTypeOK
    <3> QED
        BY <3>1, <3>2
  <2>4. buffer' \in [1..Length -> Units \cup {Nul}]
      BY <2>2, <2>3
  <2>5. ASSUME NEW i \in 1..pos PROVE buffer'[i] = buffer[i]
    <3>1. i \in 1..Length /\ i \notin pos + 1..pos + n /\ i # pos + n + 1
        BY <2>1, LengthAssumption DEF SbInv, SbTypeOK
    <3> QED
        BY <2>2, <3>1
  <2>6. ASSUME Fits(text), NEW i \in 1..Len(text) PROVE buffer'[pos + i] = text[i]
    <3>1. /\ pos \in Nat /\ i \in Nat
          /\ pos + i \in 1..Length
          /\ pos + i \in pos + 1..pos + n
          /\ pos + i - pos = i
        BY <1>1, <2>1, <2>6, LengthAssumption DEF SbInv, SbTypeOK
    <3>2. \A j \in 1..Length : j \in pos + 1..pos + n => buffer'[j] = text[j - pos]
        BY <2>2
    <3> QED
        BY <3>1, <3>2
  <2> QED
      BY <2>4, <2>5, <2>6
<1>4. CASE ~Fits(text)
  <2>1. UNCHANGED <<pos, writepos, io, failed, accepted, wire>>
      BY <1>4 DEF Push
  <2>2. SbTypeOK'
      BY <1>3, <2>1 DEF SbInv, SbTypeOK
  <2>3. ASSUME NEW i \in 1..Unwritten' PROVE buffer'[writepos' + i] = accepted'[Len(wire') + i]
    <3>1. writepos + i \in 1..pos /\ i \in 1..Unwritten
        BY <2>1, LengthAssumption DEF SbInv, SbTypeOK, Unwritten
    <3> QED
        BY <1>3, <2>1, <3>1 DEF SbInv, BufferHolds
  <2>4. BufferHolds'
      BY <2>1, <2>3 DEF SbInv, BufferHolds, Unwritten
  <2> QED
      BY <2>1, <2>2, <2>4 DEF SbInv
<1>5. CASE Fits(text)
  <2>1. /\ pos' = pos + Len(text)
        /\ accepted' = accepted \o text
        /\ UNCHANGED <<writepos, io, failed, wire>>
      BY <1>5 DEF Push
  <2>2. /\ accepted \o text \in Seq(Units)
        /\ Len(accepted \o text) = Len(accepted) + Len(text)
        /\ \A i \in 1..Len(accepted) : (accepted \o text)[i] = accepted[i]
        /\ \A i \in 1..Len(text) : (accepted \o text)[Len(accepted) + i] = text[i]
      BY Joined DEF SbInv, SbTypeOK
  <2>3. SbTypeOK'
    <3>1. pos + Len(text) \in 0..Length - 1 /\ writepos \in 0..pos + Len(text)
        BY <1>1, <1>5, LengthAssumption DEF SbInv, SbTypeOK, Fits, Remaining
    <3> QED
        BY <1>3, <2>1, <2>2, <3>1 DEF SbInv, SbTypeOK
  <2>4. Unwritten' = Unwritten + Len(text)
      BY <1>1, <2>1, LengthAssumption DEF SbInv, SbTypeOK, Unwritten
  <2>5. Len(accepted') = Len(wire') + Unwritten'
      BY <1>1, <2>1, <2>2, <2>4, Lengths DEF SbInv, BufferHolds
  <2>6. ASSUME NEW i \in 1..Len(wire') PROVE wire'[i] = accepted'[i]
    <3>1. i \in 1..Len(wire) /\ i \in 1..Len(accepted)
        BY <2>1, Lengths DEF SbInv, BufferHolds
    <3> QED
        BY <2>1, <2>2, <3>1 DEF SbInv, BufferHolds
  <2>7. ASSUME NEW i \in 1..Unwritten' PROVE buffer'[writepos' + i] = accepted'[Len(wire') + i]
    <3>1. CASE i <= Unwritten
      <4>1. /\ i \in 1..Unwritten
            /\ writepos + i \in 1..pos
            /\ Len(wire) + i \in 1..Len(accepted)
          BY <3>1, Lengths, LengthAssumption DEF SbInv, SbTypeOK, BufferHolds, Unwritten
      <4> QED
          BY <1>3, <2>1, <2>2, <4>1 DEF SbInv, BufferHolds
    <3>2. CASE i > Unwritten
      <4>1. /\ i - Unwritten \in 1..Len(text)
            /\ writepos + i = pos + (i - Unwritten)
            /\ Len(wire) + i = Len(accepted) + (i - Unwritten)
          BY <1>1, <2>4, <3>2, Lengths, LengthAssumption
          DEF SbInv, SbTypeOK, BufferHolds, Unwritten
      <4> QED
          BY <1>3, <1>5, <2>1, <2>2, <4>1
    <3> QED
        BY <1>1, <2>4, <3>1, <3>2, Lengths
  <2>8. SubSeq(accepted', 1, Len(accepted)) = accepted
    <3>1. accepted \in Seq(Units) /\ Len(accepted) <= Len(accepted \o text)
        BY <1>1, <2>2, Lengths DEF SbInv, SbTypeOK
    <3> QED
        BY <2>1, <2>2, <3>1, PrefixOf
  <2>9. St!Accept
      BY <1>1, <2>1, <2>2, <2>8, Lengths DEF St!Accept
  <2> QED
      BY <2>3, <2>5, <2>6, <2>7, <2>9 DEF SbInv, BufferHolds
<1> QED
    BY <1>4, <1>5

(* A write that takes a part keeps the invariant, and delivers that part.  *)
LEMMA WriteStep ==
    ASSUME SbInv, NEW n \in 1..Length, WriteSome(n)
    PROVE  SbInv' /\ \E k \in 1..Len(accepted) - Len(wire) : St!Deliver(k)
<1> DEFINE piece == [i \in 1..n |-> buffer[writepos + i]]
           part == SubSeq(accepted, Len(wire) + 1, Len(wire) + n)
<1>1. /\ n \in 1..Unwritten
      /\ wire' = wire \o piece
      /\ writepos' = writepos + n
      /\ UNCHANGED <<buffer, pos, io, failed, accepted>>
    BY DEF WriteSome, Advanced
<1>2. Len(accepted) = Len(wire) + Unwritten
    BY DEF SbInv, BufferHolds
<1>3. \A i \in 1..n : piece[i] = accepted[Len(wire) + i]
    BY <1>1, Lengths DEF SbInv, BufferHolds
<1>4. \A i \in Len(wire) + 1..Len(wire) + n : accepted[i] \in Units
  <2> SUFFICES ASSUME NEW i \in Len(wire) + 1..Len(wire) + n PROVE accepted[i] \in Units
      OBVIOUS
  <2>1. i \in 1..Len(accepted)
      BY <1>1, <1>2, Lengths
  <2> QED
      BY <2>1, ElementOfSeq DEF SbInv, SbTypeOK
<1>5. /\ part \in Seq(Units)
      /\ Len(part) = n
      /\ \A i \in 1..n : part[i] = accepted[Len(wire) + i]
  <2>1. /\ part \in Seq(Units)
        /\ Len(part) = IF Len(wire) + 1 <= Len(wire) + n
                         THEN Len(wire) + n - (Len(wire) + 1) + 1 ELSE 0
        /\ \A i \in 1..Len(wire) + n - (Len(wire) + 1) + 1 :
             part[i] = accepted[Len(wire) + 1 + i - 1]
      BY <1>4, Lengths, SubSeqProperties
  <2> QED
      BY <2>1, Lengths
<1>6. piece = part
  <2>1. part \in [1..n -> Units]
      BY <1>5, LenProperties
  <2> HIDE DEF part
  <2> QED
      BY <1>3, <1>5, <2>1
<1> HIDE DEF piece, part
<1>7. /\ wire \o part \in Seq(Units)
      /\ Len(wire \o part) = Len(wire) + Len(part)
      /\ \A i \in 1..Len(wire) : (wire \o part)[i] = wire[i]
      /\ \A i \in 1..Len(part) : (wire \o part)[Len(wire) + i] = part[i]
  <2>1. wire \in Seq(Units) /\ part \in Seq(Units)
      BY <1>5 DEF SbInv, SbTypeOK
  <2> QED
      BY <2>1, Joined
<1>8. SbTypeOK'
  <2>1. writepos + n \in 0..pos
      BY <1>1, LengthAssumption DEF SbInv, SbTypeOK, Unwritten
  <2> QED
      BY <1>1, <1>6, <1>7, <2>1 DEF SbInv, SbTypeOK
<1>9. Unwritten' = Unwritten - n
    BY <1>1, LengthAssumption DEF SbInv, SbTypeOK, Unwritten
<1>10. Len(accepted') = Len(wire') + Unwritten'
    BY <1>1, <1>2, <1>5, <1>6, <1>7, <1>9, Lengths
<1>11. ASSUME NEW i \in 1..Len(wire') PROVE wire'[i] = accepted'[i]
  <2>1. CASE i <= Len(wire)
    <3>1. i \in 1..Len(wire)
        BY <2>1, <1>1, <1>5, <1>6, <1>7, Lengths
    <3> QED
        BY <1>1, <1>6, <1>7, <3>1 DEF SbInv, BufferHolds
  <2>2. CASE i > Len(wire)
    <3>1. i - Len(wire) \in 1..n /\ Len(wire) + (i - Len(wire)) = i
        BY <2>2, <1>1, <1>5, <1>6, <1>7, Lengths
    <3>2. (wire \o part)[Len(wire) + (i - Len(wire))] = part[i - Len(wire)]
        BY <1>5, <1>7, <3>1
    <3> QED
        BY <1>1, <1>5, <1>6, <3>1, <3>2
  <2> QED
      BY <1>1, <1>5, <1>6, <1>7, <2>1, <2>2, Lengths
<1>12. ASSUME NEW i \in 1..Unwritten' PROVE buffer'[writepos' + i] = accepted'[Len(wire') + i]
  <2>1. /\ n + i \in 1..Unwritten
        /\ writepos + n + i = writepos + (n + i)
        /\ Len(wire) + n + i = Len(wire) + (n + i)
      BY <1>1, <1>9, Lengths, LengthAssumption DEF SbInv, SbTypeOK
  <2>2. Len(wire') = Len(wire) + n
      BY <1>1, <1>5, <1>6, <1>7
  <2> QED
      BY <1>1, <2>1, <2>2 DEF SbInv, BufferHolds
<1>13. n \in 1..Len(accepted) - Len(wire) /\ St!Deliver(n)
    BY <1>1, <1>2, <1>6, Lengths DEF St!Deliver, part
<1> QED
    BY <1>8, <1>10, <1>11, <1>12, <1>13 DEF SbInv, BufferHolds

(* Every step keeps the invariant, and is one of the stream or a stutter.  *)
LEMMA NextStep ==
    ASSUME SbInv, [SbNext]_sbvars
    PROVE  SbInv' /\ [St!Next]_<<accepted, wire>>
<1>1. ASSUME NEW text \in Seq(Units), Push(text)
      PROVE  SbInv' /\ [St!Next]_<<accepted, wire>>
    BY <1>1, PushStep DEF St!Next
<1>2. ASSUME NEW n \in 1..Length, WriteSome(n)
      PROVE  SbInv' /\ [St!Next]_<<accepted, wire>>
    BY <1>2, WriteStep DEF St!Next
<1>3. CASE Flush \/ WriteBlocks \/ PollReady \/ FlushFails
    BY <1>3 DEF Flush, WriteBlocks, PollReady, FlushFails, SbInv, SbTypeOK, BufferHolds, Unwritten
<1>4. CASE FlushDone
  <2>1. Len(accepted) = Len(wire) /\ pos' - writepos' = 0
      BY <1>4, Lengths DEF FlushDone, SbInv, BufferHolds
  <2> QED
      BY <1>4, <2>1, LengthAssumption
      DEF FlushDone, SbInv, SbTypeOK, BufferHolds, Unwritten
<1>5. CASE UNCHANGED sbvars
    BY <1>5 DEF sbvars, SbInv, SbTypeOK, BufferHolds, Unwritten
<1> QED
    BY <1>1, <1>2, <1>3, <1>4, <1>5 DEF SbNext, FlushNext

(* The variables keep to their types.                                      *)
THEOREM TypeCorrect == SbSpec => []SbTypeOK
<1>1. SbInit => SbInv
    BY InitInv
<1>2. SbInv /\ [SbNext]_sbvars => SbInv'
    BY NextStep
<1>3. SbInv => SbTypeOK
    BY DEF SbInv
<1> QED
    BY <1>1, <1>2, <1>3, PTL DEF SbSpec

(* The unwritten part of the buffer is what is still to be delivered.      *)
THEOREM AlwaysHolds == SbSpec => []BufferHolds
<1>1. SbInit => SbInv
    BY InitInv
<1>2. SbInv /\ [SbNext]_sbvars => SbInv'
    BY NextStep
<1>3. SbInv => BufferHolds
    BY DEF SbInv
<1> QED
    BY <1>1, <1>2, <1>3, PTL DEF SbSpec

(* The buffer implements the stream.                                       *)
THEOREM Refinement == SbSpec => ImplementsStream
<1>1. SbInit => SbInv /\ St!Init
    BY InitInv
<1>2. SbInv /\ [SbNext]_sbvars => SbInv' /\ [St!Next]_<<accepted, wire>>
    BY NextStep
<1> QED
    BY <1>1, <1>2, PTL DEF SbSpec, ImplementsStream, St!StreamSpec
=============================================================================
