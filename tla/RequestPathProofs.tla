--------------------------- MODULE RequestPathProofs ---------------------------
(***************************************************************************)
(* The path made of a request, for requests of any length and any letters: *)
(* it fits its buffer, it never leads up, it is the path of the selector,  *)
(* and the links a menu makes of it lead back to what they name.           *)
(***************************************************************************)
EXTENDS RequestPath, SequenceTheorems, FiniteSetTheorems, WellFoundedInduction, TLAPS

(* What is known of a concatenation, position by position.                 *)
LEMMA Joined ==
    ASSUME NEW s \in Seq(Chars), NEW t \in Seq(Chars)
    PROVE  /\ Len(s) \in Nat
           /\ Len(t) \in Nat
           /\ s \o t \in Seq(Chars)
           /\ Len(s \o t) = Len(s) + Len(t)
           /\ \A i \in 1..Len(s) : (s \o t)[i] = s[i]
           /\ \A i \in 1..Len(t) : (s \o t)[Len(s) + i] = t[i]
<1>1. Len(s) \in Nat /\ Len(t) \in Nat
    BY LenProperties
<1>2. /\ s \o t \in Seq(Chars)
      /\ Len(s \o t) = Len(s) + Len(t)
    BY ConcatProperties, Zenon
<1>3. \A i \in 1..Len(s) + Len(t) :
         (s \o t)[i] = IF i <= Len(s) THEN s[i] ELSE t[i - Len(s)]
    BY ConcatProperties, Zenon
<1>4. ASSUME NEW i \in 1..Len(s) PROVE (s \o t)[i] = s[i]
    BY <1>1, <1>3
<1>5. ASSUME NEW i \in 1..Len(t) PROVE (s \o t)[Len(s) + i] = t[i]
  <2>1. Len(s) + i \in 1..Len(s) + Len(t) /\ ~(Len(s) + i <= Len(s)) /\ Len(s) + i - Len(s) = i
      BY <1>1
  <2> QED
      BY <1>3, <2>1
<1> QED
    BY <1>1, <1>2, <1>4, <1>5

(* A path and a component that is not hidden and has no slash make a path. *)
LEMMA ExtendedPath ==
    ASSUME Relative, filename \in Seq(Chars), Len(filename) >= 1,
           filename[Len(filename)] # "/",
           NEW c \in Seq(Chars), ~Hidden(c), \A i \in 1..Len(c) : c[i] # "/"
    PROVE  /\ Extended(c) \in Seq(Chars)
           /\ Len(Extended(c)) <= Len(filename) + 1 + Len(c)
           /\ Len(Extended(c)) >= Len(filename)
           /\ Len(Extended(c)) > Len(filename) => c # <<>>
           /\ Extended(c)[1] = "."
           /\ Extended(c)[Len(Extended(c))] # "/"
           /\ \A i \in 1..Len(Extended(c)) - 1 :
                 Extended(c)[i] = "/" => Extended(c)[i + 1] \notin {"/", "."}
<1>1. CASE c = <<>>
    BY <1>1, EmptySeq DEF Extended, Relative
<1>2. CASE c # <<>>
  <2> DEFINE slash == <<"/">>
             start == filename \o slash
  <2>1. Len(c) \in Nat /\ Len(c) >= 1 /\ Len(filename) \in Nat
      BY <1>2, EmptySeq, LenProperties
  <2>2. slash \in Seq(Chars) /\ Len(slash) = 1 /\ slash[1] = "/"
      BY DEF Chars
  <2>3. /\ start \in Seq(Chars)
        /\ Len(start) = Len(filename) + 1
        /\ \A i \in 1..Len(filename) : start[i] = filename[i]
        /\ start[Len(filename) + 1] = "/"
    <3> HIDE DEF slash
    <3>1. /\ filename \o slash \in Seq(Chars)
          /\ Len(filename \o slash) = Len(filename) + Len(slash)
          /\ \A i \in 1..Len(filename) : (filename \o slash)[i] = filename[i]
          /\ \A i \in 1..Len(slash) : (filename \o slash)[Len(filename) + i] = slash[i]
        BY <2>2, Joined
    <3> QED
        BY <2>1, <2>2, <3>1
  <2>4. /\ start \o c \in Seq(Chars)
        /\ Len(start \o c) = Len(filename) + 1 + Len(c)
        /\ \A i \in 1..Len(filename) : (start \o c)[i] = filename[i]
        /\ (start \o c)[Len(filename) + 1] = "/"
        /\ \A i \in 1..Len(c) : (start \o c)[Len(filename) + 1 + i] = c[i]
    <3> HIDE DEF start
    <3>1. /\ start \o c \in Seq(Chars)
          /\ Len(start \o c) = Len(start) + Len(c)
          /\ \A i \in 1..Len(start) : (start \o c)[i] = start[i]
          /\ \A i \in 1..Len(c) : (start \o c)[Len(start) + i] = c[i]
        BY <2>3, Joined
    <3> QED
        BY <2>1, <2>3, <3>1
  <2>5. Extended(c) = start \o c
      BY <1>2 DEF Extended
  <2>6. c[1] # "." /\ c[1] # "/"
      BY <1>2, <2>1 DEF Hidden
  <2> HIDE DEF start
  <2>7. ASSUME NEW i \in 1..Len(start \o c) - 1, (start \o c)[i] = "/"
        PROVE  (start \o c)[i + 1] \notin {"/", "."}
    <3>1. CASE i < Len(filename)
      <4>1. i \in 1..Len(filename) - 1 /\ i \in 1..Len(filename) /\ i + 1 \in 1..Len(filename)
          BY <2>1, <2>4, <3>1
      <4>2. filename[i] = "/"
          BY <2>4, <2>7, <4>1
      <4>3. filename[i + 1] \notin {"/", "."}
          BY <4>1, <4>2 DEF Relative
      <4> QED
          BY <2>4, <4>1, <4>3
    <3>2. CASE i = Len(filename)
        BY <2>1, <2>4, <2>7, <3>2
    <3>3. CASE i = Len(filename) + 1
        BY <2>1, <2>4, <2>6, <3>3
    <3>4. CASE i > Len(filename) + 1
      <4>1. i - (Len(filename) + 1) \in 1..Len(c)
          BY <2>1, <2>4, <3>4
      <4>2. (start \o c)[i] = c[i - (Len(filename) + 1)]
          BY <2>1, <2>4, <4>1
      <4> QED
          BY <2>7, <4>1, <4>2
    <3> QED
        BY <2>1, <3>1, <3>2, <3>3, <3>4
  <2> QED
      BY <1>2, <2>1, <2>4, <2>5, <2>7 DEF Relative
<1> QED
    BY <1>1, <1>2

(* The part of the request between two positions, if no slash is in it.    *)
LEMMA ComponentOf ==
    ASSUME NEW r \in Seq(Chars), NEW from \in Nat, NEW to \in Nat,
           from <= to, to <= Len(r), \A i \in from + 1..to : r[i] # "/"
    PROVE  /\ SubSeq(r, from + 1, to) \in Seq(Chars)
           /\ Len(SubSeq(r, from + 1, to)) = to - from
           /\ \A i \in 1..Len(SubSeq(r, from + 1, to)) : SubSeq(r, from + 1, to)[i] # "/"
           /\ \A i \in 1..to - from : SubSeq(r, from + 1, to)[i] = r[from + i]
<1>1. \A i \in from + 1..to : r[i] \in Chars
    BY ElementOfSeq, LenProperties
<1>2. /\ SubSeq(r, from + 1, to) \in Seq(Chars)
      /\ Len(SubSeq(r, from + 1, to)) = IF from + 1 <= to THEN to - (from + 1) + 1 ELSE 0
      /\ \A i \in 1..to - (from + 1) + 1 : SubSeq(r, from + 1, to)[i] = r[from + 1 + i - 1]
    BY <1>1, SubSeqProperties
<1>3. Len(SubSeq(r, from + 1, to)) = to - from
    BY <1>2
<1>4. \A i \in 1..to - from : SubSeq(r, from + 1, to)[i] = r[from + i]
  <2> TAKE i \in 1..to - from
  <2>1. i \in 1..to - (from + 1) + 1 /\ from + 1 + i - 1 = from + i
      OBVIOUS
  <2> QED
      BY <1>2, <2>1
<1> QED
    BY <1>2, <1>3, <1>4

(* The buffer as it was read.                                              *)
LEMMA InitInv == Init => PathInv
<1> SUFFICES ASSUME Init PROVE PathInv
    OBVIOUS
<1>1. /\ request \in Seq(Chars) /\ Len(request) <= MaxRequest
      /\ <<".">> \in Seq(Chars) /\ Len(<<".">>) = 1
    BY RequestsAssumption DEF Init, Chars
<1> QED
    BY <1>1, MaxAssumption, EmptySeq
    DEF Init, PathInv, TypeOK, BoundInv, Relative, SlashInv

(* Every step keeps the invariant.                                         *)
LEMMA NextInv == PathInv /\ [Next]_vars => PathInv'
<1> SUFFICES ASSUME PathInv, [Next]_vars
             PROVE  PathInv'
    OBVIOUS
<1> USE MaxAssumption DEF PathInv, TypeOK, BoundInv, SlashInv
<1>a. Len(request) \in Nat /\ Len(filename) \in Nat
    BY LenProperties
<1>1. CASE NoCrlf
  <2>1. Len(filename) = 1
      BY <1>1, <1>a DEF NoCrlf
  <2> QED
      BY <1>1, <1>a, <2>1 DEF NoCrlf, Relative
<1>2. ASSUME NEW crlf \in 1..Len(request), Parse(crlf)
      PROVE  PathInv'
  <2>1. crlf <= MaxRequest - 1 /\ crlf <= Len(request) - 1
      BY <1>2, <1>a DEF Parse, Earliest, Crlfs
  <2>2. selectorSize' \in 0..crlf - 1
      BY <1>2, <1>a DEF Parse
  <2>3. query' \in Seq(Chars)
    <3>1. CASE query' = <<>>
        BY <3>1, EmptySeq
    <3>2. ASSUME NEW tab \in 1..crlf - 1, query' = SubSeq(request, tab + 1, crlf - 1)
          PROVE  query' \in Seq(Chars)
      <4>1. \A i \in tab + 1..crlf - 1 : request[i] \in Chars
          BY <1>a, <2>1, ElementOfSeq
      <4> QED
          BY <3>2, <4>1, SubSeqProperties
    <3> QED
        BY <1>2, <3>1, <3>2 DEF Parse
  <2>4. Len(filename) = 1
      BY <1>2 DEF Parse
  <2> QED
      BY <1>2, <1>a, <2>1, <2>2, <2>3, <2>4 DEF Parse, Relative
<1>3. ASSUME NEW slash \in 1..Len(request), CopyUpTo(slash)
      PROVE  PathInv'
  <2> DEFINE c == SubSeq(request, pos + 1, slash - 1)
  <2>1. /\ slash \in pos + 1..selectorSize
        /\ \A i \in pos + 1..slash - 1 : request[i] # "/"
      BY <1>3, <1>a DEF CopyUpTo, Earliest, Slashes
  <2>2. c \in Seq(Chars) /\ Len(c) = slash - 1 - pos /\ \A i \in 1..Len(c) : c[i] # "/"
      BY <1>3, <1>a, <2>1, ComponentOf DEF CopyUpTo
  <2> HIDE DEF c
  <2>3. CASE Hidden(c)
      BY <1>3, <1>a, <2>1, <2>3 DEF CopyUpTo, Relative, c
  <2>4. CASE ~Hidden(c)
    <3>1. filename' = Extended(c) /\ pos' = slash /\ pc' = "copy" /\ pc = "copy"
        BY <1>3, <2>4 DEF CopyUpTo, c
    <3>2. /\ filename' \in Seq(Chars)
          /\ Len(filename') <= Len(filename) + 1 + Len(c)
          /\ Len(filename') >= Len(filename)
          /\ filename'[1] = "."
          /\ filename'[Len(filename')] # "/"
          /\ \A i \in 1..Len(filename') - 1 :
                filename'[i] = "/" => filename'[i + 1] \notin {"/", "."}
        BY <2>2, <2>4, <3>1, ExtendedPath
    <3>3. Len(filename') \in Nat
        BY <3>2, LenProperties
    <3> QED
        BY <1>3, <1>a, <2>1, <2>2, <3>1, <3>2, <3>3, SMTT(30) DEF CopyUpTo, Relative
  <2> QED
      BY <2>3, <2>4
<1>4. CASE CopyLast
  <2> DEFINE c == SubSeq(request, pos + 1, selectorSize)
  <2>1. \A i \in pos + 1..selectorSize : request[i] # "/"
      BY <1>4 DEF CopyLast, Slashes
  <2>2. c \in Seq(Chars) /\ Len(c) = selectorSize - pos /\ \A i \in 1..Len(c) : c[i] # "/"
      BY <1>4, <1>a, <2>1, ComponentOf DEF CopyLast
  <2> HIDE DEF c
  <2>3. CASE Hidden(c)
      BY <1>4, <1>a, <2>3 DEF CopyLast, Relative, c
  <2>4. CASE ~Hidden(c)
    <3>1. filename' = Extended(c) /\ pc' = "open" /\ pc = "copy"
        BY <1>4, <2>4 DEF CopyLast, c
    <3>2. /\ filename' \in Seq(Chars)
          /\ Len(filename') <= Len(filename) + 1 + Len(c)
          /\ Len(filename') >= Len(filename)
          /\ filename'[1] = "."
          /\ filename'[Len(filename')] # "/"
          /\ \A i \in 1..Len(filename') - 1 :
                filename'[i] = "/" => filename'[i + 1] \notin {"/", "."}
        BY <2>2, <2>4, <3>1, ExtendedPath
    <3>3. Len(filename') \in Nat
        BY <3>2, LenProperties
    <3> QED
        BY <1>4, <1>a, <2>2, <3>1, <3>2, <3>3 DEF CopyLast, Relative
  <2> QED
      BY <2>3, <2>4
<1>5. CASE OpenFile \/ OpenFails
    BY <1>5, <1>a DEF OpenFile, OpenFails, Relative
<1>6. CASE OpenDirectory
  <2> DEFINE slash == <<"/">>
  <2>1. slash \in Seq(Chars) /\ Len(slash) = 1 /\ slash[1] = "/"
      BY DEF Chars
  <2> HIDE DEF slash
  <2>2. filename' = filename \o slash
      BY <1>6 DEF OpenDirectory, slash
  <2>3. /\ filename' \in Seq(Chars)
        /\ Len(filename') = Len(filename) + 1
        /\ \A i \in 1..Len(filename) : filename'[i] = filename[i]
        /\ filename'[Len(filename) + 1] = "/"
    <3>1. /\ filename \o slash \in Seq(Chars)
          /\ Len(filename \o slash) = Len(filename) + Len(slash)
          /\ \A i \in 1..Len(filename) : (filename \o slash)[i] = filename[i]
          /\ \A i \in 1..Len(slash) : (filename \o slash)[Len(filename) + i] = slash[i]
        BY <2>1, Joined
    <3> QED
        BY <1>a, <2>1, <2>2, <3>1
  <2>4. Relative'
    <3>1. filename'[1] = "."
        BY <1>a, <2>3 DEF Relative
    <3>2. ASSUME NEW i \in 1..Len(filename') - 1, filename'[i] = "/"
          PROVE  filename'[i + 1] \notin {"/", "."}
      <4>1. i \in 1..Len(filename) /\ filename[i] = "/"
          BY <1>a, <2>3, <3>2
      <4>2. i # Len(filename)
          BY <1>6, <4>1 DEF OpenDirectory
      <4>3. i \in 1..Len(filename) - 1 /\ i + 1 \in 1..Len(filename)
          BY <1>a, <4>1, <4>2
      <4> QED
          BY <2>3, <4>1, <4>3 DEF Relative
    <3> QED
        BY <3>1, <3>2 DEF Relative
  <2> QED
      BY <1>6, <1>a, <2>3, <2>4 DEF OpenDirectory
<1>7. CASE UNCHANGED vars
    BY <1>7 DEF vars, Relative
<1> QED
    BY <1>1, <1>2, <1>3, <1>4, <1>5, <1>6, <1>7 DEF Next

(* The inductive invariant holds throughout.                               *)
THEOREM Invariance == Spec => []PathInv
  BY InitInv, NextInv, PTL DEF Spec

(* Type correctness.                                                       *)
THEOREM TypeCorrect == Spec => []TypeOK
  BY Invariance, PTL DEF PathInv

(* The path, its terminator and the slash of a directory fit the buffer,   *)
(* however long a request may be.                                          *)
THEOREM AlwaysFits == Spec => []FitsBuffer
<1>1. PathInv => FitsBuffer
  <2> SUFFICES ASSUME PathInv PROVE FitsBuffer
      OBVIOUS
  <2>1. Len(filename) \in Nat /\ Len(request) \in Nat
      BY LenProperties DEF PathInv, TypeOK
  <2>2. pc = "parse" => Len(filename) = 1
      BY DEF PathInv, BoundInv
  <2> QED
    <3>1. Len(filename) <= MaxRequest + 1
      <4>1. CASE pc = "parse"
          BY <2>1, <2>2, <4>1, MaxAssumption
      <4>2. CASE pc = "copy"
          BY <2>1, <4>2, MaxAssumption DEF PathInv, TypeOK, BoundInv
      <4>3. CASE pc \notin {"parse", "copy"}
          BY <4>3 DEF PathInv, BoundInv
      <4> QED
          BY <4>1, <4>2, <4>3
    <3> QED
        BY <2>1, <3>1, MaxAssumption DEF FitsBuffer, MaxFilename
<1> QED
    BY Invariance, <1>1, PTL

(* The path never leads up and never names a hidden file.                  *)
THEOREM AlwaysRelative == Spec => []Relative
  BY Invariance, PTL DEF PathInv

(***************************************************************************)
(* The path is the right one.                                              *)
(***************************************************************************)

(* Where the selector may end.                                             *)
Stops == {i \in 1..Len(request) : request[i] = "tab"} \cup Crlfs

(* What is kept of the first n characters of a selector with a slash.      *)
KeptTo(s, n) == Kept(s) \cap 1..n

Rank(s, n) == Cardinality(KeptTo(s, n))

(* The first n characters were taken over to the path.                     *)
Holds(s, n, path) ==
    /\ path[1] = "."
    /\ \A i \in 1..n : i < Len(s) /\ s[i] = "/" => s[i + 1] # "."
    /\ \A i \in KeptTo(s, n) : path[1 + Rank(s, i)] = s[i]

(* What was read of the selector is in the path, and nothing else.         *)
CopyInv ==
    LET s == Slashed(Selector) IN
    /\ pc \notin {"parse", "bad"} => /\ selectorSize + 1 \in 1..Len(request)
                                     /\ Earliest(selectorSize + 1, Stops)
    /\ pc = "copy" => /\ pos <= selectorSize
                      /\ s[pos + 1] = "/"
                      /\ Holds(s, pos, filename)
                      /\ Len(filename) = 1 + Rank(s, pos)
    /\ pc \in {"open", "missing", "file"} => /\ Holds(s, selectorSize + 1, filename)
                                             /\ Len(filename) = 1 + Rank(s, selectorSize + 1)
    /\ pc = "directory" => /\ Holds(s, selectorSize + 1, filename)
                           /\ Len(filename) = 2 + Rank(s, selectorSize + 1)
                           /\ filename[Len(filename)] = "/"
    /\ pc = "forbidden" => \E i \in 1..selectorSize : s[i] = "/" /\ s[i + 1] = "."

(* There is something to make links of.                                    *)
LinkInv ==
    /\ Len(filename) > 1 => filename[2] = "/"
    /\ pc = "file" => CString(filename) # <<".">>

(* What is kept can be counted, and more is kept of more.                  *)
LEMMA RankType ==
    ASSUME NEW s, NEW n \in Nat
    PROVE  /\ IsFiniteSet(KeptTo(s, n))
           /\ Rank(s, n) \in 0..n
           /\ \A m \in 0..n : Rank(s, m) \in Nat /\ Rank(s, m) <= Rank(s, n)
           /\ \A i \in KeptTo(s, n) : Rank(s, i) >= 1
<1>1. ASSUME NEW m \in 0..n
      PROVE  IsFiniteSet(KeptTo(s, m)) /\ Rank(s, m) \in 0..m
  <2>1. IsFiniteSet(1..m) /\ Cardinality(1..m) = m
      BY FS_Interval
  <2>2. KeptTo(s, m) \in SUBSET (1..m)
      BY DEF KeptTo
  <2>3. IsFiniteSet(KeptTo(s, m)) /\ Cardinality(KeptTo(s, m)) <= m
      BY <2>1, <2>2, FS_Subset
  <2> QED
      BY <2>3, FS_CardinalityType DEF Rank
<1>2. ASSUME NEW m \in 0..n
      PROVE  Rank(s, m) <= Rank(s, n)
  <2>1. KeptTo(s, m) \in SUBSET KeptTo(s, n)
      BY DEF KeptTo
  <2> QED
      BY <1>1, <2>1, FS_Subset DEF Rank
<1>3. ASSUME NEW i \in KeptTo(s, n)
      PROVE  Rank(s, i) >= 1
  <2>1. i \in 1..n /\ i \in KeptTo(s, i)
      BY DEF KeptTo
  <2>2. IsFiniteSet(KeptTo(s, i)) /\ Rank(s, i) \in Nat
      BY <1>1, <2>1
  <2>3. Rank(s, i) # 0
      BY <2>1, <2>2, FS_EmptySet DEF Rank
  <2> QED
      BY <2>2, <2>3
<1> QED
    BY <1>1, <1>2, <1>3

(* Of a component that is not empty all is kept, with the slash in front   *)
(* of it; of one that is empty nothing.                                    *)
LEMMA ComponentKept ==
    ASSUME NEW s, Len(s) \in Nat, NEW from \in Nat, NEW to \in Nat,
           from < to, to <= Len(s),
           s[from + 1] = "/", \A i \in from + 2..to : s[i] # "/",
           to = Len(s) \/ s[to + 1] = "/"
    PROVE  /\ from + 1 = to => KeptTo(s, to) = KeptTo(s, from)
           /\ from + 1 < to => KeptTo(s, to) = KeptTo(s, from) \cup (from + 1..to)
           /\ from + 1 < to => \A i \in from + 1..to : Rank(s, i) = Rank(s, from) + (i - from)
<1>1. ASSUME from + 1 = to
      PROVE  KeptTo(s, to) = KeptTo(s, from)
  <2>1. to \notin Kept(s)
      BY <1>1 DEF Kept
  <2>2. \A i \in 1..to : i \in 1..from \/ i = to
      BY <1>1
  <2>3. 1..from \subseteq 1..to
      BY <1>1
  <2> QED
      BY <2>1, <2>2, <2>3 DEF KeptTo
<1>2. ASSUME from + 1 < to, NEW i \in from + 1..to
      PROVE  KeptTo(s, i) = KeptTo(s, from) \cup (from + 1..i)
  <2>1. ASSUME NEW j \in from + 1..i
        PROVE  j \in Kept(s)
    <3>1. j \in 1..Len(s)
        BY <1>2
    <3>2. CASE j = from + 1
      <4>1. j + 1 \in from + 2..to /\ j < Len(s)
          BY <1>2, <3>2
      <4> QED
          BY <3>1, <4>1 DEF Kept
    <3>3. CASE j # from + 1
      <4>1. j \in from + 2..to
          BY <1>2, <3>3
      <4> QED
          BY <3>1, <4>1 DEF Kept
    <3> QED
        BY <3>2, <3>3
  <2>2. \A j \in 1..i : j \in 1..from \/ j \in from + 1..i
      OBVIOUS
  <2>3. 1..from \subseteq 1..i /\ from + 1..i \subseteq 1..i
      BY <1>2
  <2> QED
      BY <2>1, <2>2, <2>3 DEF KeptTo
<1>3. ASSUME from + 1 < to, NEW i \in from + 1..to
      PROVE  Rank(s, i) = Rank(s, from) + (i - from)
  <2>1. IsFiniteSet(KeptTo(s, from)) /\ Rank(s, from) \in Nat
      BY RankType
  <2>2. i \in Int /\ IsFiniteSet(from + 1..i) /\ Cardinality(from + 1..i) = i - from
    <3>1. from + 1 \in Int /\ i \in Int /\ ~(from + 1 > i) /\ i - (from + 1) + 1 = i - from
        OBVIOUS
    <3> QED
        BY <3>1, FS_Interval
  <2>3. KeptTo(s, from) \cap (from + 1..i) = {}
      BY DEF KeptTo
  <2>4. Cardinality(KeptTo(s, from) \cap (from + 1..i)) = 0
      BY <2>3, FS_EmptySet
  <2>5. Cardinality(KeptTo(s, from) \cup (from + 1..i))
          = Cardinality(KeptTo(s, from)) + Cardinality(from + 1..i)
              - Cardinality(KeptTo(s, from) \cap (from + 1..i))
      BY <2>1, <2>2, FS_Union
  <2>6. Cardinality(KeptTo(s, from)) \in Nat
      BY <2>1 DEF Rank
  <2>7. KeptTo(s, i) = KeptTo(s, from) \cup (from + 1..i)
      BY <1>2, <1>3
  <2>8. Cardinality(KeptTo(s, i)) = Cardinality(KeptTo(s, from)) + (i - from)
      BY <2>2, <2>4, <2>5, <2>6, <2>7
  <2> QED
      BY <2>8 DEF Rank
<1> QED
    BY <1>1, <1>2, <1>3

(* Two texts with a slash between them, position by position.              *)
LEMMA SlashBetween ==
    ASSUME NEW p \in Seq(Chars), NEW c \in Seq(Chars)
    PROVE  LET path == p \o <<"/">> \o c
           IN /\ path \in Seq(Chars)
              /\ Len(path) = Len(p) + 1 + Len(c)
              /\ \A i \in 1..Len(p) : path[i] = p[i]
              /\ path[Len(p) + 1] = "/"
              /\ \A i \in 1..Len(c) : path[Len(p) + 1 + i] = c[i]
<1> DEFINE slash == <<"/">>
           start == p \o slash
           path == start \o c
<1>1. Len(c) \in Nat /\ Len(p) \in Nat
    BY LenProperties
<1>2. slash \in Seq(Chars) /\ Len(slash) = 1 /\ slash[1] = "/"
    BY DEF Chars
<1>3. /\ start \in Seq(Chars)
      /\ Len(start) = Len(p) + 1
      /\ \A i \in 1..Len(p) : start[i] = p[i]
      /\ start[Len(p) + 1] = "/"
  <2> HIDE DEF slash
  <2>1. /\ p \o slash \in Seq(Chars)
        /\ Len(p \o slash) = Len(p) + Len(slash)
        /\ \A i \in 1..Len(p) : (p \o slash)[i] = p[i]
        /\ \A i \in 1..Len(slash) : (p \o slash)[Len(p) + i] = slash[i]
      BY <1>2, Joined
  <2> QED
      BY <1>1, <1>2, <2>1
<1> HIDE DEF start
<1>4. /\ start \o c \in Seq(Chars)
      /\ Len(start \o c) = Len(start) + Len(c)
      /\ \A i \in 1..Len(start) : (start \o c)[i] = start[i]
      /\ \A i \in 1..Len(c) : (start \o c)[Len(start) + i] = c[i]
    BY <1>3, Joined
<1>5. /\ path \in Seq(Chars)
      /\ Len(path) = Len(p) + 1 + Len(c)
      /\ \A i \in 1..Len(p) : path[i] = p[i]
      /\ path[Len(p) + 1] = "/"
      /\ \A i \in 1..Len(c) : path[Len(p) + 1 + i] = c[i]
    BY <1>1, <1>3, <1>4
<1> QED
    BY <1>5 DEF start

(* A path that is extended, position by position.                          *)
LEMMA ExtendedChars ==
    ASSUME filename \in Seq(Chars), NEW c \in Seq(Chars), c # <<>>
    PROVE  /\ Len(Extended(c)) = Len(filename) + 1 + Len(c)
           /\ \A i \in 1..Len(filename) : Extended(c)[i] = filename[i]
           /\ Extended(c)[Len(filename) + 1] = "/"
           /\ \A i \in 1..Len(c) : Extended(c)[Len(filename) + 1 + i] = c[i]
  BY SlashBetween DEF Extended

(* One more component is taken over.                                       *)
LEMMA ComponentCopied ==
    ASSUME NEW s, Len(s) \in Nat, NEW from \in Nat, NEW to \in Nat,
           from < to, to <= Len(s),
           s[from + 1] = "/", \A i \in from + 2..to : s[i] # "/",
           to = Len(s) \/ s[to + 1] = "/",
           filename \in Seq(Chars), Len(filename) >= 1,
           Holds(s, from, filename), Len(filename) = 1 + Rank(s, from),
           NEW c \in Seq(Chars), Len(c) = to - (from + 1),
           \A i \in 1..Len(c) : c[i] = s[from + 1 + i],
           ~Hidden(c)
    PROVE  /\ Holds(s, to, Extended(c))
           /\ Len(Extended(c)) = 1 + Rank(s, to)
<1> DEFINE r == Rank(s, from)
           path == Extended(c)
<1>1. r \in Nat /\ Len(filename) = 1 + r
    BY RankType
<1>2. /\ from + 1 = to => KeptTo(s, to) = KeptTo(s, from)
      /\ from + 1 < to => KeptTo(s, to) = KeptTo(s, from) \cup (from + 1..to)
      /\ from + 1 < to => \A i \in from + 1..to : Rank(s, i) = r + (i - from)
    BY ComponentKept, ZenonT(60)
<1>3. c = <<>> <=> from + 1 = to
    BY EmptySeq
<1>4. \A i \in 1..from : i < Len(s) /\ s[i] = "/" => s[i + 1] # "."
    BY DEF Holds
<1>5. \A i \in KeptTo(s, from) : /\ i \in 1..from
                                 /\ Rank(s, i) \in Nat /\ Rank(s, i) <= r
                                 /\ filename[1 + Rank(s, i)] = s[i]
  <2> TAKE i \in KeptTo(s, from)
  <2>1. i \in 1..from /\ i \in 0..from
      BY DEF KeptTo
  <2>2. Rank(s, i) \in Nat /\ Rank(s, i) <= r
      BY <2>1, RankType
  <2>3. filename[1 + Rank(s, i)] = s[i]
      BY DEF Holds
  <2> QED
      BY <2>1, <2>2, <2>3
<1>6. CASE from + 1 = to
  <2>1. path = filename
      BY <1>3, <1>6 DEF Extended
  <2>2. \A i \in 1..to : i < Len(s) /\ s[i] = "/" => s[i + 1] # "."
    <3> TAKE i \in 1..to
    <3>1. CASE i \in 1..from
        BY <1>4, <3>1
    <3>2. CASE i = to
      <4>1. i < Len(s) => s[i + 1] = "/"
          BY <3>2
      <4> QED
          BY <4>1
    <3>3. i \in 1..from \/ i = to
        BY <1>6
    <3> QED
        BY <3>1, <3>2, <3>3
  <2> QED
      BY <1>2, <1>6, <2>1, <2>2 DEF Holds, Rank
<1>7. CASE from + 1 < to
  <2>1. /\ Len(path) = Len(filename) + 1 + Len(c)
        /\ \A i \in 1..Len(filename) : path[i] = filename[i]
        /\ path[Len(filename) + 1] = "/"
        /\ \A i \in 1..Len(c) : path[Len(filename) + 1 + i] = c[i]
    <3>1. c # <<>>
        BY <1>3, <1>7
    <3> QED
        BY <3>1, ExtendedChars, Zenon
  <2> HIDE DEF r, path
  <2>2. Len(path) = 1 + Rank(s, to)
    <3>1. to \in from + 1..to
        BY <1>7
    <3>2. Rank(s, to) = r + (to - from)
        BY <1>2, <1>7, <3>1
    <3> QED
        BY <1>1, <1>7, <2>1, <3>2
  <2>3. path[1] = "."
      BY <1>1, <2>1 DEF Holds
  <2>4. ASSUME NEW i \in 1..to, i < Len(s), s[i] = "/"
        PROVE  s[i + 1] # "."
    <3>1. CASE i \in 1..from
        BY <1>4, <2>4, <3>1
    <3>2. CASE i = from + 1
      <4>1. 1 \in 1..Len(c) /\ c[1] = s[i + 1]
          BY <1>7, <3>2
      <4>2. c[1] # "."
          BY <1>3, <1>7 DEF Hidden
      <4> QED
          BY <4>1, <4>2
    <3>3. CASE i \in from + 2..to
        BY <2>4, <3>3
    <3> QED
        BY <3>1, <3>2, <3>3
  <2>5. ASSUME NEW i \in KeptTo(s, to)
        PROVE  path[1 + Rank(s, i)] = s[i]
    <3>1. CASE i \in KeptTo(s, from)
      <4>1. 1 + Rank(s, i) \in 1..Len(filename)
          BY <1>1, <1>5, <3>1
      <4> QED
          BY <1>5, <2>1, <3>1, <4>1
    <3>2. CASE i = from + 1
      <4>1. i \in from + 1..to
          BY <1>7, <3>2
      <4>2. Rank(s, i) = r + 1
          BY <1>2, <1>7, <3>2, <4>1
      <4>3. 1 + Rank(s, i) = Len(filename) + 1
          BY <1>1, <4>2
      <4> QED
          BY <2>1, <3>2, <4>3
    <3>3. CASE i \in from + 2..to
      <4>1. i \in from + 1..to
          BY <3>3
      <4>2. Rank(s, i) = r + (i - from)
          BY <1>2, <1>7, <4>1
      <4>3. i - (from + 1) \in 1..Len(c)
          BY <1>7, <3>3
      <4>4. /\ 1 + Rank(s, i) = Len(filename) + 1 + (i - (from + 1))
            /\ from + 1 + (i - (from + 1)) = i
          BY <1>1, <3>3, <4>2
      <4>5. path[Len(filename) + 1 + (i - (from + 1))] = c[i - (from + 1)]
          BY <2>1, <4>3
      <4>6. c[i - (from + 1)] = s[from + 1 + (i - (from + 1))]
          BY <4>3
      <4> QED
          BY <4>4, <4>5, <4>6
    <3> QED
      <4>1. i \in KeptTo(s, from) \/ i \in from + 1..to
          BY <1>2, <1>7
      <4>2. i \in from + 1..to => i = from + 1 \/ i \in from + 2..to
          OBVIOUS
      <4> QED
          BY <3>1, <3>2, <3>3, <4>1, <4>2
  <2> QED
      BY <2>2, <2>3, <2>4, <2>5 DEF Holds, path
<1> QED
    BY <1>6, <1>7

(* The least of a set of numbers.                                          *)
LEMMA MinOf ==
    ASSUME NEW S \in SUBSET Int, NEW m \in S, \A i \in S : m <= i
    PROVE  Min(S) = m
<1>1. Min(S) \in S /\ \A i \in S : Min(S) <= i
    BY DEF Min
<1>2. Min(S) \in Int /\ m \in Int /\ Min(S) <= m /\ m <= Min(S)
    BY <1>1
<1> QED
    BY <1>2

(* The selector, once its end was found, with a slash in front.            *)
LEMMA SelectorRead ==
    ASSUME request \in Seq(Chars), NEW size \in Nat,
           size + 1 \in 1..Len(request), Earliest(size + 1, Stops)
    PROVE  /\ Selector = SubSeq(request, 1, size)
           /\ Selector \in Seq(Chars)
           /\ Len(Slashed(Selector)) = size + 1
           /\ Slashed(Selector)[1] = "/"
           /\ \A i \in 1..size : Slashed(Selector)[i + 1] = request[i]
<1>1. Len(request) \in Nat
    BY LenProperties
<1>2. Stops \in SUBSET Int
    BY DEF Stops, Crlfs
<1>3. Min(Stops) = size + 1
    BY <1>2, MinOf DEF Earliest
<1>4. Min(Stops) - 1 = size
    BY <1>3
<1>5. Selector = SubSeq(request, 1, size)
    BY <1>4 DEF Selector, Stops
<1>6. \A i \in 1..size : request[i] \in Chars
    BY <1>1, ElementOfSeq
<1>7. /\ Selector \in Seq(Chars)
      /\ Len(Selector) = size
      /\ \A i \in 1..size : Selector[i] = request[i]
  <2>1. /\ SubSeq(request, 1, size) \in Seq(Chars)
        /\ Len(SubSeq(request, 1, size))
             = IF 1 <= size THEN size - 1 + 1 ELSE 0
        /\ \A i \in 1..size - 1 + 1 :
             SubSeq(request, 1, size)[i] = request[1 + i - 1]
      BY <1>6, SubSeqProperties
  <2> QED
      BY <1>5, <2>1
<1> DEFINE slash == <<"/">>
<1>8. slash \in Seq(Chars) /\ Len(slash) = 1 /\ slash[1] = "/"
    BY DEF Chars
<1> HIDE DEF slash
<1>9. /\ Len(slash \o Selector) = Len(slash) + Len(Selector)
      /\ \A i \in 1..Len(slash) : (slash \o Selector)[i] = slash[i]
      /\ \A i \in 1..Len(Selector) : (slash \o Selector)[Len(slash) + i] = Selector[i]
    BY <1>7, <1>8, Joined
<1>10. Slashed(Selector) = slash \o Selector
    BY DEF Slashed, slash
<1> QED
    BY <1>5, <1>7, <1>8, <1>9, <1>10

(* Nothing was taken over of a selector, at the start.                     *)
LEMMA NothingHeld ==
    ASSUME NEW s, Len(s) \in Nat, s[1] = "/", filename = <<".">>
    PROVE  /\ Holds(s, 0, filename) /\ Len(filename) = 1 + Rank(s, 0)
           /\ Len(s) = 1 => Holds(s, 1, filename) /\ Len(filename) = 1 + Rank(s, 1)
<1>1. filename[1] = "." /\ Len(filename) = 1
    OBVIOUS
<1>2. KeptTo(s, 0) = {}
    BY DEF KeptTo
<1>3. Len(s) = 1 => KeptTo(s, 1) = {}
    BY DEF KeptTo, Kept
<1>4. ASSUME NEW n \in {0, 1}, KeptTo(s, n) = {}, n = 0 \/ Len(s) = 1
      PROVE  Holds(s, n, filename) /\ Len(filename) = 1 + Rank(s, n)
  <2>1. Rank(s, n) = 0
      BY <1>4, FS_EmptySet DEF Rank
  <2>2. \A i \in 1..n : ~(i < Len(s))
      BY <1>4
  <2> QED
      BY <1>1, <1>4, <2>1, <2>2 DEF Holds
<1> QED
    BY <1>2, <1>3, <1>4

(* A slash is put behind the path of a directory.                          *)
LEMMA SlashAdded ==
    ASSUME NEW s, NEW n \in Nat, filename \in Seq(Chars), Len(filename) = 1 + Rank(s, n),
           Holds(s, n, filename)
    PROVE  LET path == filename \o <<"/">>
           IN /\ Holds(s, n, path)
              /\ Len(path) = 2 + Rank(s, n)
              /\ path[Len(path)] = "/"
              /\ \A i \in 1..Len(filename) : path[i] = filename[i]
<1> DEFINE slash == <<"/">>
           path == filename \o slash
<1>1. slash \in Seq(Chars) /\ Len(slash) = 1 /\ slash[1] = "/"
    BY DEF Chars
<1> HIDE DEF slash
<1>2. /\ Len(path) = Len(filename) + 1
      /\ \A i \in 1..Len(filename) : path[i] = filename[i]
      /\ path[Len(filename) + 1] = "/"
  <2>1. /\ Len(filename) \in Nat
        /\ Len(filename \o slash) = Len(filename) + Len(slash)
        /\ \A i \in 1..Len(filename) : (filename \o slash)[i] = filename[i]
        /\ \A i \in 1..Len(slash) : (filename \o slash)[Len(filename) + i] = slash[i]
      BY <1>1, Joined
  <2> QED
      BY <1>1, <2>1
<1>3. Rank(s, n) \in Nat
    BY RankType
<1>4. \A i \in KeptTo(s, n) : 1 + Rank(s, i) \in 1..Len(filename)
  <2> TAKE i \in KeptTo(s, n)
  <2>1. i \in 0..n
      BY DEF KeptTo
  <2>2. Rank(s, i) \in Nat /\ Rank(s, i) <= Rank(s, n)
      BY <2>1, RankType
  <2> QED
      BY <1>3, <2>2
<1> HIDE DEF path
<1>5. Holds(s, n, path)
  <2>1. path[1] = "."
      BY <1>2, <1>3 DEF Holds
  <2>2. \A i \in KeptTo(s, n) : path[1 + Rank(s, i)] = s[i]
      BY <1>2, <1>4 DEF Holds
  <2> QED
      BY <2>1, <2>2 DEF Holds
<1>6. Len(path) = 2 + Rank(s, n) /\ path[Len(path)] = "/"
    BY <1>2, <1>3
<1> QED
    BY <1>2, <1>5, <1>6 DEF path, slash

(* The request stays, and with it the selector.                            *)
LEMMA SameSelector ==
    ASSUME UNCHANGED request
    PROVE  Slashed(Selector)' = Slashed(Selector) /\ Stops' = Stops
<1>1. Crlfs' = Crlfs
    BY DEF Crlfs
<1>2. {i \in 1..Len(request) : request[i] = "tab"}' = {i \in 1..Len(request) : request[i] = "tab"}
    OBVIOUS
<1>3. Selector' = Selector
    BY <1>1, <1>2 DEF Selector
<1> QED
    BY <1>1, <1>2, <1>3 DEF Slashed, Stops

(* At the start there is nothing to hold.                                  *)
LEMMA InitCopy == Init => CopyInv /\ LinkInv
<1> SUFFICES ASSUME Init PROVE CopyInv /\ LinkInv
    OBVIOUS
<1>1. pc = "parse" /\ Len(filename) = 1
    BY DEF Init
<1> QED
    BY <1>1 DEF CopyInv, LinkInv

(* The search for the end of the selector.                                 *)
LEMMA ParseCopy ==
    ASSUME PathInv, CopyInv, LinkInv, NEW crlf \in 1..Len(request), Parse(crlf)
    PROVE  CopyInv' /\ LinkInv'
<1> DEFINE s == Slashed(Selector)
<1>1. /\ Len(request) \in Nat /\ request \in Seq(Chars)
      /\ pos = 0 /\ filename = <<".">>
      /\ pc = "parse" /\ UNCHANGED <<request, pos, filename>>
    BY LenProperties DEF PathInv, TypeOK, BoundInv, Parse
<1>2. crlf \in Crlfs /\ \A i \in Crlfs : i \in 1..Len(request) /\ crlf <= i
    BY <1>1 DEF Parse, Earliest, Crlfs
<1>3. selectorSize' \in Nat /\ selectorSize' + 1 \in 1..Len(request) /\ Earliest(selectorSize' + 1, Stops)
  <2>1. CASE TabsBefore(crlf) = {} /\ selectorSize' = crlf - 1
    <3>1. \A i \in 1..Len(request) : request[i] = "tab" => crlf <= i
        BY <1>1, <2>1 DEF TabsBefore
    <3>2. selectorSize' + 1 = crlf
        BY <2>1
    <3> QED
        BY <1>2, <2>1, <3>1, <3>2 DEF Earliest, Stops
  <2>2. ASSUME NEW tab \in 1..crlf - 1, Earliest(tab, TabsBefore(crlf)), selectorSize' = tab - 1
        PROVE  selectorSize' \in Nat /\ selectorSize' + 1 \in 1..Len(request)
               /\ Earliest(selectorSize' + 1, Stops)
    <3>1. request[tab] = "tab" /\ tab \in 1..Len(request)
        BY <1>1, <2>2 DEF Earliest, TabsBefore
    <3>2. ASSUME NEW i \in 1..Len(request), request[i] = "tab"
          PROVE  tab <= i
      <4>1. i \in 1..crlf - 1 \/ crlf <= i
          OBVIOUS
      <4>2. i \in 1..crlf - 1 => i \in TabsBefore(crlf)
          BY <3>2 DEF TabsBefore
      <4> QED
          BY <2>2, <4>1, <4>2 DEF Earliest
    <3>3. \A i \in Crlfs : tab <= i
        BY <1>2
    <3>4. selectorSize' + 1 = tab /\ selectorSize' \in Nat
        BY <2>2
    <3> QED
        BY <3>1, <3>2, <3>3, <3>4 DEF Earliest, Stops
  <2> QED
      BY <2>1, <2>2 DEF Parse
<1>4. s' = s /\ Stops' = Stops
    BY <1>1, SameSelector
<1>5. Len(s) = selectorSize' + 1 /\ s[1] = "/"
    BY <1>1, <1>3, SelectorRead
<1> HIDE DEF s
<1>6. /\ Holds(s, 0, filename) /\ Len(filename) = 1 + Rank(s, 0)
      /\ Len(s) = 1 => Holds(s, 1, filename) /\ Len(filename) = 1 + Rank(s, 1)
  <2>1. Len(s) = selectorSize' + 1
      BY <1>5
  <2>2. selectorSize' + 1 \in Nat
    <3>1. selectorSize' \in Nat
        BY <1>3
    <3>2. \A n \in Nat : n + 1 \in Nat
        OBVIOUS
    <3> QED
        BY <3>1, <3>2, Zenon
  <2>3. Len(s) \in Nat
      BY <2>1, <2>2, Zenon
  <2> QED
      BY <1>1, <1>5, <2>3, NothingHeld
<1>7. LinkInv'
  <2>1. Len(filename') = 1 /\ pc' # "file"
      BY <1>1 DEF Parse
  <2> QED
      BY <2>1 DEF LinkInv
<1>8. \/ pc' = "copy" /\ selectorSize' > 0
      \/ pc' = "open" /\ selectorSize' = 0
    BY <1>3 DEF Parse
<1>9. CopyInv'
  <2>1. CASE pc' = "copy" /\ selectorSize' > 0
    <3>1. selectorSize' + 1 \in 1..Len(request') /\ Earliest(selectorSize' + 1, Stops')
        BY <1>1, <1>3, <1>4
    <3>2. pos' = 0 /\ pos' <= selectorSize' /\ pos' + 1 = 1
        BY <1>1, <1>3, <2>1
    <3>3. /\ s'[pos' + 1] = "/"
          /\ Holds(s', pos', filename')
          /\ Len(filename') = 1 + Rank(s', pos')
        BY <1>1, <1>4, <1>5, <1>6, <3>2
    <3> QED
        BY <2>1, <3>1, <3>2, <3>3 DEF CopyInv, s
  <2>2. CASE pc' = "open" /\ selectorSize' = 0
    <3>1. Len(s) = 1 /\ selectorSize' + 1 = 1
        BY <1>5, <2>2
    <3>2. selectorSize' + 1 \in 1..Len(request') /\ Earliest(selectorSize' + 1, Stops')
        BY <1>1, <1>3, <1>4
    <3>3. /\ Holds(s', selectorSize' + 1, filename')
          /\ Len(filename') = 1 + Rank(s', selectorSize' + 1)
        BY <1>1, <1>4, <1>6, <3>1
    <3> QED
        BY <2>2, <3>2, <3>3 DEF CopyInv, s
  <2> QED
      BY <1>8, <2>1, <2>2
<1> QED
    BY <1>7, <1>9

(* One turn of the loop: the component between pos and a slash, or the end *)
(* of the selector.                                                        *)
LEMMA ComponentTaken ==
    ASSUME PathInv, CopyInv, LinkInv, pc = "copy",
           NEW to \in Nat, pos < to, to <= selectorSize + 1,
           \A i \in pos + 1..to - 1 : request[i] # "/",
           to = selectorSize + 1 \/ request[to] = "/"
    PROVE  LET s == Slashed(Selector)
               c == SubSeq(request, pos + 1, to - 1)
           IN /\ Hidden(c) => \E i \in 1..selectorSize : s[i] = "/" /\ s[i + 1] = "."
              /\ ~Hidden(c) => /\ Holds(s, to, Extended(c))
                               /\ Len(Extended(c)) = 1 + Rank(s, to)
                               /\ Len(Extended(c)) > 1 => Extended(c)[2] = "/"
<1> DEFINE s == Slashed(Selector)
           c == SubSeq(request, pos + 1, to - 1)
<1>1. /\ request \in Seq(Chars) /\ Len(request) \in Nat
      /\ selectorSize \in Nat /\ pos \in Nat
      /\ filename \in Seq(Chars) /\ Len(filename) \in Nat /\ Len(filename) >= 1
    BY LenProperties DEF PathInv, TypeOK, SlashInv
<1>2. selectorSize + 1 \in 1..Len(request) /\ Earliest(selectorSize + 1, Stops)
    BY DEF CopyInv
<1>3. /\ Len(s) = selectorSize + 1
      /\ s[1] = "/"
      /\ \A i \in 1..selectorSize : s[i + 1] = request[i]
    BY <1>1, <1>2, SelectorRead
<1>4. s[pos + 1] = "/" /\ Holds(s, pos, filename) /\ Len(filename) = 1 + Rank(s, pos)
    BY DEF CopyInv
<1>5. to - 1 \in Nat /\ pos <= to - 1 /\ to - 1 <= Len(request) /\ to - 1 <= selectorSize
    BY <1>1, <1>2
<1>6. /\ c \in Seq(Chars)
      /\ Len(c) = to - 1 - pos
      /\ \A i \in 1..to - 1 - pos : c[i] = request[pos + i]
  <2> DEFINE end == to - 1
  <2>1. end \in Nat /\ pos <= end /\ end <= Len(request) /\ \A i \in pos + 1..end : request[i] # "/"
      BY <1>5
  <2> HIDE DEF end
  <2>2. /\ SubSeq(request, pos + 1, end) \in Seq(Chars)
        /\ Len(SubSeq(request, pos + 1, end)) = end - pos
        /\ \A i \in 1..end - pos : SubSeq(request, pos + 1, end)[i] = request[pos + i]
      BY <1>1, <2>1, ComponentOf
  <2> QED
      BY <2>2 DEF end
<1> HIDE DEF s, c
<1>7. ASSUME Hidden(c)
      PROVE  \E i \in 1..selectorSize : s[i] = "/" /\ s[i + 1] = "."
  <2>1. Len(c) # 0 /\ c[1] = "."
      BY <1>6, <1>7, EmptySeq DEF Hidden
  <2>2. 1 \in 1..to - 1 - pos /\ pos + 1 \in 1..selectorSize
      BY <1>1, <1>5, <1>6, <2>1
  <2>3. c[1] = request[pos + 1] /\ s[pos + 1 + 1] = request[pos + 1]
      BY <1>3, <1>6, <2>2
  <2> QED
      BY <1>4, <2>1, <2>2, <2>3
<1>8. ASSUME ~Hidden(c)
      PROVE  /\ Holds(s, to, Extended(c))
             /\ Len(Extended(c)) = 1 + Rank(s, to)
  <2>1. Len(s) \in Nat /\ to <= Len(s)
      BY <1>1, <1>3
  <2>2. \A i \in pos + 2..to : s[i] # "/"
    <3> TAKE i \in pos + 2..to
    <3>1. i - 1 \in pos + 1..to - 1 /\ i - 1 \in 1..selectorSize /\ (i - 1) + 1 = i
        BY <1>1
    <3> QED
        BY <1>3, <3>1
  <2>3. to = Len(s) \/ s[to + 1] = "/"
    <3>1. CASE to = selectorSize + 1
        BY <1>3, <3>1
    <3>2. CASE to # selectorSize + 1
      <4>1. to \in 1..selectorSize
          BY <1>1, <3>2
      <4> QED
          BY <1>3, <3>2, <4>1
    <3> QED
        BY <3>1, <3>2
  <2>4. Len(c) = to - (pos + 1)
      BY <1>1, <1>6
  <2>5. \A i \in 1..Len(c) : c[i] = s[pos + 1 + i]
    <3> TAKE i \in 1..Len(c)
    <3>1. i \in 1..to - 1 - pos /\ pos + i \in 1..selectorSize /\ (pos + i) + 1 = pos + 1 + i
        BY <1>1, <1>5, <1>6
    <3> QED
        BY <1>3, <1>6, <3>1
  <2> QED
      BY <1>1, <1>4, <1>6, <1>8, <2>1, <2>2, <2>3, <2>4, <2>5, ComponentCopied, ZenonT(60)
<1>9. ASSUME Len(Extended(c)) > 1
      PROVE  Extended(c)[2] = "/"
  <2>1. CASE c = <<>>
      BY <1>9, <2>1 DEF Extended, LinkInv
  <2>2. CASE c # <<>>
    <3>1. /\ \A i \in 1..Len(filename) : Extended(c)[i] = filename[i]
          /\ Extended(c)[Len(filename) + 1] = "/"
        BY <1>1, <1>6, <2>2, ExtendedChars, Zenon
    <3>2. CASE Len(filename) = 1
        BY <3>1, <3>2
    <3>3. CASE Len(filename) # 1
      <4>1. Len(filename) > 1 /\ 2 \in 1..Len(filename)
        <5>1. \A n \in Nat : n >= 1 /\ n # 1 => n > 1 /\ 2 \in 1..n
            OBVIOUS
        <5> QED
            BY <1>1, <3>3, <5>1, Zenon
      <4> QED
          BY <3>1, <4>1 DEF LinkInv
    <3> QED
        BY <3>2, <3>3
  <2> QED
      BY <2>1, <2>2
<1> QED
    BY <1>7, <1>8, <1>9 DEF s, c

(* Every step keeps the path right.                                        *)
LEMMA NextCopy ==
    ASSUME PathInv, CopyInv, LinkInv, [Next]_vars
    PROVE  CopyInv' /\ LinkInv'
<1> DEFINE s == Slashed(Selector)
<1>1. ASSUME UNCHANGED request
      PROVE  s' = s /\ Stops' = Stops
    BY <1>1, SameSelector
<1>2. /\ Len(request) \in Nat /\ Len(filename) \in Nat
      /\ selectorSize \in Nat /\ pos \in Nat /\ filename \in Seq(Chars)
    BY LenProperties DEF PathInv, TypeOK
<1>3. CASE NoCrlf
  <2>1. /\ pc' = "bad" /\ filename' = filename
        /\ Len(filename) > 1 => filename[2] = "/"
      BY <1>3 DEF NoCrlf, LinkInv
  <2> QED
      BY <2>1 DEF CopyInv, LinkInv
<1>4. ASSUME NEW crlf \in 1..Len(request), Parse(crlf)
      PROVE  CopyInv' /\ LinkInv'
    BY <1>4, ParseCopy
<1>5. pc \notin {"parse", "bad"} =>
         selectorSize + 1 \in 1..Len(request) /\ Earliest(selectorSize + 1, Stops)
    BY DEF CopyInv
<1>6. ASSUME NEW slash \in 1..Len(request), CopyUpTo(slash)
      PROVE  CopyInv' /\ LinkInv'
  <2> DEFINE c == SubSeq(request, pos + 1, slash - 1)
  <2>1. /\ pc = "copy" /\ UNCHANGED <<request, selectorSize>>
        /\ slash \in Nat /\ pos < slash /\ slash <= selectorSize
        /\ request[slash] = "/"
        /\ \A i \in pos + 1..slash - 1 : request[i] # "/"
      BY <1>2, <1>6 DEF CopyUpTo, Earliest, Slashes
  <2>2. slash <= selectorSize + 1
      BY <1>2, <2>1
  <2>3. /\ Hidden(c) => \E i \in 1..selectorSize : s[i] = "/" /\ s[i + 1] = "."
        /\ ~Hidden(c) => /\ Holds(s, slash, Extended(c))
                         /\ Len(Extended(c)) = 1 + Rank(s, slash)
                         /\ Len(Extended(c)) > 1 => Extended(c)[2] = "/"
      BY <2>1, <2>2, ComponentTaken
  <2>4. s[slash + 1] = "/"
    <3>1. slash \in 1..selectorSize
        BY <2>1
    <3>2. \A i \in 1..selectorSize : s[i + 1] = request[i]
        BY <1>2, <1>5, <2>1, SelectorRead DEF PathInv, TypeOK
    <3> QED
        BY <2>1, <3>1, <3>2
  <2>5. s' = s /\ Stops' = Stops
      BY <1>1, <2>1
  <2>6. selectorSize' + 1 \in 1..Len(request') /\ Earliest(selectorSize' + 1, Stops')
      BY <1>5, <2>1, <2>5
  <2>7. \/ Hidden(c) /\ pc' = "forbidden" /\ filename' = filename
        \/ ~Hidden(c) /\ pc' = "copy" /\ filename' = Extended(c) /\ pos' = slash
      BY <1>6 DEF CopyUpTo
  <2> HIDE DEF s, c
  <2>8. CASE Hidden(c)
    <3>1. \E i \in 1..selectorSize' : s'[i] = "/" /\ s'[i + 1] = "."
        BY <2>1, <2>3, <2>5, <2>8
    <3>2. pc' = "forbidden" /\ filename' = filename
        BY <2>7, <2>8
    <3> QED
        BY <2>6, <3>1, <3>2 DEF CopyInv, LinkInv, s
  <2>9. CASE ~Hidden(c)
    <3>1. pc' = "copy" /\ filename' = Extended(c) /\ pos' = slash
        BY <2>7, <2>9
    <3>2. /\ pos' <= selectorSize' /\ s'[pos' + 1] = "/"
          /\ Holds(s', pos', filename') /\ Len(filename') = 1 + Rank(s', pos')
          /\ Len(filename') > 1 => filename'[2] = "/"
        BY <2>1, <2>3, <2>4, <2>5, <2>9, <3>1
    <3> QED
        BY <2>6, <3>1, <3>2 DEF CopyInv, LinkInv, s
  <2> QED
      BY <2>8, <2>9
<1>7. CASE CopyLast
  <2> DEFINE c == SubSeq(request, pos + 1, selectorSize)
             end == selectorSize + 1
  <2>1. /\ pc = "copy" /\ UNCHANGED <<request, selectorSize>>
        /\ pos <= selectorSize
        /\ \A i \in pos + 1..selectorSize : request[i] # "/"
      BY <1>7 DEF CopyLast, Slashes, CopyInv
  <2>2. end \in Nat /\ pos < end /\ end <= selectorSize + 1 /\ end - 1 = selectorSize
      BY <1>2, <2>1
  <2>3. /\ Hidden(c) => \E i \in 1..selectorSize : s[i] = "/" /\ s[i + 1] = "."
        /\ ~Hidden(c) => /\ Holds(s, end, Extended(c))
                         /\ Len(Extended(c)) = 1 + Rank(s, end)
                         /\ Len(Extended(c)) > 1 => Extended(c)[2] = "/"
    <3>1. LET d == SubSeq(request, pos + 1, end - 1)
          IN /\ Hidden(d) => \E i \in 1..selectorSize : s[i] = "/" /\ s[i + 1] = "."
             /\ ~Hidden(d) => /\ Holds(s, end, Extended(d))
                              /\ Len(Extended(d)) = 1 + Rank(s, end)
                              /\ Len(Extended(d)) > 1 => Extended(d)[2] = "/"
      <4>1. \A i \in pos + 1..end - 1 : request[i] # "/"
          BY <2>1, <2>2
      <4>2. end = selectorSize + 1
          OBVIOUS
      <4> HIDE DEF end
      <4> QED
          BY <2>1, <2>2, <4>1, <4>2, ComponentTaken
    <3> HIDE DEF end
    <3> QED
        BY <2>2, <3>1
  <2>5. s' = s /\ Stops' = Stops
      BY <1>1, <2>1
  <2>6. selectorSize' + 1 \in 1..Len(request') /\ Earliest(selectorSize' + 1, Stops')
      BY <1>5, <2>1, <2>5
  <2>7. \/ Hidden(c) /\ pc' = "forbidden" /\ filename' = filename
        \/ ~Hidden(c) /\ pc' = "open" /\ filename' = Extended(c)
      BY <1>7 DEF CopyLast
  <2> HIDE DEF s, c
  <2>8. CASE Hidden(c)
    <3>1. \E i \in 1..selectorSize' : s'[i] = "/" /\ s'[i + 1] = "."
        BY <2>1, <2>3, <2>5, <2>8
    <3>2. pc' = "forbidden" /\ filename' = filename
        BY <2>7, <2>8
    <3> QED
        BY <2>6, <3>1, <3>2 DEF CopyInv, LinkInv, s
  <2>9. CASE ~Hidden(c)
    <3>1. pc' = "open" /\ filename' = Extended(c)
        BY <2>7, <2>9
    <3>2. /\ Holds(s', selectorSize' + 1, filename')
          /\ Len(filename') = 1 + Rank(s', selectorSize' + 1)
          /\ Len(filename') > 1 => filename'[2] = "/"
        BY <2>1, <2>3, <2>5, <2>9, <3>1
    <3> QED
        BY <2>6, <3>1, <3>2 DEF CopyInv, LinkInv, s
  <2> QED
      BY <2>8, <2>9
<1>8. CASE OpenFile \/ OpenFails \/ OpenDirectory
  <2> DEFINE n == selectorSize + 1
  <2>1. /\ pc = "open" /\ UNCHANGED <<request, selectorSize, pos>>
        /\ Holds(s, n, filename)
        /\ Len(filename) = 1 + Rank(s, n)
        /\ Len(filename) > 1 => filename[2] = "/"
        /\ n \in Nat
      BY <1>2, <1>8 DEF OpenFile, OpenFails, OpenDirectory, CopyInv, LinkInv
  <2>2. s' = s /\ Stops' = Stops /\ n' = n
      BY <1>1, <2>1
  <2>3. selectorSize' + 1 \in 1..Len(request') /\ Earliest(selectorSize' + 1, Stops')
      BY <1>5, <2>1, <2>2
  <2> HIDE DEF s
  <2>4. CASE OpenFile \/ OpenFails
    <3>1. /\ pc' \in {"file", "missing"} /\ filename' = filename
          /\ pc' = "file" => CString(filename') # <<".">>
        BY <2>4 DEF OpenFile, OpenFails
    <3>2. Holds(s', n', filename') /\ Len(filename') = 1 + Rank(s', n')
        BY <2>1, <2>2, <3>1
    <3> QED
        BY <2>1, <2>3, <3>1, <3>2 DEF CopyInv, LinkInv, s
  <2>5. CASE OpenDirectory
    <3>1. pc' = "directory" /\ filename' = filename \o <<"/">>
        BY <2>5 DEF OpenDirectory
    <3>2. /\ Holds(s, n, filename')
          /\ Len(filename') = 2 + Rank(s, n)
          /\ filename'[Len(filename')] = "/"
          /\ \A i \in 1..Len(filename) : filename'[i] = filename[i]
      <4> HIDE DEF n
      <4> QED
          BY <1>2, <2>1, <3>1, SlashAdded
    <3>3. Holds(s', n', filename') /\ Len(filename') = 2 + Rank(s', n')
        BY <2>2, <3>2
    <3>4. filename'[2] = "/"
      <4>1. Rank(s, n) \in Nat
          BY <2>1, RankType
      <4> HIDE DEF n
      <4>2. CASE Len(filename) = 1
        <5>1. \A r \in Nat : 1 = 1 + r => 2 + r = 2
            OBVIOUS
        <5>2. 1 = 1 + Rank(s, n) /\ Len(filename') = 2 + Rank(s, n)
            BY <2>1, <3>2, <4>2, Zenon
        <5>3. Len(filename') = 2
            BY <4>1, <5>1, <5>2, Zenon
        <5> QED
            BY <3>2, <5>3
      <4>3. CASE Len(filename) # 1
        <5>1. Len(filename) > 1 /\ 2 \in 1..Len(filename)
            BY <1>2, <2>1, <4>1, <4>3
        <5> QED
            BY <2>1, <3>2, <5>1
      <4> QED
          BY <4>2, <4>3
    <3> QED
        BY <2>3, <3>1, <3>2, <3>3, <3>4 DEF CopyInv, LinkInv, s
  <2> QED
      BY <1>8, <2>4, <2>5
<1>9. CASE UNCHANGED vars
  <2>1. /\ UNCHANGED <<pc, request, selectorSize, pos, filename>>
      BY <1>9 DEF vars
  <2>2. Slashed(Selector)' = Slashed(Selector) /\ Stops' = Stops
      BY <2>1, SameSelector
  <2> QED
      BY <2>1, <2>2 DEF CopyInv, LinkInv
<1> QED
    BY <1>3, <1>4, <1>6, <1>7, <1>8, <1>9 DEF Next

(* What holds up to the end of the selector is what PathCorrect asks for.  *)
LEMMA HoldsAll ==
    ASSUME NEW selector, NEW n \in Nat, Len(Slashed(selector)) = n,
           NEW path, Holds(Slashed(selector), n, path)
    PROVE  /\ ~Hides(selector)
           /\ Len(path) = 1 + Rank(Slashed(selector), n) => LeadsTo(selector, path)
<1> DEFINE s == Slashed(selector)
<1>1. Kept(s) \subseteq 1..n
    BY DEF Kept
<1>2. Kept(s) \cap 1..n = Kept(s)
    BY <1>1
<1>3. ~Hides(selector)
  <2>1. \A i \in 1..n - 1 : i \in 1..n /\ i < n
      OBVIOUS
  <2> QED
      BY <2>1 DEF Hides, Holds
<1>4. ASSUME Len(path) = 1 + Rank(s, n)
      PROVE  LeadsTo(selector, path)
    BY <1>2, <1>4 DEF LeadsTo, Holds, KeptTo, Rank
<1> QED
    BY <1>3, <1>4

(* The first characters of a sequence.                                     *)
LEMMA PrefixChars ==
    ASSUME NEW p \in Seq(Chars), NEW n \in Nat, n <= Len(p)
    PROVE  /\ SubSeq(p, 1, n) \in Seq(Chars)
           /\ Len(SubSeq(p, 1, n)) = n
           /\ \A i \in 1..n : SubSeq(p, 1, n)[i] = p[i]
<1>1. \A i \in 1..n : p[i] \in Chars
    BY LenProperties, ElementOfSeq
<1>2. /\ SubSeq(p, 1, n) \in Seq(Chars)
      /\ Len(SubSeq(p, 1, n)) = IF 1 <= n THEN n - 1 + 1 ELSE 0
      /\ \A i \in 1..n - 1 + 1 : SubSeq(p, 1, n)[i] = p[1 + i - 1]
    BY <1>1, SubSeqProperties
<1> QED
    BY <1>2

(* All but the last character of a path.                                   *)
LEMMA FrontChars ==
    ASSUME NEW path \in Seq(Chars), Len(path) >= 1
    PROVE  /\ Front(path) \in Seq(Chars)
           /\ Len(Front(path)) = Len(path) - 1
           /\ \A i \in 1..Len(path) - 1 : Front(path)[i] = path[i]
<1> DEFINE n == Len(path) - 1
<1>1. n \in Nat /\ n <= Len(path)
    BY LenProperties
<1>2. Front(path) = SubSeq(path, 1, n)
    BY DEF Front
<1> HIDE DEF n
<1>3. /\ Front(path) \in Seq(Chars)
      /\ Len(Front(path)) = n
      /\ \A i \in 1..n : Front(path)[i] = path[i]
    BY <1>1, <1>2, PrefixChars
<1> QED
    BY <1>3 DEF n

(* The invariant shows it.                                                 *)
LEMMA ShowsPath == PathInv /\ CopyInv => PathCorrect
<1> SUFFICES ASSUME PathInv, CopyInv PROVE PathCorrect
    OBVIOUS
<1> DEFINE s == Slashed(Selector)
           n == selectorSize + 1
<1>1. /\ request \in Seq(Chars) /\ selectorSize \in Nat /\ n \in Nat
      /\ filename \in Seq(Chars) /\ Len(filename) \in Nat
    BY LenProperties DEF PathInv, TypeOK
<1>2. pc \notin {"parse", "bad"} => Len(s) = n
    BY <1>1, SelectorRead DEF CopyInv
<1>3. CASE pc = "forbidden"
  <2>1. PICK i \in 1..selectorSize : s[i] = "/" /\ s[i + 1] = "."
      BY <1>3 DEF CopyInv
  <2>2. i \in 1..Len(s) - 1
      BY <1>1, <1>2, <1>3
  <2> QED
      BY <1>3, <2>1, <2>2 DEF PathCorrect, Hides
<1>4. CASE pc \in {"open", "missing", "file"}
  <2>1. Holds(s, n, filename) /\ Len(filename) = 1 + Rank(s, n) /\ Len(s) = n
      BY <1>2, <1>4 DEF CopyInv
  <2>2. ~Hides(Selector) /\ LeadsTo(Selector, filename)
    <3> HIDE DEF n
    <3> QED
        BY <1>1, <2>1, HoldsAll
  <2> QED
      BY <1>4, <2>2 DEF PathCorrect
<1>5. CASE pc = "directory"
  <2>1. /\ Holds(s, n, filename) /\ Len(filename) = 2 + Rank(s, n) /\ Len(s) = n
        /\ filename[Len(filename)] = "/"
      BY <1>2, <1>5 DEF CopyInv
  <2> HIDE DEF n, s
  <2>2. /\ Rank(s, n) \in Nat
        /\ \A i \in KeptTo(s, n) : Rank(s, i) \in Nat /\ Rank(s, i) <= Rank(s, n)
    <3>1. \A i \in KeptTo(s, n) : i \in 0..n
        BY DEF KeptTo
    <3> QED
        BY <1>1, <3>1, RankType
  <2>3. /\ Len(Front(filename)) = 1 + Rank(s, n)
        /\ \A i \in 1..1 + Rank(s, n) : Front(filename)[i] = filename[i]
    <3>1. Len(filename) >= 1 /\ Len(filename) - 1 = 1 + Rank(s, n)
        BY <2>1, <2>2
    <3> QED
        BY <1>1, <3>1, FrontChars
  <2>4. Holds(s, n, Front(filename))
    <3>1. 1 \in 1..1 + Rank(s, n) /\ \A i \in KeptTo(s, n) : 1 + Rank(s, i) \in 1..1 + Rank(s, n)
        BY <2>2
    <3> QED
        BY <2>1, <2>3, <3>1 DEF Holds
  <2>5. ~Hides(Selector) /\ LeadsTo(Selector, Front(filename))
      BY <1>1, <2>1, <2>3, <2>4, HoldsAll DEF s
  <2> QED
      BY <1>5, <2>1, <2>5 DEF PathCorrect, Last
<1>6. CASE pc \notin {"forbidden", "open", "missing", "file", "directory"}
    BY <1>6 DEF PathCorrect
<1> QED
    BY <1>3, <1>4, <1>5, <1>6

(***************************************************************************)
(* The links lead back.                                                    *)
(***************************************************************************)

(* The greatest of a set of numbers, if there is one.                      *)
LEMMA MaxOf ==
    ASSUME NEW S \in SUBSET Int, NEW m \in S, \A i \in S : i <= m
    PROVE  Max(S) = m
<1>1. Max(S) \in S /\ \A i \in S : Max(S) >= i
    BY DEF Max
<1>2. Max(S) \in Int /\ m \in Int /\ Max(S) >= m /\ Max(S) <= m
    BY <1>1
<1> QED
    BY <1>2

(* There is one: numbers below a bound are well-ordered downwards.         *)
LEMMA GreatestOf ==
    ASSUME NEW n \in Nat, NEW S \in SUBSET (1..n), S # {}
    PROVE  \E m \in S : \A i \in S : i <= m
<1> DEFINE T == {k \in Nat : n - k \in S}
           R == OpToRel(<, Nat)
<1>1. T \subseteq Nat /\ T # {}
  <2>1. PICK i \in S : TRUE
      OBVIOUS
  <2>2. n - i \in Nat /\ n - (n - i) = i
      BY <2>1
  <2> QED
      BY <2>1, <2>2
<1>2. PICK k \in T : \A j \in T : ~(<<j, k>> \in R)
  <2> HIDE DEF T
  <2> QED
      BY <1>1, WFMin, NatLessThanWellFounded
<1>3. \A j \in T : ~(j < k)
  <2> TAKE j \in T
  <2>1. j \in Nat /\ k \in Nat
      OBVIOUS
  <2>2. j < k => <<j, k>> \in R
      BY <2>1 DEF OpToRel
  <2> QED
      BY <1>2, <2>2
<1>4. n - k \in S
    OBVIOUS
<1>5. ASSUME NEW i \in S
      PROVE  i <= n - k
  <2>1. n - i \in Nat /\ n - (n - i) = i /\ k \in Nat
      OBVIOUS
  <2>2. n - i \in T
      BY <2>1
  <2>3. ~(n - i < k)
      BY <1>3, <2>2
  <2> QED
      BY <2>1, <2>3
<1> QED
    BY <1>4, <1>5

(* What a string holds up to its last slash.                               *)
LEMMA PathnameOf ==
    ASSUME NEW p \in Seq(Chars), NEW m \in 1..Len(p), p[m] = "/",
           \A i \in 1..Len(p) : p[i] = "/" => i <= m
    PROVE  /\ Pathname(p) \in Seq(Chars)
           /\ Len(Pathname(p)) = m - 1
           /\ \A i \in 1..m - 1 : Pathname(p)[i] = p[i]
<1>1. Len(p) \in Nat
    BY LenProperties
<1>2. Max(SlashesIn(p)) = m
  <2>1. SlashesIn(p) \in SUBSET Int /\ m \in SlashesIn(p) /\ \A i \in SlashesIn(p) : i <= m
      BY <1>1 DEF SlashesIn
  <2> QED
      BY <2>1, MaxOf
<1> DEFINE n == m - 1
<1>3. n \in Nat /\ n <= Len(p)
    BY <1>1
<1>4. Pathname(p) = SubSeq(p, 1, n)
    BY <1>2 DEF Pathname
<1> HIDE DEF n
<1>5. /\ Pathname(p) \in Seq(Chars)
      /\ Len(Pathname(p)) = n
      /\ \A i \in 1..n : Pathname(p)[i] = p[i]
    BY <1>3, <1>4, PrefixChars
<1> QED
    BY <1>5 DEF n

(* There is a last slash.                                                  *)
LEMMA LastSlash ==
    ASSUME NEW p \in Seq(Chars), NEW k \in 1..Len(p), p[k] = "/"
    PROVE  \E m \in 1..Len(p) : k <= m /\ p[m] = "/" /\ \A i \in 1..Len(p) : p[i] = "/" => i <= m
<1>1. Len(p) \in Nat /\ SlashesIn(p) \in SUBSET (1..Len(p)) /\ k \in SlashesIn(p)
    BY LenProperties DEF SlashesIn
<1>2. PICK m \in SlashesIn(p) : \A i \in SlashesIn(p) : i <= m
    BY <1>1, GreatestOf
<1> QED
    BY <1>1, <1>2 DEF SlashesIn

(* Without a NUL a string is the whole array.                              *)
LEMMA WholeString ==
    ASSUME NEW p \in Seq(Chars), \A i \in 1..Len(p) : p[i] # "nul"
    PROVE  CString(p) = p
<1>1. Len(p) \in Nat
    BY LenProperties
<1>2. {i \in 1..Len(p) : p[i] = "nul"} \cup {Len(p) + 1} = {Len(p) + 1}
    OBVIOUS
<1>3. Min({Len(p) + 1}) = Len(p) + 1
  <2>1. {Len(p) + 1} \in SUBSET Int /\ Len(p) + 1 \in {Len(p) + 1} /\ \A i \in {Len(p) + 1} : Len(p) + 1 <= i
      BY <1>1
  <2> QED
      BY <2>1, MinOf
<1> DEFINE least == Min({i \in 1..Len(p) : p[i] = "nul"} \cup {Len(p) + 1})
<1>4. least = Len(p) + 1
    BY <1>2, <1>3, Zenon
<1>5. CString(p) = SubSeq(p, 1, least - 1)
    BY DEF CString
<1> HIDE DEF least
<1>6. least - 1 = Len(p)
    BY <1>1, <1>4
<1> QED
    BY <1>5, <1>6, SubSeqFull

(* A selector that starts with a slash, holds no two slashes in a row and  *)
(* hides nothing leads to what it says, but for a slash at its end.        *)
LEMMA PlainLeads ==
    ASSUME NEW sel \in Seq(Chars), NEW path, NEW n \in Nat,
           Len(path) = n + 1, path[1] = ".", \A i \in 1..n : path[i + 1] = sel[i],
           Len(sel) >= 1, Len(sel) = n \/ (Len(sel) = n + 1 /\ sel[n + 1] = "/"),
           sel[1] = "/", n >= 1 => sel[n] # "/",
           \A i \in 1..Len(sel) - 1 : sel[i] = "/" => sel[i + 1] \notin {"/", "."}
    PROVE  ~Hides(sel) /\ LeadsTo(sel, path)
<1> DEFINE s == Slashed(sel)
           slash == <<"/">>
<1>1. Len(sel) \in Nat
    BY LenProperties
<1>2. slash \in Seq(Chars) /\ Len(slash) = 1 /\ slash[1] = "/"
    BY DEF Chars
<1>3. s = slash \o sel
    BY DEF Slashed
<1> HIDE DEF slash
<1>4. /\ Len(slash \o sel) = Len(slash) + Len(sel)
      /\ \A i \in 1..Len(slash) : (slash \o sel)[i] = slash[i]
      /\ \A i \in 1..Len(sel) : (slash \o sel)[Len(slash) + i] = sel[i]
    BY <1>2, Joined
<1> HIDE DEF s
<1>5. /\ Len(s) = Len(sel) + 1
      /\ s[1] = "/"
      /\ \A i \in 1..Len(sel) : s[1 + i] = sel[i]
    BY <1>1, <1>2, <1>3, <1>4
<1>6. ASSUME NEW i \in 2..Len(s)
      PROVE  i - 1 \in 1..Len(sel) /\ s[i] = sel[i - 1]
  <2>1. i - 1 \in 1..Len(sel) /\ 1 + (i - 1) = i
      BY <1>1, <1>5
  <2> QED
      BY <1>5, <2>1
<1>7. s[2] = "/" /\ 2 \in 2..Len(s)
    BY <1>1, <1>5, <1>6
<1>8. ASSUME NEW i \in 2..Len(s) - 1, s[i] = "/"
      PROVE  s[i + 1] \notin {"/", "."}
  <2>1. i - 1 \in 1..Len(sel) - 1 /\ i \in 2..Len(s) /\ i + 1 \in 2..Len(s) /\ (i - 1) + 1 = i
      BY <1>1, <1>5
  <2>2. sel[i - 1] = "/" /\ s[i + 1] = sel[(i + 1) - 1] /\ (i + 1) - 1 = i
      BY <1>6, <1>8, <2>1
  <2> QED
      BY <2>1, <2>2
<1>9. Kept(s) = 2..n + 1
  <2>1. 1 \notin Kept(s)
      BY <1>5, <1>7 DEF Kept
  <2>2. ASSUME NEW i \in 2..n + 1
        PROVE  i \in Kept(s)
    <3>1. i \in 1..Len(s) /\ i \in 2..Len(s) /\ i - 1 \in 1..n
        BY <1>1, <1>5
    <3>2. CASE s[i] # "/"
        BY <3>1, <3>2 DEF Kept
    <3>3. CASE s[i] = "/"
      <4>1. sel[i - 1] = "/"
          BY <1>6, <3>1, <3>3
      <4>2. i - 1 # n
          BY <3>1, <4>1
      <4>3. i < Len(s) /\ i \in 2..Len(s) - 1
          BY <1>1, <1>5, <3>1, <4>2
      <4> QED
          BY <1>8, <3>1, <3>3, <4>3 DEF Kept
    <3> QED
        BY <3>2, <3>3
  <2>3. ASSUME NEW i \in Kept(s), i \notin 2..n + 1, i # 1
        PROVE  FALSE
    <3>1. i \in 1..Len(s) /\ i \in Int
        BY DEF Kept
    <3>2. i = n + 2 /\ Len(s) = n + 2 /\ Len(sel) = n + 1
        BY <1>1, <1>5, <2>3, <3>1
    <3>3. i \in 2..Len(s) /\ i - 1 = n + 1
        BY <3>2
    <3>4. s[i] = "/"
        BY <1>6, <3>2, <3>3
    <3> QED
        BY <3>2, <3>4 DEF Kept
  <2> QED
      BY <2>1, <2>2, <2>3
<1>10. Cardinality(2..n + 1) = n
  <2>1. 2 \in Int /\ n + 1 \in Int
      OBVIOUS
  <2>2. Cardinality(2..n + 1) = IF 2 > n + 1 THEN 0 ELSE (n + 1) - 2 + 1
      BY <2>1, FS_Interval
  <2> QED
      BY <2>2
<1>11. ASSUME NEW i \in 2..n + 1
       PROVE  path[1 + Cardinality((2..n + 1) \cap 1..i)] = s[i]
  <2>1. (2..n + 1) \cap 1..i = 2..i
      OBVIOUS
  <2>2. Cardinality(2..i) = i - 1
    <3>1. 2 \in Int /\ i \in Int
        OBVIOUS
    <3>2. Cardinality(2..i) = IF 2 > i THEN 0 ELSE i - 2 + 1
        BY <3>1, FS_Interval
    <3> QED
        BY <3>2
  <2>3. 1 + (i - 1) = i /\ i - 1 \in 1..n /\ (i - 1) + 1 = i /\ i \in 2..Len(s)
      BY <1>1, <1>5
  <2>4. path[i] = sel[i - 1] /\ s[i] = sel[i - 1]
      BY <1>6, <2>3
  <2> QED
      BY <2>1, <2>2, <2>3, <2>4
<1>12. LeadsTo(sel, path)
  <2>1. Len(path) = 1 + Cardinality(Kept(s))
      BY <1>9, <1>10
  <2>2. \A i \in Kept(s) : path[1 + Cardinality(Kept(s) \cap 1..i)] = s[i]
      BY <1>9, <1>11
  <2> QED
      BY <2>1, <2>2 DEF LeadsTo, s
<1>13. ~Hides(sel)
  <2>1. \A i \in 1..Len(s) - 1 : i = 1 \/ i \in 2..Len(s) - 1
      BY <1>1, <1>5
  <2>2. \A i \in 1..Len(s) - 1 : s[i] = "/" => s[i + 1] # "."
      BY <1>7, <1>8, <2>1
  <2> QED
      BY <2>2 DEF Hides, s
<1> QED
    BY <1>12, <1>13

(* What a request for an executable leaves: a path that holds a slash, and *)
(* the SCRIPT_NAME made of it.                                             *)
LEMMA ScriptOf ==
    ASSUME PathInv, CopyInv, LinkInv, pc \in {"file", "directory"}, "nul" \notin Range(filename)
    PROVE  /\ filename \in Seq(Chars) /\ Len(filename) \in Nat /\ Len(filename) >= 2
           /\ filename[1] = "." /\ filename[2] = "/"
           /\ \A i \in 1..Len(filename) - 1 : filename[i] = "/" => filename[i + 1] \notin {"/", "."}
           /\ ScriptName \in Seq(Chars)
           /\ Len(ScriptName) = Len(filename) - 1
           /\ \A i \in 1..Len(filename) - 1 : ScriptName[i] = filename[i + 1]
<1>1. /\ filename \in Seq(Chars) /\ Len(filename) \in Nat /\ Len(filename) >= 1
      /\ filename[1] = "."
      /\ \A i \in 1..Len(filename) - 1 : filename[i] = "/" => filename[i + 1] \notin {"/", "."}
    BY LenProperties DEF PathInv, TypeOK, SlashInv, Relative
<1>2. \A i \in 1..Len(filename) : filename[i] # "nul"
    BY LenProperties DEF PathInv, TypeOK, Range
<1>3. Len(filename) # 1
  <2>1. CASE pc = "directory"
      BY <1>1, <2>1 DEF CopyInv
  <2>2. CASE pc = "file"
    <3>1. CString(filename) = filename
        BY <1>1, <1>2, WholeString
    <3>2. filename # <<".">>
        BY <2>2, <3>1 DEF LinkInv
    <3>3. <<".">> \in Seq(Chars) /\ Len(<<".">>) = 1 /\ <<".">>[1] = "."
        BY DEF Chars
    <3>4. ASSUME Len(filename) = 1
          PROVE  filename = <<".">>
      <4>1. \A i \in 1..Len(filename) : filename[i] = <<".">>[i]
          BY <1>1, <3>3, <3>4
      <4> QED
          BY <1>1, <3>3, <3>4, <4>1, SeqEqual
    <3> QED
        BY <3>2, <3>4
  <2> QED
      BY <2>1, <2>2
<1>4. Len(filename) >= 2 /\ filename[2] = "/"
  <2>1. \A n \in Nat : n >= 1 /\ n # 1 => n > 1 /\ n >= 2
      OBVIOUS
  <2>2. Len(filename) > 1 /\ Len(filename) >= 2
      BY <1>1, <1>3, <2>1, Zenon
  <2> QED
      BY <2>2 DEF LinkInv
<1>5. filename # <<>>
    BY <1>1, EmptySeq
<1>6. /\ Tail(filename) \in Seq(Chars)
      /\ Len(Tail(filename)) = Len(filename) - 1
      /\ \A i \in 1..Len(Tail(filename)) : Tail(filename)[i] = filename[i + 1]
    BY <1>1, <1>5, HeadTailProperties
<1>7. \A i \in 1..Len(Tail(filename)) : Tail(filename)[i] # "nul"
  <2> TAKE i \in 1..Len(Tail(filename))
  <2>1. i + 1 \in 1..Len(filename)
      BY <1>1, <1>6
  <2> QED
      BY <1>2, <1>6, <2>1
<1>8. ScriptName = Tail(filename)
    BY <1>6, <1>7, WholeString DEF ScriptName
<1> QED
    BY <1>1, <1>4, <1>6, <1>8

(* The directory of a path and that of the SCRIPT_NAME made of it: the one *)
(* is the other with a period in front.                                    *)
LEMMA DirectoryOf ==
    ASSUME NEW path \in Seq(Chars), NEW script \in Seq(Chars),
           Len(path) >= 2, path[2] = "/", Len(script) = Len(path) - 1,
           \A i \in 1..Len(path) - 1 : script[i] = path[i + 1]
    PROVE  \E m \in 2..Len(path) :
              /\ path[m] = "/" /\ \A i \in 1..Len(path) : path[i] = "/" => i <= m
              /\ Pathname(path) \in Seq(Chars) /\ Len(Pathname(path)) = m - 1
              /\ \A i \in 1..m - 1 : Pathname(path)[i] = path[i]
              /\ Pathname(script) \in Seq(Chars) /\ Len(Pathname(script)) = m - 2
              /\ \A i \in 1..m - 2 : Pathname(script)[i] = path[i + 1]
<1>1. Len(path) \in Nat /\ 2 \in 1..Len(path)
    BY LenProperties
<1>2. PICK m \in 1..Len(path) : /\ 2 <= m /\ path[m] = "/"
                                /\ \A i \in 1..Len(path) : path[i] = "/" => i <= m
    BY <1>1, LastSlash
<1>3. /\ Pathname(path) \in Seq(Chars) /\ Len(Pathname(path)) = m - 1
      /\ \A i \in 1..m - 1 : Pathname(path)[i] = path[i]
    BY <1>2, PathnameOf
<1> DEFINE k == m - 1
<1>4. k \in 1..Len(script) /\ script[k] = "/" /\ k \in Nat /\ k + 1 = m
    BY <1>1, <1>2
<1>5. \A i \in 1..Len(script) : script[i] = "/" => i <= k
  <2> TAKE i \in 1..Len(script)
  <2>1. i \in 1..Len(path) - 1 /\ i + 1 \in 1..Len(path)
      BY <1>1
  <2>2. script[i] = "/" => i + 1 <= m
      BY <1>2, <2>1
  <2> QED
      BY <1>1, <2>2
<1> HIDE DEF k
<1>6. /\ Pathname(script) \in Seq(Chars) /\ Len(Pathname(script)) = k - 1
      /\ \A i \in 1..k - 1 : Pathname(script)[i] = script[i]
    BY <1>4, <1>5, PathnameOf
<1>7. m \in Nat /\ k - 1 = m - 2 /\ m <= Len(path)
    BY <1>1, <1>4
<1>8. \A i \in 1..m - 2 : Pathname(script)[i] = path[i + 1]
  <2> TAKE i \in 1..m - 2
  <2>1. i \in 1..k - 1 /\ i \in 1..Len(path) - 1
      BY <1>1, <1>7
  <2> QED
      BY <1>6, <2>1
<1>9. m \in 2..Len(path) /\ Len(Pathname(script)) = m - 2
    BY <1>2, <1>6, <1>7
<1> QED
    BY <1>2, <1>3, <1>6, <1>8, <1>9

(* An entry of the menu leads to that name in the directory of the path.   *)
LEMMA EntryLeads ==
    ASSUME NEW path \in Seq(Chars), NEW base \in Seq(Chars), NEW here \in Seq(Chars),
           NEW m \in 2..Len(path),
           path[1] = ".", path[2] = "/", path[m] = "/",
           \A i \in 1..Len(path) - 1 : path[i] = "/" => path[i + 1] \notin {"/", "."},
           Len(here) = m - 1, \A i \in 1..m - 1 : here[i] = path[i],
           Len(base) = m - 2, \A i \in 1..m - 2 : base[i] = path[i + 1],
           NEW name \in Names
    PROVE  LET sel == base \o <<"/">> \o name
           IN ~Hides(sel) /\ LeadsTo(sel, here \o <<"/">> \o name)
<1> DEFINE sel == base \o <<"/">> \o name
           to == here \o <<"/">> \o name
           k == Len(name)
<1>1. /\ name \in Seq(Chars) /\ k \in Nat \ {0} /\ name[1] # "."
      /\ \A j \in 1..k : name[j] # "/"
  <2>1. name \in Seq(Letters \cup {"."}) /\ name # <<>> /\ name[1] # "."
      BY NamesAssumption
  <2>2. Letters \cup {"."} \subseteq Chars /\ "/" \notin Letters \cup {"."}
      BY LettersAssumption DEF Chars
  <2>3. name \in Seq(Chars)
      BY <2>1, <2>2, SeqMonotonic
  <2>4. k \in Nat \ {0}
      BY <2>1, EmptySeq
  <2>5. \A j \in 1..k : name[j] \in Letters \cup {"."}
      BY <2>1, ElementOfSeq
  <2> QED
      BY <2>1, <2>2, <2>3, <2>4, <2>5
<1>2. m \in Nat /\ m >= 2 /\ m <= Len(path) /\ Len(path) \in Nat
    BY LenProperties
<1>3. /\ sel \in Seq(Chars)
      /\ Len(sel) = Len(base) + 1 + k
      /\ \A i \in 1..Len(base) : sel[i] = base[i]
      /\ sel[Len(base) + 1] = "/"
      /\ \A i \in 1..k : sel[Len(base) + 1 + i] = name[i]
    BY <1>1, SlashBetween, ZenonT(60)
<1>4. /\ Len(to) = Len(here) + 1 + k
      /\ \A i \in 1..Len(here) : to[i] = here[i]
      /\ to[Len(here) + 1] = "/"
      /\ \A i \in 1..k : to[Len(here) + 1 + i] = name[i]
    BY <1>1, SlashBetween, ZenonT(60)
<1> HIDE DEF sel, to, k
<1>5. Len(sel) = m - 1 + k /\ Len(to) = (m - 1 + k) + 1 /\ m - 1 + k \in Nat
    BY <1>1, <1>2, <1>3, <1>4
<1>6. ASSUME NEW i \in 1..m - 1
      PROVE  sel[i] = path[i + 1] /\ to[i + 1] = path[i + 1]
  <2>1. CASE i = m - 1
    <3>1. Len(base) + 1 = i /\ Len(here) + 1 = i + 1 /\ i + 1 = m
        BY <1>2, <2>1
    <3> QED
        BY <1>3, <1>4, <3>1
  <2>2. CASE i # m - 1
    <3>1. i \in 1..Len(base) /\ i \in 1..m - 2 /\ i + 1 \in 1..Len(here) /\ i + 1 \in 1..m - 1
        BY <1>2, <2>2
    <3> QED
        BY <1>3, <1>4, <3>1
  <2> QED
      BY <2>1, <2>2
<1>7. ASSUME NEW j \in 1..k
      PROVE  sel[m - 1 + j] = name[j] /\ to[(m - 1 + j) + 1] = name[j]
  <2>1. Len(base) + 1 + j = m - 1 + j /\ Len(here) + 1 + j = (m - 1 + j) + 1
      BY <1>2
  <2> QED
      BY <1>3, <1>4, <2>1
<1>8. ASSUME NEW i \in 1..m - 1 + k, i \notin 1..m - 1
      PROVE  i - (m - 1) \in 1..k /\ m - 1 + (i - (m - 1)) = i
    BY <1>1, <1>2, <1>8
<1>9. \A i \in 1..m - 1 + k : to[i + 1] = sel[i]
  <2> TAKE i \in 1..m - 1 + k
  <2>1. CASE i \in 1..m - 1
      BY <1>6, <2>1
  <2>2. CASE i \notin 1..m - 1
    <3> DEFINE j == i - (m - 1)
    <3>1. j \in 1..k /\ m - 1 + j = i
        BY <1>8, <2>2
    <3> HIDE DEF j
    <3>2. sel[m - 1 + j] = name[j] /\ to[(m - 1 + j) + 1] = name[j]
        BY <1>7, <3>1
    <3> QED
        BY <3>1, <3>2
  <2> QED
      BY <2>1, <2>2
<1>10. to[1] = "."
  <2>1. 1 \in 1..Len(here) /\ 1 \in 1..m - 1
      BY <1>2
  <2> QED
      BY <1>4, <2>1
<1>11. sel[1] = "/"
  <2>1. 1 \in 1..m - 1 /\ 1 + 1 = 2
      BY <1>2
  <2> QED
      BY <1>6, <2>1
<1>12. sel[m - 1 + k] # "/"
  <2>1. k \in 1..k
      BY <1>1
  <2> QED
      BY <1>1, <1>7, <2>1
<1>13. ASSUME NEW i \in 1..Len(sel) - 1, sel[i] = "/"
       PROVE  sel[i + 1] \notin {"/", "."}
  <2>1. CASE i \in 1..m - 2
    <3>1. /\ i \in 1..m - 1 /\ i + 1 \in 1..m - 1
          /\ i + 1 \in 1..Len(path) - 1
        BY <1>2, <2>1
    <3>2. sel[i] = path[i + 1] /\ sel[i + 1] = path[(i + 1) + 1]
        BY <1>6, <3>1
    <3> QED
        BY <1>13, <3>1, <3>2
  <2>2. CASE i = m - 1
    <3>1. 1 \in 1..k /\ m - 1 + 1 = i + 1
        BY <1>1, <1>2, <2>2
    <3>2. sel[m - 1 + 1] = name[1]
        BY <1>7, <3>1
    <3> QED
        BY <1>1, <3>1, <3>2
  <2>3. CASE i \notin 1..m - 1
    <3>1. i \in 1..m - 1 + k
        BY <1>5
    <3> DEFINE j == i - (m - 1)
    <3>2. j \in 1..k /\ m - 1 + j = i
        BY <1>8, <2>3, <3>1
    <3> HIDE DEF j
    <3>3. sel[m - 1 + j] = name[j]
        BY <1>7, <3>2
    <3> QED
        BY <1>1, <1>13, <3>2, <3>3
  <2>4. i \in 1..m - 2 \/ i = m - 1 \/ i \notin 1..m - 1
      BY <1>2
  <2> QED
      BY <2>1, <2>2, <2>3, <2>4
<1> DEFINE n == m - 1 + k
<1>14. n \in Nat /\ Len(sel) = n /\ Len(to) = n + 1 /\ n >= 1
    BY <1>1, <1>2, <1>5
<1>15. sel[n] # "/" /\ \A i \in 1..n : to[i + 1] = sel[i]
    BY <1>9, <1>12
<1> HIDE DEF n
<1>16. ~Hides(sel) /\ LeadsTo(sel, to)
    BY <1>3, <1>10, <1>11, <1>13, <1>14, <1>15, PlainLeads
<1> QED
    BY <1>16 DEF sel, to

(* The parent link leads to the directory above.                           *)
LEMMA ParentLeads ==
    ASSUME NEW path \in Seq(Chars), NEW m \in 2..Len(path),
           path[1] = ".", path[2] = "/", path[m] = "/",
           \A i \in 1..Len(path) - 1 : path[i] = "/" => path[i + 1] \notin {"/", "."},
           NEW base \in Seq(Chars), NEW up, Len(up) = m - 1, \A i \in 1..m - 1 : up[i] = path[i],
           Len(base) = m - 2, \A i \in 1..m - 2 : base[i] = path[i + 1]
    PROVE  LET sel == base \o <<"/">>
           IN ~Hides(sel) /\ LeadsTo(sel, up)
<1> DEFINE slash == <<"/">>
           sel == base \o slash
           n == m - 2
<1>1. m \in Nat /\ m >= 2 /\ m <= Len(path) /\ Len(path) \in Nat
    BY LenProperties
<1>2. slash \in Seq(Chars) /\ Len(slash) = 1 /\ slash[1] = "/"
    BY DEF Chars
<1> HIDE DEF slash
<1>3. /\ sel \in Seq(Chars)
      /\ Len(sel) = Len(base) + Len(slash)
      /\ \A i \in 1..Len(base) : sel[i] = base[i]
      /\ \A i \in 1..Len(slash) : sel[Len(base) + i] = slash[i]
    BY <1>2, Joined
<1> HIDE DEF sel
<1>4. /\ n \in Nat /\ Len(sel) = n + 1 /\ Len(up) = n + 1
      /\ \A i \in 1..n : sel[i] = path[i + 1]
      /\ sel[n + 1] = "/"
    BY <1>1, <1>2, <1>3
<1>5. /\ n + 2 = m /\ \A i \in 1..n : i + 1 \in 1..m - 1
      /\ 1 \in 1..m - 1
    BY <1>1
<1>6. up[1] = "." /\ \A i \in 1..n : up[i + 1] = sel[i]
    BY <1>4, <1>5
<1>7. \A i \in 1..n + 1 : sel[i] = path[i + 1]
  <2> TAKE i \in 1..n + 1
  <2>1. CASE i = n + 1
    <3>1. i + 1 = m
        BY <1>4, <1>5, <2>1
    <3> QED
        BY <1>4, <2>1, <3>1
  <2>2. CASE i # n + 1
    <3>1. i \in 1..n
        BY <1>4, <2>2
    <3> QED
        BY <1>4, <3>1
  <2> QED
      BY <2>1, <2>2
<1>8. sel[1] = "/"
  <2>1. 1 \in 1..n + 1 /\ 1 + 1 = 2
      BY <1>4
  <2> QED
      BY <1>7, <2>1
<1>9. \A i \in 1..Len(sel) - 1 : sel[i] = "/" => sel[i + 1] \notin {"/", "."}
  <2> TAKE i \in 1..Len(sel) - 1
  <2>1. /\ i \in 1..n + 1 /\ i + 1 \in 1..n + 1
        /\ i + 1 \in 1..Len(path) - 1
      BY <1>1, <1>4, <1>5
  <2>2. sel[i] = path[i + 1] /\ sel[i + 1] = path[(i + 1) + 1]
      BY <1>7, <2>1
  <2> QED
      BY <2>1, <2>2
<1>10. n >= 1 => sel[n] # "/"
  <2>1. n >= 1 => n \in 1..Len(sel) - 1
      BY <1>4
  <2> QED
      BY <1>4, <1>9, <2>1
<1> HIDE DEF n
<1>11. Len(sel) >= 1
    BY <1>4
<1>12. ~Hides(sel) /\ LeadsTo(sel, up)
    BY <1>3, <1>4, <1>6, <1>8, <1>9, <1>10, <1>11, PlainLeads
<1> QED
    BY <1>12 DEF sel, slash

(* A set that holds two numbers holds more than one.                       *)
LEMMA MoreThanOne ==
    ASSUME NEW S, IsFiniteSet(S), NEW a \in S
    PROVE  Cardinality(S) > 1 <=> \E b \in S : b # a
<1>1. Cardinality(S) \in Nat
    BY FS_CardinalityType
<1>2. Cardinality({a}) = 1 /\ IsFiniteSet({a})
    BY FS_Singleton
<1>3. Cardinality({a}) <= Cardinality(S) /\ (Cardinality(S) = Cardinality({a}) => S = {a})
    BY FS_Subset
<1>4. Cardinality(S) = 1 <=> S = {a}
    BY <1>2, <1>3
<1> QED
    BY <1>1, <1>2, <1>3, <1>4

(* The links of a menu lead back.                                          *)
LEMMA ShowsLinks == PathInv /\ CopyInv /\ LinkInv => LinksReopen
<1> SUFFICES ASSUME PathInv, CopyInv, LinkInv,
                    pc \in {"file", "directory"}, "nul" \notin Range(filename)
             PROVE  LET here == Pathname(filename)
                        Reopens(selector, path) == ~Hides(selector) /\ LeadsTo(selector, path)
                    IN /\ \A name \in Names : Reopens(Link(name), here \o <<"/">> \o name)
                       /\ HasParent <=> here # <<".">>
                       /\ HasParent => Reopens(Parent, Pathname(here))
    BY DEF LinksReopen
<1> DEFINE here == Pathname(filename)
           base == Pathname(ScriptName)
<1>1. /\ filename \in Seq(Chars) /\ Len(filename) \in Nat /\ Len(filename) >= 2
      /\ filename[1] = "." /\ filename[2] = "/"
      /\ \A i \in 1..Len(filename) - 1 : filename[i] = "/" => filename[i + 1] \notin {"/", "."}
      /\ ScriptName \in Seq(Chars)
      /\ Len(ScriptName) = Len(filename) - 1
      /\ \A i \in 1..Len(filename) - 1 : ScriptName[i] = filename[i + 1]
    BY ScriptOf
<1>2. PICK m \in 2..Len(filename) :
              /\ filename[m] = "/" /\ \A i \in 1..Len(filename) : filename[i] = "/" => i <= m
              /\ here \in Seq(Chars) /\ Len(here) = m - 1
              /\ \A i \in 1..m - 1 : here[i] = filename[i]
              /\ base \in Seq(Chars) /\ Len(base) = m - 2
              /\ \A i \in 1..m - 2 : base[i] = filename[i + 1]
    BY <1>1, DirectoryOf
<1> HIDE DEF here, base
<1>3. ASSUME NEW name \in Names
      PROVE  ~Hides(Link(name)) /\ LeadsTo(Link(name), here \o <<"/">> \o name)
    BY <1>1, <1>2, EntryLeads DEF Link, base
<1>4. HasParent <=> m > 2
  <2> DEFINE S == SlashesIn(ScriptName)
  <2>1. IsFiniteSet(S)
    <3>1. S \in SUBSET (1..Len(ScriptName)) /\ IsFiniteSet(1..Len(ScriptName))
        BY <1>1, FS_Interval DEF SlashesIn
    <3> QED
        BY <3>1, FS_Subset
  <2>2. 1 \in S
    <3>1. 1 \in 1..Len(filename) - 1 /\ 1 + 1 = 2
        BY <1>1
    <3> QED
        BY <1>1, <3>1 DEF SlashesIn
  <2>3. HasParent <=> \E b \in S : b # 1
      BY <2>1, <2>2, MoreThanOne DEF HasParent
  <2>4. ASSUME m > 2
        PROVE  \E b \in S : b # 1
    <3>1. m - 1 \in 1..Len(filename) - 1 /\ m - 1 # 1 /\ (m - 1) + 1 = m
        BY <1>1, <2>4
    <3>2. m - 1 \in S
        BY <1>1, <1>2, <3>1 DEF SlashesIn
    <3> QED
        BY <3>1, <3>2
  <2>5. ASSUME NEW b \in S, b # 1
        PROVE  m > 2
    <3>1. b \in 1..Len(filename) - 1 /\ b + 1 \in 1..Len(filename) /\ ScriptName[b] = "/"
        BY <1>1 DEF SlashesIn
    <3>2. filename[b + 1] = "/"
        BY <1>1, <3>1
    <3>3. b + 1 <= m
        BY <1>2, <3>1, <3>2
    <3> QED
        BY <2>5, <3>1, <3>3
  <2> QED
      BY <2>3, <2>4, <2>5
<1>5. here = <<".">> <=> m = 2
  <2>1. <<".">> \in Seq(Chars) /\ Len(<<".">>) = 1 /\ <<".">>[1] = "."
      BY DEF Chars
  <2>2. here = <<".">> => m = 2
      BY <1>2, <2>1
  <2>3. ASSUME m = 2
        PROVE  here = <<".">>
    <3>1. Len(here) = 1 /\ 1 \in 1..m - 1
        BY <1>2, <2>3
    <3>2. here[1] = "."
        BY <1>1, <1>2, <3>1
    <3>3. \A i \in 1..Len(here) : here[i] = <<".">>[i]
        BY <2>1, <3>1, <3>2
    <3> QED
        BY <1>2, <2>1, <3>1, <3>3, SeqEqual
  <2> QED
      BY <2>2, <2>3
<1>6. ASSUME m > 2
      PROVE  ~Hides(Parent) /\ LeadsTo(Parent, Pathname(here))
  <2>1. /\ Len(here) >= 2 /\ here[2] = "/" /\ here[1] = "."
        /\ Len(base) = Len(here) - 1
        /\ \A i \in 1..Len(here) - 1 : base[i] = here[i + 1]
    <3>1. Len(here) >= 2 /\ 2 \in 1..m - 1 /\ 1 \in 1..m - 1 /\ Len(base) = Len(here) - 1
        BY <1>2, <1>6
    <3>2. ASSUME NEW i \in 1..Len(here) - 1
          PROVE  base[i] = here[i + 1]
      <4>1. i \in 1..m - 2 /\ i + 1 \in 1..m - 1
          BY <1>2, <3>2
      <4> QED
          BY <1>2, <4>1
    <3> QED
        BY <1>1, <1>2, <3>1, <3>2
  <2>2. PICK k \in 2..Len(here) :
              /\ here[k] = "/"
              /\ Len(Pathname(here)) = k - 1
              /\ \A i \in 1..k - 1 : Pathname(here)[i] = here[i]
              /\ Pathname(base) \in Seq(Chars) /\ Len(Pathname(base)) = k - 2
              /\ \A i \in 1..k - 2 : Pathname(base)[i] = here[i + 1]
      BY <1>2, <2>1, DirectoryOf, ZenonT(60)
  <2>3. \A i \in 1..Len(here) - 1 : here[i] = "/" => here[i + 1] \notin {"/", "."}
    <3> TAKE i \in 1..Len(here) - 1
    <3>1. i \in 1..m - 1 /\ i + 1 \in 1..m - 1 /\ i \in 1..Len(filename) - 1
        BY <1>1, <1>2
    <3> QED
        BY <1>1, <1>2, <3>1
  <2> DEFINE up == Pathname(here)
             lower == Pathname(base)
  <2>4. Parent = lower \o <<"/">>
      BY DEF Parent, base
  <2> HIDE DEF up, lower
  <2>5. /\ Len(up) = k - 1 /\ \A i \in 1..k - 1 : up[i] = here[i]
        /\ lower \in Seq(Chars) /\ Len(lower) = k - 2
        /\ \A i \in 1..k - 2 : lower[i] = here[i + 1]
      BY <2>2 DEF up, lower
  <2>6. ~Hides(lower \o <<"/">>) /\ LeadsTo(lower \o <<"/">>, up)
      BY <1>2, <2>1, <2>2, <2>3, <2>5, ParentLeads
  <2> QED
      BY <2>4, <2>6 DEF up
<1> QED
  <2>1. HasParent <=> here # <<".">>
      BY <1>2, <1>4, <1>5
  <2> QED
      BY <1>3, <1>4, <1>6, <2>1 DEF here

(* What was copied is right, and there is something to make links of.      *)
LEMMA CopyInvariance == Spec => [](PathInv /\ CopyInv /\ LinkInv)
<1>1. Init => PathInv /\ CopyInv /\ LinkInv
    BY InitInv, InitCopy
<1>2. PathInv /\ CopyInv /\ LinkInv /\ [Next]_vars => (PathInv /\ CopyInv /\ LinkInv)'
    BY NextInv, NextCopy
<1> QED
    BY <1>1, <1>2, PTL DEF Spec

(* A request is refused exactly if a component is hidden; otherwise its    *)
(* path is that of the selector, for requests of any length.               *)
THEOREM AlwaysCorrect == Spec => []PathCorrect
  BY CopyInvariance, ShowsPath, PTL

(* The links that gopherlist makes of such a path lead back to where they  *)
(* should, for names of any length.                                        *)
THEOREM AlwaysReopen == Spec => []LinksReopen
  BY CopyInvariance, ShowsLinks, PTL
=============================================================================
