---------------------------- MODULE GopherlistProofs ----------------------------
(***************************************************************************)
(* The lister, for directories of any size: the names stay within their    *)
(* array, what it prints reaches the peer as through a stream, in whole    *)
(* lines in the order of the menu, and no name that readdir has returned   *)
(* and that was promised is missing when the program says it has succeeded.*)
(***************************************************************************)
EXTENDS Gopherlist, SbufferProofs, FiniteSetTheorems

(* A line is a text.                                                       *)
LEMMA TextOfLine ==
    ASSUME NEW line \in Lines
    PROVE  Text(line) \in Seq(Units)
<1>1. Size[line] \in Nat
    BY SizeAssumption
<1>2. Text(line) \in [1..Size[line] -> Units]
    BY UnitsAssumption DEF Text
<1> QED
    BY <1>1, <1>2

(* So is each of the header and of the footer.                             *)
LEMMA PartsOfLines == HeaderLines \in Seq(Lines) /\ FooterLines \in Seq(Lines)
<1>1. \A line \in Lines : <<line>> \in Seq(Lines)
    OBVIOUS
<1>2. \A line \in Lines : If(TRUE, line) \in Seq(Lines) /\ If(FALSE, line) \in Seq(Lines)
    BY <1>1, EmptySeq DEF If
<1>3. \A wanted, line : If(wanted, line) = If(TRUE, line) \/ If(wanted, line) = If(FALSE, line)
    BY DEF If
<1>4. /\ -4 \in Lines /\ -3 \in Lines /\ -2 \in Lines /\ -1 \in Lines
      /\ NumNames + 1 \in Lines /\ NumNames + 2 \in Lines
    BY NamesAssumption DEF Lines
<1>5. <<-4>> \in Seq(Lines) /\ <<-2>> \in Seq(Lines) /\ <<NumNames + 2>> \in Seq(Lines)
    BY <1>1, <1>4
<1>6. /\ If(input.query, -3) \in Seq(Lines)
      /\ If(input.parent, -1) \in Seq(Lines)
      /\ If(input.query, NumNames + 1) \in Seq(Lines)
    BY <1>2, <1>3, <1>4, Zenon
<1>7. \A s, t \in Seq(Lines) : s \o t \in Seq(Lines)
    BY ConcatProperties
<1> QED
    BY <1>5, <1>6, <1>7, Zenon DEF HeaderLines, FooterLines

(* StoredWithin, with the types it needs while names are collected.        *)
CollectInv ==
    /\ filenames \in Seq(Names) \/ pc \notin {"start", "read"}
    /\ next \in Nat \ {0}
    /\ capacity \in Nat \ {0}
    /\ StoredWithin

(* An empty array of at least one place.                                   *)
LEMMA InitCollect == Init => CollectInv
<1>1. <<>> \in Seq(Names) /\ Len(<<>>) = 0
    BY EmptySeq
<1> QED
    BY <1>1, NamesAssumption DEF Init, CollectInv, StoredWithin

(* The array is doubled as soon as it is full.                             *)
LEMMA NextCollect == CollectInv /\ [Next]_vars => CollectInv'
<1> SUFFICES ASSUME CollectInv, [Next]_vars PROVE CollectInv'
    OBVIOUS
<1> USE DEF CollectInv, StoredWithin, Exits
<1>1. CASE Open \/ OpenFails
    BY <1>1 DEF Open, OpenFails
<1>2. ASSUME NEW n \in Names, Collect(n) PROVE CollectInv'
  <2>1. filenames \in Seq(Names) /\ Len(filenames) \in Nat
      BY <1>2, LenProperties DEF Collect
  <2>2. filenames' \in Seq(Names) /\ Len(filenames') = Len(filenames) + 1
      BY <1>2, <2>1, AppendProperties DEF Collect
  <2>3. CASE Full(filenames')
      BY <1>2, <2>1, <2>2, <2>3 DEF Collect, Full
  <2>4. CASE ~Full(filenames')
      BY <1>2, <2>1, <2>2, <2>4 DEF Collect, Full
  <2> QED
      BY <2>3, <2>4
<1>3. ASSUME NEW n \in Names, Skip(n) \/ NoMemory(n) PROVE CollectInv'
    BY <1>3 DEF Skip, NoMemory
<1>4. CASE ReadEnds
    BY <1>4 DEF ReadEnds
<1>5. CASE PrintHeader \/ HeaderEnds
    BY <1>5 DEF PrintHeader, HeaderEnds, Prints, Passes
<1>6. ASSUME NEW n \in Names, StatFails(n) \/ ListFile(n) \/ SkipFile(n) PROVE CollectInv'
    BY <1>6 DEF StatFails, ListFile, SkipFile, Stats
<1>7. CASE CheckFlush \/ ListEnds
    BY <1>7 DEF CheckFlush, ListEnds, Passes
<1>8. CASE PrintFooter \/ FooterEnds \/ Finish
    BY <1>8 DEF PrintFooter, FooterEnds, Finish, Prints, Passes
<1>9. CASE UNCHANGED mainvars
    BY <1>9 DEF mainvars
<1>10. ASSUME NEW n \in Names, Unlink(n) PROVE CollectInv'
    BY <1>10 DEF Unlink
<1> QED
    BY <1>1, <1>2, <1>3, <1>4, <1>5, <1>6, <1>7, <1>8, <1>9, <1>10 DEF Next, vars

(* The names are stored within the array, however many there are.          *)
THEOREM AlwaysStoredWithin == Spec => []StoredWithin
<1>1. CollectInv => StoredWithin
    BY DEF CollectInv
<1> QED
    BY InitCollect, NextCollect, <1>1, PTL DEF Spec

(* What is printed of some lines is a text.                                *)
LEMMA PrintsText ==
    ASSUME CollectInv, NEW lines \in Seq(Lines), Prints(lines)
    PROVE  \E text \in Seq(Units) : Push(text)
<1>1. Len(lines) \in Nat
    BY LenProperties
<1>2. next \in 1..Len(lines)
    BY <1>1 DEF Prints, CollectInv
<1>3. lines[next] \in Lines
    BY <1>2, ElementOfSeq
<1>4. Push(Text(lines[next]))
    BY DEF Prints
<1> QED
    BY <1>3, <1>4, TextOfLine

(* The lister uses its buffer in steps that sbuffer.c has.                 *)
LEMMA UsesBuffer == CollectInv /\ [Next]_vars => [SbNext]_sbvars
<1> SUFFICES ASSUME CollectInv, Next PROVE [SbNext]_sbvars
    BY DEF vars
<1>1. CASE PrintHeader
    BY <1>1, PrintsText, PartsOfLines DEF PrintHeader, SbNext
<1>2. CASE PrintFooter
    BY <1>2, PrintsText, PartsOfLines DEF PrintFooter, SbNext
<1>3. ASSUME NEW n \in Names, ListFile(n) PROVE [SbNext]_sbvars
  <2>1. n \in Lines
      BY NamesAssumption DEF Names, Lines
  <2> QED
      BY <1>3, <2>1, TextOfLine DEF ListFile, SbNext
<1>4. CASE CheckFlush \/ FooterEnds \/ FlushNext
    BY <1>4 DEF CheckFlush, FooterEnds, SbNext
<1>5. CASE UNCHANGED sbvars
    BY <1>5
<1> QED
    BY <1>1, <1>2, <1>3, <1>4, <1>5
    DEF Next, Open, OpenFails, Skip, Collect, NoMemory, ReadEnds, HeaderEnds, StatFails,
        SkipFile, ListEnds, Finish, Unlink

(* What the peer receives is what was printed, in order, once.             *)
THEOREM PrintsThroughStream == Spec => ImplementsStream
<1>1. Init => SbInit
    BY DEF Init
<1>2. Spec => SbSpec
    BY <1>1, InitCollect, NextCollect, UsesBuffer, PTL DEF Spec, SbSpec
<1> QED
    BY <1>2, Refinement

(***************************************************************************)
(* What is printed: whole lines, in order, all of the menu.                *)
(***************************************************************************)

(* Lines in order, with every line of the menu between low and high.       *)
Section(lines, low, high) ==
    /\ lines \in Seq(Lines)
    /\ \A i \in 1..Len(lines) : low <= lines[i] /\ lines[i] <= high
    /\ \A i, j \in 1..Len(lines) : i < j => lines[i] < lines[j]
    /\ \A line \in MenuLines :
         low <= line /\ line <= high => \E i \in 1..Len(lines) : lines[i] = line

(* The last line that was come to.                                         *)
Reached(lines, low) == IF next = 1 THEN low - 1 ELSE lines[next - 1]

Upto ==
    CASE pc \in {"start", "read"} -> -5
      [] pc = "header" -> Reached(HeaderLines, -4)
      [] pc = "list" -> Reached(filenames, 1)
      [] pc = "check" -> filenames[next]
      [] pc = "footer" -> Reached(FooterLines, NumNames + 1)
      [] OTHER -> NumNames + 2

(* A text consists of whole lines, in order, none of which is behind high. *)
Whole(text) ==
    /\ text # <<>> => text[1][2] = 1
    /\ \A i \in 1..Len(text) - 1 :
         \/ text[i + 1] = <<text[i][1], text[i][2] + 1>>
         \/ /\ text[i][2] = Size[text[i][1]]
            /\ text[i + 1][1] > text[i][1]
            /\ text[i + 1][2] = 1

Orderly(text, high) ==
    /\ Whole(text)
    /\ text # <<>> => text[Len(text)][2] = Size[text[Len(text)][1]]
    /\ \A i \in 1..Len(text) : text[i][1] \in MenuLines /\ text[i][1] <= high
    /\ \A i, j \in 1..Len(text) : i < j => text[i][1] <= text[j][1]

Has(text, line) == \E i \in 1..Len(text) : text[i] = <<line, Size[line]>>

(* No line of the menu is missing before one that is there, nor up to the  *)
(* last that was come to.                                                  *)
Gapless(text) ==
    \A line \in MenuLines :
        \/ \E i \in 1..Len(text) : text[i][1] > line
        \/ code # "failure" /\ line <= Upto
        => Has(text, line)

(* A name readdir has returned that is neither hidden nor unmatched.       *)
Found(n) == n \notin unread /\ Collected(n)

(* While names are collected: each is once in the array.                   *)
NamesInv ==
    /\ filenames \in Seq(Names)
    /\ \A i, j \in 1..Len(filenames) : filenames[i] = filenames[j] => i = j
    /\ \A n \in Names : Found(n) <=> \E i \in 1..Len(filenames) : filenames[i] = n

(* Where the program is.                                                   *)
PlaceInv ==
    /\ pc \in {"start", "read", "header", "list", "check", "footer", "final", "exit"}
    /\ next \in Nat \ {0}
    /\ unread \subseteq Names
    /\ pc \in {"start", "read"} => NamesInv /\ next = 1
    /\ pc \in {"header", "list", "check"} =>
         /\ Section(filenames, 1, NumNames)
         /\ \A i \in 1..Len(filenames) : Found(filenames[i])
    /\ pc = "header" => next <= Len(HeaderLines) + 1
    /\ pc = "list" => next <= Len(filenames) + 1
    /\ pc = "check" => next <= Len(filenames)
    /\ pc = "footer" => next <= Len(FooterLines) + 1
    /\ pc \notin {"list", "final"} => io = "idle"
    /\ code # "none" <=> pc = "exit"
    /\ code \in {"none", "success", "failure"}
    /\ ~failed /\ io = "idle" /\ (pc = "final" \/ code = "success") => Unwritten = 0

(* How full the buffer may be when a line is printed.                      *)
Room(line, first) == IF line >= first THEN Size[first] ELSE 0

HeaderRoom(line) == Room(line, -4) + Room(line, -3) + Room(line, -2) + Room(line, -1)

FooterRoom(line) == Room(line, NumNames + 1) + Room(line, NumNames + 2)

RoomInv ==
    ~failed /\ io = "idle" =>
      /\ pc \in {"start", "read", "header"} => pos <= HeaderRoom(Upto)
      /\ pc \in {"list", "footer"} =>
           \/ pos <= HeaderRoom(-1) + FooterRoom(Upto)
           \/ pos <= Length - Leftover + FooterRoom(Upto)

MenuInv ==
    /\ SbInv
    /\ PlaceInv
    /\ Orderly(accepted, Upto)
    /\ ~failed => Gapless(accepted) /\ RoomInv


(* What the header and the footer consist of.                              *)
LEMMA HeaderParts ==
    LET L == HeaderLines IN
    \/ input.query /\ input.parent
       /\ Len(L) = 4 /\ L[1] = -4 /\ L[2] = -3 /\ L[3] = -2 /\ L[4] = -1
    \/ input.query /\ ~input.parent
       /\ Len(L) = 3 /\ L[1] = -4 /\ L[2] = -3 /\ L[3] = -2
    \/ ~input.query /\ input.parent
       /\ Len(L) = 3 /\ L[1] = -4 /\ L[2] = -2 /\ L[3] = -1
    \/ ~input.query /\ ~input.parent
       /\ Len(L) = 2 /\ L[1] = -4 /\ L[2] = -2
<1>1. CASE input.query /\ input.parent
    BY <1>1 DEF HeaderLines, If
<1>2. CASE input.query /\ ~input.parent
    BY <1>2 DEF HeaderLines, If
<1>3. CASE ~input.query /\ input.parent
    BY <1>3 DEF HeaderLines, If
<1>4. CASE ~input.query /\ ~input.parent
    BY <1>4 DEF HeaderLines, If
<1> QED
    BY <1>1, <1>2, <1>3, <1>4

(* The footer is the line behind the menu and, of a query, one before it.  *)
LEMMA FooterParts ==
    LET L == FooterLines IN
    \/ input.query /\ Len(L) = 2 /\ L[1] = NumNames + 1 /\ L[2] = NumNames + 2
    \/ ~input.query /\ Len(L) = 1 /\ L[1] = NumNames + 2
<1>1. CASE input.query
    BY <1>1 DEF FooterLines, If
<1>2. CASE ~input.query
    BY <1>2 DEF FooterLines, If
<1> QED
    BY <1>1, <1>2

(* Which of these lines are part of the menu.                              *)
LEMMA MenuParts ==
    /\ \A line \in MenuLines : line \in Lines /\ line \in Int /\ -4 <= line /\ line <= NumNames + 2
    /\ -4 \in MenuLines /\ -2 \in MenuLines /\ NumNames + 2 \in MenuLines
    /\ -3 \in MenuLines <=> input.query
    /\ -1 \in MenuLines <=> input.parent
    /\ NumNames + 1 \in MenuLines <=> input.query
    /\ 0 \notin MenuLines
    /\ \A n \in Names : n \in MenuLines <=> Found(n) /\ input.dir[n] # "other"
  BY NamesAssumption DEF MenuLines, Lines, Names, Found

(* The lines of the header and of the footer are sections of the menu.     *)
LEMMA HeaderSection ==
    /\ Section(HeaderLines, -4, -1)
    /\ \A i \in 1..Len(HeaderLines) : HeaderLines[i] \in MenuLines
<1>1. HeaderLines \in Seq(Lines)
    BY PartsOfLines
<1> DEFINE L == HeaderLines
<1>2. CASE /\ input.query /\ input.parent
           /\ Len(L) = 4 /\ L[1] = -4 /\ L[2] = -3 /\ L[3] = -2 /\ L[4] = -1
    BY <1>1, <1>2, MenuParts DEF Section
<1>3. CASE /\ input.query /\ ~input.parent
           /\ Len(L) = 3 /\ L[1] = -4 /\ L[2] = -3 /\ L[3] = -2
    BY <1>1, <1>3, MenuParts DEF Section
<1>4. CASE /\ ~input.query /\ input.parent
           /\ Len(L) = 3 /\ L[1] = -4 /\ L[2] = -2 /\ L[3] = -1
    BY <1>1, <1>4, MenuParts DEF Section
<1>5. CASE /\ ~input.query /\ ~input.parent
           /\ Len(L) = 2 /\ L[1] = -4 /\ L[2] = -2
    BY <1>1, <1>5, MenuParts DEF Section
<1> QED
    BY <1>2, <1>3, <1>4, <1>5, HeaderParts

(* The footer follows the last name.                                       *)
LEMMA FooterSection ==
    /\ Section(FooterLines, NumNames + 1, NumNames + 2)
    /\ \A i \in 1..Len(FooterLines) : FooterLines[i] \in MenuLines
<1>1. FooterLines \in Seq(Lines) /\ NumNames \in Nat
    BY PartsOfLines, NamesAssumption
<1>2. \A line \in MenuLines : line \in Int /\ line <= NumNames + 2
    BY MenuParts
<1>3. NumNames + 2 \in MenuLines /\ (NumNames + 1 \in MenuLines <=> input.query)
    BY MenuParts
<1>4. ASSUME NEW line \in MenuLines, NumNames + 1 <= line
      PROVE  line = NumNames + 1 \/ line = NumNames + 2
    BY <1>1, <1>2, <1>4
<1>5. CASE Len(FooterLines) = 2 /\ input.query
           /\ FooterLines[1] = NumNames + 1 /\ FooterLines[2] = NumNames + 2
    BY <1>1, <1>3, <1>4, <1>5 DEF Section
<1>6. CASE Len(FooterLines) = 1 /\ ~input.query /\ FooterLines[1] = NumNames + 2
    BY <1>1, <1>3, <1>4, <1>6 DEF Section
<1> QED
    BY <1>5, <1>6, FooterParts

(* A finite set of numbers can be listed in order: by rank.                *)
LEMMA CanBeSorted ==
    ASSUME NEW T \in SUBSET Int, IsFiniteSet(T)
    PROVE  \E list \in [1..Cardinality(T) -> T] :
               \A i, j \in 1..Cardinality(T) : i < j => list[i] < list[j]
<1> DEFINE n == Cardinality(T)
           UpTo(t) == {u \in T : u <= t}
           rank == [t \in T |-> Cardinality(UpTo(t))]
<1>1. n \in Nat
    BY FS_CardinalityType
<1>2. \A t \in T : IsFiniteSet(UpTo(t)) /\ Cardinality(UpTo(t)) \in 1..n
  <2> TAKE t \in T
  <2>1. UpTo(t) \in SUBSET T
      OBVIOUS
  <2>2. IsFiniteSet(UpTo(t)) /\ Cardinality(UpTo(t)) <= n
      BY <2>1, FS_Subset
  <2>3. Cardinality(UpTo(t)) \in Nat
      BY <2>2, FS_CardinalityType
  <2>4. t \in UpTo(t)
      OBVIOUS
  <2>5. Cardinality(UpTo(t)) # 0
      BY <2>2, <2>4, FS_EmptySet
  <2> QED
      BY <1>1, <2>2, <2>3, <2>5
<1>3. \A s, t \in T : s < t => rank[s] < rank[t]
  <2> SUFFICES ASSUME NEW s \in T, NEW t \in T, s < t
               PROVE  Cardinality(UpTo(s)) < Cardinality(UpTo(t))
      OBVIOUS
  <2>1. UpTo(s) \in SUBSET UpTo(t)
    <3>1. \A u \in T : u \in Int
        OBVIOUS
    <3>2. \A u \in T : u <= s => u <= t
        BY <3>1
    <3> QED
        BY <3>2
  <2>2. t \in UpTo(t) /\ t \notin UpTo(s)
      OBVIOUS
  <2>3. /\ Cardinality(UpTo(s)) <= Cardinality(UpTo(t))
        /\ Cardinality(UpTo(t)) = Cardinality(UpTo(s)) => UpTo(t) = UpTo(s)
      BY <1>2, <2>1, FS_Subset
  <2>4. Cardinality(UpTo(s)) # Cardinality(UpTo(t))
      BY <2>2, <2>3
  <2> QED
      BY <1>1, <1>2, <2>3, <2>4
<1>4. rank \in [T -> 1..n]
    BY <1>2
<1> HIDE DEF rank, UpTo, n
<1>5. rank \in Injection(T, 1..n)
  <2>1. \A s, t \in T : rank[s] = rank[t] => s = t
    <3> TAKE s, t \in T
    <3>1. rank[s] \in 1..n /\ rank[t] \in 1..n
        BY <1>4
    <3> QED
        BY <1>1, <1>3, <3>1
  <2> QED
      BY <1>4, <2>1 DEF Injection, IsInjective
<1>6. rank \in Surjection(T, 1..n)
  <2>1. IsFiniteSet(1..n) /\ Cardinality(1..n) = n
      BY <1>1, FS_Interval, SMTT(30)
  <2>2. Cardinality(T) = Cardinality(1..n)
      BY <2>1 DEF n
  <2> QED
      BY <1>5, <2>1, <2>2, FS_Injection
<1> DEFINE list == [i \in 1..n |-> CHOOSE t \in T : rank[t] = i]
<1>7. \A i \in 1..n : list[i] \in T /\ rank[list[i]] = i
  <2> TAKE i \in 1..n
  <2>1. \E t \in T : rank[t] = i
      BY <1>6 DEF Surjection
  <2> QED
      BY <2>1
<1>8. list \in [1..n -> T]
    BY <1>7
<1>9. ASSUME NEW i \in 1..n, NEW j \in 1..n, i < j
      PROVE  list[i] < list[j]
  <2>1. /\ list[i] \in T /\ rank[list[i]] = i
        /\ list[j] \in T /\ rank[list[j]] = j
      BY <1>7
  <2> HIDE DEF list
  <2>2. list[i] \in Int /\ list[j] \in Int
      BY <2>1
  <2>3. list[i] # list[j]
      BY <1>1, <1>9, <2>1
  <2>4. ~(list[j] < list[i])
    <3>1. list[j] < list[i] => rank[list[j]] < rank[list[i]]
        BY <1>3, <2>1
    <3> QED
        BY <1>1, <1>9, <2>1, <3>1
  <2> QED
      BY <2>2, <2>3, <2>4
<1> HIDE DEF list
<1> QED
    BY <1>8, <1>9 DEF n

(* qsort puts the names that were collected in order, and loses none.      *)
LEMMA SortedNames ==
    ASSUME NamesInv
    PROVE  /\ Section(Sorted, 1, NumNames)
           /\ \A i \in 1..Len(Sorted) : Found(Sorted[i])
<1> DEFINE n == Len(filenames)
           T == Range(filenames)
<1>1. n \in Nat /\ filenames \in [1..n -> Names] /\ DOMAIN filenames = 1..n
    BY LenProperties DEF NamesInv
<1>2. T = {filenames[i] : i \in 1..n}
    BY <1>1 DEF Range
<1>3. T \in SUBSET Names
    BY <1>1, <1>2
<1>4. IsFiniteSet(T) /\ Cardinality(T) = n
  <2>1. filenames \in Bijection(1..n, T)
    <3>1. filenames \in [1..n -> T]
        BY <1>1, <1>2
    <3>2. IsInjective(filenames)
        BY <1>1 DEF NamesInv, IsInjective
    <3>3. \A t \in T : \E i \in 1..n : filenames[i] = t
        BY <1>2
    <3> QED
        BY <3>1, <3>2, <3>3 DEF Bijection, Injection, Surjection
  <2>2. ExistsBijection(1..n, T)
      BY <2>1 DEF ExistsBijection
  <2>3. IsFiniteSet(1..n) /\ Cardinality(1..n) = n
      BY <1>1, FS_Interval, SMTT(30)
  <2> QED
      BY <2>2, <2>3, FS_Bijection
<1> HIDE DEF n, T
<1>5. T \in SUBSET Int
    BY <1>3, NamesAssumption DEF Names
<1>6. \E list \in [1..n -> T] : \A i, j \in 1..n : i < j => list[i] < list[j]
    BY <1>4, <1>5, CanBeSorted
<1>7. /\ Sorted \in [1..n -> T]
      /\ \A i, j \in 1..n : i < j => Sorted[i] < Sorted[j]
    BY <1>6 DEF Sorted, n, T
<1> HIDE DEF Sorted
<1>8. Sorted \in Injection(1..n, T)
  <2>1. ASSUME NEW i \in 1..n, NEW j \in 1..n, Sorted[i] = Sorted[j]
        PROVE  i = j
    <3>1. Sorted[i] \in Int /\ Sorted[j] \in Int
        BY <1>5, <1>7
    <3> QED
        BY <1>1, <1>7, <2>1, <3>1
  <2> QED
      BY <1>7, <2>1 DEF Injection, IsInjective
<1>9. Sorted \in Surjection(1..n, T)
  <2>1. IsFiniteSet(1..n) /\ Cardinality(1..n) = n
      BY <1>1, FS_Interval, SMTT(30)
  <2> QED
      BY <1>4, <1>8, <2>1, FS_Injection
<1>10. Sorted \in Seq(Lines) /\ Len(Sorted) = n
  <2>1. Sorted \in [1..n -> Lines]
    <3>1. Names \subseteq Lines
        BY NamesAssumption DEF Names, Lines
    <3> QED
        BY <1>3, <1>7, <3>1
  <2> QED
      BY <1>1, <2>1
<1>11. \A i \in 1..n : 1 <= Sorted[i] /\ Sorted[i] <= NumNames
  <2> TAKE i \in 1..n
  <2>1. Sorted[i] \in Names
      BY <1>3, <1>7
  <2> QED
      BY <2>1, NamesAssumption DEF Names
<1>12. ASSUME NEW line \in MenuLines, 1 <= line, line <= NumNames
       PROVE  \E i \in 1..n : Sorted[i] = line
  <2>1. line \in Names /\ Found(line)
      BY <1>12, MenuParts, NamesAssumption DEF Names
  <2>2. line \in T
      BY <1>2, <2>1 DEF NamesInv, n
  <2> QED
      BY <1>9, <2>2 DEF Surjection
<1>13. ASSUME NEW i \in 1..n
       PROVE  Found(Sorted[i])
  <2>1. Sorted[i] \in T /\ Sorted[i] \in Names
      BY <1>3, <1>7
  <2>2. \E j \in 1..n : filenames[j] = Sorted[i]
      BY <1>2, <2>1
  <2> QED
      BY <2>1, <2>2 DEF NamesInv, n
<1> QED
    BY <1>7, <1>10, <1>11, <1>12, <1>13 DEF Section

(* A line as a sequence of its characters.                                 *)
LEMMA CharactersOfLine ==
    ASSUME NEW line \in MenuLines
    PROVE  /\ Text(line) \in Seq(Units)
           /\ Size[line] \in Nat \ {0}
           /\ Len(Text(line)) = Size[line]
           /\ \A i \in 1..Size[line] : Text(line)[i] = <<line, i>>
<1>1. line \in Lines
    BY MenuParts
<1>2. Text(line) \in Seq(Units)
    BY <1>1, TextOfLine
<1>3. Size[line] \in Nat \ {0}
    BY <1>1, SizeAssumption
<1> QED
    BY <1>2, <1>3 DEF Text

(* Behind whole lines a further one may be put, if it comes later.         *)
LEMMA AppendLine ==
    ASSUME NEW text \in Seq(Units), NEW high \in Int, Orderly(text, high),
           NEW line \in MenuLines, high < line
    PROVE  /\ Orderly(text \o Text(line), line)
           /\ Has(text \o Text(line), line)
           /\ \A other : Has(text, other) => Has(text \o Text(line), other)
           /\ \A i \in 1..Len(text \o Text(line)) :
                (text \o Text(line))[i][1] = line
                  \/ \E j \in 1..Len(text) : text[j][1] = (text \o Text(line))[i][1]
<1> DEFINE n == Len(text)
           m == Size[line]
           longer == text \o Text(line)
<1>1. n \in Nat /\ m \in Nat \ {0}
    BY LenProperties, CharactersOfLine
<1>2. /\ Len(longer) = n + m
      /\ \A i \in 1..n : longer[i] = text[i]
      /\ \A i \in 1..m : longer[n + i] = <<line, i>>
  <2> DEFINE t == Text(line)
  <2>1. t \in Seq(Units) /\ Len(t) = m /\ \A i \in 1..m : t[i] = <<line, i>>
      BY CharactersOfLine
  <2> HIDE DEF t
  <2>2. /\ Len(text \o t) = Len(text) + Len(t)
        /\ \A i \in 1..Len(text) : (text \o t)[i] = text[i]
        /\ \A i \in 1..Len(t) : (text \o t)[Len(text) + i] = t[i]
      BY <2>1, Joined, SMTT(30)
  <2> HIDE DEF m
  <2> QED
      BY <2>1, <2>2 DEF t
<1>3. /\ \A i \in 1..n : text[i][1] \in MenuLines /\ text[i][1] <= high
      /\ \A i \in 1..n : text[i][1] \in Int
    BY MenuParts DEF Orderly
<1>4. text = <<>> <=> n = 0
    BY EmptySeq
<1>5. line \in Int
    BY MenuParts
<1> HIDE DEF n, m, longer
<1>6. \A i \in 1..n + m : i \in 1..n \/ (i - n \in 1..m /\ n + (i - n) = i)
    BY <1>1
<1>7. \A i \in 1..n + m : i \in 1..n \/ longer[i] = <<line, i - n>>
    BY <1>2, <1>6
<1>8. Whole(longer)
  <2>1. longer[1][2] = 1
    <3>1. CASE n = 0
        BY <1>1, <1>2, <3>1
    <3>2. CASE n # 0
        BY <1>1, <1>2, <1>4, <3>2 DEF Orderly, Whole
    <3> QED
        BY <3>1, <3>2
  <2>2. ASSUME NEW i \in 1..Len(longer) - 1
        PROVE  \/ longer[i + 1] = <<longer[i][1], longer[i][2] + 1>>
               \/ /\ longer[i][2] = Size[longer[i][1]]
                  /\ longer[i + 1][1] > longer[i][1]
                  /\ longer[i + 1][2] = 1
    <3>1. CASE i < n
      <4>1. i \in 1..n - 1 /\ i \in 1..n /\ i + 1 \in 1..n
          BY <1>1, <1>2, <3>1
      <4>2. longer[i] = text[i] /\ longer[i + 1] = text[i + 1]
          BY <1>2, <4>1
      <4> QED
          BY <4>1, <4>2 DEF Orderly, Whole, n
    <3>2. CASE i = n
      <4>1. i \in 1..n /\ 1 \in 1..m
          BY <1>1, <3>2
      <4>2. longer[i] = text[i] /\ longer[i + 1] = <<line, 1>>
          BY <1>2, <3>2, <4>1
      <4>3. text[i][2] = Size[text[i][1]]
          BY <1>4, <3>2, <4>1 DEF Orderly, n
      <4>4. line > text[i][1]
          BY <1>3, <1>5, <4>1
      <4> QED
          BY <4>2, <4>3, <4>4
    <3>3. CASE i > n
      <4>1. i - n \in 1..m /\ i + 1 - n \in 1..m /\ i + 1 - n = i - n + 1
          BY <1>1, <1>2, <3>3
      <4>2. longer[i] = <<line, i - n>> /\ longer[i + 1] = <<line, i - n + 1>>
        <5>1. n + (i - n) = i /\ n + (i + 1 - n) = i + 1
            BY <1>1
        <5> QED
            BY <1>2, <4>1, <5>1
      <4> QED
          BY <4>2
    <3> QED
        BY <1>1, <3>1, <3>2, <3>3
  <2> QED
      BY <2>1, <2>2 DEF Whole
<1>9. longer[n + m] = <<line, m>> /\ n + m \in 1..n + m
    BY <1>1, <1>2
<1>10. \A i \in 1..n + m : longer[i][1] \in MenuLines /\ longer[i][1] <= line
    BY <1>2, <1>3, <1>5, <1>7
<1>11. ASSUME NEW i \in 1..n + m, NEW j \in 1..n + m, i < j
       PROVE  longer[i][1] <= longer[j][1]
  <2>1. CASE j \in 1..n
    <3>1. i \in 1..n
        BY <1>1, <1>11, <2>1
    <3> QED
        BY <1>2, <1>11, <2>1, <3>1 DEF Orderly, n
  <2>2. CASE j \notin 1..n
      BY <1>7, <1>10, <2>2
  <2> QED
      BY <2>1, <2>2
<1>12. Orderly(longer, line)
  <2>1. longer[Len(longer)][2] = Size[longer[Len(longer)][1]]
      BY <1>2, <1>9 DEF m
  <2> QED
      BY <1>2, <1>8, <1>10, <1>11, <2>1 DEF Orderly
<1>13. Has(longer, line)
    BY <1>2, <1>9 DEF Has, m
<1>14. ASSUME NEW other, Has(text, other)
       PROVE  Has(longer, other)
  <2>1. PICK i \in 1..n : text[i] = <<other, Size[other]>>
      BY <1>14 DEF Has, n
  <2>2. i \in 1..n + m
      BY <1>1
  <2> QED
      BY <1>2, <2>1, <2>2 DEF Has
<1>15. \A i \in 1..n + m : longer[i][1] = line \/ \E j \in 1..n : text[j][1] = longer[i][1]
    BY <1>2, <1>7
<1> QED
    BY <1>2, <1>12, <1>13, <1>14, <1>15 DEF n, longer

(* What a step does to the menu and to its lines.                          *)
LEMMA SameMenu == UNCHANGED <<input, unread>> => MenuLines' = MenuLines
  BY DEF MenuLines, Collected

(* A line is printed, the next of the menu.                                *)
LEMMA PrintStep ==
    ASSUME SbInv, Orderly(accepted, Upto), Upto \in Int,
           NEW line \in MenuLines, Push(Text(line)),
           UNCHANGED <<input, unread, code>>,
           Upto < line, Upto' = line,
           \A other \in MenuLines : ~(Upto < other /\ other < line)
    PROVE  /\ Orderly(accepted, Upto)'
           /\ Gapless(accepted) /\ code # "failure" /\ Fits(Text(line)) => Gapless(accepted)'
<1>1. MenuLines' = MenuLines
    BY SameMenu
<1>2. accepted \in Seq(Units)
    BY DEF SbInv, SbTypeOK
<1>3. line \in Int /\ \A other \in MenuLines : other \in Int
    BY MenuParts
<1>4. CASE Fits(Text(line))
  <2>1. accepted' = accepted \o Text(line)
      BY <1>4 DEF Push
  <2>2. /\ Orderly(accepted', line)
        /\ Has(accepted', line)
        /\ \A other : Has(accepted, other) => Has(accepted', other)
        /\ \A i \in 1..Len(accepted') :
             accepted'[i][1] = line \/ \E j \in 1..Len(accepted) : accepted[j][1] = accepted'[i][1]
      BY <1>2, <2>1, AppendLine, SMTT(60)
  <2>3. Orderly(accepted, Upto)'
      BY <1>1, <2>2 DEF Orderly, Whole
  <2>4. ASSUME Gapless(accepted), code # "failure", NEW other \in MenuLines,
               \/ \E i \in 1..Len(accepted') : accepted'[i][1] > other
               \/ other <= line
        PROVE  Has(accepted', other)
    <3>1. CASE other = line
        BY <2>2, <3>1
    <3>2. CASE other # line
      <4>1. other <= Upto \/ \E i \in 1..Len(accepted) : accepted[i][1] > other
        <5>1. CASE other <= line
          <6>1. other < line
              BY <1>3, <3>2, <5>1
          <6>2. ~(Upto < other)
              BY <6>1
          <6>3. other \in Int
              BY <1>3
          <6>4. other <= Upto
              BY <6>2, <6>3
          <6> QED
              BY <6>4
        <5>2. CASE ~(other <= line)
            BY <1>3, <2>2, <2>4, <5>2
        <5> QED
            BY <5>1, <5>2
      <4>2. Has(accepted, other)
          BY <2>4, <4>1 DEF Gapless
      <4> QED
          BY <2>2, <4>2
    <3> QED
        BY <3>1, <3>2
  <2>5. Gapless(accepted) /\ code # "failure" => Gapless(accepted)'
      BY <1>1, <2>4 DEF Gapless, Has
  <2> QED
      BY <2>3, <2>5
<1>5. CASE ~Fits(Text(line))
  <2>1. accepted' = accepted
      BY <1>5 DEF Push
  <2>2. \A i \in 1..Len(accepted) : accepted[i][1] \in Int
      BY <1>3 DEF Orderly
  <2>3. \A i \in 1..Len(accepted) : accepted[i][1] <= line
    <3> TAKE i \in 1..Len(accepted)
    <3>1. accepted[i][1] \in Int /\ accepted[i][1] <= Upto
        BY <2>2 DEF Orderly
    <3> QED
        BY <1>3, <3>1
  <2>4. Orderly(accepted, Upto)'
      BY <1>1, <2>1, <2>3 DEF Orderly, Whole
  <2> QED
      BY <1>5, <2>4
<1> QED
    BY <1>4, <1>5

(* Nothing is printed, and no line of the menu is passed over unless the   *)
(* program gives up.                                                       *)
LEMMA QuietStep ==
    ASSUME Orderly(accepted, Upto), Upto \in Int, Upto' \in Int,
           UNCHANGED <<accepted, input, unread>>, Upto <= Upto'
    PROVE  /\ Orderly(accepted, Upto)'
           /\ /\ Gapless(accepted)
              /\ \/ code' = "failure"
                 \/ /\ code # "failure"
                    /\ \A other \in MenuLines : ~(Upto < other /\ other <= Upto')
              => Gapless(accepted)'
<1>1. MenuLines' = MenuLines
    BY SameMenu
<1>2. \A other \in MenuLines : other \in Int
    BY MenuParts
<1>3. Orderly(accepted, Upto)'
    BY <1>1, <1>2 DEF Orderly, Whole
<1>4. ASSUME Gapless(accepted),
             \/ code' = "failure"
             \/ /\ code # "failure"
                /\ \A other \in MenuLines : ~(Upto < other /\ other <= Upto')
      PROVE  Gapless(accepted)'
  <2>1. ASSUME NEW other \in MenuLines,
               \/ \E i \in 1..Len(accepted) : accepted[i][1] > other
               \/ code' # "failure" /\ other <= Upto'
        PROVE  Has(accepted, other)
    <3>1. other \in Int
        BY <1>2
    <3>2. CASE \E i \in 1..Len(accepted) : accepted[i][1] > other
        BY <1>4, <3>2 DEF Gapless
    <3>3. CASE code' # "failure" /\ other <= Upto'
      <4>1. code # "failure" /\ ~(Upto < other)
          BY <1>4, <3>3
      <4>2. other <= Upto
          BY <3>1, <4>1
      <4> QED
          BY <1>4, <4>1, <4>2 DEF Gapless
    <3> QED
        BY <2>1, <3>2, <3>3
  <2> QED
      BY <1>1, <2>1 DEF Gapless, Has
<1> QED
    BY <1>3, <1>4

(* The next line of a section comes right behind the last.                 *)
LEMMA SectionNext ==
    ASSUME NEW lines, NEW low \in Int, NEW high \in Int, Section(lines, low, high),
           next \in 1..Len(lines)
    PROVE  /\ Reached(lines, low) \in Int /\ lines[next] \in Int
           /\ low - 1 <= Reached(lines, low) /\ Reached(lines, low) < lines[next]
           /\ low <= lines[next] /\ lines[next] <= high
           /\ \A other \in MenuLines : ~(Reached(lines, low) < other /\ other < lines[next])
<1>1. Len(lines) \in Nat
    BY LenProperties DEF Section
<1>2. \A i \in 1..Len(lines) : lines[i] \in Int /\ low <= lines[i] /\ lines[i] <= high
    BY ElementOfSeq DEF Section, Lines
<1>3. \A i, j \in 1..Len(lines) : i < j => lines[i] < lines[j]
    BY DEF Section
<1>4. next - 1 \in 1..Len(lines) \/ next = 1
    BY <1>1
<1>5. /\ Reached(lines, low) \in Int
      /\ low - 1 <= Reached(lines, low) /\ Reached(lines, low) < lines[next]
    BY <1>1, <1>2, <1>3, <1>4 DEF Reached
<1>6. ASSUME NEW other \in MenuLines, Reached(lines, low) < other, other < lines[next]
      PROVE  FALSE
  <2>1. other \in Int
      BY MenuParts
  <2>2. low <= other /\ other <= high
      BY <1>2, <1>5, <1>6, <2>1
  <2>3. PICK i \in 1..Len(lines) : lines[i] = other
      BY <2>2 DEF Section
  <2>4. ~(next < i) /\ next # i
      BY <1>2, <1>3, <1>6, <2>3
  <2>5. i < next
      BY <1>1, <2>4
  <2>6. next - 1 \in 1..Len(lines) /\ Reached(lines, low) = lines[next - 1]
      BY <1>1, <2>5 DEF Reached
  <2>7. i = next - 1 \/ i < next - 1
      BY <1>1, <2>5
  <2>8. lines[i] <= lines[next - 1]
      BY <1>2, <1>3, <2>6, <2>7
  <2>9. lines[i] \in Int /\ lines[next - 1] \in Int
      BY <1>2, <2>6
  <2> QED
      BY <1>6, <2>1, <2>3, <2>6, <2>8, <2>9
<1> QED
    BY <1>2, <1>5, <1>6

(* Behind the last line of a section there is none.                        *)
LEMMA SectionEnd ==
    ASSUME NEW lines, NEW low \in Int, NEW high \in Int, Section(lines, low, high),
           low <= high + 1, next = Len(lines) + 1
    PROVE  /\ Reached(lines, low) \in Int
           /\ low - 1 <= Reached(lines, low) /\ Reached(lines, low) <= high
           /\ \A other \in MenuLines : ~(Reached(lines, low) < other /\ other <= high)
<1>1. Len(lines) \in Nat
    BY LenProperties DEF Section
<1>2. \A i \in 1..Len(lines) : lines[i] \in Int /\ low <= lines[i] /\ lines[i] <= high
    BY ElementOfSeq DEF Section, Lines
<1>3. \A i, j \in 1..Len(lines) : i < j => lines[i] < lines[j]
    BY DEF Section
<1>4. next - 1 \in 1..Len(lines) \/ next = 1
    BY <1>1
<1>5. /\ Reached(lines, low) \in Int
      /\ low - 1 <= Reached(lines, low) /\ Reached(lines, low) <= high
    BY <1>1, <1>2, <1>4 DEF Reached
<1>6. ASSUME NEW other \in MenuLines, Reached(lines, low) < other, other <= high
      PROVE  FALSE
  <2>1. other \in Int
      BY MenuParts
  <2>2. low <= other
      BY <1>5, <1>6, <2>1
  <2>3. PICK i \in 1..Len(lines) : lines[i] = other
      BY <1>6, <2>2 DEF Section
  <2>4. next - 1 \in 1..Len(lines) /\ Reached(lines, low) = lines[next - 1]
      BY <1>1, <2>3 DEF Reached
  <2>5. i = next - 1 \/ i < next - 1
      BY <1>1, <2>3
  <2>6. lines[i] <= lines[next - 1]
      BY <1>2, <1>3, <2>4, <2>5
  <2> QED
      BY <1>2, <1>6, <2>3, <2>4, <2>6
<1> QED
    BY <1>5, <1>6

(* The last line that was come to, in each part of the program.            *)
LEMMA UptoIs ==
    /\ pc \in {"start", "read"} => Upto = -5
    /\ pc = "header" => Upto = Reached(HeaderLines, -4)
    /\ pc = "list" => Upto = Reached(filenames, 1)
    /\ pc = "check" => Upto = filenames[next]
    /\ pc = "footer" => Upto = Reached(FooterLines, NumNames + 1)
    /\ pc \in {"final", "exit"} => Upto = NumNames + 2
  BY DEF Upto

(* It is a number, and in a section of those of that section.              *)
LEMMA UptoType ==
    ASSUME PlaceInv
    PROVE  /\ Upto \in Int
           /\ pc = "header" => -5 <= Upto /\ Upto <= -1
           /\ pc \in {"list", "check"} => 0 <= Upto /\ Upto <= NumNames
           /\ pc = "footer" => NumNames <= Upto /\ Upto <= NumNames + 2
<1> USE NamesAssumption
<1>1. /\ pc = "header" => next \in 1..Len(HeaderLines) \/ next = Len(HeaderLines) + 1
      /\ pc = "list" => next \in 1..Len(filenames) \/ next = Len(filenames) + 1
      /\ pc = "check" => next \in 1..Len(filenames)
      /\ pc = "footer" => next \in 1..Len(FooterLines) \/ next = Len(FooterLines) + 1
  <2>1. /\ Len(HeaderLines) \in Nat /\ Len(FooterLines) \in Nat
        /\ pc \in {"list", "check"} => Len(filenames) \in Nat
      BY PartsOfLines, LenProperties DEF PlaceInv, Section
  <2> QED
      BY <2>1 DEF PlaceInv
<1>2. CASE pc = "header"
  <2>1. Reached(HeaderLines, -4) \in Int
        /\ -4 - 1 <= Reached(HeaderLines, -4) /\ Reached(HeaderLines, -4) <= -1
    <3>1. CASE next \in 1..Len(HeaderLines)
        BY <3>1, HeaderSection, SectionNext
    <3>2. CASE next = Len(HeaderLines) + 1
        BY <3>2, HeaderSection, SectionEnd
    <3> QED
        BY <1>1, <1>2, <3>1, <3>2
  <2> QED
      BY <1>2, <2>1, UptoIs
<1>3. CASE pc = "list"
  <2>1. Section(filenames, 1, NumNames)
      BY <1>3 DEF PlaceInv
  <2>2. Reached(filenames, 1) \in Int
        /\ 0 <= Reached(filenames, 1) /\ Reached(filenames, 1) <= NumNames
    <3>1. CASE next \in 1..Len(filenames)
        BY <2>1, <3>1, SectionNext
    <3>2. CASE next = Len(filenames) + 1
        BY <2>1, <3>2, SectionEnd
    <3> QED
        BY <1>1, <1>3, <3>1, <3>2
  <2> QED
      BY <1>3, <2>2, UptoIs
<1>4. CASE pc = "check"
  <2>1. Section(filenames, 1, NumNames) /\ next \in 1..Len(filenames)
      BY <1>1, <1>4 DEF PlaceInv
  <2> QED
      BY <1>4, <2>1, SectionNext, UptoIs
<1>5. CASE pc = "footer"
  <2>1. Reached(FooterLines, NumNames + 1) \in Int
        /\ NumNames <= Reached(FooterLines, NumNames + 1)
        /\ Reached(FooterLines, NumNames + 1) <= NumNames + 2
    <3>1. CASE next \in 1..Len(FooterLines)
        BY <3>1, FooterSection, SectionNext
    <3>2. CASE next = Len(FooterLines) + 1
        BY <3>2, FooterSection, SectionEnd
    <3> QED
        BY <1>1, <1>5, <3>1, <3>2
  <2> QED
      BY <1>5, <2>1, UptoIs
<1>6. CASE pc \in {"start", "read", "final", "exit"}
    BY <1>6, UptoIs
<1> QED
    BY <1>2, <1>3, <1>4, <1>5, <1>6 DEF PlaceInv

(* What depends on the directory and the request stays as it is.           *)
LEMMA SameLines ==
    ASSUME UNCHANGED input
    PROVE  /\ HeaderLines' = HeaderLines /\ FooterLines' = FooterLines
           /\ \A n : Collected(n)' <=> Collected(n)
           /\ UNCHANGED <<filenames, unread>> =>
                (Section(filenames, 1, NumNames)' <=> Section(filenames, 1, NumNames))
<1>1. HeaderLines' = HeaderLines /\ FooterLines' = FooterLines
    BY DEF HeaderLines, FooterLines
<1>2. \A n : Collected(n)' <=> Collected(n)
    BY DEF Collected
<1>3. UNCHANGED <<filenames, unread>> =>
        (Section(filenames, 1, NumNames)' <=> Section(filenames, 1, NumNames))
    BY SameMenu DEF Section
<1> QED
    BY <1>1, <1>2, <1>3

(* Every action leaves the directory as it is.                             *)
LEMMA SameInput == [Next]_vars => UNCHANGED input
  BY DEF Next, Open, OpenFails, Skip, Collect, NoMemory, ReadEnds, PrintHeader, HeaderEnds,
         Prints, Passes, StatFails, ListFile, SkipFile, CheckFlush, ListEnds, PrintFooter,
         FooterEnds, Finish, Unlink, vars, mainvars

(* One more name.                                                          *)
LEMMA CollectNames ==
    ASSUME PlaceInv, pc = "read", NEW n \in Names, n \in unread, Collected(n),
           UNCHANGED input, unread' = unread \ {n}, filenames' = Append(filenames, n)
    PROVE  NamesInv'
<1> DEFINE k == Len(filenames)
<1>1. NamesInv
    BY DEF PlaceInv
<1>2. filenames \in Seq(Names) /\ k \in Nat
    BY <1>1, LenProperties DEF NamesInv
<1>3. /\ filenames' \in Seq(Names) /\ Len(filenames') = k + 1
      /\ \A i \in 1..k : filenames'[i] = filenames[i]
      /\ filenames'[k + 1] = n
    BY <1>2, AppendProperties
<1>4. \A i \in 1..k : filenames[i] \in Names /\ filenames[i] # n
  <2> TAKE i \in 1..k
  <2>1. filenames[i] \in Names
      BY <1>2, ElementOfSeq
  <2> QED
      BY <1>1, <2>1 DEF NamesInv, Found
<1>5. \A i \in 1..k + 1 : i \in 1..k \/ i = k + 1
    BY <1>2
<1>6. ASSUME NEW i \in 1..k + 1, NEW j \in 1..k + 1, filenames'[i] = filenames'[j]
      PROVE  i = j
    BY <1>1, <1>3, <1>4, <1>5, <1>6 DEF NamesInv
<1>7. ASSUME NEW m \in Names
      PROVE  Found(m)' <=> \E i \in 1..k + 1 : filenames'[i] = m
  <2>1. CASE m = n
    <3>1. k + 1 \in 1..k + 1
        BY <1>2
    <3> QED
        BY <1>3, <2>1, <3>1, SameLines DEF Found
  <2>2. CASE m # n
    <3>1. Found(m) <=> \E i \in 1..k : filenames[i] = m
        BY <1>1 DEF NamesInv
    <3>2. (\E i \in 1..k + 1 : filenames'[i] = m) <=> \E i \in 1..k : filenames[i] = m
      <4>1. \A i \in 1..k : i \in 1..k + 1
          BY <1>2
      <4> QED
          BY <1>3, <1>5, <2>2, <4>1
    <3> QED
        BY <2>2, <3>1, <3>2, SameLines DEF Found
  <2> QED
      BY <2>1, <2>2
<1> QED
    BY <1>3, <1>6, <1>7 DEF NamesInv

(* Where a step leads.                                                     *)
LEMMA PlaceStep ==
    ASSUME SbInv, PlaceInv, [Next]_vars
    PROVE  PlaceInv'
<1> USE DEF Exits
<1>a. UNCHANGED input
    BY SameInput
<1>b. /\ HeaderLines' = HeaderLines /\ FooterLines' = FooterLines
      /\ Len(HeaderLines) \in Nat /\ Len(FooterLines) \in Nat
    BY <1>a, SameLines, PartsOfLines, LenProperties
<1>c. pc \in {"header", "list", "check"} => Len(filenames) \in Nat
    BY LenProperties DEF PlaceInv, Section
<1> DEFINE Listing == /\ Section(filenames, 1, NumNames)
                      /\ \A i \in 1..Len(filenames) : Found(filenames[i])
           Ended == ~failed /\ io = "idle" /\ (pc = "final" \/ code = "success") => Unwritten = 0
<1>d. UNCHANGED <<filenames, unread>> => (Listing' <=> Listing)
    BY <1>a, SameLines DEF Found
<1>e. pc \in {"header", "list", "check"} => Listing
    BY DEF PlaceInv
<1>f. UNCHANGED <<filenames, unread>> => (NamesInv' <=> NamesInv)
    BY <1>a, SameLines DEF NamesInv, Found
<1>g. /\ pc \in {"start", "read", "header", "list", "check", "footer", "final", "exit"}
      /\ next \in Nat \ {0} /\ unread \subseteq Names
      /\ pc \in {"start", "read"} => NamesInv /\ next = 1
      /\ code # "none" <=> pc = "exit"
      /\ code \in {"none", "success", "failure"}
      /\ pc \notin {"list", "final"} => io = "idle"
      /\ Ended
    BY DEF PlaceInv
<1> HIDE DEF Listing
<1>1. CASE Open \/ OpenFails
    BY <1>1, <1>f, <1>g DEF Open, OpenFails, PlaceInv, sbvars
<1>2. ASSUME NEW n \in Names, Skip(n)
      PROVE  PlaceInv'
  <2>1. NamesInv'
      BY <1>2, <1>a, <1>g, SameLines DEF Skip, NamesInv, Found
  <2> QED
      BY <1>2, <1>g, <2>1 DEF Skip, PlaceInv, sbvars
<1>3. ASSUME NEW n \in Names, Collect(n)
      PROVE  PlaceInv'
  <2>1. NamesInv'
      BY <1>3, <1>a, CollectNames DEF Collect
  <2> QED
      BY <1>3, <1>g, <2>1 DEF Collect, PlaceInv, sbvars
<1>4. ASSUME NEW n \in Names, NoMemory(n)
      PROVE  PlaceInv'
    BY <1>4, <1>g DEF NoMemory, PlaceInv, sbvars
<1>5. CASE ReadEnds
  <2>1. Listing'
      BY <1>5, <1>a, <1>g, SameMenu, SameLines, SortedNames
         DEF ReadEnds, Listing, Section, Found
  <2> QED
      BY <1>5, <1>b, <1>g, <2>1 DEF ReadEnds, PlaceInv, sbvars, Listing
<1>6. CASE PrintHeader
    BY <1>6, <1>b, <1>d, <1>e, <1>g DEF PrintHeader, Prints, Push, PlaceInv, Listing
<1>7. CASE HeaderEnds
  <2>1. 1 <= Len(filenames') + 1
      BY <1>7, <1>c DEF HeaderEnds, Passes
  <2> QED
      BY <1>7, <1>d, <1>e, <1>g, <2>1 DEF HeaderEnds, Passes, PlaceInv, sbvars, Listing
<1>8. ASSUME NEW n \in Names, StatFails(n)
      PROVE  PlaceInv'
    BY <1>8, <1>g DEF StatFails, Stats, PlaceInv, sbvars
<1>9. ASSUME NEW n \in Names, ListFile(n)
      PROVE  PlaceInv'
    BY <1>9, <1>d, <1>e, <1>g DEF ListFile, Stats, Push, PlaceInv, Listing
<1>10. ASSUME NEW n \in Names, SkipFile(n)
       PROVE  PlaceInv'
  <2>1. next + 1 <= Len(filenames) + 1
      BY <1>10, <1>c, <1>g DEF SkipFile, Stats
  <2> QED
      BY <1>10, <1>d, <1>e, <1>g, <2>1 DEF SkipFile, Stats, PlaceInv, sbvars, Listing
<1>11. CASE CheckFlush
  <2>1. next + 1 <= Len(filenames) + 1
      BY <1>11, <1>c, <1>g DEF CheckFlush, PlaceInv
  <2> QED
      BY <1>11, <1>d, <1>e, <1>g, <2>1 DEF CheckFlush, PlaceInv, Listing
<1>12. CASE ListEnds
    BY <1>12, <1>b, <1>g DEF ListEnds, Passes, PlaceInv, sbvars
<1>13. CASE PrintFooter
    BY <1>13, <1>b, <1>g DEF PrintFooter, Prints, Push, PlaceInv
<1>14. CASE FooterEnds
    BY <1>14, <1>g DEF FooterEnds, Passes, Flush, PlaceInv
<1>15. CASE Finish
    BY <1>15, <1>g DEF Finish, PlaceInv, sbvars, Unwritten
<1>16. CASE FlushNext /\ UNCHANGED mainvars
  <2>1. Ended'
    <3>1. CASE FlushDone
        BY <3>1 DEF FlushDone, Unwritten
    <3>2. CASE WriteBlocks \/ PollReady \/ FlushFails \/ \E n \in 1..Length : WriteSome(n)
        BY <3>2 DEF WriteBlocks, PollReady, FlushFails, WriteSome
    <3> QED
        BY <1>16, <3>1, <3>2 DEF FlushNext
  <2>2. pc \in {"list", "final"}
      BY <1>16, <1>g DEF FlushNext, WriteBlocks, PollReady, FlushFails, WriteSome, FlushDone
  <2> QED
      BY <1>16, <1>d, <1>e, <1>g, <2>1, <2>2 DEF mainvars, PlaceInv, Listing
<1>17. ASSUME NEW n \in Names, Unlink(n)
       PROVE  PlaceInv'
    BY <1>17, <1>b, <1>d, <1>e, <1>f, <1>g DEF Unlink, PlaceInv, sbvars, Unwritten, Listing
<1>18. CASE UNCHANGED vars
    BY <1>18, <1>b, <1>d, <1>e, <1>f, <1>g DEF vars, mainvars, PlaceInv, sbvars, Unwritten, Listing
<1> QED
    BY <1>1, <1>2, <1>3, <1>4, <1>5, <1>6, <1>7, <1>8, <1>9, <1>10, <1>11, <1>12, <1>13, <1>14,
       <1>15, <1>16, <1>17, <1>18 DEF Next

(* What holds of the text after a step.                                    *)
TextHolds == Orderly(accepted, Upto) /\ (~failed => Gapless(accepted) /\ RoomInv)

(* The room that the header takes grows by each of its lines.              *)
LEMMA HeaderGrows ==
    ASSUME NEW high \in Int, NEW line \in {-4, -3, -2, -1}, high < line
    PROVE  /\ HeaderRoom(high) + Size[line] <= HeaderRoom(line)
           /\ HeaderRoom(line) <= HeaderRoom(-1)
<1>1. /\ Size[-4] \in Nat /\ Size[-3] \in Nat /\ Size[-2] \in Nat /\ Size[-1] \in Nat
    BY SizeAssumption, NamesAssumption DEF Lines
<1> QED
    BY <1>1 DEF HeaderRoom, Room

(* The header comes before every name.                                     *)
LEMMA HeaderBound ==
    /\ HeaderRoom(-1) \in Nat
    /\ \A high \in Int : HeaderRoom(high) \in Nat /\ HeaderRoom(high) <= HeaderRoom(-1)
    /\ HeaderRoom(-1) + Size[NumNames + 1] + Size[NumNames + 2] < Length
    /\ \A n \in Names : HeaderRoom(-1) + Size[n] < Length /\ Size[n] < Leftover
    /\ Size[NumNames + 1] + Size[NumNames + 2] < Leftover
    /\ Size[NumNames + 1] \in Nat /\ Size[NumNames + 2] \in Nat
    /\ Length \in Nat /\ Leftover \in 1..Length
<1>1. /\ Size[-4] \in Nat /\ Size[-3] \in Nat /\ Size[-2] \in Nat /\ Size[-1] \in Nat
      /\ Size[NumNames + 1] \in Nat /\ Size[NumNames + 2] \in Nat
    BY SizeAssumption, NamesAssumption DEF Lines
<1>2. HeaderRoom(-1) = Size[-4] + Size[-3] + Size[-2] + Size[-1]
    BY DEF HeaderRoom, Room
<1>3. \A high \in Int : HeaderRoom(high) \in Nat /\ HeaderRoom(high) <= HeaderRoom(-1)
    BY <1>1, <1>2 DEF HeaderRoom, Room
<1>4. \A n \in Names : /\ Size[-4] + Size[-3] + Size[-2] + Size[-1] + Size[n] < Length
                       /\ Size[n] < Leftover
    BY SizeAssumption
<1>5. /\ Size[NumNames + 1] + Size[NumNames + 2] < Leftover
      /\ Size[-4] + Size[-3] + Size[-2] + Size[-1]
           + Size[NumNames + 1] + Size[NumNames + 2] < Length
    BY SizeAssumption
<1>6. Length \in Nat /\ Leftover \in 1..Length
    BY LengthAssumption, NamesAssumption
<1> QED
    BY <1>1, <1>2, <1>3, <1>4, <1>5, <1>6

(* A text that is pushed fits if there is room for it.                     *)
LEMMA PushFits ==
    ASSUME SbInv, NEW line \in MenuLines, Push(Text(line))
    PROVE  /\ pos \in Nat /\ UNCHANGED <<io, failed>>
           /\ Fits(Text(line)) <=> pos + Size[line] < Length
           /\ Fits(Text(line)) => pos' = pos + Size[line]
<1>1. pos \in 0..Length - 1 /\ Length \in Nat
    BY LengthAssumption DEF SbInv, SbTypeOK
<1>2. Size[line] \in Nat /\ Len(Text(line)) = Size[line]
    BY CharactersOfLine
<1>3. Fits(Text(line)) <=> pos + Size[line] < Length
    BY <1>1, <1>2 DEF Fits, Remaining
<1> QED
    BY <1>1, <1>2, <1>3 DEF Push

(* A line of the header is printed.                                        *)
LEMMA HeaderStep ==
    ASSUME MenuInv, PrintHeader
    PROVE  TextHolds'
<1> DEFINE line == HeaderLines[next]
<1>a. UNCHANGED <<input, unread, code, pc>> /\ next' = next + 1 /\ pc = "header" /\ Push(Text(line))
    BY DEF PrintHeader, Prints
<1>b. HeaderLines' = HeaderLines
    BY <1>a, SameLines
<1>c. next \in 1..Len(HeaderLines) /\ next \in Nat \ {0}
  <2>1. Len(HeaderLines) \in Nat
      BY PartsOfLines, LenProperties
  <2> QED
      BY <2>1 DEF PrintHeader, Prints, MenuInv, PlaceInv
<1>d. /\ Upto \in Int /\ line \in Int /\ Upto < line /\ -4 <= line /\ line <= -1
      /\ \A other \in MenuLines : ~(Upto < other /\ other < line)
    BY <1>a, <1>c, HeaderSection, SectionNext, UptoIs
<1>e. line \in MenuLines
    BY <1>c, HeaderSection
<1>f. Upto' = line
  <2>1. Upto' = Reached(HeaderLines, -4)'
      BY <1>a DEF Upto
  <2> QED
      BY <1>a, <1>b, <1>c, <2>1 DEF Reached
<1> HIDE DEF line
<1>1. Orderly(accepted, Upto)'
  /\ (Gapless(accepted) /\ code # "failure" /\ Fits(Text(line)) => Gapless(accepted)')
    BY <1>a, <1>d, <1>e, <1>f, PrintStep DEF MenuInv
<1>2. code = "none"
    BY <1>a DEF MenuInv, PlaceInv
<1>3. ASSUME ~failed
      PROVE  Fits(Text(line)) /\ RoomInv'
  <2>1. pos <= HeaderRoom(Upto)
      BY <1>3, <1>a DEF MenuInv, RoomInv, Push
  <2>2. line \in {-4, -3, -2, -1}
      BY <1>d
  <2>3. /\ HeaderRoom(Upto) + Size[line] <= HeaderRoom(line)
        /\ HeaderRoom(line) <= HeaderRoom(-1)
      BY <1>d, <2>2, HeaderGrows
  <2>4. /\ HeaderRoom(Upto) \in Nat /\ HeaderRoom(line) \in Nat /\ HeaderRoom(-1) \in Nat
        /\ HeaderRoom(-1) < Length /\ Length \in Nat
      BY <1>d, HeaderBound
  <2>5. pos \in Nat /\ Size[line] \in Nat
      BY <1>a, <1>e, PushFits, CharactersOfLine DEF MenuInv
  <2>6. Fits(Text(line)) /\ pos' = pos + Size[line]
    <3>1. pos + Size[line] < Length
        BY <2>1, <2>3, <2>4, <2>5
    <3> QED
        BY <1>a, <1>e, <3>1, PushFits DEF MenuInv
  <2>7. pos' <= HeaderRoom(line)
      BY <2>1, <2>3, <2>4, <2>5, <2>6
  <2> QED
      BY <1>a, <1>f, <2>6, <2>7 DEF RoomInv, HeaderRoom, Room
<1>4. failed' = failed
    BY <1>a DEF Push
<1> QED
    BY <1>1, <1>2, <1>3, <1>4 DEF MenuInv, TextHolds

(* A line for a name is printed.                                           *)
LEMMA FileStep ==
    ASSUME MenuInv, NEW n \in Names, ListFile(n)
    PROVE  TextHolds'
<1>a. /\ UNCHANGED <<input, unread, code, filenames, next>> /\ pc = "list" /\ pc' = "check"
      /\ Push(Text(n)) /\ n = filenames[next] /\ input.dir[n] # "other" /\ next <= Len(filenames)
    BY DEF ListFile, Stats
<1>b. Section(filenames, 1, NumNames) /\ Found(n) /\ next \in 1..Len(filenames)
  <2>1. Section(filenames, 1, NumNames) /\ \A i \in 1..Len(filenames) : Found(filenames[i])
      BY <1>a DEF MenuInv, PlaceInv
  <2>2. Len(filenames) \in Nat /\ next \in Nat \ {0}
      BY <2>1, LenProperties DEF Section, MenuInv, PlaceInv
  <2> QED
      BY <1>a, <2>1, <2>2
<1>c. n \in MenuLines
    BY <1>a, <1>b, MenuParts
<1>d. /\ Upto \in Int /\ n \in Int /\ Upto < n
      /\ \A other \in MenuLines : ~(Upto < other /\ other < n)
    BY <1>a, <1>b, SectionNext, UptoIs, NamesAssumption
<1>e. Upto' = n
    BY <1>a DEF Upto
<1>1. Orderly(accepted, Upto)'
  /\ (Gapless(accepted) /\ code # "failure" /\ Fits(Text(n)) => Gapless(accepted)')
    BY <1>a, <1>c, <1>d, <1>e, PrintStep DEF MenuInv
<1>2. code = "none"
    BY <1>a DEF MenuInv, PlaceInv
<1>3. ASSUME ~failed
      PROVE  Fits(Text(n))
  <2>1. \/ pos <= HeaderRoom(-1) + FooterRoom(Upto)
        \/ pos <= Length - Leftover + FooterRoom(Upto)
      BY <1>3, <1>a DEF MenuInv, RoomInv, Push
  <2>2. FooterRoom(Upto) = 0
    <3>1. Upto \in Int /\ Upto <= NumNames
        BY <1>a, UptoType DEF MenuInv
    <3> QED
        BY <3>1, NamesAssumption DEF FooterRoom, Room
  <2>3. pos \in Nat /\ Size[n] \in Nat
      BY <1>a, <1>c, PushFits, CharactersOfLine DEF MenuInv
  <2>4. pos + Size[n] < Length
      BY <2>1, <2>2, <2>3, HeaderBound
  <2> QED
      BY <1>a, <1>c, <2>4, PushFits DEF MenuInv
<1>4. failed' = failed
    BY <1>a DEF Push
<1>5. RoomInv'
    BY <1>a DEF RoomInv
<1> QED
    BY <1>1, <1>2, <1>3, <1>4, <1>5 DEF MenuInv, TextHolds

(* A line of the footer is printed.                                        *)
LEMMA FooterStep ==
    ASSUME MenuInv, PrintFooter
    PROVE  TextHolds'
<1> DEFINE line == FooterLines[next]
<1>a. UNCHANGED <<input, unread, code, pc>> /\ next' = next + 1 /\ pc = "footer" /\ Push(Text(line))
    BY DEF PrintFooter, Prints
<1>b. FooterLines' = FooterLines
    BY <1>a, SameLines
<1>c. next \in 1..Len(FooterLines) /\ next \in Nat \ {0}
  <2>1. Len(FooterLines) \in Nat
      BY PartsOfLines, LenProperties
  <2> QED
      BY <2>1 DEF PrintFooter, Prints, MenuInv, PlaceInv
<1>d. /\ Upto \in Int /\ line \in Int /\ Upto < line /\ NumNames <= Upto
      /\ NumNames + 1 <= line /\ line <= NumNames + 2
      /\ \A other \in MenuLines : ~(Upto < other /\ other < line)
    BY <1>a, <1>c, FooterSection, SectionNext, UptoIs, NamesAssumption
<1>e. line \in MenuLines
    BY <1>c, FooterSection
<1>f. Upto' = line
  <2>1. Upto' = Reached(FooterLines, NumNames + 1)'
      BY <1>a DEF Upto
  <2> QED
      BY <1>a, <1>b, <1>c, <2>1 DEF Reached
<1> HIDE DEF line
<1>1. Orderly(accepted, Upto)'
  /\ (Gapless(accepted) /\ code # "failure" /\ Fits(Text(line)) => Gapless(accepted)')
    BY <1>a, <1>d, <1>e, <1>f, PrintStep DEF MenuInv
<1>2. code = "none"
    BY <1>a DEF MenuInv, PlaceInv
<1>3. ASSUME ~failed
      PROVE  Fits(Text(line)) /\ RoomInv'
  <2>1. \/ pos <= HeaderRoom(-1) + FooterRoom(Upto)
        \/ pos <= Length - Leftover + FooterRoom(Upto)
      BY <1>3, <1>a DEF MenuInv, RoomInv, Push
  <2>2. /\ FooterRoom(Upto) + Size[line] <= FooterRoom(line)
        /\ FooterRoom(line) <= Size[NumNames + 1] + Size[NumNames + 2]
        /\ FooterRoom(Upto) \in Nat /\ FooterRoom(line) \in Nat
    <3>1. (line = NumNames + 1 /\ Upto = NumNames) \/ (line = NumNames + 2 /\ Upto < NumNames + 2)
        BY <1>d, NamesAssumption
    <3>2. Size[NumNames + 1] \in Nat /\ Size[NumNames + 2] \in Nat
        BY HeaderBound
    <3> QED
        BY <1>d, <3>1, <3>2, NamesAssumption DEF FooterRoom, Room
  <2>3. pos \in Nat /\ Size[line] \in Nat
      BY <1>a, <1>e, PushFits, CharactersOfLine DEF MenuInv
  <2>4. pos + Size[line] < Length
      BY <2>1, <2>2, <2>3, HeaderBound
  <2>5. Fits(Text(line)) /\ pos' = pos + Size[line]
      BY <1>a, <1>e, <2>4, PushFits DEF MenuInv
  <2>6. \/ pos' <= HeaderRoom(-1) + FooterRoom(line)
        \/ pos' <= Length - Leftover + FooterRoom(line)
      BY <2>1, <2>2, <2>3, <2>5, HeaderBound
  <2>7. /\ pc' = "footer"
        /\ HeaderRoom(-1)' = HeaderRoom(-1) /\ FooterRoom(Upto)' = FooterRoom(line)
      BY <1>a, <1>f DEF HeaderRoom, FooterRoom, Room
  <2> QED
      BY <2>5, <2>6, <2>7 DEF RoomInv
<1>4. failed' = failed
    BY <1>a DEF Push
<1> QED
    BY <1>1, <1>2, <1>3, <1>4 DEF MenuInv, TextHolds

(* The program gives up: no line is printed any more.                      *)
LEMMA ExitStep ==
    ASSUME MenuInv, pc' = "exit", code' = "failure" \/ (code' # "failure" /\ pc = "final"),
           UNCHANGED <<accepted, input, unread, failed>>
    PROVE  TextHolds'
<1>1. Upto' = NumNames + 2 /\ Upto' \in Int
    BY NamesAssumption DEF Upto
<1>2. Upto \in Int /\ Upto <= NumNames + 2 /\ (pc = "final" => Upto = NumNames + 2)
  <2>1. pc \in {"start", "read", "header", "list", "check", "footer", "final", "exit"}
      BY DEF MenuInv, PlaceInv
  <2> QED
      BY <2>1, UptoType, UptoIs, NamesAssumption DEF MenuInv
<1>3. pc = "final" => code # "failure"
    BY DEF MenuInv, PlaceInv
<1>4. code' # "failure" => \A other \in MenuLines : ~(Upto < other /\ other <= Upto')
    BY <1>1, <1>2, MenuParts
<1>5. Orderly(accepted, Upto)' /\ (Gapless(accepted) => Gapless(accepted)')
    BY <1>1, <1>2, <1>3, <1>4, QuietStep DEF MenuInv
<1>6. RoomInv'
    BY DEF RoomInv
<1> QED
    BY <1>5, <1>6 DEF MenuInv, TextHolds

(* The program goes on and passes over no line of the menu.                *)
LEMMA PassStep ==
    ASSUME MenuInv, pc # "exit", Upto' \in Int, Upto <= Upto',
           UNCHANGED <<accepted, input, unread>>, failed' \/ ~failed,
           \A other \in MenuLines : ~(Upto < other /\ other <= Upto'),
           ~failed' => RoomInv'
    PROVE  TextHolds'
<1>1. Upto \in Int
    BY UptoType DEF MenuInv
<1>2. code # "failure"
    BY DEF MenuInv, PlaceInv
<1>3. Orderly(accepted, Upto)' /\ (Gapless(accepted) => Gapless(accepted)')
    BY <1>1, <1>2, QuietStep DEF MenuInv
<1> QED
    BY <1>3 DEF MenuInv, TextHolds

(* Until the names are sorted nothing is printed, whatever readdir returns.*)
LEMMA ReadStep ==
    ASSUME MenuInv,
           \/ Open \/ ReadEnds
           \/ \E n \in Names : Skip(n) \/ Collect(n) \/ NoMemory(n)
    PROVE  TextHolds'
<1>1. /\ pc \in {"start", "read"} /\ next = 1 /\ UNCHANGED sbvars
      /\ \/ pc' \in {"read", "header"} /\ next' = 1
         \/ pc' = "exit" /\ code' = "failure"
    BY DEF Open, ReadEnds, Skip, Collect, NoMemory, Exits, MenuInv, PlaceInv
<1>2. Upto = -5 /\ (pc' # "exit" => Upto' = -5)
    BY <1>1 DEF Upto, Reached
<1>3. accepted' = <<>> /\ Len(accepted') = 0
  <2>1. accepted \in Seq(Units) /\ Len(accepted) \in Nat
      BY LenProperties DEF MenuInv, SbInv, SbTypeOK
  <2>2. \A i \in 1..Len(accepted) : accepted[i][1] \in MenuLines /\ accepted[i][1] <= -5
      BY <1>2 DEF MenuInv, Orderly
  <2>3. Len(accepted) = 0
      BY <2>1, <2>2, MenuParts
  <2>4. accepted = <<>>
      BY <2>1, <2>3, EmptySeq
  <2> QED
      BY <1>1, <2>3, <2>4 DEF sbvars
<1>4. Orderly(accepted, Upto)'
    BY <1>3 DEF Orderly, Whole
<1>5. Gapless(accepted)'
  <2>1. \A line \in MenuLines' : ~(line <= -5)
      BY NamesAssumption DEF MenuLines, Names
  <2> QED
      BY <1>1, <1>2, <1>3, <2>1 DEF Gapless
<1>6. ~failed' => RoomInv'
  <2>1. CASE pc' = "exit"
      BY <2>1 DEF RoomInv
  <2>2. CASE pc' # "exit"
    <3>1. HeaderRoom(Upto) = HeaderRoom(Upto)'
        BY <1>2, <2>2 DEF HeaderRoom, Room
    <3> QED
        BY <1>1, <2>2, <3>1 DEF MenuInv, RoomInv, sbvars
  <2> QED
      BY <2>1, <2>2
<1> QED
    BY <1>4, <1>5, <1>6 DEF TextHolds

(* The header ends; behind it the names begin.                             *)
LEMMA HeaderEndStep ==
    ASSUME MenuInv, HeaderEnds
    PROVE  TextHolds'
<1>1. /\ pc = "header" /\ pc' = "list" /\ next' = 1 /\ next = Len(HeaderLines) + 1
      /\ UNCHANGED <<input, unread, sbvars>>
  <2>1. Len(HeaderLines) \in Nat
      BY PartsOfLines, LenProperties
  <2> QED
      BY <2>1 DEF HeaderEnds, Passes, MenuInv, PlaceInv
<1>2. Upto' = 0
    BY <1>1 DEF Upto, Reached
<1>3. /\ Upto \in Int /\ Upto <= -1
      /\ \A other \in MenuLines : ~(Upto < other /\ other <= -1)
    BY <1>1, HeaderSection, SectionEnd, UptoIs
<1>4. \A other \in MenuLines : ~(Upto < other /\ other <= Upto')
    BY <1>2, <1>3, MenuParts
<1>5. ~failed' => RoomInv'
  <2>1. HeaderRoom(Upto) \in Nat /\ HeaderRoom(Upto) <= HeaderRoom(-1) /\ HeaderRoom(-1) \in Nat
      BY <1>3, HeaderBound
  <2>2. ~failed => pos <= HeaderRoom(Upto)
      BY <1>1 DEF MenuInv, PlaceInv, RoomInv
  <2>3. pos \in Nat
      BY LengthAssumption DEF MenuInv, SbInv, SbTypeOK
  <2>4. FooterRoom(Upto)' = 0 /\ HeaderRoom(-1)' = HeaderRoom(-1)
      BY <1>2, NamesAssumption DEF FooterRoom, HeaderRoom, Room
  <2>5. ~failed => pos <= HeaderRoom(-1) + 0
      BY <2>1, <2>2, <2>3
  <2> QED
      BY <1>1, <2>4, <2>5 DEF RoomInv, sbvars
<1> QED
    BY <1>1, <1>2, <1>3, <1>4, <1>5, PassStep DEF sbvars

(* A name that is no file or directory is no line of the menu.             *)
LEMMA SkipStep ==
    ASSUME MenuInv, NEW n \in Names, SkipFile(n)
    PROVE  TextHolds'
<1>a. /\ UNCHANGED <<input, unread, filenames, sbvars>> /\ pc = "list" /\ pc' = "list"
      /\ n = filenames[next] /\ input.dir[n] = "other" /\ next <= Len(filenames)
      /\ next' = next + 1
    BY DEF SkipFile, Stats
<1>b. Section(filenames, 1, NumNames) /\ next \in 1..Len(filenames) /\ next \in Nat \ {0}
  <2>1. Section(filenames, 1, NumNames)
      BY <1>a DEF MenuInv, PlaceInv
  <2>2. Len(filenames) \in Nat /\ next \in Nat \ {0}
      BY <2>1, LenProperties DEF Section, MenuInv, PlaceInv
  <2> QED
      BY <1>a, <2>1, <2>2
<1>c. n \notin MenuLines
    BY <1>a, MenuParts
<1>d. /\ Upto \in Int /\ n \in Int /\ Upto < n /\ n <= NumNames
      /\ \A other \in MenuLines : ~(Upto < other /\ other < n)
    BY <1>a, <1>b, SectionNext, UptoIs, NamesAssumption
<1>e. Upto' = n
    BY <1>a, <1>b DEF Upto, Reached
<1>1. \A other \in MenuLines : ~(Upto < other /\ other <= Upto')
  <2> TAKE other \in MenuLines
  <2>1. other \in Int /\ other # n
      BY <1>c, MenuParts
  <2> QED
      BY <1>d, <1>e, <2>1
<1>2. ~failed' => RoomInv'
  <2>1. FooterRoom(Upto) = 0 /\ FooterRoom(Upto)' = 0 /\ HeaderRoom(-1)' = HeaderRoom(-1)
      BY <1>d, <1>e, NamesAssumption DEF FooterRoom, HeaderRoom, Room
  <2> QED
      BY <1>a, <2>1 DEF MenuInv, RoomInv, sbvars
<1> QED
    BY <1>1, <1>2, <1>a, <1>d, <1>e, PassStep DEF sbvars

(* sbuffer_checkflush leaves room for a line, or begins to flush.          *)
LEMMA CheckStep ==
    ASSUME MenuInv, CheckFlush
    PROVE  TextHolds'
<1>a. /\ UNCHANGED <<input, unread, filenames, failed, accepted>> /\ pc = "check" /\ pc' = "list"
      /\ next' = next + 1
      /\ IF FullEnough THEN io' = "write" ELSE UNCHANGED pos
    BY DEF CheckFlush, Flush, sbvars
<1>b. next \in Nat \ {0}
    BY DEF MenuInv, PlaceInv
<1>c. Upto = filenames[next] /\ Upto' = filenames[next]
    BY <1>a, <1>b DEF Upto, Reached
<1>d. Upto \in Int /\ 0 <= Upto /\ Upto <= NumNames
    BY <1>a, UptoType DEF MenuInv
<1>1. \A other \in MenuLines : ~(Upto < other /\ other <= Upto')
    BY <1>c, <1>d, MenuParts
<1>2. RoomInv'
  <2>1. CASE FullEnough
      BY <1>a, <2>1 DEF RoomInv
  <2>2. CASE ~FullEnough
    <3>1. FooterRoom(Upto)' = 0
        BY <1>c, <1>d, NamesAssumption DEF FooterRoom, Room
    <3>2. pos \in Nat /\ Length \in Nat /\ Leftover \in Nat
        BY LengthAssumption, NamesAssumption DEF MenuInv, SbInv, SbTypeOK
    <3>3. pos' <= Length - Leftover + 0
        BY <1>a, <2>2, <3>2 DEF FullEnough, Remaining
    <3> QED
        BY <1>a, <3>1, <3>3 DEF RoomInv
  <2> QED
      BY <2>1, <2>2
<1> QED
    BY <1>1, <1>2, <1>a, <1>c, <1>d, PassStep DEF MenuInv, SbInv, SbTypeOK

(* The names end, and the footer begins.                                   *)
LEMMA ListEndStep ==
    ASSUME MenuInv, ListEnds
    PROVE  TextHolds'
<1>a. /\ UNCHANGED <<input, unread, filenames, sbvars>>
      /\ pc = "list" /\ pc' = "footer" /\ next' = 1
      /\ next > Len(filenames) /\ io = "idle"
    BY DEF ListEnds, Passes
<1>b. Section(filenames, 1, NumNames) /\ next = Len(filenames) + 1
  <2>1. Section(filenames, 1, NumNames)
      BY <1>a DEF MenuInv, PlaceInv
  <2>2. Len(filenames) \in Nat /\ next \in Nat \ {0} /\ next <= Len(filenames) + 1
      BY <1>a, <2>1, LenProperties DEF Section, MenuInv, PlaceInv
  <2> QED
      BY <1>a, <2>1, <2>2
<1>c. /\ Upto \in Int /\ Upto <= NumNames
      /\ \A other \in MenuLines : ~(Upto < other /\ other <= NumNames)
    BY <1>a, <1>b, SectionEnd, UptoIs, NamesAssumption
<1>d. Upto' = NumNames
    BY <1>a, NamesAssumption DEF Upto, Reached
<1>1. RoomInv'
  <2>1. FooterRoom(Upto) = 0 /\ FooterRoom(Upto)' = 0 /\ HeaderRoom(-1)' = HeaderRoom(-1)
      BY <1>c, <1>d, NamesAssumption DEF FooterRoom, HeaderRoom, Room
  <2>2. ~failed => \/ pos <= HeaderRoom(-1) + FooterRoom(Upto)
                   \/ pos <= Length - Leftover + FooterRoom(Upto)
      BY <1>a DEF MenuInv, RoomInv
  <2> QED
      BY <1>a, <2>1, <2>2 DEF RoomInv, sbvars
<1> QED
    BY <1>1, <1>a, <1>c, <1>d, NamesAssumption, PassStep DEF sbvars, MenuInv, SbInv, SbTypeOK

(* The footer ends, and what is left is flushed.                           *)
LEMMA FooterEndStep ==
    ASSUME MenuInv, FooterEnds
    PROVE  TextHolds'
<1>a. /\ UNCHANGED <<input, unread, accepted, failed>> /\ pc = "footer" /\ pc' = "final"
      /\ next > Len(FooterLines)
    BY DEF FooterEnds, Passes, Flush
<1>b. next = Len(FooterLines) + 1
  <2>1. Len(FooterLines) \in Nat /\ next \in Nat \ {0} /\ next <= Len(FooterLines) + 1
      BY <1>a, PartsOfLines, LenProperties DEF MenuInv, PlaceInv
  <2> QED
      BY <1>a, <2>1
<1>c. /\ Upto \in Int /\ Upto <= NumNames + 2
      /\ \A other \in MenuLines : ~(Upto < other /\ other <= NumNames + 2)
    BY <1>a, <1>b, FooterSection, SectionEnd, UptoIs, NamesAssumption
<1>d. Upto' = NumNames + 2
    BY <1>a DEF Upto
<1>1. RoomInv'
    BY <1>a DEF RoomInv
<1> QED
    BY <1>1, <1>a, <1>c, <1>d, NamesAssumption, PassStep DEF MenuInv, SbInv, SbTypeOK

(* A flush goes on, or somebody removes a file.                            *)
LEMMA BesideStep ==
    ASSUME MenuInv,
           \/ FlushNext /\ UNCHANGED mainvars
           \/ \E n \in Names : Unlink(n)
           \/ UNCHANGED vars
    PROVE  TextHolds'
<1>a. /\ UNCHANGED <<pc, code, input, unread, filenames, next, accepted>> /\ (failed' \/ ~failed)
      /\ failed' => failed \/ FlushFails
    BY DEF FlushNext, WriteSome, WriteBlocks, PollReady, FlushFails, FlushDone, Unlink, mainvars,
           sbvars, vars, MenuInv, SbInv, SbTypeOK
<1>b. MenuLines' = MenuLines /\ HeaderLines' = HeaderLines /\ FooterLines' = FooterLines
    BY <1>a, SameMenu, SameLines
<1>c. Upto' = Upto /\ Upto \in Int
    BY <1>a, <1>b, UptoType DEF MenuInv, Upto, Reached
<1>1. Orderly(accepted, Upto)' /\ (Gapless(accepted) => Gapless(accepted)')
    BY <1>a, <1>b, <1>c DEF MenuInv, Orderly, Whole, Gapless, Has
<1>2. ASSUME ~failed'
      PROVE  RoomInv'
  <2>1. /\ HeaderRoom(Upto)' = HeaderRoom(Upto) /\ FooterRoom(Upto)' = FooterRoom(Upto)
        /\ HeaderRoom(-1)' = HeaderRoom(-1)
      BY <1>c DEF HeaderRoom, FooterRoom, Room
  <2>2. CASE FlushDone
    <3>1. pos' = 0 /\ HeaderRoom(Upto) \in Nat /\ HeaderRoom(-1) \in Nat
        BY <1>c, <2>2, HeaderBound DEF FlushDone
    <3>2. FooterRoom(Upto) \in Nat
      <4>1. Size[NumNames + 1] \in Nat /\ Size[NumNames + 2] \in Nat
          BY HeaderBound
      <4> QED
          BY <4>1 DEF FooterRoom, Room
    <3>3. 0 <= HeaderRoom(Upto) /\ 0 <= HeaderRoom(-1) + FooterRoom(Upto)
        BY <3>1, <3>2
    <3> QED
        BY <2>1, <3>1, <3>3 DEF RoomInv
  <2>3. CASE WriteBlocks \/ PollReady \/ FlushFails \/ \E n \in 1..Length : WriteSome(n)
    <3>1. io' # "idle"
        BY <1>2, <2>3 DEF WriteBlocks, PollReady, FlushFails, WriteSome
    <3> QED
        BY <3>1 DEF RoomInv
  <2>4. CASE UNCHANGED sbvars
      BY <1>2, <1>a, <2>1, <2>4 DEF sbvars, RoomInv, MenuInv
  <2> QED
      BY <2>2, <2>3, <2>4 DEF FlushNext, Unlink, vars
<1> QED
    BY <1>1, <1>2, <1>a DEF MenuInv, TextHolds, SbInv, SbTypeOK

(* The empty text.                                                         *)
LEMMA InitMenu == Init => MenuInv
<1> SUFFICES ASSUME Init PROVE MenuInv
    OBVIOUS
<1>1. SbInv
    BY InitInv DEF Init
<1>2. accepted = <<>> /\ Len(accepted) = 0 /\ filenames = <<>> /\ Len(filenames) = 0
    BY EmptySeq DEF Init, SbInit
<1>3. PlaceInv
  <2>1. NamesInv
      BY <1>2, EmptySeq DEF Init, NamesInv, Found
  <2> QED
      BY <2>1 DEF Init, SbInit, PlaceInv
<1>4. Upto = -5
    BY DEF Init, Upto
<1>5. Orderly(accepted, Upto)
    BY <1>2 DEF Orderly, Whole
<1>6. Gapless(accepted)
    BY <1>2, <1>4, MenuParts DEF Gapless
<1>7. RoomInv
  <2>1. HeaderRoom(Upto) \in Nat
      BY <1>4, HeaderBound
  <2> QED
      BY <2>1 DEF Init, SbInit, RoomInv
<1> QED
    BY <1>1, <1>3, <1>5, <1>6, <1>7 DEF MenuInv

(* A step keeps the invariant.                                             *)
LEMMA NextMenu == CollectInv /\ MenuInv /\ [Next]_vars => MenuInv'
<1> SUFFICES ASSUME CollectInv, MenuInv, [Next]_vars PROVE MenuInv'
    OBVIOUS
<1>1. SbInv'
    BY UsesBuffer, NextStep DEF MenuInv
<1>2. PlaceInv'
    BY PlaceStep DEF MenuInv
<1>3. TextHolds'
  <2>1. CASE OpenFails \/ Finish \/ \E n \in Names : StatFails(n)
    <3>1. /\ pc' = "exit" /\ UNCHANGED <<input, unread, sbvars>>
          /\ code' = "failure" \/ (code' # "failure" /\ pc = "final")
        BY <2>1 DEF OpenFails, Finish, StatFails, Exits
    <3> QED
        BY <3>1, ExitStep DEF sbvars
  <2>2. CASE Open \/ ReadEnds \/ \E n \in Names : Skip(n) \/ Collect(n) \/ NoMemory(n)
      BY <2>2, ReadStep
  <2>3. CASE PrintHeader \/ HeaderEnds
      BY <2>3, HeaderStep, HeaderEndStep
  <2>4. CASE CheckFlush \/ ListEnds \/ \E n \in Names : ListFile(n) \/ SkipFile(n)
      BY <2>4, FileStep, SkipStep, CheckStep, ListEndStep
  <2>5. CASE PrintFooter \/ FooterEnds
      BY <2>5, FooterStep, FooterEndStep
  <2>6. CASE (FlushNext /\ UNCHANGED mainvars) \/ (\E n \in Names : Unlink(n)) \/ UNCHANGED vars
      BY <2>6, BesideStep
  <2> QED
      BY <2>1, <2>2, <2>3, <2>4, <2>5, <2>6 DEF Next
<1> QED
    BY <1>1, <1>2, <1>3 DEF MenuInv, TextHolds

(* The peer has a part of the text from its beginning.                     *)
LEMMA WireIsPart ==
    ASSUME MenuInv
    PROVE  /\ Len(wire) \in Nat /\ Len(accepted) \in Nat /\ Len(wire) <= Len(accepted)
           /\ \A i \in 1..Len(wire) : wire[i] = accepted[i]
           /\ code = "success" /\ ~failed => Len(wire) = Len(accepted)
<1>1. Len(accepted) \in Nat /\ Len(wire) \in Nat /\ Unwritten \in Nat
    BY Lengths DEF MenuInv
<1>2. code = "success" /\ ~failed => Unwritten = 0
    BY DEF MenuInv, PlaceInv
<1> QED
    BY <1>1, <1>2 DEF MenuInv, SbInv, BufferHolds

(* A part of whole lines is of whole lines, but for the last.              *)
LEMMA ShowsWholeLines == MenuInv => WholeLines
<1> SUFFICES ASSUME MenuInv PROVE WholeLines
    OBVIOUS
<1>1. Whole(accepted)
    BY DEF MenuInv, Orderly
<1>2. wire # <<>> => Len(wire) # 0
    BY EmptySeq DEF MenuInv, SbInv, SbTypeOK
<1>3. wire # <<>> => accepted # <<>> /\ wire[1] = accepted[1]
  <2> SUFFICES ASSUME wire # <<>> PROVE accepted # <<>> /\ wire[1] = accepted[1]
      OBVIOUS
  <2>1. 1 \in 1..Len(wire) /\ Len(accepted) # 0
      BY <1>2, WireIsPart
  <2> QED
      BY <2>1, WireIsPart, EmptySeq
<1>4. ASSUME NEW i \in 1..Len(wire) - 1
      PROVE  /\ i \in 1..Len(accepted) - 1
             /\ wire[i] = accepted[i] /\ wire[i + 1] = accepted[i + 1]
    BY WireIsPart
<1> QED
    BY <1>1, <1>3, <1>4 DEF Whole, WholeLines

(* What is there of the menu has no gap.                                   *)
LEMMA ShowsListed == MenuInv => Listed
<1> SUFFICES ASSUME MenuInv PROVE Listed
    OBVIOUS
<1>1. Orderly(accepted, Upto)
    BY DEF MenuInv
<1>2. \A i \in 1..Len(wire) : i \in 1..Len(accepted) /\ wire[i] = accepted[i]
    BY WireIsPart
<1>3. \A i \in 1..Len(wire) : wire[i][1] \in MenuLines
    BY <1>1, <1>2 DEF Orderly
<1>0. Promised \subseteq MenuLines
    BY DEF Promised
<1>4. ASSUME ~failed, NEW line \in Promised,
             code = "success" \/ \E i \in 1..Len(wire) : wire[i][1] > line
      PROVE  Sent(line)
  <2>1. Gapless(accepted)
      BY <1>4 DEF MenuInv
  <2>2. line \in MenuLines /\ line \in Int
      BY <1>0, MenuParts
  <2>3. CASE code = "success"
    <3>1. pc = "exit"
        BY <2>3 DEF MenuInv, PlaceInv
    <3>2. line <= Upto
        BY <2>2, <3>1, MenuParts, UptoIs
    <3>3. Has(accepted, line)
        BY <2>1, <2>2, <2>3, <3>2 DEF Gapless
    <3> QED
        BY <1>4, <2>3, <3>3, WireIsPart DEF Has, Sent
  <2>4. CASE \E i \in 1..Len(wire) : wire[i][1] > line
    <3>1. PICK i \in 1..Len(wire) : wire[i][1] > line
        BY <2>4
    <3>2. i \in 1..Len(accepted) /\ accepted[i][1] > line
        BY <1>2, <3>1
    <3>3. PICK k \in 1..Len(accepted) : accepted[k] = <<line, Size[line]>>
        BY <2>1, <2>2, <3>2 DEF Gapless, Has
    <3>4. accepted[k][1] = line /\ accepted[i][1] \in Int
        BY <1>1, <3>2, <3>3, MenuParts DEF Orderly
    <3>5. ~(i < k) /\ i # k
        BY <1>1, <2>2, <3>2, <3>4 DEF Orderly
    <3>6. k \in 1..Len(wire)
        BY <3>5, WireIsPart
    <3> QED
        BY <3>3, <3>6, WireIsPart DEF Sent
  <2> QED
      BY <1>4, <2>3, <2>4
<1> QED
    BY <1>3, <1>4 DEF Listed

(* The peer is sent whole lines in order, for directories of any size,     *)
(* lines of any length that fit the buffer, and whatever fails.            *)
THEOREM AlwaysWholeLines == Spec => []WholeLines
  BY InitCollect, NextCollect, InitMenu, NextMenu, ShowsWholeLines, PTL DEF Spec

(* They are of the header, the footer and the names readdir returned, and  *)
(* no promised one of these is left out before a line that was sent, nor   *)
(* at all if the program exits with success, unless a flush has failed;    *)
(* for directories of any size, wherever readdir ends.                     *)
THEOREM AlwaysListed == Spec => []Listed
  BY InitCollect, NextCollect, InitMenu, NextMenu, ShowsListed, PTL DEF Spec

(* The array of names holds names, sorted or not, and what was removed had *)
(* a name.                                                                 *)
NamesTyped ==
    /\ input \in [dir : [Names -> Kinds], query : BOOLEAN, parent : BOOLEAN]
    /\ gone \subseteq Names
    /\ filenames \in Seq(Names)

(* qsort leaves names in the array.                                        *)
LEMMA SortedTyped ==
    ASSUME Section(Sorted, 1, NumNames)
    PROVE  Sorted \in Seq(Names)
<1> DEFINE s == Sorted
<1>1. s \in Seq(Lines) /\ \A i \in 1..Len(s) : 1 <= s[i] /\ s[i] <= NumNames
    BY DEF Section
<1> HIDE DEF s
<1>2. Len(s) \in Nat /\ s \in [1..Len(s) -> Lines]
    BY <1>1, LenProperties
<1>3. ASSUME NEW i \in 1..Len(s) PROVE s[i] \in Names
  <2>1. s[i] \in Int /\ 1 <= s[i] /\ s[i] <= NumNames
      BY <1>1, <1>2, NamesAssumption DEF Lines
  <2> QED
      BY <2>1, NamesAssumption DEF Names
<1>4. s \in [1..Len(s) -> Names]
    BY <1>2, <1>3
<1>5. s \in Seq(Names)
    BY <1>2, <1>4
<1> QED
    BY <1>5 DEF s

(* A step keeps the types of the names.                                    *)
LEMMA NamesStep == PlaceInv /\ NamesTyped /\ [Next]_vars => NamesTyped'
<1> SUFFICES ASSUME PlaceInv, NamesTyped, [Next]_vars PROVE NamesTyped'
    OBVIOUS
<1>1. UNCHANGED input
    BY SameInput
<1>2. gone' \subseteq Names /\ filenames' \in Seq(Names)
  <2>1. ASSUME NEW n \in Names, Collect(n) \/ NoMemory(n)
        PROVE  gone' \subseteq Names /\ filenames' \in Seq(Names)
    <3>1. filenames' = Append(filenames, n) /\ UNCHANGED gone
        BY <2>1 DEF Collect, NoMemory
    <3> QED
        BY <3>1, AppendProperties DEF NamesTyped
  <2>2. CASE ReadEnds
    <3>1. NamesInv /\ filenames' = Sorted /\ UNCHANGED gone
        BY <2>2 DEF ReadEnds, PlaceInv
    <3>2. Sorted \in Seq(Names)
        BY <3>1, SortedNames, SortedTyped
    <3> QED
        BY <3>1, <3>2 DEF NamesTyped
  <2>3. ASSUME NEW n \in Names, Unlink(n)
        PROVE  gone' \subseteq Names /\ filenames' \in Seq(Names)
      BY <2>3 DEF Unlink, NamesTyped
  <2>4. CASE UNCHANGED <<gone, filenames>>
      BY <2>4 DEF NamesTyped
  <2>5. \/ \E n \in Names : Collect(n) \/ NoMemory(n) \/ Unlink(n)
        \/ ReadEnds
        \/ UNCHANGED <<gone, filenames>>
      BY DEF Next, vars, mainvars, Open, OpenFails, Skip, PrintHeader, HeaderEnds, StatFails,
             ListFile, SkipFile, CheckFlush, ListEnds, PrintFooter, FooterEnds, Finish, Prints,
             Passes
  <2> QED
      BY <2>1, <2>2, <2>3, <2>4, <2>5
<1> QED
    BY <1>1, <1>2 DEF NamesTyped

(* The variables keep their types: the positions stay within the buffer,   *)
(* and the array holds names only.                                         *)
THEOREM ListerTypeCorrect == Spec => []TypeOK
<1>1. Init => NamesTyped
  <2>1. <<>> \in Seq(Names)
      BY EmptySeq
  <2> QED
      BY <2>1 DEF Init, NamesTyped
<1>2. MenuInv /\ NamesTyped /\ [Next]_vars => NamesTyped'
    BY NamesStep DEF MenuInv
<1>3. CollectInv /\ MenuInv /\ NamesTyped => TypeOK
    BY DEF CollectInv, MenuInv, PlaceInv, SbInv, NamesTyped, TypeOK
<1> QED
    BY InitCollect, NextCollect, InitMenu, NextMenu, <1>1, <1>2, <1>3, PTL DEF Spec
=============================================================================
