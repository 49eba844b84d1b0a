------------------------------ MODULE Gopherlist ------------------------------
(***************************************************************************)
(* gopherlist.c: the CGI program that lists a directory. It collects the   *)
(* names readdir returns, sorts them, and prints a line for each of them   *)
(* into an sbuffer, between a header and a footer. Somebody may remove     *)
(* files meanwhile, and readdir and the descriptor may fail at any time.   *)
(*                                                                         *)
(* A line is its kind, or the name it is for; a character is a line and a  *)
(* place in it. Names are numbers, in the order of strcmp.                 *)
(***************************************************************************)
EXTENDS Sbuffer, SequencesExt

CONSTANTS NumNames,  \* how many entries a directory may have
          Start,     \* NUM_FILENAMES
          Leftover,  \* BUFFER_LEFTOVER
          Size       \* how long each line is

Names == 1..NumNames
Lines == -4..NumNames + 2 \ {0}

(* A plain name is that of a file or of a directory the server would       *)
(* serve; a private one is of one it would refuse, by its permissions,     *)
(* which the program does not look at.                                     *)
Kinds == {"hidden", "unmatched", "plain", "private", "other"}

(* A line, the header with the first line, and the footer fit the buffer   *)
(* where the program relies on it.                                         *)
ASSUME NamesAssumption == NumNames \in Nat /\ Start \in Nat \ {0} /\ Leftover \in 1..Length
ASSUME SizeAssumption ==
    /\ Size \in [Lines -> Nat \ {0}]
    /\ \A n \in Names : /\ Size[n] < Leftover
                        /\ Size[-4] + Size[-3] + Size[-2] + Size[-1] + Size[n] < Length
    /\ Size[NumNames + 1] + Size[NumNames + 2] < Leftover
    /\ Size[-4] + Size[-3] + Size[-2] + Size[-1]
         + Size[NumNames + 1] + Size[NumNames + 2] < Length
ASSUME UnitsAssumption == \A l \in Lines : \A i \in 1..Size[l] : <<l, i>> \in Units

VARIABLES
    pc,         \* where main is
    code,       \* what it has called exit() with
    input,      \* the directory, and whether there are a query and a parent
    unread,     \* the entries readdir has not returned
    gone,       \* the files that were removed after that, or links to nothing
    filenames,
    capacity,   \* filenames_size
    next        \* the line to be printed, of the header, filenames or footer

mainvars == <<pc, code, input, unread, gone, filenames, capacity, next>>
vars == <<mainvars, sbvars>>

(* The types of the variables.                                             *)
TypeOK ==
    /\ SbTypeOK
    /\ pc \in {"start", "read", "header", "list", "check", "footer", "final", "exit"}
    /\ code \in {"none", "success", "failure"}
    /\ input \in [dir : [Names -> Kinds], query : BOOLEAN, parent : BOOLEAN]
    /\ unread \subseteq Names
    /\ gone \subseteq Names
    /\ filenames \in Seq(Names)
    /\ capacity \in Nat
    /\ next \in Nat \ {0}

Init ==
    /\ SbInit
    /\ pc = "start"
    /\ code = "none"
    /\ input \in [dir : [Names -> Kinds], query : BOOLEAN, parent : BOOLEAN]
    /\ unread = Names
    /\ gone = {}
    /\ filenames = <<>>
    /\ capacity = Start
    /\ next = 1

Text(line) == [i \in 1..Size[line] |-> <<line, i>>]

(* What of the header (title, query, blank, parent) and of the footer      *)
(* (count, end) is printed.                                                *)
If(wanted, line) == IF wanted THEN <<line>> ELSE <<>>

HeaderLines == <<-4>> \o If(input.query, -3) \o <<-2>> \o If(input.parent, -1)

FooterLines == If(input.query, NumNames + 1) \o <<NumNames + 2>>

(* A name that is hidden, or does not match the query, is not collected.   *)
Collected(n) ==
    /\ input.dir[n] # "hidden"
    /\ input.query => input.dir[n] # "unmatched"

Exits(c) == pc' = "exit" /\ code' = c

(* calloc or opendir fails, or both succeed.                               *)
Open ==
    /\ pc = "start"
    /\ pc' = "read"
    /\ UNCHANGED <<code, input, unread, gone, filenames, capacity, next, sbvars>>

OpenFails ==
    /\ pc = "start"
    /\ Exits("failure")
    /\ UNCHANGED <<input, unread, gone, filenames, capacity, next, sbvars>>

(* Mutant: the list grows when it has overflown.                           *)
FullLate(list) == Len(list) > capacity

Full(list) == Len(list) = capacity

Skip(n) ==
    /\ pc = "read"
    /\ n \in unread
    /\ ~Collected(n)
    /\ unread' = unread \ {n}
    /\ UNCHANGED <<pc, code, input, gone, filenames, capacity, next, sbvars>>

Collect(n) ==
    /\ pc = "read"
    /\ n \in unread
    /\ Collected(n)
    /\ unread' = unread \ {n}
    /\ filenames' = Append(filenames, n)
    /\ capacity' = IF Full(filenames') THEN 2 * capacity ELSE capacity
    /\ UNCHANGED <<pc, code, input, gone, next, sbvars>>

(* reallocarray fails.                                                     *)
NoMemory(n) ==
    /\ pc = "read"
    /\ n \in unread
    /\ Collected(n)
    /\ Full(Append(filenames, n))
    /\ Exits("failure")
    /\ unread' = unread \ {n}
    /\ filenames' = Append(filenames, n)
    /\ UNCHANGED <<input, gone, capacity, next, sbvars>>

(* Mutant: the names are listed as readdir returned them.                  *)
Unsorted == filenames

(* qsort, of names that are all different.                                 *)
Sorted ==
    CHOOSE list \in [1..Len(filenames) -> Range(filenames)] :
        \A i, j \in 1..Len(filenames) : i < j => list[i] < list[j]

(* readdir returns NULL at the end of the directory or because it fails,   *)
(* and nobody asks which: names may be left that it never returns.         *)
ReadEnds ==
    /\ pc = "read"
    /\ filenames' = Sorted
    /\ pc' = "header"
    /\ UNCHANGED <<code, input, unread, gone, capacity, next, sbvars>>

(* The next of some lines is printed, or there is none left.               *)
Prints(lines) ==
    /\ next <= Len(lines)
    /\ Push(Text(lines[next]))
    /\ next' = next + 1
    /\ UNCHANGED <<pc, code, input, unread, gone, filenames, capacity>>

Passes(lines, step) ==
    /\ next > Len(lines)
    /\ next' = 1
    /\ pc' = step
    /\ UNCHANGED <<code, input, unread, gone, filenames, capacity>>

PrintHeader == pc = "header" /\ Prints(HeaderLines)

HeaderEnds == pc = "header" /\ Passes(HeaderLines, "list") /\ UNCHANGED sbvars

(* stat, for the next name.                                                *)
Stats(n) ==
    /\ pc = "list"
    /\ io = "idle"
    /\ next <= Len(filenames)
    /\ n = filenames[next]

StatFails(n) ==
    /\ Stats(n)
    /\ n \in gone
    /\ Exits("failure")
    /\ UNCHANGED <<input, unread, gone, filenames, capacity, next, sbvars>>

ListFile(n) ==
    /\ Stats(n)
    /\ n \notin gone
    /\ input.dir[n] # "other"
    /\ Push(Text(n))
    /\ pc' = "check"
    /\ UNCHANGED <<code, input, unread, gone, filenames, capacity, next>>

SkipFile(n) ==
    /\ Stats(n)
    /\ n \notin gone
    /\ input.dir[n] = "other"
    /\ next' = next + 1
    /\ UNCHANGED <<pc, code, input, unread, gone, filenames, capacity, sbvars>>

(* Mutant: there is no check whether the buffer is full enough.            *)
NeverFull == FALSE

FullEnough == Remaining < Leftover

(* sbuffer_checkflush, whose result is ignored.                            *)
CheckFlush ==
    /\ pc = "check"
    /\ IF FullEnough THEN Flush ELSE UNCHANGED sbvars
    /\ pc' = "list"
    /\ next' = next + 1
    /\ UNCHANGED <<code, input, unread, gone, filenames, capacity>>

ListEnds == pc = "list" /\ io = "idle" /\ Passes(filenames, "footer") /\ UNCHANGED sbvars

PrintFooter == pc = "footer" /\ Prints(FooterLines)

FooterEnds == pc = "footer" /\ Passes(FooterLines, "final") /\ Flush

Finish ==
    /\ pc = "final"
    /\ io = "idle"
    /\ Exits("success")
    /\ UNCHANGED <<input, unread, gone, filenames, capacity, next, sbvars>>

(* Before readdir returns it, a file is removed as if it had never been.   *)
Unlink(n) ==
    /\ pc # "exit"
    /\ n \notin unread
    /\ gone' = gone \cup {n}
    /\ UNCHANGED <<pc, code, input, unread, filenames, capacity, next, sbvars>>

Next ==
    \/ Open \/ OpenFails
    \/ \E n \in Names : Skip(n) \/ Collect(n) \/ NoMemory(n)
    \/ ReadEnds \/ PrintHeader \/ HeaderEnds
    \/ \E n \in Names : StatFails(n) \/ ListFile(n) \/ SkipFile(n)
    \/ CheckFlush \/ ListEnds \/ PrintFooter \/ FooterEnds \/ Finish
    \/ FlushNext /\ UNCHANGED mainvars
    \/ \E n \in Names : Unlink(n)

Spec == Init /\ [][Next]_vars

(***************************************************************************)
(* Properties.                                                             *)
(***************************************************************************)

(* While names are collected there is a place for the next one: the array  *)
(* doubles in time (gopherlist.c:168-185).                                 *)
StoredWithin == pc \in {"start", "read"} => Len(filenames) < capacity

(* What the header and the footer consist of and, of the names readdir has *)
(* returned, those that match and are of a file or a directory.            *)
MenuLines ==
    {-4, -2, NumNames + 2}
      \cup (IF input.query THEN {-3, NumNames + 1} ELSE {})
      \cup (IF input.parent THEN {-1} ELSE {})
      \cup {n \in Names \ unread : Collected(n) /\ input.dir[n] # "other"}

(* Of these, what the menu must show. src/README.md:80 says that private   *)
(* files are not listed; the program has no such test.                     *)
Promised == {line \in MenuLines : line \in Names => input.dir[line] # "private"}

(* The peer has a line, to its last character.                             *)
Sent(line) == \E i \in 1..Len(wire) : wire[i] = <<line, Size[line]>>

(* The peer is sent only lines of the header and the footer and of names   *)
(* that readdir returned, match, and are of files or directories. Unless a *)
(* flush has failed, it is sent all the promised ones of them that come    *)
(* before a line it was sent, and all there are if the program exits with  *)
(* success: no line is dropped for want of room, and a file that has       *)
(* vanished cuts the menu short but takes nothing out of its middle. It    *)
(* does not say that success means the whole directory: after an error of  *)
(* readdir it does not (gopherlist.c:142). That lines are whole and in     *)
(* order says WholeLines (gopherlist.c:191-299).                           *)
Listed ==
    /\ \A i \in 1..Len(wire) : wire[i][1] \in MenuLines
    /\ ~failed => \A line \in Promised :
         code = "success" \/ (\E i \in 1..Len(wire) : wire[i][1] > line) => Sent(line)

(* Whatever fails, the peer never sees a part of a line with another line  *)
(* behind it, nor a line twice or before its turn (sbuffer.c:29-36).       *)
WholeLines ==
    /\ wire # <<>> => wire[1][2] = 1
    /\ \A i \in 1..Len(wire) - 1 :
         \/ wire[i + 1] = <<wire[i][1], wire[i][2] + 1>>
         \/ /\ wire[i][2] = Size[wire[i][1]]
            /\ wire[i + 1][1] > wire[i][1]
            /\ wire[i + 1][2] = 1
=============================================================================
