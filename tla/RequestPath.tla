------------------------------ MODULE RequestPath ------------------------------
(***************************************************************************)
(* server.c, the middle of client_socket: what is in the buffer of a       *)
(* client is cut into a selector and a query, and the selector is copied,  *)
(* component by component, into a path relative to the content directory.  *)
(* What a CGI program is told of the request comes from that path; the     *)
(* links gopherlist makes of it come back as requests.                     *)
(*                                                                         *)
(* One behaviour is one request. A character is a letter or one of those   *)
(* the code looks for.                                                     *)
(***************************************************************************)
EXTENDS Integers, Sequences, FiniteSetsExt, SequencesExt

CONSTANTS MaxRequest,  \* MAX_REQUEST_SIZE
          Letters,     \* characters nothing looks for
          Requests,    \* what read may have left in the buffer
          Names        \* names of files that a menu may hold

(* Mutant: no room for the slash behind a directory.                       *)
MaxFilenameShort == MaxRequest - 2 + 3

(* MAX_FILENAME_SIZE.                                                      *)
MaxFilename == MaxRequest - 2 + 4

Chars == Letters \cup {"/", ".", "tab", "cr", "lf", "nul"}

ASSUME MaxAssumption == MaxRequest \in Nat /\ MaxRequest >= 2
ASSUME LettersAssumption == {"/", ".", "tab", "cr", "lf", "nul"} \cap Letters = {}
ASSUME RequestsAssumption ==
    \A r \in Requests : r \in Seq(Chars) /\ Len(r) <= MaxRequest
(* What files are called. gopherlist prints a name as it is: one with a    *)
(* tab, a CR or an LF makes a line that a client cannot read back, and is  *)
(* left out.                                                               *)
ASSUME NamesAssumption ==
    \A name \in Names : /\ name \in Seq(Letters \cup {"."})
                        /\ name # <<>>
                        /\ name[1] # "."

VARIABLES
    pc,            \* parse, copy, open; then how the request has ended:
                   \* bad, forbidden, missing, or the kind of what is served
    request,       \* client->buffer, client->count
    selectorSize,
    query,
    pos,           \* str_pos, counted from the start of the buffer
    filename       \* what was written to filename, up to filename_end

vars == <<pc, request, selectorSize, query, pos, filename>>

(* The types of the variables.                                             *)
TypeOK ==
    /\ pc \in {"parse", "copy", "open", "bad", "forbidden", "missing", "file", "directory"}
    /\ request \in Seq(Chars)
    /\ selectorSize \in Nat
    /\ query \in Seq(Chars)
    /\ pos \in Nat
    /\ filename \in Seq(Chars)

Init ==
    /\ pc = "parse"
    /\ request \in Requests
    /\ selectorSize = 0
    /\ query = <<>>
    /\ pos = 0
    /\ filename = <<".">>

Earliest(i, S) == i \in S /\ \A j \in S : i <= j

Crlfs == {i \in 1..Len(request) - 1 : request[i] = "cr" /\ request[i + 1] = "lf"}

NoCrlf ==
    /\ pc = "parse"
    /\ Crlfs = {}
    /\ pc' = "bad"
    /\ UNCHANGED <<request, selectorSize, query, pos, filename>>

TabsBefore(crlf) == {i \in 1..crlf - 1 : request[i] = "tab"}

Parse(crlf) ==
    /\ pc = "parse"
    /\ Earliest(crlf, Crlfs)
    /\ \/ /\ TabsBefore(crlf) = {}
          /\ selectorSize' = crlf - 1
          /\ query' = <<>>
       \/ \E tab \in 1..crlf - 1 :
            /\ Earliest(tab, TabsBefore(crlf))
            /\ selectorSize' = tab - 1
            /\ query' = SubSeq(request, tab + 1, crlf - 1)
    /\ pc' = IF selectorSize' > 0 THEN "copy" ELSE "open"
    /\ UNCHANGED <<request, pos, filename>>

(* Mutant: only the parent directory is refused.                           *)
HiddenParent(component) == component = <<".", ".">>

Hidden(component) == component # <<>> /\ Head(component) = "."

(* Mutant: redundant slashes are copied.                                   *)
ExtendedAlways(component) == filename \o <<"/">> \o component

Extended(component) ==
    IF component = <<>> THEN filename ELSE filename \o <<"/">> \o component

Slashes == {i \in pos + 1..selectorSize : request[i] = "/"}

(* One turn of the loop, with the part of the selector from pos to the     *)
(* next slash.                                                             *)
CopyUpTo(slash) ==
    /\ pc = "copy"
    /\ Earliest(slash, Slashes)
    /\ LET component == SubSeq(request, pos + 1, slash - 1) IN
         IF Hidden(component)
           THEN pc' = "forbidden" /\ UNCHANGED <<pos, filename>>
           ELSE /\ filename' = Extended(component)
                /\ pos' = slash
                /\ UNCHANGED pc
    /\ UNCHANGED <<request, selectorSize, query>>

CopyLast ==
    /\ pc = "copy"
    /\ Slashes = {}
    /\ LET component == SubSeq(request, pos + 1, selectorSize) IN
         IF Hidden(component)
           THEN pc' = "forbidden" /\ UNCHANGED filename
           ELSE filename' = Extended(component) /\ pc' = "open"
    /\ UNCHANGED <<request, selectorSize, query, pos>>

(* A character array as a C string.                                        *)
CString(s) == SubSeq(s, 1, Min({i \in 1..Len(s) : s[i] = "nul"} \cup {Len(s) + 1}) - 1)

(* openat and fstat, on the path as the system sees it.                    *)
OpenFile ==
    /\ pc = "open"
    /\ CString(filename) # <<".">>
    /\ Last(CString(filename)) # "/"
    /\ pc' = "file"
    /\ UNCHANGED <<request, selectorSize, query, pos, filename>>

OpenDirectory ==
    /\ pc = "open"
    /\ pc' = "directory"
    /\ filename' = filename \o <<"/">>
    /\ UNCHANGED <<request, selectorSize, query, pos>>

OpenFails ==
    /\ pc = "open"
    /\ pc' = "missing"
    /\ UNCHANGED <<request, selectorSize, query, pos, filename>>

Next ==
    \/ NoCrlf \/ \E crlf \in 1..Len(request) : Parse(crlf)
    \/ \E slash \in 1..Len(request) : CopyUpTo(slash)
    \/ CopyLast \/ OpenFile \/ OpenDirectory \/ OpenFails

Spec == Init /\ [][Next]_vars

(***************************************************************************)
(* What an executable is told, and what gopherlist makes of it.            *)
(***************************************************************************)
SlashesIn(s) == {i \in 1..Len(s) : s[i] = "/"}

(* Everything before the last slash: the directory a program is run in, if *)
(* it was asked for by its own name.                                       *)
Pathname(path) == SubSeq(path, 1, Max(SlashesIn(path)) - 1)

ScriptName == CString(Tail(filename))

(* Mutant: the name follows the whole selector.                            *)
LinkBehind(name) == ScriptName \o name

(* The selector of an entry of the menu.                                   *)
Link(name) == Pathname(ScriptName) \o <<"/">> \o name

(* The selector of the parent directory, if there is a second last slash.  *)
HasParent == Cardinality(SlashesIn(ScriptName)) > 1

Parent == Pathname(Pathname(ScriptName)) \o <<"/">>

(***************************************************************************)
(* Properties.                                                             *)
(***************************************************************************)

(* What is written to filename, with its terminator, fits the buffer: also *)
(* the longest request without a slash in front, for a directory           *)
(* (server.c:83-85, 297-345, 436).                                         *)
FitsBuffer == Len(filename) + 1 <= MaxFilename

(* The path leads down from the content directory at every moment: it      *)
(* starts with a period, and no slash is followed by a slash or a period   *)
(* (server.c:302-345).                                                     *)
Relative ==
    /\ filename[1] = "."
    /\ \A i \in 1..Len(filename) - 1 : filename[i] = "/" => filename[i + 1] \notin {"/", "."}

(* The selector by definition: what precedes the first tab or CRLF.        *)
Selector ==
    SubSeq(request, 1, Min({i \in 1..Len(request) : request[i] = "tab"} \cup Crlfs) - 1)

(* A selector with a slash in front of it, without the slashes that no     *)
(* component follows, is a path but for the period the path starts with.   *)
Slashed(selector) == <<"/">> \o selector

Kept(s) == {i \in 1..Len(s) : s[i] = "/" => i < Len(s) /\ s[i + 1] # "/"}

LeadsTo(selector, path) ==
    LET s == Slashed(selector)
    IN /\ path[1] = "."
       /\ Len(path) = 1 + Cardinality(Kept(s))
       /\ \A i \in Kept(s) : path[1 + Cardinality(Kept(s) \cap 1..i)] = s[i]

(* Some component of a selector starts with a period.                      *)
Hides(selector) ==
    LET s == Slashed(selector)
    IN \E i \in 1..Len(s) - 1 : s[i] = "/" /\ s[i + 1] = "."

(* The loop computes what a look at the whole selector would: a request is *)
(* forbidden if and only if some component is hidden, in whatever place,   *)
(* and otherwise the path is made of its components (server.c:257-345).    *)
PathCorrect ==
    /\ pc = "forbidden" => Hides(Selector)
    /\ pc \in {"open", "missing", "file"} => ~Hides(Selector) /\ LeadsTo(Selector, filename)
    /\ pc = "directory" => /\ ~Hides(Selector)
                           /\ Last(filename) = "/"
                           /\ LeadsTo(Selector, Front(filename))

(* The links of a menu lead back where they should: an entry to that name  *)
(* in the directory gopherlist runs in, whether it was asked for as an     *)
(* index file or by its own name, and the parent link to the directory     *)
(* above. Left out are selectors with a NUL, which hides what is behind it *)
(* from the program, names with a tab, a CR or an LF, which the program    *)
(* lists although their links cannot be read back (NamesAssumption), and   *)
(* the length of a link, which may exceed what the server reads            *)
(* (server.c:436, 459-500; gopherlist.c:91-113, 184-187, 263).             *)
LinksReopen ==
    pc \in {"file", "directory"} /\ "nul" \notin Range(filename) =>
    LET here == Pathname(filename)
        Reopens(selector, path) == ~Hides(selector) /\ LeadsTo(selector, path)
    IN /\ \A name \in Names : Reopens(Link(name), here \o <<"/">> \o name)
       /\ HasParent <=> here # <<".">>
       /\ HasParent => Reopens(Parent, Pathname(here))

(***************************************************************************)
(* Why FitsBuffer and Relative hold: the inductive invariant.              *)
(***************************************************************************)

(* A component and the slash in front of it are no longer than what was    *)
(* read of the selector, but for the first, which may have no slash.       *)
BoundInv ==
    /\ pc = "parse" => pos = 0 /\ filename = <<".">>
    /\ pc = "copy" => /\ selectorSize <= Len(request) /\ selectorSize <= MaxRequest - 2
                      /\ pos <= selectorSize
                      /\ Len(filename) <= pos + 1
    /\ pc \notin {"parse", "copy"} => Len(filename) <= MaxRequest + 1
    /\ pc = "open" => Len(filename) <= MaxRequest

SlashInv == Len(filename) >= 1 /\ (pc # "directory" => filename[Len(filename)] # "/")

PathInv == TypeOK /\ Len(request) <= MaxRequest /\ BoundInv /\ Relative /\ SlashInv
=============================================================================
