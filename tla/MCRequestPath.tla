---------------------------- MODULE MCRequestPath -----------------------------
(* Instances of RequestPath for TLC.                                       *)
EXTENDS RequestPath, TLC

(* Buffers that end in a CRLF with the longest selectors there is room     *)
(* for, others with tabs and NULs in all places, and buffers in which the  *)
(* CRLF is elsewhere or missing.                                           *)
ShortRequests ==
    LET Ended(S, n) == {s \o <<"cr", "lf">> : s \in BoundedSeq(S, n)} IN
    Ended({"/", ".", "a"}, MaxRequest - 2)
        \cup Ended({"/", ".", "a", "tab", "nul"}, MaxRequest - 4)
        \cup BoundedSeq({"/", "a", "tab", "cr", "lf"}, MaxRequest - 4)

(* A plain name and one with a suffix.                                     *)
ShortNames == {<<"a">>, <<"a", ".", "a">>}
=============================================================================
