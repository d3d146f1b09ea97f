----------------------------- MODULE MCLogTail -----------------------------
(***************************************************************************)
(* Logs of up to five bytes that grow to seven, chunks of two bytes, a cap *)
(* of three: newlines fall on both sides of a chunk, the window is cut by  *)
(* the cap, in the middle of a character too, and the byte that decides    *)
(* about truncation may arrive while the log is read.                      *)
(* Keyword requests have one term, two, or a term and a level.             *)
(***************************************************************************)
EXTENDS LogTail

MCLogs == {s \in UNION {[1 .. n -> Bytes] : n \in 0 .. 5} :
             \A i \in 1 .. Len(s) : s[i] = "lo" <=> i > 1 /\ s[i - 1] = "hi"}

MCPatterns ==
    {[terms |-> << <<"a">> >>, level |-> <<>>],
     [terms |-> << <<"a">>, <<"a", "?">> >>, level |-> <<>>],
     [terms |-> << <<"e">> >>, level |-> <<"e">>]}
=============================================================================
