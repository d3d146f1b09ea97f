--------------------------- MODULE KeywordSearch ---------------------------
(***************************************************************************)
(* The keyword mode of log_grep: an index of the terms of each line of a   *)
(* window, and the answer to a request for lines with all of its terms.    *)
(*                                                                         *)
(* A line is a non-empty sequence of characters, some of them              *)
(* alphanumeric.  There is no white space and none of the punctuation that *)
(* makes key/value pairs and tokens of gaze: a line is one chunk.          *)
(***************************************************************************)
EXTENDS Positions

CONSTANT Alphanumeric

\* collect_keyword_segments: the longest runs of alphanumeric characters.
Segments(line) ==
    LET Word(k) == k \in DOMAIN line /\ line[k] \in Alphanumeric
        runs == {r \in (DOMAIN line) \X (DOMAIN line) :
                    /\ r[1] <= r[2] /\ \A k \in r[1] .. r[2] : Word(k)
                    /\ ~Word(r[1] - 1) /\ ~Word(r[2] + 1)}
    IN  {SubSeq(line, r[1], r[2]) : r \in runs}

\* indexed_line_terms: the chunk itself and its segments.
IndexedLineTerms(line) == {line} \cup Segments(line)

\* KeywordIndex::build: the lines of a term, in order.
Postings(lines, term) == InOrder({k \in DOMAIN lines : term \in IndexedLineTerms(lines[k])})

\* One turn of the loop of intersect_sorted: of two cursors, the one on the
\* smaller line moves, or both.
Advance(left, right, c) ==
    IF c.left > Len(left) \/ c.right > Len(right) THEN c
    ELSE IF left[c.left] < right[c.right] THEN [c EXCEPT !.left = c.left + 1]
    ELSE IF left[c.left] > right[c.right] THEN [c EXCEPT !.right = c.right + 1]
    ELSE [left |-> c.left + 1, right |-> c.right + 1, out |-> Append(c.out, left[c.left])]

\* intersect_sorted: every turn moves a cursor, so that the loop is over after
\* as many turns as there are lines.
IntersectSorted(left, right) ==
    LET after[n \in 0 .. Len(left) + Len(right)] ==
            IF n = 0 THEN [left |-> 1, right |-> 1, out |-> <<>>]
            ELSE Advance(left, right, after[n - 1])
    IN  after[Len(left) + Len(right)].out

\* KeywordIndex::matching_lines
MatchingLines(lines, terms) ==
    LET upTo[n \in 1 .. Len(terms)] ==
            IF n = 1 THEN Postings(lines, terms[1])
            ELSE IntersectSorted(upTo[n - 1], Postings(lines, terms[n]))
    IN  upTo[Len(terms)]

\* The level of a request as a word of the line; <<>> if it has none.
HasLevel(line, level) == level = <<>> \/ level \in Segments(line)

\* keyword_status
KeywordStatus(matched, truncated) ==
    CASE matched = 0 /\ truncated = {} -> "no_matches"
      [] matched = 0 /\ truncated # {} -> "no_matches_truncated"
      [] matched # 0 /\ truncated # {} -> "truncated"
      [] matched # 0 /\ truncated = {} -> "matches"

\* filter_keyword_indexed_window: all matches are counted, the first `limit`
\* of them returned, and what was cut from the window stays reported.
FilterKeyword(fetched, request) ==
    LET lines == MatchingLines(fetched.lines, request.terms)
        matched == Pick(lines, {k \in DOMAIN lines : HasLevel(fetched.lines[lines[k]], request.level)})
        n == IF request.limit < Len(matched) THEN request.limit ELSE Len(matched)
        truncated == fetched.truncated \cup (IF Len(matched) > n THEN {"rows"} ELSE {})
    IN  [lines |-> [i \in 1 .. n |-> fetched.lines[matched[i]]],
         truncated |-> truncated,
         status |-> KeywordStatus(Len(matched), truncated)]
=============================================================================
