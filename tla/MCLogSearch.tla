---------------------------- MODULE MCLogSearch ----------------------------
(* Keyword and regex calls on one profile, with a clock long enough for an *)
(* entry of each cache to expire once after the other was filled from it.  *)
EXTENDS LogSearch, TLC

CONSTANTS k1, k2, g1

TwoKeyword == {k1, k2}
OneRegex == {g1}
CallSymmetry == Permutations(KeywordCalls) \cup Permutations(RegexCalls)
=============================================================================
