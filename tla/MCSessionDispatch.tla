------------------------- MODULE MCSessionDispatch -------------------------
(* Two calls of one session: every interleaving of their tasks             *)
(* and of their snapshot jobs, with failures, exits and power losses.  The *)
(* first is on a tunnelled database and may hang; a second thread is left. *)
EXTENDS SessionDispatch, TLC

CONSTANTS c1, c2, s1

TwoCalls == {c1, c2}
FirstCall == {c1}
OneSession == {s1}
AllOnOneSession == [c \in Calls |-> s1]

CallSymmetry == Permutations(Calls)
=============================================================================
