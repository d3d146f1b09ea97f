---------------------------- MODULE MCAuditStore ----------------------------
(* One session with calls in flight, the sweeps of two later processes and *)
(* a replay, all on the same manifest and snapshot directory.              *)
EXTENDS AuditStore, TLC

CONSTANTS c1, c2, s1, s2, s3, r1

TwoCalls == {c1, c2}
ThreeSessions == {s1, s2, s3}
OneReplayer == {r1}
AllOnFirst == [c \in Calls |-> s1]
ReplayFirst == [r \in Replayers |-> s1]

AllSymmetry == Permutations(Calls) \cup Permutations({s2, s3})
=============================================================================
