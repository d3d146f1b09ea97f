-------------------------- MODULE MCIdentityLedger --------------------------
(* Two servers on one history path and six definitions: two generations of *)
(* one id with a redefinition under the old generation, the same id as a   *)
(* resource, and another id that would reuse a generation.                 *)
EXTENDS IdentityLedger, TLC

CONSTANTS p1, p2

TwoServers == {p1, p2}

ServerSymmetry == Permutations(Servers)

Def(k, i, g, f) == [kind |-> k, id |-> i, generation |-> g, fingerprint |-> f]

SixDefinitions ==
    {Def("principal", 1, "g1", "f1"), Def("principal", 1, "g1", "f2"),
     Def("principal", 1, "g2", "f1"), Def("resource", 1, "g3", "f3"),
     Def("resource", 2, "g1", "f4"), Def("resource", 2, "g4", "f4")}

ThreeDefinitions ==
    {Def("principal", 1, "g1", "f1"), Def("principal", 1, "g2", "f1"),
     Def("resource", 2, "g3", "f4")}
=============================================================================
