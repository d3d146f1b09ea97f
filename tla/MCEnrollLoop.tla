---------------------------- MODULE MCEnrollLoop ----------------------------
(* Every ledger of up to three entries, valid or not, and every request    *)
(* over seven definitions of two ids.                                      *)
EXTENDS EnrollLoop

Def(k, i, g, f) == [kind |-> k, id |-> i, generation |-> g, fingerprint |-> f]

SevenDefinitions ==
    {Def("principal", 1, "g1", "f1"), Def("principal", 1, "g1", "f2"),
     Def("principal", 1, "g2", "f1"), Def("resource", 1, "g3", "f3"),
     Def("resource", 2, "g1", "f4"), Def("resource", 2, "g2", "f4"),
     Def("resource", 2, "g4", "f4")}
=============================================================================
