---------------------------- MODULE MCDbSources ----------------------------
(***************************************************************************)
(* Two processes on one machine.  The first has two calls on one tunnelled *)
(* profile and one on another profile with the same local port; the second *)
(* process has a call on the first profile.                                *)
(***************************************************************************)
EXTENDS DbSources, TLC

CONSTANTS p1, p2, f, g, c1, c2, c3, c4

MCProcOf == (c1 :> p1) @@ (c2 :> p1) @@ (c3 :> p1) @@ (c4 :> p2)
MCProfileOf == (c1 :> f) @@ (c2 :> f) @@ (c3 :> g) @@ (c4 :> f)
MCPortOf == (f :> 13306) @@ (g :> 13306)

\* The two calls on the same source of the same process.
Symmetry == Permutations({c1, c2})
=============================================================================
