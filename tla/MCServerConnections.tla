------------------------ MODULE MCServerConnections ------------------------
(* Three connections of a principal, one permit fewer than there are       *)
(* connections, while the operator edits the authority and grants expire.  *)
EXTENDS ServerConnections

CONSTANTS c1, c2, c3, a

ThreeConns == {c1, c2, c3}
OnePrincipal == {a}
=============================================================================
