---------------------------- MODULE MCRemoteLog ----------------------------
(* As many requests as there are permits, and one more: readers that       *)
(* outlive their connections can exhaust the service.                      *)
EXTENDS RemoteLog, TLC

CONSTANTS r1, r2

TwoRequests == {r1, r2}
=============================================================================
