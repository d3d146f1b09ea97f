-------------------------- MODULE ServerConnections --------------------------
(***************************************************************************)
(* The accept loop of gaze-lens-server and the exchange on each of its     *)
(* connections: TLS, Prepare, admission, Prepared, Call, release.  The     *)
(* operator may rewrite the authority file and time may pass between any   *)
(* two steps; every decision of a connection is taken on a copy of the     *)
(* file it read a moment ago.                                              *)
(*                                                                         *)
(* The authority is abstracted to what its checks tell apart: a version    *)
(* counting the operator's edits, whether its identities are those the     *)
(* server enrolled, and the time until which each principal's grant is     *)
(* enabled (0: there is none).  There is one resource.                     *)
(***************************************************************************)
EXTENDS Naturals, FiniteSets

CONSTANTS
    Conns,         \* connections ever made to the server
    Principals,    \* principals of the enrolled authority
    MaxActive,     \* DEFAULT_ACTIVE_CALLS
    MaxPrincipal,  \* MAX_PRINCIPAL_CALLS
    MaxFailures,   \* ACCEPT_FAILURES
    MaxEdits,      \* bound on the operator's edits
    MaxTime,       \* bound on the clock
    NoPrincipal    \* the connection has not been pinned

ASSUME BoundsAssumption ==
    /\ {MaxActive, MaxPrincipal, MaxFailures, MaxEdits, MaxTime} \subseteq Nat
    /\ MaxFailures > 0
ASSUME NoPrincipalAssumption == NoPrincipal \notin Principals
ASSUME ConnsAssumption == IsFiniteSet(Conns)

VARIABLES
    file,       \* the authority file
    now,        \* the clock
    listener,   \* "open" or "dead"
    failures,   \* serve_with's counter of that name
    permits,    \* free permits of the global semaphore
    counts,     \* counts[p]: the entry of p in the map of principals
    pc,         \* pc[c]: where connection c stands
    who,        \* who[c]: the principal pinned at Prepare
    view,       \* view[c]: the authority c read last
    begun,      \* begun[c]: version of the file when the result was encoded
    outcome     \* outcome[c]: the frame connection finishes with

connVars == <<pc, who, view, begun, outcome>>
vars == <<file, now, listener, failures, permits, counts, connVars>>

Files == [version : 0 .. MaxEdits, same : BOOLEAN, until : [Principals -> 0 .. (MaxTime + 1)]]

Outcomes == {"none", "failure", "success"}

Stages == {"new", "tls", "prepare", "load", "admit", "prepared", "recheck", "revalidate",
           "release", "final", "finish", "closed"}
Open == {c \in Conns : pc[c] \notin {"new", "closed"}}

\* The authority of a connection that has read none, or is over.
NoView == [version |-> 0, same |-> TRUE, until |-> [p \in Principals |-> 0]]

-----------------------------------------------------------------------------
\* The server is up: the authority on disk is the one it enrolled.
Init ==
    /\ file \in {f \in Files : f.version = 0 /\ f.same}
    /\ now = 0
    /\ listener = "open"
    /\ failures = 0
    /\ permits = MaxActive
    /\ counts = [p \in Principals |-> 0]
    /\ pc = [c \in Conns |-> "new"]
    /\ who = [c \in Conns |-> NoPrincipal]
    /\ view = [c \in Conns |-> NoView]
    /\ begun = [c \in Conns |-> 0]
    /\ outcome = [c \in Conns |-> "none"]

\* The operator replaces the authority by a rename.
Edit ==
    /\ file.version < MaxEdits
    /\ file' \in {f \in Files : f.version = file.version + 1}
    /\ UNCHANGED <<now, listener, failures, permits, counts, connVars>>

Tick ==
    /\ now < MaxTime
    /\ now' = now + 1
    /\ UNCHANGED <<file, listener, failures, permits, counts, connVars>>

-----------------------------------------------------------------------------
(* serve_with.                                                             *)

\* A connection is accepted and given a permit ...
Accept(c) ==
    /\ listener = "open" /\ pc[c] = "new"
    /\ permits > 0
    /\ permits' = permits - 1
    /\ failures' = 0
    /\ pc' = [pc EXCEPT ![c] = "tls"]
    /\ UNCHANGED <<file, now, listener, counts, who, view, begun, outcome>>

\* ... or its socket is dropped, because there is none.
AcceptSaturated(c) ==
    /\ listener = "open" /\ pc[c] = "new"
    /\ permits = 0
    /\ failures' = 0
    /\ pc' = [pc EXCEPT ![c] = "closed"]
    /\ UNCHANGED <<file, now, listener, permits, counts, who, view, begun, outcome>>

\* accept fails for want of a resource.  A failure that belongs to one peer
\* changes nothing.
AcceptFails ==
    /\ listener = "open"
    /\ failures + 1 < MaxFailures
    /\ failures' = failures + 1
    /\ UNCHANGED <<file, now, listener, permits, counts, connVars>>

\* The last failure tolerated, or one that says the socket is dead, ends
\* serve_with; the JoinSet it drops aborts every connection.
ListenerDies ==
    /\ listener = "open"
    /\ listener' = "dead"
    /\ permits' = permits + Cardinality(Open)
    /\ counts' = [p \in Principals |-> counts[p] - Cardinality({c \in Open : who[c] = p})]
    /\ pc' = [c \in Conns |-> IF c \in Open THEN "closed" ELSE pc[c]]
    /\ who' = [c \in Conns |-> NoPrincipal]
    /\ view' = [c \in Conns |-> NoView]
    /\ begun' = [c \in Conns |-> 0]
    /\ outcome' = [c \in Conns |-> "none"]
    /\ UNCHANGED <<file, now, failures>>

-----------------------------------------------------------------------------
(* connection.                                                             *)

Goto(c, from, to) ==
    /\ pc[c] = from
    /\ pc' = [pc EXCEPT ![c] = to]

Handshake(c) ==
    /\ Goto(c, "tls", "prepare")
    /\ UNCHANGED <<file, now, listener, failures, permits, counts, who, view, begun, outcome>>

ReadPrepare(c) ==
    /\ Goto(c, "prepare", "load")
    /\ UNCHANGED <<file, now, listener, failures, permits, counts, who, view, begun, outcome>>

\* authority: the file is read and History::validate finds the identities the
\* server enrolled.
Load(c, from, to) ==
    /\ Goto(c, from, to)
    /\ file.same
    /\ view' = [view EXCEPT ![c] = file]
    /\ UNCHANGED <<file, now, listener, failures, permits, counts, who, begun, outcome>>

\* Authority::grant on the copy, by the clock of this moment.
Granted(c, p) == view[c].until[p] > now

\* Authority::prepare pins the principal of the credential, its permit is
\* acquired and Prepared is sent.
Admit(c, p) ==
    /\ Goto(c, "admit", "prepared")
    /\ Granted(c, p)
    /\ counts[p] < MaxPrincipal
    /\ counts' = [counts EXCEPT ![p] = @ + 1]
    /\ who' = [who EXCEPT ![c] = p]
    /\ UNCHANGED <<file, now, listener, failures, permits, view, begun, outcome>>

\* The connection will finish with a failure frame.
Failing(c) ==
    /\ pc' = [pc EXCEPT ![c] = "finish"]
    /\ outcome' = [outcome EXCEPT ![c] = "failure"]
    /\ UNCHANGED <<file, now, listener, failures, permits, counts, who, view, begun>>

\* A granted principal asks for another operation than readiness, or has all
\* its permits in use.
RefuseAdmission(c, p) ==
    /\ pc[c] = "admit"
    /\ Granted(c, p)
    /\ Failing(c)

\* call: the frame is read and agrees with the pin.
ReadCall(c) ==
    /\ Goto(c, "prepared", "recheck")
    /\ UNCHANGED <<file, now, listener, failures, permits, counts, who, view, begun, outcome>>

\* The frame is late or broken, disagrees with the pin, or the file cannot be
\* read or defines other identities.
CallFails(c) ==
    /\ pc[c] \in {"prepared", "recheck", "release"}
    /\ Failing(c)

\* The first revalidate lets the result be built and encoded.
Revalidate(c) ==
    /\ Goto(c, "revalidate", "release")
    /\ Granted(c, who[c])
    /\ begun' = [begun EXCEPT ![c] = file.version]
    /\ UNCHANGED <<file, now, listener, failures, permits, counts, who, view, outcome>>

RevalidateFails(c) ==
    /\ pc[c] \in {"revalidate", "final"}
    /\ ~Granted(c, who[c])
    /\ Failing(c)

\* Mutant: the release is decided on the copy of the first check.
ReleaseOnOldView(c) ==
    /\ Goto(c, "release", "finish")
    /\ Granted(c, who[c])
    /\ outcome' = [outcome EXCEPT ![c] = "success"]
    /\ UNCHANGED <<file, now, listener, failures, permits, counts, who, view, begun>>

\* The last check is the release linearization point.
Release(c) ==
    /\ Goto(c, "final", "finish")
    /\ Granted(c, who[c])
    /\ outcome' = [outcome EXCEPT ![c] = "success"]
    /\ UNCHANGED <<file, now, listener, failures, permits, counts, who, view, begun>>

\* The locals of the task go with it.
Forget(c) ==
    /\ pc' = [pc EXCEPT ![c] = "closed"]
    /\ who' = [who EXCEPT ![c] = NoPrincipal]
    /\ view' = [view EXCEPT ![c] = NoView]
    /\ begun' = [begun EXCEPT ![c] = 0]
    /\ outcome' = [outcome EXCEPT ![c] = "none"]

\* connection returns: its permits are dropped with it.
Close(c) ==
    /\ Forget(c)
    /\ permits' = permits + 1
    /\ counts' = [p \in Principals |-> IF who[c] = p THEN counts[p] - 1 ELSE counts[p]]

\* finish: the frame is written and the stream shut down, or the peer or the
\* deadline prevents it.
Finish(c) ==
    /\ pc[c] = "finish"
    /\ Close(c)
    /\ UNCHANGED <<file, now, listener, failures>>

\* Mutant: a connection that times out keeps its principal's permit.
DropLeaks(c) ==
    /\ c \in Open /\ pc[c] # "finish"
    /\ Forget(c)
    /\ permits' = permits + 1
    /\ UNCHANGED <<file, now, listener, failures, counts>>

\* Mutant: only the handshake has a deadline.
DropHandshakeOnly(c) ==
    /\ pc[c] = "tls"
    /\ Close(c)
    /\ UNCHANGED <<file, now, listener, failures>>

\* Anything else ends connection without a further frame: the peer is gone, a
\* deadline passes, a frame is malformed, the credential or its grant is not
\* there at Prepare.
Drop(c) ==
    /\ c \in Open /\ pc[c] # "finish"
    /\ Close(c)
    /\ UNCHANGED <<file, now, listener, failures>>

-----------------------------------------------------------------------------
Exchange(c) ==
    \/ Handshake(c) \/ ReadPrepare(c) \/ ReadCall(c) \/ CallFails(c)
    \/ Load(c, "load", "admit")
    \/ Load(c, "recheck", "revalidate")
    \/ Load(c, "release", "final")
    \/ \E p \in Principals : Admit(c, p) \/ RefuseAdmission(c, p)
    \/ Revalidate(c) \/ RevalidateFails(c) \/ Release(c) \/ Finish(c) \/ Drop(c)

Next ==
    \/ Edit \/ Tick
    \/ AcceptFails \/ ListenerDies
    \/ \E c \in Conns : Accept(c) \/ AcceptSaturated(c) \/ Exchange(c)

Spec == Init /\ [][Next]_vars

\* Every await of connection is under a deadline, and so is the whole of it;
\* nothing is assumed of the peer.
FairSpec == Spec /\ \A c \in Conns : WF_vars(Drop(c)) /\ WF_vars(Finish(c))
-----------------------------------------------------------------------------
(* Correctness.                                                            *)

\* Every variable keeps its type: the counters stay within their limits.
TypeOK ==
    /\ file \in Files
    /\ now \in 0 .. MaxTime
    /\ listener \in {"open", "dead"}
    /\ failures \in 0 .. (MaxFailures - 1)
    /\ permits \in 0 .. MaxActive
    /\ counts \in [Principals -> 0 .. MaxPrincipal]
    /\ pc \in [Conns -> Stages]
    /\ who \in [Conns -> Principals \cup {NoPrincipal}]
    /\ view \in [Conns -> Files]
    /\ begun \in [Conns -> 0 .. MaxEdits]
    /\ outcome \in [Conns -> Outcomes]

\* No permit is lost, handed out twice or beyond the limit of its principal,
\* whatever way a connection ends.
PermitsAccounted ==
    /\ permits + Cardinality(Open) = MaxActive
    /\ \A p \in Principals :
          /\ counts[p] = Cardinality({c \in Open : who[c] = p})
          /\ counts[p] <= MaxPrincipal

\* "Last authorization check is the release linearization point": a success
\* is released only on an authority read after the result was encoded, with
\* the enrolled identities and an enabled grant.  What the operator withdrew
\* before that moment is never released.
ReleaseIsCurrent ==
    \A c \in Conns : outcome[c] = "success" =>
       /\ view[c].version >= begun[c]
       /\ view[c].same
       /\ view[c].until[who[c]] > 0

\* Every accepted connection ends and gives its permits back.
ConnectionsEnd == \A c \in Conns : (c \in Open) ~> (pc[c] = "closed")
=============================================================================
