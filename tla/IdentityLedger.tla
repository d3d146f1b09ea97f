--------------------------- MODULE IdentityLedger ---------------------------
(***************************************************************************)
(* The identity history of gaze-lens-server.  A server that starts checks  *)
(* the identities of the operator's authority file against the ledger,     *)
(* takes the process lock, enrolls them, publishes the changed ledger and  *)
(* serves.  A change is allowed only under a fresh generation; superseded  *)
(* generations and removed ids stay retired.                               *)
(***************************************************************************)
EXTENDS Ledger

CONSTANTS
    Servers,      \* server processes started on one history path
    NoServer      \* the process lock is free

ASSUME NoServerAssumption == NoServer \notin Servers

VARIABLES
    ledger,      \* the history file as processes see it
    disk,        \* the history file that survives a power loss
    holder,      \* the process that holds the .lock file
    stage,       \* stage[p]: how far the start of process p is
    request,     \* request[p]: identities it parsed last, later those it enrolled
    draft,       \* draft[p]: the ledger it is about to publish
    served,      \* every identity a server has ever served with
    gone,        \* those some later server did not serve with
    goneIds      \* ids some later server did not serve with

fileVars == <<ledger, disk>>
history == <<served, gone, goneIds>>
vars == <<fileVars, holder, stage, request, draft, history>>

Stages == {"off", "checked", "loaded", "locked", "staged", "renamed", "serving"}
LockStages == {"locked", "staged", "renamed", "serving"}

-----------------------------------------------------------------------------
\* The operator created the empty history.
Init ==
    /\ ledger = EmptyLedger
    /\ disk = EmptyLedger
    /\ holder = NoServer
    /\ stage = [p \in Servers |-> "off"]
    /\ request = [p \in Servers |-> {}]
    /\ draft = [p \in Servers |-> EmptyLedger]
    /\ served = {}
    /\ gone = {}
    /\ goneIds = {}

\* config::check: the authority, whatever the operator has written there by
\* now, is tried on the ledger without the lock and without a change.
CheckHistory(p) ==
    /\ stage[p] = "off"
    /\ \E a \in Authorities : Accepts(ledger, a)
    /\ stage' = [stage EXCEPT ![p] = "checked"]
    /\ UNCHANGED <<fileVars, holder, request, draft, history>>

\* serve_with parses the authority again: the operator may have replaced it.
ReloadAuthority(p) ==
    /\ stage[p] = "checked"
    /\ stage' = [stage EXCEPT ![p] = "loaded"]
    /\ \E a \in Authorities : request' = [request EXCEPT ![p] = a]
    /\ UNCHANGED <<fileVars, holder, draft, history>>

\* Mutant: the lock is not taken.
LockHistoryShared(p) ==
    /\ stage[p] = "loaded"
    /\ holder' = p
    /\ stage' = [stage EXCEPT ![p] = "locked"]
    /\ UNCHANGED <<fileVars, request, draft, history>>

\* History::open: try_lock succeeds only when no other process holds it.
LockHistory(p) ==
    /\ stage[p] = "loaded"
    /\ holder = NoServer
    /\ holder' = p
    /\ stage' = [stage EXCEPT ![p] = "locked"]
    /\ UNCHANGED <<fileVars, request, draft, history>>

\* The server accepts connections with the identities it enrolled.
Serve(p) ==
    /\ stage' = [stage EXCEPT ![p] = "serving"]
    /\ served' = served \cup request[p]
    /\ gone' = gone \cup (served \ request[p])
    /\ goneIds' = goneIds \cup (Ids(served) \ Ids(request[p]))

\* Nothing to enroll: the file is left alone.
EnrollUnchanged(p) ==
    /\ stage[p] = "locked"
    /\ Accepts(ledger, request[p])
    /\ Enrolled(ledger, request[p]) = ledger
    /\ Serve(p)
    /\ UNCHANGED <<fileVars, holder, request, draft>>

\* The changed ledger is written to a temporary file and synced.
EnrollChanged(p) ==
    /\ stage[p] = "locked"
    /\ Accepts(ledger, request[p])
    /\ Enrolled(ledger, request[p]) # ledger
    /\ draft' = [draft EXCEPT ![p] = Enrolled(ledger, request[p])]
    /\ stage' = [stage EXCEPT ![p] = "staged"]
    /\ UNCHANGED <<fileVars, holder, request, history>>

\* persist: the rename ...
PublishLedger(p) ==
    /\ stage[p] = "staged"
    /\ ledger' = draft[p]
    /\ stage' = [stage EXCEPT ![p] = "renamed"]
    /\ UNCHANGED <<disk, holder, request, draft, history>>

\* ... and the sync of its directory.
SyncLedger(p) ==
    /\ stage[p] = "renamed"
    /\ disk' = ledger
    /\ Serve(p)
    /\ UNCHANGED <<ledger, holder, request, draft>>

\* The process ends, whatever it was doing: it is refused, finds the lock
\* taken, fails at some step, or is stopped.  Its lock goes with it.
Exit(p) ==
    /\ stage[p] # "off"
    /\ stage' = [stage EXCEPT ![p] = "off"]
    /\ request' = [request EXCEPT ![p] = {}]
    /\ draft' = [draft EXCEPT ![p] = EmptyLedger]
    /\ holder' = IF holder = p THEN NoServer ELSE holder
    /\ UNCHANGED <<fileVars, history>>

\* All processes end, and a rename that was not synced may be undone.
PowerLoss ==
    /\ \E l \in {ledger, disk} : ledger' = l /\ disk' = l
    /\ stage' = [p \in Servers |-> "off"]
    /\ request' = [p \in Servers |-> {}]
    /\ draft' = [p \in Servers |-> EmptyLedger]
    /\ holder' = NoServer
    /\ UNCHANGED <<history>>

ServerStep(p) ==
    \/ CheckHistory(p) \/ ReloadAuthority(p) \/ LockHistory(p)
    \/ EnrollUnchanged(p) \/ EnrollChanged(p) \/ PublishLedger(p) \/ SyncLedger(p)
    \/ Exit(p)

Next == \E p \in Servers : ServerStep(p)

\* Processes may crash, the machine does not.
Spec == Init /\ [][Next]_vars

\* The machine may lose power.
PowerSpec == Init /\ [][Next \/ PowerLoss]_vars
-----------------------------------------------------------------------------
(* Correctness.                                                            *)

\* Every variable keeps its type; a request never names an id twice.
TypeOK ==
    /\ ledger \in Ledgers
    /\ disk \in Ledgers
    /\ holder \in Servers \cup {NoServer}
    /\ stage \in [Servers -> Stages]
    /\ request \in [Servers -> Authorities]
    /\ draft \in [Servers -> Ledgers]
    /\ served \in SUBSET Identities
    /\ gone \in SUBSET Identities
    /\ goneIds \in SUBSET Ids(Identities)

\* What enroll writes is what read accepts at the next start: neither the
\* published nor the durable ledger ever locks the operator out.
LedgerStaysValid == ValidLedger(ledger) /\ ValidLedger(disk)

\* A running server holds the lock, so at most one runs, and the active
\* entries of the ledger are exactly the identities it serves with.
ServesWhatIsEnrolled ==
    \A p \in Servers :
       stage[p] = "serving" => holder = p /\ request[p] = ledger.active

\* "Prior generations cannot return, even with the same old definition; IDs
\* removed at a restart stay retired forever."
NothingReturns ==
    \A p \in Servers : stage[p] = "serving" =>
       /\ request[p] \cap gone = {}
       /\ Ids(request[p]) \cap goneIds = {}

\* Ledger m continues ledger l.
Continues(l, m) ==
    /\ Entries(l) \subseteq Entries(m)
    /\ l.retired \subseteq m.retired
    /\ (Ids(l.retired) \ Ids(l.active)) \cap Ids(m.active) = {}

\* No step of any process rewrites the past: an identity once in the ledger
\* stays in it, a retired one stays retired, and an id that has no active
\* entry any more never gets one again.
HistoryIsAppendOnly == [][Continues(ledger, ledger')]_vars
=============================================================================
