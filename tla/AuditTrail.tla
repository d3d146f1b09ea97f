----------------------------- MODULE AuditTrail -----------------------------
(***************************************************************************)
(* What the session layer promises for each retrieval, whatever threads,   *)
(* files and processes implement it: the call is on record before anything *)
(* is closed about it, a record closed as ok names mappings that can be    *)
(* restored from then on, and only such a call is answered with a result.  *)
(***************************************************************************)
CONSTANT Calls

VARIABLES
    audit,       \* audit[c]: the record of call c
    answer,      \* answer[c]: what the agent was told
    restorable   \* calls whose tokens the published snapshot restores

vars == <<audit, answer, restorable>>

Init ==
    /\ audit = [c \in Calls |-> "none"]
    /\ answer = [c \in Calls |-> "none"]
    /\ restorable = {}

Committed == {c \in Calls : audit[c] = "ok"}

Open(c) ==
    /\ audit[c] = "none"
    /\ audit' = [audit EXCEPT ![c] = "in-progress"]
    /\ UNCHANGED <<answer, restorable>>

\* The published mappings change; a committed call never loses its own.
Publish ==
    /\ restorable' \in SUBSET Calls
    /\ Committed \subseteq restorable'
    /\ UNCHANGED <<audit, answer>>

Commit(c) ==
    /\ audit[c] = "in-progress"
    /\ c \in restorable
    /\ audit' = [audit EXCEPT ![c] = "ok"]
    /\ UNCHANGED <<answer, restorable>>

Fail(c) ==
    /\ audit[c] = "in-progress"
    /\ answer[c] = "none"
    /\ audit' = [audit EXCEPT ![c] = "error"]
    /\ answer' = [answer EXCEPT ![c] = "error"]
    /\ UNCHANGED restorable

AnswerError(c) ==
    /\ answer[c] = "none"
    /\ answer' = [answer EXCEPT ![c] = "error"]
    /\ UNCHANGED <<audit, restorable>>

AnswerResult(c) ==
    /\ answer[c] = "none"
    /\ audit[c] = "ok"
    /\ answer' = [answer EXCEPT ![c] = "result"]
    /\ UNCHANGED <<audit, restorable>>

Next ==
    \/ \E c \in Calls : \/ Open(c) \/ Commit(c) \/ Fail(c)
                        \/ AnswerError(c) \/ AnswerResult(c)
    \/ Publish

Spec == Init /\ [][Next]_vars
=============================================================================
