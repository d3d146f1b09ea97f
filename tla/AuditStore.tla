----------------------------- MODULE AuditStore -----------------------------
(***************************************************************************)
(* The manifest and the snapshot directory are shared by every gaze-lens   *)
(* process of a user: the sessions of SessionDispatch, the retention sweep *)
(* each process runs before it starts its own session, and the replays an  *)
(* operator runs.  This module composes them.                              *)
(*                                                                         *)
(* SQLite is external: a SELECT keeps a shared lock while its cursor is    *)
(* open, so no other process commits meanwhile; a writer that waits too    *)
(* long fails.  Every statement commits on its own.                        *)
(*                                                                         *)
(* The age of a session is abstracted to whether it exceeds the retention; *)
(* the processes of one user are taken to agree on the retention.  The     *)
(* order in which a cursor returns rows is left open.                      *)
(***************************************************************************)
EXTENDS SessionDispatch

CONSTANTS
    Replayers,   \* processes running `gaze-lens replay`
    TargetOf     \* the session each of them replays

ASSUME TargetOfAssumption == TargetOf \in [Replayers -> Sessions]

VARIABLES
    expired,   \* sessions older than snapshot_retention_days
    purged,    \* calls whose row has a purged_at_ms
    sweep,     \* sweep[s]: the sweep before session s, "idle", "scan" or "done"
    cutoff,    \* cutoff[s]: sessions too old by the now_ms of that sweep
    todo,      \* todo[s]: candidates its cursor has still to return
    removed,   \* removed[s]: the candidate whose file is gone but not its row, if any
    kept,      \* kept[s]: candidates whose file could not be removed
    replay,    \* replay[r]: how far replayer r is, or how it ended
    left       \* left[r]: rows its cursor has still to return

sweepVars == <<sweep, cutoff, todo, removed, kept>>
replayVars == <<replay, left>>
storeVars == <<expired, purged, sweepVars, replayVars>>
auditVars == <<vars, storeVars>>

sessionOnlyVars == <<up, vault, pc, answer, row, summaries, lock, job, bytes, temps>>

ReplayOutcomes == {"success", "purged", "unavailable", "error"}

AuditInit ==
    /\ Init
    /\ expired = {}
    /\ purged = {}
    /\ sweep = [s \in Sessions |-> "idle"]
    /\ cutoff = [s \in Sessions |-> {}]
    /\ todo = [s \in Sessions |-> {}]
    /\ removed = [s \in Sessions |-> NoCall]
    /\ kept = [s \in Sessions |-> {}]
    /\ replay = [r \in Replayers |-> "idle"]
    /\ left = [r \in Replayers |-> {}]

\* Time passes: a session that exists becomes older than the retention.  The
\* age of one without calls is never looked at.
Age(s) ==
    /\ up[s] # "new" /\ \E c \in Calls : SessionOf[c] = s
    /\ s \notin expired
    /\ expired' = expired \cup {s}
    /\ UNCHANGED <<vars, purged, sweepVars, replayVars>>

-----------------------------------------------------------------------------
(* SQLite's locks.                                                         *)

SweepCursor(s) == sweep[s] = "scan"
ReplayCursor(r) == replay[r] = "reading"

\* No process has an open cursor, so a commit can go through.
Unlocked == ~(\E s \in Sessions : SweepCursor(s)) /\ ~(\E r \in Replayers : ReplayCursor(r))

\* Only the sweep before s has one: its own UPDATE can go through.
UnlockedFor(s) ==
    /\ \A t \in Sessions \ {s} : ~SweepCursor(t)
    /\ ~(\E r \in Replayers : ReplayCursor(r))

-----------------------------------------------------------------------------
(* sweep_expired_snapshots in mode purge, run by apply_retention_policy    *)
(* before the session of the process exists.                               *)

\* The rows the SELECT returns and the age test lets through.
Candidates(old) ==
    {c \in Calls : row[c] = "ok" /\ c \in ref /\ c \notin purged /\ SessionOf[c] \in old}

\* Mutant: the age test is forgotten.
OpenSweepAgeless(s) ==
    /\ up[s] = "new"
    /\ sweep[s] = "idle"
    /\ sweep' = [sweep EXCEPT ![s] = "scan"]
    /\ cutoff' = [cutoff EXCEPT ![s] = expired]
    /\ todo' = [todo EXCEPT ![s] = Candidates(Sessions)]
    /\ kept' = [kept EXCEPT ![s] = {}]
    /\ UNCHANGED <<vars, expired, purged, removed, replayVars>>

\* now_ms is taken and the cursor opened.

OpenSweep(s) ==
    /\ up[s] = "new"
    /\ sweep[s] = "idle"
    /\ sweep' = [sweep EXCEPT ![s] = "scan"]
    /\ cutoff' = [cutoff EXCEPT ![s] = expired]
    /\ todo' = [todo EXCEPT ![s] = Candidates(expired)]
    /\ kept' = [kept EXCEPT ![s] = {}]
    /\ UNCHANGED <<vars, expired, purged, removed, replayVars>>

\* remove_file, where a file that is already gone counts as removed.  The
\* directory is not synced.
RemoveFile(s, c) ==
    /\ SweepCursor(s) /\ removed[s] = NoCall
    /\ c \in todo[s]
    /\ snap' = [snap EXCEPT ![SessionOf[c]] = Absent]
    /\ removed' = [removed EXCEPT ![s] = c]
    /\ todo' = [todo EXCEPT ![s] = @ \ {c}]
    /\ UNCHANGED <<sessionOnlyVars, ref, disk, expired, purged, sweep, cutoff, kept, replayVars>>

\* Mutant: the failure is not reported.
RemoveFailsSilently(s, c) ==
    /\ SweepCursor(s) /\ removed[s] = NoCall
    /\ c \in todo[s]
    /\ snap[SessionOf[c]] # Absent
    /\ todo' = [todo EXCEPT ![s] = @ \ {c}]
    /\ UNCHANGED <<vars, expired, purged, sweep, cutoff, removed, kept, replayVars>>

\* Any other error: the row is reported as failed and left alone.
RemoveFails(s, c) ==
    /\ SweepCursor(s) /\ removed[s] = NoCall
    /\ c \in todo[s]
    /\ snap[SessionOf[c]] # Absent
    /\ kept' = [kept EXCEPT ![s] = @ \cup {c}]
    /\ todo' = [todo EXCEPT ![s] = @ \ {c}]
    /\ UNCHANGED <<vars, expired, purged, sweep, cutoff, removed, replayVars>>

\* Mutants: the row is deleted; the UPDATE does not wait for the cursors of
\* other processes.
TombstoneDeletes(s) ==
    /\ SweepCursor(s) /\ removed[s] # NoCall
    /\ UnlockedFor(s)
    /\ row' = [row EXCEPT ![removed[s]] = "none"]
    /\ ref' = ref \ {removed[s]}
    /\ removed' = [removed EXCEPT ![s] = NoCall]
    /\ UNCHANGED <<up, vault, callVars, summaries, jobVars, snap, disk, expired, purged,
                   sweep, cutoff, todo, kept, replayVars>>

TombstoneUnlocked(s) ==
    /\ SweepCursor(s) /\ removed[s] # NoCall
    /\ purged' = purged \cup {removed[s]}
    /\ ref' = ref \ {removed[s]}
    /\ removed' = [removed EXCEPT ![s] = NoCall]
    /\ UNCHANGED <<sessionOnlyVars, snap, disk, expired, sweep, cutoff, todo, kept, replayVars>>

\* The UPDATE that tombstones the row: purged_at_ms set, snapshot_ref cleared.
Tombstone(s) ==
    /\ SweepCursor(s) /\ removed[s] # NoCall
    /\ UnlockedFor(s)
    /\ purged' = purged \cup {removed[s]}
    /\ ref' = ref \ {removed[s]}
    /\ removed' = [removed EXCEPT ![s] = NoCall]
    /\ UNCHANGED <<sessionOnlyVars, snap, disk, expired, sweep, cutoff, todo, kept, replayVars>>

CloseSweep(s) ==
    /\ SweepCursor(s) /\ removed[s] = NoCall /\ todo[s] = {}
    /\ sweep' = [sweep EXCEPT ![s] = "done"]
    /\ cutoff' = [cutoff EXCEPT ![s] = {}]
    /\ kept' = [kept EXCEPT ![s] = {}]
    /\ UNCHANGED <<vars, expired, purged, todo, removed, replayVars>>

\* The UPDATE or the cursor fails and the process gives up starting, or it is
\* killed.  A later start is a new process and sweeps anew.
AbortSweep(s) ==
    /\ SweepCursor(s)
    /\ sweep' = [sweep EXCEPT ![s] = "idle"]
    /\ cutoff' = [cutoff EXCEPT ![s] = {}]
    /\ todo' = [todo EXCEPT ![s] = {}]
    /\ removed' = [removed EXCEPT ![s] = NoCall]
    /\ kept' = [kept EXCEPT ![s] = {}]
    /\ UNCHANGED <<vars, expired, purged, replayVars>>

-----------------------------------------------------------------------------
(* restore_whole_session.                                                  *)

OpenReplay(r) ==
    /\ replay[r] = "idle"
    /\ replay' = [replay EXCEPT ![r] = "reading"]
    /\ left' = [left EXCEPT ![r] = {c \in Calls : SessionOf[c] = TargetOf[r] /\ row[c] = "ok"}]
    /\ UNCHANGED <<vars, expired, purged, sweepVars>>

EndReplay(r, outcome) ==
    /\ replay' = [replay EXCEPT ![r] = outcome]
    /\ left' = [left EXCEPT ![r] = {}]
    /\ UNCHANGED <<vars, expired, purged, sweepVars>>

\* The tombstone is looked at before any file is.
ReplayTombstoned(r, c) ==
    /\ ReplayCursor(r) /\ c \in left[r]
    /\ c \in purged
    /\ EndReplay(r, "purged")

\* The strict restore knows every token of the arguments.
RestoresArgs(c) == snap[SessionOf[c]] # Absent /\ Arg(c) \in snap[SessionOf[c]]

\* The row's file is read and the arguments of the call are restored.
ReplayCall(r, c) ==
    /\ ReplayCursor(r) /\ c \in left[r]
    /\ c \notin purged /\ c \in ref /\ RestoresArgs(c)
    /\ left' = [left EXCEPT ![r] = @ \ {c}]
    /\ UNCHANGED <<vars, expired, purged, sweepVars, replay>>

\* No reference, no file, or a token the strict restore does not know.
ReplayUnavailable(r, c) ==
    /\ ReplayCursor(r) /\ c \in left[r]
    /\ c \notin purged /\ ~(c \in ref /\ RestoresArgs(c))
    /\ EndReplay(r, "unavailable")

\* The manifest or the file cannot be read, or the process is killed.
ReplayFails(r) ==
    /\ ReplayCursor(r)
    /\ EndReplay(r, "error")

CloseReplay(r) ==
    /\ ReplayCursor(r) /\ left[r] = {}
    /\ EndReplay(r, "success")

-----------------------------------------------------------------------------
(* The composition.                                                        *)

\* A session starts once its sweep is over, or without one if no retention is
\* configured; its first INSERT needs the database.  What the sweep found is
\* logged and forgotten.
Start(s) ==
    /\ sweep[s] # "scan"
    /\ Unlocked
    /\ StartSession(s)
    /\ sweep' = [sweep EXCEPT ![s] = "idle"]
    /\ UNCHANGED <<expired, purged, cutoff, todo, removed, kept, replayVars>>

StartFails(s) ==
    /\ sweep[s] # "scan"
    /\ StartSessionFails(s)
    /\ sweep' = [sweep EXCEPT ![s] = "idle"]
    /\ UNCHANGED <<expired, purged, cutoff, todo, removed, kept, replayVars>>

SessionStep ==
    \/ \E c \in Calls : Unlocked /\ ManifestStep(c) /\ UNCHANGED storeVars
    \/ \E c \in Calls : (LocalStep(c) \/ JobStep(c) \/ Cancel(c)) /\ UNCHANGED storeVars
    \/ \E s \in Sessions : Exit(s) /\ UNCHANGED storeVars

\* A power loss also ends the sweeps and the replays.
Blackout ==
    /\ PowerLoss
    /\ sweep' = [s \in Sessions |-> IF SweepCursor(s) THEN "idle" ELSE sweep[s]]
    /\ cutoff' = [s \in Sessions |-> {}]
    /\ todo' = [s \in Sessions |-> {}]
    /\ removed' = [s \in Sessions |-> NoCall]
    /\ kept' = [s \in Sessions |-> {}]
    /\ replay' = [r \in Replayers |-> IF ReplayCursor(r) THEN "error" ELSE replay[r]]
    /\ left' = [r \in Replayers |-> {}]
    /\ UNCHANGED <<expired, purged>>

SweepStep(s) ==
    \/ OpenSweep(s) \/ Tombstone(s) \/ CloseSweep(s) \/ AbortSweep(s)
    \/ \E c \in Calls : RemoveFile(s, c) \/ RemoveFails(s, c)

ReplayStep(r) ==
    \/ OpenReplay(r) \/ ReplayFails(r) \/ CloseReplay(r)
    \/ \E c \in Calls : ReplayTombstoned(r, c) \/ ReplayCall(r, c) \/ ReplayUnavailable(r, c)

AuditNext ==
    \/ SessionStep
    \/ \E s \in Sessions : Start(s) \/ StartFails(s) \/ Age(s) \/ SweepStep(s)
    \/ \E r \in Replayers : ReplayStep(r)
    \/ Blackout

AuditSpec == AuditInit /\ [][AuditNext]_auditVars
-----------------------------------------------------------------------------
(* Correctness.                                                            *)

\* The store's variables keep their types and a sweep that is not running
\* has no work in hand.
StoreTypeOK ==
    /\ TypeOK
    /\ expired \in SUBSET Sessions
    /\ purged \in SUBSET Calls
    /\ sweep \in [Sessions -> {"idle", "scan", "done"}]
    /\ cutoff \in [Sessions -> SUBSET Sessions]
    /\ todo \in [Sessions -> SUBSET Calls]
    /\ removed \in [Sessions -> Calls \cup {NoCall}]
    /\ kept \in [Sessions -> SUBSET Calls]
    /\ replay \in [Replayers -> {"idle", "reading"} \cup ReplayOutcomes]
    /\ left \in [Replayers -> SUBSET Calls]
    /\ \A s \in Sessions : ~SweepCursor(s) => todo[s] = {} /\ removed[s] = NoCall

\* Retention never costs a session that is still young its mappings: with any
\* number of sweeps, aborted or not, its ok rows keep their reference and the
\* published snapshot restores them.
RetentionSparesYoung ==
    \A c \in Calls : row[c] = "ok" /\ SessionOf[c] \notin expired =>
        c \notin purged /\ c \in ref /\ Restores(snap[SessionOf[c]], c)

\* An ok row has a reference or a tombstone and never both, so the branch of
\* restore_whole_session for a malformed row is dead code, and a row whose
\* file was removed before the sweep died is a candidate of the next sweep.
NoMalformedRow ==
    \A c \in Calls :
       /\ row[c] = "ok" => (c \in ref <=> c \notin purged)
       /\ c \in purged \cup ref => row[c] = "ok"

\* The manifest is the audit of record: rows are never deleted or reopened,
\* a closed row keeps its status and a tombstone is never taken back.
AuditOfRecord ==
    [][/\ purged \subseteq purged'
       /\ \A c \in Calls :
             /\ row[c] # "none" => row'[c] # "none"
             /\ row[c] \in {"ok", "error"} => row'[c] = row[c]]_auditVars

\* A replay succeeds only on a session without a single tombstone, although a
\* sweep may be running: its cursor keeps tombstones out until it is closed.
ReplaySuccessIsWhole ==
    [][\A r \in Replayers : replay[r] # "success" /\ replay'[r] = "success" =>
          \A c \in purged : SessionOf[c] # TargetOf[r]]_auditVars

\* A replay reports missing mappings only for a session past its retention.
ReplayLossExplained ==
    \A r \in Replayers : replay[r] \in {"purged", "unavailable"} => TargetOf[r] \in expired

\* A sweep that ran to its end leaves no candidate behind but those it
\* reported as failed.
SweepIsThorough ==
    [][\A s \in Sessions : sweep[s] = "scan" /\ sweep'[s] = "done" =>
          Candidates(cutoff[s]) \subseteq kept[s]]_auditVars

\* write_private_file says: "Persist the directory entry before a successful
\* manifest row can refer to it."
RowRefersToFile ==
    [][\A c \in ref' \ ref : snap'[SessionOf[c]] # Absent]_auditVars

\* restore_whole_session says of a tombstoned row: "the snapshot file is gone
\* but the purge event is recorded".
TombstonedFileGone == \A c \in purged : ~Restores(snap[SessionOf[c]], c)
=============================================================================
