-------------------------- MODULE SessionDispatch --------------------------
(***************************************************************************)
(* One gaze-lens process per session, many tool calls in flight on its     *)
(* multi-threaded runtime.  A call goes through Session::dispatch_tool:    *)
(* its arguments are tokenized, a manifest row is opened, the source is    *)
(* read, the result is tokenized, a snapshot of the whole token map is     *)
(* published by a blocking job, the row is closed, the answer is released. *)
(*                                                                         *)
(* Tokens are abstracted to the fact which call minted them: every call    *)
(* has one token standing for its arguments and one for its result.  The   *)
(* snapshot of a session is the set of tokens it can restore.              *)
(*                                                                         *)
(* Failures are those the code handles: a rejected call, a manifest write  *)
(* that fails, a source that fails or times out, a snapshot step that      *)
(* fails, a cancelled caller (the blocking job runs on), the exit of the   *)
(* process, and a power loss that undoes renames not yet synced.           *)
(***************************************************************************)
EXTENDS Naturals, FiniteSets

CONSTANTS
    Calls,        \* the tool calls ever made
    Tunnelled,    \* the calls on a database behind an ssh tunnel
    Workers,      \* worker threads of the runtime of a process
    Sessions,     \* lens_session_id values
    SessionOf,    \* the session a call is dispatched on
    NoCall,       \* the snapshot lock is free
    Absent        \* no snapshot file under that name

ASSUME SessionOfAssumption == SessionOf \in [Calls -> Sessions]
ASSUME NoCallAssumption == NoCall \notin Calls
ASSUME RuntimeAssumption == Tunnelled \subseteq Calls /\ Workers \in Nat

VARIABLES
    up,         \* up[s]: has the process of s not started, is it running or gone
    vault,      \* vault[s]: tokens in the in-memory gaze::Session
    pc,         \* pc[c]: where dispatch_tool stands for call c
    answer,     \* answer[c]: what the frontend got back
    row,        \* row[c]: status column of the manifest row
    ref,        \* calls whose row has a snapshot_ref
    summaries,  \* keys of core_summaries
    lock,       \* lock[s]: holder of snapshot_lock
    job,        \* job[c]: stage of the blocking snapshot job of c
    bytes,      \* bytes[c]: token map that job exported
    temps,      \* calls whose private temporary file is in the directory
    snap,       \* snap[s]: the file <s>.snap as processes see it
    disk        \* disk[s]: the directory entry that survives a power loss

vars == <<up, vault, pc, answer, row, ref, summaries, lock, job, bytes, temps,
          snap, disk>>

callVars == <<pc, answer>>
manifestVars == <<row, ref>>
jobVars == <<lock, job, bytes, temps>>
fileVars == <<snap, disk>>

Arg(c) == <<c, "arg">>
Res(c) == <<c, "res">>
TokensOf(c) == {Arg(c), Res(c)}
Tokens == Calls \X {"arg", "res"}

ASSUME AbsentAssumption == \A file \in SUBSET Tokens : file # Absent

PcValues == {"idle", "begin", "invoke", "redact", "finish", "fail", "persist",
             "answer", "done", "cancelled", "lost"}
JobStages == {"none", "queued", "locked", "exported", "staged", "renamed",
              "ok", "err"}
JobHoldsLock == {"locked", "exported", "staged", "renamed"}

-----------------------------------------------------------------------------
Init ==
    /\ up = [s \in Sessions |-> "new"]
    /\ vault = [s \in Sessions |-> {}]
    /\ pc = [c \in Calls |-> "idle"]
    /\ answer = [c \in Calls |-> "none"]
    /\ row = [c \in Calls |-> "none"]
    /\ ref = {}
    /\ summaries = {}
    /\ lock = [s \in Sessions |-> NoCall]
    /\ job = [c \in Calls |-> "none"]
    /\ bytes = [c \in Calls |-> {}]
    /\ temps = {}
    /\ snap = [s \in Sessions |-> Absent]
    /\ disk = [s \in Sessions |-> Absent]

\* Session::new_*: a fresh gaze session and a manifest writer for it.
StartSession(s) ==
    /\ up[s] = "new"
    /\ up' = [up EXCEPT ![s] = "up"]
    /\ UNCHANGED <<vault, callVars, manifestVars, summaries, jobVars, fileVars>>

\* An ephemeral scope, or a manifest that cannot be opened, migrated or given
\* its session row: the process ends without a session.
StartSessionFails(s) ==
    /\ up[s] = "new"
    /\ up' = [up EXCEPT ![s] = "down"]
    /\ UNCHANGED <<vault, callVars, manifestVars, summaries, jobVars, fileVars>>

\* The call leaves dispatch_tool with an error.
Reject(c) ==
    /\ pc' = [pc EXCEPT ![c] = "done"]
    /\ answer' = [answer EXCEPT ![c] = "error"]

Mint(c, toks) == vault' = [vault EXCEPT ![SessionOf[c]] = @ \cup toks]

At(c, where) == up[SessionOf[c]] = "up" /\ pc[c] = where

Goto(c, where) ==
    /\ pc' = [pc EXCEPT ![c] = where]
    /\ UNCHANGED answer

-----------------------------------------------------------------------------
(* dispatch_tool up to the tool's own work.                                *)

\* extract_profile or pipeline_for refuses the call, or its arguments cannot
\* be redacted: nothing has been written anywhere.
RejectCall(c) ==
    /\ At(c, "idle")
    /\ Reject(c)
    /\ UNCHANGED <<up, vault, manifestVars, summaries, jobVars, fileVars>>

\* The envelope redacts the arguments: the session mints their tokens.
RedactArgs(c) ==
    /\ At(c, "idle")
    /\ Mint(c, {Arg(c)})
    /\ Goto(c, "begin")
    /\ UNCHANGED <<up, manifestVars, summaries, jobVars, fileVars>>

\* ManifestWriter::begin_call inserts the row before any source is touched.
BeginCall(c) ==
    /\ At(c, "begin")
    /\ row' = [row EXCEPT ![c] = "in-progress"]
    /\ Goto(c, "invoke")
    /\ UNCHANGED <<up, vault, ref, summaries, jobVars, fileVars>>

BeginCallFails(c) ==
    /\ At(c, "begin")
    /\ Reject(c)
    /\ UNCHANGED <<up, vault, manifestVars, summaries, jobVars, fileVars>>

\* invoke_source answers within the dispatch timeout.
InvokeSource(c) ==
    /\ At(c, "invoke")
    /\ Goto(c, "redact")
    /\ UNCHANGED <<up, vault, manifestVars, summaries, jobVars, fileVars>>

\* The source fails, or the 30 s timeout of invoke_core_tool fires.
InvokeSourceFails(c) ==
    /\ At(c, "invoke")
    /\ Goto(c, "fail")
    /\ UNCHANGED <<up, vault, manifestVars, summaries, jobVars, fileVars>>

\* redact_result mints the result's tokens, record_core_summary notes them.
RedactResult(c) ==
    /\ At(c, "redact")
    /\ Mint(c, {Res(c)})
    /\ summaries' = summaries \cup {c}
    /\ Goto(c, "finish")
    /\ UNCHANGED <<up, manifestVars, jobVars, fileVars>>

\* Redaction fails half way: some tokens may have been minted already.
RedactResultFails(c) ==
    /\ At(c, "redact")
    /\ \E toks \in SUBSET {Res(c)} : Mint(c, toks)
    /\ Goto(c, "fail")
    /\ UNCHANGED <<up, manifestVars, summaries, jobVars, fileVars>>

\* The tool fails after its summary was recorded (the keyword filter, or the
\* conversion of the response).
ToolFailsLate(c) ==
    /\ At(c, "finish")
    /\ Goto(c, "fail")
    /\ UNCHANGED <<up, vault, manifestVars, summaries, jobVars, fileVars>>

\* Mutant: the summary of a failed call is forgotten in the map.
FailCallKeepsSummary(c) ==
    /\ At(c, "fail")
    /\ row' = [row EXCEPT ![c] = "error"]
    /\ Reject(c)
    /\ UNCHANGED <<up, vault, ref, summaries, jobVars, fileVars>>

\* GazeMcpManifestAdapter::fail_call: the summary goes, the row says error
\* unless the manifest write fails too; the caller gets the error either way.
FailCall(c) ==
    /\ At(c, "fail")
    /\ summaries' = summaries \ {c}
    /\ row' = [row EXCEPT ![c] = "error"]
    /\ Reject(c)
    /\ UNCHANGED <<up, vault, ref, jobVars, fileVars>>

FailCallFails(c) ==
    /\ At(c, "fail")
    /\ summaries' = summaries \ {c}
    /\ Reject(c)
    /\ UNCHANGED <<up, vault, manifestVars, jobVars, fileVars>>

-----------------------------------------------------------------------------
(* The blocking job persist_snapshot.  It owns the lock from before the    *)
(* export until the directory is synced, whether or not its caller still   *)
(* waits for it.                                                           *)

JobAt(c, stage) == up[SessionOf[c]] = "up" /\ job[c] = stage

\* finish_call hands the job to the blocking pool and awaits it.
SubmitSnapshot(c) ==
    /\ At(c, "finish")
    /\ Goto(c, "persist")
    /\ job' = [job EXCEPT ![c] = "queued"]
    /\ UNCHANGED <<up, vault, manifestVars, summaries, lock, bytes, temps, fileVars>>

\* Mutant: the job does not exclude the jobs of other calls.
LockSnapshotShared(c) ==
    /\ JobAt(c, "queued")
    /\ lock' = [lock EXCEPT ![SessionOf[c]] = c]
    /\ job' = [job EXCEPT ![c] = "locked"]
    /\ UNCHANGED <<up, vault, callVars, manifestVars, summaries, bytes, temps, fileVars>>

\* The job waits for snapshot_lock before it looks at the token map.
LockSnapshot(c) ==
    /\ JobAt(c, "queued")
    /\ lock[SessionOf[c]] = NoCall
    /\ lock' = [lock EXCEPT ![SessionOf[c]] = c]
    /\ job' = [job EXCEPT ![c] = "locked"]
    /\ UNCHANGED <<up, vault, callVars, manifestVars, summaries, bytes, temps, fileVars>>

\* gaze_session.export() under the lock.
ExportSnapshot(c) ==
    /\ JobAt(c, "locked")
    /\ bytes' = [bytes EXCEPT ![c] = vault[SessionOf[c]]]
    /\ job' = [job EXCEPT ![c] = "exported"]
    /\ UNCHANGED <<up, vault, callVars, manifestVars, summaries, lock, temps, fileVars>>

\* prepare_private_file: a fresh temporary file, written and synced.
StageSnapshot(c) ==
    /\ JobAt(c, "exported")
    /\ temps' = temps \cup {c}
    /\ job' = [job EXCEPT ![c] = "staged"]
    /\ UNCHANGED <<up, vault, callVars, manifestVars, summaries, lock, bytes, fileVars>>

\* file.persist: the rename replaces the published snapshot in one step.
RenameSnapshot(c) ==
    /\ JobAt(c, "staged")
    /\ temps' = temps \ {c}
    /\ snap' = [snap EXCEPT ![SessionOf[c]] = bytes[c]]
    /\ job' = [job EXCEPT ![c] = "renamed"]
    /\ UNCHANGED <<up, vault, callVars, manifestVars, summaries, lock, bytes, disk>>

\* Mutant: the directory entry is not synced before the row may refer to it.
SyncDirectoryForgotten(c) ==
    /\ JobAt(c, "renamed")
    /\ lock' = [lock EXCEPT ![SessionOf[c]] = NoCall]
    /\ job' = [job EXCEPT ![c] = "ok"]
    /\ UNCHANGED <<up, vault, callVars, manifestVars, summaries, bytes, temps, fileVars>>

\* sync_all on the directory; returning drops the guard.
SyncDirectory(c) ==
    /\ JobAt(c, "renamed")
    /\ disk' = [disk EXCEPT ![SessionOf[c]] = snap[SessionOf[c]]]
    /\ lock' = [lock EXCEPT ![SessionOf[c]] = NoCall]
    /\ job' = [job EXCEPT ![c] = "ok"]
    /\ UNCHANGED <<up, vault, callVars, manifestVars, summaries, bytes, temps, snap>>

\* Mutant: a failing job keeps the lock.
PersistFailsKeepsLock(c) ==
    /\ up[SessionOf[c]] = "up"
    /\ job[c] \in JobHoldsLock
    /\ temps' = temps \ {c}
    /\ job' = [job EXCEPT ![c] = "err"]
    /\ UNCHANGED <<up, vault, callVars, manifestVars, summaries, lock, bytes, fileVars>>

\* Any step under the lock may fail; the temporary file is dropped, the
\* guard is released and the published file stays as the job left it.
PersistFails(c) ==
    /\ up[SessionOf[c]] = "up"
    /\ job[c] \in JobHoldsLock
    /\ temps' = temps \ {c}
    /\ lock' = [lock EXCEPT ![SessionOf[c]] = NoCall]
    /\ job' = [job EXCEPT ![c] = "err"]
    /\ UNCHANGED <<up, vault, callVars, manifestVars, summaries, bytes, fileVars>>

-----------------------------------------------------------------------------
(* finish_call after the job, and the answer.                              *)

\* The UPDATE that closes the row and names the snapshot.
FinishCall(c) ==
    /\ At(c, "persist")
    /\ job[c] = "ok"
    /\ summaries' = summaries \ {c}
    /\ row' = [row EXCEPT ![c] = "ok"]
    /\ ref' = ref \cup {c}
    /\ Goto(c, "answer")
    /\ UNCHANGED <<up, vault, jobVars, fileVars>>

\* The UPDATE fails: the row stays open, the caller gets an error, and the
\* envelope does not call fail_call for a failed finish.
FinishCallFails(c) ==
    /\ At(c, "persist")
    /\ job[c] = "ok"
    /\ summaries' = summaries \ {c}
    /\ Reject(c)
    /\ UNCHANGED <<up, vault, manifestVars, jobVars, fileVars>>

\* Mutant: the row is closed although the snapshot job failed.
SnapshotFailedIgnored(c) ==
    /\ At(c, "persist")
    /\ job[c] = "err"
    /\ row' = [row EXCEPT ![c] = "ok"]
    /\ ref' = ref \cup {c}
    /\ Goto(c, "answer")
    /\ UNCHANGED <<up, vault, summaries, jobVars, fileVars>>

\* The snapshot job failed: finish_call returns before it takes the summary.
SnapshotFailed(c) ==
    /\ At(c, "persist")
    /\ job[c] = "err"
    /\ Reject(c)
    /\ UNCHANGED <<up, vault, manifestVars, summaries, jobVars, fileVars>>

Respond(c) ==
    /\ At(c, "answer")
    /\ pc' = [pc EXCEPT ![c] = "done"]
    /\ answer' = [answer EXCEPT ![c] = "result"]
    /\ UNCHANGED <<up, vault, manifestVars, summaries, jobVars, fileVars>>

\* The response does not decode, or the discovery metadata of schema and
\* list_tables cannot be derived: an error although the row says ok.
RespondFails(c) ==
    /\ At(c, "answer")
    /\ Reject(c)
    /\ UNCHANGED <<up, vault, manifestVars, summaries, jobVars, fileVars>>

\* The caller's future is dropped where it awaits the source or the job.
Cancel(c) ==
    /\ \/ At(c, "invoke")
       \/ At(c, "persist")
    /\ Goto(c, "cancelled")
    /\ UNCHANGED <<up, vault, manifestVars, summaries, jobVars, fileVars>>

-----------------------------------------------------------------------------
(* Failures of the process and of the machine.                             *)

\* What the exit of the processes in dead leaves behind: the manifest, the
\* snapshot directory, and temporary files no destructor removed.
Stop(dead) ==
    /\ up' = [s \in Sessions |-> IF s \in dead THEN "down" ELSE up[s]]
    /\ vault' = [s \in Sessions |-> IF s \in dead THEN {} ELSE vault[s]]
    /\ pc' = [c \in Calls |-> IF SessionOf[c] \in dead /\ pc[c] # "done"
                                THEN "lost" ELSE pc[c]]
    /\ job' = [c \in Calls |-> IF SessionOf[c] \in dead THEN "none" ELSE job[c]]
    /\ lock' = [s \in Sessions |-> IF s \in dead THEN NoCall ELSE lock[s]]
    /\ summaries' = {c \in summaries : SessionOf[c] \notin dead}
    /\ UNCHANGED <<answer, manifestVars, bytes, temps>>

Exit(s) ==
    /\ up[s] = "up"
    /\ Stop({s})
    /\ UNCHANGED fileVars

\* Each snapshot file is what processes saw or what was last synced.
PowerLoss ==
    /\ Stop({s \in Sessions : up[s] = "up"})
    /\ \E reverted \in SUBSET Sessions :
          snap' = [s \in Sessions |-> IF s \in reverted THEN disk[s] ELSE snap[s]]
    /\ disk' = snap'

-----------------------------------------------------------------------------
\* Steps of call c that write the manifest.
ManifestStep(c) == BeginCall(c) \/ FailCall(c) \/ FinishCall(c)

\* Every other step dispatch_tool takes for call c.
LocalStep(c) ==
    \/ RejectCall(c) \/ RedactArgs(c) \/ BeginCallFails(c)
    \/ InvokeSource(c) \/ InvokeSourceFails(c)
    \/ RedactResult(c) \/ RedactResultFails(c) \/ ToolFailsLate(c)
    \/ FailCallFails(c) \/ SubmitSnapshot(c)
    \/ FinishCallFails(c) \/ SnapshotFailed(c) \/ Respond(c) \/ RespondFails(c)

\* Steps of the blocking job of c.
JobStep(c) ==
    \/ LockSnapshot(c) \/ ExportSnapshot(c) \/ StageSnapshot(c)
    \/ RenameSnapshot(c) \/ SyncDirectory(c) \/ PersistFails(c)

Next ==
    \/ \E c \in Calls : ManifestStep(c) \/ LocalStep(c) \/ JobStep(c) \/ Cancel(c)
    \/ \E s \in Sessions : StartSession(s) \/ StartSessionFails(s) \/ Exit(s)
    \/ PowerLoss

Spec == Init /\ [][Next]_vars

\* A call in a source that may block its thread: connect_db_source runs
\* SshTunnel::open, a Command::status that no timeout interrupts.
MayBlock(c) == c \in Tunnelled /\ At(c, "invoke")

\* However many of those block, a thread is left to poll the tasks of session s.
WorkerFree(s) == Cardinality({c \in Calls : SessionOf[c] = s /\ MayBlock(c)}) < Workers

\* The runtime polls every ready task while it has a thread to do so.  Every
\* other source call ends by the 30 s timeout at the latest; of a call in a
\* source that may block nothing is assumed.
PolledStep(c) ==
    /\ ~MayBlock(c) /\ WorkerFree(SessionOf[c])
    /\ ManifestStep(c) \/ LocalStep(c)

\* Blocking jobs have threads of their own.
Fairness == \A c \in Calls : WF_vars(PolledStep(c)) /\ WF_vars(JobStep(c))

FairSpec == Spec /\ Fairness
-----------------------------------------------------------------------------
(* Correctness.                                                            *)

\* Every variable keeps its type; in particular core_summaries is keyed by
\* calls and the snapshot lock is held by at most one of them.
TypeOK ==
    /\ up \in [Sessions -> {"new", "up", "down"}]
    /\ vault \in [Sessions -> SUBSET Tokens]
    /\ pc \in [Calls -> PcValues]
    /\ answer \in [Calls -> {"none", "result", "error"}]
    /\ row \in [Calls -> {"none", "in-progress", "ok", "error"}]
    /\ ref \in SUBSET Calls
    /\ summaries \in SUBSET Calls
    /\ lock \in [Sessions -> Calls \cup {NoCall}]
    /\ job \in [Calls -> JobStages]
    /\ bytes \in [Calls -> SUBSET Tokens]
    /\ temps \in SUBSET Calls
    /\ snap \in [Sessions -> (SUBSET Tokens) \cup {Absent}]
    /\ disk \in [Sessions -> (SUBSET Tokens) \cup {Absent}]

Restores(file, c) == file # Absent /\ TokensOf(c) \subseteq file

\* A row that says ok refers to a published snapshot that restores every
\* token the call minted: whatever jobs of other calls replaced the file in
\* between, whatever process exited, and after a power loss too.
OkRowRestorable ==
    \A c \in Calls : row[c] = "ok" => c \in ref /\ Restores(snap[SessionOf[c]], c)

\* While its process runs, a published snapshot is only ever replaced by one
\* that restores at least the same tokens: no queued job publishes an older
\* token map over a newer one.
PublishedMapOnlyGrows ==
    [][\A s \in Sessions :
          (up[s] = "up" /\ up'[s] = "up" /\ snap[s] # Absent)
             => (snap'[s] # Absent /\ snap[s] \subseteq snap'[s])]_vars

\* A result reaches the agent only when the row of its call says ok.
AnswerIsAudited == \A c \in Calls : answer[c] = "result" => row[c] = "ok"

\* An entry of core_summaries belongs to a call whose row is still open, so
\* the map never outgrows the calls the manifest shows as unfinished.
SummaryOfOpenRow == \A c \in summaries : row[c] = "in-progress"

\* A private temporary file is left behind only by a process that exited:
\* under a running process it belongs to the job that is about to rename it.
TempsOwned ==
    \A c \in temps : up[SessionOf[c]] = "up" => job[c] = "staged" /\ lock[SessionOf[c]] = c

\* Every call that opened a row is answered, unless its caller gave up or its
\* process went away: no call waits for the snapshot lock for ever.  Only an ssh
\* that hangs while a tunnel is opened holds a call up: its own, and the others
\* of the process when it leaves no thread to poll them.
CallConcludes ==
    \A c \in Calls : (row[c] = "in-progress") ~>
        \/ pc[c] \in {"done", "cancelled", "lost"}
        \/ MayBlock(c) \/ ~WorkerFree(SessionOf[c])

\* The dispatch of a session implements the audit trail: what is restorable
\* is what the published snapshot file restores.
Trail == INSTANCE AuditTrail WITH
    audit <- row,
    restorable <- {c \in Calls : Restores(snap[SessionOf[c]], c)}

\* Every step of the sessions is a step of the audit trail or invisible to it.
ImplementsAuditTrail == Trail!Spec
=============================================================================
