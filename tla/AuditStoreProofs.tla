-------------------------- MODULE AuditStoreProofs --------------------------
(***************************************************************************)
(* SessionDispatch and AuditStore for any calls, sessions and replayers.   *)
(*                                                                         *)
(* First the dispatch alone.  Its invariant is stated for a set of         *)
(* sessions and kept by every step for every such set: all of them here,   *)
(* and one session at a time in the second part, where sweeps take files   *)
(* away.                                                                   *)
(*                                                                         *)
(* Then the store.  A sweep takes files away from sessions that are past   *)
(* the retention, which may still run: of those only RowInv is known.      *)
(* Every other session keeps the whole invariant of the first part.        *)
(***************************************************************************)
EXTENDS AuditStore, TLAPS

CallsOf(S) == {c \in Calls : SessionOf[c] \in S}

\* A session that has not started has seen no call; one that is not running
\* holds no lock, runs no job and has no call in flight.
LifeInv(S) ==
    /\ \A s \in S : up[s] # "up" => lock[s] = NoCall
    /\ \A s \in S : up[s] = "new" => snap[s] = Absent /\ disk[s] = Absent
    /\ \A c \in CallsOf(S) : up[SessionOf[c]] # "up" =>
          job[c] = "none" /\ pc[c] \in {"idle", "done", "lost"}
    /\ \A c \in CallsOf(S) : up[SessionOf[c]] = "new" => c \notin temps

\* The lock is held by exactly the job that is past it, and a call has a job
\* only once it has reached the snapshot.
LockInv(S) ==
    \A c \in CallsOf(S) :
       /\ job[c] \in JobHoldsLock <=> lock[SessionOf[c]] = c
       /\ pc[c] \in {"idle", "begin", "invoke", "redact", "finish", "fail"} => job[c] = "none"

\* What the row and the answer say at each place.
RowInv(S) ==
    \A c \in CallsOf(S) :
       /\ pc[c] \in {"idle", "begin"} => row[c] = "none"
       /\ pc[c] \in {"invoke", "redact", "finish", "fail", "persist"} => row[c] = "in-progress"
       /\ pc[c] = "answer" => row[c] = "ok"
       /\ answer[c] # "none" => pc[c] = "done"
       /\ answer[c] = "result" => row[c] = "ok"
       /\ c \in summaries => row[c] = "in-progress"

\* Which tokens the in-memory session holds at each place.
MintInv(S) ==
    \A c \in CallsOf(S) :
       /\ pc[c] \in {"begin", "invoke", "redact"} => Arg(c) \in vault[SessionOf[c]]
       /\ pc[c] = "finish" \/ job[c] # "none" => TokensOf(c) \subseteq vault[SessionOf[c]]

\* The published file never runs ahead of the session nor behind the synced
\* one, and the job under the lock is about to publish at least that much.
FileInv(S) ==
    /\ \A s \in S :
          /\ snap[s] # Absent /\ up[s] = "up" => snap[s] \subseteq vault[s]
          /\ disk[s] # Absent => snap[s] # Absent /\ disk[s] \subseteq snap[s]
    /\ \A c \in CallsOf(S) : job[c] \in {"exported", "staged", "renamed"} =>
          /\ TokensOf(c) \subseteq bytes[c]
          /\ bytes[c] \subseteq vault[SessionOf[c]]
          /\ snap[SessionOf[c]] # Absent => snap[SessionOf[c]] \subseteq bytes[c]
    /\ \A c \in CallsOf(S) : job[c] = "renamed" => snap[SessionOf[c]] = bytes[c]

\* A call whose job succeeded, and so one whose row says ok, is restorable
\* from the file a power loss would leave.
CommitInv(S) ==
    \A c \in CallsOf(S) :
       /\ job[c] = "ok" \/ row[c] = "ok" => Restores(disk[SessionOf[c]], c)
       /\ row[c] = "ok" => c \in ref

TempInv(S) ==
    \A c \in temps \cap CallsOf(S) : up[SessionOf[c]] = "up" => job[c] = "staged"

SafeInv(S) ==
    /\ LifeInv(S) /\ LockInv(S) /\ RowInv(S) /\ MintInv(S)
    /\ FileInv(S) /\ CommitInv(S) /\ TempInv(S)

IInv == SafeInv(Sessions)

-----------------------------------------------------------------------------
\* The tokens of a call are tokens.
LEMMA TokenFacts ==
    ASSUME NEW c \in Calls
    PROVE  /\ Arg(c) \in Tokens /\ Res(c) \in Tokens
           /\ TokensOf(c) \subseteq Tokens
           /\ SessionOf[c] \in Sessions
  BY SessionOfAssumption DEF Arg, Res, TokensOf, Tokens

\* Every variable keeps its type (TypeOK), whatever call, job, exit or power
\* loss takes the step.
LEMMA TypeStep == TypeOK /\ [Next]_vars => TypeOK'
<1> SUFFICES ASSUME TypeOK, [Next]_vars PROVE TypeOK'
  OBVIOUS
<1> USE DEF TypeOK, callVars, manifestVars, jobVars, fileVars, At, Goto, Reject, JobAt
<1>1. ASSUME NEW c \in Calls, ManifestStep(c) PROVE TypeOK'
  BY <1>1 DEF ManifestStep, BeginCall, FailCall, FinishCall, PcValues
<1>2. ASSUME NEW c \in Calls, LocalStep(c) PROVE TypeOK'
  <2>1. CASE RejectCall(c) \/ BeginCallFails(c) \/ FailCallFails(c)
    BY <2>1 DEF RejectCall, BeginCallFails, FailCallFails, PcValues
  <2>2. CASE RedactArgs(c)
    BY <2>2, TokenFacts DEF RedactArgs, Mint, PcValues
  <2>3. CASE InvokeSource(c) \/ InvokeSourceFails(c) \/ ToolFailsLate(c)
    BY <2>3 DEF InvokeSource, InvokeSourceFails, ToolFailsLate, PcValues
  <2>4. CASE RedactResult(c)
    BY <2>4, TokenFacts DEF RedactResult, Mint, PcValues
  <2>5. CASE RedactResultFails(c)
    BY <2>5, TokenFacts DEF RedactResultFails, Mint, PcValues
  <2>6. CASE SubmitSnapshot(c)
    BY <2>6 DEF SubmitSnapshot, PcValues, JobStages
  <2>7. CASE FinishCallFails(c) \/ SnapshotFailed(c) \/ Respond(c) \/ RespondFails(c)
    BY <2>7 DEF FinishCallFails, SnapshotFailed, Respond, RespondFails, PcValues
  <2> QED BY <1>2, <2>1, <2>2, <2>3, <2>4, <2>5, <2>6, <2>7 DEF LocalStep
<1>3. ASSUME NEW c \in Calls, JobStep(c) PROVE TypeOK'
  <2>1. CASE LockSnapshot(c)
    BY <2>1, TokenFacts DEF LockSnapshot, JobStages
  <2>2. CASE ExportSnapshot(c)
    BY <2>2, TokenFacts DEF ExportSnapshot, JobStages
  <2>3. CASE StageSnapshot(c)
    BY <2>3 DEF StageSnapshot, JobStages
  <2>4. CASE RenameSnapshot(c)
    BY <2>4, TokenFacts DEF RenameSnapshot, JobStages
  <2>5. CASE SyncDirectory(c)
    BY <2>5, TokenFacts DEF SyncDirectory, JobStages
  <2>6. CASE PersistFails(c)
    BY <2>6, TokenFacts DEF PersistFails, JobStages
  <2> QED BY <1>3, <2>1, <2>2, <2>3, <2>4, <2>5, <2>6 DEF JobStep
<1>4. ASSUME NEW c \in Calls, Cancel(c) PROVE TypeOK'
  BY <1>4 DEF Cancel, PcValues
<1>5. ASSUME NEW s \in Sessions, StartSession(s) \/ StartSessionFails(s) PROVE TypeOK'
  BY <1>5 DEF StartSession, StartSessionFails
<1>6. ASSUME NEW dead \in SUBSET Sessions, Stop(dead),
             snap' \in [Sessions -> (SUBSET Tokens) \cup {Absent}],
             disk' \in [Sessions -> (SUBSET Tokens) \cup {Absent}]
      PROVE  TypeOK'
  BY <1>6 DEF Stop, PcValues, JobStages
<1>7. ASSUME NEW s \in Sessions, Exit(s) PROVE TypeOK'
  BY <1>6, <1>7 DEF Exit
<1>8. CASE PowerLoss
  <2>1. snap' \in [Sessions -> (SUBSET Tokens) \cup {Absent}]
    BY <1>8 DEF PowerLoss
  <2> QED BY <1>6, <1>8, <2>1 DEF PowerLoss
<1>9. CASE UNCHANGED vars
  BY <1>9 DEF vars
<1> QED BY <1>1, <1>2, <1>3, <1>4, <1>5, <1>7, <1>8, <1>9 DEF Next

\* Every call belongs to a session.
LEMMA SessionType == \A d \in Calls : SessionOf[d] \in Sessions
  BY SessionOfAssumption

\* A manifest write of a call keeps the invariant.
LEMMA ManifestStepInv ==
    ASSUME TypeOK, NEW S \in SUBSET Sessions, SafeInv(S), NEW c \in Calls, ManifestStep(c)
    PROVE  SafeInv(S)'
<1> USE SessionType, NoCallAssumption DEF TypeOK, SafeInv, CallsOf, LifeInv, LockInv, RowInv, MintInv, FileInv, CommitInv, TempInv,
        JobHoldsLock, TokensOf, Restores, callVars, manifestVars, jobVars, fileVars, At, Goto, Reject, JobAt, Mint
<1>1. CASE BeginCall(c)
  BY <1>1 DEF BeginCall
<1>2. CASE FailCall(c)
  BY <1>2 DEF FailCall
<1>3. CASE FinishCall(c)
  BY <1>3 DEF FinishCall
<1> QED BY <1>1, <1>2, <1>3 DEF ManifestStep

\* Every other step of dispatch_tool keeps it.
LEMMA LocalStepInv ==
    ASSUME TypeOK, NEW S \in SUBSET Sessions, SafeInv(S), NEW c \in Calls, LocalStep(c)
    PROVE  SafeInv(S)'
<1> USE SessionType, NoCallAssumption DEF TypeOK, SafeInv, CallsOf, LifeInv, LockInv, RowInv, MintInv, FileInv, CommitInv, TempInv,
        JobHoldsLock, TokensOf, Restores, callVars, manifestVars, jobVars, fileVars, At, Goto, Reject, JobAt, Mint
<1>1. CASE RejectCall(c)
  BY <1>1 DEF RejectCall
<1>2. CASE RedactArgs(c)
  BY <1>2 DEF RedactArgs
<1>3. CASE BeginCallFails(c)
  BY <1>3 DEF BeginCallFails
<1>4. CASE InvokeSource(c)
  BY <1>4 DEF InvokeSource
<1>5. CASE InvokeSourceFails(c)
  BY <1>5 DEF InvokeSourceFails
<1>6. CASE RedactResult(c)
  BY <1>6 DEF RedactResult
<1>7. CASE RedactResultFails(c)
  BY <1>7 DEF RedactResultFails
<1>8. CASE ToolFailsLate(c)
  BY <1>8 DEF ToolFailsLate
<1>9. CASE FailCallFails(c)
  BY <1>9 DEF FailCallFails
<1>10. CASE SubmitSnapshot(c)
  BY <1>10 DEF SubmitSnapshot
<1>11. CASE FinishCallFails(c)
  BY <1>11 DEF FinishCallFails
<1>12. CASE SnapshotFailed(c)
  BY <1>12 DEF SnapshotFailed
<1>13. CASE Respond(c)
  BY <1>13 DEF Respond
<1>14. CASE RespondFails(c)
  BY <1>14 DEF RespondFails
<1> QED BY <1>1, <1>2, <1>3, <1>4, <1>5, <1>6, <1>7, <1>8, <1>9, <1>10, <1>11, <1>12, <1>13, <1>14 DEF LocalStep

\* Every step of the snapshot job keeps it.
LEMMA JobStepInv ==
    ASSUME TypeOK, NEW S \in SUBSET Sessions, SafeInv(S), NEW c \in Calls, JobStep(c)
    PROVE  SafeInv(S)'
<1> USE SessionType, NoCallAssumption DEF TypeOK, SafeInv, CallsOf, LifeInv, LockInv, RowInv, MintInv, FileInv, CommitInv, TempInv,
        JobHoldsLock, TokensOf, Restores, callVars, manifestVars, jobVars, fileVars, At, Goto, Reject, JobAt, Mint
<1>1. CASE LockSnapshot(c)
  BY <1>1 DEF LockSnapshot
<1>2. CASE ExportSnapshot(c)
  BY <1>2 DEF ExportSnapshot
<1>3. CASE StageSnapshot(c)
  BY <1>3 DEF StageSnapshot
<1>b. bytes[c] # Absent
  BY AbsentAssumption
<1>4. CASE RenameSnapshot(c)
  <2>1. /\ SessionOf[c] \in S /\ snap[SessionOf[c]] # Absent => snap[SessionOf[c]] \subseteq bytes[c]
        /\ snap' = [snap EXCEPT ![SessionOf[c]] = bytes[c]]
    BY <1>4 DEF RenameSnapshot
  <2>2. (LifeInv(S) /\ LockInv(S) /\ RowInv(S) /\ MintInv(S) /\ CommitInv(S) /\ TempInv(S))'
    BY <1>4 DEF RenameSnapshot
  <2>3. FileInv(S)'
    BY <1>4, <1>b, <2>1 DEF RenameSnapshot
  <2> QED BY <2>2, <2>3
<1>5. CASE SyncDirectory(c)
  <2>1. SessionOf[c] \in S =>
           disk' = [disk EXCEPT ![SessionOf[c]] = bytes[c]] /\ TokensOf(c) \subseteq bytes[c]
    BY <1>5 DEF SyncDirectory
  <2>2. CommitInv(S)'
    BY <1>5, <1>b, <2>1 DEF SyncDirectory
  <2>3. (LifeInv(S) /\ LockInv(S) /\ RowInv(S) /\ MintInv(S) /\ FileInv(S) /\ TempInv(S))'
    BY <1>5, <1>b DEF SyncDirectory
  <2> QED BY <2>2, <2>3
<1>6. CASE PersistFails(c)
  BY <1>6 DEF PersistFails
<1> QED BY <1>1, <1>2, <1>3, <1>4, <1>5, <1>6 DEF JobStep

\* The exit of processes keeps it, provided the snapshot files afterwards are
\* no smaller than the synced ones.
LEMMA StopInv ==
    ASSUME TypeOK, NEW S \in SUBSET Sessions, SafeInv(S), NEW dead \in SUBSET Sessions, Stop(dead),
           \A s \in S :
              /\ up[s] = "new" => snap'[s] = Absent /\ disk'[s] = Absent
              /\ disk[s] # Absent => disk'[s] # Absent /\ disk[s] \subseteq disk'[s]
              /\ disk'[s] # Absent => snap'[s] # Absent /\ disk'[s] \subseteq snap'[s]
              /\ s \notin dead /\ up[s] = "up" => snap'[s] = snap[s]
    PROVE  SafeInv(S)'
<1> USE SessionType, NoCallAssumption DEF TypeOK, SafeInv, CallsOf, LifeInv, LockInv, RowInv, MintInv, FileInv, CommitInv, TempInv,
        JobHoldsLock, TokensOf, Restores, manifestVars, Stop
<1>1. (LifeInv(S) /\ LockInv(S))'
  OBVIOUS
<1>2. (RowInv(S) /\ MintInv(S) /\ TempInv(S))'
  OBVIOUS
<1>3. FileInv(S)'
  OBVIOUS
<1>4. CommitInv(S)'
  OBVIOUS
<1> QED BY <1>1, <1>2, <1>3, <1>4

\* The invariant is inductive, for any sessions.
LEMMA InvStep ==
    ASSUME TypeOK, NEW S \in SUBSET Sessions, SafeInv(S), [Next]_vars
    PROVE  SafeInv(S)'
<1>1. ASSUME NEW c \in Calls, ManifestStep(c) \/ LocalStep(c) \/ JobStep(c)
      PROVE  SafeInv(S)'
  BY <1>1, ManifestStepInv, LocalStepInv, JobStepInv
<1>2. ASSUME NEW c \in Calls, Cancel(c) PROVE SafeInv(S)'
  BY <1>2, SessionType DEF TypeOK, SafeInv, CallsOf, LifeInv, LockInv, RowInv, MintInv, FileInv,
     CommitInv, TempInv, JobHoldsLock, TokensOf, Restores,
     Cancel, At, Goto, manifestVars, jobVars, fileVars
<1>3. ASSUME NEW s \in Sessions, StartSession(s) \/ StartSessionFails(s) PROVE SafeInv(S)'
  BY <1>3, SessionType DEF TypeOK, SafeInv, CallsOf, LifeInv, LockInv, RowInv, MintInv, FileInv,
     CommitInv, TempInv, JobHoldsLock, TokensOf, Restores,
     StartSession, StartSessionFails, callVars, manifestVars, jobVars, fileVars
<1>4. ASSUME NEW s \in Sessions, Exit(s) PROVE SafeInv(S)'
  <2>1. Stop({s}) /\ UNCHANGED <<snap, disk>>
    BY <1>4 DEF Exit, fileVars
  <2>2. \A t \in S :
           /\ up[t] = "new" => snap'[t] = Absent /\ disk'[t] = Absent
           /\ disk[t] # Absent => disk'[t] # Absent /\ disk[t] \subseteq disk'[t]
           /\ disk'[t] # Absent => snap'[t] # Absent /\ disk'[t] \subseteq snap'[t]
           /\ t \notin {s} /\ up[t] = "up" => snap'[t] = snap[t]
    BY <2>1 DEF SafeInv, LifeInv, FileInv
  <2> QED BY <2>1, <2>2, StopInv
<1>5. CASE PowerLoss
  <2>1. PICK reverted \in SUBSET Sessions :
           snap' = [s \in Sessions |-> IF s \in reverted THEN disk[s] ELSE snap[s]]
    BY <1>5 DEF PowerLoss
  <2>2. Stop({s \in Sessions : up[s] = "up"}) /\ disk' = snap'
    BY <1>5 DEF PowerLoss
  <2>3. \A s \in S :
           /\ up[s] = "new" => snap'[s] = Absent /\ disk'[s] = Absent
           /\ disk[s] # Absent => disk'[s] # Absent /\ disk[s] \subseteq disk'[s]
           /\ disk'[s] # Absent => snap'[s] # Absent /\ disk'[s] \subseteq snap'[s]
    BY <2>1, <2>2 DEF TypeOK, SafeInv, LifeInv, FileInv
  <2>4. \A s \in S : s \notin {t \in Sessions : up[t] = "up"} /\ up[s] = "up" => snap'[s] = snap[s]
    OBVIOUS
  <2> QED BY <2>2, <2>3, <2>4, StopInv
<1>6. CASE UNCHANGED vars
  BY <1>6 DEF vars, TypeOK, SafeInv, CallsOf, LifeInv, LockInv, RowInv, MintInv, FileInv,
     CommitInv, TempInv, JobHoldsLock, TokensOf, Restores
<1> QED BY <1>1, <1>2, <1>3, <1>4, <1>5, <1>6 DEF Next

\* In particular for all of them.
LEMMA InvNext == TypeOK /\ IInv /\ [Next]_vars => IInv'
  BY InvStep DEF IInv

\* Every variable keeps its type in every behaviour of the dispatch.
THEOREM TypeCorrect == Spec => []TypeOK
<1>1. Init => TypeOK
  BY DEF Init, TypeOK, PcValues, JobStages
<1> QED BY <1>1, TypeStep, PTL DEF Spec

\* The inductive invariant holds in every reachable state.
LEMMA Invariant == Spec => [](TypeOK /\ IInv)
<1>1. Init => TypeOK /\ IInv
  BY NoCallAssumption, SessionType DEF Init, TypeOK, PcValues, JobStages, IInv, SafeInv, CallsOf, LifeInv, LockInv, RowInv, MintInv,
     FileInv, CommitInv, TempInv, JobHoldsLock, TokensOf, Restores
<1> QED BY <1>1, TypeStep, InvNext, PTL DEF Spec

\* A row that says ok refers to a snapshot that restores the tokens of its
\* call, across concurrent jobs, exits and power losses.
THEOREM OkRowsStayRestorable == Spec => []OkRowRestorable
<1>1. TypeOK /\ IInv => OkRowRestorable
  BY SessionType DEF IInv, SafeInv, CallsOf, RowInv, FileInv, CommitInv, Restores, OkRowRestorable
<1> QED BY <1>1, Invariant, PTL

\* A result reaches the agent only when its row says ok.
THEOREM AnswersAreAudited == Spec => []AnswerIsAudited
<1>1. IInv => AnswerIsAudited
  BY SessionType DEF IInv, SafeInv, CallsOf, RowInv, AnswerIsAudited
<1> QED BY <1>1, Invariant, PTL

\* core_summaries has entries for calls with an open row only.
THEOREM SummariesOfOpenRows == Spec => []SummaryOfOpenRow
<1>1. TypeOK /\ IInv => SummaryOfOpenRow
  BY SessionType DEF TypeOK, IInv, SafeInv, CallsOf, RowInv, SummaryOfOpenRow
<1> QED BY <1>1, Invariant, PTL

\* No temporary file outlives its job under a running process.
THEOREM TempsAreOwned == Spec => []TempsOwned
<1>1. TypeOK /\ IInv => TempsOwned
  BY SessionType DEF TypeOK, IInv, SafeInv, CallsOf, TempInv, LockInv, JobHoldsLock, TempsOwned
<1> QED BY <1>1, Invariant, PTL

\* A running process never publishes an older token map over a newer one.
THEOREM PublishedMapsOnlyGrow == Spec => PublishedMapOnlyGrows
<1> DEFINE Grows == \A s \in Sessions :
                       (up[s] = "up" /\ up'[s] = "up" /\ snap[s] # Absent)
                          => (snap'[s] # Absent /\ snap[s] \subseteq snap'[s])
<1>1. TypeOK /\ IInv /\ [Next]_vars => [Grows]_vars
  <2> SUFFICES ASSUME TypeOK, IInv, Next PROVE Grows
    BY DEF vars
  <2>1. ASSUME NEW c \in Calls, RenameSnapshot(c) PROVE Grows
    BY <2>1, SessionType, AbsentAssumption DEF TypeOK, IInv, SafeInv, CallsOf, FileInv, RenameSnapshot, JobAt
  <2>2. CASE PowerLoss
    BY <2>2 DEF PowerLoss, Stop
  <2>3. ASSUME NEW c \in Calls, ManifestStep(c) \/ LocalStep(c) PROVE snap' = snap
    BY <2>3 DEF ManifestStep, LocalStep, BeginCall, FailCall, FinishCall, RejectCall, RedactArgs, BeginCallFails,
       InvokeSource, InvokeSourceFails, RedactResult, RedactResultFails, ToolFailsLate, FailCallFails, SubmitSnapshot,
       FinishCallFails, SnapshotFailed, Respond, RespondFails, fileVars
  <2>4. ASSUME NEW c \in Calls, JobStep(c) \/ Cancel(c) PROVE RenameSnapshot(c) \/ snap' = snap
    BY <2>4 DEF JobStep, Cancel, LockSnapshot, ExportSnapshot, StageSnapshot, SyncDirectory, PersistFails, fileVars
  <2>5. ASSUME NEW s \in Sessions, StartSession(s) \/ StartSessionFails(s) \/ Exit(s) PROVE snap' = snap
    BY <2>5 DEF StartSession, StartSessionFails, Exit, fileVars
  <2>6. snap' = snap => Grows
    OBVIOUS
  <2> QED BY <2>1, <2>2, <2>3, <2>4, <2>5, <2>6 DEF Next
<1> QED BY <1>1, Invariant, PTL DEF Spec, PublishedMapOnlyGrows

-----------------------------------------------------------------------------
(* The refinement of AuditTrail.                                           *)

Restorable == {c \in Calls : Restores(snap[SessionOf[c]], c)}

\* A step that changes neither rows, answers nor published files is invisible;
\* one that only changes files publishes, because no committed call loses
\* its mappings.
LEMMA FileStepRefines ==
    ASSUME TypeOK, IInv', row' = row, answer' = answer
    PROVE  [Trail!Next]_Trail!vars
<1>1. Trail!Committed \subseteq Restorable'
  BY SessionType DEF Trail!Committed, IInv, SafeInv, CallsOf, FileInv, CommitInv, Restorable, Restores
<1>2. Restorable' \in SUBSET Calls
  BY DEF Restorable
<1>3. Trail!Publish
  BY <1>1, <1>2 DEF Trail!Publish, Restorable
<1> QED BY <1>3 DEF Trail!Next

\* Every step of a call is a step of the audit trail or invisible to it.
LEMMA CallStepRefines ==
    ASSUME TypeOK, IInv, NEW c \in Calls, ManifestStep(c) \/ LocalStep(c)
    PROVE  [Trail!Next]_Trail!vars
<1> USE DEF callVars, manifestVars, jobVars, fileVars, At, Goto, Reject
<1>1. CASE BeginCall(c)
  <2>1. Trail!Open(c)
    BY <1>1, SessionType DEF BeginCall, Trail!Open, IInv, SafeInv, CallsOf, RowInv
  <2> QED BY <2>1 DEF Trail!Next
<1>2. CASE FailCall(c)
  <2>1. Trail!Fail(c)
    BY <1>2, SessionType DEF FailCall, Trail!Fail, TypeOK, IInv, SafeInv, CallsOf, RowInv
  <2> QED BY <2>1 DEF Trail!Next
<1>3. CASE FinishCall(c)
  <2>1. Restores(snap[SessionOf[c]], c)
    BY <1>3, SessionType DEF FinishCall, IInv, SafeInv, CallsOf, FileInv, CommitInv, Restores
  <2>2. Trail!Commit(c)
    BY <1>3, <2>1, SessionType DEF FinishCall, Trail!Commit, IInv, SafeInv, CallsOf, RowInv
  <2> QED BY <2>2 DEF Trail!Next
<1>4. CASE Respond(c)
  <2>1. Trail!AnswerResult(c)
    BY <1>4, SessionType DEF Respond, Trail!AnswerResult, TypeOK, IInv, SafeInv, CallsOf, RowInv
  <2> QED BY <2>1 DEF Trail!Next
<1>5. CASE \/ RejectCall(c) \/ BeginCallFails(c) \/ FailCallFails(c)
           \/ FinishCallFails(c) \/ SnapshotFailed(c) \/ RespondFails(c)
  <2>1. Trail!AnswerError(c)
    BY <1>5, SessionType DEF RejectCall, BeginCallFails, FailCallFails, FinishCallFails, SnapshotFailed, RespondFails,
       Trail!AnswerError, TypeOK, IInv, SafeInv, CallsOf, RowInv
  <2> QED BY <2>1 DEF Trail!Next
<1>6. CASE \/ RedactArgs(c) \/ InvokeSource(c) \/ InvokeSourceFails(c) \/ RedactResult(c)
           \/ RedactResultFails(c) \/ ToolFailsLate(c) \/ SubmitSnapshot(c)
  <2>1. UNCHANGED <<row, answer, snap>>
    BY <1>6 DEF RedactArgs, InvokeSource, InvokeSourceFails, RedactResult, RedactResultFails, ToolFailsLate,
       SubmitSnapshot
  <2> QED BY <2>1 DEF Trail!vars
<1> QED BY <1>1, <1>2, <1>3, <1>4, <1>5, <1>6 DEF ManifestStep, LocalStep

\* The dispatch of any number of sessions implements the audit trail.
THEOREM DispatchImplementsAuditTrail == Spec => ImplementsAuditTrail
<1>1. Init => Trail!Init
  BY SessionType DEF Init, Trail!Init, Restores
<1>2. TypeOK /\ IInv /\ [Next]_vars => [Trail!Next]_Trail!vars
  <2> SUFFICES ASSUME TypeOK, IInv, [Next]_vars PROVE [Trail!Next]_Trail!vars
    OBVIOUS
  <2>1. IInv'
    BY InvNext
  <2>2. ASSUME NEW c \in Calls, JobStep(c) \/ Cancel(c) PROVE row' = row /\ answer' = answer
    BY <2>2 DEF JobStep, Cancel, LockSnapshot, ExportSnapshot, StageSnapshot, RenameSnapshot, SyncDirectory,
       PersistFails, Goto, callVars, manifestVars
  <2>3. ASSUME NEW s \in Sessions, StartSession(s) \/ StartSessionFails(s) \/ Exit(s) PROVE row' = row /\ answer' = answer
    BY <2>3 DEF StartSession, StartSessionFails, Exit, Stop, callVars, manifestVars
  <2>4. CASE PowerLoss
    BY <2>1, <2>4, FileStepRefines DEF PowerLoss, Stop, manifestVars
  <2>5. CASE UNCHANGED vars
    BY <2>5 DEF vars, Trail!vars
  <2> QED BY <2>1, <2>2, <2>3, <2>4, <2>5, FileStepRefines, CallStepRefines DEF Next
<1> QED BY <1>1, <1>2, Invariant, PTL DEF Spec, ImplementsAuditTrail, Trail!Spec

-----------------------------------------------------------------------------
(* Sessions, sweeps and replays: the inductive invariant.                  *)

\* A session within the retention keeps what its own process established.
YoungInv == \A s \in Sessions \ expired : SafeInv({s})

\* A sweep works on ok rows of old sessions only, and so does the tombstone.
AgeInv ==
    /\ \A c \in purged : SessionOf[c] \in expired
    /\ \A s \in Sessions :
          /\ cutoff[s] \subseteq expired
          /\ \A c \in todo[s] : SessionOf[c] \in expired /\ row[c] = "ok"
          /\ removed[s] # NoCall => SessionOf[removed[s]] \in expired /\ row[removed[s]] = "ok"

\* A candidate of a running sweep is ahead of its cursor, in hand or failed:
\* no row is closed while a cursor is open.
ScanInv ==
    \A s \in Sessions : SweepCursor(s) =>
        Candidates(cutoff[s]) \subseteq todo[s] \cup {removed[s]} \cup kept[s]

\* A replay reads ok rows of its session, and every tombstone of that session
\* is still ahead of its cursor.
CursorInv ==
    \A r \in Replayers :
        /\ \A c \in left[r] : SessionOf[c] = TargetOf[r] /\ row[c] = "ok"
        /\ ReplayCursor(r) => \A c \in purged : SessionOf[c] = TargetOf[r] => c \in left[r]

AuditInv ==
    /\ StoreTypeOK /\ RowInv(Sessions) /\ YoungInv /\ NoMalformedRow
    /\ AgeInv /\ ScanInv /\ CursorInv /\ ReplayLossExplained

-----------------------------------------------------------------------------
(* What the steps of the sessions do to the manifest.                      *)

\* How a step may change the rows: a row is opened, or an open one is closed,
\* and a reference comes with the status ok.
RowsGo ==
    /\ \A c \in Calls :
          \/ row'[c] = row[c]
          \/ row[c] = "none" /\ row'[c] = "in-progress"
          \/ row[c] = "in-progress" /\ row'[c] \in {"ok", "error"}
    /\ ref' = ref \cup {c \in Calls : row[c] # "ok" /\ row'[c] = "ok"}

\* A write of the manifest by call c moves its row on, and RowInv is kept.
LEMMA ManifestRows ==
    ASSUME TypeOK, RowInv(Sessions), NEW c \in Calls, ManifestStep(c)
    PROVE  RowInv(Sessions)' /\ RowsGo
<1> USE SessionType DEF TypeOK, CallsOf, At, Goto, Reject
<1>1. CASE BeginCall(c)
    <2>1. RowsGo
        BY <1>1 DEF BeginCall, RowsGo, RowInv
    <2>2. RowInv(Sessions)'
        BY <1>1 DEF BeginCall, RowInv
    <2> QED
        BY <2>1, <2>2
<1>2. CASE FailCall(c)
    <2>1. RowsGo
        BY <1>2 DEF FailCall, RowsGo, RowInv
    <2>2. RowInv(Sessions)'
        BY <1>2 DEF FailCall, RowInv
    <2> QED
        BY <2>1, <2>2
<1>3. CASE FinishCall(c)
    <2>1. row[c] = "in-progress" /\ row' = [row EXCEPT ![c] = "ok"] /\ ref' = ref \cup {c}
        BY <1>3 DEF FinishCall, RowInv
    <2>2. RowsGo
        BY <2>1 DEF RowsGo
    <2>3. RowInv(Sessions)'
        BY <1>3 DEF FinishCall, RowInv
    <2> QED
        BY <2>2, <2>3
<1> QED
    BY <1>1, <1>2, <1>3 DEF ManifestStep

\* Every other step of the sessions.
OtherStep ==
    \/ \E c \in Calls : LocalStep(c) \/ JobStep(c) \/ Cancel(c)
    \/ \E s \in Sessions : StartSession(s) \/ StartSessionFails(s) \/ Exit(s)
    \/ PowerLoss
    \/ UNCHANGED vars

\* It leaves the manifest as it is.
LEMMA OtherRows ==
    ASSUME TypeOK, RowInv(Sessions), OtherStep
    PROVE  RowInv(Sessions)' /\ UNCHANGED <<row, ref>>
<1> DEFINE Goal == RowInv(Sessions)' /\ UNCHANGED <<row, ref>>
<1> USE SessionType DEF TypeOK, CallsOf, RowInv, callVars, manifestVars
<1>1. ASSUME NEW c \in Calls, LocalStep(c) PROVE Goal
    <2> USE DEF At, Goto, Reject
    <2>1. CASE RejectCall(c) \/ BeginCallFails(c)
        BY <2>1 DEF RejectCall, BeginCallFails
    <2>2. CASE RedactArgs(c) \/ InvokeSource(c) \/ InvokeSourceFails(c)
        BY <2>2 DEF RedactArgs, InvokeSource, InvokeSourceFails
    <2>3. CASE RedactResult(c)
        BY <2>3 DEF RedactResult
    <2>4. CASE RedactResultFails(c) \/ ToolFailsLate(c) \/ SubmitSnapshot(c)
        BY <2>4 DEF RedactResultFails, ToolFailsLate, SubmitSnapshot
    <2>5. CASE FailCallFails(c) \/ FinishCallFails(c)
        BY <2>5 DEF FailCallFails, FinishCallFails
    <2>6. CASE SnapshotFailed(c) \/ Respond(c) \/ RespondFails(c)
        BY <2>6 DEF SnapshotFailed, Respond, RespondFails
    <2> QED
        BY <1>1, <2>1, <2>2, <2>3, <2>4, <2>5, <2>6 DEF LocalStep
<1>2. ASSUME NEW c \in Calls, JobStep(c) PROVE Goal
    BY <1>2 DEF JobStep, LockSnapshot, ExportSnapshot, StageSnapshot, RenameSnapshot,
        SyncDirectory, PersistFails
<1>3. ASSUME NEW c \in Calls, Cancel(c) PROVE Goal
    BY <1>3 DEF Cancel, At, Goto
<1>4. ASSUME NEW s \in Sessions, StartSession(s) \/ StartSessionFails(s) PROVE Goal
    BY <1>4 DEF StartSession, StartSessionFails
<1>5. ASSUME NEW dead, Stop(dead) PROVE Goal
    BY <1>5 DEF Stop
<1>6. CASE UNCHANGED vars
    BY <1>6 DEF vars
<1> QED
    BY <1>1, <1>2, <1>3, <1>4, <1>5, <1>6 DEF OtherStep, Exit, PowerLoss

\* No step of a session deletes, reopens or changes a closed row.
LEMMA SessionRows ==
    ASSUME TypeOK, RowInv(Sessions), [Next]_vars
    PROVE  RowInv(Sessions)' /\ RowsGo
<1>1. CASE \E c \in Calls : ManifestStep(c)
    BY <1>1, ManifestRows
<1>2. CASE OtherStep
    BY <1>2, OtherRows DEF RowsGo, TypeOK
<1> QED
    BY <1>1, <1>2 DEF Next, OtherStep

-----------------------------------------------------------------------------
(* The kinds of steps.                                                     *)

\* A session writes the manifest, while no cursor is open.
Writes == (\E c \in Calls : ManifestStep(c)) /\ Unlocked /\ UNCHANGED storeVars

\* The sessions take a step that writes nothing into the manifest.  A sweep
\* may end with it, for a start or a power loss.
Runs ==
    /\ OtherStep
    /\ UNCHANGED <<expired, purged>>
    /\ \/ UNCHANGED <<sweepVars, replayVars>>
       \/ \E s \in Sessions :
             /\ sweep[s] # "scan" /\ sweep' = [sweep EXCEPT ![s] = "idle"]
             /\ UNCHANGED <<cutoff, todo, removed, kept, replayVars>>
       \/ /\ sweep' = [s \in Sessions |-> IF SweepCursor(s) THEN "idle" ELSE sweep[s]]
          /\ cutoff' = [s \in Sessions |-> {}]
          /\ todo' = [s \in Sessions |-> {}]
          /\ removed' = [s \in Sessions |-> NoCall]
          /\ kept' = [s \in Sessions |-> {}]
          /\ replay' = [r \in Replayers |-> IF ReplayCursor(r) THEN "error" ELSE replay[r]]
          /\ left' = [r \in Replayers |-> {}]

\* Every step is of one of these kinds, or one of a sweep or of a replay.
LEMMA StepKinds ==
    ASSUME [AuditNext]_auditVars
    PROVE  \/ Writes \/ Runs
           \/ \E s \in Sessions : Age(s) \/ SweepStep(s)
           \/ \E r \in Replayers : ReplayStep(r)
<1>1. CASE SessionStep
    BY <1>1 DEF SessionStep, Writes, Runs, OtherStep, storeVars
<1>2. ASSUME NEW s \in Sessions, Start(s) \/ StartFails(s) PROVE Runs
    <2>1. StartSession(s) \/ StartSessionFails(s)
        BY <1>2 DEF Start, StartFails
    <2>2. /\ sweep[s] # "scan" /\ sweep' = [sweep EXCEPT ![s] = "idle"]
          /\ UNCHANGED <<expired, purged, cutoff, todo, removed, kept, replayVars>>
        BY <1>2 DEF Start, StartFails
    <2> QED
        BY <2>1, <2>2 DEF Runs, OtherStep
<1>3. CASE Blackout
    BY <1>3 DEF Blackout, Runs, OtherStep
<1>4. CASE UNCHANGED auditVars
    BY <1>4 DEF auditVars, storeVars, Runs, OtherStep
<1> QED
    BY <1>1, <1>2, <1>3, <1>4 DEF AuditNext

\* Only the removal of a file and the tombstone of a row touch the state of
\* the sessions from outside.
LEMMA OutsideSteps ==
    /\ Writes \/ Runs => [Next]_vars
    /\ \A s \in Sessions : Age(s) \/ OpenSweep(s) \/ CloseSweep(s) \/ AbortSweep(s) => UNCHANGED vars
    /\ \A s \in Sessions, c \in Calls : RemoveFails(s, c) => UNCHANGED vars
    /\ \A r \in Replayers : ReplayStep(r) => UNCHANGED <<vars, expired, purged, sweepVars>>
<1>1. Writes \/ Runs => [Next]_vars
    BY DEF Writes, Runs, OtherStep, Next
<1>2. \A s \in Sessions : Age(s) \/ OpenSweep(s) \/ CloseSweep(s) \/ AbortSweep(s) => UNCHANGED vars
    BY DEF Age, OpenSweep, CloseSweep, AbortSweep
<1>3. \A s \in Sessions, c \in Calls : RemoveFails(s, c) => UNCHANGED vars
    BY DEF RemoveFails
<1>4. \A r \in Replayers : ReplayStep(r) => UNCHANGED <<vars, expired, purged, sweepVars>>
    BY DEF ReplayStep, OpenReplay, EndReplay, ReplayTombstoned, ReplayCall, ReplayUnavailable,
        ReplayFails, CloseReplay
<1> QED
    BY <1>1, <1>2, <1>3, <1>4

\* Every step assigns values of the right kind.
LEMMA StoreTypesStep == AuditInv /\ [AuditNext]_auditVars => StoreTypeOK'
<1> SUFFICES ASSUME AuditInv, [AuditNext]_auditVars PROVE StoreTypeOK'
    OBVIOUS
<1>0. StoreTypeOK
    BY DEF AuditInv
<1>t. UNCHANGED vars => TypeOK'
    BY <1>0, TypeStep DEF StoreTypeOK
<1> DEFINE Rest == /\ expired \in SUBSET Sessions
                   /\ purged \in SUBSET Calls
                   /\ sweep \in [Sessions -> {"idle", "scan", "done"}]
                   /\ cutoff \in [Sessions -> SUBSET Sessions]
                   /\ todo \in [Sessions -> SUBSET Calls]
                   /\ removed \in [Sessions -> Calls \cup {NoCall}]
                   /\ kept \in [Sessions -> SUBSET Calls]
                   /\ replay \in [Replayers -> {"idle", "reading"} \cup ReplayOutcomes]
                   /\ left \in [Replayers -> SUBSET Calls]
                   /\ \A s \in Sessions : ~SweepCursor(s) => todo[s] = {} /\ removed[s] = NoCall
<1>r. Rest
    BY <1>0 DEF StoreTypeOK
<1>s. TypeOK' /\ Rest' => StoreTypeOK'
    BY DEF StoreTypeOK
<1>1. CASE Writes
    <2>1. TypeOK'
        BY <1>0, <1>1, OutsideSteps, TypeStep DEF StoreTypeOK
    <2>2. Rest'
        BY <1>1, <1>r DEF Writes, storeVars, sweepVars, replayVars, SweepCursor
    <2> QED
        BY <1>s, <2>1, <2>2
<1>2. CASE Runs
    <2>1. TypeOK'
        BY <1>0, <1>2, OutsideSteps, TypeStep DEF StoreTypeOK
    <2>2. Rest'
        BY <1>2, <1>r DEF Runs, sweepVars, replayVars, SweepCursor, ReplayCursor, ReplayOutcomes
    <2> QED
        BY <1>s, <2>1, <2>2
<1>3. ASSUME NEW s \in Sessions, Age(s) PROVE StoreTypeOK'
    <2>1. Rest'
        BY <1>3, <1>r DEF Age, sweepVars, replayVars, SweepCursor
    <2> QED
        BY <1>3, <1>s, <1>t, <2>1 DEF Age
<1>4. ASSUME NEW s \in Sessions, OpenSweep(s) PROVE StoreTypeOK'
    <2>1. Candidates(expired) \in SUBSET Calls
        BY DEF Candidates
    <2>2. Rest'
        BY <1>4, <1>r, <2>1 DEF OpenSweep, replayVars, SweepCursor
    <2> QED
        BY <1>4, <1>s, <1>t, <2>2 DEF OpenSweep
<1>5. ASSUME NEW s \in Sessions, NEW c \in Calls, RemoveFile(s, c) PROVE StoreTypeOK'
    <2>1. TypeOK'
        BY <1>0, <1>5, SessionType DEF StoreTypeOK, TypeOK, RemoveFile, sessionOnlyVars
    <2>2. Rest'
        BY <1>5, <1>r DEF RemoveFile, replayVars, SweepCursor
    <2> QED
        BY <1>s, <2>1, <2>2
<1>6. ASSUME NEW s \in Sessions, NEW c \in Calls, RemoveFails(s, c) PROVE StoreTypeOK'
    <2>1. Rest'
        BY <1>6, <1>r DEF RemoveFails, replayVars, SweepCursor
    <2> QED
        BY <1>6, <1>s, <1>t, <2>1 DEF RemoveFails
<1>7. ASSUME NEW s \in Sessions, Tombstone(s) PROVE StoreTypeOK'
    <2>1. TypeOK'
        BY <1>0, <1>7 DEF StoreTypeOK, TypeOK, Tombstone, sessionOnlyVars
    <2>2. Rest'
        BY <1>7, <1>r DEF Tombstone, replayVars, SweepCursor
    <2> QED
        BY <1>s, <2>1, <2>2
<1>8. ASSUME NEW s \in Sessions, CloseSweep(s) \/ AbortSweep(s) PROVE StoreTypeOK'
    <2>1. UNCHANGED <<vars, expired, purged, replayVars>>
        BY <1>8 DEF CloseSweep, AbortSweep
    <2>2. Rest'
        BY <1>8, <1>r DEF CloseSweep, AbortSweep, replayVars, SweepCursor
    <2> QED
        BY <1>s, <1>t, <2>1, <2>2
<1>9. ASSUME NEW r \in Replayers, ReplayStep(r) PROVE StoreTypeOK'
    <2>1. UNCHANGED <<vars, expired, purged, sweepVars>>
        BY <1>9, OutsideSteps
    <2>2. replay' \in [Replayers -> {"idle", "reading"} \cup ReplayOutcomes]
        BY <1>9, <1>r DEF ReplayStep, OpenReplay, EndReplay, ReplayTombstoned, ReplayCall,
            ReplayUnavailable, ReplayFails, CloseReplay, ReplayOutcomes
    <2>3. left' \in [Replayers -> SUBSET Calls]
        BY <1>9, <1>r DEF ReplayStep, OpenReplay, EndReplay, ReplayTombstoned, ReplayCall,
            ReplayUnavailable, ReplayFails, CloseReplay
    <2> QED
        BY <1>r, <1>s, <1>t, <2>1, <2>2, <2>3 DEF sweepVars, SweepCursor
<1> QED
    BY <1>1, <1>2, <1>3, <1>4, <1>5, <1>6, <1>7, <1>8, <1>9, StepKinds DEF SweepStep

\* The manifest stays well formed: ok rows have a reference or a tombstone.
LEMMA RowsStep == AuditInv /\ [AuditNext]_auditVars => RowInv(Sessions)' /\ NoMalformedRow'
<1> SUFFICES ASSUME AuditInv, [AuditNext]_auditVars PROVE RowInv(Sessions)' /\ NoMalformedRow'
    OBVIOUS
<1>0. TypeOK /\ RowInv(Sessions) /\ NoMalformedRow
    BY DEF AuditInv, StoreTypeOK
<1>1. ASSUME [Next]_vars, purged' = purged PROVE RowInv(Sessions)' /\ NoMalformedRow'
    <2>1. RowInv(Sessions)' /\ RowsGo
        BY <1>0, <1>1, SessionRows
    <2>2. NoMalformedRow'
        BY <1>0, <1>1, <2>1 DEF NoMalformedRow, RowsGo, TypeOK
    <2> QED
        BY <2>1, <2>2
<1>2. ASSUME NEW s \in Sessions, NEW c \in Calls, RemoveFile(s, c)
      PROVE  RowInv(Sessions)' /\ NoMalformedRow'
    <2>1. UNCHANGED <<pc, answer, row, summaries, ref, purged>>
        BY <1>2 DEF RemoveFile, sessionOnlyVars
    <2> QED
        BY <1>0, <2>1 DEF RowInv, NoMalformedRow
<1>3. ASSUME NEW s \in Sessions, Tombstone(s) PROVE RowInv(Sessions)' /\ NoMalformedRow'
    <2>1. /\ UNCHANGED <<pc, answer, row, summaries>> /\ removed[s] # NoCall
          /\ purged' = purged \cup {removed[s]} /\ ref' = ref \ {removed[s]}
        BY <1>3 DEF Tombstone, sessionOnlyVars
    <2>2. row[removed[s]] = "ok"
        BY <2>1 DEF AuditInv, AgeInv
    <2> QED
        BY <1>0, <2>1, <2>2 DEF RowInv, NoMalformedRow
<1>4. Writes \/ Runs => [Next]_vars /\ purged' = purged
    BY OutsideSteps DEF Writes, Runs, storeVars
<1>5. ASSUME NEW s \in Sessions, Age(s) \/ OpenSweep(s) \/ CloseSweep(s) \/ AbortSweep(s)
      PROVE  UNCHANGED vars /\ purged' = purged
    BY <1>5 DEF Age, OpenSweep, CloseSweep, AbortSweep
<1>6. \A s \in Sessions, c \in Calls : RemoveFails(s, c) => UNCHANGED vars /\ purged' = purged
    BY DEF RemoveFails
<1>7. \A r \in Replayers : ReplayStep(r) => UNCHANGED vars /\ purged' = purged
    BY OutsideSteps
<1> QED
    BY <1>1, <1>2, <1>3, <1>4, <1>5, <1>6, <1>7, StepKinds DEF SweepStep

\* No step takes anything from a session within its retention.
LEMMA YoungStep == AuditInv /\ [AuditNext]_auditVars => YoungInv'
<1> SUFFICES ASSUME AuditInv, [AuditNext]_auditVars, NEW s \in Sessions \ expired'
             PROVE  SafeInv({s})'
    BY DEF YoungInv
<1>1. expired \subseteq expired'
    <2>1. Writes \/ Runs => expired' = expired
        BY DEF Writes, Runs, storeVars
    <2>2. \A t \in Sessions : Age(t) => expired \subseteq expired'
        BY DEF Age
    <2>3. \A t \in Sessions : SweepStep(t) => expired' = expired
        BY DEF SweepStep, OpenSweep, RemoveFile, RemoveFails, Tombstone, CloseSweep, AbortSweep
    <2> QED
        BY <2>1, <2>2, <2>3, StepKinds, OutsideSteps
<1>2. TypeOK /\ SafeInv({s}) /\ {s} \in SUBSET Sessions /\ s \notin expired
    BY <1>1 DEF AuditInv, StoreTypeOK, YoungInv
<1>3. CASE [Next]_vars
    BY <1>2, <1>3, InvStep
<1>4. ASSUME NEW t \in Sessions, NEW c \in Calls, RemoveFile(t, c) PROVE SafeInv({s})'
    <2>1. /\ UNCHANGED <<up, vault, pc, answer, row, summaries, lock, job, bytes, temps, ref, disk>>
          /\ snap' = [snap EXCEPT ![SessionOf[c]] = Absent] /\ c \in todo[t]
        BY <1>4 DEF RemoveFile, sessionOnlyVars
    <2>2. SessionOf[c] # s
        BY <1>2, <2>1 DEF AuditInv, AgeInv
    <2>3. snap'[s] = snap[s]
        BY <1>2, <2>1, <2>2 DEF TypeOK
    <2>4. LifeInv({s})' /\ LockInv({s})' /\ RowInv({s})' /\ MintInv({s})' /\ CommitInv({s})' /\ TempInv({s})'
        BY <1>2, <2>1, <2>3 DEF SafeInv, CallsOf, LifeInv, LockInv, RowInv, MintInv, CommitInv, TempInv
    <2>5. FileInv({s})'
        BY <1>2, <2>1, <2>3 DEF SafeInv, CallsOf, FileInv
    <2> QED
        BY <2>4, <2>5 DEF SafeInv
<1>5. ASSUME NEW t \in Sessions, Tombstone(t) PROVE SafeInv({s})'
    <2>1. /\ UNCHANGED <<up, vault, pc, answer, row, summaries, lock, job, bytes, temps, snap, disk>>
          /\ ref' = ref \ {removed[t]} /\ removed[t] # NoCall
        BY <1>5 DEF Tombstone, sessionOnlyVars
    <2>2. SessionOf[removed[t]] # s
        BY <1>2, <2>1 DEF AuditInv, AgeInv
    <2>3. CommitInv({s})'
        BY <1>2, <2>1, <2>2 DEF SafeInv, CallsOf, CommitInv
    <2>4. LifeInv({s})' /\ LockInv({s})' /\ RowInv({s})' /\ MintInv({s})' /\ FileInv({s})' /\ TempInv({s})'
        BY <1>2, <2>1 DEF SafeInv, CallsOf, LifeInv, LockInv, RowInv, MintInv, FileInv, TempInv
    <2> QED
        BY <2>3, <2>4 DEF SafeInv
<1> QED
    BY <1>3, <1>4, <1>5, StepKinds, OutsideSteps DEF SweepStep

\* What a step may never do to the manifest.
KeepsRecord ==
    /\ purged \subseteq purged'
    /\ \A c \in Calls :
          /\ row[c] # "none" => row'[c] # "none"
          /\ row[c] \in {"ok", "error"} => row'[c] = row[c]

\* Every step keeps the record.
LEMMA RecordStep == AuditInv /\ [AuditNext]_auditVars => KeepsRecord
<1> SUFFICES ASSUME AuditInv, [AuditNext]_auditVars PROVE KeepsRecord
    OBVIOUS
<1>0. TypeOK /\ RowInv(Sessions)
    BY DEF AuditInv, StoreTypeOK
<1>1. Writes \/ Runs => KeepsRecord
    <2>1. Writes \/ Runs => RowsGo
        BY <1>0, OutsideSteps, SessionRows
    <2>2. Writes \/ Runs => purged' = purged
        BY DEF Writes, Runs, storeVars
    <2> QED
        BY <2>1, <2>2 DEF RowsGo, KeepsRecord
<1>2. \A s \in Sessions : Age(s) \/ SweepStep(s) => row' = row /\ purged \subseteq purged'
    BY DEF Age, SweepStep, OpenSweep, RemoveFile, RemoveFails, Tombstone, CloseSweep, AbortSweep,
        vars, sessionOnlyVars
<1>3. \A r \in Replayers : ReplayStep(r) => row' = row /\ purged' = purged
    BY OutsideSteps DEF vars
<1> QED
    BY <1>1, <1>2, <1>3, StepKinds DEF KeepsRecord

\* Sweeps work on ok rows of old sessions only.
LEMMA AgeStep == AuditInv /\ [AuditNext]_auditVars => AgeInv'
<1> SUFFICES ASSUME AuditInv, [AuditNext]_auditVars PROVE AgeInv'
    OBVIOUS
<1>0. AgeInv /\ StoreTypeOK
    BY DEF AuditInv
<1>1. \A c \in Calls : row[c] = "ok" => row'[c] = "ok"
    BY RecordStep DEF KeepsRecord
<1>2. \A s \in Sessions : /\ todo[s] \subseteq Calls
                          /\ removed[s] # NoCall => removed[s] \in Calls
    BY <1>0 DEF StoreTypeOK
<1>3. CASE Writes \/ Runs
    <2>1. /\ UNCHANGED <<expired, purged>>
          /\ \A s \in Sessions : /\ cutoff'[s] \in {{}, cutoff[s]} /\ todo'[s] \in {{}, todo[s]}
                                 /\ removed'[s] \in {NoCall, removed[s]}
        BY <1>3 DEF Writes, Runs, storeVars, sweepVars
    <2> QED
        BY <1>0, <1>1, <1>2, <2>1 DEF AgeInv
<1>4. ASSUME NEW s \in Sessions, Age(s) PROVE AgeInv'
    BY <1>0, <1>1, <1>2, <1>4 DEF Age, sweepVars, AgeInv
<1>5. ASSUME NEW s \in Sessions, OpenSweep(s) PROVE AgeInv'
    BY <1>0, <1>1, <1>2, <1>5 DEF OpenSweep, AgeInv, Candidates, StoreTypeOK
<1>6. ASSUME NEW s \in Sessions, NEW c \in Calls, RemoveFile(s, c) PROVE AgeInv'
    BY <1>0, <1>1, <1>2, <1>6 DEF RemoveFile, AgeInv, StoreTypeOK
<1>7. ASSUME NEW s \in Sessions, NEW c \in Calls, RemoveFails(s, c) PROVE AgeInv'
    BY <1>0, <1>1, <1>2, <1>7 DEF RemoveFails, AgeInv, StoreTypeOK
<1>8. ASSUME NEW s \in Sessions, Tombstone(s) PROVE AgeInv'
    BY <1>0, <1>1, <1>2, <1>8 DEF Tombstone, AgeInv, StoreTypeOK
<1>9. ASSUME NEW s \in Sessions, CloseSweep(s) \/ AbortSweep(s) PROVE AgeInv'
    BY <1>0, <1>1, <1>2, <1>9 DEF CloseSweep, AbortSweep, AgeInv, StoreTypeOK
<1>10. ASSUME NEW r \in Replayers, ReplayStep(r) PROVE AgeInv'
    BY <1>0, <1>1, <1>2, <1>10, OutsideSteps DEF sweepVars, AgeInv
<1> QED
    BY <1>3, <1>4, <1>5, <1>6, <1>7, <1>8, <1>9, <1>10, StepKinds DEF SweepStep

\* A running sweep loses no candidate.
LEMMA ScanStep == AuditInv /\ [AuditNext]_auditVars => ScanInv'
<1> SUFFICES ASSUME AuditInv, [AuditNext]_auditVars PROVE ScanInv'
    OBVIOUS
<1>0. ScanInv /\ StoreTypeOK /\ TypeOK /\ RowInv(Sessions)
    BY DEF AuditInv, StoreTypeOK
<1>1. CASE Writes
    <2>1. \A s \in Sessions : ~SweepCursor(s) /\ sweep' = sweep
        BY <1>1 DEF Writes, Unlocked, storeVars, sweepVars
    <2> QED
        BY <2>1 DEF ScanInv, SweepCursor
<1>2. CASE Runs
    <2>1. UNCHANGED <<row, ref, purged>>
        BY <1>0, <1>2, OtherRows DEF Runs
    <2>2. \A s \in Sessions : sweep'[s] = "scan" =>
             sweep[s] = "scan" /\ cutoff'[s] = cutoff[s] /\ todo'[s] = todo[s]
             /\ removed'[s] = removed[s] /\ kept'[s] = kept[s]
        BY <1>0, <1>2 DEF Runs, sweepVars, StoreTypeOK, SweepCursor
    <2> QED
        BY <1>0, <2>1, <2>2 DEF ScanInv, SweepCursor, Candidates
<1>3. ASSUME NEW s \in Sessions, Age(s) PROVE ScanInv'
    BY <1>0, <1>3 DEF Age, vars, sweepVars, ScanInv, SweepCursor, Candidates
<1>4. ASSUME NEW s \in Sessions, OpenSweep(s) PROVE ScanInv'
    BY <1>0, <1>4 DEF OpenSweep, vars, ScanInv, SweepCursor, Candidates, StoreTypeOK
<1>5. ASSUME NEW s \in Sessions, NEW c \in Calls, RemoveFile(s, c) PROVE ScanInv'
    <2>1. UNCHANGED <<row, ref, purged, sweep, cutoff, kept>>
        BY <1>5 DEF RemoveFile, sessionOnlyVars
    <2>2. todo'[s] = todo[s] \ {c} /\ removed[s] = NoCall /\ removed'[s] = c
        BY <1>0, <1>5 DEF RemoveFile, StoreTypeOK
    <2>3. \A t \in Sessions : t # s => todo'[t] = todo[t] /\ removed'[t] = removed[t]
        BY <1>0, <1>5 DEF RemoveFile, StoreTypeOK
    <2>4. Candidates(cutoff[s]) \subseteq Calls
        BY DEF Candidates
    <2>5. \A t \in Sessions : Candidates(cutoff[t])' = Candidates(cutoff[t])
        BY <2>1 DEF Candidates
    <2> QED
        BY <1>0, <2>1, <2>2, <2>3, <2>4, <2>5, NoCallAssumption DEF ScanInv, SweepCursor
<1>6. ASSUME NEW s \in Sessions, NEW c \in Calls, RemoveFails(s, c) PROVE ScanInv'
    BY <1>0, <1>6 DEF RemoveFails, vars, ScanInv, SweepCursor, Candidates, StoreTypeOK
<1>7. ASSUME NEW s \in Sessions, Tombstone(s) PROVE ScanInv'
    BY <1>0, <1>7 DEF Tombstone, sessionOnlyVars, ScanInv, SweepCursor, Candidates, StoreTypeOK
<1>8. ASSUME NEW s \in Sessions, CloseSweep(s) \/ AbortSweep(s) PROVE ScanInv'
    <2>1. UNCHANGED <<row, ref, purged>> /\ sweep'[s] # "scan"
        BY <1>0, <1>8 DEF CloseSweep, AbortSweep, vars, StoreTypeOK
    <2>2. \A t \in Sessions : t # s =>
             sweep'[t] = sweep[t] /\ cutoff'[t] = cutoff[t] /\ todo'[t] = todo[t]
             /\ removed'[t] = removed[t] /\ kept'[t] = kept[t]
        BY <1>0, <1>8 DEF CloseSweep, AbortSweep, StoreTypeOK
    <2> QED
        BY <1>0, <2>1, <2>2 DEF ScanInv, SweepCursor, Candidates
<1>9. ASSUME NEW r \in Replayers, ReplayStep(r) PROVE ScanInv'
    BY <1>0, <1>9, OutsideSteps DEF vars, sweepVars, ScanInv, SweepCursor, Candidates
<1> QED
    BY <1>1, <1>2, <1>3, <1>4, <1>5, <1>6, <1>7, <1>8, <1>9, StepKinds DEF SweepStep

\* What a session within its retention can be replayed from.
LEMMA YoungRestores == AuditInv => RetentionSparesYoung
<1> SUFFICES ASSUME AuditInv, NEW c \in Calls, row[c] = "ok", SessionOf[c] \notin expired
             PROVE  c \notin purged /\ c \in ref /\ Restores(snap[SessionOf[c]], c)
    BY DEF RetentionSparesYoung
<1>1. SafeInv({SessionOf[c]}) /\ c \in CallsOf({SessionOf[c]})
    BY SessionType DEF AuditInv, YoungInv, CallsOf
<1>2. c \in ref /\ Restores(snap[SessionOf[c]], c)
    BY <1>1 DEF SafeInv, CommitInv, FileInv, Restores
<1>3. c \notin purged
    BY DEF AuditInv, AgeInv
<1> QED
    BY <1>2, <1>3

\* A replay's cursor keeps its rows, and no tombstone is added behind it.
LEMMA CursorStep == AuditInv /\ [AuditNext]_auditVars => CursorInv'
<1> SUFFICES ASSUME AuditInv, [AuditNext]_auditVars PROVE CursorInv'
    OBVIOUS
<1>0. CursorInv /\ StoreTypeOK
    BY DEF AuditInv
<1>1. \A c \in Calls : row[c] = "ok" => row'[c] = "ok"
    BY RecordStep DEF KeepsRecord
<1>2. \A r \in Replayers : left[r] \subseteq Calls
    BY <1>0 DEF StoreTypeOK
<1>3. ASSUME purged' = purged,
             \A r \in Replayers : \/ left'[r] = left[r] /\ replay'[r] = replay[r]
                                  \/ left'[r] = {} /\ replay'[r] # "reading"
      PROVE  CursorInv'
    BY <1>0, <1>1, <1>2, <1>3 DEF CursorInv, ReplayCursor
<1>4. CASE Writes \/ Runs
    BY <1>3, <1>4 DEF Writes, Runs, storeVars, replayVars, ReplayCursor
<1>5. ASSUME NEW s \in Sessions, Age(s) \/ SweepStep(s), ~Tombstone(s) PROVE CursorInv'
    BY <1>3, <1>5 DEF Age, SweepStep, OpenSweep, RemoveFile, RemoveFails, CloseSweep, AbortSweep, replayVars
<1>6. ASSUME NEW s \in Sessions, Tombstone(s) PROVE CursorInv'
    <2>1. \A r \in Replayers : replay[r] # "reading" /\ UNCHANGED <<replay, left>>
        BY <1>6 DEF Tombstone, UnlockedFor, ReplayCursor, replayVars
    <2> QED
        BY <1>0, <1>1, <1>2, <2>1 DEF CursorInv, ReplayCursor
<1>7. ASSUME NEW r \in Replayers, ReplayStep(r) PROVE CursorInv'
    <2>0. UNCHANGED <<row, purged>> /\ NoMalformedRow
        BY <1>7, OutsideSteps DEF AuditInv, vars
    <2>1. CASE OpenReplay(r)
        BY <1>0, <1>1, <1>2, <2>0, <2>1 DEF OpenReplay, CursorInv, ReplayCursor, NoMalformedRow,
            StoreTypeOK
    <2>2. ASSUME NEW c \in Calls, ReplayCall(r, c) PROVE CursorInv'
        BY <1>0, <1>1, <1>2, <2>0, <2>2 DEF ReplayCall, CursorInv, ReplayCursor, StoreTypeOK
    <2>3. ASSUME NEW outcome \in ReplayOutcomes, EndReplay(r, outcome) PROVE CursorInv'
        BY <1>0, <1>3, <2>0, <2>3 DEF EndReplay, ReplayOutcomes, StoreTypeOK
    <2> QED
        BY <1>7, <2>1, <2>2, <2>3 DEF ReplayStep, ReplayTombstoned, ReplayUnavailable,
            ReplayFails, CloseReplay, ReplayOutcomes
<1> QED
    BY <1>4, <1>5, <1>6, <1>7, StepKinds DEF SweepStep

\* A replay that misses a mapping misses it in an old session.
LEMMA LossStep == AuditInv /\ [AuditNext]_auditVars => ReplayLossExplained'
<1> SUFFICES ASSUME AuditInv, [AuditNext]_auditVars PROVE ReplayLossExplained'
    OBVIOUS
<1>0. ReplayLossExplained /\ StoreTypeOK
    BY DEF AuditInv
<1>1. ASSUME expired \subseteq expired',
             \A r \in Replayers : replay'[r] \in {replay[r], "error", "reading", "success"}
      PROVE  ReplayLossExplained'
    BY <1>0, <1>1 DEF ReplayLossExplained
<1>2. CASE Writes \/ Runs
    BY <1>1, <1>2 DEF Writes, Runs, storeVars, replayVars
<1>3. ASSUME NEW s \in Sessions, Age(s) \/ SweepStep(s) PROVE ReplayLossExplained'
    BY <1>1, <1>3 DEF Age, SweepStep, OpenSweep, RemoveFile, RemoveFails, Tombstone, CloseSweep,
        AbortSweep, replayVars
<1>4. ASSUME NEW r \in Replayers, NEW c \in Calls, ReplayTombstoned(r, c) \/ ReplayUnavailable(r, c)
      PROVE  ReplayLossExplained'
    <2>1. c \in left[r] /\ (c \in purged \/ ~(c \in ref /\ RestoresArgs(c))) /\ expired' = expired
        BY <1>4 DEF ReplayTombstoned, ReplayUnavailable, EndReplay
    <2>2. SessionOf[c] = TargetOf[r] /\ row[c] = "ok"
        BY <2>1 DEF AuditInv, CursorInv
    <2>3. TargetOf[r] \in expired
        BY <2>1, <2>2, YoungRestores DEF RetentionSparesYoung, Restores, RestoresArgs, TokensOf
    <2>4. \A q \in Replayers : q # r => replay'[q] = replay[q]
        BY <1>0, <1>4 DEF ReplayTombstoned, ReplayUnavailable, EndReplay, StoreTypeOK
    <2> QED
        BY <1>0, <2>1, <2>3, <2>4 DEF ReplayLossExplained
<1>5. ASSUME NEW r \in Replayers, OpenReplay(r) \/ ReplayFails(r) \/ CloseReplay(r)
      PROVE  ReplayLossExplained'
    BY <1>0, <1>1, <1>5 DEF OpenReplay, ReplayFails, CloseReplay, EndReplay, StoreTypeOK
<1>6. ASSUME NEW r \in Replayers, NEW c \in Calls, ReplayCall(r, c) PROVE ReplayLossExplained'
    BY <1>1, <1>6 DEF ReplayCall
<1> QED
    BY <1>2, <1>3, <1>4, <1>5, <1>6, StepKinds DEF ReplayStep

-----------------------------------------------------------------------------
(* The theorems.                                                           *)

\* Nothing has been written, swept or replayed yet.
LEMMA AuditInitHolds == AuditInit => AuditInv
<1> SUFFICES ASSUME AuditInit PROVE AuditInv
    OBVIOUS
<1>1. StoreTypeOK
    BY NoCallAssumption DEF AuditInit, Init, StoreTypeOK, TypeOK, PcValues, JobStages, SweepCursor
<1>2. RowInv(Sessions)
    BY DEF AuditInit, Init, RowInv, CallsOf
<1>3. YoungInv
    BY NoCallAssumption, SessionType DEF AuditInit, Init, YoungInv, SafeInv, CallsOf, LifeInv,
        LockInv, RowInv, MintInv, FileInv, CommitInv, TempInv, JobHoldsLock
<1>4. NoMalformedRow /\ AgeInv
    BY DEF AuditInit, Init, NoMalformedRow, AgeInv
<1>5. ScanInv /\ CursorInv /\ ReplayLossExplained
    BY DEF AuditInit, Init, ScanInv, CursorInv, ReplayLossExplained, SweepCursor, ReplayCursor
<1> QED
    BY <1>1, <1>2, <1>3, <1>4, <1>5 DEF AuditInv

\* The inductive invariant holds in every state.
THEOREM AuditInvariance == AuditSpec => []AuditInv
<1>1. AuditInv /\ [AuditNext]_auditVars => AuditInv'
    BY StoreTypesStep, RowsStep, YoungStep, AgeStep, ScanStep, CursorStep, LossStep DEF AuditInv
<1> QED
    BY AuditInitHolds, <1>1, PTL DEF AuditSpec

\* Every variable keeps its type, and a sweep that is over has nothing in hand.
THEOREM StoreTypeCorrect == AuditSpec => []StoreTypeOK
<1>1. AuditInv => StoreTypeOK
    BY DEF AuditInv
<1> QED
    BY AuditInvariance, <1>1, PTL

\* Retention never costs a session within it a mapping, whatever sweeps ran,
\* were aborted or were cut off by a power loss.
THEOREM RetentionSafe == AuditSpec => []RetentionSparesYoung
BY AuditInvariance, YoungRestores, PTL

\* An ok row has a reference or a tombstone, never both or neither, so
\* restore_whole_session never meets a malformed row.
THEOREM RowsWellFormed == AuditSpec => []NoMalformedRow
<1>1. AuditInv => NoMalformedRow
    BY DEF AuditInv
<1> QED
    BY AuditInvariance, <1>1, PTL

\* A replay reports missing mappings only of a session past its retention.
THEOREM LossesExplained == AuditSpec => []ReplayLossExplained
<1>1. AuditInv => ReplayLossExplained
    BY DEF AuditInv
<1> QED
    BY AuditInvariance, <1>1, PTL

\* The manifest is append only in what it says: no row is deleted, reopened
\* or given another outcome, and no tombstone is taken back.
THEOREM RecordKept == AuditSpec => AuditOfRecord
<1>1. AuditInv /\ [AuditNext]_auditVars => [KeepsRecord]_auditVars
    BY RecordStep
<1> QED
    BY AuditInvariance, <1>1, PTL DEF AuditSpec, AuditOfRecord, KeepsRecord

\* A replay that succeeds has seen its session without a single tombstone,
\* although sweeps run at the same time.
THEOREM SuccessIsWhole == AuditSpec => ReplaySuccessIsWhole
<1> DEFINE Whole == \A r \in Replayers : replay[r] # "success" /\ replay'[r] = "success" =>
                       \A c \in purged : SessionOf[c] # TargetOf[r]
<1>1. ASSUME AuditInv, [AuditNext]_auditVars PROVE Whole
    <2>0. StoreTypeOK /\ CursorInv
        BY <1>1 DEF AuditInv
    <2>1. CASE Writes \/ Runs
        BY <2>1 DEF Writes, Runs, storeVars, replayVars
    <2>2. ASSUME NEW s \in Sessions, Age(s) \/ SweepStep(s) PROVE Whole
        BY <2>2 DEF Age, SweepStep, OpenSweep, RemoveFile, RemoveFails, Tombstone, CloseSweep,
            AbortSweep, replayVars
    <2>3. ASSUME NEW r \in Replayers, CloseReplay(r) PROVE Whole
        <3>1. left[r] = {} /\ ReplayCursor(r)
            BY <2>3 DEF CloseReplay
        <3>2. \A q \in Replayers : q # r => replay'[q] = replay[q]
            BY <2>0, <2>3 DEF CloseReplay, EndReplay, StoreTypeOK
        <3> QED
            BY <2>0, <3>1, <3>2 DEF CursorInv
    <2>4. ASSUME NEW r \in Replayers, ReplayStep(r), ~CloseReplay(r) PROVE Whole
        BY <2>0, <2>4 DEF ReplayStep, OpenReplay, EndReplay, ReplayTombstoned, ReplayCall,
            ReplayUnavailable, ReplayFails, StoreTypeOK
    <2> QED
        BY <1>1, <2>1, <2>2, <2>3, <2>4, StepKinds
<1> QED
    BY AuditInvariance, <1>1, PTL DEF AuditSpec, ReplaySuccessIsWhole

\* A sweep that ran to its end leaves no candidate behind but the ones whose
\* file it reported as not removed.
THEOREM SweepsAreThorough == AuditSpec => SweepIsThorough
<1> DEFINE Thorough == \A s \in Sessions : sweep[s] = "scan" /\ sweep'[s] = "done" =>
                          Candidates(cutoff[s]) \subseteq kept[s]
<1>1. ASSUME AuditInv, [AuditNext]_auditVars PROVE Thorough
    <2>0. StoreTypeOK /\ ScanInv
        BY <1>1 DEF AuditInv
    <2>1. CASE Writes \/ Runs
        BY <2>0, <2>1 DEF Writes, Runs, storeVars, sweepVars, StoreTypeOK, SweepCursor
    <2>2. ASSUME NEW s \in Sessions, CloseSweep(s) PROVE Thorough
        <3>1. Candidates(cutoff[s]) \subseteq {NoCall} \cup kept[s]
            BY <2>0, <2>2 DEF CloseSweep, ScanInv
        <3>2. Candidates(cutoff[s]) \subseteq Calls
            BY DEF Candidates
        <3>3. \A t \in Sessions : t # s => sweep'[t] = sweep[t]
            BY <2>0, <2>2 DEF CloseSweep, StoreTypeOK
        <3> QED
            BY <3>1, <3>2, <3>3, NoCallAssumption
    <2>3. ASSUME NEW s \in Sessions, Age(s) \/ SweepStep(s), ~CloseSweep(s) PROVE Thorough
        BY <2>0, <2>3 DEF Age, SweepStep, OpenSweep, RemoveFile, RemoveFails, Tombstone,
            AbortSweep, sweepVars, StoreTypeOK
    <2>4. ASSUME NEW r \in Replayers, ReplayStep(r) PROVE Thorough
        BY <2>4, OutsideSteps DEF sweepVars
    <2> QED
        BY <1>1, <2>1, <2>2, <2>3, <2>4, StepKinds
<1> QED
    BY AuditInvariance, <1>1, PTL DEF AuditSpec, SweepIsThorough
=============================================================================
