------------------------------ MODULE ServeRun ------------------------------
(***************************************************************************)
(* gaze-lens serve: it loads the profiles, sweeps the snapshot directory,  *)
(* reads the policy of each profile, registers what came of it in the      *)
(* session and then answers calls.  The operator may edit a policy file at *)
(* any time: a read returns any content.                                   *)
(***************************************************************************)
EXTENDS Redaction

CONSTANTS
    FileSets,    \* the profile files: [user, project, exists] (sequences of profiles)
    Policies,    \* what a policy file may hold
    Lists,       \* values of --profile
    Columns,     \* columns of a table
    Keywords,    \* those that are called like an SQL keyword
    Tables,      \* contents of a table
    Queries,     \* [columns, limit]
    Texts,       \* contents of a log
    Schemas      \* sizes of a rendered schema

ASSUME ServeAssumption ==
    /\ RowCap \in Nat /\ ByteCap \in Nat /\ CellCap \in Nat /\ TokenSize \in Nat
    /\ \A f \in FileSets : \A file \in {f.user, f.project} :
          IsSequence(file) /\ \A i \in DOMAIN file : IsProfile(file[i])
    /\ \A list \in Lists : IsSequence(list)
    /\ \A policy \in Policies : IsPolicy(policy)
    /\ \A table \in Tables :
          /\ IsSequence(table)
          /\ \A i \in DOMAIN table :
                IsSequence(table[i]) /\ \A j \in DOMAIN table[i] : IsCell(table[i][j])
    /\ \A query \in Queries : query.limit \in Nat \cup {None}
    /\ \A text \in Texts : IsSequence(text) /\ \A i \in DOMAIN text : IsSpan(text[i])

VARIABLES
    files,       \* the profile files, as they were read
    stage,       \* how far the process is
    profiles,    \* the selected profiles
    sweep,       \* the sweep it made
    runtime,     \* what runtime_policy returned for the profiles so far
    session,     \* session[n]: the source, policy and choice of gaze registered for n
    answer       \* the answer that was computed, or None

vars == <<files, stage, profiles, sweep, runtime, session, answer>>

Init ==
    /\ files \in FileSets
    /\ stage = "load" /\ profiles = <<>> /\ sweep = None
    /\ runtime = <<>> /\ session = <<>> /\ answer = None

-----------------------------------------------------------------------------
(* serve::run and prepare_selected_session.                                *)

\* read_profiles_if_exists: only a project file that was named must exist.
FilesRead(named) == named => files.exists

\* load_profiles and select_profiles.
Load(list, named) ==
    /\ stage = "load"
    /\ LET merged == MergeProfiles(files)
           selected == SelectProfiles(merged, list)
           ok == /\ FilesRead(named)
                 /\ SecretsValid(merged) /\ Selectable(merged, list)
                 /\ Unmixed(selected)
       IN  /\ stage' = IF ok THEN "sweep" ELSE "refused"
           /\ profiles' = IF ok THEN selected ELSE <<>>
    /\ UNCHANGED <<sweep, runtime, session, answer, files>>

\* apply_multi_profile_retention comes before the policies are looked at.
Sweep ==
    /\ stage = "sweep"
    /\ sweep' = Retention(profiles)
    /\ stage' \in {"policies", "refused"}
    /\ UNCHANGED <<profiles, runtime, session, answer, files>>

\* What a read of the policy of a profile may return; None if it fails.
Contents(profile) == IF profile.policy = None THEN {DefaultPolicy} ELSE Policies \cup {None}

\* The outcome of runtime_policy: the gates, then the pipeline.
Prepare(profile, checked, built) ==
    LET ok == /\ checked # None /\ built # None
              /\ RemoteOutputSafe(profile, checked) /\ ProductionNer(profile, checked)
              /\ Builds(built)
    IN  \/ /\ ok /\ UNCHANGED stage
           /\ \E g \in GazeChoices(built) :
                 runtime' = Append(runtime, [profile |-> profile, policy |-> built, gaze |-> g])
        \/ /\ ~ok /\ stage' = "refused"
           /\ UNCHANGED runtime

\* Mutant: the gates see one read of the file and the pipeline another.
RuntimePolicyReadsTwice ==
    /\ stage = "policies" /\ Len(runtime) < Len(profiles)
    /\ LET profile == profiles[Len(runtime) + 1]
       IN  \E one, two \in Contents(profile) : Prepare(profile, one, two)
    /\ UNCHANGED <<profiles, sweep, session, answer, files>>

\* runtime_policy of the next profile: the file is read once.
RuntimePolicy ==
    /\ stage = "policies" /\ Len(runtime) < Len(profiles)
    /\ LET profile == profiles[Len(runtime) + 1]
       IN  \E policy \in Contents(profile) : Prepare(profile, policy, policy)
    /\ UNCHANGED <<profiles, sweep, session, answer, files>>

\* register_pipeline, register_column_action_policy and register_lazy_source
\* for each of them, under its name.
Register ==
    /\ stage = "policies" /\ Len(runtime) = Len(profiles)
    /\ session' = [n \in {profiles[i].name : i \in DOMAIN profiles} |->
                     LET i == CHOOSE i \in DOMAIN runtime :
                                  /\ runtime[i].profile.name = n
                                  /\ \A j \in DOMAIN runtime : runtime[j].profile.name = n => j <= i
                     IN  [source |-> runtime[i].profile.source, path |-> runtime[i].profile.policy,
                          policy |-> runtime[i].policy, gaze |-> runtime[i].gaze]]
    /\ stage' = "serving" /\ runtime' = <<>>
    /\ UNCHANGED <<profiles, sweep, answer, files>>

-----------------------------------------------------------------------------
(* Calls.                                                                  *)

SourceClass(n) == IF session[n].source.kind \in Servers \cup {"sqlite"} THEN "database" ELSE "log"
Serves(n, class) == n \in DOMAIN session /\ SourceClass(n) = class

Answered(record) ==
    /\ answer = None
    /\ answer' = record
    /\ UNCHANGED <<stage, profiles, sweep, runtime, session, files>>

Failed(n) == [kind |-> "error", of |-> n]

\* extract_profile and lookup_source: the name is not loaded, or its source is
\* not one for the tool.
RefuseCall(n, class) ==
    /\ stage = "serving" /\ ~Serves(n, class)
    /\ Answered(Failed(n))

\* redact_rows with the pipeline and the column rules of profile `by`.
AnswerRows(n, by, table, query) ==
    LET r == RedactRows(Fetch(table, query), session[by].policy, session[by].gaze)
    IN  Answered(IF r.failed THEN Failed(n)
                 ELSE [kind |-> "rows", of |-> n, table |-> table, query |-> query,
                       out |-> r.out, flags |-> r.flags])

\* Mutant: the policy of the profile that was registered first is used.
QueryFirstPolicy(n, table, query) ==
    /\ stage = "serving" /\ Serves(n, "database")
    /\ Compiles(query, Columns, Keywords)
    /\ AnswerRows(n, profiles[1].name, table, query)

\* The query tool: DbSourceWrapper::dispatch, then pipeline_for and
\* column_actions_for of the profile of the call.
Query(n, table, query) ==
    /\ stage = "serving" /\ Serves(n, "database")
    /\ Compiles(query, Columns, Keywords)
    /\ AnswerRows(n, n, table, query)

\* A query that does not compile.
RefuseQuery(n, query) ==
    /\ stage = "serving" /\ Serves(n, "database")
    /\ ~Compiles(query, Columns, Keywords)
    /\ Answered(Failed(n))

\* log_tail and log_grep.
LogRead(n, text, flags) ==
    /\ stage = "serving" /\ Serves(n, "log")
    /\ LET r == RedactTextOutput(text, flags, session[n].policy, session[n].gaze)
       IN  Answered([kind |-> "text", of |-> n, text |-> text, out |-> r.out, flags |-> r.flags])

\* schema and list_tables: a text that was cut does not parse, and the call
\* fails when its discovery metadata is made.
Schema(n, size) ==
    /\ stage = "serving" /\ Serves(n, "database")
    /\ Answered(IF size > ByteCap THEN Failed(n)
                ELSE [kind |-> "schema", of |-> n, size |-> size, flags |-> {}])

\* The answer is sent.  Calls do not share anything that redaction depends on,
\* so one at a time is enough.
Send ==
    /\ answer # None /\ answer' = None
    /\ UNCHANGED <<stage, profiles, sweep, runtime, session, files>>

\* A signal, or the client closes the input.
Shutdown ==
    /\ stage = "serving" /\ stage' = "ended"
    /\ UNCHANGED <<profiles, sweep, runtime, session, answer, files>>

Names == {NameOrder[i] : i \in DOMAIN NameOrder}

Next ==
    \/ \E list \in Lists, named \in BOOLEAN : Load(list, named)
    \/ Sweep \/ RuntimePolicy \/ Register
    \/ \E n \in Names :
        \/ \E class \in {"database", "log"} : RefuseCall(n, class)
        \/ \E query \in Queries : RefuseQuery(n, query) \/ \E table \in Tables : Query(n, table, query)
        \/ \E text \in Texts, flags \in SUBSET {"line_bytes"} : LogRead(n, text, flags)
        \/ \E size \in Schemas : Schema(n, size)
    \/ Send \/ Shutdown

Spec == Init /\ [][Next]_vars

-----------------------------------------------------------------------------
(* Properties.                                                             *)

\* A sweep removes snapshots only if the team's file says so for every profile
\* the process loads and no user section of one of them says less: neither
\* the user's file nor another profile can turn it on, not even if the start
\* is refused later.
PurgeAuthorised ==
    sweep # None /\ sweep.mode = Purge =>
        \A i \in DOMAIN profiles :
            LET project == Section(files.project, profiles[i].name)
                user == Section(files.user, profiles[i].name)
            IN  /\ project # None /\ project.purge = Purge
                /\ user # None => user.purge = Purge

\* A profile that either file marks as production is served with a model for
\* names, and a remote log hides all it detects, under the policy its calls
\* use, whatever the operator writes into the file during the start.
GatesHold ==
    \A n \in DOMAIN session :
        LET user == Section(files.user, n)
            project == Section(files.project, n)
            policy == session[n].policy
        IN  /\ (user # None /\ user.production) \/ (project # None /\ project.production)
                  => "name" \in Detected(policy)
            /\ session[n].source.kind = "remote"
                  => \A c \in Detected(policy) : "preserve" \notin ClassActions(policy, c)

\* An answer is redacted under its own profile's policy, which is the team's
\* if the team names one: no string under a column rule that hides leaves as
\* it is, nor one with something the policy detects, unless the policy has a
\* rule that preserves it.
RulesHold ==
    answer # None /\ answer.kind \in {"text", "rows"} =>
        LET n == answer.of
            policy == session[n].policy
            project == Section(files.project, n)
            Kept(v) == v.class \in Detected(policy) => "preserve" \in ClassActions(policy, v.class)
        IN  /\ project # None /\ project.policy # None => session[n].path = project.policy
            /\ answer.kind = "text" => \A i \in DOMAIN answer.out : answer.out[i].raw => Kept(answer.out[i])
            /\ answer.kind = "rows" =>
                 \A i \in DOMAIN answer.out : \A j \in DOMAIN answer.out[i] :
                     LET v == answer.out[i][j]
                         rules == {k \in DOMAIN policy.rules : policy.rules[k].column = v.column}
                         last == {k \in rules : \A l \in rules : l <= k}
                     IN  v.raw /\ v.shape \in Textual =>
                           /\ \A k \in last : policy.rules[k].action = "preserve"
                           /\ last = {} => Kept(v)

\* A query result is within the caps and says it was cut exactly when it was:
\* rows of the table that the caller did not exclude by a limit of its own, or
\* the value of a cell, are missing.
CutIsReported ==
    answer # None /\ answer.kind = "rows" =>
        LET query == answer.query
            wanted == IF query.limit = None \/ query.limit = RowCap THEN Len(answer.table)
                      ELSE IF query.limit < Len(answer.table) THEN query.limit ELSE Len(answer.table)
            marked == \E i \in DOMAIN answer.out : \E j \in DOMAIN answer.out[i] :
                          answer.out[i][j].shape = "marker"
        IN  /\ Len(answer.out) <= RowCap
            /\ Size([i \in DOMAIN answer.out |-> [size |-> Size(answer.out[i])]]) <= ByteCap
            /\ answer.flags = {} <=> Len(answer.out) = wanted /\ ~marked

-----------------------------------------------------------------------------
(* What the documentation says and the code does not do.                   *)

\* "snapshot_retention_days itself merges by user-overrides-project".
UserRetentionWins ==
    \A i \in DOMAIN profiles :
        LET user == Section(files.user, profiles[i].name)
        IN  user # None /\ user.days # None => profiles[i].days = user.days
=============================================================================
