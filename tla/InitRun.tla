------------------------------ MODULE InitRun ------------------------------
(***************************************************************************)
(* Invocations of `gaze-lens init` on one machine.  Each one validates its *)
(* flags, walks the operator through the guided flow to a plan, renders    *)
(* every file of the plan (phase A), writes the keyring entry, and then    *)
(* replaces the files one after the other (phase B).  Nothing locks the    *)
(* files, so invocations may overlap; each may be killed at any point, and *)
(* every system call of phase B may fail.                                  *)
(***************************************************************************)
EXTENDS InitFiles, Naturals, Sequences

CONSTANTS
    Runs,         \* invocations ever made
    Invocations,  \* command lines
    Secrets,      \* passwords
    Machines,     \* what the files hold before the first invocation
    MaxFaults     \* kills and failing system calls

NoSecret == "none"

\* A command line names a profile and any number of clients, a run can write a
\* section, and a file that does not exist holds nothing.
ASSUME InitAssumption ==
    /\ MaxFaults \in Nat /\ Runs \subseteq Writers /\ {NoOne, Unsound} \cap Writers = {}
    /\ \A a \in Invocations : a.name \in Names /\ a.clients \in Seq(Clients)
    /\ \A m \in Machines :
          /\ m = [p \in Paths |-> m[p]]
          /\ \A p \in Paths : m[p] \in Contents(p) /\ (m[p].form = "absent" => Empty(p, m[p]))

VARIABLES
    files,      \* files[p]
    keyring,    \* the entry under the planned service and account
    probes,     \* runs whose preflight entry is still in the keyring
    temps,      \* <<p, r>>: the file <p>.tmp.<pid of r> exists
    faults,     \* faults so far
    pc,         \* pc[r]
    args,       \* args[r]: the command line of r
    original,   \* original[p]: the file before the first invocation
    agreed,     \* agreed[r]: questions the operator was asked and said yes to
    plan,       \* plan[r]: InitPlan
    writes,     \* writes[r]: the RenderedWrite's of phase A
    at,         \* at[r]: the write phase B is at
    applied,    \* applied[r], as BatchPartial lists it
    pending,    \* pending[r], likewise
    report,     \* report[r]: how r ended
    alone,      \* runs that no other run has overlapped so far
    landed      \* landed[r]: paths r replaced, and "keyring"

machine == <<files, keyring, probes, temps, faults>>
inputs == <<args, original>>
progress == <<agreed, plan, writes, at, applied, pending>>
history == <<alone, landed>>
vars == <<machine, pc, inputs, progress, report, history>>

Ended == {"new", "ended", "killed"}
Active(r) == pc[r] \notin Ended
NoPlan == [paths |-> <<>>, secret |-> NoSecret, purge |-> FALSE, cloned |-> FALSE, sound |-> TRUE]

Init ==
    /\ files \in Machines /\ original = files
    /\ keyring \in Secrets \cup {NoSecret}
    /\ probes = {} /\ temps = {} /\ faults = 0
    /\ pc = [r \in Runs |-> "new"]
    /\ args \in [Runs -> Invocations]
    /\ agreed = [r \in Runs |-> {}]
    /\ plan = [r \in Runs |-> NoPlan]
    /\ writes = [r \in Runs |-> <<>>]
    /\ at = [r \in Runs |-> 1]
    /\ applied = [r \in Runs |-> <<>>]
    /\ pending = [r \in Runs |-> <<>>]
    /\ report = [r \in Runs |-> "none"]
    /\ alone = Runs
    /\ landed = [r \in Runs |-> {}]

Goto(r, where) == pc' = [pc EXCEPT ![r] = where] /\ UNCHANGED report
End(r, how) ==
    /\ pc' = [pc EXCEPT ![r] = "ended"]
    /\ report' = [report EXCEPT ![r] = how]
Fault == faults < MaxFaults /\ faults' = faults + 1

-----------------------------------------------------------------------------
(* Flags and the guided flow.                                              *)

\* InitArgs::validate and the terminal check of run.  "given" says that the
\* command line names the profile, the source kind and every source parameter.
Validate(a) ==
    /\ a.backend = "keyring" /\ ~a.interactive /\ a.kind = "db" => a.no_write
    /\ ~a.interactive => a.given
    /\ a.accept # "other"
    /\ a.discover /\ ~a.interactive => a.accept = "host"
    /\ ~a.interactive \/ a.print_only \/ a.tty

\* Questions a step puts to the operator; without a terminal a step that has
\* one to ask refuses instead (require_interactive).
ParamQuestions(a) == IF a.given \/ a.discover THEN {} ELSE {"params"}
ScopeQuestions(a) == IF a.scope = "none" THEN {"scope"} ELSE {}

\* populate_discovered_source_params: the way to go on, which --accept-prod-rw
\* answers, and the user name to be typed before the credential is stored.
DiscoveryQuestions(a) == IF a.accept = "host" THEN {} ELSE {"discovery"}
CredentialQuestions(a, cloned) == IF cloned /\ a.accept # "host" THEN {"credential"} ELSE {}

KeyringQuestions(a) ==
    IF a.kind = "db" /\ a.backend = "keyring" /\ ~a.no_write THEN {"write-secret"} ELSE {}

\* Mutant: the scope on the command line is taken as consent everywhere.
PurgeUnasked(a, scope) == {}

\* Step 5: the destructive confirmation, unless --non-interactive.
PurgeQuestions(a, scope) ==
    IF scope = "purge" /\ a.interactive THEN {"purge"} ELSE {}

\* Questions with a default for scripts: should_configure_production,
\* choose_mcp_targets, build_agents_md_patch.
OptionalQuestions(a) ==
    IF ~a.interactive THEN {}
    ELSE (IF a.production THEN {} ELSE {"production"})
            \cup (IF a.clients = <<>> /\ ~a.no_mcp THEN {"mcp"} ELSE {})
            \cup (IF a.no_agents THEN {} ELSE {"agents"})

SourceQuestions(a) ==
    ParamQuestions(a) \cup
        IF a.discover THEN DiscoveryQuestions(a) ELSE KeyringQuestions(a)

\* The keyring password a plan may end up with, and whether it is the one
\* found in the remote .env.
SecretChoices(a) ==
    LET Typed == [secret : Secrets, cloned : {FALSE}]
        Cloned == [secret : Secrets, cloned : {TRUE}]
        None == [secret : {NoSecret}, cloned : {FALSE}]
    IN  CASE a.discover /\ a.accept = "host" -> Cloned
          [] a.discover /\ a.accept # "host" -> Cloned \cup Typed
          [] OTHER -> IF KeyringQuestions(a) = {} THEN None ELSE None \cup Typed

\* choose_mcp_targets: a target for each --client in its order, a client that
\* is named twice included; .mcp.json if the operator says yes to it.
McpTargets(a, may, yes) ==
    IF "mcp" \in may THEN (IF "mcp" \in yes THEN <<"claude-code">> ELSE <<>>)
    ELSE IF a.no_mcp THEN <<>> ELSE a.clients

\* The order of the plan: profile, policy, MCP targets, AGENTS.md, CLAUDE.md.
PlannedPaths(production, targets, agents, claude) ==
    <<"profile">> \o (IF production THEN <<"policy">> ELSE <<>>) \o targets
        \o (IF agents THEN <<"agents">> ELSE <<>>)
        \o (IF agents /\ claude THEN <<"claude">> ELSE <<>>)

Begin(r) ==
    /\ pc[r] = "new"
    /\ alone' = IF \E q \in Runs : Active(q) THEN alone \ ({r} \cup {q \in Runs : Active(q)}) ELSE alone
    /\ IF Validate(args[r]) THEN Goto(r, "guide") ELSE End(r, "unplanned")
    /\ UNCHANGED <<machine, inputs, progress, landed>>

\* run_guided refuses: a declined question, a field missing without a
\* terminal, an unreadable, truncated or unparsable remote .env, a host that
\* validate_section_hosts turns down.
GuidedRefuses(r) ==
    /\ pc[r] = "guide"
    /\ End(r, "unplanned")
    /\ UNCHANGED <<machine, inputs, progress, history>>

\* What an optional question decides: the answer, or the flag if it was not put.
Chosen(q, flag, may, yes) == q \in yes \/ (q \notin may /\ flag)

\* The plan, by the scope, the password, whether the section has all it needs (a
\* discovered .env may lack a host) and the optional questions in `yes`.
GuidedPlan(a, scope, credential, sound, yes) ==
    LET may == OptionalQuestions(a)
    IN  [paths |-> PlannedPaths(
                      Chosen("production", a.production, may, yes),
                      McpTargets(a, may, yes),
                      Chosen("agents", ~a.no_agents /\ files["agents"].form # "absent", may, yes),
                      a.claude /\ files["claude"].form # "absent"),
         secret |-> credential.secret,
         cloned |-> credential.cloned,
         sound |-> sound,
         purge |-> scope = "purge"]

ScopeChoices(a) == IF a.scope = "none" THEN {"user", "project", "purge"} ELSE {a.scope}

\* run_guided returns a plan; --print-only then only shows it.
Guided(r) ==
    /\ pc[r] = "guide"
    /\ LET a == args[r]
           must == SourceQuestions(a) \cup ScopeQuestions(a)
           may == OptionalQuestions(a)
       IN  /\ a.interactive \/ must = {}
           /\ \E scope \in ScopeChoices(a), credential \in SecretChoices(a),
                 sound \in BOOLEAN, yes \in SUBSET may :
                /\ agreed' = [agreed EXCEPT ![r] =
                      must \cup PurgeQuestions(a, scope)
                           \cup CredentialQuestions(a, credential.cloned) \cup yes]
                /\ plan' = [plan EXCEPT ![r] = GuidedPlan(a, scope, credential, sound, yes)]
           /\ IF a.print_only THEN End(r, "ok") ELSE Goto(r, "confirm")
    /\ UNCHANGED <<machine, inputs, writes, at, applied, pending, history>>

\* confirm_keyring_overwrite_if_needed.
ReadsKeyring(r) ==
    /\ args[r].interactive /\ ~args[r].write_all /\ args[r].overwrite
    /\ plan[r].secret # NoSecret

NeedsConfirm(r) ==
    /\ ReadsKeyring(r)
    /\ keyring \notin {NoSecret, plan[r].secret}

ConfirmKeyring(r) ==
    /\ pc[r] = "confirm"
    /\ IF NeedsConfirm(r)
       THEN \/ /\ agreed' = [agreed EXCEPT ![r] = @ \cup {"replace-secret"}]
               /\ Goto(r, "render")
            \/ UNCHANGED agreed /\ End(r, "declined")
       ELSE UNCHANGED agreed /\ Goto(r, "render")
    /\ UNCHANGED <<machine, inputs, plan, writes, at, applied, pending, history>>

-----------------------------------------------------------------------------
(* Phase A.                                                                *)

\* The question about the legacy entries of file p is only put when a terminal
\* prompter was passed down; the answer yes is remembered under the file's name.
AgreesToMigrate(r, p, answer) ==
    args[r].interactive /\ AsksMigration(files[p], args[r].overwrite) /\ answer

Migrates(r, p, answer) ==
    ~AsksMigration(files[p], args[r].overwrite) \/ AgreesToMigrate(r, p, answer)

\* The rendering of the next file of the plan, from what is on disk now.
Rendering(r, p, answer) ==
    LET a == args[r]
        section == IF plan[r].sound THEN r ELSE Unsound
    IN  CASE p = "profile" -> RenderProfile(files[p], a.name, section, a.overwrite \/ a.write_all)
          [] p = "policy" -> RenderPolicy(files[p], a.policy_overwrite)
          [] p \in Clients -> RenderMcp(files[p], a.overwrite, Migrates(r, p, answer))
          [] OTHER -> RenderAgents(files[p], a.name)

Render(r) ==
    /\ pc[r] = "render" /\ plan[r].paths # <<>>
    /\ \E answer \in BOOLEAN :
         LET p == Head(plan[r].paths)
             out == Rendering(r, p, answer)
         IN  /\ agreed' = IF p \in Clients /\ AgreesToMigrate(r, p, answer)
                          THEN [agreed EXCEPT ![r] = @ \cup {p}] ELSE agreed
             /\ IF out.refused
                THEN End(r, "refused") /\ UNCHANGED <<plan, writes>>
                ELSE /\ plan' = [plan EXCEPT ![r].paths = Tail(@)]
                     /\ writes' = IF out.write
                                  THEN [writes EXCEPT ![r] =
                                          Append(@, [path |-> p, bytes |-> out.content, base |-> files[p]])]
                                  ELSE writes
                     /\ UNCHANGED <<pc, report>>
    /\ UNCHANGED <<machine, inputs, at, applied, pending, history>>

Rendered(r) ==
    /\ pc[r] = "render" /\ plan[r].paths = <<>>
    /\ pending' = [pending EXCEPT ![r] = [k \in DOMAIN writes[r] |-> writes[r][k].path]]
    /\ Goto(r, IF plan[r].secret = NoSecret THEN "write" ELSE "probe")
    /\ UNCHANGED <<machine, inputs, agreed, plan, writes, at, applied, history>>

-----------------------------------------------------------------------------
(* keyring_preflight_and_write.                                            *)

Probe(r) ==
    /\ pc[r] = "probe"
    /\ probes' = probes \cup {r}
    /\ Goto(r, "probed")
    /\ UNCHANGED <<files, keyring, temps, faults, inputs, progress, history>>

\* The read-back matches and the probe entry is deleted, the deletion's error
\* ignored.
ProbeReadBack(r) ==
    /\ pc[r] = "probed"
    /\ \/ probes' = probes \ {r} /\ UNCHANGED faults
       \/ Fault /\ UNCHANGED probes
    /\ Goto(r, "secret")
    /\ UNCHANGED <<files, keyring, temps, inputs, progress, history>>

\* Mutant: --allow-overwrite is not consulted for the keyring.
SecretTakenStrict(r) == keyring \notin {NoSecret, plan[r].secret}

\* Another password is stored there and no flag allows to replace it.
SecretTaken(r) ==
    /\ keyring \notin {NoSecret, plan[r].secret}
    /\ ~(args[r].overwrite \/ args[r].write_all)

\* Mutant: any entry that is there is taken for the one to store.
StoreSecretKeeps(r) ==
    /\ pc[r] = "secret"
    /\ IF SecretTaken(r) THEN End(r, "refused") /\ UNCHANGED <<keyring, landed>>
       ELSE /\ keyring' = IF keyring = NoSecret THEN plan[r].secret ELSE keyring
            /\ UNCHANGED landed
            /\ Goto(r, "write")
    /\ UNCHANGED <<files, probes, temps, faults, inputs, progress, alone>>

\* entry.set_password and its read-back; an equal entry is left alone.
StoreSecret(r) ==
    /\ pc[r] = "secret"
    /\ IF SecretTaken(r) THEN End(r, "refused") /\ UNCHANGED <<keyring, landed>>
       ELSE /\ keyring' = plan[r].secret
            /\ landed' = IF keyring = plan[r].secret THEN landed
                         ELSE [landed EXCEPT ![r] = @ \cup {"keyring"}]
            /\ Goto(r, "write")
    /\ UNCHANGED <<files, probes, temps, faults, inputs, progress, alone>>

\* The backend fails on the look before the overwrite, on the probe, on the set,
\* or on the read-back after it.
KeyringFails(r) ==
    /\ pc[r] \in {"probe", "probed", "secret"} \/ (pc[r] = "confirm" /\ ReadsKeyring(r))
    /\ Fault
    /\ \/ UNCHANGED <<keyring, landed>>
       \/ /\ pc[r] = "secret" /\ ~SecretTaken(r) /\ keyring # plan[r].secret
          /\ keyring' = plan[r].secret
          /\ landed' = [landed EXCEPT ![r] = @ \cup {"keyring"}]
    /\ End(r, "bare")
    /\ UNCHANGED <<files, probes, temps, inputs, progress, alone>>

-----------------------------------------------------------------------------
(* Phase B: ensure_parent_dir_for_write, would_write, write_one, in turn.  *)

Current(r) == writes[r][at[r]]
InLoop(r, where) == pc[r] = where /\ at[r] <= Len(writes[r])
First(seq, p) == CHOOSE i \in DOMAIN seq : seq[i] = p /\ \A j \in 1 .. (i - 1) : seq[j] # p
StepOn(r) == at' = [at EXCEPT ![r] = @ + 1]

\* pending.iter().position(..) and pending.remove(..): the first one goes.
Without(seq, p) ==
    IF \E i \in DOMAIN seq : seq[i] = p
    THEN [k \in 1 .. (Len(seq) - 1) |-> IF k < First(seq, p) THEN seq[k] ELSE seq[k + 1]]
    ELSE seq

\* Mutant: a file that needs no write stays on the pending list.
UnchangedStaysPending(r) ==
    /\ InLoop(r, "write")
    /\ files[Current(r).path] = Current(r).bytes
    /\ StepOn(r)
    /\ UNCHANGED <<machine, pc, inputs, agreed, plan, writes, applied, pending, report, history>>

\* would_write: the bytes on disk are already the rendered ones.
Unchanged(r) ==
    /\ InLoop(r, "write")
    /\ files[Current(r).path] = Current(r).bytes
    /\ pending' = [pending EXCEPT ![r] = Without(@, Current(r).path)]
    /\ StepOn(r)
    /\ UNCHANGED <<machine, pc, inputs, agreed, plan, writes, applied, report, history>>

\* atomic_write stages a file of its own next to the target and syncs it.
Stage(r) ==
    /\ InLoop(r, "write")
    /\ files[Current(r).path] # Current(r).bytes
    /\ temps' = temps \cup {<<Current(r).path, r>>}
    /\ Goto(r, "staged")
    /\ UNCHANGED <<files, keyring, probes, faults, inputs, progress, history>>

\* The rename, and write_one's bookkeeping.
Rename(r) ==
    /\ InLoop(r, "staged")
    /\ files' = [files EXCEPT ![Current(r).path] = Current(r).bytes]
    /\ temps' = temps \ {<<Current(r).path, r>>}
    /\ applied' = [applied EXCEPT ![r] = Append(@, Current(r).path)]
    /\ pending' = [pending EXCEPT ![r] = Without(@, Current(r).path)]
    /\ landed' = [landed EXCEPT ![r] = @ \cup {Current(r).path}]
    /\ StepOn(r)
    /\ Goto(r, "write")
    /\ UNCHANGED <<keyring, probes, faults, inputs, agreed, plan, writes, alone>>

\* Staging or the rename fails: the temporary file is removed, the error names
\* what landed and what is pending.
WriteFails(r) ==
    /\ InLoop(r, "write") \/ InLoop(r, "staged")
    /\ Fault
    /\ temps' = temps \ {<<Current(r).path, r>>}
    /\ End(r, "partial")
    /\ UNCHANGED <<files, keyring, probes, inputs, progress, history>>

\* The directory cannot be made or the target cannot be read: the error goes
\* up as it is.
PrepareFails(r) ==
    /\ InLoop(r, "write")
    /\ Fault
    /\ End(r, "bare")
    /\ UNCHANGED <<files, keyring, probes, temps, inputs, progress, history>>

\* All files are in place; a smoke check that was agreed for may still fail.
Finish(r) ==
    /\ pc[r] = "write" /\ at[r] > Len(writes[r])
    /\ End(r, "ok") \/ (args[r].smoke_check /\ End(r, "smoke"))
    /\ UNCHANGED <<machine, inputs, progress, history>>

Kill(r) ==
    /\ Active(r) /\ Fault
    /\ pc' = [pc EXCEPT ![r] = "killed"]
    /\ UNCHANGED <<files, keyring, probes, temps, inputs, progress, report, history>>

Next ==
    \E r \in Runs :
        \/ Begin(r) \/ GuidedRefuses(r) \/ Guided(r) \/ ConfirmKeyring(r)
        \/ Render(r) \/ Rendered(r)
        \/ Probe(r) \/ ProbeReadBack(r) \/ StoreSecret(r) \/ KeyringFails(r)
        \/ Unchanged(r) \/ Stage(r) \/ Rename(r) \/ WriteFails(r) \/ PrepareFails(r)
        \/ Finish(r) \/ Kill(r)

Spec == Init /\ [][Next]_vars

-----------------------------------------------------------------------------
(* Properties.                                                             *)

RangeOf(seq) == {seq[k] : k \in DOMAIN seq}

\* A rendering that takes legacy MCP entries away.
DropsLegacy(w) ==
    /\ w.path \in Clients /\ w.base.form = "text"
    /\ HasLegacy(w.base.own) /\ ~HasLegacy(w.bytes.own)

\* Nothing destructive or privileged without consent: a purging profile was
\* confirmed (or asked for by scope in a script), a production credential was
\* accepted by flag or by typing its user name, legacy MCP entries go only with
\* --allow-overwrite or a yes for that very file, and --print-only landed
\* nothing.
LandsWithConsent ==
    \A r \in Runs : landed[r] # {} =>
        /\ ~args[r].print_only
        /\ plan[r].purge => ~args[r].interactive \/ "purge" \in agreed[r]
        /\ plan[r].cloned => args[r].accept = "host" \/ "credential" \in agreed[r]
        /\ \A w \in RangeOf(writes[r]) :
              DropsLegacy(w) => args[r].overwrite \/ w.path \in agreed[r]

\* Clients that the command line names more than once.
NamedTwice(a) == {a.clients[i] : i \in {i \in DOMAIN a.clients :
                     \E j \in DOMAIN a.clients : j # i /\ a.clients[j] = a.clients[i]}}

\* BatchPartial tells the truth: applied lists exactly the files this run
\* replaced, pending the files of the plan it did not get to, in their order and
\* beginning with the one that failed.  A file is on both lists only if it was to
\* be written twice, for a client that the command line names twice.
ReportIsExact ==
    \A r \in Runs : report[r] = "partial" =>
        /\ RangeOf(applied[r]) = landed[r] \ {"keyring"}
        /\ at[r] <= Len(writes[r])
        /\ pending[r] = [k \in 1 .. (Len(writes[r]) + 1 - at[r]) |-> writes[r][at[r] + k - 1].path]
        /\ RangeOf(applied[r]) \cap RangeOf(pending[r]) \subseteq NamedTwice(args[r])

\* The last write of its file.
IsLast(r, k) == \A j \in DOMAIN writes[r] : j > k => writes[r][j].path # writes[r][k].path

\* A run that reports success and that nobody overlapped has put every file of
\* its plan and its keyring password in place; of a file that it wrote twice,
\* the second rendering.
SuccessIsPlan ==
    [][\A r \in Runs : report[r] = "none" /\ report'[r] = "ok" /\ r \in alone
                         /\ ~args[r].print_only =>
          /\ \A k \in DOMAIN writes[r] :
                IsLast(r, k) => files'[writes[r][k].path] = writes[r][k].bytes
          /\ files'["profile"].form = "text" /\ files'["profile"].own[args[r].name] = r
          /\ plan[r].secret # NoSecret => keyring' = plan[r].secret]_vars

\* A file that no flag gets past: it does not parse, it is a policy that is not
\* text, or a profile file with a section of another name that is not valid.
Unfit(p, c, name) ==
    \/ c.form = "broken"
    \/ p = "policy" /\ c.form = "binary"
    \/ p = "profile" /\ \E n \in Names \ {name} : c.own[n] = Unsound

\* What an earlier run left behind when it failed or was killed never stops
\* the recovery the warning of commit_plan recommends: a run with
\* --allow-overwrite (and consent to lift the policy) is turned down only over
\* its own section, or at a file that was unfit before the first run.
RecoveryNotRefused ==
    \A r \in Runs :
        report[r] = "refused" /\ args[r].overwrite /\ args[r].policy_overwrite =>
            /\ plan[r].paths # <<>>
            /\ LET p == Head(plan[r].paths)
               IN  (p = "profile" /\ ~plan[r].sound) \/ Unfit(p, original[p], args[r].name)

\* Replacing a file drops somebody else's sections, servers or prose only if
\* the file was changed after this run had read it, or was not UTF-8.
LossExplained ==
    [][\A r \in Runs : pc[r] = "staged" /\ pc'[r] = "write" =>
          LET w == Current(r)
          IN  files[w.path] = w.base /\ w.base.form # "binary" =>
                Foreign(w.path, files[w.path], args[r].name)
                    \subseteq Foreign(w.path, files'[w.path], args[r].name)]_vars

-----------------------------------------------------------------------------
(* What the documentation says and the code does not do.                   *)

\* "Errors are wrapped in BatchPartial so callers see what landed": a run that
\* fails without that report has changed nothing.
FailureNamesWhatLanded == \A r \in Runs : report[r] = "bare" => landed[r] = {}

\* "--no-keyring-write: Do not write the keyring entry during init."
NoKeyringWriteHonoured ==
    \A r \in Runs : args[r].backend = "keyring" /\ args[r].no_write =>
        "keyring" \notin landed[r]

\* "Allow init to merge a below-floor production policy up to the minimum."
MergedPolicyAtFloor ==
    \A r \in Runs :
        args[r].production /\ args[r].policy_overwrite /\ ~args[r].print_only
            /\ report[r] = "ok" /\ r \in alone => files["policy"].own = "floor"
=============================================================================
