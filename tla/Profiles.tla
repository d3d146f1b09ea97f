------------------------------ MODULE Profiles ------------------------------
(***************************************************************************)
(* Profiles and policies: how the team's file and the user's file become   *)
(* one profile per name, which profiles a process loads, what sweep of the *)
(* shared snapshot directory they ask for, and under which policy a        *)
(* profile may be served.                                                  *)
(*                                                                         *)
(* A profile is [name, source, policy, production, days, purge]; its       *)
(* source is [kind, transport, data, secrets]: transport is how to get     *)
(* there (host, port, tunnel), data is what is there (database and user,   *)
(* resource, path) and secrets is the number of password references.       *)
(* A policy is [valid, rules, default, ner, strip].                        *)
(***************************************************************************)
EXTENDS Positions

CONSTANTS
    None,        \* an option that is not set
    NameOrder,   \* the profile names, in alphabetical order
    SafeNames    \* the ones that match PROFILE_NAME_PATTERN

IsSequence(s) == s \in Seq({s[i] : i \in DOMAIN s})

ASSUME ProfilesAssumption ==
    /\ IsSequence(NameOrder)
    /\ None \notin {"tokenize", "redact", "preserve"}

\* AutoPurge: off < warn < purge.
Off == 0
Warn == 1
Purge == 2

Or(a, b) == IF a # None THEN a ELSE b
Least(S) == CHOOSE x \in S : \A y \in S : x <= y

IsProfile(profile) ==
    /\ DOMAIN profile = {"name", "source", "policy", "production", "days", "purge"}
    /\ profile.production \in BOOLEAN
    /\ profile.days \in Nat \cup {None}
    /\ profile.purge \in {Off, Warn, Purge}

\* The profile called n in a file; a later one replaces an earlier one.
Section(file, n) ==
    LET at == {i \in DOMAIN file : file[i].name = n}
    IN  IF at = {} THEN None ELSE file[CHOOSE i \in at : \A j \in at : j <= i]

-----------------------------------------------------------------------------
(* merge_profiles.                                                         *)

\* Sources with a database server.
Servers == {"mysql", "postgres"}

\* Of two sources of one kind the transport is the user's; data and secrets are the team's, but a path
\* in a file system is transport, and of a remote log the user's whole
\* configuration is taken with the team's resource.
MergeSource(user, project) ==
    IF user.kind # project.kind THEN project
    ELSE CASE project.kind = "remote" -> [user EXCEPT !.data = project.data]
           [] project.kind \in Servers -> [project EXCEPT !.transport = Or(user.transport, @)]
           [] project.kind \in {"sqlite", "ssh_log", "local_log"} ->
                  [project EXCEPT !.transport = Or(user.transport, @), !.data = Or(user.data, @)]

\* Mutant: the user's mode replaces the team's.
MergeOneUserPurges(user, project) ==
    [name       |-> project.name,
     source     |-> MergeSource(user.source, project.source),
     policy     |-> Or(project.policy, user.policy),
     production |-> project.production \/ user.production,
     days       |-> Or(project.days, user.days),
     purge      |-> user.purge]

MergeOne(user, project) ==
    [name       |-> project.name,
     source     |-> MergeSource(user.source, project.source),
     policy     |-> Or(project.policy, user.policy),
     production |-> project.production \/ user.production,
     days       |-> Or(project.days, user.days),
     purge      |-> Least({project.purge, user.purge})]

\* Only the team can allow a purge.
DowngradeUserOnly(user) == [user EXCEPT !.purge = Off]

\* The merged profile n.
Merge(files, n) ==
    LET user == Section(files.user, n)
        project == Section(files.project, n)
    IN  CASE user # None /\ project # None -> MergeOne(user, project)
          [] project = None -> DowngradeUserOnly(user)
          [] user = None -> project

\* BTreeSet: every name of either file, in order.
Given(files, n) == Section(files.user, n) # None \/ Section(files.project, n) # None
MergedNames(files) ==
    LET at == {i \in DOMAIN NameOrder : Given(files, NameOrder[i])}
    IN  Pick(NameOrder, at)

MergeProfiles(files) ==
    [i \in DOMAIN MergedNames(files) |-> Merge(files, MergedNames(files)[i])]

-----------------------------------------------------------------------------
(* What is loaded.                                                         *)

\* validate_post_merge: one password reference for a database server.
SecretsValid(profiles) ==
    \A i \in DOMAIN profiles :
        profiles[i].source.kind \in Servers => profiles[i].source.secrets = 1

\* select_profiles: all of them, or those that --profile names, in its order.
Selectable(profiles, list) ==
    /\ \A i \in DOMAIN profiles : profiles[i].name \in SafeNames
    /\ \A i \in DOMAIN list : Section(profiles, list[i]) # None

SelectProfiles(profiles, list) ==
    IF list = <<>> THEN profiles ELSE [i \in DOMAIN list |-> Section(profiles, list[i])]

\* Remote profiles need a process of their own.
Unmixed(profiles) ==
    LET remote == {i \in DOMAIN profiles : profiles[i].source.kind = "remote"}
    IN  remote \in {{}, DOMAIN profiles}

\* apply_multi_profile_retention: the sweep the process makes when it starts.
Retention(profiles) ==
    LET days == {profiles[i].days : i \in DOMAIN profiles} \ {None}
    IN  IF days = {} THEN None
        ELSE [days |-> Least(days), mode |-> Least({profiles[i].purge : i \in DOMAIN profiles})]

-----------------------------------------------------------------------------
(* Policies.                                                               *)

Hiding == {"tokenize", "redact", "format_preserve", "generalize"}

\* A rule is [column, class, action].
IsPolicy(policy) ==
    /\ policy.ner \in {"none", "broken", "model"}
    /\ IsSequence(policy.rules)
    /\ \A i \in DOMAIN policy.rules : policy.rules[i].action \in Hiding \cup {"preserve"}

DefaultPolicy ==
    [valid |-> TRUE, rules |-> <<>>, default |-> None, ner |-> "none", strip |-> None]

\* ColumnActionPolicy::action_for: a later rule replaces an earlier one.
ActionFor(policy, column) ==
    LET at == {i \in DOMAIN policy.rules : policy.rules[i].column = column}
    IN  IF at = {} THEN None ELSE policy.rules[CHOOSE i \in at : \A j \in at : j <= i].action

\* enforce_remote_output_policy: a remote log is never served under a policy
\* that lets what was detected through.
RemoteOutputSafe(profile, policy) ==
    profile.source.kind = "remote" =>
        /\ profile.policy # None
        /\ policy.default \in {"tokenize", "redact"}
        /\ \A i \in DOMAIN policy.rules : policy.rules[i].action \in {"tokenize", "redact"}

\* enforce_production_ner.
ProductionNer(profile, policy) == profile.production => policy.ner # "none"

\* to_gaze_policy, build_pipeline and from_policy_file: the file parses, the
\* model can be loaded and log matches are not kept.
Builds(policy) ==
    /\ policy.valid /\ policy.ner # "broken"
    /\ policy.strip \in {None, "redact", "tokenize"}

\* What the pipeline of a policy detects.
Detected(policy) ==
    {"email"} \cup (IF policy.ner = "model" THEN {"name"} ELSE {})
              \cup (IF policy.strip # None THEN {"strip"} ELSE {})

\* The actions its rules give to a class; none of them comes first.
ClassActions(policy, class) ==
    LET rules == {policy.rules[i].action : i \in {i \in DOMAIN policy.rules : policy.rules[i].class = class}}
        all == IF class = "strip" THEN rules \cup {policy.strip} ELSE rules
    IN  IF all = {} THEN {Or(policy.default, "preserve")} ELSE all
=============================================================================
