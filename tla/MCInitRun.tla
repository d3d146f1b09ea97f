----------------------------- MODULE MCInitRun -----------------------------
EXTENDS InitRun, TLC

CONSTANTS r1, r2, dev, prod, p1, p2

TwoRuns == {r1, r2}
TwoNames == {dev, prod}
TwoSecrets == {p1, p2}
Symmetry == Permutations(TwoRuns) \cup Permutations(TwoSecrets)
RunsOrOperator == TwoRuns \cup {"operator"}

\* A script: everything on the command line, nothing optional.
Script ==
    [interactive |-> FALSE, tty |-> FALSE, given |-> TRUE, print_only |-> FALSE,
     overwrite |-> FALSE, write_all |-> FALSE, policy_overwrite |-> FALSE,
     scope |-> "project", kind |-> "file", discover |-> FALSE, accept |-> "none",
     backend |-> "env", no_write |-> FALSE, production |-> FALSE,
     clients |-> <<"claude-code">>, no_mcp |-> FALSE, no_agents |-> TRUE, claude |-> FALSE, smoke_check |-> FALSE, name |-> dev]

\* A terminal session over a database with its password in the keyring.
Guide == [Script EXCEPT !.interactive = TRUE, !.tty = TRUE, !.kind = "db", !.backend = "keyring",
                        !.clients = <<>>, !.no_mcp = TRUE, !.production = TRUE]

\* The recovery, with a client named twice around another one.
Recover == [Guide EXCEPT !.overwrite = TRUE, !.policy_overwrite = TRUE, !.no_mcp = FALSE,
                         !.clients = <<"claude-code", "codex", "claude-code">>]

SomeInvocations ==
    {[Script EXCEPT !.production = TRUE, !.scope = "purge",
                    !.policy_overwrite = TRUE, !.no_agents = FALSE, !.claude = TRUE],
     [Script EXCEPT !.discover = TRUE, !.accept = "host", !.name = prod, !.backend = "keyring",
                    !.no_write = TRUE, !.kind = "db", !.clients = <<>>, !.smoke_check = TRUE],
     [Guide EXCEPT !.scope = "none", !.given = FALSE, !.production = FALSE, !.no_mcp = FALSE,
                   !.backend = "env", !.print_only = TRUE, !.tty = FALSE],
     [Guide EXCEPT !.discover = TRUE, !.scope = "purge", !.write_all = TRUE, !.no_mcp = FALSE,
                   !.policy_overwrite = TRUE, !.clients = <<"codex", "codex">>],
     Recover}

Plain(p, own, other) == [form |-> "text", own |-> own, other |-> other]
Gone(p) == [form |-> "absent", other |-> FALSE,
            own |-> IF p = "profile" THEN NoSection ELSE "none"]
Unreadable(p, form) == [Gone(p) EXCEPT !.form = form, !.other = TRUE]

Fresh == [p \in Paths |-> Gone(p)]
Lived == [Fresh EXCEPT !["profile"] = Plain("profile", [NoSection EXCEPT ![prod] = "operator"], TRUE),
                       !["policy"] = Plain("policy", "generalize", TRUE),
                       !["claude-code"] = Plain("claude-code", "legacy", TRUE),
                       !["codex"] = Plain("codex", "legacy", TRUE),
                       !["agents"] = Plain("agents", "none", TRUE),
                       !["claude"] = Plain("claude", "none", TRUE)]
Edited == [Fresh EXCEPT !["profile"] = Plain("profile", [NoSection EXCEPT ![dev] = "operator"], FALSE),
                        !["policy"] = Plain("policy", "preserve", FALSE),
                        !["claude-code"] = Plain("claude-code", "custom", TRUE),
                        !["codex"] = Plain("codex", "unseen", FALSE)]
Damaged == [Fresh EXCEPT !["profile"] = Unreadable("profile", "binary"),
                         !["agents"] = Unreadable("agents", "broken")]
Refusable == [Fresh EXCEPT !["profile"] = Plain("profile", [NoSection EXCEPT ![prod] = Unsound], FALSE),
                           !["codex"] = Plain("codex", "both", FALSE)]
SomeMachines == {Fresh, Lived, Edited, Damaged, Refusable}
=============================================================================
