----------------------------- MODULE MCServeRun -----------------------------
(***************************************************************************)
(* Profiles a and b and a name that is not safe, two policy files, and     *)
(* tables of up to three rows where the cap is two.  The files vary in two *)
(* families: what the sweep depends on, and what the policies depend on.   *)
(***************************************************************************)
EXTENDS ServeRun

CONSTANTS a, b, unsafe, p, q, home, office, shop

Source(kind, transport, data, secrets) ==
    [kind |-> kind, transport |-> transport, data |-> data, secrets |-> secrets]
Profile(name, source, policy, production, days, purge) ==
    [name |-> name, source |-> source, policy |-> policy, production |-> production,
     days |-> days, purge |-> purge]

Mysql(secrets) == Source("mysql", office, shop, secrets)
Sqlite == Source("sqlite", None, shop, 0)
Log == Source("ssh_log", office, shop, 0)
LocalLog == Source("local_log", home, None, 0)
Remote == Source("remote", home, shop, 0)

\* Retention: every pair of modes for a, windows that differ between the
\* files, b in either file.
Swept(name, days, purge) == Profile(name, Log, None, FALSE, days, purge)
SweepA(window) == {<<>>} \cup {<<Swept(a, d, m)>> : d \in {None, window}, m \in {Off, Warn, Purge}}
SweepB == {<<>>, <<Swept(b, None, Purge)>>, <<Swept(b, 1, Purge)>>}
SweepFiles ==
    {[user |-> u1 \o u2, project |-> p1 \o p2, exists |-> TRUE] :
        u1 \in SweepA(2), u2 \in SweepB, p1 \in SweepA(1), p2 \in SweepB}

\* Policies: who names which policy, who marks production, which source.
Ruled(source, policy, production) == Profile(a, source, policy, production, None, Off)
PolicyFiles ==
    {[user |-> u, project |-> v, exists |-> v # <<>>] :
        u \in {<<>>, <<Ruled(Sqlite, q, FALSE)>>, <<Ruled(Sqlite, None, TRUE)>>, <<Ruled(Remote, q, FALSE)>>},
        v \in {<<>>, <<Profile(unsafe, Log, None, FALSE, None, Off)>>}
              \cup {<<Ruled(s, f, m)>> \o w :
                       s \in {Sqlite, Log, Remote}, f \in {None, p}, m \in BOOLEAN,
                       w \in {<<>>, <<Profile(b, Sqlite, q, FALSE, None, Off)>>}}}
\* One password reference, none, or two; sources that do not match; a second
\* section of a name.
ShapeFiles ==
    {[user |-> <<Ruled(Source(kind, home, None, 0), None, FALSE)>>,
      project |-> <<Ruled(Mysql(k), p, FALSE)>>, exists |-> TRUE] : k \in 0 .. 2, kind \in Servers}
    \cup {[user |-> <<Ruled(LocalLog, None, FALSE)>>, project |-> <<Ruled(Log, p, FALSE)>>, exists |-> TRUE]}
    \cup {[user |-> <<>>, project |-> <<Ruled(Sqlite, p, TRUE), Ruled(Log, q, FALSE)>>, exists |-> TRUE]}

MCFileSets == SweepFiles \cup PolicyFiles \cup ShapeFiles

Rule(column, class, action) == [column |-> column, class |-> class, action |-> action]
MCPolicy(rules, default, ner, strip) ==
    [valid |-> TRUE, rules |-> rules, default |-> default, ner |-> ner, strip |-> strip]

Strict == MCPolicy(<<Rule("c", "name", "redact")>>, "tokenize", "model", "redact")
Loose == MCPolicy(<<Rule("c", "email", "redact"), Rule("c", "name", "preserve")>>, None, "none", None)
Broken == MCPolicy(<<>>, "redact", "broken", None)
Invalid == [MCPolicy(<<>>, None, "none", "preserve") EXCEPT !.valid = FALSE]

MCPolicies == {Strict, Loose, Broken, Invalid}

MCNameOrder == <<a, b, unsafe>>
MCLists == {<<>>, <<a>>, <<b, a>>, <<a, a>>}

Cell(column, shape, class, size) ==
    [column |-> column, shape |-> shape, class |-> class, size |-> size, raw |-> TRUE]
Rows == {<<Cell("c", "text", "none", 3), Cell("d", "text", "email", 1)>>,
         <<Cell("c", "json", "email", 1), Cell("d", "json", "name", 1)>>,
         <<Cell("c", "typed", "none", 1), Cell("d", "text", "none", 3)>>}
Corrupt == <<Cell("c", "corrupt", "none", 1), Cell("d", "typed", "none", 1)>>
MCTables ==
    {<<>>} \cup {<<r>> : r \in Rows} \cup {<<r, s>> : r \in Rows, s \in Rows}
           \cup {<<r, r, s>> : r \in Rows, s \in Rows \cup {Corrupt}} \cup {<<Corrupt>>}
MCQueries == [columns : {{}}, limit : {None, 1, 2, 3}] \cup [columns : {{"c"}, {"x"}}, limit : {None}]

Span(class, size) == [class |-> class, size |-> size, raw |-> TRUE]
MCTexts == {<<Span("email", 2), Span("name", 2), Span("strip", 1)>>,
            <<Span("none", 1), Span("strip", 1)>>}
=============================================================================
