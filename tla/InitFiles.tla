----------------------------- MODULE InitFiles -----------------------------
(***************************************************************************)
(* The files `gaze-lens init` edits and what its renderers make of them.   *)
(* A file is abstracted to its form, to the part of it that init owns and  *)
(* to whether it holds anything else (other profiles, other MCP servers,   *)
(* prose).  The owned part is                                              *)
(*   profile   which profile sections there are, and who wrote them        *)
(*   policy    the production floor: model directory and default action    *)
(*   codex, claude-code, cursor   the gaze-lens server entries             *)
(*   agents, claude   the profile named between the markers                *)
(* The scope decides whether profile, policy and cursor are in the home or *)
(* in the working directory; the invocations of a model are of one place.  *)
(***************************************************************************)
EXTENDS FiniteSets

CONSTANTS
    Names,      \* profile names
    Writers     \* who wrote a profile section: init invocations or the operator

\* A client's configuration file goes by the name of the client.
Clients == {"codex", "claude-code", "cursor"}
Paths == {"profile", "policy", "agents", "claude"} \cup Clients

PolicyParts == {"none", "floor", "preserve", "generalize"}
NoOne == "none"

\* Init's own entry, the entries of old releases, an entry of the operator's
\* under init's key, both of the latter, and an entry under that key which
\* toml_entry and json_entry do not see (an inline table, a bare value).
McpParts == {"none", "serve", "legacy", "custom", "both", "unseen"}
HasLegacy(part) == part \in {"legacy", "both"}

\* A section that validate_profile_bytes turns down: a field is missing, or the
\* text has `password =` in it.  What is outside of all sections belongs, for
\* this, to a name that nobody gives to init.
Unsound == "unsound"
NoSection == [n \in Names |-> NoOne]

Parts(p) ==
    CASE p = "profile" -> [Names -> Writers \cup {NoOne, Unsound}]
      [] p = "policy" -> PolicyParts
      [] p \in Clients -> McpParts
      [] OTHER -> Names \cup {NoOne}

\* "binary" is a file that is not UTF-8, "broken" one that does not parse:
\* TOML, JSON, or markers that do not pair up.
Forms == {"absent", "binary", "broken", "text"}
Contents(p) == [form : Forms, own : Parts(p), other : BOOLEAN]

Empty(p, c) == ~c.other /\ (p = "profile" => c.own = NoSection)

Text(own, other) == [form |-> "text", own |-> own, other |-> other]

\* read_to_string(path).ok(): what cannot be read as text counts as missing.
ReadAsText(c) == IF c.form \in {"absent", "binary"} THEN [c EXCEPT !.form = "absent"] ELSE c

Nothing == [write |-> FALSE, refused |-> FALSE]
Refused == [write |-> FALSE, refused |-> TRUE]
Written(c) == [write |-> TRUE, refused |-> FALSE, content |-> c]

-----------------------------------------------------------------------------
\* build_profile_table: the section init writes replaces the one of its name.
WithSection(sections, name, section) == [sections EXCEPT ![name] = section]

\* validate_profile_bytes, of the rendered bytes and whatever the flags: no
\* literal password anywhere, and every section has what its source needs.
ValidateProfile(c) ==
    IF \E n \in Names : c.own[n] = Unsound THEN Refused ELSE Written(c)

\* Mutant: the document is rebuilt from the new section alone.
ProfileRebuilt(c, name, section, overwrite) ==
    LET old == ReadAsText(c)
    IN  IF old.form = "broken" THEN Refused
        ELSE IF old.form = "absent" THEN ValidateProfile(Text(WithSection(NoSection, name, section), FALSE))
        ELSE IF old.own[name] # NoOne /\ ~overwrite THEN Refused
        ELSE ValidateProfile(Text(WithSection(NoSection, name, section), old.other))

\* render_profile_toml: append the section, or replace the one of that name;
\* then the check of the bytes.
RenderProfile(c, name, section, overwrite) ==
    LET old == ReadAsText(c)
    IN  IF old.form = "broken" THEN Refused
        ELSE IF old.form = "absent" THEN ValidateProfile(Text(WithSection(NoSection, name, section), FALSE))
        ELSE IF old.own[name] # NoOne /\ ~overwrite THEN Refused
        ELSE ValidateProfile(Text(WithSection(old.own, name, section), old.other))

\* policy_is_at_floor: a model directory and a default action that hides.
AtFloor(part) == part = "floor"

\* ensure_ner_model_dir, ensure_default_action, ensure_database_policy.
Merged(part) == IF part = "generalize" THEN "generalize" ELSE "floor"

\* render_production_policy_for_path; read_existing_production_policy fails
\* on anything but a missing file.  ensure_default_action replaces a missing
\* or "preserve" default action and keeps every other one.
RenderPolicy(c, overwrite) ==
    IF c.form \in {"binary", "broken"} THEN Refused
    ELSE IF c.form = "absent" THEN Written(Text("floor", FALSE))
    ELSE IF AtFloor(c.own) THEN Nothing
    ELSE IF ~overwrite THEN Refused
    ELSE Written(Text(Merged(c.own), c.other))

\* migration_decision: legacy entries are migrated, kept or asked about.
AsksMigration(c, overwrite) ==
    ~overwrite /\ ReadAsText(c).form = "text" /\ HasLegacy(c.own)

\* ensure_primary_available: an entry under init's own key that is neither
\* its new nor its legacy form is the operator's.
PrimaryTaken(part, overwrite) == part \in {"custom", "both"} /\ ~overwrite

\* render_codex_toml_with_migration, render_mcp_json_with_migration.
RenderMcp(c, overwrite, migrate) ==
    LET old == ReadAsText(c)
    IN  IF old.form = "broken" THEN Refused
        ELSE IF old.form = "absent" THEN Written(Text("serve", FALSE))
        ELSE IF HasLegacy(old.own) /\ ~migrate THEN Written(old)
        ELSE IF PrimaryTaken(old.own, overwrite) THEN Refused
        ELSE Written(Text("serve", old.other))

\* render_agents_md_patch: bounded replace, or append.
RenderAgents(c, name) ==
    LET old == ReadAsText(c)
    IN  IF old.form = "broken" THEN Refused
        ELSE IF old.form = "absent" THEN Written(Text(name, FALSE))
        ELSE Written(Text(name, old.other))

\* What a reader of the file would miss if it were gone: sections of other
\* profiles, and whatever init does not own.
Foreign(p, c, name) ==
    (IF c.other THEN {"other"} ELSE {})
        \cup (IF p = "profile" THEN {n \in Names \ {name} : c.own[n] # NoOne} ELSE {})
=============================================================================
