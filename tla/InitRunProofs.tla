---------------------------- MODULE InitRunProofs ----------------------------
(***************************************************************************)
(* `gaze-lens init` for any number of invocations that overlap, fail and   *)
(* are killed anywhere.                                                    *)
(*                                                                         *)
(* Most of the invariant speaks of one run at a time and of nothing the    *)
(* runs share: what its operator consented to, what its renderings keep of *)
(* the files they were made from, and how its lists of applied and pending *)
(* files follow the position of phase B.  Two parts tie the runs to the    *)
(* files: what the renderers make is fit to be read again, so a file that  *)
(* stops init was unfit before the first run; and while a run is alone,    *)
(* what it wrote last to a file is in place.                               *)
(***************************************************************************)
EXTENDS InitRun, TLAPS

\* Stages, those from the plan on, and those from phase B on.
Committing == {"probe", "probed", "secret", "write", "staged"}
Planned == {"confirm", "render"} \cup Committing
Stages == {"guide"} \cup Planned \cup Ended
Reports == {"none", "unplanned", "ok", "declined", "refused", "bare", "partial", "smoke"}

Questions == {"params", "scope", "discovery", "credential", "write-secret", "purge", "production",
              "mcp", "agents", "replace-secret"} \cup Clients
Plans == [paths : Seq(Paths), secret : Secrets \cup {NoSecret}, purge : BOOLEAN, cloned : BOOLEAN,
          sound : BOOLEAN]
AnyContents == UNION {Contents(p) : p \in Paths}
Writes == [path : Paths, bytes : AnyContents, base : AnyContents]

MachineType ==
    /\ files \in [Paths -> AnyContents]
    /\ \A p \in Paths : files[p] \in Contents(p) /\ (files[p].form = "absent" => Empty(p, files[p]))
    /\ faults \in Nat
    /\ alone \subseteq Runs

RunType ==
    /\ pc \in [Runs -> Stages]
    /\ args \in [Runs -> Invocations]
    /\ agreed \in [Runs -> SUBSET Questions]
    /\ plan \in [Runs -> Plans]
    /\ writes \in [Runs -> Seq(Writes)]
    /\ at \in [Runs -> Nat \ {0}]
    /\ applied \in [Runs -> Seq(Paths)]
    /\ pending \in [Runs -> Seq(Paths)]
    /\ report \in [Runs -> Reports]
    /\ landed \in [Runs -> SUBSET (Paths \cup {"keyring"})]

\* What LandsWithConsent asks of the plan of a run.
Consent(r) ==
    /\ ~args[r].print_only
    /\ plan[r].purge => ~args[r].interactive \/ "purge" \in agreed[r]
    /\ plan[r].cloned => args[r].accept = "host" \/ "credential" \in agreed[r]

\* Nothing is read, written or reported before its time.
StageInv(r) ==
    /\ pc[r] \in {"new", "guide", "confirm"} => writes[r] = <<>>
    /\ pc[r] \notin Committing \cup {"ended", "killed"} =>
          /\ at[r] = 1 /\ applied[r] = <<>> /\ pending[r] = <<>> /\ landed[r] = {}
    /\ report[r] # "none" => pc[r] = "ended"
    /\ pc[r] \in Planned \/ landed[r] # {} => Consent(r)

\* What a rendering of run r, for the profile `name`, keeps of its base.
Faithful(r, name, w) ==
    /\ w.bytes \in Contents(w.path) /\ w.bytes.form = "text"
    /\ w.base \in Contents(w.path)
    /\ w.path = "profile" => w.bytes.own[name] = r
    /\ \A n \in Names : ~Unfit(w.path, w.bytes, n)
    /\ w.base.form # "binary" =>
          Foreign(w.path, w.base, name) \subseteq Foreign(w.path, w.bytes, name)

\* Only members of D occur twice in the sequence.
Distinct(s, D) == \A i, j \in DOMAIN s : s[i] = s[j] => i = j \/ s[i] \in D

\* Only the file of a client that was named twice is planned or rendered twice,
\* the profile is among the files, and legacy entries go with consent.
RenderInv(r) ==
    /\ Distinct(plan[r].paths, NamedTwice(args[r]))
    /\ \A i, j \in DOMAIN writes[r] :
          writes[r][i].path = writes[r][j].path => i = j \/ writes[r][i].path \in NamedTwice(args[r])
    /\ \A i \in DOMAIN writes[r] : \A j \in DOMAIN plan[r].paths :
          writes[r][i].path = plan[r].paths[j] => writes[r][i].path \in NamedTwice(args[r])
    /\ \A i \in DOMAIN writes[r] :
          /\ Faithful(r, args[r].name, writes[r][i])
          /\ DropsLegacy(writes[r][i]) => args[r].overwrite \/ writes[r][i].path \in agreed[r]
    /\ pc[r] \in Planned =>
          \/ \E j \in DOMAIN plan[r].paths : plan[r].paths[j] = "profile"
          \/ \E i \in DOMAIN writes[r] : writes[r][i].path = "profile"
    /\ pc[r] \in Committing => plan[r].paths = <<>>

\* applied and pending split the writes at the position of phase B.
ListInv(r) ==
    pc[r] \in Committing \/ report[r] = "partial" =>
        /\ at[r] <= Len(writes[r]) + 1
        /\ report[r] = "partial" => at[r] <= Len(writes[r])
        /\ Len(pending[r]) = Len(writes[r]) + 1 - at[r]
        /\ \A k \in DOMAIN pending[r] : pending[r][k] = writes[r][at[r] + k - 1].path
        /\ RangeOf(applied[r]) = landed[r] \ {"keyring"}
        /\ \A p \in RangeOf(applied[r]) : \E k \in 1 .. (at[r] - 1) : writes[r][k].path = p

\* Why a run that may overwrite was refused.
RefusalInv(r) ==
    report[r] = "refused" /\ args[r].overwrite /\ args[r].policy_overwrite =>
        /\ plan[r].paths # <<>>
        /\ LET p == Head(plan[r].paths)
           IN  (p = "profile" /\ ~plan[r].sound) \/ Unfit(p, original[p], args[r].name)

RunInv(r) == StageInv(r) /\ RenderInv(r) /\ ListInv(r) /\ RefusalInv(r)

\* What is unfit now was unfit before the first run.
FitInv == \A p \in Paths : \A n \in Names : Unfit(p, files[p], n) => Unfit(p, original[p], n)

\* No write from k up to phase B's position replaced the file of write k again.
LastSoFar(r, k) ==
    k < at[r] /\ \A j \in DOMAIN writes[r] : k < j /\ j < at[r] => writes[r][j].path # writes[r][k].path

\* What a run wrote last to a file is what is there.
InPlace(r) ==
    /\ pc[r] \in Committing =>
          \A k \in DOMAIN writes[r] : LastSoFar(r, k) => files[writes[r][k].path] = writes[r][k].bytes
    /\ pc[r] \in {"write", "staged"} /\ plan[r].secret # NoSecret => keyring = plan[r].secret

\* A run that is alone is the only one, and what it wrote is in place.
AloneInv ==
    \A r \in alone : (Active(r) => \A q \in Runs : Active(q) => q = r) /\ InPlace(r)

IInv == MachineType /\ RunType /\ (\A r \in Runs : RunInv(r)) /\ FitInv /\ AloneInv

-----------------------------------------------------------------------------
(* What the plan and the renderers return.                                 *)

\* A list of some files after a list of others.
LEMMA Concatenated ==
    ASSUME NEW S \in SUBSET Paths, NEW T \in SUBSET Paths, S \cap T = {}, NEW D,
           NEW s \in Seq(S), s # <<>>, Distinct(s, D), NEW t \in Seq(T), Distinct(t, D)
    PROVE  s \o t \in Seq(S \cup T) /\ s \o t # <<>> /\ (s \o t)[1] = s[1] /\ Distinct(s \o t, D)
  <1> DEFINE u == s \o t
  <1>1. /\ s \in Seq(S \cup T) /\ t \in Seq(S \cup T) /\ Len(s) \in Nat /\ Len(t) \in Nat
        /\ DOMAIN s = 1 .. Len(s) /\ DOMAIN t = 1 .. Len(t) /\ Len(s) > 0
    OBVIOUS
  <1>2. /\ u \in Seq(S \cup T) /\ DOMAIN u = 1 .. (Len(s) + Len(t)) /\ u # <<>> /\ u[1] = s[1]
        /\ \A i \in DOMAIN u : u[i] = IF i <= Len(s) THEN s[i] ELSE t[i - Len(s)]
    BY <1>1
  <1> HIDE DEF u
  <1>3. ASSUME NEW i \in DOMAIN u, NEW j \in DOMAIN u, u[i] = u[j] PROVE i = j \/ u[i] \in D
    <2>1. CASE i <= Len(s) /\ j <= Len(s)
      <3>1. i \in DOMAIN s /\ j \in DOMAIN s /\ s[i] = s[j] /\ u[i] = s[i]
        BY <1>1, <1>2, <1>3, <2>1
      <3> QED
        BY <3>1 DEF Distinct
    <2>2. CASE i > Len(s) /\ j > Len(s)
      <3>1. /\ i - Len(s) \in DOMAIN t /\ j - Len(s) \in DOMAIN t
            /\ t[i - Len(s)] = t[j - Len(s)] /\ u[i] = t[i - Len(s)]
        BY <1>1, <1>2, <1>3, <2>2
      <3>2. i - Len(s) = j - Len(s) \/ u[i] \in D
        BY <3>1 DEF Distinct
      <3> QED
        BY <1>1, <1>2, <3>2
    <2>3. ASSUME NEW k \in DOMAIN u PROVE (k <= Len(s) => u[k] \in S) /\ (k > Len(s) => u[k] \in T)
      <3>1. CASE k <= Len(s)
        <4>1. u[k] = s[k] /\ k \in DOMAIN s
          BY <1>1, <1>2, <3>1
        <4> QED
          BY <1>1, <1>2, <3>1, <4>1
      <3>2. CASE k > Len(s)
        <4>1. u[k] = t[k - Len(s)] /\ k - Len(s) \in DOMAIN t
          BY <1>1, <1>2, <3>2
        <4> QED
          BY <1>1, <1>2, <3>2, <4>1
      <3> QED
        BY <1>1, <1>2, <3>1, <3>2
    <2> QED
      BY <1>1, <1>2, <1>3, <2>1, <2>2, <2>3
  <1>4. Distinct(u, D)
    BY <1>3 DEF Distinct
  <1> QED
    BY <1>2, <1>4 DEF u

\* A file that is planned under a condition.
LEMMA PlannedIf ==
    ASSUME NEW e, NEW b, NEW D, NEW t, t = IF b THEN <<e>> ELSE <<>>
    PROVE  t \in Seq({e}) /\ Distinct(t, D)
  <1>1. CASE b
    BY <1>1 DEF Distinct
  <1>2. CASE ~b
    BY <1>2 DEF Distinct
  <1> QED
    BY <1>1, <1>2

\* The plan has the profile first, and names a file twice only if the targets do.
LEMMA PlannedPathsFacts ==
    ASSUME NEW production, NEW targets \in Seq(Clients), NEW agents, NEW claude, NEW D,
           Distinct(targets, D), NEW s, s = PlannedPaths(production, targets, agents, claude)
    PROVE  s \in Seq(Paths) /\ 1 \in DOMAIN s /\ s[1] = "profile" /\ Distinct(s, D)
  <1> DEFINE t2 == IF production THEN <<"policy">> ELSE <<>>
             t4 == IF agents THEN <<"agents">> ELSE <<>>
             t5 == IF agents /\ claude THEN <<"claude">> ELSE <<>>
             s1 == <<"profile">>
             s2 == s1 \o t2
             s3 == s2 \o targets
             s4 == s3 \o t4
             s5 == s4 \o t5
             S1 == {"profile"}
             T2 == {"policy"}
             T4 == {"agents"}
             T5 == {"claude"}
             S2 == S1 \cup T2
             S3 == S2 \cup Clients
             S4 == S3 \cup T4
  <1>1. s1 \in Seq(S1) /\ s1 # <<>> /\ s1[1] = "profile" /\ Distinct(s1, D)
    BY DEF Distinct
  <1>2. /\ t2 \in Seq(T2) /\ Distinct(t2, D)
        /\ t4 \in Seq(T4) /\ Distinct(t4, D)
        /\ t5 \in Seq(T5) /\ Distinct(t5, D)
    BY PlannedIf
  <1>3. /\ S1 \in SUBSET Paths /\ T2 \in SUBSET Paths /\ S1 \cap T2 = {}
        /\ S2 \in SUBSET Paths /\ Clients \in SUBSET Paths /\ S2 \cap Clients = {}
        /\ S3 \in SUBSET Paths /\ T4 \in SUBSET Paths /\ S3 \cap T4 = {}
        /\ S4 \in SUBSET Paths /\ T5 \in SUBSET Paths /\ S4 \cap T5 = {}
        /\ S4 \cup T5 = Paths
    BY DEF Paths, Clients
  <1>4. /\ s2 = s1 \o t2 /\ s3 = s2 \o targets /\ s4 = s3 \o t4 /\ s5 = s4 \o t5 /\ s = s5
        /\ S2 = S1 \cup T2 /\ S3 = S2 \cup Clients /\ S4 = S3 \cup T4
    BY DEF PlannedPaths
  <1> HIDE DEF t2, t4, t5, s1, s2, s3, s4, s5, S1, S2, S3, S4, T2, T4, T5
  <1>5. s2 \in Seq(S2) /\ s2 # <<>> /\ s2[1] = "profile" /\ Distinct(s2, D)
    <2>1. /\ s1 \o t2 \in Seq(S1 \cup T2) /\ s1 \o t2 # <<>> /\ (s1 \o t2)[1] = s1[1]
          /\ Distinct(s1 \o t2, D)
      BY <1>1, <1>2, <1>3, Concatenated
    <2> QED
      BY <1>1, <1>4, <2>1
  <1>6. s3 \in Seq(S3) /\ s3 # <<>> /\ s3[1] = "profile" /\ Distinct(s3, D)
    <2>1. /\ s2 \o targets \in Seq(S2 \cup Clients) /\ s2 \o targets # <<>> /\ (s2 \o targets)[1] = s2[1]
          /\ Distinct(s2 \o targets, D)
      BY <1>3, <1>5, Concatenated
    <2> QED
      BY <1>4, <1>5, <2>1
  <1>7. s4 \in Seq(S4) /\ s4 # <<>> /\ s4[1] = "profile" /\ Distinct(s4, D)
    <2>1. /\ s3 \o t4 \in Seq(S3 \cup T4) /\ s3 \o t4 # <<>> /\ (s3 \o t4)[1] = s3[1]
          /\ Distinct(s3 \o t4, D)
      BY <1>2, <1>3, <1>6, Concatenated
    <2> QED
      BY <1>4, <1>6, <2>1
  <1>8. s5 \in Seq(S4 \cup T5) /\ s5 # <<>> /\ s5[1] = "profile" /\ Distinct(s5, D)
    <2>1. /\ s4 \o t5 \in Seq(S4 \cup T5) /\ s4 \o t5 # <<>> /\ (s4 \o t5)[1] = s4[1]
          /\ Distinct(s4 \o t5, D)
      BY <1>2, <1>3, <1>7, Concatenated
    <2> QED
      BY <1>4, <1>7, <2>1
  <1>9. s \in Seq(Paths) /\ s # <<>> /\ s[1] = "profile" /\ Distinct(s, D)
    BY <1>3, <1>4, <1>8
  <1> QED
    BY <1>9

\* A target of its own for each --client, so only a client that is named twice
\* is a target twice.
LEMMA McpTargetsFacts ==
    ASSUME NEW a \in Invocations, NEW may, NEW yes, NEW t, t = McpTargets(a, may, yes)
    PROVE  t \in Seq(Clients) /\ Distinct(t, NamedTwice(a)) /\ NamedTwice(a) \subseteq Clients
  <1>1. a.clients \in Seq(Clients)
    BY InitAssumption
  <1>2. Distinct(a.clients, NamedTwice(a)) /\ NamedTwice(a) \subseteq Clients
    BY <1>1 DEF Distinct, NamedTwice
  <1>3. t = a.clients \/ t = <<>> \/ t = <<"claude-code">>
    BY DEF McpTargets
  <1>4. CASE t = a.clients
    BY <1>1, <1>2, <1>4
  <1>5. CASE t = <<>>
    BY <1>2, <1>5 DEF Distinct
  <1>6. CASE t = <<"claude-code">>
    <2>1. "claude-code" \in Clients
      BY DEF Clients
    <2>2. DOMAIN t = {1} /\ t \in Seq(Clients)
      BY <1>6, <2>1
    <2> QED
      BY <1>2, <2>2 DEF Distinct
  <1> QED
    BY <1>3, <1>4, <1>5, <1>6

\* A rendering that is not refused keeps what the file holds of others, and is
\* sound.
LEMMA ProfileRendering ==
    ASSUME NEW c \in Contents("profile"), NEW name \in Names, NEW section \in Writers \cup {Unsound},
           NEW overwrite, c.form = "absent" => Empty("profile", c),
           NEW out, out = RenderProfile(c, name, section, overwrite)
    PROVE  /\ out.refused \in BOOLEAN /\ out.write \in BOOLEAN
           /\ ~out.refused =>
                /\ out.write
                /\ out.content \in Contents("profile") /\ out.content.form = "text"
                /\ out.content.own[name] = section /\ section # Unsound
                /\ \A n \in Names : out.content.own[n] # Unsound
                /\ c.form # "binary" =>
                     Foreign("profile", c, name) \subseteq Foreign("profile", out.content, name)
           /\ out.refused /\ overwrite =>
                c.form = "broken" \/ section = Unsound \/ \E n \in Names \ {name} : c.own[n] = Unsound
  <1> DEFINE old == ReadAsText(c)
             kept == IF old.form = "absent" THEN NoSection ELSE old.own
             rest == IF old.form = "absent" THEN FALSE ELSE old.other
             new == WithSection(kept, name, section)
  <1>1. /\ c.form \in Forms /\ c.own \in [Names -> Writers \cup {NoOne, Unsound}] /\ c.other \in BOOLEAN
        /\ old.form = (IF c.form = "binary" THEN "absent" ELSE c.form)
        /\ old.own = c.own /\ old.other = c.other
    BY DEF Contents, Parts, ReadAsText, Clients
  <1>2. /\ kept \in [Names -> Writers \cup {NoOne, Unsound}] /\ rest \in BOOLEAN
        /\ c.form = "text" => kept = c.own /\ rest = c.other
        /\ c.form \in {"absent", "binary"} => kept = NoSection
    BY <1>1 DEF NoSection
  <1>3. /\ new \in [Names -> Writers \cup {NoOne, Unsound}] /\ new[name] = section
        /\ \A n \in Names \ {name} : new[n] = kept[n]
    BY <1>2 DEF WithSection
  <1>4. \/ out = Refused /\ (c.form = "broken" \/ ~overwrite)
        \/ c.form # "broken" /\ out = ValidateProfile(Text(new, rest))
    BY <1>1 DEF RenderProfile
  <1>5. NoOne # Unsound
    BY DEF NoOne, Unsound
  <1> HIDE DEF old, kept, rest, new
  <1>6. CASE out = Refused
    <2>1. out.refused = TRUE /\ out.write = FALSE
      BY <1>6 DEF Refused
    <2>2. c.form = "broken" \/ ~overwrite \/ \E n \in Names : new[n] = Unsound
      BY <1>4, <1>6 DEF ValidateProfile, Text, Refused, Written
    <2>3. ASSUME NEW n \in Names, new[n] = Unsound, n # name, c.form # "broken" PROVE c.own[n] = Unsound
      <3>1. kept[n] = Unsound
        BY <1>3, <2>3
      <3>2. kept # NoSection
        BY <1>5, <3>1 DEF NoSection
      <3> QED
        BY <1>1, <1>2, <2>3, <3>1, <3>2 DEF Forms
    <2>4. overwrite => c.form = "broken" \/ section = Unsound \/ \E n \in Names \ {name} : c.own[n] = Unsound
      BY <1>3, <2>2, <2>3
    <2> QED
      BY <2>1, <2>4
  <1>7. CASE out # Refused
    <2>1. c.form # "broken" /\ out = Written(Text(new, rest)) /\ \A n \in Names : new[n] # Unsound
      BY <1>4, <1>7 DEF ValidateProfile, Text
    <2>2. ~out.refused /\ out.write /\ out.content = Text(new, rest)
      BY <2>1 DEF Written
    <2>3. /\ out.content \in Contents("profile") /\ out.content.form = "text" /\ out.content.own = new
          /\ out.content.other = rest
      BY <1>2, <1>3, <2>2 DEF Text, Contents, Parts, Forms, Clients
    <2>4. c.form # "binary" => Foreign("profile", c, name) \subseteq Foreign("profile", out.content, name)
      BY <1>1, <1>2, <1>3, <2>1, <2>3 DEF Foreign, Empty, NoSection, Forms
    <2>5. /\ out.content.own[name] = section /\ section # Unsound
          /\ \A n \in Names : out.content.own[n] # Unsound
      BY <1>3, <2>1, <2>3
    <2>6. out.refused = FALSE /\ out.write = TRUE
      BY <2>1 DEF Written
    <2> QED
      BY <2>3, <2>4, <2>5, <2>6
  <1> QED
    BY <1>6, <1>7

\* The same of the policy file.
LEMMA PolicyRendering ==
    ASSUME NEW c \in Contents("policy"), NEW name, NEW overwrite,
           c.form = "absent" => Empty("policy", c),
           NEW out, out = RenderPolicy(c, overwrite)
    PROVE  /\ out.refused \in BOOLEAN /\ out.write \in BOOLEAN
           /\ ~out.refused /\ out.write =>
                /\ c.form \notin {"broken", "binary"}
                /\ out.content \in Contents("policy") /\ out.content.form = "text"
                /\ Foreign("policy", c, name) \subseteq Foreign("policy", out.content, name)
           /\ out.refused /\ overwrite => c.form \in {"broken", "binary"}
  BY DEF RenderPolicy, Contents, Parts, Clients, PolicyParts, Forms, Refused, Written, Nothing, Text, AtFloor, Merged,
     Foreign, Empty

\* The same of the instructions for agents.
LEMMA AgentsRendering ==
    ASSUME NEW p \in {"agents", "claude"}, NEW c \in Contents(p), NEW name \in Names,
           c.form = "absent" => Empty(p, c),
           NEW out, out = RenderAgents(c, name)
    PROVE  /\ out.refused \in BOOLEAN /\ out.write \in BOOLEAN
           /\ ~out.refused =>
                /\ out.write /\ c.form # "broken"
                /\ out.content \in Contents(p) /\ out.content.form = "text"
                /\ c.form # "binary" =>
                     Foreign(p, c, name) \subseteq Foreign(p, out.content, name)
           /\ out.refused => c.form = "broken"
  BY DEF RenderAgents, Contents, Parts, Clients, Forms, ReadAsText, Refused, Written, Text, Foreign, Empty

\* The same of a client's configuration.
LEMMA McpRendering ==
    ASSUME NEW p \in Clients, NEW c \in Contents(p), NEW name \in Names, NEW overwrite, NEW migrate,
           c.form = "absent" => Empty(p, c),
           NEW out, out = RenderMcp(c, overwrite, migrate)
    PROVE  /\ out.refused \in BOOLEAN /\ out.write \in BOOLEAN
           /\ ~out.refused =>
                /\ out.write
                /\ out.content \in Contents(p) /\ out.content.form = "text"
                /\ c.form # "binary" => Foreign(p, c, name) \subseteq Foreign(p, out.content, name)
           /\ out.refused /\ overwrite => c.form = "broken"
  <1>1. /\ p \notin {"profile", "policy"} /\ Contents(p) = [form : Forms, own : McpParts, other : BOOLEAN]
    BY DEF Clients, Contents, Parts
  <1>2. /\ c.form \in Forms /\ c.own \in McpParts /\ c.other \in BOOLEAN
        /\ c = [form |-> c.form, own |-> c.own, other |-> c.other]
    BY <1>1
  <1>3. CASE c.form = "broken"
    BY <1>2, <1>3 DEF RenderMcp, ReadAsText, Refused
  <1>4. CASE c.form \in {"absent", "binary"}
    <2>1. out = Written(Text("serve", FALSE))
      BY <1>2, <1>4 DEF RenderMcp, ReadAsText
    <2> QED
      BY <1>1, <1>4, <2>1 DEF Written, Text, Forms, McpParts, Foreign, Empty
  <1>5. CASE c.form = "text"
    <2>1. ReadAsText(c) = c
      BY <1>5 DEF ReadAsText
    <2>2. \/ out = Written(c)
          \/ out = Refused /\ ~overwrite
          \/ out = Written(Text("serve", c.other))
      BY <1>5, <2>1 DEF RenderMcp, PrimaryTaken
    <2>3. CASE out = Written(c)
      BY <1>5, <2>3 DEF Written
    <2>4. CASE out = Refused /\ ~overwrite
      BY <2>4 DEF Refused
    <2>5. CASE out = Written(Text("serve", c.other))
      <3>1. /\ out.refused = FALSE /\ out.write = TRUE
            /\ out.content = [form |-> "text", own |-> "serve", other |-> c.other]
        BY <2>5 DEF Written, Text
      <3>2. out.content \in Contents(p) /\ out.content.form = "text"
        BY <1>1, <1>2, <3>1 DEF Forms, McpParts
      <3>3. Foreign(p, c, name) \subseteq Foreign(p, out.content, name)
        BY <1>1, <3>1 DEF Foreign
      <3> QED
        BY <2>5, <3>1, <3>2, <3>3
    <2> QED
      BY <2>2, <2>3, <2>4, <2>5
  <1> QED
    BY <1>2, <1>3, <1>4, <1>5 DEF Forms

-----------------------------------------------------------------------------
(* The lists of phase B.                                                   *)

\* Removing the first element of a list whose head it is leaves its tail.
LEMMA WithoutHead ==
    ASSUME NEW s \in Seq(Paths), s # <<>>
    PROVE  /\ Without(s, s[1]) \in Seq(Paths)
           /\ Len(Without(s, s[1])) = Len(s) - 1
           /\ \A k \in DOMAIN Without(s, s[1]) : Without(s, s[1])[k] = s[k + 1]
  <1>1. First(s, s[1]) = 1
    BY DEF First
  <1>2. Without(s, s[1]) = [k \in 1 .. (Len(s) - 1) |-> s[k + 1]]
    BY <1>1 DEF Without
  <1> QED
    BY <1>2

\* One more element.
LEMMA AppendRange ==
    ASSUME NEW S, NEW s \in Seq(S), NEW e \in S
    PROVE  Append(s, e) \in Seq(S) /\ RangeOf(Append(s, e)) = RangeOf(s) \cup {e}
  <1> DEFINE t == Append(s, e)
  <1>1. /\ t \in Seq(S) /\ DOMAIN t = 1 .. (Len(s) + 1) /\ DOMAIN s = 1 .. Len(s) /\ Len(s) \in Nat
        /\ \A k \in 1 .. Len(s) : t[k] = s[k]
        /\ t[Len(s) + 1] = e
    OBVIOUS
  <1> HIDE DEF t
  <1>2. ASSUME NEW k \in DOMAIN t PROVE t[k] \in RangeOf(s) \cup {e}
    BY <1>1 DEF RangeOf
  <1>3. ASSUME NEW x \in RangeOf(s) \cup {e} PROVE x \in RangeOf(t)
    BY <1>1 DEF RangeOf
  <1> QED
    BY <1>1, <1>2, <1>3 DEF RangeOf, t

-----------------------------------------------------------------------------
(* A step of one run.                                                      *)

\* Nothing that belongs to run q changes.
Same(q) ==
    /\ original' = original /\ pc'[q] = pc[q] /\ args'[q] = args[q] /\ agreed'[q] = agreed[q] /\ plan'[q] = plan[q]
    /\ writes'[q] = writes[q] /\ at'[q] = at[q] /\ applied'[q] = applied[q]
    /\ pending'[q] = pending[q] /\ report'[q] = report[q] /\ landed'[q] = landed[q]

\* The values of one run.
LEMMA RunTypes ==
    ASSUME RunType, NEW q \in Runs
    PROVE  /\ pc[q] \in Stages /\ args[q] \in Invocations /\ agreed[q] \subseteq Questions
           /\ plan[q] \in Plans /\ plan[q].paths \in Seq(Paths)
           /\ writes[q] \in Seq(Writes) /\ at[q] \in Nat /\ at[q] # 0
           /\ applied[q] \in Seq(Paths) /\ pending[q] \in Seq(Paths)
           /\ report[q] \in Reports /\ landed[q] \subseteq Paths \cup {"keyring"}
  <1>1. /\ pc[q] \in Stages /\ args[q] \in Invocations /\ agreed[q] \subseteq Questions
        /\ plan[q] \in Plans /\ writes[q] \in Seq(Writes) /\ at[q] \in Nat \ {0}
        /\ applied[q] \in Seq(Paths) /\ pending[q] \in Seq(Paths)
        /\ report[q] \in Reports /\ landed[q] \subseteq Paths \cup {"keyring"}
    BY DEF RunType
  <1>2. plan[q].paths \in Seq(Paths)
    BY <1>1 DEF Plans
  <1> QED
    BY <1>1, <1>2

\* A planned write is a record of the right kind.
LEMMA WriteType ==
    ASSUME NEW s \in Seq(Writes), NEW k \in DOMAIN s
    PROVE  s[k] \in Writes /\ s[k].path \in Paths
  <1>1. s[k] \in Writes
    OBVIOUS
  <1> QED
    BY <1>1 DEF Writes

\* The machine before the first invocation.
LEMMA InitInv == Init => IInv
  <1> SUFFICES ASSUME Init PROVE IInv
    OBVIOUS
  <1>1. MachineType
    BY InitAssumption DEF Init, MachineType, AnyContents
  <1>2. RunType
    BY DEF Init, RunType, NoPlan, Plans, Stages, Ended, Reports, Questions
  <1>3. ASSUME NEW r \in Runs PROVE RunInv(r)
    BY DEF Init, RunInv, StageInv, RenderInv, ListInv, RefusalInv, Distinct, Committing, Planned, NoPlan
  <1>4. FitInv /\ AloneInv
    BY DEF Init, FitInv, AloneInv, InPlace, Active, Ended, Committing
  <1> QED
    BY <1>1, <1>2, <1>3, <1>4 DEF IInv

\* What is said of one run alone holds as long as the run does nothing.
LEMMA SameInv == ASSUME NEW q \in Runs, Same(q), RunInv(q) PROVE RunInv(q)'
  <1>1. StageInv(q)'
    BY DEF RunInv, Same, StageInv, Consent
  <1>2. RenderInv(q)'
    BY DEF RunInv, Same, RenderInv
  <1>3. ListInv(q)'
    BY DEF RunInv, Same, ListInv
  <1>4. RefusalInv(q)'
    BY DEF RunInv, Same, RefusalInv
  <1> QED
    BY <1>1, <1>2, <1>3, <1>4 DEF RunInv

\* A step of an active run: what has to be shown of that run only.
LEMMA Assemble ==
    ASSUME IInv, NEW r \in Runs, Active(r), MachineType', RunType', RunInv(r)',
           alone' = alone, FitInv', \A q \in Runs \ {r} : Same(q),
           r \in alone => InPlace(r)'
    PROVE  IInv'
  <1>1. \A q \in Runs : RunInv(q)'
    BY SameInv DEF IInv
  <1>2. AloneInv'
    <2>1. ASSUME NEW q \in alone, q # r
          PROVE ~Active(q) /\ q \in Runs /\ pc'[q] = pc[q]
      BY <2>1 DEF IInv, AloneInv, MachineType, Same
    <2>2. ASSUME NEW q \in alone, q # r PROVE ~Active(q)' /\ InPlace(q)'
      BY <2>1, <2>2 DEF Active, InPlace, Committing, Ended
    <2>3. r \in alone => \A q \in Runs : Active(q)' => q = r
      BY DEF IInv, AloneInv, Active, Same
    <2> QED
      BY <2>2, <2>3 DEF AloneInv
  <1> QED
    BY <1>1, <1>2 DEF IInv

\* A step that moves a run on, or ends it, without touching its lists: the
\* keyring steps, the start of a write, and every way to fail.
LEMMA Moves ==
    ASSUME IInv, NEW r \in Runs, Active(r), NEW w \in Stages, NEW h \in Reports,
           pc' = [pc EXCEPT ![r] = w], report' = [report EXCEPT ![r] = h],
           UNCHANGED <<files, original, alone, args, agreed, plan, writes, at, applied, pending>>,
           faults' \in Nat,
           w \in {"ended", "killed"} \/ (w \in Committing /\ pc[r] \in Committing),
           h # "none" => w = "ended",
           h = "partial" => pc[r] \in Committing /\ at[r] <= Len(writes[r]),
           h = "refused" => ~args[r].overwrite,
           \/ landed' = landed
           \/ pc[r] \in Committing /\ landed' = [landed EXCEPT ![r] = @ \cup {"keyring"}],
           w \in {"write", "staged"} =>
               \/ pc[r] \in {"write", "staged"} /\ keyring' = keyring
               \/ plan[r].secret # NoSecret => keyring' = plan[r].secret
    PROVE  IInv'
  <1>1. MachineType'
    BY DEF IInv, MachineType, Empty
  <1>2. RunType'
    BY DEF IInv, RunType
  <1>3. ASSUME NEW q \in Runs \ {r} PROVE Same(q)
    BY DEF IInv, RunType, Same
  <1>4. /\ pc'[r] = w /\ report'[r] = h /\ (landed'[r] = landed[r] \/ pc[r] \in Committing)
        /\ landed'[r] \ {"keyring"} = landed[r] \ {"keyring"}
    BY DEF IInv, RunType
  <1>5. StageInv(r)'
    BY <1>4 DEF IInv, RunInv, StageInv, Consent, Planned, Committing
  <1>6. RenderInv(r)'
    BY <1>4 DEF IInv, RunInv, RenderInv, Planned, Committing
  <1>7. ListInv(r)'
    <2> SUFFICES ASSUME w \in Committing \/ h = "partial" PROVE ListInv(r)'
      BY <1>4 DEF ListInv
    <2>1. pc[r] \in Committing /\ (h = "partial" => at[r] <= Len(writes[r]))
      BY DEF Committing
    <2>2. ListInv(r)
      BY DEF IInv, RunInv
    <2> QED
      BY <1>4, <2>1, <2>2 DEF ListInv
  <1>8. r \in alone => InPlace(r)'
    BY <1>4 DEF IInv, AloneInv, InPlace, LastSoFar, Committing
  <1>9. FitInv'
    BY DEF IInv, FitInv
  <1>10. RefusalInv(r)'
    BY <1>4 DEF RefusalInv
  <1> QED
    BY <1>1, <1>2, <1>3, <1>5, <1>6, <1>7, <1>8, <1>9, <1>10, Assemble DEF RunInv

\* An active run has not reported yet.
LEMMA ActiveFacts ==
    ASSUME IInv, NEW r \in Runs, Active(r)
    PROVE  report[r] = "none" /\ report = [report EXCEPT ![r] = "none"] /\ pc[r] \in Stages \ Ended
  BY DEF IInv, RunInv, StageInv, RunType, Active, Ended

\* A refusal during the questions ends a run that wrote nothing.
LEMMA GuidedRefusesInv == ASSUME IInv, NEW r \in Runs, GuidedRefuses(r) PROVE IInv'
  BY Moves DEF GuidedRefuses, End, Active, Ended, Stages, Reports, Committing, Planned, machine,
     inputs, progress, history, IInv, MachineType

\* A killed run leaves what landed, and reports nothing.
LEMMA KillInv == ASSUME IInv, NEW r \in Runs, Kill(r) PROVE IInv'
  <1>1. Active(r) /\ faults' \in Nat /\ "killed" \in Stages /\ "none" \in Reports
    BY DEF Kill, Fault, IInv, MachineType, Stages, Ended, Reports
  <1>2. report' = [report EXCEPT ![r] = "none"]
    BY <1>1, ActiveFacts DEF Kill
  <1> QED
    BY <1>1, <1>2, Moves DEF Kill, inputs, progress, history

\* What a step under the keyring or of phase B needs for Moves.
LEMMA CommittingFacts ==
    ASSUME IInv, NEW r \in Runs, pc[r] \in Committing
    PROVE  /\ Active(r) /\ Committing \subseteq Stages /\ "ended" \in Stages /\ "none" \in Reports
           /\ "refused" \in Reports /\ report = [report EXCEPT ![r] = "none"] /\ faults \in Nat
  BY ActiveFacts DEF Active, Committing, Stages, Planned, Ended, Reports, IInv, MachineType

\* The preflight entry of the keyring is written.
LEMMA ProbeInv == ASSUME IInv, NEW r \in Runs, Probe(r) PROVE IInv'
  <1>1. pc[r] \in Committing /\ "probed" \in Committing
    BY DEF Probe, Committing
  <1> QED
    BY <1>1, CommittingFacts, Moves DEF Probe, Goto, inputs, progress, history

\* The preflight entry matched; its deletion may fail without a report.
LEMMA ProbeReadBackInv == ASSUME IInv, NEW r \in Runs, ProbeReadBack(r) PROVE IInv'
  <1>1. pc[r] \in Committing /\ "secret" \in Committing
    BY DEF ProbeReadBack, Committing
  <1>2. faults' \in Nat
    BY <1>1, CommittingFacts DEF ProbeReadBack, Fault
  <1> QED
    BY <1>1, <1>2, CommittingFacts, Moves DEF ProbeReadBack, Goto, inputs, progress, history

\* The password is stored, or another one is there and may not be replaced.
LEMMA StoreSecretInv == ASSUME IInv, NEW r \in Runs, StoreSecret(r) PROVE IInv'
  <1>1. pc[r] \in Committing /\ "write" \in Committing
    BY DEF StoreSecret, Committing
  <1>2. CASE SecretTaken(r)
    <2>1. ~args[r].overwrite
      BY <1>2 DEF SecretTaken
    <2> QED
      BY <1>1, <1>2, <2>1, CommittingFacts, Moves DEF StoreSecret, End, inputs, progress
  <1>3. CASE ~SecretTaken(r)
    BY <1>1, <1>3, CommittingFacts, Moves DEF StoreSecret, Goto, inputs, progress
  <1> QED
    BY <1>2, <1>3

\* A keyring step fails before any file is replaced; the password may be stored.
LEMMA KeyringFailsInv == ASSUME IInv, NEW r \in Runs, KeyringFails(r) PROVE IInv'
  <1>1. /\ Active(r) /\ "bare" \in Reports /\ "ended" \in Stages
        /\ pc[r] = "secret" => pc[r] \in Committing
    BY DEF KeyringFails, Active, Ended, Stages, Committing, Reports
  <1>2. faults' \in Nat
    BY DEF KeyringFails, Fault, IInv, MachineType
  <1> QED
    BY <1>1, <1>2, Moves DEF KeyringFails, End, inputs, progress

\* The temporary file of the write at hand is complete.
LEMMA StageFileInv == ASSUME IInv, NEW r \in Runs, Stage(r) PROVE IInv'
  <1>1. pc[r] = "write" /\ pc[r] \in Committing /\ "staged" \in Committing
    BY DEF Stage, InLoop, Committing
  <1> QED
    BY <1>1, CommittingFacts, Moves DEF Stage, Goto, inputs, progress, history

\* A failing write reports what landed and what is pending.
LEMMA WriteFailsInv == ASSUME IInv, NEW r \in Runs, WriteFails(r) PROVE IInv'
  <1>1. pc[r] \in Committing /\ at[r] <= Len(writes[r]) /\ "partial" \in Reports
    BY DEF WriteFails, InLoop, Committing, Reports
  <1>2. faults' \in Nat
    BY <1>1, CommittingFacts DEF WriteFails, Fault
  <1> QED
    BY <1>1, <1>2, CommittingFacts, Moves DEF WriteFails, End, inputs, progress, history

\* A directory or a target that fails ends the run with a bare error.
LEMMA PrepareFailsInv == ASSUME IInv, NEW r \in Runs, PrepareFails(r) PROVE IInv'
  <1>1. pc[r] \in Committing /\ "bare" \in Reports
    BY DEF PrepareFails, InLoop, Committing, Reports
  <1>2. faults' \in Nat
    BY <1>1, CommittingFacts DEF PrepareFails, Fault
  <1> QED
    BY <1>1, <1>2, CommittingFacts, Moves DEF PrepareFails, End, inputs, progress, history

\* Every write is done: the run reports success, or a failed smoke check.
LEMMA FinishInv == ASSUME IInv, NEW r \in Runs, Finish(r) PROVE IInv'
  <1>1. pc[r] \in Committing /\ "ok" \in Reports /\ "smoke" \in Reports
    BY DEF Finish, Committing, Reports
  <1> QED
    BY <1>1, CommittingFacts, Moves DEF Finish, End, machine, inputs, progress, history

\* A new run: if others are active, neither they nor it are alone.
LEMMA BeginInv == ASSUME IInv, NEW r \in Runs, Begin(r) PROVE IInv'
  <1>1. /\ pc[r] = "new" /\ UNCHANGED <<files, original, keyring, faults, args, agreed, plan, writes, at>>
        /\ UNCHANGED <<applied, pending, landed>>
        /\ \/ pc' = [pc EXCEPT ![r] = "guide"] /\ report' = report
           \/ pc' = [pc EXCEPT ![r] = "ended"] /\ report' = [report EXCEPT ![r] = "unplanned"]
    BY DEF Begin, Goto, End, machine, inputs, progress
  <1>2. MachineType'
    BY <1>1 DEF IInv, MachineType, Empty, Begin
  <1>3. RunType'
    BY <1>1 DEF IInv, RunType, Stages, Ended, Reports
  <1>4. ASSUME NEW q \in Runs \ {r} PROVE Same(q)
    BY <1>1 DEF IInv, RunType, Same
  <1>5. pc'[r] \in {"guide", "ended"} /\ report'[r] # "none" => pc'[r] = "ended"
    BY <1>1 DEF IInv, RunInv, StageInv, RunType
  <1>6. report'[r] \notin {"partial", "refused"} /\ pc'[r] \in {"guide", "ended"}
    BY <1>1 DEF IInv, RunInv, StageInv, RunType
  <1>7. RunInv(r)'
    BY <1>1, <1>5, <1>6 DEF IInv, RunInv, StageInv, RenderInv, ListInv, RefusalInv, Planned, Committing
  <1>8. \A q \in Runs : RunInv(q)'
    BY <1>4, <1>7, SameInv DEF IInv
  <1>9. FitInv'
    BY <1>1 DEF IInv, FitInv
  <1>10. AloneInv'
    <2>1. ASSUME NEW q \in alone' PROVE InPlace(q)'
      <3>1. q \in Runs /\ q \in alone
        BY DEF Begin, IInv, MachineType
      <3>2. InPlace(q)
        BY <3>1 DEF IInv, AloneInv
      <3> QED
        BY <1>1, <1>4, <1>6, <3>1, <3>2 DEF InPlace, LastSoFar, Same, Committing
    <2>2. ASSUME NEW q \in alone', Active(q)', NEW p \in Runs, Active(p)' PROVE p = q
      <3>1. q \in Runs /\ q \in alone
        BY DEF Begin, IInv, MachineType
      <3>2. \A o \in Runs \ {r} : Active(o)' <=> Active(o)
        BY <1>4 DEF Active, Same
      <3>3. ~Active(r)
        BY <1>1 DEF Active, Ended
      <3>4. CASE \E o \in Runs : Active(o)
        <4>1. q # r /\ ~Active(q)
          BY <3>1, <3>4 DEF Begin
        <4> QED
          BY <2>2, <3>1, <3>2, <4>1
      <3>5. CASE \A o \in Runs : ~Active(o)
        BY <2>2, <3>1, <3>2, <3>5
      <3> QED
        BY <3>4, <3>5
    <2> QED
      BY <2>1, <2>2 DEF AloneInv
  <1> QED
    BY <1>2, <1>3, <1>8, <1>9, <1>10 DEF IInv

\* A question more.
LEMMA Asks ==
    ASSUME NEW f \in [Runs -> SUBSET Questions], NEW r \in Runs, NEW q \in Questions
    PROVE  [f EXCEPT ![r] = @ \cup {q}] \in [Runs -> SUBSET Questions]
  <1>1. f[r] \cup {q} \in SUBSET Questions
    OBVIOUS
  <1> QED
    BY <1>1

\* The operator is agreed before another password is replaced.
LEMMA ConfirmKeyringInv == ASSUME IInv, NEW r \in Runs, ConfirmKeyring(r) PROVE IInv'
  <1>1. /\ pc[r] = "confirm" /\ UNCHANGED <<files, original, keyring, faults, args, plan, writes, at>>
        /\ UNCHANGED <<applied, pending, landed, alone>>
        /\ agreed' = agreed \/ agreed' = [agreed EXCEPT ![r] = @ \cup {"replace-secret"}]
        /\ \/ pc' = [pc EXCEPT ![r] = "render"] /\ report' = report
           \/ pc' = [pc EXCEPT ![r] = "ended"] /\ report' = [report EXCEPT ![r] = "declined"]
    BY DEF ConfirmKeyring, Goto, End, machine, inputs, history
  <1>2. MachineType'
    BY <1>1 DEF IInv, MachineType, Empty
  <1>3. RunType'
    <2>1. "replace-secret" \in Questions
      BY DEF Questions
    <2>2. agreed' \in [Runs -> SUBSET Questions]
      <3>1. agreed \in [Runs -> SUBSET Questions]
        BY DEF IInv, RunType
      <3>2. [agreed EXCEPT ![r] = @ \cup {"replace-secret"}] \in [Runs -> SUBSET Questions]
        BY <2>1, <3>1, Asks
      <3> QED
        BY <1>1, <3>1, <3>2
    <2>3. pc' \in [Runs -> Stages] /\ report' \in [Runs -> Reports]
      BY <1>1 DEF IInv, RunType, Stages, Planned, Ended, Reports
    <2> QED
      BY <1>1, <2>2, <2>3 DEF IInv, RunType
  <1>4. ASSUME NEW q \in Runs \ {r} PROVE Same(q)
    BY <1>1 DEF IInv, RunType, Same
  <1>5. /\ pc'[r] \in {"render", "ended"} /\ report'[r] \in {"none", "declined"}
        /\ report'[r] # "none" => pc'[r] = "ended"
        /\ agreed[r] \subseteq agreed'[r]
    BY <1>1 DEF IInv, RunInv, StageInv, RunType
  <1>6. StageInv(r)'
    BY <1>1, <1>5 DEF IInv, RunInv, StageInv, Consent, Planned, Committing
  <1>7. RenderInv(r)' /\ ListInv(r)' /\ RefusalInv(r)'
    BY <1>1, <1>5 DEF IInv, RunInv, RenderInv, ListInv, RefusalInv, Planned, Committing
  <1>8. InPlace(r)'
    BY <1>5 DEF InPlace, Committing
  <1>9. Active(r) /\ FitInv'
    BY <1>1 DEF IInv, FitInv, Active, Ended
  <1> QED
    BY <1>1, <1>2, <1>3, <1>4, <1>6, <1>7, <1>8, <1>9, Assemble DEF RunInv

\* Phase A is over: every rendered file is pending.
LEMMA RenderedInv == ASSUME IInv, NEW r \in Runs, Rendered(r) PROVE IInv'
  <1>1. /\ pc[r] = "render" /\ plan[r].paths = <<>>
        /\ UNCHANGED <<files, original, keyring, faults, args, agreed, plan, writes, at, applied, landed>>
        /\ UNCHANGED <<alone, report>>
        /\ pending' = [pending EXCEPT ![r] = [k \in DOMAIN writes[r] |-> writes[r][k].path]]
        /\ pc' = [pc EXCEPT ![r] = IF plan[r].secret = NoSecret THEN "write" ELSE "probe"]
    BY DEF Rendered, Goto, machine, inputs, history
  <1>2. /\ writes[r] \in Seq(Writes) /\ Len(writes[r]) \in Nat /\ DOMAIN writes[r] = 1 .. Len(writes[r])
        /\ \A k \in DOMAIN writes[r] : writes[r][k].path \in Paths
    BY RunTypes, WriteType DEF IInv
  <1>3. /\ pending'[r] = [k \in 1 .. Len(writes[r]) |-> writes[r][k].path]
        /\ pending'[r] \in Seq(Paths) /\ Len(pending'[r]) = Len(writes[r])
        /\ \A k \in DOMAIN pending'[r] : pending'[r][k] = writes[r][k].path
    BY <1>1, <1>2 DEF IInv, RunType
  <1>4. MachineType'
    BY <1>1 DEF IInv, MachineType, Empty
  <1>5. RunType'
    <2>1. pending' \in [Runs -> Seq(Paths)]
      BY <1>1, <1>3 DEF IInv, RunType
    <2> QED
      BY <1>1, <2>1 DEF IInv, RunType, Stages, Planned, Committing
  <1>6. ASSUME NEW q \in Runs \ {r} PROVE Same(q)
    BY <1>1 DEF IInv, RunType, Same
  <1>7. pc'[r] \in {"write", "probe"} /\ (pc'[r] = "write" => plan[r].secret = NoSecret)
    BY <1>1 DEF IInv, RunType
  <1>8. /\ report[r] = "none" /\ at[r] = 1 /\ applied[r] = <<>> /\ landed[r] = {}
    BY <1>1 DEF IInv, RunInv, StageInv, Committing
  <1>9. StageInv(r)'
    BY <1>1, <1>7, <1>8 DEF IInv, RunInv, StageInv, Consent, Planned, Committing
  <1>10. RenderInv(r)'
    BY <1>1, <1>7 DEF IInv, RunInv, RenderInv, Planned, Committing
  <1>11. ListInv(r)'
    BY <1>1, <1>2, <1>3, <1>8 DEF ListInv, RangeOf
  <1>12. InPlace(r)'
    BY <1>1, <1>2, <1>7, <1>8 DEF InPlace, LastSoFar
  <1>13. Active(r) /\ FitInv' /\ RefusalInv(r)'
    BY <1>1, <1>8 DEF IInv, FitInv, RefusalInv, Active, Ended
  <1> QED
    BY <1>1, <1>4, <1>5, <1>6, <1>9, <1>10, <1>11, <1>12, <1>13, Assemble DEF RunInv

\* Where phase B stands: the file at hand is the first of the pending ones.
LEMMA LoopFacts ==
    ASSUME IInv, NEW r \in Runs, pc[r] \in {"write", "staged"}, at[r] <= Len(writes[r])
    PROVE  /\ Current(r) \in Writes /\ Current(r).path \in Paths
           /\ at[r] \in DOMAIN writes[r]
           /\ Faithful(r, args[r].name, Current(r))
           /\ pending[r] # <<>> /\ pending[r][1] = Current(r).path
           /\ Without(pending[r], Current(r).path) \in Seq(Paths)
           /\ Len(Without(pending[r], Current(r).path)) = Len(writes[r]) - at[r]
           /\ \A k \in DOMAIN Without(pending[r], Current(r).path) :
                 Without(pending[r], Current(r).path)[k] = writes[r][at[r] + k].path
  <1>1. /\ writes[r] \in Seq(Writes) /\ pending[r] \in Seq(Paths) /\ at[r] \in Nat /\ at[r] # 0
        /\ Len(writes[r]) \in Nat /\ Len(pending[r]) \in Nat
    BY RunTypes DEF IInv
  <1>2. at[r] \in DOMAIN writes[r]
    BY <1>1
  <1>3. Current(r) \in Writes /\ Current(r).path \in Paths
    BY <1>1, <1>2, WriteType DEF Current
  <1>4. Faithful(r, args[r].name, Current(r))
    BY <1>2 DEF IInv, RunInv, RenderInv, Current
  <1>5. /\ Len(pending[r]) = Len(writes[r]) + 1 - at[r]
        /\ \A k \in DOMAIN pending[r] : pending[r][k] = writes[r][at[r] + k - 1].path
    BY DEF IInv, RunInv, ListInv, Committing
  <1>6. pending[r] # <<>> /\ 1 \in DOMAIN pending[r] /\ pending[r][1] = Current(r).path
    <2>1. pending[r] # <<>> /\ 1 \in DOMAIN pending[r] /\ at[r] + 1 - 1 = at[r]
      BY <1>1, <1>5
    <2>2. pending[r][1] = writes[r][at[r] + 1 - 1].path
      BY <1>5, <2>1
    <2> QED
      BY <2>1, <2>2 DEF Current
  <1> DEFINE rest == Without(pending[r], Current(r).path)
  <1>7. /\ rest \in Seq(Paths) /\ Len(rest) = Len(pending[r]) - 1
        /\ \A k \in DOMAIN rest : rest[k] = pending[r][k + 1]
    BY <1>1, <1>6, WithoutHead
  <1> HIDE DEF rest
  <1>8. Len(rest) = Len(writes[r]) - at[r]
    BY <1>1, <1>5, <1>7
  <1>9. ASSUME NEW k \in DOMAIN rest PROVE rest[k] = writes[r][at[r] + k].path
    <2>1. k \in Nat /\ k + 1 \in DOMAIN pending[r] /\ at[r] + (k + 1) - 1 = at[r] + k
      BY <1>1, <1>7
    <2> QED
      BY <1>5, <1>7, <2>1
  <1> QED
    BY <1>2, <1>3, <1>4, <1>6, <1>7, <1>8, <1>9 DEF rest

\* Counting on from the next position.
LEMMA Shift ==
    \A a, b, k : a \in Nat /\ k \in Nat /\ b = a + 1 => b + k - 1 = a + k
  OBVIOUS

\* A position before phase B's and one from there on.
LEMMA Positions ==
    \A a, n, i, k : a \in Nat /\ a # 0 /\ n \in Nat /\ a <= n /\ i \in 1 .. (a - 1) /\ k \in 1 .. (n + 1 - a)
        => a + k - 1 \in 1 .. n /\ i \in 1 .. n /\ i # a + k - 1
  OBVIOUS

\* The step from one file to the next, with the file at hand landed or not.
LEMMA NextFile ==
    ASSUME IInv, NEW r \in Runs, pc[r] \in {"write", "staged"}, at[r] <= Len(writes[r]),
           MachineType', UNCHANGED <<original, keyring, args, agreed, plan, writes, report, alone>>,
           pc' = [pc EXCEPT ![r] = "write"],
           at' = [at EXCEPT ![r] = @ + 1],
           pending' = [pending EXCEPT ![r] = Without(@, Current(r).path)],
           \/ UNCHANGED <<applied, landed>>
           \/ /\ applied' = [applied EXCEPT ![r] = Append(@, Current(r).path)]
              /\ landed' = [landed EXCEPT ![r] = @ \cup {Current(r).path}],
           files' = [files EXCEPT ![Current(r).path] = Current(r).bytes]
    PROVE  IInv'
  <1> DEFINE p == Current(r).path
  <1>1. /\ p \in Paths /\ at[r] \in DOMAIN writes[r] /\ p = writes[r][at[r]].path
        /\ pending'[r] \in Seq(Paths) /\ Len(pending'[r]) = Len(writes[r]) - at[r]
        /\ \A k \in DOMAIN pending'[r] : pending'[r][k] = writes[r][at[r] + k].path
    <2>1. pending'[r] = Without(pending[r], p)
      BY DEF IInv, RunType
    <2>2. p = writes[r][at[r]].path
      BY DEF Current
    <2> HIDE DEF p
    <2> QED
      BY <2>1, <2>2, LoopFacts DEF p
  <1>2. /\ at[r] \in Nat /\ at[r] # 0 /\ Len(writes[r]) \in Nat /\ applied[r] \in Seq(Paths)
        /\ DOMAIN writes[r] = 1 .. Len(writes[r])
        /\ landed[r] \subseteq Paths \cup {"keyring"} /\ at'[r] = at[r] + 1 /\ pc'[r] = "write"
        /\ report[r] = "none"
    BY RunTypes DEF IInv, RunType, RunInv, StageInv
  <1>3. \A n \in Names : ~Unfit(p, Current(r).bytes, n)
    BY LoopFacts DEF Faithful
  <1> DEFINE b == Current(r).bytes
  <1>4. \A o \in Paths : files'[o] = IF o = p THEN b ELSE files[o]
    BY DEF IInv, MachineType
  <1>5. FitInv'
    <2> SUFFICES ASSUME NEW o \in Paths, NEW n \in Names, Unfit(o, files'[o], n)
                 PROVE  Unfit(o, original[o], n)
      BY DEF FitInv
    <2>1. o # p /\ files'[o] = files[o]
      BY <1>3, <1>4
    <2> QED
      BY <2>1 DEF IInv, FitInv
  <1>6. RunType'
    <2>1. pending' \in [Runs -> Seq(Paths)] /\ at' \in [Runs -> Nat \ {0}]
      BY <1>1, <1>2 DEF IInv, RunType
    <2>2. applied' \in [Runs -> Seq(Paths)]
      <3>1. applied \in [Runs -> Seq(Paths)] /\ Append(applied[r], p) \in Seq(Paths)
        BY <1>1, <1>2, AppendRange DEF IInv, RunType
      <3> QED
        BY <3>1
    <2>3. landed' \in [Runs -> SUBSET (Paths \cup {"keyring"})]
      <3>1. /\ landed \in [Runs -> SUBSET (Paths \cup {"keyring"})]
            /\ landed[r] \cup {p} \in SUBSET (Paths \cup {"keyring"})
        BY <1>1, <1>2 DEF IInv, RunType
      <3> QED
        BY <3>1
    <2> QED
      BY <2>1, <2>2, <2>3 DEF IInv, RunType, Stages, Planned, Committing
  <1>7. ASSUME NEW q \in Runs \ {r} PROVE Same(q)
    BY DEF IInv, RunType, Same
  <1>8. StageInv(r)'
    BY <1>2 DEF IInv, RunInv, StageInv, Consent, Planned, Committing
  <1>9. RenderInv(r)'
    <2>1. RenderInv(r) /\ pc[r] \in Planned /\ pc[r] \in Committing
      BY DEF IInv, RunInv, Planned, Committing
    <2>2. writes'[r] = writes[r] /\ plan'[r] = plan[r] /\ args'[r] = args[r] /\ agreed'[r] = agreed[r]
      OBVIOUS
    <2> QED
      BY <2>1, <2>2 DEF RenderInv
  <1>10. ListInv(r)'
    <2>1. ListInv(r) /\ pc[r] \in Committing
      BY DEF IInv, RunInv, Committing
    <2>2. /\ at'[r] <= Len(writes'[r]) + 1 /\ Len(pending'[r]) = Len(writes'[r]) + 1 - at'[r]
          /\ report'[r] # "partial"
      BY <1>1, <1>2
    <2>3. ASSUME NEW k \in DOMAIN pending'[r] PROVE pending'[r][k] = writes'[r][at'[r] + k - 1].path
      <3>1. k \in Nat
        BY <1>1
      <3>2. at'[r] + k - 1 = at[r] + k
        <4>1. at[r] \in Nat /\ at'[r] = at[r] + 1
          BY <1>2
        <4> QED
          BY <3>1, <4>1, Shift
      <3> QED
        BY <1>1, <3>2
    <2>4. RangeOf(applied'[r]) = landed'[r] \ {"keyring"}
      <3>1. CASE UNCHANGED <<applied, landed>>
        BY <2>1, <3>1 DEF ListInv
      <3>2. CASE /\ applied' = [applied EXCEPT ![r] = Append(@, p)]
                 /\ landed' = [landed EXCEPT ![r] = @ \cup {p}]
        <4>1. applied'[r] = Append(applied[r], p) /\ landed'[r] = landed[r] \cup {p}
          BY <3>2 DEF IInv, RunType
        <4>2. RangeOf(applied'[r]) = RangeOf(applied[r]) \cup {p}
          BY <1>1, <1>2, <4>1, AppendRange
        <4>3. p # "keyring"
          BY <1>1 DEF Paths, Clients
        <4> QED
          BY <2>1, <4>1, <4>2, <4>3 DEF ListInv
      <3> QED
        BY <3>1, <3>2
    <2>5. ASSUME NEW o \in RangeOf(applied'[r]) PROVE \E k \in 1 .. (at'[r] - 1) : writes'[r][k].path = o
      <3>1. o \in RangeOf(applied[r]) \/ o = p
        <4>1. applied'[r] = applied[r] \/ applied'[r] = Append(applied[r], p)
          BY DEF IInv, RunType
        <4>2. RangeOf(Append(applied[r], p)) = RangeOf(applied[r]) \cup {p}
          BY <1>1, <1>2, AppendRange
        <4> QED
          BY <4>1, <4>2
      <3>2. at[r] \in 1 .. (at'[r] - 1) /\ 1 .. (at[r] - 1) \subseteq 1 .. (at'[r] - 1)
        BY <1>2
      <3> QED
        <4>1. CASE o = p
          BY <1>1, <3>2, <4>1
        <4>2. CASE o \in RangeOf(applied[r])
          BY <2>1, <3>2, <4>2 DEF ListInv
        <4> QED
          BY <3>1, <4>1, <4>2
    <2> QED
      BY <2>2, <2>3, <2>4, <2>5 DEF ListInv
  <1>11. r \in alone => InPlace(r)'
    <2> SUFFICES ASSUME r \in alone PROVE InPlace(r)'
      OBVIOUS
    <2>1. InPlace(r) /\ pc[r] \in Committing
      BY DEF IInv, AloneInv, Committing
    <2>2. ASSUME NEW k \in DOMAIN writes[r], LastSoFar(r, k)'
          PROVE files'[writes[r][k].path] = writes[r][k].bytes
      <3>1. writes[r][k].path \in Paths /\ k \in Nat
        BY RunTypes, WriteType DEF IInv
      <3>2. CASE k = at[r]
        BY <1>1, <1>4, <3>2 DEF Current
      <3>3. CASE k # at[r]
        <4>1. k < at[r] /\ at[r] < at'[r]
          BY <1>2, <2>2, <3>1, <3>3 DEF LastSoFar
        <4>2. writes[r][k].path # p
          BY <1>1, <2>2, <4>1 DEF LastSoFar
        <4>3. \A j \in DOMAIN writes[r] : j < at[r] => j < at'[r]
          BY <1>2
        <4>4. LastSoFar(r, k)
          BY <2>2, <4>1, <4>3 DEF LastSoFar
        <4> QED
          BY <1>4, <2>1, <3>1, <4>2, <4>4 DEF InPlace
      <3> QED
        BY <3>2, <3>3
    <2> QED
      BY <1>2, <2>1, <2>2 DEF InPlace
  <1>12. Active(r) /\ RefusalInv(r)'
    BY <1>2 DEF Active, Ended, RefusalInv
  <1> QED
    BY <1>5, <1>6, <1>7, <1>8, <1>9, <1>10, <1>11, <1>12, Assemble DEF RunInv

\* A file that already has its content counts as neither landed nor pending.
LEMMA UnchangedInv == ASSUME IInv, NEW r \in Runs, Unchanged(r) PROVE IInv'
  <1>1. /\ pc[r] = "write" /\ at[r] <= Len(writes[r]) /\ files[Current(r).path] = Current(r).bytes
        /\ UNCHANGED <<files, original, keyring, faults, args, agreed, plan, writes, applied, report>>
        /\ UNCHANGED <<alone, landed>>
        /\ pc' = pc /\ at' = [at EXCEPT ![r] = @ + 1]
        /\ pending' = [pending EXCEPT ![r] = Without(@, Current(r).path)]
    BY DEF Unchanged, InLoop, StepOn, machine, inputs, history
  <1>2. files' = [files EXCEPT ![Current(r).path] = Current(r).bytes] /\ pc' = [pc EXCEPT ![r] = "write"]
    BY <1>1 DEF IInv, MachineType, RunType
  <1>3. MachineType'
    BY <1>1 DEF IInv, MachineType, Empty
  <1> QED
    BY <1>1, <1>2, <1>3, NextFile

\* The rename: what takes the place of a file is text, and sound.
LEMMA RenameInv == ASSUME IInv, NEW r \in Runs, Rename(r) PROVE IInv'
  <1>1. /\ pc[r] = "staged" /\ at[r] <= Len(writes[r])
        /\ UNCHANGED <<original, keyring, faults, args, agreed, plan, writes, report, alone>>
        /\ files' = [files EXCEPT ![Current(r).path] = Current(r).bytes]
        /\ pc' = [pc EXCEPT ![r] = "write"] /\ at' = [at EXCEPT ![r] = @ + 1]
        /\ pending' = [pending EXCEPT ![r] = Without(@, Current(r).path)]
        /\ applied' = [applied EXCEPT ![r] = Append(@, Current(r).path)]
        /\ landed' = [landed EXCEPT ![r] = @ \cup {Current(r).path}]
    BY DEF Rename, InLoop, StepOn, Goto, inputs
  <1>2. /\ Current(r).path \in Paths /\ Current(r).bytes \in Contents(Current(r).path)
        /\ Current(r).bytes.form = "text"
    BY <1>1, LoopFacts DEF Faithful
  <1>3. MachineType'
    <2>1. files' \in [Paths -> AnyContents]
      BY <1>1, <1>2 DEF IInv, MachineType, AnyContents
    <2>2. ASSUME NEW p \in Paths
          PROVE  files'[p] \in Contents(p) /\ (files'[p].form = "absent" => Empty(p, files'[p]))
      BY <1>1, <1>2 DEF IInv, MachineType
    <2> QED
      BY <1>1, <2>1, <2>2 DEF IInv, MachineType
  <1> QED
    BY <1>1, <1>3, NextFile

\* What Phase A makes of one file, put together from the renderers.
LEMMA RenderingFacts ==
    ASSUME IInv, NEW r \in Runs, NEW p \in Paths, NEW answer \in BOOLEAN,
           NEW out, out = Rendering(r, p, answer),
           NEW w, w = [path |-> p, bytes |-> out.content, base |-> files[p]]
    PROVE  /\ out.refused \in BOOLEAN /\ out.write \in BOOLEAN
           /\ ~out.refused /\ out.write =>
                /\ out.content \in Contents(p) /\ Faithful(r, args[r].name, w)
                /\ DropsLegacy(w) => args[r].overwrite \/ AgreesToMigrate(r, p, answer)
           /\ ~out.refused /\ p = "profile" => out.write
           /\ out.refused /\ args[r].overwrite /\ args[r].policy_overwrite =>
                (p = "profile" /\ ~plan[r].sound) \/ Unfit(p, files[p], args[r].name)
  <1> DEFINE c == files[p]
             name == args[r].name
  <1>1. /\ c \in Contents(p) /\ (c.form = "absent" => Empty(p, c)) /\ name \in Names /\ r \in Writers
        /\ r # Unsound
    BY InitAssumption DEF IInv, MachineType, RunType
  <1>2. w.path = p /\ w.bytes = out.content /\ w.base = c
    OBVIOUS
  <1> HIDE DEF c, name
  <1>3. CASE p = "profile"
    <2> DEFINE overwrite == args[r].overwrite \/ args[r].write_all
               section == IF plan[r].sound THEN r ELSE Unsound
    <2>1. out = RenderProfile(c, name, section, overwrite)
      BY <1>3 DEF Rendering, Clients, c, name
    <2>2. /\ args[r].overwrite => overwrite
          /\ section \in Writers \cup {Unsound}
          /\ section # Unsound => section = r
          /\ section = Unsound => ~plan[r].sound
      BY <1>1
    <2> HIDE DEF overwrite, section
    <2>3. /\ out.refused \in BOOLEAN /\ out.write \in BOOLEAN
          /\ ~out.refused =>
                /\ out.write
                /\ out.content \in Contents("profile") /\ out.content.form = "text"
                /\ out.content.own[name] = section /\ section # Unsound
                /\ \A n \in Names : out.content.own[n] # Unsound
                /\ c.form # "binary" =>
                     Foreign("profile", c, name) \subseteq Foreign("profile", out.content, name)
          /\ out.refused /\ overwrite =>
                c.form = "broken" \/ section = Unsound \/ \E n \in Names \ {name} : c.own[n] = Unsound
      BY <1>1, <1>3, <2>1, <2>2, ProfileRendering
    <2>4. ~out.refused => \A n \in Names : ~Unfit(p, out.content, n)
      BY <1>3, <2>3 DEF Unfit
    <2>5. ~out.refused => Faithful(r, name, w)
      BY <1>1, <1>2, <1>3, <2>2, <2>3, <2>4 DEF Faithful
    <2>6. out.refused /\ args[r].overwrite => ~plan[r].sound \/ Unfit(p, c, name)
      BY <1>3, <2>2, <2>3 DEF Unfit
    <2>7. ~DropsLegacy(w)
      BY <1>2, <1>3 DEF DropsLegacy, Clients
    <2> QED
      BY <1>3, <2>3, <2>5, <2>6, <2>7 DEF c, name
  <1>4. CASE p = "policy"
    <2>1. out = RenderPolicy(c, args[r].policy_overwrite)
      BY <1>4 DEF Rendering, Clients, c
    <2>2. /\ out.refused \in BOOLEAN /\ out.write \in BOOLEAN
          /\ ~out.refused /\ out.write =>
                /\ c.form \notin {"broken", "binary"}
                /\ out.content \in Contents("policy") /\ out.content.form = "text"
                /\ Foreign("policy", c, name) \subseteq Foreign("policy", out.content, name)
          /\ out.refused /\ args[r].policy_overwrite => c.form \in {"broken", "binary"}
      BY <1>1, <1>4, <2>1, PolicyRendering
    <2>3. ~DropsLegacy(w) /\ (c.form \in {"broken", "binary"} => Unfit(p, c, name))
      BY <1>2, <1>4 DEF DropsLegacy, Clients, Unfit
    <2>4. ~out.refused /\ out.write => \A n \in Names : ~Unfit(p, out.content, n)
      BY <1>4, <2>2 DEF Unfit
    <2> QED
      BY <1>1, <1>2, <1>4, <2>2, <2>3, <2>4 DEF Faithful, c, name
  <1>5. CASE p \in Clients
    <2> DEFINE migrate == Migrates(r, p, answer)
    <2>1. out = RenderMcp(c, args[r].overwrite, migrate) /\ p \notin {"profile", "policy"}
      BY <1>5 DEF Rendering, Clients, c
    <2>2. /\ migrate /\ c.form = "text" /\ HasLegacy(c.own) =>
                args[r].overwrite \/ AgreesToMigrate(r, p, answer)
          /\ ~migrate /\ c.form = "text" /\ HasLegacy(c.own) => out = Written(c)
      BY <2>1 DEF RenderMcp, Migrates, AsksMigration, ReadAsText, c
    <2> HIDE DEF migrate
    <2>3. /\ out.refused \in BOOLEAN /\ out.write \in BOOLEAN
          /\ ~out.refused =>
                /\ out.write
                /\ out.content \in Contents(p) /\ out.content.form = "text"
                /\ c.form # "binary" => Foreign(p, c, name) \subseteq Foreign(p, out.content, name)
          /\ out.refused /\ args[r].overwrite => c.form = "broken"
      BY <1>1, <1>5, <2>1, McpRendering
    <2>4. ~out.refused => \A n \in Names : ~Unfit(p, out.content, n)
      BY <2>1, <2>3 DEF Unfit
    <2>5. ~out.refused => Faithful(r, name, w)
      BY <1>1, <1>2, <2>1, <2>3, <2>4 DEF Faithful
    <2>6. ~out.refused /\ DropsLegacy(w) => args[r].overwrite \/ AgreesToMigrate(r, p, answer)
      BY <1>2, <2>2 DEF DropsLegacy, Written
    <2>7. out.refused /\ args[r].overwrite => Unfit(p, c, name)
      BY <2>3 DEF Unfit
    <2> QED
      BY <2>1, <2>3, <2>5, <2>6, <2>7 DEF c, name
  <1>6. CASE p \in {"agents", "claude"}
    <2>1. out = RenderAgents(c, name)
      BY <1>6 DEF Rendering, Clients, c, name
    <2>2. /\ out.refused \in BOOLEAN /\ out.write \in BOOLEAN
          /\ ~out.refused =>
                /\ out.write /\ c.form # "broken"
                /\ out.content \in Contents(p) /\ out.content.form = "text"
                /\ c.form # "binary" => Foreign(p, c, name) \subseteq Foreign(p, out.content, name)
          /\ out.refused => c.form = "broken"
      BY <1>1, <1>6, <2>1, AgentsRendering
    <2>3. ~DropsLegacy(w) /\ (c.form = "broken" => Unfit(p, c, name))
      BY <1>2, <1>6 DEF DropsLegacy, Clients, Unfit
    <2>4. ~out.refused => \A n \in Names : ~Unfit(p, out.content, n)
      BY <1>6, <2>2 DEF Unfit
    <2> QED
      BY <1>1, <1>2, <1>6, <2>2, <2>3, <2>4 DEF Faithful, c, name
  <1> QED
    BY <1>3, <1>4, <1>5, <1>6 DEF Paths

\* The lists of a run after the rendering of the first file of its plan.
LEMMA RenderLists ==
    ASSUME IInv, NEW r \in Runs, plan[r].paths # <<>>
    PROVE  LET p == Head(plan[r].paths)
               rest == Tail(plan[r].paths)
               D == NamedTwice(args[r])
           IN  /\ p \in Paths /\ rest \in Seq(Paths) /\ Distinct(rest, D)
               /\ \A i \in DOMAIN writes[r] : writes[r][i].path = p => p \in D
               /\ \A j \in DOMAIN rest : rest[j] = p => p \in D
               /\ \A i \in DOMAIN writes[r] : \A j \in DOMAIN rest : writes[r][i].path = rest[j] => rest[j] \in D
               /\ \A x : (\E j \in DOMAIN plan[r].paths : plan[r].paths[j] = x)
                            => x = p \/ \E j \in DOMAIN rest : rest[j] = x
  <1> DEFINE s == plan[r].paths
             rest == Tail(s)
             p == Head(s)
             D == NamedTwice(args[r])
  <1>1. s \in Seq(Paths) /\ RenderInv(r)
    BY RunTypes DEF IInv, RunInv
  <1>2. /\ Len(s) \in Nat /\ Len(s) > 0 /\ DOMAIN s = 1 .. Len(s) /\ p = s[1] /\ p \in Paths
        /\ rest \in Seq(Paths) /\ DOMAIN rest = 1 .. (Len(s) - 1)
        /\ \A j \in DOMAIN rest : rest[j] = s[j + 1]
    BY <1>1
  <1>3. \A i, j \in DOMAIN s : s[i] = s[j] => i = j \/ s[i] \in D
    BY <1>1 DEF RenderInv, Distinct
  <1>4. \A i \in DOMAIN writes[r] : \A j \in DOMAIN s : writes[r][i].path = s[j] => s[j] \in D
    BY <1>1 DEF RenderInv
  <1> HIDE DEF s, rest, p, D
  <1>5. \A j \in DOMAIN rest : j + 1 \in DOMAIN s /\ j + 1 # 1 /\ j \in Nat
    BY <1>2
  <1>6. Distinct(rest, D)
    <2> SUFFICES ASSUME NEW i \in DOMAIN rest, NEW j \in DOMAIN rest, rest[i] = rest[j]
                 PROVE  i = j \/ rest[i] \in D
      BY DEF Distinct
    <2>1. i + 1 = j + 1 \/ rest[i] \in D
      BY <1>2, <1>3, <1>5
    <2> QED
      BY <1>5, <2>1
  <1>7. 1 \in DOMAIN s
    BY <1>2
  <1>8. /\ \A i \in DOMAIN writes[r] : writes[r][i].path = p => p \in D
        /\ \A j \in DOMAIN rest : rest[j] = p => p \in D
        /\ \A i \in DOMAIN writes[r] : \A j \in DOMAIN rest : writes[r][i].path = rest[j] => rest[j] \in D
    BY <1>2, <1>3, <1>4, <1>5, <1>7
  <1>9. ASSUME NEW x, NEW j \in DOMAIN s, s[j] = x PROVE x = p \/ \E k \in DOMAIN rest : rest[k] = x
    <2>1. CASE j = 1
      BY <1>2, <1>9, <2>1
    <2>2. CASE j # 1
      <3>1. j - 1 \in DOMAIN rest /\ rest[j - 1] = s[j - 1 + 1] /\ j - 1 + 1 = j
        BY <1>2, <2>2
      <3> QED
        BY <1>9, <3>1
    <2> QED
      BY <2>1, <2>2
  <1> QED
    BY <1>2, <1>6, <1>8, <1>9 DEF s, rest, p, D

\* t holds what s holds, in its places, and w; it names no file twice that is not in D.
Extended(t, s, w, D) ==
    /\ t \in Seq(Writes) /\ \A i \in DOMAIN t : t[i] = w \/ \E k \in DOMAIN s : t[i] = s[k]
    /\ \A i \in DOMAIN s : i \in DOMAIN t /\ t[i] = s[i]
    /\ \E i \in DOMAIN t : t[i] = w
    /\ \A i, j \in DOMAIN t : t[i].path = t[j].path => i = j \/ t[i].path \in D

\* One more write, of a file that was not in the list or may be there twice.
LEMMA AddWrite ==
    ASSUME NEW s \in Seq(Writes), NEW w \in Writes, NEW D,
           \A i, j \in DOMAIN s : s[i].path = s[j].path => i = j \/ s[i].path \in D,
           \A i \in DOMAIN s : s[i].path = w.path => w.path \in D
    PROVE  Extended(Append(s, w), s, w, D)
  <1> DEFINE t == Append(s, w)
  <1>1. /\ t \in Seq(Writes) /\ Len(s) \in Nat /\ DOMAIN t = 1 .. (Len(s) + 1) /\ DOMAIN s = 1 .. Len(s)
        /\ \A k \in 1 .. Len(s) : t[k] = s[k]
        /\ t[Len(s) + 1] = w
    OBVIOUS
  <1> HIDE DEF t
  <1>2. \A i \in DOMAIN t : i = Len(s) + 1 \/ i \in DOMAIN s
    BY <1>1
  <1>3. \A i \in DOMAIN s : i \in DOMAIN t /\ t[i] = s[i]
    BY <1>1
  <1>4. Len(s) + 1 \in DOMAIN t
    BY <1>1
  <1>5. \A i, j \in DOMAIN t : t[i].path = t[j].path => i = j \/ t[i].path \in D
    BY <1>1, <1>2, <1>3
  <1> QED
    BY <1>1, <1>2, <1>3, <1>4, <1>5 DEF t, Extended

\* The next file of the plan is rendered, skipped or refused.
LEMMA RenderStepInv == ASSUME IInv, NEW r \in Runs, Render(r) PROVE IInv'
  <1> DEFINE p == Head(plan[r].paths)
             D == NamedTwice(args[r])
             Out(answer) == Rendering(r, p, answer)
             W(o) == [path |-> p, bytes |-> o.content, base |-> files[p]]
  <1>1. PICK answer \in BOOLEAN :
          /\ agreed' = IF p \in Clients /\ AgreesToMigrate(r, p, answer)
                       THEN [agreed EXCEPT ![r] = @ \cup {p}] ELSE agreed
          /\ \/ /\ Out(answer).refused
                /\ pc' = [pc EXCEPT ![r] = "ended"] /\ report' = [report EXCEPT ![r] = "refused"]
                /\ UNCHANGED <<plan, writes>>
             \/ /\ ~Out(answer).refused
                /\ plan' = [plan EXCEPT ![r].paths = Tail(@)]
                /\ writes' = IF Out(answer).write THEN [writes EXCEPT ![r] = Append(@, W(Out(answer)))] ELSE writes
                /\ UNCHANGED <<pc, report>>
    BY DEF Render, End
  <1> DEFINE out == Out(answer)
             w == W(out)
             rest == Tail(plan[r].paths)
  <1>2. /\ pc[r] = "render" /\ plan[r].paths # <<>>
        /\ UNCHANGED <<files, original, keyring, faults, args, at, applied, pending, alone, landed>>
    BY DEF Render, machine, inputs, history
  <1>3. /\ p \in Paths /\ rest \in Seq(Paths) /\ Distinct(rest, D)
        /\ \A i \in DOMAIN writes[r] : writes[r][i].path = p => p \in D
        /\ \A j \in DOMAIN rest : rest[j] = p => p \in D
        /\ \A i \in DOMAIN writes[r] : \A j \in DOMAIN rest : writes[r][i].path = rest[j] => rest[j] \in D
        /\ \A x : (\E j \in DOMAIN plan[r].paths : plan[r].paths[j] = x)
                     => x = p \/ \E j \in DOMAIN rest : rest[j] = x
    BY <1>2, RenderLists
  <1> HIDE DEF D
  <1>4. /\ out.refused \in BOOLEAN /\ out.write \in BOOLEAN
        /\ ~out.refused /\ out.write =>
             /\ out.content \in Contents(p) /\ Faithful(r, args[r].name, w)
             /\ DropsLegacy(w) => args[r].overwrite \/ AgreesToMigrate(r, p, answer)
        /\ ~out.refused /\ p = "profile" => out.write
        /\ out.refused /\ args[r].overwrite /\ args[r].policy_overwrite =>
             (p = "profile" /\ ~plan[r].sound) \/ Unfit(p, files[p], args[r].name)
    BY <1>1, <1>3, RenderingFacts
  <1>5. /\ w.path = p
        /\ ~out.refused /\ out.write => w \in Writes /\ Faithful(r, args[r].name, w)
    BY <1>3, <1>4 DEF Writes, AnyContents, IInv, MachineType
  <1>6. MachineType' /\ FitInv'
    BY <1>2 DEF IInv, MachineType, FitInv, Empty
  <1>7. /\ ~out.refused /\ out.write /\ DropsLegacy(w) => args[r].overwrite \/ p \in agreed'[r]
        /\ agreed' \in [Runs -> SUBSET Questions] /\ agreed[r] \subseteq agreed'[r]
        /\ \A q \in Runs \ {r} : agreed'[q] = agreed[q]
    <2> HIDE DEF p, out, w
    <2>1. agreed \in [Runs -> SUBSET Questions] /\ (p \in Clients => p \in Questions)
      BY DEF IInv, RunType, Questions
    <2>2. CASE p \in Clients /\ AgreesToMigrate(r, p, answer)
      <3>1. agreed' = [agreed EXCEPT ![r] = @ \cup {p}] /\ p \in Questions
        BY <1>1, <2>1, <2>2
      <3>2. [agreed EXCEPT ![r] = @ \cup {p}] \in [Runs -> SUBSET Questions]
        BY <2>1, <3>1, Asks
      <3> QED
        BY <2>1, <3>1, <3>2
    <2>3. CASE ~(p \in Clients /\ AgreesToMigrate(r, p, answer))
      <3>1. agreed' = agreed
        BY <1>1, <2>3
      <3>2. DropsLegacy(w) => p \in Clients
        BY <1>5 DEF DropsLegacy
      <3> QED
        BY <1>4, <2>1, <2>3, <3>1, <3>2
    <2> QED
      BY <2>2, <2>3
  <1>8. /\ writes[r] \in Seq(Writes) /\ report[r] = "none" /\ at[r] = 1 /\ applied[r] = <<>>
        /\ pending[r] = <<>> /\ landed[r] = {} /\ Consent(r) /\ RenderInv(r)
    BY <1>2, RunTypes DEF IInv, RunInv, StageInv, Planned, Committing
  <1>9. \A i \in DOMAIN writes[r] : DropsLegacy(writes[r][i]) => args[r].overwrite \/ writes[r][i].path \in agreed'[r]
    BY <1>7, <1>8 DEF RenderInv
  <1>10. Active(r)
    BY <1>2 DEF Active, Ended
  <1>11. CASE out.refused
    <2>1. /\ pc' = [pc EXCEPT ![r] = "ended"] /\ report' = [report EXCEPT ![r] = "refused"]
          /\ UNCHANGED <<plan, writes>>
      BY <1>1, <1>11
    <2>2. (p = "profile" /\ ~plan[r].sound) \/ Unfit(p, original[p], args[r].name)
             \/ ~(args[r].overwrite /\ args[r].policy_overwrite)
      <3>1. args[r].name \in Names
        BY InitAssumption DEF IInv, RunType
      <3> QED
        BY <1>3, <1>4, <1>11, <3>1 DEF IInv, FitInv
    <2> HIDE DEF p, W, w, out, Out, rest
    <2>3. RunType'
      BY <1>2, <1>7, <2>1 DEF IInv, RunType, Stages, Ended, Reports
    <2>4. ASSUME NEW q \in Runs \ {r} PROVE Same(q)
      BY <1>2, <1>7, <2>1 DEF IInv, RunType, Same
    <2>5. pc'[r] = "ended" /\ report'[r] = "refused"
      BY <2>1 DEF IInv, RunType
    <2>6. StageInv(r)' /\ ListInv(r)'
      BY <1>2, <1>8, <2>1, <2>5 DEF StageInv, ListInv, Planned, Committing
    <2>7. RenderInv(r)'
      BY <1>2, <1>8, <1>9, <2>1, <2>5 DEF RenderInv, Planned, Committing
    <2>8. RefusalInv(r)'
      BY <1>2, <2>1, <2>2 DEF RefusalInv, p
    <2>9. InPlace(r)'
      BY <2>5 DEF InPlace, Committing
    <2> QED
      BY <1>2, <1>6, <1>10, <2>3, <2>4, <2>6, <2>7, <2>8, <2>9, Assemble DEF RunInv
  <1>12. CASE ~out.refused
    <2>1. /\ plan' = [plan EXCEPT ![r].paths = rest] /\ UNCHANGED <<pc, report>>
          /\ writes' = IF out.write THEN [writes EXCEPT ![r] = Append(@, w)] ELSE writes
      BY <1>1, <1>12
    <2> HIDE DEF p, W, w, rest, out, Out
    <2>2. /\ plan' \in [Runs -> Plans] /\ plan'[r] = [plan[r] EXCEPT !.paths = rest]
          /\ plan'[r].paths = rest /\ plan'[r].secret = plan[r].secret
          /\ plan'[r].purge = plan[r].purge /\ plan'[r].cloned = plan[r].cloned
          /\ \A q \in Runs \ {r} : plan'[q] = plan[q]
      <3>1. plan \in [Runs -> Plans] /\ plan[r] \in Plans
        BY DEF IInv, RunType
      <3>2. /\ plan'[r] = [plan[r] EXCEPT !.paths = rest]
            /\ plan' = [plan EXCEPT ![r] = [plan[r] EXCEPT !.paths = rest]]
            /\ \A q \in Runs \ {r} : plan'[q] = plan[q]
        BY <2>1, <3>1
      <3>3. /\ [plan[r] EXCEPT !.paths = rest] \in Plans
            /\ plan'[r].paths = rest /\ plan'[r].secret = plan[r].secret
            /\ plan'[r].purge = plan[r].purge /\ plan'[r].cloned = plan[r].cloned
        BY <1>3, <3>1, <3>2 DEF Plans
      <3> QED
        BY <3>1, <3>2, <3>3
    <2> DEFINE Grown(t) ==
                 /\ t \in Seq(Writes)
                 /\ \A i \in DOMAIN t : (t[i] = w /\ out.write) \/ \E k \in DOMAIN writes[r] : t[i] = writes[r][k]
                 /\ \A i \in DOMAIN writes[r] : i \in DOMAIN t /\ t[i] = writes[r][i]
                 /\ out.write => \E i \in DOMAIN t : t[i] = w
                 /\ \A i, j \in DOMAIN t : t[i].path = t[j].path => i = j \/ t[i].path \in D
    <2>3. Grown(writes'[r])
      <3>1. \A i, j \in DOMAIN writes[r] : writes[r][i].path = writes[r][j].path => i = j \/ writes[r][i].path \in D
        BY <1>8 DEF RenderInv, D
      <3>2. CASE out.write
        <4>1. writes'[r] = Append(writes[r], w)
          BY <2>1, <3>2 DEF IInv, RunType
        <4>2. w \in Writes /\ \A i \in DOMAIN writes[r] : writes[r][i].path = w.path => w.path \in D
          BY <1>3, <1>5, <1>12, <3>2
        <4>3. Extended(Append(writes[r], w), writes[r], w, D)
          BY <1>8, <3>1, <4>2, AddWrite
        <4>4. Extended(writes'[r], writes[r], w, D)
          BY <4>1, <4>3
        <4> QED
          BY <3>2, <4>4 DEF Extended
      <3>3. CASE ~out.write
        <4>1. writes'[r] = writes[r]
          BY <2>1, <3>3
        <4>2. Grown(writes[r])
          BY <1>8, <3>1, <3>3
        <4> HIDE DEF Grown
        <4> QED
          BY <4>1, <4>2
      <3> QED
        BY <1>4, <3>2, <3>3
    <2>4. RunType'
      <3>1. writes' \in [Runs -> Seq(Writes)]
        BY <2>1, <2>3 DEF IInv, RunType
      <3> QED
        BY <1>2, <1>7, <2>1, <2>2, <3>1 DEF IInv, RunType
    <2>5. ASSUME NEW q \in Runs \ {r} PROVE Same(q)
      BY <1>2, <1>7, <2>1, <2>2 DEF IInv, RunType, Same
    <2>6. StageInv(r)'
      BY <1>2, <1>7, <1>8, <2>1, <2>2 DEF StageInv, Consent, Planned, Committing
    <2>7. RenderInv(r)'
      <3>1. ASSUME NEW i \in DOMAIN writes'[r]
            PROVE  /\ Faithful(r, args[r].name, writes'[r][i])
                   /\ DropsLegacy(writes'[r][i]) => args[r].overwrite \/ writes'[r][i].path \in agreed'[r]
        <4>1. CASE writes'[r][i] = w /\ out.write
          BY <1>5, <1>7, <1>12, <4>1
        <4>2. CASE \E k \in DOMAIN writes[r] : writes'[r][i] = writes[r][k]
          BY <1>8, <1>9, <4>2 DEF RenderInv
        <4> QED
          BY <2>3, <4>1, <4>2
      <3>2. \A i \in DOMAIN writes'[r] : \A j \in DOMAIN rest : writes'[r][i].path = rest[j] => rest[j] \in D
        BY <1>3, <1>5, <2>3
      <3>3. \/ \E j \in DOMAIN rest : rest[j] = "profile"
            \/ \E i \in DOMAIN writes'[r] : writes'[r][i].path = "profile"
        <4>1. CASE \E i \in DOMAIN writes[r] : writes[r][i].path = "profile"
          BY <2>3, <4>1
        <4>2. CASE \E j \in DOMAIN plan[r].paths : plan[r].paths[j] = "profile"
          <5>1. p = "profile" \/ \E j \in DOMAIN rest : rest[j] = "profile"
            BY <1>3, <4>2
          <5> QED
            BY <1>4, <1>5, <1>12, <2>3, <5>1
        <4> QED
          BY <1>2, <1>8, <4>1, <4>2 DEF RenderInv, Planned
      <3>4. pc'[r] \notin Committing /\ args' = args /\ plan'[r].paths = rest
        BY <1>2, <2>1, <2>2 DEF Committing
      <3> QED
        BY <1>3, <2>3, <3>1, <3>2, <3>3, <3>4 DEF RenderInv, D
    <2>8. ListInv(r)' /\ InPlace(r)' /\ RefusalInv(r)'
      BY <1>2, <1>8, <2>1 DEF ListInv, InPlace, RefusalInv, Committing
    <2> QED
      BY <1>2, <1>6, <1>10, <2>4, <2>5, <2>6, <2>7, <2>8, Assemble DEF RunInv
  <1> QED
    BY <1>4, <1>11, <1>12

\* The questions of the guided flow, and the consent in a plan with the
\* password of the remote host.
LEMMA GuidedFacts ==
    ASSUME NEW a \in Invocations
    PROVE  /\ SourceQuestions(a) \cup ScopeQuestions(a) \cup OptionalQuestions(a) \subseteq Questions
           /\ \A scope : PurgeQuestions(a, scope) \subseteq Questions
           /\ \A credential \in SecretChoices(a) :
                /\ credential.secret \in Secrets \cup {NoSecret} /\ credential.cloned \in BOOLEAN
                /\ CredentialQuestions(a, credential.cloned) \subseteq Questions
                /\ credential.cloned =>
                     a.accept = "host" \/ "credential" \in CredentialQuestions(a, credential.cloned)
  <1>1. SourceQuestions(a) \cup ScopeQuestions(a) \cup OptionalQuestions(a) \subseteq Questions
    BY DEF SourceQuestions, ScopeQuestions, OptionalQuestions, ParamQuestions, DiscoveryQuestions,
       KeyringQuestions, Questions
  <1>2. \A scope : PurgeQuestions(a, scope) \subseteq Questions
    BY DEF PurgeQuestions, Questions
  <1>3. ASSUME NEW credential \in SecretChoices(a)
        PROVE  credential.secret \in Secrets \cup {NoSecret} /\ credential.cloned \in BOOLEAN
    <2> DEFINE Typed == [secret : Secrets, cloned : {FALSE}]
               Cloned == [secret : Secrets, cloned : {TRUE}]
               NoneGiven == [secret : {NoSecret}, cloned : {FALSE}]
    <2>1. credential \in Cloned \/ credential \in Typed \/ credential \in NoneGiven
      BY DEF SecretChoices
    <2> QED
      BY <2>1
  <1>4. ASSUME NEW b \in BOOLEAN
        PROVE  /\ CredentialQuestions(a, b) \subseteq Questions
               /\ b => a.accept = "host" \/ "credential" \in CredentialQuestions(a, b)
    BY DEF CredentialQuestions, Questions
  <1> QED
    BY <1>1, <1>2, <1>3, <1>4

\* run_guided returns a plan: it names a file twice only for a client that was,
\* and whatever in it needs consent has it.
LEMMA GuidedInv == ASSUME IInv, NEW r \in Runs, Guided(r) PROVE IInv'
  <1> DEFINE a == args[r]
             must == SourceQuestions(a) \cup ScopeQuestions(a)
             may == OptionalQuestions(a)
  <1>1. PICK scope \in ScopeChoices(a), credential \in SecretChoices(a), sound \in BOOLEAN, yes \in SUBSET may :
          /\ agreed' = [agreed EXCEPT ![r] =
                must \cup PurgeQuestions(a, scope) \cup CredentialQuestions(a, credential.cloned) \cup yes]
          /\ plan' = [plan EXCEPT ![r] = GuidedPlan(a, scope, credential, sound, yes)]
    BY Zenon DEF Guided
  <1>2. /\ pc[r] = "guide"
        /\ UNCHANGED <<files, original, keyring, faults, args, writes, at, applied, pending, alone, landed>>
        /\ IF a.print_only THEN End(r, "ok") ELSE Goto(r, "confirm")
    BY DEF Guided, machine, inputs, history
  <1> DEFINE new == GuidedPlan(a, scope, credential, sound, yes)
             ask == must \cup PurgeQuestions(a, scope) \cup CredentialQuestions(a, credential.cloned) \cup yes
  <1>3. a \in Invocations
    BY DEF IInv, RunType
  <1>4. /\ new.paths \in Seq(Paths) /\ 1 \in DOMAIN new.paths /\ new.paths[1] = "profile"
        /\ Distinct(new.paths, NamedTwice(a))
    <2> DEFINE production == Chosen("production", a.production, may, yes)
               targets == McpTargets(a, may, yes)
               agents == Chosen("agents", ~a.no_agents /\ files["agents"].form # "absent", may, yes)
               claude == a.claude /\ files["claude"].form # "absent"
               s == new.paths
    <2>1. s = PlannedPaths(production, targets, agents, claude)
      BY DEF GuidedPlan
    <2>2. targets \in Seq(Clients) /\ Distinct(targets, NamedTwice(a))
      <3> HIDE DEF a, may
      <3> QED
        BY <1>3, McpTargetsFacts
    <2> HIDE DEF a, production, targets, agents, claude, s
    <2>3. s \in Seq(Paths) /\ 1 \in DOMAIN s /\ s[1] = "profile" /\ Distinct(s, NamedTwice(a))
      BY <2>1, <2>2, PlannedPathsFacts
    <2> QED
      BY <2>3 DEF s
  <1>5. /\ credential.secret \in Secrets \cup {NoSecret} /\ credential.cloned \in BOOLEAN
        /\ credential.cloned => a.accept = "host" \/ "credential" \in ask
        /\ ask \subseteq Questions
    <2> HIDE DEF a
    <2> QED
      BY <1>1, <1>3, GuidedFacts
  <1>6. new \in Plans /\ new.cloned = credential.cloned /\ new.purge = (scope = "purge")
    BY <1>1, <1>4, <1>5 DEF GuidedPlan, Plans
  <1>7. new.purge => ~a.interactive \/ "purge" \in ask
    BY <1>6 DEF PurgeQuestions
  <1>8. plan'[r] = new /\ agreed'[r] = ask /\ plan' \in [Runs -> Plans] /\ agreed' \in [Runs -> SUBSET Questions]
    <2> HIDE DEF new, ask
    <2> QED
      BY <1>1, <1>5, <1>6 DEF IInv, RunType, new, ask
  <1> HIDE DEF new, ask
  <1>9. \/ a.print_only /\ pc'[r] = "ended" /\ report'[r] = "ok"
        \/ ~a.print_only /\ pc'[r] = "confirm" /\ report'[r] = report[r]
    BY <1>2 DEF End, Goto, IInv, RunType
  <1>10. MachineType' /\ FitInv'
    BY <1>2 DEF IInv, MachineType, FitInv, Empty
  <1>11. RunType'
    BY <1>2, <1>8 DEF End, Goto, IInv, RunType, Stages, Planned, Ended, Reports
  <1>12. ASSUME NEW q \in Runs \ {r} PROVE Same(q)
    BY <1>1, <1>2 DEF End, Goto, IInv, RunType, Same
  <1>13. /\ writes[r] = <<>> /\ report[r] = "none" /\ at[r] = 1 /\ applied[r] = <<>>
         /\ pending[r] = <<>> /\ landed[r] = {}
    BY <1>2 DEF IInv, RunInv, StageInv, Committing
  <1>14. StageInv(r)'
    BY <1>2, <1>5, <1>6, <1>7, <1>8, <1>9, <1>13 DEF StageInv, Consent, Planned, Committing
  <1>15. RenderInv(r)'
    BY <1>2, <1>4, <1>8, <1>9, <1>13 DEF RenderInv, Planned, Committing
  <1>16. ListInv(r)' /\ InPlace(r)' /\ RefusalInv(r)'
    BY <1>9, <1>13 DEF ListInv, InPlace, RefusalInv, Committing
  <1>17. Active(r)
    BY <1>2 DEF Active, Ended
  <1> QED
    BY <1>2, <1>10, <1>11, <1>12, <1>14, <1>15, <1>16, <1>17, Assemble DEF RunInv

-----------------------------------------------------------------------------
(* The theorems.                                                           *)

\* The invariant is inductive.
LEMMA InvNext == IInv /\ [Next]_vars => IInv'
  <1> SUFFICES ASSUME IInv, [Next]_vars PROVE IInv'
    OBVIOUS
  <1>1. CASE Next
    BY <1>1, BeginInv, GuidedRefusesInv, GuidedInv, ConfirmKeyringInv, RenderStepInv, RenderedInv,
       ProbeInv, ProbeReadBackInv, StoreSecretInv, KeyringFailsInv, UnchangedInv, StageFileInv,
       RenameInv, WriteFailsInv, PrepareFailsInv, FinishInv, KillInv DEF Next
  <1>2. CASE UNCHANGED vars
    <2>1. /\ UNCHANGED <<files, original, keyring, faults, pc, args, agreed, plan, writes, at>>
          /\ UNCHANGED <<applied, pending, report, alone, landed>>
      BY <1>2 DEF vars, machine, inputs, progress, history
    <2>2. \A q \in Runs : Same(q)
      BY <2>1 DEF Same
    <2>3. \A q \in Runs : RunInv(q)'
      BY <2>2, SameInv DEF IInv
    <2>4. MachineType' /\ RunType'
      BY <2>1 DEF IInv, MachineType, RunType, Empty
    <2>5. FitInv' /\ AloneInv'
      BY <2>1 DEF IInv, FitInv, AloneInv, Active, InPlace, LastSoFar
    <2> QED
      BY <2>3, <2>4, <2>5 DEF IInv
  <1> QED
    BY <1>1, <1>2

\* What init knows of its files, of its plans and of its lists holds for any
\* number of invocations, in any order and with any faults.
THEOREM Invariance == Spec => []IInv
  BY InitInv, InvNext, PTL DEF Spec

\* Nothing lands without consent: neither a purging profile nor a production
\* credential nor the removal of legacy MCP entries, and with --print-only
\* nothing at all.
THEOREM ConsentGiven == Spec => []LandsWithConsent
  <1>1. ASSUME IInv, NEW r \in Runs, landed[r] # {}
        PROVE  /\ Consent(r)
               /\ \A w \in RangeOf(writes[r]) : DropsLegacy(w) => args[r].overwrite \/ w.path \in agreed[r]
    BY <1>1 DEF IInv, RunInv, StageInv, RenderInv, RangeOf
  <1>2. IInv => LandsWithConsent
    BY <1>1 DEF Consent, LandsWithConsent
  <1> QED
    BY <1>2, Invariance, PTL

\* The report of a commit that failed halfway is exact: applied is what this
\* run replaced, pending what it did not get to, in its order and beginning with
\* the file that failed.  write_one strikes a file off by its path, and that is
\* the right one even when a client was named twice; only such a file can be on
\* both lists.
THEOREM PartialReport == Spec => []ReportIsExact
  <1>1. ASSUME IInv, NEW r \in Runs, report[r] = "partial"
        PROVE  /\ RangeOf(applied[r]) = landed[r] \ {"keyring"}
               /\ at[r] <= Len(writes[r])
               /\ pending[r] = [k \in 1 .. (Len(writes[r]) + 1 - at[r]) |-> writes[r][at[r] + k - 1].path]
               /\ RangeOf(applied[r]) \cap RangeOf(pending[r]) \subseteq NamedTwice(args[r])
    <2>1. /\ at[r] \in Nat /\ at[r] # 0 /\ Len(writes[r]) \in Nat /\ DOMAIN writes[r] = 1 .. Len(writes[r])
          /\ pending[r] \in Seq(Paths)
      BY <1>1, RunTypes DEF IInv
    <2>2. /\ at[r] <= Len(writes[r]) /\ Len(pending[r]) = Len(writes[r]) + 1 - at[r]
          /\ \A k \in DOMAIN pending[r] : pending[r][k] = writes[r][at[r] + k - 1].path
          /\ RangeOf(applied[r]) = landed[r] \ {"keyring"}
          /\ \A p \in RangeOf(applied[r]) : \E k \in 1 .. (at[r] - 1) : writes[r][k].path = p
      BY <1>1 DEF IInv, RunInv, ListInv
    <2>3. pending[r] = [k \in 1 .. (Len(writes[r]) + 1 - at[r]) |-> writes[r][at[r] + k - 1].path]
      <3>1. pending[r] = [k \in 1 .. Len(pending[r]) |-> pending[r][k]] /\ DOMAIN pending[r] = 1 .. Len(pending[r])
        BY <2>1
      <3> QED
        BY <2>2, <3>1
    <2>4. ASSUME NEW p \in RangeOf(applied[r]), p \in RangeOf(pending[r]) PROVE p \in NamedTwice(args[r])
      <3>1. PICK i \in 1 .. (at[r] - 1) : writes[r][i].path = p
        BY <2>2
      <3>2. PICK k \in DOMAIN pending[r] : pending[r][k] = p
        BY <2>4 DEF RangeOf
      <3>3. /\ at[r] + k - 1 \in DOMAIN writes[r] /\ i \in DOMAIN writes[r] /\ i # at[r] + k - 1
        <4>1. k \in 1 .. (Len(writes[r]) + 1 - at[r]) /\ at[r] <= Len(writes[r])
          BY <2>1, <2>2
        <4>2. at[r] + k - 1 \in 1 .. Len(writes[r]) /\ i \in 1 .. Len(writes[r]) /\ i # at[r] + k - 1
          BY <2>1, <4>1, Positions
        <4> QED
          BY <2>1, <4>2
      <3>4. writes[r][at[r] + k - 1].path = p
        BY <2>2, <3>2
      <3> QED
        BY <1>1, <3>1, <3>3, <3>4 DEF IInv, RunInv, RenderInv
    <2> QED
      BY <2>2, <2>3, <2>4
  <1>2. IInv => ReportIsExact
    BY <1>1 DEF ReportIsExact
  <1> QED
    BY <1>2, Invariance, PTL

\* The recovery the orphan warning recommends is never refused because of what
\* other runs left behind: what stops it is its own section, or a file that
\* was unfit before the first run.
THEOREM RecoveryWorks == Spec => []RecoveryNotRefused
  <1>1. IInv => RecoveryNotRefused
    BY DEF IInv, RunInv, RefusalInv, RecoveryNotRefused
  <1> QED
    BY <1>1, Invariance, PTL

\* A run reports success at its end, or shows a plan it was not to commit.
LEMMA OkStep ==
    ASSUME IInv, Next, NEW r \in Runs, report[r] = "none", report'[r] = "ok"
    PROVE  Finish(r) \/ args[r].print_only
  <1>1. report \in [Runs -> Reports]
    BY DEF IInv, RunType
  <1>2. PICK q \in Runs :
          \/ Begin(q) \/ GuidedRefuses(q) \/ Guided(q) \/ ConfirmKeyring(q)
          \/ Render(q) \/ Rendered(q)
          \/ Probe(q) \/ ProbeReadBack(q) \/ StoreSecret(q) \/ KeyringFails(q)
          \/ Unchanged(q) \/ Stage(q) \/ Rename(q) \/ WriteFails(q) \/ PrepareFails(q)
          \/ Finish(q) \/ Kill(q)
    BY DEF Next
  <1>3. CASE Begin(q) \/ GuidedRefuses(q) \/ ConfirmKeyring(q)
    BY <1>1, <1>3 DEF Begin, GuidedRefuses, ConfirmKeyring, Goto, End
  <1>4. CASE Guided(q)
    BY <1>1, <1>4 DEF Guided, Goto, End
  <1>5. CASE Render(q)
    <2>1. report' = report \/ report' = [report EXCEPT ![q] = "refused"]
      BY <1>5 DEF Render, End
    <2> QED
      BY <1>1, <2>1
  <1>6. CASE Rendered(q) \/ Probe(q) \/ ProbeReadBack(q) \/ StoreSecret(q) \/ KeyringFails(q)
    BY <1>1, <1>6 DEF Rendered, Probe, ProbeReadBack, StoreSecret, KeyringFails, Goto, End
  <1>7. CASE Unchanged(q) \/ Stage(q) \/ Rename(q) \/ WriteFails(q) \/ PrepareFails(q) \/ Kill(q)
    BY <1>1, <1>7 DEF Unchanged, Stage, Rename, WriteFails, PrepareFails, Kill, Goto, End
  <1>8. CASE Finish(q)
    BY <1>1, <1>8 DEF Finish, End
  <1> QED
    BY <1>2, <1>3, <1>4, <1>5, <1>6, <1>7, <1>8

\* A run that succeeds and that nobody overlapped has put every file of its
\* plan, its own section of the profile file included, and its password in
\* place; of a file that it wrote twice, the second rendering.
THEOREM SuccessIsWhole == Spec => SuccessIsPlan
  <1> DEFINE Whole ==
        \A r \in Runs : report[r] = "none" /\ report'[r] = "ok" /\ r \in alone /\ ~args[r].print_only =>
          /\ \A k \in DOMAIN writes[r] : IsLast(r, k) => files'[writes[r][k].path] = writes[r][k].bytes
          /\ files'["profile"].form = "text" /\ files'["profile"].own[args[r].name] = r
          /\ plan[r].secret # NoSecret => keyring' = plan[r].secret
  <1>1. ASSUME IInv, Next PROVE Whole
    <2> SUFFICES ASSUME NEW r \in Runs, report[r] = "none", report'[r] = "ok", r \in alone,
                        ~args[r].print_only
                 PROVE  /\ \A k \in DOMAIN writes[r] : IsLast(r, k) => files'[writes[r][k].path] = writes[r][k].bytes
                        /\ files'["profile"].form = "text" /\ files'["profile"].own[args[r].name] = r
                        /\ plan[r].secret # NoSecret => keyring' = plan[r].secret
      OBVIOUS
    <2>1. Finish(r)
      BY <1>1, OkStep
    <2>2. pc[r] = "write" /\ at[r] > Len(writes[r]) /\ files' = files /\ keyring' = keyring
      BY <2>1 DEF Finish, machine
    <2>3. InPlace(r) /\ RenderInv(r) /\ pc[r] \in Committing /\ pc[r] \in Planned
      BY <1>1, <2>2 DEF IInv, AloneInv, RunInv, Committing, Planned
    <2>4. ASSUME NEW k \in DOMAIN writes[r], IsLast(r, k)
          PROVE files[writes[r][k].path] = writes[r][k].bytes
      <3>1. writes[r] \in Seq(Writes) /\ at[r] \in Nat
        BY <1>1, RunTypes DEF IInv
      <3>2. k < at[r] /\ \A j \in DOMAIN writes[r] : k < j => j > k
        BY <2>2, <3>1
      <3>3. LastSoFar(r, k)
        BY <2>4, <3>2 DEF IsLast, LastSoFar
      <3> QED
        BY <2>3, <3>3 DEF InPlace
    <2>5. PICK k \in DOMAIN writes[r] : writes[r][k].path = "profile"
      BY <2>3 DEF RenderInv
    <2>6. IsLast(r, k)
      <3>1. args[r] \in Invocations /\ writes[r] \in Seq(Writes)
        BY <1>1, RunTypes DEF IInv
      <3>2. "profile" \notin NamedTwice(args[r])
        BY <3>1, McpTargetsFacts DEF Clients
      <3>3. \A j \in DOMAIN writes[r] : j > k => j # k
        BY <3>1
      <3> QED
        BY <2>3, <2>5, <3>2, <3>3 DEF RenderInv, IsLast
    <2>7. writes[r][k].bytes.form = "text" /\ writes[r][k].bytes.own[args[r].name] = r
      BY <2>3, <2>5 DEF RenderInv, Faithful
    <2>8. plan[r].secret # NoSecret => keyring = plan[r].secret
      BY <2>2, <2>3 DEF InPlace
    <2> QED
      BY <2>2, <2>4, <2>5, <2>6, <2>7, <2>8
  <1>2. IInv /\ [Next]_vars => [Whole]_vars
    BY <1>1
  <1> QED
    BY <1>2, Invariance, PTL DEF Spec, SuccessIsPlan

\* Replacing a file loses what others put there only if it was changed after
\* this run read it, or was not text.
THEOREM LossIsExplained == Spec => LossExplained
  <1> DEFINE Kept ==
        \A r \in Runs : pc[r] = "staged" /\ pc'[r] = "write" =>
          LET w == Current(r)
          IN  files[w.path] = w.base /\ w.base.form # "binary" =>
                Foreign(w.path, files[w.path], args[r].name)
                    \subseteq Foreign(w.path, files'[w.path], args[r].name)
  <1>1. ASSUME IInv, Next PROVE Kept
    <2> SUFFICES ASSUME NEW r \in Runs, pc[r] = "staged", pc'[r] = "write",
                        files[Current(r).path] = Current(r).base, Current(r).base.form # "binary"
                 PROVE  Foreign(Current(r).path, files[Current(r).path], args[r].name)
                            \subseteq Foreign(Current(r).path, files'[Current(r).path], args[r].name)
      OBVIOUS
    <2>1. Rename(r)
      <3>1. pc \in [Runs -> Stages]
        BY <1>1 DEF IInv, RunType
      <3>2. PICK q \in Runs :
              \/ Begin(q) \/ GuidedRefuses(q) \/ Guided(q) \/ ConfirmKeyring(q)
              \/ Render(q) \/ Rendered(q)
              \/ Probe(q) \/ ProbeReadBack(q) \/ StoreSecret(q) \/ KeyringFails(q)
              \/ Unchanged(q) \/ Stage(q) \/ Rename(q) \/ WriteFails(q) \/ PrepareFails(q)
              \/ Finish(q) \/ Kill(q)
        BY <1>1 DEF Next
      <3>3. CASE Begin(q) \/ GuidedRefuses(q) \/ Guided(q) \/ ConfirmKeyring(q)
        BY <3>1, <3>3 DEF Begin, GuidedRefuses, Guided, ConfirmKeyring, Goto, End
      <3>4. CASE Render(q)
        <4>1. pc' = pc \/ pc' = [pc EXCEPT ![q] = "ended"]
          BY <3>4 DEF Render, End
        <4> QED
          BY <3>1, <4>1
      <3>5. CASE Rendered(q) \/ Probe(q) \/ ProbeReadBack(q) \/ StoreSecret(q) \/ KeyringFails(q)
        BY <3>1, <3>5 DEF Rendered, Probe, ProbeReadBack, StoreSecret, KeyringFails, Goto, End
      <3>6. CASE Unchanged(q) \/ Stage(q) \/ WriteFails(q) \/ PrepareFails(q) \/ Finish(q) \/ Kill(q)
        BY <3>1, <3>6 DEF Unchanged, Stage, WriteFails, PrepareFails, Finish, Kill, InLoop, Goto, End
      <3>7. CASE Rename(q)
        BY <3>1, <3>7 DEF Rename, Goto
      <3> QED
        BY <3>2, <3>3, <3>4, <3>5, <3>6, <3>7
    <2>2. /\ Current(r).path \in Paths /\ Faithful(r, args[r].name, Current(r))
      BY <1>1, <2>1, LoopFacts DEF Rename, InLoop
    <2>3. files'[Current(r).path] = Current(r).bytes
      BY <1>1, <2>1, <2>2 DEF Rename, IInv, MachineType
    <2> QED
      BY <2>2, <2>3 DEF Faithful
  <1>2. IInv /\ [Next]_vars => [Kept]_vars
    BY <1>1
  <1> QED
    BY <1>2, Invariance, PTL DEF Spec, LossExplained
=============================================================================
