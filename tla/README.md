# gaze-lens: TLA+ models, model checks and proofs

gaze-lens gives an agent read access to databases and logs and replaces
personal data by tokens before the agent sees anything. Whatever threads,
processes and crashes do, an operator can restore every token the agent was
given from the manifest and the snapshot files; an answer is redacted under the
policy of its own profile and says when it was cut; the execution server
releases nothing under an authority that was withdrawn; and the machine is left
as the operator was told. This directory models the parts that carry those
promises.

## Inventory

| component | state | operations | what makes it correct |
|---|---|---|---|
| session dispatch (`src/session/mod.rs`, `src/manifest/gaze_mcp_adapter.rs`) | the in-memory token map, `core_summaries`, `snapshot_lock`, one task per call, one blocking job per snapshot | `dispatch_tool`: redact the arguments, begin the row, invoke the source, redact the result, persist the snapshot, finish or fail the row, answer | a row that says ok is restorable; results only for such rows; no snapshot goes back in time; no call waits for another for ever |
| manifest (`src/session/manifest.rs`) | one SQLite row per call: status, snapshot_ref, purged_at_ms | begin, finish, fail | the audit of record: rows are never lost, reopened or malformed |
| retention (`src/session/maintenance.rs`, `src/cli/retention.rs`) | the rows and the snapshot directory, a cursor | sweep: remove the file, tombstone the row | young sessions are spared; a finished sweep has left nothing behind unreported |
| replay (`src/session/restore.rs`, `src/cli/replay.rs`) | a cursor over a session's rows | restore the arguments row by row | success means the whole session |
| profiles and policies (`src/profile.rs`, `src/policy.rs`, `src/cli/serve.rs`) | the team's and the user's file, a policy file per profile, what is registered in the session | load, merge, select, sweep, read a policy, register | only the team can turn on a purge; the gates see the policy that is used |
| redaction and caps (`src/session/mod.rs`, `src/value.rs`, `src/source/db/query.rs`) | the result of one call | column rules, pipeline, caps | an answer is redacted under its own profile; a cut is reported exactly when there is one |
| database sources and ssh tunnel (`src/source/db/`, `src/source/ssh_tunnel.rs`, `src/source/mod.rs`) | a OnceCell per source, a pool of one connection, an ssh master in the background | build, connect, make read only, query, drop | one build at a time, no leaked master, each source through its own tunnel |
| log sources (`src/source/log/`) | the window cache; one read of a log in progress; the ssh child | tail, regex search, full window | an answer without a flag is whole; no_matches is true; the child is reaped |
| keyword search (`src/mcp/tools/log_grep.rs`) | a cache of indexed windows above the cache of raw windows, each with a TTL | get or fetch, refresh, index, match | a refresh reads the log; answers have a bounded age |
| identity history (`crates/gaze-lens-server/src/history.rs`) | the ledger file, the process lock | check, open (enroll, persist), validate | a superseded generation or a removed id is never served again |
| execution server (`crates/gaze-lens-server/src/service.rs`, `auth.rs`) | semaphore, counts per principal, failure counter, one task per connection, the authority file | accept, prepare, call, release | released only under the current authority; permits are never lost; connections end |
| remote log service and client (`src/source/remote/`) | permits, grants file, one exchange per connection, watchdog | list, tail, admission, deadline | as above, and a late answer never races the deadline |
| init (`src/cli/init/`) | several files and a keyring entry | ask, render, store the password, replace the files | consent before anything lands; the report is exact; a second run can recover |
| checks, demo, command line | none | print reports | - |

Interaction: `serve` merges the profiles, sweeps expired snapshots, reads the
policies and opens a session; the session's calls run concurrently on a
multi-threaded runtime and share the token map, the manifest, the snapshot
directory, the sources and their caches; other gaze-lens processes of the same
user sweep and replay the same manifest and directory meanwhile, open tunnels
on the same ports and run `init` on the same files. The execution server is a
separate process with its own files; the operator edits its authority file
while it runs.

The hard behaviours are concurrent snapshot jobs that outlive their callers,
crashes and power losses between a rename, its sync and the row that refers to
the file, sweeps of a directory other processes still write to, enrollment by
servers that start together or die half way, decisions taken on a copy of a
file that changes, timeouts that drop a call in the middle of building a shared
source, ssh masters that outlive their process, logs that change while they are
read, and a batch of file replacements that stops half way. `PROJECT.json`
lists them, each at its line, as hazards.

## Modules

| module | models | run |
|---|---|---|
| `SessionDispatch` | a call through `dispatch_tool`, its snapshot job, cancellation, exit, power loss | `dispatch` |
| `AuditTrail` | what the session layer promises for a call, abstractly | implemented by `SessionDispatch` |
| `AuditStore` | `SessionDispatch` composed with sweeps and replays on one manifest and directory | `store` |
| `Profiles` | merging, validating and selecting profiles, the retention and the gates they ask for | used by `ServeRun` |
| `Redaction` | column rules, pipeline and caps on rows and text; the limit of a canned query | used by `ServeRun` |
| `ServeRun` | the start of `serve` and the calls it answers, for profiles with a policy each | `serve` |
| `DbSources` | database sources of several processes, their tunnels and connections | `db_sources` |
| `LogTail` | one read of a local log or through ssh while the log changes, and what the three tools make of it | `log_tail` |
| `KeywordSearch` | the keyword index of a window and the match of a request | used by `LogTail` |
| `Positions` | sets of positions in a sequence and the elements at them, in order | used by `Profiles`, `Redaction`, `KeywordSearch`, `LogTail` |
| `LogSearch` | `log_grep`'s two stacked caches under concurrent calls | `log_search` |
| `InitFiles` | the files `init` edits and what its renderers make of them | used by `InitRun` |
| `InitRun` | concurrent, failing and killed invocations of `init` | `init` |
| `Ledger` | what validation and enrollment of identities mean | used by the next two |
| `EnrollLoop` | `Ledger::validate` and `Ledger::enroll` as loops over the vector of entries | `enroll_loop` |
| `IdentityLedger` | `History::check` and `History::open` of servers that start, crash and serve | `ledger`, `nothing_returns` |
| `ServerConnections` | the accept loop and the exchange on each connection | `connections` |
| `RemoteLog` | the remote log transport: the proxy's watchdog, a request with its exchange, the raw service's connections and readers | `remote` |
| `AuditStoreProofs` (with `SessionDispatch`), `ServeRunProofs`, `DbSourcesProofs`, `LogSearchProofs` (with `LogTail`), `InitRunProofs`, `IdentityLedgerProofs` (with `EnrollLoop`), `ServerConnectionsProofs`, `RemoteLogProofs` | theorems about the module of that name, for every value of the constants | TLAPS |

Every `MC*` module only gives constants their values. Operators whose comment
starts with "Mutant" are deliberately wrong variants of the definition that
follows them; `PROJECT.json` pairs each property with one that breaks it.

### SessionDispatch and AuditTrail

`pc[c]` is where `dispatch_tool` stands for call `c`, `job[c]` the stage of the
blocking job `persist_snapshot`, which runs on when its caller is cancelled.
Tokens are abstracted to which call minted them, in its arguments or in its
result, so the token map `vault[s]`, the exported `bytes[c]` and the published
file `snap[s]` are sets of tokens. `disk[s]` is the directory entry that
survives a power loss: a rename changes `snap`, the directory sync copies it
to `disk`. Rows are modelled as durable once the statement has committed.
`Tunnelled` are the calls on databases behind an ssh tunnel, whose source may
block a thread of the runtime, and `Workers` the number of those threads; both
matter to fairness only. The
envelope of `gaze_mcp_core` (redact the arguments, begin, invoke, finish or
fail) is external code and modelled from the adapter it calls.

`AuditTrail` knows records, answers and restorable calls only: a call commits
when its tokens are restorable and stays restorable, and only a committed call
is answered with a result. The refinement maps the records to the manifest
rows and the restorable calls to those whose tokens are in the published file.

### AuditStore

Adds the age of a session (whether it exceeds the retention), tombstones, one
sweep per starting process and replayers. An open SQLite cursor holds a shared
lock, so no other process commits until it is closed (`Unlocked`,
`UnlockedFor`); a process that waits too long fails (`StartFails`, `AbortSweep`,
or the failing branches of a call). The order of the rows a cursor returns is
left open. A process whose start failed may be started again.

### Profiles, Redaction, ServeRun

A profile has a source (how to get there, what is there, how many password
references), a policy path, the production flag, a retention and a purge mode;
the merge takes each from the team, from the user, or the stricter of both, as
`merge_profiles` does. The kinds of source are those of the code, since two
sections of different kinds do not merge (`MergeSource`). A policy has column and class rules, a default action and
a name model or not. `ServeRun` goes through `serve::run` in its order: load and
select, sweep, read and check the policy of each profile, register, answer
calls. A read of a policy file returns any content, because the operator may
edit it at any time.

`Redaction` works on cells with a shape, a column, a class of personal data and a
size. The detectors are the library gaze; where two of its rules apply, it takes
either. The loop over the rows, its three caps, the probe for one row more, and the
cut of a text before it is redacted are as in the code.

### DbSources

A source is a profile of a process. `builder` is the permit of its OnceCell, `cell`
the sources that are built, `listener[n]` the ssh master that listens on a port,
which belongs to the machine and survives a killed process. `Far(s)` is where a
connection of `s` really ends up. `SshTunnel::open` blocks its thread, so neither
a timeout nor a shutdown interrupts it; every other step of a build is an await
at which the call may be dropped. Faults (a failing `ssh -O exit`, a connection
or a master that ends, a killed process) are bounded by `MaxFaults`.

### LogTail and KeywordSearch

The log is a sequence of bytes: a character of one byte, the two halves of a
character of two, and the newline. The local source reads backwards chunk by
chunk, then forwards, one byte further than the cap, and each read is a step
between which the application appends or a rotation empties the file. The remote tail reads
its file at one moment; the source closes the pipe at one byte over the cap and
kills the child when its timeout fires. The bytes become lines by the code's
rules: cap, UTF-8 check (local only), split, drop of empty lines, line cap,
lossy decoding. `KeywordSearch` indexes a window by the words of its lines,
intersects the sorted lists of a request's terms with two cursors (`Advance` is
one turn of the loop), and applies level, limit and status. What a filter keeps
is a set of positions, and `Pick` puts it in order. Lines have no white space and no punctuation, so
the key/value terms and the token terms of the index do not occur.

### LogSearch

A window is the time at which the log was read; an entry of a cache also has
the time at which it was stored, from which its TTL counts. A keyword call looks
into the index cache, then into the source's raw cache; a regex call only into
the latter, and ignores `refresh`. The timeout around the source bounds what is
between a lookup and the store; the one around the redaction encloses a block
that never yields, so it does not bound anything and the model has its own bound.

### InitFiles, InitRun

A file is its form (absent, not UTF-8, not parsable, text), the part of it that
`init` owns and whether it holds anything else. A section that
`validate_profile_bytes` refuses, wherever it came from, is `Unsound`; text
outside of the sections with `password =` in it counts as a section under a name
nobody gives to `init`. An MCP entry is `init`'s own, a legacy one, the operator's,
or one that `toml_entry` and `json_entry` do not see (`unseen`), which is
replaced without a flag. Each client has its file, and the plan has one target
for each `--client`, so a client named twice has its file rendered twice from the
same text and written twice. The scope decides in which directory the profile,
the policy and Cursor's file are; all invocations of a model use the same one,
since files in different places do not interact. `agreed` holds the questions
the operator said yes to, the typed user name of a production credential and the
migration of each file included, and `original` the files before the first run.

`InitRun` goes from the flags
through the questions to a plan, renders all files (phase A), stores the keyring
password after a preflight entry, and replaces the files one after another
(phase B). Nothing locks the files, so runs overlap freely; system calls of
phase B fail and runs are killed, up to `MaxFaults` times. `landed` and `alone`
are history variables: what a run really replaced and which runs were never
overlapped.

### Ledger, EnrollLoop, IdentityLedger

No two entries of a valid ledger share a generation, so `Ledger` keeps a ledger
as the set of its active and the set of its retired identities and states which
requests are accepted and what they leave. `EnrollLoop` runs the code's loops,
one requested identity per step, and is compared with `Ledger` on every input.
`IdentityLedger` uses the meaning: a server checks the history without the
lock, parses the authority again (any authority the operator may have written),
takes the lock or gives up, enrolls, renames, syncs and serves. `gone` and
`goneIds` are history variables: what was served once and dropped by a later
server.

### ServerConnections

`view[c]` is the copy of the authority a connection decides on; `Load` and the
check on the copy are separate steps, and the operator and the clock may move
in between. Fingerprints, credentials and frames are abstracted away; the file
is its version, whether its identities are the enrolled ones, and until when a
principal's grant is enabled. `Drop` is every silent end of a connection
(deadline, peer gone, malformed frame, no grant at Prepare); `Failing` is every
end with a failure frame.

### RemoteLog

`dog`, `due` and `thread` are the watchdog of `watchdog.rs`: who is admitted,
whether its deadline has passed, and where the deadline thread waits. `req[r]`
is where `to_call_tool_result` and the exchange of request `r` stand, `jobs` the
keyring and trust-root jobs that outlive their request. On the other side
`conn[r]` is the connection task and `worker[r]` the blocking reader, which runs
on when the connection is aborted and holds the permit until it ends. `readAt`
remembers how many edits of the grants file preceded the read. Frames, tokens
and lines are abstracted away; a frame that cannot be decoded is a failure.

## Runs, bounds and results

| run | bounds | result |
|---|---|---|
| `dispatch` | 2 calls on one session, one of them tunnelled, 2 threads | committed rows stay restorable, published maps only grow, summaries belong to open rows, the dispatch implements the audit trail, and every call that opened a row concludes unless ssh blocks it or every thread |
| `store` | 2 calls, 3 processes (two may sweep at once), 1 replayer | retention spares young sessions, the manifest is an audit of record, replays succeed only as a whole, and a sweep that ends has left nothing behind unreported |
| `serve` | 2 profiles and an unsafe name, two families of profile files, 2 policy files, tables of up to 3 rows with a row cap of 2, byte and cell caps of 4 and 2 | purges only with the team's consent, the gates hold for the policy that is used, answers follow their own profile's rules, cuts are reported exactly |
| `db_sources` | 2 processes, 2 profiles on one local port, 4 calls, 2 faults | no leaked ssh master, one build at a time, no connection through another source's tunnel while the own master lives |
| `log_tail` | every log of up to 5 bytes, 2 changes during the call, chunks of 2 bytes, caps of 2 lines, 3 bytes and 2 bytes per line, 3 keyword requests | an answer without a flag is whole, `no_matches` is true, the ssh child is reaped |
| `log_search` | 2 keyword calls, 1 regex call, TTLs, timeout and redaction of one unit, 5 units of time | a refresh reads the log anew through both caches; no answer is older than the TTLs, the timeout and the redaction add up to (a bound that is reached) |
| `init` | 2 invocations out of 5 command lines (two with a client named twice) on 5 machines, 1 fault | consent before anything lands, exact report of a partial batch, success means the whole plan, recovery is never refused for what an earlier run left, losses only by overlapping edits |
| `enroll_loop` | ledgers of up to 3 entries, 7 definitions of 2 ids, limit 4 | the loops compute what `Ledger` says; validate lets only valid ledgers through |
| `ledger` | 2 servers, 6 definitions of 2 ids, limit 3 | valid, append-only, nothing returns, one server at a time and serving the active entries |
| `nothing_returns` | as above, with power losses | violated, see below |
| `connections` | 3 connections of one principal, 2 permits, 1 per principal, 2 failures, 1 edit, 1 tick | released only on an authority read after encoding; no permit lost or doubled; every connection ends |
| `remote` | 2 requests, 1 permit, 2 edits of the grants | the proxy is serial, background work is bounded, revocation discards output, an overdue or cancelled request brings the proxy down |

Why these are enough: two calls exhibit every race for the snapshot file
(the proofs cover any number); a sweep races one live session and one other
sweep; the ledger needs one id with two generations, a redefinition, a change
of kind and a reused generation, and entries beyond the limit; a release needs
an edit between its two checks, and permits two connections of a principal that
compete while a third holds on; a read of a log needs a newline on either side of
a chunk, a character across the cap, and one byte that arrives between the
search and the read; a tunnel needs two profiles and two processes that want the
same port, one that is killed and one call that is dropped while another waits;
`init` needs a run that fails or is killed in the middle of its batch and a
second that overlaps it or follows it, with the file of a client written before
and after the one that fails; an answer needs rows below, at and above
the cap; a remote read needs a revocation and a restoration around it and a
reader that outlives its connection while another request waits for its permit;
the oldest answer needs one call that fetches, one that indexes the window at
the end of its life and one that hits the index at the end of its own. The edits,
faults, changes, the clock and the number of calls are bounded by constants
(`MaxEdits`, `MaxFaults`, `MaxWrites`, `MaxTime`, `Calls`, `Conns`, `Runs`), and
the deadlock check is off only where those bounds end a run.

Fairness. `dispatch` assumes that a task or blocking job that can take a
step takes one: the runtime polls ready tasks, a source call that awaits is under a
30 s timeout, and blocking jobs run to their end on threads of their own. A
tunnelled source is different: `SshTunnel::open` runs ssh with a blocking
`Command::status` inside the polled future, so the timeout cannot fire. Nothing is
assumed of a call at that point (`MayBlock`), nor of the tasks of a process all of
whose `Workers` are there (`WorkerFree`); `CallConcludes` excuses exactly these
states, and says of them that a call goes on once they are over. That a free
thread picks up any ready task is taken from the runtime. `connections` assumes
only that deadlines fire and that `finish` is bounded; nothing is assumed of
the peer. `remote` assumes that time passes, that a timed wait returns and that a
woken deadline thread runs; nothing is assumed of requests, of the service or of
any blocking job, which is what the watchdog is for. All other runs assume no fairness.

## Disagreements found

With a run:

* `NothingReturns` with power losses: a start that finds the ledger unchanged
  serves without syncing the directory. If the process that renamed the ledger
  died before its sync, a later power loss undoes the rename and a superseded
  generation or removed id can be served again, against
  `crates/gaze-lens-server/docs/phase2-proof.md`. Without power losses the
  property is proved.

Stated in the modules, and refuted by TLC when the definition is added to the
cfg of the module's run:

* `RowRefersToFile` (`AuditStore`): `write_private_file` means to persist the
  directory entry before a row can refer to it (`src/session/mod.rs:1549`). A
  sweep of another process removes the snapshot of a session older than the
  retention even if it still runs, so the file can be gone between the sync and
  the UPDATE.
* `TombstonedFileGone` (`AuditStore`): `restore_whole_session` says the file of
  a tombstoned row is gone (`src/session/restore.rs:104`). A session that
  outlives its retention publishes its whole token map again at its next call,
  and the removal is not synced, so a power loss can bring the file back.
* `UserRetentionWins` (`ServeRun`): `docs/reference/spec.md:163` says
  `snapshot_retention_days` merges by user-overrides-project; `merge_one`
  (`src/profile.rs:614`) takes the project's value first.
* `QueriesReadOnly` (`DbSources`): `docs/reference/spec.md:89` calls the
  queries read-only. `SET SESSION TRANSACTION READ ONLY` is sent once
  (`src/source/db/mysql.rs:91`); a connection the pool opens later in place of a
  lost one has not been set. The statements themselves are compiled SELECTs.
* `LocalTruncatesLikeSsh` (`LogTail`): `docs/reference/spec.md:96` says a local
  log has the same caps and truncation as one behind ssh. `tail_inner`
  (`src/source/log/local_log.rs:413`) cuts at a byte and then insists on UTF-8,
  so a cap in the middle of a character refuses the call that ssh_log truncates.
* `FailureNamesWhatLanded` (`InitRun`): `src/cli/init/mod.rs:448` says errors of
  the commit are wrapped so that callers see what landed. A directory that
  cannot be made, a target that cannot be read and a keyring step that fails end
  the run with a bare error, after files or the password have been replaced.
* `NoKeyringWriteHonoured` (`InitRun`): `--no-keyring-write` ("Do not write the
  keyring entry during init.", `src/cli/init/mod.rs:105`) does not keep a cloned
  production credential out of the keyring.
* `MergedPolicyAtFloor` (`InitRun`): "Allow init to merge a below-floor
  production policy up to the minimum." (`src/cli/init/mod.rs:142`); a default
  action `generalize` is below the floor and is kept.

## Proofs

Every theorem is of the form `Spec => []Inv`, `Spec => [][A]_vars` or a
refinement, for every value of the constants that satisfies the assumptions.
None of the properties is inductive as it stands. Each proofs module states the
inductive invariant as a conjunction of named parts, shows it for `Init` and
action by action for `Next`, and derives the properties. Each invariant was also
checked by TLC on its component's run.

| module | proved | the invariant adds |
|---|---|---|
| `AuditStoreProofs`, dispatch | types, `OkRowRestorable`, `AnswerIsAudited`, `SummaryOfOpenRow`, `TempsOwned`, `PublishedMapOnlyGrows`, refinement of `AuditTrail` | `LifeInv`, `LockInv`, `RowInv`, `MintInv`, `FileInv`, `CommitInv`, `TempInv` |
| `AuditStoreProofs`, store | types, `RetentionSparesYoung`, `NoMalformedRow`, `ReplayLossExplained`, `AuditOfRecord`, `ReplaySuccessIsWhole`, `SweepIsThorough` | `YoungInv`, `AgeInv`, `ScanInv`, `CursorInv` |
| `ServeRunProofs` | `PurgeAuthorised`, `GatesHold`, `RulesHold`, `CutIsReported` | `StageInv`, `ProfilesInv`, `RuntimeInv`, `SessionInv`, `AnswerInv` |
| `DbSourcesProofs` | types, `OneBuild`, `NoTunnelLeak`, `ThroughOwnTunnel` | `BuildInv`, `MasterInv`, `ConnInv` |
| `LogSearchProofs`, caches | types, `RefreshReadsAnew`, `StalenessBounded` | `ClockInv`, `StageInv`, `WindowInv`, `CacheInv` |
| `LogSearchProofs`, one read | `UnflaggedIsWhole`, `NoMatchesIsTrue`, `ChildEndsWithCall`, `SearchFindsWindow` | `ChildInv`, `BytesInv`, `LocatedInv` (`BaseKept`, `SearchInv`, `ReadInv`) |
| `InitRunProofs` | `LandsWithConsent`, `ReportIsExact`, `RecoveryNotRefused`, `SuccessIsPlan`, `LossExplained` | `RunInv` (`StageInv`, `RenderInv`, `ListInv`, `RefusalInv`), `FitInv`, `AloneInv` |
| `IdentityLedgerProofs`, the starts | types, `LedgerStaysValid`, `ServesWhatIsEnrolled`, and without power losses `NothingReturns`, `HistoryIsAppendOnly` | `LedgerInv`, `PastInv` |
| `IdentityLedgerProofs`, the loops | `LoopEnrolls`, `ValidateImpliesValid` | `LoopTypeInv`, `RunningInv` |
| `ServerConnectionsProofs` | types, `PermitsAccounted`, `ReleaseIsCurrent` | `PinInv`, `ReadInv` |
| `RemoteLogProofs` | types, `OneAtATime`, `BackgroundBounded`, `ReadUnderGrant` | `StartInv`, `StageInv`, `VouchInv` |

`AuditStoreProofs`, the dispatch. The parts are what a process that is not up cannot have
(`LifeInv`), that a job past its lock is the holder (`LockInv`), which rows a
call at some stage has (`RowInv`), that a call past redaction has its tokens in
the map (`MintInv`), that the published and the exported maps lie between what
was published and the current map (`FileInv`), and that a committed call, and one
whose job has ended well, is in the published and in the durable file
(`CommitInv`). The key step is the rename: the job exported the map under the
lock, the map only grows while the process runs, so the new file contains the
old one.

`AuditStoreProofs`, the store. A sweep takes the file of an expired session that may still
run, so the invariant of the dispatch no longer holds of all sessions. It is
therefore proved for an arbitrary set of sessions (`SafeInv(S)`): a step of the
dispatch keeps it for every such set, and `YoungInv` asks it of each session
within the retention. `AgeInv` says that sweeps have only ok rows of
expired sessions in hand. `ScanInv` and `CursorInv` say where the rows are with
respect to an open cursor; both need that no other process commits while a cursor
is open, which is why a replay that meets no tombstone has met them all.

`ServeRunProofs`. `ProfilesInv` says that every selected profile is a merge of
what the two files have under its name, `RuntimeInv` that what came out of
`runtime_policy` belongs to the profiles in their order and passed the gates with
the policy that was built. The lemmas are about the operators: a section is one
of the profiles of its file (`SectionFacts`), what a merge takes from whom
(`MergeFacts`), every merged or selected profile is such a merge (`MergedFacts`,
`SelectFacts`), a minimum that purges means that all of them purge
(`RetentionFacts`), a policy that passed the gate of a remote log has no action
that preserves (`RemoteHides`). Each of the operators chooses a least, last or k-th
number; that there is one is proved once from the library's well-foundedness of
the natural numbers (`LeastNat`), in the form "a set of numbers has a least
element", which the provers can apply where they cannot instantiate an induction
scheme.

The answers rest on what one cell, one row and one turn of the loop in
`redact_rows` do (`CellFacts`, `CleanRowFacts`, `TurnFacts`): a string that is
still raw under a rule is one the policy preserves, and the accumulator has a flag
exactly when something is missing from what it has seen. `Size` and the
accumulator are recursive functions. That such a function exists for every length
(`SumsExist`, `TurnsExist`), and that what is claimed of it holds at every
index (`SumsFacts`, `RedactRowsFacts`), is shown by least counterexample: a first index at
which it fails has a predecessor at which it holds. `SessionInv` says that the
pipeline of a profile is that of the policy its merged section names, and
`AnswerInv` that the two properties hold of the last answer.

`DbSourcesProofs`. `BuildInv` ties the OnceCell's permit to the call that
builds; `MasterInv` says which sources have a tunnel object (`TunnelInv`), that a
master listens on its own source's port and belongs to such a source unless it
was left behind (`ListenInv`), and that the port of a tunnel is its own until its
master ends (`OwnPortInv`); `ConnInv` says that only a source that got as far as
connecting has a connection. `ThroughOwnTunnel` follows at the moment of connecting from
`OwnPortInv`: `ExitOnForwardFailure` keeps a tunnel from existing without its port.

`LogSearchProofs`. A window passes through the source, the raw cache, the
redaction and the index; `WindowInv` and `CacheInv` bound its age at each place
from the bound at the one before. An entry stored by another call comes with
nothing but its two times, so the bound has to be one of the entry.

The read of a log is proved in the same module. The data part is about the
operators: `InOrder` lists a set in the one way there is (`InOrderLists`,
`ListsUnique`), after n turns the two cursors of `intersect_sorted` have what is
common to the two parts behind them (`Between`, `AdvanceKeeps`, `IntersectLists`),
so `matching_lines` lists the lines with all terms (`MatchingLists`), and an answer
without a flag, or one that says no_matches, speaks of all lines of its bytes
(`AnswerFacts`). Both loops are handled by least counterexample, as above. The
search part counts newlines: `SearchInv` says that `seen` is the number of newlines
behind `pos` in the bytes the file had when it was opened, and less than is
looked for; `ChunkFacts` adds a chunk to that, and `FoundWindow` and `WholeWindow`
turn the count into `WindowStart`, which knows nothing of chunks. `BaseKept`, that
a log that was not rotated still begins with those bytes, is what makes a chunk
read later agree with them, and `ReadInv` that what was read are the bytes from
the start of the window.

`InitRunProofs`. Most parts speak of one run: nothing is read, written or
reported before its stage and what lands had consent (`StageInv`); a file is
planned or rendered twice only for a client named twice, each rendering keeps
what its base holds of others, is fit to be rendered again, and drops legacy
entries with consent (`RenderInv`); applied, pending and landed follow the
position in the batch (`ListInv`); a refused run stopped at the file that explains
it (`RefusalInv`). `FitInv` says that a file no flag gets past was one before
the first run, since no write makes one, and `AloneInv` that what a run alone on
the machine has written last to a file is still in place (`LastSoFar`).
`ReportIsExact` needs the whole of `ListInv`: `write_one` strikes the first entry
with the path off the pending list, and because that list is always the rest of
the batch, the first is the right one even if the file comes again
(`WithoutHead`). That a plan repeats only clients named twice follows from how it
is put together (`Concatenated`, `McpTargetsFacts`, `PlannedPathsFacts`).

`IdentityLedgerProofs`. `LedgerInv` says that a process past `try_lock` holds the
lock, that a staged ledger is valid and continues the ledger it will replace
(this is what the lock is for) and that from the rename on the active entries
are the request of the holder; `PastInv` says that the ledger remembers
everything that was ever served and has retired what was dropped. Two lemmas
about `Enrolled` carry the data reasoning.

The loops of `Ledger::enroll` are proved beside it to compute `Enrolled`.
`RunningInv` says what the vector means between two turns: the ledger that was
read, with the requested identities that are done enrolled, each id once. `ValidateFacts` and
`ActiveIsLast` give the meaning of a vector that validates (no two entries share a
generation, and the last entry of an id is the active one, if any is), and
`LengthFacts` that the number of entries is that of the identities the set has,
which the code compares with its limit.

`ServerConnectionsProofs`. `PinInv` says at which stages a connection is counted
for a principal, `ReadInv` that the last decision is on a copy of the authority
read after the result was encoded. A step that opens or closes a connection
changes one cardinality by one; lemmas on what a step does to the permits
(`Proceeds` and its like) are shared by all actions.

`RemoteLogProofs`. `StartInv` says that only the start-up is supervised while the
proxy starts, `StageInv` which connection and reader a request at some stage has
(a reader that runs belongs to a live or an aborted connection, so no permit is
returned twice) and `VouchInv` that a reader that is done has checked the grant
again after it read. Here and in `ServerConnectionsProofs` the ranges of the
counters are not kept by the single steps but follow from the accounting, so the
inductive part only says that they hold naturals.

Assumptions are those on the constants, each named in the module that declares
them: calls belong to sessions, processes and profiles; the markers for "no
call", "no file", "no server", "none", "idle" and "unsound" are distinct from real values;
limits and times are numbers; requests and connections are finitely many (both
are counted); the invocations of `init` use known names and clients and the machines it
starts on have well-formed files, an absent one holding nothing; the profile
files of `serve` are sequences of profiles, a policy's rules have known actions
and its model for names is absent, broken or usable, and tables and texts are
sequences of cells and spans with a size; the authority files an operator may write
have finitely many identities; a log is a sequence of bytes, a chunk has at least
one, and a keyword pattern at least one term.

Only model-checked are the liveness properties (`CallConcludes`,
`ConnectionsEnd`, `OverdueDies`, `CancelledDies`), since fairness is beyond the
prover, and that the runs reach what they are meant to reach. Every invariant of
a passing run is proved. Three facts about numbers (`LeastNat` and its
neighbours) are proved in each module that uses them.

## What could follow

The key/value and token terms of the keyword index, the warn mode of retention
and the schema tokenizer are not in the models yet.

## Not modelled

* Wire protocol: typed encoders and decoders without state. A message is
  accepted or refused as a whole, and that is how the modules use it.
* Private files and server configuration: checks of metadata and TLS set-up at
  the start, nothing that changes later. Their refusals are failing branches.
* Checks, demo, command line, errors: output only.
* Discovery over ssh and the download of a name model in `init`: they suggest
  values of the plan, which is chosen freely.
* The detectors of personal data and the pipeline (the library gaze), SQLite,
  ssh, the keyring and the operating system: external, modelled as the code uses
  them.
* The text of SQL, regular expressions, decoding of column types, rendering and
  wording.
