# MCP Armor in TLA+

Models, model-checking runs and machine-checked proofs for the broker of
MCP Armor and the SDKs around it. Source paths are relative to the
repository; `proxy.rs` stands for `crates/mcparmor-broker/src/proxy.rs`, and so
on for its neighbours.

## 1. The system

`mcparmor run -- <tool>` puts a broker between an MCP host and a tool. The
broker is the tool's parent and owns its pipes; it inspects what the host sends,
scans what the tool answers, keeps an audit log, and decides when the session is
over. `mcparmor wrap` rewrites a host's configuration so that the host starts the
broker instead of the tool; the SDKs start brokers from Python and Node programs.

| Component | State | Operations | Interacts through |
|---|---|---|---|
| Forwarding tasks (`proxy.rs`) | two line readers, the tool's stdin, the set of pending `tools/list` ids | read, inspect, deny, forward; read, annotate, cut, scan, block or return | the pipes, the shared id set, the process-wide stdout, the audit log |
| Session (`proxy.rs`, `main.rs`) | join handles, the child, the session timer | join, reap, diagnose, time out, kill, shut down | awaits both tasks; signals the tool's process group |
| Audit writer (`audit_writer.rs`) | files `audit.jsonl`, `.1` ... `.5` | size check, rotation, append | every broker of a user and `mcparmor audit` use the same files |
| Audit command (`broker.rs`) | none of its own | filter and print; `--prune` rewrites the active file | the same files |
| Start-up (`broker.rs`, `manifest.rs`) | the manifest in force | resolve `--armor` or search upwards, strict fallback, `min_spec`, profile override, browser defaults | hands the manifest to the session and the sandbox |
| Inspection (`inspect.rs`, `policy.rs`) | none | collect strings, decode traversal, match paths, hosts, ports | its verdict is what the forwarding task acts on |
| Scanner (`scanner.rs`) | none | find, merge and redact secrets | its verdict is what the return task acts on |
| Host configuration (`broker.rs`, `cli.rs`) | the host's JSON files and their `.bak` | wrap, re-wrap, unwrap | files of other programs, which start what they find in them |
| Profiles, validate, status, init (`broker.rs`) | profile files | update, add; checks and prints | files, one download |
| Sandboxes (`sandbox/`) | none | select a provider, translate a manifest into Landlock or SBPL | the kernel, before the spawn |
| Pools of the SDKs (`_pool.py`, `pool.ts`) | idle list, all processes, waiters, flags | start, acquire, release, replace, close | broker processes, promises of many callers |
| Processes of the SDKs (`_process.py`, `process.ts`) | child, pipes | spawn, wait for ready, invoke with timeout, close | one request and one response on a pipe |
| Test kits, manifest and binary helpers of the SDKs | little | drive a broker in tests; validate; download | - |

What is hard here: two tasks and the main task write to one stdout; a set of ids
is filled by one task and emptied by the other; pipes fill up; either side may
close one direction, both, or die; the timer and the exit of strict mode cut
through all of it; several processes rotate, append to and rewrite the same files
without a lock, and any of them may be killed; a command line that one command
writes is read by two others and parsed by clap, while the files it names change;
two layers read one pattern in two ways; the pools' calls interleave with the
deaths of their processes, and a late answer stays in its pipe.

What makes each part correct:

* forwarding: admitted lines, all of them, once, in order; nothing else; a denial
  for each denied line; nothing after a violation with `--strict`; no secret in
  what is returned; the shield on every listing that was asked for; a log that
  neither lags nor lies;
* session: it ends when it should, loses nothing when it ends by itself, and
  leaves no tool behind;
* audit log: only the oldest entries go, the size stays bounded, pruning costs
  nothing it was not asked to drop;
* inspection and sandbox: a traversal is caught however it is spelled, a URL is judged
  by what its author wrote, the second layer takes nothing back;
* scanner: exactly the findings are replaced, in a line cut between characters;
* host configuration and start-up: the user's command always comes back, is the one
  that runs, and runs under the manifest that wrap found; `status` says so truly;
* pools: no process is shared or lost, waiting callers are served, close ends all.

## 2. Modules

| Module | Models | Extends |
|---|---|---|
| `Relay` | the two forwarding tasks, the pipes, stdout and the log, with any host and any tool | - |
| `Gate` | abstract specification: what a session promises, without tasks, pipes and log | - |
| `RelayRefinement` | the refinement mapping from `Relay` to `Gate` | `Relay` |
| `Session` | the main task around `Relay`: joins, reaping, diagnosis, timeout, kill, shutdown; fairness | `Relay` |
| `AuditLog` | the log on disk: writers, rotation, crashes, the pruner | - |
| `Policy` | the pure decisions of `policy.rs` and `inspect.rs` | - |
| `Seatbelt` | the profile generated for macOS | `Policy` |
| `Scanner` | cut, merge and redaction of a response | - |
| `Enforcement` | one call through both layers and its answer back | `Seatbelt`, `Scanner` |
| `Sandbox` | selection of a provider, what it claims, how a tool is spawned | - |
| `Startup` | how `run` comes to its manifest and its audit writer; `validate`, the templates of `init` | `Sandbox` |
| `HostConfig` | one entry of a configuration: wrap, unwrap, status, launch | `Startup` |
| `Deployment` | commands and edits over time, with kills between their writes | `HostConfig` |
| `Pool` | abstract specification of the pools of both SDKs | - |
| `NodePool` | `ArmoredPool` of the Node SDK | instance of `Pool` |
| `PyPool` | `ArmoredPool` of the Python SDK and the calls on its processes | instance of `Pool` |
| `Relay_proofs` | theorems about the two tasks: the tool, the host, the log, the shared ids, and that `Relay` implements `Gate` | `RelayRefinement`, `FiniteSetTheorems`, `TLAPS` |
| `Session_proofs` | theorems about whole sessions | `Session`, `Relay_proofs` |
| `AuditLog_proofs` | theorems about the size of the log, its order, and the pruner | `AuditLog`, `FiniteSetTheorems`, `SequenceTheorems`, `TLAPS` |
| `Enforcement_proofs` | the theorems that the two layers agree, that a URL means its parts, that traversals are caught and that a reply is its line, cut and redacted | `Enforcement`, `SequenceTheorems`, `WellFoundedInduction`, `TLAPS` |
| `Deployment_proofs` | theorems about what wrap, unwrap, status, launch and update do to each other | `Deployment`, `SequenceTheorems`, `WellFoundedInduction`, `TLAPS` |
| `Pool_proofs` | theorems about the abstract pool | `Pool`, `FiniteSetTheorems`, `TLAPS` |
| `NodePool_proofs` | theorems about the Node pool, and that it implements `Pool` | `NodePool`, `FiniteSetTheorems`, `TLAPS` |
| `PyPool_proofs` | the same for the Python pool, and whose answer a call reads | `PyPool`, `FiniteSetTheorems`, `SequenceTheorems`, `TLAPS` |
| `MC...` | inputs for TLC | the module they are named after (`MCRelay`: `RelayRefinement`) |

`Session` composes with `Relay` by conjunction: every step of a session is a step
of `Relay` together with one of the main task, or a step of the main task alone.
`Relay` by itself lets the runtime stop anywhere (`Cease`), so what holds of
`Relay` holds of every session, also of one whose broker is killed.

`Relay` takes the verdicts of the inspection and the findings of the scanner as
given, one kind of line for each; `Enforcement` computes them for a single call and
has no interleaving. In the same way `Startup` ends where `Relay` begins.

Definitions whose comment begins with "Mutant" are wrong on purpose. They are used
by no specification; putting one in the place of the definition after it shows
that a property notices.

### Relay and the code

| Code | Variables and actions |
|---|---|
| host and its pipe ends | `sent`, `hostOpen` (it may still write), `hostReads` (it is there to read), `hostSeen` (what it has read); `HostSends`, `HostCloses`, `HostTakes`, `HostDies` |
| `forward_host_to_tool` | `nread`, `fpc`, `toolIn`; `ReadHostLine` (with `track_tools_list_id` and the verdict of `check_message`), `HostEof`, `AuditInvoke`, `WriteToTool`, `WriteToToolFails`, `AuditViolation`, `DenyText`, `DenyNewline`, `StrictExit` |
| the tool and its pipes | `inbox`, `consumed`, `toolUp`, `toolListens` (its stdin is open), `toolOut`, `out`; `ToolReads`, `ToolWrites`, `ToolClosesStdin`, `ToolClosesStdout`, `ToolExits` |
| `forward_tool_to_host` | `taken`, `rpc`, `reply`; `TakeToolLine` (annotation and size limit), `ScanClean`, `ScanDetects` (`process_response`), `AuditResponse`, `ReturnText`, `ReturnNewline`, `ToolEof` |
| `tools_list_ids` | `listIds` |
| `write_raw_to_stdout` | `Emit`, once for the text and once for the newline; it waits while the pipe of a living host is full (`HostRoom`) |
| `write_*_audit` | `Record`: one entry, or none when auditing is off or the write fails |
| timeout error of `run_with_timeout` | `notice`; `NoticeText`, `NoticeNewline` |
| `ProxyConfig`, `ForwardConfig` | `config`, chosen in `Init`, never changed |

A line is a record of what the tasks tell apart: its kind, its id, and where in it
a secret stands relative to the size limit. JSON, regular expressions and the
policy's rules are behind these kinds. A pipe is a history with a read pointer, so
that the invariants can speak about the whole session. A write to the tool fails
(`WriteToToolFails`) when nothing listens behind the pipe: the tool is dead, or runs
and has closed its stdin.

### Session and the code

`main` follows `run_until_complete_or_timeout` and `run_with_timeout`: the two
joins in their order, `Reap` (`child.wait()` and `diagnose_early_exit`), or
`Elapse`, `Kill` (`kill_child_gracefully`), the error report. The detached tasks
go on during the kill, as they do in the code. After `returned` the runtime is
dropped (`Shutdown`); a `stdin` read that has begun is a blocking call that cannot
be cancelled, and so is a write to a pipe the host does not read, hence the state
`draining` (`ReadPending`, `WritePending`). `inWindow` is the three-second window of
the diagnosis; the timer itself is nondeterministic. `config.unix` is the platform:
elsewhere `Kill` kills nothing, as in the code (section 7).

### AuditLog and the code

Names and inodes are separate (`name`, `content`), since a rename moves a name
while a writer keeps its handle. Each writer goes through the system calls of
`AuditWriter::write`: size check, `exists`/`rename` for each index from
`MAX_ROTATIONS - 1` down to the active file, open for append, the text, the
newline. A writer may be killed between any two of them. The pruner reads, filters,
truncates and writes (`prune_audit_log`, `fs::write`). `exposed` is a history: the
entries that no pruner can be asked to spare, because they shared a line with another
or were written while the pruner was at work.

### Policy, Seatbelt, Scanner, Enforcement and the code

A string is a sequence of tokens: each punctuation mark the code looks for is a token,
all between is a word. `GlobMatches` is the `glob` crate as `policy.rs` calls it
(`require_literal_separator`); `DecodeTraversalChars`, `ContainsPathTraversal`,
`ParseHostPort`, `NetworkRuleMatches` follow the functions of their names step by
step. `Seatbelt` keeps a profile as the set of its allow rules, `GlobToSubpathPrefix`
being the cut at the first glob character; `MayWrite` and `MayConnect` are the
kernel's reading of them. `Scanner` has a line as its bytes, each the beginning or the
continuation of a character, and detections as ranges of bytes, which
`MergeDetections` and `Redact` treat as `scanner.rs` does.

`Enforcement` sends one call at a time through all of it: `HostCalls`, `Inspect`
(`check_message`), `ToolAnswers`, `Filter` (`apply_size_limit`, then
`process_response`), `NextCall`. Its properties compare the code's algorithms with
definitions of another shape: a traversal by enumerating its spellings, a URL by the
parts it was put together from, a reply by which bytes any detection covers.

### Sandbox, Startup, HostConfig, Deployment and the code

`Run` is `run` up to the spawn: `ResolveManifest`, `CheckMinSpec`, `Effective` (profile
override, then browser defaults), `BuildAuditWriter`, `SpawnToolProcess`
(`SelectSandbox`, `Apply`, `ConfigurePreExec`, the banner). The content of a manifest is
what that code tells apart: absent, torn, or JSON that passes the schema or not, loads or
not, with its profile, lock, `deny_local` and `min_spec`.

`HostConfig` has an entry's command line as a sequence of words. `BuildWrappedArgs`
writes it, `ExtractOriginal` unwinds it, `ExtractArmorPath` is how `status` reads it,
`ParseRunArgs` how clap does (`cli.rs`), and `Launch` is what the host starts from it.
A word is a path or, with an option's name in the first place, that option with its value
attached (`--armor=x`, `-ax`). `ClapAccepts` has what clap refuses: options it does not
know, or twice, or without a value, or with a value that begins with a hyphen. Two flags
in one word (`-va`), and `--help`, are left out.

In `Deployment` a command is a `job` whose writes are separate steps: `wrap` copies the
backup (truncate, fill), then writes the configuration (truncate, fill); `unwrap` only
writes; `init`, `profiles add` and each file of `profiles update` truncate and fill; a
download arrives or fails, and with a checksum only the published content passes.
`Crash` ends a job between any two steps. Users edit and delete the files at any time,
add entries, and restore the backup after a wrap that was killed. `original` and `found`
are histories: the tool of each entry as its user wrote it, and the absolute path that
wrap embedded.

### Pool, NodePool, PyPool and the code

`Pool` has a fixed number of places; each holds a process that is idle or in the hands of
one client, is vacant while a dead process is being replaced, or is lost when that
fails. `Exchange` and `Forfeit` retire and refill, or retire and lose, in one step, as
the synchronous `release` of the Python pool does. Both pools implement it by a mapping
of their own lists (`ImplementsPool` in each).

`NodePool`: one event loop runs everything, so an action is the code between two awaits.
`life`, `shut` and `ended` are a process as its object sees it (exit event, close
event, `close()` called), and `lingers` the brokers whose tool has outlived them: it has
their stderr (`proxy.rs:222`), and Node emits `close` when that is closed too (`ToolEnds`,
`Shuts`). `creating` and `failed` are the promises of `ArmoredProcess.spawn`. `ReleaseDead` spawns the replacement synchronously, as
`#replaceProcess` does up to its first await, and `Replace` is the rest of it.
`holds` is what the callers have.

`PyPool`: `start`, `release` and `close` await nothing, so each is one step whose outcome
says where an exception cut it; `acquire` is asyncio's `Queue.get` with its sleeping and
woken getters (`Get`, `Put`, `Resume`). `invoke` blocks a thread of its own: it writes
(`Invoke`), waits in `select` (`Selects`, `TimesOut`) and reads a line (`Returns`) through
the buffered reader, which may hold more than the line. The broker behind the pipe writes
one line per message, text and newline apart.

## 3. Runs

All runs finish well within five minutes on two cores.

| Run | Question | Answer |
|---|---|---|
| `relay_gate` | Do the tasks pass, refuse and return what they should, with `--strict` or not, against a tool that stalls, closes its stdin or dies, and a host that stops reading or leaves? | `TypeOK`, `ForwardsFaithfully`, `StrictStops`, `DenialsAnswered` hold; `Relay` implements `Gate` (`ImplementsGate`) |
| `relay_scan` | Are secrets kept back, answers in order and the log ahead of every act and true, whatever is interleaved and whenever the broker is killed? | `AuditFaithful`, `ResponsesInOrder`, `ScanVerdict` hold |
| `relay_annotate` | Does the shared id set mark exactly the right listings when ids are reused and answers overtake each other? | `ShieldsExact` holds |
| `session` | Does a session end, in each of the ways it can, with nothing lost and no tool left, and do denials arrive? | `SessionTypeOK`, `CleanEndLosesNothing`, `DiagnosisSound`, `NoToolLeftBehind` hold; so do `HangupEndsSession`, `DenialArrives`, `TimeoutEndsSession` under the fairness and the hypotheses of section 5 |
| `audit_log` | What do two writers, a pruner and crashes do to the log? | `TypeOK`, `OnlyOldestDiscarded`, `SizeBounded`, `PruneSparesRest` hold |
| `enforcement` | Do the two layers and the scanner decide what their authors meant, on tricky inputs? | `TraversalCaught`, `UrlMeansParts`, `LayersAgree`, `ReplyExact` hold |
| `deployment` | After any sequence of commands, kills and edits, does the user's tool come back, is it what runs, under which manifest, and what does `status` say? | `OriginalRecoverable`, `LaunchRunsOriginal`, `WrapDecides`, `StatusHonest`, `UpdateComplete`, `EffectiveManifest` hold |
| `node_pool` | Are processes of the Node pool shared, lost, or withheld from waiting callers? | `TypeOK`, `CapacityConserved`, `CloseEndsKnown`, `AcquirerServed`, and `CloseCompletes` if the tools end, hold; `NodePool` implements `Pool` (`ImplementsPool`) |
| `py_pool` | The same for the Python pool; and whose answer does a call return after timeouts? | `NoLostWakeup`, `CloseLeavesNone`, `AnswersLag` hold; `PyPool` implements `Pool` (`ImplementsPool`) |
| `relay_framing` | Is every text on stdout a line of its own? | No: a denial and a response can share a line (`LinesWhole`) |
| `session_unbounded_wait` | Is the whole session subject to `timeout_ms`? | No: `child.wait()` is not (`TimeoutIsAbsolute`) |
| `audit_race_rotation` | Does rotation discard only the oldest file? | Not with two writers (`RotationNeverOverwrites`) |

## 4. Bounds

* `MaxHostLines`, `MaxToolLines` (1 to 3): the tasks keep no state from line to
  line but the id set and whether they still run, so the pairs "a line and one
  after it" are what matters; three lines are used where ids are reused.
* `PipeCapacity` 1 makes the pipe full as soon as the tool has not read one line;
  2 lets answers overtake requests. `HostCapacity` 1 chunk fills the pipe to the host
  between a text and its newline.
* The line sets hold one line for every branch of the two loops that the properties of
  the run tell apart; ids are two where they matter, and interchangeable in
  `relay_annotate`, which checks an invariant only, so symmetry is sound there. `session`
  leaves the branches to the other runs, and has the lines that differ for its end.
  `relay_scan` keeps a log, the other runs none; writes of the log that fail
  (`AuditMayFail`) leave the tasks as they are without a log, and are in the theorems only.
* `Writers` 2, `MaxWrites` 2, `MaxRotations` 2, `SizeLimit` 1 chunk: a rotation of
  every length, a full set of names, a discarded file, and two rotations at once.
  `PruneTools` has one of the two writers, so that the filter keeps and drops.
* `Cases` of `enforcement`: families whose inputs are combined with each other only.
  `traversal` has every string of up to five pieces of a plain or encoded ".." (four, with the
  other spellings); `path` has every two of ten patterns against absolute and home paths of
  up to three components; `url` has every combination of scheme, user information, host, port
  and path, each with the separators that could mislead the parser, and a query or a fragment
  with no path before it, against five rule sets;
  `answer` has every line of up to five bytes with characters of up to three, up to two
  findings of each of two patterns, and limits before, in and behind a character.
* `MaxActs` 4: wrap, edit, re-wrap and unwrap, with a launch after each of them; an update
  of two profiles (one with a checksum, one without) that is interrupted and repeated.
  `SearchDepth` 3 is less than the depth of the host's directory with a manifest above it,
  so that the search both finds and misses. `Platforms` has one for each provider and one
  without any; what selects a provider is in `Sandbox` and in the theorems for every
  kernel. `Servers` has an entry that was wrapped by hand with other spellings of the
  options, `NewServers` one that clap rejects. `Dashed` are the names of options, and "--".
* `NodePool`: two places, three callers, two deaths (two replacements under way at once).
  A replacement that fails leaves one place to three callers, so that two wait in the queue
  for good and its order matters. `start()` is called once.
* `PyPool`: the same two places and four clients, three spawns (one replacement, or a
  `start` that fails and is called again), three messages (one that times out and two
  calls after it, on one process or two). `Late` lets a process outlive its SIGTERM.
  Clients are interchangeable there and no liveness is checked, so symmetry is sound.

`CHECK_DEADLOCK FALSE` is set where the system really may stop: sessions and pools
end, writers and commands stop at their bound. `enforcement` goes round for ever, and
there TLC checks for deadlock.

## 5. Fairness

`BrokerFairness` is weak fairness of each task of the runtime and of the main task
(tokio runs a task that is ready) and of the timer. Of the host and of the tool nothing
is assumed, except where a property says so. `ToolServes` (it reads its stdin and exits
at its end) is a hypothesis of `HangupEndsSession` and `DenialArrives`; without it both
fail, rightly, since a tool that never reads holds up the pipe for ever. `HostListens`
(a host that is there reads its end of stdout) is a hypothesis of whatever waits for a
write to the host: `write_all` and `flush` have no timeout (`proxy.rs:490-496`), so a
host that keeps the pipe and does not read it holds up a denial, the end of the session,
and even the report that it timed out (`proxy.rs:676`). `TimeoutEndsSession` says what
does not depend on the host: on Unix the tool comes to its end in any case. It needs
that the tool keeps its stdout while it runs; the run `session_unbounded_wait` shows why.

In `NodePool`, `Fairness` says that the event loop runs every continuation, that a
spawn settles (`waitReady` has a timeout), that a broker that was sent SIGTERM exits
(it installs no handler), and that a caller releases what it holds. `Acquire` and
`Close` are not fair, and nothing is assumed of the tools: that they end is a hypothesis
of `CloseCompletes` (`ToolsEnd`). The `close` event of a process is fair once its tool
is gone.

`PyPool` has no fairness: asyncio lets a newcomer take the process a woken getter was
woken for, again and again, so no acquirer is promised anything. What can be said is
`NoLostWakeup`. The other modules are about what commands and decisions do, not when.

## 6. Proofs

The proof modules are checked by `tlapm` (Z3, Zenon, LS4). From `RelayAssumption`
alone, so for every set of lines, ids and configurations, every bound and every pipe:

* `TypeCorrect`: `Spec => []TypeOK`.
* `ForwardingCorrect`: `Spec => []ForwardsFaithfully`.
* `StrictCorrect`: `Spec => []StrictStops`.
* `ScanCorrect`: `Spec => []ScanVerdict`.
* `AnswersCorrect`: `Spec => []ResponsesInOrder`.
* `DenialsCorrect`: `Spec => []DenialsAnswered`.
* `AuditCorrect`: `Spec => []AuditFaithful`.
* `MarksCorrect`: `Spec => []MarksWereRequested`, and `ShieldsCorrect`: `Spec => []ShieldsExact`
  if the tool's own requests use none of the host's ids (`RequestsApart`; see section 7).
* `RelayIsGate`: `Spec => ImplementsGate`, the refinement.
* `SessionIsRelay`: `SessionSpec => Spec`, and by it `SessionKeepsPromises`: the six
  promises above (without `TypeOK`) hold in every session.
* `SessionTypeCorrect`: `SessionSpec => []SessionTypeOK`.
* `LeavesNoTool`: `SessionSpec => []NoToolLeftBehind`, on Unix; elsewhere a session that
  timed out is excepted.
* `CleanEnd`: `SessionSpec => []CleanEndLosesNothing`.
* `DiagnosisCorrect`: `SessionSpec => []DiagnosisSound`.

From `AuditLogAssumption` alone, so for any finite number of writers, any limit, any number of
rotations and any kills:

* `LogTypeCorrect`: `Spec => []TypeOK`.
* `SizeCorrect`: `Spec => []SizeBounded`.
* `OrderCorrect`: `Spec => []OnlyOldestDiscarded`.
* `PruneSparesTheRest`: `Spec => []PruneSparesRest`, for any filter (`PruneTools`).

For any manifests, paths, URLs and home directory that are sequences of the same tokens
(`InputsAre`):

* `SecondLayerAgrees`: `Spec => []LayersAgree`;
* `UrlsMeanTheirParts`: `Spec => []UrlMeansParts`, for URLs none of whose parts contains the
  separator that ends it (`IsUrl`: no "/" before the path, no "@" or "/" in the host, digits or
  other text without separators as the port, and a host with a colon only if a port follows),
  and anything behind them. The property itself is about those where that is nothing or
  begins with "/" (section 7);
* `TraversalsAreCaught`: `Spec => []TraversalCaught`.
* `RepliesAreExact`: `Spec => []ReplyExact`, for any lines, limits and numbers of findings
  (`AnswersAre`: a limit is an integer, and what a pattern finds is not empty).

From the assumptions of `Deployment` (below), so for any entries, files, options, index, directories
and platforms, and any number of commands, edits and kills:

* `ToolsAreRecoverable`: `Spec => []OriginalRecoverable`.
* `LaunchIsFaithful`: `Spec => []LaunchRunsOriginal`.
* `WrapIsDecisive`: `Spec => []WrapDecides`.
* `StatusIsHonest`: `Spec => []StatusHonest`.
* `ManifestIsEffective`: `Spec => []EffectiveManifest`.
* `UpdateIsComplete`: `Spec => []UpdateComplete`.

From a finite set of clients and natural bounds alone:

* `PoolSound`: in the abstract pool no process is held twice or both held and idle, and the
  places of an open pool are idle, held, vacant or lost, and as many as its size.
* `NoneReturns`: a process that has left an open pool is never in it again.
* `NodePoolIsPool` and `PyPoolIsPool`: `Spec => ImplementsPool`; both SDKs' pools implement
  the abstract one, so `PoolSound` and `NoneReturns` hold of them under their mappings.
* of the Node pool, `TypeCorrect`, `CapacityIsConserved` (`CapacityConserved`) and
  `CloseEndsAll` (`CloseEndsKnown`);
* of the Python pool, `NoWakeupIsLost` (`NoLostWakeup`), `CloseLeavesNoneUp`
  (`CloseLeavesNone`) and `AnswersLagByTimeouts` (`AnswersLag`).

`ForwardsFaithfully` says what is in the tool's stdin, but not what the loop is
about to put there, so it is not inductive. The invariant `ForwardInv` adds: the
line the loop holds is the last one read, is of the kind its state says and has not
been delivered (`HeldIsNext`); delivered lines come before it and in order
(`OnlyAdmitted`, `InOrder`); nothing before it is missing while the tool lives
(`NoneMissing`); and in strict mode a violation that was read is the last line read,
and the loop is past reading (`ViolationIsLast`), which is where `StrictCorrect`
comes from. Each conjunct is preserved by the steps of the forwarding task; a frame
lemma (`ForwardFrame`) disposes of all steps that leave that task alone.

On the host's side three writers share one stdout, so the difficulty is that a chunk of
one may come between any two of another. `Grows` says what a step can do to stdout:
nothing, or one chunk more; `GrownParts` and `StillShown` say what that leaves true.
`ReturnInv` adds to `ScanVerdict` what the return task knows of its line: in which
states the line still counts as unscanned, clean or to be blocked (`ReplyJudged`), that
texts on stdout belong to lines taken before it (`ShownWereTaken`, from which
`ShownInTurn` follows when the next one comes), and that no line before it was swallowed
(`NoneSwallowed`). Only two actions matter, taking a line and showing it; `ReturnFrame`
covers all others, whatever they write. `DenyInv` is the same argument for the
denials of the forwarding task. TLC checked the three invariants, on the constants of
`relay_gate` and `relay_scan`, before they were proved.

The log, the tool's stdin and stdout are sequences that two tasks extend, and
`AuditFaithful` compares their contents and not their order. The proof therefore sees
them as sets of line numbers: `Invoked`, `Refused`, `Answered` and `Caught` for what is
logged, `ToTool`, `Denied`, `Returned` and `Blocked` for what is done. `AuditInv` says
of each task that what it did is logged, its line in hand excepted (`ForwardAhead`,
`ReturnAhead`), that what is logged is done, the line in hand excepted again, and of
the right kind (`InvokedSound`, `RefusedSound`, `AnsweredSound`, `CaughtSound`), and
that no entry occurs twice (`LoggedOnce`). `LogGrows` and `OutGrows` say what one more
entry or chunk does to those sets; a frame lemma for each half lets a step of one task be
argued without the other.

The shield is argued in two halves. That no line is marked unasked is counting: each request
read with an id stands for at most one of the id in the set, a mark in hand and a mark on
stdout (`MarksCounted`). That no first answer is missed goes through the tool: an id that was
asked with stays in the set until an answer with it is taken (`AskedTracked`), and a listing of
the tool answers a line it was given and so one that was read and tracked (`ListingsAsked`).

The refinement needs more than its mapping: a loop takes its next line only while it
may, and what it does with the line in hand must be a step of the gate. `GateInv` adds to
`ForwardInv`, `ReturnInv` and `DenyInv` that a loop which met a line that is no UTF-8 has
ended (`HostSideEnded`, `ToolSideEnded`) and that a reply in hand is of a kind the host
is answered with (`HandHasAnswer`). There is a lemma for each kind of step of the gate
(`GateReads`, `GateWrites`, `GateDenies`, `GateTakes`, `GateShows`), `Filling` for chunks that
complete no text, and `GateRests` and `Partners` for what the gate does not see.

A session is argued once, in `SessionStep`: each of its steps is one of `Relay` or leaves
`Relay`'s variables alone. Its own three invariants say where the main task stands.
`EndInv`: past the wait for the child, the child is dead. `CleanInv`: past the join of the
return task that task has ended, and it ends only when it has taken every line the tool
wrote and can write no more. `DiagnosisInv`: an early exit is noted only where the
record of the tool's death explains it, and what explains it cannot change after.

For the size of the log, `RoomInv` counts for each file who will still add a text or a newline
to it without another look at its size (`TextDue`, `NewlineDue`); a file that has been renamed
never is the active log again, so once a file is full these sets only shrink.

`OnlyOldestDiscarded` excuses what happens after a write overlapped a rotation (`raced`), so
`OrderInv` says what is true until then: who rotates is alone (`Alone`), who writes writes to the
active log (`ToActive`), no two names are of one file (`Distinct`), the name that a rotation moves
a file to is free unless it is the oldest (`FreeAbove`), and an entry still to be written is new
(`Fresh`). Without `FreeAbove` a rename could overwrite any file; with it a rename leaves the
places of the chunks in the same order (`Before`, `Places`, `Chunk`) or removes only those of
the oldest file, and an append adds one behind all others. For the pruner, `NthIs` and
`NthExists` say which lines it keeps and that no two of them have the same rank in the rewritten
file. For `PruneSparesRest` the proof follows each entry that is to be spared to where it is
(`Spared`): on a line of its own in a named file before the pruner reads (`OnLine`); then in what
the pruner holds or in a rotation (`Aside`), since a rotation may take the active file away between
the read and the truncation; and until the pruner writes, in what it holds or in a file that it
does not write to (`Saved`).

The two layers read one pattern in two ways: the first matches it, the second cuts it off before
its first glob character. What they share is what stands before the first star: `GlobLiteral`
says that a path which matches has it too, and `SubpathIs` that the cut ends within it, at
a slash. `GlobMatches` is a recursive function, so its value is known only once the equation that
defines it is shown to have a solution; `FitsExist` builds one from the end of the pattern
backwards. `AgreeAtHome` carries the agreement over to what `~` expands to. One
hypothesis came out of the proof: a path "~//x" is taken by `Path::join` for "/x", which is not
below the home directory, although the first layer lets "~/*/x" match it (`JoinsHome`; a tool
that expands "~" as a shell does is below it). For a URL, `RenderHasScheme` says that what was
put together from parts is inspected as one, and `PortsAgree` that the rule which lets it
through has left its port in the profile.

`UrlMeansParts` is about three searches that each stop at one separator. `Render` puts a URL
together as a scheme, an authority and a path (`IsText`, `RenderIs`); the first "://" is the one behind the scheme,
since any other is behind the first slash of the path (`SchemeAt`), the authority ends at the first slash
(`FirstSlash`), and its last "@" and then its last ":" are found from the end (`LastInFront`,
`AuthorityIs`, `HostAndPort`). `ParseRendered` says that host and port come out as they were put in.

For `TraversalCaught` the decoder is a recursive function too; `DecodeExists` builds it from the end.
Where no "%" is near another, each of its steps takes one unit, a token or three that
spell one (`DecodeUnit`), and no "%", dot or separator is inside a unit (`NextUnit`). `Laid` is the map
from the decoded tokens to where their units begin, built from the end again (`LayOne`, `LayAll`):
it reaches every place at which a spelling could begin. So a ".." between separators in the
decoded text and one spelled in the string are the same units (`Spelled`,
`TraversalExact`).

`ReplyExact` compares four loops with one definition of what each byte becomes. The cut is what
the search backwards stops at (`TruncateIs`, `CutIs`). Of the merge the invariant is `Merges`: the
spans are in order and do not touch, what is covered by some span is covered by some detection that was
taken in and the other way round, and each span begins with the first detection at its start, whose label it
keeps (`MergeFirst` for no detection, `MergeAppend` and `MergeExtend` for the two cases of `Extend`). It needs that the
detections come by their starts and that equal starts keep their order, so `ByStart` has to be
shown to exist first, by inserting one detection at a time (`InsertOne`, `OrderExists`). Since spans are replaced
from the last, the part of the text in front of a span is still the one the offsets are about: after `k` replacements
the text is the untouched bytes up to the span before, and behind them what the bytes are to be shown as
(`RedactOne`, `RedactAll`). What bytes are shown as is a sum from the left (`FlattenIs`), which grows by
the byte itself where no span is (`ShowsRun`) and by one label over a span (`ShowsLabel`). `ReplyInv`
adds what the call has seen: the reply is `process_response` of the answer that is at hand.

For the abstract pool the argument is counting: `Counts` says what the users of a function from
clients to processes are when one entry changes (`GivenUp`, `Given`), and each kind of
action moves one from one term of `NoneForgotten` to another. The invariants of the two pools
have the same plan. Processes are numbered in the order they are spawned, so that a spawn
finds a new one (`Numbered`); whatever is in a list was spawned (`SpawnsKnown`, `ProcsKnown`);
before `start()` resolves nothing is handed out (`StartKnown`); idle and held processes are apart
and nobody is in two lists (`PlacesKnown`). In Node `PlacesKept` counts: a process that is being
replaced keeps its place until the replacement takes it or fails, and no process is replaced
twice, which is the reason why the pool does not shrink while several die at once. `KnownEnded`
follows `close()` over its awaits. In Python `QueueKnown` says that an item in the queue while
getters sleep is one that a woken getter comes for, and `UpKnown` that every process that runs is
in the pool's list or was given up before it got ready. `AnswersLag` rests on `LineInv`: the
lines of a process, in its buffer and then in its pipe, are consecutive numbers which begin
with the first that no call has read, a call in hand excepted.

`Deployment` is proved in layers. Lemmas about words say what `SelectLastInSeq`, `ParseRunArgs`
and `ExtractOriginal` make of a command line that `BuildWrappedArgs` has put together, whatever is
in the user's part behind the separator (`Words`, `Runs`, `RunsAs`). `ConfigInv` then says that the
configuration is whole and recoverable or that what was torn is in the backup, which needs to know
at each step of a command what is about to be written (`JobKept`). `FilesInv` keeps all contents
manifests, which `Effective` needs. `FoundInv` says that what wrap noted is the `--armor` of
the entry, and that wrapping leaves no entry of another shape (`Wraps`). That clap accepts
what `wrap` writes (`WrapIsAccepted`), and that the value it takes is the word behind the
option (`ValueIsAfter`), is all the upper layers need to know of clap. `UpdateInv` follows an
update: what it is past is installed and what it writes is right (`UpdateKnown`), and what a
failed download leaves is only in a profile without a checksum (`GarbledKnown`).

What these proofs assume of the constants is stated where the constants are declared, and TLC
evaluates it on every run. Some of it was found by a proof that failed:

* `IsEntry`: an entry that names the broker in its user's own words is a `run`, whether clap accepts
  its options or not, and does not start a second broker behind its separator; a command is not called
  like the sandbox helper or `--armor`. `ExtractOriginal` takes the words of any other entry apart
  in a way its user did not mean.
* `EntriesAssumption`: the profile given to `wrap` does not begin with a hyphen: `wrap --profile=--`
  would embed a second separator before the tool's, and `wrap --profile=-x` a line that clap rejects.
* `UpdateAssumption`: the profiles of an index have different names, a download that went wrong is
  told from a good one by its content, and the users edit no community profile. A profile without a
  checksum may be what a failed download left, and `profiles add` may copy it; `AddKnown` and
  `GarbledKnown` had to allow for that.

`Name` is the set of words a command line is made of, a constant since the provers do not
know that a quoted word is a `STRING`; for TLC it is `STRING`.

Every safety invariant and action property of a passing run is proved. Only model-checked:
all liveness and everything about `ENABLED`, which is out of this prover's reach:
`HangupEndsSession`, `DenialArrives`, `TimeoutEndsSession`, `AcquirerServed` and `CloseCompletes`.

## 7. What the models leave out, and known divergences

Not modelled, and why:

* Landlock rules (`linux.rs`): the kernel's semantics of rules on open file descriptors is
  what they are about, and the code fails open as a whole (see below); only the selection,
  the claims and the hook are in `Sandbox`;
* manifest schema and serde beyond the outcomes named in `Startup`; clap beyond `run` and
  what `wrap` writes; message texts, error types, the JSON of the audit entries;
* the Node process's `invoke` (its pool is modelled), the SDKs' test kits, manifest
  validation and download of the binary: no state or pure I/O;
* web site, showcases, spike, packaging: no program logic;
* the tool's process group: a grandchild that keeps the tool's stdout open is a tool
  that keeps it open; a kill ends all of them;
* partial writes: a text larger than tokio's buffer is written in several pieces. One
  text is one chunk here, so `LinesWhole` fails already with the coarser step;
* the pipes to the host and to the tool hold whole texts; how many bytes fit is left out;
* several secrets in a line are one in `Relay`, and so is its audit entry; `Scanner` has several;
* `prune_old_files` of the audit writer, which deletes files named by date; no writer
  creates such files, so retention by age never takes place;
* a second concurrent `start()` of a pool, and a release of what is not held;
* two commands of `mcparmor` at once, and edits of a configuration between the read and
  the write of a `wrap` (they are lost);
* inputs of `Enforcement` with "~//" or with the globs "?" and "[...]"; of a "%" among the two
  characters behind another `TraversalCaught` says nothing (`PercentsApart`).

Divergences that have a run: section 3, last three rows. Others met on the way, for
which there is no run:

Sessions.

* A request of the tool's own with the id of a pending `tools/list` takes the id out of
  the tracked set, and the listing is returned without the shield (`proxy.rs:753`,
  `:772`). `ShieldsExact` therefore counts on a tool that only answers.
* An `invoke` entry is written before the write that may fail; it is documented as
  "received and forwarded" (`audit.rs:27`). `AuditFaithful` says what an entry does mean.
* A line that was let through when the tool had closed its stdin is dropped without an answer:
  the write fails, and the loop warns or ends (`proxy.rs:269`, `:310`). `ForwardsFaithfully`
  and the gate promise delivery only while the tool listens.
* The timeout kills the tool on Unix only. Elsewhere `kill_child_gracefully` is `let _ =
  child.kill();` (`proxy.rs:703`), a future that nobody polls, though its comment says it "falls
  back to `child.kill()`" (`proxy.rs:688`): the tool outlives its timeout until its pipes close.
* The wall-clock limit does not cover writes to the host: one that does not read its stdin holds
  up the report of the timeout, and the end of the session with it (`proxy.rs:676`).
* `process::exit` of strict mode cuts off what the other task was writing (`proxy.rs:332`).
* The clock of the early-exit diagnosis is read when the child is reaped
  (`proxy.rs:622`), after both joins, and not when it exits as `proxy.rs:605` has it.
* The manifest's documentation calls `timeout_ms` a limit of a single call
  (`docs/manifest-spec.md:162`); it limits the session.

Audit log.

* Two writers can put two entries on one line (`audit_writer.rs:129`), which the audit
  command skips as unreadable.
* `audit --prune` is described as "Remove entries older than the configured retention
  period" (`cli.rs:199`): with `--tool` or `--event` it drops the recent entries of all others
  (`broker.rs:1400-1403`), loses entries appended while it runs, and never looks at the
  rotated files. It truncates the file and then fills it, so a kill between loses what it meant
  to keep, although `broker.rs:1613` calls the rewrite atomic. `PruneSparesRest` says which
  entries are safe all the same.
* The manifest's `audit.redact_params` is never read by the broker (`audit.enabled` is).

Decisions.

* A network rule `*.domain` is documented as the domain and its subdomains; it matches by
  suffix without the dot (`policy.rs:122`), so `notdomain` is covered too; `UrlMeansParts` takes rules as the code reads them.
* `parse_host_port` ends host and port at a "/" only, although its comment says "Strip
  path/query/fragment" (`inspect.rs:190`). A query or a fragment right behind them is read as
  a part of them. `UrlMeansParts` excludes these URLs by name (`EndsAtSlash`).
* `decode_traversal_chars` consumes two characters behind each "%" whatever they are
  (`inspect.rs:87`), so a spelling among them is not decoded (`PercentsApart`).
* `parse_host_port` takes an IPv6 address without a port apart at its own last colon: in brackets it
  is denied, since what follows is no number, and without them its last group becomes the port
  (`IsUrl` excludes both).
* The label of a redacted secret may be longer than the secret, so a redacted reply may
  exceed `max_size_kb`, which is applied before.
* On Linux a pattern with a glob is opened as a path as it is; any rule that fails makes the
  whole ruleset fail, which is not fatal, and no TCP rule is ever made although the
  summary claims port enforcement on newer kernels.

Commands.

* `--no-armor-path` is documented as falling back to a community profile
  (`cli.rs:137-139`); `resolve_manifest` searches upwards and then takes the strict built-in.
* For a bare command `wrap` embeds the relative `armor.json` (`broker.rs:1209`), although
  `docs/integrations.md:113` promises absolute paths. `WrapDecides` is about absolute ones.
* `--rewrap` drops every other `run` option of the entry, its profile among them.
* `unwrap` writes even when nothing was wrapped and keeps no backup: killed half way it
  leaves nothing to recover from. `OriginalRecoverable` says so by its second conjunct.
* `status` knows `--armor` and a word behind it only (`broker.rs:709`); clap also takes `-a x`
  and `--armor=x` (`cli.rs:58`), for which `status` shows none or the fallback.
* A Landlock ruleset that fails is "non-fatal" (`linux.rs:188`), while `status` and the banner go
  on claiming the layer; `StatusHonest` is about the hook being in place (`Hooked`).
* `status` takes the first `--armor` of the whole command line, which may be the tool's own;
  shows the file's profile and not an embedded `--profile`; shows "fallback" where the
  broker would find a manifest by searching; and its summary counts an entry with a URL
  as armored whose row does not. `StatusHonest` has the conditions.
* `profiles add` checks the schema alone, then copies a file that may have changed; `init`
  looks whether its target exists long before it writes.
* The documentation has `--host vscode` and `--scope`, which are unknown or do nothing.

Pools.

* `ArmoredPool.close()` of the Node SDK does not resolve when a process of the pool died
  before it (the `close` event has passed, `process.ts:455`) or as long as a tool outlives its
  broker and keeps the stderr it has from it, although `process.ts:444` promises "A promise that
  resolves when the process has exited"; never settles the promises
  of waiting callers, and knows nothing of a start or a replacement that resolves later:
  their processes stay. `CloseCompletes`, `AcquirerServed` and `CloseEndsKnown` state the
  conditions under which the promises do hold.
* In Node a process that died of a signal has exit code `null` and passes for alive
  (`process.ts:308`), so the pool hands it out again.
* In Python an answer that comes after its call's timeout is returned by the next call on
  that process, which may be another client's; a line that is in the reader's buffer
  already does not wake `select`; and once `select` has seen half a line, `readline`
  waits for the rest without a timeout. `AnswersLag` counts exactly how late answers are.
* In Python a `start()` that failed after some spawns leaves them in the queue, and every
  later one fails on the full queue (`_pool.py:121`); a process whose ready signal does
  not come is not ended; a replacement that fails loses its place for good; an exception in
  `close()` ends its loop, and a second `close()` does nothing; callers waiting at
  `close()` never return, and one that was woken before it gets a closed process.

## 8. Plan

What is left, in this order:

1. `NodeProcess`: `invoke` on one pipe of the Node SDK, beside the calls of `PyPool`; a
   second `start()` for `NodePool`.
2. The rules of Landlock, with a model of what opening a path yields.
